----------------------------- MODULE JsonProofs -----------------------------
(***************************************************************************)
(* What the reader of JSON makes of texts of every length and nesting: it  *)
(* reads the requests the client writes, takes no answer that was cut off  *)
(* for one, and accepts what the grammar accepts.  Induction goes over the *)
(* length of what is left to read, by the least counterexample; that, and  *)
(* what lies in a flattened sequence, is FormatProofs'.                    *)
(***************************************************************************)
EXTENDS Json, FormatProofs

-----------------------------------------------------------------------------
(* Where the reader goes.                                                  *)

\* The symbols of a text are not the mark of its end.
IsText(t) == Len(t) \in Nat /\ \A k \in 1 .. Len(t) : t[k] # "end"

\* Where a reader may stand: at a symbol, or behind the last one.
Position(t) == 1 .. Len(t) + 1

\* What lies at a place of a text.
LEMMA AtIs ==
    ASSUME NEW t, IsText(t), NEW i \in Nat \ {0}
    PROVE  /\ i \in 1 .. Len(t) => At(t, i) = t[i]
           /\ At(t, i) = "end" <=> i > Len(t)
           /\ i \in Position(t) \/ At(t, i) = "end"
  BY DEF IsText, At, Position

\* White space ends somewhere.
LEMMA PastIs ==
    ASSUME NEW t, IsText(t), NEW i \in Position(t)
    PROVE  /\ Past(t, i) \in Position(t) /\ Past(t, i) >= i
           /\ At(t, Past(t, i)) \notin Space
           /\ \A k \in i .. Past(t, i) - 1 : At(t, k) \in Space
  <1> DEFINE Marks == {k \in i .. Len(t) + 1 : At(t, k) \notin Space}
  <1>1. Len(t) \in Nat /\ i \in Nat \ {0} /\ i <= Len(t) + 1
    BY DEF IsText, Position
  <1>2. Len(t) + 1 \in Marks
    <2>1. At(t, Len(t) + 1) = "end"
      BY <1>1 DEF At
    <2> QED BY <1>1, <2>1 DEF Space
  <1>3. PICK j \in Marks : \A k \in Marks : j <= k
    <2>1. Marks \subseteq Nat /\ Marks # {}
      BY <1>1, <1>2
    <2> HIDE DEF Marks
    <2> QED BY <2>1, Least
  <1>4. j \in i .. Len(t) + 1 /\ At(t, j) \notin Space
    OBVIOUS
  <1>5. \A k \in i .. j - 1 : At(t, k) \in Space
    <2> SUFFICES ASSUME NEW k \in i .. j - 1, At(t, k) \notin Space PROVE FALSE
      OBVIOUS
    <2>1. k \in i .. Len(t) + 1
      BY <1>1, <1>4
    <2>2. k \in Marks
      BY <2>1
    <2>3. j <= k
      BY <1>3, <2>2
    <2> QED BY <1>1, <1>4, <2>3
  <1> HIDE DEF Marks
  <1>6. /\ Past(t, i) \in i .. Len(t) + 1 /\ At(t, Past(t, i)) \notin Space
        /\ \A k \in i .. Past(t, i) - 1 : At(t, k) \in Space
    BY <1>4, <1>5 DEF Past
  <1> QED BY <1>1, <1>6 DEF Position

\* It ends where the first other symbol is.
LEMMA PastEnds ==
    ASSUME NEW t, IsText(t), NEW i \in Position(t), NEW j \in Position(t), j >= i,
           At(t, j) \notin Space, \A k \in i .. j - 1 : At(t, k) \in Space
    PROVE  Past(t, i) = j
  <1>1. PICK p \in Nat : p = Past(t, i)
    BY PastIs DEF Position
  <1>2. /\ p >= i /\ At(t, p) \notin Space /\ p \in Position(t)
        /\ \A k \in i .. p - 1 : At(t, k) \in Space
    BY <1>1, PastIs
  <1>3. ~(p < j) /\ ~(j < p)
    BY <1>2 DEF Position
  <1> QED BY <1>1, <1>2, <1>3 DEF Position

-----------------------------------------------------------------------------

\* The parts of JSON that recur.
Part == {"string", "number", "members", "items"}

\* What a part comes to that is read from i on.
Outcome(t, i, r) ==
    r = Broken \/ \E next \in i + 1 .. Len(t) + 1 : \E it : r = Done(next, it)

\* A step of the reader.
Step(t, f, p) ==
    LET i == p[2] IN
    CASE p[1] = "string"  -> ReadString(t, f, i)
      [] p[1] = "number"  -> ReadNumber(t, f, i)
      [] p[1] = "members" -> Listed(t, f, "members", ReadMember(t, f, i), "}")
      [] p[1] = "items"   -> Listed(t, f, "items", ReadValue(t, f, i), "]")

\* Two readers that have read alike what is behind i, as far as a reader can.
Alike(t, f, g, i) ==
    \A q \in Part : \A j \in i + 1 .. Len(t) + 1 :
        f[<<q, j>>] = g[<<q, j>>] /\ Outcome(t, j, f[<<q, j>>])

\* The fields of what a part returns.
LEMMA DoneIs ==
    ASSUME NEW n, NEW it
    PROVE  Done(n, it).ok = TRUE /\ Done(n, it).next = n /\ Done(n, it).it = it
           /\ Broken.ok = FALSE /\ Done(n, it) # Broken
  BY DEF Done, Broken

\* A part fails, or goes on behind where it began.
LEMMA OutcomeIs ==
    ASSUME NEW t, NEW i \in Position(t), NEW r, Outcome(t, i, r), IsText(t)
    PROVE  /\ r.ok \in BOOLEAN
           /\ ~r.ok => r = Broken
           /\ r.ok => r.next \in Position(t) /\ r.next > i /\ r = Done(r.next, r.it)
  <1>1. CASE r = Broken
    BY <1>1, DoneIs
  <1>2. CASE r # Broken
    <2>1. PICK next \in i + 1 .. Len(t) + 1 : \E it : r = Done(next, it)
      BY <1>2 DEF Outcome
    <2>2. PICK it : r = Done(next, it)
      BY <2>1
    <2>3. r.ok = TRUE /\ r.next = next /\ r.it = it
      BY <2>2, DoneIs
    <2>4. next \in Position(t) /\ next > i
      BY <2>1 DEF Position, IsText
    <2> QED BY <2>2, <2>3, <2>4
  <1> QED BY <1>1, <1>2

\* Behind i, and wrapped, what was read farther behind is as good.
LEMMA StillOutcome ==
    ASSUME NEW t, NEW i \in Position(t), NEW j \in Position(t), j >= i, NEW r, Outcome(t, j, r),
           NEW x, IsText(t)
    PROVE  /\ Outcome(t, i, r) /\ Outcome(t, i, With(x, r)) /\ Outcome(t, i, Typed(x, r))
  <1>1. CASE r = Broken
    BY <1>1 DEF Outcome, With, Typed, Broken
  <1>2. CASE r # Broken
    <2>0. PICK next \in j + 1 .. Len(t) + 1 : \E it : r = Done(next, it)
      BY <1>2 DEF Outcome
    <2>1. PICK it : r = Done(next, it)
      BY <2>0
    <2>2. next \in i + 1 .. Len(t) + 1
      BY <2>1 DEF Position, IsText
    <2>3. r.ok = TRUE /\ r.next = next /\ r.it = it
      BY <2>1, DoneIs
    <2>4. With(x, r) = Done(next, <<x>> \o it) /\ Typed(x, r) = Done(next, [type |-> x, of |-> it])
      BY <2>3 DEF With, Typed
    <2> QED BY <2>1, <2>2, <2>4 DEF Outcome
  <1> QED BY <1>1, <1>2

\* Behind a symbol there is another place.
LEMMA Onward ==
    ASSUME NEW t, IsText(t), NEW i \in Position(t), NEW j \in Position(t), j >= i, At(t, j) # "end"
    PROVE  /\ j \in 1 .. Len(t)
           /\ j + 1 \in i + 1 .. Len(t) + 1 /\ j + 1 \in Position(t) /\ j + 1 > i /\ j + 1 >= i
  <1>1. Len(t) \in Nat /\ i \in Nat \ {0} /\ j \in Nat \ {0} /\ j <= Len(t) + 1
    BY DEF IsText, Position
  <1>2. ~(j > Len(t))
    BY <1>1, AtIs
  <1> QED BY <1>1, <1>2 DEF Position

\* Places are numbers.
LEMMA PlaceIs ==
    ASSUME NEW t, IsText(t), NEW i \in Position(t)
    PROVE  Len(t) \in Nat /\ i \in Nat \ {0} /\ i <= Len(t) + 1
  BY DEF IsText, Position

\* The rest of a string is read from the places behind it alone, and ends behind it.
LEMMA StringSteps ==
    ASSUME NEW t, IsText(t), NEW i \in Position(t), NEW f, NEW g, Alike(t, f, g, i)
    PROVE  ReadString(t, f, i) = ReadString(t, g, i) /\ Outcome(t, i, ReadString(t, f, i))
  <1>0. Len(t) \in Nat /\ i \in 1 .. Len(t) + 1
    BY DEF IsText, Position
  <1>1. CASE At(t, i) = "end"
    BY <1>1 DEF ReadString, Outcome
  <1>2. CASE At(t, i) = "quote"
    <2>1. i \in 1 .. Len(t)
      BY <1>0, <1>2, AtIs
    <2>2. i + 1 \in i + 1 .. Len(t) + 1
      BY <1>0, <2>1
    <2>3. ReadString(t, f, i) = Done(i + 1, <<>>) /\ ReadString(t, g, i) = Done(i + 1, <<>>)
      BY <1>2 DEF ReadString
    <2> QED BY <2>2, <2>3 DEF Outcome
  <1>3. ASSUME NEW k \in {1, 2, 3}, i + k <= Len(t) + 1, NEW x
        PROVE  /\ With(x, f[<<"string", i + k>>]) = With(x, g[<<"string", i + k>>])
               /\ Outcome(t, i, With(x, f[<<"string", i + k>>]))
    <2>1. i + k \in i + 1 .. Len(t) + 1 /\ i + k \in Position(t) /\ i + k >= i
      BY <1>0, <1>3 DEF Position
    <2>2. /\ f[<<"string", i + k>>] = g[<<"string", i + k>>]
          /\ Outcome(t, i + k, f[<<"string", i + k>>])
      BY <2>1 DEF Alike, Part
    <2> QED BY <2>1, <2>2, StillOutcome
  <1>4. CASE At(t, i) = "backslash"
    <2>0. At(t, i) # "end" /\ At(t, i) # "quote" /\ At(t, i) = "backslash"
      BY <1>4
    <2>1. CASE At(t, i + 1) \in DOMAIN Escape
      <3>1. At(t, i + 1) # "end"
        BY <2>1 DEF Escape
      <3>2. i + 2 <= Len(t) + 1
        BY <1>0, <3>1, AtIs DEF Position
      <3>3. /\ ReadString(t, f, i) = With(Escape[At(t, i + 1)], f[<<"string", i + 2>>])
            /\ ReadString(t, g, i) = With(Escape[At(t, i + 1)], g[<<"string", i + 2>>])
        BY <2>0, <2>1 DEF ReadString
      <3> QED BY <1>3, <3>2, <3>3
    <2>2. CASE At(t, i + 1) \notin DOMAIN Escape /\ At(t, i + 1) = "u" /\ At(t, i + 2) = "hex"
      <3>1. i + 3 <= Len(t) + 1
        BY <1>0, <2>2, AtIs DEF Position
      <3>2. /\ ReadString(t, f, i) = With("unicode", f[<<"string", i + 3>>])
            /\ ReadString(t, g, i) = With("unicode", g[<<"string", i + 3>>])
        BY <2>0, <2>2 DEF ReadString
      <3> QED BY <1>3, <3>1, <3>2
    <2>3. CASE At(t, i + 1) \notin DOMAIN Escape /\ ~(At(t, i + 1) = "u" /\ At(t, i + 2) = "hex")
      <3>1. ReadString(t, f, i) = Broken /\ ReadString(t, g, i) = Broken
        BY <2>0, <2>3 DEF ReadString
      <3> QED BY <3>1 DEF Outcome
    <2> QED BY <2>1, <2>2, <2>3
  <1>5. CASE At(t, i) \notin {"end", "quote", "backslash"}
    <2>1. i + 1 <= Len(t) + 1
      BY <1>0, <1>5, AtIs
    <2>2. /\ ReadString(t, f, i) = With(At(t, i), f[<<"string", i + 1>>])
          /\ ReadString(t, g, i) = With(At(t, i), g[<<"string", i + 1>>])
      BY <1>5 DEF ReadString
    <2> QED BY <1>3, <2>1, <2>2
  <1> QED BY <1>1, <1>2, <1>4, <1>5

\* So is the rest of a number,
LEMMA NumberSteps ==
    ASSUME NEW t, IsText(t), NEW i \in Position(t), NEW f, NEW g, Alike(t, f, g, i)
    PROVE  ReadNumber(t, f, i) = ReadNumber(t, g, i) /\ Outcome(t, i, ReadNumber(t, f, i))
  <1>0. Len(t) \in Nat /\ i \in 1 .. Len(t) + 1
    BY DEF IsText, Position
  <1>1. CASE At(t, i) = "digit"
    <2>1. i + 1 \in i + 1 .. Len(t) + 1 /\ i + 1 \in Position(t) /\ i + 1 >= i
      BY <1>0, <1>1, AtIs DEF Position
    <2>2. /\ f[<<"number", i + 1>>] = g[<<"number", i + 1>>]
          /\ Outcome(t, i + 1, f[<<"number", i + 1>>])
      BY <2>1 DEF Alike, Part
    <2>3. Outcome(t, i, f[<<"number", i + 1>>])
      BY <2>1, <2>2, StillOutcome
    <2>4. Outcome(t, i, Done(i + 1, <<>>))
      BY <2>1 DEF Outcome
    <2> QED BY <2>2, <2>3, <2>4, <1>1 DEF ReadNumber
  <1>2. CASE At(t, i) # "digit"
    BY <1>2 DEF ReadNumber, Outcome
  <1> QED BY <1>1, <1>2

\* What is read behind a place counts from there.
LEMMA Farther ==
    ASSUME NEW t, IsText(t), NEW i \in Position(t), NEW j \in Position(t), j >= i,
           NEW f, NEW g, Alike(t, f, g, i)
    PROVE  Alike(t, f, g, j)
  <1>1. j + 1 .. Len(t) + 1 \subseteq i + 1 .. Len(t) + 1
    BY DEF IsText, Position
  <1> QED BY <1>1 DEF Alike

\* a value,
LEMMA ValueSteps ==
    ASSUME NEW t, IsText(t), NEW i \in Position(t), NEW f, NEW g, Alike(t, f, g, i)
    PROVE  ReadValue(t, f, i) = ReadValue(t, g, i) /\ Outcome(t, i, ReadValue(t, f, i))
  <1>0. Len(t) \in Nat /\ i \in 1 .. Len(t) + 1
    BY DEF IsText, Position
  <1>1. PICK s \in Position(t) : s = Past(t, i) /\ s >= i
    BY PastIs
  <1>2. PICK c : c = At(t, s)
    OBVIOUS
  <1>3. PICK e : e = Past(t, s + 1)
    OBVIOUS
  <1>4. ASSUME NEW r, NEW x, NEW j \in Position(t), j >= i, Outcome(t, j, r)
        PROVE  Outcome(t, i, Typed(x, r))
    BY <1>4, StillOutcome
  <1>5. ASSUME NEW n \in i + 1 .. Len(t) + 1, NEW it PROVE Outcome(t, i, Done(n, it))
    BY DEF Outcome
  <1>6. c # "end" => s + 1 \in i + 1 .. Len(t) + 1 /\ s + 1 \in Position(t) /\ s + 1 >= i
    BY <1>0, <1>1, <1>2, AtIs DEF Position
  <1>7. ASSUME NEW q \in Part, c # "end"
        PROVE  f[<<q, s + 1>>] = g[<<q, s + 1>>] /\ Outcome(t, s + 1, f[<<q, s + 1>>])
    BY <1>6, <1>7 DEF Alike
  <1>8. c # "end" /\ At(t, e) # "end" => e + 1 \in i + 1 .. Len(t) + 1
    <2> SUFFICES ASSUME c # "end", At(t, e) # "end" PROVE e + 1 \in i + 1 .. Len(t) + 1
      OBVIOUS
    <2>1. e \in Position(t) /\ e >= s + 1
      BY <1>3, <1>6, PastIs
    <2> QED BY <1>0, <1>1, <2>1, AtIs DEF Position
  <1>9. CASE c = "quote"
    <2>1. /\ ReadValue(t, f, i) = Typed("String", f[<<"string", s + 1>>])
          /\ ReadValue(t, g, i) = Typed("String", g[<<"string", s + 1>>])
      BY <1>1, <1>2, <1>9 DEF ReadValue, Literal
    <2> QED BY <1>4, <1>6, <1>7, <1>9, <2>1 DEF Part
  <1>10. CASE c \in Literal
    <2>1. /\ ReadValue(t, f, i) = Done(s + 1, [type |-> c, of |-> <<>>])
          /\ ReadValue(t, g, i) = Done(s + 1, [type |-> c, of |-> <<>>])
      BY <1>1, <1>2, <1>10 DEF ReadValue, Literal
    <2>2. c # "end"
      BY <1>10 DEF Literal
    <2> QED BY <1>5, <1>6, <2>1, <2>2
  <1>11. CASE c = "{"
    <2>1. CASE At(t, e) = "}"
      <3>1. /\ ReadValue(t, f, i) = Typed("Object", Done(e + 1, <<>>))
            /\ ReadValue(t, g, i) = Typed("Object", Done(e + 1, <<>>))
        BY <1>1, <1>2, <1>3, <1>11, <2>1 DEF ReadValue, Literal
      <3>2. Outcome(t, i, Done(e + 1, <<>>))
        BY <1>5, <1>8, <1>11, <2>1
      <3>3. i >= i
        BY <1>0
      <3> QED BY <1>4, <3>1, <3>2, <3>3
    <2>2. CASE At(t, e) # "}"
      <3>1. /\ ReadValue(t, f, i) = Typed("Object", f[<<"members", s + 1>>])
            /\ ReadValue(t, g, i) = Typed("Object", g[<<"members", s + 1>>])
        BY <1>1, <1>2, <1>3, <1>11, <2>2 DEF ReadValue, Literal
      <3> QED BY <1>4, <1>6, <1>7, <1>11, <3>1 DEF Part
    <2> QED BY <2>1, <2>2
  <1>12. CASE c = "["
    <2>1. CASE At(t, e) = "]"
      <3>1. /\ ReadValue(t, f, i) = Typed("Array", Done(e + 1, <<>>))
            /\ ReadValue(t, g, i) = Typed("Array", Done(e + 1, <<>>))
        BY <1>1, <1>2, <1>3, <1>12, <2>1 DEF ReadValue, Literal
      <3>2. Outcome(t, i, Done(e + 1, <<>>))
        BY <1>5, <1>8, <1>12, <2>1
      <3>3. i >= i
        BY <1>0
      <3> QED BY <1>4, <3>1, <3>2, <3>3
    <2>2. CASE At(t, e) # "]"
      <3>1. /\ ReadValue(t, f, i) = Typed("Array", f[<<"items", s + 1>>])
            /\ ReadValue(t, g, i) = Typed("Array", g[<<"items", s + 1>>])
        BY <1>1, <1>2, <1>3, <1>12, <2>2 DEF ReadValue, Literal
      <3> QED BY <1>4, <1>6, <1>7, <1>12, <3>1 DEF Part
    <2> QED BY <2>1, <2>2
  <1>13. CASE c = "end"
    <2>1. ReadValue(t, f, i) = Broken /\ ReadValue(t, g, i) = Broken
      BY <1>1, <1>2, <1>13 DEF ReadValue, Literal
    <2> QED BY <2>1 DEF Outcome
  <1>14. CASE c \notin {"quote", "{", "[", "end"} \union Literal
    <2>1. /\ ReadValue(t, f, i) = Typed("Number", ReadNumber(t, f, s))
          /\ ReadValue(t, g, i) = Typed("Number", ReadNumber(t, g, s))
      BY <1>1, <1>2, <1>14 DEF ReadValue
    <2>2. ReadNumber(t, f, s) = ReadNumber(t, g, s) /\ Outcome(t, s, ReadNumber(t, f, s))
      BY <1>1, Farther, NumberSteps
    <2> QED BY <1>1, <1>4, <2>1, <2>2
  <1> QED BY <1>9, <1>10, <1>11, <1>12, <1>13, <1>14

\* a key with its value,
LEMMA MemberSteps ==
    ASSUME NEW t, IsText(t), NEW i \in Position(t), NEW f, NEW g, Alike(t, f, g, i)
    PROVE  ReadMember(t, f, i) = ReadMember(t, g, i) /\ Outcome(t, i, ReadMember(t, f, i))
  <1>0. Len(t) \in Nat /\ i \in 1 .. Len(t) + 1
    BY DEF IsText, Position
  <1>1. PICK k \in Position(t) : k = Past(t, i) /\ k >= i
    BY PastIs
  <1>2. CASE At(t, k) # "quote"
    <2>1. ReadMember(t, f, i) = Broken /\ ReadMember(t, g, i) = Broken
      BY <1>1, <1>2 DEF ReadMember
    <2> QED BY <2>1 DEF Outcome
  <1>3. CASE At(t, k) = "quote"
    <2>1. k + 1 \in i + 1 .. Len(t) + 1 /\ k + 1 \in Position(t) /\ k + 1 > i
      BY <1>0, <1>1, <1>3, AtIs DEF Position
    <2>2. PICK key : key = f[<<"string", k + 1>>] /\ key = g[<<"string", k + 1>>]
                     /\ Outcome(t, k + 1, key)
      BY <2>1 DEF Alike, Part
    <2>3. CASE ~key.ok
      <3>1. ReadMember(t, f, i) = Broken /\ ReadMember(t, g, i) = Broken
        BY <1>1, <2>2, <2>3 DEF ReadMember
      <3> QED BY <3>1 DEF Outcome
    <2>4. CASE key.ok
      <3>1. key.next \in Position(t) /\ key.next > k + 1
        BY <2>1, <2>2, <2>4, OutcomeIs
      <3>2. PICK c \in Position(t) : c = Past(t, key.next) /\ c >= key.next
        BY <3>1, PastIs
      <3>3. CASE At(t, c) # ":"
        <4>1. ReadMember(t, f, i) = Broken /\ ReadMember(t, g, i) = Broken
          BY <1>1, <2>2, <3>2, <3>3 DEF ReadMember
        <4> QED BY <4>1 DEF Outcome
      <3>4. CASE At(t, c) = ":"
        <4>1. c + 1 \in Position(t) /\ c + 1 >= i
          BY <1>0, <1>1, <2>1, <3>1, <3>2, <3>4, AtIs DEF Position
        <4>2. PICK value : /\ value = ReadValue(t, f, c + 1) /\ value = ReadValue(t, g, c + 1)
                           /\ Outcome(t, c + 1, value)
          BY <4>1, Farther, ValueSteps
        <4>3. CASE ~value.ok
          <5>1. ReadMember(t, f, i) = Broken /\ ReadMember(t, g, i) = Broken
            BY <1>1, <2>2, <3>2, <4>2, <4>3 DEF ReadMember
          <5> QED BY <5>1 DEF Outcome
        <4>4. CASE value.ok
          <5>1. /\ ReadMember(t, f, i) = Done(value.next, <<key.it, value.it>>)
                /\ ReadMember(t, g, i) = Done(value.next, <<key.it, value.it>>)
            BY <1>1, <1>3, <2>2, <2>4, <3>2, <3>4, <4>2, <4>4 DEF ReadMember
          <5>2. value.next \in i + 1 .. Len(t) + 1
            <6>1. value.next \in Position(t) /\ value.next > c + 1
              BY <4>1, <4>2, <4>4, OutcomeIs
            <6> QED BY <1>0, <4>1, <6>1 DEF Position
          <5> QED BY <5>1, <5>2 DEF Outcome
        <4> QED BY <4>3, <4>4
      <3> QED BY <3>3, <3>4
    <2> QED BY <2>3, <2>4
  <1> QED BY <1>2, <1>3

\* A closing mark is neither the comma nor the end of the text.
Closing(close) == close \notin {",", "end"}

\* and what follows an element of an object or array.
LEMMA ListSteps ==
    ASSUME NEW t, IsText(t), NEW i \in Position(t), NEW f, NEW g, Alike(t, f, g, i),
           NEW part \in Part, NEW close, NEW r, Outcome(t, i, r),
           Closing(close)
    PROVE  /\ Listed(t, f, part, r, close) = Listed(t, g, part, r, close)
           /\ Outcome(t, i, Listed(t, f, part, r, close))
  <1>0. Len(t) \in Nat /\ i \in 1 .. Len(t) + 1
    BY DEF IsText, Position
  <1>1. CASE ~r.ok
    <2>1. Listed(t, f, part, r, close) = Broken /\ Listed(t, g, part, r, close) = Broken
      BY <1>1 DEF Listed
    <2> QED BY <2>1 DEF Outcome
  <1>2. CASE r.ok
    <2>1. r.next \in Position(t) /\ r.next > i
      BY <1>2, OutcomeIs
    <2>2. PICK a \in Position(t) : a = Past(t, r.next) /\ a >= r.next
      BY <2>1, PastIs
    <2>3. ASSUME At(t, a) # "end"
          PROVE  /\ a + 1 \in i + 1 .. Len(t) + 1 /\ a + 1 \in Position(t) /\ a + 1 > i
                 /\ a + 1 >= i
      <3>1. PICK n \in Position(t) : n = r.next /\ n > i /\ a >= n
        BY <2>1, <2>2, Zenon
      <3>2. n > i /\ a >= n
        BY <3>1, Zenon
      <3>3. a >= i
        BY <3>2, PlaceIs
      <3> QED BY <2>3, <3>3, Onward
    <2>4. PICK after : after = After(t, a, close)
      OBVIOUS
    <2>5. CASE At(t, a) = ","
      <3>1. after.on = "more" /\ after.next = a + 1
        <4>1. At(t, a) # close
          BY <2>5 DEF Closing
        <4> QED BY <2>4, <2>5, <4>1 DEF After, Goes
      <3>2. /\ Listed(t, f, part, r, close) = With(r.it, f[<<part, a + 1>>])
            /\ Listed(t, g, part, r, close) = With(r.it, g[<<part, a + 1>>])
        BY <1>2, <2>2, <2>4, <3>1 DEF Listed
      <3>3. f[<<part, a + 1>>] = g[<<part, a + 1>>] /\ Outcome(t, a + 1, f[<<part, a + 1>>])
        BY <2>3, <2>5 DEF Alike
      <3>4. a + 1 \in Position(t) /\ a + 1 >= i
        BY <2>3, <2>5
      <3>5. Outcome(t, i, With(r.it, f[<<part, a + 1>>]))
        BY <3>3, <3>4, StillOutcome
      <3> QED BY <3>2, <3>3, <3>5
    <2>6. CASE At(t, a) # "," /\ At(t, a) = close
      <3>1. after.on = "closed" /\ after.next = a + 1
        BY <2>4, <2>6 DEF After, Goes, Closing
      <3>2. /\ Listed(t, f, part, r, close) = Done(a + 1, <<r.it>>)
            /\ Listed(t, g, part, r, close) = Done(a + 1, <<r.it>>)
        BY <1>2, <2>2, <2>4, <3>1 DEF Listed
      <3>3. a + 1 \in i + 1 .. Len(t) + 1
        <4>1. At(t, a) # "end"
          BY <2>6 DEF Closing
        <4> QED BY <2>3, <4>1
      <3> QED BY <3>2, <3>3 DEF Outcome
    <2>7. CASE At(t, a) # "," /\ At(t, a) # close
      <3>1. after.on = "wrong"
        BY <2>4, <2>7 DEF After, Goes
      <3>2. Listed(t, f, part, r, close) = Broken /\ Listed(t, g, part, r, close) = Broken
        BY <1>2, <2>2, <2>4, <3>1 DEF Listed
      <3> QED BY <3>2 DEF Outcome
    <2> QED BY <2>5, <2>6, <2>7
  <1> QED BY <1>1, <1>2

\* So is every part.
LEMMA Steps ==
    ASSUME NEW t, IsText(t), NEW i \in Position(t), NEW f, NEW g, Alike(t, f, g, i),
           NEW part \in Part
    PROVE  Step(t, f, <<part, i>>) = Step(t, g, <<part, i>>)
           /\ Outcome(t, i, Step(t, f, <<part, i>>))
  <1>1. CASE part = "string"
    BY <1>1, StringSteps DEF Step
  <1>2. CASE part = "number"
    BY <1>2, NumberSteps DEF Step
  <1>3. CASE part = "members"
    <2>1. ReadMember(t, f, i) = ReadMember(t, g, i) /\ Outcome(t, i, ReadMember(t, f, i))
      BY MemberSteps
    <2>2. PICK r : r = ReadMember(t, f, i) /\ Outcome(t, i, r)
      BY <2>1
    <2>3. PICK close : close = "}"
      OBVIOUS
    <2>4. Closing(close)
      BY <2>3 DEF Closing
    <2>5. /\ Step(t, f, <<part, i>>) = Listed(t, f, part, r, close)
          /\ Step(t, g, <<part, i>>) = Listed(t, g, part, r, close)
      BY <1>3, <2>1, <2>2, <2>3 DEF Step
    <2>6. /\ Listed(t, f, part, r, close) = Listed(t, g, part, r, close)
          /\ Outcome(t, i, Listed(t, f, part, r, close))
      BY <2>2, <2>4, ListSteps
    <2> QED BY <2>5, <2>6
  <1>4. CASE part = "items"
    <2>1. ReadValue(t, f, i) = ReadValue(t, g, i) /\ Outcome(t, i, ReadValue(t, f, i))
      BY ValueSteps
    <2>2. PICK r : r = ReadValue(t, f, i) /\ Outcome(t, i, r)
      BY <2>1
    <2>3. PICK close : close = "]"
      OBVIOUS
    <2>4. Closing(close)
      BY <2>3 DEF Closing
    <2>5. /\ Step(t, f, <<part, i>>) = Listed(t, f, part, r, close)
          /\ Step(t, g, <<part, i>>) = Listed(t, g, part, r, close)
      BY <1>4, <2>1, <2>2, <2>3 DEF Step
    <2>6. /\ Listed(t, f, part, r, close) = Listed(t, g, part, r, close)
          /\ Outcome(t, i, Listed(t, f, part, r, close))
      BY <2>2, <2>4, ListSteps
    <2> QED BY <2>5, <2>6
  <1> QED BY <1>1, <1>2, <1>3, <1>4 DEF Part

\* A reader that is right from a place on.
Solved(t, f, n) ==
    \A q \in Part : \A i \in n .. Len(t) + 1 :
        f[<<q, i>>] = Step(t, f, <<q, i>>) /\ Outcome(t, i, f[<<q, i>>])

\* The place before can be added to it.
LEMMA OneMore ==
    ASSUME NEW t, IsText(t), NEW n \in Position(t), NEW f, Solved(t, f, n + 1)
    PROVE  \E g : g = [p \in Part \X Position(t) |-> g[p]] /\ Solved(t, g, n)
  <1> DEFINE g == [p \in Part \X Position(t) |-> IF p[2] = n THEN Step(t, f, p) ELSE f[p]]
  <1>0. Len(t) \in Nat /\ n \in Nat \ {0} /\ n <= Len(t) + 1
    BY PlaceIs
  <1>1. g = [p \in Part \X Position(t) |-> g[p]]
    OBVIOUS
  <1>2. ASSUME NEW q \in Part, NEW i \in Position(t)
        PROVE  g[<<q, i>>] = IF i = n THEN Step(t, f, <<q, i>>) ELSE f[<<q, i>>]
    OBVIOUS
  <1> HIDE DEF g
  <1>3. ASSUME NEW i \in Position(t), i >= n PROVE Alike(t, f, g, i)
    <2> SUFFICES ASSUME NEW q \in Part, NEW j \in i + 1 .. Len(t) + 1
                 PROVE  f[<<q, j>>] = g[<<q, j>>] /\ Outcome(t, j, f[<<q, j>>])
      BY DEF Alike
    <2>1. j \in Position(t) /\ j # n /\ j \in n + 1 .. Len(t) + 1
      BY <1>0, <1>3 DEF Position
    <2> QED BY <1>2, <2>1 DEF Solved
  <1>4. ASSUME NEW q \in Part, NEW i \in n .. Len(t) + 1
        PROVE  g[<<q, i>>] = Step(t, g, <<q, i>>) /\ Outcome(t, i, g[<<q, i>>])
    <2>1. i \in Position(t) /\ i >= n
      BY <1>0 DEF Position
    <2>2. /\ Step(t, f, <<q, i>>) = Step(t, g, <<q, i>>)
          /\ Outcome(t, i, Step(t, f, <<q, i>>))
      BY <1>3, <2>1, Steps
    <2>3. g[<<q, i>>] = Step(t, f, <<q, i>>)
      <3>1. CASE i = n
        BY <1>2, <2>1, <3>1
      <3>2. CASE i # n
        <4>1. i \in n + 1 .. Len(t) + 1
          BY <1>0, <3>2
        <4> QED BY <1>2, <2>1, <3>2, <4>1 DEF Solved
      <3> QED BY <3>1, <3>2
    <2> QED BY <2>2, <2>3
  <1>5. Solved(t, g, n)
    BY <1>4 DEF Solved
  <1> QED BY <1>1, <1>5

\* The reader is the one that takes its steps.
LEMMA ReaderIs ==
    ASSUME NEW t, IsText(t)
    PROVE  \A q \in Part : \A i \in Position(t) :
              /\ Reader(t)[<<q, i>>] = Step(t, Reader(t), <<q, i>>)
              /\ Outcome(t, i, Reader(t)[<<q, i>>])
  <1> DEFINE IsReader(f) == f = [p \in Part \X Position(t) |-> f[p]]
             Good == {d \in 0 .. Len(t) + 1 :
                         \E f : IsReader(f) /\ Solved(t, f, (Len(t) + 2) - d)}
  <1>0. Len(t) \in Nat
    BY DEF IsText
  <1>1. 0 \in Good
    <2> DEFINE f == [p \in Part \X Position(t) |-> p]
    <2>1. IsReader(f)
      OBVIOUS
    <2> HIDE DEF f
    <2>2. Solved(t, f, (Len(t) + 2) - 0)
      BY <1>0 DEF Solved
    <2> QED BY <1>0, <2>1, <2>2
  <1>2. ASSUME NEW d \in 1 .. Len(t) + 1, d - 1 \in Good PROVE d \in Good
    <2>1. PICK f : Solved(t, f, (Len(t) + 2) - (d - 1))
      BY <1>2
    <2>2. PICK n \in Position(t) : n = (Len(t) + 2) - d /\ n + 1 = (Len(t) + 2) - (d - 1)
      <3>1. /\ (Len(t) + 2) - d \in Position(t)
            /\ ((Len(t) + 2) - d) + 1 = (Len(t) + 2) - (d - 1)
        BY <1>0 DEF Position
      <3> QED BY <3>1, Zenon
    <2>3. Solved(t, f, n + 1)
      BY <2>1, <2>2
    <2>4. PICK g : g = [p \in Part \X Position(t) |-> g[p]] /\ Solved(t, g, n)
      BY <2>3, OneMore
    <2>5. IsReader(g) /\ Solved(t, g, (Len(t) + 2) - d)
      BY <2>2, <2>4
    <2>6. d \in 0 .. Len(t) + 1
      BY <1>0
    <2> HIDE DEF IsReader
    <2> QED BY <2>5, <2>6
  <1> HIDE DEF Good
  <1>3. Len(t) + 1 \in Good
    <2>1. Len(t) + 1 \in Nat /\ Len(t) + 1 \in 0 .. Len(t) + 1
      BY <1>0
    <2> QED BY <1>1, <1>2, <2>1, Climb
  <1>4. PICK f : IsReader(f) /\ Solved(t, f, (Len(t) + 2) - (Len(t) + 1))
    BY <1>3 DEF Good
  <1>5. Solved(t, f, 1)
    BY <1>0, <1>4
  <1>6. f = [p \in Part \X Position(t) |-> Step(t, f, p)]
    <2>1. ASSUME NEW p \in Part \X Position(t) PROVE f[p] = Step(t, f, p)
      <3>1. PICK q \in Part, i \in Position(t) : p = <<q, i>>
        OBVIOUS
      <3> QED BY <1>5, <3>1 DEF Solved, Position
    <2> QED BY <1>4, <2>1
  <1>7. Reader(t) = [p \in Part \X Position(t) |-> Step(t, Reader(t), p)]
    BY <1>6 DEF Reader, Step, Part, Position
  <1>8. ASSUME NEW q \in Part, NEW i \in Position(t)
        PROVE  Reader(t)[<<q, i>>] = Step(t, Reader(t), <<q, i>>)
    BY <1>7, <1>8
  <1>9. PICK R : R = Reader(t)
    OBVIOUS
  <1> DEFINE Right == {d \in 0 .. Len(t) + 1 : Solved(t, R, (Len(t) + 2) - d)}
  <1>10. 0 \in Right
    <2>1. Solved(t, R, (Len(t) + 2) - 0)
      BY <1>0 DEF Solved
    <2> QED BY <1>0, <2>1
  <1>11. ASSUME NEW d \in 1 .. Len(t) + 1, d - 1 \in Right PROVE d \in Right
    <2>1. Solved(t, R, (Len(t) + 2) - (d - 1))
      BY <1>11
    <2>2. PICK n \in Position(t) : n = (Len(t) + 2) - d /\ n + 1 = (Len(t) + 2) - (d - 1)
      <3>1. /\ (Len(t) + 2) - d \in Position(t)
            /\ ((Len(t) + 2) - d) + 1 = (Len(t) + 2) - (d - 1)
        BY <1>0 DEF Position
      <3> QED BY <3>1, Zenon
    <2>3. Solved(t, R, n + 1)
      BY <2>1, <2>2
    <2>4. ASSUME NEW q \in Part, NEW i \in n .. Len(t) + 1
          PROVE  R[<<q, i>>] = Step(t, R, <<q, i>>) /\ Outcome(t, i, R[<<q, i>>])
      <3>1. i \in Position(t) /\ i + 1 .. Len(t) + 1 \subseteq n + 1 .. Len(t) + 1
        BY <1>0 DEF Position
      <3>2. Alike(t, R, R, i)
        BY <2>3, <3>1 DEF Alike, Solved
      <3>3. Outcome(t, i, Step(t, R, <<q, i>>))
        BY <3>1, <3>2, Steps
      <3> QED BY <1>8, <1>9, <3>1, <3>3
    <2>5. Solved(t, R, (Len(t) + 2) - d)
      <3>1. Solved(t, R, n)
        BY <2>4 DEF Solved
      <3> QED BY <2>2, <3>1
    <2>6. d \in 0 .. Len(t) + 1
      BY <1>0
    <2> QED BY <2>5, <2>6
  <1> HIDE DEF Right
  <1>12. Len(t) + 1 \in Right
    <2>1. Len(t) + 1 \in Nat /\ Len(t) + 1 \in 0 .. Len(t) + 1
      BY <1>0
    <2> QED BY <1>10, <1>11, <2>1, Climb
  <1>13. Solved(t, R, 1)
    <2>1. Solved(t, R, (Len(t) + 2) - (Len(t) + 1)) /\ (Len(t) + 2) - (Len(t) + 1) = 1
      BY <1>0, <1>12 DEF Right
    <2> QED BY <2>1, Zenon
  <1> QED BY <1>8, <1>9, <1>13 DEF Solved, Position

-----------------------------------------------------------------------------
\* u is the beginning of t.
Cut(u, t) ==
    /\ IsText(t) /\ IsText(u) /\ Len(u) <= Len(t)
    /\ \A i \in 1 .. Len(u) : At(u, i) = At(t, i)

\* What is there in the beginning of a text is there in the text.
LEMMA CutPlace ==
    ASSUME NEW t, NEW u, Cut(u, t), NEW i \in Position(u)
    PROVE  i \in Position(t) /\ (At(u, i) # "end" => At(t, i) = At(u, i) /\ i <= Len(u))
  <1>1. Len(u) \in Nat /\ Len(t) \in Nat /\ i \in Nat \ {0} /\ i <= Len(u) + 1 /\ Len(u) <= Len(t)
    BY DEF Cut, IsText, Position
  <1>2. i \in Position(t)
    BY <1>1 DEF Position
  <1>3. ASSUME At(u, i) # "end" PROVE At(t, i) = At(u, i) /\ i <= Len(u)
    <2>1. i \in 1 .. Len(u)
      BY <1>1, <1>3, AtIs DEF Cut
    <2> QED BY <1>1, <2>1 DEF Cut
  <1> QED BY <1>2, <1>3

\* White space that ends before the cut ends where it did.
LEMMA CutPast ==
    ASSUME NEW t, NEW u, Cut(u, t), NEW i \in Position(u), At(u, Past(u, i)) # "end"
    PROVE  Past(t, i) = Past(u, i) /\ At(t, Past(u, i)) = At(u, Past(u, i))
  <1>1. IsText(t) /\ IsText(u)
    BY DEF Cut
  <1>2. PICK s \in Position(u) : /\ s = Past(u, i) /\ s >= i /\ At(u, s) \notin Space
                              /\ \A k \in i .. s - 1 : At(u, k) \in Space
    BY <1>1, PastIs
  <1>3. At(t, s) = At(u, s) /\ s <= Len(u) /\ s \in Position(t) /\ i \in Position(t)
    BY <1>2, CutPlace
  <1>4. \A k \in i .. s - 1 : At(t, k) \in Space
    <2> SUFFICES ASSUME NEW k \in i .. s - 1 PROVE At(t, k) \in Space
      OBVIOUS
    <2>1. k \in 1 .. Len(u)
      BY <1>1, <1>2, <1>3, PlaceIs
    <2> QED BY <1>2, <2>1 DEF Cut
  <1>5. Past(t, i) = s
    BY <1>1, <1>2, <1>3, <1>4, PastEnds
  <1> QED BY <1>2, <1>3, <1>5

\* What was read whole from u behind i is read the same from t; a number is whole
\* if it ends before u does.
SameBehind(u, t, f, g, i) ==
    \A q \in Part : \A j \in i + 1 .. Len(u) + 1 :
        /\ Outcome(u, j, f[<<q, j>>])
        /\ f[<<q, j>>].ok /\ (q # "number" \/ f[<<q, j>>].next <= Len(u)) =>
              g[<<q, j>>] = f[<<q, j>>]

\* A part behind this place that ends in the beginning is read the same in the text.
LEMMA SameOnward ==
    ASSUME NEW t, NEW u, Cut(u, t), NEW i \in Position(u), NEW f, NEW g, SameBehind(u, t, f, g, i),
           NEW j \in Position(u), j > i, NEW q \in Part, f[<<q, j>>].ok,
           q # "number" \/ f[<<q, j>>].next <= Len(u)
    PROVE  g[<<q, j>>] = f[<<q, j>>]
  <1>1. j \in i + 1 .. Len(u) + 1
    <2>1. IsText(u)
      BY DEF Cut
    <2> QED BY <2>1, PlaceIs
  <1> QED BY <1>1 DEF SameBehind

\* A part in another ends where that ends, and is read if that is.
LEMMA WrapIs ==
    ASSUME NEW x, NEW r
    PROVE  /\ With(x, r).ok => r.ok
           /\ Typed(x, r).ok => r.ok /\ Typed(x, r).next = r.next
  <1>1. CASE r.ok
    BY <1>1, DoneIs DEF With, Typed
  <1>2. CASE ~r.ok
    BY <1>2, DoneIs DEF With, Typed
  <1> QED BY <1>1, <1>2

\* A string that ends in the beginning is the text's string.
LEMMA StringSame ==
    ASSUME NEW t, NEW u, Cut(u, t), NEW i \in Position(u), NEW f, NEW g, SameBehind(u, t, f, g, i),
           ReadString(u, f, i).ok
    PROVE  ReadString(t, g, i) = ReadString(u, f, i)
  <1>0. IsText(u) /\ i >= i
    BY PlaceIs DEF Cut
  <1>1. At(u, i) # "end"
    BY DoneIs DEF ReadString
  <1>2. At(t, i) = At(u, i) /\ i + 1 \in Position(u) /\ i + 1 > i
    BY <1>0, <1>1, CutPlace, Onward
  <1>3. ASSUME NEW j \in Position(u), j > i, NEW x, With(x, f[<<"string", j>>]).ok
        PROVE  With(x, g[<<"string", j>>]) = With(x, f[<<"string", j>>])
    <2>1. f[<<"string", j>>].ok
      BY <1>3, WrapIs
    <2>2. "string" \in Part /\ "string" # "number"
      BY DEF Part
    <2>3. g[<<"string", j>>] = f[<<"string", j>>]
      BY <1>3, <2>1, <2>2, SameOnward
    <2> QED BY <2>3
  <1>4. CASE At(u, i) = "quote"
    BY <1>2, <1>4 DEF ReadString
  <1>5. CASE At(u, i) = "backslash"
    <2>0. At(u, i) # "end" /\ At(u, i) # "quote" /\ At(u, i) = "backslash"
      BY <1>5
    <2>1. At(u, i + 1) # "end"
      BY <2>0, DoneIs DEF ReadString, Escape
    <2>2. At(t, i + 1) = At(u, i + 1) /\ i + 2 \in Position(u) /\ i + 2 > i
      <3>1. (i + 1) + 1 \in Position(u) /\ (i + 1) + 1 > i /\ At(t, i + 1) = At(u, i + 1)
        <4>1. i + 1 >= i /\ i \in Nat
          BY <1>0, PlaceIs
        <4>2. (i + 1) + 1 \in Position(u) /\ (i + 1) + 1 > i
          BY <1>0, <1>2, <2>1, <4>1, Onward
        <4> QED BY <1>2, <2>1, <4>2, CutPlace
      <3>2. (i + 1) + 1 = i + 2
        BY <1>0, PlaceIs
      <3> QED BY <3>1, <3>2
    <2>3. CASE At(u, i + 1) \in DOMAIN Escape
      <3>1. ReadString(u, f, i) = With(Escape[At(u, i + 1)], f[<<"string", i + 2>>])
        BY <2>0, <2>3 DEF ReadString
      <3>2. ReadString(t, g, i) = With(Escape[At(u, i + 1)], g[<<"string", i + 2>>])
        BY <1>2, <2>0, <2>2, <2>3 DEF ReadString
      <3> QED BY <1>3, <2>2, <3>1, <3>2
    <2>4. CASE At(u, i + 1) \notin DOMAIN Escape
      <3>1. At(u, i + 1) = "u" /\ At(u, i + 2) = "hex"
        BY <2>0, <2>4, DoneIs DEF ReadString
      <3>2. At(t, i + 2) = At(u, i + 2) /\ i + 3 \in Position(u) /\ i + 3 > i
        <4>1. At(u, i + 2) # "end" /\ i + 2 >= i /\ i \in Nat
          BY <1>0, <3>1, PlaceIs
        <4>2. (i + 2) + 1 \in Position(u) /\ (i + 2) + 1 > i
          BY <1>0, <2>2, <4>1, Onward
        <4>3. (i + 2) + 1 = i + 3
          BY <4>1
        <4> QED BY <2>2, <4>1, <4>2, <4>3, CutPlace
      <3>3. ReadString(u, f, i) = With("unicode", f[<<"string", i + 3>>])
        BY <2>0, <2>4, <3>1 DEF ReadString
      <3>4. ReadString(t, g, i) = With("unicode", g[<<"string", i + 3>>])
        BY <1>2, <2>0, <2>2, <2>4, <3>1, <3>2 DEF ReadString
      <3> QED BY <1>3, <3>2, <3>3, <3>4
    <2> QED BY <2>3, <2>4
  <1>6. CASE At(u, i) \notin {"quote", "backslash"}
    <2>1. ReadString(u, f, i) = With(At(u, i), f[<<"string", i + 1>>])
      BY <1>1, <1>6 DEF ReadString
    <2>2. ReadString(t, g, i) = With(At(u, i), g[<<"string", i + 1>>])
      BY <1>1, <1>2, <1>6 DEF ReadString
    <2> QED BY <1>2, <1>3, <2>1, <2>2
  <1> QED BY <1>4, <1>5, <1>6

\* So is a number, unless the beginning ends with it: more digits may follow.
LEMMA NumberSame ==
    ASSUME NEW t, NEW u, Cut(u, t), NEW i \in Position(u), NEW f, NEW g, SameBehind(u, t, f, g, i),
           ReadNumber(u, f, i).ok, ReadNumber(u, f, i).next <= Len(u)
    PROVE  ReadNumber(t, g, i) = ReadNumber(u, f, i)
  <1>0. IsText(u) /\ i >= i
    BY PlaceIs DEF Cut
  <1>1. At(u, i) = "digit"
    BY DoneIs DEF ReadNumber
  <1>2. At(t, i) = "digit" /\ i + 1 \in Position(u) /\ i + 1 > i
    BY <1>0, <1>1, CutPlace, Onward
  <1>3. CASE At(u, i + 1) = "digit"
    <2>1. ReadNumber(u, f, i) = f[<<"number", i + 1>>]
      BY <1>1, <1>3 DEF ReadNumber
    <2>2. At(t, i + 1) = "digit"
      BY <1>2, <1>3, CutPlace
    <2>3. ReadNumber(t, g, i) = g[<<"number", i + 1>>]
      BY <1>2, <2>2 DEF ReadNumber
    <2>4. "number" \in Part /\ f[<<"number", i + 1>>].ok /\ f[<<"number", i + 1>>].next <= Len(u)
      BY <2>1 DEF Part
    <2> QED BY <1>2, <2>1, <2>3, <2>4, SameOnward
  <1>4. CASE At(u, i + 1) # "digit"
    <2>1. ReadNumber(u, f, i) = Done(i + 1, <<>>)
      BY <1>1, <1>4 DEF ReadNumber
    <2>2. At(t, i + 1) = At(u, i + 1)
      <3>1. i + 1 <= Len(u)
        <4>1. Done(i + 1, <<>>).next = i + 1
          BY DoneIs
        <4> QED BY <2>1, <4>1
      <3>2. i + 1 \in 1 .. Len(u)
        BY <1>0, <3>1, PlaceIs
      <3> QED BY <3>2 DEF Cut
    <2> QED BY <1>2, <1>4, <2>1, <2>2 DEF ReadNumber
  <1> QED BY <1>3, <1>4

\* A value ends before the text does, or with a mark of its own.
IsWhole(u, f, i) ==
    ReadValue(u, f, i).next <= Len(u) \/ At(u, Past(u, i)) \in {"{", "[", "quote"}

\* A value that is closed by a mark of its own, or ends before u does, is read whole.
LEMMA ValueSame ==
    ASSUME NEW t, NEW u, Cut(u, t), NEW i \in Position(u), NEW f, NEW g, SameBehind(u, t, f, g, i),
           \A j \in Position(u) : j > i /\ At(u, Past(u, j)) = "end" =>
               ~f[<<"members", j>>].ok /\ ~f[<<"items", j>>].ok,
           ReadValue(u, f, i).ok, IsWhole(u, f, i)
    PROVE  ReadValue(t, g, i) = ReadValue(u, f, i)
  <1>0. IsText(u) /\ i >= i
    BY PlaceIs DEF Cut
  <1>1. PICK s \in Position(u) : s = Past(u, i) /\ s >= i
    BY <1>0, PastIs
  <1>2. PICK c : c = At(u, s)
    OBVIOUS
  <1>3. c # "end"
    BY <1>1, <1>2, DoneIs DEF ReadValue, Literal
  <1>4. Past(t, i) = s /\ At(t, s) = c
    BY <1>1, <1>2, <1>3, CutPast
  <1>5. s + 1 \in Position(u) /\ s + 1 > i /\ s + 1 > s
    <2>1. s >= s
      BY <1>0, PlaceIs
    <2> QED BY <1>0, <1>1, <1>2, <1>3, <2>1, Onward
  <1>6. PICK e \in Position(u) : e = Past(u, s + 1)
    BY <1>0, <1>5, PastIs
  <1>7. At(u, e) # "end" => Past(t, s + 1) = e /\ At(t, e) = At(u, e)
    BY <1>5, <1>6, CutPast
  <1>8. ASSUME NEW q \in {"string", "members", "items"}, f[<<q, s + 1>>].ok
        PROVE  g[<<q, s + 1>>] = f[<<q, s + 1>>]
    <2>1. q \in Part /\ q # "number"
      BY DEF Part
    <2> QED BY <1>5, <1>8, <2>1, SameOnward
  <1>9. CASE c = "quote"
    <2>1. /\ ReadValue(u, f, i) = Typed("String", f[<<"string", s + 1>>])
          /\ ReadValue(t, g, i) = Typed("String", g[<<"string", s + 1>>])
      BY <1>1, <1>2, <1>4, <1>9 DEF ReadValue, Literal
    <2>2. f[<<"string", s + 1>>].ok
      BY <2>1, WrapIs
    <2> QED BY <1>8, <2>1, <2>2
  <1>10. CASE c \in Literal
    BY <1>1, <1>2, <1>4, <1>10 DEF ReadValue, Literal
  <1>11. CASE c = "{"
    <2>1. CASE At(u, e) = "}"
      <3>1. At(u, e) # "end"
        BY <2>1
      <3>2. ReadValue(u, f, i) = Typed("Object", Done(e + 1, <<>>))
        BY <1>1, <1>2, <1>6, <1>11, <2>1 DEF ReadValue, Literal
      <3>3. ReadValue(t, g, i) = Typed("Object", Done(e + 1, <<>>))
        BY <1>4, <1>7, <1>11, <2>1, <3>1 DEF ReadValue, Literal
      <3> QED BY <3>2, <3>3
    <2>2. CASE At(u, e) # "}"
      <3>1. ReadValue(u, f, i) = Typed("Object", f[<<"members", s + 1>>])
        BY <1>1, <1>2, <1>6, <1>11, <2>2 DEF ReadValue, Literal
      <3>2. f[<<"members", s + 1>>].ok
        BY <3>1, WrapIs
      <3>3. At(u, e) # "end"
        BY <1>5, <1>6, <3>2
      <3>4. ReadValue(t, g, i) = Typed("Object", g[<<"members", s + 1>>])
        BY <1>4, <1>7, <1>11, <2>2, <3>3 DEF ReadValue, Literal
      <3> QED BY <1>8, <3>1, <3>2, <3>4
    <2> QED BY <2>1, <2>2
  <1>12. CASE c = "["
    <2>1. CASE At(u, e) = "]"
      <3>1. At(u, e) # "end"
        BY <2>1
      <3>2. ReadValue(u, f, i) = Typed("Array", Done(e + 1, <<>>))
        BY <1>1, <1>2, <1>6, <1>12, <2>1 DEF ReadValue, Literal
      <3>3. ReadValue(t, g, i) = Typed("Array", Done(e + 1, <<>>))
        BY <1>4, <1>7, <1>12, <2>1, <3>1 DEF ReadValue, Literal
      <3> QED BY <3>2, <3>3
    <2>2. CASE At(u, e) # "]"
      <3>1. ReadValue(u, f, i) = Typed("Array", f[<<"items", s + 1>>])
        BY <1>1, <1>2, <1>6, <1>12, <2>2 DEF ReadValue, Literal
      <3>2. f[<<"items", s + 1>>].ok
        BY <3>1, WrapIs
      <3>3. At(u, e) # "end"
        BY <1>5, <1>6, <3>2
      <3>4. ReadValue(t, g, i) = Typed("Array", g[<<"items", s + 1>>])
        BY <1>4, <1>7, <1>12, <2>2, <3>3 DEF ReadValue, Literal
      <3> QED BY <1>8, <3>1, <3>2, <3>4
    <2> QED BY <2>1, <2>2
  <1>13. CASE c \notin {"quote", "{", "["} \union Literal
    <2>1. /\ ReadValue(u, f, i) = Typed("Number", ReadNumber(u, f, s))
          /\ ReadValue(t, g, i) = Typed("Number", ReadNumber(t, g, s))
      BY <1>1, <1>2, <1>3, <1>4, <1>13 DEF ReadValue
    <2>2. ReadNumber(u, f, s).ok /\ ReadNumber(u, f, s).next <= Len(u)
      <3>1. ReadValue(u, f, i).next <= Len(u)
        BY <1>1, <1>2, <1>13 DEF IsWhole
      <3>2. ReadNumber(u, f, s).ok /\ ReadValue(u, f, i).next = ReadNumber(u, f, s).next
        BY <2>1, WrapIs
      <3> QED BY <3>1, <3>2
    <2>3. SameBehind(u, t, f, g, s)
      <3>1. s + 1 .. Len(u) + 1 \subseteq i + 1 .. Len(u) + 1
        BY <1>0, <1>1, PlaceIs
      <3> QED BY <3>1 DEF SameBehind
    <2> QED BY <2>1, <2>2, <2>3, NumberSame
  <1> QED BY <1>9, <1>10, <1>11, <1>12, <1>13

\* No list begins where only white space is left.
Begun(u, f, i) ==
    \A j \in Position(u) : j > i /\ At(u, Past(u, j)) = "end" =>
        ~f[<<"members", j>>].ok /\ ~f[<<"items", j>>].ok

\* Nothing is read of an object or array that stops before an element.
LEMMA ListBegins ==
    ASSUME NEW u, NEW f, NEW j, At(u, Past(u, j)) = "end"
    PROVE  ~Step(u, f, <<"members", j>>).ok /\ ~Step(u, f, <<"items", j>>).ok
  <1>1. ReadMember(u, f, j) = Broken
    BY DEF ReadMember
  <1>2. ReadValue(u, f, j) = Broken
    BY DEF ReadValue, Literal
  <1>3. ASSUME NEW part, NEW close PROVE Listed(u, f, part, Broken, close) = Broken
    BY DoneIs DEF Listed
  <1>4. /\ Step(u, f, <<"members", j>>) = Listed(u, f, "members", ReadMember(u, f, j), "}")
        /\ Step(u, f, <<"items", j>>) = Listed(u, f, "items", ReadValue(u, f, j), "]")
    BY DEF Step
  <1>5. Step(u, f, <<"members", j>>) = Broken /\ Step(u, f, <<"items", j>>) = Broken
    BY <1>1, <1>2, <1>3, <1>4
  <1> QED BY <1>5, DoneIs

\* A key and a value that end before the beginning does are the text's.
LEMMA MemberSame ==
    ASSUME NEW t, NEW u, Cut(u, t), NEW i \in Position(u), NEW f, NEW g, SameBehind(u, t, f, g, i),
           Begun(u, f, i), ReadMember(u, f, i).ok, ReadMember(u, f, i).next <= Len(u)
    PROVE  ReadMember(t, g, i) = ReadMember(u, f, i)
  <1>0. IsText(u) /\ i >= i
    BY PlaceIs DEF Cut
  <1>1. PICK k \in Position(u) : k = Past(u, i) /\ k >= i
    BY <1>0, PastIs
  <1>2. PICK key : key = f[<<"string", k + 1>>]
    OBVIOUS
  <1>3. PICK c : c = Past(u, key.next)
    OBVIOUS
  <1>4. PICK value : value = ReadValue(u, f, c + 1)
    OBVIOUS
  <1>5. At(u, k) = "quote" /\ key.ok /\ At(u, c) = ":" /\ value.ok
    BY <1>1, <1>2, <1>3, <1>4, DoneIs DEF ReadMember
  <1>6. ReadMember(u, f, i) = Done(value.next, <<key.it, value.it>>)
    BY <1>1, <1>2, <1>3, <1>4, <1>5 DEF ReadMember
  <1>7. Past(t, i) = k /\ At(t, k) = "quote" /\ k + 1 \in Position(u) /\ k + 1 > i
    <2>1. At(u, k) # "end"
      BY <1>5
    <2> QED BY <1>0, <1>1, <1>5, <2>1, CutPast, Onward
  <1>8. key = g[<<"string", k + 1>>]
    <2>1. "string" \in Part /\ "string" # "number"
      BY DEF Part
    <2> QED BY <1>2, <1>5, <1>7, <2>1, SameOnward
  <1>9. key.next \in Position(u) /\ key.next > k + 1
    <2>1. k + 1 \in i + 1 .. Len(u) + 1
      BY <1>0, <1>7, PlaceIs
    <2>2. Outcome(u, k + 1, key)
      BY <1>2, <2>1 DEF SameBehind, Part
    <2> QED BY <1>0, <1>5, <1>7, <2>2, OutcomeIs
  <1>10. c \in Position(u) /\ c > i /\ At(u, c) # "end"
    <2>1. c \in Position(u) /\ c >= key.next
      BY <1>0, <1>3, <1>9, PastIs
    <2>2. PICK n \in Position(u) : n = key.next /\ n > k + 1 /\ c >= n
      BY <1>9, <2>1, Zenon
    <2>3. n > k + 1 /\ c >= n
      BY <2>2
    <2>4. c > i
      BY <1>0, <1>7, <2>1, <2>3, PlaceIs
    <2>5. At(u, c) # "end"
      BY <1>5
    <2> QED BY <2>1, <2>4, <2>5
  <1>11. Past(t, key.next) = c /\ At(t, c) = ":" /\ c + 1 \in Position(u) /\ c + 1 > i
    <2>1. c >= i
      BY <1>0, <1>10, PlaceIs
    <2> QED BY <1>0, <1>3, <1>5, <1>9, <1>10, <2>1, CutPast, Onward
  <1>12. value.next <= Len(u)
    <2>1. Done(value.next, <<key.it, value.it>>).next = value.next
      BY DoneIs
    <2> QED BY <1>6, <2>1
  <1>13. SameBehind(u, t, f, g, c + 1) /\ Begun(u, f, c + 1)
    <2>1. (c + 1) + 1 .. Len(u) + 1 \subseteq i + 1 .. Len(u) + 1
          /\ \A j \in Position(u) : j > c + 1 => j > i
      BY <1>0, <1>11, PlaceIs
    <2> QED BY <2>1 DEF SameBehind, Begun
  <1>14. value = ReadValue(t, g, c + 1)
    <2>1. IsWhole(u, f, c + 1)
      BY <1>4, <1>12 DEF IsWhole
    <2> QED BY <1>4, <1>5, <1>11, <1>13, <2>1, ValueSame DEF Begun
  <1>15. ReadMember(t, g, i) = Done(value.next, <<key.it, value.it>>)
    BY <1>5, <1>7, <1>8, <1>11, <1>14 DEF ReadMember
  <1> QED BY <1>6, <1>15

\* So is what follows an element: it goes on, or is closed by a mark.
LEMMA ListSame ==
    ASSUME NEW t, NEW u, Cut(u, t), NEW i \in Position(u), NEW f, NEW g, SameBehind(u, t, f, g, i),
           NEW part \in Part, part # "number", NEW close, Closing(close),
           NEW r, NEW r2, Outcome(u, i, r), r.ok /\ r.next <= Len(u) => r2 = r,
           Listed(u, f, part, r, close).ok
    PROVE  Listed(t, g, part, r2, close) = Listed(u, f, part, r, close)
  <1>0. IsText(u)
    BY DEF Cut
  <1>1. r.ok
    BY DoneIs DEF Listed
  <1>2. r.next \in Position(u) /\ r.next > i
    BY <1>0, <1>1, OutcomeIs
  <1>3. PICK n \in Position(u) : n = r.next
    BY <1>2
  <1>4. PICK a \in Position(u) : a = Past(u, n) /\ a >= n
    BY <1>0, PastIs
  <1>5. n > i
    BY <1>2, <1>3
  <1>6. PICK after : after = After(u, a, close)
    OBVIOUS
  <1>7. At(u, a) = "," \/ At(u, a) = close
    <2> SUFFICES ASSUME At(u, a) # ",", At(u, a) # close PROVE FALSE
      OBVIOUS
    <2>1. after.on = "wrong"
      BY <1>6 DEF After, Goes
    <2>2. Listed(u, f, part, r, close) = Broken
      BY <1>1, <1>3, <1>4, <1>6, <2>1 DEF Listed
    <2> QED BY <2>2, DoneIs
  <1>8. At(u, a) # "end"
    BY <1>7 DEF Closing
  <1>9. Past(t, n) = a /\ At(t, a) = At(u, a) /\ a <= Len(u)
    BY <1>4, <1>8, CutPast, CutPlace
  <1>10. n <= Len(u)
    BY <1>0, <1>4, <1>9, PlaceIs
  <1>11. r2 = r
    BY <1>1, <1>3, <1>10
  <1>12. a + 1 \in Position(u) /\ a + 1 > i
    <2>1. a >= i
      BY <1>0, <1>4, <1>5, PlaceIs
    <2> QED BY <1>0, <1>8, <2>1, Onward
  <1>13. After(t, a, close) = after
    BY <1>6, <1>9 DEF After
  <1>14. CASE At(u, a) = ","
    <2>0. At(u, a) # close
      BY <1>14 DEF Closing
    <2>1. after.on = "more" /\ after.next = a + 1
      BY <1>6, <1>14, <2>0 DEF After, Goes
    <2>2. /\ Listed(u, f, part, r, close) = With(r.it, f[<<part, a + 1>>])
          /\ Listed(t, g, part, r2, close) = With(r.it, g[<<part, a + 1>>])
      BY <1>1, <1>3, <1>4, <1>6, <1>9, <1>11, <1>13, <2>1 DEF Listed
    <2>3. f[<<part, a + 1>>].ok
      BY <2>2, WrapIs
    <2>4. g[<<part, a + 1>>] = f[<<part, a + 1>>]
      BY <1>12, <2>3, SameOnward
    <2> QED BY <2>2, <2>4
  <1>15. CASE At(u, a) = close
    <2>0. At(u, a) # ","
      BY <1>15 DEF Closing
    <2>1. after.on = "closed" /\ after.next = a + 1
      BY <1>6, <1>15, <2>0 DEF After, Goes
    <2> QED BY <1>1, <1>3, <1>4, <1>6, <1>9, <1>11, <1>13, <2>1 DEF Listed
  <1> QED BY <1>7, <1>14, <1>15

\* So is every part,
LEMMA StepSame ==
    ASSUME NEW t, NEW u, Cut(u, t), NEW i \in Position(u), NEW f, NEW g, SameBehind(u, t, f, g, i),
           Begun(u, f, i), NEW q \in Part, Step(u, f, <<q, i>>).ok,
           q # "number" \/ Step(u, f, <<q, i>>).next <= Len(u)
    PROVE  Step(t, g, <<q, i>>) = Step(u, f, <<q, i>>)
  <1>1. CASE q = "string"
    BY <1>1, StringSame DEF Step
  <1>2. CASE q = "number"
    BY <1>2, NumberSame DEF Step
  <1>3. IsText(u) /\ Alike(u, f, f, i)
    BY DEF Cut, SameBehind, Alike
  <1>4. CASE q = "members"
    <2>1. PICK close : close = "}"
      OBVIOUS
    <2>2. Closing(close)
      BY <2>1 DEF Closing
    <2>3. PICK r, r2 : r = ReadMember(u, f, i) /\ r2 = ReadMember(t, g, i)
      OBVIOUS
    <2>4. /\ Step(u, f, <<q, i>>) = Listed(u, f, q, r, close)
          /\ Step(t, g, <<q, i>>) = Listed(t, g, q, r2, close)
      BY <1>4, <2>1, <2>3 DEF Step
    <2>5. Outcome(u, i, r)
      BY <1>3, <2>3, MemberSteps
    <2>6. r.ok /\ r.next <= Len(u) => r2 = r
      BY <2>3, MemberSame
    <2>7. Listed(u, f, q, r, close).ok /\ q # "number"
      BY <1>4, <2>4
    <2> QED BY <2>2, <2>4, <2>5, <2>6, <2>7, ListSame
  <1>5. CASE q = "items"
    <2>1. PICK close : close = "]"
      OBVIOUS
    <2>2. Closing(close)
      BY <2>1 DEF Closing
    <2>3. PICK r, r2 : r = ReadValue(u, f, i) /\ r2 = ReadValue(t, g, i)
      OBVIOUS
    <2>4. /\ Step(u, f, <<q, i>>) = Listed(u, f, q, r, close)
          /\ Step(t, g, <<q, i>>) = Listed(t, g, q, r2, close)
      BY <1>5, <2>1, <2>3 DEF Step
    <2>5. Outcome(u, i, r)
      BY <1>3, <2>3, ValueSteps
    <2>6. r.ok /\ r.next <= Len(u) => r2 = r
      <3>1. r.next <= Len(u) => IsWhole(u, f, i)
        BY <2>3 DEF IsWhole
      <3> QED BY <2>3, <3>1, ValueSame DEF Begun
    <2>7. Listed(u, f, q, r, close).ok /\ q # "number"
      BY <1>5, <2>4
    <2> QED BY <2>2, <2>4, <2>5, <2>6, <2>7, ListSame
  <1> QED BY <1>1, <1>2, <1>4, <1>5 DEF Part

\* The readers of a text and of its beginning agree on what is whole in both.
LEMMA ReaderSame ==
    ASSUME NEW t, NEW u, Cut(u, t)
    PROVE  SameBehind(u, t, Reader(u), Reader(t), 0) /\ Begun(u, Reader(u), 0)
  <1>0. IsText(t) /\ IsText(u) /\ Len(u) \in Nat
    BY DEF Cut, IsText
  <1>1. PICK f : f = Reader(u)
    OBVIOUS
  <1>2. PICK g : g = Reader(t)
    OBVIOUS
  <1>3. \A q \in Part : \A i \in Position(u) :
            f[<<q, i>>] = Step(u, f, <<q, i>>) /\ Outcome(u, i, f[<<q, i>>])
    BY <1>0, <1>1, ReaderIs
  <1>4. \A q \in Part : \A i \in Position(u) : g[<<q, i>>] = Step(t, g, <<q, i>>)
    BY <1>0, <1>2, ReaderIs, CutPlace
  <1>5. ASSUME NEW i PROVE Begun(u, f, i)
    BY <1>3, ListBegins DEF Begun, Part
  <1> DEFINE Good == {d \in 0 .. Len(u) + 1 : SameBehind(u, t, f, g, (Len(u) + 1) - d)}
  <1>6. 0 \in Good
    <2>1. (Len(u) + 1) - 0 + 1 .. Len(u) + 1 = {}
      BY <1>0
    <2>2. SameBehind(u, t, f, g, (Len(u) + 1) - 0)
      BY <2>1 DEF SameBehind
    <2> QED BY <1>0, <2>2
  <1>7. ASSUME NEW d \in 1 .. Len(u) + 1, d - 1 \in Good PROVE d \in Good
    <2>1. SameBehind(u, t, f, g, (Len(u) + 1) - (d - 1))
      BY <1>7
    <2>2. PICK i \in Position(u) : i = (Len(u) + 1) - (d - 1) /\ i - 1 = (Len(u) + 1) - d
      <3>1. /\ (Len(u) + 1) - (d - 1) \in Position(u)
            /\ ((Len(u) + 1) - (d - 1)) - 1 = (Len(u) + 1) - d
        BY <1>0 DEF Position
      <3> QED BY <3>1, Zenon
    <2>3. SameBehind(u, t, f, g, i)
      BY <2>1, <2>2
    <2>4. ASSUME NEW q \in Part, NEW j \in (i - 1) + 1 .. Len(u) + 1
          PROVE  /\ Outcome(u, j, f[<<q, j>>])
                 /\ f[<<q, j>>].ok /\ (q # "number" \/ f[<<q, j>>].next <= Len(u)) =>
                       g[<<q, j>>] = f[<<q, j>>]
      <3>1. CASE j = i
        <4>1. Outcome(u, i, f[<<q, i>>])
          BY <1>3
        <4>2. ASSUME f[<<q, i>>].ok, q # "number" \/ f[<<q, i>>].next <= Len(u)
              PROVE  g[<<q, i>>] = f[<<q, i>>]
          <5>1. f[<<q, i>>] = Step(u, f, <<q, i>>) /\ g[<<q, i>>] = Step(t, g, <<q, i>>)
            BY <1>3, <1>4
          <5>2. Step(u, f, <<q, i>>).ok /\ (q # "number" \/ Step(u, f, <<q, i>>).next <= Len(u))
            BY <4>2, <5>1
          <5> QED BY <1>5, <2>3, <5>1, <5>2, StepSame
        <4> QED BY <3>1, <4>1, <4>2
      <3>2. CASE j # i
        <4>1. j \in i + 1 .. Len(u) + 1
          BY <1>0, <3>2, PlaceIs
        <4> QED BY <2>3, <4>1 DEF SameBehind
      <3> QED BY <3>1, <3>2
    <2>5. SameBehind(u, t, f, g, i - 1)
      BY <2>4 DEF SameBehind
    <2>6. d \in 0 .. Len(u) + 1
      BY <1>0
    <2> QED BY <2>2, <2>5, <2>6
  <1> HIDE DEF Good
  <1>8. Len(u) + 1 \in Good
    <2>1. Len(u) + 1 \in Nat /\ Len(u) + 1 \in 0 .. Len(u) + 1
      BY <1>0
    <2> QED BY <1>6, <1>7, <2>1, Climb
  <1>9. SameBehind(u, t, f, g, 0)
    <2>1. SameBehind(u, t, f, g, (Len(u) + 1) - (Len(u) + 1)) /\ (Len(u) + 1) - (Len(u) + 1) = 0
      BY <1>0, <1>8 DEF Good
    <2> QED BY <2>1, Zenon
  <1> QED BY <1>1, <1>2, <1>5, <1>9

\* Only a text of symbols is read in this model.
LEMMA CutIsCut ==
    ASSUME NEW T, "end" \notin T, NEW t \in Seq(T), NEW n \in 0 .. Len(t)
    PROVE  Cut(SubSeq(t, 1, n), t) /\ Len(SubSeq(t, 1, n)) = n
  <1>1. PICK u : u = SubSeq(t, 1, n)
    OBVIOUS
  <1>2. Len(t) \in Nat /\ \A k \in 1 .. Len(t) : t[k] \in T
    OBVIOUS
  <1>3. Len(u) = n /\ \A k \in 1 .. n : u[k] = t[k]
    BY <1>1, <1>2
  <1>4. \A k \in 1 .. Len(u) : k \in 1 .. Len(t) /\ k <= Len(t) /\ k <= Len(u)
    BY <1>2, <1>3
  <1>5. IsText(t)
    BY <1>2 DEF IsText
  <1>6. IsText(u) /\ Len(u) <= Len(t)
    BY <1>2, <1>3, <1>4 DEF IsText
  <1>7. \A k \in 1 .. Len(u) : At(u, k) = At(t, k)
    BY <1>3, <1>4 DEF At
  <1> QED BY <1>1, <1>3, <1>5, <1>6, <1>7 DEF Cut

\* An object, an array or a string, with nothing behind it: what a portal answers.
IsAnswer(t) == t[1] \in {"{", "[", "quote"} /\ t[Len(t)] \notin Space

\* The beginning of a text that is an answer is not accepted: what is read of it is the
\* text's value, which ends with the text.
LEMMA CutIsRejected ==
    ASSUME NEW t, NEW u, Cut(u, t), Len(u) < Len(t),
           Parse(t).ok, IsAnswer(t)
    PROVE  ~Parse(u).ok
  <1>0. IsText(t) /\ IsText(u) /\ Len(u) \in Nat /\ Len(t) \in Nat
    BY DEF Cut, IsText
  <1> SUFFICES ASSUME Parse(u).ok PROVE FALSE
    OBVIOUS
  <1>1. PICK v : v = ReadValue(u, Reader(u), 1)
    OBVIOUS
  <1>2. v.ok /\ Past(u, v.next) = Len(u) + 1
    BY <1>1, DoneIs DEF Parse, Reading
  <1>3. 1 \in Position(u) /\ 1 \in Position(t)
    BY <1>0 DEF Position
  <1>4. At(u, Past(u, 1)) # "end"
    BY <1>1, <1>2, DoneIs DEF ReadValue, Literal
  <1>5. Past(t, 1) = Past(u, 1) /\ At(t, Past(u, 1)) = At(u, Past(u, 1))
    BY <1>3, <1>4, CutPast
  <1>6. At(t, 1) = t[1]
    BY <1>0, AtIs
  <1>7. Past(t, 1) = 1
    <2>1. At(t, 1) \notin Space
      BY <1>6 DEF Space, IsAnswer
    <2>2. \A k \in 1 .. 1 - 1 : At(t, k) \in Space
      OBVIOUS
    <2> QED BY <1>0, <1>3, <2>1, <2>2, PastEnds
  <1>8. IsWhole(u, Reader(u), 1)
    BY <1>5, <1>6, <1>7 DEF IsWhole, IsAnswer
  <1>9. SameBehind(u, t, Reader(u), Reader(t), 1) /\ Begun(u, Reader(u), 1)
    <2>1. /\ 1 + 1 .. Len(u) + 1 \subseteq 0 + 1 .. Len(u) + 1
          /\ \A j \in Position(u) : j > 0
      BY <1>0 DEF Position
    <2> QED BY <2>1, ReaderSame DEF SameBehind, Begun
  <1>10. ReadValue(t, Reader(t), 1) = v
    BY <1>1, <1>2, <1>3, <1>8, <1>9, ValueSame DEF Begun
  <1>11. Past(t, v.next) = Len(t) + 1
    BY <1>2, <1>10, DoneIs DEF Parse, Reading
  <1>12. v.next \in Position(u)
    <2>1. Alike(u, Reader(u), Reader(u), 1)
      BY <1>9 DEF SameBehind, Alike
    <2>2. Outcome(u, 1, v)
      BY <1>0, <1>1, <1>3, <2>1, ValueSteps
    <2> QED BY <1>0, <1>2, <1>3, <2>2, OutcomeIs
  <1>13. At(t, Len(t)) \in Space
    <2>1. PICK n \in Position(t) : n = v.next /\ n <= Len(t)
      <3>1. v.next \in Position(t) /\ v.next <= Len(t)
        BY <1>0, <1>12, PlaceIs DEF Position
      <3> QED BY <3>1
    <2>2. \A k \in n .. Past(t, n) - 1 : At(t, k) \in Space
      BY <1>0, <2>1, PastIs
    <2>3. Past(t, n) = Len(t) + 1
      BY <1>11, <2>1
    <2>4. Len(t) \in n .. (Len(t) + 1) - 1
      BY <1>0, <2>1 DEF Position
    <2> QED BY <2>2, <2>3, <2>4
  <1>14. At(t, Len(t)) = t[Len(t)]
    BY <1>0, AtIs
  <1> QED BY <1>13, <1>14 DEF IsAnswer

-----------------------------------------------------------------------------
\* v is spelled from behind at[0] on, symbol by symbol, and a quote follows.
Spelled(t, at, v) ==
    /\ at \in [0 .. Len(v) -> Nat]
    /\ At(t, at[Len(v)] + 1) = "quote"
    /\ \A k \in 1 .. Len(v) :
          \/ /\ at[k] = at[k - 1] + 1
             /\ At(t, at[k - 1] + 1) = v[k] /\ v[k] \notin {"end", "quote", "backslash"}
          \/ /\ at[k] = at[k - 1] + 2
             /\ At(t, at[k - 1] + 1) = "backslash"
             /\ At(t, at[k - 1] + 2) \in DOMAIN Escape /\ Escape[At(t, at[k - 1] + 2)] = v[k]

\* What is spelled is read.
LEMMA StringIsRead ==
    ASSUME NEW t, IsText(t), NEW T, NEW v \in Seq(T), NEW at, Spelled(t, at, v)
    PROVE  Reader(t)[<<"string", at[0] + 1>>] = Done(at[Len(v)] + 2, v)
  <1>0. Len(v) \in Nat /\ at \in [0 .. Len(v) -> Nat]
    BY DEF Spelled
  <1>1. PICK R : R = Reader(t)
    OBVIOUS
  <1>2. ASSUME NEW i \in Nat \ {0}, At(t, i) # "end"
        PROVE  R[<<"string", i>>] = ReadString(t, R, i)
    <2>1. i \in Position(t)
      BY <1>2, AtIs
    <2>2. "string" \in Part /\ Step(t, R, <<"string", i>>) = ReadString(t, R, i)
      BY DEF Step, Part
    <2> QED BY <1>1, <2>1, <2>2, ReaderIs
  <1>3. PICK n \in Nat : n = Len(v)
    BY <1>0
  <1>4. PICK z : z = at[n] + 2
    OBVIOUS
  <1> DEFINE Rest(k) == SubSeq(v, k + 1, n)
             Good == {d \in 0 .. n : R[<<"string", at[n - d] + 1>>] = Done(z, Rest(n - d))}
  <1>5. 0 \in Good
    <2>1. PICK i \in Nat \ {0} : i = at[n] + 1 /\ i + 1 = z
      BY <1>0, <1>3, <1>4
    <2>2. At(t, i) = "quote"
      BY <1>3, <2>1 DEF Spelled
    <2>3. ReadString(t, R, i) = Done(i + 1, <<>>)
      BY <2>2 DEF ReadString
    <2>4. R[<<"string", i>>] = Done(z, <<>>)
      BY <1>2, <2>1, <2>2, <2>3
    <2>5. Rest(n) = <<>>
      BY <1>3, SubSeqEmpty
    <2>6. n - 0 = n
      BY <1>3
    <2> HIDE DEF Rest
    <2> QED BY <1>3, <2>1, <2>4, <2>5, <2>6
  <1>6. ASSUME NEW d \in 1 .. n, d - 1 \in Good PROVE d \in Good
    <2>1. PICK k \in 1 .. n : k = n - (d - 1) /\ k - 1 = n - d
      <3>1. n - (d - 1) \in 1 .. n /\ (n - (d - 1)) - 1 = n - d
        BY <1>3
      <3> QED BY <3>1, Zenon
    <2>2. R[<<"string", at[k] + 1>>] = Done(z, Rest(k))
      BY <1>6, <2>1
    <2>3. Rest(k - 1) = <<v[k]>> \o Rest(k)
      <3>1. k \in 1 .. Len(v) /\ n \in k .. Len(v) /\ (k - 1) + 1 = k
        BY <1>3
      <3>2. SubSeq(v, k, n) = <<v[k]>> \o SubSeq(v, k + 1, n)
        BY <3>1, SubSeqRecursiveFirst
      <3> QED BY <3>1, <3>2
    <2> HIDE DEF Rest
    <2>4. PICK a \in Nat, b \in Nat : a = at[k - 1] /\ b = at[k]
      BY <1>0, <1>3
    <2>5. R[<<"string", b + 1>>] = Done(z, Rest(k))
      BY <2>2, <2>4
    <2>6. With(v[k], Done(z, Rest(k))) = Done(z, Rest(k - 1))
      <3>1. PICK rest, r : rest = Rest(k) /\ r = Done(z, rest)
        OBVIOUS
      <3>2. r.ok = TRUE /\ r.next = z /\ r.it = rest
        BY <3>1, DoneIs
      <3>3. With(v[k], r) = Done(z, <<v[k]>> \o rest)
        BY <3>2 DEF With
      <3> QED BY <2>3, <3>1, <3>3
    <2>7. R[<<"string", a + 1>>] = Done(z, Rest(k - 1))
      <3>0. \/ b = a + 1 /\ At(t, a + 1) = v[k] /\ v[k] \notin {"end", "quote", "backslash"}
            \/ /\ b = a + 2 /\ At(t, a + 1) = "backslash"
               /\ At(t, a + 2) \in DOMAIN Escape /\ Escape[At(t, a + 2)] = v[k]
        BY <1>3, <2>4 DEF Spelled
      <3>1. CASE b = a + 1 /\ At(t, a + 1) = v[k] /\ v[k] \notin {"end", "quote", "backslash"}
        <4>1. PICK i \in Nat \ {0} : i = a + 1 /\ i + 1 = b + 1
          BY <2>4, <3>1
        <4>2. At(t, i) = v[k] /\ At(t, i) \notin {"end", "quote", "backslash"}
          BY <3>1, <4>1
        <4>3. ReadString(t, R, i) = With(v[k], R[<<"string", i + 1>>])
          BY <4>2 DEF ReadString
        <4>4. R[<<"string", i>>] = ReadString(t, R, i)
          BY <1>2, <4>2
        <4> QED BY <2>5, <2>6, <4>1, <4>3, <4>4
      <3>2. CASE /\ b = a + 2 /\ At(t, a + 1) = "backslash"
                 /\ At(t, a + 2) \in DOMAIN Escape /\ Escape[At(t, a + 2)] = v[k]
        <4>1. PICK i \in Nat \ {0} : i = a + 1 /\ i + 1 = a + 2 /\ i + 2 = b + 1
          BY <2>4, <3>2
        <4>2. /\ At(t, i) = "backslash" /\ At(t, i) # "quote" /\ At(t, i) # "end"
              /\ At(t, i + 1) \in DOMAIN Escape /\ Escape[At(t, i + 1)] = v[k]
          BY <3>2, <4>1
        <4>3. ReadString(t, R, i) = With(v[k], R[<<"string", i + 2>>])
          BY <4>2 DEF ReadString
        <4>4. R[<<"string", i>>] = ReadString(t, R, i)
          BY <1>2, <4>2
        <4> QED BY <2>5, <2>6, <4>1, <4>3, <4>4
      <3> QED BY <3>0, <3>1, <3>2
    <2>8. d \in 0 .. n /\ at[n - d] = a
      BY <1>3, <2>1, <2>4
    <2> QED BY <2>1, <2>7, <2>8
  <1> HIDE DEF Good
  <1>7. n \in Good
    <2>1. n \in 0 .. n
      BY <1>3
    <2> QED BY <1>3, <1>5, <1>6, <2>1, Climb
  <1>8. R[<<"string", at[0] + 1>>] = Done(z, Rest(0))
    <2>1. n - n = 0
      BY <1>3
    <2> QED BY <1>7, <2>1 DEF Good
  <1>9. Rest(0) = v
    <2>1. SubSeq(v, 1, Len(v)) = v
      BY SubSeqFull
    <2>2. 0 + 1 = 1
      OBVIOUS
    <2> QED BY <1>3, <2>1, <2>2
  <1> HIDE DEF Rest
  <1> QED BY <1>1, <1>3, <1>4, <1>8, <1>9

\* s lies in t behind a.
Bears(t, a, s) == a + Len(s) <= Len(t) /\ \A x \in 1 .. Len(s) : At(t, a + x) = s[x]

\* What lies in a text lies there part by part.
LEMMA HoldsParts ==
    ASSUME NEW T, NEW t, IsText(t), NEW a \in Nat, NEW r \in Seq(T), NEW s \in Seq(T),
           Bears(t, a, r \o s)
    PROVE  Bears(t, a, r) /\ Bears(t, a + Len(r), s) /\ r \o s \in Seq(T)
           /\ Len(r \o s) = Len(r) + Len(s)
  <1>1. /\ r \o s \in Seq(T) /\ Len(r \o s) = Len(r) + Len(s)
        /\ \A x \in 1 .. Len(r) + Len(s) :
              (r \o s)[x] = IF x <= Len(r) THEN r[x] ELSE s[x - Len(r)]
    BY ConcatProperties
  <1>2. PICK m \in Nat, n \in Nat : m = Len(r) /\ n = Len(s)
    OBVIOUS
  <1>3. a + (m + n) <= Len(t) /\ \A x \in 1 .. m + n : At(t, a + x) = (r \o s)[x]
    BY <1>1, <1>2 DEF Bears
  <1>4. Len(t) \in Nat
    BY DEF IsText
  <1>5. ASSUME NEW x \in 1 .. m PROVE At(t, a + x) = r[x]
    <2>1. x \in 1 .. m + n /\ x <= m
      BY <1>2
    <2> QED BY <1>1, <1>2, <1>3, <2>1
  <1>6. ASSUME NEW x \in 1 .. n PROVE At(t, (a + m) + x) = s[x]
    <2>1. m + x \in 1 .. m + n /\ ~(m + x <= m) /\ (m + x) - m = x /\ a + (m + x) = (a + m) + x
      BY <1>2
    <2>2. (r \o s)[m + x] = s[x]
      BY <1>1, <1>2, <2>1
    <2>3. At(t, a + (m + x)) = (r \o s)[m + x]
      BY <1>3, <2>1
    <2> QED BY <2>1, <2>2, <2>3
  <1>7. a + m <= Len(t) /\ (a + m) + n <= Len(t)
    BY <1>2, <1>3, <1>4
  <1> QED BY <1>1, <1>2, <1>5, <1>6, <1>7 DEF Bears

\* The symbols of a value, and of what is written of it.
Raw == STRING \ {"end"}
Sym == Raw \union {"quote", "backslash", "n", "{", "}", ",", ":"}

\* What jsonEscape makes of a symbol.
LEMMA EscapeIs ==
    ASSUME NEW c \in Raw
    PROVE  /\ JsonEscape(c) \in Seq(Sym)
           /\ \/ JsonEscape(c) = <<c>> /\ c \notin {"end", "quote", "backslash"}
              \/ \E e \in DOMAIN Escape : JsonEscape(c) = <<"backslash", e>> /\ Escape[e] = c
  <1>1. CASE \E e \in DOMAIN Escape : Escape[e] = c
    <2>1. PICK e : e = CHOOSE d \in DOMAIN Escape : Escape[d] = c
      OBVIOUS
    <2>2. e \in DOMAIN Escape /\ Escape[e] = c
      BY <1>1, <2>1
    <2>3. JsonEscape(c) = <<"backslash", e>>
      BY <1>1, <2>1 DEF JsonEscape
    <2>4. e \in {"quote", "backslash", "n"}
      BY <2>2 DEF Escape
    <2>5. "backslash" \in Sym /\ e \in Sym
      BY <2>4 DEF Sym
    <2>6. <<"backslash", e>> \in Seq(Sym)
      BY <2>5
    <2> QED BY <2>2, <2>3, <2>6
  <1>2. CASE ~\E e \in DOMAIN Escape : Escape[e] = c
    <2>1. JsonEscape(c) = <<c>>
      BY <1>2 DEF JsonEscape
    <2>2. Escape["quote"] = "quote" /\ Escape["backslash"] = "backslash"
          /\ "quote" \in DOMAIN Escape /\ "backslash" \in DOMAIN Escape
      BY DEF Escape
    <2>3. c \notin {"end", "quote", "backslash"}
      BY <1>2, <2>2 DEF Raw
    <2>4. c \in Sym
      BY DEF Sym
    <2>5. <<c>> \in Seq(Sym)
      BY <2>4
    <2> QED BY <2>1, <2>3, <2>5
  <1> QED BY <1>1, <1>2

\* Escaped, a value is spelled.
LEMMA ValueIsSpelled ==
    ASSUME NEW t, IsText(t), NEW a \in Nat, NEW v \in Seq(Raw), Bears(t, a, Escaped(v)),
           At(t, (a + Len(Escaped(v))) + 1) = "quote"
    PROVE  \E at : Spelled(t, at, v) /\ at[0] = a /\ at[Len(v)] = a + Len(Escaped(v))
  <1> DEFINE p == [i \in DOMAIN v |-> JsonEscape(v[i])]
  <1>0. Len(v) \in Nat /\ \A i \in 1 .. Len(v) : v[i] \in Raw
    OBVIOUS
  <1>1. /\ p \in Seq(Seq(Sym)) /\ Len(p) = Len(v) /\ Escaped(v) = FlattenSeq(p)
        /\ \A i \in 1 .. Len(v) : p[i] = JsonEscape(v[i])
    <2>1. DOMAIN v = 1 .. Len(v)
      OBVIOUS
    <2>2. \A i \in 1 .. Len(v) : JsonEscape(v[i]) \in Seq(Sym)
      BY <1>0, EscapeIs
    <2>3. p = [i \in 1 .. Len(v) |-> JsonEscape(v[i])]
      BY <2>1
    <2>4. p \in Seq(Seq(Sym)) /\ Len(p) = Len(v)
      BY <1>0, <2>2, <2>3
    <2> QED BY <2>3, <2>4 DEF Escaped
  <1> HIDE DEF p
  <1>2. PICK lie : Lies(lie, p)
    BY <1>1, PartsLie
  <1> PICK E : E = Escaped(v)
    OBVIOUS
  <1>3. PICK n \in Nat, N \in Nat : n = Len(v) /\ N = Len(E) /\ E = Escaped(v)
    <2>1. lie[Len(p)] = Len(FlattenSeq(p)) /\ lie[Len(p)] \in Nat
      BY <1>0, <1>1, <1>2 DEF Lies
    <2>2. Len(Escaped(v)) \in Nat
      BY <1>1, <2>1
    <2> QED BY <1>0, <2>2
  <1>4. /\ lie \in [0 .. n -> Nat] /\ lie[0] = 0 /\ lie[n] = N
        /\ \A i \in 1 .. n :
              /\ lie[i] = lie[i - 1] + Len(p[i]) /\ lie[i] <= N
              /\ \A x \in 1 .. Len(p[i]) : E[lie[i - 1] + x] = p[i][x]
    BY <1>1, <1>2, <1>3 DEF Lies
  <1> DEFINE at == [i \in 0 .. n |-> a + lie[i]]
  <1>5. /\ at \in [0 .. n -> Nat] /\ at[0] = a /\ at[n] = a + N
        /\ \A i \in 0 .. n : at[i] = a + lie[i]
    <2>1. a + 0 = a /\ 0 \in 0 .. n /\ n \in 0 .. n
      BY <1>3
    <2> QED BY <1>4, <2>1
  <1> HIDE DEF at
  <1>6. ASSUME NEW k \in 1 .. n
        PROVE  \/ /\ at[k] = at[k - 1] + 1
                  /\ At(t, at[k - 1] + 1) = v[k] /\ v[k] \notin {"end", "quote", "backslash"}
               \/ /\ at[k] = at[k - 1] + 2
                  /\ At(t, at[k - 1] + 1) = "backslash"
                  /\ At(t, at[k - 1] + 2) \in DOMAIN Escape /\ Escape[At(t, at[k - 1] + 2)] = v[k]
    <2>1. k \in 0 .. n /\ k - 1 \in 0 .. n
      BY <1>3
    <2>2. PICK y \in Nat, z \in Nat : y = lie[k - 1] /\ z = lie[k]
      BY <1>4, <2>1
    <2>3. at[k - 1] = a + y /\ at[k] = a + z
      BY <1>5, <2>1, <2>2
    <2>4. z = y + Len(p[k]) /\ z <= N /\ \A x \in 1 .. Len(p[k]) : E[y + x] = p[k][x]
      BY <1>4, <2>2
    <2>5. ASSUME NEW x \in Nat \ {0}, x <= Len(p[k]), Len(p[k]) \in {1, 2}
          PROVE  At(t, (a + y) + x) = p[k][x]
      <3>1. y + x \in 1 .. N /\ x \in 1 .. Len(p[k]) /\ a + (y + x) = (a + y) + x
        <4>1. PICK l \in {1, 2} : l = Len(p[k])
          BY <2>5
        <4>2. z = y + l /\ z <= N /\ x <= l
          BY <2>4, <2>5, <4>1
        <4>3. l \in Nat /\ x \in Nat \ {0} /\ x \in 1 .. l
          BY <2>5, <4>1, <4>2
        <4>4. y + x \in 1 .. N /\ a + (y + x) = (a + y) + x
          BY <4>2, <4>3
        <4> QED BY <4>1, <4>3, <4>4
      <3>2. At(t, a + (y + x)) = E[y + x]
        BY <1>3, <3>1 DEF Bears
      <3> QED BY <2>4, <3>1, <3>2
    <2>6. p[k] = JsonEscape(v[k]) /\ v[k] \in Raw
      BY <1>0, <1>1, <1>3
    <2>7. CASE p[k] = <<v[k]>> /\ v[k] \notin {"end", "quote", "backslash"}
      <3>1. Len(p[k]) = 1 /\ p[k][1] = v[k]
        BY <2>7
      <3>2. At(t, (a + y) + 1) = v[k]
        BY <2>5, <3>1
      <3>3. a + z = (a + y) + 1
        BY <2>4, <3>1
      <3> QED BY <2>3, <2>7, <3>2, <3>3
    <2>8. ASSUME NEW e \in DOMAIN Escape, p[k] = <<"backslash", e>>, Escape[e] = v[k]
          PROVE  /\ at[k] = at[k - 1] + 2
                 /\ At(t, at[k - 1] + 1) = "backslash"
                 /\ At(t, at[k - 1] + 2) \in DOMAIN Escape /\ Escape[At(t, at[k - 1] + 2)] = v[k]
      <3>1. Len(p[k]) = 2 /\ p[k][1] = "backslash" /\ p[k][2] = e
        BY <2>8
      <3>2. At(t, (a + y) + 1) = "backslash" /\ At(t, (a + y) + 2) = e
        BY <2>5, <3>1
      <3>3. a + z = (a + y) + 2
        BY <2>4, <3>1
      <3> QED BY <2>3, <2>8, <3>2, <3>3
    <2> QED BY <2>6, <2>7, <2>8, EscapeIs
  <1>7. At(t, at[n] + 1) = "quote"
    BY <1>3, <1>5
  <1>8. Spelled(t, at, v)
    BY <1>3, <1>5, <1>6, <1>7 DEF Spelled
  <1> QED BY <1>3, <1>5, <1>8

\* A name is spelled as it is.
LEMMA NameIsSpelled ==
    ASSUME NEW t, NEW a \in Nat, NEW v \in Seq(STRING \ {"end", "quote", "backslash"}),
           Bears(t, a, v), At(t, (a + Len(v)) + 1) = "quote"
    PROVE  \E at : Spelled(t, at, v) /\ at[0] = a /\ at[Len(v)] = a + Len(v)
  <1>1. PICK n \in Nat : n = Len(v)
    OBVIOUS
  <1> DEFINE at == [i \in 0 .. n |-> a + i]
  <1>2. at \in [0 .. n -> Nat] /\ \A i \in 0 .. n : at[i] = a + i
    BY <1>1
  <1> HIDE DEF at
  <1>3. at[0] = a /\ at[n] = a + n
    BY <1>1, <1>2
  <1>4. ASSUME NEW k \in 1 .. n
        PROVE  /\ at[k] = at[k - 1] + 1
               /\ At(t, at[k - 1] + 1) = v[k] /\ v[k] \notin {"end", "quote", "backslash"}
    <2>1. at[k] = a + k /\ at[k - 1] = a + (k - 1) /\ (a + (k - 1)) + 1 = a + k
      BY <1>1, <1>2
    <2>2. At(t, a + k) = v[k]
      BY <1>1 DEF Bears
    <2>3. v[k] \notin {"end", "quote", "backslash"}
      BY <1>1
    <2> QED BY <2>1, <2>2, <2>3
  <1>5. Spelled(t, at, v)
    BY <1>1, <1>2, <1>3, <1>4 DEF Spelled
  <1> QED BY <1>1, <1>3, <1>5

\* Nothing is skipped where there is no white space.
LEMMA PastHere ==
    ASSUME NEW t, IsText(t), NEW i \in Nat \ {0}, At(t, i) \notin Space, i <= Len(t) + 1
    PROVE  Past(t, i) = i
  <1>1. i \in Position(t) /\ i >= i
    BY DEF IsText, Position
  <1>2. \A k \in i .. i - 1 : At(t, k) \in Space
    OBVIOUS
  <1> QED BY <1>1, <1>2, PastEnds

\* An escaped value is made of symbols.
LEMMA EscapedIs ==
    ASSUME NEW v \in Seq(Raw) PROVE Escaped(v) \in Seq(Sym)
  <1> DEFINE p == [i \in DOMAIN v |-> JsonEscape(v[i])]
  <1>1. DOMAIN v = 1 .. Len(v) /\ Len(v) \in Nat /\ \A i \in 1 .. Len(v) : v[i] \in Raw
    OBVIOUS
  <1>2. \A i \in 1 .. Len(v) : JsonEscape(v[i]) \in Seq(Sym)
    BY <1>1, EscapeIs
  <1>3. p = [i \in 1 .. Len(v) |-> JsonEscape(v[i])]
    BY <1>1
  <1>4. p \in Seq(Seq(Sym))
    BY <1>1, <1>2, <1>3
  <1>5. Escaped(v) = FlattenSeq(p)
    BY DEF Escaped
  <1> HIDE DEF p
  <1> QED BY <1>4, <1>5, FlattenedIs

\* The symbols of a name: none has to be escaped.
Plain == STRING \ {"end", "quote", "backslash"}

\* The length of two sequences, one behind the other.
LEMMA Glued ==
    ASSUME NEW T, NEW r \in Seq(T), NEW s \in Seq(T), NEW u, u = r \o s
    PROVE  u \in Seq(T) /\ Len(u) = Len(r) + Len(s)
  <1>1. r \o s \in Seq(T) /\ Len(r \o s) = Len(r) + Len(s)
    BY ConcatProperties
  <1> QED BY <1>1

\* Where the marks, the name and the value of a field lie in a text, behind a.
MemberLies(t, a, name, value, N, L) ==
    /\ N = Len(name) /\ L = Len(Escaped(value))
    /\ Len(Field(name, value)) = N + L + 5
    /\ Bears(t, a + 1, name) /\ Bears(t, a + N + 4, Escaped(value))
    /\ At(t, a + 1) = "quote" /\ At(t, a + N + 2) = "quote" /\ At(t, a + N + 3) = ":"
    /\ At(t, a + N + 4) = "quote" /\ At(t, a + N + L + 5) = "quote"

\* Where the parts of a field are.
LEMMA FieldHolds ==
    ASSUME NEW t, IsText(t), NEW a \in Nat, NEW name \in Seq(Plain), NEW value \in Seq(Raw),
           Bears(t, a, Field(name, value))
    PROVE  \E N, L \in Nat : MemberLies(t, a, name, value, N, L)
  <1>1. PICK colon : colon = ":"
    OBVIOUS
  <1>2. colon \in Sym /\ "quote" \in Sym
    BY <1>1, Zenon DEF Sym
  <1>3. PICK Q : Q = <<"quote">>
    OBVIOUS
  <1>4. PICK C : C = <<"quote", colon, "quote">>
    OBVIOUS
  <1>5. Q \in Seq(Sym) /\ Len(Q) = 1 /\ Q[1] = "quote"
    BY <1>2, <1>3
  <1>6. C \in Seq(Sym) /\ Len(C) = 3 /\ C[1] = "quote" /\ C[2] = colon /\ C[3] = "quote"
    BY <1>2, <1>4
  <1>7. name \in Seq(Sym)
    <2>1. Plain \subseteq Sym
      BY DEF Plain, Raw, Sym
    <2> QED BY <2>1, SeqMonotonic
  <1>8. PICK E : E = Escaped(value)
    OBVIOUS
  <1>9. E \in Seq(Sym)
    BY <1>8, EscapedIs
  <1>10. PICK N \in Nat, L \in Nat : N = Len(name) /\ L = Len(E)
    BY <1>9
  <1>11. PICK s1, s2, s3, s4 : /\ s1 = Q \o name /\ s2 = s1 \o C /\ s3 = s2 \o E /\ s4 = s3 \o Q
    OBVIOUS
  <1>12. Field(name, value) = s4
    BY <1>1, <1>3, <1>4, <1>8, <1>11, Zenon DEF Field
  <1>13. /\ s1 \in Seq(Sym) /\ s2 \in Seq(Sym) /\ s3 \in Seq(Sym) /\ s4 \in Seq(Sym)
         /\ Len(s1) = N + 1 /\ Len(s2) = N + 4 /\ Len(s3) = N + L + 4 /\ Len(s4) = N + L + 5
    <2>1. s1 \in Seq(Sym) /\ Len(s1) = N + 1
      <3>1. s1 \in Seq(Sym) /\ Len(s1) = Len(Q) + Len(name)
        <4>1. Q \in Seq(Sym)
          BY <1>5
        <4>2. s1 = Q \o name
          BY <1>11
        <4>3. s1 \in Seq(Sym)
          BY <4>1, <4>2, <1>7, Glued
        <4> QED BY <1>7, <4>1, <4>2, Glued
      <3> QED BY <1>5, <1>10, <3>1
    <2>2. s2 \in Seq(Sym) /\ Len(s2) = N + 4
      <3>1. s2 \in Seq(Sym) /\ Len(s2) = Len(s1) + Len(C)
        <4>1. C \in Seq(Sym) /\ s1 \in Seq(Sym)
          BY <1>6, <2>1
        <4>2. s2 = s1 \o C
          BY <1>11
        <4> QED BY <4>1, <4>2, Glued
      <3> QED BY <1>6, <1>10, <2>1, <3>1
    <2>3. s3 \in Seq(Sym) /\ Len(s3) = N + L + 4
      <3>1. s3 \in Seq(Sym) /\ Len(s3) = Len(s2) + Len(E)
        BY <1>9, <1>10, <1>11, <2>2, Glued, ZenonT(40)
      <3> QED BY <1>10, <2>2, <3>1
    <2>4. s4 \in Seq(Sym) /\ Len(s4) = N + L + 5
      <3>1. s4 \in Seq(Sym) /\ Len(s4) = Len(s3) + Len(Q)
        <4>1. Q \in Seq(Sym) /\ s3 \in Seq(Sym)
          BY <1>5, <2>3
        <4>2. s4 = s3 \o Q
          BY <1>11
        <4> QED BY <4>1, <4>2, Glued
      <3> QED BY <1>5, <1>10, <2>3, <3>1
    <2> QED BY <2>1, <2>2, <2>3, <2>4
  <1>14. Bears(t, a, s3) /\ Bears(t, a + Len(s3), Q)
    <2>1. Bears(t, a, s3 \o Q)
      BY <1>11, <1>12, Zenon
    <2> QED BY <1>5, <1>13, <2>1, HoldsParts
  <1>15. Bears(t, a, s2) /\ Bears(t, a + Len(s2), E)
    BY <1>9, <1>11, <1>13, <1>14, HoldsParts
  <1>16. Bears(t, a, s1) /\ Bears(t, a + Len(s1), C)
    BY <1>6, <1>11, <1>13, <1>15, HoldsParts
  <1>17. Bears(t, a, Q) /\ Bears(t, a + Len(Q), name)
    BY <1>5, <1>7, <1>11, <1>13, <1>16, HoldsParts
  <1>18. At(t, a + 1) = "quote"
    BY <1>5, <1>17 DEF Bears
  <1>19. At(t, (a + Len(s3)) + 1) = "quote"
    BY <1>5, <1>14 DEF Bears
  <1>20. /\ At(t, (a + Len(s1)) + 1) = "quote" /\ At(t, (a + Len(s1)) + 2) = colon
         /\ At(t, (a + Len(s1)) + 3) = "quote"
    BY <1>6, <1>16 DEF Bears
  <1>21. /\ (a + Len(s3)) + 1 = a + N + L + 5 /\ a + Len(s2) = a + N + 4
         /\ (a + Len(s1)) + 1 = a + N + 2 /\ (a + Len(s1)) + 2 = a + N + 3
         /\ (a + Len(s1)) + 3 = a + N + 4 /\ a + Len(Q) = a + 1
    BY <1>5, <1>10, <1>13
  <1>22. /\ Bears(t, a + 1, name) /\ Bears(t, a + N + 4, E)
         /\ At(t, a + 1) = "quote" /\ At(t, a + N + 2) = "quote" /\ At(t, a + N + 3) = colon
         /\ At(t, a + N + 4) = "quote" /\ At(t, a + N + L + 5) = "quote"
    BY <1>15, <1>17, <1>18, <1>19, <1>20, <1>21
  <1>23. Len(Field(name, value)) = N + L + 5
    BY <1>12, <1>13
  <1>24. MemberLies(t, a, name, value, N, L)
    BY <1>1, <1>8, <1>10, <1>22, <1>23, Zenon DEF MemberLies
  <1> QED BY <1>10, <1>24

\* A field that was written is read as a member.
LEMMA FieldIsRead ==
    ASSUME NEW t, IsText(t), NEW a \in Nat, NEW name \in Seq(Plain), NEW value \in Seq(Raw),
           Bears(t, a, Field(name, value))
    PROVE  /\ ReadMember(t, Reader(t), a + 1) =
                 Done((a + Len(Field(name, value))) + 1, <<name, [type |-> "String", of |-> value]>>)
           /\ At(t, a + 1) = "quote" /\ Len(Field(name, value)) \in Nat
  <1>1. PICK colon : colon = ":"
    OBVIOUS
  <1>2. colon \notin Space /\ colon # "end" /\ "quote" \notin Space /\ "quote" # "end"
    BY <1>1, Zenon DEF Space
  <1>0. PICK N \in Nat, L \in Nat : MemberLies(t, a, name, value, N, L)
    BY FieldHolds
  <1>3. /\ N = Len(name) /\ L = Len(Escaped(value))
        /\ Len(Field(name, value)) = N + L + 5
        /\ Bears(t, a + 1, name) /\ Bears(t, a + N + 4, Escaped(value))
        /\ At(t, a + 1) = "quote" /\ At(t, a + N + 2) = "quote" /\ At(t, a + N + 3) = colon
        /\ At(t, a + N + 4) = "quote" /\ At(t, a + N + L + 5) = "quote"
    BY <1>0, <1>1, Zenon DEF MemberLies
  <1>4. PICK R : R = Reader(t)
    OBVIOUS
  <1>5. R[<<"string", (a + 1) + 1>>] = Done(a + N + 3, name)
    <2>1. a + 1 \in Nat /\ ((a + 1) + N) + 1 = a + N + 2 /\ ((a + 1) + N) + 2 = a + N + 3
      OBVIOUS
    <2>2. PICK at : Spelled(t, at, name) /\ at[0] = a + 1 /\ at[Len(name)] = (a + 1) + Len(name)
      <3>1. At(t, ((a + 1) + Len(name)) + 1) = "quote"
        BY <1>3, <2>1
      <3> QED BY <1>3, <2>1, <3>1, NameIsSpelled DEF Plain
    <2>3. R[<<"string", at[0] + 1>>] = Done(at[Len(name)] + 2, name)
      BY <1>4, <2>2, StringIsRead
    <2> QED BY <1>3, <2>1, <2>2, <2>3
  <1>6. R[<<"string", (a + N + 4) + 1>>] = Done(a + N + L + 6, value)
    <2>1. a + N + 4 \in Nat /\ ((a + N + 4) + L) + 1 = a + N + L + 5
          /\ ((a + N + 4) + L) + 2 = a + N + L + 6
      OBVIOUS
    <2>2. PICK at : /\ Spelled(t, at, value) /\ at[0] = a + N + 4
                    /\ at[Len(value)] = (a + N + 4) + Len(Escaped(value))
      <3>1. At(t, ((a + N + 4) + Len(Escaped(value))) + 1) = "quote"
        BY <1>3, <2>1
      <3> QED BY <1>3, <2>1, <3>1, ValueIsSpelled, ZenonT(40)
    <2>3. R[<<"string", at[0] + 1>>] = Done(at[Len(value)] + 2, value)
      BY <1>4, <2>2, StringIsRead
    <2> QED BY <1>3, <2>1, <2>2, <2>3
  <1>7. ASSUME NEW i \in Nat \ {0}, At(t, i) # "end", At(t, i) \notin Space PROVE Past(t, i) = i
    <2>1. i \in Position(t)
      BY <1>7, AtIs
    <2>2. i <= Len(t) + 1
      BY <2>1, PlaceIs
    <2> QED BY <1>7, <2>2, PastHere
  <1>8. Past(t, a + 1) = a + 1
    BY <1>2, <1>3, <1>7
  <1>9. Past(t, a + N + 3) = a + N + 3
    BY <1>2, <1>3, <1>7
  <1>10. Past(t, a + N + 4) = a + N + 4
    BY <1>2, <1>3, <1>7
  <1>11. ReadValue(t, R, a + N + 4) = Done(a + N + L + 6, [type |-> "String", of |-> value])
    <2>1. PICK s : s = a + N + 4
      OBVIOUS
    <2>2. ReadValue(t, R, s) = Typed("String", R[<<"string", s + 1>>])
      <3>1. Past(t, s) = s /\ At(t, s) = "quote"
        BY <1>3, <1>10, <2>1
      <3> QED BY <3>1 DEF ReadValue, Literal
    <2>3. PICK r, z : r = Done(z, value) /\ z = a + N + L + 6
      OBVIOUS
    <2>4. Typed("String", r) = Done(z, [type |-> "String", of |-> value])
      <3>1. r.ok = TRUE /\ r.next = z /\ r.it = value
        BY <2>3, DoneIs
      <3> QED BY <3>1 DEF Typed
    <2> QED BY <1>6, <2>1, <2>2, <2>3, <2>4
  <1>12. PICK k, c, z, x : /\ k = a + 1 /\ c = a + N + 3 /\ z = a + N + L + 6
                           /\ x = [type |-> "String", of |-> value]
    OBVIOUS
  <1>13. (a + N + 3) + 1 = a + N + 4
    OBVIOUS
  <1>14. PICK key, val : key = R[<<"string", k + 1>>] /\ val = ReadValue(t, R, c + 1)
    OBVIOUS
  <1>15. /\ key.ok = TRUE /\ key.next = c /\ key.it = name
         /\ val.ok = TRUE /\ val.next = z /\ val.it = x
    <2>1. key = Done(c, name) /\ val = Done(z, x)
      BY <1>5, <1>11, <1>12, <1>13, <1>14
    <2> QED BY <2>1, DoneIs
  <1>16. Past(t, k) = k /\ At(t, k) = "quote" /\ Past(t, c) = c /\ At(t, c) = ":"
    BY <1>1, <1>3, <1>8, <1>9, <1>12, Zenon
  <1>17. ReadMember(t, R, k) = Done(z, <<name, x>>)
    BY <1>14, <1>15, <1>16 DEF ReadMember
  <1>18. z = (a + Len(Field(name, value))) + 1 /\ Len(Field(name, value)) \in Nat
    BY <1>3, <1>12
  <1> QED BY <1>3, <1>4, <1>12, <1>17, <1>18

\* A field is made of symbols.
LEMMA FieldIs ==
    ASSUME NEW name \in Seq(Plain), NEW value \in Seq(Raw)
    PROVE  Field(name, value) \in Seq(Sym)
  <1>1. /\ <<"quote">> \in Seq(Sym) /\ <<"quote", ":", "quote">> \in Seq(Sym)
    <2>1. PICK colon : colon = ":"
      OBVIOUS
    <2>2. colon \in Sym /\ "quote" \in Sym
      BY <2>1, Zenon DEF Sym
    <2>3. <<"quote">> \in Seq(Sym) /\ <<"quote", colon, "quote">> \in Seq(Sym)
      BY <2>2
    <2> QED BY <2>1, <2>3, Zenon
  <1>2. name \in Seq(Sym)
    <2>1. Plain \subseteq Sym
      BY DEF Plain, Raw, Sym
    <2> QED BY <2>1, SeqMonotonic
  <1>3. Escaped(value) \in Seq(Sym)
    BY EscapedIs
  <1>4. \A r, s \in Seq(Sym) : r \o s \in Seq(Sym)
    BY ConcatProperties
  <1> QED BY <1>1, <1>2, <1>3, <1>4, Zenon DEF Field

\* What follows an element is not the end of the text: another follows it, or
\* the list is closed.
Comma(c) == c = ","

\* An element is followed by another,
LEMMA ListGoes ==
    ASSUME NEW t, NEW f, NEW part, NEW close, Closing(close), NEW n, NEW it,
           NEW p, Past(t, n) = p, Comma(At(t, p))
    PROVE  Listed(t, f, part, Done(n, it), close) = With(it, f[<<part, p + 1>>])
  <1>1. PICK r : r = Done(n, it)
    OBVIOUS
  <1>2. r.ok = TRUE /\ r.next = n /\ r.it = it
    BY <1>1, DoneIs
  <1>3. PICK after : after = After(t, p, close)
    OBVIOUS
  <1>4. At(t, p) # close
    BY DEF Closing, Comma
  <1>5. after.on = "more" /\ after.next = p + 1
    BY <1>3, <1>4 DEF After, Goes, Comma
  <1>6. Listed(t, f, part, r, close) = With(it, f[<<part, p + 1>>])
    BY <1>2, <1>3, <1>5 DEF Listed
  <1> QED BY <1>1, <1>6

\* or closes the list.
LEMMA ListCloses ==
    ASSUME NEW t, NEW f, NEW part, NEW close, Closing(close), NEW n, NEW it,
           NEW p, Past(t, n) = p, At(t, p) = close
    PROVE  Listed(t, f, part, Done(n, it), close) = Done(p + 1, <<it>>)
  <1>1. PICK r : r = Done(n, it)
    OBVIOUS
  <1>2. r.ok = TRUE /\ r.next = n /\ r.it = it
    BY <1>1, DoneIs
  <1>3. PICK after : after = After(t, p, close)
    OBVIOUS
  <1>4. At(t, p) # ","
    BY Zenon DEF Closing
  <1>5. after.on = "closed" /\ after.next = p + 1
    BY <1>3, <1>4 DEF After, Goes
  <1>6. Listed(t, f, part, r, close) = Done(p + 1, <<it>>)
    BY <1>2, <1>3, <1>5 DEF Listed
  <1> QED BY <1>1, <1>6

\* Two elements, one behind the other.
LEMMA Paired ==
    ASSUME NEW x, NEW y
    PROVE  <<x>> \o <<y>> = <<x, y>>
  <1>1. PICK p, q : p = <<x>> /\ q = <<y>>
    OBVIOUS
  <1>2. /\ p \in Seq({x, y}) /\ q \in Seq({x, y}) /\ <<x, y>> \in Seq({x, y})
        /\ Len(p) = 1 /\ Len(q) = 1 /\ p[1] = x /\ q[1] = y
    BY <1>1
  <1>3. PICK r : r = p \o q
    OBVIOUS
  <1>4. /\ r \in Seq({x, y}) /\ Len(r) = 2
        /\ \A i \in 1 .. 2 : r[i] = IF i <= 1 THEN p[i] ELSE q[i - 1]
    BY <1>2, <1>3, ConcatProperties
  <1>5. r[1] = x /\ r[2] = y
    BY <1>2, <1>4
  <1>6. r = <<x, y>>
    BY <1>4, <1>5
  <1> QED BY <1>1, <1>3, <1>6

\* What a field is read as.
Fieldly(name, value) == <<name, [type |-> "String", of |-> value]>>

\* The body of a request with two fields.
Body(n1, v1, n2, v2) == <<"{">> \o Field(n1, v1) \o <<",">> \o Field(n2, v2) \o <<"}">>

\* Two fields between braces are read as an object that has those two members.
LEMMA RequestReads ==
    ASSUME NEW n1 \in Seq(Plain), NEW n2 \in Seq(Plain), NEW v1 \in Seq(Raw), NEW v2 \in Seq(Raw),
           NEW t, t = Body(n1, v1, n2, v2)
    PROVE  /\ t \in Seq(Sym)
           /\ Parse(t).ok
           /\ Parse(t).it = [type |-> "Object", of |-> <<Fieldly(n1, v1), Fieldly(n2, v2)>>]
  <1>1. PICK open, comma, close : open = "{" /\ comma = "," /\ close = "}"
    OBVIOUS
  <1>2. /\ open \in Sym /\ comma \in Sym /\ close \in Sym /\ "end" \notin Sym
        /\ open \notin Space /\ comma \notin Space /\ close \notin Space
        /\ open # "end" /\ comma # "end" /\ close # "end" /\ "quote" # close
        /\ "quote" \notin Space
    BY <1>1, Zenon DEF Sym, Raw, Space
  <1>3. PICK O, K, Z : O = <<open>> /\ K = <<comma>> /\ Z = <<close>>
    OBVIOUS
  <1>4. /\ O \in Seq(Sym) /\ Len(O) = 1 /\ O[1] = open
        /\ K \in Seq(Sym) /\ Len(K) = 1 /\ K[1] = comma
        /\ Z \in Seq(Sym) /\ Len(Z) = 1 /\ Z[1] = close
    BY <1>2, <1>3
  <1>5. PICK F, G : F = Field(n1, v1) /\ G = Field(n2, v2)
    OBVIOUS
  <1>6. F \in Seq(Sym) /\ G \in Seq(Sym)
    BY <1>5, FieldIs
  <1>7. PICK s1, s2, s3 : s1 = O \o F /\ s2 = s1 \o K /\ s3 = s2 \o G
    OBVIOUS
  <1>8. t = s3 \o Z
    BY <1>1, <1>3, <1>5, <1>7, Zenon DEF Body
  <1>9. s1 \in Seq(Sym) /\ Len(s1) = Len(O) + Len(F)
    <2>1. O \in Seq(Sym) /\ F \in Seq(Sym)
      BY <1>4, <1>6
    <2>2. s1 = O \o F
      BY <1>7
    <2> QED BY <2>1, <2>2, Glued
  <1>10. s2 \in Seq(Sym) /\ Len(s2) = Len(s1) + Len(K)
    <2>1. s1 \in Seq(Sym) /\ K \in Seq(Sym)
      BY <1>4, <1>9
    <2>2. s2 = s1 \o K
      BY <1>7
    <2> QED BY <2>1, <2>2, Glued
  <1>11. s3 \in Seq(Sym) /\ Len(s3) = Len(s2) + Len(G)
    <2>1. s2 \in Seq(Sym) /\ G \in Seq(Sym)
      BY <1>6, <1>10
    <2>2. s3 = s2 \o G
      BY <1>7
    <2> QED BY <2>1, <2>2, Glued
  <1>12. t \in Seq(Sym) /\ Len(t) = Len(s3) + Len(Z)
    <2>1. s3 \in Seq(Sym) /\ Z \in Seq(Sym)
      BY <1>4, <1>11
    <2> QED BY <1>8, <2>1, Glued
  <1>13. PICK m \in Nat, n \in Nat : m = Len(F) /\ n = Len(G)
    BY <1>6
  <1>14. Len(s1) = m + 1 /\ Len(s2) = m + 2 /\ Len(s3) = m + n + 2 /\ Len(t) = m + n + 3
    BY <1>4, <1>9, <1>10, <1>11, <1>12, <1>13
  <1>15. IsText(t) /\ Bears(t, 0, t)
    <2>1. \A k \in 1 .. Len(t) : t[k] \in Sym
      BY <1>12
    <2>2. IsText(t)
      BY <1>2, <1>13, <1>14, <2>1 DEF IsText
    <2>3. \A x \in 1 .. Len(t) : 0 + x = x /\ x \in Nat \ {0}
      BY <1>13, <1>14
    <2>4. \A x \in 1 .. Len(t) : At(t, 0 + x) = t[x]
      BY <2>2, <2>3, AtIs
    <2>5. 0 + Len(t) <= Len(t)
      BY <1>13, <1>14
    <2> QED BY <2>2, <2>4, <2>5 DEF Bears
  <1>16. Bears(t, 0, s3) /\ Bears(t, 0 + Len(s3), Z)
    <2>1. Bears(t, 0, s3 \o Z) /\ s3 \in Seq(Sym) /\ Z \in Seq(Sym)
      BY <1>4, <1>8, <1>11, <1>15
    <2> QED BY <1>15, <2>1, HoldsParts
  <1>17. Bears(t, 0, s2) /\ Bears(t, 0 + Len(s2), G)
    <2>1. Bears(t, 0, s2 \o G) /\ s2 \in Seq(Sym) /\ G \in Seq(Sym)
      BY <1>6, <1>7, <1>10, <1>16
    <2> QED BY <1>15, <2>1, HoldsParts
  <1>18. Bears(t, 0, s1) /\ Bears(t, 0 + Len(s1), K)
    <2>1. Bears(t, 0, s1 \o K) /\ s1 \in Seq(Sym) /\ K \in Seq(Sym)
      BY <1>4, <1>7, <1>9, <1>17
    <2> QED BY <1>15, <2>1, HoldsParts
  <1>19. Bears(t, 0, O) /\ Bears(t, 0 + Len(O), F)
    <2>1. Bears(t, 0, O \o F) /\ O \in Seq(Sym) /\ F \in Seq(Sym)
      BY <1>4, <1>6, <1>7, <1>18
    <2> QED BY <1>15, <2>1, HoldsParts
  <1>20. /\ 0 + Len(O) = 1 /\ 0 + Len(s1) = m + 1 /\ 0 + Len(s2) = m + 2 /\ 0 + Len(s3) = m + n + 2
    BY <1>4, <1>13, <1>14
  <1>21. Bears(t, 1, F) /\ Bears(t, m + 2, G)
    BY <1>17, <1>19, <1>20
  <1>22. At(t, 1) = open /\ At(t, m + 2) = comma /\ At(t, m + n + 3) = close
    <2>1. At(t, 0 + 1) = open
      BY <1>4, <1>19 DEF Bears
    <2>2. At(t, (m + 1) + 1) = comma
      BY <1>4, <1>18, <1>20 DEF Bears
    <2>3. At(t, (m + n + 2) + 1) = close
      <3>1. PICK b : b = 0 + Len(s3)
        OBVIOUS
      <3>2. At(t, b + 1) = close
        BY <1>4, <1>16, <3>1 DEF Bears
      <3>3. b = m + n + 2
        BY <1>20, <3>1
      <3> QED BY <3>2, <3>3
    <2>4. 0 + 1 = 1 /\ (m + 1) + 1 = m + 2 /\ (m + n + 2) + 1 = m + n + 3
      BY <1>13
    <2> QED BY <2>1, <2>2, <2>3, <2>4
  <1>23. PICK R : R = Reader(t)
    OBVIOUS
  <1>24. PICK x1, x2 : x1 = Fieldly(n1, v1) /\ x2 = Fieldly(n2, v2)
    OBVIOUS
  <1>25. /\ ReadMember(t, R, 2) = Done(m + 2, x1)
         /\ ReadMember(t, R, m + 3) = Done(m + n + 3, x2)
         /\ At(t, 2) = "quote"
    <2>1. ReadMember(t, R, 1 + 1) = Done((1 + Len(F)) + 1, x1) /\ At(t, 1 + 1) = "quote"
      BY <1>5, <1>15, <1>21, <1>23, <1>24, FieldIsRead DEF Fieldly
    <2>2. ReadMember(t, R, (m + 2) + 1) = Done(((m + 2) + Len(G)) + 1, x2)
      <3>1. m + 2 \in Nat
        BY <1>13
      <3> QED BY <1>5, <1>15, <1>21, <1>23, <1>24, <3>1, FieldIsRead DEF Fieldly
    <2>3. /\ 1 + 1 = 2 /\ (1 + Len(F)) + 1 = m + 2 /\ (m + 2) + 1 = m + 3
          /\ ((m + 2) + Len(G)) + 1 = m + n + 3
      BY <1>13
    <2> QED BY <2>1, <2>2, <2>3
  <1>26. ASSUME NEW i \in Nat \ {0}, At(t, i) # "end", At(t, i) \notin Space PROVE Past(t, i) = i
    <2>1. i \in Position(t)
      BY <1>15, <1>26, AtIs
    <2>2. i <= Len(t) + 1
      BY <1>15, <2>1, PlaceIs
    <2> QED BY <1>15, <1>26, <2>2, PastHere
  <1>27. /\ Past(t, 1) = 1 /\ Past(t, 2) = 2 /\ Past(t, m + 2) = m + 2
         /\ Past(t, m + n + 3) = m + n + 3
    <2>1. "quote" # "end" /\ m + 2 \in Nat \ {0} /\ m + n + 3 \in Nat \ {0}
      BY <1>13
    <2>2. Past(t, 1) = 1 /\ Past(t, 2) = 2
      BY <1>2, <1>22, <1>25, <1>26, <2>1
    <2>3. Past(t, m + 2) = m + 2
      BY <1>2, <1>22, <1>26, <2>1
    <2>4. Past(t, m + n + 3) = m + n + 3
      BY <1>2, <1>22, <1>26, <2>1
    <2> QED BY <2>2, <2>3, <2>4
  <1>28. Closing(close)
    BY <1>1 DEF Closing
  <1>29. ASSUME NEW i \in Nat \ {0}, At(t, i) # "end"
         PROVE  R[<<"members", i>>] = Listed(t, R, "members", ReadMember(t, R, i), close)
    <2>1. i \in Position(t)
      BY <1>15, <1>29, AtIs
    <2>2. /\ "members" \in Part
          /\ Step(t, R, <<"members", i>>) = Listed(t, R, "members", ReadMember(t, R, i), close)
      BY <1>1 DEF Step, Part
    <2> QED BY <1>15, <1>23, <2>1, <2>2, ReaderIs
  <1>30. R[<<"members", m + 3>>] = Done(m + n + 4, <<x2>>)
    <2>1. PICK i \in Nat \ {0} : i = m + 3
      BY <1>13
    <2>2. At(t, i) # "end"
      <3>1. At(t, (m + 2) + 1) = "quote"
        <4>1. m + 2 \in Nat
          BY <1>13
        <4> QED BY <1>5, <1>15, <1>21, <4>1, FieldIsRead
      <3>2. (m + 2) + 1 = m + 3
        BY <1>13
      <3> QED BY <2>1, <3>1, <3>2
    <2>3. R[<<"members", i>>] = Listed(t, R, "members", Done(m + n + 3, x2), close)
      BY <1>25, <1>29, <2>1, <2>2
    <2>4. Listed(t, R, "members", Done(m + n + 3, x2), close) = Done((m + n + 3) + 1, <<x2>>)
      <3>1. PICK c : c = m + n + 3
        OBVIOUS
      <3>2. Past(t, c) = c /\ At(t, c) = close
        BY <1>22, <1>27, <3>1
      <3>3. Listed(t, R, "members", Done(c, x2), close) = Done(c + 1, <<x2>>)
        BY <1>28, <3>2, ListCloses
      <3> QED BY <3>1, <3>3
    <2>5. (m + n + 3) + 1 = m + n + 4
      BY <1>13
    <2> QED BY <2>1, <2>3, <2>4, <2>5
  <1>31. R[<<"members", 2>>] = Done(m + n + 4, <<x1, x2>>)
    <2>1. R[<<"members", 2>>] = Listed(t, R, "members", Done(m + 2, x1), close)
      BY <1>25, <1>29
    <2>2. Listed(t, R, "members", Done(m + 2, x1), close) = With(x1, R[<<"members", (m + 2) + 1>>])
      <3>1. PICK c : c = m + 2
        OBVIOUS
      <3>2. Past(t, c) = c /\ At(t, c) = comma
        BY <1>22, <1>27, <3>1
      <3>3. Comma(At(t, c))
        BY <1>1, <3>2, Zenon DEF Comma
      <3>4. Listed(t, R, "members", Done(c, x1), close) = With(x1, R[<<"members", c + 1>>])
        BY <1>28, <3>2, <3>3, ListGoes
      <3> QED BY <3>1, <3>4
    <2>3. (m + 2) + 1 = m + 3
      BY <1>13
    <2>4. PICK r, z, l : r = Done(z, l) /\ z = m + n + 4 /\ l = <<x2>>
      OBVIOUS
    <2>5. With(x1, r) = Done(z, <<x1>> \o l)
      <3>1. r.ok = TRUE /\ r.next = z /\ r.it = l
        BY <2>4, DoneIs
      <3> QED BY <3>1 DEF With
    <2>6. <<x1>> \o l = <<x1, x2>>
      <3>1. <<x1>> \o <<x2>> = <<x1, x2>>
        BY Paired
      <3> QED BY <2>4, <3>1, Zenon
    <2> QED BY <1>30, <2>1, <2>2, <2>3, <2>4, <2>5, <2>6
  <1>32. PICK z, it : z = m + n + 4 /\ it = [type |-> "Object", of |-> <<x1, x2>>]
    OBVIOUS
  <1>33. ReadValue(t, R, 1) = Done(z, it)
    <2>1. ReadValue(t, R, 1) = Typed("Object", R[<<"members", 2>>])
      <3>1. At(t, Past(t, 2)) # "}"
        BY <1>1, <1>2, <1>25, <1>27, Zenon
      <3>2. Past(t, 1) = 1 /\ At(t, 1) = "{" /\ 1 + 1 = 2
        <4>1. 1 + 1 = 2
          OBVIOUS
        <4> QED BY <1>1, <1>22, <1>27, <4>1, Zenon
      <3> QED BY <3>1, <3>2 DEF ReadValue, Literal
    <2>2. PICK r, l : r = Done(z, l) /\ l = <<x1, x2>>
      OBVIOUS
    <2>3. Typed("Object", r) = Done(z, [type |-> "Object", of |-> l])
      <3>1. r.ok = TRUE /\ r.next = z /\ r.it = l
        BY <2>2, DoneIs
      <3> QED BY <3>1 DEF Typed
    <2> QED BY <1>31, <1>32, <2>1, <2>2, <2>3
  <1>34. Past(t, z) = Len(t) + 1 /\ z = Len(t) + 1
    <2>1. z = Len(t) + 1 /\ z \in Nat \ {0} /\ z > Len(t)
      BY <1>13, <1>14, <1>32
    <2>2. At(t, z) \notin Space
      BY <2>1 DEF At, Space
    <2>3. z <= Len(t) + 1
      BY <2>1
    <2> QED BY <1>15, <2>1, <2>2, <2>3, PastHere
  <1>35. PICK v : v = Reading(t)
    OBVIOUS
  <1>36. v.ok = TRUE /\ v.next = z /\ v.it = it
    <2>1. v = ReadValue(t, R, 1)
      BY <1>23, <1>35, Zenon DEF Reading
    <2>2. v = Done(z, it)
      BY <1>33, <2>1, Zenon
    <2> QED BY <2>2, DoneIs
  <1>37. Parse(t) = v
    BY <1>34, <1>35, <1>36 DEF Parse
  <1> QED BY <1>12, <1>24, <1>32, <1>36, <1>37

\* A field is looked up by its name, and no other is there.
LEMMA StrIs ==
    ASSUME NEW n1, NEW n2, n1 # n2, NEW v1, NEW v2, NEW name, NEW json,
           json = [type |-> "Object", of |-> <<Fieldly(n1, v1), Fieldly(n2, v2)>>]
    PROVE  /\ name = n1 => Str(json, name) = v1
           /\ name = n2 => Str(json, name) = v2
           /\ name \notin {n1, n2} => Str(json, name) = <<>>
  <1>1. PICK s : s = json.of
    OBVIOUS
  <1>2. /\ json.type = "Object" /\ s = <<Fieldly(n1, v1), Fieldly(n2, v2)>>
        /\ s[1] = Fieldly(n1, v1) /\ s[2] = Fieldly(n2, v2) /\ Len(s) = 2
    BY <1>1
  <1>3. /\ s[1][1] = n1 /\ s[1][2].type = "String" /\ s[1][2].of = v1
        /\ s[2][1] = n2 /\ s[2][2].type = "String" /\ s[2][2].of = v2
    BY <1>2 DEF Fieldly
  <1>4. PICK I : I = {i \in 1 .. Len(s) : s[i][1] = name}
    OBVIOUS
  <1>5. PICK first : first = IF I # {} THEN CHOOSE x \in I : \A y \in I : x =< y ELSE 0
    OBVIOUS
  <1>6. SelectInSeq(s, LAMBDA member : member[1] = name) = first
    BY <1>4, <1>5 DEF SelectInSeq, Min
  <1>7. Str(json, name) =
           IF first # 0 /\ s[first][2].type = "String" THEN s[first][2].of ELSE <<>>
    BY <1>1, <1>2, <1>6, Zenon DEF Str
  <1>8. CASE name = n1
    <2>1. I = {1}
      BY <1>2, <1>3, <1>4, <1>8
    <2>2. first = 1
      BY <1>5, <2>1
    <2> QED BY <1>3, <1>7, <1>8, <2>2
  <1>9. CASE name = n2
    <2>1. I = {2}
      BY <1>2, <1>3, <1>4, <1>9
    <2>2. first = 2
      BY <1>5, <2>1
    <2> QED BY <1>3, <1>7, <1>9, <2>2
  <1>10. CASE name \notin {n1, n2}
    <2>1. I = {}
      BY <1>2, <1>3, <1>4, <1>10
    <2>2. first = 0
      BY <1>5, <2>1
    <2> QED BY <1>7, <1>10, <2>2
  <1> QED BY <1>8, <1>9, <1>10

\* What is read is a text of the portal or a request of the client.
LEMMA TextIs ==
    ASSUME JsonInit
    PROVE  \/ text \in Seq(Raw) /\ fields = <<>>
           \/ \E n1, n2 \in Name : \E f \in [{n1, n2} -> Value] :
                 n1 # n2 /\ fields = f /\ text = Body(n1, f[n1], n2, f[n2])
  <1>1. CASE text \in Texts /\ fields = <<>>
    BY <1>1, JsonAssumption DEF Raw
  <1>2. ASSUME NEW n1 \in Name, NEW n2 \in Name, NEW f \in [{n1, n2} -> Value],
               n1 # n2, fields = f, text = Request(f, n1, n2)
        PROVE  text = Body(n1, f[n1], n2, f[n2])
    BY <1>2, Zenon DEF Request, Body
  <1> QED BY <1>1, <1>2, Zenon DEF JsonInit

\* A request is made of symbols, and read as an object of its two fields.
LEMMA BodyReads ==
    ASSUME NEW n1 \in Name, NEW n2 \in Name, NEW f \in [{n1, n2} -> Value],
           NEW t, t = Body(n1, f[n1], n2, f[n2])
    PROVE  /\ t \in Seq(Sym)
           /\ Parse(t).ok
           /\ Parse(t).it =
                 [type |-> "Object", of |-> <<Fieldly(n1, f[n1]), Fieldly(n2, f[n2])>>]
  <1>1. n1 \in Seq(Plain) /\ n2 \in Seq(Plain)
    BY JsonAssumption DEF Plain
  <1>2. f[n1] \in Seq(Raw) /\ f[n2] \in Seq(Raw)
    BY JsonAssumption DEF Raw
  <1> QED BY <1>1, <1>2, RequestReads

\* An answer that was cut off, anywhere in it, is not accepted, for answers of any
\* length and nesting: the reader of a beginning goes as the reader of the whole
\* until the cut, and nothing that ends with the text is whole.
THEOREM CutAnswerIsRejectedEver == JsonSpec => []CutAnswerIsRejected
  <1>1. JsonInit => CutAnswerIsRejected
    <2> SUFFICES ASSUME JsonInit, Parse(text).ok, IsAnswer(text), NEW n \in 0 .. Len(text) - 1
                 PROVE  ~Parse(SubSeq(text, 1, n)).ok
      BY Zenon DEF CutAnswerIsRejected, IsAnswer
    <2>1. "end" \notin Raw /\ "end" \notin Sym
      BY Zenon DEF Raw, Sym
    <2>2. PICK T : text \in Seq(T) /\ "end" \notin T
      BY <2>1, TextIs, BodyReads, Zenon
    <2>3. n \in 0 .. Len(text) /\ n < Len(text)
      BY <2>2
    <2>4. PICK u : u = SubSeq(text, 1, n)
      OBVIOUS
    <2>5. Cut(u, text) /\ Len(u) < Len(text)
      BY <2>2, <2>3, <2>4, CutIsCut
    <2> QED BY <2>4, <2>5, CutIsRejected
  <1>2. CutAnswerIsRejected /\ [FALSE]_<<text, fields>> => CutAnswerIsRejected'
    BY DEF CutAnswerIsRejected
  <1> QED BY <1>1, <1>2, PTL DEF JsonSpec

\* The portal reads the two fields the client wrote and no others, for names and
\* values of any length, quotes, escapes and line breaks in the values included.
THEOREM RequestIsReadEver == JsonSpec => []RequestIsRead
  <1>1. JsonInit => RequestIsRead
    <2>1. ASSUME NEW n1 \in Name, NEW n2 \in Name, NEW f \in [{n1, n2} -> Value], n1 # n2,
                 fields = f, text = Body(n1, f[n1], n2, f[n2])
          PROVE  RequestIsRead
      <3>1. PICK json : json = Parse(text).it
        OBVIOUS
      <3>2. Parse(text).ok
        BY <2>1, BodyReads
      <3>3. json = [type |-> "Object", of |-> <<Fieldly(n1, f[n1]), Fieldly(n2, f[n2])>>]
        BY <2>1, <3>1, BodyReads
      <3>4. Len(json.of) = 2
        BY <3>3
      <3>5. ASSUME NEW name \in Name
            PROVE  Str(json, name) = IF name \in DOMAIN fields THEN fields[name] ELSE <<>>
        <4>1. DOMAIN fields = {n1, n2}
          BY <2>1
        <4>2. /\ name = n1 => Str(json, name) = f[n1]
              /\ name = n2 => Str(json, name) = f[n2]
              /\ name \notin {n1, n2} => Str(json, name) = <<>>
          BY <2>1, <3>3, StrIs
        <4> QED BY <2>1, <4>1, <4>2
      <3> QED BY <3>1, <3>2, <3>4, <3>5, Zenon DEF RequestIsRead
    <2>2. fields = <<>> => RequestIsRead
      BY DEF RequestIsRead
    <2> QED BY <2>1, <2>2, TextIs, Zenon
  <1>2. RequestIsRead /\ [FALSE]_<<text, fields>> => RequestIsRead'
    BY DEF RequestIsRead
  <1> QED BY <1>1, <1>2, PTL DEF JsonSpec

-----------------------------------------------------------------------------
(* The reader and the grammar.                                             *)

\* The parts of the grammar that recur, and what each comes to from i to j.
Kind == {"body", "members", "items"}

\* What the grammar says of one of them.
Rule(t, is, p) ==
    CASE p[1] = "body"    -> IsBody(t, is, p[2], p[3])
      [] p[1] = "members" -> IsMembers(t, is, p[2], p[3])
      [] p[1] = "items"   -> IsItems(t, is, p[2], p[3])

\* Two readings of the grammar that agree on what begins behind i.
Agree(t, f, g, i) ==
    \A q \in Kind : \A k \in i + 1 .. Len(t) + 1 : \A j \in 0 .. Len(t) :
        f[<<q, k, j>>] = g[<<q, k, j>>]

\* What a rule says of a text from i to j is said of what begins behind i.
LEMMA RulesAgree ==
    ASSUME NEW t, IsText(t), NEW i \in Position(t), NEW j \in 0 .. Len(t), NEW f, NEW g,
           Agree(t, f, g, i), NEW q \in Kind
    PROVE  Rule(t, f, <<q, i, j>>) = Rule(t, g, <<q, i, j>>)
  <1>0. Len(t) \in Nat /\ i \in Nat \ {0} /\ i <= Len(t) + 1 /\ j \in Nat /\ j <= Len(t)
    BY PlaceIs
  <1>1. ASSUME NEW r \in Kind, NEW k \in Nat, NEW m \in Nat, k > i, m <= j, k <= Len(t) + 1
        PROVE  f[<<r, k, m>>] <=> g[<<r, k, m>>]
    <2>1. k \in i + 1 .. Len(t) + 1 /\ m \in 0 .. Len(t)
      BY <1>0, <1>1
    <2> QED BY <2>1 DEF Agree
  <1>2. "body" \in Kind /\ "members" \in Kind /\ "items" \in Kind
    BY DEF Kind
  <1>3. IsBody(t, f, i, j) <=> IsBody(t, g, i, j)
    <2>1. i <= j => (f[<<"body", i + 1, j>>] <=> g[<<"body", i + 1, j>>])
      BY <1>0, <1>1, <1>2
    <2>2. i < j => (f[<<"body", i + 2, j>>] <=> g[<<"body", i + 2, j>>])
      BY <1>0, <1>1, <1>2
    <2>3. i + 1 < j => (f[<<"body", i + 3, j>>] <=> g[<<"body", i + 3, j>>])
      BY <1>0, <1>1, <1>2
    <2>4. i <= j \/ i > j
      BY <1>0
    <2> QED BY <2>1, <2>2, <2>3, <2>4, Zenon DEF IsBody
  <1>4. ASSUME NEW a \in Nat, NEW b \in Nat, a >= i, b <= j
        PROVE  IsString(t, f, a, b) <=> IsString(t, g, a, b)
    <2>1. a < b => (f[<<"body", a + 1, b - 1>>] <=> g[<<"body", a + 1, b - 1>>])
      BY <1>0, <1>1, <1>2, <1>4
    <2> QED BY <2>1, Zenon DEF IsString
  <1>5. ASSUME NEW a \in Nat, NEW b \in Nat, a >= i, b <= j, NEW part \in Kind, NEW open, NEW close
        PROVE  IsClosed(t, f, part, open, close, a, b) <=> IsClosed(t, g, part, open, close, a, b)
    <2>1. a < b => (f[<<part, a + 1, b - 1>>] <=> g[<<part, a + 1, b - 1>>])
      BY <1>0, <1>1, <1>5
    <2> QED BY <2>1, Zenon DEF IsClosed
  <1>6. ASSUME NEW a \in Nat, NEW b \in Nat, a >= i, b <= j
        PROVE  IsValue(t, f, a, b) <=> IsValue(t, g, a, b)
    <2>1. ASSUME NEW c \in a .. b, NEW d \in c .. b
          PROVE  IsBare(t, f, c, d) <=> IsBare(t, g, c, d)
      <3>1. c \in Nat /\ d \in Nat /\ c >= i /\ d <= j
        BY <1>0, <1>6
      <3>2. IsString(t, f, c, d) <=> IsString(t, g, c, d)
        BY <1>4, <3>1
      <3>3. \A part \in Kind : \A open, close :
               IsClosed(t, f, part, open, close, c, d) <=> IsClosed(t, g, part, open, close, c, d)
        BY <1>5, <3>1
      <3> QED BY <1>2, <3>2, <3>3, Zenon DEF IsBare
    <2> QED BY <2>1, Zenon DEF IsValue
  <1>7. ASSUME NEW b \in Nat, b <= j
        PROVE  IsMember(t, f, i, b) <=> IsMember(t, g, i, b)
    <2>1. ASSUME NEW c \in i .. b
          PROVE  /\ IsValue(t, f, c + 1, b) <=> IsValue(t, g, c + 1, b)
                 /\ \A x \in i .. c - 1 : \A y \in x .. c - 1 :
                       IsString(t, f, x, y) <=> IsString(t, g, x, y)
      <3>1. c + 1 \in Nat /\ c + 1 >= i
        BY <1>0
      <3>2. IsValue(t, f, c + 1, b) <=> IsValue(t, g, c + 1, b)
        BY <1>6, <1>7, <3>1
      <3>3. ASSUME NEW x \in i .. c - 1, NEW y \in x .. c - 1
            PROVE  IsString(t, f, x, y) <=> IsString(t, g, x, y)
        <4>1. x \in Nat /\ y \in Nat /\ x >= i /\ y <= j
          BY <1>0, <1>7
        <4> QED BY <1>4, <4>1
      <3> QED BY <3>2, <3>3
    <2> QED BY <2>1, Zenon DEF IsMember
  <1>8. ASSUME NEW c \in i .. j, NEW r \in Kind
        PROVE  /\ c - 1 \in Nat /\ c - 1 <= j
               /\ f[<<r, c + 1, j>>] <=> g[<<r, c + 1, j>>]
    <2>1. c - 1 \in Nat /\ c - 1 <= j /\ c + 1 \in Nat /\ c + 1 > i /\ c + 1 <= Len(t) + 1 /\ j <= j
      BY <1>0
    <2> QED BY <1>0, <1>1, <2>1
  <1>9. j \in Nat /\ j <= j /\ i \in Nat /\ i >= i
    BY <1>0
  <1>10. IsMembers(t, f, i, j) <=> IsMembers(t, g, i, j)
    <2>1. IsMember(t, f, i, j) <=> IsMember(t, g, i, j)
      BY <1>7, <1>9
    <2>2. ASSUME NEW c \in i .. j
          PROVE  /\ IsMember(t, f, i, c - 1) <=> IsMember(t, g, i, c - 1)
                 /\ f[<<"members", c + 1, j>>] <=> g[<<"members", c + 1, j>>]
      BY <1>2, <1>7, <1>8
    <2> QED BY <2>1, <2>2, Zenon DEF IsMembers
  <1>11. IsItems(t, f, i, j) <=> IsItems(t, g, i, j)
    <2>1. IsValue(t, f, i, j) <=> IsValue(t, g, i, j)
      BY <1>6, <1>9
    <2>2. ASSUME NEW c \in i .. j
          PROVE  /\ IsValue(t, f, i, c - 1) <=> IsValue(t, g, i, c - 1)
                 /\ f[<<"items", c + 1, j>>] <=> g[<<"items", c + 1, j>>]
      BY <1>2, <1>6, <1>8, <1>9
    <2> QED BY <2>1, <2>2, Zenon DEF IsItems
  <1>12. PICK p : p = <<q, i, j>>
    OBVIOUS
  <1>13. p[1] = q /\ p[2] = i /\ p[3] = j
    BY <1>12
  <1>14. Rule(t, f, p) = Rule(t, g, p)
    <2>1. CASE q = "body"
      <3>1. Rule(t, f, p) = IsBody(t, f, i, j) /\ Rule(t, g, p) = IsBody(t, g, i, j)
        BY <1>13, <2>1 DEF Rule
      <3>2. IsBody(t, f, i, j) \in BOOLEAN /\ IsBody(t, g, i, j) \in BOOLEAN
        BY DEF IsBody
      <3> QED BY <1>3, <3>1, <3>2
    <2>2. CASE q = "members"
      <3>1. Rule(t, f, p) = IsMembers(t, f, i, j) /\ Rule(t, g, p) = IsMembers(t, g, i, j)
        BY <1>13, <2>2 DEF Rule
      <3>2. IsMembers(t, f, i, j) \in BOOLEAN /\ IsMembers(t, g, i, j) \in BOOLEAN
        BY DEF IsMembers
      <3> QED BY <1>10, <3>1, <3>2
    <2>3. CASE q = "items"
      <3>1. Rule(t, f, p) = IsItems(t, f, i, j) /\ Rule(t, g, p) = IsItems(t, g, i, j)
        BY <1>13, <2>3 DEF Rule
      <3>2. IsItems(t, f, i, j) \in BOOLEAN /\ IsItems(t, g, i, j) \in BOOLEAN
        BY DEF IsItems
      <3> QED BY <1>11, <3>1, <3>2
    <2> QED BY <2>1, <2>2, <2>3 DEF Kind
  <1> QED BY <1>12, <1>14

\* A reading of the grammar for what begins at n or behind it.
Settled(t, f, n) ==
    \A q \in Kind : \A i \in n .. Len(t) + 1 : \A j \in 0 .. Len(t) :
        f[<<q, i, j>>] = Rule(t, f, <<q, i, j>>)

\* The grammar says one thing of each part of a text.
LEMMA GrammarIs ==
    ASSUME NEW t, IsText(t)
    PROVE  \A q \in Kind : \A i \in Position(t) : \A j \in 0 .. Len(t) :
              Grammar(t)[<<q, i, j>>] = Rule(t, Grammar(t), <<q, i, j>>)
  <1> DEFINE D == Kind \X Position(t) \X (0 .. Len(t))
             Good == {d \in 0 .. Len(t) + 1 :
                         \E f : f = [p \in D |-> f[p]] /\ Settled(t, f, (Len(t) + 2) - d)}
  <1>0. Len(t) \in Nat
    BY DEF IsText
  <1>1. 0 \in Good
    <2> DEFINE f == [p \in D |-> p]
    <2>1. f = [p \in D |-> f[p]]
      OBVIOUS
    <2> HIDE DEF f, D
    <2>2. Settled(t, f, (Len(t) + 2) - 0)
      BY <1>0 DEF Settled
    <2> QED BY <1>0, <2>1, <2>2
  <1>2. ASSUME NEW d \in 1 .. Len(t) + 1, d - 1 \in Good PROVE d \in Good
    <2>1. PICK f : f = [p \in D |-> f[p]] /\ Settled(t, f, (Len(t) + 2) - (d - 1))
      BY <1>2
    <2>2. PICK n \in Position(t) : n = (Len(t) + 2) - d /\ n + 1 = (Len(t) + 2) - (d - 1)
      <3>1. /\ (Len(t) + 2) - d \in Position(t)
            /\ ((Len(t) + 2) - d) + 1 = (Len(t) + 2) - (d - 1)
        BY <1>0 DEF Position
      <3> QED BY <3>1, Zenon
    <2>3. Settled(t, f, n + 1)
      BY <2>1, <2>2
    <2> DEFINE g == [p \in D |-> IF p[2] = n THEN Rule(t, f, p) ELSE f[p]]
    <2>4. g = [p \in D |-> g[p]]
      OBVIOUS
    <2>5. ASSUME NEW q \in Kind, NEW i \in Position(t), NEW j \in 0 .. Len(t)
          PROVE  g[<<q, i, j>>] = IF i = n THEN Rule(t, f, <<q, i, j>>) ELSE f[<<q, i, j>>]
      OBVIOUS
    <2> HIDE DEF g, D
    <2>6. n \in Nat \ {0} /\ n <= Len(t) + 1
      BY PlaceIs
    <2>7. ASSUME NEW i \in Position(t), i >= n PROVE Agree(t, f, g, i)
      <3>1. ASSUME NEW q \in Kind, NEW k \in i + 1 .. Len(t) + 1, NEW j \in 0 .. Len(t)
            PROVE  f[<<q, k, j>>] = g[<<q, k, j>>]
        <4>1. k \in Position(t) /\ k # n
          BY <1>0, <2>6, <2>7, PlaceIs DEF Position
        <4> QED BY <2>5, <4>1
      <3> QED BY <3>1 DEF Agree
    <2>8. ASSUME NEW q \in Kind, NEW i \in n .. Len(t) + 1, NEW j \in 0 .. Len(t)
          PROVE  g[<<q, i, j>>] = Rule(t, g, <<q, i, j>>)
      <3>1. i \in Position(t) /\ i >= n
        BY <1>0, <2>6 DEF Position
      <3>2. Rule(t, f, <<q, i, j>>) = Rule(t, g, <<q, i, j>>)
        BY <2>7, <3>1, RulesAgree
      <3>3. g[<<q, i, j>>] = Rule(t, f, <<q, i, j>>)
        <4>1. CASE i = n
          BY <2>5, <3>1, <4>1
        <4>2. CASE i # n
          <5>1. i \in n + 1 .. Len(t) + 1
            BY <1>0, <2>6, <4>2
          <5>2. f[<<q, i, j>>] = Rule(t, f, <<q, i, j>>)
            BY <2>3, <5>1 DEF Settled
          <5> QED BY <2>5, <3>1, <4>2, <5>2
        <4> QED BY <4>1, <4>2
      <3> QED BY <3>2, <3>3
    <2>9. Settled(t, g, (Len(t) + 2) - d)
      <3>1. Settled(t, g, n)
        BY <2>8 DEF Settled
      <3> QED BY <2>2, <3>1
    <2>10. d \in 0 .. Len(t) + 1
      BY <1>0
    <2> QED BY <2>4, <2>9, <2>10
  <1> HIDE DEF Good
  <1>3. Len(t) + 1 \in Good
    <2>1. Len(t) + 1 \in Nat /\ Len(t) + 1 \in 0 .. Len(t) + 1
      BY <1>0
    <2> QED BY <1>1, <1>2, <2>1, Climb
  <1>4. PICK f : f = [p \in D |-> f[p]] /\ Settled(t, f, (Len(t) + 2) - (Len(t) + 1))
    BY <1>3 DEF Good
  <1>5. Settled(t, f, 1)
    BY <1>0, <1>4
  <1>6. f = [p \in D |-> Rule(t, f, p)]
    <2>1. ASSUME NEW p \in D PROVE f[p] = Rule(t, f, p)
      <3>1. PICK q \in Kind, i \in Position(t), j \in 0 .. Len(t) : p = <<q, i, j>>
        OBVIOUS
      <3> QED BY <1>5, <3>1 DEF Settled, Position
    <2> QED BY <1>4, <2>1
  <1>7. Grammar(t) = [p \in D |-> Rule(t, Grammar(t), p)]
    BY <1>6 DEF Grammar, Rule, Kind, Position
  <1> QED BY <1>7

\* What holds of a place of a text as soon as it holds of all behind it holds of all.
LEMMA Descend ==
    ASSUME NEW n \in Nat, NEW S,
           \A i \in 1 .. n : (\A k \in i + 1 .. n : k \in S) => i \in S
    PROVE  1 .. n \subseteq S
  <1> DEFINE Bad == {d \in 0 .. n - 1 : n - d \notin S}
  <1>1. ASSUME Bad # {} PROVE FALSE
    <2>1. Bad \subseteq Nat
      OBVIOUS
    <2>2. PICK m \in Bad : \A d \in Bad : m <= d
      <3> HIDE DEF Bad
      <3> QED BY <1>1, <2>1, Least
    <2>3. m \in 0 .. n - 1 /\ n - m \notin S
      OBVIOUS
    <2>4. PICK i \in 1 .. n : i = n - m
      BY <2>3
    <2>5. ASSUME NEW k \in i + 1 .. n PROVE k \in S
      <3>1. PICK d \in 0 .. n - 1 : d = n - k /\ d < m /\ n - d = k
        BY <2>3, <2>4
      <3>2. ~(m <= d)
        BY <2>3, <3>1
      <3>3. d \notin Bad
        BY <2>2, <3>2
      <3> QED BY <3>1, <3>3
    <2> QED BY <2>3, <2>4, <2>5
  <1>2. ASSUME NEW i \in 1 .. n PROVE i \in S
    <2>1. PICK d \in 0 .. n - 1 : d = n - i /\ n - d = i
      OBVIOUS
    <2> QED BY <1>1, <2>1
  <1> QED BY <1>2

\* What is read ends right behind j.
Ends(r, j) == r.ok /\ r.next = j + 1

\* A part in another ends where that ends.
LEMMA EndsIs ==
    ASSUME NEW x, NEW r, NEW j
    PROVE  /\ Ends(With(x, r), j) <=> Ends(r, j)
           /\ Ends(Typed(x, r), j) <=> Ends(r, j)
           /\ ~Ends(Broken, j)
           /\ \A n, it : Ends(Done(n, it), j) <=> n = j + 1
  <1>1. ~Ends(Broken, j) /\ \A n, it : Ends(Done(n, it), j) <=> n = j + 1
    BY DoneIs DEF Ends
  <1>2. CASE r.ok
    <2>1. With(x, r) = Done(r.next, <<x>> \o r.it)
      BY <1>2 DEF With
    <2>2. Typed(x, r) = Done(r.next, [type |-> x, of |-> r.it])
      BY <1>2 DEF Typed
    <2> QED BY <1>1, <1>2, <2>1, <2>2 DEF Ends
  <1>3. CASE ~r.ok
    <2>1. With(x, r) = Broken /\ Typed(x, r) = Broken
      BY <1>3 DEF With, Typed
    <2> QED BY <1>1, <1>3, <2>1 DEF Ends
  <1> QED BY <1>1, <1>2, <1>3

\* Each part of the reader of a text, and that it ends behind where it begins.
LEMMA PartIs ==
    ASSUME NEW t, IsText(t), NEW i \in Position(t)
    PROVE  /\ Alike(t, Reader(t), Reader(t), i)
           /\ \A q \in Part : /\ Reader(t)[<<q, i>>] = Step(t, Reader(t), <<q, i>>)
                              /\ Outcome(t, i, Reader(t)[<<q, i>>])
  <1>1. ASSUME NEW q \in Part, NEW j \in i + 1 .. Len(t) + 1
        PROVE  Outcome(t, j, Reader(t)[<<q, j>>])
    <2>1. j \in Position(t)
      BY PlaceIs DEF Position
    <2> QED BY <2>1, ReaderIs
  <1>2. Alike(t, Reader(t), Reader(t), i)
    BY <1>1 DEF Alike
  <1> QED BY <1>2, ReaderIs

\* A part that ends behind j began before j or there.
LEMMA EndsBehind ==
    ASSUME NEW t, IsText(t), NEW i \in Position(t), NEW r, Outcome(t, i, r), NEW j \in Nat,
           Ends(r, j)
    PROVE  j >= i /\ j <= Len(t)
  <1>1. r.next \in Position(t) /\ r.next > i /\ r.next = j + 1
    BY OutcomeIs DEF Ends
  <1>2. Len(t) \in Nat /\ i \in Nat /\ r.next \in Nat /\ r.next <= Len(t) + 1
    BY <1>1, PlaceIs
  <1> QED BY <1>1, <1>2

\* The reader and the grammar agree on the rest of a string, its closing quote at j.
BodyRight(t, i) ==
    \A j \in i .. Len(t) :
        t[j] = "quote" /\ Grammar(t)[<<"body", i, j - 1>>]
            <=> Ends(Reader(t)[<<"string", i>>], j)

\* They do if they do behind it,
LEMMA BodyStep ==
    ASSUME NEW t, IsText(t), NEW i \in Position(t),
           \A k \in i + 1 .. Len(t) + 1 : BodyRight(t, k)
    PROVE  BodyRight(t, i)
  <1> SUFFICES ASSUME NEW j \in i .. Len(t)
               PROVE  t[j] = "quote" /\ Grammar(t)[<<"body", i, j - 1>>]
                          <=> Ends(Reader(t)[<<"string", i>>], j)
    BY DEF BodyRight
  <1>0. PICK n \in Nat : n = Len(t)
    BY DEF IsText
  <1>1. i \in Nat \ {0} /\ j \in Nat /\ i <= j /\ j <= n
    BY <1>0, PlaceIs
  <1>2. PICK R, G : R = Reader(t) /\ G = Grammar(t)
    OBVIOUS
  <1>3. R[<<"string", i>>] = ReadString(t, R, i)
    <2>1. "string" \in Part /\ Step(t, R, <<"string", i>>) = ReadString(t, R, i)
      BY DEF Part, Step
    <2> QED BY <1>2, <2>1, PartIs
  <1>4. G[<<"body", i, j - 1>>] <=> IsBody(t, G, i, j - 1)
    <2>1. "body" \in Kind /\ Rule(t, G, <<"body", i, j - 1>>) = IsBody(t, G, i, j - 1)
      BY DEF Kind, Rule
    <2>2. j - 1 \in 0 .. Len(t)
      BY <1>0, <1>1
    <2>3. G[<<"body", i, j - 1>>] = Rule(t, G, <<"body", i, j - 1>>)
      BY <1>2, <2>1, <2>2, GrammarIs
    <2> QED BY <2>1, <2>3
  <1>5. ASSUME NEW k \in Nat, k > i, k <= n + 1
        PROVE  /\ k <= j => (t[j] = "quote" /\ G[<<"body", k, j - 1>>] <=> Ends(R[<<"string", k>>], j))
               /\ k > j => ~Ends(R[<<"string", k>>], j)
    <2>1. k \in i + 1 .. Len(t) + 1 /\ k \in Position(t)
      BY <1>0, <1>1, <1>5 DEF Position
    <2>2. k <= j => j \in k .. Len(t)
      BY <1>0, <1>1, <1>5
    <2>3. k > j => ~(j >= k)
      BY <1>1, <1>5
    <2>4. Outcome(t, k, R[<<"string", k>>])
      BY <1>2, <2>1, PartIs DEF Part
    <2> QED BY <1>1, <1>2, <2>1, <2>2, <2>3, <2>4, EndsBehind DEF BodyRight
  <1>6. ASSUME NEW k \in Nat \ {0}
        PROVE  /\ k <= n => At(t, k) = t[k] /\ t[k] # "end"
               /\ At(t, k) # "end" => k <= n
    <2>1. k <= n <=> k \in 1 .. Len(t)
      BY <1>0, <1>6
    <2>2. k > Len(t) <=> ~(k <= n)
      BY <1>0, <1>6
    <2> QED BY <2>1, <2>2, AtIs
  <1>7. At(t, i) = t[i] /\ t[i] # "end"
    BY <1>1, <1>6
  <1>8. CASE t[i] = "quote"
    <2>1. ReadString(t, R, i) = Done(i + 1, <<>>)
      BY <1>7, <1>8 DEF ReadString
    <2>2. Ends(R[<<"string", i>>], j) <=> i + 1 = j + 1
      BY <1>3, <2>1, EndsIs
    <2>3. IsBody(t, G, i, j - 1) <=> i > j - 1
      BY <1>8 DEF IsBody
    <2>4. (i > j - 1 <=> i = j) /\ (i + 1 = j + 1 <=> i = j)
      BY <1>1
    <2> QED BY <1>2, <1>4, <1>8, <2>2, <2>3, <2>4
  <1>9. CASE t[i] = "backslash" /\ At(t, i + 1) \in DOMAIN Escape
    <2>0. i + 1 \in Nat \ {0} /\ At(t, i + 1) # "end" /\ At(t, i + 1) # "u"
      BY <1>1, <1>9 DEF Escape
    <2>1. i + 1 <= n /\ t[i + 1] = At(t, i + 1)
      BY <1>6, <2>0
    <2>2. PICK k \in Nat : k = i + 2 /\ k > i /\ k <= n + 1
      BY <1>1, <2>1
    <2>3. ReadString(t, R, i) = With(Escape[At(t, i + 1)], R[<<"string", k>>])
      BY <1>7, <1>9, <2>2 DEF ReadString
    <2>4. Ends(R[<<"string", i>>], j) <=> Ends(R[<<"string", k>>], j)
      BY <1>3, <2>3, EndsIs
    <2>5. IsBody(t, G, i, j - 1) <=> i > j - 1 \/ (i < j - 1 /\ G[<<"body", k, j - 1>>])
      BY <1>9, <2>0, <2>1, <2>2 DEF IsBody
    <2>6. CASE k <= j
      <3>1. ~(i > j - 1) /\ i < j - 1
        BY <1>1, <2>2, <2>6
      <3> QED BY <1>2, <1>4, <1>5, <2>2, <2>4, <2>5, <2>6, <3>1
    <2>7. CASE k > j
      <3>1. ~(i < j - 1) /\ (i > j - 1 => i = j)
        BY <1>1, <2>2, <2>7
      <3> QED BY <1>2, <1>4, <1>5, <1>9, <2>2, <2>4, <2>5, <2>7, <3>1
    <2> QED BY <1>1, <2>2, <2>6, <2>7
  <1>10. CASE t[i] = "backslash" /\ At(t, i + 1) = "u" /\ At(t, i + 2) = "hex"
    <2>0. i + 1 \in Nat \ {0} /\ i + 2 \in Nat \ {0} /\ "u" \notin DOMAIN Escape
      BY <1>1 DEF Escape
    <2>1. i + 1 <= n /\ t[i + 1] = "u" /\ i + 2 <= n /\ t[i + 2] = "hex"
      BY <1>6, <1>10, <2>0
    <2>2. PICK k \in Nat : k = i + 3 /\ k > i /\ k <= n + 1
      BY <1>1, <2>1
    <2>3. ReadString(t, R, i) = With("unicode", R[<<"string", k>>])
      BY <1>7, <1>10, <2>0, <2>2 DEF ReadString
    <2>4. Ends(R[<<"string", i>>], j) <=> Ends(R[<<"string", k>>], j)
      BY <1>3, <2>3, EndsIs
    <2>5. IsBody(t, G, i, j - 1) <=> i > j - 1 \/ (i + 1 < j - 1 /\ G[<<"body", k, j - 1>>])
      BY <1>10, <2>0, <2>1, <2>2 DEF IsBody
    <2>6. CASE k <= j
      <3>1. ~(i > j - 1) /\ i + 1 < j - 1
        BY <1>1, <2>2, <2>6
      <3> QED BY <1>2, <1>4, <1>5, <2>2, <2>4, <2>5, <2>6, <3>1
    <2>7. CASE k > j
      <3>1. j = i \/ j = i + 1 \/ j = i + 2
        BY <1>1, <2>2, <2>7
      <3>2. t[j] # "quote"
        BY <1>10, <2>1, <3>1
      <3> QED BY <1>2, <1>5, <2>2, <2>4, <2>7, <3>2
    <2> QED BY <1>1, <2>2, <2>6, <2>7
  <1>11. CASE /\ t[i] = "backslash" /\ At(t, i + 1) \notin DOMAIN Escape
              /\ ~(At(t, i + 1) = "u" /\ At(t, i + 2) = "hex")
    <2>1. ReadString(t, R, i) = Broken
      BY <1>7, <1>11 DEF ReadString
    <2>2. ~Ends(R[<<"string", i>>], j)
      BY <1>3, <2>1, EndsIs
    <2>3. i < j - 1 => t[i + 1] = At(t, i + 1)
      <3>1. i < j - 1 => i + 1 \in Nat \ {0} /\ i + 1 <= n
        BY <1>1
      <3> QED BY <1>6, <3>1
    <2>4. i + 1 < j - 1 => t[i + 2] = At(t, i + 2) /\ i < j - 1
      <3>1. i + 1 < j - 1 => i + 2 \in Nat \ {0} /\ i + 2 <= n /\ i < j - 1
        BY <1>1
      <3> QED BY <1>6, <3>1
    <2>5. IsBody(t, G, i, j - 1) => i > j - 1
      BY <1>11, <2>3, <2>4 DEF IsBody
    <2>6. i > j - 1 => t[j] = "backslash"
      <3>1. i > j - 1 => i = j
        BY <1>1
      <3> QED BY <1>11, <3>1
    <2> QED BY <1>2, <1>4, <2>2, <2>5, <2>6
  <1>12. CASE t[i] \notin {"quote", "backslash"}
    <2>1. PICK k \in Nat : k = i + 1 /\ k > i /\ k <= n + 1
      BY <1>1
    <2>2. ReadString(t, R, i) = With(At(t, i), R[<<"string", k>>])
      BY <1>7, <1>12, <2>1 DEF ReadString
    <2>3. Ends(R[<<"string", i>>], j) <=> Ends(R[<<"string", k>>], j)
      BY <1>3, <2>2, EndsIs
    <2>4. IsBody(t, G, i, j - 1) <=> i > j - 1 \/ G[<<"body", k, j - 1>>]
      BY <1>12, <2>1 DEF IsBody
    <2>5. CASE k <= j
      <3>1. ~(i > j - 1)
        BY <1>1, <2>1, <2>5
      <3> QED BY <1>2, <1>4, <1>5, <2>1, <2>3, <2>4, <2>5, <3>1
    <2>6. CASE k > j
      <3>1. i = j
        BY <1>1, <2>1, <2>6
      <3> QED BY <1>2, <1>5, <1>12, <2>1, <2>3, <2>6, <3>1
    <2> QED BY <1>1, <2>1, <2>5, <2>6
  <1> QED BY <1>8, <1>9, <1>10, <1>11, <1>12

\* and so everywhere.
LEMMA BodyIs ==
    ASSUME NEW t, IsText(t)
    PROVE  \A i \in Position(t) : BodyRight(t, i)
  <1> DEFINE S == {i \in Position(t) : BodyRight(t, i)}
  <1>1. PICK n \in Nat : n = Len(t) + 1 /\ Position(t) = 1 .. n
    BY DEF IsText, Position
  <1>2. ASSUME NEW i \in 1 .. n, \A k \in i + 1 .. n : k \in S PROVE i \in S
    <2>1. \A k \in i + 1 .. Len(t) + 1 : BodyRight(t, k)
      BY <1>1, <1>2
    <2> QED BY <1>1, <2>1, BodyStep
  <1> HIDE DEF S
  <1>3. 1 .. n \subseteq S
    BY <1>2, Descend
  <1> QED BY <1>1, <1>3 DEF S

\* The reader and the grammar agree on a string from i to j.
LEMMA StringRight ==
    ASSUME NEW t, IsText(t), NEW i \in 1 .. Len(t), NEW j \in 0 .. Len(t)
    PROVE  IsString(t, Grammar(t), i, j) <=>
               t[i] = "quote" /\ Ends(Reader(t)[<<"string", i + 1>>], j)
  <1>0. Len(t) \in Nat /\ i \in Nat /\ j \in Nat
    BY DEF IsText
  <1>1. PICK k \in Position(t) : k = i + 1 /\ k \in Nat /\ k <= Len(t) + 1
    BY <1>0 DEF Position
  <1>2. CASE i < j
    <2>1. j \in k .. Len(t)
      BY <1>0, <1>1, <1>2
    <2>2. t[j] = "quote" /\ Grammar(t)[<<"body", k, j - 1>>] <=> Ends(Reader(t)[<<"string", k>>], j)
      BY <2>1, BodyIs DEF BodyRight
    <2> QED BY <1>1, <1>2, <2>2 DEF IsString
  <1>3. CASE ~(i < j)
    <2>1. ~(j >= k)
      BY <1>0, <1>1, <1>3
    <2>2. Outcome(t, k, Reader(t)[<<"string", k>>])
      BY PartIs DEF Part
    <2>3. ~Ends(Reader(t)[<<"string", k>>], j)
      BY <1>0, <2>1, <2>2, EndsBehind
    <2> QED BY <1>1, <1>3, <2>3 DEF IsString
  <1> QED BY <1>2, <1>3

\* The parts of objects and of arrays, between their marks.
Opens(part, open, close) ==
    \/ part = "members" /\ open = "{" /\ close = "}"
    \/ part = "items" /\ open = "[" /\ close = "]"

\* What such a value is.
TypeOf(part) == IF part = "members" THEN "Object" ELSE "Array"

\* Their marks are no others of JSON's.
LEMMA OpensIs ==
    ASSUME NEW part, NEW open, NEW close, Opens(part, open, close)
    PROVE  /\ part \in Part /\ part \in Kind /\ Closing(close) /\ close \notin Space /\ open \notin Space
           /\ close # "digit" /\ open # "quote" /\ open # "digit" /\ open \notin Literal /\ open # "end"
           /\ close # "end"
  BY Zenon DEF Opens, Part, Kind, Closing, Space, Literal

\* What is read ends inside, and only white space follows it up to j.
Fills(t, r, j) == r.ok /\ r.next <= j + 1 /\ AllSpace(t, r.next, j)

\* What stands where a value begins decides what it may be.
LEMMA BareIs ==
    ASSUME NEW t, NEW is, NEW a, NEW b, a \in a .. b
    PROVE  /\ t[a] = "quote" => (IsBare(t, is, a, b) <=> IsString(t, is, a, b))
           /\ t[a] \in Literal => (IsBare(t, is, a, b) <=> a = b)
           /\ \A part, open, close :
                 Opens(part, open, close) /\ t[a] = open =>
                    (IsBare(t, is, a, b) <=> IsClosed(t, is, part, open, close, a, b))
           /\ (t[a] # "quote" /\ t[a] \notin Literal
                  /\ \A part, open, close : Opens(part, open, close) => t[a] # open) =>
                 (IsBare(t, is, a, b) <=> \A k \in a .. b : t[k] = "digit")
           /\ IsBare(t, is, a, b) => t[a] \notin Space
  <1>1. Opens("members", "{", "}") /\ Opens("items", "[", "]")
    BY Zenon DEF Opens
  <1>2. t[a] = "quote" => (IsBare(t, is, a, b) <=> IsString(t, is, a, b))
    BY Zenon DEF IsBare, IsClosed, Literal
  <1>3. t[a] \in Literal => (IsBare(t, is, a, b) <=> a = b)
    BY Zenon DEF IsBare, IsClosed, IsString, Literal
  <1>4. ASSUME NEW part, NEW open, NEW close, Opens(part, open, close), t[a] = open
        PROVE  IsBare(t, is, a, b) <=> IsClosed(t, is, part, open, close, a, b)
    BY <1>4, Zenon DEF IsBare, IsClosed, IsString, Literal, Opens
  <1>5. (t[a] # "quote" /\ t[a] \notin Literal
             /\ \A part, open, close : Opens(part, open, close) => t[a] # open) =>
            (IsBare(t, is, a, b) <=> \A k \in a .. b : t[k] = "digit")
    BY <1>1, Zenon DEF IsBare, IsClosed, IsString
  <1>6. IsBare(t, is, a, b) => t[a] \notin Space
    BY Zenon DEF IsBare, IsClosed, IsString, Literal, Space
  <1> QED BY <1>2, <1>3, <1>4, <1>5, <1>6, Zenon

\* What the reader makes of a string that begins at a.
LEMMA StringBegins ==
    ASSUME NEW t, NEW f, NEW a, Past(t, a) = a, At(t, a) = "quote"
    PROVE  ReadValue(t, f, a) = Typed("String", f[<<"string", a + 1>>])
  BY DEF ReadValue, Literal

\* Of a literal word.
LEMMA WordBegins ==
    ASSUME NEW t, NEW f, NEW a, Past(t, a) = a, At(t, a) \in Literal
    PROVE  \E it : ReadValue(t, f, a) = Done(a + 1, it)
  BY DEF ReadValue, Literal

\* Of anything else but an object or an array.
LEMMA NumberBegins ==
    ASSUME NEW t, NEW f, NEW a, Past(t, a) = a,
           At(t, a) \notin {"end", "quote"}, At(t, a) \notin Literal,
           \A part, open, close : Opens(part, open, close) => At(t, a) # open
    PROVE  ReadValue(t, f, a) = Typed("Number", ReadNumber(t, f, a))
  <1>1. Opens("members", "{", "}") /\ Opens("items", "[", "]")
    BY Zenon DEF Opens
  <1>2. At(t, a) # "{" /\ At(t, a) # "["
    BY <1>1, Zenon
  <1> QED BY <1>2 DEF ReadValue

\* And of an object or array with nothing in it: k is behind its mark, e behind the
\* white space that follows.
LEMMA ClosedAtOnce ==
    ASSUME NEW t, NEW f, NEW part, NEW open, NEW close, Opens(part, open, close),
           NEW a, Past(t, a) = a, At(t, a) = open, NEW k, k = a + 1, NEW e, e = Past(t, k),
           At(t, e) = close
    PROVE  \A b : Ends(ReadValue(t, f, a), b) <=> e + 1 = b + 1
  <1>0. \A b : Ends(Typed(TypeOf(part), Done(e + 1, <<>>)), b) <=> e + 1 = b + 1
    BY EndsIs
  <1>1. CASE part = "members" /\ open = "{" /\ close = "}"
    BY <1>0, <1>1, Zenon DEF ReadValue, Literal, TypeOf
  <1>2. CASE part = "items" /\ open = "[" /\ close = "]"
    BY <1>0, <1>2, Zenon DEF ReadValue, Literal, TypeOf
  <1> QED BY <1>1, <1>2, Zenon DEF Opens

\* And of one with a list in it.
LEMMA ClosedLater ==
    ASSUME NEW t, NEW f, NEW part, NEW open, NEW close, Opens(part, open, close),
           NEW a, Past(t, a) = a, At(t, a) = open, NEW k, k = a + 1, NEW e, e = Past(t, k),
           At(t, e) # close
    PROVE  ReadValue(t, f, a) = Typed(TypeOf(part), f[<<part, k>>])
  <1>1. CASE part = "members" /\ open = "{" /\ close = "}"
    BY <1>1, Zenon DEF ReadValue, Literal, TypeOf
  <1>2. CASE part = "items" /\ open = "[" /\ close = "]"
    BY <1>2, Zenon DEF ReadValue, Literal, TypeOf
  <1> QED BY <1>1, <1>2, Zenon DEF Opens

\* A list that is closed at once has no element.
LEMMA NoElement ==
    ASSUME NEW t, IsText(t), NEW part, NEW open, NEW close, Opens(part, open, close),
           NEW k \in Position(t), At(t, Past(t, k)) = close
    PROVE  Reader(t)[<<part, k>>] = Broken
  <1>1. PICK R : R = Reader(t)
    OBVIOUS
  <1>2. PICK p : p = Past(t, k) /\ At(t, p) = close
    OBVIOUS
  <1>3. part \in Part /\ R[<<part, k>>] = Step(t, R, <<part, k>>)
    BY <1>1, OpensIs, ReaderIs
  <1>4. CASE part = "members" /\ close = "}"
    <2>1. At(t, p) # "quote"
      BY <1>2, <1>4, Zenon
    <2>2. ReadMember(t, R, k) = Broken
      BY <1>2, <2>1 DEF ReadMember
    <2>3. Listed(t, R, "members", Broken, "}") = Broken
      BY DoneIs DEF Listed
    <2>4. Step(t, R, <<"members", k>>) = Listed(t, R, "members", ReadMember(t, R, k), "}")
      BY DEF Step
    <2> QED BY <1>1, <1>3, <1>4, <2>2, <2>3, <2>4, Zenon
  <1>5. CASE part = "items" /\ close = "]"
    <2>1. /\ At(t, p) \notin {"quote", "digit", "end"} /\ At(t, p) \notin Literal
          /\ At(t, p) # "{" /\ At(t, p) # "["
      BY <1>2, <1>5, Zenon DEF Literal
    <2>2. ReadValue(t, R, k) = Typed("Number", ReadNumber(t, R, p))
      BY <1>2, <2>1 DEF ReadValue
    <2>3. ReadNumber(t, R, p) = Broken
      BY <2>1 DEF ReadNumber
    <2>4. Typed("Number", Broken) = Broken
      BY DoneIs DEF Typed
    <2>5. Listed(t, R, "items", Broken, "]") = Broken
      BY DoneIs DEF Listed
    <2>6. Step(t, R, <<"items", k>>) = Listed(t, R, "items", ReadValue(t, R, k), "]")
      BY DEF Step
    <2> QED BY <1>1, <1>3, <1>5, <2>2, <2>3, <2>4, <2>5, <2>6, Zenon
  <1> QED BY <1>4, <1>5, Zenon DEF Opens

\* The reader and the grammar agree on the rest of an object or array, its closing
\* mark at j.
ListRight(t, i) ==
    \A part, open, close : Opens(part, open, close) =>
        \A j \in i .. Len(t) :
            t[j] = close /\ Grammar(t)[<<part, i, j - 1>>] <=> Ends(Reader(t)[<<part, i>>], j)

\* White space between two places ends at the second.
LEMMA SpaceEnds ==
    ASSUME NEW t, IsText(t), NEW i \in Position(t), NEW j \in 1 .. Len(t), j >= i,
           AllSpace(t, i, j - 1), t[j] \notin Space
    PROVE  Past(t, i) = j
  <1>1. Len(t) \in Nat /\ i \in Nat \ {0} /\ j \in Nat \ {0} /\ j \in Position(t) /\ j <= Len(t)
    BY PlaceIs DEF Position
  <1>2. At(t, j) = t[j]
    BY <1>1, AtIs
  <1>3. ASSUME NEW k \in i .. j - 1 PROVE At(t, k) \in Space
    <2>1. k \in Nat \ {0} /\ k \in 1 .. Len(t)
      BY <1>1
    <2>2. At(t, k) = t[k]
      BY <2>1, AtIs
    <2> QED BY <2>2 DEF AllSpace
  <1> QED BY <1>1, <1>2, <1>3, PastEnds

\* And the white space that was skipped is all white.
LEMMA SkippedIs ==
    ASSUME NEW t, IsText(t), NEW i \in Position(t), NEW p, p = Past(t, i)
    PROVE  /\ p \in Position(t) /\ p >= i /\ At(t, p) \notin Space
           /\ AllSpace(t, i, p - 1)
           /\ \A j \in Nat : j < p => AllSpace(t, i, j)
  <1>1. p \in Position(t) /\ p >= i /\ At(t, p) \notin Space
    BY PastIs
  <1>2. Len(t) \in Nat /\ i \in Nat \ {0} /\ p \in Nat \ {0} /\ p <= Len(t) + 1
    BY <1>1, PlaceIs
  <1>3. ASSUME NEW k \in i .. p - 1 PROVE t[k] \in Space
    <2>1. k \in Nat \ {0} /\ k \in 1 .. Len(t)
      BY <1>2
    <2>2. At(t, k) = t[k] /\ At(t, k) \in Space
      BY <2>1, AtIs, PastIs
    <2> QED BY <2>2
  <1>4. ASSUME NEW j \in Nat, j < p PROVE AllSpace(t, i, j)
    <2>1. \A k \in i .. j : k \in i .. p - 1
      BY <1>2, <1>4
    <2> QED BY <1>3, <2>1 DEF AllSpace
  <1>5. AllSpace(t, i, p - 1)
    BY <1>3 DEF AllSpace
  <1> QED BY <1>1, <1>4, <1>5

\* An object or array from a to b.
LEMMA ClosedRight ==
    ASSUME NEW t, IsText(t), NEW part, NEW open, NEW close, Opens(part, open, close),
           NEW a \in 1 .. Len(t), NEW b \in a .. Len(t), t[a] = open, ListRight(t, a + 1)
    PROVE  IsClosed(t, Grammar(t), part, open, close, a, b) <=> Ends(ReadValue(t, Reader(t), a), b)
  <1>0. PICK n \in Nat : n = Len(t)
    BY DEF IsText
  <1>1. /\ a \in Nat \ {0} /\ b \in Nat \ {0} /\ a <= b /\ b <= n
        /\ At(t, a) = t[a]
    <2>1. a \in Nat \ {0} /\ b \in Nat \ {0} /\ a <= b /\ b <= n
      BY <1>0
    <2> QED BY <2>1, AtIs
  <1>2. PICK k \in Position(t) : k = a + 1 /\ k \in Nat \ {0} /\ k <= n + 1 /\ k > a
    BY <1>0, <1>1 DEF Position
  <1>3. PICK R, G : R = Reader(t) /\ G = Grammar(t)
    OBVIOUS
  <1>4. PICK e : e = Past(t, k)
    OBVIOUS
  <1>5. /\ e \in Nat /\ e >= k /\ e <= n + 1 /\ At(t, e) \notin Space /\ AllSpace(t, k, e - 1)
    BY <1>0, <1>4, SkippedIs, PlaceIs
  <1>6. Past(t, a) = a
    <2>1. At(t, a) \notin Space /\ a <= Len(t) + 1
      BY <1>0, <1>1, OpensIs
    <2> QED BY <1>1, <2>1, PastHere
  <1>7. /\ At(t, e) = close => (Ends(ReadValue(t, R, a), b) <=> e + 1 = b + 1)
        /\ At(t, e) # close => ReadValue(t, R, a) = Typed(TypeOf(part), R[<<part, k>>])
    <2>1. At(t, a) = open /\ At(t, a) # "end"
      BY <1>1, OpensIs
    <2>2. At(t, e) = close => (Ends(ReadValue(t, R, a), b) <=> e + 1 = b + 1)
      BY <1>2, <1>4, <1>6, <2>1, ClosedAtOnce
    <2>3. At(t, e) # close => ReadValue(t, R, a) = Typed(TypeOf(part), R[<<part, k>>])
      BY <1>2, <1>4, <1>6, <2>1, ClosedLater
    <2> QED BY <2>2, <2>3
  <1>8. IsClosed(t, G, part, open, close, a, b) <=>
            a < b /\ t[b] = close /\ (AllSpace(t, k, b - 1) \/ G[<<part, k, b - 1>>])
    BY <1>2 DEF IsClosed
  <1>9. a < b /\ t[b] = close /\ AllSpace(t, k, b - 1) => e = b
    <2>1. a < b => b \in 1 .. Len(t) /\ b >= k
      BY <1>0, <1>1, <1>2
    <2> QED BY <1>4, <2>1, OpensIs, SpaceEnds
  <1>10. b >= k =>
            (t[b] = close /\ G[<<part, k, b - 1>>] <=> Ends(R[<<part, k>>], b))
    <2>1. b >= k => b \in k .. Len(t)
      BY <1>0, <1>1, <1>2
    <2> QED BY <1>2, <1>3, <2>1 DEF ListRight
  <1>11. a < b <=> b >= k
    BY <1>1, <1>2
  <1>12. CASE At(t, e) = close
    <2>1. Ends(ReadValue(t, R, a), b) <=> e + 1 = b + 1
      BY <1>7, <1>12
    <2>2. e + 1 = b + 1 <=> e = b
      BY <1>1, <1>5
    <2>3. e = b => a < b /\ t[b] = close /\ AllSpace(t, k, b - 1)
      <3>1. b \in 1 .. Len(t)
        BY <1>0, <1>1
      <3>2. At(t, b) = t[b]
        BY <1>1, <3>1, AtIs
      <3> QED BY <1>5, <1>11, <1>12, <3>2
    <2>4. ~Ends(R[<<part, k>>], b)
      BY <1>3, <1>4, <1>12, NoElement, EndsIs
    <2> QED BY <1>3, <1>8, <1>9, <1>10, <1>11, <2>1, <2>2, <2>3, <2>4
  <1>13. CASE At(t, e) # close
    <2>1. Ends(ReadValue(t, R, a), b) <=> Ends(R[<<part, k>>], b)
      BY <1>7, <1>13, EndsIs
    <2>2. Ends(R[<<part, k>>], b) => b >= k
      <3>1. Outcome(t, k, R[<<part, k>>])
        BY <1>3, OpensIs, PartIs
      <3> QED BY <1>1, <3>1, EndsBehind
    <2>3. e = b => t[b] # close
      <3>1. b \in 1 .. Len(t)
        BY <1>0, <1>1
      <3>2. At(t, b) = t[b]
        BY <1>1, <3>1, AtIs
      <3> QED BY <1>13, <3>2
    <2> QED BY <1>3, <1>8, <1>9, <1>10, <1>11, <2>1, <2>2, <2>3
  <1> QED BY <1>12, <1>13

\* The reader takes all digits there are.
DigitsRight(t, i) ==
    \A j \in i .. Len(t) : At(t, j + 1) # "digit" =>
        ((\A k \in i .. j : t[k] = "digit") <=> Ends(ReadNumber(t, Reader(t), i), j))

\* It does if it does behind i,
LEMMA DigitsStep ==
    ASSUME NEW t, IsText(t), NEW i \in Position(t),
           \A k \in i + 1 .. Len(t) + 1 : DigitsRight(t, k)
    PROVE  DigitsRight(t, i)
  <1> SUFFICES ASSUME NEW j \in i .. Len(t), At(t, j + 1) # "digit"
               PROVE  (\A k \in i .. j : t[k] = "digit") <=> Ends(ReadNumber(t, Reader(t), i), j)
    BY DEF DigitsRight
  <1>0. PICK n \in Nat : n = Len(t)
    BY DEF IsText
  <1>1. i \in Nat \ {0} /\ j \in Nat \ {0} /\ i <= j /\ j <= n
    BY <1>0, PlaceIs
  <1>2. PICK k \in Position(t) : k = i + 1 /\ k \in Nat \ {0} /\ k \in i + 1 .. Len(t) + 1
    BY <1>0, <1>1 DEF Position
  <1>3. PICK R : R = Reader(t)
    OBVIOUS
  <1>4. At(t, i) = t[i] /\ i \in i .. j
    <2>1. i \in 1 .. Len(t)
      BY <1>0, <1>1
    <2> QED BY <1>1, <2>1, AtIs
  <1>5. CASE t[i] # "digit"
    <2>1. ReadNumber(t, R, i) = Broken
      BY <1>4, <1>5 DEF ReadNumber
    <2> QED BY <1>3, <1>4, <1>5, <2>1, EndsIs
  <1>6. CASE t[i] = "digit" /\ At(t, k) = "digit"
    <2>1. ReadNumber(t, R, i) = R[<<"number", k>>]
      BY <1>2, <1>4, <1>6 DEF ReadNumber
    <2>2. R[<<"number", k>>] = ReadNumber(t, R, k)
      <3>1. "number" \in Part /\ Step(t, R, <<"number", k>>) = ReadNumber(t, R, k)
        BY DEF Part, Step
      <3> QED BY <1>3, <3>1, ReaderIs
    <2>3. j >= k
      <3>1. i # j
        BY <1>2, <1>6
      <3> QED BY <1>1, <1>2, <3>1
    <2>4. j \in k .. Len(t)
      BY <1>0, <1>1, <1>2, <2>3
    <2>5. (\A m \in k .. j : t[m] = "digit") <=> Ends(ReadNumber(t, R, k), j)
      BY <1>2, <1>3, <2>4 DEF DigitsRight
    <2>6. \A m \in i .. j : m = i \/ m \in k .. j
      BY <1>1, <1>2
    <2>7. \A m \in k .. j : m \in i .. j
      BY <1>1, <1>2
    <2> QED BY <1>3, <1>6, <2>1, <2>2, <2>5, <2>6, <2>7
  <1>7. CASE t[i] = "digit" /\ At(t, k) # "digit"
    <2>1. ReadNumber(t, R, i) = Done(k, <<>>)
      BY <1>2, <1>4, <1>7 DEF ReadNumber
    <2>2. Ends(ReadNumber(t, R, i), j) <=> k = j + 1
      BY <2>1, EndsIs
    <2>3. CASE i = j
      <3>1. k = j + 1 /\ \A m \in i .. j : m = i
        BY <1>1, <1>2, <2>3
      <3> QED BY <1>3, <1>7, <2>2, <3>1
    <2>4. CASE i # j
      <3>1. k \in i .. j /\ k # j + 1 /\ k \in 1 .. Len(t)
        BY <1>0, <1>1, <1>2, <2>4
      <3>2. t[k] # "digit"
        BY <1>2, <1>7, <3>1, AtIs
      <3> QED BY <1>3, <2>2, <3>1, <3>2
    <2> QED BY <2>3, <2>4
  <1> QED BY <1>5, <1>6, <1>7

\* and so everywhere.
LEMMA DigitsIs ==
    ASSUME NEW t, IsText(t)
    PROVE  \A i \in Position(t) : DigitsRight(t, i)
  <1> DEFINE S == {i \in Position(t) : DigitsRight(t, i)}
  <1>1. PICK n \in Nat : n = Len(t) + 1 /\ Position(t) = 1 .. n
    BY DEF IsText, Position
  <1>2. ASSUME NEW i \in 1 .. n, \A k \in i + 1 .. n : k \in S PROVE i \in S
    <2>1. \A k \in i + 1 .. Len(t) + 1 : DigitsRight(t, k)
      BY <1>1, <1>2
    <2> QED BY <1>1, <2>1, DigitsStep
  <1> HIDE DEF S
  <1>3. 1 .. n \subseteq S
    BY <1>2, Descend
  <1> QED BY <1>1, <1>3 DEF S

\* The reader and the grammar agree on a value with no white space around it.
LEMMA BareRight ==
    ASSUME NEW t, IsText(t), NEW a \in 1 .. Len(t), NEW b \in a .. Len(t),
           t[a] \notin Space, At(t, b + 1) # "digit", ListRight(t, a + 1)
    PROVE  IsBare(t, Grammar(t), a, b) <=> Ends(ReadValue(t, Reader(t), a), b)
  <1>0. PICK n \in Nat : n = Len(t)
    BY DEF IsText
  <1>1. a \in Nat \ {0} /\ b \in Nat \ {0} /\ a <= b /\ b <= n
    BY <1>0
  <1>2. /\ a \in a .. b /\ a \in Position(t) /\ b \in 0 .. Len(t)
        /\ (a = b <=> a + 1 = b + 1)
    BY <1>0, <1>1 DEF Position
  <1>3. At(t, a) = t[a] /\ At(t, a) # "end" /\ Past(t, a) = a
    <2>1. At(t, a) = t[a] /\ At(t, a) # "end"
      BY <1>0, <1>1, AtIs DEF IsText
    <2>2. a <= Len(t) + 1
      BY <1>0, <1>1
    <2> QED BY <1>1, <2>1, <2>2, PastHere
  <1>4. PICK R, G : R = Reader(t) /\ G = Grammar(t)
    OBVIOUS
  <1>5. CASE t[a] = "quote"
    <2>1. IsBare(t, G, a, b) <=> IsString(t, G, a, b)
      BY <1>2, <1>5, BareIs
    <2>2. IsString(t, G, a, b) <=> Ends(R[<<"string", a + 1>>], b)
      BY <1>2, <1>4, <1>5, StringRight
    <2>3. ReadValue(t, R, a) = Typed("String", R[<<"string", a + 1>>])
      BY <1>3, <1>5, StringBegins
    <2>4. Ends(ReadValue(t, R, a), b) <=> Ends(R[<<"string", a + 1>>], b)
      BY <2>3, EndsIs
    <2> QED BY <1>4, <2>1, <2>2, <2>4
  <1>6. CASE t[a] \in Literal
    <2>1. IsBare(t, G, a, b) <=> a = b
      BY <1>2, <1>6, BareIs
    <2>2. PICK it : ReadValue(t, R, a) = Done(a + 1, it)
      BY <1>3, <1>6, WordBegins
    <2>3. Ends(ReadValue(t, R, a), b) <=> a + 1 = b + 1
      BY <2>2, EndsIs
    <2> QED BY <1>2, <1>4, <2>1, <2>3
  <1>7. ASSUME NEW part, NEW open, NEW close, Opens(part, open, close), t[a] = open
        PROVE  IsBare(t, G, a, b) <=> Ends(ReadValue(t, R, a), b)
    <2>1. IsBare(t, G, a, b) <=> IsClosed(t, G, part, open, close, a, b)
      BY <1>2, <1>7, BareIs
    <2>2. IsClosed(t, G, part, open, close, a, b) <=> Ends(ReadValue(t, R, a), b)
      BY <1>4, <1>7, ClosedRight
    <2> QED BY <2>1, <2>2
  <1>8. CASE /\ t[a] # "quote" /\ t[a] \notin Literal
             /\ \A part, open, close : Opens(part, open, close) => t[a] # open
    <2>1. IsBare(t, G, a, b) <=> \A k \in a .. b : t[k] = "digit"
      BY <1>2, <1>8, BareIs
    <2>2. (\A k \in a .. b : t[k] = "digit") <=> Ends(ReadNumber(t, R, a), b)
      <3>1. DigitsRight(t, a)
        BY <1>2, DigitsIs
      <3> QED BY <1>4, <3>1 DEF DigitsRight
    <2>3. ReadValue(t, R, a) = Typed("Number", ReadNumber(t, R, a))
      BY <1>3, <1>8, NumberBegins
    <2>4. Ends(ReadValue(t, R, a), b) <=> Ends(ReadNumber(t, R, a), b)
      BY <2>3, EndsIs
    <2> QED BY <1>4, <2>1, <2>2, <2>4
  <1> QED BY <1>4, <1>5, <1>6, <1>7, <1>8, Zenon

\* On a value with white space around it.
ValueRight(t, i) ==
    \A j \in 0 .. Len(t) : At(t, j + 1) # "digit" =>
        (IsValue(t, Grammar(t), i, j) <=> Fills(t, ReadValue(t, Reader(t), i), j))

\* White space, and then nothing or what may follow a number.
LEMMA NoDigitBehind ==
    ASSUME NEW t, IsText(t), NEW b \in Nat, NEW j \in 0 .. Len(t), b <= j,
           AllSpace(t, b + 1, j), At(t, j + 1) # "digit"
    PROVE  At(t, b + 1) # "digit"
  <1>0. Len(t) \in Nat /\ j \in Nat /\ j <= Len(t)
    BY DEF IsText
  <1>1. CASE b = j
    BY <1>1
  <1>2. CASE b # j
    <2>1. b + 1 \in b + 1 .. j /\ b + 1 \in 1 .. Len(t) /\ b + 1 \in Nat \ {0}
      BY <1>0, <1>2
    <2>2. t[b + 1] \in Space
      BY <2>1 DEF AllSpace
    <2>3. At(t, b + 1) = t[b + 1]
      BY <2>1, AtIs
    <2> QED BY <2>2, <2>3 DEF Space
  <1> QED BY <1>1, <1>2

\* They do if they agree on the objects and arrays behind it.
LEMMA ValueStep ==
    ASSUME NEW t, IsText(t), NEW i \in Position(t),
           \A k \in i + 1 .. Len(t) + 1 : ListRight(t, k)
    PROVE  ValueRight(t, i)
  <1> SUFFICES ASSUME NEW j \in 0 .. Len(t), At(t, j + 1) # "digit"
               PROVE  IsValue(t, Grammar(t), i, j) <=> Fills(t, ReadValue(t, Reader(t), i), j)
    BY DEF ValueRight
  <1>0. PICK n \in Nat : n = Len(t)
    BY DEF IsText
  <1>1. i \in Nat \ {0} /\ i <= n + 1 /\ j \in Nat /\ j <= n
    BY <1>0, PlaceIs
  <1>2. PICK R, G : R = Reader(t) /\ G = Grammar(t)
    OBVIOUS
  <1>3. PICK p : p = Past(t, i)
    OBVIOUS
  <1>4. /\ p \in Position(t) /\ p \in Nat \ {0} /\ p >= i /\ p <= n + 1
        /\ At(t, p) \notin Space /\ AllSpace(t, i, p - 1)
    <2>1. p \in Position(t) /\ p >= i /\ At(t, p) \notin Space /\ AllSpace(t, i, p - 1)
      BY <1>3, SkippedIs
    <2> QED BY <1>0, <2>1, PlaceIs
  <1>5. PICK r : r = ReadValue(t, R, p)
    OBVIOUS
  <1>6. ReadValue(t, R, i) = r
    <2>1. Past(t, p) = p
      BY <1>0, <1>4, PastHere
    <2> QED BY <1>3, <1>5, <2>1, Zenon DEF ReadValue
  <1>7. Outcome(t, p, r)
    BY <1>2, <1>4, <1>5, PartIs, ValueSteps
  <1>8. ASSUME NEW b \in p .. j, AllSpace(t, b + 1, j)
        PROVE  IsBare(t, G, p, b) <=> Ends(r, b)
    <2>1. /\ p \in 1 .. Len(t) /\ b \in p .. Len(t) /\ b \in Nat /\ b <= j
          /\ p + 1 \in i + 1 .. Len(t) + 1
      BY <1>0, <1>1, <1>4
    <2>2. t[p] \notin Space
      BY <1>4, <2>1, AtIs
    <2>3. At(t, b + 1) # "digit"
      BY <1>8, <2>1, NoDigitBehind
    <2>4. ListRight(t, p + 1)
      BY <2>1
    <2> QED BY <1>2, <1>5, <2>1, <2>2, <2>3, <2>4, BareRight
  <1>9. ASSUME IsValue(t, G, i, j) PROVE Fills(t, r, j)
    <2>0. PICK a \in i .. j : \E b \in a .. j :
              AllSpace(t, i, a - 1) /\ AllSpace(t, b + 1, j) /\ IsBare(t, G, a, b)
      BY <1>9, Zenon DEF IsValue
    <2>1. PICK b \in a .. j :
              AllSpace(t, i, a - 1) /\ AllSpace(t, b + 1, j) /\ IsBare(t, G, a, b)
      BY <2>0
    <2>2. a \in 1 .. Len(t) /\ a >= i /\ a \in a .. b /\ b \in Nat /\ b <= j
      BY <1>0, <1>1, <2>1
    <2>3. t[a] \notin Space
      BY <2>1, <2>2, BareIs
    <2>4. p = a
      BY <1>3, <2>1, <2>2, <2>3, SpaceEnds
    <2>5. Ends(r, b)
      BY <1>8, <2>1, <2>4
    <2>6. r.ok /\ r.next = b + 1 /\ b + 1 <= j + 1
      BY <1>1, <2>2, <2>5 DEF Ends
    <2> QED BY <2>1, <2>6 DEF Fills
  <1>10. ASSUME Fills(t, r, j) PROVE IsValue(t, G, i, j)
    <2>1. r.ok /\ r.next <= j + 1 /\ AllSpace(t, r.next, j)
      BY <1>10 DEF Fills
    <2>2. r.next \in Position(t) /\ r.next > p
      BY <1>4, <1>7, <2>1, OutcomeIs
    <2>3. r.next \in Nat
      BY <2>2, PlaceIs
    <2>4. PICK b \in p .. j : r.next = b + 1
      <3>1. r.next - 1 \in p .. j /\ r.next = (r.next - 1) + 1
        BY <1>1, <1>4, <2>1, <2>2, <2>3
      <3> QED BY <3>1
    <2>5. IsBare(t, G, p, b)
      BY <1>8, <2>1, <2>4 DEF Ends
    <2>6. p \in i .. j
      BY <1>1, <1>4, <2>4
    <2> QED BY <1>4, <2>1, <2>4, <2>5, <2>6, Zenon DEF IsValue
  <1> QED BY <1>2, <1>6, <1>9, <1>10

\* The mark between a key and its value.
Colon(c) == c = ":"

\* On a key and its value.
MemberRight(t, i) ==
    \A j \in 0 .. Len(t) : At(t, j + 1) # "digit" =>
        (IsMember(t, Grammar(t), i, j) <=> Fills(t, ReadMember(t, Reader(t), i), j))

\* A key and its value fit where the value does.
LEMMA MemberFills ==
    ASSUME NEW t, NEW f, NEW i, NEW j, NEW k, k = Past(t, i), NEW m, m = k + 1,
           NEW key, key = f[<<"string", m>>], NEW c, c = Past(t, key.next)
    PROVE  Fills(t, ReadMember(t, f, i), j) <=>
               /\ At(t, k) = "quote" /\ key.ok /\ Colon(At(t, c))
               /\ Fills(t, ReadValue(t, f, c + 1), j)
  <1>1. PICK value : value = ReadValue(t, f, c + 1)
    OBVIOUS
  <1>2. ReadMember(t, f, i) = IF At(t, k) = "quote" /\ key.ok /\ Colon(At(t, c)) /\ value.ok
                              THEN Done(value.next, <<key.it, value.it>>) ELSE Broken
    BY <1>1, Zenon DEF ReadMember, Colon
  <1>3. CASE At(t, k) = "quote" /\ key.ok /\ Colon(At(t, c)) /\ value.ok
    <2>1. PICK r, e : r = ReadMember(t, f, i) /\ e = value.next
      OBVIOUS
    <2>2. PICK it : r = Done(e, it)
      BY <1>2, <1>3, <2>1
    <2>3. r.ok = TRUE /\ r.next = e
      BY <2>2, DoneIs
    <2> QED BY <1>1, <1>3, <2>1, <2>3 DEF Fills
  <1>4. CASE ~(At(t, k) = "quote" /\ key.ok /\ Colon(At(t, c)) /\ value.ok)
    <2>1. ReadMember(t, f, i) = Broken
      BY <1>2, <1>4
    <2>2. ~ReadMember(t, f, i).ok
      BY <2>1, DoneIs
    <2> QED BY <1>1, <1>4, <2>2 DEF Fills
  <1> QED BY <1>3, <1>4

\* They do if they agree on the values behind it.
LEMMA MemberStep ==
    ASSUME NEW t, IsText(t), NEW i \in Position(t),
           \A k \in i + 1 .. Len(t) + 1 : ValueRight(t, k)
    PROVE  MemberRight(t, i)
  <1> SUFFICES ASSUME NEW j \in 0 .. Len(t), At(t, j + 1) # "digit"
               PROVE  IsMember(t, Grammar(t), i, j) <=> Fills(t, ReadMember(t, Reader(t), i), j)
    BY DEF MemberRight
  <1>0. PICK n \in Nat : n = Len(t)
    BY DEF IsText
  <1>1. i \in Nat \ {0} /\ i <= n + 1 /\ j \in Nat /\ j <= n
    BY <1>0, PlaceIs
  <1>2. PICK R, G : R = Reader(t) /\ G = Grammar(t)
    OBVIOUS
  <1>3. PICK k : k = Past(t, i)
    OBVIOUS
  <1>4. /\ k \in Position(t) /\ k \in Nat \ {0} /\ k >= i /\ k <= n + 1 /\ AllSpace(t, i, k - 1)
    <2>1. k \in Position(t) /\ k >= i /\ AllSpace(t, i, k - 1)
      BY <1>3, SkippedIs
    <2> QED BY <1>0, <2>1, PlaceIs
  <1>5. PICK m : m = k + 1
    OBVIOUS
  <1>6. PICK key : key = R[<<"string", m>>]
    OBVIOUS
  <1>7. PICK c : c = Past(t, key.next)
    OBVIOUS
  <1>8. Fills(t, ReadMember(t, R, i), j) <=>
            /\ At(t, k) = "quote" /\ key.ok /\ Colon(At(t, c))
            /\ Fills(t, ReadValue(t, R, c + 1), j)
    BY <1>3, <1>5, <1>6, <1>7, MemberFills, ZenonT(40)
  <1>9. ASSUME NEW b \in 0 .. Len(t), k \in 1 .. Len(t)
        PROVE  IsString(t, G, k, b) <=> At(t, k) = "quote" /\ Ends(key, b)
    <2>1. At(t, k) = t[k]
      BY <1>4, <1>9, AtIs
    <2> QED BY <1>2, <1>5, <1>6, <1>9, <2>1, StringRight
  <1>10. ASSUME NEW d \in i .. Len(t)
         PROVE  IsValue(t, G, d + 1, j) <=> Fills(t, ReadValue(t, R, d + 1), j)
    <2>1. d + 1 \in i + 1 .. Len(t) + 1
      BY <1>0, <1>1
    <2> QED BY <1>2, <2>1 DEF ValueRight
  <1>11. ASSUME IsMember(t, G, i, j)
         PROVE  /\ At(t, k) = "quote" /\ key.ok /\ Colon(At(t, c))
                /\ Fills(t, ReadValue(t, R, c + 1), j)
    <2>1. PICK d \in i .. j :
              /\ Colon(t[d]) /\ IsValue(t, G, d + 1, j)
              /\ \E a \in i .. d - 1 : \E b \in a .. d - 1 :
                    AllSpace(t, i, a - 1) /\ AllSpace(t, b + 1, d - 1) /\ IsString(t, G, a, b)
      BY <1>11, Zenon DEF IsMember, Colon
    <2>2. PICK a \in i .. d - 1 : \E b \in a .. d - 1 :
              AllSpace(t, i, a - 1) /\ AllSpace(t, b + 1, d - 1) /\ IsString(t, G, a, b)
      BY <2>1
    <2>3. PICK b \in a .. d - 1 :
              AllSpace(t, i, a - 1) /\ AllSpace(t, b + 1, d - 1) /\ IsString(t, G, a, b)
      BY <2>2
    <2>4. /\ d \in Nat \ {0} /\ d \in 1 .. Len(t) /\ d \in i .. Len(t)
          /\ a \in 1 .. Len(t) /\ a >= i /\ b \in Nat /\ b >= a /\ b < d /\ b \in 0 .. Len(t)
      BY <1>0, <1>1
    <2>5. t[a] = "quote" /\ t[a] \notin Space
      BY <2>3 DEF IsString, Space
    <2>6. k = a
      BY <1>3, <2>3, <2>4, <2>5, SpaceEnds
    <2>7. At(t, k) = "quote" /\ key.ok /\ key.next = b + 1
      BY <1>9, <2>3, <2>4, <2>6 DEF Ends
    <2>8. PICK q \in Position(t) : q = b + 1 /\ d >= q
      BY <1>0, <2>4 DEF Position
    <2>9. t[d] \notin Space
      BY <2>1, Zenon DEF Colon, Space
    <2>10. Past(t, q) = d
      BY <2>3, <2>4, <2>8, <2>9, SpaceEnds
    <2>11. c = d
      BY <1>7, <2>7, <2>8, <2>10
    <2>12. At(t, c) = t[d]
      BY <2>4, <2>11, AtIs
    <2>13. Fills(t, ReadValue(t, R, c + 1), j)
      BY <1>10, <2>1, <2>4, <2>11
    <2> QED BY <2>1, <2>7, <2>12, <2>13
  <1>12. ASSUME At(t, k) = "quote", key.ok, Colon(At(t, c)), Fills(t, ReadValue(t, R, c + 1), j)
         PROVE  IsMember(t, G, i, j)
    <2>1. k \in 1 .. Len(t) /\ m \in Position(t) /\ m = k + 1
      <3>1. ~(k > Len(t))
        BY <1>4, <1>12, AtIs
      <3> QED BY <1>0, <1>4, <1>5, <3>1 DEF Position
    <2>2. Outcome(t, m, key)
      BY <1>2, <1>6, <2>1, PartIs DEF Part
    <2>3. key.next \in Position(t) /\ key.next > m
      BY <1>12, <2>1, <2>2, OutcomeIs
    <2>4. c \in Position(t) /\ c >= key.next /\ AllSpace(t, key.next, c - 1)
      BY <1>7, <2>3, SkippedIs
    <2>5. At(t, c) # "end"
      BY <1>12, Zenon DEF Colon
    <2>6. c \in Nat \ {0} /\ key.next \in Nat /\ c \in 1 .. Len(t)
      <3>1. c \in Nat \ {0} /\ key.next \in Nat /\ c <= Len(t) + 1
        BY <2>3, <2>4, PlaceIs
      <3>2. ~(c > Len(t))
        BY <2>5, <3>1, AtIs
      <3> QED BY <1>0, <3>1, <3>2
    <2>7. Colon(t[c])
      BY <1>12, <2>6, AtIs
    <2>8. PICK b \in k .. c - 1 : key.next = b + 1 /\ b \in 0 .. Len(t)
      <3>1. /\ key.next - 1 \in k .. c - 1 /\ key.next = (key.next - 1) + 1
            /\ key.next - 1 \in 0 .. Len(t)
        BY <1>0, <1>4, <2>1, <2>3, <2>4, <2>6
      <3> QED BY <3>1
    <2>9. IsString(t, G, k, b)
      BY <1>9, <1>12, <2>1, <2>8 DEF Ends
    <2>10. c \in i .. Len(t) /\ c + 1 \in Position(t) /\ k \in i .. c - 1
      BY <1>0, <1>1, <1>4, <2>1, <2>3, <2>4, <2>6 DEF Position
    <2>11. IsValue(t, G, c + 1, j)
      BY <1>10, <1>12, <2>10
    <2>12. c \in i .. j
      <3>1. PICK r : r = ReadValue(t, R, c + 1)
        OBVIOUS
      <3>2. Outcome(t, c + 1, r)
        BY <1>2, <2>10, <3>1, PartIs, ValueSteps
      <3>3. r.ok /\ r.next <= j + 1
        BY <1>12, <3>1 DEF Fills
      <3>4. r.next \in Position(t) /\ r.next > c + 1
        BY <2>10, <3>2, <3>3, OutcomeIs
      <3>5. r.next \in Nat
        BY <3>4, PlaceIs
      <3> QED BY <1>1, <2>6, <2>10, <3>3, <3>4, <3>5
    <2>13. AllSpace(t, b + 1, c - 1)
      BY <2>4, <2>8
    <2> QED BY <1>4, <2>7, <2>8, <2>9, <2>10, <2>11, <2>12, <2>13, Zenon DEF IsMember, Colon
  <1> QED BY <1>2, <1>8, <1>11, <1>12

\* What E says of an element, and then the grammar of the rest of the list, before j.
Listing(t, part, i, E, j) ==
    \/ j - 1 \in E
    \/ \E c \in i .. j - 1 :
          Comma(t[c]) /\ c - 1 \in E /\ Grammar(t)[<<part, c + 1, j - 1>>]

\* One more element that the reader and the grammar agree on, then the rest.
LEMMA ListStep ==
    ASSUME NEW t, IsText(t), NEW i \in Position(t), NEW part, NEW open, NEW close,
           Opens(part, open, close),
           \A k \in i + 1 .. Len(t) + 1 : ListRight(t, k),
           NEW E, NEW r, Outcome(t, i, r),
           \A m \in 0 .. Len(t) : At(t, m + 1) # "digit" => (m \in E <=> Fills(t, r, m)),
           NEW j \in i .. Len(t)
    PROVE  t[j] = close /\ Listing(t, part, i, E, j)
               <=> Ends(Listed(t, Reader(t), part, r, close), j)
  <1>0. PICK n \in Nat : n = Len(t)
    BY DEF IsText
  <1>1. /\ i \in Nat \ {0} /\ i <= n + 1 /\ j \in Nat \ {0} /\ i <= j /\ j <= n
        /\ j \in 1 .. Len(t)
    BY <1>0, PlaceIs
  <1>2. PICK R, G : R = Reader(t) /\ G = Grammar(t)
    OBVIOUS
  <1>9. Listing(t, part, i, E, j) <=>
            \/ j - 1 \in E
            \/ \E c \in i .. j - 1 : Comma(t[c]) /\ c - 1 \in E /\ G[<<part, c + 1, j - 1>>]
    BY <1>2, Zenon DEF Listing
  <1>3. Closing(close) /\ close \notin Space /\ close # "digit"
    BY OpensIs
  <1>4. ASSUME NEW c \in 1 .. Len(t), t[c] # "digit"
        PROVE  c - 1 \in E <=> Fills(t, r, c - 1)
    <2>1. c \in Nat \ {0} /\ c - 1 \in 0 .. Len(t) /\ (c - 1) + 1 = c
      BY <1>0
    <2>2. At(t, c) = t[c]
      BY <2>1, AtIs
    <2> QED BY <1>4, <2>1, <2>2
  <1>5. ASSUME NEW c \in i .. Len(t)
        PROVE  /\ c \in Nat \ {0} /\ c \in 1 .. Len(t) /\ At(t, c) = t[c]
               /\ c + 1 \in Position(t) /\ c + 1 \in i + 1 .. Len(t) + 1
    <2>1. c \in Nat \ {0} /\ c \in 1 .. Len(t)
      BY <1>0, <1>1
    <2>2. c + 1 \in Position(t) /\ c + 1 \in i + 1 .. Len(t) + 1
      BY <1>0, <1>1 DEF Position
    <2> QED BY <2>1, <2>2, AtIs
  <1>6. ASSUME NEW c \in i .. Len(t), j >= c + 1
        PROVE  t[j] = close /\ G[<<part, c + 1, j - 1>>] <=> Ends(R[<<part, c + 1>>], j)
    <2>1. j \in c + 1 .. Len(t)
      BY <1>0, <1>1, <1>6
    <2>2. ListRight(t, c + 1)
      BY <1>5
    <2> QED BY <1>2, <2>1, <2>2 DEF ListRight
  <1>7. CASE ~r.ok
    <2>1. Listed(t, R, part, r, close) = Broken
      BY <1>7 DEF Listed
    <2>2. ~Ends(Listed(t, R, part, r, close), j)
      BY <2>1, EndsIs
    <2>3. \A m : ~Fills(t, r, m)
      BY <1>7 DEF Fills
    <2>4. t[j] = close => j - 1 \notin E
      BY <1>1, <1>3, <1>4, <2>3
    <2>5. \A c \in i .. j - 1 : Comma(t[c]) => c - 1 \notin E
      <3> SUFFICES ASSUME NEW c \in i .. j - 1, Comma(t[c]) PROVE c - 1 \notin E
        OBVIOUS
      <3>1. c \in 1 .. Len(t)
        BY <1>0, <1>1
      <3>2. t[c] # "digit"
        BY Zenon DEF Comma
      <3> QED BY <1>4, <2>3, <3>1, <3>2
    <2> QED BY <1>2, <1>9, <2>2, <2>4, <2>5
  <1>8. CASE r.ok
    <2>1. PICK q, it : r = Done(q, it)
      BY <1>8, OutcomeIs
    <2>2. r.next = q /\ q \in Position(t) /\ q > i /\ q \in Nat \ {0}
      <3>1. r.next = q
        BY <2>1, DoneIs
      <3> QED BY <1>8, <3>1, OutcomeIs, PlaceIs
    <2>3. PICK p : p = Past(t, q)
      OBVIOUS
    <2>4. /\ p \in Position(t) /\ p \in Nat \ {0} /\ p >= q /\ p <= n + 1
          /\ At(t, p) \notin Space /\ AllSpace(t, q, p - 1)
      <3>1. p \in Position(t) /\ p >= q /\ At(t, p) \notin Space /\ AllSpace(t, q, p - 1)
        BY <2>2, <2>3, SkippedIs
      <3> QED BY <1>0, <3>1, PlaceIs
    <2>5. ASSUME NEW c \in i .. Len(t), t[c] \notin Space, t[c] # "digit"
          PROVE  c - 1 \in E <=> c = p
      <3>1. c \in Nat \ {0} /\ c \in 1 .. Len(t)
        BY <1>5
      <3>2. c - 1 \in E <=> Fills(t, r, c - 1)
        BY <1>4, <2>5, <3>1
      <3>3. Fills(t, r, c - 1) <=> q <= c /\ AllSpace(t, q, c - 1)
        <4>1. (c - 1) + 1 = c
          BY <3>1
        <4> QED BY <1>8, <2>2, <4>1 DEF Fills
      <3>4. q <= c /\ AllSpace(t, q, c - 1) => c = p
        BY <2>2, <2>3, <2>5, <3>1, SpaceEnds
      <3>5. c = p => q <= c /\ AllSpace(t, q, c - 1)
        BY <2>2, <2>4, <3>1
      <3> QED BY <3>2, <3>3, <3>4, <3>5
    <2>6. t[j] = close => (j - 1 \in E <=> j = p)
      BY <1>0, <1>1, <1>3, <2>5
    <2>7. ASSUME NEW c \in i .. j - 1, Comma(t[c])
          PROVE  c \in i .. Len(t) /\ (c - 1 \in E <=> c = p) /\ j >= c + 1
      <3>1. c \in i .. Len(t) /\ j >= c + 1
        BY <1>0, <1>1
      <3>2. t[c] \notin Space /\ t[c] # "digit"
        BY <2>7, Zenon DEF Comma, Space
      <3> QED BY <2>5, <3>1, <3>2
    <2>8. p <= n => p \in i .. Len(t) /\ At(t, p) = t[p]
      <3>1. p <= n => p \in i .. Len(t)
        BY <1>0, <1>1, <2>2, <2>4
      <3> QED BY <1>5, <3>1
    <2>9. p > n => At(t, p) = "end"
      BY <1>0, <2>4, AtIs
    <2>10. CASE At(t, p) = close
      <3>1. Listed(t, R, part, r, close) = Done(p + 1, <<it>>)
        BY <1>3, <2>1, <2>3, <2>10, ListCloses
      <3>2. Ends(Listed(t, R, part, r, close), j) <=> p + 1 = j + 1
        BY <3>1, EndsIs
      <3>3. p + 1 = j + 1 <=> j = p
        BY <1>1, <2>4
      <3>4. j = p => t[j] = close
        BY <1>1, <2>8, <2>10
      <3>5. ASSUME NEW c \in i .. j - 1, Comma(t[c]), c - 1 \in E PROVE FALSE
        <4>1. c = p /\ c \in i .. Len(t)
          BY <2>7, <3>5
        <4>2. t[c] = close
          BY <1>5, <2>10, <4>1
        <4> QED BY <1>3, <3>5, <4>2, Zenon DEF Comma, Closing
      <3> QED BY <1>2, <1>9, <2>6, <3>2, <3>3, <3>4, <3>5
    <2>11. CASE Comma(At(t, p))
      <3>1. Listed(t, R, part, r, close) = With(it, R[<<part, p + 1>>])
        BY <1>3, <2>1, <2>3, <2>11, ListGoes
      <3>2. Ends(Listed(t, R, part, r, close), j) <=> Ends(R[<<part, p + 1>>], j)
        BY <3>1, EndsIs
      <3>3. p <= n
        <4>1. At(t, p) # "end"
          BY <2>11, Zenon DEF Comma
        <4> QED BY <1>0, <2>4, <2>9, <4>1
      <3>4. p \in i .. Len(t) /\ Comma(t[p])
        BY <2>8, <2>11, <3>3
      <3>5. Ends(R[<<part, p + 1>>], j) => j >= p + 1
        <4>1. p + 1 \in Position(t)
          BY <1>5, <3>4
        <4>2. Outcome(t, p + 1, R[<<part, p + 1>>])
          BY <1>2, <4>1, OpensIs, PartIs
        <4> QED BY <1>1, <4>1, <4>2, EndsBehind
      <3>6. j >= p + 1 <=> p \in i .. j - 1
        BY <1>1, <2>4, <3>4
      <3>7. t[j] = close => j # p
        <4>1. ~Comma(close)
          BY <1>3, Zenon DEF Closing, Comma
        <4> QED BY <3>4, <4>1
      <3>8. p \in i .. j - 1 => p - 1 \in E
        BY <2>7, <3>4
      <3>9. p \in i .. j - 1 =>
               (t[j] = close /\ G[<<part, p + 1, j - 1>>] <=> Ends(R[<<part, p + 1>>], j))
        BY <1>6, <3>4, <3>6
      <3>10. \A c \in i .. j - 1 : Comma(t[c]) /\ c - 1 \in E => c = p
        BY <2>7
      <3> QED BY <1>2, <1>9, <2>6, <3>2, <3>4, <3>5, <3>6, <3>7, <3>8, <3>9, <3>10
    <2>12. CASE At(t, p) # close /\ ~Comma(At(t, p))
      <3>1. Listed(t, R, part, r, close) = Broken
        <4>1. After(t, Past(t, r.next), close).on = "wrong"
          <5>1. Past(t, r.next) = p
            BY <2>2, <2>3
          <5> QED BY <2>12, <5>1 DEF After, Goes, Comma
        <4> QED BY <1>8, <4>1 DEF Listed
      <3>2. ~Ends(Listed(t, R, part, r, close), j)
        BY <3>1, EndsIs
      <3>3. t[j] = close => j # p
        BY <1>1, <2>8, <2>12
      <3>4. \A c \in i .. j - 1 : Comma(t[c]) => c - 1 \notin E
        <4> SUFFICES ASSUME NEW c \in i .. j - 1, Comma(t[c]), c - 1 \in E PROVE FALSE
          OBVIOUS
        <4>1. c = p /\ c \in i .. Len(t)
          BY <2>7
        <4> QED BY <1>5, <2>12, <4>1
      <3> QED BY <1>2, <1>9, <2>6, <3>2, <3>3, <3>4
    <2> QED BY <2>10, <2>11, <2>12
  <1> QED BY <1>7, <1>8

\* What a list begins with is what the reader and the grammar make of it there.
LEMMA ListBegun ==
    ASSUME NEW t, IsText(t), NEW i \in Position(t),
           \A k \in i + 1 .. Len(t) + 1 : ListRight(t, k)
    PROVE  ListRight(t, i)
  <1>0. PICK n \in Nat : n = Len(t)
    BY DEF IsText
  <1>1. i \in Nat \ {0} /\ i <= n + 1
    BY <1>0, PlaceIs
  <1>2. PICK R, G : R = Reader(t) /\ G = Grammar(t)
    OBVIOUS
  <1>3. ASSUME NEW k \in i .. Len(t) + 1 PROVE ValueRight(t, k)
    <2>1. k \in Position(t) /\ \A m \in k + 1 .. Len(t) + 1 : m \in i + 1 .. Len(t) + 1
      BY <1>0, <1>1 DEF Position
    <2> QED BY <2>1, ValueStep
  <1>4. ValueRight(t, i) /\ \A k \in i + 1 .. Len(t) + 1 : ValueRight(t, k)
    <2>1. i \in i .. Len(t) + 1 /\ \A k \in i + 1 .. Len(t) + 1 : k \in i .. Len(t) + 1
      BY <1>0, <1>1
    <2> QED BY <1>3, <2>1
  <1>5. MemberRight(t, i)
    BY <1>4, MemberStep
  <1>6. ASSUME NEW j \in i .. Len(t)
        PROVE  /\ j - 1 \in 0 .. Len(t)
               /\ \A c \in i .. j - 1 : c - 1 \in 0 .. Len(t)
    BY <1>0, <1>1
  <1>7. Alike(t, R, R, i)
    BY <1>2, PartIs
  <1>8. ASSUME NEW open, NEW close, Opens("members", open, close), NEW j \in i .. Len(t)
        PROVE  t[j] = close /\ G[<<"members", i, j - 1>>] <=> Ends(R[<<"members", i>>], j)
    <2>1. PICK r : r = ReadMember(t, R, i)
      OBVIOUS
    <2>2. PICK E : E = {m \in 0 .. Len(t) : IsMember(t, G, i, m)}
      OBVIOUS
    <2>3. Outcome(t, i, r)
      BY <1>7, <2>1, MemberSteps
    <2>4. \A m \in 0 .. Len(t) : At(t, m + 1) # "digit" => (m \in E <=> Fills(t, r, m))
      BY <1>2, <1>5, <2>1, <2>2 DEF MemberRight
    <2>5. R[<<"members", i>>] = Listed(t, R, "members", r, close)
      <3>1. R[<<"members", i>>] = Step(t, R, <<"members", i>>)
        BY <1>2, PartIs DEF Part
      <3>2. close = "}"
        BY <1>8, Zenon DEF Opens
      <3>3. Step(t, R, <<"members", i>>) = Listed(t, R, "members", r, "}")
        BY <2>1 DEF Step
      <3> QED BY <3>1, <3>2, <3>3, Zenon
    <2>6. G[<<"members", i, j - 1>>] <=> IsMembers(t, G, i, j - 1)
      <3>1. G[<<"members", i, j - 1>>] = Rule(t, G, <<"members", i, j - 1>>)
        BY <1>2, <1>6, GrammarIs DEF Kind
      <3>2. Rule(t, G, <<"members", i, j - 1>>) = IsMembers(t, G, i, j - 1)
        BY DEF Rule
      <3> QED BY <3>1, <3>2
    <2>7. IsMembers(t, G, i, j - 1) <=> Listing(t, "members", i, E, j)
      <3>1. IsMembers(t, G, i, j - 1) <=>
               \/ IsMember(t, G, i, j - 1)
               \/ \E c \in i .. j - 1 :
                     Comma(t[c]) /\ IsMember(t, G, i, c - 1) /\ G[<<"members", c + 1, j - 1>>]
        BY Zenon DEF IsMembers, Comma
      <3>2. IsMember(t, G, i, j - 1) <=> j - 1 \in E
        BY <1>6, <2>2
      <3>3. \A c \in i .. j - 1 : IsMember(t, G, i, c - 1) <=> c - 1 \in E
        BY <1>6, <2>2
      <3> QED BY <1>2, <3>1, <3>2, <3>3, Zenon DEF Listing
    <2>8. t[j] = close /\ Listing(t, "members", i, E, j) <=> Ends(Listed(t, R, "members", r, close), j)
      BY <1>2, <1>8, <2>3, <2>4, ListStep
    <2> QED BY <2>5, <2>6, <2>7, <2>8, Zenon
  <1>9. ASSUME NEW open, NEW close, Opens("items", open, close), NEW j \in i .. Len(t)
        PROVE  t[j] = close /\ G[<<"items", i, j - 1>>] <=> Ends(R[<<"items", i>>], j)
    <2>1. PICK r : r = ReadValue(t, R, i)
      OBVIOUS
    <2>2. PICK E : E = {m \in 0 .. Len(t) : IsValue(t, G, i, m)}
      OBVIOUS
    <2>3. Outcome(t, i, r)
      BY <1>7, <2>1, ValueSteps
    <2>4. \A m \in 0 .. Len(t) : At(t, m + 1) # "digit" => (m \in E <=> Fills(t, r, m))
      BY <1>2, <1>4, <2>1, <2>2 DEF ValueRight
    <2>5. R[<<"items", i>>] = Listed(t, R, "items", r, close)
      <3>1. R[<<"items", i>>] = Step(t, R, <<"items", i>>)
        BY <1>2, PartIs DEF Part
      <3>2. close = "]"
        BY <1>9, Zenon DEF Opens
      <3>3. Step(t, R, <<"items", i>>) = Listed(t, R, "items", r, "]")
        BY <2>1 DEF Step
      <3> QED BY <3>1, <3>2, <3>3, Zenon
    <2>6. G[<<"items", i, j - 1>>] <=> IsItems(t, G, i, j - 1)
      <3>1. G[<<"items", i, j - 1>>] = Rule(t, G, <<"items", i, j - 1>>)
        BY <1>2, <1>6, GrammarIs DEF Kind
      <3>2. Rule(t, G, <<"items", i, j - 1>>) = IsItems(t, G, i, j - 1)
        BY DEF Rule
      <3> QED BY <3>1, <3>2
    <2>7. IsItems(t, G, i, j - 1) <=> Listing(t, "items", i, E, j)
      <3>1. IsItems(t, G, i, j - 1) <=>
               \/ IsValue(t, G, i, j - 1)
               \/ \E c \in i .. j - 1 :
                     Comma(t[c]) /\ IsValue(t, G, i, c - 1) /\ G[<<"items", c + 1, j - 1>>]
        BY Zenon DEF IsItems, Comma
      <3>2. IsValue(t, G, i, j - 1) <=> j - 1 \in E
        BY <1>6, <2>2
      <3>3. \A c \in i .. j - 1 : IsValue(t, G, i, c - 1) <=> c - 1 \in E
        BY <1>6, <2>2
      <3> QED BY <1>2, <3>1, <3>2, <3>3, Zenon DEF Listing
    <2>8. t[j] = close /\ Listing(t, "items", i, E, j) <=> Ends(Listed(t, R, "items", r, close), j)
      BY <1>2, <1>9, <2>3, <2>4, ListStep
    <2> QED BY <2>5, <2>6, <2>7, <2>8, Zenon
  <1>10. ASSUME NEW part, NEW open, NEW close, Opens(part, open, close)
         PROVE  \A j \in i .. Len(t) :
                   t[j] = close /\ G[<<part, i, j - 1>>] <=> Ends(R[<<part, i>>], j)
    <2>1. CASE part = "members"
      BY <1>8, <1>10, <2>1
    <2>2. CASE part = "items"
      BY <1>9, <1>10, <2>2
    <2>3. part = "members" \/ part = "items"
      BY <1>10, Zenon DEF Opens
    <2> QED BY <2>1, <2>2, <2>3
  <1> QED BY <1>2, <1>10 DEF ListRight

\* They agree on objects and arrays everywhere.
LEMMA ListIs ==
    ASSUME NEW t, IsText(t)
    PROVE  \A i \in Position(t) : ListRight(t, i)
  <1> DEFINE S == {i \in Position(t) : ListRight(t, i)}
  <1>1. PICK n \in Nat : n = Len(t) + 1 /\ Position(t) = 1 .. n
    BY DEF IsText, Position
  <1>2. ASSUME NEW i \in 1 .. n, \A k \in i + 1 .. n : k \in S PROVE i \in S
    <2>1. \A k \in i + 1 .. Len(t) + 1 : ListRight(t, k)
      BY <1>1, <1>2
    <2> QED BY <1>1, <2>1, ListBegun
  <1> HIDE DEF S
  <1>3. 1 .. n \subseteq S
    BY <1>2, Descend
  <1> QED BY <1>1, <1>3 DEF S

\* The reader accepts a text if and only if the grammar does.
LEMMA ParseIs ==
    ASSUME NEW t, IsText(t)
    PROVE  Parse(t).ok <=> IsJson(t)
  <1>0. PICK n \in Nat : n = Len(t)
    BY DEF IsText
  <1>1. 1 \in Position(t) /\ Len(t) \in 0 .. Len(t) /\ Len(t) + 1 \in Position(t)
        /\ Len(t) + 1 \in Nat \ {0}
    BY <1>0 DEF Position
  <1>2. At(t, Len(t) + 1) = "end"
    <2>1. Len(t) + 1 > Len(t)
      BY <1>0
    <2> QED BY <1>1, <2>1, AtIs
  <1>3. PICK r : r = Reading(t)
    OBVIOUS
  <1>4. r = ReadValue(t, Reader(t), 1)
    BY <1>3 DEF Reading
  <1>5. IsJson(t) <=> Fills(t, r, Len(t))
    <2>1. \A k \in 1 + 1 .. Len(t) + 1 : ListRight(t, k)
      <3>1. \A k \in 1 + 1 .. Len(t) + 1 : k \in Position(t)
        BY <1>0 DEF Position
      <3> QED BY <3>1, ListIs
    <2>2. ValueRight(t, 1)
      BY <1>1, <2>1, ValueStep
    <2>3. IsValue(t, Grammar(t), 1, Len(t)) <=> Fills(t, ReadValue(t, Reader(t), 1), Len(t))
      BY <1>1, <1>2, <2>2 DEF ValueRight
    <2> QED BY <1>4, <2>3 DEF IsJson
  <1>6. CASE ~r.ok
    <2>1. Parse(t) = Broken
      BY <1>3, <1>6 DEF Parse
    <2>2. ~Parse(t).ok
      BY <2>1, DoneIs
    <2> QED BY <1>5, <1>6, <2>2 DEF Fills
  <1>7. CASE r.ok
    <2>1. Outcome(t, 1, r)
      BY <1>1, <1>4, PartIs, ValueSteps
    <2>2. PICK q \in Position(t) : q = r.next
      BY <1>1, <1>7, <2>1, OutcomeIs
    <2>3. Parse(t).ok <=> Past(t, q) = Len(t) + 1
      <3>1. CASE Past(t, q) = Len(t) + 1
        <4>1. Parse(t) = r
          BY <1>3, <1>7, <2>2, <3>1 DEF Parse
        <4> QED BY <1>7, <3>1, <4>1
      <3>2. CASE Past(t, q) # Len(t) + 1
        <4>1. Parse(t) = Broken
          BY <1>3, <1>7, <2>2, <3>2 DEF Parse
        <4> QED BY <3>2, <4>1, DoneIs
      <3> QED BY <3>1, <3>2
    <2>4. Fills(t, r, Len(t)) <=> AllSpace(t, q, Len(t))
      <3>1. q <= Len(t) + 1
        BY PlaceIs
      <3> QED BY <1>7, <2>2, <3>1 DEF Fills
    <2>5. Past(t, q) = Len(t) + 1 => AllSpace(t, q, Len(t))
      <3>1. PICK p : p = Past(t, q)
        OBVIOUS
      <3>2. Len(t) \in Nat /\ (p = Len(t) + 1 => Len(t) < p)
        BY <1>0
      <3> QED BY <3>1, <3>2, SkippedIs
    <2>6. AllSpace(t, q, Len(t)) => Past(t, q) = Len(t) + 1
      <3> SUFFICES ASSUME AllSpace(t, q, Len(t)) PROVE Past(t, q) = Len(t) + 1
        OBVIOUS
      <3>1. PICK e \in Position(t) : e = Len(t) + 1 /\ e >= q
        BY <1>1, PlaceIs
      <3>2. At(t, e) \notin Space
        BY <1>2, <3>1 DEF Space
      <3>3. ASSUME NEW k \in q .. e - 1 PROVE At(t, k) \in Space
        <4>1. k \in Nat \ {0} /\ k \in 1 .. Len(t) /\ k \in q .. Len(t)
          BY <1>0, <3>1, PlaceIs
        <4>2. At(t, k) = t[k]
          BY <4>1, AtIs
        <4> QED BY <4>1, <4>2 DEF AllSpace
      <3> QED BY <3>1, <3>2, <3>3, PastEnds
    <2> QED BY <1>5, <2>3, <2>4, <2>5, <2>6
  <1> QED BY <1>6, <1>7

\* The reader accepts JSON in the sense of IsJson and nothing else, for texts of any
\* length and nesting: behind each place the two agree on each part, if they do
\* farther behind.
THEOREM ReadsExactlyJsonEver == JsonSpec => []ReadsExactlyJson
  <1>1. JsonInit => ReadsExactlyJson
    <2> SUFFICES ASSUME JsonInit PROVE Parse(text).ok <=> IsJson(text)
      BY DEF ReadsExactlyJson
    <2>1. "end" \notin Raw /\ "end" \notin Sym
      BY Zenon DEF Raw, Sym
    <2>2. PICK T : text \in Seq(T) /\ "end" \notin T
      BY <2>1, TextIs, BodyReads, Zenon
    <2>3. IsText(text)
      BY <2>2 DEF IsText
    <2> QED BY <2>3, ParseIs
  <1>2. ReadsExactlyJson /\ [FALSE]_<<text, fields>> => ReadsExactlyJson'
    BY DEF ReadsExactlyJson
  <1> QED BY <1>1, <1>2, PTL DEF JsonSpec

=============================================================================
