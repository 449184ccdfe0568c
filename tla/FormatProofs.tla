---------------------------- MODULE FormatProofs ----------------------------
(***************************************************************************)
(* What is written in bytes and bits is read back, for fields, records and *)
(* tables of every size: the payload of a code (TokenFields), the code as  *)
(* a person copies it (TokenCodec), the device record (StoreFormat) and    *)
(* the walk over the firmware's table (Smbios).                            *)
(* Induction over the length of what is read goes by the least             *)
(* counterexample.                                                         *)
(***************************************************************************)
EXTENDS StoreFormat, TokenCodec, Smbios, SequenceTheorems, WellFoundedInduction, TLAPS

-----------------------------------------------------------------------------
(* Quotients and remainders.                                               *)

\* A product grows with its factor.
LEMMA TimesGrows ==
    ASSUME NEW a \in Nat, NEW b \in Nat, NEW k \in Nat, a <= b
    PROVE  a * k <= b * k
  BY SMTT(20)

\* A number is its quotient and remainder, negative ones too.
LEMMA Quotient ==
    ASSUME NEW n \in Nat \ {0}, NEW v \in Int
    PROVE  /\ v \div n \in Int /\ v % n \in 0 .. n - 1
           /\ v = (v \div n) * n + (v % n)
  BY SMTT(20)

\* What lies below a field does not reach into it: the quotient by the span
\* of the lower fields is the field, and the remainder is the lower fields.
LEMMA Stacked ==
    ASSUME NEW n \in Nat \ {0}, NEW high \in Int, NEW low \in 0 .. n - 1
    PROVE  /\ (high * n + low) \div n = high
           /\ (high * n + low) % n = low
  BY SMTT(20)

\* A shift by some bytes and then by others is the shift by all of them.
LEMMA QuotientOfQuotient ==
    ASSUME NEW n \in Nat \ {0}, NEW m \in Nat \ {0}, NEW v \in Int
    PROVE  (v \div n) \div m = v \div (m * n)
  <1> DEFINE q == v \div n
             r == v % n
             s == q \div m
             t == q % m
  <1>1. q \in Int /\ r \in 0 .. n - 1 /\ v = q * n + r
    BY Quotient
  <1>2. s \in Int /\ t \in 0 .. m - 1 /\ q = s * m + t
    BY <1>1, Quotient
  <1> HIDE DEF q, r, s, t
  <1>3. v = s * (m * n) + (t * n + r)
    BY <1>1, <1>2, SMTT(20)
  <1>4. t * n + r \in 0 .. m * n - 1 /\ m * n \in Nat \ {0}
    <2>1. m * n \in Nat \ {0}
      BY SMTT(20)
    <2>2. t * n <= (m - 1) * n /\ t * n \in Nat
      BY <1>2, SMTT(20)
    <2>3. (m - 1) * n = m * n - n
      BY SMTT(20)
    <2> QED BY <1>1, <2>1, <2>2, <2>3
  <1>5. v \div (m * n) = s
    BY <1>2, <1>3, <1>4, Stacked
  <1> QED
    BY <1>5 DEF q, s

\* A number that wraps around has the digits of the number it wraps to.
LEMMA Wrapped ==
    ASSUME NEW n \in Nat \ {0}, NEW m \in Nat \ {0}, NEW v \in Int, NEW w \in Int
    PROVE  ((v + (m * w) * n) \div n) % m = (v \div n) % m
  <1> DEFINE q == v \div n
             r == v % n
             s == q \div m
             t == q % m
  <1>1. q \in Int /\ r \in 0 .. n - 1 /\ v = q * n + r
    BY Quotient
  <1>2. s \in Int /\ t \in 0 .. m - 1 /\ q = s * m + t
    BY <1>1, Quotient
  <1> HIDE DEF q, r, s, t
  <1>3. m * w \in Int
    BY SMTT(20)
  <1>4. v + (m * w) * n = (q + m * w) * n + r
    BY <1>1, <1>3, SMTT(20)
  <1>5. (v + (m * w) * n) \div n = q + m * w
    BY <1>1, <1>3, <1>4, Stacked
  <1>6. q + m * w = (s + w) * m + t
    BY <1>1, <1>2, SMTT(20)
  <1>7. (q + m * w) % m = t
    BY <1>1, <1>2, <1>6, Stacked
  <1> QED
    BY <1>5, <1>7 DEF q, t

\* A field stacked on lower ones stays below the product of the spans.
LEMMA StackedFits ==
    ASSUME NEW n \in Nat \ {0}, NEW m \in Nat \ {0},
           NEW high \in 0 .. m - 1, NEW low \in 0 .. n - 1
    PROVE  /\ m * n \in Nat \ {0}
           /\ high * n + low \in 0 .. m * n - 1
<1>1. m * n \in Nat \ {0}
  BY SMTT(20)
<1>2. high * n <= (m - 1) * n
  BY SMTT(20)
<1>3. (m - 1) * n = m * n - n
  BY SMTT(20)
<1>4. high * n \in Nat
  BY SMTT(20)
<1> QED
  BY <1>1, <1>2, <1>3, <1>4

\* A remainder by the span of a field is the field, when the field is in range.
LEMMA SmallRemainder ==
    ASSUME NEW n \in Nat \ {0}, NEW x \in 0 .. n - 1
    PROVE  x % n = x
  BY SMTT(20)

\* Dividing by two spans one after the other is dividing by their product.
LEMMA DividedTwice ==
    ASSUME NEW n \in Nat \ {0}, NEW m \in Nat \ {0},
           NEW a \in Nat, NEW b \in 0 .. m - 1, NEW c \in 0 .. n - 1
    PROVE  (a * (m * n) + (b * n + c)) \div n = a * m + b
<1>1. a * (m * n) + (b * n + c) = (a * m + b) * n + c
  BY SMTT(20)
<1>2. a * m + b \in Nat
  BY SMTT(20)
<1> QED
  BY <1>1, <1>2, Stacked

-----------------------------------------------------------------------------
(* The fields of a code.                                                   *)

\* TokenCodec packs the fields of a code into its payload without loss: the
\* payload fits the bits it is given, and every field within its span is read
\* back as it was written, up to the last counter and the longest duration.
THEOREM FieldsRoundTrip ==
    ASSUME NEW counter \in 0 .. MAX_COUNTER, NEW days \in 0 .. MAX_DURATION_DAYS,
           NEW flags \in 0 .. FlagSpan - 1
    PROVE  /\ PayloadInt(counter, days, flags) \in Payload
           /\ VersionOf(PayloadInt(counter, days, flags)) = VERSION
           /\ CounterOf(PayloadInt(counter, days, flags)) = counter
           /\ DaysOf(PayloadInt(counter, days, flags)) = days
           /\ FlagsOf(PayloadInt(counter, days, flags)) = flags
<1> DEFINE df == DaysSpan * FlagSpan
           cdf == CounterSpan * df
           low == days * FlagSpan + flags
           mid == counter * df + low
<1> USE FieldAssumption
<1>1. counter \in 0 .. CounterSpan - 1 /\ days \in 0 .. DaysSpan - 1
  BY DEF MAX_COUNTER, MAX_DURATION_DAYS
<1>2. df \in Nat \ {0} /\ low \in 0 .. df - 1
  BY <1>1, StackedFits
<1>3. cdf \in Nat \ {0} /\ mid \in 0 .. cdf - 1
  <2> HIDE DEF df, low
  <2> QED  BY <1>1, <1>2, StackedFits
<1>4. PayloadInt(counter, days, flags) = VERSION * cdf + mid
  BY DEF PayloadInt
<1> HIDE DEF cdf, mid
<1>5. PayloadInt(counter, days, flags) \in Payload
  <2>1. VERSION * cdf + mid \in 0 .. VersionSpan * cdf - 1
    BY <1>3, StackedFits
  <2> QED  BY <2>1, <1>4 DEF Payload, cdf
<1>6. VersionOf(PayloadInt(counter, days, flags)) = VERSION
  <2>1. (VERSION * cdf + mid) \div cdf = VERSION
    BY <1>3, Stacked
  <2>2. VERSION % VersionSpan = VERSION
    BY SmallRemainder
  <2> QED  BY <2>1, <2>2, <1>4 DEF VersionOf, cdf
<1>7. CounterOf(PayloadInt(counter, days, flags)) = counter
  <2> HIDE DEF df, low
  <2>1. (VERSION * (CounterSpan * df) + (counter * df + low)) \div df
          = VERSION * CounterSpan + counter
    BY <1>1, <1>2, DividedTwice
  <2>2. (VERSION * CounterSpan + counter) % CounterSpan = counter
    BY <1>1, Stacked
  <2> QED  BY <2>1, <2>2, <1>4 DEF CounterOf, df, cdf, mid
<1>8. DaysOf(PayloadInt(counter, days, flags)) = days
  <2>1. VERSION * CounterSpan + counter \in Nat
    BY <1>1, SMTT(20)
  <2>2. VERSION * cdf + mid = (VERSION * CounterSpan + counter) * df + low
    <3> HIDE DEF df, low
    <3> QED  BY <1>1, <1>2, SMTT(20) DEF cdf, mid
  <2>3. ((VERSION * CounterSpan + counter) * (DaysSpan * FlagSpan)
          + (days * FlagSpan + flags)) \div FlagSpan
          = (VERSION * CounterSpan + counter) * DaysSpan + days
    BY <1>1, <2>1, DividedTwice
  <2>4. ((VERSION * CounterSpan + counter) * DaysSpan + days) % DaysSpan = days
    BY <1>1, <2>1, Stacked
  <2> QED  BY <2>2, <2>3, <2>4, <1>4 DEF DaysOf
<1>9. FlagsOf(PayloadInt(counter, days, flags)) = flags
  <2>1. VERSION * CounterSpan + counter \in Nat
    BY <1>1, SMTT(20)
  <2>2. VERSION * cdf + mid = (VERSION * CounterSpan + counter) * df + low
    <3> HIDE DEF df, low
    <3> QED  BY <1>1, <1>2, SMTT(20) DEF cdf, mid
  <2>3. (VERSION * CounterSpan + counter) * df + low
          = ((VERSION * CounterSpan + counter) * DaysSpan + days) * FlagSpan + flags
    BY <1>1, <2>1, SMTT(20)
  <2>4. (VERSION * CounterSpan + counter) * DaysSpan + days \in Nat
    BY <1>1, <2>1, SMTT(20)
  <2>5. (((VERSION * CounterSpan + counter) * DaysSpan + days) * FlagSpan + flags)
          % FlagSpan = flags
    BY <2>4, Stacked
  <2> QED  BY <2>2, <2>3, <2>5, <1>4 DEF FlagsOf
<1> QED
  BY <1>5, <1>6, <1>7, <1>8, <1>9

-----------------------------------------------------------------------------
(* Least numbers, induction and recursion.                                 *)

\* Every set of numbers that is not empty has a least one.
LEMMA Least ==
    ASSUME NEW S, S \subseteq Nat, S # {}
    PROVE  \E m \in S : \A k \in S : m <= k
  <1> DEFINE R == {ss \in Nat \X Nat : ss[1] < ss[2]}
  <1>1. OpToRel(<, Nat) = R
    BY Zenon DEF OpToRel
  <1>2. IsWellFoundedOn(R, Nat)
    BY <1>1, NatLessThanWellFounded, Zenon
  <1>3. \A k, m \in Nat : k < m => <<k, m>> \in R
    OBVIOUS
  <1> HIDE DEF R
  <1>4. PICK m \in S : \A k \in S : ~(<<k, m>> \in R)
    BY <1>2, WFMin
  <1>5. ASSUME NEW k \in S PROVE m <= k
    <2>1. k \in Nat /\ m \in Nat
      OBVIOUS
    <2>2. ~(k < m)
      BY <1>3, <1>4, <2>1, Zenon
    <2> QED BY <2>1, <2>2
  <1> QED
    BY <1>5

\* What holds of the first number of a range and passes from one to the next
\* holds of the range: a set of exceptions would have a least one.
LEMMA Climb ==
    ASSUME NEW n \in Nat, NEW S,
           0 \in S,
           \A i \in 1 .. n : i - 1 \in S => i \in S
    PROVE  0 .. n \subseteq S
  <1> DEFINE Bad == {i \in 0 .. n : i \notin S}
  <1> SUFFICES ASSUME Bad # {} PROVE FALSE
    OBVIOUS
  <1>1. PICK m \in Bad : \A k \in Bad : m <= k
    <2>1. Bad \subseteq Nat
      OBVIOUS
    <2> HIDE DEF Bad
    <2> QED BY <2>1, Least
  <1>2. m \in 1 .. n
    BY <1>1
  <1>3. m - 1 \in 0 .. n /\ m - 1 \notin Bad
    BY <1>1, <1>2
  <1> QED
    BY <1>2, <1>3

\* A value for each number of a range, each got from the one before by a step
\* that is known for values of a type.
Obeys(f, V, n, v, h) ==
    /\ f[0] = v
    /\ \A i \in 1 .. n : f[i - 1] \in V => f[i] = h[i][f[i - 1]]

Solution(f, V, n, v, h) ==
    /\ f \in [0 .. n -> V]
    /\ Obeys(f, V, n, v, h)
    /\ \A g : Obeys(g, V, n, v, h) => \A i \in 0 .. n : g[i] = f[i]

\* Such a recursion has a solution of that type, and only one.
LEMMA Recursion ==
    ASSUME NEW V, NEW n \in Nat, NEW v \in V, NEW h \in [1 .. n -> [V -> V]]
    PROVE  \E f : Solution(f, V, n, v, h)
  <1> DEFINE Solves(f, m) == f[0] = v /\ \A i \in 1 .. m : f[i] = h[i][f[i - 1]]
             Good == {m \in 0 .. n : \E f \in [0 .. m -> V] : Solves(f, m)}
  <1>1. n \in Good
    <2>1. 0 \in Good
      <3> DEFINE f == [i \in 0 .. 0 |-> v]
      <3>1. f \in [0 .. 0 -> V] /\ Solves(f, 0)
        OBVIOUS
      <3> HIDE DEF f
      <3> QED BY <3>1
    <2>2. ASSUME NEW m \in 1 .. n, m - 1 \in Good
          PROVE  m \in Good
      <3>1. PICK f \in [0 .. m - 1 -> V] : Solves(f, m - 1)
        BY <2>2
      <3> DEFINE g == [i \in 0 .. m |-> IF i = m THEN h[m][f[m - 1]] ELSE f[i]]
      <3>2. g \in [0 .. m -> V]
        OBVIOUS
      <3>3. Solves(g, m)
        <4>1. g[0] = v
          BY <3>1
        <4>2. ASSUME NEW i \in 1 .. m PROVE g[i] = h[i][g[i - 1]]
          <5>1. CASE i = m
            BY <5>1
          <5>2. CASE i # m
            <6>1. i \in 1 .. m - 1 /\ i - 1 \in 0 .. m /\ i - 1 # m
              BY <5>2
            <6> QED BY <6>1, <3>1
          <5> QED BY <5>1, <5>2
        <4> QED BY <4>1, <4>2
      <3>4. m \in 0 .. n
        OBVIOUS
      <3> HIDE DEF g, Solves
      <3> QED BY <3>2, <3>3, <3>4
    <2> HIDE DEF Good
    <2>3. 0 .. n \subseteq Good
      BY <2>1, <2>2, Climb
    <2> QED BY <2>3
  <1>2. PICK f \in [0 .. n -> V] : Solves(f, n)
    BY <1>1
  <1>3. ASSUME NEW g, Obeys(g, V, n, v, h)
        PROVE  \A i \in 0 .. n : g[i] = f[i]
    <2> DEFINE Same == {i \in 0 .. n : g[i] = f[i]}
    <2>1. 0 \in Same
      BY <1>2, <1>3 DEF Obeys
    <2>2. ASSUME NEW i \in 1 .. n, i - 1 \in Same PROVE i \in Same
      BY <1>2, <1>3, <2>2 DEF Obeys
    <2> HIDE DEF Same
    <2>3. 0 .. n \subseteq Same
      BY <2>1, <2>2, Climb
    <2> QED BY <2>3 DEF Same
  <1>4. Obeys(f, V, n, v, h)
    BY <1>2 DEF Obeys
  <1> QED
    BY <1>3, <1>4 DEF Solution

\* Sequences laid end to end are laid one after the other.
LEMMA Flattened ==
    ASSUME NEW T, NEW seqs \in Seq(Seq(T))
    PROVE  \E p \in [0 .. Len(seqs) -> Seq(T)] :
              /\ p[0] = <<>>
              /\ \A i \in 1 .. Len(seqs) : p[i] = p[i - 1] \o seqs[i]
              /\ FlattenSeq(seqs) = p[Len(seqs)]
  <1> DEFINE n == Len(seqs)
             h == [i \in 1 .. n |-> [s \in Seq(T) |-> s \o seqs[i]]]
             Flat(f) == f = [i \in 1 .. n |-> IF i = 1 THEN seqs[i] ELSE f[i - 1] \o seqs[i]]
  <1>1. n \in Nat /\ (\A i \in 1 .. n : seqs[i] \in Seq(T)) /\ <<>> \in Seq(T)
    OBVIOUS
  <1>2. h \in [1 .. n -> [Seq(T) -> Seq(T)]]
    BY <1>1
  <1>3. \A i \in 1 .. n : \A s \in Seq(T) : h[i][s] = s \o seqs[i]
    OBVIOUS
  <1>0. n = 0 => seqs = <<>>
    OBVIOUS
  <1> HIDE DEF h, n
  <1>4. PICK p : Solution(p, Seq(T), n, <<>>, h)
    BY <1>1, <1>2, Recursion, Zenon
  <1>5. p \in [0 .. n -> Seq(T)] /\ p[0] = <<>>
    BY <1>4 DEF Solution, Obeys
  <1>6. \A i \in 1 .. n : p[i] = p[i - 1] \o seqs[i]
    <2>1. \A i \in 1 .. n : p[i - 1] \in Seq(T)
      <3>1. \A i \in 1 .. n : i - 1 \in 0 .. n
        BY <1>1
      <3> QED BY <1>5, <3>1
    <2> QED BY <1>3, <1>4, <2>1 DEF Solution, Obeys
  <1>7. CASE n = 0
    BY <1>0, <1>5, <1>6, <1>7 DEF FlattenSeq, n
  <1>8. CASE n # 0
    <2>0. n \in Nat \ {0}
      BY <1>1, <1>8
    <2> DEFINE f == [i \in 1 .. n |-> p[i]]
               flat == CHOOSE g : Flat(g)
    <2>1. Flat(flat)
      <3>1. ASSUME NEW i \in 1 .. n
            PROVE  p[i] = IF i = 1 THEN seqs[i] ELSE f[i - 1] \o seqs[i]
        <4>1. CASE i = 1
          <5>1. 1 \in 1 .. n /\ 1 - 1 = 0
            BY <2>0
          <5>2. p[1] = <<>> \o seqs[1] /\ seqs[1] \in Seq(T)
            BY <1>1, <1>5, <1>6, <5>1
          <5> QED BY <4>1, <5>2, ConcatEmptySeq
        <4>2. CASE i # 1
          <5>1. i - 1 \in 1 .. n
            BY <2>0, <4>2
          <5> QED BY <1>6, <4>2, <5>1
        <4> QED BY <4>1, <4>2
      <3>2. Flat(f)
        BY <3>1
      <3> HIDE DEF f
      <3> QED BY <3>2
    <2>2. FlattenSeq(seqs) = flat[n]
      BY <1>8 DEF FlattenSeq, n
    <2> HIDE DEF flat
    <2>3. \A i \in 1 .. n : flat[i] = IF i = 1 THEN seqs[i] ELSE flat[i - 1] \o seqs[i]
      BY <2>1
    <2> DEFINE Same == {i \in 0 .. n : i > 0 => flat[i] = p[i]}
    <2>4. 0 \in Same
      BY <2>0
    <2>5. ASSUME NEW i \in 1 .. n, i - 1 \in Same PROVE i \in Same
      <3>1. CASE i = 1
        <4>0. 1 \in 1 .. n /\ 1 - 1 = 0
          BY <2>0
        <4>1. p[1] = <<>> \o seqs[1] /\ seqs[1] \in Seq(T)
          BY <1>1, <1>5, <1>6, <4>0
        <4>2. flat[1] = seqs[1]
          BY <2>3, <3>1
        <4> QED BY <2>0, <3>1, <4>1, <4>2, ConcatEmptySeq
      <3>2. CASE i # 1
        <4>1. i - 1 > 0 /\ flat[i - 1] = p[i - 1]
          BY <2>5, <3>2
        <4>2. flat[i] = flat[i - 1] \o seqs[i] /\ p[i] = p[i - 1] \o seqs[i]
          BY <1>6, <2>3, <3>2
        <4>3. flat[i] = p[i]
          BY <4>1, <4>2, Zenon
        <4> QED BY <4>3
      <3> QED BY <3>1, <3>2
    <2> HIDE DEF Same
    <2>6. 0 .. n \subseteq Same
      BY <2>0, <2>4, <2>5, Climb
    <2>7. flat[n] = p[n]
      BY <2>0, <2>6 DEF Same
    <2> QED BY <1>5, <1>6, <2>2, <2>7 DEF n
  <1> QED BY <1>7, <1>8

-----------------------------------------------------------------------------
(* The numbers of a record, the highest byte first.                        *)

\* The numbers n bytes can hold, step by step.
LEMMA Powers ==
    /\ Power[0] = 1
    /\ \A n \in Nat : Power[n] \in Nat \ {0}
    /\ \A n \in Nat : Power[n + 1] = ByteSpan * Power[n]
  <1> DEFINE Solves(f, n) == f[0] = 1 /\ \A i \in 1 .. n : f[i] = ByteSpan * f[i - 1]
             Pos == Nat \ {0}
  <1>0. \A x \in Pos : ByteSpan * x \in Pos
    <2>1. ByteSpan \in Pos
      BY FormatAssumption
    <2> QED BY <2>1
  <1>1. ASSUME NEW n \in Nat
        PROVE  \E f \in [0 .. n -> Pos] :
                  /\ Solves(f, n)
                  /\ \A g : Solves(g, n) => \A i \in 0 .. n : g[i] = f[i]
    <2> DEFINE k == [i \in 1 .. n |-> [x \in Pos |-> ByteSpan * x]]
    <2>1. k \in [1 .. n -> [Pos -> Pos]] /\ 1 \in Pos
      BY <1>0
    <2>2. \A i \in 1 .. n : \A x \in Pos : k[i][x] = ByteSpan * x
      OBVIOUS
    <2> HIDE DEF k, Pos
    <2>3. PICK f : Solution(f, Pos, n, 1, k)
      BY <2>1, Recursion, Zenon
    <2>4. \A i \in 1 .. n : f[i - 1] \in Pos
      BY <2>3 DEF Solution
    <2>5. Solves(f, n)
      BY <2>2, <2>3, <2>4 DEF Obeys, Solution
    <2>6. ASSUME NEW g, Solves(g, n) PROVE \A i \in 0 .. n : g[i] = f[i]
      <3>1. Obeys(g, Pos, n, 1, k)
        BY <2>2, <2>6 DEF Obeys
      <3> QED BY <2>3, <3>1 DEF Solution
    <2> HIDE DEF Solves
    <2> QED BY <2>3, <2>5, <2>6 DEF Solution
  <1> DEFINE F(n) == CHOOSE f \in [0 .. n -> Pos] : Solves(f, n)
             power == [n \in Nat |-> F(n)[n]]
  <1>2. ASSUME NEW n \in Nat PROVE F(n) \in [0 .. n -> Pos] /\ Solves(F(n), n)
    <2> HIDE DEF Solves, Pos
    <2>1. \E f \in [0 .. n -> Pos] : Solves(f, n)
      BY <1>1
    <2> QED BY <2>1
  <1>3. ASSUME NEW n \in Nat PROVE power[n + 1] = ByteSpan * power[n]
    <2>0. n + 1 \in Nat /\ \A i \in 1 .. n : i \in 1 .. n + 1
      OBVIOUS
    <2> HIDE DEF F
    <2>1. Solves(F(n + 1), n)
      BY <2>0, <1>2
    <2>2. F(n + 1)[n] = F(n)[n]
      <3> HIDE DEF Solves
      <3>1. PICK f \in [0 .. n -> Pos] : \A g : Solves(g, n) => \A i \in 0 .. n : g[i] = f[i]
        BY <1>1
      <3>2. n \in 0 .. n
        OBVIOUS
      <3> QED BY <1>2, <2>1, <3>1, <3>2
    <2>3. F(n + 1)[n + 1] = ByteSpan * F(n + 1)[(n + 1) - 1]
      <3>1. n + 1 \in 1 .. n + 1
        BY <2>0
      <3> QED BY <2>0, <3>1, <1>2
    <2>4. (n + 1) - 1 = n
      OBVIOUS
    <2> QED BY <2>0, <2>2, <2>3, <2>4
  <1>4. power[0] = 1
    BY <1>2
  <1>5. power = [n \in Nat |-> IF n = 0 THEN 1 ELSE ByteSpan * power[n - 1]]
    <2> HIDE DEF F
    <2>1. ASSUME NEW n \in Nat
          PROVE  power[n] = IF n = 0 THEN 1 ELSE ByteSpan * power[n - 1]
      <3>1. n # 0 => n - 1 \in Nat /\ n = (n - 1) + 1
        OBVIOUS
      <3> HIDE DEF power
      <3> QED BY <1>3, <1>4, <3>1
    <2> QED BY <2>1
  <1> HIDE DEF power, F
  <1>6. Power = [n \in Nat |-> IF n = 0 THEN 1 ELSE ByteSpan * Power[n - 1]]
    BY <1>5 DEF Power
  <1>7. Power[0] = 1 /\ \A n \in Nat : Power[n + 1] = ByteSpan * Power[n]
    <2>1. Power[0] = 1
      BY <1>6
    <2>2. ASSUME NEW n \in Nat PROVE Power[n + 1] = ByteSpan * Power[n]
      <3>1. n + 1 \in Nat /\ n + 1 # 0 /\ (n + 1) - 1 = n
        OBVIOUS
      <3> QED BY <1>6, <3>1
    <2> QED BY <2>1, <2>2
  <1>8. ASSUME NEW n \in Nat PROVE Power[n] \in Pos
    <2> DEFINE Good == {i \in 0 .. n : Power[i] \in Pos}
    <2>1. 0 \in Good
      BY <1>7
    <2>2. ASSUME NEW i \in 1 .. n, i - 1 \in Good PROVE i \in Good
      <3>1. Power[(i - 1) + 1] = ByteSpan * Power[i - 1] /\ (i - 1) + 1 = i
        BY <1>7
      <3> QED BY <2>2, <3>1, <1>0
    <2> HIDE DEF Good
    <2>3. 0 .. n \subseteq Good
      BY <2>1, <2>2, Climb
    <2> QED BY <2>3 DEF Good
  <1> QED
    BY <1>7, <1>8

\* What the widths of the format are.
LEMMA Bases == ByteSpan \in Nat \ {0} /\ WordBytes \in Nat /\ DayBytes \in Nat \ {0}
  BY FormatAssumption

\* The values getU32 and getI64 go through, byte by byte.
LEMMA NumberGrows ==
    ASSUME NEW bytes \in Seq(Byte)
    PROVE  \E value \in [0 .. Len(bytes) -> Nat] :
              /\ value[0] = 0
              /\ \A i \in 1 .. Len(bytes) : value[i] = value[i - 1] * ByteSpan + bytes[i]
              /\ Number(bytes) = value[Len(bytes)]
  <1> DEFINE n == Len(bytes)
             h == [i \in 1 .. n |-> [x \in Nat |-> x * ByteSpan + bytes[i]]]
             Counts(f) == f = [i \in 0 .. n |->
                                 IF i = 0 THEN 0 ELSE f[i - 1] * ByteSpan + bytes[i]]
  <1>1. n \in Nat /\ \A i \in 1 .. n : bytes[i] \in Nat
    BY Bases DEF Byte
  <1>2. h \in [1 .. n -> [Nat -> Nat]]
    BY <1>1, Bases
  <1>3. \A i \in 1 .. n : \A x \in Nat : h[i][x] = x * ByteSpan + bytes[i]
    OBVIOUS
  <1> HIDE DEF h, n
  <1>4. PICK f : Solution(f, Nat, n, 0, h)
    BY <1>1, <1>2, Recursion, Zenon
  <1>5. f \in [0 .. n -> Nat] /\ f[0] = 0
    BY <1>4 DEF Solution, Obeys
  <1>6. \A i \in 1 .. n : f[i] = f[i - 1] * ByteSpan + bytes[i]
    <2>1. \A i \in 1 .. n : f[i - 1] \in Nat
      BY <1>1, <1>5
    <2> QED BY <1>3, <1>4, <2>1 DEF Solution, Obeys
  <1> DEFINE value == CHOOSE g : Counts(g)
  <1>7. Counts(value)
    <2>1. \A i \in 0 .. n : f[i] = IF i = 0 THEN 0 ELSE f[i - 1] * ByteSpan + bytes[i]
      BY <1>1, <1>5, <1>6
    <2>2. Counts(f)
      BY <1>5, <2>1
    <2> QED BY <2>2
  <1>8. Number(bytes) = value[n]
    BY DEF Number, n
  <1> HIDE DEF value
  <1>9. Obeys(value, Nat, n, 0, h)
    BY <1>1, <1>3, <1>7 DEF Obeys
  <1>10. value[n] = f[n]
    BY <1>1, <1>4, <1>9 DEF Solution
  <1> QED
    BY <1>5, <1>6, <1>8, <1>10 DEF n

\* A number of n bytes is one that n bytes can hold.
LEMMA NumberFits ==
    ASSUME NEW bytes \in Seq(Byte)
    PROVE  Number(bytes) \in 0 .. Power[Len(bytes)] - 1
  <1>1. PICK value \in [0 .. Len(bytes) -> Nat] :
              /\ value[0] = 0
              /\ \A i \in 1 .. Len(bytes) : value[i] = value[i - 1] * ByteSpan + bytes[i]
              /\ Number(bytes) = value[Len(bytes)]
    BY NumberGrows
  <1> DEFINE Good == {i \in 0 .. Len(bytes) : value[i] < Power[i]}
  <1>2. 0 \in Good
    BY <1>1, Powers
  <1>3. ASSUME NEW i \in 1 .. Len(bytes), i - 1 \in Good PROVE i \in Good
    <2>1. i - 1 \in Nat /\ (i - 1) + 1 = i /\ bytes[i] \in 0 .. ByteSpan - 1
      BY DEF Byte
    <2>2. Power[i] = ByteSpan * Power[i - 1] /\ Power[i - 1] \in Nat
      BY <2>1, Powers
    <2>3. value[i] = value[i - 1] * ByteSpan + bytes[i] /\ value[i - 1] \in Nat
      BY <1>1
    <2>4. value[i - 1] <= Power[i - 1] - 1
      BY <1>3, <2>2, <2>3
    <2> DEFINE x == value[i - 1]
               y == Power[i - 1]
               b == bytes[i]
    <2>5. x * ByteSpan <= (y - 1) * ByteSpan
      <3>1. x \in Nat /\ y - 1 \in Nat /\ x <= y - 1
        BY <2>2, <2>3, <2>4
      <3> HIDE DEF x, y
      <3> QED BY <3>1, Bases, TimesGrows
    <2>6. (y - 1) * ByteSpan = ByteSpan * y - ByteSpan
      BY <2>2, Bases, SMTT(20)
    <2>7. x * ByteSpan + b < ByteSpan * y
      <3>1. x * ByteSpan \in Int /\ ByteSpan * y \in Int
        BY <2>2, <2>3, Bases
      <3> HIDE DEF x, y
      <3> QED BY <2>1, <2>5, <2>6, <3>1, Bases
    <2> QED BY <2>2, <2>3, <2>7
  <1> HIDE DEF Good
  <1>4. Len(bytes) \in Nat
    OBVIOUS
  <1>5. 0 .. Len(bytes) \subseteq Good
    BY <1>2, <1>3, <1>4, Climb
  <1>6. Len(bytes) \in Good
    BY <1>4, <1>5
  <1>7. Number(bytes) \in Nat /\ Power[Len(bytes)] \in Nat
    <2>1. Len(bytes) \in 0 .. Len(bytes)
      BY <1>4
    <2> QED BY <1>1, <1>4, <2>1, Powers
  <1> QED
    BY <1>1, <1>6, <1>7 DEF Good

\* putU32 and putI64 write bytes, the ones of the number and no others.
LEMMA PutNumberIsBytes ==
    ASSUME NEW v \in Int, NEW n \in Nat
    PROVE  /\ PutNumber(v, n) \in Seq(Byte) /\ Len(PutNumber(v, n)) = n
           /\ \A i \in 1 .. n : PutNumber(v, n)[i] = (v \div Power[n - i]) % ByteSpan
  <1>1. ASSUME NEW i \in 1 .. n
        PROVE  (v \div Power[n - i]) % ByteSpan \in Byte
    <2>1. Power[n - i] \in Nat \ {0}
      BY Powers
    <2> QED BY <2>1, Bases, Quotient DEF Byte
  <1> QED BY <1>1 DEF PutNumber

\* What putU32 wrote of a number that fits is what getU32 reads.
LEMMA NumberOfPut ==
    ASSUME NEW n \in Nat, NEW v \in 0 .. Power[n] - 1
    PROVE  Number(PutNumber(v, n)) = v
  <1> DEFINE bytes == PutNumber(v, n)
  <1>0. v \in Int /\ Power[n] \in Nat \ {0}
    BY Powers
  <1>1. bytes \in Seq(Byte) /\ Len(bytes) = n
        /\ \A i \in 1 .. n : bytes[i] = (v \div Power[n - i]) % ByteSpan
    BY <1>0, PutNumberIsBytes
  <1> HIDE DEF bytes
  <1>2. PICK value \in [0 .. n -> Nat] :
              /\ value[0] = 0
              /\ \A i \in 1 .. n : value[i] = value[i - 1] * ByteSpan + bytes[i]
              /\ Number(bytes) = value[n]
    BY <1>1, NumberGrows
  <1> DEFINE Good == {i \in 0 .. n : value[i] = v \div Power[n - i]}
  <1>3. 0 \in Good
    <2> DEFINE p == Power[n]
    <2>1. p \in Nat \ {0} /\ v \in 0 .. p - 1
      BY <1>0
    <2>2. v \div p = 0
      <3> HIDE DEF p
      <3>1. ASSUME NEW z \in Int, z = 0 PROVE (z * p + v) \div p = z
        BY <2>1, <3>1, Stacked
      <3>2. 0 * p + v = v
        BY <2>1
      <3> QED BY <3>1, <3>2
    <2> QED BY <1>2, <2>2
  <1>4. ASSUME NEW i \in 1 .. n, i - 1 \in Good PROVE i \in Good
    <2>1. n - i \in Nat /\ n - (i - 1) = (n - i) + 1 /\ i - 1 \in 0 .. n
      OBVIOUS
    <2>2. Power[n - (i - 1)] = ByteSpan * Power[n - i] /\ Power[n - i] \in Nat \ {0}
      BY <2>1, Powers
    <2>3. PICK q \in Int : q = v \div Power[n - i]
      BY <1>0, <2>2, Quotient
    <2>4. value[i - 1] = q \div ByteSpan
      <3>1. value[i - 1] = v \div Power[n - (i - 1)]
        BY <1>4
      <3>2. (v \div Power[n - i]) \div ByteSpan = v \div (ByteSpan * Power[n - i])
        BY <1>0, <2>2, Bases, QuotientOfQuotient
      <3> QED BY <2>2, <2>3, <3>1, <3>2
    <2>5. value[i] = value[i - 1] * ByteSpan + bytes[i] /\ bytes[i] = q % ByteSpan
      BY <1>1, <1>2, <2>3
    <2>6. q = (q \div ByteSpan) * ByteSpan + (q % ByteSpan)
      BY Bases, Quotient
    <2>7. value[i] = q
      BY <2>4, <2>5, <2>6, Zenon
    <2> QED BY <2>3, <2>7
  <1> HIDE DEF Good
  <1>5. n \in Good
    <2>1. 0 .. n \subseteq Good
      BY <1>3, <1>4, Climb
    <2> QED BY <2>1
  <1>6. v \div Power[n - n] = v
    <2>1. Power[n - n] = 1 /\ v = v * 1 + 0
      BY Powers
    <2>2. 1 \in Nat \ {0} /\ 0 \in 0 .. 1 - 1
      OBVIOUS
    <2> QED BY <2>1, <2>2, Stacked
  <1> QED
    BY <1>2, <1>5, <1>6 DEF Good, bytes

\* What m + n bytes can hold is what m and n bytes hold together.
LEMMA PowersMultiply ==
    ASSUME NEW m \in Nat, NEW n \in Nat
    PROVE  Power[m + n] = Power[n] * Power[m]
  <1> DEFINE Good == {i \in 0 .. n : Power[m + i] = Power[i] * Power[m]}
  <1>1. 0 \in Good
    BY Powers
  <1>2. ASSUME NEW i \in 1 .. n, i - 1 \in Good PROVE i \in Good
    <2>1. /\ i - 1 \in Nat /\ (i - 1) + 1 = i
          /\ m + (i - 1) \in Nat /\ (m + (i - 1)) + 1 = m + i
      OBVIOUS
    <2>2. PICK a \in Nat, b \in Nat : a = Power[i - 1] /\ b = Power[m]
      BY <2>1, Powers
    <2>3. Power[i] = ByteSpan * a
      BY <2>1, <2>2, Powers
    <2>4. Power[m + (i - 1)] = a * b
      BY <1>2, <2>2
    <2>5. Power[m + i] = ByteSpan * (a * b)
      BY <2>1, <2>4, Powers
    <2>6. ByteSpan * (a * b) = (ByteSpan * a) * b
      BY Bases, SMTT(20)
    <2> QED BY <2>2, <2>3, <2>5, <2>6
  <1> HIDE DEF Good
  <1>3. 0 .. n \subseteq Good
    BY <1>1, <1>2, Climb
  <1> QED BY <1>3 DEF Good

\* A day before the epoch is written as the number it wraps to.
LEMMA PutNegative ==
    ASSUME NEW n \in Nat, NEW v \in Int
    PROVE  PutNumber(v + Power[n], n) = PutNumber(v, n)
  <1>1. ASSUME NEW i \in 1 .. n
        PROVE  ((v + Power[n]) \div Power[n - i]) % ByteSpan
                  = (v \div Power[n - i]) % ByteSpan
    <2>1. /\ i - 1 \in Nat /\ (i - 1) + 1 = i
          /\ n - i \in Nat /\ (n - i) + i = n
      OBVIOUS
    <2>2. Power[n] = (ByteSpan * Power[i - 1]) * Power[n - i]
      BY <2>1, Powers, PowersMultiply
    <2>3. Power[n - i] \in Nat \ {0} /\ Power[i - 1] \in Int
      BY <2>1, Powers
    <2>4. ((v + (ByteSpan * Power[i - 1]) * Power[n - i]) \div Power[n - i]) % ByteSpan
             = (v \div Power[n - i]) % ByteSpan
      BY <2>3, Bases, Wrapped
    <2> QED BY <2>2, <2>4, Zenon
  <1> QED BY <1>1 DEF PutNumber

\* Half of the numbers of n bytes stand for days before the epoch.
LEMMA EvenPowers ==
    ASSUME NEW n \in Nat \ {0}
    PROVE  \E half \in Nat \ {0} : /\ Power[n] = 2 * half
                                  /\ Power[n] \div 2 = half
  <1>1. n - 1 \in Nat /\ (n - 1) + 1 = n
    OBVIOUS
  <1>2. PICK a \in Nat \ {0} : a = Power[n - 1] /\ Power[n] = ByteSpan * a
    BY <1>1, Powers
  <1>3. PICK h \in Int : ByteSpan = h * 2
    <2>1. ByteSpan % 2 = 0
      BY FormatAssumption
    <2>2. ByteSpan = (ByteSpan \div 2) * 2 + (ByteSpan % 2) /\ ByteSpan \div 2 \in Int
      BY Bases, Quotient
    <2> QED BY <2>1, <2>2
  <1>4. h \in Nat \ {0}
    BY <1>3, Bases
  <1>5. h * a \in Nat \ {0} /\ Power[n] = 2 * (h * a)
    BY <1>2, <1>3, <1>4, SMTT(20)
  <1>6. (2 * (h * a)) \div 2 = h * a
    BY <1>5
  <1> QED
    BY <1>5, <1>6

\* getI64 reads the day putI64 wrote, on either side of the epoch.
LEMMA SignedOfPut ==
    ASSUME NEW day \in Day
    PROVE  Signed(PutNumber(day, DayBytes)) = day
  <1>1. PICK half \in Nat \ {0} : Power[DayBytes] = 2 * half /\ Power[DayBytes] \div 2 = half
    BY Bases, EvenPowers
  <1>2. Day = -half .. half - 1
    BY <1>1 DEF Day
  <1>3. CASE day >= 0
    <2>1. day \in 0 .. Power[DayBytes] - 1
      BY <1>1, <1>2, <1>3
    <2>2. Number(PutNumber(day, DayBytes)) = day
      BY <2>1, Bases, NumberOfPut
    <2> QED BY <2>2 DEF Signed
  <1>4. CASE day < 0
    <2> DEFINE n == day + Power[DayBytes]
    <2>1. n \in 0 .. Power[DayBytes] - 1 /\ n \notin Day /\ n - Power[DayBytes] = day
      BY <1>1, <1>2, <1>4
    <2>2. Number(PutNumber(n, DayBytes)) = n
      BY <2>1, Bases, NumberOfPut
    <2>3. PutNumber(n, DayBytes) = PutNumber(day, DayBytes)
      BY <1>2, Bases, PutNegative
    <2> HIDE DEF n
    <2> QED BY <2>1, <2>2, <2>3 DEF Signed
  <1> QED BY <1>2, <1>3, <1>4

\* Whatever eight bytes it is given, getI64 reads a day.
LEMMA SignedFits ==
    ASSUME NEW bytes \in Seq(Byte), Len(bytes) = DayBytes
    PROVE  Signed(bytes) \in Day
  <1>1. PICK half \in Nat \ {0} : Power[DayBytes] = 2 * half /\ Power[DayBytes] \div 2 = half
    BY Bases, EvenPowers
  <1>2. Day = -half .. half - 1
    BY <1>1 DEF Day
  <1>3. Number(bytes) \in 0 .. 2 * half - 1
    BY <1>1, NumberFits
  <1> QED BY <1>1, <1>2, <1>3 DEF Signed
-----------------------------------------------------------------------------
(* The bytes of a record, field by field.                                  *)

\* Which field is where.
Strings == Len(StringField)

FieldName == {StringField[i] : i \in DOMAIN StringField}
        \union {"magic", "version", "lastCounter", "lockDeadlineDay", "status", "lastTokenWasGrace"}

\* deserialize takes magic, version, the strings in order and the four fields of
\* the state.
LEMMA LayoutIs ==
    /\ Strings \in Nat /\ Len(Layout) = Strings + 6 /\ Layout \in Seq(FieldName)
    /\ Layout[1] = "magic" /\ Layout[2] = "version"
    /\ \A i \in 1 .. Strings : Layout[i + 2] = StringField[i]
    /\ Layout[Strings + 3] = "lastCounter"
    /\ Layout[Strings + 4] = "lockDeadlineDay"
    /\ Layout[Strings + 5] = "status"
    /\ Layout[Strings + 6] = "lastTokenWasGrace"
  <1>1. StringField \in Seq(FieldName) /\ Strings \in Nat
    <2>1. StringField \in Seq({StringField[i] : i \in DOMAIN StringField})
      BY FormatAssumption
    <2>2. {StringField[i] : i \in DOMAIN StringField} \subseteq FieldName
      BY DEF FieldName
    <2>3. StringField \in Seq(FieldName)
      BY <2>1, <2>2, SeqMonotonic
    <2> QED BY <2>1, <2>3 DEF Strings
  <1>2. PICK front : front = <<"magic", "version">>
    OBVIOUS
  <1>3. front \in Seq(FieldName) /\ Len(front) = 2 /\ front[1] = "magic" /\ front[2] = "version"
    BY <1>2 DEF FieldName
  <1>4. PICK back : back = <<"lastCounter", "lockDeadlineDay", "status", "lastTokenWasGrace">>
    OBVIOUS
  <1>5. /\ back \in Seq(FieldName) /\ Len(back) = 4
        /\ back[1] = "lastCounter" /\ back[2] = "lockDeadlineDay"
        /\ back[3] = "status" /\ back[4] = "lastTokenWasGrace"
    BY <1>4 DEF FieldName
  <1>6. Layout = (front \o StringField) \o back
    BY <1>2, <1>4 DEF Layout
  <1>7. /\ front \o StringField \in Seq(FieldName) /\ Len(front \o StringField) = 2 + Strings
        /\ \A i \in 1 .. 2 + Strings : (front \o StringField)[i] =
              IF i <= 2 THEN front[i] ELSE StringField[i - 2]
    <2>1. /\ front \o StringField \in Seq(FieldName)
          /\ Len(front \o StringField) = Len(front) + Len(StringField)
          /\ \A i \in 1 .. Len(front) + Len(StringField) : (front \o StringField)[i] =
                IF i <= Len(front) THEN front[i] ELSE StringField[i - Len(front)]
      BY <1>1, <1>3, ConcatProperties
    <2>2. Len(StringField) = Strings
      BY DEF Strings
    <2> QED BY <1>3, <2>1, <2>2
  <1>8. PICK most : most = front \o StringField
    OBVIOUS
  <1>9. /\ Layout \in Seq(FieldName) /\ Len(Layout) = (2 + Strings) + 4
        /\ \A i \in 1 .. (2 + Strings) + 4 : Layout[i] =
              IF i <= 2 + Strings THEN most[i] ELSE back[i - (2 + Strings)]
    <2>1. most \in Seq(FieldName) /\ Len(most) = 2 + Strings
      BY <1>7, <1>8
    <2>2. /\ most \o back \in Seq(FieldName) /\ Len(most \o back) = Len(most) + Len(back)
          /\ \A i \in 1 .. Len(most) + Len(back) : (most \o back)[i] =
                IF i <= Len(most) THEN most[i] ELSE back[i - Len(most)]
      BY <1>5, <2>1, ConcatProperties
    <2> QED BY <1>5, <1>6, <1>8, <2>1, <2>2
  <1>10. \A i \in 1 .. Strings : /\ i + 2 \in 1 .. 2 + Strings /\ i + 2 \in 1 .. (2 + Strings) + 4
                                /\ i + 2 <= 2 + Strings /\ ~(i + 2 <= 2) /\ (i + 2) - 2 = i
    BY <1>1
  <1>11. \A i \in 1 .. Strings : Layout[i + 2] = StringField[i]
    BY <1>7, <1>8, <1>9, <1>10
  <1>12. \A i \in 1 .. 2 : i \in 1 .. 2 + Strings /\ i \in 1 .. (2 + Strings) + 4 /\ i <= 2 /\ i <= 2 + Strings
    BY <1>1
  <1>13. Layout[1] = "magic" /\ Layout[2] = "version"
    <2>1. 1 \in 1 .. 2 /\ 2 \in 1 .. 2
      OBVIOUS
    <2>2. \A i \in 1 .. 2 : Layout[i] = most[i]
      BY <1>9, <1>12, Zenon
    <2>3. \A i \in 1 .. 2 : most[i] = front[i]
      BY <1>7, <1>8, <1>12, Zenon
    <2> QED BY <1>3, <2>1, <2>2, <2>3, Zenon
  <1>14. \A i \in 1 .. 4 : /\ (Strings + 2) + i \in 1 .. (2 + Strings) + 4
                          /\ ~((Strings + 2) + i <= 2 + Strings)
                          /\ ((Strings + 2) + i) - (2 + Strings) = i
    BY <1>1
  <1>15. \A i \in 1 .. 4 : Layout[(Strings + 2) + i] = back[i]
    BY <1>9, <1>14
  <1>16. /\ (Strings + 2) + 1 = Strings + 3 /\ (Strings + 2) + 2 = Strings + 4
         /\ (Strings + 2) + 3 = Strings + 5 /\ (Strings + 2) + 4 = Strings + 6
         /\ (2 + Strings) + 4 = Strings + 6
    BY <1>1
  <1>17. /\ Layout[Strings + 3] = back[1] /\ Layout[Strings + 4] = back[2]
         /\ Layout[Strings + 5] = back[3] /\ Layout[Strings + 6] = back[4]
    BY <1>15, <1>16
  <1> QED
    BY <1>1, <1>5, <1>9, <1>11, <1>13, <1>16, <1>17

\* The bytes of a device's record, field by field.
Piece(device, i) ==
    CASE i = 1 -> MAGIC
      [] i = 2 -> <<FORMAT_VERSION>>
      [] i \in 3 .. Strings + 2 -> PutString(device[Layout[i]])
      [] i = Strings + 3 -> PutNumber(device["lastCounter"], WordBytes)
      [] i = Strings + 4 -> PutNumber(device["lockDeadlineDay"], DayBytes)
      [] i = Strings + 5 -> <<device["status"]>>
      [] i = Strings + 6 -> <<device["lastTokenWasGrace"]>>

\* The bytes of each field, by its place.
LEMMA PieceIs ==
    ASSUME NEW device
    PROVE  /\ Piece(device, 1) = MAGIC
           /\ Piece(device, 2) = <<FORMAT_VERSION>>
           /\ \A i \in 3 .. Strings + 2 : Piece(device, i) = PutString(device[Layout[i]])
           /\ Piece(device, Strings + 3) = PutNumber(device["lastCounter"], WordBytes)
           /\ Piece(device, Strings + 4) = PutNumber(device["lockDeadlineDay"], DayBytes)
           /\ Piece(device, Strings + 5) = <<device["status"]>>
           /\ Piece(device, Strings + 6) = <<device["lastTokenWasGrace"]>>
  BY LayoutIs DEF Piece

\* A device is a record of the fields that are written, each of its type.
LEMMA DeviceIs ==
    ASSUME NEW device \in Device
    PROVE  /\ device = [f \in Member |-> device[f]]
           /\ \A i \in 3 .. Strings + 2 : /\ device[Layout[i]] \in Seq(Byte)
                                          /\ Len(device[Layout[i]]) \in Word
           /\ device["lastCounter"] \in Word /\ device["lockDeadlineDay"] \in Day
           /\ device["status"] \in Status /\ device["lastTokenWasGrace"] \in {0, 1}
  <1>1. /\ device = [f \in Member |-> device[f]]
        /\ device["lastCounter"] \in Word /\ device["lockDeadlineDay"] \in Day
        /\ device["status"] \in Status /\ device["lastTokenWasGrace"] \in {0, 1}
    BY FormatAssumption
  <1>2. ASSUME NEW i \in 3 .. Strings + 2
        PROVE  /\ device[Layout[i]] \in Seq(Byte)
               /\ Len(device[Layout[i]]) \in Word
    <2>1. i - 2 \in 1 .. Strings /\ (i - 2) + 2 = i
      BY LayoutIs
    <2>2. Layout[i] = StringField[i - 2]
      BY <2>1, LayoutIs
    <2>3. i - 2 \in DOMAIN StringField
      BY <2>1, FormatAssumption DEF Strings
    <2> QED BY <2>2, <2>3, FormatAssumption
  <1> QED BY <1>1, <1>2

\* Counters and deadlines are numbers, and no bytes may be said of a string.
LEMMA WordsAreNumbers == Word \subseteq Int /\ Day \subseteq Int /\ 0 \in Word
  <1>1. Power[WordBytes] \in Nat \ {0}
    BY Bases, Powers
  <1>2. PICK half \in Nat \ {0} : Power[DayBytes] \div 2 = half
    BY Bases, EvenPowers
  <1> QED BY <1>1, <1>2 DEF Word, Day

\* putString writes the length and behind it the string.
LEMMA PutStringIs ==
    ASSUME NEW value \in Seq(Byte), Len(value) \in Word
    PROVE  /\ PutString(value) \in Seq(Byte)
           /\ Len(PutString(value)) = WordBytes + Len(value)
           /\ \A i \in 1 .. WordBytes :
                 PutString(value)[i] = PutNumber(Len(value), WordBytes)[i]
           /\ \A i \in 1 .. Len(value) : PutString(value)[WordBytes + i] = value[i]
  <1>1. PICK size : size = PutNumber(Len(value), WordBytes)
    OBVIOUS
  <1>2. size \in Seq(Byte) /\ Len(size) = WordBytes
    BY <1>1, WordsAreNumbers, Bases, PutNumberIsBytes
  <1>3. /\ size \o value \in Seq(Byte) /\ Len(size \o value) = Len(size) + Len(value)
        /\ \A i \in 1 .. Len(size) + Len(value) : (size \o value)[i] =
              IF i <= Len(size) THEN size[i] ELSE value[i - Len(size)]
    BY <1>2, ConcatProperties
  <1>4. PutString(value) = size \o value
    BY <1>1 DEF PutString
  <1>5. WordBytes \in Nat /\ Len(value) \in Nat
    BY Bases
  <1>6. \A i \in 1 .. Len(value) : /\ WordBytes + i \in 1 .. WordBytes + Len(value)
                                   /\ ~(WordBytes + i <= WordBytes)
                                   /\ (WordBytes + i) - WordBytes = i
    BY <1>5
  <1>7. \A i \in 1 .. WordBytes : i \in 1 .. WordBytes + Len(value) /\ i <= WordBytes
    BY <1>5
  <1>8. \A i \in 1 .. Len(value) : PutString(value)[WordBytes + i] = value[i]
    BY <1>2, <1>3, <1>4, <1>6
  <1>9. \A i \in 1 .. WordBytes : PutString(value)[i] = size[i]
    BY <1>2, <1>3, <1>4, <1>7
  <1> QED BY <1>1, <1>2, <1>3, <1>4, <1>8, <1>9

\* Each field is written in bytes.
LEMMA PieceIsBytes ==
    ASSUME NEW device \in Device, NEW i \in 1 .. Strings + 6
    PROVE  Piece(device, i) \in Seq(Byte)
  <1>1. /\ MAGIC \in Seq(Byte) /\ FORMAT_VERSION \in Byte
        /\ device["status"] \in Byte /\ device["lastTokenWasGrace"] \in Byte
    <2>1. MAGIC \in Seq(Byte) /\ FORMAT_VERSION \in Byte /\ Status \subseteq Byte
      BY FormatAssumption
    <2> QED BY <2>1, DeviceIs DEF Status
  <1>2. CASE i \in 3 .. Strings + 2
    <2>1. Piece(device, i) = PutString(device[Layout[i]])
      BY <1>2, PieceIs
    <2>2. device[Layout[i]] \in Seq(Byte) /\ Len(device[Layout[i]]) \in Word
      BY <1>2, DeviceIs
    <2> QED BY <2>1, <2>2, PutStringIs
  <1>3. CASE i = Strings + 3
    <2>1. Piece(device, i) = PutNumber(device["lastCounter"], WordBytes)
      BY <1>3, PieceIs
    <2>2. device["lastCounter"] \in Int
      BY DeviceIs, WordsAreNumbers
    <2> QED BY <2>1, <2>2, Bases, PutNumberIsBytes
  <1>4. CASE i = Strings + 4
    <2>1. Piece(device, i) = PutNumber(device["lockDeadlineDay"], DayBytes)
      BY <1>4, PieceIs
    <2>2. device["lockDeadlineDay"] \in Int
      BY DeviceIs, WordsAreNumbers
    <2> QED BY <2>1, <2>2, Bases, PutNumberIsBytes
  <1>5. CASE i \in {1, 2, Strings + 5, Strings + 6}
    <2>1. Piece(device, i) \in {MAGIC, <<FORMAT_VERSION>>, <<device["status"]>>,
                                <<device["lastTokenWasGrace"]>>}
      BY <1>5, PieceIs
    <2>2. \A b \in Byte : <<b>> \in Seq(Byte)
      OBVIOUS
    <2> QED BY <1>1, <2>1, <2>2
  <1> QED BY <1>2, <1>3, <1>4, <1>5, LayoutIs

\* The record's bytes up to each field: p[i] ends with the i-th.
Laid(p, device) ==
    /\ p \in [0 .. Strings + 6 -> Seq(Byte)]
    /\ p[0] = <<>>
    /\ \A i \in 1 .. Strings + 6 : p[i] = p[i - 1] \o Piece(device, i)

\* serialize lays the fields one behind the other.
LEMMA LaidOut ==
    ASSUME NEW device \in Device
    PROVE  \E p : Laid(p, device) /\ p[Strings + 6] = Serialize(device)
  <1> DEFINE strings == [i \in DOMAIN StringField |-> PutString(device[StringField[i]])]
             pieces == [i \in 1 .. Strings + 6 |-> Piece(device, i)]
  <1>1. strings \in Seq(Seq(Byte)) /\ Len(strings) = Strings
        /\ \A i \in 1 .. Strings : strings[i] = Piece(device, i + 2)
    <2>1. DOMAIN StringField = 1 .. Strings /\ Strings \in Nat
      BY FormatAssumption DEF Strings
    <2>2. ASSUME NEW i \in 1 .. Strings
          PROVE  strings[i] = Piece(device, i + 2) /\ strings[i] \in Seq(Byte)
      <3>1. i + 2 \in 3 .. Strings + 2 /\ i + 2 \in 1 .. Strings + 6
        BY <2>1
      <3>2. Layout[i + 2] = StringField[i]
        BY LayoutIs
      <3>3. strings[i] = Piece(device, i + 2)
        BY <2>1, <3>1, <3>2, PieceIs
      <3> QED BY <3>1, <3>3, PieceIsBytes
    <2> QED BY <2>1, <2>2
  <1>2. pieces \in Seq(Seq(Byte)) /\ Len(pieces) = Strings + 6
        /\ \A i \in 1 .. Strings + 6 : pieces[i] = Piece(device, i)
    BY LayoutIs, PieceIsBytes
  <1>3. PICK q \in [0 .. Strings -> Seq(Byte)] :
              /\ q[0] = <<>>
              /\ \A i \in 1 .. Strings : q[i] = q[i - 1] \o Piece(device, i + 2)
              /\ FlattenSeq(strings) = q[Strings]
    <2> HIDE DEF strings
    <2>1. PICK q \in [0 .. Strings -> Seq(Byte)] :
              /\ q[0] = <<>>
              /\ \A i \in 1 .. Strings : q[i] = q[i - 1] \o strings[i]
              /\ FlattenSeq(strings) = q[Strings]
      BY <1>1, Flattened
    <2> QED BY <1>1, <2>1
  <1>4. PICK p : Laid(p, device)
    <2> HIDE DEF pieces
    <2>1. PICK p \in [0 .. Len(pieces) -> Seq(Byte)] :
              /\ p[0] = <<>>
              /\ \A i \in 1 .. Len(pieces) : p[i] = p[i - 1] \o pieces[i]
      BY <1>2, Flattened, Zenon
    <2>2. Laid(p, device)
      BY <1>2, <2>1 DEF Laid
    <2> QED BY <2>2
  <1>5. Strings \in Nat
    BY LayoutIs
  <1>6. PICK head \in Seq(Byte) : head = MAGIC \o <<FORMAT_VERSION>>
    <2>1. MAGIC \in Seq(Byte) /\ <<FORMAT_VERSION>> \in Seq(Byte)
      BY FormatAssumption
    <2>2. MAGIC \o <<FORMAT_VERSION>> \in Seq(Byte)
      BY <2>1, ConcatProperties
    <2> QED BY <2>2
  <1>7. p[2] = head
    <2>1. 1 \in 1 .. Strings + 6 /\ 2 \in 1 .. Strings + 6 /\ 1 - 1 = 0 /\ 2 - 1 = 1
      BY <1>5
    <2>2. p[1] = <<>> \o MAGIC /\ p[2] = p[1] \o <<FORMAT_VERSION>>
      BY <1>4, <2>1, PieceIs DEF Laid
    <2>3. <<>> \o MAGIC = MAGIC
      BY FormatAssumption, ConcatEmptySeq
    <2> QED BY <1>6, <2>2, <2>3
  <1> DEFINE Good == {i \in 0 .. Strings : p[i + 2] = head \o q[i]}
  <1>8. 0 \in Good
    <2>1. head \o <<>> = head
      BY ConcatEmptySeq
    <2> QED BY <1>3, <1>5, <1>7, <2>1
  <1>9. ASSUME NEW i \in 1 .. Strings, i - 1 \in Good PROVE i \in Good
    <2>1. i + 2 \in 1 .. Strings + 6 /\ (i + 2) - 1 = (i - 1) + 2 /\ i - 1 \in 0 .. Strings
      BY <1>5
    <2>2. p[i + 2] = p[(i - 1) + 2] \o Piece(device, i + 2)
      BY <1>4, <2>1 DEF Laid
    <2>3. p[(i - 1) + 2] = head \o q[i - 1]
      BY <1>9
    <2>4. q[i] = q[i - 1] \o Piece(device, i + 2) /\ q[i - 1] \in Seq(Byte)
      BY <1>3, <2>1
    <2>5. Piece(device, i + 2) \in Seq(Byte)
      BY <2>1, PieceIsBytes
    <2>6. (head \o q[i - 1]) \o Piece(device, i + 2) = head \o (q[i - 1] \o Piece(device, i + 2))
      <3>1. ASSUME NEW a \in Seq(Byte), NEW b \in Seq(Byte)
            PROVE  (head \o a) \o b = head \o (a \o b)
        BY ConcatAssociative
      <3> QED BY <2>4, <2>5, <3>1
    <2>7. p[i + 2] = head \o q[i]
      BY <2>2, <2>3, <2>4, <2>6, Zenon
    <2> QED BY <2>7
  <1>10. p[Strings + 2] = head \o q[Strings]
    <2> HIDE DEF Good
    <2>1. 0 .. Strings \subseteq Good
      BY <1>5, <1>8, <1>9, Climb
    <2>2. Strings \in Good
      BY <1>5, <2>1
    <2> QED BY <2>2 DEF Good
  <1>11. /\ p[Strings + 3] = p[Strings + 2] \o PutNumber(device.lastCounter, WordBytes)
         /\ p[Strings + 4] = p[Strings + 3] \o PutNumber(device.lockDeadlineDay, DayBytes)
         /\ p[Strings + 5] = p[Strings + 4] \o <<device.status>>
         /\ p[Strings + 6] = p[Strings + 5] \o <<device.lastTokenWasGrace>>
    <2>1. /\ Strings + 3 \in 1 .. Strings + 6 /\ (Strings + 3) - 1 = Strings + 2
          /\ Strings + 4 \in 1 .. Strings + 6 /\ (Strings + 4) - 1 = Strings + 3
          /\ Strings + 5 \in 1 .. Strings + 6 /\ (Strings + 5) - 1 = Strings + 4
          /\ Strings + 6 \in 1 .. Strings + 6 /\ (Strings + 6) - 1 = Strings + 5
      BY <1>5
    <2> QED BY <1>4, <2>1, PieceIs DEF Laid
  <1>12. Serialize(device) = p[Strings + 4] \o <<device.status, device.lastTokenWasGrace>>
    <2>1. q[Strings] = FlattenSeq([i \in DOMAIN StringField |-> PutString(device[StringField[i]])])
      BY <1>3
    <2> QED BY <1>6, <1>10, <1>11, <2>1, Zenon DEF Serialize
  <1>20. device.status \in Byte /\ device.lastTokenWasGrace \in Byte
    <2>1. Status \subseteq Byte
      BY FormatAssumption
    <2> QED BY <2>1, DeviceIs DEF Status
  <1>13. p[Strings + 6] = p[Strings + 4] \o <<device.status, device.lastTokenWasGrace>>
    <2>1. p[Strings + 4] \in Seq(Byte)
      BY <1>4, <1>5 DEF Laid
    <2>2. <<device.status>> \in Seq(Byte) /\ <<device.lastTokenWasGrace>> \in Seq(Byte)
      <3>1. Strings + 5 \in 1 .. Strings + 6 /\ Strings + 6 \in 1 .. Strings + 6
        BY <1>5
      <3> QED BY <3>1, PieceIs, PieceIsBytes
    <2>3. <<device.status>> \o <<device.lastTokenWasGrace>>
             = <<device.status, device.lastTokenWasGrace>>
      <3>1. ASSUME NEW a \in Byte, NEW b \in Byte PROVE <<a>> \o <<b>> = <<a, b>>
        <4>0. <<a>> \in Seq(Byte) /\ <<b>> \in Seq(Byte) /\ <<a, b>> \in Seq(Byte)
          OBVIOUS
        <4>1. PICK s \in Seq(Byte), t \in Seq(Byte), u \in Seq(Byte) :
                 s = <<a>> /\ t = <<b>> /\ u = <<a, b>>
          BY <4>0, Zenon
        <4>2. /\ Len(s) = 1 /\ s[1] = a /\ Len(t) = 1 /\ t[1] = b
              /\ Len(u) = 2 /\ u[1] = a /\ u[2] = b
          BY <4>1
        <4>3. /\ s \o t \in Seq(Byte) /\ Len(s \o t) = Len(s) + Len(t)
              /\ \A i \in 1 .. Len(s) + Len(t) : (s \o t)[i] =
                    IF i <= Len(s) THEN s[i] ELSE t[i - Len(s)]
          BY ConcatProperties
        <4>4. Len(s \o t) = Len(u) /\ \A i \in 1 .. Len(s \o t) : (s \o t)[i] = u[i]
          BY <4>2, <4>3
        <4>5. s \o t = u
          BY <4>3, <4>4, SeqEqual
        <4> QED BY <4>1, <4>5
      <3> QED BY <3>1, <1>20
    <2>4. (p[Strings + 4] \o <<device.status>>) \o <<device.lastTokenWasGrace>>
             = p[Strings + 4] \o (<<device.status>> \o <<device.lastTokenWasGrace>>)
      BY <2>1, <2>2, ConcatAssociative
    <2> QED BY <1>11, <2>3, <2>4, Zenon
  <1> QED BY <1>4, <1>12, <1>13

\* Each field lies in the record where the ones before it end.
LEMMA FieldLies ==
    ASSUME NEW device \in Device, NEW p, Laid(p, device),
           p[Strings + 6] = Serialize(device),
           NEW i \in 1 .. Strings + 6
    PROVE  /\ Len(p[i - 1]) \in Nat /\ Len(Piece(device, i)) \in Nat
           /\ Len(p[i]) = Len(p[i - 1]) + Len(Piece(device, i))
           /\ Len(p[i]) <= Len(Serialize(device))
           /\ \A x \in 1 .. Len(Piece(device, i)) :
                 Serialize(device)[Len(p[i - 1]) + x] = Piece(device, i)[x]
  <1> DEFINE last == Strings + 6
             Good == {d \in 0 .. last - i :
                        /\ Len(p[i]) <= Len(p[i + d])
                        /\ \A x \in 1 .. Len(p[i]) : p[i + d][x] = p[i][x]}
  <1>1. last \in Nat /\ p \in [0 .. last -> Seq(Byte)]
        /\ \A j \in 1 .. last : p[j] = p[j - 1] \o Piece(device, j)
    <2>1. last \in Nat
      BY LayoutIs
    <2> HIDE DEF last
    <2>2. p \in [0 .. last -> Seq(Byte)]
          /\ \A j \in 1 .. last : p[j] = p[j - 1] \o Piece(device, j)
      BY DEF Laid, last
    <2> QED BY <2>1, <2>2
  <1> HIDE DEF last
  <1>2. \A j \in 1 .. last : Piece(device, j) \in Seq(Byte)
    BY PieceIsBytes DEF last
  <1>3. i \in 1 .. last /\ p[last] = Serialize(device)
    BY DEF last
  <1>4. ASSUME NEW j \in 1 .. last
        PROVE  /\ p[j - 1] \in Seq(Byte) /\ p[j] \in Seq(Byte)
               /\ Len(p[j]) = Len(p[j - 1]) + Len(Piece(device, j))
               /\ \A x \in 1 .. Len(p[j - 1]) : p[j][x] = p[j - 1][x]
               /\ \A x \in 1 .. Len(Piece(device, j)) :
                     p[j][Len(p[j - 1]) + x] = Piece(device, j)[x]
    <2>1. p[j - 1] \in Seq(Byte) /\ p[j] \in Seq(Byte) /\ Piece(device, j) \in Seq(Byte)
      <3>1. j - 1 \in 0 .. last /\ j \in 0 .. last
        BY <1>1
      <3> QED BY <1>1, <1>2, <3>1
    <2>2. ASSUME NEW s \in Seq(Byte), NEW t \in Seq(Byte)
          PROVE  /\ Len(s \o t) = Len(s) + Len(t)
                 /\ \A x \in 1 .. Len(s) : (s \o t)[x] = s[x]
                 /\ \A x \in 1 .. Len(t) : (s \o t)[Len(s) + x] = t[x]
      <3>1. /\ Len(s \o t) = Len(s) + Len(t)
            /\ \A x \in 1 .. Len(s) + Len(t) :
                  (s \o t)[x] = IF x <= Len(s) THEN s[x] ELSE t[x - Len(s)]
        BY ConcatProperties
      <3>2. Len(s) \in Nat /\ Len(t) \in Nat
        OBVIOUS
      <3>3. ASSUME NEW x \in 1 .. Len(t) PROVE (s \o t)[Len(s) + x] = t[x]
        <4>1. /\ Len(s) + x \in 1 .. Len(s) + Len(t) /\ ~(Len(s) + x <= Len(s))
              /\ (Len(s) + x) - Len(s) = x
          BY <3>2
        <4> QED BY <3>1, <4>1
      <3> QED BY <3>1, <3>2, <3>3
    <2>3. p[j] = p[j - 1] \o Piece(device, j)
      BY <1>1
    <2> QED BY <2>1, <2>2, <2>3
  <1>5. last - i \in Nat
    BY <1>1, <1>3
  <1>6. 0 \in Good
    <2>1. p[i] \in Seq(Byte)
      BY <1>3, <1>4
    <2> QED BY <1>3, <1>5, <2>1
  <1>7. ASSUME NEW d \in 1 .. last - i, d - 1 \in Good PROVE d \in Good
    <2>1. i + d \in 1 .. last /\ (i + d) - 1 = i + (d - 1)
      BY <1>1, <1>3
    <2>2. PICK j \in 1 .. last : j = i + d /\ j - 1 = i + (d - 1)
      BY <2>1
    <2>3. /\ p[j - 1] \in Seq(Byte) /\ Piece(device, j) \in Seq(Byte) /\ p[i] \in Seq(Byte)
          /\ Len(p[j]) = Len(p[j - 1]) + Len(Piece(device, j))
          /\ \A x \in 1 .. Len(p[j - 1]) : p[j][x] = p[j - 1][x]
      BY <1>2, <1>3, <1>4
    <2>4. /\ Len(p[i]) <= Len(p[j - 1])
          /\ \A x \in 1 .. Len(p[i]) : p[j - 1][x] = p[i][x]
      BY <1>7, <2>2
    <2>5. Len(p[i]) \in Nat /\ Len(p[j - 1]) \in Nat /\ Len(Piece(device, j)) \in Nat
      BY <2>3
    <2>6. /\ Len(p[i]) <= Len(p[j])
          /\ \A x \in 1 .. Len(p[i]) : p[j][x] = p[i][x]
      BY <2>3, <2>4, <2>5
    <2> QED BY <2>2, <2>6
  <1>8. /\ Len(p[i]) <= Len(p[last])
        /\ \A x \in 1 .. Len(p[i]) : p[last][x] = p[i][x]
    <2> HIDE DEF Good
    <2>1. 0 .. last - i \subseteq Good
      BY <1>5, <1>6, <1>7, Climb
    <2>2. last - i \in Good /\ i + (last - i) = last
      BY <1>1, <1>3, <1>5, <2>1
    <2> QED BY <2>2 DEF Good
  <1>9. /\ Len(p[i - 1]) \in Nat /\ Len(Piece(device, i)) \in Nat
        /\ Len(p[i]) = Len(p[i - 1]) + Len(Piece(device, i))
    <2>1. p[i - 1] \in Seq(Byte) /\ Piece(device, i) \in Seq(Byte)
      BY <1>2, <1>3, <1>4
    <2> QED BY <1>3, <1>4, <2>1
  <1>10. ASSUME NEW x \in 1 .. Len(Piece(device, i))
         PROVE  p[last][Len(p[i - 1]) + x] = Piece(device, i)[x]
    <2>1. Len(p[i - 1]) + x \in 1 .. Len(p[i])
      BY <1>9
    <2> QED BY <1>3, <1>4, <1>8, <2>1
  <1> QED BY <1>3, <1>8, <1>9, <1>10

-----------------------------------------------------------------------------
(* The reader of a record.                                                 *)

\* How many fields have been taken.
Taken == Strings + 6 - Len(todo)

\* What may be kept under the name of the i-th field.
Kept(i, value) ==
    /\ i \in 3 .. Strings + 2 => value \in Seq(Byte)
    /\ i = Strings + 3 => value \in Word
    /\ i = Strings + 4 => value \in Day
    /\ i \in {Strings + 5, Strings + 6} => value \in Byte

\* The reader is where it has taken the first fields, and has kept them.
Place ==
    /\ written \in Device /\ damage \in {"none", "cut", "changed"}
    /\ buffer \in Seq(Byte) /\ offset \in 0 .. Len(buffer)
    /\ todo \in Seq(FieldName) /\ Len(todo) <= Strings + 6
    /\ \A i \in 1 .. Len(todo) : todo[i] = Layout[Taken + i]
    /\ read = [f \in {Layout[i] : i \in 3 .. Taken} |-> read[f]]
    /\ \A i \in 3 .. Taken : Kept(i, read[Layout[i]])
    /\ answer \in {"none", "rejected", "accepted"}
    /\ answer = "accepted" => /\ todo = <<>>
                              /\ read["status"] \in Status
                              /\ read["lastTokenWasGrace"] \in {0, 1}

\* As far as the bytes are those that were written, so are the fields.
Same ==
    damage # "changed" =>
        /\ Len(buffer) <= Len(Serialize(written))
        /\ damage = "none" => Len(buffer) = Len(Serialize(written)) /\ answer # "rejected"
        /\ damage = "cut" => Len(buffer) < Len(Serialize(written))
        /\ \A x \in 1 .. Len(buffer) : buffer[x] = Serialize(written)[x]
        /\ \A p : Laid(p, written) => offset = Len(p[Taken])
        /\ answer # "rejected" =>
              \A i \in 3 .. Taken : read[Layout[i]] = written[Layout[i]]

RInv == Place /\ Same

\* getU8 gives bytes, and inside the buffer the ones that lie there.
LEMMA BytesAre ==
    ASSUME Place, NEW n \in Nat
    PROVE  /\ Bytes(n) \in Seq(Byte) /\ Len(Bytes(n)) = n
           /\ \A x \in 1 .. n : offset + x <= Len(buffer) => Bytes(n)[x] = buffer[offset + x]
  <1>1. 0 \in Byte
    BY Bases DEF Byte
  <1>2. ASSUME NEW x \in 1 .. n
        PROVE  (IF offset + x <= Len(buffer) THEN buffer[offset + x] ELSE 0) \in Byte
    <2>1. offset \in Nat /\ Len(buffer) \in Nat /\ buffer \in Seq(Byte)
      BY DEF Place
    <2>2. offset + x <= Len(buffer) => offset + x \in 1 .. Len(buffer)
      BY <2>1
    <2> QED BY <1>1, <2>1, <2>2
  <1> QED BY <1>2 DEF Bytes

\* Where nothing was changed the next bytes are those of the next field.
LEMMA SeesPiece ==
    ASSUME RInv, damage # "changed", Taken + 1 \in 1 .. Strings + 6,
           NEW m \in 0 .. Len(Piece(written, Taken + 1))
    PROVE  /\ damage = "none" => Available(m)
           /\ Available(m) =>
                /\ Bytes(m) \in Seq(Byte) /\ Len(Bytes(m)) = m
                /\ \A x \in 1 .. m : Bytes(m)[x] = Piece(written, Taken + 1)[x]
  <1>1. PICK i \in 1 .. Strings + 6 : i = Taken + 1 /\ i - 1 = Taken
    BY LayoutIs DEF RInv, Place, Taken
  <1>2. PICK p : Laid(p, written) /\ p[Strings + 6] = Serialize(written)
    BY LaidOut DEF RInv, Place
  <1>3. offset = Len(p[i - 1])
    BY <1>1, <1>2 DEF RInv, Same
  <1>4. /\ Len(p[i - 1]) \in Nat /\ Len(Piece(written, i)) \in Nat
        /\ Len(p[i]) = Len(p[i - 1]) + Len(Piece(written, i))
        /\ Len(p[i]) <= Len(Serialize(written))
        /\ \A x \in 1 .. Len(Piece(written, i)) :
              Serialize(written)[Len(p[i - 1]) + x] = Piece(written, i)[x]
    <2>1. written \in Device
      BY DEF RInv, Place
    <2> QED BY <1>2, <2>1, FieldLies
  <1>5. m \in 0 .. Len(Piece(written, i)) /\ m \in Nat
    BY <1>1, <1>4
  <1>6. damage = "none" => Available(m)
    <2>1. damage = "none" => Len(buffer) = Len(Serialize(written))
      BY DEF RInv, Same
    <2>2. Len(buffer) \in Nat
      BY DEF RInv, Place
    <2> QED BY <1>3, <1>4, <1>5, <2>1, <2>2 DEF Available
  <1>7. Bytes(m) \in Seq(Byte) /\ Len(Bytes(m)) = m
    BY <1>5, BytesAre DEF RInv
  <1>8. ASSUME Available(m), NEW x \in 1 .. m
        PROVE  Bytes(m)[x] = Piece(written, i)[x]
    <2>1. Len(buffer) \in Nat
      BY DEF RInv, Place
    <2>2. offset + x <= Len(buffer) /\ offset + x \in 1 .. Len(buffer)
          /\ x \in 1 .. Len(Piece(written, i))
      <3>1. offset + m <= Len(buffer)
        BY <1>8 DEF Available
      <3>2. offset \in Nat
        BY DEF RInv, Place
      <3>3. x \in Nat \ {0} /\ x <= m /\ x \in 1 .. Len(Piece(written, i))
        BY <1>4, <1>5
      <3>4. offset + x <= Len(buffer)
        BY <1>5, <2>1, <3>1, <3>2, <3>3
      <3> QED BY <2>1, <3>2, <3>3, <3>4
    <2>3. Bytes(m)[x] = buffer[offset + x]
      BY <1>5, <2>2, BytesAre DEF RInv
    <2>4. buffer[offset + x] = Serialize(written)[offset + x]
      BY <2>2 DEF RInv, Same
    <2> QED BY <1>3, <1>4, <2>2, <2>3, <2>4
  <1> QED BY <1>1, <1>6, <1>7, <1>8

\* A field that is awaited is the one after those that were taken.
LEMMA Awaited ==
    ASSUME RInv, NEW i \in 1 .. Strings + 6, Awaits(Layout[i])
    PROVE  answer = "none" /\ todo # <<>> /\ i = Taken + 1
  <1>1. /\ todo \in Seq(FieldName) /\ todo # <<>> /\ Len(todo) <= Strings + 6
        /\ \A j \in 1 .. Len(todo) : todo[j] = Layout[Taken + j]
        /\ answer = "none" /\ Head(todo) = Layout[i]
    BY DEF RInv, Place, Awaits
  <1>2. Len(todo) \in Nat \ {0} /\ Head(todo) = todo[1]
    BY <1>1
  <1>3. Layout[Taken + 1] = Layout[i]
    BY <1>1, <1>2
  <1>4. Strings \in Nat /\ DOMAIN Layout = 1 .. Strings + 6
    BY LayoutIs
  <1>5. Taken + 1 \in 1 .. Strings + 6
    BY <1>1, <1>2, <1>4 DEF Taken
  <1>6. \A j, k \in DOMAIN Layout : Layout[j] = Layout[k] => j = k
    BY FormatAssumption
  <1>7. Taken + 1 = i
    BY <1>3, <1>4, <1>5, <1>6
  <1> QED BY <1>1, <1>7

\* The reader is through with the fields when none is left.
LEMMA TakenIs ==
    ASSUME Place
    PROVE  Taken \in 0 .. Strings + 6 /\ (todo = <<>> <=> Taken = Strings + 6)
  <1>1. Strings \in Nat /\ Len(todo) \in Nat /\ Len(todo) <= Strings + 6 /\ todo \in Seq(FieldName)
    BY LayoutIs DEF Place
  <1>2. todo = <<>> <=> Len(todo) = 0
    BY <1>1
  <1> QED BY <1>1, <1>2 DEF Taken

\* A rejection leaves everything as it was; only damaged bytes may be rejected.
LEMMA RejectKeeps ==
    ASSUME RInv, Reject, damage # "none"
    PROVE  RInv'
  <1>1. Taken' = Taken /\ Available(0)' = Available(0)
    BY DEF Reject, Taken, Available
  <1>2. Place'
    BY <1>1 DEF RInv, Place, Reject
  <1>3. Same'
    BY <1>1 DEF RInv, Same, Reject
  <1> QED BY <1>2, <1>3 DEF RInv

\* A field taken within the buffer, kept with the value it was written with,
\* leads to the next place.
LEMMA TakeKeeps ==
    ASSUME RInv, answer = "none", todo # <<>>,
           NEW i \in 1 .. Strings + 6, i = Taken + 1,
           NEW n \in Nat, Available(n),
           damage # "changed" => n = Len(Piece(written, i)),
           offset' = offset + n, todo' = Tail(todo),
           UNCHANGED <<written, damage, buffer, answer>>,
           i <= 2 => read' = read,
           NEW value,
           i > 2 => /\ read' = [f \in DOMAIN read \union {Layout[i]} |->
                                  IF f = Layout[i] THEN value ELSE read[f]]
                    /\ Kept(i, value)
                    /\ damage # "changed" => value = written[Layout[i]]
    PROVE  RInv'
  <1>1. Strings \in Nat
    BY LayoutIs
  <1>2. /\ todo \in Seq(FieldName) /\ Len(todo) \in Nat \ {0} /\ Len(todo) <= Strings + 6
        /\ \A j \in 1 .. Len(todo) : todo[j] = Layout[Taken + j]
    BY DEF RInv, Place
  <1>3. /\ todo' \in Seq(FieldName) /\ Len(todo') = Len(todo) - 1
        /\ \A j \in 1 .. Len(todo') : todo'[j] = todo[j + 1]
    BY <1>2, HeadTailProperties
  <1>4. Taken' = Taken + 1 /\ Taken' = i /\ Taken \in Nat /\ Taken = i - 1
    BY <1>1, <1>2, <1>3 DEF Taken
  <1>5. \A j \in 1 .. Len(todo') : todo'[j] = Layout[Taken' + j]
    <2> SUFFICES ASSUME NEW j \in 1 .. Len(todo') PROVE todo'[j] = Layout[Taken' + j]
      OBVIOUS
    <2>1. j \in 1 .. Len(todo) - 1 /\ Len(todo) \in Nat /\ todo'[j] = todo[j + 1]
      BY <1>2, <1>3
    <2>2. j + 1 \in 1 .. Len(todo) /\ Taken + (j + 1) = (Taken + 1) + j
      BY <1>4, <2>1, SMTT(40)
    <2>3. todo[j + 1] = Layout[Taken + (j + 1)]
      BY <1>2, <2>2
    <2> QED BY <1>4, <2>1, <2>2, <2>3
  <1>6. offset' \in 0 .. Len(buffer')
    BY DEF RInv, Place, Available
  <1>7. \A j, k \in 1 .. Strings + 6 : Layout[j] = Layout[k] => j = k
    <2>1. DOMAIN Layout = 1 .. Strings + 6
      BY LayoutIs
    <2> QED BY <2>1, FormatAssumption
  <1>8. DOMAIN read = {Layout[j] : j \in 3 .. Taken}
    BY DEF RInv, Place
  <1>9. /\ read' = [f \in {Layout[j] : j \in 3 .. Taken'} |-> read'[f]]
        /\ \A j \in 3 .. Taken' : \/ j = i /\ read'[Layout[j]] = value
                                  \/ j \in 3 .. Taken /\ read'[Layout[j]] = read[Layout[j]]
    <2>1. CASE i <= 2
      <3>1. 3 .. Taken' = {} /\ 3 .. Taken = {}
        BY <1>4, <2>1
      <3> QED BY <1>8, <2>1, <3>1 DEF RInv, Place
    <2>2. CASE i > 2
      <3>1. 3 .. Taken' = (3 .. Taken) \union {i} /\ i \notin 3 .. Taken
        BY <1>4, <2>2
      <3>2. {Layout[j] : j \in 3 .. Taken'} = DOMAIN read \union {Layout[i]}
        BY <1>8, <3>1
      <3>3. read' = [f \in {Layout[j] : j \in 3 .. Taken'} |->
                       IF f = Layout[i] THEN value ELSE read[f]]
        BY <2>2, <3>2
      <3>4. ASSUME NEW j \in 3 .. Taken
            PROVE  read'[Layout[j]] = read[Layout[j]]
        <4>1. j \in 1 .. Strings + 6 /\ j # i
          <5>1. j \in Nat /\ 3 <= j /\ j <= i - 1 /\ i \in Nat /\ i <= Strings + 6
            BY <1>1, <1>4
          <5> QED BY <1>1, <5>1
        <4>2. Layout[j] # Layout[i]
          BY <1>7, <4>1
        <4>3. Layout[j] \in {Layout[k] : k \in 3 .. Taken'}
          BY <3>1
        <4> QED BY <3>3, <4>2, <4>3
      <3>5. read'[Layout[i]] = value
        BY <3>1, <3>3
      <3> QED BY <3>1, <3>3, <3>4, <3>5
    <2> QED BY <2>1, <2>2
  <1>10. \A j \in 3 .. Taken' : Kept(j, read'[Layout[j]])
    <2>1. \A j \in 3 .. Taken : Kept(j, read[Layout[j]])
      BY DEF RInv, Place
    <2>2. \A j \in 3 .. Taken' : j = i => i > 2
      OBVIOUS
    <2> QED BY <1>9, <2>1, <2>2
  <1>11. Place'
    <2>1. written' \in Device /\ damage' \in {"none", "cut", "changed"} /\ buffer' \in Seq(Byte)
      BY DEF RInv, Place
    <2>2. todo' \in Seq(FieldName) /\ Len(todo') <= Strings + 6
      BY <1>1, <1>2, <1>3
    <2>3. answer' = "none"
      OBVIOUS
    <2>4. read' = [f \in {Layout[j] : j \in 3 .. Taken'} |-> read'[f]]
      BY <1>9
    <2> QED BY <1>5, <1>6, <1>10, <2>1, <2>2, <2>3, <2>4 DEF Place
  <1>12. Same'
    <2> SUFFICES ASSUME damage # "changed" PROVE Same'
      BY DEF Same
    <2>1. ASSUME NEW p, Laid(p, written) PROVE offset' = Len(p[Taken'])
      <3>1. offset = Len(p[i - 1])
        BY <1>4, <2>1 DEF RInv, Same
      <3>2. p[i - 1] \in Seq(Byte) /\ Piece(written, i) \in Seq(Byte)
            /\ p[i] = p[i - 1] \o Piece(written, i)
        <4>1. i - 1 \in 0 .. Strings + 6 /\ written \in Device
          BY <1>1 DEF RInv, Place
        <4> QED BY <2>1, <4>1, PieceIsBytes DEF Laid
      <3>3. Len(p[i]) = Len(p[i - 1]) + Len(Piece(written, i))
        <4>1. ASSUME NEW s \in Seq(Byte), NEW t \in Seq(Byte) PROVE Len(s \o t) = Len(s) + Len(t)
          BY ConcatProperties
        <4> QED BY <3>2, <4>1
      <3> QED BY <1>4, <3>1, <3>3
    <2>2. \A j \in 3 .. Taken' : read'[Layout[j]] = written[Layout[j]]
      <3>1. \A j \in 3 .. Taken : read[Layout[j]] = written[Layout[j]]
        BY DEF RInv, Same
      <3>2. \A j \in 3 .. Taken' : j = i => i > 2
        OBVIOUS
      <3> QED BY <1>9, <3>1, <3>2
    <2> QED BY <2>1, <2>2 DEF RInv, Same
  <1> QED BY <1>11, <1>12 DEF RInv

\* Where nothing was changed, the bytes taken for a field are its bytes.
LEMMA TakesPiece ==
    ASSUME RInv, damage # "changed", NEW i \in 1 .. Strings + 6, i = Taken + 1
    PROVE  /\ damage = "none" => Available(Len(Piece(written, i)))
           /\ Available(Len(Piece(written, i))) =>
                 Bytes(Len(Piece(written, i))) = Piece(written, i)
  <1>1. written \in Device
    BY DEF RInv, Place
  <1>2. PICK m \in Nat : m = Len(Piece(written, i)) /\ Piece(written, i) \in Seq(Byte)
    BY <1>1, PieceIsBytes
  <1>3. m \in 0 .. Len(Piece(written, Taken + 1))
    BY <1>2
  <1>4. /\ damage = "none" => Available(m)
        /\ Available(m) =>
             /\ Bytes(m) \in Seq(Byte) /\ Len(Bytes(m)) = m
             /\ \A x \in 1 .. m : Bytes(m)[x] = Piece(written, i)[x]
    BY <1>3, SeesPiece
  <1>5. Available(m) => Bytes(m) = Piece(written, i)
    <2> SUFFICES ASSUME Available(m) PROVE Bytes(m) = Piece(written, i)
      OBVIOUS
    <2>1. PICK s \in Seq(Byte), t \in Seq(Byte) : s = Bytes(m) /\ t = Piece(written, i)
      BY <1>2, <1>4
    <2>2. Len(s) = Len(t) /\ \A x \in 1 .. Len(s) : s[x] = t[x]
      BY <1>2, <1>4, <2>1
    <2>3. s = t
      BY <2>2, SeqEqual
    <2> QED BY <2>1, <2>3
  <1> QED BY <1>2, <1>4, <1>5

\* Init: nothing is taken yet.
LEMMA StartsRight == ASSUME Init PROVE RInv
  <1>1. PICK s \in Seq(Byte) : s = Serialize(written)
    <2>1. written \in Device /\ Strings \in Nat
      BY LayoutIs DEF Init
    <2>2. PICK p : Laid(p, written) /\ p[Strings + 6] = Serialize(written)
      BY <2>1, LaidOut
    <2> QED BY <2>1, <2>2 DEF Laid
  <1>2. Strings \in Nat /\ Len(Layout) = Strings + 6 /\ Layout \in Seq(FieldName)
    BY LayoutIs
  <1>3. Taken = 0
    BY <1>2 DEF Init, Taken
  <1>4. /\ buffer \in Seq(Byte) /\ damage \in {"none", "cut", "changed"}
        /\ damage = "none" => buffer = s
        /\ damage = "cut" => Len(buffer) < Len(s) /\ \A x \in 1 .. Len(buffer) : buffer[x] = s[x]
    <2>1. CASE damage = "none" /\ buffer = s
      BY <2>1
    <2>2. CASE damage = "cut" /\ \E n \in 0 .. Len(s) - 1 : buffer = SubSeq(s, 1, n)
      <3>1. PICK n \in 0 .. Len(s) - 1 : buffer = SubSeq(s, 1, n)
        BY <2>2
      <3>2. n \in Nat /\ n <= Len(s) /\ Len(s) \in Nat
        OBVIOUS
      <3>3. SubSeq(s, 1, n) \in Seq(Byte) /\ Len(SubSeq(s, 1, n)) = n
            /\ \A x \in 1 .. n : SubSeq(s, 1, n)[x] = s[x]
        BY <3>2, SubSeqProperties
      <3> QED BY <2>2, <3>1, <3>2, <3>3
    <2>3. CASE /\ damage = "changed"
               /\ \E i \in DOMAIN s, b \in Byte : buffer = [s EXCEPT ![i] = b]
      BY <2>3
    <2> QED BY <1>1, <2>1, <2>2, <2>3 DEF Init
  <1>5. Place
    <2>1. read = [f \in {Layout[i] : i \in 3 .. Taken} |-> read[f]] /\ 3 .. Taken = {}
      BY <1>3 DEF Init
    <2>2. todo = Layout /\ \A i \in 1 .. Len(todo) : todo[i] = Layout[Taken + i]
      BY <1>2, <1>3 DEF Init
    <2>3. offset \in 0 .. Len(buffer)
      BY <1>4 DEF Init
    <2> QED BY <1>2, <1>4, <2>1, <2>2, <2>3 DEF Place, Init
  <1>6. Same
    <2> SUFFICES ASSUME damage # "changed" PROVE Same
      BY DEF Same
    <2>1. ASSUME NEW p, Laid(p, written) PROVE offset = Len(p[Taken])
      <3>1. p[0] = <<>>
        BY <2>1 DEF Laid
      <3> QED BY <1>3, <3>1 DEF Init
    <2>2. 3 .. Taken = {} /\ answer = "none"
      BY <1>3 DEF Init
    <2>3. /\ Len(buffer) <= Len(s)
          /\ damage = "none" => Len(buffer) = Len(s)
          /\ \A x \in 1 .. Len(buffer) : buffer[x] = s[x]
      BY <1>1, <1>4
    <2> QED BY <1>1, <1>4, <2>1, <2>2, <2>3 DEF Same
  <1> QED BY <1>5, <1>6 DEF RInv

\* Where magic and version stand.
LEMMA FirstTwo ==
    /\ Layout[1] = "magic" /\ Layout[2] = "version"
    /\ 1 \in 1 .. Strings + 6 /\ 2 \in 1 .. Strings + 6
  BY LayoutIs

\* The first two fields are compared and not kept.
LEMMA SkipKeeps ==
    ASSUME RInv, answer = "none", todo # <<>>,
           NEW i \in 1 .. 2, i = Taken + 1,
           NEW n \in Nat, Available(n), n = Len(Piece(written, i)),
           Skip(n)
    PROVE  RInv'
  <1>1. i \in 1 .. Strings + 6 /\ i <= 2 /\ ~(i > 2)
    BY FirstTwo
  <1>2. /\ offset' = offset + n /\ todo' = Tail(todo) /\ read' = read
        /\ UNCHANGED <<written, damage, buffer, answer>>
    BY DEF Skip
  <1>3. ASSUME NEW value PROVE RInv'
    BY <1>1, <1>2, TakeKeeps
  <1> QED BY <1>3

\* TakeMagic: bytes that are not the magic are changed or missing.
LEMMA MagicKeeps == ASSUME RInv, TakeMagic PROVE RInv'
  <1>1. answer = "none" /\ todo # <<>> /\ 1 = Taken + 1
    BY FirstTwo, Awaited DEF TakeMagic
  <1>2. Piece(written, 1) = MAGIC /\ Len(MAGIC) \in Nat
    <2>1. MAGIC \in Seq(Byte)
      BY FormatAssumption
    <2>2. Len(MAGIC) \in Nat
      BY <2>1
    <2>3. Piece(written, 1) = MAGIC
      BY PieceIs
    <2> QED BY <2>2, <2>3
  <1>3. CASE Available(Len(MAGIC)) /\ Bytes(Len(MAGIC)) = MAGIC
    <2>1. Skip(Len(MAGIC))
      BY <1>3 DEF TakeMagic
    <2>2. ASSUME NEW n \in Nat, n = Len(MAGIC), NEW i \in 1 .. 2, i = 1 PROVE RInv'
      BY <1>1, <1>2, <1>3, <2>1, <2>2, SkipKeeps
    <2> QED BY <1>2, <2>2
  <1>4. CASE ~(Available(Len(MAGIC)) /\ Bytes(Len(MAGIC)) = MAGIC)
    <2>1. damage # "none"
      BY <1>1, <1>2, <1>4, FirstTwo, TakesPiece
    <2> QED BY <1>4, <2>1, RejectKeeps DEF TakeMagic
  <1> QED BY <1>3, <1>4

\* TakeVersion: another version is a changed or missing byte.
LEMMA VersionKeeps == ASSUME RInv, TakeVersion PROVE RInv'
  <1>1. answer = "none" /\ todo # <<>> /\ 2 = Taken + 1
    BY FirstTwo, Awaited DEF TakeVersion
  <1>2. Piece(written, 2) = <<FORMAT_VERSION>> /\ Len(Piece(written, 2)) = 1
    BY PieceIs
  <1>3. CASE Available(1) /\ Bytes(1) = <<FORMAT_VERSION>>
    <2>1. Skip(1)
      BY <1>3 DEF TakeVersion
    <2>2. ASSUME NEW n \in Nat, n = 1, NEW i \in 1 .. 2, i = 2 PROVE RInv'
      BY <1>1, <1>2, <1>3, <2>1, <2>2, SkipKeeps
    <2> QED BY <1>2, <2>2
  <1>4. CASE ~(Available(1) /\ Bytes(1) = <<FORMAT_VERSION>>)
    <2>1. damage # "none"
      BY <1>1, <1>2, <1>4, FirstTwo, TakesPiece
    <2> QED BY <1>4, <2>1, RejectKeeps DEF TakeVersion
  <1> QED BY <1>3, <1>4

\* A string whose length is honest is the one that was written; of one whose
\* length is not, no byte is read that is not there.
LEMMA StringKeeps ==
    ASSUME RInv, NEW k \in DOMAIN StringField, TakeString(StringField[k]) PROVE RInv'
  <1>1. PICK i \in 3 .. Strings + 2 : StringField[k] = Layout[i] /\ i \in 1 .. Strings + 6
    <2>1. k + 2 \in 3 .. Strings + 2 /\ k + 2 \in 1 .. Strings + 6 /\ Layout[k + 2] = StringField[k]
      <3>1. Strings \in Nat /\ DOMAIN StringField = 1 .. Strings
        BY LayoutIs, FormatAssumption DEF Strings
      <3>2. Layout[k + 2] = StringField[k]
        BY <3>1, LayoutIs
      <3> QED BY <3>1, <3>2
    <2> QED BY <2>1
  <1>2. answer = "none" /\ todo # <<>> /\ i = Taken + 1
    BY <1>1, Awaited DEF TakeString
  <1>3. PICK length \in Nat : length = Number(Bytes(WordBytes))
    <2>1. Bytes(WordBytes) \in Seq(Byte) /\ Len(Bytes(WordBytes)) = WordBytes
      BY Bases, BytesAre DEF RInv
    <2>2. Power[WordBytes] \in Nat
      BY Bases, Powers
    <2> QED BY <2>1, <2>2, NumberFits
  <1> DEFINE n == WordBytes + length
             value == SubSeq(Bytes(n), WordBytes + 1, n)
  <1>4. n \in Nat /\ WordBytes \in Nat /\ Bytes(n) \in Seq(Byte) /\ Len(Bytes(n)) = n
    BY Bases, BytesAre DEF RInv
  <1>5. value \in Seq(Byte) /\ Len(value) = length
        /\ \A x \in 1 .. length : value[x] = Bytes(n)[WordBytes + x]
    <2>1. PICK s \in Seq(Byte) : s = Bytes(n) /\ Len(s) = n
      BY <1>4
    <2>2. WordBytes + 1 \in 1 .. n + 1 /\ n \in 0 .. n /\ n \in WordBytes .. Len(s)
          /\ (WordBytes + 1) - 1 = WordBytes
      BY <1>4, <2>1
    <2>3. /\ SubSeq(s, WordBytes + 1, n) \in Seq(Byte)
          /\ Len(SubSeq(s, WordBytes + 1, n)) = length
          /\ \A x \in 1 .. length : SubSeq(s, WordBytes + 1, n)[x] = s[WordBytes + x]
      BY <1>4, <2>1, <2>2
    <2> QED BY <2>1, <2>3
  <1>6. ASSUME damage # "changed"
        PROVE  /\ damage = "none" => Available(WordBytes)
               /\ Available(WordBytes) =>
                    /\ length = Len(written[Layout[i]])
                    /\ n = Len(Piece(written, i))
                    /\ damage = "none" => Available(n)
                    /\ Available(n) => value = written[Layout[i]]
    <2>1. PICK w \in Seq(Byte) : w = written[Layout[i]] /\ Len(w) \in Word
      <3>1. written \in Device
        BY DEF RInv, Place
      <3> QED BY <3>1, DeviceIs
    <2>2. /\ Piece(written, i) = PutString(w)
          /\ PutString(w) \in Seq(Byte) /\ Len(PutString(w)) = WordBytes + Len(w)
          /\ \A x \in 1 .. WordBytes : PutString(w)[x] = PutNumber(Len(w), WordBytes)[x]
          /\ \A x \in 1 .. Len(w) : PutString(w)[WordBytes + x] = w[x]
      BY <2>1, PieceIs, PutStringIs, ZenonT(40)
    <2>3. WordBytes \in 0 .. Len(Piece(written, i)) /\ Len(w) \in Nat
      BY <1>4, <2>1, <2>2
    <2>4. /\ damage = "none" => Available(WordBytes)
          /\ Available(WordBytes) =>
               /\ Bytes(WordBytes) \in Seq(Byte) /\ Len(Bytes(WordBytes)) = WordBytes
               /\ \A x \in 1 .. WordBytes : Bytes(WordBytes)[x] = Piece(written, i)[x]
      <3>1. Taken + 1 \in 1 .. Strings + 6 /\ WordBytes \in 0 .. Len(Piece(written, Taken + 1))
        BY <1>1, <1>2, <2>3
      <3> QED BY <1>2, <1>6, <3>1, SeesPiece
    <2>5. ASSUME Available(WordBytes) PROVE length = Len(w)
      <3>1. /\ PutNumber(Len(w), WordBytes) \in Seq(Byte)
            /\ Len(PutNumber(Len(w), WordBytes)) = WordBytes
        BY <1>4, <2>3, PutNumberIsBytes
      <3>2. PICK s \in Seq(Byte), t \in Seq(Byte) :
               s = Bytes(WordBytes) /\ t = PutNumber(Len(w), WordBytes)
        BY <2>4, <2>5, <3>1
      <3>3. Len(s) = Len(t) /\ \A x \in 1 .. Len(s) : s[x] = t[x]
        BY <2>2, <2>4, <2>5, <3>1, <3>2
      <3>4. s = t
        BY <3>3, SeqEqual
      <3>5. Number(PutNumber(Len(w), WordBytes)) = Len(w)
        BY <1>4, <2>1, NumberOfPut DEF Word
      <3> QED BY <1>3, <3>2, <3>4, <3>5
    <2>6. ASSUME Available(WordBytes) PROVE n = Len(Piece(written, i))
      BY <2>2, <2>5, <2>6
    <2>7. ASSUME Available(WordBytes)
          PROVE  /\ damage = "none" => Available(n)
                 /\ Available(n) => Bytes(n) = Piece(written, i)
      BY <1>1, <1>2, <1>6, <2>6, <2>7, TakesPiece
    <2>8. ASSUME Available(WordBytes), Available(n) PROVE value = w
      <3>1. Len(value) = Len(w) /\ \A x \in 1 .. Len(w) : value[x] = w[x]
        BY <1>5, <2>2, <2>5, <2>7, <2>8
      <3>2. PICK s \in Seq(Byte) : s = value
        BY <1>5
      <3> HIDE DEF value
      <3>3. Len(s) = Len(w) /\ \A x \in 1 .. Len(s) : s[x] = w[x]
        BY <3>1, <3>2
      <3>4. s = w
        BY <3>3, SeqEqual
      <3> QED BY <3>2, <3>4
    <2> QED BY <2>1, <2>4, <2>5, <2>6, <2>7, <2>8
  <1>7. CASE Available(WordBytes) /\ Available(n)
    <2>1. Take(Layout[i], n, value)
      BY <1>1, <1>3, <1>7 DEF TakeString
    <2>2. Kept(i, value)
      <3>1. Strings \in Nat /\ i \in 3 .. Strings + 2
        BY <1>1, LayoutIs
      <3>2. i # Strings + 3 /\ i # Strings + 4 /\ i \notin {Strings + 5, Strings + 6}
        BY <3>1
      <3>3. value \in Seq(Byte)
        BY <1>5
      <3> HIDE DEF value
      <3> QED BY <3>2, <3>3 DEF Kept
    <2>3. i > 2
      BY <1>1
    <2>4. damage # "changed" => n = Len(Piece(written, i)) /\ value = written[Layout[i]]
      BY <1>6, <1>7
    <2> HIDE DEF n, value
    <2>5. PICK m \in Nat : m = n
      BY <1>4
    <2>6. PICK kept : kept = value
      OBVIOUS
    <2> QED BY <1>1, <1>2, <1>7, <2>1, <2>2, <2>3, <2>4, <2>5, <2>6, TakeKeeps DEF Take
  <1>8. CASE ~(Available(WordBytes) /\ Available(n))
    <2>1. damage # "none"
      BY <1>6, <1>8
    <2>2. Reject
      BY <1>3, <1>8 DEF TakeString
    <2> QED BY <2>1, <2>2, RejectKeeps
  <1> QED BY <1>7, <1>8

\* A field of known length: what is taken for it is what was written.
LEMMA FieldKeeps ==
    ASSUME RInv, answer = "none", todo # <<>>,
           NEW i \in 3 .. Strings + 6, i = Taken + 1,
           NEW n \in Nat, n = Len(Piece(written, i)),
           NEW value, Available(n) => Kept(i, value),
           Available(n) /\ damage # "changed" => value = written[Layout[i]],
           IF Available(n) THEN Take(Layout[i], n, value) ELSE Reject
    PROVE  RInv'
  <1>1. i \in 1 .. Strings + 6 /\ i > 2
    BY LayoutIs
  <1>2. CASE Available(n)
    <2>1. Take(Layout[i], n, value)
      BY <1>2
    <2> QED BY <1>1, <1>2, <2>1, TakeKeeps DEF Take
  <1>3. CASE ~Available(n)
    <2>1. damage # "none"
      BY <1>1, <1>3, TakesPiece
    <2>2. Reject
      BY <1>3
    <2> QED BY <2>1, <2>2, RejectKeeps
  <1> QED BY <1>2, <1>3

\* Where the four fields of the state stand.
LEMMA LastFour ==
    /\ Layout[Strings + 3] = "lastCounter" /\ Layout[Strings + 4] = "lockDeadlineDay"
    /\ Layout[Strings + 5] = "status" /\ Layout[Strings + 6] = "lastTokenWasGrace"
    /\ \A d \in 3 .. 6 : Strings + d \in 3 .. Strings + 6 /\ Strings + d \in 1 .. Strings + 6
    /\ \A d, e \in 2 .. 6 : Strings + d = Strings + e => d = e
    /\ \A d \in 3 .. 6 : Strings + d \notin 3 .. Strings + 2
  BY LayoutIs

\* TakeCounter: getU32 reads the counter putU32 wrote.
LEMMA CounterKeeps == ASSUME RInv, TakeCounter PROVE RInv'
  <1>1. PICK i \in 3 .. Strings + 6 :
          i = Strings + 3 /\ i \in 1 .. Strings + 6 /\ Layout[i] = "lastCounter"
    BY LastFour
  <1>2. answer = "none" /\ todo # <<>> /\ i = Taken + 1
    BY <1>1, Awaited DEF TakeCounter
  <1>3. PICK counter \in Word : counter = written["lastCounter"] /\ counter \in Int
    <2>1. written \in Device
      BY DEF RInv, Place
    <2> QED BY <2>1, DeviceIs, WordsAreNumbers
  <1>4. Piece(written, i) = PutNumber(counter, WordBytes) /\ Len(Piece(written, i)) = WordBytes
    <2>1. Piece(written, i) = PutNumber(counter, WordBytes)
      BY <1>1, <1>3, PieceIs
    <2> QED BY <1>3, <2>1, Bases, PutNumberIsBytes
  <1>5. Kept(i, Number(Bytes(WordBytes)))
    <2>1. Bytes(WordBytes) \in Seq(Byte) /\ Len(Bytes(WordBytes)) = WordBytes
      BY Bases, BytesAre DEF RInv
    <2>2. Number(Bytes(WordBytes)) \in Word
      BY <2>1, NumberFits DEF Word
    <2>3. i \notin 3 .. Strings + 2 /\ i # Strings + 4 /\ i # Strings + 5 /\ i # Strings + 6
      BY <1>1, LayoutIs
    <2> QED BY <2>2, <2>3 DEF Kept
  <1>6. Available(WordBytes) /\ damage # "changed" =>
           Number(Bytes(WordBytes)) = written[Layout[i]]
    <2>1. Number(PutNumber(counter, WordBytes)) = counter
      BY <1>3, Bases, NumberOfPut DEF Word
    <2> QED BY <1>1, <1>2, <1>3, <1>4, <2>1, TakesPiece
  <1>7. IF Available(WordBytes) THEN Take(Layout[i], WordBytes, Number(Bytes(WordBytes))) ELSE Reject
    BY <1>1 DEF TakeCounter
  <1>8. WordBytes \in Nat
    BY Bases
  <1> QED BY <1>2, <1>4, <1>5, <1>6, <1>7, <1>8, FieldKeeps

\* TakeDeadline: getI64 reads the day putI64 wrote.
LEMMA DeadlineKeeps == ASSUME RInv, TakeDeadline PROVE RInv'
  <1>1. PICK i \in 3 .. Strings + 6 :
          i = Strings + 4 /\ i \in 1 .. Strings + 6 /\ Layout[i] = "lockDeadlineDay"
    BY LastFour
  <1>2. answer = "none" /\ todo # <<>> /\ i = Taken + 1
    BY <1>1, Awaited DEF TakeDeadline
  <1>3. PICK day \in Day : day = written["lockDeadlineDay"] /\ day \in Int
    <2>1. written \in Device
      BY DEF RInv, Place
    <2> QED BY <2>1, DeviceIs, WordsAreNumbers
  <1>4. DayBytes \in Nat
    BY Bases
  <1>5. Piece(written, i) = PutNumber(day, DayBytes) /\ Len(Piece(written, i)) = DayBytes
    <2>1. Piece(written, i) = PutNumber(day, DayBytes)
      BY <1>1, <1>3, PieceIs
    <2> QED BY <1>3, <1>4, <2>1, PutNumberIsBytes
  <1>6. Kept(i, Signed(Bytes(DayBytes)))
    <2>1. Bytes(DayBytes) \in Seq(Byte) /\ Len(Bytes(DayBytes)) = DayBytes
      BY <1>4, BytesAre DEF RInv
    <2>2. Signed(Bytes(DayBytes)) \in Day
      BY <2>1, SignedFits
    <2>3. i \notin 3 .. Strings + 2 /\ i # Strings + 3 /\ i # Strings + 5 /\ i # Strings + 6
      BY <1>1, LayoutIs
    <2> QED BY <2>2, <2>3 DEF Kept
  <1>7. Available(DayBytes) /\ damage # "changed" => Signed(Bytes(DayBytes)) = written[Layout[i]]
    <2>1. Signed(PutNumber(day, DayBytes)) = day
      BY SignedOfPut
    <2> QED BY <1>1, <1>2, <1>3, <1>5, <2>1, TakesPiece
  <1>8. IF Available(DayBytes) THEN Take(Layout[i], DayBytes, Signed(Bytes(DayBytes))) ELSE Reject
    BY <1>1 DEF TakeDeadline
  <1> QED BY <1>2, <1>4, <1>5, <1>6, <1>7, <1>8, FieldKeeps

\* TakeByte: the status and the grace flag.
LEMMA ByteKeeps ==
    ASSUME RInv, NEW i \in {Strings + 5, Strings + 6}, TakeByte(Layout[i])
    PROVE  RInv'
  <1>1. i \in 3 .. Strings + 6 /\ i \in 1 .. Strings + 6
    BY LastFour
  <1>2. answer = "none" /\ todo # <<>> /\ i = Taken + 1
    BY <1>1, Awaited DEF TakeByte
  <1>3. Piece(written, i) = <<written[Layout[i]]>> /\ Len(Piece(written, i)) = 1
    <2>1. CASE i = Strings + 5
      <3>1. Piece(written, i) = <<written["status"]>>
        BY <2>1, PieceIs
      <3>2. Layout[i] = "status"
        BY <2>1, LastFour
      <3> QED BY <3>1, <3>2
    <2>2. CASE i = Strings + 6
      <3>1. Piece(written, i) = <<written["lastTokenWasGrace"]>>
        BY <2>2, PieceIs
      <3>2. Layout[i] = "lastTokenWasGrace"
        BY <2>2, LastFour
      <3> QED BY <3>1, <3>2
    <2>3. i = Strings + 5 \/ i = Strings + 6
      OBVIOUS
    <2>4. Piece(written, i) = <<written[Layout[i]]>>
      BY <2>1, <2>2, <2>3
    <2> QED BY <2>4
  <1>4. Bytes(1) \in Seq(Byte) /\ Len(Bytes(1)) = 1
    BY BytesAre DEF RInv
  <1>5. Kept(i, Bytes(1)[1])
    <2>1. Bytes(1)[1] \in Byte
      BY <1>4
    <2>2. i \notin 3 .. Strings + 2 /\ i # Strings + 3 /\ i # Strings + 4
      BY LayoutIs
    <2> QED BY <2>1, <2>2 DEF Kept
  <1>6. Available(1) /\ damage # "changed" => Bytes(1)[1] = written[Layout[i]]
    <2>1. Available(1) /\ damage # "changed" => Bytes(1) = Piece(written, i)
      BY <1>1, <1>2, <1>3, TakesPiece
    <2> QED BY <1>3, <2>1
  <1>7. IF Available(1) THEN Take(Layout[i], 1, Bytes(1)[1]) ELSE Reject
    BY DEF TakeByte
  <1> QED BY <1>1, <1>2, <1>3, <1>5, <1>6, <1>7, FieldKeeps

\* The last step: the status must exist, the grace byte becomes a truth.
LEMMA ConcludeKeeps == ASSUME RInv, Conclude PROVE RInv'
  <1>1. answer = "none" /\ todo = <<>> /\ Taken = Strings + 6
    BY TakenIs DEF Conclude, RInv
  <1>2. PICK i \in 3 .. Taken, j \in 3 .. Taken :
          /\ i = Strings + 5 /\ j = Strings + 6 /\ i # j
          /\ Layout[i] = "status" /\ Layout[j] = "lastTokenWasGrace"
    BY <1>1, LayoutIs
  <1>3. written \in Device
    BY DEF RInv, Place
  <1>4. CASE read["status"] \in Status
    <2> DEFINE grace == IF read["lastTokenWasGrace"] = 0 THEN 0 ELSE 1
    <2>1. /\ read' = [read EXCEPT !["lastTokenWasGrace"] = grace] /\ answer' = "accepted"
          /\ UNCHANGED <<written, damage, buffer, offset, todo>>
      BY <1>4 DEF Conclude
    <2>2. Taken' = Taken
      BY <2>1 DEF Taken
    <2>3. /\ read = [f \in {Layout[k] : k \in 3 .. Taken} |-> read[f]]
          /\ "lastTokenWasGrace" \in {Layout[k] : k \in 3 .. Taken}
      BY <1>2 DEF RInv, Place
    <2>4. /\ read' = [f \in {Layout[k] : k \in 3 .. Taken} |-> read'[f]]
          /\ read'["lastTokenWasGrace"] = grace
          /\ \A f \in {Layout[k] : k \in 3 .. Taken} \ {"lastTokenWasGrace"} : read'[f] = read[f]
      BY <2>1, <2>3
    <2>5. \A k \in 3 .. Taken : k # j => Layout[k] # "lastTokenWasGrace"
      <3>1. DOMAIN Layout = 1 .. Strings + 6 /\ 3 .. Taken \subseteq DOMAIN Layout
        BY <1>1, LayoutIs
      <3> QED BY <1>2, <3>1, FormatAssumption
    <2>6. \A k \in 3 .. Taken : k # j => read'[Layout[k]] = read[Layout[k]]
      BY <2>4, <2>5
    <2>7. \A k \in 3 .. Taken : Kept(k, read'[Layout[k]])
      <3>1. ASSUME NEW k \in 3 .. Taken, k # j PROVE Kept(k, read'[Layout[k]])
        BY <2>6, <3>1 DEF RInv, Place
      <3>2. grace \in Byte
        <4>1. Status \subseteq Byte
          BY FormatAssumption
        <4> QED BY <4>1 DEF Status
      <3>3. Kept(j, read'[Layout[j]])
        <4>1. j \notin 3 .. Strings + 2 /\ j # Strings + 3 /\ j # Strings + 4
          BY <1>2, LayoutIs
        <4>2. read'[Layout[j]] \in Byte
          BY <1>2, <2>4, <3>2
        <4> QED BY <4>1, <4>2 DEF Kept
      <3> QED BY <3>1, <3>3
    <2>8. Place'
      <3>1. /\ written' \in Device /\ damage' \in {"none", "cut", "changed"}
            /\ buffer' \in Seq(Byte) /\ offset' \in 0 .. Len(buffer')
            /\ todo' \in Seq(FieldName) /\ Len(todo') <= Strings + 6
            /\ \A k \in 1 .. Len(todo') : todo'[k] = Layout[Taken' + k]
        BY <2>1, <2>2 DEF RInv, Place
      <3>2. read' = [f \in {Layout[k] : k \in 3 .. Taken'} |-> read'[f]]
        BY <2>2, <2>4
      <3>3. \A k \in 3 .. Taken' : Kept(k, read'[Layout[k]])
        BY <2>2, <2>7
      <3>4. /\ todo' = <<>> /\ read'["status"] \in Status
            /\ read'["lastTokenWasGrace"] \in {0, 1} /\ answer' = "accepted"
        <4>1. read'["status"] = read["status"]
          BY <1>2, <2>6
        <4> QED BY <1>1, <1>4, <2>1, <2>4, <4>1
      <3> QED BY <3>1, <3>2, <3>3, <3>4 DEF Place
    <2>9. Same'
      <3> SUFFICES ASSUME damage # "changed" PROVE Same'
        BY <2>1 DEF Same
      <3>1. \A k \in 3 .. Taken : read[Layout[k]] = written[Layout[k]]
        BY <1>1 DEF RInv, Same
      <3>2. read'[Layout[j]] = written[Layout[j]]
        <4>1. written["lastTokenWasGrace"] \in {0, 1}
          BY <1>3, DeviceIs
        <4> QED BY <1>2, <2>4, <3>1, <4>1
      <3>3. \A k \in 3 .. Taken' : read'[Layout[k]] = written'[Layout[k]]
        BY <2>1, <2>2, <2>6, <3>1, <3>2
      <3>4. \A p : Laid(p, written') => offset' = Len(p[Taken'])
        BY <2>1, <2>2 DEF RInv, Same
      <3> QED BY <2>1, <3>3, <3>4 DEF RInv, Same
    <2> QED BY <2>8, <2>9 DEF RInv
  <1>5. CASE read["status"] \notin Status
    <2>1. Reject
      BY <1>5 DEF Conclude
    <2>2. damage # "none"
      <3>1. written["status"] \in Status
        BY <1>3, DeviceIs
      <3>2. damage = "none" => read["status"] = written["status"]
        BY <1>1, <1>2 DEF RInv, Same
      <3> QED BY <1>5, <3>1, <3>2
    <2> QED BY <2>1, <2>2, RejectKeeps
  <1> QED BY <1>4, <1>5

\* Nothing happens to the reader.
LEMMA StillKeeps == ASSUME RInv, UNCHANGED vars PROVE RInv'
  <1>1. Taken' = Taken
    BY DEF vars, Taken
  <1>2. Place'
    BY <1>1 DEF RInv, Place, vars
  <1>3. Same'
    BY <1>1 DEF RInv, Same, vars
  <1> QED BY <1>2, <1>3 DEF RInv

\* Every step of deserialize leads from place to place.
LEMMA StepKeeps == ASSUME RInv, [Next]_vars PROVE RInv'
  <1>1. CASE TakeMagic
    BY <1>1, MagicKeeps
  <1>2. CASE TakeVersion
    BY <1>2, VersionKeeps
  <1>3. ASSUME NEW k \in DOMAIN StringField, TakeString(StringField[k]) PROVE RInv'
    BY <1>3, StringKeeps
  <1>4. CASE TakeCounter
    BY <1>4, CounterKeeps
  <1>5. CASE TakeDeadline
    BY <1>5, DeadlineKeeps
  <1>6. CASE TakeByte("status")
    <2>1. TakeByte(Layout[Strings + 5])
      BY <1>6, LastFour
    <2> QED BY <2>1, ByteKeeps
  <1>7. CASE TakeByte("lastTokenWasGrace")
    <2>1. TakeByte(Layout[Strings + 6])
      BY <1>7, LastFour
    <2> QED BY <2>1, ByteKeeps
  <1>8. CASE Conclude
    BY <1>8, ConcludeKeeps
  <1>9. CASE UNCHANGED vars
    BY <1>9, StillKeeps
  <1> QED
    BY <1>1, <1>2, <1>3, <1>4, <1>5, <1>6, <1>7, <1>8, <1>9 DEF Next

\* For bytes, widths and lists of strings of every size, the reader is always
\* where it has taken the first fields of the layout and, unless bytes were
\* changed, taken them as they were written: the inductive invariant.
THEOREM ReaderKeepsItsPlace == Spec => []RInv
  <1>1. Init => RInv
    BY StartsRight
  <1>2. RInv /\ [Next]_vars => RInv'
    BY StepKeeps
  <1> QED BY <1>1, <1>2, PTL DEF Spec

\* deserialize never leaves the buffer it was given, whatever lengths it finds
\* there and however many strings a record has.
THEOREM ReadsInBoundsEver == Spec => []ReadsInBounds
  <1>1. RInv => ReadsInBounds
    BY DEF RInv, Place, ReadsInBounds
  <1> QED BY <1>1, ReaderKeepsItsPlace, PTL

\* An accepted record has every field, and its last byte.
LEMMA AllAreRead ==
    ASSUME RInv, answer = "accepted"
    PROVE  /\ Taken = Strings + 6 /\ DOMAIN read = Member /\ read = [f \in Member |-> read[f]]
           /\ damage # "cut"
  <1>1. Taken = Strings + 6 /\ Strings \in Nat /\ Len(Layout) = Strings + 6
    BY TakenIs, LayoutIs DEF RInv, Place
  <1>2. {Layout[i] : i \in 3 .. Taken} = Member
    BY <1>1 DEF Member
  <1>3. read = [f \in Member |-> read[f]]
    BY <1>2 DEF RInv, Place
  <1>4. damage # "cut"
    <2> SUFFICES ASSUME damage = "cut" PROVE FALSE
      OBVIOUS
    <2>1. written \in Device
      BY DEF RInv, Place
    <2>2. PICK p : Laid(p, written) /\ p[Strings + 6] = Serialize(written)
      BY <2>1, LaidOut
    <2>3. offset = Len(Serialize(written))
      BY <1>1, <2>2 DEF RInv, Same
    <2>4. Len(buffer) < Len(Serialize(written)) /\ offset \in 0 .. Len(buffer)
      BY DEF RInv, Same, Place
    <2>5. Len(buffer) \in Nat
      BY DEF RInv, Place
    <2> QED BY <2>3, <2>4, <2>5
  <1> QED BY <1>1, <1>3, <1>4

\* Every device serialize can write is accepted by deserialize and read back
\* field for field, deadlines before the epoch included.
THEOREM WholeRecordIsReadEver == Spec => []WholeRecordIsRead
  <1>1. ASSUME RInv, damage = "none" PROVE answer # "rejected"
    BY <1>1 DEF RInv, Same
  <1>2. ASSUME RInv, damage = "none", answer = "accepted" PROVE read = written
    <2>1. written = [f \in Member |-> written[f]]
      BY <1>2, DeviceIs DEF RInv, Place
    <2>2. read = [f \in Member |-> read[f]] /\ Taken = Strings + 6
      BY <1>2, AllAreRead
    <2>3. ASSUME NEW f \in Member PROVE read[f] = written[f]
      <3>1. PICK i \in 3 .. Taken : f = Layout[i]
        BY <2>2, <2>3, LayoutIs DEF Member
      <3> QED BY <1>2, <3>1 DEF RInv, Same
    <2>4. [f \in Member |-> read[f]] = [f \in Member |-> written[f]]
      BY <2>3
    <2> QED BY <2>1, <2>2, <2>4, Zenon
  <1>3. RInv => WholeRecordIsRead
    BY <1>1, <1>2 DEF WholeRecordIsRead
  <1> QED BY <1>3, ReaderKeepsItsPlace, PTL

\* Cut anywhere, a record is not accepted; and whatever bytes are accepted hold
\* a counter, a deadline and a status that could have been written.
THEOREM AcceptedIsGenuineEver == Spec => []AcceptedIsGenuine
  <1>1. ASSUME RInv, answer = "accepted" PROVE AcceptedIsGenuine
    <2>1. damage # "cut" /\ DOMAIN read = Member /\ Taken = Strings + 6
      BY <1>1, AllAreRead
    <2>2. DOMAIN written = Member
      <3>1. written = [f \in Member |-> written[f]]
        BY <1>1, DeviceIs DEF RInv, Place
      <3> QED BY <3>1
    <2>3. \A i \in 3 .. Strings + 6 : Kept(i, read[Layout[i]])
      BY <1>1, <2>1 DEF RInv, Place
    <2>4. \A i \in DOMAIN StringField : read[StringField[i]] \in Seq(Byte)
      <3> SUFFICES ASSUME NEW i \in DOMAIN StringField PROVE read[StringField[i]] \in Seq(Byte)
        OBVIOUS
      <3>1. i \in 1 .. Strings /\ Strings \in Nat
        BY LayoutIs, FormatAssumption, SMTT(40) DEF Strings
      <3>2. i + 2 \in 3 .. Strings + 2 /\ i + 2 \in 3 .. Strings + 6 /\ Layout[i + 2] = StringField[i]
        BY <3>1, LayoutIs
      <3> QED BY <2>3, <3>2 DEF Kept
    <2>5. read["lastCounter"] \in Word /\ read["lockDeadlineDay"] \in Day
      <3>1. Strings + 3 \in 3 .. Strings + 6 /\ Strings + 4 \in 3 .. Strings + 6
        BY LayoutIs
      <3>2. Kept(Strings + 3, read["lastCounter"]) /\ Kept(Strings + 4, read["lockDeadlineDay"])
        BY <2>3, <3>1, LastFour
      <3> QED BY <3>2 DEF Kept
    <2>6. read["status"] \in Status /\ read["lastTokenWasGrace"] \in {0, 1}
      BY <1>1 DEF RInv, Place
    <2> QED BY <2>1, <2>2, <2>4, <2>5, <2>6 DEF AcceptedIsGenuine
  <1>2. RInv => AcceptedIsGenuine
    BY <1>1 DEF AcceptedIsGenuine
  <1> QED BY <1>2, ReaderKeepsItsPlace, PTL
-----------------------------------------------------------------------------
(* The walk over the firmware's table.                                     *)

\* Sequences laid end to end are a sequence of what they are made of.
LEMMA FlattenedIs ==
    ASSUME NEW T, NEW seqs \in Seq(Seq(T)) PROVE FlattenSeq(seqs) \in Seq(T)
  <1>1. PICK p \in [0 .. Len(seqs) -> Seq(T)] : FlattenSeq(seqs) = p[Len(seqs)]
    BY Flattened
  <1>2. Len(seqs) \in 0 .. Len(seqs)
    OBVIOUS
  <1> QED BY <1>1, <1>2

\* What the firmware's structures are made of.
LEMMA FirmwareIs ==
    ASSUME NEW f \in Firmware
    PROVE  /\ Len(f) \in Nat /\ DOMAIN f = 1 .. Len(f)
           /\ \A i \in 1 .. Len(f) :
                 /\ f[i].type \in Nat /\ f[i].area \in Seq(Nat)
                 /\ f[i].strings \in Seq(Seq(Nat))
                 /\ \A n \in 1 .. Len(f[i].strings) :
                       /\ Len(f[i].strings[n]) > 0
                       /\ \A x \in 1 .. Len(f[i].strings[n]) : f[i].strings[n][x] # 0
  <1> DEFINE String == Seq(Nat \ {0}) \ {<<>>}
             Structure == [type: Nat, area: Seq(Nat), strings: Seq(String)]
  <1>1. f \in Seq(Structure)
    BY FirmwareAssumption
  <1>2. ASSUME NEW s \in Seq(String)
        PROVE  /\ s \in Seq(Seq(Nat))
               /\ \A n \in 1 .. Len(s) : Len(s[n]) > 0 /\ \A x \in 1 .. Len(s[n]) : s[n][x] # 0
    <2>1. ASSUME NEW t \in String
          PROVE  t \in Seq(Nat) /\ Len(t) > 0 /\ \A x \in 1 .. Len(t) : t[x] # 0
      OBVIOUS
    <2> HIDE DEF String
    <2>2. \A n \in 1 .. Len(s) : s[n] \in String
      OBVIOUS
    <2>3. \A n \in 1 .. Len(s) : s[n] \in Seq(Nat) /\ Len(s[n]) > 0
                                 /\ \A x \in 1 .. Len(s[n]) : s[n][x] # 0
      BY <2>1, <2>2
    <2>4. Len(s) \in Nat /\ s = [n \in 1 .. Len(s) |-> s[n]]
      OBVIOUS
    <2>5. [n \in 1 .. Len(s) |-> s[n]] \in Seq(Seq(Nat))
      BY <2>3, <2>4
    <2> QED BY <2>3, <2>4, <2>5
  <1> HIDE DEF String
  <1>3. \A i \in 1 .. Len(f) : f[i].type \in Nat /\ f[i].area \in Seq(Nat) /\ f[i].strings \in Seq(String)
    <2>1. ASSUME NEW s \in Structure
          PROVE  s.type \in Nat /\ s.area \in Seq(Nat) /\ s.strings \in Seq(String)
      OBVIOUS
    <2> HIDE DEF Structure
    <2>2. \A i \in 1 .. Len(f) : f[i] \in Structure
      BY <1>1
    <2> QED BY <2>1, <2>2
  <1>4. Len(f) \in Nat /\ DOMAIN f = 1 .. Len(f)
    BY <1>1
  <1>5. ASSUME NEW i \in 1 .. Len(f)
        PROVE  /\ f[i].type \in Nat /\ f[i].area \in Seq(Nat)
               /\ f[i].strings \in Seq(Seq(Nat))
               /\ \A n \in 1 .. Len(f[i].strings) :
                       /\ Len(f[i].strings[n]) > 0
                       /\ \A x \in 1 .. Len(f[i].strings[n]) : f[i].strings[n][x] # 0
    BY <1>2, <1>3
  <1> QED BY <1>4, <1>5

\* A structure of numbers is printed as numbers.
LEMMA PrintedIs ==
    ASSUME NEW s, s.type \in Nat, s.area \in Seq(Nat), s.strings \in Seq(Seq(Nat))
    PROVE  Printed(s) \in Seq(Nat)
  <1>1. <<s.type, SHORTEST + Len(s.area), 0, 0>> \in Seq(Nat)
    BY DEF SHORTEST
  <1>2. FlattenSeq([i \in DOMAIN s.strings |-> s.strings[i] \o <<0>>]) \in Seq(Nat)
    <2> DEFINE ended == [i \in DOMAIN s.strings |-> s.strings[i] \o <<0>>]
    <2>1. <<0>> \in Seq(Nat)
      OBVIOUS
    <2>2. ASSUME NEW i \in DOMAIN s.strings PROVE s.strings[i] \o <<0>> \in Seq(Nat)
      <3>1. s.strings[i] \in Seq(Nat)
        OBVIOUS
      <3> QED BY <2>1, <3>1, ConcatProperties
    <2>3. ended \in Seq(Seq(Nat))
      <3>1. Len(s.strings) \in Nat /\ DOMAIN s.strings = 1 .. Len(s.strings)
        OBVIOUS
      <3> QED BY <2>2, <3>1
    <2> HIDE DEF ended
    <2>4. FlattenSeq(ended) \in Seq(Nat)
      BY <2>3, FlattenedIs
    <2> QED BY <2>4 DEF ended
  <1>3. (IF s.strings = <<>> THEN <<0, 0>> ELSE <<0>>) \in Seq(Nat)
    OBVIOUS
  <1>4. ASSUME NEW a \in Seq(Nat), NEW b \in Seq(Nat), NEW c \in Seq(Nat), NEW d \in Seq(Nat)
        PROVE  a \o b \o c \o d \in Seq(Nat)
    BY ConcatProperties
  <1> QED BY <1>1, <1>2, <1>3, <1>4 DEF Printed

\* The firmware's table is made of numbers.
LEMMA TableIs == ASSUME NEW f \in Firmware PROVE Table(f) \in Seq(Nat)
  <1> DEFINE printed == [i \in DOMAIN f |-> Printed(f[i])]
  <1>1. Len(f) \in Nat /\ DOMAIN f = 1 .. Len(f)
    BY FirmwareIs
  <1>2. ASSUME NEW i \in 1 .. Len(f) PROVE Printed(f[i]) \in Seq(Nat)
    BY FirmwareIs, PrintedIs
  <1>3. printed \in Seq(Seq(Nat))
    BY <1>1, <1>2
  <1> HIDE DEF printed
  <1>4. FlattenSeq(printed) \in Seq(Nat)
    BY <1>3, FlattenedIs
  <1> QED BY <1>4 DEF Table, printed

\* The end of the walk lies inside the table and what its header declares.
LEMMA EndIs ==
    ASSUME table \in Seq(Nat), declared \in Nat
    PROVE  End \in Nat /\ End <= declared /\ End <= Len(table)
  <1>1. PICK n \in Nat : n = Len(table)
    OBVIOUS
  <1>2. \E x \in {declared, n} : \A y \in {declared, n} : x <= y
    BY <1>1
  <1> QED BY <1>1, <1>2 DEF End, Min

\* Each cell of the table is a number, and so is what lies behind it.
LEMMA CellIs ==
    ASSUME table \in Seq(Nat), NEW i \in Nat PROVE Cell(i) \in Nat
  BY DEF Cell

\* The later of two positions.
LEMMA LaterOf ==
    ASSUME NEW x \in Nat, NEW y \in Nat
    PROVE  Max({x, y}) \in {x, y} /\ x <= Max({x, y}) /\ y <= Max({x, y})
  <1>1. \E z \in {x, y} : \A w \in {x, y} : z >= w
    OBVIOUS
  <1> QED BY <1>1 DEF Max

\* The search for two zero bytes stops somewhere: at the end, if not before.
LEMMA ScanIs ==
    ASSUME table \in Seq(Nat), declared \in Nat, NEW strings \in Nat
    PROVE  /\ Scan(strings) \in Nat /\ strings <= Scan(strings)
           /\ \/ Scan(strings) + 1 >= End
              \/ Cell(Scan(strings)) = 0 /\ Cell(Scan(strings) + 1) = 0
           /\ \A k \in strings .. Scan(strings) - 1 :
                 k + 1 < End /\ ~(Cell(k) = 0 /\ Cell(k + 1) = 0)
  <1> DEFINE stop == Max({strings, End})
             Stops(j) == ~Scannable(j) \/ (Cell(j) = 0 /\ Cell(j + 1) = 0)
             Good == {j \in strings .. stop : Stops(j)}
  <1>1. End \in Nat /\ stop \in Nat /\ strings <= stop /\ End <= stop
    BY EndIs, LaterOf
  <1> HIDE DEF stop
  <1>2. stop \in Good
    <2>1. stop \in strings .. stop /\ stop + 1 >= End
      BY <1>1
    <2> QED BY <1>1, <2>1 DEF Scannable
  <1>3. PICK j \in Good : \A k \in Good : j <= k
    <2>1. Good \subseteq Nat /\ Good # {}
      <3>1. Good \subseteq strings .. stop
        OBVIOUS
      <3> HIDE DEF Good
      <3> QED BY <1>1, <1>2, <3>1
    <2> HIDE DEF Good
    <2> QED BY <2>1, Least
  <1>4. j \in strings .. stop /\ Stops(j)
    BY <1>3
  <1>5. ASSUME NEW k \in strings .. j - 1
        PROVE  Scannable(k) /\ ~(Cell(k) = 0 /\ Cell(k + 1) = 0)
    <2>1. k \in strings .. stop /\ ~(j <= k) /\ k \in Int
      BY <1>1, <1>4
    <2>2. ~Stops(k)
      BY <1>3, <2>1
    <2> QED BY <1>1, <2>1, <2>2
  <1>6. /\ Scan(strings) \in strings .. stop
        /\ Stops(Scan(strings))
        /\ \A k \in strings .. Scan(strings) - 1 :
              Scannable(k) /\ ~(Cell(k) = 0 /\ Cell(k + 1) = 0)
    BY <1>4, <1>5 DEF Scan, stop
  <1>7. Scan(strings) \in Nat /\ \A k \in Int : Scannable(k) <=> k + 1 < End
    BY <1>1, <1>6 DEF Scannable
  <1> QED BY <1>1, <1>6, <1>7

\* The walk goes over numbers.
TableOK == table \in Seq(Nat) /\ declared \in Nat

\* A string ends before the table does, or with it.
LEMMA StopIs ==
    ASSUME TableOK, NEW c \in Nat, c <= End
    PROVE  /\ Stop(c) \in c .. End /\ (Stop(c) = End \/ Cell(Stop(c)) = 0)
           /\ \A j \in c .. Stop(c) - 1 : Cell(j) # 0
  <1> DEFINE Good == {k \in c .. End : k = End \/ Cell(k) = 0}
  <1>1. End \in Nat
    BY EndIs DEF TableOK
  <1>2. PICK k \in Good : \A j \in Good : k <= j
    <2>1. Good \subseteq Nat /\ Good # {}
      <3>1. Good \subseteq c .. End /\ End \in Good
        BY <1>1
      <3> HIDE DEF Good
      <3> QED BY <1>1, <3>1
    <2> HIDE DEF Good
    <2> QED BY <2>1, Least
  <1>3. k \in c .. End /\ (k = End \/ Cell(k) = 0)
    BY <1>2
  <1>4. ASSUME NEW j \in c .. k - 1 PROVE Cell(j) # 0
    <2>1. j \in c .. End /\ ~(k <= j)
      BY <1>1, <1>3
    <2> QED BY <1>2, <2>1
  <1> QED BY <1>3, <1>4 DEF Stop, Limit

\* There is one such end.
LEMMA StopAt ==
    ASSUME TableOK, NEW c \in Nat, NEW k \in c .. End, k = End \/ Cell(k) = 0,
           \A j \in c .. k - 1 : Cell(j) # 0
    PROVE  Stop(c) = k
  <1>1. End \in Nat /\ c <= End /\ k \in Nat /\ c <= k /\ k <= End
    <2>1. End \in Nat
      BY EndIs DEF TableOK
    <2> QED BY <2>1
  <1>2. PICK r \in c .. End : r = Stop(c)
    BY <1>1, StopIs
  <1>3. (r = End \/ Cell(r) = 0) /\ \A j \in c .. r - 1 : Cell(j) # 0
    BY <1>1, <1>2, StopIs
  <1>4. ~(r < k)
    <2>1. ASSUME r < k PROVE r \in c .. k - 1 /\ r # End
      BY <1>1, <2>1
    <2> QED BY <1>3, <2>1
  <1>5. ~(k < r)
    <2>1. ASSUME k < r PROVE k \in c .. r - 1 /\ k # End
      BY <1>1, <2>1
    <2> QED BY <1>3, <2>1
  <1> QED BY <1>1, <1>2, <1>4, <1>5

\* The cursor of smbiosString stays a place.
LEMMA BehindIs ==
    ASSUME TableOK, NEW c \in Nat PROVE Behind(c) \in Nat
  <1>1. End \in Nat
    BY EndIs DEF TableOK
  <1>2. CASE ListEnds(c)
    BY <1>2 DEF Behind
  <1>3. CASE ~ListEnds(c)
    <2>1. c <= End
      BY <1>1, <1>3 DEF ListEnds
    <2>2. Stop(c) \in c .. End
      BY <2>1, StopIs
    <2>3. Stop(c) + 1 \in Nat
      BY <1>1, <2>2
    <2> QED BY <1>3, <2>3 DEF Behind
  <1> QED BY <1>2, <1>3

\* smbiosString's cursor passes one string after the other.
LEMMA CursorsAre ==
    ASSUME TableOK, NEW strings \in Nat, NEW index \in Nat
    PROVE  \E f \in [0 .. index -> Nat] :
              /\ f[0] = strings
              /\ \A i \in 1 .. index : f[i] = Behind(f[i - 1])
              /\ \A i \in 0 .. index : Cursors(strings, index)[i] = f[i]
  <1> DEFINE h == [i \in 1 .. index |-> [c \in Nat |-> Behind(c)]]
             Def(g) == g = [n \in 0 .. index |-> IF n = 0 THEN strings ELSE Behind(g[n - 1])]
             behind == CHOOSE g : Def(g)
  <1>1. h \in [1 .. index -> [Nat -> Nat]]
    BY BehindIs
  <1>2. \A i \in 1 .. index : \A c \in Nat : h[i][c] = Behind(c)
    OBVIOUS
  <1> HIDE DEF h
  <1>3. PICK f : Solution(f, Nat, index, strings, h)
    BY <1>1, Recursion, Zenon
  <1>4. f \in [0 .. index -> Nat] /\ f[0] = strings
    BY <1>3 DEF Solution, Obeys
  <1>5. \A i \in 1 .. index : i - 1 \in 0 .. index /\ f[i - 1] \in Nat
    <2>1. \A i \in 1 .. index : i - 1 \in 0 .. index
      OBVIOUS
    <2> QED BY <1>4, <2>1
  <1>6. \A i \in 1 .. index : f[i] = Behind(f[i - 1])
    BY <1>2, <1>3, <1>5 DEF Solution, Obeys
  <1>7. Def(f)
    <2>1. \A n \in 0 .. index : f[n] = IF n = 0 THEN strings ELSE Behind(f[n - 1])
      BY <1>4, <1>6
    <2> QED BY <1>4, <2>1
  <1>8. Def(behind)
    BY <1>7
  <1> HIDE DEF behind
  <1>9. Obeys(behind, Nat, index, strings, h)
    <2>1. behind[0] = strings /\ \A i \in 1 .. index : behind[i] = Behind(behind[i - 1])
      BY <1>8
    <2> QED BY <1>2, <2>1 DEF Obeys
  <1>10. \A i \in 0 .. index : behind[i] = f[i]
    BY <1>3, <1>9 DEF Solution
  <1>11. Cursors(strings, index) = behind
    BY Zenon DEF Cursors, behind
  <1> QED BY <1>4, <1>6, <1>10, <1>11, Zenon

\* smbiosString reads a string up to its end, which is not behind the table's.
LEMMA StringReadsInside ==
    ASSUME TableOK, NEW c \in Nat PROVE \A i \in StringReads(c) : i \in 0 .. End - 1
  <1>1. End \in Nat
    BY EndIs DEF TableOK
  <1>2. CASE c >= End
    BY <1>2 DEF StringReads
  <1>3. CASE ~(c >= End)
    <2>1. \A i \in StringReads(c) : i \in c .. Stop(c) /\ i < End
      BY <1>3, Zenon DEF StringReads, Limit
    <2> QED BY <1>1, <2>1
  <1> QED BY <1>2, <1>3

\* However many strings it passes.
LEMMA SearchReadsInside ==
    ASSUME TableOK, NEW strings \in Nat, NEW index \in Nat
    PROVE  \A i \in SmbiosStringReads(strings, index) : i \in 0 .. End - 1
  <1>1. PICK f \in [0 .. index -> Nat] :
            \A n \in 0 .. index : Cursors(strings, index)[n] = f[n]
    BY CursorsAre
  <1>2. ASSUME NEW n \in 0 .. index - 1
        PROVE  \A i \in StringReads(Cursors(strings, index)[n]) : i \in 0 .. End - 1
    <2>1. n \in 0 .. index
      OBVIOUS
    <2>2. Cursors(strings, index)[n] \in Nat
      BY <1>1, <2>1
    <2> QED BY <2>2, StringReadsInside
  <1> QED BY <1>2, Zenon DEF SmbiosStringReads

\* The scan for two zero bytes looks at pairs before the end only.
LEMMA ScanReadsInside ==
    ASSUME TableOK, NEW strings \in Nat
    PROVE  \A i \in ScanReads(strings) : i \in 0 .. End - 1
  <1>1. End \in Nat /\ Scan(strings) \in Nat
    BY EndIs, ScanIs DEF TableOK
  <1>2. ASSUME NEW j \in strings .. Scan(strings), Scannable(j)
        PROVE  j \in 0 .. End - 1 /\ j + 1 \in 0 .. End - 1
    BY <1>1, <1>2 DEF Scannable
  <1> QED BY <1>2, Zenon DEF ScanReads

\* A structure's head is read when there is room for it.
LEMMA HeadReadsInside ==
    ASSUME TableOK, cursor \in Nat PROVE \A i \in HeadReads : i \in 0 .. End - 1
  <1>1. End \in Nat
    BY EndIs DEF TableOK
  <1> QED BY <1>1 DEF HeadReads, SHORTEST

\* The walk has read nothing behind its end.
WInv ==
    /\ TableOK /\ cursor \in Nat
    /\ \A i \in touched : i \in 0 .. End - 1

\* parseSmbios begins at a table of numbers, whole, cut or changed.
LEMMA WalkStarts == ASSUME SmbiosInit PROVE WInv
  <1>1. firmware \in Firmware
    BY DEF SmbiosInit
  <1>2. PICK whole \in Seq(Nat) : whole = Table(firmware)
    BY <1>1, TableIs
  <1>3. table \in Seq(Nat) /\ declared \in Nat
    <2>1. CASE table = whole /\ declared = Len(whole)
      BY <2>1
    <2>2. CASE \E n \in 0 .. Len(whole) - 1 :
                   \/ table = whole /\ declared = n
                   \/ table = SubSeq(whole, 1, n) /\ declared = Len(whole)
      <3>1. PICK n \in 0 .. Len(whole) - 1 :
                   \/ table = whole /\ declared = n
                   \/ table = SubSeq(whole, 1, n) /\ declared = Len(whole)
        BY <2>2
      <3>2. n \in Nat /\ n <= Len(whole) /\ Len(whole) \in Nat
        OBVIOUS
      <3>3. SubSeq(whole, 1, n) \in Seq(Nat)
        BY <3>2, SubSeqProperties
      <3> QED BY <3>1, <3>2, <3>3
    <2>3. CASE /\ declared = Len(whole)
               /\ \E i \in DOMAIN whole, b \in Misprint : table = [whole EXCEPT ![i] = b]
      BY <2>3, FirmwareAssumption
    <2>4. CASE table = <<>> /\ declared = 0
      BY <2>4
    <2> QED BY <1>2, <2>1, <2>2, <2>3, <2>4 DEF SmbiosInit
  <1>4. End \in Nat
    BY <1>3, EndIs
  <1> QED BY <1>3, <1>4 DEF SmbiosInit, WInv, TableOK

\* Whatever the walk reads of a structure lies before its end.
LEMMA WalkKeeps == ASSUME WInv, [SmbiosNext]_smbios PROVE WInv'
  <1> DEFINE strings == cursor + Cell(cursor + 1)
  <1>1. TableOK /\ cursor \in Nat /\ \A i \in touched : i \in 0 .. End - 1
    BY DEF WInv
  <1>2. End \in Nat
    BY <1>1, EndIs DEF TableOK
  <1>3. Cell(cursor + 1) \in Nat
    BY <1>1, CellIs, SMTT(40) DEF TableOK
  <1>4. strings \in Nat /\ Scan(strings) \in Nat
    <2>1. strings \in Nat
      BY <1>1, <1>3
    <2> HIDE DEF strings
    <2> QED BY <1>1, <2>1, ScanIs DEF TableOK
  <1> HIDE DEF strings
  <1>5. CASE EndWalk
    <2>1. UNCHANGED <<table, declared, cursor>> /\ touched' = touched \union HeadReads
      BY <1>5 DEF EndWalk
    <2>2. End' = End /\ TableOK'
      BY <1>1, <2>1 DEF End, TableOK
    <2>3. \A i \in touched' : i \in 0 .. End - 1
      BY <1>1, <2>1, HeadReadsInside
    <2> QED BY <1>1, <2>1, <2>2, <2>3 DEF WInv
  <1>6. CASE SkipStructure
    <2>1. /\ cursor' = Scan(strings) + 2 /\ UNCHANGED <<table, declared>>
          /\ touched' = touched \union HeadReads \union ScanReads(strings)
      BY <1>6 DEF SkipStructure, strings
    <2>2. End' = End /\ TableOK' /\ cursor' \in Nat
      BY <1>1, <1>4, <2>1 DEF End, TableOK
    <2>3. \A i \in touched' : i \in 0 .. End - 1
      BY <1>1, <1>4, <2>1, HeadReadsInside, ScanReadsInside
    <2> QED BY <2>2, <2>3 DEF WInv
  <1>7. CASE TakeStructure
    <2> DEFINE Asked(a) == Cell(cursor + Offset[a])
    <2>1. /\ UNCHANGED <<table, declared, cursor>>
          /\ touched' = touched \union HeadReads \union ScanReads(strings)
                        \union {cursor + Offset[a] : a \in Attribute}
                        \union UNION {SmbiosStringReads(strings, Asked(a)) : a \in Attribute}
      BY <1>7 DEF TakeStructure, strings
    <2>2. End' = End /\ TableOK'
      BY <1>1, <2>1 DEF End, TableOK
    <2>3. \A a \in Attribute : cursor + Offset[a] \in 0 .. End - 1
      <3>1. Cell(cursor + 1) > Offset.serial /\ cursor + Cell(cursor + 1) <= End
        BY <1>7 DEF TakeStructure, IsSystemInformation, HasStructure
      <3>2. Offset.serial = 7 /\ \A a \in Attribute : Offset[a] \in Nat /\ Offset[a] <= 7
        BY DEF Offset, Attribute
      <3> QED BY <1>1, <1>2, <1>3, <3>1, <3>2
    <2>4. \A a \in Attribute : Asked(a) \in Nat
      <3>1. \A i \in 0 .. End - 1 : Cell(i) \in Nat
        BY <1>1, CellIs DEF TableOK
      <3> QED BY <2>3, <3>1
    <2> HIDE DEF Asked
    <2>5. \A a \in Attribute : \A i \in SmbiosStringReads(strings, Asked(a)) : i \in 0 .. End - 1
      BY <1>1, <1>4, <2>4, SearchReadsInside
    <2>6. /\ \A i \in HeadReads : i \in 0 .. End - 1
          /\ \A i \in ScanReads(strings) : i \in 0 .. End - 1
      BY <1>1, <1>4, HeadReadsInside, ScanReadsInside
    <2>7. \A i \in touched' : i \in 0 .. End - 1
      BY <1>1, <2>1, <2>3, <2>5, <2>6, Zenon
    <2> QED BY <1>1, <2>1, <2>2, <2>7 DEF WInv
  <1>8. CASE Fill
    <2>1. UNCHANGED <<table, declared, cursor, touched>>
      BY <1>8 DEF Fill
    <2> QED BY <2>1 DEF WInv, End, TableOK
  <1>9. CASE UNCHANGED smbios
    BY <1>9 DEF WInv, End, TableOK, smbios
  <1> QED BY <1>5, <1>6, <1>7, <1>8, <1>9 DEF SmbiosNext

\* For firmware tables of every size, whole, cut, changed or mislabelled, no
\* byte that parseSmbios or smbiosString looks at - of a head, in the scan for
\* two zero bytes, in the search for a string - lies behind the declared end or
\* the real one.
THEOREM WalkInBoundsEver == SmbiosInit /\ [][SmbiosNext]_smbios => []WalkInBounds
  <1>1. SmbiosInit => WInv
    BY WalkStarts
  <1>2. WInv /\ [SmbiosNext]_smbios => WInv'
    BY WalkKeeps
  <1>3. WInv => WalkInBounds
    <2> SUFFICES ASSUME WInv, NEW i \in touched PROVE i < Len(table) /\ i < declared
      BY DEF WalkInBounds
    <2>1. PICK n \in Nat : n = Len(table)
      BY DEF WInv, TableOK
    <2>2. i \in 0 .. End - 1 /\ End \in Nat /\ End <= declared /\ End <= n /\ declared \in Nat
      BY <2>1, EndIs DEF WInv, TableOK
    <2> QED BY <2>1, <2>2
  <1> QED BY <1>1, <1>2, <1>3, PTL

-----------------------------------------------------------------------------
(* What the walk takes from the firmware's strings.                        *)

\* A sum is no less than what it adds to.
LEMMA SumGrows ==
    ASSUME NEW a \in Nat, NEW b \in Nat, NEW c \in Nat, a <= b PROVE a <= b + c
  OBVIOUS

\* What lies behind another text lies behind its end.
LEMMA Joined ==
    ASSUME NEW T, NEW s \in Seq(T), NEW t \in Seq(T)
    PROVE  /\ s \o t \in Seq(T) /\ Len(s) \in Nat /\ Len(t) \in Nat
           /\ Len(s \o t) = Len(s) + Len(t)
           /\ \A x \in 1 .. Len(s) : (s \o t)[x] = s[x]
           /\ \A x \in 1 .. Len(t) : (s \o t)[Len(s) + x] = t[x]
  <1>1. /\ s \o t \in Seq(T) /\ Len(s \o t) = Len(s) + Len(t)
        /\ \A x \in 1 .. Len(s) + Len(t) :
              (s \o t)[x] = IF x <= Len(s) THEN s[x] ELSE t[x - Len(s)]
    BY ConcatProperties
  <1>2. Len(s) \in Nat /\ Len(t) \in Nat
    OBVIOUS
  <1>3. ASSUME NEW x \in 1 .. Len(t) PROVE (s \o t)[Len(s) + x] = t[x]
    <2>1. /\ Len(s) + x \in 1 .. Len(s) + Len(t) /\ ~(Len(s) + x <= Len(s))
          /\ (Len(s) + x) - Len(s) = x
      BY <1>2
    <2> QED BY <1>1, <2>1
  <1> QED BY <1>1, <1>2, <1>3

\* Where the parts of a text begin that are laid end to end.
Lies(at, seqs) ==
    /\ at \in [0 .. Len(seqs) -> Nat]
    /\ at[0] = 0 /\ at[Len(seqs)] = Len(FlattenSeq(seqs))
    /\ \A i \in 1 .. Len(seqs) :
          /\ at[i] = at[i - 1] + Len(seqs[i]) /\ at[i] <= Len(FlattenSeq(seqs))
          /\ \A x \in 1 .. Len(seqs[i]) : FlattenSeq(seqs)[at[i - 1] + x] = seqs[i][x]

\* What is laid end to end lies somewhere.
LEMMA PartsLie ==
    ASSUME NEW T, NEW seqs \in Seq(Seq(T)) PROVE \E at : Lies(at, seqs)
  <1> DEFINE n == Len(seqs)
             at(p) == [i \in 0 .. n |-> Len(p[i])]
  <1>1. n \in Nat /\ \A i \in 1 .. n : seqs[i] \in Seq(T) /\ Len(seqs[i]) \in Nat
    OBVIOUS
  <1>2. PICK p \in [0 .. n -> Seq(T)] :
              /\ p[0] = <<>>
              /\ \A i \in 1 .. n : p[i] = p[i - 1] \o seqs[i]
              /\ FlattenSeq(seqs) = p[n]
    BY Flattened
  <1> HIDE DEF n
  <1>3. \A i \in 0 .. n : p[i] \in Seq(T) /\ Len(p[i]) \in Nat
    BY <1>2
  <1>4. ASSUME NEW j \in 1 .. n
        PROVE  /\ j - 1 \in 0 .. n /\ j \in 0 .. n
               /\ Len(p[j]) = Len(p[j - 1]) + Len(seqs[j])
               /\ \A x \in 1 .. Len(p[j - 1]) : p[j][x] = p[j - 1][x]
               /\ \A x \in 1 .. Len(seqs[j]) : p[j][Len(p[j - 1]) + x] = seqs[j][x]
    <2>1. j - 1 \in 0 .. n /\ j \in 0 .. n
      BY <1>1
    <2>2. /\ p[j] = p[j - 1] \o seqs[j] /\ p[j - 1] \in Seq(T) /\ seqs[j] \in Seq(T)
      BY <1>1, <1>2, <1>3, <2>1
    <2>3. PICK s \in Seq(T), t \in Seq(T) : s = p[j - 1] /\ t = seqs[j]
      BY <2>2, Zenon
    <2>4. /\ Len(s \o t) = Len(s) + Len(t)
          /\ \A x \in 1 .. Len(s) : (s \o t)[x] = s[x]
          /\ \A x \in 1 .. Len(t) : (s \o t)[Len(s) + x] = t[x]
      BY Joined
    <2>5. p[j] = s \o t
      BY <2>2, <2>3, Zenon
    <2> QED BY <2>1, <2>3, <2>4, <2>5, Zenon
  <1>5. ASSUME NEW i \in 0 .. n
        PROVE  Len(p[i]) <= Len(p[n]) /\ \A x \in 1 .. Len(p[i]) : p[n][x] = p[i][x]
    <2> DEFINE Good == {d \in 0 .. n - i :
                           /\ Len(p[i]) <= Len(p[i + d])
                           /\ \A x \in 1 .. Len(p[i]) : p[i + d][x] = p[i][x]}
    <2>1. n - i \in Nat
      BY <1>1
    <2>2. 0 \in Good
      <3>1. i + 0 = i /\ Len(p[i]) \in Nat
        BY <1>3
      <3> QED BY <2>1, <3>1
    <2>3. ASSUME NEW d \in 1 .. n - i, d - 1 \in Good PROVE d \in Good
      <3>1. PICK j \in 1 .. n : j = i + d /\ j - 1 = i + (d - 1)
        BY <1>1
      <3>2. /\ Len(p[i]) <= Len(p[j - 1])
            /\ \A x \in 1 .. Len(p[i]) : p[j - 1][x] = p[i][x]
        BY <2>3, <3>1
      <3>3. Len(p[i]) \in Nat /\ Len(p[j - 1]) \in Nat /\ Len(seqs[j]) \in Nat
        BY <1>1, <1>3, <1>4
      <3>5. Len(p[j]) = Len(p[j - 1]) + Len(seqs[j])
            /\ \A x \in 1 .. Len(p[j - 1]) : p[j][x] = p[j - 1][x]
        BY <1>4
      <3>6. ASSUME NEW x \in 1 .. Len(p[i]) PROVE p[j][x] = p[i][x]
        <4>1. x \in 1 .. Len(p[j - 1])
          BY <3>2, <3>3
        <4> QED BY <3>2, <3>5, <4>1
      <3>7. Len(p[i]) <= Len(p[j])
        BY <3>2, <3>3, <3>5, SumGrows
      <3>4. /\ Len(p[i]) <= Len(p[j])
            /\ \A x \in 1 .. Len(p[i]) : p[j][x] = p[i][x]
        BY <3>6, <3>7
      <3> QED BY <3>1, <3>4
    <2> HIDE DEF Good
    <2>5. 0 .. n - i \subseteq Good
      BY <2>1, <2>2, <2>3, Climb
    <2>6. n - i \in Good /\ i + (n - i) = n
      BY <1>1, <2>1, <2>5
    <2> QED BY <2>6 DEF Good
  <1>6. n = Len(seqs)
    BY DEF n
  <1>7. at(p) \in [0 .. n -> Nat] /\ \A i \in 0 .. n : at(p)[i] = Len(p[i])
    BY <1>3
  <1>8. at(p)[0] = 0 /\ at(p)[n] = Len(FlattenSeq(seqs))
    BY <1>1, <1>2, <1>7
  <1>9. ASSUME NEW i \in 1 .. n
        PROVE  /\ at(p)[i] = at(p)[i - 1] + Len(seqs[i]) /\ at(p)[i] <= Len(FlattenSeq(seqs))
               /\ \A x \in 1 .. Len(seqs[i]) : FlattenSeq(seqs)[at(p)[i - 1] + x] = seqs[i][x]
    <2>1. i \in 0 .. n /\ i - 1 \in 0 .. n /\ at(p)[i] = Len(p[i]) /\ at(p)[i - 1] = Len(p[i - 1])
      BY <1>4, <1>7
    <2>2. ASSUME NEW x \in 1 .. Len(seqs[i]) PROVE p[n][Len(p[i - 1]) + x] = seqs[i][x]
      <3>1. Len(p[i - 1]) \in Nat /\ Len(seqs[i]) \in Nat /\ Len(p[i]) = Len(p[i - 1]) + Len(seqs[i])
        BY <1>1, <1>3, <1>4, <2>1
      <3>2. Len(p[i - 1]) + x \in 1 .. Len(p[i])
        <4>1. PICK k \in Nat, m \in Nat : k = Len(p[i - 1]) /\ m = Len(seqs[i]) /\ Len(p[i]) = k + m
          BY <3>1
        <4>3. x \in 1 .. m
          BY <4>1, Zenon
        <4>4. k + x \in 1 .. k + m
          BY <4>3
        <4>2. k + x \in 1 .. Len(p[i]) /\ k + x = Len(p[i - 1]) + x
          BY <4>1, <4>4
        <4> QED BY <4>2, Zenon
      <3> QED BY <1>4, <1>5, <2>1, <3>2
    <2>3. Len(p[i]) = Len(p[i - 1]) + Len(seqs[i]) /\ Len(p[i]) <= Len(p[n])
      BY <1>4, <1>5, <2>1
    <2> HIDE DEF at
    <2> QED BY <1>2, <2>1, <2>2, <2>3
  <1> HIDE DEF at
  <1>10. Lies(at(p), seqs)
    BY <1>6, <1>7, <1>8, <1>9 DEF Lies
  <1> QED BY <1>10

\* How a structure is laid out: head, area, each string behind the one before
\* and a zero byte behind each; at[i] is where the i-th string has ended.
Structured(at, s) ==
    LET area == SHORTEST + Len(s.area)
        count == Len(s.strings)
    IN  /\ at \in [0 .. count -> Nat] /\ at[0] = 0
        /\ Printed(s) \in Seq(Nat)
        /\ Printed(s)[1] = s.type /\ Printed(s)[2] = area
        /\ \A x \in 1 .. Len(s.area) : Printed(s)[SHORTEST + x] = s.area[x]
        /\ \A i \in 1 .. count :
              /\ at[i] = at[i - 1] + (Len(s.strings[i]) + 1)
              /\ \A x \in 1 .. Len(s.strings[i]) :
                    Printed(s)[area + (at[i - 1] + x)] = s.strings[i][x]
              /\ Printed(s)[area + at[i]] = 0
        /\ Printed(s)[area + (at[count] + 1)] = 0
        /\ count = 0 => Len(Printed(s)) = area + 2 /\ Printed(s)[area + 2] = 0
        /\ count > 0 => Len(Printed(s)) = area + (at[count] + 1)

\* Each structure of numbers is laid out so.
LEMMA PrintedLies ==
    ASSUME NEW s, s.type \in Nat, s.area \in Seq(Nat), s.strings \in Seq(Seq(Nat))
    PROVE  \E at : Structured(at, s)
  <1> DEFINE m == Len(s.strings)
             head == <<s.type, SHORTEST + Len(s.area), 0, 0>>
             ended == [i \in DOMAIN s.strings |-> s.strings[i] \o <<0>>]
             list == FlattenSeq(ended)
             tail == IF s.strings = <<>> THEN <<0, 0>> ELSE <<0>>
             area == SHORTEST + Len(s.area)
  <1>1. /\ head \in Seq(Nat) /\ Len(head) = 4 /\ head[1] = s.type /\ head[2] = area
    BY DEF SHORTEST
  <1>2. m \in Nat /\ DOMAIN s.strings = 1 .. m /\ (m = 0 <=> s.strings = <<>>)
        /\ \A i \in 1 .. m : s.strings[i] \in Seq(Nat)
    OBVIOUS
  <1>3. <<0>> \in Seq(Nat) /\ Len(<<0>>) = 1 /\ <<0>>[1] = 0
    OBVIOUS
  <1>4. ASSUME NEW t \in Seq(Nat)
        PROVE  /\ t \o <<0>> \in Seq(Nat) /\ Len(t \o <<0>>) = Len(t) + 1 /\ Len(t) \in Nat
               /\ \A x \in 1 .. Len(t) : (t \o <<0>>)[x] = t[x]
               /\ (t \o <<0>>)[Len(t) + 1] = 0
    <2>1. /\ t \o <<0>> \in Seq(Nat) /\ Len(t \o <<0>>) = Len(t) + Len(<<0>>)
          /\ \A x \in 1 .. Len(t) : (t \o <<0>>)[x] = t[x]
          /\ \A x \in 1 .. Len(<<0>>) : (t \o <<0>>)[Len(t) + x] = <<0>>[x]
      BY <1>3, Joined
    <2>2. 1 \in 1 .. 1 /\ Len(t) \in Nat
      OBVIOUS
    <2> QED BY <1>3, <2>1, <2>2
  <1>5. /\ ended \in Seq(Seq(Nat)) /\ Len(ended) = m
        /\ \A i \in 1 .. m : ended[i] = s.strings[i] \o <<0>>
    <2>1. \A i \in 1 .. m : s.strings[i] \o <<0>> \in Seq(Nat)
      BY <1>2, <1>4
    <2>2. ended = [i \in 1 .. m |-> s.strings[i] \o <<0>>]
      BY <1>2
    <2> HIDE DEF ended, m
    <2> QED BY <1>2, <2>1, <2>2, SMTT(40)
  <1>6. tail \in Seq(Nat) /\ tail[1] = 0
        /\ (m = 0 => Len(tail) = 2 /\ tail[2] = 0) /\ (m # 0 => Len(tail) = 1)
    BY <1>2
  <1>7. Printed(s) = head \o s.area \o list \o tail
    BY DEF Printed
  <1>8. list \in Seq(Nat)
    <2> HIDE DEF ended
    <2> QED BY <1>5, FlattenedIs
  <1>9. PICK at : Lies(at, ended)
    <2> HIDE DEF ended
    <2> QED BY <1>5, PartsLie
  <1>10. area \in Nat /\ area = 4 + Len(s.area) /\ Len(s.area) \in Nat /\ SHORTEST = 4
    BY DEF SHORTEST
  <1>11. PICK P \in Seq(Nat) : P = Printed(s)
    BY PrintedIs
  <1>12. Len(list) = at[m] /\ at[0] = 0 /\ at \in [0 .. m -> Nat]
    BY <1>5, <1>9 DEF Lies
  <1> HIDE DEF head, ended, list, tail, area, m
  <1>0. \A a, b \in Seq(Nat) :
           /\ Len(a) \in Nat /\ Len(b) \in Nat /\ Len(a \o b) = Len(a) + Len(b)
           /\ \A x \in 1 .. Len(a) : (a \o b)[x] = a[x]
           /\ \A x \in 1 .. Len(b) : (a \o b)[Len(a) + x] = b[x]
    BY Joined
  <1>13. PICK u \in Seq(Nat) : u = head \o s.area
    BY <1>1, ConcatProperties
  <1>14. PICK v \in Seq(Nat) : v = u \o list
    BY <1>8, ConcatProperties
  <1>15. P = v \o tail
    BY <1>7, <1>11, <1>13, <1>14
  <1>16. /\ Len(u) = area /\ u[1] = s.type /\ u[2] = area
         /\ \A x \in 1 .. Len(s.area) : u[SHORTEST + x] = s.area[x]
    <2>1. /\ Len(u) = Len(head) + Len(s.area)
          /\ \A x \in 1 .. Len(head) : u[x] = head[x]
          /\ \A x \in 1 .. Len(s.area) : u[Len(head) + x] = s.area[x]
      BY <1>0, <1>1, <1>13, ZenonT(40)
    <2> QED BY <1>1, <1>10, <2>1, SMTT(40)
  <1>17. /\ Len(v) = area + at[m] /\ at[m] \in Nat
         /\ \A x \in 1 .. area : v[x] = u[x]
         /\ \A x \in 1 .. at[m] : v[area + x] = list[x]
    <2>1. /\ Len(v) = Len(u) + Len(list)
          /\ \A x \in 1 .. Len(u) : v[x] = u[x]
          /\ \A x \in 1 .. Len(list) : v[Len(u) + x] = list[x]
      BY <1>0, <1>8, <1>14
    <2>2. m \in 0 .. m
      BY <1>2
    <2> QED BY <1>12, <1>16, <2>1, <2>2
  <1>18. /\ Len(P) = (area + at[m]) + Len(tail)
         /\ \A x \in 1 .. area + at[m] : P[x] = v[x]
         /\ \A x \in 1 .. Len(tail) : P[(area + at[m]) + x] = tail[x]
    <2>1. /\ Len(P) = Len(v) + Len(tail)
          /\ \A x \in 1 .. Len(v) : P[x] = v[x]
          /\ \A x \in 1 .. Len(tail) : P[Len(v) + x] = tail[x]
      BY <1>0, <1>6, <1>15
    <2> QED BY <1>17, <2>1, Zenon
  <1>19. \A x \in 1 .. at[m] : P[area + x] = list[x]
    <2>1. ASSUME NEW x \in 1 .. at[m] PROVE area + x \in 1 .. area + at[m]
      BY <1>10, <1>17, SMTT(40)
    <2> QED BY <1>17, <1>18, <2>1
  <1>20. \A x \in 1 .. area : P[x] = u[x]
    <2>1. ASSUME NEW x \in 1 .. area PROVE x \in 1 .. area + at[m]
      BY <1>10, <1>17
    <2> QED BY <1>17, <1>18, <2>1
  <1>21. /\ P[1] = s.type /\ P[2] = area
         /\ \A x \in 1 .. Len(s.area) : P[SHORTEST + x] = s.area[x]
    <2>1. 1 \in 1 .. area /\ 2 \in 1 .. area
      BY <1>10
    <2>2. ASSUME NEW x \in 1 .. Len(s.area) PROVE SHORTEST + x \in 1 .. area
      BY <1>10
    <2> QED BY <1>16, <1>20, <2>1, <2>2
  <1>22. ASSUME NEW i \in 1 .. m
         PROVE  /\ at[i] = at[i - 1] + (Len(s.strings[i]) + 1)
                /\ \A x \in 1 .. Len(s.strings[i]) : P[area + (at[i - 1] + x)] = s.strings[i][x]
                /\ P[area + at[i]] = 0
    <2>1. /\ at[i] = at[i - 1] + Len(ended[i]) /\ at[i] <= Len(list)
          /\ \A x \in 1 .. Len(ended[i]) : list[at[i - 1] + x] = ended[i][x]
      BY <1>5, <1>9 DEF Lies, list
    <2>2. i \in 0 .. m /\ i - 1 \in 0 .. m
      BY <1>2
    <2>3. at[i - 1] \in Nat /\ at[i] \in Nat
      BY <1>12, <2>2
    <2>4. PICK t \in Seq(Nat) : t = s.strings[i]
      BY <1>2
    <2>5. /\ Len(ended[i]) = Len(t) + 1 /\ Len(t) \in Nat
          /\ \A x \in 1 .. Len(t) : ended[i][x] = t[x]
          /\ ended[i][Len(t) + 1] = 0
      <3>1. ended[i] = t \o <<0>>
        BY <1>5, <2>4
      <3> QED BY <1>4, <3>1
    <2>6. ASSUME NEW x \in 1 .. Len(t) + 1 PROVE P[area + (at[i - 1] + x)] = ended[i][x]
      <3>1. at[i - 1] + x \in 1 .. at[m]
        <4>1. PICK k \in Nat, l \in Nat : k = at[i - 1] /\ l = Len(t)
          BY <2>3, <2>5
        <4>2. k + (l + 1) <= at[m]
          BY <1>12, <2>1, <2>5, <4>1
        <4>3. x \in 1 .. l + 1
          BY <4>1
        <4>4. k + x \in 1 .. at[m]
          BY <1>17, <4>2, <4>3, SMTT(40)
        <4> QED BY <4>1, <4>4
      <3>2. list[at[i - 1] + x] = ended[i][x]
        BY <2>1, <2>5
      <3> QED BY <1>19, <3>1, <3>2
    <2>7. Len(t) + 1 \in 1 .. Len(t) + 1 /\ \A x \in 1 .. Len(t) : x \in 1 .. Len(t) + 1
      BY <2>5, SMTT(40)
    <2>8. at[i - 1] + (Len(t) + 1) = at[i]
      BY <2>1, <2>5
    <2>9. P[area + at[i]] = 0
      BY <2>5, <2>6, <2>7, <2>8
    <2>10. \A x \in 1 .. Len(t) : P[area + (at[i - 1] + x)] = t[x]
      BY <2>5, <2>6, <2>7
    <2> QED BY <2>4, <2>8, <2>9, <2>10
  <1>23. P[area + (at[m] + 1)] = 0
    <2>1. 1 \in 1 .. Len(tail)
      BY <1>6
    <2>2. P[(area + at[m]) + 1] = 0
      BY <1>6, <1>18, <2>1
    <2>3. (area + at[m]) + 1 = area + (at[m] + 1)
      <3>1. PICK k \in Nat, l \in Nat : k = area /\ l = at[m]
        BY <1>10, <1>17
      <3>2. (k + l) + 1 = k + (l + 1)
        OBVIOUS
      <3> QED BY <3>1, <3>2
    <2> QED BY <2>2, <2>3
  <1>24. ASSUME m = 0 PROVE Len(P) = area + 2 /\ P[area + 2] = 0
    <2>1. at[m] = 0 /\ Len(tail) = 2 /\ tail[2] = 0 /\ 2 \in 1 .. 2
      BY <1>6, <1>12, <1>24
    <2>2. area + at[m] = area
      BY <1>10, <2>1
    <2> QED BY <1>18, <2>1, <2>2
  <1>25. m > 0 => Len(P) = area + (at[m] + 1)
    <2> SUFFICES ASSUME m > 0 PROVE Len(P) = area + (at[m] + 1)
      OBVIOUS
    <2>1. Len(tail) = 1
      BY <1>2, <1>6
    <2>2. PICK k \in Nat, l \in Nat : k = area /\ l = at[m] /\ Len(P) = (k + l) + 1
      BY <1>10, <1>17, <1>18, <2>1
    <2>3. (k + l) + 1 = k + (l + 1)
      OBVIOUS
    <2> QED BY <2>2, <2>3
  <1> QED
    BY <1>11, <1>12, <1>21, <1>22, <1>23, <1>24, <1>25, Zenon DEF Structured, area, m

\* A structure as firmware makes them.
Proper(s) ==
    /\ s.type \in Nat /\ s.area \in Seq(Nat)
    /\ s.strings \in Seq(Seq(Nat))
    /\ \A n \in 1 .. Len(s.strings) :
          /\ Len(s.strings[n]) > 0
          /\ \A x \in 1 .. Len(s.strings[n]) : s.strings[n][x] # 0

\* Of two bytes behind the area that end before a string's zero, both lie before
\* the string, or one of them is in it.
LEMMA BytesBetween ==
    ASSUME NEW A \in Nat, NEW k \in Nat, NEW l \in Nat, NEW j \in Nat,
           A <= j, j <= (A + (k + (l + 1))) - 2, l > 0
    PROVE  \/ j \in A .. (A + k) - 2
           \/ 1 \in 1 .. l /\ j + 2 = A + (k + 1)
           \/ \E x \in 1 .. l : j + 1 = A + (k + x)
  <1>1. CASE j >= A + k
    <2>1. PICK x \in Nat : x = (j + 1) - (A + k)
      BY <1>1
    <2>2. x \in 1 .. l /\ j + 1 = A + (k + x)
      BY <1>1, <2>1
    <2> QED BY <2>2
  <1> QED BY <1>1

\* Behind the area two zero bytes stand together at the end of the structure,
\* and nowhere before.
LEMMA TwoZerosEnd ==
    ASSUME NEW s, Proper(s)
    PROVE  LET area == SHORTEST + Len(s.area)
               size == Len(Printed(s))
           IN  /\ area \in Nat /\ size \in Nat /\ SHORTEST <= area /\ area + 2 <= size
               /\ Printed(s)[size - 1] = 0 /\ Printed(s)[size] = 0
               /\ \A j \in area .. size - 3 :
                     ~(Printed(s)[j + 1] = 0 /\ Printed(s)[j + 2] = 0)
  <1> DEFINE m == Len(s.strings)
             area == SHORTEST + Len(s.area)
             Str(i) == s.strings[i]
  <1>1. PICK at : Structured(at, s)
    BY PrintedLies DEF Proper
  <1>2. PICK P \in Seq(Nat) : P = Printed(s)
    BY <1>1 DEF Structured
  <1>3. area \in Nat /\ SHORTEST <= area /\ Len(P) \in Nat /\ m \in Nat
    BY DEF Proper, SHORTEST
  <1>4. \A i \in 1 .. m : Len(Str(i)) \in Nat /\ Len(Str(i)) > 0 /\ \A x \in 1 .. Len(Str(i)) : Str(i)[x] # 0
    BY DEF Proper
  <1>5. /\ at \in [0 .. m -> Nat] /\ at[0] = 0
        /\ \A i \in 1 .. m :
              /\ at[i] = at[i - 1] + (Len(Str(i)) + 1)
              /\ \A x \in 1 .. Len(Str(i)) : P[area + (at[i - 1] + x)] = Str(i)[x]
              /\ P[area + at[i]] = 0
        /\ P[area + (at[m] + 1)] = 0
        /\ m = 0 => Len(P) = area + 2 /\ P[area + 2] = 0
        /\ m > 0 => Len(P) = area + (at[m] + 1)
    BY <1>1, <1>2, Zenon DEF Structured
  <1> HIDE DEF m, area, Str
  <1> DEFINE Pair(j) == P[j + 1] = 0 /\ P[j + 2] = 0
             Good == {i \in 0 .. m : \A j \in area .. (area + at[i]) - 2 : ~Pair(j)}
  <1>6. 0 \in Good
    BY <1>3, <1>5
  <1>7. ASSUME NEW i \in 1 .. m, i - 1 \in Good PROVE i \in Good
    <2>1. PICK k \in Nat, l \in Nat : k = at[i - 1] /\ l = Len(Str(i)) /\ l > 0 /\ at[i] = k + (l + 1)
      <3>1. i - 1 \in 0 .. m /\ i \in 0 .. m
        BY <1>3
      <3>2. at[i - 1] \in Nat
        BY <1>5, <3>1
      <3> QED BY <1>4, <1>5, <3>2
    <2>2. \A x \in 1 .. l : P[area + (k + x)] # 0
      <3>1. \A x \in 1 .. Len(Str(i)) : P[area + (at[i - 1] + x)] = Str(i)[x] /\ Str(i)[x] # 0
        BY <1>4, <1>5, Zenon
      <3> QED BY <2>1, <3>1
    <2>3. \A j \in area .. (area + k) - 2 : ~Pair(j)
      BY <1>7, <2>1
    <2>4. ASSUME NEW j \in area .. (area + (k + (l + 1))) - 2 PROVE ~Pair(j)
      <3>0. PICK A \in Nat : A = area
        BY <1>3
      <3>1. j \in Nat /\ A <= j /\ j <= (A + (k + (l + 1))) - 2 /\ l > 0
        BY <2>1, <3>0
      <3>2. \/ j \in A .. (A + k) - 2
            \/ 1 \in 1 .. l /\ j + 2 = A + (k + 1)
            \/ \E x \in 1 .. l : j + 1 = A + (k + x)
        BY <3>1, BytesBetween
      <3> HIDE DEF Pair
      <3>3. CASE j \in A .. (A + k) - 2
        BY <2>3, <3>0, <3>3
      <3>4. CASE 1 \in 1 .. l /\ j + 2 = A + (k + 1)
        BY <2>2, <3>0, <3>4 DEF Pair
      <3>5. CASE \E x \in 1 .. l : j + 1 = A + (k + x)
        BY <2>2, <3>0, <3>5 DEF Pair
      <3> QED BY <3>2, <3>3, <3>4, <3>5
    <2>5. i \in 0 .. m
      BY <1>3
    <2> QED BY <2>1, <2>4, <2>5
  <1>8. \A j \in area .. (area + at[m]) - 2 : ~Pair(j)
    <2> HIDE DEF Good
    <2>1. 0 .. m \subseteq Good
      BY <1>3, <1>6, <1>7, Climb
    <2>2. m \in Good
      BY <1>3, <2>1
    <2> QED BY <2>2 DEF Good
  <1>9. /\ area + 2 <= Len(P) /\ P[Len(P) - 1] = 0 /\ P[Len(P)] = 0
        /\ \A j \in area .. Len(P) - 3 : ~Pair(j)
    <2>1. CASE m = 0
      <3>1. Len(P) = area + 2 /\ at[0] = 0 /\ P[area + (0 + 1)] = 0 /\ P[area + 2] = 0
        BY <1>5, <2>1
      <3>2. Len(P) - 1 = area + (0 + 1) /\ \A j \in area .. Len(P) - 3 : FALSE
        BY <1>3, <3>1
      <3> QED BY <1>3, <3>1, <3>2
    <2>2. CASE m > 0
      <3>0. m \in 0 .. m /\ m \in 1 .. m /\ 1 \in 1 .. m /\ m - 1 \in 0 .. m
        BY <1>3, <2>2
      <3>1. PICK k \in Nat, l \in Nat, q \in Nat :
               k = at[m - 1] /\ l = Len(Str(m)) /\ l > 0 /\ q = at[m] /\ q = k + (l + 1)
        BY <1>4, <1>5, <3>0
      <3>2. q \in Nat /\ q >= 2 /\ Len(P) = area + (q + 1) /\ P[area + q] = 0 /\ P[area + (q + 1)] = 0
        <4>1. P[area + at[m]] = 0
          BY <1>5, <3>0
        <4>2. Len(P) = area + (at[m] + 1) /\ P[area + (at[m] + 1)] = 0
          BY <1>5, <2>2
        <4>3. q >= 2
          BY <3>1
        <4> QED BY <3>1, <4>1, <4>2, <4>3
      <3>3. Len(P) - 1 = area + q /\ Len(P) - 3 = (area + q) - 2 /\ area + 2 <= Len(P)
        BY <1>3, <3>2
      <3> HIDE DEF Pair
      <3> QED BY <1>8, <3>1, <3>2, <3>3
    <2> QED BY <1>3, <2>1, <2>2
  <1> QED BY <1>2, <1>3, <1>9, Zenon DEF area

\* smbiosString passes the strings before the one it wants.
LEMMA SmbiosStringIs ==
    ASSUME TableOK, NEW strings \in Nat, NEW index \in Nat
    PROVE  \E f \in [0 .. index -> Nat] :
              /\ f[0] = strings
              /\ \A i \in 1 .. index : f[i] = Behind(f[i - 1])
              /\ SmbiosString(strings, index) =
                    IF index = 0 \/ ListEnds(f[index - 1]) THEN <<>>
                    ELSE Trim([n \in 1 .. Stop(f[index - 1]) - f[index - 1] |->
                                  Cell(f[index - 1] + n - 1)])
  <1>1. PICK f \in [0 .. index -> Nat] :
              /\ f[0] = strings
              /\ \A i \in 1 .. index : f[i] = Behind(f[i - 1])
              /\ \A i \in 0 .. index : Cursors(strings, index)[i] = f[i]
    BY CursorsAre
  <1>2. index # 0 => index - 1 \in 0 .. index
    OBVIOUS
  <1>3. index # 0 => Cursors(strings, index)[index - 1] = f[index - 1]
    BY <1>1, <1>2
  <1>4. SmbiosString(strings, index) =
            IF index = 0 \/ ListEnds(Cursors(strings, index)[index - 1]) THEN <<>>
            ELSE Trim([n \in 1 .. Stop(Cursors(strings, index)[index - 1])
                                  - Cursors(strings, index)[index - 1] |->
                          Cell(Cursors(strings, index)[index - 1] + n - 1)])
    BY Zenon DEF SmbiosString
  <1>5. SmbiosString(strings, index) =
            IF index = 0 \/ ListEnds(f[index - 1]) THEN <<>>
            ELSE Trim([n \in 1 .. Stop(f[index - 1]) - f[index - 1] |->
                          Cell(f[index - 1] + n - 1)])
    <2>1. CASE index = 0
      BY <1>4, <2>1
    <2>2. CASE index # 0
      BY <1>3, <1>4, <2>2, Zenon
    <2> QED BY <2>1, <2>2
  <1> QED BY <1>1, <1>5

\* As much of a string as fits before the end.
Fits(c, e, l) == IF c + l <= e THEN l ELSE e - c

\* It is no more than there is and no more than fits.
LEMMA FitsIs ==
    ASSUME NEW c \in Nat, NEW e \in Nat, NEW l \in Nat, c < e, l > 0
    PROVE  LET n == Fits(c, e, l)
           IN  /\ n \in Nat /\ n \in 0 .. l /\ n > 0
               /\ c + n <= e /\ c + n >= c /\ (c + l <= e => n = l)
               /\ c + n = e \/ (n = l /\ c + l < e)
  BY DEF Fits

\* Where a string of a structure lies, in the structure and in the table.
LEMMA Places ==
    ASSUME NEW b \in Nat, NEW A \in Nat, NEW k \in Nat, NEW l \in Nat, NEW N \in Nat,
           NEW e \in Nat, A + ((k + (l + 1)) + 1) <= N
    PROVE  /\ \A x \in 1 .. l + 1 :
                 A + (k + x) \in 1 .. N /\ b + (A + (k + x)) = (b + (A + k)) + x
           /\ b + N <= e => (b + (A + k)) + l <= e
           /\ (b + A) + k = b + (A + k)
           /\ (b + A) + (k + (l + 1)) = (b + (A + k)) + (l + 1)
  OBVIOUS

\* A string and its zero byte lie at c, as far as the table goes.
LiesHere(c, t) ==
    /\ \A x \in 1 .. Len(t) : t[x] # 0 /\ (c + x <= End => Cell(c + x - 1) = t[x])
    /\ c + Len(t) < End => Cell(c + Len(t)) = 0

IsTaken(c, t) ==
    /\ ~ListEnds(c)
    /\ \/ Behind(c) = c + (Len(t) + 1)
       \/ Behind(c) >= End /\ c + (Len(t) + 1) >= End
    /\ \E n \in 0 .. Len(t) :
          /\ [x \in 1 .. Stop(c) - c |-> Cell(c + x - 1)] = SubSeq(t, 1, n)
          /\ c + Len(t) <= End => n = Len(t)

\* From a place inside the table smbiosString takes the string that lies there,
\* or what of it is in the table, and goes to the place behind its zero byte.
LEMMA OneString ==
    ASSUME TableOK, NEW c \in Nat, c < End, NEW t \in Seq(Nat), Len(t) > 0, LiesHere(c, t)
    PROVE  IsTaken(c, t)
  <1>1. PICK e \in Nat, l \in Nat : e = End /\ l = Len(t) /\ l > 0 /\ c < e
    <2>1. End \in Nat
      BY EndIs DEF TableOK
    <2> QED BY <2>1
  <1>2. PICK n : n = Fits(c, e, l)
    OBVIOUS
  <1>3. /\ n \in 0 .. l /\ n > 0 /\ c + n <= e /\ c + n >= c /\ (c + l <= e => n = l)
        /\ c + n = e \/ (n = l /\ c + l < e)
    BY <1>1, <1>2, FitsIs, ZenonT(40)
  <1>4. \A x \in 1 .. n : Cell(c + x - 1) = t[x] /\ t[x] # 0
    <2>1. \A x \in 1 .. n : x \in 1 .. l /\ c + x <= e
      BY <1>1, <1>3
    <2> QED BY <1>1, <2>1 DEF LiesHere
  <1>5. \A j \in c .. (c + n) - 1 : Cell(j) # 0
    <2>1. ASSUME NEW j \in c .. (c + n) - 1 PROVE Cell(j) # 0
      <3>1. PICK x \in Nat : x = (j + 1) - c
        OBVIOUS
      <3>2. x \in 1 .. n /\ c + x - 1 = j
        BY <1>3, <3>1
      <3>3. Cell(c + x - 1) # 0
        BY <1>4, <3>2
      <3> QED BY <3>2, <3>3
    <2> QED BY <2>1
  <1>6. c + n \in c .. End /\ (c + n = End \/ Cell(c + n) = 0)
    BY <1>1, <1>3 DEF LiesHere
  <1>7. Stop(c) = c + n
    BY <1>5, <1>6, StopAt
  <1>8. ~ListEnds(c)
    <2>1. c \in c .. (c + n) - 1
      BY <1>3
    <2>2. Cell(c) # 0
      BY <1>5, <2>1
    <2> QED BY <1>1, <2>2 DEF ListEnds
  <1>9. Behind(c) = (c + n) + 1
    BY <1>7, <1>8 DEF Behind
  <1>10. \/ Behind(c) = c + (l + 1)
         \/ Behind(c) >= e /\ c + (l + 1) >= e
    BY <1>1, <1>2, <1>3, <1>9
  <1>11. [x \in 1 .. Stop(c) - c |-> Cell(c + x - 1)] = SubSeq(t, 1, n)
    <2>1. Stop(c) - c = n
      BY <1>3, <1>7
    <2>2. SubSeq(t, 1, n) = [x \in 1 .. n |-> t[x]]
      BY <1>1, <1>3
    <2>3. [x \in 1 .. n |-> Cell(c + x - 1)] = [x \in 1 .. n |-> t[x]]
      BY <1>4
    <2> QED BY <2>1, <2>2, <2>3, Zenon
  <1> QED BY <1>1, <1>3, <1>8, <1>10, <1>11 DEF IsTaken

\* What the table holds from a place on, as far as it goes.
Holds(b, s) == \A x \in 1 .. Len(Printed(s)) : b + x <= End => Cell(b + x - 1) = Printed(s)[x]

\* smbiosString gives a string of the structure whose list it is given, or what of
\* it is in the table, and nothing for a number the list does not have.
LEMMA StringIs ==
    ASSUME TableOK, NEW s, Proper(s), NEW b \in Nat, Holds(b, s), NEW index \in Nat
    PROVE  LET got == SmbiosString(b + (SHORTEST + Len(s.area)), index)
           IN  IF index \in 1 .. Len(s.strings)
               THEN \E n \in 0 .. Len(s.strings[index]) :
                       /\ got = Trim(SubSeq(s.strings[index], 1, n))
                       /\ b + Len(Printed(s)) <= End => n = Len(s.strings[index])
               ELSE got = <<>>
  <1> DEFINE m == Len(s.strings)
             area == SHORTEST + Len(s.area)
             Str(i) == s.strings[i]
             first == b + area
  <1>1. PICK at : Structured(at, s)
    BY PrintedLies DEF Proper
  <1>2. PICK P \in Seq(Nat) : P = Printed(s)
    BY <1>1 DEF Structured
  <1>3. area \in Nat /\ Len(P) \in Nat /\ m \in Nat /\ End \in Nat
    BY EndIs DEF Proper, SHORTEST, TableOK
  <1>4. \A i \in 1 .. m : Str(i) \in Seq(Nat) /\ Len(Str(i)) \in Nat /\ Len(Str(i)) > 0
                          /\ \A x \in 1 .. Len(Str(i)) : Str(i)[x] # 0
    BY DEF Proper
  <1>5. /\ at \in [0 .. m -> Nat] /\ at[0] = 0
        /\ \A i \in 1 .. m :
              /\ at[i] = at[i - 1] + (Len(Str(i)) + 1)
              /\ \A x \in 1 .. Len(Str(i)) : P[area + (at[i - 1] + x)] = Str(i)[x]
              /\ P[area + at[i]] = 0
        /\ P[area + (at[m] + 1)] = 0
        /\ m = 0 => Len(P) = area + 2 /\ P[area + 2] = 0
        /\ m > 0 => Len(P) = area + (at[m] + 1)
    BY <1>1, <1>2, Zenon DEF Structured
  <1>6. PICK f \in [0 .. index -> Nat] :
              /\ f[0] = first
              /\ \A i \in 1 .. index : f[i] = Behind(f[i - 1])
              /\ SmbiosString(first, index) =
                    IF index = 0 \/ ListEnds(f[index - 1]) THEN <<>>
                    ELSE Trim([n \in 1 .. Stop(f[index - 1]) - f[index - 1] |->
                                  Cell(f[index - 1] + n - 1)])
    <2>1. first \in Nat
      BY <1>3
    <2> HIDE DEF first
    <2> QED BY <2>1, SmbiosStringIs
  <1> HIDE DEF m, area, Str
  <1>7. \A x \in 1 .. Len(P) : b + x <= End => Cell(b + x - 1) = P[x]
    BY <1>2 DEF Holds
  <1>8. \A i \in 0 .. m : at[i] \in Nat /\ area + (at[i] + 1) <= Len(P)
    <2>1. m \in 0 .. m
      BY <1>3
    <2>2. area + (at[m] + 1) <= Len(P)
      <3>1. CASE m = 0
        <4>1. at[m] = 0 /\ Len(P) = area + 2
          BY <1>5, <3>1
        <4> QED BY <1>3, <4>1
      <3>2. CASE m > 0
        <4>1. Len(P) = area + (at[m] + 1)
          BY <1>5, <3>2
        <4>2. at[m] \in Nat
          BY <1>5, <2>1
        <4> QED BY <1>3, <4>1, <4>2
      <3> QED BY <1>3, <3>1, <3>2
    <2>3. \A i \in 0 .. m : at[i] \in Nat
      BY <1>5
    <2> DEFINE Good == {d \in 0 .. m : at[m - d] <= at[m]}
    <2>4. 0 \in Good
      <3>1. m - 0 = m /\ 0 \in 0 .. m /\ at[m] \in Nat
        BY <1>3, <2>1, <2>3
      <3> QED BY <3>1
    <2>5. ASSUME NEW d \in 1 .. m, d - 1 \in Good PROVE d \in Good
      <3>1. PICK i \in 1 .. m : i = m - (d - 1) /\ i - 1 = m - d
        BY <1>3
      <3>2. i - 1 \in 0 .. m /\ i \in 0 .. m /\ d \in 0 .. m
        BY <1>3
      <3>3. PICK k \in Nat, l \in Nat : k = at[i - 1] /\ l = Len(Str(i)) /\ at[i] = k + (l + 1)
        BY <1>4, <1>5, <2>3, <3>2
      <3>4. at[i] <= at[m] /\ at[m] \in Nat
        BY <2>1, <2>3, <2>5, <3>1
      <3>5. k <= at[m]
        BY <3>3, <3>4, SMTT(40)
      <3> QED BY <3>1, <3>2, <3>3, <3>5
    <2>6. 0 .. m \subseteq Good
      <3> HIDE DEF Good
      <3> QED BY <1>3, <2>4, <2>5, Climb
    <2>7. ASSUME NEW i \in 0 .. m PROVE area + (at[i] + 1) <= Len(P)
      <3>1. m - i \in 0 .. m /\ m - (m - i) = i
        BY <1>3
      <3>2. m - i \in Good
        BY <2>6, <3>1
      <3>3. at[i] <= at[m] /\ at[i] \in Nat /\ at[m] \in Nat
        BY <2>1, <2>3, <3>1, <3>2
      <3>4. PICK A \in Nat, y \in Nat, z \in Nat : A = area /\ y = at[i] /\ z = at[m]
        BY <1>3, <3>3
      <3>5. A + (z + 1) <= Len(P) /\ y <= z /\ Len(P) \in Nat
        BY <1>3, <2>2, <3>3, <3>4
      <3>6. A + (y + 1) <= Len(P)
        BY <3>5
      <3> QED BY <3>4, <3>6, Zenon
    <2> QED BY <2>3, <2>7
  <1>9. ASSUME NEW i \in 1 .. m, first + at[i - 1] < End
        PROVE  /\ ~ListEnds(first + at[i - 1])
               /\ \/ Behind(first + at[i - 1]) = first + at[i]
                  \/ Behind(first + at[i - 1]) >= End /\ first + at[i] >= End
               /\ \E n \in 0 .. Len(Str(i)) :
                     /\ [x \in 1 .. Stop(first + at[i - 1]) - (first + at[i - 1]) |->
                            Cell((first + at[i - 1]) + x - 1)] = SubSeq(Str(i), 1, n)
                     /\ b + Len(P) <= End => n = Len(Str(i))
    <2>1. i - 1 \in 0 .. m /\ i \in 0 .. m
      BY <1>3
    <2>2. PICK t \in Seq(Nat), l \in Nat : t = Str(i) /\ l = Len(t) /\ l > 0
      BY <1>4
    <2>3. PICK k \in Nat, A \in Nat, N \in Nat, e \in Nat :
             k = at[i - 1] /\ A = area /\ N = Len(P) /\ e = End
      BY <1>3, <1>8, <2>1
    <2>4. at[i] = k + (l + 1)
      BY <1>5, <2>2, <2>3
    <2>5. A + ((k + (l + 1)) + 1) <= N
      BY <1>8, <2>1, <2>3, <2>4
    <2>6. /\ \A x \in 1 .. l + 1 :
                A + (k + x) \in 1 .. N /\ b + (A + (k + x)) = (b + (A + k)) + x
          /\ b + N <= e => (b + (A + k)) + l <= e
          /\ (b + A) + k = b + (A + k)
          /\ (b + A) + (k + (l + 1)) = (b + (A + k)) + (l + 1)
      BY <2>5, Places
    <2>7. PICK c \in Nat : c = b + (A + k)
      OBVIOUS
    <2>8. first + at[i - 1] = c /\ first + at[i] = c + (l + 1) /\ c < e
      BY <1>9, <2>3, <2>4, <2>6, <2>7
    <2>9. ASSUME NEW x \in 1 .. l + 1, c + x <= e PROVE Cell(c + x - 1) = P[A + (k + x)]
      <3>1. A + (k + x) \in 1 .. Len(P) /\ b + (A + (k + x)) = c + x
        BY <2>3, <2>6, <2>7
      <3>2. PICK y \in 1 .. Len(P) : y = A + (k + x) /\ b + y = c + x
        BY <3>1
      <3>3. Cell(b + y - 1) = P[y]
        BY <1>7, <2>3, <2>9, <3>2
      <3>4. b + y - 1 = c + x - 1 /\ P[y] = P[A + (k + x)]
        BY <3>2
      <3> QED BY <3>3, <3>4, Zenon
    <2>10. ASSUME NEW x \in 1 .. l
           PROVE  t[x] # 0 /\ (c + x <= e => Cell(c + x - 1) = t[x])
      <3>1. x \in 1 .. l + 1 /\ P[A + (k + x)] = t[x] /\ t[x] # 0
        <4>1. x \in 1 .. l + 1
          OBVIOUS
        <4>2. x \in 1 .. Len(Str(i))
          BY <2>2
        <4>3. P[area + (at[i - 1] + x)] = Str(i)[x] /\ Str(i)[x] # 0
          BY <1>4, <1>5, <4>2, Zenon
        <4> QED BY <2>2, <2>3, <4>1, <4>3
      <3> QED BY <2>9, <3>1
    <2>11. c + l < e => Cell(c + l) = 0
      <3>1. l + 1 \in 1 .. l + 1 /\ c + (l + 1) - 1 = c + l /\ (c + l < e => c + (l + 1) <= e)
        BY <2>3
      <3>2. P[A + (k + (l + 1))] = 0
        BY <1>5, <2>3, <2>4
      <3>3. ASSUME c + l < e PROVE Cell(c + l) = 0
        <4>1. Cell(c + (l + 1) - 1) = 0
          BY <2>9, <3>1, <3>2, <3>3
        <4> QED BY <3>1, <4>1
      <3> QED BY <3>3
    <2>12. /\ ~ListEnds(c)
           /\ \/ Behind(c) = c + (Len(t) + 1)
              \/ Behind(c) >= End /\ c + (Len(t) + 1) >= End
           /\ \E n \in 0 .. Len(t) :
                 /\ [x \in 1 .. Stop(c) - c |-> Cell(c + x - 1)] = SubSeq(t, 1, n)
                 /\ c + Len(t) <= End => n = Len(t)
      <3>1. c < End /\ Len(t) > 0
        BY <2>2, <2>3, <2>8
      <3>2. LiesHere(c, t)
        BY <2>2, <2>3, <2>10, <2>11 DEF LiesHere
      <3>3. IsTaken(c, t)
        BY <3>1, <3>2, OneString
      <3> QED BY <3>3 DEF IsTaken
    <2>13. b + Len(P) <= End => c + Len(t) <= End
      BY <2>2, <2>3, <2>6, <2>7
    <2>14. /\ ~ListEnds(c)
           /\ \/ Behind(c) = c + (l + 1)
              \/ Behind(c) >= End /\ c + (l + 1) >= End
           /\ \E n \in 0 .. Len(t) :
                 /\ [x \in 1 .. Stop(c) - c |-> Cell(c + x - 1)] = SubSeq(t, 1, n)
                 /\ b + Len(P) <= End => n = Len(t)
      BY <2>2, <2>12, <2>13, Zenon
    <2> QED BY <2>2, <2>8, <2>14, Zenon
  <1>10. ListEnds(first + at[m])
    <2>1. m \in 0 .. m
      BY <1>3
    <2>2. PICK k \in Nat : k = at[m] /\ area + (k + 1) <= Len(P)
      BY <1>8, <2>1
    <2>3. CASE first + k < End
      <3>0. PICK A \in Nat, N \in Nat, e \in Nat : A = area /\ N = Len(P) /\ e = End
        BY <1>3
      <3>1. PICK y \in 1 .. N : y = A + (k + 1) /\ b + y <= e /\ b + y - 1 = (b + A) + k
        BY <2>2, <2>3, <3>0
      <3>2. Cell(first + k) = P[area + (k + 1)]
        BY <1>7, <3>0, <3>1
      <3> QED BY <1>5, <2>2, <3>2 DEF ListEnds
    <2>4. CASE ~(first + k < End)
      BY <1>3, <2>2, <2>4 DEF ListEnds
    <2> QED BY <2>2, <2>3, <2>4
  <1> HIDE DEF first
  <1>11. first \in Nat
    BY <1>3 DEF first
  <1> DEFINE Passed(i) == IF i <= m
                          THEN f[i] = first + at[i] \/ (f[i] >= End /\ first + at[i] >= End)
                          ELSE ListEnds(f[i])
             Good == {i \in 0 .. index : Passed(i)}
  <1>12. 0 \in Good
    <2>1. f[0] = first + at[0]
      BY <1>5, <1>6, <1>11
    <2> QED BY <1>3, <2>1
  <1>13. ASSUME NEW i \in 1 .. index, i - 1 \in Good PROVE i \in Good
    <2>0. f[i] = Behind(f[i - 1]) /\ i - 1 \in 0 .. index /\ i \in 0 .. index
          /\ f[i - 1] \in Nat
      <3>1. i - 1 \in 0 .. index /\ i \in 0 .. index
        OBVIOUS
      <3> QED BY <1>6, <3>1
    <2>1. CASE ListEnds(f[i - 1])
      <3>1. f[i] = f[i - 1]
        BY <2>0, <2>1 DEF Behind
      <3>2. CASE i > m
        BY <1>3, <2>0, <2>1, <3>1, <3>2
      <3>3. CASE i <= m
        <4>1. i \in 1 .. m /\ i - 1 <= m /\ i \in 0 .. m /\ i - 1 \in 0 .. m
          BY <3>3
        <4>2. f[i - 1] = first + at[i - 1] \/ (f[i - 1] >= End /\ first + at[i - 1] >= End)
          BY <1>13, <4>1
        <4>3. f[i - 1] >= End /\ first + at[i - 1] >= End
          <5>1. CASE first + at[i - 1] < End
            BY <1>9, <2>1, <4>1, <4>2, <5>1
          <5>2. CASE ~(first + at[i - 1] < End)
            <6>1. at[i - 1] \in Nat
              BY <1>8, <4>1
            <6>2. PICK a \in Nat, y \in Nat, e \in Nat : a = first /\ y = at[i - 1] /\ e = End
              BY <1>3, <1>11, <6>1, Zenon
            <6>3. ~(a + y < e)
              BY <5>2, <6>2, Zenon
            <6>4. a + y >= e
              BY <6>3
            <6>5. first + at[i - 1] >= End
              BY <6>2, <6>4, Zenon
            <6> QED BY <4>2, <6>5
          <5> QED BY <5>1, <5>2
        <4>4. at[i] >= at[i - 1] /\ at[i - 1] \in Nat /\ at[i] \in Nat
          BY <1>4, <1>5, <1>8, <4>1
        <4>5. first + at[i] >= End
          BY <1>3, <1>11, <4>3, <4>4, SMTT(40)
        <4> QED BY <2>0, <3>1, <3>3, <4>3, <4>5
      <3> QED BY <1>3, <3>2, <3>3
    <2>2. CASE ~ListEnds(f[i - 1])
      <3>1. i - 1 <= m
        BY <1>13, <2>2
      <3>2. f[i - 1] = first + at[i - 1] \/ (f[i - 1] >= End /\ first + at[i - 1] >= End)
        BY <1>13, <3>1
      <3>3. ~(f[i - 1] >= End)
        BY <2>2 DEF ListEnds
      <3>4. f[i - 1] = first + at[i - 1] /\ first + at[i - 1] < End
        BY <1>3, <2>0, <3>2, <3>3
      <3>5. i - 1 # m
        BY <1>10, <2>2, <3>4
      <3>6. i \in 1 .. m /\ i <= m
        BY <1>3, <3>1, <3>5
      <3>7. f[i] = first + at[i] \/ (f[i] >= End /\ first + at[i] >= End)
        BY <1>9, <2>0, <3>4, <3>6
      <3> QED BY <2>0, <3>6, <3>7
    <2> QED BY <2>1, <2>2
  <1>14. \A i \in 0 .. index : Passed(i)
    <2> HIDE DEF Good
    <2>1. 0 .. index \subseteq Good
      BY <1>12, <1>13, Climb
    <2> HIDE DEF Passed
    <2> QED BY <2>1 DEF Good
  <1>15. CASE index = 0
    <2>1. SmbiosString(first, index) = <<>> /\ ~(index \in 1 .. m)
      BY <1>6, <1>15
    <2> QED BY <2>1 DEF first, area, m
  <1>16. CASE index > m
    <2>1. index # 0 /\ index - 1 \in 0 .. index /\ ~(index \in 1 .. m) /\ index - 1 >= m
      BY <1>3, <1>16
    <2>2. ListEnds(f[index - 1])
      <3>1. CASE index - 1 = m
        <4>1. f[m] = first + at[m] \/ f[m] >= End
          BY <1>3, <1>14, <2>1, <3>1
        <4> QED BY <1>10, <3>1, <4>1 DEF ListEnds
      <3>2. CASE index - 1 # m
        <4>1. ~(index - 1 <= m)
          BY <1>3, <2>1, <3>2
        <4> QED BY <1>14, <2>1, <4>1
      <3> QED BY <3>1, <3>2
    <2>3. SmbiosString(first, index) = <<>>
      BY <1>6, <2>2
    <2> QED BY <2>1, <2>3 DEF first, area, m
  <1>17. CASE index \in 1 .. m
    <2>1. index # 0 /\ index - 1 \in 0 .. index /\ index - 1 \in 0 .. m /\ index - 1 <= m
      BY <1>3, <1>17
    <2>2. f[index - 1] = first + at[index - 1] \/ (f[index - 1] >= End /\ first + at[index - 1] >= End)
      BY <1>14, <2>1
    <2>3. CASE first + at[index - 1] < End
      <3>1. f[index - 1] = first + at[index - 1]
        BY <1>3, <1>8, <1>11, <2>1, <2>2, <2>3
      <3>2. PICK n \in 0 .. Len(Str(index)) :
               /\ [x \in 1 .. Stop(f[index - 1]) - f[index - 1] |->
                      Cell(f[index - 1] + x - 1)] = SubSeq(Str(index), 1, n)
               /\ b + Len(P) <= End => n = Len(Str(index))
        BY <1>9, <1>17, <2>3, <3>1
      <3>3. ~ListEnds(f[index - 1])
        BY <1>9, <1>17, <2>3, <3>1
      <3>4. SmbiosString(first, index) = Trim(SubSeq(Str(index), 1, n))
        BY <1>6, <2>1, <3>2, <3>3, Zenon
      <3> QED BY <1>2, <1>17, <3>2, <3>4, Zenon DEF first, area, m, Str
    <2>4. CASE ~(first + at[index - 1] < End)
      <3>1. f[index - 1] >= End /\ first + at[index - 1] >= End
        <4>1. PICK k \in Nat, e \in Nat : k = at[index - 1] /\ e = End
          BY <1>3, <1>8, <2>1
        <4>2. first + k >= e
          BY <1>11, <2>4, <4>1
        <4> QED BY <2>2, <4>1, <4>2
      <3>2. SmbiosString(first, index) = <<>>
        BY <1>6, <3>1 DEF ListEnds
      <3>3. SubSeq(Str(index), 1, 0) = <<>> /\ 0 \in 0 .. Len(Str(index))
        BY <1>4, <1>17
      <3>4. Trim(<<>>) = <<>>
        BY DEF Trim
      <3>5. ~(b + Len(P) <= End)
        <4>1. PICK k \in Nat : k = at[index - 1] /\ area + (k + 1) <= Len(P)
          BY <1>8, <2>1
        <4>2. PICK A \in Nat, N \in Nat, e \in Nat : A = area /\ N = Len(P) /\ e = End
          BY <1>3
        <4>3. (b + A) + k >= e /\ A + (k + 1) <= N
          BY <3>1, <4>1, <4>2 DEF first
        <4>4. ~(b + N <= e)
          BY <4>3
        <4> QED BY <4>2, <4>4
      <3> QED BY <1>2, <1>17, <3>2, <3>3, <3>4, <3>5, Zenon DEF first, area, m, Str
    <2> QED BY <2>3, <2>4
  <1> QED BY <1>3, <1>15, <1>16, <1>17

\* The printed structures of a table.
Prints == [i \in DOMAIN firmware |-> Printed(firmware[i])]

\* They are what the table is made of.
LEMMA PrintsAre ==
    ASSUME firmware \in Firmware
    PROVE  /\ Prints \in Seq(Seq(Nat)) /\ Len(Prints) = Len(firmware) /\ Len(firmware) \in Nat
           /\ \A i \in 1 .. Len(firmware) : Proper(firmware[i]) /\ Prints[i] = Printed(firmware[i])
           /\ Table(firmware) = FlattenSeq(Prints)
  <1>1. /\ Len(firmware) \in Nat /\ DOMAIN firmware = 1 .. Len(firmware)
        /\ \A i \in 1 .. Len(firmware) : Proper(firmware[i])
    BY FirmwareIs DEF Proper
  <1>2. ASSUME NEW s, Proper(s) PROVE Printed(s) \in Seq(Nat)
    BY <1>2, PrintedIs DEF Proper
  <1>3. \A i \in 1 .. Len(firmware) : Printed(firmware[i]) \in Seq(Nat)
    BY <1>1, <1>2
  <1>4. Prints = [i \in 1 .. Len(firmware) |-> Printed(firmware[i])]
    BY <1>1 DEF Prints
  <1>5. Prints \in Seq(Seq(Nat)) /\ Len(Prints) = Len(firmware)
    BY <1>1, <1>3, <1>4
  <1>6. \A i \in 1 .. Len(firmware) : Prints[i] = Printed(firmware[i])
    BY <1>4
  <1> QED BY <1>1, <1>5, <1>6 DEF Table, Prints

\* What the walk is over: the firmware's bytes, as far as the table goes.
CopyOK ==
    /\ firmware \in Firmware /\ TableOK
    /\ harm \in {"none", "cut", "changed", "unreadable"}
    /\ harm \in {"none", "cut"} =>
          /\ harm = "none" => End = Len(Table(firmware))
          /\ End <= Len(Table(firmware))
          /\ \A x \in 1 .. Len(Table(firmware)) : x <= End => Cell(x - 1) = Table(firmware)[x]

\* The cursor stands at the k-th structure's end, or has left a table that was cut.
Stands(at, k) == cursor = at[k] \/ (harm = "cut" /\ cursor >= End)

NoneFull(k) == \A i \in 1 .. k : ~IsFull(firmware[i])

\* The structure the cursor stands at lies in the table as it was printed.
LEMMA HeldHere ==
    ASSUME CopyOK, harm \in {"none", "cut"}, NEW at, Lies(at, Prints),
           NEW k \in 1 .. Len(firmware)
    PROVE  /\ at[k - 1] \in Nat /\ at[k] \in Nat
           /\ at[k] = at[k - 1] + Len(Printed(firmware[k]))
           /\ at[k] <= Len(Table(firmware))
           /\ Holds(at[k - 1], firmware[k])
  <1>1. /\ Len(firmware) \in Nat /\ Len(Prints) = Len(firmware)
        /\ Prints[k] = Printed(firmware[k]) /\ Table(firmware) = FlattenSeq(Prints)
    BY PrintsAre DEF CopyOK
  <1>2. PICK P \in Seq(Nat), W \in Seq(Nat) : P = Printed(firmware[k]) /\ W = Table(firmware)
    <2>1. Proper(firmware[k])
      BY PrintsAre DEF CopyOK
    <2> QED BY <2>1, PrintedIs, TableIs DEF Proper, CopyOK
  <1>3. k \in 0 .. Len(firmware) /\ k - 1 \in 0 .. Len(firmware)
    BY <1>1
  <1>4. at[k - 1] \in Nat /\ at[k] \in Nat
    BY <1>1, <1>3 DEF Lies
  <1>5. /\ at[k] = at[k - 1] + Len(P) /\ at[k] <= Len(W)
        /\ \A x \in 1 .. Len(P) : W[at[k - 1] + x] = P[x]
    BY <1>1, <1>2 DEF Lies
  <1>6. PICK b \in Nat : b = at[k - 1]
    BY <1>4
  <1>7. ASSUME NEW x \in 1 .. Len(P), b + x <= End PROVE Cell(b + x - 1) = P[x]
    <2>1. Len(P) \in Nat /\ Len(W) \in Nat
      BY <1>2
    <2>2. b + x \in 1 .. Len(W)
      <3>1. PICK l \in Nat, w \in Nat : l = Len(P) /\ w = Len(W) /\ b + l <= w
        BY <1>5, <1>6, <2>1
      <3>2. x \in 1 .. l
        BY <3>1
      <3>3. b + x \in 1 .. w
        BY <3>1, <3>2
      <3> QED BY <3>1, <3>3
    <2>3. Cell((b + x) - 1) = W[b + x]
      BY <1>2, <1>7, <2>2 DEF CopyOK
    <2> QED BY <1>5, <1>6, <2>3, SMTT(40)
  <1> QED BY <1>2, <1>4, <1>5, <1>6, <1>7 DEF Holds

\* What the walk sees of the structure it stands at.
LEMMA SeesStructure ==
    ASSUME TableOK, NEW s, Proper(s), NEW b \in Nat, Holds(b, s), b + SHORTEST <= End
    PROVE  /\ Cell(b) = s.type /\ Cell(b + 1) = SHORTEST + Len(s.area)
           /\ b + (SHORTEST + Len(s.area)) <= End /\ IsFull(s) =>
                 \A a \in Attribute :
                    /\ Cell(b + Offset[a]) = s.area[Offset[a] - SHORTEST + 1]
                    /\ s.area[Offset[a] - SHORTEST + 1] \in Nat
  <1>1. PICK at : Structured(at, s)
    BY PrintedLies DEF Proper
  <1>2. PICK P \in Seq(Nat) : P = Printed(s)
    BY <1>1 DEF Structured
  <1>3. /\ P[1] = s.type /\ P[2] = SHORTEST + Len(s.area)
        /\ \A x \in 1 .. Len(s.area) : P[SHORTEST + x] = s.area[x]
    BY <1>1, <1>2 DEF Structured
  <1>4. \A x \in 1 .. Len(P) : b + x <= End => Cell(b + x - 1) = P[x]
    BY <1>2 DEF Holds
  <1>5. PICK l \in Nat, N \in Nat, e \in Nat :
           l = Len(s.area) /\ N = Len(P) /\ e = End /\ (4 + l) + 2 <= N /\ b + 4 <= e
    <2>1. Len(s.area) \in Nat /\ Len(P) \in Nat /\ End \in Nat
      BY EndIs DEF Proper, TableOK
    <2>2. (4 + Len(s.area)) + 2 <= Len(P)
      BY <1>2, TwoZerosEnd DEF SHORTEST
    <2> QED BY <2>1, <2>2 DEF SHORTEST
  <1>6. Cell(b) = s.type /\ Cell(b + 1) = SHORTEST + Len(s.area)
    <2>1. 1 \in 1 .. Len(P) /\ 2 \in 1 .. Len(P) /\ b + 1 <= End /\ b + 2 <= End
      BY <1>5
    <2>2. b + 1 - 1 = b /\ b + 2 - 1 = b + 1
      OBVIOUS
    <2>3. Cell(b + 1 - 1) = P[1] /\ Cell(b + 2 - 1) = P[2]
      BY <1>4, <2>1
    <2> QED BY <1>3, <2>2, <2>3
  <1>7. ASSUME b + (SHORTEST + Len(s.area)) <= End, IsFull(s), NEW a \in Attribute
        PROVE  /\ Cell(b + Offset[a]) = s.area[Offset[a] - SHORTEST + 1]
               /\ s.area[Offset[a] - SHORTEST + 1] \in Nat
    <2>1. Offset[a] \in {4, 5, 7} /\ 4 + Len(s.area) > 7 /\ SHORTEST = 4
      BY <1>7 DEF Attribute, Offset, IsFull, SHORTEST
    <2>2. PICK o \in Nat, x \in Nat : o = Offset[a] /\ x = (o - 4) + 1 /\ o = 3 + x /\ x \in 1 .. 4
      BY <2>1
    <2>3. x \in 1 .. l /\ 4 + x \in 1 .. N /\ b + (4 + x) <= e /\ b + (4 + x) - 1 = b + o
      <3>1. 4 + l > 7 /\ b + (4 + l) <= e
        BY <1>5, <1>7, <2>1
      <3>2. x \in 1 .. l
        BY <2>2, <3>1, SMTT(40)
      <3>3. 4 + x \in 1 .. N /\ b + (4 + x) <= e
        BY <1>5, <3>1, <3>2, SMTT(40)
      <3>4. b + (4 + x) - 1 = b + o
        BY <2>2
      <3> QED BY <3>2, <3>3, <3>4
    <2>4. P[4 + x] = s.area[x]
      BY <1>3, <1>5, <2>1, <2>3
    <2>5. Cell(b + (4 + x) - 1) = P[4 + x]
      BY <1>4, <1>5, <2>3
    <2>6. s.area[x] \in Nat
      <3>1. s.area \in Seq(Nat) /\ x \in 1 .. Len(s.area)
        BY <1>5, <2>3 DEF Proper
      <3> QED BY <3>1
    <2>7. Cell(b + o) = s.area[x]
      BY <2>3, <2>4, <2>5
    <2>8. Offset[a] - SHORTEST + 1 = x
      BY <2>1, <2>2
    <2> QED BY <2>2, <2>6, <2>7, <2>8
  <1> QED BY <1>6, <1>7

\* What the firmware meant is in its first full structure.
LEMMA MeantIs ==
    ASSUME firmware \in Firmware, NEW k \in 1 .. Len(firmware), IsFull(firmware[k]),
           NoneFull(k - 1), NEW a \in Attribute
    PROVE  LET s == firmware[k]
               number == s.area[Offset[a] - SHORTEST + 1]
           IN  Meant(a) = IF number \in DOMAIN s.strings THEN s.strings[number] ELSE <<>>
  <1> DEFINE full == {i \in DOMAIN firmware : IsFull(firmware[i])}
  <1>1. DOMAIN firmware = 1 .. Len(firmware) /\ Len(firmware) \in Nat
    BY FirmwareIs
  <1>2. k \in full /\ \A i \in full : k <= i
    <2>1. \A i \in 1 .. Len(firmware) : ~(k <= i) => i \in 1 .. k - 1
      BY <1>1
    <2>2. \A i \in full : i \in 1 .. Len(firmware) /\ IsFull(firmware[i])
      BY <1>1
    <2> QED BY <1>1, <2>1, <2>2 DEF NoneFull
  <1>3. \A i, j \in full : i \in Int /\ j \in Int /\ (i <= j /\ j <= i => i = j)
    BY <1>1
  <1> HIDE DEF full
  <1>4. Min(full) = k
    BY <1>2, <1>3 DEF Min
  <1>5. full # {}
    BY <1>2
  <1> QED BY <1>4, <1>5 DEF Meant, full

\* Firmware without a full structure means nothing.
LEMMA MeantNothing ==
    ASSUME firmware \in Firmware, NoneFull(Len(firmware)), NEW a \in Attribute
    PROVE  Meant(a) = <<>>
  <1>1. {i \in DOMAIN firmware : IsFull(firmware[i])} = {}
    BY FirmwareIs DEF NoneFull
  <1> QED BY <1>1 DEF Meant

\* What firmware means is a text.
LEMMA MeantIsText ==
    ASSUME firmware \in Firmware, NEW a \in Attribute
    PROVE  Meant(a) \in Seq(Nat)
  <1> DEFINE full == {i \in DOMAIN firmware : IsFull(firmware[i])}
  <1>1. DOMAIN firmware = 1 .. Len(firmware) /\ Len(firmware) \in Nat
    BY FirmwareIs
  <1>2. CASE full = {}
    <2>1. Meant(a) = <<>>
      BY <1>2 DEF Meant
    <2> QED BY <2>1
  <1>3. CASE full # {}
    <2>1. full \subseteq Nat
      BY <1>1
    <2>2. PICK k \in full : \A i \in full : k <= i
      <3> HIDE DEF full
      <3> QED BY <1>3, <2>1, Least
    <2>3. k \in 1 .. Len(firmware) /\ IsFull(firmware[k])
      BY <1>1, <2>2
    <2>4. NoneFull(k - 1)
      <3>1. ASSUME NEW i \in 1 .. k - 1 PROVE ~IsFull(firmware[i])
        <4>1. i \in 1 .. Len(firmware) /\ ~(k <= i)
          BY <1>1, <2>3
        <4> QED BY <1>1, <2>2, <4>1
      <3> QED BY <3>1 DEF NoneFull
    <2>5. firmware[k].strings \in Seq(Seq(Nat))
      BY <2>3, FirmwareIs
    <2>6. PICK number : Meant(a) = IF number \in DOMAIN firmware[k].strings
                                   THEN firmware[k].strings[number] ELSE <<>>
      BY <2>3, <2>4, MeantIs
    <2>7. \A n \in DOMAIN firmware[k].strings : firmware[k].strings[n] \in Seq(Nat)
      BY <2>5
    <2>8. <<>> \in Seq(Nat)
      OBVIOUS
    <2> QED BY <2>6, <2>7, <2>8, Zenon
  <1> QED BY <1>2, <1>3

\* The beginning of a text may be nothing of it, or all.
LEMMA NoneOrAll ==
    ASSUME NEW t \in Seq(Nat)
    PROVE  /\ Len(t) \in Nat /\ 0 \in 0 .. Len(t)
           /\ Trim(SubSeq(t, 1, 0)) = <<>> /\ SubSeq(t, 1, Len(t)) = t /\ Trim(<<>>) = <<>>
  <1>1. SubSeq(t, 1, 0) = <<>> /\ SubSeq(t, 1, Len(t)) = t
    OBVIOUS
  <1>2. Trim(<<>>) = <<>>
    BY DEF Trim
  <1>3. Len(t) \in Nat /\ 0 \in 0 .. Len(t)
    OBVIOUS
  <1> QED BY <1>1, <1>2, <1>3, Zenon

\* The search behind the area ends at the structure's own two zero bytes, or at
\* the end of a table that was cut before them.
LEMMA ScanLeaves ==
    ASSUME TableOK, NEW s, Proper(s), NEW b \in Nat, Holds(b, s)
    PROVE  LET cursor2 == Scan(b + (SHORTEST + Len(s.area))) + 2
               next == b + Len(Printed(s))
           IN  /\ next <= End => cursor2 = next
               /\ ~(next <= End) => cursor2 >= End
  <1>1. PICK P \in Seq(Nat), A \in Nat, N \in Nat, e \in Nat :
           P = Printed(s) /\ A = SHORTEST + Len(s.area) /\ N = Len(P) /\ e = End
    <2>1. Printed(s) \in Seq(Nat)
      BY PrintedIs DEF Proper
    <2>2. SHORTEST + Len(s.area) \in Nat /\ Len(Printed(s)) \in Nat
      BY TwoZerosEnd
    <2>3. End \in Nat
      BY EndIs DEF TableOK
    <2> QED BY <2>1, <2>2, <2>3
  <1>2. /\ A + 2 <= N /\ P[N - 1] = 0 /\ P[N] = 0
        /\ \A j \in A .. N - 3 : ~(P[j + 1] = 0 /\ P[j + 2] = 0)
    BY <1>1, TwoZerosEnd
  <1>3. ASSUME NEW x \in 1 .. N, NEW c \in Nat, c + 1 = b + x, c < e PROVE Cell(c) = P[x]
    <2>1. b + x <= End /\ b + x - 1 = c /\ x \in 1 .. Len(P)
      BY <1>1, <1>3
    <2>2. Cell(b + x - 1) = P[x]
      BY <1>1, <2>1 DEF Holds
    <2> QED BY <2>1, <2>2
  <1>4. PICK r \in Nat : r = Scan(b + A)
    <2>1. b + A \in Nat
      OBVIOUS
    <2> QED BY <2>1, ScanIs DEF TableOK
  <1>5. /\ b + A <= r
        /\ r + 1 >= e \/ (Cell(r) = 0 /\ Cell(r + 1) = 0)
        /\ \A k \in b + A .. r - 1 : k + 1 < e /\ ~(Cell(k) = 0 /\ Cell(k + 1) = 0)
    <2>1. b + A \in Nat
      OBVIOUS
    <2> QED BY <1>1, <1>4, <2>1, ScanIs DEF TableOK
  <1>6. r + 1 >= e \/ r >= (b + N) - 2
    <2> SUFFICES ASSUME r + 1 < e, r < (b + N) - 2 PROVE FALSE
      OBVIOUS
    <2>1. PICK j \in Nat : j = r - b
      BY <1>5
    <2>2. /\ j \in A .. N - 3 /\ j + 1 \in 1 .. N /\ j + 2 \in 1 .. N
          /\ r + 1 = b + (j + 1) /\ (r + 1) + 1 = b + (j + 2) /\ r < e /\ r + 1 \in Nat
      BY <1>2, <1>5, <2>1
    <2>3. Cell(r) = P[j + 1] /\ Cell(r + 1) = P[j + 2]
      BY <1>3, <2>2
    <2>4. Cell(r) = 0 /\ Cell(r + 1) = 0
      BY <1>5
    <2> QED BY <1>2, <2>2, <2>3, <2>4
  <1>7. ASSUME b + N <= e PROVE r + 2 = b + N
    <2>1. PICK k \in Nat : k = (b + N) - 2
      BY <1>2
    <2>2. /\ N - 1 \in 1 .. N /\ N \in 1 .. N /\ k + 1 = b + (N - 1) /\ (k + 1) + 1 = b + N
          /\ k < e /\ k + 1 < e /\ k + 1 \in Nat
      BY <1>2, <1>7, <2>1
    <2>3. Cell(k) = 0 /\ Cell(k + 1) = 0
      BY <1>2, <1>3, <2>2
    <2>4. ~(k \in b + A .. r - 1)
      BY <1>5, <2>3
    <2>5. r >= k
      BY <1>6, <1>7, <2>1
    <2>6. b + A <= k
      BY <1>2, <2>1
    <2> QED BY <2>1, <2>4, <2>5, <2>6
  <1>8. ASSUME ~(b + N <= e) PROVE r + 2 >= e
    BY <1>6, <1>8
  <1> QED BY <1>1, <1>4, <1>7, <1>8

\* What the walk hands on.
Found(a) ==
    /\ harm = "none" => info[a] = Trim(Meant(a))
    /\ harm = "unreadable" => info[a] = <<>>
    /\ harm = "cut" => \E n \in 0 .. Len(Meant(a)) : info[a] = Trim(SubSeq(Meant(a), 1, n))

Walking ==
    /\ info = Unfilled
    /\ \E at, k : /\ Lies(at, Prints) /\ k \in 0 .. Len(firmware)
                  /\ NoneFull(k) /\ Stands(at, k)

\* The walk has met no full structure before the one it stands at; behind the walk
\* there is what the firmware meant, and at the end the device is introduced.
MInv ==
    /\ CopyOK /\ cursor \in Nat
    /\ stage = "walk" => harm \in {"none", "cut", "changed"}
                         /\ (harm \in {"none", "cut"} => Walking)
    /\ stage = "fill" => \A a \in Attribute : Found(a)
    /\ stage = "done" => IntroducesItself

\* With nothing taken from firmware that had nothing to take.
LEMMA NothingFound ==
    ASSUME CopyOK, harm # "changed", info = Unfilled,
           harm = "none" => NoneFull(Len(firmware))
    PROVE  \A a \in Attribute : Found(a)
  <1> SUFFICES ASSUME NEW a \in Attribute PROVE Found(a)
    OBVIOUS
  <1>1. info[a] = <<>> /\ firmware \in Firmware
    BY DEF Unfilled, CopyOK
  <1>2. Meant(a) \in Seq(Nat)
    BY <1>1, MeantIsText
  <1>3. /\ 0 \in 0 .. Len(Meant(a))
        /\ Trim(SubSeq(Meant(a), 1, 0)) = <<>> /\ Trim(<<>>) = <<>>
    BY <1>2, NoneOrAll
  <1>4. harm = "none" => info[a] = Trim(Meant(a))
    BY <1>1, <1>3, MeantNothing
  <1>5. harm = "cut" => \E n \in 0 .. Len(Meant(a)) : info[a] = Trim(SubSeq(Meant(a), 1, n))
    BY <1>1, <1>3
  <1> QED BY <1>1, <1>4, <1>5 DEF Found

\* The table begins as a copy, or as less of one.
LEMMA CopyStarts == ASSUME SmbiosInit PROVE CopyOK
  <1>1. firmware \in Firmware /\ harm \in {"none", "cut", "changed", "unreadable"}
    BY DEF SmbiosInit
  <1>2. TableOK
    BY WalkStarts DEF WInv, TableOK
  <1>3. PICK whole \in Seq(Nat) : whole = Table(firmware)
    BY <1>1, TableIs
  <1>4. PICK w \in Nat : w = Len(whole)
    OBVIOUS
  <1>5. ASSUME NEW x \in Nat, NEW y \in Nat
        PROVE  (x <= y => Min({x, y}) = x) /\ (y <= x => Min({x, y}) = y)
    <2>1. ASSUME x <= y PROVE Min({x, y}) = x
      <3>1. \A z \in {x, y} : (\A v \in {x, y} : z <= v) <=> z = x
        BY <2>1
      <3> QED BY <3>1 DEF Min
    <2>2. ASSUME y <= x PROVE Min({x, y}) = y
      <3>1. \A z \in {x, y} : (\A v \in {x, y} : z <= v) <=> z = y
        BY <2>2
      <3> QED BY <3>1 DEF Min
    <2> QED BY <2>1, <2>2
  <1>6. CASE harm = "none"
    <2>1. table = whole /\ declared = w
      BY <1>3, <1>4, <1>6 DEF SmbiosInit
    <2>2. End = w
      BY <1>4, <1>5, <2>1 DEF End
    <2>3. \A x \in 1 .. w : Cell(x - 1) = whole[x]
      BY <1>4, <2>1 DEF Cell
    <2> QED BY <1>1, <1>2, <1>3, <1>4, <1>6, <2>2, <2>3 DEF CopyOK
  <1>7. CASE harm = "cut"
    <2>1. PICK n \in 0 .. w - 1 :
             \/ table = whole /\ declared = n
             \/ table = SubSeq(whole, 1, n) /\ declared = w
      BY <1>3, <1>4, <1>7 DEF SmbiosInit
    <2>2. n \in Nat /\ n <= w
      BY <1>4
    <2>3. SubSeq(whole, 1, n) \in Seq(Nat) /\ Len(SubSeq(whole, 1, n)) = n
          /\ \A x \in 1 .. n : SubSeq(whole, 1, n)[x] = whole[x]
      BY <1>4, <2>2
    <2>4. End = n
      <3>1. CASE table = whole /\ declared = n
        BY <1>4, <1>5, <2>2, <3>1 DEF End
      <3>2. CASE table = SubSeq(whole, 1, n) /\ declared = w
        BY <1>5, <2>2, <2>3, <3>2 DEF End
      <3> QED BY <2>1, <3>1, <3>2
    <2>5. ASSUME NEW x \in 1 .. w, x <= n PROVE Cell(x - 1) = whole[x]
      <3>1. x - 1 < n /\ x - 1 < w /\ x \in 1 .. n /\ (x - 1) + 1 = x
        BY <2>2, <2>5
      <3>2. CASE table = whole
        BY <1>4, <3>1, <3>2 DEF Cell
      <3>3. CASE table = SubSeq(whole, 1, n)
        BY <2>3, <3>1, <3>3 DEF Cell
      <3> QED BY <2>1, <3>2, <3>3
    <2> QED BY <1>1, <1>2, <1>3, <1>4, <1>7, <2>2, <2>4, <2>5 DEF CopyOK
  <1>8. CASE harm \notin {"none", "cut"}
    BY <1>1, <1>2, <1>8 DEF CopyOK
  <1> QED BY <1>6, <1>7, <1>8

\* A structure has at least its head, so a table without bytes has none.
LEMMA NoBytes ==
    ASSUME firmware \in Firmware, NEW at, Lies(at, Prints), NEW k \in 1 .. Len(firmware)
    PROVE  at[k] > 0
  <1>1. /\ Len(firmware) \in Nat /\ Len(Prints) = Len(firmware)
        /\ Prints[k] = Printed(firmware[k]) /\ Proper(firmware[k])
    BY PrintsAre
  <1>2. PICK A \in Nat, N \in Nat : N = Len(Prints[k]) /\ A + 2 <= N
    BY <1>1, TwoZerosEnd
  <1>3. k - 1 \in 0 .. Len(firmware)
    BY <1>1
  <1>4. PICK b \in Nat : b = at[k - 1] /\ at[k] = b + N
    BY <1>1, <1>2, <1>3 DEF Lies
  <1> QED BY <1>2, <1>4

\* parseSmbios starts in front of the first structure.
LEMMA MeaningStarts == ASSUME SmbiosInit PROVE MInv
  <1>1. CopyOK
    BY CopyStarts
  <1>2. /\ cursor = 0 /\ info = Unfilled /\ firmware \in Firmware
        /\ stage = IF table = <<>> THEN "fill" ELSE "walk"
    BY DEF SmbiosInit
  <1>3. PICK at : Lies(at, Prints)
    BY <1>2, PrintsAre, PartsLie
  <1>4. at[0] = 0
    BY <1>3 DEF Lies
  <1>5. CASE stage = "walk"
    <2>1. harm # "unreadable"
      BY <1>2, <1>5 DEF SmbiosInit
    <2>2. harm \in {"none", "cut", "changed"}
      BY <1>1, <2>1 DEF CopyOK
    <2>3. NoneFull(0) /\ 0 \in 0 .. Len(firmware) /\ Stands(at, 0)
      BY <1>2, <1>4, PrintsAre DEF NoneFull, Stands
    <2>4. Walking
      BY <1>2, <1>3, <2>3 DEF Walking
    <2> QED BY <1>1, <1>2, <1>5, <2>2, <2>4 DEF MInv
  <1>6. CASE stage = "fill"
    <2>0. table = <<>>
      BY <1>2, <1>6
    <2>1. ASSUME harm = "none" PROVE NoneFull(Len(firmware))
      <3>1. End = Len(Table(firmware)) /\ Len(Table(firmware)) = at[Len(firmware)]
        BY <1>1, <1>2, <1>3, <2>1, PrintsAre DEF CopyOK, Lies
      <3>2. End <= 0
        BY <1>1, <2>0, EndIs DEF CopyOK, TableOK
      <3>3. Len(firmware) \in Nat
        BY <1>2, PrintsAre
      <3>4. CASE Len(firmware) = 0
        BY <3>4 DEF NoneFull
      <3>5. CASE Len(firmware) # 0
        <4>1. Len(firmware) \in 1 .. Len(firmware)
          BY <3>3, <3>5
        <4>2. at[Len(firmware)] > 0
          BY <1>2, <1>3, <4>1, NoBytes
        <4>3. End \in Nat
          BY <1>1, EndIs DEF CopyOK, TableOK
        <4> QED BY <3>1, <3>2, <4>2, <4>3
      <3> QED BY <3>4, <3>5
    <2>2. CASE harm # "changed"
      <3>1. \A a \in Attribute : Found(a)
        BY <1>1, <1>2, <2>1, <2>2, NothingFound
      <3> QED BY <1>1, <1>2, <1>6, <3>1 DEF MInv
    <2>3. CASE harm = "changed"
      <3>1. \A a \in Attribute : Found(a)
        BY <2>3 DEF Found
      <3> QED BY <1>1, <1>2, <1>6, <3>1 DEF MInv
    <2> QED BY <2>2, <2>3
  <1> QED BY <1>2, <1>5, <1>6

\* Steps of the walk leave the table as it is.
LEMMA CopyStays ==
    ASSUME CopyOK, UNCHANGED <<firmware, harm, table, declared>>
    PROVE  /\ CopyOK' /\ End' = End /\ Prints' = Prints
           /\ \A a \in Attribute : Meant(a)' = Meant(a)
  <1>1. End' = End
    BY DEF End
  <1>2. ASSUME NEW x \in Nat PROVE Cell(x)' = Cell(x)
    BY DEF Cell
  <1>3. Prints' = Prints
    BY DEF Prints
  <1>4. \A a \in Attribute : Meant(a)' = Meant(a)
    BY DEF Meant
  <1>5. TableOK' /\ Table(firmware)' = Table(firmware)
    BY DEF CopyOK, TableOK
  <1>6. ASSUME harm \in {"none", "cut"}, NEW x \in 1 .. Len(Table(firmware)), x <= End
        PROVE  Cell(x - 1)' = Table(firmware)[x]
    <2>1. x - 1 \in Nat
      OBVIOUS
    <2> QED BY <1>2, <1>6, <2>1 DEF CopyOK
  <1> QED BY <1>1, <1>3, <1>4, <1>5, <1>6 DEF CopyOK

\* The walk ends where a table that was not cut has no structure left.
LEMMA EndKeeps == ASSUME MInv, EndWalk PROVE MInv'
  <1>1. /\ stage = "walk" /\ ~HasStructure /\ stage' = "fill"
        /\ UNCHANGED <<firmware, harm, table, declared, cursor, info>>
    BY DEF EndWalk
  <1>2. CopyOK /\ firmware \in Firmware /\ End \in Nat
    BY EndIs DEF MInv, CopyOK, TableOK
  <1>3. CopyOK' /\ \A a \in Attribute : Meant(a)' = Meant(a)
    BY <1>1, <1>2, CopyStays
  <1>4. CASE harm = "changed"
    <2>1. \A a \in Attribute : Found(a)'
      BY <1>1, <1>4 DEF Found
    <2> QED BY <1>1, <1>3, <2>1 DEF MInv
  <1>5. CASE harm # "changed"
    <2>1. harm \in {"none", "cut"} /\ Walking
      BY <1>1, <1>5 DEF MInv
    <2>2. ASSUME harm = "none" PROVE NoneFull(Len(firmware))
      <3>1. PICK at, k : /\ Lies(at, Prints) /\ k \in 0 .. Len(firmware)
                         /\ NoneFull(k) /\ cursor = at[k]
        BY <2>1, <2>2 DEF Walking, Stands
      <3>2. Len(firmware) \in Nat
        BY <1>2, PrintsAre
      <3>3. k = Len(firmware)
        <4> SUFFICES ASSUME k # Len(firmware) PROVE FALSE
          OBVIOUS
        <4>1. PICK i \in 1 .. Len(firmware) : i = k + 1 /\ i - 1 = k
          BY <3>1, <3>2
        <4>2. /\ at[k] \in Nat /\ at[i] = at[k] + Len(Printed(firmware[i]))
              /\ at[i] <= Len(Table(firmware)) /\ Holds(at[k], firmware[i])
          BY <1>2, <2>1, <3>1, <4>1, HeldHere
        <4>3. End = Len(Table(firmware)) /\ Proper(firmware[i]) /\ TableOK
          BY <1>2, <2>2, PrintsAre DEF CopyOK
        <4>4. PICK b \in Nat, A \in Nat, N \in Nat, e \in Nat :
                 /\ b = cursor /\ A = SHORTEST + Len(firmware[i].area)
                 /\ N = Len(Printed(firmware[i])) /\ e = End /\ A >= 4 /\ A + 2 <= N /\ b + N <= e
          <5>1. PICK A \in Nat, N \in Nat :
                   /\ A = SHORTEST + Len(firmware[i].area) /\ N = Len(Printed(firmware[i]))
                   /\ SHORTEST <= A /\ A + 2 <= N
            BY <4>3, TwoZerosEnd
          <5>2. A >= 4
            BY <5>1 DEF SHORTEST
          <5>3. cursor \in Nat /\ cursor + N <= End
            BY <3>1, <4>2, <4>3, <5>1
          <5> QED BY <1>2, <5>1, <5>2, <5>3
        <4>5. b + 4 <= e /\ b + A <= e
          BY <4>4
        <4>6. Cell(b + 1) = A
          BY <3>1, <4>2, <4>3, <4>4, <4>5, SeesStructure DEF SHORTEST
        <4> QED BY <1>1, <4>4, <4>5, <4>6 DEF HasStructure, SHORTEST
      <3> QED BY <3>1, <3>3
    <2>3. \A a \in Attribute : Found(a)
      BY <1>2, <1>5, <2>1, <2>2, NothingFound DEF Walking
    <2>4. \A a \in Attribute : Found(a)'
      BY <1>1, <1>3, <2>3 DEF Found
    <2> QED BY <1>1, <1>3, <2>4 DEF MInv
  <1> QED BY <1>4, <1>5

\* Where the walk meets a structure it stands at one of the firmware's, and sees
\* whether it is the one that is meant.
LEMMA MeetsStructure ==
    ASSUME CopyOK, harm \in {"none", "cut"}, Walking, HasStructure, cursor \in Nat
    PROVE  \E at, k : /\ Lies(at, Prints) /\ k \in 1 .. Len(firmware)
                      /\ NoneFull(k - 1) /\ cursor = at[k - 1]
                      /\ Proper(firmware[k]) /\ Holds(cursor, firmware[k])
                      /\ Cell(cursor + 1) = SHORTEST + Len(firmware[k].area)
                      /\ IsSystemInformation <=> IsFull(firmware[k])
  <1>1. /\ firmware \in Firmware /\ TableOK /\ End \in Nat /\ End <= Len(Table(firmware))
    BY EndIs DEF CopyOK, TableOK
  <1>2. /\ Len(firmware) \in Nat /\ Len(Prints) = Len(firmware)
        /\ Table(firmware) = FlattenSeq(Prints)
        /\ \A i \in 1 .. Len(firmware) : Proper(firmware[i])
    BY <1>1, PrintsAre
  <1>3. cursor + 4 <= End
    BY DEF HasStructure, SHORTEST
  <1>4. PICK at, k0 : /\ Lies(at, Prints) /\ k0 \in 0 .. Len(firmware)
                      /\ NoneFull(k0) /\ Stands(at, k0)
    BY DEF Walking
  <1>5. cursor = at[k0]
    <2>1. ~(cursor >= End)
      BY <1>1, <1>3
    <2> QED BY <1>4, <2>1 DEF Stands
  <1>6. k0 # Len(firmware)
    <2>1. ASSUME k0 = Len(firmware) PROVE FALSE
      <3>1. cursor = Len(Table(firmware))
        BY <1>2, <1>4, <1>5, <2>1 DEF Lies
      <3>2. End <= cursor
        BY <1>1, <3>1
      <3> QED BY <1>1, <1>3, <3>2
    <2> QED BY <2>1
  <1>7. PICK k \in 1 .. Len(firmware) : k = k0 + 1 /\ k - 1 = k0
    BY <1>2, <1>4, <1>6
  <1>8. Holds(cursor, firmware[k]) /\ Proper(firmware[k])
    <2>1. Holds(at[k - 1], firmware[k])
      BY <1>4, HeldHere
    <2> QED BY <1>2, <1>5, <1>7, <2>1
  <1>9. /\ Cell(cursor) = firmware[k].type
        /\ Cell(cursor + 1) = SHORTEST + Len(firmware[k].area)
    <2>1. cursor + SHORTEST <= End
      BY DEF HasStructure
    <2> QED BY <1>1, <1>8, <2>1, SeesStructure
  <1>10. IsSystemInformation <=> IsFull(firmware[k])
    BY <1>9 DEF IsSystemInformation, IsFull
  <1>11. NoneFull(k - 1) /\ cursor = at[k - 1]
    BY <1>4, <1>5, <1>7
  <1> QED BY <1>4, <1>8, <1>9, <1>10, <1>11

\* A structure that is skipped is not the one that is meant.
LEMMA SkipGoesOn == ASSUME MInv, SkipStructure PROVE MInv'
  <1>1. /\ stage = "walk" /\ HasStructure /\ ~IsSystemInformation
        /\ cursor' = Scan(cursor + Cell(cursor + 1)) + 2
        /\ UNCHANGED <<firmware, harm, table, declared, mirror, stage, info>>
    BY DEF SkipStructure
  <1>2. CopyOK /\ TableOK /\ End \in Nat /\ cursor \in Nat
    BY EndIs DEF MInv, CopyOK, TableOK
  <1>3. /\ CopyOK' /\ End' = End /\ Prints' = Prints
    BY <1>1, <1>2, CopyStays
  <1>4. cursor' \in Nat
    <2>1. Cell(cursor + 1) \in Nat
      BY <1>2, CellIs DEF TableOK
    <2>2. cursor + Cell(cursor + 1) \in Nat
      BY <1>2, <2>1
    <2>3. Scan(cursor + Cell(cursor + 1)) \in Nat
      BY <1>2, <2>2, ScanIs DEF TableOK
    <2> QED BY <1>1, <2>3
  <1>5. harm \in {"none", "cut", "changed"}
    BY <1>1 DEF MInv
  <1>6. ASSUME harm \in {"none", "cut"} PROVE Walking'
    <2>1. Walking
      BY <1>1, <1>6 DEF MInv
    <2>2. PICK at, k : /\ Lies(at, Prints) /\ k \in 1 .. Len(firmware)
                       /\ NoneFull(k - 1) /\ cursor = at[k - 1]
                       /\ Proper(firmware[k]) /\ Holds(cursor, firmware[k])
                       /\ Cell(cursor + 1) = SHORTEST + Len(firmware[k].area)
                       /\ IsSystemInformation <=> IsFull(firmware[k])
      BY <1>1, <1>2, <1>6, <2>1, MeetsStructure
    <2>3. PICK s : s = firmware[k]
      OBVIOUS
    <2>4. /\ cursor + Len(Printed(s)) <= End => cursor' = cursor + Len(Printed(s))
          /\ ~(cursor + Len(Printed(s)) <= End) => cursor' >= End
      BY <1>1, <1>2, <2>2, <2>3, ScanLeaves
    <2>5. at[k] = cursor + Len(Printed(s)) /\ at[k] <= Len(Table(firmware))
      BY <1>2, <1>6, <2>2, <2>3, HeldHere
    <2>6. Stands(at, k)'
      <3>1. CASE at[k] <= End
        BY <1>1, <2>4, <2>5, <3>1 DEF Stands
      <3>2. CASE ~(at[k] <= End)
        <4>1. harm # "none"
          BY <1>2, <2>5, <3>2 DEF CopyOK
        <4>2. cursor' >= End
          BY <2>4, <2>5, <3>2
        <4> QED BY <1>1, <1>3, <1>6, <4>1, <4>2 DEF Stands
      <3> QED BY <3>1, <3>2
    <2>7. NoneFull(k)
      <3>1. ~IsFull(firmware[k])
        BY <1>1, <2>2
      <3>2. \A i \in 1 .. k : i \in 1 .. k - 1 \/ i = k
        <4>1. k \in Nat
          <5>1. k \in 1 .. Len(firmware)
            BY <2>2
          <5> QED BY <5>1
        <4> QED BY <4>1
      <3> QED BY <2>2, <3>1, <3>2 DEF NoneFull
    <2>8. NoneFull(k)' /\ k \in 0 .. Len(firmware') /\ Lies(at, Prints')
      <3>1. Len(firmware) \in Nat
        BY <1>2, PrintsAre DEF CopyOK
      <3>2. NoneFull(k)'
        BY <1>1, <2>7 DEF NoneFull
      <3> QED BY <1>1, <1>3, <2>2, <3>1, <3>2
    <2>9. info' = Unfilled
      BY <1>1, <2>1 DEF Walking
    <2> QED BY <2>6, <2>8, <2>9 DEF Walking
  <1> QED BY <1>1, <1>3, <1>4, <1>5, <1>6 DEF MInv

\* The structure that is taken is the one that is meant, and so are its strings.
LEMMA TakeFinds == ASSUME MInv, TakeStructure PROVE MInv'
  <1>1. /\ stage = "walk" /\ HasStructure /\ IsSystemInformation /\ stage' = "fill"
        /\ info' = [a \in Attribute |-> SmbiosString(cursor + Cell(cursor + 1), Cell(cursor + Offset[a]))]
        /\ UNCHANGED <<firmware, harm, table, declared, mirror, cursor>>
    BY DEF TakeStructure
  <1>2. CopyOK /\ TableOK /\ End \in Nat /\ cursor \in Nat /\ firmware \in Firmware
    BY EndIs DEF MInv, CopyOK, TableOK
  <1>3. CopyOK' /\ \A a \in Attribute : Meant(a)' = Meant(a)
    BY <1>1, <1>2, CopyStays
  <1>4. harm \in {"none", "cut", "changed"}
    BY <1>1 DEF MInv
  <1>5. ASSUME NEW a \in Attribute PROVE Found(a)'
    <2>1. CASE harm = "changed"
      BY <1>1, <2>1 DEF Found
    <2>2. CASE harm \in {"none", "cut"}
      <3>1. Walking
        BY <1>1, <2>2 DEF MInv
      <3>2. PICK at, k : /\ Lies(at, Prints) /\ k \in 1 .. Len(firmware)
                         /\ NoneFull(k - 1) /\ cursor = at[k - 1]
                         /\ Proper(firmware[k]) /\ Holds(cursor, firmware[k])
                         /\ Cell(cursor + 1) = SHORTEST + Len(firmware[k].area)
                         /\ IsSystemInformation <=> IsFull(firmware[k])
        BY <1>1, <1>2, <2>2, <3>1, MeetsStructure
      <3>3. PICK s : s = firmware[k]
        OBVIOUS
      <3>4. IsFull(s) /\ Proper(s) /\ Holds(cursor, s)
        BY <1>1, <3>2, <3>3
      <3>5. PICK number \in Nat : /\ number = s.area[Offset[a] - SHORTEST + 1]
                                  /\ number = Cell(cursor + Offset[a])
        <4>1. cursor + SHORTEST <= End /\ cursor + (SHORTEST + Len(s.area)) <= End
          BY <1>1, <3>2, <3>3 DEF HasStructure
        <4> QED BY <1>2, <3>4, <4>1, SeesStructure
      <3>6. PICK got : got = SmbiosString(cursor + (SHORTEST + Len(s.area)), number)
        OBVIOUS
      <3>7. info'[a] = got
        BY <1>1, <3>2, <3>3, <3>5, <3>6
      <3>8. IF number \in 1 .. Len(s.strings)
            THEN \E n \in 0 .. Len(s.strings[number]) :
                    /\ got = Trim(SubSeq(s.strings[number], 1, n))
                    /\ cursor + Len(Printed(s)) <= End => n = Len(s.strings[number])
            ELSE got = <<>>
        BY <1>2, <3>4, <3>6, StringIs
      <3>9. DOMAIN s.strings = 1 .. Len(s.strings)
        BY <3>4 DEF Proper
      <3>10. Meant(a) = IF number \in 1 .. Len(s.strings) THEN s.strings[number] ELSE <<>>
        BY <1>2, <3>2, <3>3, <3>4, <3>5, <3>9, MeantIs
      <3>11. Meant(a) \in Seq(Nat)
        BY <1>2, MeantIsText
      <3>12. /\ 0 \in 0 .. Len(Meant(a)) /\ Trim(SubSeq(Meant(a), 1, 0)) = <<>>
             /\ SubSeq(Meant(a), 1, Len(Meant(a))) = Meant(a) /\ Trim(<<>>) = <<>>
        BY <3>11, NoneOrAll
      <3>13. \E n \in 0 .. Len(Meant(a)) : got = Trim(SubSeq(Meant(a), 1, n))
        <4>1. CASE number \in 1 .. Len(s.strings)
          BY <3>8, <3>10, <4>1, Zenon
        <4>2. CASE number \notin 1 .. Len(s.strings)
          BY <3>8, <3>12, <4>2, Zenon
        <4> QED BY <4>1, <4>2
      <3>14. ASSUME harm = "none" PROVE got = Trim(Meant(a))
        <4>1. cursor + Len(Printed(s)) <= End
          <5>1. at[k] = cursor + Len(Printed(s)) /\ at[k] <= Len(Table(firmware))
            BY <1>2, <2>2, <3>2, <3>3, HeldHere
          <5> QED BY <1>2, <3>14, <5>1 DEF CopyOK
        <4>2. CASE number \in 1 .. Len(s.strings)
          BY <3>8, <3>10, <3>12, <4>1, <4>2, Zenon
        <4>3. CASE number \notin 1 .. Len(s.strings)
          BY <3>8, <3>10, <3>12, <4>3, Zenon
        <4> QED BY <4>2, <4>3
      <3>15. harm' = harm /\ Meant(a)' = Meant(a) /\ harm # "unreadable"
        BY <1>1, <1>3, <2>2
      <3> QED BY <3>7, <3>13, <3>14, <3>15, Zenon DEF Found
    <2> QED BY <1>4, <2>1, <2>2
  <1> QED BY <1>1, <1>2, <1>3, <1>5 DEF MInv

\* The registry's copy stands for what is missing only.
LEMMA FillIntroduces == ASSUME MInv, Fill PROVE MInv'
  <1> DEFINE filled == [a \in Attribute |->
               IF IsPlaceholder(info[a]) /\ a # "serial" THEN Trim(mirror[a]) ELSE info[a]]
  <1>1. /\ stage = "fill" /\ stage' = "done"
        /\ info' = [a \in Attribute |-> IF IsPlaceholder(filled[a]) THEN <<>> ELSE filled[a]]
        /\ UNCHANGED <<firmware, harm, table, declared, mirror, cursor>>
    BY DEF Fill
  <1>2. CopyOK /\ cursor \in Nat /\ firmware \in Firmware /\ \A a \in Attribute : Found(a)
    BY <1>1 DEF MInv, CopyOK
  <1>3. CopyOK' /\ \A a \in Attribute : Meant(a)' = Meant(a)
    BY <1>1, <1>2, CopyStays
  <1>4. <<>> \notin Placeholder
    BY FirmwareAssumption
  <1>5. harm \in {"none", "cut", "changed", "unreadable"}
    BY <1>2 DEF CopyOK
  <1>6. ASSUME harm # "changed", NEW a \in Attribute
        PROVE  LET known == IF harm = "unreadable" THEN <<>> ELSE Trim(Meant(a))
                   copied == a # "serial" /\ info'[a] = Trim(mirror[a])
               IN  /\ info'[a] \notin Placeholder
                   /\ CASE harm = "cut" ->
                             copied \/ \E n \in 0 .. Len(Meant(a)) :
                                          info'[a] = Trim(SubSeq(Meant(a), 1, n))
                        [] harm # "cut" /\ ~IsPlaceholder(known) -> info'[a] = known
                        [] OTHER -> copied \/ info'[a] = <<>>
    <2>1. /\ filled[a] = IF IsPlaceholder(info[a]) /\ a # "serial" THEN Trim(mirror[a]) ELSE info[a]
          /\ info'[a] = IF IsPlaceholder(filled[a]) THEN <<>> ELSE filled[a]
      BY <1>1
    <2> HIDE DEF filled
    <2>2. info'[a] \notin Placeholder
      BY <1>4, <2>1 DEF IsPlaceholder
    <2>3. \/ info'[a] = <<>>
          \/ a # "serial" /\ info'[a] = Trim(mirror[a])
          \/ info'[a] = info[a] /\ ~IsPlaceholder(info[a])
      BY <2>1
    <2>4. ~IsPlaceholder(info[a]) => info'[a] = info[a]
      BY <2>1
    <2>5. Meant(a) \in Seq(Nat)
      BY <1>2, MeantIsText
    <2>6. /\ 0 \in 0 .. Len(Meant(a)) /\ Trim(SubSeq(Meant(a), 1, 0)) = <<>>
      BY <2>5, NoneOrAll
    <2>7. CASE harm = "cut"
      <3>1. \E n \in 0 .. Len(Meant(a)) : info[a] = Trim(SubSeq(Meant(a), 1, n))
        BY <1>2, <2>7 DEF Found
      <3>2. \/ a # "serial" /\ info'[a] = Trim(mirror[a])
            \/ \E n \in 0 .. Len(Meant(a)) : info'[a] = Trim(SubSeq(Meant(a), 1, n))
        BY <2>3, <2>6, <3>1
      <3> QED BY <2>2, <2>7, <3>2
    <2>8. CASE harm # "cut"
      <3>1. harm \in {"none", "unreadable"}
        BY <1>5, <1>6, <2>8
      <3>2. info[a] = IF harm = "unreadable" THEN <<>> ELSE Trim(Meant(a))
        BY <1>2, <3>1 DEF Found
      <3>3. PICK known : known = IF harm = "unreadable" THEN <<>> ELSE Trim(Meant(a))
        OBVIOUS
      <3>4. ~IsPlaceholder(known) => info'[a] = known
        BY <2>4, <3>2, <3>3
      <3>5. IsPlaceholder(known) => info'[a] = <<>> \/ (a # "serial" /\ info'[a] = Trim(mirror[a]))
        BY <2>3, <3>2, <3>3
      <3>6. CASE IsPlaceholder(known)
        BY <2>2, <2>8, <3>3, <3>5, <3>6
      <3>7. CASE ~IsPlaceholder(known)
        BY <2>2, <2>8, <3>3, <3>4, <3>7
      <3> QED BY <3>6, <3>7
    <2> QED BY <2>7, <2>8
  <1>7. IntroducesItself'
    BY <1>1, <1>3, <1>6 DEF IntroducesItself, IsPlaceholder
  <1> QED BY <1>1, <1>2, <1>3, <1>7 DEF MInv

\* So each step keeps to what the firmware meant.
LEMMA MeaningKeeps == ASSUME MInv, [SmbiosNext]_smbios PROVE MInv'
  <1>1. CASE UNCHANGED smbios
    <2>1. UNCHANGED <<firmware, harm, table, declared, mirror, cursor, stage, info>>
      BY <1>1 DEF smbios
    <2>2. /\ CopyOK' /\ End' = End /\ Prints' = Prints
          /\ \A a \in Attribute : Meant(a)' = Meant(a)
      BY <2>1, CopyStays DEF MInv
    <2>3. ASSUME NEW a \in Attribute, Found(a) PROVE Found(a)'
      BY <2>1, <2>2, <2>3 DEF Found
    <2>4. ASSUME Walking PROVE Walking'
      BY <2>1, <2>2, <2>4 DEF Walking, Stands, NoneFull
    <2>5. ASSUME IntroducesItself PROVE IntroducesItself'
      BY <2>1, <2>2, <2>5 DEF IntroducesItself
    <2> QED BY <2>1, <2>2, <2>3, <2>4, <2>5 DEF MInv
  <1>2. CASE SmbiosNext
    BY <1>2, EndKeeps, SkipGoesOn, TakeFinds, FillIntroduces DEF SmbiosNext
  <1> QED BY <1>1, <1>2

\* detect introduces the device as what its firmware says, for tables of every
\* size, whole or cut anywhere, with any strings and any string numbers.
THEOREM IntroducesItselfEver == SmbiosInit /\ [][SmbiosNext]_smbios => []IntroducesItself
  <1>1. SmbiosInit => MInv
    BY MeaningStarts
  <1>2. MInv /\ [SmbiosNext]_smbios => MInv'
    BY MeaningKeeps
  <1>3. (stage = "done" => IntroducesItself) => IntroducesItself
    BY DEF IntroducesItself
  <1>4. MInv => IntroducesItself
    BY <1>3 DEF MInv
  <1> QED BY <1>1, <1>2, <1>4, PTL

-----------------------------------------------------------------------------
(* The symbols of a code, the highest first.                               *)

\* What the sizes of a code are.
LEMMA CodecSizes ==
    /\ Base \in Nat \ {0} /\ Symbol = 0 .. Base - 1 /\ Symbol \subseteq Nat
    /\ PayloadSymbols \in Nat /\ SignatureSymbols \in Nat
    /\ DOMAIN Alphabet = 1 .. Base
    /\ Payload = 0 .. Weight[PayloadSymbols] - 1
  BY CodecAssumption DEF Base, Symbol, Payload

\* What the symbols of a payload count for, from the last to the first.
LEMMA Weights ==
    /\ Weight \in [0 .. PayloadSymbols -> Nat \ {0}]
    /\ Weight[0] = 1
    /\ \A n \in 1 .. PayloadSymbols : Weight[n] = Base * Weight[n - 1]
  <1> DEFINE n == PayloadSymbols
             Pos == Nat \ {0}
             h == [i \in 1 .. n |-> [x \in Pos |-> Base * x]]
             Weighs(f) == f = [i \in 0 .. n |-> IF i = 0 THEN 1 ELSE Base * f[i - 1]]
  <1>1. n \in Nat /\ 1 \in Pos
    BY CodecSizes
  <1>2. h \in [1 .. n -> [Pos -> Pos]]
    BY CodecSizes
  <1>3. \A i \in 1 .. n : \A x \in Pos : h[i][x] = Base * x
    OBVIOUS
  <1> HIDE DEF h, n, Pos
  <1>4. PICK f : Solution(f, Pos, n, 1, h)
    BY <1>1, <1>2, Recursion, Zenon
  <1>5. f \in [0 .. n -> Pos] /\ f[0] = 1
    BY <1>4 DEF Solution, Obeys
  <1>6. \A i \in 1 .. n : f[i] = Base * f[i - 1]
    <2>1. \A i \in 1 .. n : f[i - 1] \in Pos
      BY <1>1, <1>5
    <2> QED BY <1>3, <1>4, <2>1 DEF Solution, Obeys
  <1>7. Weighs(Weight)
    <2>1. \A i \in 0 .. n : f[i] = IF i = 0 THEN 1 ELSE Base * f[i - 1]
      BY <1>1, <1>5, <1>6
    <2>2. Weighs(f)
      BY <1>5, <2>1
    <2> DEFINE w == CHOOSE g : Weighs(g)
    <2>3. Weighs(w)
      BY <2>2
    <2>4. Weight = w
      BY DEF Weight, n
    <2> QED BY <2>3, <2>4
  <1>8. Obeys(Weight, Pos, n, 1, h)
    BY <1>1, <1>3, <1>7 DEF Obeys
  <1>9. \A i \in 0 .. n : Weight[i] = f[i]
    BY <1>4, <1>8 DEF Solution
  <1>10. Weight \in [0 .. n -> Pos]
    BY <1>5, <1>7, <1>9
  <1>11. \A i \in 1 .. n : Weight[i] = Base * Weight[i - 1]
    BY <1>1, <1>6, <1>9
  <1>12. Weight[0] = 1
    BY <1>1, <1>5, <1>9
  <1> QED
    BY <1>10, <1>11, <1>12 DEF n, Pos

\* The values decode goes through, symbol by symbol.
LEMMA PayloadGrows ==
    ASSUME NEW symbols \in Seq(Symbol)
    PROVE  \E value \in [0 .. Len(symbols) -> Nat] :
              /\ value[0] = 0
              /\ \A i \in 1 .. Len(symbols) : value[i] = value[i - 1] * Base + symbols[i]
              /\ PayloadOf(symbols) = value[Len(symbols)]
  <1> DEFINE n == Len(symbols)
             h == [i \in 1 .. n |-> [x \in Nat |-> x * Base + symbols[i]]]
             Counts(f) == f = [i \in 0 .. n |->
                                 IF i = 0 THEN 0 ELSE f[i - 1] * Base + symbols[i]]
  <1>1. n \in Nat /\ \A i \in 1 .. n : symbols[i] \in Nat
    BY CodecSizes
  <1>2. h \in [1 .. n -> [Nat -> Nat]]
    BY <1>1, CodecSizes
  <1>3. \A i \in 1 .. n : \A x \in Nat : h[i][x] = x * Base + symbols[i]
    OBVIOUS
  <1> HIDE DEF h, n
  <1>4. PICK f : Solution(f, Nat, n, 0, h)
    BY <1>1, <1>2, Recursion, Zenon
  <1>5. f \in [0 .. n -> Nat] /\ f[0] = 0
    BY <1>4 DEF Solution, Obeys
  <1>6. \A i \in 1 .. n : f[i] = f[i - 1] * Base + symbols[i]
    <2>1. \A i \in 1 .. n : f[i - 1] \in Nat
      BY <1>1, <1>5
    <2> QED BY <1>3, <1>4, <2>1 DEF Solution, Obeys
  <1> DEFINE value == CHOOSE g : Counts(g)
  <1>7. Counts(value)
    <2>1. \A i \in 0 .. n : f[i] = IF i = 0 THEN 0 ELSE f[i - 1] * Base + symbols[i]
      BY <1>1, <1>5, <1>6
    <2>2. Counts(f)
      BY <1>5, <2>1
    <2> QED BY <2>2
  <1>8. PayloadOf(symbols) = value[n]
    BY DEF PayloadOf, n
  <1> HIDE DEF value
  <1>9. Obeys(value, Nat, n, 0, h)
    BY <1>1, <1>3, <1>7 DEF Obeys
  <1>10. value[n] = f[n]
    BY <1>1, <1>4, <1>9 DEF Solution
  <1> QED
    BY <1>5, <1>6, <1>8, <1>10 DEF n

\* encode writes symbols, as many as a payload has.
LEMMA SymbolsOfIsSymbols ==
    ASSUME NEW v \in Payload
    PROVE  /\ SymbolsOf(v) \in [1 .. PayloadSymbols -> Symbol]
           /\ \A i \in 1 .. PayloadSymbols :
                 SymbolsOf(v)[i] = (v \div Weight[PayloadSymbols - i]) % Base
  <1>1. ASSUME NEW i \in 1 .. PayloadSymbols
        PROVE  (v \div Weight[PayloadSymbols - i]) % Base \in Symbol
    <2>1. PICK w \in Nat \ {0} : w = Weight[PayloadSymbols - i]
      <3>1. PayloadSymbols - i \in 0 .. PayloadSymbols
        BY CodecSizes
      <3> QED BY <3>1, Weights
    <2>2. v \in Int
      BY DEF Payload
    <2> QED BY <2>1, <2>2, CodecSizes, Quotient
  <1> QED BY <1>1 DEF SymbolsOf

\* What encode wrote of a payload is what decode reads.
LEMMA PayloadIsRead ==
    ASSUME NEW v \in Payload
    PROVE  PayloadOf(SymbolsOf(v)) = v
  <1> DEFINE symbols == SymbolsOf(v)
             n == PayloadSymbols
  <1>0. v \in 0 .. Weight[n] - 1 /\ v \in Int /\ n \in Nat
    BY CodecSizes
  <1>1. symbols \in Seq(Symbol) /\ Len(symbols) = n
        /\ \A i \in 1 .. n : symbols[i] = (v \div Weight[n - i]) % Base
    <2>1. symbols \in [1 .. n -> Symbol]
      BY SymbolsOfIsSymbols
    <2>2. symbols \in Seq(Symbol) /\ Len(symbols) = n
      <3> HIDE DEF symbols, n
      <3> QED BY <1>0, <2>1
    <2> QED BY <2>2, SymbolsOfIsSymbols
  <1> HIDE DEF symbols, n
  <1>2. PICK value \in [0 .. n -> Nat] :
              /\ value[0] = 0
              /\ \A i \in 1 .. n : value[i] = value[i - 1] * Base + symbols[i]
              /\ PayloadOf(symbols) = value[n]
    BY <1>1, PayloadGrows
  <1>w. ASSUME NEW i \in 0 .. n PROVE Weight[i] \in Nat \ {0}
    BY Weights DEF n
  <1> DEFINE Good == {i \in 0 .. n : value[i] = v \div Weight[n - i]}
  <1>3. 0 \in Good
    <2> DEFINE p == Weight[n]
    <2>1. p \in Nat \ {0} /\ v \in 0 .. p - 1
      BY <1>0, <1>w
    <2>2. v \div p = 0
      <3> HIDE DEF p
      <3>1. ASSUME NEW z \in Int, z = 0 PROVE (z * p + v) \div p = z
        BY <2>1, <3>1, Stacked
      <3>2. 0 * p + v = v
        BY <2>1
      <3> QED BY <3>1, <3>2
    <2> QED BY <1>0, <1>2, <2>2
  <1>4. ASSUME NEW i \in 1 .. n, i - 1 \in Good PROVE i \in Good
    <2>1. n - i \in 0 .. n /\ n - (i - 1) \in 1 .. n /\ (n - (i - 1)) - 1 = n - i
      BY <1>0
    <2>2. Weight[n - (i - 1)] = Base * Weight[n - i] /\ Weight[n - i] \in Nat \ {0}
      BY <2>1, <1>w, Weights DEF n
    <2>3. PICK q \in Int : q = v \div Weight[n - i]
      BY <1>0, <2>2, Quotient
    <2>4. value[i - 1] = q \div Base
      <3>1. value[i - 1] = v \div Weight[n - (i - 1)]
        BY <1>4
      <3>2. (v \div Weight[n - i]) \div Base = v \div (Base * Weight[n - i])
        BY <1>0, <2>2, CodecSizes, QuotientOfQuotient
      <3> QED BY <2>2, <2>3, <3>1, <3>2
    <2>5. value[i] = value[i - 1] * Base + symbols[i] /\ symbols[i] = q % Base
      BY <1>1, <1>2, <2>3
    <2>6. q = (q \div Base) * Base + (q % Base)
      BY CodecSizes, Quotient
    <2>7. value[i] = q
      BY <2>4, <2>5, <2>6, Zenon
    <2> QED BY <2>3, <2>7
  <1> HIDE DEF Good
  <1>5. n \in Good
    <2>1. 0 .. n \subseteq Good
      BY <1>0, <1>3, <1>4, Climb
    <2> QED BY <1>0, <2>1
  <1>6. v \div Weight[n - n] = v
    <2>1. Weight[n - n] = 1 /\ v = v * 1 + 0
      BY <1>0, Weights
    <2>2. 1 \in Nat \ {0} /\ 0 \in 0 .. 1 - 1
      OBVIOUS
    <2> QED BY <1>0, <2>1, <2>2, Stacked
  <1> QED
    BY <1>2, <1>5, <1>6 DEF Good, symbols

\* Conversely, as many symbols as a payload has are the symbols of the payload
\* they are read as: no two codes are read as the same payload.
LEMMA SymbolsAreRead ==
    ASSUME NEW symbols \in [1 .. PayloadSymbols -> Symbol]
    PROVE  PayloadOf(symbols) \in Payload /\ SymbolsOf(PayloadOf(symbols)) = symbols
  <1> DEFINE n == PayloadSymbols
  <1>0. n \in Nat /\ symbols \in Seq(Symbol) /\ Len(symbols) = n
    BY CodecSizes
  <1>1. PICK value \in [0 .. n -> Nat] :
              /\ value[0] = 0
              /\ \A i \in 1 .. n : value[i] = value[i - 1] * Base + symbols[i]
              /\ PayloadOf(symbols) = value[n]
    BY <1>0, PayloadGrows
  <1>2. \A i \in 1 .. n : symbols[i] \in 0 .. Base - 1
    BY CodecSizes
  <1>w. ASSUME NEW i \in 0 .. n PROVE Weight[i] \in Nat \ {0}
    BY Weights
  <1>3. \A i \in 1 .. n : Weight[i] = Base * Weight[i - 1]
    BY Weights
  <1>4. Weight[0] = 1
    BY Weights
  <1>5. Payload = 0 .. Weight[n] - 1
    BY CodecSizes
  <1>6. \A v : SymbolsOf(v) = [i \in 1 .. n |-> (v \div Weight[n - i]) % Base]
    BY DEF SymbolsOf
  <1> HIDE DEF n
  <1>7. n \in {i \in 0 .. n : value[i] < Weight[i]}
    <2> DEFINE Good == {i \in 0 .. n : value[i] < Weight[i]}
    <2>1. 0 \in Good
      BY <1>0, <1>1, <1>4
    <2>2. ASSUME NEW i \in 1 .. n, i - 1 \in Good PROVE i \in Good
      <3>1. PICK x \in Nat : x = value[i - 1]
        BY <1>0, <1>1
      <3>2. PICK w \in Nat \ {0} : w = Weight[i - 1]
        BY <1>0, <1>w
      <3>3. x \in 0 .. w - 1
        BY <2>2, <3>1, <3>2
      <3>4. x * Base + symbols[i] \in 0 .. w * Base - 1
        BY <1>2, <3>2, <3>3, CodecSizes, StackedFits
      <3>5. w * Base = Base * w
        BY <3>2, CodecSizes, SMTT(20)
      <3>6. value[i] = x * Base + symbols[i] /\ Weight[i] = w * Base
        BY <1>1, <1>3, <3>1, <3>2, <3>5
      <3>7. value[i] < Weight[i]
        <4> DEFINE y == x * Base + symbols[i]
                   z == w * Base
        <4>1. z \in Nat
          BY <3>2, CodecSizes, SMTT(20)
        <4>2. y \in 0 .. z - 1
          BY <3>4
        <4> HIDE DEF y, z
        <4>3. y < z
          BY <4>1, <4>2
        <4> QED BY <3>6, <4>3 DEF y, z
      <3> QED BY <3>7
    <2> HIDE DEF Good
    <2>3. 0 .. n \subseteq Good
      BY <1>0, <2>1, <2>2, Climb
    <2> QED BY <1>0, <2>3 DEF Good
  <1>8. PICK v \in Nat : v = value[n]
    BY <1>0, <1>1
  <1>9. v \in Payload
    BY <1>0, <1>5, <1>7, <1>8, <1>w
  <1> DEFINE Left == {k \in 0 .. n : v \div Weight[k] = value[n - k]}
  <1>10. 0 .. n \subseteq Left
    <2>1. 0 \in Left
      <3>1. v = v * 1 + 0 /\ n - 0 = n /\ 1 \in Nat \ {0} /\ 0 \in 0 .. 1 - 1
        BY <1>0
      <3>2. v \div 1 = v
        BY <3>1, Stacked
      <3> QED BY <1>0, <1>4, <1>8, <3>1, <3>2
    <2>2. ASSUME NEW k \in 1 .. n, k - 1 \in Left PROVE k \in Left
      <3>1. /\ n - k \in 0 .. n /\ n - (k - 1) \in 1 .. n /\ (n - (k - 1)) - 1 = n - k
            /\ k - 1 \in 0 .. n
        BY <1>0
      <3>2. PICK w \in Nat \ {0} : w = Weight[k - 1]
        BY <3>1, <1>w
      <3>3. v \div w = value[n - (k - 1)]
        BY <2>2, <3>2
      <3>4. value[n - (k - 1)] = value[n - k] * Base + symbols[n - (k - 1)]
        BY <1>1, <3>1
      <3>5. (value[n - k] * Base + symbols[n - (k - 1)]) \div Base = value[n - k]
        <4>1. value[n - k] \in Int /\ symbols[n - (k - 1)] \in 0 .. Base - 1
          BY <1>1, <1>2, <3>1
        <4> QED BY <4>1, CodecSizes, Stacked
      <3>6. (v \div w) \div Base = v \div (Base * w)
        BY <3>2, CodecSizes, QuotientOfQuotient
      <3>7. v \div Weight[k] = value[n - k]
        BY <1>3, <3>2, <3>3, <3>4, <3>5, <3>6
      <3> QED BY <3>7
    <2> HIDE DEF Left
    <2> QED BY <1>0, <2>1, <2>2, Climb
  <1>11. ASSUME NEW i \in 1 .. n
         PROVE  (v \div Weight[n - i]) % Base = symbols[i]
    <2>1. n - i \in 0 .. n /\ n - (n - i) = i /\ i - 1 \in 0 .. n
      BY <1>0
    <2>2. v \div Weight[n - i] = value[i]
      BY <1>10, <2>1
    <2>3. value[i - 1] \in Int
      BY <1>1, <2>1
    <2>4. (value[i - 1] * Base + symbols[i]) % Base = symbols[i]
      BY <1>2, <2>3, CodecSizes, Stacked
    <2> QED BY <1>1, <2>2, <2>4
  <1>12. SymbolsOf(v) = symbols
    <2>1. symbols = [i \in 1 .. n |-> symbols[i]]
      BY DEF n
    <2> QED BY <1>6, <1>11, <2>1
  <1> QED BY <1>1, <1>8, <1>9, <1>12

-----------------------------------------------------------------------------
(* The characters of a code.                                               *)

\* No letter is in the alphabet twice, and none is small and large.
LEMMA Letters ==
    /\ DOMAIN Lower = 1 .. 26 /\ DOMAIN Upper = 1 .. 26
    /\ \A i, j \in 1 .. 26 : Lower[i] = Lower[j] => i = j
    /\ \A i, j \in 1 .. 26 : Upper[i] = Upper[j] => i = j
    /\ \A i, j \in 1 .. 26 : Lower[i] # Upper[j]
    /\ \A i \in 1 .. 26 : Lower[i] \notin Separator /\ Upper[i] \notin Separator
  <1>1. DOMAIN Lower = 1 .. 26 /\ DOMAIN Upper = 1 .. 26
    BY DEF Lower, Upper
  <1>2. \A i, j \in 1 .. 26 : Lower[i] = Lower[j] => i = j
    BY SMTT(60) DEF Lower
  <1>3. \A i, j \in 1 .. 26 : Upper[i] = Upper[j] => i = j
    BY SMTT(60) DEF Upper
  <1>4. \A i, j \in 1 .. 26 : Lower[i] # Upper[j]
    BY SMTT(60) DEF Lower, Upper
  <1>5. \A i \in 1 .. 26 : Lower[i] \notin Separator /\ Upper[i] \notin Separator
    <2> DEFINE Small == {"a", "b", "c", "d", "e", "f", "g", "h", "i", "j", "k", "l", "m",
                         "n", "o", "p", "q", "r", "s", "t", "u", "v", "w", "x", "y", "z"}
               Large == {"A", "B", "C", "D", "E", "F", "G", "H", "I", "J", "K", "L", "M",
                         "N", "O", "P", "Q", "R", "S", "T", "U", "V", "W", "X", "Y", "Z"}
    <2>1. \A i \in 1 .. 26 : Lower[i] \in Small
      BY SMTT(60) DEF Lower
    <2>2. \A i \in 1 .. 26 : Upper[i] \in Large
      BY SMTT(60) DEF Upper
    <2>3. \A c \in Small : c \notin Separator
      BY Zenon DEF Separator
    <2>4. \A c \in Large : c \notin Separator
      BY Zenon DEF Separator
    <2> HIDE DEF Small, Large
    <2> QED BY <2>1, <2>2, <2>3, <2>4
  <1> QED BY <1>1, <1>2, <1>3, <1>4, <1>5

\* toupper takes a small letter to its large one, and leaves the rest alone.
LEMMA ToUpperIs ==
    /\ \A i \in 1 .. 26 : ToUpper(Lower[i]) = Upper[i]
    /\ \A c : (\A i \in 1 .. 26 : Lower[i] # c) => ToUpper(c) = c
  <1>1. ASSUME NEW i \in 1 .. 26 PROVE ToUpper(Lower[i]) = Upper[i]
    <2>1. (CHOOSE j \in DOMAIN Lower : Lower[j] = Lower[i]) = i
      BY Letters
    <2>2. \E j \in DOMAIN Lower : Lower[j] = Lower[i]
      BY Letters, SMTT(40)
    <2> QED BY <2>1, <2>2 DEF ToUpper
  <1>2. ASSUME NEW c, \A i \in 1 .. 26 : Lower[i] # c PROVE ToUpper(c) = c
    BY <1>2, Letters DEF ToUpper
  <1> QED BY <1>1, <1>2

\* However a character is spelled, it is read as the same one.
LEMMA SpellingsAreRead ==
    ASSUME NEW c, NEW d \in Spellings(c)
    PROVE  /\ Canonical(d) = Canonical(c)
           /\ d \in Separator <=> c \in Separator
  <1>l. /\ Lower[9] = "i" /\ Lower[12] = "l" /\ Lower[15] = "o"
        /\ Lower[21] = "u" /\ Lower[22] = "v"
        /\ Upper[9] = "I" /\ Upper[12] = "L" /\ Upper[15] = "O"
        /\ Upper[21] = "U" /\ Upper[22] = "V"
    BY DEF Lower, Upper
  <1>u. /\ ToUpper("i") = "I" /\ ToUpper("l") = "L" /\ ToUpper("o") = "O"
        /\ ToUpper("u") = "U" /\ ToUpper("v") = "V"
    BY <1>l, ToUpperIs, SMTT(40)
  <1>v. /\ ToUpper("I") = "I" /\ ToUpper("L") = "L" /\ ToUpper("O") = "O"
        /\ ToUpper("U") = "U" /\ ToUpper("V") = "V"
    BY <1>l, ToUpperIs, Letters
  <1>d. ToUpper("0") = "0" /\ ToUpper("1") = "1"
    <2>1. \A i \in 1 .. 26 : Lower[i] # "0" /\ Lower[i] # "1"
      BY SMTT(60) DEF Lower
    <2> QED BY <2>1, ToUpperIs
  <1>1. CASE c = "0"
    <2>1. d \in {"0", "O", "o"}
      BY <1>1 DEF Spellings
    <2> QED BY <1>1, <1>d, <1>u, <1>v, <2>1 DEF Canonical, LookAlike, Separator
  <1>2. CASE c = "1"
    <2>1. d \in {"1", "I", "i", "L", "l"}
      BY <1>2 DEF Spellings
    <2> QED BY <1>2, <1>d, <1>u, <1>v, <2>1 DEF Canonical, LookAlike, Separator
  <1>3. CASE c = "V"
    <2>1. d \in {"V", "v", "U", "u"}
      BY <1>3 DEF Spellings
    <2> QED BY <1>3, <1>u, <1>v, <2>1 DEF Canonical, LookAlike, Separator
  <1>4. CASE c \notin {"0", "1", "V"}
    <2>1. d \in {c} \union {Lower[i] : i \in {j \in DOMAIN Upper : Upper[j] = c}}
      BY <1>4 DEF Spellings
    <2>2. CASE d # c
      <3>1. PICK i \in 1 .. 26 : Upper[i] = c /\ d = Lower[i]
        BY <2>1, <2>2, Letters, SMTT(40)
      <3>2. ToUpper(d) = c /\ ToUpper(c) = c
        BY <3>1, ToUpperIs, Letters, SMTT(40)
      <3>3. d \notin Separator /\ c \notin Separator
        BY <3>1, Letters
      <3> QED BY <3>2, <3>3, SMTT(40) DEF Canonical
    <2> QED BY <2>2
  <1> QED BY <1>1, <1>2, <1>3, <1>4

-----------------------------------------------------------------------------
(* What decode keeps of a text.                                            *)

\* What the characters of a set are read as.
Read(T) == {Canonical(c) : c \in T}

\* The texts decode goes through, character by character.
LEMMA NormalizedGrows ==
    ASSUME NEW T, NEW s \in Seq(T)
    PROVE  \E kept \in [0 .. Len(s) -> Seq(Read(T))] :
              /\ kept[0] = <<>>
              /\ \A i \in 1 .. Len(s) :
                    kept[i] = IF s[i] \in Separator THEN kept[i - 1]
                              ELSE Append(kept[i - 1], Canonical(s[i]))
              /\ Normalized(s) = kept[Len(s)]
  <1> DEFINE n == Len(s)
             V == Seq(Read(T))
             h == [i \in 1 .. n |-> [x \in V |->
                      IF s[i] \in Separator THEN x ELSE Append(x, Canonical(s[i]))]]
             Reads(f) == f = [i \in 0 .. n |->
                                 IF i = 0 THEN <<>>
                                 ELSE IF s[i] \in Separator THEN f[i - 1]
                                 ELSE Append(f[i - 1], Canonical(s[i]))]
  <1>0. <<>> \in V /\ n \in Nat
    OBVIOUS
  <1>1. \A i \in 1 .. n : \A x \in V : Append(x, Canonical(s[i])) \in V
    <2>1. \A i \in 1 .. n : Canonical(s[i]) \in Read(T)
      BY DEF Read
    <2> QED BY <2>1
  <1>2. h \in [1 .. n -> [V -> V]]
    BY <1>1
  <1>3. \A i \in 1 .. n : \A x \in V :
           h[i][x] = IF s[i] \in Separator THEN x ELSE Append(x, Canonical(s[i]))
    OBVIOUS
  <1> HIDE DEF h, n, V
  <1>4. PICK f : Solution(f, V, n, <<>>, h)
    BY <1>0, <1>2, Recursion, Zenon
  <1>5. f \in [0 .. n -> V] /\ f[0] = <<>>
    BY <1>4 DEF Solution, Obeys
  <1>6. \A i \in 1 .. n :
           f[i] = IF s[i] \in Separator THEN f[i - 1] ELSE Append(f[i - 1], Canonical(s[i]))
    <2>1. \A i \in 1 .. n : f[i - 1] \in V
      BY <1>0, <1>5
    <2> QED BY <1>3, <1>4, <2>1, SMTT(40) DEF Solution, Obeys
  <1> DEFINE kept == CHOOSE g : Reads(g)
  <1>7. Reads(kept)
    <2>1. \A i \in 0 .. n : f[i] = IF i = 0 THEN <<>>
                                   ELSE IF s[i] \in Separator THEN f[i - 1]
                                   ELSE Append(f[i - 1], Canonical(s[i]))
      <3>1. ASSUME NEW i \in 1 .. n PROVE i # 0
        OBVIOUS
      <3>2. ASSUME NEW i \in 0 .. n, i # 0 PROVE i \in 1 .. n
        BY <1>0, <3>2
      <3> QED BY <1>5, <1>6, <3>2, Zenon
    <2>2. Reads(f)
      BY <1>5, <2>1
    <2> QED BY <2>2
  <1>8. Normalized(s) = kept[n]
    BY DEF Normalized, n
  <1> HIDE DEF kept
  <1>9. Obeys(kept, V, n, <<>>, h)
    <2>1. 0 \in 0 .. n /\ \A i \in 1 .. n : i \in 0 .. n /\ i # 0
      BY <1>0
    <2>2. kept[0] = <<>>
      BY <1>7, <2>1
    <2>3. ASSUME NEW i \in 1 .. n, kept[i - 1] \in V
          PROVE  kept[i] = h[i][kept[i - 1]]
      <3>1. kept[i] = IF s[i] \in Separator THEN kept[i - 1]
                      ELSE Append(kept[i - 1], Canonical(s[i]))
        BY <1>7, <2>1
      <3> QED BY <1>3, <2>3, <3>1
    <2> QED BY <2>2, <2>3 DEF Obeys
  <1>10. kept[n] = f[n]
    BY <1>0, <1>4, <1>9 DEF Solution
  <1> QED
    BY <1>5, <1>6, <1>8, <1>10 DEF n, V

\* A character more is read after the others, unless it sets groups apart.
LEMMA NormalizedStep ==
    ASSUME NEW T
    PROVE  /\ Normalized(<<>>) = <<>>
           /\ \A s \in Seq(T) : Normalized(s) \in Seq(Read(T))
           /\ \A s \in Seq(T), c \in T :
                 Normalized(Append(s, c)) =
                     IF c \in Separator THEN Normalized(s)
                     ELSE Append(Normalized(s), Canonical(c))
  <1>1. Normalized(<<>>) = <<>>
    <2>1. ASSUME NEW s \in Seq(T), s = <<>> PROVE Normalized(s) = <<>>
      <3>1. Len(s) = 0
        BY <2>1
      <3>2. PICK f : f[0] = <<>> /\ Normalized(s) = f[Len(s)]
        BY NormalizedGrows, Zenon
      <3> QED BY <3>1, <3>2
    <2>2. <<>> \in Seq(T)
      OBVIOUS
    <2> QED BY <2>1, <2>2, Zenon
  <1>2. ASSUME NEW s \in Seq(T) PROVE Normalized(s) \in Seq(Read(T))
    <2>1. Len(s) \in 0 .. Len(s)
      OBVIOUS
    <2> QED BY <2>1, NormalizedGrows
  <1>3. ASSUME NEW s \in Seq(T), NEW c \in T
        PROVE  Normalized(Append(s, c)) =
                   IF c \in Separator THEN Normalized(s)
                   ELSE Append(Normalized(s), Canonical(c))
    <2> DEFINE n == Len(s)
               t == Append(s, c)
    <2>1. /\ t \in Seq(T) /\ Len(t) = n + 1 /\ n \in Nat
          /\ t[n + 1] = c /\ \A i \in 1 .. n : t[i] = s[i]
      OBVIOUS
    <2>2. PICK f \in [0 .. n -> Seq(Read(T))] :
             /\ f[0] = <<>>
             /\ \A i \in 1 .. n :
                   f[i] = IF s[i] \in Separator THEN f[i - 1]
                          ELSE Append(f[i - 1], Canonical(s[i]))
             /\ Normalized(s) = f[n]
      BY NormalizedGrows
    <2> HIDE DEF t, n
    <2>3. PICK g \in [0 .. n + 1 -> Seq(Read(T))] :
             /\ g[0] = <<>>
             /\ \A i \in 1 .. n + 1 :
                   g[i] = IF t[i] \in Separator THEN g[i - 1]
                          ELSE Append(g[i - 1], Canonical(t[i]))
             /\ Normalized(t) = g[n + 1]
      <3>1. \E g \in [0 .. Len(t) -> Seq(Read(T))] :
             /\ g[0] = <<>>
             /\ \A i \in 1 .. Len(t) :
                   g[i] = IF t[i] \in Separator THEN g[i - 1]
                          ELSE Append(g[i - 1], Canonical(t[i]))
             /\ Normalized(t) = g[Len(t)]
        BY <2>1, NormalizedGrows, Zenon
      <3> QED BY <2>1, <3>1, Zenon
    <2> DEFINE Alike == {i \in 0 .. n : f[i] = g[i]}
    <2>4. 0 \in Alike
      BY <2>1, <2>2, <2>3
    <2>5. ASSUME NEW i \in 1 .. n, i - 1 \in Alike PROVE i \in Alike
      <3>1. i \in 1 .. n + 1 /\ t[i] = s[i] /\ f[i - 1] = g[i - 1]
        BY <2>1, <2>5
      <3> QED BY <2>2, <2>3, <3>1
    <2> HIDE DEF Alike
    <2>6. 0 .. n \subseteq Alike
      BY <2>1, <2>4, <2>5, Climb
    <2>7. f[n] = g[n]
      BY <2>1, <2>6 DEF Alike
    <2>8. g[n + 1] = IF c \in Separator THEN g[n] ELSE Append(g[n], Canonical(c))
      <3>1. n + 1 \in 1 .. n + 1 /\ (n + 1) - 1 = n
        BY <2>1
      <3> QED BY <2>1, <2>3, <3>1
    <2> QED BY <2>2, <2>3, <2>7, <2>8 DEF t
  <1> QED BY <1>1, <1>2, <1>3

\* Appending to the second of two texts appends to the two.
LEMMA AppendBehind ==
    ASSUME NEW T, NEW a \in Seq(T), NEW b \in Seq(T), NEW c \in T
    PROVE  a \o Append(b, c) = Append(a \o b, c)
  <1>1. <<c>> \in Seq(T) /\ a \o b \in Seq(T)
    BY ConcatProperties
  <1>2. Append(b, c) = b \o <<c>> /\ Append(a \o b, c) = (a \o b) \o <<c>>
    BY <1>1, AppendIsConcat
  <1> QED BY <1>1, <1>2, ConcatAssociative

\* The beginning of a sequence grows by its elements.
LEMMA Beginning ==
    ASSUME NEW T, NEW t \in Seq(T), NEW i \in 1 .. Len(t)
    PROVE  /\ SubSeq(t, 1, i - 1) \in Seq(T)
           /\ SubSeq(t, 1, i) = Append(SubSeq(t, 1, i - 1), t[i])
  <1>1. SubSeq(t, 1, i - 1) \in Seq(T) /\ Len(SubSeq(t, 1, i - 1)) = i - 1
        /\ \A j \in 1 .. i - 1 : SubSeq(t, 1, i - 1)[j] = t[j]
    OBVIOUS
  <1>2. SubSeq(t, 1, i) \in Seq(T) /\ Len(SubSeq(t, 1, i)) = i
        /\ \A j \in 1 .. i : SubSeq(t, 1, i)[j] = t[j]
    OBVIOUS
  <1> DEFINE a == SubSeq(t, 1, i - 1)
             b == SubSeq(t, 1, i)
  <1>3. t[i] \in T
    OBVIOUS
  <1> HIDE DEF a, b
  <1>4. Append(a, t[i]) \in Seq(T) /\ Len(Append(a, t[i])) = i
        /\ \A j \in 1 .. i : Append(a, t[i])[j] = t[j]
    BY <1>1, <1>3 DEF a
  <1>5. b = Append(a, t[i])
    BY <1>2, <1>4, SeqEqual DEF b
  <1> QED BY <1>1, <1>5 DEF a, b

\* Two texts, one behind the other, are read one behind the other.
LEMMA NormalizedConcat ==
    ASSUME NEW T, NEW s \in Seq(T), NEW t \in Seq(T)
    PROVE  Normalized(s \o t) = Normalized(s) \o Normalized(t)
  <1> DEFINE part(i) == SubSeq(t, 1, i)
             Good == {i \in 0 .. Len(t) :
                        Normalized(s \o part(i)) = Normalized(s) \o Normalized(part(i))}
  <1>n. Normalized(s) \in Seq(Read(T)) /\ Len(t) \in Nat
    BY NormalizedStep
  <1>1. 0 \in Good
    <2>1. part(0) = <<>>
      OBVIOUS
    <2>2. s \o <<>> = s /\ Normalized(s) \o <<>> = Normalized(s)
      BY <1>n, ConcatEmptySeq
    <2>3. Normalized(<<>>) = <<>>
      BY NormalizedStep
    <2>4. Normalized(s \o part(0)) = Normalized(s) \o Normalized(part(0))
      BY <2>1, <2>2, <2>3, Zenon
    <2> HIDE DEF part
    <2> QED BY <1>n, <2>4
  <1>2. ASSUME NEW i \in 1 .. Len(t), i - 1 \in Good PROVE i \in Good
    <2> DEFINE p == part(i - 1)
               c == t[i]
    <2>1. p \in Seq(T) /\ part(i) = Append(p, c) /\ c \in T
      BY Beginning
    <2>2. s \o part(i) = Append(s \o p, c) /\ s \o p \in Seq(T)
      <3> HIDE DEF part, p, c
      <3> QED BY <2>1, AppendBehind, ConcatProperties
    <2>3. Normalized(s \o p) = Normalized(s) \o Normalized(p)
      BY <1>2
    <2>4. Normalized(p) \in Seq(Read(T)) /\ Canonical(c) \in Read(T)
      <3> HIDE DEF p, c, part
      <3> QED BY <2>1, NormalizedStep DEF Read
    <2>5. Normalized(s \o part(i)) = Normalized(s) \o Normalized(part(i))
      <3> HIDE DEF p, c, part
      <3>1. CASE c \in Separator
        <4>1. Normalized(Append(s \o p, c)) = Normalized(s \o p)
          BY <2>1, <2>2, <3>1, NormalizedStep
        <4>2. Normalized(Append(p, c)) = Normalized(p)
          BY <2>1, <3>1, NormalizedStep
        <4> QED BY <2>1, <2>2, <2>3, <4>1, <4>2
      <3>2. CASE c \notin Separator
        <4>1. Normalized(Append(s \o p, c)) = Append(Normalized(s \o p), Canonical(c))
          BY <2>1, <2>2, <3>2, NormalizedStep
        <4>2. Normalized(Append(p, c)) = Append(Normalized(p), Canonical(c))
          BY <2>1, <3>2, NormalizedStep
        <4>3. Normalized(s) \o Append(Normalized(p), Canonical(c))
                 = Append(Normalized(s) \o Normalized(p), Canonical(c))
          BY <1>n, <2>4, AppendBehind
        <4> QED BY <2>1, <2>2, <2>3, <4>1, <4>2, <4>3
      <3> QED BY <3>1, <3>2
    <2> HIDE DEF part
    <2> QED BY <2>5
  <1> HIDE DEF Good
  <1>3. Len(t) \in Good
    <2>1. 0 .. Len(t) \subseteq Good
      BY <1>n, <1>1, <1>2, Climb
    <2> QED BY <1>n, <2>1
  <1>4. part(Len(t)) = t
    BY SubSeqFull
  <1> HIDE DEF part
  <1> QED BY <1>3, <1>4 DEF Good

\* A text of one character.
LEMMA NormalizedOne ==
    ASSUME NEW c
    PROVE  Normalized(<<c>>) = IF c \in Separator THEN <<>> ELSE <<Canonical(c)>>
  <1>1. <<>> \in Seq({c}) /\ <<c>> = Append(<<>>, c)
    OBVIOUS
  <1>2. Normalized(Append(<<>>, c)) =
           IF c \in Separator THEN Normalized(<<>>)
           ELSE Append(Normalized(<<>>), Canonical(c))
    BY <1>1, NormalizedStep
  <1> QED BY <1>1, <1>2, NormalizedStep

-----------------------------------------------------------------------------
(* A printed code, and what is read into a text.                           *)

\* How encode sets groups apart does not matter to decode.
LEMMA GroupsAreRead ==
    ASSUME NEW s \in Seq(ToSet(Alphabet))
    PROVE  /\ Grouped(s) \in Seq(ToSet(Alphabet) \union Separator)
           /\ Normalized(Grouped(s)) = s
  <1> DEFINE n == Len(s)
             m == n + ((n - 1) \div 5)
             g == Grouped(s)
             T == ToSet(Alphabet) \union Separator
             at(j) == j - (j \div 6)
  <1>1. n \in Nat /\ \A i \in 1 .. n : s[i] \in ToSet(Alphabet)
    OBVIOUS
  <1>2. n = 0 \/ m \in Nat
    BY <1>1
  <1>3. m - (m \div 6) = n \/ n = 0
    BY <1>1
  <1>4. \A j \in 1 .. m : j % 6 # 0 => at(j) \in 1 .. n
    BY <1>1
  <1>5. \A j \in 1 .. m : g[j] = IF j % 6 = 0 THEN "-" ELSE s[at(j)]
    BY DEF Grouped
  <1>6. DOMAIN g = 1 .. m /\ g = [j \in 1 .. m |-> g[j]]
    BY DEF Grouped
  <1>7. "-" \in Separator
    BY DEF Separator
  <1> HIDE DEF g, at
  <1>8. \A j \in 1 .. m : g[j] \in T
    BY <1>1, <1>4, <1>5, <1>7
  <1>9. CASE n = 0
    <2>1. s = <<>>
      BY <1>9
    <2>2. g = <<>>
      <3>1. 1 .. m = {}
        <4> HIDE DEF n
        <4> QED BY <1>9
      <3>2. g \in Seq(T) /\ Len(g) = 0
        <4> HIDE DEF m
        <4>1. 1 .. m = 1 .. 0
          BY <3>1
        <4>2. g = [j \in 1 .. 0 |-> g[j]]
          BY <1>6, <4>1, Zenon
        <4>3. [j \in 1 .. 0 |-> g[j]] \in Seq(T) /\ Len([j \in 1 .. 0 |-> g[j]]) = 0
          OBVIOUS
        <4> QED BY <4>2, <4>3, Zenon
      <3> QED BY <3>2
    <2>3. <<>> \in Seq(T) /\ Normalized(<<>>) = <<>>
      BY NormalizedStep
    <2> QED BY <2>1, <2>2, <2>3 DEF g
  <1>10. CASE n # 0
    <2>1. m \in Nat
      BY <1>2, <1>10
    <2>2. g \in Seq(T) /\ Len(g) = m
      <3> QED BY <1>6, <1>8, <2>1
    <2>3. m - (m \div 6) = n
      BY <1>3, <1>10
    <2> HIDE DEF m, n
    <2> DEFINE Good == {j \in 0 .. m : Normalized(SubSeq(g, 1, j)) = SubSeq(s, 1, at(j))}
    <2>4. 0 \in Good
      <3>1. at(0) = 0
        BY DEF at
      <3>2. SubSeq(g, 1, 0) = <<>> /\ SubSeq(s, 1, 0) = <<>>
        OBVIOUS
      <3>3. Normalized(SubSeq(g, 1, 0)) = SubSeq(s, 1, at(0))
        BY <3>1, <3>2, NormalizedStep, Zenon
      <3> QED BY <2>1, <3>3
    <2>5. ASSUME NEW j \in 1 .. m, j - 1 \in Good PROVE j \in Good
      <3>1. SubSeq(g, 1, j - 1) \in Seq(T) /\ SubSeq(g, 1, j) = Append(SubSeq(g, 1, j - 1), g[j])
        BY <2>2, Beginning
      <3>2. Normalized(SubSeq(g, 1, j - 1)) = SubSeq(s, 1, at(j - 1))
        BY <2>5
      <3>3. g[j] \in T
        BY <1>8
      <3>4. CASE j % 6 = 0
        <4>1. g[j] = "-"
          BY <1>5, <3>4
        <4>2. at(j) = at(j - 1)
          BY <3>4 DEF at
        <4>3. Normalized(SubSeq(g, 1, j)) = Normalized(SubSeq(g, 1, j - 1))
          BY <1>7, <3>1, <3>3, <4>1, NormalizedStep, Zenon
        <4>4. Normalized(SubSeq(g, 1, j)) = SubSeq(s, 1, at(j))
          BY <3>2, <4>2, <4>3, Zenon
        <4> QED BY <4>4
      <3>5. CASE j % 6 # 0
        <4>1. g[j] = s[at(j)] /\ at(j) \in 1 .. n
          BY <1>4, <1>5, <3>5
        <4>2. at(j - 1) = at(j) - 1
          BY <3>5 DEF at
        <4>3. g[j] \notin Separator /\ Canonical(g[j]) = g[j]
          BY <1>1, <4>1, CodecAssumption
        <4>4. SubSeq(s, 1, at(j)) = Append(SubSeq(s, 1, at(j) - 1), s[at(j)])
          BY <4>1, Beginning DEF n
        <4>5. Normalized(SubSeq(g, 1, j)) = Append(Normalized(SubSeq(g, 1, j - 1)), g[j])
          <5> HIDE DEF T
          <5>1. SubSeq(g, 1, j - 1) \in Seq(T) /\ g[j] \in T
            BY <3>1, <3>3
          <5>2. \A x \in Seq(T), c \in T :
                   c \notin Separator
                   => Normalized(Append(x, c)) = Append(Normalized(x), Canonical(c))
            BY NormalizedStep
          <5>3. Normalized(Append(SubSeq(g, 1, j - 1), g[j]))
                   = Append(Normalized(SubSeq(g, 1, j - 1)), Canonical(g[j]))
            BY <4>3, <5>1, <5>2, Zenon
          <5> QED BY <3>1, <4>3, <5>3, Zenon
        <4>6. Normalized(SubSeq(g, 1, j)) = SubSeq(s, 1, at(j))
          BY <3>2, <4>1, <4>2, <4>4, <4>5, Zenon
        <4> QED BY <4>6
      <3> QED BY <3>4, <3>5
    <2> HIDE DEF Good
    <2>6. m \in Good
      <3>1. 0 .. m \subseteq Good
        BY <2>1, <2>4, <2>5, Climb
      <3> QED BY <2>1, <3>1
    <2>7. SubSeq(g, 1, m) = g /\ SubSeq(s, 1, n) = s
      BY <2>2, SubSeqFull DEF n
    <2>8. at(m) = n
      BY <2>3 DEF at
    <2>9. Normalized(g) = s
      BY <2>6, <2>7, <2>8 DEF Good
    <2> QED BY <2>2, <2>9 DEF g
  <1> QED BY <1>9, <1>10

\* What a symbol is printed as is read as that symbol.
LEMMA SymbolsOfPrinted ==
    ASSUME NEW symbols \in Seq(Symbol)
    PROVE  LET printed == [i \in DOMAIN symbols |-> Alphabet[symbols[i] + 1]]
           IN  /\ printed \in Seq(ToSet(Alphabet))
               /\ \A s : Normalized(s) = printed => Symbols(s) = {symbols}
  <1> DEFINE printed == [i \in DOMAIN symbols |-> Alphabet[symbols[i] + 1]]
             n == Len(symbols)
  <1>1. n \in Nat /\ DOMAIN symbols = 1 .. n
        /\ \A i \in 1 .. n : symbols[i] \in 0 .. Base - 1
    BY CodecSizes
  <1>2. ASSUME NEW i \in 1 .. n
        PROVE  /\ symbols[i] + 1 \in DOMAIN Alphabet
               /\ Alphabet[symbols[i] + 1] \in ToSet(Alphabet)
    <2>1. symbols[i] + 1 \in 1 .. Base
      BY <1>1, CodecSizes
    <2> QED BY <2>1, CodecSizes DEF ToSet
  <1>3. printed \in Seq(ToSet(Alphabet)) /\ DOMAIN printed = 1 .. n
    BY <1>1, <1>2
  <1>4. ASSUME NEW i \in 1 .. n PROVE SymbolOf(printed[i]) = symbols[i]
    <2> DEFINE k == symbols[i] + 1
    <2>1. k \in DOMAIN Alphabet /\ printed[i] = Alphabet[k] /\ symbols[i] = k - 1
      BY <1>1, <1>2
    <2>2. \A j \in DOMAIN Alphabet : Alphabet[j] = Alphabet[k] => j = k
      BY <2>1, CodecAssumption DEF IsInjective
    <2> HIDE DEF k, printed
    <2>3. (CHOOSE j \in DOMAIN Alphabet : Alphabet[j] = Alphabet[k]) = k
      BY <2>1, <2>2
    <2> QED BY <2>1, <2>3 DEF SymbolOf
  <1>5. ASSUME NEW s, Normalized(s) = printed PROVE Symbols(s) = {symbols}
    <2>1. \A i \in DOMAIN Normalized(s) : Normalized(s)[i] \in ToSet(Alphabet)
      BY <1>2, <1>3, <1>5
    <2>2. Symbols(s) = {[i \in DOMAIN Normalized(s) |-> SymbolOf(Normalized(s)[i])]}
      BY <2>1 DEF Symbols
    <2>3. [i \in DOMAIN Normalized(s) |-> SymbolOf(Normalized(s)[i])]
             = [i \in 1 .. n |-> symbols[i]]
      <3> HIDE DEF printed
      <3> QED BY <1>3, <1>4, <1>5
    <2>4. [i \in 1 .. n |-> symbols[i]] = symbols
      BY <1>1
    <2> QED BY <2>2, <2>3, <2>4
  <1> QED BY <1>3, <1>5

\* Whatever is read is symbols.
LEMMA SymbolsAreSymbols ==
    ASSUME NEW T, NEW s \in Seq(T), NEW symbols \in Symbols(s)
    PROVE  symbols \in Seq(Symbol) /\ Symbols(s) = {symbols}
  <1>1. Normalized(s) \in Seq(Read(T))
    BY NormalizedStep
  <1>2. \A i \in DOMAIN Normalized(s) : Normalized(s)[i] \in ToSet(Alphabet)
    BY DEF Symbols
  <1>3. Symbols(s) = {[i \in DOMAIN Normalized(s) |-> SymbolOf(Normalized(s)[i])]}
    BY <1>2 DEF Symbols
  <1>4. ASSUME NEW c \in ToSet(Alphabet) PROVE SymbolOf(c) \in Symbol
    <2>1. \E j \in DOMAIN Alphabet : Alphabet[j] = c
      BY DEF ToSet
    <2>2. (CHOOSE j \in DOMAIN Alphabet : Alphabet[j] = c) \in DOMAIN Alphabet
      BY <2>1
    <2>3. \A j \in DOMAIN Alphabet : j - 1 \in Symbol
      BY CodecSizes
    <2> QED BY <2>2, <2>3 DEF SymbolOf
  <1> DEFINE t == Normalized(s)
             r == [i \in DOMAIN t |-> SymbolOf(t[i])]
  <1>5. r \in Seq(Symbol)
    <2>1. DOMAIN t = 1 .. Len(t) /\ Len(t) \in Nat
      BY <1>1
    <2>2. \A i \in 1 .. Len(t) : SymbolOf(t[i]) \in Symbol
      BY <1>2, <1>4, <2>1
    <2> HIDE DEF t
    <2> QED BY <2>1, <2>2
  <1> QED BY <1>3, <1>5

\* The characters a text may contain.
Character ==
    UNION {ToSet(Alphabet), Separator, Stray,
           {"0", "1", "O", "o", "I", "i", "L", "l", "V", "v", "U", "u"},
           {Lower[i] : i \in DOMAIN Lower}}

\* The two halves of a code.
LEMMA Halves ==
    ASSUME NEW secret \in Secret, NEW payload \in Payload
    PROVE  /\ SymbolsOf(payload) \in Seq(Symbol) /\ Len(SymbolsOf(payload)) = PayloadSymbols
           /\ Signature[secret][payload] \in Seq(Symbol)
           /\ Len(Signature[secret][payload]) = SignatureSymbols
  <1>1. SymbolsOf(payload) \in [1 .. PayloadSymbols -> Symbol]
    BY SymbolsOfIsSymbols
  <1>2. Signature[secret][payload] \in [1 .. SignatureSymbols -> Symbol]
    BY CodecAssumption
  <1>3. PayloadSymbols \in Nat /\ SignatureSymbols \in Nat
    BY CodecSizes
  <1>4. \A n \in Nat : \A f \in [1 .. n -> Symbol] : f \in Seq(Symbol) /\ Len(f) = n
    OBVIOUS
  <1> QED BY <1>1, <1>2, <1>3, <1>4

\* What lies in a sequence of two is found where it was put.
LEMMA TakenApart ==
    ASSUME NEW T, NEW a \in Seq(T), NEW b \in Seq(T)
    PROVE  /\ a \o b \in Seq(T) /\ Len(a \o b) = Len(a) + Len(b)
           /\ SubSeq(a \o b, 1, Len(a)) = a
           /\ SubSeq(a \o b, Len(a) + 1, Len(a \o b)) = b
  <1> DEFINE c == a \o b
             m == Len(a)
             n == Len(b)
             p == SubSeq(c, 1, m)
             q == SubSeq(c, m + 1, m + n)
  <1>1. /\ c \in Seq(T) /\ Len(c) = m + n /\ m \in Nat /\ n \in Nat
        /\ \A i \in 1 .. m + n : c[i] = IF i <= m THEN a[i] ELSE b[i - m]
    BY ConcatProperties
  <1> HIDE DEF c
  <1>2. p \in Seq(T) /\ Len(p) = m /\ \A i \in 1 .. m : p[i] = a[i]
    <2>1. p \in Seq(T) /\ Len(p) = m /\ \A i \in 1 .. m : p[i] = c[i]
      <3> HIDE DEF m, n
      <3> QED BY <1>1
    <2> QED BY <1>1, <2>1
  <1>3. q \in Seq(T) /\ Len(q) = n /\ \A i \in 1 .. n : q[i] = b[i]
    <2>1. q \in Seq(T) /\ Len(q) = n /\ \A i \in 1 .. n : q[i] = c[m + i]
      <3> HIDE DEF m, n
      <3> QED BY <1>1
    <2>2. \A i \in 1 .. n : m + i \in 1 .. m + n /\ ~(m + i <= m) /\ (m + i) - m = i
      <3> HIDE DEF m, n
      <3> QED BY <1>1
    <2> QED BY <1>1, <2>1, <2>2
  <1> HIDE DEF p, q
  <1>4. p = a /\ q = b
    BY <1>2, <1>3, SeqEqual
  <1> QED BY <1>1, <1>4 DEF c, p, q

\* decode takes a text for the token of a payload exactly when its symbols are
\* the payload's and their signature.
LEMMA DecodeIs ==
    ASSUME NEW T, NEW s \in Seq(T), NEW secret \in Secret
    PROVE  /\ \A payload \in Payload :
                 VersionOf(payload) = VERSION
                 /\ Symbols(s) = {SymbolsOf(payload) \o Signature[secret][payload]}
                 => Decode(s, secret) = TokenOf(payload)
           /\ Decode(s, secret) # NoToken =>
                 \E payload \in Payload :
                    /\ VersionOf(payload) = VERSION
                    /\ Symbols(s) = {SymbolsOf(payload) \o Signature[secret][payload]}
                    /\ Decode(s, secret) = TokenOf(payload)
  <1>0. PayloadSymbols \in Nat /\ SignatureSymbols \in Nat
    BY CodecSizes
  <1>1. ASSUME NEW payload \in Payload, VersionOf(payload) = VERSION,
               Symbols(s) = {SymbolsOf(payload) \o Signature[secret][payload]}
        PROVE  Decode(s, secret) = TokenOf(payload)
    <2> DEFINE a == SymbolsOf(payload)
               b == Signature[secret][payload]
    <2>1. a \in Seq(Symbol) /\ Len(a) = PayloadSymbols
          /\ b \in Seq(Symbol) /\ Len(b) = SignatureSymbols
          /\ PayloadOf(a) = payload
      BY Halves, PayloadIsRead
    <2> HIDE DEF a, b
    <2>2. /\ Len(a \o b) = PayloadSymbols + SignatureSymbols
          /\ SubSeq(a \o b, 1, PayloadSymbols) = a
          /\ SubSeq(a \o b, PayloadSymbols + 1, Len(a \o b)) = b
      BY <2>1, TakenApart
    <2>3. Symbols(s) = {a \o b} /\ b = Signature[secret][payload]
      BY <1>1 DEF a, b
    <2>4. (CHOOSE symbols \in Symbols(s) : TRUE) = a \o b
      BY <2>3
    <2> QED BY <1>1, <2>1, <2>2, <2>3, <2>4 DEF Decode
  <1>2. ASSUME Decode(s, secret) # NoToken
        PROVE  \E payload \in Payload :
                    /\ VersionOf(payload) = VERSION
                    /\ Symbols(s) = {SymbolsOf(payload) \o Signature[secret][payload]}
                    /\ Decode(s, secret) = TokenOf(payload)
    <2>1. PICK symbols \in Symbols(s) :
             /\ Len(symbols) = PayloadSymbols + SignatureSymbols
             /\ LET payload == PayloadOf(SubSeq(symbols, 1, PayloadSymbols))
                IN  /\ SubSeq(symbols, PayloadSymbols + 1, Len(symbols))
                           = Signature[secret][payload]
                    /\ VersionOf(payload) = VERSION
      BY <1>2 DEF Decode
    <2>2. symbols \in Seq(Symbol) /\ Symbols(s) = {symbols}
      BY SymbolsAreSymbols
    <2> DEFINE a == SubSeq(symbols, 1, PayloadSymbols)
               b == SubSeq(symbols, PayloadSymbols + 1, Len(symbols))
    <2>3. a \in [1 .. PayloadSymbols -> Symbol]
      <3>1. \A i \in 1 .. PayloadSymbols : symbols[i] \in Symbol
        BY <1>0, <2>1, <2>2
      <3>2. a \in Seq(Symbol) /\ Len(a) = PayloadSymbols
        BY <1>0, <3>1, SubSeqProperties
      <3> HIDE DEF a
      <3> QED BY <1>0, <3>2
    <2>4. a \o b = symbols
      <3>1. SubSeq(symbols, 1, PayloadSymbols) \o SubSeq(symbols, PayloadSymbols + 1, Len(symbols))
               = SubSeq(symbols, 1, Len(symbols))
        <4>1. /\ 1 \in 1 .. Len(symbols) + 1
              /\ PayloadSymbols \in 1 - 1 .. Len(symbols)
              /\ Len(symbols) \in PayloadSymbols .. Len(symbols)
          BY <1>0, <2>1, <2>2
        <4> QED BY <2>2, <4>1, ConcatAdjacentSubSeq
      <3>2. SubSeq(symbols, 1, Len(symbols)) = symbols
        BY <2>2, SubSeqFull
      <3> QED BY <3>1, <3>2
    <2>5. PICK payload \in Payload : payload = PayloadOf(a) /\ SymbolsOf(payload) = a
      <3> HIDE DEF a
      <3> QED BY <2>3, SymbolsAreRead
    <2>6. b = Signature[secret][payload] /\ VersionOf(payload) = VERSION
      BY <2>1, <2>5
    <2>7. Symbols(s) = {SymbolsOf(payload) \o Signature[secret][payload]}
      BY <2>2, <2>4, <2>5, <2>6
    <2> QED BY <1>1, <2>6, <2>7
  <1> QED BY <1>1, <1>2

-----------------------------------------------------------------------------
(* A code on its way.                                                      *)

\* The symbols the portal printed for a payload, as characters.
PrintedFor(secret, payload) ==
    LET symbols == SymbolsOf(payload) \o Signature[secret][payload]
    IN  [i \in DOMAIN symbols |-> Alphabet[symbols[i] + 1]]

\* Until a mistake is made, the text still reads as what was printed.
CodecInv ==
    /\ typed \in Seq(Character) /\ slips \in Nat
    /\ issued # NoToken => issued.secret \in Secret
    /\ issued # NoToken /\ slips = 0 =>
          \E counter \in 0 .. MAX_COUNTER, days \in 0 .. MAX_DURATION_DAYS, type \in TokenType :
             /\ issued.token = [counter |-> counter, durationDays |-> days, type |-> type]
             /\ Normalized(typed) =
                    PrintedFor(issued.secret, PayloadInt(counter, days, FlagsFor(type)))

\* What the portal packs is a payload of this version, and its fields are the
\* token's.
LEMMA PackedIsRead ==
    ASSUME NEW counter \in 0 .. MAX_COUNTER, NEW days \in 0 .. MAX_DURATION_DAYS,
           NEW type \in TokenType
    PROVE  LET payload == PayloadInt(counter, days, FlagsFor(type))
           IN  /\ payload \in Payload /\ VersionOf(payload) = VERSION
               /\ TokenOf(payload) =
                      [counter |-> counter, durationDays |-> days, type |-> type]
  <1> DEFINE flags == FlagsFor(type)
             payload == PayloadInt(counter, days, flags)
  <1>1. flags \in 0 .. FlagSpan - 1
    BY FieldAssumption, CodecAssumption DEF FlagsFor
  <1>2. (IF flags % 2 = 1 THEN "Grace" ELSE "Full") = type
    BY DEF FlagsFor, TokenType
  <1> HIDE DEF flags
  <1>3. payload \in Payload /\ VersionOf(payload) = VERSION
        /\ CounterOf(payload) = counter /\ DaysOf(payload) = days /\ FlagsOf(payload) = flags
    BY <1>1, FieldsRoundTrip
  <1> QED BY <1>2, <1>3 DEF TokenOf, flags

\* What the portal prints is read as what it packed.
LEMMA EncodedIsRead ==
    ASSUME NEW secret \in Secret, NEW payload \in Payload
    PROVE  LET symbols == SymbolsOf(payload) \o Signature[secret][payload]
           IN  /\ symbols \in Seq(Symbol)
               /\ Base32Encode(symbols) \in Seq(Character)
               /\ Normalized(Base32Encode(symbols)) = PrintedFor(secret, payload)
               /\ \A s : Normalized(s) = PrintedFor(secret, payload) => Symbols(s) = {symbols}
  <1> DEFINE symbols == SymbolsOf(payload) \o Signature[secret][payload]
             printed == PrintedFor(secret, payload)
  <1>1. symbols \in Seq(Symbol)
    BY Halves, ConcatProperties
  <1>2. printed = [i \in DOMAIN symbols |-> Alphabet[symbols[i] + 1]]
    BY DEF PrintedFor
  <1>3. Base32Encode(symbols) = Grouped(printed)
    BY <1>2 DEF Base32Encode
  <1> HIDE DEF symbols, printed
  <1>4. printed \in Seq(ToSet(Alphabet))
        /\ \A s : Normalized(s) = printed => Symbols(s) = {symbols}
    BY <1>1, <1>2, SymbolsOfPrinted
  <1>5. Grouped(printed) \in Seq(ToSet(Alphabet) \union Separator)
        /\ Normalized(Grouped(printed)) = printed
    BY <1>4, GroupsAreRead
  <1>6. Grouped(printed) \in Seq(Character)
    <2>1. ToSet(Alphabet) \union Separator \subseteq Character
      BY DEF Character
    <2>2. \A A, B : \A s \in Seq(A) : A \subseteq B => s \in Seq(B)
      OBVIOUS
    <2> QED BY <1>5, <2>1, <2>2
  <1> QED BY <1>1, <1>3, <1>4, <1>5, <1>6 DEF symbols, printed

\* What is before an element of a sequence, and what is behind it.
LEMMA Pieces ==
    ASSUME NEW T, NEW s \in Seq(T), NEW i \in DOMAIN s
    PROVE  /\ Len(s) \in Nat /\ i \in 1 .. Len(s) /\ \A j \in 1 .. Len(s) : s[j] \in T
           /\ SubSeq(s, 1, i - 1) \in Seq(T) /\ Len(SubSeq(s, 1, i - 1)) = i - 1
           /\ \A j \in 1 .. i - 1 : SubSeq(s, 1, i - 1)[j] = s[j]
           /\ SubSeq(s, i + 1, Len(s)) \in Seq(T) /\ Len(SubSeq(s, i + 1, Len(s))) = Len(s) - i
           /\ \A j \in 1 .. Len(s) - i : SubSeq(s, i + 1, Len(s))[j] = s[i + j]
  <1> DEFINE n == Len(s)
             a == SubSeq(s, 1, i - 1)
             b == SubSeq(s, i + 1, n)
  <1>1. n \in Nat /\ i \in 1 .. n /\ \A j \in 1 .. n : s[j] \in T
    OBVIOUS
  <1>2. a \in Seq(T) /\ Len(a) = i - 1 /\ \A j \in 1 .. i - 1 : a[j] = s[j]
    <2> HIDE DEF n
    <2> QED BY <1>1
  <1>3. b \in Seq(T) /\ Len(b) = n - i /\ \A j \in 1 .. n - i : b[j] = s[i + j]
    <2>1. \A j \in i + 1 .. n : s[j] \in T
      BY <1>1
    <2>2. b \in Seq(T) /\ Len(b) = (IF i + 1 <= n THEN n - (i + 1) + 1 ELSE 0)
          /\ \A j \in 1 .. n - (i + 1) + 1 : b[j] = s[(i + 1) + j - 1]
      <3> HIDE DEF n
      <3> QED BY <1>1, <2>1, SubSeqProperties
    <2> HIDE DEF n, b
    <2>3. Len(b) = n - i
      BY <1>1, <2>2
    <2>4. n - (i + 1) + 1 = n - i /\ \A j \in 1 .. n - i : (i + 1) + j - 1 = i + j
      BY <1>1
    <2> QED BY <2>2, <2>3, <2>4
  <1> QED BY <1>1, <1>2, <1>3

\* A sequence with one element replaced.
LEMMA Replaced ==
    ASSUME NEW T, NEW s \in Seq(T), NEW i \in DOMAIN s, NEW c \in T
    PROVE  [s EXCEPT ![i] = c] = (SubSeq(s, 1, i - 1) \o <<c>>) \o SubSeq(s, i + 1, Len(s))
  <1> DEFINE n == Len(s)
             a == SubSeq(s, 1, i - 1)
             b == SubSeq(s, i + 1, n)
  <1>1. n \in Nat /\ i \in 1 .. n /\ \A j \in 1 .. n : s[j] \in T
    BY Pieces
  <1>2. a \in Seq(T) /\ Len(a) = i - 1 /\ \A j \in 1 .. i - 1 : a[j] = s[j]
    BY Pieces
  <1>3. b \in Seq(T) /\ Len(b) = n - i /\ \A j \in 1 .. n - i : b[j] = s[i + j]
    BY Pieces
  <1>4. [s EXCEPT ![i] = c] = (a \o <<c>>) \o b
    <2> HIDE DEF a, b, n
    <2>1. /\ a \o <<c>> \in Seq(T) /\ Len(a \o <<c>>) = i
          /\ \A j \in 1 .. i : (a \o <<c>>)[j] = IF j <= i - 1 THEN s[j] ELSE c
      BY <1>1, <1>2
    <2> DEFINE d == a \o <<c>>
    <2>2. /\ d \o b \in Seq(T) /\ Len(d \o b) = n
          /\ \A j \in 1 .. n : (d \o b)[j] = IF j <= i THEN d[j] ELSE b[j - i]
      <3> HIDE DEF d
      <3>1. d \in Seq(T) /\ Len(d) = i
        BY <2>1 DEF d
      <3>2. Len(d) + Len(b) = n
        BY <1>1, <1>3, <3>1
      <3>3. /\ d \o b \in Seq(T) /\ Len(d \o b) = Len(d) + Len(b)
            /\ \A j \in 1 .. Len(d) + Len(b) :
                  (d \o b)[j] = IF j <= Len(d) THEN d[j] ELSE b[j - Len(d)]
        BY <1>3, <3>1, ConcatProperties
      <3> QED BY <3>1, <3>2, <3>3
    <2> HIDE DEF d
    <2>3. \A j \in 1 .. n : (d \o b)[j] = IF j = i THEN c ELSE s[j]
      <3>1. ASSUME NEW j \in 1 .. n, j <= i PROVE (d \o b)[j] = IF j = i THEN c ELSE s[j]
        BY <1>1, <2>1, <2>2, <3>1 DEF d
      <3>2. ASSUME NEW j \in 1 .. n, ~(j <= i) PROVE (d \o b)[j] = s[j] /\ j # i
        <4>1. j - i \in 1 .. n - i /\ i + (j - i) = j /\ j # i
          BY <1>1, <3>2
        <4>2. b[j - i] = s[j]
          BY <1>3, <4>1
        <4>3. (d \o b)[j] = b[j - i]
          BY <2>2, <3>2
        <4> QED BY <4>1, <4>2, <4>3
      <3> QED BY <3>1, <3>2
    <2>4. [s EXCEPT ![i] = c] \in Seq(T) /\ Len([s EXCEPT ![i] = c]) = n
          /\ \A j \in 1 .. n : [s EXCEPT ![i] = c][j] = IF j = i THEN c ELSE s[j]
      BY <1>1 DEF n
    <2>5. [s EXCEPT ![i] = c] = d \o b
      <3> DEFINE e == [s EXCEPT ![i] = c]
                 f == d \o b
      <3>1. e \in Seq(T) /\ f \in Seq(T) /\ Len(e) = n /\ Len(f) = n
            /\ \A j \in 1 .. n : e[j] = f[j]
        BY <2>2, <2>3, <2>4
      <3> HIDE DEF e, f
      <3>2. e = f
        BY <3>1, SeqEqual
      <3> QED BY <3>2 DEF e, f
    <2> QED BY <2>5 DEF d
  <1> QED BY <1>4

\* A character in a text stands between what is before and behind it.
LEMMA Between ==
    ASSUME NEW T, NEW s \in Seq(T), NEW i \in DOMAIN s
    PROVE  /\ SubSeq(s, 1, i - 1) \in Seq(T) /\ SubSeq(s, i + 1, Len(s)) \in Seq(T)
           /\ SubSeq(s, i, Len(s)) \in Seq(T)
           /\ s = (SubSeq(s, 1, i - 1) \o <<s[i]>>) \o SubSeq(s, i + 1, Len(s))
           /\ s = SubSeq(s, 1, i - 1) \o SubSeq(s, i, Len(s))
  <1> DEFINE n == Len(s)
             a == SubSeq(s, 1, i - 1)
             b == SubSeq(s, i + 1, n)
  <1>1. n \in Nat /\ i \in 1 .. n /\ \A j \in 1 .. n : s[j] \in T
    BY Pieces
  <1>2. a \in Seq(T) /\ b \in Seq(T)
    BY Pieces
  <1>5. s = (a \o <<s[i]>>) \o b
    <2>1. PICK c \in T : c = s[i]
      BY <1>1
    <2>2. [s EXCEPT ![i] = c] = s
      BY <1>1, <2>1
    <2>3. [s EXCEPT ![i] = c] = (a \o <<c>>) \o b
      BY Replaced
    <2> HIDE DEF a, b
    <2> QED BY <2>1, <2>2, <2>3
  <1>6. SubSeq(s, i, n) \in Seq(T) /\ s = a \o SubSeq(s, i, n)
    <2>1. SubSeq(s, 1, i - 1) \o SubSeq(s, (i - 1) + 1, n) = SubSeq(s, 1, n)
      <3>1. 1 \in 1 .. n + 1 /\ i - 1 \in 1 - 1 .. n /\ n \in i - 1 .. n
        BY <1>1
      <3> QED BY <3>1, ConcatAdjacentSubSeq
    <2>2. (i - 1) + 1 = i /\ SubSeq(s, 1, n) = s
      BY <1>1, SubSeqFull
    <2>3. SubSeq(s, i, n) \in Seq(T)
      <3>1. \A j \in i .. n : s[j] \in T
        BY <1>1
      <3> HIDE DEF n
      <3> QED BY <1>1, <3>1, SubSeqProperties
    <2> QED BY <2>1, <2>2, <2>3
  <1> QED BY <1>2, <1>5, <1>6

\* A character of the text may be replaced by one that is read like it, and
\* separators put in or taken out, before and behind any other.
LEMMA EditsAreRead ==
    ASSUME NEW T, NEW s \in Seq(T), NEW i \in DOMAIN s
    PROVE  /\ \A c \in T :
                 [s EXCEPT ![i] = c] \in Seq(T) /\ InsertAt(s, i, c) \in Seq(T)
           /\ RemoveAt(s, i) \in Seq(T)
           /\ \A c \in T :
                 Canonical(c) = Canonical(s[i]) /\ (c \in Separator <=> s[i] \in Separator)
                 => Normalized([s EXCEPT ![i] = c]) = Normalized(s)
           /\ \A c \in T : c \in Separator => Normalized(InsertAt(s, i, c)) = Normalized(s)
           /\ s[i] \in Separator => Normalized(RemoveAt(s, i)) = Normalized(s)
  <1> DEFINE a == SubSeq(s, 1, i - 1)
             b == SubSeq(s, i + 1, Len(s))
             d == SubSeq(s, i, Len(s))
             N(t) == Normalized(t)
  <1>1. /\ a \in Seq(T) /\ b \in Seq(T) /\ d \in Seq(T) /\ s[i] \in T
        /\ s = (a \o <<s[i]>>) \o b /\ s = a \o d
        /\ \A c \in T : [s EXCEPT ![i] = c] = (a \o <<c>>) \o b
    <2>1. s[i] \in T
      OBVIOUS
    <2>2. /\ a \in Seq(T) /\ b \in Seq(T) /\ d \in Seq(T)
          /\ s = (a \o <<s[i]>>) \o b /\ s = a \o d
      BY Between
    <2>3. ASSUME NEW c \in T PROVE [s EXCEPT ![i] = c] = (a \o <<c>>) \o b
      BY Replaced
    <2> QED BY <2>1, <2>2, <2>3
  <1>2. /\ \A c \in T : InsertAt(s, i, c) = (a \o <<c>>) \o d
        /\ RemoveAt(s, i) = a \o b
    BY DEF InsertAt, RemoveAt
  <1> HIDE DEF a, b, d
  <1>3. \A c \in T : <<c>> \in Seq(T) /\ a \o <<c>> \in Seq(T)
    BY <1>1, ConcatProperties
  <1>4. \A c \in T : (a \o <<c>>) \o b \in Seq(T) /\ (a \o <<c>>) \o d \in Seq(T)
    BY <1>1, <1>3, ConcatProperties
  <1>5. a \o b \in Seq(T)
    BY <1>1, ConcatProperties
  <1>6. /\ \A c \in T : N((a \o <<c>>) \o b) = (N(a) \o N(<<c>>)) \o N(b)
        /\ \A c \in T : N((a \o <<c>>) \o d) = (N(a) \o N(<<c>>)) \o N(d)
        /\ N(a \o b) = N(a) \o N(b) /\ N(a \o d) = N(a) \o N(d)
    <2>1. \A x, y \in Seq(T) : N(x \o y) = N(x) \o N(y)
      BY NormalizedConcat
    <2> HIDE DEF N
    <2>2. \A c \in T : N(a \o <<c>>) = N(a) \o N(<<c>>)
      BY <1>1, <1>3, <2>1, Zenon
    <2>3. \A c \in T : N((a \o <<c>>) \o b) = N(a \o <<c>>) \o N(b)
      BY <1>1, <1>3, <2>1, Zenon
    <2>4. \A c \in T : N((a \o <<c>>) \o d) = N(a \o <<c>>) \o N(d)
      BY <1>1, <1>3, <2>1, Zenon
    <2>5. N(a \o b) = N(a) \o N(b) /\ N(a \o d) = N(a) \o N(d)
      BY <1>1, <2>1, Zenon
    <2> QED BY <2>2, <2>3, <2>4, <2>5, Zenon
  <1>7. \A c \in T : c \in Separator => N(a) \o N(<<c>>) = N(a)
    <2>1. N(a) \in Seq(Read(T))
      BY <1>1, NormalizedStep
    <2>2. N(a) \o <<>> = N(a)
      BY <2>1, ConcatEmptySeq
    <2>3. \A c \in T : c \in Separator => N(<<c>>) = <<>>
      BY NormalizedOne
    <2> QED BY <2>2, <2>3
  <1>8. ASSUME NEW c \in T, Canonical(c) = Canonical(s[i]), c \in Separator <=> s[i] \in Separator
        PROVE  N(<<c>>) = N(<<s[i]>>)
    BY <1>8, NormalizedOne
  <1>9. ASSUME NEW c \in T, Canonical(c) = Canonical(s[i]), c \in Separator <=> s[i] \in Separator
        PROVE  N([s EXCEPT ![i] = c]) = N(s)
    <2>1. N([s EXCEPT ![i] = c]) = (N(a) \o N(<<c>>)) \o N(b)
      BY <1>1, <1>6
    <2>2. N(s) = (N(a) \o N(<<s[i]>>)) \o N(b)
      BY <1>1, <1>6
    <2> QED BY <1>8, <1>9, <2>1, <2>2
  <1>10. ASSUME NEW c \in T, c \in Separator
         PROVE  N(InsertAt(s, i, c)) = N(s)
    <2>1. N(InsertAt(s, i, c)) = (N(a) \o N(<<c>>)) \o N(d)
      BY <1>2, <1>6
    <2>2. N(s) = N(a) \o N(d)
      BY <1>1, <1>6
    <2> QED BY <1>7, <1>10, <2>1, <2>2
  <1>11. ASSUME s[i] \in Separator PROVE N(RemoveAt(s, i)) = N(s)
    <2>1. N(RemoveAt(s, i)) = N(a) \o N(b)
      BY <1>2, <1>6
    <2>2. N(s) = (N(a) \o N(<<s[i]>>)) \o N(b)
      BY <1>1, <1>6
    <2> QED BY <1>1, <1>7, <1>11, <2>1, <2>2
  <1> QED BY <1>1, <1>2, <1>4, <1>5, <1>9, <1>10, <1>11

\* Every spelling of a character is a character.
LEMMA SpellingsAreCharacters ==
    ASSUME NEW c \in Character
    PROVE  Spellings(c) \subseteq Character
  <1>1. CASE c = "0"
    BY <1>1 DEF Spellings, Character
  <1>2. CASE c = "1"
    BY <1>2 DEF Spellings, Character
  <1>3. CASE c = "V"
    BY <1>3 DEF Spellings, Character
  <1>4. CASE c \notin {"0", "1", "V"}
    <2>1. Spellings(c) = {c} \union {Lower[i] : i \in {j \in DOMAIN Upper : Upper[j] = c}}
      BY <1>4, SMTT(40) DEF Spellings
    <2>2. {Lower[i] : i \in DOMAIN Lower} \subseteq Character /\ DOMAIN Upper = DOMAIN Lower
      BY Letters DEF Character
    <2> QED BY <2>1, <2>2
  <1> QED BY <1>1, <1>2, <1>3, <1>4

\* A code starts as it was printed.
LEMMA CodecInvInit == CodecInit => CodecInv
  BY DEF CodecInit, CodecInv

\* No step of the portal or of a copying hand breaks it.
LEMMA CodecInvNext == CodecInv /\ [CodecNext]_codec => CodecInv'
  <1> SUFFICES ASSUME CodecInv, [CodecNext]_codec PROVE CodecInv'
    OBVIOUS
  <1>1. typed \in Seq(Character) /\ slips \in Nat
    BY DEF CodecInv
  <1> DEFINE Means(i, t) ==
        \E counter \in 0 .. MAX_COUNTER, days \in 0 .. MAX_DURATION_DAYS, type \in TokenType :
           /\ i.token = [counter |-> counter, durationDays |-> days, type |-> type]
           /\ Normalized(t) = PrintedFor(i.secret, PayloadInt(counter, days, FlagsFor(type)))
  <1>2. issued # NoToken => issued.secret \in Secret
    BY DEF CodecInv
  <1>3. issued # NoToken /\ slips = 0 => Means(issued, typed)
    BY DEF CodecInv
  <1>4. ASSUME typed' \in Seq(Character), slips' \in Nat,
               issued' # NoToken => issued'.secret \in Secret,
               issued' # NoToken /\ slips' = 0 => Means(issued', typed')
        PROVE  CodecInv'
    BY <1>4 DEF CodecInv
  <1>5. ASSUME NEW counter \in 0 .. CounterSpan, NEW days \in 0 .. DaysSpan,
               NEW type \in TokenType, NEW secret \in Secret,
               Issue(counter, days, type, secret)
        PROVE  CodecInv'
    <2>1. counter \in 0 .. MAX_COUNTER /\ days \in 0 .. MAX_DURATION_DAYS
      BY <1>5, FieldAssumption DEF Issue, Encode, MAX_COUNTER, MAX_DURATION_DAYS
    <2> DEFINE payload == PayloadInt(counter, days, FlagsFor(type))
    <2>2. payload \in Payload
      BY <2>1, PackedIsRead
    <2>3. typed' = Base32Encode(SymbolsOf(payload) \o Signature[secret][payload])
      BY <1>5 DEF Issue, Encode
    <2> HIDE DEF payload
    <2>4. typed' \in Seq(Character) /\ Normalized(typed') = PrintedFor(secret, payload)
      BY <2>2, <2>3, EncodedIsRead
    <2>5. issued' = [secret |-> secret, token |-> [counter |-> counter,
                     durationDays |-> days, type |-> type]] /\ slips' = slips
      BY <1>5 DEF Issue
    <2>6. Means(issued', typed')
      BY <2>1, <2>4, <2>5 DEF payload
    <2> HIDE DEF Means
    <2> QED BY <1>1, <1>4, <2>4, <2>5, <2>6
  <1>6. ASSUME NEW i \in DOMAIN typed, Respell(i) PROVE CodecInv'
    <2>1. PICK c \in Spellings(typed[i]) : typed' = [typed EXCEPT ![i] = c]
      BY <1>6 DEF Respell
    <2>2. typed[i] \in Character
      BY <1>1
    <2>3. c \in Character
      BY <2>2, SpellingsAreCharacters
    <2>4. typed' \in Seq(Character) /\ Normalized(typed') = Normalized(typed)
      <3>1. Canonical(c) = Canonical(typed[i]) /\ (c \in Separator <=> typed[i] \in Separator)
        BY SpellingsAreRead
      <3>2. \A x \in Character :
               /\ [typed EXCEPT ![i] = x] \in Seq(Character)
               /\ Canonical(x) = Canonical(typed[i]) /\ (x \in Separator <=> typed[i] \in Separator)
                  => Normalized([typed EXCEPT ![i] = x]) = Normalized(typed)
        BY <1>1, EditsAreRead
      <3> QED BY <2>1, <2>3, <3>1, <3>2
    <2>5. UNCHANGED <<issued, slips>>
      BY <1>6 DEF Respell, Editing
    <2> QED BY <1>1, <1>2, <1>3, <1>4, <2>4, <2>5
  <1>7. ASSUME NEW i \in DOMAIN typed, Regroup(i) PROVE CodecInv'
    <2>1. typed' \in Seq(Character) /\ Normalized(typed') = Normalized(typed)
      <3>1. CASE \E c \in Separator : typed' = InsertAt(typed, i, c)
        <4>1. PICK c \in Separator : typed' = InsertAt(typed, i, c)
          BY <3>1
        <4>2. c \in Character
          BY DEF Character
        <4> QED BY <1>1, <4>1, <4>2, EditsAreRead
      <3>2. CASE typed[i] \in Separator /\ typed' = RemoveAt(typed, i)
        BY <1>1, <3>2, EditsAreRead
      <3> QED BY <1>7, <3>1, <3>2 DEF Regroup
    <2>2. UNCHANGED <<issued, slips>>
      BY <1>7 DEF Regroup, Editing
    <2> QED BY <1>1, <1>2, <1>3, <1>4, <2>1, <2>2
  <1>8. ASSUME NEW i \in DOMAIN typed, Slip(i) PROVE CodecInv'
    <2>1. typed' \in Seq(Character)
      <3>1. typed[i] \in Character /\ Stray \subseteq Character
        BY <1>1 DEF Character
      <3>2. CASE \E c \in Stray : typed' = [typed EXCEPT ![i] = c]
        BY <1>1, <3>1, <3>2, EditsAreRead
      <3>3. CASE typed' = RemoveAt(typed, i)
        BY <1>1, <3>3, EditsAreRead
      <3>4. CASE typed' = InsertAt(typed, i, typed[i])
        BY <1>1, <3>1, <3>4, EditsAreRead
      <3> QED BY <1>8, <3>2, <3>3, <3>4 DEF Slip
    <2>2. slips' = slips + 1 /\ issued' = issued
      BY <1>8 DEF Slip, Editing
    <2>3. slips' \in Nat /\ slips' # 0
      BY <1>1, <2>2
    <2> HIDE DEF Means
    <2> QED BY <1>2, <1>4, <2>1, <2>2, <2>3
  <1>9. CASE UNCHANGED codec
    BY <1>9 DEF codec, CodecInv
  <1> QED BY <1>5, <1>6, <1>7, <1>8, <1>9 DEF CodecNext

\* The invariant in every state.
THEOREM CodecInvEver == CodecSpec => []CodecInv
  <1> QED BY CodecInvInit, CodecInvNext, PTL DEF CodecSpec

\* A code copied with care is read as what the portal encoded, for alphabets,
\* fields, payloads and signatures of any size and copies of any length.
THEOREM CarefulCopyIsReadEver == CodecSpec => []CarefulCopyIsRead
  <1>1. CodecInv => CarefulCopyIsRead
    <2> SUFFICES ASSUME CodecInv, issued # NoToken, slips = 0
                 PROVE  Decode(typed, issued.secret) = issued.token
      BY DEF CarefulCopyIsRead
    <2>1. PICK counter \in 0 .. MAX_COUNTER, days \in 0 .. MAX_DURATION_DAYS, type \in TokenType :
             /\ issued.token = [counter |-> counter, durationDays |-> days, type |-> type]
             /\ Normalized(typed) =
                    PrintedFor(issued.secret, PayloadInt(counter, days, FlagsFor(type)))
      BY DEF CodecInv
    <2>2. typed \in Seq(Character) /\ issued.secret \in Secret
      BY DEF CodecInv
    <2> DEFINE payload == PayloadInt(counter, days, FlagsFor(type))
    <2>3. payload \in Payload /\ VersionOf(payload) = VERSION
          /\ TokenOf(payload) = issued.token
      BY <2>1, PackedIsRead
    <2>4. Normalized(typed) = PrintedFor(issued.secret, payload)
      BY <2>1
    <2> HIDE DEF payload
    <2>5. Symbols(typed) = {SymbolsOf(payload) \o Signature[issued.secret][payload]}
      BY <2>2, <2>3, <2>4, EncodedIsRead
    <2>6. Decode(typed, issued.secret) = TokenOf(payload)
      <3>1. \A p \in Payload :
               VersionOf(p) = VERSION
               /\ Symbols(typed) = {SymbolsOf(p) \o Signature[issued.secret][p]}
               => Decode(typed, issued.secret) = TokenOf(p)
        BY <2>2, DecodeIs
      <3> QED BY <2>3, <2>5, <3>1
    <2> QED BY <2>3, <2>6
  <1> QED BY <1>1, CodecInvEver, PTL

\* A device reads nothing into any text but a payload of this version under its
\* own signature, each symbol of it.
THEOREM OnlySignedIsReadEver == CodecSpec => []OnlySignedIsRead
  <1>1. CodecInv => OnlySignedIsRead
    <2> SUFFICES ASSUME typed \in Seq(Character) PROVE OnlySignedIsRead
      BY DEF CodecInv
    <2> QED BY DecodeIs, Zenon DEF OnlySignedIsRead
  <1> QED BY <1>1, CodecInvEver, PTL

=============================================================================
