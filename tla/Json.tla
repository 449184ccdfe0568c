------------------------------- MODULE Json -------------------------------
(***************************************************************************)
(* The JSON reader (net/Json.cpp) and the writer of the client's requests  *)
(* (net/PortalClient.cpp).  A text is a sequence of symbols: the marks of  *)
(* JSON, letters, and one symbol each for a literal word, for the four     *)
(* digits of a \u escape and for a digit of a number.  What a number is    *)
(* worth, and the bytes a \u escape becomes, are left out.  The reader is  *)
(* checked against a grammar, which says of any two places of a text what  *)
(* may stand between them.                                                 *)
(***************************************************************************)
EXTENDS Naturals, Sequences, SequencesExt

CONSTANTS
    Texts,      \* what the portal may answer, and anything else
    Name,       \* names of the fields of a request
    Value       \* their values

\* A text is made of symbols, of which "end" is none.  The client's names hold
\* nothing that would have to be escaped.
ASSUME JsonAssumption ==
    /\ Texts \subseteq Seq(STRING \ {"end"})
    /\ Value \subseteq Seq(STRING \ {"end"})
    /\ Name \subseteq Seq(STRING \ {"end", "quote", "backslash"})

Space == {"space", "newline"}
Literal == {"true", "null"}

\* What follows a backslash, and what it stands for.
Escape == [quote |-> "quote", backslash |-> "backslash", n |-> "newline"]

VARIABLES
    text,       \* a text that is read
    fields      \* the fields it was written from, if the client wrote it

-----------------------------------------------------------------------------
(* The reader.  Each part returns whether it succeeded, the position after  *)
(* it and what it read.                                                     *)

At(t, i) == IF i <= Len(t) THEN t[i] ELSE "end"

\* skipWhitespace
Past(t, i) ==
    CHOOSE j \in i .. Len(t) + 1 :
        At(t, j) \notin Space /\ \A k \in i .. j - 1 : At(t, k) \in Space

Broken == [ok |-> FALSE]
Done(i, it) == [ok |-> TRUE, next |-> i, it |-> it]
With(x, rest) == IF rest.ok THEN Done(rest.next, <<x>> \o rest.it) ELSE Broken
Typed(type, rest) ==
    IF rest.ok THEN Done(rest.next, [type |-> type, of |-> rest.it]) ELSE Broken

Goes(on, i) == [on |-> on, next |-> i]

\* Not the code: an object or array may end with the text.
AfterLenient(t, i, close) ==
    CASE At(t, i) = ","   -> Goes("more", i + 1)
      [] At(t, i) = close -> Goes("closed", i + 1)
      [] At(t, i) = "end" -> Goes("closed", i)
      [] OTHER            -> Goes("wrong", i)

\* What follows a member or an item: another, the end, or neither.
After(t, i, close) ==
    CASE At(t, i) = ","   -> Goes("more", i + 1)
      [] At(t, i) = close -> Goes("closed", i + 1)
      [] OTHER            -> Goes("wrong", i)

\* parseString, from behind its quote.
ReadString(t, read, i) ==
    CASE At(t, i) = "end" -> Broken
      [] At(t, i) = "quote" -> Done(i + 1, <<>>)
      [] At(t, i) = "backslash" ->
            IF At(t, i + 1) \in DOMAIN Escape
            THEN With(Escape[At(t, i + 1)], read[<<"string", i + 2>>])
            ELSE IF At(t, i + 1) = "u" /\ At(t, i + 2) = "hex"
            THEN With("unicode", read[<<"string", i + 3>>])
            ELSE Broken
      [] OTHER -> With(At(t, i), read[<<"string", i + 1>>])

\* parseNumber
ReadNumber(t, read, i) ==
    IF At(t, i) = "digit" /\ At(t, i + 1) = "digit" THEN read[<<"number", i + 1>>]
    ELSE IF At(t, i) = "digit" THEN Done(i + 1, <<>>) ELSE Broken

\* parseValue, with the first steps of parseObject and parseArray.
ReadValue(t, read, i) ==
    LET s == Past(t, i)
        e == Past(t, s + 1)
    IN  CASE At(t, s) = "quote" -> Typed("String", read[<<"string", s + 1>>])
          [] At(t, s) \in Literal -> Done(s + 1, [type |-> At(t, s), of |-> <<>>])
          [] At(t, s) = "{" ->
                Typed("Object", IF At(t, e) = "}" THEN Done(e + 1, <<>>)
                                ELSE read[<<"members", s + 1>>])
          [] At(t, s) = "[" ->
                Typed("Array", IF At(t, e) = "]" THEN Done(e + 1, <<>>)
                               ELSE read[<<"items", s + 1>>])
          [] At(t, s) = "end" -> Broken
          [] OTHER -> Typed("Number", ReadNumber(t, read, s))

\* A key and its value.
ReadMember(t, read, i) ==
    LET k == Past(t, i)
        key == read[<<"string", k + 1>>]
        c == Past(t, key.next)
        value == ReadValue(t, read, c + 1)
    IN  IF At(t, k) = "quote" /\ key.ok /\ At(t, c) = ":" /\ value.ok
        THEN Done(value.next, <<key.it, value.it>>) ELSE Broken

\* One more element, then the rest of the object or array.
Listed(t, read, part, element, close) ==
    LET after == After(t, Past(t, element.next), close)
    IN  CASE ~element.ok -> Broken
          [] element.ok /\ after.on = "more" -> With(element.it, read[<<part, after.next>>])
          [] element.ok /\ after.on = "closed" -> Done(after.next, <<element.it>>)
          [] element.ok /\ after.on = "wrong" -> Broken

\* Each part that recurs, read from each place.
Reader(t) ==
    LET read[p \in {"string", "number", "members", "items"} \X (1 .. Len(t) + 1)] ==
        LET i == p[2] IN
        CASE p[1] = "string"  -> ReadString(t, read, i)
          [] p[1] = "number"  -> ReadNumber(t, read, i)
          [] p[1] = "members" -> Listed(t, read, "members", ReadMember(t, read, i), "}")
          [] p[1] = "items"   -> Listed(t, read, "items", ReadValue(t, read, i), "]")
    IN  read

Reading(t) == ReadValue(t, Reader(t), 1)

\* Not the code: what follows the value is not looked at.
ParsePrefix(t) == Reading(t)

\* Json::parse: the value, if nothing but white space follows it.
Parse(t) ==
    LET value == Reading(t)
    IN  IF ~value.ok THEN Broken
        ELSE IF Past(t, value.next) = Len(t) + 1 THEN value ELSE Broken

\* Json::str: the first member of that name, if it is a string.
Str(json, name) ==
    LET first == SelectInSeq(json.of, LAMBDA member : member[1] = name)
    IN  IF json.type = "Object" /\ first # 0 /\ json.of[first][2].type = "String"
        THEN json.of[first][2].of ELSE <<>>

-----------------------------------------------------------------------------
(* The writer.                                                             *)

\* Not the code: the escape's own mark is written as it is.
JsonEscapeQuoteOnly(c) == IF c = "quote" THEN <<"backslash", "quote">> ELSE <<c>>

\* jsonEscape, for one character.
JsonEscape(c) ==
    IF \E e \in DOMAIN Escape : Escape[e] = c
    THEN <<"backslash", CHOOSE e \in DOMAIN Escape : Escape[e] = c>> ELSE <<c>>

Escaped(s) == FlattenSeq([i \in DOMAIN s |-> JsonEscape(s[i])])

Field(name, value) ==
    <<"quote">> \o name \o <<"quote", ":", "quote">> \o Escaped(value) \o <<"quote">>

\* The body of a request with two fields, as heartbeat's.
Request(f, first, second) ==
    <<"{">> \o Field(first, f[first]) \o <<",">> \o Field(second, f[second]) \o <<"}">>

-----------------------------------------------------------------------------
(* JSON, as far as the symbols go: a string may hold a raw line break, as the *)
(* reader allows and RFC 8259 does not, and a number is any row of digits.    *)
(* Each definition says what may stand from i to j.                          *)

AllSpace(t, i, j) == \A k \in i .. j : t[k] \in Space

IsBody(t, is, i, j) ==
    \/ i > j
    \/ t[i] \notin {"quote", "backslash"} /\ is[<<"body", i + 1, j>>]
    \/ i < j /\ t[i] = "backslash" /\ t[i + 1] \in DOMAIN Escape /\ is[<<"body", i + 2, j>>]
    \/ /\ i + 1 < j /\ t[i] = "backslash" /\ t[i + 1] = "u" /\ t[i + 2] = "hex"
       /\ is[<<"body", i + 3, j>>]

IsString(t, is, i, j) ==
    i < j /\ t[i] = "quote" /\ t[j] = "quote" /\ is[<<"body", i + 1, j - 1>>]

\* An object or an array.
IsClosed(t, is, part, open, close, i, j) ==
    /\ i < j /\ t[i] = open /\ t[j] = close
    /\ AllSpace(t, i + 1, j - 1) \/ is[<<part, i + 1, j - 1>>]

\* A value with no white space around it.
IsBare(t, is, i, j) ==
    \/ IsString(t, is, i, j)
    \/ i = j /\ t[i] \in Literal
    \/ \A k \in i .. j : t[k] = "digit"
    \/ IsClosed(t, is, "members", "{", "}", i, j)
    \/ IsClosed(t, is, "items", "[", "]", i, j)

IsValue(t, is, i, j) ==
    \E a \in i .. j : \E b \in a .. j :
        AllSpace(t, i, a - 1) /\ AllSpace(t, b + 1, j) /\ IsBare(t, is, a, b)

IsMember(t, is, i, j) ==
    \E c \in i .. j :
        /\ t[c] = ":" /\ IsValue(t, is, c + 1, j)
        /\ \E a \in i .. c - 1 : \E b \in a .. c - 1 :
              AllSpace(t, i, a - 1) /\ AllSpace(t, b + 1, c - 1) /\ IsString(t, is, a, b)

IsMembers(t, is, i, j) ==
    \/ IsMember(t, is, i, j)
    \/ \E c \in i .. j :
          t[c] = "," /\ IsMember(t, is, i, c - 1) /\ is[<<"members", c + 1, j>>]

IsItems(t, is, i, j) ==
    \/ IsValue(t, is, i, j)
    \/ \E c \in i .. j :
          t[c] = "," /\ IsValue(t, is, i, c - 1) /\ is[<<"items", c + 1, j>>]

Grammar(t) ==
    LET is[p \in {"body", "members", "items"} \X (1 .. Len(t) + 1) \X (0 .. Len(t))] ==
        LET i == p[2]
            j == p[3]
        IN  CASE p[1] = "body"    -> IsBody(t, is, i, j)
              [] p[1] = "members" -> IsMembers(t, is, i, j)
              [] p[1] = "items"   -> IsItems(t, is, i, j)
    IN  is

IsJson(t) == IsValue(t, Grammar(t), 1, Len(t))

-----------------------------------------------------------------------------
JsonInit ==
    \/ text \in Texts /\ fields = <<>>
    \/ \E first, second \in Name : \E f \in [{first, second} -> Value] :
          first # second /\ fields = f /\ text = Request(f, first, second)

\* A text is read at once.
JsonSpec == JsonInit /\ [][FALSE]_<<text, fields>>

\* Json::parse accepts JSON in the sense of IsJson and nothing else: braces,
\* quotes and escapes are matched however they are nested, and nothing is left
\* over (json_tests.cpp tries a handful of texts).
ReadsExactlyJson == Parse(text).ok <=> IsJson(text)

\* An answer that was cut off is not taken for an answer, wherever it was cut:
\* HttpClient hands on what it has when a read fails half way (HttpClient.cpp:114),
\* and PortalClient relies on the reader to notice.  A bare number or word may
\* be cut into another, but is no answer.
CutAnswerIsRejected ==
    Parse(text).ok /\ text[1] \in {"{", "[", "quote"} /\ text[Len(text)] \notin Space =>
        \A n \in 0 .. Len(text) - 1 : ~Parse(SubSeq(text, 1, n)).ok

\* Whatever the hardware's names and the typed code contain, the portal reads
\* the fields the client wrote, and no others.
RequestIsRead ==
    fields # <<>> =>
        /\ Parse(text).ok
        /\ Len(Parse(text).it.of) = 2
        /\ \A name \in Name :
              Str(Parse(text).it, name) = IF name \in DOMAIN fields THEN fields[name] ELSE <<>>

=============================================================================
