------------------------------ MODULE MCReaders ------------------------------
(* The readers of bytes that come from outside: the record's, the portal     *)
(* answer's and the firmware table's.  They share nothing, so each behaviour *)
(* gives work to one of them.  Small instances: bytes of six values, two     *)
(* strings and one-byte lengths in a record; texts of up to six symbols and  *)
(* the edits of one that has everything; firmware of one or two structures.  *)
EXTENDS StoreFormat, Json, Smbios

TwoStrings == <<"accountNumber", "hmacSecretHex">>
Magic == <<5, 4>>

SmallDevices ==
    [accountNumber: {<<1>>}, hmacSecretHex: {<<>>, <<0>>, <<1, 5>>},
     lastCounter: {0, 3, 5}, lockDeadlineDay: {-18, -1, 0, 17},
     status: Status, lastTokenWasGrace: {0, 1}]

ThreeNames == {<<"a">>, <<"b">>, <<"a", "b">>}
UpTo(n, S) == UNION {[1 .. k -> S] : k \in 0 .. n}
SmallValues == UpTo(2, {"quote", "backslash", "newline", "n", "a"})

\* {"a":[00,true], "\n":{}}
Whole == <<"{", "quote", "a", "quote", ":", "[", "digit", "digit", ",", "true", "]", ",",
           "space", "quote", "backslash", "n", "quote", ":", "{", "}", "}">>
Edits ==
    {[Whole EXCEPT ![i] = s] : i \in DOMAIN Whole,
        s \in {"{", "}", "[", "]", ",", ":", "quote", "backslash", "space", "digit", "true", "u"}}
ManyTexts ==
    UpTo(6, {"{", "}", "quote", ":", ",", "digit"})
    \union UpTo(5, {"[", "]", "quote", "backslash", ",", "u", "hex", "true"})
    \union UpTo(5, {"{", "}", "[", "]", "space", ",", "null"}) \union Edits

\* 32 is a blank, <<12>> a placeholder.
Names == {<<>>, <<<<10>>>>, <<<<32, 11>>, <<12>>, <<10, 11>>>>}
Systems ==
    [type: {1}, area: {<<1, 2, 0, 3>>, <<3, 1, 9, 2, 7>>, <<0, 4, 0, 1>>, <<1, 2>>}, strings: Names]
Others == [type: {0, 2}, area: {<<>>, <<1, 2, 3, 4>>}, strings: {<<>>, <<<<13>>, <<10>>>>}]
OneOrTwo ==
    {<<s>> : s \in Systems} \union ((Others \union Systems) \X (Systems \union Others))
TwoMirrors == {[manufacturer |-> <<14>>, model |-> <<12>>], [manufacturer |-> <<>>, model |-> <<15, 32>>]}
Junk == {<<12>>}
FewBytes == {0, 1, 3, 4, 8, 9, 64}

\* A reader with nothing to do.
FormatRests ==
    /\ written = CHOOSE device \in Device : TRUE
    /\ damage = "changed" /\ buffer = <<>> /\ offset = 0
    /\ todo = <<>> /\ read = <<>> /\ answer = "rejected"
JsonRests == text = <<>> /\ fields = <<>>
SmbiosRests ==
    /\ firmware = <<>> /\ harm = "none" /\ table = <<>> /\ declared = 0 /\ mirror = Unfilled
    /\ cursor = 0 /\ touched = {} /\ stage = "done" /\ info = Unfilled

ReadersInit ==
    \/ Init /\ JsonRests /\ SmbiosRests
    \/ JsonInit /\ FormatRests /\ SmbiosRests
    \/ SmbiosInit /\ FormatRests /\ JsonRests

ReadersNext ==
    \/ Next /\ UNCHANGED <<text, fields, smbios>>
    \/ SmbiosNext /\ UNCHANGED <<text, fields, vars>>

ReadersSpec == ReadersInit /\ [][ReadersNext]_<<vars, text, fields, smbios>>

=============================================================================
