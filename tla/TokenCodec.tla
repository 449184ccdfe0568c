----------------------------- MODULE TokenCodec -----------------------------
(***************************************************************************)
(* Unlock codes between the portal that issues them and the device that    *)
(* reads them (core/TokenCodec.cpp, core/Base32.cpp): the portal prints a  *)
(* code with the encoder, a person copies it, by eye and by hand, and the  *)
(* device decodes what was typed.  A code is a sequence of characters; a   *)
(* character stands for one symbol, five bits in the code.  The payload    *)
(* and the signature both fill whole symbols (40 and 60 bits).             *)
(***************************************************************************)
EXTENDS TokenFields, SequencesExt

CONSTANTS
    Alphabet,           \* the characters of the symbols 0, 1, ...: 32 in the code
    PayloadSymbols,     \* 8 in the code
    SignatureSymbols,   \* 12 in the code
    Secret,             \* the HMAC secrets of devices
    Signature,          \* Signature[secret][payload], the top of the HMAC
    NoToken,            \* std::nullopt
    Stray,              \* the characters a slip may put into a code
    MaxEdits            \* bound: changes made while copying

VARIABLES
    issued,     \* what the portal encoded: fields and secret, or NoToken
    typed,      \* the characters as they stand
    slips,      \* copying mistakes made so far
    edits       \* changes of any kind made so far

codec == <<issued, typed, slips, edits>>

Base == Len(Alphabet)
Symbol == 0 .. Base - 1

\* What a symbol of the payload with n symbols behind it counts for.
Weight[n \in 0 .. PayloadSymbols] == IF n = 0 THEN 1 ELSE Base * Weight[n - 1]

TokenType == {"Full", "Grace"}
Separator == {" ", "-", "\t"}

-----------------------------------------------------------------------------
(* Base32.                                                                 *)

Lower == <<"a", "b", "c", "d", "e", "f", "g", "h", "i", "j", "k", "l", "m",
           "n", "o", "p", "q", "r", "s", "t", "u", "v", "w", "x", "y", "z">>
Upper == <<"A", "B", "C", "D", "E", "F", "G", "H", "I", "J", "K", "L", "M",
           "N", "O", "P", "Q", "R", "S", "T", "U", "V", "W", "X", "Y", "Z">>

ToUpper(c) == IF \E i \in DOMAIN Lower : Lower[i] = c
              THEN Upper[CHOOSE i \in DOMAIN Lower : Lower[i] = c]
              ELSE c

\* Not the code: U is left to stand for nothing.
LookAlikeWithoutU(c) ==
    CASE c = "O" -> "0" [] c \in {"I", "L"} -> "1" [] OTHER -> c

\* The letters the alphabet leaves out, for the symbols they are taken for.
LookAlike(c) ==
    CASE c = "O" -> "0" [] c \in {"I", "L"} -> "1" [] c = "U" -> "V" [] OTHER -> c

Canonical(c) == LookAlike(ToUpper(c))

\* What is left of a text, read character by character.
Normalized(s) ==
    LET read[n \in 0 .. Len(s)] ==
            IF n = 0 THEN <<>>
            ELSE IF s[n] \in Separator THEN read[n - 1]
            ELSE Append(read[n - 1], Canonical(s[n]))
    IN  read[Len(s)]

\* The alphabet is read back as it was printed; the payload's symbols hold the
\* payload's bits, and nothing more.
ASSUME CodecAssumption ==
    /\ Alphabet \in Seq(ToSet(Alphabet)) /\ IsInjective(Alphabet) /\ Base > 0
    /\ \A c \in ToSet(Alphabet) : c \notin Separator /\ Canonical(c) = c
    /\ PayloadSymbols \in Nat /\ SignatureSymbols \in Nat
    /\ Weight[PayloadSymbols] = VersionSpan * (CounterSpan * (DaysSpan * FlagSpan))
    /\ FlagSpan > 1
    /\ \A secret \in Secret, payload \in Payload :
          Signature[secret][payload] \in [1 .. SignatureSymbols -> Symbol]
    /\ MaxEdits \in Nat

SymbolOf(c) == (CHOOSE i \in DOMAIN Alphabet : Alphabet[i] = c) - 1

\* Base32::decode; {} where a character is no symbol.
Symbols(s) ==
    LET normalized == Normalized(s)
    IN  IF \A i \in DOMAIN normalized : normalized[i] \in ToSet(Alphabet)
        THEN {[i \in DOMAIN normalized |-> SymbolOf(normalized[i])]}
        ELSE {}

\* Base32::encode sets groups of five apart: every sixth character is a dash.
Grouped(s) ==
    [j \in 1 .. Len(s) + ((Len(s) - 1) \div 5) |->
        IF j % 6 = 0 THEN "-" ELSE s[j - (j \div 6)]]

Base32Encode(symbols) == Grouped([i \in DOMAIN symbols |-> Alphabet[symbols[i] + 1]])

-----------------------------------------------------------------------------
(* The codec.                                                              *)

FlagsFor(type) == IF type = "Grace" THEN 1 ELSE 0

\* The payload's bits, five at a time, the highest first; and back.
PayloadOf(symbols) ==
    LET value[n \in 0 .. Len(symbols)] ==
            IF n = 0 THEN 0 ELSE value[n - 1] * Base + symbols[n]
    IN  value[Len(symbols)]

SymbolsOf(payload) ==
    [i \in 1 .. PayloadSymbols |-> (payload \div Weight[PayloadSymbols - i]) % Base]

\* Not the code: any counter and duration is packed.
EncodeUnchecked(counter, days, type, secret) ==
    LET payload == PayloadInt(counter, days, FlagsFor(type)) % Weight[PayloadSymbols]
    IN  Base32Encode(SymbolsOf(payload) \o Signature[secret][payload])

\* Numbers that do not fit their field are refused.
Encode(counter, days, type, secret) ==
    IF counter > MAX_COUNTER \/ days > MAX_DURATION_DAYS
    THEN NoToken
    ELSE LET payload == PayloadInt(counter, days, FlagsFor(type))
         IN  Base32Encode(SymbolsOf(payload) \o Signature[secret][payload])

TokenOf(payload) ==
    [counter |-> CounterOf(payload), durationDays |-> DaysOf(payload),
     type |-> IF FlagsOf(payload) % 2 = 1 THEN "Grace" ELSE "Full"]

\* Not the code: what follows the signature is ignored.
DecodePrefix(s, secret) ==
    IF \E symbols \in Symbols(s) :
          /\ Len(symbols) >= PayloadSymbols + SignatureSymbols
          /\ LET payload == PayloadOf(SubSeq(symbols, 1, PayloadSymbols))
             IN  /\ SubSeq(symbols, PayloadSymbols + 1, PayloadSymbols + SignatureSymbols)
                        = Signature[secret][payload]
                 /\ VersionOf(payload) = VERSION
    THEN LET symbols == CHOOSE symbols \in Symbols(s) : TRUE
         IN  TokenOf(PayloadOf(SubSeq(symbols, 1, PayloadSymbols)))
    ELSE NoToken

\* The length, the signature and the version are looked at before any field.
Decode(s, secret) ==
    IF \E symbols \in Symbols(s) :
          /\ Len(symbols) = PayloadSymbols + SignatureSymbols
          /\ LET payload == PayloadOf(SubSeq(symbols, 1, PayloadSymbols))
             IN  /\ SubSeq(symbols, PayloadSymbols + 1, Len(symbols))
                        = Signature[secret][payload]
                 /\ VersionOf(payload) = VERSION
    THEN LET symbols == CHOOSE symbols \in Symbols(s) : TRUE
         IN  TokenOf(PayloadOf(SubSeq(symbols, 1, PayloadSymbols)))
    ELSE NoToken

-----------------------------------------------------------------------------
(* A code on its way.                                                      *)

CodecInit == issued = NoToken /\ typed = <<>> /\ slips = 0 /\ edits = 0

\* The portal tries any numbers, the first too large ones included.
Issue(counter, days, type, secret) ==
    /\ issued = NoToken
    /\ Encode(counter, days, type, secret) # NoToken
    /\ issued' = [secret |-> secret,
                  token |-> [counter |-> counter, durationDays |-> days, type |-> type]]
    /\ typed' = Encode(counter, days, type, secret)
    /\ UNCHANGED <<slips, edits>>

Editing == issued # NoToken /\ edits < MaxEdits /\ edits' = edits + 1 /\ UNCHANGED issued

\* The ways people write a symbol: small letters, and letters for digits.
Spellings(c) ==
    CASE c = "0" -> {"0", "O", "o"}
      [] c = "1" -> {"1", "I", "i", "L", "l"}
      [] c = "V" -> {"V", "v", "U", "u"}
      [] OTHER -> {c} \union {Lower[i] : i \in {j \in DOMAIN Upper : Upper[j] = c}}

Respell(i) ==
    /\ Editing
    /\ \E c \in Spellings(typed[i]) \ {typed[i]} : typed' = [typed EXCEPT ![i] = c]
    /\ UNCHANGED slips

\* Groups are set apart, or run together.
Regroup(i) ==
    /\ Editing
    /\ \/ \E c \in Separator : typed' = InsertAt(typed, i, c)
       \/ typed[i] \in Separator /\ typed' = RemoveAt(typed, i)
    /\ UNCHANGED slips

\* A character is misread, left out or written twice.
Slip(i) ==
    /\ Editing
    /\ \/ \E c \in Stray : typed' = [typed EXCEPT ![i] = c]
       \/ typed' = RemoveAt(typed, i)
       \/ typed' = InsertAt(typed, i, typed[i])
    /\ slips' = slips + 1

CodecNext ==
    \/ \E counter \in 0 .. CounterSpan, days \in 0 .. DaysSpan, type \in TokenType,
          secret \in Secret : Issue(counter, days, type, secret)
    \/ \E i \in DOMAIN typed : Respell(i) \/ Regroup(i) \/ Slip(i)

CodecSpec == CodecInit /\ [][CodecNext]_codec

-----------------------------------------------------------------------------
\* A code copied with care, in whatever spelling and grouping, means to the
\* device it was issued for what the portal encoded.
CarefulCopyIsRead ==
    issued # NoToken /\ slips = 0 => Decode(typed, issued.secret) = issued.token

\* A device reads nothing into a text but what its secret signed: if it takes
\* the text, these are the symbols of a payload of this version under that
\* payload's signature, to the last one.
OnlySignedIsRead ==
    \A secret \in Secret :
        Decode(typed, secret) # NoToken =>
            \E payload \in Payload :
                /\ VersionOf(payload) = VERSION
                /\ Symbols(typed) = {SymbolsOf(payload) \o Signature[secret][payload]}
                /\ Decode(typed, secret) = TokenOf(payload)

=============================================================================
