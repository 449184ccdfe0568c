----------------------------- MODULE TokenFields -----------------------------
(***************************************************************************)
(* The forty payload bits of an unlock code (core/TokenCodec.cpp): four    *)
(* fields side by side, the version on top and the flags at the bottom.    *)
(* The spans are the numbers of values the fields can hold: 2^4, 2^20,     *)
(* 2^12 and 2^4 in the code.  Where each field is within its span the      *)
(* code's shifts and ors are these products and sums, and its shifts and   *)
(* masks these quotients and remainders.                                   *)
(***************************************************************************)
EXTENDS Integers

CONSTANTS VersionSpan, CounterSpan, DaysSpan, FlagSpan, VERSION

ASSUME FieldAssumption ==
    /\ VersionSpan \in Nat \ {0} /\ CounterSpan \in Nat \ {0}
    /\ DaysSpan \in Nat \ {0} /\ FlagSpan \in Nat \ {0}
    /\ VERSION \in 0 .. VersionSpan - 1

MAX_COUNTER == CounterSpan - 1
MAX_DURATION_DAYS == DaysSpan - 1

Payload == 0 .. VersionSpan * (CounterSpan * (DaysSpan * FlagSpan)) - 1

PayloadInt(counter, days, flags) ==
    VERSION * (CounterSpan * (DaysSpan * FlagSpan))
        + (counter * (DaysSpan * FlagSpan) + (days * FlagSpan + flags))

FlagsOf(payload) == payload % FlagSpan
DaysOf(payload) == (payload \div FlagSpan) % DaysSpan
CounterOf(payload) == (payload \div (DaysSpan * FlagSpan)) % CounterSpan
VersionOf(payload) == (payload \div (CounterSpan * (DaysSpan * FlagSpan))) % VersionSpan

=============================================================================
