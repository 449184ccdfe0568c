----------------------------- MODULE MCLockGate -----------------------------
(* Instances of LockGate for TLC.                                          *)
EXTENDS LockGate, FiniteSetsExt

CONSTANTS w1, w2, r1, s1

OneWriter == {w1}
TwoWriters == {w1, w2}
OneWriterOneReader == {w1, r1}
OneSecret == {s1}

CodeOf(key, counter, days, type) ==
    [key |-> key, counter |-> counter, durationDays |-> days, type |-> type]

FewCodes == {CodeOf(s1, 1, 1, "Full"), CodeOf(s1, 2, 1, "Grace")}

Mistyped == CodeOf(NoKey, 3, 1, "Full")

ThreeCodes == FewCodes \union {Mistyped}

SoldUpTo(s, n) ==
    MapThenSumSet(LAMBDA c : c.durationDays,
                  {c \in Code : c.key = s /\ c.counter <= n})

TwoDays == 1..2
ThreeDays == 1..3

=============================================================================
