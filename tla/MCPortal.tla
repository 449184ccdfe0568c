------------------------------ MODULE MCPortal ------------------------------
(* Instances of Portal for TLC: who runs, whose accounts, which codes.     *)
EXTENDS Portal

CONSTANTS p1, p2, a1, a2, s1, s2, e1, e2

TwoProcesses == {p1, p2}
TwoAccounts == {a1, a2}
TwoSecrets == {s1, s2}
TwoEnrollCodes == {e1, e2}
Secrets == [a \in TwoAccounts |-> IF a = a1 THEN s1 ELSE s2]
Accounts == [e \in TwoEnrollCodes |-> IF e = e1 THEN a1 ELSE a2]

Sold(counter, type) ==
    [key |-> s1, counter |-> counter, durationDays |-> 1, type |-> type]

\* Two codes for one account: the other's device must refuse both.
TwoCodes == {Sold(1, "Full"), Sold(2, "Grace")}

=============================================================================
