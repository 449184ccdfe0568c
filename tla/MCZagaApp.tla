----------------------------- MODULE MCZagaApp -----------------------------
(* Instances of ZagaApp for TLC.                                           *)
EXTENDS ZagaApp

CONSTANTS t1, t2

TwoThreads == {t1, t2}

\* A fresh installation, and an armed device whose owner owes.
FreshAndArmed ==
    {[store |-> "none", due |-> FALSE, lock |-> FALSE, code |-> FALSE, url |-> FALSE],
     [store |-> "portal", due |-> TRUE, lock |-> TRUE, code |-> TRUE, url |-> TRUE]}

=============================================================================
