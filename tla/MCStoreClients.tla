--------------------------- MODULE MCStoreClients ---------------------------
(* Instances of StoreClients for TLC: one saver, or two, beside readers.   *)
EXTENDS StoreClients, TLC

CONSTANTS w1, w2, r1, d1, d2

OneSaver == {w1}
TwoSavers == {w1, w2}
OneSaverOneReader == {w1, r1}
TwoRecords == {d1, d2}

SymmetricSavers == Permutations(TwoSavers) \union Permutations(TwoRecords)

=============================================================================
