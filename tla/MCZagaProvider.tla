--------------------------- MODULE MCZagaProvider ---------------------------
(* Instances of ZagaProvider for TLC.  Two tiles are alive at most: the    *)
(* provider's, and the one of an earlier enumeration the host still shows. *)
EXTENDS ZagaProvider

CONSTANTS t1, t2

TwoTiles == {t1, t2}

=============================================================================
