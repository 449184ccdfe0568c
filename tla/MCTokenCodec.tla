---------------------------- MODULE MCTokenCodec ----------------------------
(* A small TokenCodec for TLC: four symbols, two of which people confuse    *)
(* with letters, three of payload and three of signature, so that a printed *)
(* code has a separator.  The signatures of different payloads, and of      *)
(* different secrets, differ.                                               *)
EXTENDS TokenCodec

FourSymbols == <<"0", "1", "2", "V">>

ToySignature ==
    [secret \in Secret |-> [payload \in Payload |->
        LET mac == (payload * 37 + secret * 11) % 64
        IN  <<mac \div 16, (mac \div 4) % 4, mac % 4>>]]

=============================================================================
