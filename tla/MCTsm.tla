------------------------------- MODULE MCTsm --------------------------------
(* Instance of Tsm for TLC.                                                *)
EXTENDS Tsm, TLC
CONSTANTS c1, c2  \* two clients

ClientSymmetry == Permutations({c1, c2})
=============================================================================
