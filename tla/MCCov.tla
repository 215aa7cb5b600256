------------------------------- MODULE MCCov --------------------------------
(* Instance of Cov for TLC.                                                *)
EXTENDS Cov, TLC
CONSTANTS a1, a2, o1, o2, p1

AddressSymmetry == Permutations({a1, a2})
=============================================================================
