----------------------------- MODULE MCCovRace ------------------------------
(* Instance of CovRace for TLC.                                            *)
EXTENDS CovRace, TLC
CONSTANTS s1, s2, o1, o2

SubscriberSymmetry == Permutations({s1, s2})
=============================================================================
