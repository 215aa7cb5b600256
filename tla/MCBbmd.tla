------------------------------- MODULE MCBbmd -------------------------------
(* Instance of Bbmd for TLC: two subnets with a host each, two foreign     *)
(* devices of the first BBMD.                                              *)
EXTENDS Bbmd, TLC
CONSTANTS b1, b2, h1, h2, f1, f2

Homes == (h1 :> b1) @@ (h2 :> b2) @@ [f \in {f1, f2} |-> b1]

(* All tables use the same kind of mask.                                   *)
UniformMasks == {[b \in Bbmds |-> kind] : kind \in {"unicast", "directed"}}

(* One subnet is reached through its BBMD and the other by a directed      *)
(* broadcast.                                                              *)
MixedMasks == {[b \in Bbmds |-> IF b = b1 THEN "unicast" ELSE "directed"]}
=============================================================================
