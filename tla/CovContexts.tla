---------------------------- MODULE CovContexts ----------------------------
(***************************************************************************)
(* What the SubscribeCOV service promises, without entries, address slots, *)
(* flags, sweeps or transactions: a bounded set of COV contexts, each the  *)
(* affair of one subscriber, and for each context whether a notification   *)
(* is pending. Cov implements it when every subscriber finds a place in    *)
(* the address table.                                                      *)
(***************************************************************************)
EXTENDS Integers, FiniteSets

CONSTANTS
  Subscribers,  \* addresses
  Objects,
  Processes,
  Capacity,     \* how many contexts there may be
  Lifetimes,    \* 0 is indefinite
  Elapsed       \* how many seconds may pass at once

VARIABLES
  contexts,  \* a function from the contexts that exist to their terms
  pending    \* contexts that have not been sent the current value

vars == <<contexts, pending>>

Keys == Subscribers \X Objects \X Processes
Terms == [confirmed : BOOLEAN, lifetime : Nat]

TypeOK ==
  /\ DOMAIN contexts \subseteq Keys
  /\ contexts \in [DOMAIN contexts -> Terms]
  /\ pending \subseteq DOMAIN contexts

Init == contexts = << >> /\ pending = {}

Subscribe(key, terms) ==
  LET keys == DOMAIN contexts \cup {key}
  IN /\ Cardinality(keys) <= Capacity
     /\ contexts' = [k \in keys |-> IF k = key THEN terms ELSE contexts[k]]
     /\ pending' = pending \cup {key}

End(keys) ==
  /\ contexts' = [k \in DOMAIN contexts \ keys |-> contexts[k]]
  /\ pending' = pending \ keys

Cancel(key) == key \in DOMAIN contexts /\ End({key})

Expired(seconds) == {k \in DOMAIN contexts : contexts[k].lifetime \in 1..seconds}
Elapse(seconds) ==
  /\ contexts' = [k \in DOMAIN contexts \ Expired(seconds) |->
                    IF contexts[k].lifetime = 0 THEN contexts[k]
                    ELSE [contexts[k] EXCEPT !.lifetime = @ - seconds]]
  /\ pending' = pending \ Expired(seconds)

Change(object) ==
  /\ pending' = pending \cup {k \in DOMAIN contexts : k[2] = object}
  /\ UNCHANGED contexts

Notify(key) ==
  /\ key \in pending
  /\ pending' = pending \ {key}
  /\ UNCHANGED contexts

Next ==
  \/ \E key \in Keys :
       \/ \E confirmed \in BOOLEAN, lifetime \in Lifetimes :
            Subscribe(key, [confirmed |-> confirmed, lifetime |-> lifetime])
       \/ Cancel(key)
       \/ Notify(key)
  \/ \E seconds \in Elapsed : Elapse(seconds)
  \/ \E object \in Objects : Change(object)

Spec == Init /\ [][Next]_vars
=============================================================================
