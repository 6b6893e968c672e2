---------------------------- MODULE LeaderLease ----------------------------
(***************************************************************************)
(* What leader election promises the rest of a tab                         *)
(* (packages/sqlite-wasm/src/opfs/leader.ts): of the tabs that elect a     *)
(* leader through a Web Lock at most one leads, and leadership never       *)
(* passes from one tab to another in one step: the lock is free between.   *)
(***************************************************************************)
CONSTANTS Electing,  \* the tabs that share one lock name
          Nobody     \* not one of them

VARIABLE owner

Init == owner = Nobody

Acquire(t) == owner = Nobody /\ owner' = t

GiveUp == owner \in Electing /\ owner' = Nobody

Next == GiveUp \/ \E t \in Electing : Acquire(t)

Spec == Init /\ [][Next]_owner
=============================================================================
