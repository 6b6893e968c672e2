------------------------------- MODULE MCOpfs -------------------------------
(***************************************************************************)
(* The election of the tabs and the store of the worker share no state: a  *)
(* behaviour is one of one of them, the other rests as it began.           *)
(* Two tabs elect and one has no Web Locks; the store has two versions.    *)
(***************************************************************************)
EXTENDS LeaderElection, DatasetStore
CONSTANTS a, b, c, v1, v2
MCTabs == {a, b, c}
MCLockless == {c}
TwoVersions == {v1, v2}

VARIABLE part
opfsVars == <<part, electionVars, storeVars>>

OpfsInit ==
  /\ part \in {"election", "store"}
  /\ ElectionInit /\ StoreInit
  /\ part = "election" => pin = v1

ElectionPart(A) == part = "election" /\ A /\ UNCHANGED <<part, storeVars>>
StorePart(A) == part = "store" /\ A /\ UNCHANGED <<part, electionVars>>

\* Fairness is that of FairElectionSpec and of FairStoreSpec.
OpfsSpec ==
  /\ OpfsInit
  /\ [][ElectionPart(ElectionNext) \/ StorePart(StoreNext)]_opfsVars
  /\ WF_opfsVars(ElectionPart(\E t \in Tabs : Grant(t)))
  /\ \A t \in Tabs, r \in 1..MaxRounds :
       /\ WF_opfsVars(ElectionPart(Settle(t, r)))
       /\ WF_opfsVars(ElectionPart(Unlock(t, r)))
  /\ WF_opfsVars(StorePart(Progress))
=============================================================================
