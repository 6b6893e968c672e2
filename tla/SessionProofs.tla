--------------------------- MODULE SessionProofs ---------------------------
(***************************************************************************)
(* Proofs about LeaderElection and DemoDbSession, for any set of tabs and  *)
(* any number of rounds and terms.                                         *)
(*                                                                         *)
(* Mutual exclusion of the election is not inductive by itself: what keeps *)
(* two tabs from leading is that a leading tab's own current round runs    *)
(* its callback (LeaderHoldsLock), that the browser runs one electing      *)
(* callback at a time (LockIsExclusive), and that no round of a tab is     *)
(* begun twice (RoundIsLatest, BegunBefore), so that a callback left over  *)
(* from a released round is never taken for the current one.               *)
(*                                                                         *)
(* The session adds the steps the election does not take by itself (a      *)
(* round begun on resume, one ended because its open failed), and ties the *)
(* election to the worker and the worker to the host: a worker has its     *)
(* round's lock, a host has a worker that is open (SessionInv).            *)
(***************************************************************************)
EXTENDS DemoDbSession, TLAPS


\* Every handler keeps the fields of every tab of their kind.
LEMMA ElectionTypePreserved ==
  ElectionTypeOK /\ [ElectionNext]_electionVars => ElectionTypeOK'
<1> USE TabsAssumption, ElectionAssumption DEF ElectionTypeOK, Grants
<1> SUFFICES ASSUME ElectionTypeOK, [ElectionNext]_electionVars
             PROVE  ElectionTypeOK'
  OBVIOUS
<1>1. ASSUME NEW t \in Tabs, Start(t) PROVE ElectionTypeOK'
  BY <1>1 DEF Start, Begin
<1>2. ASSUME NEW t \in Tabs, Grant(t) PROVE ElectionTypeOK'
  BY <1>2 DEF Grant
<1>3. ASSUME NEW t \in Tabs, Release(t) PROVE ElectionTypeOK'
  BY <1>3 DEF Release, EndRound
<1>4. ASSUME NEW t \in Tabs, RequestFailed(t) PROVE ElectionTypeOK'
  BY <1>4 DEF RequestFailed, EndRound
<1>5. ASSUME NEW t \in Tabs, Crash(t) PROVE ElectionTypeOK'
  BY <1>5 DEF Crash, EndRound, OfOthers
<1>6. ASSUME NEW t \in Tabs, NEW r \in 1..MaxRounds, Discard(t, r)
      PROVE ElectionTypeOK'
  BY <1>6 DEF Discard
<1>7. ASSUME NEW t \in Tabs, NEW r \in 1..MaxRounds, Acquired(t, r)
      PROVE ElectionTypeOK'
  BY <1>7 DEF Acquired
<1>8. ASSUME NEW t \in Tabs, NEW r \in 1..MaxRounds, AcquireFailed(t, r)
      PROVE ElectionTypeOK'
  BY <1>8 DEF AcquireFailed, EndRound
<1>9. ASSUME NEW t \in Tabs, NEW r \in 1..MaxRounds, Unlock(t, r)
      PROVE ElectionTypeOK'
  BY <1>9 DEF Unlock
<1>10. CASE UNCHANGED electionVars
  BY <1>10 DEF electionVars
<1>11. QED
  BY <1>1, <1>2, <1>3, <1>4, <1>5, <1>6, <1>7, <1>8, <1>9, <1>10
     DEF ElectionNext, Settle

\* Every field of every tab stays of its kind through all handlers of leader.ts.
THEOREM ElectionTypeCorrect == ElectionSpec => []ElectionTypeOK
<1>1. ElectionInit => ElectionTypeOK
  BY TabsAssumption, ElectionAssumption DEF ElectionInit, ElectionTypeOK, Grants
<1>2. QED
  BY <1>1, ElectionTypePreserved, PTL DEF ElectionSpec

-----------------------------------------------------------------------------

\* One case per handler: the strengthened invariant is inductive.
LEMMA ElectionInvInductive ==
  ElectionTypeOK /\ ElectionTypeOK' /\ ElectionInv /\ [ElectionNext]_electionVars
    => ElectionInv'
<1> SUFFICES ASSUME ElectionTypeOK, ElectionTypeOK', ElectionInv,
                    [ElectionNext]_electionVars
             PROVE  ElectionInv'
  OBVIOUS
<1> USE TabsAssumption, ElectionAssumption
    DEF ElectionTypeOK, Grants, Electing, ElectionInv, RoundIsLatest,
        BegunBefore, IdleHasNoRound, WaitingIsQueued, LeaderHoldsLock,
        LockIsExclusive
<1>1. ASSUME NEW t \in Tabs, Start(t) PROVE ElectionInv'
  <2>1. /\ RoundIsLatest' /\ BegunBefore' /\ IdleHasNoRound'
    BY <1>1 DEF Start, Begin
  <2>2. \A g \in requests \cup opening \cup holding : g # <<t, begun[t] + 1>>
    OBVIOUS
  <2>3. WaitingIsQueued' /\ LeaderHoldsLock'
    BY <1>1, <2>2 DEF Start, Begin
  <2>4. LockIsExclusive'
    BY <1>1 DEF Start, Begin
  <2>5. QED
    BY <2>1, <2>3, <2>4
<1>2. ASSUME NEW t \in Tabs, Grant(t) PROVE ElectionInv'
  <2>1. /\ RoundIsLatest' /\ BegunBefore' /\ IdleHasNoRound'
    BY <1>2 DEF Grant
  <2>2. WaitingIsQueued' /\ LeaderHoldsLock'
    BY <1>2 DEF Grant
  <2>3. LockIsExclusive'
    BY <1>2 DEF Grant, LockFree
  <2>4. QED
    BY <2>1, <2>2, <2>3
<1>3. ASSUME NEW t \in Tabs, Release(t) PROVE ElectionInv'
  BY <1>3 DEF Release, EndRound
<1>4. ASSUME NEW t \in Tabs, RequestFailed(t) PROVE ElectionInv'
  BY <1>4 DEF RequestFailed, EndRound
<1>5. ASSUME NEW t \in Tabs, Crash(t) PROVE ElectionInv'
  BY <1>5 DEF Crash, EndRound, OfOthers
<1>6. ASSUME NEW t \in Tabs, NEW r \in 1..MaxRounds, Discard(t, r)
      PROVE ElectionInv'
  BY <1>6 DEF Discard
<1>7. ASSUME NEW t \in Tabs, NEW r \in 1..MaxRounds, Acquired(t, r)
      PROVE ElectionInv'
  BY <1>7 DEF Acquired
<1>8. ASSUME NEW t \in Tabs, NEW r \in 1..MaxRounds, AcquireFailed(t, r)
      PROVE ElectionInv'
  BY <1>8 DEF AcquireFailed, EndRound
<1>9. ASSUME NEW t \in Tabs, NEW r \in 1..MaxRounds, Unlock(t, r)
      PROVE ElectionInv'
  BY <1>9 DEF Unlock
<1>10. CASE UNCHANGED electionVars
  BY <1>10 DEF electionVars
<1>11. QED
  BY <1>1, <1>2, <1>3, <1>4, <1>5, <1>6, <1>7, <1>8, <1>9, <1>10
     DEF ElectionNext, Settle

\* The inductive invariant holds of every reachable state.
THEOREM ElectionInvariant == ElectionSpec => []ElectionInv
<1>1. ElectionInit => ElectionInv
  BY TabsAssumption, ElectionAssumption
     DEF ElectionInit, ElectionInv, RoundIsLatest, BegunBefore, IdleHasNoRound,
         WaitingIsQueued, LeaderHoldsLock, LockIsExclusive
<1>2. QED
  BY <1>1, ElectionInvInductive, ElectionTypeCorrect, PTL DEF ElectionSpec

\* The invariant excludes two leaders: both would hold the lock, which has one holder.
LEMMA LeadersAreOne ==
  ElectionInv => MutualExclusion
BY DEF ElectionInv, LeaderHoldsLock, LockIsExclusive, MutualExclusion, Electing

\* At most one electing tab leads at any time, for any number of tabs, rounds,
\* failures and crashes.
THEOREM ElectionMutualExclusion == ElectionSpec => []MutualExclusion
BY ElectionInvariant, LeadersAreOne, PTL

-----------------------------------------------------------------------------

\* A step that changes the state of one tab only, and makes it lead only when
\* no electing tab led, is a step of the lease or leaves it alone.
LEMMA LeaseStep ==
  ASSUME MutualExclusion, MutualExclusion', ElectionTypeOK, ElectionTypeOK',
         NEW t \in Tabs,
         \A u \in Tabs : u # t => state'[u] = state[u],
         t \in Electing /\ state[t] # "leader" /\ state'[t] = "leader"
           => leaders = {}
  PROVE  [Lease!Next]_owner
<1> USE TabsAssumption, ElectionAssumption DEF Electing
<1>1. CASE (t \in Electing /\ state[t] = "leader")
             <=> (t \in Electing /\ state'[t] = "leader")
  <2>1. \A u \in Electing : state'[u] = "leader" <=> state[u] = "leader"
    BY <1>1
  <2>2. leaders' = leaders
    BY <2>1 DEF leaders
  <2>3. QED
    BY <2>2 DEF owner
<1>2. CASE t \in Electing /\ state[t] # "leader" /\ state'[t] = "leader"
  <2>1. owner = Nobody
    BY <1>2 DEF owner
  <2>2. leaders' = {t}
    BY <1>2 DEF leaders
  <2>3. owner' = t
    BY <2>2 DEF owner
  <2>4. QED
    BY <1>2, <2>1, <2>3 DEF Lease!Next, Lease!Acquire
<1>3. CASE t \in Electing /\ state[t] = "leader" /\ state'[t] # "leader"
  <2>1. leaders = {t}
    BY <1>3 DEF leaders, MutualExclusion
  <2>2. owner = t
    BY <2>1 DEF owner
  <2>3. leaders' = {}
    BY <1>3, <2>1 DEF leaders
  <2>4. owner' = Nobody
    BY <2>3 DEF owner
  <2>5. QED
    BY <1>3, <2>2, <2>4 DEF Lease!Next, Lease!GiveUp
<1>4. QED
  BY <1>1, <1>2, <1>3

\* No handler, failure or crash takes leadership from one tab straight to
\* another: the election implements the abstract lease.
THEOREM ElectionImplementsLease == ElectionSpec => ImplementsLease
<1>1. ElectionInit => Lease!Init
  BY DEF ElectionInit, Lease!Init, owner, leaders, Electing
<1>2. /\ ElectionTypeOK /\ ElectionTypeOK' /\ ElectionInv /\ ElectionInv'
      /\ [ElectionNext]_electionVars
      => [Lease!Next]_owner
  <2> SUFFICES ASSUME ElectionTypeOK, ElectionTypeOK', ElectionInv, ElectionInv',
                      [ElectionNext]_electionVars
               PROVE  [Lease!Next]_owner
    OBVIOUS
  <2>1. MutualExclusion /\ MutualExclusion'
    BY DEF ElectionInv, LeaderHoldsLock, LockIsExclusive, MutualExclusion, Electing
  <2>2. ASSUME NEW t \in Tabs, Start(t) PROVE [Lease!Next]_owner
    BY <2>1, <2>2, LeaseStep DEF Start, Begin, ElectionTypeOK, Electing
  <2>3. ASSUME NEW t \in Tabs, Grant(t) PROVE [Lease!Next]_owner
    <3>1. leaders = {}
      BY <2>3 DEF Grant, LockFree, leaders, ElectionInv, LeaderHoldsLock, Electing
    <3>2. QED
      BY <2>1, <2>3, <3>1, LeaseStep DEF Grant, ElectionTypeOK
  <2>4. ASSUME NEW t \in Tabs, EndRound(t) PROVE [Lease!Next]_owner
    BY <2>1, <2>4, LeaseStep DEF EndRound, ElectionTypeOK
  <2>5. CASE UNCHANGED state
    BY <2>5 DEF owner, leaders
  <2>6. ASSUME NEW t \in Tabs,
               \/ Release(t) \/ RequestFailed(t) \/ Crash(t)
               \/ \E r \in 1..MaxRounds : Discard(t, r) \/ Settle(t, r) \/ Unlock(t, r)
        PROVE EndRound(t) \/ UNCHANGED state
    BY <2>6 DEF Release, RequestFailed, Crash, Discard, Settle, Acquired,
                AcquireFailed, Unlock
  <2>7. QED
    BY <2>2, <2>3, <2>4, <2>5, <2>6 DEF ElectionNext, electionVars
<1>3. QED
  BY <1>1, <1>2, ElectionTypeCorrect, ElectionInvariant, PTL
     DEF ElectionSpec, ImplementsLease, Lease!Spec

-----------------------------------------------------------------------------
(* The session: what its handlers do to the election and to the host.      *)

\* What the session's invariant needs to know of the kinds of its fields.
SessionFields ==
  /\ ElectionTypeOK
  /\ role \in [Tabs -> {"connecting", "leader", "follower", "suspended", "failed", "closed", "gone"}]
  /\ leading \in [Tabs -> 0..MaxRounds]
  /\ clients \subseteq Grants
  /\ host \in [Tabs -> Nat] /\ terms \in Nat /\ closed \in [Tabs -> BOOLEAN]

\* A bridge closes, and stays closed.
MayClose(t) == closed' = closed \/ closed' = [closed EXCEPT ![t] = TRUE]

\* Closing keeps the kind of the field.
LEMMA MayCloseType ==
  ASSUME closed \in [Tabs -> BOOLEAN], NEW t \in Tabs, MayClose(t)
  PROVE  closed' \in [Tabs -> BOOLEAN]
<1>1. CASE closed' = closed
  BY <1>1
<1>2. CASE closed' = [closed EXCEPT ![t] = TRUE]
  BY <1>2
<1> QED
  BY <1>1, <1>2 DEF MayClose

\* A session begins rounds outside start() too: after a worker failed, and on resume.
LEMMA BeginKeepsElection ==
  ASSUME ElectionTypeOK, ElectionInv, NEW t \in Tabs, t \in alive, Begin(t)
  PROVE  ElectionTypeOK' /\ ElectionInv'
<1> USE TabsAssumption, ElectionAssumption
<1>1. ElectionTypeOK'
  BY DEF Begin, ElectionTypeOK, Grants
<1>2. \A g \in requests \cup opening \cup holding : g # <<t, begun[t] + 1>>
  BY DEF ElectionTypeOK, Grants, ElectionInv, BegunBefore
<1>3. RoundIsLatest' /\ BegunBefore' /\ IdleHasNoRound'
  BY DEF Begin, ElectionTypeOK, Grants, Electing, ElectionInv, RoundIsLatest, BegunBefore, IdleHasNoRound
<1>4. WaitingIsQueued' /\ LeaderHoldsLock'
  BY <1>2 DEF Begin, ElectionTypeOK, Grants, Electing, ElectionInv, WaitingIsQueued, LeaderHoldsLock
<1>5. LockIsExclusive'
  BY DEF Begin, ElectionTypeOK, Grants, Electing, ElectionInv, LockIsExclusive
<1> QED
  BY <1>1, <1>3, <1>4, <1>5 DEF ElectionInv

\* A session also ends a round when another round's open fails.
LEMMA EndKeepsElection ==
  ASSUME ElectionTypeOK, ElectionInv, NEW t \in Tabs, EndRound(t),
         UNCHANGED <<alive, begun, requests, holding>>, opening' \subseteq opening,
         \A g \in opening : g[1] # t => g \in opening'
  PROVE  ElectionTypeOK' /\ ElectionInv'
<1> USE TabsAssumption, ElectionAssumption
<1>1. ElectionTypeOK'
  BY DEF EndRound, ElectionTypeOK, Grants
<1>2. RoundIsLatest' /\ BegunBefore' /\ IdleHasNoRound'
  BY DEF EndRound, ElectionTypeOK, Grants, Electing, ElectionInv, RoundIsLatest, BegunBefore, IdleHasNoRound
<1>3. WaitingIsQueued'
  BY DEF EndRound, ElectionTypeOK, Grants, Electing, ElectionInv, WaitingIsQueued
<1>4. LeaderHoldsLock'
  BY DEF EndRound, ElectionTypeOK, Grants, Electing, ElectionInv, LeaderHoldsLock
<1>5. LockIsExclusive'
  BY DEF EndRound, ElectionTypeOK, Grants, Electing, ElectionInv, LockIsExclusive
<1> QED
  BY <1>1, <1>2, <1>3, <1>4, <1>5 DEF ElectionInv

\* Of the session's steps, these are steps of the election.
LEMMA ElectionSteps ==
  ASSUME ElectionTypeOK, ElectionInv, NEW t \in Tabs,
         \/ Grant(t) \/ RequestFailed(t) \/ Crash(t)
         \/ \E r \in 1..MaxRounds : Discard(t, r) \/ Settle(t, r) \/ Unlock(t, r)
  PROVE  ElectionTypeOK' /\ ElectionInv'
<1>1. [ElectionNext]_electionVars
  BY DEF ElectionNext
<1> QED
  BY <1>1, ElectionTypePreserved, ElectionInvInductive

\* What the bridge's methods do to the host of a tab.
LEMMA HostSteps ==
  ASSUME NEW t \in Tabs, host \in [Tabs -> Nat], terms \in Nat
  PROVE  /\ BecomeLeader(t) => host' = [host EXCEPT ![t] = terms + 1] /\ terms' = terms + 1
         /\ StepDown(t) => host' = [host EXCEPT ![t] = 0]
         /\ \A byes : (Leave(t, byes) \/ Close(t, byes)) => host' = [host EXCEPT ![t] = 0]
         /\ BridgeCrash(t) => host' = [host EXCEPT ![t] = 0]
         /\ SayHello(t) => host' = host
         /\ \A byes : Close(t, byes) => closed' = [closed EXCEPT ![t] = TRUE]
         /\ \A n : Receive(t, n) => host' = host /\ terms' = terms
<1>1. BecomeLeader(t) => host' = [host EXCEPT ![t] = terms + 1] /\ terms' = terms + 1
  BY DEF BecomeLeader, SetLeader
<1>2. StepDown(t) => host' = [host EXCEPT ![t] = 0]
  BY DEF StepDown, SetLeader, KeepLeader
<1>3. \A byes : (Leave(t, byes) \/ Close(t, byes)) => host' = [host EXCEPT ![t] = 0]
  BY DEF Leave, Close, CloseKnowing, SetLeader
<1>4. BridgeCrash(t) => host' = [host EXCEPT ![t] = 0]
  BY DEF BridgeCrash
<1>5. SayHello(t) => host' = host
  BY DEF SayHello, KeepLeader
<1>7. \A byes : Close(t, byes) => closed' = [closed EXCEPT ![t] = TRUE]
  BY DEF Close, CloseKnowing
<1>6. ASSUME NEW n, Receive(t, n) PROVE host' = host /\ terms' = terms
  <2>1. CASE ReceiveHello(t, n)
    BY <2>1 DEF ReceiveHello, KeepLeader
  <2>2. CASE ReceiveLeader(t, n, <<>>)
    BY <2>2 DEF ReceiveLeader, KeepLeader, SetLeader
  <2>3. CASE ReceiveBye(t, n)
    BY <2>3 DEF ReceiveBye, KeepLeader, SetLeader
  <2>4. CASE ReceiveReq(t, n)
    BY <2>4 DEF ReceiveReq
  <2>5. CASE ReceiveRes(t, n)
    BY <2>5 DEF ReceiveRes
  <2> QED
    BY <1>6, <2>1, <2>2, <2>3, <2>4, <2>5 DEF Receive
<1> QED
  BY <1>1, <1>2, <1>3, <1>4, <1>5, <1>6, <1>7

\* A new state of the election leaves a role a role, and a suspended, failed or
\* closed session as it is.
LEMMA RolesUnder ==
  ASSUME role \in [Tabs -> {"connecting", "leader", "follower", "suspended", "failed", "closed", "gone"}],
         NEW t \in Tabs, NEW l
  PROVE  /\ RoleUnder(t, l) \in {"connecting", "leader", "follower", "suspended", "failed", "closed"}
         /\ RoleUnder(t, l) \in {"suspended", "failed", "closed"} => RoleUnder(t, l) = role[t]
BY DEF RoleUnder

\* An electing tab whose round still opens has no leading worker and answers nobody.
LEMMA OpeningLeadsNothing ==
  ASSUME SessionFields, SessionInv, NEW t \in Electing, NEW r \in 1..MaxRounds, <<t, r>> \in opening
  PROVE  leading[t] = 0 /\ ~Answers(t)
<1>1. leading[t] # 0 => <<t, leading[t]>> \in holding
  BY DEF SessionInv, LeadingIsCurrent
<1>2. <<t, r>> \notin holding
  BY DEF SessionInv, RoundsAdvance
<1>3. <<t, leading[t]>> \in holding => <<t, leading[t]>> = <<t, r>>
  BY DEF SessionInv, ElectionInv, LockIsExclusive
<1>4. leading[t] = 0
  BY <1>1, <1>2, <1>3
<1> QED
  BY <1>4 DEF SessionInv, HostHasWorker

\* The lock is granted: the worker opens under it.
LEMMA LockGrantedKeeps ==
  ASSUME SessionFields, SessionInv, NEW t \in Tabs, LockGranted(t)
  PROVE  SessionFields' /\ SessionInv'
<1> USE DEF LockGranted, Grant, bridgeRest
<1>1. ElectionTypeOK' /\ ElectionInv'
  BY ElectionSteps DEF SessionFields, SessionInv
<1>2. round[t] \in 1..MaxRounds /\ t \in alive
  BY DEF SessionFields, ElectionTypeOK, Grants, SessionInv, ElectionInv, IdleHasNoRound
<1>3. SessionFields'
  BY <1>1, <1>2 DEF SessionFields, Grants
<1>4. RoundsAdvance'
  BY DEF SessionInv, RoundsAdvance
<1>5. WorkersHaveLock' /\ OpeningHasWorker'
  BY <1>2 DEF SessionInv, WorkersHaveLock, OpeningHasWorker
<1>6. LeadingIsCurrent' /\ HostHasWorker' /\ RoleOfPage'
  BY DEF SessionInv, LeadingIsCurrent, HostHasWorker, Answers, RoleOfPage
<1>7. EndedIsShut'
  BY DEF SessionInv, EndedIsShut
<1> QED
  BY <1>1, <1>3, <1>4, <1>5, <1>6, <1>7 DEF SessionInv

\* The open succeeds too late: the worker is terminated.
LEMMA OpensLateKeeps ==
  ASSUME SessionFields, SessionInv, NEW t \in Tabs, NEW r \in 1..MaxRounds,
         Acquired(t, r), state[t] # "leader", clients' = clients \ {<<t, r>>},
         UNCHANGED <<bridgeRest, role, leading>>
  PROVE  SessionFields' /\ SessionInv'
<1> USE DEF Acquired
<1>1. ElectionTypeOK' /\ ElectionInv'
  BY ElectionSteps DEF SessionFields, SessionInv, Settle
<1>2. <<t, r>> \in opening /\ <<t, r>> \notin holding /\ t \in alive
  BY DEF SessionInv, RoundsAdvance, OpeningHasWorker
<1>3. RoundsAdvance'
  BY DEF SessionInv, RoundsAdvance
<1>4. SessionFields'
  BY <1>1 DEF SessionFields, bridgeRest
<1>5. WorkersHaveLock' /\ OpeningHasWorker'
  BY <1>2 DEF SessionInv, WorkersHaveLock, OpeningHasWorker
<1>6. LeadingIsCurrent'
  BY <1>2 DEF SessionInv, LeadingIsCurrent
<1>7. HostHasWorker' /\ EndedIsShut'
  BY DEF SessionInv, HostHasWorker, Answers, EndedIsShut, bridgeRest
<1>8. RoleOfPage'
  BY DEF SessionInv, RoleOfPage
<1> QED
  BY <1>1, <1>3, <1>4, <1>5, <1>6, <1>7, <1>8 DEF SessionInv

\* The open succeeds: the tab leads, and announces itself.
LEMMA OpensInTimeKeeps ==
  ASSUME SessionFields, SessionInv, NEW t \in Tabs, NEW r \in 1..MaxRounds,
         Acquired(t, r), state[t] = "leader", leading' = [leading EXCEPT ![t] = r],
         BecomeLeader(t), role' = [role EXCEPT ![t] = RoleUnder(t, t)],
         UNCHANGED <<closed, clients>>
  PROVE  SessionFields' /\ SessionInv'
<1> USE DEF Acquired
<1>1. ElectionTypeOK' /\ ElectionInv'
  BY ElectionSteps DEF SessionFields, SessionInv, Settle
<1>2. <<t, r>> \in opening /\ <<t, r>> \notin holding /\ t \in alive
  BY DEF SessionInv, RoundsAdvance, OpeningHasWorker
<1>3. RoundsAdvance'
  BY DEF SessionInv, RoundsAdvance
<1>4. host' = [host EXCEPT ![t] = terms + 1] /\ terms' = terms + 1
  BY HostSteps DEF SessionFields
<1>5. t \in Electing => round[t] = r /\ leading[t] = 0
  <2>1. t \in Electing => leading[t] = 0
    BY <1>2, OpeningLeadsNothing
  <2>2. <<t, round[t]>> \in opening \cup holding
    BY DEF SessionInv, ElectionInv, LeaderHoldsLock
  <2> QED
    BY <1>2, <2>1, <2>2 DEF SessionInv, ElectionInv, LockIsExclusive
<1>6. SessionFields'
  BY <1>1, <1>4, RolesUnder DEF SessionFields
<1>7. WorkersHaveLock' /\ OpeningHasWorker'
  BY <1>2, <1>5 DEF SessionInv, WorkersHaveLock, OpeningHasWorker, SessionFields, Grants
<1>8. LeadingIsCurrent'
  BY <1>2, <1>5 DEF SessionInv, LeadingIsCurrent, OpeningHasWorker, SessionFields
<1>9. HostHasWorker'
  BY <1>4 DEF SessionInv, HostHasWorker, Answers, SessionFields
<1>10. EndedIsShut'
  BY RolesUnder DEF SessionInv, EndedIsShut, SessionFields
<1>11. RoleOfPage'
  <2>1. role[t] # "suspended"
    BY DEF SessionInv, ElectionInv, IdleHasNoRound, RoleOfPage
  <2> QED
    BY <1>2, <2>1, RolesUnder DEF SessionInv, RoleOfPage, SessionFields
<1> QED
  BY <1>1, <1>3, <1>6, <1>7, <1>8, <1>9, <1>10, <1>11 DEF SessionInv

\* A listener closes the session while #lead reports: the host the bridge is
\* still given answers nobody.
LEMMA ClosedAtOpenKeeps ==
  ASSUME SessionFields, SessionInv, NEW t \in Tabs, NEW r \in 1..MaxRounds,
         ClosedAtOpen(t, r), closed' = [closed EXCEPT ![t] = TRUE],
         NEW h \in Nat, host' = [host EXCEPT ![t] = h], terms' = terms + 1
  PROVE  SessionFields' /\ SessionInv'
<1> USE TabsAssumption, ElectionAssumption
<1>0. /\ <<t, r>> \in opening /\ opening' = opening \ {<<t, r>>} /\ holding' = holding \cup {<<t, r>>}
      /\ EndRound(t) /\ UNCHANGED <<alive, begun, requests>>
      /\ leading' = [leading EXCEPT ![t] = 0] /\ clients' = clients \ {<<t, r>>}
      /\ role' = [role EXCEPT ![t] = "closed"]
  BY DEF ClosedAtOpen, SetRole
<1>1. ElectionTypeOK'
  BY <1>0 DEF EndRound, ElectionTypeOK, Grants, SessionFields
<1>2. ElectionInv'
  <2>0. ElectionTypeOK /\ ElectionInv
    BY DEF SessionFields, SessionInv
  <2>1. RoundIsLatest' /\ BegunBefore' /\ IdleHasNoRound'
    BY <1>0, <2>0 DEF EndRound, ElectionTypeOK, Grants, Electing, ElectionInv, RoundIsLatest, BegunBefore, IdleHasNoRound
  <2>2. WaitingIsQueued' /\ LeaderHoldsLock'
    BY <1>0, <2>0 DEF EndRound, ElectionTypeOK, Grants, Electing, ElectionInv, WaitingIsQueued, LeaderHoldsLock
  <2>3. LockIsExclusive'
    BY <1>0, <2>0 DEF ElectionInv, LockIsExclusive
  <2> QED
    BY <2>1, <2>2, <2>3 DEF ElectionInv
<1>3. t \in alive /\ (t \in Electing => leading[t] = 0)
  BY <1>0, OpeningLeadsNothing DEF SessionInv, OpeningHasWorker
<1>4. SessionFields'
  BY <1>0, <1>1 DEF SessionFields
<1>5. RoundsAdvance'
  BY <1>0 DEF SessionInv, RoundsAdvance
<1>6. WorkersHaveLock'
  BY <1>0, <1>3 DEF SessionInv, WorkersHaveLock, SessionFields, Grants
<1>7. OpeningHasWorker'
  BY <1>0 DEF SessionInv, OpeningHasWorker
<1>8. LeadingIsCurrent'
  <2> SUFFICES ASSUME NEW u \in Electing, leading'[u] # 0
               PROVE  leading'[u] = round'[u] /\ <<u, leading'[u]>> \in clients' \cap holding'
    BY DEF LeadingIsCurrent
  <2>1. u # t /\ leading'[u] = leading[u]
    BY <1>0 DEF SessionFields, Electing
  <2>2. round'[u] = round[u]
    BY <1>0, <2>1 DEF EndRound, SessionFields, ElectionTypeOK, Electing
  <2> QED
    BY <1>0, <2>1, <2>2 DEF SessionInv, LeadingIsCurrent
<1>9. HostHasWorker'
  BY <1>0 DEF SessionInv, HostHasWorker, Answers, SessionFields, Electing
<1>10. EndedIsShut'
  BY <1>0 DEF SessionInv, EndedIsShut, SessionFields
<1>11. RoleOfPage'
  BY <1>0, <1>3 DEF SessionInv, RoleOfPage, SessionFields, EndRound, ElectionTypeOK
<1> QED
  BY <1>2, <1>4, <1>5, <1>6, <1>7, <1>8, <1>9, <1>10, <1>11 DEF SessionInv

\* An open resolves.
LEMMA OpenSucceedsKeeps ==
  ASSUME SessionFields, SessionInv, NEW t \in Tabs, NEW r \in 1..MaxRounds, OpenSucceeds(t, r)
  PROVE  SessionFields' /\ SessionInv'
<1>1. CASE /\ Acquired(t, r) /\ state[t] # "leader" /\ clients' = clients \ {<<t, r>>}
           /\ UNCHANGED <<bridgeRest, role, leading>>
  BY <1>1, OpensLateKeeps
<1>2. CASE /\ Acquired(t, r) /\ state[t] = "leader" /\ leading' = [leading EXCEPT ![t] = r]
           /\ BecomeLeader(t) /\ SetRole(t, RoleUnder(t, t)) /\ UNCHANGED <<closed, churn, clients>>
  BY <1>2, OpensInTimeKeeps DEF SetRole
<1>3. CASE ClosedAtOpen(t, r) /\ terms' = terms + 1 /\ (LeadsClosed(t) \/ ClosedLeading(t))
  <2>1. CASE LeadsClosed(t)
    <3>1. /\ closed' = [closed EXCEPT ![t] = TRUE] /\ host' = [host EXCEPT ![t] = terms + 1]
          /\ terms + 1 \in Nat
      BY <2>1 DEF LeadsClosed, CloseKnowing, SessionFields
    <3> QED
      BY <1>3, <3>1, ClosedAtOpenKeeps
  <2>2. CASE ClosedLeading(t)
    <3>1. closed' = [closed EXCEPT ![t] = TRUE] /\ host' = [host EXCEPT ![t] = 0] /\ 0 \in Nat
      BY <2>2 DEF ClosedLeading, CloseKnowing
    <3> QED
      BY <1>3, <3>1, ClosedAtOpenKeeps
  <2> QED
    BY <1>3, <2>1, <2>2
<1> QED
  BY <1>1, <1>2, <1>3 DEF OpenSucceeds

\* The bridge closes, or the session was closed before.
LEMMA FailSteps ==
  ASSUME SessionFields, NEW t \in Tabs, NEW byes, Fail(t, byes)
  PROVE  /\ host' = host \/ host' = [host EXCEPT ![t] = 0]
         /\ role' = role \/ (role' = [role EXCEPT ![t] = "failed"] /\ closed' = [closed EXCEPT ![t] = TRUE])
         /\ terms' = terms /\ MayClose(t)
BY HostSteps DEF SessionFields, Fail, bridgeRest, SetRole, MayClose

\* The open fails: the round ends without a host.
LEMMA OpenFailsKeeps ==
  ASSUME SessionFields, SessionInv, NEW t \in Tabs, NEW r \in 1..MaxRounds, OpenFails(t, r)
  PROVE  SessionFields' /\ SessionInv'
<1>1. <<t, r>> \in opening /\ opening' = opening \ {<<t, r>>} /\ t \in alive
      /\ UNCHANGED <<alive, begun, requests, holding>>
  BY DEF OpenFails, AcquireFailed, SessionInv, OpeningHasWorker
<1>2. EndRound(t) \/ (round[t] # r /\ UNCHANGED <<state, round>>)
  BY DEF OpenFails, AcquireFailed
<1>3. /\ clients' = clients \ {<<t, r>>, <<t, leading[t]>>}
      /\ leading' = IF round'[t] = 0 THEN [leading EXCEPT ![t] = 0] ELSE leading
      /\ Fail(t, <<Bye(t)>>)
  BY DEF OpenFails
<1>4. ElectionTypeOK' /\ ElectionInv'
  <2>1. CASE AcquireFailed(t, r)
    BY <2>1, ElectionSteps DEF SessionFields, SessionInv, Settle
  <2>2. CASE EndRound(t)
    BY <1>1, <2>2, EndKeepsElection DEF SessionFields, SessionInv
  <2> QED
    BY <2>1, <2>2 DEF OpenFails
<1>0. /\ host' = host \/ host' = [host EXCEPT ![t] = 0]
      /\ role' = role \/ (role' = [role EXCEPT ![t] = "failed"] /\ closed' = [closed EXCEPT ![t] = TRUE])
      /\ terms' = terms /\ MayClose(t)
  BY <1>3, FailSteps
<1>5. SessionFields'
  <2>1. leading' \in [Tabs -> 0..MaxRounds] /\ clients' \subseteq Grants
    BY <1>3, ElectionAssumption DEF SessionFields
  <2>4. closed' \in [Tabs -> BOOLEAN]
    BY <1>0, MayCloseType DEF SessionFields
  <2>2. host' \in [Tabs -> Nat] /\ terms' \in Nat
    BY <1>0 DEF SessionFields
  <2>3. role' \in [Tabs -> {"connecting", "leader", "follower", "suspended", "failed", "closed", "gone"}]
    BY <1>0 DEF SessionFields
  <2> QED
    BY <1>4, <2>1, <2>2, <2>3, <2>4 DEF SessionFields
<1>6. RoundsAdvance'
  BY <1>1 DEF SessionInv, RoundsAdvance
<1>7. t \in Electing => leading[t] = 0 /\ ~Answers(t)
  BY <1>1, OpeningLeadsNothing
<1>8. WorkersHaveLock'
  BY <1>1, <1>3, <1>7 DEF SessionInv, WorkersHaveLock, SessionFields, Grants
<1>9. OpeningHasWorker'
  <2>1. <<t, 0>> \notin opening
    BY DEF SessionFields, ElectionTypeOK, Grants
  <2> QED
    BY <1>1, <1>3, <1>7, <2>1 DEF SessionInv, OpeningHasWorker, SessionFields
<1>10. LeadingIsCurrent'
  <2> SUFFICES ASSUME NEW u \in Electing, leading'[u] # 0
               PROVE  leading'[u] = round'[u] /\ <<u, leading'[u]>> \in clients' \cap holding'
    BY DEF LeadingIsCurrent
  <2>1. u # t /\ leading'[u] = leading[u]
    BY <1>3, <1>7 DEF SessionFields, Electing
  <2>2. round'[u] = round[u]
    BY <1>2, <2>1 DEF EndRound, SessionFields, ElectionTypeOK, Electing
  <2> QED
    BY <1>1, <1>3, <2>1, <2>2 DEF SessionInv, LeadingIsCurrent
<1>11. HostHasWorker'
  <2> SUFFICES ASSUME NEW u \in Electing, host'[u] # 0, ~closed'[u]
               PROVE  leading'[u] # 0
    BY DEF HostHasWorker, Answers
  <2>1. u # t /\ host'[u] = host[u] /\ closed'[u] = closed[u]
    BY <1>0, <1>7 DEF SessionFields, Electing, MayClose, Answers
  <2>2. leading'[u] = leading[u]
    BY <1>3, <2>1 DEF SessionFields, Electing
  <2> QED
    BY <2>1, <2>2 DEF SessionInv, HostHasWorker, Answers
<1>13. EndedIsShut'
  BY <1>0 DEF SessionInv, EndedIsShut, SessionFields, MayClose
<1>12. RoleOfPage'
  BY <1>0, <1>1, <1>2, <1>3 DEF SessionInv, RoleOfPage, SessionFields, EndRound, ElectionTypeOK
<1> QED
  BY <1>4, <1>5, <1>6, <1>8, <1>9, <1>10, <1>11, <1>12, <1>13 DEF SessionInv

\* The lock request is refused.
LEMMA LockRefusedKeeps ==
  ASSUME SessionFields, SessionInv, NEW t \in Tabs, LockRefused(t)
  PROVE  SessionFields' /\ SessionInv'
<1> USE DEF LockRefused, RequestFailed
<1>1. ElectionTypeOK' /\ ElectionInv'
  BY ElectionSteps DEF SessionFields, SessionInv
<1>2. round[t] \in 1..MaxRounds /\ t \in alive
  BY DEF SessionFields, ElectionTypeOK, Grants, SessionInv, ElectionInv, IdleHasNoRound
<1>3. t \in Electing => leading[t] = 0 /\ ~Answers(t)
  BY DEF SessionInv, LeadingIsCurrent, RoundsAdvance, HostHasWorker
<1>0. /\ host' = host \/ host' = [host EXCEPT ![t] = 0]
      /\ role' = role \/ (role' = [role EXCEPT ![t] = "failed"] /\ closed' = [closed EXCEPT ![t] = TRUE])
      /\ terms' = terms /\ MayClose(t)
  BY FailSteps
<1>4. SessionFields'
  <2>1. closed' \in [Tabs -> BOOLEAN]
    BY <1>0, MayCloseType DEF SessionFields
  <2>2. host' \in [Tabs -> Nat] /\ terms' \in Nat
    BY <1>0 DEF SessionFields
  <2>3. role' \in [Tabs -> {"connecting", "leader", "follower", "suspended", "failed", "closed", "gone"}]
    BY <1>0 DEF SessionFields
  <2> QED
    BY <1>1, <2>1, <2>2, <2>3 DEF SessionFields
<1>5. RoundsAdvance'
  BY DEF SessionInv, RoundsAdvance
<1>6. WorkersHaveLock' /\ OpeningHasWorker'
  BY DEF SessionInv, WorkersHaveLock, OpeningHasWorker
<1>7. LeadingIsCurrent'
  BY <1>3 DEF SessionInv, LeadingIsCurrent, SessionFields, EndRound, ElectionTypeOK
<1>8. HostHasWorker'
  BY <1>0, <1>3 DEF SessionInv, HostHasWorker, Answers, SessionFields, Electing, MayClose
<1>10. EndedIsShut'
  BY <1>0 DEF SessionInv, EndedIsShut, SessionFields, MayClose
<1>9. RoleOfPage'
  BY <1>0, <1>2 DEF SessionInv, RoleOfPage, SessionFields, EndRound, ElectionTypeOK
<1> QED
  BY <1>1, <1>4, <1>5, <1>6, <1>7, <1>8, <1>9, <1>10 DEF SessionInv

\* #stopLeading, or the death of the worker: the host and the worker go together,
\* and what opens from then on opens without a lock.
LEMMA StopsLeading ==
  ASSUME SessionFields, SessionInv, NEW t \in Tabs, t \in alive,
         leading' = [leading EXCEPT ![t] = 0], host' = [host EXCEPT ![t] = 0],
         UNCHANGED <<alive, holding>>, MayClose(t),
         \A u \in Tabs : u # t => round'[u] = round[u],
         opening \subseteq opening', \A g \in opening' \ opening : g[1] = t /\ g[1] \notin Electing,
         clients' = (clients \ {<<t, leading[t]>>}) \cup (opening' \ opening)
  PROVE  WorkersHaveLock' /\ OpeningHasWorker' /\ LeadingIsCurrent' /\ HostHasWorker'
<1>1. WorkersHaveLock'
  <2> SUFFICES ASSUME NEW w \in clients'
               PROVE  /\ w[1] \in alive'
                      /\ w[1] \in Electing => w \in opening' \/ (w \in holding' /\ w[2] = leading'[w[1]])
    BY DEF WorkersHaveLock
  <2>1. CASE w \in opening' \ opening
    BY <2>1
  <2>2. CASE w \in clients /\ w # <<t, leading[t]>>
    <3>1. w[1] \in alive' /\ w \in Grants
      BY <2>2 DEF SessionInv, WorkersHaveLock, SessionFields
    <3>2. CASE w \in opening
      BY <3>1, <3>2
    <3>3. CASE w \in holding /\ w[2] = leading[w[1]]
      <4>1. w[1] # t
        BY <2>2, <3>1, <3>3 DEF Grants
      <4> QED
        BY <3>1, <3>3, <4>1 DEF SessionFields, Grants
    <3> QED
      BY <2>2, <3>1, <3>2, <3>3 DEF SessionInv, WorkersHaveLock
  <2> QED
    BY <2>1, <2>2
<1>2. OpeningHasWorker'
  <2> SUFFICES ASSUME NEW g \in opening'
               PROVE  g[1] \in alive' /\ (g[1] \in Electing => g \in clients')
    BY DEF OpeningHasWorker
  <2>1. CASE g \in opening' \ opening
    BY <2>1
  <2>2. CASE g \in opening
    <3>1. g[1] \in alive' /\ g \in Grants /\ (g[1] \in Electing => g \in clients)
      BY <2>2 DEF SessionInv, OpeningHasWorker, SessionFields, ElectionTypeOK
    <3>2. g[1] \in Electing => g # <<t, leading[t]>>
      <4> SUFFICES ASSUME g[1] \in Electing, g = <<t, leading[t]>>
                   PROVE  FALSE
        OBVIOUS
      <4>1. leading[t] # 0 /\ t \in Electing
        BY <3>1 DEF Grants
      <4>2. g \in holding
        BY <4>1 DEF SessionInv, LeadingIsCurrent
      <4> QED
        BY <2>2, <4>2 DEF SessionInv, RoundsAdvance
    <3> QED
      BY <3>1, <3>2
  <2> QED
    BY <2>1, <2>2
<1>3. LeadingIsCurrent'
  <2> SUFFICES ASSUME NEW u \in Electing, leading'[u] # 0
               PROVE  leading'[u] = round'[u] /\ <<u, leading'[u]>> \in clients' \cap holding'
    BY DEF LeadingIsCurrent
  <2>1. u # t /\ leading'[u] = leading[u]
    BY DEF SessionFields, Electing
  <2> QED
    BY <2>1 DEF SessionInv, LeadingIsCurrent, Electing
<1>4. HostHasWorker'
  BY DEF SessionInv, HostHasWorker, Answers, SessionFields, Electing, MayClose
<1> QED
  BY <1>1, <1>2, <1>3, <1>4

\* The worker dies: its host goes with it, and a new round begins.
LEMMA WorkerFailsKeeps ==
  ASSUME SessionFields, SessionInv, NEW t \in Tabs, WorkerFails(t)
  PROVE  SessionFields' /\ SessionInv'
<1>1. t \in alive
  BY DEF WorkerFails, SessionInv, WorkersHaveLock
<1>2. /\ leading' = [leading EXCEPT ![t] = 0]
      /\ clients' = (clients \ {<<t, leading[t]>>}) \cup (opening' \ opening)
  BY DEF WorkerFails
<1>3. Begin(t) \/ (EndRound(t) /\ UNCHANGED <<alive, begun, requests, opening, holding>>)
  BY DEF WorkerFails, WorkerRestarts, WorkerGivesUp
<1>4. host' = [host EXCEPT ![t] = 0] /\ terms' = terms
  BY HostSteps DEF WorkerFails, WorkerRestarts, WorkerGivesUp, SessionFields
<1>5. \/ role' = role
      \/ /\ \E r \in {"connecting", "failed", "closed"} : role' = [role EXCEPT ![t] = r]
         /\ closed' = [closed EXCEPT ![t] = TRUE]
      \/ role' = [role EXCEPT ![t] = RoleUnder(t, Nobody)] /\ Begin(t)
  BY HostSteps DEF WorkerFails, WorkerRestarts, WorkerGivesUp, SetRole, SessionFields
<1>13. MayClose(t)
  BY HostSteps DEF WorkerFails, WorkerRestarts, WorkerGivesUp, SessionFields, MayClose
<1>6. ElectionTypeOK' /\ ElectionInv'
  BY <1>1, <1>3, BeginKeepsElection, EndKeepsElection DEF SessionFields, SessionInv
<1>7. /\ UNCHANGED <<alive, holding>>
      /\ \A u \in Tabs : u # t => round'[u] = round[u]
      /\ opening \subseteq opening' /\ \A g \in opening' \ opening : g[1] = t /\ g[1] \notin Electing
  BY <1>3 DEF Begin, EndRound, SessionFields, ElectionTypeOK, Electing
<1>8. WorkersHaveLock' /\ OpeningHasWorker' /\ LeadingIsCurrent' /\ HostHasWorker'
  BY <1>1, <1>2, <1>4, <1>7, <1>13, StopsLeading
<1>9. SessionFields'
  <2>1. leading' \in [Tabs -> 0..MaxRounds] /\ clients' \subseteq Grants
    BY <1>2, <1>6, ElectionAssumption DEF SessionFields, ElectionTypeOK
  <2>2. role' \in [Tabs -> {"connecting", "leader", "follower", "suspended", "failed", "closed", "gone"}]
    BY <1>5, RolesUnder DEF SessionFields
  <2> QED
    BY <1>4, <1>6, <1>13, <2>1, <2>2 DEF SessionFields, MayClose
<1>12. EndedIsShut'
  BY <1>5, <1>13, RolesUnder DEF SessionInv, EndedIsShut, SessionFields, MayClose
<1>10. RoundsAdvance'
  <2>1. CASE Begin(t)
    <3>1. \A g \in requests \cup opening \cup holding : g # <<t, begun[t] + 1>>
      BY DEF SessionFields, ElectionTypeOK, Grants, SessionInv, ElectionInv, BegunBefore
    <3> QED
      BY <2>1, <3>1 DEF Begin, SessionInv, RoundsAdvance
  <2>2. CASE UNCHANGED <<alive, begun, requests, opening, holding>>
    BY <2>2 DEF SessionInv, RoundsAdvance
  <2> QED
    BY <1>3, <2>1, <2>2
<1>11. RoleOfPage'
  <2>1. role[t] # "suspended"
    <3>1. leading[t] # 0
      BY DEF WorkerFails, SessionFields, Grants
    <3> QED
      BY <3>1 DEF SessionInv, RoleOfPage
  <2> QED
    BY <1>1, <1>2, <1>5, <1>7, <2>1, RolesUnder DEF SessionInv, RoleOfPage, SessionFields
<1> QED
  BY <1>6, <1>8, <1>9, <1>10, <1>11, <1>12 DEF SessionInv

\* Suspend and close(): the round ends, and with it the worker and the host.
LEMMA StopsKeeps ==
  ASSUME SessionFields, SessionInv, NEW t \in Tabs, NEW r \in {"suspended", "closed"},
         t \in alive, role' = [role EXCEPT ![t] = r], EndRound(t), ForgetLeading(t),
         host' = [host EXCEPT ![t] = 0],
         IF r = "closed" THEN closed' = [closed EXCEPT ![t] = TRUE] ELSE closed' = closed,
         UNCHANGED <<alive, begun, requests, opening, holding, terms>>
  PROVE  SessionFields' /\ SessionInv'
<1>1. ElectionTypeOK' /\ ElectionInv'
  BY EndKeepsElection DEF SessionFields, SessionInv
<1>2. /\ leading' = [leading EXCEPT ![t] = 0]
      /\ clients' = (clients \ {<<t, leading[t]>>}) \cup (opening' \ opening)
  BY DEF ForgetLeading
<1>3. \A u \in Tabs : u # t => round'[u] = round[u]
  BY DEF EndRound, SessionFields, ElectionTypeOK
<1>8. MayClose(t)
  BY DEF MayClose
<1>4. WorkersHaveLock' /\ OpeningHasWorker' /\ LeadingIsCurrent' /\ HostHasWorker'
  BY <1>2, <1>3, <1>8, StopsLeading
<1>5. SessionFields'
  <2>1. leading' \in [Tabs -> 0..MaxRounds] /\ clients' \subseteq Grants
    BY <1>2, ElectionAssumption DEF SessionFields
  <2> QED
    BY <1>1, <1>8, <2>1 DEF SessionFields, MayClose
<1>6. RoundsAdvance'
  BY DEF SessionInv, RoundsAdvance
<1>7. RoleOfPage'
  BY <1>2 DEF SessionInv, RoleOfPage, SessionFields, EndRound, ElectionTypeOK
<1>9. EndedIsShut'
  BY DEF SessionInv, EndedIsShut, SessionFields
<1> QED
  BY <1>1, <1>4, <1>5, <1>6, <1>7, <1>9 DEF SessionInv

\* suspend stops what the tab leads.
LEMMA SuspendKeeps ==
  ASSUME SessionFields, SessionInv, NEW t \in Tabs, Suspend(t)
  PROVE  SessionFields' /\ SessionInv'
<1>1. t \in alive
  BY DEF Suspend, SessionInv, RoleOfPage
<1>2. host' = [host EXCEPT ![t] = 0]
  BY HostSteps DEF Suspend, SessionFields
<1> QED
  BY <1>1, <1>2, StopsKeeps DEF Suspend, SetRole

\* close stops it for good.
LEMMA CloseSessionKeeps ==
  ASSUME SessionFields, SessionInv, NEW t \in Tabs, CloseSession(t)
  PROVE  SessionFields' /\ SessionInv'
<1>1. t \in alive
  BY DEF CloseSession, SessionInv, RoleOfPage
<1>2. host' = [host EXCEPT ![t] = 0] /\ closed' = [closed EXCEPT ![t] = TRUE]
  BY HostSteps DEF CloseSession, SessionFields
<1> QED
  BY <1>1, <1>2, StopsKeeps DEF CloseSession, SetRole

\* resume begins a round of its own.
LEMMA ResumeKeeps ==
  ASSUME SessionFields, SessionInv, NEW t \in Tabs, Resume(t)
  PROVE  SessionFields' /\ SessionInv'
<1> USE DEF Resume, SetRole
<1>1. t \in alive /\ round[t] = 0 /\ leading[t] = 0
  BY DEF SessionInv, RoleOfPage
<1>2. ElectionTypeOK' /\ ElectionInv'
  BY <1>1, BeginKeepsElection DEF SessionFields, SessionInv
<1>3. host' = host \/ host' = [host EXCEPT ![t] = 0]
  BY HostSteps DEF SessionFields
<1>4. \/ role' = [role EXCEPT ![t] = "connecting"]
      \/ role' = [role EXCEPT ![t] = "closed"] /\ closed' = [closed EXCEPT ![t] = TRUE]
  BY HostSteps DEF SessionFields
<1>12. MayClose(t)
  BY HostSteps DEF SessionFields, MayClose
<1>5. /\ UNCHANGED <<alive, holding, leading>> /\ clients' = clients \cup (opening' \ opening)
      /\ \A u \in Tabs : u # t => round'[u] = round[u]
      /\ opening \subseteq opening' /\ \A g \in opening' \ opening : g[1] = t /\ g[1] \notin Electing
  BY DEF Begin, SessionFields, ElectionTypeOK, Electing
<1>6. SessionFields'
  <2>1. host' \in [Tabs -> Nat] /\ clients' \subseteq Grants
    BY <1>2, <1>3, <1>5 DEF SessionFields, ElectionTypeOK
  <2>2. role' \in [Tabs -> {"connecting", "leader", "follower", "suspended", "failed", "closed", "gone"}]
    BY <1>4 DEF SessionFields
  <2> QED
    BY <1>2, <1>5, <1>12, <2>1, <2>2 DEF SessionFields, MayClose
<1>7. RoundsAdvance'
  <2>1. \A g \in requests \cup opening \cup holding : g # <<t, begun[t] + 1>>
    BY DEF SessionFields, ElectionTypeOK, Grants, SessionInv, ElectionInv, BegunBefore
  <2> QED
    BY <2>1 DEF Begin, SessionInv, RoundsAdvance
<1>8. WorkersHaveLock' /\ OpeningHasWorker'
  BY <1>1, <1>5 DEF SessionInv, WorkersHaveLock, OpeningHasWorker
<1>9. LeadingIsCurrent'
  BY <1>1, <1>5 DEF SessionInv, LeadingIsCurrent, Electing
<1>10. HostHasWorker'
  BY <1>3, <1>5, <1>12 DEF SessionInv, HostHasWorker, Answers, SessionFields, Electing, MayClose
<1>13. EndedIsShut'
  BY <1>4, <1>12 DEF SessionInv, EndedIsShut, SessionFields, MayClose
<1>11. RoleOfPage'
  BY <1>1, <1>4, <1>5 DEF SessionInv, RoleOfPage, SessionFields
<1> QED
  BY <1>2, <1>6, <1>7, <1>8, <1>9, <1>10, <1>11, <1>13 DEF SessionInv

\* The tab is gone, with its worker, its host and its lock.
LEMMA TabCrashKeeps ==
  ASSUME SessionFields, SessionInv, NEW t \in Tabs, TabCrash(t)
  PROVE  SessionFields' /\ SessionInv'
<1> USE DEF TabCrash, SetRole
<1>1. ElectionTypeOK' /\ ElectionInv'
  BY ElectionSteps DEF SessionFields, SessionInv
<1>2. host' = [host EXCEPT ![t] = 0]
  BY HostSteps DEF SessionFields
<1>3. /\ alive' = alive \ {t} /\ requests' \subseteq requests
      /\ opening' = {g \in opening : g[1] # t} /\ holding' = {g \in holding : g[1] # t}
      /\ clients' = {g \in clients : g[1] # t}
      /\ \A u \in Tabs : u # t => round'[u] = round[u]
  BY DEF Crash, OfOthers, EndRound, SessionFields, ElectionTypeOK
<1>4. SessionFields'
  BY <1>1, <1>2, <1>3, ElectionAssumption DEF SessionFields, BridgeCrash
<1>5. RoundsAdvance'
  BY <1>3 DEF SessionInv, RoundsAdvance
<1>6. WorkersHaveLock' /\ OpeningHasWorker'
  <2>1. \A g \in Grants : g[1] # t => leading'[g[1]] = leading[g[1]]
    BY DEF SessionFields, Grants
  <2> QED
    BY <1>3, <2>1 DEF SessionInv, WorkersHaveLock, OpeningHasWorker, SessionFields
<1>7. LeadingIsCurrent'
  <2> SUFFICES ASSUME NEW u \in Electing, leading'[u] # 0
               PROVE  leading'[u] = round'[u] /\ <<u, leading'[u]>> \in clients' \cap holding'
    BY DEF LeadingIsCurrent
  <2>1. u # t /\ leading'[u] = leading[u]
    BY DEF SessionFields, Electing
  <2> QED
    BY <1>3, <2>1 DEF SessionInv, LeadingIsCurrent, Electing
<1>8. HostHasWorker' /\ EndedIsShut'
  BY <1>2 DEF SessionInv, HostHasWorker, Answers, EndedIsShut, SessionFields, Electing, BridgeCrash
<1>9. RoleOfPage'
  BY <1>3 DEF SessionInv, RoleOfPage, SessionFields
<1> QED
  BY <1>1, <1>4, <1>5, <1>6, <1>7, <1>8, <1>9 DEF SessionInv

\* A lock request or a callback of an ended round goes.
LEMMA LapseKeeps ==
  ASSUME SessionFields, SessionInv, NEW t \in Tabs, NEW r \in 1..MaxRounds, Lapse(t, r)
  PROVE  SessionFields' /\ SessionInv'
<1> USE DEF Lapse, bridgeRest, sessionRest
<1>1. ElectionTypeOK' /\ ElectionInv'
  BY ElectionSteps DEF SessionFields, SessionInv
<1>2. /\ UNCHANGED <<alive, round, opening>> /\ requests' \subseteq requests
      /\ holding' = holding \/ (holding' = holding \ {<<t, r>>} /\ round[t] # r)
  BY DEF Discard, Unlock
<1>3. SessionFields'
  BY <1>1 DEF SessionFields
<1>4. RoundsAdvance'
  BY <1>2 DEF SessionInv, RoundsAdvance
<1>5. LeadingIsCurrent'
  BY <1>2 DEF SessionInv, LeadingIsCurrent
<1>6. OpeningHasWorker' /\ HostHasWorker' /\ EndedIsShut' /\ RoleOfPage'
  BY <1>2 DEF SessionInv, OpeningHasWorker, HostHasWorker, Answers, EndedIsShut, RoleOfPage
<1>7. WorkersHaveLock'
  <2> SUFFICES ASSUME NEW w \in clients', w[1] \in Electing, w \in holding, w \notin opening, w[2] = leading[w[1]]
               PROVE  w \in holding'
    BY <1>2 DEF SessionInv, WorkersHaveLock
  <2>1. w[2] = round[w[1]]
    BY DEF SessionInv, LeadingIsCurrent, SessionFields, Grants
  <2> QED
    BY <1>2, <2>1
<1> QED
  BY <1>1, <1>3, <1>4, <1>5, <1>6, <1>7 DEF SessionInv

\* Steps of the bridge alone.
LEMMA BridgeStepKeeps ==
  ASSUME SessionFields, SessionInv, NEW t \in Tabs,
         BecomeVisible(t) \/ MakeCall(t) \/ SettleServed(t) \/ Deliver(t)
  PROVE  SessionFields' /\ SessionInv'
<1>1. UNCHANGED <<state, round, begun, requests, opening, holding, leading, clients>>
  BY DEF BecomeVisible, MakeCall, SettleServed, Deliver, SessionReceive, electionRest, sessionRest
<1>2. alive' = alive /\ host' = host /\ terms' = terms /\ closed' = closed
  <2>1. CASE BecomeVisible(t)
    BY <2>1, HostSteps DEF BecomeVisible, SessionFields
  <2>2. CASE MakeCall(t)
    BY <2>2 DEF MakeCall, Call
  <2>3. CASE SettleServed(t)
    BY <2>3 DEF SettleServed, Serve, Served
  <2>4. CASE Deliver(t)
    <3>1. PICK n \in 1..Len(inbox[t]) : SessionReceive(t, n)
      BY <2>4 DEF Deliver
    <3>2. host' = host /\ terms' = terms
      BY <3>1, HostSteps DEF SessionReceive, SessionFields
    <3>3. alive' = alive /\ closed' = closed
      BY <3>1 DEF SessionReceive, Receive, ReceiveHello, ReceiveLeader, ReceiveBye, ReceiveReq, ReceiveRes
    <3> QED
      BY <3>2, <3>3
  <2> QED
    BY <2>1, <2>2, <2>3, <2>4
<1>3. role' = role \/ (t \in alive /\ \E l : role' = [role EXCEPT ![t] = RoleUnder(t, l)])
  <2>1. CASE BecomeVisible(t) \/ MakeCall(t) \/ SettleServed(t)
    BY <2>1 DEF BecomeVisible, MakeCall, SettleServed, sessionRest
  <2>2. CASE Deliver(t)
    <3>1. PICK n \in 1..Len(inbox[t]) : SessionReceive(t, n)
      BY <2>2 DEF Deliver
    <3>2. t \in alive
      BY <3>1 DEF SessionReceive, Receive, ReceiveHello, ReceiveLeader, ReceiveBye, ReceiveReq, ReceiveRes, Reads, Listens
    <3> QED
      BY <3>1, <3>2 DEF SessionReceive, SetRole, SessionFields
  <2> QED
    BY <2>1, <2>2
<1>4. ElectionTypeOK' /\ ElectionInv'
  <2>1. UNCHANGED electionVars
    BY <1>1, <1>2 DEF electionVars
  <2> QED
    BY <2>1, ElectionTypePreserved, ElectionInvInductive DEF SessionFields, SessionInv
<1>5. SessionFields'
  BY <1>1, <1>2, <1>3, <1>4, RolesUnder DEF SessionFields
<1>6. RoundsAdvance' /\ WorkersHaveLock' /\ OpeningHasWorker' /\ LeadingIsCurrent' /\ HostHasWorker'
  BY <1>1, <1>2 DEF SessionInv, RoundsAdvance, WorkersHaveLock, OpeningHasWorker, LeadingIsCurrent, HostHasWorker, Answers
<1>7. RoleOfPage'
  BY <1>1, <1>2, <1>3, RolesUnder DEF SessionInv, RoleOfPage, SessionFields
<1>8. EndedIsShut'
  BY <1>1, <1>2, <1>3, RolesUnder DEF SessionInv, EndedIsShut, SessionFields
<1> QED
  BY <1>4, <1>5, <1>6, <1>7, <1>8 DEF SessionInv

\* One case per handler: the invariant is inductive.
LEMMA SessionInvInductive ==
  SessionFields /\ SessionInv /\ [SessionNext]_sessionVars => SessionFields' /\ SessionInv'
<1> SUFFICES ASSUME SessionFields, SessionInv, [SessionNext]_sessionVars
             PROVE  SessionFields' /\ SessionInv'
  OBVIOUS
<1>1. ASSUME NEW t \in Tabs, LockGranted(t) \/ LockRefused(t) \/ WorkerFails(t) \/ TabCrash(t)
      PROVE  SessionFields' /\ SessionInv'
  BY <1>1, LockGrantedKeeps, LockRefusedKeeps, WorkerFailsKeeps, TabCrashKeeps
<1>2. ASSUME NEW t \in Tabs, Suspend(t) \/ Resume(t) \/ CloseSession(t)
      PROVE  SessionFields' /\ SessionInv'
  BY <1>2, SuspendKeeps, ResumeKeeps, CloseSessionKeeps
<1>3. ASSUME NEW t \in Tabs, NEW r \in 1..MaxRounds, SettleOpen(t, r) \/ Lapse(t, r)
      PROVE  SessionFields' /\ SessionInv'
  BY <1>3, OpenSucceedsKeeps, OpenFailsKeeps, LapseKeeps DEF SettleOpen
<1>4. CASE UNCHANGED sessionVars
  <2>1. UNCHANGED electionVars
    BY <1>4 DEF sessionVars, electionVars
  <2>2. ElectionTypeOK' /\ ElectionInv'
    BY <2>1, ElectionTypePreserved, ElectionInvInductive DEF SessionFields, SessionInv
  <2>3. UNCHANGED <<alive, state, round, begun, requests, opening, holding, host, closed, terms, role, leading, clients>>
    BY <1>4 DEF sessionVars
  <2>4. SessionFields'
    BY <2>2, <2>3 DEF SessionFields
  <2>5. /\ RoundsAdvance' /\ WorkersHaveLock' /\ OpeningHasWorker' /\ LeadingIsCurrent'
        /\ HostHasWorker' /\ EndedIsShut' /\ RoleOfPage'
    BY <2>3 DEF SessionInv, RoundsAdvance, WorkersHaveLock, OpeningHasWorker, LeadingIsCurrent,
                HostHasWorker, Answers, EndedIsShut, RoleOfPage
  <2> QED
    BY <2>2, <2>4, <2>5 DEF SessionInv
<1> QED
  BY <1>1, <1>2, <1>3, <1>4, BridgeStepKeeps DEF SessionNext

\* A new session holds nothing.
LEMMA SessionInitially == SessionInit => SessionFields /\ SessionInv
<1> SUFFICES ASSUME SessionInit PROVE SessionFields /\ SessionInv
  OBVIOUS
<1>1. /\ alive = Tabs /\ holding = {} /\ clients = opening /\ terms = 0
      /\ state = [t \in Tabs |-> IF t \in Lockless THEN "leader" ELSE "waiting"]
      /\ round = [t \in Tabs |-> 1] /\ begun = [t \in Tabs |-> 1]
      /\ host = [t \in Tabs |-> 0] /\ leading = [t \in Tabs |-> 0]
      /\ role = [t \in Tabs |-> "connecting"] /\ closed = [t \in Tabs |-> FALSE]
  BY DEF SessionInit
<1>2. /\ \A g \in requests : g \in Grants /\ g = <<g[1], 1>> /\ g[1] \in Electing
      /\ \A g \in opening : g \in Grants /\ g = <<g[1], 1>> /\ g[1] \in Lockless
      /\ \A t \in Electing : <<t, 1>> \in requests
      /\ \A t \in Lockless : <<t, 1>> \in opening
  <2>1. requests = {<<t, 1>> : t \in Electing} /\ opening = {<<t, 1>> : t \in Lockless}
    BY DEF SessionInit
  <2>2. \A t \in Tabs : <<t, 1>> \in Grants
    BY ElectionAssumption, SessionAssumption DEF Grants
  <2>3. \A g \in requests : g \in Grants /\ g = <<g[1], 1>> /\ g[1] \in Electing
    BY <2>1, <2>2 DEF Electing
  <2>4. \A g \in opening : g \in Grants /\ g = <<g[1], 1>> /\ g[1] \in Lockless
    BY <2>1, <2>2, ElectionAssumption
  <2>5. \A t \in Electing : <<t, 1>> \in requests
    BY <2>1
  <2>6. \A t \in Lockless : <<t, 1>> \in opening
    BY <2>1
  <2> QED
    BY <2>3, <2>4, <2>5, <2>6
<1> USE TabsAssumption, ElectionAssumption, SessionAssumption DEF Electing
<1>3. SessionFields
  <2>1. ElectionTypeOK
    BY <1>1, <1>2 DEF ElectionTypeOK
  <2> QED
    BY <1>1, <1>2, <2>1 DEF SessionFields
<1>4. RoundIsLatest /\ BegunBefore /\ IdleHasNoRound
  BY <1>1, <1>2 DEF RoundIsLatest, BegunBefore, IdleHasNoRound, Grants
<1>5. WaitingIsQueued /\ LeaderHoldsLock /\ LockIsExclusive
  BY <1>1, <1>2 DEF WaitingIsQueued, LeaderHoldsLock, LockIsExclusive
<1>6. RoundsAdvance /\ WorkersHaveLock /\ OpeningHasWorker
  BY <1>1, <1>2 DEF RoundsAdvance, WorkersHaveLock, OpeningHasWorker, Grants
<1>7. LeadingIsCurrent /\ HostHasWorker /\ EndedIsShut /\ RoleOfPage
  BY <1>1 DEF LeadingIsCurrent, HostHasWorker, Answers, EndedIsShut, RoleOfPage
<1> QED
  BY <1>3, <1>4, <1>5, <1>6, <1>7 DEF SessionInv, ElectionInv

\* The inductive invariant of the composed session holds of every reachable state.
THEOREM SessionInvariant == SessionSpec => [](SessionFields /\ SessionInv)
BY SessionInitially, SessionInvInductive, PTL DEF SessionSpec

\* The pool of files is open in one worker of the origin at a time, whatever
\* workers of ended rounds still open, for any number of tabs and rounds.
THEOREM SessionOneWorker == SessionSpec => []OneWorker
<1>1. SessionInv => OneWorker
  BY DEF SessionInv, WorkersHaveLock, ElectionInv, LockIsExclusive, OneWorker
<1> QED
  BY <1>1, SessionInvariant, PTL

\* The invariant says which tab may host.
LEMMA HostsOwn == SessionInv => HostOwnsDataset
BY DEF SessionInv, HostHasWorker, LeadingIsCurrent, HostOwnsDataset

\* The tab that answers requests has the lock for its current round, and the
\* worker of that round.
THEOREM SessionHostOwnsDataset == SessionSpec => []HostOwnsDataset
BY HostsOwn, SessionInvariant, PTL

-----------------------------------------------------------------------------
(* Serving the dataset is a lease.                                         *)

\* One electing tab hosts at most.
LEMMA OneServer ==
  ASSUME SessionInv
  PROVE  \A t, u \in servers : t = u
<1> SUFFICES ASSUME NEW t \in servers, NEW u \in servers PROVE t = u
  OBVIOUS
<1>1. <<t, leading[t]>> \in holding /\ <<u, leading[u]>> \in holding
  BY HostsOwn DEF servers, HostOwnsDataset
<1> QED
  BY <1>1 DEF SessionInv, ElectionInv, LockIsExclusive, servers

\* A tab that hosts no more, or closes its bridge, may stop answering.
LEMMA ServersAfter ==
  ASSUME SessionFields, NEW t \in Tabs, MayClose(t),
         host' = host \/ host' = [host EXCEPT ![t] = 0]
  PROVE  servers' = servers \/ servers' = servers \ {t}
<1>1. \A u \in Electing : u # t => (Answers(u)' <=> Answers(u))
  BY DEF Answers, MayClose, SessionFields, Electing
<1>2. Answers(t)' => Answers(t)
  BY DEF Answers, MayClose, SessionFields
<1> QED
  BY <1>1, <1>2 DEF servers

\* A closed bridge answers nobody, whatever host it is given.
LEMMA ServersAfterClose ==
  ASSUME SessionFields, NEW t \in Tabs, closed' = [closed EXCEPT ![t] = TRUE],
         NEW h, host' = [host EXCEPT ![t] = h]
  PROVE  servers' = servers \ {t}
<1>1. \A u \in Electing : u # t => (Answers(u)' <=> Answers(u))
  BY DEF Answers, SessionFields, Electing
<1>2. ~Answers(t)'
  BY DEF Answers, SessionFields
<1> QED
  BY <1>1, <1>2 DEF servers

\* While a round of an electing tab opens nobody answers, so its host is the
\* only one.
LEMMA OpenSucceedsServers ==
  ASSUME SessionFields, SessionInv, NEW t \in Tabs, NEW r \in 1..MaxRounds, OpenSucceeds(t, r)
  PROVE  servers' = servers \/ servers' = servers \ {t} \/ (t \in Electing /\ servers = {} /\ servers' = {t})
<1>1. <<t, r>> \in opening
  BY DEF OpenSucceeds, Acquired, ClosedAtOpen
<1>2. t \in Electing => servers = {}
  <2> SUFFICES ASSUME t \in Electing, NEW u \in servers PROVE FALSE
    OBVIOUS
  <2>1. <<u, leading[u]>> \in holding /\ u \in Electing
    BY HostsOwn DEF servers, HostOwnsDataset
  <2>2. <<u, leading[u]>> = <<t, r>>
    BY <1>1, <2>1 DEF SessionInv, ElectionInv, LockIsExclusive
  <2> QED
    BY <1>1, <2>1, <2>2 DEF SessionInv, RoundsAdvance
<1>3. CASE host' = host /\ closed' = closed
  BY <1>3 DEF servers, Answers
<1>4. CASE BecomeLeader(t) /\ closed' = closed
  <2>1. host' = [host EXCEPT ![t] = terms + 1]
    BY <1>4, HostSteps DEF SessionFields
  <2>2. \A u \in Electing : u # t => (Answers(u)' <=> Answers(u))
    BY <1>4, <2>1 DEF Answers, SessionFields, Electing
  <2>3. CASE t \notin Electing
    BY <2>2, <2>3 DEF servers
  <2>4. CASE t \in Electing
    <3>1. \A u \in Electing : ~Answers(u)
      BY <1>2, <2>4 DEF servers
    <3>2. servers' = {} \/ servers' = {t}
      BY <2>2, <3>1 DEF servers
    <3> QED
      BY <1>2, <2>4, <3>2
  <2> QED
    BY <2>3, <2>4
<1>5. CASE LeadsClosed(t) \/ ClosedLeading(t)
  <2>1. closed' = [closed EXCEPT ![t] = TRUE] /\ \E h : host' = [host EXCEPT ![t] = h]
    BY <1>5 DEF LeadsClosed, ClosedLeading, CloseKnowing
  <2> QED
    BY <2>1, ServersAfterClose
<1> QED
  BY <1>3, <1>4, <1>5 DEF OpenSucceeds, bridgeRest

\* What a step does to those who answer: one of them stops, or an electing tab
\* starts where nobody did.
LEMMA ServersChange ==
  ASSUME SessionFields, SessionInv, [SessionNext]_sessionVars
  PROVE  \/ servers' = servers
         \/ \E t \in Tabs : servers' = servers \ {t}
         \/ \E t \in Electing : servers = {} /\ servers' = {t}
<1>1. ASSUME NEW t \in Tabs, LockGranted(t) \/ LockRefused(t) \/ WorkerFails(t) \/ TabCrash(t)
      PROVE  MayClose(t) /\ (host' = host \/ host' = [host EXCEPT ![t] = 0])
  <2>1. CASE LockGranted(t)
    BY <2>1 DEF LockGranted, bridgeRest, MayClose
  <2>2. CASE LockRefused(t)
    BY <2>2, FailSteps DEF LockRefused
  <2>3. CASE WorkerFails(t)
    BY <2>3, HostSteps DEF SessionFields, WorkerFails, WorkerRestarts, WorkerGivesUp, MayClose
  <2>4. CASE TabCrash(t)
    BY <2>4, HostSteps DEF SessionFields, TabCrash, BridgeCrash, MayClose
  <2> QED
    BY <1>1, <2>1, <2>2, <2>3, <2>4
<1>2. ASSUME NEW t \in Tabs, Suspend(t) \/ Resume(t) \/ CloseSession(t)
      PROVE  MayClose(t) /\ (host' = host \/ host' = [host EXCEPT ![t] = 0])
  BY <1>2, HostSteps DEF SessionFields, Suspend, Resume, CloseSession, MayClose
<1>3. ASSUME NEW t \in Tabs, NEW r \in 1..MaxRounds, OpenFails(t, r) \/ Lapse(t, r)
      PROVE  MayClose(t) /\ (host' = host \/ host' = [host EXCEPT ![t] = 0])
  BY <1>3, FailSteps DEF OpenFails, Lapse, bridgeRest, MayClose
<1>4. ASSUME NEW t \in Tabs, BecomeVisible(t) \/ MakeCall(t) \/ SettleServed(t) \/ Deliver(t)
      PROVE  MayClose(t) /\ host' = host
  <2>1. CASE BecomeVisible(t)
    BY <2>1, HostSteps DEF BecomeVisible, SessionFields, MayClose
  <2>2. CASE MakeCall(t)
    BY <2>2 DEF MakeCall, Call, MayClose
  <2>3. CASE SettleServed(t)
    BY <2>3 DEF SettleServed, Serve, Served, MayClose
  <2>4. CASE Deliver(t)
    <3>1. PICK n \in 1..Len(inbox[t]) : SessionReceive(t, n)
      BY <2>4 DEF Deliver
    <3>2. host' = host
      BY <3>1, HostSteps DEF SessionReceive, SessionFields
    <3>3. closed' = closed
      BY <3>1 DEF SessionReceive, Receive, ReceiveHello, ReceiveLeader, ReceiveBye, ReceiveReq, ReceiveRes
    <3> QED
      BY <3>2, <3>3 DEF MayClose
  <2> QED
    BY <1>4, <2>1, <2>2, <2>3, <2>4
<1>5. ASSUME NEW t \in Tabs, NEW r \in 1..MaxRounds, OpenSucceeds(t, r)
      PROVE  servers' = servers \/ servers' = servers \ {t} \/ (t \in Electing /\ servers = {} /\ servers' = {t})
  BY <1>5, OpenSucceedsServers
<1>6. CASE UNCHANGED sessionVars
  BY <1>6 DEF sessionVars, servers, Answers
<1>7. ASSUME NEW t \in Tabs, MayClose(t), host' = host \/ host' = [host EXCEPT ![t] = 0]
      PROVE  servers' = servers \/ servers' = servers \ {t}
  BY <1>7, ServersAfter
<1> QED
  BY <1>1, <1>2, <1>3, <1>4, <1>5, <1>6, <1>7 DEF SessionNext, SettleOpen

\* To the other tabs, serving the dataset is a lease: the tab that serves it
\* stops before the next one starts, through crashes, restarted workers, pages
\* that are hidden and shown again and listeners that close the session.
THEOREM SessionServesAsLease == SessionSpec => ServesAsLease
<1>1. SessionInit => Service!Init
  BY DEF SessionInit, Service!Init, server, servers, Answers, Electing
<1>2. ASSUME SessionFields, SessionInv, [SessionNext]_sessionVars
      PROVE  [Service!Next]_server
  <2>1. \A t, u \in servers : t = u
    BY <1>2, OneServer
  <2>2. CASE servers' = servers
    BY <2>2 DEF server
  <2>3. ASSUME NEW t \in Tabs, servers' = servers \ {t} PROVE [Service!Next]_server
    <3>1. CASE t \in servers
      <4>1. servers = {t} /\ servers' = {}
        BY <2>1, <2>3, <3>1
      <4>2. server = t /\ server' = Nobody
        BY <4>1 DEF server
      <4> QED
        BY <3>1, <4>2 DEF Service!Next, Service!GiveUp, servers
    <3>2. CASE t \notin servers
      <4>1. servers' = servers
        BY <2>3, <3>2
      <4> QED
        BY <4>1 DEF server
    <3> QED
      BY <3>1, <3>2
  <2>4. ASSUME NEW t \in Electing, servers = {}, servers' = {t} PROVE [Service!Next]_server
    <3>1. server = Nobody /\ server' = t
      BY <2>4 DEF server
    <3> QED
      BY <3>1 DEF Service!Next, Service!Acquire
  <2> QED
    BY <1>2, <2>2, <2>3, <2>4, ServersChange
<1> QED
  BY <1>1, <1>2, SessionInvariant, PTL DEF SessionSpec, ServesAsLease, Service!Spec
=============================================================================
