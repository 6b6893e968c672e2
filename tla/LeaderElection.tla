--------------------------- MODULE LeaderElection ---------------------------
(***************************************************************************)
(* packages/sqlite-wasm/src/opfs/leader.ts: LeaderElection, one object per *)
(* tab, all of them on one lock name.                                      *)
(*                                                                         *)
(* start() makes a new round (a fresh object in the code, a number here)   *)
(* and requests the Web Lock for it.  The browser runs the round's         *)
(* callback, `lead', once the lock is granted; the lock stays taken until  *)
(* the promise of that callback settles.  release() ends the round at      *)
(* once, while its callback may still be waiting for onAcquired: what is   *)
(* hard here is a callback of an ended round that runs on.                 *)
(*                                                                         *)
(* A grant is a pair <<tab, round>>.                                       *)
(***************************************************************************)
EXTENDS Naturals, DemoDbTabs

CONSTANTS Lockless,   \* the tabs without a lock manager (`locks' undefined)
          MaxRounds   \* bound: how many rounds one tab begins

ASSUME ElectionAssumption == Lockless \subseteq Tabs /\ MaxRounds \in Nat

VARIABLES state,     \* LeaderElection.#state
          round,     \* LeaderElection.#round, 0 when undefined
          begun,     \* rounds begun by the tab
          requests,  \* lock requests queued in the browser
          opening,   \* grants whose callback awaits onAcquired()
          holding    \* grants whose callback awaits `held'

electionVars == <<alive, state, round, begun, requests, opening, holding>>

Electing == Tabs \ Lockless
Grants == Tabs \X (1..MaxRounds)

\* (Bug: the lock is requested in shared mode.)
LockFreeShared == TRUE

\* The exclusive lock is free when no electing tab's callback runs.
LockFree == \A g \in opening \cup holding : g[1] \in Lockless

ElectionInit ==
  /\ alive = Tabs
  /\ state = [t \in Tabs |-> "idle"]
  /\ round = [t \in Tabs |-> 0]
  /\ begun = [t \in Tabs |-> 0]
  /\ requests = {} /\ opening = {} /\ holding = {}

-----------------------------------------------------------------------------

\* What start() does for an idle election: without a lock manager `lead' runs
\* at once.
Begin(t) ==
  /\ begun[t] < MaxRounds
  /\ begun' = [begun EXCEPT ![t] = @ + 1]
  /\ round' = [round EXCEPT ![t] = begun[t] + 1]
  /\ \/ /\ t \in Electing
        /\ state' = [state EXCEPT ![t] = "waiting"]
        /\ requests' = requests \cup {<<t, begun[t] + 1>>}
        /\ UNCHANGED opening
     \/ /\ t \in Lockless
        /\ state' = [state EXCEPT ![t] = "leader"]
        /\ opening' = opening \cup {<<t, begun[t] + 1>>}
        /\ UNCHANGED requests
  /\ UNCHANGED <<alive, holding>>

Start(t) == t \in alive /\ state[t] = "idle" /\ Begin(t)

\* The browser grants the lock to a current round: `lead' calls onAcquired.
Grant(t) ==
  /\ LockFree
  /\ <<t, round[t]>> \in requests
  /\ requests' = requests \ {<<t, round[t]>>}
  /\ opening' = opening \cup {<<t, round[t]>>}
  /\ state' = [state EXCEPT ![t] = "leader"]
  /\ UNCHANGED <<alive, round, begun, holding>>

\* The request of an ended round goes: aborted, or granted to a callback
\* that returns because its round is over.
Discard(t, r) ==
  /\ <<t, r>> \in requests
  /\ round[t] # r
  /\ requests' = requests \ {<<t, r>>}
  /\ UNCHANGED <<alive, state, round, begun, opening, holding>>

\* (Bug: the state is not reset.)
EndRoundKeepsState(t) == round' = [round EXCEPT ![t] = 0] /\ UNCHANGED state

\* #end(round) of the current round.
EndRound(t) ==
  /\ state' = [state EXCEPT ![t] = "idle"]
  /\ round' = [round EXCEPT ![t] = 0]

\* release()
Release(t) ==
  /\ t \in alive
  /\ round[t] # 0
  /\ EndRound(t)
  /\ UNCHANGED <<alive, begun, requests, opening, holding>>

\* onAcquired resolved: the callback awaits `held', which release() resolved
\* already when the round is over.
Acquired(t, r) ==
  /\ <<t, r>> \in opening
  /\ opening' = opening \ {<<t, r>>}
  /\ holding' = holding \cup {<<t, r>>}
  /\ UNCHANGED <<alive, state, round, begun, requests>>

\* onAcquired rejected: #end does nothing for a round that is over.
AcquireFailed(t, r) ==
  /\ <<t, r>> \in opening
  /\ opening' = opening \ {<<t, r>>}
  /\ \/ round[t] = r /\ EndRound(t)
     \/ round[t] # r /\ UNCHANGED <<state, round>>
  /\ UNCHANGED <<alive, begun, requests, holding>>

\* (Bug: #end does not resolve `held'.)
UnlockForgotten(t, r) == FALSE /\ UNCHANGED electionVars

\* `held' was resolved: the callback returns and the browser frees the lock.
Unlock(t, r) ==
  /\ <<t, r>> \in holding
  /\ round[t] # r
  /\ holding' = holding \ {<<t, r>>}
  /\ UNCHANGED <<alive, state, round, begun, requests, opening>>

\* The browser rejects a current round's request.
RequestFailed(t) ==
  /\ <<t, round[t]>> \in requests
  /\ requests' = requests \ {<<t, round[t]>>}
  /\ EndRound(t)
  /\ UNCHANGED <<alive, begun, opening, holding>>

\* The tab closes, crashes or navigates away: the browser drops its
\* requests and its lock.
OfOthers(grants, t) == {g \in grants : g[1] # t}

Crash(t) ==
  /\ t \in alive
  /\ alive' = alive \ {t}
  /\ EndRound(t)
  /\ requests' = OfOthers(requests, t)
  /\ opening' = OfOthers(opening, t)
  /\ holding' = OfOthers(holding, t)
  /\ UNCHANGED begun

Settle(t, r) == Acquired(t, r) \/ AcquireFailed(t, r)

ElectionNext ==
  \E t \in Tabs :
    \/ Start(t) \/ Grant(t) \/ Release(t) \/ RequestFailed(t) \/ Crash(t)
    \/ \E r \in 1..MaxRounds : Discard(t, r) \/ Settle(t, r) \/ Unlock(t, r)

\* The browser grants a free lock to some queued request and runs resolved
\* callbacks; onAcquired settles (the worker answers, or its fetch fails).
ElectionFairness ==
  /\ WF_electionVars(\E t \in Tabs : Grant(t))
  /\ \A t \in Tabs, r \in 1..MaxRounds :
       WF_electionVars(Settle(t, r)) /\ WF_electionVars(Unlock(t, r))

ElectionSpec == ElectionInit /\ [][ElectionNext]_electionVars
FairElectionSpec == ElectionSpec /\ ElectionFairness

-----------------------------------------------------------------------------

ElectionTypeOK ==
  /\ alive \subseteq Tabs
  /\ state \in [Tabs -> {"idle", "waiting", "leader"}]
  /\ round \in [Tabs -> 0..MaxRounds]
  /\ begun \in [Tabs -> 0..MaxRounds]
  /\ requests \subseteq Grants
  /\ opening \subseteq Grants
  /\ holding \subseteq Grants

\* The pieces of the inductive invariant.

\* A round is the latest one its tab began, so no ended round comes back.
RoundIsLatest == \A t \in Tabs : round[t] # 0 => round[t] = begun[t]

BegunBefore == \A g \in requests \cup opening \cup holding : g[2] <= begun[g[1]]

\* A tab that is gone, or idle, has no round.
IdleHasNoRound ==
  \A t \in Tabs : /\ state[t] = "idle" <=> round[t] = 0
                  /\ t \notin alive => state[t] = "idle"

\* A waiting tab's request is queued and its round runs no callback.
WaitingIsQueued ==
  \A t \in Tabs : state[t] = "waiting" =>
    <<t, round[t]>> \in requests \ (opening \cup holding)

\* A leading tab's callback runs: the tab has the lock.
LeaderHoldsLock ==
  \A t \in Tabs : state[t] = "leader" => <<t, round[t]>> \in opening \cup holding

\* Web Locks: one electing callback at a time.
LockIsExclusive ==
  \A g, h \in opening \cup holding :
    g[1] \in Electing /\ h[1] \in Electing => g = h

ElectionInv ==
  /\ RoundIsLatest /\ BegunBefore /\ IdleHasNoRound
  /\ WaitingIsQueued /\ LeaderHoldsLock /\ LockIsExclusive

\* leader.ts 23-26, "Picks one leader per lock name": two electing tabs never
\* lead at once, whatever rounds were released while they were opening.
MutualExclusion ==
  \A t, u \in Electing : state[t] = "leader" /\ state[u] = "leader" => t = u

\* Leadership is a lease: it goes through nobody on its way to another tab.
leaders == {t \in Electing : state[t] = "leader"}
owner == IF leaders = {} THEN Nobody ELSE CHOOSE t \in leaders : TRUE

Lease == INSTANCE LeaderLease
ImplementsLease == Lease!Spec

\* leader.ts 26, "so the next queued tab takes over": while some tab waits, a
\* tab comes to lead, even when the last leader crashed, or was released while
\* it was opening.
TakeOver ==
  \A t \in Electing :
    state[t] = "waiting" ~> (state[t] # "waiting" \/ leaders # {})
=============================================================================
