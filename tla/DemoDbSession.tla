--------------------------- MODULE DemoDbSession ---------------------------
(***************************************************************************)
(* packages/sqlite-wasm/src/opfs/session.ts: DemoDbSession, one per tab.   *)
(* It composes the tab's LeaderElection, its TabBridge and the worker that *)
(* the leader starts: the election's callbacks (onAcquired, onReleased,    *)
(* onError) and the page's life cycle drive the bridge.                    *)
(*                                                                         *)
(* A WorkerClient is named by the grant <<tab, round>> that created it.    *)
(* An action is one synchronous handler, so what it calls in the election  *)
(* and in the bridge happens in the same step.  Events are emitted in the  *)
(* middle of handlers: ClosingListeners lets a listener call close() at an  *)
(* error, when a resumed tab connects again, and when a tab has opened the *)
(* dataset or is about to announce that it leads.                          *)
(***************************************************************************)
EXTENDS LeaderElection, TabBridge, SequencesExt

CONSTANTS MaxRestarts,      \* maxWorkerRestarts
          ClosingListeners  \* a subscriber may close() the session on an event

\* Every constructor begins a round.
ASSUME SessionAssumption == MaxRestarts \in Nat /\ ClosingListeners \in BOOLEAN /\ MaxRounds # 0

VARIABLES role,      \* #role, "gone" when the tab is
          leading,   \* the round whose client is #leading, 0 when undefined
          restarts,  \* #restarts
          clients    \* worker clients that are not terminated

sessionVars ==
  <<alive, state, round, begun, requests, opening, holding,
    host, leader, info, closed, calls, work, inbox, terms, churn, executed,
    role, leading, restarts, clients>>

electionRest == <<state, round, begun, requests, opening, holding>>
bridgeRest == <<host, leader, info, closed, calls, work, inbox, terms, churn, executed>>
sessionRest == <<role, leading, restarts, clients>>

\* Every tab's constructor has run: its first round waits for the lock and its
\* hello is on its way.
SessionInit ==
  /\ alive = Tabs
  /\ state = [t \in Tabs |-> IF t \in Lockless THEN "leader" ELSE "waiting"]
  /\ round = [t \in Tabs |-> 1]
  /\ begun = [t \in Tabs |-> 1]
  /\ requests = {<<t, 1>> : t \in Electing}
  /\ opening = {<<t, 1>> : t \in Lockless}
  /\ holding = {}
  /\ host = [t \in Tabs |-> 0]
  /\ leader = [t \in Tabs |-> Nobody]
  /\ info = [t \in Tabs |-> 0]
  /\ closed = [t \in Tabs |-> FALSE]
  /\ calls = [t \in Tabs |-> [i \in Calls |-> Idle]]
  /\ work = [t \in Tabs |-> {}]
  /\ inbox = [t \in Tabs |-> SetToSeq({Hello(u) : u \in Tabs \ {t}})]
  /\ terms = 0 /\ churn = 0
  /\ executed = [t \in Tabs |-> [i \in Calls |-> 0]]
  /\ role = [t \in Tabs |-> "connecting"]
  /\ leading = [t \in Tabs |-> 0]
  /\ restarts = [t \in Tabs |-> 0]
  /\ clients = opening

-----------------------------------------------------------------------------

\* onLeaderChange: t's role once its bridge knows leader l.
RoleUnder(t, l) ==
  IF role[t] \in {"suspended", "failed", "closed"} THEN role[t]
  ELSE CASE l = Nobody -> "connecting"
         [] l = t -> "leader"
         [] OTHER -> "follower"

SetRole(t, r) == role' = [role EXCEPT ![t] = r]

\* #stopLeading terminates the leading client; the bridge steps down before.
ForgetLeading(t) ==
  /\ leading' = [leading EXCEPT ![t] = 0]
  /\ clients' = clients \ {<<t, leading[t]>>}

\* release() then leave() or close() of the bridge: a host says bye twice.
Byes(t) == IF host[t] # 0 THEN <<Bye(t), Bye(t)>> ELSE <<Bye(t)>>

\* The lock is granted: #lead creates the worker.
LockGranted(t) ==
  /\ Grant(t)
  /\ clients' = clients \cup {<<t, round[t]>>}
  /\ UNCHANGED <<bridgeRest, role, leading, restarts>>

\* (Bugs: a stale worker is not terminated; it leads all the same.)
OpenSucceedsLeaks(t, r) ==
  /\ Acquired(t, r)
  /\ \/ /\ state[t] # "leader"
        /\ UNCHANGED <<bridgeRest, role, leading>>
     \/ /\ state[t] = "leader"
        /\ leading' = [leading EXCEPT ![t] = r]
        /\ BecomeLeader(t)
        /\ SetRole(t, RoleUnder(t, t))
        /\ UNCHANGED <<closed, churn>>
  /\ UNCHANGED <<restarts, clients>>

OpenSucceedsStale(t, r) ==
  /\ Acquired(t, r)
  /\ leading' = [leading EXCEPT ![t] = r]
  /\ BecomeLeader(t)
  /\ SetRole(t, RoleUnder(t, t))
  /\ UNCHANGED <<closed, churn, clients, restarts>>

\* A listener closes the session while #lead reports: the round ends, and the
\* worker with it.
ClosedAtOpen(t, r) ==
  /\ ClosingListeners /\ role[t] # "closed" /\ state[t] = "leader"
  /\ <<t, r>> \in opening
  /\ opening' = opening \ {<<t, r>>} /\ holding' = holding \cup {<<t, r>>}
  /\ EndRound(t)
  /\ leading' = [leading EXCEPT ![t] = 0] /\ clients' = clients \ {<<t, r>>}
  /\ SetRole(t, "closed")
  /\ UNCHANGED <<alive, begun, requests>>

\* At `opened': becomeLeader runs on, on a bridge that is closed by then.
LeadsClosed(t) ==
  /\ CloseKnowing(t, Byes(t), t, terms + 1)
  /\ UNCHANGED executed

\* At the role, within becomeLeader: calls that waited have been served, but the
\* announcement comes too late.
ClosedLeading(t) ==
  /\ RoleUnder(t, t) # role[t]
  /\ CloseKnowing(t, <<Bye(t), Bye(t)>>, Nobody, 0)
  /\ executed' = [executed EXCEPT ![t] = RunsUnder(t, t, terms + 1)]

\* The open of round r's worker resolved.  #lead then asks whether the tab
\* leads, not whether round r is still the current one.
OpenSucceeds(t, r) ==
  /\ \/ /\ Acquired(t, r) /\ state[t] # "leader"
        /\ clients' = clients \ {<<t, r>>}
        /\ UNCHANGED <<bridgeRest, role, leading>>
     \/ /\ Acquired(t, r) /\ state[t] = "leader"
        /\ leading' = [leading EXCEPT ![t] = r]
        /\ BecomeLeader(t)
        /\ SetRole(t, RoleUnder(t, t))
        /\ UNCHANGED <<closed, churn, clients>>
     \/ /\ ClosedAtOpen(t, r)
        /\ terms < MaxTerms /\ terms' = terms + 1
        /\ LeadsClosed(t) \/ ClosedLeading(t)
        /\ UNCHANGED churn
  /\ UNCHANGED restarts

\* #fail: nothing for a closed session, else the bridge closes for good.
Fail(t, byes) ==
  \/ /\ role[t] = "closed"
     /\ UNCHANGED <<bridgeRest, role>>
  \/ /\ role[t] # "closed"
     /\ SetRole(t, "failed")
     /\ Close(t, byes)
     /\ UNCHANGED <<terms, churn>>

\* The open rejected: `lead' ends round r if it is still the current one, and
\* calls onError even if it is not.  A listener that closes the session here
\* releases the current round too.
OpenFails(t, r) ==
  /\ \/ AcquireFailed(t, r)
     \/ /\ ClosingListeners /\ role[t] # "closed"
        /\ <<t, r>> \in opening
        /\ opening' = opening \ {<<t, r>>}
        /\ EndRound(t)
        /\ UNCHANGED <<alive, begun, requests, holding>>
  /\ clients' = clients \ {<<t, r>>, <<t, leading[t]>>}
  /\ leading' = IF round'[t] = 0 THEN [leading EXCEPT ![t] = 0] ELSE leading
  /\ Fail(t, <<Bye(t)>>)
  /\ UNCHANGED restarts

\* The browser rejects the lock request: onError.
LockRefused(t) ==
  /\ RequestFailed(t)
  /\ Fail(t, <<Bye(t)>>)
  /\ UNCHANGED <<leading, restarts, clients>>

\* The leading worker dies: the tab steps down and queues again, unless it
\* restarted too often within the restart window.
Restarts(t) == {0, restarts[t]}  \* #restarts, reset when the window has passed

WorkerRestarts(t) ==
  \E n \in Restarts(t) :
    /\ n < MaxRestarts
    /\ restarts' = [restarts EXCEPT ![t] = n + 1]
    /\ Begin(t)
    /\ \/ /\ StepDown(t)
          /\ SetRole(t, IF leader[t] = t THEN RoleUnder(t, Nobody) ELSE role[t])
          /\ UNCHANGED closed
       \/ /\ ClosingListeners /\ role[t] # "closed"
          /\ SetRole(t, "closed")
          /\ Close(t, Byes(t))
    /\ UNCHANGED <<terms, churn>>

WorkerGivesUp(t) ==
  \E n \in Restarts(t) :
    /\ n >= MaxRestarts
    /\ restarts' = [restarts EXCEPT ![t] = n]
    /\ EndRound(t)
    /\ \/ SetRole(t, IF role[t] = "closed" THEN "closed" ELSE "failed")
       \/ ClosingListeners /\ SetRole(t, "closed")
    /\ Close(t, Byes(t))
    /\ UNCHANGED <<alive, begun, requests, opening, holding, terms, churn>>

WorkerFails(t) ==
  /\ <<t, leading[t]>> \in clients
  /\ WorkerRestarts(t) \/ WorkerGivesUp(t)
  /\ leading' = [leading EXCEPT ![t] = 0]
  /\ clients' = (clients \ {<<t, leading[t]>>}) \cup (opening' \ opening)

\* (Bug: the lock is released and the bridge goes on serving.)
SuspendServing(t) ==
  /\ role[t] \in {"connecting", "leader", "follower"}
  /\ Churn
  /\ SetRole(t, "suspended")
  /\ EndRound(t)
  /\ UNCHANGED <<alive, begun, requests, opening, holding, closed, terms, restarts,
                 leading, clients, leader, info, host, calls, work, inbox, executed>>

\* pagehide (once per visit of the page)
Suspend(t) ==
  /\ role[t] \in {"connecting", "leader", "follower"}
  /\ Churn
  /\ SetRole(t, "suspended")
  /\ EndRound(t)
  /\ ForgetLeading(t)
  /\ Leave(t, Byes(t))
  /\ UNCHANGED <<alive, begun, requests, opening, holding, closed, terms, restarts>>

\* pageshow of a persisted page.  The role event comes before start(), which
\* runs on when a listener closed the session.
Resume(t) ==
  /\ role[t] = "suspended"
  /\ Begin(t)
  /\ \/ SetRole(t, "connecting") /\ SayHello(t) /\ UNCHANGED closed
     \/ ClosingListeners /\ SetRole(t, "closed") /\ Close(t, <<Bye(t)>>)
  /\ UNCHANGED <<terms, churn, leading, restarts>>
  /\ clients' = clients \cup (opening' \ opening)

\* close()
CloseSession(t) ==
  /\ role[t] \notin {"closed", "gone"}
  /\ Churn
  /\ SetRole(t, "closed")
  /\ EndRound(t)
  /\ ForgetLeading(t)
  /\ Close(t, Byes(t))
  /\ UNCHANGED <<alive, begun, requests, opening, holding, terms, restarts>>

\* visibilitychange
BecomeVisible(t) ==
  /\ role[t] = "connecting"
  /\ Churn
  /\ SayHello(t)
  /\ UNCHANGED <<alive, electionRest, closed, terms, sessionRest>>

\* The tab crashes or navigates away: its worker goes with it.
TabCrash(t) ==
  /\ Crash(t)
  /\ Churn
  /\ BridgeCrash(t)
  /\ SetRole(t, "gone")
  /\ leading' = [leading EXCEPT ![t] = 0]
  /\ clients' = OfOthers(clients, t)
  /\ UNCHANGED restarts

\* A message that makes the bridge call onLeaderChange.
ChangesLeader(t, m) ==
  \/ m.k = "leader" /\ host[t] = 0
  \/ m.k = "bye" /\ leader[t] = m.from

SessionReceive(t, n) ==
  /\ Receive(t, n)
  /\ SetRole(t, IF ChangesLeader(t, inbox[t][n]) THEN RoleUnder(t, leader'[t]) ELSE role[t])
  /\ UNCHANGED <<electionRest, leading, restarts, clients>>

SettleOpen(t, r) == OpenSucceeds(t, r) \/ OpenFails(t, r)
Lapse(t, r) == (Discard(t, r) \/ Unlock(t, r)) /\ UNCHANGED <<bridgeRest, sessionRest>>
MakeCall(t) == (\E id \in Calls : Call(t, id)) /\ UNCHANGED <<electionRest, sessionRest>>
SettleServed(t) == Serve(t) /\ UNCHANGED <<electionRest, sessionRest>>
Deliver(t) == \E n \in 1..Len(inbox[t]) : SessionReceive(t, n)

SessionNext ==
  \E t \in Tabs :
    \/ LockGranted(t) \/ LockRefused(t) \/ WorkerFails(t) \/ TabCrash(t)
    \/ Suspend(t) \/ Resume(t) \/ CloseSession(t) \/ BecomeVisible(t)
    \/ \E r \in 1..MaxRounds : SettleOpen(t, r) \/ Lapse(t, r)
    \/ MakeCall(t) \/ SettleServed(t) \/ Deliver(t)

\* The browser grants a free lock, opens settle, resolved callbacks run,
\* messages arrive and served requests settle.
SessionFairness ==
  /\ WF_sessionVars(\E t \in Tabs : LockGranted(t))
  /\ \A t \in Tabs :
       /\ \A r \in 1..MaxRounds :
            WF_sessionVars(SettleOpen(t, r)) /\ WF_sessionVars(Lapse(t, r))
       /\ WF_sessionVars(SettleServed(t))
       /\ WF_sessionVars(Deliver(t))

SessionSpec == SessionInit /\ [][SessionNext]_sessionVars
FairSessionSpec == SessionSpec /\ SessionFairness

-----------------------------------------------------------------------------

SessionTypeOK ==
  /\ ElectionTypeOK /\ BridgeTypeOK
  /\ role \in [Tabs -> {"connecting", "leader", "follower", "suspended",
                        "failed", "closed", "gone"}]
  /\ leading \in [Tabs -> 0..MaxRounds]
  /\ restarts \in [Tabs -> 0..MaxRestarts]
  /\ clients \subseteq Grants

\* The pieces of the inductive invariant.

\* A round is queued, opens or holds the lock, one after the other.
RoundsAdvance ==
  requests \cap (opening \cup holding) = {} /\ opening \cap holding = {}

\* A worker belongs to a page that is there: it opens, or it is the leading one
\* and its round has the lock.
WorkersHaveLock ==
  \A w \in clients :
    /\ w[1] \in alive
    /\ w[1] \in Electing => w \in opening \/ (w \in holding /\ w[2] = leading[w[1]])

\* Nobody ends a worker that opens.
OpeningHasWorker ==
  \A g \in opening : g[1] \in alive /\ (g[1] \in Electing => g \in clients)

\* The leading worker is that of the current round, so #stopLeading and
\* release() always go together.
LeadingIsCurrent ==
  \A t \in Electing : leading[t] # 0 =>
    /\ leading[t] = round[t]
    /\ <<t, leading[t]>> \in clients \cap holding

\* A tab answers while its bridge has a host and is open: a closed bridge keeps
\* the host it is given, but hears nobody and refuses its own tab's calls.
Answers(t) == host[t] # 0 /\ ~closed[t]

HostHasWorker == \A t \in Electing : Answers(t) => leading[t] # 0

\* A session that has ended has closed its bridge.
EndedIsShut == \A t \in Tabs : role[t] \in {"failed", "closed"} => closed[t]

\* A page that is gone, or hidden, elects nobody and leads nothing.
RoleOfPage ==
  \A t \in Tabs : /\ t \notin alive => role[t] = "gone"
                  /\ role[t] = "suspended" => round[t] = 0 /\ leading[t] = 0

SessionInv ==
  /\ ElectionInv /\ RoundsAdvance /\ WorkersHaveLock /\ OpeningHasWorker
  /\ LeadingIsCurrent /\ HostHasWorker /\ EndedIsShut /\ RoleOfPage

\* The dataset's pool of files is open in one worker of the origin at a time,
\* even while a worker of an ended round still opens (the page was hidden and
\* shown again, or its worker was restarted).
OneWorker ==
  \A v, w \in clients : v[1] \in Electing /\ w[1] \in Electing => v = w

\* The tab that answers requests has the lock, for its current round, and the
\* worker of that round.
HostOwnsDataset ==
  \A t \in Electing : Answers(t) =>
    /\ leading[t] = round[t]
    /\ <<t, leading[t]>> \in clients \cap holding

\* To the other tabs, too, serving the dataset is a lease: one tab serves, and
\* it stops before the next one starts.
servers == {t \in Electing : Answers(t)}
server == IF servers = {} THEN Nobody ELSE CHOOSE t \in servers : TRUE

Service == INSTANCE LeaderLease WITH owner <- server
ServesAsLease == Service!Spec

\* A session that ended but whose election goes on (see FailedLetsGo).
Undead == \E t \in Tabs : role[t] \in {"failed", "closed"} /\ state[t] # "idle"

\* A connecting tab finds a leader, or leads, or fails: tabs that come and go,
\* crash or restart their workers do not leave it waiting.
ConnectingEnds ==
  \A t \in Electing : role[t] = "connecting" ~> (role[t] # "connecting" \/ Undead)

\* Every request settles, though its leader crashed without a bye: the next
\* leader answers it, or its announcement fails it.
EveryCallSettles ==
  \A t \in Tabs, id \in Calls :
    calls[t][id].st \in {"queued", "sent"}
      ~> (calls[t][id].st \notin {"queued", "sent"} \/ role[t] = "suspended" \/ Undead)

\* 105, "`failed`: this tab could not open the dataset": it lets the others.
FailedLetsGo == \A t \in Tabs : role[t] = "failed" => state[t] # "leader"

\* 224, close() "releases the lock (a waiting tab takes over), stops the worker
\* and rejects waiting requests".
ClosedLetsGo == \A t \in Tabs : role[t] = "closed" => state[t] # "leader"
=============================================================================
