----------------------------- MODULE TabBridge -----------------------------
(***************************************************************************)
(* packages/sqlite-wasm/src/opfs/tab-bridge.ts: TabBridge, one per tab, on *)
(* one BroadcastChannel: which tab leads, and the requests sent to it.     *)
(* (Its ports are in BridgePorts.)                                         *)
(*                                                                         *)
(* The channel (external) delivers every message once to each other tab    *)
(* that listens, in the order one sender posted them; messages of two      *)
(* senders may overtake each other unless Ordered.                         *)
(*                                                                         *)
(* A host object is a number here, its term; the info a leader announces   *)
(* (the report of its open) is that number.  #leaderGeneration is only     *)
(* ever compared with a value read before an await, so a served request    *)
(* keeps the outcome of that comparison: it is `fresh' until the           *)
(* generation changes.                                                     *)
(***************************************************************************)
EXTENDS Naturals, Sequences, FiniteSets, DemoDbTabs

CONSTANTS Callers,   \* bound: the tabs that make requests
          MaxCalls,  \* bound: requests made by one of them
          MaxTerms,  \* bound: hosts installed by all tabs
          MaxChurn,  \* bound: hellos, leaves, closes and crashes of all tabs
          Ordered    \* messages of different senders keep their order

ASSUME BridgeAssumption ==
  Callers \subseteq Tabs /\ MaxCalls \in Nat /\ MaxTerms \in Nat /\ MaxChurn \in Nat /\ Ordered \in BOOLEAN

VARIABLES host,      \* #host: the term this tab serves, 0 when undefined
          leader,    \* #leader.id, Nobody when undefined
          info,      \* #leader.info
          closed,    \* #closed
          calls,     \* #pending, and how a call that is gone from it settled
          work,      \* requests whose promise of #serve is not settled
          inbox,     \* the channel: messages on their way to a tab
          terms,     \* hosts installed so far
          churn,     \* hellos, leaves, closes and crashes so far
          executed   \* history: times the host ran a tab's request

bridgeVars ==
  <<alive, host, leader, info, closed, calls, work, inbox, terms, churn, executed>>

Calls == 1..MaxCalls
Terms == 1..MaxTerms
Idle == [st |-> "none", to |-> Nobody, info |-> 0, by |-> 0]

Hello(t)           == [k |-> "hello", from |-> t, to |-> Nobody]
Leader(t, i)       == [k |-> "leader", from |-> t, to |-> Nobody, info |-> i]
Bye(t)             == [k |-> "bye", from |-> t, to |-> Nobody]
Req(t, l, id)      == [k |-> "req", from |-> t, to |-> l, id |-> id]
Res(t, to, id, st, by) ==
  [k |-> "res", from |-> t, to |-> to, id |-> id, st |-> st, by |-> by]

BridgeInit ==
  /\ alive = Tabs
  /\ host = [t \in Tabs |-> 0]
  /\ leader = [t \in Tabs |-> Nobody]
  /\ info = [t \in Tabs |-> 0]
  /\ closed = [t \in Tabs |-> FALSE]
  /\ calls = [t \in Tabs |-> [i \in Calls |-> Idle]]
  /\ work = [t \in Tabs |-> {}]
  /\ inbox = [t \in Tabs |-> <<>>]
  /\ terms = 0 /\ churn = 0
  /\ executed = [t \in Tabs |-> [i \in Calls |-> 0]]

-----------------------------------------------------------------------------
(* The channel.                                                            *)

Listens(t) == t \in alive /\ ~closed[t]

\* #post: `box' after t posts the messages `out', which are all for one tab
\* (the others ignore them) or all for every other listening tab.
Post(box, t, out) ==
  IF out = <<>> \/ ~Listens(t) THEN box
  ELSE [r \in Tabs |->
          IF r # t /\ Listens(r) /\ out[1].to \in {r, Nobody} THEN box[r] \o out
          ELSE box[r]]

\* The messages of t's inbox that may arrive next.
Readable(t) ==
  {n \in 1..Len(inbox[t]) :
     /\ Ordered => n = 1
     /\ \A k \in 1..(n - 1) : inbox[t][k].from # inbox[t][n].from}

Without(s, n) == SubSeq(s, 1, n - 1) \o SubSeq(s, n + 1, Len(s))

\* t takes message n from its inbox and posts `out'.
TakeAndPost(t, n, out) ==
  inbox' = Post([inbox EXCEPT ![t] = Without(@, n)], t, out)

-----------------------------------------------------------------------------
(* #setLeader and #dispatch.                                               *)

\* (Bugs: calls sent to the previous leader stay out; they are dropped without
\* a rejection.)
CallsUnderKeepsSent(t, l, i) ==
  [id \in Calls |->
     LET call == calls[t][id] IN
     IF call.st = "queued" /\ l # Nobody THEN [call EXCEPT !.st = "sent", !.to = l, !.info = i] ELSE call]

\* t's calls when its known leader becomes l: those sent to another leader
\* fail, then those that wait are sent.
CallsUnder(t, l, i) ==
  [id \in Calls |->
     LET call == calls[t][id] IN
     CASE call.st = "sent" /\ l # leader[t]  -> [call EXCEPT !.st = "changed"]
       [] call.st = "queued" /\ l # Nobody -> [call EXCEPT !.st = "sent", !.to = l, !.info = i]
       [] OTHER -> call]

\* (Bug: calls that are out are sent again.)
WaitingOrSent(t) == {id \in Calls : calls[t][id].st \in {"queued", "sent"}}

Waiting(t) == {id \in Calls : calls[t][id].st = "queued"}

\* The members of a set of numbers, in their order.
Ascending(S) ==
  CHOOSE s \in [1..Cardinality(S) -> S] : \A i, j \in DOMAIN s : i < j => s[i] < s[j]

\* The requests #setLeader(l) posts, in the order they were made.
Dispatched(t, l) ==
  IF l \in {t, Nobody} THEN <<>>
  ELSE [n \in 1..Cardinality(Waiting(t)) |-> Req(t, l, Ascending(Waiting(t))[n])]

Serving(from, id, term) == [from |-> from, id |-> id, term |-> term, fresh |-> TRUE]

\* What t serves when its known leader becomes l and its host h: a new
\* generation makes running requests stale; its own waiting calls are served.
WorkUnder(t, l, h) ==
  (IF l = leader[t] THEN work[t] ELSE {[w EXCEPT !.fresh = FALSE] : w \in work[t]})
    \cup (IF l = t THEN {Serving(t, id, h) : id \in Waiting(t)} ELSE {})

RunsUnder(t, l, h) ==
  [id \in Calls |->
     executed[t][id] + (IF l = t /\ h # 0 /\ id \in Waiting(t) THEN 1 ELSE 0)]

\* #setLeader({l, i}) at t, which has host h from then on.
SetLeader(t, l, i, h) ==
  /\ leader' = [leader EXCEPT ![t] = l]
  /\ info' = [info EXCEPT ![t] = i]
  /\ host' = [host EXCEPT ![t] = h]
  /\ calls' = [calls EXCEPT ![t] = CallsUnder(t, l, i)]
  /\ work' = [work EXCEPT ![t] = WorkUnder(t, l, h)]
  /\ executed' = [executed EXCEPT ![t] = RunsUnder(t, l, h)]

\* The same leader stays known.
KeepLeader == UNCHANGED <<leader, info, host, calls, work, executed>>

-----------------------------------------------------------------------------
(* Methods of the bridge.                                                  *)

Churn == churn < MaxChurn /\ churn' = churn + 1

\* hello()
SayHello(t) == inbox' = Post(inbox, t, <<Hello(t)>>) /\ KeepLeader

\* becomeLeader(host, info)
BecomeLeader(t) ==
  /\ terms < MaxTerms
  /\ terms' = terms + 1
  /\ SetLeader(t, t, terms + 1, terms + 1)
  /\ inbox' = Post(inbox, t, <<Leader(t, terms + 1)>>)

\* stepDown()
StepDown(t) ==
  \/ /\ host[t] = 0
     /\ KeepLeader /\ UNCHANGED inbox
  \/ /\ host[t] # 0
     /\ IF leader[t] = t THEN SetLeader(t, Nobody, 0, 0)
        ELSE SetLeader(t, leader[t], info[t], 0)
     /\ inbox' = Post(inbox, t, <<Bye(t)>>)

\* leave(): no host and no leader known.  `byes': one, or two when the
\* session stepped down just before.
Leave(t, byes) ==
  /\ SetLeader(t, Nobody, 0, 0)
  /\ inbox' = Post(inbox, t, byes)

\* close(), and what becomeLeader() still sets when a listener closes the bridge
\* before it: every call that waits is rejected.
CloseKnowing(t, byes, l, h) ==
  /\ closed' = [closed EXCEPT ![t] = TRUE]
  /\ leader' = [leader EXCEPT ![t] = l]
  /\ info' = [info EXCEPT ![t] = h]
  /\ host' = [host EXCEPT ![t] = h]
  /\ calls' = [calls EXCEPT ![t] =
       [id \in Calls |-> IF @[id].st \in {"queued", "sent"}
                         THEN [@[id] EXCEPT !.st = "changed"] ELSE @[id]]]
  /\ work' = [work EXCEPT ![t] = {[w EXCEPT !.fresh = FALSE] : w \in @}]
  /\ inbox' = [Post(inbox, t, byes) EXCEPT ![t] = <<>>]

\* close(): leave(), then every call that waits is rejected.
Close(t, byes) == CloseKnowing(t, byes, Nobody, 0) /\ UNCHANGED executed

\* #call: request(), reset() or export()
Call(t, id) ==
  /\ t \in alive \cap Callers
  /\ calls[t][id] = Idle
  /\ \A j \in 1..(id - 1) : calls[t][j] # Idle
  /\ LET l == leader[t]
         st == IF closed[t] THEN "changed" ELSE IF l = Nobody THEN "queued" ELSE "sent"
         local == st = "sent" /\ l = t
     IN  /\ calls' = [calls EXCEPT ![t][id] =
                        [st |-> st, to |-> l, info |-> info[t], by |-> 0]]
         /\ inbox' = IF st = "sent" /\ l # t THEN Post(inbox, t, <<Req(t, l, id)>>)
                     ELSE inbox
         /\ work' = IF local THEN [work EXCEPT ![t] = @ \cup {Serving(t, id, host[t])}]
                    ELSE work
         /\ executed' = IF local /\ host[t] # 0 THEN [executed EXCEPT ![t][id] = @ + 1]
                        ELSE executed
  /\ UNCHANGED <<alive, host, leader, info, closed, terms, churn>>

\* A promise of #serve settles: without a host only with a rejection.  The
\* first alternative is #dispatch's, for the tab's own call; the second
\* #answer's.
Outcomes(w) == IF w.term = 0 THEN {"changed"} ELSE {"ok", "error"}

Served(t, w, st) ==
  /\ t \in alive /\ w \in work[t] /\ st \in Outcomes(w)
  /\ work' = [work EXCEPT ![t] = @ \ {w}]
  /\ \/ /\ w.from = t
        /\ calls' = IF calls[t][w.id].st = "sent" /\ (st = "ok" => w.fresh)
                    THEN [calls EXCEPT ![t][w.id].st = st, ![t][w.id].by = w.term]
                    ELSE calls
        /\ UNCHANGED inbox
     \/ /\ w.from # t
        /\ inbox' = IF w.fresh THEN Post(inbox, t, <<Res(t, w.from, w.id, st, w.term)>>)
                    ELSE inbox
        /\ UNCHANGED calls
  /\ UNCHANGED <<alive, host, leader, info, closed, terms, churn, executed>>

-----------------------------------------------------------------------------
(* #receive of message n of t's inbox.                                     *)

Reads(t, n, kind) ==
  /\ Listens(t) /\ n \in Readable(t)
  /\ inbox[t][n].k = kind /\ inbox[t][n].from # t

\* (Bug: hello is not answered.)
ReceiveHelloIgnored(t, n) ==
  /\ Reads(t, n, "hello")
  /\ TakeAndPost(t, n, <<>>)
  /\ KeepLeader /\ UNCHANGED <<alive, closed, terms, churn>>

ReceiveHello(t, n) ==
  /\ Reads(t, n, "hello")
  /\ TakeAndPost(t, n, IF host[t] # 0 /\ leader[t] # Nobody
                       THEN <<Leader(t, info[t])>> ELSE <<>>)
  /\ KeepLeader /\ UNCHANGED <<alive, closed, terms, churn>>

\* A host ignores an announcement: it holds the lock.  `flush' is what
\* #setLeader posts for ports.
ReceiveLeader(t, n, flush) ==
  /\ Reads(t, n, "leader")
  /\ LET m == inbox[t][n] IN
     \/ /\ host[t] # 0
        /\ TakeAndPost(t, n, <<>>) /\ KeepLeader
     \/ /\ host[t] = 0
        /\ SetLeader(t, m.from, m.info, 0)
        /\ TakeAndPost(t, n, Dispatched(t, m.from) \o flush)
  /\ UNCHANGED <<alive, closed, terms, churn>>

\* (Bug: a leader's bye only ends its ports.)
ReceiveByeKeepsLeader(t, n) ==
  /\ Reads(t, n, "bye")
  /\ KeepLeader
  /\ TakeAndPost(t, n, <<>>)
  /\ UNCHANGED <<alive, closed, terms, churn>>

ReceiveBye(t, n) ==
  /\ Reads(t, n, "bye")
  /\ IF leader[t] = inbox[t][n].from THEN SetLeader(t, Nobody, 0, host[t]) ELSE KeepLeader
  /\ TakeAndPost(t, n, <<>>)
  /\ UNCHANGED <<alive, closed, terms, churn>>

\* #answer
ReceiveReq(t, n) ==
  /\ Reads(t, n, "req")
  /\ LET m == inbox[t][n] IN
     /\ work' = [work EXCEPT ![t] = @ \cup {Serving(m.from, m.id, host[t])}]
     /\ executed' = IF host[t] = 0 THEN executed
                    ELSE [executed EXCEPT ![m.from][m.id] = @ + 1]
  /\ TakeAndPost(t, n, <<>>)
  /\ UNCHANGED <<alive, host, leader, info, closed, calls, terms, churn>>

\* #settle
ReceiveRes(t, n) ==
  /\ Reads(t, n, "res")
  /\ LET m == inbox[t][n] IN
     calls' = IF calls[t][m.id].st = "sent" /\ calls[t][m.id].to = m.from
              THEN [calls EXCEPT ![t][m.id].st = m.st, ![t][m.id].by = m.by]
              ELSE calls
  /\ TakeAndPost(t, n, <<>>)
  /\ UNCHANGED <<alive, host, leader, info, closed, work, terms, churn, executed>>

\* The tab is gone without a bye.
BridgeCrash(t) ==
  /\ host' = [host EXCEPT ![t] = 0]
  /\ leader' = [leader EXCEPT ![t] = Nobody]
  /\ info' = [info EXCEPT ![t] = 0]
  /\ calls' = [calls EXCEPT ![t] = [id \in Calls |-> Idle]]
  /\ work' = [work EXCEPT ![t] = {}]
  /\ inbox' = [inbox EXCEPT ![t] = <<>>]
  /\ UNCHANGED <<closed, terms, executed>>

Receive(t, n) ==
  \/ ReceiveHello(t, n) \/ ReceiveLeader(t, n, <<>>) \/ ReceiveBye(t, n)
  \/ ReceiveReq(t, n) \/ ReceiveRes(t, n)

\* The session calls becomeLeader only with the dataset's lock, and calls
\* stepDown before it gives the lock up.
NoHost == \A t \in Tabs : host[t] = 0

Serve(t) == \E w \in work[t] : \E st \in Outcomes(w) : Served(t, w, st)

Lead(t) == /\ Listens(t) /\ NoHost /\ BecomeLeader(t)
           /\ UNCHANGED <<alive, closed, churn>>

GiveUp(t) == /\ Listens(t) /\ host[t] # 0 /\ StepDown(t)
             /\ UNCHANGED <<alive, closed, terms, churn>>

Ask(t) == Listens(t) /\ Churn /\ SayHello(t) /\ UNCHANGED <<alive, closed, terms>>

GoAway(t) ==
  /\ Listens(t) /\ Churn
  /\ Leave(t, <<Bye(t)>>)
  /\ UNCHANGED <<alive, closed, terms>>

Shut(t) == Listens(t) /\ Churn /\ Close(t, <<Bye(t)>>) /\ UNCHANGED <<alive, terms>>

Vanish(t) == t \in alive /\ Churn /\ alive' = alive \ {t} /\ BridgeCrash(t)

BridgeNext ==
  \E t \in Tabs :
    \/ Lead(t) \/ GiveUp(t) \/ Ask(t) \/ GoAway(t) \/ Shut(t) \/ Vanish(t)
    \/ \E id \in Calls : Call(t, id)
    \/ Serve(t)
    \/ \E n \in 1..Len(inbox[t]) : Receive(t, n)

\* Messages arrive, and a host settles what it serves.
BridgeFairness ==
  \A t \in Tabs :
    /\ WF_bridgeVars(Serve(t))
    /\ WF_bridgeVars(\E n \in 1..Len(inbox[t]) : Receive(t, n))

BridgeSpec == BridgeInit /\ [][BridgeNext]_bridgeVars
FairBridgeSpec == BridgeSpec /\ BridgeFairness

-----------------------------------------------------------------------------

Message ==
  [k : {"hello", "bye"}, from : Tabs, to : {Nobody}]
    \cup [k : {"leader"}, from : Tabs, to : {Nobody}, info : Terms]
    \cup [k : {"req"}, from : Tabs, to : Tabs, id : Calls]
    \cup [k : {"res"}, from : Tabs, to : Tabs, id : Calls,
          st : {"ok", "error", "changed"}, by : 0..MaxTerms]

BridgeTypeOK ==
  /\ alive \subseteq Tabs
  /\ host \in [Tabs -> 0..MaxTerms]
  /\ leader \in [Tabs -> Tabs \cup {Nobody}]
  /\ info \in [Tabs -> 0..MaxTerms]
  /\ closed \in [Tabs -> BOOLEAN]
  /\ calls \in [Tabs -> [Calls ->
       [st : {"none", "queued", "sent", "ok", "error", "changed"},
        to : Tabs \cup {Nobody}, info : 0..MaxTerms, by : 0..MaxTerms]]]
  /\ work \in [Tabs -> SUBSET [from : Tabs, id : Calls, term : 0..MaxTerms,
                               fresh : BOOLEAN]]
  /\ inbox \in [Tabs -> Seq(Message)]
  /\ terms \in 0..MaxTerms
  /\ executed \in [Tabs -> [Calls -> Nat]]

\* No call is stranded: it waits only while its tab knows no leader, it is out
\* only to the leader its tab knows, and a closed bridge has neither
\* (236-239, "requests sent to the previous one fail ... requests made while no
\* leader is known wait for the next one").
NoStrandedCall ==
  \A t \in Tabs, id \in Calls :
    LET call == calls[t][id] IN
    /\ call.st = "queued" => leader[t] = Nobody /\ Listens(t)
    /\ call.st = "sent" => leader[t] = call.to /\ Listens(t)

\* A call that resolves was answered by the very host its tab knew when it was
\* sent, never by an earlier or later host of the same tab (README 251, "a late
\* response from that leader cannot become a successful download").
AnsweredByItsLeader ==
  \A t \in Tabs, id \in Calls :
    calls[t][id].st = "ok" => calls[t][id].by = calls[t][id].info

\* A request runs at most once in the hosts, re-announcements and repeated
\* leader changes included: only a caller's retry runs it again.
RunsAtMostOnce ==
  \A t \in Tabs, id \in Calls : executed[t][id] <= 1

\* The pieces of the inductive invariant.

\* A tab hosts while it leads, for the term it announces; one that does not
\* listen knows no leader and hears nothing; none hears itself.
HostLeads ==
  \A t \in Tabs :
    /\ host[t] # 0 => leader[t] = t
    /\ leader[t] = t => host[t] = info[t]
    /\ leader[t] # Nobody => info[t] # 0 /\ Listens(t)
    /\ ~Listens(t) => inbox[t] = <<>>
    /\ \A n \in DOMAIN inbox[t] : inbox[t][n].from # t

IsReq(m, t, id) == m.k = "req" /\ m.from = t /\ m.id = id

\* A call that is not out has left no trace: no request, no run, no answer.
WaitingLeftNoTrace ==
  \A t \in alive, id \in Calls : calls[t][id].st \in {"none", "queued"} =>
    /\ executed[t][id] = 0
    /\ \A r \in Tabs :
         /\ \A n \in DOMAIN inbox[r] : ~IsReq(inbox[r][n], t, id)
         /\ \A w \in work[r] : w.from # t \/ w.id # id
    /\ \A n \in DOMAIN inbox[t] : inbox[t][n].k = "res" => inbox[t][n].id # id

\* A request that is under way is the only one of its call, and has not run.
RequestIsFresh ==
  \A r \in Tabs : \A n \in DOMAIN inbox[r] :
    LET m == inbox[r][n] IN
    m.k = "req" =>
      /\ executed[m.from][m.id] = 0
      /\ \A s \in Tabs : \A k \in DOMAIN inbox[s] :
           IsReq(inbox[s][k], m.from, m.id) => s = r /\ k = n

\* A term that is over has said so, or its tab is gone: l no longer hosts term
\* i, and t has still to hear it at one of the places of its inbox.
OverFor(t, l, i, places) ==
  \/ host[l] = i \/ l \notin alive
  \/ \E n \in places : inbox[t][n].k = "bye" /\ inbox[t][n].from = l

\* What a tab hears of a term, knows of it and asks of it is right, unless the
\* bye of that term is behind it.
TermsEndWithBye ==
  \A t \in Tabs :
    /\ \A n \in DOMAIN inbox[t] : inbox[t][n].k = "leader" =>
         OverFor(t, inbox[t][n].from, inbox[t][n].info, (n + 1)..Len(inbox[t]))
    /\ leader[t] \notin {t, Nobody} => OverFor(t, leader[t], info[t], DOMAIN inbox[t])
    /\ \A id \in Calls : LET call == calls[t][id] IN
         call.st = "sent" =>
           /\ call.info # 0
           /\ call.to = t => call.info = host[t]
           /\ call.to # t => OverFor(t, call.to, call.info, DOMAIN inbox[t])

\* What is served under the generation of its request is served for the term.
WorkIsOfTerm ==
  \A t \in Tabs : \A w \in work[t] : w.fresh /\ w.term # 0 => host[t] = w.term

\* An answer is of the term that was asked, or the bye of that term comes first.
AnswersAreOfTerm ==
  \A t \in Tabs : \A n \in DOMAIN inbox[t] :
    LET m == inbox[t][n]
        call == calls[t][m.id] IN
    m.k = "res" /\ m.st = "ok" /\ call.st = "sent" /\ call.to = m.from =>
      \/ m.by = call.info
      \/ \E k \in 1..(n - 1) : inbox[t][k].k = "bye" /\ inbox[t][k].from = m.from

BridgeInv ==
  /\ HostLeads /\ NoStrandedCall
  /\ WaitingLeftNoTrace /\ RequestIsFresh /\ RunsAtMostOnce
  /\ TermsEndWithBye /\ WorkIsOfTerm /\ AnswersAreOfTerm /\ AnsweredByItsLeader

\* A call sent to a leader settles, unless that leader crashed before a
\* successor announced itself.
SentCallSettles ==
  \A t \in Tabs, id \in Calls :
    calls[t][id].st = "sent"
      ~> (calls[t][id].st # "sent" \/ calls[t][id].to \notin alive)
=============================================================================
