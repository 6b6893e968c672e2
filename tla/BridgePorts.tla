---------------------------- MODULE BridgePorts ----------------------------
(***************************************************************************)
(* packages/sqlite-wasm/src/opfs/tab-bridge.ts: the ports of a TabBridge.  *)
(* A tab opens an Endpoint, whose messages reach the ServedPort that the   *)
(* leader keeps for it; the leader's own tab talks to it in microtasks.    *)
(*                                                                         *)
(* A tab of Callers has one endpoint, with a protocol, and posts requests  *)
(* only; their numbers are their ids.  The host answers a request once, or *)
(* never, and does not close a served port itself (external).              *)
(***************************************************************************)
EXTENDS TabBridge

CONSTANT MaxPosts   \* bound: messages posted on one endpoint

ASSUME PortsAssumption == MaxPosts \in Nat

VARIABLES endpoint,  \* the Endpoint of a tab; told (history): the tabs told that it closed
          served,    \* #served: by tab, the port kept for another tab
          micro      \* queueMicrotask: messages within the leader's tab

portVars == <<endpoint, served, micro>>

Posts == 1..MaxPosts
Unopened == [st |-> "none", next |-> 1, queued |-> <<>>, inFlight |-> {}, told |-> {}]
Free == [open |-> FALSE, todo |-> {}]

PortsInit ==
  /\ BridgeInit
  /\ endpoint = [t \in Tabs |-> Unopened]
  /\ served = [t \in Tabs |-> [f \in Tabs |-> Free]]
  /\ micro = [t \in Tabs |-> <<>>]

PortMessage(t, to, id, answer) == [k |-> "port", from |-> t, to |-> to, id |-> id, answer |-> answer]
PortClose(t, to) == [k |-> "port-close", from |-> t, to |-> to]

-----------------------------------------------------------------------------
(* What #setLeader does to ports: requests that are out fail when the       *)
(* leader is another one, then those that wait are sent.  A closed endpoint *)
(* is in neither.                                                           *)

EndpointUnder(e, from, to) ==
  LET out == IF from = to THEN e.inFlight ELSE {} IN
  IF e.st # "open" THEN e
  ELSE IF to = Nobody THEN [e EXCEPT !.inFlight = out]
  ELSE [e EXCEPT !.inFlight = out \cup {e.queued[n] : n \in DOMAIN e.queued}, !.queued = <<>>]

Flush(t, to) ==
  IF endpoint[t].st # "open" THEN <<>>
  ELSE [n \in DOMAIN endpoint[t].queued |-> PortMessage(t, to, endpoint[t].queued[n], FALSE)]

\* After the tab's leader and host have changed.
FollowLeader(t) ==
  /\ endpoint' = [endpoint EXCEPT ![t] = EndpointUnder(@, leader[t], leader'[t])]
  /\ micro' = IF leader'[t] = t THEN [micro EXCEPT ![t] = @ \o Flush(t, t)] ELSE micro

StopServing(t) == served' = [served EXCEPT ![t] = [f \in Tabs |-> Free]]

-----------------------------------------------------------------------------
(* The endpoint.                                                            *)

\* connect()
Connect(t) ==
  /\ t \in alive \cap Callers /\ endpoint[t].st = "none"
  /\ endpoint' = [endpoint EXCEPT ![t].st = IF closed[t] THEN "closed" ELSE "open"]
  /\ UNCHANGED <<bridgeVars, served, micro>>

\* postMessage() and sendPort()
PostMessage(t) ==
  LET id == endpoint[t].next
      m == PortMessage(t, leader[t], id, FALSE)
  IN
  /\ t \in alive /\ endpoint[t].st = "open" /\ id <= MaxPosts
  /\ endpoint' = [endpoint EXCEPT ![t].next = id + 1,
                    ![t].queued = IF leader[t] = Nobody THEN Append(@, id) ELSE @,
                    ![t].inFlight = IF leader[t] = Nobody THEN @ ELSE @ \cup {id}]
  /\ micro' = IF leader[t] = t THEN [micro EXCEPT ![t] = Append(@, m)] ELSE micro
  /\ inbox' = IF leader[t] \in {t, Nobody} THEN inbox ELSE Post(inbox, t, <<m>>)
  /\ UNCHANGED <<alive, host, leader, info, closed, calls, work, terms, churn, executed, served>>

\* close() and closePort(): nobody is told while no leader is known.
ClosePort(t) ==
  /\ t \in alive /\ endpoint[t].st = "open"
  /\ endpoint' = [endpoint EXCEPT ![t].st = "closed", ![t].told = {leader[t]} \ {Nobody}]
  /\ served' = IF leader[t] = t THEN [served EXCEPT ![t][t] = Free] ELSE served
  /\ inbox' = IF leader[t] \in {t, Nobody} THEN inbox ELSE Post(inbox, t, <<PortClose(t, leader[t])>>)
  /\ UNCHANGED <<alive, host, leader, info, closed, calls, work, terms, churn, executed, micro>>

\* deliver()
Delivered(t, id) == [endpoint EXCEPT ![t].inFlight = IF endpoint[t].st = "open" THEN @ \ {id} ELSE @]

\* #servedPort(from)?.receive(): the port is made when it is first needed.
ServedWith(t, m) ==
  IF host[t] = 0 THEN served
  ELSE [served EXCEPT ![t][m.from] = [open |-> TRUE, todo |-> IF m.answer THEN @.todo ELSE @.todo \cup {m.id}]]

Microtask(t) ==
  /\ t \in alive /\ micro[t] # <<>>
  /\ LET m == Head(micro[t]) IN
     \/ m.answer /\ endpoint' = Delivered(t, m.id) /\ UNCHANGED served
     \/ ~m.answer /\ served' = ServedWith(t, m) /\ UNCHANGED endpoint
  /\ micro' = [micro EXCEPT ![t] = Tail(@)]
  /\ UNCHANGED bridgeVars

\* The host answers on the port it serves for f.
AnswerPort(t, f) ==
  /\ t \in alive
  /\ \E id \in served[t][f].todo :
       LET m == PortMessage(t, f, id, TRUE) IN
       /\ served' = [served EXCEPT ![t][f].todo = @ \ {id}]
       /\ micro' = IF f = t THEN [micro EXCEPT ![t] = Append(@, m)] ELSE micro
       /\ inbox' = IF f = t THEN inbox ELSE Post(inbox, t, <<m>>)
  /\ UNCHANGED <<alive, host, leader, info, closed, calls, work, terms, churn, executed, endpoint>>

-----------------------------------------------------------------------------
(* The bridge's own steps, with their ports.                                *)

PortsLead(t) == Lead(t) /\ FollowLeader(t) /\ UNCHANGED served
PortsGiveUp(t) == GiveUp(t) /\ FollowLeader(t) /\ StopServing(t)
PortsGoAway(t) == GoAway(t) /\ FollowLeader(t) /\ StopServing(t)
PortsAsk(t) == Ask(t) /\ UNCHANGED portVars

\* close() closes every endpoint, after it has left.
PortsShut(t) ==
  /\ Shut(t) /\ StopServing(t)
  /\ LET e == EndpointUnder(endpoint[t], leader[t], Nobody) IN
     endpoint' = [endpoint EXCEPT ![t] = [e EXCEPT !.st = IF e.st = "none" THEN e.st ELSE "closed",
                                                   !.told = IF e.st = "open" THEN Tabs ELSE e.told]]
  /\ UNCHANGED micro

PortsVanish(t) ==
  /\ Vanish(t) /\ StopServing(t)
  /\ endpoint' = [endpoint EXCEPT ![t] = Unopened]
  /\ micro' = [micro EXCEPT ![t] = <<>>]

\* #receive.  (Bug: a bye ends the leader's term, but not the tab's ports.)
ReceiveByeServing(t, n) == ReceiveBye(t, n) /\ FollowLeader(t) /\ UNCHANGED served

PortsReceiveBye(t, n) ==
  /\ ReceiveBye(t, n) /\ FollowLeader(t)
  /\ served' = [served EXCEPT ![t][inbox[t][n].from] = Free]

PortsReceiveLeader(t, n) ==
  /\ ReceiveLeader(t, n, Flush(t, inbox[t][n].from))
  /\ FollowLeader(t) /\ UNCHANGED served

\* A host takes every message of a port for a request, even the answer that a
\* leader before it sent to this tab.
ReceivePort(t, n) ==
  /\ Reads(t, n, "port")
  /\ LET m == inbox[t][n] IN
     /\ served' = ServedWith(t, m)
     /\ endpoint' = IF host[t] = 0 /\ leader[t] = m.from /\ m.answer THEN Delivered(t, m.id) ELSE endpoint
  /\ TakeAndPost(t, n, <<>>)
  /\ KeepLeader /\ UNCHANGED <<alive, closed, terms, churn, micro>>

ReceivePortClose(t, n) ==
  /\ Reads(t, n, "port-close")
  /\ served' = [served EXCEPT ![t][inbox[t][n].from] = Free]
  /\ TakeAndPost(t, n, <<>>)
  /\ KeepLeader /\ UNCHANGED <<alive, closed, terms, churn, endpoint, micro>>

\* A message of the channel waits for the microtasks.
PortsReceive(t, n) ==
  /\ micro[t] = <<>>
  /\ \/ ReceiveHello(t, n) /\ UNCHANGED portVars
     \/ PortsReceiveLeader(t, n) \/ PortsReceiveBye(t, n)
     \/ ReceivePort(t, n) \/ ReceivePortClose(t, n)

PortsNext ==
  \E t \in Tabs :
    \/ PortsLead(t) \/ PortsGiveUp(t) \/ PortsAsk(t) \/ PortsGoAway(t) \/ PortsShut(t) \/ PortsVanish(t)
    \/ Connect(t) \/ PostMessage(t) \/ ClosePort(t) \/ Microtask(t)
    \/ \E f \in Tabs : AnswerPort(t, f)
    \/ \E n \in 1..Len(inbox[t]) : PortsReceive(t, n)

PortsSpec == PortsInit /\ [][PortsNext]_<<bridgeVars, portVars>>

-----------------------------------------------------------------------------
PortsTypeOK ==
  /\ endpoint \in [Tabs -> [st : {"none", "open", "closed"}, next : 1..(MaxPosts + 1), queued : Seq(Posts), inFlight : SUBSET Posts, told : SUBSET Tabs]]
  /\ served \in [Tabs -> [Tabs -> [open : BOOLEAN, todo : SUBSET Posts]]]
  /\ DOMAIN micro = Tabs /\ \A t \in Tabs : micro[t] \in Seq([k : {"port"}, from : {t}, to : {t}, id : Posts, answer : BOOLEAN])

\* The tab has told t that its port is gone, and t will hear it.
EndsAt(t, f) == \E n \in DOMAIN inbox[t] : inbox[t][n].from = f /\ inbox[t][n].k \in {"bye", "port-close"}

\* No port is stranded at either end: a message waits only while its tab knows
\* no leader, a request is out only while it knows one, and no host serves the
\* port of a tab that told it that the port is gone, but for the message that
\* says so (68-70, "a served port: the tab's port closed, that tab left, or this
\* tab stopped leading").  Two cases are not covered, and the port is served until
\* the host stops or the tab leaves: a tab that closes its port while it knows no
\* leader tells nobody, although a leader may have read a late message of it; and
\* the leader's own tab, where a message posted just before close() reaches the
\* host in a microtask.
NoStrandedPort ==
  \A t \in Tabs :
    /\ endpoint[t].st = "open" =>
         /\ endpoint[t].queued # <<>> => (leader[t] = Nobody /\ Listens(t))
         /\ endpoint[t].inFlight # {} => (leader[t] # Nobody /\ Listens(t))
    /\ \A f \in Tabs \ {t} :
         served[t][f].open =>
           /\ host[t] # 0
           /\ \/ endpoint[f].st = "open" \/ (endpoint[f].st = "closed" /\ t \notin endpoint[f].told)
              \/ EndsAt(t, f) \/ f \notin alive

-----------------------------------------------------------------------------
(* What this rests on.                                                     *)

\* With ports, the channel carries their messages too, and nobody makes calls.
Envelope ==
  Message \cup [k : {"port"}, from : Tabs, to : Tabs, id : Posts, answer : BOOLEAN]
          \cup [k : {"port-close"}, from : Tabs, to : Tabs]

ChannelTypeOK ==
  /\ alive \subseteq Tabs
  /\ host \in [Tabs -> 0..MaxTerms] /\ info \in [Tabs -> 0..MaxTerms] /\ terms \in 0..MaxTerms
  /\ leader \in [Tabs -> Tabs \cup {Nobody}]
  /\ closed \in [Tabs -> BOOLEAN]
  /\ inbox \in [Tabs -> Seq(Envelope)]
  /\ calls = [t \in Tabs |-> [id \in Calls |-> Idle]]

\* One tab hosts at a time, and only a host serves ports.
OneHostServes ==
  /\ \A t, u \in Tabs : host[t] # 0 /\ host[u] # 0 => t = u
  /\ \A t, f \in Tabs :
       /\ served[t][f].open => host[t] # 0
       /\ ~served[t][f].open => served[t][f].todo = {}

Waitless(e) == e.queued = <<>> /\ e.inFlight = {} /\ e.told = {}

\* An open endpoint is that of a tab that listens; what is not opened has
\* nothing that waits.
OpenListens ==
  \A t \in Tabs :
    /\ endpoint[t].st = "open" => Listens(t)
    /\ endpoint[t].st = "none" => Waitless(endpoint[t])

\* f has a port that it has not told t the end of, or is gone without a word.
HasPort(f, t) ==
  endpoint[f].st = "open" \/ (endpoint[f].st = "closed" /\ t \notin endpoint[f].told) \/ f \notin alive

\* Behind message n of t's inbox, its sender says one of `kinds'.
SaysBehind(t, n, kinds) ==
  \E k \in (n + 1)..Len(inbox[t]) : inbox[t][k].from = inbox[t][n].from /\ inbox[t][k].k \in kinds

\* A request is of a port that is there, an answer of a host that serves, or
\* their sender says behind them that it is over.
MessagesEndWithPort ==
  \A t \in Tabs : \A n \in DOMAIN inbox[t] :
    LET m == inbox[t][n] IN
    m.k = "port" =>
      IF m.answer THEN host[m.from] # 0 \/ m.from \notin alive \/ SaysBehind(t, n, {"bye"})
      ELSE HasPort(m.from, t) \/ SaysBehind(t, n, {"bye", "port-close"})

PortsInv ==
  /\ HostLeads /\ OneHostServes /\ OpenListens /\ MessagesEndWithPort /\ NoStrandedPort
=============================================================================
