---------------------------- MODULE RecordCalls -----------------------------
(***************************************************************************)
(* Writers that call insert, set, update and delete of one adapter for the *)
(* same key at the same time.  A request that was sent may be served late, *)
(* after its caller gave up, or never; the service serves one request at a *)
(* time and judges its condition then.                                     *)
(***************************************************************************)
EXTENDS RecordAdapters, Integers
CONSTANT Writers
VARIABLES
  writes,     \* the writes of the adapter: a member of Writes
  record,     \* at the service: revision (0: none), last revision given, writer of each half
  caller,     \* per writer: operation, the await it is in, revision read, what it was told
  request     \* per writer: its request, once sent, and how the service judged it
recordVars == <<writes, record, caller, request>>

Nobody == "none"
Unknown == -1
NoRecord == [rev |-> 0, last |-> 0, a |-> Nobody, b |-> Nobody]
OldRecord == [rev |-> 1, last |-> 1, a |-> "old", b |-> "old"]
Resting == [op |-> "none", at |-> "start", base |-> Unknown, told |-> "nothing"]
Requests == {"unsent", "sent", "lost", "done"} \cup {"exists", "missing", "conflict", "failed", "unsupported"}

RecordInit ==
  /\ writes \in {Writes[a] : a \in Promising} /\ record \in {NoRecord, OldRecord}
  /\ caller = [w \in Writers |-> Resting] /\ request = [w \in Writers |-> "unsent"]

RecordTypeOK ==
  /\ record.rev \in {0, record.last} /\ record.last \in Nat
  /\ record.a \in Writers \cup {Nobody, "old"} /\ (record.rev = 0 <=> record.a = Nobody)
  /\ \A w \in Writers :
       /\ caller[w].op \in WriteOps \cup {"none"} /\ request[w] \in Requests
       /\ caller[w].at \in {"start", "read", "answer", "ended"}
       /\ caller[w].told = "nothing" <=> caller[w].at # "ended"

Op(w) == writes[caller[w].op]
Told(w, what) == caller' = [caller EXCEPT ![w].at = "ended", ![w].told = what]
NowAt(w, await) == caller' = [caller EXCEPT ![w].at = await]

StartWrite(w, op) ==
  /\ caller[w].at = "start" /\ UNCHANGED <<writes, record>>
  /\ LET first == IF writes[op].reads = "no" THEN "answer" ELSE "read"
         now == IF writes[op].effect = "none" THEN [op |-> op, at |-> "ended", base |-> Unknown, told |-> "unsupported"]
                ELSE [op |-> op, at |-> first, base |-> Unknown, told |-> "nothing"]
     IN /\ caller' = [caller EXCEPT ![w] = now]
        /\ request' = [request EXCEPT ![w] = CASE now.at = "ended" -> "unsupported" [] now.at = "answer" -> "sent"
                                               [] OTHER -> "unsent"]

(* The read that gives the revision; a caller who found no record has no    *)
(* tag to write with.                                                       *)
ReadRevision(w) ==
  /\ caller[w].at = "read" /\ UNCHANGED <<writes, record>>
  /\ IF record.rev = 0 /\ Op(w).reads = "caller" THEN Told(w, "failed") /\ UNCHANGED request
     ELSE IF record.rev = 0 /\ Op(w).skips
     THEN NowAt(w, "answer") /\ request' = [request EXCEPT ![w] = "done"]
     ELSE /\ caller' = [caller EXCEPT ![w].at = "answer", ![w].base = record.rev]
          /\ request' = [request EXCEPT ![w] = "sent"]

Holds(w) ==
  CASE Op(w).when = "absent" -> record.rev = 0
    [] Op(w).when = "present" -> record.rev # 0
    [] Op(w).when = "unchanged" -> record.rev = caller[w].base
    [] OTHER -> TRUE
Stored(w, whole) ==
  [rev |-> record.last + 1, last |-> record.last + 1, a |-> w, b |-> IF whole THEN w ELSE record.b]
Applied(w) ==
  CASE Op(w).effect \in {"create", "replace"} -> Stored(w, TRUE)
    [] Op(w).effect = "merge" -> Stored(w, FALSE)
    [] Op(w).effect = "remove" -> [NoRecord EXCEPT !.last = record.last]
Serve(w) ==
  /\ request[w] = "sent" /\ UNCHANGED <<writes, caller>>
  /\ IF Holds(w)
     THEN record' = Applied(w) /\ request' = [request EXCEPT ![w] = "done"]
     ELSE /\ UNCHANGED record
          /\ request' = [request EXCEPT ![w] = IF record.rev = 0 THEN Op(w).gone ELSE Op(w).refusal]
LoseRequest(w) ==
  /\ request[w] = "sent" /\ request' = [request EXCEPT ![w] = "lost"]
  /\ UNCHANGED <<writes, record, caller>>

Answered(w) ==
  /\ caller[w].at = "answer" /\ request[w] \notin {"unsent", "sent", "lost"}
  /\ Told(w, request[w]) /\ UNCHANGED <<writes, record, request>>
(* A deadline, a broken connection, another error status, an answer that    *)
(* does not read as one.                                                    *)
GivesUp(w) ==
  /\ caller[w].at \in {"read", "answer"} /\ Told(w, "failed") /\ UNCHANGED <<writes, record, request>>

RecordNext == \E w \in Writers :
  \/ \E op \in WriteOps : StartWrite(w, op)
  \/ ReadRevision(w) \/ Serve(w) \/ LoseRequest(w) \/ Answered(w) \/ GivesUp(w)
RecordSpec == RecordInit /\ [][RecordNext]_recordVars

-----------------------------------------------------------------------------
(* Every adapter that maps writes keeps the promise of RecordStore, for any *)
(* interleaving of writers, late requests and lost answers.                 *)
Ruled(w) == IF request[w] \in {"unsent", "sent", "lost"} THEN "no" ELSE request[w]
Store == INSTANCE RecordStore WITH stored <- record,
  writing <- [w \in Writers |-> [op |-> caller[w].op, base |-> caller[w].base,
                                 ruled |-> Ruled(w), told |-> caller[w].told]]
ImplementsRecordStore == Store!StoreSpec

(* What it rests on: a request on its way belongs to a call that has begun, *)
(* with the revision its condition needs.                                   *)
RecordInv ==
  /\ writes \in {Writes[a] : a \in Promising} /\ record.rev \in Nat /\ record.last \in Nat
  /\ caller \in [Writers -> [op : WriteOps \cup {"none"}, at : {"start", "read", "answer", "ended"},
                            base : Nat \cup {Unknown}, told : Requests \cup {"nothing"}]]
  /\ request \in [Writers -> Requests]
  /\ \A w \in Writers :
       /\ caller[w].told = "nothing" <=> caller[w].at # "ended"
       /\ IF caller[w].at = "start" THEN caller[w] = Resting /\ request[w] = "unsent" ELSE caller[w].op \in WriteOps
       /\ caller[w].at = "read" => request[w] = "unsent" /\ caller[w].base = Unknown
       /\ caller[w].at = "read" \/ request[w] = "sent" => Op(w).effect # "none"
       /\ request[w] = "sent" =>
            /\ Op(w).reads # "no" => caller[w].base # Unknown
            /\ Op(w).reads = "caller" => caller[w].base # 0
=============================================================================
