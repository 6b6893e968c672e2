------------------------------ MODULE HttpCall ------------------------------
(***************************************************************************)
(* One HTTP call of one adapter, from its first await to its end, with     *)
(* what goes on after the end: a response that was on its way, a body that *)
(* is still being read.  The provider of headers, the injected fetch and   *)
(* the stream of the body are the environment: each may fail, may never    *)
(* settle, and may be deaf to the abort signal.  Steps between two awaits  *)
(* are one action, since a timer or an abort only runs between them.       *)
(* Sizes are counted in chunks, an absent body is an empty one, and "ok"   *)
(* is a body handed to its decoder.                                        *)
(***************************************************************************)
EXTENDS HttpAdapters, Naturals
CONSTANT MaxBody            \* chunks a body may have: maxResponseBytes
ASSUME MaxBodyAssumption == MaxBody \in Nat

VARIABLES
  adapter, write, deaf,     \* the call: whose, does it ignore the body, is fetch deaf
  at,                       \* the await the call is in
  timer, aborted,           \* its deadline; the first abort, if any
  exchange, answer,         \* the request to the server and its response
  body, reader, read,       \* the stream of the body, the loop that reads it, chunks read
  outcome
callVars == <<adapter, write, deaf, at, timer, aborted, exchange, answer, body, reader, read, outcome>>

R == Request[adapter]
B == Reader[adapter]
Awaits == R.raced \cup B.raced        \* the awaits an abort ends by itself
Ended == at = "ended"
IsAborted == aborted # "no"
Answers == [ok : BOOLEAN, long : BOOLEAN]

CallTypeOK ==
  /\ adapter \in Adapters /\ write \in BOOLEAN /\ deaf \in BOOLEAN
  /\ at \in {"start", "headers", "fetch", "body", "cancel", "ended"}
  /\ timer \in {"off", "on"} /\ aborted \in {"no", "deadline", "caller"}
  /\ exchange \in {"unsent", "sent", "answered", "failed"} /\ answer \in Answers
  /\ body \in {"none", "open", "drained", "dropped", "broken"}
  /\ reader \in {"idle", "reading", "cancelling", "done"} /\ read \in 0..(MaxBody + 1)
  /\ outcome \in {"none", "ok", "refused", "toolong", "failed", "deadline", "caller"}
  /\ (outcome = "none") <=> at \notin {"cancel", "ended"}
  /\ body = "none" <=> exchange # "answered"

CallInit ==
  /\ adapter \in Adapters /\ write \in BOOLEAN /\ deaf \in BOOLEAN
  /\ at = "start" /\ timer = "off" /\ aborted = "no"
  /\ exchange = "unsent" /\ answer = [ok |-> TRUE, long |-> FALSE]
  /\ body = "none" /\ reader = "idle" /\ read = 0 /\ outcome = "none"

(* The call settles, and its finally block clears the timer. *)
End(how) == at' = "ended" /\ outcome' = how /\ timer' = "off"
IfWaiting(await, how) == IF at = await THEN End(how) ELSE UNCHANGED <<at, outcome, timer>>

Send ==
  /\ exchange' = "sent" /\ at' = "fetch"
  /\ timer' = IF R.timer \in {"headers", "fetch"} /\ ~IsAborted THEN "on" ELSE "off"
  /\ UNCHANGED outcome

(* The first step; a caller who aborted before it gets nothing done. *)
Begin ==
  /\ at = "start"
  /\ \/ IsAborted /\ End(aborted) /\ UNCHANGED exchange
     \/ ~IsAborted /\ ~R.asks /\ Send
     \/ /\ ~IsAborted /\ R.asks
        /\ at' = "headers" /\ timer' = IF R.timer = "headers" THEN "on" ELSE "off"
        /\ UNCHANGED <<exchange, outcome>>
  /\ UNCHANGED <<adapter, write, deaf, aborted, answer, body, reader, read>>

HeadersGiven ==
  /\ at = "headers" /\ Send
  /\ UNCHANGED <<adapter, write, deaf, aborted, answer, body, reader, read>>

(* The provider fails or its headers are refused, or the request is too long. *)
HeadersFail ==
  /\ at = "headers" /\ End("failed")
  /\ UNCHANGED <<adapter, write, deaf, aborted, exchange, answer, body, reader, read>>

(* What abort listeners do at once: a raced await is rejected, and the      *)
(* reader of a body is treated as its adapter does.                         *)
Abandoned(why) ==
  CASE at # "body" -> End(why) /\ UNCHANGED <<body, reader>>
    [] at = "body" /\ B.aborted = "drop" -> End(why) /\ body' = "dropped" /\ reader' = "done"
    [] at = "body" /\ B.aborted = "leave" -> End(why) /\ UNCHANGED <<body, reader>>
    [] at = "body" /\ B.aborted = "await" ->
         at' = "cancel" /\ outcome' = why /\ timer' = "off" /\ reader' = "cancelling" /\ UNCHANGED body
Abort(why) ==
  /\ aborted = "no" /\ aborted' = why
  /\ IF at \in Awaits THEN Abandoned(why)
     ELSE timer' = "off" /\ UNCHANGED <<at, outcome, body, reader>>
  /\ UNCHANGED <<adapter, write, deaf, exchange, answer, read>>
Deadline == timer = "on" /\ Abort("deadline")
CallerAborts == R.caller /\ ~Ended /\ Abort("caller")

FetchFails ==
  /\ exchange = "sent" /\ exchange' = "failed" /\ IfWaiting("fetch", "failed")
  /\ UNCHANGED <<adapter, write, deaf, aborted, answer, body, reader, read>>

(* A fetch that minds its signal rejects, and errors the stream it gave.    *)
FetchAborted ==
  /\ ~deaf /\ IsAborted /\ exchange = "sent"
  /\ exchange' = "failed" /\ IfWaiting("fetch", aborted)
  /\ UNCHANGED <<adapter, write, deaf, aborted, answer, body, reader, read>>
StreamAborted ==
  /\ ~deaf /\ IsAborted /\ body = "open" /\ reader # "cancelling"
  /\ body' = "broken" /\ reader' = "done" /\ IfWaiting("body", aborted)
  /\ UNCHANGED <<adapter, write, deaf, aborted, exchange, answer, read>>

(* The code that goes on with a response: its status, where it is judged    *)
(* first, then the declared length, then the first read.                    *)
Dispose(how, done) ==
  IF how = "await"
  THEN body' = "open" /\ reader' = "cancelling" /\ at' = "cancel" /\ outcome' = done /\ UNCHANGED timer
  ELSE /\ body' = IF how = "drop" THEN "dropped" ELSE "open"
       /\ End(done) /\ UNCHANGED reader
Respond(r) ==
  CASE ~r.ok /\ R.refused # "last" -> Dispose(R.refused, "refused")
    [] r.ok /\ write /\ R.write # "read" -> Dispose(R.write, "ok")
    [] OTHER ->
         CASE r.long /\ B.declared # "any" -> Dispose(B.declared, "toolong")
           [] ~(r.long /\ B.declared # "any") /\ IsAborted /\ "body" \in B.raced -> Dispose("drop", aborted)
           [] OTHER ->
                /\ body' = "open" /\ reader' = "reading" /\ at' = "body"
                /\ timer' = IF R.timer = "body" THEN "on" ELSE timer
                /\ UNCHANGED outcome

(* A response that nobody waits for meets only the handler kept for it.     *)
LateResponse ==
  /\ body' = IF R.late = "drop" /\ IsAborted THEN "dropped" ELSE "open"
  /\ UNCHANGED <<at, outcome, timer, reader>>
Answer ==
  /\ exchange = "sent" /\ exchange' = "answered"
  /\ \E r \in Answers : answer' = r /\ IF at = "fetch" THEN Respond(r) ELSE LateResponse
  /\ UNCHANGED <<adapter, write, deaf, aborted, read>>

(* The loop over reader.read(), which goes on after the call when the call  *)
(* lost its race around the loop and not inside it.                         *)
TooLong == read + 1 > MaxBody /\ B.over # "any"
Overrun ==
  IF B.over = "await"
  THEN /\ reader' = "cancelling" /\ UNCHANGED <<body, timer>>
       /\ IF at = "body" THEN at' = "cancel" /\ outcome' = "toolong" ELSE UNCHANGED <<at, outcome>>
  ELSE body' = "dropped" /\ reader' = "done" /\ IfWaiting("body", "toolong")
Chunk ==
  /\ reader = "reading" /\ body = "open" /\ read <= MaxBody
  /\ read' = read + 1
  /\ IF TooLong THEN Overrun ELSE UNCHANGED <<at, outcome, timer, body, reader>>
  /\ UNCHANGED <<adapter, write, deaf, aborted, exchange, answer>>
Drained ==
  /\ reader = "reading" /\ body = "open"
  /\ body' = "drained" /\ reader' = "done"
  /\ IfWaiting("body", IF answer.ok THEN "ok" ELSE "refused")
  /\ UNCHANGED <<adapter, write, deaf, aborted, exchange, answer, read>>
StreamFails ==
  /\ reader = "reading" /\ body = "open"
  /\ body' = "broken" /\ reader' = "done" /\ IfWaiting("body", "failed")
  /\ UNCHANGED <<adapter, write, deaf, aborted, exchange, answer, read>>
CancelSettles ==
  /\ reader = "cancelling" /\ reader' = "done" /\ body' = "dropped"
  /\ IfWaiting("cancel", outcome)
  /\ UNCHANGED <<adapter, write, deaf, aborted, exchange, answer, read>>

CallNext ==
  \/ Begin \/ HeadersGiven \/ HeadersFail \/ Deadline \/ CallerAborts
  \/ FetchFails \/ FetchAborted \/ StreamAborted \/ Answer
  \/ Chunk \/ Drained \/ StreamFails \/ CancelSettles

(* Fair are the runtime, which starts the call and fires its timer, and a   *)
(* fetch that minds its signal, with the streams it gives; a provider, a    *)
(* server and a deaf fetch owe nothing.                                     *)
CallSpec ==
  /\ CallInit /\ [][CallNext]_callVars
  /\ WF_callVars(Begin) /\ WF_callVars(Deadline)
  /\ WF_callVars(FetchAborted) /\ WF_callVars(StreamAborted) /\ WF_callVars(~deaf /\ CancelSettles)

-----------------------------------------------------------------------------
(* The adapters whose deadline covers each of their awaits, and, among      *)
(* them, those that share the cancellation contract of adapter-runtime.     *)
Contract == {"libsql", "couchdb", "typesense", "postgrest", "clickhouseNative", "ecb"}
Bounded == Contract \cup {"appwrite", "pocketbase", "azure", "datastore", "kusto",
                          "algolia", "qdrant", "pinecone", "d1", "spanner", "bigquery",
                          "databricks", "snowflake"}
Untimed == {"elasticsearch", "ovdb"}       \* nothing limits the wait for a response

(* A deadline or a caller's abort ends the call there and then, whatever    *)
(* the provider, the fetch, the stream or its cancel() do, and a call that  *)
(* was aborted has no result.                                               *)
AbortIsPrompt ==
  (adapter \in Bounded /\ IsAborted /\ at # "start") => (Ended /\ outcome # "ok")

(* A call under the contract leaves no response open behind it, not even    *)
(* one that came after the call had been aborted.                           *)
NothingLeftOpen == (adapter \in Contract /\ Ended) => body # "open"

(* What the two rest on: the exchange keeps step with the await, a request  *)
(* nobody waits for was aborted, a timer runs only in an await, ...         *)
ExchangeKeepsStep ==
  /\ at \in {"start", "headers"} => exchange = "unsent"
  /\ at = "fetch" => exchange = "sent"
  /\ at = "body" \/ reader # "idle" => exchange = "answered"
  /\ exchange = "sent" => at = "fetch" \/ IsAborted
TimerRunsInAwait == timer = "on" => at \notin {"start", "ended"}
(* ... a bounded call that awaits a cancel() races it, and under the        *)
(* contract an open body is one the call is reading.                        *)
CancelIsRaced == (adapter \in Bounded /\ at = "cancel") => "cancel" \in B.raced
OpenIsBeingRead == (adapter \in Contract /\ body = "open") => at = "body" /\ reader = "reading"
CallInv ==
  /\ ExchangeKeepsStep /\ TimerRunsInAwait /\ CancelIsRaced /\ OpenIsBeingRead
  /\ AbortIsPrompt

(* With a fetch that minds its signal the deadline ends every call that     *)
(* was sent, whether its awaits are raced or not.                           *)
SentCallsEnd ==
  (exchange = "sent" /\ ~deaf /\ adapter \notin Untimed) ~> Ended
=============================================================================
