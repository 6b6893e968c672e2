-------------------------- MODULE PolledStatement ---------------------------
(***************************************************************************)
(* A statement that runs at a warehouse: it is submitted, polled until it  *)
(* has ended, and its result is collected in chunks, all under one         *)
(* deadline.  A client says                                                *)
(*   inline   whether the answer that ends the statement holds its first   *)
(*            chunk, or the result is asked for apart;                     *)
(*   counted  whether its polls are counted, or only the deadline ends     *)
(*            them; busy: an answer 429 to a poll is one poll more;        *)
(*   next     how it finds the chunk after: by its number in a list given  *)
(*            at the start ("numbered"), by a link that must agree with    *)
(*            such a list ("listed"), or by a "token";                     *)
(*   repeats  whether a link or token it followed before is followed again;*)
(*   over     more rows than the caller may get: an error, or the rest is  *)
(*            left to a cursor ("more"), or there is no bound ("whole").   *)
(* The service may repeat a token; its links may lead anywhere.  A chunk   *)
(* holds one row.                                                          *)
(***************************************************************************)
EXTENDS Naturals, Sequences
CONSTANTS
  MaxPolls, MaxRows,     \* maxPolls, maxRows
  MaxChunks              \* chunks a result may have
ASSUME StatementAssumption == MaxPolls \in Nat \ {0} /\ MaxRows \in Nat /\ MaxChunks \in Nat \ {0}

Client(next, over) ==
  [inline |-> TRUE, counted |-> TRUE, busy |-> FALSE, next |-> next, repeats |-> FALSE, over |-> over]
\* (Bug: a link is followed unchecked.)
DatabricksFollows == Client("unchecked", "whole")
DatabricksStatement == Client("listed", "whole")
SnowflakeStatement == [Client("numbered", "error") EXCEPT !.busy = TRUE]
RedshiftStatement == [Client("token", "error") EXCEPT !.inline = FALSE, !.repeats = TRUE]
BigQueryStatement == [Client("token", "more") EXCEPT !.counted = FALSE]
Statements == {DatabricksStatement, SnowflakeStatement, RedshiftStatement, BigQueryStatement}

VARIABLES
  statement,             \* the client
  job, chunks,           \* at the service: the statement and the chunks of its result
  awaits, polls,         \* the await the call is in; polls sent, up to MaxPolls
  got, asking, followed, \* chunks collected, the one at hand or asked for, those asked for before
  settled                \* how the call ended
statementVars == <<statement, job, chunks, awaits, polls, got, asking, followed, settled>>

StatementInit ==
  /\ statement \in Statements /\ job = "unsent" /\ chunks \in 1..MaxChunks
  /\ awaits = "start" /\ polls = 0 /\ got = <<>> /\ asking = 1 /\ followed = {} /\ settled = "open"
StatementTypeOK ==
  /\ statement \in Statements /\ job \in {"unsent", "running", "succeeded", "failed"} /\ chunks \in 1..MaxChunks
  /\ awaits \in {"start", "submit", "pause", "poll", "chunk", "ended"} /\ polls <= MaxPolls
  /\ got \in Seq(1..MaxChunks) /\ asking \in 1..MaxChunks /\ settled \in {"open", "ok", "more", "failed"}
  /\ settled = "open" <=> awaits # "ended"

Ends(how) == awaits' = "ended" /\ settled' = how
Goes(await) == awaits' = await /\ UNCHANGED settled
Kept == UNCHANGED <<got, asking, followed>>
Served == UNCHANGED <<statement, job, chunks>>

Submit ==
  /\ awaits = "start" /\ Goes("submit") /\ job' = "running"
  /\ Kept /\ UNCHANGED <<statement, chunks, polls>>
JobEnds ==
  /\ job = "running" /\ job' \in {"succeeded", "failed"}
  /\ Kept /\ UNCHANGED <<statement, chunks, awaits, polls, settled>>

(* A chunk is at hand, with what the service says comes after it (0: no     *)
(* more), which a client may check or ignore.                               *)
Coming == IF asking < chunks THEN asking + 1 ELSE 0
Says == {Coming} \cup followed \cup (IF statement.next = "token" THEN {} ELSE 0..chunks)
Collect == \E says \in Says :
  LET to == IF statement.next = "numbered" THEN Coming ELSE says
      full == statement.over # "whole" /\ Len(got) + 1 > MaxRows
      wrong == \/ statement.next = "listed" /\ says # Coming
               \/ ~statement.repeats /\ to \in followed
      how == CASE full -> IF statement.over = "error" THEN "failed" ELSE "more"
               [] ~full /\ wrong -> "failed"
               [] OTHER -> "ok"
  IN /\ got' = Append(got, asking)
     /\ IF how # "ok" \/ to = 0 THEN Ends(how) /\ UNCHANGED <<asking, followed>>
        ELSE Goes("chunk") /\ asking' = to /\ followed' = followed \cup {to}

Unfinished == (IF statement.counted /\ polls = MaxPolls THEN Ends("failed") ELSE Goes("pause")) /\ Kept
Judge ==
  CASE job = "succeeded" /\ statement.inline -> Collect
    [] job = "succeeded" /\ ~statement.inline -> Goes("chunk") /\ Kept
    [] job = "failed" -> Ends("failed") /\ Kept
    [] OTHER -> Unfinished
SubmitAnswered ==
  /\ awaits = "submit" /\ Served
  /\ IF statement.inline THEN Judge /\ UNCHANGED polls ELSE Goes("poll") /\ polls' = 1 /\ Kept
Wake ==
  /\ awaits = "pause" /\ Goes("poll") /\ Kept /\ Served
  /\ polls' = IF polls < MaxPolls THEN polls + 1 ELSE polls
PollAnswered == awaits = "poll" /\ Served /\ UNCHANGED polls /\ (Judge \/ (statement.busy /\ Unfinished))
ChunkAnswered == awaits = "chunk" /\ Served /\ UNCHANGED polls /\ Collect

(* The deadline, a failed request, an answer of another statement or of     *)
(* another size than announced: the call ends, the statement runs on.       *)
StatementFails == awaits \notin {"start", "ended"} /\ Ends("failed") /\ Kept /\ Served /\ UNCHANGED polls

StatementNext ==
  \/ Submit \/ JobEnds \/ SubmitAnswered \/ Wake \/ PollAnswered \/ ChunkAnswered \/ StatementFails
StatementSpec == StatementInit /\ [][StatementNext]_statementVars

-----------------------------------------------------------------------------
(* A call that succeeds holds every row of its statement once and in order, *)
(* whatever links it was given, and one that left rows out says so.  Not so *)
(* Redshift's, which trusts its tokens.                                     *)
ResultIsWhole == statement # RedshiftStatement =>
  /\ settled = "ok" => got = [i \in 1..chunks |-> i]
  /\ settled = "more" => Len(got) > MaxRows /\ got = [i \in 1..Len(got) |-> i]

(* What it rests on: while the call is open it asks for the chunk after     *)
(* those it holds, and it followed nothing else.                            *)
AsksForTheNext ==
  /\ polls \in Nat /\ asking <= chunks /\ followed \subseteq 2..chunks
  /\ statement # RedshiftStatement =>
       /\ got = [i \in 1..Len(got) |-> i]
       /\ settled = "open" => asking = Len(got) + 1 /\ followed = 2..asking
=============================================================================
