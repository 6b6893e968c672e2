----------------------------- MODULE BatchReads -----------------------------
(***************************************************************************)
(* getMany: how each adapter reads several keys.  A batch says             *)
(*   how      "pool": workers that take the next key when done with one;   *)
(*            "chunks": rounds of parallel reads; "all": every key at      *)
(*            once; "each": one after the other; "one": one request;       *)
(*   stops    whether a failure aborts the reads under way, and the call   *)
(*            waits for them before it fails;                              *)
(*   sized    whether the sizes of all answers together are bounded;       *)
(*   order    a request for all is answered by items told apart by their   *)
(*            "identity", taken by "position" and "checked", or trusted;   *)
(*   partial  what an answer that leaves out a key means: an error, or     *)
(*            that there is no such record ("absent").                     *)
(* Unlike the adapters', a service that omits what it does not have never  *)
(* leaves out what it has: that is the service's contract.                 *)
(***************************************************************************)
EXTENDS Integers, Sequences, FiniteSets
CONSTANTS
  Asked,      \* the lists of keys that are asked for: positive numbers
  Width,      \* reads at a time of a pool or a round: maxParallelReads
  MaxTotal    \* records an answer may hold in all: maxGetManyBytes
ASSUME BatchAssumption == Asked \subseteq Seq(Nat \ {0}) /\ Width \in Nat \ {0} /\ MaxTotal \in Nat

Single(how) == [how |-> how, stops |-> FALSE, sized |-> FALSE, order |-> "own", partial |-> "error"]
AtOnce == Single("all")
Blind == Single("pool")
Guarded == [Blind EXCEPT !.stops = TRUE, !.sized = TRUE]
OneRequest(order, partial) == [Single("one") EXCEPT !.order = order, !.partial = partial]

AppwriteBatch == Blind
PocketBaseBatch == Blind
AzureTableBatch == Blind
CouchDbBatch == Blind
PostgrestBatch == Blind
DroppedSibling == [Guarded EXCEPT !.stops = FALSE]
NativeCouchDbBatch == Guarded
LibSQLBatch == Guarded
NativeLibSQLBatch == Guarded
CosmosBatch == Single("chunks")
CouchbaseBatch == Single("chunks")
(* An answer with UnprocessedKeys read as if they did not exist.            *)
DynamoIgnoresUnprocessed == OneRequest("identity", "missing")
DynamoBatch == OneRequest("identity", "error")
DatastoreBatch == OneRequest("identity", "error")
BigQueryBatch == OneRequest("identity", "absent")
QdrantBatch == OneRequest("identity", "absent")
PineconeBatch == OneRequest("identity", "absent")
TypesenseBatch == [OneRequest("identity", "absent") EXCEPT !.sized = TRUE]
ElasticsearchBatch == OneRequest("trusted", "error")
OpenSearchBatch == OneRequest("checked", "error")
AlgoliaBatch == OneRequest("checked", "error")
SolrBatch == AtOnce
KustoBatch == AtOnce
Neo4jBatch == AtOnce
Neo4jTransactionBatch == Single("each")
NeptuneBatch == AtOnce
SpannerBatch == AtOnce
ClickHouseBatch == AtOnce
InfluxBatch == AtOnce
D1Batch == AtOnce
D1HttpBatch == AtOnce
RedshiftBatch == AtOnce
RdsDataBatch == AtOnce
TimestreamBatch == AtOnce
DatabricksBatch == AtOnce
OvdbBatch == AtOnce
OvdbTransactionBatch == AtOnce
FirestoreBatch == AtOnce
FirestoreTransactionBatch == Single("each")
SnowflakeBatch == Single("each")
RealtimeBatch == Single("each")
SqliteBatch == Single("each")
IndexedDbBatch == AtOnce
IndexedDbTransactionBatch == Single("each")

Batches == {AppwriteBatch, PocketBaseBatch, AzureTableBatch, CouchDbBatch, PostgrestBatch, NativeCouchDbBatch,
  LibSQLBatch, NativeLibSQLBatch, CosmosBatch, CouchbaseBatch, DynamoBatch, DatastoreBatch, BigQueryBatch, QdrantBatch,
  PineconeBatch, TypesenseBatch, ElasticsearchBatch, OpenSearchBatch, AlgoliaBatch, SolrBatch, KustoBatch, Neo4jBatch,
  Neo4jTransactionBatch, NeptuneBatch, SpannerBatch, ClickHouseBatch, InfluxBatch, D1Batch, D1HttpBatch, RedshiftBatch,
  RdsDataBatch, TimestreamBatch, DatabricksBatch, OvdbBatch, OvdbTransactionBatch, FirestoreBatch,
  FirestoreTransactionBatch, SnowflakeBatch, RealtimeBatch, SqliteBatch, IndexedDbBatch, IndexedDbTransactionBatch}

-----------------------------------------------------------------------------
VARIABLES
  batch, asked, there,    \* the adapter's way, the keys asked for, those that have a record
  next, workers, flight,  \* the next position to read, live workers, positions being read
  given,                  \* per position, what the call holds for it
  failure, batchEnd       \* the first failure was kept; how the call settled
batchVars == <<batch, asked, there, next, workers, flight, given, failure, batchEnd>>

Positions == 1..Len(asked)
Nothing == -1
Missing == 0
Truth(i) == IF asked[i] \in there THEN asked[i] ELSE Missing
Lanes == CASE batch.how \in {"pool", "chunks"} -> Width
           [] batch.how = "each" -> 1
           [] OTHER -> Len(asked)
InRound(i) == batch.how = "chunks" => (i - 1) \div Width = (next - 1) \div Width

BatchInit ==
  /\ batch \in Batches /\ asked \in Asked /\ there \in SUBSET {asked[i] : i \in Positions}
  /\ next = 1 /\ workers = Lanes /\ flight = {} /\ given = [i \in Positions |-> Nothing]
  /\ failure = FALSE /\ batchEnd = "open"
BatchTypeOK ==
  /\ batch \in Batches /\ next \in 1..(Len(asked) + 1) /\ workers \in 0..Lanes /\ Cardinality(flight) <= workers
  /\ flight \subseteq 1..(next - 1) /\ batchEnd \in {"open", "ok", "failed"}
  /\ batchEnd = "ok" => \A i \in Positions : given[i] # Nothing

(* A worker takes the next key.  A pool that does not stop goes on after    *)
(* the call failed; rounds and sequences do not.                            *)
StartRead ==
  /\ batch.how # "one" /\ next <= Len(asked) /\ Cardinality(flight) < workers
  /\ batch.how # "pool" => batchEnd = "open"
  /\ batch.stops => ~failure
  /\ batch.how = "chunks" => \A i \in flight : InRound(i)
  /\ flight' = flight \cup {next} /\ next' = next + 1
  /\ UNCHANGED <<batch, asked, there, workers, given, failure, batchEnd>>

Total == Cardinality({i \in Positions : given[i] > Missing})
Oversized(i) == batch.sized /\ given[i] = Nothing /\ Truth(i) # Missing /\ Total >= MaxTotal
Fails == failure' = TRUE /\ UNCHANGED given
Settles(f, ended) ==
  batchEnd' = IF batchEnd # "open" THEN batchEnd
              ELSE CASE f /\ (batch.stops => ended) -> "failed"
                     [] ~f /\ ended -> "ok"
                     [] OTHER -> "open"

(* An answer for one key.  An abort of the batch, or a sibling's failure,   *)
(* drops it.                                                                *)
ReadAnswered(i) ==
  /\ batch.how # "one" /\ i \in flight /\ flight' = flight \ {i}
  /\ IF batch.stops /\ failure THEN UNCHANGED <<given, failure>>
     ELSE IF Oversized(i) THEN Fails
     ELSE given' = [given EXCEPT ![i] = Truth(i)] /\ UNCHANGED failure
  /\ workers' = IF failure' /\ batch.stops THEN workers - 1 ELSE workers
  /\ Settles(failure', flight' = {} /\ (next > Len(asked) \/ failure'))
  /\ UNCHANGED <<batch, asked, there, next>>
ReadFails(i) ==
  /\ batch.how # "one" /\ i \in flight /\ flight' = flight \ {i}
  /\ Fails /\ workers' = workers - 1 /\ Settles(TRUE, flight' = {})
  /\ UNCHANGED <<batch, asked, there, next>>

(* One request for all.  The service's answer lists what it has, or one     *)
(* item per key in the order of the keys, unless it breaks that order or    *)
(* says it left keys out.                                                   *)
AskForAll ==
  /\ batch.how = "one" /\ next = 1 /\ next' = Len(asked) + 1 /\ flight' = {1}
  /\ UNCHANGED <<batch, asked, there, workers, given, failure, batchEnd>>
Orders == [Positions -> Positions]
Arrangements == {p \in Orders : \A i, j \in Positions : p[i] = p[j] => i = j}
Listed(p, left) ==      \* what the adapter makes of the answer at each position
  [i \in Positions |->
     IF asked[i] \in left THEN IF batch.partial = "error" THEN Nothing ELSE Missing
     ELSE CASE batch.order = "checked" -> IF asked[p[i]] = asked[i] THEN Truth(i) ELSE Nothing
            [] batch.order = "trusted" -> Truth(p[i])
            [] OTHER -> Truth(i)]
AllAnswered ==
  /\ batch.how = "one" /\ flight = {1} /\ flight' = {}
  /\ \E p \in Arrangements, left \in SUBSET there :
       /\ batch.order \in {"identity", "trusted"} => \A i \in Positions : p[i] = i
       /\ batch.partial = "absent" => left = {}
       /\ LET list == Listed(p, left)
              held == Cardinality({asked[i] : i \in {j \in Positions : list[j] > Missing}})
          IN IF (\E i \in Positions : list[i] = Nothing) \/ (batch.sized /\ held > MaxTotal)
             THEN Fails ELSE given' = list /\ UNCHANGED failure
  /\ Settles(failure', TRUE) /\ UNCHANGED <<batch, asked, there, next, workers>>
AllFails ==
  /\ batch.how = "one" /\ flight = {1} /\ flight' = {} /\ Fails /\ Settles(TRUE, TRUE)
  /\ UNCHANGED <<batch, asked, there, next, workers>>

BatchNext ==
  \/ StartRead \/ AskForAll \/ AllAnswered \/ AllFails
  \/ \E i \in flight : ReadAnswered(i) \/ ReadFails(i)
BatchSpec == BatchInit /\ [][BatchNext]_batchVars

-----------------------------------------------------------------------------
(* A batch that succeeds holds, at every position, the record of the key    *)
(* asked for there or its absence, whatever the order the answers came in.  *)
BatchIsExact == batchEnd = "ok" => \A i \in Positions : given[i] = Truth(i)

(* A batch that stops its siblings has none under way once it has settled,  *)
(* and starts none after the first failure.                                 *)
NoReadOutlivesItsBatch ==
  (batch \in {NativeCouchDbBatch, LibSQLBatch, NativeLibSQLBatch} /\ batchEnd # "open") => flight = {}

(* What the two rest on: the call holds nothing wrong at any position, what *)
(* was read without a failure is held, and a call settles once.             *)
HeldIsTrue == given \in [Positions -> Nat \cup {Nothing}] /\ \A i \in Positions : given[i] \in {Nothing, Truth(i)}
ReadIsHeld ==
  (batch.how # "one" /\ ~failure) => \A i \in 1..(next - 1) \ flight : given[i] # Nothing
SettledOnce ==
  /\ batch.how # "one" =>
       /\ flight \subseteq 1..(next - 1)
       /\ batchEnd = "ok" => flight = {} /\ next > Len(asked)
       /\ (batch.stops /\ batchEnd = "failed") => failure /\ flight = {}
  /\ (batch.how = "one" /\ Len(asked) > 0) =>
       /\ next = 1 => batchEnd = "open" /\ flight = {}
       /\ batchEnd # "open" => flight = {}
BatchInv ==
  /\ batch \in Batches /\ asked \in Asked /\ there \subseteq Nat /\ next \in 1..(Len(asked) + 1)
  /\ batchEnd \in {"open", "ok", "failed"} /\ failure \in BOOLEAN
  /\ HeldIsTrue /\ ReadIsHeld /\ SettledOnce /\ BatchIsExact
=============================================================================
