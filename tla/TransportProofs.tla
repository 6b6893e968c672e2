-------------------------- MODULE TransportProofs --------------------------
(***************************************************************************)
(* Proofs about one HTTP call of each of 30 adapters, with bodies of any   *)
(* length, about getMany of 42 ways to read several keys, for any lists of *)
(* keys and any width, and about the results of statements polled at       *)
(* warehouses, for any number of chunks.                                   *)
(***************************************************************************)
EXTENDS HttpCall, BatchReads, PolledStatement, TLAPS

-----------------------------------------------------------------------------
(* The traits of the adapters that the proofs rest on. *)

Readers == [raced : SUBSET {"body", "cancel"}, declared : {"drop", "await", "leave", "any"},
            over : {"drop", "await", "any"}, aborted : {"drop", "await", "leave"}]

\* Every adapter treats a body in one of the ways HttpAdapters lists, so that
\* what an abort does to it is always known.
LEMMA ReadersAreKnown == Adapters = DOMAIN Reader /\ \A a \in Adapters : Reader[a] \in Readers
<1>1. /\ RacedReads \in Readers /\ RacedStage \in Readers
      /\ WholeText \in Readers /\ Awaiting \in Readers
  BY DEF Readers, RacedReads, RacedStage, WholeText, Awaiting
<1>2. /\ QdrantBody \in Readers /\ NeptuneBody \in Readers /\ CosmosBody \in Readers
      /\ SolrBody \in Readers /\ ClickHouseBody \in Readers /\ InfluxBody \in Readers
      /\ ElasticsearchBody \in Readers /\ TimestreamBody \in Readers /\ OvdbBody \in Readers
  BY <1>1 DEF Readers, QdrantBody, NeptuneBody, CosmosBody, SolrBody, ClickHouseBody,
              InfluxBody, ElasticsearchBody, TimestreamBody, OvdbBody
<1>3. Adapters = DOMAIN Reader
  BY DEF Adapters, Request, Reader
<1>4. \A a \in DOMAIN Reader :
        Reader[a] \in {RacedReads, RacedStage, WholeText, Awaiting, QdrantBody, NeptuneBody,
                       CosmosBody, SolrBody, ClickHouseBody, InfluxBody, ElasticsearchBody,
                       TimestreamBody, OvdbBody}
  BY DEF Reader, AppwriteBody, PocketBaseBody, AzureTableBody, DatastoreBody, KustoBody,
         AlgoliaBody, PineconeBody, OpenSearchBody, CouchbaseBody, LibSQLBody, CouchDbBody,
         TypesenseBody, PostgrestBody, NativeBody, EcbBody, D1Body, SpannerBody, Neo4jBody,
         BigQueryBody, DatabricksBody, SnowflakeBody
<1>5. QED
  BY <1>1, <1>2, <1>3, <1>4

\* A bounded adapter races its provider, its fetch and its reads, and every
\* cancel() it awaits; none of them awaits one once its race is lost.
LEMMA BoundedTraits ==
  \A a \in Bounded :
    /\ a \in Adapters /\ Request[a].raced = {"headers", "fetch"}
    /\ Request[a].refused # "await" /\ Request[a].write # "await"
    /\ "body" \in Reader[a].raced /\ Reader[a].aborted # "await"
    /\ "await" \in {Reader[a].declared, Reader[a].over} => "cancel" \in Reader[a].raced
<1> DEFINE Requesting(r) == /\ r.raced = {"headers", "fetch"} /\ r.refused # "await" /\ r.write # "await"
           Reading(b) == /\ "body" \in b.raced /\ b.aborted # "await"
                         /\ "await" \in {b.declared, b.over} => "cancel" \in b.raced
<1>1. /\ Requesting(Raced) /\ Requesting(JudgedLast) /\ Requesting(Scoped)
      /\ Requesting(AppwriteRequest) /\ Requesting(PocketBaseRequest)
      /\ Requesting(CouchDbRequest) /\ Requesting(TypesenseRequest) /\ Requesting(EcbRequest)
      /\ Requesting(D1Request) /\ Requesting(DatabricksRequest) /\ Requesting(SnowflakeRequest)
  BY DEF Raced, JudgedLast, Scoped, AppwriteRequest, PocketBaseRequest, CouchDbRequest,
         TypesenseRequest, EcbRequest, D1Request, DatabricksRequest, SnowflakeRequest
<1>2. Reading(RacedReads) /\ Reading(RacedStage) /\ Reading(WholeText) /\ Reading(QdrantBody)
  BY DEF RacedReads, RacedStage, WholeText, QdrantBody
<1>3. \A a \in Bounded :
        Request[a] \in {Raced, JudgedLast, Scoped, AppwriteRequest, PocketBaseRequest,
                        CouchDbRequest, TypesenseRequest, EcbRequest, D1Request,
                        DatabricksRequest, SnowflakeRequest}
  BY DEF Bounded, Contract, Request, AzureTableRequest, DatastoreRequest, KustoRequest,
         AlgoliaRequest, QdrantRequest, PineconeRequest, LibSQLRequest, PostgrestRequest,
         NativeQuery, SpannerRequest, BigQueryRequest
<1>4. \A a \in Bounded : Reader[a] \in {RacedReads, RacedStage, WholeText, QdrantBody}
  BY DEF Bounded, Contract, Reader, AppwriteBody, PocketBaseBody, AzureTableBody,
         DatastoreBody, KustoBody, AlgoliaBody, PineconeBody, LibSQLBody, CouchDbBody,
         TypesenseBody, PostgrestBody, NativeBody, EcbBody, D1Body, SpannerBody,
         BigQueryBody, DatabricksBody, SnowflakeBody
<1>5. Bounded \subseteq Adapters
  BY DEF Bounded, Contract, Adapters, Request
<1>6. QED
  <2> SUFFICES ASSUME NEW a \in Bounded
               PROVE  a \in Adapters /\ Requesting(Request[a]) /\ Reading(Reader[a])
    OBVIOUS
  <2>1. Requesting(Request[a])
    <3> HIDE DEF Requesting
    <3> QED  BY <1>1, <1>3
  <2>2. Reading(Reader[a])
    <3> HIDE DEF Reading
    <3> QED  BY <1>2, <1>4
  <2>3. QED
    BY <1>5, <2>1, <2>2

\* Under the contract of adapter-runtime a body that is not decoded is dropped,
\* and so is the body of a response that comes after the abort.
LEMMA ContractTraits ==
  \A a \in Contract :
    /\ a \in Bounded /\ Request[a].refused \in {"drop", "last"} /\ Request[a].write = "read"
    /\ Request[a].late = "drop" /\ Reader[a] = RacedReads
<1> DEFINE Keeps(r) == r.refused \in {"drop", "last"} /\ r.write = "read" /\ r.late = "drop"
<1>1. Keeps(Scoped) /\ Keeps(CouchDbRequest) /\ Keeps(TypesenseRequest) /\ Keeps(EcbRequest)
  BY DEF Scoped, Raced, CouchDbRequest, TypesenseRequest, EcbRequest
<1>2. \A a \in Contract :
        Request[a] \in {Scoped, CouchDbRequest, TypesenseRequest, EcbRequest}
  BY DEF Contract, Request, LibSQLRequest, PostgrestRequest, NativeQuery
<1>3. \A a \in Contract : Reader[a] = RacedReads
  BY DEF Contract, Reader, LibSQLBody, CouchDbBody, TypesenseBody, PostgrestBody,
         NativeBody, EcbBody
<1>4. \A a \in Contract : Keeps(Request[a])
  <2> HIDE DEF Keeps
  <2> QED  BY <1>1, <1>2
<1>5. QED
  BY <1>3, <1>4 DEF Bounded

-----------------------------------------------------------------------------
(* One call. *)

\* The fields of a call stay of their kinds in every step of every adapter:
\* among others, a call has an outcome from the moment it no longer waits for
\* its server, and a body from the moment a response came.
LEMMA CallTypePreserved ==
  CallTypeOK /\ ExchangeKeepsStep /\ [CallNext]_callVars => CallTypeOK'
<1> SUFFICES ASSUME CallTypeOK, ExchangeKeepsStep, [CallNext]_callVars
             PROVE  CallTypeOK'
  OBVIOUS
<1> USE MaxBodyAssumption
    DEF CallTypeOK, ExchangeKeepsStep, Answers, IsAborted, Ended, End, IfWaiting
<1>1. CASE Begin
  BY <1>1 DEF Begin, Send
<1>2. CASE HeadersGiven
  BY <1>2 DEF HeadersGiven, Send
<1>3. CASE HeadersFail
  BY <1>3 DEF HeadersFail
<1>4. ASSUME NEW why \in {"deadline", "caller"}, Abort(why) PROVE CallTypeOK'
  <2>1. B.aborted \in {"drop", "await", "leave"}
    BY ReadersAreKnown DEF Readers, B
  <2>2. CASE at \in Awaits /\ at # "body"
    BY <1>4, <2>2 DEF Abort, Abandoned
  <2>3. CASE at \in Awaits /\ at = "body"
    BY <1>4, <2>1, <2>3, ZenonT(60) DEF Abort, Abandoned
  <2>4. CASE at \notin Awaits
    BY <1>4, <2>4 DEF Abort
  <2>5. QED
    BY <2>2, <2>3, <2>4
<1>5. CASE FetchFails \/ FetchAborted \/ StreamAborted
  BY <1>5 DEF FetchFails, FetchAborted, StreamAborted
<1>6. CASE Answer
  BY <1>6 DEF Answer, Respond, LateResponse, Dispose
<1>7. CASE Chunk
  BY <1>7 DEF Chunk, TooLong, Overrun
<1>8. CASE Drained \/ StreamFails \/ CancelSettles
  BY <1>8 DEF Drained, StreamFails, CancelSettles
<1>9. CASE UNCHANGED callVars
  BY <1>9 DEF callVars
<1>10. QED
  BY <1>1, <1>2, <1>3, <1>4, <1>5, <1>6, <1>7, <1>8, <1>9
     DEF CallNext, Deadline, CallerAborts

\* One case per await, event and answer: the strengthened invariant is
\* inductive.  The abort is where the traits of the adapters count.
LEMMA CallInvPreserved ==
  CallTypeOK /\ CallInv /\ [CallNext]_callVars => CallInv'
<1> SUFFICES ASSUME CallTypeOK, CallInv, [CallNext]_callVars
             PROVE  CallInv'
  OBVIOUS
<1> USE DEF CallInv, ExchangeKeepsStep, TimerRunsInAwait, CancelIsRaced, OpenIsBeingRead,
            AbortIsPrompt, IsAborted, Ended, End, IfWaiting
<1>1. /\ adapter' = adapter /\ B' = B
  BY DEF CallNext, callVars, Begin, HeadersGiven, HeadersFail, Deadline, CallerAborts, Abort,
         FetchFails, FetchAborted, StreamAborted, Answer, Chunk, Drained, StreamFails,
         CancelSettles, B
<1>2. adapter \in Bounded =>
        /\ {"headers", "fetch", "body"} \subseteq Awaits
        /\ R.refused # "await" /\ R.write # "await" /\ B.aborted # "await"
        /\ "await" \in {B.declared, B.over} => "cancel" \in B.raced
  BY BoundedTraits DEF R, B, Awaits
<1>3. adapter \in Contract =>
        /\ adapter \in Bounded /\ R.refused \in {"drop", "last"} /\ R.write = "read"
        /\ R.late = "drop" /\ B.declared = "drop" /\ B.over = "drop" /\ B.aborted = "drop"
  BY ContractTraits DEF R, B, RacedReads
<1>4. "cancel" \in B.raced => "cancel" \in Awaits
  BY DEF Awaits
<1>5. CASE Begin
  BY <1>1, <1>5 DEF Begin, Send, CallTypeOK
<1>6. CASE HeadersGiven
  BY <1>1, <1>6 DEF HeadersGiven, Send, CallTypeOK
<1>7. CASE HeadersFail
  BY <1>1, <1>7 DEF HeadersFail, CallTypeOK
<1>8. ASSUME NEW why \in {"deadline", "caller"}, Abort(why), timer = "on" \/ ~Ended
      PROVE  CallInv'
  <2>1. CASE at \in Awaits /\ at # "body"
    BY <1>1, <1>2, <1>3, <1>8, <2>1 DEF Abort, Abandoned, CallTypeOK
  <2>2. CASE at \in Awaits /\ at = "body"
    <3>1. B.aborted \in {"drop", "await", "leave"}
      BY ReadersAreKnown DEF Readers, B, CallTypeOK
    <3>2. QED
      BY <1>1, <1>2, <1>3, <1>8, <2>2, <3>1 DEF Abort, Abandoned, CallTypeOK
  <2>3. CASE at \notin Awaits
    BY <1>1, <1>2, <1>3, <1>4, <1>8, <2>3 DEF Abort, CallTypeOK
  <2>4. QED
    BY <2>1, <2>2, <2>3
<1>9. CASE FetchFails \/ FetchAborted \/ StreamAborted
  BY <1>1, <1>9 DEF FetchFails, FetchAborted, StreamAborted, CallTypeOK
<1>10. CASE Answer
  <2> PICK r \in Answers : IF at = "fetch" THEN Respond(r) ELSE LateResponse
    BY <1>10 DEF Answer
  <2>1. CASE at = "fetch"
    BY <1>1, <1>2, <1>3, <1>10, <2>1 DEF Answer, Respond, Dispose, CallTypeOK
  <2>2. CASE at # "fetch"
    BY <1>1, <1>3, <1>10, <2>2 DEF Answer, LateResponse, CallTypeOK
  <2>3. QED
    BY <2>1, <2>2
<1>11. CASE Chunk
  BY <1>1, <1>2, <1>3, <1>11 DEF Chunk, Overrun, CallTypeOK
<1>12. CASE Drained \/ StreamFails \/ CancelSettles
  BY <1>1, <1>12 DEF Drained, StreamFails, CancelSettles, CallTypeOK
<1>13. CASE UNCHANGED callVars
  BY <1>1, <1>13 DEF callVars
<1>14. QED
  BY <1>5, <1>6, <1>7, <1>8, <1>9, <1>10, <1>11, <1>12, <1>13
     DEF CallNext, Deadline, CallerAborts

\* The strengthened invariant holds of every reachable state.
THEOREM CallInvariant == CallSpec => [](CallTypeOK /\ CallInv)
<1>1. CallInit => CallTypeOK /\ CallInv
  BY MaxBodyAssumption
     DEF CallInit, CallTypeOK, CallInv, ExchangeKeepsStep, TimerRunsInAwait, CancelIsRaced,
         OpenIsBeingRead, AbortIsPrompt, IsAborted, Answers
<1>2. CallTypeOK /\ CallInv /\ [CallNext]_callVars => (CallTypeOK /\ CallInv)'
  BY CallTypePreserved, CallInvPreserved DEF CallInv
<1>3. QED
  BY <1>1, <1>2, PTL DEF CallSpec

\* A deadline or a caller's abort ends a call of a bounded adapter there and
\* then, whatever its provider, fetch, stream and cancel() do, and an aborted
\* call never hands out a result.
THEOREM CallAbortIsPrompt == CallSpec => []AbortIsPrompt
<1>1. CallInv => AbortIsPrompt
  BY DEF CallInv
<1>2. QED
  BY <1>1, CallInvariant, PTL

\* A call under the contract of adapter-runtime that has ended left no response
\* open, the one that came after its abort included.
THEOREM CallLeavesNothingOpen == CallSpec => []NothingLeftOpen
<1>1. CallInv => NothingLeftOpen
  BY DEF CallInv, OpenIsBeingRead, NothingLeftOpen, Ended
<1>2. QED
  BY <1>1, CallInvariant, PTL

-----------------------------------------------------------------------------
(* A batch of reads. *)

\* An answer that leaves out a key is an error of the batch or says that there
\* is no such record; a batch that stops its siblings reads from a pool.
LEMMA BatchTraits ==
  /\ \A b \in Batches : b.partial \in {"error", "absent"}
  /\ \A b \in {NativeCouchDbBatch, LibSQLBatch, NativeLibSQLBatch} : b.how = "pool" /\ b.stops = TRUE
<1> DEFINE Ways == {Blind, Guarded, AtOnce, Single("chunks"), Single("each"), DynamoBatch,
                    BigQueryBatch, TypesenseBatch, ElasticsearchBatch, OpenSearchBatch}
<1>1. Batches \subseteq Ways
  BY DEF Batches, AppwriteBatch, PocketBaseBatch, AzureTableBatch, CouchDbBatch, PostgrestBatch,
         NativeCouchDbBatch, LibSQLBatch, NativeLibSQLBatch, CosmosBatch, CouchbaseBatch,
         DynamoBatch, DatastoreBatch, BigQueryBatch, QdrantBatch, PineconeBatch, AlgoliaBatch,
         OpenSearchBatch, SolrBatch,
         KustoBatch, Neo4jBatch, Neo4jTransactionBatch, NeptuneBatch, SpannerBatch,
         ClickHouseBatch, InfluxBatch, D1Batch, D1HttpBatch, RedshiftBatch, RdsDataBatch,
         TimestreamBatch, DatabricksBatch, OvdbBatch, OvdbTransactionBatch, FirestoreBatch,
         FirestoreTransactionBatch, SnowflakeBatch, RealtimeBatch, SqliteBatch,
         IndexedDbBatch, IndexedDbTransactionBatch
<1>2. /\ Blind.partial = "error" /\ Guarded.partial = "error" /\ AtOnce.partial = "error"
      /\ Single("chunks").partial = "error" /\ Single("each").partial = "error"
      /\ DynamoBatch.partial = "error" /\ BigQueryBatch.partial = "absent"
      /\ TypesenseBatch.partial = "absent" /\ ElasticsearchBatch.partial = "error"
      /\ OpenSearchBatch.partial = "error"
  BY DEF Blind, Guarded, AtOnce, Single, OneRequest, DynamoBatch, BigQueryBatch,
         TypesenseBatch, ElasticsearchBatch, OpenSearchBatch
<1>3. Guarded.how = "pool" /\ Guarded.stops = TRUE
  BY DEF Guarded, Blind, Single
<1>4. QED
  BY <1>1, <1>2, <1>3 DEF NativeCouchDbBatch, LibSQLBatch, NativeLibSQLBatch

\* One case per step of a batch: what it holds stays true at every position,
\* and once it has settled no answer changes that.
LEMMA BatchInvPreserved == BatchInv /\ [BatchNext]_batchVars => BatchInv'
<1> SUFFICES ASSUME BatchInv, [BatchNext]_batchVars
             PROVE  BatchInv'
  OBVIOUS
<1> USE BatchAssumption
    DEF BatchInv, HeldIsTrue, ReadIsHeld, SettledOnce, BatchIsExact, Positions, Nothing, Missing
<1>1. /\ asked \in Seq(Nat \ {0}) /\ Len(asked) \in Nat /\ batch.partial \in {"error", "absent"}
      /\ \A i \in Positions : asked[i] \in Nat \ {0}
  BY BatchTraits
<1>2. \A i \in Positions : Truth(i) \in Nat
  BY <1>1 DEF Truth
<1>3. CASE UNCHANGED batchVars
  BY <1>3 DEF batchVars, Truth
<1>4. CASE StartRead
  <2>1. flight \subseteq 1..(next - 1) /\ next <= Len(asked)
    BY <1>4 DEF StartRead
  <2>2. flight' \subseteq 1..(next' - 1) /\ 1..(next' - 1) \ flight' = 1..(next - 1) \ flight
    BY <1>1, <1>4, <2>1 DEF StartRead
  <2>3. HeldIsTrue' /\ ReadIsHeld' /\ BatchIsExact'
    BY <1>1, <1>4, <2>2 DEF StartRead, Truth
  <2>4. SettledOnce'
    BY <1>1, <1>4, <2>1, <2>2 DEF StartRead
  <2>5. QED
    BY <1>1, <1>4, <2>1, <2>3, <2>4 DEF StartRead
<1>5. ASSUME NEW i \in flight, ReadAnswered(i) \/ ReadFails(i) PROVE BatchInv'
  <2>1. /\ batch.how # "one" /\ flight \subseteq 1..(next - 1) /\ i \in Positions
        /\ batchEnd # "ok" /\ 1..(next - 1) \subseteq Positions
    <3>1. batch.how # "one"
      BY <1>5 DEF ReadAnswered, ReadFails
    <3>2. QED
      BY <1>1, <1>5, <3>1
  <2>2. /\ UNCHANGED <<batch, asked, there, next>> /\ flight' = flight \ {i}
        /\ \/ given' = given /\ failure' \in {failure, TRUE}
           \/ given' = [given EXCEPT ![i] = Truth(i)] /\ failure' = failure
        /\ failure => failure'
        /\ ~failure' => given' = [given EXCEPT ![i] = Truth(i)]
    BY <1>5 DEF ReadAnswered, ReadFails, Fails
  <2>3. \A j \in Positions :
          given'[j] = IF j = i /\ given' # given THEN Truth(i) ELSE given[j]
    BY <2>1, <2>2
  <2>4. HeldIsTrue' /\ ReadIsHeld'
    <3>1. given' \in [Positions -> Nat \cup {Nothing}] /\ Positions' = Positions
      BY <1>1, <1>2, <2>1, <2>2
    <3>2. \A j \in Positions : Truth(j)' = Truth(j)
      BY <2>2 DEF Truth
    <3>3. HeldIsTrue'
      BY <2>1, <2>3, <3>1, <3>2
    <3>4. ReadIsHeld'
      <4> SUFFICES ASSUME ~failure', NEW j \in 1..(next - 1) \ (flight \ {i})
                   PROVE  given'[j] # Nothing
        BY <2>2
      <4>1. j \in Positions /\ ~failure
        <5>1. j \in Positions
          BY <2>1
        <5>2. ~failure
          BY <2>2
        <5>3. QED
          BY <5>1, <5>2
      <4>2. given'[i] = Truth(i)
        <5>1. given' = [given EXCEPT ![i] = Truth(i)]
          BY <2>2
        <5>2. QED
          BY <2>1, <5>1
      <4>3. CASE j = i
        BY <1>2, <4>1, <4>2, <4>3
      <4>4. CASE j # i
        BY <2>1, <2>3, <4>1, <4>4
      <4>5. QED
        BY <4>3, <4>4
    <3>5. QED
      BY <3>3, <3>4
  <2>5. /\ batchEnd' = "ok" => flight' = {} /\ next > Len(asked) /\ ~failure'
        /\ batchEnd' = "failed" /\ batch.stops /\ batchEnd = "open" => failure' /\ flight' = {}
        /\ batchEnd' \in {"open", "ok", "failed"}
    BY <1>5, <2>1 DEF ReadAnswered, ReadFails, Fails, Settles
  <2>6. batchEnd = "failed" /\ batch.stops => FALSE
    BY <2>1
  <2>7. SettledOnce'
    BY <1>1, <2>1, <2>2, <2>5, <2>6
  <2>8. BatchIsExact'
    <3> SUFFICES ASSUME batchEnd' = "ok", NEW j \in Positions
                 PROVE  given'[j] = Truth(j)
      BY <2>2 DEF Truth
    <3>1. j \in 1..(next' - 1) \ flight'
      BY <1>1, <2>2, <2>5
    <3>2. given'[j] # Nothing
      BY <2>1, <2>2, <2>4, <2>5, <3>1
    <3>3. QED
      BY <2>2, <2>4, <3>2 DEF Truth
  <2>9. QED
    BY <2>2, <2>4, <2>5, <2>7, <2>8
<1>6. CASE AskForAll
  BY <1>1, <1>6 DEF AskForAll, Truth
<1>7. CASE AllAnswered \/ AllFails
  <2>1. /\ batch.how = "one" /\ flight' = {} /\ UNCHANGED <<batch, asked, there, next>>
        /\ batchEnd' \in {"open", "ok", "failed"} /\ flight = {1}
    BY <1>7 DEF AllAnswered, AllFails, Settles
  <2>2. CASE given' = given /\ failure' = TRUE /\ Settles(TRUE, TRUE)
    <3>1. batchEnd' = IF batchEnd # "open" THEN batchEnd ELSE "failed"
      BY <2>2 DEF Settles
    <3>2. HeldIsTrue' /\ ReadIsHeld' /\ BatchIsExact'
      BY <2>1, <2>2, <3>1 DEF Truth
    <3>3. SettledOnce'
      BY <1>1, <2>1, <3>1
    <3>4. QED
      BY <2>1, <2>2, <3>2, <3>3
  <2>3. ASSUME NEW p \in Arrangements, NEW left \in SUBSET there, failure' = failure,
               batch.order \in {"identity", "trusted"} => \A i \in Positions : p[i] = i,
               batch.partial = "absent" => left = {},
               given' = Listed(p, left), \A i \in Positions : Listed(p, left)[i] # Nothing,
               Settles(failure', TRUE)
        PROVE  BatchInv'
    <3>1. \A i \in Positions : Listed(p, left)[i] = Truth(i)
      <4> SUFFICES ASSUME NEW i \in Positions
                   PROVE  Listed(p, left)[i] = Truth(i)
        OBVIOUS
      <4>1. asked[i] \notin left
        <5>1. asked[i] \in left => Listed(p, left)[i] = IF batch.partial = "error" THEN -1 ELSE 0
          BY DEF Listed
        <5>2. QED
          BY <1>1, <2>3, <5>1
      <4>2. CASE batch.order = "checked" /\ asked[p[i]] # asked[i]
        BY <2>3, <4>1, <4>2 DEF Listed
      <4>3. CASE batch.order = "trusted"
        BY <2>3, <4>1, <4>3 DEF Listed
      <4>4. CASE batch.order # "trusted" /\ ~(batch.order = "checked" /\ asked[p[i]] # asked[i])
        BY <4>1, <4>4 DEF Listed
      <4>5. QED
        BY <4>2, <4>3, <4>4
    <3>2. given' \in [Positions -> Nat \cup {Nothing}]
      BY <1>2, <2>3, <3>1 DEF Listed
    <3>3. HeldIsTrue' /\ ReadIsHeld' /\ BatchIsExact'
      BY <1>2, <2>1, <2>3, <3>1, <3>2 DEF Truth
    <3>4. SettledOnce'
      BY <1>1, <2>1
    <3>5. QED
      BY <2>1, <2>3, <3>3, <3>4
  <2>4. QED
    BY <1>7, <2>2, <2>3 DEF AllAnswered, AllFails, Fails
<1>8. QED
  BY <1>3, <1>4, <1>5, <1>6, <1>7 DEF BatchNext

\* The strengthened invariant holds of every reachable state of a batch.
THEOREM BatchInvariant == BatchSpec => []BatchInv
<1>1. BatchInit => BatchInv
  <2> SUFFICES ASSUME BatchInit
               PROVE  BatchInv
    OBVIOUS
  <2>1. asked \in Seq(Nat \ {0}) /\ Len(asked) \in Nat
    BY BatchAssumption DEF BatchInit
  <2>2. there \subseteq Nat /\ HeldIsTrue
    BY <2>1 DEF BatchInit, HeldIsTrue, Positions, Nothing
  <2>3. ReadIsHeld /\ SettledOnce /\ BatchIsExact
    BY <2>1 DEF BatchInit, ReadIsHeld, SettledOnce, BatchIsExact
  <2>4. next \in 1..(Len(asked) + 1)
    BY <2>1 DEF BatchInit
  <2>5. QED
    BY <2>2, <2>3, <2>4, Zenon DEF BatchInit, BatchInv
<1>2. QED
  BY <1>1, BatchInvPreserved, PTL DEF BatchSpec

\* getMany that succeeds returns at every position the record of its key or its
\* absence, whatever the order the answers came in and whatever they left out.
THEOREM BatchAnswersAreExact == BatchSpec => []BatchIsExact
<1>1. BatchInv => BatchIsExact
  BY DEF BatchInv
<1>2. QED
  BY <1>1, BatchInvariant, PTL

\* A batch that stops its siblings has no read under way once it has settled.
THEOREM BatchStopsItsReads == BatchSpec => []NoReadOutlivesItsBatch
<1>1. BatchInv => NoReadOutlivesItsBatch
  BY BatchTraits DEF BatchInv, SettledOnce, NoReadOutlivesItsBatch
<1>2. QED
  BY <1>1, BatchInvariant, PTL

-----------------------------------------------------------------------------
(* A polled statement. *)

\* Each client knows one way to go on, and one that follows tokens, Redshift's
\* apart, follows none twice.
LEMMA StatementTraits ==
  /\ \A s \in Statements : s.over \in {"whole", "error", "more"} /\ s.next \in {"listed", "numbered", "token"}
  /\ \A s \in Statements \ {RedshiftStatement} : s.next = "token" => ~s.repeats
<1> DEFINE Known(s) == s.over \in {"whole", "error", "more"} /\ s.next \in {"listed", "numbered", "token"}
<1>1. Known(DatabricksStatement) /\ Known(SnowflakeStatement) /\ Known(RedshiftStatement) /\ Known(BigQueryStatement)
  BY DEF DatabricksStatement, SnowflakeStatement, RedshiftStatement, BigQueryStatement, Client
<1>2. /\ DatabricksStatement.repeats = FALSE /\ SnowflakeStatement.repeats = FALSE
      /\ BigQueryStatement.repeats = FALSE
  BY DEF DatabricksStatement, SnowflakeStatement, BigQueryStatement, Client
<1>3. QED
  BY <1>1, <1>2 DEF Statements

\* A list of numbers that counts from one is the list 1, 2, ..., n.
LEMMA CountsFromOne ==
  ASSUME NEW s \in Seq(Nat), \A i \in 1..Len(s) : s[i] = i
  PROVE  s = [i \in 1..Len(s) |-> i]
OBVIOUS

(* What collecting a chunk leaves behind. *)
Collected ==
  /\ got' = Append(got, asking) /\ settled' \in {"open", "ok", "more", "failed"}
  /\ settled' = "open" <=> awaits' # "ended"
  /\ awaits' \in {"chunk", "ended"} /\ asking' \in 1..chunks /\ followed' \subseteq 2..chunks
  /\ statement # RedshiftStatement =>
       /\ settled' = "open" => asking' = asking + 1 /\ followed' = followed \cup {asking + 1}
       /\ settled' = "ok" => asking = chunks
       /\ settled' = "more" => Len(got) + 1 > MaxRows

\* Of what a service says comes next only the chunk that does come next is
\* followed by a client that checks its links, or follows none twice.
LEMMA CollectsTheNext ==
  StatementTypeOK /\ AsksForTheNext /\ settled = "open" /\ Collect => Collected
<1> SUFFICES ASSUME StatementTypeOK, AsksForTheNext, settled = "open", Collect
             PROVE  Collected
  OBVIOUS
<1> USE StatementAssumption DEF StatementTypeOK, AsksForTheNext, Collected
<1> DEFINE full == statement.over # "whole" /\ Len(got) + 1 > MaxRows
           to(says) == IF statement.next = "numbered" THEN Coming ELSE says
           wrong(says) == \/ statement.next = "listed" /\ says # Coming
                          \/ ~statement.repeats /\ to(says) \in followed
           how(says) == CASE full -> IF statement.over = "error" THEN "failed" ELSE "more"
                          [] ~full /\ wrong(says) -> "failed"
                          [] OTHER -> "ok"
<1>1. PICK says \in Says :
        /\ got' = Append(got, asking)
        /\ IF how(says) # "ok" \/ to(says) = 0
           THEN Ends(how(says)) /\ UNCHANGED <<asking, followed>>
           ELSE Goes("chunk") /\ asking' = to(says) /\ followed' = followed \cup {to(says)}
  BY DEF Collect
<1>2. how(says) \in {"ok", "more", "failed"} /\ (how(says) = "more" => full)
      /\ (how(says) = "ok" => ~wrong(says))
  OBVIOUS
<1>3. /\ Coming \in {0, asking + 1} /\ (Coming = 0 => asking = chunks) /\ Coming \in 0..chunks
  BY DEF Coming
<1>4. ~wrong(says) => to(says) \in {0} \cup 2..chunks
  BY <1>3, StatementTraits DEF Says
<1>5. statement # RedshiftStatement /\ ~wrong(says) => to(says) = Coming
  BY <1>3, StatementTraits DEF Says
<1>6. how(says) = "ok" /\ full => FALSE
  BY StatementTraits
<1> HIDE DEF to, wrong, how, full
<1>7. CASE how(says) # "ok" \/ to(says) = 0
  <2>1. awaits' = "ended" /\ settled' = how(says) /\ asking' = asking /\ followed' = followed
    BY <1>1, <1>7 DEF Ends
  <2>2. how(says) = "more" => Len(got) + 1 > MaxRows
    BY <1>2 DEF full
  <2>3. statement # RedshiftStatement /\ how(says) = "ok" => asking = chunks
    BY <1>2, <1>3, <1>5, <1>7
  <2>4. QED
    BY <1>1, <1>2, <2>1, <2>2, <2>3
<1>8. CASE how(says) = "ok" /\ to(says) # 0
  <2>1. /\ awaits' = "chunk" /\ settled' = "open"
        /\ asking' = to(says) /\ followed' = followed \cup {to(says)}
    BY <1>1, <1>8 DEF Goes
  <2>2. to(says) \in 2..chunks
    BY <1>2, <1>4, <1>8
  <2>3. statement # RedshiftStatement => to(says) = asking + 1
    BY <1>2, <1>3, <1>5, <1>8
  <2>4. asking' \in 1..chunks /\ followed' \subseteq 2..chunks
    <3>1. \A n \in 2..chunks : n \in 1..chunks
      OBVIOUS
    <3>2. followed \subseteq 2..chunks
      OBVIOUS
    <3>3. QED
      BY <2>1, <2>2, <3>1, <3>2, Zenon
  <2>5. statement # RedshiftStatement =>
          asking' = asking + 1 /\ followed' = followed \cup {asking + 1}
    BY <2>1, <2>3
  <2>6. QED
    BY <1>1, <2>1, <2>4, <2>5
<1>9. QED
  BY <1>7, <1>8

\* One case per await: a client holds the first chunks in order and asks for
\* the one after them.
LEMMA StatementInvPreserved ==
  StatementTypeOK /\ AsksForTheNext /\ ResultIsWhole /\ [StatementNext]_statementVars
    => StatementTypeOK' /\ AsksForTheNext' /\ ResultIsWhole'
<1> SUFFICES ASSUME StatementTypeOK, AsksForTheNext, ResultIsWhole, [StatementNext]_statementVars
             PROVE  StatementTypeOK' /\ AsksForTheNext' /\ ResultIsWhole'
  OBVIOUS
<1> USE StatementAssumption
<1> DEFINE Steady == /\ UNCHANGED <<statement, chunks, got, asking, followed>>
                     /\ job' \in {"unsent", "running", "succeeded", "failed"}
                     /\ polls' \in Nat /\ polls' <= MaxPolls
                     /\ awaits' \in {"start", "submit", "pause", "poll", "chunk", "ended"}
                     /\ \/ settled' = settled /\ (settled = "open" <=> awaits' # "ended")
                        \/ settled' = "failed" /\ awaits' = "ended"
           Collecting == Collect /\ settled = "open" /\ UNCHANGED <<statement, job, chunks, polls>>
<1>1. ASSUME Steady PROVE StatementTypeOK' /\ AsksForTheNext' /\ ResultIsWhole'
  BY <1>1 DEF StatementTypeOK, AsksForTheNext, ResultIsWhole
<1>2. ASSUME Collecting PROVE StatementTypeOK' /\ AsksForTheNext' /\ ResultIsWhole'
  <2> DEFINE whole == statement # RedshiftStatement
  <2>1. Collected
    BY <1>2, CollectsTheNext
  <2>2. /\ got \in Seq(1..MaxChunks) /\ asking \in 1..MaxChunks /\ chunks \in 1..MaxChunks
        /\ Len(got) \in Nat
    BY DEF StatementTypeOK
  <2>3. /\ got' \in Seq(1..MaxChunks) /\ Len(got') = Len(got) + 1 /\ got'[Len(got) + 1] = asking
        /\ \A i \in 1..Len(got) : got'[i] = got[i]
    BY <2>1, <2>2 DEF Collected
  <2>4. StatementTypeOK'
    BY <1>2, <2>1, <2>2, <2>3 DEF StatementTypeOK, Collected
  <2>5. ASSUME whole
        PROVE  /\ got' = [i \in 1..Len(got') |-> i] /\ asking = Len(got) + 1
               /\ followed = 2..asking
    <3>1. got = [i \in 1..Len(got) |-> i] /\ asking = Len(got) + 1 /\ followed = 2..asking
      BY <1>2, <2>5 DEF AsksForTheNext
    <3>2. \A i \in 1..Len(got') : got'[i] = i
      BY <2>2, <2>3, <3>1
    <3>3. got' \in Seq(Nat)
      BY <2>2, <2>3
    <3>4. QED
      BY <3>1, <3>2, <3>3, CountsFromOne
  <2>6. AsksForTheNext'
    <3>1. polls' \in Nat /\ asking' <= chunks' /\ followed' \subseteq 2..chunks'
      BY <1>2, <2>1, <2>2 DEF AsksForTheNext, Collected
    <3>2. ASSUME whole, settled' = "open"
          PROVE  asking' = Len(got') + 1 /\ followed' = 2..asking'
      <4>1. asking' = asking + 1 /\ followed' = (2..asking) \cup {asking + 1}
        BY <2>1, <2>5, <3>2 DEF Collected
      <4>2. (2..asking) \cup {asking + 1} = 2..(asking + 1)
        BY <2>2
      <4>3. QED
        BY <2>3, <2>5, <3>2, <4>1, <4>2
    <3>3. QED
      BY <1>2, <2>5, <3>1, <3>2 DEF AsksForTheNext
  <2>7. ResultIsWhole'
    BY <1>2, <2>1, <2>2, <2>3, <2>5 DEF Collected, ResultIsWhole
  <2>8. QED
    BY <2>4, <2>6, <2>7
<1>3. CASE Submit \/ JobEnds \/ StatementFails
  <2>1. Steady
    BY <1>3 DEF Submit, JobEnds, StatementFails, Goes, Ends, Kept, Served, StatementTypeOK, AsksForTheNext
  <2>2. QED
    BY <1>1, <2>1
<1>4. ASSUME settled = "open", UNCHANGED <<statement, job, chunks, polls>>, Judge \/ Unfinished
      PROVE  Steady \/ Collecting
  BY <1>4 DEF Judge, Unfinished, Goes, Ends, Kept, StatementTypeOK, AsksForTheNext
<1>5. CASE SubmitAnswered
  <2>1. CASE statement.inline
    <3>1. Steady \/ Collecting
      BY <1>4, <1>5, <2>1 DEF SubmitAnswered, Served, StatementTypeOK
    <3>2. QED
      BY <1>1, <1>2, <3>1
  <2>2. CASE ~statement.inline
    <3>1. Steady
      BY <1>5, <2>2 DEF SubmitAnswered, Served, Goes, Kept, StatementTypeOK, AsksForTheNext
    <3>2. QED
      BY <1>1, <3>1
  <2>3. QED
    BY <2>1, <2>2
<1>6. CASE Wake
  <2>1. Steady
    BY <1>6 DEF Wake, Goes, Kept, Served, StatementTypeOK, AsksForTheNext
  <2>2. QED
    BY <1>1, <2>1
<1>7. CASE PollAnswered
  <2>1. Steady \/ Collecting
    BY <1>4, <1>7 DEF PollAnswered, Served, StatementTypeOK
  <2>2. QED
    BY <1>1, <1>2, <2>1
<1>8. CASE ChunkAnswered
  <2>1. Collecting
    BY <1>8 DEF ChunkAnswered, Served, StatementTypeOK
  <2>2. QED
    BY <1>2, <2>1
<1>9. CASE UNCHANGED statementVars
  <2>1. Steady
    BY <1>9 DEF statementVars, StatementTypeOK, AsksForTheNext
  <2>2. QED
    BY <1>1, <2>1
<1>10. QED
  BY <1>3, <1>5, <1>6, <1>7, <1>8, <1>9 DEF StatementNext

\* The strengthened invariant holds of every reachable state of a statement.
THEOREM StatementInvariant ==
  StatementSpec => [](StatementTypeOK /\ AsksForTheNext /\ ResultIsWhole)
<1>1. StatementInit => StatementTypeOK /\ AsksForTheNext /\ ResultIsWhole
  BY StatementAssumption DEF StatementInit, StatementTypeOK, AsksForTheNext, ResultIsWhole
<1>2. QED
  BY <1>1, StatementInvPreserved, PTL DEF StatementSpec

\* A statement whose call succeeds is answered with all its rows, once and in
\* order, for any number of chunks and whatever links the service gives, and
\* one whose rows were cut short says so.
THEOREM StatementResultIsWhole == StatementSpec => []ResultIsWhole
BY StatementInvariant, PTL
=============================================================================
