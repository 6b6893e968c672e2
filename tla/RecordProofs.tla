---------------------------- MODULE RecordProofs ----------------------------
(***************************************************************************)
(* What the record adapters promise.                                       *)
(*                                                                         *)
(* RecordCalls implements RecordStore, for any set of writers: what each   *)
(* of 21 adapters makes of insert, set, update and delete keeps the        *)
(* promise of a DALgo database, however late its requests are served and   *)
(* whatever its callers are told in the meantime.                          *)
(*                                                                         *)
(* QueryPages reads a query to its end, for any rows, limits, offsets and  *)
(* caps, while another client inserts or deletes one row: what each of 44  *)
(* query paths makes of a page and of its cursor adds up to the rows that  *)
(* were there, but for the cases that ChainIsExact names.  It speaks of a  *)
(* chain of pages, so of the paths that can go on at all.                  *)
(***************************************************************************)
EXTENDS RecordCalls, QueryPages, FiniteSetTheorems, TLAPS

-----------------------------------------------------------------------------
(* The traits of the adapters that the proof rests on. *)

(* A write either is not mapped, or is what its operation promises: the     *)
(* condition of an insert is that there is no record, ..., and whoever      *)
(* finds a revision changed says so.                                        *)
Refuses(x) == {x.refusal, x.gone} \subseteq {"conflict", "failed"}
AnyTime(x) == x.when = "any" /\ x.reads = "no"
AfterOwnRead(x) == x.when = "unchanged" /\ x.reads = "adapter" /\ Refuses(x)
Keeps(op, x) ==
  \/ x.effect = "none"
  \/ op = "insert" /\ x.effect = "create" /\ x.when = "absent" /\ x.reads = "no" /\ ~x.skips
       /\ x.refusal \in {"exists", "failed"}
  \/ op = "set" /\ x.effect = "replace" /\ ~x.skips /\ (AnyTime(x) \/ AfterOwnRead(x))
  \/ op = "update" /\ x.effect = "merge" /\ x.when = "present" /\ x.reads = "no" /\ ~x.skips /\ x.gone = "missing"
  \/ op = "delete" /\ x.effect = "remove"
       /\ (AnyTime(x) \/ AfterOwnRead(x) \/ (x.when = "present" /\ x.reads = "no" /\ x.gone = "missing"))
  \/ op \in {"setIfMatch", "updateIfMatch", "deleteIfMatch"} /\ x.when = "unchanged" /\ x.reads = "caller" /\ ~x.skips
       /\ x.effect = (IF op = "setIfMatch" THEN "replace" ELSE IF op = "updateIfMatch" THEN "merge" ELSE "remove")
       /\ x.refusal \in {"conflict", "failed"}
       /\ x.gone \in {"conflict", "failed"} \cup (IF op = "deleteIfMatch" THEN {"done"} ELSE {})

AllKeep(ops) == \A op \in WriteOps : Keeps(op, ops[op])

\* The operations of each family of adapters do what Keeps asks of them.
LEMMA FamiliesKeep == AllKeep(Full) /\ AllKeep(Whole) /\ AllKeep(Upserts)
<1> USE DEF Keeps, Refuses, AnyTime, AfterOwnRead
<1>1. /\ Keeps("insert", Creates) /\ Keeps("set", Replaces) /\ Keeps("update", Merges)
      /\ Keeps("delete", Removes) /\ Keeps("delete", RemovesPresent)
  BY DEF Creates, Replaces, Merges, Removes, RemovesPresent, OneWrite
<1>2. \A op \in WriteOps : Keeps(op, Unsupported)
  BY DEF Unsupported, OneWrite
<1> HIDE DEF Keeps
<1>3. AllKeep(Full)
  BY <1>1, <1>2 DEF AllKeep, Full, WriteOps
<1>4. AllKeep(Whole)
  BY <1>1, <1>2 DEF AllKeep, Whole, Full, WriteOps
<1>5. AllKeep(Upserts)
  <2>1. \A op \in WriteOps : Upserts[op] = IF op = "insert" THEN Unsupported ELSE Whole[op]
    BY DEF Upserts, Whole, Full, WriteOps
  <2>2. QED
    BY <1>2, <1>4, <2>1 DEF AllKeep
<1>6. QED
  BY <1>3, <1>4, <1>5

\* Every adapter that maps writes keeps the promise of each operation; the two
\* that do not, an update of libSQL and one of the Realtime Database, are none
\* of Promising.
LEMMA AdaptersKeep == \A a \in Promising : AllKeep(Writes[a])
<1> DEFINE Others == {PocketBaseWrites, AzureTableWrites, CouchbaseWrites, CouchDbWrites,
                      Neo4jWrites, NeptuneWrites, SqliteWrites, RdsDataWrites}
<1>1. \A a \in Promising : Writes[a] \in {Full, Whole, Upserts} \cup Others
  BY DEF Promising, Writes, AppwriteWrites, DynamoWrites, CosmosWrites, DatastoreWrites,
         ElasticsearchWrites, OpenSearchWrites, SolrWrites, AlgoliaWrites, QdrantWrites,
         PineconeWrites, SpannerWrites, PostgrestWrites, IndexedDbWrites
<1>2. AllKeep(PocketBaseWrites)
  <2>1. \A op \in WriteOps : PocketBaseWrites[op] =
          IF op = "insert" THEN [Creates EXCEPT !.refusal = "failed"]
          ELSE IF op = "set" THEN Unsupported ELSE Full[op]
    BY DEF PocketBaseWrites, Full, WriteOps
  <2>2. Keeps("insert", [Creates EXCEPT !.refusal = "failed"]) /\ Keeps("set", Unsupported)
    BY DEF Keeps, Creates, Unsupported, OneWrite
  <2>3. QED
    BY <2>1, <2>2, FamiliesKeep DEF AllKeep
<1>3. AllKeep(AzureTableWrites)
  <2>1. \A op \in WriteOps : AzureTableWrites[op] =
          IF op = "setIfMatch" THEN IfMatch("replace", "failed")
          ELSE IF op = "updateIfMatch" THEN IfMatch("merge", "failed")
          ELSE IF op = "deleteIfMatch" THEN IfMatch("remove", "failed") ELSE Full[op]
    BY DEF AzureTableWrites, Full, WriteOps
  <2>2. /\ Keeps("setIfMatch", IfMatch("replace", "failed"))
        /\ Keeps("updateIfMatch", IfMatch("merge", "failed"))
        /\ Keeps("deleteIfMatch", IfMatch("remove", "failed"))
    BY DEF Keeps, IfMatch, OneWrite
  <2>3. QED
    BY <2>1, <2>2, FamiliesKeep DEF AllKeep
<1>4. AllKeep(CouchbaseWrites)
  <2> DEFINE replaces == [IfMatch("replace", "conflict") EXCEPT !.gone = "failed"]
             removes == [IfMatch("remove", "conflict") EXCEPT !.gone = "done"]
  <2>1. \A op \in WriteOps : CouchbaseWrites[op] =
          IF op = "setIfMatch" THEN replaces ELSE IF op = "deleteIfMatch" THEN removes ELSE Whole[op]
    BY DEF CouchbaseWrites, Whole, Full, WriteOps
  <2>2. Keeps("setIfMatch", replaces) /\ Keeps("deleteIfMatch", removes)
    BY DEF Keeps, IfMatch, OneWrite
  <2>3. QED
    BY <2>1, <2>2, FamiliesKeep DEF AllKeep
<1>5. AllKeep(CouchDbWrites)
  <2> DEFINE puts == [Replaces EXCEPT !.reads = "adapter", !.when = "unchanged",
                                      !.refusal = "conflict", !.gone = "conflict"]
             deletes == [Removes EXCEPT !.reads = "adapter", !.when = "unchanged",
                                        !.refusal = "conflict", !.gone = "conflict", !.skips = TRUE]
  <2>1. \A op \in WriteOps : CouchDbWrites[op] =
          IF op = "set" THEN puts ELSE IF op = "delete" THEN deletes ELSE Whole[op]
    BY DEF CouchDbWrites, Whole, Full, WriteOps
  <2>2. Keeps("set", puts) /\ Keeps("delete", deletes)
    BY DEF Keeps, AnyTime, AfterOwnRead, Refuses, Replaces, Removes, OneWrite
  <2>3. QED
    BY <2>1, <2>2, FamiliesKeep DEF AllKeep
<1>6. AllKeep(Neo4jWrites) /\ AllKeep(NeptuneWrites) /\ AllKeep(SqliteWrites)
  <2>1. \A op \in WriteOps : /\ Neo4jWrites[op] = IF op = "delete" THEN RemovesPresent ELSE Full[op]
                             /\ NeptuneWrites[op] = Neo4jWrites[op] /\ SqliteWrites[op] = Neo4jWrites[op]
    BY DEF Neo4jWrites, NeptuneWrites, SqliteWrites, Full, WriteOps
  <2>2. Keeps("delete", RemovesPresent)
    BY DEF Keeps, AnyTime, AfterOwnRead, Refuses, RemovesPresent, OneWrite
  <2>3. QED
    BY <2>1, <2>2, FamiliesKeep DEF AllKeep
<1>7. AllKeep(RdsDataWrites)
  <2>1. \A op \in WriteOps : RdsDataWrites[op] =
          IF op = "set" THEN Unsupported ELSE IF op = "update" THEN Merges ELSE Upserts[op]
    BY DEF RdsDataWrites, Upserts, Whole, Full, WriteOps
  <2>2. Keeps("set", Unsupported) /\ Keeps("update", Merges)
    BY DEF Keeps, Unsupported, Merges, OneWrite
  <2>3. QED
    BY <2>1, <2>2, FamiliesKeep DEF AllKeep
<1>8. QED
  BY <1>1, <1>2, <1>3, <1>4, <1>5, <1>6, <1>7, FamiliesKeep

-----------------------------------------------------------------------------
(* The calls of the writers. *)

\* Under the invariant the adapter's operations do what Keeps asks of them.
LEMMA CallsKeep ==
  RecordInv => \A op \in WriteOps : Keeps(op, writes[op])
BY AdaptersKeep DEF RecordInv, AllKeep

Ruling(w) == IF record.rev = 0 THEN Op(w).gone ELSE Op(w).refusal

\* What a service does with a request is what the store promises: it takes effect
\* only when its operation allows it then, and a refusal tells the truth.
LEMMA ServedAsPromised ==
  ASSUME RecordInv, NEW w \in Writers, request[w] = "sent"
  PROVE  /\ caller[w].op \in WriteOps
         /\ Holds(w) => /\ Store!Allowed(caller[w].op, caller[w].base)
                        /\ Applied(w) = Store!After(caller[w].op, w)
         /\ ~Holds(w) => Ruling(w) \in Store!Rulings(caller[w].op, caller[w].base)
<1> DEFINE base == caller[w].base
           Served(op) == /\ Holds(w) => Store!Allowed(op, base) /\ Applied(w) = Store!After(op, w)
                         /\ ~Holds(w) => Ruling(w) \in Store!Rulings(op, base)
<1>1. caller[w].op \in WriteOps /\ Keeps(caller[w].op, Op(w)) /\ Op(w).effect # "none"
  BY CallsKeep DEF RecordInv, Op, Resting
<1>2. /\ base \in Nat \cup {-1} /\ record.rev \in Nat
      /\ (Op(w).reads # "no" => base # -1)
      /\ (Op(w).reads = "caller" => base # 0)
  BY DEF RecordInv, Op, Unknown
<1>3. Stored(w, TRUE) = Store!Put(record, TRUE, w) /\ Stored(w, FALSE) = Store!Put(record, FALSE, w)
  BY DEF Stored, Store!Put
<1>4. [NoRecord EXCEPT !.last = record.last] = Store!Gone(record)
  BY DEF NoRecord, Nobody, Store!Gone, Store!NoOne
<1>5. ASSUME caller[w].op = "insert" PROVE Served("insert")
  <2>1. Op(w).effect = "create" /\ Op(w).when = "absent" /\ Op(w).refusal \in {"exists", "failed"}
    BY <1>1, <1>5 DEF Keeps
  <2>2. (Holds(w) <=> record.rev = 0) /\ Applied(w) = Stored(w, TRUE)
    BY <2>1 DEF Holds, Applied
  <2>3. QED
    BY <1>3, <2>1, <2>2 DEF Ruling, Store!Allowed, Store!After, Store!Rulings, Store!Absent, Store!Conditional
<1>6. ASSUME caller[w].op = "set" PROVE Served("set")
  <2>1. Op(w).effect = "replace" /\ (AnyTime(Op(w)) \/ AfterOwnRead(Op(w)))
    BY <1>1, <1>6 DEF Keeps
  <2>2. Applied(w) = Stored(w, TRUE)
    BY <2>1 DEF Applied
  <2>3. ~Holds(w) => base \notin {-1, record.rev} /\ Ruling(w) \in {"conflict", "failed"}
    BY <1>2, <2>1 DEF Holds, AnyTime, AfterOwnRead, Refuses, Ruling
  <2>4. QED
    BY <1>3, <2>2, <2>3 DEF Store!Allowed, Store!After, Store!Rulings, Store!Unread, Store!Conditional
<1>7. ASSUME caller[w].op = "update" PROVE Served("update")
  <2>1. Op(w).effect = "merge" /\ Op(w).when = "present" /\ Op(w).gone = "missing"
    BY <1>1, <1>7 DEF Keeps
  <2>2. (Holds(w) <=> record.rev # 0) /\ Applied(w) = Stored(w, FALSE)
    BY <2>1 DEF Holds, Applied
  <2>3. QED
    BY <1>3, <2>1, <2>2 DEF Ruling, Store!Allowed, Store!After, Store!Rulings, Store!Absent, Store!Conditional
<1>8. ASSUME caller[w].op = "delete" PROVE Served("delete")
  <2>1. /\ Op(w).effect = "remove"
        /\ \/ AnyTime(Op(w)) \/ AfterOwnRead(Op(w))
           \/ Op(w).when = "present" /\ Op(w).gone = "missing"
    BY <1>1, <1>8 DEF Keeps
  <2>2. Applied(w) = Store!Gone(record)
    BY <1>4, <2>1 DEF Applied
  <2>3. ~Holds(w) => \/ base \notin {-1, record.rev} /\ Ruling(w) \in {"conflict", "failed"}
                     \/ record.rev = 0 /\ Ruling(w) = "missing"
    BY <1>2, <2>1 DEF Holds, AnyTime, AfterOwnRead, Refuses, Ruling
  <2>4. QED
    BY <2>2, <2>3 DEF Store!Allowed, Store!After, Store!Rulings, Store!Unread, Store!Absent, Store!Conditional
<1>9. ASSUME caller[w].op \in Store!Conditional PROVE Served(caller[w].op)
  <2>1. /\ Op(w).when = "unchanged" /\ Op(w).reads = "caller" /\ Op(w).refusal \in {"conflict", "failed"}
        /\ Op(w).gone \in {"conflict", "failed"} \cup (IF caller[w].op = "deleteIfMatch" THEN {"done"} ELSE {})
        /\ (caller[w].op = "setIfMatch" => Op(w).effect = "replace")
        /\ (caller[w].op = "updateIfMatch" => Op(w).effect = "merge")
        /\ (caller[w].op = "deleteIfMatch" => Op(w).effect = "remove")
    BY <1>1, <1>9 DEF Keeps, Store!Conditional
  <2>2. Applied(w) = Store!After(caller[w].op, w)
    BY <1>3, <1>4, <1>9, <2>1 DEF Applied, Store!After, Store!Conditional
  <2>3. (Holds(w) <=> record.rev = base) /\ base # 0 /\ base # -1
    BY <1>2, <2>1 DEF Holds
  <2>4. Store!Allowed(caller[w].op, base) <=> record.rev = base
    BY <1>9, <2>3 DEF Store!Allowed, Store!Conditional
  <2>5. ~Holds(w) => Ruling(w) \in Store!Rulings(caller[w].op, base)
    BY <1>9, <2>1, <2>3 DEF Ruling, Store!Rulings, Store!Conditional, Store!Absent, Store!Unread
  <2>6. QED
    BY <2>2, <2>3, <2>4, <2>5
<1>10. QED
  BY <1>1, <1>5, <1>6, <1>7, <1>8, <1>9 DEF WriteOps, Store!Conditional

\* One case per step of a call, of its request and of the service: a request
\* on its way carries the revision its condition is about.
LEMMA RecordInvPreserved == RecordInv /\ [RecordNext]_recordVars => RecordInv'
<1> SUFFICES ASSUME RecordInv, [RecordNext]_recordVars
             PROVE  RecordInv'
  OBVIOUS
<1> USE DEF RecordInv, Op, Requests, Unknown
<1>1. ASSUME NEW w \in Writers, NEW op \in WriteOps, StartWrite(w, op) PROVE RecordInv'
  <2>1. CASE writes[op].effect = "none"
    BY <1>1, <2>1 DEF StartWrite
  <2>2. CASE writes[op].effect # "none" /\ writes[op].reads = "no"
    BY <1>1, <2>2 DEF StartWrite
  <2>3. CASE writes[op].effect # "none" /\ writes[op].reads # "no"
    BY <1>1, <2>3 DEF StartWrite
  <2>4. QED
    BY <2>1, <2>2, <2>3
<1>2. ASSUME NEW w \in Writers, ReadRevision(w) PROVE RecordInv'
  <2>1. CASE record.rev = 0 /\ Op(w).reads = "caller"
    BY <1>2, <2>1 DEF ReadRevision, Told
  <2>2. CASE record.rev = 0 /\ Op(w).reads # "caller" /\ Op(w).skips
    BY <1>2, <2>2 DEF ReadRevision, NowAt
  <2>3. CASE ~(record.rev = 0 /\ (Op(w).reads = "caller" \/ Op(w).skips))
    BY <1>2, <2>3 DEF ReadRevision
  <2>4. QED
    BY <2>1, <2>2, <2>3
<1>3. ASSUME NEW w \in Writers, Serve(w) PROVE RecordInv'
  <2>1. ~Holds(w) => Ruling(w) \in Requests
    BY <1>3, ServedAsPromised DEF Serve, Store!Rulings
  <2>2. Holds(w) => Applied(w).rev \in Nat /\ Applied(w).last \in Nat
    BY <1>3, ServedAsPromised DEF Serve, Store!After, Store!Put, Store!Gone
  <2>3. QED
    BY <1>3, <2>1, <2>2 DEF Serve, Ruling
<1>4. ASSUME NEW w \in Writers, LoseRequest(w) PROVE RecordInv'
  BY <1>4 DEF LoseRequest
<1>5. ASSUME NEW w \in Writers, Answered(w) PROVE RecordInv'
  BY <1>5 DEF Answered, Told
<1>6. ASSUME NEW w \in Writers, GivesUp(w) PROVE RecordInv'
  BY <1>6 DEF GivesUp, Told
<1>7. CASE UNCHANGED recordVars
  BY <1>7 DEF recordVars
<1>8. QED
  BY <1>1, <1>2, <1>3, <1>4, <1>5, <1>6, <1>7 DEF RecordNext

\* The invariant holds at first.
LEMMA RecordInitially == RecordInit => RecordInv
BY DEF RecordInit, RecordInv, NoRecord, OldRecord, Resting, Requests, Unknown

\* The inductive invariant: a request on its way belongs to a call that has
\* begun, with the revision its condition is about.
THEOREM RecordInvariant == RecordSpec => []RecordInv
BY RecordInitially, RecordInvPreserved, PTL DEF RecordSpec

-----------------------------------------------------------------------------
(* The store promises what the calls do, step by step. *)

Writing == [w \in Writers |-> [op |-> caller[w].op, base |-> caller[w].base,
                               ruled |-> Ruled(w), told |-> caller[w].told]]

\* The store starts as promised.
LEMMA StartsPromised == RecordInit => Store!StoreInit
BY DEF RecordInit, Store!StoreInit, Store!Idle, Store!NoOne, Store!Unread, NoRecord, OldRecord, Nobody,
       Resting, Ruled, Unknown

\* Every step of a call, of its request and of the service is a step of the store
\* or changes nothing it shows: a lost request, an attempt after the answer.
LEMMA StepsPromised ==
  RecordInv /\ [RecordNext]_recordVars => [Store!StoreNext]_(Store!storeVars)
<1> SUFFICES ASSUME RecordInv, [RecordNext]_recordVars
             PROVE  [Store!StoreNext]_(Store!storeVars)
  OBVIOUS
<1>1. ASSUME NEW w \in Writers, NEW op \in WriteOps, StartWrite(w, op) PROVE Store!StoreNext
  <2>0. caller[w] = Resting /\ request[w] = "unsent"
    BY <1>1 DEF StartWrite, RecordInv
  <2>1. CASE writes[op].effect = "none"
    <3>1. Writing' = [Writing EXCEPT ![w] = [Store!Idle EXCEPT !.op = op, !.ruled = "unsupported", !.told = "unsupported"]]
      BY <1>1, <2>0, <2>1 DEF StartWrite, Writing, Ruled, Store!Idle, Store!Unread, Unknown, RecordInv
    <3>2. Store!Decline(w, op)
      BY <1>1, <2>0, <3>1 DEF StartWrite, Store!Decline, Writing, Resting
    <3>3. QED
      BY <3>2 DEF Store!StoreNext, WriteOps, Store!Conditional
  <2>2. CASE writes[op].effect # "none"
    <3>0. /\ caller' = [caller EXCEPT ![w] = [op |-> op, at |-> caller'[w].at, base |-> Unknown, told |-> "nothing"]]
          /\ request' = [request EXCEPT ![w] = request'[w]] /\ request'[w] \in {"sent", "unsent"}
      BY <1>1, <2>2 DEF StartWrite, RecordInv
    <3>1. Writing'[w] = [op |-> op, base |-> Unknown, ruled |-> "no", told |-> "nothing"]
      BY <3>0 DEF Writing, Ruled, RecordInv
    <3>2. [Writing EXCEPT ![w].op = op][w] = [op |-> op, base |-> Unknown, ruled |-> "no", told |-> "nothing"]
      BY <2>0 DEF Writing, Ruled, Resting
    <3>3. \A v \in Writers \ {w} : Writing'[v] = [Writing EXCEPT ![w].op = op][v]
      BY <3>0 DEF Writing, Ruled, RecordInv
    <3>4. Writing' = [Writing EXCEPT ![w].op = op]
      BY <3>1, <3>2, <3>3 DEF Writing
    <3>5. Store!Begin(w, op)
      BY <1>1, <2>0, <3>4 DEF StartWrite, Store!Begin, Writing, Resting
    <3>6. QED
      BY <3>5 DEF Store!StoreNext, WriteOps, Store!Conditional
  <2>3. QED
    BY <2>1, <2>2
<1>2. ASSUME NEW w \in Writers, ReadRevision(w) PROVE Store!StoreNext
  <2>0. /\ caller[w].at = "read" /\ request[w] = "unsent" /\ caller[w].told = "nothing"
        /\ caller[w].base = Unknown /\ caller[w].op \in WriteOps /\ Op(w).effect # "none"
    BY <1>2 DEF ReadRevision, RecordInv
  <2>1. CASE record.rev = 0 /\ Op(w).reads = "caller"
    <3>1. Writing' = [Writing EXCEPT ![w].told = "failed"]
      BY <1>2, <2>1 DEF ReadRevision, Told, Writing, Ruled, RecordInv
    <3>2. Store!Tell(w)
      BY <1>2, <2>0, <3>1 DEF ReadRevision, Store!Tell, Writing, WriteOps
    <3>3. QED
      BY <3>2 DEF Store!StoreNext
  <2>2. CASE record.rev = 0 /\ Op(w).reads # "caller" /\ Op(w).skips
    <3>0. caller' = [caller EXCEPT ![w].at = "answer"] /\ request' = [request EXCEPT ![w] = "done"]
      BY <1>2, <2>2 DEF ReadRevision, NowAt
    <3>1. Writing' = [Writing EXCEPT ![w].ruled = "done"]
      BY <2>0, <3>0, ZenonT(60) DEF Writing, Ruled, RecordInv
    <3>2. caller[w].op = "delete"
      BY <2>0, <2>2, CallsKeep DEF Keeps, Op
    <3>3. Store!Rule(w)
      BY <1>2, <2>0, <2>2, <3>1, <3>2 DEF ReadRevision, Store!Rule, Store!Rulings, Store!Absent, Ruled, Writing
    <3>4. QED
      BY <3>3 DEF Store!StoreNext
  <2>3. CASE ~(record.rev = 0 /\ (Op(w).reads = "caller" \/ Op(w).skips))
    <3>1. Writing' = [Writing EXCEPT ![w].base = record.rev]
      BY <1>2, <2>3, <2>0, SMTT(30) DEF ReadRevision, Writing, Ruled, RecordInv
    <3>2. Store!Look(w)
      BY <1>2, <2>0, <3>1 DEF ReadRevision, Store!Look, Ruled, Writing
    <3>3. QED
      BY <3>2 DEF Store!StoreNext
  <2>4. QED
    BY <2>1, <2>2, <2>3
<1>3. ASSUME NEW w \in Writers, Serve(w) PROVE Store!StoreNext
  <2>0. request[w] = "sent" /\ Ruled(w) = "no" /\ Writing[w].op = caller[w].op /\ Writing[w].base = caller[w].base
        /\ Writing[w].ruled = "no" /\ caller[w].op \in WriteOps
    BY <1>3, ServedAsPromised DEF Serve, Ruled, Writing
  <2>1. CASE Holds(w)
    <3>1. Writing' = [Writing EXCEPT ![w].ruled = "done"]
      BY <1>3, <2>1 DEF Serve, Writing, Ruled, RecordInv
    <3>2. Store!TakeEffect(w)
      BY <1>3, <2>0, <2>1, <3>1, ServedAsPromised DEF Serve, Store!TakeEffect, Writing, WriteOps
    <3>3. QED
      BY <3>2 DEF Store!StoreNext
  <2>2. CASE ~Holds(w)
    <3>1. Ruling(w) \in Store!Rulings(caller[w].op, caller[w].base)
      BY <2>0, <2>2, ServedAsPromised
    <3>2. Ruling(w) \notin {"unsent", "sent", "lost"}
      BY <3>1 DEF Store!Rulings
    <3>3. Writing' = [Writing EXCEPT ![w].ruled = Ruling(w)]
      BY <1>3, <2>2, <3>2 DEF Serve, Writing, Ruled, RecordInv, Ruling
    <3>4. Store!Rule(w)
      BY <1>3, <2>0, <2>2, <3>1, <3>3 DEF Serve, Store!Rule, Writing, WriteOps
    <3>5. QED
      BY <3>4 DEF Store!StoreNext
  <2>3. QED
    BY <2>1, <2>2
<1>4. ASSUME NEW w \in Writers, LoseRequest(w) PROVE UNCHANGED Store!storeVars
  BY <1>4 DEF LoseRequest, Store!storeVars, Ruled, RecordInv
<1>5. ASSUME NEW w \in Writers, Answered(w) PROVE Store!StoreNext
  <2>1. /\ caller[w].told = "nothing" /\ caller[w].op \in WriteOps
        /\ request[w] \in Requests /\ Ruled(w) = request[w] /\ request[w] # "no"
    BY <1>5 DEF Answered, RecordInv, Ruled, Requests
  <2>2. Writing' = [Writing EXCEPT ![w].told = request[w]]
    BY <1>5, SMTT(30) DEF Answered, Told, Writing, Ruled, RecordInv
  <2>3. Store!Tell(w)
    BY <1>5, <2>1, <2>2 DEF Answered, Store!Tell, Writing, WriteOps
  <2>4. QED
    BY <2>3 DEF Store!StoreNext
<1>6. ASSUME NEW w \in Writers, GivesUp(w) PROVE Store!StoreNext
  <2>1. caller[w].told = "nothing" /\ caller[w].op \in WriteOps
    BY <1>6 DEF GivesUp, RecordInv
  <2>2. Writing' = [Writing EXCEPT ![w].told = "failed"]
    BY <1>6 DEF GivesUp, Told, Writing, Ruled, RecordInv
  <2>3. Store!Tell(w)
    BY <1>6, <2>1, <2>2 DEF GivesUp, Store!Tell, Writing, WriteOps
  <2>4. QED
    BY <2>3 DEF Store!StoreNext
<1>7. CASE UNCHANGED recordVars
  BY <1>7 DEF recordVars, Store!storeVars, Ruled
<1>8. QED
  BY <1>1, <1>2, <1>3, <1>4, <1>5, <1>6, <1>7 DEF RecordNext

\* The refinement: whatever the callers of a mapped write do, whenever its
\* request is served or lost, the service and they behave as a store whose
\* writes take effect at most once, at one moment, when their condition holds.
THEOREM RecordCallsImplementStore == RecordSpec => ImplementsRecordStore
BY StartsPromised, StepsPromised, RecordInvariant, PTL DEF RecordSpec, ImplementsRecordStore, Store!StoreSpec

-----------------------------------------------------------------------------
(* The order of the rows, and the conditions that continue it. *)

Rows == [id : Nat, v : Nat]

\* Null among them, the values have a strict order.
LEMMA ValuesAreOrdered ==
  ASSUME NEW nulls, NEW dir, NEW u \in Nat, NEW v \in Nat, NEW w \in Nat
  PROVE  /\ ~ValueBefore(nulls, dir, v, v)
         /\ ValueBefore(nulls, dir, u, v) /\ ValueBefore(nulls, dir, v, w) => ValueBefore(nulls, dir, u, w)
         /\ v # w => ValueBefore(nulls, dir, v, w) \/ ValueBefore(nulls, dir, w, v)
         /\ ~(ValueBefore(nulls, dir, v, w) /\ ValueBefore(nulls, dir, w, v))
<1> DEFINE first == NullFirst(nulls, dir)
           Near(x, y) == IF dir = "asc" THEN x < y ELSE x > y
<1>1. first = TRUE \/ first = FALSE
  BY DEF NullFirst
<1>2. \A x, y \in Nat :
        ValueBefore(nulls, dir, x, y) <=>
          x # y /\ IF (x = 0) # (y = 0) THEN (first = TRUE /\ x = 0) \/ (first = FALSE /\ x # 0) ELSE Near(x, y)
  BY <1>1 DEF ValueBefore, Null
<1> HIDE DEF first
<1>3. CASE first = TRUE /\ dir = "asc"
  <2>1. \A x, y \in Nat : ValueBefore(nulls, dir, x, y) <=> x < y
    BY <1>2, <1>3
  <2> QED
    BY <2>1
<1>4. CASE first = FALSE /\ dir # "asc"
  <2>1. \A x, y \in Nat : ValueBefore(nulls, dir, x, y) <=> x > y
    BY <1>2, <1>4
  <2> QED
    BY <2>1
<1>5. CASE first = TRUE /\ dir # "asc"
  <2>1. \A x, y \in Nat : ValueBefore(nulls, dir, x, y) <=> x # y /\ (x = 0 \/ (y # 0 /\ x > y))
    BY <1>2, <1>5
  <2> QED
    BY <2>1
<1>6. CASE first = FALSE /\ dir = "asc"
  <2>1. \A x, y \in Nat : ValueBefore(nulls, dir, x, y) <=> x # y /\ (y = 0 \/ (x # 0 /\ x < y))
    BY <1>2, <1>6
  <2> QED
    BY <2>1
<1> QED
  BY <1>1, <1>3, <1>4, <1>5, <1>6

\* The rows have a strict order, total on rows of different keys.
LEMMA RowsAreOrdered ==
  ASSUME NEW nulls, NEW dir, NEW q \in Rows, NEW r \in Rows, NEW s \in Rows
  PROVE  /\ ~RowBefore(nulls, dir, r, r)
         /\ RowBefore(nulls, dir, q, r) /\ RowBefore(nulls, dir, r, s) => RowBefore(nulls, dir, q, s)
         /\ r.id # s.id => RowBefore(nulls, dir, r, s) \/ RowBefore(nulls, dir, s, r)
         /\ ~(RowBefore(nulls, dir, r, s) /\ RowBefore(nulls, dir, s, r))
<1>1. /\ q.v \in Nat /\ r.v \in Nat /\ s.v \in Nat
      /\ q.id \in Nat /\ r.id \in Nat /\ s.id \in Nat
  BY DEF Rows
<1>2. CASE dir = "none"
  BY <1>1, <1>2 DEF RowBefore
<1>3. CASE dir # "none"
  BY <1>1, <1>3, ValuesAreOrdered DEF RowBefore
<1> QED
  BY <1>2, <1>3

\* A condition, and where its service puts Null.
Agree(how, nulls) ==
  /\ how \in {"neo4j", "neptune", "postgrest"} => nulls = "greatest"
  /\ how \in {"clickhouse", "search"} => nulls = "last"
  /\ how \in {"influx", "bigquery", "libsql"} => nulls = "never"
  /\ how \in {"native", "indexeddb"} => nulls = "least"

\* The condition of a cursor is true of the rows behind it and of no other one,
\* but for the Nulls that three adapters do not see.
LEMMA AfterIsBehind ==
  ASSUME NEW how, NEW nulls, NEW dir \in Directions, NEW r \in Rows, NEW c \in Rows, Agree(how, nulls),
         how \in NullRefused /\ dir # "none" => c.v # Null,
         nulls = "never" => r.v # Null /\ c.v # Null,
         how = "search" => dir # "none" /\ (r.v = c.v => r.id = c.id)
  PROVE  /\ After(how, nulls, dir, r, c) => RowBefore(nulls, dir, c, r)
         /\ RowBefore(nulls, dir, c, r) /\ ~(how \in BlindToNull /\ dir # "none" /\ r.v = Null)
              => After(how, nulls, dir, r, c)
<1>1. r.v \in Nat /\ c.v \in Nat /\ r.id \in Nat /\ c.id \in Nat
  BY DEF Rows
<1>2. CASE how \in NullRefused
  <2>1. After(how, nulls, dir, r, c) <=> PlainAfter(dir, r, c)
    BY <1>2 DEF After, NullRefused, Neo4jAfter, NeptuneAfter, InfluxAfter, BigQueryAfter, ClickHouseAfter, LibSQLAfter
  <2>2. dir # "none" => c.v # Null /\ (r.v # Null \/ how \in BlindToNull)
    BY <1>2 DEF NullRefused, BlindToNull, Agree
  <2>3. CASE dir = "none"
    BY <1>1, <2>1, <2>3 DEF PlainAfter, RowBefore
  <2>4. CASE dir # "none" /\ r.v # Null
    <3>1. PlainAfter(dir, r, c) <=> RowBefore(nulls, dir, c, r)
      BY <1>1, <2>2, <2>4 DEF PlainAfter, RowBefore, ValueBefore, BeyondValue, SameValue, BothKnown, Directions
    <3> QED
      BY <2>1, <3>1
  <2>5. CASE dir # "none" /\ r.v = Null
    <3>1. ~PlainAfter(dir, r, c)
      BY <2>5 DEF PlainAfter, BeyondValue, SameValue, BothKnown
    <3> QED
      BY <2>1, <2>2, <2>5, <3>1
  <2> QED
    BY <2>3, <2>4, <2>5
<1>3. CASE how = "native"
  <2>1. nulls = "least" /\ (After(how, nulls, dir, r, c) <=> NativeAfter(dir, r, c))
    BY <1>3 DEF Agree, After
  <2>2. NativeAfter(dir, r, c) <=> RowBefore("least", dir, c, r)
    BY <1>1 DEF NativeAfter, RowBefore, ValueBefore, NullFirst, BeyondValue, SameOrNull, BothKnown, Directions, Null
  <2> QED
    BY <2>1, <2>2
<1>4. CASE how = "postgrest"
  <2>1. nulls = "greatest" /\ (After(how, nulls, dir, r, c) <=> PostgrestAfter(dir, r, c))
    BY <1>4 DEF Agree, After
  <2>2. PostgrestAfter(dir, r, c) <=> RowBefore("greatest", dir, c, r)
    BY <1>1 DEF PostgrestAfter, RowBefore, ValueBefore, NullFirst, BeyondValue, SameOrNull, BothKnown, Directions, Null
  <2> QED
    BY <2>1, <2>2
<1>5. CASE how = "indexeddb"
  BY <1>5 DEF Agree, After, IndexedDbAfter
<1>6. CASE how = "search"
  <2>1. nulls = "last" /\ dir # "none" /\ (After(how, nulls, dir, r, c) <=> ValueBefore("last", dir, c.v, r.v))
    BY <1>6 DEF Agree, After, SearchAfter
  <2>2. c.v = r.v => ~ValueBefore("last", dir, c.v, r.v) /\ ~(c.id < r.id)
    BY <1>1, <1>6 DEF ValueBefore
  <2> QED
    BY <2>1, <2>2 DEF RowBefore
<1>7. CASE how \notin NullRefused \cup {"native", "postgrest", "indexeddb", "search"}
  BY <1>7 DEF NullRefused, After, PositionAfter
<1> QED
  BY <1>2, <1>3, <1>4, <1>5, <1>6, <1>7

-----------------------------------------------------------------------------
(* The traits of the adapters that the proofs rest on. *)

\* A cursor that says after which row to go on: which rows make it, and that
\* its order leaves no tie open, or is one in which the cursor is refused.
SoundCursor(p, g) ==
  g.cursor \in {"full", "more", "row", "token"} =>
    /\ g.unlimited \in {"all", "cap"} /\ g.loops \in {"no", "keys"}
    /\ g.cursor = "more" => g.sentinel = "always" /\ g.more = "cursor"
    /\ g.cursor # "more" => g.sentinel = "never"
    /\ g.cursor \in {"full", "more"} => ~g.short
    /\ g.cursor = "token" => g.short
    /\ Agree(p.after, p.nulls)
    /\ \/ p.ties = "always"
       \/ p.ties = "ordered" /\ ("order" \in g.needs \/ p.after = "influx")
       \/ p.after = "search"
    /\ p.after = "search" => "order" \in g.needs

\* Chains by offsets.
SoundOffset(p, g) ==
  /\ g.loops \in {"window", "rewind"} <=> g.cursor = "found"
  /\ g.cursor = "found" => p.dirs = {"asc", "desc"} /\ g.needs = {} /\ p.after = "offset"
  /\ g.loops \in {"offsets", "beyond"} => g.cursor = "never" /\ p.ties = "always" /\ p.after = "none"
  /\ g.loops = "keys" => g.cursor = "token" /\ g.needs = {} /\ p.after = "token"
  /\ g.loops \in {"no", "keys", "window", "rewind", "offsets", "beyond"}

\* An answer that cannot be continued is whole.
SoundSingle(p, g, s) ==
  /\ g.cursor \in {"full", "more", "row", "token", "found", "never", "refused"}
  /\ s \notin CutsSilently /\ g.cursor # "found" =>
       /\ g.cursor # "refused"
       /\ g.cursor = "never" \/ "limit" \in g.needs =>
            /\ ~g.short
            /\ (g.unlimited = "all" \/ (g.more = "error" /\ g.sentinel \in {"always", "unlimited"}))
            /\ g.sentinel \in {"always", "unlimited", "never"}
            /\ (g.sentinel = "always" => g.more = "error")
       /\ g.needs \subseteq {"limit"}

Sound(p, g, s) == p.dirs \subseteq Directions /\ SoundCursor(p, g) /\ SoundOffset(p, g) /\ SoundSingle(p, g, s)

\* What the traits of every adapter have in common.
LEMMA AdaptersAreSound ==
  ASSUME NEW s \in DOMAIN Queries
  PROVE  Sound(Queries[s].plan, Queries[s].page, s)
<1> USE DEF Sound, SoundCursor, SoundOffset, SoundSingle, Agree, CutsSilently, Directions
<1>1. Sound(Neo4jPlan, Neo4jPage, "neo4j")
  BY DEF Neo4jPlan, PlanOf, AnyOrder, Neo4jPage, FullPage, WholePage, CappedPage
<1>2. Sound(NeptunePlan, NeptunePage, "neptune")
  BY DEF NeptunePlan, PlanOf, AnyOrder, NeptunePage, SentinelPage, CappedPage
<1>3. Sound(InfluxPlan, InfluxPage, "influx")
  BY DEF InfluxPlan, PlanOf, AnyOrder, InfluxPage, SentinelPage, CappedPage
<1>4. Sound(ClickHousePlan, ClickHousePage, "clickhouse")
  BY DEF ClickHousePlan, PlanOf, AnyOrder, ClickHousePage, CappedPage
<1>5. Sound(BigQueryPlan, BigQueryPage, "bigquery")
  BY DEF BigQueryPlan, PlanOf, AnyOrder, BigQueryPage, SentinelPage, CappedPage
<1>6. Sound(SpannerPlan, SpannerQuery, "spanner")
  BY DEF SpannerPlan, PlanOf, AnyOrder, SpannerQuery, CappedPage
<1>7. Sound([PlainPlan EXCEPT !.ties = "no"], KustoQuery, "kusto")
  BY DEF PlainPlan, KustoQuery, SpannerQuery, CappedPage
<1>8. Sound([PlainPlan EXCEPT !.after = "none"], TimestreamQuery, "timestream")
  BY DEF PlainPlan, TimestreamQuery, TokenPage, CappedPage
<1>9. Sound(SnowflakePlan, WholeOrErrorPage, "snowflake")
  BY DEF SnowflakePlan, PlanOf, AnyOrder, WholeOrErrorPage, CappedPage
<1>10. Sound(RedshiftPlan, RedshiftPage, "redshift")
  BY DEF RedshiftPlan, PlanOf, AnyOrder, RedshiftPage, WholeOrErrorPage, CappedPage
<1>11. Sound(RdsDataPlan, RdsDataPage, "rdsdata")
  BY DEF RdsDataPlan, PlanOf, AnyOrder, RdsDataPage, WholeOrErrorPage, CappedPage
<1>12. Sound(DatabricksPlan, DatabricksPage, "databricks")
  BY DEF DatabricksPlan, PlanOf, AnyOrder, DatabricksPage, WholePage, CappedPage
<1>13. Sound(SqlPlan, D1Query, "d1")
  BY DEF SqlPlan, PlanOf, AnyOrder, D1Query, WholePage, CappedPage
<1>14. Sound(SqlPlan, D1Scan, "d1scan")
  BY DEF SqlPlan, PlanOf, AnyOrder, D1Scan, WholePage, CappedPage
<1>15. Sound(D1HttpPlan, D1HttpQuery, "d1http")
  BY DEF D1HttpPlan, SqlPlan, PlanOf, AnyOrder, D1HttpQuery, WholePage, CappedPage
<1>16. Sound(D1HttpPlan, D1HttpScan, "d1httpScan")
  BY DEF D1HttpPlan, SqlPlan, PlanOf, AnyOrder, D1HttpScan, D1Scan, WholePage, CappedPage
<1>17. Sound(SqlPlan, SqlitePage, "sqlite")
  BY DEF SqlPlan, PlanOf, AnyOrder, SqlitePage, WholePage, CappedPage
<1>18. Sound(ElasticsearchPlan, ElasticsearchPage, "elasticsearch")
  BY DEF ElasticsearchPlan, PlanOf, AnyOrder, ElasticsearchPage, CappedPage
<1>19. Sound(OpenSearchPlan, OpenSearchPage, "opensearch")
  BY DEF OpenSearchPlan, PlanOf, AnyOrder, OpenSearchPage, CappedPage
<1>20. Sound(SolrPlan, CappedPage, "solr")
  BY DEF SolrPlan, PlanOf, AnyOrder, CappedPage
<1>21. Sound(AlgoliaQuery, CappedPage, "algolia")
  BY DEF AlgoliaQuery, PlainPlan, CappedPage
<1>22. Sound(QdrantPlan, CappedPage, "qdrant")
  BY DEF QdrantPlan, PlainPlan, CappedPage
<1>23. Sound(AppwriteQuery, CappedPage, "appwrite")
  BY DEF AppwriteQuery, PlanOf, AnyOrder, CappedPage
<1>24. Sound(PocketBaseQuery, CappedPage, "pocketbase")
  BY DEF PocketBaseQuery, PlanOf, AnyOrder, CappedPage
<1>25. Sound(CouchbaseQuery, CappedPage, "couchbase")
  BY DEF CouchbaseQuery, PlanOf, AnyOrder, CappedPage
<1>26. Sound(PlainPlan, AzureTableQuery, "azure")
  BY DEF PlainPlan, AzureTableQuery, TokenPage, CappedPage
<1>27. Sound(PlainPlan, DynamoQuery, "dynamodb")
  BY DEF PlainPlan, DynamoQuery, TokenPage, CappedPage
<1>28. Sound(PlainPlan, CosmosQuery, "cosmosdb")
  BY DEF PlainPlan, CosmosQuery, TokenPage, CappedPage
<1>29. Sound(DatastorePlan, DatastoreQuery, "datastore")
  BY DEF DatastorePlan, PlanOf, AnyOrder, DatastoreQuery, TokenPage, CappedPage
<1>30. Sound(PlainPlan, CouchDbPage, "couchdb")
  BY DEF PlainPlan, CouchDbPage, CappedPage
<1>31. Sound(NativeCouchDbPlan, NativeCouchDbPage, "nativeCouchdb")
  BY DEF NativeCouchDbPlan, PlanOf, AnyOrder, NativeCouchDbPage, CouchDbPage, CappedPage
<1>32. Sound(FirestorePlan, FirestorePage, "firestore")
  BY DEF FirestorePlan, PlanOf, AnyOrder, FirestorePage, FullPage, WholePage, CappedPage
<1>33. Sound(TugqlPlan, TugqlPage, "firestoreTugql")
  BY DEF TugqlPlan, PlanOf, AnyOrder, TugqlPage, WholeOrErrorPage, CappedPage
<1>34. Sound(ClickHouseNativePlan, CappedPage, "clickhouseNative")
  BY DEF ClickHouseNativePlan, PlanOf, AnyOrder, CappedPage
<1>35. Sound(RealtimePlan, RealtimePage, "realtime")
  BY DEF RealtimePlan, PlanOf, AnyOrder, RealtimePage, WholePage, CappedPage
<1>36. Sound(IndexedDbPlan, IndexedDbPage, "indexeddb")
  BY DEF IndexedDbPlan, PlanOf, AnyOrder, IndexedDbPage, FullPage, WholePage, CappedPage
<1>37. Sound(OvdbQuery, WholePage, "ovdb")
  BY DEF OvdbQuery, PlanOf, AnyOrder, WholePage, CappedPage
<1>38. Sound(LibSQLPlan, LibSQLLegacyPage, "libsqlLegacy")
  BY DEF LibSQLPlan, PlanOf, AnyOrder, LibSQLLegacyPage, SentinelPage, CappedPage
<1>39. Sound(LibSQLModern, LibSQLModernPage, "libsql")
  BY DEF LibSQLModern, LibSQLPlan, PlanOf, AnyOrder, LibSQLModernPage, AnyRowPage, CappedPage
<1>40. Sound(NativeLibSQLPlan, NativeLibSQLPage, "nativeLibsql")
  BY DEF NativeLibSQLPlan, PlanOf, AnyOrder, NativeLibSQLPage, AnyRowPage, CappedPage
<1>41. Sound(TypesensePlan, TypesensePage, "typesense")
  BY DEF TypesensePlan, PlanOf, AnyOrder, TypesensePage, CappedPage
<1>42. Sound(TypesensePlan, TypesenseFiltered, "typesenseFiltered")
  BY DEF TypesensePlan, PlanOf, AnyOrder, TypesenseFiltered, TypesensePage, CappedPage
<1>43. Sound(PostgrestPlan, PostgrestPage, "postgrest")
  BY DEF PostgrestPlan, PlanOf, AnyOrder, PostgrestPage, AnyRowPage, CappedPage
<1>44. Sound(PostgrestLegacyPlan, [CappedPage EXCEPT !.short = TRUE], "postgrestLegacy")
  BY DEF PostgrestLegacyPlan, PlanOf, AnyOrder, CappedPage
<1> HIDE DEF Sound, SoundCursor, SoundOffset, SoundSingle, Agree, Directions
<1>45. \A p, g : Adapt(p, g).plan = p /\ Adapt(p, g).page = g
  BY DEF Adapt
<1>46. CASE s \in {"neo4j", "neptune", "influx", "clickhouse", "bigquery", "spanner", "kusto", "timestream", "snowflake", "redshift", "rdsdata"}
  BY <1>1, <1>2, <1>3, <1>4, <1>5, <1>6, <1>7, <1>8, <1>9, <1>10, <1>11, <1>45, <1>46 DEF Queries
<1>47. CASE s \in {"databricks", "d1", "d1scan", "d1http", "d1httpScan", "sqlite", "elasticsearch", "opensearch", "solr", "algolia", "qdrant"}
  BY <1>12, <1>13, <1>14, <1>15, <1>16, <1>17, <1>18, <1>19, <1>20, <1>21, <1>22, <1>45, <1>47 DEF Queries
<1>48. CASE s \in {"appwrite", "pocketbase", "couchbase", "azure", "dynamodb", "cosmosdb", "datastore", "couchdb", "nativeCouchdb", "firestore", "firestoreTugql"}
  BY <1>23, <1>24, <1>25, <1>26, <1>27, <1>28, <1>29, <1>30, <1>31, <1>32, <1>33, <1>45, <1>48 DEF Queries
<1>49. CASE s \in {"clickhouseNative", "realtime", "indexeddb", "ovdb", "libsqlLegacy", "libsql", "nativeLibsql", "typesense", "typesenseFiltered", "postgrest", "postgrestLegacy"}
  BY <1>34, <1>35, <1>36, <1>37, <1>38, <1>39, <1>40, <1>41, <1>42, <1>43, <1>44, <1>45, <1>49 DEF Queries
<1> QED
  BY <1>46, <1>47, <1>48, <1>49 DEF Queries

-----------------------------------------------------------------------------
(* Sequences and what their parts hold. *)

\* The lesser of two numbers.
LEMMA Lesser ==
  ASSUME NEW a \in Int, NEW b \in Int
  PROVE  Min({a, b}) = IF a <= b THEN a ELSE b
<1>1. \A x \in {a, b} : (\A y \in {a, b} : x <= y) <=> x = (IF a <= b THEN a ELSE b)
  OBVIOUS
<1>2. \E x \in {a, b} : \A y \in {a, b} : x <= y
  OBVIOUS
<1>3. Min({a, b}) \in {a, b} /\ \A y \in {a, b} : Min({a, b}) <= y
  BY <1>2 DEF Min
<1> QED
  BY <1>1, <1>3

\* The first rows of an answer.
LEMMA FirstRows ==
  ASSUME NEW S, NEW s \in Seq(S), NEW m \in Int, m <= Len(s), NEW t, t = SubSeq(s, 1, m)
  PROVE  /\ t \in Seq(S) /\ Len(t) = (IF m < 0 THEN 0 ELSE m) /\ DOMAIN t = 1..m
         /\ \A k \in 1..m : t[k] = s[k]
<1>1. CASE m < 0
  <2>1. t = <<>>
    BY <1>1
  <2> QED
    BY <1>1, <2>1
<1>2. CASE m >= 0
  BY <1>2
<1> QED
  BY <1>1, <1>2

\* The rows that are left after the first ones.
LEMMA RowsLeft ==
  ASSUME NEW S, NEW s \in Seq(S), NEW o \in Nat, NEW t, t = SubSeq(s, o + 1, Len(s))
  PROVE  /\ t \in Seq(S) /\ DOMAIN t = 1..(Len(s) - o)
         /\ Len(t) = IF o > Len(s) THEN 0 ELSE Len(s) - o
         /\ \A k \in 1..(Len(s) - o) : t[k] = s[o + k]
<1>1. CASE o > Len(s)
  <2>1. t = <<>>
    BY <1>1
  <2> QED
    BY <1>1, <2>1
<1>2. CASE o <= Len(s)
  BY <1>2
<1> QED
  BY <1>1, <1>2

\* Rows that follow others.
LEMMA Joined ==
  ASSUME NEW S, NEW s \in Seq(S), NEW t \in Seq(S), NEW u, u = s \o t
  PROVE  /\ u \in Seq(S) /\ Len(u) = Len(s) + Len(t) /\ DOMAIN u = 1..(Len(s) + Len(t))
         /\ \A k \in 1..Len(s) : u[k] = s[k]
         /\ \A k \in 1..Len(t) : u[Len(s) + k] = t[k]
  OBVIOUS

\* No more rows than places.
LEMMA FewRows ==
  ASSUME NEW s, NEW o \in Nat, NEW T, \A i \in T : \E p \in 1..o : s[p] = i
  PROVE  IsFiniteSet(T) /\ Cardinality(T) <= o
<1> DEFINE D == {p \in 1..o : s[p] \in T}
           f == [p \in D |-> s[p]]
<1>1. IsFiniteSet(1..o) /\ Cardinality(1..o) = o
  BY FS_Interval
<1>2. IsFiniteSet(D) /\ Cardinality(D) <= o
  BY <1>1, FS_Subset, D \in SUBSET (1..o)
<1>3. f \in Surjection(D, T)
  BY DEF Surjection
<1>4. IsFiniteSet(T) /\ Cardinality(T) <= Cardinality(D)
  BY <1>2, <1>3, FS_Surjection
<1>5. Cardinality(T) \in Nat /\ Cardinality(D) \in Nat
  BY <1>2, <1>4, FS_CardinalityType
<1> QED
  BY <1>2, <1>4, <1>5

\* Every set of numbers has a least one.
LEMMA LeastPlace ==
  ASSUME NEW S \in SUBSET Nat, S # {}
  PROVE  \E least \in S : \A k \in S : ~(k < least)
<1>1. \E least \in S : \A k \in S : ~(<<k, least>> \in OpToRel(<, Nat))
  BY NatLessThanWellFounded, WFMin
<1> QED
  BY <1>1 DEF OpToRel

\* What an ordering of a set is.
LEMMA OrderingFacts ==
  ASSUME NEW S, IsFiniteSet(S), NEW s \in Orderings(S)
  PROVE  /\ s \in Seq(S) /\ Len(s) = Cardinality(S) /\ DOMAIN s = 1..Len(s)
         /\ \A p, q \in 1..Len(s) : s[p] = s[q] => p = q
         /\ \A i \in S : \E p \in 1..Len(s) : s[p] = i
         /\ \A q \in 1..Len(s) : \A p \in 1..(q - 1) : ~Precedes(s[q], s[p])
<1> DEFINE n == Cardinality(S)
<1>1. n \in Nat
  BY FS_CardinalityType
<1>2. s \in [1..n -> S] /\ \A p, q \in 1..n : p # q => s[p] # s[q]
  BY DEF Orderings, SetToSeqs
<1>3. \A q \in 1..Len(s) : \A p \in 1..(q - 1) : ~Precedes(s[q], s[p])
  BY DEF Orderings
<1> HIDE DEF n
<1>4. s \in Seq(S) /\ Len(s) = n /\ DOMAIN s = 1..n
  BY <1>1, <1>2
<1>5. s \in Injection(1..n, S)
  BY <1>2 DEF Injection, IsInjective
<1>6. IsFiniteSet(1..n) /\ Cardinality(1..n) = n
  BY <1>1, FS_Interval
<1>7. s \in Surjection(1..n, S)
  BY <1>5, <1>6, FS_Injection DEF n
<1>8. \A i \in S : \E p \in 1..n : s[p] = i
  BY <1>7 DEF Surjection
<1> QED
  BY <1>2, <1>3, <1>4, <1>8 DEF n

\* Rows that are the same at every place.
LEMMA SameRows ==
  ASSUME NEW S, NEW n \in Nat, NEW f \in [1..n -> S], NEW g \in [1..n -> S], \A k \in 1..n : f[k] = g[k]
  PROVE  f = g
  OBVIOUS

\* Where the order leaves nothing open, a set has one ordering.
LEMMA OneOrdering ==
  ASSUME NEW S, IsFiniteSet(S), NEW s \in Orderings(S), NEW t \in Orderings(S),
         \A i, j \in S : i # j => Precedes(i, j) \/ Precedes(j, i)
  PROVE  s = t
<1> DEFINE n == Len(s)
           D == {k \in 1..n : s[k] # t[k]}
           Ordered(u) ==
             /\ u \in [1..n -> S]
             /\ \A p, q \in 1..n : u[p] = u[q] => p = q
             /\ \A i \in S : \E p \in 1..n : u[p] = i
             /\ \A q \in 1..n : \A p \in 1..(q - 1) : ~Precedes(u[q], u[p])
<1>0. n \in Nat /\ Len(s) = n /\ Len(t) = n
  BY OrderingFacts
<1>1. \A u \in Orderings(S) : u \in [1..Len(u) -> S] /\ Len(u) = Cardinality(S)
  BY OrderingFacts
<1>2. \A u \in Orderings(S) : Len(u) = n => Ordered(u)
  BY <1>1, OrderingFacts
<1>3. Ordered(s) /\ Ordered(t)
  BY <1>0, <1>2
<1> HIDE DEF n
<1>a. SUFFICES ASSUME s # t PROVE FALSE
  OBVIOUS
<1>b. D # {}
  <2>1. s \in [1..n -> S] /\ t \in [1..n -> S]
    BY <1>3
  <2>2. SUFFICES ASSUME \A k \in 1..n : s[k] = t[k] PROVE FALSE
    OBVIOUS
  <2>3. s = t
    BY <1>0, <2>1, <2>2, SameRows
  <2> QED
    BY <1>a, <2>3
<1>4. PICK k \in D : \A m \in D : ~(m < k)
  BY <1>b, LeastPlace, D \in SUBSET Nat
<1>5. k \in 1..n /\ s[k] # t[k] /\ \A m \in 1..n : m < k => s[m] = t[m]
  BY <1>0, <1>4
<1>6. PICK p \in 1..n : s[p] = t[k]
  BY <1>3, <1>5
<1>7. PICK q \in 1..n : t[q] = s[k]
  BY <1>3, <1>5
<1>8. p > k
  <2>1. p # k
    BY <1>5, <1>6
  <2>2. p < k => t[p] = t[k]
    BY <1>5, <1>6
  <2>3. t[p] = t[k] => p = k
    BY <1>3, <1>5
  <2> QED
    BY <1>0, <1>5, <2>1, <2>2, <2>3
<1>9. q > k
  <2>1. q # k
    BY <1>5, <1>7
  <2>2. q < k => s[q] = s[k]
    BY <1>5, <1>7
  <2>3. s[q] = s[k] => q = k
    BY <1>3, <1>5
  <2> QED
    BY <1>0, <1>5, <2>1, <2>2, <2>3
<1>10. k \in 1..(p - 1) /\ k \in 1..(q - 1)
  BY <1>0, <1>5, <1>8, <1>9
<1>11. ~Precedes(t[k], s[k])
  BY <1>3, <1>6, <1>10
<1>12. ~Precedes(s[k], t[k])
  BY <1>3, <1>7, <1>10
<1>13. s[k] \in S /\ t[k] \in S
  BY <1>3, <1>5
<1> QED
  BY <1>5, <1>11, <1>12, <1>13

-----------------------------------------------------------------------------
(* The rows and their order in a state. *)

\* What the types say of the rows, the query and the adapter.
LEMMA RowFacts ==
  ASSUME PagesTypeOK
  PROVE  /\ values \in Seq(Nat) /\ Ids = 1..Len(values) /\ Churning \in Ids
         /\ IsFiniteSet(Ids) /\ Cardinality(Ids) \in Nat \ {0}
         /\ Steady \subseteq present /\ present \subseteq Ids /\ IsFiniteSet(present)
         /\ \A i \in Ids : Row(i) \in Rows /\ Row(i).id = i /\ Row(i).v = values[i] /\ Row(i) # AtStart
<1>1. values \in Seq(Nat) /\ Churning \in Ids
  BY PagesAssumption DEF PagesTypeOK, Ids
<1>2. Ids = 1..Len(values)
  BY <1>1 DEF Ids
<1>3. IsFiniteSet(Ids)
  BY <1>1, <1>2, FS_Interval
<1>4. Cardinality(Ids) \in Nat \ {0}
  BY <1>1, <1>3, FS_CardinalityType, FS_EmptySet
<1>5. Steady \subseteq present /\ present \subseteq Ids
  BY DEF PagesTypeOK, Steady
<1>6. IsFiniteSet(present)
  BY <1>3, <1>5, FS_Subset
<1>7. ASSUME NEW i \in Ids
      PROVE  Row(i) \in Rows /\ Row(i).id = i /\ Row(i).v = values[i] /\ Row(i) # AtStart
  <2>1. i \in Nat \ {0} /\ values[i] \in Nat
    BY <1>1, <1>2
  <2>2. Row(i).id # AtStart.id
    BY <2>1 DEF Row, AtStart
  <2> QED
    BY <2>1, <2>2 DEF Row, Rows
<1> QED
  BY <1>1, <1>2, <1>3, <1>4, <1>5, <1>6, <1>7

\* The order of the rows that exist is strict and total.
LEMMA BeforeIsTotal ==
  ASSUME PagesTypeOK, NEW i \in Ids, NEW j \in Ids, NEW k \in Ids
  PROVE  /\ ~Before(i, i)
         /\ Before(i, j) /\ Before(j, k) => Before(i, k)
         /\ i # j => Before(i, j) \/ Before(j, i)
  BY RowFacts, RowsAreOrdered DEF Before

\* The service puts the rows in that order.
Settled == \A i, j \in Ids : Precedes(i, j) <=> Before(i, j)

\* It does when the request fixes it, and when no two rows tie.
LEMMA FixedIsSettled ==
  ASSUME PagesTypeOK, Fixed \/ (ask.dir # "none" /\ ~Ties)
  PROVE  Settled
<1>1. CASE Fixed
  BY <1>1 DEF Settled, Precedes, Before
<1>2. CASE ~Fixed /\ ask.dir # "none" /\ ~Ties
  <2> SUFFICES ASSUME NEW i \in Ids, NEW j \in Ids PROVE Precedes(i, j) <=> Before(i, j)
    BY DEF Settled
  <2>1. Precedes(i, j) <=> ValueBefore(plan.nulls, ask.dir, values[i], values[j])
    BY <1>2 DEF Precedes
  <2>2. Row(i).id = i /\ Row(i).v = values[i] /\ Row(j).id = j /\ Row(j).v = values[j] /\ i \in Nat /\ j \in Nat
    BY RowFacts
  <2>3. values[i] = values[j] => i = j
    BY <1>2 DEF Ties, IsInjective, Ids
  <2>4. values[i] = values[j] => ~ValueBefore(plan.nulls, ask.dir, values[i], values[j])
    BY DEF ValueBefore
  <2>5. CASE values[i] = values[j]
    BY <1>2, <2>1, <2>2, <2>3, <2>4, <2>5 DEF Before, RowBefore
  <2>6. CASE values[i] # values[j]
    BY <1>2, <2>1, <2>2, <2>6 DEF Before, RowBefore
  <2> QED
    BY <2>5, <2>6
<1> QED
  BY <1>1, <1>2

\* Every adapter is sound.
LEMMA SourceIsSound ==
  ASSUME PagesTypeOK
  PROVE  Sound(plan, page, source)
  BY AdaptersAreSound DEF PagesTypeOK, plan, page

\* A chain by cursor is one of these.
LEMMA CursorIsSound ==
  ASSUME PagesTypeOK, ByCursor
  PROVE  /\ HasNeeds /\ page.cursor \in {"full", "more", "row", "token"}
         /\ SoundCursor(plan, page) /\ ~Scans /\ ~Windowed
<1>1. SoundCursor(plan, page) /\ SoundOffset(plan, page)
  BY SourceIsSound DEF Sound
<1>2. HasNeeds /\ page.cursor \in {"full", "more", "row", "token"}
  BY <1>1 DEF ByCursor, MayChain, Windowed, SoundOffset
<1>3. page.loops \in {"no", "keys"}
  BY <1>1, <1>2 DEF SoundCursor
<1> QED
  BY <1>1, <1>2, <1>3 DEF Scans, Windowed

\* A chain by cursor has an order.
LEMMA ChainsAreSettled ==
  ASSUME PagesTypeOK, ByCursor, ~Refused
  PROVE  Settled
<1>1. HasNeeds /\ page.cursor \in {"full", "more", "row", "token"} /\ SoundCursor(plan, page)
  BY CursorIsSound
<1>2. \/ plan.ties = "always"
      \/ plan.ties = "ordered" /\ ("order" \in page.needs \/ plan.after = "influx")
      \/ plan.after = "search" /\ "order" \in page.needs
  BY <1>1 DEF SoundCursor
<1>3. "order" \in page.needs => ask.dir # "none"
  BY <1>1 DEF HasNeeds
<1>4. CASE plan.ties = "always"
  BY <1>4, FixedIsSettled DEF Fixed
<1>5. CASE plan.ties = "ordered" /\ ("order" \in page.needs \/ plan.after = "influx")
  BY <1>3, <1>5, FixedIsSettled DEF Fixed, Refused
<1>6. CASE plan.after = "search" /\ "order" \in page.needs
  BY <1>3, <1>6, FixedIsSettled DEF ByCursor
<1> QED
  BY <1>2, <1>4, <1>5, <1>6

\* An ordering of the rows that match.
Lists(s) ==
  /\ s \in Seq(Ids) /\ s \in Orderings(Matching) /\ Len(s) = Cardinality(Matching)
  /\ \A k \in 1..Len(s) : s[k] \in Matching /\ s[k] \in Ids
  /\ \A p, q \in 1..Len(s) : s[p] = s[q] => p = q
  /\ \A i \in Matching : \E p \in 1..Len(s) : s[p] = i
  /\ \A p, q \in 1..Len(s) : p < q => ~Precedes(s[q], s[p])

\* The first m of the rows behind the first o ones of s, of which `left' are left.
Answer(s, o, left, m, rows) ==
  /\ rows \in Seq(Ids) /\ Len(rows) = m /\ m \in Nat /\ DOMAIN rows = 1..m
  /\ Len(s) \in Nat /\ left = (IF o > Len(s) THEN 0 ELSE Len(s) - o)
  /\ m > 0 => o + m <= Len(s)
  /\ m = left => Len(s) <= o + m
  /\ \A k \in 1..m : o + k \in 1..Len(s) /\ rows[k] = s[o + k]

\* An answer has the first rows of an ordering behind its offset.
LEMMA AnswerFacts ==
  ASSUME PagesTypeOK, NEW o \in Nat, NEW rest \in Remainders(o)
  PROVE  \E s : /\ Lists(s) /\ rest \in Seq(Ids)
                /\ \A m \in Nat : m <= Len(rest) => Answer(s, o, Len(rest), m, SubSeq(rest, 1, m))
<1>1. PICK s \in Orderings(Matching) : rest = SubSeq(s, o + 1, Len(s))
  BY DEF Remainders
<1>2. Matching \subseteq present /\ present \subseteq Ids /\ IsFiniteSet(present)
  BY RowFacts DEF Matching
<1>3. IsFiniteSet(Matching)
  BY <1>2, FS_Subset
<1>4. /\ s \in Seq(Matching) /\ Len(s) = Cardinality(Matching)
      /\ \A p, q \in 1..Len(s) : s[p] = s[q] => p = q
      /\ \A i \in Matching : \E p \in 1..Len(s) : s[p] = i
  BY <1>3, OrderingFacts
<1>5. \A q \in 1..Len(s) : \A p \in 1..(q - 1) : ~Precedes(s[q], s[p])
  BY <1>3, OrderingFacts
<1>b. s \in Seq(Ids)
  BY <1>2, <1>4
<1>6. s \in Seq(Ids) /\ Len(s) \in Nat
  BY <1>b
<1>7. \A k \in 1..Len(s) : s[k] \in Matching /\ s[k] \in Ids
  BY <1>2, <1>4
<1>8. \A p, q \in 1..Len(s) : p < q => ~Precedes(s[q], s[p])
  BY <1>5, <1>6
<1>9. Lists(s)
  BY <1>4, <1>6, <1>7, <1>8 DEF Lists
<1>10. /\ rest \in Seq(Ids) /\ DOMAIN rest = 1..(Len(s) - o)
       /\ Len(rest) = IF o > Len(s) THEN 0 ELSE Len(s) - o
       /\ \A k \in 1..(Len(s) - o) : rest[k] = s[o + k]
  BY <1>1, <1>b, RowsLeft
<1>11. ASSUME NEW m \in Nat, m <= Len(rest)
       PROVE  Answer(s, o, Len(rest), m, SubSeq(rest, 1, m))
  <2> DEFINE rows == SubSeq(rest, 1, m)
  <2>0. m \in Int /\ ~(m < 0) /\ rows = SubSeq(rest, 1, m)
    OBVIOUS
  <2> HIDE DEF rows
  <2>1. /\ rows \in Seq(Ids) /\ Len(rows) = m /\ DOMAIN rows = 1..m
        /\ \A k \in 1..m : rows[k] = rest[k]
    BY <1>10, <1>11, <2>0, FirstRows
  <2>2. (m > 0 => o + m <= Len(s)) /\ (m = Len(rest) => Len(s) <= o + m)
    BY <1>6, <1>10, <1>11
  <2>3. ASSUME NEW k \in 1..m
        PROVE  o + k \in 1..Len(s) /\ rows[k] = s[o + k]
    <3>1. k \in 1..(Len(s) - o) /\ o + k \in 1..Len(s)
      BY <1>6, <2>2
    <3> QED
      BY <1>10, <2>1, <3>1
  <2> QED
    BY <1>6, <1>10, <2>1, <2>2, <2>3 DEF Answer, rows
<1> QED
  BY <1>9, <1>10, <1>11

-----------------------------------------------------------------------------
(* What an answer adds to a chain. *)

\* Rows in the order come once.
LEMMA AscendingIsInjective ==
  ASSUME PagesTypeOK, NEW rows \in Seq(Ids), Ascending(rows)
  PROVE  IsInjective(rows)
<1> SUFFICES ASSUME NEW p \in DOMAIN rows, NEW q \in DOMAIN rows, rows[p] = rows[q]
             PROVE  p = q
  BY DEF IsInjective
<1>1. rows[p] \in Ids /\ rows[q] \in Ids /\ p \in Int /\ q \in Int
  OBVIOUS
<1>2. ~(p < q)
  BY <1>1, BeforeIsTotal DEF Ascending
<1>3. ~(q < p)
  BY <1>1, BeforeIsTotal DEF Ascending
<1> QED
  BY <1>1, <1>2, <1>3

\* The first answer to a query passes over no more than its offset.
LEMMA FirstAnswer ==
  ASSUME PagesTypeOK, reading.cursor = AtStart, NEW o \in Nat, o <= ask.offset,
         NEW s, Lists(s), NEW left, NEW m, NEW rows, Answer(s, o, left, m, rows)
  PROVE  /\ rows \in Seq(Ids) /\ IsInjective(rows)
         /\ m = left => Cardinality(Due \ Range(rows)) <= ask.offset
         /\ Settled => Ascending(rows) /\ (rows # <<>> => Cardinality(PassedOver(rows)) <= ask.offset)
<1>1. Matching = present
  BY DEF Matching
<1>2. Steady \subseteq present /\ present \subseteq Ids /\ Due \subseteq present
  BY RowFacts DEF Due
<1>3. /\ rows \in Seq(Ids) /\ Len(rows) = m /\ m \in Nat /\ DOMAIN rows = 1..m /\ Len(s) \in Nat
      /\ m > 0 => o + m <= Len(s)
      /\ m = left => Len(s) <= o + m
      /\ \A k \in 1..m : o + k \in 1..Len(s) /\ rows[k] = s[o + k]
  BY DEF Answer
<1>a. /\ \A k \in 1..Len(s) : s[k] \in Ids
      /\ \A i \in Matching : \E p \in 1..Len(s) : s[p] = i
      /\ \A p, q \in 1..Len(s) : p < q => ~Precedes(s[q], s[p])
  BY DEF Lists
<1>b. \A p, q \in 1..Len(s) : s[p] = s[q] => p = q
  BY DEF Lists
<1>4. IsInjective(rows)
  <2> SUFFICES ASSUME NEW p \in 1..m, NEW q \in 1..m, rows[p] = rows[q] PROVE p = q
    BY <1>3 DEF IsInjective
  <2>1. s[o + p] = s[o + q] /\ o + p \in 1..Len(s) /\ o + q \in 1..Len(s)
    BY <1>3
  <2>2. o + p = o + q
    BY <1>b, <2>1
  <2> QED
    BY <2>2
<1>5. ask.offset \in Nat
  BY DEF PagesTypeOK
<1>6. ASSUME NEW i \in Due \ Range(rows)
      PROVE  \E p \in 1..Len(s) : s[p] = i /\ (p <= o \/ p > o + m)
  <2>1. PICK p \in 1..Len(s) : s[p] = i
    BY <1>1, <1>2, <1>a
  <2>2. ASSUME p > o, p <= o + m PROVE FALSE
    <3>1. p - o \in 1..m /\ o + (p - o) = p
      BY <1>3, <2>2
    <3>2. rows[p - o] = i
      BY <1>3, <2>1, <3>1
    <3> QED
      BY <1>3, <3>1, <3>2 DEF Range
  <2> QED
    BY <1>3, <2>1, <2>2
<1>7. ASSUME NEW T \in SUBSET Due, \A i \in T : \E p \in 1..Len(s) : s[p] = i /\ p <= o
      PROVE  Cardinality(T) <= ask.offset
  <2>1. \A i \in T : \E p \in 1..o : s[p] = i
    BY <1>7
  <2>2. IsFiniteSet(T) /\ Cardinality(T) <= o
    BY <2>1, FewRows
  <2>3. Cardinality(T) \in Nat
    BY <2>2, FS_CardinalityType
  <2> QED
    BY <1>5, <2>2, <2>3
<1>8. ASSUME m = left PROVE Cardinality(Due \ Range(rows)) <= ask.offset
  <2>1. ASSUME NEW i \in Due \ Range(rows)
        PROVE  \E p \in 1..Len(s) : s[p] = i /\ p <= o
    BY <1>3, <1>6, <1>8, <2>1
  <2> QED
    BY <1>7, <2>1
<1>9. ASSUME Settled, NEW p \in 1..Len(s), NEW q \in 1..Len(s), p < q
      PROVE  Before(s[p], s[q])
  <2>1. ~Precedes(s[q], s[p]) /\ s[p] # s[q]
    BY <1>a, <1>b, <1>9
  <2>2. s[p] \in Ids /\ s[q] \in Ids
    BY <1>a
  <2> QED
    BY <1>9, <2>1, <2>2, BeforeIsTotal DEF Settled
<1>10. ASSUME Settled PROVE Ascending(rows)
  <2> SUFFICES ASSUME NEW p \in DOMAIN rows, NEW q \in DOMAIN rows, p < q
               PROVE  Before(rows[p], rows[q])
    BY DEF Ascending
  <2>1. o + p \in 1..Len(s) /\ o + q \in 1..Len(s) /\ o + p < o + q
    BY <1>3
  <2> QED
    BY <1>3, <1>9, <1>10, <2>1
<1>11. ASSUME Settled, rows # <<>> PROVE Cardinality(PassedOver(rows)) <= ask.offset
  <2>1. m > 0 /\ m \in 1..m /\ Last(rows) = s[o + m] /\ o + m \in 1..Len(s)
    BY <1>3, <1>11 DEF Last
  <2>2. ASSUME NEW i \in PassedOver(rows)
        PROVE  \E p \in 1..Len(s) : s[p] = i /\ p <= o
    <3>1. i \in Due \ Range(rows) /\ ~Before(s[o + m], i)
      BY <2>1 DEF PassedOver
    <3>2. PICK p \in 1..Len(s) : s[p] = i /\ (p <= o \/ p > o + m)
      BY <1>6, <3>1
    <3>3. ~(p > o + m)
      BY <1>9, <1>11, <2>1, <3>1, <3>2
    <3> QED
      BY <3>2, <3>3
  <2>3. PassedOver(rows) \in SUBSET Due
    BY DEF PassedOver
  <2> QED
    BY <1>7, <2>2, <2>3
<1> QED
  BY <1>3, <1>4, <1>8, <1>10, <1>11

\* The condition of a cursor in a chain: true behind its row only, and of all that is due there.
LEMMA BehindCursor ==
  ASSUME PagesTypeOK, AskInv, ByCursor, NEW l \in Ids, NEW i \in Ids,
         plan.after \in NullRefused /\ ask.dir # "none" => values[l] # Null
  PROVE  /\ After(plan.after, plan.nulls, ask.dir, Row(i), Row(l)) => Before(l, i)
         /\ Before(l, i) /\ i \in Due => After(plan.after, plan.nulls, ask.dir, Row(i), Row(l))
<1>1. HasNeeds /\ SoundCursor(plan, page) /\ page.cursor \in {"full", "more", "row", "token"}
  BY CursorIsSound
<1>2. Agree(plan.after, plan.nulls) /\ (plan.after = "search" => "order" \in page.needs)
  BY <1>1 DEF SoundCursor
<1>3. plan.after = "search" => ask.dir # "none" /\ ~Ties
  BY <1>1, <1>2 DEF HasNeeds, ByCursor
<1>4. /\ Row(i) \in Rows /\ Row(i).id = i /\ Row(i).v = values[i]
      /\ Row(l) \in Rows /\ Row(l).id = l /\ Row(l).v = values[l]
  BY RowFacts
<1>5. ask.dir \in Directions
  BY DEF PagesTypeOK
<1>6. plan.nulls = "never" => values[i] # Null /\ values[l] # Null
  BY DEF AskInv, Range, Ids
<1>7. plan.after = "search" => ask.dir # "none" /\ (Row(i).v = Row(l).v => Row(i).id = Row(l).id)
  BY <1>3, <1>4 DEF Ties, IsInjective, Ids
<1>8. /\ After(plan.after, plan.nulls, ask.dir, Row(i), Row(l)) => RowBefore(plan.nulls, ask.dir, Row(l), Row(i))
      /\ RowBefore(plan.nulls, ask.dir, Row(l), Row(i))
           /\ ~(plan.after \in BlindToNull /\ ask.dir # "none" /\ Row(i).v = Null)
         => After(plan.after, plan.nulls, ask.dir, Row(i), Row(l))
  BY <1>2, <1>4, <1>5, <1>6, <1>7, AfterIsBehind
<1>9. i \in Due => ~(plan.after \in BlindToNull /\ ask.dir # "none" /\ values[i] = Null)
  BY DEF Due
<1> QED
  BY <1>4, <1>8, <1>9 DEF Before

\* A later answer goes on behind the last row, and leaves nothing out.
LEMMA LaterAnswer ==
  ASSUME PagesTypeOK, AskInv, ByCursor, ~Refused, Chained(reading), NEW g, g = RowsGiven(reading), g # <<>>,
         NEW s, Lists(s), NEW left, NEW m, NEW rows, Answer(s, 0, left, m, rows), NEW all, all = g \o rows
  PROVE  /\ Ascending(all) /\ Cardinality(PassedOver(all)) <= ask.offset
         /\ m = left => Cardinality(Due \ Range(all)) <= ask.offset
<1> DEFINE l == Last(g)
           n == Len(g)
<1>1. g \in Seq(Ids)
  BY Joined DEF PagesTypeOK, Readings, RowsGiven
<1>2. n \in Nat \ {0} /\ l \in Ids /\ l = g[n]
  BY <1>1 DEF Last
<1>3. /\ reading.cursor = Row(l) /\ Ascending(g) /\ Cardinality(PassedOver(g)) <= ask.offset
      /\ plan.after \in NullRefused /\ ask.dir # "none" => values[l] # Null
  BY DEF Chained
<1>4. Settled
  BY ChainsAreSettled
<1>5. Row(l) # AtStart /\ Steady \subseteq present /\ present \subseteq Ids /\ IsFiniteSet(present)
  BY <1>2, RowFacts
<1>6. /\ rows \in Seq(Ids) /\ Len(rows) = m /\ m \in Nat /\ DOMAIN rows = 1..m /\ Len(s) \in Nat
      /\ m > 0 => m <= Len(s)
      /\ m = left => Len(s) <= m
      /\ \A k \in 1..m : k \in 1..Len(s) /\ rows[k] = s[k]
  BY DEF Answer
<1>7. /\ \A k \in 1..Len(s) : s[k] \in Matching /\ s[k] \in Ids
      /\ \A i \in Matching : \E p \in 1..Len(s) : s[p] = i
      /\ \A p, q \in 1..Len(s) : p < q => ~Precedes(s[q], s[p])
  BY DEF Lists
<1>8. \A p, q \in 1..Len(s) : s[p] = s[q] => p = q
  BY DEF Lists
<1>c. rows \in Seq(Ids) /\ all = g \o rows
  BY DEF Answer
<1>a. /\ all \in Seq(Ids) /\ Len(all) = Len(g) + Len(rows) /\ DOMAIN all = 1..(Len(g) + Len(rows))
      /\ \A k \in 1..Len(g) : all[k] = g[k]
      /\ \A k \in 1..Len(rows) : all[Len(g) + k] = rows[k]
  BY <1>1, <1>c, Joined
<1>9. /\ all \in Seq(Ids) /\ Len(all) = n + m /\ DOMAIN all = 1..(n + m)
      /\ \A k \in 1..n : all[k] = g[k]
      /\ \A k \in 1..m : all[n + k] = rows[k]
  BY <1>6, <1>a
<1>b. n \in Nat /\ m \in Nat /\ DOMAIN g = 1..n
  BY <1>1, <1>2, <1>6
<1> HIDE DEF l, n
<1>10. ASSUME NEW i \in Matching PROVE i \in Ids /\ Before(l, i)
  <2>1. i \in Ids /\ After(plan.after, plan.nulls, ask.dir, Row(i), Row(l))
    BY <1>3, <1>5 DEF Matching
  <2> QED
    BY <1>2, <1>3, <2>1, BehindCursor
<1>11. ASSUME NEW i \in Due, i \notin Matching PROVE ~Before(l, i)
  <2>1. i \in present /\ i \in Ids
    BY <1>5 DEF Due
  <2>2. ~After(plan.after, plan.nulls, ask.dir, Row(i), Row(l))
    BY <1>3, <1>11, <2>1 DEF Matching
  <2> QED
    BY <1>2, <1>3, <2>1, <2>2, BehindCursor
<1>12. ASSUME NEW p \in 1..Len(s), NEW q \in 1..Len(s), p < q
       PROVE  Before(s[p], s[q])
  <2>1. ~Precedes(s[q], s[p]) /\ s[p] # s[q]
    BY <1>7, <1>8, <1>12
  <2>2. s[p] \in Ids /\ s[q] \in Ids
    BY <1>7
  <2> QED
    BY <1>4, <2>1, <2>2, BeforeIsTotal DEF Settled
<1>13. Range(g) \subseteq Range(all) /\ Range(rows) \subseteq Range(all)
  <2>1. ASSUME NEW k \in DOMAIN g PROVE g[k] \in Range(all)
    <3>1. k \in DOMAIN all /\ all[k] = g[k]
      BY <1>9, <1>b
    <3> QED
      BY <3>1 DEF Range
  <2>2. ASSUME NEW k \in DOMAIN rows PROVE rows[k] \in Range(all)
    <3>1. n + k \in DOMAIN all /\ all[n + k] = rows[k]
      BY <1>6, <1>9, <1>b
    <3> QED
      BY <3>1 DEF Range
  <2> QED
    BY <2>1, <2>2 DEF Range
<1>14. Ascending(all)
  <2> SUFFICES ASSUME NEW p \in 1..(n + m), NEW q \in 1..(n + m), p < q
               PROVE  Before(all[p], all[q])
    BY <1>9 DEF Ascending
  <2>1. CASE q <= n
    BY <1>1, <1>2, <1>3, <1>6, <1>9, <2>1 DEF Ascending, n
  <2>2. CASE p <= n /\ q > n
    <3>1. q - n \in 1..m /\ n + (q - n) = q
      BY <1>2, <1>6, <2>2
    <3>2. all[q] = s[q - n] /\ q - n \in 1..Len(s)
      BY <1>6, <1>9, <3>1
    <3>6. all[q] \in Matching
      BY <1>7, <3>2
    <3>3. all[q] \in Ids /\ Before(l, all[q])
      BY <1>10, <3>6
    <3>4. all[p] = g[p] /\ p \in DOMAIN g /\ n \in DOMAIN g /\ g[p] \in Ids
      BY <1>1, <1>2, <1>9, <2>2 DEF n
    <3>5. g[p] = l \/ Before(g[p], l)
      BY <1>2, <1>3, <2>2, <3>4 DEF Ascending
    <3> QED
      BY <1>2, <3>3, <3>4, <3>5, BeforeIsTotal
  <2>3. CASE p > n
    <3>1. q - n \in 1..m /\ n + (q - n) = q /\ p - n \in 1..m /\ n + (p - n) = p /\ p - n < q - n
      BY <1>2, <1>6, <2>3
    <3>2. all[p] = s[p - n] /\ p - n \in 1..Len(s)
      BY <1>6, <1>9, <3>1
    <3>3. all[q] = s[q - n] /\ q - n \in 1..Len(s)
      BY <1>6, <1>9, <3>1
    <3>4. Before(s[p - n], s[q - n])
      BY <1>12, <3>1, <3>2, <3>3
    <3> QED
      BY <3>2, <3>3, <3>4
  <2>4. p \in Int /\ q \in Int
    BY <1>b
  <2>5. q <= n \/ (p <= n /\ q > n) \/ p > n
    BY <1>b, <2>4
  <2> QED
    BY <2>1, <2>2, <2>3, <2>5
<1>15. ask.offset \in Nat
  BY DEF PagesTypeOK
<1>16. IsFiniteSet(PassedOver(g))
  BY <1>5, FS_Subset, PassedOver(g) \in SUBSET present DEF PassedOver, Due
<1>17. ASSUME NEW T \in SUBSET PassedOver(g) PROVE Cardinality(T) <= ask.offset
  <2>1. IsFiniteSet(T) /\ Cardinality(T) <= Cardinality(PassedOver(g))
    BY <1>16, FS_Subset
  <2>2. Cardinality(T) \in Nat /\ Cardinality(PassedOver(g)) \in Nat
    BY <1>16, <2>1, FS_CardinalityType
  <2> QED
    BY <1>3, <1>15, <2>1, <2>2
<1>18. ASSUME NEW i \in Due \ Range(all), i \notin Matching PROVE i \in PassedOver(g)
  BY <1>11, <1>13, <1>18 DEF PassedOver, l
<1>19. ASSUME NEW i \in Due \ Range(all), i \in Matching
       PROVE  \E p \in 1..Len(s) : s[p] = i /\ p > m
  <2>1. PICK p \in 1..Len(s) : s[p] = i
    BY <1>7, <1>19
  <2>2. ~(p \in 1..m)
    BY <1>6, <1>13, <2>1 DEF Range
  <2> QED
    BY <1>6, <2>1, <2>2
<1>20. ASSUME m = left PROVE Cardinality(Due \ Range(all)) <= ask.offset
  <2>1. ASSUME NEW i \in Due \ Range(all) PROVE i \in PassedOver(g)
    BY <1>6, <1>18, <1>19, <1>20
  <2> QED
    BY <1>17, <2>1
<1>21. Cardinality(PassedOver(all)) <= ask.offset
  <2>1. CASE m = 0
    <3>1. Last(all) = l /\ Range(all) = Range(g)
      <4>1. rows = <<>>
        BY <1>6, <2>1
      <4>2. all = g
        BY <1>1, <4>1
      <4> QED
        BY <4>2 DEF l
    <3> QED
      BY <1>17, <3>1, PassedOver(all) \in SUBSET PassedOver(g) DEF PassedOver, l
  <2>2. CASE m > 0
    <3>1. m \in 1..m /\ Last(all) = s[m] /\ m \in 1..Len(s)
      BY <1>2, <1>6, <1>9, <2>2 DEF Last
    <3>2. ASSUME NEW i \in PassedOver(all) PROVE i \in PassedOver(g)
      <4>1. i \in Due \ Range(all) /\ ~Before(s[m], i)
        BY <3>1 DEF PassedOver
      <4>2. i \notin Matching
        BY <1>12, <1>19, <3>1, <4>1
      <4> QED
        BY <1>18, <4>1, <4>2
    <3> QED
      BY <1>17, <3>2
  <2> QED
    BY <1>6, <2>1, <2>2
<1> QED
  BY <1>14, <1>20, <1>21

-----------------------------------------------------------------------------
(* What a step that leaves the query alone has to keep. *)

\* What ends, in terms of a caller's progress and of whether the other client has written.
Exact(r) == IsInjective(r.given) /\ Cardinality(Due \ Range(r.given)) <= ask.offset
Chain(r, c) ==
  (/\ r.at = "ended" /\ (MayChain \/ Scans)
   /\ ~(plan.after = "search" /\ Ties) /\ ~(BindsOffset /\ ask.offset # 0)
   /\ ~(Scans /\ (c \/ ask.limit # NoLimit)) /\ ~(Windowed /\ (c \/ Ties))) => Exact(r)
WholeAnswer(r) ==
  (r.at = "ended" /\ ~MayChain /\ source \notin CutsSilently /\ ~Scans)
  => (ask.limit # NoLimit /\ Len(r.given) = ask.limit) \/ Cardinality(Due \ Range(r.given)) <= ask.offset

\* While the query stays, what it rests on is a matter of the progress alone.
LEMMA SameQuery ==
  ASSUME source' = source, ask' = ask, values' = values
  PROVE  /\ AskInv' <=> AskInv
         /\ SingleInv(reading)' <=> SingleInv(reading')
         /\ ChainIsExact' <=> Chain(reading', churned')
         /\ AnswerIsWhole' <=> WholeAnswer(reading')
         /\ CursorInv(reading)' <=> CursorInv(reading')
<1>1. plan' = plan /\ page' = page /\ Ids' = Ids /\ Steady' = Steady
  BY DEF plan, page, Ids, Steady
<1>2. (MayChain' <=> MayChain) /\ (Scans' <=> Scans) /\ (Ties' <=> Ties) /\ (Windowed' <=> Windowed)
  BY DEF MayChain, Scans, Ties, Windowed, page, IsInjective, HasNeeds
<1>3. (BindsOffset' <=> BindsOffset) /\ (Refused' <=> Refused)
  BY DEF BindsOffset, Refused, page, plan
<1>4. Due' = Due
  BY DEF Due, plan, Steady, Ids
<1>5. ByCursor' <=> ByCursor
  BY <1>2, <1>3 DEF ByCursor, plan
<1>6. AskInv' <=> AskInv
  BY <1>1 DEF AskInv
<1>7. SingleInv(reading)' <=> SingleInv(reading')
  BY <1>2 DEF SingleInv
<1>8. ChainIsExact' <=> Chain(reading', churned')
  BY <1>1, <1>2, <1>3, <1>4 DEF ChainIsExact, Chain, Undelivered, Exact
<1>9. AnswerIsWhole' <=> WholeAnswer(reading')
  BY <1>1, <1>2, <1>3, <1>4 DEF AnswerIsWhole, WholeAnswer, Undelivered
<1>10. CursorInv(reading)' <=> CursorInv(reading')
  BY <1>1, <1>2, <1>3, <1>4, <1>5 DEF CursorInv, Chained, Ascending, PassedOver, RowsGiven, Before, Row
<1> QED
  BY <1>6, <1>7, <1>8, <1>9, <1>10

\* While the rows stay too, so is what a chain by offsets rests on.
LEMMA SamePlace ==
  ASSUME source' = source, ask' = ask, values' = values, present' = present
  PROVE  OffsetInv(reading, churned)' <=> OffsetInv(reading', churned')
<1>1. plan' = plan /\ page' = page
  BY DEF plan, page
<1>2. (Scans' <=> Scans) /\ (Ties' <=> Ties) /\ (Windowed' <=> Windowed)
  BY DEF Scans, Ties, Windowed, page, IsInjective
<1>3. \A S : Orderings(S)' = Orderings(S)
  BY <1>1 DEF Orderings, Precedes, Row, Fixed
<1>4. \A rows, o : Tracks(rows, o)' <=> Tracks(rows, o)
  BY <1>3 DEF Tracks, Follows
<1> QED
  BY <1>1, <1>2, <1>4 DEF OffsetInv, ByOffset, Start

-----------------------------------------------------------------------------
(* What an answer may be. *)

\* What a chain by cursor has given so far, with one more answer.
LEMMA ChainStep ==
  ASSUME PagesTypeOK, AskInv, ByCursor, CursorInv(reading), reading.at = "asking",
         NEW s, Lists(s), NEW left, NEW m, NEW rows, Answer(s, reading.offset, left, m, rows),
         NEW all, all = RowsGiven(reading) \o rows
  PROVE  /\ all \in Seq(Ids) /\ IsInjective(all)
         /\ m = left => Cardinality(Due \ Range(all)) <= ask.offset
         /\ ~Refused => Ascending(all) /\ (all # <<>> => Cardinality(PassedOver(all)) <= ask.offset)
<1>1. Chained(reading) /\ (Refused => RowsGiven(reading) = <<>>)
  BY DEF CursorInv
<1>2. RowsGiven(reading) \in Seq(Ids) /\ reading.offset \in Nat /\ ask.offset \in Nat
  BY Joined DEF PagesTypeOK, Readings, RowsGiven
<1>3. rows \in Seq(Ids)
  BY DEF Answer
<1>4. all \in Seq(Ids)
  BY <1>2, <1>3, Joined
<1>5. CASE RowsGiven(reading) = <<>>
  <2>1. reading.cursor = AtStart /\ reading.offset <= ask.offset
    BY <1>1, <1>5 DEF Chained
  <2>2. all = rows
    BY <1>3, <1>5
  <2>3. /\ IsInjective(rows) /\ (m = left => Cardinality(Due \ Range(rows)) <= ask.offset)
        /\ Settled => Ascending(rows) /\ (rows # <<>> => Cardinality(PassedOver(rows)) <= ask.offset)
    BY <1>2, <2>1, FirstAnswer
  <2>4. ~Refused => Settled
    BY ChainsAreSettled
  <2> QED
    BY <1>4, <2>2, <2>3, <2>4
<1>6. CASE RowsGiven(reading) # <<>>
  <2>1. reading.offset = 0 /\ ~Refused
    BY <1>1, <1>2, <1>6 DEF Chained
  <2>2. Answer(s, 0, left, m, rows)
    BY <2>1
  <2>3. /\ Ascending(all) /\ Cardinality(PassedOver(all)) <= ask.offset
        /\ m = left => Cardinality(Due \ Range(all)) <= ask.offset
    BY <1>1, <1>6, <2>1, <2>2, LaterAnswer
  <2> QED
    BY <1>4, <2>3, AscendingIsInjective
<1> QED
  BY <1>5, <1>6

\* How many rows a request wants.
LEMMA WantedFacts ==
  ASSUME PagesTypeOK
  PROVE  /\ Wanted \in Int /\ Sentinel \in {0, 1}
         /\ page.sentinel = "never" => Sentinel = 0
         /\ page.sentinel = "always" => Sentinel = 1
         /\ page.sentinel = "unlimited" /\ ask.limit = NoLimit => Sentinel = 1
         /\ ask.limit # NoLimit => Wanted = ask.limit - Len(reading.got)
         /\ ask.limit = NoLimit /\ page.unlimited = "all" => Wanted = Cardinality(Ids)
         /\ page.unlimited \in {"all", "cap"} /\ (ask.limit # NoLimit => Len(reading.got) < ask.limit) => Wanted >= 1
<1>1. PageCap \in Nat \ {0} /\ Cardinality(Ids) \in Nat \ {0}
  BY RowFacts, PagesAssumption
<1>2. ask.limit \in Nat /\ ask.offset \in Nat /\ Len(reading.got) \in Nat
  BY DEF PagesTypeOK, Readings
<1>3. /\ ask.limit # NoLimit => Wanted = ask.limit - Len(reading.got)
      /\ ask.limit = NoLimit => Wanted = IF page.unlimited = "cap" THEN PageCap
                                         ELSE IF page.unlimited = "budget" THEN PageCap - ask.offset
                                         ELSE Cardinality(Ids)
  BY DEF Wanted
<1>4. Sentinel \in {0, 1}
  BY DEF Sentinel
<1>5. /\ page.sentinel = "never" => Sentinel = 0
      /\ page.sentinel = "always" => Sentinel = 1
      /\ page.sentinel = "unlimited" /\ ask.limit = NoLimit => Sentinel = 1
  BY DEF Sentinel
<1> QED
  BY <1>1, <1>2, <1>3, <1>4, <1>5

\* How many of the rows that are left the service returns, and how many of those are kept.
Reply(left, n, m, token) ==
  /\ n \in Int /\ n <= left /\ n <= Wanted + Sentinel
  /\ ~page.short => n = Wanted + Sentinel \/ n = left
  /\ page.short /\ page.cursor = "row" /\ Wanted + Sentinel > 0 /\ left > 0 => n > 0
  /\ page.short /\ n < left => token = TRUE
  /\ m = IF n <= Wanted THEN (IF n < 0 THEN 0 ELSE n) ELSE (IF Wanted < 0 THEN 0 ELSE Wanted)

\* The caller's progress after an answer.
Turned(rows) == IF rows = <<>> THEN reading.cursor ELSE Row(Last(rows))
Progress(at, got, given, cursor, offset) ==
  /\ reading' \in Readings
  /\ reading'.at = at /\ reading'.got = got /\ reading'.given = given
  /\ reading'.cursor = cursor /\ reading'.offset = offset
Failed == reading' \in Readings /\ reading'.at = "failed"

\* Every answer is one of these.
Outcome(rows, beyond, token) ==
  \/ Failed
  \/ GoesOn(rows, token) /\ Progress("asking", reading.got \o rows, reading.given, Turned(rows), 0)
  \/ /\ ~Throws(rows, beyond, token) /\ Continues(rows, beyond, token)
     /\ Progress("answered", <<>>, reading.given \o (reading.got \o rows), Turned(rows), 0)
  \/ /\ ~Throws(rows, beyond, token) /\ ~GoesOn(rows, token) /\ ~Continues(rows, beyond, token)
     /\ Progress("ended", <<>>, reading.given \o (reading.got \o rows), Turned(rows), 0)

\* The last of some rows.
LEMMA LastRow ==
  ASSUME NEW S, NEW s \in Seq(S), s # <<>>
  PROVE  Last(s) \in S
<1>1. Len(s) \in 1..Len(s)
  OBVIOUS
<1> QED
  BY <1>1 DEF Last

Cursors == {AtStart} \union {Row(i) : i \in Ids}

\* What the service returns is a reply.
LEMMA Replies ==
  ASSUME PagesTypeOK, NEW rest, Len(rest) \in Nat, NEW n \in Returned(rest),
         NEW token \in (IF page.short THEN Tokens(rest, n) ELSE {FALSE}),
         NEW m, m = (IF Min({n, Wanted}) < 0 THEN 0 ELSE Min({n, Wanted}))
  PROVE  Reply(Len(rest), n, m, token)
<1> DEFINE left == Len(rest)
           most == Min({Wanted + Sentinel, left})
<1>1. Wanted \in Int /\ Sentinel \in {0, 1} /\ left \in Nat
  BY WantedFacts
<1>2. most = IF Wanted + Sentinel <= left THEN Wanted + Sentinel ELSE left
  <2>1. Wanted + Sentinel \in Int /\ left \in Int
    BY <1>1
  <2> QED
    BY <2>1, Lesser
<1>3. /\ ~page.short => n = most
      /\ page.short /\ page.cursor = "row" /\ most > 0 => n \in 1..most
      /\ page.short => n \in 1..most \/ n \in 0..most
  BY DEF Returned
<1> HIDE DEF most, left
<1>4. n \in Int /\ n <= most
  BY <1>1, <1>2, <1>3
<1>5. n <= left /\ n <= Wanted + Sentinel
  BY <1>1, <1>2, <1>4
<1>6. Min({n, Wanted}) = IF n <= Wanted THEN n ELSE Wanted
  BY <1>1, <1>4, Lesser
<1>7. page.short /\ n < left => token = TRUE
  BY DEF Tokens, left
<1>8. ~page.short => n = Wanted + Sentinel \/ n = left
  BY <1>1, <1>2, <1>3
<1>9. page.short /\ page.cursor = "row" /\ Wanted + Sentinel > 0 /\ left > 0 => n > 0
  BY <1>1, <1>2, <1>3
<1>10. m = IF n <= Wanted THEN (IF n < 0 THEN 0 ELSE n) ELSE (IF Wanted < 0 THEN 0 ELSE Wanted)
  BY <1>6
<1> QED
  BY <1>4, <1>5, <1>7, <1>8, <1>9, <1>10 DEF Reply, left

\* What query() does has one of the outcomes.
LEMMA AnswerOutcome ==
  ASSUME PagesTypeOK, reading.at = "asking", NEW rows \in Seq(Ids), NEW beyond, NEW token,
         NEW here, here = [reading EXCEPT !.got = reading.got \o rows, !.offset = 0, !.cursor = Turned(rows)],
         NEW answer, answer = [here EXCEPT !.given = here.given \o here.got, !.got = <<>>],
         \/ reading' = [reading EXCEPT !.at = "failed"]
         \/ ~Throws(rows, beyond, token) /\ GoesOn(rows, token) /\ reading' = here
         \/ /\ ~Throws(rows, beyond, token) /\ ~GoesOn(rows, token)
            /\ \/ Continues(rows, beyond, token) /\ reading' = [answer EXCEPT !.at = "answered"]
               \/ ~Continues(rows, beyond, token) /\ reading' = [answer EXCEPT !.at = "ended"]
  PROVE  Outcome(rows, beyond, token)
<1> DEFINE got == reading.got \o rows
           given == reading.given \o got
           cursor == Turned(rows)
<1>1. /\ reading \in Readings /\ reading.got \in Seq(Ids) /\ reading.given \in Seq(Ids)
      /\ reading.cursor \in Cursors
  BY DEF PagesTypeOK, Readings, Cursors
<1>2. got \in Seq(Ids) /\ given \in Seq(Ids)
  BY <1>1, Joined
<1>3. cursor \in Cursors
  <2>1. rows # <<>> => Last(rows) \in Ids
    BY LastRow
  <2> QED
    BY <1>1, <2>1 DEF Turned, Cursors
<1>4. here = [reading EXCEPT !.got = got, !.offset = 0, !.cursor = cursor]
  OBVIOUS
<1> HIDE DEF got, cursor
<1>a. Readings = [at : {"asking", "answered", "ended", "failed"}, got : Seq(Ids), given : Seq(Ids),
                  cursor : Cursors, offset : Nat]
  BY DEF Readings, Cursors
<1>b. <<>> \in Seq(Ids)
  OBVIOUS
<1>c. here \in Readings
  <2> DEFINE Set == [at : {"asking", "answered", "ended", "failed"}, got : Seq(Ids), given : Seq(Ids),
                     cursor : Cursors, offset : Nat]
  <2>1. reading \in Set
    BY <1>1, <1>a
  <2>2. [reading EXCEPT !.got = got, !.offset = 0, !.cursor = cursor] \in Set
    BY <1>2, <1>3, <2>1
  <2> HIDE DEF Set
  <2> QED
    BY <1>4, <1>a, <2>2 DEF Set
<1>d. here.at = "asking" /\ here.got = got /\ here.given = reading.given
  BY <1>1, <1>4, <1>a
<1>e. here.cursor = cursor /\ here.offset = 0
  BY <1>1, <1>4, <1>a
<1>5. /\ here \in Readings /\ here.at = "asking" /\ here.got = got /\ here.given = reading.given
      /\ here.cursor = cursor /\ here.offset = 0
  BY <1>c, <1>d, <1>e
<1>6. answer = [here EXCEPT !.given = given, !.got = <<>>]
  BY <1>5
<1> HIDE DEF given
<1>7. /\ answer \in Readings /\ answer.got = <<>> /\ answer.given = given
      /\ answer.cursor = cursor /\ answer.offset = 0
  BY <1>2, <1>5, <1>6, <1>a, <1>b
<1>8. CASE reading' = [reading EXCEPT !.at = "failed"]
  <2>1. Failed
    BY <1>1, <1>8, <1>a DEF Failed
  <2> QED
    BY <2>1 DEF Outcome
<1>9. CASE GoesOn(rows, token) /\ reading' = here
  <2>1. Progress("asking", got, reading.given, cursor, 0)
    BY <1>5, <1>9 DEF Progress
  <2> QED
    BY <1>9, <2>1 DEF Outcome, got, cursor
<1>10. CASE /\ ~Throws(rows, beyond, token) /\ Continues(rows, beyond, token)
            /\ reading' = [answer EXCEPT !.at = "answered"]
  <2>1. Progress("answered", <<>>, given, cursor, 0)
    <3>1. reading' = [answer EXCEPT !.at = "answered"]
      BY <1>10
    <3>2. reading' \in Readings
      BY <1>7, <3>1 DEF Readings
    <3>3. reading'.at = "answered" /\ reading'.got = <<>> /\ reading'.given = given
      BY <1>7, <1>a, <3>1
    <3>4. reading'.cursor = cursor /\ reading'.offset = 0
      BY <1>7, <1>a, <3>1
    <3> QED
      BY <3>2, <3>3, <3>4 DEF Progress
  <2> QED
    BY <1>10, <2>1 DEF Outcome, given, got, cursor
<1>11. CASE /\ ~Throws(rows, beyond, token) /\ ~GoesOn(rows, token) /\ ~Continues(rows, beyond, token)
            /\ reading' = [answer EXCEPT !.at = "ended"]
  <2>1. Progress("ended", <<>>, given, cursor, 0)
    <3>1. reading' = [answer EXCEPT !.at = "ended"]
      BY <1>11
    <3>2. reading' \in Readings
      BY <1>7, <3>1 DEF Readings
    <3>3. reading'.at = "ended" /\ reading'.got = <<>> /\ reading'.given = given
      BY <1>7, <1>a, <3>1
    <3>4. reading'.cursor = cursor /\ reading'.offset = 0
      BY <1>7, <1>a, <3>1
    <3> QED
      BY <3>2, <3>3, <3>4 DEF Progress
  <2> QED
    BY <1>11, <2>1 DEF Outcome, given, got, cursor
<1> QED
  BY <1>8, <1>9, <1>10, <1>11

\* Everything that an answer rests on.
Replied(s, left, n, m, rows, beyond, token) ==
  /\ reading.at = "asking" /\ ~Scans /\ ~Windowed
  /\ Lists(s) /\ Answer(s, reading.offset, left, m, rows) /\ Reply(left, n, m, token)
  /\ (beyond = TRUE <=> n > Wanted) /\ left \in Nat

\* What query() makes of a reply.
Effect(rest, n, token) ==
  LET rows == SubSeq(rest, 1, Min({n, Wanted}))
      beyond == n > Wanted
      here == [reading EXCEPT !.got = @ \o rows, !.offset = 0,
                              !.cursor = IF rows = <<>> THEN @ ELSE Row(Last(rows))]
      answer == [here EXCEPT !.given = @ \o here.got, !.got = <<>>]
  IN \/ Throws(rows, beyond, token) /\ reading' = [reading EXCEPT !.at = "failed"]
     \/ ~Throws(rows, beyond, token) /\ GoesOn(rows, token) /\ reading' = here
     \/ /\ ~Throws(rows, beyond, token) /\ ~GoesOn(rows, token)
        /\ reading' = [answer EXCEPT !.at = IF Continues(rows, beyond, token) THEN "answered" ELSE "ended"]

\* Every answer is the reply to a request, with one of the outcomes.
LEMMA AnswerIsReply ==
  ASSUME PagesTypeOK, AnswerPage
  PROVE  /\ UNCHANGED <<source, ask, values, present, churned>>
         /\ \E s, left, n, m, rows, beyond, token :
              Replied(s, left, n, m, rows, beyond, token) /\ Outcome(rows, beyond, token)
<1>1. reading.at = "asking" /\ UNCHANGED <<source, ask, values, present, churned>>
  BY DEF AnswerPage
<1>2. ~Scans /\ ~Windowed
  BY DEF AnswerPage, Scans, Windowed
<1>3. PICK rest \in Remainders(reading.offset) : \E n \in Returned(rest) :
        \E token \in (IF page.short THEN Tokens(rest, n) ELSE {FALSE}) : Effect(rest, n, token)
  BY DEF AnswerPage, Effect
<1>a. PICK n \in Returned(rest) : \E token \in (IF page.short THEN Tokens(rest, n) ELSE {FALSE}) : Effect(rest, n, token)
  BY <1>3
<1>b. PICK token \in (IF page.short THEN Tokens(rest, n) ELSE {FALSE}) : Effect(rest, n, token)
  BY <1>a
<1> DEFINE rows == SubSeq(rest, 1, Min({n, Wanted}))
           beyond == n > Wanted
           here == [reading EXCEPT !.got = reading.got \o rows, !.offset = 0, !.cursor = Turned(rows)]
           answer == [here EXCEPT !.given = here.given \o here.got, !.got = <<>>]
           m == IF Min({n, Wanted}) < 0 THEN 0 ELSE Min({n, Wanted})
           left == Len(rest)
<1>4. \/ reading' = [reading EXCEPT !.at = "failed"]
      \/ ~Throws(rows, beyond, token) /\ GoesOn(rows, token) /\ reading' = here
      \/ /\ ~Throws(rows, beyond, token) /\ ~GoesOn(rows, token)
         /\ \/ Continues(rows, beyond, token) /\ reading' = [answer EXCEPT !.at = "answered"]
            \/ ~Continues(rows, beyond, token) /\ reading' = [answer EXCEPT !.at = "ended"]
  BY <1>b DEF Effect, Turned
<1>8. PICK s : /\ Lists(s) /\ rest \in Seq(Ids)
               /\ \A k \in Nat : k <= Len(rest) => Answer(s, reading.offset, Len(rest), k, SubSeq(rest, 1, k))
  <2>1. reading.offset \in Nat
    BY DEF PagesTypeOK, Readings
  <2> QED
    BY <2>1, AnswerFacts
<1>9. left \in Nat
  BY <1>8
<1>10. Reply(left, n, m, token)
  BY <1>9, Replies
<1>11. m \in Nat /\ m <= left /\ Min({n, Wanted}) \in Int
  <2>1. n \in Int /\ n <= left /\ Wanted \in Int
    BY <1>10, WantedFacts DEF Reply
  <2>2. Min({n, Wanted}) = IF n <= Wanted THEN n ELSE Wanted
    BY <2>1, Lesser
  <2> QED
    BY <1>9, <2>1, <2>2
<1>12. rows = SubSeq(rest, 1, m)
  <2>1. CASE Min({n, Wanted}) < 0
    <3>1. rows = <<>> /\ m = 0
      BY <1>8, <1>11, <2>1 DEF rows
    <3>2. SubSeq(rest, 1, 0) = <<>>
      BY <1>8
    <3> QED
      BY <3>1, <3>2
  <2>2. CASE ~(Min({n, Wanted}) < 0)
    BY <2>2 DEF rows
  <2> QED
    BY <2>1, <2>2
<1>13. Answer(s, reading.offset, left, m, rows)
  BY <1>8, <1>11, <1>12
<1>14. beyond \in BOOLEAN /\ (beyond = TRUE <=> n > Wanted)
  OBVIOUS
<1> HIDE DEF beyond, m, left
<1>15. rows \in Seq(Ids)
  BY <1>13 DEF Answer
<1>16. here = [reading EXCEPT !.got = reading.got \o rows, !.offset = 0, !.cursor = Turned(rows)]
  BY DEF here
<1>17. answer = [here EXCEPT !.given = here.given \o here.got, !.got = <<>>]
  BY DEF answer
<1>18. Outcome(rows, beyond, token)
  BY <1>1, <1>4, <1>14, <1>15, <1>16, <1>17, AnswerOutcome
<1>19. Replied(s, left, n, m, rows, beyond, token)
  BY <1>1, <1>2, <1>8, <1>9, <1>10, <1>13, <1>14 DEF Replied
<1> QED
  BY <1>1, <1>18, <1>19

-----------------------------------------------------------------------------
(* A page keeps what a chain rests on. *)

\* No rows that follow others.
LEMMA NothingJoined ==
  ASSUME NEW S, NEW g \in Seq(S), NEW all, all = g \o <<>>
  PROVE  all = g
  OBVIOUS

\* A chain by cursor that ends has had everything.
LEMMA EndIsComplete ==
  ASSUME PagesTypeOK, ByCursor, CursorInv(reading), NEW s, NEW left, NEW n, NEW m, NEW rows, NEW beyond, NEW token,
         Replied(s, left, n, m, rows, beyond, token), ~Continues(rows, beyond, token)
  PROVE  m = left
<1>1. HasNeeds /\ SoundCursor(plan, page) /\ page.cursor \in {"full", "more", "row", "token"}
  BY CursorIsSound
<1>2. ask.limit # NoLimit => Len(reading.got) < ask.limit
  BY DEF CursorInv, Replied
<1>3. Wanted \in Int /\ Wanted >= 1 /\ Sentinel \in {0, 1}
  BY <1>1, <1>2, WantedFacts DEF SoundCursor
<1>4. /\ page.cursor = "more" => Sentinel = 1 /\ ~page.short
      /\ page.cursor # "more" => Sentinel = 0
      /\ page.cursor = "full" => ~page.short
      /\ page.cursor = "token" => page.short
  BY <1>1, WantedFacts DEF SoundCursor
<1>5. /\ n \in Int /\ n <= left /\ n <= Wanted + Sentinel /\ left \in Nat
      /\ ~page.short => n = Wanted + Sentinel \/ n = left
      /\ page.short /\ page.cursor = "row" /\ Wanted + Sentinel > 0 /\ left > 0 => n > 0
      /\ page.short /\ n < left => token = TRUE
      /\ m = IF n <= Wanted THEN (IF n < 0 THEN 0 ELSE n) ELSE (IF Wanted < 0 THEN 0 ELSE Wanted)
  BY DEF Replied, Reply
<1>6. rows \in Seq(Ids) /\ Len(rows) = m /\ m \in Nat
  BY DEF Replied, Answer
<1>7. CASE page.cursor = "full"
  <2>1. Len(rows) # Wanted
    BY <1>1, <1>7 DEF Continues
  <2> QED
    BY <1>3, <1>4, <1>5, <1>6, <1>7, <2>1
<1>8. CASE page.cursor = "more"
  <2>1. ~(n > Wanted)
    BY <1>1, <1>8 DEF Continues, Replied
  <2> QED
    BY <1>3, <1>4, <1>5, <1>8, <2>1
<1>9. CASE page.cursor = "row"
  <2>1. rows = <<>>
    BY <1>1, <1>9 DEF Continues
  <2>2. m = 0
    BY <1>6, <2>1
  <2> QED
    BY <1>3, <1>4, <1>5, <1>9, <2>2
<1>10. CASE page.cursor = "token"
  <2>1. token # TRUE
    BY <1>1, <1>10 DEF Continues
  <2> QED
    <3>1. page.short
      BY <1>4, <1>10
    <3>2. ~(n < left)
      BY <1>5, <2>1, <3>1
    <3>3. Sentinel = 0 /\ n \in Int /\ n <= left /\ n <= Wanted + Sentinel /\ left \in Nat
      BY <1>4, <1>5, <1>10
    <3>4. m = IF n <= Wanted THEN (IF n < 0 THEN 0 ELSE n) ELSE (IF Wanted < 0 THEN 0 ELSE Wanted)
      BY <1>5
    <3> QED
      BY <1>3, <3>2, <3>3, <3>4
<1> QED
  BY <1>1, <1>7, <1>8, <1>9, <1>10

\* What the caller has been given, and the cursor, after an answer.
LEMMA AnswerGiven ==
  ASSUME PagesTypeOK, NEW rows \in Seq(Ids),
         \/ Progress("asking", reading.got \o rows, reading.given, Turned(rows), 0)
         \/ Progress("answered", <<>>, reading.given \o (reading.got \o rows), Turned(rows), 0)
         \/ Progress("ended", <<>>, reading.given \o (reading.got \o rows), Turned(rows), 0)
  PROVE  /\ RowsGiven(reading') = RowsGiven(reading) \o rows /\ reading'.cursor = Turned(rows) /\ reading'.offset = 0
         /\ reading'.at # "asking" => reading'.got = <<>> /\ reading'.given = RowsGiven(reading) \o rows
<1>1. reading.got \in Seq(Ids) /\ reading.given \in Seq(Ids)
  BY DEF PagesTypeOK, Readings
<1>2. reading.given \o (reading.got \o rows) = (reading.given \o reading.got) \o rows
  <2> DEFINE g == reading.given
             h == reading.got
  <2>1. g \in Seq(Ids) /\ h \in Seq(Ids)
    BY <1>1
  <2> HIDE DEF g, h
  <2>2. \A t \in Seq(Ids) : g \o (h \o t) = (g \o h) \o t
    BY <2>1
  <2> QED
    BY <2>2 DEF g, h
<1>3. reading.given \o (reading.got \o rows) \in Seq(Ids)
  BY <1>1, Joined
<1>4. (reading.given \o (reading.got \o rows)) \o <<>> = reading.given \o (reading.got \o rows)
  BY <1>3
<1>5. CASE Progress("asking", reading.got \o rows, reading.given, Turned(rows), 0)
  BY <1>2, <1>5 DEF Progress, RowsGiven
<1>6. CASE Progress("answered", <<>>, reading.given \o (reading.got \o rows), Turned(rows), 0)
  BY <1>2, <1>4, <1>6 DEF Progress, RowsGiven
<1>7. CASE Progress("ended", <<>>, reading.given \o (reading.got \o rows), Turned(rows), 0)
  BY <1>2, <1>4, <1>7 DEF Progress, RowsGiven
<1> QED
  BY <1>5, <1>6, <1>7

\* The cursor moves to the last row.
LEMMA CursorMoves ==
  ASSUME PagesTypeOK, AskInv, ByCursor, CursorInv(reading), ~Refused, reading.at = "asking",
         NEW rows \in Seq(Ids), NEW all, all = RowsGiven(reading) \o rows, Ascending(all),
         all # <<>> => Cardinality(PassedOver(all)) <= ask.offset,
         RowsGiven(reading') = all, reading'.cursor = Turned(rows), reading'.offset = 0,
         plan.after \in NullRefused /\ ask.dir # "none" /\ rows # <<>> => values[Last(rows)] # Null
  PROVE  Chained(reading')
<1>1. Chained(reading)
  BY DEF CursorInv
<1>2. RowsGiven(reading) \in Seq(Ids) /\ ask.offset \in Nat
  BY Joined DEF PagesTypeOK, Readings, RowsGiven
<1>3. CASE rows = <<>>
  <2>1. all = RowsGiven(reading) /\ reading'.cursor = reading.cursor
    BY <1>2, <1>3, NothingJoined DEF Turned
  <2> QED
    BY <1>1, <1>2, <2>1 DEF Chained
<1>4. CASE rows # <<>>
  <2>0. reading'.cursor = Row(Last(rows))
    BY <1>4 DEF Turned
  <2>a. all # <<>> /\ Last(all) = Last(rows)
    <3>1. /\ Len(all) = Len(RowsGiven(reading)) + Len(rows) /\ Len(rows) \in 1..Len(rows)
          /\ Len(RowsGiven(reading)) \in Nat
      BY <1>2, <1>4
    <3>2. all[Len(RowsGiven(reading)) + Len(rows)] = rows[Len(rows)]
      BY <1>2, <3>1, Joined
    <3> QED
      BY <3>1, <3>2 DEF Last
  <2>1. all # <<>> /\ Last(all) = Last(rows) /\ reading'.cursor = Row(Last(rows))
    BY <1>4, <2>0, <2>a
  <2> QED
    BY <1>2, <1>4, <2>1 DEF Chained
<1> QED
  BY <1>3, <1>4

\* A page keeps a chain by cursor, and ends it when it is exact.
LEMMA PageKeepsCursor ==
  ASSUME PagesTypeOK, AskInv, CursorInv(reading), ByCursor,
         NEW s, NEW left, NEW n, NEW m, NEW rows, NEW beyond, NEW token,
         Replied(s, left, n, m, rows, beyond, token), Outcome(rows, beyond, token)
  PROVE  CursorInv(reading') /\ (reading'.at = "ended" => Exact(reading'))
<1> DEFINE all == RowsGiven(reading) \o rows
<1>1. reading.at = "asking" /\ Answer(s, reading.offset, left, m, rows) /\ Lists(s)
  BY DEF Replied
<1>2. rows \in Seq(Ids)
  BY <1>1 DEF Answer
<1>3. /\ all \in Seq(Ids) /\ IsInjective(all)
      /\ m = left => Cardinality(Due \ Range(all)) <= ask.offset
      /\ ~Refused => Ascending(all) /\ (all # <<>> => Cardinality(PassedOver(all)) <= ask.offset)
  BY <1>1, ChainStep
<1>4. HasNeeds /\ SoundCursor(plan, page) /\ page.cursor \in {"full", "more", "row", "token"} /\ SoundOffset(plan, page)
  BY CursorIsSound, SourceIsSound DEF Sound
<1> HIDE DEF all
<1>5. CASE Failed
  BY <1>5 DEF Failed, CursorInv
<1>6. CASE GoesOn(rows, token) /\ Progress("asking", reading.got \o rows, reading.given, Turned(rows), 0)
  <2>1. plan.after = "token" /\ (ask.limit = NoLimit \/ Len(rows) < Wanted)
    BY <1>4, <1>6 DEF GoesOn, SoundOffset
  <2>2. ~Refused /\ plan.after \notin NullRefused
    BY <2>1 DEF Refused, NullRefused
  <2>3. RowsGiven(reading') = all /\ reading'.cursor = Turned(rows) /\ reading'.offset = 0
    BY <1>2, <1>6, AnswerGiven DEF all
  <2>4. Chained(reading')
    BY <1>1, <1>2, <1>3, <2>2, <2>3, CursorMoves DEF all
  <2>5. reading'.at = "asking" /\ reading'.got = reading.got \o rows
    BY <1>6 DEF Progress
  <2>6. ask.limit # NoLimit => Len(reading'.got) < ask.limit
    <3>1. ask.limit # NoLimit => Len(rows) < ask.limit - Len(reading.got)
      BY <2>1, WantedFacts
    <3>2. reading.got \in Seq(Ids) /\ ask.limit \in Nat
      BY DEF PagesTypeOK, Readings
    <3>3. Len(reading'.got) = Len(reading.got) + Len(rows)
      BY <1>2, <2>5, <3>2
    <3>4. Len(rows) \in Nat /\ Len(reading.got) \in Nat
      BY <1>2, <3>2
    <3> QED
      BY <3>1, <3>2, <3>3, <3>4
  <2> QED
    BY <2>2, <2>4, <2>5, <2>6 DEF CursorInv
<1>7. CASE /\ ~Throws(rows, beyond, token) /\ Continues(rows, beyond, token)
           /\ Progress("answered", <<>>, reading.given \o (reading.got \o rows), Turned(rows), 0)
  <2>1. reading'.at = "answered" /\ reading'.got = <<>>
    BY <1>7 DEF Progress
  <2>2. plan.after \in NullRefused /\ ask.dir # "none" => values[Last(rows)] # Null
    BY <1>7 DEF Throws
  <2>3. RowsGiven(reading') = all /\ reading'.cursor = Turned(rows) /\ reading'.offset = 0
    BY <1>2, <1>7, AnswerGiven DEF all
  <2>4. ~Refused => Chained(reading')
    BY <1>1, <1>2, <1>3, <2>2, <2>3, CursorMoves DEF all
  <2> QED
    BY <2>1, <2>4 DEF CursorInv
<1>8. CASE /\ ~Throws(rows, beyond, token) /\ ~GoesOn(rows, token) /\ ~Continues(rows, beyond, token)
           /\ Progress("ended", <<>>, reading.given \o (reading.got \o rows), Turned(rows), 0)
  <2>1. reading'.at = "ended"
    BY <1>8 DEF Progress
  <2>2. reading'.given = all
    BY <1>2, <1>8, <2>1, AnswerGiven DEF all
  <2>3. m = left
    BY <1>8, EndIsComplete
  <2> QED
    BY <1>3, <2>1, <2>2, <2>3 DEF CursorInv, Exact
<1> QED
  BY <1>5, <1>6, <1>7, <1>8 DEF Outcome

\* An answer that cannot be continued has what was asked for, or everything.
LEMMA OneIsComplete ==
  ASSUME PagesTypeOK, ~MayChain, reading = FirstCall(ask), source \notin CutsSilently,
         NEW s, NEW left, NEW n, NEW m, NEW rows, NEW beyond, NEW token,
         Replied(s, left, n, m, rows, beyond, token), ~Throws(rows, beyond, token)
  PROVE  (ask.limit # NoLimit /\ m = ask.limit) \/ m = left
<1>1. SoundSingle(plan, page, source) /\ SoundOffset(plan, page)
  BY SourceIsSound DEF Sound
<1>2. page.cursor # "found" /\ source \notin CutsSilently
  BY <1>1 DEF Replied, SoundOffset, Windowed
<1>3. "limit" \in page.needs => ask.limit # NoLimit \/ ~HasNeeds
  BY DEF HasNeeds
<1>4. /\ page.cursor \in {"full", "more", "row", "token", "never"}
      /\ page.needs \subseteq {"limit"}
      /\ page.cursor = "never" \/ "limit" \in page.needs =>
           /\ ~page.short
           /\ page.unlimited = "all" \/ (page.more = "error" /\ page.sentinel \in {"always", "unlimited"})
  BY <1>1, <1>2 DEF SoundSingle
<1>5. page.cursor = "never" \/ "limit" \in page.needs
  BY <1>4 DEF MayChain, HasNeeds
<1>6. Len(reading.got) = 0 /\ ask.limit \in Nat
  BY DEF FirstCall, PagesTypeOK
<1>7. /\ n \in Int /\ n <= left /\ left \in Nat /\ (n = Wanted + Sentinel \/ n = left)
      /\ m = IF n <= Wanted THEN (IF n < 0 THEN 0 ELSE n) ELSE (IF Wanted < 0 THEN 0 ELSE Wanted)
  BY <1>4, <1>5 DEF Replied, Reply
<1>8. Wanted \in Int /\ Sentinel \in {0, 1} /\ (ask.limit # NoLimit => Wanted = ask.limit - Len(reading.got))
  BY WantedFacts
<1>9. CASE ask.limit # NoLimit
  <2>1. Wanted = ask.limit
    BY <1>6, <1>8, <1>9
  <2> QED
    BY <1>6, <1>7, <1>8, <1>9, <2>1
<1>10. CASE ask.limit = NoLimit /\ page.unlimited = "all"
  <2>1. Wanted = Cardinality(Ids)
    BY <1>10, WantedFacts
  <2>2. left <= Cardinality(Matching)
    BY DEF Replied, Answer, Lists, PagesTypeOK, Readings
  <2>3. Cardinality(Matching) <= Cardinality(Ids) /\ Cardinality(Ids) \in Nat /\ Cardinality(Matching) \in Nat
    <3>1. Matching \subseteq Ids /\ IsFiniteSet(Ids)
      BY RowFacts DEF Matching
    <3> QED
      BY <3>1, FS_Subset, FS_CardinalityType
  <2>4. left <= Wanted
    BY <1>7, <1>8, <2>1, <2>2, <2>3
  <2> QED
    BY <1>7, <1>8, <2>4
<1>11. CASE ask.limit = NoLimit /\ page.unlimited # "all"
  <2>1. page.more = "error" /\ page.sentinel \in {"always", "unlimited"}
    BY <1>4, <1>5, <1>11
  <2>2. Sentinel = 1
    BY <1>11, <2>1, WantedFacts
  <2>3. ~(n > Wanted)
    BY <2>1 DEF Throws, Replied
  <2> QED
    BY <1>7, <1>8, <2>2, <2>3
<1> QED
  BY <1>9, <1>10, <1>11

\* A page that cannot be continued is the only one.
LEMMA PageIsOne ==
  ASSUME PagesTypeOK, ~MayChain, SingleInv(reading),
         NEW s, NEW left, NEW n, NEW m, NEW rows, NEW beyond, NEW token,
         Replied(s, left, n, m, rows, beyond, token), Outcome(rows, beyond, token)
  PROVE  SingleInv(reading') /\ WholeAnswer(reading')
<1>1. reading = FirstCall(ask)
  BY DEF SingleInv, Replied
<1>2. /\ reading.cursor = AtStart /\ reading.offset = ask.offset
      /\ reading.got = <<>> /\ reading.given = <<>> /\ ask.offset \in Nat
  BY <1>1 DEF FirstCall, PagesTypeOK
<1>3. Answer(s, ask.offset, left, m, rows) /\ Lists(s)
  BY <1>2 DEF Replied
<1>4. rows \in Seq(Ids) /\ Len(rows) = m
  BY <1>3 DEF Answer
<1>5. m = left => Cardinality(Due \ Range(rows)) <= ask.offset
  BY <1>2, <1>3, FirstAnswer
<1>6. SoundOffset(plan, page)
  BY SourceIsSound DEF Sound
<1>7. ~GoesOn(rows, token)
  BY <1>6 DEF GoesOn, SoundOffset, MayChain, HasNeeds
<1>8. ~Continues(rows, beyond, token)
  BY DEF Continues, MayChain
<1>9. CASE Failed
  BY <1>9 DEF Failed, SingleInv, WholeAnswer
<1>10. CASE /\ ~Throws(rows, beyond, token)
            /\ Progress("ended", <<>>, reading.given \o (reading.got \o rows), Turned(rows), 0)
  <2>1. reading'.at = "ended" /\ reading'.given = rows
    BY <1>2, <1>4, <1>10 DEF Progress
  <2>2. source \notin CutsSilently => (ask.limit # NoLimit /\ m = ask.limit) \/ m = left
    BY <1>1, <1>10, OneIsComplete
  <2> QED
    BY <1>4, <1>5, <2>1, <2>2 DEF SingleInv, WholeAnswer
<1> QED
  BY <1>7, <1>8, <1>9, <1>10 DEF Outcome

\* What a step that changes the progress alone has to keep.
LEMMA ProgressKeeps ==
  ASSUME PagesTypeOK, AskInv, UNCHANGED <<source, ask, values, present, churned>>, reading' \in Readings,
         CursorInv(reading'), OffsetInv(reading', churned), SingleInv(reading'),
         Chain(reading', churned), WholeAnswer(reading')
  PROVE  PagesTypeOK' /\ PagesInv'
<1>1. Readings' = Readings /\ Ids' = Ids /\ Steady' = Steady
  <2>1. Ids' = Ids /\ \A i : Row(i)' = Row(i)
    BY DEF Ids, Row
  <2> QED
    BY <2>1 DEF Readings, Steady, Ids
<1>2. PagesTypeOK'
  BY <1>1 DEF PagesTypeOK
<1>3. AskInv' /\ SingleInv(reading)' /\ ChainIsExact' /\ AnswerIsWhole' /\ CursorInv(reading)'
  BY SameQuery
<1>4. OffsetInv(reading, churned)'
  BY SamePlace
<1> QED
  BY <1>2, <1>3, <1>4 DEF PagesInv

\* A page keeps everything.
LEMMA PageKeeps ==
  ASSUME PagesTypeOK, PagesInv, AnswerPage
  PROVE  PagesTypeOK' /\ PagesInv'
<1>1. UNCHANGED <<source, ask, values, present, churned>>
  BY AnswerIsReply
<1>2. PICK s, left, n, m, rows, beyond, token :
        Replied(s, left, n, m, rows, beyond, token) /\ Outcome(rows, beyond, token)
  BY AnswerIsReply
<1>3. AskInv /\ CursorInv(reading) /\ SingleInv(reading)
  BY DEF PagesInv
<1>4. ~Scans /\ ~Windowed
  BY <1>2 DEF Replied
<1>5. reading' \in Readings
  BY <1>2 DEF Outcome, Progress, Failed
<1>6. ByCursor => CursorInv(reading') /\ (reading'.at = "ended" => Exact(reading'))
  BY <1>2, <1>3, PageKeepsCursor
<1>7. ~MayChain => SingleInv(reading') /\ WholeAnswer(reading')
  BY <1>2, <1>3, PageIsOne
<1>8. CursorInv(reading') /\ SingleInv(reading') /\ WholeAnswer(reading') /\ OffsetInv(reading', churned)
  BY <1>4, <1>6, <1>7 DEF CursorInv, SingleInv, WholeAnswer, OffsetInv, ByOffset
<1>9. Chain(reading', churned)
  BY <1>4, <1>6 DEF Chain, ByCursor
<1> QED
  BY <1>1, <1>3, <1>5, <1>8, <1>9, ProgressKeeps

-----------------------------------------------------------------------------
(* A scan and a window keep what a chain by offsets rests on. *)

\* Under an order that leaves nothing open, every request finds the same list.
LEMMA OneList ==
  ASSUME PagesTypeOK, Settled, reading.cursor = AtStart, NEW s, Lists(s), NEW rows, NEW o
  PROVE  Tracks(rows, o) <=> Follows(rows, s, o)
<1>1. Matching = present /\ present \subseteq Ids /\ IsFiniteSet(present)
  BY RowFacts DEF Matching
<1>2. s \in Orderings(present)
  BY <1>1 DEF Lists
<1>3. ASSUME NEW i \in present, NEW j \in present, i # j
      PROVE  Precedes(i, j) \/ Precedes(j, i)
  BY <1>1, <1>3, BeforeIsTotal DEF Settled
<1>4. \A t \in Orderings(present) : t = s
  BY <1>1, <1>2, <1>3, OneOrdering
<1> QED
  BY <1>2, <1>4 DEF Tracks

\* An answer follows the list that it is of.
LEMMA AnswersFollow ==
  ASSUME NEW s, NEW o, NEW left, NEW m, NEW rows, Answer(s, o, left, m, rows)
  PROVE  rows \in Seq(Ids) /\ Len(rows) = m /\ Follows(rows, s, o)
<1>1. /\ rows \in Seq(Ids) /\ Len(rows) = m /\ DOMAIN rows = 1..m /\ Len(s) \in Nat
      /\ \A k \in 1..m : o + k \in 1..Len(s) /\ rows[k] = s[o + k]
  BY DEF Answer
<1> QED
  BY <1>1 DEF Follows

\* What follows a list, and then what follows it from there.
GoesOnIn(s, o, g, at, rows, all) ==
  /\ o \in Nat /\ g \in Seq(Ids) /\ rows \in Seq(Ids)
  /\ Follows(g, s, o) /\ at = o + Len(g) /\ Follows(rows, s, at) /\ all = g \o rows

\* The two together follow the list.
LEMMA FollowsOn ==
  ASSUME NEW s, NEW o, NEW g, NEW at, NEW rows, NEW all, GoesOnIn(s, o, g, at, rows, all)
  PROVE  Follows(all, s, o) /\ all \in Seq(Ids) /\ Len(all) = Len(g) + Len(rows)
<1>1. o \in Nat /\ g \in Seq(Ids) /\ rows \in Seq(Ids) /\ all = g \o rows
  BY DEF GoesOnIn
<1>2. /\ all \in Seq(Ids) /\ Len(all) = Len(g) + Len(rows) /\ DOMAIN all = 1..(Len(g) + Len(rows))
      /\ \A k \in 1..Len(g) : all[k] = g[k]
      /\ \A k \in 1..Len(rows) : all[Len(g) + k] = rows[k]
  BY <1>1, Joined
<1>3. Len(g) \in Nat /\ DOMAIN g = 1..Len(g) /\ Len(rows) \in Nat /\ DOMAIN rows = 1..Len(rows)
  BY <1>1
<1>4. /\ \A k \in 1..Len(g) : o + k <= Len(s) /\ g[k] = s[o + k]
      /\ \A k \in 1..Len(rows) : (o + Len(g)) + k <= Len(s) /\ rows[k] = s[(o + Len(g)) + k]
  BY <1>3 DEF GoesOnIn, Follows
<1>5. ASSUME NEW k \in 1..(Len(g) + Len(rows)) PROVE o + k <= Len(s) /\ all[k] = s[o + k]
  <2>1. CASE k <= Len(g)
    <3>1. k \in 1..Len(g)
      BY <1>3, <2>1
    <3> QED
      BY <1>2, <1>4, <3>1
  <2>2. CASE k > Len(g)
    <3>1. k - Len(g) \in 1..Len(rows) /\ Len(g) + (k - Len(g)) = k /\ (o + Len(g)) + (k - Len(g)) = o + k
      BY <1>1, <1>3, <2>2
    <3>2. o + k <= Len(s) /\ rows[k - Len(g)] = s[o + k]
      BY <1>4, <3>1
    <3>3. all[k] = rows[k - Len(g)]
      BY <1>2, <3>1
    <3> QED
      BY <3>2, <3>3
  <2> QED
    BY <1>3, <2>1, <2>2
<1> QED
  BY <1>2, <1>5 DEF Follows

\* What follows the list from the offset to its end has every row but the offset's.
LEMMA FollowsToTheEnd ==
  ASSUME PagesTypeOK, reading.cursor = AtStart, NEW s, Lists(s), NEW g \in Seq(Ids),
         Follows(g, s, ask.offset), Len(s) <= ask.offset + Len(g)
  PROVE  IsInjective(g) /\ Cardinality(Due \ Range(g)) <= ask.offset
<1>1. Matching = present /\ Due \subseteq present
  BY RowFacts DEF Matching, Due
<1>2. ask.offset \in Nat /\ DOMAIN g = 1..Len(g) /\ Len(g) \in Nat
  BY DEF PagesTypeOK
<1>3. /\ \A p, q \in 1..Len(s) : s[p] = s[q] => p = q
      /\ \A i \in present : \E p \in 1..Len(s) : s[p] = i
      /\ s \in Seq(Ids)
  BY <1>1 DEF Lists
<1>4. ASSUME NEW k \in 1..Len(g) PROVE ask.offset + k \in 1..Len(s) /\ g[k] = s[ask.offset + k]
  BY <1>2, <1>3 DEF Follows
<1>5. IsInjective(g)
  <2> SUFFICES ASSUME NEW p \in 1..Len(g), NEW q \in 1..Len(g), g[p] = g[q] PROVE p = q
    BY <1>2 DEF IsInjective
  <2>1. ask.offset + p \in 1..Len(s) /\ ask.offset + q \in 1..Len(s) /\ s[ask.offset + p] = s[ask.offset + q]
    BY <1>4
  <2>2. \A a, b \in 1..Len(s) : s[a] = s[b] => a = b
    BY <1>3
  <2> DEFINE a == ask.offset + p
             b == ask.offset + q
  <2> HIDE DEF a, b
  <2>3. a \in 1..Len(s) /\ b \in 1..Len(s) /\ s[a] = s[b]
    BY <2>1 DEF a, b
  <2>4. a = b
    BY <2>2, <2>3
  <2> QED
    BY <1>2, <2>4 DEF a, b
<1>6. ASSUME NEW i \in Due \ Range(g) PROVE \E p \in 1..ask.offset : s[p] = i
  <2>1. PICK p \in 1..Len(s) : s[p] = i
    BY <1>1, <1>3
  <2>2. ASSUME p > ask.offset PROVE FALSE
    <3>1. p - ask.offset \in 1..Len(g) /\ ask.offset + (p - ask.offset) = p
      BY <1>2, <1>3, <2>2
    <3>2. g[p - ask.offset] = i
      BY <1>4, <2>1, <3>1
    <3> QED
      BY <1>2, <3>1, <3>2 DEF Range
  <2> QED
    BY <1>2, <1>3, <2>1, <2>2
<1>7. Cardinality(Due \ Range(g)) <= ask.offset
  BY <1>2, <1>6, FewRows
<1> QED
  BY <1>5, <1>7

\* Where a chain by offsets goes on, its order leaves nothing open.
LEMMA OffsetsAreSettled ==
  ASSUME PagesTypeOK, AskInv, ByOffset
  PROVE  Settled
<1>1. SoundOffset(plan, page)
  BY SourceIsSound DEF Sound
<1>2. CASE Scans
  <2>1. Fixed
    BY <1>1, <1>2 DEF Scans, SoundOffset, Fixed
  <2> QED
    BY <2>1, FixedIsSettled
<1>3. CASE Windowed /\ ~Ties
  <2>1. ask.dir # "none"
    BY <1>1, <1>3 DEF Windowed, SoundOffset, AskInv
  <2> QED
    BY <1>3, <2>1, FixedIsSettled
<1> QED
  BY <1>2, <1>3 DEF ByOffset

\* Where a step moves the caller to, is well formed.
LEMMA Moved ==
  ASSUME PagesTypeOK, NEW at \in {"asking", "answered", "ended", "failed"}, NEW got \in Seq(Ids),
         NEW given \in Seq(Ids), NEW offset \in Nat,
         reading' = [reading EXCEPT !.at = at, !.got = got, !.given = given, !.offset = offset]
  PROVE  Progress(at, got, given, reading.cursor, offset)
<1>1. reading \in Readings
  BY DEF PagesTypeOK
<1>2. Readings = [at : {"asking", "answered", "ended", "failed"}, got : Seq(Ids), given : Seq(Ids),
                  cursor : Cursors, offset : Nat]
  BY DEF Readings, Cursors
<1>3. reading' \in Readings
  BY <1>1, <1>2
<1>4. reading'.at = at /\ reading'.got = got /\ reading'.given = given
  BY <1>1, <1>2
<1>5. reading'.cursor = reading.cursor /\ reading'.offset = offset
  BY <1>1, <1>2
<1> QED
  BY <1>3, <1>4, <1>5 DEF Progress

\* A request that failed.
LEMMA MovedToFailed ==
  ASSUME PagesTypeOK, reading' = [reading EXCEPT !.at = "failed"]
  PROVE  Failed
<1>1. reading \in Readings
  BY DEF PagesTypeOK
<1> QED
  BY <1>1 DEF Failed, Readings

\* A request of a scan has one of three outcomes.
Scanned(rows, m, left) ==
  \/ Failed
  \/ Progress("asking", reading.got, reading.given \o rows, reading.cursor, reading.offset + m)
  \/ /\ ask.limit = NoLimit => m = left
     /\ Progress("ended", reading.got, reading.given \o rows, reading.cursor, reading.offset + m)

\* Every request of a scan is answered so.
LEMMA ScanOutcome ==
  ASSUME PagesTypeOK, ScanNext
  PROVE  /\ UNCHANGED <<source, ask, values, present, churned>> /\ reading.at = "asking" /\ Scans
         /\ \E s, left, m, rows :
              Lists(s) /\ Answer(s, reading.offset, left, m, rows) /\ Scanned(rows, m, left)
<1>1. UNCHANGED <<source, ask, values, present, churned>> /\ reading.at = "asking" /\ Scans
  BY DEF ScanNext
<1>2. /\ reading \in Readings /\ reading.offset \in Nat /\ reading.given \in Seq(Ids) /\ reading.got \in Seq(Ids)
      /\ ask.limit \in Nat
  BY DEF PagesTypeOK, Readings
<1>3. PICK rest \in Remainders(reading.offset) :
        LET rows == SubSeq(rest, 1, Min({ScanLimit, Len(rest)}))
            done == Len(rows) < ScanLimit \/ (ask.limit # NoLimit /\ Len(rows) = Left)
        IN \/ Len(rows) > Left /\ reading' = [reading EXCEPT !.at = "failed"]
           \/ /\ Len(rows) <= Left
              /\ reading' = [reading EXCEPT !.given = @ \o rows, !.offset = @ + Len(rows),
                                            !.at = IF done THEN "ended" ELSE @]
  BY DEF ScanNext
<1>4. PICK s : /\ Lists(s) /\ rest \in Seq(Ids)
               /\ \A k \in Nat : k <= Len(rest) => Answer(s, reading.offset, Len(rest), k, SubSeq(rest, 1, k))
  BY <1>2, AnswerFacts
<1> DEFINE least == Min({ScanLimit, Len(rest)})
           m == IF least < 0 THEN 0 ELSE least
           rows == SubSeq(rest, 1, least)
<1>5. Left \in Int /\ ScanLimit \in Int
  <2>1. Len(reading.given) \in Nat /\ ScanCap \in Nat /\ ScanPage \in Nat
    BY <1>2, PagesAssumption
  <2>2. Left \in Int
    BY <1>2, <2>1 DEF Left
  <2> DEFINE more == IF ask.limit = NoLimit THEN Left + 1 ELSE Left
  <2>3. more \in Int
    BY <2>2
  <2>4. ScanLimit = Min({ScanPage, more})
    BY DEF ScanLimit
  <2> HIDE DEF more
  <2>5. ScanPage \in Int
    BY <2>1
  <2>6. Min({ScanPage, more}) = IF ScanPage <= more THEN ScanPage ELSE more
    BY <2>3, <2>5, Lesser
  <2> QED
    BY <2>2, <2>3, <2>4, <2>5, <2>6
<1>6. Len(rest) \in Nat
  BY <1>4
<1>7. least = IF ScanLimit <= Len(rest) THEN ScanLimit ELSE Len(rest)
  BY <1>5, <1>6, Lesser
<1> HIDE DEF least
<1>8. m \in Nat /\ m <= Len(rest) /\ least \in Int /\ (m < ScanLimit => m = Len(rest))
  BY <1>5, <1>6, <1>7
<1>9. rows = SubSeq(rest, 1, m)
  <2>1. CASE least < 0
    <3>1. rows = <<>> /\ m = 0 /\ SubSeq(rest, 1, 0) = <<>>
      BY <1>4, <1>8, <2>1
    <3> QED
      BY <3>1
  <2>2. CASE ~(least < 0)
    BY <2>2
  <2> QED
    BY <2>1, <2>2
<1> HIDE DEF m, rows
<1>10. Answer(s, reading.offset, Len(rest), m, rows)
  BY <1>4, <1>8, <1>9
<1>11. Len(rows) = m /\ rows \in Seq(Ids)
  BY <1>10 DEF Answer
<1>12. reading.given \o rows \in Seq(Ids)
  BY <1>2, <1>11, Joined
<1>13. reading.offset + m \in Nat
  BY <1>2, <1>8
<1> DEFINE done == m < ScanLimit \/ (ask.limit # NoLimit /\ m = Left)
<1>14. \/ reading' = [reading EXCEPT !.at = "failed"]
       \/ done /\ reading' = [reading EXCEPT !.given = reading.given \o rows, !.offset = reading.offset + m, !.at = "ended"]
       \/ reading' = [reading EXCEPT !.given = reading.given \o rows, !.offset = reading.offset + m, !.at = "asking"]
  BY <1>1, <1>3, <1>11 DEF rows, least
<1>15. ASSUME reading' = [reading EXCEPT !.at = "failed"]
       PROVE  Scanned(rows, m, Len(rest))
  <2>1. Failed
    BY <1>15, MovedToFailed
  <2> QED
    BY <2>1 DEF Scanned
<1> DEFINE all == reading.given \o rows
           next == reading.offset + m
           At(at) == [reading EXCEPT !.given = all, !.offset = next, !.at = at]
<1> HIDE DEF all, next
<1>16. ASSUME NEW at \in {"asking", "ended"}, reading' = At(at)
       PROVE  Progress(at, reading.got, all, reading.cursor, next)
  <2>1. reading' = [reading EXCEPT !.at = at, !.got = reading.got, !.given = all, !.offset = next]
    BY <1>2, <1>16 DEF Readings
  <2> QED
    BY <1>2, <1>12, <1>13, <2>1, Moved DEF all, next
<1>17. ASSUME done, reading' = At("ended")
       PROVE  Scanned(rows, m, Len(rest))
  <2>1. ask.limit = NoLimit => m = Len(rest)
    BY <1>8, <1>17
  <2>2. Progress("ended", reading.got, all, reading.cursor, next)
    BY <1>16, <1>17
  <2>3. Progress("ended", reading.got, reading.given \o rows, reading.cursor, reading.offset + m)
    BY <2>2 DEF all, next
  <2> QED
    BY <2>1, <2>3 DEF Scanned
<1>18. ASSUME reading' = At("asking")
       PROVE  Scanned(rows, m, Len(rest))
  <2>1. Progress("asking", reading.got, all, reading.cursor, next)
    BY <1>16, <1>18
  <2>2. Progress("asking", reading.got, reading.given \o rows, reading.cursor, reading.offset + m)
    BY <2>1 DEF all, next
  <2> QED
    BY <2>2 DEF Scanned
<1>19. \/ reading' = [reading EXCEPT !.at = "failed"]
       \/ done /\ reading' = At("ended")
       \/ reading' = At("asking")
  BY <1>14 DEF all, next
<1> HIDE DEF done, At
<1>20. Scanned(rows, m, Len(rest))
  BY <1>15, <1>17, <1>18, <1>19
<1> QED
  BY <1>1, <1>4, <1>10, <1>20

\* A scan keeps what it rests on.
LEMMA ScanKeeps ==
  ASSUME PagesTypeOK, PagesInv, ScanNext
  PROVE  PagesTypeOK' /\ PagesInv'
<1>1. UNCHANGED <<source, ask, values, present, churned>> /\ reading.at = "asking" /\ Scans
  BY ScanOutcome
<1>2. PICK s, left, m, rows : Lists(s) /\ Answer(s, reading.offset, left, m, rows) /\ Scanned(rows, m, left)
  BY ScanOutcome
<1>3. AskInv /\ OffsetInv(reading, churned)
  BY DEF PagesInv
<1>4. SoundOffset(plan, page)
  BY SourceIsSound DEF Sound
<1>5. ~MayChain /\ ~Windowed
  BY <1>1, <1>4 DEF Scans, SoundOffset, MayChain, Windowed
<1>6. reading' \in Readings /\ reading'.at \in {"failed", "asking", "ended"}
  BY <1>2 DEF Scanned, Failed, Progress
<1>7. CursorInv(reading') /\ SingleInv(reading') /\ WholeAnswer(reading')
  BY <1>1, <1>5, <1>6 DEF CursorInv, ByCursor, SingleInv, WholeAnswer
<1> DEFINE all == reading.given \o rows
<1>8. ASSUME ask.limit = NoLimit, ~churned
      PROVE  /\ reading.cursor = AtStart /\ reading.offset = ask.offset + Len(reading.given) /\ reading.got = <<>>
             /\ Follows(all, s, ask.offset) /\ all \in Seq(Ids) /\ Len(all) = Len(reading.given) + m
             /\ Tracks(all, ask.offset)
  <2>1. ByOffset
    BY <1>1, <1>8 DEF ByOffset
  <2>2. /\ reading.cursor = AtStart /\ reading.offset = ask.offset + Len(reading.given)
        /\ Tracks(reading.given, ask.offset) /\ reading.got = <<>>
    BY <1>1, <1>3, <1>8, <2>1 DEF OffsetInv
  <2>3. Settled
    BY <1>3, <2>1, OffsetsAreSettled
  <2>4. Follows(reading.given, s, ask.offset)
    BY <1>2, <2>2, <2>3, OneList
  <2>5. ask.offset \in Nat /\ reading.given \in Seq(Ids)
    BY DEF PagesTypeOK, Readings
  <2>a. all = reading.given \o rows
    OBVIOUS
  <2> HIDE DEF all
  <2>b. rows \in Seq(Ids) /\ Len(rows) = m /\ Follows(rows, s, reading.offset)
    BY <1>2, AnswersFollow
  <2>6. GoesOnIn(s, ask.offset, reading.given, reading.offset, rows, all)
    BY <2>2, <2>4, <2>5, <2>a, <2>b DEF GoesOnIn
  <2>7. Follows(all, s, ask.offset) /\ all \in Seq(Ids) /\ Len(all) = Len(reading.given) + m
    BY <2>6, <2>b, FollowsOn
  <2>8. Tracks(all, ask.offset)
    BY <1>2, <2>2, <2>3, <2>7, OneList
  <2> QED
    BY <2>2, <2>7, <2>8
<1> HIDE DEF all
<1>9. m \in Nat /\ ask.offset \in Nat /\ Len(reading.given) \in Nat
  BY <1>2 DEF Answer, PagesTypeOK, Readings
<1>10. OffsetInv(reading', churned)
  <2> SUFFICES ASSUME ByOffset, ~churned, reading'.at \in {"asking", "answered"}
               PROVE  /\ reading'.cursor = AtStart /\ reading'.offset = ask.offset + Len(reading'.given)
                      /\ Tracks(reading'.given, ask.offset) /\ Tracks(reading'.got, Start(reading'))
                      /\ Scans \/ reading'.at = "answered" => reading'.got = <<>>
    BY DEF OffsetInv
  <2>1. ask.limit = NoLimit
    BY <1>5 DEF ByOffset
  <2>2. Progress("asking", reading.got, all, reading.cursor, reading.offset + m)
    BY <1>2 DEF Scanned, Failed, Progress, all
  <2>3. reading'.cursor = AtStart /\ reading'.given = all /\ reading'.got = <<>> /\ reading'.offset = reading.offset + m
    BY <1>8, <2>1, <2>2 DEF Progress
  <2>4. reading'.offset = ask.offset + Len(all)
    <3>1. Len(all) = Len(reading.given) + m /\ reading.offset = ask.offset + Len(reading.given)
      BY <1>8, <2>1
    <3> QED
      BY <1>9, <2>3, <3>1
  <2>5. \A o : Tracks(<<>>, o)
    BY DEF Tracks, Follows
  <2> QED
    BY <1>8, <2>1, <2>3, <2>4, <2>5
<1>11. Chain(reading', churned)
  <2> SUFFICES ASSUME reading'.at = "ended", ~churned, ask.limit = NoLimit
               PROVE  Exact(reading')
    BY <1>1 DEF Chain
  <2>1. m = left /\ reading'.given = all
    BY <1>2 DEF Scanned, Failed, Progress, all
  <2>2. Len(s) <= reading.offset + m /\ Len(s) \in Nat
    BY <1>2, <2>1 DEF Answer
  <2>3. Len(s) <= ask.offset + Len(all)
    BY <1>8, <1>9, <2>2
  <2>4. IsInjective(all) /\ Cardinality(Due \ Range(all)) <= ask.offset
    BY <1>2, <1>8, <2>3, FollowsToTheEnd
  <2> QED
    BY <2>1, <2>4 DEF Exact
<1> QED
  BY <1>1, <1>3, <1>6, <1>7, <1>10, <1>11, ProgressKeeps

\* Where a window stands.
LEMMA WindowFacts ==
  ASSUME PagesTypeOK
  PROVE  /\ Origin \in Nat /\ WindowEnd \in Nat /\ Limit \in Nat /\ WindowEnd = reading.offset + Limit
         /\ Passed \in Nat /\ Passed = Origin + Len(reading.got)
         /\ reading.offset - Origin \in Nat /\ reading.offset \in Nat /\ Origin = Start(reading)
<1>1. /\ reading.offset \in Nat /\ reading.got \in Seq(Ids) /\ ask.limit \in Nat /\ PageCap \in Nat
  BY PagesAssumption DEF PagesTypeOK, Readings
<1>2. Limit \in Nat
  BY <1>1 DEF Limit
<1>3. Origin = Start(reading) /\ (Origin = 0 \/ Origin = reading.offset)
  BY DEF Origin, Start
<1>4. Origin \in Nat /\ reading.offset - Origin \in Nat
  BY <1>1, <1>3
<1>5. Passed \in Nat
  BY <1>1, <1>4 DEF Passed
<1> QED
  BY <1>1, <1>2, <1>3, <1>4, <1>5 DEF Passed, WindowEnd

\* A request of a window has one of four outcomes.
WindowMoved(rows, got, given) ==
  \/ Failed
  \/ Progress("asking", got, reading.given, reading.cursor, reading.offset)
  \/ /\ Origin + Len(got) = WindowEnd
     /\ Progress("answered", <<>>, given, reading.cursor, WindowEnd)
  \/ /\ Cardinality(present) <= Origin + Len(got)
     /\ Progress("ended", <<>>, given, reading.cursor, reading.offset)

\* Whatever the window returned.
LEMMA WindowPageMoves ==
  ASSUME PagesTypeOK, reading.at = "asking", NEW rows \in Seq(Ids), NEW found, found = Cardinality(present),
         NEW got, got = reading.got \o rows, NEW given, given = reading.given \o InWindow(got),
         reading' = WindowPage(rows, found)
  PROVE  WindowMoved(rows, got, given)
<1>1. reading \in Readings /\ reading.got \in Seq(Ids) /\ reading.given \in Seq(Ids)
  BY DEF PagesTypeOK, Readings
<1>2. got \in Seq(Ids) /\ Len(got) = Len(reading.got) + Len(rows)
  BY <1>1, Joined
<1> DEFINE d == reading.offset - Origin
           in == InWindow(got)
<1>3. in \in Seq(Ids)
  <2>1. d \in Nat /\ in = SubSeq(got, d + 1, Len(got))
    BY WindowFacts DEF InWindow
  <2> HIDE DEF d, in
  <2> QED
    BY <1>2, <2>1, RowsLeft
<1> HIDE DEF in
<1>4. given \in Seq(Ids)
  BY <1>1, <1>3, Joined DEF in
<1> DEFINE all == Origin + Len(got) = WindowEnd
           more == all /\ found > WindowEnd
           fails == \/ ~IsInjective(got)
                    \/ Len(rows) < Size /\ found > Passed + Len(rows)
                    \/ all /\ found > WindowEnd /\ WindowEnd + Limit > OffsetCap
           ends == (all /\ found <= WindowEnd) \/ (~all /\ Len(rows) < Size)
<1>5. \/ fails /\ reading' = [reading EXCEPT !.at = "failed"]
      \/ ~fails /\ more /\ reading' = [[reading EXCEPT !.got = <<>>, !.given = given] EXCEPT !.at = "answered", !.offset = WindowEnd]
      \/ ~fails /\ ends /\ reading' = [[reading EXCEPT !.got = <<>>, !.given = given] EXCEPT !.at = "ended"]
      \/ ~fails /\ reading' = [reading EXCEPT !.got = got]
  BY DEF WindowPage
<1>a. <<>> \in Seq(Ids) /\ WindowEnd \in Nat /\ reading.offset \in Nat
  BY WindowFacts
<1>6. ASSUME reading' = [reading EXCEPT !.at = "failed"]
      PROVE  WindowMoved(rows, got, given)
  <2>1. Failed
    BY <1>6, MovedToFailed
  <2> QED
    BY <2>1 DEF WindowMoved
<1>7. ASSUME more, reading' = [[reading EXCEPT !.got = <<>>, !.given = given] EXCEPT !.at = "answered", !.offset = WindowEnd]
      PROVE  WindowMoved(rows, got, given)
  <2>1. reading' = [reading EXCEPT !.at = "answered", !.got = <<>>, !.given = given, !.offset = WindowEnd]
    BY <1>1, <1>7 DEF Readings
  <2>2. Progress("answered", <<>>, given, reading.cursor, WindowEnd)
    BY <1>4, <1>a, <2>1, Moved
  <2> QED
    BY <1>7, <2>2 DEF WindowMoved
<1>8. ASSUME ~fails, ends, reading' = [[reading EXCEPT !.got = <<>>, !.given = given] EXCEPT !.at = "ended"]
      PROVE  WindowMoved(rows, got, given)
  <2>1. reading' = [reading EXCEPT !.at = "ended", !.got = <<>>, !.given = given, !.offset = reading.offset]
    BY <1>1, <1>8 DEF Readings
  <2>2. Progress("ended", <<>>, given, reading.cursor, reading.offset)
    BY <1>4, <1>a, <2>1, Moved
  <2>3. found <= Origin + Len(got)
    <3>1. Passed + Len(rows) = Origin + Len(got)
      <4>1. Passed = Origin + Len(reading.got) /\ Origin \in Nat
        BY WindowFacts
      <4> QED
        BY <1>1, <1>2, <4>1
    <3>2. Len(rows) < Size => ~(found > Passed + Len(rows))
      BY <1>8
    <3>3. found \in Nat
      BY RowFacts, FS_CardinalityType
    <3>4. Origin + Len(got) \in Nat
      <4>1. Len(got) \in Nat
        BY <1>2
      <4>2. Origin \in Nat
        BY WindowFacts
      <4> QED
        BY <4>1, <4>2
    <3>5. CASE all /\ found <= WindowEnd
      BY <3>5
    <3>6. CASE Len(rows) < Size
      BY <3>1, <3>2, <3>3, <3>4, <3>6
    <3> QED
      BY <1>8, <3>5, <3>6
  <2> QED
    BY <2>2, <2>3 DEF WindowMoved
<1>9. ASSUME reading' = [reading EXCEPT !.got = got]
      PROVE  WindowMoved(rows, got, given)
  <2>1. reading' = [reading EXCEPT !.at = "asking", !.got = got, !.given = reading.given, !.offset = reading.offset]
    BY <1>1, <1>9 DEF Readings
  <2>2. Progress("asking", got, reading.given, reading.cursor, reading.offset)
    BY <1>1, <1>2, <1>a, <2>1, Moved
  <2> QED
    BY <2>2 DEF WindowMoved
<1> QED
  BY <1>5, <1>6, <1>7, <1>8, <1>9

\* Every request of a window is answered so.
LEMMA WindowOutcome ==
  ASSUME PagesTypeOK, WindowNext
  PROVE  /\ UNCHANGED <<source, ask, values, present, churned>> /\ reading.at = "asking" /\ Windowed
         /\ \/ Failed
            \/ \E s, left, m, rows :
                 /\ Lists(s) /\ Answer(s, Passed, left, m, rows)
                 /\ WindowMoved(rows, reading.got \o rows, reading.given \o InWindow(reading.got \o rows))
<1>1. UNCHANGED <<source, ask, values, present, churned>> /\ reading.at = "asking" /\ Windowed
  BY DEF WindowNext
<1>2. CASE reading' = [reading EXCEPT !.at = "failed"]
  BY <1>1, <1>2, MovedToFailed
<1>3. CASE \E rest \in Remainders(Passed) : \E n \in 0..Min({Size, Len(rest)}) :
             reading' = WindowPage(SubSeq(rest, 1, n), Cardinality(present))
  <2>1. PICK rest \in Remainders(Passed) : \E n \in 0..Min({Size, Len(rest)}) :
             reading' = WindowPage(SubSeq(rest, 1, n), Cardinality(present))
    BY <1>3
  <2>2. PICK n \in 0..Min({Size, Len(rest)}) : reading' = WindowPage(SubSeq(rest, 1, n), Cardinality(present))
    BY <2>1
  <2>3. Passed \in Nat
    BY WindowFacts
  <2>4. PICK s : /\ Lists(s) /\ rest \in Seq(Ids)
                 /\ \A k \in Nat : k <= Len(rest) => Answer(s, Passed, Len(rest), k, SubSeq(rest, 1, k))
    BY <2>3, AnswerFacts
  <2> DEFINE rows == SubSeq(rest, 1, n)
  <2>5. n \in Nat /\ n <= Len(rest)
    <3>1. Size \in Int
      <4>1. ScanPage \in Int /\ WindowEnd - Passed \in Int
        BY <2>3, WindowFacts, PagesAssumption
      <4> DEFINE far == WindowEnd - Passed
      <4>2. Size = Min({ScanPage, far}) /\ far \in Int
        BY <4>1 DEF Size
      <4> HIDE DEF far
      <4> QED
        BY <4>1, <4>2, Lesser
    <3>2. Len(rest) \in Int
      BY <2>4
    <3>3. Min({Size, Len(rest)}) = IF Size <= Len(rest) THEN Size ELSE Len(rest)
      BY <3>1, <3>2, Lesser
    <3> QED
      BY <3>1, <3>2, <3>3
  <2>6. Answer(s, Passed, Len(rest), n, rows)
    BY <2>4, <2>5
  <2> HIDE DEF rows
  <2>7. rows \in Seq(Ids)
    BY <2>6 DEF Answer
  <2>8. reading' = WindowPage(rows, Cardinality(present))
    BY <2>2 DEF rows
  <2>9. WindowMoved(rows, reading.got \o rows, reading.given \o InWindow(reading.got \o rows))
    BY <1>1, <2>7, <2>8, WindowPageMoves
  <2> QED
    BY <1>1, <2>4, <2>6, <2>9
<1> QED
  BY <1>2, <1>3 DEF WindowNext

\* The rows of a window are those of the list behind its offset.
LEMMA InWindowFollows ==
  ASSUME PagesTypeOK, NEW s, NEW got \in Seq(Ids), Follows(got, s, Origin), NEW in, in = InWindow(got)
  PROVE  /\ in \in Seq(Ids) /\ Follows(in, s, reading.offset)
         /\ Len(in) = IF reading.offset > Origin + Len(got) THEN 0 ELSE (Origin + Len(got)) - reading.offset
<1> DEFINE d == reading.offset - Origin
<1>1. d \in Nat /\ Origin \in Nat /\ reading.offset \in Nat /\ d = reading.offset - Origin /\ Origin + d = reading.offset
  BY WindowFacts
<1>2. in = SubSeq(got, d + 1, Len(got))
  BY DEF InWindow
<1> HIDE DEF d
<1>3. /\ in \in Seq(Ids) /\ DOMAIN in = 1..(Len(got) - d)
      /\ Len(in) = IF d > Len(got) THEN 0 ELSE Len(got) - d
      /\ \A k \in 1..(Len(got) - d) : in[k] = got[d + k]
  <2>1. d \in Nat
    BY <1>1
  <2> QED
    BY <1>2, <2>1, RowsLeft
<1>4. Len(got) \in Nat /\ DOMAIN got = 1..Len(got)
  OBVIOUS
<1>5. \A k \in 1..Len(got) : Origin + k <= Len(s) /\ got[k] = s[Origin + k]
  BY <1>4 DEF Follows
<1>6. ASSUME NEW k \in 1..(Len(got) - d)
      PROVE  reading.offset + k <= Len(s) /\ in[k] = s[reading.offset + k]
  <2>1. d + k \in 1..Len(got) /\ Origin + (d + k) = reading.offset + k
    <3>1. d \in Nat /\ k \in Nat \ {0} /\ Len(got) \in Nat
      BY <1>1, <1>4
    <3>2. d + k \in 1..Len(got)
      BY <3>1
    <3>3. Origin + (d + k) = (Origin + d) + k
      BY <1>1, <3>1
    <3> QED
      BY <1>1, <3>2, <3>3
  <2>2. Origin + (d + k) <= Len(s) /\ got[d + k] = s[Origin + (d + k)]
    BY <1>5, <2>1
  <2> QED
    BY <1>3, <2>1, <2>2
<1>7. Follows(in, s, reading.offset)
  BY <1>3, <1>6 DEF Follows
<1>8. Len(in) = IF reading.offset > Origin + Len(got) THEN 0 ELSE (Origin + Len(got)) - reading.offset
  <2>1. d > Len(got) <=> reading.offset > Origin + Len(got)
    BY <1>1, <1>4
  <2>2. Len(got) - d = (Origin + Len(got)) - reading.offset
    BY <1>1, <1>4
  <2> QED
    BY <1>3, <2>1, <2>2
<1> QED
  BY <1>3, <1>7, <1>8

\* A window keeps what it rests on.
LEMMA WindowKeeps ==
  ASSUME PagesTypeOK, PagesInv, WindowNext
  PROVE  PagesTypeOK' /\ PagesInv'
<1>1. UNCHANGED <<source, ask, values, present, churned>> /\ reading.at = "asking" /\ Windowed
  BY WindowOutcome
<1>2. AskInv /\ OffsetInv(reading, churned)
  BY DEF PagesInv
<1>3. SoundOffset(plan, page)
  BY SourceIsSound DEF Sound
<1>4. MayChain /\ ~Scans
  BY <1>1, <1>3 DEF Scans, SoundOffset, MayChain, Windowed, HasNeeds
<1>5. reading' \in Readings
  BY WindowOutcome DEF WindowMoved, Failed, Progress
<1>6. CursorInv(reading') /\ SingleInv(reading') /\ WholeAnswer(reading')
  BY <1>1, <1>4 DEF CursorInv, ByCursor, SingleInv, WholeAnswer
<1>7. CASE Failed
  <2>1. OffsetInv(reading', churned) /\ Chain(reading', churned)
    BY <1>7 DEF Failed, OffsetInv, Chain
  <2> QED
    BY <1>1, <1>2, <1>5, <1>6, <2>1, ProgressKeeps
<1>8. CASE Ties \/ churned
  <2>1. OffsetInv(reading', churned) /\ Chain(reading', churned)
    BY <1>1, <1>4, <1>8 DEF OffsetInv, ByOffset, Chain
  <2> QED
    BY <1>1, <1>2, <1>5, <1>6, <2>1, ProgressKeeps
<1>9. CASE ~Failed /\ ~Ties /\ ~churned
  <2> DEFINE Got(rows) == reading.got \o rows
  <2>1. PICK s, left, m, rows :
          /\ Lists(s) /\ Answer(s, Passed, left, m, rows)
          /\ WindowMoved(rows, Got(rows), reading.given \o InWindow(Got(rows)))
    BY <1>9, WindowOutcome
  <2> DEFINE got == Got(rows)
             in == InWindow(got)
             given == reading.given \o in
  <2>2. got = reading.got \o rows
    OBVIOUS
  <2> HIDE DEF Got
  <2>3. ByOffset
    BY <1>1, <1>9 DEF ByOffset
  <2>4. /\ reading.cursor = AtStart /\ reading.offset = ask.offset + Len(reading.given)
        /\ Tracks(reading.given, ask.offset) /\ Tracks(reading.got, Origin)
    <3>1. Origin = Start(reading)
      BY WindowFacts
    <3> QED
      BY <1>1, <1>2, <1>9, <2>3, <3>1 DEF OffsetInv
  <2>5. Settled
    BY <1>2, <2>3, OffsetsAreSettled
  <2>6. Follows(reading.given, s, ask.offset) /\ Follows(reading.got, s, Origin)
    BY <2>1, <2>4, <2>5, OneList
  <2>7. ask.offset \in Nat /\ reading.given \in Seq(Ids) /\ reading.got \in Seq(Ids) /\ Len(reading.given) \in Nat
    BY DEF PagesTypeOK, Readings
  <2>8. /\ Origin \in Nat /\ WindowEnd \in Nat /\ Limit \in Nat /\ WindowEnd = reading.offset + Limit
        /\ Passed = Origin + Len(reading.got) /\ reading.offset \in Nat /\ Origin = Start(reading)
    BY WindowFacts
  <2>9. rows \in Seq(Ids) /\ Follows(rows, s, Passed)
    BY <2>1, AnswersFollow
  <2> HIDE DEF got
  <2>10. GoesOnIn(s, Origin, reading.got, Passed, rows, got)
    BY <2>2, <2>6, <2>7, <2>8, <2>9 DEF GoesOnIn
  <2>11. Follows(got, s, Origin) /\ got \in Seq(Ids)
    BY <2>10, FollowsOn
  <2>a. in = InWindow(got)
    OBVIOUS
  <2> HIDE DEF in
  <2>12. /\ in \in Seq(Ids) /\ Follows(in, s, reading.offset)
         /\ Len(in) = IF reading.offset > Origin + Len(got) THEN 0 ELSE (Origin + Len(got)) - reading.offset
    BY <2>11, <2>a, InWindowFollows
  <2>b. given = reading.given \o in
    OBVIOUS
  <2> HIDE DEF given
  <2>13. GoesOnIn(s, ask.offset, reading.given, reading.offset, in, given)
    BY <2>4, <2>6, <2>7, <2>12, <2>b DEF GoesOnIn
  <2>14. Follows(given, s, ask.offset) /\ given \in Seq(Ids) /\ Len(given) = Len(reading.given) + Len(in)
    BY <2>13, FollowsOn
  <2>15. Tracks(given, ask.offset) /\ Tracks(got, Origin)
    BY <2>1, <2>4, <2>5, <2>11, <2>14, OneList
  <2>16. Len(got) \in Nat /\ Len(s) \in Nat /\ Len(s) = Cardinality(present)
    <3>1. Matching = present
      BY <2>4, RowFacts DEF Matching
    <3> QED
      BY <2>1, <2>11, <3>1 DEF Lists
  <2>17. WindowMoved(rows, got, given)
    BY <2>1, <2>a, <2>b DEF got
  <2>18. CASE Progress("asking", got, reading.given, reading.cursor, reading.offset)
    <3>1. /\ reading'.at = "asking" /\ reading'.got = got /\ reading'.given = reading.given
          /\ reading'.cursor = AtStart /\ reading'.offset = reading.offset
      BY <2>4, <2>18 DEF Progress
    <3>2. Start(reading') = Origin
      BY <2>8, <3>1 DEF Start
    <3>3. OffsetInv(reading', churned)
      BY <1>4, <2>4, <2>15, <3>1, <3>2 DEF OffsetInv
    <3>4. Chain(reading', churned)
      BY <3>1 DEF Chain
    <3> QED
      BY <1>1, <1>2, <1>5, <1>6, <3>3, <3>4, ProgressKeeps
  <2>19. CASE /\ Origin + Len(got) = WindowEnd
              /\ Progress("answered", <<>>, given, reading.cursor, WindowEnd)
    <3>1. /\ reading'.at = "answered" /\ reading'.got = <<>> /\ reading'.given = given
          /\ reading'.cursor = AtStart /\ reading'.offset = WindowEnd
      BY <2>4, <2>19 DEF Progress
    <3>2. Len(in) = Limit
      BY <2>8, <2>12, <2>16, <2>19
    <3>3. reading'.offset = ask.offset + Len(given)
      BY <2>4, <2>7, <2>8, <2>14, <3>1, <3>2
    <3>4. \A o : Tracks(<<>>, o)
      BY DEF Tracks, Follows
    <3>5. OffsetInv(reading', churned)
      BY <2>15, <3>1, <3>3, <3>4 DEF OffsetInv
    <3>6. Chain(reading', churned)
      BY <3>1 DEF Chain
    <3> QED
      BY <1>1, <1>2, <1>5, <1>6, <3>5, <3>6, ProgressKeeps
  <2>20. CASE /\ Cardinality(present) <= Origin + Len(got)
              /\ Progress("ended", <<>>, given, reading.cursor, reading.offset)
    <3>1. reading'.at = "ended" /\ reading'.given = given
      BY <2>20 DEF Progress
    <3>2. Len(s) <= ask.offset + Len(given)
      <4>1. Len(s) <= Origin + Len(got)
        BY <2>16, <2>20
      <4>2. ask.offset + Len(given) = reading.offset + Len(in)
        <5>1. Len(in) \in Nat /\ Len(given) = Len(reading.given) + Len(in)
          BY <2>12, <2>14
        <5> QED
          BY <2>4, <2>7, <5>1
      <4>3. Origin + Len(got) <= reading.offset + Len(in)
        BY <2>8, <2>12, <2>16
      <4> QED
        BY <2>8, <2>12, <2>16, <4>1, <4>2, <4>3
    <3>3. IsInjective(given) /\ Cardinality(Due \ Range(given)) <= ask.offset
      BY <2>1, <2>4, <2>14, <3>2, FollowsToTheEnd
    <3>4. OffsetInv(reading', churned)
      BY <3>1 DEF OffsetInv
    <3>5. Chain(reading', churned)
      BY <3>1, <3>3 DEF Chain, Exact
    <3> QED
      BY <1>1, <1>2, <1>5, <1>6, <3>4, <3>5, ProgressKeeps
  <2> QED
    BY <1>9, <2>17, <2>18, <2>19, <2>20 DEF WindowMoved
<1> QED
  BY <1>7, <1>8, <1>9

-----------------------------------------------------------------------------
(* The other steps, and the whole. *)

\* The next page is asked for where the last one ended.
LEMMA ResumeMoves ==
  ASSUME PagesTypeOK, Resume
  PROVE  /\ UNCHANGED <<source, ask, values, present, churned>> /\ reading.at = "answered"
         /\ \/ Failed
            \/ /\ ~Refused
               /\ Progress("asking", reading.got, reading.given, reading.cursor,
                           IF Windowed THEN reading.offset ELSE IF BindsOffset THEN ask.offset ELSE 0)
<1>1. UNCHANGED <<source, ask, values, present, churned>> /\ reading.at = "answered"
  BY DEF Resume
<1> DEFINE next == IF Windowed THEN reading.offset ELSE IF BindsOffset THEN ask.offset ELSE 0
<1>2. \/ reading' = [reading EXCEPT !.at = "failed"]
      \/ ~Refused /\ reading' = [reading EXCEPT !.at = "asking", !.offset = next]
  BY DEF Resume
<1>3. reading \in Readings /\ reading.got \in Seq(Ids) /\ reading.given \in Seq(Ids) /\ next \in Nat
  BY DEF PagesTypeOK, Readings
<1> HIDE DEF next
<1>4. CASE reading' = [reading EXCEPT !.at = "failed"]
  BY <1>1, <1>4, MovedToFailed
<1>5. CASE ~Refused /\ reading' = [reading EXCEPT !.at = "asking", !.offset = next]
  <2>1. reading' = [reading EXCEPT !.at = "asking", !.got = reading.got, !.given = reading.given, !.offset = next]
    BY <1>3, <1>5 DEF Readings
  <2>2. Progress("asking", reading.got, reading.given, reading.cursor, next)
    BY <1>3, <2>1, Moved
  <2> QED
    BY <1>1, <1>5, <2>2 DEF next
<1> QED
  BY <1>2, <1>4, <1>5

\* Asking for the next page keeps what a chain rests on.
LEMMA ResumeKeeps ==
  ASSUME PagesTypeOK, PagesInv, Resume
  PROVE  PagesTypeOK' /\ PagesInv'
<1>1. UNCHANGED <<source, ask, values, present, churned>> /\ reading.at = "answered"
  BY ResumeMoves
<1>2. AskInv /\ CursorInv(reading) /\ OffsetInv(reading, churned) /\ SingleInv(reading)
  BY DEF PagesInv
<1>3. MayChain /\ SoundOffset(plan, page)
  BY <1>1, <1>2, SourceIsSound DEF SingleInv, Sound
<1>4. ~Scans
  BY <1>3 DEF Scans, SoundOffset, MayChain
<1>5. CASE Failed
  <2>1. /\ reading' \in Readings /\ CursorInv(reading') /\ OffsetInv(reading', churned) /\ SingleInv(reading')
        /\ Chain(reading', churned) /\ WholeAnswer(reading')
    BY <1>3, <1>5 DEF Failed, CursorInv, OffsetInv, SingleInv, Chain, WholeAnswer
  <2> QED
    BY <1>1, <1>2, <2>1, ProgressKeeps
<1> DEFINE next == IF Windowed THEN reading.offset ELSE IF BindsOffset THEN ask.offset ELSE 0
<1>6. CASE ~Refused /\ Progress("asking", reading.got, reading.given, reading.cursor, next)
  <2>1. /\ reading' \in Readings /\ reading'.at = "asking" /\ reading'.got = reading.got
        /\ reading'.given = reading.given /\ reading'.cursor = reading.cursor /\ reading'.offset = next
    BY <1>6 DEF Progress
  <2>2. RowsGiven(reading') = RowsGiven(reading)
    BY <2>1 DEF RowsGiven
  <2>3. ask.offset \in Nat /\ ask.limit \in Nat
    BY DEF PagesTypeOK
  <2>4. CursorInv(reading')
    <3> SUFFICES ASSUME ByCursor
                 PROVE  /\ Chained(reading')
                        /\ ask.limit # NoLimit => Len(reading'.got) < ask.limit
      BY <1>6, <2>1 DEF CursorInv
    <3>1. reading.got = <<>> /\ Chained(reading)
      BY <1>1, <1>2, <1>6 DEF CursorInv
    <3>2. next = 0
      BY DEF ByCursor
    <3>3. reading'.offset <= (IF RowsGiven(reading) = <<>> THEN ask.offset ELSE 0)
      BY <2>1, <2>3, <3>2
    <3>4. Chained(reading')
      BY <2>1, <2>2, <3>1, <3>3 DEF Chained
    <3>5. ask.limit # NoLimit => Len(reading'.got) < ask.limit
      BY <2>1, <2>3, <3>1 DEF NoLimit
    <3> QED
      BY <3>4, <3>5
  <2>5. OffsetInv(reading', churned)
    <3> SUFFICES ASSUME ByOffset, ~churned
                 PROVE  /\ reading'.cursor = AtStart /\ reading'.offset = ask.offset + Len(reading'.given)
                        /\ Tracks(reading'.given, ask.offset) /\ Tracks(reading'.got, Start(reading'))
                        /\ Scans \/ reading'.at = "answered" => reading'.got = <<>>
      BY DEF OffsetInv
    <3>1. Windowed
      BY <1>4 DEF ByOffset
    <3>2. /\ reading.cursor = AtStart /\ reading.offset = ask.offset + Len(reading.given)
          /\ Tracks(reading.given, ask.offset) /\ reading.got = <<>>
      BY <1>1, <1>2 DEF OffsetInv
    <3>3. \A o : Tracks(<<>>, o)
      BY DEF Tracks, Follows
    <3> QED
      BY <2>1, <3>1, <3>2, <3>3
  <2>6. SingleInv(reading') /\ Chain(reading', churned) /\ WholeAnswer(reading')
    BY <1>3, <2>1 DEF SingleInv, Chain, WholeAnswer
  <2> QED
    BY <1>1, <1>2, <2>1, <2>4, <2>5, <2>6, ProgressKeeps
<1> QED
  BY <1>5, <1>6, ResumeMoves

\* What was exact and whole is so in the terms of the steps.
LEMMA WhatEnded ==
  ASSUME PagesInv
  PROVE  Chain(reading, churned) /\ WholeAnswer(reading)
<1>1. Chain(reading, churned)
  BY DEF PagesInv, ChainIsExact, Chain, Undelivered, Exact
<1>2. WholeAnswer(reading)
  BY DEF PagesInv, AnswerIsWhole, WholeAnswer, Undelivered
<1> QED
  BY <1>1, <1>2

\* What the other client writes breaks nothing that a query may count on then.
LEMMA ChurnKeeps ==
  ASSUME PagesTypeOK, PagesInv, Churn
  PROVE  PagesTypeOK' /\ PagesInv'
<1>1. source' = source /\ ask' = ask /\ values' = values /\ reading' = reading /\ churned' = TRUE
  BY DEF Churn
<1>2. Readings' = Readings /\ Ids' = Ids /\ Steady' = Steady
  <2>1. Ids' = Ids /\ \A i : Row(i)' = Row(i)
    BY <1>1 DEF Ids, Row
  <2> QED
    BY <2>1 DEF Readings, Steady, Ids
<1>3. present' \in {Ids, Steady}
  <2>1. present' = IF Churning \in present THEN present \ {Churning} ELSE present \union {Churning}
    BY DEF Churn
  <2>2. Churning \in Ids /\ present \in {Ids, Steady}
    BY RowFacts DEF PagesTypeOK
  <2> QED
    BY <2>1, <2>2 DEF Steady
<1>4. PagesTypeOK'
  BY <1>1, <1>2, <1>3 DEF PagesTypeOK
<1>5. AskInv /\ SingleInv(reading') /\ CursorInv(reading')
  BY <1>1 DEF PagesInv
<1>6. Chain(reading', churned') /\ WholeAnswer(reading')
  <2>1. Chain(reading, churned) /\ WholeAnswer(reading)
    BY WhatEnded
  <2>2. Chain(reading, TRUE)
    BY <2>1 DEF Chain
  <2> QED
    BY <1>1, <2>1, <2>2
<1>7. AskInv' /\ SingleInv(reading)' /\ ChainIsExact' /\ AnswerIsWhole' /\ CursorInv(reading)'
  BY <1>1, <1>5, <1>6, SameQuery
<1>8. OffsetInv(reading, churned)'
  BY <1>1 DEF OffsetInv
<1> QED
  BY <1>4, <1>7, <1>8 DEF PagesInv

\* Before its first request a query has given nothing, and all is right with it.
LEMMA PagesStart ==
  ASSUME PagesInit
  PROVE  PagesTypeOK /\ PagesInv
<1>1. source \in DOMAIN Queries /\ values \in Columns /\ present \in {Ids, Steady} /\ churned = FALSE
  BY DEF PagesInit
<1>2. plan.dirs \subseteq Directions
  BY <1>1, AdaptersAreSound DEF Sound, plan
<1>3. ask \in [limit : Nat, dir : plan.dirs, offset : Nat]
  <2>1. OffsetCap \in Nat /\ Offsets \subseteq Nat
    BY PagesAssumption
  <2>2. {NoLimit} \union Limits \subseteq Nat
    BY PagesAssumption DEF NoLimit
  <2> DEFINE offsets == IF Queries[source].plan.offset = "refused" THEN {0}
                        ELSE IF Queries[source].page.cursor = "found" THEN Offsets \union {OffsetCap} ELSE Offsets
  <2>3. ask \in [limit : {NoLimit} \union Limits, dir : plan.dirs, offset : offsets]
    BY DEF PagesInit, plan
  <2>4. offsets \subseteq Nat
    BY <2>1
  <2> HIDE DEF offsets
  <2> QED
    BY <2>2, <2>3, <2>4
<1>4. ask \in [limit : Nat, dir : Directions, offset : Nat] /\ ask.dir \in plan.dirs
  BY <1>2, <1>3
<1>5. ask.limit \in Nat /\ ask.offset \in Nat
  BY <1>4
<1>6. reading = FirstCall(ask)
  BY DEF PagesInit
<1>7. /\ reading.at = "asking" /\ reading.got = <<>> /\ reading.given = <<>>
      /\ reading.cursor = AtStart /\ reading.offset = ask.offset
  BY <1>6 DEF FirstCall
<1>8. reading \in Readings
  <2>1. <<>> \in Seq(Ids) /\ AtStart \in {AtStart} \union {Row(i) : i \in Ids}
    OBVIOUS
  <2> QED
    BY <1>5, <1>6, <2>1 DEF FirstCall, Readings
<1>9. PagesTypeOK
  BY <1>1, <1>4, <1>8 DEF PagesTypeOK
<1>10. AskInv
  <2>1. plan.nulls = "never" => Null \notin Range(values)
    BY DEF PagesInit, plan
  <2> QED
    BY <1>4, <2>1 DEF AskInv
<1>11. RowsGiven(reading) = <<>>
  BY <1>7 DEF RowsGiven
<1>12. Ascending(<<>>)
  BY DEF Ascending
<1>13. Chained(reading)
  BY <1>5, <1>7, <1>11, <1>12 DEF Chained
<1>14. CursorInv(reading)
  BY <1>5, <1>7, <1>11, <1>13 DEF CursorInv, NoLimit
<1>15. OffsetInv(reading, churned)
  <2>1. \A o : Tracks(<<>>, o)
    BY DEF Tracks, Follows
  <2>2. reading.offset = ask.offset + Len(reading.given)
    BY <1>5, <1>7
  <2> QED
    BY <1>7, <2>1, <2>2 DEF OffsetInv
<1>16. SingleInv(reading) /\ ChainIsExact /\ AnswerIsWhole
  BY <1>6, <1>7 DEF SingleInv, ChainIsExact, AnswerIsWhole
<1> QED
  BY <1>9, <1>10, <1>14, <1>15, <1>16 DEF PagesInv

\* What does not step keeps everything.
LEMMA PagesStutter ==
  ASSUME PagesTypeOK, PagesInv, UNCHANGED pageVars
  PROVE  PagesTypeOK' /\ PagesInv'
<1>1. UNCHANGED <<source, ask, values, present, churned>> /\ reading' = reading
  BY DEF pageVars
<1>2. reading' \in Readings
  BY <1>1 DEF PagesTypeOK
<1>3. AskInv /\ CursorInv(reading') /\ OffsetInv(reading', churned) /\ SingleInv(reading')
  BY <1>1 DEF PagesInv
<1>4. Chain(reading', churned) /\ WholeAnswer(reading')
  BY <1>1, WhatEnded
<1> QED
  BY <1>1, <1>2, <1>3, <1>4, ProgressKeeps

\* The inductive invariant: what a caller has been given is, by cursor, a part
\* of the order that passed over no more than the offset; by offset, a part of
\* the one list that every request finds; and what cannot go on is asked once.
THEOREM PagesInvariant == PagesSpec => [](PagesTypeOK /\ PagesInv)
<1>1. PagesInit => PagesTypeOK /\ PagesInv
  BY PagesStart
<1>2. (PagesTypeOK /\ PagesInv) /\ [PagesNext]_pageVars => (PagesTypeOK /\ PagesInv)'
  <2> SUFFICES ASSUME PagesTypeOK, PagesInv, [PagesNext]_pageVars
               PROVE  PagesTypeOK' /\ PagesInv'
    OBVIOUS
  <2> QED
    BY PageKeeps, ScanKeeps, WindowKeeps, ResumeKeeps, ChurnKeeps, PagesStutter DEF PagesNext
<1> QED
  BY <1>1, <1>2, PTL DEF PagesSpec

\* Every variable has its type: a caller is given rows of the table, its cursor
\* is one of them, and its offset is a number.
THEOREM PagesTypeCorrect == PagesSpec => []PagesTypeOK
  BY PagesInvariant, PTL

\* Read to its end with the cursors that it gave, a query has given every row
\* that was there throughout, but those of its offset, and none twice, although
\* another client inserted or deleted one row.  Exempt are scans and windows in
\* which that row came or went or a limit cuts, ties under `search_after' or in a
\* window, an offset that is applied to every page, and the rows that a condition
\* loses for a Null; a path that gives no cursor and does not scan has no chain.
THEOREM PagesChainsAreExact == PagesSpec => []ChainIsExact
<1>1. PagesTypeOK /\ PagesInv => ChainIsExact
  BY DEF PagesInv
<1> QED
  BY <1>1, PagesInvariant, PTL

\* An answer that cannot be continued has as many rows as were asked for, or all
\* there are, in every path that does not cut off at its cap without a word.
THEOREM PagesAnswersAreWhole == PagesSpec => []AnswerIsWhole
<1>1. PagesTypeOK /\ PagesInv => AnswerIsWhole
  BY DEF PagesInv
<1> QED
  BY <1>1, PagesInvariant, PTL
=============================================================================
