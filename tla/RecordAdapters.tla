--------------------------- MODULE RecordAdapters ---------------------------
(***************************************************************************)
(* How each adapter turns insert, set, update and delete into requests to  *)
(* its service.  A write says                                              *)
(*   reads    whether the revision of the record is read first, by the     *)
(*            adapter ("adapter"), by the caller who kept the tag of an    *)
(*            earlier read ("caller"), or not ("no");                      *)
(*   when     the condition the request carries: the record is "absent",   *)
(*            "present", still at the revision read ("unchanged"), "any";  *)
(*   effect   what the service does then: "create" and "replace" store the *)
(*            whole record, "merge" some of its fields, "remove" none;     *)
(*   refusal  what the caller is told when the condition fails: "exists",  *)
(*            "missing", "conflict", "failed" (an error that does not say  *)
(*            which) or "done";                                            *)
(*   gone     the same when the record is not there at all;                *)
(*   skips    whether a first read that finds nothing ends it as done.     *)
(* The services are modelled from these requests.                          *)
(***************************************************************************)
OneWrite(when, effect, refusal) ==
  [reads |-> "no", when |-> when, effect |-> effect, refusal |-> refusal, gone |-> refusal, skips |-> FALSE]
Unsupported == OneWrite("any", "none", "unsupported")

Creates == OneWrite("absent", "create", "exists")
Replaces == OneWrite("any", "replace", "done")
Merges == OneWrite("present", "merge", "missing")
Removes == OneWrite("any", "remove", "done")
RemovesPresent == OneWrite("present", "remove", "missing")
IfMatch(effect, refusal) == [OneWrite("unchanged", effect, refusal) EXCEPT !.reads = "caller"]

Full == [insert |-> Creates, set |-> Replaces, update |-> Merges, delete |-> Removes,
               setIfMatch |-> Unsupported, updateIfMatch |-> Unsupported, deleteIfMatch |-> Unsupported]
Whole == [Full EXCEPT !.update = Unsupported]
Upserts == [Whole EXCEPT !.insert = Unsupported]

AppwriteWrites == Full
PocketBaseWrites == [Full EXCEPT !.insert.refusal = "failed", !.set = Unsupported]
(* A MERGE without If-Match: * creates the entity: the mutated form.        *)
AzureUpserts == [Full EXCEPT !.update.when = "any",
  !.setIfMatch = IfMatch("replace", "failed"), !.updateIfMatch = IfMatch("merge", "failed"),
  !.deleteIfMatch = IfMatch("remove", "failed")]
AzureTableWrites == [Full EXCEPT
  !.setIfMatch = IfMatch("replace", "failed"), !.updateIfMatch = IfMatch("merge", "failed"),
  !.deleteIfMatch = IfMatch("remove", "failed")]
DynamoWrites == Full
CosmosWrites == Whole
DatastoreWrites == Whole
ElasticsearchWrites == Full
OpenSearchWrites == Full
SolrWrites == Full
AlgoliaWrites == Upserts
QdrantWrites == Upserts
PineconeWrites == Upserts
CouchbaseWrites == [Whole EXCEPT 
  !.setIfMatch = [IfMatch("replace", "conflict") EXCEPT !.gone = "failed"],
  !.deleteIfMatch = [IfMatch("remove", "conflict") EXCEPT !.gone = "done"]]
(* PUT and DELETE with the _rev that a read gave, PUT without one when it   *)
(* found nothing.                                                           *)
CouchDbWrites == [Whole EXCEPT
  !.set = [Replaces EXCEPT !.reads = "adapter", !.when = "unchanged", !.refusal = "conflict", !.gone = "conflict"],
  !.delete = [Removes EXCEPT !.reads = "adapter", !.when = "unchanged", !.refusal = "conflict", !.gone = "conflict",
                       !.skips = TRUE]]
Neo4jWrites == [Full EXCEPT !.delete = RemovesPresent]
NeptuneWrites == [Full EXCEPT !.delete = RemovesPresent]
SpannerWrites == Full
RealtimeWrites == [Full EXCEPT !.update.when = "any"]
RdsDataWrites == [Upserts EXCEPT !.set = Unsupported, !.update = Merges]
PostgrestWrites == Full
LibSQLWrites == [Full EXCEPT !.update.refusal = "done"]
SqliteWrites == [Full EXCEPT !.delete = RemovesPresent]
IndexedDbWrites == Full

Writes == [appwrite |-> AppwriteWrites, pocketbase |-> PocketBaseWrites, azure |-> AzureTableWrites,
  dynamodb |-> DynamoWrites, cosmosdb |-> CosmosWrites, datastore |-> DatastoreWrites,
  elasticsearch |-> ElasticsearchWrites, opensearch |-> OpenSearchWrites, solr |-> SolrWrites,
  algolia |-> AlgoliaWrites, qdrant |-> QdrantWrites, pinecone |-> PineconeWrites,
  couchbase |-> CouchbaseWrites, couchdb |-> CouchDbWrites, neo4j |-> Neo4jWrites,
  neptune |-> NeptuneWrites, spanner |-> SpannerWrites, realtime |-> RealtimeWrites,
  rdsdata |-> RdsDataWrites, postgrest |-> PostgrestWrites, libsql |-> LibSQLWrites,
  sqlite |-> SqliteWrites, indexeddb |-> IndexedDbWrites]
(* A libSQL update does not ask how many rows it changed, and the update of *)
(* the Realtime Database SDK creates what is missing: a caller of these two *)
(* learns less than the others promise.                                     *)
Promising == DOMAIN Writes \ {"libsql", "realtime"}
WriteOps == {"insert", "set", "update", "delete", "setIfMatch", "updateIfMatch", "deleteIfMatch"}
=============================================================================
