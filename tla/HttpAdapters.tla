---------------------------- MODULE HttpAdapters ----------------------------
(***************************************************************************)
(* How each adapter makes one HTTP call.  A request says                   *)
(*   timer    the await its deadline starts with ("never": it has none);   *)
(*   asks     whether it awaits a provider of headers or of a token;       *)
(*   raced    the awaits it races against its abort signal, so that it     *)
(*            need not trust the provider or fetch to end by itself;       *)
(*   refused  a response with an error status has its body dropped, left   *)
(*            alone, or is judged last, after its body was read;           *)
(*   write    the same for the body of a write nobody decodes;             *)
(*   late     a response that comes after the abort has its body dropped   *)
(*            or left alone;                                               *)
(*   caller   whether the caller may abort it too.                         *)
(* A reader of the body says                                               *)
(*   raced     the awaits it races: a read ("body"), or its own cancel();  *)
(*   declared  what becomes of a body whose length is declared too long,   *)
(*   over      what becomes of one which turns out too long,               *)
(*   aborted   what becomes of one whose read loses the race:              *)
(* it is cancelled ("drop"), cancelled and that is awaited ("await"), left *)
(* alone ("leave"), or its length is no concern ("any").                   *)
(***************************************************************************)
Raced == [timer |-> "headers", asks |-> TRUE, raced |-> {"headers", "fetch"},
                refused |-> "drop", write |-> "read", late |-> "leave", caller |-> FALSE]
JudgedLast == [Raced EXCEPT !.refused = "last"]
Signalled == [JudgedLast EXCEPT !.timer = "fetch", !.raced = {}]
Scoped == [Raced EXCEPT !.late = "drop", !.caller = TRUE]

RacedReads == [raced |-> {"body"}, declared |-> "drop", over |-> "drop", aborted |-> "drop"]
RacedStage == [RacedReads EXCEPT !.raced = {"body", "cancel"}, !.aborted = "leave"]
WholeText == [raced |-> {"body"}, declared |-> "any", over |-> "any", aborted |-> "leave"]
Awaiting == [raced |-> {}, declared |-> "await", over |-> "await", aborted |-> "leave"]

AppwriteRequest == [Raced EXCEPT !.write = "drop"]
AppwriteBody == RacedReads
PocketBaseRequest == [Raced EXCEPT !.write = "drop"]
PocketBaseBody == RacedReads
AzureTableRequest == Raced
AzureTableBody == RacedReads
ForgetfulRequest == [Raced EXCEPT !.refused = "leave"]
DatastoreRequest == Raced
DatastoreBody == RacedReads
KustoRequest == Raced
TrustingBody == [RacedReads EXCEPT !.raced = {}]
KustoBody == RacedReads
AlgoliaRequest == JudgedLast
AlgoliaBody == RacedStage
QdrantRequest == JudgedLast
QdrantBody == [RacedStage EXCEPT !.declared = "await", !.over = "await"]
PineconeRequest == JudgedLast
PineconeBody == RacedStage
NeptuneRequest == JudgedLast
NeptuneBody == [raced |-> {"body"}, declared |-> "any", over |-> "await", aborted |-> "await"]
UntimedRequest == [Signalled EXCEPT !.timer = "never"]
CosmosRequest == Signalled
CosmosBody == [Awaiting EXCEPT !.raced = {"body"}, !.aborted = "drop"]
OpenSearchRequest == Signalled
OpenSearchBody == Awaiting
CouchbaseRequest == Signalled
CouchbaseBody == Awaiting
SolrRequest == Signalled
SolrBody == [Awaiting EXCEPT !.declared = "leave"]
ClickHouseRequest == [Signalled EXCEPT !.refused = "leave"]
ClickHouseBody == [Awaiting EXCEPT !.declared = "leave"]
InfluxRequest == [Signalled EXCEPT !.refused = "leave", !.write = "leave"]
InfluxBody == [Awaiting EXCEPT !.declared = "leave"]
ElasticsearchCall == [Signalled EXCEPT !.timer = "never"]
ElasticsearchBody == [Awaiting EXCEPT !.declared = "any", !.over = "any"]
LibSQLRequest == Scoped
LibSQLBody == RacedReads
CouchDbRequest == [Scoped EXCEPT !.refused = "last"]
CouchDbBody == RacedReads
TypesenseRequest == [Scoped EXCEPT !.refused = "last"]
TypesenseBody == RacedReads
LateBlindRequest == [Scoped EXCEPT !.late = "leave"]
PostgrestRequest == Scoped
PostgrestBody == RacedReads
NativeQuery == Scoped
NativeBody == RacedReads
EcbRequest == [Scoped EXCEPT !.asks = FALSE]
EcbBody == RacedReads
D1Request == [JudgedLast EXCEPT !.caller = TRUE]
D1Body == RacedReads
SpannerRequest == JudgedLast
SpannerBody == RacedReads
TimestreamRequest == Raced
TimestreamBody == [RacedReads EXCEPT !.over = "await"]
Neo4jRequest == [Signalled EXCEPT !.timer = "headers"]
Neo4jBody == ElasticsearchBody
BigQueryRequest == JudgedLast
BigQueryBody == WholeText
DatabricksRequest == [JudgedLast EXCEPT !.caller = TRUE]
DatabricksBody == WholeText
SnowflakeRequest == [Raced EXCEPT !.refused = "leave"]
SnowflakeBody == WholeText
OvdbRequest == [Signalled EXCEPT !.timer = "body", !.write = "leave"]
OvdbBody == [RacedReads EXCEPT !.declared = "any"]

(* ForgetfulRequest, TrustingBody, UntimedRequest and LateBlindRequest belong to no   *)
(* adapter: each is the definition after it with one trait lost.                      *)

(* The adapters by name: the request and the reader of each. *)
Request ==
  [appwrite |-> AppwriteRequest, pocketbase |-> PocketBaseRequest, azure |-> AzureTableRequest,
   datastore |-> DatastoreRequest, kusto |-> KustoRequest, algolia |-> AlgoliaRequest,
   qdrant |-> QdrantRequest, pinecone |-> PineconeRequest, neptune |-> NeptuneRequest,
   cosmosdb |-> CosmosRequest, opensearch |-> OpenSearchRequest, couchbase |-> CouchbaseRequest,
   solr |-> SolrRequest, clickhouse |-> ClickHouseRequest, influxdb |-> InfluxRequest,
   elasticsearch |-> ElasticsearchCall, libsql |-> LibSQLRequest, couchdb |-> CouchDbRequest,
   typesense |-> TypesenseRequest, postgrest |-> PostgrestRequest, clickhouseNative |-> NativeQuery,
   ecb |-> EcbRequest, d1 |-> D1Request, spanner |-> SpannerRequest, timestream |-> TimestreamRequest,
   neo4j |-> Neo4jRequest, bigquery |-> BigQueryRequest, databricks |-> DatabricksRequest,
   snowflake |-> SnowflakeRequest, ovdb |-> OvdbRequest]
Reader ==
  [appwrite |-> AppwriteBody, pocketbase |-> PocketBaseBody, azure |-> AzureTableBody,
   datastore |-> DatastoreBody, kusto |-> KustoBody, algolia |-> AlgoliaBody,
   qdrant |-> QdrantBody, pinecone |-> PineconeBody, neptune |-> NeptuneBody,
   cosmosdb |-> CosmosBody, opensearch |-> OpenSearchBody, couchbase |-> CouchbaseBody,
   solr |-> SolrBody, clickhouse |-> ClickHouseBody, influxdb |-> InfluxBody,
   elasticsearch |-> ElasticsearchBody, libsql |-> LibSQLBody, couchdb |-> CouchDbBody,
   typesense |-> TypesenseBody, postgrest |-> PostgrestBody, clickhouseNative |-> NativeBody,
   ecb |-> EcbBody, d1 |-> D1Body, spanner |-> SpannerBody, timestream |-> TimestreamBody,
   neo4j |-> Neo4jBody, bigquery |-> BigQueryBody, databricks |-> DatabricksBody,
   snowflake |-> SnowflakeBody, ovdb |-> OvdbBody]
Adapters == DOMAIN Request
=============================================================================
