--------------------------- MODULE QueryAdapters ----------------------------
(***************************************************************************)
(* How each adapter turns query() into requests.  A plan is what its       *)
(* compiler writes:                                                        *)
(*   dirs     the orders it accepts ("none": no order was given);          *)
(*   ties     whether it appends a key as tie-break: "always", only when   *)
(*            "ordered", or "no", which leaves ties to the service;        *)
(*   nulls    where the service puts Null, "never" where it is refused;    *)
(*   after    the condition of a cursor (KeysetOrder), "none": refused;    *)
(*   offset   "refused", "once" (refused with a cursor), or "again"        *)
(*            (applied once more on every page).  An "offset" as after is  *)
(*            a cursor that counts the rows before it.                     *)
(* A page is what query() makes of the answer:                             *)
(*   unlimited  without a limit it asks for "all", for the "cap", or for a *)
(*              "budget" that the rows of its offset count against too;    *)
(*   sentinel   one row more is asked for "always", "unlimited" or never;  *)
(*   more       that row means a cursor, or an error;                      *)
(*   cursor     given when the page is "full", when there is "more", when  *)
(*            the service "found" more or gave a "token", after any "row", *)
(*            or "never";                                                  *)
(*   needs      what a query must have for that: a limit, an order;        *)
(*   short      the service may end a page where it likes;                 *)
(*   binds      a cursor is refused by another query;                      *)
(*   loops      query() itself goes on: by the service's "keys", by        *)
(*            "offsets", "beyond" the cap by offsets, by "window" (offsets up to its limit, where a     *)
(*            row that comes twice or a short page is an error), by        *)
(*            "rewind" (a window read from the first row again), or not.   *)
(***************************************************************************)
AnyOrder == {"none", "asc", "desc"}
PlanOf(ties, nulls, after) == [dirs |-> AnyOrder, ties |-> ties, nulls |-> nulls, after |-> after, offset |-> "once"]
PlainPlan == [dirs |-> {"none"}, ties |-> "always", nulls |-> "least", after |-> "token", offset |-> "refused"]
CappedPage == [unlimited |-> "cap", sentinel |-> "never", more |-> "none", cursor |-> "never", needs |-> {},
                 short |-> FALSE, binds |-> FALSE, loops |-> "no"]
WholePage == [CappedPage EXCEPT !.unlimited = "all"]
WholeOrErrorPage == [CappedPage EXCEPT !.sentinel = "unlimited", !.more = "error"]
TokenPage == [CappedPage EXCEPT !.cursor = "token", !.short = TRUE]
FullPage == [WholePage EXCEPT !.cursor = "full", !.needs = {"limit"}]
SentinelPage == [CappedPage EXCEPT !.sentinel = "always", !.more = "cursor", !.cursor = "more"]
AnyRowPage == [CappedPage EXCEPT !.cursor = "row", !.binds = TRUE]

Neo4jPlan == [PlanOf("always", "greatest", "neo4j") EXCEPT !.offset = "again"]
Neo4jPage == FullPage
NeptunePlan == [PlanOf("always", "greatest", "neptune") EXCEPT !.offset = "again"]
NeptunePage == SentinelPage
InfluxPlan == [PlanOf("ordered", "never", "influx") EXCEPT !.offset = "refused"]
InfluxPage == SentinelPage
ClickHousePlan == PlanOf("ordered", "last", "clickhouse")
ClickHousePage == [CappedPage EXCEPT !.cursor = "full", !.needs = {"order"}]
ClickHouseNativePlan == [PlanOf("no", "last", "none") EXCEPT !.offset = "refused"]
BigQueryPlan == [PlanOf("ordered", "never", "bigquery") EXCEPT !.offset = "refused"]
BigQueryPage == [SentinelPage EXCEPT !.needs = {"order"}]
SpannerQuery == [CappedPage EXCEPT !.sentinel = "always", !.more = "error"]
SpannerPlan == [PlanOf("no", "least", "none") EXCEPT !.offset = "refused"]
KustoQuery == SpannerQuery
TimestreamQuery == [TokenPage EXCEPT !.cursor = "refused"]
SnowflakePlan == PlanOf("always", "last", "none")
RedshiftPlan == PlanOf("no", "greatest", "none")
\* (Bug: no row beyond the cap is asked for.)
RedshiftAsksForNoMore == CappedPage
RedshiftPage == WholeOrErrorPage
RdsDataPlan == PlanOf("no", "greatest", "none")
RdsDataPage == WholeOrErrorPage
DatabricksPlan == PlanOf("no", "least", "none")
DatabricksPage == WholePage
SqlPlan == PlanOf("always", "least", "none")
D1Query == WholePage
D1Scan == [WholePage EXCEPT !.loops = "offsets"]
D1HttpScan == D1Scan
D1HttpQuery == [WholePage EXCEPT !.loops = "beyond"]
D1HttpPlan == SqlPlan
SqlitePage == WholePage
ElasticsearchPlan == PlanOf("no", "last", "search")
ElasticsearchPage == [CappedPage EXCEPT !.cursor = "full", !.needs = {"limit", "order"}]
OpenSearchPlan == PlanOf("no", "last", "search")
OpenSearchPage == [CappedPage EXCEPT !.cursor = "full", !.needs = {"limit", "order"}]
SolrPlan == PlanOf("no", "last", "none")
AlgoliaQuery == [PlainPlan EXCEPT !.after = "none", !.offset = "once"]
QdrantPlan == [PlainPlan EXCEPT !.after = "none", !.offset = "once"]
AppwriteQuery == PlanOf("no", "least", "none")
PocketBaseQuery == PlanOf("no", "least", "none")
CouchbaseQuery == [PlanOf("no", "least", "none") EXCEPT !.offset = "refused"]
AzureTableQuery == [TokenPage EXCEPT !.binds = TRUE]
DynamoQuery == [TokenPage EXCEPT !.unlimited = "all", !.loops = "keys"]
CosmosQuery == TokenPage
DatastorePlan == [PlanOf("always", "least", "token") EXCEPT !.offset = "again"]
DatastoreQuery == [TokenPage EXCEPT !.binds = TRUE]
CouchDbPage == [CappedPage EXCEPT !.cursor = "full"]
NativeCouchDbPlan == [PlanOf("always", "least", "token") EXCEPT !.offset = "refused"]
NativeCouchDbPage == [CouchDbPage EXCEPT !.binds = TRUE]
FirestorePlan == [PlanOf("always", "least", "token") EXCEPT !.offset = "refused"]
FirestorePage == FullPage
TugqlPlan == [PlanOf("always", "least", "none") EXCEPT !.offset = "once"]
TugqlPage == [WholeOrErrorPage EXCEPT !.unlimited = "budget"]
RealtimePlan == [PlanOf("always", "least", "none") EXCEPT !.dirs = {"none", "asc"}, !.offset = "refused"]
RealtimePage == WholePage
IndexedDbPage == FullPage
IndexedDbPlan == [PlanOf("always", "least", "indexeddb") EXCEPT !.offset = "again"]
OvdbQuery == [PlanOf("no", "least", "none") EXCEPT !.offset = "refused"]
LibSQLPlan == [PlanOf("ordered", "never", "libsql") EXCEPT !.offset = "refused"]
LibSQLLegacyPage == [SentinelPage EXCEPT !.needs = {"order"}]
LibSQLModern == [LibSQLPlan EXCEPT !.ties = "always"]
LibSQLModernPage == AnyRowPage
NativeLibSQLPlan == [PlanOf("always", "least", "native") EXCEPT !.offset = "refused"]
NativeLibSQLPage == AnyRowPage
\* (A window without an order, which may hold any rows, is left out.)
TypesensePlan == [PlanOf("no", "last", "offset") EXCEPT !.dirs = {"asc", "desc"}]
TypesensePage == [CappedPage EXCEPT !.cursor = "found", !.binds = TRUE, !.loops = "window"]
TypesenseFiltered == [TypesensePage EXCEPT !.loops = "rewind"]
PostgrestPlan == PlanOf("always", "greatest", "postgrest")
PostgrestPage == [AnyRowPage EXCEPT !.short = TRUE]
PostgrestLegacyPlan == PlanOf("no", "greatest", "none")

Adapt(plan, page) == [plan |-> plan, page |-> page]
Queries == [
  neo4j |-> Adapt(Neo4jPlan, Neo4jPage), neptune |-> Adapt(NeptunePlan, NeptunePage),
  influx |-> Adapt(InfluxPlan, InfluxPage), clickhouse |-> Adapt(ClickHousePlan, ClickHousePage),
  bigquery |-> Adapt(BigQueryPlan, BigQueryPage), spanner |-> Adapt(SpannerPlan, SpannerQuery),
  kusto |-> Adapt([PlainPlan EXCEPT !.ties = "no"], KustoQuery),
  timestream |-> Adapt([PlainPlan EXCEPT !.after = "none"], TimestreamQuery),
  snowflake |-> Adapt(SnowflakePlan, WholeOrErrorPage), redshift |-> Adapt(RedshiftPlan, RedshiftPage),
  rdsdata |-> Adapt(RdsDataPlan, RdsDataPage), databricks |-> Adapt(DatabricksPlan, DatabricksPage),
  d1 |-> Adapt(SqlPlan, D1Query), d1scan |-> Adapt(SqlPlan, D1Scan), d1http |-> Adapt(D1HttpPlan, D1HttpQuery),
  d1httpScan |-> Adapt(D1HttpPlan, D1HttpScan),
  sqlite |-> Adapt(SqlPlan, SqlitePage),
  elasticsearch |-> Adapt(ElasticsearchPlan, ElasticsearchPage), opensearch |-> Adapt(OpenSearchPlan, OpenSearchPage),
  solr |-> Adapt(SolrPlan, CappedPage), algolia |-> Adapt(AlgoliaQuery, CappedPage), qdrant |-> Adapt(QdrantPlan, CappedPage),
  appwrite |-> Adapt(AppwriteQuery, CappedPage), pocketbase |-> Adapt(PocketBaseQuery, CappedPage),
  couchbase |-> Adapt(CouchbaseQuery, CappedPage), azure |-> Adapt(PlainPlan, AzureTableQuery),
  dynamodb |-> Adapt(PlainPlan, DynamoQuery), cosmosdb |-> Adapt(PlainPlan, CosmosQuery),
  datastore |-> Adapt(DatastorePlan, DatastoreQuery), couchdb |-> Adapt(PlainPlan, CouchDbPage),
  nativeCouchdb |-> Adapt(NativeCouchDbPlan, NativeCouchDbPage), firestore |-> Adapt(FirestorePlan, FirestorePage),
  firestoreTugql |-> Adapt(TugqlPlan, TugqlPage), clickhouseNative |-> Adapt(ClickHouseNativePlan, CappedPage),
  realtime |-> Adapt(RealtimePlan, RealtimePage), indexeddb |-> Adapt(IndexedDbPlan, IndexedDbPage),
  ovdb |-> Adapt(OvdbQuery, WholePage), libsqlLegacy |-> Adapt(LibSQLPlan, LibSQLLegacyPage),
  libsql |-> Adapt(LibSQLModern, LibSQLModernPage), nativeLibsql |-> Adapt(NativeLibSQLPlan, NativeLibSQLPage),
  typesense |-> Adapt(TypesensePlan, TypesensePage), typesenseFiltered |-> Adapt(TypesensePlan, TypesenseFiltered),
  postgrest |-> Adapt(PostgrestPlan, PostgrestPage), postgrestLegacy |-> Adapt(PostgrestLegacyPlan, [CappedPage EXCEPT !.short = TRUE])]
=============================================================================
