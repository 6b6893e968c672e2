-------------------------- MODULE FilterSemantics ---------------------------
(***************************************************************************)
(* One condition of a query, `field operator operand', on its way: the     *)
(* adapter refuses it or translates it, the service selects rows by it.    *)
(* What an adapter makes of a condition:                                   *)
(*   ops      the operators it translates;                                 *)
(*   null     "==" and "!=" with Null become a test for Null ("is"), Null  *)
(*            is sent as any operand ("bound"), or it is "refused" (by     *)
(*            Elasticsearch itself, which has no term for it);             *)
(*   equal    the operators of these two whose Null is not refused;        *)
(*   range    an order comparison with Null is "bound" or "refused";       *)
(*   lists    the "empty" list, or one with a "null", that it accepts;     *)
(*   exists   the operators that it guards with `the field exists';        *)
(*   widens   it asks for candidates, "<" as "<=", and checks each answer; *)
(*   service  the rules by which the service evaluates it.                 *)
(***************************************************************************)
EXTENDS KeysetOrder

NoField == -1
Scalars == {1, 2, 3}
Equality == {"==", "!="}
Ranges == {"<", "<=", ">", ">="}
Membership == {"in", "not-in"}
Negative == {"!=", "not-in"}

LOCAL Condition(service, ops) ==
  [service |-> service, ops |-> ops, null |-> "is", equal |-> Equality, range |-> "refused", lists |-> {}, exists |-> {}, widens |-> FALSE]
LOCAL Sql(ops) == Condition("sql", ops)
LOCAL NoNulls(service, ops) == [Condition(service, ops) EXCEPT !.null = "refused"]
LOCAL Bound(service, ops) == [Condition(service, ops) EXCEPT !.null = "bound", !.range = "bound", !.lists = {"null"}]
LOCAL Compared == Equality \union Ranges
LOCAL All == Compared \union Membership
LOCAL Positive == {"==", "in"} \union Ranges

SqliteFilter == [Sql(All) EXCEPT !.range = "bound", !.lists = {"null"}]
BigQueryFilter == [Sql(All) EXCEPT !.range = "bound"]
InfluxFilter == [Sql(Compared) EXCEPT !.range = "bound"]
RedshiftFilter == Sql(Compared)
RdsDataFilter == [Sql(Compared) EXCEPT !.range = "bound"]
SnowflakeFilter == Sql(All)
DatabricksFilter == Sql(Compared)
SpannerFilter == Sql(Compared)
ClickHouseFilter == Sql(All)
LibSQLFilter == [Sql(Compared) EXCEPT !.range = "bound"]
NativeLibSQLFilter == [Sql(Compared) EXCEPT !.range = "bound"]
\* (Bug: Null is bound like any operand.)
PostgrestBindsNull == [Sql(All) EXCEPT !.null = "bound"]
PostgrestFilter == Sql(All)
CouchbaseFilter == [Bound("sql", Compared) EXCEPT !.lists = {}]
Neo4jFilter == [NoNulls("sql", All) EXCEPT !.lists = {"empty"}]
NeptuneFilter == NoNulls("sql", All)
AzureTableFilter == NoNulls("sql", Compared)
TypesenseFilter == [NoNulls("sql", Positive) EXCEPT !.widens = TRUE]
DynamoFilter == [Bound("typed", All) EXCEPT !.exists = Negative]
ElasticsearchFilter == [NoNulls("index", All) EXCEPT !.exists = Negative, !.lists = {"empty"}]
OpenSearchFilter == [Condition("index", All) EXCEPT !.exists = Negative, !.lists = {"empty"}]
SolrFilter == NoNulls("index", Positive)
AlgoliaFilter == NoNulls("index", All)
QdrantFilter == NoNulls("index", Positive)
PineconeFilter == NoNulls("own", All)
CouchDbFilter == [NoNulls("mango", All) EXCEPT !.lists = {"empty", "null"}]
NativeCouchDbFilter == [Bound("mango", All) EXCEPT !.range = "refused", !.lists = {"empty", "null"}]
IndexedDbFilter == [Bound("js", All) EXCEPT !.lists = {"empty", "null"}]
RealtimeFilter == [Bound("own", Positive \ {"in"}) EXCEPT !.lists = {}]
CosmosFilter == Bound("own", Compared \union {"in"})
DatastoreFilter == [Bound("own", All) EXCEPT !.equal = {"=="}, !.range = "refused"]
FirestoreFilter == [Bound("own", All) EXCEPT !.lists = {"empty", "null"}]
\* (What Firestore selects is filtered once more, which drops its Nulls.)
TugqlFilter == [NoNulls("own", All) EXCEPT !.lists = {"empty"}]
AppwriteFilter == Bound("own", All)
PocketBaseFilter == Bound("own", All)
OvdbFilter == [Bound("own", Positive) EXCEPT !.lists = {"empty", "null"}]

Filters == [
  sqlite |-> SqliteFilter, bigquery |-> BigQueryFilter, influx |-> InfluxFilter, redshift |-> RedshiftFilter,
  rdsdata |-> RdsDataFilter, snowflake |-> SnowflakeFilter, databricks |-> DatabricksFilter, spanner |-> SpannerFilter,
  clickhouse |-> ClickHouseFilter, libsql |-> LibSQLFilter, nativeLibsql |-> NativeLibSQLFilter, postgrest |-> PostgrestFilter,
  couchbase |-> CouchbaseFilter, neo4j |-> Neo4jFilter, neptune |-> NeptuneFilter, azure |-> AzureTableFilter,
  typesense |-> TypesenseFilter, dynamodb |-> DynamoFilter, elasticsearch |-> ElasticsearchFilter, opensearch |-> OpenSearchFilter,
  solr |-> SolrFilter, algolia |-> AlgoliaFilter, qdrant |-> QdrantFilter, pinecone |-> PineconeFilter, couchdb |-> CouchDbFilter,
  nativeCouchdb |-> NativeCouchDbFilter, indexeddb |-> IndexedDbFilter, realtime |-> RealtimeFilter, cosmosdb |-> CosmosFilter,
  datastore |-> DatastoreFilter, firestore |-> FirestoreFilter, firestoreTugql |-> TugqlFilter, appwrite |-> AppwriteFilter, pocketbase |-> PocketBaseFilter,
  ovdb |-> OvdbFilter]

VARIABLES engine,   \* the adapter
          cond,     \* [op, one, list]: its operator and operand
          stored,   \* the kinds of rows that the service has
          verdict,  \* "asked", then "refused" or "sent", then "answered" or "failed"
          selected  \* the rows of the answer
filterVars == <<engine, cond, stored, verdict, selected>>

Conditions ==
  [op : Compared, one : Scalars \union {Null}, list : {{}}] \union
  [op : Membership, one : {Null}, list : SUBSET {Null, 1, 2}]

FilterInit ==
  /\ engine \in DOMAIN Filters /\ cond \in Conditions
  /\ stored \in {Scalars \union {Null, NoField}, {1, 3, Null, NoField}}
  /\ verdict = "asked" /\ selected = {}

made == Filters[engine]
IsNullTest == cond.op \in Equality /\ cond.one = Null

(* The adapter has a translation of the condition.                          *)
Translates ==
  /\ cond.op \in made.ops
  /\ IsNullTest => made.null # "refused" /\ cond.op \in made.equal
  /\ cond.op \in Ranges /\ cond.one = Null => made.range = "bound"
  /\ cond.op \in Membership => (cond.list = {} => "empty" \in made.lists) /\ (Null \in cond.list => "null" \in made.lists)

Compares(op, s, v) ==
  CASE op = "==" -> s = v [] op = "!=" -> s # v [] op = "<" -> s < v
    [] op = "<=" -> s <= v [] op = ">" -> s > v [] op = ">=" -> s >= v
Raw(op, s) == CASE op = "in" -> s \in cond.list [] op = "not-in" -> s \notin cond.list [] OTHER -> Compares(op, s, cond.one)

(* SQL: nothing is true of Null but a test for it, and nothing is outside a  *)
(* list that has one.                                                       *)
SqlSelects(op, s) ==
  \/ IsNullTest /\ made.null = "is" /\ (s = Null) = (op = "==")
  \/ op \in Compared /\ s # Null /\ cond.one # Null /\ Raw(op, s)
  \/ op = "in" /\ s # Null /\ Raw(op, s)
  \/ op = "not-in" /\ (cond.list = {} \/ (s # Null /\ Null \notin cond.list /\ Raw(op, s)))
(* DynamoDB: Null is a value of a type of its own, and what a row lacks is   *)
(* different from everything.                                               *)
TypedSelects(op, s) ==
  \/ op \in Ranges /\ s \in Scalars /\ cond.one \in Scalars /\ Raw(op, s)
  \/ op \notin Ranges /\ Raw(op, s)
(* An inverted index: a Null is not in it.                                  *)
IndexSelects(op, s) ==
  LET there == s \in Scalars IN
  \/ IsNullTest /\ (op = "!=") = there
  \/ ~IsNullTest /\ op \in Negative /\ (there => Raw(op, s))
  \/ ~IsNullTest /\ op \notin Negative /\ there /\ Raw(op, s)

Selects(op, s) ==
  /\ op \in made.exists => CASE made.service = "index" -> s \in Scalars [] OTHER -> s # NoField
  /\ CASE made.service = "sql" -> SqlSelects(op, IF s = NoField THEN Null ELSE s)
       [] made.service = "typed" -> TypedSelects(op, s)
       [] made.service = "index" -> IndexSelects(op, s)
       [] made.service = "mango" -> s # NoField /\ Raw(op, s)
       [] made.service = "js" -> Raw(op, s)
       [] OTHER -> s \in Scalars /\ Raw(op, s)

Widened == IF ~made.widens THEN cond.op ELSE CASE cond.op = "<" -> "<=" [] cond.op = ">" -> ">=" [] OTHER -> cond.op

Compile ==
  /\ verdict = "asked" /\ verdict' = IF Translates THEN "sent" ELSE "refused"
  /\ UNCHANGED <<engine, cond, stored, selected>>

(* Of rows with Null or without the field, services with rules of their own *)
(* may select any.                                                          *)
Evaluate ==
  /\ verdict = "sent"
  /\ LET candidates == {s \in stored : Selects(Widened, s)}
         exact == {s \in stored : Selects(cond.op, s)} IN
     \/ made.widens /\ candidates # exact /\ verdict' = "failed" /\ UNCHANGED selected
     \/ /\ ~made.widens \/ candidates = exact
        /\ verdict' = "answered"
        /\ \E extra \in IF made.service = "own" THEN SUBSET {Null, NoField} ELSE {{}} : selected' = exact \union extra
  /\ UNCHANGED <<engine, cond, stored>>

FilterNext == Compile \/ Evaluate
FilterSpec == FilterInit /\ [][FilterNext]_filterVars

FilterTypeOK ==
  /\ engine \in DOMAIN Filters /\ cond \in Conditions
  /\ verdict \in {"asked", "refused", "sent", "answered", "failed"}
  /\ selected \subseteq Scalars \union {Null, NoField}

-----------------------------------------------------------------------------
(* What a condition says of a row that has a value.                         *)
Means(s) == s # Null /\ s # NoField /\ (IsNullTest => cond.op = "!=") /\ (~IsNullTest => Raw(cond.op, s))
(* `Not in' a list with Null binds the Null, which SQL finds in no row.     *)
BindsNullInList == engine = "sqlite" /\ cond.op = "not-in" /\ Null \in cond.list
(* A Null is bound where nothing is equal to or different from it.          *)
MissesNull == IsNullTest /\ engine = "couchbase"
(* These keep a Null under a negative condition, as a value like others ... *)
NullIsDifferent == {"dynamodb", "couchdb", "nativeCouchdb", "indexeddb", "algolia"}
(* ... and these order it below every value.                                *)
NullIsLeast == {"couchdb", "nativeCouchdb", "indexeddb"}

NullSelected ==
  \/ cond.op = "==" /\ cond.one = Null /\ ~MissesNull
  \/ cond.op = "!=" /\ cond.one # Null /\ engine \in NullIsDifferent
  \/ cond.op \in {"<", "<="} /\ engine \in NullIsLeast
  \/ cond.op = "in" /\ Null \in cond.list /\ made.service # "sql"
  \/ cond.op = "not-in" /\ Null \notin cond.list /\ (engine \in NullIsDifferent \/ (engine = "neo4j" /\ cond.list = {}))

(* A condition that an adapter sends selects exactly the rows with a value   *)
(* of which it is true, whatever service evaluates it, and the rows with    *)
(* Null by the rule named above; a row without the field comes only from    *)
(* IndexedDB, Algolia's NOT, and OpenSearch's and SQL's test for Null.      *)
FilterIsExact ==
  (verdict = "answered" /\ ~(cond.op \in Ranges /\ cond.one = Null)) =>
    /\ selected \intersect Scalars = IF BindsNullInList \/ MissesNull THEN {} ELSE {s \in stored \intersect Scalars : Means(s)}
    /\ made.service # "own" =>
         /\ (Null \in selected) = NullSelected
         /\ NoField \in selected =>
              \/ engine = "indexeddb" /\ cond.op \in Negative \union {"<", "<="}
              \/ engine = "algolia" /\ cond.op \in Negative
              \/ made.service \in {"sql", "index"} /\ NullSelected
=============================================================================
