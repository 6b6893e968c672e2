---------------------------- MODULE RecordValues ----------------------------
(***************************************************************************)
(* One field of a record: its value on the way from the caller through an  *)
(* adapter's checks and its encoding into the service, and from there back *)
(* through the parser and the checks of the response.  The service may     *)
(* also hold a value that another client wrote.                            *)
(* A kind is a value of the caller or of the service; "long" is an integer *)
(* that no double is equal to, "unsafe" one that a double is equal to but  *)
(* that is beyond 2^53, "huge" a number beyond every double, "holed" a     *)
(* list with a hole, "nested" a list in a list, "rounded" what JSON.parse  *)
(* makes of a long.                                                        *)
(***************************************************************************)
EXTENDS Integers

LOCAL Numbers == {"whole", "fraction", "unsafe"}
LOCAL Scalar == {"text", "bool"} \union Numbers
LOCAL Plain == Scalar \union {"null", "list", "nested", "map"}
Given == Plain \union {"minusZero", "infinite", "bigint", "bytes", "undefined", "date", "holed", "cycle"}
LOCAL Tokens == Plain \union {"minusZero", "long", "huge"}

(* JSON.stringify throws on these two and changes these, in an object.     *)
LOCAL Unserialized == {"bigint", "cycle"}
Stringified(kind) ==
  CASE kind = "undefined" -> "absent" [] kind = "date" -> "text" [] kind = "minusZero" -> "whole"
    [] kind = "infinite" -> "null" [] kind = "bytes" -> "map" [] kind = "holed" -> "list" [] OTHER -> kind

(*   accepts   the kinds that the adapter's checks let through;            *)
(*   integers  a boolean is stored as 0 or 1;                              *)
(*   parse     "json", "scan" of the text's numbers before it, "typed"     *)
(*             values with integers as digits, the digits as they are, or  *)
(*             "cells" whose floats are written anew;                      *)
(*   refuses   the kinds that its checks of a response refuse.             *)
LOCAL Json(accepts, refuses) == [accepts |-> accepts, integers |-> FALSE, parse |-> "json", refuses |-> refuses]
LOCAL ReadOnly(parse, refuses) == [Json({}, refuses) EXCEPT !.parse = parse]
LOCAL NotFinite == {"infinite"}
LOCAL Unsafe == {"infinite", "unsafe", "rounded"}
LOCAL Structured == {"list", "nested", "map"}

AlgoliaValue == Json(Plain \union {"holed"}, {"infinite", "minusZero"})
AppwriteValue == Json(Plain, {})
PocketBaseValue == Json(Plain, {})
AzureTableValue == Json(Scalar, {"infinite", "minusZero", "null"} \union Structured)
CosmosValue == Json(Plain, {"infinite", "minusZero"})
CouchbaseValue == Json(Plain \union {"minusZero", "holed"}, NotFinite)
\* (Bug: the numbers of the response text are not scanned.)
CouchDbTrusts == Json(Plain \ {"unsafe"}, {})
CouchDbValue == [Json(Plain \ {"unsafe"}, {}) EXCEPT !.parse = "scan"]
PostgrestValue == [Json(Plain \ {"unsafe"}, {}) EXCEPT !.parse = "scan"]
TypesenseValue == ReadOnly("scan", {})
\* (A hole of a list becomes null on the wire, which is no value to the service.)
DatastoreValue == [Json(Plain \ {"nested"}, {"minusZero", "infinite", "nested"}) EXCEPT !.parse = "typed"]
ElasticsearchValue == Json(Given, {})
OpenSearchValue == Json(Given, {})
OvdbValue == Json(Given, {})
ClickHouseValue == Json(Given, {})
Neo4jValue == Json(Plain \union {"minusZero", "holed"}, {})
NeptuneValue == Json(Scalar \union {"minusZero"}, {})
PineconeValue == Json(Plain \union {"holed"}, {"infinite", "minusZero"})
QdrantValue == Json(Plain \union {"minusZero", "holed"}, {})
SolrValue == Json(Plain \union {"minusZero", "holed"}, {})
LibSQLValue == [accepts |-> (Scalar \union {"null"}) \ {"unsafe"}, integers |-> TRUE, parse |-> "typed", refuses |-> NotFinite]
RdsDataValue == [Json((Scalar \union {"null"}) \ {"unsafe"}, Unsafe) EXCEPT !.parse = "json"]
KustoValue == ReadOnly("json", Unsafe \union Structured)
D1HttpValue == ReadOnly("json", Unsafe)
RedshiftValue == ReadOnly("json", Unsafe)
InfluxValue == ReadOnly("json", Structured)
TimestreamValue == ReadOnly("digits", NotFinite)
BigQueryValue == ReadOnly("digits", {})
SnowflakeValue == ReadOnly("digits", Structured)
\* (By the type of the column: integers and decimals of any size are digits.)
ClickHouseNativeValue == ReadOnly("digits", NotFinite)
\* (A column of lists or of structs is no type of these cells.)
AnalyticalValue == ReadOnly("cells", NotFinite \union Structured)
SpannerIntegers == [accepts |-> {"null", "whole", "minusZero"}, integers |-> FALSE, parse |-> "digits", refuses |-> {}]
SpannerFloats == Json({"null", "whole", "fraction", "unsafe", "minusZero"}, NotFinite)

Formats == [
  algolia |-> AlgoliaValue, appwrite |-> AppwriteValue, pocketbase |-> PocketBaseValue, azure |-> AzureTableValue, cosmosdb |-> CosmosValue,
  couchbase |-> CouchbaseValue, couchdb |-> CouchDbValue, postgrest |-> PostgrestValue, typesense |-> TypesenseValue,
  datastore |-> DatastoreValue, elasticsearch |-> ElasticsearchValue, opensearch |-> OpenSearchValue, ovdb |-> OvdbValue,
  clickhouse |-> ClickHouseValue, neo4j |-> Neo4jValue, neptune |-> NeptuneValue, pinecone |-> PineconeValue, qdrant |-> QdrantValue,
  solr |-> SolrValue, libsql |-> LibSQLValue, rdsdata |-> RdsDataValue, kusto |-> KustoValue, d1http |-> D1HttpValue,
  redshift |-> RedshiftValue, influx |-> InfluxValue, timestream |-> TimestreamValue, bigquery |-> BigQueryValue,
  snowflake |-> SnowflakeValue, clickhouseNative |-> ClickHouseNativeValue, analytical |-> AnalyticalValue, spannerInt |-> SpannerIntegers, spannerFloat |-> SpannerFloats]

(* What another client can have put into a field of the service.           *)
Holdable(service) ==
  CASE service = "spannerInt" -> {"null", "whole", "unsafe", "long"}
    [] service = "spannerFloat" -> {"null", "whole", "fraction", "unsafe", "minusZero"}
    [] service \in {"clickhouseNative", "analytical"} -> (Tokens \ {"huge"}) \union {"infinite"}
    [] service \in {"libsql", "rdsdata", "redshift"} -> Scalar \union {"null", "long"}
    [] OTHER -> Tokens

VARIABLES format,  \* the adapter
          written,   \* what the caller writes, or "" when another client wrote the field
          held,    \* what the service holds
          passage, \* "given", "refused", "held", then "read" or "unreadable"
          back     \* what the caller reads
valueVars == <<format, written, held, passage, back>>

ValuesInit ==
  /\ format \in DOMAIN Formats /\ back = ""
  /\ \/ written \in Given /\ held = "" /\ passage = "given" /\ Formats[format].accepts # {}
     \/ written = "" /\ held \in Holdable(format) /\ passage = "held"

codec == Formats[format]
Checked == written \in codec.accepts \ Unserialized
WireOf(kind) == IF codec.integers /\ kind = "bool" THEN "whole" ELSE Stringified(kind)

EncodeValue ==
  /\ passage = "given"
  /\ IF Checked THEN passage' = "held" /\ held' = WireOf(written) ELSE passage' = "refused" /\ UNCHANGED held
  /\ UNCHANGED <<format, written, back>>

Parsed(token) ==
  CASE token = "long" -> (CASE codec.parse = "json" -> "rounded" [] codec.parse \in {"digits", "cells"} -> token [] OTHER -> "refused")
    [] token = "huge" -> (CASE codec.parse = "scan" -> "refused" [] OTHER -> "infinite")
    [] token = "minusZero" -> (CASE codec.parse = "cells" -> "whole" [] codec.parse = "scan" -> "refused" [] OTHER -> token)
    [] token = "unsafe" -> IF codec.parse = "scan" THEN "refused" ELSE token
    [] OTHER -> token

DecodeValue ==
  /\ passage = "held"
  /\ LET parsed == Parsed(held) IN
     IF parsed = "refused" \/ parsed \in codec.refuses
     THEN passage' = "unreadable" /\ UNCHANGED back
     ELSE passage' = "read" /\ back' = parsed
  /\ UNCHANGED <<format, written, held>>

ValuesNext == EncodeValue \/ DecodeValue
ValuesSpec == ValuesInit /\ [][ValuesNext]_valueVars

ValuesTypeOK ==
  /\ format \in DOMAIN Formats /\ written \in Given \union {""}
  /\ held \in Tokens \union {"", "absent", "infinite"} /\ passage \in {"given", "refused", "held", "read", "unreadable"}
  /\ back \in Tokens \union {"", "absent", "infinite", "rounded"}

-----------------------------------------------------------------------------
(* These encode whatever the caller gives.                                  *)
Loose == {"elasticsearch", "opensearch", "ovdb", "clickhouse"}
(* Array.forEach passes over the holes of a list.                           *)
SkipHoles == {"algolia", "couchbase", "neo4j", "pinecone", "qdrant", "solr"} \union Loose
(* These read a number as JSON.parse gives it, and do not look at it.       *)
Rounding == {"algolia", "appwrite", "pocketbase", "azure", "cosmosdb", "couchbase", "neo4j", "neptune", "pinecone", "qdrant", "solr",
             "influx", "spannerFloat"} \union Loose
Unbounded == {"appwrite", "pocketbase", "neo4j", "neptune", "qdrant", "solr", "influx", "bigquery", "snowflake", "spannerInt"} \union Loose

WrittenOtherwise ==
  \/ written \in {"undefined", "date", "infinite", "bytes"} /\ format \in Loose
  \/ written = "minusZero"
  \/ written = "holed" /\ format \in SkipHoles
  \/ written = "bool" /\ format = "libsql"

(* A value that an adapter writes without an error is the value that the    *)
(* service holds, and what it reads without an error is what the service    *)
(* holds: no value is altered but in the cases named above.  The adapters   *)
(* outside Rounding refuse an integer that a double cannot hold, or give    *)
(* its digits.                                                              *)
ValuesSurvive ==
  /\ (written # "" /\ passage \in {"held", "read"}) => ((held # written) = WrittenOtherwise)
  /\ passage = "read" =>
       (back # held) = (\/ held = "long" /\ format \in Rounding
                        \/ held = "huge" /\ format \in Unbounded
                        \/ held = "minusZero" /\ format = "analytical")
=============================================================================
