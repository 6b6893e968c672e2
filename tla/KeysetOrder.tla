---------------------------- MODULE KeysetOrder -----------------------------
(***************************************************************************)
(* The condition with which each adapter asks for the rows after the last  *)
(* row of a page, and the order in which its service puts the rows.  A row *)
(* is [v, id]: the value it is ordered by, which may be Null, and its key, *)
(* the tie-break that these adapters append.  A comparison with Null is    *)
(* never true, as in SQL, Cypher and PostgREST.                            *)
(***************************************************************************)
EXTENDS Integers
Null == 0
Directions == {"none", "asc", "desc"}      \* "none": by the key alone

(* Where a service puts Null: it is the "least" value or the "greatest", or *)
(* comes "last" in either direction.                                        *)
NullFirst(nulls, dir) == CASE nulls = "least" -> dir = "asc" [] nulls = "greatest" -> dir = "desc" [] OTHER -> FALSE
ValueBefore(nulls, dir, v, w) ==
  CASE v = w -> FALSE
    [] (v = Null) # (w = Null) -> (v = Null) = NullFirst(nulls, dir)
    [] OTHER -> IF dir = "asc" THEN v < w ELSE v > w
RowBefore(nulls, dir, r, s) ==
  IF dir # "none" /\ r.v # s.v THEN ValueBefore(nulls, dir, r.v, s.v) ELSE r.id < s.id

BothKnown(v, w) == v # Null /\ w # Null
BeyondValue(dir, v, w) == BothKnown(v, w) /\ (IF dir = "asc" THEN v > w ELSE v < w)
SameValue(v, w) == BothKnown(v, w) /\ v = w
SameOrNull(v, w) == v = w

(* Values compared as they are; a Null in the cursor has been refused.      *)
PlainAfter(dir, r, c) ==
  IF dir = "none" THEN r.id > c.id ELSE BeyondValue(dir, r.v, c.v) \/ (SameValue(r.v, c.v) /\ r.id > c.id)
Neo4jAfter(dir, r, c) == PlainAfter(dir, r, c)
NeptuneAfter(dir, r, c) == PlainAfter(dir, r, c)
InfluxAfter(dir, r, c) == PlainAfter(dir, r, c)
BigQueryAfter(dir, r, c) == PlainAfter(dir, r, c)
ClickHouseAfter(dir, r, c) == PlainAfter(dir, r, c)
LibSQLAfter(dir, r, c) == PlainAfter(dir, r, c)

(* ASC NULLS FIRST, DESC NULLS LAST.                                        *)
NativeAfter(dir, r, c) ==
  LET next == CASE dir = "asc" -> IF c.v = Null THEN r.v # Null ELSE BeyondValue(dir, r.v, c.v)
                [] dir = "desc" -> c.v # Null /\ (BeyondValue(dir, r.v, c.v) \/ r.v = Null)
                [] OTHER -> FALSE
  IN next \/ (r.id > c.id /\ (dir = "none" \/ SameOrNull(r.v, c.v)))

(* asc: nulls last, desc: nulls first; the mutated form knows no nulls.     *)
PostgrestNullBlind(dir, r, c) == PlainAfter(dir, r, c)
PostgrestAfter(dir, r, c) ==
  LET next == CASE dir = "asc" -> c.v # Null /\ (BeyondValue(dir, r.v, c.v) \/ r.v = Null)
                [] dir = "desc" -> IF c.v = Null THEN r.v # Null ELSE BeyondValue(dir, r.v, c.v)
                [] OTHER -> FALSE
  IN next \/ (r.id > c.id /\ (dir = "none" \/ SameOrNull(r.v, c.v)))

(* A missing value ranks below every other one.                             *)
IndexedDbAfter(dir, r, c) == RowBefore("least", dir, c, r)
(* The position the SDK or the service keeps itself.                        *)
PositionAfter(nulls, dir, r, c) == RowBefore(nulls, dir, c, r)
(* search_after: the sort values alone.                                     *)
SearchAfter(dir, r, c) == ValueBefore("last", dir, c.v, r.v)

After(how, nulls, dir, r, c) ==
  CASE how = "neo4j" -> Neo4jAfter(dir, r, c)
    [] how = "neptune" -> NeptuneAfter(dir, r, c)
    [] how = "influx" -> InfluxAfter(dir, r, c)
    [] how = "bigquery" -> BigQueryAfter(dir, r, c)
    [] how = "clickhouse" -> ClickHouseAfter(dir, r, c)
    [] how = "libsql" -> LibSQLAfter(dir, r, c)
    [] how = "native" -> NativeAfter(dir, r, c)
    [] how = "postgrest" -> PostgrestAfter(dir, r, c)
    [] how = "indexeddb" -> IndexedDbAfter(dir, r, c)
    [] how = "search" -> SearchAfter(dir, r, c)
    [] OTHER -> PositionAfter(nulls, dir, r, c)
(* These refuse a cursor with a Null in it.                                 *)
NullRefused == {"neo4j", "neptune", "influx", "bigquery", "clickhouse", "libsql"}
=============================================================================
