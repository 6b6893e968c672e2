---------------------------- MODULE KeyDiscovery ----------------------------
(***************************************************************************)
(* What `discover' says of a table whose key column is configured: whether *)
(* the metadata prove that the column names one row, as libSQL reads it    *)
(* from SQLite's pragmas in two requests and PostgREST from its OpenAPI    *)
(* document.  A table has the configured column "id" and one "other".      *)
(***************************************************************************)
EXTENDS Naturals, FiniteSets
CONSTANTS MaxTables, MaxRead   \* entries of the inventory; those that the statements allow to read
ASSUME DiscoveryAssumption == MaxTables \in Nat \ {0} /\ MaxRead \in 0..MaxTables

Cols == {"id", "other"}
Catalogs == {"libsql", "postgrest"}
(* "norowid" is WITHOUT ROWID; the column id is an INTEGER or not, NOT NULL *)
(* or not; its index may be partial; `other' is a TEXT and NOT NULL.        *)
Schemas ==
  {s \in [kind : {"table", "norowid", "view"}, int : BOOLEAN, strict : BOOLEAN, pk : SUBSET Cols, desc : BOOLEAN,
          index : {"none", "whole", "partial"}, otherIndex : BOOLEAN] :
     /\ s.kind = "view" => s.pk = {} /\ s.index = "none" /\ ~s.otherIndex /\ ~s.strict
     /\ s.kind = "norowid" => s.pk # {}
     /\ s.desc => s.pk = {"id"} /\ s.int}
(* The configuration and the bounds against the table: its fields are too   *)
(* many, the column is not there, its type does not fit, the table is not   *)
(* allowed, or a field has a schema that the document does not resolve.     *)
Cases == {"plain", "wide", "absent", "misfit", "foreign", "veiled"}

VARIABLES catalog, schema, situation, contract, \* contract: the caller vouches for the column
          place,      \* of the table in the inventory
          phaseOf,    \* "list", "read", "done"
          entry,      \* "", "dropped", "unread", "refused", "found" or "unavailable"
          claim,      \* "none", "metadata" or "contract"
          truncated
discoveryVars == <<catalog, schema, situation, contract, place, phaseOf, entry, claim, truncated>>

DiscoveryInit ==
  /\ catalog \in Catalogs /\ schema \in Schemas /\ situation \in Cases /\ contract \in BOOLEAN /\ place \in 1..(MaxTables + 1)
  /\ situation = "veiled" => catalog = "postgrest"
  /\ place > 1 => situation = "plain" /\ contract
  /\ catalog = "postgrest" => schema.kind # "norowid" /\ ~schema.desc /\ schema.index = "none" /\ ~schema.otherIndex /\ contract
  /\ phaseOf = "list" /\ entry = "" /\ claim = "none" /\ truncated = FALSE

-----------------------------------------------------------------------------
(* SQLite: the alias of the rowid has no index and is never Null; every     *)
(* other primary key has an index, and may hold Nulls in a rowid table.     *)
Alias(s) == s.kind = "table" /\ s.pk = {"id"} /\ s.int /\ ~s.desc
PkIndexed(s) == s.pk # {} /\ ~Alias(s)
DeclaredNotNull(s, c) == c = "other" \/ s.strict \/ (s.kind = "norowid" /\ c \in s.pk)
NamesOneRow(s) ==
  \/ s.pk = {"id"} /\ (catalog = "postgrest" \/ Alias(s) \/ DeclaredNotNull(s, "id"))
  \/ s.index = "whole" /\ DeclaredNotNull(s, "id")

(* What the adapter concludes from the pragmas.                             *)
\* (Bug: a descending INTEGER key passes for the rowid.)
AnyInteger(s, c) == s.kind = "table" /\ c = "id" /\ s.int
RowidAlias(s, c) == s.kind = "table" /\ c = "id" /\ s.int /\ ~PkIndexed(s)
UniqueIndexes(s) ==
  {c \in Cols : DeclaredNotNull(s, c) /\ IF c = "id" THEN s.index = "whole" ELSE s.otherIndex}
ProvenKey(s) ==
  CASE situation = "wide" -> {}
    [] situation # "wide" /\ s.pk # {} ->
         {c \in s.pk : Cardinality(s.pk) = 1 /\ (DeclaredNotNull(s, c) \/ RowidAlias(s, c))}
    [] OTHER -> IF "other" \in UniqueIndexes(s) THEN {"other"} ELSE UniqueIndexes(s)
LibSQLClaim(s) ==
  CASE situation \in {"foreign", "misfit", "absent"} -> "none"
    [] situation \in {"plain", "wide"} /\ ProvenKey(s) = {"id"} -> "metadata"
    [] OTHER -> IF contract THEN "contract" ELSE "none"

(* The document marks the columns of a primary key in their descriptions.   *)
MarkedKey(s) == IF situation = "veiled" THEN s.pk \ {"other"} ELSE s.pk
PostgrestClaim(s) ==
  CASE situation \in {"absent", "foreign"} -> "none"
    [] MarkedKey(s) = {} /\ situation \notin {"absent", "foreign"} -> "contract"
    [] OTHER -> IF MarkedKey(s) = {"id"} THEN "metadata" ELSE "none"

-----------------------------------------------------------------------------
ListTables ==
  /\ catalog = "libsql" /\ phaseOf = "list"
  /\ IF place > MaxTables THEN entry' = "dropped" /\ phaseOf' = "done" /\ truncated' = TRUE
     ELSE IF place > MaxRead THEN entry' = "unread" /\ phaseOf' = "done" /\ truncated' = TRUE
     ELSE phaseOf' = "read" /\ UNCHANGED <<entry, truncated>>
  /\ UNCHANGED <<catalog, schema, situation, contract, place, claim>>

ReadTable ==
  /\ phaseOf = "read" /\ phaseOf' = "done"
  /\ \/ entry' = "refused" /\ truncated' = TRUE /\ UNCHANGED claim
     \/ entry' = "found" /\ truncated' = (situation = "wide") /\ claim' = LibSQLClaim(schema)
  /\ UNCHANGED <<catalog, schema, situation, contract, place>>

ReadDocument ==
  /\ catalog = "postgrest" /\ phaseOf = "list" /\ phaseOf' = "done"
  /\ IF place > MaxTables THEN entry' = "dropped" /\ truncated' = TRUE /\ UNCHANGED claim
     ELSE entry' = "found" /\ truncated' = FALSE /\ claim' = PostgrestClaim(schema)
  /\ UNCHANGED <<catalog, schema, situation, contract, place>>

(* Denied, disabled, malformed or too long: said so, with no table at all.  *)
DiscoveryFails ==
  /\ catalog = "libsql" /\ phaseOf # "done" /\ phaseOf' = "done" /\ entry' = "unavailable" /\ truncated' = FALSE
  /\ UNCHANGED <<catalog, schema, situation, contract, place, claim>>
DocumentFails ==
  /\ catalog = "postgrest" /\ phaseOf = "list" /\ phaseOf' = "done" /\ entry' = "unavailable" /\ truncated' = FALSE
  /\ UNCHANGED <<catalog, schema, situation, contract, place, claim>>

DiscoveryNext == ListTables \/ ReadTable \/ ReadDocument \/ DiscoveryFails \/ DocumentFails
DiscoverySpec == DiscoveryInit /\ [][DiscoveryNext]_discoveryVars

DiscoveryTypeOK ==
  /\ catalog \in Catalogs /\ schema \in Schemas /\ situation \in Cases /\ contract \in BOOLEAN /\ place \in 1..(MaxTables + 1)
  /\ phaseOf \in {"list", "read", "done"} /\ entry \in {"", "dropped", "unread", "refused", "found", "unavailable"}
  /\ claim \in {"none", "metadata", "contract"} /\ truncated \in BOOLEAN

-----------------------------------------------------------------------------
(* Where discovery says that the metadata prove the key, the column does    *)
(* name one row in every table that can have those metadata: no two rows    *)
(* share a value and none is Null.  Not so where a part of PostgREST's      *)
(* primary key stands in a field that its document does not resolve.        *)
KeyIsProven == claim = "metadata" => NamesOneRow(schema) \/ (situation = "veiled" /\ "other" \in schema.pk)
=============================================================================
