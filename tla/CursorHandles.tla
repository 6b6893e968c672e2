---------------------------- MODULE CursorHandles ----------------------------
(***************************************************************************)
(* The cursors that an adapter keeps in memory.  A page of a query comes   *)
(* with a handle, and the handle asks for the page after it: once, with    *)
(* the same query and the same credentials.  A query leases its handle     *)
(* before its requests, the registry holds at most MaxIssued handles and   *)
(* drops the oldest for a new one.                                         *)
(* Left out: a caller that changes the query, which is refused in planning *)
(* and leaves no mark; whether a refusal says replayed or foreign, and     *)
(* with it the list of the spent handles; the positions and the rows,      *)
(* which QueryPages follows.                                               *)
(***************************************************************************)
EXTENDS Integers, Sequences, FiniteSets
CONSTANTS Callers, MaxIssued, MaxMinted, MaxQueryPages
ASSUME HandlesAssumption == MaxIssued \in Nat \ {0} /\ MaxMinted \in Nat \ {0} /\ MaxQueryPages \in Nat \ {0}

(*   leases    a handle is for one query at a time, and for one page;      *)
(*   spends    a lease ends with the answer of the service ("answer"), or  *)
(*             with the complete page, before its handle ("page") or after *)
(*             it ("issued"); "never" where a handle stays;                *)
(*   unmarks   a handle that is dropped loses its lease;                   *)
(*   counts    pages beyond MaxQueryPages are refused;                     *)
(*   positions a position that is Null has no page after it.               *)
LibSQLHandles == [leases |-> TRUE, spends |-> "answer", unmarks |-> TRUE, counts |-> TRUE, positions |-> TRUE]
NativeLibSQLHandles == [LibSQLHandles EXCEPT !.positions = FALSE]
NativeCouchDbHandles ==
  [leases |-> TRUE, spends |-> "issued", unmarks |-> FALSE, counts |-> FALSE, positions |-> FALSE]
\* (Bug: the replacement is published before the resumed handle is retired.)
TypesensePublishesFirst == NativeCouchDbHandles
TypesenseHandles == [NativeCouchDbHandles EXCEPT !.spends = "page"]
DatastoreHandles == [NativeCouchDbHandles EXCEPT !.leases = FALSE, !.spends = "never"]

Registries == [libsql |-> LibSQLHandles, nativeLibsql |-> NativeLibSQLHandles, couchdb |-> NativeCouchDbHandles,
               typesense |-> TypesenseHandles, datastore |-> DatastoreHandles]

Handles == 1..MaxMinted
Idle == -1

VARIABLES registry, \* the adapter
          opened,   \* the database has not been closed
          issued,   \* the handles in the registry, in the order of their numbers
          active,   \* the leased handles
          bound,    \* the page that each minted handle came with
          handed,   \* the handles that callers got
          running,  \* the handle of each caller's query: 0 for a first page, or Idle
          paged,    \* how many pages each leased handle gave
          dropped,  \* the handles that went for a newer one
          burned    \* the handles whose query failed with its answer, or had none to ask
handleVars == <<registry, opened, issued, active, bound, handed, running, paged, dropped, burned>>

kept == Registries[registry]
Minted == Len(bound)

HandlesInit ==
  /\ registry \in DOMAIN Registries /\ opened = TRUE
  /\ issued = {} /\ active = {} /\ bound = <<>> /\ handed = {}
  /\ running = [c \in Callers |-> Idle] /\ paged = [h \in Handles |-> 0] /\ dropped = {} /\ burned = {}

(* A handle is looked up before anything is sent; a refusal leaves no mark. *)
\* (Bug: a handle is not refused while a query holds it.)
AllowsActive(h) == h \in issued /\ (kept.counts => bound[h].page < MaxQueryPages)
Usable(h) == h \in issued \ active /\ (kept.counts => bound[h].page < MaxQueryPages)
Reserve(h) == active' = IF kept.leases /\ h # 0 THEN active \union {h} ELSE active
Compiles(h) == ~(kept.positions /\ bound[h].null)

(* `plan', `reserve' and `prepareCursor': the caller asks for a first page, *)
(* or for the page after a handle.                                          *)
Present(c) ==
  /\ opened /\ running[c] = Idle
  /\ \E h \in handed \union {0} :
       /\ h # 0 => Usable(h) /\ Compiles(h)
       /\ Reserve(h) /\ running' = [running EXCEPT ![c] = h]
  /\ UNCHANGED <<registry, opened, issued, bound, handed, paged, dropped, burned>>

(* The continuation is compiled between the reservation and the try block.  *)
CompileFails(c) ==
  /\ opened /\ running[c] = Idle
  /\ \E h \in handed : Usable(h) /\ ~Compiles(h) /\ Reserve(h) /\ burned' = burned \union {h}
  /\ UNCHANGED <<registry, opened, issued, bound, handed, running, paged, dropped>>

Release(c) ==
  /\ running[c] # Idle
  /\ active' = active \ {running[c]} /\ running' = [running EXCEPT ![c] = Idle]

(* The headers are not those of the handle, no answer comes, or an error    *)
(* for one, or the caller's signal.                                         *)
Fail(c) == Release(c) /\ UNCHANGED <<registry, opened, issued, bound, handed, paged, dropped, burned>>

(* A new handle pushes out the oldest one of a full registry.               *)
Trimmed(handles) == IF Cardinality(handles) >= MaxIssued THEN {h \in handles : \E older \in handles : older < h} ELSE handles
Spent(h) == IF kept.spends = "never" THEN 0 ELSE h

(* The registry after a page: its handle retired, and a new one published.  *)
AfterPage(h, mint) ==
  LET new == IF mint THEN {Minted + 1} ELSE {}
      Room(handles) == IF mint THEN Trimmed(handles) ELSE handles
  IN IF kept.spends = "issued" THEN (Room(issued) \union new) \ {h} ELSE Room(issued \ {Spent(h)}) \union new

(* A whole page: the caller gets its records and the handle of the next.  A *)
(* `late' abort takes both from it where nothing looks at the signal before *)
(* the registry changes.                                                    *)
Page(c) ==
  /\ opened /\ running[c] # Idle /\ running' = [running EXCEPT ![c] = Idle]
  /\ \E mint, null, late \in BOOLEAN :
       LET h == running[c]
           after == AfterPage(h, mint)
           out == issued \ (after \union {Spent(h)})
           page == IF h = 0 THEN 1 ELSE bound[h].page + 1
       IN
       /\ mint => Minted < MaxMinted
       /\ null => mint /\ kept.positions
       /\ late => kept.spends = "answer"
       /\ issued' = after /\ dropped' = dropped \union out
       /\ active' = active \ ({h} \union IF kept.unmarks THEN out ELSE {})
       /\ bound' = IF mint THEN Append(bound, [page |-> page, null |-> null]) ELSE bound
       /\ handed' = IF mint /\ ~late THEN handed \union {Minted + 1} ELSE handed
       /\ paged' = [k \in Handles |-> IF k = h /\ kept.leases /\ ~late THEN paged[k] + 1 ELSE paged[k]]
       /\ burned' = IF late THEN burned \union ({h} \ {0}) ELSE burned
  /\ UNCHANGED <<registry, opened>>

(* The answer cannot be decoded, the codec throws, or the page after this   *)
(* one is beyond a bound of the adapter (`continuationUsable').            *)
Malformed(c) ==
  /\ Release(c)
  /\ issued' = IF kept.spends = "answer" THEN issued \ {running[c]} ELSE issued
  /\ burned' = burned \union ({running[c]} \ {0})
  /\ UNCHANGED <<registry, opened, bound, handed, paged, dropped>>

(* `close' of the Typesense database.                                       *)
CloseDatabase ==
  /\ registry = "typesense" /\ opened
  /\ opened' = FALSE /\ issued' = {} /\ active' = {}
  /\ UNCHANGED <<registry, bound, handed, running, paged, dropped, burned>>

HandlesNext ==
  \/ \E c \in Callers : Present(c) \/ CompileFails(c) \/ Fail(c) \/ Page(c) \/ Malformed(c)
  \/ CloseDatabase
HandlesSpec == HandlesInit /\ [][HandlesNext]_handleVars

HandlesTypeOK ==
  /\ registry \in DOMAIN Registries /\ opened \in BOOLEAN
  /\ issued \subseteq 1..Minted /\ Cardinality(issued) <= MaxIssued /\ active \subseteq 1..Minted
  /\ bound \in Seq([page : Nat, null : BOOLEAN]) /\ Minted <= MaxMinted
  /\ handed \subseteq 1..Minted /\ dropped \subseteq 1..Minted /\ burned \subseteq handed
  /\ running \in [Callers -> Handles \union {0, Idle}]
  /\ paged \in [Handles -> Nat]

-----------------------------------------------------------------------------
(* These retire a handle before they have decoded its page, and leave it    *)
(* leased where its continuation does not compile: a query that fails there *)
(* takes the rest of the result with it.                                    *)
Burns == {"libsql", "nativeLibsql"}

(* A handle gives one page, whatever callers ask at the same time; and as   *)
(* long as it gave none, no query holds it and newer handles have not       *)
(* pushed it out, it can be asked again, however often a query with it      *)
(* failed (but in Burns).                                                   *)
HandleGivesOnePage ==
  \A h \in handed :
    /\ paged[h] <= 1
    /\ \/ ~opened \/ h \in dropped \/ \E c \in Callers : running[c] = h
       \/ paged[h] = 1
       \/ h \in issued \ active
       \/ registry \in Burns /\ h \in burned

(* A query that gives a handle back to the registry, spent or not, drops no *)
(* other handle for the one it publishes.  CouchDB publishes before it      *)
(* retires; Datastore retires none.                                         *)
ResumeDropsNoOther ==
  [][registry \notin {"couchdb", "datastore"} =>
       \A c \in Callers :
         (running[c] \in issued /\ running'[c] = Idle) =>
           issued \ {running[c]} \subseteq issued']_handleVars
=============================================================================
