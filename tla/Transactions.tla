---------------------------- MODULE Transactions ----------------------------
(***************************************************************************)
(* `runReadwriteTransaction': the callback reads and writes records, and   *)
(* what it wrote is to be in the store at once, or not at all.             *)
(*   ovdb       keeps the writes and sends them as one batch, whose checks *)
(*              the service makes;                                         *)
(*   firestore  keeps them too, and has its reads validated; the callback  *)
(*              runs again where one of them has changed;                  *)
(*   neo4j      sends every statement into a transaction of the service;   *)
(*   sqlite     BEGIN and COMMIT on the one connection, whose queue lets   *)
(*              nothing else in; SQLite may roll back by itself before     *)
(*              either, and takes what comes next by itself;               *)
(*   indexeddb  a transaction of the browser, which commits by itself when *)
(*              the callback waits for something else.                     *)
(* A record is absent (0), or as another client (1), an insert or a set    *)
(* (2) or an update (3) left it.                                           *)
(***************************************************************************)
EXTENDS Integers, SequencesExt
CONSTANTS TxKeys, MaxSteps, MaxOthers, MaxAttempts
ASSUME TransactionsAssumption == MaxSteps \in Nat /\ MaxOthers \in Nat /\ MaxAttempts \in Nat \ {0}

TxKinds == {"ovdb", "firestore", "neo4j", "sqlite", "indexeddb"}
Unwritten == -1
Unread == -1
TxOps == {"insert", "set", "update", "delete"}
Leaves(op) == CASE op = "delete" -> 0 [] op = "update" -> 3 [] OTHER -> 2

VARIABLES txKind,   \* the adapter
          records,  \* the store
          phase,    \* "callback", "committing", "closed"
          mine,     \* what the transaction wrote
          accepted, \* its accepted writes, in order
          readAs,   \* what it first read of a record it had not written
          broken,   \* the service has ended the transaction for an error
          early,    \* the browser has committed it
          gone,     \* SQLite has rolled it back
          adrift,   \* an operation that the callback did not await
          ending,   \* "", "ok" or "failed"
          landed,   \* how many of its writes reached the store: "none", "some" or "all"
          excused,  \* "lost" answer, "drifted" operation or one that was "autocommitted"
          stale,    \* a read was no longer true at the commit
          steps, others, attempts
txVars == <<txKind, records, phase, mine, accepted, readAs, broken, early, gone, adrift, ending, landed, excused, stale, steps, others, attempts>>

Untouched == [k \in TxKeys |-> Unwritten]
TxInit ==
  /\ txKind \in TxKinds /\ records \in [TxKeys -> {0, 1}] /\ phase = "callback"
  /\ mine = Untouched /\ accepted = <<>> /\ readAs = Untouched
  /\ broken = FALSE /\ early = FALSE /\ gone = FALSE /\ adrift = <<>> /\ ending = "" /\ landed = "none" /\ excused = {} /\ stale = FALSE
  /\ steps = 0 /\ others = 0 /\ attempts = 1

(* What the transaction sees of a record.                                   *)
View(k) == IF mine[k] = Unwritten \/ phase = "closed" THEN records[k] ELSE mine[k]
Reads(k) == readAs' = IF mine[k] = Unwritten /\ readAs[k] = Unread THEN [readAs EXCEPT ![k] = records[k]] ELSE readAs
CanRead == txKind = "firestore" => accepted = <<>>

(* The error that an operation gives the callback.                          *)
Rejects(op, k) ==
  \/ broken \/ early
  \/ op = "insert" /\ CASE txKind = "ovdb" -> mine[k] \in {2, 3}
                        [] txKind = "firestore" -> ~CanRead \/ records[k] # 0
                        [] OTHER -> View(k) # 0
  \/ op = "update" /\ txKind # "firestore" /\ View(k) = 0
  \/ op = "delete" /\ txKind \in {"neo4j", "sqlite"} /\ View(k) = 0
ReadsFirst(op) == (op = "insert" /\ txKind = "firestore") \/ (op = "update" /\ txKind = "ovdb")

(* Neo4j ends a transaction for a violated constraint, not for no match.    *)
Breaks(op, k) == broken \/ (txKind = "neo4j" /\ op = "insert" /\ View(k) # 0)

Accept(op, k) ==
  /\ mine' = [mine EXCEPT ![k] = Leaves(op)]
  /\ accepted' = Append(accepted, [op |-> IF txKind = "firestore" /\ op = "insert" THEN "set" ELSE op, key |-> k])
  /\ UNCHANGED <<records, landed, excused>>

(* A statement that runs in no transaction: it is in the store at once.     *)
StoreAlone(op, k, excuse) ==
  /\ records' = [records EXCEPT ![k] = Leaves(op)]
  /\ landed' = IF ending = "ok" THEN landed ELSE "some"
  /\ excused' = excused \union excuse
  /\ UNCHANGED <<mine, accepted>>

Step == phase = "callback" /\ steps < MaxSteps /\ steps' = steps + 1

Get(k) ==
  /\ Step /\ CanRead /\ ~broken /\ ~early /\ Reads(k)
  /\ UNCHANGED <<txKind, records, phase, mine, accepted, broken, early, gone, adrift, ending, landed, excused, stale, others, attempts>>

Write(op, k) ==
  /\ Step
  /\ IF Rejects(op, k) THEN broken' = Breaks(op, k) /\ UNCHANGED <<records, mine, accepted, landed, excused>>
     ELSE UNCHANGED broken /\ IF gone THEN StoreAlone(op, k, {"autocommitted"}) ELSE Accept(op, k)
  /\ IF ReadsFirst(op) /\ CanRead THEN Reads(k) ELSE UNCHANGED readAs
  /\ UNCHANGED <<txKind, phase, early, gone, adrift, ending, stale, others, attempts>>

(* SQLite fails a write and rolls the transaction back, SQLITE_FULL for one,*)
(* whether the callback awaits it or not; BEGIN is not repeated.            *)
DiskFull ==
  /\ txKind = "sqlite" /\ gone' = TRUE /\ mine' = Untouched /\ accepted' = <<>>
  /\ \/ Step /\ UNCHANGED adrift
     \/ phase # "closed" /\ adrift # <<>> /\ adrift' = <<>> /\ UNCHANGED steps
  /\ UNCHANGED <<txKind, records, phase, readAs, broken, early, ending, landed, excused, stale, others, attempts>>

(* A write that the callback starts and does not await: `#check' has passed,*)
(* and the schema is awaited before the statement.                          *)
\* (Bug: the transaction is not closed for its callers.)
NeverClosed == txKind = "sqlite" /\ adrift = <<>>
Open == txKind = "sqlite" /\ adrift = <<>> /\ phase = "callback"
StartAdrift(op, k) ==
  /\ Open /\ steps < MaxSteps /\ steps' = steps + 1
  /\ adrift' = <<[op |-> op, key |-> k, inside |-> phase = "callback"]>>
  /\ UNCHANGED <<txKind, records, phase, mine, accepted, readAs, broken, early, gone, ending, landed, excused, stale, others, attempts>>

(* Its statement runs: in the transaction, or in none.                      *)
RunAdrift ==
  /\ adrift # <<>> /\ adrift' = <<>>
  /\ LET one == adrift[1]
     IN IF Rejects(one.op, one.key) THEN UNCHANGED <<records, mine, accepted, landed, excused>>
        ELSE IF gone \/ phase = "closed" THEN StoreAlone(one.op, one.key, IF one.inside THEN {"drifted"} ELSE {})
        ELSE Accept(one.op, one.key)
  /\ UNCHANGED <<txKind, phase, readAs, broken, early, gone, ending, stale, steps, others, attempts>>

(* What the writes make of the store: an insert finds the record absent and *)
(* an update finds it, or none is made.                                     *)
JudgeWrite(result, write) ==
  IF \/ write.op = "insert" /\ result.store[write.key] # 0
     \/ write.op = "update" /\ result.store[write.key] = 0
  THEN [result EXCEPT !.ok = FALSE]
  ELSE [result EXCEPT !.store[write.key] = Leaves(write.op)]
AfterWrites == FoldLeft(JudgeWrite, [ok |-> TRUE, store |-> records], accepted)
Land ==
  /\ records' = AfterWrites.store
  /\ landed' = IF accepted = <<>> THEN landed ELSE "all"
  /\ stale' = \E k \in TxKeys : readAs[k] \notin {Unread, records[k]}

(* The browser commits when no request is under way.                        *)
AutoCommit ==
  /\ txKind = "indexeddb" /\ phase = "callback" /\ ~early /\ early' = TRUE /\ Land
  /\ UNCHANGED <<txKind, phase, mine, accepted, readAs, broken, gone, adrift, ending, excused, steps, others, attempts>>

CallbackReturns ==
  /\ phase = "callback"
  /\ IF early THEN phase' = "closed" /\ ending' = "ok" ELSE phase' = "committing" /\ UNCHANGED ending
  /\ UNCHANGED <<txKind, records, mine, accepted, readAs, broken, early, gone, adrift, landed, excused, stale, steps, others, attempts>>

Settle(told) == phase' = "closed" /\ ending' = told
(* The callback's own error, or one of an operation that it lets through;   *)
(* or a commit that the service, the disk or the network refuses.           *)
RollBack ==
  /\ phase \in {"callback", "committing"} /\ Settle("failed")
  /\ UNCHANGED <<txKind, records, mine, accepted, readAs, broken, early, gone, adrift, landed, excused, stale, steps, others, attempts>>

Conflicts == txKind = "firestore" /\ \E k \in TxKeys : readAs[k] \notin {Unread, records[k]}
Commit ==
  /\ phase = "committing" /\ AfterWrites.ok /\ ~broken /\ ~gone /\ ~Conflicts
  /\ Land
  /\ \/ Settle("ok") /\ UNCHANGED excused
     \/ txKind \in {"ovdb", "firestore", "neo4j"} /\ accepted # <<>> /\ Settle("failed") /\ excused' = excused \union {"lost"}
  /\ UNCHANGED <<txKind, mine, accepted, readAs, broken, early, gone, adrift, steps, others, attempts>>

RunAgain ==
  /\ phase = "committing" /\ Conflicts /\ attempts < MaxAttempts
  /\ attempts' = attempts + 1 /\ steps' = 0 /\ phase' = "callback"
  /\ mine' = Untouched /\ accepted' = <<>> /\ readAs' = Untouched
  /\ UNCHANGED <<txKind, records, broken, early, gone, adrift, ending, landed, excused, stale, others>>

(* Another client, or another call of the database.                         *)
\* (Bug: a call of the database is not queued behind the transaction.)
KeepsNoneOut(k) == phase # "closed" /\ ((txKind = "neo4j" /\ mine[k] # Unwritten) \/ (txKind = "indexeddb" /\ ~early))
KeepsOut(k) == phase # "closed" /\ \/ txKind = "neo4j" /\ mine[k] # Unwritten
                                   \/ txKind = "sqlite"
                                   \/ txKind = "indexeddb" /\ ~early
Other(k) ==
  /\ ~KeepsOut(k) /\ others < MaxOthers /\ others' = others + 1
  /\ records' = [records EXCEPT ![k] = IF @ = 0 THEN 1 ELSE 0]
  /\ UNCHANGED <<txKind, phase, mine, accepted, readAs, broken, early, gone, adrift, ending, landed, excused, stale, steps, attempts>>

TxNext ==
  \/ \E k \in TxKeys : Get(k) \/ Other(k) \/ \E op \in TxOps : Write(op, k) \/ StartAdrift(op, k)
  \/ RunAdrift \/ DiskFull \/ AutoCommit \/ CallbackReturns \/ RollBack \/ Commit \/ RunAgain
TxSpec == TxInit /\ [][TxNext]_txVars

TxTypeOK ==
  /\ txKind \in TxKinds /\ records \in [TxKeys -> 0..3] /\ phase \in {"callback", "committing", "closed"}
  /\ mine \in [TxKeys -> -1..3] /\ accepted \in Seq([op : TxOps, key : TxKeys]) /\ readAs \in [TxKeys -> -1..3]
  /\ adrift \in Seq([op : TxOps, key : TxKeys, inside : BOOLEAN]) /\ ending \in {"", "ok", "failed"}
  /\ {broken, early, gone, stale} \subseteq BOOLEAN /\ landed \in {"none", "some", "all"} /\ excused \subseteq {"lost", "drifted", "autocommitted"}
  /\ steps \in 0..MaxSteps /\ others \in 0..MaxOthers /\ attempts \in 1..MaxAttempts

-----------------------------------------------------------------------------
(* A transaction that settles has all its writes in the store; one that     *)
(* fails has none there, but for an answer to the commit that was lost, a   *)
(* commit of the browser's own, a SQLite operation that its callback did    *)
(* not await, and SQLite writes after it has rolled back by itself.         *)
TransactionIsWhole ==
  /\ ending = "ok" => accepted = <<>> \/ landed = "all"
  /\ ending = "failed" /\ landed # "none" => early \/ excused # {}

(* "Any error rolls the whole batch back" (sqlite-wasm/src/database.ts:301):*)
(* of a SQLite transaction that fails, no operation that its callback       *)
(* awaited is in the store.                                                 *)
ErrorRollsBack == txKind = "sqlite" /\ ending = "failed" /\ landed # "none" => "drifted" \in excused

(* What a transaction read is still so when its writes reach the store,     *)
(* whoever else writes in the meantime; ovdb and Neo4j do not look.         *)
ReadsHoldAtCommit == stale => txKind \in {"ovdb", "neo4j"}
=============================================================================
