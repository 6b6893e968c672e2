---------------------------- MODULE DatasetStore ----------------------------
(***************************************************************************)
(* packages/sqlite-wasm/src/opfs: the engine a worker runs for one dataset *)
(* (engine.ts, canonical.ts, reset.ts, pool.ts) over the OPFS files that   *)
(* outlive it.  A version of the dataset (a pin) has a working copy, which *)
(* the user edits, its rollback journal, and a pristine copy.              *)
(*                                                                         *)
(* An action is the code between two awaits; the worker can be gone after  *)
(* each of them.  Bytes are what matters of them: a download is verified,  *)
(* so it is the pinned file or an error; a file is whole, torn (pages of   *)
(* an unfinished transaction, without their journal) or damaged.           *)
(* The engine's requests run one at a time (worker.ts).                    *)
(***************************************************************************)
EXTENDS Naturals

CONSTANTS Versions,     \* pins of the dataset, in any order of time
          MaxAttempts,  \* attempts at a locked pool
          MaxOpens,     \* bound: workers started
          MaxEdits,     \* bound: commits to a version
          MaxFaults     \* bound: files damaged by the outside world

ASSUME StoreAssumption ==
  MaxAttempts \in Nat \ {0} /\ MaxOpens \in Nat /\ MaxEdits \in Nat /\ MaxFaults \in Nat

VARIABLES working,      \* the working copies
          journal,      \* their journals: `hot' when a transaction is unfinished
          edits,        \* commits a working copy holds
          pristine,     \* the pristine copies
          locked,       \* a worker that is going away still has the pool's handles
          pc,           \* what the engine awaits
          pin, single,  \* the version it opens, and under which storage policy
          goal,         \* open() or reset()
          fresh,        \* the working copy is written anew by this open or reset
          attempts,     \* attempts at the pool that failed and are tried again
          cut,          \* history: versions whose deletion a crash interrupted
          acked,        \* history: commits the user was told of, to no such version
          opens, faults

files == <<working, journal, edits, pristine>>
task == <<pin, single, goal, fresh, attempts>>
bounds == <<opens, faults>>
storeVars == <<files, locked, pc, task, acked, cut, bounds>>

StoreInit ==
  /\ working = [v \in Versions |-> "none"]
  /\ journal = [v \in Versions |-> "none"]
  /\ edits = [v \in Versions |-> 0]
  /\ pristine = [v \in Versions |-> "none"]
  /\ locked = FALSE /\ pc = "down"
  /\ pin \in Versions /\ single = FALSE /\ goal = "open" /\ fresh = FALSE /\ attempts = 0
  /\ acked = [v \in Versions |-> 0]
  /\ cut = {}
  /\ opens = 0 /\ faults = 0

-----------------------------------------------------------------------------
(* Where the engine goes next.                                             *)

Goto(p) == pc' = p

\* An open that fails pauses the pool: the session stops the worker.  A reset
\* that fails leaves the connection as it is: closed, but for a single-copy
\* reset that still downloads.
Fail ==
  CASE goal = "open" -> Goto("down")
    [] goal = "reset" /\ single /\ pc = "download" -> Goto("open")
    [] OTHER -> Goto("closed")

\* (Bug: the journal of the old file stays.)
EnterWorkingOnly ==
  /\ working' = [working EXCEPT ![pin] = "none"]
  /\ acked' = IF goal = "reset" THEN [acked EXCEPT ![pin] = 0] ELSE acked
  /\ cut' = cut \ {pin}
  /\ Goto("working")
  /\ UNCHANGED journal

\* importWorking up to its await: the journal goes with the file it belongs to.
\* A reset under the single-copy policy closes the connection just before.
EnterWorking ==
  /\ working' = [working EXCEPT ![pin] = "none"]
  /\ journal' = [journal EXCEPT ![pin] = "none"]
  /\ acked' = IF goal = "reset" THEN [acked EXCEPT ![pin] = 0] ELSE acked
  /\ cut' = cut \ {pin}
  /\ Goto("working")

\* importPristine up to its await.
EnterPristine ==
  /\ pristine' = [pristine EXCEPT ![pin] = "none"]
  /\ Goto("pristine")

-----------------------------------------------------------------------------
(* open(): the pool.                                                       *)

\* A worker is started for version v; storage: "memory" skips the pool.
Open(v, s) ==
  /\ pc = "down"
  /\ opens < MaxOpens /\ opens' = opens + 1
  /\ pin' = v /\ single' = s /\ goal' = "open" /\ fresh' = FALSE /\ attempts' = 0
  /\ Goto("probe") \/ Goto("memory")
  /\ UNCHANGED <<files, locked, acked, cut, faults>>

\* (Bug: the pool is waited for without an end.)
ProbeLockedForEver == pc = "probe" /\ locked /\ UNCHANGED storeVars

\* probeHandles fails while the handles are taken; the last attempt fails the
\* open, or memoryFallbackWhenLocked opens in memory.
ProbeLocked ==
  /\ pc = "probe" /\ locked
  /\ \/ attempts + 1 < MaxAttempts /\ attempts' = attempts + 1 /\ Goto("probe")
     \/ /\ attempts + 1 >= MaxAttempts
        /\ Goto("down") \/ Goto("memory")
        /\ UNCHANGED attempts
  /\ UNCHANGED <<files, locked, pin, single, goal, fresh, acked, cut, bounds>>

\* (Bug: the pool is installed without probing its handles.)
ProbeSkipped ==
  /\ pc = "probe"
  /\ Goto("install")
  /\ UNCHANGED <<files, locked, task, acked, cut, bounds>>

ProbeFree ==
  /\ pc = "probe" /\ ~locked
  /\ Goto("install")
  /\ UNCHANGED <<files, locked, task, acked, cut, bounds>>

\* installOpfsSAHPoolVfs (external) deletes the pool's directory when it cannot
\* take the handles.  Then openCanonical looks at the files.
Install ==
  /\ pc = "install"
  /\ IF locked
     THEN /\ working' = [v \in Versions |-> "none"]
          /\ journal' = [v \in Versions |-> "none"]
          /\ pristine' = [v \in Versions |-> "none"]
          /\ Goto("down")
          /\ UNCHANGED fresh
     ELSE /\ fresh' = (working[pin] = "none")
          /\ Goto(IF working[pin] = "none" THEN "source"
                  ELSE IF ~single /\ pristine[pin] = "none" THEN "download" ELSE "try")
          /\ UNCHANGED <<working, journal, pristine>>
  /\ UNCHANGED <<edits, locked, pin, single, goal, attempts, acked, cut, bounds>>

\* The pool is refused: in memory, unless memoryFallback is "forbid".
InstallFails ==
  /\ pc = "install"
  /\ Goto("memory") \/ Goto("down")
  /\ UNCHANGED <<files, locked, task, acked, cut, bounds>>

\* #openInMemory and resetInMemory: nothing is kept.
OpenInMemory ==
  /\ pc = "memory"
  /\ Goto("inMemory") \/ Goto("down")
  /\ UNCHANGED <<files, locked, task, acked, cut, bounds>>

-----------------------------------------------------------------------------
(* The bytes, and the copies written from them.                            *)

\* storedPristine: the pristine copy if it still matches the pin.
Source ==
  /\ pc = "source"
  /\ \/ /\ pristine[pin] = "ok"
        /\ EnterWorking
     \/ /\ pristine[pin] # "ok"
        /\ Goto("download")
        /\ UNCHANGED <<working, journal, acked, cut>>
  /\ UNCHANGED <<edits, pristine, locked, task, bounds>>

Downloaded ==
  /\ pc = "download"
  /\ \/ single /\ EnterWorking /\ UNCHANGED pristine
     \/ ~single /\ EnterPristine /\ UNCHANGED <<working, journal, acked, cut>>
  /\ UNCHANGED <<edits, locked, task, bounds>>

DownloadFails ==
  /\ pc = "download"
  /\ Fail
  /\ UNCHANGED <<files, locked, task, acked, cut, bounds>>

\* importDb names a slot only once the whole file is written.
PristineImported ==
  /\ pc = "pristine"
  /\ pristine' = [pristine EXCEPT ![pin] = "ok"]
  /\ \/ fresh /\ EnterWorking
     \/ ~fresh /\ Goto("try") /\ UNCHANGED <<working, journal, acked, cut>>
  /\ UNCHANGED <<edits, locked, task, bounds>>

WorkingImported ==
  /\ pc = "working"
  /\ working' = [working EXCEPT ![pin] = "ok"]
  /\ edits' = [edits EXCEPT ![pin] = 0]
  /\ Goto("try")
  /\ UNCHANGED <<journal, pristine, locked, task, acked, cut, bounds>>

ImportFails ==
  /\ pc \in {"pristine", "working"}
  /\ Fail
  /\ UNCHANGED <<files, locked, task, acked, cut, bounds>>

-----------------------------------------------------------------------------
(* tryOpen, openVerified, and the end of openCanonical.                    *)

\* SQLite rolls a hot journal back; a journal of another file spoils this one.
Recovered == IF journal[pin] = "stray" THEN "torn" ELSE working[pin]

Others == Versions \ {pin}

\* The files of other versions go, and the edits to them.
Cleaned(f) == [v \in Versions |-> IF v = pin THEN f[v] ELSE "none"]

Opens ==
  /\ pc = "try" /\ Recovered \in {"ok", "torn"}
  /\ IF goal = "open"
     THEN /\ working' = [Cleaned(working) EXCEPT ![pin] = Recovered]
          /\ journal' = [Cleaned(journal) EXCEPT ![pin] = "none"]
          /\ pristine' = [Cleaned(pristine) EXCEPT ![pin] = IF single THEN "none" ELSE @]
          /\ acked' = [v \in Versions |-> IF v = pin THEN acked[v] ELSE 0]
          /\ cut' = cut \cap {pin}
     ELSE /\ Recovered = "ok"  \* the SHA-256 of what reset produced
          /\ UNCHANGED <<working, journal, pristine, acked, cut>>
  /\ Goto("open")
  /\ UNCHANGED <<edits, locked, task, bounds>>

\* The worker is gone before all those files are: unlink by unlink, in an order
\* that is the pool's.
CrashInCleanup ==
  /\ pc = "try" /\ goal = "open" /\ Recovered \in {"ok", "torn"}
  /\ \E noWorking, noJournal, noPristine \in SUBSET Others :
       /\ working' = [v \in Versions |->
            IF v \in noWorking THEN "none"
            ELSE IF v = pin THEN Recovered
            ELSE IF v \in noJournal /\ journal[v] = "hot" THEN "torn" ELSE working[v]]
       /\ journal' = [v \in Versions |->
            IF v \in noJournal \cup {pin} THEN "none"
            ELSE IF v \in noWorking /\ journal[v] = "hot" THEN "stray" ELSE journal[v]]
       /\ pristine' = [v \in Versions |-> IF v \in noPristine THEN "none" ELSE pristine[v]]
  /\ acked' = [v \in Versions |-> IF v = pin THEN acked[v] ELSE 0]
  /\ cut' = cut \cup Others
  /\ Goto("down") /\ locked' \in BOOLEAN
  /\ UNCHANGED <<edits, task, bounds>>

\* A damaged working copy is written anew, once: what was just written and is
\* damaged all the same fails the open or the reset.
FoundDamaged ==
  /\ pc = "try"
  /\ journal' = [journal EXCEPT ![pin] = "none"]
  /\ fresh' = TRUE
  /\ \/ /\ ~fresh /\ Recovered \in {"damaged", "torn"}
        /\ working' = [working EXCEPT ![pin] = Recovered]
        /\ Goto("source")
     \/ /\ fresh
        /\ working' = [working EXCEPT ![pin] = "damaged"]
        /\ Fail
  /\ UNCHANGED <<edits, pristine, locked, pin, single, goal, attempts, acked, cut, bounds>>

\* Any other failure: the working copy is not touched.
OpenFails ==
  /\ pc = "try"
  /\ Fail
  /\ UNCHANGED <<files, locked, task, acked, cut, bounds>>

-----------------------------------------------------------------------------
(* The open dataset.                                                       *)

BeginWrite ==
  /\ pc = "open"
  /\ journal' = [journal EXCEPT ![pin] = "hot"]
  /\ Goto("transaction")
  /\ UNCHANGED <<working, edits, pristine, locked, task, acked, cut, bounds>>

\* The commit drops the journal.
CommitTo(p) ==
  /\ pc = "transaction" /\ edits[pin] < MaxEdits
  /\ journal' = [journal EXCEPT ![pin] = "none"]
  /\ edits' = [edits EXCEPT ![pin] = @ + 1]
  /\ Goto(p)
  /\ UNCHANGED <<working, pristine, task, cut, bounds>>

Commit ==
  /\ CommitTo("open")
  /\ acked' = IF pin \in cut THEN acked ELSE [acked EXCEPT ![pin] = edits[pin] + 1]
  /\ UNCHANGED locked

\* The worker is gone before its answer.
CommitUnheard == CommitTo("down") /\ locked' \in BOOLEAN /\ UNCHANGED acked

Rollback ==
  /\ pc = "transaction"
  /\ journal' = [journal EXCEPT ![pin] = "none"]
  /\ Goto("open")
  /\ UNCHANGED <<working, edits, pristine, locked, task, acked, cut, bounds>>

\* reset(): the connection is closed first, or (single-copy) after a download.
Reset ==
  /\ pc = "open"
  /\ goal' = "reset" /\ fresh' = TRUE
  /\ \/ single /\ Goto("download") /\ UNCHANGED acked
     \/ ~single /\ Goto("source") /\ acked' = [acked EXCEPT ![pin] = 0]
  /\ UNCHANGED <<files, locked, pin, single, attempts, cut, bounds>>

\* close()
CloseEngine ==
  /\ pc \in {"open", "closed", "inMemory"}
  /\ Goto("down")
  /\ UNCHANGED <<files, locked, task, acked, cut, bounds>>

-----------------------------------------------------------------------------
(* The outside world.                                                      *)

\* The worker is terminated, or its tab crashes; the browser may take a while
\* to free its handles.
WorkerCrash ==
  /\ pc # "down"
  /\ Goto("down") /\ locked' \in BOOLEAN
  /\ UNCHANGED <<files, task, acked, cut, bounds>>

Unlocked == locked /\ locked' = FALSE /\ UNCHANGED <<files, pc, task, acked, cut, bounds>>

Fault == pc = "down" /\ faults < MaxFaults /\ faults' = faults + 1

Damage(v) ==
  /\ Fault /\ working[v] = "ok"
  /\ working' = [working EXCEPT ![v] = "damaged"]
  /\ acked' = [acked EXCEPT ![v] = 0]
  /\ UNCHANGED <<journal, edits, pristine, locked, pc, task, cut, opens>>

Alter(v) ==
  /\ Fault /\ pristine[v] = "ok"
  /\ pristine' = [pristine EXCEPT ![v] = "altered"]
  /\ UNCHANGED <<working, journal, edits, locked, pc, task, acked, cut, opens>>

\* What the engine does on its own, once it is asked to open or to reset.
Progress ==
  \/ ProbeLocked \/ ProbeFree \/ Install \/ InstallFails \/ OpenInMemory
  \/ Source \/ Downloaded \/ DownloadFails \/ PristineImported \/ WorkingImported
  \/ ImportFails \/ Opens \/ FoundDamaged \/ OpenFails

StoreNext ==
  \/ Progress
  \/ \E v \in Versions : (\E s \in BOOLEAN : Open(v, s)) \/ Damage(v) \/ Alter(v)
  \/ BeginWrite \/ Commit \/ CommitUnheard \/ Rollback \/ Reset \/ CloseEngine
  \/ WorkerCrash \/ CrashInCleanup \/ Unlocked

StoreSpec == StoreInit /\ [][StoreNext]_storeVars

\* The worker runs; a fetch settles.
FairStoreSpec == StoreSpec /\ WF_storeVars(Progress)

-----------------------------------------------------------------------------

StoreTypeOK ==
  /\ working \in [Versions -> {"none", "ok", "torn", "damaged"}]
  /\ journal \in [Versions -> {"none", "hot", "stray"}]
  /\ edits \in [Versions -> 0..MaxEdits]
  /\ pristine \in [Versions -> {"none", "ok", "altered"}]
  /\ locked \in BOOLEAN
  /\ pc \in {"down", "probe", "install", "memory", "inMemory", "source", "download",
             "pristine", "working", "try", "open", "transaction", "closed"}
  /\ pin \in Versions /\ single \in BOOLEAN /\ fresh \in BOOLEAN
  /\ goal \in {"open", "reset"}
  /\ attempts \in 0..(MaxAttempts - 1)
  /\ acked \in [Versions -> 0..MaxEdits]
  /\ cut \subseteq Versions
  /\ opens \in 0..MaxOpens /\ faults \in 0..MaxFaults

\* Every commit the user was told of is in the working copy, at every instant
\* and whatever fails: only a reset, another version that is open, or damage
\* from outside takes it away (session.ts, DemoDbSession: "committed writes are
\* kept").
CommitsAreKept ==
  \A v \in Versions : acked[v] > 0 => working[v] = "ok" /\ edits[v] >= acked[v]

\* The dataset that is served is whole: no pages of an unfinished transaction,
\* no damage, no other file's journal played into it.
OpenIsWhole ==
  pc \in {"open", "transaction"} /\ pin \notin cut => working[pin] = "ok"

\* Once the dataset is open, storage holds what the policy says and nothing of
\* other versions.
OnlyThePinIsStored ==
  pc \in {"open", "transaction"} =>
    /\ \A v \in Others : working[v] = "none" /\ pristine[v] = "none" /\ journal[v] = "none"
    /\ single => pristine[pin] = "none"
    /\ ~single => pristine[pin] # "none"

\* An open or a reset ends, although the pool stays locked or nothing downloads.
EveryTaskEnds ==
  pc \in {"probe", "install", "memory", "source", "download", "pristine", "working", "try"}
    ~> pc \in {"down", "open", "closed", "inMemory"}
-----------------------------------------------------------------------------
(* What the proof of CommitsAreKept rests on.                              *)

\* A deletion that was cut short is what leaves files without their journal, or
\* journals without their file; nobody counts on edits to such a version.
DebrisIsCut ==
  \A v \in Versions :
    /\ working[v] = "torn" \/ journal[v] = "stray" => v \in cut
    /\ v \in cut => acked[v] = 0

\* Handles are free from the probe to the installation: no other worker starts.
InstallsUnlocked == pc = "install" => ~locked

\* The connection is open on a copy that is there.
Connected ==
  \/ pc \in {"open", "transaction"}
  \/ pc = "download" /\ goal = "reset" /\ single

ConnectionHasFile == Connected => working[pin] \in {"ok", "torn"}

\* A copy is only written anew when no commit is to be kept, and then `fresh'.
RewritesNothing ==
  /\ pc \in {"source", "working"} \/ (pc = "download" /\ single) => fresh
  /\ pc \in {"source", "download", "pristine", "working", "try"} /\ fresh /\ ~Connected
       => acked[pin] = 0

\* A reset needs no pool; it writes a new copy, once, and a single-copy one from
\* a download.
ResetsAnew ==
  goal = "reset" =>
    /\ pc \in {"source", "download", "pristine", "working", "try"} => fresh
    /\ pc = "source" => ~single
    /\ pc \notin {"probe", "install"}

StoreInv ==
  /\ CommitsAreKept /\ DebrisIsCut /\ InstallsUnlocked
  /\ ConnectionHasFile /\ RewritesNothing /\ ResetsAnew

-----------------------------------------------------------------------------
(* What the proof of OnlyThePinIsStored rests on.                          *)

\* Open, or being reset: other versions stay away.
Serving ==
  \/ pc \in {"open", "transaction"}
  \/ goal = "reset" /\ pc \in {"source", "download", "pristine", "working", "try"}

OthersAreGone ==
  Serving =>
    /\ \A v \in Others : working[v] = "none" /\ pristine[v] = "none" /\ journal[v] = "none"
    /\ single => pristine[pin] = "none"

\* A pristine copy is written before the working copy, and only by its policy.
PristineFirst ==
  /\ ~single /\ pc \in {"working", "try", "open", "transaction"} => pristine[pin] # "none"
  /\ pc = "pristine" => ~single

StoredInv == OthersAreGone /\ PristineFirst /\ ResetsAnew
=============================================================================
