------------------------ MODULE DatasetStoreProofs ------------------------
(***************************************************************************)
(* Proofs about DatasetStore, for any set of versions and any bounds.      *)
(* CommitsAreKept is not inductive by itself.  What else is needed: the    *)
(* engine only writes a working copy anew when no commit is to be kept     *)
(* (RewritesNothing, ResetsAnew), a connection is open on a file that is   *)
(* there (ConnectionHasFile), the pool is installed with free handles      *)
(* (InstallsUnlocked), and files and journals that do not belong together  *)
(* are leftovers of a deletion (DebrisIsCut).                              *)
(***************************************************************************)
EXTENDS DatasetStore, TLAPS

\* Every file and every field of the engine stays of its kind.
THEOREM StoreTypeCorrect == StoreSpec => []StoreTypeOK
<1> USE StoreAssumption DEF StoreAssumption, StoreTypeOK, Goto, files, task, bounds
<1>0. /\ 0 \in 0..(MaxAttempts - 1) /\ 0 \in 0..MaxEdits
      /\ 0 \in 0..MaxOpens /\ 0 \in 0..MaxFaults
  OBVIOUS
<1>1. StoreInit => StoreTypeOK
  BY <1>0 DEF StoreInit
<1>2. StoreTypeOK /\ [StoreNext]_storeVars => StoreTypeOK'
  <2> SUFFICES ASSUME StoreTypeOK, [StoreNext]_storeVars PROVE StoreTypeOK'
    OBVIOUS
  <2>1. CASE ProbeLocked
    BY <2>1 DEF ProbeLocked
  <2>2. CASE ProbeFree
    BY <2>2 DEF ProbeFree
  <2>3. CASE Install
    BY <2>3 DEF Install
  <2>4. CASE InstallFails
    BY <2>4 DEF InstallFails
  <2>5. CASE OpenInMemory
    BY <2>5 DEF OpenInMemory
  <2>6. CASE Source
    BY <2>6 DEF Source, EnterWorking
  <2>7. CASE Downloaded
    BY <2>7 DEF Downloaded, EnterWorking, EnterPristine
  <2>8. CASE DownloadFails
    BY <2>8 DEF DownloadFails, Fail
  <2>9. CASE PristineImported
    BY <2>9 DEF PristineImported, EnterWorking
  <2>10. CASE WorkingImported
    BY <2>10 DEF WorkingImported
  <2>11. CASE ImportFails
    BY <2>11 DEF ImportFails, Fail
  <2>12. CASE Opens
    <3>1. working' \in [Versions -> {"none", "ok", "torn", "damaged"}]
      BY <2>12 DEF Opens, Cleaned, Recovered
    <3>2. journal' \in [Versions -> {"none", "hot", "stray"}]
      BY <2>12 DEF Opens, Cleaned
    <3>3. pristine' \in [Versions -> {"none", "ok", "altered"}]
      <4>1. Cleaned(pristine) \in [Versions -> {"none", "ok", "altered"}]
        BY DEF Cleaned
      <4>2. CASE goal = "open" /\ single
        <5>1. pristine' = [Cleaned(pristine) EXCEPT ![pin] = "none"]
          BY <2>12, <4>2 DEF Opens
        <5>2. QED
          BY <4>1, <5>1
      <4>3. CASE goal = "open" /\ ~single
        <5>1. pristine' = [Cleaned(pristine) EXCEPT ![pin] = Cleaned(pristine)[pin]]
          BY <2>12, <4>3 DEF Opens
        <5>2. QED
          BY <4>1, <5>1
      <4>4. QED
        BY <2>12, <4>2, <4>3 DEF Opens
    <3>4. QED
      BY <2>12, <3>1, <3>2, <3>3 DEF Opens
  <2>13. CASE FoundDamaged
    BY <2>13 DEF FoundDamaged, Recovered, Fail
  <2>14. CASE OpenFails
    BY <2>14 DEF OpenFails, Fail
  <2>15. CASE BeginWrite
    BY <2>15 DEF BeginWrite
  <2>16. CASE Commit
    BY <2>16 DEF Commit, CommitTo
  <2>17. CASE CommitUnheard
    BY <2>17 DEF CommitUnheard, CommitTo
  <2>18. CASE Rollback
    BY <2>18 DEF Rollback
  <2>19. CASE Reset
    BY <2>19 DEF Reset
  <2>20. CASE CloseEngine
    BY <2>20 DEF CloseEngine
  <2>21. CASE WorkerCrash
    BY <2>21 DEF WorkerCrash
  <2>22. CASE CrashInCleanup
    BY <2>22 DEF CrashInCleanup, Cleaned, Recovered, Others
  <2>23. CASE Unlocked
    BY <2>23 DEF Unlocked
  <2>24. ASSUME NEW v \in Versions, NEW s \in BOOLEAN, Open(v, s) PROVE StoreTypeOK'
    <3>1. single' \in BOOLEAN
      <4>1. single' = s
        BY <2>24 DEF Open
      <4>2. QED
        BY <4>1, Zenon
    <3>2. /\ pin' = v /\ goal' = "open" /\ fresh' = FALSE /\ attempts' = 0
          /\ opens < MaxOpens /\ opens' = opens + 1
          /\ pc' \in {"probe", "memory"}
          /\ UNCHANGED <<working, journal, edits, pristine, locked, acked, cut, faults>>
      BY <2>24 DEF Open
    <3>3. pin' \in Versions /\ attempts' \in 0..(MaxAttempts - 1) /\ opens' \in 0..MaxOpens
      BY <1>0, <3>2
    <3>4. QED
      BY <3>1, <3>2, <3>3
  <2>25. ASSUME NEW v \in Versions, Damage(v) PROVE StoreTypeOK'
    BY <2>25 DEF Damage, Fault
  <2>26. ASSUME NEW v \in Versions, Alter(v) PROVE StoreTypeOK'
    BY <2>26 DEF Alter, Fault
  <2>27. CASE UNCHANGED storeVars
    BY <2>27 DEF storeVars
  <2>28. QED
    BY <2>1, <2>2, <2>3, <2>4, <2>5, <2>6, <2>7, <2>8, <2>9, <2>10, <2>11, <2>12, <2>13, <2>14, <2>15, <2>16, <2>17, <2>18, <2>19, <2>20, <2>21, <2>22, <2>23, <2>24, <2>25, <2>26, <2>27
       DEF StoreNext, Progress
<1>3. QED
  BY <1>1, <1>2, PTL DEF StoreSpec

-----------------------------------------------------------------------------

\* Every step of the engine and of the outside world keeps the invariant.
LEMMA StoreInvInductive ==
  StoreTypeOK /\ StoreInv /\ [StoreNext]_storeVars => StoreInv'
<1> USE StoreAssumption
    DEF StoreAssumption, StoreTypeOK, Goto, files, task, bounds, StoreInv, CommitsAreKept, DebrisIsCut,
        InstallsUnlocked, ConnectionHasFile, Connected, RewritesNothing, ResetsAnew
<1> SUFFICES ASSUME StoreTypeOK, StoreInv, [StoreNext]_storeVars PROVE StoreInv'
  OBVIOUS
<1>1. CASE ProbeLocked
  BY <1>1 DEF ProbeLocked
<1>2. CASE ProbeFree
  BY <1>2 DEF ProbeFree
<1>3. CASE Install
  <2>1. /\ fresh' = (working[pin] = "none")
        /\ UNCHANGED <<working, journal, edits, pin, single, goal, acked, cut>>
        /\ pc' = IF working[pin] = "none" THEN "source"
                 ELSE IF ~single /\ pristine[pin] = "none" THEN "download" ELSE "try"
    BY <1>3 DEF Install
  <2>2. fresh' => acked[pin] = 0
    <3>1. working[pin] = "none" => ~(acked[pin] > 0)
      OBVIOUS
    <3>2. acked[pin] \in Nat
      OBVIOUS
    <3>3. fresh' => working[pin] = "none"
      BY <2>1, Zenon
    <3>4. QED
      BY <3>1, <3>2, <3>3
  <2>3. RewritesNothing' /\ ResetsAnew'
    <3>1. pc = "install" /\ pc' \in {"source", "download", "try"}
      BY <1>3, <2>1 DEF Install
    <3>2. pc' = "source" => fresh'
      BY <2>1, Zenon
    <3>3. pc' = "download" => ~single
      BY <2>1
    <3>4. fresh' => acked'[pin'] = 0
      BY <2>1, <2>2
    <3>5. goal' = "open"
      BY <3>1, <2>1
    <3>6. QED
      BY <2>1, <3>1, <3>2, <3>3, <3>4, <3>5
  <2>4. QED
    BY <2>1, <2>3
<1>4. CASE InstallFails
  BY <1>4 DEF InstallFails
<1>5. CASE OpenInMemory
  BY <1>5 DEF OpenInMemory
<1>6. CASE Source
  <2>1. fresh /\ acked[pin] = 0 /\ pc = "source"
    BY <1>6 DEF Source
  <2>2. CASE EnterWorking
    BY <1>6, <2>1, <2>2 DEF Source, EnterWorking
  <2>3. CASE pc' = "download" /\ UNCHANGED <<working, journal, acked, cut>>
    <3>1. UNCHANGED <<working, journal, acked, cut, edits, pin, single, goal, fresh>>
      BY <1>6, <2>3 DEF Source
    <3>2. CommitsAreKept' /\ DebrisIsCut'
      BY <3>1
    <3>3. ConnectionHasFile' /\ InstallsUnlocked'
      BY <2>1, <2>3, <3>1
    <3>4. RewritesNothing' /\ ResetsAnew'
      BY <2>1, <2>3, <3>1
    <3>5. QED
      BY <3>2, <3>3, <3>4
  <2>4. QED
    BY <1>6, <2>2, <2>3 DEF Source
<1>7. CASE Downloaded
  BY <1>7 DEF Downloaded, EnterWorking, EnterPristine
<1>8. CASE DownloadFails
  BY <1>8 DEF DownloadFails, Fail
<1>9. CASE PristineImported
  BY <1>9 DEF PristineImported, EnterWorking
<1>10. CASE WorkingImported
  BY <1>10 DEF WorkingImported
<1>11. CASE ImportFails
  BY <1>11 DEF ImportFails, Fail
<1>12. CASE Opens
  <2>1. pc = "try" /\ pc' = "open" /\ UNCHANGED <<edits, pin, single, goal, fresh>>
    BY <1>12 DEF Opens
  <2>2. CASE goal = "open"
    <3>1. /\ working'[pin] = Recovered /\ Recovered \in {"ok", "torn"}
          /\ journal'[pin] = "none"
          /\ acked' = [v \in Versions |-> IF v = pin THEN acked[v] ELSE 0]
          /\ cut' = cut \cap {pin}
      BY <1>12, <2>2 DEF Opens, Cleaned
    <3>2. \A v \in Versions : v # pin => working'[v] = "none" /\ journal'[v] = "none"
      BY <1>12, <2>2 DEF Opens, Cleaned
    <3>3. Recovered = "torn" => pin \in cut /\ acked[pin] = 0
      BY DEF Recovered
    <3>4. Recovered = "ok" => working[pin] = "ok"
      BY DEF Recovered
    <3>5. CommitsAreKept' /\ DebrisIsCut'
      BY <2>1, <3>1, <3>2, <3>3, <3>4
    <3>6. QED
      BY <2>1, <3>1, <3>5
  <2>3. CASE goal = "reset"
    BY <1>12, <2>3 DEF Opens, Recovered
  <2>4. QED
    BY <2>2, <2>3
<1>13. CASE FoundDamaged
  BY <1>13 DEF FoundDamaged, Recovered, Fail
<1>14. CASE OpenFails
  BY <1>14 DEF OpenFails, Fail
<1>15. CASE BeginWrite
  BY <1>15 DEF BeginWrite
<1>16. CASE Commit
  BY <1>16 DEF Commit, CommitTo
<1>17. CASE CommitUnheard
  BY <1>17 DEF CommitUnheard, CommitTo
<1>18. CASE Rollback
  BY <1>18 DEF Rollback
<1>19. CASE Reset
  BY <1>19 DEF Reset
<1>20. CASE CloseEngine
  BY <1>20 DEF CloseEngine
<1>21. CASE WorkerCrash
  BY <1>21 DEF WorkerCrash
<1>22. CASE CrashInCleanup
  BY <1>22 DEF CrashInCleanup, Cleaned, Recovered, Others
<1>23. CASE Unlocked
  BY <1>23 DEF Unlocked
<1>24. ASSUME NEW v \in Versions, NEW s \in BOOLEAN, Open(v, s) PROVE StoreInv'
  BY <1>24 DEF Open
<1>25. ASSUME NEW v \in Versions, Damage(v) PROVE StoreInv'
  BY <1>25 DEF Damage, Fault
<1>26. ASSUME NEW v \in Versions, Alter(v) PROVE StoreInv'
  BY <1>26 DEF Alter, Fault
<1>27. CASE UNCHANGED storeVars
  BY <1>27 DEF storeVars
<1>28. QED
  BY <1>1, <1>2, <1>3, <1>4, <1>5, <1>6, <1>7, <1>8, <1>9, <1>10, <1>11, <1>12, <1>13, <1>14, <1>15, <1>16, <1>17, <1>18, <1>19, <1>20, <1>21, <1>22, <1>23, <1>24, <1>25, <1>26, <1>27
     DEF StoreNext, Progress

\* The strengthened invariant of the dataset's files.
THEOREM StoreInvariant == StoreSpec => []StoreInv
<1>1. StoreInit => StoreInv
  BY DEF StoreInit, StoreInv, CommitsAreKept, DebrisIsCut, InstallsUnlocked,
         ConnectionHasFile, Connected, RewritesNothing, ResetsAnew
<1>2. QED
  BY <1>1, StoreTypeCorrect, StoreInvInductive, PTL DEF StoreSpec

\* No commit the user was told of is lost, whatever fails and whenever the
\* worker is gone, for any number of versions, workers and edits.
THEOREM StoreKeepsCommits == StoreSpec => []CommitsAreKept
<1>1. StoreInv => CommitsAreKept
  BY DEF StoreInv
<1>2. QED
  BY <1>1, StoreInvariant, PTL

\* The dataset that is served is whole.
THEOREM StoreOpensWhole == StoreSpec => []OpenIsWhole
<1>1. StoreTypeOK /\ StoreInv => OpenIsWhole
  BY DEF StoreTypeOK, StoreInv, DebrisIsCut, ConnectionHasFile, Connected, OpenIsWhole
<1>2. QED
  BY <1>1, StoreTypeCorrect, StoreInvariant, PTL

-----------------------------------------------------------------------------

\* Every step of the engine keeps what it stores in order.
LEMMA StoredInvInductive ==
  StoreTypeOK /\ StoredInv /\ [StoreNext]_storeVars => StoredInv'
<1> USE DEF StoreTypeOK, Goto, files, task, bounds, StoredInv, OthersAreGone,
            PristineFirst, ResetsAnew, Serving, Others
<1> SUFFICES ASSUME StoreTypeOK, StoredInv, [StoreNext]_storeVars PROVE StoredInv'
  OBVIOUS
<1>1. CASE ProbeLocked
  BY <1>1 DEF ProbeLocked
<1>2. CASE ProbeFree
  BY <1>2 DEF ProbeFree
<1>3. CASE Install
  <2>1. pc = "install" /\ goal = "open" /\ UNCHANGED <<pin, single, goal>>
    BY <1>3 DEF Install
  <2>2. pc' \in {"down", "source", "download", "try"}
    BY <1>3 DEF Install
  <2>3. pc' = "try" /\ ~single => pristine'[pin] # "none"
    BY <1>3 DEF Install
  <2>4. OthersAreGone' /\ ResetsAnew'
    BY <2>1, <2>2
  <2>5. PristineFirst'
    BY <2>1, <2>2, <2>3
  <2>6. QED
    BY <2>4, <2>5
<1>4. CASE InstallFails
  BY <1>4 DEF InstallFails
<1>5. CASE OpenInMemory
  BY <1>5 DEF OpenInMemory
<1>6. CASE Source
  BY <1>6 DEF Source, EnterWorking
<1>7. CASE Downloaded
  BY <1>7 DEF Downloaded, EnterWorking, EnterPristine
<1>8. CASE DownloadFails
  BY <1>8 DEF DownloadFails, Fail
<1>9. CASE PristineImported
  BY <1>9 DEF PristineImported, EnterWorking
<1>10. CASE WorkingImported
  BY <1>10 DEF WorkingImported
<1>11. CASE ImportFails
  BY <1>11 DEF ImportFails, Fail
<1>12. CASE Opens
  <2>1. pc = "try" /\ pc' = "open" /\ UNCHANGED <<pin, single, goal, fresh>>
    BY <1>12 DEF Opens
  <2>2. CASE goal = "open"
    <3>1. \A v \in Others : working'[v] = "none" /\ pristine'[v] = "none" /\ journal'[v] = "none"
      BY <1>12, <2>2, ZenonT(60) DEF Opens, Cleaned
    <3>2. pristine'[pin] = IF single THEN "none" ELSE pristine[pin]
      BY <1>12, <2>2 DEF Opens, Cleaned
    <3>3. QED
      BY <2>1, <2>2, <3>1, <3>2
  <2>3. CASE goal = "reset"
    BY <1>12, <2>1, <2>3 DEF Opens, Recovered
  <2>4. QED
    BY <2>2, <2>3
<1>13. CASE FoundDamaged
  BY <1>13 DEF FoundDamaged, Recovered, Fail
<1>14. CASE OpenFails
  BY <1>14 DEF OpenFails, Fail
<1>15. CASE BeginWrite
  BY <1>15 DEF BeginWrite
<1>16. CASE Commit
  BY <1>16 DEF Commit, CommitTo
<1>17. CASE CommitUnheard
  BY <1>17 DEF CommitUnheard, CommitTo
<1>18. CASE Rollback
  BY <1>18 DEF Rollback
<1>19. CASE Reset
  BY <1>19 DEF Reset
<1>20. CASE CloseEngine
  BY <1>20 DEF CloseEngine
<1>21. CASE WorkerCrash
  BY <1>21 DEF WorkerCrash
<1>22. CASE CrashInCleanup
  BY <1>22 DEF CrashInCleanup, Cleaned, Recovered
<1>23. CASE Unlocked
  BY <1>23 DEF Unlocked
<1>24. ASSUME NEW v \in Versions, NEW s \in BOOLEAN, Open(v, s) PROVE StoredInv'
  BY <1>24 DEF Open
<1>25. ASSUME NEW v \in Versions, Damage(v) PROVE StoredInv'
  BY <1>25 DEF Damage, Fault
<1>26. ASSUME NEW v \in Versions, Alter(v) PROVE StoredInv'
  BY <1>26 DEF Alter, Fault
<1>27. CASE UNCHANGED storeVars
  BY <1>27 DEF storeVars
<1>28. QED
  BY <1>1, <1>2, <1>3, <1>4, <1>5, <1>6, <1>7, <1>8, <1>9, <1>10, <1>11, <1>12, <1>13, <1>14, <1>15, <1>16, <1>17, <1>18, <1>19, <1>20, <1>21, <1>22, <1>23, <1>24, <1>25, <1>26, <1>27
     DEF StoreNext, Progress

\* Whatever is interrupted and retried, an open dataset stores its own version
\* and nothing else, in as many copies as the policy says.
THEOREM StoreOnlyThePin == StoreSpec => []OnlyThePinIsStored
<1>1. StoreInit => StoredInv
  BY DEF StoreInit, StoredInv, OthersAreGone, PristineFirst, ResetsAnew, Serving
<1>2. StoredInv => OnlyThePinIsStored
  BY DEF StoredInv, OthersAreGone, PristineFirst, Serving, OnlyThePinIsStored
<1>3. QED
  BY <1>1, <1>2, StoreTypeCorrect, StoredInvInductive, PTL DEF StoreSpec
=============================================================================
