----------------------- MODULE AnalyticalBudgetProofs -----------------------
(***************************************************************************)
(* Proofs about AnalyticalBudget, for any clients, previews, runs, budgets *)
(* and caps.  ReservationCovers holds because a reservation is only        *)
(* released for a request that never left (NothingSent) and only replaced  *)
(* by the bill of a job that has ended (HeardIsTrue); OneJobPerApproval    *)
(* because a run in use has used its preview up (RunsAreUsed); and         *)
(* SubmitsApproved because the check of what had changed is still ahead of *)
(* such a run (StaleIsCaught), which nobody else executes (OwnRun).        *)
(* BilledWithinBudget follows: what may be billed is covered run by run,   *)
(* and a run is only made where its cap still fits (ReservedWithinBudget). *)
(***************************************************************************)
EXTENDS AnalyticalBudget, FiniteSetTheorems, TLAPS

\* An operation that goes on to another point is an operation of the same run.
LEMMA OpGoesOn ==
  ASSUME task \in [Clients -> Tasks], NEW c \in Clients, task[c].kind # "idle",
         NEW at \in Points, NEW heard \in Heard,
         \/ task' = [task EXCEPT ![c].at = at]
         \/ task' = [task EXCEPT ![c].at = at, ![c].heard = heard]
  PROVE  /\ task' \in [Clients -> Tasks]
         /\ task[c].run \in Runs
<1>1. task[c] \in [kind : {"execute", "status", "cancel"}, run : Runs, at : Points, heard : Heard]
  BY DEF Tasks, NoTask
<1>2. [task[c] EXCEPT !.at = at] \in Tasks /\ [task[c] EXCEPT !.at = at, !.heard = heard] \in Tasks
  BY <1>1 DEF Tasks
<1>3. \/ task' = [task EXCEPT ![c] = [task[c] EXCEPT !.at = at]]
      \/ task' = [task EXCEPT ![c] = [task[c] EXCEPT !.at = at, !.heard = heard]]
  BY <1>1
<1>4. QED
  BY <1>1, <1>2, <1>3

\* The run of an operation that ends is a run.
LEMMA OpEnds ==
  ASSUME task \in [Clients -> Tasks], NEW c \in Clients, task[c].kind # "idle", EndTask(c)
  PROVE  task' \in [Clients -> Tasks] /\ task[c].run \in Runs
<1>1. task[c] \in [kind : {"execute", "status", "cancel"}, run : Runs, at : Points, heard : Heard]
  BY DEF Tasks, NoTask
<1>2. QED
  BY <1>1 DEF Tasks, EndTask

\* A record that gets another state, reservation or job is a record.
LEMMA RunGoesOn ==
  ASSUME runs \in [Runs -> RunRecords], NEW r \in Runs, NEW state \in States, NEW bytes \in Nat,
         \/ runs' = [runs EXCEPT ![r].state = state]
         \/ runs' = [runs EXCEPT ![r].state = state, ![r].reservation = bytes]
         \/ runs' = [runs EXCEPT ![r].state = state, ![r].job = TRUE]
         \/ UNCHANGED runs
  PROVE  runs' \in [Runs -> RunRecords]
<1>1. runs[r] \in RunRecords
  OBVIOUS
<1>2. /\ [runs[r] EXCEPT !.state = state] \in RunRecords
      /\ [runs[r] EXCEPT !.state = state, !.reservation = bytes] \in RunRecords
      /\ [runs[r] EXCEPT !.state = state, !.job = TRUE] \in RunRecords
  BY <1>1 DEF RunRecords
<1>3. \/ runs' = [runs EXCEPT ![r] = [runs[r] EXCEPT !.state = state]]
      \/ runs' = [runs EXCEPT ![r] = [runs[r] EXCEPT !.state = state, !.reservation = bytes]]
      \/ runs' = [runs EXCEPT ![r] = [runs[r] EXCEPT !.state = state, !.job = TRUE]]
      \/ runs' = runs
  BY <1>1 DEF RunRecords
<1>4. QED
  BY <1>2, <1>3

-----------------------------------------------------------------------------

\* Every step keeps the ledger's records and the clients' operations in shape.
LEMMA BudgetTypeInductive == BudgetTypeOK /\ [BudgetNext]_budgetVars => BudgetTypeOK'
<1> SUFFICES ASSUME BudgetTypeOK, [BudgetNext]_budgetVars PROVE BudgetTypeOK'
  OBVIOUS
<1> USE BudgetAssumption DEF BudgetAssumption, BudgetTypeOK, Aspects, ledger, bigquery
<1>1. ASSUME NEW p \in Previews, Preview(p) PROVE BudgetTypeOK'
  BY <1>1 DEF Preview
<1>2. ASSUME NEW p \in Previews, Approve(p) PROVE BudgetTypeOK'
  BY <1>2 DEF Approve
<1>3. ASSUME NEW c \in Clients, NEW p \in Previews, NEW r \in Runs, Execute(c, p, r) PROVE BudgetTypeOK'
  <2>1. [preview |-> p, state |-> "reserved", reservation |-> Cap[p], job |-> FALSE] \in RunRecords
    BY DEF RunRecords, States
  <2>2. [kind |-> "execute", run |-> r, at |-> "start", heard |-> "none"] \in Tasks
    BY DEF Tasks, Points, Heard
  <2>3. QED
    BY <1>3, <2>1, <2>2 DEF Execute, Unused
<1>4. ASSUME NEW c \in Clients, NEW r \in Runs, NEW kind \in {"status", "cancel"}, Control(c, r, kind) PROVE BudgetTypeOK'
  <2>1. [kind |-> kind, run |-> r, at |-> "ask", heard |-> "none"] \in Tasks
    BY DEF Tasks, Points, Heard
  <2>2. QED
    BY <1>4, <2>1 DEF Control
<1>5. ASSUME NEW c \in Clients, Lease(c) PROVE BudgetTypeOK'
  <2>1. task[c].kind # "idle" /\ \E at \in Points : task' = [task EXCEPT ![c].at = at]
    BY <1>5 DEF Lease, MoveTo, Executing, Points, Checks
  <2>2. task' \in [Clients -> Tasks] /\ task[c].run \in Runs
    BY <2>1, OpGoesOn DEF Heard
  <2>4. QED
    BY <1>5, <2>2 DEF Lease
<1>6. ASSUME NEW c \in Clients, Check(c) PROVE BudgetTypeOK'
  <2>0. AfterCheck[task[c].at] \in Points
    BY <1>6 DEF Check, Checks, AfterCheck, Points
  <2>1. task[c].kind # "idle" /\ \E at \in Points : task' = [task EXCEPT ![c].at = at]
    BY <1>6, <2>0 DEF Check, MoveTo
  <2>2. task' \in [Clients -> Tasks] /\ task[c].run \in Runs
    BY <2>1, OpGoesOn DEF Heard
  <2>4. QED
    BY <1>6, <2>2 DEF Check
<1>7. ASSUME NEW c \in Clients, Submitting(c) PROVE BudgetTypeOK'
  <2>1. task[c].kind # "idle" /\ \E at \in Points : task' = [task EXCEPT ![c].at = at]
    BY <1>7 DEF Submitting, MoveTo, Executing, Points, Checks
  <2>2. task' \in [Clients -> Tasks] /\ task[c].run \in Runs
    BY <2>1, OpGoesOn DEF Heard
  <2>3. runs' \in [Runs -> RunRecords]
    BY <1>7, <2>2, RunGoesOn DEF Submitting, Record, States, Terminal
  <2>4. QED
    BY <1>7, <2>2, <2>3 DEF Submitting
<1>8. ASSUME NEW c \in Clients, Dispatch(c) PROVE BudgetTypeOK'
  <2>1. task[c].kind # "idle" /\ \E at \in Points : task' = [task EXCEPT ![c].at = at]
    BY <1>8 DEF Dispatch, MoveTo, Executing, Points, Checks
  <2>2. task' \in [Clients -> Tasks] /\ task[c].run \in Runs
    BY <2>1, OpGoesOn DEF Heard
  <2>4. QED
    BY <1>8, <2>2 DEF Dispatch
<1>9. ASSUME NEW c \in Clients, Answered(c) PROVE BudgetTypeOK'
  <2>1. task[c].kind # "idle" /\ \E at \in Points : task' = [task EXCEPT ![c].at = at]
    BY <1>9 DEF Answered, MoveTo, Executing, Points, Checks
  <2>2. task' \in [Clients -> Tasks] /\ task[c].run \in Runs
    BY <2>1, OpGoesOn DEF Heard
  <2>3. runs' \in [Runs -> RunRecords]
    BY <1>9, <2>2, RunGoesOn DEF Answered, Record, States, Terminal
  <2>4. QED
    BY <1>9, <2>2, <2>3 DEF Answered
<1>10. ASSUME NEW c \in Clients, Executed(c) PROVE BudgetTypeOK'
  <2>1. task[c].kind # "idle"
    BY <1>10 DEF Executed, Executing
  <2>2. task' \in [Clients -> Tasks] /\ task[c].run \in Runs
    BY <1>10, <2>1, OpEnds DEF Executed
  <2>4. QED
    BY <1>10, <2>2 DEF Executed
<1>11. ASSUME NEW c \in Clients, FailsUndone(c) PROVE BudgetTypeOK'
  <2>1. task[c].kind # "idle" /\ \E at \in Points : task' = [task EXCEPT ![c].at = at]
    BY <1>11 DEF FailsUndone, MoveTo, Executing, Points, Checks
  <2>2. task' \in [Clients -> Tasks] /\ task[c].run \in Runs
    BY <2>1, OpGoesOn DEF Heard
  <2>4. QED
    BY <1>11, <2>2 DEF FailsUndone
<1>12. ASSUME NEW c \in Clients, FailsDoubtful(c) PROVE BudgetTypeOK'
  <2>1. task[c].kind # "idle" /\ \E at \in Points : task' = [task EXCEPT ![c].at = at]
    BY <1>12 DEF FailsDoubtful, MoveTo, Executing, Points, Checks
  <2>2. task' \in [Clients -> Tasks] /\ task[c].run \in Runs
    BY <2>1, OpGoesOn DEF Heard
  <2>4. QED
    BY <1>12, <2>2 DEF FailsDoubtful
<1>13. ASSUME NEW c \in Clients, RecordFailed(c) PROVE BudgetTypeOK'
  <2>1. task[c].kind # "idle"
    BY <1>13 DEF RecordFailed, Executing
  <2>2. task' \in [Clients -> Tasks] /\ task[c].run \in Runs
    BY <1>13, <2>1, OpEnds DEF RecordFailed
  <2>3. runs' \in [Runs -> RunRecords]
    BY <1>13, <2>2, RunGoesOn, ZenonT(40) DEF RecordFailed, Record, States, Terminal
  <2>4. QED
    BY <1>13, <2>2, <2>3 DEF RecordFailed
<1>14. ASSUME NEW c \in Clients, RecordDoubtful(c) PROVE BudgetTypeOK'
  <2>1. task[c].kind # "idle"
    BY <1>14 DEF RecordDoubtful, Executing
  <2>2. task' \in [Clients -> Tasks] /\ task[c].run \in Runs
    BY <1>14, <2>1, OpEnds DEF RecordDoubtful
  <2>3. runs' \in [Runs -> RunRecords]
    BY <1>14, <2>2, RunGoesOn DEF RecordDoubtful, Record, States, Terminal
  <2>4. QED
    BY <1>14, <2>2, <2>3 DEF RecordDoubtful
<1>15. ASSUME NEW c \in Clients, ControlHeard(c) PROVE BudgetTypeOK'
  <2>1. task[c].kind # "idle"
    BY <1>15 DEF ControlHeard
  <2>2. task[c].run \in Runs
    BY <2>1 DEF Tasks, NoTask
  <2>3. StateOf(task[c].run) \in Heard
    BY <2>2 DEF StateOf
  <2>4. task' = [task EXCEPT ![c].at = "heard", ![c].heard = StateOf(task[c].run)]
    BY <1>15 DEF ControlHeard
  <2>5. task' \in [Clients -> Tasks]
    BY <2>1, <2>3, <2>4, OpGoesOn DEF Points
  <2>6. QED
    BY <1>15, <2>5 DEF ControlHeard
<1>16. ASSUME NEW c \in Clients, ControlFails(c) PROVE BudgetTypeOK'
  <2>1. task[c].kind # "idle"
    BY <1>16 DEF ControlFails, Executing
  <2>2. task' \in [Clients -> Tasks] /\ task[c].run \in Runs
    BY <1>16, <2>1, OpEnds DEF ControlFails
  <2>4. QED
    BY <1>16, <2>2 DEF ControlFails
<1>17. ASSUME NEW c \in Clients, StatusDone(c) PROVE BudgetTypeOK'
  <2>1. task[c].kind # "idle"
    BY <1>17 DEF StatusDone, Executing
  <2>2. task' \in [Clients -> Tasks] /\ task[c].run \in Runs
    BY <1>17, <2>1, OpEnds DEF StatusDone
  <2>3. task[c].heard \in Heard /\ runs[task[c].run].reservation \in Nat
    BY <2>1, <2>2 DEF Tasks, NoTask, RunRecords
  <2>4. runs' \in [Runs -> RunRecords]
    <3>1. CASE UNCHANGED runs
      BY <3>1
    <3>2. ASSUME NEW bytes \in BilledOrReserved(task[c].run), task[c].heard \in Terminal,
                 runs' = [runs EXCEPT ![task[c].run].state = task[c].heard, ![task[c].run].reservation = bytes]
          PROVE  runs' \in [Runs -> RunRecords]
      BY <2>2, <2>3, <3>2, RunGoesOn DEF BilledOrReserved, States
    <3>3. QED
      BY <1>17, <3>1, <3>2 DEF StatusDone
  <2>5. QED
    BY <1>17, <2>2, <2>4 DEF StatusDone
<1>18. ASSUME NEW c \in Clients, CancelDone(c) PROVE BudgetTypeOK'
  <2>1. task[c].kind # "idle"
    BY <1>18 DEF CancelDone, Executing
  <2>2. task' \in [Clients -> Tasks] /\ task[c].run \in Runs
    BY <1>18, <2>1, OpEnds DEF CancelDone
  <2>3. runs' \in [Runs -> RunRecords]
    BY <1>18, <2>2, RunGoesOn DEF CancelDone, Record, States, Terminal
  <2>4. QED
    BY <1>18, <2>2, <2>3 DEF CancelDone
<1>19. ASSUME NEW c \in Clients, TabGone(c) PROVE BudgetTypeOK'
  <2>1. NoTask \in Tasks
    BY DEF Tasks
  <2>2. QED
    BY <1>19, <2>1 DEF TabGone, EndTask
<1>20. ASSUME NEW r \in Runs, Accept(r) PROVE BudgetTypeOK'
  BY <1>20 DEF Accept, Heard
<1>21. ASSUME NEW r \in Runs, Refuse(r) PROVE BudgetTypeOK'
  BY <1>21 DEF Refuse
<1>22. ASSUME NEW r \in Runs, Finish(r) PROVE BudgetTypeOK'
  <2>1. Terminal \subseteq Heard
    BY DEF Heard
  <2>2. job' \in [Runs -> Heard] /\ bill' \in [Runs -> Nat]
    BY <1>22, <2>1 DEF Finish
  <2>3. QED
    BY <1>22, <2>2 DEF Finish
<1>23. ASSUME NEW a \in Aspects, Change(a) PROVE BudgetTypeOK'
  BY <1>23 DEF Change
<1>24. CASE UNCHANGED budgetVars
  BY <1>24 DEF budgetVars
<1> HIDE DEF BudgetTypeOK
<1>25. QED
  BY <1>1, <1>2, <1>3, <1>4, <1>5, <1>6, <1>7, <1>8, <1>9, <1>10, <1>11, <1>12, <1>13, <1>14, <1>15, <1>16, <1>17, <1>18, <1>19, <1>20, <1>21, <1>22, <1>23, <1>24
     DEF BudgetNext, ExecuteStep, ControlStep
-----------------------------------------------------------------------------

AnyOp ==
  [kind : {"idle", "execute", "status", "cancel"}, run : Runs \cup {None},
   at : Points \cup {"none"}, heard : Heard]

\* The types in the form the provers need.
LEMMA BudgetShapes ==
  ASSUME BudgetTypeOK
  PROVE  /\ task \in [Clients -> AnyOp] /\ runs \in [Runs -> RunRecords] /\ job \in [Runs -> Heard]
         /\ bill \in [Runs -> Nat] /\ world \in [Aspects -> Nat]
         /\ seen \in [Previews -> [Aspects -> Nat]]
         /\ posts \subseteq Runs /\ stale \subseteq Runs /\ used \subseteq Previews
         /\ \A c \in Clients : task[c].kind # "idle" => task[c].run \in Runs
  BY BudgetAssumption DEF BudgetAssumption, BudgetTypeOK, Tasks, AnyOp, NoTask, Points, Heard

\* An operation that writes to the record of its run keeps the invariant if the
\* record's reservation still covers the run, and is whole while a request may
\* still leave.
LEMMA RunRecorded ==
  ASSUME BudgetTypeOK, BudgetInv, runs' \in [Runs -> RunRecords],
         NEW c \in Clients, NEW r \in Runs, task[c].run = r, runs[r].state # "free",
         \A s \in Runs : s # r => runs'[s] = runs[s],
         \A d \in Clients : d # c => task'[d] = task[d],
         runs'[r].state # "free", runs'[r].preview = runs[r].preview,
         Liability(r) <= runs'[r].reservation,
         runs'[r].reservation <= Cap[runs[r].preview],
         \/ runs'[r].reservation = runs[r].reservation
         \/ \A d \in Clients : d # c /\ task[d].kind = "execute" /\ task[d].run = r
                                 => task[d].at \notin BeforeDispatch,
         runs'[r].job => job[r] # "none", runs[r].job => runs'[r].job,
         \/ task'[c] = NoTask
         \/ /\ task[c].kind = "execute" /\ task[c].at = "sent"
            /\ task'[c].kind = "execute" /\ task'[c].run = r /\ task'[c].at = "install",
         UNCHANGED <<previewed, seen, used, world, posts, job, bill, stale>>
  PROVE  BudgetInv'
<1>1. /\ task \in [Clients -> AnyOp] /\ runs \in [Runs -> RunRecords] /\ job \in [Runs -> Heard]
      /\ bill \in [Runs -> Nat] /\ posts \subseteq Runs /\ stale \subseteq Runs
      /\ used \subseteq Previews /\ Cap \in [Previews -> Nat]
  BY BudgetShapes, BudgetAssumption DEF BudgetAssumption
<1>2. RunsAreUsed /\ OwnRun /\ NothingSent /\ HeardIsTrue /\ StaleIsCaught
      /\ ReservationCovers /\ OneJobPerApproval
  BY DEF BudgetInv
<1>3. runs[r].preview \in used /\ runs[r].preview \in Previews
  BY <1>1, <1>2 DEF RunsAreUsed
<1>4. \A s \in Runs : runs'[s].preview = runs[s].preview /\ (runs'[s].state = "free" <=> runs[s].state = "free")
  OBVIOUS
<1>5. \A d \in Clients : task'[d].kind # "idle" /\ (d = c => task'[c].kind # "idle")
                            => task'[d].kind = task[d].kind /\ task'[d].run = task[d].run
  BY DEF NoTask
<1>6. RunsAreUsed'
  <2>1. runs'[r].reservation \in 0..Cap[runs[r].preview]
    BY <1>1, <1>3 DEF RunRecords
  <2>2. QED
    BY <1>2, <1>3, <1>4, <2>1 DEF RunsAreUsed
<1>7. OwnRun'
  BY <1>2, <1>4 DEF OwnRun, NoTask, AfterDispatch
<1>8. NothingSent'
  <2>1. \A s \in Runs : /\ runs'[s].state = "free" => s \notin posts /\ job[s] = "none"
                        /\ job[s] = "none" => bill[s] = 0 /\ ~runs'[s].job
                        /\ s \in posts => job[s] = "none"
    BY <1>2, <1>4 DEF NothingSent
  <2>2. ASSUME NEW d \in Clients, task'[d].kind = "execute", task'[d].at \in BeforeDispatch
        PROVE  /\ task'[d].run \notin posts /\ job[task'[d].run] = "none"
               /\ runs'[task'[d].run].reservation = Cap[runs'[task'[d].run].preview]
    <3>1. d # c
      BY <2>2 DEF NoTask, BeforeDispatch, Checks
    <3>2. task'[d] = task[d] /\ task[d].run \in Runs
      BY <1>2, <2>2, <3>1 DEF OwnRun
    <3>3. CASE task[d].run = r
      BY <1>2, <2>2, <3>1, <3>2, <3>3 DEF NothingSent
    <3>4. CASE task[d].run # r
      BY <1>2, <2>2, <3>2, <3>4 DEF NothingSent
    <3>5. QED
      BY <3>3, <3>4
  <2>3. QED
    BY <2>1, <2>2 DEF NothingSent
<1>9. HeardIsTrue'
  <2>1. ASSUME NEW d \in Clients, task'[d].kind \in {"status", "cancel"} PROVE d # c
    BY <2>1 DEF NoTask
  <2>2. QED
    BY <1>2, <2>1 DEF HeardIsTrue
<1>10. StaleIsCaught'
  <2>1. ASSUME NEW s \in stale, NEW d \in Clients, task'[d].kind = "execute", task'[d].run = s PROVE d # c
    BY <1>2, <2>1 DEF StaleIsCaught, NoTask
  <2>2. QED
    BY <1>1, <1>2, <1>4, <2>1 DEF StaleIsCaught
<1>11. ReservationCovers'
  <2>1. \A s \in Runs : Liability(s)' = Liability(s)
    BY <1>4 DEF Liability
  <2>2. QED
    BY <1>2, <1>4, <2>1 DEF ReservationCovers
<1>12. OneJobPerApproval'
  BY <1>2, <1>4 DEF OneJobPerApproval
<1>13. QED
  BY <1>6, <1>7, <1>8, <1>9, <1>10, <1>11, <1>12 DEF BudgetInv

\* An operation that goes on, when the ledger and BigQuery are as before, keeps
\* the invariant if the check it passed allows it to.
LEMMA OpMoved ==
  ASSUME BudgetTypeOK, BudgetInv, NEW c \in Clients, NEW r \in Runs,
         task[c].run = r, task[c].kind # "idle",
         task'[c].kind = task[c].kind, task'[c].run = r,
         \A d \in Clients : d # c => task'[d] = task[d],
         task[c].kind = "execute" =>
           /\ task[c].at \in BeforeDispatch /\ task'[c].at \in BeforeDispatch
           /\ r \in stale => /\ task'[c].at \in {"start", "policy", "source", "undone"}
                             /\ task'[c].at = "source" => world["source"] > seen[runs[r].preview]["source"],
         task'[c].heard \in Terminal => task[c].heard = task'[c].heard \/ job[r] = task'[c].heard,
         UNCHANGED <<previewed, seen, used, runs, world, posts, job, bill, stale>>
  PROVE  BudgetInv'
<1>1. /\ RunsAreUsed /\ OwnRun /\ NothingSent /\ HeardIsTrue /\ StaleIsCaught
      /\ ReservationCovers /\ OneJobPerApproval
  BY DEF BudgetInv
<1>2. RunsAreUsed' /\ ReservationCovers' /\ OneJobPerApproval'
  BY <1>1 DEF RunsAreUsed, ReservationCovers, OneJobPerApproval, Liability
<1>3. OwnRun'
  BY <1>1 DEF OwnRun
<1>4. NothingSent'
  BY <1>1 DEF NothingSent
<1>5. HeardIsTrue'
  BY <1>1 DEF HeardIsTrue
<1>6. StaleIsCaught'
  BY <1>1 DEF StaleIsCaught
<1>7. QED
  BY <1>2, <1>3, <1>4, <1>5, <1>6 DEF BudgetInv

\* A run is made of a preview that no run was made of.
LEMMA ExecuteKeeps ==
  ASSUME BudgetTypeOK, BudgetInv, NEW c \in Clients, NEW p \in Previews, NEW r \in Runs,
         Execute(c, p, r)
  PROVE  BudgetInv'
<1>1. /\ task \in [Clients -> AnyOp] /\ runs \in [Runs -> RunRecords] /\ job \in [Runs -> Heard]
      /\ world \in [Aspects -> Nat] /\ seen \in [Previews -> [Aspects -> Nat]]
      /\ bill \in [Runs -> Nat] /\ posts \subseteq Runs /\ stale \subseteq Runs
      /\ used \subseteq Previews /\ Cap[p] \in Nat
  BY BudgetShapes, BudgetAssumption DEF BudgetAssumption
<1>2. /\ RunsAreUsed /\ OwnRun /\ NothingSent /\ HeardIsTrue /\ StaleIsCaught
      /\ ReservationCovers /\ OneJobPerApproval
  BY DEF BudgetInv
<1>3. /\ runs'[r].preview = p /\ runs'[r].state = "reserved" /\ runs'[r].reservation = Cap[p]
      /\ runs'[r].job = FALSE /\ \A s \in Runs : s # r => runs'[s] = runs[s]
  BY <1>1 DEF Execute
<1>4. /\ task'[c].kind = "execute" /\ task'[c].run = r /\ task'[c].at = "start"
      /\ \A d \in Clients : d # c => task'[d] = task[d]
  BY <1>1 DEF Execute
<1>5. /\ runs[r] = NoRun /\ task[c].kind = "idle" /\ p \in previewed /\ p \notin used
      /\ used' = used \cup {p} /\ UNCHANGED <<previewed, seen, world, posts, job, bill>>
  BY DEF Execute, Unused, NoTask, ledger, bigquery
<1>6. runs[r].state = "free" /\ r \notin posts /\ job[r] = "none" /\ bill[r] = 0 /\ r \notin stale
  BY <1>2, <1>5 DEF NoRun, NothingSent, StaleIsCaught
<1>7. \A s \in stale' : s # r => s \in stale
  BY DEF Execute
<1>8. r \in stale' => world["policy"] > seen[p]["policy"] \/ world["source"] > seen[p]["source"]
  <2>1. r \in stale' => world # seen[p]
    BY <1>6 DEF Execute
  <2>2. world # seen[p] => \E a \in Aspects : world[a] # seen[p][a]
    BY <1>1
  <2>3. \A a \in Aspects : seen[p][a] <= world[a]
    BY <1>2 DEF RunsAreUsed
  <2>4. QED
    BY <1>1, <2>1, <2>2, <2>3 DEF Aspects
<1>9. \A s \in Runs : s # r => /\ runs[s].state # "free" => runs[s].preview # p /\ s \in Runs
  BY <1>2, <1>5 DEF RunsAreUsed
<1>10. \A d \in Clients : task[d].kind # "idle" => task[d].run # r
  <2>1. ~runs[r].job
    BY <1>5 DEF NoRun
  <2>2. QED
    BY <1>1, <1>2, <1>6, <2>1 DEF AnyOp, OwnRun, HeardIsTrue
<1>11. RunsAreUsed'
  <2>1. Cap[p] \in 0..Cap[p]
    BY <1>1
  <2>2. \A s \in Runs : IF runs'[s].state = "free" THEN runs'[s] = NoRun
          ELSE runs'[s].preview \in used' /\ runs'[s].reservation \in 0..Cap[runs'[s].preview]
    <3>1. ASSUME NEW s \in Runs, s # r
          PROVE  IF runs'[s].state = "free" THEN runs'[s] = NoRun
                 ELSE runs'[s].preview \in used' /\ runs'[s].reservation \in 0..Cap[runs'[s].preview]
      BY <1>2, <1>3, <1>5, <3>1 DEF RunsAreUsed
    <3>2. QED
      BY <1>3, <1>5, <2>1, <3>1
  <2>3. QED
    BY <1>2, <1>5, <2>2 DEF RunsAreUsed
<1>12. OwnRun'
  BY <1>2, <1>3, <1>4, <1>5, <1>10 DEF OwnRun, BeforeDispatch
<1>13. NothingSent'
  BY <1>2, <1>3, <1>4, <1>5, <1>6, <1>10 DEF NothingSent, OwnRun
<1>14. HeardIsTrue'
  BY <1>2, <1>3, <1>4, <1>5, <1>10 DEF HeardIsTrue
<1>15. StaleIsCaught'
  BY <1>1, <1>2, <1>3, <1>4, <1>5, <1>6, <1>7, <1>8, <1>10 DEF StaleIsCaught
<1>16. ReservationCovers'
  BY <1>1, <1>2, <1>3, <1>5, <1>6 DEF ReservationCovers, Liability
<1>17. OneJobPerApproval'
  BY <1>2, <1>3, <1>9 DEF OneJobPerApproval
<1>18. QED
  BY <1>11, <1>12, <1>13, <1>14, <1>15, <1>16, <1>17 DEF BudgetInv

\* Every step keeps the invariant.
LEMMA BudgetInvInductive ==
  BudgetTypeOK /\ BudgetInv /\ [BudgetNext]_budgetVars => BudgetInv'
<1> SUFFICES ASSUME BudgetTypeOK, BudgetInv, [BudgetNext]_budgetVars PROVE BudgetInv'
  OBVIOUS
<1>1. ASSUME NEW p \in Previews, Preview(p) PROVE BudgetInv'
  BY <1>1, BudgetShapes, BudgetAssumption
     DEF BudgetAssumption, RunRecords, States, AnyOp, Points, Heard, Aspects, Terminal, ledger, bigquery,
         BudgetInv, RunsAreUsed, OwnRun, NothingSent, HeardIsTrue, StaleIsCaught, ReservationCovers,
         OneJobPerApproval, Liability, BeforeDispatch, AfterDispatch, Checks, Preview
<1>2. ASSUME NEW p \in Previews, Approve(p) PROVE BudgetInv'
  BY <1>2, BudgetShapes, BudgetAssumption
     DEF BudgetAssumption, RunRecords, States, AnyOp, Points, Heard, Aspects, Terminal, ledger, bigquery,
         BudgetInv, RunsAreUsed, OwnRun, NothingSent, HeardIsTrue, StaleIsCaught, ReservationCovers,
         OneJobPerApproval, Liability, BeforeDispatch, AfterDispatch, Checks, Approve
<1>3. ASSUME NEW c \in Clients, NEW p \in Previews, NEW r \in Runs, Execute(c, p, r) PROVE BudgetInv'
  BY <1>3, ExecuteKeeps
<1>4. ASSUME NEW c \in Clients, NEW r \in Runs, NEW kind \in {"status", "cancel"}, Control(c, r, kind) PROVE BudgetInv'
  BY <1>4, BudgetShapes, BudgetAssumption
     DEF BudgetAssumption, RunRecords, States, AnyOp, Points, Heard, Aspects, Terminal, ledger, bigquery,
         BudgetInv, RunsAreUsed, OwnRun, NothingSent, HeardIsTrue, StaleIsCaught, ReservationCovers,
         OneJobPerApproval, Liability, BeforeDispatch, AfterDispatch, Checks, Control, NoTask
<1>5. ASSUME NEW c \in Clients, Lease(c) PROVE BudgetInv'
  BY <1>5, BudgetShapes, BudgetAssumption
     DEF BudgetAssumption, RunRecords, States, AnyOp, Points, Heard, Aspects, Terminal, ledger, bigquery,
         BudgetInv, RunsAreUsed, OwnRun, NothingSent, HeardIsTrue, StaleIsCaught, ReservationCovers,
         OneJobPerApproval, Liability, BeforeDispatch, AfterDispatch, Checks, Lease, Executing, MoveTo
<1>6. ASSUME NEW c \in Clients, Check(c) PROVE BudgetInv'
  <2> DEFINE r == task[c].run
             p == runs[r].preview
  <2>1. task[c].kind = "execute" /\ task[c].at \in BeforeDispatch /\ r \in Runs
    BY <1>6, BudgetShapes DEF Check, BeforeDispatch
  <2>2. /\ task'[c].kind = "execute" /\ task'[c].run = r /\ task'[c].heard = task[c].heard
        /\ task'[c].at = AfterCheck[task[c].at]
        /\ \A d \in Clients : d # c => task'[d] = task[d]
        /\ UNCHANGED <<previewed, seen, used, runs, world, posts, job, bill, stale>>
    BY <1>6, BudgetShapes DEF Check, MoveTo, AnyOp, ledger, bigquery
  <2>3. task'[c].at \in BeforeDispatch
    BY <1>6, <2>2, SMTT(30) DEF Check, Checks, AfterCheck, BeforeDispatch
  <2>4. r \in stale => /\ task'[c].at = "source"
                       /\ world["source"] > seen[p]["source"]
    <3>1. SUFFICES ASSUME r \in stale PROVE task'[c].at = "source" /\ world["source"] > seen[p]["source"]
      OBVIOUS
    <3>2. task[c].at \in {"policy", "source"} /\ world[Checks[task[c].at]] = seen[p][Checks[task[c].at]]
      BY <1>6, <2>1, <3>1, SMTT(30) DEF Check, Checks, AsPreviewed, BudgetInv, StaleIsCaught
    <3>3. /\ world["policy"] > seen[p]["policy"] \/ world["source"] > seen[p]["source"]
          /\ task[c].at = "source" => world["source"] > seen[p]["source"]
      BY <2>1, <3>1 DEF BudgetInv, StaleIsCaught
    <3>4. \A a \in Aspects : world[a] \in Nat /\ seen[p][a] \in Nat
      BY <2>1, <3>1, BudgetShapes DEF BudgetInv, StaleIsCaught, RunsAreUsed
    <3>5. task[c].at = "policy"
      <4>1. world["source"] \in Nat /\ seen[p]["source"] \in Nat
        BY <3>4 DEF Aspects
      <4>2. Checks["source"] = "source"
        BY DEF Checks
      <4>3. ASSUME task[c].at = "source" PROVE FALSE
        <5>1. world["source"] = seen[p]["source"]
          BY ONLY <3>2, <4>2, <4>3
        <5>2. world["source"] > seen[p]["source"]
          BY ONLY <3>3, <4>3, Zenon
        <5>3. QED
          BY ONLY <4>1, <5>1, <5>2
      <4>4. QED
        BY ONLY <3>2, <4>3
    <3>6. QED
      BY <2>2, <3>2, <3>3, <3>4, <3>5, SMTT(30) DEF Checks, AfterCheck, Aspects
  <2>5. QED
    BY <2>1, <2>2, <2>3, <2>4, OpMoved
<1>7. ASSUME NEW c \in Clients, Submitting(c) PROVE BudgetInv'
  <2> DEFINE r == task[c].run
  <2>1. /\ task[c].kind = "execute" /\ task[c].at = "submit" /\ r \in Runs
        /\ "submit" \in BeforeDispatch /\ "ready" \in BeforeDispatch
    <3>1. task[c].kind = "execute" /\ task[c].at = "submit"
      BY <1>7 DEF Submitting, Executing
    <3>2. r \in Runs
      BY <3>1, BudgetShapes
    <3> QED
      BY <3>1, <3>2 DEF BeforeDispatch
  <2>2. /\ RunsAreUsed /\ OwnRun /\ NothingSent /\ HeardIsTrue /\ StaleIsCaught
        /\ ReservationCovers /\ OneJobPerApproval /\ runs[r].state # "free"
    BY <2>1 DEF BudgetInv, OwnRun
  <2>3. /\ task'[c].kind = "execute" /\ task'[c].run = r /\ task'[c].at = "ready" /\ task'[c].heard = task[c].heard
        /\ \A d \in Clients : d # c => task'[d] = task[d]
    BY <1>7, <2>1, BudgetShapes DEF Submitting, Executing, MoveTo, AnyOp
  <2>4. /\ runs'[r].state = "submitting" /\ runs'[r].preview = runs[r].preview
        /\ runs'[r].reservation = runs[r].reservation /\ runs'[r].job = runs[r].job
        /\ \A s \in Runs : s # r => runs'[s] = runs[s]
    BY <1>7, <2>1, BudgetShapes DEF Submitting, Record, RunRecords
  <2>5. UNCHANGED <<previewed, seen, used, world, posts, job, bill, stale>>
    BY <1>7 DEF Submitting, bigquery
  <2>6. r \notin stale
    BY <2>1, <2>2 DEF StaleIsCaught
  <2> HIDE DEF r
  <2>7. /\ \A s \in Runs : /\ runs'[s].state = "free" <=> runs[s].state = "free"
                           /\ runs'[s].preview = runs[s].preview /\ runs'[s].job = runs[s].job
                           /\ runs'[s].reservation = runs[s].reservation
        /\ \A s \in Runs : runs'[s].state = "free" => runs'[s] = runs[s]
    BY <2>2, <2>4
  <2>8. RunsAreUsed'
    BY <2>2, <2>5, <2>7 DEF RunsAreUsed
  <2>9. OwnRun'
    BY <2>1, <2>2, <2>3, <2>7 DEF OwnRun, r
  <2>10. NothingSent'
    <3>1. \A s \in Runs : /\ runs'[s].state = "free" => s \notin posts' /\ job'[s] = "none"
                          /\ job'[s] = "none" => bill'[s] = 0 /\ ~runs'[s].job
                          /\ s \in posts' => job'[s] = "none"
      BY <2>2, <2>5, <2>7 DEF NothingSent
    <3>2. ASSUME NEW d \in Clients, task'[d].kind = "execute", task'[d].at \in BeforeDispatch
          PROVE  /\ task'[d].run \notin posts' /\ job'[task'[d].run] = "none"
                 /\ runs'[task'[d].run].reservation = Cap[runs'[task'[d].run].preview]
      <4>1. task[d].kind = "execute" /\ task[d].at \in BeforeDispatch /\ task'[d].run = task[d].run /\ task[d].run \in Runs
        BY <2>1, <2>2, <2>3, <3>2 DEF OwnRun, r
      <4> QED
        BY <2>2, <2>5, <2>7, <4>1 DEF NothingSent
    <3> QED
      BY <3>1, <3>2 DEF NothingSent
  <2>11. HeardIsTrue'
    <3>1. ASSUME NEW d \in Clients, task'[d].kind \in {"status", "cancel"}
          PROVE  task'[d] = task[d]
      BY <2>3, <3>1
    <3> QED
      BY <2>2, <2>5, <2>7, <3>1 DEF HeardIsTrue
  <2>12. StaleIsCaught'
    <3>1. \A s \in stale : s \in Runs /\ s # r
      BY <2>6, BudgetShapes
    <3>2. \A d \in Clients : task'[d].kind = "execute" /\ task'[d].run # r => task'[d] = task[d]
      BY <2>3
    <3> QED
      BY <2>2, <2>5, <2>7, <3>1, <3>2 DEF StaleIsCaught
  <2>13. ReservationCovers' /\ OneJobPerApproval'
    BY <2>2, <2>5, <2>7 DEF ReservationCovers, OneJobPerApproval, Liability
  <2> QED
    BY <2>8, <2>9, <2>10, <2>11, <2>12, <2>13 DEF BudgetInv
<1>8. ASSUME NEW c \in Clients, Dispatch(c) PROVE BudgetInv'
  BY <1>8, BudgetShapes, BudgetAssumption
     DEF BudgetAssumption, RunRecords, States, AnyOp, Points, Heard, Aspects, Terminal, ledger, bigquery,
         BudgetInv, RunsAreUsed, OwnRun, NothingSent, HeardIsTrue, StaleIsCaught, ReservationCovers,
         OneJobPerApproval, Liability, BeforeDispatch, AfterDispatch, Checks, Dispatch, Executing, MoveTo
<1>9. ASSUME NEW c \in Clients, Answered(c) PROVE BudgetInv'
  <2> DEFINE r == task[c].run
  <2>1. task[c].kind = "execute" /\ task[c].at = "sent" /\ job[r] # "none"
    BY <1>9 DEF Answered, Executing
  <2>2. r \in Runs /\ runs[r] \in RunRecords /\ bill[r] \in Nat
    BY <2>1, BudgetShapes
  <2>3. runs[r].state # "free"
    BY <2>1, <2>2 DEF BudgetInv, RunsAreUsed, NoRun, OwnRun, HeardIsTrue
  <2>4. /\ runs'[r].preview = runs[r].preview
        /\ runs'[r].state = "running" /\ runs'[r].job = TRUE
        /\ runs'[r].reservation = runs[r].reservation
        /\ \A s \in Runs : s # r => runs'[s] = runs[s]
    BY <1>9, <2>2, BudgetShapes DEF RunRecords, Answered, Executing, MoveTo, bigquery
  <2>5. /\ task'[c].kind = "execute" /\ task'[c].run = r /\ task'[c].at = "install" /\ \A d \in Clients : d # c => task'[d] = task[d]
        /\ UNCHANGED <<previewed, seen, used, world, posts, job, bill, stale>>
    BY <1>9, BudgetShapes DEF AnyOp, Answered, Executing, MoveTo, bigquery
  <2>6. runs' \in [Runs -> RunRecords]
    BY BudgetTypeInductive DEF BudgetTypeOK
  <2>7. /\ runs[r].preview \in Previews /\ Cap[runs[r].preview] \in Nat
        /\ runs[r].reservation \in 0..Cap[runs[r].preview] /\ Liability(r) <= runs[r].reservation
    BY <2>2, <2>3, BudgetShapes, BudgetAssumption DEF BudgetAssumption, BudgetInv, RunsAreUsed, ReservationCovers
  <2>8. Liability(r) <= runs'[r].reservation /\ runs'[r].reservation <= Cap[runs[r].preview]
    BY <2>2, <2>4, <2>7 DEF Liability
  <2> HIDE DEF r
  <2>9. runs'[r].state # "free" /\ (runs'[r].job => job[r] # "none") /\ (runs[r].job => runs'[r].job)
    BY <2>1, <2>3, <2>4 DEF Terminal
  <2>10. QED
    BY <2>1, <2>2, <2>3, <2>4, <2>5, <2>6, <2>8, <2>9, RunRecorded DEF r
<1>10. ASSUME NEW c \in Clients, Executed(c) PROVE BudgetInv'
  BY <1>10, BudgetShapes, BudgetAssumption
     DEF BudgetAssumption, RunRecords, States, AnyOp, Points, Heard, Aspects, Terminal, ledger, bigquery,
         BudgetInv, RunsAreUsed, OwnRun, NothingSent, HeardIsTrue, StaleIsCaught, ReservationCovers,
         OneJobPerApproval, Liability, BeforeDispatch, AfterDispatch, Checks, Executed, Executing, EndTask, NoTask
<1>11. ASSUME NEW c \in Clients, FailsUndone(c) PROVE BudgetInv'
  BY <1>11, BudgetShapes, BudgetAssumption
     DEF BudgetAssumption, RunRecords, States, AnyOp, Points, Heard, Aspects, Terminal, ledger, bigquery,
         BudgetInv, RunsAreUsed, OwnRun, NothingSent, HeardIsTrue, StaleIsCaught, ReservationCovers,
         OneJobPerApproval, Liability, BeforeDispatch, AfterDispatch, Checks, FailsUndone, MoveTo
<1>12. ASSUME NEW c \in Clients, FailsDoubtful(c) PROVE BudgetInv'
  BY <1>12, BudgetShapes, BudgetAssumption
     DEF BudgetAssumption, RunRecords, States, AnyOp, Points, Heard, Aspects, Terminal, ledger, bigquery,
         BudgetInv, RunsAreUsed, OwnRun, NothingSent, HeardIsTrue, StaleIsCaught, ReservationCovers,
         OneJobPerApproval, Liability, BeforeDispatch, AfterDispatch, Checks, FailsDoubtful, MoveTo
<1>13. ASSUME NEW c \in Clients, RecordFailed(c) PROVE BudgetInv'
  <2> DEFINE r == task[c].run
  <2>1. task[c].kind = "execute" /\ task[c].at = "undone"
    BY <1>13 DEF RecordFailed, Executing
  <2>2. r \in Runs /\ runs[r] \in RunRecords /\ bill[r] \in Nat
    BY <2>1, BudgetShapes
  <2>3. runs[r].state # "free"
    BY <2>1, <2>2 DEF BudgetInv, RunsAreUsed, NoRun, OwnRun, HeardIsTrue
  <2>4. /\ runs'[r].preview = runs[r].preview
        /\ runs'[r].state = "failed" /\ runs'[r].job = runs[r].job
        /\ runs'[r].reservation = 0
        /\ \A s \in Runs : s # r => runs'[s] = runs[s]
    BY <1>13, <2>2, BudgetShapes DEF RunRecords, RecordFailed, Executing, EndTask, NoTask, bigquery
  <2>5. /\ task'[c] = NoTask /\ \A d \in Clients : d # c => task'[d] = task[d]
        /\ UNCHANGED <<previewed, seen, used, world, posts, job, bill, stale>>
    BY <1>13, BudgetShapes DEF AnyOp, RecordFailed, Executing, EndTask, NoTask, bigquery
  <2>6. runs' \in [Runs -> RunRecords]
    BY BudgetTypeInductive DEF BudgetTypeOK
  <2>7. /\ runs[r].preview \in Previews /\ Cap[runs[r].preview] \in Nat
        /\ runs[r].reservation \in 0..Cap[runs[r].preview] /\ Liability(r) <= runs[r].reservation
    BY <2>2, <2>3, BudgetShapes, BudgetAssumption DEF BudgetAssumption, BudgetInv, RunsAreUsed, ReservationCovers
  <2>8. r \notin posts /\ job[r] = "none" /\ bill[r] = 0 /\ ~runs[r].job
    BY <2>1, <2>2 DEF BudgetInv, NothingSent, BeforeDispatch
  <2>9. \A d \in Clients : d # c /\ task[d].kind = "execute" => task[d].run # r
    BY <2>1 DEF BudgetInv, OwnRun
  <2>10. Liability(r) <= runs'[r].reservation /\ runs'[r].reservation <= Cap[runs[r].preview]
    BY <2>2, <2>4, <2>7, <2>8, <2>9 DEF Liability
  <2> HIDE DEF r
  <2>11. runs'[r].state # "free" /\ (runs'[r].job => job[r] # "none") /\ (runs[r].job => runs'[r].job)
    BY <2>1, <2>3, <2>4, <2>8, <2>9 DEF Terminal
  <2>12. QED
    BY <2>1, <2>2, <2>3, <2>4, <2>5, <2>6, <2>8, <2>9, <2>10, <2>11, RunRecorded DEF r
<1>14. ASSUME NEW c \in Clients, RecordDoubtful(c) PROVE BudgetInv'
  <2> DEFINE r == task[c].run
  <2>1. task[c].kind = "execute" /\ task[c].at = "doubtful"
    BY <1>14 DEF RecordDoubtful, Executing
  <2>2. r \in Runs /\ runs[r] \in RunRecords /\ bill[r] \in Nat
    BY <2>1, BudgetShapes
  <2>3. runs[r].state # "free"
    BY <2>1, <2>2 DEF BudgetInv, RunsAreUsed, NoRun, OwnRun, HeardIsTrue
  <2>4. /\ runs'[r].preview = runs[r].preview
        /\ runs'[r].state \in {runs[r].state, "submission_unknown"} /\ runs'[r].job = runs[r].job
        /\ runs'[r].reservation = runs[r].reservation
        /\ \A s \in Runs : s # r => runs'[s] = runs[s]
    BY <1>14, <2>2, BudgetShapes DEF RunRecords, RecordDoubtful, Executing, EndTask, NoTask, Record, bigquery
  <2>5. /\ task'[c] = NoTask /\ \A d \in Clients : d # c => task'[d] = task[d]
        /\ UNCHANGED <<previewed, seen, used, world, posts, job, bill, stale>>
    BY <1>14, BudgetShapes DEF AnyOp, RecordDoubtful, Executing, EndTask, NoTask, Record, bigquery
  <2>6. runs' \in [Runs -> RunRecords]
    BY BudgetTypeInductive DEF BudgetTypeOK
  <2>7. /\ runs[r].preview \in Previews /\ Cap[runs[r].preview] \in Nat
        /\ runs[r].reservation \in 0..Cap[runs[r].preview] /\ Liability(r) <= runs[r].reservation
    BY <2>2, <2>3, BudgetShapes, BudgetAssumption DEF BudgetAssumption, BudgetInv, RunsAreUsed, ReservationCovers
  <2>8. runs[r].job => job[r] # "none"
    BY <2>2 DEF BudgetInv, NothingSent
  <2>9. Liability(r) <= runs'[r].reservation /\ runs'[r].reservation <= Cap[runs[r].preview]
    BY <2>2, <2>4, <2>7, <2>8 DEF Liability
  <2> HIDE DEF r
  <2>10. runs'[r].state # "free" /\ (runs'[r].job => job[r] # "none") /\ (runs[r].job => runs'[r].job)
    BY <2>1, <2>3, <2>4, <2>8 DEF Terminal
  <2>11. QED
    BY <2>1, <2>2, <2>3, <2>4, <2>5, <2>6, <2>8, <2>9, <2>10, RunRecorded DEF r
<1>15. ASSUME NEW c \in Clients, ControlHeard(c) PROVE BudgetInv'
  <2> DEFINE r == task[c].run
  <2>1. task[c].kind \in {"status", "cancel"} /\ r \in Runs
    BY <1>15, BudgetShapes DEF ControlHeard
  <2>2. /\ task'[c].kind = task[c].kind /\ task'[c].run = r /\ task'[c].heard = job[r]
        /\ \A d \in Clients : d # c => task'[d] = task[d]
        /\ UNCHANGED <<previewed, seen, used, runs, world, posts, job, bill, stale>>
    BY <1>15, BudgetShapes DEF ControlHeard, StateOf, AnyOp, ledger, bigquery
  <2>3. QED
    BY <2>1, <2>2, OpMoved
<1>16. ASSUME NEW c \in Clients, ControlFails(c) PROVE BudgetInv'
  BY <1>16, BudgetShapes, BudgetAssumption
     DEF BudgetAssumption, RunRecords, States, AnyOp, Points, Heard, Aspects, Terminal, ledger, bigquery,
         BudgetInv, RunsAreUsed, OwnRun, NothingSent, HeardIsTrue, StaleIsCaught, ReservationCovers,
         OneJobPerApproval, Liability, BeforeDispatch, AfterDispatch, Checks, ControlFails, EndTask, NoTask
<1>17. ASSUME NEW c \in Clients, StatusDone(c) PROVE BudgetInv'
  <2> DEFINE r == task[c].run
  <2>1. task[c].kind = "status"
    BY <1>17 DEF StatusDone, Executing
  <2>2. r \in Runs /\ runs[r] \in RunRecords /\ bill[r] \in Nat
    BY <2>1, BudgetShapes
  <2>3. runs[r].state # "free" /\ runs[r].job
    BY <2>1, <2>2 DEF BudgetInv, RunsAreUsed, NoRun, OwnRun, HeardIsTrue
  <2>4. /\ runs'[r].preview = runs[r].preview
        /\ runs'[r].state \in {runs[r].state} \cup Terminal /\ runs'[r].job = runs[r].job
        /\ runs'[r].reservation = runs[r].reservation \/
             (runs'[r].reservation = bill[r] /\ task[c].heard \in Terminal)
        /\ \A s \in Runs : s # r => runs'[s] = runs[s]
    BY <1>17, <2>2, BudgetShapes DEF RunRecords, StatusDone, EndTask, NoTask, BilledOrReserved, bigquery
  <2>5. /\ task'[c] = NoTask /\ \A d \in Clients : d # c => task'[d] = task[d]
        /\ UNCHANGED <<previewed, seen, used, world, posts, job, bill, stale>>
    BY <1>17, BudgetShapes DEF AnyOp, StatusDone, EndTask, NoTask, BilledOrReserved, bigquery
  <2>6. runs' \in [Runs -> RunRecords]
    BY BudgetTypeInductive DEF BudgetTypeOK
  <2>7. /\ runs[r].preview \in Previews /\ Cap[runs[r].preview] \in Nat
        /\ runs[r].reservation \in 0..Cap[runs[r].preview] /\ Liability(r) <= runs[r].reservation
    BY <2>2, <2>3, BudgetShapes, BudgetAssumption DEF BudgetAssumption, BudgetInv, RunsAreUsed, ReservationCovers
  <2>8. job[r] # "none" /\ \A d \in Clients : task[d].kind = "execute" /\ task[d].run = r
                               => task[d].at \notin BeforeDispatch
    BY <2>2, <2>3 DEF BudgetInv, NothingSent
  <2>9. task[c].heard \in Terminal => r \notin posts /\ job[r] # "running"
    BY <2>1, <2>2, <2>8 DEF BudgetInv, HeardIsTrue, NothingSent, Terminal
  <2>10. Liability(r) <= runs'[r].reservation /\ runs'[r].reservation <= Cap[runs[r].preview]
    BY <2>2, <2>4, <2>7, <2>8, <2>9 DEF Liability
  <2> HIDE DEF r
  <2>11. runs'[r].state # "free" /\ (runs'[r].job => job[r] # "none") /\ (runs[r].job => runs'[r].job)
    BY <2>1, <2>3, <2>4, <2>8, <2>9 DEF Terminal
  <2>12. QED
    BY <2>1, <2>2, <2>3, <2>4, <2>5, <2>6, <2>8, <2>9, <2>10, <2>11, RunRecorded DEF r
<1>18. ASSUME NEW c \in Clients, CancelDone(c) PROVE BudgetInv'
  <2> DEFINE r == task[c].run
  <2>1. task[c].kind = "cancel"
    BY <1>18 DEF CancelDone, Executing
  <2>2. r \in Runs /\ runs[r] \in RunRecords /\ bill[r] \in Nat
    BY <2>1, BudgetShapes
  <2>3. runs[r].state # "free" /\ runs[r].job
    BY <2>1, <2>2 DEF BudgetInv, RunsAreUsed, NoRun, OwnRun, HeardIsTrue
  <2>4. /\ runs'[r].preview = runs[r].preview
        /\ runs'[r].state \in {runs[r].state, "cancel_requested"} /\ runs'[r].job = runs[r].job
        /\ runs'[r].reservation = runs[r].reservation
        /\ \A s \in Runs : s # r => runs'[s] = runs[s]
    BY <1>18, <2>2, BudgetShapes DEF RunRecords, CancelDone, EndTask, NoTask, Record, bigquery
  <2>5. /\ task'[c] = NoTask /\ \A d \in Clients : d # c => task'[d] = task[d]
        /\ UNCHANGED <<previewed, seen, used, world, posts, job, bill, stale>>
    BY <1>18, BudgetShapes DEF AnyOp, CancelDone, EndTask, NoTask, Record, bigquery
  <2>6. runs' \in [Runs -> RunRecords]
    BY BudgetTypeInductive DEF BudgetTypeOK
  <2>7. /\ runs[r].preview \in Previews /\ Cap[runs[r].preview] \in Nat
        /\ runs[r].reservation \in 0..Cap[runs[r].preview] /\ Liability(r) <= runs[r].reservation
    BY <2>2, <2>3, BudgetShapes, BudgetAssumption DEF BudgetAssumption, BudgetInv, RunsAreUsed, ReservationCovers
  <2>8. runs[r].job => job[r] # "none"
    BY <2>2 DEF BudgetInv, NothingSent
  <2>9. Liability(r) <= runs'[r].reservation /\ runs'[r].reservation <= Cap[runs[r].preview]
    BY <2>2, <2>4, <2>7, <2>8 DEF Liability
  <2> HIDE DEF r
  <2>10. runs'[r].state # "free" /\ (runs'[r].job => job[r] # "none") /\ (runs[r].job => runs'[r].job)
    BY <2>1, <2>3, <2>4, <2>8 DEF Terminal
  <2>11. QED
    BY <2>1, <2>2, <2>3, <2>4, <2>5, <2>6, <2>8, <2>9, <2>10, RunRecorded DEF r
<1>19. ASSUME NEW c \in Clients, TabGone(c) PROVE BudgetInv'
  BY <1>19, BudgetShapes, BudgetAssumption
     DEF BudgetAssumption, RunRecords, States, AnyOp, Points, Heard, Aspects, Terminal, ledger, bigquery,
         BudgetInv, RunsAreUsed, OwnRun, NothingSent, HeardIsTrue, StaleIsCaught, ReservationCovers,
         OneJobPerApproval, Liability, BeforeDispatch, AfterDispatch, Checks, TabGone, EndTask, NoTask
<1>20. ASSUME NEW r \in Runs, Accept(r) PROVE BudgetInv'
  BY <1>20, BudgetShapes, BudgetAssumption
     DEF BudgetAssumption, RunRecords, States, AnyOp, Points, Heard, Aspects, Terminal, ledger, bigquery,
         BudgetInv, RunsAreUsed, OwnRun, NothingSent, HeardIsTrue, StaleIsCaught, ReservationCovers,
         OneJobPerApproval, Liability, BeforeDispatch, AfterDispatch, Checks, Accept
<1>21. ASSUME NEW r \in Runs, Refuse(r) PROVE BudgetInv'
  BY <1>21, BudgetShapes, BudgetAssumption
     DEF BudgetAssumption, RunRecords, States, AnyOp, Points, Heard, Aspects, Terminal, ledger, bigquery,
         BudgetInv, RunsAreUsed, OwnRun, NothingSent, HeardIsTrue, StaleIsCaught, ReservationCovers,
         OneJobPerApproval, Liability, BeforeDispatch, AfterDispatch, Checks, Refuse
<1>22. ASSUME NEW r \in Runs, Finish(r) PROVE BudgetInv'
  BY <1>22, BudgetShapes, BudgetAssumption
     DEF BudgetAssumption, RunRecords, States, AnyOp, Points, Heard, Aspects, Terminal, ledger, bigquery,
         BudgetInv, RunsAreUsed, OwnRun, NothingSent, HeardIsTrue, StaleIsCaught, ReservationCovers,
         OneJobPerApproval, Liability, BeforeDispatch, AfterDispatch, Checks, Finish
<1>23. ASSUME NEW a \in Aspects, Change(a) PROVE BudgetInv'
  BY <1>23, BudgetShapes, BudgetAssumption
     DEF BudgetAssumption, RunRecords, States, AnyOp, Points, Heard, Aspects, Terminal, ledger, bigquery,
         BudgetInv, RunsAreUsed, OwnRun, NothingSent, HeardIsTrue, StaleIsCaught, ReservationCovers,
         OneJobPerApproval, Liability, BeforeDispatch, AfterDispatch, Checks, Change
<1>24. CASE UNCHANGED budgetVars
  BY <1>24, BudgetShapes, BudgetAssumption
     DEF BudgetAssumption, RunRecords, States, AnyOp, Points, Heard, Aspects, Terminal, ledger, bigquery,
         BudgetInv, RunsAreUsed, OwnRun, NothingSent, HeardIsTrue, StaleIsCaught, ReservationCovers,
         OneJobPerApproval, Liability, BeforeDispatch, AfterDispatch, Checks, budgetVars
<1>25. QED
  BY <1>1, <1>2, <1>3, <1>4, <1>5, <1>6, <1>7, <1>8, <1>9, <1>10, <1>11, <1>12, <1>13, <1>14, <1>15, <1>16, <1>17, <1>18, <1>19, <1>20, <1>21, <1>22, <1>23, <1>24
     DEF BudgetNext, ExecuteStep, ControlStep

-----------------------------------------------------------------------------

\* A new ledger is empty.
LEMMA BudgetStarts == BudgetInit => BudgetTypeOK /\ BudgetInv
<1> SUFFICES ASSUME BudgetInit PROVE BudgetTypeOK /\ BudgetInv
  OBVIOUS
<1>1. BudgetTypeOK
  <2>1. NoRun \in RunRecords /\ NoTask \in Tasks
    BY DEF NoRun, RunRecords, States, Tasks
  <2>2. QED
    BY <2>1, BudgetAssumption
       DEF BudgetAssumption, BudgetInit, BudgetTypeOK, Heard, Aspects
<1>2. BudgetInv
  BY BudgetAssumption
     DEF BudgetAssumption, BudgetInit, NoRun, NoTask, BudgetInv, RunsAreUsed, OwnRun, NothingSent,
         HeardIsTrue, StaleIsCaught, ReservationCovers, OneJobPerApproval, Liability, Terminal,
         Aspects
<1>3. QED
  BY <1>1, <1>2

\* The ledger's records and what clients await keep their shape
\* (ledger.ts 46-53, client.ts 255-333 and 587-672).
THEOREM BudgetTypeCorrect == BudgetSpec => []BudgetTypeOK
<1>1. BudgetInit => BudgetTypeOK
  BY BudgetStarts
<1>2. QED
  BY <1>1, BudgetTypeInductive, PTL DEF BudgetSpec

\* The inductive invariant holds of every behaviour.
THEOREM BudgetInvariant == BudgetSpec => []BudgetInv
<1>1. BudgetInit => BudgetTypeOK /\ BudgetInv
  BY BudgetStarts
<1>2. BudgetTypeOK /\ BudgetInv /\ [BudgetNext]_budgetVars => (BudgetTypeOK /\ BudgetInv)'
  BY BudgetTypeInductive, BudgetInvInductive
<1>3. QED
  BY <1>1, <1>2, PTL DEF BudgetSpec

\* What a run has been billed, or may still be billed by a request that is on
\* its way or a job that runs, is never more than what the ledger reserves for
\* it (client.ts 322-331 and 628-640).
THEOREM BudgetReservationCovers == BudgetSpec => []ReservationCovers
<1>1. BudgetInv => ReservationCovers
  BY DEF BudgetInv
<1>2. QED
  BY <1>1, BudgetInvariant, PTL

\* No two runs are of the same preview, whoever holds approved of it and
\* however often it is tried (client.ts 260-289).
THEOREM BudgetOneJobPerApproval == BudgetSpec => []OneJobPerApproval
<1>1. BudgetInv => OneJobPerApproval
  BY DEF BudgetInv
<1>2. QED
  BY <1>1, BudgetInvariant, PTL

\* A run whose policy or source had changed when it was reserved is never
\* submitted: no request of it leaves and no job of it exists (client.ts
\* 296-311).
THEOREM BudgetSubmitsApproved == BudgetSpec => []SubmitsApproved
<1>1. BudgetInv => SubmitsApproved
  BY DEF BudgetInv, StaleIsCaught, SubmitsApproved
<1>2. QED
  BY <1>1, BudgetInvariant, PTL

-----------------------------------------------------------------------------
(* The budget as a whole.  A run that is made adds its cap to what is       *)
(* reserved, which HasRoom allows for; nothing else makes a reservation     *)
(* larger; and what BigQuery may bill is covered, run by run.               *)

\* The bytes of a reservation are as many as its amount.
LEMMA BytesAreCounted ==
  ASSUME NEW r, NEW amount \in Nat
  PROVE  IsFiniteSet(Bytes(r, amount)) /\ Cardinality(Bytes(r, amount)) = amount
<1> DEFINE f == [i \in 1..amount |-> <<r, i>>]
<1>1. f \in Bijection(1..amount, Bytes(r, amount))
  <2>1. f \in [1..amount -> Bytes(r, amount)]
    BY DEF Bytes
  <2>2. \A i, j \in 1..amount : f[i] = f[j] => i = j
    OBVIOUS
  <2>3. \A b \in Bytes(r, amount) : \E i \in 1..amount : f[i] = b
    BY DEF Bytes
  <2> HIDE DEF f
  <2>4. QED
    BY <2>1, <2>2, <2>3, Zenon DEF IsInjective, Bijection, Injection, Surjection
<1>2. IsFiniteSet(1..amount) /\ Cardinality(1..amount) = amount
  BY FS_Interval
<1>3. QED
  BY <1>1, <1>2, FS_Bijection DEF ExistsBijection

\* Finitely many open reservations add up to a number.
LEMMA ReservedIsFinite ==
  ASSUME BudgetTypeOK, IsFiniteSet({r \in Runs : runs[r].state # "free"}), NEW p \in Previews
  PROVE  IsFiniteSet(ReservedBytes(p)) /\ Reserved(p) \in Nat
<1> DEFINE of == Reservations(p)
           each == {Bytes(r, runs[r].reservation) : r \in of}
           f == [r \in of |-> Bytes(r, runs[r].reservation)]
<1>1. IsFiniteSet(of)
  <2>1. of \subseteq {r \in Runs : runs[r].state # "free"}
    BY DEF Reservations, SharesBudget
  <2>2. QED
    BY <2>1, FS_Subset
<1>2. f \in Surjection(of, each)
  BY DEF Surjection
<1>3. IsFiniteSet(each)
  BY <1>1, <1>2, FS_Surjection
<1>4. \A r \in of : runs[r].reservation \in Nat
  BY BudgetShapes DEF RunRecords, Reservations
<1>5. \A S \in each : IsFiniteSet(S)
  BY <1>4, BytesAreCounted
<1>6. IsFiniteSet(UNION each)
  BY <1>3, <1>5, FS_UNION
<1>7. QED
  BY <1>6, FS_CardinalityType DEF ReservedBytes, Reserved

\* Fewer bytes of no more runs.
LEMMA FewerBytes ==
  ASSUME NEW r, NEW few \in Nat, NEW many \in Nat, few <= many
  PROVE  Bytes(r, few) \subseteq Bytes(r, many)
BY DEF Bytes

\* No step but Execute opens a reservation or makes one larger.
LEMMA ReservationsShrink ==
  ASSUME BudgetTypeOK, BudgetInv, [BudgetNext]_budgetVars,
         \A c \in Clients, p \in Previews, r \in Runs : ~Execute(c, p, r)
  PROVE  \A r \in Runs : /\ runs'[r].preview = runs[r].preview
                         /\ runs'[r].state = "free" <=> runs[r].state = "free"
                         /\ runs'[r].reservation <= runs[r].reservation
<1> DEFINE Shrunk == \A r \in Runs : /\ runs'[r].preview = runs[r].preview
                                     /\ runs'[r].state = "free" <=> runs[r].state = "free"
                                     /\ runs'[r].reservation <= runs[r].reservation
<1>1. /\ runs \in [Runs -> RunRecords] /\ bill \in [Runs -> Nat]
      /\ \A r \in Runs : runs[r].reservation \in Nat /\ runs[r].reservation <= runs[r].reservation
      /\ \A c \in Clients : task[c].kind # "idle" => task[c].run \in Runs
  BY BudgetShapes DEF RunRecords
<1>2. CASE UNCHANGED runs
  BY <1>1, <1>2
<1>3. ASSUME NEW r \in Runs, runs[r].state # "free", NEW state \in States \ {"free"}, NEW bytes \in Nat,
             bytes <= runs[r].reservation,
             \/ runs' = [runs EXCEPT ![r].state = state]
             \/ runs' = [runs EXCEPT ![r].state = state, ![r].reservation = bytes]
             \/ runs' = [runs EXCEPT ![r].state = state, ![r].job = TRUE]
      PROVE  Shrunk
  <2>1. \A s \in Runs \ {r} : runs'[s] = runs[s]
    BY <1>1, <1>3
  <2>2. runs[r] \in RunRecords
    BY <1>1
  <2>3. runs'[r].preview = runs[r].preview /\ runs'[r].state = state /\ runs'[r].reservation <= runs[r].reservation
    BY <1>1, <1>3, <2>2 DEF RunRecords
  <2>4. QED
    BY <1>1, <1>3, <2>1, <2>3
<1>4. {"submitting", "running", "failed", "submission_unknown", "cancel_requested"} \cup Terminal \subseteq States \ {"free"}
  BY DEF States, Terminal
<1>5. ASSUME NEW c \in Clients, task[c].kind = "execute" PROVE task[c].run \in Runs /\ runs[task[c].run].state # "free"
  BY <1>5 DEF BudgetInv, OwnRun
<1>6. ASSUME NEW c \in Clients, task[c].kind \in {"status", "cancel"} PROVE task[c].run \in Runs /\ runs[task[c].run].state # "free"
  BY <1>6 DEF BudgetInv, HeardIsTrue, RunsAreUsed, NoRun
<1>7. ASSUME NEW c \in Clients, Submitting(c) PROVE Shrunk
  BY <1>1, <1>3, <1>4, <1>5, <1>7 DEF Submitting, Executing, Record
<1>8. ASSUME NEW c \in Clients, Answered(c) PROVE Shrunk
  BY <1>1, <1>3, <1>4, <1>5, <1>8 DEF Answered, Executing
<1>9. ASSUME NEW c \in Clients, RecordFailed(c) PROVE Shrunk
  <2>1. task[c].run \in Runs /\ runs[task[c].run].state # "free"
    BY <1>5, <1>9 DEF RecordFailed, Executing
  <2>2. runs' = [runs EXCEPT ![task[c].run].state = "failed", ![task[c].run].reservation = 0]
    BY <1>9 DEF RecordFailed
  <2>3. 0 <= runs[task[c].run].reservation
    BY <1>1, <2>1
  <2>4. QED
    BY <1>3, <1>4, <2>1, <2>2, <2>3
<1>10. ASSUME NEW c \in Clients, RecordDoubtful(c) PROVE Shrunk
  BY <1>1, <1>2, <1>3, <1>4, <1>5, <1>10 DEF RecordDoubtful, Executing, Record
<1>11. ASSUME NEW c \in Clients, StatusDone(c) PROVE Shrunk
  <2> DEFINE r == task[c].run
  <2>1. task[c].kind = "status" /\ r \in Runs /\ runs[r].state # "free"
    BY <1>6, <1>11 DEF StatusDone
  <2>2. CASE UNCHANGED runs
    BY <1>2, <2>2
  <2>3. CASE ~UNCHANGED runs
    <3>1. task[c].heard \in Terminal
      BY <1>11, <2>3 DEF StatusDone
    <3>2. job[r] = task[c].heard /\ r \notin posts /\ job[r] # "running"
      BY <2>1, <3>1 DEF BudgetInv, HeardIsTrue, NothingSent, Terminal
    <3>3. bill[r] \in Nat /\ bill[r] <= runs[r].reservation
      BY <1>1, <2>1, <3>2 DEF BudgetInv, ReservationCovers, Liability
    <3>4. PICK bytes \in BilledOrReserved(r) :
            runs' = [runs EXCEPT ![r].state = task[c].heard, ![r].reservation = bytes]
      BY <1>11, <2>3 DEF StatusDone
    <3>5. bytes \in Nat /\ bytes <= runs[r].reservation
      BY <1>1, <2>1, <3>3 DEF BilledOrReserved
    <3>6. QED
      BY <1>3, <1>4, <2>1, <3>1, <3>4, <3>5
  <2>4. QED
    BY <2>2, <2>3
<1>12. ASSUME NEW c \in Clients, CancelDone(c) PROVE Shrunk
  BY <1>1, <1>2, <1>3, <1>4, <1>6, <1>12 DEF CancelDone, Record
<1>13. UNCHANGED runs \/ \E c \in Clients : Submitting(c) \/ Answered(c) \/ RecordFailed(c) \/ RecordDoubtful(c)
                                            \/ StatusDone(c) \/ CancelDone(c)
  BY DEF BudgetNext, ExecuteStep, ControlStep, budgetVars, ledger, bigquery, Preview, Approve, Control, Lease, Check,
         Dispatch, Executed, FailsUndone, FailsDoubtful, ControlHeard, ControlFails, TabGone, Accept, Refuse,
         Finish, Change
<1>14. QED
  BY <1>2, <1>7, <1>8, <1>9, <1>10, <1>11, <1>12, <1>13

\* A new run takes its cap of the budget that HasRoom found free.
LEMMA ExecuteWithinBudget ==
  ASSUME BudgetTypeOK, BudgetInv, ReservedWithinBudget,
         NEW c \in Clients, NEW q \in Previews, NEW r \in Runs, Execute(c, q, r)
  PROVE  ReservedWithinBudget'
<1>1. /\ runs \in [Runs -> RunRecords] /\ Cap[q] \in Nat /\ Budget \in [Previews -> Nat]
      /\ runs[r].state = "free" /\ IsFiniteSet({s \in Runs : runs[s].state # "free"})
  BY BudgetShapes, BudgetAssumption DEF BudgetAssumption, ReservedWithinBudget, Execute, NoRun
<1>2. /\ runs'[r].preview = q /\ runs'[r].state = "reserved" /\ runs'[r].reservation = Cap[q]
      /\ \A s \in Runs \ {r} : runs'[s] = runs[s]
  BY <1>1 DEF Execute
<1>3. IsFiniteSet({s \in Runs : runs[s].state # "free"}')
  <2>1. {s \in Runs : runs'[s].state # "free"} = {s \in Runs : runs[s].state # "free"} \cup {r}
    BY <1>1, <1>2
  <2>2. QED
    BY <1>1, <2>1, FS_AddElement
<1>4. ASSUME NEW p \in Previews, \A s \in Reservations(p)' : Budget[runs'[s].preview] = Budget[p]
      PROVE  Reservations(p)' # {} => Reserved(p)' <= Budget[p]
  <2>1. CASE Account[p] # Account[q]
    <3>1. Reservations(p)' = Reservations(p)
      BY <1>1, <1>2, <2>1 DEF Reservations, SharesBudget
    <3>2. \A s \in Reservations(p) : runs'[s] = runs[s]
      BY <1>1, <1>2 DEF Reservations, SharesBudget
    <3>3. Reserved(p)' = Reserved(p)
      BY <3>1, <3>2 DEF Reserved, ReservedBytes
    <3>4. QED
      BY <1>4, <3>1, <3>2, <3>3 DEF ReservedWithinBudget
  <2>2. CASE Account[p] = Account[q]
    <3>1. Reservations(p)' = Reservations(q) \cup {r} /\ r \notin Reservations(q)
      BY <1>1, <1>2, <2>2 DEF Reservations, SharesBudget
    <3>2. \A s \in Reservations(q) : runs'[s] = runs[s]
      BY <1>1, <1>2 DEF Reservations, SharesBudget
    <3>3. ReservedBytes(p)' = ReservedBytes(q) \cup Bytes(r, Cap[q])
      BY <1>2, <3>1, <3>2 DEF ReservedBytes
    <3>4. ReservedBytes(q) \cap Bytes(r, Cap[q]) = {}
      BY <3>1 DEF ReservedBytes, Bytes
    <3>5. /\ IsFiniteSet(ReservedBytes(q)) /\ Reserved(q) \in Nat
          /\ IsFiniteSet(Bytes(r, Cap[q])) /\ Cardinality(Bytes(r, Cap[q])) = Cap[q]
      BY <1>1, ReservedIsFinite, BytesAreCounted
    <3>6. Cardinality(ReservedBytes(q) \cup Bytes(r, Cap[q])) = Reserved(q) + Cap[q]
      <4>1. Cardinality(ReservedBytes(q) \cap Bytes(r, Cap[q])) = 0
        BY <3>4, FS_EmptySet, Zenon
      <4>2. Cardinality(ReservedBytes(q) \cup Bytes(r, Cap[q]))
              = Cardinality(ReservedBytes(q)) + Cardinality(Bytes(r, Cap[q])) - Cardinality(ReservedBytes(q) \cap Bytes(r, Cap[q]))
        BY <3>5, FS_Union
      <4>3. QED
        BY <1>1, <3>5, <4>1, <4>2 DEF Reserved
    <3>7. Budget[p] = Budget[q]
      BY <1>2, <1>4, <3>1
    <3>8. Reserved(q) + Cap[q] <= Budget[q]
      BY DEF Execute, HasRoom
    <3>9. QED
      BY <3>3, <3>6, <3>7, <3>8 DEF Reserved
  <2>3. QED
    BY <2>1, <2>2
<1>5. QED
  BY <1>3, <1>4 DEF ReservedWithinBudget

\* One case per action: what is reserved and billed stays within the budget.
LEMMA ReservedWithinBudgetInductive ==
  BudgetTypeOK /\ BudgetInv /\ ReservedWithinBudget /\ [BudgetNext]_budgetVars => ReservedWithinBudget'
<1> SUFFICES ASSUME BudgetTypeOK, BudgetInv, ReservedWithinBudget, [BudgetNext]_budgetVars
             PROVE  ReservedWithinBudget'
  OBVIOUS
<1>1. CASE \E c \in Clients, q \in Previews, r \in Runs : Execute(c, q, r)
  BY <1>1, ExecuteWithinBudget
<1>2. CASE \A c \in Clients, q \in Previews, r \in Runs : ~Execute(c, q, r)
  <2>1. \A r \in Runs : /\ runs'[r].preview = runs[r].preview
                        /\ runs'[r].state = "free" <=> runs[r].state = "free"
                        /\ runs'[r].reservation <= runs[r].reservation
    BY <1>2, ReservationsShrink
  <2>2. \A r \in Runs : runs[r].reservation \in Nat /\ runs'[r].reservation \in Nat
    <3>1. BudgetTypeOK'
      BY BudgetTypeInductive
    <3>2. runs \in [Runs -> RunRecords] /\ runs' \in [Runs -> RunRecords]
      BY <3>1 DEF BudgetTypeOK
    <3>3. QED
      BY <3>2 DEF RunRecords
  <2>3. \A p \in Previews : Reservations(p)' = Reservations(p)
    BY <2>1 DEF Reservations, SharesBudget
  <2>4. {r \in Runs : runs[r].state # "free"}' = {r \in Runs : runs[r].state # "free"}
    BY <2>1
  <2>5. ASSUME NEW p \in Previews PROVE Reserved(p)' <= Reserved(p) /\ Reserved(p)' \in Nat /\ Reserved(p) \in Nat
    <3>1. ReservedBytes(p)' \subseteq ReservedBytes(p)
      <4>1. \A r \in Reservations(p) : Bytes(r, runs'[r].reservation) \subseteq Bytes(r, runs[r].reservation)
        BY <2>1, <2>2, FewerBytes DEF Reservations
      <4>2. QED
        BY <2>3, <4>1 DEF ReservedBytes
    <3>2. IsFiniteSet(ReservedBytes(p)) /\ Reserved(p) \in Nat
      BY ReservedIsFinite DEF ReservedWithinBudget
    <3>3. Cardinality(ReservedBytes(p)') <= Cardinality(ReservedBytes(p)) /\ Cardinality(ReservedBytes(p)') \in Nat
      BY <3>1, <3>2, FS_Subset, FS_CardinalityType
    <3>4. QED
      BY <3>2, <3>3 DEF Reserved
  <2>6. ASSUME NEW p \in Previews, Reservations(p)' # {},
               \A r \in Reservations(p)' : Budget[runs'[r].preview] = Budget[p]
        PROVE  Reserved(p)' <= Budget[p]
    <3>1. Reservations(p) # {} /\ \A r \in Reservations(p) : Budget[runs[r].preview] = Budget[p]
      BY <2>1, <2>3, <2>6 DEF Reservations
    <3>2. Reserved(p) <= Budget[p] /\ Budget[p] \in Nat
      BY <3>1, BudgetAssumption DEF ReservedWithinBudget, BudgetAssumption
    <3>3. QED
      BY <2>5, <3>2
  <2>7. QED
    BY <2>4, <2>6 DEF ReservedWithinBudget
<1>3. QED
  BY <1>1, <1>2

\* The session's cost stays within its budget: for every set of clients, runs
\* and previews, and for every budget and caps (client.ts 267-276, 322-331, 637).
THEOREM BudgetBilledWithinBudget == BudgetSpec => []BilledWithinBudget
<1>1. BudgetInit => BudgetTypeOK /\ BudgetInv /\ ReservedWithinBudget
  <2> SUFFICES ASSUME BudgetInit PROVE ReservedWithinBudget
    BY BudgetStarts
  <2>1. \A r \in Runs : runs[r].state = "free"
    BY DEF BudgetInit, NoRun
  <2>2. {r \in Runs : runs[r].state # "free"} = {}
    BY <2>1
  <2>3. \A p \in Previews : Reservations(p) = {}
    BY <2>1 DEF Reservations, SharesBudget
  <2>4. QED
    BY <2>2, <2>3, FS_EmptySet DEF ReservedWithinBudget
<1>2. BudgetTypeOK /\ BudgetInv /\ ReservedWithinBudget /\ [BudgetNext]_budgetVars
      => (BudgetTypeOK /\ BudgetInv /\ ReservedWithinBudget)'
  BY BudgetTypeInductive, BudgetInvInductive, ReservedWithinBudgetInductive
<1>3. BudgetTypeOK /\ BudgetInv /\ ReservedWithinBudget => BilledWithinBudget
  <2> SUFFICES ASSUME BudgetTypeOK, BudgetInv, ReservedWithinBudget, NEW p \in Previews,
                      Reservations(p) # {}, \A r \in Reservations(p) : Budget[runs[r].preview] = Budget[p]
               PROVE  Cardinality(LiableBytes(p)) <= Budget[p]
    BY DEF BilledWithinBudget
  <2>1. \A r \in Reservations(p) : /\ Liability(r) \in Nat /\ runs[r].reservation \in Nat
                                   /\ Liability(r) <= runs[r].reservation
    <3>1. ASSUME NEW r \in Reservations(p)
          PROVE  Liability(r) \in Nat /\ runs[r].reservation \in Nat /\ Liability(r) <= runs[r].reservation
      <4>1. r \in Runs /\ runs[r].state # "free"
        BY <3>1 DEF Reservations, SharesBudget
      <4>2. runs[r].preview \in Previews /\ bill[r] \in Nat /\ runs[r].reservation \in Nat
        BY <4>1, BudgetShapes DEF BudgetInv, RunsAreUsed, RunRecords
      <4>3. Cap[runs[r].preview] \in Nat
        BY <4>2, BudgetAssumption DEF BudgetAssumption
      <4>4. Liability(r) \in Nat
        BY <4>2, <4>3 DEF Liability
      <4>5. QED
        BY <4>1, <4>2, <4>4 DEF BudgetInv, ReservationCovers
    <3>2. QED
      BY <3>1
  <2>2. LiableBytes(p) \subseteq ReservedBytes(p)
    <3>1. \A r \in Reservations(p) : Bytes(r, Liability(r)) \subseteq Bytes(r, runs[r].reservation)
      BY <2>1, FewerBytes
    <3>2. QED
      BY <3>1 DEF LiableBytes, ReservedBytes
  <2>3. IsFiniteSet(ReservedBytes(p)) /\ Reserved(p) \in Nat
    BY ReservedIsFinite DEF ReservedWithinBudget
  <2>4. Cardinality(LiableBytes(p)) <= Reserved(p) /\ Cardinality(LiableBytes(p)) \in Nat
    BY <2>2, <2>3, FS_Subset, FS_CardinalityType DEF Reserved
  <2>5. Reserved(p) <= Budget[p] /\ Budget[p] \in Nat
    BY BudgetAssumption DEF ReservedWithinBudget, BudgetAssumption
  <2>6. QED
    BY <2>3, <2>4, <2>5
<1>4. QED
  BY <1>1, <1>2, <1>3, PTL DEF BudgetSpec
=============================================================================
