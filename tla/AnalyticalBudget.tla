-------------------------- MODULE AnalyticalBudget --------------------------
(***************************************************************************)
(* packages/bigquery/src/analytical: from a preview to a billed job.       *)
(* Clients (tabs) share a durable ledger (ledger.ts): its update() is      *)
(* atomic, its lease on a run excludes other operations on that run and    *)
(* goes with its tab.  A client previews a query, has it approved, reserves *)
(* its cap in the session's budget and submits it once; status() replaces  *)
(* the reservation by what BigQuery billed, cancel() asks for less.        *)
(*                                                                         *)
(* An action is the code between two awaits.  An await may reject (a       *)
(* deadline, an abort, an expired token or approval): such a failure is an *)
(* action of its own.  What the policy and the source say is a version.    *)
(***************************************************************************)
EXTENDS Naturals, FiniteSets, AnalyticalClients

CONSTANTS Previews, Runs,
          Account,      \* the budget key of a preview: principal and job project
          Budget, Cap,  \* its sessionBudgetBytes and maximumBytesBilled
          MaxChanges    \* bound: changes of the policy and of the source

ASSUME BudgetAssumption ==
  /\ Budget \in [Previews -> Nat] /\ Cap \in [Previews -> Nat]
  /\ MaxChanges \in Nat /\ None \notin Runs /\ None \notin Previews

VARIABLES previewed, seen,  \* previews in the ledger, and the versions they saw
          used,             \* previews that a run was made of
          runs,             \* the run records of the ledger
          approved,         \* previews that a client holds an approval of
          task,             \* what a client awaits
          world,            \* policy and source, as they are now
          posts, job, bill, \* BigQuery: requests on their way, jobs, bytes billed
          stale             \* history: runs reserved when the world had changed

ledger == <<previewed, seen, used, runs>>
bigquery == <<posts, job, bill>>
budgetVars == <<ledger, approved, task, world, bigquery, stale>>

Aspects == {"policy", "source"}
Terminal == {"completed", "failed", "cancelled"}
NoRun == [preview |-> None, state |-> "free", reservation |-> 0, job |-> FALSE]
NoTask == [kind |-> "idle", run |-> None, at |-> "none", heard |-> "none"]

BudgetInit ==
  /\ previewed = {} /\ approved = {} /\ used = {} /\ stale = {}
  /\ seen = [p \in Previews |-> [a \in Aspects |-> 0]]
  /\ runs = [r \in Runs |-> NoRun]
  /\ task = [c \in Clients |-> NoTask]
  /\ world = [a \in Aspects |-> 0]
  /\ posts = {} /\ job = [r \in Runs |-> "none"] /\ bill = [r \in Runs |-> 0]

Executing(c, at) == task[c].kind = "execute" /\ task[c].at = at
MoveTo(c, at) == task' = [task EXCEPT ![c].at = at]
EndTask(c) == task' = [task EXCEPT ![c] = NoTask]
Record(r, state) == runs' = [runs EXCEPT ![r].state = state]

\* The ledger's lease on a run: not yet taken, or given back, at these points.
Held(r) == \E c \in Clients : task[c].run = r /\ task[c].at \notin {"start", "undone", "doubtful"}

-----------------------------------------------------------------------------
(* preview() and approve()                                                 *)

\* The policy is read before the source; a preview that sees versions that were
\* never current together is as good as one made before the change.
Preview(p) ==
  /\ p \notin previewed
  /\ previewed' = previewed \cup {p}
  /\ seen' = [seen EXCEPT ![p] = world]
  /\ UNCHANGED <<used, runs, approved, task, world, bigquery, stale>>

\* An approval belongs to the client that asked for it and is not spent by a use.
\* Until then any client can ask for one, so that they need not be told apart.
Approve(p) ==
  /\ p \in previewed \ used
  /\ approved' = approved \cup {p}
  /\ UNCHANGED <<ledger, task, world, bigquery, stale>>

-----------------------------------------------------------------------------
(* execute()                                                               *)

SharesBudget(r, p) == runs[r].state # "free" /\ Account[runs[r].preview] = Account[p]
Reservations(p) == {r \in Runs : SharesBudget(r, p)}

\* A sum is the number of bytes, each of its run.
Bytes(r, amount) == {<<r, i>> : i \in 1..amount}
ReservedBytes(p) == UNION {Bytes(r, runs[r].reservation) : r \in Reservations(p)}
Reserved(p) == Cardinality(ReservedBytes(p))

\* (Bug: the new cap is not part of the sum.)
HasRoomNow(p) ==
  /\ \A r \in Reservations(p) : Budget[runs[r].preview] = Budget[p]
  /\ Reserved(p) <= Budget[p]

HasRoom(p) ==
  /\ \A r \in Reservations(p) : Budget[runs[r].preview] = Budget[p]
  /\ Reserved(p) + Cap[p] <= Budget[p]

\* (Bug: the ledger does not ask again whether the preview was used.)
StoredPreview(p) == p \in previewed

Unused(p) == p \in previewed \ used

\* One update of the ledger: the preview is used up and its cap reserved.
Execute(c, p, r) ==
  /\ task[c] = NoTask /\ p \in approved /\ runs[r] = NoRun
  /\ Unused(p) /\ HasRoom(p)
  /\ used' = used \cup {p}
  /\ runs' = [runs EXCEPT ![r] =
       [preview |-> p, state |-> "reserved", reservation |-> Cap[p], job |-> FALSE]]
  /\ task' = [task EXCEPT ![c] = [kind |-> "execute", run |-> r, at |-> "start", heard |-> "none"]]
  /\ stale' = IF world = seen[p] THEN stale ELSE stale \cup {r}
  /\ UNCHANGED <<previewed, seen, approved, world, bigquery>>

Lease(c) ==
  /\ Executing(c, "start") /\ ~Held(task[c].run)
  /\ MoveTo(c, "policy")
  /\ UNCHANGED <<ledger, approved, world, bigquery, stale>>

\* reauthorize, observe and estimate, observe, reauthorize.
Checks == [policy |-> "policy", source |-> "source", sourceAgain |-> "source", policyAgain |-> "policy"]
AfterCheck == [policy |-> "source", source |-> "sourceAgain", sourceAgain |-> "policyAgain",
               policyAgain |-> "submit"]

\* (Bug: what changed since the preview does not matter.)
HoldsAnyway(p, aspect) == TRUE

AsPreviewed(p, aspect) == world[aspect] = seen[p][aspect]

Check(c) ==
  /\ task[c].kind = "execute" /\ task[c].at \in DOMAIN Checks
  /\ AsPreviewed(runs[task[c].run].preview, Checks[task[c].at])
  /\ MoveTo(c, AfterCheck[task[c].at])
  /\ UNCHANGED <<ledger, approved, world, bigquery, stale>>

Submitting(c) ==
  /\ Executing(c, "submit")
  /\ Record(task[c].run, "submitting")
  /\ MoveTo(c, "ready")
  /\ UNCHANGED <<previewed, seen, used, approved, world, bigquery, stale>>

\* The one POST; `dispatched' is set in the same turn.
Dispatch(c) ==
  /\ Executing(c, "ready")
  /\ posts' = posts \cup {task[c].run}
  /\ MoveTo(c, "sent")
  /\ UNCHANGED <<ledger, approved, world, job, bill, stale>>

\* The answer names the job, which is recorded before anything else is read.
Answered(c) ==
  /\ Executing(c, "sent") /\ job[task[c].run] # "none"
  /\ runs' = [runs EXCEPT ![task[c].run].state = "running", ![task[c].run].job = TRUE]
  /\ MoveTo(c, "install")
  /\ UNCHANGED <<previewed, seen, used, approved, world, bigquery, stale>>

Executed(c) ==
  /\ Executing(c, "install")
  /\ EndTask(c)
  /\ UNCHANGED <<ledger, approved, world, bigquery, stale>>

\* An await rejects before the POST.
FailsUndone(c) ==
  /\ task[c].kind = "execute" /\ task[c].at \in DOMAIN Checks \cup {"start", "submit", "ready"}
  /\ MoveTo(c, "undone")
  /\ UNCHANGED <<ledger, approved, world, bigquery, stale>>

\* (Bug: a POST without an answer is taken for one that was not made.)
FailsDoubtfulUndone(c) ==
  /\ task[c].kind = "execute" /\ task[c].at \in {"sent", "install"}
  /\ MoveTo(c, IF task[c].at = "sent" THEN "undone" ELSE "doubtful")
  /\ UNCHANGED <<ledger, approved, world, bigquery, stale>>

\* An await rejects after it.
FailsDoubtful(c) ==
  /\ task[c].kind = "execute" /\ task[c].at \in {"sent", "install"}
  /\ MoveTo(c, "doubtful")
  /\ UNCHANGED <<ledger, approved, world, bigquery, stale>>

RecordFailed(c) ==
  /\ Executing(c, "undone")
  /\ runs' = [runs EXCEPT ![task[c].run].state = "failed", ![task[c].run].reservation = 0]
  /\ EndTask(c)
  /\ UNCHANGED <<previewed, seen, used, approved, world, bigquery, stale>>

RecordDoubtful(c) ==
  /\ Executing(c, "doubtful")
  /\ IF runs[task[c].run].job THEN UNCHANGED runs ELSE Record(task[c].run, "submission_unknown")
  /\ EndTask(c)
  /\ UNCHANGED <<previewed, seen, used, approved, world, bigquery, stale>>

-----------------------------------------------------------------------------
(* status() and cancel(), by anyone who has a receipt that names the job.  *)

Control(c, r, kind) ==
  /\ task[c] = NoTask /\ runs[r].job /\ ~Held(r)
  /\ task' = [task EXCEPT ![c] = [kind |-> kind, run |-> r, at |-> "ask", heard |-> "none"]]
  /\ UNCHANGED <<ledger, approved, world, bigquery, stale>>

StateOf(r) == job[r]

ControlHeard(c) ==
  /\ task[c].kind \in {"status", "cancel"} /\ task[c].at = "ask"
  /\ AsPreviewed(runs[task[c].run].preview, "policy")
  /\ task' = [task EXCEPT ![c].at = "heard", ![c].heard = StateOf(task[c].run)]
  /\ UNCHANGED <<ledger, approved, world, bigquery, stale>>

ControlFails(c) ==
  /\ task[c].kind \in {"status", "cancel"} /\ task[c].at = "ask"
  /\ EndTask(c)
  /\ UNCHANGED <<ledger, approved, world, bigquery, stale>>

\* The bytes billed, if the answer has them.
BilledOrReserved(r) == {bill[r], runs[r].reservation}

StatusDone(c) ==
  /\ task[c].kind = "status" /\ task[c].at = "heard"
  /\ LET r == task[c].run IN
       \/ task[c].heard = "running" /\ UNCHANGED runs
       \/ /\ task[c].heard \in Terminal
          /\ \E bytes \in BilledOrReserved(r) :
               runs' = [runs EXCEPT ![r].state = task[c].heard, ![r].reservation = bytes]
  /\ EndTask(c)
  /\ UNCHANGED <<previewed, seen, used, approved, world, bigquery, stale>>

CancelDone(c) ==
  /\ task[c].kind = "cancel" /\ task[c].at = "heard"
  /\ IF runs[task[c].run].state \in Terminal THEN UNCHANGED runs
     ELSE Record(task[c].run, "cancel_requested")
  /\ EndTask(c)
  /\ UNCHANGED <<previewed, seen, used, approved, world, bigquery, stale>>

-----------------------------------------------------------------------------
(* BigQuery, and what goes on around the clients.                          *)

\* A request is carried out once, perhaps long after its client gave up.
Accept(r) ==
  /\ r \in posts
  /\ posts' = posts \ {r}
  /\ job' = [job EXCEPT ![r] = "running"]
  /\ UNCHANGED <<ledger, approved, task, world, bill, stale>>

Refuse(r) ==
  /\ r \in posts
  /\ posts' = posts \ {r}
  /\ UNCHANGED <<ledger, approved, task, world, job, bill, stale>>

\* A job never bills more than its cap.
Finish(r) ==
  /\ job[r] = "running"
  /\ \E state \in Terminal : job' = [job EXCEPT ![r] = state]
  /\ \E bytes \in 0..Cap[runs[r].preview] : bill' = [bill EXCEPT ![r] = bytes]
  /\ UNCHANGED <<ledger, approved, task, world, posts, stale>>

Change(a) ==
  /\ world["policy"] + world["source"] < MaxChanges
  /\ world' = [world EXCEPT ![a] = @ + 1]
  /\ UNCHANGED <<ledger, approved, task, bigquery, stale>>

\* A tab is gone, and its lease is free.
TabGone(c) ==
  /\ task[c] # NoTask
  /\ EndTask(c)
  /\ UNCHANGED <<ledger, approved, world, bigquery, stale>>

ExecuteStep(c) ==
  \/ Lease(c) \/ Check(c) \/ Submitting(c) \/ Dispatch(c) \/ Answered(c) \/ Executed(c)
  \/ FailsUndone(c) \/ FailsDoubtful(c) \/ RecordFailed(c) \/ RecordDoubtful(c)

ControlStep(c) == ControlHeard(c) \/ ControlFails(c) \/ StatusDone(c) \/ CancelDone(c)

BudgetNext ==
  \/ \E p \in Previews : Preview(p) \/ Approve(p)
  \/ \E c \in Clients :
       \/ \E p \in Previews, r \in Runs : Execute(c, p, r)
       \/ \E r \in Runs, kind \in {"status", "cancel"} : Control(c, r, kind)
       \/ ExecuteStep(c) \/ ControlStep(c) \/ TabGone(c)
  \/ \E r \in Runs : Accept(r) \/ Refuse(r) \/ Finish(r)
  \/ \E a \in Aspects : Change(a)

BudgetSpec == BudgetInit /\ [][BudgetNext]_budgetVars

-----------------------------------------------------------------------------

States == {"free", "reserved", "submitting", "running", "submission_unknown",
           "cancel_requested"} \cup Terminal

RunRecords ==
  [preview : Previews \cup {None}, reservation : Nat, job : BOOLEAN, state : States]

Points == DOMAIN Checks \cup {"start", "submit", "ready", "sent", "install", "undone",
                             "doubtful", "ask", "heard"}

Heard == {"none", "running"} \cup Terminal

Tasks ==
  {NoTask} \cup [kind : {"execute", "status", "cancel"}, run : Runs, at : Points, heard : Heard]

BudgetTypeOK ==
  /\ previewed \subseteq Previews /\ approved \subseteq Previews /\ used \subseteq Previews
  /\ seen \in [Previews -> [Aspects -> 0..MaxChanges]]
  /\ runs \in [Runs -> RunRecords]
  /\ task \in [Clients -> Tasks]
  /\ world \in [Aspects -> 0..MaxChanges]
  /\ posts \subseteq Runs
  /\ job \in [Runs -> Heard]
  /\ bill \in [Runs -> Nat]
  /\ stale \subseteq Runs

\* What BigQuery has billed for a run, or may still bill.
Liability(r) ==
  IF r \in posts \/ job[r] = "running" THEN Cap[runs[r].preview] ELSE bill[r]

LiableBytes(p) == UNION {Bytes(r, Liability(r)) : r \in Reservations(p)}

\* A session never costs more than its budget, whatever is lost, retried,
\* cancelled or crashes (README 147: an ambiguous attempt retains the full cap
\* reservation; 223: absent billing retains the cap).
BilledWithinBudget ==
  \A p \in Previews :
    Reservations(p) # {} /\ (\A r \in Reservations(p) : Budget[runs[r].preview] = Budget[p])
      => Cardinality(LiableBytes(p)) <= Budget[p]

\* The ledger's reservation covers what a run may cost, at every instant.
ReservationCovers ==
  \A r \in Runs : runs[r].state # "free" => Liability(r) <= runs[r].reservation

\* One approval, one job: not two clients, nor one that tries again, submit the
\* same preview.
OneJobPerApproval ==
  \A r, s \in Runs :
    runs[r].state # "free" /\ runs[s].state # "free" /\ runs[r].preview = runs[s].preview
      => r = s

\* What had changed before the run was reserved is never submitted as approved.
SubmitsApproved == \A r \in stale : r \notin posts /\ job[r] = "none"
-----------------------------------------------------------------------------
(* What the proofs of these rest on.                                       *)

\* Points of execute() where the request has not left.
BeforeDispatch == DOMAIN Checks \cup {"start", "submit", "ready", "undone"}
AfterDispatch == {"sent", "install", "doubtful"}

\* A run in use is of a preview that is used up; nothing else is.
RunsAreUsed ==
  /\ used \subseteq previewed
  /\ \A p \in Previews, a \in Aspects : seen[p][a] <= world[a]
  /\ \A r \in Runs :
       IF runs[r].state = "free" THEN runs[r] = NoRun
       ELSE runs[r].preview \in used /\ runs[r].reservation \in 0..Cap[runs[r].preview]

\* A client executes a run of its own.
OwnRun ==
  \A c \in Clients : task[c].kind = "execute" =>
    /\ task[c].run \in Runs /\ runs[task[c].run].state # "free"
    /\ task[c].at \in BeforeDispatch \cup AfterDispatch
    /\ \A d \in Clients : task[d].kind = "execute" /\ task[d].run = task[c].run => c = d

\* Until it dispatches, BigQuery knows nothing of the run and all is reserved.
NothingSent ==
  /\ \A r \in Runs :
       /\ runs[r].state = "free" => r \notin posts /\ job[r] = "none"
       /\ job[r] = "none" => bill[r] = 0 /\ ~runs[r].job
       /\ r \in posts => job[r] = "none"
  /\ \A c \in Clients : task[c].kind = "execute" /\ task[c].at \in BeforeDispatch =>
       /\ task[c].run \notin posts /\ job[task[c].run] = "none"
       /\ runs[task[c].run].reservation = Cap[runs[task[c].run].preview]

\* What status() was told stays true.
HeardIsTrue ==
  \A c \in Clients : task[c].kind \in {"status", "cancel"} =>
    /\ task[c].run \in Runs /\ runs[task[c].run].job
    /\ task[c].heard \in Terminal => job[task[c].run] = task[c].heard

\* The check of what had changed is still ahead.
StaleIsCaught ==
  \A r \in stale :
    LET p == runs[r].preview IN
      /\ runs[r].state # "free" /\ r \notin posts /\ job[r] = "none"
      /\ world["policy"] > seen[p]["policy"] \/ world["source"] > seen[p]["source"]
      /\ \A c \in Clients : task[c].kind = "execute" /\ task[c].run = r =>
           /\ task[c].at \in {"start", "policy", "source", "undone"}
           /\ task[c].at = "source" => world["source"] > seen[p]["source"]

BudgetInv ==
  /\ RunsAreUsed /\ OwnRun /\ NothingSent /\ HeardIsTrue /\ StaleIsCaught
  /\ ReservationCovers /\ OneJobPerApproval

\* Finitely many runs were ever made, and what is reserved for those of one
\* budget never exceeds it.
ReservedWithinBudget ==
  /\ IsFiniteSet({r \in Runs : runs[r].state # "free"})
  /\ \A p \in Previews :
       Reservations(p) # {} /\ (\A r \in Reservations(p) : Budget[runs[r].preview] = Budget[p])
         => Reserved(p) <= Budget[p]
=============================================================================
