---------------------------- MODULE MCAnalytical ----------------------------
(***************************************************************************)
(* The budget of a session and the rows of one of its runs share only the  *)
(* tabs: a behaviour is one of one of them, the other rests as it began.   *)
(* Of the three queries two fit into the budget, the third only by itself. *)
(***************************************************************************)
EXTENDS AnalyticalBudget, MCAnalyticalCursor
CONSTANTS p1, p2, p3, r1, r2
ThreeQueries == {p1, p2, p3}
TwoRuns == {r1, r2}
OneSession == [p \in Previews |-> "session"]
OneBudget == [p \in Previews |-> 2]
Caps == [p \in Previews |-> IF p = p3 THEN 2 ELSE 1]
AnalyticalSymmetry == Permutations({p1, p2}) \cup Symmetry \cup Permutations(TwoRuns)

VARIABLE part
analyticalVars == <<part, budgetVars, cursorVars>>

\* Where nobody has a run to read: that keeps the tabs alike.
NobodyReads ==
  /\ rec = NewRecord /\ complete = FALSE /\ sess = [c \in Clients |-> None] /\ op = [c \in Clients |-> Idle]
  /\ given = {} /\ handed = {} /\ told = {}

\* A bound: a behaviour has a change of the policy or the source or a third
\* query, not both.
ChangeOrThirdQuery ==
  Cardinality(previewed') < 3 \/ \A a \in Aspects : world'[a] = 0

AnalyticalInit ==
  /\ BudgetInit
  /\ \/ part = "cursor" /\ CursorInit
     \/ part = "budget" /\ NobodyReads
AnalyticalNext ==
  /\ UNCHANGED part
  /\ \/ part = "budget" /\ BudgetNext /\ ChangeOrThirdQuery /\ UNCHANGED cursorVars
     \/ part = "cursor" /\ CursorNext /\ UNCHANGED budgetVars
AnalyticalSpec == AnalyticalInit /\ [][AnalyticalNext]_analyticalVars
=============================================================================
