----------------------- MODULE AnalyticalCursorProofs -----------------------
(***************************************************************************)
(* The rows of a submitted job reach callers whole and once, whichever tabs *)
(* read, crash, resume and rebind, for every result, every limit and any    *)
(* number of tabs whose callers are careful (Unguarded is empty).           *)
(*                                                                         *)
(* The ledger's record is at one place of the result, `Place`, and counts   *)
(* the rows before it (LedgerInv); its cursor is at that place too          *)
(* (CurrentInv); and whoever may still read on from there has missed        *)
(* nothing (ReadInv).  One lemma per action of the model keeps the three,   *)
(* with what is known of the sessions and of the operation under way.       *)
(***************************************************************************)
EXTENDS AnalyticalCursor, FiniteSetTheorems, TLAPS

-----------------------------------------------------------------------------
(* The rows of a result, and how many they are. *)

Pages == 1..Len(PageRows)

\* Every page is a number.
LEMMA PagesAreCounted ==
  Len(PageRows) \in Nat \ {0} /\ \A p \in Pages : PageRows[p] \in Nat
BY CursorAssumption DEF Pages

\* The sizes of disjoint sets add up.
LEMMA DisjointSetsAdd ==
  ASSUME NEW S, IsFiniteSet(S), NEW T, IsFiniteSet(T), S \cap T = {}
  PROVE  Cardinality(S \cup T) = Cardinality(S) + Cardinality(T)
<1>1. Cardinality(S) \in Nat /\ Cardinality(T) \in Nat
  BY FS_CardinalityType
<1>2. Cardinality(S \cap T) = 0
  BY FS_EmptySet, Zenon
<1>3. Cardinality(S \cup T) = Cardinality(S) + Cardinality(T) - Cardinality(S \cap T)
  BY FS_Union
<1>4. QED
  BY <1>1, <1>2, <1>3

\* There are finitely many rows.
LEMMA RowsAreFinite ==
  ASSUME NEW p, NEW a \in Int, NEW b \in Int
  PROVE  /\ IsFiniteSet(Rows(p, a, b))
         /\ Cardinality(Rows(p, a, b)) = IF a > b THEN 0 ELSE b - a + 1
<1> DEFINE f == [i \in a..b |-> <<p, i>>]
<1>1. f \in Bijection(a..b, Rows(p, a, b))
  <2>1. f \in [a..b -> Rows(p, a, b)]
    BY DEF Rows
  <2>2. \A i, j \in a..b : f[i] = f[j] => i = j
    OBVIOUS
  <2>3. \A r \in Rows(p, a, b) : \E i \in a..b : f[i] = r
    BY DEF Rows
  <2> HIDE DEF f
  <2>4. QED
    BY <2>1, <2>2, <2>3, Zenon DEF IsInjective, Bijection, Injection, Surjection
<1>2. QED
  BY <1>1, FS_Bijection, FS_Interval DEF ExistsBijection

\* There are finitely many places of pages.
LEMMA PlacesAreFinite ==
  ASSUME NEW page \in Nat, page <= Len(PageRows) + 1, NEW offset \in Nat
  PROVE  IsFiniteSet(RowsUpTo(page, offset))
<1> DEFINE whole == {Rows(p, 1, PageRows[p]) : p \in 1..(page - 1)}
           f == [p \in 1..(page - 1) |-> Rows(p, 1, PageRows[p])]
<1>1. f \in Surjection(1..(page - 1), whole)
  BY DEF Surjection
<1>2. IsFiniteSet(whole)
  BY <1>1, FS_Surjection, FS_Interval
<1>3. \A S \in whole : IsFiniteSet(S)
  <2>1. 1..(page - 1) \subseteq Pages
    BY PagesAreCounted DEF Pages
  <2>2. QED
    BY <2>1, PagesAreCounted, RowsAreFinite
<1>4. IsFiniteSet(UNION whole)
  BY <1>2, <1>3, FS_UNION
<1>5. IsFiniteSet(Rows(page, 1, offset))
  BY RowsAreFinite
<1>6. QED
  BY <1>4, <1>5, FS_Union, Zenon DEF RowsUpTo

\* Before a page is what ends the page before it.
LEMMA PageEnds ==
  ASSUME NEW page \in Pages
  PROVE  RowsUpTo(page + 1, 0) = RowsUpTo(page, PageRows[page])
<1>1. Rows(page + 1, 1, 0) = {}
  BY DEF Rows
<1>2. 1..(page + 1 - 1) = (1..(page - 1)) \cup {page}
  BY PagesAreCounted DEF Pages
<1>3. QED
  BY <1>1, <1>2 DEF RowsUpTo

\* The rows delivered next are new, and as many as they say.
LEMMA RowsCount ==
  ASSUME NEW page \in Nat, page <= Len(PageRows) + 1, NEW offset \in Nat, NEW more \in Nat
  PROVE  /\ RowsUpTo(page, offset + more) = RowsUpTo(page, offset) \cup Rows(page, offset + 1, offset + more)
         /\ RowsUpTo(page, offset) \cap Rows(page, offset + 1, offset + more) = {}
         /\ Cardinality(RowsUpTo(page, offset + more)) = Cardinality(RowsUpTo(page, offset)) + more
<1>1. Rows(page, 1, offset + more) = Rows(page, 1, offset) \cup Rows(page, offset + 1, offset + more)
  BY DEF Rows
<1>2. RowsUpTo(page, offset + more) = RowsUpTo(page, offset) \cup Rows(page, offset + 1, offset + more)
  BY <1>1 DEF RowsUpTo
<1>3. RowsUpTo(page, offset) \cap Rows(page, offset + 1, offset + more) = {}
  <2>1. ASSUME NEW r \in RowsUpTo(page, offset), r \in Rows(page, offset + 1, offset + more) PROVE FALSE
    <3>1. PICK i \in (offset + 1)..(offset + more) : r = <<page, i>>
      BY <2>1 DEF Rows
    <3>2. r \notin Rows(page, 1, offset)
      BY <3>1 DEF Rows
    <3>3. PICK p \in 1..(page - 1) : r \in Rows(p, 1, PageRows[p])
      BY <2>1, <3>2 DEF RowsUpTo
    <3>4. QED
      BY <3>1, <3>3 DEF Rows
  <2>2. QED
    BY <2>1
<1>4. Cardinality(Rows(page, offset + 1, offset + more)) = more /\ IsFiniteSet(Rows(page, offset + 1, offset + more))
  BY RowsAreFinite
<1>5. IsFiniteSet(RowsUpTo(page, offset)) /\ Cardinality(RowsUpTo(page, offset)) \in Nat
  BY PlacesAreFinite, FS_CardinalityType
<1>6. QED
  BY <1>2, <1>3, <1>4, <1>5, DisjointSetsAdd

-----------------------------------------------------------------------------
(* The types. *)

\* What the tokens of the service are.
LEMMA TokensAreTyped ==
  /\ \A p \in Pages : NextToken(p) \in Tokens /\ NextToken(p) # 1 /\ NextToken(p) # p
  /\ \A t \in Tokens : PageAt(t) \in Pages
BY PagesAreCounted DEF Tokens, Pages, NextToken, PageAt

\* What the fields of the variables are.
LEMMA FieldsAreTyped ==
  ASSUME CursorTypeOK
  PROVE  /\ rec.token \in Tokens /\ rec.next \in Tokens /\ rec.digest \in Tokens /\ rec.offset \in Nat
         /\ rec.rows \in Nat /\ rec.rows <= MaxRows /\ rec.seen \in SUBSET Tokens /\ rec.refs \in Nat
         /\ rec.access \in Nat /\ rec.pages \in Nat
         /\ \A c \in Clients :
              /\ op[c].token \in Nat /\ op[c].refetch \in BOOLEAN /\ op[c].cursor \in Cursors \cup {None}
              /\ op[c].session \in Sessions \cup {None}
              /\ sess[c] # None => sess[c].index \in Nat /\ sess[c].size \in Nat /\ sess[c].page \in Tokens
<1>1. rec \in Records /\ MaxRows \in Nat /\ MaxRebinds \in Nat /\ MaxPages \in Nat
  BY CursorAssumption DEF CursorTypeOK
<1>2. \A c \in Clients : /\ op[c] \in Operations
                         /\ sess[c] # None => sess[c] \in Sessions
  BY DEF CursorTypeOK
<1>3. \A c \in Clients : /\ op[c].token \in Nat /\ op[c].refetch \in BOOLEAN /\ op[c].cursor \in Cursors \cup {None}
                         /\ op[c].session \in Sessions \cup {None}
  BY <1>2 DEF Operations
<1>4. \A c \in Clients : sess[c] # None => sess[c].index \in Nat /\ sess[c].size \in Nat /\ sess[c].page \in Tokens
  BY <1>2 DEF Sessions
<1>5. QED
  BY <1>1, <1>3, <1>4 DEF Records

\* The bounds of rows and pages are numbers.
LEMMA BoundsAreNumbers ==
  MaxRows \in Nat /\ MaxPages \in Nat \ {0} /\ MaxRebinds \in Nat
BY CursorAssumption

\* What a session of the client holds.
LEMMA SessionsAreTyped ==
  ASSUME CursorTypeOK, NEW c \in Clients, sess[c] # None
  PROVE  /\ sess[c] \in Sessions
         /\ \A mode \in {"row", "page"} : [sess[c] EXCEPT !.mode = mode] \in Sessions
         /\ [sess[c] EXCEPT !.aborted = TRUE] \in Sessions
         /\ [sess[c] EXCEPT !.aborted = TRUE, !.size = 0] \in Sessions
         /\ [sess[c] EXCEPT !.emptied = TRUE] \in Sessions
         /\ \A n \in Nat : [sess[c] EXCEPT !.index = @ + n] \in Sessions
<1>1. sess[c] \in Sessions
  BY DEF CursorTypeOK
<1>2. \A mode \in {"row", "page"} : [sess[c] EXCEPT !.mode = mode] \in Sessions
  BY <1>1 DEF Sessions
<1>3. [sess[c] EXCEPT !.aborted = TRUE] \in Sessions /\ [sess[c] EXCEPT !.aborted = TRUE, !.size = 0] \in Sessions
  BY <1>1 DEF Sessions
<1>4. [sess[c] EXCEPT !.emptied = TRUE] \in Sessions
  BY <1>1 DEF Sessions
<1>5. \A n \in Nat : [sess[c] EXCEPT !.index = @ + n] \in Sessions
  BY <1>1 DEF Sessions
<1>6. QED
  BY <1>1, <1>2, <1>3, <1>4, <1>5

\* What an operation of the client holds.
LEMMA OperationsAreTyped ==
  ASSUME CursorTypeOK, NEW c \in Clients
  PROVE  /\ op[c] \in Operations /\ Idle \in Operations
         /\ \A at \in {"loop", "take", "deliver", "delivered", "get", "installed"} :
              [op[c] EXCEPT !.at = at] \in Operations
         /\ [op[c] EXCEPT !.at = "deliver", !.token = 0] \in Operations
         /\ \A token \in Nat, refetch \in BOOLEAN :
              [op[c] EXCEPT !.at = "fetch", !.token = token, !.refetch = refetch] \in Operations
         /\ \A cursor \in Cursors : [op[c] EXCEPT !.at = "delivered", !.cursor = cursor] \in Operations
         /\ \A n \in Nat, rows \in SUBSET (Tokens \X Nat) :
              [op[c] EXCEPT !.at = "deliver", !.token = n, !.rows = rows] \in Operations
<1>1. op[c] \in Operations
  BY DEF CursorTypeOK
<1>2. Idle \in Operations
  BY DEF Idle, Operations
<1>3. QED
  BY <1>1, <1>2 DEF Operations

\* What a cursor holds.
LEMMA CursorTyped ==
  CursorTypeOK /\ OpInv /\ [CursorNext]_cursorVars => CursorTypeOK'
<1> SUFFICES ASSUME CursorTypeOK, OpInv, [CursorNext]_cursorVars
             PROVE  CursorTypeOK'
  OBVIOUS
<1> DEFINE OpTyped == op' \in [Clients -> Operations]
           SessTyped == sess' \in [Clients -> Sessions \cup {None}]
<1>0. \A c \in Clients : op[c].kind = "read" => sess[c] # None
  BY DEF OpInv, KindInv, StageInv
<1>1. ASSUME NEW c \in Clients, NEW mode \in {"row", "page"}, Read(c, mode) PROVE CursorTypeOK'
  <2>1. SessTyped
    BY <1>1, SessionsAreTyped DEF Read, CursorTypeOK
  <2>2. [Idle EXCEPT !.kind = "read", !.at = "access"] \in Operations
    BY DEF Idle, Operations
  <2>3. QED
    BY <1>1, <2>1, <2>2 DEF Read, CursorTypeOK
<1>2. ASSUME NEW c \in Clients, NEW cursor \in given, Resume(c, cursor) PROVE CursorTypeOK'
  <2>1. NewSession(rec.access) \in Sessions
    BY DEF CursorTypeOK, Records, NewSession, Sessions, Tokens
  <2>2. [Idle EXCEPT !.kind = "resume", !.at = "ready",
                     !.cursor = cursor, !.session = NewSession(rec.access)] \in Operations
    BY <2>1 DEF Idle, Operations, CursorTypeOK
  <2>3. QED
    BY <1>2, <2>2 DEF Resume, CursorTypeOK
<1>3. ASSUME NEW c \in Clients, NEW cursor \in given \cup {None}, Rebind(c, cursor) PROVE CursorTypeOK'
  <2>1. [Idle EXCEPT !.kind = "rebind", !.at = "verify"] \in Operations
    BY DEF Idle, Operations
  <2>2. QED
    BY <1>3, <2>1 DEF Rebind, CursorTypeOK
<1>4. ASSUME NEW c \in Clients, Authorized(c) PROVE CursorTypeOK'
  BY <1>4, OperationsAreTyped DEF Authorized, GoTo, CursorTypeOK
<1>5. ASSUME NEW c \in Clients, Loop(c) PROVE CursorTypeOK'
  <2>1. rec.token \in Nat /\ rec.next \in Nat
    BY DEF CursorTypeOK, Records, Tokens
  <2>2. OpTyped
    <3>1. CASE op' = [op EXCEPT ![c].at = "take"]
      BY <3>1, OperationsAreTyped DEF CursorTypeOK
    <3>2. CASE op' = [op EXCEPT ![c].at = "deliver", ![c].token = 0]
      <4>1. op' = [op EXCEPT ![c] = [op[c] EXCEPT !.at = "deliver", !.token = 0]]
        BY <3>2 DEF CursorTypeOK
      <4>2. QED
        BY <4>1, OperationsAreTyped DEF CursorTypeOK
    <3>3. CASE op' = [op EXCEPT ![c] = Idle]
      BY <3>3, OperationsAreTyped DEF CursorTypeOK
    <3>4. ASSUME NEW token \in Nat, Fetching(c, token, FALSE) PROVE OpTyped
      <4>1. op' = [op EXCEPT ![c] = [op[c] EXCEPT !.at = "fetch", !.token = token, !.refetch = FALSE]]
        BY <3>4 DEF Fetching, CursorTypeOK
      <4>2. QED
        BY <4>1, OperationsAreTyped DEF CursorTypeOK
    <3>5. QED
      BY <1>5, <2>1, <3>1, <3>2, <3>3, <3>4 DEF Loop, GoTo, Return
  <2>3. SessTyped
    BY <1>5, <1>0, SessionsAreTyped DEF Loop, At, CursorTypeOK
  <2>4. QED
    BY <1>5, <2>2, <2>3 DEF Loop, CursorTypeOK
<1>6. ASSUME NEW c \in Clients, Take(c) PROVE CursorTypeOK'
  <2>1. sess[c] \in Sessions
    BY <1>6, <1>0, SessionsAreTyped DEF Take, At
  <2>2. rec.rows \in Int /\ sess[c].size \in Nat /\ sess[c].index \in Nat /\ sess[c].page \in Tokens
    BY <2>1, CursorAssumption DEF Sessions, CursorTypeOK, Records
  <2>3. \A last \in Int : Rows(sess[c].page, sess[c].index + 1, last) \in SUBSET (Tokens \X Nat)
    BY <2>2 DEF Rows
  <2>4. OpTyped
    <3> DEFINE n == sess[c].size - sess[c].index
               wanted == IF sess[c].mode = "row" THEN 1 ELSE n
               amount == IF wanted < MaxRows - rec.rows THEN wanted ELSE MaxRows - rec.rows
               last == IF sess[c].index + amount < sess[c].size THEN sess[c].index + amount ELSE sess[c].size
               taken == Rows(sess[c].page, sess[c].index + 1, last)
    <3>1. amount \in Nat /\ last \in Int
      BY <1>6, <2>2, BoundsAreNumbers DEF Take
    <3>2. [op[c] EXCEPT !.at = "deliver", !.token = amount, !.rows = taken] \in Operations
      BY <2>3, <3>1, OperationsAreTyped
    <3>3. op' = [op EXCEPT ![c] = [op[c] EXCEPT !.at = "deliver", !.token = amount, !.rows = taken]]
      BY <1>6 DEF Take, CursorTypeOK
    <3>4. QED
      BY <3>2, <3>3 DEF CursorTypeOK
  <2>5. QED
    BY <1>6, <2>4 DEF Take, CursorTypeOK
<1>7. ASSUME NEW c \in Clients, Deliver(c) PROVE CursorTypeOK'
  <2>1. sess[c].index \in Nat /\ op[c].token \in Nat
    BY <1>7, <1>0, FieldsAreTyped DEF Deliver, At
  <2> DEFINE cursor == rec'.cursor
  <2>2. cursor \in Cursors
    BY <1>7, <2>1 DEF Deliver, CursorTypeOK, Records, Cursors, Boundary
  <2>3. rec' \in Records
    <3>1. /\ rec.rows + op[c].token \in 0..MaxRows /\ rec.refs + 1 \in Nat
          /\ sess[c].index + op[c].token \in Nat
      BY <1>7, <2>1, BoundsAreNumbers, FieldsAreTyped DEF Deliver
    <3>2. rec \in Records /\ rec' = [rec EXCEPT !.offset = sess[c].index + op[c].token, !.rows = rec.rows + op[c].token,
                                               !.refs = rec.refs + 1, !.cursor = cursor]
      BY <1>7 DEF Deliver, CursorTypeOK, Records
    <3>3. QED
      BY <2>2, <3>1, <3>2 DEF Records
  <2>4. op' = [op EXCEPT ![c] = [op[c] EXCEPT !.at = "delivered", !.cursor = cursor]]
    BY <1>7 DEF Deliver, CursorTypeOK, Records
  <2>5. QED
    <3>1. [op[c] EXCEPT !.at = "delivered", !.cursor = cursor] \in Operations
      BY <2>2, OperationsAreTyped
    <3>2. OpTyped
      BY <2>4, <3>1 DEF CursorTypeOK
    <3>3. QED
      BY <1>7, <2>3, <3>2 DEF Deliver, CursorTypeOK
<1>8. ASSUME NEW c \in Clients, HandOver(c) PROVE CursorTypeOK'
  <2>1. op[c].token \in Nat /\ op[c].cursor \in Cursors
    BY <1>8, FieldsAreTyped DEF HandOver, At, OpInv, KindInv, StageInv
  <2>2. SessTyped
    BY <1>8, <1>0, <2>1, SessionsAreTyped DEF HandOver, At, CursorTypeOK
  <2>3. QED
    BY <1>8, <2>1, <2>2, OperationsAreTyped DEF HandOver, Return, CursorTypeOK
<1>9. ASSUME NEW c \in Clients, HandOverFails(c) PROVE CursorTypeOK'
  <2>1. op[c].token \in Nat
    BY FieldsAreTyped
  <2>2. SessTyped
    BY <1>9, <1>0, <2>1, SessionsAreTyped DEF HandOverFails, At, CursorTypeOK
  <2>3. QED
    BY <1>9, <2>2, OperationsAreTyped DEF HandOverFails, Return, CursorTypeOK
<1>10. ASSUME NEW c \in Clients, Charge(c) PROVE CursorTypeOK'
  <2>1. rec' \in Records
    <3>1. rec.pages + 1 \in 1..MaxPages
      BY <1>10, BoundsAreNumbers, FieldsAreTyped DEF Charge, MayFetch
    <3>2. rec \in Records /\ rec' = [rec EXCEPT !.pages = rec.pages + 1]
      BY <1>10 DEF Charge, CursorTypeOK, Records
    <3>3. QED
      BY <3>1, <3>2 DEF Records
  <2>2. QED
    BY <1>10, <2>1, OperationsAreTyped DEF Charge, GoTo, CursorTypeOK
<1>11. ASSUME NEW c \in Clients, Install(c) PROVE CursorTypeOK'
  <2>1. op[c].token \in Tokens \/ op[c].refetch
    BY <1>11 DEF Install, OpInv, KindInv, StageInv, FetchInv, CursorTypeOK, Records
  <2>2. rec' \in Records
    <3>1. CASE op[c].refetch
      BY <1>11, <3>1 DEF Install, Installed, CursorTypeOK
    <3>2. CASE ~op[c].refetch
      <4> DEFINE page == PageAt(op[c].token)
      <4>1. page \in Tokens /\ NextToken(page) \in Tokens
        BY <2>1, <3>2, TokensAreTyped DEF Pages, Tokens
      <4>2. QED
        BY <1>11, <2>1, <3>2, <4>1 DEF Install, Installed, CursorTypeOK, Records
    <3>3. QED
      BY <3>1, <3>2
  <2>3. QED
    BY <1>11, <2>2, OperationsAreTyped DEF Install, GoTo, CursorTypeOK
<1>12. ASSUME NEW c \in Clients, Loaded(c) PROVE CursorTypeOK'
  <2> DEFINE page == PageAt(op[c].token)
  <2>1. Session(c) \in Sessions
    <3>1. op[c].kind = "read" \/ (op[c].kind = "resume" /\ op[c].session # None)
      BY <1>12 DEF Loaded, OpInv, KindInv, StageInv, Idle
    <3>2. QED
      BY <1>0, <3>1, SessionsAreTyped, FieldsAreTyped DEF Session
  <2>2. page \in Pages /\ PageRows[page] \in Nat /\ rec.offset \in Nat
    BY <1>12, PagesAreCounted DEF Loaded, OpInv, KindInv, StageInv, CursorTypeOK, Records, Pages, Tokens, PageAt
  <2>3. Filled(Session(c), page) \in Sessions
    <3>1. page \in Tokens /\ (NextToken(page) = 0) \in BOOLEAN
      BY <2>2 DEF Pages, Tokens
    <3>2. QED
      BY <2>1, <2>2, <3>1 DEF Filled, Sessions
  <2>4. QED
    BY <1>12, <2>3, OperationsAreTyped DEF Loaded, Return, GoTo, CursorTypeOK
<1>13. ASSUME NEW c \in Clients, Incomplete(c) PROVE CursorTypeOK'
  <2>1. Session(c) \in Sessions
    <3>1. op[c].kind = "read" \/ (op[c].kind = "resume" /\ op[c].session # None)
      BY <1>13 DEF Incomplete, OpInv, KindInv, StageInv, Idle
    <3>2. QED
      BY <1>0, <3>1, SessionsAreTyped, FieldsAreTyped DEF Session
  <2>2. [Session(c) EXCEPT !.loaded = FALSE] \in Sessions
    BY <2>1 DEF Sessions
  <2>3. QED
    BY <1>13, <2>2, OperationsAreTyped DEF Incomplete, Return, GoTo, CursorTypeOK
<1>14. ASSUME NEW c \in Clients, Resuming(c) PROVE CursorTypeOK'
  <2>1. op[c].cursor \in Cursors
    BY <1>14 DEF Resuming, At, OpInv, KindInv, StageInv, CursorTypeOK
  <2>2. op[c].cursor.token \in Nat /\ op[c].cursor.partial \in BOOLEAN /\ op[c].cursor.token \in Tokens
    BY <2>1 DEF Cursors, Tokens
  <2>3. rec' \in Records
    BY <1>14, <2>2 DEF Resuming, CursorTypeOK, Records
  <2>4. QED
    BY <1>14, <2>2, <2>3, OperationsAreTyped DEF Resuming, Fetching, CursorTypeOK
<1>15. ASSUME NEW c \in Clients, Rebound(c) PROVE CursorTypeOK'
  <2>1. rec'.cursor \in Cursors \cup {None}
    BY <1>15 DEF Rebound, CursorTypeOK, Records, Cursors
  <2>2. rec' \in Records /\ given' \subseteq Cursors
    <3>1. rec.refs + 1 \in Nat
      BY FieldsAreTyped
    <3>2. rec \in Records /\ rec.access + 1 \in 0..MaxRebinds
          /\ rec' = [rec EXCEPT !.access = rec.access + 1, !.refs = rec.refs + 1, !.cursor = rec'.cursor]
      <4>1. rec.access + 1 \in 0..MaxRebinds
        BY <1>15, BoundsAreNumbers, FieldsAreTyped DEF Rebound, At, OpInv, KindInv, StageInv
      <4>2. QED
        BY <1>15, <4>1 DEF Rebound, CursorTypeOK, Records
    <3>3. QED
      BY <1>15, <2>1, <3>1, <3>2 DEF Rebound, CursorTypeOK, Records
  <2>3. QED
    BY <1>15, <2>2, OperationsAreTyped DEF Rebound, Return, CursorTypeOK
<1>16. ASSUME NEW c \in Clients, Close(c) PROVE CursorTypeOK'
  BY <1>16, SessionsAreTyped DEF Close, CursorTypeOK
<1>17. ASSUME NEW c \in Clients, Abort(c) PROVE CursorTypeOK'
  BY <1>17, <1>0, SessionsAreTyped DEF Abort, CursorTypeOK
<1>18. ASSUME NEW c \in Clients, Fails(c) PROVE CursorTypeOK'
  BY <1>18, OperationsAreTyped DEF Fails, Return, CursorTypeOK
<1>19. ASSUME NEW c \in Clients, ClientCrash(c) PROVE CursorTypeOK'
  BY <1>19, OperationsAreTyped DEF ClientCrash, Return, CursorTypeOK
<1>20. ASSUME Completes PROVE CursorTypeOK'
  BY <1>20 DEF Completes, CursorTypeOK
<1>21. CASE UNCHANGED cursorVars
  BY <1>21 DEF cursorVars, CursorTypeOK
<1>22. QED
  BY <1>1, <1>2, <1>3, <1>4, <1>5, <1>6, <1>7, <1>8, <1>9, <1>10, <1>11, <1>12, <1>13, <1>14, <1>15,
     <1>16, <1>17, <1>18, <1>19, <1>20, <1>21 DEF CursorNext, ReadStep, FetchStep

-----------------------------------------------------------------------------
(* The invariant, action by action.  Most leave the ledger alone. *)

\* What one client's session becomes without coming to the ledger's place.
Alike(s, t) ==
  t # None => /\ s # None /\ t.loaded = s.loaded /\ t.page = s.page /\ t.index = s.index /\ t.done = s.done
              /\ t.access = s.access /\ (t.aborted \/ (t.size = s.size /\ ~s.aborted))

\* A step that leaves the ledger as it is, and the sessions alike, keeps what the
\* invariant says of both.
LEMMA LedgerAlone ==
  ASSUME CursorTypeOK, CursorInv, UNCHANGED <<rec, given, handed, told>>, complete => complete',
         \A c \in Clients : Alike(sess[c], sess'[c])
  PROVE  /\ LedgerInv' /\ CurrentInv' /\ SessionInv'
         /\ \A c \in Clients : AtPlace(c)' => AtPlace(c)
<1>1. \A c \in Clients : AtPlace(c)' => AtPlace(c)
  BY DEF AtPlace, IsLoaded, Alike
<1>2. LedgerInv'
  BY <1>1 DEF CursorInv, LedgerInv, Place, InPage
<1>3. CurrentInv'
  BY DEF CursorInv, CurrentInv, Place, InPage, Reached, Alike
<1>4. SessionInv'
  BY DEF CursorInv, SessionInv, IsLoaded, InPage, Alike
<1>5. QED
  BY <1>1, <1>2, <1>3, <1>4

\* A tab whose operation has ended keeps its part of the invariant.
LEMMA AtRest ==
  ASSUME NEW c \in Clients, op'[c] = Idle PROVE KindInv(c)' /\ StageInv(c)'
BY DEF Idle, KindInv, StageInv

\* One operation goes on or begins: the others rest.
LEMMA OneOperation ==
  ASSUME CursorTypeOK, OpInv, NEW c \in Clients, Free \/ op[c] # Idle,
         \A d \in Clients \ {c} : op'[d] = op[d], KindInv(c)', StageInv(c)'
  PROVE  OpInv'
<1>1. \A d \in Clients \ {c} : op'[d] = Idle
  BY DEF OpInv, Free
<1>2. \A d \in Clients \ {c} : KindInv(d)' /\ StageInv(d)'
  BY <1>1, AtRest
<1>3. QED
  BY <1>1, <1>2 DEF OpInv

\* read.
LEMMA ReadKeeps ==
  ASSUME CursorTypeOK, CursorInv, NEW c \in Clients, NEW mode \in {"row", "page"}, Read(c, mode)
  PROVE  CursorInv'
<1>1. \A d \in Clients : Alike(sess[d], sess'[d])
  BY DEF Read, Alike, CursorTypeOK
<1>2. KindInv(c)' /\ StageInv(c)'
  <2>1. op'[c] = [Idle EXCEPT !.kind = "read", !.at = "access"] /\ sess'[c] \in Sessions
    BY SessionsAreTyped DEF Read, CursorTypeOK
  <2>2. QED
    BY <2>1, NoneAssumption DEF Idle, KindInv, StageInv
<1>3. OpInv'
  BY <1>2, OneOperation DEF Read, CursorInv, CursorTypeOK
<1>4. ReadInv'
  BY <1>1, LedgerAlone DEF Read, CursorInv, ReadInv, CursorTypeOK, Idle, Place, Reached
<1>5. QED
  BY <1>1, <1>3, <1>4, LedgerAlone DEF Read, CursorInv

\* resume.
LEMMA ResumeKeeps ==
  ASSUME CursorTypeOK, CursorInv, NEW c \in Clients, NEW cursor \in given, Resume(c, cursor)
  PROVE  CursorInv'
<1>1. \A d \in Clients : Alike(sess[d], sess'[d])
  BY DEF Resume, Alike
<1>2. KindInv(c)' /\ StageInv(c)'
  <2> DEFINE new == NewSession(rec.access)
  <2>1. new \in Sessions /\ ~new.loaded /\ ~new.aborted
    BY DEF CursorTypeOK, Records, NewSession, Sessions, Tokens
  <2>2. op'[c] = [Idle EXCEPT !.kind = "resume", !.at = "ready", !.cursor = cursor, !.session = new]
    BY DEF Resume, CursorTypeOK
  <2> HIDE DEF new
  <2>3. op'[c].kind = "resume" /\ op'[c].at = "ready" /\ op'[c].cursor = cursor /\ op'[c].session = new
    BY <2>2 DEF Idle
  <2>4. rec'.cursor = cursor /\ cursor \in given'
    BY DEF Resume, Current
  <2>5. QED
    BY <2>1, <2>3, <2>4, NoneAssumption DEF KindInv, StageInv
<1>3. OpInv'
  BY <1>2, OneOperation DEF Resume, CursorInv, CursorTypeOK
<1>4. ReadInv'
  BY <1>1, LedgerAlone DEF Resume, CursorInv, ReadInv, CursorTypeOK, Idle, Place, Reached
<1>5. QED
  BY <1>1, <1>3, <1>4, LedgerAlone DEF Resume, CursorInv

\* The rebinding of a cursor to its job begins.
LEMMA RebindKeeps ==
  ASSUME CursorTypeOK, CursorInv, NEW c \in Clients, NEW cursor \in given \cup {None}, Rebind(c, cursor)
  PROVE  CursorInv'
<1>1. \A d \in Clients : Alike(sess[d], sess'[d])
  BY DEF Rebind, Alike
<1>2. KindInv(c)' /\ StageInv(c)'
  BY DEF Rebind, Current, Idle, KindInv, StageInv, CursorTypeOK
<1>3. OpInv'
  BY <1>2, OneOperation DEF Rebind, CursorInv, CursorTypeOK
<1>4. ReadInv'
  BY <1>1, LedgerAlone DEF Rebind, CursorInv, ReadInv, CursorTypeOK, Idle, Place, Reached
<1>5. QED
  BY <1>1, <1>3, <1>4, LedgerAlone DEF Rebind, CursorInv

\* The authorization has been given.
LEMMA AuthorizedKeeps ==
  ASSUME CursorTypeOK, CursorInv, NEW c \in Clients, Authorized(c)
  PROVE  CursorInv'
<1>1. \A d \in Clients : Alike(sess[d], sess'[d])
  BY DEF Authorized, Alike
<1>2. KindInv(c)' /\ StageInv(c)'
  BY DEF Authorized, GoTo, At, HasAccess, CursorInv, OpInv, Idle, KindInv, StageInv, CursorTypeOK
<1>3. OpInv'
  BY <1>2, OneOperation DEF Authorized, GoTo, At, Idle, CursorInv, CursorTypeOK
<1>4. ReadInv'
  BY <1>1, LedgerAlone DEF Authorized, GoTo, At, CursorInv, ReadInv, CursorTypeOK, Place, Reached
<1>5. QED
  BY <1>1, <1>3, <1>4, LedgerAlone DEF Authorized, CursorInv

\* What is known of a client's operation and session.
LEMMA OpFacts ==
  ASSUME CursorTypeOK, CursorInv, NEW c \in Clients
  PROVE  KindInv(c) /\ StageInv(c)
BY DEF CursorInv, OpInv

\* Where a cursor stands.
LEMMA AtPlaceFacts ==
  ASSUME CursorTypeOK, CursorInv, NEW c \in Clients, AtPlace(c)
  PROVE  /\ rec.digest \in Pages /\ InPage /\ PageRows[rec.digest] \in Nat /\ rec.offset <= PageRows[rec.digest]
         /\ rec.next = NextToken(rec.digest) /\ handed \cup told = Place
         /\ Place = RowsUpTo(rec.digest, rec.offset)
         /\ sess[c].page = rec.digest /\ sess[c].index = rec.offset
         /\ sess[c].done = (NextToken(rec.digest) = 0) /\ (sess[c].aborted \/ sess[c].size = PageRows[rec.digest])
<1>1. rec.digest \in Pages
  BY FieldsAreTyped, PagesAreCounted DEF CursorInv, SessionInv, AtPlace, IsLoaded, Pages, Tokens
<1>2. rec.digest # 0 /\ PageRows[rec.digest] \in Nat
  BY <1>1, PagesAreCounted DEF Pages
<1>3. InPage /\ rec.next = NextToken(rec.digest)
  BY <1>2 DEF CursorInv, LedgerInv
<1>4. handed \cup told = Place
  BY DEF CursorInv, ReadInv
<1>5. Place = RowsUpTo(rec.digest, rec.offset)
  BY <1>3 DEF InPage, Place
<1>6. QED
  BY <1>1, <1>2, <1>3, <1>4, <1>5 DEF CursorInv, LedgerInv, SessionInv, AtPlace

\* A session that has not read anything is at the start of the result.
LEMMA UnloadedFacts ==
  ASSUME CursorTypeOK, CursorInv, NEW c \in Clients, sess[c] # None, ~sess[c].loaded
  PROVE  /\ rec.cursor = None /\ rec.token = 0 /\ Place = {} /\ handed \cup told = Place
         /\ RowsUpTo(1, 0) = {} /\ rec.offset = 0
<1>1. rec.cursor = None /\ rec.token = 0
  BY DEF CursorInv, SessionInv
<1>2. Place = {} /\ handed \cup told = Place
  BY <1>1 DEF CursorInv, CurrentInv
<1>3. RowsUpTo(1, 0) = {}
  BY DEF RowsUpTo, Rows
<1>4. rec.offset = 0
  <2>1. ASSUME rec.offset # 0 PROVE FALSE
    <3>1. <<1, 1>> \in Rows(1, 1, rec.offset)
      BY <2>1, FieldsAreTyped DEF Rows
    <3>2. QED
      BY <1>1, <1>2, <3>1 DEF Place, PageAt, RowsUpTo
  <2>2. QED
    BY <2>1
<1>5. QED
  BY <1>1, <1>2, <1>3, <1>4

\* What the next page of the service is.
LEMMA NextPageFacts ==
  ASSUME CursorTypeOK, CursorInv, rec.digest \in Pages, InPage, rec.offset = PageRows[rec.digest], rec.next # 0
  PROVE  /\ rec.next = rec.digest + 1 /\ PageAt(rec.next) = rec.next /\ rec.next \in Pages
         /\ RowsUpTo(PageAt(rec.next), 0) = Place
<1>1. rec.next = rec.digest + 1 /\ rec.next \in Pages
  BY PagesAreCounted DEF CursorInv, LedgerInv, NextToken, Pages
<1>2. PageAt(rec.next) = rec.next
  BY DEF PageAt
<1>3. RowsUpTo(PageAt(rec.next), 0) = Place
  BY <1>1, <1>2, PageEnds DEF Place, InPage
<1>4. QED
  BY <1>1, <1>2, <1>3

\* The four turns of a loop: rows to take, an empty result, the end, a page.
Turn(c, o, s) == op' = [op EXCEPT ![c] = o] /\ sess' = [sess EXCEPT ![c] = s]

\* A loop goes on in one of the four ways.
LEMMA LoopTurns ==
  ASSUME CursorTypeOK, NEW c \in Clients, Loop(c), sess[c] # None
  PROVE  LET s == sess[c] o == op[c] IN
         \/ s.loaded /\ s.index < s.size /\ Turn(c, [o EXCEPT !.at = "take"], s)
         \/ /\ s.loaded /\ s.index >= s.size /\ s.done
            /\ \/ Turn(c, [o EXCEPT !.at = "deliver", !.token = 0], [s EXCEPT !.emptied = TRUE])
               \/ Turn(c, Idle, s)
         \/ /\ s.loaded /\ s.index >= s.size /\ ~s.done
            /\ Turn(c, [o EXCEPT !.at = "fetch", !.token = rec.next, !.refetch = FALSE], s)
         \/ ~s.loaded /\ Turn(c, [o EXCEPT !.at = "fetch", !.token = rec.token, !.refetch = FALSE], s)
<1> DEFINE s == sess[c]
           o == op[c]
<1>0. sess = [sess EXCEPT ![c] = s] /\ op = [op EXCEPT ![c] = o] /\ s.index \in Nat /\ s.size \in Nat
  BY FieldsAreTyped DEF CursorTypeOK
<1>1. CASE s.loaded /\ s.index < s.size /\ GoTo(c, "take") /\ UNCHANGED sess
  BY <1>0, <1>1 DEF GoTo, Turn
<1>2. CASE /\ s.loaded /\ s.index >= s.size /\ s.done
           /\ op' = [op EXCEPT ![c].at = "deliver", ![c].token = 0] /\ sess' = [sess EXCEPT ![c].emptied = TRUE]
  <2>1. op' = [op EXCEPT ![c] = [o EXCEPT !.at = "deliver", !.token = 0]]
    BY <1>2 DEF CursorTypeOK
  <2>2. QED
    BY <1>0, <1>2, <2>1 DEF Turn
<1>3. CASE s.loaded /\ s.index >= s.size /\ s.done /\ Return(c) /\ UNCHANGED sess
  BY <1>0, <1>3 DEF Return, Turn
<1>4. CASE /\ ~(s.loaded /\ (s.index < s.size \/ s.done)) /\ UNCHANGED sess
           /\ Fetching(c, IF s.loaded THEN rec.next ELSE rec.token, FALSE)
  <2>1. \A token : Fetching(c, token, FALSE) =>
          op' = [op EXCEPT ![c] = [o EXCEPT !.at = "fetch", !.token = token, !.refetch = FALSE]]
    BY DEF Fetching, CursorTypeOK
  <2>2. CASE s.loaded
    <3>1. ~(s.index < s.size) /\ ~s.done /\ Fetching(c, rec.next, FALSE)
      BY <1>4, <2>2, Zenon
    <3>3. s.index >= s.size
      BY <1>0, <3>1
    <3>2. QED
      BY <1>0, <1>4, <2>1, <2>2, <3>1, <3>3 DEF Turn
  <2>3. CASE ~s.loaded
    BY <1>0, <1>4, <2>1, <2>3 DEF Turn
  <2>4. QED
    BY <2>2, <2>3
<1>5. QED
  BY <1>1, <1>2, <1>3, <1>4 DEF Loop

\* The loop over the pages.
LEMMA LoopKeeps ==
  ASSUME CursorTypeOK, CursorInv, NEW c \in Clients, Loop(c)
  PROVE  CursorInv'
<1> DEFINE s == sess[c]
           o == op[c]
<1>1. /\ o.kind = "read" /\ o.at = "loop" /\ s # None /\ s.access = rec.access
      /\ o.rows = {} /\ ~s.aborted /\ o \in Operations /\ s \in Sessions
  BY OpFacts, OperationsAreTyped, SessionsAreTyped DEF Loop, At, KindInv
<1>2. UNCHANGED <<rec, complete, given, handed, told>>
  BY DEF Loop
<1>3. s.loaded => AtPlace(c)
  BY <1>1 DEF Loop, InPlace, AtPlace, IsLoaded
<1>4. /\ \A d \in Clients : Alike(sess[d], sess'[d])
      /\ \A d \in Clients \ {c} : op'[d] = op[d]
      /\ KindInv(c)' /\ StageInv(c)' /\ (op'[c].at \in {"fetch", "get", "installed"} => handed \cup told = Place)
  <2>1. CASE s.loaded /\ s.index < s.size /\ Turn(c, [o EXCEPT !.at = "take"], s)
    <3>1. op'[c] = [o EXCEPT !.at = "take"] /\ sess' = sess /\ \A d \in Clients \ {c} : op'[d] = op[d]
      BY <2>1 DEF Turn, CursorTypeOK
    <3>2. \A d \in Clients : Alike(sess[d], sess'[d])
      BY <3>1 DEF Alike
    <3>3. StageInv(c)'
      BY <1>1, <1>2, <1>3, <2>1, <3>1, AtPlaceFacts DEF StageInv, AtPlace, IsLoaded, InPage, Operations
    <3>4. KindInv(c)'
      BY <1>1, <1>2, <3>1 DEF KindInv, Operations
    <3>5. QED
      BY <1>1, <3>1, <3>2, <3>3, <3>4 DEF Operations
  <2>2. CASE /\ s.loaded /\ s.index >= s.size /\ s.done
             /\ Turn(c, [o EXCEPT !.at = "deliver", !.token = 0], [s EXCEPT !.emptied = TRUE])
    <3>1. /\ op'[c] = [o EXCEPT !.at = "deliver", !.token = 0] /\ sess'[c] = [s EXCEPT !.emptied = TRUE]
          /\ \A d \in Clients \ {c} : op'[d] = op[d] /\ sess'[d] = sess[d]
      BY <2>2 DEF Turn, CursorTypeOK
    <3>2. Alike(s, sess'[c]) /\ sess'[c] # None
      <4>1. sess'[c] \in Sessions
        BY <1>1, <3>1, SessionsAreTyped
      <4>2. Alike(s, sess'[c])
        BY <1>1, <3>1 DEF Alike, Sessions
      <4>3. QED
        BY <4>1, <4>2, NoneAssumption
    <3>3. \A d \in Clients : Alike(sess[d], sess'[d])
      BY <3>1, <3>2 DEF Alike
    <3>4. KindInv(c)'
      BY <1>1, <1>2, <3>1, <3>2 DEF KindInv, Operations, Alike
    <3>5. o.rows = Rows(s.page, s.index + 1, s.index + 0) /\ s.index + 0 <= s.size
      <4>1. s.index + 0 <= s.size
        BY <1>1, <1>3, <2>2, AtPlaceFacts, FieldsAreTyped
      <4>2. (s.index + 1)..(s.index + 0) = {}
        BY <1>1, FieldsAreTyped
      <4>3. QED
        BY <1>1, <4>1, <4>2 DEF Rows
    <3>6. StageInv(c)'
      BY <1>1, <1>2, <1>3, <2>2, <3>1, <3>2, <3>5, AtPlaceFacts
      DEF StageInv, AtPlace, IsLoaded, InPage, Operations, Sessions
    <3>7. QED
      BY <1>1, <3>1, <3>3, <3>4, <3>6 DEF Operations
  <2>3. CASE Turn(c, Idle, s)
    <3>1. op'[c] = Idle /\ sess' = sess /\ \A d \in Clients \ {c} : op'[d] = op[d]
      BY <2>3 DEF Turn, CursorTypeOK
    <3>2. \A d \in Clients : Alike(sess[d], sess'[d])
      BY <3>1 DEF Alike
    <3>3. op'[c].at \notin {"fetch", "get", "installed"}
      BY <3>1 DEF Idle
    <3>4. QED
      BY <3>1, <3>2, <3>3, AtRest
  <2>4. ASSUME NEW token \in {rec.token, rec.next},
               Turn(c, [o EXCEPT !.at = "fetch", !.token = token, !.refetch = FALSE], s),
               IF s.loaded THEN s.index >= s.size /\ ~s.done /\ token = rec.next ELSE token = rec.token
        PROVE  <1>4!1 /\ <1>4!2 /\ KindInv(c)' /\ StageInv(c)' /\ handed \cup told = Place
    <3>1. /\ op'[c] = [o EXCEPT !.at = "fetch", !.token = token, !.refetch = FALSE] /\ sess' = sess
          /\ \A d \in Clients \ {c} : op'[d] = op[d]
      BY <2>4 DEF Turn, CursorTypeOK
    <3>2. KindInv(c)'
      BY <1>1, <1>2, <3>1 DEF KindInv, Operations
    <3>3. \A d \in Clients : Alike(sess[d], sess'[d])
      BY <3>1 DEF Alike
    <3>4. op'[c].kind = "read" /\ op'[c].at = "fetch" /\ op'[c].token = token /\ op'[c].refetch = FALSE
      BY <1>1, <3>1 DEF Operations
    <3>5. FetchInv(c)' /\ handed \cup told = Place
      <4>1. CASE s.loaded
        <5>1. token = rec.next /\ rec.next # 0 /\ rec.offset = PageRows[rec.digest]
          <6>1. AtPlace(c) /\ s.index >= s.size /\ ~s.done /\ token = rec.next /\ s.index \in Nat /\ s.size \in Nat
            BY <1>1, <1>3, <2>4, <4>1, FieldsAreTyped
          <6>2. s.size = PageRows[rec.digest] /\ PageRows[rec.digest] \in Nat /\ s.index = rec.offset
                /\ rec.offset <= PageRows[rec.digest]
            BY <1>1, <6>1, AtPlaceFacts
          <6>3. rec.next # 0
            BY <6>1, AtPlaceFacts
          <6>4. QED
            BY <6>1, <6>2, <6>3
        <5>2. RowsUpTo(PageAt(token), 0) = Place
          BY <1>3, <4>1, <5>1, AtPlaceFacts, NextPageFacts
        <5>3. QED
          BY <1>1, <1>2, <1>3, <3>1, <3>4, <4>1, <5>1, <5>2, AtPlaceFacts DEF FetchInv, IsLoaded, InPage, Place
      <4>2. CASE ~s.loaded
        BY <1>1, <1>2, <2>4, <3>1, <3>4, <4>2, UnloadedFacts DEF FetchInv, IsLoaded, Place, PageAt
      <4>3. QED
        BY <4>1, <4>2
    <3>6. StageInv(c)'
      BY <3>4, <3>5 DEF StageInv
    <3>7. QED
      BY <3>1, <3>2, <3>3, <3>5, <3>6
  <2>5. QED
    BY <1>1, <2>1, <2>2, <2>3, <2>4, LoopTurns
<1>5. OpInv'
  BY <1>1, <1>4, OneOperation DEF CursorInv, Idle
<1>6. ReadInv'
  BY <1>2, <1>4, LedgerAlone DEF CursorInv, ReadInv, Place, Reached
<1>7. QED
  BY <1>2, <1>4, <1>5, <1>6, LedgerAlone DEF CursorInv

\* A page is taken.
LEMMA TakeKeeps ==
  ASSUME CursorTypeOK, CursorInv, NEW c \in Clients, Take(c)
  PROVE  CursorInv'
<1> DEFINE s == sess[c]
           o == op[c]
           n == s.size - s.index
           wanted == IF s.mode = "row" THEN 1 ELSE n
           amount == IF wanted < MaxRows - rec.rows THEN wanted ELSE MaxRows - rec.rows
           last == IF s.index + amount < s.size THEN s.index + amount ELSE s.size
           taken == Rows(s.page, s.index + 1, last)
<1>1. /\ o.kind = "read" /\ o.at = "take" /\ s # None /\ s.access = rec.access
      /\ o \in Operations /\ AtPlace(c) /\ InPage /\ s.size = PageRows[s.page] /\ s.index < s.size
  BY OpFacts, OperationsAreTyped DEF Take, At, KindInv, StageInv
<1>2. UNCHANGED <<rec, complete, sess, given, handed, told>> /\ \A d \in Clients : Alike(sess[d], sess'[d])
  BY DEF Take, Alike
<1>3. amount \in Nat /\ s.index + amount <= s.size /\ last = s.index + amount
  <2>1. s.index \in Nat /\ s.size \in Nat /\ rec.rows \in Nat /\ MaxRows \in Nat
    BY <1>1, FieldsAreTyped, BoundsAreNumbers
  <2>2. amount >= 1
    BY DEF Take
  <2>3. wanted \in Nat /\ wanted <= n
    BY <1>1, <2>1
  <2>4. amount \in Nat /\ amount <= n
    BY <2>1, <2>2, <2>3
  <2> HIDE DEF amount
  <2>5. QED
    BY <2>1, <2>4
<1>4. /\ op' = [op EXCEPT ![c] = [o EXCEPT !.at = "deliver", !.token = amount, !.rows = taken]]
      /\ op'[c] = [o EXCEPT !.at = "deliver", !.token = amount, !.rows = taken]
  BY DEF Take, CursorTypeOK
<1> HIDE DEF amount, last, taken
<1>5. op'[c].kind = "read" /\ op'[c].at = "deliver" /\ op'[c].token = amount /\ op'[c].rows = taken
  <2>1. o \in Operations /\ o.kind = "read"
    BY <1>1
  <2> DEFINE to(x, y) == [o EXCEPT !.at = "deliver", !.token = x, !.rows = y]
  <2>2. \A x, y : to(x, y).kind = "read" /\ to(x, y).at = "deliver" /\ to(x, y).token = x /\ to(x, y).rows = y
    BY <2>1 DEF Operations
  <2>3. op'[c] = to(amount, taken)
    BY <1>4
  <2> HIDE DEF to
  <2>4. QED
    BY <2>2, <2>3
<1>6. KindInv(c)'
  BY <1>1, <1>2, <1>5 DEF KindInv
<1>7. StageInv(c)'
  BY <1>1, <1>2, <1>3, <1>5 DEF StageInv, AtPlace, IsLoaded, InPage, taken
<1>8. OpInv'
  BY <1>1, <1>4, <1>6, <1>7, OneOperation DEF CursorInv, Idle
<1>9. ReadInv'
  BY <1>2, <1>4, <1>5, LedgerAlone DEF CursorInv, ReadInv, Place, Reached
<1>10. QED
  BY <1>2, <1>8, <1>9, LedgerAlone DEF CursorInv

\* Rows are delivered.
LEMMA DeliverKeeps ==
  ASSUME CursorTypeOK, CursorInv, NEW c \in Clients, Deliver(c)
  PROVE  CursorInv'
<1> DEFINE s == sess[c]
           o == op[c]
           offset == s.index + o.token
           k == rec'.cursor
<1>1. /\ o.kind = "read" /\ o.at = "deliver" /\ s # None /\ s.access = rec.access
      /\ AtPlace(c) /\ InPage /\ s.size = PageRows[s.page]
      /\ o.rows = Rows(s.page, s.index + 1, offset) /\ offset <= s.size
  BY OpFacts DEF Deliver, At, KindInv, StageInv
<1>2. UNCHANGED <<complete, sess, given, handed, told>>
  BY DEF Deliver
<1>3. /\ rec'.token = rec.token /\ rec'.next = rec.next /\ rec'.digest = rec.digest /\ rec'.seen = rec.seen
      /\ rec'.access = rec.access /\ rec'.offset = offset /\ rec'.rows = rec.rows + o.token /\ rec'.refs = rec.refs + 1
  BY DEF Deliver, CursorTypeOK, Records
<1>4. /\ Boundary(s, offset) => k = [token |-> rec.next, offset |-> 0, partial |-> FALSE, ref |-> rec.refs + 1]
      /\ ~Boundary(s, offset) => k = [token |-> rec.token, offset |-> offset, partial |-> TRUE, ref |-> rec.refs + 1]
      /\ op' = [op EXCEPT ![c] = [o EXCEPT !.at = "delivered", !.cursor = k]]
  BY DEF Deliver, CursorTypeOK, Records
<1>5. /\ rec.digest \in Pages /\ PageRows[rec.digest] \in Nat /\ s.page = rec.digest /\ s.index = rec.offset
      /\ handed \cup told = RowsUpTo(rec.digest, rec.offset) /\ Place = RowsUpTo(rec.digest, rec.offset)
      /\ o.token \in Nat /\ rec.offset \in Nat /\ rec.refs \in Nat /\ offset \in Nat /\ offset <= PageRows[rec.digest]
  <2>1. s.page = rec.digest /\ s.index = rec.offset
    BY <1>1 DEF AtPlace
  <2>2. QED
    BY <1>1, <2>1, AtPlaceFacts, FieldsAreTyped
<1>6. Place' = RowsUpTo(rec.digest, offset)
  BY <1>1, <1>3 DEF Place, InPage
<1>7. /\ Place' = Place \cup o.rows /\ Cardinality(Place') = Cardinality(Place) + o.token
      /\ o.token = 0 => Place' = Place
  <2>1. rec.digest \in Nat /\ rec.digest <= Len(PageRows) + 1
    BY <1>5, PagesAreCounted DEF Pages
  <2>5. rec.offset \in Nat /\ o.token \in Nat
    BY <1>5
  <2>2. RowsUpTo(rec.digest, rec.offset + o.token)
          = RowsUpTo(rec.digest, rec.offset) \cup Rows(rec.digest, rec.offset + 1, rec.offset + o.token)
    BY <2>1, <2>5, RowsCount
  <2>6. Cardinality(RowsUpTo(rec.digest, rec.offset + o.token)) = Cardinality(RowsUpTo(rec.digest, rec.offset)) + o.token
    <3>1. \A page, old, more \in Nat : page <= Len(PageRows) + 1 =>
            Cardinality(RowsUpTo(page, old + more)) = Cardinality(RowsUpTo(page, old)) + more
      BY RowsCount
    <3>2. QED
      BY <2>1, <2>5, <3>1
  <2>3. o.token = 0 => rec.offset + o.token = rec.offset
    BY <1>5
  <2>4. QED
    BY <1>1, <1>5, <1>6, <2>2, <2>3, <2>6
<1>8. k \in Cursors /\ k.ref = rec.refs + 1 /\ k \notin given \cup {None} /\ k # None
  <2>1. k \in Cursors /\ k.ref = rec.refs + 1
    <3> DEFINE made(x, y, z) == [token |-> x, offset |-> y, partial |-> z, ref |-> rec.refs + 1]
    <3>1. rec.next \in Tokens /\ rec.token \in Tokens /\ rec.refs + 1 \in Nat /\ offset \in Nat
      BY <1>5, FieldsAreTyped
    <3>2. \A x \in Tokens, y \in Nat, z \in BOOLEAN : made(x, y, z) \in Cursors /\ made(x, y, z).ref = rec.refs + 1
      BY <3>1 DEF Cursors
    <3>3. k = made(rec.next, 0, FALSE) \/ k = made(rec.token, offset, TRUE)
      BY <1>4
    <3> HIDE DEF made
    <3>4. QED
      <4>1. CASE k = made(rec.next, 0, FALSE)
        <5>1. made(rec.next, 0, FALSE) \in Cursors /\ made(rec.next, 0, FALSE).ref = rec.refs + 1
          BY <3>1, <3>2
        <5> QED
          BY <4>1, <5>1
      <4>2. CASE k = made(rec.token, offset, TRUE)
        <5>1. made(rec.token, offset, TRUE) \in Cursors /\ made(rec.token, offset, TRUE).ref = rec.refs + 1
          BY <3>1, <3>2
        <5> QED
          BY <4>2, <5>1
      <4> QED
        BY <3>3, <4>1, <4>2
  <2>2. \A g \in given : g.ref <= rec.refs
    BY DEF CursorInv, ReadInv
  <2>3. k \notin given
    BY <1>5, <2>1, <2>2
  <2>4. QED
    BY <2>1, <2>3, NoneAssumption
<1>9. LedgerInv'
  <2>1. rec.digest # 0
    BY <1>5 DEF Pages
  <2>2. complete /\ rec.next = NextToken(rec.digest) /\ rec.seen = 2..rec.digest /\ rec.token # 1
        /\ rec.rows = Cardinality(Place)
    BY <2>1 DEF CursorInv, LedgerInv
  <2>3. InPage'
    BY <1>1, <1>3 DEF InPage
  <2>4. QED
    BY <1>2, <1>3, <1>5, <1>7, <2>1, <2>2, <2>3 DEF LedgerInv
<1>10. CurrentInv'
  <2>1. CASE Boundary(s, offset)
    <3>1. rec.next # 0 /\ offset = PageRows[rec.digest]
      BY <1>1, <1>5, <2>1 DEF Boundary
    <3>2. rec.next = rec.digest + 1 /\ PageAt(rec.next) = rec.next
      BY <3>1, <1>5, PagesAreCounted DEF CursorInv, LedgerInv, NextToken, Pages, PageAt
    <3>4. k.token = rec.digest + 1 /\ k.offset = 0 /\ ~k.partial /\ PageAt(k.token) = rec.digest + 1
      BY <1>4, <2>1, <3>2
    <3>3. Reached(rec.cursor)' = Place'
      BY <1>5, <1>6, <3>1, <3>4, PageEnds DEF Reached
    <3>5. k.token \in 2..(rec.digest + 1) /\ k.token # rec.digest /\ rec.digest <= k.token
      BY <3>4, <1>5 DEF Pages
    <3>6. rec.refs + 1 <= rec.refs + 1
      BY <1>5
    <3>7. QED
      BY <1>3, <1>8, <3>3, <3>4, <3>5, <3>6 DEF CurrentInv
  <2>2. CASE ~Boundary(s, offset)
    <3>1. k.token = rec.token /\ k.offset = offset /\ k.partial
      BY <1>4, <2>2
    <3>2. Reached(rec.cursor)' = Place'
      BY <1>3, <3>1 DEF Reached, Place
    <3>3. offset < PageRows[rec.digest] \/ rec.next = 0
      BY <1>1, <1>5, <2>2 DEF Boundary
    <3>4. InPage'
      BY <1>1, <1>3 DEF InPage
    <3>5. rec.refs + 1 <= rec.refs + 1
      BY <1>5
    <3>6. QED
      BY <1>3, <1>8, <3>1, <3>2, <3>3, <3>4, <3>5 DEF CurrentInv
  <2>3. QED
    BY <2>1, <2>2
<1>11. SessionInv'
  <2>1. ASSUME NEW d \in Clients, sess[d] # None, ~sess[d].loaded PROVE FALSE
    <3>1. rec.cursor = None
      BY <2>1 DEF CursorInv, SessionInv
    <3>2. d = c
      BY <1>1, <2>1, <3>1 DEF CursorInv, CurrentInv
    <3>3. QED
      BY <1>1, <2>1, <3>2 DEF AtPlace, IsLoaded
  <2>2. ASSUME NEW d \in Clients, IsLoaded(d), sess[d].page = rec.digest PROVE sess[d].index <= offset
    <3>1. sess[d].index <= rec.offset /\ sess[d].index \in Nat
      BY <1>1, <2>2, FieldsAreTyped DEF CursorInv, SessionInv, IsLoaded
    <3>2. QED
      BY <1>5, <3>1
  <2>3. \A d \in Clients : IsLoaded(d)' = IsLoaded(d)
    BY <1>2 DEF IsLoaded
  <2>4. QED
    BY <1>2, <1>3, <2>1, <2>2, <2>3 DEF CursorInv, SessionInv
<1>12. OpInv'
  <2>1. op'[c].kind = "read" /\ op'[c].at = "delivered" /\ op'[c].token = o.token /\ op'[c].rows = o.rows /\ op'[c].cursor = k
    BY <1>1, <1>4 DEF CursorTypeOK, Operations
  <2>2. KindInv(c)'
    BY <1>1, <1>2, <1>3, <2>1 DEF KindInv
  <2>3. StageInv(c)'
    BY <1>1, <1>2, <1>3, <1>5, <1>8, <2>1 DEF StageInv, AtPlace, IsLoaded, InPage
  <2>4. QED
    BY <1>1, <1>4, <2>2, <2>3, OneOperation DEF CursorInv, Idle
<1>13. ReadInv'
  <2>1. \A g \in given : Reached(g) \subseteq handed \cup told /\ g.ref <= rec.refs + 1
    <3>1. \A g \in given : Reached(g) \subseteq handed \cup told /\ g.ref <= rec.refs /\ g.ref \in Nat
      BY DEF CursorInv, ReadInv, CursorTypeOK, Cursors
    <3>2. QED
      BY <1>5, <3>1
  <2>2. handed \cup told \subseteq Place'
    BY <1>5, <1>7
  <2>3. ASSUME NEW d \in Clients, AtPlace(d)' PROVE handed \cup told = Place'
    <3>1. IsLoaded(d) /\ sess[d].page = rec.digest /\ sess[d].index = offset
      BY <1>2, <1>3, <2>3 DEF AtPlace, IsLoaded
    <3>2. sess[d].index <= rec.offset
      BY <1>1, <3>1 DEF CursorInv, SessionInv
    <3>3. o.token = 0
      BY <1>5, <3>1, <3>2
    <3>4. QED
      BY <1>5, <1>7, <3>3
  <2>4. \A d \in Clients : op'[d].at \notin {"fetch", "get", "installed"}
    <3>1. op'[c].at = "delivered"
      BY <1>1, <1>4 DEF CursorTypeOK, Operations
    <3>2. \A d \in Clients \ {c} : op'[d] = Idle
      <4>1. op[c] # Idle
        BY <1>1 DEF Idle
      <4>2. \A d \in Clients \ {c} : op'[d] = op[d]
        BY <1>4
      <4>3. QED
        BY <4>1, <4>2 DEF CursorInv, OpInv
    <3>3. QED
      BY <3>1, <3>2 DEF Idle
  <2>5. QED
    BY <1>2, <1>3, <1>8, <2>1, <2>2, <2>3, <2>4 DEF ReadInv, Reached
<1>14. QED
  BY <1>9, <1>10, <1>11, <1>12, <1>13 DEF CursorInv

\* The caller learns of the rows that were counted, or of an error.
LEMMA AnsweredKeeps ==
  ASSUME CursorTypeOK, CursorInv, NEW c \in Clients, At(c, "read", "delivered"), Return(c),
         sess' = [sess EXCEPT ![c].index = @ + op[c].token],
         UNCHANGED <<rec, complete>>, (handed \cup told)' = handed \cup told \cup op[c].rows,
         \/ given' = given
         \/ given' = given \cup {op[c].cursor}
  PROVE  CursorInv'
<1> DEFINE s == sess[c]
           o == op[c]
<1>1. /\ o.kind = "read" /\ o.at = "delivered" /\ s # None /\ IsLoaded(c) /\ InPage
      /\ s.page = rec.digest /\ rec.offset = s.index + o.token
      /\ o.rows = Rows(s.page, s.index + 1, rec.offset) /\ o.cursor = rec.cursor /\ rec.cursor # None
      /\ handed \cup told = RowsUpTo(rec.digest, s.index)
  BY OpFacts DEF At, KindInv, StageInv
<1>2. s.page \in 1..rec.digest /\ s.done = (NextToken(s.page) = 0) /\ (s.aborted \/ s.size = PageRows[s.page])
      /\ rec.digest \in Pages /\ rec.offset <= PageRows[rec.digest] /\ rec.refs \in Nat
  <2>1. s.page \in 1..rec.digest /\ s.done = (NextToken(s.page) = 0) /\ (s.aborted \/ s.size = PageRows[s.page])
    BY <1>1 DEF CursorInv, SessionInv
  <2>2. rec.digest \in Pages
    BY <2>1, FieldsAreTyped, PagesAreCounted DEF Pages, Tokens
  <2>3. QED
    BY <1>1, <2>1, <2>2, FieldsAreTyped DEF CursorInv, LedgerInv
<1>3. /\ \A d \in Clients \ {c} : sess'[d] = sess[d]
      /\ sess'[c] # None /\ sess'[c].loaded /\ sess'[c].page = s.page /\ sess'[c].index = rec.offset
      /\ sess'[c].done = s.done /\ sess'[c].size = s.size /\ sess'[c].aborted = s.aborted
  <2>1. s \in Sessions /\ o.token \in Nat
    BY <1>1, SessionsAreTyped, FieldsAreTyped
  <2>2. sess'[c] = [s EXCEPT !.index = s.index + o.token]
    BY <2>1 DEF CursorTypeOK
  <2>3. sess'[c] \in Sessions
    BY <1>1, <2>1, <2>2, SessionsAreTyped
  <2>4. sess'[c].loaded /\ sess'[c].page = s.page /\ sess'[c].index = rec.offset
        /\ sess'[c].done = s.done /\ sess'[c].size = s.size /\ sess'[c].aborted = s.aborted
    BY <1>1, <2>1, <2>2 DEF Sessions, IsLoaded
  <2>5. QED
    BY <2>3, <2>4, NoneAssumption
<1>4. (handed \cup told)' = Place
  <2>1. Place = RowsUpTo(rec.digest, rec.offset)
    BY <1>1 DEF Place, InPage
  <2>2. rec.digest \in Nat /\ rec.digest <= Len(PageRows) + 1 /\ s.index \in Nat /\ o.token \in Nat
    BY <1>1, <1>2, FieldsAreTyped, PagesAreCounted DEF Pages
  <2>3. RowsUpTo(rec.digest, s.index + o.token)
          = RowsUpTo(rec.digest, s.index) \cup Rows(rec.digest, s.index + 1, s.index + o.token)
    BY <2>2, RowsCount
  <2>4. QED
    BY <1>1, <2>1, <2>3
<1>5. LedgerInv'
  BY <1>1, <1>2 DEF CursorInv, LedgerInv, InPage, Place, Pages
<1>6. CurrentInv'
  BY <1>1 DEF CursorInv, CurrentInv, InPage, Place, Reached
<1>7. SessionInv'
  <2>1. \A d \in Clients \ {c} : IsLoaded(d)' = IsLoaded(d)
    BY <1>3 DEF IsLoaded
  <2>2. rec.offset <= rec.offset
    BY FieldsAreTyped
  <2>3. QED
    BY <1>1, <1>2, <1>3, <2>1, <2>2 DEF CursorInv, SessionInv, InPage
<1>8. OpInv'
  <2>1. op'[c] = Idle /\ \A d \in Clients \ {c} : op'[d] = op[d]
    BY DEF Return, CursorTypeOK
  <2>2. op[c] # Idle
    BY <1>1 DEF Idle
  <2>3. QED
    BY <2>1, <2>2, AtRest, OneOperation DEF CursorInv
<1>9. ReadInv'
  <2>1. \A g \in given : Reached(g) \subseteq Place /\ g.ref <= rec.refs
    BY DEF CursorInv, ReadInv
  <2>2. Reached(rec.cursor) = Place /\ rec.cursor.ref <= rec.refs
    BY <1>1 DEF CursorInv, CurrentInv
  <2>3. Place' = Place
    BY DEF Place
  <2>4. QED
    BY <1>1, <1>4, <2>1, <2>2, <2>3 DEF ReadInv, Reached
<1>10. QED
  BY <1>5, <1>6, <1>7, <1>8, <1>9 DEF CursorInv

\* A page is charged.
LEMMA ChargeKeeps ==
  ASSUME CursorTypeOK, CursorInv, NEW c \in Clients, Charge(c)
  PROVE  CursorInv'
<1>1. /\ rec'.token = rec.token /\ rec'.next = rec.next /\ rec'.digest = rec.digest /\ rec'.offset = rec.offset
      /\ rec'.rows = rec.rows /\ rec'.seen = rec.seen /\ rec'.access = rec.access /\ rec'.refs = rec.refs
      /\ rec'.cursor = rec.cursor
  BY DEF Charge, CursorTypeOK, Records
<1>2. UNCHANGED <<complete, sess, given, handed, told>> /\ op[c].at = "fetch" /\ op[c] # Idle
  BY DEF Charge, Idle
<1>3. /\ op' = [op EXCEPT ![c] = [op[c] EXCEPT !.at = "get"]] /\ op'[c].at = "get" /\ op'[c].kind = op[c].kind
      /\ op'[c].token = op[c].token /\ op'[c].refetch = op[c].refetch /\ op'[c].rows = op[c].rows
      /\ op'[c].cursor = op[c].cursor /\ op'[c].session = op[c].session
  <2>1. op' = [op EXCEPT ![c] = [op[c] EXCEPT !.at = "get"]]
    BY DEF Charge, GoTo, CursorTypeOK
  <2>2. op[c] \in Operations
    BY OperationsAreTyped
  <2>3. QED
    BY <2>1, <2>2 DEF CursorTypeOK, Operations
<1>4. UNCHANGED Place /\ UNCHANGED InPage /\ \A d \in Clients : AtPlace(d)' = AtPlace(d) /\ IsLoaded(d)' = IsLoaded(d)
  BY <1>1, <1>2 DEF Place, InPage, AtPlace, IsLoaded
<1>5. LedgerInv' /\ CurrentInv' /\ SessionInv'
  <2>1. LedgerInv'
    BY <1>1, <1>2, <1>4 DEF CursorInv, LedgerInv
  <2>2. CurrentInv'
    BY <1>1, <1>2, <1>4 DEF CursorInv, CurrentInv, Reached
  <2>3. SessionInv'
    BY <1>1, <1>2, <1>4 DEF CursorInv, SessionInv
  <2>4. QED
    BY <2>1, <2>2, <2>3
<1>6. KindInv(c)'
  <2>1. op[c].kind \in {"read", "resume"} /\ op'[c] # Idle
    BY <1>2, <1>3, OpFacts DEF KindInv, Idle
  <2>2. CASE op[c].kind = "read"
    BY <1>1, <1>2, <1>3, <2>2, OpFacts DEF KindInv
  <2>3. CASE op[c].kind = "resume"
    BY <1>1, <1>2, <1>3, <2>3, OpFacts DEF KindInv
  <2>4. QED
    BY <2>1, <2>2, <2>3
<1>7. StageInv(c)'
  BY <1>1, <1>2, <1>3, <1>4, OpFacts DEF StageInv, FetchInv
<1>8. OpInv'
  BY <1>2, <1>3, <1>6, <1>7, OneOperation DEF CursorInv
<1>9. ReadInv'
  BY <1>1, <1>2, <1>3, <1>4 DEF CursorInv, ReadInv, Reached
<1>10. QED
  BY <1>5, <1>8, <1>9 DEF CursorInv

\* The page installed is the one the ledger knows, or the one after it.
LEMMA InstalledPage ==
  ASSUME CursorTypeOK, CursorInv, NEW c \in Clients, Install(c), ~op[c].refetch
  PROVE  LET page == PageAt(op[c].token) IN
         /\ op[c].token # 1 /\ op[c].token \in Tokens /\ page \in Pages
         /\ (IF op[c].token = 0 THEN rec.seen ELSE rec.seen \cup {op[c].token}) = 2..page
         /\ \/ rec.digest = page /\ rec.offset = 0 /\ InPage
            \/ rec.digest = 0 /\ page = 1
            \/ rec.digest \in Pages /\ page = rec.digest + 1
               /\ (rec.cursor = None \/ rec.cursor.token = page
                   \/ (InPage /\ rec.offset = PageRows[rec.digest] /\ rec.next # 0))
         /\ op[c].kind = "read" => (rec.token = op[c].token /\ rec.cursor = None) \/ (InPage /\ rec.offset = PageRows[rec.digest] /\ rec.next # 0)
<1> DEFINE o == op[c]
           token == op[c].token
           page == PageAt(token)
<1>1. FetchInv(c) /\ NewPage(token)
  BY OpFacts DEF Install, StageInv
<1>2. /\ rec.token \in Tokens /\ rec.next \in Tokens /\ rec.digest \in Tokens /\ rec.token # 1
      /\ Len(PageRows) \in Nat \ {0}
  BY FieldsAreTyped, PagesAreCounted DEF CursorInv, LedgerInv
<1>3. rec.digest = 0 => rec.token = 0 /\ rec.next = 0 /\ rec.seen = {} /\ rec.cursor = None
  BY DEF CursorInv, LedgerInv
<1>4. rec.digest # 0 => /\ rec.digest \in Pages /\ rec.next = NextToken(rec.digest) /\ rec.seen = 2..rec.digest
                        /\ ~InPage => /\ rec.cursor # None /\ rec.cursor.token = rec.token /\ rec.offset = 0
                                      /\ rec.token \in 2..(rec.digest + 1)
  <2>1. rec.digest # 0 => rec.digest \in Pages
    BY <1>2 DEF Tokens, Pages
  <2>2. rec.digest # 0 /\ ~InPage => rec.cursor # None /\ rec.cursor.token = rec.token /\ ~rec.cursor.partial /\ rec.offset = 0
    BY DEF CursorInv, LedgerInv
  <2>3. rec.cursor # None /\ ~rec.cursor.partial => rec.cursor.token \in 2..(rec.digest + 1)
    BY DEF CursorInv, CurrentInv
  <2>4. QED
    BY <2>1, <2>2, <2>3 DEF CursorInv, LedgerInv
<1>5. CASE rec.digest = 0
  <2>1. token = 0 /\ page = 1
    BY <1>1, <1>3, <1>5 DEF FetchInv, PageAt
  <2>2. (IF token = 0 THEN rec.seen ELSE rec.seen \cup {token}) = 2..page
    <3>1. 2..1 = {}
      OBVIOUS
    <3>2. QED
      BY <1>3, <1>5, <2>1, <3>1
  <2>3. token # 1 /\ token \in Tokens /\ page \in Pages
    BY <1>2, <2>1 DEF Tokens, Pages
  <2>4. QED
    BY <1>3, <1>5, <2>1, <2>2, <2>3
<1>6. CASE rec.digest # 0 /\ token = rec.token /\ rec.offset = 0 /\ (IsLoaded(c) => o.kind = "resume") /\ InPage
  <2>1. page = rec.digest
    BY <1>6 DEF InPage
  <2>2. (IF token = 0 THEN rec.seen ELSE rec.seen \cup {token}) = 2..page
    <3>1. CASE token = 0
      BY <1>4, <1>6, <2>1, <3>1
    <3>2. CASE token # 0
      <4>1. page = token /\ token \in 2..page
        BY <1>2, <1>6, <3>2 DEF PageAt, Tokens
      <4>2. QED
        BY <1>4, <1>6, <2>1, <3>2, <4>1
    <3>3. QED
      BY <3>1, <3>2
  <2>3. o.kind = "read" => rec.cursor = None
    BY <1>6, OpFacts DEF KindInv, IsLoaded, CursorInv, SessionInv
  <2>4. QED
    BY <1>2, <1>4, <1>6, <2>1, <2>2, <2>3
<1>7. CASE rec.digest # 0 /\ token = rec.token /\ (IsLoaded(c) => o.kind = "resume") /\ ~InPage
  <2>1. token \in 2..(rec.digest + 1) /\ page = token /\ rec.digest \in Nat /\ page # rec.digest
    BY <1>4, <1>7 DEF PageAt, Pages, InPage
  <2>2. page = rec.digest + 1
    <3>1. SUFFICES ASSUME token < rec.digest PROVE FALSE
      BY <2>1
    <3>2. NextToken(page) = token + 1 /\ token + 1 # 0 /\ token + 1 \in 2..rec.digest
      BY <1>2, <1>4, <1>7, <2>1, <3>1 DEF NextToken, Pages
    <3>3. QED
      BY <1>1, <1>4, <1>7, <3>2 DEF NewPage
  <2>3. (IF token = 0 THEN rec.seen ELSE rec.seen \cup {token}) = 2..page
    <3>1. 2..(rec.digest + 1) = 2..rec.digest \cup {rec.digest + 1}
      BY <1>4, <1>7 DEF Pages
    <3>2. token # 0 /\ rec.seen = 2..rec.digest /\ token = rec.digest + 1
      BY <1>4, <1>7, <2>1, <2>2
    <3>3. QED
      BY <2>2, <3>1, <3>2
  <2>4. token \in Tokens /\ page \in Pages
    BY <1>2, <1>7, TokensAreTyped
  <2>5. o.kind # "read"
    BY <1>4, <1>7, OpFacts DEF KindInv, IsLoaded, CursorInv, SessionInv
  <2>6. QED
    BY <1>2, <1>4, <1>7, <2>1, <2>2, <2>3, <2>4, <2>5
<1>8. CASE rec.digest # 0 /\ InPage /\ token = rec.next /\ token # 0 /\ rec.offset = PageRows[rec.digest]
  <2>1. token = rec.digest + 1 /\ page = token /\ token \in Pages
    BY <1>4, <1>8, NextPageFacts
  <2>2. (IF token = 0 THEN rec.seen ELSE rec.seen \cup {token}) = 2..page
    <3>1. 2..(rec.digest + 1) = 2..rec.digest \cup {rec.digest + 1}
      BY <1>4, <1>8 DEF Pages
    <3>2. QED
      BY <1>4, <1>8, <2>1, <3>1
  <2>3. token # 1
    BY <1>4, <1>8, <2>1 DEF Pages
  <2>4. QED
    BY <1>2, <1>4, <1>8, <2>1, <2>2, <2>3
<1>9. QED
  BY <1>1, <1>5, <1>6, <1>7, <1>8 DEF FetchInv

\* A session is installed.
LEMMA InstallKeeps ==
  ASSUME CursorTypeOK, CursorInv, NEW c \in Clients, Install(c)
  PROVE  CursorInv'
<1> DEFINE o == op[c]
           page == PageAt(o.token)
<1>1. /\ o.at = "get" /\ complete /\ FetchInv(c) /\ handed \cup told = Place /\ o # Idle
      /\ UNCHANGED <<complete, sess, given, handed, told>>
  BY OpFacts DEF Install, StageInv, CursorInv, ReadInv, Idle
<1>2. /\ op' = [op EXCEPT ![c] = [o EXCEPT !.at = "installed"]] /\ op'[c].at = "installed" /\ op'[c].kind = o.kind
      /\ op'[c].token = o.token /\ op'[c].rows = o.rows
      /\ op'[c].cursor = o.cursor /\ op'[c].session = o.session
  <2>1. op' = [op EXCEPT ![c] = [o EXCEPT !.at = "installed"]]
    BY DEF Install, GoTo, CursorTypeOK
  <2>2. o \in Operations
    BY OperationsAreTyped
  <2>3. QED
    BY <2>1, <2>2 DEF CursorTypeOK, Operations
<1>3. ASSUME rec'.cursor = rec.cursor, rec'.access = rec.access PROVE KindInv(c)'
  <2>1. o.kind \in {"read", "resume"}
    BY <1>1, OpFacts DEF KindInv, Idle
  <2>2. CASE o.kind = "read"
    BY <1>1, <1>2, <1>3, <2>2, OpFacts DEF KindInv
  <2>3. CASE o.kind = "resume"
    BY <1>1, <1>2, <1>3, <2>3, OpFacts DEF KindInv
  <2>4. QED
    BY <2>1, <2>2, <2>3
<1>4. CASE o.refetch
  <2>1. rec' = rec /\ PageAt(o.token) = rec.digest /\ InPage
    BY <1>1, <1>4 DEF Install, Installed, FetchInv, InPage
  <2>2. StageInv(c)'
    BY <1>2, <2>1 DEF StageInv, InPage
  <2>3. OpInv'
    BY <1>1, <1>2, <1>3, <2>1, <2>2, OneOperation DEF CursorInv
  <2>4. \A d \in Clients : Alike(sess[d], sess'[d])
    BY <1>1 DEF Alike
  <2>5. ReadInv'
    BY <1>1, <2>1 DEF CursorInv, ReadInv, Place, Reached
  <2>6. UNCHANGED <<rec, given, handed, told>> /\ (complete => complete')
    BY <1>1, <2>1
  <2>7. QED
    BY <2>3, <2>4, <2>5, <2>6, LedgerAlone DEF CursorInv
<1>5. CASE ~o.refetch
  <2>1. /\ rec'.token = o.token /\ rec'.next = NextToken(page) /\ rec'.digest = page /\ rec'.offset = 0
        /\ rec'.seen = (IF o.token = 0 THEN rec.seen ELSE rec.seen \cup {o.token})
        /\ rec'.rows = rec.rows /\ rec'.access = rec.access /\ rec'.refs = rec.refs /\ rec'.cursor = rec.cursor
    BY <1>5 DEF Install, Installed, CursorTypeOK, Records
  <2>2. Place' = Place /\ InPage'
    BY <1>1, <1>5, <2>1 DEF FetchInv, Place, InPage
  <2>3. /\ page \in Pages /\ page # 0 /\ PageRows[page] \in Nat /\ o.token # 1 /\ rec'.seen = 2..page
        /\ rec.digest \in Nat /\ rec.digest <= page
    <3>1. page \in Pages /\ o.token # 1 /\ rec'.seen = 2..page
      BY <1>5, <2>1, InstalledPage
    <3>2. rec.digest \in Nat
      BY FieldsAreTyped, PagesAreCounted DEF Tokens
    <3>3. page \in Nat \ {0}
      BY <3>1, PagesAreCounted DEF Pages
    <3>4. rec.digest = page \/ rec.digest = 0 \/ page = rec.digest + 1
      BY <1>5, InstalledPage
    <3>5. QED
      BY <3>1, <3>2, <3>3, <3>4, PagesAreCounted
  <2>4. LedgerInv'
    BY <1>1, <2>1, <2>2, <2>3 DEF CursorInv, LedgerInv
  <2>5. rec.digest = 0 => rec.cursor = None
    BY DEF CursorInv, LedgerInv
  <2>6. CurrentInv'
    <3>1. CASE rec.cursor = None
      BY <1>1, <2>1, <2>2, <3>1 DEF CursorInv, CurrentInv
    <3>2. CASE rec.cursor # None
      <4> DEFINE k == rec.cursor
      <4>1. k.ref <= rec.refs /\ Reached(k) = Place
        BY <3>2 DEF CursorInv, CurrentInv
      <4>2. k.partial => InPage /\ (rec.offset < PageRows[rec.digest] \/ rec.next = 0) /\ rec.offset \in Nat
        BY <3>2, FieldsAreTyped DEF CursorInv, CurrentInv
      <4>3. ~k.partial
        <5>1. CASE o.kind = "read"
          <6>1. InPage /\ rec.offset = PageRows[rec.digest] /\ rec.next # 0
            BY <1>5, <3>2, <5>1, InstalledPage
          <6>2. QED
            BY <4>2, <6>1
        <5>2. CASE o.kind # "read"
          <6>1. o.kind = "resume"
            BY <1>1, <5>2, OpFacts DEF KindInv, Idle
          <6>2. QED
            BY <1>1, <1>5, <6>1, OpFacts DEF FetchInv, KindInv
        <5>3. QED
          BY <5>1, <5>2
      <4>4. k.token \in 2..(rec.digest + 1) /\ k.offset = 0 /\ (k.token = rec.digest => rec.offset = 0)
            /\ (rec.digest <= k.token \/ PageRows[k.token] = 0)
        BY <3>2, <4>3 DEF CursorInv, CurrentInv
      <4>5. k.token \in 2..(page + 1)
        BY <2>3, <4>4 DEF Pages
      <4>6. page <= k.token \/ PageRows[k.token] = 0
        <5>1. CASE rec.digest = page
          BY <4>4, <5>1
        <5>2. CASE k.token = page
          BY <2>3, <5>2 DEF Pages
        <5>3. CASE /\ rec.digest \in Pages /\ page = rec.digest + 1
                   /\ InPage /\ rec.offset = PageRows[rec.digest] /\ rec.next # 0
          <6>1. CASE k.token = rec.digest
            BY <4>4, <5>3, <6>1
          <6>2. CASE k.token # rec.digest
            <7>1. k.token \in 2..(rec.digest + 1) /\ (rec.digest <= k.token \/ PageRows[k.token] = 0)
              BY <4>4
            <7>2. QED
              BY <2>3, <5>3, <6>2, <7>1
          <6>3. QED
            BY <6>1, <6>2
        <5>4. QED
          BY <1>5, <2>5, <3>2, <5>1, <5>2, <5>3, InstalledPage
      <4>7. Reached(rec.cursor)' = Place'
        BY <2>1, <2>2, <4>1 DEF Reached
      <4>8. QED
        BY <2>1, <3>2, <4>1, <4>3, <4>4, <4>5, <4>6, <4>7 DEF CurrentInv
    <3>3. QED
      BY <3>1, <3>2
  <2>7. SessionInv'
    <3>1. ASSUME NEW d \in Clients, sess[d] # None, ~sess[d].loaded PROVE rec.cursor = None /\ o.token = 0
      <4>1. rec.cursor = None /\ rec.token = 0
        BY <3>1 DEF CursorInv, SessionInv
      <4>2. o.kind = "read"
        <5>1. given = {}
          BY <4>1 DEF CursorInv, CurrentInv
        <5>2. QED
          BY <1>1, <5>1, OpFacts DEF KindInv, Idle
      <4>3. sess[c] # None /\ d = c
        BY <3>1, <4>1, <4>2, OpFacts DEF KindInv, CursorInv, CurrentInv
      <4>4. ~IsLoaded(c)
        BY <3>1, <4>3 DEF IsLoaded
      <4>5. QED
        BY <1>1, <1>5, <4>1, <4>4 DEF FetchInv
    <3>2. ASSUME NEW d \in Clients, IsLoaded(d)
          PROVE  sess[d].page \in 1..page /\ (sess[d].page = page => sess[d].index <= 0)
      <4>1. sess[d].page \in 1..rec.digest /\ (InPage /\ sess[d].page = rec.digest => sess[d].index <= rec.offset)
        BY <3>2 DEF CursorInv, SessionInv
      <4>2. sess[d].page \in 1..page
        BY <2>3, <4>1 DEF Pages
      <4>3. ASSUME sess[d].page = page PROVE sess[d].index <= 0
        <5>1. rec.digest = page
          BY <2>3, <4>1, <4>3 DEF Pages
        <5>2. rec.offset = 0 /\ InPage
          <6>1. page # rec.digest + 1 /\ rec.digest # 0
            BY <2>3, <5>1
          <6>2. QED
            BY <1>5, <6>1, InstalledPage
        <5>3. QED
          BY <4>1, <4>3, <5>1, <5>2
      <4>4. QED
        BY <4>2, <4>3
    <3>3. \A d \in Clients : IsLoaded(d)' = IsLoaded(d)
      BY <1>1 DEF IsLoaded
    <3>4. QED
      BY <1>1, <2>1, <3>1, <3>2, <3>3 DEF CursorInv, SessionInv
  <2>8. OpInv'
    <3>1. StageInv(c)'
      BY <1>2, <2>1, <2>2 DEF StageInv
    <3>2. QED
      BY <1>1, <1>2, <1>3, <2>1, <3>1, OneOperation DEF CursorInv
  <2>9. ReadInv'
    BY <1>1, <2>1, <2>2 DEF CursorInv, ReadInv, Reached
  <2>10. QED
    BY <2>4, <2>6, <2>7, <2>8, <2>9 DEF CursorInv
<1>6. QED
  BY <1>4, <1>5

\* A page has been loaded.
LEMMA LoadedKeeps ==
  ASSUME CursorTypeOK, CursorInv, NEW c \in Clients, Loaded(c)
  PROVE  CursorInv'
<1> DEFINE o == op[c]
           s == sess'[c]
<1>1. /\ o.at = "installed" /\ PageAt(o.token) = rec.digest /\ InPage /\ o # Idle /\ handed \cup told = Place
      /\ UNCHANGED <<rec, complete, given, handed, told>> /\ rec.offset <= PageRows[rec.digest]
  BY OpFacts DEF Loaded, StageInv, CursorInv, ReadInv, Idle
<1>2. /\ rec.digest \in Pages /\ rec.digest # 0 /\ rec.digest \in 1..rec.digest /\ rec.offset <= rec.offset
      /\ PageRows[rec.digest] \in Nat
  <2>1. PageAt(o.token) # 0
    BY DEF PageAt
  <2>2. rec.digest \in Pages
    BY <1>1, <2>1, FieldsAreTyped, PagesAreCounted DEF Pages, Tokens
  <2>3. QED
    BY <2>2, FieldsAreTyped, PagesAreCounted DEF Pages
<1>3. \/ o.kind = "read" /\ sess[c] # None /\ Session(c) = sess[c] /\ Session(c).access = rec.access
      \/ o.kind = "resume" /\ Session(c) = o.session /\ o.session # None /\ rec.cursor # None
  <2>1. o.kind \in {"read", "resume"}
    BY <1>1, OpFacts DEF KindInv, Idle
  <2>2. \A k \in given : k # None
    BY NoneAssumption DEF CursorTypeOK
  <2>3. CASE o.kind = "read"
    BY <1>1, <2>3, OpFacts DEF KindInv, Session
  <2>4. CASE o.kind = "resume"
    BY <2>2, <2>4, OpFacts DEF KindInv, Session
  <2>5. QED
    BY <2>1, <2>3, <2>4
<1>4. Session(c) \in Sessions
  BY <1>3, SessionsAreTyped, FieldsAreTyped
<1>5. /\ \A d \in Clients \ {c} : sess'[d] = sess[d]
      /\ s # None /\ s.loaded /\ s.page = rec.digest /\ s.size = PageRows[rec.digest] /\ s.index = rec.offset
      /\ s.done = (NextToken(rec.digest) = 0) /\ s.access = Session(c).access
  <2>1. s = Filled(Session(c), rec.digest) /\ \A d \in Clients \ {c} : sess'[d] = sess[d]
    BY <1>1 DEF Loaded, CursorTypeOK
  <2>2. s = [Session(c) EXCEPT !.loaded = TRUE, !.page = rec.digest, !.size = PageRows[rec.digest],
                               !.index = rec.offset, !.done = NextToken(rec.digest) = 0]
    BY <2>1 DEF Filled
  <2>3. s \in Sessions
    BY <1>2, <1>4, <2>2, FieldsAreTyped DEF Sessions
  <2>4. s.loaded /\ s.page = rec.digest /\ s.size = PageRows[rec.digest] /\ s.index = rec.offset
        /\ s.done = (NextToken(rec.digest) = 0) /\ s.access = Session(c).access
    BY <1>4, <2>2 DEF Sessions
  <2>5. QED
    BY <2>1, <2>3, <2>4, NoneAssumption
<1>6. LedgerInv'
  BY <1>1, <1>2 DEF CursorInv, LedgerInv, InPage, Place
<1>7. CurrentInv'
  <2>1. CASE rec.cursor = None
    <3>1. \A d \in Clients : sess'[d] # None => sess[d] # None
      BY <1>3, <1>5, <2>1
    <3>2. QED
      BY <1>1, <2>1, <3>1 DEF CursorInv, CurrentInv, Place
  <2>2. CASE rec.cursor # None
    BY <1>1, <2>2 DEF CursorInv, CurrentInv, Place, InPage, Reached
  <2>3. QED
    BY <2>1, <2>2
<1>8. SessionInv'
  <2>1. \A d \in Clients \ {c} : IsLoaded(d)' = IsLoaded(d)
    BY <1>5 DEF IsLoaded
  <2>2. QED
    BY <1>1, <1>2, <1>5, <2>1 DEF CursorInv, SessionInv, InPage
<1>9. OpInv'
  <2>1. CASE o.kind = "resume"
    <3>1. op'[c] = Idle /\ \A d \in Clients \ {c} : op'[d] = op[d]
      BY <2>1 DEF Loaded, Return, CursorTypeOK
    <3>2. QED
      BY <1>1, <3>1, AtRest, OneOperation DEF CursorInv
  <2>2. CASE o.kind = "read"
    <3>1. /\ op'[c] = [o EXCEPT !.at = "loop"] /\ \A d \in Clients \ {c} : op'[d] = op[d]
      BY <2>2 DEF Loaded, GoTo, CursorTypeOK
    <3>2. op'[c].kind = "read" /\ op'[c].at = "loop" /\ op'[c].rows = o.rows
      <4>1. o \in Operations
        BY OperationsAreTyped
      <4>2. QED
        BY <2>2, <3>1, <4>1 DEF Operations
    <3>3. s.access = rec.access /\ o.rows = {}
      BY <1>1, <1>3, <1>5, <2>2, OpFacts DEF KindInv
    <3>4. KindInv(c)' /\ StageInv(c)'
      BY <1>1, <1>5, <3>2, <3>3 DEF KindInv, StageInv
    <3>5. QED
      BY <1>1, <3>1, <3>4, OneOperation DEF CursorInv
  <2>3. QED
    BY <1>3, <2>1, <2>2
<1>10. ReadInv'
  BY <1>1 DEF CursorInv, ReadInv, Place, Reached
<1>11. QED
  BY <1>6, <1>7, <1>8, <1>9, <1>10 DEF CursorInv

\* The job is not complete yet.
LEMMA IncompleteKeeps ==
  ASSUME CursorTypeOK, CursorInv, NEW c \in Clients, Incomplete(c)
  PROVE  CursorInv'
<1> DEFINE o == op[c]
           s == sess'[c]
<1>1. /\ o.at = "get" /\ ~complete /\ o # Idle /\ handed \cup told = Place
      /\ UNCHANGED <<rec, complete, given, handed, told>>
  BY DEF Incomplete, CursorInv, ReadInv, Idle
<1>2. /\ rec.digest = 0 /\ rec.token = 0 /\ rec.cursor = None /\ given = {}
      /\ \A d, e \in Clients : sess[d] # None /\ sess[e] # None => d = e
  BY <1>1 DEF CursorInv, LedgerInv, CurrentInv
<1>3. o.kind = "read" /\ sess[c] # None /\ sess[c].access = rec.access /\ sess[c] \in Sessions /\ o.rows = {}
  BY <1>1, <1>2, OpFacts, SessionsAreTyped DEF KindInv, Idle
<1>4. /\ \A d \in Clients \ {c} : sess'[d] = sess[d]
      /\ s # None /\ ~s.loaded /\ s.access = rec.access
  <2>1. s = [sess[c] EXCEPT !.loaded = FALSE] /\ \A d \in Clients \ {c} : sess'[d] = sess[d]
    BY <1>3 DEF Incomplete, Session, CursorTypeOK
  <2>2. s \in Sessions /\ ~s.loaded /\ s.access = rec.access
    BY <1>3, <2>1 DEF Sessions
  <2>3. QED
    BY <2>1, <2>2, NoneAssumption
<1>5. LedgerInv'
  BY <1>1, <1>2 DEF CursorInv, LedgerInv, Place, InPage
<1>6. CurrentInv'
  BY <1>1, <1>2, <1>3, <1>4 DEF CursorInv, CurrentInv, Place
<1>7. SessionInv'
  BY <1>1, <1>2, <1>3, <1>4 DEF SessionInv, IsLoaded
<1>8. OpInv'
  <2>1. op'[c] = [o EXCEPT !.at = "loop"] /\ \A d \in Clients \ {c} : op'[d] = op[d]
    BY <1>3 DEF Incomplete, GoTo, CursorTypeOK
  <2>2. op'[c].kind = "read" /\ op'[c].at = "loop" /\ op'[c].rows = o.rows
    <3>1. o \in Operations
      BY OperationsAreTyped
    <3>2. QED
      BY <1>3, <2>1, <3>1 DEF Operations
  <2>3. KindInv(c)' /\ StageInv(c)'
    BY <1>1, <1>3, <1>4, <2>2 DEF KindInv, StageInv
  <2>4. QED
    BY <1>1, <2>1, <2>3, OneOperation DEF CursorInv
<1>9. ReadInv'
  BY <1>1 DEF CursorInv, ReadInv, Place, Reached
<1>10. QED
  BY <1>5, <1>6, <1>7, <1>8, <1>9 DEF CursorInv

\* A boundary cursor is taken up: the ledger stands before a page, the same rows on.
LEMMA ResumingKeeps ==
  ASSUME CursorTypeOK, CursorInv, Unguarded = {}, NEW c \in Clients, Resuming(c)
  PROVE  CursorInv'
<1> DEFINE o == op[c]
           k == op[c].cursor
<1>1. /\ o.kind = "resume" /\ o.at = "ready" /\ rec.cursor = k /\ k \in given /\ k # None /\ o # Idle
      /\ handed \cup told = Place /\ UNCHANGED <<complete, sess, given, handed, told>>
      /\ k.partial \/ \A d \in Clients : ~Overtaken(sess[d])
  <2>1. o.kind = "resume" /\ o.at = "ready" /\ (k.partial \/ \A d \in Clients : ~Overtaken(sess[d]))
    BY DEF Resuming, At
  <2>2. o.kind = "resume" /\ o.at = "ready" /\ rec.cursor = k /\ k \in given
    BY OpFacts DEF Resuming, At, KindInv
  <2>3. k # None /\ o # Idle
    BY <2>2, NoneAssumption DEF CursorTypeOK, Idle
  <2>4. handed \cup told = Place
    BY <2>2 DEF CursorInv, ReadInv
  <2>5. QED
    BY <2>1, <2>2, <2>3, <2>4 DEF Resuming
<1>2. /\ op' = [op EXCEPT ![c] = [o EXCEPT !.at = "fetch", !.token = k.token, !.refetch = k.partial]]
      /\ op'[c].at = "fetch" /\ op'[c].kind = "resume" /\ op'[c].token = k.token /\ op'[c].refetch = k.partial
      /\ op'[c].cursor = k /\ op'[c].session = o.session
  <2>1. op' = [op EXCEPT ![c] = [o EXCEPT !.at = "fetch", !.token = k.token, !.refetch = k.partial]]
    BY DEF Resuming, Fetching, CursorTypeOK
  <2>2. o \in Operations /\ o.kind = "resume"
    BY <1>1, OperationsAreTyped
  <2> DEFINE to(x, y) == [o EXCEPT !.at = "fetch", !.token = x, !.refetch = y]
  <2>3. op'[c] = to(k.token, k.partial)
    BY <2>1 DEF CursorTypeOK
  <2>4. \A x, y : /\ to(x, y).at = "fetch" /\ to(x, y).kind = "resume" /\ to(x, y).token = x
                  /\ to(x, y).refetch = y /\ to(x, y).cursor = o.cursor /\ to(x, y).session = o.session
    BY <2>2 DEF Operations
  <2> HIDE DEF to
  <2>5. /\ op'[c].at = "fetch" /\ op'[c].kind = "resume" /\ op'[c].token = k.token /\ op'[c].refetch = k.partial
        /\ op'[c].cursor = k /\ op'[c].session = o.session
    BY <2>3, <2>4
  <2>6. QED
    BY <2>1, <2>5
<1>3. ASSUME rec'.cursor = rec.cursor, FetchInv(c)' PROVE OpInv'
  <2>1. KindInv(c)'
    BY <1>1, <1>2, <1>3, OpFacts DEF KindInv
  <2>2. StageInv(c)'
    BY <1>2, <1>3 DEF StageInv
  <2>3. QED
    BY <1>1, <1>2, <2>1, <2>2, OneOperation DEF CursorInv
<1>4. k.partial \in BOOLEAN /\ k.token \in Tokens
  BY <1>1 DEF CursorTypeOK, Cursors
<1>5. CASE k.partial
  <2>1. rec' = rec /\ InPage /\ k.token = rec.token
    BY <1>1, <1>5 DEF Resuming, CursorInv, CurrentInv
  <2>2. FetchInv(c)'
    BY <1>2, <1>5, <2>1 DEF FetchInv, InPage
  <2>3. \A d \in Clients : Alike(sess[d], sess'[d])
    BY <1>1 DEF Alike
  <2>4. ReadInv'
    BY <1>1, <2>1 DEF CursorInv, ReadInv, Place, Reached
  <2>5. UNCHANGED <<rec, given, handed, told>> /\ (complete => complete')
    BY <1>1, <2>1
  <2>6. QED
    BY <1>3, <2>1, <2>2, <2>3, <2>4, <2>5, LedgerAlone DEF CursorInv
<1>6. CASE ~k.partial
  <2>1. /\ rec'.token = k.token /\ rec'.offset = 0 /\ rec'.next = rec.next /\ rec'.digest = rec.digest
        /\ rec'.seen = rec.seen /\ rec'.rows = rec.rows /\ rec'.refs = rec.refs /\ rec'.cursor = rec.cursor
    BY <1>6 DEF Resuming, CursorTypeOK, Records
  <2>2. /\ Reached(k) = Place /\ k.ref <= rec.refs /\ k.token \in 2..(rec.digest + 1) /\ k.offset = 0
        /\ (k.token = rec.digest => rec.offset = 0) /\ (rec.digest <= k.token \/ PageRows[k.token] = 0)
    BY <1>1, <1>6 DEF CursorInv, CurrentInv
  <2>3. /\ rec.digest # 0 /\ complete /\ rec.next = NextToken(rec.digest) /\ rec.seen = 2..rec.digest
        /\ rec.rows = Cardinality(Place) /\ rec.digest \in Pages /\ PageRows[rec.digest] \in Nat
    <3>1. rec.digest # 0
      BY <1>1 DEF CursorInv, LedgerInv
    <3>2. rec.digest \in Pages /\ PageRows[rec.digest] \in Nat
      BY <3>1, FieldsAreTyped, PagesAreCounted DEF Pages, Tokens
    <3>3. QED
      BY <3>1, <3>2 DEF CursorInv, LedgerInv
  <2>4. Place' = Place
    BY <2>1, <2>2 DEF Reached, Place
  <2>5. k.token # 1 /\ PageAt(k.token) = k.token
    BY <2>2 DEF PageAt
  <2>6. \A d \in Clients : ~AtPlace(d)'
    BY <1>1, <1>6, <2>1 DEF AtPlace, IsLoaded, Overtaken
  <2>7. LedgerInv'
    BY <1>1, <1>6, <2>1, <2>3, <2>4, <2>5, <2>6 DEF LedgerInv
  <2>8. CurrentInv'
    BY <1>1, <1>6, <2>1, <2>2, <2>4 DEF CurrentInv, Reached
  <2>9. SessionInv'
    <3>1. ASSUME NEW d \in Clients, sess[d] # None, ~sess[d].loaded PROVE FALSE
      BY <1>1, <3>1 DEF CursorInv, SessionInv
    <3>2. ASSUME NEW d \in Clients, IsLoaded(d), InPage', sess[d].page = rec.digest PROVE sess[d].index <= 0
      <4>1. k.token = rec.digest /\ rec.offset = 0
        BY <2>1, <2>2, <2>5, <3>2 DEF InPage
      <4>2. InPage
        <5>1. ~InPage => rec.cursor.token = rec.token
          BY <2>3 DEF CursorInv, LedgerInv
        <5>2. QED
          BY <1>1, <2>5, <4>1, <5>1 DEF InPage
      <4>3. QED
        BY <3>2, <4>1, <4>2 DEF CursorInv, SessionInv
    <3>3. \A d \in Clients : IsLoaded(d)' = IsLoaded(d)
      BY <1>1 DEF IsLoaded
    <3>4. QED
      BY <1>1, <2>1, <3>1, <3>2, <3>3 DEF CursorInv, SessionInv
  <2>10. FetchInv(c)'
    <3>1. RowsUpTo(PageAt(k.token), 0) = Place'
      BY <2>2, <2>4 DEF Reached
    <3>2. QED
      BY <1>2, <1>4, <1>6, <2>1, <3>1 DEF FetchInv
  <2>11. ReadInv'
    BY <1>1, <2>1, <2>4 DEF CursorInv, ReadInv, Reached
  <2>12. QED
    BY <1>3, <2>1, <2>7, <2>8, <2>9, <2>10, <2>11 DEF CursorInv
<1>7. QED
  BY <1>4, <1>5, <1>6

\* The cursor is bound to its job again.
LEMMA ReboundKeeps ==
  ASSUME CursorTypeOK, CursorInv, NEW c \in Clients, Rebound(c)
  PROVE  CursorInv'
<1> DEFINE k == rec'.cursor
<1>1. /\ op[c] # Idle /\ op[c].kind = "rebind" /\ rec.cursor \in given \cup {None} /\ handed \cup told = Place
      /\ UNCHANGED <<complete, sess, handed, told>>
  <2>1. op[c].kind = "rebind" /\ op[c] # Idle
    BY DEF Rebound, At, Idle
  <2>2. rec.cursor \in given \cup {None}
    BY <2>1, OpFacts DEF KindInv
  <2>3. QED
    BY <2>1, <2>2 DEF Rebound, CursorInv, ReadInv
<1>2. /\ rec'.token = rec.token /\ rec'.next = rec.next /\ rec'.digest = rec.digest /\ rec'.offset = rec.offset
      /\ rec'.rows = rec.rows /\ rec'.seen = rec.seen /\ rec'.refs = rec.refs + 1 /\ rec.refs \in Nat
      /\ k = IF rec.cursor = None THEN None ELSE [rec.cursor EXCEPT !.ref = rec.refs + 1]
      /\ given' = given \cup ({k} \ {None})
  BY FieldsAreTyped DEF Rebound, CursorTypeOK, Records
<1>3. rec.cursor = None => k = None /\ given' = given
  BY <1>2
<1>4. rec.cursor # None =>
        /\ k # None /\ k.token = rec.cursor.token /\ k.offset = rec.cursor.offset /\ k.partial = rec.cursor.partial
        /\ k.ref = rec.refs + 1 /\ given' = given \cup {k} /\ given' # {}
  <2> SUFFICES ASSUME rec.cursor # None PROVE <1>4!2
    OBVIOUS
  <2>1. rec.cursor \in Cursors
    BY DEF CursorTypeOK, Records
  <2>2. k = [rec.cursor EXCEPT !.ref = rec.refs + 1]
    BY <1>2
  <2>3. k \in Cursors /\ k.ref = rec.refs + 1
        /\ k.token = rec.cursor.token /\ k.offset = rec.cursor.offset /\ k.partial = rec.cursor.partial
    BY <1>2, <2>1, <2>2 DEF Cursors
  <2>4. k # None
    BY <2>3, NoneAssumption
  <2>5. QED
    BY <1>2, <2>3, <2>4
<1>5. Place' = Place /\ InPage' = InPage /\ \A d \in Clients : AtPlace(d)' = AtPlace(d) /\ IsLoaded(d)' = IsLoaded(d)
  BY <1>1, <1>2 DEF Place, InPage, AtPlace, IsLoaded
<1>6. LedgerInv'
  BY <1>1, <1>2, <1>3, <1>4, <1>5 DEF CursorInv, LedgerInv
<1>7. CurrentInv'
  <2>1. CASE rec.cursor = None
    BY <1>1, <1>3, <1>5, <2>1 DEF CursorInv, CurrentInv
  <2>2. CASE rec.cursor # None
    <3>1. Reached(k) = Place
      BY <1>4, <2>2 DEF CursorInv, CurrentInv, Reached
    <3>2. Reached(rec.cursor)' = Place'
      BY <1>5, <3>1 DEF Reached
    <3>3. k.ref <= rec'.refs
      BY <1>2, <1>4, <2>2
    <3>4. IF k.partial
          THEN InPage /\ k.token = rec.token /\ k.offset = rec.offset
               /\ (rec.offset < PageRows[rec.digest] \/ rec.next = 0)
          ELSE k.token \in 2..(rec.digest + 1) /\ k.offset = 0
               /\ (k.token = rec.digest => rec.offset = 0)
               /\ (rec.digest <= k.token \/ PageRows[k.token] = 0)
      BY <1>4, <2>2 DEF CursorInv, CurrentInv
    <3>5. QED
      BY <1>2, <1>4, <1>5, <2>2, <3>2, <3>3, <3>4 DEF CurrentInv
  <2>3. QED
    BY <2>1, <2>2
<1>8. SessionInv'
  BY <1>1, <1>2, <1>3, <1>5 DEF CursorInv, SessionInv
<1>9. OpInv'
  <2>1. op'[c] = Idle /\ \A d \in Clients \ {c} : op'[d] = op[d]
    BY DEF Rebound, Return, CursorTypeOK
  <2>2. QED
    BY <1>1, <2>1, AtRest, OneOperation DEF CursorInv
<1>10. ReadInv'
  <2>1. \A g \in given : Reached(g) \subseteq handed \cup told /\ g.ref <= rec.refs + 1
    <3>1. \A g \in given : Reached(g) \subseteq handed \cup told /\ g.ref <= rec.refs /\ g.ref \in Nat
      BY DEF CursorInv, ReadInv, CursorTypeOK, Cursors
    <3>2. QED
      BY <1>2, <3>1
  <2>2. rec.cursor # None => Reached(k) \subseteq handed \cup told /\ k.ref <= rec.refs + 1
    BY <1>1, <1>2, <1>4 DEF CursorInv, CurrentInv, Reached
  <2>3. QED
    BY <1>1, <1>2, <1>3, <1>4, <1>5, <2>1, <2>2 DEF ReadInv, Reached
<1>11. QED
  BY <1>6, <1>7, <1>8, <1>9, <1>10 DEF CursorInv

\* close() and an abort stop a session where it is.
LEMMA StopsKeep ==
  ASSUME CursorTypeOK, CursorInv, NEW c \in Clients, sess[c] # None,
         \/ sess' = [sess EXCEPT ![c].aborted = TRUE]
         \/ sess' = [sess EXCEPT ![c].aborted = TRUE, ![c].size = 0] /\ op[c].at \notin {"take", "deliver"},
         UNCHANGED <<rec, complete, op, given, handed, told>>
  PROVE  CursorInv'
<1> DEFINE s == sess'[c]
<1>1. /\ \A d \in Clients \ {c} : sess'[d] = sess[d]
      /\ s # None /\ s.loaded = sess[c].loaded /\ s.page = sess[c].page /\ s.index = sess[c].index
      /\ s.done = sess[c].done /\ s.access = sess[c].access /\ s.aborted
      /\ s.size = sess[c].size \/ op[c].at \notin {"take", "deliver"}
  <2>1. sess[c] \in Sessions
    BY SessionsAreTyped
  <2>2. CASE sess' = [sess EXCEPT ![c].aborted = TRUE]
    <3>1. s = [sess[c] EXCEPT !.aborted = TRUE] /\ \A d \in Clients \ {c} : sess'[d] = sess[d]
      BY <2>2 DEF CursorTypeOK
    <3>2. s \in Sessions
      BY <3>1, SessionsAreTyped
    <3>3. QED
      BY <2>1, <3>1, <3>2, NoneAssumption DEF Sessions
  <2>3. CASE sess' = [sess EXCEPT ![c].aborted = TRUE, ![c].size = 0] /\ op[c].at \notin {"take", "deliver"}
    <3>1. s = [sess[c] EXCEPT !.aborted = TRUE, !.size = 0] /\ \A d \in Clients \ {c} : sess'[d] = sess[d]
      BY <2>3 DEF CursorTypeOK
    <3>2. s \in Sessions
      BY <3>1, SessionsAreTyped
    <3>3. s.loaded = sess[c].loaded /\ s.page = sess[c].page /\ s.index = sess[c].index
          /\ s.done = sess[c].done /\ s.access = sess[c].access /\ s.aborted
      BY <2>1, <3>1 DEF Sessions
    <3>4. QED
      BY <2>3, <3>1, <3>2, <3>3, NoneAssumption
  <2>4. QED
    BY <2>2, <2>3
<1>2. \A d \in Clients : Alike(sess[d], sess'[d])
  BY <1>1 DEF Alike
<1>3. OpInv'
  <2>1. \A d \in Clients : IsLoaded(d)' = IsLoaded(d) /\ AtPlace(d)' = AtPlace(d)
    BY <1>1 DEF IsLoaded, AtPlace
  <2>2. UNCHANGED InPage /\ UNCHANGED Place
    BY DEF InPage, Place
  <2>3. KindInv(c)'
    BY <1>1, OpFacts DEF KindInv
  <2>4. StageInv(c)'
    <3>1. FetchInv(c) => FetchInv(c)'
      BY <2>1, <2>2 DEF FetchInv
    <3>2. QED
      BY <1>1, <2>1, <2>2, <3>1, OpFacts DEF StageInv
  <2>5. ASSUME NEW d \in Clients \ {c} PROVE KindInv(d)' /\ StageInv(d)'
    <3>1. KindInv(d)'
      BY <1>1, OpFacts DEF KindInv
    <3>2. StageInv(d)'
      BY <1>1, <2>1, <2>2, OpFacts DEF StageInv, FetchInv
    <3>3. QED
      BY <3>1, <3>2
  <2>6. QED
    BY <2>3, <2>4, <2>5 DEF CursorInv, OpInv
<1>4. ReadInv'
  BY <1>2, LedgerAlone DEF CursorInv, ReadInv, Place, Reached
<1>5. QED
  BY <1>2, <1>3, <1>4, LedgerAlone DEF CursorInv

\* An operation that ends without an answer, with its tab or not.
LEMMA EndsKeep ==
  ASSUME CursorTypeOK, CursorInv, NEW c \in Clients, Return(c), UNCHANGED <<rec, complete, given, handed, told>>,
         \A d \in Clients : Alike(sess[d], sess'[d]), \A d \in Clients \ {c} : sess'[d] = sess[d]
  PROVE  CursorInv'
<1>1. op'[c] = Idle /\ \A d \in Clients \ {c} : op'[d] = op[d]
  BY DEF Return, CursorTypeOK
<1>2. OpInv'
  <2>1. CASE op[c] # Idle
    BY <1>1, <2>1, AtRest, OneOperation DEF CursorInv
  <2>2. CASE op[c] = Idle
    <3>1. ASSUME NEW d \in Clients \ {c} PROVE KindInv(d)' /\ StageInv(d)'
      <4>1. op'[d] = op[d] /\ sess'[d] = sess[d]
        BY <1>1
      <4>2. KindInv(d)'
        BY <4>1, OpFacts DEF KindInv
      <4>3. AtPlace(d)' = AtPlace(d) /\ IsLoaded(d)' = IsLoaded(d) /\ InPage' = InPage /\ Place' = Place
        BY <4>1 DEF AtPlace, IsLoaded, InPage, Place
      <4>4. StageInv(d)'
        BY <4>1, <4>3, OpFacts DEF StageInv, FetchInv
      <4>5. QED
        BY <4>2, <4>4
    <3>2. \A d, e \in Clients : op'[d] # Idle /\ op'[e] # Idle => d = e
      BY <1>1 DEF CursorInv, OpInv
    <3>3. QED
      BY <1>1, <3>1, <3>2, AtRest DEF OpInv
  <2>3. QED
    BY <2>1, <2>2
<1>3. ReadInv'
  BY <1>1, LedgerAlone DEF CursorInv, ReadInv, Place, Reached, Idle
<1>4. QED
  BY <1>2, <1>3, LedgerAlone DEF CursorInv

\* An operation completes.
LEMMA CompletesKeeps ==
  ASSUME CursorTypeOK, CursorInv, Completes
  PROVE  CursorInv'
<1>1. UNCHANGED <<rec, sess, op, given, handed, told>> /\ complete'
  BY DEF Completes
<1>2. \A d \in Clients : Alike(sess[d], sess'[d])
  BY <1>1 DEF Alike
<1>3. OpInv'
  BY <1>1 DEF CursorInv, OpInv, KindInv, StageInv, FetchInv, AtPlace, IsLoaded, InPage, Place
<1>4. ReadInv'
  BY <1>1 DEF CursorInv, ReadInv, AtPlace, IsLoaded, Place, Reached
<1>5. QED
  BY <1>1, <1>2, <1>3, <1>4, LedgerAlone DEF CursorInv

\* A new client has no session.
LEMMA CursorInitially ==
  CursorInit => CursorTypeOK /\ CursorInv
<1> SUFFICES ASSUME CursorInit PROVE CursorTypeOK /\ CursorInv
  OBVIOUS
<1>1. PICK c \in Clients : sess = [d \in Clients |-> IF d = c THEN NewSession(0) ELSE None]
  BY DEF CursorInit, NewRecord
<1>2. rec = [token |-> 0, next |-> 0, digest |-> 0, offset |-> 0, rows |-> 0, pages |-> 1,
             seen |-> {}, access |-> 0, refs |-> 0, cursor |-> None]
  BY DEF CursorInit, NewRecord
<1>3. /\ complete = FALSE /\ op = [d \in Clients |-> Idle] /\ given = {} /\ handed = {} /\ told = {}
  BY DEF CursorInit, NewRecord
<1>4. NewSession(0) \in Sessions /\ ~NewSession(0).loaded
  BY BoundsAreNumbers DEF NewSession, Sessions, Tokens
<1>5. CursorTypeOK
  <2>1. rec \in Records
    BY <1>2, BoundsAreNumbers, PagesAreCounted DEF Records, Tokens
  <2>2. sess \in [Clients -> Sessions \cup {None}]
    BY <1>1, <1>4
  <2>3. Idle \in Operations
    BY DEF Idle, Operations
  <2>4. QED
    BY <1>3, <2>1, <2>2, <2>3 DEF CursorTypeOK
<1>6. Place = {} /\ ~InPage
  BY <1>2 DEF Place, PageAt, RowsUpTo, Rows, InPage
<1>7. \A d \in Clients : ~IsLoaded(d) /\ (sess[d] # None => d = c)
  BY <1>1, <1>4 DEF IsLoaded
<1>8. LedgerInv
  BY <1>2, <1>6, FS_EmptySet DEF LedgerInv
<1>9. CurrentInv
  BY <1>2, <1>3, <1>6, <1>7 DEF CurrentInv
<1>10. SessionInv
  BY <1>2, <1>7 DEF SessionInv
<1>11. OpInv
  BY <1>3 DEF OpInv, KindInv, StageInv, Idle
<1>12. ReadInv
  BY <1>3, <1>6 DEF ReadInv
<1>13. QED
  BY <1>5, <1>8, <1>9, <1>10, <1>11, <1>12 DEF CursorInv

\* One case per action: the invariant is inductive.
LEMMA CursorInvPreserved ==
  ASSUME Unguarded = {}
  PROVE  CursorTypeOK /\ CursorInv /\ [CursorNext]_cursorVars => CursorInv'
<1> SUFFICES ASSUME CursorTypeOK, CursorInv, [CursorNext]_cursorVars
             PROVE  CursorInv'
  OBVIOUS
<1>1. ASSUME NEW c \in Clients, ReadStep(c) PROVE CursorInv'
  <2>1. CASE HandOver(c)
    BY <2>1, AnsweredKeeps DEF HandOver
  <2>2. CASE HandOverFails(c)
    BY <2>2, AnsweredKeeps DEF HandOverFails
  <2>3. QED
    BY <1>1, <2>1, <2>2, AuthorizedKeeps, LoopKeeps, TakeKeeps, DeliverKeeps DEF ReadStep
<1>2. ASSUME NEW c \in Clients, FetchStep(c) PROVE CursorInv'
  BY <1>2, ChargeKeeps, InstallKeeps, LoadedKeeps, IncompleteKeeps DEF FetchStep
<1>3. ASSUME NEW c \in Clients, Close(c) PROVE CursorInv'
  BY <1>3, StopsKeep DEF Close
<1>4. ASSUME NEW c \in Clients, Abort(c) PROVE CursorInv'
  BY <1>4, StopsKeep, OpFacts DEF Abort, KindInv
<1>5. ASSUME NEW c \in Clients, Fails(c) \/ ClientCrash(c) PROVE CursorInv'
  <2>1. \A d \in Clients \ {c} : sess'[d] = sess[d]
    BY <1>5 DEF Fails, ClientCrash, CursorTypeOK
  <2>2. sess'[c] = sess[c] \/ sess'[c] = None
    BY <1>5 DEF Fails, ClientCrash, CursorTypeOK
  <2>3. \A d \in Clients : Alike(sess[d], sess'[d])
    BY <2>1, <2>2 DEF Alike
  <2>4. QED
    BY <1>5, <2>1, <2>3, EndsKeep DEF Fails, ClientCrash
<1>6. CASE UNCHANGED cursorVars
  BY <1>6 DEF cursorVars, CursorInv, LedgerInv, CurrentInv, SessionInv, OpInv, KindInv, StageInv, FetchInv, ReadInv,
              AtPlace, IsLoaded, InPage, Place, Reached
<1>7. QED
  BY <1>1, <1>2, <1>3, <1>4, <1>5, <1>6, ReadKeeps, ResumeKeeps, RebindKeeps, ResumingKeeps, ReboundKeeps,
     CompletesKeeps DEF CursorNext

-----------------------------------------------------------------------------
(* What the runs check, of every result and any number of tabs. *)

\* The ledger's counts, its cursor, the sessions and the one operation that
\* holds the lease agree (client.ts: nextRow, #delivery, #installPage, resume).
THEOREM CursorInvariant ==
  ASSUME Unguarded = {}
  PROVE  CursorSpec => [](CursorTypeOK /\ CursorInv)
<1>1. CursorTypeOK /\ CursorInv /\ [CursorNext]_cursorVars => (CursorTypeOK /\ CursorInv)'
  BY CursorTyped, CursorInvPreserved DEF CursorInv
<1>2. QED
  BY <1>1, CursorInitially, PTL DEF CursorSpec

\* Whoever resumes with a cursor misses no row that nobody was given or told of.
THEOREM CursorSkipsNothing ==
  ASSUME Unguarded = {}
  PROVE  CursorSpec => []NothingSkipped
<1>1. CursorInv => NothingSkipped
  BY DEF CursorInv, ReadInv, NothingSkipped, Reached
<1>2. QED
  BY <1>1, CursorInvariant, PTL

\* No row is given to a caller a second time: the ledger counted it before.
THEOREM CursorGivesNoRowTwice ==
  ASSUME Unguarded = {}
  PROVE  CursorSpec => NoRowTwice
<1>1. CursorTypeOK /\ CursorInv =>
        \A c \in Clients : HandOver(c) => op[c].rows \cap (handed \cup told) = {}
  <2> SUFFICES ASSUME CursorTypeOK, CursorInv, NEW c \in Clients, HandOver(c)
               PROVE  op[c].rows \cap (handed \cup told) = {}
    OBVIOUS
  <2> DEFINE index == sess[c].index
  <2>1. /\ IsLoaded(c) /\ rec.offset = index + op[c].token
        /\ op[c].rows = Rows(rec.digest, index + 1, rec.offset)
        /\ handed \cup told = RowsUpTo(rec.digest, index)
    BY OpFacts DEF HandOver, At, StageInv
  <2>2. index \in Nat /\ op[c].token \in Nat /\ rec.digest \in Nat /\ rec.digest <= Len(PageRows) + 1
    BY <2>1, FieldsAreTyped, PagesAreCounted DEF IsLoaded, Tokens
  <2>3. RowsUpTo(rec.digest, index) \cap Rows(rec.digest, index + 1, index + op[c].token) = {}
    BY <2>2, RowsCount
  <2>4. QED
    BY <2>1, <2>3
<1>2. (\A c \in Clients : HandOver(c) => op[c].rows \cap (handed \cup told) = {})
      => [\A c \in Clients : HandOver(c) => op[c].rows \cap (handed \cup told) = {}]_cursorVars
  OBVIOUS
<1>3. QED
  BY <1>1, <1>2, CursorInvariant, PTL DEF NoRowTwice

\* A session of an access that was renewed gets no more rows: the lease is held
\* from the check of the access until the rows are handed over.
THEOREM CursorOldAccessReadsNothing ==
  ASSUME Unguarded = {}
  PROVE  CursorSpec => OldAccessReadsNothing
<1>1. CursorTypeOK /\ CursorInv => \A c \in Clients : HandOver(c) => sess[c].access = rec.access
  BY OpFacts DEF HandOver, At, KindInv
<1>2. (\A c \in Clients : HandOver(c) => sess[c].access = rec.access)
      => [\A c \in Clients : HandOver(c) => sess[c].access = rec.access]_cursorVars
  OBVIOUS
<1>3. QED
  BY <1>1, <1>2, CursorInvariant, PTL DEF OldAccessReadsNothing

\* Up to an offset of a page there are that many rows more than before the page.
LEMMA PageIsCounted ==
  ASSUME NEW page \in Nat, page <= Len(PageRows) + 1, NEW offset \in Nat
  PROVE  Cardinality(RowsUpTo(page, offset)) = Cardinality(RowsUpTo(page, 0)) + offset
<1>1. ASSUME NEW first \in Nat
      PROVE  Cardinality(RowsUpTo(page, first + offset)) = Cardinality(RowsUpTo(page, first)) + offset
  BY RowsCount
<1>2. 0 + offset = offset /\ 0 \in Nat
  OBVIOUS
<1>3. QED
  BY <1>1, <1>2, Zenon

\* The rows before a page are before the pages after it.
LEMMA EarlierPlaces ==
  ASSUME NEW p \in Nat, NEW q \in Nat, p <= q
  PROVE  RowsUpTo(p, 0) \subseteq RowsUpTo(q, 0)
<1>1. Rows(p, 1, 0) = {}
  BY DEF Rows
<1>2. \A i \in 1..(p - 1) : i \in 1..(q - 1)
  OBVIOUS
<1>3. QED
  BY <1>1, <1>2 DEF RowsUpTo

\* After a page there are rows left, or the result runs dry, or it is the last.
LEMMA RowsRemain ==
  ASSUME NEW page \in Pages
  PROVE  LET end == Cardinality(RowsUpTo(page, 0)) + PageRows[page] IN
         \/ IF NextToken(page) = 0 THEN end = Total ELSE end < Total
         \/ RunsDry(page)
<1> DEFINE end == Cardinality(RowsUpTo(page, 0)) + PageRows[page]
<1>1. /\ page \in Nat /\ page + 1 \in Nat /\ page <= Len(PageRows) + 1 /\ page + 1 <= Len(PageRows) + 1
      /\ PageRows[page] \in Nat /\ Len(PageRows) \in Nat /\ Len(PageRows) + 1 \in Nat
  BY PagesAreCounted DEF Pages
<1>2. end = Cardinality(RowsUpTo(page + 1, 0))
  BY <1>1, PageIsCounted, PageEnds
<1>3. CASE NextToken(page) = 0
  <2>1. page = Len(PageRows)
    BY <1>1, <1>3 DEF NextToken, Pages
  <2>2. QED
    BY <1>2, <1>3, <2>1 DEF Total
<1>4. CASE NextToken(page) # 0 /\ ~RunsDry(page)
  <2> DEFINE whole == RowsUpTo(Len(PageRows) + 1, 0)
  <2>1. page < Len(PageRows)
    BY <1>4 DEF NextToken
  <2>2. PICK next \in (page + 1)..Len(PageRows) : PageRows[next] # 0
    BY <1>4 DEF RunsDry
  <2> DEFINE upto == RowsUpTo(next, PageRows[next])
             before == RowsUpTo(page + 1, 0)
  <2>3. /\ next \in Pages /\ next \in Nat /\ next <= Len(PageRows) + 1
        /\ PageRows[next] \in Nat /\ PageRows[next] > 0
    BY <1>1, <2>2, PagesAreCounted DEF Pages
  <2>4. upto \subseteq whole
    <3>1. \A p \in 1..(next - 1) : p \in 1..(Len(PageRows) + 1 - 1)
      BY <1>1, <2>2
    <3>2. next \in 1..(Len(PageRows) + 1 - 1)
      BY <1>1, <2>2
    <3>3. QED
      BY <3>1, <3>2 DEF RowsUpTo
  <2>5. IsFiniteSet(whole) /\ Cardinality(whole) \in Nat
    <3>1. Len(PageRows) + 1 <= Len(PageRows) + 1
      BY <1>1
    <3>2. QED
      BY <1>1, <3>1, PlacesAreFinite, FS_CardinalityType
  <2>6. Cardinality(upto) <= Cardinality(whole)
    BY <2>4, <2>5, FS_Subset
  <2>7. Cardinality(upto) = Cardinality(RowsUpTo(next, 0)) + PageRows[next]
    BY <2>3, PageIsCounted
  <2>8. before \subseteq RowsUpTo(next, 0)
    <3>1. page + 1 <= next
      BY <1>1, <2>2
    <3>2. QED
      BY <1>1, <2>3, <3>1, EarlierPlaces
  <2>9. IsFiniteSet(RowsUpTo(next, 0)) /\ Cardinality(RowsUpTo(next, 0)) \in Nat
    BY <2>3, PlacesAreFinite, FS_CardinalityType
  <2>10. Cardinality(before) <= Cardinality(RowsUpTo(next, 0))
    BY <2>8, <2>9, FS_Subset
  <2>11. Cardinality(before) \in Nat
    BY <1>1, PlacesAreFinite, FS_CardinalityType
  <2>12. end = Cardinality(before) /\ Total = Cardinality(whole)
    BY <1>2 DEF Total
  <2> HIDE DEF end, whole, upto, before
  <2>13. end < Total
    BY <2>3, <2>5, <2>6, <2>7, <2>9, <2>10, <2>11, <2>12
  <2>14. QED
    BY <1>4, <2>13 DEF end
<1>5. QED
  BY <1>3, <1>4

\* The counts of the ledger never contradict the page that the current cursor
\* names, and its tokens do so only when that page was empty and went by: exactly
\* then the code takes the page that a boundary cursor fetches for a repetition.
\* (Results that go on after their last row are refused, RunsDry.)
THEOREM CursorsAreHonoured ==
  ASSUME Unguarded = {}
  PROVE  CursorSpec => []CursorIsHonoured
<1>1. CursorTypeOK /\ CursorInv => CursorIsHonoured
  <2> SUFFICES ASSUME CursorTypeOK, CursorInv, rec.cursor \in given
               PROVE  /\ Fits(PageAt(rec.cursor.token), rec.cursor.partial) \/ RunsDry(PageAt(rec.cursor.token))
                      /\ IF rec.cursor.partial THEN SamePage(PageAt(rec.cursor.token))
                         ELSE NewPage(rec.cursor.token) <=> ~EmptyPassed(PageAt(rec.cursor.token))
    BY DEF CursorIsHonoured
  <2> DEFINE k == rec.cursor
             page == PageAt(k.token)
  <2>1. k \in Cursors /\ k # None /\ k.partial \in BOOLEAN
    BY NoneAssumption DEF CursorTypeOK, Cursors
  <2>2. k.token \in Tokens /\ page \in Pages /\ page \in Nat /\ page # 0 /\ page <= Len(PageRows) + 1
    <3>1. k.token \in Tokens
      BY <2>1 DEF Cursors
    <3>2. QED
      BY <3>1, TokensAreTyped, PagesAreCounted DEF Pages
  <2>3. /\ Reached(k) = Place /\ rec.rows = Cardinality(Place) /\ rec.digest # 0 /\ rec.next = NextToken(rec.digest)
        /\ rec.seen = 2..rec.digest /\ rec.digest \in Nat
    BY <2>1, FieldsAreTyped, PagesAreCounted DEF CursorInv, LedgerInv, CurrentInv, Tokens
  <2>4. Cardinality(RowsUpTo(page, 0)) \in Nat
    BY <2>2, PlacesAreFinite, FS_CardinalityType
  <2>5. CASE k.partial
    <3>1. InPage /\ k.token = rec.token /\ k.offset = rec.offset /\ rec.offset \in Nat
      BY <2>1, <2>5, FieldsAreTyped DEF CursorInv, CurrentInv
    <3>2. page = rec.digest
      BY <3>1 DEF InPage
    <3>3. rec.rows = Cardinality(RowsUpTo(page, 0)) + rec.offset
      <4>1. Cardinality(RowsUpTo(page, rec.offset)) = Cardinality(RowsUpTo(page, 0)) + rec.offset
        BY <2>2, <3>1, PageIsCounted
      <4>2. QED
        BY <2>3, <3>1, <4>1 DEF Reached
    <3>4. rec.rows - rec.offset = Cardinality(RowsUpTo(page, 0))
      BY <2>4, <3>1, <3>3
    <3>5. Fits(page, TRUE) \/ RunsDry(page)
      BY <2>2, <2>4, <3>4, RowsRemain DEF Fits
    <3>6. SamePage(page)
      BY <2>3, <3>2 DEF SamePage
    <3>7. QED
      BY <2>5, <3>5, <3>6
  <2>6. CASE ~k.partial
    <3>1. k.token \in 2..(rec.digest + 1) /\ k.offset = 0 /\ (rec.digest <= k.token \/ PageRows[k.token] = 0)
      BY <2>1, <2>6 DEF CursorInv, CurrentInv
    <3>2. rec.rows - 0 = Cardinality(RowsUpTo(page, 0))
      BY <2>3, <2>4, <3>1 DEF Reached
    <3>3. Fits(page, FALSE) \/ RunsDry(page)
      BY <2>2, <2>4, <3>2, RowsRemain DEF Fits
    <3>4. page = k.token
      BY <3>1 DEF PageAt
    <3>5. NextToken(page) # 0 => NextToken(page) = k.token + 1
      BY <3>4 DEF NextToken
    <3>9. Fits(page, k.partial) \/ RunsDry(page)
      <4>1. k.partial = FALSE
        BY <2>1, <2>6
      <4>2. QED
        BY <3>3, <4>1
    <3>6. CASE rec.digest <= k.token
      <4>1. k.token + 1 \notin 2..rec.digest /\ k.token + 1 # k.token
        BY <2>3, <3>1, <3>6
      <4>2. NewPage(k.token)
        BY <2>3, <3>5, <4>1 DEF NewPage
      <4>3. ~EmptyPassed(page)
        BY <2>3, <3>1, <3>4, <3>6 DEF EmptyPassed
      <4>4. NewPage(k.token) <=> ~EmptyPassed(page)
        BY <4>2, <4>3
      <4>5. QED
        BY <2>6, <3>9, <4>4
    <3>7. CASE ~(rec.digest <= k.token)
      <4>1. k.token + 1 \in 2..rec.digest /\ rec.digest > page /\ PageRows[page] = 0
        BY <2>3, <3>1, <3>4, <3>7
      <4>2. rec.digest <= Len(PageRows)
        BY FieldsAreTyped, PagesAreCounted DEF Tokens
      <4>3. NextToken(page) = k.token + 1 /\ k.token + 1 # 0
        BY <2>2, <2>3, <3>1, <3>4, <4>1, <4>2, PagesAreCounted DEF NextToken
      <4>4. ~NewPage(k.token)
        BY <2>3, <4>1, <4>3 DEF NewPage
      <4>5. EmptyPassed(page)
        BY <4>1 DEF EmptyPassed
      <4>6. NewPage(k.token) <=> ~EmptyPassed(page)
        BY <4>4, <4>5
      <4>7. QED
        BY <2>6, <3>9, <4>6
    <3>8. QED
      BY <3>6, <3>7
  <2>7. QED
    BY <2>1, <2>5, <2>6
<1>2. QED
  BY <1>1, CursorInvariant, PTL
=============================================================================
