-------------------------- MODULE AnalyticalCursor --------------------------
(***************************************************************************)
(* packages/bigquery/src/analytical: the rows of one job that has been     *)
(* submitted.  Its record in the ledger says how far they have been        *)
(* delivered; a caller reads them by the row or by the page, gets a cursor *)
(* with each, and resumes with the last one after its tab is gone.         *)
(*                                                                         *)
(* An operation holds the run's lease from its first action to its last    *)
(* and fails if another holds it; close() and an abort do not ask for it.  *)
(* An action is the code between two awaits.  Pages differ in contents, so *)
(* that a page's number stands for its digest and, from the second on, for *)
(* the token that fetches it; 0 is the null token.  (So at most one page is *)
(* empty: two of them would have one digest.)                              *)
(***************************************************************************)
EXTENDS Integers, FiniteSets, Sequences, AnalyticalClients

CONSTANTS PageRows,       \* the rows of each page of the result
          MaxRows,        \* the smaller of the query's limit and bounds.maxRows
          MaxPages,       \* bounds.maxPages
          MaxRebinds,     \* bound: new access generations
          Unguarded       \* what callers do that the code is not prepared for

ASSUME CursorAssumption ==
  /\ PageRows \in Seq(Nat) /\ PageRows # <<>>
  /\ \A p, q \in DOMAIN PageRows : PageRows[p] = 0 /\ PageRows[q] = 0 => p = q
  /\ MaxRows \in Nat /\ MaxPages \in Nat \ {0} /\ MaxRebinds \in Nat
  /\ Unguarded \subseteq {"close", "resume"}

VARIABLES rec,        \* the run's record in the ledger
          complete,   \* BigQuery: the job's result is there
          sess,       \* the run object a client holds
          op,         \* what a client awaits
          given,      \* cursors that callers have been given
          handed,     \* history: rows that callers have been given
          told        \* history: rows whose read ended with an error

cursorVars == <<rec, complete, sess, op, given, handed, told>>

Rows(page, first, last) == {<<page, i>> : i \in first..last}
RowsUpTo(page, offset) ==
  Rows(page, 1, offset) \cup UNION {Rows(p, 1, PageRows[p]) : p \in 1..(page - 1)}
Total == Cardinality(RowsUpTo(Len(PageRows) + 1, 0))
PageAt(token) == IF token = 0 THEN 1 ELSE token
NextToken(page) == IF page < Len(PageRows) THEN page + 1 ELSE 0

NewSession(access) ==
  [access |-> access, loaded |-> FALSE, page |-> 0, size |-> 0, index |-> 0, done |-> FALSE,
   emptied |-> FALSE, aborted |-> FALSE, mode |-> "none"]

Idle == [kind |-> "idle", at |-> "none", token |-> 0, refetch |-> FALSE, rows |-> {},
         cursor |-> None, session |-> None]

NewRecord == [token |-> 0, next |-> 0, digest |-> 0, offset |-> 0, rows |-> 0, pages |-> 1,
              seen |-> {}, access |-> 0, refs |-> 0, cursor |-> None]
CursorInit ==
  /\ rec = NewRecord /\ complete = FALSE
  /\ \E c \in Clients :
       sess = [d \in Clients |-> IF d = c THEN NewSession(0) ELSE None]
  /\ op = [c \in Clients |-> Idle]
  /\ given = {} /\ handed = {} /\ told = {}

Free == \A c \in Clients : op[c] = Idle
At(c, kind, at) == op[c].kind = kind /\ op[c].at = at
GoTo(c, at) == op' = [op EXCEPT ![c].at = at]
Return(c) == op' = [op EXCEPT ![c] = Idle]

\* A read works on the client's session, a resume on the one it will return.
Session(c) == IF op[c].kind = "resume" THEN op[c].session ELSE sess[c]

-----------------------------------------------------------------------------
(* nextRow() and nextPage()                                                *)

Read(c, mode) ==
  /\ Free /\ sess[c] # None /\ sess[c].mode \in {"none", mode}
  /\ sess' = [sess EXCEPT ![c].mode = mode]
  /\ op' = [op EXCEPT ![c] = [Idle EXCEPT !.kind = "read", !.at = "access"]]
  /\ UNCHANGED <<rec, complete, given, handed, told>>

\* (Bug: a session of an access that was replaced reads on.)
AnyAccess(s) == TRUE

HasAccess(s) == s.access = rec.access

Authorized(c) ==
  /\ At(c, "read", "access") /\ HasAccess(sess[c])
  /\ GoTo(c, "loop")
  /\ UNCHANGED <<rec, complete, sess, given, handed, told>>

\* (Bug: what another session has read meanwhile goes unnoticed.)
AnywhereInPage(s) == s.loaded => rec.digest = s.page

InPlace(s) == s.loaded => rec.offset = s.index /\ rec.digest = s.page

MayFetch == rec.rows < MaxRows /\ rec.pages < MaxPages

Fetching(c, token, refetch) ==
  op' = [op EXCEPT ![c].at = "fetch", ![c].token = token, ![c].refetch = refetch]

\* One turn of the loop: rows to take, the end, or another page.
Loop(c) ==
  LET s == sess[c] IN
    /\ At(c, "read", "loop") /\ ~s.aborted /\ InPlace(s)
    /\ \/ s.loaded /\ s.index < s.size /\ GoTo(c, "take") /\ UNCHANGED sess
       \/ /\ s.loaded /\ s.index >= s.size /\ s.done
          /\ IF s.size = 0 /\ ~s.emptied
             THEN op' = [op EXCEPT ![c].at = "deliver", ![c].token = 0] /\ sess' = [sess EXCEPT ![c].emptied = TRUE]
             ELSE Return(c) /\ UNCHANGED sess
       \/ /\ ~(s.loaded /\ (s.index < s.size \/ s.done))
          /\ MayFetch
          /\ Fetching(c, IF s.loaded THEN rec.next ELSE rec.token, FALSE)
          /\ UNCHANGED sess
    /\ UNCHANGED <<rec, complete, given, handed, told>>

\* The rows are copied when the record has been read again; the buffer may have
\* been emptied by close() by then, which a read by the row does not notice.
Take(c) ==
  LET s == sess[c]
      wanted == IF s.mode = "row" THEN 1 ELSE s.size - s.index
      amount == IF wanted < MaxRows - rec.rows THEN wanted ELSE MaxRows - rec.rows
      last == IF s.index + amount < s.size THEN s.index + amount ELSE s.size
  IN
    /\ At(c, "read", "take") /\ amount >= 1
    /\ op' = [op EXCEPT ![c].at = "deliver", ![c].token = amount,
                        ![c].rows = Rows(s.page, s.index + 1, last)]
    /\ UNCHANGED <<rec, complete, sess, given, handed, told>>

\* (Bug: the last row of a page leaves a cursor into that page.)
NoBoundary(s, offset) == FALSE

Boundary(s, offset) == offset = s.size /\ rec.next # 0

\* #delivery(): the ledger counts the rows before the caller gets them.
Deliver(c) ==
  LET s == sess[c]
      offset == s.index + op[c].token
      boundary == Boundary(s, offset)
      cursor == [token |-> IF boundary THEN rec.next ELSE rec.token,
                 offset |-> IF boundary THEN 0 ELSE offset,
                 partial |-> ~boundary, ref |-> rec.refs + 1]
  IN
    /\ At(c, "read", "deliver") /\ rec.rows + op[c].token <= MaxRows
    /\ rec' = [rec EXCEPT !.offset = offset, !.rows = @ + op[c].token,
                          !.refs = @ + 1, !.cursor = cursor]
    /\ op' = [op EXCEPT ![c].at = "delivered", ![c].cursor = cursor]
    /\ UNCHANGED <<complete, sess, given, handed, told>>

HandOver(c) ==
  /\ At(c, "read", "delivered")
  /\ sess' = [sess EXCEPT ![c].index = @ + op[c].token]
  /\ handed' = handed \cup op[c].rows
  /\ given' = given \cup {op[c].cursor}
  /\ Return(c)
  /\ UNCHANGED <<rec, complete, told>>

\* The record cannot be read any more: an error, and no cursor.
HandOverFails(c) ==
  /\ At(c, "read", "delivered")
  /\ sess' = [sess EXCEPT ![c].index = @ + op[c].token]
  /\ told' = told \cup op[c].rows
  /\ Return(c)
  /\ UNCHANGED <<rec, complete, given, handed>>

-----------------------------------------------------------------------------
(* A page is fetched, by a read or a resume.                               *)

\* Every request is charged before it leaves.
Charge(c) ==
  /\ op[c].at = "fetch" /\ MayFetch
  /\ rec' = [rec EXCEPT !.pages = @ + 1]
  /\ GoTo(c, "get")
  /\ UNCHANGED <<complete, sess, given, handed, told>>

\* What the answer says of the result agrees with what was delivered of it.
Fits(page, refetch) ==
  LET start == rec.rows - (IF refetch THEN rec.offset ELSE 0)
      end == start + PageRows[page]
  IN start >= 0 /\ IF NextToken(page) = 0 THEN end = Total ELSE end < Total

SamePage(page) == page = rec.digest /\ NextToken(page) = rec.next

NewPage(token) ==
  LET next == NextToken(PageAt(token)) IN next # 0 => next \notin rec.seen /\ next # token

Installed(token, refetch) ==
  LET page == PageAt(token) IN
    IF refetch THEN rec
    ELSE [rec EXCEPT !.offset = 0, !.token = token, !.next = NextToken(page), !.digest = page,
                     !.seen = IF token = 0 THEN @ ELSE @ \cup {token}]

Install(c) ==
  LET page == PageAt(op[c].token) IN
    /\ op[c].at = "get" /\ complete
    /\ Fits(page, op[c].refetch)
    /\ IF op[c].refetch THEN SamePage(page) ELSE NewPage(op[c].token)
    /\ rec' = Installed(op[c].token, op[c].refetch)
    /\ GoTo(c, "installed")
    /\ UNCHANGED <<complete, sess, given, handed, told>>

Filled(s, page) ==
  [s EXCEPT !.loaded = TRUE, !.page = page, !.size = PageRows[page], !.index = rec.offset,
            !.done = NextToken(page) = 0]

Loaded(c) ==
  LET page == PageAt(op[c].token) IN
    /\ op[c].at = "installed" /\ rec.offset <= PageRows[page]
    /\ sess' = [sess EXCEPT ![c] = Filled(Session(c), page)]
    /\ IF op[c].kind = "resume" THEN Return(c) ELSE GoTo(c, "loop")
    /\ UNCHANGED <<rec, complete, given, handed, told>>

\* The result is not there yet: a reader sleeps and asks again.
Incomplete(c) ==
  /\ op[c].at = "get" /\ ~complete
  /\ sess' = [sess EXCEPT ![c] = [Session(c) EXCEPT !.loaded = FALSE]]
  /\ IF op[c].kind = "resume" THEN Return(c) ELSE GoTo(c, "loop")
  /\ UNCHANGED <<rec, complete, given, handed, told>>

-----------------------------------------------------------------------------
(* resume(), rebind(), close() and what goes wrong.                        *)

\* (Bug: any cursor of the run will do.)
OnceCurrent(cursor) == rec.cursor # None

Current(cursor) == cursor = rec.cursor

Resume(c, cursor) ==
  /\ Free /\ Current(cursor)
  /\ op' = [op EXCEPT ![c] = [Idle EXCEPT !.kind = "resume", !.at = "ready",
                                          !.cursor = cursor, !.session = NewSession(rec.access)]]
  /\ UNCHANGED <<rec, complete, sess, given, handed, told>>

\* A session that has not read of the last page yet, which another has read.
Overtaken(s) == s # None /\ s.loaded /\ s.index = 0 /\ s.page = rec.digest

\* A boundary cursor is taken up in the ledger, a partial one fetched again.  The
\* ledger is then at offset 0 with the digest of the last page, where an overtaken
\* session takes itself to be: a careful caller has let go of those before.
Resuming(c) ==
  LET k == op[c].cursor IN
    /\ At(c, "resume", "ready")
    /\ k.partial \/ "resume" \in Unguarded \/ \A d \in Clients : ~Overtaken(sess[d])
    /\ rec' = IF k.partial THEN rec ELSE [rec EXCEPT !.token = k.token, !.offset = 0]
    /\ Fetching(c, k.token, k.partial)
    /\ UNCHANGED <<complete, sess, given, handed, told>>

Rebind(c, cursor) ==
  /\ Free /\ Current(cursor) /\ rec.access < MaxRebinds
  /\ op' = [op EXCEPT ![c] = [Idle EXCEPT !.kind = "rebind", !.at = "verify"]]
  /\ UNCHANGED <<rec, complete, sess, given, handed, told>>

\* The cursor is replaced, so that those given before are worth nothing.
Rebound(c) ==
  LET cursor == IF rec.cursor = None THEN None ELSE [rec.cursor EXCEPT !.ref = rec.refs + 1] IN
    /\ At(c, "rebind", "verify")
    /\ rec' = [rec EXCEPT !.access = @ + 1, !.refs = @ + 1, !.cursor = cursor]
    /\ given' = given \cup ({cursor} \ {None})
    /\ Return(c)
    /\ UNCHANGED <<complete, sess, handed, told>>

\* close() empties the buffer at once, whatever is awaited: a careful caller does
\* not close a run while rows of it are on their way.
Close(c) ==
  /\ sess[c] # None /\ ~sess[c].aborted
  /\ "close" \in Unguarded \/ op[c].at \notin {"take", "deliver"}
  /\ sess' = [sess EXCEPT ![c].aborted = TRUE, ![c].size = 0]
  /\ UNCHANGED <<rec, complete, op, given, handed, told>>

\* The caller's signal aborts the session for good.
Abort(c) ==
  /\ op[c].kind = "read" /\ ~sess[c].aborted
  /\ sess' = [sess EXCEPT ![c].aborted = TRUE]
  /\ UNCHANGED <<rec, complete, op, given, handed, told>>

\* An await rejects, a limit is reached, a check fails.
Fails(c) ==
  /\ op[c] # Idle /\ op[c].at # "delivered"
  /\ Return(c)
  /\ UNCHANGED <<rec, complete, sess, given, handed, told>>

ClientCrash(c) ==
  /\ sess[c] # None \/ op[c] # Idle
  /\ sess' = [sess EXCEPT ![c] = None]
  /\ Return(c)
  /\ UNCHANGED <<rec, complete, given, handed, told>>

Completes ==
  /\ ~complete /\ complete' = TRUE
  /\ UNCHANGED <<rec, sess, op, given, handed, told>>

ReadStep(c) ==
  \/ Authorized(c) \/ Loop(c) \/ Take(c) \/ Deliver(c) \/ HandOver(c) \/ HandOverFails(c)
FetchStep(c) == Charge(c) \/ Install(c) \/ Loaded(c) \/ Incomplete(c)

CursorNext ==
  \/ \E c \in Clients :
       \/ \E mode \in {"row", "page"} : Read(c, mode)
       \/ \E cursor \in given : Resume(c, cursor)
       \/ \E cursor \in given \cup {None} : Rebind(c, cursor)
       \/ ReadStep(c) \/ FetchStep(c) \/ Resuming(c) \/ Rebound(c)
       \/ Close(c) \/ Abort(c) \/ Fails(c) \/ ClientCrash(c)
  \/ Completes

CursorSpec == CursorInit /\ [][CursorNext]_cursorVars

-----------------------------------------------------------------------------

Tokens == 0..Len(PageRows)
Cursors == [token : Tokens, offset : Nat, partial : BOOLEAN, ref : Nat]

Records ==
  [token : Tokens, next : Tokens, digest : Tokens, offset : Nat, rows : 0..MaxRows,
   pages : 1..MaxPages, seen : SUBSET Tokens, access : 0..MaxRebinds, refs : Nat,
   cursor : Cursors \cup {None}]

Sessions ==
  [access : 0..MaxRebinds, loaded : BOOLEAN, page : Tokens, size : Nat, index : Nat,
   done : BOOLEAN, emptied : BOOLEAN, aborted : BOOLEAN, mode : {"none", "row", "page"}]

Operations ==
  [kind : {"idle", "read", "resume", "rebind"},
   at : {"none", "access", "loop", "take", "deliver", "delivered", "ready", "verify", "fetch", "get", "installed"},
   token : Nat, refetch : BOOLEAN, rows : SUBSET (Tokens \X Nat),
   cursor : Cursors \cup {None}, session : Sessions \cup {None}]

ASSUME NoneAssumption == None \notin Cursors /\ None \notin Sessions

CursorTypeOK ==
  /\ rec \in Records
  /\ complete \in BOOLEAN
  /\ sess \in [Clients -> Sessions \cup {None}]
  /\ op \in [Clients -> Operations]
  /\ given \subseteq Cursors

\* Whoever resumes with a cursor misses nothing: every row before it was given to
\* a caller, or was part of a read that ended with an error (README 208-211:
\* Resume skips the delivered offset).
NothingSkipped ==
  \A k \in given : RowsUpTo(PageAt(k.token), k.offset) \subseteq handed \cup told

\* No row is given to a caller twice, whichever tabs read, resume and crash.
NoRowTwice ==
  [][\A c \in Clients : HandOver(c) => op[c].rows \cap (handed \cup told) = {}]_cursorVars

\* A page without rows leaves no cursor of its own: once the pages after it are
\* installed, the last cursor still names it, and the ledger has seen its token.
EmptyPassed(page) == PageRows[page] = 0 /\ rec.digest > page

\* A result that goes on after its last row, which the code refuses.
RunsDry(page) == NextToken(page) # 0 /\ \A p \in (page + 1)..Len(PageRows) : PageRows[p] = 0

\* The current cursor can be resumed with: its page is at the place where the
\* ledger's counts are (README 264-268: partial-page Resume counts only
\* undelivered rows), and is refused as a repetition only when it is an empty
\* page that went by (see BoundaryIsFetched).
CursorIsHonoured ==
  Free /\ rec.cursor \in given =>
    LET k == rec.cursor
        page == PageAt(k.token)
    IN /\ Fits(page, k.partial) \/ RunsDry(page)
       /\ IF k.partial THEN SamePage(page) ELSE NewPage(k.token) <=> ~EmptyPassed(page)

\* README 210-211, "a boundary cursor fetches the next token": resume() fetches it
\* and does not take it for a repetition.
BoundaryIsFetched ==
  Free /\ rec.cursor \in given =>
    rec.cursor.partial \/ NewPage(rec.cursor.token)

\* Once the access was renewed, a session of the old one gets no more rows
\* (README 213-217: rebind replaces the trusted cursor reference).
OldAccessReadsNothing ==
  [][\A c \in Clients : HandOver(c) => sess[c].access = rec.access]_cursorVars

-----------------------------------------------------------------------------
(* What these rest on, where callers are careful (Unguarded is empty).  The *)
(* ledger is at one place of the result: within the page it has installed, *)
(* or, once a boundary cursor was taken up, before the page to fetch.      *)

Place == RowsUpTo(PageAt(rec.token), rec.offset)
Reached(k) == RowsUpTo(PageAt(k.token), k.offset)
InPage == PageAt(rec.token) = rec.digest
IsLoaded(c) == sess[c] # None /\ sess[c].loaded
AtPlace(c) == IsLoaded(c) /\ sess[c].page = rec.digest /\ sess[c].index = rec.offset

LedgerInv ==
  /\ IF rec.digest = 0 THEN rec.token = 0 /\ rec.next = 0 /\ rec.offset = 0 /\ rec.seen = {} /\ rec.cursor = None
     ELSE complete /\ rec.next = NextToken(rec.digest) /\ rec.seen = 2..rec.digest
  /\ rec.token # 1 /\ rec.rows = Cardinality(Place)
  /\ InPage => rec.offset <= PageRows[rec.digest]
  /\ rec.digest # 0 /\ ~InPage =>
       /\ rec.cursor # None /\ rec.cursor.token = rec.token /\ ~rec.cursor.partial
       /\ rec.offset = 0 /\ \A c \in Clients : ~AtPlace(c)

\* The cursor of the last delivery is at the place of the ledger.
CurrentInv ==
  LET k == rec.cursor IN
    IF k = None THEN
      /\ Place = {} /\ handed \cup told = {} /\ given = {}
      /\ \A c, d \in Clients : sess[c] # None /\ sess[d] # None => c = d
    ELSE
      /\ k.ref <= rec.refs /\ Reached(k) = Place
      /\ IF k.partial
         THEN InPage /\ k.token = rec.token /\ k.offset = rec.offset
              /\ (rec.offset < PageRows[rec.digest] \/ rec.next = 0)
         ELSE k.token \in 2..(rec.digest + 1) /\ k.offset = 0
              /\ (k.token = rec.digest => rec.offset = 0)
              /\ (rec.digest <= k.token \/ PageRows[k.token] = 0)

SessionInv ==
  \A c \in Clients :
    /\ sess[c] # None /\ ~sess[c].loaded => rec.cursor = None /\ rec.token = 0
    /\ IsLoaded(c) =>
         LET s == sess[c] IN
           /\ s.page \in 1..rec.digest /\ s.index <= PageRows[s.page]
           /\ s.done = (NextToken(s.page) = 0) /\ (s.aborted \/ s.size = PageRows[s.page])
           /\ InPage /\ s.page = rec.digest => s.index <= rec.offset

FetchInv(c) ==
  LET o == op[c] IN
    IF o.refetch THEN o.kind = "resume" /\ o.token = rec.token /\ InPage
    ELSE /\ RowsUpTo(PageAt(o.token), 0) = Place
         /\ o.kind = "resume" => ~o.cursor.partial
         /\ \/ o.token = rec.token /\ (rec.digest = 0 \/ rec.offset = 0) /\ (IsLoaded(c) => o.kind = "resume")
            \/ /\ o.kind = "read" /\ IsLoaded(c) /\ InPage
               /\ o.token = rec.next /\ o.token # 0 /\ rec.offset = PageRows[rec.digest]

KindInv(c) ==
  LET o == op[c] IN
    CASE o.kind = "idle" -> o = Idle
      [] o.kind = "read" ->
           /\ o.at \in {"access", "loop", "fetch", "get", "installed", "take", "deliver", "delivered"}
           /\ sess[c] # None /\ (o.at # "access" => sess[c].access = rec.access)
           /\ o.at \in {"take", "deliver", "delivered"} \/ o.rows = {}
      [] o.kind = "resume" ->
           /\ o.at \in {"ready", "fetch", "get", "installed"}
           /\ rec.cursor = o.cursor /\ o.cursor \in given
           /\ o.session # None /\ ~o.session.loaded /\ ~o.session.aborted
      [] OTHER ->
           /\ o.kind = "rebind" /\ o.at = "verify" /\ rec.access < MaxRebinds
           /\ rec.cursor \in given \cup {None}

StageInv(c) ==
  LET o == op[c] s == sess[c] IN
    /\ o.at \in {"fetch", "get"} => FetchInv(c)
    /\ o.at = "installed" => PageAt(o.token) = rec.digest /\ InPage
    /\ o.at \in {"take", "deliver"} => AtPlace(c) /\ InPage /\ s.size = PageRows[s.page]
    /\ o.at = "take" => s.index < s.size
    /\ o.at = "deliver" => o.rows = Rows(s.page, s.index + 1, s.index + o.token) /\ s.index + o.token <= s.size
    /\ o.at = "delivered" =>
         /\ IsLoaded(c) /\ InPage /\ s.page = rec.digest /\ rec.offset = s.index + o.token
         /\ o.rows = Rows(s.page, s.index + 1, rec.offset)
         /\ o.cursor = rec.cursor /\ o.cursor \notin given \cup {None}
         /\ handed \cup told = RowsUpTo(rec.digest, s.index)

OpInv ==
  /\ \A c, d \in Clients : op[c] # Idle /\ op[d] # Idle => c = d
  /\ \A c \in Clients : KindInv(c) /\ StageInv(c)

\* Whoever is at the ledger's place has missed nothing; no one is beyond it.
ReadInv ==
  /\ \A k \in given : Reached(k) \subseteq handed \cup told /\ k.ref <= rec.refs
  /\ handed \cup told \subseteq Place
  /\ \/ \E c \in Clients : AtPlace(c) \/ op[c].at \in {"fetch", "get", "installed"}
     \/ rec.cursor \in given \cup {None}
     => handed \cup told = Place

CursorInv == LedgerInv /\ CurrentInv /\ SessionInv /\ OpInv /\ ReadInv
=============================================================================
