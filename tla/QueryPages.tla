----------------------------- MODULE QueryPages -----------------------------
(***************************************************************************)
(* A caller reads a query to its end: query(), then again with the cursor  *)
(* of each page, while another client may insert or delete one row.  The   *)
(* adapter is a plan and a page of QueryAdapters; the service may order    *)
(* what the plan leaves open as it likes, anew in every request, and end a *)
(* page early where its protocol lets it.                                  *)
(***************************************************************************)
EXTENDS QueryAdapters, KeysetOrder, Sequences, SequencesExt, FiniteSetsExt

CONSTANTS Columns,   \* the values that the rows 1, 2, ... may have in the ordered column
          Churning,  \* the row that comes or goes
          Limits,    \* the limits that a query may ask for
          Offsets,   \* the offsets that it may ask for, and OffsetCap
          PageCap,   \* maxQueryLimit, maxResults, maxRows: rows of a page without a limit
          ScanPage,  \* scanPageSize: rows of a request of a scan
          ScanCap,   \* maxScanRows: rows of a scan without a limit
          OffsetCap  \* maxQueryOffset: rows that a window may pass over and give

ASSUME PagesAssumption ==
  /\ {PageCap, ScanPage, ScanCap, OffsetCap} \union Limits \subseteq Nat \ {0} /\ Offsets \subseteq Nat
  /\ \A c \in Columns : c \in Seq(Nat) /\ Churning \in DOMAIN c

VARIABLES source,    \* the adapter
          ask,       \* the query: its limit (None: not given), order and offset
          values,    \* row id -> the value it is ordered by
          present,   \* the rows that exist
          churned,   \* the other client has written
          reading    \* the caller's progress
pageVars == <<source, ask, values, present, churned, reading>>

NoLimit == 0
Ids == DOMAIN values
Row(i) == [id |-> i, v |-> values[i]]
Steady == Ids \ {Churning}

(* Where a continuation is: before everything, or after a row.              *)
AtStart == [id |-> 0, v |-> Null]

(* reading.at is `asking' while a request is out, `answered' with a cursor,  *)
(* `ended' without one, `failed'; got: the rows this call has so far;       *)
(* given: those the caller was given; cursor: where it continues; offset:   *)
(* the offset of the request, which the first page applies.                 *)
FirstCall(a) == [at |-> "asking", got |-> <<>>, given |-> <<>>, cursor |-> AtStart, offset |-> a.offset]

PagesInit ==
  /\ source \in DOMAIN Queries
  /\ ask \in [limit : {NoLimit} \union Limits, dir : Queries[source].plan.dirs,
              offset : IF Queries[source].plan.offset = "refused" THEN {0}
                       ELSE IF Queries[source].page.cursor = "found" THEN Offsets \union {OffsetCap} ELSE Offsets]
  /\ values \in Columns
  /\ Queries[source].plan.nulls = "never" => Null \notin Range(values)
  /\ present \in {Ids, Steady}
  /\ churned = FALSE
  /\ reading = FirstCall(ask)

plan == Queries[source].plan
page == Queries[source].page

(* The order a request fixes: of all rows, of the values only, or none.     *)
Fixed == plan.ties = "always" \/ (plan.ties = "ordered" /\ ask.dir # "none")
Precedes(i, j) ==
  IF Fixed THEN RowBefore(plan.nulls, ask.dir, Row(i), Row(j))
  ELSE ask.dir # "none" /\ ValueBefore(plan.nulls, ask.dir, values[i], values[j])
Orderings(S) == {s \in SetToSeqs(S) : \A j \in 1..Len(s) : \A i \in 1..(j - 1) : ~Precedes(s[j], s[i])}

(* What a request matches, after it has passed over its offset.             *)
Matching ==
  {i \in present : reading.cursor = AtStart \/ After(plan.after, plan.nulls, ask.dir, Row(i), reading.cursor)}
Remainders(passed) == {SubSeq(s, passed + 1, Len(s)) : s \in Orderings(Matching)}

(* Rows a request wants, and the one it asks for beyond them.               *)
Wanted ==
  CASE ask.limit # NoLimit -> ask.limit - Len(reading.got)
    [] page.unlimited = "cap" /\ ask.limit = NoLimit -> PageCap
    [] page.unlimited = "budget" /\ ask.limit = NoLimit -> PageCap - ask.offset
    [] OTHER -> Cardinality(Ids)
Sentinel == IF page.sentinel = "always" \/ (page.sentinel = "unlimited" /\ ask.limit = NoLimit) THEN 1 ELSE 0

(* How many rows the service returns of a remainder, and whether it says    *)
(* that there are more: it may say so at an end it has not seen yet.  An    *)
(* empty page is none of PostgREST's.                                       *)
Returned(rest) ==
  LET most == Min({Wanted + Sentinel, Len(rest)})
  IN IF ~page.short THEN {most} ELSE IF page.cursor = "row" /\ most > 0 THEN 1..most ELSE 0..most
Tokens(rest, n) == IF n < Len(rest) THEN {TRUE} ELSE IF n = Wanted THEN BOOLEAN ELSE {FALSE}

HasNeeds == /\ "limit" \in page.needs => ask.limit # NoLimit
            /\ "order" \in page.needs => ask.dir # "none"
(* An answer has a cursor.                                                  *)
Continues(rows, beyond, token) ==
  /\ HasNeeds
  /\ CASE page.cursor = "full" -> Len(rows) = Wanted
       [] page.cursor = "more" -> beyond
       [] page.cursor = "row" -> rows # <<>>
       [] page.cursor = "token" -> token
       [] OTHER -> FALSE
(* query() throws instead of answering.                                     *)
OverBudget == page.unlimited = "budget" /\ ask.limit # NoLimit /\ ask.limit + ask.offset > PageCap
Throws(rows, beyond, token) ==
  \/ OverBudget
  \/ beyond /\ page.more = "error"
  \/ token /\ page.cursor = "refused"
  \/ /\ Continues(rows, beyond, token) /\ plan.after \in NullRefused
     /\ ask.dir # "none" /\ values[Last(rows)] = Null
(* query() asks again by the key at which the last page ended.              *)
GoesOn(rows, token) == page.loops = "keys" /\ token /\ (ask.limit = NoLimit \/ Len(rows) < Wanted)

(* query() scans: always, or only for more rows than one answer may have.  *)
Scans == page.loops = "offsets" \/ (page.loops = "beyond" /\ (ask.limit = NoLimit \/ ask.limit > PageCap))

AnswerPage ==
  /\ reading.at = "asking" /\ (page.loops \in {"no", "keys"} \/ (page.loops = "beyond" /\ ~Scans))
  /\ \E rest \in Remainders(reading.offset) : \E n \in Returned(rest) :
     \E token \in IF page.short THEN Tokens(rest, n) ELSE {FALSE} :
       LET rows == SubSeq(rest, 1, Min({n, Wanted}))
           beyond == n > Wanted
           here == [reading EXCEPT !.got = @ \o rows, !.offset = 0,
                                   !.cursor = IF rows = <<>> THEN @ ELSE Row(Last(rows))]
           answer == [here EXCEPT !.given = @ \o here.got, !.got = <<>>]
       IN \/ Throws(rows, beyond, token) /\ reading' = [reading EXCEPT !.at = "failed"]
          \/ ~Throws(rows, beyond, token) /\ GoesOn(rows, token) /\ reading' = here
          \/ /\ ~Throws(rows, beyond, token) /\ ~GoesOn(rows, token)
             /\ reading' = [answer EXCEPT !.at = IF Continues(rows, beyond, token) THEN "answered" ELSE "ended"]
  /\ UNCHANGED <<source, ask, values, present, churned>>

(* One request of a scan by offsets: it passes over what it has yielded,    *)
(* and, at its cap, asks for one row more, which would be one too many.     *)
Left == (IF ask.limit = NoLimit THEN ScanCap ELSE ask.limit) - Len(reading.given)
ScanLimit == Min({ScanPage, IF ask.limit = NoLimit THEN Left + 1 ELSE Left})
ScanNext ==
  /\ reading.at = "asking" /\ Scans
  /\ \E rest \in Remainders(reading.offset) :
       LET rows == SubSeq(rest, 1, Min({ScanLimit, Len(rest)}))
           done == Len(rows) < ScanLimit \/ (ask.limit # NoLimit /\ Len(rows) = Left)
       IN \/ Len(rows) > Left /\ reading' = [reading EXCEPT !.at = "failed"]
          \/ /\ Len(rows) <= Left
             /\ reading' = [reading EXCEPT !.given = @ \o rows, !.offset = @ + Len(rows),
                                           !.at = IF done THEN "ended" ELSE @]
  /\ UNCHANGED <<source, ask, values, present, churned>>

(* One request of a window, which stands at its first row or, rewound, at   *)
(* the first row of all: the service may return fewer rows than there are,  *)
(* and counts those it found.                                               *)
Windowed == page.loops \in {"window", "rewind"}
Limit == IF ask.limit = NoLimit THEN PageCap ELSE ask.limit
Origin == IF page.loops = "rewind" THEN 0 ELSE reading.offset
WindowEnd == reading.offset + Limit
Passed == Origin + Len(reading.got)
Size == Min({ScanPage, WindowEnd - Passed})
InWindow(rows) == SubSeq(rows, reading.offset - Origin + 1, Len(rows))
WindowRefused == reading.at = "asking" /\ Windowed /\ WindowEnd > OffsetCap
WindowPage(rows, found) ==
  LET got == reading.got \o rows
      done == [reading EXCEPT !.got = <<>>, !.given = @ \o InWindow(got)]
      all == Origin + Len(got) = WindowEnd
  IN IF \/ ~IsInjective(got)
        \/ Len(rows) < Size /\ found > Passed + Len(rows)
        \/ all /\ found > WindowEnd /\ WindowEnd + Limit > OffsetCap
     THEN [reading EXCEPT !.at = "failed"]
     ELSE CASE all /\ found > WindowEnd -> [done EXCEPT !.at = "answered", !.offset = WindowEnd]
            [] (all /\ found <= WindowEnd) \/ (~all /\ Len(rows) < Size) -> [done EXCEPT !.at = "ended"]
            [] OTHER -> [reading EXCEPT !.got = got]
WindowNext ==
  /\ reading.at = "asking" /\ Windowed
  /\ \/ WindowRefused /\ reading' = [reading EXCEPT !.at = "failed"]
     \/ /\ ~WindowRefused
        /\ \E rest \in Remainders(Passed) : \E n \in 0..Min({Size, Len(rest)}) :
             reading' = WindowPage(SubSeq(rest, 1, n), Cardinality(present))
  /\ UNCHANGED <<source, ask, values, present, churned>>

(* The caller asks for the next page: the same query without its offset,    *)
(* unless a cursor is bound to a query that has it.  Without an order       *)
(* InfluxDB refuses the cursor that it gave.                                *)
BindsOffset == page.binds /\ plan.offset = "again"
Refused == plan.after = "influx" /\ ask.dir = "none"
Resume ==
  /\ reading.at = "answered"
  /\ reading' = IF Refused THEN [reading EXCEPT !.at = "failed"]
                ELSE [reading EXCEPT !.at = "asking", !.offset = IF Windowed THEN @ ELSE IF BindsOffset THEN ask.offset ELSE 0]
  /\ UNCHANGED <<source, ask, values, present, churned>>

(* The other client.                                                        *)
Churn ==
  /\ ~churned /\ churned' = TRUE
  /\ present' = IF Churning \in present THEN present \ {Churning} ELSE present \union {Churning}
  /\ UNCHANGED <<source, ask, values, reading>>

PagesNext == AnswerPage \/ ScanNext \/ WindowNext \/ Resume \/ Churn
PagesSpec == PagesInit /\ [][PagesNext]_pageVars

Readings ==
  [at : {"asking", "answered", "ended", "failed"}, got : Seq(Ids), given : Seq(Ids),
   cursor : {AtStart} \union {Row(i) : i \in Ids}, offset : Nat]
PagesTypeOK ==
  /\ source \in DOMAIN Queries /\ ask \in [limit : Nat, dir : Directions, offset : Nat]
  /\ values \in Columns /\ present \in {Ids, Steady} /\ churned \in BOOLEAN
  /\ reading \in Readings

-----------------------------------------------------------------------------
(* Rows the caller has a right to: those that were there all the time.      *)
(* After a page whose last value was not Null, the conditions of three      *)
(* adapters are never true of a Null.                                       *)
BlindToNull == {"neo4j", "neptune", "clickhouse"}
Due == {i \in Steady : ~(plan.after \in BlindToNull /\ ask.dir # "none" /\ values[i] = Null)}
Undelivered == Due \ Range(reading.given)

MayChain == page.cursor \in {"full", "more", "row", "token", "found"} /\ HasNeeds
Ties == ask.dir # "none" /\ ~IsInjective(values)

(* Read to its end with the cursors it gave, a query has given every row    *)
(* that was there throughout but the rows of its offset, and none twice,    *)
(* whatever the other client wrote meanwhile.  The exceptions are the       *)
(* adapters': search_after passes over rows that tie with the last one, an  *)
(* offset bound into a cursor is applied anew, a scan or a window by        *)
(* offsets shifts under writes, and a window under an open order too.       *)
ChainIsExact ==
  (/\ reading.at = "ended" /\ (MayChain \/ Scans)
   /\ ~(plan.after = "search" /\ Ties) /\ ~(BindsOffset /\ ask.offset # 0)
   /\ ~(Scans /\ (churned \/ ask.limit # NoLimit)) /\ ~(Windowed /\ (churned \/ Ties)))
  => IsInjective(reading.given) /\ Cardinality(Undelivered) <= ask.offset

(* These cut a result off at their cap, and nothing in the answer says so.  *)
CutsSilently ==
  {"appwrite", "pocketbase", "solr", "algolia", "qdrant", "couchbase", "elasticsearch", "opensearch",
   "clickhouse", "clickhouseNative", "bigquery", "libsqlLegacy", "postgrestLegacy", "timestream"}

(* An answer of the others that cannot be continued has as many rows as     *)
(* were asked for, or all there are: what is beyond a cap is an error, never *)
(* left out.                                                                *)
AnswerIsWhole ==
  (reading.at = "ended" /\ ~MayChain /\ source \notin CutsSilently /\ ~Scans)
  => (ask.limit # NoLimit /\ Len(reading.given) = ask.limit) \/ Cardinality(Undelivered) <= ask.offset

-----------------------------------------------------------------------------
(* What these rest on.                                                      *)

Before(i, j) == RowBefore(plan.nulls, ask.dir, Row(i), Row(j))
RowsGiven(r) == r.given \o r.got

(* A query is one that its adapter accepts.                                 *)
AskInv ==
  /\ ask.dir \in plan.dirs
  /\ plan.nulls = "never" => Null \notin Range(values)

(* A chain that goes on from the last row it gave: what it gave is in the   *)
(* order, and what it passed over is what the first page was told to.       *)
ByCursor == MayChain /\ ~Windowed /\ ~(plan.after = "search" /\ Ties) /\ ~(BindsOffset /\ ask.offset # 0)
Ascending(rows) == \A p, q \in DOMAIN rows : p < q => Before(rows[p], rows[q])
PassedOver(rows) == {i \in Due \ Range(rows) : ~Before(Last(rows), i)}
Chained(r) ==
  /\ r.cursor = IF RowsGiven(r) = <<>> THEN AtStart ELSE Row(Last(RowsGiven(r)))
  /\ Ascending(RowsGiven(r)) /\ (RowsGiven(r) # <<>> => Cardinality(PassedOver(RowsGiven(r))) <= ask.offset)
  /\ r.at = "asking" => r.offset <= (IF RowsGiven(r) = <<>> THEN ask.offset ELSE 0)
  /\ plan.after \in NullRefused /\ ask.dir # "none" /\ RowsGiven(r) # <<>> => values[Last(RowsGiven(r))] # Null
CursorInv(r) ==
  ByCursor =>
    /\ r.at = "asking" =>
         /\ Chained(r) /\ (Refused => RowsGiven(r) = <<>>)
         /\ ask.limit # NoLimit => Len(r.got) < ask.limit
    /\ r.at = "answered" => r.got = <<>> /\ (Refused \/ Chained(r))

(* A chain that goes on at an offset: what it gave is a part of the one     *)
(* order that every request finds, from the offset of the query on.         *)
Follows(rows, s, o) == \A k \in DOMAIN rows : o + k <= Len(s) /\ rows[k] = s[o + k]
Tracks(rows, o) == \A s \in Orderings(present) : Follows(rows, s, o)
ByOffset == (Scans /\ ask.limit = NoLimit) \/ (Windowed /\ ~Ties)
Start(r) == IF page.loops = "rewind" THEN 0 ELSE r.offset
OffsetInv(r, wrote) ==
  ByOffset /\ ~wrote /\ r.at \in {"asking", "answered"} =>
    /\ r.cursor = AtStart /\ r.offset = ask.offset + Len(r.given)
    /\ Tracks(r.given, ask.offset) /\ Tracks(r.got, Start(r))
    /\ Scans \/ r.at = "answered" => r.got = <<>>

(* What cannot go on is asked for once.                                     *)
SingleInv(r) ==
  ~MayChain => r.at # "answered" /\ (~Scans /\ r.at = "asking" => r = FirstCall(ask))

PagesInv ==
  AskInv /\ CursorInv(reading) /\ OffsetInv(reading, churned) /\ SingleInv(reading) /\ ChainIsExact /\ AnswerIsWhole
=============================================================================
