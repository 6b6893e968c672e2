# Verification of the DALgo HTTP adapters

TLA+ models, TLC runs and TLAPS proofs for the repository of DALgo adapters that
reach their database over HTTP or in the browser. Paths below are relative to
the repository; `sqlite-wasm/`, `bigquery/` ... stand for `packages/sqlite-wasm/`,
`packages/bigquery/` ...

- [Inventory](#inventory): the parts of the system, their state, their operations, what is hard
- [Modules](#modules): which module models what, action by action
- [Runs](#runs): what each run checks, its bounds, and the fairness assumed
- [Theorems](#theorems): what is proved, and how
- [What the models found](#what-the-models-found), and [what the adapters do not promise](#what-the-adapters-do-not-promise)
- [What is not modelled](#what-is-not-modelled)
- [Plan](#plan)

Check a run with `tlc -workers 2 -config <cfg> <module>`, a proof with `tlapm <module>`.
`PROJECT.json` maps every definition to the lines it models and lists, for every
property, a mutant of a mapped definition under which TLC finds it violated.

## Inventory

The repository is a monorepo of 38 adapter packages, about 30,000 lines of
TypeScript under `packages/*/src`, with no shared process: each package is a
library in the caller's page or server. Four families matter.

### The browser database (`sqlite-wasm`, 3,081 lines)

A page opens a dataset, published as compressed parts under a pinned version,
as an SQLite database in the browser. Several tabs share one database: one
leads, owns a worker with the database and serves the others.

| Part | State it keeps | Operations | Talks to | Hard |
|---|---|---|---|---|
| Leader election `opfs/leader.ts` | `#state`, `#round`, `#release` | `start`, `release`, the grant and the callback of a lock request | Web Locks; callbacks into the session | release and start while the callback of an earlier round still runs; a callback that fails late; a tab that disappears |
| Tab bridge `opfs/tab-bridge.ts` | `#hosting`, `#leader`, `#leaderGeneration`, pending requests, served ports | `host`, `follow`, `request`, `connect`, `close`, one handler per message kind | BroadcastChannel; the session's `serve` | announcements and byes that cross requests; a host that steps down before it answers; crashed peers |
| Session `opfs/session.ts`, `client.ts` | role, worker client, restart counter, closed | constructor, `close`, suspend and resume with the page, worker failures, `request` | election, bridge, worker, listeners | every callback may come late; listeners may call `close` in the middle of a handler |
| Worker and engine `opfs/worker.ts`, `engine.ts` | one task at a time; the open database | `open`, `reset`, `query`, `execute`, `batch`, `export`, `close` | session, canonical store, SQLite | an await at each step of an open; a crash at each |
| Canonical store `opfs/canonical.ts`, `reset.ts`, `pool.ts` | files of the access-handle pool: working copy, journal, edits marker, pristine copy, per version | restore, replace, discard other versions, reset; retries of a locked pool | OPFS, fetch | no step is atomic with the next one; a pool held by a worker that is going away |
| Database and queue `database.ts` | one promise queue, one connection, schema cache | `get`, `set`, ..., `runTransaction` | a driver | operations that are not awaited by their transaction |

Correct means: one worker at a time has the database open; it belongs to the tab
that has the lock; what a tab says about its role is true; no request is lost,
answered by the wrong leader or run twice; when the leader goes, another takes
over; a commit that was acknowledged survives every crash; what opens is a whole
file of the pinned version.

### The analytical client (`bigquery/src/analytical`, about 2,000 of 3,383 lines)

A page previews a query by a dry run, has its cost approved, submits it against
a session budget of billable bytes and reads its result with cursors, over a
ledger in a store that tabs share (`update` is atomic, everything between two updates is not).

| Part | State it keeps | Operations | Hard |
|---|---|---|---|
| Client `client.ts` | previews and approvals in memory; per result: loaded rows, offset, page digest, tokens seen | `preview`, `approve`, `execute`, `status`, `cancel`, `nextRow`, `nextPage`, `resume`, `rebind`, `close` | two tabs with one approval or one budget; policy and source that change between the checks; a tab that goes between ledger and request |
| Ledger `ledger.ts` | per run: state, reservation, lease, cursor, counters; per session: budget | `update`, `transition` | stale reads; a run that stays reserved |
| Transport `transport.ts` | nothing | one request with a deadline, a charge before it leaves | a POST that got no answer but is carried out; a deadline between charge and dispatch |
| Identity, values, wire | nothing that lasts | token, decoding, canonical JSON | external, or data |

Correct means: no more is ever billed than the session's budget; one approval
makes at most one job; what changed since the preview is not submitted; each row
is given to the reader once, in order, none is skipped; a cursor that was given
can be resumed with; an access that was replaced reads nothing.

### Adapters with state of their own

| Package (lines) | State, and what is hard about it |
|---|---|
| `libsql` (3,139), `datastore` (351) | a registry of cursors, single-use in libSQL: reserve, commit, release around a request that may fail; keyset pages; discovery of a table's key |
| `postgrest` (1,809) | signed keyset cursors; the filter that continues a page must agree with the order, NULLs included |
| `couchdb` (1,709), `ovdb` (937) | a write reads the revision first and is conditional on it; bookmarks and batches |
| `typesense` (3,010) | a page planner that splits a search by numeric ranges |
| `d1` (922) | a read handler with version checks over a binding |
| `indexeddb` (660) | one cached connection; native transactions that abort with the callback |
| `neo4j` (722) | explicit transactions over HTTP, whose end is uncertain after a time-out |
| `databricks` (476), `snowflake` (322), `redshift` (301), `rds-data` (242), `timestream` (252), `kusto` (99) | submit, poll, collect partitions under one deadline |
| `firestore` (898) | transactions an SDK retries |

### Adapters without state between calls

`dynamodb`, `cosmosdb`, `azure-table`, `pocketbase`, `appwrite`, `elasticsearch`,
`opensearch`, `solr`, `algolia`, `qdrant`, `pinecone`, `http`, `firebase-rtdb` and
`couchbase` make one conditional request per operation and map its status to a
DALgo error. `clickhouse`, `influxdb`, `neptune`, `spanner` and `sqlite-sql`
compile a query and send it once. What is hard there is what became of a request
without an answer, and when the call ends: each adapter writes its own path from the header
provider over `fetch` to the body, under a deadline. `adapter-runtime` (323) has the abort scopes,
races and quiet cancellation that the newer ones share.

Correct means: past its deadline, or aborted by its caller, a call ends at once and leaves no response
open; a write takes effect once, on what it says it saw, and its caller is told the truth or "failed"; a batch
answers for each key asked for; a query read to its end has given each row once; a condition selects the rows of
which it is true; no value is altered without an error. Which adapter promises how much of this differs, and
the models say which.

`PROJECT.json` lists every component with its status, and under `hazards` what is
hard to test, at its line, with the properties that watch it.

## Modules

### Who uses what

    DemoDbTabs                     tabs that are alive; a tab goes
      LeaderElection               one election per tab, the lock manager
      TabBridge                    one bridge per tab, the channel
        BridgePorts                the ports over it
          TabBridgeProofs          of the bridge and of the ports
      DemoDbSession                sessions: election + bridge + worker + page
        SessionProofs              of the election and of the session
    LeaderLease                    abstract: at most one owner
      refined by LeaderElection (who holds the lock and leads)
      refined by DemoDbSession  (who serves the dataset)
    DatasetStore                   engine, canonical store and pool over the files
      DatasetStoreProofs
    MCOpfs                         LeaderElection and DatasetStore side by side
    AnalyticalClients              the tabs that share a ledger
      AnalyticalBudget             previews, approvals, submissions, the ledger
        AnalyticalBudgetProofs
      AnalyticalCursor             reading one submitted result
        AnalyticalCursorProofs
      MCAnalytical                 the two side by side
    HttpAdapters                   how each of 30 adapters makes a call
      HttpCall                     one call, its environment and its aftermath
    RecordStore                    abstract: writes of one record, and what their callers are told
      refined by RecordCalls       concurrent writers, late and lost requests
        RecordAdapters             how each of 23 adapters writes (21 of them promise enough)
          RecordProofs             of RecordCalls and QueryPages
    BatchReads                     42 ways to read several keys
    PolledStatement                a statement that is submitted, polled and collected
    KeysetOrder                    orders with Nulls, and the conditions that continue them
      QueryAdapters                44 query paths: what is sent, what is made of the answer
        QueryPages                 a caller reads to the end while a row comes or goes (RecordProofs)
      FilterSemantics              35 translations of a condition, and how a service evaluates it
    RecordValues                   32 encodings of a field, there and back
    CursorHandles                  the registries of cursors in memory
    Transactions                   five kinds of transactions
    KeyDiscovery                   what two catalogs conclude about a table's key
    MetadataConsent                metadata discovery, the account and its consent
    TransportProofs                of HttpCall, BatchReads and PolledStatement
    AdapterProofs                  of CursorHandles, Transactions, KeyDiscovery and MetadataConsent
    MCAdapters                     the eleven parts from HttpCall on side by side, one per behaviour

The `MC...` modules give the constants their values.

### LeaderLease and LeaderElection (`opfs/leader.ts`)

`LeaderLease` is what the election promises: nobody or one tab owns the dataset,
a tab acquires it when nobody does, an owner gives it up.

In `LeaderElection` a round of the code, an object compared by identity, is a number
that is never reused. `state` and `round` are the fields `#state` and `#round`;
`requests` is the queue of the lock manager, `opening` the rounds whose `onAcquired` is
awaited, `holding` the rounds whose callback holds the lock.

| Action | Code |
|---|---|
| `Start` | `start()`: a new round; with locks it queues, without them its callback begins at once |
| `Grant` / `Discard` | the lock is granted: to the round `#round` names, which opens, or to an ended one, which returns |
| `Acquired`, `AcquireFailed` | `onAcquired` settles: the round leads, or is no longer the current one and gives way; a failure is reported, whichever round it is of |
| `Release` | `release()`: idle, and the held lock goes |
| `Unlock`, `RequestFailed` | the callback's promise settles; `locks.request` rejects |
| `Crash` | the tab goes, and with it its requests and locks |

Tabs in `Lockless` have no lock manager: they lead at once, each for itself.

### TabBridge (`opfs/tab-bridge.ts`)

Leadership, announcements and requests. `BroadcastChannel`
gives each message once to each other bridge, those of one sender in order; messages
of two senders overtake each other unless `Ordered`. Each term of a host has a number,
which the code does not have: `fresh` says that the follower's `#leaderGeneration` was
counted up since a request was sent. `BecomeLeader`, `StepDown`, `SayHello`, `Call` and `Close` are
the calls of the session, `Receive...` the handlers of the channel's messages, `Served` the end of a
served request (nothing is posted when the host's term is over), `BridgeCrash` a tab that goes
without a bye. `Post` is the one way a message leaves: what a step posts goes to one tab or to every other
bridge that listens, behind what is there. The requests `#setLeader` sends are in the order they were
made, which `Ascending` gives without recursion (a `Map` is iterated in that order).

### BridgePorts (`opfs/tab-bridge.ts` 60-170, 370-500)

The bridge with a port per tab. `endpoint` is the tab's end: messages `queued` while no leader is known, and
`inFlight` ones a change of leader fails; `served` is the leader's end, opened by the first message. A tab that
leads posts to itself in a microtask, which comes before the next message of the channel. `Flush` sends what was
queued when a leader is known, `FollowLeader` fails what was sent to the one before; `told` is ghost: the hosts
that a tab has told that its port is gone. The host's protocol answers each message once or never, and does not close the port.

### DemoDbSession (`opfs/session.ts`, `opfs/client.ts`)

Composes the two: an action of the session is one synchronous handler of the code and
takes the step of election and bridge it calls in the same step. The worker is
starting, open, failed or gone; the page is shown, hidden, or gone. `Service` refines `LeaderLease`.

`ClosingListeners` lets a listener call `close()` in the middle of the handler that emits the event:

| Event | What the handler does after it | In the model |
|---|---|---|
| `error` (`session.ts:286`, `299`), `role` while a host steps down | begins a round, or closes again | `OpenFails`, `WorkerRestarts`, `WorkerGivesUp` |
| `role` on resume (314) | begins a round (315) | `Resume` |
| `opened` (266) | `becomeLeader` (267) on a bridge that is closed | `ClosedAtOpen` with `LeadsClosed` |
| `role` in `becomeLeader` (`tab-bridge.ts:441-462`) | answers what waited, announces | `ClosedAtOpen` with `ClosedLeading` |

After every other `role` event the handler has nothing left to do, or only what `close()` has done by then (305-309, 300-302), so a `close()`
there is an action of its own.
`becomeLeader` has no check, so after a `close()` at `opened` the bridge keeps `#host` and `#leader` of a worker that was terminated. A closed bridge hears no message and
posts none, so it `Answers` nobody: `servers` and `HostHasWorker` speak of tabs that answer, and `EndedIsShut` (part of the
invariant) says that every failed or closed session has such a bridge.

### DatasetStore (`opfs/engine.ts`, `canonical.ts`, `pool.ts`, `reset.ts`, `worker.ts`)

An action is the code between two awaits of one open, reset, transaction or close. The
files of each version are `none`, `whole` or `torn`; the working copy carries the number of
the commits in it; the journal says whether it is hot. A worker may be gone after any
action (`WorkerCrash`), and the next one starts from the files. `cut` is ghost: the commits that a
reset or a new version gives up by intent. `acked` is ghost: the commits acknowledged.

### AnalyticalBudget (`analytical/client.ts` 80-330 and 600-690, `ledger.ts`, `transport.ts`)

An action is one ledger update or the code around one request. `Preview` and `Approve`
make an approval; `Execute` reserves the cap and takes the lease; four `Check`s reread
policy, source, lease and approval; `Submitting` charges, `Dispatch` sends. BigQuery may
carry a POST out late, or without its answer arriving. `Control...` are `status` and
`cancel`, which may run in another tab. `Change` changes the policy or the source.
`TabGone` takes a tab at any time.

### AnalyticalCursor (`analytical/client.ts` 230-260, 330-600)

The ledger's record of one submitted run, and a session per tab that reads it by row or
page. An action is the code between two awaits: fetch a page, take rows, advance
the ledger, deliver. `Unguarded` names the calls a careful caller does not make:
`close` while a read is on its way, `resume` in one tab while another one still reads. They
are off in the run that passes, and each is on in a run that shows what it does.

A page may have no rows. It is delivered with no cursor, so the current cursor stays the boundary before it (`EmptyPassed`), and such a
boundary is refused as a repetition from then on. `CursorIsHonoured` says exactly when the current cursor works: whenever no empty page has gone by behind it.
`BoundaryIsFetched` says what `bigquery/README.md:210-211` promises, without that exception, and is violated. A result with another page after its last row (`RunsDry`) is refused
for its counts, as the code means to.

`MCAnalytical` sets the two parts side by side over the same tabs (`AnalyticalClients`); where nobody has a run to read (`NobodyReads`) the cursor's part rests.

### HttpAdapters and HttpCall (`adapter-runtime/src/cancellation.ts` and the transports)

`HttpAdapters` has a definition per adapter for its `request` and one for its body reader: which
awaits are raced against the abort signal, where the timer starts, when the status is judged, what
happens to a body that is refused, too long or late. `HttpCall` is the control they share, read from
`couchdb/src/transport.ts`, with those traits where they differ: an action is the code between two awaits, so an abort
listener runs as one step and never between an await's end and what follows it. The header provider,
`fetch`, the stream and `cancel()` may fail, or never settle; `deaf` ones ignore the signal. The
aftermath is in the model: a response that comes after the end, and the loop that `algolia`, `qdrant` and
`pinecone`, which race around the loop and not inside it, leave reading.

### RecordStore, RecordAdapters, RecordCalls

`RecordStore` is what the writes of a DALgo database promise for one record: each takes effect at most once, at
one moment, only if its condition holds then; what its caller is told is true of one moment of the call, or is "failed",
after which the write may still take effect. `RecordAdapters` gives the writes of each adapter as what it sends: the
revision it reads first, the condition on the request, the effect, and what a refusal becomes. `RecordCalls` lets two
writers run them at once: `Read`, `Send`, the service that serves a request whenever it likes, or never, the answer or its loss. It
refines `RecordStore` for 21 of the 23. The two others promise less and are outside `Promising`: libSQL's `update` does not
ask whether it changed a row (`libsql/src/sql.ts`), and the update of the Realtime Database SDK creates what is missing.

### BatchReads, PolledStatement

`BatchReads` reads several keys in the 42 ways the code has (one request, chunks, a pool of workers, one by one), with keys
asked for twice, answers out of order or incomplete and a failing sibling. `PolledStatement` follows one statement at Databricks, Snowflake, Redshift
and BigQuery: submitted, polled, its chunks collected by number, link or token, under one deadline.

### KeysetOrder, QueryAdapters, QueryPages, FilterSemantics

`KeysetOrder` is pure: where each service puts Null, and the condition each cursor turns into. `QueryAdapters` says for 44 query paths
what the compiler writes (orders, tie-break, cursor, offset) and what `query()` makes of an answer (limits, caps, when a
cursor is given). `QueryPages` reads such a query to its end while another client inserts or deletes a row: single pages
(`AnswerPage`, `Resume`), the scans of `d1` by offset (`ScanNext`), the windows of Typesense (`WindowNext`).
`FilterSemantics` takes one condition through its translation to the service's own rules about Null, missing fields,
lists and ranges; Typesense asks for more than it wants and checks each row.

### RecordValues

One field, written by the caller through an adapter's checks and encoding, or put there by another client, then parsed
and checked on its way back: integers beyond 2^53, numbers beyond every double, -0, holes, `undefined`, dates, bytes.

### CursorHandles, Transactions

`CursorHandles` is the registry of `libsql` (its two clients), `couchdb`, `typesense` and `datastore`: a handle is leased, spent
or released around a request that fails, is aborted or answered, while another caller pushes it out of the registry. Handles are
numbered as they are minted, so the registry, a `Map` in order of insertion, is a set, and the handle it pushes out its least member.
`Transactions` runs one callback of each kind against other clients: the batch `ovdb` sends, the retried transaction of `firestore`, the
statements of `neo4j`, BEGIN and COMMIT of `sqlite-wasm` with an operation that nobody awaits (`StartAdrift`, `RunAdrift`), and
the transaction that `indexeddb` commits by itself (`AutoCommit`). SQLite may fail a write and roll back by itself (`DiskFull`): the callback may catch that
and go on, its next writes run in autocommit (`StoreAlone`), COMMIT finds no transaction, and ROLLBACK undoes none of them.

### KeyDiscovery, MetadataConsent

`KeyDiscovery` lets the adapter conclude from every schema whether a column proves a table's key, from SQLite's pragmas
(`libsql/src/metadata.ts`) or PostgREST's document (`postgrest/src/discovery.ts`), and compares it with what such a table can hold.
The schema does not change during a discovery. `MetadataConsent` (`analytical/metadata-client.ts`, `google-identity.ts`,
`transport.ts`) has an action per await of a discovery; sign-in, sign-out, expiry and consent may change at each. Assumed,
as `MetadataCurrentBinding` asks of its consumer: a consent is a new object each time, and is withdrawn before the account changes.

### MCAdapters

These parts share no state, so `MCAdapters` sets them side by side: `part` says which one a behaviour is about, the
others keep one initial state. It is one run because they are small. `MCOpfs` and `MCAnalytical` do the same
for election and store and for budget and cursor, of which each pair shares no variable.

### What is left to the adversary, and what is excluded

| Name | Meaning | Why |
|---|---|---|
| `Lockless` | tabs without Web Locks | the code has a path for them; each leads for itself, in memory |
| `Ordered` | messages of two senders arrive in the order they were posted | FALSE for the bridge alone: the standard orders one sender's messages only. TRUE for the session runs, where the other order adds states and no other outcome of the properties |
| `ClosingListeners` | listeners may close the session in a handler | TRUE in `session` and in `closed_session_leads`, which needs it; FALSE in `session_liveness` and `failed_session_leads`. Liveness leaves out `Undead` sessions, those that findings 1 and 2 let lead after their end |
| `Unguarded` | calls a careful reader of a result does not make | `{}` in the run that passes; `close` and `resume` each in a run of their own |
| `MaxRounds`, `MaxTerms`, `MaxChurn`, `MaxCalls`, `MaxRestarts`, `MaxOpens`, `MaxEdits`, `MaxFaults`, `MaxChanges`, `MaxRebinds` | bounds of what callers and the environment may do | the theorems hold for every value of those of their modules |
| `MaxAttempts` of the store, `MaxRows`, `MaxPages`, `PageCap`, `ScanCap`, `OffsetCap`, `MaxIssued`, `MaxQueryPages`, `MaxTotal`, `MaxTables`, `MaxRead` | bounds the code itself has | `pool.ts`, the adapters' options |
| `Columns`, `Limits`, `Offsets`, `Churning`, `Asked`, `TxKeys`, `Writers`, `Callers` | what the rows, keys and callers of the parts of `adapters` may be | small sets in the run, any in the theorems |
| `Promising`, `Contract`, `Bounded`, `Untimed`, `CutsSilently`, `BlindToNull`, `Loose`, `Rounding`, ... | the adapters that promise more, or less | each is named next to the property that needs it, and listed [below](#what-the-adapters-do-not-promise) |

## Runs

| Run | Instance | Shows |
|---|---|---|
| `opfs`, election | three tabs, one without locks, two rounds each | never two leaders, through rounds that are released while they wait, open or lead, failed opens and crashes; leadership is a lease; a free lock is taken over |
| `opfs`, store | two versions, three opens, two edits, two attempts at the pool, one fault | no acknowledged commit is lost without a reset or a new version; what opens is whole; every open ends |
| `tab_bridge` | three tabs, unordered channel, two terms; one request of one caller, or one port with one message | no request is stranded, answered for another leader or run twice; no port is stranded at either end |
| `session` | two sessions, four terms, two page changes, one restart, listeners that close | whoever serves the dataset has the lock and the only worker; service is a lease |
| `session_liveness` | the same, one caller | a connecting tab finds or becomes the leader; every request settles |
| `failed_session_leads`, `closed_session_leads` | as `session` | violations, see below |
| `analytical`, budget | two tabs, two runs, three queries of caps 1, 1, 2 under a budget of 2; one change of policy or source, or a third query (`ChangeOrThirdQuery`) | never more is billed than the budget; one job per approval; what had changed before a run was reserved is not submitted |
| `analytical`, cursor | two tabs, pages of 2, 1, 0 and 1 rows, six page requests, one rebind | each row once, none skipped, the last cursor works until an empty page has gone by, a replaced access reads nothing |
| `adapters` | see the parts below | eighteen properties of eleven parts |
| `close_skips_a_row`, `resume_repeats_rows` | the cursor alone, pages of 2, 1 and 1 rows, with one unguarded call | violations, see below |
| `empty_page_refuses_resume` | the cursor alone, pages of 1, 0 and 1 rows, careful callers | violation, see below |
| `sqlite_rollback_undone` | the transactions alone, two keys, three steps | violation, see below |

The parts of `adapters`:

| Part | Instance | Shows |
|---|---|---|
| calls | 30 adapters, bodies of up to 2 chunks | `AbortIsPrompt`: in 19 adapters an abort ends the call whatever else hangs; `NothingLeftOpen`: in the 6 of the contract no response is left open; `SentCallsEnd`: a `fetch` that minds its signal ends every call that has a deadline |
| records | two writers, 21 adapters | `ImplementsRecordStore` |
| batches | three keys, or two with one asked for twice; pools of 2 | `BatchIsExact`: an answer per key, in order, or an error; `NoReadOutlivesItsBatch`: in the three pools that stop their siblings no read is under way once the batch has settled |
| statements | 2 polls, 3 chunks, 2 rows | `ResultIsWhole`: the rows of the statement once and in order, what was left out is said; all but Redshift, which trusts its tokens |
| pages | four rows, one of which comes or goes, with ties and Nulls; limits of 1, 2 or none, offsets of 0, 1 or the cap; caps of 2 and 3, windows of 4 | `ChainIsExact`: read to its end, a query has given each row that stayed once; `AnswerIsWhole`: what does not go on is all there is |
| conditions | 35 filters, eight operators on three values, Null and no field | `FilterIsExact` |
| values | 32 formats; kinds of values a caller has or a service holds | `ValuesSurvive`: altered only in the cases named |
| handles | two callers, registries of 2, three handles, two pages | `HandleGivesOnePage`; `ResumeDropsNoOther`: going on does not push another caller's handle out |
| transactions | two keys, three operations, one write of another client, two attempts | `TransactionIsWhole`; `ReadsHoldAtCommit` |
| keys | every schema of two columns | `KeyIsProven`: what is called a key names one row |
| consent | two sign-ins, two consents, two tries | `DispatchIsAuthorised`: a request leaves with the token and under the consent it was prepared for; `SignedOutStaysOut` |

Why the bounds are enough. Two tabs suffice for every race of the session, since a third one only
waits as the second does; the bridge has three, because there a third one may hold an old
announcement. A second round or term is what makes a callback or message late; MaxTerms 4 lets each
of two tabs lead, lose and lead again. The store needs one crash to leave debris, a second open to
find it and a third to use what the second left; `MaxFaults` 1 damages one file or changes one
policy between them. Three queries are the least with a pair that fits the budget and one that does
not fit beside another; a change matters to the runs under way, of which there are at most two, so
`ChangeOrThirdQuery` gives a behaviour a change or the third query. Pages of 2, 1, 0, 1 rows have a
row in the middle of a page, a boundary, a page without rows between two others, and a last page;
pages differ by their digest, so only one of them can be empty. Three operations of a transaction
are the write that SQLite fails, the one that goes by itself, and one before them.

A call needs one chunk below the limit and one above it. Two writers are the least that conflict; a third would only
meet what the second left. The columns of the pages have ties in the middle and at an end, Nulls first and last, and neither;
row 3 comes and goes between and beside pages of 1, 2 or 3 rows; under windows whose order is open (Typesense without a sort) nothing is claimed once rows
move. Two handles in a registry of 2 and three minted are the least that push one out. With ports, nobody says hello
in the last term (`NoLateHello`): it would only repeat an announcement.

Deadlock checking is off where the system may stop: all tabs closed, all queries executed, the
result read to its end, a call or a query ended.

### Fairness

- `ElectionFairness` (`FairElectionSpec`): the browser grants a free lock to the first in the queue, `onAcquired` settles,
  and the callback of a released round returns. The first is the Web Locks standard, the second is the
  session's `#lead`, which fails when its worker does; no fairness on `start`, `release` or crashes.
- `SessionFairness`: the same, and messages are delivered, and the worker answers or
  fails. Nobody has to show a page, make a request or close.
- `FairStoreSpec`: the worker goes on after every await, and a fetch settles. `engine.ts:213` has no
  time-out, so the last one is an assumption about the network; the hazard is listed.
- `OpfsSpec`: the fairness of the two before it, each conjunct over its own part (`ElectionPart`, `StorePart`).
- `AdaptersSpec` (and `CallSpec`): the runtime starts a call and fires its timer; a `fetch` that is not `deaf` rejects when its
  signal aborts and so do its streams. A provider, a server and a deaf `fetch` owe nothing. The other parts
  of `adapters` promise safety alone and have no fairness.
- The analytical modules state no fairness: all they promise is safety.

## Theorems

Of the 28 invariants the passing runs check, 26 are theorems, and with them seven of their twelve action properties and
refinements: for every set of tabs, versions, queries, runs, clients, writers, keys, rows and handles, and every value of the bounds.

| Theorem | Says |
|---|---|
| `ElectionTypeCorrect`, `ElectionInvariant` | the type and the inductive invariant of the election |
| `ElectionMutualExclusion` | two electing tabs never lead at once |
| `ElectionImplementsLease` | the election refines `LeaderLease` |
| `SessionInvariant` | the inductive invariant of election, bridge, worker and page together |
| `SessionOneWorker`, `SessionHostOwnsDataset` | one worker has the files; a tab that answers as host has the lock and that worker, wherever a listener closes a session |
| `SessionServesAsLease` | who answers as host refines `LeaderLease` |
| `BridgeInvariant` | the type and the inductive invariant of the bridge |
| `BridgeStrandsNoCall`, `BridgeRunsAtMostOnce`, `BridgeAnsweredByItsLeader` | no request is stranded, run twice, or answered by another term than the one it was sent to, in whatever order messages of different tabs arrive |
| `PortsInvariant`, `PortsStrandNone` | the type and the inductive invariant of the ports; no message waits beside a known leader and none is out without one, and an open bridge that serves a port leads, while the port is there, its end is on its way, or its tab has crashed |
| `StoreTypeCorrect`, `StoreInvariant` | the type and the inductive invariant of the store |
| `StoreKeepsCommits`, `StoreOpensWhole`, `StoreOnlyThePin` | acknowledged commits stay; what opens is whole; other versions are gone once a version is open |
| `BudgetTypeCorrect`, `BudgetInvariant` | the type and the inductive invariant of the budget |
| `BudgetReservationCovers`, `BudgetOneJobPerApproval`, `BudgetSubmitsApproved` | the three safety properties of one run and one approval |
| `BudgetBilledWithinBudget` | a session's bill, a sum over its runs, stays within its budget |
| `CursorInvariant` | the type and the inductive invariant of the cursor |
| `CursorSkipsNothing`, `CursorGivesNoRowTwice` | each row once, none skipped, for every result and any number of tabs |
| `CursorsAreHonoured`, `CursorOldAccessReadsNothing` | the ledger's counts never refuse the current cursor, and its tokens refuse it exactly when an empty page has gone by behind it; a replaced access reads nothing |
| `CallInvariant`, `CallAbortIsPrompt`, `CallLeavesNothingOpen` | an aborted call has ended and left nothing open, for the adapters the properties speak of and bodies of any length |
| `BatchInvariant`, `BatchAnswersAreExact`, `BatchStopsItsReads` | a batch answers for each key in its place; the pools that stop their siblings leave no read behind |
| `StatementInvariant`, `StatementResultIsWhole` | the rows of a polled statement, for any number of chunks, rows and polls |
| `RecordInvariant`, `RecordCallsImplementStore` | the writes of 21 adapters refine `RecordStore`, for any number of writers and values |
| `PagesInvariant`, `PagesTypeCorrect` | the type and the inductive invariant of a query read page by page |
| `PagesChainsAreExact`, `PagesAnswersAreWhole` | each row that was there throughout once, for any rows, limits, offsets and caps, while another client inserts or deletes one row, in the paths that go on and but for the cases [below](#what-the-adapters-do-not-promise); what cannot go on is whole, but where it is cut silently |
| `TransactionInvariant`, `TransactionsAreWhole`, `TransactionReadsHold` | all of a transaction's writes or none, but for a lost answer to its commit, a commit of the browser's own, an operation nobody awaited and a rollback of SQLite's own; what it read holds at its commit |
| `HandlesInvariant`, `HandlesGiveOnePage`, `HandlesResumeDropsNoOther` | a single-use handle gives one page; going on drops no other handle |
| `DiscoveryKeyIsProven` | a key that the metadata prove names one row, for an inventory of any length |
| `ConsentInvariant`, `ConsentSignedOutStaysOut`, `ConsentDispatchIsAuthorised` | no overtaken callback signs in; what a request was prepared with is what it leaves with |

**Assumptions.** Those named in the modules, which TLC evaluates in every run: bounds are naturals, and positive where the code
rejects zero or the model needs one round, page, attempt or handle (`MaxBodyAssumption`, `BatchAssumption`, `StatementAssumption`, `StoreAssumption`,
`ConsentAssumption`, `DiscoveryAssumption`, `TransactionsAssumption`, `HandlesAssumption`, `PagesAssumption`, `BridgeAssumption`, `PortsAssumption`, `ElectionAssumption`, `BudgetAssumption`);
`Nobody` is no tab, `None` no run, query, cursor or session (`TabsAssumption`, `NoneAssumption`). Of a session, that a tab may begin a round at all
(`SessionAssumption`). Of a result, that its pages can be told apart by their rows, which is what their digest is of: two
empty pages would have the same one (`CursorAssumption`).
One hypothesis is no assumption of a module, since other runs violate it: the cursor's theorems have `Unguarded = {}`, a caller
that makes neither of the calls of findings 3 and 4.

**Election.** `MutualExclusion` is not inductive: it says nothing of a round that still opens. `ElectionInv`
adds that the current round is the newest of its tab (so a round that was released never comes
back), that every round in the queue, opening or holding was begun, that an idle tab has none, that a waiting
tab is queued or opening, that a leader's round holds the lock, and that the lock has
one holder. Exclusion follows from the last two. The refinement then needs only
that each step changes the set of leaders by at most one tab and never from one tab to another.

**Session.** `SessionInv` is `ElectionInv` and a chain from the host to the lock: a host that answers has a leading worker (`HostHasWorker`), a
session that ended has a closed bridge and so answers nobody (`EndedIsShut`), which is what remains true when a listener closes it before `becomeLeader`; a
leading worker is that of the current round, which holds the lock (`LeadingIsCurrent`), and any other worker is of a round that opens
(`WorkersHaveLock`); `OpeningHasWorker` and `RoundsAdvance` keep these true while the page is hidden and shown again. A step of the session is a step of
the election, or one that election's own next-state relation does not have (a round begun on resume, one whose open fails); the proof of the election serves
for the first, `BeginKeepsElection` and its like for the others. Of the bridge the session needs only `host` and `leader`, one lemma per handler.

**Bridge.** Every step is that of one tab, which takes at most one message out of its inbox and posts at most some messages. `Flow` says what that
makes of all inboxes, so that each part of the invariant is proved once for any such step (`TracesKept`, `TermsKept`), and each action is shown to be one.
`RunsAtMostOnce` rests on `WaitingLeftNoTrace` (a request not yet sent is nowhere) and `RequestIsFresh` (one that is under way is the only one of its call and has
not run). `AnsweredByItsLeader` rests on `TermsEndWithBye`: whatever a tab hears of a term, knows of it or asks of it is right, unless that term's bye is still ahead of it or its
tab is gone; a channel that keeps one sender's order lets no answer of the next term overtake that bye. A crash needs no bye, since a tab that is gone
has no further term.

**Ports.** A step with ports is a step of the channel too, so `Flow`, stated for any set of messages, serves again. `NoStrandedPort` is not inductive: a host opens a
port by any message it reads, so the messages under way must be those of ports that are there. `MessagesEndWithPort` says that a request is of a tab that
has its port and has not told the reader of its end, or that its sender's `bye` or `port-close` comes behind it, and that an answer is of a tab that still hosts, or has its
bye behind it; one sender's messages stay in order, which is what keeps the end behind. `OneHostServes` and `OpenListens` say who may serve and who may wait.

**Store.** `StoreInv` adds to `CommitsAreKept` that whatever lies about from an interrupted step belongs to
commits that were cut (`DebrisIsCut`), that files are written only by a
worker that has the pool (`InstallsUnlocked`), that a connection has its file, and that
an open which rewrites the working copy had found none, or a damaged one, or was told to reset.
`StoredInv` is a second, smaller invariant for `OnlyThePinIsStored`.

**Budget.** `BudgetInv` says of every operation under way which run it owns (`OwnRun`), that no run has
a job before its dispatch (`NothingSent`), that what a status heard about a job stays true while its
answer travels (`HeardIsTrue`), and that a change before the reservation is still ahead of the check which
will notice it (`StaleIsCaught`). The sum needs no recursion: a reservation of n stands for n pairs of its run and a number,
what is reserved under a budget is how many pairs there are (`Reserved`), and what may be billed is a subset, run by run. Only `Execute` adds
pairs, after `HasRoom`.

**Cursor.** `LedgerInv` gives the ledger one place in the result, its page and offset, and says that it counts the rows before that place; `CurrentInv`
puts the current cursor there; `SessionInv` says of each tab's loaded page whether it is that page, an earlier one or one that will be refused;
`OpInv` says of the one tab that has the lease what it has fetched and what it holds to deliver; `ReadInv` that the rows given or told of are
those before the place. `RowsRemain` counts the rows behind a page, of which there are none only where the result runs dry; that an empty page's token was seen when
its successor was installed is the one way `NewPage` fails of the current cursor. An operation that fetches again at a boundary, a crash between ledger and delivery, and a page that repeats are its cases.

**Calls, batches, statements.** `CallInv` names for each await of a call where its exchange, timer and stream can be; that an abort is prompt follows from the race that
the adapter's traits name there. `BatchInv` says that what is held for a key is true of it and that only open reads are missing; `StatementInv` that the rows
held are those of the chunks before the one it asks for next.

**Records.** `RecordInv` says that what each writer read, sent or was told agrees with the record's revision. The refinement maps a request that is served to the moment of
its effect, and every other step to a stutter or to what its caller is told. `RecordAdapters` is not unfolded per adapter: `Keeps` lists what the proof needs of an
operation, and each family of adapters has it (`AdaptersKeep`).

**Queries.** Both properties speak of the end of a chain, so `PagesInv` says what a chain has given on its way, in three parts. By cursor (`CursorInv`): what was given ascends in the
order the plan fixes, the cursor is at its last row, and of the rows due that lie behind nobody passed over more than the first page's offset; the condition of a cursor is true of no row
but those behind it and of every one of those that is due (`AfterIsBehind`), so a page adds only what ascends and a page without a successor has all that was left. Insertions and deletions
by the other client break none of this, since it speaks of rows that stay. By offset (`OffsetInv`): where the order leaves nothing open every request finds one list (`OneOrdering`), and what was given follows
it from the query's offset on; this holds until the other client writes, and so is claimed only until then. What cannot go on (`SingleInv`) is asked for once, and its one answer has what was asked for or all there was.
The 44 paths are unfolded in one lemma (`AdaptersAreSound`), which lists what the paths' traits have in common: a path that gives a cursor with every full page, say, has a service that never ends one early.

**Transactions, handles, keys, consent.** `TxInv` keeps what was read equal to the store for the kinds that look again or lock. Its
`Landing` ties what has landed to how the transaction ends: nothing of an open one, but by the browser's commit or with an excuse. `HandlesInv` adds to
`HandleGivesOnePage` who holds a handle (`Held`) and that a retired one is in no registry (`Retired`). `DiscoveryInv` ties the claim to the schema; that
the claim is right is then a case analysis over the schemas. `ConsentInv` says that a binding is of the account signed in, and that the latest callback alone counts.

### Only model-checked

- Liveness (`TakeOver`, `EveryTaskEnds`, `ConnectingEnds`, `EveryCallSettles`, `SentCallsEnd`): the prover has no fairness.
- `FilterIsExact`, `ValuesSurvive`: these parts have no constants and take one step, so TLC checks every case there is.
- The types of `records` in `Transactions`, which a fold computes, and of the two parts above. What a fold or
  a recursive function computes is shown by induction, whose rule takes an operator that no installed prover instantiates. Where
  the induction is over numbers alone, as for the least handle or the requests in their order, the proofs take a least
  counterexample instead (`WFMin`).

`ElectionInv`, `OnlyThePinIsStored`, `ReservationCovers` and the type and inductive invariants of the modules with proofs are proved and no longer run.

Writing the proofs changed the models where they could not be reasoned about or said less than they meant: guards of a `CASE` that overlap
(in TLA+ any true one may be taken; TLC takes the first) were made disjoint; the loop over pages after an empty last page keeps no token (`client.ts:478`);
operators that filter or fold a sequence were stated without one (`Ascending`, `RowsUpTo`, the least handle of a registry); and the invariants were strengthened with what a step
turned out to need (`HostLeads`: no tab hears itself). `AnswerIsWhole` was true of an answer without rows to a query without a limit, whose limit is written 0; it now asks for a limit.

## What the models found

1. **A failed session leads** (`failed_session_leads`). An open that rejects after its round was
   released still calls `onError` (`leader.ts:57-59` has no round check, lines 53 and 69 have). The
   session fails and closes its bridge, while the round it had resumed stays queued, is granted and leads, so no
   other tab has a leader.
2. **A closed session leads** (`closed_session_leads`). `#workerFailed` and `#resume` emit and then
   call `election.start()` (`session.ts:286-294`, `314-315`); a listener that closes the session there leaves it
   queued.
3. **`close()` during `nextRow()` skips a row** (`close_skips_a_row`). `close` empties the buffer that the
   read, back from its await, takes a row of (`client.ts:251`, `493-498`); the cursor moves, the caller gets nothing.
4. **A failed resume at a boundary makes rows repeat** (`resume_repeats_rows`). It leaves offset 0 beside the
   digest of the page before (`client.ts:554`); a session that was overtaken passes its check (471-472).

5. **A page without rows makes the cursor before it useless** (`empty_page_refuses_resume`). It is delivered without a cursor of its own while its
   token is already among those seen (`client.ts:398-401`). If the session is lost then, Resume at the current cursor fetches that page, takes the
   token after it for a repetition and fails with `source_changed`, now and ever after.
6. **Writes outlive a SQLite transaction that failed** (`sqlite_rollback_undone`). Where SQLite has rolled back by itself (`sqlite-wasm/src/database.ts:321`, "after
   SQLITE_FULL") and the callback catches the failed write and goes on, its next writes run in autocommit. COMMIT and ROLLBACK then find no transaction, the
   caller is told of a failure, and those writes stay, against line 301.

Each of the six is what TLC finds under the run's configuration; the `violation` runs keep them visible.

### What the adapters do not promise

The properties of `adapters` name the adapters, or the cases, that they do not speak of. Each exception is what the code
does, read from its lines and kept by the model; some contradict what the repository says.

Calls (`HttpCall`). `cosmosdb`, `opensearch`, `solr`, `couchbase`, `clickhouse` and `influxdb` await their provider before the
timer starts and trust `fetch` to mind the signal; `neptune` and `cosmosdb` await `cancel()` outside the race, so a stream whose
`cancel()` hangs outlives the deadline (`neptune/src/database.ts:214`, `cosmosdb/src/database.ts:262`), and `timestream` awaits it
too; `neo4j` races neither its provider, its `fetch` nor its body; `clickhouse`, `influxdb`, `solr` and `snowflake` leave some refused
bodies open; `elasticsearch` has no deadline and `ovdb` none before the body.

Pages (`ChainIsExact`, `AnswerIsWhole`).
- `search_after` of `elasticsearch` and `opensearch` without a tie-break passes over rows that tie with the last one of a page.
- `datastore` lets a cursor go on with the offset of its query, and applies it again (`datastore/src/database.ts:303`; its README, 57 and 83-87, allows both).
- The conditions of `neo4j`, `neptune` and `clickhouse` are not true of a Null after a value, so Nulls at the end are never reached.
- Scans of `d1` and windows of Typesense go by offset, and shift when rows come or go. Two changes, of whatever row, are one too many for the model: it has one.
- `influxdb` gives a cursor for a query without an order and refuses to go on with it (`influxdb/src/sql.ts:76-81`).
- `CutsSilently`: fourteen paths end at their cap, or at the service's, and nothing in the answer says so; of `timestream`'s
  `NextToken` its `get` takes no notice.

Conditions (`FilterIsExact`). `not-in` with a Null in its list selects nothing in SQLite; `== null` and `!= null` select nothing in
`couchbase`; `dynamodb`, `couchdb`, `indexeddb` and `algolia` keep a Null under a negative condition, and `couchdb` and `indexeddb` order it below
every value. Services with rules of their own ("own") are open for Null and missing fields.

Values (`ValuesSurvive`). `elasticsearch`, `opensearch`, `ovdb` and `clickhouse` encode what they are given; a hole in a list becomes null in
ten adapters; -0 becomes 0 wherever JSON.stringify writes it, and in the analytical FLOAT64; `Rounding` and `Unbounded` read a number
as JSON.parse gives it.

Handles (`HandleGivesOnePage`, `ResumeDropsNoOther`). `libsql` retires a handle once its answer has come and before it is decoded
(`database.ts`, `native.ts`), so an answer that cannot be decoded takes the rest of the result with it, although `cursor.ts:88-96` says a failed attempt may be retried;
a position that is Null has no page after it, and leaves its handle leased. `couchdb` publishes the next handle before it retires the
last, and pushes out another caller's at the bound.

Transactions (`TransactionIsWhole`, `ReadsHoldAtCommit`). A commit whose answer is lost may have landed; `indexeddb` commits by itself when the callback waits for
something else; an operation of `sqlite-wasm` that the callback does not await may run after COMMIT or ROLLBACK, on its own, and what it writes after SQLite rolled back
by itself is in no transaction (finding 6), where the comment at `database.ts:301` has any error roll the whole batch back. `ovdb` and `neo4j` do not look again at what they read.

Keys (`KeyIsProven`). PostgREST's composite key of which one field is not resolved passes for a key of one column. Of several unique
indexes libSQL considers the first by name alone, which proves less than it could.

Ports (`NoStrandedPort`). A tab that closes its port while it knows no leader tells nobody (`tab-bridge.ts:404-407`), and the leader's own tab
that posts and closes at once opens the port again in a microtask (397); both are served until the host stops or the tab leaves, against lines 69-70. A new leader takes
a late answer of an earlier one for a request and serves a port nobody has (484-486). A request that failed with the change of leader may still be answered.

Beyond the instances: `session.ts:257` lets a tab without Web Locks lead a second round while the first one opens; `engine.ts:213` fetches without a time-out; a tab that
is gone between reservation and POST leaves its cap reserved (`client.ts:287`); the connection `indexeddb` caches may stay rejected or closed until `close()` (`database.ts:255`).

## What is not modelled

- Of the modelled parts: `whenLeader()`, `export` and progress events, the bytes of the dataset (hashes, gzip, parts), the slots of
  the pool, response bytes and deadlines as times (an await may fail by one at any time), versions of another pin left half deleted (`canonical.ts:461`).
- Google's identity script beyond its callbacks, SDKs and drivers: external; the models take their answers as given.
- Of a call: the redaction of errors, an absent body (taken for an empty one), `d1`'s short
  read of an error body, the KILL that the native ClickHouse client sends after an abort.
- Of the queries: the text of the compiled statements; joins and TUG-QL in memory (`firestore`, `ovdb`); Typesense's native search; vector
  searches; the encoding of PostgREST's cursor tokens; conditions that are nested.
- Of the values: composite RowBinary types, the wire parser of the analytical client, canonical JSON.
- Schema caches (`sqlite-wasm`), the cached connection of `indexeddb`, version checks of `d1`'s read handler, capability tables.
- Docs, the qualification matrix, CI and build files.

## Plan

Done, in the order of what mattered most: election, bridge, session and store, with the proofs of the first and the last; the budget with its
proofs, the cursor; calls; the ports; writes and their refinement; batches and polled statements; queries, conditions and values; handles,
transactions, keys and consent; then the proofs, the ports and the queries last, of everything but what has no constants.

Left:

1. The cached connection of `indexeddb` and the schema cache of `sqlite-wasm`, beside their transactions.
2. Joins and TUG-QL in memory, as pure operators against a reference definition.
