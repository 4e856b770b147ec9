# Honest Framework: TLA+ models and proofs

The Honest Framework is a language-neutral specification (`src/specs`) with a reference
implementation: sixteen Python packages (`src/python/honest-*`) and four browser packages
(`src/javascript/honest-*`). Nearly every function is pure and takes the world through an injected
runtime or as an explicit value. What is hard is therefore not inside a function but *between* them:
what a caller does with the value a function returned while another call was awaiting, what a crash
leaves of the two places a fact is kept in, and which order events end up in. These modules model
that: each handler is an action (or, where it awaits, one action per stretch between awaits), and
the runtime's failures, other callers and the process's end are actions of their own.

## The system and its parts

| Part | State it keeps | Operations | Interacts with | Hard behaviour |
|---|---|---|---|---|
| persist: write queue (`queue.py`, `supervisor.py`) | the queue (a value the caller holds), its JSONL file, the loop's failure clock and attempt | `enqueue_durable`, `merge_pending`, `drain_queue`, `supervise_drain`, `run_drain_loop`, `load_queue` | backend through `execute`, injected clock and sleep | enqueues during a drain, partial drains, retries, crash, torn save, backoff past the stall limit |
| persist: schema change (`schema.py`, `deps.py`, `apply.py`, `migrate.py`) | the database's schema, its `_hp_object` registry, the connection's foreign-key and push flags | `diff`, `topological_sort`, `apply`, `_reconstruct`, `migrate` | backend, cloud replica (pull, push), observe (`emit`) | any awaited call may raise; what the connection and the registry are left with; order of operations |
| persist: pools (`pool.py`, `connect.py`, `transaction.py`, `execute.py`) | registry of pools and a leasing pool (values the application threads), open transactions | `get_pool`, `reap_idle`, `lease_connection`, `release_connection`, `open_pool`, `close_pool`, `transaction`, `execute_many` | drivers, handlers | a threaded value replaced while a call awaits, a connection two handlers share, commit or rollback that raises, a cancelled task |
| persist: cutover (`cutover.py`) | the phase, source and destination, the batch read and not yet inserted | `cutover_plan`, `bulk_copy_table`, `mirror_write`, `cutover_advance` | two databases, the application that goes on writing | writes during the copy, a copy begun again, the half of a dual write |
| observe: hybrid clock (`hlc.py`) | one clock per source | `hlc_send`, `hlc_receive`, `hlc_compare` | every source that stamps events | skewed clocks, reordered messages |
| observe: events (`emit.py`, `projections.py`, `snapshot.py`, `ingest.py`, `cli.py`) | the append-only log, sequence counters, snapshots | `emit`, `apply_projection`, `resume_from_snapshot`, `read_event_log`, `fold_identity_claims` | every package emits; alerts projects its mailbox from it | overlapping awaited appends, appends that fail after writing, snapshots taken meanwhile |
| alerts (`dispatch.py`, `supervisor.py`, `mailbox.py`, `surfaces.py`) | pending deliveries, the log, waits for replies | `send`, `send_and_wait`, `supervise`, `execute_deliveries`, `handle_reply`, `mailbox` | observe's log, channels | overlapping delivery passes, crash between deliver and mark, reply against timeout |
| type (`vocabulary.py`, `recognizers.py`, `classify.py`, `chains.py`, `boundary.py`) | the manifest of a request, the link it has come to | `classify`, `check_rejections`, `execute_chain`, `validate_all`, `catch_at_boundary` | every handler, errors | which tokens end in which slot, what stops a chain and with whose fault |
| errors (`normalize.py`, `ratelimit.py`) | the dedup cache and the hourly sends (a value its callers thread) | `check_rate_limit`, `dedup_key`, `should_bypass_dedup` | boundaries and pages that report | reporters that ask late and out of order |
| auth | none but a registry set at start-up | `authenticate` | providers | - |
| features, rca, gherkin, state, design, check, estimate, parse, test | none between calls | analyses of data, source text or evidence | command lines | algorithms over graphs |
| boot, dom (browser) | the DOM, the page's request id, the reload cache in `localStorage` | `boot`, `activate`, `collect`, `apply`, `instrument`, `restoreState` | HTMX, observe through beacons, other tabs | imports that end after a swap, responses out of order, a reload before the frame that would have saved |
| components, format (browser) | none | rendering | dom | - |

`PROJECT.json` lists each part with its files and the hazards at their lines.

## Modules

| Module | Models | Uses |
|---|---|---|
| `Store` | the abstract table a caller of the write queue believes in: a write takes effect at once | |
| `WriteQueue` | `queue.py`: enqueue, merge, what one execute does, backoff, stall test | |
| `WriteQueueSupervisor` | `supervisor.py` and the processes that use it | `WriteQueue`, `Store` |
| `HybridClock` | `hlc.py`, with sources that send, receive and delay stamped messages | |
| `Mailbox` | `message.py`, `mailbox.py`, `actors.py` and the pure half of `supervisor.py` | |
| `Alerts` | `dispatch.py`, `supervisor.py`, `surfaces.py` as concurrent steps | `Mailbox` |
| `EventLog` | `emit.py`, `projections.py`, `snapshot.py`, `ingest.py` | |
| `MigrationPlan` | `schema.py`, `ambiguity.py`, `deps.py` and `reconstruction_sql`: the pure half of a migration | `Deps` |
| `Migration` | `migrate.py` and `apply.py` on one SQLite connection | `MigrationPlan` |
| `Deps` | `topological_sort` of `deps.py`, for migrations and cutovers | |
| `Pool` | the pure half of `pool.py` and `connect.py` | |
| `Connections` | handlers that get connections and write with them, as concurrent steps | `Pool` |
| `Cutover` | `cutover.py` under an application that writes | `Deps` |
| `Classify` | `vocabulary.py`, `recognizers.py`, `classify.py`: one call as an operator | |
| `Throttle` | `ratelimit.py` and the reports of `normalize.py` that ask it | |
| `Request` | `chains.py` and `boundary.py`: a request from its tokens to its answer | `Classify`, `Throttle` |
| `Boot`, `Dom` | one activation of `honest-boot`, collect, apply and the reload cache of `honest-dom`, as values | |
| `Page` | a page with both, HTMX, imports, frames, reloads and other tabs as concurrent steps | `Boot`, `Dom` |
| `ObserveProofs` | the theorems of `EventLog` and `HybridClock` | both, `TLAPS` |
| `*Proofs` | the theorems of the module or group they are named after | the module, `TLAPS` |
| `MC*` | the constants of TLC's instances, symmetry | the module |

### Write queue (`Store`, `WriteQueue`, `WriteQueueSupervisor`)

`backend`, `queue`, `file` are the backend's table, the queue the application holds and the JSONL
file. `phase` says where the application and its drain loop are; `position` is the index in
`drain_queue`'s loop, `attempt` and `firstFailure`'s distance (`failingFor`) are the locals of
`run_drain_loop`. Time is what `sleep` and a slow `execute` consume (`sleepLeft`, `elapsed`).
`EnqueueDurable` is `enqueue_durable`; `ExecuteWrite` one iteration of `drain_queue`;
`ExecuteRaises` and `AttemptFailed` are the two ways `supervise_drain` leaves its `try`; `Wake` and
`LoopReturns` the rest of `run_drain_loop`. External actions are the backend's outages, the crash and
restart, and `Remaining`: the application that gets an empty queue back keeps the writes it enqueued
since the loop took its copy. The code leaves that to the caller, and a caller that takes the
returned queue as it is loses them.
`ReadsTransparent` says of every step that it leaves all reads alone or is the call of `enqueue_durable` for
one write (`Made`), which changes that write's row, to what the write gives it; a drain, a failure, a retry, a settling, a
crash and a restart change nothing. `MergeIsTheDrain` compares the merged read with the backend: `Drain` is
`drain_queue`'s loop over the executes, and what it would leave, started from the backend as it is now with the writes not
yet executed, is what `merge_pending` shows now. Both need updates that carry the full row, because a merged read takes
the row of the update for the row of the table, and saves that are not torn; what happens without either is
among the disagreements below.
Column values and keys are model values; a write is an `op`, a table and a row.

### Hybrid clock (`HybridClock`)

`clock[s]` is the clock the source `s` threads through `hlc_send` and `hlc_receive`; `events` holds
every stamp issued with the stamps that causally precede it, and doubles as the network: any event may
be received at any time, any number of times, or never. `now` is chosen freely at each step, so wall
clocks are skewed, stand still and step back.

### Alerts (`Mailbox`, `Alerts`)

A send is a small process: `Send` (build, validate, read routes), `Route`, one `Insert` per delivery,
`Announce`, `SendMessageReturns`, then `WaitEnds`. A pass of `execute_deliveries` is one of `Pollers`:
`Poll`, then `Deliver`, `Mark`, `EmitOutcome` for each record read at the start. `HandleReply` and
`Acknowledge` are the two emits of `handle_reply`. `SendRaises` and `PollRaises` end a process where an
awaited runtime call raises, `ReplyRaises` the same for the second emit of a reply; `Crash` ends them all and keeps
deliveries and log. Results that the code ignores (`insert`, `mark`, `emit`) are ignored in the model: the call may have
failed without notice. So `answered` holds every reply the endpoint answered ok, with or without an acknowledgment
on the log, and no property says that the answer removes the surface: it need not (see the disagreements).
`Mailbox` is the projection, computed from the log on every read as the code does.

### Event log (`EventLog`)

`Emit` is `emit` up to its `await`: identifier, clock and sequence number are taken there.
`AppendEnds` is the await's end: the event is in the log or not, and the answer is ok or err; an err may
have written it. `TakeSnapshot` is a caller that folds the log and keeps `snapshot_at`.
`ResumeFromSnapshot`, `ApplyProjection` and `FoldIdentityClaims` are the pure folds; `ReadsBefore` is the order
in which `read_event_log` returns the log.

### Schema change (`MigrationPlan`, `Migration`)

A schema is tables (functions from columns to a type and a reference), and plain views that read columns
of one table. A statement writes a column's type as `_sql_type` does (`SqlType`: uuid, timestamptz and jsonb are text on
SQLite, boolean is integer), and `Inspected` reads it as it was written, because `migrate.py` does not map it back. `MigrationPlan` computes what the code computes: the operations of `diff` in their order,
ambiguities, dependency edges and the topological sort, the statements of a rebuild. `Migration` carries
them out: `Migrate` is everything up to the first statement; `ApplyInPlace` one statement of
`_apply_operations`; `PausePush`, `DisableForeignKeys`, `Begin`, `Rebuild` (one statement each),
`Commit` or `Rollback`, `EnableForeignKeys`, `ResumePush` the awaited calls of `_reconstruct`; `SeedRegistry`
and `Seed` the refill of `_hp_object`. Any of them may raise: what `_reconstruct` and
`_apply_operations` catch becomes a failed result, everything else leaves `migrate` at once (`Raises`).
The connection outlives the call, so what it is left with (`fkOn`, `paused`, the open transaction
`work`) is what the next migrate starts from. External: `Effect` and `Refused`, what SQLite does with a
statement and what it refuses (a view over a missing table or column when a table is renamed or a column
dropped; a referenced table dropped while rows refer to it and checks are on); each case was compared
with the `sqlite3` of Python. `db.filled` says which columns hold data: `WriteRows` fills them between
migrations. `trusted` is bookkeeping that lets a property name its precondition.

The diff of a renamed column carries neither a new type nor a new reference; a second `migrate` finds
them. `SuccessMatchesTarget` says so with `ChangedInRename`. `OnlyUnworkableFails` lists in `Unworkable`
every kind of plan that SQLite refuses, and says there is no other. `RowsSurvive` says that data goes only with a column
whose loss was asked for, and `AskedFor` what that is: by a hint, or no column came unhinted that is written in its type.
It openly excepts the columns whose type SQLite has another name for (`Renamings`), which the code does not recognise
as renamed: that there be no such exception is `DropsAreAsked`, which the code breaks.

### Connections (`Pool`, `Connections`)

`registry` and `pool` are the two values the application threads: the registry of `get_pool` and
`reap_idle`, and the pool of `open_pool`, `lease_connection`, `release_connection` and `close_pool`. A call
that awaits nothing is one action (`CachedPool`, `LeaseConnection`, `Release`); one that awaits takes its
value in one action (`FirstContact`, `LeaseExhausted`, `ReapIdle`, `ClosePool`, into `given`) and returns one
computed from it in a later one (`ConnectReturns`, `LeaseRefused`, `ReapCloses`, `PoolCloses`).
`KeepRegistry` and `KeepPool` are the application's assignment of what came back; they record a mishap
when it replaces a newer value, because that is where the code's promise ends: the registry then lacks a
pool somebody opened. A handler with a connection runs a `transaction` (`Begin`, `WriteSucceeds` or
`WriteRaises`, then `Commit` or `Rollback`, any of which may raise) or an `execute_many` outside one.
`Cancelled` is a task the server cancels: a `CancelledError` is no `Exception`, so `transaction` leaves
without a rollback. External: the drivers (`Opens`, `Closes`, `Execute`, `Aborts`, `RollsBack`, `Commits`). With
`Warns` a driver may, at every call, do as PostgreSQL does under the repository's adapter
(`conformance/postgres_fixture.py:115`): a begin inside an open transaction goes on inside it, a commit or rollback outside
one does nothing, a failed statement aborts the transaction of whoever began it, and the commit of an aborted one rolls it
back; or it may refuse, as `sqlite3` does. `made`, `joined` and `entangled` are bookkeeping; a job is
entangled when it began, wrote, ended or failed in the open transaction of another call of `transaction`, or its own was met so.
Two handlers of one registry entry share its connection, and `transaction.py` asks nothing before it begins.
The specification promises all or nothing to every call, which does not hold; `WritesAllOrNothing` and `AckedWritesStay` say
what does: it is so for every job that is not entangled, whatever drivers do and whatever single writes of others join its
transaction, and so for all jobs where drivers refuse.
`ConnectReturns` stands for two awaits of `get_pool`, the connect and the emit after it (which catches its
failures): nobody else sees the connection or the registry in between, so the second await changes nothing another step reads.

### Cutover (`Deps`, `Cutover`)

`CutoverPlan` is `cutover_plan`; `StartCopy`, `ReadBatch`, `CopyRow` and its end `Copied` are
`bulk_copy_table` between its awaits, `CopyRefused` and `CopyRaises` its exceptions; `MirrorSource`,
`MirrorDest`, `MirrorHalf` are the two executes of `mirror_write` and what comes between; `Advance` is
`cutover_advance`. External: the databases with primary and foreign keys (`Refuses`, `Execute`), the
application's writes, the operator who may empty a table whose copy failed (`EmptyTable`). `strayed` and
`copy.found` are bookkeeping: the rows that have a reason to differ, and the rows the destination had
when the copy was called. `DivergenceExplained` says that the reasons listed are all there are: a write
the copy had passed, two writes of a row in flight together, the half of a mirrored write.

### Requests (`Classify`, `Throttle`, `Request`)

`ClassifyTokens` is `classify` with its phases as operators of their names: the null and empty tokens,
recognizers, slots and duplicates, composed types, required slots, rejections; `CheckRejections` is
`check_rejections`. A token is a model value or a word; a recognizer is a set or a predicate that
accepts some words and throws on others. `Receive` is what a handler does up to the chain; `RunLink`
and `RunValidateAll` are the links of `execute_chain`, `LinkRaises` the exception `catch_at_boundary`
reports, `PageFails` the report of a page; `Ask` is `check_rate_limit` and what the reporter does with
its answer. `dedup_cache` and `hourly_sends` are the threaded state; a send is told by its number, so two of
one time are two, as in the code's list. Each call finishes before the next one is asked (it is
synchronous and its state is threaded), but its time was read when the failure was caught: by then the
clock and other reporters may be ahead, by `MaxLag` at most. `sent` is bookkeeping.

The properties of a manifest are about what was said, not about how `classify` gets there: no token is lost
(`TokensKept`), what is required is there (`RequiredPresent`), and a composed type with a slot to itself is filled exactly
when what it requires was said next to a token to capture (`Matching`, `Filled`). `ManifestFaithful` states the three
for every text and binding, with the two exceptions the code makes and the specification does not: where composed types
share a slot one may overwrite the other (`Overwritten`), and a composed type stays empty when what it requires was followed by
another token of that type that a further composed type captured (`JudgedByAnother`). Both come up in the run; there are no
others. `OrderIndependentOnce` is what two passes over the tokens give: while no type is said twice their order does not
matter.

### Page (`Boot`, `Dom`, `Page`)

A browser task with its microtasks is one action. `Swap` and `NoSwap` are HTMX's response: `storeRequestId`
and the response event, the rescan of the subscribed root (`boot.js`), the observers of the mutation,
which ask for one frame. `ImportEnds` and `ImportFails` end an awaited import of `activate`; the last one
initialises the root *as it is then*, module by module, and announces the elements *as they were scanned*, unless an
`initModule` throws (`InitThrows`), which leaves the later modules uninitialised and the loaded set unreturned. `Type` and `Change` are
edits the observer does not see and does see, `AnimationFrame` runs the callback of `instrumentChanges`
(`Callback`: collect, difference with the cache, beacon, write), where the beacon may not reach the log (`Recorded`: `sendBeacon`
answers false when its queue is full, and nobody looks), `Reload` restores the cache if it is young
enough, `OtherTab` is another tab with the same `localStorage` key. `handled`, `causes`, `failed`, `touched`,
`unseen`, `unsaved`, `lost` are bookkeeping for the properties. External: HTMX, user, server, imports,
storage, and the composition root that calls the packages when a page is loaded.

## What the runs check

All runs but `Migration`'s set `CHECK_DEADLOCK FALSE`: each instance bounds its inputs (writes, events, messages, clock
readings), and the system may stop when they are used up; that what was begun also ends is a liveness
property where it matters.

| Run | Question | Bounds, and why they are enough |
|---|---|---|
| `WriteQueue_safety` | does anything but a write change a read, is the merged read what the drained backend will hold, does a restart read it back, is a write ever dropped | two rows of one table, two values, three pending writes, one crash: three writes allow insert, update, delete of one row next to a write of another, and a failure after any prefix. Keys and values are symmetric |
| `WriteQueue_liveness` | does every loop end, does a healed queue drain, is a stall noticed in time | one row, two writes, a limit of five base delays so that the backoff doubles three times, executes that take time, crashes inside a save; no symmetry |
| `Alerts` | mailboxes, deliveries, replies and waits | two messages of six kinds (broadcast, modal with reply, event filter, time to live...), two overlapping passes, one crash, one fault; the event filter has one of the two keys of a payload and two payloads that differ in it; counts are in `MCBudgets` |
| `Observe` | are stamps causal, unique and bounded; order in an aggregate, ok means logged, exact snapshots, every identity claim bound or reported | the clocks: three sources, wall clocks 0..2, five events, a chain through three sources with a tie in physical time. The log: two emitters, two aggregates, four emits, clock readings 0..2, one snapshot at any point. The two share no variable, so a behaviour is one of the clocks or one of the log (`ObserveSpec`). Emitters are symmetric: no action compares them |
| `Observe_snapshot` | expected violation: a snapshot and an event of one clock reading | two emitters, two emits |
| `Migration` | does success mean the target was reached, does anything fail that should not, are tables, rows and the connection preserved | eleven schemas reached in any order from each other: a foreign key that comes and goes, a column added, altered, renamed with and without a hint, one of a type SQLite has another name for, a view changed with its table, a table dropped with and without what refers to it, a cycle, a dangling reference; one raising call or lost connection anywhere. A second fault only repeats what the first one left |
| `Migration_completes` | expected violation: a valid target that cannot be reached | the same schemas, no fault |
| `Migration_renamed` | expected violation: data is never dropped while a column of its type comes unhinted | the same schemas, no fault |
| `Connections` | has every connection one place and every transaction one owner, are writes kept whole, does a reap spare what was just handed out | two handlers; three requests with a pool of one connection, two otherwise; no pool or one of one or two connections; one retry; threshold 1 and a clock 0..2, so that an entry can be at the threshold and past it. `get_pool` and `open_pool` share no state, so a behaviour uses one of them; drivers may refuse or warn at each call. Handlers are symmetric |
| `Cutover` | why may source and destination differ, why may a repeated copy be refused | two tables of two rows, batches of one and two (a full last batch, a short one), two writers, four writes, one fault; four kinds of reference: to a later table, out of the schema, to the own table, a cycle. Three writes are a mirrored pair out of order and one the copy passed; four, a row and the row it refers to written and deleted while a batch holds the first. Writers and values are symmetric |
| `Page` | are elements enhanced, events traceable, does the log lag behind the cache at the named failures only, are changes kept over a reload | two requests, two loads, two edits, one other tab, clock 0..2 against a time bound of 1, three elements of two modules; a behaviour either swaps and imports or edits and reloads: the two share only the request id, which both have |
| `Request` | is a chain ever given a manifest that disagrees with what the client said, or that depends on the order it was said in; does the throttle keep its limits | every text of up to three tokens of ten (words, reserved, overlapping, throwing, empty, null) against four vocabularies, with every name bound to a slot of its own, required, optional or missing, and every two names, base or composed, to one slot: three tokens are a composed type's required value, its captured one and a duplicate; two requests at one endpoint that say any three of three words each, for the order; two requests and a page with four failures of three keys, an hour of 3, a window of 4, two an hour, a lag of 1. A lag one smaller in either property is violated. Keys and requests are symmetric |

`TypeOK` is defined in most modules as documentation of the variables; the runs spend their time on the other
properties, and the proofs establish the types they need (`DataTypeCorrect`, `TypeCorrect`, `ClockTypeCorrect`, `CutoverTypeCorrect`,
`ConnectionsTypeCorrect`, `PageTypeCorrect`). Before an invariant was proved, TLC checked its strengthening on the
run's instance.

### Disagreements between code and documentation

Three runs show one each (`findings` in `PROJECT.json` quotes the claim and describes the trace): the plans `migrate`
cannot carry out on SQLite (`Migration_completes`) and the unhinted rename of a column whose type SQLite has another name for,
which loses its data (`Migration_renamed`), both repeated with the repository's code on `sqlite3`; and the snapshot that
skips events of its own clock reading (`Observe_snapshot`). The following were met while modelling and proving; the modules
follow the code, and where a property would not hold without it, the property names the case as an exception.

* Reads "stay transparent" while writes are pending (`queue.py:2`), but `merge_pending` (`queue.py:65`) replaces the row by that of a
  pending update, and `_update_query` writes only the columns the update has: the columns it lacks are missing
  from every read until it is drained, and back afterwards. Nothing says an update must carry the full row; `FullRow` does.
* The file is kept "so pending writes survive a restart" (`supervisor.py:22`), but `write_text` truncates it before it fills it: a process
  that dies in between leaves a part of the queue, and the restarted one no longer reads writes that were shown. `TornSaves` is
  this case; the safety run and the theorems exclude it, the liveness run has it.
* The reply endpoint "records the reply and the acknowledgment and returns the empty fragment HTMX swaps in to remove
  the surface" (`surfaces.py:9`), but the `Result` of the second emit is ignored (`surfaces.py:75`): after an err the endpoint answers
  ok, and the message is still in the mailbox and rendered again with the next page.
* After a migration "diffing against the schema yields no operations, so re-migration is a no-op rather than churn"
  (`laws_hp.py:1746`), but a uuid, timestamptz, boolean or jsonb column is read back as SQLite knows it (`migrate.py:52`), and the
  diff alters it again at every migration. Repeated with the repository's code; none of the law's schemas has such a column.
* A transaction is one step: "either every write commits, or none does" (`honest-persist-architecture.md:783`). `transaction` begins
  without asking whether the connection is in a transaction (`transaction.py:47`), `get_pool` gives all handlers of a database one
  connection, and the repository's PostgreSQL adapter sends a plain `BEGIN` (`conformance/postgres_fixture.py:115`), which only warns: one
  handler's rollback drops what another has written so far, whose later writes are kept on their own and which is answered
  ok. `entangled` are the jobs this can happen to.
* The browser need not send a previous value, for it is "the last recorded value for the slot" (`browser.js:55`), but
  `emitBrowserEvent` ignores what `sendBeacon` answers (`browser.js:87`) and the cache is written all the same (`instrument.js:133`): the
  next difference is taken against a value the log never got. `LogMatchesCache` has these slots as `lost`.
* `duplicate_slot` is "Two tokens bound to the same slot" (`honest-type-architecture.md:1299`), but only base types ask whether
  the slot is taken (`classify.py:106`): of two composed types with one slot the second overwrites the token of the first
  (`classify.py:91`), without a rejection (`Overwritten`).
* "when `format_name` is classified with value `currency` and an `integer` is present, this composed type matches"
  (`honest-type-architecture.md:151`), but it is judged by the last token of a type (`classify.py:75`): with tokens 2, currency, percent
  and a second composed type that captures the format, the one that requires currency stays empty and nothing is
  rejected (`JudgedByAnother`). So the order of the tokens matters, against "the same tokens in any order produce the same
  manifest" (`honest-type-architecture.md:286`); `OrderIndependentOnce` is what holds.
* `read_event_log` reads "in log order" (`cli.py:128`), but orders by a sequence that is counted per
  aggregate. `AggregateInEmitOrder` is the order that does hold.
* Session scope is "acknowledged when this DOM session has an ack" (`mailbox.py:35`), but `handle_reply`
  emits acknowledgments without a session id, so none ever has. `AckIsScoped` is stated of actor scope.
* A bulk transfer is "resumable from recorded progress" (`honest-persist-architecture.md:1164`), but
  `bulk_copy_table` records none and starts from the first key, whose rows the destination refuses.
  `CopyRefusedOnlyWhen` lists this among the reasons.
* A link that returns neither ok nor err is a fault (`honest-type-architecture.md:1302`), but `validate_all` looks for
  `err` alone and passes it; it also turns a server's fault into a client's.
* A required type that shares its slot with an optional one gets no `missing_required`: `RequiredPresent` is stated of the
  slot for that reason.
* `browser.request` carries the "X-Request-ID sent with request" (`honest-observe-architecture.md:1002`), but
  `instrument.js` reads the id of the response before. `EventsTraceable` leaves request events out.
* `instrumentChanges` observes mutations; what a user types changes no attribute and is neither reported nor
  cached until something else mutates the page. `ReloadKeepsChanges` has it as an exception.
* A column that disappears next to a new one of its type is an ambiguity to be resolved by the caller, but `hinted`
  (`ambiguity.py`) takes a `renamed_from` for an answer even when the column that carries it is already there. A hint
  left in the schema after its rename hides a later drop and add, whose data is dropped without a question.
  `RowsSurvive` excepts a column some hint names.
* `catch_at_boundary` is synchronous: the coroutine of an async handler is not a result, and the
  `TypeError` leaves the boundary. Only synchronous handlers are modelled.

### Fairness

`WriteQueueSupervisor`'s `FairSpec` assumes that a started loop goes on (executes return or raise,
sleeps end): the event loop runs every ready task. It assumes nothing of the backend; `HealedQueueDrains`
has "the backend heals for good" as its hypothesis. `Alerts`' `FairSpec` assumes that a started pass, send
or handler takes its next step, that passes are polled again and again (the docstring's "Dispatch every
due pending delivery" is called by a scheduler) and that time goes on. Crashes, faults and inputs are
never fair.

## What is proved

The theorems hold for every value of the constants that satisfies the assumptions named in the modules. These say
that bounds and times are numbers, that a marker (`None`, `Absent`, `Leased`, `Temp`) is none of the values it
stands beside, and what the code's own declarations say of their values (`ProjectionAssumption`, `AlertsAssumption`,
`BootAssumption`: every element's module is in the vocabulary; `CutoverAssumption`: a schema lists each table once,
with its references; `MigrationAssumption`: no schema has a table of the
name a rebuild makes up). None bounds a number of processes, rows, tables or messages, but for the pollers
of `Alerts` and the names of `MigrationPlan`, which are finite sets.

* `WriteQueueProofs`. `QueueInv`: the backend plus the executed prefix of the queue, replayed from the start, gives
  the view the file gives. This is why a drain that begins again is harmless: an overlay is idempotent and a delete
  is too, so re-executing a prefix changes nothing a read can see. `AlwaysRecoverable`, `ReadsAlwaysTransparent` and
  `WritesAreNotDiscarded` follow, under `Careful`: an update carries the full row and saves are not torn (either breaks
  the property). `ReadsAlwaysTransparent` has a case for every step: a call
  of `enqueue_durable` changes one row of the view, to what its write gives it, and no other step changes any. `MergesAreTheDrain`
  goes by induction over the writes that are left (`DrainIsMerge`): the row a drain has given a cell after `n` of them is what the
  merged read of the first `n` says, if the backend takes them and the queue's updates find the rows they are updates of.
  `MergeFolds` is what lets the model read the queue in closed form (`MergePending`): it is the fold `merge_pending` makes
  (`FoldedMerge`).
  `StallsAreDetected` (six hours can pass unnoticed, not
  twice that) follows from `Timing`: the next sleep is at most all the sleeps before it and two base delays,
  and all of them are in the age of the failure.
* `ObserveProofs`, the clock. `ClockInv`: besides the three checked properties, everything a source knows is
  at or before its clock (`KnownIsPast`), and every stamp it issued is among what it knows
  (`OwnStampsKnown`). The first makes a new stamp follow its past, the second makes it differ from all
  earlier ones of its source. `BeforeIsTotalOrder` is the lemma both use.
* `AlertsProofs`. `LogIsTruthful` (whatever is marked or logged as delivered was delivered) from an
  invariant that follows each pass through `Deliver`, `Mark`, `EmitOutcome`; `EndedMessagesStayEnded`
  from the facts that the log and the clock only grow and each termination condition is monotone in both.
  `AcksAreScoped` from `RepliesInv`: the acknowledgments on the log are those of answered
  replies, each to a message whose envelope does not change. `DuplicatesAreBounded` by counting (`PassesInv`): a record
  still pending was handed over at most once for each pass about to mark it (`Taking`), once per pass and crash, and
  once per fault; when it is marked, the passes that have read it and not yet come to it (`Ahead`) are all that can still
  hand it over. The bound needs both counts: marking trades one for the other.
* `ObserveProofs`, the log. `AckedEventsAreLogged`, `SequenceFixesOrder` and `ReadsFollowEmits`: identifiers are fresh, a
  pending emit is not logged, sequence numbers of one aggregate grow in emit order. `ReplaysAreExactInOrder`: if
  the log came in strict order of its timestamps, a snapshot sits at an event of the log (`SnapshotPlaced`) and the
  window of its projection had opened by then, so what resuming drops is what the snapshot has. That strictness is
  needed is `Observe_snapshot`. `EveryClaimIsAccounted`: one step of the fold accounts for its claim and leaves the others
  accounted for, because a binding is never replaced.
* `MigrationProofs`. `ConnectionIsRestored`, from `Orderly`: what each awaited call of a migrate finds the
  connection like, as long as no control call has raised. `RebuildsAreAtomic`, from `AtomicInv`: a plan keeps every table
  the target wants and never names the temporary one (`PlanIsSafe`, lemmas `Kept*` for each part of `diff`); after `n`
  statements of a rebuild the transaction has the tables `TablesAt(n, t)` (`RebuildGoesOn`), which are the old ones again when
  the commit is due (`CommitIsWhole`). A migrate that starts inside a transaction an earlier one left open plans on what only
  that transaction sees, and may do anything to it: `PlanIsSafe` excludes it because it is never committed.
  `RowsDoSurvive`, from `RowsInv` beside it: a plan only brings a table closer to its target (`KeepsWanted`, `CloserAfter`), so a diff
  that was not ambiguous when it was planned is not ambiguous at any operation of it; a table still to be
  rebuilt is as it was planned for, so the columns a rebuild leaves out of its copy, those the plan adds, hold no data yet
  (`PlanIsFresh`); and `RowsAt` says what each statement of a rebuild has done to the data (`CopyGoesOn`, `CopyIsWhole`). That
  the other operations on a rebuilt table are skipped is needed here: they were planned for the table before it.
* `ConnectionsProofs`. Types first (what the calls of `pool.py` return is a registry or a pool again), then three
  invariants. `TransactionsInv`: jobs keep apart, an open transaction belongs to the handler in it or was left by
  a raised call (`TransactionsOwned`), the databases keep whole transactions and answered writes only (`CommittedWhole`), and a
  write that joined another's transaction shares its fate (`JoinedWrites`), each of jobs that are not entangled, whose
  transactions no other call ran in; `WritesAreAllOrNothing`, `AckedWritesDoStay` and
  `OpenTransactionsHaveOwners` follow. `RegistryAccounted`: as long as no call has returned a stale registry, the open
  connections are those in it and no entry is older than the call of a handler that holds its connection;
  `RegistryDoesServeOpen` and `ReapDoesSpareRecent` follow. `LeasesAccounted`: a leased connection is in one place, and
  `active` counts the handlers that hold one; `ConnectionsAreAccounted` follows. The theorems are about the whole
  specification, with any number of handlers that use `get_pool` and `open_pool` together; TLC's instance keeps the two apart.
* `CutoverProofs`. `DivergencesAreExplained` and `CopiesAreRefusedOnlyWhen`, from `CutoverInv`: what the copy is past
  agrees or strayed (`TransferAgrees`), what a batch read and has not inserted is what the source holds or strayed, in the order of its
  keys (`CopyFits`), a query on its way makes its row agree and no other is on its way to that row, or the row strayed
  (`MirrorAgrees`), and the source loses no row another refers to (`SourceIntact`). A row is forgiven (leaves `strayed`) only
  when it agrees and nothing is under way that writes it, and this is what keeps the rest from depending on it. Two algorithms carry the
  argument, `topological_sort` and the batch query; both take the least that is ready until nothing is, and share the
  lemmas of `IsGrowth`: nothing is taken twice, in an order that has dependencies first (`OrderProperties`, `PlanFacts`: what is left of a
  short order depends on itself, so the schema has a cycle) or in ascending order with nothing left out (`BatchFacts`). The proof found a reason
  `CopyRefusedOnlyWhen` had left out and three writes are too few to show: a row that was itself deleted from the source, with
  the row it refers to, after the batch read it.
* `PageProofs`. `EventsAreTraceable`: the id the page has is that of the last response that stored one (`IdIsLatest`).
  `LogAlwaysMatchesCache` is inductive as it stands, with the slots `lost` and `unsaved` by name. `ReloadsKeepChanges`: unless a frame is due, the cache has every change
  a callback saw, or another tab has written over it (`CacheIsCurrent`). `ElementsAreInitialised`: an activation waits for the
  modules of all its elements, or has them (`ActivationsCover`), and an element of the region that is not
  initialised is an activation's.
* `RequestProofs`. `ThrottleKeepsItsBounds`: an hour less the lag never holds more notifications than
  the limit, and two of one key are a window less the lag apart, for every hour, window, limit and lag,
  any number of reporters and unbounded time. The bounds are not inductive: the limiter decides on what it remembers, and
  the times it is given go back and forth, so a report with a late time may make it forget what a report
  with an earlier time, still to come, should have been held against. `ThrottleInv` adds what ties its
  memory to the clock: what it forgot is an hour old by the clock now (`ForgottenIsOld`), the cache has each
  key's notification or one after it, or it is a window old (`RememberedOrOld`), and no report waiting is further behind
  than the lag (`LagBounded`); `ThrottleRemembers` states these on their own. The proof rests on the
  cardinality of finite sets from the library. Assumed: the state is threaded, and a reporter asks within
  `MaxLag` of the time it read (`Tick` waits for it).

How far induction over data goes. A recursive function can be unfolded (it exists by induction over its domain,
stated for the set of numbers where a fact holds: `SetInduction` of `MigrationProofs`, from the library's well-founded minimum),
so facts about every prefix of a computation are provable when the model has it as a recursive function, and several
definitions have that form for the sake of it (`FoldedMerge`, `Folded`, `BackoffDelay`, `InOrder`). The
community modules' `FoldLeft`, `SelectSeq` and `SortSeq` cannot be unfolded; where a proof needed what they
compute, the model says it by what the result is (`ReadsBefore` for the sorted read).

Only model-checked:

* liveness (`DrainsOrStalls`, `HealedQueueDrains`, `DueIsSettled`, `WaitComesBack`), which is out of the prover's reach;
* the migration's `SuccessMatchesTarget` and `OnlyUnworkableFails`: they need that a plan has every operation of the diff
  and each one once, and the order of those on one view. Nor does the first hold for every set of targets: a view that
  reads a column which its own target renames is rewritten by SQLite, with no operation planned for it, and then differs
  from the target's;
* `ManifestFaithful` and `OrderIndependentOnce`: what `classify` computes is a fold over tokens and composed types, checked over every
  text and binding of the run and not proved for every vocabulary.

## Abstractions

Text is left out: SQL, JSON, HTML, messages of faults. Payloads are model values. The events that
persist emits about its own work (`queue_stalled`, migrations) are not modelled: their failures are
caught and change nothing. Channels are a call that answers ok or err, or raises.

## Not modelled

* Parts of modelled components: in persist, `recreate_ephemeral`, the readers of `execute.py`, indexes, triggers,
  procedures and materialized views, enum seeding, the pull and push of a synced replica, PostgreSQL; in observe, the
  beacon ingest that validates browser events; in type, insensitive sets, `merge`, the sampling of predicates
  that accept anything, `transition` (a table lookup without state); in errors, the behaviours per
  environment and the text of reports; in dom, `send` and `replay`, custom observers and the request
  extension.
* Components without state between calls: auth's gate before a provider, features, thresholds, rca, state,
  components and format. Each is one call's result from one call's input, or text.
* Analyses of source text (parse, check, design, estimate, gherkin), generated grammars, the test
  runner and build scripts: their behaviour is text in, text out. Most of the repository's lines are these
  and the conformance laws, which are tests.

## Plan

1. Write queue, 2. hybrid clock, 3. alerts, 4. event log, 5. schema change, 6. connections and cutover,
   7. requests (classify, chains, throttle), 8. pages: modelled and checked, and theorems about each
   proved.
9. Proofs of 6 and 8, and the rest of 1, 3, 4: done. Left: the migration's
   `SuccessMatchesTarget`.
10. The synced pull and push around `apply`, `recreate_ephemeral`, `send` and `replay`, the beacon ingest.
11. Pure algorithms against reference definitions: thresholds, feature evaluation, causal edges.
