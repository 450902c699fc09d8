# Marine Data Engine: TLA+ models, checks and proofs

The Marine Data Engine polls Indian marine data sources, stores what it gets with
its lineage, and serves it over REST, a WebSocket alert stream and MCP tools.
This directory holds TLA+ models of the parts in which something can go wrong
that a unit test would hardly reach, the TLC runs that check them, and proofs
that eight of them keep their safety guarantees on every instance. All paths below are under
`src/src/marine_data_engine/` unless they start with another directory.

## 1. The system

| Part | State it keeps | Operations | Talks to |
|---|---|---|---|
| Airflow DAGs (`airflow/dags`) | none | publish a poll or sweep trigger, retry on timeout | JetStream |
| JetStream queue (`messaging/queue.py`, `worker/runtime.py`) | streams per priority class, durable consumers, DLQ subjects | publish, fetch, ack, nak, dead-letter, stop | handlers |
| In-memory queue and worker (same files) | pending list, DLQ list, seen keys | publish, next_ready, ack, nack, run_once, drain | handlers |
| Source adapters (`sources/*`) | none (the bulletin cache for some) | fetch, parse, report a result state | cache, upstream sites |
| Bulletin cache (`cache.py`) | value and lock keys in Redis | get_or_fetch, invalidate | Redis, a loader |
| Ingestion (`services/ingestion.py`, `db/session.py`) | raw objects; job, asset, run, record, quality and event rows | ingest, record_source_error | raw store, database, queue, alert callback |
| Dataset status (`services/ingestion.py`, `services/freshness.py`, `services/registry.py`) | one row per dataset, one freshness row | poll outcome, sweep, seed | database |
| Alert broker and stream (`api/broker.py`, `api/app.py`) | replay buffer and subscriber queues per process | publish, subscribe, unsubscribe, stream | clients |
| Decision engines (`domain/risk.py`, `safety_gate.py`, `sea_state.py`, `safe_window.py`) | none | score, clear or refuse, cut into windows | MCP tools, routing |
| Other engines (`domain/qc.py`, `suitability.py`, `anomaly.py`, `services/routing.py`) | none | score, accept or reject | ingestion, API, MCP |
| Queries and geofence (`services/queries.py`, `geofence.py`) behind REST (`api/app.py`), MCP (`mcp_server.py`) and agent tools (`tools/marine_tools.py`) | evidence rows | read rows, zones and poll states; derive an outcome; store the evidence | database |
| STAC catalogue (`services/stac.py`) | none | format | database |
| Dashboards (`dashboard`, `frontend`) | React state | poll, stream alerts | REST API, WebSocket |

What is hard here:

* **Interleaving.** Worker processes share durable consumers, database rows and
  Redis keys. The sweep and the polls write the same columns from snapshots read
  earlier. API processes have a broker each.
* **Failure.** A worker may die between any two awaits; the ack, the nak, the DLQ
  publication, a Redis call or the transaction may fail alone.
* **Time.** `ack_wait` runs out under a slow handler, a lock expires under its
  owner, waiters give up, backoff delays a retry, data ages.
* **Ordering.** Events are published before the commit, replay meets live events,
  a slow loader stores an older document over a newer one.
* **Absence.** No rows may mean a calm sea, a source that failed, one that was
  never polled, or a zone that cannot be read; each adapter and each answer has to
  keep these apart.
* **Combination.** The clearance gate joins a dozen optional inputs; a score is a
  weighted mean over whatever happens to be present.

The properties that make each part correct are listed with its module below, and
every hazard is in `PROJECT.json` at the line where it bites.

## 2. Modules

`MC*.tla` modules only give the constants their values. An action stands for a
stretch of code between two points where another process can run; the mapping to
source lines is `map` in `PROJECT.json`.

**AtLeastOnce** is the abstract promise of a work queue, whichever backend: a job is
tried at most as often as its limit says and never once it is closed; it is closed only
when a try worked, when it is buried (once, with no try left) or when the queue gave it
up on record. It says nothing about order or time. In **WorkQueue** a try is a dispatch,
`closed` are the keys that left `_pending`, and nothing is ever given up; in
**JetStreamConsumer** a try is a delivery, also one that no worker sees, `closed` are the
messages whose ack the server has, and given up (`jobsWaived`) are messages of an
unregistered type and failed dead letters, both of which leave a log line.

**WorkQueue** is `InMemoryQueue` with `Worker`. A key's message is a record with
class rank, attempts, limit, ready time and enqueue time; `pending`, `dlq` and
`seen` are the three containers. `Begin` is `next_ready` as `run_once` calls it
(sort included), `Succeed` and `Fail` are the handler's two outcomes with `ack` or
`nack`; `Stop` is the signal. The backoff's jitter is the choice of the delay.

**JetStreamConsumer** is `JetStreamQueue` in several worker processes and, as
external behaviour, the server: redelivery after `ack_wait` or a nak, up to
`max_deliver`. A worker's `pc` is the await it is suspended at. A message is of a
known type, of an unknown one, not JSON, or JSON of the wrong shape: the last two
reach different lines of `_dispatch_one`.

**Ingestion** is `IngestionService.ingest` under `session_scope`, in concurrent
workers on one database: raw put, select or insert of the lineage rows, the
`_exists` check and the insert of each record, its quality row and event, commit,
rollback, crash. An insert waits for another open transaction on the same unique
key, and fails if that one commits. Records say whether quality control rejects them
and whether they are upserts; `events` is the queue or callback a service is
configured with. In the deployed workers neither is set (see section 7).

**DatasetStatus** is everything that writes a dataset's row. A transaction loads
its rows, and writes the columns it changed at commit, as SQLAlchemy does under
READ COMMITTED. Operations are the bookkeeping of a poll (success, partial success,
every class of error), the sweep over all datasets, and the seed. The history
variable `raced` holds the datasets whose row was last written from a stale copy and
not ingested afresh since.

**BulletinCache** is `get_or_fetch`, one step per Redis call, with value and lock
lifetimes that count down, a loader of any length up to `MaxLoad`, failing Redis
calls and dying callers.

**AlertFeed** is the abstract promise of one API process: a log; a session that
joins gets the last `Replay` events and every later one, in order, once, until it
leaves. **AlertBroker** is the code: replay deque, subscriber queues, scheduled
publishes, the WebSocket handler suspended at `accept`, `get` or `send`. It
carries history variables (`log`, `base`, `joined`, `start`, `sent`) for the
refinement mapping `Feed`.

**MarineRisk**, **SafetyGate** and **SafeWindow** are pure operators. A risk score
is an exact fraction (every band width divides `Scale`); readings are integers in
centimetres or tenths. A sea-state category is the set of WMO codes of its parts,
an unlisted part being `Unlisted`. **AssessmentTools** is the MCP tools
`evaluate_safety_clearance` and `compute_risk_windows` called again and again with
one argument changed, so that what a change of input may do to the answer is an
action property. The evidence row is stored or not; the answer is the same.

**SourceContract** is what the ingest handler and an adapter agree on: a poll begins,
continues from request to request, and ends by `Deliver` (records and a result state)
or `Raise` (an error state, acknowledged or retried). On it stand
**WaveModelSource** (`incois_ww3.py`: catalogue, units, probes around each point,
nearest and roughest node), **BulletinSource** (`imd_marine_bulletin.py`: text nodes
folded into areas and fields, records and alerts), **StationSources** (buoys and tide
gauges: a catalogue, then one request per station), **AlertSources** (CAP, high-wave
alerts, PFZ, NWP and zone boundaries) and **CatalogSources** (ERDDAP, MOSDAC search
and its paging, the MOSDAC download session and its tokens). A document is the
handful of facts the adapter tells apart. `poll.lost` collects the parts that failed,
`outcome.asked` whether any request was sent. The probes around a point are natural
numbers in the order in which they are sent. **SourcePolls** lets a worker take job
after job (`PollSpec`).

**QueryService** holds the selections of `queries.py` and `geofence.py` over the
stored rows and the outcome that `_source_outcome` derives from the poll states, as
pure operators. There is one query point, so a geometry is its distance from it; it
may also be missing or unreadable. **MarineQueries** runs them: an endpoint is the
list of its SQL statements, the datasets whose states it consults and the way its
outcome comes about; `Begin`, the `Read...` actions, `Commit` and `Fails` are one
request, statement by statement, while `FetchPfz`, `IngestPfz`, `Ingest` and
`RecordSourceError` are workers that commit in between. Two requests share nothing
but rows neither changes, so one at a time is enough. `req.due` is a history
variable: the stored rows a reader would expect the request to consider. The `refs`
of an evidence row are the records, or the sources of the records, that it names.

## 3. Runs

| Run | Instance | What it shows |
|---|---|---|
| `workqueue` | 3 keys, 2 classes, 2 attempts, backoff up to 3 ticks | a message is in exactly one place, its budget is exact, classes are strict, fresh messages are in order, the queue implements `AtLeastOnce`, all are settled in the end |
| `jetstream_safety` | 2 workers, 2 messages of any kind and class, 2 deliveries, 1 fault, 1 stop | the consumers and the server implement `AtLeastOnce` (so nothing is settled unaccounted for); nothing is dead-lettered twice |
| `jetstream_liveness` | 1 worker, otherwise the same | every message is settled or exhausted unless the worker stopped; a stop request the loop sees ends it |
| `ingestion` | 2 workers, 2 overlapping payloads of 6 records (all kinds, 2 rejected), 3 attempts, 2 faults | payloads are all or nothing, rows keep lineage, one audit row, their event and their first writer; attempts end |
| `ingestion_failure_doc` | the same | violation: `FailureIsRecorded` |
| `dataset_status` | 2 workers, 1 dataset, 3 polls, clock to 2, 1 seed, 1 fault | status and failure counter show what the source did, except from a lost update to the next undisturbed ingest; health is never manufactured, a seed keeps outcomes, sweeps converge |
| `bulletin_cache` | 3 callers, value life 2, lock life 1, wait 1, load up to 1, 1 fault | fetches beyond one are paid for by a fault or an expired lock, no lock is orphaned, documents have bounded age, calls end |
| `alert_broker` | 2 processes, 2 sessions, 3 events, replay 2, 1 restart | each process implements `AlertFeed`; subscribers and handlers correspond; dead ones leave once there is something to send |
| `alert_fanout_doc` | the same | violation: `FansOutToSubscribers` |
| `assessment_tools` | readings below, inside and above the bands, a known, an unlisted and no category, one hazard or flag, series of 3 steps | no clearance without evidence, refusals explained, monotone in every hazard, categories pessimistic; windows partition the series and keep its worst |
| `source_polls` | every live adapter, enabled or not; 2 forecast points with 4 probes, 2 bulletins, 2 buoys, 2 gauges, one document of each kind | healthy means complete; only operator states are dropped without a retry; the roughest node is reported; paging finds all; every poll ends |
| `marine_queries` | 28 endpoints, 3 polls, clock to 2, pages of 2 | an empty answer admits what it does not know, answers are audited, superseded PFZ snapshots are not shown, pages of alerts keep the nearest |

**Bounds.** Two workers are enough for every race listed: each is between two
transactions, two deliveries or two lock owners. Where an effect needs a third
party (the lock of a successor deleted by its predecessor, which lets a third
caller in) there are three. Three keys with two classes give a message ahead of,
behind and beside another. Two attempts or deliveries give a first, a last and the
step between. A replay buffer of two with three events overflows. Two payloads
that share records give skipped, waiting and rejected inserts. Three forecast
steps give merging on both sides of a boundary, and warnings that touch a
boundary. Probes lie inside the radius, beyond it, and inside with a node beyond.
Three polls fill a page of two alerts and leave one out, commit two PFZ snapshots in
either order, or put a failure between two successes, before, during or between
the statements of a request. Counters are bounded by named constants (`MaxFaults`, `MaxSignals`,
`MaxPolls`, `MaxClock`, `FreeTime`, `MaxAttempts`, `MaxRestarts`, `MaxFindings`,
`MaxSteps`).

**Deadlock** is not checked where the system may come to rest: all messages
settled, all payloads ingested, worker stopped, sessions closed.

**Fairness.** A process that is not waiting goes on (weak fairness of its steps):
an event loop or a thread that can run does run. Time passes. In JetStreamConsumer
a fetch that keeps becoming possible happens (strong fairness: the loop polls
every class again and again, and the server answers a pull when it has messages),
and the server redelivers what is due; faults are never fair. In Ingestion an
unfinished payload is delivered again while it has attempts left, which is what
the queue does. In DatasetStatus sweeps keep starting: Airflow schedules one every
five minutes. In SourcePolls a fetch that can take a step takes it, since every
request has a timeout. Nothing is assumed about polls, publications or clients.
`AlertFeed`'s fairness is part of what `AlertBroker` is shown to implement.

## 4. Findings

* **Failures are not on record.** `ingest` marks jobs and dataset as failed, flushes
  and re-raises; `session_scope` rolls the marks back (`ingestion.py:306`).
* **Alerts reach half of the clients.** The API runs two processes, each with its own
  broker; an event posted to one is not fanned out to the subscribers of the other.

Further disagreements that no run exhibits:

* When the publication on the DLQ subject fails, or the body was not JSON (`envelope`
  is then unbound), the message is acknowledged all the same (`queue.py:318`), although
  `subjects.py:16` promises a dead letter. `SettledIsAccounted` therefore counts the
  log line.
* Two overlapping failures count once and a sweep may overwrite a poll; `raced`
  delimits it. A stop signal during connect or subscribe is lost.
* The risk engine dilutes: its docstring says that falling pressure drives risk, but a
  fall of 1 hPa counts as a factor of contribution zero, and with it 4 m waves in a
  light wind go from MODERATE to LOW (`risk.py:261`, evaluated in the model).
  `WorseNeverHelps` is therefore about a factor that already counts; an additional
  benign reading, or a pressure trend that turns from rising to slightly falling, may help.
* An empty PFZ poll stores no row, so the snapshot before it is still answered as
  current (`queries.py:138`), although the docstring excludes older snapshots.
* A bulletin area with an unverified name opens no block, so fields that follow it and
  are missing from the area before are recorded there (`imd_marine_bulletin.py:334`);
  the comment at line 99 says that it fails loudly. The documents of `source_polls`
  have unknown areas only before the first known one.
* `_geofence_envelope` never answers "available" to a point outside every zone: the
  EEZ lookup without a match always warns (`app.py:1199`, docstring at 1154).

Behaviour to know of, which no document contradicts: an answer is explained by the
last poll state however old; records of a degraded poll are answered as available; the
agent tools read no poll states and call every answer available that has no sentinel;
a zone with an unreadable geometry counts as coverage and contains nothing; a reading
without coordinates passes the radius filter of its query and never enters the risk; a
centre without a verified vocabulary is skipped without trace; only the newest CAP item
is fetched; a steady stream of critical messages starves the lower classes; a trigger
whose acknowledgement times out is published again (`airflow/dags/marine_common.py:39`);
two workers may both find a raw object missing and both put it
(`storage/raw_store.py:189`); a reconnecting alert stream schedules a second connect
from the close of its old socket (`frontend/src/lib/useAlertStream.ts:90`), and two polls
in flight of one dashboard hook may settle in the wrong order
(`dashboard/src/hooks/useAsyncData.ts:86`).

## 5. Proofs

Eight modules `<Module>Proofs` prove, with TLAPS and for every value of the
constants, what the runs check on one instance. Each has an inductive invariant
`IInv` (`PollInv` for the polls), which TLC checked on the instance of the run before it was proved; the
theorems follow from its invariance. The proofs use the named assumptions of the
modules and nothing else.

| Module | Theorem | States |
|---|---|---|
| WorkQueueProofs | `NothingLost`, `BudgetExact`, `StrictPriority`, `FifoOrder`, `SettledForGood`, `RefinesAtLeastOnce` | `ExactlyOnePlace`, `RetryBudget`, `PriorityIsolation`, `FifoWithinClass`, `NoResurrection`, `ImplementsAtLeastOnce` |
| JetStreamConsumerProofs | `NothingIsLostSilently`, `DeadLetterIsUnique`, `RefinesAtLeastOnce` | `SettledIsAccounted`, `DeadLetteredOnce`, `ImplementsAtLeastOnce` |
| IngestionProofs | `IngestIsAtomic`, `LineageIsComplete`, `EventsPrecedeRows`, `DuplicatesAreHarmless` | `AllOrNothing`, `RowsHaveLineage`, `RowsAreAnnounced`, `FirstWriterWins` |
| DatasetStatusProofs | `HealthIsEarned`, `StatusIsCurrent`, `CounterIsExact`, `SeedIsHarmless` | `HealthNeedsData`, `StatusShowsLastPoll`, `FailuresAreCounted`, `SeedKeepsOutcome` |
| SourceAccessProofs | `SingleFlightHolds`, `StalenessBounded` | `SingleFlight`, `BoundedStaleness` of BulletinCache |
| | `HealthIsComplete`, `FailuresAreRetried`, `RoughestSurvives`, `SearchIsComplete` | `HealthyMeansComplete`, `OnlyOperatorStatesAreDropped`, `RoughestIsReported`, `SearchFindsAll` of SourcePolls |
| AlertBrokerProofs | `NoGhosts`, `RefinesFeed` | `NoGhostSubscriber`, and that `Spec` implies the specification of `AlertFeed` without its fairness |
| AssessmentToolsProofs | `ClearanceIsEarned`, `RefusalsHaveReasons`, `CategoriesArePessimistic`, `WorseRefusesMore`, `WorstIsKept` | `ClearanceNeedsEvidence`, `RefusalsAreExplained`, `CategoryIsPessimistic`, `WorseNeverHelps`, `WindowsKeepWorst` |
| MarineQueriesProofs | `EmptyIsHonest`, `EvidenceIsThere`, `SnapshotIsNewest`, `NearestAlertsAreKept` | `EmptyAnswersAdmitGaps`, `AnswersAreAudited`, `NewestSnapshotIsShown`, `AlertPagesKeepTheNearest` |

All eight also prove the type correctness of a module (`TypeCorrect`; in SourceAccessProofs
that of BulletinCache). The arguments:

* **WorkQueue** (`WorkQueueAssumption`). That a dead-lettered message used exactly its
  budget needs the budget that was left while it was pending; that `nack` makes no
  second copy needs the message being handled to be pending still; that a key is in
  one place after its first publication needs unpublished keys to be clean.
  `NackEffect` states once what `nack` does. The order of fresh messages needs a second
  invariant, about enqueue and ready times of messages that were never tried. For the
  refinement every action is one of `AtLeastOnce` or a stutter: a dispatch is a try that is
  left because `RetryBudget` is exact, and the nack that buries is the last one.
* **JetStreamConsumer** (`JetStreamAssumption`). A delivery is the pair of message and
  delivery count. The server never repeats a pair, so one worker has it (`HeldInv`),
  and the last pair of a message, once dead-lettered, can only be at the final ack
  (`DlqInv`). `AckInv` is what a worker knows of the message it is about to ack.
  The refinement of `AtLeastOnce` needs one invariant more (`UnsentInv`: nothing is delivered
  of a message that was not published), so that what a worker holds was submitted and tried
  (`HeldIsTried`); that the messages of a fetch have a try left is `StoreInv`.
* **Ingestion** (`IngestionAssumption`). The properties speak of committed rows, the
  invariant of what an open transaction has secured: records behind its loop position
  are stored or among its own rows (`LoopOK`), which are new, audited once, announced
  (`HeldOK`, `PendOK`, `AuditOK`) and nobody else's (`OwnRows`: the unique keys).
  `OtherKeeps` shows once that no step of another worker disturbs it.
* **DatasetStatus** (`StatusAssumption`). Overlapping transactions mix their columns, so
  nothing follows from the row alone. `TxInv` says what the copy of an open transaction
  still says of the row: a success and a poll that it saw are still there. A
  column-wise write of values that are right for the copy is then right for the row
  (`WrittenIsSound`). Where nothing overlapped (`raced`), the copy is the row.
* **BulletinCache** (`CacheAssumption`: a finite, non-empty set of callers). Counts the
  elected callers that do not own the lock: `SET NX` adds none, a failed call or an
  expiry adds one and is counted, a release that deletes another caller's lock takes one
  away and adds one. The age of a value and the life it has left add up to a bound.
* **SourcePolls** (`WaveAssumption`: finitely many probes, distances and wave heights are
  numbers; `PageAssumption`: page size and page limit are positive). The properties
  speak of the end of a poll or of a point; what is inductive is what a poll in flight
  keeps true until then. Whatever it has lost it has reported (`PartsInv`), so a poll
  that ends healthy has lost nothing. Every probe inside the radius is left, lost or in
  the samples at every instant at which its node is wet (`ProbeInv`), so the maximum over
  the samples is a maximum over the sea; that a maximum exists is proved from the
  well-foundedness of the naturals. The pages read so far are the listing up to `start`
  (`PageInv`), so the last page completes it. Nearly every one of the 40 odd steps
  continues, raises or delivers, and `ContinueKeeps`, `RaiseKeeps` and `ReturnKeeps` show
  once per class what it keeps.
* **AlertBroker** (`BrokerAssumption`). The replay buffer is the end of the log of its
  process (`RecentInv`); what a session has sent, is sending and has queued is the log
  from where it started (`StreamInv`), which needs `NoGhostSubscriber` because a
  publication reaches registered queues only. Every action is then shown to be one of
  `AlertFeed` or a stutter.
* **AssessmentTools** (`ToolsAssumption`: readings, distances and series are numbers and
  `None` is not one; a category is made of WMO codes or unlisted parts; there are finitely
  many severities; a warning does not end before it begins). The answer on the table is the
  answer to the arguments on the table; the rest is about the operators. The gate computes
  status and reasons apart: each reason is traced to a condition of the status and back.
  Two scores are compared by cross-multiplication (`CrossTransitive`, `CrossCut`): while the
  same factors count, the denominators are equal and the seven terms grow one by one
  (`ScoreGrows`), and the verdict is monotone in the level and in each condition
  (`VerdictGrows`). For a category the band of the worst of its parts bounds the measurement
  (`MeasuredIsKinder`). What the windows of the first n steps satisfy, `CutUpTo`, is kept by
  merging one step more (`AppendCuts`, `AbsorbCuts`); a least n at which it failed would
  contradict that, which stands in for the induction the prover lacks. That the recursive
  function `MergeSteps` exists at all is shown by hand in the same way (`MergingDefined`).
* **MarineQueries** (`QueryAssumption`, `FeedAssumption`: a poll parses finitely many
  rows, times and distances are numbers, fishing zones come from the PFZ feed). Answers
  are held to the rows stored when the request began (`due`). Rows are only added and
  the clock only advances, so a selection from a later table at a later time still
  measures up to them (`SnapshotInv`, `PageInv`, `PointInv`); `WorldStep` shows once
  that no commit of a worker changes that, `StatementStep` that no other statement does.
  That there is a newest snapshot rests on the well-foundedness of the naturals.
  `TypeCorrect` has an invariant of its own (`ListInv`): the statements a request has left
  end with the COMMIT, and the count of the zones is followed by the statement it may save
  (`EndpointTyped` for each endpoint, `RestOfList` for each step), so no request runs past
  its list; `OutcomeTyped` shows that every endpoint derives an outcome, whatever it found.

`NoResurrection` and `SettledIsAccounted` have no run of their own: a violation of either
is one of `ImplementsAtLeastOnce` (`closed` never shrinks, and takes in only what worked,
was buried or was waived).

Every invariant and action property of a passing run is so stated by a theorem. Only
model-checked are the liveness properties, fairness and `ENABLED` being out of the prover's
reach: `EventuallySettled`, `StopEndsLoop`, `AttemptsEnd`, `SweepsConverge`, `CallsEnd`,
`DeadSubscriberLeaves`, `PollsEnd`, and the fairness part of `ImplementsFeed`.

## 6. Plan

Done: the modules above. Left, in this order:

1. **Domain tools.** Quality control, suitability, anomaly and route scoring as
   operators, used by further tools in `AssessmentTools` and its run.
2. **Triggers and stores.** The producer's retry of a timed-out publication composed
   with JetStreamConsumer; head-then-put of the raw store composed with Ingestion.
3. **Dashboards.** The reconnecting alert stream (a client of `AlertFeed`) and the
   polling hook.

An abstract specification worth stating: a registry of outcomes that `DatasetStatus`
implements while transactions do not overlap.

## 7. What is not modelled, and why

* Parsing of upstream documents, unit conversion, SQL filters, spherical geometry
  and page layout: data formatting without control of its own.
* Quality control, suitability, anomaly and route scores: pure functions of their
  arguments whose outcome the other modules take as given. The spherical geometry of
  routes is out of reach of TLC.
* The lists of datasets, jobs and zones, the health report, STAC and the evidence
  lookup: one read and one reply each.
* The fixture adapters and `sources/scientific.py`, `nga_ports.py`: no live poll.
* `InMemoryQueue` is used by tests and by a worker without `NATS_URL`; with one, a
  worker that cannot reach NATS stops (there is no fallback at run time).
* The deployed workers build `IngestionService` with neither queue nor alert
  callback, and nothing posts to `/v1/internal/ingest-trigger`: events of
  Ingestion reach AlertBroker only in a deployment that adds that bridge, so the
  two modules are not composed.
* The `TypeOK` of a module with proofs is proved and is not part of a run.
* Floating-point rounding of scores, and readings that are infinite.
