# A TLA+ verification of istanbulmcp

istanbulmcp is a read-only MCP server for Istanbul's open data: one asyncio
process (or several workers on one volume) that answers tool calls from cached
captures of municipal sources. It computes little. What is hard in it is *when*:
cached data that may be served, replaced, evicted and reloaded by overlapping
coroutines; threads that outlive the call that started them; several processes
on one SQLite file; sources that fail, slow down or change while they are read.
The modules here model that, after the code under `src/`; TLC checks them on
small instances, and the theorems hold for every value of the constants.

`PROJECT.json` lists components, runs, mutants, the line range each definition
models, findings, hazards and theorems.

## 1. Inventory

`M` modelled, `P` partly, `-` not modelled (section 10).

| component | state it keeps | operations | | module |
|---|---|---|---|---|
| source cache, `core/source_cache.py` | entries and locks per key | get, peek, evict | M | CachedSource, SourceCache |
| GTFS timetable, `services/`, `connectors/`, `storage/gtfs_schedule.py` | cached snapshot id, warm-up flag; SQLite tables | load, publish, query, inspect, warm up | P | GtfsSnapshot |
| request guards, `core/abuse_guard.py`, `core/api_auth.py` | client buckets, two slot counters | authenticate, admit, release | M | Ingress, ClientRateLimiter |
| daily quota, `storage/quota.py` | usage rows in SQLite | consume | M | DailyQuota |
| outbound HTTP, `core/rate_limit.py`, `connectors/http_retry.py` | source buckets, unreachable hosts | acquire, penalize, request with retries | M | SourceAccess |
| DataStore captures, four readers | rows of a capture under way | page through a table | P | DatastoreCapture |
| local SQL, `services/datastore_sql.py` | gate, cached copies | query | P | DatastoreSql |
| ISKI and the Worker relay, `connectors/iski.py`, `services/iski.py`, `workers/iski-relay` | copies in Workers KV, the client's load, a cache entry | refresh, serve, fall back, answer | M | IskiSources |
| city layers, `services/city.py`, `storage/geo.py` | geo features in SQLite | upsert, replace, search | P | CityTools |
| GTFS stops, stop search | a layer of the same store | capture, publish, search | P | DatastoreCapture, CityTools |
| disruptions, metro accessibility, ferries, IETT lines | none beside the cache | read, keep rows, answer | M | TransitTools |
| pharmacies, Istanbulkart, social facilities | none beside the cache | read, merge, count, answer | M | RosterTools |
| neighbourhoods, markets, dataset catalogue | none beside the cache | read, join, filter, answer | P | CatalogTools |
| connectors behind these tools | none | keep or refuse a page | P | SourcePages |
| envelopes and error codes, `core/envelope.py` | none | success, failure | P | Envelope |
| IBB relay, telemetry, watchdog, MCP surface, settings, CORS, scripts | nothing that reaches an answer | | - | section 10 |

How they interact. A request passes `Ingress` (authentication, body size, the
client's bucket, a slot, the quota) and reaches a tool. The tool makes a service,
which asks the `SourceCache` for a key; on a miss the cache runs a loader under
the lock of the key; the loader calls a connector, which takes a token of its
source and sends requests (`SourceAccess`), for whole tables page by page
(`DatastoreCapture`). Timetable and layers are then written to SQLite by a thread
or in place and read back by queries (`GtfsSnapshot`). SQL runs in a thread on a
private copy (`DatastoreSql`). A tool that reads several sources reads them at once
or in a fixed order, writes the layers it is about to search, and makes one envelope
of what it got (`ToolCalls`). ISKI's faults and dams have a second cache of their
own, in the Worker (`IskiSources`). Shared state is the process (cache, buckets,
cooldowns, flags) and the database file, which other workers share.

What makes each hard, and what makes it correct:

* **Source cache.** Coroutines interleave at two awaits, locks are dropped while
  held, clocks move during loads. Correct: never past its age, never over its
  limit, no lock leaked, every call ends.
* **Timetable.** A timed-out load does not stop its publishing thread; workers
  publish over each other; processes die. Correct: a reader sees one whole
  snapshot, an answer names the one its rows belong to, and calls are refused for
  the warm-up only while it runs.
* **Guards and quota.** A request ends in many ways, its quota thread may go on,
  buckets are pruned at a limit, days end, processes restart. Correct: slots come
  back exactly once, no client outruns its bucket, the quota counts exactly what
  it let through.
* **Outbound.** Calls sleep outside the lock on promises that others overtake.
  Some calls are streamed past the retries, some take no token. Correct: tokens paced,
  a penalty kept, refusals justified, dead hosts left alone by those who ask.
* **Captures.** The table changes between pages. Correct: no torn copy taken for
  a whole one where the checks can tell, no table rejected without cause, no
  reading that never ends.
* **SQL.** Cancelling a query does not stop its thread. Correct: one at a time.
* **ISKI.** Three caches in a row and five sources, refreshes that overlap, answers
  that are lost or late, and a snapshot with an age of its own. Correct: what is
  called fresh is no older than the three ages together, old data comes last, and
  an answer says what it lacks.
* **Tools.** Each of its sources may be fresh, stale, lost, or answer with something
  that is not a list; rows may be broken, repeated or about something else; another
  worker writes the same layers. Correct: an answer that calls itself fresh or stale
  is whole, what is missing is told, counts add up, layers do not mix.

## 2. Source cache

`SourceCache` is `SourceTTLCache.get_with_status` cut at its awaits: a caller is
`idle`, `queued` for a lock object, or `loading` (which is to hold the lock).
`MissAndLoad`, `MissAndWait`, `ResumeAndHit`, `ResumeAndLoad`, `LoadSucceeds`,
`LoadFailsStale`, `LoadRaises`, `CancelLoading`, `CancelQueued` are the code
between two awaits, each with everything it does: the re-check under the lock,
the eviction before the insert, the locks that eviction and failure drop. A lock
is an object with its own queue, so that a dropped lock may still be waited for
while a second one is registered for its key. A value is identified with the
moment its load began. The clock moves while loads run, up to `MaxClock`.

`CachedSource` is what the services rest on, without locks, queues and clocks: of each
key there is one copy or none, fresh or stale; a fresh copy answers at once; a call
without one answers with what it loads, else with the copy there is, and fails only
where no copy may stand in. Copies age and get lost, never the other way round.
`SourceCache` implements it (`ImplementsCachedSource`): the copy of a key is what `Fresh`
and `StaleServable` say of its entry, a call asks from its miss to its reply, and
queueing, taking a lock and starting a load are steps that nobody above can see. The
promise is weaker than the documentation in two points, the two findings below: several
calls may load one key, and a stale copy may be lost before its window closes.

What rests on it has the same three states of a copy. `GtfsSnapshot`: `EntryExpires` and
`EntryDropped` are `Age`, `FindFresh` is `Hit`, `StartLoad` follows `Ask`, `LoadSucceeds`
is `Load`, `LoadFails` is `FallBack` or `Fail`, `CallCancelled` is `GiveUp`.
`ToolCalls`: `Tick` is `Age`, `ReadCached` is `Hit`, `ReadSource` is `Ask` with `Load`,
`FallBack` or `Fail`, and its `Evicted` the copies that a `Load` may cost; copies lost for
want of room (1024 entries by default) are left to `SourceCache`. `IskiSources` has
the deadlines as well; `EntryEvicted` and its `Tick` are `Age`, and it follows one load
of the server at a time. These correspondences are by reading: each of the three
models has its own actions, and only the step from `SourceCache` to the promise is proved.

| run | shows |
|---|---|
| `source_cache` | with two callers, two keys, room for one entry and loads that succeed, fail, take long, declare an age or are cancelled: `CacheWithinLimit`, `ServedWithinAge`, `PeekShowsServable` (the peek shows nothing a call could not get), `OrphanLocksComeFromCancel`, `ImplementsCachedSource`, and under fairness (section 9) `EveryCallEnds` |
| `source_cache_single_flight` | finding: two loads of one key at once |
| `source_cache_window` | finding: an entry still inside its stale window is evicted by the insert of another key |

Proved (`SourceCacheProofs`), for all callers, keys, windows and limits:
`TypeCorrect` (`TypeOK`, which no run repeats), `AgeBound` (`ServedWithinAge`), `LimitHolds`
(`CacheWithinLimit`), `PeekAgrees` (`PeekShowsServable`), `OrphansOnlyByCancel`
(`OrphanLocksComeFromCancel`) and `Implements` (`ImplementsCachedSource`).
These cover the third caller, whom only the two runs of the findings have. The type invariant is strengthened by `CallsOK` (a call
has a key and a lock exactly while it is under way). `AgeBound` needs a fact of
the entries, not of the answers (`EntriesAged`): each expires at most TTL after the
moment its load *began* and no later than the age its loader declared. `Implements`
needs the same fact where a load fails while another call has stored a fresh entry:
an entry that is fresh is inside its stale window too (`FreshIsServable`), so the call
does not fail. One lemma says that a tick only ages copies (`TickAges`), one what a
load stores (`StoredIsLoaded`); then each action is a step of `CachedSource`. `OrphanLocksComeFromCancel` is an action property and follows from one
lemma per action about the registry. Liveness is checked by TLC alone.

## 3. Timetable

`GtfsSnapshot` has workers over one database. A call finds a cached id or loads
one; the load stages a feed and starts a thread, which opens the write
transaction, copies one table after the other, replaces the metadata row and
commits; the load returns, fails, times out or is cancelled at any point while
that thread goes on. A query opens a read transaction, checks the id as its first
read (which pins the view), reads its tables and answers. A status call checks the id
in a thread and, after that await, shows what the cache entry has for it. The warm-up is a call
that sets and clears `_warmup_active`. A worker may restart at any time. From
SQLite the model takes WAL snapshots, a single writer, and rollback of what was
not committed. The cache is that of `CachedSource`: a fresh entry, a stale one or none,
with loads that may overlap.

`ScheduleStore` is the promise: all tables change at once, a reader pins what is
published when it begins, and answers from that alone. `GtfsSnapshot` implements
it (`ImplementsStore`, by INSTANCE with a refinement mapping: the database is the
store, the view of a read transaction is what a reader pinned).

| run | shows |
|---|---|
| `gtfs_snapshot` | two workers, four calls with one warm-up, two tables and two snapshots: `PublicationInv`, `ShownWasCurrent`, `RefusedOnlyWhileWarming`, `ImplementsStore` |
| `gtfs_snapshot_refresh` | finding: a load that failed by timeout still replaces the previous snapshot |

Proved (`GtfsSnapshotProofs`), for any workers, calls, tables and snapshots:
`TypeCorrect`, `Publication`, `Truthful`, `WarmingIsTrue`, and `Implements`, the
refinement. The inductive invariant is the type invariant with `PublicationInv`:
the database is whole; what the writer has copied belongs to the id it publishes
and what it has not is still the committed one; a reader's view is whole and
carries the id it holds. Two lemmas say what a step may do to a writer and to a
reader; the refinement needs only that invariant before and after the step.
`ShownWasCurrent` says what a status row is worth: the database held its snapshot at
some moment of the call, not always when the row is shown, for a commit may come
between the check and the reply. It needs a history of what the database has named
while a call goes on (`named`, which no step reads), and `HistoryInv`: that history has
the id named now and, past the check, the id the call holds.

## 4. Guards and quota

`Ingress` composes `ClientRateLimiter` and `DailyQuota` (INSTANCE, sharing their
variables) with the middlewares of `app/main.py` in their order: `Arrives`, the
refusals (unauthorized, too large, rate limited, busy), the wait for the quota
thread, the application, and every way to end, the `finally` that frees the slot
included. A request is a key or an address, a kind (a call, a listen stream, a
GET stream, the redirect) and a body that fits or is too large by declaration or
on reading. A cancelled request leaves its quota thread behind. `DailyQuota` cuts
`consume()` where threads interleave: the day is read, the write lock is taken
and the count read, the rest of the transaction. Midnight and a restart may come
between any two steps.

The limiter counts tokens in units of which one refills per tick, a request costing
`Cost`: exact integers for the code's floats. `MaxClientsSetting` smaller than
the number of keys is the case `app/main.py` guards against.

| run | shows |
|---|---|
| `ingress` | three requests, two keys or two addresses, one slot of each kind: `SlotsMatchRequests`, `RateBound`, `TodayIsCounted`, `QuotaGatesTheApp`, `NoKeyForgotten` |
| `ingress_midnight` | finding: one request too many for a day, around midnight |

Proved (`IngressProofs`): all six, for any numbers of requests, keys, addresses,
any capacity, price, limit and bounds. `RateInv` ties each bucket to its history:
what was admitted since any earlier admission costs no more than a full bucket and
the refill, less what the bucket now holds. `QuotaInv` says what the open
transaction has read, and that the row of the current day counts the requests let
through. `GateInv` follows a request from the quota to the application. `KeysInv`
says that the tracked keys never outnumber the clients there is room for.

## 5. Outbound access

`SourceAccess`: a call takes a token (`AsyncTokenBucket.acquire`), sleeps outside
the lock and asks again, or is refused; then it sends, is told to come back later,
times out, retries, pauses, or gives up (`request_with_retries`). Hosts are shared
by sources, and a connect timeout puts one on cooldown for all. Calls are
cancelled wherever they wait.

Two kinds of calls do less, and the properties say where they are left out. Streamed
calls (`Streamed`: `CkanClient._request_bounded`, the downloads of `gtfs.py`,
`gtfs_schedule.py` and `city_open_data.py`) take a token of ckan and send one request
past `request_with_retries`: a cooling host does not stop them, their connect timeout
puts none on cooldown, and the `Retry-After` of their 429 penalizes no bucket, so the
next call of ckan is let through inside it. They count in `GrantsPaced`,
`RefusalsStand` and `SleeperIsServed`, and a penalty holds them back as others; what
they are told themselves, `RetryAfterHonoured` and `CoolingHostLeftAlone` do not speak of.
Unmetered calls (`Unmetered`: all of `social_facilities.py`, the API that
`marmaray.py` asks when its page failed, the further addresses of `sehir_hatlari.py`)
go through `request_with_retries` without a token: they heed and start cooldowns and
penalize their bucket, and are not paced.

The histories `granted`, `asked`, `refused`,
`timedOut` and `calm` record what was promised.

| run | shows |
|---|---|
| `source_access` | three calls of one source, one of them streamed, and an unmetered call of another, to one host: `GrantsPaced` (no source grants tokens faster than configured), `RetryAfterHonoured` (a penalty holds, and a shorter 429 does not cut a longer one short), `RefusalsStand` (a refused call would not have been served in time), `SleeperIsServed` (a sleeper nobody overtook finds its token), `CoolingHostLeftAlone` (after a connect timeout the calls of `request_with_retries`, of whatever source, stay away) |

Proved (`SourceAccessProofs`): all of them, for any calls, sources, hosts,
capacity, price, waits, attempts and cooldown. The inductive invariant `IInv` is
`TypeOK`, `SourceInv`, `HostsInv` and `CalmInv`: a ledger per source (grants since
any earlier one against units and refill), that a source is blocked as long as any
delay it was told, what a refusal implies for the bucket, that a cooldown lasts as
long as the latest timeout of its host, and that a sleeper nobody disturbed is
still promised its token.

## 6. Captures and SQL

`DatastoreCapture` is a reader that pages through a table while its publisher
inserts, deletes and reloads rows. The four readers of the code differ in their
checks (`TotalAgrees`, `Ordered`, `Counted`, `Usable`), and are one module with a
parameter so that they are asked the same questions. Everything that may go wrong
with an answer besides its rows (bytes, schema, deadline, transport) is
`AnswerFails`. External and assumed: an answer shows the table of one moment, in
the order of `_id`, also for the reader that names no sort.

`DatastoreSql` adds the queries: the gate, the cached copy, the thread and the two
awaits of a cancelled query.

| run | shows |
|---|---|
| `datastore_sql` | `OneSidedChangeIsHarmless` (a copy taken while rows only came, or only went, is the table as it was), `NothingTakenTwice`, `ChangedTotalIsNoticed`, `RejectedForCause` (a table left alone is never refused), `ThreadHeldByGate`, `NothingHangs` |
| `datastore_sql_redelivery` | finding: a query cancelled twice leaves the gate with its thread running |

`OneSidedChangeIsHarmless` says exactly how far the checks go: after a deletion
*and* an insertion a copy may lack a row that was there all along, with every
check passed. The documentation of the SQL tool says so; the property is what
remains true.

Proved (`DatastoreSqlProofs`), for any number of queries: `GateHolds`
(`ThreadHeldByGate`) and `OneThread` (while no query was cancelled twice, at most
one thread runs). `GateInv`: who is inside holds the gate, and a thread belongs to
a query that waits for it or was cut off from it.

Proved (`DatastoreCaptureProofs`), for any readers, names, budgets, page sizes and
tables: `TypeCorrect`, `CopyIsWhole` (`OneSidedChangeIsHarmless`), `NoRowTwice`
(`NothingTakenTwice`), `ChangedTotalNoticed` and `RefusedForCause`
(`RejectedForCause`). None of them is inductive: what a reader accepts at the last
page depends on what changed before each page. `IInv` says what a reader may rely on
in between: `InOrder` (its rows are in the order of `_id` and, unless the table was
loaded anew, no more rows of the table lie up to the last one taken than were taken,
so that the next page begins after it), `Prefix` (while rows only came they lie after
all the rows that count, and what was taken is the start of the table as it was) and
`Shrunk` (once rows only went, too few are left to fill the total). The lemmas before
it are about tables: each place up to the size of a table is that of one row
(`PlaceTaken`, by counting), pages join to the whole (`RowsJoin`), and rows that come
or go above or below keep or lower the places of the others.

## 7. ISKI

`IskiSources` is one kind of payload (faults or dams) on its way from ISKI to an
answer. A datum carries the moment `taken` its download began, which the code does
not know: the ages the tools promise are checked against it.

* *The Worker* (`workers/iski-relay/src/index.ts`): a `copy` in KV with the `stamp` of
  its writing, and `loads` that overlap: a request that finds the copy old starts one
  in the background (`ServeCopy`), one that finds none waits for its own
  (`LoadForCaller`), a deployment warms up (`WarmUp`). `LoadEnds` asks ISKI and e-Devlet
  in the order of the kind, stamps what came and overwrites the copy, whichever load
  wrote last; KV may refuse the write.
* *The client* (`connectors/iski.py`): `call` goes through relay, API and direct file,
  as configured, and remembers what it holds back (an old copy) and what has failed.
  `RelayLost` is a lost or late answer, sent again or given up while the Worker's load
  goes on. `FallBack` takes the old copy, else the snapshot within its age, else the error.
* *The service* (`services/iski.py`): the cache `entry` with its mode, date and cap, and
  the warnings, status and rows of the four tools as operators over it. The cache is
  that of `SourceCache` for one key: `Hit`, a stale window after errors, a cap on the age,
  and an insert of another source that may evict the entry at any time (`EntryEvicted`).

| run | shows |
|---|---|
| `iski` | `AgeIsTold`: an answer called fresh is younger than the Worker's age, its longest load and the cache's age together, and its date is that of its data; `SnapshotWithinAge`; `LastResort`: old data is taken only after every live source failed in the same load; `AnswerOwnsUp`: a stale answer says why, a fault that cannot be found by number or place is owned up to, dams are never none |

Proved (`IskiProofs`), for all ages, numbers of overlapping loads, faults and
configurations: `TypeCorrect`, `AgeBound`, `SnapshotBound`, `LastResortHolds`, `OwnsUp`,
that is, every property of the run. The inductive invariant `IInv` is the type
invariant with one part per place where data waits: `CopyInv` (stamped at most one
load after it was taken), `LoadsInv` (no load is older than `Fetch`), `CallInv` (the
stage of the client tells what has failed; what it holds back is dated) and `EntryInv`
(an entry is bounded by the ages it was loaded with, whenever it is looked at). `Suits`
says what may be written into the entry, and one lemma that what suits keeps
`EntryInv`; then there is one lemma per action. The assumption that a load of the
Worker ends within `Fetch` is a guard of `Tick`: the Worker's requests have timeouts.

## 8. Tools

`ToolCalls` is a call of a tool from its question to its envelope. `Ask` chooses a query
of the suite and refuses an invalid one; `ReadCached` and `ReadSource` read one source
each through the cache, at once or in the order of the code (`Due`), and write the
layers that are searched; `Reply` makes the envelope from what was got and from the
store *as it is then*; a page that was loaded evicts the copies past their period
(`Evicted`), so a key read later in the same call may have lost its fallback; `Tick` ages
the copies; `OtherWorker` writes a layer. `got` says
of each source whether it is fresh, stale or lost.

A page is abstracted to its form and to the kinds of its rows (`SourcePages`, which
lists both), because that is what the code tells apart: complete rows about the
request, repeated ones, ones of another line or place, ones without a field, ones that
do not parse, ones that say nothing is wrong. The connectors are operators from pages to the rows kept,
or None where they raise. `TransitTools`, `RosterTools`, `CityTools` and `CatalogTools` have
one operator per tool for its answers: which rows, which freshness, which warnings
about which source, which counts, which error code. Sources with more than one
candidate (a relay or another host, an API behind a page, a file that fills gaps)
have one page for each.

| run | shows |
|---|---|
| `tools` | over every tool: `ListsAreWhole` (an answer called fresh or stale has read every source it is about, from a page that lists or is warned of, and lists every row there that concerns the request unless it says it was cut), `WhatIsMissingIsTold` (what is lost or stale is warned of and never passed off as fresh, no row comes from a source that was not read), `RowsAccounted` (accepted and left-out rows add up to those of the page), `PublicationsDoNotMix` (rows of a replaced layer are of one publication, whoever wrote it) |

A behaviour is one suite: one to three queries that share keys, so that the copies and
layers of one call are met by the next. `ListsAreWhole` has two exceptions, because the
code has them:

* what counts as a list: of the keys in `Lenient` an envelope without its list is
  accepted as a list without rows, and of those in `Uncounted` the first page of a longer
  table as the whole of it. Each key is there because the property fails without it. The
  documentation says otherwise (section 9), so an empty answer about one of these keys
  is not evidence that the source listed nothing;
* whose rows: a replaced layer is searched in the database that the workers share. When
  another worker wrote it after this one did (`OfAnother`: between `services/city.py:648` and
  the search, or for the stops at any time since this worker loaded them), the answer
  lists that worker's rows, whole (`PublicationsDoNotMix`), but with the freshness and
  the times of the copy this worker read. In every other state a replaced layer owes
  all its rows like any other, and the proof carries for it, in call after call, that
  the store holds the rows of the copy that the cache has (`WroteWhatItKeeps`).

Layers fed by upsert keep rows their source has dropped; the model has
them, and no property denies it. Writes that reach no answer (the stops of a line,
the local catalogue) are left out. `ev_charging` stands for the layers read like it
(taxi stands, markets).

Proved (`ToolCallsProofs`), for every suite of queries, every mixture of rows on a page
and all bounds: `TypeCorrect` (`TypeOK`), `AnswersAreWhole` (`ListsAreWhole`), `LossIsTold`
(`WhatIsMissingIsTold`), `CountsAddUp` (`RowsAccounted`) and `OnePublication`
(`PublicationsDoNotMix`). The run meets the mixtures of `MCMixes` and at most two unusual
pages in two calls; the theorems every mixture, on every page, in any number of calls.
Assumed of the constants: a suite asks the tools what they take (`QueriesAreOfTools`: the
keys of `KeysOf`, the filters of `FiltersOf`, a limit that is a number), its bounds are
numbers (`BoundsAreNat`), rows are of the kinds of `SourcePages` (`MixesAreRows`), and the
unknown total is no number (`NoneIsNoCount`). The argument has three parts:

* *pages* (`AllUnderstood`, `FacilitiesUnderstood`): whatever a loader keeps was on a page of
  a form it can read, with every row that may concern a request; a case per reader;
* *answers* (`ToolAnswersAreRight`): one lemma per tool, of a state that is `Ready`. It needs
  what was read when nothing is due (`ReadAtOnce`, `ReadInOrder`, `ReadFirst`), which is where
  the order of the reads and the conditions of `Wanted` enter;
* *steps* (`Inductive`): `IInv` says what a call may rely on between two of its steps.
  `CopyOK`: a copy was understood when it was kept, and only sources that may serve an old
  one keep it past its period. `ReadOK`: so was what the call got. `WroteWhatItRead`: the store
  still has each row that the call wrote, whatever other workers wrote since, unless they
  replaced the layer. `WroteWhatItKeeps`: so it has the rows of each copy that the cache
  keeps of a replaced layer, which a call that finds the stops in the cache relies on, as
  it does not write them. `StoreOK`: a layer that is replaced is of one publication. `LookedUp`: a
  timetable was read only where the index lists its route. The answer that stands is
  `Right`. None of the properties is inductive without these: an answer is made from
  `got` and `store`, steps after they were filled. TLC found `IInv` to hold in every state of
  the run before it was proved.

## 9. Bounds, fairness, findings

Bounds are constants named in the modules and used in guards: `MaxClock`,
`MaxDay`, `MaxRestarts`, `MaxId`, `MaxChanges`, `Slots`, and the four of a suite. They are
chosen so that the case a property is about happens in the run, and each property has
a mutant, a plausible bug of the code under which the same run fails:

* cache: TTL 1, window 2 for one key and none for the other, room for one entry,
  two callers (a holder and a waiter; the findings have a third, that comes after a
  lock was dropped);
* timetable: two tables are needed to be torn, two snapshots to be mixed, two
  workers to overlap, three calls besides the warm-up for a load, a reader and the
  other worker's publication;
* guards: one slot, so that the second request is busy; buckets of one request; a
  daily limit of 1 and two days; two clients against `MaxClientsSetting` 1;
* outbound: capacity 2 at price 2, a wait of one tick shorter and a `Retry-After`
  of three ticks longer than what is bearable, two attempts; one host, where all kinds
  of calls meet (that a cooldown is the host's alone is proved for any number of hosts);
* captures: tables of up to three rows, pages of two and a budget of two, so that
  a page is full, short, last and beyond; two changes, so that one may undo the
  total of the other;
* ISKI: one fault, two loads in flight, freshness 1, retention 3, load times, TTL and
  window 1, a snapshot of age 2 captured at 1, four ticks: a copy outlives its
  freshness and its retention, an entry its TTL and its window, the snapshot its age;
  nothing configured, or relay and API;
* tools: two calls (one where the second could meet nothing new), one or two unusual
  pages in a behaviour, one period, one write of another worker where layers are
  replaced; limits of 1 and 2 against up to four rows that concern a request. A
  mixture of kinds is one of `MCMixes`, so each kind meets the others it is confused with.

Symmetry is used over interchangeable callers, requests, loads and keys, in runs without
liveness properties.

Deadlock is checked where something can always happen. It is switched off where
the bounded histories end: every request answered, every call made, the clock at
its bound.

Fairness is assumed in two runs. `source_cache`: a woken waiter runs, and
every load ends (its HTTP client has timeouts). `datastore_sql`: a request is
answered at some time (the load runs under `wait_for`), a query thread ends (SQLite is
interrupted at its deadline), and what is ready runs. Nothing is assumed of the
publisher, of failures or of cancellations. All other specifications are safety only:
a tool call is a fixed number of reads, each of which ends by `EveryCallEnds`.

Findings, each a violation run and a line of documentation or test it contradicts:

1. `source_cache_single_flight`: a failed load drops the lock others wait for, and
   two loads of one key run at once.
2. `source_cache_window`: the insert of one key evicts the stale fallbacks of all.
3. `gtfs_snapshot_refresh`: a publication that timed out goes on and replaces the
   snapshot the failed refresh fell back to.
4. `ingress_midnight`: a quota thread stamped before midnight passes after the new
   day deleted the count of the old one.
5. `datastore_sql_redelivery`: the shield of a query withstands one cancellation.

None of them breaks what is proved: `ImplementsCachedSource` holds with 1 and 2,
`ImplementsStore` with 3, `TodayHolds` with 4, `GateHolds` with 5. They say where a stronger promise in the documentation ends.

Met while modelling the tools, without a run of their own: each is a case of one
operator, which the model has as the code has it.

* `docs/tool-reference.md:339` calls markup failures of the ferries structured errors;
  a timetable whose direction cannot be told raises a `ValueError` out of the tool
  (`services/ferry.py:161`), here `Raised`.
* `docs/tool-reference.md:306` will not have an unreadable scope become "no disruptions";
  an envelope without a list from Metro Istanbul's status or from IETT is read as an
  empty list (`connectors/metro.py:82`, `connectors/iett.py:78`), here `Lenient`, and answered
  as fresh, without a warning.
* A replaced layer is searched after other workers may have replaced it again
  (`services/city.py:648`): their rows are answered with this worker's freshness and times.
  `docs/response-contract.md:52-53` keeps counts and the health of a source apart, but gives
  a reader no sign that the two are of different copies.
* `docs/response-contract.md:27` makes a rate limit temporary; Istanbulkart and social
  facilities answer `request_failed` (`services/istanbulkart.py:272`,
  `services/social_facilities.py:328`).
* The contract's `truncated: false` means that no limit left a record out; WiFi spots are
  the first 100, libraries the first 200 (`services/city.py:834`, `:847`), the Marmaray API
  one page of 100, the tables of a neighbourhood one page of 2000.
* A merge of social facilities warns that rows of one identity are preserved and drops
  the second (`connectors/social_facilities.py:537`).
* A mode filter hides metro notices whose line is unknown (`services/disruptions.py:323`);
  a mobility summary is `ok` when all its sections failed; the summary of skipped lifts counts
  malformed rows that the received total does not; some layers and datasets are stored
  after the `try` that was to guard them (`services/city.py:103`, `services/catalog.py:57`).

Left to TLC alone: the two liveness properties, `EveryCallEnds` and `NothingHangs`, which
need fairness and ENABLED, outside what the prover handles. Every other property of a
passing run is a theorem.

## 10. Not modelled

* *Words of an answer and the parsing of one page* (HTML, XLSX, SOAP and CSV, text
  normalisation, ranking, geometry, known places): deterministic functions of one input, which
  the repository's tests cover. What a parser keeps, drops and refuses is modelled.
* *SQL authorization* (`storage/guarded_sql.py`): it is sqlglot's parse tree and
  SQLite's authorizer on a private in-memory database.
* *IBB relay*, both ends: forwards one request and keeps nothing. Its failures are
  those of `SourceAccess`, its pages those of `SourcePages`; that its headers map to the
  right exceptions is a table that tests cover.
* *Telemetry*: counters under one lock that the status page shows; no answer depends on them.
* *Watchdog*: whether it ends a healthy process depends on how threads are scheduled, of
  which nothing in the code gives a bound.
* *MCP surface, settings, CORS, logging, status page*: declarations and values
  read once; no state of theirs outlives a request.
* *Catalogue store*: written by two tools, read by none (`search_local` has no
  caller), so its contents cannot reach an answer.
* *Scripts*: probes of a deployed server.

## 11. Order of the work, and what is open

SourceCache (everything rests on it) with CachedSource, GtfsSnapshot with ScheduleStore, Ingress with
ClientRateLimiter and DailyQuota, SourceAccess, DatastoreCapture with DatastoreSql,
IskiSources, then the tools: pages and envelope first, then a module per group of
services, composed in ToolCalls; each with its run, its mutants and its proofs.

Open, most useful first:

1. a store of whole layers that CityTools refines where layers are replaced, proved;
2. stop search and the choice between file and DataStore for the stops.
