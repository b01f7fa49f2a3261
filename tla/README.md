# prometheus-postgres-adapter: specifications, model checking and proofs

TLA+ specifications of the adapter, written from its source: what they model,
what TLC checks on small instances, and what TLAPS proves for all of them.
Paths are those of the repository; `metricwriter` is
`pkg/infrastructure/metricwriter/postgresql.go`.

## The system

The adapter takes Prometheus remote writes, stores them in two PostgreSQL
tables and serves them back over Prometheus remote read and the Thanos StoreAPI.

| Component | State | Operations | What is hard | What must be right |
|---|---|---|---|---|
| **Ingestion pipeline**: write handler, push use case, `messagequeue.Chan`, `metricwriter` | blocked handlers; `syncMap`, `nextMetricID`; `labelRows`, `valuesRows`; each goroutine's batch or copies; the two tables | `Push`/`Pop`, parse a batch, allocate an id, save, report an error, start, stop | slices shared without a lock, double-checked allocation, statements that fail or only seem to, retries, restarts | one id per series for ever; every row under the id of its own series; answered writes get stored; nobody blocks for ever |
| **Process lifecycle**: `cmd/main.go`, wiring in `infrastructure/di`, `config` | signal context, stage of `main` and `serve`, the two servers, requests in progress | configure, wire, listen; signal, server failure, gRPC drain, HTTP drain, exit | a signal at any stage; requests that arrive or block during the drains; calls that wait for the database | exit code 0 means nothing was cut; a signal or a failed server ends the process |
| **Query builder**: `querybuilder/sql.go` | none | matchers and bounds to SQL | anchoring, missing labels, empty values, extreme bounds | SQL selects what PromQL selects |
| **Remote read**: `read_prometheus_samples.go` and its handler | the map of series gathered over the queries | one statement per query, merge, respond | several statements over moving tables; the map | the answer is what was asked for |
| **StoreAPI server**: `presentation/storeapi` | per call: request, built series, series sent | `Info`, `Series`, `LabelNames`, `LabelValues` | concurrent calls over moving tables; external labels that exist in no table; ordering and chunking | streams sound, complete and sorted; metadata agrees with series |
| **Database client**: `presentation/database`, health check | connection pool; transaction of a COPY; rows being collected | one method per statement, `CopyRows`, `Exec`, `CheckHealth` | every step may fail or be interrupted; a commit whose answer is lost; few connections for all | each method is one statement; it returns, and keeps no connection |
| **Timestamps**: in `metricwriter`, `read_prometheus_samples.go`, `storeapi` | none | milliseconds to an instant and back | int64 overflow, times before 1970, two ways of rounding | what was written is what is read |
| **Domain labels**: `domain/model.go` | none | `Scan`, `Key` | a key is one string made of many | equal keys, equal label sets |
| Interceptors, values of the configuration | none after start-up | | | not modelled, see the end |

How they meet: handlers hand batches to parsers through an unbuffered channel;
parsers and savers share two slices; savers write the two tables, which the read
paths query one statement at a time; the signal context ends parsers and savers
while the servers are still draining. Start-up, savers, reads, health checks and
gRPC calls share the one pool of connections, and the shutdown waits for those of
them that are requests.

## Modules

| Module | Models | Proofs |
|---|---|---|
| `MetricWriter` | the ingestion pipeline and the lives of its process | `MetricWriterProofs` |
| `Tables` | what readers may rely on of the two tables (abstract) | refined by `MetricWriter` |
| `Delivery` | what a client may conclude from an answered write (abstract) | refined by `MetricWriter`: `DeliveryProofs` |
| `Timestamps` | the conversions of timestamps (pure) | in `SelectionProofs` |
| `Selection` | query builder, SELECT statements, and PromQL matching beside them (pure) | `SelectionProofs` |
| `SampleLabels` | the bytes of a row's key (pure) | in `RemoteReadProofs` |
| `StoreAPI` | the StoreAPI server over `Tables`, with `Selection` | `StoreAPIProofs` |
| `RemoteRead` | a remote-read request over `Tables`, with `Selection` and `SampleLabels` | `RemoteReadProofs` |
| `Lifecycle` | `main` and `serve` | `LifecycleProofs` |
| `Statements` | the database as the callers of the client see it (abstract) | refined by `DatabaseClient` |
| `DatabaseClient` | the client, its pool and its transactions | `DatabaseProofs` |
| `Server` | `Lifecycle` composed with `DatabaseClient` | `ServerProofs` |
| `MCMetricWriter`, `MCStoreAPI`, `MCRemoteRead`, `MCSeries`, `MCServer` | instances for TLC | |

`MetricWriter` implements `Tables` and `Delivery` (`ImplementsTables`,
`ImplementsDelivery`), `DatabaseClient` implements `Statements`
(`ImplementsStatements`), all three checked and proved. `Statements` is what
`MetricWriter`, `StoreAPI` and `RemoteRead` take a statement for. `StoreAPI` and
`RemoteRead` take their environment from `Tables`
(`Ingestion == INSTANCE Tables`), so that what holds there holds on top of every
behaviour of the pipeline, crashes and lost rows included. An operator whose
comment starts with "Mutant" is a plausible mistake in the operator after it: no
specification uses one, and each property has one that breaks it.

### MetricWriter

A metric is its canonical string (`transformToMetricString`), the key of
`syncMap`; a sample is a metric and a token for its timestamp and value. A value
row keeps the sample it was made from beside its id, so that properties can tell
whose row it is; the code stores the id only.

| Action | Code |
|---|---|
| `Start` | `NewPostgreSQL`, `registerExistingMetrics`, `Run` |
| `Send` | a handler that reaches `Push` (a new POST or a client's retry) |
| `ParserTick`, `ParserExit`, `Pop` | the `select`, then the blocking receive |
| `Resolve`, `AllocateID` | the two looks at `syncMap`, the second under the mutex |
| `UnmarshalBare`, `UnmarshalError` | `metricString[index:]` with index -1; a JSON error, reported |
| `LoadLabelRows`/`StoreLabelRows`, `LoadValuesRows`/`StoreValuesRows` | the two halves of an `append` |
| `SaverTick`, `SaverExit` | the saver's `select`; closing `ErrorChan` |
| `CopyLabelRows`, `CopyValuesRows`, `InsertLabel`, `CopyRows` | `save`, statement by statement |
| `ResetLabelRows`, `ResetValuesRows`, `ReportSave` | its deferred reset; the error report |
| `TornSlice` | a data race on a slice header that leaves pointer and length of different slices |
| `Cancel`, `Exit`, `Crash` | signal; `main` returning; the process killed |

Abstractions. A slice is its value: an append writes back what it read, longer,
so the last header stored wins, which covers lost and repeated rows; a torn
header is the process ending in `TornSlice`. The split between `len` and `copy` in
`save` adds blank rows only with two savers, where a lost label row and an empty
copy stand for them. A statement is atomic; under the fault `database` it may
fail, and have taken effect all the same; under a cancelled context it fails
without effect. The queue is first-in first-out, as Go's channel is. A client
retries when its own timeout expires, which the adapter does not notice. `Exit`
may come at any time after `Cancel`; how `main` gets there is `Lifecycle`'s subject.
A failing `registerExistingMetrics` is a `Start` not taken. `Statements` lets a
write whose caller was told of an error take effect later; here it does so before
the next life reads the tables, or never. One replica, as
DESIGN.md demands.

`Delivery` sees a sample as held from the answer to its request until it is
stored or lost. `Held` is its counterpart here: the shared slices, the batches and
rows of the parsers, the copies of the savers. `Blocked` requests wait.
`LossExplained` goes further than `Delivery`: it names the places in the code where
a running process loses a held sample.

### Timestamps, Selection, SampleLabels, StoreAPI, RemoteRead

Milliseconds and nanoseconds are integers; what the code keeps in an int64 is
wrapped to `Word` values, and a `time.Time` or `timestamptz` is its exact count of
nanoseconds. `MetricTime` is the write path, `ReadMilliseconds` and `UnixMilli` the
two ways back; `TimestampLiteral` is the bound in a query, which is clamped but
does not wrap. `Selection`, and with it both read paths, are written with these.

Strings are natural numbers in byte order, 0 the empty one (and, as a label
name, `__name__`). A regular expression is the alternation of literals it offers:
enough to tell where it is anchored, but not where RE2, in which Prometheus writes
them, and PostgreSQL read a pattern differently, as DESIGN.md says they do; where a
property or a theorem says "in the PromQL sense", it is with that limit. How strings contain each other is given by
three constants. Values reach PostgreSQL as they were, escaping and JSON encoding
being inverse to its parser for valid UTF-8. `Matches`, `ValueIn`,
`Satisfies` say what PromQL says, next to `LabelCondition`, `BuildSQLQuery` and
`ConditionHolds`, which say what the builder writes and PostgreSQL makes of it.
The builder joins its conditions with `AND`, so a list of matchers is a set here;
only `promMatchers`, which stops at the first matcher that decides, sees it as a
list. `Joined` is the join of the two tables, a row being a pair of a label row and
the place of a value row, so that equal rows stay apart; `Listings` puts the rows in
any order and `QueryDatabaseSamples` keeps the listings in the order of time.

`Key` of `SampleLabels` is the string that `SampleLabels.Key` makes of a row: the
name, and each label name and value in the order of the names, with a byte between
them that `Bytes`, the UTF-8 of each string, does not have. `RemoteRead` gathers
rows under these very bytes. `StoreAPI` takes the name and labels themselves,
since no two series share a key (`KeysTellSeriesApart`).

`StoreAPI`: each call takes `Receive`, then `Refuse`, `AnswerNothing`, `QueryFails`
or its own statement; `SeriesQuery` reads and builds, `SendSeries` streams one
series while `Register` and `Store` move the tables. `Group` is the map that
`groupRowsIntoSeries` makes of the rows, `SortedTimes` the samples of a group in
order, `EncodeXORChunks` their chunks. Sorting is an order that `CHOOSE` takes, or,
for series of equal label sets, which `sort.Slice` leaves open, any. Labels are
strings and none of the external ones is `__name__`.

`RemoteRead`: `Query` is the statement of one query and `Merge` one round of the
loop over its rows (`AddRow`, under the `RowKey`); the tables may move between two rounds, and a query
starts when the rows of the one before are merged. `BadBody`, `BuildError` and
`QueryError` end the request, `Respond` answers.

### Lifecycle, DatabaseClient, Server

`Lifecycle`. `main` goes through its stages `config`, `wiring`, `listen`, `serving`,
`drainingGRPC`, `drainingHTTP`, and each has its ways to `exited`: `ConfigFails`,
`WiringFails`, `ListenFails`, `ServerError`, `HTTPDrained`, `ShutdownTimeout`, and
`GoroutinePanics` for what `MetricWriter` finds. `ServerStarts` and `ServerStops` are
the two goroutines of `serve`; they are not waited for, so a drain may come first.
`PostWrite`, `StartRead`, `EndRead`, `StartCall`, `EndCall` are the requests; a health
check is a read. `ParserTick`, `ParserExit`, `ParserPop` are what a blocked write
depends on; `ParserPop` takes any blocked write. The ten seconds of `Shutdown` are a
thousand ticks of every parser, so `TimeLimit` lets it run out only when no write
is blocked or all parsers are gone.

`DatabaseClient`. `Acquire` and `AcquireFails` are the pool (`Begin` included);
`Query`, `QueryFails`, `Collect` the methods that read; `Exec` and `ExecFails` those of
one statement; `CopyFrom`, `CopyFromFails`, `Commit`, `CommitFails`, `Counted` and the
deferred `Rollback` are `CopyRows`. `Interrupt` ends the context of calls;
`Disconnect` breaks all connections at once. A write that broke off is `inDoubt`,
and `ServerCommits` is the server completing it. The count that `CopyFrom` returns is
always that of the rows: without triggers PostgreSQL copies all or fails.

`Server` makes each request of `Lifecycle` that reads one call of `DatabaseClient`,
wiring a query, and adds the calls of savers (`Save`). The end of the process is a
`Disconnect`; the signal interrupts the savers and the start-up, and no request. A
gRPC call that is refused before it makes a statement is not in it, nor the second
and later queries of a remote read.

## Runs

Every passing run is exhaustive. Deadlock is not checked in any of them: clients
stop sending, calls end, processes exit, and then nothing is left to do.

| Run | Instance | Shows |
|---|---|---|
| `pipeline` | 1 parser, 1 saver, 2 requests of one series each, 2 POSTs each, 3 lives, all faults | `IdsUnique`, `RegistryAgrees`, `LabelsBeforeValues`, `AttributedWhenStored`, that the tables see only what `Tables` allows and a client only what `Delivery` does, and that samples get lost nowhere but at the places of `LossExplained` |
| `two_each` | 2 parsers, 2 savers, 2 requests that bring the same 2 new series in opposite orders, one of them unparsable; failures, shutdown, 2 lives | types; the allocation gives one id per series, which registry and table agree on (`RegistryAgrees`); no race attaches a row to another series (`RowsAttributed`, `AttributedWhenStored`) or opens another way to lose one (`LossExplained`) |
| `goroutines_live` | 1 parser, 1 saver, 2 POSTs of each request, an unparsable and a bare metric, failing statements, shutdown, 2 lives, fairness | every blocked `Push` returns and what is held gets stored or lost (`HeldSettles`) until the context is cancelled; then the error channel gets closed, or the process is gone |
| `store_series` | 1 call of any of 10 shapes, 4 series, 3 value rows, chunks of 2, integers of 32 values | `SeriesSound`, `SeriesComplete`, `StreamSorted` |
| `store_metadata` | 2 calls of any of 21 kinds (symmetric), 3 series, 2 value rows, one time before 1970 | types, `NoDeadEntry`, `NamesCoverSeries`, `ValuesCoverSeries`, `InfoCoversData` |
| `remote_read` | 1 or 2 queries of 10 shapes, 3 series, 3 value rows | types, with each TimeSeries under the key of its labels; `OnlyWhatWasAsked`, `InTimeOrder`, `OnlyFirstMissing` |
| `server` | start-up, 1 parser, 1 write, 1 health check, 1 gRPC call and 1 save of 2 rows on 1 connection, fairness | `CleanExit`, `CallsCutOnlyByFailure`, `NothingLeaks`, `ImplementsStatements`, `CallsReturn`, `SignalEndsProcess`, `FailedServerEndsProcess`, and that the whole implements `Lifecycle` with its fairness |

Why the bounds are enough: an id can be confused between two series only, and
with one restart between them or two goroutines allocating at once; three lives
allow a restart after a restart. Two batches are what it takes for one to race
with the save of the other. Value rows are one more than a chunk of two, so there
is a full chunk, a last short one and a boundary. The unparsable metric is
in `two_each` and `goroutines_live`; in `pipeline`, where it would multiply the lives
of the process, it is left to the proofs (`RegistryAlwaysAgrees`,
`PipelineImplementsTables`). The series of
`MCSeries` differ from each other in each thing a matcher can ask about (prefix,
suffix, missing, empty, overridden by an external label, no name), and two of them
(`glued` and `usNode`) have keys that only the separators tell apart. Time is scaled
down: an int64 has 32 values, a millisecond 6 nanoseconds, a second 2
milliseconds, so that times before 1970, times that overflow and bounds that are
clamped are all among the few that occur. In `server` one connection is the
smallest pool, on which each call has to wait for each other one.

Runs that TLC refutes, each against sentences of the repository:

| Run | The repository says | The code does |
|---|---|---|
| `accepted_lost` | one parser and one writer "are the safe configuration" (DESIGN.md) | `save` resets the slices after its statements and drops what was appended meanwhile |
| `id_reused` | ids are "stable and unique across restarts" (DESIGN.md) | values stored without their label row pass to the series that gets their id after a restart |
| `error_chan_owner` | "the saver owns the channel and closes it" (DESIGN.md), "Writer owns Parser" (comment) | a parser still at work sends on the closed channel; with several savers each closes it |
| `empty_series` | "Append the sample to the timeserie" (comment) | the first row of each series is appended to another one |
| `shutdown_fails` | both servers "are stopped gracefully" (DESIGN.md) | a write accepted after the parsers have gone makes `Shutdown` time out |

Where the code does less than one would expect, and no sentence is refuted by a
run of its own, the models have it and the properties say so:

- A metric with a name and no label has no `{`: `UnmarshalBare` ends the process.
  (A test of `transformToMetricString` expects the bare string.)
- Rows are not deduplicated: a retried request, or a row that a racing append puts
  back, is stored twice. `SeriesComplete` and `OnlyFirstMissing` count each.
- Rows are grouped by their stored labels, so series that differ in an external
  label only are streamed as several series of one label set (`SeriesSound`).
- `MinSampleTimestamp` takes a minimum before 1970 for an empty table; the first
  disjunct of `InfoCoversData` excepts it.
- `LabelNames` offers `__name__` also where the selected series have no name; the
  second disjunct of `NoDeadEntry` excepts it.
- The read bug of `empty_series` loses exactly one sample per series and request:
  `OnlyFirstMissing` says that nothing else is lost.

### Fairness

A goroutine that can run does (weak fairness of each goroutine's steps). A
`select` whose two cases stay ready picks either at random, so it takes the
cancelled context sooner or later though ticks keep coming (strong fairness of
`ParserExit`, `SaverExit`). Nothing is assumed of clients, faults or signals. In
`Lifecycle`, that wiring and each gRPC call end is an assumption. `Server` reduces
it to two: the database answers a statement, well or badly, or the connection
breaks (weak fairness of `Proceed`), and the client of a gRPC call takes its answer
(`ServerEndCall`). The code sets neither a deadline and `GracefulStop` has none, so
without them `SignalEndsProcess` is false. Nothing is assumed of reads, as
`Shutdown` has a deadline.

What leads to something that then stays is written with `[]<>`: a cancelled context
stays cancelled, a failed server failed and an exited process exited, and a call is
made once, so that `[]<>(cancelled => exited)` says the same as `cancelled ~> exited`
and is cheaper to check.

## Proofs

All constants are arbitrary within the named assumptions.

**`MetricWriterProofs`** (from `ConstantsAssumption`). The type invariant needs
`BatchInHand`: a parser past the look-up has a sample at hand. The inductive
invariant is

    IInv == TypeInv /\ Idle /\ IdInv /\ IDPending /\ RowsAttributed /\ SaveInv

None of the properties is inductive alone. `RegistryAgrees` is kept by an INSERT
only if the row at hand carries its metric's id (`RowsAttributed`) and if no other
metric has that id (`IdsUnique`); `RowsAttributed` is kept by `StoreLabelRows` only
if the id allocated some steps ago still is the metric's (`IDPending`); a restart
keeps `RowsAttributed` only because nothing of the former life is left (`Idle`),
and `IdsUnique` because the counter is seeded above the table's ids. From `IInv`
follow the theorems `IdsAreUnique`, `RegistryAlwaysAgrees`, `RowsAlwaysAttributed`,
`LabelsComeFirst`, the action property `ValuesAlwaysAttributed`, and
`PipelineImplementsTables`: only an INSERT and a COPY change the tables
(`OnlySavesStore`); with `IInv` the first adds one row of new id and new metric
(`InsertRegisters`) and the second rows of no other registered series
(`CopyStores`). So the races lose and repeat rows and can end the process, for
any number of goroutines, but never attach a value to another live series.

**`SelectionProofs`** (from `TimestampsAssumption`, so for 64 bits as for 5, and
`SelectionAssumption`: labels are strings, `__name__` is no stored label, no two
metrics name the same series, and the years that RFC 3339 can write contain all that
int64 nanoseconds can say). Timestamps first. `StoredUnchanged`: a time whose nanoseconds
fit an int64, from 1677 to 2262, is stored as it was, on either side of 1970
(`ToTimestampExact`). `ReadPathsAgree`: for every time, also one that has wrapped,
both read paths answer the same, since what is stored is a whole number of
milliseconds within range (`MetricTimeIsMilliseconds`). `RoundTrip` follows. Then
matchers: `AnchoredFinds`, `ColumnIsValue` and `EqualityIsExact` give
`ConditionIsExact`, one condition per matcher, and `PredicateIsExact`. With
`BoundsAreExact`, which says that clamping a bound neither admits nor excludes an
instant a row can have, `QueryIsExact`: the SQL query joins exactly the rows of the
series that satisfy the matchers in the PromQL sense and that are read at a time
asked for, whatever time they were written for. `ListingOfJoined` says that a
listing has each joined row once.

**`RemoteReadProofs`** (from `RemoteReadAssumption`, `SampleLabelsAssumption` and the
above: integers for times and bounds, registrations of known metrics, the bytes of
a string are its own and without the separator, a series has finitely many labels;
any number of queries). Keys first. A key is read from its end: what stands after
the last separator has none, so two equal texts have it at the same place
(`SplitAtSeparator`). A key grows by a name and a value at a time (`KeyGrows`), a key
that is only a name is never one with a pair (`NameIsNoPair`), and so, pair by pair
down to the name (`SameSoFar`), two series with one key are one:
`KeysTellSeriesApart`. `TypeInv` is `TypeOK` and a finite `metric_labels`; it has each
TimeSeries under the key of its labels, so there is one per label set, over all
queries of a request. The rows a query has returned and the loop has not merged are
the state that the properties are silent about, so each invariant is strengthened
by what holds of them: `RowsWereAsked`, that they are stored and asked for
(`AnswersWereAsked`); `InOrder`, that they are in order and after every sample merged
(`AnswersInTimeOrder`). For the action property, `Returned` counts rows that wait
with the samples made of others and the one that made the series. A query adds the
joined rows of each label set, which are those stored and asked for, and displaced
ones (`QueryReturnsAll`, counted through the bijection between the rows of a listing
and the pairs joined); a merge adds nothing, since it takes a row and makes a sample,
or a series (`MergeKeepsCount`). Hence `AllButFirst`: the first row of a series is the
only one that an answer misses, for any tables and however many queries.

**`StoreAPIProofs`** (from `StoreAPIAssumption`: times are integers below the largest,
chunks have a positive size, external labels are strings other than `__name__`; any
number of calls). `TypeInv` adds to `TypeOK` a finite `metric_labels` and that a call
before its statement has built nothing (`Quiet`). `AnswerInv` says of every call
what its series have to do with its request (`Answer`): they are in the order of
their label sets; each is that of another row of `metric_labels`, which is an
injection `source` into the table; each satisfies the matchers as the client wrote
them, keeps the time range and is well chunked. The injection is what makes it
inductive, and gives the count in `SeriesSound`. `MatchersSplit` is where external
labels come in: matchers on them are decided beforehand, the others are asked of
the stored labels, and together that is the request asked of what the client sees.
`SeriesBuilt` and `ChunksOf` say what building and chunking make of the rows, and
`SortedExists` (in `SelectionProofs`), by a smallest set that cannot be sorted, that what `SortedTimes`
chooses exists. From `AnswerInv`, `StreamsAreSound` and `StreamsAreSorted`, and, since
a registered series stays registered (`BuiltAreSelected`), `NamesAreComplete` and
`ValuesAreComplete`. `DeadEntryInv` is `TypeInv` with `NoDeadEntry` and gives
`NamesAreAlive`: what resolved once goes on resolving (`ValuesGrow`). `InfoIsSafe`
needs `TypeInv` only. `StreamsAreComplete` is the longest: the places in the chunks of a
series and the rows of its group are in bijection (`ChunksKeepSamples`,
`SeriesKeepRows`), so are the rows and the joined pairs, hence the samples streamed at
a time under a label set and the stored samples read at that time
(`StreamHoldsStored`); those are the ones written for it, as often as they are
stored, and displaced ones (`ReadFromStored`).

**`DeliveryProofs`** (from `ConstantsAssumption`). The invariant is `TypeInv` with
`BatchDone` and `ViewDone`, which say that a parser between two batches and between
two appends holds nothing, and `SavedIsStored`: a save past its COPY without error has its copy
in the table. With it each step of the pipeline is shown to take what it drops
from `Held` to the table or to one of the three named losses (`LossIsExplained`),
and to be a step of `Delivery` or a stutter (`PipelineImplementsDelivery`), the
races on the slices included. `OnlyAnsweredIsStored` is then an invariant of
`Delivery` alone.

**`LifecycleProofs`**. `StageInv` says what each stage of the way up and down has
behind it; with it `CleanExit` is inductive, and a gRPC call is cut only by a
server that failed or a panic.

**`DatabaseProofs`** (from `DatabaseAssumption`). `CallInv` says what a call has at
each of its steps. From it follow the limit of the pool, `NothingEverLeaks`, and
`ClientImplementsStatements`: `Query` is where a query sees the table, `Commit` or
`ServerCommits` where a COPY takes effect, and a returned error undoes nothing and
promises nothing.

**`ServerProofs`** (from both assumptions). Each step of the whole is a step or a
stutter of each part (`ServerImplementsParts`), so what is proved of the parts holds
of the whole.

So every invariant and action property of the passing runs has a theorem. Only
model-checked are the liveness properties (`PushReturns`, `HeldSettles`, `SaverStops`,
`SignalEndsProcess`, `FailedServerEndsProcess`, `CallsReturn`) and the fairness in
`ImplementsLifecycle`, since they need fairness and ENABLED, which the provers do not
reach; the steps of `Lifecycle` in `ImplementsLifecycle` are proved
(`ServerImplementsParts`). The models of the proofs and of the runs are the same; no
definition is replaced for either.

## Not modelled

- The memoised constructors of `infrastructure/di`, which one goroutine runs once
  before anything else; the interceptors, which log what they pass on.
- The values and the printing of the configuration; log levels.
- Status codes and texts of the health check; wire formats, snappy, XOR encoding
  of a chunk's bytes; `Scan`, which undoes what the pipeline encoded.
- Regular expressions beyond alternations of literals.
- Several replicas, which DESIGN.md rules out.
- A statement of a dead process that takes effect after its successor has read
  `metric_labels`.

## Plan

Done, in the order of importance: `MetricWriter` and its proofs; `Tables` and the
refinement; `Selection`, `StoreAPI`, `RemoteRead`, `SampleLabels`; `Lifecycle`; `Timestamps`;
`Delivery`; `Statements`, `DatabaseClient` and `Server`; the proofs of all of them,
those of `RemoteRead` and `StoreAPI` last.

Next:

1. Statements of a former life that arrive late, in `MetricWriter`: what an id
   then still means, and whether `Tables` still promises its readers enough.
2. A theorem that composes: the read paths on top of `MetricWriter` instead of
   `Tables`, through `PipelineImplementsTables`.
3. Proofs in fewer steps where lemmas about sorting and counting can be shared by
   `RemoteReadProofs` and `StoreAPIProofs`.
