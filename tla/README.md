# MobilityAPI in TLA+

A TLA+ verification of the MobilityAPI server (`src/`, Go): an OGC API – Moving Features
service over MobilityDB, with a streaming tier of continuous queries. The modules are
translated from the source; TLC checks them on small instances, and TLAPS proves every safety
property that the runs check, and both refinements, for all instances.

Run, in this directory:

    tlc -config MCFanout.cfg MCFanout        # any MC module with its .cfg
    tlapm Fanout_proofs.tla                  # any module whose name ends in _proofs

Contents: [1 inventory](#1-the-system), [2 modules](#2-the-modules),
[3 runs](#3-what-is-model-checked), [4 fairness](#4-fairness), [5 proofs](#5-what-is-proved),
[6 assumptions and omissions](#6-assumptions-and-what-is-left-out),
[7 divergences found](#7-where-the-code-and-its-documentation-disagree), [8 plan](#8-the-plan).

## 1 The system

One Go process serves HTTP. Every request is a goroutine; the state is in a PostgreSQL
database (MobilityDB) behind the `Backend` seam, except that of the streaming tier, which is
in memory and lost with the process.

| Component | State | Operations | Interacts with |
|---|---|---|---|
| **Query fan-out**, `contQuery` (`stream.go:264-338`) | `events` (a channel), `subs`, `stopped`, under `cq.mu` | `pump`, `subscribe`, `unsubscribe`, `stop`, `status` | receives what an engine's handle or a replay goroutine sends; `streamQuery` handlers receive what it copies |
| **Query registry**, `streamRegistry` (`stream.go:347-405`) | `queries`, `nextID`, under `r.mu` | `register`, `submit`, `get`, `remove`, `list` | the POST, GET, DELETE and stream handlers |
| **Live hub**, `liveHub` (`stream_live.go`) | `subs`: inboxes per property, under `h.mu` | `subscribe` (with its closer goroutine), `publish` | `POST .../ingest`, MQTT messages (`stream_mqtt.go`); engines receive from the inboxes |
| **Replay sources** (`replaySource`, `geometryEvents`) | the instants loaded, an index, a ticker | send the next instant, notice the context | an engine, or the pump of a geometry query |
| **In-process engine** (`stream_engine_meos.go`) | `results`, `status`, the open window or buffer | receive, transform or window, `emit`, close | MEOS, through cgo, pinned to its thread |
| **Bridge engines** (`stream_engine_bridge.go`) | `ts`, `results`, `status`, two pipes, a subprocess | `Submit`, feeder, reader | the Flink or Kafka Streams job |
| **Feature and property store** (`main.go`) | tables: one per collection, `mf_tproperty` with a column for each type a property may have | POST/PUT/DELETE of collections, items, properties, member values; reads of one property, of a geometry's members | each is one or several SQL statements, some in a transaction |
| **Bulk ingest** (`bulk.go`) | the same tables, and connections of the pool | `bulkIngest`/`appendBatch`: one transaction per batch | other batches, `deleteItem`, for locks and for connections |
| **Paging and export** (`main.go:537-672`, `1431-1586`) | none: the cursor is in the client's link | `streamItems`, `export`, `streamParquet` | a client that follows links while others write |
| **Read-only endpoints** (`timeseries.go`, `trajectories.go`, parts of `main.go`) | none | one query, folded into an answer row by row | the database |
| **Backends, dialects** (`backend*.go`, `dialect_spark.go`) | a connection pool | the `Backend` interface over three engines | the drivers |
| **Catalog, generator, samples** | none at run time | | |

What makes the system hard:

- *Goroutines that block on one another.* A query has up to five: source, closer, worker,
  pump, one handler per reader. A cancelled context must reach each, wherever it is blocked;
  every channel must have one closer, once, and nobody may send after.
- *Bounded buffers that drop.* A slow reader's channel and a full inbox drop; nothing else may.
- *A subprocess behind pipes*, whose answers carry no timestamp and share stdout with its log.
- *Handlers made of several statements*, interleaved with other handlers: what one statement
  read may be gone when the next one runs, a transaction may meet another's lock, a later
  statement may fail after an earlier one committed, a COMMIT may be done and its answer lost.
- *A pool of connections* that transactions hold while they wait for locks that those who wait
  for a connection may hold.
- *Types named in several ways*: a token of a request, the token a row keeps and the column that
  has the values go through maps that are not each other's inverses.
- *Times out of order*, unreadable or before 1970, in a window operator that leans on them.
- *Readers that page* through a collection that changes between the pages.

What makes each component correct is the list of properties of section 3.
`PROJECT.json` lists the hazards one by one at their lines, each with the properties that cover
it or the reason none does.

## 2 The modules

    LossyBroadcast            what the fan-out promises a reader
       ^ refines (checked and proved)
    Fanout                    pump, subscribers, SSE handlers
       ^ extended by, and refined (checked and proved)
    StreamTier                + registry, POST, DELETE, sources, live hub, engine worker
    Windows                   what the engine worker computes between receive and emit
    BridgeEngine              the other engine: feeder, job, reader
    FleetViews                how timeseries and trajectories scan a statement's rows
    PropertyTypes             the types of properties: tokens, aliases, columns
       ^ extended by
    FeatureStore              handlers of several statements, interleaved
    BulkIngest                batches, with row locks, deadlocks and a pool of connections
    Paging                    next links and exports against writers

| Module | Models | How state and actions correspond to the code |
|---|---|---|
| `LossyBroadcast` | an abstract specification | a topic sends 1, 2, 3, ...; each member receives it, unless its backlog is full; a topic finishes once, and its members' streams close with it |
| `Fanout` | `contQuery`, `streamQuery` | an event is its number. A critical section of `cq.mu` is one action (`PumpFan` is lines 281-288); a channel operation outside it is an action of its own. A handler that writes to its client, an event or a keep-alive, is in the state `writing` until the connection has taken it (`Written`): there is no `WriteTimeout`, so a client that reads nothing keeps it there. `closes` counts closes, so that a second one is a state and not a crash. `since` and `dropped` are history |
| `StreamTier` | `postQuery`, `postGeometryQuery`, `deleteQuery`, `register`, `submit`, `liveHub`, replay goroutines, the worker of `meosHandle` | a value of `Query` is one POST and all that is made for it. POST is five steps, because the source, the worker and the closer run before the query is registered, and the pump starts after; DELETE is `get`, `stop`, `remove`. Records carry nothing: whether the worker emits, stays silent or fails on one is its choice |
| `Windows` | `runAggregate`, `runHopping` | a record is a time and whether `instantUnix` reads it; a window is the set of the numbers of its records. Go's `%` is `Rem`, with the sign of the dividend. The inner loop of `runHopping` is an action per turn |
| `BridgeEngine` | `bridgeEngine.Submit`, feeder, reader, the job | record n has time n and answer n; a log line is 0. Each `select` is the disjunction of its ready cases |
| `PropertyTypes` | `tPropTypes`, `tPropTokens`, `scalarTemporalTypes`, the catalog's table | a catalog of one type per reason a type is or is not carried; a column is named by the type it holds |
| `FeatureStore` | the handlers of `main.go` that write, and those that read a row in several statements (`getTProperty`, `tgSequence`, `tgSequenceQuery`) | each SQL statement is an action, each handler a sequence of them in `pc`; `store` says whether `mf_tproperty` has been created: a statement waits for its lock only if it has (`Unlocked`), a purge is then left out. A row is who made it, its type token and the set of its member values, each a column and a time; what is served of them is in the order of time (`InOrder`), the n-th of them `SequenceN`; a temporal geometry is the row named `Trip`. `since` is history: what befell the row after a request read it, a removal or replacement, an append, or the failure of one of the request's own statements |
| `BulkIngest` | `bulkIngest`, `appendBatch`, `deleteItem` | taking a connection, UPDATE, INSERT and COMMIT are actions; `lock` and `draft` are row versions and locks; a cycle of waiting transactions has a victim; a batch without a connection, and a DELETE that holds one while it waits for a row, are states of their own. `unknown` is history: a COMMIT was done and its answer lost; `deleted` keeps what a DELETE took |
| `FleetViews` | `parseFloatSeries`, `timeseries`; `parseTripSegments`, `trajectories` | `rows` is what the statement answers (`Query`); a turn of the loops over rows, members and entries is an action, `at` the place they are at. An entry is its place, a time and whether it can be parsed; an average is what it is of and by how many it is divided |
| `Paging` | `itemFilters`, `streamItems`, `export`, `streamParquet` | a page is one statement, whose rows are those of the moment it runs: what `ORDER BY` and `LIMIT` promise of them is `IsPage`; the handler scans one row per action; the client follows `next` |

`MC*` modules hold the constants of the runs (`MCWindows` also the choice between a window and
a view, which share nothing), `*_proofs` the proofs. Definitions marked
*Mutant* are wrong variants of the one below them; no specification uses them. Replacing the
original by the mutant makes the property that `PROJECT.json` pairs with it fail.

## 3 What is model-checked

| Run | Instance and bounds | What it shows |
|---|---|---|
| `fanout` | one query, two readers; `events` of 2, subscriber channels of 1, 3 events | `ChannelDiscipline` (no double close, no send after close), `InOrder`, `NoSilentLoss`, `ReaderIsServed`, `EveryReaderReturns` (of a handler whose own client reads on or leaves, whatever the other client does), and `Fanout` refines `LossyBroadcast` |
| `tier` | one query of any kind, two DELETEs, one reader, publishers; inbox of 2, the other channels of 1, 2 events | `StopsForAReason`, `NoOrphan` (nobody is left with a context that no one can cancel), `HubSendsOnOpen`, `CancelEndsQuery` (every goroutine, wherever it is blocked), `FailureReachesReaders` (the reader's client reading on or leaving), and `StreamTier` refines `Fanout` |
| `bridge` | 4 records, time queue and pipes of 2, results of 1 | `Paired` (value n under time n), `EveryRecordIsAnswered` (no deadlock of the four buffers), `CancelEndsBridge`, `DeathClosesResults` (with every answer that the job had written delivered, those in the pipe included). A log line may be longer than the scanner takes: the reader then stops while the job lives (`Choked`), and the properties say where that ends what they promise |
| `windows` | COUNT 3, TUMBLING 3 s, HOPPING 3 s by 2 s and 1 s by 2 s; every stream of up to 4 records with times in {-2,0,1,2,3,5} s, readable or not. For the views: two features of one type or two, the first with no document or two members of together up to 4 entries at times in {-2,0,2,3,7}, one of them perhaps unreadable, the second with no document, an empty one or two entries in one member or in two; the rows may break off; buckets of 3 s | `EachRecordInOneWindow`, `TumblingFollowsGrid`, `HoppingIsExact`: each window against its definition; `FleetViewsAreExact`: buckets and trips against what the rows hold. That buckets are uniform and named by their start is said of samples from 1970 on only (section 6); that each sample is counted once, of all |
| `bulk` | two batches of up to 2 observations of 2 vehicles at 2 times, every content; a deletion of each vehicle; 2 connections | `AllOrNothing`, `CountsAreTrue` (what a 201 says was created and extended is so, although two batches may both find no row to UPDATE), `EveryBatchIsAnswered` (deadlock, locks released on refusal, a pool that is used up) |
| `store` | one feature with any of its properties stored, or none and no `mf_tproperty`; two property names; three times, of which rows start with the two later ones; three requests of thirteen kinds | `OrphansComeFromRaces`, `DroppedLeavesNothing`, `StraysComeFromRaces` (a value in the column of another type), `PostedTogether`, `UnracedDeleteRemovesOne` (one value goes and another stays, appends between the count and the UPDATE or not), `UnracedReadIsWhole` (a read of several statements with no writer in between), `EveryRequestIsAnswered` |
| `paging` | any of 5 features, limits 0, 1 and 3 under a maximum of 2, row groups of 2, 3 insertions or deletions at any time | `InKeysetOrder` (nothing twice), `Complete` (nothing that was there all the time is missed), `ReadingEnds` |
| `failed_status`, `tumbling_replay`, `store_orphans`, `store_index`, `store_columns` | as above; for the last, a POST of properties of type bigint and two GETs | violated: see section 7 |

Each passing run also has a type invariant, which carries the bounds of the channels and
buffers and the ties between control and data.

Why these bounds are enough to be worth something:

- A channel of one slot fills at the second event, so full, empty and in between all occur with
  three events; a larger channel adds lengths and no new choice. `MaxEvent` and `MaxRecord`
  cap how much a producer sends, and are larger than every channel they feed.
- Two readers are needed for "one's full channel does not harm the other"; queries share no
  state with one another except the registry's map and counter and the hub's set, so `tier` has
  one. What two queries could do to each other, share an id or an inbox, is proved for any
  number (`TierIdsAreNotReused`, `TierHubSendsOnOpen`).
- Two DELETEs are the fewest that can both get the query before either removes it.
- Two batches and two vehicles are the fewest that lock rows in opposite orders. Two connections
  are the fewest with which a transaction and a statement hold one each while a third request
  waits; both a batch that waits for a connection and a pool used up by a batch and a DELETE
  that waits for its row occur.
- In `store` three requests suffice for a reader-writer race with a third request that creates
  again what was deleted; `Ops` gives each one the kinds that matter for it: the first removes,
  the second posts, reads or removes a value, the third creates, replaces or appends. What is
  posted may have another type than what was there. A row of two values can be given a third, before
  them, between the statement that counts them and the one that uses the index.
- In the views a bucket is empty, has one sample and has several, a gap falls between members
  and inside a bucket, a feature has no trip, one or two, and a member of one entry draws none.
- In `paging` a collection of five features under a limit of two has full pages, a last one that is
  not full, and, after a deletion, a last one that is exactly full.

Deadlock is checked in every run except the two of `Windows`, where the source may simply
have no more records. In `tier` it says little, since `Publish` is always enabled: that nobody is
stuck there is what `CancelEndsQuery` and `FailureReachesReaders` say.

## 4 Fairness

| Specification | Assumed | Why the code justifies it |
|---|---|---|
| `FanoutSpec` | weak fairness of each pump; strong fairness of each handler's own steps (`Respond`: subscribe, take an event, see the close, unsubscribe) | a runnable goroutine is scheduled, and a `select` draws at random among its ready cases, so that the keep-alive is not drawn for ever. Nothing is assumed of producers or of clients: `main.go:168` sets no `WriteTimeout`, so a write to a client that stays connected and reads nothing never returns. `EveryReaderReturns` and `FailureReachesReaders` therefore assume it of the one client they speak of: `ReadsOn(h)`, weak fairness of `Written(h)`, says that it reads on or leaves |
| `TierSpec` | the same for the steps of a POST once begun, the source, the worker, the pump, DELETE and the handlers; weak fairness of the `ctx.Done()` cases of their own | a `select` with a case that stays ready takes it in the end: Go chooses among the ready cases at random. Nothing is assumed of clients here either |
| `BridgeSpec` | weak fairness of feeder, reader, pump, kill; strong fairness of `JobAnswer` | the job that lives answers what it reads; strong, because its log lines may fill stdout again each time the reader empties it. Nothing is assumed of its log lines, or of `ReaderChokes` |
| `BulkSpec`, `StoreSpec` | weak fairness of each request's next statement; in `BulkSpec` also of the DELETE of each vehicle | a handler goes on, and the queues of locks and of connections are served in order. Nothing is assumed of failures, or of new requests: `Fail`, `PurgeFails` and `MemberFails` are not among the fair steps, so a request that waits for the lock of `mf_tproperty` is not saved by an error |
| `PagingSpec` | weak fairness of the handler's turns and of following the link | the client reads on. Nothing is assumed of `Break` or of writers |

`Windows` has no liveness property: what a window operator owes is stated of what has arrived.

## 5 What is proved

Theorems hold for every value of the constants that satisfies the named assumptions.
`FanoutAssumption`, `TierAssumption`, `BridgeAssumption`: capacities are natural numbers, and
positive where the code says `make(chan T, n)`. `BulkAssumption`: times are natural numbers,
batches and vehicles finite in number, the pool has a connection. `PagingAssumption`: ids are
positive and finite in number (the keyset starts from 0), limits and row groups positive.
`StoreAssumption`: times are natural numbers and finite in number, those of the rows stored at the start are among them, a trajectory is not named as
a property, and the marker for "nothing" is none of the things it stands beside.
`WindowAssumption`: sizes, spans and hops are positive, as `stream.go:590`,
`tumblingSpanSeconds` and `hopSeconds` leave them; times are
any integers. `FleetAssumption`: the step is positive, the null of an answer is no average, and in a member the
times increase, as they do in a sequence of MobilityDB.

**Fanout** (`Fanout_proofs`). `IndInv == FanoutTypeOK /\ PumpInv` is inductive. `PumpInv` ties
the pump's control to its data: `fanned` and `held` and `events` are consecutive numbers up to
`last`; `stopped` and an empty `subs` mean that the pump has closed. From it:
`FanoutTypeCorrect`. With `SubscriberInv`, which says for each control point of a handler
whether it is in `subs` and how often its channel was closed: `FanoutChannelDiscipline`,
`FanoutReaderIsServed`. With `StreamInv`, which says that a handler's response and queue are
increasing, between `since` and `fanned`, and have no gap unless something was dropped:
`FanoutInOrder`, `FanoutNoSilentLoss`. None of the last four is inductive as it stands:
`InOrder` does not say that what the pump holds is newer than what is queued.

`FanoutRefinesBroadcast`, in the same module: initial states map to initial states;
`PumpFan` maps to a send, `PumpClose` to a finish, `Subscribe` to a join, `Receive` to a read,
`Unsubscribe` to a leave, or to a stutter when the pump closed first; every other step, the keep-alive and the end of a
write among them, stutters.

**StreamTier** (`StreamTier_proofs`). `TierRefinesFanout`: every action of the tier maps to one
of `Fanout` or leaves `fanoutVars` alone, so that the theorems above hold of the tier; two are
restated (`TierChannelDiscipline`, `TierNoSilentLoss`). `TierTypes` gives `TierTypeCorrect`;
`IdInv`, which bounds ids by `nextID` and says who has one, gives `TierIdsAreNotReused`;
`LifeInv` follows a query's context through POST and DELETE and gives `TierHubSendsOnOpen` and
`TierNoOrphan` (a DELETE between `stop` and `remove` has cancelled: `StopInv`); `EndInv`
follows the end of a stream back from the pump through the worker to its source and gives
`TierStopsForAReason`.

**BridgeEngine** (`BridgeEngine_proofs`): `BridgeTypeCorrect` and `BridgePairs`. The inductive
invariant `BridgeInv` says that delivered events, results, the event in hand, the reader's line,
stdout without its log lines, stdin and the feeder's record are together the numbers from 1 to
`taken`, and that `ts` is the part of them that is not yet paired. `Paired` says it of the
delivered ones only, which no step preserves by itself.

**BulkIngest** (`BulkIngest_proofs`): `BulkTypeCorrect`, `BulkAllOrNothing`,
`BulkCountsAreTrue`. Neither of the last two is inductive: both say of what is committed what has
to be known while a transaction writes. `DraftInv` says that a draft is the committed row and
observations of the batch that holds the lock; `WrittenInv`, that a running batch holds the lock
of each row it has counted and has the observation in its draft; `OwnerInv` and `KeptInv`, that
what is stored, or was when a DELETE took it, is of batches whose COMMIT was done, and of those
all of it. For the counts, `FirstInv` says that a draft begins
with the instant the committed row begins with, so that an UPDATE never changes who began a
trajectory; `CountInv`, that `created` of a running batch is the number of its drafts whose first
instant is its own, and that of a committed one the number of trajectories that began with it,
with all its observations counted, so that `extended` is the rest of them.
`PoolInv` is the bound of the pool, by counting.

**Paging** (`Paging_proofs`): `PagingTypeCorrect`, `PagingInKeysetOrder`, `PagingComplete`. The
inductive invariant `PageInv` says that what the client got, the row group and the rows still to
be scanned are three increasing sequences, one below the other (`OrderInv`), and that a feature
stored all the time is in one of them or will come later, after the cursor or after a last row
that was not the collection's last (`CoverInv`).

**FeatureStore** (`FeatureStore_proofs`): `StoreDroppedLeavesNothing`,
`StoreOrphansComeFromRaces`, `StoreStraysComeFromRaces`, `StorePostedTogether`,
`StoreUnracedDeleteRemovesOne`. The three invariants among them are conjuncts of the inductive
one, `StoreInv`; what they lack is what a request between two statements knows. `Current` says
that what it has read still holds or that it was overtaken: a feature looked up is stored, a
column read is that of the property's type, an index counted is still an index and not that of
the only member. `Drafted` says that what a transaction has inserted nobody else has stored.
Each statement is shown to leave every row as it was, to make one that was not there, to extend
one, or to remove or replace one and overtake those that have read it (`Reshapes`), so that
`OthersKeep` is proved once for all of them. `TokensNameTypes` evaluates the tables of
`PropertyTypes`: every token names a type a property may have, and the token a row keeps names
one that carries it.

`StoreTypeCorrect` takes besides that no property is stored without its table (`StoreThere`). It and
`StoreUnracedReadIsWhole` need a second invariant, `ServeInv`, about what the readers hold: `Typed` rows, `Asked` (what a request keeps of what it was asked), `Reading`
(at which statements it has served something, and how much) and `Unraced`: as long as nobody
has touched the row since, the count, the column and the index it goes by are still right, and
what it has served are the first members in the order of time. `OthersServe` shows it once for
the steps of all other requests. A value in order is not computed but stated: `InOrder` is a
sequence with every time once, ascending, and `SequenceN` the time that has n - 1 before it; that
each exists and is unique is the lemma `InOrderIsWhole` (and `OneMember`, that an index up to the
number of members addresses one), by induction over the least counterexample.

**Windows** (`Windows_proofs`): `WindowsTypeCorrect`, `WindowsEachRecordInOne`,
`WindowsFollowGrid`, `WindowsHoppingIsExact`, for any stream, size, span and hop. None of the
last three is inductive: each speaks of the windows emitted and not of what the loops keep. `RunInv`
adds that the open window is the end of the stream and that the closed ones divide what is before
it; `GridInv`, that on a regular stream a window's end is the boundary after each of its records
and earlier windows end earlier; `HopInv`, that the buffer is the end of the stream, that what
it has forgotten is too old for any window to come, and that only the last record can be at or
after the next boundary. The lemmas on the grid of boundaries (`UniqueQuotient`, `SameCell`,
`NextBeforeBoundary`) are the arithmetic of Go's `%`, before 1970 too.

**FleetViews** (`FleetViews_proofs`): `FleetViewsExact`, for any rows and any step.
`FleetInv` says of the places the loops have passed what the property says of all: `SeriesInv`,
that an accumulator is of the samples passed of its type and bucket and of no other, and that the
first and the last bucket have one; `TripInv`, that the segment lists what is passed of its
member, that a trip lists a whole member that is passed, no two the same, and that a member with
two readable points has one. `Grid` shows that the multiples of the step from the first bucket to
the last are all among the buckets, each once; `BucketIs`, that a time is in the one bucket that the code's
remainder names (`NamedBy`, which from 1970 on is the uniform bucket that starts there).

Only model-checked: the liveness properties (`EveryReaderReturns`, `CancelEndsQuery`,
`FailureReachesReaders`, `EveryRecordIsAnswered`, `CancelEndsBridge`, `DeathClosesResults`,
`EveryBatchIsAnswered`, `EveryRequestIsAnswered`, `ReadingEnds`): the prover handles neither
liveness under fairness nor `ENABLED`. It has no induction over data either. So that nothing
rests on it, a loop of the code is a loop of actions here, and what a sort or an index returns is
stated by what is true of it and not computed by recursion.

## 6 Assumptions and what is left out

Assumed of what is outside `src/`:

- PostgreSQL at READ COMMITTED: a statement is atomic and sees what is committed when it runs,
  and its transaction's own writes; row locks and new keys are held to the end of the
  transaction; a SELECT's table lock keeps DROP TABLE waiting; the ALTER TABLE of
  `ensureTPropTable` takes `mf_tproperty` for the rest of its transaction; a deadlock has a
  victim. The Spark backend, whose transactions are no-ops, is outside of this.
- MEOS: `appendInstant` accepts strictly later instants only; `deleteTime` is strict, so that
  the UPDATE with an index that no longer exists writes NULL (`{}` in `FeatureStore`);
  `merge(NULL, x)` is x, so a row that was emptied takes values again; `sequenceN` of an index
  beyond the last is NULL, which the handler cannot scan.
- The pool gives each statement or transaction one connection and keeps a request that finds none
  waiting. A connection that breaks during COMMIT leaves the outcome unknown to the handler,
  which answers an error either way.
- A bridge job answers each record once and in order, and may log between answers.
- Pipes are bounded buffers; a killed process reads and writes no more.

Left out, and why:

- *Data*: geometry, values, names, the rendering of features, the SQL text. The properties do not
  tell them apart. Of `putCollection`, whose UPDATE of the title is an action, this leaves out
  that it sets the coordinate system to 4326 when the body has none, while the stored trips keep
  theirs.
- *Several collections*: they share no row but the lock of `mf_tproperty`.
- *Filters of a page*: to match is part of being stored, since they are conditions on a row.
- *Read-only endpoints of one statement* (the lists, `getItem`, `getCollection`, the API
  document): one query and its rendering; the JSON around it is left out everywhere. In
  `FleetViews` so is what an answer without trips gives as its first and last time.
- *Buckets before 1970*: `timeseries.go:3` has uniform buckets, and line 100 names a bucket by its
  start. Go's remainder has the sign of the dividend, so line 118 puts an earlier sample in a bucket
  that starts after it, and the bucket named 0 takes two steps. A collection with such samples is
  excluded from what `BucketsAreExact` says of uniform buckets (`BucketsUniform`); the rest of it,
  each sample counted once and each average divided by its samples, holds with them. The same
  remainder places the boundaries of a TUMBLING window: `TumblingFollowsGrid` is about streams from
  1970 on.
- *Rows whose trip is NULL*, which only the DELETE of `store_index` or another program makes:
  `appendInstant` of NULL is NULL, and `appendBatch` counts the row as extended all the same.
- *Response codes of one kind*: the refusals of a body (`bulk.go:58-86`) are one `Reject`; the append
  to a property answers 409 to one more wording of the database than that to a trajectory.
- *The creation of `mf_tproperty`*: two requests that create it at once may make one of them fail, as
  any statement may (`Fail`); its lock is that of the ALTER TABLE after it.
- *The headers of an SSE response*: they are assumed to fit the connection's buffer; the first
  write that may wait for the client is that of an event or a keep-alive.
- *The value of a window's aggregate*: computed by MEOS, external.
- *Process restart*: queries are in memory only and the code recovers nothing. `main` closes the
  server with a bound of 15 s; what statements that are cut off leave behind is what statements
  that fail leave behind.
- *MQTT connection*: the client library connects again by itself; the code subscribes once, and
  whether the broker keeps the subscription is its configuration.
- *Spark backend*: its transactions do nothing and its Exec counts no rows, so none of what is
  said of `FeatureStore` and `BulkIngest` is said of it.
- *Generated catalog, generator, samples*: tables and tools, no run-time state.

## 7 Where the code and its documentation disagree

1. `failed_status`: CONFORMANCE.md says the states running, stopped and failed are reported. A
   failed query reports `stopped` as soon as its pump has ended (`stream.go:331`).
2. `tumbling_replay`: a TUMBLING window over stored instants counts records instead of seconds,
   since MF-JSON times have a form that `instantUnix` does not read.
3. `store_orphans`: a POST of properties and the DELETE of their feature can interleave so that
   the properties outlive the feature (`main.go:1838`), and a feature created later under that
   id has them.
4. `store_index`: two DELETEs of member values can pass the check for the only member
   and leave the row with none (`main.go:2054`).
5. `store_columns`: a property posted as `bigint`, `long` or `tbigint` is stored in the column
   of tbigint under the token `TInteger`, which every later request reads as tint
   (`main.go:1867`): its values are never served, appended to or deleted.

For 3 and 4 the run `store` checks what does hold: `OrphansComeFromRaces`,
`UnracedDeleteRemovesOne`; for 5, `UnracedReadIsWhole` says that a read serves what the column of
the row's token has. Two more are stated by a module and checked in no run:
`BridgeEngine!JobFailureIsReported`, which is 1 for the other engine, and
`StreamTier!StoppedLeavesHub`: a live query that stopped because its engine failed stays in the
hub (`stream_live.go:42`), and `ingest` counts it as a receiver until it is deleted.

## 8 The plan

Done, in this order: fan-out and its abstraction; tier; their proofs; bridge and its proofs;
windows; bulk ingest; store; paging; then types and columns, `putCollection` and the readers of
several statements in `FeatureStore`, the pool and lost commits in `BulkIngest`, and `FleetViews`;
the proofs of bulk ingest, paging and the feature store; the readers of the store, the windows
and the views stated so that they can be proved about, and those proofs. No safety property that a
run checks is without a theorem.

Next, the most important first:

1. Two queries with a shared engine: the cache of `engineFor`, and its race to build the default.
2. Windows: overflow of the span (`stream_engine_meos.go:497`), where an int64 wraps.
3. The hazards of `PROJECT.json` that have a note and no property: a page that ends in the middle
   because a row cannot be rendered (`main.go:647`), and the purge of a feature's properties that
   meets its successor (`main.go:1736`).
4. The safety half of the liveness properties as theorems: that no state is stuck, with the guards
   of the actions spelled out, for the four buffers of a bridge and for the locks of a batch.
