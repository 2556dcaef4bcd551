# SetuTrack in TLA+

A specification of SetuTrack, the public-bus tracking system of this repository: what its services,
phones and tables do when they run at the same time, model-checked with TLC and, where it matters
most, proved with TLAPS. Line numbers are in `PROJECT.json` (`map`).

## 1. The system

| part | state it keeps | operations | talks to |
|---|---|---|---|
| trip API (`api-gateway/src/trips`, `mqtt`) | Postgres `trips`, `buses`, `occupancy_snapshots`; the MQTT client's queue | start, end, tally; publish of `bus/{id}/status` | driver app (HTTP), broker |
| ping handler (`stream-processor/consumer.ts`) | Redis position, occupancy, active set | one handler per MQTT message, never awaited | Redis, Kafka, pgPersist |
| persistence (`pgPersist.ts`) | `tripStateByBusId`, `gps_pings`, `stop_events`, `alerts`, inferred `trips` | bind a ping to a trip, adopt and retire trips, detect stops and deviations | Postgres |
| scoring loop (`etaScoringLoop.ts`) | `latestEtaCache`, Redis ETA mirror | one tick per second | Redis, ml-service, Kafka |
| real-time gateway (`gateway.ts`) | socket rooms | forward updates; watchdog every 5 s | Kafka, Redis, sockets |
| route geometry (`routeStore.ts`, `geo.ts`, `mapMatch.ts`, `deadReckoning.ts`) | the snapshot | project, find segment, next stop, extrapolate | files |
| driver's phone (`location_transmitter.dart`, `ping_buffer.dart`, `on_trip_screen.dart`) | SQLite buffer, MQTT connection, the screen's trip | sample, send or buffer, flush; start, count, alert, end | broker, HTTP |
| passenger's app (`fleet_socket.dart`, `live_map_screen.dart`, `voice_search_service.dart`, `route_search_screen.dart`) | last update per bus; search state | show, search, speak | sockets, HTTP |
| OTP login (`auth.service.ts`, login screens) | pending codes in memory | request, verify, sweep | HTTP |
| snapshot queries (`snapshot.service.ts`, `search.service.ts`, `stops`, `routes`) | the snapshot, read once | journeys, nearby stops, search | files |
| alerts (`alerts.service.ts`, `useAlerts.ts`, `AlertsPanel.tsx`) | `alerts` rows; the page's list and filter | raise, list, resolve, poll | HTTP |
| analytics (`admin-analytics.service.ts`, four dashboard pages) | nothing of its own; each page's state | ridership, demand and supply, model health, route performance | Postgres, Redis, ml-service, HTTP |
| statistics (`statsStore.ts`, `ml-service`) | stats maps, the model | reload, look up, predict | Postgres, files |
| geo-ingest | the snapshot, `routes`, `stops`, `route_segments` | fetch, stitch, infer stops, upsert | Overpass, OSRM |
| simulator | simulated trips | simulate, publish on divergence, back-fill | broker, Postgres |

How they interact: a driver starts a trip over HTTP; the gateway commits the row and announces it over
MQTT (QoS 1, retained); the phone reports positions over MQTT (QoS 0, buffered while offline); the
stream-processor files each position under the trip it holds for the bus (or one it infers), writes it
to Redis and publishes it on Kafka; the scoring loop publishes it again with arrival times; the
real-time gateway forwards both to sockets, and a watchdog keeps speaking for buses that have gone
quiet. Nothing but the `trips` table and the retained message ties the two services together.

What is hard here, component by component:

- **trip API**: read-then-update over separate round trips, two transactions of one bus, publishing
  after the commit. Correct when what is announced is what was committed and when no interleaving leaves
  a trip half closed.
- **persistence**: every handler runs unawaited over one shared map; adoption, inference and retirement
  interleave at each query; the broker repeats and replays. Correct when no position is ever filed
  under a trip of another bus or direction, and when the driver's trip is the one that is used.
- **live feed**: three writers (handler, scoring loop, watchdog) race to the same screen with data
  read at different times. Correct when no update is passed off as newer than it is, and when
  silence ends up being shown as silence.
- **phone**: offline buffer, flush, overlapping connections, and a screen that can be left while a
  request is in flight.
- **sign-in**: codes in one process's memory, asked for by several phones, with answers that are lost; a
  screen whose fields change while a request is out. Correct when a code grants once, whatever the
  retries, and who is let in was verified.
- **alerts**: a polled list with a limit and a filter, changed optimistically while polls and resolves
  overlap and fail. Correct when what the driver was told and what the dispatcher sees is so, or soon is.
- **analytics pages**: answers that come after the page or the selection changed; figures put together
  from queries that see different moments.
- **geometry, snapshot queries, statistics, ingest**: sequential algorithms with boundary cases.

The hazards, each at its line, are in `PROJECT.json` with the properties that cover them.

## 2. Modules

| module | models | uses |
|---|---|---|
| `TripsTable` | the shared tables with row locks (READ COMMITTED) | |
| `TripsService` | api-gateway's start, end, tally as round trips; its MQTT queue | EXTENDS `TripsTable` |
| `PgPersist` | the stream-processor's handlers of positions and status messages | EXTENDS `TripsTable` |
| `TripLifecycle` | both, with the broker and crashes | EXTENDS `TripsService`, `PgPersist` |
| `HonestFeed` | abstract: a passenger is shown the degradation ladder as it stood not long ago | |
| `LiveFeed` | Redis, Kafka, scoring ticks, watchdog, sockets | implements `HonestFeed` |
| `StopEvents` | what a filed position does to `stop_events` and `alerts`: handlers overlapping, positions late, INSERTs failing or answered in vain | |
| `Telemetry` | the phone's transmitter: fixes, the SQLite buffer, flushes, the MQTT connection | |
| `DriverTrip` | the on-trip and manual start screens, their requests and the server's answers | EXTENDS `Telemetry` |
| `RouteGeometry` | polylines: projection, point at a distance, segment and next stop | |
| `GeoIngest` | stitching ways, explicit and inferred stops, the validation gate | EXTENDS `RouteGeometry` |
| `RouteProgress` | what is told of one bus along its direction: reports, scoring, dead reckoning, watchdog | EXTENDS `GeoIngest` |
| `RouteQueries` | what the gateway answers from the snapshot: journeys, nearby stops, search | EXTENDS `RouteProgress` |
| `OtpLogin` | one-time codes at the server, the two login screens | |
| `DriverShift` | the phone from sign-in to the last trip | EXTENDS `DriverTrip`, `OtpLogin` |
| `AlertBoard` | an alert from the driver's button to the dispatcher's page and off it | |
| `AdminPages` | the analytics pages, their requests and the queries behind them | |
| `Dashboard` | one tab, on either | EXTENDS `AlertBoard`, `AdminPages` |
| `SumTheorems` | lemmas on sums over finite sets, products, folds over sequences and sets in an order | used by the proof modules that count, add or fold |
| `TripsService_proofs`, `LiveFeed_proofs`, `StopEvents_proofs`, `RouteQueries_proofs`, `Dashboard_proofs` | theorems | EXTEND the module and `TLAPS` |
| `TripLifecycle_proofs` | theorems about the two services together | EXTENDS `TripLifecycle`, `TripsService_proofs` |
| `DriverShift_proofs` | theorems about the buffer, the sign-in and the phone | EXTENDS `DriverShift` and `TLAPS` |
| `MC*` | the instances TLC checks | |

Correspondence. In `TripsService`, `req[r]` is one HTTP request in progress; its `pc` names the query it
is about to make, so every `await` of `start`, `end` and `tally` is a step boundary. A start is
`StartRequest` (route lookups and `upsertBus`), `StartUpdate` (the UPDATE's snapshot), `StartLock` (the
same UPDATE after waiting for row locks, re-checking `status = 'running'` as READ COMMITTED does),
`StartInsert`, `StartCommit`, `StartPublish`. `rowLock` is the lock an uncommitted UPDATE holds.
In `PgPersist`, `task[k]` is one handler stopped at a query; `tripState` is `tripStateByBusId`. Pings
wait for Redis in `awaiting` (ioredis answers in order) before `ensureTrip` runs. `TripLifecycle` adds
the broker's retained message per bus, the connection (`channel`), duplicates and restarts. In
`LiveFeed`, a report is identified by the time it was measured; `resume` holds handlers between the
Redis write and the Kafka send, `tick` and `watch` the rows a scoring or watchdog tick has read. `held`
is history, the reports Redis held during each step of time, and so is the `since` of whatever is in the
pipeline, when it was taken from Redis or written there. A step of time is as long as one of the ladder's thresholds (tens of seconds); `Lag`
says for how many of them something can stay in the pipeline.
In `StopEvents`, `objects` are the `TripState` objects the handlers of one bus hold (a retained message
replaces the one in the map while older handlers go on with theirs); `task[k]` is a handler of
`persistPing` stopped at an INSERT, which is made and answered (`StopInserted`), made with its answer lost
(`AnswerLost`), or not made (`HandlerFails`). Messages come with any timestamp, also an older one, and with any
stop, for nothing before the state machine looks at either; histories (`overlapped`, `late`) say when
handlers have overlapped or messages have come out of order, for the properties that promise nothing then. In `Telemetry`, `tx[x]` is one `LocationTransmitter` (a trip makes its
own), `rows` the table of `ping_buffer.dart`, `flush[f]` one run of `_flushBuffer` between two awaits, and
history variables say what became of each fix. In `DriverTrip`, `screen` is the on-trip or manual screen,
`request` the HTTP requests ever sent with what the server made of them.
In `RouteProgress` the numbers are followed. `task[t]` is a report handler, a scoring tick or a watchdog pass: it
takes up the bus's row in one step and publishes in another, into `queue` (the bus's Kafka partition) or to the socket,
and anything may come between; each update records the row and the age it was made from. `route` is the direction `loadSnapshot` builds from what `GeoIngest` makes of a relation,
`last` the Redis position hash, `etas` and `mirror` the two copies of the scored stops, `shown` the last
update a passenger gets. Stops are told by their index. Lines run parallel to the axes and speeds are chosen
so that every length and every integral is an integer; both are assumptions TLC evaluates.
Sorting is `Arranged` and filtering a `FoldLeft`, for the provers have facts about neither `SortSeq` nor `SelectSeq`.
In `RouteQueries`, `files` holds the direction ingested and the others, `loaded` what `snapshot()` makes of
them once per process; each answer is an operator of it. A text is the set of its parts, so that one can contain another.
A direction is taken to call where it calls first, as `find` does. Of directions the snapshot holds beside the
one ingested, `QueryAssumption` takes them to have a segment between each stop and the next, as long as the
distances differ, and speeds that are not 0; sequences there start at 0 and here at 1, only their order is used. In `OtpLogin`, `pending` is the service's map and `calls` the
requests of the phone, which may stop waiting for one that is served later; `reveals` are
the `_revealDemoCode` calls that wait. Codes are numbered: six random digits are taken not to repeat.
In `AlertBoard`, `poll[p]` is one run of `fetchAlerts`, `patch[c]` one of `resolve`, `post[p]` one
`POST /alerts` with where the service is and what the driver was told; rows are numbered in the order of
`raised_at`. In `AdminPages`, `request[q]` is one request with how far each of its queries has come
(`stop_events` and `trips` only grow, so a query is told by how many rows it saw), `view` the state of the
page mounted. The tab of `Dashboard` is on the alerts page or on the others for good: the two share
no state, and which it is, is chosen at the start.
Row contents that no property distinguishes (driver ids, coordinates of a report in `LiveFeed`) are left out.

## 3. What the runs check

| run | instance | shows |
|---|---|---|
| `TripsService` | 1 bus, 2 overlapping requests, 2 trip ids, failing queries, gateway crashes | announced status messages agree with the table; a start ends every trip it saw; a trip is closed by a start only together with the trip replacing it; every request is answered |
| `TripsServiceOneRunning` | the same, no failures | **violated**: overlapping starts leave two running trips |
| `TripLifecycle` | 1 bus, 2 directions, 1 request, 2 handlers, 1 position, 1 loss or restart, failing queries | messages, cache and `gps_pings` agree with the table; the stream-processor ends a running trip only for another |
| `TripLifecycleDriver` | 1 position | **violated**: the inferred trip replaces the driver's |
| `LiveFeed` | 3 buses, one of them off the map and one whose reports come late, 2 reports between them, 1 scoring tick and 1 watchdog tick, 1 update queued, restarts | timestamps are real; of the buses in order the screen implements `HonestFeed`, and nothing is estimated of the one off the map; a quiet bus ends up stale |
| `LiveFeedOrder` | 1 bus, 2 reports in order, 1 scoring tick, 2 updates queued | **violated**: updates of one bus are queued out of order, a scoring tick overtaking a report's handler |
| `StopEvents` | 3 stops, one unknown to the table, the last approached off the route, 4 different positions, 2 overlapping handlers, 4 messages at any of 4 timestamps, 2 state objects, failing INSERTs and lost answers | one alert per deviation of an object, about a sustained one while handlers do not overlap; stops recorded in order, and twice only after a lost answer; boardings minus alightings of answered rows are the change of occupancy |
| `Telemetry` | 2 transmitters, 2 fixes, a buffer of 1 row, 2 flushes, 1 lost connection, 1 kill | every fix taken is sent, buffered, evicted or still held by the code; a flush sends oldest first; a backlog leaves once the connection stays up |
| `DriverTrip` (`MCDriverShift`) | 2 ids, 2 codes and 3 requests to sign in, codes forgotten early (as by a restarted gateway); then 2 shifts, 4 requests, 1 kill, requests and answers lost | a code grants once; who gets in was verified; the code field shows the latest code; what the driver is told agrees with the server; one trip per shift; leaving a running trip closes it |
| `DriverTripLeft` | the same | **violated**: a screen left during the start leaves its trip running |
| `RouteProgress` | 5 relations, beside four directions of which one has a stop lying back (an elbow drawn against its direction, with and without stop members; out and back; first way drawn backwards; one that is refused), 4 fixes, 2 speeds, with and without a baseline; 1 report, 2 tasks overlapping | ways that chain from the first as drawn stitched to their full length; inferred stops spaced and complete; the match is the nearest point of the line; two searches for the next stop agree, and the scoring loop and the watchdog show a time with its own stop, and that stop's name if it has one; of two updates from one report the later computed is not further back, in whatever order they are shown; journeys are exactly those a direction makes, as long as their stops are apart unless one lies back, with a duration only where it is known; nearby stops are complete and in order; a search finds what was asked for |
| `Dashboard` | 1 alert of a driver's and others of the stream-processor, 2 polls and 1 resolve in flight, a limit of 1; 2 routes, 2 page requests, 1 trip, 2 stop events | "sent" means recorded; "the fleet is quiet" is true, up to the limit and what is in flight; the board catches up; a page shows the route selected; figures of one page add up |

The violated properties are findings: each quotes the comment it contradicts in `PROJECT.json`.

Bounds. One bus is enough: rows, cache entries, retained messages and Redis keys are per bus, and what
two buses share (the connection, Kafka) only delays them; the proofs do not assume it, and
`LiveFeed` has three. Two requests are
the least that overlap; `TripLifecycle` has one, so what two requests do to each other's messages is in
`TripsService` and in the theorems only. Two trip ids let a start close another's trip while a third start fails after
taking the lock (a failed start gives no id away before its INSERT). Two handlers are the least that
race over the map. `MaxOutbox`, `MaxChannel`, `MaxLog` only limit how far a producer runs ahead.
Thresholds of zero and one step of time give every tier an age of its own, and there is time left for each
to be shown after the last report. A `Lag` of one lets an update cross a boundary on its way; `MaxReport`
counts the reports of the fleet, so that two of one bus or of two buses meet. `Late` names the buses whose
reports may come late: `ShowsHonestly` is stated of the others. `LiveFeed` has one scoring tick at a time, which overlaps
the handlers and the watchdog; two ticks at once are in the theorem. Four messages of `StopEvents` are a baseline, a row whose answer is lost, its
repetition and a final row, or an episode, a position between and the next one; its positions let passengers
leave on the way to one stop and board on the way to the other.
In `RouteProgress` one report and two tasks let a tick, a watchdog pass and the report's handler overtake each other; a second report only
starts the same again with another row, and the theorems are for any number.
A buffer of one row evicts at the second fix and two flushes are the least that read a row twice. The
driver's screens need two shifts and one request more than they send in order for a late one of the
first shift to meet the second. In `RouteProgress` the tolerances keep the order the code has (join < buffer <
spacing < snap) and ages run past the last threshold and the ramp; lines have up to three pieces,
which include a turn, a reversal and a gap. A limit
of one hides an alert as soon as there are two; two polls are the least that overtake each other; two page
requests let the answer of one page meet the page after it. Two codes and three requests are the least with
a retry and a replaced code at once.

Fairness. Node runs every continuation that is ready (weak fairness of steps that wait for nothing); a
query answers or fails; Postgres grants row locks in order, so a waiter is not overtaken for ever (strong
fairness of the steps that need one); time passes and the watchdog's timer fires for every bus. On the
phone Dart runs every ready continuation and sqflite answers. On the
dashboard the poll's interval keeps firing and polls do not all fail for ever (`BoardFairness`); nothing is
assumed of a resolve, which may fail each time. Nothing
obliges a bus to report, a message to arrive, a passenger to stay connected, the network to come back, or
a process to stay up.

Deadlock is not checked: all instances stop when the ids, reports or time they may use are used up.

## 4. What is proved

Each theorem holds for every value of the constants the assumptions below admit; TLC checked each property, and each
strengthened invariant before it was proved, on the instance of the run.

`SumTheorems` (any finite set, any function on it to integers): `MapThenSumSet` of the community modules, which
the models add with, is 0 of nothing, grows by the value of an element added, adds up over disjoint sets, is
the cardinality where every value is 1, and is the sum of the sums of its groups (`TotalGrouped`). The
library folds over a set with a recursive function that picks an element by `CHOOSE`; what it computes is
shown by the least counterexample: a set of naturals has a least element (`LeastNumber`), so a claim that fails of
some finite set fails of one all whose smaller sets it holds of (`SmallestSet`). The same argument gives what
a `FoldLeft` over a sequence computes from the steps it takes, and that `Arranged` puts a finite set in
the order of a total order, each element once: the rank of an element is the cardinality of what is before it.

`TripsService_proofs` (any number of buses, requests and trips, any bounds):

- `Safety`: `SafeSpec => [](TypeOK /\ StartClosesVisible /\ LocksBelongToStarts /\ StatusTruthful)`, and
  `StartsClose`, its second conjunct alone.
  None of the four is inductive alone. `IInv` adds that ids below `nextTrip` and only those are used, that
  a start that has inserted owns an id no row has yet and nobody else owns, and what each `pc` says about
  the request's record and the locks it holds: with them a commit cannot overwrite a row, and the rows a
  start saw are either locked by it or already ended when it commits. One lemma per action.
- `Atomicity`: `SafeSpec => AbandonIsAtomic`, from the same invariant: the rows a commit closes are the
  rows it holds, and it holds only rows it saw.

`TripLifecycle_proofs` (also any number of directions, message handlers, lost connections and repeated messages):

- `LifecycleTypes`, `TruthfulMessages`, `PingsOnTheirTrip`: `LifecycleSafe => []P` for `LifecycleTypeOK`,
  `MessagesTruthful`, `TripStateMatchesTable`; `StartsAreRespected`: `StartClosesVisible /\ LocksBelongToStarts`
  where the stream-processor writes the same table; and the action property `ClosedInFavour`: `ClosedForAnother`.
- `LifecycleInv` keeps the gateway's `IInv` and adds what the other service holds of the rows: the entry
  of `tripStateByBusId` names a row of its bus and direction (`CacheBound`), so does each `gps_pings` row
  (`PingsBound`), and each `pc` of a handler says which rows it is about to write under (`TasksBound`).
  The argument has two halves. No action of either service moves a committed row to another bus or direction,
  deletes it or reopens it (`Kept`), which is all that entries, handlers and messages in transit need.
  And `IInv` survives the stream-processor: its UPDATEs wait for rows a start has locked, its INSERT takes
  its id from the same sequence, and a row it closes stays closed for every start that saw it.

`LiveFeed_proofs` (any finite fleet, any number of overlapping ticks, any thresholds and queue length):

- `FeedTypes` and `NoInventedTimestamps`: `LiveFeedSafe => []P` for `LiveFeedTypeOK` and `TimestampsAreReal`.
- `FeedIsHonest`: `LiveFeedSafe => ShowsHonestly`, that is, for the buses whose reports come in order and
  still live, whatever those of other buses do, the pipeline implements `HonestFeed`: Redis, queue
  and ticks are hidden, the screen's rows of those buses are the abstract ones, and each action is an `HonestNext` step or a stutter
  (`PassShows`, `MeasureShows`, `IngestShows`, `EmitShows`; what happens to another bus is `Unseen`). The
  step needs that whatever is on its way was held by Redis at its `since`, is at most `Lag` old, and has the tier the ladder gave it then
  (what is queued claims to be live, and was): `Carrying`, `Laddered` and `Arriving`. `HonestFeed` does not say that the
  screen never goes back: it may show any moment of the last `Lag`, and the finding of `LiveFeedOrder` is such a step back.
  The fleet is finite because a tick's rows are emitted one by one in some order.

`StopEvents_proofs` (any route, any number of handlers, positions and objects):

- `StopEventsTypes`, `AlertsOncePerEpisode`, `StopsRecordedInOrder`: `StopEventsSpec => []P` for
  `StopEventsTypeOK`, `OneAlertPerEpisode`, `StopsInOrder`.
- `AlertsInv` is unconditional, however handlers overlap and in whatever order positions come: messages are numbered as they
  come, an episode begins with one of them, each is looked at once (`NumbersInv`), and a handler sets `alerted` before it awaits its INSERT, so no two
  alerts, written or still being inserted, share object and beginning. What is said only while handlers do not
  overlap has invariants that say so: `CalmHandlers` (one handler, at the latest message), `CalmAlerts` (nothing
  looked at since the beginning was back on the route), and, if positions come in order too, `CalmStops` (recorded stops are behind the
  one the object is approaching, or are that one, with its answer lost).
- `EverybodyIsCounted`: `StopEventsSpec => []OccupancyBalances`. A sum over all answered rows ever written: `BalanceInv`, on top
  of the invariant above, says of every object that boardings minus alightings of those rows is its occupancy less
  the one it began with, and of a handler stopped at its INSERT that the row it is about to write is the difference to
  the position's; a row is new when it is written (`RowIsNew`), so the sum grows by exactly it, and a row whose answer is lost
  adds nothing and moves nothing. Only while handlers do
  not overlap: else two of them count from the same occupancy.

`DriverShift_proofs`, the buffer (any number of transmitters, flushes, fixes and rows):

- `BufferSafety`: `TelemetrySpec => [](TelemetryTypeOK /\ FixesAccounted /\ FlushedOldestFirst /\ BufferBounded)`,
  and `OldestFirst`, its third conjunct alone.
  The three are not inductive alone: in `TelemetryInv`, `FlushInv` adds that the rows a flush has read are fixes that were
  taken, in order, and that every row it has not seen is newer; `EnqueueInv` ties the count an enqueue read
  to the rows there can be when it deletes. That the oldest row is the one evicted or sent rests on
  `LeastNumber`.

`DriverShift_proofs`, the sign-in (any number of ids, codes, attempts and requests):

- `LoginTypes`, `CodesAreSpentOnce`, `OnlyVerifiedGetIn`, `RevealsAreLatest`:
  `LoginSpec => []P` for `LoginTypeOK`, `CodeGrantsOnce`, `SignedInWasVerified`, `RevealIsLatest`.
  `LoginInv` has a part for each: `ServerInv`, that codes waited for are distinct, not above `issued`, not spent
  and gone only if expired, and that the wrong guesses against one are the attempts counted; `CallsInv` and
  `SignInv`, that a verification granted is for an id in `granted`, and that one still out is for the id in the
  field unless that was edited; `RevealInv`, that the latest reveal holds the code shown. Lemmas per action.

`DriverShift_proofs`, the shift (any number of shifts, requests, transmitters, fixes and sign-ins; on top of the two before):

- `ShiftTypes`, `ManualTripIsAdopted`, `LeftTripsClose`, `DriverSeesTheTruth`: `ShiftSpec => []P` for
  `ShiftTypeOK`, `OneTripPerShift`, `LeavingCloses`, `ShownTripRuns`.
- `FixesSurviveScreens` and `SignInBeforeShift`: the invariants of `Telemetry` and `OtpLogin` in the composition,
  where screens make, stop and abandon transmitters and a shift follows the sign-in.
- `TripInv` joins `TelemetryInv` with what the screens rely on: the server has as many trips as it has served starts
  (`RequestsInv`, cardinalities: a new trip's id is one nobody had), the request a screen waits for is one it sent
  for the trip it shows (`ScreenInv`), a trip shown, or about to be, runs unless its end was asked for
  or a given-up start was served after it (`ShownInv`), a shift's starts are one unless retried
  (`StartsInv`), a trip left running has its end out (`LeftInv`). `ShiftInv` is `TripInv` once the driver is in, and before that
  `LoginInv` with no trip thought of.

`RouteQueries_proofs` (any relations, candidates, positions, speeds, baselines and thresholds; all for `QueriesSpec`):

- `TypeCorrect`: `ProgressTypeOK`; `MatchedNearest`: `MatchIsNearest`; `SameNextStop`: `NextStopAgrees`; `WholeAndSpaced`:
  `IngestedRoute`; and the action property `Advances`: `ExtrapolationAdvances`.
  What they do not say: `WholeAndSpaced` is about ways that chain from the first as it was drawn; `SameNextStop` is about
  the scoring loop past the first stop, and about the times the loop and the watchdog publish, not the report handler's,
  with their names only where the stop has one; `Advances` compares updates by the age they were computed at, not by when they are shown.
  What the code does in the cases left out is in section 5.
- Geometry: a clamped point of a piece is nearest among all its points (`NearestOn`), the projection is nearest of the line and
  its distance lies on its piece, lengths before a vertex only grow, the point at a distance projects back to it. Lengths
  are recursive functions; each claim about all of them goes by the least vertex at which it fails.
- Folds: `MapThenFoldSet` over the indices of a sequence has values that can be followed index by index (`GatherSteps`),
  whatever is folded; ways that chain are joined to their full length and end where the last one does, and the stops kept are the
  spacing apart and within it of every candidate dropped, by the least index at which either fails.
- `IntegratedDistance` is not negative and grows with the age, whether the bus is still speeding up or past the ramp: products
  of naturals, reduced to monotone quadratic terms.
- `ProgressInv` says of the direction what ingestion guarantees (a line parallel to the axes, stops on it in the order of their
  distances where they were inferred, within the total), and of the state what each part was computed from: the last
  position is the match of a report (`RowOK`), the two caches hold stops of the direction (`CachedScores`), and what a task has taken up, what is queued and what is shown is a report, a score or an extrapolation, with its distance as a function of
  the row's and its age when it was computed (`WorkOK`; `UpdateOK` with `OfPing`, `OfScore`, `OfWatch` and `DrivenIn`). `ExtrapolationAdvances` is a statement on two states: without knowing
  from what and when the first was computed, nothing follows of the second.

What passengers are told, in the same module (any files, texts, place, radius and limit; besides the bus followed):

- `Journeys`: `JourneysExact`; `Around`: `NearbyComplete`; `Asked`: `SearchFinds`; each `QueriesSpec => []P`.
- The snapshot never changes, so the invariant is short: `FilesInv` says that the files describe directions (`IsServed`: one
  segment between each stop and the next) whose stops are where `QueryAssumption` puts them, and that what was loaded agrees
  with them, direction by direction (`IsLoaded`). What is long is that each answer, a composition of folds, sorts and
  groupings, follows from it.
- `SearchFinds`: the filtering and flattening folds collect exactly what they are meant to (`KeptAmong`, `CallingAll`), so that the
  first of a list is missing only if there is none.
- `NearbyComplete`: grouping by node loses no serving (`RowsThere`), the order of the rows, ties by the servings' order included,
  is total (`RowsInOrder`), so a prefix of the arrangement leaves no nearer node out.
- `JourneysExact`: segments from one place to another are a telescope: lengths add to what lies between on the line, or to
  more where a stop lies behind the one before it (`WayLength`, by the least place at which that fails), times to an
  unknown if any is (`DurationsAdd`), which sorts last.

`Dashboard_proofs` (any number of alerts raised, polls and resolves in flight, rows, trips, stop events, routes, page requests, and
any limit of the list; all for `DashboardSpec`, one tab on either side of it):

- `TabInvariant`: `TabInv`, the conjunction of what follows, and `DashboardTypes`: `DashboardTypeOK`.
- `SentAlertsAreRows`: `RaisedIsRecorded`, and `QuietFleet`: `QuietIsTrue`.
  `QuietIsTrue` speaks of the page only; what makes it inductive is `ReadInv`, that a list on its way to the
  page misses no open row it could hold as of its reading (an open row not among the newest open ones has
  `Limit` rows after it: a count of a finite set), `ServedInv`, that a resolve that was served took effect, so
  that its answer may be forgotten, and `ListInv`, that what the page misses was clicked on this visit or is
  being asked for. `PostInv` ties each post's state to its row, `ShortInv` each list to the limit of its query.
- `FiguresOfTheRoute`: `PageShowsItsOwn`. `EffectsInv` says that of all requests in flight one at most is not
  cancelled, the one of the page and route on the screen, which the cleanup of each effect brings about.
- `FiguresAgree`: `FiguresAddUp`. The queries of one page are answered at different times, while rows are written:
  `ReadingsInv` keeps that they saw the tables in the order they were answered and that rows seen are still
  there. The hours of a chart add up to its total by `TotalGrouped`, the grouping being by the hour of a row.

`TelemetryTypeOK`, `BufferBounded`, `TypeOK` and `LocksBelongToStarts` are proved and no longer checked by a run
of their own.

Assumed: `TableAssumption` (the bounds are naturals, null values are not buses, directions or requests),
`PersistAssumption` (the directions `route_directions` knows are directions), `LifecycleAssumption`,
`TelemetryAssumption`, `OtpAssumption`, `DriverTripAssumption` (the bounds are naturals),
`FeedAssumption` (so are the thresholds, `live` ends no later than `estimated`; the fleet is finite and the late buses are of it),
`StopAssumption` (a route has a stop; the deviation threshold is not 0; stops with a row are stops of the route, as is what positions say; the bounds are naturals),
`ToleranceAssumption`, `ThresholdAssumption` and `MapAssumption` (tolerances and thresholds are naturals, ordered as in the code; the ramp is
not 0; ways are sequences of points, speeds not negative) `QueryAssumption` (see section 2; a node of the map is in one place, and so is the passenger), and `AxisParallelAssumption` (each piece of a stitched line is parallel to an axis),
`BoardAssumption` (the bounds are naturals, the limit is not 0, and "all" is no kind),
`PagesAssumption` (so are the bounds and boardings, the hours are finite, and the first page and the alerts page
ask for nothing).

Only model-checked: liveness (`RequestsAnswered`, `QuietBusGoesStale`, `BacklogDrains`, `BoardCatchesUp`): fairness and
ENABLED are out of this prover's reach. Every invariant and every other action property of the passing runs is proved.

## 5. Not modelled

- Row locks one at a time: `StartLock` takes all rows of a bus in one step, so a deadlock between two UPDATEs that lock
  the same rows in different orders does not appear. Postgres would end it by failing one of them, which `StartFail` does
  without a reason.
- In `AdminPages`, `RoutesAnswered` selects the first route and runs the effect of that selection in one step; React runs
  the effect after the next render, with no answer of that page out in between. In the run of `Dashboard` one
  driver posts, so that no two alerts share a row is empty there; the theorem is for any number.
- In `StopEvents` a repeated trip_start finds its own trip cached. A restart of the process is a failure of its handlers
  followed by a repeated trip_start; one that finds another trip inferred meanwhile is in `PgPersist` only.
- What the ladder shows of a bus whose reports come late: `ShowsHonestly` is stated of the others; of such a bus only
  `TimestampsAreReal` and `QuietBusGoesStale` say something.
- The MQTT client's own reconnection and the Kafka client's partition assignment: a connection is up or
  down, an update of a bus stays in order (its key is the bus).
- The watchdog reads its clock once per tick and rows later; the model reads both at once, which
  can only make a tier later, never earlier.
- REST snapshots the apps load besides the socket (`GET /buses` over Redis), and the API's stubs (`buses.eta`,
  `routes.performance`, tickets), which answer nothing yet.
- That every handler of the stream-processor finishes although starts lock the rows it updates: with both
  services unsymmetrical under fairness the state space is out of reach of a run; `RequestsAnswered` shows it of the
  requests that contend for the same locks.
- The passenger's live map and what it hears of a spoken query before it is asked of the API.
- The charts of the analytics pages beyond their figures; the fleet's tiers on the model health page are those of
  `LiveFeed`, and the route performance figures themselves (a stub in the API).
- Clocks: one clock for all; a phone's clock that is wrong is out of scope.
- On the phone: occupancy tallies and SOS alerts are requests nobody waits for and change no state of the
  screen; the divergence filter is only the choice of which fixes are reported; a message handed to the
  MQTT client at QoS 0 counts as sent, and its 12 s HTTP timeout as a lost answer.
- Spherical geometry: two runtimes measure a line with different projections (UTM in geo-ingest,
  equirectangular here), and their lengths differ by a few metres; the model has one plane.
- Google densification (off without a key) and routes synthesized from a stop list.
- The values of the features sent to the ml-service; layout, styling, chart pages, build files; the
  gradient-boosted model itself (numerical code).

Where code and text disagree, or where the code promises less than one would think, without a run of its own:

- A late report is written over a newer one and published as live (`consumer.ts:27-77` looks at neither the timestamp nor the
  flag): it rewinds the position. `docs/IMPLEMENTATION_ARCHITECTURE.md:556-560` says that this must never happen, and
  that the consumer does not prevent it yet.
- A scoring tick that read a bus while it was live can bring it back as live, with the same report, after the watchdog
  has shown it as estimated and further on; `etaScoringLoop.ts:279-282` says a scored bus must not look artificially fresh.
  `HonestFeed` admits it for as long as `Lag`.
- A repeated trip_start makes a new `TripState`, which forgets that a deviation was reported: one deviation raises a second
  alert, though `pgPersist.ts:266` says one per continuous episode. `OneAlertPerEpisode` is about one object's episodes.
- A scored stop without a name is shown by the watchdog with its time beside the name dead reckoning found (`??`, `gateway.ts:71`),
  which the comment above it says "would pair a time with the wrong destination".
- A first way drawn backwards is never turned: the line runs over it twice and is accepted, though `reconcile.py:60` says
  that the gate below will catch real breaks.

## 6. Plan

1. The live map and route search screens: callbacks that answer after the screen moved on; voice parsing.
2. `Statistics`, `Simulator`, geo-ingest's upserts: bucketed statistics refreshed and reloaded, the
   divergence filter, replays of a snapshot; the features sent to the ml-service.
3. Abstract specifications: one trip per bus as what the trip API promises, a lossy ordered queue as what
   the phone's buffer promises, with refinements.
