---------------------------- MODULE RouteProgress ----------------------------
(***************************************************************************)
(* What passengers are told about one bus along its direction: the report  *)
(* handler of consumer.ts, the scoring loop, the watchdog of gateway.ts    *)
(* with the dead reckoning of deadReckoning.ts, over a direction that      *)
(* geo-ingest made out of a relation.  A task is one run of a handler, a   *)
(* scoring tick or a watchdog pass: it takes up the bus in one step and    *)
(* publishes in another, and anything may happen between the two.          *)
(***************************************************************************)
EXTENDS GeoIngest

CONSTANTS Relations,      \* [ways, stops] as Overpass returns them
          Candidates,     \* the bus stops around: a sequence of [id, at, named]
          AvgSpeeds,      \* speeds the routing engine answers, or NoBaseline
          Fixes, Speeds,  \* what the phone may report
          LiveMax, EstimatedMax, Ramp, EtaTtl,
          Upcoming,       \* N_UPCOMING_STOPS
          Task,           \* bound: so many handlers, ticks and passes at once
          MaxReports,     \* bound: reports of the bus
          MaxQueue,       \* bound: updates on the way to the gateway
          MaxAge          \* bound: ages beyond it are not told apart

(* In the chosen units the ramp's integral is an integer.                  *)
ASSUME ExactSpeeds ==
    \A v \in Speeds, w \in (AvgSpeeds \ {NoBaseline}) \cup Speeds, a \in LiveMax + 1 .. Ramp :
        ((w - v) * a * a) % (2 * Ramp) = 0

ASSUME ThresholdAssumption ==
    /\ {LiveMax, EstimatedMax, Ramp, EtaTtl, Upcoming, MaxReports, MaxQueue, MaxAge} \subseteq Nat
    /\ LiveMax < EstimatedMax /\ EstimatedMax < MaxAge /\ Ramp # 0

(* Ways are sequences of points; speeds are not negative.                  *)
ASSUME MapAssumption ==
    /\ \A rel \in Relations : /\ rel.ways \in Seq(Seq(Point))
                              /\ rel.stops \in Seq(Range(rel.stops))
                              /\ \A s \in Range(rel.stops) : s.at \in Point
    /\ Candidates \in Seq(Range(Candidates)) /\ \A s \in Range(Candidates) : s.at \in Point
    /\ Fixes \subseteq Point /\ Speeds \subseteq Nat /\ AvgSpeeds \subseteq Nat \cup {NoBaseline}

(* Geometry is exact on lines whose pieces are parallel to an axis.        *)
ASSUME AxisParallelAssumption ==
    \A rel \in {rel \in Relations : UsableWays(rel.ways) # <<>>} :
        LET line == StitchWays(rel.ways)
        IN  \A i \in Piece(line) : line[i][1] = line[i + 1][1] \/ line[i][2] = line[i + 1][2]

VARIABLES relation,  \* what Overpass returned
          route,     \* the direction the snapshot has of it, or Rejected
          last,      \* bus:{id}:position
          age,       \* of the last report
          reports,   \* how many have come
          etas,      \* latestEtaCache: the stops scored last
          mirror,    \* bus:{id}:eta with its time to live
          task,      \* what each task has taken up: whose it is, the row, its age
          queue,     \* the bus's partition of bus-state-updates
          shown      \* the last update passengers got

vars == <<relation, route, last, age, reports, etas, mirror, task, queue, shown>>

(* Stops are told by their index in route.stops; NoStop is null.           *)
NoStop == 0
NoFix == [at |-> <<0, 0>>, dist |-> -1, speed |-> 0, next |-> NoStop, name |-> NoStop]
TakenUp(by, row, a) == [by |-> by, row |-> row, age |-> a]
Idle == TakenUp("nobody", NoFix, 0)

(* An update; row and age say what it was computed from.                   *)
Update(work, tier, at, dist, ahead, eta) ==
    [by |-> work.by, row |-> work.row, age |-> work.age, tier |-> tier, at |-> at, dist |-> dist,
     next |-> ahead.next, name |-> ahead.name, toStop |-> ahead.toStop, eta |-> eta]
Ahead(next, name, toStop) == [next |-> next, name |-> name, toStop |-> toStop]
Nothing == Update(Idle, "none", NoFix.at, 0, Ahead(NoStop, NoStop, 0), NoStop)

NameOf(stop) == IF stop # NoStop /\ route.stops[stop].named THEN stop ELSE NoStop
FirstOf(stops) == IF stops = <<>> THEN NoStop ELSE stops[1]
OrElse(stop, fallback) == IF stop # NoStop THEN stop ELSE fallback

ClassifyAge(a) == IF a <= LiveMax THEN "live" ELSE IF a <= EstimatedMax THEN "estimated" ELSE "stale"

Init ==
    /\ relation \in Relations
    /\ \E avg \in AvgSpeeds :
          route = ReconcileOne(relation, Candidates,
                               [i \in 1 .. Len(relation.stops) + Len(Candidates) |-> avg])
    /\ last = NoFix /\ age = 0 /\ reports = 0
    /\ etas = <<>> /\ mirror = [stops |-> <<>>, ttl |-> 0]
    /\ task = [t \in Task |-> Idle] /\ queue = <<>> /\ shown = Nothing

Working(t, by) == task[t].by = by
Finishes(t) == task' = [task EXCEPT ![t] = Idle]

(* producer.send, which may fail.                                          *)
Send(update) == Len(queue) < MaxQueue /\ queue' \in {queue, Append(queue, update)}

(***************************************************************************)
(* handlePing.                                                             *)
(***************************************************************************)

(* mapMatch: a direction the snapshot does not have matches nothing.       *)
MapMatch(fix) ==
    IF route = Rejected THEN [dist |-> 0, next |-> NoStop, toStop |-> 0]
    ELSE LET d == ProjectOntoPolyline(fix, route.line).dist
             ahead == NextStopFrom(route, d)
         IN  [dist |-> d, next |-> ahead.stop, toStop |-> ahead.dist]

(* The position is written to Redis; the update is sent once that is done, *)
(* with the stops scored last.                                             *)
Ping(t, fix, speed) ==
    LET matched == MapMatch(fix)
        row == [at |-> fix, dist |-> matched.dist, speed |-> speed,
                next |-> matched.next, name |-> NameOf(matched.next)]
    IN  /\ task[t] = Idle /\ reports < MaxReports
        /\ last' = row /\ age' = 0 /\ reports' = reports + 1
        /\ task' = [task EXCEPT ![t] = TakenUp("ping", row, 0)]
        /\ UNCHANGED <<relation, route, etas, mirror, queue, shown>>

PingUpdate(work, cached) ==
    Update(work, "live", work.row.at, work.row.dist,
           Ahead(work.row.next, work.row.name, MapMatch(work.row.at).toStop), cached)

PingSend(t) ==
    /\ Working(t, "ping") /\ Finishes(t)
    /\ Send(PingUpdate(task[t], FirstOf(etas)))
    /\ UNCHANGED <<relation, route, last, age, reports, etas, mirror, shown>>

(***************************************************************************)
(* The scoring loop.                                                       *)
(***************************************************************************)

(* The segments buildQuery scores: from the first that ends at or after d. *)
ScoredFrom_Unclipped(notPassed) ==
    IF notPassed = {} THEN <<>> ELSE [i \in 1 .. Upcoming |-> Min(notPassed) + i]
ScoredFrom(notPassed) ==
    LET from == Min(notPassed)
        to == Min({from + Upcoming - 1, Len(route.segs)})
    IN  IF notPassed = {} THEN <<>> ELSE [i \in 1 .. to - from + 1 |-> from + i]

BuildQuery_Strictly(d) == ScoredFrom({i \in DOMAIN route.segs : d < ToDist(route, i)})
BuildQuery(d) == ScoredFrom({i \in DOMAIN route.segs : d <= ToDist(route, i)})

(* A tick reads the row and asks the model about the stops ahead of it.    *)
ScoreRead(t) ==
    /\ task[t] = Idle /\ last # NoFix /\ age <= LiveMax
    /\ BuildQuery(last.dist) # <<>>
    /\ task' = [task EXCEPT ![t] = TakenUp("score", last, age)]
    /\ UNCHANGED <<relation, route, last, age, reports, etas, mirror, queue, shown>>

ScoreUpdate(work, first) ==
    Update(work, "live", work.row.at, work.row.dist,
           Ahead(first, NameOf(first), IF route.stops[first].dist > work.row.dist
                                       THEN route.stops[first].dist - work.row.dist ELSE 0), first)

(* Its answer: the mirror's write may be dropped.                          *)
ScoreAnswer(t) ==
    LET stops == BuildQuery(task[t].row.dist)
    IN  /\ Working(t, "score") /\ Finishes(t)
        /\ etas' = stops
        /\ mirror' \in {mirror, [stops |-> stops, ttl |-> EtaTtl]}
        /\ Send(ScoreUpdate(task[t], stops[1]))
        /\ UNCHANGED <<relation, route, last, age, reports, shown>>

(* The process restarts: its map is empty and what it was doing is over,   *)
(* Redis keeps the mirror.                                                 *)
Restart ==
    /\ etas' = <<>>
    /\ task' = [t \in Task |-> IF Working(t, "watch") THEN task[t] ELSE Idle]
    /\ <<etas, task>>' # <<etas, task>>
    /\ UNCHANGED <<relation, route, last, age, reports, mirror, queue, shown>>

(***************************************************************************)
(* Dead reckoning and the watchdog.                                        *)
(***************************************************************************)

IntegratedDistance_Blended(v0, vh, a) ==
    (v0 + ((vh - v0) * Min({a, Ramp})) \div Ramp) * a
IntegratedDistance(v0, vh, a) ==
    IF a <= Ramp THEN v0 * a + ((vh - v0) * a * a) \div (2 * Ramp)
    ELSE ((v0 + vh) * Ramp) \div 2 + vh * (a - Ramp)

HistoricalSpeed(row) ==
    LET avg == route.segs[FindSegmentAtDistance(route, row.dist)].avgSpeed
    IN  IF avg = NoBaseline THEN row.speed ELSE avg

EstimatePosition(row, a) ==
    IF route = Rejected
    THEN [tier |-> "stale", at |-> row.at, dist |-> row.dist, toStop |-> 0, name |-> row.name]
    ELSE LET travelled == IntegratedDistance(row.speed, HistoricalSpeed(row), a)
             d == Min({row.dist + travelled, route.total})
             ahead == NextStopFrom(route, d)
         IN  [tier |-> ClassifyAge(a), at |-> PointAtDistance(route.line, d), dist |-> d,
              toStop |-> ahead.dist, name |-> OrElse(NameOf(ahead.stop), row.name)]

(* A pass reads the row and then the mirror, and emits.                    *)
WatchRead(t) ==
    /\ task[t] = Idle /\ last # NoFix /\ age > LiveMax
    /\ task' = [task EXCEPT ![t] = TakenUp("watch", last, age)]
    /\ UNCHANGED <<relation, route, last, age, reports, etas, mirror, queue, shown>>

ShownName_Fresh(cached, estimate) == OrElse(estimate.name, NameOf(cached))
ShownName(cached, estimate) == OrElse(NameOf(cached), estimate.name)

WatchUpdate(work, cached) ==
    LET estimate == EstimatePosition(work.row, work.age)
    IN  Update(work, estimate.tier, estimate.at, estimate.dist,
               Ahead(OrElse(cached, work.row.next), ShownName(cached, estimate), estimate.toStop),
               cached)

WatchEmit(t) ==
    /\ Working(t, "watch") /\ Finishes(t)
    /\ shown' = WatchUpdate(task[t], FirstOf(mirror.stops))
    /\ UNCHANGED <<relation, route, last, age, reports, etas, mirror, queue>>

(* The gateway passes on what it consumes.                                 *)
Forward ==
    /\ queue # <<>>
    /\ queue' = Tail(queue) /\ shown' = Head(queue)
    /\ UNCHANGED <<relation, route, last, age, reports, etas, mirror, task>>

(* Time passes; Redis drops the mirror when its time to live is over.      *)
Tick ==
    LET left == mirror.ttl - 1
    IN  /\ last # NoFix /\ age < MaxAge
        /\ age' = age + 1
        /\ mirror' = IF left > 0 THEN [mirror EXCEPT !.ttl = left]
                     ELSE [stops |-> <<>>, ttl |-> 0]
        /\ UNCHANGED <<relation, route, last, reports, etas, task, queue, shown>>

(* An await of a task fails: Redis, the model.                             *)
Fails(t) ==
    /\ task[t] # Idle /\ Finishes(t)
    /\ UNCHANGED <<relation, route, last, age, reports, etas, mirror, queue, shown>>

Next == \/ \E t \in Task :
              \/ \E fix \in Fixes, speed \in Speeds : Ping(t, fix, speed)
              \/ PingSend(t) \/ ScoreRead(t) \/ ScoreAnswer(t)
              \/ WatchRead(t) \/ WatchEmit(t) \/ Fails(t)
        \/ Forward \/ Restart \/ Tick

ProgressSpec == Init /\ [][Next]_vars

(***************************************************************************)
(* Properties.                                                             *)
(***************************************************************************)

Stop == IF route = Rejected THEN {NoStop} ELSE {NoStop} \cup DOMAIN route.stops

(* Every value is of the kind the code keeps; stops are stops of the       *)
(* direction and distances never negative, in all that is on its way too.  *)
RowTyped(row) ==
    /\ row.at \in Fixes /\ row.dist \in Nat /\ row.speed \in Speeds
    /\ {row.next, row.name} \subseteq Stop
UpdateTyped(u) ==
    /\ RowTyped(u.row) /\ u.age \in 0 .. MaxAge
    /\ {u.next, u.name, u.eta} \subseteq Stop /\ u.dist \in Nat /\ u.toStop \in Nat
ProgressTypeOK ==
    /\ relation \in Relations /\ age \in 0 .. MaxAge /\ reports \in 0 .. MaxReports
    /\ last = NoFix \/ RowTyped(last)
    /\ Range(etas) \cup Range(mirror.stops) \subseteq Stop \ {NoStop}
    /\ mirror.ttl \in 0 .. EtaTtl
    /\ \A t \in Task : task[t] = Idle \/ (RowTyped(task[t].row) /\ task[t].age \in 0 .. MaxAge)
    /\ Len(queue) <= MaxQueue
    /\ \A u \in Range(queue) \cup {shown} : u = Nothing \/ UpdateTyped(u)

(* reconcile.py 40-61 and 147-174, of every relation ingested: ways that   *)
(* chain end to end, the first as it is drawn and each later one in one    *)
(* direction or the other, are stitched into one line that is exactly as   *)
(* long as they are together; inferred stops are stops near the line, in   *)
(* order, no two of them closer than the spacing; and no stop near the     *)
(* line was left out that is further than the spacing from all others.  A  *)
(* first way drawn backwards is left out because the code does not stitch  *)
(* it whole: the line runs over it twice, and reconcile.py 60, "validation *)
(* gate below will catch real breaks", does not hold of it.                *)
ChainsWith(ways, back) ==
    LET way(i) == IF back[i] THEN Reverse(ways[i]) ELSE ways[i]
    IN  \A i \in 2 .. Len(ways) : Last(way(i - 1)) = Head(way(i))
Chained(ways) == \E back \in [DOMAIN ways -> BOOLEAN] : ~back[1] /\ ChainsWith(ways, back)
LengthTogether(ways) == MapThenSumSet(LAMBDA i : LineLength(ways[i]), DOMAIN ways)
StitchedWhole ==
    LET ways == UsableWays(relation.ways)
    IN  Chained(ways) => route.total = LengthTogether(ways)

InferredStopsSpaced ==
    LET on(i) == ProjectOntoPolyline(Candidates[i].at, route.line)
        near == {i \in DOMAIN Candidates : on(i).offsetSq <= Square(StopBuffer)}
    IN  /\ \A i \in 2 .. Len(route.stops) :
              route.stops[i].dist - route.stops[i - 1].dist >= StopSpacing
        /\ \A i \in near :
              (\A j \in near \ {i} : Abs(on(i).dist - on(j).dist) >= StopSpacing)
                 => \E k \in DOMAIN route.stops : route.stops[k].id = Candidates[i].id

IngestedRoute ==
    LET inferred == RouteFromRelation(relation, [i \in 1 .. 9 |-> NoBaseline]) = Rejected
    IN  (last = NoFix /\ route # Rejected) => StitchedWhole /\ (inferred => InferredStopsSpaced)

(* geo.ts 68-132 against the definition: when a report is matched, no      *)
(* point of the line is nearer to it than the one it was matched to; and   *)
(* the marker of an estimate is on the line, and matching it again gives   *)
(* the distance it was placed at, or a distance an earlier pass of the     *)
(* line has at the same place.                                             *)
MatchIsNearest ==
    route # Rejected =>
        /\ shown.by = "ping" =>
              \A d \in 0 .. route.total :
                 OffsetSq(shown.at, PointAtDistance(route.line, shown.dist))
                   <= OffsetSq(shown.at, PointAtDistance(route.line, d))
        /\ shown.by = "watch" =>
              LET again == ProjectOntoPolyline(shown.at, route.line)
              IN  /\ again.offsetSq = 0 /\ again.dist <= shown.dist
                  /\ PointAtDistance(route.line, again.dist) = shown.at

(* deadReckoning.ts 59-65 and 79-122: of two updates made out of the same  *)
(* report, the one computed later never has the bus further back, and none *)
(* has it off its line, whoever made them, however the last speed and the  *)
(* segment's speed differ, and in whatever order they came.  The one shown *)
(* last need not be the one computed last: a scoring tick that waited for  *)
(* its answer while the watchdog emitted takes the bus back to where it    *)
(* read it.                                                                *)
ExtrapolationAdvances ==
    [][(shown'.row = shown.row /\ shown # Nothing) =>
           /\ shown.age <= shown'.age => shown.dist <= shown'.dist
           /\ shown'.age <= shown.age => shown'.dist <= shown.dist
           /\ route # Rejected => shown'.dist <= route.total]_vars

(* etaScoringLoop.ts 131-144 against routeStore.ts 157-166: of the row it  *)
(* scored, the scoring loop (findIndex over segments) publishes the next   *)
(* stop and the distance to it that the report handler (nextStopFrom over  *)
(* stops) found, once the bus is past the first stop, also exactly at a    *)
(* stop.  And gateway.ts 70-71: where the scoring loop or the watchdog     *)
(* publish a time, the stop published beside it is the stop it was scored  *)
(* for, and so is the name if that stop has one.  Of a stop without a name *)
(* the comment there ("would pair a time with the wrong destination") does *)
(* not hold: ?? puts the name dead reckoning found beside it.  The report  *)
(* handler claims no such thing: it sends its own stop with whatever was   *)
(* scored last.                                                            *)
NextStopAgrees ==
    /\ (shown.by = "score" /\ shown.row.dist > route.stops[1].dist) =>
          /\ shown.next = shown.row.next
          /\ shown.toStop = NextStopFrom(route, shown.row.dist).dist
    /\ (shown.by \in {"score", "watch"} /\ shown.eta # NoStop) =>
          /\ shown.next = shown.eta
          /\ route.stops[shown.eta].named => shown.name = shown.eta
=============================================================================
