---------------------------- MODULE RouteQueries ----------------------------
(***************************************************************************)
(* What the gateway answers passengers from the snapshot: journeys, stops  *)
(* around a point, and the search for a bus and a place somebody said      *)
(* (snapshot.service.ts, search.service.ts).  The snapshot holds the       *)
(* direction RouteProgress follows and others; it is read once, and the    *)
(* answers are functions of it.  A text is the set of its parts and is     *)
(* contained in another if its parts are.                                  *)
(***************************************************************************)
EXTENDS RouteProgress

CONSTANTS Own,        \* [ref, routeId, name, rank] of the direction ingested
          Others,     \* the other directions, in the order of the file: these and dir
          StopNames,  \* the name of each node, or Null
          Null,       \* no such text
          Texts,      \* what passengers ask for
          Here, Radii, Limits  \* where they are, how far they look, how many they take

(* A direction of the snapshot: a segment between each stop and the next,  *)
(* as long as they are apart, and a known speed is not 0.                  *)
IsSurveyed(dir) ==
    /\ dir.stops \in Seq(Range(dir.stops)) /\ dir.segs \in Seq(Range(dir.segs))
    /\ Len(dir.segs) = Len(dir.stops) - 1
    /\ \A s \in Range(dir.stops) : s.at \in Point /\ s.dist \in Nat
    /\ \A i \in DOMAIN dir.segs :
          /\ dir.segs[i].length = Abs(dir.stops[i + 1].dist - dir.stops[i].dist)
          /\ dir.segs[i].avgSpeed \in (Nat \ {0}) \cup {NoBaseline}

(* Every stop there can be; a node of the map is in one place.             *)
StopsThere ==
    Range(Candidates) \cup
    UNION ({Range(rel.stops) : rel \in Relations} \cup {Range(o.dir.stops) : o \in Range(Others)})

ASSUME QueryAssumption ==
    /\ Null \notin Texts /\ Here \in Point /\ Radii \subseteq Nat /\ Limits \subseteq Nat
    /\ Others \in Seq(Range(Others)) /\ \A o \in Range(Others) : IsSurveyed(o.dir) /\ o.rank \in Int
    /\ Own.rank \in Int /\ 0 \notin AvgSpeeds
    /\ \A s, t \in StopsThere : s.id = t.id => s.at = t.at

VARIABLES files,  \* the directions in the snapshot's files
          loaded  \* the snapshot, parsed once per process

Unknown == -1  \* no baseline_sec, hence no duration

(***************************************************************************)
(* Loading: the features of a direction by their sequence.                 *)
(***************************************************************************)

Files ==
    IF route = Rejected THEN Others
    ELSE <<[ref |-> Own.ref, routeId |-> Own.routeId, name |-> Own.name, rank |-> Own.rank, dir |-> route]>>
             \o Others

BySequence(features) ==
    Arranged(features, {p \in features \X features : p[1].sequence < p[2].sequence})
StopsOf(d) ==
    BySequence({[sequence |-> i, node |-> files[d].dir.stops[i].id, at |-> files[d].dir.stops[i].at] :
                   i \in DOMAIN files[d].dir.stops})
SegmentsOf(d) ==
    LET segs == files[d].dir.segs
    IN  BySequence({[sequence |-> i, lengthM |-> segs[i].length,
                     baselineSec |-> IF segs[i].avgSpeed = NoBaseline THEN Unknown
                                     ELSE segs[i].length \div segs[i].avgSpeed] : i \in DOMAIN segs})

Snapshot == [d \in DOMAIN files |->
                [ref |-> files[d].ref, routeId |-> files[d].routeId, name |-> files[d].name,
                 rank |-> files[d].rank, stops |-> StopsOf(d), segs |-> SegmentsOf(d)]]

QueriesInit == Init /\ files = Files /\ loaded = Snapshot
QueriesNext == Next /\ UNCHANGED <<files, loaded>>
QueriesSpec == QueriesInit /\ [][QueriesNext]_<<vars, files, loaded>>

(* Sorted by name; rank is the place of the name in the alphabet.          *)
ListRoutes(snapshot) ==
    LET dirs == DOMAIN snapshot
        before(d, e) == \/ snapshot[d].rank < snapshot[e].rank
                        \/ snapshot[d].rank = snapshot[e].rank /\ d < e
    IN  Arranged(dirs, {p \in dirs \X dirs : before(p[1], p[2])})

(***************************************************************************)
(* findJourneys.                                                           *)
(***************************************************************************)

Visits(dir, node) == {s.sequence : s \in {s \in Range(dir.stops) : s.node = node}}

(* The segments between two stops, none if they are not on the direction   *)
(* in this order.                                                          *)
Covered_ToStop(dir, from, to) ==
    IF Visits(dir, from) = {} \/ Visits(dir, to) = {} THEN {}
    ELSE {s \in Range(dir.segs) : s.sequence \in Min(Visits(dir, from)) .. Min(Visits(dir, to))}
Covered(dir, from, to) ==
    IF Visits(dir, from) = {} \/ Visits(dir, to) = {} THEN {}
    ELSE {s \in Range(dir.segs) : s.sequence \in Min(Visits(dir, from)) .. Min(Visits(dir, to)) - 1}

Journey(d, covered) ==
    [direction |-> d,
     distanceM |-> MapThenSumSet(LAMBDA s : s.lengthM, covered),
     durationSec |-> IF \E s \in covered : s.baselineSec = Unknown THEN Unknown
                     ELSE MapThenSumSet(LAMBDA s : s.baselineSec, covered)]

(* Unknown durations after every known one.                                *)
Sooner(j, k) == \/ j.durationSec # Unknown /\ (k.durationSec = Unknown \/ j.durationSec < k.durationSec)
                \/ j.durationSec = k.durationSec /\ j.direction < k.direction

FindJourneys(snapshot, from, to) ==
    LET covered(d) == Covered(snapshot[d], from, to)
        found == {Journey(d, covered(d)) : d \in {d \in DOMAIN snapshot : covered(d) # {}}}
    IN  Arranged(found, {p \in found \X found : Sooner(p[1], p[2])})

(***************************************************************************)
(* listAllStops and stopsNear: one row a node, with all that serve it.     *)
(***************************************************************************)

Servings(snapshot) ==
    UNION {{[direction |-> d, sequence |-> s.sequence, node |-> s.node, at |-> s.at] :
               s \in Range(snapshot[d].stops)} : d \in DOMAIN snapshot}
Earlier(s, t) == \/ s.direction < t.direction
                 \/ s.direction = t.direction /\ s.sequence < t.sequence

InTurn(servings) == Arranged(servings, {p \in servings \X servings : Earlier(p[1], p[2])})

ByNode(servings) ==
    {[node |-> node, routes |-> InTurn({s \in servings : s.node = node})] :
        node \in {s.node : s \in servings}}

ListAllStops(snapshot) == ByNode(Servings(snapshot))

OffsetOf(row) == OffsetSq(row.routes[1].at, Here)
Nearer(r, q) == \/ OffsetOf(r) < OffsetOf(q)
                \/ OffsetOf(r) = OffsetOf(q) /\ Earlier(r.routes[1], q.routes[1])

NearestFirst(rows) == Arranged(rows, {p \in rows \X rows : Nearer(p[1], p[2])})

StopsNear_FirstServing(snapshot, radius) ==
    LET near == {s \in Servings(snapshot) : OffsetSq(s.at, Here) <= Square(radius)}
        again(s) == \E t \in near : t.node = s.node /\ Earlier(t, s)
    IN  NearestFirst(ByNode({s \in near : ~again(s)}))
StopsNear(snapshot, radius) ==
    NearestFirst(ByNode({s \in Servings(snapshot) : OffsetSq(s.at, Here) <= Square(radius)}))

Nearby(snapshot, radius, limit) ==
    LET rows == StopsNear(snapshot, radius) IN SubSeq(rows, 1, Min({limit, Len(rows)}))

(***************************************************************************)
(* search.                                                                 *)
(***************************************************************************)

Includes(text, q) == text # Null /\ q \subseteq text

Among(seq, S) == FoldLeft(LAMBDA kept, x : IF x \in S THEN Append(kept, x) ELSE kept, <<>>, seq)

(* A number that is somebody's wins over numbers and names that contain it.*)
Alike(snapshot, q) ==
    {d \in DOMAIN snapshot : Includes(snapshot[d].ref, q) \/ Includes(snapshot[d].name, q)}
MatchRoutes_Contained(snapshot, q) == Among(ListRoutes(snapshot), Alike(snapshot, q))
MatchRoutes(snapshot, q) ==
    LET exact == {d \in DOMAIN snapshot : q \in {snapshot[d].ref, snapshot[d].routeId}}
    IN  Among(ListRoutes(snapshot), IF exact # {} THEN exact ELSE Alike(snapshot, q))

(* The stops of the routes, one route after the other; the first called so,*)
(* or else the first whose name contains it.                               *)
Calling(snapshot, d) ==
    [i \in DOMAIN snapshot[d].stops |-> [bus |-> d, node |-> snapshot[d].stops[i].node]]
MatchStop(snapshot, dirs, q) ==
    LET stops == FoldLeft(LAMBDA all, d : all \o Calling(snapshot, d), <<>>, dirs)
        called == {s \in Range(stops) : StopNames[s.node] = q}
        like == {s \in Range(stops) : Includes(StopNames[s.node], q)}
    IN  Among(stops, called) \o Among(stops, like)

Search(snapshot, bus, place) ==
    LET dirs == MatchRoutes(snapshot, bus)
        found == MatchStop(snapshot, dirs, place)
    IN  IF dirs = <<>> THEN [found |-> "no bus"]
        ELSE IF found = <<>> THEN [found |-> "no place", bus |-> dirs[1]]
        ELSE [found |-> "both", bus |-> found[1].bus, node |-> found[1].node]

(***************************************************************************)
(* Properties.  Each is asked once of a snapshot.                          *)
(***************************************************************************)

Node == {row.node : row \in ListAllStops(loaded)}
PlaceOf(d, node) == Min({i \in DOMAIN files[d].dir.stops : files[d].dir.stops[i].id = node})
Calls(d, node) == \E i \in DOMAIN files[d].dir.stops : files[d].dir.stops[i].id = node

(* What is found between two stops is what the line has between them.      *)
AreJourneys(found, from, to, nodes) ==
    LET before(d, a, b) == Calls(d, a) /\ Calls(d, b) /\ PlaceOf(d, a) < PlaceOf(d, b)
        stop(d, node) == files[d].dir.stops[PlaceOf(d, node)]
        hop(d, a, b) == CHOOSE j \in Range(FindJourneys(loaded, a, b)) : j.direction = d
        ahead(d, i) == files[d].dir.stops[i].dist <= files[d].dir.stops[i + 1].dist
    IN  /\ {j.direction : j \in Range(found)} = {d \in DOMAIN files : before(d, from, to)}
        /\ \A j \in Range(found) :
              LET d == j.direction
                  apart == stop(d, to).dist - stop(d, from).dist
              IN  /\ j.distanceM >= apart
                  /\ j.distanceM = apart <=>
                        \A i \in PlaceOf(d, from) .. PlaceOf(d, to) - 1 : ahead(d, i)
                  /\ \A via \in {n \in nodes : before(d, from, n) /\ before(d, n, to)} :
                        LET one == hop(d, from, via).durationSec
                            two == hop(d, via, to).durationSec
                        IN  IF Unknown \in {one, two} THEN j.durationSec = Unknown
                            ELSE j.durationSec = one + two
        /\ \A m, n \in DOMAIN found :
              (m < n /\ found[n].durationSec # Unknown) =>
                  found[m].durationSec \in 0 .. found[n].durationSec

(* snapshot.service.ts 256-302: a direction is offered exactly if it calls *)
(* at the first stop before the second; the distance is not less than what *)
(* lies between them along the line, and is exactly that unless one of the *)
(* stops on the way lies behind the one before it; a duration is known     *)
(* exactly if it is on every part of the way, and then the parts add up to *)
(* it; known ones come first and the shortest of them first.               *)
JourneysExact ==
    LET nodes == Node
    IN  last = NoFix => \A from, to \in nodes :
            AreJourneys(FindJourneys(loaded, from, to), from, to, nodes)

(* What is found around a point is what there is.                          *)
IsNearby(found, servings, radius, limit) ==
    LET shownNodes == {row.node : row \in Range(found)}
        away(node) == OffsetSq((CHOOSE s \in servings : s.node = node).at, Here)
    IN  /\ Len(found) = Cardinality(shownNodes) /\ Len(found) <= limit
        /\ \A k \in DOMAIN found :
              /\ away(found[k].node) <= Square(radius)
              /\ {s.direction : s \in Range(found[k].routes)}
                    = {d \in DOMAIN files : Calls(d, found[k].node)}
              /\ \A m \in 1 .. k : away(found[m].node) <= away(found[k].node)
        /\ \A node \in {s.node : s \in servings} \ shownNodes :
              away(node) <= Square(radius) =>
                  Len(found) = limit /\ \A row \in Range(found) : away(row.node) <= away(node)

(* stops.controller.ts 37-39 with snapshot.service.ts 328-367: every row   *)
(* is another stop within the radius, with everything that serves it; they *)
(* come nearest first; and what the limit cuts off is no nearer than what  *)
(* is shown.                                                               *)
NearbyComplete ==
    LET servings == Servings(loaded)
    IN  last = NoFix => \A radius \in Radii, limit \in Limits :
            IsNearby(Nearby(loaded, radius, limit), servings, radius, limit)

(* What was found of a bus and a place is what was asked for.              *)
IsAnswer(bus, place, found) ==
    LET numbered == {d \in DOMAIN files : bus \in {files[d].ref, files[d].routeId}}
        similar == {d \in DOMAIN files : Includes(files[d].ref, bus) \/ Includes(files[d].name, bus)}
        meant == IF numbered = {} THEN similar ELSE numbered
        nodes == {n \in Node : \E d \in meant : Calls(d, n)}
    IN  /\ (found.found = "no bus") <=> (meant = {})
        /\ found.found # "no bus" => found.bus \in meant
        /\ (found.found = "no place")
              => ~\E n \in nodes : Includes(StopNames[n], place)
        /\ found.found = "both" =>
              /\ Calls(found.bus, found.node) /\ Includes(StopNames[found.node], place)
              /\ (\E n \in nodes : StopNames[n] = place) => StopNames[found.node] = place

(* search.service.ts 49-105: the number of a bus never finds another that  *)
(* merely contains it; the stop found is one the bus found calls at, and   *)
(* its name is what was said if any stop of such a bus is called so;       *)
(* nothing is found only if no such bus calls at a place like it.          *)
SearchFinds ==
    last = NoFix => \A bus, place \in Texts : IsAnswer(bus, place, Search(loaded, bus, place))
=============================================================================
