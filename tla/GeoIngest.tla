------------------------------ MODULE GeoIngest ------------------------------
(***************************************************************************)
(* From an OSM relation to a direction of the snapshot: reconcile.py,      *)
(* enrich.py's baselines and what routeStore.ts reads back.  A relation is *)
(* its ways and its stop members; candidates are the bus stops found       *)
(* around.  A stop is [id, at, named].                                     *)
(***************************************************************************)
EXTENDS RouteGeometry

CONSTANTS JoinTolerance, SnapTolerance, StopBuffer, StopSpacing

ASSUME ToleranceAssumption ==
    {JoinTolerance, SnapTolerance, StopBuffer, StopSpacing} \subseteq Nat

(* RouteValidationError.                                                   *)
Rejected == [line |-> <<>>, total |-> 0, stops |-> <<>>, segs |-> <<>>]

(* One way is appended in the direction that continues the line.           *)
JoinWay_AsGiven(line, way) == line \o Tail(way)
JoinWay(line, way) ==
    LET toStart == OffsetSq(Last(line), way[1])
        toEnd == OffsetSq(Last(line), Last(way))
        tolerance == Square(JoinTolerance)
    IN  line \o (CASE toStart <= tolerance /\ toStart <= toEnd -> Tail(way)
                   [] ~(toStart <= tolerance /\ toStart <= toEnd) /\ toEnd <= tolerance ->
                         Tail(Reverse(way))
                   [] OTHER -> way)

UsableWays(ways) ==
    FoldLeft(LAMBDA usable, w : IF Len(w) >= 2 THEN Append(usable, w) ELSE usable, <<>>, ways)
StitchWays(ways) == FoldLeft(JoinWay, Head(UsableWays(ways)), Tail(UsableWays(ways)))

(* A stop listed twice in a row counts once.                               *)
StopsFromMembers(members) ==
    FoldLeft(LAMBDA stops, m : IF stops # <<>> /\ Last(stops).id = m.id THEN stops
                               ELSE Append(stops, m), <<>>, members)

(* Stop order may go back by 2% of the line.                               *)
InOrder(line, stops) ==
    \A i \in 2 .. Len(stops) :
        50 * (ProjectOntoPolyline(stops[i].at, line).dist
                - ProjectOntoPolyline(stops[i - 1].at, line).dist) >= -LineLength(line)

(* Every stop close to a vertex of the line.                               *)
NearVertices(line, stops) ==
    \A i \in DOMAIN stops :
        \E v \in DOMAIN line : OffsetSq(stops[i].at, line[v]) <= Square(SnapTolerance)

(* A set in the order R, a set of pairs: i - 1 are before the i-th.        *)
Arranged(S, R) ==
    [i \in 1 .. Cardinality(S) |-> CHOOSE x \in S : Cardinality({y \in S : <<y, x>> \in R}) = i - 1]

(* Stops near the line in the order of their projection; of two closer     *)
(* than the spacing the one nearer to the line stays.                      *)
KeepSpaced(kept, c) ==
    IF kept # <<>> /\ c.dist - Last(kept).dist < StopSpacing
    THEN (IF c.offsetSq < Last(kept).offsetSq THEN [kept EXCEPT ![Len(kept)] = c] ELSE kept)
    ELSE Append(kept, c)

InferStopsAlongLine(line, candidates) ==
    LET on(i) == ProjectOntoPolyline(candidates[i].at, line)
        near == {i \in DOMAIN candidates : on(i).offsetSq <= Square(StopBuffer)}
        found == {[dist |-> on(i).dist, offsetSq |-> on(i).offsetSq, of |-> i] : i \in near}
        before(a, b) == a.dist < b.dist \/ (a.dist = b.dist /\ a.of < b.of)
        byDist == Arranged(found, {p \in found \X found : before(p[1], p[2])})
        kept == FoldLeft(KeepSpaced, <<>>, byDist)
    IN  [i \in DOMAIN kept |-> candidates[kept[i].of]]

(* build_segments, the baselines of enrich (avg: OSRM's speed for each     *)
(* segment or NoBaseline) and what loadSnapshot makes of them.             *)
NoBaseline == -1

DirectionOf(line, stops, avg) ==
    LET at(i) == ProjectOntoPolyline(stops[i].at, line).dist
    IN  [line |-> line, total |-> LineLength(line),
         stops |-> [i \in DOMAIN stops |-> [id |-> stops[i].id, named |-> stops[i].named,
                                            at |-> stops[i].at, dist |-> at(i)]],
         segs |-> [i \in 1 .. Len(stops) - 1 |-> [length |-> Abs(at(i + 1) - at(i)),
                                                  avgSpeed |-> avg[i]]]]

RouteFromRelation(rel, avg) ==
    LET line == StitchWays(rel.ways)
        stops == StopsFromMembers(rel.stops)
    IN  IF Len(stops) >= 2 /\ NearVertices(line, stops) /\ InOrder(line, stops)
        THEN DirectionOf(line, stops, avg) ELSE Rejected

RouteWithInferredStops(rel, candidates, avg) ==
    LET line == StitchWays(rel.ways)
        stops == InferStopsAlongLine(line, candidates)
    IN  IF Len(stops) >= 2 /\ InOrder(line, stops) THEN DirectionOf(line, stops, avg) ELSE Rejected

(* Explicit stops first; whatever is wrong with them, inferred stops next. *)
ReconcileOne(rel, candidates, avg) ==
    IF UsableWays(rel.ways) = <<>> THEN Rejected
    ELSE IF RouteFromRelation(rel, avg) # Rejected THEN RouteFromRelation(rel, avg)
    ELSE RouteWithInferredStops(rel, candidates, avg)
=============================================================================
