----------------------------- MODULE AdminPages -----------------------------
(***************************************************************************)
(* The analytics pages of the dashboard (RoutePerformance,                 *)
(* PassengerLoadAnalytics, DemandSupplyPlanning, ModelHealth) and the      *)
(* queries they are answered with (admin-analytics.service.ts).  One page  *)
(* is mounted; each request is a sequence of queries between which the     *)
(* tables go on changing, and is answered, fails, or is cancelled by the   *)
(* effect that sent it.                                                    *)
(***************************************************************************)
EXTENDS Naturals, Sequences, FiniteSetsExt, Functions

CONSTANTS Route,     \* directions
          NoRoute,   \* nothing selected, or no answer yet
          Hour,      \* hours a stop event may fall in
          Request,   \* bound: requests in flight at one time
          Boarding,  \* passengers who may board at a stop
          MaxTrip, MaxEvent,  \* bounds: rows
          FleetMap,  \* the page the dashboard opens with, which asks for nothing here
          Other      \* stands for the page of AlertBoard, when it is open

(* The pages that ask for something.                                       *)
Page == {"performance", "load", "demand", "health"}

ASSUME PagesAssumption ==
    /\ NoRoute \notin Route /\ IsFiniteSet(Hour) /\ {FleetMap, Other} \cap Page = {}
    /\ Boarding \subseteq Nat /\ {MaxTrip, MaxEvent} \subseteq Nat

VARIABLES trips,      \* rows of trips: [route, running]
          stopEvents, \* rows of stop_events: [trip, hour, boarding]
          page,       \* the page the router shows
          view,       \* its state
          request,    \* its requests, and cancelled ones of pages before it
          opened      \* history: stop events there were when the page opened

pagesVars == <<trips, stopEvents, page, view, request, opened>>
tableVars == <<trips, stopEvents>>

Asked == {"routes", "performance", "ridership", "demand", "health"}

(* stop_events and trips only grow, so what a query read of them is how    *)
(* far they had come; `running` and the ml-service's answer are kept.      *)
Reading == [events : 0 .. MaxEvent, trips : 0 .. MaxTrip, running : SUBSET (1 .. MaxTrip),
            model : {"none", "metrics", "error"}]
RequestRecord == [asked : Asked \cup {"idle"}, route : Route \cup {NoRoute},
                  cancelled : BOOLEAN, got : Seq(Reading)]
IdleRequest == [asked |-> "idle", route |-> NoRoute, cancelled |-> FALSE, got |-> <<>>]

View == [selected : Route \cup {NoRoute}, perf : Route \cup {NoRoute}, data : Seq(Reading),
         loading : BOOLEAN, loadingPerf : BOOLEAN, error : BOOLEAN]
FreshView == [selected |-> NoRoute, perf |-> NoRoute, data |-> <<>>, loading |-> TRUE,
              loadingPerf |-> FALSE, error |-> FALSE]

PagesInit == /\ trips = <<>> /\ stopEvents = <<>>
             /\ page \in {Other, FleetMap} /\ view = FreshView /\ opened = 0
             /\ request = [q \in Request |-> IdleRequest]

(***************************************************************************)
(* The tables; they stand still while no open page reads them.             *)
(***************************************************************************)

Read == page \in {"load", "demand"}
TripStarted(r) == /\ Read /\ Len(trips) < MaxTrip
                  /\ trips' = Append(trips, [route |-> r, running |-> TRUE])
                  /\ UNCHANGED <<stopEvents, page, view, request, opened>>
TripEnded(t) == /\ Read /\ trips[t].running
                /\ trips' = [trips EXCEPT ![t].running = FALSE]
                /\ UNCHANGED <<stopEvents, page, view, request, opened>>
StopRecorded(t, h, n) ==
    /\ Read /\ Len(stopEvents) < MaxEvent
    /\ stopEvents' = Append(stopEvents, [trip |-> t, hour |-> h, boarding |-> n])
    /\ UNCHANGED <<trips, page, view, request, opened>>

(***************************************************************************)
(* The queries.                                                            *)
(***************************************************************************)

Boardings(E) == MapThenSumSet(LAMBDA e : stopEvents[e].boarding, E)

(* ridership: grouped by hour, in all, and the number of rows.             *)
ByHour(n) == [h \in Hour |-> LET E == {e \in 1 .. n : stopEvents[e].hour = h}
                             IN  [boardings |-> Boardings(E), events |-> Cardinality(E)]]
ByDayType(n) == Boardings(1 .. n)
SampleStopEvents(n) == n

(* demandSupply: trips joined with their stop events, a row of nulls for a *)
(* trip without any, then counted per route.                               *)
NoEvent == 0
Joined(d) == {row \in (1 .. d.trips) \X (0 .. d.events) :
                 IF row[2] = NoEvent THEN \A e \in 1 .. d.events : stopEvents[e].trip # row[1]
                 ELSE stopEvents[row[2]].trip = row[1]}
TotalBoardings(d, r) ==
    Boardings({row[2] : row \in {row \in Joined(d) : trips[row[1]].route = r}} \ {NoEvent})
TripCount_OfRows(d, r) == Cardinality({row \in Joined(d) : trips[row[1]].route = r})
TripCount(d, r) == Cardinality({row[1] : row \in {row \in Joined(d) : trips[row[1]].route = r}})
RunningTrips(d, r) == Cardinality({t \in d.running : trips[t].route = r})

(* avgBoardingsPerTrip / runningTrips < 1, without the divisions.          *)
SupplyStatus(d, r, running) ==
    IF running = 0 THEN IF TotalBoardings(d, r) > 0 THEN "under-supplied" ELSE "no-active-service"
    ELSE IF TotalBoardings(d, r) < TripCount(d, r) * running THEN "over-supplied" ELSE "balanced"
Routes(d) == {r \in Route : TripCount(d, r) > 0}

(***************************************************************************)
(* The requests.                                                           *)
(***************************************************************************)

First(p) == CASE p = "performance" -> "routes" [] p = "load" -> "ridership"
              [] p = "demand" -> "demand"      [] p = "health" -> "health"
Queries == [asked \in Asked |-> CASE asked = "ridership" -> 3 [] asked \in {"demand", "health"} -> 2
                                  [] OTHER -> 1]

(* The effect sends a request after cancelling what `superseded` it.       *)
Send_Uncancelled(q, asked, r, superseded) ==
    /\ request[q] = IdleRequest
    /\ request' = [request EXCEPT ![q].asked = asked, ![q].route = r]
Send(q, asked, r, superseded) ==
    /\ request[q] = IdleRequest
    /\ request' = [p \in Request |->
          IF p = q THEN [IdleRequest EXCEPT !.asked = asked, !.route = r]
          ELSE IF request[p].asked \in superseded THEN [request[p] EXCEPT !.cancelled = TRUE, !.got = <<>>]
          ELSE request[p]]

OpenPage(p, q) == /\ page \notin {p, Other}
              /\ page' = p /\ view' = FreshView /\ opened' = Len(stopEvents)
              /\ Send(q, First(p), NoRoute, Asked)
              /\ UNCHANGED tableVars

Select(r, q) == /\ page = "performance" /\ view.selected \notin {r, NoRoute}
                /\ view' = [view EXCEPT !.selected = r, !.loadingPerf = TRUE]
                /\ Send(q, "performance", r, {"performance"})
                /\ UNCHANGED <<tableVars, page, opened>>

(* What the next query of a request reads.                                 *)
Blank == [events |-> 0, trips |-> 0, running |-> {}, model |-> "none"]
NowRead(q) ==
    CASE request[q].asked = "ridership" -> [Blank EXCEPT !.events = Len(stopEvents)]
      [] request[q].asked = "demand" /\ request[q].got = <<>> ->
            [Blank EXCEPT !.events = Len(stopEvents), !.trips = Len(trips)]
      [] request[q].asked = "demand" /\ request[q].got # <<>> ->
            [Blank EXCEPT !.running = {t \in DOMAIN trips : trips[t].running}]
      [] OTHER -> Blank
Got(q, reading) == /\ request' = [request EXCEPT ![q].got = Append(@, reading)]
                   /\ UNCHANGED <<tableVars, page, view, opened>>

Query(q) == /\ request[q].asked # "idle" /\ ~request[q].cancelled
            /\ Len(request[q].got) < Queries[request[q].asked]
            /\ request[q].asked = "health" => request[q].got # <<>>
            /\ Got(q, NowRead(q))

(* modelHealth asks the ml-service first; its silence is cut off after 3 s *)
(* and, like its errors, only put in place of the metrics.                 *)
Model(q, outcome) == /\ request[q].asked = "health" /\ request[q].got = <<>>
                     /\ ~request[q].cancelled
                     /\ Got(q, [Blank EXCEPT !.model = outcome])
ModelAnswered(q) == Model(q, "metrics")
ModelTimedOut(q) == Model(q, "error")

(* .then and .finally, if the effect that asked is not cancelled.          *)
Shown(q) ==
    LET asked == request[q].asked IN
    IF asked = "performance" THEN [view EXCEPT !.perf = request[q].route, !.loadingPerf = FALSE]
    ELSE [view EXCEPT !.data = request[q].got, !.loading = FALSE]

Answered(q) ==
    /\ request[q].asked \notin {"idle", "routes"} /\ ~request[q].cancelled
    /\ Len(request[q].got) = Queries[request[q].asked]
    /\ request' = [request EXCEPT ![q] = IdleRequest]
    /\ view' = Shown(q)
    /\ UNCHANGED <<tableVars, page, opened>>

(* The list of routes selects its first, which is a request of its own.    *)
RoutesAnswered(q, r) ==
    /\ request[q].asked = "routes" /\ request[q].got # <<>> /\ ~request[q].cancelled
    /\ view' = [view EXCEPT !.selected = r, !.loading = FALSE, !.loadingPerf = r # NoRoute]
    /\ request' = [request EXCEPT ![q] = IF r = NoRoute THEN IdleRequest
                   ELSE [IdleRequest EXCEPT !.asked = "performance", !.route = r]]
    /\ UNCHANGED <<tableVars, page, opened>>

Failed(q) ==
    /\ request[q].asked # "idle" /\ ~request[q].cancelled
    /\ request' = [request EXCEPT ![q] = IdleRequest]
    /\ view' = IF request[q].asked = "performance"
               THEN [view EXCEPT !.error = TRUE, !.loadingPerf = FALSE]
               ELSE [view EXCEPT !.error = TRUE, !.loading = FALSE]
    /\ UNCHANGED <<tableVars, page, opened>>

(* Whatever becomes of a cancelled request, nobody looks at it.            *)
Ignored(q) == /\ request[q].cancelled
              /\ request' = [request EXCEPT ![q] = IdleRequest]
              /\ UNCHANGED <<tableVars, page, view, opened>>

Requested(q) == \/ Query(q) \/ ModelTimedOut(q) \/ Answered(q) \/ Ignored(q)
                \/ \E r \in Route \cup {NoRoute} : RoutesAnswered(q, r)
PagesNext ==
    \/ \E r \in Route : TripStarted(r)
    \/ \E t \in DOMAIN trips : TripEnded(t) \/ \E h \in Hour, n \in Boarding : StopRecorded(t, h, n)
    \/ \E q \in Request : \/ \E p \in Page : OpenPage(p, q)
                          \/ \E r \in Route : Select(r, q)
                          \/ Requested(q) \/ ModelAnswered(q) \/ Failed(q)

(***************************************************************************)
(* Properties.                                                             *)
(***************************************************************************)

(* Every variable has its type.                                            *)
PagesTypeOK ==
    /\ trips \in Seq([route : Route, running : BOOLEAN])
    /\ stopEvents \in Seq([trip : DOMAIN trips, hour : Hour, boarding : Boarding])
    /\ page \in Page \cup {FleetMap, Other} /\ view \in View
    /\ request \in [Request -> RequestRecord] /\ opened \in 0 .. Len(stopEvents)

(* RoutePerformance.tsx 71-83: figures that are neither loading nor under  *)
(* an error banner are those of the route selected, however fast routes    *)
(* are switched and in whatever order the answers come; and no skeleton    *)
(* stays on a screen for nothing: what is loading was asked for by an      *)
(* effect that still stands, and its request is in flight.                 *)
PageShowsItsOwn ==
    LET awaited(asked) == \E q \in Request : ~request[q].cancelled /\ request[q].asked = asked
    IN  /\ (page = "performance" /\ ~view.loading /\ ~view.loadingPerf /\ ~view.error) =>
              view.perf = view.selected
        /\ (page \in Page /\ view.loading) => awaited(First(page))
        /\ view.loadingPerf => awaited("performance")

(* admin-analytics.service.ts 38-140, though its queries see different     *)
(* moments: the charts never count more events than the sample they are    *)
(* said to be of nor more boardings by hour than in all, and every event   *)
(* before the page was opened is in them; no trip is counted twice; and    *)
(* "no active service" is not said of a route on which people boarded      *)
(* before the page was opened.                                             *)
FiguresAddUp ==
    view.data # <<>> =>
        /\ page = "load" =>
              LET hours == ByHour(view.data[1].events)
                  charted == MapThenSumSet(LAMBDA h : hours[h].events, Hour)
                  boarded == MapThenSumSet(LAMBDA h : hours[h].boardings, Hour)
              IN  /\ opened <= charted /\ charted <= SampleStopEvents(view.data[3].events)
                  /\ boarded <= ByDayType(view.data[2].events)
        /\ page = "demand" =>
              LET d == view.data[1] IN
              \A r \in Routes(d) :
                  /\ TripCount(d, r) <= Cardinality({t \in DOMAIN trips : trips[t].route = r})
                  /\ SupplyStatus(d, r, RunningTrips(view.data[2], r)) = "no-active-service" =>
                        \A e \in 1 .. opened : trips[stopEvents[e].trip].route = r
                                                   => stopEvents[e].boarding = 0
=============================================================================
