----------------------------- MODULE StopEvents -----------------------------
(***************************************************************************)
(* What a persisted position does to stop_events and alerts (pgPersist.ts: *)
(* maybeRecordStopEvent, maybeRecordDeviation, recordFinalStopEvent), for  *)
(* one bus.  A handler keeps the TripState object it got, even when        *)
(* another object has replaced it in tripStateByBusId; handlers overlap at *)
(* each query.  How the object is found or replaced is in PgPersist; here  *)
(* that is one step.                                                       *)
(***************************************************************************)
EXTENDS Integers, FiniteSetsExt

CONSTANTS LastStop,   \* stops of the route are 1 .. LastStop, in order
          KnownStop,  \* stops with a row in Postgres and a sequence on the route
          Positions,  \* what a position can say: next stop, off the route, passengers
          Sustained,  \* config.routeDeviationSustainedMs, in pings
          Task,       \* handlers that can be in progress at one time
          MaxOcc,     \* bound: passengers
          MaxObj,     \* bound: TripState objects made
          MaxTime,    \* bound: timestamps
          MaxMessages \* bound: positions and trip ends that come

ASSUME StopAssumption ==
    /\ LastStop \in Nat \ {0} /\ KnownStop \subseteq 1 .. LastStop
    /\ Positions \subseteq [next : 0 .. LastStop, off : BOOLEAN, occ : 0 .. MaxOcc]
    /\ Sustained \in Nat \ {0} /\ MaxOcc \in Nat /\ MaxObj \in Nat /\ MaxTime \in Nat
    /\ MaxMessages \in Nat

VARIABLES objects,     \* TripState objects, in the order they are made
          made,        \* how many of them are
          current,     \* the one tripStateByBusId holds, or 0
          task,        \* handlers in progress
          stopEvents,  \* stop_events rows
          alerts,      \* alerts rows of type route_deviation
          received,    \* how many messages have come
          clock,       \* history: newest timestamp of a message
          ahead,       \* history: the next stop last reported on this trip
          back,        \* history: pings whose offset was within tolerance
          overlapped,  \* history: two handlers have been in progress at once
          late         \* history: a message has come out of order

stopVars == <<objects, made, current, task, stopEvents, alerts, received, clock, ahead, back,
              overlapped, late>>

NoStop == 0
Stop == 1 .. LastStop
Obj == 1 .. MaxObj
Time == 0 .. MaxTime
Occ == 0 .. MaxOcc
Message == 0 .. MaxMessages

(* An unmatched ping has no next stop and a negative offset.  `no` counts  *)
(* the messages as they come; two may have the same timestamp.             *)
Ping == [no : Message, at : Time, next : Stop \cup {NoStop}, off : BOOLEAN, occ : Occ]
NoPing == [no |-> 0, at |-> 0, next |-> NoStop, off |-> FALSE, occ |-> 0]

(* Three history fields: `base`, the occupancy the recorded boardings and  *)
(* alightings started from; `began`, the message that began the deviation; *)
(* and `real`, whether the gateway announced the trip.                     *)
TripState == [trip : Obj, last : Stop \cup {NoStop}, occ : Occ, since : Time,
              alerted : BOOLEAN, base : Int, began : Message, real : BOOLEAN]

(* `answered` is history: whether the INSERT's answer came back.           *)
StopEvent == [no : Message, trip : Obj, obj : Obj, stop : Stop, at : Time,
              boarding : Occ, alighting : Occ, answered : BOOLEAN]

Alert == [no : Message, obj : Obj, began : Message, since : Time, at : Time]

TaskRecord == [pc : {"idle", "ping", "stopInsert", "alertInsert", "final"},
               obj : Obj \cup {0}, ping : Ping, reached : Stop \cup {NoStop},
               boarding : Int, alighting : Int, since : Time, began : Message]
IdleTask == [pc |-> "idle", obj |-> 0, ping |-> NoPing, reached |-> NoStop,
             boarding |-> 0, alighting |-> 0, since |-> 0, began |-> 0]

(* The type of every variable: no row counts a negative number of people.  *)
StopEventsTypeOK ==
    /\ made \in 0 .. MaxObj /\ current \in 0 .. made
    /\ objects \in [1 .. made -> TripState]
    /\ task \in [Task -> TaskRecord]
    /\ stopEvents \subseteq StopEvent
    /\ alerts \subseteq Alert
    /\ received \in Message /\ clock \in Time /\ ahead \in Stop \cup {NoStop}
    /\ back \subseteq [no : Message, obj : Obj]
    /\ overlapped \in BOOLEAN /\ late \in BOOLEAN

StopEventsInit ==
    /\ objects = [o \in {} |-> NoPing] /\ made = 0 /\ current = 0
    /\ task = [k \in Task |-> IdleTask]
    /\ stopEvents = {} /\ alerts = {}
    /\ received = 0 /\ clock = 0 /\ ahead = NoStop
    /\ back = {} /\ overlapped = FALSE /\ late = FALSE

Busy == \E k \in Task : task[k].pc # "idle"

(* The caller has to say what becomes of `task`.                           *)
Replace(t, occ, real) ==
    /\ made < MaxObj
    /\ made' = made + 1 /\ current' = made + 1
    /\ objects' = [o \in 1 .. (made + 1) |->
                     IF o = made + 1
                     THEN [trip |-> t, last |-> NoStop, occ |-> occ, since |-> 0,
                           alerted |-> FALSE, base |-> occ, began |-> 0,
                           real |-> real]
                     ELSE objects[o]]

----------------------------------------------------------------------------
(* A message with timestamp at comes: the newest so far, or a late one, a  *)
(* replayed one or one that came before.  Longer gaps than Sustained would *)
(* tell nothing more.                                                      *)
Receive(at) ==
    /\ received < MaxMessages /\ received' = received + 1
    /\ at <= clock + Sustained
    /\ clock' = IF at > clock THEN at ELSE clock
    /\ overlapped' = (overlapped \/ Busy)

(* persistPingAsync: the object is found; or, if there is none or it is    *)
(* for another direction, made with an inferred trip.  Then the gps_pings  *)
(* row is on its way.  Nothing on the way here looks at the timestamp, or  *)
(* whether the bus went back.                                              *)
ReceivePing(k, at, next, off, occ) ==
    /\ task[k].pc = "idle"
    /\ Receive(at)
    /\ \/ current # 0 /\ UNCHANGED <<objects, made, current>>
       \/ Replace(made + 1, occ, FALSE)
    /\ task' = [task EXCEPT ![k] =
                  [IdleTask EXCEPT !.pc = "ping", !.obj = current',
                     !.ping = [no |-> received + 1, at |-> at, next |-> next, off |-> off,
                               occ |-> occ]]]
    /\ ahead' = IF next = NoStop /\ current' = current THEN ahead ELSE next
    /\ late' = (late \/ at <= clock
                     \/ (current' = current /\ next # NoStop /\ next < ahead))
    /\ UNCHANGED <<stopEvents, alerts, back>>

(* maybeRecordDeviation.                                                   *)
RaisesAlert(o, m) ==
    /\ m.next # NoStop /\ m.off /\ o.since # 0 /\ ~o.alerted
    /\ m.at - o.since >= Sustained

OnRoute(m) == m.next # NoStop /\ ~m.off

Deviated_Unmarked(o, m) ==
    IF m.next = NoStop THEN o
    ELSE IF ~m.off THEN [o EXCEPT !.since = 0, !.began = 0, !.alerted = FALSE]
    ELSE IF o.since = 0 THEN [o EXCEPT !.since = m.at, !.began = m.no]
    ELSE o

Deviated(o, m) ==
    IF m.next = NoStop THEN o
    ELSE IF ~m.off THEN [o EXCEPT !.since = 0, !.began = 0, !.alerted = FALSE]
    ELSE IF o.since = 0 THEN [o EXCEPT !.since = m.at, !.began = m.no]
    ELSE IF RaisesAlert(o, m) THEN [o EXCEPT !.alerted = TRUE]
    ELSE o

(* The rest of k's handler, which reaches no query unless it is an alert,  *)
(* when maybeRecordStopEvent leaves its object as o.                       *)
Continue(k, o) ==
    LET m == task[k].ping IN
    /\ objects' = [objects EXCEPT ![task[k].obj] = Deviated(o, m)]
    /\ task' = [task EXCEPT ![k] = IF RaisesAlert(o, m)
                                   THEN [@ EXCEPT !.pc = "alertInsert", !.since = o.since,
                                                  !.began = o.began]
                                   ELSE IdleTask]
    /\ back' = IF OnRoute(m) THEN back \cup {[no |-> m.no, obj |-> task[k].obj]} ELSE back

Unchanged(o, m) == m.next = NoStop \/ m.next = o.last
Recordable(s) == s \in KnownStop

Advance_KeepOccupancy(o, m) == [o EXCEPT !.last = m.next]
Advance(o, m) == [o EXCEPT !.last = m.next, !.occ = m.occ]

Boarding_Net(o, m) == m.occ - o.occ

Boarding(o, m) == IF m.occ > o.occ THEN m.occ - o.occ ELSE 0
Alighting(o, m) == IF o.occ > m.occ THEN o.occ - m.occ ELSE 0

(* The gps_pings row is written.  maybeRecordStopEvent: a baseline, the    *)
(* same stop as before, a stop that cannot be recorded, or an INSERT.      *)
PingInserted(k) ==
    LET m == task[k].ping  o == objects[task[k].obj] IN
    /\ task[k].pc = "ping"
    /\ \/ /\ o.last = NoStop
          /\ Continue(k, [Advance(o, m) EXCEPT !.base = m.occ])
       \/ o.last # NoStop /\ Unchanged(o, m) /\ Continue(k, o)
       \/ /\ o.last # NoStop /\ ~Unchanged(o, m) /\ ~Recordable(o.last)
          /\ Continue(k, [Advance(o, m) EXCEPT !.base = @ + m.occ - o.occ])
       \/ /\ o.last # NoStop /\ ~Unchanged(o, m) /\ Recordable(o.last)
          /\ task' = [task EXCEPT ![k].pc = "stopInsert", ![k].reached = o.last,
                                  ![k].boarding = Boarding(o, m),
                                  ![k].alighting = Alighting(o, m)]
          /\ UNCHANGED <<objects, back>>
    /\ UNCHANGED <<made, current, stopEvents, alerts, received, clock, ahead, overlapped, late>>

Row(k, answered) ==
    [no |-> task[k].ping.no, trip |-> objects[task[k].obj].trip, obj |-> task[k].obj,
     stop |-> task[k].reached, at |-> task[k].ping.at, boarding |-> task[k].boarding,
     alighting |-> task[k].alighting, answered |-> answered]

(* The stop_events row is written; only now does the object move on.       *)
StopInserted_NoAdvance(k) ==
    /\ task[k].pc = "stopInsert"
    /\ stopEvents' = stopEvents \cup {Row(k, TRUE)}
    /\ Continue(k, objects[task[k].obj])
    /\ UNCHANGED <<made, current, alerts, received, clock, ahead, overlapped, late>>

StopInserted(k) ==
    /\ task[k].pc = "stopInsert"
    /\ stopEvents' = stopEvents \cup {Row(k, TRUE)}
    /\ Continue(k, Advance(objects[task[k].obj], task[k].ping))
    /\ UNCHANGED <<made, current, alerts, received, clock, ahead, overlapped, late>>

(* The stop_events row is written but the connection is lost before the    *)
(* answer comes: the query throws, and the object does not move on.        *)
AnswerLost(k) ==
    /\ task[k].pc = "stopInsert"
    /\ stopEvents' = stopEvents \cup {Row(k, FALSE)}
    /\ task' = [task EXCEPT ![k] = IdleTask]
    /\ UNCHANGED <<objects, made, current, alerts, received, clock, ahead, back, overlapped,
                   late>>

(* The alerts row is written; nothing is done with the answer.             *)
AlertInserted(k) ==
    /\ task[k].pc = "alertInsert"
    /\ alerts' = alerts \cup {[no |-> task[k].ping.no, obj |-> task[k].obj,
                               began |-> task[k].began, since |-> task[k].since,
                               at |-> task[k].ping.at]}
    /\ task' = [task EXCEPT ![k] = IdleTask]
    /\ UNCHANGED <<objects, made, current, stopEvents, received, clock, ahead, back, overlapped,
                   late>>

(* A query fails and leaves nothing: the rest of the handler is abandoned. *)
HandlerFails(k) ==
    /\ task[k].pc \in {"ping", "stopInsert", "alertInsert"}
    /\ task' = [task EXCEPT ![k] = IdleTask]
    /\ UNCHANGED <<objects, made, current, stopEvents, alerts, received, clock, ahead, back,
                   overlapped, late>>

----------------------------------------------------------------------------
(* trip_start: a new object, for a new trip or, when the retained message  *)
(* is replayed, for the same one.                                          *)
TripStart ==
    /\ \E t \in {made + 1} \cup {objects[o].trip : o \in {c \in {current} \ {0} : objects[c].real}} :
          /\ Replace(t, 0, TRUE)
          /\ ahead' = IF t = made + 1 THEN NoStop ELSE ahead
    /\ overlapped' = (overlapped \/ Busy)
    /\ UNCHANGED <<task, stopEvents, alerts, received, clock, back, late>>

(* trip_end for the trip cached: the stop it was approaching is recorded   *)
(* as reached, if there is one to record, and the entry deleted.           *)
TripEnd(k, at) ==
    LET o == objects[current] IN
    /\ task[k].pc = "idle" /\ current # 0 /\ o.real
    /\ Receive(at)
    /\ late' = (late \/ at <= clock)
    /\ \/ /\ Recordable(o.last)
          /\ task' = [task EXCEPT ![k] = [IdleTask EXCEPT !.pc = "final", !.obj = current,
                                            !.ping.no = received + 1, !.ping.at = at,
                                            !.reached = o.last]]
          /\ UNCHANGED <<current, ahead>>
       \/ /\ ~Recordable(o.last)
          /\ current' = 0 /\ ahead' = NoStop
          /\ UNCHANGED task
    /\ UNCHANGED <<objects, made, stopEvents, alerts, back>>

(* The final row is written or fails; the entry is deleted either way.     *)
FinalInserted(k) ==
    /\ task[k].pc = "final"
    /\ \/ stopEvents' = stopEvents \cup {Row(k, TRUE)}
       \/ UNCHANGED stopEvents
    /\ current' = 0 /\ ahead' = NoStop
    /\ task' = [task EXCEPT ![k] = IdleTask]
    /\ UNCHANGED <<objects, made, alerts, received, clock, back, overlapped, late>>

StopEventsNext ==
    \/ \E k \in Task, at \in Time \ {0}, p \in Positions : ReceivePing(k, at, p.next, p.off, p.occ)
    \/ \E k \in Task : \/ PingInserted(k) \/ StopInserted(k) \/ AnswerLost(k)
                       \/ AlertInserted(k) \/ HandlerFails(k) \/ FinalInserted(k)
    \/ \E k \in Task, at \in Time \ {0} : TripEnd(k, at)
    \/ TripStart

StopEventsSpec == StopEventsInit /\ [][StopEventsNext]_stopVars

----------------------------------------------------------------------------
(* Properties                                                              *)

(* One deviation alert per episode (pgPersist.ts: "one alert per           *)
(* continuous episode") of an object, however the handlers of the bus      *)
(* overlap; and while they do not, an alert is about an episode as long as *)
(* the threshold, since whose first ping none that was looked at was back  *)
(* on the route, even when positions come late or twice.                   *)
OneAlertPerEpisode ==
    /\ \A a, b \in alerts : (a.obj = b.obj /\ a.began = b.began) => a = b
    /\ ~overlapped => \A a \in alerts :
        /\ a.at - a.since >= Sustained
        /\ \A e \in back : e.obj = a.obj => e.no \notin a.began .. a.no

(* While handlers do not overlap and positions come in the order they were *)
(* taken, the rows of a trip, the final one included, are in the order of  *)
(* the route, whichever queries fail and however often the trip's retained *)
(* message is replayed; and a stop has a second row only after the answer  *)
(* to the INSERT of the first was lost.                                    *)
StopsInOrder ==
    (~overlapped /\ ~late) => \A e, f \in stopEvents :
        (e.trip = f.trip /\ e # f)
            => \/ e.at < f.at /\ (e.stop < f.stop \/ (e.stop = f.stop /\ ~e.answered))
               \/ f.at < e.at /\ (f.stop < e.stop \/ (f.stop = e.stop /\ ~f.answered))

(* While handlers do not overlap, the boardings and alightings of the rows *)
(* whose INSERT was answered add up to the change of occupancy since the   *)
(* baseline, in whatever order positions come: a failed INSERT loses       *)
(* nobody, because the next position is compared with the same one, and a  *)
(* row whose answer was lost is wholly repeated by the next, so no row     *)
(* holds a part of anybody's journey only.                                 *)
Net(o) == MapThenSumSet(LAMBDA e : e.boarding - e.alighting,
                        {e \in stopEvents : e.obj = o /\ e.answered})

OccupancyBalances ==
    ~overlapped => \A o \in 1 .. made : Net(o) = objects[o].occ - objects[o].base
=============================================================================
