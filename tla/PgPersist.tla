----------------------------- MODULE PgPersist -----------------------------
(***************************************************************************)
(* stream-processor's binding of positions to trips (pgPersist.ts, with    *)
(* the two message handlers of consumer.ts that feed it).  The MQTT        *)
(* callback never awaits a handler, so any number of them are in progress  *)
(* at once, each stopped at one of its queries; `tripState`                *)
(* (tripStateByBusId) is what they share.                                  *)
(*                                                                         *)
(* What a persisted ping does to stop_events and alerts is in StopEvents.  *)
(***************************************************************************)
EXTENDS TripsTable, Sequences

CONSTANTS KnownDir,  \* directions found in Postgres when the process started
          Task,      \* handlers that can be in progress at one time
          MaxFinal   \* bound: final stop_events counted per trip

ASSUME PersistAssumption == KnownDir \subseteq Dir /\ MaxFinal \in Nat

VARIABLES channel,     \* messages on the connection from the broker, in order
          cityLoaded,  \* startPgPersist resolved the city
          awaiting,    \* pings whose Redis write has not answered yet
          task,        \* the handlers in progress
          tripState,   \* the trip each bus's pings are attached to
          gpsPings,    \* gps_pings rows
          finalStops   \* how many final stop_events each trip has

persistVars == <<channel, cityLoaded, awaiting, task, tripState, gpsPings, finalStops>>

Msg == [event : {"trip_start", "trip_end", "ping"}, bus : Bus, dir : Dir,
        trip : TripId \cup {NoTrip}]

TaskPc == {"idle",
           "closeOld", "upsert", "insertTrip", "setInferred", "insertPing",
           "finalStop", "retire", "closeSuperseded", "upsertStart", "adopt"}

(* `old` is the trip the handler found cached, `new` the one it will cache. *)
TaskRecord == [pc : TaskPc, bus : Bus \cup {NoBus}, dir : Dir \cup {NoDir},
               old : TripId \cup {NoTrip}, new : TripId \cup {NoTrip}]

IdleTask == [pc |-> "idle", bus |-> NoBus, dir |-> NoDir, old |-> NoTrip, new |-> NoTrip]

TripState == [trip : TripId \cup {NoTrip}, dir : Dir \cup {NoDir}]
NoState == [trip |-> NoTrip, dir |-> NoDir]

PersistTypeOK ==
    /\ channel \in Seq(Msg)
    /\ cityLoaded \in BOOLEAN
    /\ awaiting \in Seq(Msg)
    /\ task \in [Task -> TaskRecord]
    /\ tripState \in [Bus -> TripState]
    /\ gpsPings \subseteq [trip : TripId, bus : Bus, dir : Dir]
    /\ finalStops \in [TripId -> 0 .. MaxFinal]

(* startPgPersist finds the city or leaves persistence off.                *)
Boot ==
    /\ cityLoaded' \in BOOLEAN
    /\ awaiting' = <<>>
    /\ task' = [k \in Task |-> IdleTask]
    /\ tripState' = [b \in Bus |-> NoState]

PersistInit ==
    /\ channel = <<>>
    /\ cityLoaded \in BOOLEAN
    /\ awaiting = <<>>
    /\ task = [k \in Task |-> IdleTask]
    /\ tripState = [b \in Bus |-> NoState]
    /\ gpsPings = {}
    /\ finalStops = [t \in TripId |-> 0]

Goto(k, pc) == task' = [task EXCEPT ![k].pc = pc]
Finish(k) == task' = [task EXCEPT ![k] = IdleTask]

Take(k, pc, m, old) ==
    task' = [task EXCEPT ![k] = [pc |-> pc, bus |-> m.bus, dir |-> m.dir,
                                 old |-> old, new |-> m.trip]]

Cache(b, t, d) == tripState' = [tripState EXCEPT ![b] = [trip |-> t, dir |-> d]]

----------------------------------------------------------------------------
(* handlePing up to its first await: the Redis write is on its way.  Redis *)
(* answers in order.                                                       *)
ReceivePing ==
    /\ channel # <<>> /\ Head(channel).event = "ping"
    /\ channel' = Tail(channel)
    /\ awaiting' = Append(awaiting, Head(channel))
    /\ UNCHANGED <<tableVars, cityLoaded, task, tripState, gpsPings, finalStops>>

(* The Redis write fails: handlePing gives up and the error is logged.     *)
RedisFail ==
    /\ awaiting # <<>>
    /\ awaiting' = Tail(awaiting)
    /\ UNCHANGED <<tableVars, channel, cityLoaded, task, tripState, gpsPings, finalStops>>

(* persistPingAsync, and ensureTrip up to its first query.                 *)
Dropped(m) == ~cityLoaded \/ (tripState[m.bus].dir # m.dir /\ m.dir \notin KnownDir)

EnsureTrip(k) ==
    LET m == Head(awaiting)
        existing == tripState[m.bus]
    IN  /\ awaiting # <<>> /\ task[k].pc = "idle"
        /\ awaiting' = Tail(awaiting)
        /\ \/ Dropped(m) /\ UNCHANGED task
           \/ /\ ~Dropped(m) /\ existing.dir = m.dir
              /\ Take(k, "insertPing", [m EXCEPT !.trip = existing.trip], existing.trip)
           \/ /\ ~Dropped(m) /\ existing.trip # NoTrip /\ existing.dir # m.dir
              /\ Take(k, "closeOld", m, existing.trip)
           \/ /\ ~Dropped(m) /\ existing.trip = NoTrip
              /\ Take(k, "upsert", m, NoTrip)
        /\ UNCHANGED <<tableVars, channel, cityLoaded, tripState, gpsPings, finalStops>>

(* UPDATE trips ... WHERE id = $1, whatever the row's status is by now.    *)
CloseOld(k) ==
    /\ task[k].pc = "closeOld" /\ Unlocked(task[k].old)
    /\ trips' = WithStatus({task[k].old}, "completed")
    /\ Goto(k, "insertTrip")
    /\ UNCHANGED <<buses, nextTrip, rowLock, channel, cityLoaded, awaiting, tripState,
                   gpsPings, finalStops>>

(* upsertBus, on behalf of a ping or of a trip_start.                      *)
UpsertTheBus(k) ==
    /\ \/ task[k].pc = "upsert" /\ Goto(k, "insertTrip")
       \/ task[k].pc = "upsertStart" /\ Goto(k, "adopt")
    /\ UpsertBus(task[k].bus)
    /\ UNCHANGED <<trips, nextTrip, rowLock, channel, cityLoaded, awaiting, tripState,
                   gpsPings, finalStops>>

InsertTrip(k) ==
    /\ task[k].pc = "insertTrip" /\ nextTrip <= MaxTrip
    /\ trips' = WithRow(trips, nextTrip, NewRow(task[k].bus, task[k].dir, TRUE, {}))
    /\ nextTrip' = nextTrip + 1
    /\ task' = [task EXCEPT ![k].pc = "setInferred", ![k].new = nextTrip]
    /\ UNCHANGED <<buses, rowLock, channel, cityLoaded, awaiting, tripState, gpsPings,
                   finalStops>>

(* ensureTrip resumes and caches what it inserted, whatever was cached     *)
(* meanwhile.                                                              *)
SetInferred_OldDirection(k) ==
    /\ task[k].pc = "setInferred"
    /\ Cache(task[k].bus, task[k].new, tripState[task[k].bus].dir)
    /\ Goto(k, "insertPing")
    /\ UNCHANGED <<tableVars, channel, cityLoaded, awaiting, gpsPings, finalStops>>

SetInferred(k) ==
    /\ task[k].pc = "setInferred"
    /\ Cache(task[k].bus, task[k].new, task[k].dir)
    /\ Goto(k, "insertPing")
    /\ UNCHANGED <<tableVars, channel, cityLoaded, awaiting, gpsPings, finalStops>>

InsertPing_OldTrip(k) ==
    /\ task[k].pc = "insertPing"
    /\ gpsPings' = gpsPings \cup
         {[trip |-> task[k].old, bus |-> task[k].bus, dir |-> task[k].dir]}
    /\ Finish(k)
    /\ UNCHANGED <<tableVars, channel, cityLoaded, awaiting, tripState, finalStops>>

InsertPing(k) ==
    /\ task[k].pc = "insertPing"
    /\ gpsPings' = gpsPings \cup
         {[trip |-> task[k].new, bus |-> task[k].bus, dir |-> task[k].dir]}
    /\ Finish(k)
    /\ UNCHANGED <<tableVars, channel, cityLoaded, awaiting, tripState, finalStops>>

----------------------------------------------------------------------------
(* handleTripStatus, which runs as soon as the message is received.        *)

Ignored(m) ==
    \/ ~cityLoaded
    \/ m.event = "trip_end" /\ tripState[m.bus].trip # m.trip
    \/ m.event = "trip_start" /\ m.dir \notin KnownDir

(* A trip_start for the trip already cached reaches no await: it resets    *)
(* the entry at once.                                                      *)
ReceiveStatus_NoIdCheck(k) ==
    LET m == Head(channel)
        existing == tripState[m.bus].trip
    IN  /\ channel # <<>> /\ m.event # "ping" /\ task[k].pc = "idle"
        /\ channel' = Tail(channel)
        /\ \/ Ignored(m) /\ UNCHANGED task
           \/ /\ ~Ignored(m) /\ m.event = "trip_end" /\ Take(k, "finalStop", m, existing)
           \/ /\ ~Ignored(m) /\ m.event = "trip_start" /\ existing # NoTrip
              /\ Take(k, "closeSuperseded", m, existing)
           \/ /\ ~Ignored(m) /\ m.event = "trip_start" /\ existing = NoTrip
              /\ Take(k, "upsertStart", m, NoTrip)
        /\ UNCHANGED <<tableVars, cityLoaded, awaiting, tripState, gpsPings, finalStops>>

ReceiveStatus(k) ==
    LET m == Head(channel)
        existing == tripState[m.bus].trip
    IN  /\ channel # <<>> /\ m.event # "ping" /\ task[k].pc = "idle"
        /\ channel' = Tail(channel)
        /\ \/ Ignored(m) /\ UNCHANGED <<task, tripState>>
           \/ /\ ~Ignored(m) /\ m.event = "trip_end"
              /\ Take(k, "finalStop", m, existing) /\ UNCHANGED tripState
           \/ /\ ~Ignored(m) /\ m.event = "trip_start" /\ existing = m.trip
              /\ Cache(m.bus, m.trip, m.dir) /\ UNCHANGED task
           \/ /\ ~Ignored(m) /\ m.event = "trip_start" /\ existing \notin {NoTrip, m.trip}
              /\ Take(k, "closeSuperseded", m, existing) /\ UNCHANGED tripState
           \/ /\ ~Ignored(m) /\ m.event = "trip_start" /\ existing = NoTrip
              /\ Take(k, "upsertStart", m, NoTrip) /\ UNCHANGED tripState
        /\ UNCHANGED <<tableVars, cityLoaded, awaiting, gpsPings, finalStops>>

(* recordFinalStopEvent: its failure, or having no stop to record, is no   *)
(* obstacle.                                                               *)
FinalStop(k) ==
    /\ task[k].pc = "finalStop"
    /\ \/ UNCHANGED finalStops
       \/ /\ finalStops[task[k].old] < MaxFinal
          /\ finalStops' = [finalStops EXCEPT ![task[k].old] = @ + 1]
    /\ Goto(k, "retire")
    /\ UNCHANGED <<tableVars, channel, cityLoaded, awaiting, tripState, gpsPings>>

(* tripStateByBusId.delete(busId), whatever the entry is by now.           *)
Retire(k) ==
    /\ task[k].pc = "retire"
    /\ Cache(task[k].bus, NoTrip, NoDir)
    /\ Finish(k)
    /\ UNCHANGED <<tableVars, channel, cityLoaded, awaiting, gpsPings, finalStops>>

(* Close the superseded trip if it is still running; a failed query is     *)
(* logged and does not stop the adoption.                                  *)
CloseSuperseded(k) ==
    /\ task[k].pc = "closeSuperseded"
    /\ \/ /\ Unlocked(task[k].old)
          /\ trips' = WithStatus({task[k].old} \cap Running(task[k].bus), "completed")
       \/ Faulty /\ UNCHANGED trips
    /\ Goto(k, "adopt")
    /\ UNCHANGED <<buses, nextTrip, rowLock, channel, cityLoaded, awaiting, tripState,
                   gpsPings, finalStops>>

Adopt(k) ==
    /\ task[k].pc = "adopt"
    /\ Cache(task[k].bus, task[k].new, task[k].dir)
    /\ Finish(k)
    /\ UNCHANGED <<tableVars, channel, cityLoaded, awaiting, gpsPings, finalStops>>

(* A query fails: the rest of the handler is abandoned and the error       *)
(* logged.  What it already did stays done.                                *)
TaskFail(k) ==
    /\ Faulty
    /\ task[k].pc \in {"closeOld", "upsert", "insertTrip", "insertPing", "upsertStart"}
    /\ Finish(k)
    /\ UNCHANGED <<tableVars, channel, cityLoaded, awaiting, tripState, gpsPings, finalStops>>

TaskStep(k) ==
    \/ CloseOld(k) \/ UpsertTheBus(k) \/ InsertTrip(k) \/ SetInferred(k) \/ InsertPing(k)
    \/ FinalStop(k) \/ Retire(k) \/ CloseSuperseded(k) \/ Adopt(k) \/ TaskFail(k)

PersistNext ==
    \/ ReceivePing \/ RedisFail
    \/ \E k \in Task : EnsureTrip(k) \/ ReceiveStatus(k) \/ TaskStep(k)
============================================================================
