--------------------------- MODULE TripLifecycle ---------------------------
(***************************************************************************)
(* A trip from the driver's tap to the rows its positions leave behind:    *)
(* the gateway (TripsService), the stream-processor (PgPersist), the       *)
(* Postgres tables both write, and the MQTT broker between them.           *)
(*                                                                         *)
(* Status messages are published at QoS 1 with retain, so the broker keeps *)
(* the last one per bus and may receive one twice.  The stream-processor   *)
(* subscribes at the default QoS 0: what is on its connection when that    *)
(* breaks is lost, and each subscription replays the retained messages.    *)
(***************************************************************************)
EXTENDS TripsService, PgPersist

CONSTANTS MaxPing,     \* bound: positions reported
          MaxDup,      \* bound: publishes the broker receives twice
          MaxReset,    \* bound: connections lost and processes restarted
          MaxChannel   \* bound: messages on the connection

ASSUME LifecycleAssumption == MaxPing \in Nat /\ MaxDup \in Nat /\ MaxReset \in Nat

VARIABLES subscribed, retained, pinged, dups, resets

brokerVars == <<subscribed, retained, pinged, dups, resets>>
lifecycleVars == <<serviceVars, persistVars, brokerVars>>

LifecycleTypeOK ==
    /\ TypeOK
    /\ PersistTypeOK
    /\ subscribed \in BOOLEAN
    /\ retained \in [Bus -> SUBSET StatusMsg]
    /\ pinged \in 0 .. MaxPing /\ dups \in 0 .. MaxDup /\ resets \in 0 .. MaxReset

LifecycleInit ==
    /\ Init
    /\ PersistInit
    /\ subscribed = FALSE
    /\ retained = [b \in Bus |-> {}]
    /\ pinged = 0 /\ dups = 0 /\ resets = 0

Deliver(m) == channel' = IF subscribed THEN Append(channel, m) ELSE channel

(* The broker receives the gateway's oldest publish, keeps it for the bus  *)
(* and forwards it.  If the acknowledgement is lost it is published again. *)
Broker ==
    LET m == Head(outbox) IN
    /\ outbox # <<>> /\ Len(channel) < MaxChannel
    /\ \/ outbox' = Tail(outbox) /\ UNCHANGED dups
       \/ dups < MaxDup /\ dups' = dups + 1 /\ UNCHANGED outbox
    /\ retained' = [retained EXCEPT ![m.bus] = {m}]
    /\ Deliver(m)
    /\ UNCHANGED <<tableVars, req, snapshots, cityLoaded, awaiting, task, tripState,
                   gpsPings, finalStops, subscribed, pinged, resets>>

(* A bus reports a position, with the direction its driver chose.          *)
BusPing(b, d) ==
    /\ pinged < MaxPing /\ Len(channel) < MaxChannel
    /\ pinged' = pinged + 1
    /\ Deliver([event |-> "ping", bus |-> b, dir |-> d, trip |-> NoTrip])
    /\ UNCHANGED <<serviceVars, cityLoaded, awaiting, task, tripState, gpsPings, finalStops,
                   subscribed, retained, dups, resets>>

Retained == UNION {retained[b] : b \in Bus}

Orders(S) == {s \in [1 .. Cardinality(S) -> S] : \A m \in S : \E i \in DOMAIN s : s[i] = m}

(* consumer.ts's 'connect' handler.                                        *)
Subscribe ==
    /\ ~subscribed
    /\ subscribed' = TRUE
    /\ channel' \in Orders(Retained)
    /\ UNCHANGED <<serviceVars, cityLoaded, awaiting, task, tripState, gpsPings, finalStops,
                   retained, pinged, dups, resets>>

(* The connection is lost, and everything on it.                           *)
Disconnect ==
    /\ subscribed /\ resets < MaxReset
    /\ resets' = resets + 1
    /\ subscribed' = FALSE
    /\ channel' = <<>>
    /\ UNCHANGED <<serviceVars, cityLoaded, awaiting, task, tripState, gpsPings, finalStops,
                   retained, pinged, dups>>

(* The stream-processor restarts.  A query it had sent may have committed: *)
(* that is the step before this one.                                       *)
ProcessorRestart ==
    /\ resets < MaxReset
    /\ resets' = resets + 1
    /\ subscribed' = FALSE
    /\ channel' = <<>>
    /\ Boot
    /\ UNCHANGED <<serviceVars, gpsPings, finalStops, retained, pinged, dups>>

Gateway(A) == A /\ UNCHANGED <<persistVars, brokerVars>>
Processor(A) == A /\ UNCHANGED <<req, snapshots, outbox, brokerVars>>

LifecycleNext ==
    \/ Gateway(ServiceNext)
    \/ Processor(PersistNext)
    \/ Broker
    \/ \E b \in Bus, d \in Dir : BusPing(b, d)
    \/ Subscribe \/ Disconnect \/ ProcessorRestart

LifecycleSafe == LifecycleInit /\ [][LifecycleNext]_lifecycleVars

----------------------------------------------------------------------------
(* Properties                                                              *)

(* No status message, queued, retained or in transit, says what the trips  *)
(* table does not: whatever is lost, repeated or replayed, a message names *)
(* a committed trip of its bus and direction, driver-started if it is a    *)
(* trip_start, no longer running if it is a trip_end.                      *)
MessagesTruthful ==
    /\ StatusTruthful
    /\ \A m \in Retained : Truthful(m)
    /\ \A i \in DOMAIN channel : channel[i].event # "ping" => Truthful(channel[i])

(* A bus's pings are only ever attached to a committed trip of that bus,   *)
(* whose route direction is the one the stream-processor compares them     *)
(* with; and every gps_pings row belongs to a trip of the bus that sent    *)
(* it, on the direction it reported: no interleaving of adoption,          *)
(* retirement and inference files a position under someone else's trip.    *)
IsTripOf(t, b, d) == t \in DOMAIN trips /\ trips[t].bus = b /\ trips[t].dir = d

TripStateMatchesTable ==
    /\ \A b \in Bus : tripState[b].trip # NoTrip => IsTripOf(tripState[b].trip, b, tripState[b].dir)
    /\ \A p \in gpsPings : IsTripOf(p.trip, p.bus, p.dir)

(* A running trip is ended by the stream-processor only in favour of       *)
(* another: a message of a different trip or a ping of another direction.  *)
ClosedForAnother ==
    [][\A k \in Task, t \in DOMAIN trips :
         (trips[t].status = "running" /\ trips'[t].status # "running" /\ task'[k] # task[k])
           => task[k].dir # trips[t].dir \/ task[k].new \notin {NoTrip, t}]_lifecycleVars

(* pgPersist.ts, handleTripStatus: after trip_start "every subsequent" row *)
(* attaches to "the trip the driver actually started, not an inferred one" *)
(* - here for a bus that reports only the direction of its trip.           *)
DriverTripKeepsPings ==
    [][\A b \in Bus :
         LET t == tripState[b].trip  u == tripState'[b].trip IN
         (t # NoTrip /\ u # NoTrip /\ ~trips[t].inferred /\ trips[t].status = "running")
           => ~trips'[u].inferred]_lifecycleVars
=============================================================================
