--------------------------- MODULE TripsService ---------------------------
(***************************************************************************)
(* api-gateway's trip lifecycle (trips.service.ts, mqtt.service.ts):       *)
(* start, end and tally as the sequence of database round trips each one   *)
(* is, every await being a place where another request runs.               *)
(*                                                                         *)
(* A committed change is announced on bus/{busId}/status after the fact.   *)
(* `outbox` is the MQTT client's queue of QoS 1 publishes; a publish made  *)
(* while the broker is unreachable is dropped.                             *)
(***************************************************************************)
EXTENDS TripsTable, Sequences, FiniteSets

CONSTANTS MaxOutbox,   \* bound: publishes queued in the gateway's MQTT client
          MaxSnapshot  \* bound: tally rows

VARIABLES req,        \* the request each slot is serving
          snapshots,  \* occupancy_snapshots rows
          outbox      \* status messages on their way to the broker

serviceVars == <<tableVars, req, snapshots, outbox>>

ReqPc == {"idle",
          "startUpdate", "startLock", "startInsert", "startCommit", "startPublish",
          "endUpdate", "endPublish", "tallyInsert"}

Request == [pc : ReqPc, bus : Bus \cup {NoBus}, dir : Dir \cup {NoDir},
            trip : TripId \cup {NoTrip}, status : TripStatus, saw : SUBSET TripId]

Idle == [pc |-> "idle", bus |-> NoBus, dir |-> NoDir, trip |-> NoTrip,
         status |-> "running", saw |-> {}]

StatusMsg == [event : {"trip_start", "trip_end"}, bus : Bus, dir : Dir, trip : TripId]

(* A tally row and whether its trip was still running when it was written. *)
Snapshot == [trip : TripId, live : BOOLEAN]

(* The type of every variable.                                             *)
TypeOK ==
    /\ TableTypeOK
    /\ req \in [Req -> Request]
    /\ snapshots \subseteq Snapshot
    /\ outbox \in Seq(StatusMsg)

Init ==
    /\ TableInit
    /\ req = [r \in Req |-> Idle]
    /\ snapshots = {}
    /\ outbox = <<>>

----------------------------------------------------------------------------
(* POST /api/trips                                                         *)

(* Route lookups fail without effect; what remains is the bus upsert.      *)
StartRequest(r, b, d) ==
    /\ req[r].pc = "idle"
    /\ nextTrip <= MaxTrip
    /\ req' = [req EXCEPT ![r] = [Idle EXCEPT !.pc = "startUpdate", !.bus = b, !.dir = d]]
    /\ UpsertBus(b)
    /\ UNCHANGED <<trips, nextTrip, rowLock, snapshots, outbox>>

(* BEGIN; the abandoning UPDATE takes its snapshot ...                     *)
StartUpdate(r) ==
    /\ req[r].pc = "startUpdate"
    /\ req' = [req EXCEPT ![r].pc = "startLock", ![r].saw = Running(req[r].bus)]
    /\ UNCHANGED <<tableVars, snapshots, outbox>>

(* ... waits for the rows it matched, and keeps those still running.       *)
StartLock_SkipLocked(r) ==
    /\ req[r].pc = "startLock"
    /\ rowLock' = [t \in TripId |->
                     IF t \in req[r].saw /\ Unlocked(t) /\ trips[t].status = "running"
                     THEN r ELSE rowLock[t]]
    /\ req' = [req EXCEPT ![r].pc = "startInsert"]
    /\ UNCHANGED <<trips, buses, nextTrip, snapshots, outbox>>

StartLock_OwnConnection(r) ==
    /\ req[r].pc = "startLock"
    /\ \A t \in req[r].saw : Unlocked(t)
    /\ trips' = WithStatus(req[r].saw \cap Running(req[r].bus), "abandoned")
    /\ req' = [req EXCEPT ![r].pc = "startInsert"]
    /\ UNCHANGED <<rowLock, buses, nextTrip, snapshots, outbox>>

StartLock(r) ==
    /\ req[r].pc = "startLock"
    /\ \A t \in req[r].saw : Unlocked(t)
    /\ rowLock' = [t \in TripId |->
                     IF t \in req[r].saw /\ trips[t].status = "running"
                     THEN r ELSE rowLock[t]]
    /\ req' = [req EXCEPT ![r].pc = "startInsert"]
    /\ UNCHANGED <<trips, buses, nextTrip, snapshots, outbox>>

StartInsert(r) ==
    /\ req[r].pc = "startInsert"
    /\ nextTrip <= MaxTrip
    /\ nextTrip' = nextTrip + 1
    /\ req' = [req EXCEPT ![r].pc = "startCommit", ![r].trip = nextTrip]
    /\ UNCHANGED <<trips, buses, rowLock, snapshots, outbox>>

Held(r) == {t \in DOMAIN trips : rowLock[t] = r}

Release_Forgotten(r) == UNCHANGED rowLock

Release(r) == rowLock' = [t \in TripId |-> IF rowLock[t] = r THEN NoReq ELSE rowLock[t]]

(* COMMIT: the abandoned rows, the new row and, if the driver gave one,    *)
(* the initial occupancy become visible together.                          *)
StartCommit(r) ==
    /\ req[r].pc = "startCommit"
    /\ trips' = WithRow(WithStatus(Held(r), "abandoned"), req[r].trip,
                        NewRow(req[r].bus, req[r].dir, FALSE, req[r].saw))
    /\ Release(r)
    /\ \/ UNCHANGED snapshots
       \/ /\ Cardinality(snapshots) < MaxSnapshot
          /\ snapshots' = snapshots \cup {[trip |-> req[r].trip, live |-> TRUE]}
    /\ req' = [req EXCEPT ![r].pc = "startPublish"]
    /\ UNCHANGED <<buses, nextTrip, outbox>>

(* A query of the transaction fails: ROLLBACK, and 500 to the driver.  The *)
(* id already minted is not handed out again.                              *)
StartFail(r) ==
    /\ Faulty
    /\ req[r].pc \in {"startUpdate", "startLock", "startInsert", "startCommit"}
    /\ Release(r)
    /\ req' = [req EXCEPT ![r] = Idle]
    /\ UNCHANGED <<trips, buses, nextTrip, snapshots, outbox>>

Status(e, r) ==
    [event |-> e, bus |-> req[r].bus, dir |-> req[r].dir, trip |-> req[r].trip]

(* publishTripStatus: queued, or dropped while the broker is unreachable.  *)
Announce(e, r) ==
    /\ \/ Len(outbox) < MaxOutbox /\ outbox' = Append(outbox, Status(e, r))
       \/ outbox' = outbox
    /\ req' = [req EXCEPT ![r] = Idle]
    /\ UNCHANGED <<tableVars, snapshots>>

StartPublish_Early(r) ==
    /\ req[r].pc = "startCommit" /\ Announce("trip_start", r)

StartPublish(r) == req[r].pc = "startPublish" /\ Announce("trip_start", r)

----------------------------------------------------------------------------
(* PATCH /api/trips/:id/end                                                *)

(* loadTrip.  A trip already ended is answered without effect (200 if it   *)
(* has the status asked for, 409 if not).                                  *)
EndRequest(r, t, s) ==
    /\ req[r].pc = "idle"
    /\ t \in DOMAIN trips
    /\ trips[t].status = "running"
    /\ req' = [req EXCEPT ![r] = [Idle EXCEPT !.pc = "endUpdate", !.bus = trips[t].bus,
                                  !.dir = trips[t].dir, !.trip = t, !.status = s]]
    /\ UNCHANGED <<tableVars, snapshots, outbox>>

(* UPDATE trips ... WHERE id = $1: the status read earlier is not asked    *)
(* for again.                                                              *)
EndUpdate(r) ==
    /\ req[r].pc = "endUpdate"
    /\ Unlocked(req[r].trip)
    /\ trips' = WithStatus({req[r].trip}, req[r].status)
    /\ req' = [req EXCEPT ![r].pc = "endPublish"]
    /\ UNCHANGED <<buses, nextTrip, rowLock, snapshots, outbox>>

EndPublish(r) == req[r].pc = "endPublish" /\ Announce("trip_end", r)

----------------------------------------------------------------------------
(* POST /api/trips/:id/tally                                               *)

TallyRequest(r, t) ==
    /\ req[r].pc = "idle"
    /\ Cardinality(snapshots) < MaxSnapshot
    /\ t \in DOMAIN trips
    /\ trips[t].status = "running"
    /\ req' = [req EXCEPT ![r] = [Idle EXCEPT !.pc = "tallyInsert", !.trip = t]]
    /\ UNCHANGED <<tableVars, snapshots, outbox>>

TallyInsert(r) ==
    /\ req[r].pc = "tallyInsert"
    /\ snapshots' = snapshots \cup
         {[trip |-> req[r].trip, live |-> trips[req[r].trip].status = "running"]}
    /\ req' = [req EXCEPT ![r] = Idle]
    /\ UNCHANGED <<tableVars, outbox>>

(* The one query left of an end or a tally fails: 500, nothing changed.    *)
QueryFail(r) ==
    /\ Faulty
    /\ req[r].pc \in {"endUpdate", "tallyInsert"}
    /\ req' = [req EXCEPT ![r] = Idle]
    /\ UNCHANGED <<tableVars, snapshots, outbox>>

----------------------------------------------------------------------------
(* The gateway process dies: Postgres rolls its transactions back, and     *)
(* what its MQTT client had queued is gone.                                *)
GatewayCrash ==
    /\ \E r \in Req : req[r].pc # "idle"
    /\ rowLock' = [t \in TripId |-> NoReq]
    /\ req' = [r \in Req |-> Idle]
    /\ outbox' = <<>>
    /\ UNCHANGED <<trips, buses, nextTrip, snapshots>>

Arrival(r) ==
    \/ \E b \in Bus, d \in Dir : StartRequest(r, b, d)
    \/ \E t \in TripId, s \in Ended : EndRequest(r, t, s)
    \/ \E t \in TripId : TallyRequest(r, t)

Progress(r) ==
    \/ StartUpdate(r) \/ StartInsert(r) \/ StartCommit(r) \/ StartPublish(r)
    \/ EndPublish(r) \/ TallyInsert(r)

(* The steps that may have to wait for a row lock.                         *)
LockWait(r) == StartLock(r) \/ EndUpdate(r)

ServiceNext ==
    \/ \E r \in Req : Arrival(r) \/ Progress(r) \/ LockWait(r) \/ StartFail(r) \/ QueryFail(r)
    \/ GatewayCrash

(* The broker takes the oldest publish (the composition says what becomes  *)
(* of it).                                                                 *)
Sent ==
    /\ outbox # <<>>
    /\ outbox' = Tail(outbox)
    /\ UNCHANGED <<tableVars, req, snapshots>>

Next == ServiceNext \/ Sent

(* Properties                                                              *)

(* A status message never says something the table does not: its trip is   *)
(* a committed row of that bus and direction, driver-started if the        *)
(* message is a trip_start, and a trip_end is only on its way once the row *)
(* has left 'running' (mqtt.service.ts: "the two can never disagree").     *)
Truthful(m) ==
    /\ m.trip \in DOMAIN trips
    /\ trips[m.trip].bus = m.bus /\ trips[m.trip].dir = m.dir
    /\ m.event = "trip_start" => ~trips[m.trip].inferred
    /\ m.event = "trip_end" => trips[m.trip].status # "running"

StatusTruthful == \A i \in DOMAIN outbox : Truthful(outbox[i])

(* Once a start has committed, every trip its UPDATE found running for the *)
(* bus has ended, whatever ended it and however the two transactions were  *)
(* interleaved: two trips of one bus can only both be running if neither   *)
(* transaction saw the other's row.                                        *)
StartClosesVisible ==
    \A u \in DOMAIN trips : \A t \in trips[u].saw :
        t \in DOMAIN trips /\ trips[t].status # "running"

(* A row locked by a start is a running trip of that start's bus, and the  *)
(* lock does not outlive the transaction.                                  *)
LocksBelongToStarts ==
    \A t \in TripId : rowLock[t] # NoReq =>
        /\ req[rowLock[t]].pc \in {"startInsert", "startCommit"}
        /\ t \in DOMAIN trips /\ t \in req[rowLock[t]].saw
        /\ trips[t].status = "running" /\ trips[t].bus = req[rowLock[t]].bus

(* Some request ends t in this step.                                       *)
EndedByRequest(t) ==
    \E r \in Req : req[r].pc = "endUpdate" /\ req[r].trip = t /\ req'[r].pc = "endPublish"

(* Abandoning the old trips and opening the new one is one step: unless    *)
(* its driver ended it, a running trip is never seen closed without the    *)
(* trip that replaces it, even if the start then fails or the gateway dies. *)
AbandonIsAtomic ==
    [][\A t \in DOMAIN trips :
         (trips[t].status = "running" /\ trips'[t].status # "running" /\ ~EndedByRequest(t))
           => \E u \in DOMAIN trips' \ DOMAIN trips :
                  t \in trips'[u].saw /\ trips'[u].bus = trips[t].bus]_serviceVars

(* Every request is answered: no start or end waits for a row lock for     *)
(* ever, whoever else is starting and failing meanwhile.                   *)
RequestsAnswered == \A r \in Req : req[r].pc # "idle" ~> req[r].pc = "idle"

(* trips.service.ts: "a bus can only run one trip at a time", so a driver  *)
(* "must not end up with two open trips".                                  *)
OneRunningTrip ==
    \A t, u \in DOMAIN trips :
        (trips[t].bus = trips[u].bus /\ trips[t].status = "running"
           /\ trips[u].status = "running") => t = u

----------------------------------------------------------------------------
(* Node runs every continuation that is ready, the database answers or the *)
(* driver gives up, and Postgres grants a row lock in the order it was     *)
(* asked for: a waiter is not overtaken for ever.                          *)
Fairness == \A r \in Req :
    /\ WF_serviceVars(Progress(r))
    /\ WF_serviceVars(StartInsert(r) \/ StartFail(r))
    /\ SF_serviceVars(StartLock(r))
    /\ SF_serviceVars(EndUpdate(r))

SafeSpec == Init /\ [][Next]_serviceVars

Spec == SafeSpec /\ Fairness
============================================================================
