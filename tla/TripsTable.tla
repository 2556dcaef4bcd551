---------------------------- MODULE TripsTable ----------------------------
(***************************************************************************)
(* The Postgres tables two services write without talking to each other:   *)
(* `trips` (one row per trip, db/migrations/0001_init.sql) and `buses`.    *)
(* The api-gateway mints trips when a driver starts one; the               *)
(* stream-processor mints "inferred" trips for buses that report positions *)
(* without one.  Both run at READ COMMITTED, the default.                  *)
(***************************************************************************)
EXTENDS Naturals

CONSTANTS Bus,      \* registration numbers
          Dir,      \* route directions known to every service
          Req,      \* HTTP requests the gateway serves at one time
          NoBus, NoDir, NoReq, \* null values
          MaxTrip,  \* bound: how many ids the trips sequence hands out
          Faulty    \* whether queries may fail

ASSUME TableAssumption ==
    /\ MaxTrip \in Nat /\ Faulty \in BOOLEAN
    /\ NoBus \notin Bus /\ NoDir \notin Dir /\ NoReq \notin Req

NoTrip == 0

VARIABLES trips,     \* the committed rows, a function on their ids
          buses,     \* registration numbers with a buses row
          nextTrip,  \* the identity sequence of trips.id
          rowLock    \* the transaction holding each trips row, or NoReq

tableVars == <<trips, buses, nextTrip, rowLock>>

TripId == 1 .. MaxTrip
Ended == {"completed", "abandoned"}
TripStatus == {"running"} \cup Ended

(* `saw` is a history field: the rows the minting transaction's UPDATE found *)
(* running for its bus.                                                      *)
TripRow == [bus : Bus, dir : Dir, status : TripStatus, inferred : BOOLEAN,
            saw : SUBSET TripId]

TableTypeOK ==
    /\ DOMAIN trips \subseteq TripId
    /\ trips \in [DOMAIN trips -> TripRow]
    /\ buses \subseteq Bus
    /\ nextTrip \in 1 .. (MaxTrip + 1)
    /\ rowLock \in [TripId -> Req \cup {NoReq}]

TableInit ==
    /\ trips = [t \in {} |-> {}]
    /\ buses = {}
    /\ nextTrip = 1
    /\ rowLock = [t \in TripId |-> NoReq]

Running(b) == {t \in DOMAIN trips : trips[t].bus = b /\ trips[t].status = "running"}

(* INSERT INTO buses ... ON CONFLICT DO UPDATE RETURNING id.               *)
UpsertBus(b) == buses' = buses \cup {b}

(* The table after the rows of `closed` are given a status and `opened`,   *)
(* if it is an id, is added.                                               *)
WithStatus(closed, s) ==
    [t \in DOMAIN trips |->
        IF t \in closed THEN [trips[t] EXCEPT !.status = s] ELSE trips[t]]

WithRow(table, id, row) ==
    [t \in DOMAIN table \cup {id} |-> IF t = id THEN row ELSE table[t]]

NewRow(b, d, guess, seen) ==
    [bus |-> b, dir |-> d, status |-> "running", inferred |-> guess, saw |-> seen]

(* A single UPDATE waits for the row's lock to be released.                *)
Unlocked(t) == rowLock[t] = NoReq
============================================================================
