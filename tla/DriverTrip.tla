----------------------------- MODULE DriverTrip -----------------------------
(***************************************************************************)
(* The driver's shift on the phone (on_trip_screen.dart, the manual entry  *)
(* of schedule_start_screen.dart, api_client.dart): HTTP requests that are *)
(* slow, lost or served after the screen has stopped waiting for them, and *)
(* the transmitter each running trip owns.  A screen that was left does    *)
(* nothing with an answer, so only the one on top is kept.  The server is  *)
(* reduced to what its requests do to the bus's trips (TripsService has    *)
(* their steps).  Tallies and alerts are sent and forgotten; no step here  *)
(* depends on them.                                                        *)
(***************************************************************************)
EXTENDS Telemetry

CONSTANTS MaxReq,   \* bound: requests sent
          MaxShift  \* bound: times a start is entered

ASSUME DriverTripAssumption == MaxReq \in Nat /\ MaxShift \in Nat

VARIABLES screen,      \* the screen on top
          request,     \* HTTP requests, in the order they are sent
          sent,        \* how many
          trips,       \* trips of the bus at the server, in order of creation
          shift,       \* how many shifts were begun
          overtaken,   \* history: a start was served after the screen gave it up
          retried,     \* history: shifts in which the screen gave a start up
          leftRunning  \* history: trips whose screen was left while running

tripVars == <<screen, request, sent, trips, shift, overtaken, retried, leftRunning>>
driverVars == <<telemetryVars, tripVars>>

Status == {"running", "completed", "abandoned"}
Trip == 1 .. MaxReq
NoTrip == 0

(* "manual" is the schedule-start screen, "home" any screen without a      *)
(* trip, "ended" trip-updated.  waits is the request whose answer the      *)
(* screen awaits, or 0.                                                    *)
Screen == [phase : {"home", "manual", "manualBusy", "starting", "running", "ending",
                    "startFailed", "ended"},
           trip : Trip \cup {NoTrip}, tx : 0 .. MaxTx, waits : 0 .. MaxReq]
Home == [phase |-> "home", trip |-> NoTrip, tx |-> 0, waits |-> 0]

Request == [kind : {"start", "end"}, trip : Trip \cup {NoTrip}, shift : 1 .. MaxShift,
            state : {"sent", "served", "refused", "lost"}]

(* The type of every variable; a screen waits exactly while it shows that  *)
(* it is busy, and owns a transmitter exactly while it shows a trip.       *)
DriverTripTypeOK ==
    /\ TelemetryTypeOK
    /\ screen \in Screen
    /\ screen.waits # 0 <=> screen.phase \in {"manualBusy", "starting", "ending"}
    /\ screen.tx # 0 <=> screen.phase \in {"running", "ending"}
    /\ sent \in 0 .. MaxReq /\ request \in [1 .. sent -> Request]
    /\ \E n \in 0 .. MaxReq : trips \in [1 .. n -> Status]
    /\ shift \in 0 .. MaxShift
    /\ overtaken \in BOOLEAN /\ retried \subseteq 1 .. MaxShift
    /\ leftRunning \subseteq Trip

DriverTripInit ==
    /\ TelemetryInit
    /\ screen = Home
    /\ sent = 0 /\ request = [i \in {} |-> 0]
    /\ trips = [t \in {} |-> "running"]
    /\ shift = 0
    /\ overtaken = FALSE /\ retried = {} /\ leftRunning = {}

Send(kind, t, s) ==
    /\ sent < MaxReq
    /\ sent' = sent + 1
    /\ request' = [i \in 1 .. (sent + 1) |->
                     IF i = sent + 1 THEN [kind |-> kind, trip |-> t, shift |-> s, state |-> "sent"]
                     ELSE request[i]]

(* What stays the same when only the screen acts.                          *)
OnlyScreen == UNCHANGED <<telemetryVars, trips>>

----------------------------------------------------------------------------
(* trip_start_screen pushes the on-trip screen, which posts the trip.      *)
OpenOnTrip ==
    /\ screen.phase = "home" /\ shift < MaxShift
    /\ shift' = shift + 1
    /\ Send("start", NoTrip, shift + 1)
    /\ screen' = [Home EXCEPT !.phase = "starting", !.waits = sent + 1]
    /\ OnlyScreen /\ UNCHANGED <<overtaken, retried, leftRunning>>

(* The GPS is unavailable: the manual screen posts the trip when confirmed.*)
OpenManual ==
    /\ screen.phase = "home" /\ shift < MaxShift
    /\ shift' = shift + 1
    /\ screen' = [Home EXCEPT !.phase = "manual"]
    /\ OnlyScreen /\ UNCHANGED <<request, sent, overtaken, retried, leftRunning>>

(* Confirm, or retry after a failed start.                                 *)
PostStart ==
    /\ \/ screen.phase = "manual"
          /\ screen' = [screen EXCEPT !.phase = "manualBusy", !.waits = sent + 1]
       \/ screen.phase = "startFailed"
          /\ screen' = [screen EXCEPT !.phase = "starting", !.waits = sent + 1]
    /\ Send("start", NoTrip, shift)
    /\ OnlyScreen /\ UNCHANGED <<shift, overtaken, retried, leftRunning>>

Answered == screen.waits # 0 /\ request[screen.waits].state = "served"

(* The trip exists; a trip posted by the manual screen is adopted.         *)
StartAnswered_NotAdopted(x) ==
    /\ Answered
    /\ \/ /\ screen.phase = "starting"
          /\ MakeTransmitter(x) /\ \A y \in Tx : y < x => tx[y].pc # "none"
          /\ screen' = [phase |-> "running", trip |-> request[screen.waits].trip, tx |-> x,
                        waits |-> 0]
          /\ UNCHANGED <<request, sent>>
       \/ /\ screen.phase = "manualBusy"
          /\ Send("start", NoTrip, shift)
          /\ screen' = [screen EXCEPT !.phase = "starting", !.waits = sent + 1]
          /\ UNCHANGED tx
    /\ UNCHANGED <<bufferVars, flush, taken, drops, kills, historyVars, unsaved,
                   trips, shift, overtaken, retried, leftRunning>>

StartAnswered(x) ==
    /\ Answered /\ screen.phase \in {"starting", "manualBusy"}
    /\ MakeTransmitter(x) /\ \A y \in Tx : y < x => tx[y].pc # "none"
    /\ screen' = [phase |-> "running", trip |-> request[screen.waits].trip, tx |-> x, waits |-> 0]
    /\ UNCHANGED <<bufferVars, flush, taken, drops, kills, historyVars, unsaved,
                   request, sent, trips, shift, overtaken, retried, leftRunning>>

(* _endTrip: the transmitter first, then the server.                       *)
EndTrip ==
    /\ screen.phase = "running"
    /\ StopTransmitter(screen.tx)
    /\ Send("end", screen.trip, shift)
    /\ screen' = [screen EXCEPT !.phase = "ending", !.waits = sent + 1]
    /\ UNCHANGED <<bufferVars, flush, taken, drops, kills, historyVars, unsaved,
                   trips, shift, overtaken, retried, leftRunning>>

(* trip-updated replaces the on-trip screen, whose dispose stops the       *)
(* transmitter once more.                                                  *)
EndAnswered ==
    /\ Answered /\ screen.phase = "ending"
    /\ StopTransmitter(screen.tx)
    /\ screen' = [screen EXCEPT !.phase = "ended", !.waits = 0, !.tx = 0]
    /\ UNCHANGED <<bufferVars, flush, taken, drops, kills, historyVars, unsaved,
                   request, sent, trips, shift, overtaken, retried, leftRunning>>

(* An ApiException: the request was refused, or no answer came in 12 s,    *)
(* wherever the request is by then.                                        *)
AfterFailure(phase) == CASE phase = "starting" -> "startFailed"
                         [] phase = "manualBusy" -> "manual"
                         [] phase = "ending" -> "running"

RequestFails_StillBusy ==
    /\ screen.waits # 0
    /\ screen' = [screen EXCEPT !.phase = AfterFailure(@)]
    /\ retried' = IF screen.phase = "ending" THEN retried ELSE retried \cup {shift}
    /\ OnlyScreen /\ UNCHANGED <<request, sent, shift, overtaken, leftRunning>>

RequestFails ==
    /\ screen.waits # 0
    /\ screen' = [screen EXCEPT !.phase = AfterFailure(@), !.waits = 0]
    /\ retried' = IF screen.phase = "ending" THEN retried ELSE retried \cup {shift}
    /\ OnlyScreen /\ UNCHANGED <<request, sent, shift, overtaken, leftRunning>>

(* The driver leaves the screen.  dispose: the transmitter is stopped; a   *)
(* running trip is ended, best effort.                                     *)
Leave_Silently ==
    /\ screen.phase # "home"
    /\ screen' = Home
    /\ IF screen.tx = 0 THEN UNCHANGED tx ELSE StopTransmitter(screen.tx)
    /\ leftRunning' = IF screen.phase = "running" THEN leftRunning \cup {screen.trip}
                      ELSE leftRunning
    /\ UNCHANGED <<bufferVars, flush, taken, drops, kills, historyVars, unsaved,
                   request, sent, trips, shift, overtaken, retried>>

Leave ==
    /\ screen.phase # "home"
    /\ screen' = Home
    /\ \/ screen.tx = 0 /\ UNCHANGED tx
       \/ screen.tx # 0 /\ StopTransmitter(screen.tx)
    /\ \/ /\ screen.phase = "running"
          /\ Send("end", screen.trip, shift)
          /\ leftRunning' = leftRunning \cup {screen.trip}
       \/ screen.phase # "running" /\ UNCHANGED <<request, sent, leftRunning>>
    /\ UNCHANGED <<bufferVars, flush, taken, drops, kills, historyVars, unsaved,
                   trips, shift, overtaken, retried>>

(* The app is killed: nothing is disposed of.                              *)
PhoneKilled ==
    /\ AppKilled
    /\ screen' = Home
    /\ UNCHANGED <<request, sent, trips, shift, overtaken, retried, leftRunning>>

----------------------------------------------------------------------------
(* The network and the server.  A start abandons the bus's running trips.  *)
ServeStart(i) ==
    LET t == Cardinality(DOMAIN trips) + 1 IN
    /\ request[i].kind = "start" /\ request[i].state = "sent"
    /\ trips' = [u \in 1 .. t |-> IF u = t THEN "running"
                                  ELSE IF trips[u] = "running" THEN "abandoned" ELSE trips[u]]
    /\ request' = [request EXCEPT ![i].state = "served", ![i].trip = t]
    /\ overtaken' = (overtaken \/ screen.waits # i)
    /\ UNCHANGED <<telemetryVars, screen, sent, shift, retried, leftRunning>>

(* An end asks for "completed": granted to a running trip, repeated for a  *)
(* completed one, refused for an abandoned one.                            *)
ServeEnd_OfBus(i) ==
    /\ request[i].kind = "end" /\ request[i].state = "sent"
    /\ trips' = [u \in DOMAIN trips |-> IF trips[u] = "running" THEN "completed" ELSE trips[u]]
    /\ request' = [request EXCEPT ![i].state = "served"]
    /\ UNCHANGED <<telemetryVars, screen, sent, shift, overtaken, retried, leftRunning>>

ServeEnd(i) ==
    LET t == request[i].trip IN
    /\ request[i].kind = "end" /\ request[i].state = "sent"
    /\ \/ /\ trips[t] # "abandoned"
          /\ trips' = [trips EXCEPT ![t] = "completed"]
          /\ request' = [request EXCEPT ![i].state = "served"]
       \/ /\ trips[t] = "abandoned"
          /\ request' = [request EXCEPT ![i].state = "refused"]
          /\ UNCHANGED trips
    /\ UNCHANGED <<telemetryVars, screen, sent, shift, overtaken, retried, leftRunning>>

(* The request never arrives, or fails at the server.                      *)
LoseRequest(i) ==
    /\ request[i].state = "sent"
    /\ request' = [request EXCEPT ![i].state = "lost"]
    /\ UNCHANGED <<telemetryVars, screen, sent, trips, shift, overtaken, retried, leftRunning>>

DriverTripNext ==
    \/ OpenOnTrip \/ OpenManual \/ PostStart
    \/ \E x \in Tx : StartAnswered(x)
    \/ EndTrip \/ EndAnswered \/ RequestFails \/ Leave \/ PhoneKilled
    \/ \E i \in 1 .. sent : ServeStart(i) \/ ServeEnd(i) \/ LoseRequest(i)
    \/ \E x \in Tx : TransmitterStep(x) /\ UNCHANGED tripVars
    \/ BufferStep /\ UNCHANGED tripVars

DriverTripSpec == DriverTripInit /\ [][DriverTripNext]_driverVars

----------------------------------------------------------------------------
(* Properties                                                              *)

(* The trip the driver sees running, and has not tried to end, runs at the *)
(* server, however late the requests of earlier screens are served, unless *)
(* one of them was a start the phone had given up; and "Trip Updated       *)
(* Successfully" is shown only for a trip the server has completed.        *)
ShownTripRuns ==
    /\ (screen.phase = "running" /\ ~overtaken
           /\ \A i \in 1 .. sent : request[i].kind = "end" => request[i].trip # screen.trip)
       => trips[screen.trip] = "running"
    /\ screen.phase = "ended" => trips[screen.trip] = "completed"

(* dispose: leaving a running trip closes it at the server, unless the     *)
(* request to do so is still on its way or was lost.                       *)
LeavingCloses ==
    \A t \in leftRunning :
        \/ trips[t] # "running"
        \/ \E i \in 1 .. sent : /\ request[i].kind = "end" /\ request[i].trip = t
                                /\ request[i].state \in {"sent", "lost"}

(* on_trip_screen.dart: a trip the manual screen created is adopted        *)
(* "rather than creating a second one for the same shift".                 *)
OneTripPerShift ==
    \A s \in (1 .. MaxShift) \ retried :
        Cardinality({i \in 1 .. sent : request[i].kind = "start" /\ request[i].shift = s}) <= 1

(* on_trip_screen.dart: leaving "must still close the trip server-side     *)
(* rather than leaving it 'running' in Postgres forever".                  *)
Settled == \A i \in 1 .. sent : request[i].state \in {"served", "refused"}
LeftTripIsClosed ==
    (screen.phase = "home" /\ kills = 0 /\ Settled) => \A t \in DOMAIN trips : trips[t] # "running"
=============================================================================
