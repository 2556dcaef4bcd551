----------------------------- MODULE HonestFeed -----------------------------
(***************************************************************************)
(* What the degradation ladder promises a passenger, without saying how it *)
(* is kept (docs section 7.4, deadReckoning.ts, fleet_socket.dart).  The   *)
(* server holds the newest report of each bus.  The screen is the ladder   *)
(* as it stood at some moment not longer than Lag ago: the report the      *)
(* server held at that moment, stamped with the report's own time, and at  *)
(* the tier due to its age then - live, then estimated along the route,    *)
(* then stale.  Of a bus whose route is not on the map nothing can be      *)
(* estimated: it is stale as soon as it is not live.                       *)
(***************************************************************************)
EXTENDS Naturals

CONSTANTS Bus, Mapped, LiveMaxAge, EstimatedMaxAge, Lag, MaxTime

VARIABLES now,       \* time
          reported,  \* when each bus measured a position
          latest,    \* the report the server holds of each bus, if any
          held,      \* the reports it held during each step of time
          screen     \* what the passenger is shown of each bus

honestVars == <<now, reported, latest, held, screen>>

Time == 0 .. MaxTime
Recent == {t \in Time : t <= now /\ now <= t + Lag}

HonestInit ==
    /\ now = 0
    /\ reported = [b \in Bus |-> {}]
    /\ latest = [b \in Bus |-> {}]
    /\ held = [b \in Bus |-> [t \in Time |-> {}]]
    /\ screen = [b \in Bus |-> {}]

Pass ==
    /\ now < MaxTime
    /\ now' = now + 1
    /\ held' = [b \in Bus |-> [held[b] EXCEPT ![now + 1] = latest[b]]]
    /\ UNCHANGED <<reported, latest, screen>>

Report(b) ==
    /\ reported' = [reported EXCEPT ![b] = @ \cup {now}]
    /\ UNCHANGED <<now, latest, held, screen>>

(* Only a newer report replaces the one the server holds.                  *)
Arrive(b) ==
    /\ \E at \in reported[b] :
          /\ \A old \in latest[b] : old <= at
          /\ latest' = [latest EXCEPT ![b] = {at}]
          /\ held' = [held EXCEPT ![b][now] = @ \cup {at}]
    /\ UNCHANGED <<now, reported, screen>>

Ladder(b, age) ==
    IF age <= LiveMaxAge THEN "live"
    ELSE IF b \in Mapped /\ age <= EstimatedMaxAge THEN "estimated" ELSE "stale"

Show(b) ==
    /\ \E t \in Recent : \E at \in held[b][t] :
          screen' = [screen EXCEPT ![b] = {[at |-> at, tier |-> Ladder(b, t - at)]}]
    /\ UNCHANGED <<now, reported, latest, held>>

HonestNext == Pass \/ \E b \in Bus : Report(b) \/ Arrive(b) \/ Show(b)

HonestSpec == HonestInit /\ [][HonestNext]_honestVars
=============================================================================
