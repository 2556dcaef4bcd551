------------------------------ MODULE LiveFeed ------------------------------
(***************************************************************************)
(* A position from the bus to the passenger's screen: consumer.ts writes   *)
(* it to Redis and publishes it, etaScoringLoop.ts publishes it again with *)
(* ETAs, gateway.ts forwards what is published and, for buses gone quiet,  *)
(* publishes what it reads in Redis itself; fleet_socket.dart and          *)
(* useFleetSocket.ts keep the last update of each bus.                     *)
(*                                                                         *)
(* A report is identified by the time it was measured.  Time is counted in *)
(* steps of the ladder's thresholds, not in milliseconds.                  *)
(***************************************************************************)
EXTENDS Naturals, Sequences, FiniteSets

CONSTANTS Bus,
          Mapped,      \* buses whose direction is in the route snapshot
          LiveMaxAge, EstimatedMaxAge,  \* config.ts
          EtaGrace,    \* what ETA_CACHE_TTL_SEC adds to EstimatedMaxAge
          Slot,        \* scoring ticks that can be in progress at one time
          Watcher,     \* watchdog ticks that can be in progress at one time
          Late,        \* buses whose reports may come after a newer one, or no longer live
          Lag,         \* steps of time an update can be on its way through the pipeline
          MaxTime,     \* bound on time
          LastReport,  \* bound: when the buses stop reporting
          MaxReport,   \* bound: reports the buses make together
          MaxLog       \* bound: updates queued in Kafka, and pings in progress

ASSUME FeedAssumption ==
    /\ MaxTime \in Nat /\ LiveMaxAge \in Nat /\ EstimatedMaxAge \in Nat
    /\ LiveMaxAge <= EstimatedMaxAge
    /\ EtaGrace \in Nat /\ MaxLog \in Nat /\ Lag \in Nat /\ IsFiniteSet(Bus)
    /\ Late \subseteq Bus

VARIABLES now, reported,
          air,       \* reports sent or buffered by the driver's phone
          position,  \* Redis bus:{id}:position: the report it holds, if any
          etaUntil,  \* Redis bus:{id}:eta: when it expires, 0 if never written
          scored,    \* buses in latestEtaCache
          resume,    \* pings whose Redis write is done, Kafka send to come
          log,       \* bus-state-updates, not yet consumed by the gateway
          tick,      \* scoring ticks in progress
          watch,     \* watchdog ticks in progress
          up,        \* the gateway process is running
          connected, \* the passenger's socket
          view,      \* the passenger's last update of each bus
          held       \* history: the reports Redis held during each step of time

feedVars == <<now, reported, air, position, etaUntil, scored, resume, log, tick, watch, up,
              connected, view, held>>

Time == 0 .. MaxTime
Tier == {"live", "estimated", "stale"}

(* What a handler works on and publishes also records, as history, when it *)
(* met Redis: "since".                                                     *)
Ping == [bus : Bus, at : Time]
Read == [bus : Bus, at : Time, since : Time]
Update == [bus : Bus, at : Time, since : Time, tier : Tier, eta : BOOLEAN]
Shown == [at : Time, tier : Tier, eta : BOOLEAN]

(* A set of at most one element stands for a value that may be missing.    *)
Optional(S) == {{}} \cup {{x} : x \in S}

LiveFeedTypeOK ==
    /\ now \in Time
    /\ reported \in [Bus -> SUBSET Time]
    /\ air \subseteq Ping
    /\ position \in [Bus -> Optional(Time)]
    /\ etaUntil \in [Bus -> Nat]
    /\ scored \subseteq Bus
    /\ resume \in Seq(Read) /\ Len(resume) <= MaxLog
    /\ log \in Seq(Update) /\ Len(log) <= MaxLog
    /\ tick \in [Slot -> SUBSET Read]
    /\ watch \in [Watcher -> Optional(Update)]
    /\ up \in BOOLEAN /\ connected \in BOOLEAN
    /\ view \in [Bus -> Optional(Shown)]
    /\ held \in [Bus -> [Time -> SUBSET Time]]

LiveFeedInit ==
    /\ now = 0
    /\ reported = [b \in Bus |-> {}]
    /\ air = {}
    /\ position = [b \in Bus |-> {}]
    /\ etaUntil = [b \in Bus |-> 0]
    /\ scored = {}
    /\ resume = <<>> /\ log = <<>>
    /\ tick = [s \in Slot |-> {}]
    /\ watch = [s \in Watcher |-> {}]
    /\ up = TRUE /\ connected = TRUE
    /\ view = [b \in Bus |-> {}]
    /\ held = [b \in Bus |-> [t \in Time |-> {}]]

(* deadReckoning.ts.                                                       *)
ClassifyAge_Swapped(age) ==
    IF age <= LiveMaxAge THEN "live"
    ELSE IF age <= EstimatedMaxAge THEN "stale" ELSE "estimated"

ClassifyAge(age) ==
    IF age <= LiveMaxAge THEN "live"
    ELSE IF age <= EstimatedMaxAge THEN "estimated" ELSE "stale"

EstimatedTier_AnyRoute(b, age) == ClassifyAge(age)

EstimatedTier(b, age) == IF b \in Mapped THEN ClassifyAge(age) ELSE "stale"

----------------------------------------------------------------------------
(* The world                                                               *)

(* A step of time is as long as a threshold; nothing stays in the pipeline *)
(* for more than Lag of them.                                              *)
NothingOverdue ==
    /\ \A i \in DOMAIN resume : now < resume[i].since + Lag
    /\ \A i \in DOMAIN log : now < log[i].since + Lag
    /\ \A s \in Slot : \A p \in tick[s] : now < p.since + Lag
    /\ \A s \in Watcher : \A u \in watch[s] : now < u.since + Lag

Pass ==
    /\ now < MaxTime
    /\ NothingOverdue
    /\ now' = now + 1
    /\ held' = [b \in Bus |-> [held[b] EXCEPT ![now + 1] = position[b]]]
    /\ UNCHANGED <<reported, air, position, etaUntil, scored, resume, log, tick, watch, up,
                   connected, view>>

(* The driver's phone measures a position and sends it or buffers it.      *)
Measure(b) ==
    /\ now <= LastReport /\ now \notin reported[b]
    /\ Cardinality({p \in Ping : p.at \in reported[p.bus]}) < MaxReport
    /\ reported' = [reported EXCEPT ![b] = @ \cup {now}]
    /\ air' = air \cup {[bus |-> b, at |-> now]}
    /\ UNCHANGED <<now, position, etaUntil, scored, resume, log, tick, watch, up, connected,
                   view, held>>

(* QoS 0: a report sent may never arrive.                                  *)
Lose(p) ==
    /\ p \in air
    /\ air' = air \ {p}
    /\ UNCHANGED <<now, reported, position, etaUntil, scored, resume, log, tick, watch, up,
                   connected, view, held>>

Connect ==
    /\ connected \/ up
    /\ connected' = ~connected
    /\ UNCHANGED <<now, reported, air, position, etaUntil, scored, resume, log, tick, watch,
                   up, view, held>>

----------------------------------------------------------------------------
(* consumer.ts, handlePing                                                 *)

(* Up to the Redis transaction: the report replaces whatever is there.     *)
Ingest_KeepAll(p) ==
    /\ p \in air /\ Len(resume) < MaxLog
    /\ air' = air \ {p}
    /\ position' = [position EXCEPT ![p.bus] = @ \cup {p.at}]
    /\ held' = [held EXCEPT ![p.bus][now] = @ \cup {p.at}]
    /\ resume' = Append(resume, [bus |-> p.bus, at |-> p.at, since |-> now])
    /\ UNCHANGED <<now, reported, etaUntil, scored, log, tick, watch, up, connected, view>>

Ingest(p) ==
    /\ p \in air /\ Len(resume) < MaxLog
    /\ \/ p.bus \in Late
       \/ /\ \A q \in air : q.bus = p.bus => p.at <= q.at
          /\ now - p.at <= LiveMaxAge
    /\ air' = air \ {p}
    /\ position' = [position EXCEPT ![p.bus] = {p.at}]
    /\ held' = [held EXCEPT ![p.bus][now] = @ \cup {p.at}]
    /\ resume' = Append(resume, [bus |-> p.bus, at |-> p.at, since |-> now])
    /\ UNCHANGED <<now, reported, etaUntil, scored, log, tick, watch, up, connected, view>>

(* After it: publish with the ETA last computed, whatever the report's age. *)
(* Kafka may refuse it.                                                    *)
PublishPing ==
    LET p == Head(resume) IN
    /\ resume # <<>>
    /\ resume' = Tail(resume)
    /\ \/ /\ Len(log) < MaxLog
          /\ log' = Append(log, [bus |-> p.bus, at |-> p.at, since |-> p.since,
                                tier |-> "live", eta |-> p.bus \in scored])
       \/ log' = log
    /\ UNCHANGED <<now, reported, air, position, etaUntil, scored, tick, watch, up,
                   connected, view, held>>

----------------------------------------------------------------------------
(* etaScoringLoop.ts: ticks are started by a timer and can overlap         *)

(* loadLiveBuses and buildQuery, then the request is on its way.           *)
LiveRows ==
    {p \in Read : /\ p.bus \in Mapped /\ p.at \in position[p.bus] /\ p.since = now
                  /\ now - p.at <= LiveMaxAge}

ScoreRead(s) ==
    /\ tick[s] = {} /\ LiveRows # {}
    /\ tick' = [tick EXCEPT ![s] = LiveRows]
    /\ UNCHANGED <<now, reported, air, position, etaUntil, scored, resume, log, watch, up,
                   connected, view, held>>

Rescored_Now(p) == [bus |-> p.bus, at |-> now, since |-> p.since, tier |-> "live", eta |-> TRUE]

Rescored(p) == [bus |-> p.bus, at |-> p.at, since |-> p.since, tier |-> "live", eta |-> TRUE]

(* The answer covers the buses whose route still has a stop ahead; what is *)
(* published is the row read before the request.  The mirror write is best *)
(* effort, and Kafka may refuse the batch.                                 *)
ScoreAnswer(s) ==
    \E answered \in SUBSET tick[s] :
        /\ tick[s] # {}
        /\ tick' = [tick EXCEPT ![s] = {}]
        /\ scored' = scored \cup {p.bus : p \in answered}
        /\ \E mirrored \in SUBSET {p.bus : p \in answered} :
              etaUntil' = [b \in Bus |-> IF b \in mirrored
                                         THEN now + EstimatedMaxAge + EtaGrace ELSE etaUntil[b]]
        /\ \/ log' = log
           \/ \E order \in [1 .. Cardinality(answered) -> answered] :
                 /\ Len(log) + Cardinality(answered) <= MaxLog
                 /\ \A p \in answered : \E i \in DOMAIN order : order[i] = p
                 /\ log' = log \o [i \in DOMAIN order |-> Rescored(order[i])]
        /\ UNCHANGED <<now, reported, air, position, resume, watch, up, connected, view,
                       held>>

----------------------------------------------------------------------------
(* gateway.ts                                                              *)

(* io.to(room).emit: every connected client is in the fleet room.          *)
Emit(u) ==
    view' = IF connected
            THEN [view EXCEPT ![u.bus] = {[at |-> u.at, tier |-> u.tier, eta |-> u.eta]}] ELSE view

Forward ==
    /\ up /\ log # <<>>
    /\ log' = Tail(log)
    /\ Emit(Head(log))
    /\ UNCHANGED <<now, reported, air, position, etaUntil, scored, resume, tick, watch, up,
                   connected, held>>

(* The watchdog reads the bus's position; it is not old enough, or ...     *)
WatchRead_HideStale(s, b) ==
    /\ up /\ watch[s] = {}
    /\ \E at \in position[b] :
          /\ EstimatedTier(b, now - at) = "estimated"
          /\ watch' = [watch EXCEPT ![s] =
                         {[bus |-> b, at |-> at, since |-> now, tier |-> "estimated",
                           eta |-> FALSE]}]
    /\ UNCHANGED <<now, reported, air, position, etaUntil, scored, resume, log, tick, up,
                   connected, view, held>>

WatchRead(s, b) ==
    /\ up /\ watch[s] = {}
    /\ \E at \in position[b] :
          /\ now - at > LiveMaxAge
          /\ watch' = [watch EXCEPT ![s] =
                         {[bus |-> b, at |-> at, since |-> now,
                           tier |-> EstimatedTier(b, now - at), eta |-> FALSE]}]
    /\ UNCHANGED <<now, reported, air, position, etaUntil, scored, resume, log, tick, up,
                   connected, view, held>>

(* ... the rest of the update is read and it is sent, the position being   *)
(* the one read before.                                                    *)
WatchEmit(s) ==
    \E u \in watch[s] :
        /\ up
        /\ watch' = [watch EXCEPT ![s] = {}]
        /\ Emit([u EXCEPT !.eta = etaUntil[u.bus] > now])
        /\ UNCHANGED <<now, reported, air, position, etaUntil, scored, resume, log, tick,
                       up, connected, held>>

(* A failed read in the watchdog is an unhandled rejection: the process    *)
(* dies, and its clients with it, until it is started again.               *)
GatewayDown ==
    /\ up /\ up' = FALSE
    /\ watch' = [s \in Watcher |-> {}]
    /\ connected' = FALSE
    /\ UNCHANGED <<now, reported, air, position, etaUntil, scored, resume, log, tick, view,
                   held>>

(* It dies after handing an update on but before committing its offset:    *)
(* the update will be consumed again.                                      *)
DieUncommitted ==
    /\ up /\ log # <<>>
    /\ Emit(Head(log))
    /\ up' = FALSE
    /\ watch' = [s \in Watcher |-> {}]
    /\ connected' = FALSE
    /\ UNCHANGED <<now, reported, air, position, etaUntil, scored, resume, log, tick, held>>

GatewayUp ==
    /\ ~up /\ up' = TRUE
    /\ UNCHANGED <<now, reported, air, position, etaUntil, scored, resume, log, tick, watch,
                   connected, view, held>>

(* The consumer restarts: pings and ticks in progress and its ETA cache    *)
(* are gone, Redis and Kafka are not.                                      *)
ConsumerRestart ==
    /\ resume # <<>> \/ \E s \in Slot : tick[s] # {}
    /\ resume' = <<>>
    /\ tick' = [s \in Slot |-> {}]
    /\ scored' = {}
    /\ UNCHANGED <<now, reported, air, position, etaUntil, log, watch, up, connected, view,
                   held>>

LiveFeedNext ==
    \/ Pass \/ Connect
    \/ \E b \in Bus : Measure(b)
    \/ \E p \in air : Lose(p) \/ Ingest(p)
    \/ PublishPing
    \/ \E s \in Slot : ScoreRead(s) \/ ScoreAnswer(s)
    \/ \E s \in Watcher, b \in Bus : WatchRead(s, b)
    \/ \E s \in Watcher : WatchEmit(s)
    \/ Forward \/ GatewayDown \/ DieUncommitted \/ GatewayUp \/ ConsumerRestart

LiveFeedSafe == LiveFeedInit /\ [][LiveFeedNext]_feedVars

(* Time passes; node resumes what is ready; ml-service answers or its      *)
(* request times out; the watchdog's timer fires and visits every bus.     *)
(* Nothing obliges a report to arrive or the passenger to be connected.    *)
LiveFeedFairness ==
    /\ WF_feedVars(Pass) /\ WF_feedVars(PublishPing) /\ WF_feedVars(Forward)
    /\ \A s \in Slot : WF_feedVars(ScoreAnswer(s))
    /\ \A s \in Watcher : WF_feedVars(WatchEmit(s))
    /\ \A b \in Bus : SF_feedVars(\E s \in Watcher : WatchRead(s, b))

LiveFeedSpec == LiveFeedSafe /\ LiveFeedFairness

----------------------------------------------------------------------------
(* Properties                                                              *)

(* Every timestamp anywhere in the pipeline - Redis, a handler, a scoring  *)
(* or watchdog tick in progress, Kafka, the screen - is when that bus      *)
(* really measured a position: no stage stamps an update with its own      *)
(* clock and passes old news for new.                                      *)
TimestampsAreReal ==
    /\ \A p \in air : p.at \in reported[p.bus]
    /\ \A b \in Bus : position[b] \subseteq reported[b]
    /\ \A i \in DOMAIN resume : resume[i].at \in reported[resume[i].bus]
    /\ \A i \in DOMAIN log : log[i].at \in reported[log[i].bus]
    /\ \A s \in Slot : \A p \in tick[s] : p.at \in reported[p.bus]
    /\ \A s \in Watcher : \A u \in watch[s] : u.at \in reported[u.bus]
    /\ \A b \in Bus : \A u \in view[b] : u.at \in reported[b]

(* What the passenger sees of a bus whose reports come in order and still  *)
(* live is the degradation ladder as it stood at most Lag steps ago: the   *)
(* report the server held then, at the tier due to it then - through       *)
(* overlapping ticks, failed sends, restarts and reconnections.  HonestFeed *)
(* says it without the pipeline.                                           *)
Prompt == Bus \ Late

Honest == INSTANCE HonestFeed WITH
    Bus <- Prompt,
    reported <- [b \in Prompt |-> reported[b]],
    latest <- [b \in Prompt |-> position[b]],
    held <- [b \in Prompt |-> held[b]],
    screen <- [b \in Prompt |-> {[at |-> u.at, tier |-> u.tier] : u \in view[b]}]

ShowsHonestly == Honest!HonestSpec

(* A bus that goes quiet does not stay on the map as if it were there: a   *)
(* passenger who stays connected ends up seeing the last report Redis has, *)
(* as stale, however many older updates were still on their way.           *)
QuietBusGoesStale ==
    <>[](up /\ connected) =>
      <>[](\A b \in Bus : \A at \in position[b] :
             \E u \in view[b] : u.at = at /\ u.tier = "stale")

(* docs section 7.3: one Kafka key per bus, "so a single bus's updates     *)
(* stay ordered on one partition": of two updates of a bus queued there,   *)
(* the later does not carry the older report, if reports arrive in order.  *)
(* The code does not keep this: a scoring tick can overtake a handler.     *)
UpdatesStayOrdered ==
    \A i, j \in DOMAIN log :
        (i < j /\ log[i].bus = log[j].bus /\ log[i].bus \in Prompt) => log[i].at <= log[j].at
=============================================================================
