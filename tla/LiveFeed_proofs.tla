-------------------------- MODULE LiveFeed_proofs --------------------------
(***************************************************************************)
(* Proofs about LiveFeed, for any fleet, any number of overlapping scoring *)
(* and watchdog ticks, any thresholds, queue length and lag: that no stage *)
(* invents a timestamp, and that the feed implements HonestFeed for the    *)
(* buses whose reports come in order and still live, whatever the others   *)
(* do.                                                                     *)
(***************************************************************************)
EXTENDS LiveFeed, FiniteSetTheorems, TLAPS

USE FeedAssumption

(* What a handler, a tick or the queue carries is a report that Redis held *)
(* at the time it was met there, and that is at most Lag ago.              *)
Carried(p) == p.at \in held[p.bus][p.since] /\ p.since <= now /\ now <= p.since + Lag

Carrying ==
    /\ \A b \in Bus : position[b] \subseteq held[b][now]
    /\ \A i \in DOMAIN resume : Carried(resume[i])
    /\ \A i \in DOMAIN log : Carried(log[i])
    /\ \A s \in Slot : \A p \in tick[s] : Carried(p)
    /\ \A s \in Watcher : \A u \in watch[s] : Carried(u)

(* The tier it is given, or will be given, was due then.                   *)
StillLive(p) == p.since - p.at <= LiveMaxAge
OnLadder(u) == u.tier = Honest!Ladder(u.bus, u.since - u.at)

Laddered ==
    /\ \A s \in Slot : \A p \in tick[s] : StillLive(p)
    /\ \A s \in Watcher : \A u \in watch[s] : OnLadder(u)
    /\ \A i \in DOMAIN resume : resume[i].bus \in Late \/ StillLive(resume[i])
    /\ \A i \in DOMAIN log : log[i].bus \in Late \/ OnLadder(log[i])

(* What has yet to arrive is not older than what has.                      *)
Arriving ==
    /\ \A b \in Bus : \A t \in reported[b] : t <= now
    /\ \A p \in air : p.bus \in Late \/ \A x \in position[p.bus] : x <= p.at

IInv == LiveFeedTypeOK /\ TimestampsAreReal /\ Carrying /\ Laddered /\ Arriving

(***************************************************************************)
(* Sequences and optional values.                                          *)
(***************************************************************************)

(* A queue that is consumed keeps what is behind its head.                 *)
LEMMA Consumed ==
  ASSUME NEW S, NEW s \in Seq(S), s # <<>>
  PROVE  /\ Head(s) \in S /\ Head(s) = s[1] /\ 1 \in DOMAIN s
         /\ Tail(s) \in Seq(S) /\ Len(Tail(s)) <= Len(s)
         /\ \A i \in DOMAIN Tail(s) : i + 1 \in DOMAIN s /\ Tail(s)[i] = s[i + 1]
OBVIOUS

(* A queue that is appended to holds what it held and what was appended.   *)
LEMMA Appended ==
  ASSUME NEW S, NEW s \in Seq(S), NEW e \in S
  PROVE  /\ Append(s, e) \in Seq(S) /\ Len(Append(s, e)) = Len(s) + 1
         /\ \A i \in DOMAIN Append(s, e) : Append(s, e)[i] = e \/ (i \in DOMAIN s /\ Append(s, e)[i] = s[i])
OBVIOUS

LEMMA Concatenated ==
  ASSUME NEW S, NEW s \in Seq(S), NEW t \in Seq(S)
  PROVE  /\ s \o t \in Seq(S) /\ Len(s \o t) = Len(s) + Len(t)
         /\ \A i \in DOMAIN (s \o t) : \/ i \in DOMAIN s /\ (s \o t)[i] = s[i]
                                       \/ i - Len(s) \in DOMAIN t /\ (s \o t)[i] = t[i - Len(s)]
OBVIOUS

(* At most one value, and it is one of S.                                  *)
LEMMA OptionalOf ==
  ASSUME NEW S
  PROVE  /\ {} \in Optional(S)
         /\ \A x \in S : {x} \in Optional(S)
         /\ \A o \in Optional(S) : o \subseteq S
BY DEF Optional

(* Only finitely many reads can be told apart.                             *)
LEMMA ReadsFinite == IsFiniteSet(Read)
<1> DEFINE P == (Bus \X Time) \X Time
           F == [p \in Read |-> <<<<p.bus, p.at>>, p.since>>]
<1>1. IsFiniteSet(P)
  <2>1. IsFiniteSet(Time)
    BY FS_Interval DEF Time
  <2>2. IsFiniteSet(Bus \X Time)
    BY <2>1, FS_Product
  <2> QED BY <2>1, <2>2, FS_Product
<1>2. F \in Injection(Read, P)
  <2>1. F \in [Read -> P]
    BY DEF Read
  <2>2. ASSUME NEW p \in Read, NEW q \in Read, F[p] = F[q] PROVE p = q
    <3>1. p.bus = q.bus /\ p.at = q.at /\ p.since = q.since
      BY <2>2
    <3> QED BY <3>1 DEF Read
  <2> QED BY <2>1, <2>2 DEF Injection, IsInjective
<1> QED BY <1>1, <1>2, FS_Injection

(***************************************************************************)
(* The invariant.                                                          *)
(***************************************************************************)

(* What a variable holds, element by element.                              *)
LEMMA Elements ==
  ASSUME LiveFeedTypeOK
  PROVE  /\ now \in Nat /\ now \in Time
         /\ \A i \in DOMAIN log : log[i] \in Update
         /\ \A i \in DOMAIN resume : resume[i] \in Read
         /\ \A s \in Slot : \A p \in tick[s] : p \in Read
         /\ \A s \in Watcher : \A u \in watch[s] : u \in Update
         /\ \A p \in air : p \in Ping
<1>1. log \in Seq(Update) /\ resume \in Seq(Read)
  BY DEF LiveFeedTypeOK
<1>2. \A i \in DOMAIN log : log[i] \in Update
  BY <1>1
<1>3. \A i \in DOMAIN resume : resume[i] \in Read
  BY <1>1
<1>4. \A s \in Watcher : watch[s] \subseteq Update
  BY OptionalOf DEF LiveFeedTypeOK
<1>5. now \in Time /\ now \in Nat /\ air \subseteq Ping /\ \A s \in Slot : tick[s] \subseteq Read
  BY DEF LiveFeedTypeOK, Time
<1> QED BY <1>2, <1>3, <1>4, <1>5

(* What the fields of what is on its way are.                              *)
LEMMA Fields ==
  /\ \A p \in Ping : p.bus \in Bus /\ p.at \in Time
  /\ \A p \in Read : p.bus \in Bus /\ p.at \in Time /\ p.since \in Time
  /\ \A u \in Update : /\ u.bus \in Bus /\ u.at \in Time /\ u.since \in Time
                       /\ u.tier \in Tier /\ u.eta \in BOOLEAN
  /\ Time \subseteq Nat
BY DEF Ping, Read, Update, Time

(* The invariant holds at the start.                                       *)
LEMMA InitIInv == ASSUME LiveFeedInit PROVE IInv
<1>1. LiveFeedTypeOK
  BY OptionalOf DEF LiveFeedInit, LiveFeedTypeOK, Time
<1>2. TimestampsAreReal
  BY DEF LiveFeedInit, TimestampsAreReal
<1>3. Carrying /\ Laddered /\ Arriving
  BY DEF LiveFeedInit, Carrying, Laddered, Arriving
<1> QED BY <1>1, <1>2, <1>3 DEF IInv

(* What is shown was queued or read as it is.                              *)
LEMMA EmitInv ==
  ASSUME IInv, NEW u \in Update, u.at \in reported[u.bus], Emit(u), reported' = reported
  PROVE  /\ view' \in [Bus -> Optional(Shown)]
         /\ \A b \in Bus : \A w \in view'[b] : w.at \in reported'[b]
<1> DEFINE shown == [at |-> u.at, tier |-> u.tier, eta |-> u.eta]
<1>1. u.bus \in Bus /\ view \in [Bus -> Optional(Shown)]
      /\ \A b \in Bus : \A w \in view[b] : w.at \in reported[b]
  BY Fields DEF IInv, LiveFeedTypeOK, TimestampsAreReal
<1>2. shown \in Shown /\ shown.at \in reported[u.bus]
  BY Fields DEF Shown
<1> HIDE DEF shown
<1>3. {shown} \in Optional(Shown)
  BY <1>2, OptionalOf
<1>4. CASE connected
  <2>1. view' = [view EXCEPT ![u.bus] = {shown}]
    BY <1>4 DEF Emit, shown
  <2> QED BY <1>1, <1>2, <1>3, <2>1
<1>5. CASE ~connected
  BY <1>1, <1>5 DEF Emit
<1> QED BY <1>4, <1>5

LEMMA PassIInv == ASSUME IInv, Pass PROVE IInv'
<1>1. /\ now' = now + 1 /\ now < MaxTime /\ now \in Time /\ now \in Nat
      /\ NothingOverdue
      /\ held' = [b \in Bus |-> [held[b] EXCEPT ![now + 1] = position[b]]]
      /\ held \in [Bus -> [Time -> SUBSET Time]] /\ position \in [Bus -> Optional(Time)]
      /\ UNCHANGED <<reported, air, position, etaUntil, scored, resume, log, tick, watch, up,
                     connected, view>>
  BY DEF Pass, IInv, LiveFeedTypeOK, Time
<1>2. held' \in [Bus -> [Time -> SUBSET Time]]
  <2>1. \A b \in Bus : position[b] \subseteq Time
    BY <1>1, OptionalOf
  <2>2. \A b \in Bus : [held[b] EXCEPT ![now + 1] = position[b]] \in [Time -> SUBSET Time]
    BY <1>1, <2>1
  <2> QED BY <1>1, <2>2
<1>3. LiveFeedTypeOK'
  BY <1>1, <1>2 DEF IInv, LiveFeedTypeOK, Time
<1>4. TimestampsAreReal' /\ Laddered'
  BY <1>1 DEF IInv, TimestampsAreReal, Laddered, StillLive, OnLadder
<1>5. Arriving'
  <2>1. \A b \in Bus : \A t \in reported'[b] : t <= now'
    <3>1. \A b \in Bus : \A t \in reported[b] : t \in Nat /\ t <= now
      BY Fields DEF IInv, LiveFeedTypeOK, Arriving
    <3> QED BY <1>1, <3>1
  <2> QED BY <1>1, <2>1 DEF IInv, Arriving
<1>6. \A b \in Bus : position'[b] \subseteq held'[b][now']
  BY <1>1 DEF Time
<1> DEFINE Stays(p) == /\ p.at \in held'[p.bus][p.since]
                       /\ p.since <= now' /\ now' <= p.since + Lag
<1>7. ASSUME NEW p, p.bus \in Bus, p.since \in Time, Carried(p), now < p.since + Lag
      PROVE  Stays(p)
  <2>1. p.since \in Nat
    BY <1>7 DEF Time
  <2>2. p.since <= now /\ now < p.since + Lag
    BY <1>1, <1>7 DEF Carried
  <2>3. p.since # now + 1 /\ p.since <= now' /\ now' <= p.since + Lag
    BY <1>1, <2>1, <2>2
  <2>4. held'[p.bus][p.since] = held[p.bus][p.since]
    BY <1>1, <1>7, <2>3
  <2> QED BY <1>7, <2>3, <2>4 DEF Carried
<1>8. /\ \A i \in DOMAIN resume : resume[i].bus \in Bus /\ resume[i].since \in Time
      /\ \A i \in DOMAIN log : log[i].bus \in Bus /\ log[i].since \in Time
      /\ \A s \in Slot : \A p \in tick[s] : p.bus \in Bus /\ p.since \in Time
      /\ \A s \in Watcher : \A u \in watch[s] : u.bus \in Bus /\ u.since \in Time
  BY Elements, Fields DEF IInv
<1> HIDE DEF Stays
<1>9. Carrying'
  <2>1. \A i \in DOMAIN resume : Stays(resume[i])
    BY <1>1, <1>7, <1>8 DEF IInv, Carrying, NothingOverdue
  <2>2. \A i \in DOMAIN log : Stays(log[i])
    BY <1>1, <1>7, <1>8 DEF IInv, Carrying, NothingOverdue
  <2>3. \A s \in Slot : \A p \in tick[s] : Stays(p)
    BY <1>1, <1>7, <1>8 DEF IInv, Carrying, NothingOverdue
  <2>4. \A s \in Watcher : \A u \in watch[s] : Stays(u)
    BY <1>1, <1>7, <1>8 DEF IInv, Carrying, NothingOverdue
  <2> QED BY <1>1, <1>6, <2>1, <2>2, <2>3, <2>4 DEF Carrying, Carried, Stays
<1> QED BY <1>3, <1>4, <1>5, <1>9 DEF IInv

LEMMA MeasureIInv == ASSUME IInv, NEW b \in Bus, Measure(b) PROVE IInv'
<1>1. /\ now \in Time /\ reported \in [Bus -> SUBSET Time] /\ air \subseteq Ping
      /\ reported' = [reported EXCEPT ![b] = reported[b] \cup {now}]
      /\ air' = air \cup {[bus |-> b, at |-> now]}
      /\ UNCHANGED <<now, position, etaUntil, scored, resume, log, tick, watch, up, connected, view, held>>
  BY DEF Measure, IInv, LiveFeedTypeOK
<1>2. reported' \in [Bus -> SUBSET Time] /\ \A c \in Bus : reported[c] \subseteq reported'[c]
  BY <1>1
<1>3. air' \subseteq Ping
  BY <1>1 DEF Ping
<1>4. LiveFeedTypeOK'
  BY <1>1, <1>2, <1>3 DEF IInv, LiveFeedTypeOK
<1>5. TimestampsAreReal'
  <2>1. \A p \in air' : p.at \in reported'[p.bus]
    BY <1>1, <1>2, Elements, Fields DEF IInv, TimestampsAreReal
  <2>2. \A c \in Bus : position'[c] \subseteq reported'[c]
    BY <1>1, <1>2 DEF IInv, TimestampsAreReal
  <2>3. \A i \in DOMAIN resume' : resume'[i].at \in reported'[resume'[i].bus]
    BY <1>1, <1>2, Elements, Fields DEF IInv, TimestampsAreReal
  <2>4. \A i \in DOMAIN log' : log'[i].at \in reported'[log'[i].bus]
    BY <1>1, <1>2, Elements, Fields DEF IInv, TimestampsAreReal
  <2>5. \A s \in Slot : \A p \in tick'[s] : p.at \in reported'[p.bus]
    BY <1>1, <1>2, Elements, Fields DEF IInv, TimestampsAreReal
  <2>6. \A s \in Watcher : \A u \in watch'[s] : u.at \in reported'[u.bus]
    BY <1>1, <1>2, Elements, Fields DEF IInv, TimestampsAreReal
  <2>7. \A c \in Bus : \A u \in view'[c] : u.at \in reported'[c]
    BY <1>1, <1>2 DEF IInv, TimestampsAreReal
  <2> QED BY <2>1, <2>2, <2>3, <2>4, <2>5, <2>6, <2>7 DEF TimestampsAreReal
<1>6. Carrying' /\ Laddered'
  BY <1>1 DEF IInv, Carrying, Carried, Laddered, StillLive, OnLadder
<1>7. Arriving'
  <2>1. \A c \in Bus : \A t \in reported'[c] : t <= now'
    BY <1>1, Fields DEF IInv, Arriving, LiveFeedTypeOK
  <2>2. ASSUME NEW p \in air', p.bus \notin Late, NEW x \in position'[p.bus] PROVE x <= p.at
    <3>1. CASE p \in air
      BY <1>1, <2>2, <3>1 DEF IInv, Arriving
    <3>2. CASE p = [bus |-> b, at |-> now]
      <4>1. x \in reported[b]
        BY <1>1, <2>2, <3>2 DEF IInv, TimestampsAreReal
      <4> QED BY <3>2, <4>1 DEF IInv, Arriving
    <3> QED BY <1>1, <3>1, <3>2
  <2> QED BY <2>1, <2>2 DEF Arriving
<1> QED BY <1>4, <1>5, <1>6, <1>7 DEF IInv

LEMMA IngestIInv == ASSUME IInv, NEW p \in air, Ingest(p) PROVE IInv'
<1> DEFINE r == [bus |-> p.bus, at |-> p.at, since |-> now]
<1>1. /\ p \in Ping /\ p.at \in Time /\ p.bus \in Bus /\ p.at \in reported[p.bus]
      /\ resume \in Seq(Read) /\ Len(resume) < MaxLog /\ position \in [Bus -> Optional(Time)]
      /\ held \in [Bus -> [Time -> SUBSET Time]] /\ now \in Time /\ now \in Nat
  BY Fields DEF Ingest, IInv, LiveFeedTypeOK, TimestampsAreReal, Time
<1>2. /\ p.bus \in Late \/ /\ \A q \in air : q.bus = p.bus => p.at <= q.at
                           /\ now - p.at <= LiveMaxAge
      /\ air' = air \ {p} /\ position' = [position EXCEPT ![p.bus] = {p.at}]
      /\ held' = [held EXCEPT ![p.bus][now] = @ \cup {p.at}]
      /\ resume' = Append(resume, r)
      /\ UNCHANGED <<now, reported, etaUntil, scored, log, tick, watch, up, connected, view>>
  BY DEF Ingest, r
<1>3. r \in Read /\ r.bus = p.bus /\ r.at = p.at /\ r.since = now
  BY <1>1 DEF Read
<1> HIDE DEF r
<1>4. position' \in [Bus -> Optional(Time)]
  BY <1>1, <1>2, OptionalOf
<1>5. /\ resume' \in Seq(Read) /\ Len(resume') <= MaxLog
      /\ \A i \in DOMAIN resume' : resume'[i] = r \/ (i \in DOMAIN resume /\ resume'[i] = resume[i])
  BY <1>1, <1>2, <1>3, Appended
<1>6. /\ held' \in [Bus -> [Time -> SUBSET Time]] /\ p.at \in held'[p.bus][now]
      /\ \A b \in Bus, t \in Time : held[b][t] \subseteq held'[b][t]
  BY <1>1, <1>2
<1>7. LiveFeedTypeOK'
  BY <1>2, <1>4, <1>5, <1>6 DEF IInv, LiveFeedTypeOK
<1>8. TimestampsAreReal'
  <2>1. \A i \in DOMAIN resume' : resume'[i].at \in reported'[resume'[i].bus]
    BY <1>1, <1>2, <1>3, <1>5 DEF IInv, TimestampsAreReal
  <2>2. \A b \in Bus : position'[b] \subseteq reported'[b]
    BY <1>1, <1>2 DEF IInv, TimestampsAreReal
  <2> QED BY <1>2, <2>1, <2>2 DEF IInv, TimestampsAreReal
<1> DEFINE Stays(q) == /\ q.at \in held'[q.bus][q.since]
                       /\ q.since <= now' /\ now' <= q.since + Lag
<1>9. ASSUME NEW q, q.bus \in Bus, q.since \in Time, Carried(q) PROVE Stays(q)
  BY <1>2, <1>6, <1>9 DEF Carried
<1>10. /\ \A i \in DOMAIN resume : resume[i].bus \in Bus /\ resume[i].since \in Time
       /\ \A i \in DOMAIN log : log[i].bus \in Bus /\ log[i].since \in Time
       /\ \A s \in Slot : \A q \in tick[s] : q.bus \in Bus /\ q.since \in Time
       /\ \A s \in Watcher : \A u \in watch[s] : u.bus \in Bus /\ u.since \in Time
  BY Elements, Fields DEF IInv
<1>11. Stays(r)
  <2>1. now <= now + Lag
    BY <1>1
  <2> QED BY <1>1, <1>2, <1>3, <1>6, <2>1
<1> HIDE DEF Stays
<1>12. Carrying'
  <2>1. \A b \in Bus : position'[b] \subseteq held'[b][now']
    BY <1>1, <1>2, <1>6 DEF IInv, Carrying
  <2>2. \A i \in DOMAIN resume' : Stays(resume'[i])
    BY <1>5, <1>9, <1>10, <1>11 DEF IInv, Carrying
  <2>3. \A i \in DOMAIN log : Stays(log[i])
    BY <1>9, <1>10 DEF IInv, Carrying
  <2>4. \A s \in Slot : \A q \in tick[s] : Stays(q)
    BY <1>9, <1>10 DEF IInv, Carrying
  <2>5. \A s \in Watcher : \A u \in watch[s] : Stays(u)
    BY <1>9, <1>10 DEF IInv, Carrying
  <2> QED BY <1>2, <2>1, <2>2, <2>3, <2>4, <2>5 DEF Carrying, Carried, Stays
<1>13. Laddered'
  BY <1>2, <1>3, <1>5 DEF IInv, Laddered, StillLive, OnLadder
<1>14. Arriving'
  <2>1. ASSUME NEW q \in air', q.bus \notin Late, NEW x \in position'[q.bus] PROVE x <= q.at
    <3>1. q \in air /\ q.bus \in Bus
      BY <1>2, <2>1, Elements, Fields DEF IInv
    <3> QED BY <1>1, <1>2, <2>1, <3>1 DEF IInv, Arriving
  <2> QED BY <1>2, <2>1 DEF IInv, Arriving
<1> QED BY <1>7, <1>8, <1>12, <1>13, <1>14 DEF IInv

LEMMA PublishPingIInv == ASSUME IInv, PublishPing PROVE IInv'
<1> DEFINE p == Head(resume)
           u == [bus |-> p.bus, at |-> p.at, since |-> p.since, tier |-> "live", eta |-> p.bus \in scored]
<1>1. /\ resume \in Seq(Read) /\ resume # <<>> /\ log \in Seq(Update) /\ Len(log) <= MaxLog
      /\ resume' = Tail(resume) /\ Len(resume) <= MaxLog
      /\ (Len(log) < MaxLog /\ log' = Append(log, u)) \/ log' = log
      /\ UNCHANGED <<now, reported, air, position, etaUntil, scored, tick, watch, up, connected, view, held>>
  BY DEF PublishPing, IInv, LiveFeedTypeOK
<1>2. /\ p \in Read /\ p = resume[1] /\ 1 \in DOMAIN resume
      /\ resume' \in Seq(Read) /\ Len(resume') <= Len(resume)
      /\ \A i \in DOMAIN resume' : i + 1 \in DOMAIN resume /\ resume'[i] = resume[i + 1]
  BY <1>1, Consumed
<1>3. /\ u \in Update /\ u.at \in reported[u.bus] /\ Carried(u)
      /\ u.bus \in Late \/ OnLadder(u)
  <2>1. u \in Update /\ u.at \in reported[u.bus]
    BY <1>2 DEF IInv, TimestampsAreReal, Read, Update, Tier
  <2>2. Carried(p) /\ (p.bus \in Late \/ StillLive(p))
    BY <1>2 DEF IInv, Carrying, Laddered
  <2> QED BY <2>1, <2>2 DEF Carried, OnLadder, StillLive, Honest!Ladder
<1>4. /\ log' \in Seq(Update) /\ Len(log') <= MaxLog
      /\ \A i \in DOMAIN log' : log'[i] = u \/ (i \in DOMAIN log /\ log'[i] = log[i])
  <2>1. CASE log' = log
    BY <1>1, <2>1
  <2>2. CASE Len(log) < MaxLog /\ log' = Append(log, u)
    <3> HIDE DEF u
    <3> QED BY <1>1, <1>3, <2>2, Appended
  <2> QED BY <1>1, <2>1, <2>2
<1>5. LiveFeedTypeOK'
  <2>1. Len(resume') <= MaxLog
    BY <1>1, <1>2
  <2> QED BY <1>1, <1>2, <1>4, <2>1 DEF IInv, LiveFeedTypeOK
<1>6. TimestampsAreReal'
  <2>1. \A i \in DOMAIN resume' : resume'[i].at \in reported'[resume'[i].bus]
    BY <1>1, <1>2 DEF IInv, TimestampsAreReal
  <2>2. \A i \in DOMAIN log' : log'[i].at \in reported'[log'[i].bus]
    BY <1>1, <1>3, <1>4 DEF IInv, TimestampsAreReal
  <2> QED BY <1>1, <2>1, <2>2 DEF IInv, TimestampsAreReal
<1> HIDE DEF u
<1>7. Carrying'
  <2>1. \A i \in DOMAIN resume' : Carried(resume'[i])
    BY <1>2 DEF IInv, Carrying
  <2>2. \A i \in DOMAIN log' : Carried(log'[i])
    BY <1>3, <1>4 DEF IInv, Carrying
  <2> QED BY <1>1, <2>1, <2>2 DEF IInv, Carrying, Carried
<1>8. Laddered'
  <2>1. \A i \in DOMAIN resume' : resume'[i].bus \in Late \/ StillLive(resume'[i])
    BY <1>2 DEF IInv, Laddered
  <2>2. \A i \in DOMAIN log' : log'[i].bus \in Late \/ OnLadder(log'[i])
    BY <1>3, <1>4 DEF IInv, Laddered
  <2> QED BY <1>1, <2>1, <2>2 DEF IInv, Laddered, StillLive, OnLadder
<1>9. Arriving'
  BY <1>1 DEF IInv, Arriving
<1> QED BY <1>5, <1>6, <1>7, <1>8, <1>9 DEF IInv

LEMMA ScoreReadIInv == ASSUME IInv, NEW s \in Slot, ScoreRead(s) PROVE IInv'
<1>1. /\ tick' = [tick EXCEPT ![s] = LiveRows] /\ tick \in [Slot -> SUBSET Read]
      /\ UNCHANGED <<now, reported, air, position, etaUntil, scored, resume, log, watch, up,
                      connected, view, held>>
  BY DEF ScoreRead, IInv, LiveFeedTypeOK
<1>2. /\ LiveRows \subseteq Read
      /\ \A p \in LiveRows : p.at \in reported[p.bus] /\ Carried(p) /\ StillLive(p)
  <2>1. ASSUME NEW p \in LiveRows
        PROVE  p \in Read /\ p.at \in reported[p.bus] /\ Carried(p) /\ StillLive(p)
    <3>1. /\ p \in Read /\ p.bus \in Bus /\ p.at \in position[p.bus] /\ p.since = now
          /\ now - p.at <= LiveMaxAge /\ now \in Nat
      BY <2>1, Elements, Fields DEF LiveRows, IInv
    <3> QED BY <3>1 DEF IInv, TimestampsAreReal, Carrying, Carried, StillLive
  <2> QED BY <2>1
<1>3. LiveFeedTypeOK'
  BY <1>1, <1>2 DEF IInv, LiveFeedTypeOK
<1>4. TimestampsAreReal'
  BY <1>1, <1>2 DEF IInv, TimestampsAreReal
<1>5. Carrying' /\ Laddered' /\ Arriving'
  BY <1>1, <1>2 DEF IInv, Carrying, Carried, Laddered, StillLive, OnLadder, Arriving
<1> QED BY <1>3, <1>4, <1>5 DEF IInv

LEMMA ScoreAnswerIInv == ASSUME IInv, NEW s \in Slot, ScoreAnswer(s) PROVE IInv'
<1>1. PICK answered \in SUBSET tick[s] :
        /\ tick' = [tick EXCEPT ![s] = {}]
        /\ scored' = scored \cup {p.bus : p \in answered}
        /\ \E mirrored \in SUBSET {p.bus : p \in answered} :
              etaUntil' = [b \in Bus |-> IF b \in mirrored
                                         THEN now + EstimatedMaxAge + EtaGrace ELSE etaUntil[b]]
        /\ \/ log' = log
           \/ \E order \in [1 .. Cardinality(answered) -> answered] :
                 /\ Len(log) + Cardinality(answered) <= MaxLog
                 /\ log' = log \o [i \in DOMAIN order |-> Rescored(order[i])]
        /\ UNCHANGED <<now, reported, air, position, resume, watch, up, connected, view, held>>
  BY DEF ScoreAnswer
<1>2. /\ tick \in [Slot -> SUBSET Read] /\ answered \subseteq Read /\ now \in Nat
      /\ \A p \in answered : p.at \in reported[p.bus]
      /\ log \in Seq(Update) /\ Len(log) <= MaxLog /\ etaUntil \in [Bus -> Nat] /\ scored \subseteq Bus
  BY DEF IInv, LiveFeedTypeOK, TimestampsAreReal, Time
<1>3. Cardinality(answered) \in Nat
  BY <1>2, ReadsFinite, FS_Subset, FS_CardinalityType
<1>4. /\ tick' \in [Slot -> SUBSET Read] /\ scored' \subseteq Bus
      /\ \A t \in Slot : tick'[t] \subseteq tick[t]
  BY <1>1, <1>2, Fields
<1>5. etaUntil' \in [Bus -> Nat]
  <2>1. now + EstimatedMaxAge + EtaGrace \in Nat
    BY <1>2
  <2>2. PICK mirrored : etaUntil' = [b \in Bus |-> IF b \in mirrored
                              THEN now + EstimatedMaxAge + EtaGrace ELSE etaUntil[b]]
    BY <1>1
  <2> QED BY <1>2, <2>1, <2>2
<1>6. /\ log' \in Seq(Update) /\ Len(log') <= MaxLog
      /\ \A i \in DOMAIN log' : \/ i \in DOMAIN log /\ log'[i] = log[i]
                                \/ \E p \in answered : log'[i] = Rescored(p)
  <2>1. CASE log' = log
    BY <1>2, <2>1
  <2>2. ASSUME NEW order \in [1 .. Cardinality(answered) -> answered],
               Len(log) + Cardinality(answered) <= MaxLog,
               log' = log \o [i \in DOMAIN order |-> Rescored(order[i])]
        PROVE  /\ log' \in Seq(Update) /\ Len(log') <= MaxLog
               /\ \A i \in DOMAIN log' : \/ i \in DOMAIN log /\ log'[i] = log[i]
                                         \/ \E p \in answered : log'[i] = Rescored(p)
    <3> DEFINE new == [i \in DOMAIN order |-> Rescored(order[i])]
    <3>1. \A p \in answered : Rescored(p) \in Update
      BY <1>2 DEF Rescored, Update, Read, Tier
    <3>2. new \in Seq(Update) /\ Len(new) = Cardinality(answered)
          /\ DOMAIN new = 1 .. Cardinality(answered)
          /\ \A i \in DOMAIN new : \E p \in answered : new[i] = Rescored(p)
      BY <1>3, <3>1
    <3> HIDE DEF new
    <3>3. log' = log \o new
      BY <2>2 DEF new
    <3>4. log \in Seq(Update)
      BY <1>2
    <3>5. /\ log \o new \in Seq(Update) /\ Len(log \o new) = Len(log) + Len(new)
          /\ \A i \in DOMAIN (log \o new) :
                \/ i \in DOMAIN log /\ (log \o new)[i] = log[i]
                \/ i - Len(log) \in DOMAIN new /\ (log \o new)[i] = new[i - Len(log)]
      BY <3>2, <3>4, Concatenated
    <3>6. \A i \in DOMAIN log' : \/ i \in DOMAIN log /\ log'[i] = log[i]
                                 \/ \E p \in answered : log'[i] = Rescored(p)
      BY <3>2, <3>3, <3>5
    <3>7. Len(log') <= MaxLog
      BY <1>1, <1>2, <3>2, <3>3, <3>5
    <3> QED BY <3>3, <3>5, <3>6, <3>7
  <2> QED BY <1>1, <2>1, <2>2
<1>7. LiveFeedTypeOK'
  BY <1>1, <1>4, <1>5, <1>6 DEF IInv, LiveFeedTypeOK
<1>8. \A p \in answered : /\ Rescored(p).at \in reported[Rescored(p).bus]
                           /\ Carried(Rescored(p)) /\ OnLadder(Rescored(p))
  BY <1>2 DEF Rescored, IInv, Carrying, Carried, Laddered, StillLive, OnLadder, Honest!Ladder
<1>9. TimestampsAreReal'
  <2>1. \A i \in DOMAIN log' : log'[i].at \in reported'[log'[i].bus]
    BY <1>1, <1>6, <1>8 DEF IInv, TimestampsAreReal
  <2>2. \A t \in Slot : \A p \in tick'[t] : p.at \in reported'[p.bus]
    BY <1>1, <1>4 DEF IInv, TimestampsAreReal
  <2> QED BY <1>1, <2>1, <2>2 DEF IInv, TimestampsAreReal
<1>10. Carrying'
  <2>1. \A i \in DOMAIN log' : Carried(log'[i])
    BY <1>6, <1>8 DEF IInv, Carrying
  <2> QED BY <1>1, <1>4, <2>1 DEF IInv, Carrying, Carried
<1>11. Laddered'
  <2>1. \A i \in DOMAIN log' : log'[i].bus \in Late \/ OnLadder(log'[i])
    BY <1>6, <1>8 DEF IInv, Laddered
  <2> QED BY <1>1, <1>4, <2>1 DEF IInv, Laddered, StillLive, OnLadder
<1>12. Arriving'
  BY <1>1 DEF IInv, Arriving
<1> QED BY <1>7, <1>9, <1>10, <1>11, <1>12 DEF IInv

(* The invariant does not depend on who is connected, on the gateway being *)
(* up, or on what is no longer in flight.                                  *)
LEMMA FewerIInv ==
  ASSUME IInv, UNCHANGED <<now, reported, position, etaUntil, log, held>>,
         air' \subseteq air, resume' \in {resume, <<>>}, scored' \subseteq scored,
         tick' \in [Slot -> SUBSET Read], \A s \in Slot : tick'[s] \subseteq tick[s],
         watch' \in [Watcher -> Optional(Update)], \A s \in Watcher : watch'[s] \subseteq watch[s],
         up' \in BOOLEAN, connected' \in BOOLEAN,
         view' \in [Bus -> Optional(Shown)],
         \A b \in Bus : \A u \in view'[b] : u.at \in reported[b]
  PROVE  IInv'
<1>1. LiveFeedTypeOK'
  <2>1. resume' \in Seq(Read) /\ Len(resume') <= MaxLog
    <3>1. CASE resume' = resume
      BY <3>1 DEF IInv, LiveFeedTypeOK
    <3>2. CASE resume' = <<>>
      BY <3>2
    <3> QED BY <3>1, <3>2
  <2> QED BY <2>1 DEF IInv, LiveFeedTypeOK
<1>2. TimestampsAreReal'
  <2>1. \A i \in DOMAIN resume' : resume'[i].at \in reported'[resume'[i].bus]
    BY DEF IInv, TimestampsAreReal
  <2> QED BY <2>1 DEF IInv, TimestampsAreReal
<1>3. Carrying'
  <2>1. \A i \in DOMAIN resume' : Carried(resume'[i])
    BY DEF IInv, Carrying
  <2> QED BY <2>1 DEF IInv, Carrying, Carried
<1>4. Laddered'
  <2>1. \A i \in DOMAIN resume' : resume'[i].bus \in Late \/ StillLive(resume'[i])
    BY DEF IInv, Laddered
  <2> QED BY <2>1 DEF IInv, Laddered, StillLive, OnLadder
<1>5. Arriving'
  BY DEF IInv, Arriving
<1> QED BY <1>1, <1>2, <1>3, <1>4, <1>5 DEF IInv

LEMMA ForwardIInv == ASSUME IInv, Forward PROVE IInv'
<1>1. /\ log \in Seq(Update) /\ log # <<>> /\ Len(log) <= MaxLog /\ log' = Tail(log) /\ Emit(Head(log))
      /\ UNCHANGED <<now, reported, air, position, etaUntil, scored, resume, tick, watch, up, connected, held>>
  BY DEF Forward, IInv, LiveFeedTypeOK
<1>2. /\ Head(log) \in Update /\ Head(log).at \in reported[Head(log).bus]
      /\ log' \in Seq(Update) /\ Len(log') <= MaxLog
      /\ \A i \in DOMAIN log' : i + 1 \in DOMAIN log /\ log'[i] = log[i + 1]
  BY <1>1, Consumed DEF IInv, TimestampsAreReal
<1>3. /\ view' \in [Bus -> Optional(Shown)]
      /\ \A b \in Bus : \A w \in view'[b] : w.at \in reported'[b]
  BY <1>1, <1>2, EmitInv
<1>4. LiveFeedTypeOK'
  BY <1>1, <1>2, <1>3 DEF IInv, LiveFeedTypeOK
<1>5. TimestampsAreReal'
  <2>1. \A i \in DOMAIN log' : log'[i].at \in reported'[log'[i].bus]
    BY <1>1, <1>2 DEF IInv, TimestampsAreReal
  <2> QED BY <1>1, <1>3, <2>1 DEF IInv, TimestampsAreReal
<1>6. Carrying' /\ Laddered' /\ Arriving'
  <2>1. /\ \A i \in DOMAIN log' : Carried(log'[i])
        /\ \A i \in DOMAIN log' : log'[i].bus \in Late \/ OnLadder(log'[i])
    BY <1>2 DEF IInv, Carrying, Laddered
  <2> QED BY <1>1, <2>1 DEF IInv, Carrying, Carried, Laddered, StillLive, OnLadder, Arriving
<1> QED BY <1>4, <1>5, <1>6 DEF IInv

(* The watchdog's tier is due when it reads.                               *)
LEMMA WatchReadIInv == ASSUME IInv, NEW s \in Watcher, NEW b \in Bus, WatchRead(s, b) PROVE IInv'
<1>1. PICK at \in position[b] :
        /\ now - at > LiveMaxAge
        /\ watch' = [watch EXCEPT ![s] = {[bus |-> b, at |-> at, since |-> now,
                                           tier |-> EstimatedTier(b, now - at), eta |-> FALSE]}]
        /\ UNCHANGED <<now, reported, air, position, etaUntil, scored, resume, log, tick, up,
                       connected, view, held>>
  BY DEF WatchRead
<1> DEFINE u == [bus |-> b, at |-> at, since |-> now, tier |-> EstimatedTier(b, now - at),
                 eta |-> FALSE]
<1>2. at \in Time /\ at \in Nat /\ at \in reported[b] /\ now \in Nat /\ now \in Time
  BY OptionalOf, Elements DEF IInv, LiveFeedTypeOK, TimestampsAreReal, Time
<1>3. u \in Update
  BY <1>2 DEF Update, EstimatedTier, ClassifyAge, Tier
<1>4. OnLadder(u)
  BY <1>1, <1>2 DEF OnLadder, Honest!Ladder, EstimatedTier, ClassifyAge
<1>5. Carried(u)
  BY <1>2 DEF Carried, IInv, Carrying
<1>6. u.at \in reported[u.bus]
  BY <1>2
<1>7. watch' = [watch EXCEPT ![s] = {u}]
  BY <1>1
<1> HIDE DEF u
<1>8. watch \in [Watcher -> Optional(Update)] /\ {u} \in Optional(Update)
  BY <1>3, OptionalOf DEF IInv, LiveFeedTypeOK
<1>9. LiveFeedTypeOK'
  BY <1>1, <1>7, <1>8 DEF IInv, LiveFeedTypeOK
<1>10. \A t \in Watcher : \A w \in watch'[t] : w \in watch[t] \/ w = u
  BY <1>7, <1>8
<1>11. TimestampsAreReal'
  BY <1>1, <1>6, <1>10 DEF IInv, TimestampsAreReal
<1>12. Carrying'
  <2>1. \A t \in Watcher : \A w \in watch'[t] : Carried(w)
    BY <1>5, <1>10 DEF IInv, Carrying
  <2> QED BY <1>1, <2>1 DEF IInv, Carrying, Carried
<1>13. Laddered' /\ Arriving'
  <2>1. \A t \in Watcher : \A w \in watch'[t] : OnLadder(w)
    BY <1>4, <1>10 DEF IInv, Laddered
  <2> QED BY <1>1, <2>1 DEF IInv, Laddered, StillLive, OnLadder, Arriving
<1> QED BY <1>9, <1>11, <1>12, <1>13 DEF IInv

(* What the watchdog sends is what it read.                                *)
LEMMA Sent ==
  ASSUME IInv, NEW s \in Watcher, NEW u \in watch[s], NEW e \in BOOLEAN
  PROVE  /\ [u EXCEPT !.eta = e] \in Update
         /\ [u EXCEPT !.eta = e].bus = u.bus /\ [u EXCEPT !.eta = e].at = u.at
         /\ [u EXCEPT !.eta = e].tier = u.tier /\ [u EXCEPT !.eta = e].since = u.since
         /\ u.at \in reported[u.bus]
<1>1. u \in Update /\ u.at \in reported[u.bus]
  BY Elements DEF IInv, TimestampsAreReal
<1> QED BY <1>1 DEF Update

LEMMA WatchEmitIInv == ASSUME IInv, NEW s \in Watcher, WatchEmit(s) PROVE IInv'
<1>1. PICK u \in watch[s] :
        /\ watch' = [watch EXCEPT ![s] = {}] /\ Emit([u EXCEPT !.eta = etaUntil[u.bus] > now])
        /\ UNCHANGED <<now, reported, air, position, etaUntil, scored, resume, log, tick, up, connected, held>>
  BY DEF WatchEmit
<1> DEFINE w == [u EXCEPT !.eta = etaUntil[u.bus] > now]
<1>2. w \in Update /\ w.at \in reported[w.bus]
  <2>1. (etaUntil[u.bus] > now) \in BOOLEAN
    OBVIOUS
  <2> QED BY <2>1, Sent
<1> HIDE DEF w
<1>3. /\ view' \in [Bus -> Optional(Shown)]
      /\ \A b \in Bus : \A x \in view'[b] : x.at \in reported'[b]
  BY <1>1, <1>2, EmitInv DEF w
<1>4. /\ watch' \in [Watcher -> Optional(Update)] /\ \A t \in Watcher : watch'[t] \subseteq watch[t]
  BY <1>1, OptionalOf DEF IInv, LiveFeedTypeOK
<1> QED BY <1>1, <1>3, <1>4, FewerIInv DEF IInv, LiveFeedTypeOK

LEMMA OtherIInv ==
  ASSUME IInv, \/ Connect \/ GatewayDown \/ DieUncommitted \/ GatewayUp \/ ConsumerRestart
               \/ \E p \in air : Lose(p)
               \/ UNCHANGED feedVars
  PROVE  IInv'
<1>1. /\ up \in BOOLEAN /\ connected \in BOOLEAN
      /\ tick \in [Slot -> SUBSET Read] /\ watch \in [Watcher -> Optional(Update)]
      /\ view \in [Bus -> Optional(Shown)] /\ \A b \in Bus : \A w \in view[b] : w.at \in reported[b]
  BY DEF IInv, LiveFeedTypeOK, TimestampsAreReal
<1>2. CASE Connect \/ GatewayUp \/ (\E p \in air : Lose(p)) \/ UNCHANGED feedVars
  BY <1>1, <1>2, FewerIInv DEF Connect, GatewayUp, Lose, feedVars
<1>3. CASE GatewayDown
  BY <1>1, <1>3, OptionalOf, FewerIInv DEF GatewayDown
<1>4. CASE DieUncommitted
  <2>1. Head(log) \in Update /\ Head(log).at \in reported[Head(log).bus] /\ Emit(Head(log))
        /\ reported' = reported
    BY <1>4, Consumed DEF DieUncommitted, IInv, LiveFeedTypeOK, TimestampsAreReal
  <2>2. /\ view' \in [Bus -> Optional(Shown)]
        /\ \A b \in Bus : \A w \in view'[b] : w.at \in reported'[b]
    BY <2>1, EmitInv
  <2>3. watch' \in [Watcher -> Optional(Update)] /\ \A s \in Watcher : watch'[s] \subseteq watch[s]
    BY <1>4, OptionalOf DEF DieUncommitted
  <2> QED BY <1>1, <1>4, <2>1, <2>2, <2>3, FewerIInv DEF DieUncommitted
<1>5. CASE ConsumerRestart
  BY <1>1, <1>5, FewerIInv DEF ConsumerRestart
<1> QED BY <1>2, <1>3, <1>4, <1>5

(* Every step keeps the invariant.                                         *)
LEMMA NextIInv == ASSUME IInv, [LiveFeedNext]_feedVars PROVE IInv'
BY PassIInv, MeasureIInv, IngestIInv, PublishPingIInv, ScoreReadIInv, ScoreAnswerIInv, WatchReadIInv,
   WatchEmitIInv, ForwardIInv, OtherIInv DEF LiveFeedNext

(* The invariant holds of every behaviour, whatever is delayed, dropped or *)
(* reordered on the way from the bus to the screen.                        *)
THEOREM Invariance == LiveFeedSafe => []IInv
<1> QED BY InitIInv, NextIInv, PTL DEF LiveFeedSafe

(* Every variable keeps its type.                                          *)
THEOREM FeedTypes == LiveFeedSafe => []LiveFeedTypeOK
<1>1. IInv => LiveFeedTypeOK
  BY DEF IInv
<1> QED BY <1>1, Invariance, PTL

(* Every timestamp anywhere in the pipeline is when that bus measured a    *)
(* position: consumer.ts, etaScoringLoop.ts and gateway.ts pass reports on *)
(* and never stamp one themselves.                                         *)
THEOREM NoInventedTimestamps == LiveFeedSafe => []TimestampsAreReal
<1>1. IInv => TimestampsAreReal
  BY DEF IInv
<1> QED BY Invariance, <1>1, PTL

(***************************************************************************)
(* The feed implements HonestFeed.                                         *)
(***************************************************************************)

(* HonestFeed speaks of the buses whose reports come in order and live.    *)
Reported == [b \in Prompt |-> reported[b]]
Latest == [b \in Prompt |-> position[b]]
Held == [b \in Prompt |-> held[b]]
Screen == [b \in Prompt |-> {[at |-> u.at, tier |-> u.tier] : u \in view[b]}]

(* What happens to another bus is not seen in them.                        *)
LEMMA Unseen ==
  ASSUME UNCHANGED <<now, Reported, Latest, Held, Screen>>
  PROVE  [Honest!HonestNext]_Honest!honestVars
BY DEF Honest!honestVars, Reported, Latest, Held, Screen

(* An update that is carried and on the ladder may be shown; a passenger   *)
(* who is not connected sees nothing new.                                  *)
LEMMA EmitShows ==
  ASSUME IInv, NEW u \in Update, Carried(u), u.bus \in Late \/ OnLadder(u), Emit(u),
         UNCHANGED <<now, reported, position, held>>
  PROVE  [Honest!HonestNext]_Honest!honestVars
<1> DEFINE shown == [at |-> u.at, tier |-> u.tier, eta |-> u.eta]
<1>1. UNCHANGED <<now, Reported, Latest, Held>>
  BY DEF Reported, Latest, Held, Prompt
<1>2. CASE ~connected
  <2>1. UNCHANGED Screen
    BY <1>2 DEF Emit, Screen, Prompt
  <2> QED BY <1>1, <2>1, Unseen
<1>3. ASSUME connected
      PROVE  /\ u.bus \in Bus /\ u.since \in Time
             /\ \A b \in Bus : view'[b] = IF b = u.bus THEN {shown} ELSE view[b]
  <2>1. view' = [view EXCEPT ![u.bus] = {shown}] /\ u.bus \in Bus /\ u.since \in Time
        /\ view \in [Bus -> Optional(Shown)]
    BY <1>3, Fields DEF Emit, IInv, LiveFeedTypeOK
  <2> QED BY <2>1
<1>4. CASE connected /\ u.bus \in Late
  <2>1. \A b \in Prompt : view'[b] = view[b]
    BY <1>3, <1>4 DEF Prompt
  <2>2. UNCHANGED Screen
    BY <2>1 DEF Screen, Prompt
  <2> QED BY <1>1, <2>2, Unseen
<1>5. CASE connected /\ u.bus \notin Late
  <2>1. u.bus \in Prompt /\ u.since \in Time
    BY <1>3, <1>5 DEF Prompt
  <2>2. \A b \in Prompt : {[at |-> w.at, tier |-> w.tier] : w \in view'[b]}
                         = IF b = u.bus THEN {[at |-> u.at, tier |-> u.tier]}
                           ELSE {[at |-> w.at, tier |-> w.tier] : w \in view[b]}
    <3>1. {[at |-> w.at, tier |-> w.tier] : w \in {shown}} = {[at |-> shown.at, tier |-> shown.tier]}
      <4> HIDE DEF shown
      <4> QED OBVIOUS
    <3>2. shown.at = u.at /\ shown.tier = u.tier
      OBVIOUS
    <3>3. \A b \in Prompt : view'[b] = IF b = u.bus THEN {shown} ELSE view[b]
      BY <1>3, <1>5 DEF Prompt
    <3> HIDE DEF shown
    <3> QED BY <3>1, <3>2, <3>3
  <2>3. Screen' = [Screen EXCEPT ![u.bus] = {[at |-> u.at, tier |-> u.tier]}]
    BY <2>1, <2>2 DEF Screen, Prompt
  <2>4. u.since \in Honest!Recent /\ u.at \in Held[u.bus][u.since]
        /\ u.tier = Honest!Ladder(u.bus, u.since - u.at)
    BY <1>5, <2>1 DEF Carried, OnLadder, Honest!Recent, Honest!Time, Time, Held
  <2>5. Honest!Show(u.bus)
    <3>1. /\ u.at \in Held[u.bus][u.since]
          /\ Screen' = [Screen EXCEPT ![u.bus] = {[at |-> u.at,
                                 tier |-> Honest!Ladder(u.bus, u.since - u.at)]}]
          /\ UNCHANGED <<now, Reported, Latest, Held>>
      BY <1>1, <2>3, <2>4
    <3> QED BY <2>4, <3>1 DEF Honest!Show, Screen, Held, Reported, Latest
  <2> QED BY <2>1, <2>5 DEF Honest!HonestNext
<1> QED BY <1>2, <1>4, <1>5

(* A step of time is one for every bus.                                    *)
LEMMA PassShows == ASSUME Pass PROVE Honest!HonestNext
<1>1. /\ now < MaxTime /\ now' = now + 1
      /\ \A b \in Bus : held'[b] = [held[b] EXCEPT ![now + 1] = position[b]]
      /\ UNCHANGED <<reported, position, view>>
  BY DEF Pass
<1>2. Held' = [b \in Prompt |-> [Held[b] EXCEPT ![now + 1] = Latest[b]]]
  BY <1>1 DEF Held, Latest, Prompt
<1>3. UNCHANGED <<Reported, Latest, Screen>>
  BY <1>1 DEF Reported, Latest, Screen, Prompt
<1>4. Honest!Pass
  BY <1>1, <1>2, <1>3 DEF Honest!Pass, Held, Reported, Latest, Screen
<1> QED BY <1>4 DEF Honest!HonestNext

(* A bus measures a position.                                              *)
LEMMA MeasureShows ==
  ASSUME IInv, NEW b \in Bus, Measure(b) PROVE [Honest!HonestNext]_Honest!honestVars
<1>1. /\ reported \in [Bus -> SUBSET Time] /\ reported' = [reported EXCEPT ![b] = @ \cup {now}]
      /\ UNCHANGED <<now, position, held, view>>
  BY DEF Measure, IInv, LiveFeedTypeOK
<1>2. UNCHANGED <<now, Latest, Held, Screen>>
  BY <1>1 DEF Latest, Held, Screen, Prompt
<1>3. CASE b \in Late
  <2>1. UNCHANGED Reported
    BY <1>1, <1>3 DEF Reported, Prompt
  <2> QED BY <1>2, <2>1, Unseen
<1>4. CASE b \notin Late
  <2>1. b \in Prompt /\ Reported' = [Reported EXCEPT ![b] = @ \cup {now}]
    BY <1>1, <1>4 DEF Reported, Prompt
  <2>2. Honest!Report(b)
    BY <1>2, <2>1 DEF Honest!Report, Reported, Latest, Held, Screen
  <2> QED BY <2>1, <2>2 DEF Honest!HonestNext
<1> QED BY <1>3, <1>4

(* A report arrives: not before an older one, and still live, if its bus   *)
(* is not a late one.                                                      *)
LEMMA IngestShows ==
  ASSUME IInv, NEW p \in air, Ingest(p) PROVE [Honest!HonestNext]_Honest!honestVars
<1>1. /\ p.bus \in Bus /\ p.at \in reported[p.bus]
      /\ p.bus \in Late \/ \A old \in position[p.bus] : old <= p.at
      /\ position \in [Bus -> Optional(Time)] /\ held \in [Bus -> [Time -> SUBSET Time]]
      /\ position' = [position EXCEPT ![p.bus] = {p.at}]
      /\ held' = [held EXCEPT ![p.bus][now] = @ \cup {p.at}]
      /\ UNCHANGED <<now, reported, view>>
  BY Elements, Fields DEF Ingest, IInv, LiveFeedTypeOK, TimestampsAreReal, Arriving
<1>2. UNCHANGED <<now, Reported, Screen>>
  BY <1>1 DEF Reported, Screen, Prompt
<1>3. CASE p.bus \in Late
  <2>1. UNCHANGED <<Latest, Held>>
    BY <1>1, <1>3 DEF Latest, Held, Prompt
  <2> QED BY <1>2, <2>1, Unseen
<1>4. CASE p.bus \notin Late
  <2>1. p.bus \in Prompt /\ Latest' = [Latest EXCEPT ![p.bus] = {p.at}]
    BY <1>1, <1>4 DEF Latest, Prompt
  <2>2. Held' = [Held EXCEPT ![p.bus][now] = @ \cup {p.at}]
    BY <1>1, <1>4 DEF Held, Prompt
  <2>3. p.at \in Reported[p.bus] /\ \A old \in Latest[p.bus] : old <= p.at
    BY <1>1, <1>4, <2>1 DEF Reported, Latest
  <2>4. Honest!Arrive(p.bus)
    BY <1>2, <2>1, <2>2, <2>3 DEF Honest!Arrive, Reported, Latest, Held, Screen
  <2> QED BY <2>1, <2>4 DEF Honest!HonestNext
<1> QED BY <1>3, <1>4

LEMMA FeedSimulates ==
  ASSUME IInv, [LiveFeedNext]_feedVars
  PROVE  [Honest!HonestNext]_Honest!honestVars
<1>1. CASE Forward \/ DieUncommitted
  <2>1. /\ log \in Seq(Update) /\ log # <<>> /\ Emit(Head(log))
        /\ UNCHANGED <<now, reported, position, held>>
    BY <1>1 DEF Forward, DieUncommitted, IInv, LiveFeedTypeOK
  <2>2. Head(log) \in Update /\ Carried(Head(log))
        /\ (Head(log).bus \in Late \/ OnLadder(Head(log)))
    BY <2>1, Consumed DEF IInv, Carrying, Laddered
  <2> QED BY <2>1, <2>2, EmitShows
<1>2. ASSUME NEW s \in Watcher, WatchEmit(s) PROVE [Honest!HonestNext]_Honest!honestVars
  <2>1. PICK u \in watch[s] : /\ Emit([u EXCEPT !.eta = etaUntil[u.bus] > now])
                              /\ UNCHANGED <<now, reported, position, held>>
    BY <1>2 DEF WatchEmit
  <2> DEFINE w == [u EXCEPT !.eta = etaUntil[u.bus] > now]
  <2>2. /\ w \in Update /\ w.bus = u.bus /\ w.at = u.at /\ w.tier = u.tier /\ w.since = u.since
    <3>1. (etaUntil[u.bus] > now) \in BOOLEAN
      OBVIOUS
    <3> QED BY <3>1, Sent
  <2>3. Carried(u) /\ OnLadder(u)
    BY DEF IInv, Carrying, Laddered
  <2> HIDE DEF w
  <2>4. Carried(w) /\ OnLadder(w)
    BY <2>2, <2>3 DEF Carried, OnLadder
  <2> QED BY <2>1, <2>2, <2>4, EmitShows DEF w
<1>3. CASE \/ Connect \/ GatewayDown \/ GatewayUp \/ ConsumerRestart \/ PublishPing
           \/ \E p \in air : Lose(p)
           \/ \E s \in Slot : ScoreRead(s) \/ ScoreAnswer(s)
           \/ \E s \in Watcher, b \in Bus : WatchRead(s, b)
           \/ UNCHANGED feedVars
  <2>1. UNCHANGED <<now, reported, position, held, view>>
    BY <1>3 DEF Connect, GatewayDown, GatewayUp, ConsumerRestart, PublishPing, Lose,
                ScoreRead, ScoreAnswer, WatchRead, feedVars
  <2>2. UNCHANGED <<now, Reported, Latest, Held, Screen>>
    BY <2>1 DEF Reported, Latest, Held, Screen, Prompt
  <2> QED BY <2>2, Unseen
<1> QED BY <1>1, <1>2, <1>3, PassShows, MeasureShows, IngestShows DEF LiveFeedNext

(* Whatever is lost, repeated, restarted or reconnected, and whatever      *)
(* comes late from other buses, consumer.ts, etaScoringLoop.ts, gateway.ts *)
(* and the passenger's client implement what the degradation ladder        *)
(* promises of every bus whose reports come in order and still live: the   *)
(* screen is the ladder as it stood at most Lag ago, for every bound Lag   *)
(* on the time an update is on its way.                                    *)
THEOREM FeedIsHonest == LiveFeedSafe => ShowsHonestly
<1>1. ASSUME LiveFeedInit PROVE Honest!HonestInit
  <2>1. /\ \A b \in Prompt : reported[b] = {} /\ position[b] = {} /\ view[b] = {}
        /\ \A b \in Prompt : held[b] = [t \in Time |-> {}]
    BY <1>1 DEF LiveFeedInit, Prompt
  <2> QED BY <1>1, <2>1 DEF LiveFeedInit, Honest!HonestInit, Honest!Time, Time
<1>2. ASSUME IInv, [LiveFeedNext]_feedVars PROVE [Honest!HonestNext]_Honest!honestVars
  BY <1>2, FeedSimulates
<1> QED BY <1>1, <1>2, Invariance, PTL DEF LiveFeedSafe, ShowsHonestly, Honest!HonestSpec
=============================================================================
