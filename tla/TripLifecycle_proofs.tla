------------------------ MODULE TripLifecycle_proofs ------------------------
(***************************************************************************)
(* Proofs about TripLifecycle, for any number of buses, directions,        *)
(* requests, message handlers, connections lost and messages repeated.     *)
(*                                                                         *)
(* The gateway and the stream-processor share nothing but two tables.      *)
(* What each relies on is that the other never moves a committed row to    *)
(* another bus or direction and never reopens it (Kept), and that a row    *)
(* locked by a start is left alone: the invariant of TripsService, proved  *)
(* for the gateway on its own, survives the stream-processor's writes.     *)
(***************************************************************************)
EXTENDS TripLifecycle, TripsService_proofs, FiniteSetTheorems, TLAPS

RowOf(table, t, b, d) == t \in DOMAIN table /\ table[t].bus = b /\ table[t].dir = d

(* What a handler relies on while it waits for a query: the trip it is     *)
(* about to close is the bus's and on another direction, or superseded by  *)
(* another trip; the one it will cache or file a position under is a row   *)
(* of its bus and direction.                                               *)
TaskOK(table, w) ==
    /\ w.pc # "idle" => w.bus \in Bus /\ w.dir \in Dir
    /\ w.pc = "closeOld" =>
         w.old \in DOMAIN table /\ table[w.old].bus = w.bus /\ table[w.old].dir # w.dir
    /\ w.pc = "closeSuperseded" =>
         w.old \in DOMAIN table /\ table[w.old].bus = w.bus /\ w.old # w.new
    /\ w.pc = "finalStop" => w.old \in TripId
    /\ w.pc \in {"setInferred", "insertPing", "closeSuperseded", "upsertStart", "adopt"} =>
         RowOf(table, w.new, w.bus, w.dir)

(* An entry of tripStateByBusId is empty or names a trip of the bus.       *)
EntryOK(table, b, s) == s = NoState \/ RowOf(table, s.trip, b, s.dir)

CacheBound == \A b \in Bus : EntryOK(trips, b, tripState[b])
PingsBound == \A p \in gpsPings : RowOf(trips, p.trip, p.bus, p.dir)
TasksBound == \A k \in Task : TaskOK(trips, task[k])

LifecycleInv ==
    /\ IInv
    /\ LifecycleTypeOK
    /\ MessagesTruthful
    /\ CacheBound /\ PingsBound /\ TasksBound
    /\ IsFiniteSet(Retained)

USE TableAssumption, PersistAssumption, LifecycleAssumption

(* Rows are never deleted, moved to another bus or direction, or reopened. *)
Kept == \A t \in DOMAIN trips :
    /\ t \in DOMAIN trips'
    /\ trips'[t].bus = trips[t].bus /\ trips'[t].dir = trips[t].dir
    /\ trips'[t].inferred = trips[t].inferred
    /\ trips[t].status # "running" => trips'[t].status # "running"

LEMMA KeptBindings ==
  ASSUME Kept
  PROVE  /\ \A m : Truthful(m) => Truthful(m)'
         /\ \A w : TaskOK(trips, w) => TaskOK(trips', w)
         /\ \A b, s : EntryOK(trips, b, s) => EntryOK(trips', b, s)
         /\ \A t, b, d : RowOf(trips, t, b, d) => RowOf(trips', t, b, d)
<1>1. \A m : Truthful(m) => Truthful(m)'
  BY DEF Kept, Truthful
<1>2. \A t, b, d : RowOf(trips, t, b, d) => RowOf(trips', t, b, d)
  BY DEF Kept, RowOf
<1>3. \A w : TaskOK(trips, w) => TaskOK(trips', w)
  BY <1>2 DEF Kept, TaskOK
<1> QED BY <1>1, <1>2, <1>3 DEF EntryOK

LEMMA SameRows == UNCHANGED trips => Kept
  BY DEF Kept

LEMMA NullIsNoRow ==
  ASSUME IInv
  PROVE  /\ NoTrip \notin DOMAIN trips
         /\ \A t \in DOMAIN trips : trips[t].bus \in Bus /\ trips[t].dir \in Dir
                                    /\ trips[t].dir # NoDir /\ t \in TripId
  BY DEF IInv, TypeOK, TableTypeOK, TripRow, NoTrip, TripId

(* Every step of the gateway keeps the rows.                               *)
LEMMA ServiceKeeps == IInv /\ ServiceNext => Kept
<1> SUFFICES ASSUME IInv, ServiceNext PROVE Kept
  OBVIOUS
<1>1. ASSUME NEW r \in Req, StartCommit(r) PROVE Kept
  <2> SUFFICES ASSUME NEW t \in DOMAIN trips
               PROVE  /\ t \in DOMAIN trips'
                      /\ trips'[t].bus = trips[t].bus /\ trips'[t].dir = trips[t].dir
                      /\ trips'[t].inferred = trips[t].inferred
                      /\ trips[t].status # "running" => trips'[t].status # "running"
    BY DEF Kept
  <2>1. trips[t] \in TripRow
    BY DEF IInv, TypeOK, TableTypeOK
  <2>2. /\ t \in DOMAIN trips'
        /\ trips'[t] = [trips[t] EXCEPT !.status = "abandoned"] \/ trips'[t] = trips[t]
    BY <1>1, CommitRows
  <2> QED BY <2>1, <2>2 DEF TripRow
<1>2. ASSUME NEW r \in Req, EndUpdate(r) PROVE Kept
  <2> SUFFICES ASSUME NEW t \in DOMAIN trips
               PROVE  /\ t \in DOMAIN trips'
                      /\ trips'[t].bus = trips[t].bus /\ trips'[t].dir = trips[t].dir
                      /\ trips'[t].inferred = trips[t].inferred
                      /\ trips[t].status # "running" => trips'[t].status # "running"
    BY DEF Kept
  <2>1. trips[t] \in TripRow
    BY DEF IInv, TypeOK, TableTypeOK
  <2>2. req[r].status # "running"
    BY <1>2 DEF EndUpdate, IInv, RequestInv, Ended
  <2>3. /\ t \in DOMAIN trips'
        /\ trips'[t] = [trips[t] EXCEPT !.status = req[r].status] \/ trips'[t] = trips[t]
    BY <1>2 DEF EndUpdate, WithStatus
  <2> QED BY <2>1, <2>2, <2>3 DEF TripRow
<1>3. CASE UNCHANGED trips
  BY <1>3, SameRows
<1>4. ASSUME NEW r \in Req,
             Arrival(r) \/ Progress(r) \/ LockWait(r) \/ StartFail(r) \/ QueryFail(r)
      PROVE  UNCHANGED trips \/ StartCommit(r) \/ EndUpdate(r)
  BY <1>4 DEF Arrival, StartRequest, EndRequest, TallyRequest, Progress, StartUpdate, StartInsert,
       StartPublish, EndPublish, Announce, TallyInsert, LockWait, StartLock, StartFail,
       QueryFail, tableVars
<1>5. GatewayCrash => UNCHANGED trips
  BY DEF GatewayCrash
<1> QED BY <1>1, <1>2, <1>3, <1>4, <1>5 DEF ServiceNext

----------------------------------------------------------------------------
(* The gateway's invariant under the stream-processor's writes.            *)

(* Closing rows nobody holds a lock on.                                    *)
LEMMA ClosedRows ==
  ASSUME IInv, NEW S \in SUBSET (DOMAIN trips), \A t \in S : Unlocked(t),
         trips' = WithStatus(S, "completed")
  PROVE  /\ Kept
         /\ DOMAIN trips' = DOMAIN trips
         /\ trips' \in [DOMAIN trips' -> TripRow]
         /\ \A t \in DOMAIN trips : trips'[t].saw = trips[t].saw
         /\ \A t \in DOMAIN trips \ S : trips'[t] = trips[t]
<1>1. DOMAIN trips' = DOMAIN trips
  BY DEF WithStatus
<1>2. \A t \in DOMAIN trips :
        trips'[t] = IF t \in S THEN [trips[t] EXCEPT !.status = "completed"] ELSE trips[t]
  BY DEF WithStatus
<1>3. \A t \in DOMAIN trips :
        /\ trips[t] \in TripRow /\ trips'[t] \in TripRow
        /\ trips'[t].bus = trips[t].bus /\ trips'[t].dir = trips[t].dir
        /\ trips'[t].inferred = trips[t].inferred /\ trips'[t].saw = trips[t].saw
        /\ trips[t].status # "running" => trips'[t].status # "running"
  <2> TAKE t \in DOMAIN trips
  <2>1. trips[t] \in TripRow
    BY DEF IInv, TypeOK, TableTypeOK
  <2>2. CASE t \in S
    BY <1>2, <2>1, <2>2 DEF TripRow, TripStatus, Ended
  <2>3. CASE t \notin S
    BY <1>2, <2>1, <2>3
  <2> QED BY <2>2, <2>3
<1>4. trips' = [t \in DOMAIN trips' |-> trips'[t]]
  BY DEF WithStatus
<1> QED BY <1>1, <1>2, <1>3, <1>4 DEF Kept

LEMMA CloseIInv ==
  ASSUME IInv, NEW S \in SUBSET (DOMAIN trips), \A t \in S : Unlocked(t),
         trips' = WithStatus(S, "completed"),
         UNCHANGED <<buses, nextTrip, rowLock, req, snapshots, outbox>>
  PROVE  IInv'
<1>0. /\ Kept /\ DOMAIN trips' = DOMAIN trips /\ trips' \in [DOMAIN trips' -> TripRow]
      /\ \A t \in DOMAIN trips : trips'[t].saw = trips[t].saw
      /\ \A t \in DOMAIN trips \ S : trips'[t] = trips[t]
  BY ClosedRows
<1>1. TypeOK'
  BY <1>0 DEF IInv, TypeOK, TableTypeOK
<1>2. IdsInv'
  BY <1>0 DEF IInv, IdsInv
<1>3. \A q \in Req : RequestInv(q)'
  <2> SUFFICES ASSUME NEW q \in Req PROVE RequestInv(q)'
    OBVIOUS
  <2>1. RequestInv(q)
    BY DEF IInv
  <2>2. Truthful(Status("trip_start", q)) => Truthful(Status("trip_start", q))'
    BY <1>0 DEF Kept, Truthful, Status
  <2>3. req[q].pc \in {"startLock", "startInsert", "startCommit"}
          => \A t \in req[q].saw : t \in DOMAIN trips' /\ trips'[t].bus = req[q].bus
    BY <1>0, <2>1 DEF Kept, RequestInv
  <2>4. req[q].pc \in {"startInsert", "startCommit"}
          => \A t \in req[q].saw : trips'[t].status # "running" \/ rowLock[t] = q
    BY <1>0, <2>1 DEF Kept, RequestInv
  <2>5. req[q].pc \in {"endUpdate", "endPublish"}
          => /\ req[q].trip \in DOMAIN trips'
             /\ trips'[req[q].trip].bus = req[q].bus /\ trips'[req[q].trip].dir = req[q].dir
             /\ req[q].pc = "endPublish" => trips'[req[q].trip].status # "running"
    BY <1>0, <2>1 DEF Kept, RequestInv
  <2> QED BY <1>0, <2>1, <2>2, <2>3, <2>4, <2>5 DEF RequestInv
<1>4. LocksBelongToStarts'
  <2> SUFFICES ASSUME NEW t \in TripId, rowLock[t] # NoReq
               PROVE  /\ req[rowLock[t]].pc \in {"startInsert", "startCommit"}
                      /\ t \in DOMAIN trips' /\ t \in req[rowLock[t]].saw
                      /\ trips'[t].status = "running"
                      /\ trips'[t].bus = req[rowLock[t]].bus
    BY <1>0 DEF LocksBelongToStarts
  <2>1. t \in DOMAIN trips \ S
    BY DEF IInv, LocksBelongToStarts, Unlocked
  <2> QED BY <1>0, <2>1 DEF IInv, LocksBelongToStarts
<1>5. StartClosesVisible' /\ StatusTruthful'
  <2>1. StartClosesVisible'
    BY <1>0 DEF IInv, StartClosesVisible, Kept
  <2>2. StatusTruthful'
    BY <1>0, KeptBindings DEF IInv, StatusTruthful
  <2> QED BY <2>1, <2>2
<1> QED BY <1>1, <1>2, <1>3, <1>4, <1>5 DEF IInv

(* A row inserted for a bus that reports positions without a trip.         *)
LEMMA InsertedRow ==
  ASSUME IInv, NEW b \in Bus, NEW d \in Dir, nextTrip <= MaxTrip,
         trips' = WithRow(trips, nextTrip, NewRow(b, d, TRUE, {}))
  PROVE  /\ Kept
         /\ nextTrip \in TripId \ DOMAIN trips
         /\ DOMAIN trips' = DOMAIN trips \cup {nextTrip}
         /\ trips' \in [DOMAIN trips' -> TripRow]
         /\ trips'[nextTrip] = NewRow(b, d, TRUE, {})
         /\ \A t \in DOMAIN trips : trips'[t] = trips[t]
<1>1. nextTrip \in TripId \ DOMAIN trips
  BY DEF IInv, TypeOK, TableTypeOK, IdsInv, TripId
<1>2. /\ DOMAIN trips' = DOMAIN trips \cup {nextTrip}
      /\ trips'[nextTrip] = NewRow(b, d, TRUE, {})
      /\ \A t \in DOMAIN trips : trips'[t] = trips[t]
      /\ trips' = [t \in DOMAIN trips' |-> trips'[t]]
  BY <1>1 DEF WithRow
<1>3. NewRow(b, d, TRUE, {}) \in TripRow
  BY DEF NewRow, TripRow, TripStatus
<1>4. \A t \in DOMAIN trips : trips[t] \in TripRow
  BY DEF IInv, TypeOK, TableTypeOK
<1> QED BY <1>1, <1>2, <1>3, <1>4 DEF Kept

LEMMA InsertIInv ==
  ASSUME IInv, NEW b \in Bus, NEW d \in Dir, nextTrip <= MaxTrip,
         trips' = WithRow(trips, nextTrip, NewRow(b, d, TRUE, {})), nextTrip' = nextTrip + 1,
         UNCHANGED <<buses, rowLock, req, snapshots, outbox>>
  PROVE  IInv'
<1>0. /\ Kept /\ nextTrip \in TripId \ DOMAIN trips
      /\ DOMAIN trips' = DOMAIN trips \cup {nextTrip}
      /\ trips' \in [DOMAIN trips' -> TripRow]
      /\ trips'[nextTrip] = NewRow(b, d, TRUE, {})
      /\ \A t \in DOMAIN trips : trips'[t] = trips[t]
  BY InsertedRow
<1>a. nextTrip \in Nat /\ (\A t \in TripId : t \in Nat) /\ DOMAIN trips \subseteq TripId
  BY <1>0 DEF IInv, TypeOK, TableTypeOK, TripId
<1>1. TypeOK'
  <2>1. DOMAIN trips' \subseteq TripId
    BY <1>0, <1>a
  <2>2. nextTrip' \in 1 .. (MaxTrip + 1)
    BY <1>a
  <2> QED BY <1>0, <2>1, <2>2 DEF IInv, TypeOK, TableTypeOK
<1>2. IdsInv'
  <2>1. \A t \in DOMAIN trips' : t < nextTrip'
    <3> TAKE t \in DOMAIN trips'
    <3>1. t \in Nat /\ (t = nextTrip \/ t < nextTrip)
      BY <1>0, <1>a DEF IInv, IdsInv
    <3> QED BY <3>1, <1>a
  <2> QED BY <2>1 DEF IInv, IdsInv
<1>3. \A q \in Req : RequestInv(q)'
  <2> SUFFICES ASSUME NEW q \in Req PROVE RequestInv(q)'
    OBVIOUS
  <2>1. RequestInv(q)
    BY DEF IInv
  <2>2. Truthful(Status("trip_start", q)) => Truthful(Status("trip_start", q))'
    BY <1>0 DEF Kept, Truthful, Status
  <2>3. req[q].pc = "startCommit"
          => req[q].trip < nextTrip' /\ req[q].trip \notin DOMAIN trips'
    <3> SUFFICES ASSUME req[q].pc = "startCommit"
                 PROVE  req[q].trip < nextTrip' /\ req[q].trip \notin DOMAIN trips'
      OBVIOUS
    <3>1. req[q].trip \in Nat /\ req[q].trip < nextTrip /\ req[q].trip \notin DOMAIN trips
      BY <1>a, <2>1 DEF RequestInv
    <3>2. req[q].trip < nextTrip + 1 /\ req[q].trip # nextTrip
      BY <1>a, <3>1
    <3> QED BY <1>0, <3>1, <3>2
  <2>4. req[q].pc \in {"startLock", "startInsert", "startCommit"}
          => \A t \in req[q].saw : t \in DOMAIN trips' /\ trips'[t] = trips[t]
    BY <1>0, <2>1 DEF RequestInv
  <2>5. req[q].pc \in {"endUpdate", "endPublish", "tallyInsert"}
          => req[q].trip \in DOMAIN trips' /\ trips'[req[q].trip] = trips[req[q].trip]
    BY <1>0, <2>1 DEF RequestInv
  <2> QED BY <2>1, <2>2, <2>3, <2>4, <2>5 DEF RequestInv
<1>4. LocksBelongToStarts'
  BY <1>0 DEF IInv, LocksBelongToStarts
<1>5. StartClosesVisible'
  <2> SUFFICES ASSUME NEW u \in DOMAIN trips', NEW t \in trips'[u].saw
               PROVE  t \in DOMAIN trips' /\ trips'[t].status # "running"
    BY DEF StartClosesVisible
  <2>1. u # nextTrip
    BY <1>0 DEF NewRow
  <2> QED BY <1>0, <2>1 DEF IInv, StartClosesVisible
<1>6. StatusTruthful'
  BY <1>0, KeptBindings DEF IInv, StatusTruthful
<1> QED BY <1>1, <1>2, <1>3, <1>4, <1>5, <1>6 DEF IInv

LEMMA UpsertIInv ==
  ASSUME IInv, NEW b \in Bus, UpsertBus(b),
         UNCHANGED <<trips, nextTrip, rowLock, req, snapshots, outbox>>
  PROVE  IInv'
<1>1. TypeOK'
  BY DEF IInv, TypeOK, TableTypeOK, UpsertBus
<1> QED BY <1>1 DEF IInv, IdsInv, RequestInv, Truthful, Status, LocksBelongToStarts,
                    StartClosesVisible, StatusTruthful

----------------------------------------------------------------------------
(* The stream-processor's steps.                                           *)

(* What has to be shown of a step of either service.                       *)
LEMMA Combine ==
  ASSUME LifecycleInv, IInv', Kept,
         channel' \in Seq(Msg), cityLoaded' \in BOOLEAN, awaiting' \in Seq(Msg),
         task' \in [Task -> TaskRecord], tripState' \in [Bus -> TripState],
         gpsPings' \subseteq [trip : TripId, bus : Bus, dir : Dir],
         finalStops' \in [TripId -> 0 .. MaxFinal],
         UNCHANGED brokerVars,
         \A i \in DOMAIN channel' : channel'[i].event # "ping" => Truthful(channel'[i]),
         \A k \in Task : task'[k] = task[k] \/ TaskOK(trips', task'[k]),
         \A b \in Bus : tripState'[b] = tripState[b] \/ EntryOK(trips', b, tripState'[b]),
         \A p \in gpsPings' : p \in gpsPings \/ RowOf(trips', p.trip, p.bus, p.dir)
  PROVE  LifecycleInv'
<1>1. LifecycleTypeOK'
  BY DEF LifecycleInv, LifecycleTypeOK, PersistTypeOK, brokerVars, IInv
<1>2. Retained' = Retained
  BY DEF Retained, brokerVars
<1>3. MessagesTruthful'
  <2>1. \A m \in Retained' : Truthful(m)'
    BY <1>2, KeptBindings DEF LifecycleInv, MessagesTruthful
  <2>2. \A i \in DOMAIN channel' : channel'[i].event # "ping" => Truthful(channel[i])'
    BY KeptBindings DEF Kept, Truthful
  <2> QED BY <2>1, <2>2 DEF IInv, MessagesTruthful
<1>4. CacheBound'
  BY KeptBindings DEF LifecycleInv, CacheBound
<1>5. PingsBound'
  BY KeptBindings DEF LifecycleInv, PingsBound
<1>6. TasksBound'
  BY KeptBindings DEF LifecycleInv, TasksBound
<1> QED BY <1>1, <1>2, <1>3, <1>4, <1>5, <1>6 DEF LifecycleInv

(* The stream-processor's variables when only the gateway moves.           *)
LEMMA GatewayStep ==
  ASSUME LifecycleInv, Gateway(ServiceNext)
  PROVE  LifecycleInv'
<1>1. IInv' /\ Kept
  BY ServiceNextIInv, ServiceKeeps DEF LifecycleInv, Gateway
<1>2. UNCHANGED <<channel, cityLoaded, awaiting, task, tripState, gpsPings, finalStops>>
      /\ UNCHANGED brokerVars
  BY DEF Gateway, persistVars
<1> QED BY <1>1, <1>2, Combine DEF LifecycleInv, LifecycleTypeOK, PersistTypeOK, MessagesTruthful

(* The first and the remaining messages of a channel.                      *)
LEMMA HeadAndTail ==
  ASSUME NEW s \in Seq(Msg), s # <<>>
  PROVE  /\ Head(s) \in Msg /\ Tail(s) \in Seq(Msg)
         /\ \E i \in DOMAIN s : s[i] = Head(s)
         /\ \A i \in DOMAIN Tail(s) : \E j \in DOMAIN s : Tail(s)[i] = s[j]
<1>1. Head(s) \in Msg /\ Tail(s) \in Seq(Msg) /\ 1 \in DOMAIN s /\ s[1] = Head(s)
  OBVIOUS
<1>2. \A i \in DOMAIN Tail(s) : i + 1 \in DOMAIN s /\ Tail(s)[i] = s[i + 1]
  OBVIOUS
<1> QED BY <1>1, <1>2

LEMMA ReceivePingInv ==
  ASSUME LifecycleInv, Processor(ReceivePing)
  PROVE  LifecycleInv'
<1>0. /\ channel \in Seq(Msg) /\ channel # <<>> /\ channel' = Tail(channel)
      /\ awaiting \in Seq(Msg) /\ awaiting' = Append(awaiting, Head(channel))
      /\ UNCHANGED <<tableVars, cityLoaded, task, tripState, gpsPings, finalStops>>
      /\ UNCHANGED <<req, snapshots, outbox>> /\ UNCHANGED brokerVars
  BY DEF Processor, ReceivePing, LifecycleInv, LifecycleTypeOK, PersistTypeOK
<1>1. IInv' /\ Kept
  BY <1>0, StutterIInv, SameRows DEF LifecycleInv, serviceVars, tableVars
<1>2. channel' \in Seq(Msg) /\ awaiting' \in Seq(Msg)
  BY <1>0, HeadAndTail
<1>3. \A i \in DOMAIN channel' : channel'[i].event # "ping" => Truthful(channel'[i])
  BY <1>0, HeadAndTail DEF LifecycleInv, MessagesTruthful
<1> QED BY <1>0, <1>1, <1>2, <1>3, Combine DEF LifecycleInv, LifecycleTypeOK, PersistTypeOK

LEMMA RedisFailInv ==
  ASSUME LifecycleInv, Processor(RedisFail)
  PROVE  LifecycleInv'
<1>0. /\ awaiting \in Seq(Msg) /\ awaiting # <<>> /\ awaiting' = Tail(awaiting)
      /\ UNCHANGED <<tableVars, channel, cityLoaded, task, tripState, gpsPings, finalStops>>
      /\ UNCHANGED <<req, snapshots, outbox>> /\ UNCHANGED brokerVars
  BY DEF Processor, RedisFail, LifecycleInv, LifecycleTypeOK, PersistTypeOK
<1>1. IInv' /\ Kept
  BY <1>0, StutterIInv, SameRows DEF LifecycleInv, serviceVars, tableVars
<1>2. awaiting' \in Seq(Msg)
  BY <1>0, HeadAndTail
<1> QED BY <1>0, <1>1, <1>2, Combine
        DEF LifecycleInv, LifecycleTypeOK, PersistTypeOK, MessagesTruthful

(* How the helpers of a handler change its task and the cache.             *)
LEMMA Gone ==
  ASSUME LifecycleInv, NEW k \in Task, NEW pc \in TaskPc, Goto(k, pc)
  PROVE  /\ task' \in [Task -> TaskRecord]
         /\ task'[k] = [task[k] EXCEPT !.pc = pc]
         /\ task'[k].pc = pc /\ task'[k].bus = task[k].bus /\ task'[k].dir = task[k].dir
         /\ task'[k].old = task[k].old /\ task'[k].new = task[k].new
         /\ \A q \in Task : q # k => task'[q] = task[q]
<1>1. task \in [Task -> TaskRecord] /\ task[k] \in TaskRecord
  BY DEF LifecycleInv, LifecycleTypeOK, PersistTypeOK
<1>2. [task[k] EXCEPT !.pc = pc] \in TaskRecord
  BY <1>1 DEF TaskRecord
<1>3. task' = [task EXCEPT ![k] = [task[k] EXCEPT !.pc = pc]]
  BY <1>1 DEF Goto
<1> QED BY <1>1, <1>2, <1>3 DEF TaskRecord

LEMMA Finished ==
  ASSUME LifecycleInv, NEW k \in Task, Finish(k)
  PROVE  /\ task' \in [Task -> TaskRecord]
         /\ \A q \in Task : task'[q] = task[q] \/ TaskOK(trips', task'[q])
<1>1. IdleTask \in TaskRecord /\ TaskOK(trips', IdleTask)
  BY DEF IdleTask, TaskRecord, TaskPc, TaskOK
<1>2. task \in [Task -> TaskRecord]
  BY DEF LifecycleInv, LifecycleTypeOK, PersistTypeOK
<1> QED BY <1>1, <1>2 DEF Finish

LEMMA Taken ==
  ASSUME LifecycleInv, NEW k \in Task, NEW pc \in TaskPc, NEW m \in Msg,
         NEW old \in TripId \cup {NoTrip}, Take(k, pc, m, old)
  PROVE  /\ task' \in [Task -> TaskRecord]
         /\ task'[k] = [pc |-> pc, bus |-> m.bus, dir |-> m.dir, old |-> old, new |-> m.trip]
         /\ \A q \in Task : q # k => task'[q] = task[q]
<1>1. [pc |-> pc, bus |-> m.bus, dir |-> m.dir, old |-> old, new |-> m.trip] \in TaskRecord
  BY DEF Msg, TaskRecord
<1>2. task \in [Task -> TaskRecord]
  BY DEF LifecycleInv, LifecycleTypeOK, PersistTypeOK
<1> QED BY <1>1, <1>2 DEF Take

LEMMA Cached ==
  ASSUME LifecycleInv, NEW b \in Bus, NEW t, NEW d, Cache(b, t, d),
         (t = NoTrip /\ d = NoDir) \/ RowOf(trips, t, b, d)
  PROVE  /\ tripState' \in [Bus -> TripState]
         /\ \A c \in Bus : tripState'[c] = tripState[c] \/ EntryOK(trips, c, tripState'[c])
<1>1. [trip |-> t, dir |-> d] \in TripState
  BY NullIsNoRow DEF TripState, LifecycleInv, RowOf
<1>2. EntryOK(trips, b, [trip |-> t, dir |-> d])
  BY DEF EntryOK, NoState
<1>3. tripState \in [Bus -> TripState]
  BY DEF LifecycleInv, LifecycleTypeOK, PersistTypeOK
<1>4. tripState' = [tripState EXCEPT ![b] = [trip |-> t, dir |-> d]]
  BY DEF Cache
<1> QED BY <1>1, <1>2, <1>3, <1>4

(* The entry of a bus, as ensureTrip and handleTripStatus read it.         *)
LEMMA Entry ==
  ASSUME LifecycleInv, NEW b \in Bus
  PROVE  /\ tripState[b].trip \in TripId \cup {NoTrip}
         /\ tripState[b].trip # NoTrip =>
              RowOf(trips, tripState[b].trip, b, tripState[b].dir)
         /\ tripState[b].trip = NoTrip => tripState[b].dir = NoDir
<1>1. tripState[b] \in TripState /\ EntryOK(trips, b, tripState[b])
  BY DEF LifecycleInv, LifecycleTypeOK, PersistTypeOK, CacheBound
<1> QED BY <1>1, NullIsNoRow DEF TripState, EntryOK, NoState, RowOf, LifecycleInv

LEMMA EnsureTripInv ==
  ASSUME LifecycleInv, NEW k \in Task, Processor(EnsureTrip(k))
  PROVE  LifecycleInv'
<1> DEFINE m == Head(awaiting)
           x == tripState[m.bus]
<1>0. /\ awaiting \in Seq(Msg) /\ awaiting # <<>> /\ awaiting' = Tail(awaiting)
      /\ UNCHANGED <<tableVars, channel, cityLoaded, tripState, gpsPings, finalStops>>
      /\ UNCHANGED <<req, snapshots, outbox>> /\ UNCHANGED brokerVars
      /\ \/ UNCHANGED task
         \/ x.dir = m.dir /\ Take(k, "insertPing", [m EXCEPT !.trip = x.trip], x.trip)
         \/ x.trip # NoTrip /\ x.dir # m.dir /\ Take(k, "closeOld", m, x.trip)
         \/ Take(k, "upsert", m, NoTrip)
  BY DEF Processor, EnsureTrip, LifecycleInv, LifecycleTypeOK, PersistTypeOK
<1>1. IInv' /\ Kept
  BY <1>0, StutterIInv, SameRows DEF LifecycleInv, serviceVars, tableVars
<1>2. m \in Msg /\ awaiting' \in Seq(Msg)
  BY <1>0, HeadAndTail
<1>a. m.bus \in Bus /\ m.dir \in Dir /\ m.dir # NoDir
  BY <1>2 DEF Msg
<1>b. /\ x.trip \in TripId \cup {NoTrip}
      /\ x.trip # NoTrip => RowOf(trips, x.trip, m.bus, x.dir)
      /\ x.trip = NoTrip => x.dir = NoDir
  BY <1>a, Entry
<1> HIDE DEF m, x
<1>3. /\ task' \in [Task -> TaskRecord]
      /\ \A q \in Task : task'[q] = task[q] \/ TaskOK(trips', task'[q])
  <2>1. CASE UNCHANGED task
    BY <2>1 DEF LifecycleInv, LifecycleTypeOK, PersistTypeOK
  <2>2. CASE x.dir = m.dir /\ Take(k, "insertPing", [m EXCEPT !.trip = x.trip], x.trip)
    <3>1. [m EXCEPT !.trip = x.trip] \in Msg /\ "insertPing" \in TaskPc
      BY <1>2, <1>b DEF Msg, TaskPc
    <3>2. task' \in [Task -> TaskRecord] /\ (\A q \in Task : q # k => task'[q] = task[q])
          /\ task'[k] = [pc |-> "insertPing", bus |-> m.bus, dir |-> m.dir,
                         old |-> x.trip, new |-> x.trip]
      BY <1>2, <1>b, <2>2, <3>1, Taken DEF Msg
    <3>3. RowOf(trips, x.trip, m.bus, m.dir)
      BY <1>a, <1>b, <2>2
    <3>4. TaskOK(trips, task'[k])
      BY <1>a, <3>2, <3>3 DEF TaskOK
    <3> QED BY <1>0, <3>2, <3>4 DEF tableVars
  <2>3. CASE x.trip # NoTrip /\ x.dir # m.dir /\ Take(k, "closeOld", m, x.trip)
    <3>2. task' \in [Task -> TaskRecord] /\ (\A q \in Task : q # k => task'[q] = task[q])
          /\ task'[k] = [pc |-> "closeOld", bus |-> m.bus, dir |-> m.dir,
                         old |-> x.trip, new |-> m.trip]
      BY <1>2, <1>b, <2>3, Taken DEF TaskPc
    <3>4. TaskOK(trips, task'[k])
      BY <1>a, <1>b, <2>3, <3>2 DEF TaskOK, RowOf
    <3> QED BY <1>0, <3>2, <3>4 DEF tableVars
  <2>4. CASE Take(k, "upsert", m, NoTrip)
    <3>2. task' \in [Task -> TaskRecord] /\ (\A q \in Task : q # k => task'[q] = task[q])
          /\ task'[k] = [pc |-> "upsert", bus |-> m.bus, dir |-> m.dir,
                         old |-> NoTrip, new |-> m.trip]
      BY <1>2, <2>4, Taken DEF TaskPc
    <3>4. TaskOK(trips, task'[k])
      BY <1>a, <3>2 DEF TaskOK
    <3> QED BY <1>0, <3>2, <3>4 DEF tableVars
  <2> QED BY <1>0, <2>1, <2>2, <2>3, <2>4
<1> QED BY <1>0, <1>1, <1>2, <1>3, Combine
        DEF LifecycleInv, LifecycleTypeOK, PersistTypeOK, MessagesTruthful

LEMMA ReceiveStatusInv ==
  ASSUME LifecycleInv, NEW k \in Task, Processor(ReceiveStatus(k))
  PROVE  LifecycleInv'
<1> DEFINE m == Head(channel)
           x == tripState[m.bus].trip
<1>0. /\ channel \in Seq(Msg) /\ channel # <<>> /\ channel' = Tail(channel)
      /\ m.event # "ping"
      /\ UNCHANGED <<tableVars, cityLoaded, awaiting, gpsPings, finalStops>>
      /\ UNCHANGED <<req, snapshots, outbox>> /\ UNCHANGED brokerVars
      /\ \/ UNCHANGED <<task, tripState>>
         \/ x = m.trip /\ Take(k, "finalStop", m, x) /\ UNCHANGED tripState
         \/ Cache(m.bus, m.trip, m.dir) /\ UNCHANGED task
         \/ x \notin {NoTrip, m.trip} /\ Take(k, "closeSuperseded", m, x) /\ UNCHANGED tripState
         \/ Take(k, "upsertStart", m, NoTrip) /\ UNCHANGED tripState
  BY DEF Processor, ReceiveStatus, Ignored, LifecycleInv, LifecycleTypeOK, PersistTypeOK
<1>1. IInv' /\ Kept
  BY <1>0, StutterIInv, SameRows DEF LifecycleInv, serviceVars, tableVars
<1>2. m \in Msg /\ channel' \in Seq(Msg)
  BY <1>0, HeadAndTail
<1>3. \A i \in DOMAIN channel' : channel'[i].event # "ping" => Truthful(channel'[i])
  BY <1>0, HeadAndTail DEF LifecycleInv, MessagesTruthful
<1>4. Truthful(m)
  BY <1>0, HeadAndTail DEF LifecycleInv, MessagesTruthful
<1>a. m.bus \in Bus /\ m.dir \in Dir /\ RowOf(trips, m.trip, m.bus, m.dir) /\ m.trip \in TripId
  BY <1>2, <1>4, NullIsNoRow DEF Msg, Truthful, RowOf, LifecycleInv
<1>b. x \in TripId \cup {NoTrip} /\ (x # NoTrip => x \in DOMAIN trips /\ trips[x].bus = m.bus)
  BY <1>a, Entry DEF RowOf
<1>c. task \in [Task -> TaskRecord] /\ tripState \in [Bus -> TripState]
  BY DEF LifecycleInv, LifecycleTypeOK, PersistTypeOK
<1> HIDE DEF m, x
<1>5. /\ task' \in [Task -> TaskRecord]
      /\ \A q \in Task : task'[q] = task[q] \/ TaskOK(trips', task'[q])
  <2>1. CASE UNCHANGED task
    BY <2>1, <1>c
  <2>2. CASE x = m.trip /\ Take(k, "finalStop", m, x)
    <3>2. task' \in [Task -> TaskRecord] /\ (\A q \in Task : q # k => task'[q] = task[q])
          /\ task'[k] = [pc |-> "finalStop", bus |-> m.bus, dir |-> m.dir,
                         old |-> x, new |-> m.trip]
      BY <1>2, <1>b, <2>2, Taken DEF TaskPc
    <3>4. TaskOK(trips, task'[k])
      BY <1>a, <2>2, <3>2 DEF TaskOK
    <3> QED BY <1>0, <3>2, <3>4 DEF tableVars
  <2>3. CASE x \notin {NoTrip, m.trip} /\ Take(k, "closeSuperseded", m, x)
    <3>2. task' \in [Task -> TaskRecord] /\ (\A q \in Task : q # k => task'[q] = task[q])
          /\ task'[k] = [pc |-> "closeSuperseded", bus |-> m.bus, dir |-> m.dir,
                         old |-> x, new |-> m.trip]
      BY <1>2, <1>b, <2>3, Taken DEF TaskPc
    <3>4. TaskOK(trips, task'[k])
      BY <1>a, <1>b, <2>3, <3>2 DEF TaskOK
    <3> QED BY <1>0, <3>2, <3>4 DEF tableVars
  <2>4. CASE Take(k, "upsertStart", m, NoTrip)
    <3>2. task' \in [Task -> TaskRecord] /\ (\A q \in Task : q # k => task'[q] = task[q])
          /\ task'[k] = [pc |-> "upsertStart", bus |-> m.bus, dir |-> m.dir,
                         old |-> NoTrip, new |-> m.trip]
      BY <1>2, <2>4, Taken DEF TaskPc
    <3>4. TaskOK(trips, task'[k])
      BY <1>a, <3>2 DEF TaskOK
    <3> QED BY <1>0, <3>2, <3>4 DEF tableVars
  <2> QED BY <1>0, <2>1, <2>2, <2>3, <2>4
<1>6. /\ tripState' \in [Bus -> TripState]
      /\ \A b \in Bus : tripState'[b] = tripState[b] \/ EntryOK(trips', b, tripState'[b])
  <2>1. CASE UNCHANGED tripState
    BY <2>1, <1>c
  <2>2. CASE Cache(m.bus, m.trip, m.dir)
    BY <2>2, <1>0, <1>a, Cached DEF tableVars
  <2> QED BY <1>0, <2>1, <2>2
<1> QED BY <1>0, <1>1, <1>2, <1>3, <1>5, <1>6, Combine
        DEF LifecycleInv, LifecycleTypeOK, PersistTypeOK

(* A handler's record between two queries.                                 *)
LEMMA TaskFacts ==
  ASSUME LifecycleInv, NEW k \in Task
  PROVE  /\ task[k] \in TaskRecord /\ TaskOK(trips, task[k])
         /\ task \in [Task -> TaskRecord] /\ tripState \in [Bus -> TripState]
         /\ finalStops \in [TripId -> 0 .. MaxFinal]
  BY DEF LifecycleInv, TasksBound, LifecycleTypeOK, PersistTypeOK

(* The steps of a handler that write a table.                              *)
LEMMA TableStep ==
  ASSUME LifecycleInv, IInv', Kept, NEW k \in Task, NEW pc \in TaskPc, Goto(k, pc),
         TaskOK(trips', [task[k] EXCEPT !.pc = pc]),
         UNCHANGED <<channel, cityLoaded, awaiting, tripState, gpsPings, finalStops>>,
         UNCHANGED brokerVars
  PROVE  LifecycleInv'
<1>1. /\ task' \in [Task -> TaskRecord]
      /\ \A q \in Task : task'[q] = task[q] \/ TaskOK(trips', task'[q])
  BY Gone
<1> QED BY <1>1, Combine DEF LifecycleInv, LifecycleTypeOK, PersistTypeOK, MessagesTruthful

LEMMA CloseOldInv ==
  ASSUME LifecycleInv, NEW k \in Task, Processor(CloseOld(k))
  PROVE  LifecycleInv'
<1>0. /\ task[k].pc = "closeOld" /\ Unlocked(task[k].old)
      /\ trips' = WithStatus({task[k].old}, "completed") /\ Goto(k, "insertTrip")
      /\ UNCHANGED <<buses, nextTrip, rowLock, req, snapshots, outbox>>
      /\ UNCHANGED <<channel, cityLoaded, awaiting, tripState, gpsPings, finalStops>>
      /\ UNCHANGED brokerVars
  BY DEF Processor, CloseOld
<1>1. task[k] \in TaskRecord /\ TaskOK(trips, task[k])
  BY TaskFacts
<1>2. {task[k].old} \in SUBSET (DOMAIN trips) /\ \A t \in {task[k].old} : Unlocked(t)
  BY <1>0, <1>1 DEF TaskOK
<1>3. IInv' /\ Kept
  BY <1>0, <1>2, CloseIInv, ClosedRows DEF LifecycleInv
<1>4. TaskOK(trips', [task[k] EXCEPT !.pc = "insertTrip"]) /\ "insertTrip" \in TaskPc
  BY <1>0, <1>1 DEF TaskOK, TaskRecord, TaskPc
<1> QED BY <1>0, <1>3, <1>4, TableStep

LEMMA CloseSupersededInv ==
  ASSUME LifecycleInv, NEW k \in Task, Processor(CloseSuperseded(k))
  PROVE  LifecycleInv'
<1> DEFINE S == {task[k].old} \cap Running(task[k].bus)
<1>0. /\ task[k].pc = "closeSuperseded" /\ Goto(k, "adopt")
      /\ \/ Unlocked(task[k].old) /\ trips' = WithStatus(S, "completed")
         \/ UNCHANGED trips
      /\ UNCHANGED <<buses, nextTrip, rowLock, req, snapshots, outbox>>
      /\ UNCHANGED <<channel, cityLoaded, awaiting, tripState, gpsPings, finalStops>>
      /\ UNCHANGED brokerVars
  BY DEF Processor, CloseSuperseded
<1>1. task[k] \in TaskRecord /\ TaskOK(trips, task[k])
  BY TaskFacts
<1>2. IInv' /\ Kept
  <2>1. CASE UNCHANGED trips
    BY <1>0, <2>1, StutterIInv, SameRows DEF LifecycleInv, serviceVars, tableVars
  <2>2. CASE Unlocked(task[k].old) /\ trips' = WithStatus(S, "completed")
    <3>1. S \in SUBSET (DOMAIN trips) /\ \A t \in S : Unlocked(t)
      BY <2>2 DEF Running
    <3> HIDE DEF S
    <3> QED BY <1>0, <2>2, <3>1, CloseIInv, ClosedRows DEF LifecycleInv
  <2> QED BY <1>0, <2>1, <2>2
<1>3. TaskOK(trips, [task[k] EXCEPT !.pc = "adopt"]) /\ "adopt" \in TaskPc
  BY <1>0, <1>1 DEF TaskOK, TaskRecord, TaskPc
<1>4. TaskOK(trips', [task[k] EXCEPT !.pc = "adopt"])
  BY <1>2, <1>3, KeptBindings
<1> QED BY <1>0, <1>2, <1>3, <1>4, TableStep

LEMMA UpsertTheBusInv ==
  ASSUME LifecycleInv, NEW k \in Task, Processor(UpsertTheBus(k))
  PROVE  LifecycleInv'
<1>0. /\ \/ task[k].pc = "upsert" /\ Goto(k, "insertTrip")
         \/ task[k].pc = "upsertStart" /\ Goto(k, "adopt")
      /\ UpsertBus(task[k].bus)
      /\ UNCHANGED <<trips, nextTrip, rowLock, req, snapshots, outbox>>
      /\ UNCHANGED <<channel, cityLoaded, awaiting, tripState, gpsPings, finalStops>>
      /\ UNCHANGED brokerVars
  BY DEF Processor, UpsertTheBus
<1>1. task[k] \in TaskRecord /\ TaskOK(trips, task[k])
  BY TaskFacts
<1>2. IInv' /\ Kept
  BY <1>0, <1>1, UpsertIInv, SameRows DEF LifecycleInv, TaskOK
<1>3. CASE task[k].pc = "upsert" /\ Goto(k, "insertTrip")
  <2>1. TaskOK(trips', [task[k] EXCEPT !.pc = "insertTrip"]) /\ "insertTrip" \in TaskPc
    BY <1>1, <1>3 DEF TaskOK, TaskRecord, TaskPc
  <2> QED BY <1>0, <1>2, <1>3, <2>1, TableStep
<1>4. CASE task[k].pc = "upsertStart" /\ Goto(k, "adopt")
  <2>1. TaskOK(trips', [task[k] EXCEPT !.pc = "adopt"]) /\ "adopt" \in TaskPc
    BY <1>0, <1>1, <1>4 DEF TaskOK, TaskRecord, TaskPc
  <2> QED BY <1>0, <1>2, <1>4, <2>1, TableStep
<1> QED BY <1>0, <1>3, <1>4

LEMMA InsertTripInv ==
  ASSUME LifecycleInv, NEW k \in Task, Processor(InsertTrip(k))
  PROVE  LifecycleInv'
<1>0. /\ task[k].pc = "insertTrip" /\ nextTrip <= MaxTrip
      /\ trips' = WithRow(trips, nextTrip, NewRow(task[k].bus, task[k].dir, TRUE, {}))
      /\ nextTrip' = nextTrip + 1
      /\ task' = [task EXCEPT ![k].pc = "setInferred", ![k].new = nextTrip]
      /\ UNCHANGED <<buses, rowLock, req, snapshots, outbox>>
      /\ UNCHANGED <<channel, cityLoaded, awaiting, tripState, gpsPings, finalStops>>
      /\ UNCHANGED brokerVars
  BY DEF Processor, InsertTrip
<1>1. /\ task \in [Task -> TaskRecord] /\ task[k] \in TaskRecord
      /\ task[k].bus \in Bus /\ task[k].dir \in Dir
  BY <1>0, TaskFacts DEF TaskOK
<1>2. IInv'
  BY <1>0, <1>1, InsertIInv DEF LifecycleInv
<1>3. /\ Kept /\ nextTrip \in TripId \ DOMAIN trips /\ nextTrip \in DOMAIN trips'
      /\ trips'[nextTrip] = NewRow(task[k].bus, task[k].dir, TRUE, {})
  BY <1>0, <1>1, InsertedRow DEF LifecycleInv
<1>4. RowOf(trips', nextTrip, task[k].bus, task[k].dir)
  BY <1>3 DEF RowOf, NewRow
<1> DEFINE w == [task[k] EXCEPT !.pc = "setInferred", !.new = nextTrip]
<1>5. w \in TaskRecord /\ w.pc = "setInferred" /\ w.new = nextTrip /\ w.bus = task[k].bus
      /\ w.dir = task[k].dir
  BY <1>1, <1>3 DEF TaskRecord, TaskPc
<1>6. task' = [task EXCEPT ![k] = w]
  BY <1>0, <1>1
<1> HIDE DEF w
<1>7. TaskOK(trips', w)
  BY <1>1, <1>4, <1>5 DEF TaskOK
<1>8. task' \in [Task -> TaskRecord] /\ \A q \in Task : task'[q] = task[q] \/ task'[q] = w
  BY <1>1, <1>5, <1>6
<1> QED BY <1>0, <1>2, <1>3, <1>7, <1>8, Combine
        DEF LifecycleInv, LifecycleTypeOK, PersistTypeOK, MessagesTruthful

(* The steps of a handler that leave the tables alone.                     *)
LEMMA LocalStep ==
  ASSUME LifecycleInv, NEW k \in Task,
         Processor(SetInferred(k) \/ InsertPing(k) \/ FinalStop(k) \/ Retire(k) \/ Adopt(k)
                   \/ TaskFail(k))
  PROVE  LifecycleInv'
<1>0. /\ UNCHANGED <<tableVars, req, snapshots, outbox, channel, cityLoaded, awaiting>>
      /\ UNCHANGED brokerVars
  BY DEF Processor, SetInferred, InsertPing, FinalStop, Retire, Adopt, TaskFail
<1>1. IInv' /\ Kept /\ UNCHANGED trips
  BY <1>0, StutterIInv, SameRows DEF LifecycleInv, serviceVars, tableVars
<1>2. /\ task[k] \in TaskRecord /\ TaskOK(trips, task[k]) /\ task \in [Task -> TaskRecord]
      /\ tripState \in [Bus -> TripState] /\ finalStops \in [TripId -> 0 .. MaxFinal]
  BY TaskFacts
<1>3. /\ task' \in [Task -> TaskRecord]
      /\ \A q \in Task : task'[q] = task[q] \/ TaskOK(trips', task'[q])
  <2>1. CASE task[k].pc = "setInferred" /\ Goto(k, "insertPing")
    <3>1. TaskOK(trips', [task[k] EXCEPT !.pc = "insertPing"]) /\ "insertPing" \in TaskPc
      BY <1>1, <1>2, <2>1 DEF TaskOK, TaskRecord, TaskPc
    <3> QED BY <2>1, <3>1, Gone
  <2>2. CASE task[k].pc = "finalStop" /\ Goto(k, "retire")
    <3>1. TaskOK(trips', [task[k] EXCEPT !.pc = "retire"]) /\ "retire" \in TaskPc
      BY <1>2, <2>2 DEF TaskOK, TaskRecord, TaskPc
    <3> QED BY <2>2, <3>1, Gone
  <2>3. CASE Finish(k)
    BY <2>3, Finished
  <2> QED BY <2>1, <2>2, <2>3
          DEF Processor, SetInferred, InsertPing, FinalStop, Retire, Adopt, TaskFail
<1>4. /\ tripState' \in [Bus -> TripState]
      /\ \A b \in Bus : tripState'[b] = tripState[b] \/ EntryOK(trips', b, tripState'[b])
  <2>1. CASE SetInferred(k) \/ Adopt(k)
    <3>1. Cache(task[k].bus, task[k].new, task[k].dir) /\ task[k].bus \in Bus
          /\ RowOf(trips, task[k].new, task[k].bus, task[k].dir)
      BY <1>2, <2>1 DEF SetInferred, Adopt, TaskOK
    <3> QED BY <1>1, <3>1, Cached
  <2>2. CASE Retire(k)
    <3>1. Cache(task[k].bus, NoTrip, NoDir) /\ task[k].bus \in Bus
      BY <1>2, <2>2 DEF Retire, TaskOK
    <3> QED BY <1>1, <3>1, Cached
  <2>3. CASE UNCHANGED tripState
    BY <1>2, <2>3
  <2> QED BY <2>1, <2>2, <2>3 DEF Processor, InsertPing, FinalStop, TaskFail
<1>5. /\ gpsPings' \subseteq [trip : TripId, bus : Bus, dir : Dir]
      /\ \A p \in gpsPings' : p \in gpsPings \/ RowOf(trips', p.trip, p.bus, p.dir)
  <2>0. gpsPings \subseteq [trip : TripId, bus : Bus, dir : Dir]
    BY DEF LifecycleInv, LifecycleTypeOK, PersistTypeOK
  <2>1. CASE InsertPing(k)
    <3> DEFINE p == [trip |-> task[k].new, bus |-> task[k].bus, dir |-> task[k].dir]
    <3>1. RowOf(trips, task[k].new, task[k].bus, task[k].dir) /\ task[k].bus \in Bus
          /\ task[k].dir \in Dir
      BY <1>2, <2>1 DEF InsertPing, TaskOK
    <3>2. p \in [trip : TripId, bus : Bus, dir : Dir]
      BY <3>1, NullIsNoRow DEF LifecycleInv, RowOf
    <3>3. RowOf(trips', p.trip, p.bus, p.dir)
      BY <1>1, <3>1
    <3>4. gpsPings' = gpsPings \cup {p}
      BY <2>1 DEF InsertPing
    <3> QED BY <2>0, <3>2, <3>3, <3>4
  <2>2. CASE UNCHANGED gpsPings
    BY <2>0, <2>2
  <2> QED BY <2>1, <2>2 DEF Processor, SetInferred, FinalStop, Retire, Adopt, TaskFail
<1>6. finalStops' \in [TripId -> 0 .. MaxFinal]
  <2>1. CASE FinalStop(k)
    <3>1. task[k].old \in TripId
      BY <1>2, <2>1 DEF FinalStop, TaskOK
    <3>2. finalStops[task[k].old] < MaxFinal =>
            finalStops[task[k].old] + 1 \in 0 .. MaxFinal
      BY <1>2, <3>1
    <3> QED BY <1>2, <2>1, <3>1, <3>2 DEF FinalStop
  <2>2. CASE UNCHANGED finalStops
    BY <1>2, <2>2
  <2> QED BY <2>1, <2>2 DEF Processor, SetInferred, InsertPing, Retire, Adopt, TaskFail
<1> QED BY <1>0, <1>1, <1>3, <1>4, <1>5, <1>6, Combine
        DEF LifecycleInv, LifecycleTypeOK, PersistTypeOK, MessagesTruthful

LEMMA ProcessorStep ==
  ASSUME LifecycleInv, Processor(PersistNext)
  PROVE  LifecycleInv'
<1>1. ASSUME NEW k \in Task, Processor(EnsureTrip(k) \/ ReceiveStatus(k) \/ TaskStep(k))
      PROVE  LifecycleInv'
  BY <1>1, EnsureTripInv, ReceiveStatusInv, CloseOldInv, UpsertTheBusInv, InsertTripInv,
     CloseSupersededInv, LocalStep DEF Processor, TaskStep
<1> QED BY <1>1, ReceivePingInv, RedisFailInv DEF Processor, PersistNext

----------------------------------------------------------------------------
(* The broker, the connection and the restarts: no row changes.            *)

LEMMA Outside ==
  ASSUME LifecycleInv, IInv', UNCHANGED tableVars, LifecycleTypeOK', IsFiniteSet(Retained)',
         \A m \in Retained' : m \in Retained \/ Truthful(m),
         \A i \in DOMAIN channel' : channel'[i].event # "ping" => Truthful(channel'[i]),
         UNCHANGED gpsPings,
         \A k \in Task : task'[k] = task[k] \/ task'[k] = IdleTask,
         \A b \in Bus : tripState'[b] = tripState[b] \/ tripState'[b] = NoState
  PROVE  LifecycleInv'
<1>0. Kept /\ UNCHANGED trips
  BY SameRows DEF tableVars
<1>1. MessagesTruthful'
  <2>1. \A m \in Retained' : Truthful(m)'
    BY <1>0, KeptBindings DEF LifecycleInv, MessagesTruthful
  <2>2. \A i \in DOMAIN channel' : channel'[i].event # "ping" => Truthful(channel[i])'
    BY <1>0 DEF Truthful
  <2> QED BY <2>1, <2>2 DEF IInv, MessagesTruthful
<1>2. CacheBound'
  BY <1>0 DEF LifecycleInv, CacheBound, EntryOK
<1>3. PingsBound'
  BY <1>0 DEF LifecycleInv, PingsBound
<1>4. TasksBound'
  <2>1. TaskOK(trips, IdleTask)
    BY DEF TaskOK, IdleTask
  <2> QED BY <1>0, <2>1 DEF LifecycleInv, TasksBound
<1> QED BY <1>1, <1>2, <1>3, <1>4 DEF LifecycleInv

LEMMA MessageTypes == StatusMsg \subseteq Msg
  BY DEF StatusMsg, Msg

LEMMA BrokerInv ==
  ASSUME LifecycleInv, Broker
  PROVE  LifecycleInv'
<1> DEFINE m == Head(outbox)
<1>t. outbox \in Seq(StatusMsg) /\ channel \in Seq(Msg)
  BY DEF LifecycleInv, IInv, TypeOK, LifecycleTypeOK, PersistTypeOK
<1>0. /\ outbox # <<>>
      /\ \/ outbox' = Tail(outbox) /\ UNCHANGED dups
         \/ dups < MaxDup /\ dups' = dups + 1 /\ UNCHANGED outbox
      /\ retained' = [retained EXCEPT ![m.bus] = {m}]
      /\ channel' = Append(channel, m) \/ channel' = channel
      /\ UNCHANGED <<tableVars, req, snapshots, cityLoaded, awaiting, task, tripState,
                     gpsPings, finalStops, subscribed, pinged, resets>>
  BY DEF Broker, Deliver
<1>1. m \in StatusMsg /\ Truthful(m) /\ m \in Msg
  <2>1. 1 \in DOMAIN outbox /\ m = outbox[1] /\ m \in StatusMsg
    BY <1>t, <1>0
  <2> QED BY <2>1, MessageTypes DEF LifecycleInv, IInv, StatusTruthful
<1>a. m.bus \in Bus
  BY <1>1 DEF StatusMsg
<1>2. IInv'
  <2>1. CASE outbox' = Tail(outbox)
    BY <1>0, <2>1, SentIInv DEF Sent, LifecycleInv
  <2>2. CASE UNCHANGED outbox
    BY <1>0, <2>2, StutterIInv DEF LifecycleInv, serviceVars
  <2> QED BY <1>0, <2>1, <2>2
<1> HIDE DEF m
<1>3. channel' \in Seq(Msg)
  <2>1. Append(channel, m) \in Seq(Msg)
    BY <1>t, <1>1
  <2> QED BY <1>t, <1>0, <2>1
<1>4. LifecycleTypeOK'
  <2>1. retained' \in [Bus -> SUBSET StatusMsg]
    BY <1>0, <1>1 DEF LifecycleInv, LifecycleTypeOK
  <2>2. dups' \in 0 .. MaxDup
    BY <1>0 DEF LifecycleInv, LifecycleTypeOK
  <2> QED BY <1>0, <1>2, <1>3, <2>1, <2>2
          DEF LifecycleInv, LifecycleTypeOK, PersistTypeOK, IInv
<1>5. Retained' \subseteq Retained \cup {m}
  <2> SUFFICES ASSUME NEW b \in Bus, NEW x \in retained'[b] PROVE x \in Retained \cup {m}
    BY DEF Retained
  <2>1. x \in retained[b] \/ x = m
    BY <1>0, <1>a DEF LifecycleInv, LifecycleTypeOK
  <2> QED BY <2>1 DEF Retained
<1>6. IsFiniteSet(Retained)'
  BY <1>5, FS_AddElement, FS_Subset DEF LifecycleInv
<1>7. \A i \in DOMAIN channel' : channel'[i].event # "ping" => Truthful(channel'[i])
  <2> SUFFICES ASSUME NEW i \in DOMAIN channel', channel'[i].event # "ping"
               PROVE  Truthful(channel'[i])
    OBVIOUS
  <2>1. (i \in DOMAIN channel /\ channel'[i] = channel[i]) \/ channel'[i] = m
    BY <1>t, <1>0, <1>1
  <2> QED BY <1>1, <2>1 DEF LifecycleInv, MessagesTruthful
<1> QED BY <1>0, <1>1, <1>2, <1>4, <1>5, <1>6, <1>7, Outside

LEMMA BusPingInv ==
  ASSUME LifecycleInv, NEW b \in Bus, NEW d \in Dir, BusPing(b, d)
  PROVE  LifecycleInv'
<1> DEFINE m == [event |-> "ping", bus |-> b, dir |-> d, trip |-> NoTrip]
<1>0. /\ channel \in Seq(Msg) /\ pinged < MaxPing /\ pinged' = pinged + 1
      /\ channel' = Append(channel, m) \/ channel' = channel
      /\ UNCHANGED <<serviceVars, cityLoaded, awaiting, task, tripState, gpsPings, finalStops,
                     subscribed, retained, dups, resets>>
  BY DEF BusPing, Deliver, LifecycleInv, LifecycleTypeOK, PersistTypeOK
<1>1. m \in Msg /\ m.event = "ping"
  BY DEF Msg
<1>2. IInv' /\ UNCHANGED tableVars
  BY <1>0, StutterIInv DEF LifecycleInv, serviceVars
<1> HIDE DEF m
<1>3. channel' \in Seq(Msg)
  BY <1>0, <1>1
<1>4. LifecycleTypeOK'
  <2>1. pinged' \in 0 .. MaxPing
    BY <1>0 DEF LifecycleInv, LifecycleTypeOK
  <2> QED BY <1>0, <1>2, <1>3, <2>1 DEF LifecycleInv, LifecycleTypeOK, PersistTypeOK, IInv
<1>5. Retained' = Retained
  BY <1>0 DEF Retained
<1>7. \A i \in DOMAIN channel' : channel'[i].event # "ping" => Truthful(channel'[i])
  <2> SUFFICES ASSUME NEW i \in DOMAIN channel', channel'[i].event # "ping"
               PROVE  Truthful(channel'[i])
    OBVIOUS
  <2>1. i \in DOMAIN channel /\ channel'[i] = channel[i]
    BY <1>0, <1>1
  <2> QED BY <2>1 DEF LifecycleInv, MessagesTruthful
<1> QED BY <1>0, <1>2, <1>4, <1>5, <1>7, Outside DEF LifecycleInv

LEMMA SubscribeInv ==
  ASSUME LifecycleInv, Subscribe
  PROVE  LifecycleInv'
<1>0. /\ subscribed' = TRUE /\ channel' \in Orders(Retained)
      /\ UNCHANGED <<serviceVars, cityLoaded, awaiting, task, tripState, gpsPings, finalStops,
                     retained, pinged, dups, resets>>
  BY DEF Subscribe
<1>1. IInv' /\ UNCHANGED tableVars
  BY <1>0, StutterIInv DEF LifecycleInv, serviceVars
<1>2. Retained \subseteq Msg
  BY MessageTypes DEF Retained, LifecycleInv, LifecycleTypeOK
<1>3. channel' \in Seq(Msg) /\ \A i \in DOMAIN channel' : channel'[i] \in Retained
  <2>1. Cardinality(Retained) \in Nat
    BY FS_CardinalityType DEF LifecycleInv
  <2>2. channel' \in [1 .. Cardinality(Retained) -> Retained]
    BY <1>0 DEF Orders
  <2>3. channel' \in [1 .. Cardinality(Retained) -> Msg]
    BY <1>2, <2>2
  <2> QED BY <2>1, <2>2, <2>3
<1>4. LifecycleTypeOK'
  BY <1>0, <1>1, <1>3 DEF LifecycleInv, LifecycleTypeOK, PersistTypeOK, IInv
<1>5. Retained' = Retained
  BY <1>0 DEF Retained
<1>6. \A i \in DOMAIN channel' : Truthful(channel'[i])
  BY <1>3 DEF LifecycleInv, MessagesTruthful
<1> QED BY <1>0, <1>1, <1>4, <1>5, <1>6, Outside DEF LifecycleInv

LEMMA DisconnectInv ==
  ASSUME LifecycleInv, Disconnect \/ ProcessorRestart
  PROVE  LifecycleInv'
<1>0. /\ resets < MaxReset /\ resets' = resets + 1 /\ subscribed' = FALSE /\ channel' = <<>>
      /\ UNCHANGED <<serviceVars, gpsPings, finalStops, retained, pinged, dups>>
  BY DEF Disconnect, ProcessorRestart
<1>1. \/ UNCHANGED <<cityLoaded, awaiting, task, tripState>>
      \/ Boot
  BY DEF Disconnect, ProcessorRestart
<1>2. IInv' /\ UNCHANGED tableVars
  BY <1>0, StutterIInv DEF LifecycleInv, serviceVars
<1>3. IdleTask \in TaskRecord /\ NoState \in TripState
  BY DEF IdleTask, TaskRecord, TaskPc, NoState, TripState
<1>4. /\ cityLoaded' \in BOOLEAN /\ awaiting' \in Seq(Msg)
      /\ task' \in [Task -> TaskRecord] /\ tripState' \in [Bus -> TripState]
      /\ \A k \in Task : task'[k] = task[k] \/ task'[k] = IdleTask
      /\ \A b \in Bus : tripState'[b] = tripState[b] \/ tripState'[b] = NoState
  <2>1. CASE Boot
    BY <1>3, <2>1 DEF Boot
  <2>2. CASE UNCHANGED <<cityLoaded, awaiting, task, tripState>>
    BY <2>2 DEF LifecycleInv, LifecycleTypeOK, PersistTypeOK
  <2> QED BY <1>1, <2>1, <2>2
<1>5. LifecycleTypeOK'
  <2>1. resets' \in 0 .. MaxReset
    BY <1>0 DEF LifecycleInv, LifecycleTypeOK
  <2>2. channel' \in Seq(Msg)
    BY <1>0
  <2> QED BY <1>0, <1>2, <1>4, <2>1, <2>2
          DEF LifecycleInv, LifecycleTypeOK, PersistTypeOK, IInv
<1>6. Retained' = Retained /\ DOMAIN channel' = {}
  BY <1>0 DEF Retained
<1> QED BY <1>0, <1>2, <1>4, <1>5, <1>6, Outside DEF LifecycleInv

LEMMA LifecycleStep == LifecycleInv /\ [LifecycleNext]_lifecycleVars => LifecycleInv'
<1> SUFFICES ASSUME LifecycleInv, [LifecycleNext]_lifecycleVars PROVE LifecycleInv'
  OBVIOUS
<1>1. CASE UNCHANGED lifecycleVars
  <2>1. IInv' /\ UNCHANGED tableVars
    BY <1>1, StutterIInv DEF LifecycleInv, lifecycleVars, serviceVars
  <2> QED BY <1>1, <2>1, Outside
          DEF LifecycleInv, LifecycleTypeOK, PersistTypeOK, IInv, lifecycleVars, persistVars,
              brokerVars, Retained, MessagesTruthful
<1> QED BY <1>1, GatewayStep, ProcessorStep, BrokerInv, BusPingInv, SubscribeInv, DisconnectInv
        DEF LifecycleNext

LEMMA LifecycleStart == LifecycleInit => LifecycleInv
<1> SUFFICES ASSUME LifecycleInit PROVE LifecycleInv
  OBVIOUS
<1>1. IInv
  BY InitIInv DEF LifecycleInit
<1>2. IdleTask \in TaskRecord /\ NoState \in TripState /\ TaskOK(trips, IdleTask)
  BY DEF IdleTask, TaskRecord, TaskPc, NoState, TripState, TaskOK
<1>3. LifecycleTypeOK
  <2>1. PersistTypeOK
    <3>1. finalStops \in [TripId -> 0 .. MaxFinal]
      BY DEF LifecycleInit, PersistInit
    <3> QED BY <1>2, <3>1 DEF LifecycleInit, PersistInit, PersistTypeOK
  <2>2. retained \in [Bus -> SUBSET StatusMsg]
    BY DEF LifecycleInit
  <2>3. TypeOK
    BY <1>1 DEF IInv
  <2>4. subscribed \in BOOLEAN
    BY Zenon DEF LifecycleInit
  <2>5. pinged \in 0 .. MaxPing /\ dups \in 0 .. MaxDup /\ resets \in 0 .. MaxReset
    BY DEF LifecycleInit
  <2> QED BY <2>1, <2>2, <2>3, <2>4, <2>5 DEF LifecycleTypeOK
<1>4. Retained = {} /\ channel = <<>>
  BY DEF LifecycleInit, PersistInit, Retained
<1>5. MessagesTruthful /\ IsFiniteSet(Retained)
  BY <1>1, <1>4, FS_EmptySet DEF MessagesTruthful, IInv
<1>6. CacheBound /\ PingsBound /\ TasksBound
  BY <1>2 DEF LifecycleInit, PersistInit, CacheBound, EntryOK, PingsBound, TasksBound
<1> QED BY <1>1, <1>3, <1>5, <1>6 DEF LifecycleInv

LEMMA LifecycleInvariance == LifecycleSafe => []LifecycleInv
  BY LifecycleStart, LifecycleStep, PTL DEF LifecycleSafe

----------------------------------------------------------------------------

(* Every variable keeps its type.                                          *)
THEOREM LifecycleTypes == LifecycleSafe => []LifecycleTypeOK
<1>1. LifecycleInv => LifecycleTypeOK
  BY DEF LifecycleInv
<1> QED BY <1>1, LifecycleInvariance, PTL

(* Whatever is lost, repeated, replayed to a new subscription or handled   *)
(* late: no status message queued, retained or in transit contradicts the  *)
(* trips table.                                                            *)
THEOREM TruthfulMessages == LifecycleSafe => []MessagesTruthful
<1>1. LifecycleInv => MessagesTruthful
  BY DEF LifecycleInv
<1> QED BY <1>1, LifecycleInvariance, PTL

(* However adoption, retirement and inference interleave, a position is    *)
(* filed only under a trip of its bus and direction.                       *)
THEOREM PingsOnTheirTrip == LifecycleSafe => []TripStateMatchesTable
<1>1. LifecycleInv => TripStateMatchesTable
  <2> SUFFICES ASSUME LifecycleInv PROVE TripStateMatchesTable
    OBVIOUS
  <2>1. \A b \in Bus : tripState[b].trip # NoTrip =>
                         IsTripOf(tripState[b].trip, b, tripState[b].dir)
    BY Entry DEF RowOf, IsTripOf
  <2>2. \A p \in gpsPings : IsTripOf(p.trip, p.bus, p.dir)
    BY DEF LifecycleInv, PingsBound, RowOf, IsTripOf
  <2> QED BY <2>1, <2>2 DEF TripStateMatchesTable
<1> QED BY <1>1, LifecycleInvariance, PTL

(* The gateway's own guarantees survive the stream-processor writing the   *)
(* same rows: once a start has committed, every trip it found running has  *)
(* ended, and a row it has locked is not closed behind its back.           *)
THEOREM StartsAreRespected == LifecycleSafe => [](StartClosesVisible /\ LocksBelongToStarts)
<1>1. LifecycleInv => StartClosesVisible /\ LocksBelongToStarts
  BY DEF LifecycleInv, IInv
<1> QED BY <1>1, LifecycleInvariance, PTL

(* The handlers a step of the stream-processor leaves alone, and the rows  *)
(* it closes.                                                              *)
LEMMA TaskChange ==
  ASSUME LifecycleInv, Processor(PersistNext), NEW k \in Task, task'[k] # task[k],
         NEW t \in DOMAIN trips, trips'[t] # trips[t]
  PROVE  (CloseOld(k) \/ CloseSuperseded(k)) /\ t = task[k].old
<1>1. task \in [Task -> TaskRecord]
  BY DEF LifecycleInv, LifecycleTypeOK, PersistTypeOK
<1>2. ~ReceivePing /\ ~RedisFail /\ \A q \in Task : ~EnsureTrip(q) /\ ~ReceiveStatus(q)
  BY DEF ReceivePing, RedisFail, EnsureTrip, ReceiveStatus, tableVars
<1>3. PICK q \in Task : TaskStep(q)
  BY <1>2 DEF Processor, PersistNext
<1>4. ~InsertTrip(q)
  <2>1. ASSUME InsertTrip(q) PROVE FALSE
    <3>1. task[q].bus \in Bus /\ task[q].dir \in Dir
      BY <2>1, TaskFacts DEF InsertTrip, TaskOK
    <3> QED BY <2>1, <3>1, InsertedRow DEF InsertTrip, LifecycleInv
  <2> QED BY <2>1
<1>5. CloseOld(q) \/ CloseSuperseded(q)
  BY <1>3, <1>4 DEF TaskStep, UpsertTheBus, SetInferred, InsertPing, FinalStop, Retire, Adopt,
       TaskFail, tableVars
<1>6. q = k
  BY <1>1, <1>5 DEF CloseOld, CloseSuperseded, Goto
<1>7. t = task[k].old
  BY <1>5, <1>6 DEF CloseOld, CloseSuperseded, WithStatus
<1> QED BY <1>5, <1>6, <1>7

(* The stream-processor ends a running trip only for another one: a        *)
(* position on another direction, or a trip_start of a different trip.     *)
THEOREM ClosedInFavour == LifecycleSafe => ClosedForAnother
<1> DEFINE A == \A k \in Task, t \in DOMAIN trips :
                  (trips[t].status = "running" /\ trips'[t].status # "running"
                     /\ task'[k] # task[k])
                    => task[k].dir # trips[t].dir \/ task[k].new \notin {NoTrip, t}
<1>1. LifecycleInv /\ [LifecycleNext]_lifecycleVars => [A]_lifecycleVars
  <2> SUFFICES ASSUME LifecycleInv, LifecycleNext, NEW k \in Task, NEW t \in DOMAIN trips,
                      trips[t].status = "running", trips'[t].status # "running",
                      task'[k] # task[k]
               PROVE  task[k].dir # trips[t].dir \/ task[k].new \notin {NoTrip, t}
    OBVIOUS
  <2>1. Processor(PersistNext)
    BY DEF LifecycleNext, Gateway, persistVars, Broker, BusPing, Subscribe, Disconnect,
           ProcessorRestart, serviceVars, tableVars
  <2>2. (CloseOld(k) \/ CloseSuperseded(k)) /\ t = task[k].old
    BY <2>1, TaskChange
  <2>3. TaskOK(trips, task[k])
    BY TaskFacts
  <2>4. CASE CloseOld(k)
    BY <2>2, <2>3, <2>4 DEF CloseOld, TaskOK
  <2>5. CASE CloseSuperseded(k)
    <3>1. RowOf(trips, task[k].new, task[k].bus, task[k].dir) /\ task[k].old # task[k].new
      BY <2>3, <2>5 DEF CloseSuperseded, TaskOK
    <3>2. task[k].new # NoTrip
      BY <3>1, NullIsNoRow DEF LifecycleInv, RowOf
    <3> QED BY <2>2, <3>1, <3>2
  <2> QED BY <2>2, <2>4, <2>5
<1> QED BY <1>1, LifecycleInvariance, PTL DEF LifecycleSafe, ClosedForAnother
=============================================================================
