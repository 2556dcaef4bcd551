------------------------ MODULE TripsService_proofs ------------------------
(***************************************************************************)
(* Proofs about TripsService, for any number of buses, directions,         *)
(* concurrent requests and trips.                                          *)
(***************************************************************************)
EXTENDS TripsService, TLAPS

(* What a request in progress relies on while others run between its       *)
(* queries.                                                                *)
RequestInv(r) ==
    /\ req[r].pc \in {"startUpdate", "startLock", "startInsert", "startCommit", "startPublish"}
         => req[r].bus \in Bus /\ req[r].dir \in Dir
    /\ req[r].pc \in {"startLock", "startInsert", "startCommit"}
         => \A t \in req[r].saw : t \in DOMAIN trips /\ trips[t].bus = req[r].bus
    /\ req[r].pc \in {"startInsert", "startCommit"}
         => \A t \in req[r].saw : trips[t].status # "running" \/ rowLock[t] = r
    /\ req[r].pc = "startCommit"
         => /\ req[r].trip \in TripId /\ req[r].trip < nextTrip
            /\ req[r].trip \notin DOMAIN trips
    /\ req[r].pc = "startPublish" => Truthful(Status("trip_start", r))
    /\ req[r].pc \in {"endUpdate", "endPublish"}
         => /\ req[r].trip \in DOMAIN trips /\ req[r].status \in Ended
            /\ trips[req[r].trip].bus = req[r].bus /\ trips[req[r].trip].dir = req[r].dir
    /\ req[r].pc = "endPublish" => trips[req[r].trip].status # "running"
    /\ req[r].pc = "tallyInsert" => req[r].trip \in DOMAIN trips

(* Ids come from one sequence: none is committed before it is minted, none *)
(* is minted twice.                                                        *)
IdsInv ==
    /\ \A t \in DOMAIN trips : t < nextTrip
    /\ \A r, q \in Req : (r # q /\ req[r].pc = "startCommit" /\ req[q].pc = "startCommit")
                           => req[r].trip # req[q].trip

IInv ==
    /\ TypeOK
    /\ IdsInv
    /\ \A r \in Req : RequestInv(r)
    /\ LocksBelongToStarts
    /\ StartClosesVisible
    /\ StatusTruthful

USE TableAssumption

LEMMA InitIInv == Init => IInv
  BY DEF Init, TableInit, Idle, IInv, TypeOK, TableTypeOK, Request, ReqPc, TripRow,
         TripStatus, Ended, TripId, NoTrip, IdsInv, RequestInv, LocksBelongToStarts,
         StartClosesVisible, StatusTruthful, Snapshot

LEMMA StartRequestIInv ==
  ASSUME IInv, NEW r \in Req, NEW b \in Bus, NEW d \in Dir, StartRequest(r, b, d)
  PROVE  IInv'
<1>1. TypeOK'
  BY DEF IInv, StartRequest, Idle, TypeOK, TableTypeOK, Request, ReqPc, UpsertBus, TripStatus, Ended
<1>2. IdsInv'
  BY DEF IInv, StartRequest, Idle, TypeOK, IdsInv
<1>3. \A q \in Req : RequestInv(q)'
  BY DEF IInv, StartRequest, Idle, TypeOK, RequestInv, Truthful, Status
<1>4. LocksBelongToStarts'
  BY DEF IInv, StartRequest, Idle, TypeOK, TableTypeOK, LocksBelongToStarts
<1>5. StartClosesVisible' /\ StatusTruthful'
  BY DEF IInv, StartRequest, StartClosesVisible, StatusTruthful, Truthful
<1> QED BY <1>1, <1>2, <1>3, <1>4, <1>5 DEF IInv

LEMMA StartUpdateIInv ==
  ASSUME IInv, NEW r \in Req, StartUpdate(r)
  PROVE  IInv'
<1>0. UNCHANGED <<trips, buses, nextTrip, rowLock, snapshots, outbox>>
  BY DEF StartUpdate, tableVars
<1>1. TypeOK'
  <2>1. Running(req[r].bus) \in SUBSET TripId
    BY DEF IInv, TypeOK, TableTypeOK, Running
  <2>2. [req[r] EXCEPT !.pc = "startLock", !.saw = Running(req[r].bus)] \in Request
    BY <2>1 DEF IInv, TypeOK, Request, ReqPc
  <2>3. req' = [req EXCEPT ![r] = [@ EXCEPT !.pc = "startLock", !.saw = Running(req[r].bus)]]
    BY DEF StartUpdate, IInv, TypeOK
  <2> QED BY <1>0, <2>2, <2>3 DEF IInv, TypeOK, TableTypeOK
<1>2. IdsInv'
  BY <1>0 DEF IInv, StartUpdate, TypeOK, IdsInv
<1>3. \A q \in Req : RequestInv(q)'
  BY <1>0 DEF IInv, StartUpdate, TypeOK, Request, RequestInv, Truthful, Status, Running
<1>4. LocksBelongToStarts'
  BY <1>0 DEF IInv, StartUpdate, TypeOK, TableTypeOK, LocksBelongToStarts
<1>5. StartClosesVisible' /\ StatusTruthful'
  BY <1>0 DEF IInv, StartClosesVisible, StatusTruthful, Truthful
<1> QED BY <1>1, <1>2, <1>3, <1>4, <1>5 DEF IInv

LEMMA StartLockIInv ==
  ASSUME IInv, NEW r \in Req, StartLock(r)
  PROVE  IInv'
<1>0. UNCHANGED <<trips, buses, nextTrip, snapshots, outbox>>
  BY DEF StartLock
<1>1. TypeOK'
  <2>1. rowLock' \in [TripId -> Req \cup {NoReq}]
    BY DEF IInv, StartLock, TypeOK, TableTypeOK
  <2>2. req' \in [Req -> Request]
    <3>1. req \in [Req -> Request]
      BY DEF IInv, TypeOK
    <3>2. [req[r] EXCEPT !.pc = "startInsert"] \in Request
      BY <3>1 DEF Request, ReqPc
    <3>3. req' = [req EXCEPT ![r] = [req[r] EXCEPT !.pc = "startInsert"]]
      BY <3>1 DEF StartLock
    <3> QED BY <3>1, <3>2, <3>3
  <2> QED BY <1>0, <2>1, <2>2 DEF IInv, TypeOK, TableTypeOK
<1>2. IdsInv'
  BY <1>0 DEF IInv, StartLock, TypeOK, IdsInv
<1>3. \A q \in Req : RequestInv(q)'
  BY <1>0 DEF IInv, StartLock, TypeOK, TableTypeOK, Request, RequestInv, Truthful, Status, Unlocked
<1>4. LocksBelongToStarts'
  BY <1>0 DEF IInv, StartLock, TypeOK, TableTypeOK, Request, RequestInv, LocksBelongToStarts
<1>5. StartClosesVisible' /\ StatusTruthful'
  BY <1>0 DEF IInv, StartClosesVisible, StatusTruthful, Truthful
<1> QED BY <1>1, <1>2, <1>3, <1>4, <1>5 DEF IInv

LEMMA StartInsertIInv ==
  ASSUME IInv, NEW r \in Req, StartInsert(r)
  PROVE  IInv'
<1>0. UNCHANGED <<trips, buses, rowLock, snapshots, outbox>> /\ nextTrip \in TripId
  BY DEF StartInsert, IInv, TypeOK, TableTypeOK, TripId
<1>1. TypeOK'
  <2>1. [req[r] EXCEPT !.pc = "startCommit", !.trip = nextTrip] \in Request
    BY <1>0 DEF IInv, TypeOK, Request, ReqPc
  <2>2. req' = [req EXCEPT ![r] = [@ EXCEPT !.pc = "startCommit", !.trip = nextTrip]]
    BY DEF StartInsert, IInv, TypeOK
  <2>3. nextTrip' \in 1 .. (MaxTrip + 1)
    BY <1>0 DEF StartInsert, TripId
  <2> QED BY <1>0, <2>1, <2>2, <2>3 DEF IInv, TypeOK, TableTypeOK
<1>2. IdsInv'
  BY <1>0 DEF IInv, StartInsert, TypeOK, TableTypeOK, IdsInv, RequestInv, TripId
<1>3. \A q \in Req : RequestInv(q)'
  BY <1>0 DEF IInv, StartInsert, TypeOK, TableTypeOK, IdsInv, Request, RequestInv, Truthful,
              Status, TripId
<1>4. LocksBelongToStarts'
  BY <1>0 DEF IInv, StartInsert, TypeOK, TableTypeOK, LocksBelongToStarts
<1>5. StartClosesVisible' /\ StatusTruthful'
  BY <1>0 DEF IInv, StartClosesVisible, StatusTruthful, Truthful
<1> QED BY <1>1, <1>2, <1>3, <1>4, <1>5 DEF IInv

(* What a commit does to each row.                                         *)
LEMMA CommitRows ==
  ASSUME IInv, NEW r \in Req, StartCommit(r)
  PROVE  /\ req[r].trip \in TripId \ DOMAIN trips
         /\ DOMAIN trips' = DOMAIN trips \cup {req[r].trip}
         /\ trips'[req[r].trip] = NewRow(req[r].bus, req[r].dir, FALSE, req[r].saw)
         /\ \A t \in DOMAIN trips :
              /\ rowLock[t] = r => trips'[t] = [trips[t] EXCEPT !.status = "abandoned"]
              /\ rowLock[t] # r => trips'[t] = trips[t]
         /\ trips' = [t \in DOMAIN trips' |-> trips'[t]]
  BY DEF IInv, StartCommit, RequestInv, WithRow, WithStatus, Held

LEMMA StartCommitIInv ==
  ASSUME IInv, NEW r \in Req, StartCommit(r)
  PROVE  IInv'
<1> DEFINE n == req[r].trip
<1>0. /\ n \in TripId \ DOMAIN trips
      /\ DOMAIN trips' = DOMAIN trips \cup {n}
      /\ trips'[n] = NewRow(req[r].bus, req[r].dir, FALSE, req[r].saw)
      /\ \A t \in DOMAIN trips :
           /\ rowLock[t] = r => trips'[t] = [trips[t] EXCEPT !.status = "abandoned"]
           /\ rowLock[t] # r => trips'[t] = trips[t]
      /\ trips' = [t \in DOMAIN trips' |-> trips'[t]]
  BY CommitRows
<1>a. /\ UNCHANGED <<buses, nextTrip, outbox>>
      /\ req' = [req EXCEPT ![r].pc = "startPublish"]
      /\ rowLock' = [t \in TripId |-> IF rowLock[t] = r THEN NoReq ELSE rowLock[t]]
      /\ snapshots' \subseteq snapshots \cup {[trip |-> n, live |-> TRUE]}
  BY DEF StartCommit, Release
<1>b. NewRow(req[r].bus, req[r].dir, FALSE, req[r].saw) \in TripRow
  BY DEF IInv, TypeOK, Request, RequestInv, NewRow, TripRow, TripStatus, StartCommit
<1>c. \A t \in DOMAIN trips : /\ trips'[t] \in TripRow
                              /\ trips'[t].bus = trips[t].bus /\ trips'[t].dir = trips[t].dir
                              /\ trips'[t].inferred = trips[t].inferred
                              /\ trips'[t].saw = trips[t].saw
                              /\ trips[t].status # "running" => trips'[t].status # "running"
  BY <1>0 DEF IInv, TypeOK, TableTypeOK, TripRow, TripStatus, Ended
<1>1. TypeOK'
  <2>1. TableTypeOK'
    <3>1. DOMAIN trips' \subseteq TripId /\ (\A t \in DOMAIN trips' : trips'[t] \in TripRow)
      BY <1>0, <1>b, <1>c DEF IInv, TypeOK, TableTypeOK
    <3>2. rowLock' \in [TripId -> Req \cup {NoReq}]
      BY <1>a DEF IInv, TypeOK, TableTypeOK
    <3> QED BY <1>0, <1>a, <3>1, <3>2 DEF IInv, TypeOK, TableTypeOK
  <2>2. req' \in [Req -> Request]
    <3>1. req \in [Req -> Request]
      BY DEF IInv, TypeOK
    <3>2. [req[r] EXCEPT !.pc = "startPublish"] \in Request
      BY <3>1 DEF Request, ReqPc
    <3>3. req' = [req EXCEPT ![r] = [req[r] EXCEPT !.pc = "startPublish"]]
      BY <1>a, <3>1
    <3> QED BY <3>1, <3>2, <3>3
  <2>3. (snapshots \subseteq Snapshot)' /\ (outbox \in Seq(StatusMsg))'
    <3>1. [trip |-> n, live |-> TRUE] \in Snapshot
      BY <1>0 DEF Snapshot
    <3>2. snapshots' \subseteq Snapshot
      BY <1>a, <3>1 DEF IInv, TypeOK
    <3> QED BY <1>a, <3>2 DEF IInv, TypeOK
  <2> QED BY <2>1, <2>2, <2>3 DEF TypeOK
<1>2. IdsInv'
  <2>1. n < nextTrip
    BY DEF IInv, RequestInv, StartCommit
  <2>2. \A q \in Req : req'[q].pc = "startCommit" => q # r /\ req'[q] = req[q]
    BY <1>a DEF IInv, TypeOK, Request
  <2> QED BY <1>0, <1>a, <2>1, <2>2 DEF IInv, IdsInv
<1>3. \A q \in Req : RequestInv(q)'
  <2> SUFFICES ASSUME NEW q \in Req PROVE RequestInv(q)'
    OBVIOUS
  <2>1. CASE q = r
    BY <2>1, <1>0, <1>a DEF IInv, TypeOK, Request, RequestInv, StartCommit, Truthful, Status,
                            NewRow
  <2>2. CASE q # r
    <3>1. req'[q] = req[q]
      BY <2>2, <1>a DEF IInv, TypeOK
    <3>2. req[q].pc = "startCommit" => req[q].trip # n
      BY <2>2 DEF IInv, IdsInv, StartCommit
    <3>3. \A t \in DOMAIN trips : rowLock[t] = q => rowLock'[t] = q
      BY <2>2, <1>a DEF IInv, TypeOK, TableTypeOK
    <3>4. RequestInv(q)
      BY DEF IInv
    <3>5. Truthful(Status("trip_start", q)) => Truthful(Status("trip_start", q))'
      BY <1>0, <1>c, <3>1 DEF Truthful, Status
    <3>6. req[q].pc \in {"startLock", "startInsert", "startCommit"} =>
            \A t \in req[q].saw : t \in DOMAIN trips' /\ trips'[t].bus = req[q].bus
      BY <1>0, <1>c, <3>4 DEF RequestInv
    <3>7. req[q].pc \in {"startInsert", "startCommit"} =>
            \A t \in req[q].saw : trips'[t].status # "running" \/ rowLock'[t] = q
      BY <1>0, <1>c, <3>3, <3>4 DEF RequestInv
    <3>8. req[q].pc = "startCommit" =>
            /\ req[q].trip \in TripId /\ req[q].trip < nextTrip'
            /\ req[q].trip \notin DOMAIN trips'
      BY <1>0, <1>a, <3>2, <3>4 DEF RequestInv
    <3>9. req[q].pc \in {"endUpdate", "endPublish", "tallyInsert"} =>
            /\ req[q].trip \in DOMAIN trips' /\ trips'[req[q].trip].bus = trips[req[q].trip].bus
            /\ trips'[req[q].trip].dir = trips[req[q].trip].dir
            /\ trips[req[q].trip].status # "running" => trips'[req[q].trip].status # "running"
      BY <1>0, <1>c, <3>4 DEF RequestInv
    <3>10. req[q].pc = "startPublish" => Truthful(Status("trip_start", q))'
      BY <3>4, <3>5 DEF RequestInv
    <3> HIDE DEF n
    <3> QED BY <3>1, <3>4, <3>6, <3>7, <3>8, <3>9, <3>10 DEF RequestInv
  <2> QED BY <2>1, <2>2
<1>4. LocksBelongToStarts'
  <2> SUFFICES ASSUME NEW t \in TripId, rowLock'[t] # NoReq
               PROVE  /\ req'[rowLock'[t]].pc \in {"startInsert", "startCommit"}
                      /\ t \in DOMAIN trips' /\ t \in req'[rowLock'[t]].saw
                      /\ trips'[t].status = "running"
                      /\ trips'[t].bus = req'[rowLock'[t]].bus
    BY DEF LocksBelongToStarts
  <2>1. rowLock[t] # r /\ rowLock'[t] = rowLock[t] /\ rowLock[t] \in Req
    BY <1>a DEF IInv, TypeOK, TableTypeOK
  <2>2. req'[rowLock[t]] = req[rowLock[t]]
    BY <2>1, <1>a DEF IInv, TypeOK
  <2> QED BY <2>1, <2>2, <1>0 DEF IInv, LocksBelongToStarts
<1>5. StartClosesVisible'
  <2> SUFFICES ASSUME NEW u \in DOMAIN trips', NEW t \in trips'[u].saw
               PROVE  t \in DOMAIN trips' /\ trips'[t].status # "running"
    BY DEF StartClosesVisible
  <2>1. CASE u = n
    <3>1. t \in req[r].saw
      BY <2>1, <1>0 DEF NewRow
    <3>2. t \in DOMAIN trips /\ (trips[t].status # "running" \/ rowLock[t] = r)
      BY <3>1 DEF IInv, RequestInv, StartCommit
    <3>3. rowLock[t] = r => trips'[t].status = "abandoned"
      BY <3>2, <1>0 DEF IInv, TypeOK, TableTypeOK, TripRow
    <3> QED BY <1>0, <1>c, <3>2, <3>3
  <2>2. CASE u # n
    BY <2>2, <1>0, <1>c DEF IInv, StartClosesVisible
  <2> QED BY <2>1, <2>2
<1>6. StatusTruthful'
  BY <1>0, <1>a, <1>c DEF IInv, StatusTruthful, Truthful
<1> QED BY <1>1, <1>2, <1>3, <1>4, <1>5, <1>6 DEF IInv

LEMMA StartFailIInv ==
  ASSUME IInv, NEW r \in Req, StartFail(r)
  PROVE  IInv'
<1>0. UNCHANGED <<trips, buses, nextTrip, snapshots, outbox>>
  BY DEF StartFail
<1>1. TypeOK'
  BY <1>0 DEF IInv, StartFail, Release, Idle, TypeOK, TableTypeOK, Request, ReqPc, TripStatus
<1>2. IdsInv'
  BY <1>0 DEF IInv, StartFail, Idle, TypeOK, IdsInv
<1>3. \A q \in Req : RequestInv(q)'
  BY <1>0 DEF IInv, StartFail, Release, Idle, TypeOK, TableTypeOK, RequestInv, Truthful, Status
<1>4. LocksBelongToStarts'
  BY <1>0 DEF IInv, StartFail, Release, TypeOK, TableTypeOK, LocksBelongToStarts
<1>5. StartClosesVisible' /\ StatusTruthful'
  BY <1>0 DEF IInv, StartClosesVisible, StatusTruthful, Truthful
<1> QED BY <1>1, <1>2, <1>3, <1>4, <1>5 DEF IInv

LEMMA AnnounceIInv ==
  ASSUME IInv, NEW r \in Req, NEW e \in {"trip_start", "trip_end"},
         Truthful(Status(e, r)), req[r].pc \notin {"startInsert", "startCommit"},
         Announce(e, r)
  PROVE  IInv'
<1>0. /\ UNCHANGED <<trips, buses, nextTrip, rowLock, snapshots>>
      /\ req' = [req EXCEPT ![r] = Idle]
      /\ outbox' = outbox \/ outbox' = Append(outbox, Status(e, r))
  BY DEF Announce, tableVars
<1>1. TypeOK'
  <2>1. Status(e, r) \in StatusMsg
    BY DEF Truthful, Status, StatusMsg, IInv, TypeOK, TableTypeOK, TripRow
  <2>2. outbox' \in Seq(StatusMsg)
    BY <1>0, <2>1 DEF IInv, TypeOK
  <2>3. req' \in [Req -> Request]
    BY <1>0 DEF IInv, TypeOK, Idle, Request, ReqPc, TripStatus
  <2> QED BY <1>0, <2>2, <2>3 DEF IInv, TypeOK, TableTypeOK
<1>2. IdsInv'
  BY <1>0 DEF IInv, Idle, TypeOK, IdsInv
<1>3. \A q \in Req : RequestInv(q)'
  BY <1>0 DEF IInv, Idle, TypeOK, RequestInv, Truthful, Status
<1>4. LocksBelongToStarts'
  BY <1>0 DEF IInv, TypeOK, TableTypeOK, LocksBelongToStarts
<1>5. StartClosesVisible'
  BY <1>0 DEF IInv, StartClosesVisible
<1>6. StatusTruthful'
  <2>1. CASE outbox' = outbox
    BY <2>1, <1>0 DEF IInv, StatusTruthful, Truthful
  <2>2. CASE outbox' = Append(outbox, Status(e, r))
    <3> SUFFICES ASSUME NEW i \in DOMAIN outbox' PROVE Truthful(outbox[i])'
      BY DEF StatusTruthful
    <3>1. (i \in DOMAIN outbox /\ outbox'[i] = outbox[i]) \/ outbox'[i] = Status(e, r)
      BY <2>2 DEF IInv, TypeOK
    <3>2. Truthful(outbox'[i])
      BY <3>1 DEF IInv, StatusTruthful
    <3> QED BY <3>2, <1>0 DEF Truthful
  <2> QED BY <1>0, <2>1, <2>2
<1> QED BY <1>1, <1>2, <1>3, <1>4, <1>5, <1>6 DEF IInv

LEMMA PublishIInv ==
  ASSUME IInv, NEW r \in Req, StartPublish(r) \/ EndPublish(r)
  PROVE  IInv'
<1>1. CASE StartPublish(r)
  BY <1>1, AnnounceIInv DEF StartPublish, IInv, RequestInv
<1>2. CASE EndPublish(r)
  <2>1. Truthful(Status("trip_end", r))
    BY <1>2 DEF EndPublish, IInv, RequestInv, Truthful, Status
  <2> QED BY <1>2, <2>1, AnnounceIInv DEF EndPublish
<1> QED BY <1>1, <1>2

(* A request that begins by loading a running trip.                        *)
LEMMA LoadIInv ==
  ASSUME IInv, NEW r \in Req, NEW t \in TripId, NEW s \in Ended,
         EndRequest(r, t, s) \/ TallyRequest(r, t)
  PROVE  IInv'
<1>0. UNCHANGED <<trips, buses, nextTrip, rowLock, snapshots, outbox>> /\ t \in DOMAIN trips
  BY DEF EndRequest, TallyRequest, tableVars
<1>a. trips[t].bus \in Bus /\ trips[t].dir \in Dir
  BY <1>0 DEF IInv, TypeOK, TableTypeOK, TripRow
<1>b. PICK v \in Request :
        /\ req' = [req EXCEPT ![r] = v]
        /\ v.pc \in {"endUpdate", "tallyInsert"} /\ v.trip = t
        /\ v.pc = "endUpdate" =>
             v.bus = trips[t].bus /\ v.dir = trips[t].dir /\ v.status \in Ended
  <2>1. CASE EndRequest(r, t, s)
    <3> DEFINE v == [Idle EXCEPT !.pc = "endUpdate", !.bus = trips[t].bus,
                                 !.dir = trips[t].dir, !.trip = t, !.status = s]
    <3>1. /\ v \in Request /\ v.pc = "endUpdate" /\ v.trip = t /\ v.bus = trips[t].bus
          /\ v.dir = trips[t].dir /\ v.status \in Ended
      BY <1>a DEF Idle, Request, ReqPc, TripStatus
    <3>2. req' = [req EXCEPT ![r] = v]
      BY <2>1 DEF EndRequest
    <3> HIDE DEF v
    <3> QED BY <3>1, <3>2
  <2>2. CASE TallyRequest(r, t)
    <3> DEFINE v == [Idle EXCEPT !.pc = "tallyInsert", !.trip = t]
    <3>1. v \in Request /\ v.pc = "tallyInsert" /\ v.trip = t
      BY DEF Idle, Request, ReqPc, TripStatus
    <3>2. req' = [req EXCEPT ![r] = v]
      BY <2>2 DEF TallyRequest
    <3> HIDE DEF v
    <3> QED BY <3>1, <3>2
  <2> QED BY <2>1, <2>2
<1>c. req[r].pc = "idle" /\ req'[r] = v /\ \A q \in Req : q # r => req'[q] = req[q]
  BY <1>b DEF IInv, TypeOK, EndRequest, TallyRequest
<1>1. TypeOK'
  BY <1>0, <1>b DEF IInv, TypeOK, TableTypeOK
<1>2. IdsInv'
  BY <1>0, <1>b, <1>c DEF IInv, IdsInv
<1>3. \A q \in Req : RequestInv(q)'
  BY <1>0, <1>b, <1>c DEF IInv, RequestInv, Truthful, Status
<1>4. LocksBelongToStarts'
  BY <1>0, <1>b, <1>c DEF IInv, TypeOK, TableTypeOK, LocksBelongToStarts
<1>5. StartClosesVisible' /\ StatusTruthful'
  BY <1>0 DEF IInv, StartClosesVisible, StatusTruthful, Truthful
<1> QED BY <1>1, <1>2, <1>3, <1>4, <1>5 DEF IInv

LEMMA EndUpdateIInv ==
  ASSUME IInv, NEW r \in Req, EndUpdate(r)
  PROVE  IInv'
<1> DEFINE n == req[r].trip
<1>0. /\ UNCHANGED <<buses, nextTrip, rowLock, snapshots, outbox>>
      /\ req' = [req EXCEPT ![r].pc = "endPublish"]
      /\ n \in DOMAIN trips /\ req[r].status \in Ended /\ rowLock[n] = NoReq
      /\ DOMAIN trips' = DOMAIN trips
      /\ trips'[n] = [trips[n] EXCEPT !.status = req[r].status]
      /\ \A t \in DOMAIN trips : t # n => trips'[t] = trips[t]
      /\ trips' = [t \in DOMAIN trips' |-> trips'[t]]
  BY DEF EndUpdate, WithStatus, Unlocked, IInv, RequestInv
<1>a. \A t \in DOMAIN trips : /\ trips'[t] \in TripRow
                              /\ trips'[t].bus = trips[t].bus /\ trips'[t].dir = trips[t].dir
                              /\ trips'[t].inferred = trips[t].inferred
                              /\ trips'[t].saw = trips[t].saw
                              /\ trips[t].status # "running" => trips'[t].status # "running"
  BY <1>0 DEF IInv, TypeOK, TableTypeOK, TripRow, TripStatus, Ended
<1>b. trips'[n].status # "running"
  BY <1>0 DEF IInv, TypeOK, TableTypeOK, TripRow, TripStatus, Ended
<1>1. TypeOK'
  <2>1. TableTypeOK'
    BY <1>0, <1>a DEF IInv, TypeOK, TableTypeOK
  <2>2. [req[r] EXCEPT !.pc = "endPublish"] \in Request
    BY DEF IInv, TypeOK, Request, ReqPc
  <2>3. req' \in [Req -> Request]
    BY <1>0, <2>2 DEF IInv, TypeOK
  <2> QED BY <1>0, <2>1, <2>3 DEF IInv, TypeOK
<1>2. IdsInv'
  BY <1>0 DEF IInv, TypeOK, IdsInv
<1>3. \A q \in Req : RequestInv(q)'
  <2> SUFFICES ASSUME NEW q \in Req PROVE RequestInv(q)'
    OBVIOUS
  <2>1. RequestInv(q) /\ (q # r => req'[q] = req[q])
    BY <1>0 DEF IInv, TypeOK
  <2>2. CASE q = r
    <3>1. req'[r].pc = "endPublish" /\ req'[r].trip = n /\ req'[r].status = req[r].status
          /\ req'[r].bus = req[r].bus /\ req'[r].dir = req[r].dir
      BY <1>0 DEF IInv, TypeOK, Request
    <3>2. trips[n].bus = req[r].bus /\ trips[n].dir = req[r].dir
      BY <2>1, <2>2 DEF RequestInv, EndUpdate
    <3> HIDE DEF n
    <3> QED BY <2>2, <3>1, <3>2, <1>0, <1>a, <1>b DEF RequestInv
  <2>3. CASE q # r
    <3> HIDE DEF n
    <3>1. req[q].pc = "startPublish" => Truthful(Status("trip_start", q))'
      BY <2>1, <2>3, <1>0, <1>a DEF RequestInv, Truthful, Status
    <3>2. req[q].pc # "startPublish" => RequestInv(q)'
      BY <2>1, <2>3, <1>0, <1>a DEF RequestInv
    <3>3. req[q].pc = "startPublish" => RequestInv(q)'
      BY <2>1, <2>3, <3>1, <1>0 DEF RequestInv
    <3> QED BY <3>2, <3>3
  <2> QED BY <2>2, <2>3
<1>4. LocksBelongToStarts'
  <2> SUFFICES ASSUME NEW t \in TripId, rowLock[t] # NoReq
               PROVE  /\ req'[rowLock[t]].pc \in {"startInsert", "startCommit"}
                      /\ t \in DOMAIN trips' /\ t \in req'[rowLock[t]].saw
                      /\ trips'[t].status = "running"
                      /\ trips'[t].bus = req'[rowLock[t]].bus
    BY <1>0 DEF LocksBelongToStarts
  <2>1. rowLock[t] \in Req /\ req'[rowLock[t]] = req[rowLock[t]]
    BY <1>0 DEF IInv, TypeOK, TableTypeOK, LocksBelongToStarts, EndUpdate
  <2> QED BY <1>0, <2>1 DEF IInv, LocksBelongToStarts
<1>5. StartClosesVisible' /\ StatusTruthful'
  BY <1>0, <1>a DEF IInv, StartClosesVisible, StatusTruthful, Truthful
<1> QED BY <1>1, <1>2, <1>3, <1>4, <1>5 DEF IInv

(* Requests that finish, and the process that dies.                        *)
LEMMA FinishIInv ==
  ASSUME IInv, NEW r \in Req, TallyInsert(r) \/ QueryFail(r)
  PROVE  IInv'
<1>0. /\ UNCHANGED <<trips, buses, nextTrip, rowLock, outbox>>
      /\ req' = [req EXCEPT ![r] = Idle]
      /\ req[r].pc \in {"endUpdate", "tallyInsert"}
  BY DEF TallyInsert, QueryFail, tableVars
<1>1. TypeOK'
  <2>1. req' \in [Req -> Request]
    BY <1>0 DEF IInv, TypeOK, Idle, Request, ReqPc, TripStatus
  <2>2. snapshots' \subseteq Snapshot
    <3>1. CASE TallyInsert(r)
      <4>1. req[r].trip \in TripId
        BY <3>1 DEF TallyInsert, IInv, RequestInv, TypeOK, TableTypeOK
      <4>2. [trip |-> req[r].trip, live |-> trips[req[r].trip].status = "running"] \in Snapshot
        BY <4>1 DEF Snapshot
      <4> QED BY <3>1, <4>2 DEF TallyInsert, IInv, TypeOK
    <3>2. CASE QueryFail(r)
      BY <3>2 DEF QueryFail, IInv, TypeOK
    <3> QED BY <3>1, <3>2
  <2> QED BY <1>0, <2>1, <2>2 DEF IInv, TypeOK, TableTypeOK
<1>2. IdsInv'
  BY <1>0 DEF IInv, Idle, TypeOK, IdsInv
<1>3. \A q \in Req : RequestInv(q)'
  BY <1>0 DEF IInv, Idle, TypeOK, RequestInv, Truthful, Status
<1>4. LocksBelongToStarts'
  BY <1>0 DEF IInv, TypeOK, TableTypeOK, LocksBelongToStarts
<1>5. StartClosesVisible' /\ StatusTruthful'
  BY <1>0 DEF IInv, StartClosesVisible, StatusTruthful, Truthful
<1> QED BY <1>1, <1>2, <1>3, <1>4, <1>5 DEF IInv

LEMMA GatewayCrashIInv == IInv /\ GatewayCrash => IInv'
<1> SUFFICES ASSUME IInv, GatewayCrash PROVE IInv'
  OBVIOUS
<1>0. /\ UNCHANGED <<trips, buses, nextTrip, snapshots>> /\ outbox' = <<>>
      /\ req' = [r \in Req |-> Idle] /\ rowLock' = [t \in TripId |-> NoReq]
  BY DEF GatewayCrash
<1>1. TypeOK'
  BY <1>0 DEF IInv, TypeOK, TableTypeOK, Idle, Request, ReqPc, TripStatus
<1>2. IdsInv' /\ \A q \in Req : RequestInv(q)'
  BY <1>0 DEF IInv, Idle, IdsInv, RequestInv
<1>3. LocksBelongToStarts' /\ StartClosesVisible' /\ StatusTruthful'
  BY <1>0 DEF IInv, LocksBelongToStarts, StartClosesVisible, StatusTruthful
<1> QED BY <1>1, <1>2, <1>3 DEF IInv

LEMMA SentIInv == IInv /\ Sent => IInv'
<1> SUFFICES ASSUME IInv, Sent PROVE IInv'
  OBVIOUS
<1>0. UNCHANGED <<trips, buses, nextTrip, rowLock, req, snapshots>> /\ outbox' = Tail(outbox)
  BY DEF Sent, tableVars
<1>1. TypeOK' /\ StatusTruthful'
  BY <1>0 DEF IInv, TypeOK, TableTypeOK, Sent, StatusTruthful, Truthful
<1>2. IdsInv' /\ \A q \in Req : RequestInv(q)'
  BY <1>0 DEF IInv, IdsInv, RequestInv, Truthful, Status
<1>3. LocksBelongToStarts' /\ StartClosesVisible'
  BY <1>0 DEF IInv, LocksBelongToStarts, StartClosesVisible
<1> QED BY <1>1, <1>2, <1>3 DEF IInv

LEMMA StutterIInv == IInv /\ UNCHANGED serviceVars => IInv'
  BY DEF serviceVars, tableVars, IInv, TypeOK, TableTypeOK, IdsInv, RequestInv, Truthful, Status,
         LocksBelongToStarts, StartClosesVisible, StatusTruthful

LEMMA ServiceNextIInv == IInv /\ ServiceNext => IInv'
<1> SUFFICES ASSUME IInv, ServiceNext PROVE IInv'
  OBVIOUS
<1>1. ASSUME NEW r \in Req, Arrival(r) PROVE IInv'
  BY <1>1, StartRequestIInv, LoadIInv DEF Arrival, Ended
<1>2. ASSUME NEW r \in Req, Progress(r) PROVE IInv'
  BY <1>2, StartUpdateIInv, StartInsertIInv, StartCommitIInv, PublishIInv, FinishIInv
     DEF Progress
<1>3. ASSUME NEW r \in Req, LockWait(r) PROVE IInv'
  BY <1>3, StartLockIInv, EndUpdateIInv DEF LockWait
<1>4. ASSUME NEW r \in Req, StartFail(r) \/ QueryFail(r) PROVE IInv'
  BY <1>4, StartFailIInv, FinishIInv
<1> QED BY <1>1, <1>2, <1>3, <1>4, GatewayCrashIInv DEF ServiceNext

LEMMA NextIInv == IInv /\ [Next]_serviceVars => IInv'
  BY ServiceNextIInv, SentIInv, StutterIInv DEF Next

(* TypeOK, StartClosesVisible, LocksBelongToStarts and StatusTruthful hold *)
(* in every reachable state, however requests overlap, fail or are cut off *)
(* by a crash of the gateway.                                              *)
THEOREM Safety ==
  SafeSpec => [](TypeOK /\ StartClosesVisible /\ LocksBelongToStarts /\ StatusTruthful)
<1>1. SafeSpec => []IInv
  BY InitIInv, NextIInv, PTL DEF SafeSpec
<1>2. IInv => TypeOK /\ StartClosesVisible /\ LocksBelongToStarts /\ StatusTruthful
  BY DEF IInv
<1> QED BY <1>1, <1>2, PTL

(* However the transactions of two starts interleave, and whoever else     *)
(* ends trips meanwhile: once a start has committed, every trip its UPDATE *)
(* found running for the bus has ended.                                    *)
THEOREM StartsClose == SafeSpec => []StartClosesVisible
<1>1. TypeOK /\ StartClosesVisible /\ LocksBelongToStarts /\ StatusTruthful => StartClosesVisible
  OBVIOUS
<1> QED BY <1>1, Safety, PTL

(* A row no end request is changing is only changed by a commit, and it is *)
(* the owner of the row's lock that commits.                               *)
LEMMA RowChange ==
  ASSUME IInv, Next, NEW t \in DOMAIN trips, ~EndedByRequest(t), trips'[t] # trips[t]
  PROVE  \E r \in Req : StartCommit(r) /\ rowLock[t] = r
<1>1. ASSUME NEW r \in Req, EndUpdate(r) PROVE FALSE
  <2>1. trips'[t] = trips[t] \/ req[r].trip = t
    BY <1>1 DEF EndUpdate, WithStatus
  <2>2. req[r].pc = "endUpdate" /\ req'[r].pc = "endPublish"
    BY <1>1 DEF EndUpdate, IInv, TypeOK, Request
  <2> QED BY <2>1, <2>2 DEF EndedByRequest
<1>2. ASSUME UNCHANGED trips PROVE FALSE
  BY <1>2
<1>3. \A r \in Req : ~Arrival(r) /\ ~StartFail(r) /\ ~QueryFail(r)
  BY <1>2 DEF Arrival, StartRequest, EndRequest, TallyRequest, StartFail, QueryFail, tableVars
<1>4. ~GatewayCrash /\ ~Sent
  BY <1>2 DEF GatewayCrash, Sent, tableVars
<1>5. PICK r \in Req : Progress(r) \/ LockWait(r)
  BY <1>3, <1>4 DEF Next, ServiceNext
<1>6. StartCommit(r)
  BY <1>1, <1>2, <1>5 DEF Progress, LockWait, StartUpdate, StartInsert, StartPublish, EndPublish,
       Announce, TallyInsert, StartLock, tableVars
<1> QED BY <1>6, CommitRows

(* A trip not ended by its driver ends in the step that opens its successor: *)
(* nobody, client or stream-processor, ever reads the bus between its two  *)
(* trips.                                                                  *)
THEOREM Atomicity == SafeSpec => AbandonIsAtomic
<1> DEFINE A == \A t \in DOMAIN trips :
                  (trips[t].status = "running" /\ trips'[t].status # "running"
                     /\ ~EndedByRequest(t)) =>
                  \E u \in DOMAIN trips' \ DOMAIN trips :
                      t \in trips'[u].saw /\ trips'[u].bus = trips[t].bus
<1>1. IInv /\ [Next]_serviceVars => [A]_serviceVars
  <2> SUFFICES ASSUME IInv, Next, NEW t \in DOMAIN trips, ~EndedByRequest(t),
                      trips[t].status = "running", trips'[t].status # "running"
               PROVE  \E u \in DOMAIN trips' \ DOMAIN trips :
                          t \in trips'[u].saw /\ trips'[u].bus = trips[t].bus
    OBVIOUS
  <2>1. PICK r \in Req : StartCommit(r) /\ rowLock[t] = r
    BY RowChange
  <2>2. /\ req[r].trip \in DOMAIN trips' \ DOMAIN trips
        /\ trips'[req[r].trip] = NewRow(req[r].bus, req[r].dir, FALSE, req[r].saw)
    BY <2>1, CommitRows
  <2>3. t \in req[r].saw /\ trips[t].bus = req[r].bus
    BY <2>1 DEF IInv, LocksBelongToStarts, TypeOK, TableTypeOK
  <2> QED BY <2>2, <2>3 DEF NewRow
<1>2. SafeSpec => []IInv
  BY InitIInv, NextIInv, PTL DEF SafeSpec
<1> QED BY <1>1, <1>2, PTL DEF SafeSpec, AbandonIsAtomic
============================================================================
