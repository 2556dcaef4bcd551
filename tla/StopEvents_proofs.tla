------------------------- MODULE StopEvents_proofs -------------------------
(***************************************************************************)
(* Proofs about StopEvents, for any route, any number of handlers in       *)
(* progress, positions and TripState objects.                              *)
(*                                                                         *)
(* One alert per episode holds whatever overlaps, because a handler sets   *)
(* `alerted` before it awaits its INSERT and an episode begins at a        *)
(* message that is looked at once (AlertsInv).  That no position in it was *)
(* back on the route holds while handlers do not overlap; the order of the *)
(* stops while besides positions come in order; the invariants that carry  *)
(* them say so (Calm...).  The balance of boardings and alightings at the  *)
(* end (BalanceInv) is a sum over the rows that were answered, and grows   *)
(* by what the next row adds (EventMore).                                  *)
(***************************************************************************)
EXTENDS StopEvents, SumTheorems, FiniteSetTheorems, TLAPS

Busied(k) == task[k].pc # "idle"
Working(k) == task[k].pc \in {"ping", "stopInsert"}
Pending(k) == task[k].pc = "alertInsert"

(* Message n has been received, and no handler has its position to look    *)
(* at any more.                                                            *)
Done(n) == n \in 1 .. received /\ \A k \in Task : Working(k) => task[k].ping.no # n

(* What a handler will write has its type, its position has been received. *)
HandlersInv == \A k \in Task :
    /\ Busied(k) => /\ task[k].obj \in 1 .. made /\ task[k].ping.no \in 1 .. received
                    /\ task[k].ping.at \in 1 .. clock
    /\ task[k].pc \in {"stopInsert", "final"} =>
         task[k].reached \in Stop /\ task[k].boarding \in Occ /\ task[k].alighting \in Occ

(* Nothing is about a message yet to come; no two handlers look at one.    *)
NumbersInv ==
    /\ \A o \in 1 .. made : /\ objects[o].trip \in 1 .. made
                            /\ objects[o].since # 0 => objects[o].began # 0
    /\ \A e \in back : e.no \in 1 .. received
    /\ \A a \in alerts : a.obj \in 1 .. made /\ a.no \in 1 .. received
    /\ \A e \in stopEvents :
         e.trip \in 1 .. made /\ e.no \in 1 .. received /\ e.at \in 1 .. clock
    /\ \A k, q \in Task :
         (Working(k) /\ Working(q) /\ task[k].ping.no = task[q].ping.no) => k = q

(* An alert, raised or still being inserted, belongs to an episode that    *)
(* its object has marked or left; no episode has two.                      *)
Episode(o, n) == Done(n) /\ (objects[o].began = n => objects[o].alerted)
Long(s, t) == t - s >= Sustained

AlertsInv ==
    /\ \A o \in 1 .. made : objects[o].began # 0 => Done(objects[o].began)
    /\ \A a \in alerts : Episode(a.obj, a.began) /\ Long(a.since, a.at)
    /\ \A k \in Task : Pending(k) =>
         /\ Episode(task[k].obj, task[k].began) /\ Long(task[k].since, task[k].ping.at)
         /\ \A a \in alerts : ~(a.obj = task[k].obj /\ a.began = task[k].began)
         /\ \A q \in Task : (Pending(q) /\ q # k) =>
              ~(task[q].obj = task[k].obj /\ task[q].began = task[k].began)
    /\ \A a, b \in alerts : (a.obj = b.obj /\ a.began = b.began) => a = b

Writing(k) == task[k].pc \in {"ping", "stopInsert", "final"}

CalmHandlers == ~overlapped =>
    /\ \A k, q \in Task : (Busied(k) /\ Busied(q)) => k = q
    /\ \A k \in Task : Busied(k) => /\ task[k].obj = current /\ task[k].ping.no = received
                                    /\ ~late => task[k].ping.at = clock
    /\ \A k \in Task : Writing(k) => \A e \in stopEvents : e.no < received
    /\ \A k \in Task : Working(k) =>
         /\ (~late /\ task[k].ping.next # NoStop) => task[k].ping.next = ahead
         /\ \A e \in back : e.no < received
         /\ \A a \in alerts : a.no < received

(* No position of the object that was looked at, of messages m to n, was   *)
(* back on the route.                                                      *)
Off(o, m, n) == \A e \in back : e.obj = o => e.no \notin m .. n

CalmAlerts == ~overlapped =>
    /\ \A o \in 1 .. made : objects[o].since # 0 => Off(o, objects[o].began, received)
    /\ \A k \in Task : Pending(k) => Off(task[k].obj, task[k].began, task[k].ping.no)
    /\ \A a \in alerts : Off(a.obj, a.began, a.no)

(* The stops recorded for the current trip are behind the one its object   *)
(* is approaching, or that one's row was not answered.                     *)
Behind(e, s) == e.stop < s \/ (e.stop = s /\ ~e.answered)

InOrder(e, f) ==
    (e.trip = f.trip /\ e # f)
        => \/ e.at < f.at /\ Behind(e, f.stop)
           \/ f.at < e.at /\ Behind(f, e.stop)

CalmStops == (~overlapped /\ ~late) =>
    /\ \A k \in Task : Writing(k) => \A e \in stopEvents : e.at < clock
    /\ \A k \in Task : task[k].pc \in {"stopInsert", "final"} =>
         task[k].reached = objects[task[k].obj].last
    /\ \A k \in Task : task[k].pc = "stopInsert" =>
         task[k].ping.next \notin {NoStop, task[k].reached}
    /\ current # 0 =>
         /\ objects[current].last <= ahead
         /\ \A e \in stopEvents : e.trip = objects[current].trip =>
              /\ e.stop < ahead
              /\ objects[current].last # NoStop => Behind(e, objects[current].last)
    /\ \A e, f \in stopEvents : InOrder(e, f)

IInv == /\ StopEventsTypeOK /\ HandlersInv /\ NumbersInv /\ AlertsInv
        /\ CalmHandlers /\ CalmAlerts /\ CalmStops

USE StopAssumption

LEMMA Numbers ==
  /\ Stop \subseteq Nat /\ Obj \subseteq Nat /\ Time \subseteq Nat /\ Occ \subseteq Nat
  /\ Message \subseteq Nat /\ 0 \in Message
  /\ NoStop \notin Stop /\ NoStop = 0 /\ 0 \in Time /\ 0 \in Occ
  BY DEF Stop, Obj, Time, Occ, Message, NoStop

LEMMA Idles == IdleTask \in TaskRecord /\ IdleTask.pc = "idle"
  BY Numbers DEF IdleTask, TaskRecord, NoPing, Ping

(* maybeRecordDeviation marks, opens, closes or leaves an episode.         *)
LEMMA Deviations ==
  ASSUME NEW o \in TripState, NEW m \in Ping
  PROVE  /\ Deviated(o, m) \in TripState
         /\ Deviated(o, m).last = o.last /\ Deviated(o, m).trip = o.trip
         /\ RaisesAlert(o, m) =>
              /\ ~OnRoute(m) /\ o.since # 0 /\ ~o.alerted /\ Long(o.since, m.at)
              /\ Deviated(o, m).since = o.since /\ Deviated(o, m).began = o.began
              /\ Deviated(o, m).alerted
         /\ ~RaisesAlert(o, m) =>
              \/ /\ Deviated(o, m).since = o.since /\ Deviated(o, m).began = o.began
                 /\ Deviated(o, m).alerted = o.alerted
                 /\ o.since # 0 => ~OnRoute(m)
              \/ Deviated(o, m).since = 0 /\ Deviated(o, m).began = 0
              \/ /\ Deviated(o, m).since = m.at /\ Deviated(o, m).began = m.no
                 /\ o.since = 0 /\ ~OnRoute(m)
<1>0. o.since \in Time /\ m.at \in Time /\ m.no \in Message
  BY DEF TripState, Ping
<1>1. CASE m.next = NoStop
  <2>1. Deviated(o, m) = o /\ ~RaisesAlert(o, m)
    BY <1>1 DEF Deviated, RaisesAlert
  <2> QED BY <1>1, <2>1 DEF OnRoute
<1>2. CASE m.next # NoStop /\ ~m.off
  <2>1. Deviated(o, m) = [o EXCEPT !.since = 0, !.began = 0, !.alerted = FALSE] /\ ~RaisesAlert(o, m)
    BY <1>2 DEF Deviated, RaisesAlert
  <2> QED BY <2>1, Numbers DEF TripState
<1>3. CASE m.next # NoStop /\ m.off /\ o.since = 0
  <2>1. Deviated(o, m) = [o EXCEPT !.since = m.at, !.began = m.no] /\ ~RaisesAlert(o, m)
    BY <1>3 DEF Deviated, RaisesAlert
  <2> QED BY <1>0, <1>3, <2>1 DEF TripState, OnRoute
<1>4. CASE m.next # NoStop /\ m.off /\ o.since # 0 /\ RaisesAlert(o, m)
  <2>1. Deviated(o, m) = [o EXCEPT !.alerted = TRUE]
    BY <1>4 DEF Deviated
  <2>2. ~o.alerted /\ Long(o.since, m.at)
    BY <1>4 DEF RaisesAlert, Long
  <2> QED BY <1>4, <2>1, <2>2 DEF TripState, OnRoute
<1>5. CASE m.next # NoStop /\ m.off /\ o.since # 0 /\ ~RaisesAlert(o, m)
  <2>1. Deviated(o, m) = o
    BY <1>5 DEF Deviated
  <2> QED BY <1>5, <2>1 DEF OnRoute
<1> QED BY <1>1, <1>2, <1>3, <1>4, <1>5

----------------------------------------------------------------------------
(* The only handler in progress, while handlers do not overlap.            *)
LEMMA Alone ==
  ASSUME IInv, ~overlapped, NEW k \in Task, Busied(k)
  PROVE  /\ \A q \in Task : Busied(q) => q = k
         /\ task[k].obj = current /\ task[k].ping.no = received
         /\ ~late => task[k].ping.at = clock
         /\ Writing(k) => \A e \in stopEvents : e.no < received
         /\ Working(k) => /\ (~late /\ task[k].ping.next # NoStop) => task[k].ping.next = ahead
                          /\ \A e \in back : e.no < received
                          /\ \A a \in alerts : a.no < received
<1>1. \A q \in Task : Busied(q) => q = k
  BY DEF IInv, CalmHandlers
<1>2. task[k].obj = current /\ task[k].ping.no = received /\ (~late => task[k].ping.at = clock)
  BY DEF IInv, CalmHandlers
<1>3. Writing(k) => \A e \in stopEvents : e.no < received
  BY DEF IInv, CalmHandlers
<1>4. ASSUME Working(k)
      PROVE  /\ (~late /\ task[k].ping.next # NoStop) => task[k].ping.next = ahead
             /\ \A e \in back : e.no < received
             /\ \A a \in alerts : a.no < received
  BY <1>4 DEF IInv, CalmHandlers
<1> QED BY <1>1, <1>2, <1>3, <1>4

(* The part of a handler after maybeRecordStopEvent, which left the object *)
(* as o.                                                                   *)
Continuing(k, o) ==
    /\ Working(k) /\ Continue(k, o)
    /\ o \in TripState /\ o.trip = objects[task[k].obj].trip
    /\ o.since = objects[task[k].obj].since /\ o.alerted = objects[task[k].obj].alerted
    /\ o.began = objects[task[k].obj].began
    /\ UNCHANGED <<made, current, alerts, received, clock, ahead, overlapped, late>>

LEMMA ContinueFacts ==
  ASSUME IInv, NEW k \in Task, NEW o, Continuing(k, o)
  PROVE  /\ task[k].obj \in 1 .. made /\ task[k].ping \in Ping
         /\ task[k].ping.at \in 1 .. clock /\ task[k].ping.no \in 1 .. received
         /\ objects' \in [1 .. made -> TripState]
         /\ objects'[task[k].obj] = Deviated(o, task[k].ping)
         /\ \A j \in 1 .. made : j # task[k].obj => objects'[j] = objects[j]
         /\ task' \in [Task -> TaskRecord]
         /\ \A q \in Task : q # k => task'[q] = task[q]
         /\ task'[k] = IdleTask \/ task'[k].pc = "alertInsert"
         /\ Pending(k)' <=> RaisesAlert(o, task[k].ping)
         /\ Pending(k)' => /\ task'[k].obj = task[k].obj /\ task'[k].ping = task[k].ping
                           /\ task'[k].since = o.since /\ task'[k].began = o.began
         /\ back' = IF OnRoute(task[k].ping)
                    THEN back \cup {[no |-> task[k].ping.no, obj |-> task[k].obj]} ELSE back
         /\ back' \subseteq [no : Message, obj : Obj]
<1>1. /\ task \in [Task -> TaskRecord] /\ task[k] \in TaskRecord
      /\ objects \in [1 .. made -> TripState] /\ back \subseteq [no : Message, obj : Obj]
      /\ made \in 0 .. MaxObj
  BY DEF IInv, StopEventsTypeOK
<1>2. /\ task[k].obj \in 1 .. made /\ task[k].ping \in Ping /\ task[k].ping.at \in 1 .. clock
      /\ task[k].ping.no \in 1 .. received /\ task[k].ping.no \in Message
  BY <1>1 DEF IInv, HandlersInv, Continuing, Busied, Working, TaskRecord, Ping
<1>3. /\ o \in TripState
      /\ objects' = [objects EXCEPT ![task[k].obj] = Deviated(o, task[k].ping)]
      /\ back' = IF OnRoute(task[k].ping)
                 THEN back \cup {[no |-> task[k].ping.no, obj |-> task[k].obj]} ELSE back
  BY DEF Continuing, Continue
<1>4. Deviated(o, task[k].ping) \in TripState
  BY <1>2, <1>3, Deviations
<1>5. task[k].obj \in Obj
  BY <1>1, <1>2 DEF Obj
<1>8. back' \subseteq [no : Message, obj : Obj]
  BY <1>1, <1>2, <1>3, <1>5
<1>6. CASE RaisesAlert(o, task[k].ping)
  <2> DEFINE w == [task[k] EXCEPT !.pc = "alertInsert", !.since = o.since, !.began = o.began]
  <2>1. w \in TaskRecord /\ w.pc = "alertInsert" /\ w.obj = task[k].obj
        /\ w.ping = task[k].ping /\ w.since = o.since /\ w.began = o.began
    BY <1>1, <1>3 DEF TaskRecord, TripState
  <2>2. task' = [task EXCEPT ![k] = w]
    BY <1>1, <1>6 DEF Continuing, Continue
  <2> HIDE DEF w
  <2>3. task'[k] = w
    BY <1>1, <2>2
  <2> QED BY <1>1, <1>2, <1>3, <1>4, <1>6, <1>8, <2>1, <2>2, <2>3 DEF Pending
<1>7. CASE ~RaisesAlert(o, task[k].ping)
  <2>2. task' = [task EXCEPT ![k] = IdleTask]
    BY <1>1, <1>7 DEF Continuing, Continue
  <2>3. task'[k] = IdleTask
    BY <1>1, <2>2
  <2> QED BY <1>1, <1>2, <1>3, <1>4, <1>7, <1>8, <2>2, <2>3, Idles DEF Pending
<1> QED BY <1>6, <1>7

LEMMA ContinueHandlers ==
  ASSUME IInv, NEW k \in Task, NEW o, Continuing(k, o)
  PROVE  HandlersInv'
<1>1. \A q \in Task : Busied(q)' =>
        /\ task'[q].obj \in 1 .. made /\ task'[q].ping.no \in 1 .. received
        /\ task'[q].ping.at \in 1 .. clock
  <2> TAKE q \in Task
  <2>1. CASE q = k
    BY <2>1, ContinueFacts, Idles DEF Busied, Pending
  <2>2. CASE q # k
    <3>1. task'[q] = task[q]
      BY <2>2, ContinueFacts
    <3> QED BY <3>1 DEF IInv, HandlersInv, Busied
  <2> QED BY <2>1, <2>2
<1>2. \A q \in Task : task'[q].pc \in {"stopInsert", "final"} =>
        /\ task'[q].reached \in Stop
        /\ task'[q].boarding \in Occ /\ task'[q].alighting \in Occ
  BY ContinueFacts, Idles DEF IInv, HandlersInv
<1> QED BY <1>1, <1>2 DEF Continuing, HandlersInv, Busied

(* What was looked at stays so, and k's position is from now on.           *)
LEMMA ContinueDone ==
  ASSUME IInv, NEW k \in Task, NEW o, Continuing(k, o)
  PROVE  /\ \A n : Done(n) => Done(n)'
         /\ \A n : n = task[k].ping.no => ~Done(n) /\ Done(n)'
         /\ \A q \in Task : Working(q)' => q # k /\ Working(q) /\ task'[q] = task[q]
<1>1. \A q \in Task : Working(q)' => q # k /\ Working(q) /\ task'[q] = task[q]
  BY ContinueFacts, Idles DEF Working
<1>2. received' = received /\ Working(k)
  BY DEF Continuing
<1>3. \A n : Done(n) => Done(n)'
  BY <1>1, <1>2 DEF Done
<1>4. ASSUME NEW n, n = task[k].ping.no PROVE ~Done(n) /\ Done(n)'
  <2>1. n \in 1 .. received
    BY <1>4, ContinueFacts
  <2>2. \A q \in Task : Working(q)' => task'[q].ping.no # n
    BY <1>1, <1>2, <1>4 DEF IInv, NumbersInv
  <2> QED BY <1>2, <1>4, <2>1, <2>2 DEF Done
<1> QED BY <1>1, <1>3, <1>4

(* All of NumbersInv but what it says of stop_events.                      *)
LEMMA ContinueTimes ==
  ASSUME IInv, NEW k \in Task, NEW o, Continuing(k, o),
         \A e \in stopEvents' :
           e.trip \in 1 .. made /\ e.no \in 1 .. received /\ e.at \in 1 .. clock
  PROVE  NumbersInv'
<1>0. UNCHANGED <<made, alerts, received, clock>>
  BY DEF Continuing
<1>1. \A j \in 1 .. made : objects'[j].trip \in 1 .. made
                         /\ (objects'[j].since # 0 => objects'[j].began # 0)
  <2>1. /\ o.trip \in 1 .. made /\ o \in TripState /\ (o.since # 0 => o.began # 0)
        /\ task[k].ping.no # 0
    BY ContinueFacts DEF Continuing, IInv, NumbersInv
  <2>2. objects'[task[k].obj].trip = o.trip
        /\ (objects'[task[k].obj].since # 0 => objects'[task[k].obj].began # 0)
    <3>1. objects'[task[k].obj] = Deviated(o, task[k].ping) /\ task[k].ping \in Ping
      BY ContinueFacts
    <3> QED BY <2>1, <3>1, Deviations
  <2>3. \A j \in 1 .. made : j # task[k].obj => objects'[j] = objects[j]
    BY ContinueFacts
  <2>4. \A j \in 1 .. made : objects[j].trip \in 1 .. made
                           /\ (objects[j].since # 0 => objects[j].began # 0)
    BY DEF IInv, NumbersInv
  <2> QED BY <2>1, <2>2, <2>3, <2>4
<1>2. \A e \in back' : e.no \in 1 .. received
  BY ContinueFacts DEF IInv, NumbersInv
<1>3. \A q \in Task : Working(q)' => q # k /\ Working(q) /\ task'[q] = task[q]
  BY ContinueDone
<1>5. \A p, q \in Task :
        (Working(p)' /\ Working(q)' /\ task'[p].ping.no = task'[q].ping.no) => p = q
  BY <1>3 DEF IInv, NumbersInv
<1>6. \A a \in alerts : a.obj \in 1 .. made /\ a.no \in 1 .. received
  BY DEF IInv, NumbersInv
<1> QED BY <1>0, <1>1, <1>2, <1>5, <1>6 DEF NumbersInv

(* An episode keeps its alert, and a new one has none.                     *)
LEMMA ContinueEpisode ==
  ASSUME IInv, NEW k \in Task, NEW o, Continuing(k, o),
         NEW j \in 1 .. made, NEW n, Episode(j, n)
  PROVE  Episode(j, n)'
<1>1. Done(n)' /\ n # 0 /\ n # task[k].ping.no
  BY ContinueDone DEF Episode, Done
<1>3. objects'[j].began = n => objects'[j].alerted
  <2>1. CASE j # task[k].obj
    BY <2>1, ContinueFacts DEF Episode
  <2>2. CASE j = task[k].obj
    <3> DEFINE m == task[k].ping
               d == Deviated(o, m)
    <3>1. m \in Ping /\ o \in TripState /\ objects'[j] = d
      BY <2>2, ContinueFacts DEF Continuing
    <3>2. o.began = objects[j].began /\ o.alerted = objects[j].alerted
      BY <2>2 DEF Continuing
    <3>3. d.began = n => (d.began = o.began /\ d.alerted = o.alerted) \/ d.alerted
      BY <1>1, <3>1, Deviations
    <3> HIDE DEF m, d
    <3>4. CASE d.alerted
      BY <3>1, <3>4
    <3>5. CASE d.began = o.began /\ d.alerted = o.alerted
      BY <3>1, <3>2, <3>5 DEF Episode
    <3> QED BY <3>1, <3>3, <3>4, <3>5
  <2> QED BY <2>1, <2>2
<1> QED BY <1>1, <1>3 DEF Episode

LEMMA ContinueAlerts ==
  ASSUME IInv, NEW k \in Task, NEW o, Continuing(k, o)
  PROVE  AlertsInv'
<1> DEFINE j == task[k].obj
           m == task[k].ping
<1>0. UNCHANGED <<made, alerts>> /\ j \in 1 .. made /\ m \in Ping /\ o \in TripState
  BY ContinueFacts DEF Continuing
<1>1. \A i \in 1 .. made : objects'[i].began # 0 => Done(objects[i].began)'
  <2> SUFFICES ASSUME NEW i \in 1 .. made, NEW n, n = objects'[i].began, n # 0
               PROVE  Done(n)'
    BY DEF Done
  <2>1. CASE i # j
    <3>1. Done(n)
      BY <2>1, ContinueFacts DEF IInv, AlertsInv
    <3> QED BY <3>1, ContinueDone
  <2>2. CASE i = j
    <3>1. n = o.began \/ n = m.no
      BY <2>2, <1>0, ContinueFacts, Deviations
    <3>2. CASE n = m.no
      BY <3>2, ContinueDone
    <3>3. CASE n = o.began
      <4>1. Done(n)
        BY <2>2, <3>3, <1>0 DEF IInv, AlertsInv, Continuing
      <4> QED BY <4>1, ContinueDone
    <3> QED BY <3>1, <3>2, <3>3
  <2> QED BY <2>1, <2>2
<1>2. \A a \in alerts : Episode(a.obj, a.began)' /\ Long(a.since, a.at)
  <2> TAKE a \in alerts
  <2>1. Episode(a.obj, a.began) /\ a.obj \in 1 .. made /\ Long(a.since, a.at)
    BY DEF IInv, AlertsInv, NumbersInv
  <2> QED BY <2>1, ContinueEpisode
<1>3. \A q \in Task : (q # k /\ Pending(q)') =>
        /\ Pending(q) /\ task'[q] = task[q] /\ Episode(task[q].obj, task[q].began)'
        /\ Long(task[q].since, task[q].ping.at)
  <2> SUFFICES ASSUME NEW q \in Task, q # k, Pending(q)'
               PROVE  /\ Pending(q) /\ task'[q] = task[q]
                      /\ Episode(task[q].obj, task[q].began)'
                      /\ Long(task[q].since, task[q].ping.at)
    OBVIOUS
  <2>1. Pending(q) /\ task'[q] = task[q]
    BY ContinueFacts DEF Pending
  <2>2. /\ Episode(task[q].obj, task[q].began) /\ task[q].obj \in 1 .. made
        /\ Long(task[q].since, task[q].ping.at)
    BY <2>1 DEF IInv, AlertsInv, HandlersInv, Busied, Pending
  <2>3. PICK c, n : c = task[q].obj /\ n = task[q].began
    OBVIOUS
  <2>4. Episode(c, n)'
    BY <2>2, <2>3, ContinueEpisode
  <2> QED BY <2>1, <2>2, <2>3, <2>4 DEF Episode, Done
<1>4. Pending(k)' =>
        /\ task'[k].obj = j /\ task'[k].ping = m /\ task'[k].began = o.began
        /\ Episode(task[k].obj, task[k].began)' /\ Long(task'[k].since, m.at)
        /\ \A a \in alerts : ~(a.obj = j /\ a.began = o.began)
        /\ \A q \in Task : Pending(q) => ~(task[q].obj = j /\ task[q].began = o.began)
  <2> SUFFICES ASSUME Pending(k)'
               PROVE  /\ task'[k].obj = j /\ task'[k].ping = m /\ task'[k].began = o.began
                      /\ Episode(task[k].obj, task[k].began)' /\ Long(task'[k].since, m.at)
                      /\ \A a \in alerts : ~(a.obj = j /\ a.began = o.began)
                      /\ \A q \in Task : Pending(q) =>
                           ~(task[q].obj = j /\ task[q].began = o.began)
    OBVIOUS
  <2>1. /\ task'[k].obj = j /\ task'[k].ping = m /\ task'[k].since = o.since
        /\ task'[k].began = o.began
        /\ o.since # 0 /\ ~o.alerted /\ Long(o.since, m.at)
        /\ objects'[j].began = o.began /\ objects'[j].alerted
    BY <1>0, ContinueFacts, Deviations
  <2>2. ~objects[j].alerted /\ objects[j].began = o.began /\ o.began # 0
    BY <1>0, <2>1 DEF Continuing, IInv, NumbersInv
  <2>3. Episode(task[k].obj, task[k].began)'
    <3>1. Done(objects[j].began)'
      BY <1>0, <1>1, <2>1, <2>2 DEF Done
    <3> QED BY <2>1, <3>1 DEF Episode, Done
  <2>4. \A a \in alerts : ~(a.obj = j /\ a.began = o.began)
    BY <2>2 DEF IInv, AlertsInv, Episode
  <2>5. \A q \in Task : Pending(q) => ~(task[q].obj = j /\ task[q].began = o.began)
    BY <2>2 DEF IInv, AlertsInv, Episode
  <2> QED BY <2>1, <2>3, <2>4, <2>5
<1> HIDE DEF j, m
<1>5. ASSUME NEW q \in Task, Pending(q)'
      PROVE  /\ Episode(task[q].obj, task[q].began)' /\ Long(task'[q].since, task'[q].ping.at)
             /\ \A a \in alerts : ~(a.obj = task'[q].obj /\ a.began = task'[q].began)
             /\ \A p \in Task : (Pending(p)' /\ p # q) =>
                  ~(task'[p].obj = task'[q].obj /\ task'[p].began = task'[q].began)
  <2>1. CASE q = k
    BY <1>3, <1>4, <1>5, <2>1
  <2>2. CASE q # k
    <3>1. /\ Pending(q) /\ task'[q] = task[q] /\ Episode(task[q].obj, task[q].began)'
          /\ Long(task[q].since, task[q].ping.at)
      BY <1>3, <1>5, <2>2
    <3>2. \A a \in alerts : ~(a.obj = task[q].obj /\ a.began = task[q].began)
      BY <3>1 DEF IInv, AlertsInv
    <3>3. ASSUME NEW p \in Task, Pending(p)', p # q
          PROVE  ~(task'[p].obj = task'[q].obj /\ task'[p].began = task'[q].began)
      <4>1. CASE p = k
        BY <1>4, <3>1, <3>3, <4>1
      <4>2. CASE p # k
        BY <1>3, <3>1, <3>3, <4>2 DEF IInv, AlertsInv
      <4> QED BY <4>1, <4>2
    <3> QED BY <3>1, <3>2, <3>3
  <2> QED BY <2>1, <2>2
<1>6. \A a, b \in alerts : (a.obj = b.obj /\ a.began = b.began) => a = b
  BY DEF IInv, AlertsInv
<1> QED BY <1>0, <1>1, <1>2, <1>5, <1>6 DEF AlertsInv

LEMMA ContinueCalm ==
  ASSUME IInv, NEW k \in Task, NEW o, Continuing(k, o)
  PROVE  CalmHandlers' /\ CalmAlerts'
<1> SUFFICES ASSUME ~overlapped' PROVE CalmHandlers' /\ CalmAlerts'
  BY DEF CalmHandlers, CalmAlerts
<1>p. PICK j, m, d : j = task[k].obj /\ m = task[k].ping /\ d = Deviated(o, m)
  OBVIOUS
<1>0. /\ UNCHANGED <<made, current, alerts, received, clock, ahead, overlapped, late>>
      /\ ~overlapped /\ j \in 1 .. made /\ m \in Ping /\ o \in TripState
      /\ Busied(k) /\ Working(k)
      /\ o.since = objects[j].since /\ o.began = objects[j].began
  BY <1>p, ContinueFacts DEF Continuing, Working, Busied
<1>1. /\ \A q \in Task : Busied(q) => q = k
      /\ j = current /\ m.no = received /\ (~late => m.at = clock)
      /\ \A e \in back : e.no < received
      /\ \A a \in alerts : a.no < received
  BY <1>0, <1>p, Alone
<1>2. \A q \in Task : Busied(q)' => q = k /\ Pending(k)'
  BY <1>1, ContinueFacts, Idles DEF Busied, Pending
<1>3. Pending(k)' => task'[k].obj = j /\ task'[k].ping = m /\ task'[k].began = o.began
  BY <1>p, ContinueFacts
<1>4. CalmHandlers'
  <2>1. \A p, q \in Task : (Busied(p)' /\ Busied(q)') => p = q
    BY <1>2
  <2>2. \A q \in Task : Busied(q)' => /\ task'[q].obj = current /\ task'[q].ping.no = received
                                      /\ ~late => task'[q].ping.at = clock
    BY <1>1, <1>2, <1>3
  <2>3. \A q \in Task : ~Working(q)' /\ ~Writing(q)'
    BY <1>2 DEF Working, Busied, Pending, Writing
  <2> QED BY <1>0, <2>1, <2>2, <2>3 DEF CalmHandlers
<1>5. /\ \A i \in 1 .. made : objects[i].since # 0 => Off(i, objects[i].began, received)
      /\ \A a \in alerts : Off(a.obj, a.began, a.no)
      /\ received \in Nat /\ (\A e \in back : e.no \in Nat)
      /\ (\A i \in 1 .. made : objects[i].began \in Nat)
      /\ (\A a \in alerts : a.no \in Nat /\ a.began \in Nat)
  BY <1>0, Numbers DEF IInv, CalmAlerts, StopEventsTypeOK, TripState, Alert
<1>6. /\ objects'[j] = d
      /\ \A i \in 1 .. made : i # j => objects'[i] = objects[i]
      /\ back' = IF OnRoute(m) THEN back \cup {[no |-> m.no, obj |-> j]} ELSE back
  BY <1>p, ContinueFacts
<1>7. /\ Pending(k)' => ~OnRoute(m) /\ o.since # 0
      /\ d.since # 0 => /\ ~OnRoute(m)
                        /\ (d.began = o.began /\ o.since # 0) \/ d.began = m.no
  BY <1>0, <1>p, Deviations, ContinueFacts
<1>8. ASSUME ~OnRoute(m), o.since # 0, NEW n, n = o.began PROVE Off(j, n, received)'
  BY <1>0, <1>5, <1>6, <1>8 DEF Off
<1>9. ASSUME ~OnRoute(m), NEW n, n = m.no PROVE Off(j, n, received)'
  BY <1>0, <1>1, <1>5, <1>6, <1>9 DEF Off
<1>10. \A i \in 1 .. made : objects'[i].since # 0 => Off(i, objects[i].began, received)'
  <2> SUFFICES ASSUME NEW i \in 1 .. made, objects'[i].since # 0, NEW n, n = objects'[i].began
               PROVE  Off(i, n, received)'
    BY <1>0 DEF Off
  <2>1. CASE i # j
    BY <1>0, <1>1, <1>5, <1>6, <2>1 DEF Off
  <2>2. CASE i = j
    BY <1>6, <1>7, <1>8, <1>9, <2>2
  <2> QED BY <2>1, <2>2
<1>11. \A q \in Task : Pending(q)' => Off(task[q].obj, task[q].began, task[q].ping.no)'
  <2> SUFFICES ASSUME NEW q \in Task, Pending(q)'
               PROVE  Off(task[q].obj, task[q].began, task[q].ping.no)'
    OBVIOUS
  <2>1. q = k /\ Pending(k)'
    BY <1>2 DEF Pending, Busied
  <2>2. task'[q].obj = j /\ task'[q].ping = m /\ task'[q].began = o.began
    BY <1>3, <2>1
  <2>3. PICK n : n = o.began
    OBVIOUS
  <2>4. Off(j, n, received)'
    BY <1>7, <1>8, <2>1, <2>3
  <2> QED BY <1>0, <1>1, <2>2, <2>3, <2>4 DEF Off
<1>12. \A a \in alerts : Off(a.obj, a.began, a.no)'
  BY <1>0, <1>1, <1>5, <1>6 DEF Off
<1>13. CalmAlerts'
  BY <1>0, <1>10, <1>11, <1>12 DEF CalmAlerts
<1> QED BY <1>4, <1>13

(* The invariant after the rest of a handler, whatever it did to           *)
(* stop_events before.                                                     *)
LEMMA ContinueIInv ==
  ASSUME IInv, NEW k \in Task, NEW o, Continuing(k, o),
         stopEvents' \subseteq StopEvent,
         \A e \in stopEvents' :
           e.trip \in 1 .. made /\ e.no \in 1 .. received /\ e.at \in 1 .. clock,
         (~overlapped /\ ~late) =>
           /\ o.last <= ahead
           /\ \A e, f \in stopEvents' : InOrder(e, f)
           /\ \A e \in stopEvents' : e.trip = objects[task[k].obj].trip =>
                e.stop < ahead /\ (o.last # NoStop => Behind(e, o.last))
  PROVE  IInv'
<1>0. UNCHANGED <<made, current, alerts, received, clock, ahead, overlapped, late>>
  BY DEF Continuing
<1>1. StopEventsTypeOK'
  BY <1>0, ContinueFacts DEF IInv, StopEventsTypeOK
<1>2. HandlersInv' /\ NumbersInv' /\ AlertsInv' /\ CalmHandlers' /\ CalmAlerts'
  BY ContinueHandlers, ContinueTimes, ContinueAlerts, ContinueCalm
<1>3. CalmStops'
  <2> SUFFICES ASSUME ~overlapped', ~late' PROVE CalmStops'
    BY DEF CalmStops
  <2>1. (\A q \in Task : Busied(q) => q = k) /\ task[k].obj = current
    BY <1>0, Alone DEF Continuing, Working, Busied
  <2>2. \A q \in Task : task'[q].pc \notin {"ping", "stopInsert", "final"}
    BY <2>1, ContinueFacts, Idles DEF Busied, Pending
  <2>4. objects'[current].last = o.last /\ objects'[current].trip = objects[current].trip
    BY <2>1, ContinueFacts, Deviations DEF Continuing
  <2> QED BY <1>0, <2>1, <2>2, <2>4 DEF CalmStops, InOrder, Behind, Writing
<1> QED BY <1>1, <1>2, <1>3 DEF IInv

LEMMA HandlerTypes ==
  ASSUME IInv, NEW k \in Task
  PROVE  /\ task \in [Task -> TaskRecord] /\ task[k] \in TaskRecord
         /\ objects \in [1 .. made -> TripState] /\ made \in 0 .. MaxObj
         /\ task[k].ping \in Ping
         /\ Busied(k) =>
              task[k].obj \in 1 .. made /\ task[k].obj \in Obj /\ objects[task[k].obj] \in TripState
<1>1. /\ task \in [Task -> TaskRecord] /\ objects \in [1 .. made -> TripState]
      /\ made \in 0 .. MaxObj
  BY DEF IInv, StopEventsTypeOK
<1>2. task[k] \in TaskRecord /\ task[k].ping \in Ping
  BY <1>1 DEF TaskRecord
<1>3. Busied(k) => task[k].obj \in 1 .. made
  BY DEF IInv, HandlersInv
<1> QED BY <1>1, <1>2, <1>3 DEF Obj

(* What the current object's next stop means while handlers do not overlap. *)
LEMMA CalmFacts ==
  ASSUME IInv, ~overlapped, ~late, NEW k \in Task, Working(k)
  PROVE  /\ task[k].obj = current /\ task[k].ping.at = clock
         /\ task[k].ping.next # NoStop => task[k].ping.next = ahead
         /\ objects[current].last <= ahead
         /\ \A e \in stopEvents :
              /\ e.at < clock
              /\ e.trip = objects[current].trip =>
                   /\ e.stop < ahead
                   /\ objects[current].last # NoStop => Behind(e, objects[current].last)
         /\ \A e, f \in stopEvents : InOrder(e, f)
<1>1. Busied(k) /\ Writing(k)
  BY DEF Busied, Working, Writing
<1>2. /\ task[k].obj = current /\ task[k].ping.at = clock
      /\ task[k].ping.next # NoStop => task[k].ping.next = ahead
  BY <1>1, Alone
<1>3. current # 0
  BY <1>1, <1>2 DEF IInv, HandlersInv
<1>4. CalmStops
  BY DEF IInv
<1> QED BY <1>1, <1>2, <1>3, <1>4 DEF CalmStops

(* Steps that look at no position and raise no alert: objects are only     *)
(* added, handlers only k's changes.                                       *)
Growing(k) ==
    /\ made' \in made .. MaxObj /\ clock' \in clock .. MaxTime
    /\ received' \in received .. MaxMessages
    /\ DOMAIN objects' = 1 .. made'
    /\ \A i \in 1 .. made : objects'[i] = objects[i]
    /\ \A i \in 1 .. made' : i > made =>
         objects'[i].since = 0 /\ objects'[i].began = 0 /\ objects'[i].trip \in 1 .. made'
    /\ UNCHANGED <<alerts, back>>
    /\ \A q \in Task : q # k => task'[q] = task[q]
    /\ Pending(k)' => Pending(k) /\ task'[k] = task[k]
    /\ Working(k)' => \/ Working(k) /\ task'[k].ping = task[k].ping
                      \/ task'[k].ping.no > received
    /\ overlapped => overlapped'
    /\ \A e \in stopEvents' :
         e.trip \in 1 .. made' /\ e.no \in 1 .. received' /\ e.at \in 1 .. clock'

LEMMA Counters ==
  ASSUME IInv
  PROVE  /\ made \in Nat /\ clock \in Nat /\ ahead \in Nat /\ current \in Nat
         /\ received \in Nat
         /\ \A e \in back : e.no \in Nat
         /\ \A a \in alerts : a.no \in Nat /\ a.began \in Nat
         /\ \A i \in 1 .. made : objects[i].began \in Nat
<1>1. \A e \in back : e.no \in Nat
  BY Numbers DEF IInv, StopEventsTypeOK
<1>2. \A a \in alerts : a.no \in Nat /\ a.began \in Nat
  BY Numbers DEF IInv, StopEventsTypeOK, Alert
<1>3. \A i \in 1 .. made : objects[i].began \in Nat
  <2> TAKE i \in 1 .. made
  <2>1. objects[i] \in TripState
    BY DEF IInv, StopEventsTypeOK
  <2> QED BY <2>1, Numbers DEF TripState
<1>4. made \in Nat /\ clock \in Nat /\ ahead \in Nat /\ current \in Nat /\ received \in Nat
  BY Numbers DEF IInv, StopEventsTypeOK
<1> QED BY <1>1, <1>2, <1>3, <1>4

LEMMA GrowingTimes ==
  ASSUME IInv, NEW k, Growing(k)
  PROVE  NumbersInv' /\ \A n : Done(n) => Done(n)'
<1>0. /\ made \in Nat /\ made' \in Nat /\ made <= made' /\ UNCHANGED <<alerts, back>>
      /\ received \in Nat /\ received' \in Nat /\ received <= received'
  BY Counters DEF Growing
<1>1. \A i \in 1 .. made' : /\ objects'[i].trip \in 1 .. made'
                            /\ objects'[i].since # 0 => objects'[i].began # 0
  <2> TAKE i \in 1 .. made'
  <2>1. CASE i > made
    BY <2>1 DEF Growing
  <2>2. CASE ~(i > made)
    <3>1. i \in 1 .. made
      BY <1>0, <2>2
    <3>2. /\ objects'[i].trip \in 1 .. made
          /\ objects'[i].since # 0 => objects'[i].began # 0
      BY <3>1 DEF IInv, NumbersInv, Growing
    <3> QED BY <1>0, <3>2
  <2> QED BY <2>1, <2>2
<1>2. \A e \in back : e.no \in 1 .. received'
  BY <1>0 DEF IInv, NumbersInv
<1>3. \A a \in alerts : a.obj \in 1 .. made' /\ a.no \in 1 .. received'
  BY <1>0 DEF IInv, NumbersInv
<1>4. \A q \in Task : Working(q)' =>
        \/ Working(q) /\ task'[q].ping = task[q].ping
        \/ q = k /\ task'[q].ping.no > received
  BY DEF Growing, Working
<1>5. \A q \in Task : Working(q) => task[q].ping.no \in 1 .. received
  BY DEF IInv, HandlersInv, Working, Busied
<1>6. ASSUME NEW n, Done(n) PROVE Done(n)'
  <2>1. n \in 1 .. received'
    BY <1>0, <1>6 DEF Done
  <2>2. ASSUME NEW q \in Task, Working(q)' PROVE task'[q].ping.no # n
    BY <1>0, <1>4, <1>6, <2>2 DEF Done
  <2> QED BY <2>1, <2>2 DEF Done
<1>7. ASSUME NEW p \in Task, NEW q \in Task, Working(p)', Working(q)',
             task'[p].ping.no = task'[q].ping.no
      PROVE  p = q
  <2>1. CASE Working(p) /\ task'[p].ping = task[p].ping
             /\ Working(q) /\ task'[q].ping = task[q].ping
    BY <1>7, <2>1 DEF IInv, NumbersInv
  <2>2. CASE p = k /\ task'[p].ping.no > received /\ q # k
    BY <1>0, <1>4, <1>5, <1>7, <2>2
  <2>3. CASE q = k /\ task'[q].ping.no > received /\ p # k
    BY <1>0, <1>4, <1>5, <1>7, <2>3
  <2> QED BY <1>4, <1>7, <2>1, <2>2, <2>3
<1>8. \A e \in stopEvents' :
        e.trip \in 1 .. made' /\ e.no \in 1 .. received' /\ e.at \in 1 .. clock'
  BY DEF Growing
<1>9. NumbersInv'
  BY <1>0, <1>1, <1>2, <1>3, <1>7, <1>8 DEF NumbersInv
<1> QED BY <1>6, <1>9

LEMMA GrowingAlerts ==
  ASSUME IInv, NEW k, Growing(k)
  PROVE  AlertsInv' /\ CalmAlerts'
<1>0. /\ made \in Nat /\ made' \in Nat /\ made <= made' /\ UNCHANGED <<alerts, back>>
      /\ received \in Nat /\ received' \in Nat /\ received <= received'
      /\ \A i \in 1 .. made : objects'[i] = objects[i]
  BY Counters DEF Growing
<1>1. \A i \in 1 .. made' : objects'[i].since # 0 \/ objects'[i].began # 0 =>
        i \in 1 .. made /\ objects'[i] = objects[i]
  BY <1>0 DEF Growing
<1>2. \A q \in Task : Pending(q)' => Pending(q) /\ task'[q] = task[q]
  BY DEF Growing, Pending
<1>3. \A i \in 1 .. made : \A n : Episode(i, n) => Episode(i, n)'
  BY <1>0, GrowingTimes DEF Episode
<1>4. \A a \in alerts : a.obj \in 1 .. made
  BY DEF IInv, NumbersInv
<1>5. \A q \in Task : Pending(q) => task[q].obj \in 1 .. made
  BY DEF IInv, HandlersInv, Pending, Busied
<1>6. AlertsInv'
  <2>1. \A i \in 1 .. made' : objects'[i].began # 0 => Done(objects[i].began)'
    <3> SUFFICES ASSUME NEW i \in 1 .. made', NEW n, n = objects'[i].began, n # 0
                 PROVE  Done(n)'
      BY DEF Done
    <3>1. i \in 1 .. made /\ objects'[i] = objects[i]
      BY <1>1
    <3>2. Done(n)
      BY <3>1 DEF IInv, AlertsInv
    <3> QED BY <3>2, GrowingTimes
  <2>2. \A a \in alerts : Episode(a.obj, a.began)' /\ Long(a.since, a.at)
    BY <1>3, <1>4 DEF IInv, AlertsInv
  <2>3. \A q \in Task : Pending(q)' => /\ Episode(task[q].obj, task[q].began)'
                                       /\ Long(task'[q].since, task'[q].ping.at)
    <3> SUFFICES ASSUME NEW q \in Task, Pending(q)'
                 PROVE  /\ Episode(task[q].obj, task[q].began)'
                        /\ Long(task'[q].since, task'[q].ping.at)
      OBVIOUS
    <3>1. PICK c, n : c = task[q].obj /\ n = task[q].began
      OBVIOUS
    <3>2. Episode(c, n)' /\ Long(task[q].since, task[q].ping.at)
      BY <1>2, <1>3, <1>5, <3>1 DEF IInv, AlertsInv
    <3> QED BY <1>2, <3>1, <3>2 DEF Episode, Done
  <2>4. \A q \in Task : Pending(q) =>
         /\ \A a \in alerts : ~(a.obj = task[q].obj /\ a.began = task[q].began)
         /\ \A p \in Task : (Pending(p) /\ p # q) =>
              ~(task[p].obj = task[q].obj /\ task[p].began = task[q].began)
    BY DEF IInv, AlertsInv
  <2>5. \A a, b \in alerts : (a.obj = b.obj /\ a.began = b.began) => a = b
    BY DEF IInv, AlertsInv
  <2> QED BY <1>0, <1>2, <2>1, <2>2, <2>3, <2>4, <2>5 DEF AlertsInv
<1>7. CalmAlerts'
  <2> SUFFICES ASSUME ~overlapped' PROVE CalmAlerts'
    BY DEF CalmAlerts
  <2>0. ~overlapped
    BY DEF Growing
  <2>1. \A i \in 1 .. made' : objects'[i].since # 0 => Off(i, objects[i].began, received)'
    <3> SUFFICES ASSUME NEW i \in 1 .. made', objects'[i].since # 0
                 PROVE  Off(i, objects[i].began, received)'
      OBVIOUS
    <3>1. i \in 1 .. made /\ objects'[i] = objects[i] /\ Off(i, objects[i].began, received)
      BY <1>1, <2>0 DEF IInv, CalmAlerts
    <3>2. \A e \in back : e.no \in 1 .. received
      BY DEF IInv, NumbersInv
    <3>3. objects[i].began \in Nat
      BY <3>1, Counters
    <3> QED BY <1>0, <3>1, <3>2, <3>3 DEF Off
  <2>2. \A q \in Task : Pending(q)' => Off(task[q].obj, task[q].began, task[q].ping.no)'
    BY <1>0, <1>2, <2>0 DEF IInv, CalmAlerts, Off
  <2>3. \A a \in alerts : Off(a.obj, a.began, a.no)'
    BY <1>0, <2>0 DEF IInv, CalmAlerts, Off
  <2> QED BY <1>0, <2>1, <2>2, <2>3 DEF CalmAlerts
<1> QED BY <1>6, <1>7

(* The stop's INSERT is on its way.                                        *)
Awaits(k, x, m) ==
    task' = [task EXCEPT ![k].pc = "stopInsert", ![k].reached = x.last,
                         ![k].boarding = Boarding(x, m), ![k].alighting = Alighting(x, m)]

LEMMA StopAwaited ==
  ASSUME IInv, NEW k \in Task, NEW m, NEW x, task[k].pc = "ping",
         m = task[k].ping, x = objects[task[k].obj],
         x.last # NoStop, ~Unchanged(x, m), Recordable(x.last), Awaits(k, x, m),
         UNCHANGED <<objects, made, current, stopEvents, alerts, received, clock, ahead, back,
                     overlapped, late>>
  PROVE  IInv'
<1>0. /\ task \in [Task -> TaskRecord] /\ task[k] \in TaskRecord /\ m \in Ping
      /\ task[k].obj \in 1 .. made /\ x \in TripState
  BY HandlerTypes DEF Busied
<1>1. x.last \in Stop
  BY DEF Recordable, Stop
<1>2. Boarding(x, m) \in Occ /\ Alighting(x, m) \in Occ
  <2>1. m.occ \in Occ /\ x.occ \in Occ
    BY <1>0 DEF Ping, TripState
  <2> QED BY <2>1 DEF Boarding, Alighting, Occ
<1> DEFINE w == [task[k] EXCEPT !.pc = "stopInsert", !.reached = x.last,
                                !.boarding = Boarding(x, m), !.alighting = Alighting(x, m)]
<1>3. task' = [task EXCEPT ![k] = w]
  BY <1>0 DEF Awaits
<1>4. /\ w \in TaskRecord /\ w.pc = "stopInsert" /\ w.obj = task[k].obj /\ w.ping = m
      /\ w.reached = x.last /\ w.boarding \in Occ /\ w.alighting \in Occ
  <2>1. Boarding(x, m) \in Int /\ Alighting(x, m) \in Int
    BY <1>2 DEF Occ
  <2> QED BY <1>0, <1>1, <1>2, <2>1 DEF TaskRecord
<1> HIDE DEF w
<1>5. /\ task' \in [Task -> TaskRecord] /\ task'[k] = w
      /\ \A q \in Task : q # k => task'[q] = task[q]
  <2>1. task \in [Task -> TaskRecord] /\ w \in TaskRecord
    BY <1>0, <1>4
  <2> QED BY <1>3, <2>1
<1>6. StopEventsTypeOK'
  BY <1>5 DEF IInv, StopEventsTypeOK
<1>7. HandlersInv'
  <2> SUFFICES ASSUME NEW q \in Task
               PROVE  /\ Busied(q)' => /\ task'[q].obj \in 1 .. made
                                       /\ task'[q].ping.no \in 1 .. received
                                       /\ task'[q].ping.at \in 1 .. clock
                      /\ task'[q].pc \in {"stopInsert", "final"} =>
                           /\ task'[q].reached \in Stop
                           /\ task'[q].boarding \in Occ /\ task'[q].alighting \in Occ
    BY DEF HandlersInv
  <2>1. CASE q = k
    BY <1>1, <1>4, <1>5, <2>1 DEF IInv, HandlersInv, Busied
  <2>2. CASE q # k
    BY <1>5, <2>2 DEF IInv, HandlersInv, Busied
  <2> QED BY <2>1, <2>2
<1>8. Growing(k)
  <2>1. /\ made \in made .. MaxObj /\ clock \in clock .. MaxTime /\ DOMAIN objects = 1 .. made
        /\ received \in received .. MaxMessages /\ \A z \in 1 .. made : ~(z > made)
    BY Counters DEF IInv, StopEventsTypeOK, Time, Message
  <2>2. \A e \in stopEvents :
          e.trip \in 1 .. made /\ e.no \in 1 .. received /\ e.at \in 1 .. clock
    BY DEF IInv, NumbersInv
  <2> QED BY <1>4, <1>5, <2>1, <2>2 DEF Growing, Working, Pending
<1>9. CalmHandlers'
  <2> SUFFICES ASSUME ~overlapped PROVE CalmHandlers'
    BY DEF CalmHandlers
  <2>0. CalmHandlers
    BY DEF IInv
  <2>1. \A q \in Task :
          /\ Busied(q)' => Busied(q) /\ task'[q].obj = task[q].obj /\ task'[q].ping = task[q].ping
          /\ Working(q)' => Working(q)
          /\ Writing(q)' => Writing(q)
    <3> TAKE q \in Task
    <3>1. CASE q = k
      BY <1>4, <1>5, <3>1 DEF Busied, Working, Writing
    <3>2. CASE q # k
      BY <1>5, <3>2 DEF Busied, Working, Writing
    <3> QED BY <3>1, <3>2
  <2>2. \A q \in Task : Busied(q)' => /\ task'[q].obj = current /\ task'[q].ping.no = received
                                      /\ (~late => task'[q].ping.at = clock)
    BY <2>0, <2>1 DEF CalmHandlers
  <2>3. \A q \in Task : Working(q)' =>
          /\ (~late /\ task'[q].ping.next # NoStop) => task'[q].ping.next = ahead
          /\ \A e \in back : e.no < received
          /\ \A a \in alerts : a.no < received
    BY <2>0, <2>1 DEF CalmHandlers, Working, Busied
  <2>4. \A p, q \in Task : (Busied(p)' /\ Busied(q)') => p = q
    BY <2>0, <2>1 DEF CalmHandlers
  <2>5. \A q \in Task : Writing(q)' => \A e \in stopEvents : e.no < received
    BY <2>0, <2>1 DEF CalmHandlers
  <2> QED BY <2>2, <2>3, <2>4, <2>5 DEF CalmHandlers
<1>10. CalmStops'
  <2> SUFFICES ASSUME ~overlapped', ~late' PROVE CalmStops'
    BY DEF CalmStops
  <2>1. \A e \in stopEvents : e.at < clock
    BY CalmFacts DEF Working
  <2>2. \A q \in Task : task'[q].pc \in {"stopInsert", "final"} =>
          task'[q].reached = objects[task'[q].obj].last
    BY <1>4, <1>5 DEF IInv, CalmStops
  <2>3. \A q \in Task : task'[q].pc = "stopInsert" =>
          task'[q].ping.next \notin {NoStop, task'[q].reached}
    BY <1>4, <1>5 DEF IInv, CalmStops, Unchanged
  <2> QED BY <2>1, <2>2, <2>3 DEF IInv, CalmStops, InOrder, Behind
<1> QED BY <1>6, <1>7, <1>8, <1>9, <1>10, GrowingTimes, GrowingAlerts DEF IInv

LEMMA PingInsertedIInv ==
  ASSUME IInv, NEW k \in Task, PingInserted(k)
  PROVE  IInv'
<1>p. PICK m, x : m = task[k].ping /\ x = objects[task[k].obj]
  OBVIOUS
<1>0. /\ task[k].pc = "ping" /\ Working(k) /\ Busied(k)
      /\ UNCHANGED <<made, current, stopEvents, alerts, received, clock, ahead, overlapped,
                     late>>
  BY DEF PingInserted, Working, Busied
<1>1. m \in Ping /\ x \in TripState /\ task[k] \in TaskRecord
      /\ m.occ \in Int /\ x.occ \in Int /\ x.base \in Int
      /\ ahead \in Nat /\ NoStop <= ahead
  <2>1. m \in Ping /\ x \in TripState /\ task[k] \in TaskRecord
    BY <1>p, <1>0, HandlerTypes
  <2>2. m.occ \in Int /\ x.occ \in Int /\ x.base \in Int
    <3>1. m.occ \in Occ /\ x.occ \in Occ /\ x.base \in Int
      BY <2>1 DEF Ping, TripState
    <3> QED BY <3>1 DEF Occ
  <2>3. ahead \in Nat /\ NoStop <= ahead
    BY Numbers DEF IInv, StopEventsTypeOK
  <2> QED BY <2>1, <2>2, <2>3
<1>2. stopEvents' \subseteq StopEvent
      /\ \A e \in stopEvents' :
           e.trip \in 1 .. made /\ e.no \in 1 .. received /\ e.at \in 1 .. clock
  BY <1>0 DEF IInv, StopEventsTypeOK, NumbersInv
<1>3. ASSUME NEW o \in TripState, Continue(k, o), o.trip = x.trip, o.since = x.since,
             o.alerted = x.alerted, o.began = x.began, o.last = x.last \/ o.last = m.next
      PROVE  IInv'
  <2>1. Continuing(k, o)
    BY <1>p, <1>0, <1>3 DEF Continuing
  <2>2. (~overlapped /\ ~late) =>
           /\ o.last <= ahead
           /\ \A e, f \in stopEvents' : InOrder(e, f)
           /\ \A e \in stopEvents' : e.trip = objects[task[k].obj].trip =>
                e.stop < ahead /\ (o.last # NoStop => Behind(e, o.last))
    BY <1>p, <1>0, <1>1, <1>3, CalmFacts DEF Behind
  <2> QED BY <1>2, <2>1, <2>2, ContinueIInv
<1>4. ASSUME NEW b \in Int
      PROVE  [Advance(x, m) EXCEPT !.base = b] \in
               {o \in TripState : /\ o.trip = x.trip /\ o.since = x.since /\ o.began = x.began
                                  /\ o.alerted = x.alerted /\ o.last = m.next}
  BY <1>1 DEF Advance, TripState, Ping
<1>5. CASE Continue(k, [Advance(x, m) EXCEPT !.base = m.occ])
  BY <1>1, <1>3, <1>4, <1>5
<1>6. CASE Continue(k, x)
  BY <1>1, <1>3, <1>6
<1>7. CASE Continue(k, [Advance(x, m) EXCEPT !.base = @ + m.occ - x.occ])
  <2>1. x.base + m.occ - x.occ \in Int
    BY <1>1
  <2>2. [Advance(x, m) EXCEPT !.base = @ + m.occ - x.occ]
          = [Advance(x, m) EXCEPT !.base = x.base + m.occ - x.occ]
    BY <1>1 DEF Advance, TripState
  <2> QED BY <1>3, <1>4, <1>7, <2>1, <2>2
<1>8. CASE /\ x.last # NoStop /\ ~Unchanged(x, m) /\ Recordable(x.last)
           /\ task' = [task EXCEPT ![k].pc = "stopInsert", ![k].reached = x.last,
                                   ![k].boarding = Boarding(x, m),
                                   ![k].alighting = Alighting(x, m)]
           /\ UNCHANGED <<objects, back>>
  BY <1>p, <1>0, <1>8, StopAwaited DEF Awaits
<1> QED BY <1>p, <1>5, <1>6, <1>7, <1>8 DEF PingInserted

(* The row a handler is about to write.                                    *)
LEMMA RowFacts ==
  ASSUME IInv, NEW k \in Task, task[k].pc \in {"stopInsert", "final"},
         NEW answered \in BOOLEAN, NEW w, w = Row(k, answered)
  PROVE  /\ w \in StopEvent /\ w.no = task[k].ping.no /\ w.at = task[k].ping.at
         /\ w.trip = objects[task[k].obj].trip /\ w.obj = task[k].obj
         /\ w.stop = task[k].reached /\ w.answered = answered
         /\ w.boarding = task[k].boarding /\ w.alighting = task[k].alighting
         /\ w.trip \in 1 .. made /\ w.no \in 1 .. received /\ w.at \in 1 .. clock
         /\ w.stop \in Nat /\ w.stop # NoStop
<1>1. /\ task[k] \in TaskRecord /\ task[k].obj \in 1 .. made /\ task[k].obj \in Obj
      /\ objects[task[k].obj] \in TripState /\ task[k].ping \in Ping
  BY HandlerTypes DEF Busied
<1>2. /\ task[k].reached \in Stop /\ task[k].boarding \in Occ /\ task[k].alighting \in Occ
      /\ task[k].ping.no \in 1 .. received /\ task[k].ping.at \in 1 .. clock
  BY DEF IInv, HandlersInv, Busied
<1>3. /\ objects[task[k].obj].trip \in Obj /\ objects[task[k].obj].trip \in 1 .. made
      /\ task[k].ping.no \in Message /\ task[k].ping.at \in Time
  BY <1>1 DEF IInv, NumbersInv, TripState, Ping
<1> QED BY <1>1, <1>2, <1>3, Numbers DEF Row, StopEvent

(* A row is behind the stop its object goes on to and after every other.   *)
LEMMA RowsInOrder ==
  ASSUME IInv, NEW k \in Task, task[k].pc \in {"stopInsert", "final"}, ~overlapped, ~late,
         NEW answered \in BOOLEAN, NEW w, w = Row(k, answered)
  PROVE  /\ task[k].obj = current /\ w.stop = objects[current].last
         /\ w.trip = objects[current].trip
         /\ \A e, f \in stopEvents \cup {w} : InOrder(e, f)
<1>1. /\ w \in StopEvent /\ w.at = task[k].ping.at /\ w.trip = objects[task[k].obj].trip
      /\ w.stop = task[k].reached /\ w.stop \in Nat /\ w.stop # NoStop
  BY RowFacts
<1>2. Busied(k) /\ Writing(k)
  BY DEF Busied, Writing
<1>3. task[k].obj = current /\ task[k].ping.at = clock
  BY <1>2, Alone
<1>4. CalmStops /\ current # 0
  BY <1>2, <1>3 DEF IInv, HandlersInv
<1>5. w.stop = objects[current].last
  BY <1>1, <1>3, <1>4 DEF CalmStops
<1>6. \A e \in stopEvents : e.at < w.at /\ (e.trip = w.trip => Behind(e, w.stop))
  BY <1>1, <1>2, <1>3, <1>4, <1>5 DEF CalmStops
<1>7. \A e, f \in stopEvents : InOrder(e, f)
  BY <1>4 DEF CalmStops
<1>8. \A e, f \in stopEvents \cup {w} : InOrder(e, f)
  <2> SUFFICES ASSUME NEW e \in stopEvents \cup {w}, NEW f \in stopEvents \cup {w}
               PROVE  InOrder(e, f)
    OBVIOUS
  <2>1. CASE e \in stopEvents /\ f \in stopEvents
    BY <1>7, <2>1
  <2>2. CASE e \in stopEvents /\ f = w
    BY <1>6, <2>2 DEF InOrder
  <2>3. CASE e = w /\ f \in stopEvents
    BY <1>6, <2>3 DEF InOrder
  <2>4. CASE e = w /\ f = w
    BY <2>4 DEF InOrder
  <2> QED BY <2>1, <2>2, <2>3, <2>4
<1> QED BY <1>1, <1>3, <1>5, <1>8

LEMMA StopInsertedIInv ==
  ASSUME IInv, NEW k \in Task, StopInserted(k)
  PROVE  IInv'
<1>p. PICK m, x, o, w : /\ m = task[k].ping /\ x = objects[task[k].obj]
                        /\ o = Advance(x, m) /\ w = Row(k, TRUE)
  OBVIOUS
<1>0. /\ task[k].pc = "stopInsert" /\ Working(k) /\ Busied(k) /\ Writing(k)
      /\ stopEvents' = stopEvents \cup {w} /\ Continue(k, o)
      /\ UNCHANGED <<made, current, alerts, received, clock, ahead, overlapped, late>>
  BY <1>p DEF StopInserted, Working, Busied, Writing
<1>1. m \in Ping /\ x \in TripState /\ task[k] \in TaskRecord
  BY <1>p, <1>0, HandlerTypes
<1>2. /\ o \in TripState /\ o.trip = x.trip /\ o.since = x.since /\ o.alerted = x.alerted
      /\ o.began = x.began /\ o.last = m.next
  BY <1>p, <1>1 DEF Advance, TripState, Ping
<1>3. Continuing(k, o)
  BY <1>p, <1>0, <1>2 DEF Continuing
<1>4. /\ w \in StopEvent /\ w.trip = x.trip /\ w.stop = task[k].reached /\ w.stop \in Nat
      /\ w.trip \in 1 .. made /\ w.no \in 1 .. received /\ w.at \in 1 .. clock
  BY <1>p, <1>0, RowFacts
<1>5. stopEvents' \subseteq StopEvent
      /\ \A e \in stopEvents' :
           e.trip \in 1 .. made /\ e.no \in 1 .. received /\ e.at \in 1 .. clock
  BY <1>0, <1>4 DEF IInv, StopEventsTypeOK, NumbersInv
<1>6. ASSUME ~overlapped, ~late
      PROVE  /\ o.last <= ahead
             /\ \A e, f \in stopEvents' : InOrder(e, f)
             /\ \A e \in stopEvents' : e.trip = objects[task[k].obj].trip =>
                  e.stop < ahead /\ (o.last # NoStop => Behind(e, o.last))
  <2>1. /\ task[k].obj = current /\ w.stop = x.last
        /\ \A e, f \in stopEvents' : InOrder(e, f)
    BY <1>p, <1>0, <1>6, RowsInOrder
  <2>2. /\ m.next # NoStop => m.next = ahead
        /\ x.last <= ahead
        /\ \A e \in stopEvents : e.trip = x.trip => e.stop < ahead
    BY <1>p, <1>0, <1>6, <2>1, CalmFacts
  <2>3. m.next \notin {NoStop, w.stop}
    BY <1>p, <1>0, <1>4, <1>6 DEF IInv, CalmStops
  <2>4. m.next = ahead /\ w.stop < ahead /\ ahead \in Nat
    BY <1>4, <2>1, <2>2, <2>3, Counters
  <2>5. \A e \in stopEvents' : e.trip = x.trip => e.stop < ahead
    BY <1>0, <2>2, <2>4
  <2> QED BY <1>p, <1>2, <2>1, <2>4, <2>5 DEF Behind
<1> QED BY <1>3, <1>5, <1>6, ContinueIInv

(* A handler that ends: nobody is left if handlers never overlapped.       *)
LEMMA Ends ==
  ASSUME IInv, NEW k \in Task, Busied(k), task' = [task EXCEPT ![k] = IdleTask],
         UNCHANGED <<made, received, clock, overlapped>>
  PROVE  /\ task' \in [Task -> TaskRecord]
         /\ task'[k] = IdleTask /\ \A q \in Task : q # k => task'[q] = task[q]
         /\ ~Busied(k)' /\ ~Working(k)' /\ ~Pending(k)'
         /\ ~overlapped => \A q \in Task : ~Busied(q)'
         /\ HandlersInv' /\ CalmHandlers' /\ \A n : Done(n) => Done(n)'
<1>1. /\ task' \in [Task -> TaskRecord]
      /\ task'[k] = IdleTask /\ \A q \in Task : q # k => task'[q] = task[q]
  BY Idles DEF IInv, StopEventsTypeOK
<1>2. ~Busied(k)' /\ ~Working(k)' /\ ~Pending(k)'
  BY <1>1, Idles DEF Busied, Working, Pending
<1>3. ~overlapped => \A q \in Task : ~Busied(q)'
  BY <1>1, <1>2, Alone DEF Busied
<1>4. HandlersInv'
  <2> SUFFICES ASSUME NEW q \in Task
               PROVE  /\ Busied(q)' => /\ task'[q].obj \in 1 .. made
                                       /\ task'[q].ping.no \in 1 .. received
                                       /\ task'[q].ping.at \in 1 .. clock
                      /\ task'[q].pc \in {"stopInsert", "final"} =>
                           /\ task'[q].reached \in Stop
                           /\ task'[q].boarding \in Occ /\ task'[q].alighting \in Occ
    BY DEF HandlersInv
  <2>1. CASE q = k
    BY <1>1, <2>1, Idles DEF Busied
  <2>2. CASE q # k
    BY <1>1, <2>2 DEF IInv, HandlersInv, Busied
  <2> QED BY <2>1, <2>2
<1>5. CalmHandlers'
  <2>1. \A q \in Task : (Working(q)' => Busied(q)') /\ (Writing(q)' => Busied(q)')
    BY DEF Working, Busied, Writing
  <2> QED BY <1>3, <2>1 DEF CalmHandlers
<1>6. \A n : Done(n) => Done(n)'
  BY <1>1, <1>2 DEF Done, Working
<1> QED BY <1>1, <1>2, <1>3, <1>4, <1>5, <1>6

(* A handler that ends and leaves the objects alone, having written a row  *)
(* of stop_events or none.                                                 *)
LEMMA EndsIInv ==
  ASSUME IInv, NEW k \in Task, Busied(k), task' = [task EXCEPT ![k] = IdleTask],
         UNCHANGED <<objects, made, alerts, received, clock, back, overlapped, late>>,
         UNCHANGED <<current, ahead>> \/ (current' = 0 /\ ahead' = NoStop),
         UNCHANGED stopEvents
           \/ (/\ task[k].pc \in {"stopInsert", "final"}
               /\ \E answered \in BOOLEAN : stopEvents' = stopEvents \cup {Row(k, answered)}),
         (current' # 0 /\ ~overlapped /\ ~late) =>
           \A e \in stopEvents' : e.trip = objects[current].trip =>
              /\ e.stop < ahead
              /\ objects[current].last # NoStop => Behind(e, objects[current].last)
  PROVE  IInv'
<1>1. /\ task' \in [Task -> TaskRecord] /\ \A q \in Task : q # k => task'[q] = task[q]
      /\ ~Busied(k)' /\ ~Working(k)' /\ ~Pending(k)'
      /\ ~overlapped => \A q \in Task : ~Busied(q)'
      /\ HandlersInv' /\ CalmHandlers'
  BY Ends
<1>2. /\ stopEvents' \subseteq StopEvent
      /\ \A e \in stopEvents' :
           e.trip \in 1 .. made /\ e.no \in 1 .. received /\ e.at \in 1 .. clock
  <2>1. /\ stopEvents \subseteq StopEvent
        /\ \A e \in stopEvents :
             e.trip \in 1 .. made /\ e.no \in 1 .. received /\ e.at \in 1 .. clock
    BY DEF IInv, StopEventsTypeOK, NumbersInv
  <2>2. ASSUME task[k].pc \in {"stopInsert", "final"}, NEW answered \in BOOLEAN,
               stopEvents' = stopEvents \cup {Row(k, answered)}
        PROVE  /\ stopEvents' \subseteq StopEvent
               /\ \A e \in stopEvents' :
                    e.trip \in 1 .. made /\ e.no \in 1 .. received /\ e.at \in 1 .. clock
    BY <2>1, <2>2, RowFacts
  <2> QED BY <2>1, <2>2
<1>3. StopEventsTypeOK'
  <2>1. current' \in 0 .. made' /\ ahead' \in Stop \cup {NoStop}
    BY Counters DEF IInv, StopEventsTypeOK
  <2> QED BY <1>1, <1>2, <2>1 DEF IInv, StopEventsTypeOK
<1>4. Growing(k)
  <2>1. /\ made \in made .. MaxObj /\ clock \in clock .. MaxTime /\ DOMAIN objects = 1 .. made
        /\ received \in received .. MaxMessages /\ \A i \in 1 .. made : ~(i > made)
    BY Counters DEF IInv, StopEventsTypeOK, Time, Message
  <2> QED BY <1>1, <1>2, <2>1 DEF Growing
<1>5. CalmStops'
  <2> SUFFICES ASSUME ~overlapped, ~late PROVE CalmStops'
    BY DEF CalmStops
  <2>1. CalmStops
    BY DEF IInv
  <2>2. \A e, f \in stopEvents' : InOrder(e, f)
    <3>1. CASE UNCHANGED stopEvents
      BY <2>1, <3>1 DEF CalmStops
    <3>2. ASSUME task[k].pc \in {"stopInsert", "final"}, NEW answered \in BOOLEAN,
                 stopEvents' = stopEvents \cup {Row(k, answered)}
          PROVE  \A e, f \in stopEvents' : InOrder(e, f)
      BY <3>2, RowsInOrder
    <3> QED BY <3>1, <3>2
  <2>3. \A q \in Task : task'[q].pc \notin {"ping", "stopInsert", "final"}
    BY <1>1 DEF Busied
  <2>4. current' # 0 => objects[current].last <= ahead /\ UNCHANGED <<current, ahead>>
    BY <2>1 DEF CalmStops
  <2> QED BY <2>2, <2>3, <2>4 DEF CalmStops, InOrder, Behind, Writing
<1> QED BY <1>1, <1>3, <1>4, <1>5, GrowingTimes, GrowingAlerts DEF IInv

LEMMA HandlerFailsIInv ==
  ASSUME IInv, NEW k \in Task, HandlerFails(k)
  PROVE  IInv'
<1>1. /\ Busied(k) /\ task' = [task EXCEPT ![k] = IdleTask] /\ UNCHANGED stopEvents
      /\ UNCHANGED <<objects, made, alerts, received, clock, back, overlapped, late>>
      /\ UNCHANGED <<current, ahead>>
  BY DEF HandlerFails, Busied
<1>2. (current' # 0 /\ ~overlapped /\ ~late) =>
           \A e \in stopEvents' : e.trip = objects[current].trip =>
              /\ e.stop < ahead
              /\ objects[current].last # NoStop => Behind(e, objects[current].last)
  BY <1>1 DEF IInv, CalmStops
<1> QED BY <1>1, <1>2, EndsIInv

LEMMA FinalInsertedIInv ==
  ASSUME IInv, NEW k \in Task, FinalInserted(k)
  PROVE  IInv'
<1>1. /\ Busied(k) /\ task[k].pc = "final" /\ task' = [task EXCEPT ![k] = IdleTask]
      /\ stopEvents' = stopEvents \cup {Row(k, TRUE)} \/ UNCHANGED stopEvents
      /\ current' = 0 /\ ahead' = NoStop
      /\ UNCHANGED <<objects, made, alerts, received, clock, back, overlapped, late>>
  BY DEF FinalInserted, Busied
<1> QED BY <1>1, EndsIInv

(* The row of the stop the object stays at is not behind it, but was not   *)
(* answered.                                                               *)
LEMMA AnswerLostIInv ==
  ASSUME IInv, NEW k \in Task, AnswerLost(k)
  PROVE  IInv'
<1>p. PICK w : w = Row(k, FALSE)
  OBVIOUS
<1>1. /\ Busied(k) /\ Working(k) /\ task[k].pc = "stopInsert"
      /\ task' = [task EXCEPT ![k] = IdleTask]
      /\ stopEvents' = stopEvents \cup {w}
      /\ UNCHANGED <<objects, made, alerts, received, clock, back, overlapped, late>>
      /\ UNCHANGED <<current, ahead>>
  BY <1>p DEF AnswerLost, Busied, Working
<1>2. ASSUME ~overlapped, ~late
      PROVE  \A e \in stopEvents' : e.trip = objects[current].trip =>
              /\ e.stop < ahead
              /\ objects[current].last # NoStop => Behind(e, objects[current].last)
  <2>1. task[k].obj = current /\ w.stop = objects[current].last /\ ~w.answered
        /\ w.stop \in Nat /\ w.stop = task[k].reached
    BY <1>p, <1>1, <1>2, RowsInOrder, RowFacts
  <2>2. /\ task[k].ping.next # NoStop => task[k].ping.next = ahead
        /\ objects[current].last <= ahead
        /\ \A e \in stopEvents : e.trip = objects[current].trip =>
             /\ e.stop < ahead
             /\ objects[current].last # NoStop => Behind(e, objects[current].last)
    BY <1>1, <1>2, CalmFacts
  <2>3. task[k].ping.next \notin {NoStop, w.stop}
    BY <1>1, <1>2, <2>1 DEF IInv, CalmStops
  <2>4. w.stop < ahead
    BY <2>1, <2>2, <2>3, Counters
  <2> QED BY <1>1, <2>1, <2>2, <2>4 DEF Behind
<1> QED BY <1>p, <1>1, <1>2, EndsIInv

LEMMA AlertInsertedIInv ==
  ASSUME IInv, NEW k \in Task, AlertInserted(k)
  PROVE  IInv'
<1>p. PICK w, j, n : /\ j = task[k].obj /\ n = task[k].began
                     /\ w = [no |-> task[k].ping.no, obj |-> j, began |-> n,
                             since |-> task[k].since, at |-> task[k].ping.at]
  OBVIOUS
<1>0. /\ Busied(k) /\ Pending(k) /\ task' = [task EXCEPT ![k] = IdleTask]
      /\ alerts' = alerts \cup {w}
      /\ UNCHANGED <<objects, made, current, stopEvents, received, clock, ahead, back,
                     overlapped, late>>
  BY <1>p DEF AlertInserted, Busied, Pending
<1>1. /\ task' \in [Task -> TaskRecord] /\ \A q \in Task : q # k => task'[q] = task[q]
      /\ ~Busied(k)' /\ ~Working(k)' /\ ~Pending(k)'
      /\ ~overlapped => \A q \in Task : ~Busied(q)'
      /\ HandlersInv' /\ CalmHandlers' /\ \A i : Done(i) => Done(i)'
  BY <1>0, Ends
<1>2. w.obj \in 1 .. made /\ w.no \in 1 .. received /\ w \in Alert
  <2>1. /\ task[k] \in TaskRecord /\ task[k].ping \in Ping /\ task[k].obj \in Obj
        /\ task[k].obj \in 1 .. made /\ task[k].ping.no \in 1 .. received
    BY <1>0, HandlerTypes DEF IInv, HandlersInv
  <2> QED BY <1>p, <2>1 DEF TaskRecord, Ping, Alert
<1>3. StopEventsTypeOK'
  BY <1>0, <1>1, <1>2 DEF IInv, StopEventsTypeOK
<1>4. NumbersInv'
  <2>1. \A a \in alerts' : a.obj \in 1 .. made /\ a.no \in 1 .. received
    BY <1>0, <1>2 DEF IInv, NumbersInv
  <2>2. \A q \in Task : Working(q)' => Working(q) /\ task'[q] = task[q]
    BY <1>1 DEF Working
  <2> QED BY <1>0, <2>1, <2>2 DEF IInv, NumbersInv
<1>5. \A q \in Task : Pending(q)' => q # k /\ Pending(q) /\ task'[q] = task[q]
  BY <1>1 DEF Pending
<1>6. AlertsInv'
  <2>0. \A i, c : Episode(i, c) => Episode(i, c)'
    BY <1>0, <1>1 DEF Episode
  <2>1. /\ Episode(j, n) /\ Long(w.since, w.at)
        /\ \A a \in alerts : ~(a.obj = j /\ a.began = n)
        /\ \A q \in Task : (Pending(q) /\ q # k) => ~(task[q].obj = j /\ task[q].began = n)
    BY <1>p, <1>0 DEF IInv, AlertsInv
  <2>2. \A a \in alerts' : Episode(a.obj, a.began)' /\ Long(a.since, a.at)
    BY <1>p, <1>0, <2>0, <2>1 DEF IInv, AlertsInv
  <2>3. ASSUME NEW q \in Task, Pending(q)'
        PROVE  /\ Episode(task[q].obj, task[q].began)' /\ Long(task'[q].since, task'[q].ping.at)
               /\ \A a \in alerts' : ~(a.obj = task'[q].obj /\ a.began = task'[q].began)
               /\ \A i \in Task : (Pending(i)' /\ i # q) =>
                    ~(task'[i].obj = task'[q].obj /\ task'[i].began = task'[q].began)
    <3>1. q # k /\ Pending(q) /\ task'[q] = task[q]
      BY <1>5, <2>3
    <3>2. PICK i, c : i = task[q].obj /\ c = task[q].began
      OBVIOUS
    <3>3. Episode(i, c)' /\ Long(task[q].since, task[q].ping.at)
      BY <2>0, <3>1, <3>2 DEF IInv, AlertsInv
    <3>4. \A a \in alerts' : ~(a.obj = task[q].obj /\ a.began = task[q].began)
      BY <1>p, <1>0, <2>1, <3>1 DEF IInv, AlertsInv
    <3>5. \A r \in Task : (Pending(r)' /\ r # q) =>
                    ~(task'[r].obj = task[q].obj /\ task'[r].began = task[q].began)
      BY <1>5, <3>1 DEF IInv, AlertsInv
    <3> QED BY <3>1, <3>2, <3>3, <3>4, <3>5 DEF Episode, Done
  <2>4. \A a, b \in alerts' : (a.obj = b.obj /\ a.began = b.began) => a = b
    BY <1>p, <1>0, <2>1 DEF IInv, AlertsInv
  <2>5. \A i \in 1 .. made : objects[i].began # 0 => Done(objects[i].began)'
    <3> SUFFICES ASSUME NEW i \in 1 .. made, NEW c, c = objects[i].began, c # 0 PROVE Done(c)'
      BY <1>0 DEF Done
    <3> QED BY <1>1 DEF IInv, AlertsInv
  <2> QED BY <1>0, <2>2, <2>3, <2>4, <2>5 DEF AlertsInv, Done
<1>7. CalmAlerts'
  <2> SUFFICES ASSUME ~overlapped PROVE CalmAlerts'
    BY <1>0 DEF CalmAlerts
  <2>1. Off(j, n, w.no)
    BY <1>p, <1>0 DEF IInv, CalmAlerts
  <2>2. \A a \in alerts' : Off(a.obj, a.began, a.no)
    BY <1>p, <1>0, <2>1 DEF IInv, CalmAlerts
  <2>3. \A q \in Task : ~Pending(q)'
    BY <1>1 DEF Pending, Busied
  <2> QED BY <1>0, <2>2, <2>3 DEF IInv, CalmAlerts, Off
<1>8. CalmStops'
  BY <1>0, <1>1 DEF IInv, CalmStops, Busied, InOrder, Behind, Writing
<1> QED BY <1>1, <1>3, <1>4, <1>6, <1>7, <1>8 DEF IInv

(* A TripState object made for a trip of its own or for a known one.       *)
LEMMA Replaced ==
  ASSUME IInv, NEW t \in 1 .. (made + 1), NEW occ \in Occ, NEW real \in BOOLEAN,
         Replace(t, occ, real)
  PROVE  /\ made' = made + 1 /\ made' \in made .. MaxObj /\ current' = made'
         /\ objects' \in [1 .. made' -> TripState]
         /\ \A i \in 1 .. made : objects'[i] = objects[i]
         /\ objects'[made'].last = NoStop /\ objects'[made'].trip = t
         /\ objects'[made'].since = 0 /\ objects'[made'].began = 0
<1>1. made \in Nat /\ made < MaxObj /\ made' = made + 1 /\ current' = made + 1
      /\ objects \in [1 .. made -> TripState]
  BY Counters DEF Replace, IInv, StopEventsTypeOK
<1> DEFINE n == [trip |-> t, last |-> NoStop, occ |-> occ, since |-> 0,
                 alerted |-> FALSE, base |-> occ, began |-> 0, real |-> real]
<1>2. n \in TripState /\ n.last = NoStop /\ n.trip = t /\ n.since = 0 /\ n.began = 0
  <2>1. t \in Obj /\ occ \in Int
    BY <1>1, Numbers DEF Obj
  <2> QED BY <2>1, Numbers DEF TripState
<1>3. objects' = [o \in 1 .. (made + 1) |-> IF o = made + 1 THEN n ELSE objects[o]]
  BY DEF Replace
<1> HIDE DEF n
<1>4. \A o \in 1 .. (made + 1) : o # made + 1 => o \in 1 .. made
  BY <1>1
<1> QED BY <1>1, <1>2, <1>3, <1>4

(* The table of a step that may make an object.                            *)
LEMMA ReplacedOrSame ==
  ASSUME IInv, NEW t \in 1 .. (made + 1), NEW occ \in Occ, NEW real \in BOOLEAN,
         Replace(t, occ, real) \/ UNCHANGED <<objects, made, current>>
  PROVE  /\ made' \in made .. MaxObj /\ current' \in 0 .. made'
         /\ objects' \in [1 .. made' -> TripState]
         /\ \A i \in 1 .. made : objects'[i] = objects[i]
         /\ \A i \in 1 .. made' : i > made =>
              objects'[i].since = 0 /\ objects'[i].began = 0 /\ objects'[i].trip \in 1 .. made'
<1>1. CASE Replace(t, occ, real)
  BY <1>1, Replaced, Counters
<1>2. CASE UNCHANGED <<objects, made, current>>
  BY <1>2, Counters DEF IInv, StopEventsTypeOK
<1> QED BY <1>1, <1>2

(* A message comes.                                                        *)
LEMMA Receives ==
  ASSUME IInv, NEW at \in Time \ {0}, Receive(at)
  PROVE  /\ received \in Nat /\ received' = received + 1 /\ received + 1 \in Message
         /\ received' \in received .. MaxMessages /\ received + 1 \in 1 .. received'
         /\ clock \in Nat /\ clock' \in clock .. MaxTime /\ clock' \in Time
         /\ at \in 1 .. clock' /\ (at > clock => clock' = at)
         /\ overlapped' \in BOOLEAN /\ (overlapped => overlapped')
         /\ ~overlapped' => ~overlapped /\ \A q \in Task : ~Busied(q)
<1>1. /\ clock \in Nat /\ clock \in 0 .. MaxTime /\ received \in Nat /\ at \in Nat \ {0}
      /\ at \in 0 .. MaxTime
  BY Counters DEF IInv, StopEventsTypeOK, Time
<1>2. /\ received < MaxMessages /\ received' = received + 1
      /\ clock' = IF at > clock THEN at ELSE clock
      /\ overlapped' = (overlapped \/ Busy)
  BY DEF Receive
<1>3. clock' \in clock .. MaxTime /\ clock' \in Time /\ at \in 1 .. clock'
      /\ (at > clock => clock' = at)
  BY <1>1, <1>2 DEF Time
<1>4. /\ overlapped' \in BOOLEAN /\ (overlapped => overlapped')
      /\ ~overlapped' => ~overlapped /\ \A q \in Task : ~Busied(q)
  BY <1>2 DEF Busy, Busied, IInv, StopEventsTypeOK
<1> QED BY <1>1, <1>2, <1>3, <1>4 DEF Message

(* A handler is taken up, or none, and the objects known stay.             *)
LEMMA TakesUp ==
  ASSUME IInv, NEW k \in Task, task[k].pc = "idle", NEW w \in TaskRecord,
         task' = [task EXCEPT ![k] = w] \/ UNCHANGED task,
         made' \in made .. MaxObj, received' \in received .. MaxMessages,
         clock' \in clock .. MaxTime,
         /\ w.obj \in 1 .. made' /\ w.ping.no \in 1 .. received' /\ w.ping.at \in 1 .. clock'
         /\ w.pc \in {"stopInsert", "final"} =>
              w.reached \in Stop /\ w.boarding \in Occ /\ w.alighting \in Occ
  PROVE  /\ HandlersInv' /\ task' \in [Task -> TaskRecord]
         /\ task'[k] = w \/ ~Busied(k)'
         /\ \A q \in Task : q # k => task'[q] = task[q]
         /\ \A e \in stopEvents : e.trip \in 1 .. made' /\ e.no \in 1 .. received'
                                  /\ e.at \in 1 .. clock'
<1>1. /\ task' \in [Task -> TaskRecord] /\ (task'[k] = w \/ ~Busied(k)')
      /\ \A q \in Task : q # k => task'[q] = task[q]
  BY DEF IInv, StopEventsTypeOK, Busied
<1>2. made \in Nat /\ received \in Nat /\ clock \in Nat
  BY Counters
<1>3. ASSUME NEW i \in Int
      PROVE  /\ i \in 1 .. made => i \in 1 .. made'
             /\ i \in 1 .. received => i \in 1 .. received'
             /\ i \in 1 .. clock => i \in 1 .. clock'
  BY <1>2
<1>4. ASSUME NEW q \in Task
      PROVE  /\ Busied(q)' => /\ task'[q].obj \in 1 .. made'
                              /\ task'[q].ping.no \in 1 .. received'
                              /\ task'[q].ping.at \in 1 .. clock'
             /\ task'[q].pc \in {"stopInsert", "final"} =>
                  /\ task'[q].reached \in Stop
                  /\ task'[q].boarding \in Occ /\ task'[q].alighting \in Occ
  <2>1. CASE task'[q] = w
    BY <2>1
  <2>2. CASE task'[q] = task[q]
    <3>1. task'[q].pc \in {"stopInsert", "final"} =>
            /\ task'[q].reached \in Stop
            /\ task'[q].boarding \in Occ /\ task'[q].alighting \in Occ
      BY <2>2 DEF IInv, HandlersInv
    <3>2. ASSUME Busied(q)'
          PROVE  /\ task'[q].obj \in 1 .. made' /\ task'[q].ping.no \in 1 .. received'
                 /\ task'[q].ping.at \in 1 .. clock'
      <4>1. /\ task[q].obj \in 1 .. made /\ task[q].ping.no \in 1 .. received
            /\ task[q].ping.at \in 1 .. clock
        BY <2>2, <3>2 DEF IInv, HandlersInv, Busied
      <4> QED BY <1>3, <2>2, <4>1
    <3> QED BY <3>1, <3>2
  <2>3. CASE q = k /\ ~Busied(k)'
    BY <2>3 DEF Busied
  <2> QED BY <1>1, <2>1, <2>2, <2>3
<1>5. HandlersInv'
  BY <1>4 DEF HandlersInv
<1>6. \A e \in stopEvents : e.trip \in 1 .. made' /\ e.no \in 1 .. received'
                            /\ e.at \in 1 .. clock'
  <2> TAKE e \in stopEvents
  <2>1. e.trip \in 1 .. made /\ e.no \in 1 .. received /\ e.at \in 1 .. clock
    BY DEF IInv, NumbersInv
  <2> QED BY <1>3, <2>1
<1> QED BY <1>1, <1>5, <1>6

(* What a position says.                                                   *)
LEMMA PositionFields ==
  \A p \in Positions : p.next \in Stop \cup {NoStop} /\ p.off \in BOOLEAN /\ p.occ \in Occ
BY StopAssumption DEF Stop, NoStop, Occ

LEMMA ReceivePingIInv ==
  ASSUME IInv, NEW k \in Task, NEW at \in Time \ {0}, NEW next \in Stop \cup {NoStop},
         NEW off \in BOOLEAN, NEW occ \in Occ, ReceivePing(k, at, next, off, occ)
  PROVE  IInv'
<1>p. PICK m, w : /\ m = [no |-> received + 1, at |-> at, next |-> next, off |-> off,
                          occ |-> occ]
                  /\ w = [IdleTask EXCEPT !.pc = "ping", !.obj = current', !.ping = m]
  OBVIOUS
<1>0. /\ task[k].pc = "idle" /\ Receive(at)
      /\ task' = [task EXCEPT ![k] = w]
      /\ ahead' = IF next = NoStop /\ current' = current THEN ahead ELSE next
      /\ late' = (late \/ at <= clock \/ (current' = current /\ next # NoStop /\ next < ahead))
      /\ UNCHANGED <<stopEvents, alerts, back>>
      /\ \/ current # 0 /\ UNCHANGED <<objects, made, current>>
         \/ Replace(made + 1, occ, FALSE)
  BY <1>p DEF ReceivePing
<1>r. /\ received \in Nat /\ received' = received + 1 /\ received + 1 \in Message
      /\ received' \in received .. MaxMessages /\ received + 1 \in 1 .. received'
      /\ clock \in Nat /\ clock' \in clock .. MaxTime /\ clock' \in Time
      /\ at \in 1 .. clock' /\ (at > clock => clock' = at)
      /\ overlapped' \in BOOLEAN /\ (overlapped => overlapped')
      /\ ~overlapped' => ~overlapped /\ \A q \in Task : ~Busied(q)
  BY <1>0, Receives
<1>n. /\ made \in Nat /\ ahead \in Nat /\ current \in 0 .. made /\ late \in BOOLEAN
      /\ made + 1 \in 1 .. (made + 1) /\ next \in Nat /\ NoStop = 0 /\ at \in Nat
  BY Counters, Numbers DEF IInv, StopEventsTypeOK
<1>l. ~late' => /\ ~late /\ ~(at <= clock)
                /\ ~(current' = current /\ next # NoStop /\ next < ahead)
  BY <1>0, Zenon
<1>1. /\ made' \in made .. MaxObj /\ current' \in 0 .. made'
      /\ objects' \in [1 .. made' -> TripState]
      /\ \A i \in 1 .. made : objects'[i] = objects[i]
      /\ \A i \in 1 .. made' : i > made =>
           objects'[i].since = 0 /\ objects'[i].began = 0 /\ objects'[i].trip \in 1 .. made'
  BY <1>0, <1>n, ReplacedOrSame
<1>2. current' # 0 /\ current' \in 1 .. made' /\ current' \in Obj
  <2>1. current' # 0
    <3>1. CASE current # 0 /\ UNCHANGED <<objects, made, current>>
      BY <3>1
    <3>2. CASE Replace(made + 1, occ, FALSE)
      <4>1. made' = made + 1 /\ current' = made + 1
        BY <3>2 DEF Replace
      <4> QED BY <1>n, <4>1
    <3> QED BY <1>0, <3>1, <3>2
  <2> QED BY <1>1, <2>1, <1>n DEF Obj
<1>3. /\ m \in Ping /\ w \in TaskRecord /\ w.pc = "ping" /\ w.obj = current' /\ w.ping = m
      /\ m.no = received + 1 /\ m.at = at /\ m.next = next
  <2>1. m \in Ping /\ m.no = received + 1 /\ m.at = at /\ m.next = next
    BY <1>p, <1>r DEF Ping
  <2> QED BY <1>p, <1>2, <2>1, Idles DEF TaskRecord, IdleTask
<1>4. /\ HandlersInv' /\ task' \in [Task -> TaskRecord]
      /\ \A q \in Task : q # k => task'[q] = task[q]
      /\ \A e \in stopEvents : e.trip \in 1 .. made' /\ e.no \in 1 .. received'
                               /\ e.at \in 1 .. clock'
  BY <1>0, <1>1, <1>2, <1>3, <1>r, TakesUp
<1>k. task'[k] = w
  BY <1>0 DEF IInv, StopEventsTypeOK
<1>5. StopEventsTypeOK'
  <2>1. made' \in 0 .. MaxObj /\ ahead' \in Stop \cup {NoStop} /\ late' \in BOOLEAN
    BY <1>0, <1>1, <1>n DEF IInv, StopEventsTypeOK
  <2> QED BY <1>0, <1>1, <1>4, <1>r, <2>1 DEF IInv, StopEventsTypeOK
<1>7. Growing(k)
  <2>1. ~Pending(k)' /\ task'[k].ping.no > received
    BY <1>3, <1>k, <1>r DEF Pending
  <2>2. \A e \in stopEvents' : e.trip \in 1 .. made' /\ e.no \in 1 .. received'
                               /\ e.at \in 1 .. clock'
    BY <1>0, <1>4
  <2>3. DOMAIN objects' = 1 .. made'
    BY <1>1
  <2> QED BY <1>0, <1>1, <1>4, <1>r, <2>1, <2>2, <2>3 DEF Growing
<1>8. ASSUME ~overlapped'
      PROVE  ~overlapped /\ \A q \in Task : Busied(q)' => q = k
  BY <1>4, <1>8, <1>r DEF Busied
<1>e. (\A e \in stopEvents : e.no < received' /\ e.at <= clock) /\ (\A e \in back : e.no < received')
      /\ \A a \in alerts : a.no < received'
  <2>1. (\A e \in stopEvents : e.no \in 1 .. received /\ e.at \in 1 .. clock)
        /\ (\A e \in back : e.no \in 1 .. received) /\ \A a \in alerts : a.no \in 1 .. received
    BY DEF IInv, NumbersInv
  <2> QED BY <1>r, <2>1
<1>9. CalmHandlers'
  <2> SUFFICES ASSUME ~overlapped' PROVE CalmHandlers'
    BY DEF CalmHandlers
  <2>1. /\ ~late' => at = clock'
        /\ next # NoStop => next = ahead'
    BY <1>0, <1>l, <1>n, <1>r
  <2>2. \A q \in Task : Busied(q)' => /\ task'[q].obj = current' /\ task'[q].ping.no = received'
                                      /\ ~late' => task'[q].ping.at = clock'
    BY <1>3, <1>8, <1>k, <1>r, <2>1
  <2>3. \A q \in Task : Working(q)' =>
          ((~late' /\ task'[q].ping.next # NoStop) => task'[q].ping.next = ahead')
    BY <1>3, <1>8, <1>k, <2>1 DEF Working, Busied
  <2> QED BY <1>0, <1>8, <1>e, <2>2, <2>3 DEF CalmHandlers
<1>10. CalmStops'
  <2> SUFFICES ASSUME ~overlapped', ~late' PROVE CalmStops'
    BY DEF CalmStops
  <2>0. /\ ~overlapped /\ ~late /\ clock' = at /\ clock < clock'
        /\ current' = current /\ next # NoStop => ~(next < ahead)
    BY <1>8, <1>l, <1>r, <1>n
  <2>1. \A q \in Task : task'[q].pc \notin {"stopInsert", "final"}
    BY <1>3, <1>8, <1>k DEF Busied
  <2>2. \A e \in stopEvents : e.at < clock'
    <3>1. \A e \in stopEvents : e.at \in Nat
      BY Numbers DEF IInv, StopEventsTypeOK, StopEvent
    <3> QED BY <1>e, <1>r, <2>0, <3>1
  <2>3. /\ objects'[current'].last <= ahead'
        /\ \A e \in stopEvents : e.trip = objects'[current'].trip =>
             /\ e.stop < ahead'
             /\ objects'[current'].last # NoStop => Behind(e, objects'[current'].last)
    <3>1. CASE current # 0 /\ UNCHANGED <<objects, made, current>>
      <4>1. /\ objects[current].last <= ahead
            /\ \A e \in stopEvents : e.trip = objects[current].trip =>
                 /\ e.stop < ahead
                 /\ objects[current].last # NoStop => Behind(e, objects[current].last)
        BY <2>0, <3>1 DEF IInv, CalmStops
      <4>2. ahead <= ahead' /\ ahead' \in Nat
        BY <1>0, <1>n, <2>0, <3>1
      <4>3. objects[current].last \in Nat
        <5>1. current \in 1 .. made /\ objects[current] \in TripState
          BY <1>n, <3>1 DEF IInv, StopEventsTypeOK
        <5> QED BY <5>1, Numbers DEF TripState
      <4>4. \A e \in stopEvents : e.stop \in Nat
        <5>1. \A e \in stopEvents : e.stop \in Stop
          BY DEF IInv, StopEventsTypeOK, StopEvent
        <5> QED BY <5>1, Numbers
      <4> QED BY <1>n, <3>1, <4>1, <4>2, <4>3, <4>4
    <3>2. CASE Replace(made + 1, occ, FALSE)
      <4>1. made' = made + 1 /\ current' = made + 1
        BY <3>2 DEF Replace
      <4>4. objects'[current'].last = NoStop /\ objects'[current'].trip = made + 1
        BY <1>n, <3>2, <4>1 DEF Replace
      <4>2. \A e \in stopEvents : e.trip # made + 1
        BY <1>n DEF IInv, NumbersInv
      <4>3. NoStop <= ahead'
        BY <1>0, <1>n, <4>1
      <4> QED BY <4>2, <4>3, <4>4
    <3> QED BY <1>0, <3>1, <3>2
  <2>4. \A e, f \in stopEvents : InOrder(e, f)
    BY <2>0 DEF IInv, CalmStops
  <2> QED BY <1>0, <2>1, <2>2, <2>3, <2>4 DEF CalmStops, InOrder, Behind
<1> QED BY <1>4, <1>5, <1>7, <1>9, <1>10, GrowingTimes, GrowingAlerts DEF IInv

(* A trip_start while nobody is busy: stops recorded for the trip before   *)
(* are behind the one it is still approaching.                             *)
LEMMA TripStartIInv ==
  ASSUME IInv, TripStart
  PROVE  IInv'
<1>1. PICK t \in {made + 1} \cup
                   {objects[o].trip : o \in {c \in {current} \ {0} : objects[c].real}} :
        /\ Replace(t, 0, TRUE)
        /\ ahead' = IF t = made + 1 THEN NoStop ELSE ahead
  BY DEF TripStart
<1>0. /\ overlapped' = (overlapped \/ Busy)
      /\ UNCHANGED <<task, stopEvents, alerts, received, clock, back, late>>
  BY DEF TripStart
<1>n. /\ made \in Nat /\ clock \in 0 .. MaxTime /\ ahead \in Nat /\ current \in 0 .. made
      /\ received \in 0 .. MaxMessages /\ NoStop = 0 /\ 0 \in Occ
  BY Counters, Numbers DEF Time, Message, IInv, StopEventsTypeOK
<1>2. /\ t \in 1 .. (made + 1)
      /\ t # made + 1 => current # 0 /\ t = objects[current].trip
  <2>1. CASE t = made + 1
    BY <1>n, <2>1
  <2>2. CASE t # made + 1
    <3>1. current # 0 /\ t = objects[current].trip
      BY <1>1, <2>2
    <3>2. t \in 1 .. made
      BY <1>n, <3>1 DEF IInv, NumbersInv
    <3> QED BY <1>n, <3>1, <3>2
  <2> QED BY <2>1, <2>2
<1>3. /\ made' = made + 1 /\ made' \in made .. MaxObj /\ current' = made'
      /\ objects' \in [1 .. made' -> TripState]
      /\ \A i \in 1 .. made : objects'[i] = objects[i]
      /\ objects'[made'].last = NoStop /\ objects'[made'].trip = t
      /\ objects'[made'].since = 0 /\ objects'[made'].began = 0
  BY <1>1, <1>2, <1>n, Replaced
<1>4. StopEventsTypeOK'
  <2>1. made' \in 0 .. MaxObj /\ current' \in 0 .. made' /\ ahead' \in Stop \cup {NoStop}
    BY <1>1, <1>3, <1>n DEF IInv, StopEventsTypeOK
  <2>2. overlapped' \in BOOLEAN
    BY <1>0 DEF Busy, IInv, StopEventsTypeOK
  <2> QED BY <1>0, <1>3, <2>1, <2>2 DEF IInv, StopEventsTypeOK
<1>5. HandlersInv'
  <2>1. ASSUME NEW q \in Task, Busied(q)
        PROVE  task[q].obj \in 1 .. made'
    <3>1. task[q].obj \in 1 .. made
      BY <2>1 DEF IInv, HandlersInv
    <3> QED BY <1>3, <1>n, <3>1
  <2> QED BY <1>0, <2>1 DEF IInv, HandlersInv, Busied
<1>6. Growing(0)
  <2>1. \A i \in 1 .. made' : i > made => i = made'
    BY <1>3, <1>n
  <2>2. \A e \in stopEvents' : e.trip \in 1 .. made' /\ e.no \in 1 .. received'
                               /\ e.at \in 1 .. clock'
    <3> TAKE e \in stopEvents'
    <3>1. e.trip \in 1 .. made /\ e.no \in 1 .. received /\ e.at \in 1 .. clock
      BY <1>0 DEF IInv, NumbersInv
    <3> QED BY <1>0, <1>3, <1>n, <3>1
  <2>3. /\ clock' \in clock .. MaxTime /\ received' \in received .. MaxMessages
        /\ DOMAIN objects' = 1 .. made' /\ t \in 1 .. made'
    BY <1>0, <1>2, <1>3, <1>n
  <2> QED BY <1>0, <1>3, <2>1, <2>2, <2>3 DEF Growing, Pending, Working
<1>7. ASSUME ~overlapped'
      PROVE  ~overlapped /\ \A q \in Task : ~Busied(q)'
  BY <1>0, <1>7 DEF Busy, Busied
<1>8. CalmHandlers'
  BY <1>7 DEF CalmHandlers, Busied, Working, Writing
<1>9. CalmStops'
  <2> SUFFICES ASSUME ~overlapped', ~late' PROVE CalmStops'
    BY DEF CalmStops
  <2>0. ~overlapped /\ ~late
    BY <1>0, <1>7
  <2>1. \A e \in stopEvents : e.trip = t => e.stop < ahead'
    <3>1. CASE t = made + 1
      BY <1>n, <3>1 DEF IInv, NumbersInv
    <3>2. CASE t # made + 1
      BY <1>1, <1>2, <2>0, <3>2 DEF IInv, CalmStops
    <3> QED BY <3>1, <3>2
  <2>2. NoStop <= ahead'
    BY <1>1, <1>n
  <2>3. \A e, f \in stopEvents : InOrder(e, f)
    BY <2>0 DEF IInv, CalmStops
  <2>4. \A q \in Task : task'[q].pc \notin {"ping", "stopInsert", "final"}
    BY <1>7 DEF Busied
  <2> QED BY <1>0, <1>3, <2>1, <2>2, <2>3, <2>4 DEF CalmStops, InOrder, Behind, Writing
<1> QED BY <1>4, <1>5, <1>6, <1>8, <1>9, GrowingTimes, GrowingAlerts DEF IInv

(* The final stop of the trip cached is on its way, or nothing is left to  *)
(* record and the entry goes.                                              *)
LEMMA TripEndIInv ==
  ASSUME IInv, NEW k \in Task, NEW at \in Time \ {0}, TripEnd(k, at)
  PROVE  IInv'
<1>p. PICK x, m, w : /\ x = objects[current]
                     /\ m = [NoPing EXCEPT !.no = received + 1, !.at = at]
                     /\ w = [IdleTask EXCEPT !.pc = "final", !.obj = current,
                                             !.ping = m, !.reached = x.last]
  OBVIOUS
<1>0. /\ task[k].pc = "idle" /\ current # 0 /\ Receive(at)
      /\ late' = (late \/ at <= clock)
      /\ UNCHANGED <<objects, made, stopEvents, alerts, back>>
  BY DEF TripEnd
<1>r. /\ received \in Nat /\ received' = received + 1 /\ received + 1 \in Message
      /\ received' \in received .. MaxMessages /\ received + 1 \in 1 .. received'
      /\ clock \in Nat /\ clock' \in clock .. MaxTime /\ clock' \in Time
      /\ at \in 1 .. clock' /\ (at > clock => clock' = at)
      /\ overlapped' \in BOOLEAN /\ (overlapped => overlapped')
      /\ ~overlapped' => ~overlapped /\ \A q \in Task : ~Busied(q)
  BY <1>0, Receives
<1>n. /\ made \in Nat /\ made \in made .. MaxObj /\ ahead \in Nat /\ at \in Nat
      /\ late \in BOOLEAN /\ current \in 1 .. made /\ current \in Obj /\ NoStop = 0 /\ 0 \in Occ
      /\ x \in TripState /\ task[k] \in TaskRecord /\ task \in [Task -> TaskRecord]
  <2>1. /\ made \in Nat /\ made \in made .. MaxObj /\ ahead \in Nat /\ at \in Nat
        /\ late \in BOOLEAN
    BY Counters DEF Time, IInv, StopEventsTypeOK
  <2>2. current \in 1 .. made /\ current \in Obj
    BY <1>0, <2>1 DEF Obj, IInv, StopEventsTypeOK
  <2>3. x \in TripState /\ task[k] \in TaskRecord /\ task \in [Task -> TaskRecord]
    BY <1>p, <2>2 DEF IInv, StopEventsTypeOK
  <2> QED BY <2>1, <2>2, <2>3, Numbers
<1>l. ~late' => ~late /\ ~(at <= clock)
  BY <1>0, Zenon
<1>1. m \in Ping /\ m.no = received + 1 /\ m.at = at
  BY <1>p, <1>r, Idles, Numbers DEF NoPing, Ping
<1>2. \/ /\ x.last \in Stop /\ w \in TaskRecord /\ w.pc = "final" /\ w.obj = current
         /\ w.ping = m /\ w.reached = x.last /\ w.boarding \in Occ /\ w.alighting \in Occ
         /\ task' = [task EXCEPT ![k] = w] /\ UNCHANGED <<current, ahead>>
      \/ current' = 0 /\ ahead' = NoStop /\ UNCHANGED task
  <2>1. CASE Recordable(x.last)
    <3>1. x.last \in Stop
      BY <2>1 DEF Recordable, Stop
    <3>2. /\ w \in TaskRecord /\ w.pc = "final" /\ w.obj = current
          /\ w.ping = m /\ w.reached = x.last /\ w.boarding = 0 /\ w.alighting = 0
      BY <1>p, <1>n, <1>1, <3>1, Idles DEF IdleTask, TaskRecord
    <3>3. w = [IdleTask EXCEPT !.pc = "final", !.obj = current, !.ping.no = received + 1,
                               !.ping.at = at, !.reached = x.last]
      BY <1>p DEF IdleTask
    <3>4. task' = [task EXCEPT ![k] = w] /\ UNCHANGED <<current, ahead>>
      BY <1>p, <2>1, <3>3 DEF TripEnd
    <3> QED BY <1>n, <3>1, <3>2, <3>4
  <2>2. CASE ~Recordable(x.last)
    BY <1>p, <2>2 DEF TripEnd
  <2> QED BY <2>1, <2>2
<1>3. /\ task' \in [Task -> TaskRecord] /\ \A q \in Task : q # k => task'[q] = task[q]
      /\ \/ task'[k] = w /\ w.pc = "final" /\ w.obj = current /\ w.ping = m
            /\ w.reached = x.last /\ UNCHANGED <<current, ahead>>
         \/ task'[k] = task[k] /\ current' = 0 /\ ahead' = NoStop
  BY <1>n, <1>2
<1>4. StopEventsTypeOK'
  <2>1. current' \in 0 .. made' /\ ahead' \in Stop \cup {NoStop} /\ late' \in BOOLEAN
    BY <1>0, <1>n, <1>3 DEF IInv, StopEventsTypeOK
  <2> QED BY <1>0, <1>3, <1>r, <2>1 DEF IInv, StopEventsTypeOK
<1>5. HandlersInv'
  <2>1. CASE UNCHANGED task
    <3> SUFFICES ASSUME NEW q \in Task, Busied(q)
                 PROVE  task[q].ping.no \in 1 .. received' /\ task[q].ping.at \in 1 .. clock'
      BY <1>0, <2>1 DEF IInv, HandlersInv, Busied
    <3>1. task[q].ping.no \in 1 .. received /\ task[q].ping.at \in 1 .. clock
      BY DEF IInv, HandlersInv
    <3> QED BY <1>r, <3>1
  <2>2. CASE /\ w \in TaskRecord /\ w.obj = current /\ w.ping = m /\ w.reached = x.last
             /\ x.last \in Stop /\ w.boarding \in Occ /\ w.alighting \in Occ
             /\ task' = [task EXCEPT ![k] = w]
    <3>1. /\ w.obj \in 1 .. made' /\ w.ping.no \in 1 .. received'
          /\ w.ping.at \in 1 .. clock' /\ w.reached \in Stop
          /\ made' \in made .. MaxObj
      BY <1>0, <1>1, <1>n, <1>r, <2>2
    <3> QED BY <1>0, <1>r, <2>2, <3>1, TakesUp
  <2> QED BY <1>2, <2>1, <2>2
<1>6. Growing(k)
  <2>1. ~Pending(k)' /\ ~Working(k)'
    BY <1>0, <1>3 DEF Pending, Working
  <2>2. \A e \in stopEvents' : e.trip \in 1 .. made' /\ e.no \in 1 .. received'
                               /\ e.at \in 1 .. clock'
    <3> TAKE e \in stopEvents'
    <3>1. e.trip \in 1 .. made /\ e.no \in 1 .. received /\ e.at \in 1 .. clock
      BY <1>0 DEF IInv, NumbersInv
    <3> QED BY <1>0, <1>r, <3>1
  <2>3. DOMAIN objects' = 1 .. made' /\ \A i \in 1 .. made : ~(i > made)
    BY <1>0, <1>n DEF IInv, StopEventsTypeOK
  <2> QED BY <1>0, <1>n, <1>r, <1>3, <2>1, <2>2, <2>3 DEF Growing
<1>7. ASSUME ~overlapped'
      PROVE  /\ ~overlapped
             /\ \A q \in Task : Busied(q)' => q = k /\ task'[k] = w /\ current' = current
  BY <1>0, <1>3, <1>7, <1>r DEF Busied
<1>e. \A e \in stopEvents : e.no < received' /\ (~late' => e.at < clock')
  <2> TAKE e \in stopEvents
  <2>1. e.no \in 1 .. received /\ e.at \in 1 .. clock
    BY DEF IInv, NumbersInv
  <2>2. ~late' => clock < clock'
    BY <1>l, <1>n, <1>r
  <2> QED BY <1>r, <2>1, <2>2
<1>8. CalmHandlers'
  <2> SUFFICES ASSUME ~overlapped' PROVE CalmHandlers'
    BY DEF CalmHandlers
  <2>0. ~late' => clock' = at
    BY <1>l, <1>n, <1>r
  <2>1. \A q \in Task : Busied(q)' => /\ task'[q].obj = current' /\ task'[q].ping.no = received'
                                      /\ ~late' => task'[q].ping.at = clock'
    <3> SUFFICES ASSUME NEW q \in Task, Busied(q)'
                 PROVE  /\ task'[q].obj = current' /\ task'[q].ping.no = received'
                        /\ ~late' => task'[q].ping.at = clock'
      OBVIOUS
    <3>1. q = k /\ w.obj = current' /\ task'[k] = w /\ w.ping = m
      BY <1>0, <1>3, <1>7 DEF Busied
    <3> QED BY <1>1, <1>r, <2>0, <3>1
  <2>2. \A q \in Task : ~Working(q)'
    <3> SUFFICES ASSUME NEW q \in Task, Working(q)' PROVE FALSE
      OBVIOUS
    <3>1. Busied(q)' /\ task'[q].pc \in {"ping", "stopInsert"}
      BY DEF Working, Busied
    <3>2. q = k /\ task'[k].pc \in {"final", "idle"}
      BY <1>0, <1>3, <1>7, <3>1
    <3> QED BY <3>1, <3>2
  <2>3. \A p, q \in Task : (Busied(p)' /\ Busied(q)') => p = q
    BY <1>7
  <2> QED BY <1>0, <1>e, <2>1, <2>2, <2>3 DEF CalmHandlers
<1>9. CalmStops'
  <2> SUFFICES ASSUME ~overlapped', ~late' PROVE CalmStops'
    BY DEF CalmStops
  <2>0. ~overlapped /\ ~late
    BY <1>0, <1>7
  <2>1. \A q \in Task : task'[q].pc \in {"stopInsert", "final"} =>
          task'[q].reached = objects[task'[q].obj].last
    <3> SUFFICES ASSUME NEW q \in Task, task'[q].pc \in {"stopInsert", "final"}
                 PROVE  task'[q].reached = objects[task'[q].obj].last
      OBVIOUS
    <3>1. q = k /\ task'[k] = w
      BY <1>7 DEF Busied
    <3>2. w.obj = current /\ w.reached = x.last
      BY <1>0, <1>3, <3>1
    <3> QED BY <1>p, <3>1, <3>2
  <2>2. \A q \in Task : task'[q].pc # "stopInsert"
    <3> SUFFICES ASSUME NEW q \in Task, task'[q].pc = "stopInsert" PROVE FALSE
      OBVIOUS
    <3>1. q = k
      BY <1>7 DEF Busied
    <3> QED BY <1>0, <1>3, <3>1
  <2>3. \A e \in stopEvents : e.at < clock'
    BY <1>e
  <2>4. current' # 0 => UNCHANGED <<current, ahead>>
    BY <1>3
  <2> QED BY <1>0, <2>0, <2>1, <2>2, <2>3, <2>4 DEF IInv, CalmStops, InOrder, Behind
<1> QED BY <1>4, <1>5, <1>6, <1>8, <1>9, GrowingTimes, GrowingAlerts DEF IInv

LEMMA InitIInv == StopEventsInit => IInv
<1> SUFFICES ASSUME StopEventsInit PROVE IInv
  OBVIOUS
<1>1. 1 .. made = {} /\ \A k \in Task : task[k] = IdleTask /\ task[k].pc = "idle"
  BY Idles DEF StopEventsInit
<1>2. StopEventsTypeOK
  <2>1. made \in 0 .. MaxObj /\ current \in 0 .. made /\ clock \in Time /\ received \in Message
        /\ ahead = NoStop /\ overlapped = FALSE /\ late = FALSE
    BY Numbers DEF StopEventsInit
  <2>4. /\ stopEvents \subseteq StopEvent /\ back \subseteq [no : Message, obj : Obj]
        /\ alerts \subseteq Alert
    BY DEF StopEventsInit
  <2>2. objects \in [1 .. made -> TripState]
    <3>1. objects = [o \in {} |-> NoPing]
      BY DEF StopEventsInit
    <3> QED BY <1>1, <3>1
  <2>3. task \in [Task -> TaskRecord]
    BY Idles DEF StopEventsInit
  <2> QED BY <2>1, <2>2, <2>3, <2>4 DEF StopEventsTypeOK
<1>3. HandlersInv /\ NumbersInv /\ AlertsInv
  BY <1>1 DEF StopEventsInit, HandlersInv, NumbersInv, AlertsInv, Busied, Working, Pending
<1>4. CalmHandlers /\ CalmAlerts /\ CalmStops
  BY <1>1 DEF StopEventsInit, CalmHandlers, CalmAlerts, CalmStops, Busied, Working, Pending,
              Writing
<1> QED BY <1>2, <1>3, <1>4 DEF IInv

LEMMA NextIInv == IInv /\ [StopEventsNext]_stopVars => IInv'
<1> SUFFICES ASSUME IInv, [StopEventsNext]_stopVars PROVE IInv'
  OBVIOUS
<1>1. CASE UNCHANGED stopVars
  BY <1>1 DEF stopVars, IInv, StopEventsTypeOK, HandlersInv, NumbersInv, AlertsInv, CalmHandlers,
              CalmAlerts, CalmStops, Busied, Working, Pending, Writing, Done, Episode, Off,
              InOrder, Behind
<1>2. CASE TripStart
  BY <1>2, TripStartIInv
<1>3. ASSUME NEW k \in Task, NEW at \in Time \ {0}, NEW p \in Positions,
             ReceivePing(k, at, p.next, p.off, p.occ)
      PROVE  IInv'
  <2>1. p.next \in Stop \cup {NoStop} /\ p.off \in BOOLEAN /\ p.occ \in Occ
    BY PositionFields
  <2> QED BY <1>3, <2>1, ReceivePingIInv
<1>4. ASSUME NEW k \in Task,
             \/ PingInserted(k) \/ StopInserted(k) \/ AnswerLost(k) \/ AlertInserted(k)
             \/ HandlerFails(k) \/ FinalInserted(k)
      PROVE  IInv'
  BY <1>4, PingInsertedIInv, StopInsertedIInv, AnswerLostIInv, AlertInsertedIInv,
     HandlerFailsIInv, FinalInsertedIInv
<1>5. ASSUME NEW k \in Task, NEW at \in Time \ {0}, TripEnd(k, at)
      PROVE  IInv'
  BY <1>5, TripEndIInv
<1> QED BY <1>1, <1>2, <1>3, <1>4, <1>5 DEF StopEventsNext

(* Every state the handlers reach satisfies the inductive invariant.       *)
THEOREM HandlersInvariant == StopEventsSpec => []IInv
  BY InitIInv, NextIInv, PTL DEF StopEventsSpec

(* The variables keep their types: no row counts a negative number of      *)
(* boardings or alightings, whatever overlaps, fails or comes late.        *)
THEOREM StopEventsTypes == StopEventsSpec => []StopEventsTypeOK
<1>1. IInv => StopEventsTypeOK
  BY DEF IInv
<1> QED BY <1>1, HandlersInvariant, PTL

(* maybeRecordDeviation raises one alert per episode of an object however  *)
(* its handlers overlap; and while they do not, only about an episode that *)
(* lasted the threshold, since whose beginning it looked at no position    *)
(* back on the route.                                                      *)
THEOREM AlertsOncePerEpisode == StopEventsSpec => []OneAlertPerEpisode
<1>1. IInv => OneAlertPerEpisode
  <2> SUFFICES ASSUME IInv PROVE OneAlertPerEpisode
    OBVIOUS
  <2>1. \A a, b \in alerts : (a.obj = b.obj /\ a.began = b.began) => a = b
    BY DEF IInv, AlertsInv
  <2>2. \A a \in alerts : a.at - a.since >= Sustained
    BY DEF IInv, AlertsInv, Long
  <2>3. ~overlapped => \A a \in alerts : Off(a.obj, a.began, a.no)
    BY DEF IInv, CalmAlerts
  <2> QED BY <2>1, <2>2, <2>3 DEF OneAlertPerEpisode, Off
<1> QED BY <1>1, HandlersInvariant, PTL

(* While handlers do not overlap and positions come in the order they were *)
(* taken, maybeRecordStopEvent and recordFinalStopEvent record a trip's    *)
(* stops in route order, whatever query fails and however often its        *)
(* trip_start is replayed; and one a second time only after the answer to  *)
(* its INSERT was lost.                                                    *)
THEOREM StopsRecordedInOrder == StopEventsSpec => []StopsInOrder
<1>1. IInv => StopsInOrder
  BY DEF IInv, CalmStops, InOrder, Behind, StopsInOrder
<1> QED BY <1>1, HandlersInvariant, PTL

(***************************************************************************)
(* Who got on and off.  An object that has recorded a stop is past its     *)
(* baseline, and a row about to be written accounts for the change of      *)
(* occupancy since its object last moved on; a row whose answer is lost    *)
(* leaves its object as it was, and is not summed.                         *)
(***************************************************************************)

EventsOf(E, o) == {e \in E : e.obj = o /\ e.answered}
NetOf(E) == MapThenSumSet(LAMBDA e : e.boarding - e.alighting, E)
net == [e \in StopEvent |-> e.boarding - e.alighting]

LEMMA NetValues == \A e \in StopEvent : net[e] = e.boarding - e.alighting /\ net[e] \in Int
  BY StopAssumption DEF net, StopEvent, Occ

(* The sum OccupancyBalances speaks of is a total (SumTheorems).           *)
LEMMA NetFolds ==
  ASSUME NEW E, IsFiniteSet(E), E \subseteq StopEvent
  PROVE  NetOf(E) = TotalOf(net, E)
<1> DEFINE Eq(g) ==
      g = [s \in SUBSET E |->
             IF s = {} THEN 0
             ELSE ((CHOOSE x \in s : TRUE).boarding - (CHOOSE x \in s : TRUE).alighting)
                  + g[s \ {CHOOSE x \in s : TRUE}]]
<1>1. NetOf(E) = (CHOOSE g : Eq(g))[E]
  BY DEF NetOf, MapThenSumSet, MapThenFoldSet
<1>2. \A x \in E : net[x] = x.boarding - x.alighting /\ net[x] \in Int
  BY NetValues
<1>3. \A g : Eq(g) <=> Folds(g, net, E)
  <2> SUFFICES ASSUME NEW g PROVE Eq(g) <=> Folds(g, net, E)
    OBVIOUS
  <2> DEFINE summed == [s \in SUBSET E |->
                   IF s = {} THEN 0
                   ELSE ((CHOOSE x \in s : TRUE).boarding - (CHOOSE x \in s : TRUE).alighting)
                        + g[s \ {CHOOSE x \in s : TRUE}]]
             folded == [s \in SUBSET E |-> IF s = {} THEN 0 ELSE net[Pick(s)] + g[s \ {Pick(s)}]]
  <2>1. \A s \in SUBSET E : s # {} => Pick(s) \in E
    BY Picked
  <2>2. \A s \in SUBSET E : s # {} => net[Pick(s)] = Pick(s).boarding - Pick(s).alighting
    BY <1>2, <2>1
  <2>3. summed = folded
    BY <2>2 DEF Pick
  <2> QED BY <2>3 DEF Folds
<1> HIDE DEF Eq
<1>4. PICK h : Folds(h, net, E)
  BY <1>2, FoldExists
<1>5. PICK g : Eq(g) /\ NetOf(E) = g[E]
  BY <1>1, <1>3, <1>4
<1> QED BY <1>2, <1>3, <1>5, TotalIsFold

LEMMA NetNow == \A o : Net(o) = NetOf(EventsOf(stopEvents, o))
  BY DEF Net, NetOf, EventsOf

BalanceOf(E, o, x) == NetOf(EventsOf(E, o)) = x.occ - x.base

Recording(w) == w.pc \in {"stopInsert", "final"}

BalanceInv ==
    /\ IsFiniteSet(stopEvents)
    /\ \A e \in stopEvents : e.obj \in 1 .. made /\ objects[e.obj].last # NoStop
    /\ \A k \in Task : Recording(task[k]) => objects[task[k].obj].last # NoStop
    /\ \A k \in Task : task[k].pc = "stopInsert" => task[k].ping.next # NoStop
    /\ \A k \in Task : task[k].pc = "final" => task[k].boarding = 0 /\ task[k].alighting = 0
    /\ ~overlapped =>
         /\ \A k \in Task : task[k].pc = "stopInsert" =>
              task[k].boarding - task[k].alighting = task[k].ping.occ - objects[task[k].obj].occ
         /\ \A o \in 1 .. made : BalanceOf(stopEvents, o, objects[o])

(* No rows, no balance; a row more changes the balance of its object.      *)
LEMMA NoEvents ==
  ASSUME NEW E, NEW o, \A e \in E : e.obj # o
  PROVE  NetOf(EventsOf(E, o)) = 0
<1>1. EventsOf(E, o) = {}
  BY DEF EventsOf
<1>2. IsFiniteSet({}) /\ {} \subseteq StopEvent
  BY FS_EmptySet
<1>3. NetOf({}) = TotalOf(net, {}) /\ TotalOf(net, {}) = 0
  BY <1>2, NetFolds, TotalEmpty
<1> QED BY <1>1, <1>3

LEMMA EventMore ==
  ASSUME NEW E, IsFiniteSet(E), E \subseteq StopEvent, NEW r \in StopEvent, r \notin E,
         r.answered
  PROVE  /\ NetOf(EventsOf(E \cup {r}, r.obj))
              = NetOf(EventsOf(E, r.obj)) + (r.boarding - r.alighting)
         /\ NetOf(EventsOf(E, r.obj)) \in Int
<1> DEFINE F == EventsOf(E, r.obj)
<1>1. EventsOf(E \cup {r}, r.obj) = F \cup {r} /\ r \notin F
  BY DEF EventsOf
<1>2. IsFiniteSet(F) /\ IsFiniteSet(F \cup {r}) /\ F \subseteq StopEvent /\ F \cup {r} \subseteq StopEvent
  BY FS_Subset, FS_AddElement DEF EventsOf
<1> HIDE DEF F
<1>3. \A x \in F \cup {r} : net[x] \in Int
  BY <1>2, NetValues
<1>4. TotalOf(net, F \cup {r}) = TotalOf(net, F) + net[r] /\ TotalOf(net, F) \in Int
  BY <1>1, <1>2, <1>3, TotalAdd, TotalTake
<1>5. NetOf(F \cup {r}) = TotalOf(net, F \cup {r}) /\ NetOf(F) = TotalOf(net, F)
  BY <1>2, NetFolds
<1> QED BY <1>1, <1>4, <1>5, NetValues DEF F

LEMMA EventElsewhere ==
  ASSUME NEW E, NEW r, NEW o, o # r.obj \/ ~r.answered
  PROVE  EventsOf(E \cup {r}, o) = EventsOf(E, o)
BY DEF EventsOf

LEMMA DeviatedKeeps ==
  ASSUME NEW o \in TripState, NEW m
  PROVE  /\ Deviated(o, m).occ = o.occ /\ Deviated(o, m).base = o.base
         /\ Deviated(o, m).last = o.last
BY DEF Deviated, TripState

(* The rest of a handler, with the rows written before it.                 *)
LEMMA ContinueBalance ==
  ASSUME IInv, BalanceInv, NEW k \in Task, NEW o, Continuing(k, o), IsFiniteSet(stopEvents'),
         objects[task[k].obj].last # NoStop => o.last # NoStop,
         \A e \in stopEvents' : e \in stopEvents \/ (e.obj = task[k].obj /\ o.last # NoStop),
         ~overlapped => BalanceOf(stopEvents', task[k].obj, o),
         \A j : j # task[k].obj => EventsOf(stopEvents', j) = EventsOf(stopEvents, j)
  PROVE  BalanceInv'
<1>1. /\ task[k].obj \in 1 .. made /\ objects'[task[k].obj] = Deviated(o, task[k].ping)
      /\ \A j \in 1 .. made : j # task[k].obj => objects'[j] = objects[j]
      /\ \A q \in Task : q # k => task'[q] = task[q]
      /\ task'[k] = IdleTask \/ task'[k].pc = "alertInsert"
      /\ UNCHANGED <<made, overlapped>> /\ o \in TripState /\ Working(k)
  BY ContinueFacts DEF Continuing
<1>2. \A q \in Task : Recording(task'[q]) => q # k /\ task'[q] = task[q] /\ task[q].obj \in 1 .. made
  BY <1>1, Idles DEF Recording, IInv, HandlersInv, Busied
<1>3. /\ objects'[task[k].obj].last = o.last /\ objects'[task[k].obj].occ = o.occ
      /\ objects'[task[k].obj].base = o.base
  BY <1>1, DeviatedKeeps
<1>4. \A j \in 1 .. made : objects[j].last # NoStop => objects'[j].last # NoStop
  BY <1>1, <1>3
<1>5. \A e \in stopEvents' : e.obj \in 1 .. made /\ objects'[e.obj].last # NoStop
  BY <1>1, <1>3, <1>4 DEF BalanceInv
<1>6. \A q \in Task : Recording(task'[q]) => objects'[task'[q].obj].last # NoStop
  BY <1>2, <1>4 DEF BalanceInv
<1>7. \A q \in Task : /\ task'[q].pc = "stopInsert" => task'[q].ping.next # NoStop
                      /\ task'[q].pc = "final" => task'[q].boarding = 0 /\ task'[q].alighting = 0
  BY <1>2 DEF BalanceInv, Recording
<1>8. ASSUME ~overlapped PROVE \A q \in Task : task'[q].pc # "stopInsert"
  BY <1>1, <1>2, <1>8 DEF IInv, CalmHandlers, Busied, Working, Recording
<1>9. ASSUME ~overlapped, NEW j \in 1 .. made PROVE BalanceOf(stopEvents', j, objects'[j])
  <2>1. CASE j = task[k].obj
    BY <1>3, <1>9, <2>1 DEF BalanceOf
  <2>2. CASE j # task[k].obj
    BY <1>1, <1>9, <2>2 DEF BalanceOf, BalanceInv
  <2> QED BY <2>1, <2>2
<1> QED BY <1>1, <1>5, <1>6, <1>7, <1>8, <1>9 DEF BalanceInv

(* Steps that write no row of stop_events and move no object on.           *)
Fresh(w) ==
    /\ w.obj \in 1 .. made /\ objects[w.obj].last # NoStop
    /\ w.pc = "stopInsert" => /\ w.ping.next # NoStop
                              /\ w.boarding - w.alighting = w.ping.occ - objects[w.obj].occ
    /\ w.pc = "final" => w.boarding = 0 /\ w.alighting = 0

LEMMA NoRowBalance ==
  ASSUME IInv, BalanceInv, UNCHANGED stopEvents, made' \in made .. MaxObj,
         \A i \in 1 .. made : objects'[i] = objects[i],
         \A i \in 1 .. made' : i > made => objects'[i].occ - objects'[i].base = 0,
         overlapped => overlapped',
         \A q \in Task : Recording(task'[q]) => task'[q] = task[q] \/ Fresh(task'[q])
  PROVE  BalanceInv'
<1>1. made \in Nat /\ made' \in Nat /\ \A i \in 1 .. made : i \in 1 .. made'
  BY Counters
<1>2. \A q \in Task : Recording(task'[q]) =>
        /\ task'[q].obj \in 1 .. made /\ objects[task'[q].obj].last # NoStop
        /\ task'[q].pc = "stopInsert" => task'[q].ping.next # NoStop
        /\ task'[q].pc = "final" => task'[q].boarding = 0 /\ task'[q].alighting = 0
  BY DEF BalanceInv, Fresh, Recording, IInv, HandlersInv, Busied
<1>3. \A q \in Task : Recording(task'[q]) => objects'[task'[q].obj].last # NoStop
  BY <1>2
<1>4. \A e \in stopEvents : e.obj \in 1 .. made' /\ objects'[e.obj].last # NoStop
  BY <1>1 DEF BalanceInv
<1>5. ASSUME ~overlapped', NEW q \in Task, task'[q].pc = "stopInsert"
      PROVE  task'[q].boarding - task'[q].alighting
               = task'[q].ping.occ - objects'[task'[q].obj].occ
  <2>1. Recording(task'[q]) /\ task'[q].obj \in 1 .. made
    BY <1>2, <1>5 DEF Recording
  <2> QED BY <1>5, <2>1 DEF BalanceInv, Fresh
<1>6. ASSUME ~overlapped', NEW o \in 1 .. made' PROVE BalanceOf(stopEvents', o, objects'[o])
  <2>1. CASE o \in 1 .. made
    BY <1>6, <2>1 DEF BalanceInv, BalanceOf
  <2>2. CASE o > made
    <3>1. \A e \in stopEvents : e.obj # o
      BY <1>1, <2>2 DEF BalanceInv
    <3>2. NetOf(EventsOf(stopEvents, o)) = 0
      BY <3>1, NoEvents
    <3> QED BY <1>6, <2>2, <3>2 DEF BalanceOf
  <2> QED BY <1>1, <2>1, <2>2
<1>7. \A q \in Task : /\ task'[q].pc = "stopInsert" => task'[q].ping.next # NoStop
                      /\ task'[q].pc = "final" => task'[q].boarding = 0 /\ task'[q].alighting = 0
  BY <1>2 DEF Recording
<1> QED BY <1>3, <1>4, <1>5, <1>6, <1>7 DEF BalanceInv

(* A new object has as many passengers as it started with.                 *)
LEMMA ReplaceBalance ==
  ASSUME IInv, NEW t \in 1 .. (made + 1), NEW occ \in Occ, NEW real \in BOOLEAN,
         Replace(t, occ, real)
  PROVE  /\ made' \in made .. MaxObj
         /\ \A i \in 1 .. made : objects'[i] = objects[i]
         /\ \A i \in 1 .. made' : i > made => objects'[i].occ - objects'[i].base = 0
<1>1. made' = made + 1 /\ made' \in made .. MaxObj /\ made \in Nat
      /\ \A i \in 1 .. made : objects'[i] = objects[i]
  BY Replaced, Counters
<1>2. objects'[made + 1].occ = occ /\ objects'[made + 1].base = occ
  BY <1>1 DEF Replace
<1>3. occ - occ = 0
  BY Numbers
<1>4. \A i \in 1 .. made' : i > made => i = made + 1
  BY <1>1
<1> QED BY <1>1, <1>2, <1>3, <1>4

LEMMA ReceivePingBalance ==
  ASSUME IInv, BalanceInv, NEW k \in Task, NEW at, NEW next, NEW off, NEW occ \in Occ,
         ReceivePing(k, at, next, off, occ)
  PROVE  BalanceInv'
<1>1. task'[k].pc = "ping" /\ \A q \in Task : q # k => task'[q] = task[q]
  BY HandlerTypes, Idles DEF ReceivePing, IdleTask
<1>2. \A q \in Task : Recording(task'[q]) => task'[q] = task[q]
  BY <1>1 DEF Recording
<1>3. made + 1 \in 1 .. (made + 1) /\ made \in made .. MaxObj /\ \A i \in 1 .. made : ~(i > made)
  BY Counters DEF IInv, StopEventsTypeOK
<1>4. UNCHANGED stopEvents /\ (overlapped => overlapped')
  BY DEF ReceivePing, Receive
<1>5. CASE Replace(made + 1, occ, FALSE)
  BY <1>2, <1>3, <1>4, <1>5, ReplaceBalance, NoRowBalance
<1>6. CASE UNCHANGED <<objects, made, current>>
  BY <1>2, <1>3, <1>4, <1>6, NoRowBalance
<1> QED BY <1>5, <1>6 DEF ReceivePing

LEMMA TripStartBalance ==
  ASSUME IInv, BalanceInv, TripStart
  PROVE  BalanceInv'
<1>1. PICK t \in {made + 1} \cup
                   {objects[o].trip : o \in {c \in {current} \ {0} : objects[c].real}} :
        Replace(t, 0, TRUE)
  BY DEF TripStart
<1>2. t \in 1 .. (made + 1)
  BY <1>1, Counters DEF IInv, NumbersInv, StopEventsTypeOK
<1>3. UNCHANGED <<stopEvents, task>> /\ (overlapped => overlapped')
  BY DEF TripStart
<1> QED BY <1>1, <1>2, <1>3, Numbers, ReplaceBalance, NoRowBalance

(* Steps of a handler that leave the objects alone.                        *)
LEMMA HandlerBalance ==
  ASSUME IInv, BalanceInv, NEW k \in Task,
         UNCHANGED <<stopEvents, made, objects, overlapped>>
           \/ (UNCHANGED <<stopEvents, made, objects>> /\ (overlapped => overlapped')),
         \A q \in Task : q # k => task'[q] = task[q],
         Recording(task'[k]) => task'[k] = task[k] \/ Fresh(task'[k])
  PROVE  BalanceInv'
<1>1. made \in made .. MaxObj /\ \A i \in 1 .. made : ~(i > made)
  BY Counters DEF IInv, StopEventsTypeOK
<1> QED BY <1>1, NoRowBalance

LEMMA PingInsertedBalance ==
  ASSUME IInv, BalanceInv, NEW k \in Task, PingInserted(k)
  PROVE  BalanceInv'
<1>p. PICK m, x, j : m = task[k].ping /\ j = task[k].obj /\ x = objects[j]
  OBVIOUS
<1>0. /\ task[k].pc = "ping" /\ Working(k) /\ Busied(k)
      /\ UNCHANGED <<made, current, stopEvents, alerts, received, clock, ahead, overlapped, late>>
  BY DEF PingInserted, Working, Busied
<1>1. /\ m \in Ping /\ x \in TripState /\ j \in 1 .. made /\ task[k] \in TaskRecord
      /\ m.occ \in Int /\ x.occ \in Int /\ x.base \in Int
  <2>1. m \in Ping /\ x \in TripState /\ j \in 1 .. made /\ task[k] \in TaskRecord
    BY <1>p, <1>0, HandlerTypes
  <2>2. m.occ \in Occ /\ x.occ \in Occ /\ x.base \in Int
    BY <2>1 DEF Ping, TripState
  <2> QED BY <2>1, <2>2, StopAssumption DEF Occ
<1>2. ASSUME NEW o \in TripState, Continue(k, o), o.trip = x.trip, o.since = x.since,
             o.alerted = x.alerted, o.began = x.began, x.last # NoStop => o.last # NoStop,
             ~overlapped => BalanceOf(stopEvents, j, o)
      PROVE  BalanceInv'
  <2>1. Continuing(k, o)
    BY <1>p, <1>0, <1>2 DEF Continuing
  <2>2. IsFiniteSet(stopEvents)
    BY DEF BalanceInv
  <2> QED BY <1>p, <1>0, <1>2, <2>1, <2>2, ContinueBalance
<1>3. ~overlapped => BalanceOf(stopEvents, j, x)
  BY <1>p, <1>1 DEF BalanceInv
<1>4. ASSUME NEW b \in Int
      PROVE  [Advance(x, m) EXCEPT !.base = b] \in
               {o \in TripState : /\ o.trip = x.trip /\ o.since = x.since /\ o.last = m.next
                                  /\ o.alerted = x.alerted /\ o.began = x.began
                                  /\ o.occ = m.occ /\ o.base = b}
  BY <1>1 DEF Advance, TripState, Ping
<1>5. CASE x.last = NoStop /\ Continue(k, [Advance(x, m) EXCEPT !.base = m.occ])
  <2>1. \A e \in stopEvents : e.obj # j
    BY <1>p, <1>5 DEF BalanceInv
  <2>2. NetOf(EventsOf(stopEvents, j)) = m.occ - m.occ
    BY <1>1, <2>1, NoEvents
  <2> QED BY <1>1, <1>2, <1>4, <1>5, <2>2 DEF BalanceOf
<1>6. CASE Continue(k, x)
  BY <1>1, <1>2, <1>3, <1>6
<1>7. CASE ~Unchanged(x, m) /\ Continue(k, [Advance(x, m) EXCEPT !.base = @ + m.occ - x.occ])
  <2> DEFINE b == x.base + m.occ - x.occ
  <2>1. b \in Int /\ m.occ - b = x.occ - x.base
    BY <1>1
  <2>2. [Advance(x, m) EXCEPT !.base = @ + m.occ - x.occ] = [Advance(x, m) EXCEPT !.base = b]
    BY <1>1 DEF Advance, TripState
  <2>3. m.next # NoStop
    BY <1>7 DEF Unchanged
  <2> HIDE DEF b
  <2>4. PICK o \in TripState : /\ o = [Advance(x, m) EXCEPT !.base = b]
                               /\ o.trip = x.trip /\ o.since = x.since /\ o.last = m.next
                               /\ o.alerted = x.alerted /\ o.began = x.began
                               /\ o.occ = m.occ /\ o.base = b
    BY <1>4, <2>1
  <2>5. ~overlapped => BalanceOf(stopEvents, j, o)
    BY <1>3, <2>1, <2>4 DEF BalanceOf
  <2> QED BY <1>2, <1>7, <2>2, <2>3, <2>4, <2>5
<1>8. CASE /\ x.last # NoStop /\ ~Unchanged(x, m) /\ Recordable(x.last)
           /\ task' = [task EXCEPT ![k].pc = "stopInsert", ![k].reached = x.last,
                                   ![k].boarding = Boarding(x, m),
                                   ![k].alighting = Alighting(x, m)]
           /\ UNCHANGED <<objects, back>>
  <2> DEFINE w == [task[k] EXCEPT !.pc = "stopInsert", !.reached = x.last,
                                  !.boarding = Boarding(x, m), !.alighting = Alighting(x, m)]
  <2>1. /\ w.obj = j /\ w.ping = m /\ w.pc = "stopInsert"
        /\ w.boarding = Boarding(x, m) /\ w.alighting = Alighting(x, m)
    BY <1>p, <1>1 DEF TaskRecord
  <2>2. task' = [task EXCEPT ![k] = w]
    BY <1>8, HandlerTypes
  <2> HIDE DEF w
  <2>3. task'[k] = w /\ \A q \in Task : q # k => task'[q] = task[q]
    BY <2>2, HandlerTypes
  <2>4. Boarding(x, m) - Alighting(x, m) = m.occ - x.occ
    <3>1. m.occ \in Nat /\ x.occ \in Nat
      BY <1>1, Numbers DEF Ping, TripState
    <3> QED BY <3>1 DEF Boarding, Alighting
  <2>5. Fresh(w)
    BY <1>p, <1>1, <1>8, <2>1, <2>4 DEF Fresh, Unchanged
  <2> QED BY <1>0, <1>8, <2>3, <2>5, HandlerBalance
<1> QED BY <1>p, <1>5, <1>6, <1>7, <1>8 DEF PingInserted

(* A row that is written is new while handlers do not overlap.             *)
LEMMA RowIsNew ==
  ASSUME IInv, NEW k \in Task, Recording(task[k]), NEW answered \in BOOLEAN,
         NEW w, w = Row(k, answered)
  PROVE  /\ w \in StopEvent /\ w.obj = task[k].obj /\ w.answered = answered
         /\ w.boarding = task[k].boarding /\ w.alighting = task[k].alighting
         /\ task[k].obj \in 1 .. made /\ objects[task[k].obj] \in TripState
         /\ task[k].ping \in Ping
         /\ ~overlapped => w \notin stopEvents
<1>1. task[k].pc \in {"stopInsert", "final"} /\ Busied(k) /\ Writing(k)
  BY DEF Recording, Busied, Writing
<1>2. /\ task[k].obj \in 1 .. made /\ objects[task[k].obj] \in TripState
      /\ task[k].ping \in Ping
  BY <1>1, HandlerTypes
<1>3. /\ w \in StopEvent /\ w.obj = task[k].obj /\ w.answered = answered
      /\ w.boarding = task[k].boarding /\ w.alighting = task[k].alighting
      /\ w.no = task[k].ping.no
  BY <1>1, RowFacts
<1>4. ASSUME ~overlapped PROVE w \notin stopEvents
  <2>1. w.no = received /\ received \in Nat /\ \A e \in stopEvents : e.no < received
    BY <1>1, <1>3, <1>4, Alone, Counters
  <2> QED BY <2>1
<1> QED BY <1>2, <1>3, <1>4

LEMMA StopInsertedBalance ==
  ASSUME IInv, BalanceInv, NEW k \in Task, StopInserted(k)
  PROVE  BalanceInv'
<1>p. PICK m, x, j, o, w : /\ m = task[k].ping /\ j = task[k].obj /\ x = objects[j]
                           /\ o = Advance(x, m) /\ w = Row(k, TRUE)
  OBVIOUS
<1>0. /\ task[k].pc = "stopInsert" /\ Working(k) /\ Recording(task[k])
      /\ stopEvents' = stopEvents \cup {w} /\ Continue(k, o)
      /\ UNCHANGED <<made, current, alerts, received, clock, ahead, overlapped, late>>
  BY <1>p DEF StopInserted, Working, Recording
<1>1. /\ m \in Ping /\ x \in TripState /\ w \in StopEvent /\ w.obj = j /\ w.answered
      /\ w.boarding = task[k].boarding /\ w.alighting = task[k].alighting
      /\ ~overlapped => w \notin stopEvents
  BY <1>p, <1>0, RowIsNew
<1>2. /\ o \in TripState /\ o.trip = x.trip /\ o.since = x.since /\ o.alerted = x.alerted
      /\ o.began = x.began /\ o.last = m.next /\ o.occ = m.occ /\ o.base = x.base
  BY <1>p, <1>1 DEF Advance, TripState, Ping
<1>3. Continuing(k, o)
  BY <1>p, <1>0, <1>2 DEF Continuing
<1>4. o.last # NoStop /\ IsFiniteSet(stopEvents) /\ IsFiniteSet(stopEvents')
      /\ stopEvents \subseteq StopEvent
  BY <1>p, <1>0, <1>2, FS_AddElement DEF BalanceInv, IInv, StopEventsTypeOK
<1>5. ASSUME ~overlapped PROVE BalanceOf(stopEvents', j, o)
  <2>1. /\ NetOf(EventsOf(stopEvents', j))
             = NetOf(EventsOf(stopEvents, j)) + (w.boarding - w.alighting)
        /\ NetOf(EventsOf(stopEvents, j)) \in Int
    BY <1>0, <1>1, <1>4, <1>5, EventMore
  <2>2. NetOf(EventsOf(stopEvents, j)) = x.occ - x.base
    BY <1>p, <1>0, <1>5, RowIsNew DEF BalanceInv, BalanceOf
  <2>3. w.boarding - w.alighting = m.occ - x.occ
    BY <1>p, <1>0, <1>1, <1>5 DEF BalanceInv
  <2>4. m.occ \in Int /\ x.occ \in Int /\ x.base \in Int
    <3>1. m.occ \in Occ /\ x.occ \in Occ /\ x.base \in Int
      BY <1>1 DEF Ping, TripState
    <3> QED BY <3>1, StopAssumption DEF Occ
  <2>5. (x.occ - x.base) + (m.occ - x.occ) = m.occ - x.base
    BY <2>4
  <2> QED BY <1>2, <2>1, <2>2, <2>3, <2>5 DEF BalanceOf
<1>6. \A i : i # j => EventsOf(stopEvents', i) = EventsOf(stopEvents, i)
  BY <1>0, <1>1, EventElsewhere
<1>7. \A e \in stopEvents' : e \in stopEvents \/ (e.obj = j /\ o.last # NoStop)
  BY <1>0, <1>1, <1>4
<1> QED BY <1>p, <1>3, <1>4, <1>5, <1>6, <1>7, ContinueBalance

(* A handler that ends with a row that counts nobody, or one whose answer  *)
(* was lost.                                                               *)
LEMMA LastRowBalance ==
  ASSUME IInv, BalanceInv, NEW k \in Task, Recording(task[k]), NEW answered \in BOOLEAN,
         answered => task[k].pc = "final", task' = [task EXCEPT ![k] = IdleTask],
         stopEvents' = stopEvents \cup {Row(k, answered)},
         UNCHANGED <<objects, made, overlapped>>
  PROVE  BalanceInv'
<1>p. PICK w : w = Row(k, answered)
  OBVIOUS
<1>1. \A q \in Task : task'[q].pc \in {"stopInsert", "final"} => task'[q] = task[q]
  BY HandlerTypes, Idles
<1>2. /\ w \in StopEvent /\ w.obj = task[k].obj /\ w.obj \in 1 .. made
      /\ (~overlapped => w \notin stopEvents) /\ w.answered = answered
      /\ objects[w.obj].last # NoStop
      /\ answered => w.boarding = 0 /\ w.alighting = 0
  BY <1>p, RowIsNew DEF BalanceInv
<1>3. IsFiniteSet(stopEvents) /\ IsFiniteSet(stopEvents') /\ stopEvents \subseteq StopEvent
  BY FS_AddElement DEF BalanceInv, IInv, StopEventsTypeOK
<1>4. ASSUME ~overlapped, NEW o \in 1 .. made PROVE BalanceOf(stopEvents', o, objects[o])
  <2>1. BalanceOf(stopEvents, o, objects[o])
    BY <1>4 DEF BalanceInv
  <2>2. CASE o # w.obj \/ ~answered
    BY <1>p, <1>2, <2>1, <2>2, EventElsewhere DEF BalanceOf
  <2>3. CASE o = w.obj /\ answered
    <3>1. /\ NetOf(EventsOf(stopEvents', o))
                = NetOf(EventsOf(stopEvents, o)) + (w.boarding - w.alighting)
          /\ NetOf(EventsOf(stopEvents, o)) \in Int
      BY <1>p, <1>2, <1>3, <1>4, <2>3, EventMore
    <3>2. NetOf(EventsOf(stopEvents', o)) = NetOf(EventsOf(stopEvents, o))
      BY <1>2, <2>3, <3>1
    <3> QED BY <2>1, <3>2 DEF BalanceOf
  <2> QED BY <2>2, <2>3
<1>5. \A e \in stopEvents' : e.obj \in 1 .. made /\ objects[e.obj].last # NoStop
  BY <1>p, <1>2 DEF BalanceInv
<1>6. \A q \in Task : Recording(task'[q]) => objects[task'[q].obj].last # NoStop
  BY <1>1 DEF BalanceInv, Recording
<1>7. \A q \in Task : /\ task'[q].pc = "stopInsert" => task'[q].ping.next # NoStop
                      /\ task'[q].pc = "final" => task'[q].boarding = 0 /\ task'[q].alighting = 0
  BY <1>1 DEF BalanceInv
<1>8. ~overlapped => \A q \in Task : task'[q].pc = "stopInsert" =>
        task'[q].boarding - task'[q].alighting = task'[q].ping.occ - objects[task'[q].obj].occ
  BY <1>1 DEF BalanceInv
<1> QED BY <1>3, <1>4, <1>5, <1>6, <1>7, <1>8 DEF BalanceInv

LEMMA FinalBalance ==
  ASSUME IInv, BalanceInv, NEW k \in Task, FinalInserted(k)
  PROVE  BalanceInv'
<1>0. /\ task[k].pc = "final" /\ Recording(task[k]) /\ task' = [task EXCEPT ![k] = IdleTask]
      /\ stopEvents' = stopEvents \cup {Row(k, TRUE)} \/ UNCHANGED stopEvents
      /\ UNCHANGED <<objects, made, overlapped>>
  BY DEF FinalInserted, Recording
<1>1. ~Recording(task'[k]) /\ \A q \in Task : q # k => task'[q] = task[q]
  BY <1>0, HandlerTypes, Idles DEF Recording
<1>2. CASE UNCHANGED stopEvents
  BY <1>0, <1>1, <1>2, HandlerBalance
<1>3. CASE stopEvents' = stopEvents \cup {Row(k, TRUE)}
  BY <1>0, <1>3, LastRowBalance
<1> QED BY <1>0, <1>2, <1>3

LEMMA AnswerLostBalance ==
  ASSUME IInv, BalanceInv, NEW k \in Task, AnswerLost(k)
  PROVE  BalanceInv'
<1>0. /\ Recording(task[k]) /\ task' = [task EXCEPT ![k] = IdleTask]
      /\ stopEvents' = stopEvents \cup {Row(k, FALSE)}
      /\ UNCHANGED <<objects, made, overlapped>>
  BY DEF AnswerLost, Recording
<1> QED BY <1>0, LastRowBalance

LEMMA TripEndBalance ==
  ASSUME IInv, BalanceInv, NEW k \in Task, NEW at, TripEnd(k, at)
  PROVE  BalanceInv'
<1>1. /\ UNCHANGED <<stopEvents, made, objects>> /\ (overlapped => overlapped')
      /\ current # 0 /\ current \in 1 .. made
  BY Counters DEF TripEnd, Receive, IInv, StopEventsTypeOK
<1>2. CASE UNCHANGED task
  BY <1>1, <1>2, HandlerBalance
<1>3. CASE /\ Recordable(objects[current].last)
           /\ task' = [task EXCEPT ![k] = [IdleTask EXCEPT !.pc = "final", !.obj = current,
                          !.ping.no = received + 1, !.ping.at = at,
                          !.reached = objects[current].last]]
  <2> DEFINE w == [IdleTask EXCEPT !.pc = "final", !.obj = current,
                          !.ping.no = received + 1, !.ping.at = at,
                          !.reached = objects[current].last]
  <2>1. w.pc = "final" /\ w.obj = current /\ w.boarding = 0 /\ w.alighting = 0
    BY DEF IdleTask
  <2>2. task' = [task EXCEPT ![k] = w]
    BY <1>3
  <2> HIDE DEF w
  <2>3. task'[k] = w /\ \A q \in Task : q # k => task'[q] = task[q]
    BY <2>2, HandlerTypes
  <2>4. objects[current].last # NoStop
    <3>1. objects[current].last \in 1 .. LastStop
      BY <1>3, StopAssumption DEF Recordable
    <3> QED BY <3>1, StopAssumption DEF NoStop
  <2>5. Fresh(w)
    BY <1>1, <2>1, <2>4 DEF Fresh
  <2> QED BY <1>1, <2>3, <2>5, HandlerBalance
<1> QED BY <1>2, <1>3 DEF TripEnd

LEMMA InitBalance == StopEventsInit => BalanceInv
<1> SUFFICES ASSUME StopEventsInit PROVE BalanceInv
  OBVIOUS
<1>1. IsFiniteSet(stopEvents) /\ stopEvents = {}
  BY FS_EmptySet DEF StopEventsInit
<1> QED BY <1>1, Idles DEF StopEventsInit, BalanceInv, Recording

LEMMA NextBalance == IInv /\ BalanceInv /\ [StopEventsNext]_stopVars => BalanceInv'
<1> SUFFICES ASSUME IInv, BalanceInv, [StopEventsNext]_stopVars PROVE BalanceInv'
  OBVIOUS
<1>1. CASE UNCHANGED stopVars
  BY <1>1 DEF stopVars, BalanceInv, BalanceOf
<1>2. ASSUME NEW k \in Task, AlertInserted(k) \/ HandlerFails(k) PROVE BalanceInv'
  <2>1. /\ UNCHANGED <<stopEvents, made, objects, overlapped>>
        /\ task' = [task EXCEPT ![k] = IdleTask]
    BY <1>2 DEF AlertInserted, HandlerFails
  <2>2. task'[k] = IdleTask /\ \A q \in Task : q # k => task'[q] = task[q]
    BY <2>1, HandlerTypes
  <2> QED BY <2>1, <2>2, Idles, HandlerBalance DEF Recording
<1>3. ASSUME NEW k \in Task, NEW at, NEW p \in Positions,
             ReceivePing(k, at, p.next, p.off, p.occ)
      PROVE  BalanceInv'
  <2>1. p.occ \in Occ
    BY PositionFields
  <2> QED BY <1>3, <2>1, ReceivePingBalance
<1> QED BY <1>1, <1>2, <1>3, TripStartBalance, PingInsertedBalance, StopInsertedBalance,
           AnswerLostBalance, TripEndBalance, FinalBalance DEF StopEventsNext

(* While handlers do not overlap, the boardings and alightings of an       *)
(* object's rows whose INSERT was answered add up to the change of its     *)
(* occupancy, whatever else fails and in whatever order positions come.    *)
THEOREM EverybodyIsCounted == StopEventsSpec => []OccupancyBalances
<1>1. StopEventsInit => IInv /\ BalanceInv
  BY InitIInv, InitBalance
<1>2. IInv /\ BalanceInv /\ [StopEventsNext]_stopVars => (IInv /\ BalanceInv)'
  BY NextIInv, NextBalance
<1>3. IInv /\ BalanceInv => OccupancyBalances
  BY NetNow DEF BalanceInv, BalanceOf, OccupancyBalances
<1> QED BY <1>1, <1>2, <1>3, PTL DEF StopEventsSpec

=============================================================================
