------------------------- MODULE DriverShift_proofs -------------------------
(***************************************************************************)
(* Proofs about Telemetry, OtpLogin, DriverTrip and DriverShift, for any   *)
(* number of ids, codes, shifts, requests, transmitters, fixes, sign-ins.  *)
(*                                                                         *)
(* The screens rely on what the requests they have sent can still do: a    *)
(* request keeps its kind, trip and shift, a trip that has ended never     *)
(* runs again, and only a start closes a trip nobody asked to end.         *)
(***************************************************************************)
EXTENDS DriverShift, SumTheorems, FiniteSetTheorems, TLAPS

(***************************************************************************)
(* The buffer and its flushes (Telemetry): any numbers of transmitters,    *)
(* overlapping flushes and fixes, any buffer size and any number of        *)
(* failures.                                                               *)
(***************************************************************************)

USE TelemetryAssumption

(* What a flush in progress relies on while fixes are enqueued and other   *)
(* flushes remove rows: its list holds taken fixes, what it is removing it *)
(* has handed over, and a row it did not see is newer than all it holds.   *)
FlushInv ==
    \A f \in Flusher :
       /\ flush[f].pending \subseteq 1 .. taken
       /\ flush[f].removing \subseteq flushed
       /\ \A p \in flush[f].pending, n \in rows \ flushed : n \in flush[f].pending \/ p < n

(* What the enqueue calls in progress rely on.                             *)
EnqueueInv ==
    /\ counting \subseteq 1 .. taken
    /\ IsFiniteSet(evicting)
    /\ \A e \in evicting : e.fix \in (1 .. taken) \ counting

TelemetryInv ==
    /\ TelemetryTypeOK
    /\ FlushInv
    /\ EnqueueInv
    /\ FixesAccounted
    /\ FlushedOldestFirst
    /\ BufferBounded

----------------------------------------------------------------------------
(* The fix taken first.                                                    *)
LEMMA MinIsLeast ==
  ASSUME NEW S \in SUBSET Nat, S # {}
  PROVE  Min(S) \in S /\ \A y \in S : Min(S) =< y
<1>1. \E x \in S : \A y \in S : x <= y
  BY LeastNumber
<1> QED BY <1>1 DEF Min

(* The sets of fixes are finite, and no larger than the bound.             *)
LEMMA FixFinite ==
  ASSUME NEW S \in SUBSET Fix
  PROVE  /\ IsFiniteSet(S) /\ Cardinality(S) \in 0 .. MaxFix
         /\ S \in SUBSET Nat
<1>1. IsFiniteSet(Fix) /\ Cardinality(Fix) = MaxFix
  BY FS_Interval DEF Fix
<1>2. IsFiniteSet(S) /\ Cardinality(S) <= MaxFix
  BY <1>1, FS_Subset
<1>3. Cardinality(S) \in Nat
  BY <1>2, FS_CardinalityType
<1> QED BY <1>2, <1>3 DEF Fix

(* Deleting the k oldest deletes something, when there is something.       *)
LEMMA OldestNotEmpty ==
  ASSUME rows \subseteq Fix, rows # {}, NEW k \in Fix
  PROVE  Oldest(k) # {}
<1>1. Min(rows) \in rows /\ \A y \in rows : Min(rows) =< y
  BY FixFinite, MinIsLeast
<1>2. {m \in rows : m < Min(rows)} = {}
  BY <1>1, FixFinite
<1>3. Cardinality({m \in rows : m < Min(rows)}) < k
  BY <1>2, FS_EmptySet DEF Fix
<1> QED BY <1>1, <1>3 DEF Oldest

(* Handed and buffered fixes were taken.                                   *)
LEMMA AllTaken ==
  ASSUME TelemetryInv
  PROVE  /\ handed \subseteq 1 .. taken /\ rows \subseteq 1 .. taken
         /\ flushed \subseteq 1 .. taken /\ taken \in Nat
  BY DEF TelemetryInv, FixesAccounted, TelemetryTypeOK

LEMMA InitTelemetryInv == TelemetryInit => TelemetryInv
<1> SUFFICES ASSUME TelemetryInit PROVE TelemetryInv
  OBVIOUS
<1>1. Cardinality({}) = 0 /\ IsFiniteSet({})
  BY FS_EmptySet
<1>2. TelemetryTypeOK
  BY DEF TelemetryInit, TelemetryTypeOK, NewTransmitter, Transmitter, IdleFlush, FlushRecord, Tx
<1>3. FlushInv /\ EnqueueInv
  BY <1>1 DEF TelemetryInit, FlushInv, EnqueueInv, IdleFlush
<1>4. FixesAccounted /\ FlushedOldestFirst
  BY DEF TelemetryInit, FixesAccounted, FlushedOldestFirst
<1>5. BufferBounded
  BY <1>1 DEF TelemetryInit, BufferBounded
<1> QED BY <1>2, <1>3, <1>4, <1>5 DEF TelemetryInv

----------------------------------------------------------------------------
(* Steps that touch nothing but the transmitters and, when a connection is *)
(* made, start a flush.                                                    *)
LEMMA TransmitterOnly ==
  ASSUME TelemetryInv, TelemetryTypeOK', UNCHANGED <<bufferVars, flush, taken, kills, historyVars, unsaved>>
  PROVE  TelemetryInv'
<1>1. FlushInv'
  BY DEF TelemetryInv, FlushInv, bufferVars, historyVars
<1>2. EnqueueInv'
  BY DEF TelemetryInv, EnqueueInv, bufferVars
<1>3. FixesAccounted' /\ FlushedOldestFirst' /\ BufferBounded'
  BY DEF TelemetryInv, FixesAccounted, FlushedOldestFirst, BufferBounded, bufferVars, historyVars
<1> QED BY <1>1, <1>2, <1>3 DEF TelemetryInv

LEMMA OnConnectedIInv ==
  ASSUME TelemetryInv, NEW x \in Tx, NEW t \in Transmitter, OnConnected(x, t),
         UNCHANGED <<bufferVars, taken, drops, kills, historyVars, unsaved>>
  PROVE  TelemetryInv'
<1> USE DEF bufferVars, historyVars
<1>1. PICK f \in Flusher :
         flush' = [flush EXCEPT ![f] = [on |-> TRUE, x |-> x, pending |-> rows, removing |-> {}]]
  BY DEF OnConnected
<1>2. tx' \in [Tx -> Transmitter]
  <2>1. [t EXCEPT !.up = TRUE, !.connected = TRUE] \in Transmitter
    BY DEF Transmitter
  <2> QED BY <2>1 DEF OnConnected, TelemetryInv, TelemetryTypeOK
<1>3. TelemetryTypeOK'
  <2>1. [on |-> TRUE, x |-> x, pending |-> rows, removing |-> {}] \in FlushRecord
    BY DEF TelemetryInv, TelemetryTypeOK, FlushRecord
  <2> QED BY <1>1, <1>2, <2>1 DEF TelemetryInv, TelemetryTypeOK
<1>4. FlushInv'
  <2> SUFFICES ASSUME NEW g \in Flusher
               PROVE  /\ flush'[g].pending \subseteq 1 .. taken
                      /\ flush'[g].removing \subseteq flushed
                      /\ \A p \in flush'[g].pending, n \in rows \ flushed :
                            n \in flush'[g].pending \/ p < n
    BY DEF FlushInv
  <2>1. CASE g = f
    BY <1>1, <2>1, AllTaken DEF TelemetryInv, TelemetryTypeOK
  <2>2. CASE g # f
    BY <1>1, <2>2 DEF TelemetryInv, TelemetryTypeOK, FlushInv
  <2> QED BY <2>1, <2>2
<1>5. EnqueueInv' /\ FixesAccounted' /\ FlushedOldestFirst' /\ BufferBounded'
  BY DEF TelemetryInv, EnqueueInv, FixesAccounted, FlushedOldestFirst, BufferBounded
<1> QED BY <1>3, <1>4, <1>5 DEF TelemetryInv

(* start(), stop() and the connection.                                     *)
LEMMA TransmitterIInv ==
  ASSUME TelemetryInv, NEW x \in Tx,
         \/ NextTrip(x) \/ TripOver(x) \/ StartFails(x) \/ Prepared(x) \/ ConnectEnds(x)
         \/ LinkLost(x) \/ OnDisconnected(x) \/ Reconnected(x)
  PROVE  TelemetryInv'
<1>1. CASE NextTrip(x) \/ TripOver(x) \/ StartFails(x) \/ Prepared(x) \/ OnDisconnected(x)
  <2>1. UNCHANGED <<bufferVars, flush, taken, drops, kills, historyVars, unsaved>>
    BY <1>1 DEF NextTrip, TripOver, StartFails, Prepared, OnDisconnected
  <2>2. PICK t \in Transmitter : tx' = [tx EXCEPT ![x] = t]
    <3>1. CASE NextTrip(x) \/ StartFails(x) \/ Prepared(x)
      BY <3>1 DEF NextTrip, MakeTransmitter, StartFails, Prepared, TelemetryInv, TelemetryTypeOK, Transmitter
    <3>2. CASE TripOver(x)
      <4> DEFINE s == IF tx[x].pc \in {"connecting", "started"} THEN "disconnected" ELSE "missed"
      <4>1. [tx[x] EXCEPT !.listening = FALSE, !.up = FALSE, !.stop = s] \in Transmitter
        BY DEF TelemetryInv, TelemetryTypeOK, Transmitter
      <4> QED BY <3>2, <4>1 DEF TripOver, StopTransmitter, TelemetryInv, TelemetryTypeOK
    <3>3. CASE OnDisconnected(x)
      BY <3>3 DEF OnDisconnected, TelemetryInv, TelemetryTypeOK, Transmitter
    <3> QED BY <1>1, <3>1, <3>2, <3>3
  <2>3. tx' \in [Tx -> Transmitter]
    BY <2>2 DEF TelemetryInv, TelemetryTypeOK
  <2> QED BY <2>1, <2>3, TransmitterOnly DEF TelemetryInv, TelemetryTypeOK, bufferVars, historyVars
<1>2. CASE LinkLost(x)
  <2>1. tx' \in [Tx -> Transmitter]
    <3>1. tx \in [Tx -> Transmitter]
      BY DEF TelemetryInv, TelemetryTypeOK
    <3>2. [tx[x] EXCEPT !.up = FALSE] \in Transmitter
      BY <3>1 DEF Transmitter
    <3>3. tx' = [tx EXCEPT ![x] = [tx[x] EXCEPT !.up = FALSE]]
      BY <1>2, <3>1 DEF LinkLost
    <3> QED BY <3>1, <3>2, <3>3
  <2>2. drops' \in 0 .. MaxDrop
    BY <1>2 DEF LinkLost, TelemetryInv, TelemetryTypeOK
  <2> QED BY <1>2, <2>1, <2>2, TransmitterOnly
             DEF LinkLost, TelemetryInv, TelemetryTypeOK, bufferVars, historyVars
<1>3. CASE ConnectEnds(x)
  <2> DEFINE t == [tx[x] EXCEPT !.pc = "started", !.listening = TRUE]
  <2>1. t \in Transmitter
    BY DEF TelemetryInv, TelemetryTypeOK, Transmitter
  <2>2. CASE OnConnected(x, t)
    BY <1>3, <2>1, <2>2, OnConnectedIInv DEF ConnectEnds
  <2>3. CASE tx' = [tx EXCEPT ![x] = t] /\ UNCHANGED flush
    BY <1>3, <2>1, <2>3, TransmitterOnly
       DEF ConnectEnds, TelemetryInv, TelemetryTypeOK, bufferVars, historyVars
  <2> QED BY <1>3, <2>2, <2>3 DEF ConnectEnds
<1>4. CASE Reconnected(x)
  BY <1>4, OnConnectedIInv DEF Reconnected, TelemetryInv, TelemetryTypeOK
<1> QED BY <1>1, <1>2, <1>3, <1>4

----------------------------------------------------------------------------
(* A new fix is newer than all there is: it may be sent or enqueued at any *)
(* time without being taken for an old one.                                *)
LEMMA OnPositionIInv ==
  ASSUME TelemetryInv, NEW x \in Tx, OnPosition(x)
  PROVE  TelemetryInv'
<1> DEFINE n == taken + 1
<1>1. n \in Fix /\ taken' = n /\ taken \in Nat /\ 1 .. n = (1 .. taken) \cup {n}
  BY DEF OnPosition, TelemetryInv, TelemetryTypeOK, Fix
<1>2. UNCHANGED <<tx, evicting, flush, drops, kills, flushed, evicted, unsaved>>
  BY DEF OnPosition
<1>3. \/ handed' = handed \cup {n} /\ UNCHANGED <<rows, counting>>
      \/ rows' = rows \cup {n} /\ counting' = counting \cup {n} /\ UNCHANGED handed
  BY DEF OnPosition, Publish
<1>4. TelemetryTypeOK'
  <2>1. taken' \in 0 .. MaxFix
    BY <1>1 DEF Fix
  <2>2. rows' \subseteq Fix /\ counting' \subseteq Fix /\ handed' \subseteq Fix /\ handed \subseteq handed'
    BY <1>1, <1>3 DEF TelemetryInv, TelemetryTypeOK
  <2> QED BY <1>2, <2>1, <2>2 DEF TelemetryInv, TelemetryTypeOK
<1>5. \A k \in rows' : k \in rows \/ k = n
  BY <1>3
<1>6. FlushInv'
  <2> SUFFICES ASSUME NEW f \in Flusher
               PROVE  /\ flush[f].pending \subseteq 1 .. n
                      /\ flush[f].removing \subseteq flushed
                      /\ \A p \in flush[f].pending, k \in rows' \ flushed :
                            k \in flush[f].pending \/ p < k
    BY <1>1, <1>2 DEF FlushInv
  <2>1. flush[f].pending \subseteq 1 .. taken /\ flush[f].removing \subseteq flushed
    BY DEF TelemetryInv, FlushInv
  <2>2. \A p \in flush[f].pending : p < n
    BY <1>1, <2>1
  <2> QED BY <1>1, <1>5, <2>1, <2>2 DEF TelemetryInv, FlushInv
<1>7. EnqueueInv'
  <2>1. counting' \subseteq counting \cup {n} /\ n \notin 1 .. taken
    BY <1>1, <1>3
  <2>2. \A e \in evicting : e.fix \in (1 .. n) \ counting'
    BY <1>1, <2>1 DEF TelemetryInv, EnqueueInv
  <2> QED BY <1>1, <1>2, <2>1, <2>2 DEF TelemetryInv, EnqueueInv
<1>8. FixesAccounted'
  BY <1>1, <1>2, <1>3 DEF TelemetryInv, FixesAccounted
<1>9. FlushedOldestFirst'
  BY <1>1, <1>2, <1>5, AllTaken DEF TelemetryInv, FlushedOldestFirst
<1>10. BufferBounded'
  <2>1. CASE UNCHANGED <<rows, counting>>
    BY <1>2, <2>1 DEF TelemetryInv, BufferBounded
  <2>2. CASE rows' = rows \cup {n} /\ counting' = counting \cup {n}
    <3>1. IsFiniteSet(rows) /\ IsFiniteSet(counting) /\ n \notin rows /\ n \notin counting
      BY <1>1, AllTaken, FixFinite DEF TelemetryInv, EnqueueInv, TelemetryTypeOK
    <3>2. Cardinality(rows') = Cardinality(rows) + 1 /\ Cardinality(counting') = Cardinality(counting) + 1
      BY <2>2, <3>1, FS_AddElement
    <3>3. Cardinality(rows) \in Nat /\ Cardinality(counting) \in Nat /\ Cardinality(evicting) \in Nat
      BY <3>1, FS_CardinalityType DEF TelemetryInv, EnqueueInv
    <3> QED BY <1>2, <3>2, <3>3 DEF TelemetryInv, BufferBounded
  <2> QED BY <1>3, <2>1, <2>2
<1> QED BY <1>4, <1>6, <1>7, <1>8, <1>9, <1>10 DEF TelemetryInv

(* The call that finds too many rows takes over from its own count: it is  *)
(* still one call for each row too many.                                   *)
LEMMA CountRowsIInv ==
  ASSUME TelemetryInv, NEW n \in Fix, CountRows(n)
  PROVE  TelemetryInv'
<1> DEFINE e == [fix |-> n, overflow |-> Cardinality(rows) - MaxRows]
<1>1. /\ n \in counting /\ counting' = counting \ {n}
      /\ UNCHANGED <<tx, rows, flush, taken, drops, kills, handed, flushed, evicted, unsaved>>
  BY DEF CountRows, historyVars
<1>2. /\ IsFiniteSet(rows) /\ Cardinality(rows) \in 0 .. MaxFix
      /\ IsFiniteSet(counting) /\ Cardinality(counting) \in Nat
      /\ IsFiniteSet(evicting) /\ Cardinality(evicting) \in Nat
  BY FixFinite, FS_CardinalityType DEF TelemetryInv, TelemetryTypeOK, EnqueueInv
<1>3. Cardinality(counting') = Cardinality(counting) - 1
  BY <1>1, <1>2, FS_RemoveElement
<1>4. CASE Cardinality(rows) > MaxRows
  <2>1. evicting' = evicting \cup {e} /\ e \in [fix : Fix, overflow : Fix]
    BY <1>2, <1>4 DEF CountRows, Fix
  <2>2. e \notin evicting
    BY <1>1 DEF TelemetryInv, EnqueueInv
  <2>3. IsFiniteSet(evicting') /\ Cardinality(evicting') = Cardinality(evicting) + 1
    BY <1>2, <2>1, <2>2, FS_AddElement
  <2>4. TelemetryTypeOK'
    BY <1>1, <2>1 DEF TelemetryInv, TelemetryTypeOK
  <2>5. EnqueueInv'
    BY <1>1, <2>1, <2>3 DEF TelemetryInv, EnqueueInv
  <2>6. BufferBounded'
    BY <1>1, <1>2, <1>3, <2>3 DEF TelemetryInv, BufferBounded
  <2> QED BY <1>1, <2>4, <2>5, <2>6 DEF TelemetryInv, FlushInv, FixesAccounted, FlushedOldestFirst
<1>5. CASE ~(Cardinality(rows) > MaxRows)
  <2>1. UNCHANGED evicting
    BY <1>5 DEF CountRows
  <2>2. TelemetryTypeOK' /\ EnqueueInv'
    BY <1>1, <2>1 DEF TelemetryInv, TelemetryTypeOK, EnqueueInv
  <2>3. Cardinality(counting') \in Nat
    BY <1>1, <1>2, FS_RemoveElement, FS_CardinalityType
  <2>4. BufferBounded'
    BY <1>1, <1>2, <1>5, <2>1, <2>3 DEF BufferBounded
  <2> QED BY <1>1, <2>2, <2>4 DEF TelemetryInv, FlushInv, FixesAccounted, FlushedOldestFirst
<1> QED BY <1>4, <1>5

(* A call that deletes leaves with at least one row, if there are any.     *)
LEMMA EvictIInv ==
  ASSUME TelemetryInv, NEW e \in evicting, Evict(e)
  PROVE  TelemetryInv'
<1> DEFINE old == Oldest(e.overflow)
<1>1. /\ evicting' = evicting \ {e} /\ rows' = rows \ old /\ evicted' = evicted \cup old
      /\ UNCHANGED <<tx, counting, flush, taken, drops, kills, handed, flushed, unsaved>>
  BY DEF Evict, historyVars
<1>2. old \subseteq rows /\ e.overflow \in Fix
  BY DEF Oldest, TelemetryInv, TelemetryTypeOK
<1>3. TelemetryTypeOK'
  BY <1>1, <1>2 DEF TelemetryInv, TelemetryTypeOK
<1>4. FlushInv' /\ FixesAccounted' /\ FlushedOldestFirst'
  BY <1>1, <1>2 DEF TelemetryInv, FlushInv, FixesAccounted, FlushedOldestFirst
<1>5. /\ IsFiniteSet(evicting) /\ Cardinality(evicting) \in Nat
      /\ IsFiniteSet(evicting') /\ Cardinality(evicting') = Cardinality(evicting) - 1
  BY <1>1, FS_RemoveElement, FS_CardinalityType DEF TelemetryInv, EnqueueInv
<1>6. EnqueueInv'
  BY <1>1, <1>5 DEF TelemetryInv, EnqueueInv
<1>7. BufferBounded'
  <2>1. /\ IsFiniteSet(rows) /\ Cardinality(rows) \in Nat
        /\ IsFiniteSet(rows') /\ Cardinality(rows') \in Nat
        /\ Cardinality(counting) \in Nat /\ Cardinality(evicting') \in Nat
    BY <1>1, <1>3, <1>5, FixFinite, FS_CardinalityType DEF TelemetryInv, TelemetryTypeOK
  <2>2. CASE rows = {}
    BY <1>1, <2>1, <2>2, FS_EmptySet DEF BufferBounded
  <2>3. CASE rows # {}
    <3>1. rows' # rows /\ rows' \subseteq rows
      BY <1>1, <1>2, <2>3, OldestNotEmpty DEF TelemetryInv, TelemetryTypeOK
    <3>2. Cardinality(rows') < Cardinality(rows)
      BY <2>1, <3>1, FS_Subset
    <3> QED BY <1>1, <1>5, <2>1, <3>2 DEF TelemetryInv, BufferBounded
  <2> QED BY <2>2, <2>3
<1> QED BY <1>3, <1>4, <1>6, <1>7 DEF TelemetryInv

(* A row is deleted without any call of enqueue: only fewer rows.          *)
LEMMA FewerRowsBounded ==
  ASSUME TelemetryInv, rows' \subseteq rows, UNCHANGED <<counting, evicting, kills>>
  PROVE  BufferBounded'
<1>1. IsFiniteSet(rows) /\ Cardinality(rows') <= Cardinality(rows) /\ IsFiniteSet(rows')
  BY FixFinite, FS_Subset DEF TelemetryInv, TelemetryTypeOK
<1>2. /\ Cardinality(rows) \in Nat /\ Cardinality(rows') \in Nat
      /\ Cardinality(counting) \in Nat /\ Cardinality(evicting) \in Nat
  BY <1>1, FixFinite, FS_CardinalityType DEF TelemetryInv, TelemetryTypeOK, EnqueueInv
<1> QED BY <1>1, <1>2 DEF TelemetryInv, BufferBounded

(* The least of a flush's list is older than every row still to be handed  *)
(* over: those in the list are larger, the others came later.              *)
LEMMA FlushNextIInv ==
  ASSUME TelemetryInv, NEW f \in Flusher, FlushNext(f)
  PROVE  TelemetryInv'
<1> DEFINE n == Min(flush[f].pending)
<1>1. UNCHANGED <<tx, counting, evicting, taken, drops, kills, evicted, unsaved>>
  BY DEF FlushNext
<1>2. flush[f] \in FlushRecord /\ \A g \in Flusher : flush[g] \in FlushRecord
  BY DEF TelemetryInv, TelemetryTypeOK
<1>3. CASE flush' = [flush EXCEPT ![f] = IdleFlush] /\ UNCHANGED <<rows, historyVars>>
  <2>1. TelemetryTypeOK'
    <3>1. IdleFlush \in FlushRecord
      BY DEF IdleFlush, FlushRecord, Tx
    <3> QED BY <1>1, <1>3, <3>1 DEF TelemetryInv, TelemetryTypeOK, historyVars
  <2>2. FlushInv'
    BY <1>1, <1>3 DEF TelemetryInv, TelemetryTypeOK, FlushInv, IdleFlush, historyVars
  <2>3. EnqueueInv' /\ FixesAccounted' /\ FlushedOldestFirst' /\ BufferBounded'
    BY <1>1, <1>3 DEF TelemetryInv, EnqueueInv, FixesAccounted, FlushedOldestFirst, BufferBounded, historyVars
  <2> QED BY <2>1, <2>2, <2>3 DEF TelemetryInv
<1>4. CASE /\ flush[f].pending # {} /\ Publish(n)
           /\ flushed' = flushed \cup {n} /\ rows' = rows \ {n}
           /\ flush' = [flush EXCEPT ![f].pending = @ \ {n}, ![f].removing = rows \cap {n}]
  <2>1. flush[f].pending \subseteq 1 .. taken /\ 1 .. taken \subseteq Nat
    BY AllTaken DEF TelemetryInv, FlushInv
  <2>2. n \in flush[f].pending /\ \A p \in flush[f].pending : n =< p
    BY <1>4, <2>1, MinIsLeast
  <2>3. n \in 1 .. taken /\ n \in Fix /\ handed' = handed \cup {n}
    BY <1>2, <1>4, <2>1, <2>2 DEF FlushRecord, Publish
  <2>4. \A g \in Flusher : /\ flush'[g].pending \subseteq flush[g].pending
                           /\ flush'[g].removing \subseteq flush[g].removing \cup {n}
    BY <1>2, <1>4 DEF TelemetryInv, TelemetryTypeOK, FlushRecord
  <2>5. \A k \in rows' \ flushed' : k \in rows \ flushed /\ k # n
    BY <1>4
  <2>6. TelemetryTypeOK'
    <3>1. flush' \in [Flusher -> FlushRecord]
      <4>1. [flush[f] EXCEPT !.pending = @ \ {n}, !.removing = rows \cap {n}] \in FlushRecord
        BY <1>2, <2>3 DEF FlushRecord
      <4> QED BY <1>4, <4>1 DEF TelemetryInv, TelemetryTypeOK
    <3> QED BY <1>1, <1>4, <2>3, <3>1 DEF TelemetryInv, TelemetryTypeOK
  <2>7. FlushInv'
    <3> SUFFICES ASSUME NEW g \in Flusher
                 PROVE  /\ flush'[g].pending \subseteq 1 .. taken
                        /\ flush'[g].removing \subseteq flushed'
                        /\ \A p \in flush'[g].pending, k \in rows' \ flushed' :
                              k \in flush'[g].pending \/ p < k
      BY <1>1 DEF FlushInv
    <3>1. flush'[g].pending \subseteq 1 .. taken /\ flush'[g].removing \subseteq flushed'
      BY <1>4, <2>4 DEF TelemetryInv, FlushInv
    <3>2. ASSUME NEW p \in flush'[g].pending, NEW k \in rows' \ flushed'
          PROVE  k \in flush'[g].pending \/ p < k
      <4>1. k \in flush[g].pending \/ p < k
        BY <2>4, <2>5, <3>2 DEF TelemetryInv, FlushInv
      <4>2. k \in flush[g].pending => k \in flush'[g].pending
        BY <1>2, <1>4, <2>5, <3>2 DEF TelemetryInv, TelemetryTypeOK, FlushRecord
      <4> QED BY <4>1, <4>2
    <3> QED BY <3>1, <3>2
  <2>8. FixesAccounted'
    BY <1>1, <1>4, <2>3 DEF TelemetryInv, FixesAccounted
  <2>9. FlushedOldestFirst'
    <3>1. ASSUME NEW k \in rows' \ flushed' PROVE n < k
      <4>1. k \in flush[f].pending \/ n < k
        BY <2>2, <2>5, <3>1 DEF TelemetryInv, FlushInv
      <4>2. k \in flush[f].pending => n =< k /\ k # n
        BY <2>2, <2>5, <3>1
      <4>3. k \in Nat /\ n \in Nat
        BY <2>3, <2>5, <3>1, AllTaken
      <4> QED BY <4>1, <4>2, <4>3
    <3> QED BY <1>4, <2>5, <3>1 DEF TelemetryInv, FlushedOldestFirst
  <2>10. EnqueueInv' /\ BufferBounded'
    BY <1>1, <1>4, FewerRowsBounded DEF TelemetryInv, EnqueueInv
  <2> QED BY <2>6, <2>7, <2>8, <2>9, <2>10 DEF TelemetryInv
<1> QED BY <1>3, <1>4 DEF FlushNext

(* What comes back when the app is killed was handed over, what does not   *)
(* was never saved.                                                        *)
LEMMA AppKilledIInv ==
  ASSUME TelemetryInv, AppKilled
  PROVE  TelemetryInv'
<1>1. PICK back \in SUBSET UNION {flush[f].removing : f \in Flusher}, lost \in SUBSET counting :
         rows' = (rows \cup back) \ lost /\ unsaved' = unsaved \cup (lost \cap rows)
  BY DEF AppKilled
<1>2. /\ counting' = {} /\ evicting' = {} /\ flush' = [f \in Flusher |-> IdleFlush]
      /\ kills < MaxKill /\ kills' = kills + 1
      /\ UNCHANGED <<taken, drops, handed, flushed, evicted>>
  BY DEF AppKilled, historyVars
<1>3. back \subseteq flushed /\ back \subseteq Fix /\ back \subseteq handed
  BY <1>1 DEF TelemetryInv, FlushInv, TelemetryTypeOK
<1>4. TelemetryTypeOK'
  <2>1. tx' \in [Tx -> Transmitter]
    <3>1. [NewTransmitter EXCEPT !.pc = "failed"] \in Transmitter
      BY DEF NewTransmitter, Transmitter
    <3> QED BY <3>1 DEF AppKilled, TelemetryInv, TelemetryTypeOK
  <2>2. IdleFlush \in FlushRecord
    BY DEF IdleFlush, FlushRecord, Tx
  <2>3. kills' \in 0 .. MaxKill
    BY <1>2 DEF TelemetryInv, TelemetryTypeOK
  <2> QED BY <1>1, <1>2, <1>3, <2>1, <2>2, <2>3 DEF TelemetryInv, TelemetryTypeOK
<1>5. FlushInv'
  BY <1>2 DEF FlushInv, IdleFlush
<1>6. EnqueueInv'
  BY <1>2, FS_EmptySet DEF EnqueueInv
<1>7. FixesAccounted' /\ FlushedOldestFirst'
  BY <1>1, <1>2, <1>3 DEF TelemetryInv, FixesAccounted, FlushedOldestFirst
<1>8. BufferBounded'
  BY <1>2 DEF TelemetryInv, TelemetryTypeOK, BufferBounded
<1> QED BY <1>4, <1>5, <1>6, <1>7, <1>8 DEF TelemetryInv

----------------------------------------------------------------------------
LEMMA StepIInv == TelemetryInv /\ [TelemetryNext]_telemetryVars => TelemetryInv'
<1> SUFFICES ASSUME TelemetryInv, [TelemetryNext]_telemetryVars PROVE TelemetryInv'
  OBVIOUS
<1>1. ASSUME NEW x \in Tx, NextTrip(x) \/ TripOver(x) \/ TransmitterStep(x) PROVE TelemetryInv'
  BY <1>1, TransmitterIInv, OnPositionIInv DEF TransmitterStep
<1>2. CASE BufferStep
  BY <1>2, CountRowsIInv, EvictIInv, FlushNextIInv DEF BufferStep
<1>3. CASE AppKilled
  BY <1>3, AppKilledIInv
<1>4. CASE UNCHANGED telemetryVars
  BY <1>4 DEF telemetryVars, TelemetryInv, TelemetryTypeOK, FlushInv, EnqueueInv, FixesAccounted,
     FlushedOldestFirst, BufferBounded
<1> QED BY <1>1, <1>2, <1>3, <1>4 DEF TelemetryNext

(* The phone loses no position on its own: every fix it selected is handed *)
(* to the MQTT client, waiting in SQLite, evicted as one too many or, if   *)
(* the app was killed, was still being saved; what comes from the buffer   *)
(* comes oldest first, whichever flushes overlap; the buffer exceeds its   *)
(* limit only by the enqueue calls still at work.  For every number of     *)
(* trips, flushes, fixes, broken connections and kills.                    *)
THEOREM BufferSafety ==
  TelemetrySpec => [](TelemetryTypeOK /\ FixesAccounted /\ FlushedOldestFirst /\ BufferBounded)
<1>1. TelemetrySpec => []TelemetryInv
  BY InitTelemetryInv, StepIInv, PTL DEF TelemetrySpec
<1>2. TelemetryInv => TelemetryTypeOK /\ FixesAccounted /\ FlushedOldestFirst /\ BufferBounded
  BY DEF TelemetryInv
<1> QED BY <1>1, <1>2, PTL

(* However many flushes overlap and wherever the connection breaks or the  *)
(* app is killed, the buffered fixes of a trip reach the MQTT client       *)
(* oldest first.                                                           *)
THEOREM OldestFirst == TelemetrySpec => []FlushedOldestFirst
<1>1. TelemetryTypeOK /\ FixesAccounted /\ FlushedOldestFirst /\ BufferBounded => FlushedOldestFirst
  OBVIOUS
<1> QED BY <1>1, BufferSafety, PTL

HIDE TelemetryAssumption
USE OtpAssumption

(***************************************************************************)
(* Signing in (OtpLogin): any identifiers, codes, calls and attempts.      *)
(***************************************************************************)

(* A code that was not issued is untouched.                                *)
Untouched ==
    \A c \in Code : c > issued => uses[c] = 0 /\ wrong[c] = 0 /\ c \notin gone

(* A code somebody waits for was issued and granted nothing yet; it is no  *)
(* other id's code, its guesses are those counted against it, and it is    *)
(* gone only once it expired.                                              *)
Waiting ==
    \A i \in Id : pending[i] # NoCode =>
        LET c == pending[i].code
        IN  /\ c <= issued /\ uses[c] = 0 /\ wrong[c] = pending[i].attempts
            /\ ~pending[i].expired => c \notin gone
            /\ \A j \in Id \ {i} : pending[j].code # c

ServerInv == ServerTypeOK /\ Untouched /\ Waiting /\ CodeGrantsOnce

LEMMA PendingCode ==
  ASSUME ServerTypeOK, NEW i \in Id
  PROVE  /\ pending[i] # NoCode => pending[i] \in Pending
         /\ pending[i].code \in Nat /\ (pending[i].code = 0 <=> pending[i] = NoCode)
         /\ pending[i].expired => pending[i] # NoCode
BY DEF ServerTypeOK, Pending, Code, NoCode

(* The codes put aside are codes somebody waited for.                      *)
LEMMA CodesOfPending ==
  ASSUME ServerTypeOK, NEW ids \in SUBSET Id
  PROVE  /\ CodesOf(ids) \subseteq Code
         /\ \A c \in CodesOf(ids) : \E i \in ids : pending[i] # NoCode /\ pending[i].code = c
<1>1. ASSUME NEW c \in CodesOf(ids)
      PROVE  c \in Code /\ \E i \in ids : pending[i] # NoCode /\ pending[i].code = c
  <2>1. PICK i \in ids : pending[i].code = c /\ c # 0
    BY <1>1 DEF CodesOf
  <2>2. i \in Id /\ pending[i] # NoCode /\ pending[i] \in Pending
    BY <2>1, PendingCode
  <2> QED BY <2>1, <2>2 DEF Pending
<1> QED BY <1>1

LEMMA IssueInv ==
  ASSUME ServerInv, NEW id \in Id, Issue(id)
  PROVE  ServerInv'
<1> DEFINE stale == {i \in Id : pending[i].expired}
           fresh == [code |-> issued + 1, attempts |-> 0, expired |-> FALSE]
<1>1. /\ issued \in 0 .. MaxCode /\ issued < MaxCode /\ issued' = issued + 1
      /\ pending' = [i \in Id |-> IF i = id THEN fresh
                                  ELSE IF i \in stale THEN NoCode ELSE pending[i]]
      /\ gone' = gone \cup CodesOf(stale \cup {id})
      /\ UNCHANGED <<uses, wrong, granted>>
  BY DEF Issue, ServerInv, ServerTypeOK
<1>2. /\ CodesOf(stale \cup {id}) \subseteq Code
      /\ \A c \in CodesOf(stale \cup {id}) :
            \E i \in stale \cup {id} : pending[i] # NoCode /\ pending[i].code = c
  BY CodesOfPending DEF ServerInv
<1>3. issued + 1 \in Code /\ fresh \in Pending
  BY <1>1 DEF Code, Pending
<1>4. ServerTypeOK'
  BY <1>1, <1>2, <1>3 DEF ServerInv, ServerTypeOK
<1>5. \A c \in CodesOf(stale \cup {id}) : c <= issued /\ uses[c] = 0
  BY <1>2 DEF ServerInv, Waiting
<1>6. Untouched'
  BY <1>1, <1>5 DEF ServerInv, Untouched, Code
<1>7. Waiting'
  <2> SUFFICES ASSUME NEW i \in Id, pending'[i] # NoCode
               PROVE  /\ pending'[i].code <= issued' /\ uses'[pending'[i].code] = 0
                      /\ wrong'[pending'[i].code] = pending'[i].attempts
                      /\ ~pending'[i].expired => pending'[i].code \notin gone'
                      /\ \A j \in Id \ {i} : pending'[j].code # pending'[i].code
    BY DEF Waiting
  <2>0. \A j \in Id : pending[j].code \in Nat /\ pending[j].code <= issued
    BY PendingCode, <1>1 DEF ServerInv, Waiting, NoCode
  <2>1. CASE i = id
    <3>1. \A j \in Id \ {i} : pending'[j].code # issued + 1
      BY <2>0, <1>1, <2>1 DEF NoCode
    <3> QED BY <1>1, <1>3, <1>5, <2>1, <3>1 DEF ServerInv, Untouched
  <2>2. CASE i # id
    <3>1. i \notin stale /\ pending'[i] = pending[i] /\ pending[i] # NoCode /\ ~pending[i].expired
      BY <1>1, <2>2
    <3>2. pending[i].code \notin CodesOf(stale \cup {id})
      BY <1>2, <2>2, <3>1 DEF ServerInv, Waiting
    <3>3. \A j \in Id \ {i} : pending'[j].code # pending[i].code
      <4>1. pending[i].code # 0 /\ pending[i].code # issued + 1
        BY <2>0, <3>1, <1>1, PendingCode DEF ServerInv
      <4> QED BY <1>1, <3>1, <4>1 DEF ServerInv, Waiting, NoCode
    <3> QED BY <1>1, <2>0, <3>1, <3>2, <3>3 DEF ServerInv, Waiting
  <2> QED BY <2>1, <2>2
<1>8. CodeGrantsOnce'
  BY <1>1, <1>5 DEF ServerInv, CodeGrantsOnce
<1> QED BY <1>4, <1>6, <1>7, <1>8 DEF ServerInv

(* Withdrawing or expiring a code.                                         *)
LEMMA WithdrawInv ==
  ASSUME ServerInv, NEW id \in Id, NEW entry \in Pending \cup {NoCode},
         entry # NoCode => /\ pending[id] # NoCode /\ entry.code = pending[id].code
                           /\ entry.attempts = pending[id].attempts /\ entry.expired,
         pending' = [pending EXCEPT ![id] = entry],
         gone' = gone \cup CodesOf({id}), UNCHANGED <<issued, uses, wrong, granted>>
  PROVE  ServerInv'
<1>1. /\ CodesOf({id}) \subseteq Code
      /\ \A c \in CodesOf({id}) : pending[id] # NoCode /\ pending[id].code = c
  BY CodesOfPending DEF ServerInv
<1>2. \A c \in CodesOf({id}) : c <= issued /\ uses[c] = 0
  BY <1>1 DEF ServerInv, Waiting
<1>3. ServerTypeOK'
  BY <1>1 DEF ServerInv, ServerTypeOK
<1>4. Untouched'
  <2>1. ASSUME NEW c \in Code, c > issued PROVE c \notin CodesOf({id})
    <3>1. c \in Nat /\ issued \in Nat
      BY DEF ServerInv, ServerTypeOK, Code
    <3>2. ~(c <= issued)
      BY <2>1, <3>1
    <3> QED BY <1>2, <3>2, Zenon
  <2> QED BY <2>1 DEF ServerInv, Untouched
<1>5. Waiting'
  <2>1. \A j \in Id : pending'[j].code \in {0, pending[j].code}
    BY DEF ServerInv, ServerTypeOK, NoCode, Pending
  <2>2. ASSUME NEW i \in Id, pending'[i] # NoCode
        PROVE  /\ pending'[i].code <= issued' /\ uses'[pending'[i].code] = 0
               /\ wrong'[pending'[i].code] = pending'[i].attempts
               /\ ~pending'[i].expired => pending'[i].code \notin gone'
               /\ \A j \in Id \ {i} : pending'[j].code # pending'[i].code
    <3>1. /\ pending[i] # NoCode /\ pending'[i].code = pending[i].code
          /\ pending'[i].attempts = pending[i].attempts /\ pending[i].code # 0
          /\ i = id => pending'[i].expired
          /\ i # id => pending'[i] = pending[i]
      BY <2>2, PendingCode DEF ServerInv, ServerTypeOK, Pending
    <3>2. \A j \in Id \ {i} : pending'[j].code # pending'[i].code
      BY <2>1, <3>1 DEF ServerInv, Waiting
    <3>3. ASSUME ~pending'[i].expired PROVE pending'[i].code \notin gone'
      <4>1. i # id /\ ~pending[i].expired
        BY <3>1, <3>3
      <4>2. pending[i].code \notin CodesOf({id})
        BY <1>1, <3>1, <4>1 DEF ServerInv, Waiting
      <4> QED BY <3>1, <4>1, <4>2 DEF ServerInv, Waiting
    <3> QED BY <3>1, <3>2, <3>3 DEF ServerInv, Waiting
  <2> QED BY <2>2 DEF Waiting
<1>6. CodeGrantsOnce'
  BY <1>2 DEF ServerInv, CodeGrantsOnce
<1> QED BY <1>3, <1>4, <1>5, <1>6 DEF ServerInv

LEMMA VerifyInv ==
  ASSUME ServerInv, NEW id \in Id, NEW code, NEW grants, Verify(id, code, grants)
  PROVE  ServerInv'
<1> DEFINE entry == pending[id]
           live == entry # NoCode /\ ~entry.expired
           right == live /\ entry.attempts < MaxAttempts /\ entry.code = code
<1>0. /\ granted' \subseteq Id /\ issued' = issued
      /\ live => entry \in Pending /\ entry.code \in Code /\ entry.attempts \in Nat
      /\ pending \in [Id -> Pending \cup {NoCode}]
  BY PendingCode DEF Verify, ServerInv, ServerTypeOK, Pending
<1>1. CASE /\ right /\ pending' = [pending EXCEPT ![id] = NoCode]
           /\ uses' = [uses EXCEPT ![code] = @ + 1] /\ UNCHANGED <<gone, wrong>>
  <2>1. /\ code \in Code /\ code <= issued /\ uses[code] = 0 /\ wrong[code] < MaxAttempts
        /\ code \notin gone /\ \A j \in Id \ {id} : pending[j].code # code
    BY <1>0, <1>1 DEF ServerInv, Waiting
  <2>2. uses' \in [Code -> Nat] /\ uses'[code] = 1 /\ \A c \in Code \ {code} : uses'[c] = uses[c]
    BY <1>1, <2>1 DEF ServerInv, ServerTypeOK
  <2>3. ServerTypeOK'
    BY <1>0, <1>1, <2>2 DEF ServerInv, ServerTypeOK
  <2>4. Untouched'
    BY <1>0, <1>1, <2>1, <2>2 DEF ServerInv, ServerTypeOK, Untouched, Code
  <2>5. Waiting'
    <3>1. ASSUME NEW i \in Id, pending'[i] # NoCode
          PROVE  /\ i # id /\ pending'[i] = pending[i] /\ pending[i].code \in Code \ {code}
                 /\ \A j \in Id \ {i} : pending'[j].code # pending[i].code
      <4>1. i # id /\ pending'[i] = pending[i] /\ pending[i] \in Pending
        BY <1>0, <1>1, <3>1
      <4>2. pending[i].code \in Code /\ pending[i].code # 0
        BY <4>1 DEF Pending, Code
      <4> QED BY <1>0, <1>1, <2>1, <4>1, <4>2 DEF ServerInv, Waiting, NoCode
    <3> QED BY <1>0, <1>1, <2>2, <3>1 DEF ServerInv, Waiting
  <2>6. CodeGrantsOnce'
    BY <1>1, <2>1, <2>2 DEF ServerInv, CodeGrantsOnce
  <2> QED BY <2>3, <2>4, <2>5, <2>6 DEF ServerInv
<1>2. CASE /\ ~right /\ live /\ entry.attempts < MaxAttempts
           /\ pending' = [pending EXCEPT ![id].attempts = @ + 1]
           /\ wrong' = [wrong EXCEPT ![entry.code] = @ + 1] /\ UNCHANGED <<gone, uses>>
  <2>1. entry.code <= issued /\ uses[entry.code] = 0 /\ wrong[entry.code] = entry.attempts
    BY <1>2 DEF ServerInv, Waiting
  <2>2. /\ pending'[id] \in Pending /\ pending'[id].code = entry.code
        /\ pending'[id].attempts = entry.attempts + 1 /\ ~pending'[id].expired
        /\ \A j \in Id \ {id} : pending'[j] = pending[j]
    BY <1>0, <1>2 DEF Pending
  <2>3. /\ wrong' \in [Code -> Nat] /\ wrong'[entry.code] = entry.attempts + 1
        /\ \A c \in Code \ {entry.code} : wrong'[c] = wrong[c]
    BY <1>0, <1>2, <2>1 DEF ServerInv, ServerTypeOK
  <2>4. ServerTypeOK'
    BY <1>0, <1>2, <2>2, <2>3 DEF ServerInv, ServerTypeOK
  <2>5. Untouched'
    BY <1>0, <1>2, <2>1, <2>3 DEF ServerInv, ServerTypeOK, Untouched, Code
  <2>6. Waiting'
    <3>1. \A j \in Id : pending'[j].code = pending[j].code
      BY <2>2
    <3>2. ASSUME NEW i \in Id \ {id}, pending'[i] # NoCode
          PROVE  /\ pending[i] # NoCode /\ pending[i].code \in Code \ {entry.code}
      <4>1. pending[i] \in Pending
        BY <1>0, <2>2, <3>2
      <4> QED BY <1>2, <2>2, <3>2, <4>1 DEF ServerInv, Waiting, Pending
    <3> QED BY <1>0, <1>2, <2>1, <2>2, <2>3, <3>1, <3>2 DEF ServerInv, Waiting
  <2>7. CodeGrantsOnce'
    BY <1>0, <1>2, <2>1, <2>3 DEF ServerInv, CodeGrantsOnce
  <2> QED BY <2>4, <2>5, <2>6, <2>7 DEF ServerInv
<1>3. CASE (~live \/ entry.attempts = MaxAttempts) /\ Withdraw(id) /\ UNCHANGED <<uses, wrong>>
  <2>1. ~right
    BY <1>0, <1>3
  <2>2. granted' = granted
    BY <2>1 DEF Verify
  <2> QED BY <1>0, <1>3, <2>2, WithdrawInv DEF Withdraw
<1> QED BY <1>1, <1>2, <1>3 DEF Verify
----------------------------------------------------------------------------
(* The calls.                                                              *)

CallsInv == \A k \in DOMAIN calls : (calls[k].kind = "verify" /\ calls[k].at = "granted")
                                        => calls[k].id \in granted

LEMMA CallTyped ==
  ASSUME CallsTypeOK, NEW k \in DOMAIN calls
  PROVE  /\ calls[k] \in Call \cup {Over}
         /\ calls[k].kind # "over" => calls[k] \in Call
         /\ calls[k].awaited => calls[k] \in Call
         /\ calls[k].at = "sent" => calls[k] \in Call
BY DEF CallsTypeOK, Over

(* One call is replaced by another.                                        *)
LEMMA CallReplaced ==
  ASSUME CallsTypeOK, CallsInv, NEW k \in DOMAIN calls, NEW c \in Call \cup {Over},
         calls' = [calls EXCEPT ![k] = c], granted \subseteq granted',
         (c.kind = "verify" /\ c.at = "granted") => c.id \in granted'
  PROVE  /\ CallsTypeOK' /\ CallsInv'
         /\ DOMAIN calls' = DOMAIN calls /\ calls'[k] = c
         /\ \A j \in DOMAIN calls \ {k} : calls'[j] = calls[j]
BY DEF CallsTypeOK, CallsInv

LEMMA CallSent ==
  ASSUME CallsTypeOK, CallsInv, account \in Id, NEW kind \in {"request", "verify"},
         NEW code \in Text, SendCall(kind, code), UNCHANGED granted
  PROVE  /\ CallsTypeOK' /\ CallsInv'
         /\ \A k \in DOMAIN calls' : \/ k \in DOMAIN calls /\ calls'[k] = calls[k]
                                     \/ calls'[k].id = account
<1> DEFINE n == Cardinality(DOMAIN calls)
           new == [kind |-> kind, id |-> account, code |-> code, at |-> "sent", awaited |-> TRUE]
<1>1. n \in Nat /\ DOMAIN calls = 1 .. n /\ n + 1 <= MaxCall
      /\ calls' = [k \in 1 .. n + 1 |-> IF k < n + 1 THEN calls[k] ELSE new]
  BY DEF CallsTypeOK, SendCall
<1>2. DOMAIN calls' = 1 .. n + 1 /\ Cardinality(1 .. n + 1) = n + 1
  <2>1. \A m \in Nat : Cardinality(1 .. m + 1) = m + 1
    BY FS_Interval
  <2> QED BY <1>1, <2>1
<1>3. new \in Call
  BY DEF Call
<1>4. \A k \in 1 .. n + 1 : \/ k \in DOMAIN calls /\ calls'[k] = calls[k]
                            \/ calls'[k] = new
  BY <1>1
<1>5. calls' \in [1 .. n + 1 -> Call \cup {Over}]
  <2>1. ASSUME NEW k \in 1 .. n + 1 PROVE calls'[k] \in Call \cup {Over}
    BY <1>3, <1>4, CallTyped
  <2> QED BY <1>1, <2>1
<1>6. CallsTypeOK'
  <2>1. Cardinality(DOMAIN calls') = n + 1
    BY <1>2
  <2>2. n + 1 \in 0 .. MaxCall
    BY <1>1
  <2> HIDE DEF n, new
  <2> QED BY <1>5, <2>1, <2>2 DEF CallsTypeOK
<1> QED BY <1>2, <1>4, <1>6 DEF CallsInv

----------------------------------------------------------------------------
(* The screen.  As which id the screen is verified or waits to be; and the *)
(* newest reveal still waiting is of the code shown.                       *)
NowhereElse == \A k \in DOMAIN calls : (calls[k].kind = "verify" /\ Out(k))
                                          => calls[k].id = account \/ edited
Verified ==
    /\ step = "bus" => role = "driver" /\ (account \in granted \/ edited)
    /\ step = "in" => account \in granted \/ (role = "driver" /\ edited)
SignInv == step # "over" /\ NowhereElse /\ Verified

Newest == Cardinality(DOMAIN reveals)
RevealInv ==
    /\ role = "driver" => Newest = 0
    /\ Newest # 0 => reveals[Newest] \in {Empty, banner}
    /\ RevealIsLatest

LoginInv == ServerInv /\ ScreenTypeOK /\ CallsTypeOK /\ CallsInv /\ SignInv /\ RevealInv

LEMMA InitLoginInv == LoginInit => LoginInv
<1> SUFFICES ASSUME LoginInit PROVE LoginInv
  OBVIOUS
<1>1. /\ DOMAIN [t \in 1 .. 0 |-> Empty] = 1 .. 0 /\ DOMAIN [k \in 1 .. 0 |-> Over] = 1 .. 0
      /\ Cardinality(1 .. 0) = 0
  BY FS_Interval
<1>2. ServerInv
  BY DEF LoginInit, ServerInv, ServerTypeOK, Untouched, Waiting, CodeGrantsOnce
<1>3. ScreenTypeOK
  <2>1. reveals \in [1 .. 0 -> Text] /\ Cardinality(DOMAIN reveals) = 0 /\ Empty \in Text
    BY <1>1 DEF LoginInit, Text, Empty
  <2>2. reveals \in [1 .. Cardinality(DOMAIN reveals) -> Text] /\ Cardinality(DOMAIN reveals) \in Nat
    BY <2>1
  <2> QED BY <2>1, <2>2 DEF LoginInit, ScreenTypeOK
<1>5. CallsTypeOK
  <2>1. calls \in [1 .. 0 -> Call \cup {Over}] /\ Cardinality(DOMAIN calls) = 0
    BY <1>1 DEF LoginInit
  <2> QED BY <2>1 DEF CallsTypeOK
<1>4. CallsInv /\ SignInv /\ RevealInv
  BY <1>1 DEF LoginInit, CallsInv, SignInv, NowhereElse, Verified, RevealInv, Newest, RevealIsLatest
<1> QED BY <1>2, <1>3, <1>4, <1>5 DEF LoginInv

(* Only the server and the calls change: ids are only ever granted more,   *)
(* and no call goes out that was not.                                      *)
LEMMA ServerStep ==
  ASSUME LoginInv, UNCHANGED screenVars, ServerInv', CallsTypeOK', CallsInv', granted \subseteq granted',
         \A k \in DOMAIN calls' :
            (calls'[k].kind = "verify" /\ calls'[k].awaited) =>
               /\ k \in DOMAIN calls /\ calls[k].kind = "verify" /\ calls[k].awaited
               /\ calls'[k].id = calls[k].id
  PROVE  LoginInv'
<1>1. ScreenTypeOK'
  BY DEF LoginInv, ScreenTypeOK, screenVars
<1>2. SignInv'
  BY DEF LoginInv, SignInv, NowhereElse, Verified, Out, screenVars
<1>3. RevealInv'
  BY DEF LoginInv, RevealInv, Newest, RevealIsLatest, screenVars
<1> QED BY <1>1, <1>2, <1>3 DEF LoginInv

LEMMA ServeRequestInv ==
  ASSUME LoginInv, NEW k \in DOMAIN calls, ServeRequest(k)
  PROVE  LoginInv'
<1> DEFINE c == IF calls[k].awaited THEN [calls[k] EXCEPT !.at = "granted", !.code = issued + 1] ELSE Over
<1>1. calls[k] \in Call /\ calls[k].kind = "request" /\ calls[k].id \in Id
  BY CallTyped DEF LoginInv, ServeRequest, Call
<1>2. c \in Call \cup {Over} /\ c.kind # "verify"
  <2>1. issued + 1 \in Text
    BY DEF LoginInv, ServerInv, ServerTypeOK, ServeRequest, Issue, Text
  <2> QED BY <1>1, <2>1 DEF Call, Over
<1>3. UNCHANGED <<granted, screenVars>> /\ calls' = [calls EXCEPT ![k] = c] /\ Issue(calls[k].id)
  BY DEF ServeRequest, Issue
<1>4. ServerInv'
  BY <1>1, <1>3, IssueInv DEF LoginInv
<1>5. /\ CallsTypeOK' /\ CallsInv' /\ DOMAIN calls' = DOMAIN calls /\ calls'[k] = c
      /\ \A j \in DOMAIN calls \ {k} : calls'[j] = calls[j]
  BY <1>2, <1>3, CallReplaced DEF LoginInv
<1> QED BY <1>2, <1>3, <1>4, <1>5, ServerStep

LEMMA ServeVerifyInv ==
  ASSUME LoginInv, NEW k \in DOMAIN calls, ServeVerify(k)
  PROVE  LoginInv'
<1>1. calls[k] \in Call /\ calls[k].kind = "verify" /\ calls[k].id \in Id
  BY CallTyped DEF LoginInv, ServeVerify, Call
<1>2. PICK grants \in BOOLEAN :
         /\ Answer(k, grants) /\ ServerInv' /\ granted \subseteq granted'
         /\ grants => calls[k].id \in granted'
  <2>1. CASE Answer(k, FALSE) /\ UNCHANGED serverVars
    <3>1. ServerInv'
      BY <2>1 DEF LoginInv, ServerInv, ServerTypeOK, Untouched, Waiting, CodeGrantsOnce, serverVars
    <3> QED BY <2>1, <3>1 DEF serverVars
  <2>2. CASE \E grants \in BOOLEAN : Verify(calls[k].id, calls[k].code, grants) /\ Answer(k, grants)
    <3>1. PICK grants \in BOOLEAN : Verify(calls[k].id, calls[k].code, grants) /\ Answer(k, grants)
      BY <2>2
    <3>2. ServerInv'
      BY <1>1, <3>1, VerifyInv DEF LoginInv
    <3>3. granted \subseteq granted' /\ (grants => calls[k].id \in granted')
      BY <3>1 DEF Verify
    <3> QED BY <3>1, <3>2, <3>3
  <2> QED BY <2>1, <2>2 DEF ServeVerify
<1> DEFINE c == IF ~calls[k].awaited THEN Over
                ELSE [calls[k] EXCEPT !.at = IF grants THEN "granted" ELSE "refused"]
<1>3. c \in Call \cup {Over} /\ calls' = [calls EXCEPT ![k] = c] /\ UNCHANGED screenVars
  BY <1>1, <1>2 DEF Call, Answer, ServeVerify
<1>4. /\ c.kind = "verify" /\ c.awaited => calls[k].awaited /\ c.id = calls[k].id
      /\ c.kind = "verify" /\ c.at = "granted" => c.id \in granted'
  BY <1>1, <1>2 DEF Call, Over
<1>5. /\ CallsTypeOK' /\ CallsInv' /\ DOMAIN calls' = DOMAIN calls /\ calls'[k] = c
      /\ \A j \in DOMAIN calls \ {k} : calls'[j] = calls[j]
  BY <1>2, <1>3, <1>4, CallReplaced DEF LoginInv
<1> QED BY <1>1, <1>2, <1>3, <1>4, <1>5, ServerStep

LEMMA ExpireInv ==
  ASSUME LoginInv, NEW id \in Id, Expire(id)
  PROVE  LoginInv'
<1> DEFINE entry == [pending[id] EXCEPT !.expired = TRUE]
<1>1. /\ pending[id] \in Pending /\ pending[id] # NoCode /\ UNCHANGED <<granted, screenVars, calls>>
      /\ pending' = [pending EXCEPT ![id] = entry]
  BY PendingCode DEF Expire, LoginInv, ServerInv
<1>2. entry \in Pending /\ entry.code = pending[id].code /\ entry.attempts = pending[id].attempts
      /\ entry.expired
  BY <1>1 DEF Pending
<1>3. ServerInv'
  <2> HIDE DEF entry
  <2> QED BY <1>1, <1>2, WithdrawInv DEF Expire, LoginInv
<1>4. CallsTypeOK' /\ CallsInv'
  BY <1>1 DEF LoginInv, CallsTypeOK, CallsInv
<1> QED BY <1>1, <1>3, <1>4, ServerStep

LEMMA OtherPhoneInv ==
  ASSUME LoginInv, NEW id \in Id, OtherPhone(id)
  PROVE  LoginInv'
<1>1. ServerInv'
  BY IssueInv DEF LoginInv, OtherPhone
<1>2. CallsTypeOK' /\ CallsInv' /\ granted' = granted
  BY DEF LoginInv, OtherPhone, Issue, CallsTypeOK, CallsInv
<1> QED BY <1>1, <1>2, ServerStep DEF OtherPhone

(* The screen acts: nothing changes at the server.                         *)
LEMMA ScreenStep ==
  ASSUME LoginInv, UNCHANGED serverVars, ScreenTypeOK', SignInv', RevealInv',
         (CallsTypeOK' /\ CallsInv') \/ UNCHANGED calls
  PROVE  LoginInv'
<1>1. ServerInv' /\ UNCHANGED granted
  BY DEF LoginInv, ServerInv, ServerTypeOK, Untouched, Waiting, CodeGrantsOnce, serverVars
<1>2. CallsTypeOK' /\ CallsInv'
  BY <1>1 DEF LoginInv, CallsTypeOK, CallsInv
<1> QED BY <1>1, <1>2 DEF LoginInv

(* The phone stops waiting for a call.                                     *)
LEMMA ToldCall ==
  ASSUME LoginInv, NEW k \in DOMAIN calls, Out(k), Told(k), UNCHANGED serverVars
  PROVE  /\ calls[k] \in Call /\ CallsTypeOK' /\ CallsInv'
         /\ DOMAIN calls' = DOMAIN calls /\ ~calls'[k].awaited
         /\ \A j \in DOMAIN calls \ {k} : calls'[j] = calls[j]
<1> DEFINE c == IF calls[k].at = "sent" THEN [calls[k] EXCEPT !.awaited = FALSE] ELSE Over
<1>1. calls[k] \in Call /\ calls' = [calls EXCEPT ![k] = c] /\ granted' = granted
  BY CallTyped DEF LoginInv, Out, Told, serverVars
<1>2. c \in Call \cup {Over} /\ ~c.awaited /\ c.at # "granted"
  BY <1>1 DEF Call, Over
<1> HIDE DEF c
<1> QED BY <1>1, <1>2, CallReplaced DEF LoginInv

LEMMA ArrivesInv ==
  ASSUME LoginInv, NEW k \in DOMAIN calls, CodeArrives(k) \/ VerifiedArrives(k) \/ CallFails(k)
  PROVE  LoginInv'
<1>1. Out(k) /\ Told(k) /\ UNCHANGED <<serverVars, role, edited>> /\ UNCHANGED granted /\ step # "in"
  BY DEF CodeArrives, VerifiedArrives, CallFails, OnlyLogin, serverVars, Out
<1>2. /\ calls[k] \in Call /\ calls[k].id \in Id /\ calls[k].code \in Text
      /\ CallsTypeOK' /\ CallsInv' /\ DOMAIN calls' = DOMAIN calls
      /\ ~calls'[k].awaited /\ \A j \in DOMAIN calls \ {k} : calls'[j] = calls[j]
  BY <1>1, ToldCall DEF Call
<1>3. ASSUME UNCHANGED account, step' # "in" PROVE NowhereElse'
  BY <1>1, <1>2, <1>3 DEF LoginInv, SignInv, NowhereElse, Out
<1>4. CASE CodeArrives(k)
  <2>1. /\ banner' = calls[k].code /\ typed' = FALSE /\ step' = "otp" /\ UNCHANGED account
        /\ \/ role = "driver" /\ field' = calls[k].code /\ UNCHANGED reveals
           \/ /\ role = "passenger" /\ field' = Empty
              /\ reveals' = [t \in 1 .. Newest + 1 |-> IF t = Newest + 1 THEN calls[k].code ELSE reveals[t]]
    BY <1>4 DEF CodeArrives, Newest
  <2>2. Newest \in Nat /\ reveals \in [1 .. Newest -> Text]
    BY DEF LoginInv, ScreenTypeOK, Newest
  <2>3. CASE role = "driver" /\ field' = calls[k].code /\ UNCHANGED reveals
    <3>1. ScreenTypeOK'
      BY <1>1, <1>2, <2>1, <2>3 DEF LoginInv, ScreenTypeOK
    <3>2. RevealInv'
      BY <1>1, <2>1, <2>3 DEF LoginInv, RevealInv, Newest, RevealIsLatest
    <3>3. SignInv'
      BY <1>1, <1>3, <2>1 DEF LoginInv, SignInv, Verified
    <3> QED BY <1>1, <1>2, <3>1, <3>2, <3>3, ScreenStep
  <2>4. CASE /\ role = "passenger" /\ field' = Empty
             /\ reveals' = [t \in 1 .. Newest + 1 |-> IF t = Newest + 1 THEN calls[k].code ELSE reveals[t]]
    <3>1. DOMAIN reveals' = 1 .. Newest + 1 /\ Newest' = Newest + 1 /\ reveals'[Newest + 1] = calls[k].code
      <4>1. \A m \in Nat : Cardinality(1 .. m + 1) = m + 1
        BY FS_Interval
      <4>2. DOMAIN reveals' = 1 .. Newest + 1 /\ Newest + 1 \in 1 .. Newest + 1
        BY <2>2, <2>4
      <4> QED BY <2>2, <2>4, <4>1, <4>2 DEF Newest
    <3>2. reveals' \in [1 .. Newest + 1 -> Text]
      <4>1. ASSUME NEW t \in 1 .. Newest + 1 PROVE reveals'[t] \in Text
        BY <1>2, <2>2, <2>4, <4>1
      <4> QED BY <2>4, <4>1
    <3>3. reveals' \in [1 .. Cardinality(DOMAIN reveals') -> Text] /\ Cardinality(DOMAIN reveals') \in Nat
      BY <2>2, <3>1, <3>2 DEF Newest
    <3>4. ScreenTypeOK'
      <4>1. Empty \in Text
        BY DEF Text, Empty
      <4> QED BY <1>1, <1>2, <2>1, <2>4, <3>3, <4>1 DEF LoginInv, ScreenTypeOK
    <3>5. RevealInv'
      BY <1>1, <2>1, <2>4, <3>1 DEF RevealInv, RevealIsLatest
    <3>6. SignInv'
      BY <1>1, <1>3, <2>1 DEF LoginInv, SignInv, Verified
    <3> QED BY <1>1, <1>2, <3>4, <3>5, <3>6, ScreenStep
  <2> QED BY <2>1, <2>3, <2>4
<1>5. CASE VerifiedArrives(k)
  <2>1. /\ calls[k].kind = "verify" /\ calls[k].id \in granted /\ (calls[k].id = account \/ edited)
        /\ UNCHANGED <<field, typed, banner, reveals>>
        /\ \/ role = "driver" /\ step' = "bus" /\ UNCHANGED account
           \/ role = "passenger" /\ step' = "in" /\ account' = calls[k].id
    BY <1>5 DEF VerifiedArrives, LoginInv, CallsInv, SignInv, NowhereElse
  <2>2. ScreenTypeOK' /\ RevealInv'
    BY <1>1, <1>2, <2>1 DEF LoginInv, ScreenTypeOK, RevealInv, Newest, RevealIsLatest
  <2>3. SignInv'
    <3>1. CASE step' = "bus"
      BY <1>1, <1>3, <2>1, <3>1 DEF LoginInv, SignInv, Verified
    <3>2. CASE step' = "in"
      BY <1>1, <2>1, <3>2 DEF SignInv, Verified, NowhereElse, Out
    <3> QED BY <2>1, <3>1, <3>2
  <2> QED BY <1>1, <1>2, <2>2, <2>3, ScreenStep
<1>6. CASE CallFails(k)
  <2>1. UNCHANGED <<step, account, field, typed, banner, reveals>>
    BY <1>6 DEF CallFails
  <2>2. ScreenTypeOK' /\ RevealInv'
    BY <1>1, <2>1 DEF LoginInv, ScreenTypeOK, RevealInv, Newest, RevealIsLatest
  <2>3. SignInv'
    BY <1>1, <1>3, <2>1 DEF LoginInv, SignInv, Verified
  <2> QED BY <1>1, <1>2, <2>2, <2>3, ScreenStep
<1> QED BY <1>4, <1>5, <1>6

(* The person edits, types, submits and moves on.                          *)
LEMMA EditIdInv ==
  ASSUME LoginInv, NEW id \in Id, EditId(id)
  PROVE  LoginInv'
<1>1. /\ step = "id" /\ account' = id /\ UNCHANGED <<role, step, field, typed, banner, reveals, calls>>
      /\ edited' = (edited \/ \E k \in DOMAIN calls : calls[k].kind = "verify" /\ Out(k))
      /\ UNCHANGED serverVars
  BY DEF EditId, OnlyLogin
<1>2. ScreenTypeOK' /\ RevealInv'
  BY <1>1 DEF LoginInv, ScreenTypeOK, RevealInv, Newest, RevealIsLatest
<1>3. SignInv'
  BY <1>1 DEF LoginInv, SignInv, NowhereElse, Verified, Out
<1> QED BY <1>1, <1>2, <1>3, ScreenStep

LEMMA SubmitInv ==
  ASSUME LoginInv, RequestOtp \/ VerifyOtp
  PROVE  LoginInv'
<1>1. PICK kind \in {"request", "verify"}, code \in Text : SendCall(kind, code)
  <2>1. Empty \in Text /\ field \in Text
    BY DEF LoginInv, ScreenTypeOK, Text, Empty
  <2> QED BY <2>1 DEF RequestOtp, VerifyOtp
<1>2. UNCHANGED <<serverVars, screenVars>> /\ UNCHANGED granted
  BY DEF RequestOtp, VerifyOtp, serverVars
<1>3. /\ CallsTypeOK' /\ CallsInv'
      /\ \A k \in DOMAIN calls' : \/ k \in DOMAIN calls /\ calls'[k] = calls[k]
                                  \/ calls'[k].id = account
  BY <1>1, <1>2, CallSent DEF LoginInv, ScreenTypeOK
<1>4. ScreenTypeOK' /\ RevealInv'
  BY <1>2 DEF LoginInv, ScreenTypeOK, RevealInv, Newest, RevealIsLatest, screenVars
<1>5. SignInv'
  BY <1>2, <1>3 DEF LoginInv, SignInv, NowhereElse, Verified, Out, screenVars
<1> QED BY <1>2, <1>3, <1>4, <1>5, ScreenStep

LEMMA MoveInv ==
  ASSUME LoginInv, UseDifferentId \/ ContinueToRoutes \/ (\E text \in Text : TypeCode(text))
  PROVE  LoginInv'
<1>1. UNCHANGED <<serverVars, role, account, banner, reveals, edited, calls>> /\ UNCHANGED granted
  BY DEF UseDifferentId, ContinueToRoutes, TypeCode, OnlyLogin, serverVars
<1>2. ScreenTypeOK'
  BY <1>1 DEF LoginInv, ScreenTypeOK, UseDifferentId, ContinueToRoutes, TypeCode
<1>3. RevealInv'
  BY <1>1 DEF LoginInv, RevealInv, Newest, RevealIsLatest, UseDifferentId, ContinueToRoutes, TypeCode
<1>4. SignInv'
  <2>1. \/ step' = "id" /\ step = "otp"
        \/ step' = "in" /\ step = "bus"
        \/ step' = step
    BY DEF UseDifferentId, ContinueToRoutes, TypeCode
  <2> QED BY <1>1, <2>1 DEF LoginInv, SignInv, NowhereElse, Verified, Out
<1> QED BY <1>1, <1>2, <1>3, <1>4, ScreenStep

LEMMA RevealStepInv ==
  ASSUME LoginInv, NEW t \in DOMAIN reveals, Reveal(t)
  PROVE  LoginInv'
<1>1. /\ reveals[t] # Empty /\ reveals' = [reveals EXCEPT ![t] = Empty]
      /\ UNCHANGED <<serverVars, role, step, account, banner, edited, calls>> /\ UNCHANGED granted
      /\ \/ t = Newest /\ field' = reveals[t] /\ typed' = FALSE
         \/ t # Newest /\ UNCHANGED <<field, typed>>
  BY DEF Reveal, OnlyLogin, serverVars, Newest
<1>2. /\ Newest \in Nat /\ reveals \in [1 .. Newest -> Text] /\ Empty \in Text
      /\ DOMAIN reveals' = DOMAIN reveals /\ Newest' = Newest /\ reveals' \in [1 .. Newest -> Text]
  BY <1>1 DEF LoginInv, ScreenTypeOK, Newest, Text, Empty
<1>3. reveals' \in [1 .. Cardinality(DOMAIN reveals') -> Text] /\ Cardinality(DOMAIN reveals') \in Nat
  BY <1>2 DEF Newest
<1>4. ScreenTypeOK'
  BY <1>1, <1>2, <1>3 DEF LoginInv, ScreenTypeOK
<1>5. RevealInv'
  <2>1. Newest # 0 => reveals'[Newest] \in {Empty, banner}
    BY <1>1, <1>2 DEF LoginInv, RevealInv
  <2> QED BY <1>1, <1>2, <2>1 DEF LoginInv, RevealInv, RevealIsLatest
<1>6. SignInv'
  BY <1>1 DEF LoginInv, SignInv, NowhereElse, Verified, Out
<1> QED BY <1>1, <1>4, <1>5, <1>6, ScreenStep

LEMMA NextLoginInv == LoginInv /\ [LoginNext]_loginVars => LoginInv'
<1> SUFFICES ASSUME LoginInv, [LoginNext]_loginVars PROVE LoginInv'
  OBVIOUS
<1>1. ASSUME NEW k \in DOMAIN calls, ServeRequest(k) PROVE LoginInv'
  BY <1>1, ServeRequestInv
<1>2. ASSUME NEW k \in DOMAIN calls, ServeVerify(k) PROVE LoginInv'
  BY <1>2, ServeVerifyInv
<1>3. ASSUME NEW k \in DOMAIN calls, CodeArrives(k) \/ VerifiedArrives(k) \/ CallFails(k) PROVE LoginInv'
  BY <1>3, ArrivesInv
<1>4. ASSUME NEW id \in Id, Expire(id) \/ OtherPhone(id) \/ EditId(id) PROVE LoginInv'
  BY <1>4, ExpireInv, OtherPhoneInv, EditIdInv
<1>5. CASE RequestOtp \/ VerifyOtp
  BY <1>5, SubmitInv
<1>6. CASE UseDifferentId \/ ContinueToRoutes \/ \E text \in Text : TypeCode(text)
  BY <1>6, MoveInv
<1>7. ASSUME NEW t \in DOMAIN reveals, Reveal(t) PROVE LoginInv'
  BY <1>7, RevealStepInv
<1>8. CASE UNCHANGED loginVars
  <2>1. UNCHANGED <<serverVars, calls, screenVars>>
    BY <1>8 DEF loginVars
  <2>2. ScreenTypeOK' /\ RevealInv'
    BY <2>1 DEF LoginInv, ScreenTypeOK, RevealInv, Newest, RevealIsLatest, screenVars
  <2>3. SignInv'
    BY <2>1 DEF LoginInv, SignInv, NowhereElse, Verified, Out, screenVars, serverVars
  <2> QED BY <2>1, <2>2, <2>3, ScreenStep
<1> QED BY <1>1, <1>2, <1>3, <1>4, <1>5, <1>6, <1>7, <1>8 DEF LoginNext

LEMMA LoginInvariance == LoginSpec => []LoginInv
<1>1. LoginInit => LoginInv
  BY InitLoginInv
<1>2. LoginInv /\ [LoginNext]_loginVars => LoginInv'
  BY NextLoginInv
<1> QED BY <1>1, <1>2, PTL DEF LoginSpec

(* Every value is of its type in every run of the sign-in.                 *)
THEOREM LoginTypes == LoginSpec => []LoginTypeOK
<1>1. LoginInv => LoginTypeOK
  BY DEF LoginInv, ServerInv, LoginTypeOK
<1> QED BY <1>1, LoginInvariance, PTL

(* A code grants one verification at most, and none once it is gone or was *)
(* guessed at MaxAttempts times (auth.service.ts verifyOtp).               *)
THEOREM CodesAreSpentOnce == LoginSpec => []CodeGrantsOnce
<1>1. LoginInv => CodeGrantsOnce
  BY DEF LoginInv, ServerInv
<1> QED BY <1>1, LoginInvariance, PTL

(* Whoever is in was verified as who they are, the driver's screen unless  *)
(* the id was edited meanwhile (both login screens' _verifyOtp).           *)
THEOREM OnlyVerifiedGetIn == LoginSpec => []SignedInWasVerified
<1>1. LoginInv => SignedInWasVerified
  BY DEF LoginInv, SignInv, Verified, SignedInWasVerified
<1> QED BY <1>1, LoginInvariance, PTL

(* The code the screen fills in is the code it shows (_revealDemoCode).    *)
THEOREM RevealsAreLatest == LoginSpec => []RevealIsLatest
<1>1. LoginInv => RevealIsLatest
  BY DEF LoginInv, RevealInv
<1> QED BY <1>1, LoginInvariance, PTL

(***************************************************************************)
(* The shifts (DriverTrip), and both after each other.                     *)
(***************************************************************************)

HIDE OtpAssumption
USE DriverTripAssumption

IsStart(i) == request[i].kind = "start"
IsEnd(i) == request[i].kind = "end"
Served(i) == request[i].state = "served"

ServedStarts == {i \in 1 .. sent : IsStart(i) /\ Served(i)}
AskedToEnd(t) == \E i \in 1 .. sent : IsEnd(i) /\ request[i].trip = t

(* The server makes one trip for each start it serves.                     *)
RequestsInv ==
    /\ Cardinality(DOMAIN trips) = Cardinality(ServedStarts)
    /\ \A i \in 1 .. sent :
         /\ request[i].shift <= shift
         /\ IsEnd(i) \/ Served(i) => request[i].trip \in DOMAIN trips
         /\ IsEnd(i) /\ Served(i) => trips[request[i].trip] = "completed"

(* The request a screen waits for is one it sent.                          *)
ScreenInv ==
    /\ screen.waits \in 0 .. sent
    /\ screen.phase # "home" => shift >= 1
    /\ screen.phase \in {"starting", "manualBusy"} => IsStart(screen.waits)
    /\ screen.phase = "ending" => /\ IsEnd(screen.waits)
                                  /\ request[screen.waits].trip = screen.trip
    /\ screen.phase \in {"running", "ending", "ended"} => screen.trip \in DOMAIN trips
    /\ screen.phase = "ended" => trips[screen.trip] = "completed"

(* The trip the screen shows running, or will when it hears of it.         *)
Shown(t) ==
    \/ screen.phase = "running" /\ screen.trip = t
    \/ /\ screen.phase \in {"starting", "manualBusy"}
       /\ Served(screen.waits) /\ request[screen.waits].trip = t
ShownInv == ~overtaken =>
    \A t \in DOMAIN trips : Shown(t) => AskedToEnd(t) \/ trips[t] = "running"

StartsInv ==
    /\ \A i, j \in 1 .. sent : (IsStart(i) /\ IsStart(j) /\ request[i].shift = request[j].shift
                                  /\ request[i].shift \notin retried) => i = j
    /\ screen.phase = "manual" /\ shift \notin retried =>
         \A i \in 1 .. sent : IsStart(i) => request[i].shift < shift
    /\ screen.phase = "startFailed" => shift \in retried

LeftInv == leftRunning \subseteq DOMAIN trips /\ LeavingCloses

TripInv == /\ TelemetryInv /\ DriverTripTypeOK /\ RequestsInv /\ ScreenInv /\ ShownInv
           /\ StartsInv /\ LeftInv

----------------------------------------------------------------------------
LEMMA UpTo == \A k \in Nat : IsFiniteSet(1 .. k) /\ Cardinality(1 .. k) = k
  BY FS_Interval

(* The buffer does not mind what the screens do to the transmitters.       *)
LEMMA Stopped ==
  ASSUME TelemetryInv, NEW x \in Tx, StopTransmitter(x)
  PROVE  tx' \in [Tx -> Transmitter]
<1> DEFINE s == IF tx[x].pc \in {"connecting", "started"} THEN "disconnected" ELSE "missed"
           w == [tx[x] EXCEPT !.listening = FALSE, !.up = FALSE, !.stop = s]
<1>1. tx \in [Tx -> Transmitter] /\ w \in Transmitter
  BY DEF TelemetryInv, TelemetryTypeOK, Transmitter
<1>2. tx' = [tx EXCEPT ![x] = w]
  BY <1>1 DEF StopTransmitter
<1> QED BY <1>1, <1>2

LEMMA ScreensKeepFixes ==
  ASSUME TelemetryInv, tx' \in [Tx -> Transmitter],
         UNCHANGED <<bufferVars, flush, taken, drops, kills, historyVars, unsaved>>
  PROVE  TelemetryInv'
<1>1. TelemetryTypeOK'
  BY DEF TelemetryInv, TelemetryTypeOK, bufferVars, historyVars
<1> QED BY <1>1, TransmitterOnly

LEMMA DriverKeepsFixes ==
  ASSUME TelemetryInv, DriverTripTypeOK, [DriverTripNext]_driverVars
  PROVE  TelemetryInv'
<1>0. tx \in [Tx -> Transmitter] /\ screen.tx \in 0 .. MaxTx
  BY DEF TelemetryInv, TelemetryTypeOK, DriverTripTypeOK, Screen
<1>1. CASE \/ OpenOnTrip \/ OpenManual \/ PostStart \/ RequestFails
           \/ UNCHANGED driverVars
           \/ \E i \in 1 .. sent : ServeStart(i) \/ ServeEnd(i) \/ LoseRequest(i)
  <2>1. UNCHANGED telemetryVars
    BY <1>1 DEF OpenOnTrip, OpenManual, PostStart, RequestFails, driverVars, OnlyScreen,
                ServeStart, ServeEnd, LoseRequest
  <2> QED BY <2>1, <1>0, ScreensKeepFixes DEF telemetryVars, bufferVars, historyVars
<1>2. ASSUME NEW x \in Tx, StartAnswered(x) PROVE TelemetryInv'
  <2>1. tx' \in [Tx -> Transmitter]
    BY <1>0, <1>2 DEF StartAnswered, MakeTransmitter, Transmitter
  <2> QED BY <1>2, <2>1, ScreensKeepFixes DEF StartAnswered
<1>3. CASE EndTrip \/ EndAnswered \/ Leave
  <2>1. \/ UNCHANGED tx
        \/ screen.tx \in Tx /\ StopTransmitter(screen.tx)
    <3>1. CASE Leave
      BY <1>0, <3>1 DEF Leave, Tx
    <3>2. CASE EndTrip \/ EndAnswered
      BY <1>0, <3>2 DEF EndTrip, EndAnswered, DriverTripTypeOK, Tx
    <3> QED BY <1>3, <3>1, <3>2
  <2>2. tx' \in [Tx -> Transmitter]
    BY <1>0, <2>1, Stopped
  <2> QED BY <1>3, <2>2, ScreensKeepFixes DEF EndTrip, EndAnswered, Leave
<1>4. CASE PhoneKilled
  BY <1>4, AppKilledIInv DEF PhoneKilled
<1>5. ASSUME NEW x \in Tx, TransmitterStep(x) PROVE TelemetryInv'
  BY <1>5, TransmitterIInv, OnPositionIInv DEF TransmitterStep
<1>6. CASE BufferStep
  BY <1>6, CountRowsIInv, EvictIInv, FlushNextIInv DEF BufferStep
<1> QED BY <1>1, <1>2, <1>3, <1>4, <1>5, <1>6 DEF DriverTripNext

(* What the invariant says of the types, in the words the steps use.       *)
LEMMA Typed ==
  ASSUME TripInv
  PROVE  /\ sent \in Nat /\ sent <= MaxReq /\ shift \in Nat /\ shift <= MaxShift
         /\ request \in [1 .. sent -> Request] /\ screen \in Screen
         /\ screen.waits \in 0 .. sent
         /\ screen.waits # 0 <=> screen.phase \in {"manualBusy", "starting", "ending"}
         /\ screen.tx # 0 <=> screen.phase \in {"running", "ending"}
         /\ screen.phase # "home" => shift >= 1
         /\ \A i \in 1 .. sent : /\ request[i] \in Request /\ request[i].shift <= shift
                                 /\ request[i].trip \in Trip \cup {NoTrip}
         /\ DOMAIN trips = 1 .. Cardinality(DOMAIN trips)
         /\ Cardinality(DOMAIN trips) \in 0 .. MaxReq
         /\ trips \in [DOMAIN trips -> Status] /\ DOMAIN trips \subseteq Trip
         /\ NoTrip \notin DOMAIN trips
<1>1. /\ sent \in 0 .. MaxReq /\ request \in [1 .. sent -> Request] /\ screen \in Screen
      /\ shift \in 0 .. MaxShift
      /\ screen.waits # 0 <=> screen.phase \in {"manualBusy", "starting", "ending"}
      /\ screen.tx # 0 <=> screen.phase \in {"running", "ending"}
  BY DEF TripInv, DriverTripTypeOK
<1>2. /\ screen.waits \in 0 .. sent
      /\ screen.phase # "home" => shift >= 1
      /\ \A i \in 1 .. sent : request[i].shift <= shift
  BY DEF TripInv, ScreenInv, RequestsInv
<1>3. PICK n \in 0 .. MaxReq : trips \in [1 .. n -> Status]
  BY DEF TripInv, DriverTripTypeOK
<1>4. n \in Nat /\ DOMAIN trips = 1 .. n /\ Cardinality(1 .. n) = n
  BY <1>3, FS_Interval
<1>5. /\ DOMAIN trips = 1 .. Cardinality(DOMAIN trips)
      /\ Cardinality(DOMAIN trips) \in 0 .. MaxReq
      /\ trips \in [DOMAIN trips -> Status] /\ DOMAIN trips \subseteq Trip
      /\ NoTrip \notin DOMAIN trips
  BY <1>3, <1>4 DEF Trip, NoTrip
<1>6. \A i \in 1 .. sent : request[i] \in Request /\ request[i].trip \in Trip \cup {NoTrip}
  BY <1>1 DEF Request
<1> QED BY <1>1, <1>2, <1>5, <1>6

----------------------------------------------------------------------------
(* A request is sent: nothing is asked of the server yet but this.         *)
LEMMA SentOne ==
  ASSUME TripInv, NEW kind \in {"start", "end"}, NEW t \in Trip \cup {NoTrip},
         NEW s \in 1 .. MaxShift, Send(kind, t, s),
         UNCHANGED trips, shift' \in shift .. MaxShift, s <= shift',
         kind = "end" => t \in DOMAIN trips
  PROVE  /\ sent' = sent + 1 /\ sent' \in 0 .. MaxReq /\ sent' \in Nat
         /\ request' \in [1 .. sent' -> Request]
         /\ \A i \in 1 .. sent : i \in 1 .. sent' /\ request'[i] = request[i]
         /\ sent' \in 1 .. sent' /\ \A i \in 1 .. sent' : i = sent' \/ i \in 1 .. sent
         /\ request'[sent'] = [kind |-> kind, trip |-> t, shift |-> s, state |-> "sent"]
         /\ RequestsInv'
<1> DEFINE n == sent + 1
<1> DEFINE r == [kind |-> kind, trip |-> t, shift |-> s, state |-> "sent"]
<1>1. /\ sent \in Nat /\ n \in 0 .. MaxReq /\ n \in Nat /\ sent' = n
      /\ request' = [i \in 1 .. n |-> IF i = n THEN r ELSE request[i]]
  BY Typed DEF Send
<1>2. /\ n \in 1 .. n
      /\ \A i \in 1 .. sent : i \in 1 .. n /\ i # n
      /\ \A i \in 1 .. n : i = n \/ i \in 1 .. sent
  BY <1>1
<1>3. /\ r \in Request /\ r.kind = kind /\ r.trip = t /\ r.shift = s /\ r.state = "sent"
  BY DEF Request
<1> HIDE DEF n, r
<1>4. /\ request'[n] = r /\ \A i \in 1 .. sent : request'[i] = request[i]
      /\ request' \in [1 .. n -> Request]
  BY <1>1, <1>2, <1>3, Typed
<1>5. RequestsInv'
  <2>1. ServedStarts' = ServedStarts
    BY <1>1, <1>2, <1>3, <1>4 DEF ServedStarts, IsStart, Served
  <2>2. ASSUME NEW i \in 1 .. n
        PROVE  /\ request'[i].shift <= shift'
               /\ IsEnd(i)' \/ Served(i)' => request'[i].trip \in DOMAIN trips
               /\ IsEnd(i)' /\ Served(i)' => trips[request'[i].trip] = "completed"
    <3>1. CASE i = n
      BY <1>3, <1>4, <3>1 DEF IsEnd, Served
    <3>2. CASE i \in 1 .. sent
      <4>1. request'[i] = request[i] /\ request[i] \in Request /\ request[i].shift <= shift
        BY <1>4, <3>2, Typed
      <4>2. request[i].shift \in Nat /\ shift \in Nat /\ shift' \in Nat /\ shift <= shift'
        BY <4>1, Typed DEF Request
      <4> QED BY <3>2, <4>1, <4>2 DEF TripInv, RequestsInv, IsEnd, Served
    <3> QED BY <1>2, <3>1, <3>2
  <2>3. Cardinality(DOMAIN trips') = Cardinality(ServedStarts') /\ sent' = n
    BY <1>1, <2>1 DEF TripInv, RequestsInv
  <2> QED BY <1>1, <2>2, <2>3 DEF RequestsInv
<1> QED BY <1>1, <1>2, <1>4, <1>5 DEF r

(* No request is sent or served.                                           *)
LEMMA NothingSent ==
  ASSUME TripInv, UNCHANGED <<request, sent, trips>>, shift' \in shift .. MaxShift
  PROVE  RequestsInv'
<1>1. ServedStarts' = ServedStarts
  BY DEF ServedStarts, IsStart, Served
<1>2. \A i \in 1 .. sent : request[i].shift <= shift'
  <2> TAKE i \in 1 .. sent
  <2>1. request[i].shift \in Nat /\ request[i].shift <= shift /\ shift \in Nat
    BY Typed DEF Request
  <2> QED BY <2>1
<1> QED BY <1>1, <1>2 DEF TripInv, RequestsInv, IsEnd, Served

(* Trips left running stay accounted for while nothing is served.          *)
LEMMA LeftStays ==
  ASSUME TripInv, UNCHANGED <<trips, leftRunning>>, sent' \in Nat, sent <= sent',
         \A i \in 1 .. sent : request'[i] = request[i]
  PROVE  LeftInv'
<1>1. \A i \in 1 .. sent : i \in 1 .. sent'
  BY Typed
<1>2. ASSUME NEW t \in leftRunning, trips[t] = "running"
      PROVE  \E i \in 1 .. sent' : /\ request'[i].kind = "end" /\ request'[i].trip = t
                                   /\ request'[i].state \in {"sent", "lost"}
  <2>1. PICK i \in 1 .. sent : /\ request[i].kind = "end" /\ request[i].trip = t
                               /\ request[i].state \in {"sent", "lost"}
    BY <1>2 DEF TripInv, LeftInv, LeavingCloses
  <2> QED BY <1>1, <2>1
<1> QED BY <1>2 DEF TripInv, LeftInv, LeavingCloses

----------------------------------------------------------------------------
(* A start is posted, by a screen that posted none for this shift or had   *)
(* to give one up.                                                         *)
LEMMA StartPosted ==
  ASSUME TripInv, TelemetryInv', NEW s \in 1 .. MaxShift, Send("start", NoTrip, s),
         shift' = s, shift <= s, UNCHANGED <<trips, overtaken, retried, leftRunning>>,
         screen' \in Screen, screen'.phase \in {"starting", "manualBusy"},
         screen'.waits = sent + 1, screen'.tx = 0,
         s \in retried \/ \A i \in 1 .. sent : IsStart(i) => request[i].shift < s
  PROVE  TripInv'
<1>1. shift' \in shift .. MaxShift /\ shift \in Nat /\ s \in Nat /\ shift' >= 1
  BY Typed
<1>2. /\ sent' = sent + 1 /\ sent' \in 0 .. MaxReq /\ sent' \in Nat
      /\ request' \in [1 .. sent' -> Request]
      /\ \A i \in 1 .. sent : i \in 1 .. sent' /\ request'[i] = request[i]
      /\ sent' \in 1 .. sent' /\ \A i \in 1 .. sent' : i = sent' \/ i \in 1 .. sent
      /\ request'[sent'] = [kind |-> "start", trip |-> NoTrip, shift |-> s, state |-> "sent"]
      /\ RequestsInv'
  BY <1>1, SentOne
<1>3. /\ request'[sent'].kind = "start" /\ request'[sent'].shift = s
      /\ request'[sent'].state = "sent"
  BY <1>2
<1>4. DriverTripTypeOK'
  <2>1. TelemetryTypeOK'
    BY DEF TelemetryInv
  <2>2. screen'.waits # 0
    BY <1>2, Typed
  <2>3. shift' \in 0 .. MaxShift
    BY <1>1
  <2> QED BY <1>2, <2>1, <2>2, <2>3 DEF TripInv, DriverTripTypeOK
<1>5. ScreenInv'
  BY <1>1, <1>2, <1>3, Typed DEF ScreenInv, IsStart
<1>6. ShownInv'
  BY <1>2, <1>3 DEF ShownInv, Shown, Served
<1>7. StartsInv'
  <2>1. ASSUME NEW i \in 1 .. sent', NEW j \in 1 .. sent', IsStart(i)', IsStart(j)',
               request'[i].shift = request'[j].shift, request'[i].shift \notin retried
        PROVE  i = j
    <3>1. CASE i \in 1 .. sent /\ j \in 1 .. sent
      BY <1>2, <2>1, <3>1 DEF TripInv, StartsInv, IsStart
    <3>2. \A k \in 1 .. sent : IsStart(k)' /\ s \notin retried => request'[k].shift # s
      <4> SUFFICES ASSUME NEW k \in 1 .. sent, IsStart(k)', s \notin retried
                   PROVE  request'[k].shift # s
        OBVIOUS
      <4>1. request'[k] = request[k] /\ request[k].shift < s /\ request[k].shift \in Nat
        BY <1>2, Typed DEF IsStart, Request
      <4> QED BY <1>1, <4>1
    <3> QED BY <1>2, <1>3, <2>1, <3>1, <3>2
  <2> QED BY <2>1 DEF StartsInv
<1>8. LeftInv'
  BY <1>2, LeftStays, Typed
<1> QED BY <1>2, <1>4, <1>5, <1>6, <1>7, <1>8 DEF TripInv

(* No start is posted: none of a shift has company.                        *)
LEMMA NoNewStart ==
  ASSUME TripInv, retried \subseteq retried',
         \A i \in 1 .. sent' : IsStart(i)' =>
            i \in 1 .. sent /\ IsStart(i) /\ request'[i].shift = request[i].shift
  PROVE  \A i, j \in 1 .. sent' :
            (IsStart(i)' /\ IsStart(j)' /\ request'[i].shift = request'[j].shift
               /\ request'[i].shift \notin retried') => i = j
  BY DEF TripInv, StartsInv

LEMMA AtHome == Home \in Screen /\ Home.phase = "home" /\ Home.waits = 0 /\ Home.tx = 0
<1>1. 0 \in 0 .. MaxTx /\ 0 \in 0 .. MaxReq
  BY TelemetryAssumption
<1> QED BY <1>1 DEF Home, Screen

LEMMA OpenOnTripInv ==
  ASSUME TripInv, TelemetryInv', OpenOnTrip
  PROVE  TripInv'
<1>1. /\ shift < MaxShift /\ shift' = shift + 1 /\ Send("start", NoTrip, shift + 1)
      /\ screen' = [Home EXCEPT !.phase = "starting", !.waits = sent + 1]
      /\ UNCHANGED <<trips, overtaken, retried, leftRunning>>
  BY DEF OpenOnTrip, OnlyScreen
<1>2. shift + 1 \in 1 .. MaxShift /\ shift <= shift + 1 /\ sent + 1 \in 0 .. MaxReq
  BY <1>1, Typed DEF Send
<1>3. screen' \in Screen /\ screen'.phase = "starting" /\ screen'.waits = sent + 1 /\ screen'.tx = 0
  <2>1. Home = [phase |-> "home", trip |-> NoTrip, tx |-> 0, waits |-> 0] /\ Home \in Screen
    BY AtHome DEF Home
  <2> QED BY <1>1, <1>2, <2>1 DEF Screen
<1>4. \A i \in 1 .. sent : request[i].shift < shift + 1
  <2> TAKE i \in 1 .. sent
  <2>1. request[i].shift \in Nat /\ request[i].shift <= shift /\ shift \in Nat
    BY Typed DEF Request
  <2> QED BY <2>1
<1> QED BY <1>1, <1>2, <1>3, <1>4, StartPosted

LEMMA PostStartInv ==
  ASSUME TripInv, TelemetryInv', PostStart
  PROVE  TripInv'
<1>1. /\ Send("start", NoTrip, shift) /\ screen.phase \in {"manual", "startFailed"}
      /\ UNCHANGED <<trips, shift, overtaken, retried, leftRunning>>
      /\ \/ screen' = [screen EXCEPT !.phase = "manualBusy", !.waits = sent + 1]
         \/ screen' = [screen EXCEPT !.phase = "starting", !.waits = sent + 1]
  BY DEF PostStart, OnlyScreen
<1>2. shift \in 1 .. MaxShift /\ shift <= shift /\ sent + 1 \in 0 .. MaxReq
  BY <1>1, Typed DEF Send
<1>3. screen' \in Screen /\ screen'.phase \in {"starting", "manualBusy"}
      /\ screen'.waits = sent + 1 /\ screen'.tx = screen.tx
  BY <1>1, <1>2, Typed DEF Screen
<1>4. screen.tx = 0
  BY <1>1, Typed
<1>5. shift \in retried \/ \A i \in 1 .. sent : IsStart(i) => request[i].shift < shift
  BY <1>1 DEF TripInv, StartsInv
<1> QED BY <1>1, <1>2, <1>3, <1>4, <1>5, StartPosted

(* The end of the trip shown is posted, by its button or on the way out.   *)
LEMMA EndPosted ==
  ASSUME TripInv, TelemetryInv', screen.phase = "running", Send("end", screen.trip, shift),
         UNCHANGED <<trips, shift, overtaken, retried>>,
         screen' \in Screen,
         \/ /\ screen'.phase = "ending" /\ screen'.waits = sent + 1
            /\ screen'.trip = screen.trip /\ screen'.tx = screen.tx /\ UNCHANGED leftRunning
         \/ screen' = Home /\ leftRunning' = leftRunning \cup {screen.trip}
  PROVE  TripInv'
<1>1. /\ screen.trip \in DOMAIN trips /\ screen.trip \in Trip /\ screen.tx # 0
      /\ shift \in 1 .. MaxShift /\ shift' \in shift .. MaxShift /\ shift <= shift'
  BY Typed DEF TripInv, ScreenInv
<1>2. /\ sent' = sent + 1 /\ sent' \in 0 .. MaxReq /\ sent' \in Nat
      /\ request' \in [1 .. sent' -> Request]
      /\ \A i \in 1 .. sent : i \in 1 .. sent' /\ request'[i] = request[i]
      /\ sent' \in 1 .. sent' /\ \A i \in 1 .. sent' : i = sent' \/ i \in 1 .. sent
      /\ request'[sent'] = [kind |-> "end", trip |-> screen.trip, shift |-> shift, state |-> "sent"]
      /\ RequestsInv'
  BY <1>1, SentOne
<1>3. /\ request'[sent'].kind = "end" /\ request'[sent'].trip = screen.trip
      /\ request'[sent'].state = "sent" /\ sent' # 0
  BY <1>2
<1>4. DriverTripTypeOK'
  <2>1. TelemetryTypeOK'
    BY DEF TelemetryInv
  <2>2. /\ screen'.waits # 0 <=> screen'.phase \in {"manualBusy", "starting", "ending"}
        /\ screen'.tx # 0 <=> screen'.phase \in {"running", "ending"}
    BY <1>1, <1>2, <1>3 DEF Home
  <2>3. leftRunning' \subseteq Trip
    BY <1>1 DEF TripInv, DriverTripTypeOK
  <2> QED BY <1>2, <2>1, <2>2, <2>3 DEF TripInv, DriverTripTypeOK
<1>5. ScreenInv'
  BY <1>1, <1>2, <1>3, Typed DEF ScreenInv, IsEnd, Home
<1>6. ShownInv'
  BY DEF ShownInv, Shown, Home
<1>7. StartsInv'
  <2>1. \A i \in 1 .. sent' : IsStart(i)' => i \in 1 .. sent /\ IsStart(i)
                                              /\ request'[i].shift = request[i].shift
    BY <1>2, <1>3 DEF IsStart
  <2>2. screen'.phase \notin {"manual", "startFailed"}
    BY DEF Home
  <2> QED BY <2>1, <2>2, NoNewStart DEF StartsInv
<1>8. LeftInv'
  <2>1. ASSUME NEW t \in leftRunning', trips[t] = "running"
        PROVE  \E i \in 1 .. sent' : /\ request'[i].kind = "end" /\ request'[i].trip = t
                                     /\ request'[i].state \in {"sent", "lost"}
    <3>1. CASE t \in leftRunning
      <4>1. PICK i \in 1 .. sent : /\ request[i].kind = "end" /\ request[i].trip = t
                                   /\ request[i].state \in {"sent", "lost"}
        BY <2>1, <3>1 DEF TripInv, LeftInv, LeavingCloses
      <4> QED BY <1>2, <4>1
    <3>2. CASE t = screen.trip
      BY <1>2, <1>3, <3>2
    <3> QED BY <2>1, <3>1, <3>2
  <2> QED BY <1>1, <2>1 DEF TripInv, LeftInv, LeavingCloses
<1> QED BY <1>2, <1>4, <1>5, <1>6, <1>7, <1>8 DEF TripInv

LEMMA EndTripInv ==
  ASSUME TripInv, TelemetryInv', EndTrip
  PROVE  TripInv'
<1>1. /\ screen.phase = "running" /\ Send("end", screen.trip, shift)
      /\ screen' = [screen EXCEPT !.phase = "ending", !.waits = sent + 1]
      /\ UNCHANGED <<trips, shift, overtaken, retried, leftRunning>>
  BY DEF EndTrip
<1>2. sent + 1 \in 0 .. MaxReq
  BY <1>1, Typed DEF Send
<1>3. screen' \in Screen /\ screen'.phase = "ending" /\ screen'.waits = sent + 1
      /\ screen'.trip = screen.trip /\ screen'.tx = screen.tx
  BY <1>1, <1>2, Typed DEF Screen
<1> QED BY <1>1, <1>3, EndPosted

----------------------------------------------------------------------------
(* Only the screen moves: it shows no trip running that it did not, unless *)
(* it has asked to end it.                                                 *)
LEMMA ScreenMoves ==
  ASSUME TripInv, TelemetryInv', UNCHANGED <<request, sent, trips, overtaken, leftRunning>>,
         shift' \in shift .. MaxShift, retried \subseteq retried', retried' \subseteq 1 .. MaxShift,
         screen' \in Screen, ScreenInv',
         screen'.waits # 0 <=> screen'.phase \in {"manualBusy", "starting", "ending"},
         screen'.tx # 0 <=> screen'.phase \in {"running", "ending"},
         \A t \in DOMAIN trips : Shown(t)' => Shown(t) \/ AskedToEnd(t),
         screen'.phase = "manual" /\ shift' \notin retried' =>
            \A i \in 1 .. sent : IsStart(i) => request[i].shift < shift',
         screen'.phase = "startFailed" => shift' \in retried'
  PROVE  TripInv'
<1>1. DriverTripTypeOK'
  <2>1. TelemetryTypeOK'
    BY DEF TelemetryInv
  <2>2. shift' \in 0 .. MaxShift
    BY Typed
  <2> QED BY <2>1, <2>2 DEF TripInv, DriverTripTypeOK
<1>2. RequestsInv'
  BY NothingSent
<1>3. ShownInv'
  <2>1. \A t \in DOMAIN trips : AskedToEnd(t)' <=> AskedToEnd(t)
    BY DEF AskedToEnd, IsEnd
  <2> QED BY <2>1 DEF TripInv, ShownInv
<1>4. StartsInv'
  <2>1. \A i \in 1 .. sent' : IsStart(i)' => i \in 1 .. sent /\ IsStart(i)
                                              /\ request'[i].shift = request[i].shift
    BY DEF IsStart
  <2> QED BY <2>1, NoNewStart DEF StartsInv, IsStart
<1>5. LeftInv'
  BY LeftStays, Typed
<1> QED BY <1>1, <1>2, <1>3, <1>4, <1>5 DEF TripInv

(* A screen without a trip to show and without a request to wait for.      *)
LEMMA AtRest ==
  ASSUME TripInv, screen'.waits = 0, screen'.phase \in {"home", "manual", "startFailed"},
         UNCHANGED <<trips, sent>>, shift' \in Nat, screen'.phase # "home" => shift' >= 1
  PROVE  ScreenInv' /\ \A t : ~Shown(t)'
  BY Typed DEF ScreenInv, Shown

LEMMA OpenManualInv ==
  ASSUME TripInv, TelemetryInv', OpenManual
  PROVE  TripInv'
<1>1. /\ shift < MaxShift /\ shift' = shift + 1
      /\ screen' = [Home EXCEPT !.phase = "manual"]
      /\ UNCHANGED <<request, sent, trips, overtaken, retried, leftRunning>>
  BY DEF OpenManual, OnlyScreen
<1>2. shift' \in shift .. MaxShift /\ shift' \in Nat /\ shift' >= 1
  BY <1>1, Typed
<1>3. screen' \in Screen /\ screen'.phase = "manual" /\ screen'.waits = 0 /\ screen'.tx = 0
  BY <1>1, AtHome DEF Screen
<1>4. \A i \in 1 .. sent : request[i].shift < shift'
  <2> TAKE i \in 1 .. sent
  <2>1. request[i].shift \in Nat /\ request[i].shift <= shift /\ shift \in Nat
    BY Typed DEF Request
  <2> QED BY <1>1, <2>1
<1>5. retried \subseteq 1 .. MaxShift
  BY DEF TripInv, DriverTripTypeOK
<1>6. ScreenInv' /\ \A t : ~Shown(t)'
  BY <1>1, <1>2, <1>3, AtRest
<1> QED BY <1>1, <1>2, <1>3, <1>4, <1>5, <1>6, ScreenMoves

LEMMA StartAnsweredInv ==
  ASSUME TripInv, TelemetryInv', NEW x \in Tx, StartAnswered(x)
  PROVE  TripInv'
<1>p. PICK w : w = screen.waits
  OBVIOUS
<1>1. /\ w # 0 /\ Served(w) /\ screen.phase \in {"starting", "manualBusy"}
      /\ screen' = [phase |-> "running", trip |-> request[w].trip, tx |-> x, waits |-> 0]
      /\ UNCHANGED <<request, sent, trips, shift, overtaken, retried, leftRunning>>
  BY <1>p DEF StartAnswered, Answered, Served
<1>2. w \in 1 .. sent /\ x \in 0 .. MaxTx /\ x # 0 /\ 0 \in 0 .. MaxReq
      /\ request[w].trip \in DOMAIN trips /\ request[w].trip \in Trip
      /\ shift' \in shift .. MaxShift /\ shift >= 1 /\ retried \subseteq 1 .. MaxShift
  <2>1. w \in 1 .. sent /\ x \in 0 .. MaxTx /\ x # 0 /\ 0 \in 0 .. MaxReq
        /\ shift' \in shift .. MaxShift /\ shift >= 1
    BY <1>1, <1>p, Typed DEF Tx
  <2> QED BY <1>1, <2>1, Typed DEF TripInv, RequestsInv, DriverTripTypeOK
<1>3. screen' \in Screen /\ screen'.phase = "running" /\ screen'.trip = request[w].trip
      /\ screen'.tx = x /\ screen'.waits = 0
  BY <1>1, <1>2 DEF Screen
<1>4. ScreenInv'
  BY <1>1, <1>2, <1>3, Typed DEF ScreenInv
<1>5. \A t \in DOMAIN trips : Shown(t)' => Shown(t)
  BY <1>p, <1>1, <1>3 DEF Shown
<1> QED BY <1>1, <1>2, <1>3, <1>4, <1>5, ScreenMoves

LEMMA EndAnsweredInv ==
  ASSUME TripInv, TelemetryInv', EndAnswered
  PROVE  TripInv'
<1>p. PICK w : w = screen.waits
  OBVIOUS
<1>1. /\ w # 0 /\ Served(w) /\ screen.phase = "ending"
      /\ screen' = [screen EXCEPT !.phase = "ended", !.waits = 0, !.tx = 0]
      /\ UNCHANGED <<request, sent, trips, shift, overtaken, retried, leftRunning>>
  BY <1>p DEF EndAnswered, Answered, Served
<1>2. /\ w \in 1 .. sent /\ 0 \in 0 .. MaxTx /\ 0 \in 0 .. MaxReq
      /\ shift' \in shift .. MaxShift /\ shift >= 1 /\ retried \subseteq 1 .. MaxShift
  BY <1>1, <1>p, Typed, TelemetryAssumption DEF TripInv, DriverTripTypeOK
<1>3. screen' \in Screen /\ screen'.phase = "ended" /\ screen'.trip = screen.trip
      /\ screen'.tx = 0 /\ screen'.waits = 0
  BY <1>1, <1>2, Typed DEF Screen
<1>4. screen.trip \in DOMAIN trips /\ trips[screen.trip] = "completed"
  BY <1>p, <1>1, <1>2 DEF TripInv, ScreenInv, RequestsInv
<1>5. ScreenInv'
  BY <1>1, <1>2, <1>3, <1>4, Typed DEF ScreenInv
<1>6. \A t \in DOMAIN trips : ~Shown(t)'
  BY <1>3 DEF Shown
<1> QED BY <1>1, <1>2, <1>3, <1>5, <1>6, ScreenMoves

LEMMA RequestFailsInv ==
  ASSUME TripInv, TelemetryInv', RequestFails
  PROVE  TripInv'
<1>p. PICK w : w = screen.waits
  OBVIOUS
<1>1. /\ w # 0
      /\ screen' = [screen EXCEPT !.phase = AfterFailure(@), !.waits = 0]
      /\ retried' = IF screen.phase = "ending" THEN retried ELSE retried \cup {shift}
      /\ UNCHANGED <<request, sent, trips, shift, overtaken, leftRunning>>
  BY <1>p DEF RequestFails, OnlyScreen
<1>2. /\ w \in 1 .. sent /\ 0 \in 0 .. MaxReq
      /\ shift' \in shift .. MaxShift /\ shift >= 1 /\ shift \in 1 .. MaxShift /\ shift' \in Nat
      /\ screen.phase \in {"manualBusy", "starting", "ending"}
  BY <1>1, <1>p, Typed
<1>3. retried \subseteq retried' /\ retried' \subseteq 1 .. MaxShift
  BY <1>1, <1>2 DEF TripInv, DriverTripTypeOK
<1>4. /\ screen.phase = "starting" => AfterFailure(screen.phase) = "startFailed"
      /\ screen.phase = "manualBusy" => AfterFailure(screen.phase) = "manual"
      /\ screen.phase = "ending" => AfterFailure(screen.phase) = "running"
  BY DEF AfterFailure
<1>5. screen' \in Screen /\ screen'.phase = AfterFailure(screen.phase)
      /\ screen'.trip = screen.trip /\ screen'.tx = screen.tx /\ screen'.waits = 0
  BY <1>1, <1>2, <1>4, Typed DEF Screen
<1>6. CASE screen.phase = "ending"
  <2>1. screen.trip \in DOMAIN trips /\ AskedToEnd(screen.trip)
    BY <1>p, <1>2, <1>6 DEF TripInv, ScreenInv, AskedToEnd
  <2>2. ScreenInv'
    BY <1>1, <1>2, <1>4, <1>5, <1>6, <2>1, Typed DEF ScreenInv
  <2>3. \A t \in DOMAIN trips : Shown(t)' => AskedToEnd(t)
    BY <1>4, <1>5, <1>6, <2>1 DEF Shown
  <2>4. screen'.tx # 0 /\ screen'.phase = "running"
    BY <1>4, <1>5, <1>6, Typed
  <2> QED BY <1>1, <1>2, <1>3, <1>5, <2>2, <2>3, <2>4, ScreenMoves
<1>7. CASE screen.phase # "ending"
  <2>1. screen'.phase \in {"manual", "startFailed"} /\ screen'.tx = 0 /\ shift \in retried'
    BY <1>1, <1>2, <1>4, <1>5, <1>7, Typed
  <2>2. ScreenInv' /\ \A t : ~Shown(t)'
    BY <1>1, <1>2, <1>5, <2>1, AtRest
  <2> QED BY <1>1, <1>2, <1>3, <1>5, <2>1, <2>2, ScreenMoves
<1> QED BY <1>6, <1>7

(* Back home: left by the driver or because the app was killed.            *)
LEMMA HomeAgain ==
  ASSUME TripInv, TelemetryInv', screen' = Home,
         UNCHANGED <<request, sent, trips, shift, overtaken, retried, leftRunning>>
  PROVE  TripInv'
<1>1. shift' \in shift .. MaxShift /\ shift' \in Nat /\ retried \subseteq 1 .. MaxShift
  BY Typed DEF TripInv, DriverTripTypeOK
<1>2. ScreenInv' /\ \A t : ~Shown(t)'
  BY <1>1, AtHome, AtRest
<1> QED BY <1>1, <1>2, AtHome, ScreenMoves

LEMMA LeaveInv ==
  ASSUME TripInv, TelemetryInv', Leave
  PROVE  TripInv'
<1>1. CASE screen.phase = "running"
  BY <1>1, AtHome, EndPosted DEF Leave
<1>2. CASE screen.phase # "running"
  BY <1>2, HomeAgain DEF Leave
<1> QED BY <1>1, <1>2

----------------------------------------------------------------------------
(* The server answers, or the request is lost: its state and, for a start, *)
(* its trip are all that change of it.                                     *)
LEMMA OneRequest ==
  ASSUME TripInv, TelemetryInv', NEW i \in 1 .. sent, NEW r \in Request,
         request' = [request EXCEPT ![i] = r], r.kind = request[i].kind,
         r.shift = request[i].shift, UNCHANGED <<screen, sent, shift, retried, leftRunning>>,
         overtaken' \in BOOLEAN, \E n \in 0 .. MaxReq : trips' \in [1 .. n -> Status],
         RequestsInv', ScreenInv', ShownInv', LeftInv'
  PROVE  TripInv'
<1>1. /\ request' \in [1 .. sent -> Request]
      /\ \A j \in 1 .. sent : request'[j].kind = request[j].kind
                              /\ request'[j].shift = request[j].shift
  BY Typed
<1>2. DriverTripTypeOK'
  BY <1>1 DEF TripInv, TelemetryInv, DriverTripTypeOK
<1>3. StartsInv'
  BY <1>1 DEF TripInv, StartsInv, IsStart
<1> QED BY <1>2, <1>3 DEF TripInv

LEMMA LoseRequestInv ==
  ASSUME TripInv, TelemetryInv', NEW i \in 1 .. sent, LoseRequest(i)
  PROVE  TripInv'
<1>p. PICK r : r = [request[i] EXCEPT !.state = "lost"]
  OBVIOUS
<1>1. /\ request[i].state = "sent" /\ request' = [request EXCEPT ![i] = r]
      /\ UNCHANGED <<screen, sent, trips, shift, overtaken, retried, leftRunning>>
  BY <1>p, Typed DEF LoseRequest
<1>2. /\ r \in Request /\ r.kind = request[i].kind /\ r.shift = request[i].shift
      /\ r.trip = request[i].trip /\ r.state = "lost"
  BY <1>p, Typed DEF Request
<1>3. request'[i] = r /\ \A j \in 1 .. sent : j # i => request'[j] = request[j]
  BY <1>1, Typed
<1>4. \A j \in 1 .. sent : /\ IsEnd(j)' <=> IsEnd(j)
                           /\ IsStart(j)' <=> IsStart(j)
                           /\ Served(j)' <=> Served(j)
                           /\ request'[j].trip = request[j].trip
                           /\ request'[j].shift = request[j].shift
  BY <1>1, <1>2, <1>3 DEF IsEnd, IsStart, Served
<1>5. RequestsInv'
  <2>1. ServedStarts' = ServedStarts
    BY <1>1, <1>4 DEF ServedStarts
  <2> QED BY <1>1, <1>4, <2>1 DEF TripInv, RequestsInv
<1>6. screen.phase \in {"starting", "manualBusy", "ending"} => screen.waits \in 1 .. sent
  BY Typed
<1>7. ScreenInv'
  BY <1>1, <1>4, <1>6 DEF TripInv, ScreenInv
<1>8. ShownInv'
  <2>1. \A t \in DOMAIN trips : (Shown(t)' => Shown(t)) /\ (AskedToEnd(t) => AskedToEnd(t)')
    BY <1>1, <1>4, <1>6 DEF Shown, AskedToEnd
  <2> QED BY <1>1, <2>1 DEF TripInv, ShownInv
<1>9. LeftInv'
  <2>1. \A j \in 1 .. sent : request[j].state \in {"sent", "lost"} =>
                               request'[j].state \in {"sent", "lost"}
    BY <1>2, <1>3
  <2> QED BY <1>1, <1>4, <2>1 DEF TripInv, LeftInv, LeavingCloses, IsEnd
<1>10. overtaken' \in BOOLEAN /\ \E n \in 0 .. MaxReq : trips' \in [1 .. n -> Status]
  BY <1>1 DEF TripInv, DriverTripTypeOK
<1> QED BY <1>1, <1>2, <1>5, <1>7, <1>8, <1>9, <1>10, OneRequest

LEMMA ServeEndInv ==
  ASSUME TripInv, TelemetryInv', NEW i \in 1 .. sent, ServeEnd(i)
  PROVE  TripInv'
<1>p. PICK t, s, r : /\ t = request[i].trip /\ r = [request[i] EXCEPT !.state = s]
                     /\ s = IF trips[t] # "abandoned" THEN "served" ELSE "refused"
  OBVIOUS
<1>1. /\ IsEnd(i) /\ request[i].state = "sent" /\ t \in DOMAIN trips
      /\ UNCHANGED <<screen, sent, shift, overtaken, retried, leftRunning>>
  BY <1>p DEF ServeEnd, IsEnd, TripInv, RequestsInv
<1>2. /\ r \in Request /\ r.kind = request[i].kind /\ r.shift = request[i].shift
      /\ r.trip = t /\ r.state = s /\ s \in {"served", "refused"}
  BY <1>p, Typed DEF Request
<1>3. /\ request' = [request EXCEPT ![i] = r]
      /\ request'[i] = r /\ \A j \in 1 .. sent : j # i => request'[j] = request[j]
  <2>1. request' = [request EXCEPT ![i] = r]
    BY <1>p, Typed DEF ServeEnd
  <2> QED BY <2>1, Typed
<1>4. /\ DOMAIN trips' = DOMAIN trips
      /\ \A u \in DOMAIN trips : /\ u # t => trips'[u] = trips[u]
                                 /\ trips[u] = "completed" => trips'[u] = "completed"
      /\ trips'[t] # "running"
      /\ s = "served" => trips'[t] = "completed"
  BY <1>p, <1>1, Typed DEF ServeEnd
<1>5. \E n \in 0 .. MaxReq : trips' \in [1 .. n -> Status]
  <2>1. PICK n \in 0 .. MaxReq : trips \in [1 .. n -> Status]
    BY DEF TripInv, DriverTripTypeOK
  <2>2. trips' = [trips EXCEPT ![t] = "completed"] \/ trips' = trips
    BY <1>p DEF ServeEnd
  <2> QED BY <2>1, <2>2 DEF Status
<1>6. \A j \in 1 .. sent : /\ IsEnd(j)' <=> IsEnd(j)
                           /\ IsStart(j)' <=> IsStart(j)
                           /\ request'[j].trip = request[j].trip
                           /\ request'[j].shift = request[j].shift
                           /\ IsStart(j) => j # i /\ request'[j] = request[j]
  BY <1>p, <1>1, <1>2, <1>3 DEF IsEnd, IsStart
<1>7. RequestsInv'
  <2>1. ServedStarts' = ServedStarts
    BY <1>1, <1>6 DEF ServedStarts, Served
  <2>2. ASSUME NEW j \in 1 .. sent
        PROVE  /\ request'[j].shift <= shift
               /\ IsEnd(j)' \/ Served(j)' => request'[j].trip \in DOMAIN trips
               /\ IsEnd(j)' /\ Served(j)' => trips'[request[j].trip] = "completed"
    <3>1. CASE j = i
      <4>1. request[i].shift <= shift /\ request'[i].trip = t /\ request'[i].shift = request[i].shift
        BY <1>p, <1>6 DEF TripInv, RequestsInv
      <4>2. Served(i)' => trips'[t] = "completed"
        BY <1>2, <1>3, <1>4 DEF Served
      <4> QED BY <1>p, <1>1, <3>1, <4>1, <4>2
    <3>2. CASE j # i
      BY <1>3, <1>4, <1>6, <3>2 DEF TripInv, RequestsInv, Served
    <3> QED BY <3>1, <3>2
  <2> QED BY <1>1, <1>4, <1>6, <2>1, <2>2 DEF TripInv, RequestsInv
<1>8. screen.phase \in {"starting", "manualBusy", "ending"} => screen.waits \in 1 .. sent
  BY Typed
<1>9. ScreenInv'
  BY <1>1, <1>4, <1>6, <1>8 DEF TripInv, ScreenInv
<1>10. ShownInv'
  <2>1. \A u \in DOMAIN trips : (Shown(u)' => Shown(u)) /\ (AskedToEnd(u) => AskedToEnd(u)')
    <3>1. screen.phase \in {"starting", "manualBusy"} => IsStart(screen.waits)
      BY DEF TripInv, ScreenInv
    <3> QED BY <1>1, <1>6, <1>8, <3>1 DEF Shown, AskedToEnd, Served
  <2>2. AskedToEnd(t)
    BY <1>p, <1>1 DEF AskedToEnd
  <2> QED BY <1>1, <1>4, <2>1, <2>2 DEF TripInv, ShownInv
<1>11. LeftInv'
  <2>1. ASSUME NEW u \in leftRunning, trips'[u] = "running"
        PROVE  \E j \in 1 .. sent : /\ request'[j].kind = "end" /\ request'[j].trip = u
                                    /\ request'[j].state \in {"sent", "lost"}
    <3>1. u # t /\ u \in DOMAIN trips /\ trips[u] = "running"
      BY <1>4, <2>1 DEF TripInv, LeftInv
    <3>2. PICK j \in 1 .. sent : /\ request[j].kind = "end" /\ request[j].trip = u
                                 /\ request[j].state \in {"sent", "lost"}
      BY <3>1 DEF TripInv, LeftInv, LeavingCloses
    <3> QED BY <1>p, <1>3, <3>1, <3>2
  <2> QED BY <1>1, <1>4, <2>1 DEF TripInv, LeftInv, LeavingCloses
<1>12. overtaken' \in BOOLEAN
  BY <1>1 DEF TripInv, DriverTripTypeOK
<1> QED BY <1>1, <1>2, <1>3, <1>5, <1>7, <1>9, <1>10, <1>11, <1>12, OneRequest

LEMMA ServeStartInv ==
  ASSUME TripInv, TelemetryInv', NEW i \in 1 .. sent, ServeStart(i)
  PROVE  TripInv'
<1>p. PICK t, r : /\ t = Cardinality(DOMAIN trips) + 1
                  /\ r = [request[i] EXCEPT !.state = "served", !.trip = t]
  OBVIOUS
<1>1. /\ IsStart(i) /\ request[i].state = "sent"
      /\ overtaken' = (overtaken \/ screen.waits # i)
      /\ UNCHANGED <<screen, sent, shift, retried, leftRunning>>
  BY DEF ServeStart, IsStart
<1>2. /\ IsFiniteSet(ServedStarts \cup {i}) /\ IsFiniteSet(ServedStarts)
      /\ Cardinality(ServedStarts \cup {i}) = t
      /\ t \in Nat /\ t <= MaxReq /\ t \in Trip
  <2>1. /\ IsFiniteSet(1 .. sent) /\ Cardinality(1 .. sent) = sent /\ sent \in Nat
        /\ ServedStarts \subseteq 1 .. sent /\ ServedStarts \cup {i} \subseteq 1 .. sent
    <3>1. sent \in Nat
      BY Typed
    <3>2. IsFiniteSet(1 .. sent) /\ Cardinality(1 .. sent) = sent
      BY <3>1, UpTo
    <3> QED BY <3>1, <3>2 DEF ServedStarts
  <2>2. /\ IsFiniteSet(ServedStarts) /\ IsFiniteSet(ServedStarts \cup {i})
        /\ Cardinality(ServedStarts \cup {i}) <= sent
    BY <2>1, FS_Subset
  <2>3. i \notin ServedStarts
    BY <1>1 DEF ServedStarts, Served
  <2>4. Cardinality(ServedStarts \cup {i}) = Cardinality(ServedStarts) + 1
    BY <2>2, <2>3, FS_AddElement
  <2>5. Cardinality(DOMAIN trips) = Cardinality(ServedStarts)
        /\ Cardinality(DOMAIN trips) \in Nat /\ sent <= MaxReq
    BY Typed DEF TripInv, RequestsInv
  <2> QED BY <1>p, <2>1, <2>2, <2>4, <2>5 DEF Trip
<1>3. /\ r \in Request /\ r.kind = request[i].kind /\ r.shift = request[i].shift
      /\ r.trip = t /\ r.state = "served"
  BY <1>p, <1>2, Typed DEF Request
<1>4. /\ request' = [request EXCEPT ![i] = r]
      /\ request'[i] = r /\ \A j \in 1 .. sent : j # i => request'[j] = request[j]
  <2>1. request' = [request EXCEPT ![i] = r]
    BY <1>p, Typed DEF ServeStart
  <2> QED BY <2>1, Typed
<1>5. /\ trips' \in [1 .. t -> Status] /\ DOMAIN trips' = 1 .. t /\ t \in DOMAIN trips'
      /\ trips'[t] = "running" /\ t \notin DOMAIN trips
      /\ \A u \in DOMAIN trips : /\ u \in DOMAIN trips'
                                 /\ trips[u] # "running" => trips'[u] = trips[u]
      /\ Cardinality(DOMAIN trips') = t
  <2>1. trips' = [u \in 1 .. t |-> IF u = t THEN "running"
                                   ELSE IF trips[u] = "running" THEN "abandoned" ELSE trips[u]]
    BY <1>p DEF ServeStart
  <2>2. \A u \in 1 .. t : u # t <=> u \in DOMAIN trips
    BY <1>p, <1>2, Typed
  <2>3. t \in 1 .. t /\ t \notin DOMAIN trips /\ DOMAIN trips \subseteq 1 .. t
    BY <1>p, <1>2, Typed
  <2>4. \A u \in 1 .. t : trips'[u] \in Status
    BY <2>1, <2>2, Typed DEF Status
  <2>5. DOMAIN trips' = 1 .. t /\ trips' = [u \in 1 .. t |-> trips'[u]]
    BY <2>1
  <2>6. Cardinality(1 .. t) = t
    BY <1>2, FS_Interval
  <2> QED BY <2>1, <2>2, <2>3, <2>4, <2>5, <2>6
<1>6. \A j \in 1 .. sent : /\ IsEnd(j)' <=> IsEnd(j)
                           /\ IsStart(j)' <=> IsStart(j)
                           /\ request'[j].shift = request[j].shift
                           /\ IsEnd(j) => j # i /\ request'[j] = request[j]
                           /\ Served(j)' <=> Served(j) \/ j = i
  BY <1>1, <1>3, <1>4 DEF IsEnd, IsStart, Served
<1>7. RequestsInv'
  <2>1. ServedStarts' = ServedStarts \cup {i}
    BY <1>1, <1>6 DEF ServedStarts
  <2>2. ASSUME NEW j \in 1 .. sent
        PROVE  /\ request'[j].shift <= shift
               /\ IsEnd(j)' \/ Served(j)' => request'[j].trip \in DOMAIN trips'
               /\ IsEnd(j)' /\ Served(j)' => trips'[request'[j].trip] = "completed"
    <3>1. CASE j = i
      BY <1>1, <1>3, <1>4, <1>5, <1>6, <3>1 DEF TripInv, RequestsInv, IsStart, IsEnd
    <3>2. CASE j # i
      <4>1. request'[j] = request[j] /\ (IsEnd(j)' <=> IsEnd(j)) /\ (Served(j)' <=> Served(j))
        BY <1>4, <1>6, <3>2
      <4>2. /\ request[j].shift <= shift
            /\ IsEnd(j) \/ Served(j) => request[j].trip \in DOMAIN trips
            /\ IsEnd(j) /\ Served(j) => trips[request[j].trip] = "completed"
        BY DEF TripInv, RequestsInv
      <4> QED BY <1>5, <4>1, <4>2
    <3> QED BY <3>1, <3>2
  <2> QED BY <1>1, <1>2, <1>5, <2>1, <2>2 DEF RequestsInv
<1>8. screen.phase \in {"starting", "manualBusy", "ending"} => screen.waits \in 1 .. sent
  BY Typed
<1>9. ScreenInv'
  <2>1. /\ screen.phase = "ending" => /\ IsEnd(screen.waits)'
                                      /\ request'[screen.waits].trip = screen.trip
        /\ screen.phase \in {"starting", "manualBusy"} => IsStart(screen.waits)'
    BY <1>1, <1>6, <1>8 DEF TripInv, ScreenInv
  <2>2. /\ screen.phase \in {"running", "ending", "ended"} => screen.trip \in DOMAIN trips'
        /\ screen.phase = "ended" => trips'[screen.trip] = "completed"
    BY <1>5 DEF TripInv, ScreenInv
  <2>3. screen.waits \in 0 .. sent /\ (screen.phase # "home" => shift >= 1)
    BY Typed
  <2> QED BY <1>1, <2>1, <2>2, <2>3 DEF ScreenInv
<1>10. ShownInv'
  <2> SUFFICES ASSUME ~overtaken', NEW u \in DOMAIN trips', Shown(u)'
               PROVE  trips'[u] = "running"
    BY DEF ShownInv
  <2>1. screen.waits = i /\ i # 0
    <3>1. screen.waits = i
      BY <1>1
    <3>2. i # 0
      BY Typed
    <3> QED BY <3>1, <3>2
  <2>2. screen.phase \in {"starting", "manualBusy"}
    <3>1. screen.phase # "ending"
      BY <1>1, <2>1 DEF TripInv, ScreenInv, IsStart, IsEnd
    <3> QED BY <2>1, <3>1, Typed
  <2>3. u = t
    BY <1>1, <1>3, <1>4, <2>1, <2>2 DEF Shown
  <2> QED BY <1>5, <2>3
<1>11. LeftInv'
  <2>1. ASSUME NEW u \in leftRunning, trips'[u] = "running"
        PROVE  \E j \in 1 .. sent : /\ request'[j].kind = "end" /\ request'[j].trip = u
                                    /\ request'[j].state \in {"sent", "lost"}
    <3>1. u \in DOMAIN trips /\ trips[u] = "running"
      BY <1>5, <2>1 DEF TripInv, LeftInv
    <3>2. PICK j \in 1 .. sent : /\ request[j].kind = "end" /\ request[j].trip = u
                                 /\ request[j].state \in {"sent", "lost"}
      BY <3>1 DEF TripInv, LeftInv, LeavingCloses
    <3>3. request'[j] = request[j]
      BY <1>6, <3>2 DEF IsEnd
    <3> QED BY <3>2, <3>3
  <2>2. leftRunning \subseteq DOMAIN trips'
    BY <1>5 DEF TripInv, LeftInv
  <2> QED BY <1>1, <2>1, <2>2 DEF LeftInv, LeavingCloses
<1>12. overtaken' \in BOOLEAN
  BY <1>1 DEF TripInv, DriverTripTypeOK
<1>13. \E n \in 0 .. MaxReq : trips' \in [1 .. n -> Status]
  BY <1>2, <1>5
<1> QED BY <1>1, <1>3, <1>4, <1>7, <1>9, <1>10, <1>11, <1>12, <1>13, OneRequest

----------------------------------------------------------------------------
LEMMA InitTripInv == DriverTripInit => TripInv
<1> SUFFICES ASSUME DriverTripInit PROVE TripInv
  OBVIOUS
<1>1. TelemetryInv
  BY InitTelemetryInv DEF DriverTripInit
<1>2. /\ sent = 0 /\ 1 .. sent = {} /\ DOMAIN trips = {} /\ screen = Home
      /\ shift = 0 /\ retried = {} /\ leftRunning = {} /\ overtaken = FALSE
  BY DEF DriverTripInit
<1>3. DriverTripTypeOK
  <2>1. request \in [1 .. sent -> Request] /\ trips \in [1 .. 0 -> Status]
    BY <1>2 DEF DriverTripInit
  <2>2. 0 \in 0 .. MaxReq /\ 0 \in 0 .. MaxShift
    OBVIOUS
  <2> QED BY <1>1, <1>2, <2>1, <2>2, AtHome DEF DriverTripTypeOK, TelemetryInv
<1>4. RequestsInv
  <2>1. ServedStarts = {}
    BY <1>2 DEF ServedStarts
  <2> QED BY <1>2, <2>1 DEF RequestsInv
<1>5. ScreenInv
  BY <1>2, AtHome DEF ScreenInv
<1>6. ShownInv /\ LeftInv
  BY <1>2 DEF ShownInv, LeftInv, LeavingCloses
<1>7. StartsInv
  BY <1>2, AtHome DEF StartsInv
<1> QED BY <1>1, <1>3, <1>4, <1>5, <1>6, <1>7 DEF TripInv

(* Steps of the transmitters and of the buffer.                            *)
LEMMA PhoneOnly ==
  ASSUME TripInv, TelemetryInv', UNCHANGED tripVars
  PROVE  TripInv'
<1>1. shift' \in shift .. MaxShift /\ retried \subseteq 1 .. MaxShift
      /\ UNCHANGED <<screen, request, sent, trips, shift, overtaken, retried, leftRunning>>
  BY Typed DEF tripVars, TripInv, DriverTripTypeOK
<1>2. ScreenInv' /\ \A t \in DOMAIN trips : Shown(t)' => Shown(t)
  BY <1>1 DEF TripInv, ScreenInv, Shown, IsStart, IsEnd, Served
<1>3. /\ screen.phase = "manual" /\ shift \notin retried =>
           \A i \in 1 .. sent : IsStart(i) => request[i].shift < shift
      /\ screen.phase = "startFailed" => shift \in retried
  BY DEF TripInv, StartsInv
<1> QED BY <1>1, <1>2, <1>3, Typed, ScreenMoves

LEMMA NextTripInv ==
  ASSUME TripInv, [DriverTripNext]_driverVars
  PROVE  TripInv'
<1>0. TelemetryInv'
  BY DriverKeepsFixes DEF TripInv
<1>1. CASE OpenOnTrip \/ OpenManual \/ PostStart \/ EndTrip \/ EndAnswered \/ RequestFails \/ Leave
  BY <1>0, <1>1, OpenOnTripInv, OpenManualInv, PostStartInv, EndTripInv, EndAnsweredInv,
     RequestFailsInv, LeaveInv
<1>2. ASSUME NEW x \in Tx, StartAnswered(x) PROVE TripInv'
  BY <1>0, <1>2, StartAnsweredInv
<1>3. CASE PhoneKilled
  BY <1>0, <1>3, HomeAgain DEF PhoneKilled
<1>4. ASSUME NEW i \in 1 .. sent, ServeStart(i) \/ ServeEnd(i) \/ LoseRequest(i) PROVE TripInv'
  BY <1>0, <1>4, ServeStartInv, ServeEndInv, LoseRequestInv
<1>5. CASE UNCHANGED tripVars
  BY <1>0, <1>5, PhoneOnly
<1> QED BY <1>1, <1>2, <1>3, <1>4, <1>5 DEF DriverTripNext, driverVars

(* The screen's, the phone's and the server's promises follow.             *)
LEMMA TripPromises ==
  ASSUME TripInv
  PROVE  DriverTripTypeOK /\ OneTripPerShift /\ LeavingCloses /\ ShownTripRuns
<1>1. OneTripPerShift
  <2> SUFFICES ASSUME NEW s \in (1 .. MaxShift) \ retried
               PROVE  Cardinality({i \in 1 .. sent : request[i].kind = "start"
                                                       /\ request[i].shift = s}) <= 1
    BY DEF OneTripPerShift
  <2> DEFINE S == {i \in 1 .. sent : request[i].kind = "start" /\ request[i].shift = s}
  <2>1. \A i, j \in S : i = j
    BY DEF TripInv, StartsInv, IsStart
  <2> HIDE DEF S
  <2>2. S = {} \/ \E i : S = {i}
    BY <2>1
  <2>3. Cardinality(S) <= 1
    <3>1. CASE S = {}
      <4>1. Cardinality(S) = 0
        BY <3>1, FS_EmptySet
      <4> QED BY <4>1
    <3>2. ASSUME NEW i, S = {i} PROVE Cardinality(S) <= 1
      <4>1. Cardinality(S) = 1
        BY <3>2, FS_Singleton
      <4> QED BY <4>1
    <3> QED BY <2>2, <3>1, <3>2
  <2> QED BY <2>3 DEF S
<1>2. ShownTripRuns
  <2>1. ASSUME screen.phase = "running", ~overtaken,
               \A i \in 1 .. sent : request[i].kind = "end" => request[i].trip # screen.trip
        PROVE  trips[screen.trip] = "running"
    <3>1. screen.trip \in DOMAIN trips /\ Shown(screen.trip)
      BY <2>1 DEF TripInv, ScreenInv, Shown
    <3>2. ~AskedToEnd(screen.trip)
      BY <2>1 DEF AskedToEnd, IsEnd
    <3> QED BY <2>1, <3>1, <3>2 DEF TripInv, ShownInv
  <2>2. screen.phase = "ended" => trips[screen.trip] = "completed"
    BY DEF TripInv, ScreenInv
  <2> QED BY <2>1, <2>2 DEF ShownTripRuns
<1> QED BY <1>1, <1>2 DEF TripInv, LeftInv

----------------------------------------------------------------------------
(* Before the driver is in, no trip was thought of; afterwards the codes   *)
(* and the login screen are put aside.                                     *)
LoginAside ==
    /\ uses = [c \in Code |-> 0] /\ field = Empty

ShiftInv ==
    \/ ~onShift /\ LoginInv /\ DriverTripInit
    \/ onShift /\ LoginAside /\ TripInv

LEMMA InitShiftInv == ShiftInit => ShiftInv
<1> SUFFICES ASSUME ShiftInit PROVE ShiftInv
  OBVIOUS
<1>1. LoginInv /\ DriverTripInit
  BY InitLoginInv DEF ShiftInit
<1>2. ~onShift
  BY DEF ShiftInit, LoginInit, onShift
<1> QED BY <1>1, <1>2 DEF ShiftInv

LEMMA NextShiftInv == ShiftInv /\ [ShiftNext]_<<driverVars, loginVars>> => ShiftInv'
<1> SUFFICES ASSUME ShiftInv, [ShiftNext]_<<driverVars, loginVars>> PROVE ShiftInv'
  OBVIOUS
<1>1. CASE UNCHANGED driverVars /\ ~onShift /\ [LoginNext]_loginVars
  <2>1. LoginInv'
    BY <1>1, NextLoginInv DEF ShiftInv
  <2>2. ~onShift'
    BY <2>1 DEF LoginInv, SignInv, onShift
  <2>3. DriverTripInit'
    BY <1>1 DEF ShiftInv, DriverTripInit, TelemetryInit, driverVars, telemetryVars, tripVars, Home
  <2> QED BY <2>1, <2>2, <2>3 DEF ShiftInv
<1>2. CASE ReplaceLogin /\ UNCHANGED driverVars
  <2>1. DriverTripInit
    BY <1>2 DEF ShiftInv, ReplaceLogin, onShift
  <2>2. DriverTripInit'
    BY <1>2, <2>1 DEF DriverTripInit, TelemetryInit, driverVars, telemetryVars, tripVars, Home
  <2>3. TripInv'
    BY <2>1, <1>2, InitTripInv, NextTripInv
  <2>4. onShift' /\ LoginAside'
    BY <1>2 DEF ReplaceLogin, onShift, LoginAside
  <2> QED BY <2>3, <2>4 DEF ShiftInv
<1>3. CASE onShift /\ [DriverTripNext]_driverVars /\ UNCHANGED loginVars
  <2>1. TripInv'
    BY <1>3, NextTripInv DEF ShiftInv
  <2>2. onShift' /\ LoginAside'
    BY <1>3 DEF ShiftInv, onShift, LoginAside, loginVars, screenVars, serverVars
  <2> QED BY <2>1, <2>2 DEF ShiftInv
<1> QED BY <1>1, <1>2, <1>3 DEF ShiftNext, ShiftInv

(* Every state from the login screen to the last trip satisfies it.        *)
THEOREM ShiftInvariance == ShiftSpec => []ShiftInv
  BY InitShiftInv, NextShiftInv, PTL DEF ShiftSpec

LEMMA ShiftPromises ==
  ASSUME ShiftInv
  PROVE  TripInv /\ (onShift \/ LoginInv) /\ (onShift => LoginAside)
         /\ (~onShift => DriverTripInit)
  BY InitTripInv DEF ShiftInv

(* The variables keep their types from the login screen on; a screen waits *)
(* exactly while it is busy and owns a transmitter exactly while it shows  *)
(* a trip; nothing is asked of the trips API before the driver is in.      *)
THEOREM ShiftTypes == ShiftSpec => []ShiftTypeOK
<1>1. ShiftInv => ShiftTypeOK
  <2> SUFFICES ASSUME ShiftInv PROVE ShiftTypeOK
    OBVIOUS
  <2>1. DriverTripTypeOK
    BY ShiftPromises, TripPromises
  <2>2. onShift \/ LoginTypeOK
    BY ShiftPromises DEF LoginInv, ServerInv, LoginTypeOK
  <2>3. ~onShift => sent = 0 /\ trips = <<>>
    BY ShiftPromises DEF DriverTripInit
  <2> QED BY <2>1, <2>2, <2>3 DEF ShiftTypeOK
<1> QED BY <1>1, ShiftInvariance, PTL

(* A shift in which no start was given up posts one: the on-trip screen    *)
(* adopts the trip the manual screen created (on_trip_screen.dart).        *)
THEOREM ManualTripIsAdopted == ShiftSpec => []OneTripPerShift
<1>1. ShiftInv => OneTripPerShift
  BY ShiftPromises, TripPromises
<1> QED BY <1>1, ShiftInvariance, PTL

(* dispose of the on-trip screen: a running trip left is closed at the     *)
(* server, or the request to do so is on its way or was lost.              *)
THEOREM LeftTripsClose == ShiftSpec => []LeavingCloses
<1>1. ShiftInv => LeavingCloses
  BY ShiftPromises, TripPromises
<1> QED BY <1>1, ShiftInvariance, PTL

(* However late the requests of screens left long ago are served, the trip *)
(* shown running runs, unless a start the phone had given up came between; *)
(* and what is shown as updated is completed.                              *)
THEOREM DriverSeesTheTruth == ShiftSpec => []ShownTripRuns
<1>1. ShiftInv => ShownTripRuns
  BY ShiftPromises, TripPromises
<1> QED BY <1>1, ShiftInvariance, PTL

(* The buffer's promises survive the screens, which make transmitters and  *)
(* stop them, twice if need be, without asking where start() is.           *)
THEOREM FixesSurviveScreens ==
  ShiftSpec => [](FixesAccounted /\ FlushedOldestFirst /\ BufferBounded)
<1>1. ShiftInv => FixesAccounted /\ FlushedOldestFirst /\ BufferBounded
  BY ShiftPromises DEF TripInv, TelemetryInv
<1> QED BY <1>1, ShiftInvariance, PTL

(* The sign-in's promises survive the shift it leads to.                   *)
THEOREM SignInBeforeShift ==
  ShiftSpec => [](CodeGrantsOnce /\ SignedInWasVerified /\ RevealIsLatest)
<1>1. ShiftInv => CodeGrantsOnce /\ SignedInWasVerified /\ RevealIsLatest
  <2> SUFFICES ASSUME ShiftInv PROVE CodeGrantsOnce /\ SignedInWasVerified /\ RevealIsLatest
    OBVIOUS
  <2>1. CASE onShift
    <3>1. uses = [c \in Code |-> 0] /\ field = Empty /\ step = "over"
      BY <2>1, ShiftPromises DEF LoginAside, onShift
    <3> QED BY <3>1 DEF CodeGrantsOnce, SignedInWasVerified, RevealIsLatest
  <2>2. CASE LoginInv
    BY <2>2 DEF LoginInv, ServerInv, SignInv, Verified, SignedInWasVerified, RevealInv
  <2> QED BY <2>1, <2>2, ShiftPromises
<1> QED BY <1>1, ShiftInvariance, PTL

=============================================================================
