------------------------------ MODULE Telemetry ------------------------------
(***************************************************************************)
(* The driver's phone between a GPS fix and the broker                     *)
(* (location_transmitter.dart, ping_buffer.dart).  One LocationTransmitter *)
(* is made per trip; all of them use the same SQLite file, which outlives  *)
(* them.  A fix is identified by the order in which it was taken, which is *)
(* also the order of the rows: sqflite executes statements in the order    *)
(* they are issued, so a statement takes effect where the code issues it   *)
(* and its `await` is a step of its own.  Positions the divergence filter  *)
(* holds back change nothing and are left out.                             *)
(***************************************************************************)
EXTENDS Integers, FiniteSets, FiniteSetsExt

CONSTANTS MaxTx,      \* bound: transmitters made, one per trip
          MaxFlush,   \* bound: flushes in progress at one time
          MaxRows,    \* _maxBufferedPings
          MaxFix,     \* bound: fixes taken
          MaxDrop,    \* bound: connections that break
          MaxKill     \* bound: times the app is killed

ASSUME TelemetryAssumption ==
    /\ MaxTx \in Nat \ {0} /\ MaxFlush \in Nat
    /\ MaxRows \in Nat /\ MaxFix \in Nat /\ MaxDrop \in Nat /\ MaxKill \in Nat

VARIABLES tx,         \* the transmitters
          rows,       \* pending_pings
          counting,   \* enqueue calls that have inserted and not yet counted
          evicting,   \* enqueue calls that have counted too many rows
          flush,      \* _flushBuffer calls in progress
          taken,      \* how many fixes were selected for sending
          drops, kills,
          handed,     \* history: fixes handed to the MQTT client
          flushed,    \* history: those handed over from the buffer
          evicted,    \* history: rows deleted because there were too many
          unsaved     \* history: fixes whose INSERT died with the app

bufferVars == <<rows, counting, evicting, evicted>>
historyVars == <<handed, flushed>>
telemetryVars == <<tx, rows, counting, evicting, flush, taken, drops, kills, handed, flushed,
                   evicted, unsaved>>

Tx == 1 .. MaxTx
Flusher == 1 .. MaxFlush
Fix == 1 .. MaxFix

(* pc is where start() is; up, that the client believes in its connection; *)
(* connected, the flag its callbacks set.  A stop() that ran before there  *)
(* was a client is "missed": nothing was disconnected.                     *)
Transmitter == [pc : {"none", "preparing", "connecting", "started", "failed"},
                up : BOOLEAN, connected : BOOLEAN, listening : BOOLEAN,
                stop : {"no", "missed", "disconnected"}]
NewTransmitter == [pc |-> "none", up |-> FALSE, connected |-> FALSE, listening |-> FALSE,
                   stop |-> "no"]

FlushRecord == [on : BOOLEAN, x : Tx, pending : SUBSET Fix, removing : SUBSET Fix]
IdleFlush == [on |-> FALSE, x |-> 1, pending |-> {}, removing |-> {}]

(* The type of every variable.                                             *)
TelemetryTypeOK ==
    /\ tx \in [Tx -> Transmitter]
    /\ rows \subseteq Fix /\ counting \subseteq Fix
    /\ evicting \subseteq [fix : Fix, overflow : Fix]
    /\ flush \in [Flusher -> FlushRecord]
    /\ taken \in 0 .. MaxFix /\ drops \in 0 .. MaxDrop /\ kills \in 0 .. MaxKill
    /\ handed \subseteq Fix /\ flushed \subseteq handed
    /\ evicted \subseteq Fix /\ unsaved \subseteq Fix

TelemetryInit ==
    /\ tx = [x \in Tx |-> NewTransmitter]
    /\ rows = {} /\ counting = {} /\ evicting = {}
    /\ flush = [f \in Flusher |-> IdleFlush]
    /\ taken = 0 /\ drops = 0 /\ kills = 0
    /\ handed = {} /\ flushed = {} /\ evicted = {} /\ unsaved = {}

----------------------------------------------------------------------------
(* start(): permission, the buffer, the broker, the position stream.       *)
MakeTransmitter(x) ==
    /\ tx[x].pc = "none"
    /\ tx' = [tx EXCEPT ![x].pc = "preparing"]

(* A StateError, or a file that cannot be opened: start() is over.         *)
StartFails(x) ==
    /\ tx[x].pc = "preparing"
    /\ tx' = [tx EXCEPT ![x].pc = "failed"]
    /\ UNCHANGED <<bufferVars, flush, taken, drops, kills, historyVars, unsaved>>

Prepared(x) ==
    /\ tx[x].pc = "preparing"
    /\ tx' = [tx EXCEPT ![x].pc = "connecting"]
    /\ UNCHANGED <<bufferVars, flush, taken, drops, kills, historyVars, unsaved>>

(* onConnected: the flush's SELECT is issued at once.                      *)
OnConnected_NoFlush(x, t) ==
    /\ tx' = [tx EXCEPT ![x] = [t EXCEPT !.up = TRUE, !.connected = TRUE]]
    /\ UNCHANGED flush

OnConnected(x, t) ==
    /\ tx' = [tx EXCEPT ![x] = [t EXCEPT !.up = TRUE, !.connected = TRUE]]
    /\ \E f \in Flusher :
          /\ ~flush[f].on /\ \A g \in Flusher : g < f => flush[g].on
          /\ flush' = [flush EXCEPT ![f] = [on |-> TRUE, x |-> x, pending |-> rows,
                                            removing |-> {}]]

(* connect() succeeds or fails; positions are listened to either way, also *)
(* when stop() has run meanwhile.                                          *)
ConnectEnds(x) ==
    LET t == [tx[x] EXCEPT !.pc = "started", !.listening = TRUE] IN
    /\ tx[x].pc = "connecting"
    /\ \/ OnConnected(x, t)
       \/ tx' = [tx EXCEPT ![x] = t] /\ UNCHANGED flush
    /\ UNCHANGED <<bufferVars, taken, drops, kills, historyVars, unsaved>>

(* stop(): no more positions, and the client, if there is one, is          *)
(* disconnected.                                                           *)
StopTransmitter(x) ==
    /\ tx[x].pc # "none"
    /\ tx' = [tx EXCEPT ![x].listening = FALSE, ![x].up = FALSE,
                        ![x].stop = IF tx[x].pc \in {"connecting", "started"}
                                    THEN "disconnected" ELSE "missed"]

----------------------------------------------------------------------------
(* The connection.                                                         *)
LinkLost(x) ==
    /\ tx[x].up /\ drops < MaxDrop
    /\ tx' = [tx EXCEPT ![x].up = FALSE]
    /\ drops' = drops + 1
    /\ UNCHANGED <<bufferVars, flush, taken, kills, historyVars, unsaved>>

OnDisconnected(x) ==
    /\ ~tx[x].up /\ tx[x].connected
    /\ tx' = [tx EXCEPT ![x].connected = FALSE]
    /\ UNCHANGED <<bufferVars, flush, taken, drops, kills, historyVars, unsaved>>

(* autoReconnect, unless disconnect() was called on this client.           *)
Reconnected(x) ==
    /\ tx[x].pc = "started" /\ ~tx[x].up /\ tx[x].stop # "disconnected"
    /\ OnConnected(x, tx[x])
    /\ UNCHANGED <<bufferVars, taken, drops, kills, historyVars, unsaved>>

(* _publish: false unless the client believes it is connected.  At QoS 0   *)
(* true says nothing about the broker.                                     *)
Publishable(x) == tx[x].connected /\ tx[x].up
Publish(n) == handed' = handed \cup {n}

(* _onPosition and _sendOrBuffer, for a fix worth sending.                 *)
OnPosition(x) ==
    LET n == taken + 1 IN
    /\ tx[x].listening /\ taken < MaxFix
    /\ taken' = n
    /\ \/ Publishable(x) /\ Publish(n) /\ UNCHANGED <<rows, counting>>
       \/ /\ ~Publishable(x)
          /\ rows' = rows \cup {n} /\ counting' = counting \cup {n}
          /\ UNCHANGED handed
    /\ UNCHANGED <<tx, evicting, flush, drops, kills, flushed, evicted, unsaved>>

----------------------------------------------------------------------------
(* enqueue, after its INSERT: count, then delete the oldest.               *)
Oldest(k) == {n \in rows : Cardinality({m \in rows : m < n}) < k}

CountRows(n) ==
    LET count == Cardinality(rows) IN
    /\ n \in counting
    /\ counting' = counting \ {n}
    /\ evicting' = IF count > MaxRows
                   THEN evicting \cup {[fix |-> n, overflow |-> count - MaxRows]} ELSE evicting
    /\ UNCHANGED <<tx, rows, flush, taken, drops, kills, historyVars, evicted, unsaved>>

Evict(e) ==
    /\ e \in evicting
    /\ evicting' = evicting \ {e}
    /\ rows' = rows \ Oldest(e.overflow)
    /\ evicted' = evicted \cup Oldest(e.overflow)
    /\ UNCHANGED <<tx, counting, flush, taken, drops, kills, historyVars, unsaved>>

(* One turn of _flushBuffer's loop: the oldest ping of its list is handed  *)
(* over and its row deleted; the first that cannot be ends the flush.      *)
FlushNext_Skip(f) ==
    LET x == flush[f].x  n == Min(flush[f].pending) IN
    /\ flush[f].on
    /\ \/ /\ flush[f].pending = {}
          /\ flush' = [flush EXCEPT ![f] = IdleFlush]
          /\ UNCHANGED <<rows, historyVars>>
       \/ /\ flush[f].pending # {} /\ ~Publishable(x)
          /\ flush' = [flush EXCEPT ![f].pending = @ \ {n}, ![f].removing = {}]
          /\ UNCHANGED <<rows, historyVars>>
       \/ /\ flush[f].pending # {} /\ Publishable(x)
          /\ Publish(n)
          /\ flushed' = flushed \cup {n}
          /\ rows' = rows \ {n}
          /\ flush' = [flush EXCEPT ![f].pending = @ \ {n}, ![f].removing = rows \cap {n}]
    /\ UNCHANGED <<tx, counting, evicting, taken, drops, kills, evicted, unsaved>>

FlushNext_RemoveFirst(f) ==
    LET x == flush[f].x  n == Min(flush[f].pending) IN
    /\ flush[f].on
    /\ \/ /\ flush[f].pending = {}
          /\ flush' = [flush EXCEPT ![f] = IdleFlush]
          /\ UNCHANGED <<rows, historyVars>>
       \/ /\ flush[f].pending # {} /\ ~Publishable(x)
          /\ rows' = rows \ {n}
          /\ flush' = [flush EXCEPT ![f] = IdleFlush]
          /\ UNCHANGED historyVars
       \/ /\ flush[f].pending # {} /\ Publishable(x)
          /\ Publish(n)
          /\ flushed' = flushed \cup {n}
          /\ rows' = rows \ {n}
          /\ flush' = [flush EXCEPT ![f].pending = @ \ {n}, ![f].removing = rows \cap {n}]
    /\ UNCHANGED <<tx, counting, evicting, taken, drops, kills, evicted, unsaved>>

FlushNext(f) ==
    LET x == flush[f].x  n == Min(flush[f].pending) IN
    /\ flush[f].on
    /\ \/ /\ flush[f].pending = {} \/ ~Publishable(x)
          /\ flush' = [flush EXCEPT ![f] = IdleFlush]
          /\ UNCHANGED <<rows, historyVars>>
       \/ /\ flush[f].pending # {} /\ Publishable(x)
          /\ Publish(n)
          /\ flushed' = flushed \cup {n}
          /\ rows' = rows \ {n}
          /\ flush' = [flush EXCEPT ![f].pending = @ \ {n}, ![f].removing = rows \cap {n}]
    /\ UNCHANGED <<tx, counting, evicting, taken, drops, kills, evicted, unsaved>>

(* The app is killed.  A statement still awaited may not have been         *)
(* executed: an insert is then lost, a deleted row is back.                *)
AppKilled ==
    /\ kills < MaxKill /\ kills' = kills + 1
    /\ tx' = [x \in Tx |-> IF tx[x].pc = "none" THEN tx[x]
                           ELSE [NewTransmitter EXCEPT !.pc = "failed"]]
    /\ \E back \in SUBSET UNION {flush[f].removing : f \in Flusher}, gone \in SUBSET counting :
          /\ rows' = (rows \cup back) \ gone
          /\ unsaved' = unsaved \cup (gone \cap rows)
    /\ counting' = {} /\ evicting' = {}
    /\ flush' = [f \in Flusher |-> IdleFlush]
    /\ UNCHANGED <<taken, drops, historyVars, evicted>>

----------------------------------------------------------------------------
(* What happens by itself once a transmitter is made.                      *)
TransmitterStep(x) == \/ StartFails(x) \/ Prepared(x) \/ ConnectEnds(x)
                      \/ LinkLost(x) \/ OnDisconnected(x) \/ Reconnected(x)
                      \/ OnPosition(x)

BufferStep == \/ \E n \in Fix : CountRows(n)
              \/ \E e \in evicting : Evict(e)
              \/ \E f \in Flusher : FlushNext(f)

(* The screens make one transmitter after another.                         *)
NextTrip(x) ==
    /\ \A y \in Tx : y < x => tx[y].pc = "failed" \/ tx[y].stop # "no"
    /\ MakeTransmitter(x)
    /\ UNCHANGED <<bufferVars, flush, taken, drops, kills, historyVars, unsaved>>

TripOver(x) ==
    /\ tx[x].stop = "no" /\ StopTransmitter(x)
    /\ UNCHANGED <<bufferVars, flush, taken, drops, kills, historyVars, unsaved>>

TelemetryNext ==
    \/ \E x \in Tx : NextTrip(x) \/ TripOver(x) \/ TransmitterStep(x)
    \/ BufferStep
    \/ AppKilled

(* Dart runs every continuation that is ready; sqflite answers.            *)
TelemetryFairness ==
    /\ \A f \in Flusher : WF_telemetryVars(FlushNext(f))
    /\ \A n \in Fix : WF_telemetryVars(CountRows(n))
    /\ WF_telemetryVars(\E e \in evicting : Evict(e))

TelemetrySpec == TelemetryInit /\ [][TelemetryNext]_telemetryVars /\ TelemetryFairness

----------------------------------------------------------------------------
(* Properties                                                              *)

(* A fix that was selected for sending has been handed to the client, is   *)
(* in the buffer, or was evicted as one too many; only a killed app loses  *)
(* the ones it was still saving.  (location_transmitter.dart: a connection *)
(* dropping mid-flush "leaves the remaining backlog queued".)              *)
FixesAccounted == 1 .. taken = handed \cup rows \cup evicted \cup unsaved

(* A backlog is handed over oldest first, whatever breaks and whatever     *)
(* flushes overlap: nothing taken from the buffer is newer than a row      *)
(* still waiting there.                                                    *)
FlushedOldestFirst == \A m \in flushed, n \in rows \ flushed : m < n

(* The buffer is bounded: a row too many has its enqueue still at work, as *)
(* long as the app is not killed.                                          *)
BufferBounded ==
    kills = 0 => Cardinality(rows) <= MaxRows + Cardinality(counting) + Cardinality(evicting)

(* While one transmitter is left and its connection stays up, the buffer   *)
(* is emptied, the rows of earlier trips and of a killed app included.     *)
Online(x) ==
    /\ tx[x].pc = "started" /\ tx[x].stop = "no" /\ tx[x].up
    /\ \A y \in Tx \ {x} : ~tx[y].listening
BacklogDrains == (<>[](\E x \in Tx : Online(x))) => []<>(rows = {})
=============================================================================
