--------------------------- MODULE SensorBridge ---------------------------
(***************************************************************************)
(* The bridges that read a serial or SSH source (src/esp32_bridge.py,      *)
(* src/router_bridge.py, src/esp32s2_wifi_bridge.py), with the aggregators *)
(* and sensors that make published windows of it (src/src/sensors/*.py).   *)
(* What they keep for the dashboard is in DashboardFile; the bridge of the *)
(* ESP32-S2 does nothing else, and has no aggregator and no flush thread.  *)
(*                                                                         *)
(* A daemon thread reads the source and adds readings to aggregators that  *)
(* have no lock.  A second one flushes: it copies an aggregator, clears    *)
(* it, puts the window into the sensor's single slot, takes it out again   *)
(* and publishes the frame.  The main thread waits, and runs stop() as the *)
(* handler of a signal: it can be interrupted by a second signal, and what *)
(* the daemons are doing ends with the process.                            *)
(*                                                                         *)
(* An observation object is named by the number of the reading that made   *)
(* it; a window is a set of such objects, a frame the readings that they   *)
(* held when capture() made it: BLE readings of a MAC that is in the       *)
(* aggregator are merged into its object, wherever that is by then.        *)
(* Bounds: MaxReadings, MaxUnplugs, one nested signal; Cap, MinFrames and  *)
(* WindowSize stand for 500/5000/200 objects, 5 frames and 100 frames.     *)
(***************************************************************************)
EXTENDS Integers, FiniteSets, Sequences

CONSTANTS
    Kinds,          \* the sources to look at, of "esp32", "s2", "ssh", "serial"
    Senders, MaxReadings, MaxUnplugs,
    Cap,            \* _max_observations
    MinFrames,      \* the 5 of CSIProcessor.add_frame
    WindowSize      \* _window_size of the CSIProcessor

ASSUME KindsAssumption == Kinds \subseteq {"esp32", "s2", "ssh", "serial"}
ASSUME BoundsAssumption ==
    /\ {MaxReadings, MaxUnplugs} \subseteq Nat
    /\ {Cap, MinFrames, WindowSize} \subseteq Nat \ {0}

VARIABLES
    kind,           \* which source this bridge has
    running,        \* the event
    plugged,        \* the source is there
    handle,         \* the serial port: "none", "live", or "stale" after a loss
    healthy,        \* RouterCSISensor._healthy
    unplugs,        \* how often it went away
    reader,         \* the reading thread: "open", "connect", "read", "merge",
                    \* "add", "done"
    fetched,        \* what add() of BLE has looked up: <<MAC, object or 0>>
    readings,       \* every reading made, in order
    agg, slot,      \* stream |-> aggregator, and the sensor's _pending_window
    deques,         \* CSIProcessor._buffers: MAC |-> frames that are wide or not
    pc, todo,       \* thread |-> step, and the streams it has still to flush,
    hand, frame,    \* the window, and the frame that capture() made of it
    online,         \* the transport takes frames
    sent, again,    \* the readings published, and those published twice
    late,           \* history: the readings whose add() a clear() overtook
    disturbed,      \* history: the objects of windows that two flushes were at
                    \* together, a second signal cut short, or ended the thread
    nested          \* history: a second signal has come

source == <<plugged, unplugs, handle, healthy, reader, fetched, readings>>
worker == <<pc, todo, hand, frame>>
outlet == <<online, sent, again>>
hist == <<disturbed, nested>>
bridgeVars == <<kind, running, source, agg, slot, deques, worker, outlet, late, hist>>

(* RouterBridge.__init__: over SSH if a host is configured. *)
RouterKinds == {"ssh", "serial"}

Flusher == "flush"
Main == "main"
Threads == {Flusher, Main}
Streams == {"ble", "csi", "router"}
StreamsOf(k) == CASE k = "esp32" -> {"ble", "csi"} [] k = "s2" -> {} [] OTHER -> {"router"}

Up == pc[Main] # "gone"

(* What __init__ of a bridge and of its transport leaves. *)
BridgeCreated ==
    /\ running = TRUE /\ online = TRUE
    /\ sent = {} /\ again = {} /\ late = {} /\ disturbed = {} /\ nested = FALSE

(* RouterCSISensor: not healthy before it has connected, no port is open. *)
SensorInit == healthy = FALSE /\ handle = "none" /\ plugged = TRUE /\ unplugs = 0

(* Empty aggregators, slots and deques. *)
WindowsInit ==
    /\ agg = [s \in Streams |-> {}] /\ slot = [s \in Streams |-> {}]
    /\ deques = [m \in Senders |-> <<>>]

(* The threads that flush() a window: start() of the ESP32-S2's bridge has
   the reader only. *)
FirstStep == [t \in Threads |-> IF t = Flusher /\ kind = "s2" THEN "done" ELSE "loop"]

(* start() has started the threads, and its caller waits. *)
BridgeInit ==
    /\ kind \in Kinds
    /\ BridgeCreated /\ SensorInit /\ WindowsInit
    /\ reader = "open" /\ fetched = <<>> /\ readings = <<>>
    /\ pc = FirstStep /\ todo = [t \in Threads |-> <<>>]
    /\ hand = [t \in Threads |-> {}] /\ frame = [t \in Threads |-> {}]

-----------------------------------------------------------------------------
(* The aggregators. *)

(* A new reading, and the object that it ends in: 0 for none. *)
Read(s, m, w, o) ==
    /\ Len(readings) < MaxReadings
    /\ readings' = Append(readings, [stream |-> s, mac |-> m, wide |-> w, into |-> o])

(* What is appended makes an object of its own, unless the limit is reached. *)
Appended(s, m, w) ==
    LET n == Len(readings) + 1
        fits == Cardinality(agg[s]) < Cap
    IN /\ Read(s, m, w, IF fits THEN n ELSE 0)
       /\ agg' = IF fits THEN [agg EXCEPT ![s] = @ \cup {n}] ELSE agg

(* _parse_csi_line *)
CsiLine(m, w) == Appended("csi", m, w)

(* _parse_wifi_line: access points go to the dashboard only. *)
WifiLine(m) == Read("wifi", m, FALSE, 0) /\ UNCHANGED agg

(* The lines that the firmware of the ESP32-S2 prints, and _parse_wifi. *)
BoardPrints == {"boot", "wifi", "err", "hb"}
S2Line ==
    \E t \in BoardPrints, m \in Senders :
        IF t = "wifi" THEN WifiLine(m) ELSE UNCHANGED <<readings, agg>>

-----------------------------------------------------------------------------
(* The source and the thread that reads it. *)

Unplug ==
    /\ Up /\ plugged /\ unplugs < MaxUnplugs
    /\ plugged' = FALSE /\ unplugs' = unplugs + 1
    /\ handle' = IF handle = "live" THEN "stale" ELSE handle
    /\ UNCHANGED <<kind, running, healthy, reader, fetched, readings, agg, slot,
                   deques, worker, outlet, late, hist>>

Replug ==
    /\ Up /\ ~plugged
    /\ plugged' = TRUE
    /\ UNCHANGED <<kind, running, unplugs, handle, healthy, reader, fetched, readings,
                   agg, slot, deques, worker, outlet, late, hist>>

Reading(to, h, ok) ==
    /\ reader' = to /\ handle' = h /\ healthy' = ok
    /\ UNCHANGED <<kind, running, plugged, unplugs, fetched, readings, agg, slot, deques,
                   worker, outlet, late, hist>>

Ended == Up /\ reader = "open" /\ ~running /\ Reading("done", handle, healthy)

HasPort == kind \in {"esp32", "s2"}

(* The outer loop opens the port, again and again while it is not there. *)
PortOpen ==
    Up /\ HasPort /\ reader = "open" /\ running /\ plugged /\ Reading("read", "live", healthy)

PortTimeout ==
    /\ Up /\ HasPort /\ reader = "read" /\ handle = "live" /\ ~running
    /\ Reading("open", handle, healthy)

PortGivesUp ==                                                  \* mutant
    Up /\ HasPort /\ reader = "read" /\ handle = "stale" /\ Reading("done", "none", healthy)

(* A SerialException leaves the inner loop; the outer one opens the port
   again after a pause. *)
PortLost ==
    Up /\ HasPort /\ reader = "read" /\ handle = "stale" /\ Reading("open", "none", healthy)

(* A line that is read is parsed and added before running is looked at
   again: one more reading may follow a stop(). *)
NextLine == reader' = IF running THEN "read" ELSE "open"

Line(parsed) ==
    /\ Up /\ reader = "read" /\ handle = "live" /\ parsed /\ NextLine
    /\ UNCHANGED <<kind, running, plugged, unplugs, handle, healthy, fetched, slot, deques,
                   worker, outlet, late, hist>>

EspParse == \E m \in Senders : WifiLine(m) \/ \E w \in BOOLEAN : CsiLine(m, w)
EspLine == kind = "esp32" /\ Line(EspParse)

(* _parse_ble_line, and BLEWindowAggregator.add: the object of the MAC is
   looked up, *)
Existing(m) ==
    LET same == {o \in agg["ble"] : readings[o].mac = m}
    IN IF same = {} THEN 0 ELSE CHOOSE o \in same : TRUE

BleGet(m) ==
    /\ Up /\ kind = "esp32" /\ reader = "read" /\ handle = "live"
    /\ Len(readings) < MaxReadings
    /\ reader' = "merge" /\ fetched' = <<m, Existing(m)>>
    /\ UNCHANGED <<kind, running, plugged, unplugs, handle, healthy, readings, agg, slot,
                   deques, worker, outlet, late, hist>>

(* and then the reading is merged into it, even if it has left the
   aggregator in between, or makes an object of its own. *)
BleMerge ==
    LET o == fetched[2]
    IN /\ Up /\ reader = "merge" /\ fetched' = <<>> /\ NextLine
       /\ IF o = 0 THEN Appended("ble", fetched[1], FALSE) /\ UNCHANGED late
          ELSE /\ Read("ble", fetched[1], FALSE, o) /\ UNCHANGED agg
               /\ late' = IF o \in agg["ble"] THEN late ELSE late \cup {Len(readings')}
       /\ UNCHANGED <<kind, running, plugged, unplugs, handle, healthy, slot, deques, worker,
                      outlet, hist>>

S2Reads == kind = "s2" /\ Line(S2Line)

(* RouterCSISensor.health_check: the port of a source that went away is
   still "open", and a port that is closed is None at once. *)
HealthCheck == healthy

(* RouterBridge._poll_loop: connects when the sensor is not healthy. *)
RouterLoop ==
    /\ Up /\ kind \in RouterKinds /\ reader = "open" /\ running
    /\ Reading(IF HealthCheck THEN "read" ELSE "connect", handle, healthy)

(* _connect_ssh: a command that is answered is all there is. *)
ConnectSsh == Up /\ kind = "ssh" /\ reader = "connect" /\ plugged /\ Reading("read", handle, TRUE)

(* _connect_serial: a port that is silent at every speed is taken as it is. *)
ConnectSerial ==
    Up /\ kind = "serial" /\ reader = "connect" /\ plugged /\ Reading("read", "live", TRUE)

RouterNotThere == Up /\ reader = "connect" /\ ~plugged /\ Reading("open", handle, healthy)

(* _poll_ssh runs a command of its own every time. *)
SshAnswers == kind = "ssh" /\ plugged

(* _poll_json, _poll_shell, _poll_passive: a port whose device went away
   raises, which poll() makes an empty list. *)
SerialAnswers == kind = "serial" /\ handle = "live"

(* RouterCSISensor.poll: whatever goes wrong is an empty list. *)
RouterPoll ==
    /\ Up /\ kind \in RouterKinds /\ reader = "read"
    /\ Reading(IF SshAnswers \/ SerialAnswers THEN "add" ELSE "open", handle, healthy)

(* The observations of a poll are added one by one, whatever running says. *)
RouterAdd ==
    /\ Up /\ reader = "add"
    /\ \E m \in Senders : Appended("router", m, FALSE)
    /\ UNCHANGED <<kind, running, plugged, unplugs, handle, healthy, reader, fetched, slot,
                   deques, worker, outlet, late, hist>>

RouterPolled == Up /\ reader = "add" /\ Reading("open", handle, healthy)

Source ==
    \/ Unplug \/ Replug \/ Ended
    \/ PortOpen \/ PortTimeout \/ PortLost
    \/ EspLine \/ BleMerge \/ S2Reads \/ \E m \in Senders : BleGet(m)
    \/ RouterLoop \/ ConnectSsh \/ ConnectSerial \/ RouterNotThere
    \/ RouterPoll \/ RouterAdd \/ RouterPolled
-----------------------------------------------------------------------------
(* Flushing: the same steps in _flush_loop and in stop(). *)

Windowing(t) == pc[t] \in {"clear", "feed", "take", "drop"}
Busy(t) == Windowing(t) \/ pc[t] = "publish"

(* The passes of ESP32Bridge._flush_loop, BLE before CSI, which is due twice
   as often, and of RouterBridge._flush_loop. *)
EspPasses == {<<"ble", "csi">>, <<"csi">>}
RouterPass == <<"router">>
Passes == CASE kind = "esp32" -> EspPasses [] kind = "s2" -> {} [] OTHER -> {RouterPass}

(* running is looked at before the pause: a pass may begin after stop(). *)
Wake(pass) ==
    /\ Up /\ pc[Flusher] = "loop" /\ running
    /\ pc' = [pc EXCEPT ![Flusher] = "copy"] /\ todo' = [todo EXCEPT ![Flusher] = pass]
    /\ UNCHANGED <<kind, running, source, agg, slot, deques, hand, frame,
                   outlet, late, hist>>

LoopEnds ==
    /\ Up /\ pc[Flusher] = "loop" /\ ~running
    /\ pc' = [pc EXCEPT ![Flusher] = "done"]
    /\ UNCHANGED <<kind, running, source, agg, slot, deques, todo, hand, frame, outlet,
                   late, hist>>

OnePass(t) == IF t = Flusher THEN "done" ELSE "close"           \* mutant

(* Where a thread goes that has nothing left to flush. *)
AfterPass(t) == IF t = Flusher THEN "loop" ELSE "close"

Finish(t) ==
    /\ todo' = [todo EXCEPT ![t] = Tail(@)] /\ hand' = [hand EXCEPT ![t] = {}]
    /\ frame' = [frame EXCEPT ![t] = {}]
    /\ pc' = [pc EXCEPT ![t] = IF Len(todo[t]) = 1 THEN AfterPass(t) ELSE "copy"]

Step(t, to, window, readingsOf) ==
    /\ pc' = [pc EXCEPT ![t] = to] /\ hand' = [hand EXCEPT ![t] = window]
    /\ frame' = [frame EXCEPT ![t] = readingsOf]
    /\ UNCHANGED todo

(* The readings that objects hold. *)
Content(os) == {n \in DOMAIN readings : readings[n].into \in os}

(* The windows of another thread that is at the same stream. *)
Meets(t, s) ==
    UNION {agg[s] \cup slot[s] \cup hand[u] :
              u \in {u \in Threads \ {t} : Windowing(u) /\ Head(todo[u]) = s}}

(* flush() of an aggregator: the copy, then the clear. *)
Copy(t) ==
    LET s == Head(todo[t])
    IN /\ Up /\ pc[t] = "copy" /\ todo[t] # <<>>
       /\ Step(t, "clear", agg[s], {})
       /\ disturbed' = disturbed \cup Meets(t, s)
       /\ UNCHANGED <<kind, running, source, agg, slot, deques, outlet, late, nested>>

ClearForgets(t) ==                                              \* mutant
    /\ Up /\ pc[t] = "clear"
    /\ IF hand[t] = {} THEN Finish(t) ELSE Step(t, "feed", hand[t], {})
    /\ UNCHANGED <<kind, running, source, agg, slot, deques, outlet, late, hist>>

Clear(t) ==
    LET s == Head(todo[t])
    IN /\ Up /\ pc[t] = "clear"
       /\ late' = late \cup Content(agg[s] \ hand[t])
       /\ agg' = [agg EXCEPT ![s] = {}]
       /\ IF hand[t] = {} THEN Finish(t) ELSE Step(t, "feed", hand[t], {})
       /\ UNCHANGED <<kind, running, source, slot, deques, outlet, hist>>

(* feed_window *)
Feed(t) ==
    /\ Up /\ pc[t] = "feed"
    /\ slot' = [slot EXCEPT ![Head(todo[t])] = hand[t]]
    /\ Step(t, "take", {}, {})
    /\ UNCHANGED <<kind, running, source, agg, deques, outlet, late, hist>>

(* capture(): the pending window is read; a window that is None is no frame. *)
Take(t) ==
    LET window == slot[Head(todo[t])]
    IN /\ Up /\ pc[t] = "take"
       /\ IF window = {} THEN Finish(t) ELSE Step(t, "drop", window, {})
       /\ UNCHANGED <<kind, running, source, agg, slot, deques, outlet, late, hist>>

(* CSIProcessor.add_frame for the frames of a window up to o. *)
Deque(window, o, m) ==
    LET new == {i \in window : i <= o /\ readings[i].mac = m}
        wide(k) == \E i \in new : readings[i].wide /\ Cardinality({j \in new : j <= i}) = k
        all == deques[m] \o [k \in 1..Cardinality(new) |-> wide(k)]
    IN SubSeq(all, IF Len(all) > WindowSize THEN Len(all) - WindowSize + 1 ELSE 1, Len(all))

(* extract_features: the subcarriers of the first frame index every frame. *)
Mixed(deque) ==
    Len(deque) >= MinFrames /\ Head(deque) /\ \E i \in DOMAIN deque : ~deque[i]

(* Frames of a window on which feature extraction would raise; whether one
   is due depends on the sender's clock. *)
Hazardous(window) == {o \in window : Mixed(Deque(window, o, readings[o].mac))}

(* capture(): the slot is emptied and the window made into a frame. *)
Drop(t) ==
    /\ Up /\ pc[t] = "drop"
    /\ slot' = [slot EXCEPT ![Head(todo[t])] = {}]
    /\ deques' = IF Head(todo[t]) # "csi" THEN deques
                 ELSE [m \in Senders |-> Deque(hand[t], MaxReadings, m)]
    /\ Step(t, "publish", {}, Content(hand[t]))
    /\ UNCHANGED <<kind, running, source, agg, outlet, late, hist>>

(* Nothing in _flush_loop catches what capture() raises. *)
DropRaises ==
    /\ Up /\ pc[Flusher] = "drop" /\ Head(todo[Flusher]) = "csi"
    /\ Hazardous(hand[Flusher]) # {}
    /\ slot' = [slot EXCEPT !["csi"] = {}]
    /\ disturbed' = disturbed \cup hand[Flusher]
    /\ Step(Flusher, "dead", {}, {})
    /\ UNCHANGED <<kind, running, source, agg, deques, outlet, late, nested>>

(* transport.publish takes nothing once the transport is shut down. *)
Publish(t) ==
    /\ Up /\ pc[t] = "publish"
    /\ sent' = IF online THEN sent \cup frame[t] ELSE sent
    /\ again' = IF online THEN again \cup (sent \cap frame[t]) ELSE again
    /\ Finish(t)
    /\ UNCHANGED <<kind, running, source, agg, slot, deques, online, late, hist>>
-----------------------------------------------------------------------------
(* stop(), in the handler of SIGTERM and SIGHUP on the main thread. *)

NoFinalFlush == <<>>                                            \* mutant

(* stop() of the ESP32 bridge flushes BLE, not CSI; the others nothing. *)
FinalFlush == IF kind = "esp32" THEN <<"ble">> ELSE <<>>

(* What is first in stop() once running is cleared: the router's has the
   sensor to disconnect, the ESP32-S2's is at its end. *)
FirstOfStop ==
    IF FinalFlush # <<>> THEN "copy" ELSE IF kind = "s2" THEN "exit"
    ELSE IF kind = "esp32" THEN "close" ELSE "disconnect"

Stopping ==
    /\ running' = FALSE
    /\ pc' = [pc EXCEPT ![Main] = FirstOfStop]
    /\ todo' = [todo EXCEPT ![Main] = FinalFlush]
    /\ hand' = [hand EXCEPT ![Main] = {}] /\ frame' = [frame EXCEPT ![Main] = {}]
    /\ UNCHANGED <<kind, source, agg, slot, deques, outlet, late>>

Stop == pc[Main] = "loop" /\ Stopping /\ UNCHANGED hist

(* The window that the main thread is at. *)
MainHas ==
    hand[Main] \cup {readings[n].into : n \in frame[Main]}
        \cup (IF pc[Main] \in {"take", "drop"} THEN slot[Head(todo[Main])] ELSE {})

(* A second signal interrupts stop() wherever it is; its handler ends in
   sys.exit(), and the first stop() is never returned to. *)
StopAgain ==
    /\ pc[Main] \notin {"loop", "gone"} /\ ~nested
    /\ Stopping
    /\ nested' = TRUE /\ disturbed' = disturbed \cup MainHas

(* RouterCSISensor.disconnect: an SSH sensor becomes unhealthy, a serial
   one closes its port and stays healthy. *)
Disconnect ==
    /\ pc[Main] = "disconnect"
    /\ healthy' = (healthy /\ kind # "ssh")
    /\ handle' = IF kind = "serial" THEN "none" ELSE handle
    /\ pc' = [pc EXCEPT ![Main] = "close"]
    /\ UNCHANGED <<kind, running, plugged, unplugs, reader, fetched, readings, agg, slot,
                   deques, todo, hand, frame, outlet, late, hist>>

(* transport.flush() and disconnect(). *)
Close ==
    /\ pc[Main] = "close"
    /\ online' = FALSE
    /\ pc' = [pc EXCEPT ![Main] = "exit"]
    /\ UNCHANGED <<kind, running, source, agg, slot, deques, todo, hand, frame, sent, again,
                   late, hist>>

(* The process ends, with its daemon threads: after stop(), or because
   start() returns on Ctrl+C, which stops nothing. *)
Gone(from) ==
    /\ pc[Main] = from
    /\ pc' = [pc EXCEPT ![Main] = "gone"]
    /\ UNCHANGED <<kind, running, source, agg, slot, deques, todo, hand, frame, outlet, late,
                   hist>>

Exit == Gone("exit")
Interrupt == Gone("loop")

Control == Stop \/ StopAgain \/ Disconnect \/ Close \/ Exit \/ Interrupt

Flush(t) ==
    \/ Copy(t) \/ Clear(t) \/ Feed(t) \/ Take(t) \/ Drop(t) \/ Publish(t)
    \/ t = Flusher /\ (LoopEnds \/ DropRaises \/ \E pass \in Passes : Wake(pass))

BridgeNext == Source \/ Control \/ \E t \in Threads : Flush(t)

BridgeSpec == BridgeInit /\ [][BridgeNext]_bridgeVars

(* The scheduler runs every thread; the pass that has a stream comes round
   by its timer; an absent source is not assumed to come back, nor a signal
   to come. *)
FairBridgeSpec ==
    /\ BridgeSpec
    /\ WF_bridgeVars(PortOpen \/ BleMerge \/ PortLost \/ PortTimeout \/ Ended)
    /\ WF_bridgeVars(RouterLoop \/ ConnectSsh \/ ConnectSerial \/ RouterNotThere \/ RouterPoll
                \/ RouterPolled)
    /\ WF_bridgeVars(Copy(Flusher) \/ Clear(Flusher) \/ Feed(Flusher) \/ Take(Flusher)
                \/ Drop(Flusher) \/ Publish(Flusher) \/ LoopEnds)
    /\ WF_bridgeVars(kind \in RouterKinds /\ Wake(RouterPass))
    /\ SF_bridgeVars(kind = "esp32" /\ Wake(<<"ble", "csi">>))
    /\ WF_bridgeVars(Disconnect \/ Close \/ Exit \/ Copy(Main) \/ Clear(Main) \/ Feed(Main)
                \/ Take(Main) \/ Drop(Main) \/ Publish(Main))

-----------------------------------------------------------------------------
Objects == 1..MaxReadings

(* The values the variables take. *)
BridgeTypeOK ==
    /\ kind \in Kinds /\ {running, plugged, healthy, online, nested} \subseteq BOOLEAN
    /\ unplugs \in 0..MaxUnplugs
    /\ handle \in {"none", "live", "stale"} /\ (kind = "ssh" => handle = "none")
    /\ reader \in {"open", "connect", "read", "merge", "add", "done"}
    /\ fetched \in {<<>>} \cup (Senders \X (0..MaxReadings))
    /\ agg \in [Streams -> SUBSET Objects] /\ slot \in [Streams -> SUBSET Objects]
    /\ \A m \in Senders : Len(deques[m]) <= WindowSize
    /\ hand \in [Threads -> SUBSET Objects] /\ frame \in [Threads -> SUBSET Objects]
    /\ \A t \in Threads : Busy(t) => todo[t] # <<>> /\ Head(todo[t]) \in StreamsOf(kind)
    /\ again \subseteq sent /\ sent \cup late \cup disturbed \subseteq Objects

(* The readings of which the aggregators keep something, and which no mishap
   of a flush has touched. *)
Kept == {n \in DOMAIN readings : readings[n].into \notin {0} \cup disturbed}

Waiting == UNION ({agg[s] : s \in Streams} \cup {slot[s] : s \in Streams}
                    \cup {hand[t] : t \in Threads})
InFrames == UNION {frame[t] : t \in Threads}

(* The aggregators have no lock: an add() that a clear() overtakes adds to
   what nobody looks at any more, or to a window that may be published by
   then.  Until the transport is closed no other reading is lost: each is in
   an object that is waiting, in a frame, or published. *)
NothingElseLost ==
    online => Kept \subseteq Content(Waiting) \cup InFrames \cup sent \cup late

(* No reading is in two published frames. *)
PublishedOnce == again \cap Kept = {}

(* Two flushes are at one window, or one is cut short, only in stop(). *)
DisturbedByStop == running /\ pc[Flusher] # "dead" => disturbed = {}

(* Whatever the reader, the two flushes and a second signal do to each other:
   a reading is lost only with an add() that was overtaken or in a window that
   was disturbed, and published twice only in a disturbed one. *)
BridgeInv == BridgeTypeOK /\ NothingElseLost /\ PublishedOnce /\ DisturbedByStop

(* When stop() comes to close the transport, every BLE reading is published
   but those of disturbed windows, those that came too late, the last line
   that the reader may have added, and one window that the flush thread is
   at. *)
AtFlusher ==
    Content(hand[Flusher] \cup IF pc[Flusher] \in {"take", "drop"} THEN slot["ble"] ELSE {})
        \cup frame[Flusher]

StopSendsBle ==
    pc[Main] = "close" /\ kind = "esp32" /\ online =>
        {n \in Kept : readings[n].stream = "ble"}
            \subseteq sent \cup late \cup {Len(readings)} \cup AtFlusher

(* No aggregator keeps readings for ever while the bridge runs, unless
   feature extraction ended the flush thread. *)
Flushed ==
    UNION {agg[s] : s \in Streams} # {} ~>
        \/ UNION {agg[s] : s \in Streams} = {}
        \/ ~running \/ ~Up \/ pc[Flusher] = "dead"

(* A source that is back is read again: the ESP32 by the SerialException
   that its loss raises, the router over SSH because each poll starts anew.
   (A router on a serial port is not.) *)
ReadsAgain ==
    kind # "serial" /\ plugged ~>
        (~plugged \/ ~running \/ ~Up \/ (reader \in {"read", "merge", "add"} /\ handle # "stale"))
=============================================================================
