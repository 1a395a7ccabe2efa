---------------------------- MODULE CaptureAgent ----------------------------
(***************************************************************************)
(* The capture agent of the WiFi Pineapple                                 *)
(* (src/pineapple/capture_agent.py), on top of an at-most-once channel:    *)
(* what MqttTransport is proved to implement.                              *)
(*                                                                         *)
(*   - each of Captures is a sniff() thread, which calls _handle_packet;   *)
(*   - one thread runs _window_flush_loop;                                 *)
(*   - the main thread runs start(), and every signal pushes a call of     *)
(*     stop() on its stack: Python runs handlers between two bytecodes of  *)
(*     the main thread, and a handler can be interrupted by another one.   *)
(* A merged observation (count, strongest rssi) is the set of packets that *)
(* went into it.  Only the main thread can be interrupted while it holds   *)
(* _obs_lock, so the lock is explicit there and one step elsewhere.        *)
(* Bounds: Packets are handled once each; MaxSignals calls of stop().      *)
(***************************************************************************)
EXTENDS Integers, Sequences, FiniteSets

CONSTANTS
    Captures,       \* the capture threads, one per radio
    Packets,        \* the frames parse_frame() makes an observation of
    Macs,           \* the devices that send them
    MaxObs,         \* max_observations_per_window
    MaxWindows,     \* bound: windows built
    MaxSignals      \* bound: calls of stop() on the stack

ASSUME CapturesAssumption == IsFiniteSet(Captures)
ASSUME MaxAssumption == MaxObs \in Nat \ {0} /\ MaxWindows \in Nat /\ MaxSignals \in Nat

VARIABLES
    running,        \* running
    capture,        \* whether a capture thread sniffs
    obs,            \* _current_observations: device |-> packets merged
    locked,         \* the main thread holds _obs_lock
    windows,        \* what each window built so far holds
    flusher,        \* where the flush loop is
    flushHand,      \* the window it is about to publish, 0 for none
    main,           \* where start() is
    stack,          \* the calls of stop() on top of it, the innermost last:
                    \* where each is, and the window it is about to publish
    pending, delivered, gone,   \* the transport
    handled,        \* history: the packets handled
    turnedAway,     \* history: those the cap turned away
    late,           \* history: those observed after running was cleared
    stopped         \* history: a stop() ran to its end

seen == <<handled, turnedAway, late>>
agentVars == <<running, capture, obs, locked, windows, flusher, flushHand, main,
               stack, seen, stopped>>
transportVars == <<pending, delivered, gone>>
vars == <<agentVars, transportVars>>

WindowIds == 1..MaxWindows
Transport == INSTANCE AtMostOnceChannel WITH Windows <- WindowIds

Known == {m \in Macs : obs[m] # {}}
InObs == UNION {obs[m] : m \in Macs}
InWindows == UNION {windows[w] : w \in DOMAIN windows}
Calls == DOMAIN stack
Hands == ({flushHand} \cup {stack[i].hand : i \in Calls}) \ {0}
Published == pending \cup Transport!DeliveredSet \cup gone

Init ==
    /\ running = TRUE
    /\ capture = [c \in Captures |-> "none"]
    /\ obs = [m \in Macs |-> {}]
    /\ locked = FALSE
    /\ windows = <<>>
    /\ flusher = "none"
    /\ flushHand = 0
    /\ main = "starting"
    /\ stack = <<>>
    /\ Transport!Init
    /\ handled = {} /\ turnedAway = {} /\ late = {}
    /\ stopped = FALSE

-----------------------------------------------------------------------------
(* _handle_packet, called by sniff(), which then asks its stop_filter. *)

AtCap == Cardinality(Known) >= MaxObs

SniffNext == IF running THEN "sniffing" ELSE "done"

Overwritten(ps, p) == {p}                           \* mutant
Merged(ps, p) == ps \cup {p}

(* At the cap even a device that is in the window is turned away. *)
HandlePacket(c, p, m) ==
    /\ main # "exited"
    /\ capture[c] = "sniffing"
    /\ ~locked
    /\ p \notin handled
    /\ handled' = handled \cup {p}
    /\ IF AtCap
       THEN turnedAway' = turnedAway \cup {p} /\ UNCHANGED <<obs, late>>
       ELSE /\ obs' = [obs EXCEPT ![m] = Merged(@, p)]
            /\ late' = IF running THEN late ELSE late \cup {p}
            /\ UNCHANGED turnedAway
    /\ capture' = [capture EXCEPT ![c] = SniffNext]
    /\ UNCHANGED <<running, locked, windows, flusher, flushHand, main, stack,
                   stopped, transportVars>>

-----------------------------------------------------------------------------
(* _flush_window(): the observations become a window, and are reset. *)

BuildWindow ==
    /\ Len(windows) < MaxWindows
    /\ windows' = Append(windows, InObs)
    /\ obs' = [m \in Macs |-> {}]

NewWindow == Len(windows) + 1

Publish(w) == Transport!Accept(w) \/ Transport!Refuse(w)

(* _window_flush_loop() *)
FlusherTest ==
    /\ main # "exited"
    /\ flusher = "while"
    /\ flusher' = IF running THEN "sleep" ELSE "done"
    /\ UNCHANGED <<running, capture, obs, locked, windows, flushHand, main, stack,
                   seen, stopped, transportVars>>

FlusherBuild ==
    /\ main # "exited"
    /\ flusher = "sleep"
    /\ ~locked
    /\ IF InObs = {}
       THEN flusher' = "while" /\ UNCHANGED <<windows, obs, flushHand>>
       ELSE flusher' = "publish" /\ BuildWindow /\ flushHand' = NewWindow
    /\ UNCHANGED <<running, capture, locked, main, stack, seen, stopped,
                   transportVars>>

FlusherPublish ==
    /\ main # "exited"
    /\ flusher = "publish"
    /\ Publish(flushHand)
    /\ flusher' = "while"
    /\ flushHand' = 0
    /\ UNCHANGED <<running, capture, obs, locked, windows, main, stack,
                   seen, stopped>>

-----------------------------------------------------------------------------
(* start() and main() *)

(* Once the transport is connected, each radio gets its capture thread. *)
StartRadio(c) ==
    /\ main = "starting"
    /\ stack = <<>>
    /\ capture[c] = "none"
    /\ capture' = [capture EXCEPT ![c] = "sniffing"]
    /\ UNCHANGED <<running, obs, locked, windows, flusher, flushHand, main, stack,
                   seen, stopped, transportVars>>

StartFlusher ==
    /\ main = "starting"
    /\ stack = <<>>
    /\ \A c \in Captures : capture[c] # "none"
    /\ flusher' = "while"
    /\ main' = "looping"
    /\ UNCHANGED <<running, capture, obs, locked, windows, flushHand, stack,
                   seen, stopped, transportVars>>

(* start() raises, and main() calls stop(); or SIGTERM or SIGHUP arrives. *)
CallStop ==
    /\ main # "exited"
    /\ Len(stack) < MaxSignals
    /\ stack' = Append(stack, [at |-> "clear", hand |-> 0])
    /\ UNCHANGED <<running, capture, obs, locked, windows, flusher, flushHand, main,
                   seen, stopped, transportVars>>

(* Ctrl-C: KeyboardInterrupt leaves a stop() that is under way, is caught by
   the loop of start() or by nobody, and main() ends either way. *)
CtrlC ==
    /\ main # "exited"
    /\ main' = "exited"
    /\ UNCHANGED <<running, capture, obs, locked, windows, flusher, flushHand, stack,
                   seen, stopped, transportVars>>

-----------------------------------------------------------------------------
(* stop(), in the innermost call *)

Top == stack[Len(stack)]
At(label) == main # "exited" /\ stack # <<>> /\ Top.at = label
GotoWith(label, w) == stack' = [stack EXCEPT ![Len(stack)] = [at |-> label, hand |-> w]]
Goto(label) == GotoWith(label, 0)

StopClear ==
    /\ At("clear")
    /\ running' = FALSE
    /\ Goto("hoppers")
    /\ UNCHANGED <<capture, obs, locked, windows, flusher, flushHand, main,
                   seen, stopped, transportVars>>

NoFlush == "drain"                                  \* mutant
ThenFlush == "acquire"

(* hopper.stop() for every hopper. *)
StopHoppers ==
    /\ At("hoppers")
    /\ Goto(ThenFlush)
    /\ UNCHANGED <<running, capture, obs, locked, windows, flusher, flushHand, main,
                   seen, stopped, transportVars>>

(* with self._obs_lock: blocks for ever when an outer stop() holds it. *)
StopAcquire ==
    /\ At("acquire")
    /\ ~locked
    /\ locked' = TRUE
    /\ Goto("build")
    /\ UNCHANGED <<running, capture, obs, windows, flusher, flushHand, main,
                   seen, stopped, transportVars>>

StopBuild ==
    /\ At("build")
    /\ locked' = FALSE
    /\ IF InObs = {}
       THEN Goto("drain") /\ UNCHANGED <<windows, obs>>
       ELSE GotoWith("publish", NewWindow) /\ BuildWindow
    /\ UNCHANGED <<running, capture, flusher, flushHand, main, seen, stopped, transportVars>>

StopPublish ==
    /\ At("publish")
    /\ Publish(Top.hand)
    /\ Goto("drain")
    /\ UNCHANGED <<running, capture, obs, locked, windows, flusher, flushHand, main,
                   seen, stopped>>

StopJoinsFlusher ==                                 \* mutant
    /\ At("drain") /\ flusher \in {"none", "done"}
    /\ main' = "exited"
    /\ stopped' = TRUE
    /\ UNCHANGED <<running, capture, obs, locked, windows, flusher, flushHand, stack,
                   seen, transportVars>>

(* transport.flush(), transport.disconnect(), sys.exit(): the interpreter
   ends, and the other threads, daemons all, with it. *)
StopExit ==
    /\ At("drain")
    /\ main' = "exited"
    /\ stopped' = TRUE
    /\ UNCHANGED <<running, capture, obs, locked, windows, flusher, flushHand, stack,
                   seen, transportVars>>

Stop == StopClear \/ StopHoppers \/ StopAcquire \/ StopBuild \/ StopPublish \/ StopExit

(* The transport hands on or loses a window it has accepted. *)
TransportStep ==
    /\ \E w \in WindowIds : Transport!Deliver(w) \/ Transport!Lose(w)
    /\ UNCHANGED agentVars

-----------------------------------------------------------------------------
Next ==
    \/ \E c \in Captures, p \in Packets, m \in Macs : HandlePacket(c, p, m)
    \/ FlusherTest \/ FlusherBuild \/ FlusherPublish
    \/ \E c \in Captures : StartRadio(c)
    \/ StartFlusher \/ CallStop \/ CtrlC
    \/ Stop
    \/ TransportStep

Spec == Init /\ [][Next]_vars

(* The main thread is scheduled, and the transport's calls return. *)
FairSpec == Spec /\ WF_vars(Stop)

-----------------------------------------------------------------------------
(* The variables hold what the code can put into them, and a window never
   has more devices than its cap. *)
TypeOK ==
    /\ running \in BOOLEAN
    /\ capture \in [Captures -> {"none", "sniffing", "done"}]
    /\ obs \in [Macs -> SUBSET Packets] /\ Cardinality(Known) <= MaxObs
    /\ locked \in BOOLEAN
    /\ windows \in Seq(SUBSET Packets) /\ Len(windows) <= MaxWindows
    /\ flusher \in {"none", "while", "sleep", "publish", "done"}
    /\ flushHand \in 0..MaxWindows
    /\ main \in {"starting", "looping", "exited"}
    /\ stack \in Seq([at : {"clear", "hoppers", "acquire", "build", "publish", "drain"},
                      hand : 0..MaxWindows])
    /\ pending \cup gone \subseteq WindowIds
    /\ delivered \in Seq(WindowIds)
    /\ handled \in SUBSET Packets /\ turnedAway \in SUBSET Packets /\ late \in SUBSET Packets
    /\ stopped \in BOOLEAN

(* Every observation is counted once: each packet that was handled is in one
   device's entry or in one window, or was turned away at the cap, and
   every window is published once or in one hand. *)
CountedOnce ==
    /\ handled = InObs \cup InWindows \cup turnedAway
    /\ turnedAway \cap (InObs \cup InWindows) = {}
    /\ \A m, n \in Macs : m # n => obs[m] \cap obs[n] = {}
    /\ \A v, w \in DOMAIN windows : v # w => windows[v] \cap windows[w] = {}
    /\ \A w \in DOMAIN windows : windows[w] \cap InObs = {}
    /\ DOMAIN windows = Published \cup Hands
    /\ Published \cap Hands = {}
    /\ \A i \in Calls : stack[i].hand # 0 =>
           stack[i].hand \notin {flushHand} \cup {stack[j].hand : j \in Calls \ {i}}

(* The cap holds, and no packet or window is dropped or counted twice. *)
AgentInv == TypeOK /\ CountedOnce

(* "Flush remaining data": when stop() ends the process, the observations
   that never reached the transport are those of late packets, of which each
   radio adds one at most, since sniff() asks its stop_filter after every
   packet; and those the flush loop, or a stop() that a second signal
   interrupted, had taken and not published yet. *)
ExitLosesLittle ==
    /\ Cardinality(late) <= Cardinality(Captures)
    /\ main = "exited" /\ stopped =>
          /\ InObs \subseteq late
          /\ DOMAIN windows \ Published
                 \subseteq {flushHand} \cup {stack[i].hand : i \in Calls \ {Len(stack)}}

(* "Gracefully stop the capture agent": once a signal has called it, stop()
   comes to its end, unless another signal interrupts it: the second stop()
   waits for ever when the first holds _obs_lock. *)
StopReturns == (stack # <<>>) ~> (main = "exited" \/ Len(stack) > 1)
=============================================================================
