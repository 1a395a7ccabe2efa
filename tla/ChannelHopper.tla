--------------------------- MODULE ChannelHopper ---------------------------
(***************************************************************************)
(* The thread that tunes one radio through a list of WiFi channels         *)
(* (src/pineapple/channel_hopper.py, class ChannelHopper).                 *)
(*                                                                         *)
(* One thread, the agent, calls start() and stop(); each start() may spawn *)
(* one of Threads, which runs _hop_loop().  "iw" is a process of its own:  *)
(* it tunes the radio at some point of the subprocess.run() call, or not   *)
(* at all, and may take up to 5 seconds before it is killed, while stop()  *)
(* waits for max(2 * dwell, 2) seconds.  Bound: one spawn per member of    *)
(* Threads.                                                                *)
(***************************************************************************)
EXTENDS Integers, Sequences

CONSTANTS
    Channels,       \* _channels, a sequence of channel numbers
    Threads,        \* the threads named "channel-hopper-<interface>"
    NoThread,       \* None
    NoChannel       \* no channel tuned yet, or none in the making

ASSUME ChannelsAssumption == Channels \in Seq(Int) /\ Channels # <<>>
ASSUME SentinelAssumption ==
    NoThread \notin Threads /\ \A i \in DOMAIN Channels : Channels[i] # NoChannel

VARIABLES
    stopEvent,      \* _stop_event
    handle,         \* _thread
    agent,          \* where the agent is in stop()
    pc,             \* where a hop loop is
    idx,            \* its idx
    current,        \* _current_channel
    radio,          \* the channel the radio is on
    abandoned,      \* history: the loops whose join stop() gave up
    undisputed      \* history: the loop that tuned the radio last was the
                    \* only one, and its iw was not killed

hopperHistory == <<abandoned, undisputed>>
hopperVars == <<stopEvent, handle, agent, pc, idx, current, radio, hopperHistory>>

Alive(t) == pc[t] \notin {"unused", "exited"}
Hop(t) == Channels[idx[t]]

(* __init__; a list index is one less than the index of a sequence. *)
HopperInit ==
    /\ stopEvent = FALSE
    /\ handle = NoThread
    /\ agent = "idle"
    /\ pc = [t \in Threads |-> "unused"]
    /\ idx = [t \in Threads |-> 1]
    /\ current = Channels[1]
    /\ radio = NoChannel
    /\ abandoned = {}
    /\ undisputed = TRUE

-----------------------------------------------------------------------------
SpawnAnyway == FALSE                                \* mutant
AlreadyRunning == handle # NoThread /\ Alive(handle)

(* start(): the flag is cleared and a thread spawned, unless the one that
   _thread names is alive. *)
Start ==
    /\ agent = "idle"
    /\ ~AlreadyRunning
    /\ stopEvent' = FALSE
    /\ \E t \in Threads :
          /\ pc[t] = "unused"
          /\ handle' = t
          /\ pc' = [pc EXCEPT ![t] = "while"]
    /\ UNCHANGED <<agent, idx, current, radio, hopperHistory>>

StopSet ==
    /\ agent = "idle"
    /\ stopEvent' = TRUE
    /\ agent' = IF handle = NoThread THEN "idle" ELSE "join"
    /\ UNCHANGED <<handle, pc, idx, current, radio, hopperHistory>>

(* join() returns, or gives up, and _thread = None. *)
StopJoined ==
    /\ agent = "join"
    /\ ~Alive(handle)
    /\ handle' = NoThread
    /\ agent' = "idle"
    /\ UNCHANGED <<stopEvent, pc, idx, current, radio, hopperHistory>>

StopJoinTimeout ==
    /\ agent = "join"
    /\ Alive(handle)
    /\ handle' = NoThread
    /\ agent' = "idle"
    /\ abandoned' = abandoned \cup {handle}
    /\ UNCHANGED <<stopEvent, pc, idx, current, radio, undisputed>>

-----------------------------------------------------------------------------
(* _hop_loop(): while not _stop_event.is_set() *)
LoopForever == "iw"                                 \* mutant
LoopUnlessStopped == IF stopEvent THEN "exited" ELSE "iw"

HopTest(t) ==
    /\ pc[t] = "while"
    /\ pc' = [pc EXCEPT ![t] = LoopUnlessStopped]
    /\ UNCHANGED <<stopEvent, handle, agent, idx, current, radio, hopperHistory>>

(* _set_channel(): iw is started, and tunes the radio. *)
SetChannel(t) ==
    /\ pc[t] = "iw"
    /\ radio' = Hop(t)
    /\ undisputed' = \A u \in Threads \ {t} : ~Alive(u)
    /\ pc' = [pc EXCEPT ![t] = "tuned"]
    /\ UNCHANGED <<stopEvent, handle, agent, idx, current, abandoned>>

StuckAtEnd(i) == IF i < Len(Channels) THEN i + 1 ELSE i     \* mutant
NextIdx(i) == (i % Len(Channels)) + 1

ToNextChannel(t) ==
    /\ idx' = [idx EXCEPT ![t] = NextIdx(@)]
    /\ pc' = [pc EXCEPT ![t] = "dwell"]
    /\ UNCHANGED <<stopEvent, handle, agent, radio, abandoned>>

(* iw exits with an error, cannot be run, or is killed after 5 seconds
   without having tuned the radio. *)
SetChannelFails(t) ==
    /\ pc[t] = "iw"
    /\ ToNextChannel(t)
    /\ UNCHANGED <<current, undisputed>>

(* TimeoutExpired: iw is killed when the radio is on the new channel. *)
KilledTooLate(t) ==
    /\ pc[t] = "tuned"
    /\ undisputed' = FALSE
    /\ ToNextChannel(t)
    /\ UNCHANGED current

(* iw has ended well: _current_channel = channel, under the lock. *)
Record(t) ==
    /\ pc[t] = "tuned"
    /\ current' = Hop(t)
    /\ ToNextChannel(t)
    /\ UNCHANGED undisputed

(* _stop_event.wait(timeout=dwell): its result is not looked at. *)
Dwell(t) ==
    /\ pc[t] = "dwell"
    /\ pc' = [pc EXCEPT ![t] = "while"]
    /\ UNCHANGED <<stopEvent, handle, agent, idx, current, radio, hopperHistory>>

HopLoop(t) ==
    \/ HopTest(t) \/ Dwell(t)
    \/ SetChannel(t) \/ SetChannelFails(t) \/ KilledTooLate(t) \/ Record(t)

-----------------------------------------------------------------------------
HopperNext ==
    \/ Start
    \/ StopSet
    \/ StopJoined \/ StopJoinTimeout
    \/ \E t \in Threads : HopLoop(t)

HopperSpec == HopperInit /\ [][HopperNext]_hopperVars

(* The threads are scheduled, and a call of iw ends after 5 seconds at the
   latest. *)
FairHopperSpec ==
    /\ HopperSpec
    /\ WF_hopperVars(StopJoined \/ StopJoinTimeout)
    /\ \A t \in Threads : WF_hopperVars(HopLoop(t))

-----------------------------------------------------------------------------
(* The variables hold what the code can put into them. *)
HopperTypeOK ==
    /\ stopEvent \in BOOLEAN
    /\ handle \in Threads \cup {NoThread}
    /\ agent \in {"idle", "join"}
    /\ pc \in [Threads -> {"unused", "while", "iw", "tuned", "dwell", "exited"}]
    /\ idx \in [Threads -> DOMAIN Channels]
    /\ current \in {Channels[i] : i \in DOMAIN Channels}
    /\ radio \in {Channels[i] : i \in DOMAIN Channels} \cup {NoChannel}
    /\ abandoned \subseteq Threads /\ undisputed \in BOOLEAN

(* stop() "wait[s] for it to finish", and gives up before iw does: whatever
   start() clears and spawns after that, a loop that hops the radio is the
   one _thread names, or one that a stop() has given up on. *)
LoopsAccounted == \A t \in Threads : Alive(t) => t = handle \/ t \in abandoned

(* current_channel() is the channel the radio is on, but for the moment
   between iw and the loop's record of it.  It is wrong after an iw that was
   killed too late, and while two loops tune the radio, but no longer than
   that: the next hop of a loop that is alone puts it right.  Before the
   first hop it is the first channel of the list. *)
ReportedIsTuned ==
    undisputed /\ (\A t \in Threads : pc[t] # "tuned") =>
        current = IF radio = NoChannel THEN Channels[1] ELSE radio

(* No loop but those that stop() lost, and no wrong channel for longer. *)
HopperInv == HopperTypeOK /\ LoopsAccounted /\ ReportedIsTuned

(* A thread that stop() has given up on ends on its own, unless start()
   clears the flag it has yet to see. *)
StoppedEnds ==
    \A t \in Threads : (Alive(t) /\ stopEvent) ~> (~Alive(t) \/ ~stopEvent)

(* A running loop tries every channel of the list again and again. *)
AllChannelsVisited ==
    \A t \in Threads : \A i \in DOMAIN Channels :
        (Alive(t) /\ ~stopEvent) ~> ((pc[t] = "iw" /\ idx[t] = i) \/ stopEvent)
=============================================================================
