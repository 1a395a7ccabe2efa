---------------------------- MODULE FrameBuffer ----------------------------
(***************************************************************************)
(* The bounded frame buffer of the sensor pipeline                         *)
(* (src/src/pipeline/buffer.py, class FrameBuffer).                        *)
(*                                                                         *)
(* Threads that share one buffer: any thread may add(); Users call         *)
(* flush(); the Controller calls start() and stop(); each start() may      *)
(* spawn one of Timers, which runs _flush_loop().  The body of each "with  *)
(* self._lock" is one step, and so is every access to _stop_event.  The    *)
(* callback on_flush runs outside of the lock; a buffer without one would  *)
(* only hand its frames to the caller of flush() and is not modelled.      *)
(*                                                                         *)
(* A frame is the number of the add() that brought it, so that "older" is  *)
(* "<".  Bounds: MaxFrames calls of add(), one spawn per member of Timers. *)
(***************************************************************************)
EXTENDS Integers, Sequences, FiniteSets

CONSTANTS
    MaxSize,        \* max_size
    MaxFrames,      \* bound: how many frames are added
    Users,          \* threads that call flush()
    Timers,         \* threads named "frame-buffer-flush", in any order
    Controller,     \* the thread that calls start() and stop()
    NoTimer

ASSUME MaxSizeAssumption == MaxSize \in Nat \ {0}
ASSUME MaxFramesAssumption == MaxFrames \in Nat
ASSUME FlusherAssumption ==
    /\ Users \cap Timers = {}
    /\ Controller \notin Users \cup Timers
    /\ NoTimer \notin Timers

VARIABLES
    buffer,         \* _buffer
    added,          \* how many frames were added
    dropCount,      \* _drop_count
    stopEvent,      \* _stop_event
    handle,         \* _flush_thread
    pc,             \* where a thread is
    batch,          \* the frames it took from the buffer
    delivered,      \* frames on_flush accepted, in that order
    lost,           \* frames on_flush raised for
    dropped,        \* frames pushed out by newer ones
    started,        \* history: start() returned after the last stop()
    stopMark,       \* history: the frames added when stop() was last called
    timedOut,       \* history: a join(timeout=5.0) gave up
    userFlushed     \* history: a user has called flush()

frameVars == <<buffer, added, dropCount, batch, delivered, lost, dropped>>
histVars == <<started, stopMark, timedOut, userFlushed>>
threadVars == <<stopEvent, handle, pc, histVars>>
vars == <<frameVars, threadVars>>

Flushers == Users \cup Timers \cup {Controller}
Frames == 1..MaxFrames

ElementsOf(s) == {s[i] : i \in DOMAIN s}
InBuffer == ElementsOf(buffer)
InBatch == UNION {ElementsOf(batch[t]) : t \in Flushers}

Alive(t) == t \in Timers /\ pc[t] \notin {"unused", "exited"}

Init ==
    /\ buffer = <<>>
    /\ added = 0
    /\ dropCount = 0
    /\ stopEvent = FALSE
    /\ handle = NoTimer
    /\ pc = [t \in Flushers |-> IF t \in Timers THEN "unused" ELSE "idle"]
    /\ batch = [t \in Flushers |-> <<>>]
    /\ delivered = <<>>
    /\ lost = {}
    /\ dropped = {}
    /\ started = FALSE
    /\ stopMark = 0
    /\ timedOut = FALSE
    /\ userFlushed = FALSE

-----------------------------------------------------------------------------
Full == Len(buffer) >= MaxSize

(* deque(maxlen=max_size): the oldest frame makes room in a full buffer. *)
PushOldestOut(b) == Tail(b)

(* _drop_count *)
CountDrop(n) == n + 1

(* add() *)
Add ==
    /\ added < MaxFrames
    /\ added' = added + 1
    /\ IF Full
       THEN /\ dropCount' = CountDrop(dropCount)
            /\ dropped' = dropped \cup {Head(buffer)}
            /\ buffer' = Append(PushOldestOut(buffer), added + 1)
       ELSE /\ buffer' = Append(buffer, added + 1)
            /\ UNCHANGED <<dropCount, dropped>>
    /\ UNCHANGED <<batch, delivered, lost, threadVars>>

-----------------------------------------------------------------------------
(* flush() *)

(* Where a thread goes on after flush(): a timer waits for its next turn,
   stop() and a user's call return. *)
AfterFlush(t) == IF t \in Timers THEN "wait" ELSE "idle"

FlushAt(t) == IF t \in Users THEN "idle" ELSE "flush"

(* The frames list() copies. *)
CopyMissesLast == SubSeq(buffer, 1, Len(buffer) - 1)    \* mutant: the clear is not atomic
Copy == buffer

(* The copy and the clear, under the lock.  An empty list ends the call. *)
Snapshot(t) ==
    /\ pc[t] = FlushAt(t)
    /\ buffer' = <<>>
    /\ batch' = [batch EXCEPT ![t] = Copy]
    /\ pc' = [pc EXCEPT ![t] = IF buffer = <<>> THEN AfterFlush(t) ELSE "callback"]
    /\ userFlushed' = (userFlushed \/ t \in Users)
    /\ UNCHANGED <<added, dropCount, delivered, lost, dropped, stopEvent, handle,
                   started, stopMark, timedOut>>

(* on_flush returns, or raises: the exception is logged and that is all. *)
CallbackReturns(t) ==
    /\ pc[t] = "callback"
    /\ delivered' = delivered \o batch[t]
    /\ batch' = [batch EXCEPT ![t] = <<>>]
    /\ pc' = [pc EXCEPT ![t] = AfterFlush(t)]
    /\ UNCHANGED <<buffer, added, dropCount, lost, dropped, stopEvent, handle, histVars>>

CallbackRaises(t) ==
    /\ pc[t] = "callback"
    /\ lost' = lost \cup ElementsOf(batch[t])
    /\ batch' = [batch EXCEPT ![t] = <<>>]
    /\ pc' = [pc EXCEPT ![t] = AfterFlush(t)]
    /\ UNCHANGED <<buffer, added, dropCount, delivered, dropped, stopEvent, handle, histVars>>

Callback(t) == CallbackReturns(t) \/ CallbackRaises(t)

-----------------------------------------------------------------------------
(* _flush_loop() *)

(* _stop_event.wait(timeout=interval) *)
TimerWait(t) ==
    /\ pc[t] = "wait"
    /\ pc' = [pc EXCEPT ![t] = IF stopEvent THEN "exited" ELSE "peek"]
    /\ UNCHANGED <<frameVars, stopEvent, handle, histVars>>

(* if self._buffer, read without the lock *)
WorthAFlushWhenFull == Full                         \* mutant
WorthAFlush == buffer # <<>>

TimerPeek(t) ==
    /\ pc[t] = "peek"
    /\ pc' = [pc EXCEPT ![t] = IF WorthAFlush THEN "flush" ELSE "wait"]
    /\ UNCHANGED <<frameVars, stopEvent, handle, histVars>>

Timer(t) == TimerWait(t) \/ TimerPeek(t) \/ (t \in Timers /\ Snapshot(t))

-----------------------------------------------------------------------------
(* start() and stop() *)

AlreadyRunning == Alive(handle)

Cleared == FALSE

(* A live thread is left alone; otherwise the flag is cleared and a thread
   is spawned.  No thread reads the flag in between: the last one is dead. *)
Start ==
    /\ pc[Controller] = "idle"
    /\ started' = TRUE
    /\ \/ /\ AlreadyRunning
          /\ UNCHANGED <<stopEvent, handle, pc>>
       \/ /\ ~AlreadyRunning
          /\ stopEvent' = Cleared
          /\ \E t \in Timers :
                /\ pc[t] = "unused"
                /\ handle' = t
                /\ pc' = [pc EXCEPT ![t] = "wait"]
    /\ UNCHANGED <<frameVars, stopMark, timedOut, userFlushed>>

StopSet ==
    /\ pc[Controller] = "idle"
    /\ stopEvent' = TRUE
    /\ started' = FALSE
    /\ stopMark' = added
    /\ pc' = [pc EXCEPT ![Controller] = IF handle = NoTimer THEN "flush" ELSE "join"]
    /\ UNCHANGED <<frameVars, handle, timedOut, userFlushed>>

NoNeedToJoin == TRUE                                \* mutant
Joined == ~Alive(handle)

StopJoined ==
    /\ pc[Controller] = "join"
    /\ Joined
    /\ pc' = [pc EXCEPT ![Controller] = "flush"]
    /\ UNCHANGED <<frameVars, stopEvent, handle, histVars>>

(* The callback of the thread outlasts join(timeout=5.0). *)
StopJoinTimeout ==
    /\ pc[Controller] = "join"
    /\ Alive(handle)
    /\ pc' = [pc EXCEPT ![Controller] = "flush"]
    /\ timedOut' = TRUE
    /\ UNCHANGED <<frameVars, stopEvent, handle, started, stopMark, userFlushed>>

(* The final flush() of stop(). *)
StopFlush == Snapshot(Controller)

Stop == StopJoined \/ StopJoinTimeout \/ StopFlush

-----------------------------------------------------------------------------
Next ==
    \/ Add
    \/ \E u \in Users : Snapshot(u)
    \/ \E t \in Flushers : Callback(t)
    \/ \E t \in Timers : Timer(t)
    \/ Start
    \/ StopSet
    \/ Stop

Spec == Init /\ [][Next]_vars

(* The threads are scheduled, and the last callback of stop() comes back;
   the callback of a timer may hang. *)
FairSpec ==
    /\ Spec
    /\ WF_vars(Stop)
    /\ WF_vars(Callback(Controller))
    /\ \A t \in Timers : WF_vars(Timer(t))

-----------------------------------------------------------------------------
(* The variables hold what the code can put into them. *)
TypeOK ==
    /\ buffer \in Seq(Frames) /\ Len(buffer) <= MaxSize
    /\ added \in 0..MaxFrames
    /\ dropCount \in Nat
    /\ stopEvent \in BOOLEAN
    /\ handle \in Timers \cup {NoTimer}
    /\ pc \in [Flushers -> {"unused", "wait", "peek", "flush", "callback", "exited",
                            "idle", "join"}]
    /\ batch \in [Flushers -> Seq(Frames)]
    /\ delivered \in Seq(Frames)
    /\ lost \in SUBSET Frames
    /\ dropped \in SUBSET Frames
    /\ started \in BOOLEAN
    /\ stopMark \in 0..MaxFrames
    /\ timedOut \in BOOLEAN /\ userFlushed \in BOOLEAN

Increasing(s) == \A i, j \in DOMAIN s : i < j => s[i] < s[j]

NoRepeats(s) == \A i, j \in DOMAIN s : s[i] = s[j] => i = j

(* No frame is lost track of: every frame that was added is in exactly one
   of the buffer, a batch, the callback's record, the frames a callback
   raised for and the frames pushed out, and in the buffer only once. *)
FramesConserved ==
    /\ 1..added = InBuffer \cup InBatch \cup ElementsOf(delivered) \cup lost \cup dropped
    /\ NoRepeats(delivered)
    /\ \A t, u \in Flushers : t # u => ElementsOf(batch[t]) \cap ElementsOf(batch[u]) = {}
    /\ InBuffer \cap (InBatch \cup ElementsOf(delivered) \cup lost \cup dropped) = {}
    /\ InBatch \cap (ElementsOf(delivered) \cup lost \cup dropped) = {}
    /\ ElementsOf(delivered) \cap (lost \cup dropped) = {}
    /\ lost \cap dropped = {}

(* "Drops oldest frames under pressure": the buffer holds the newest frames,
   in order and without a gap, what has left it is older than all of it, and
   drop_count is the number of frames that were pushed out. *)
BufferHoldsNewest ==
    /\ \A i \in DOMAIN buffer : buffer[i] = added - Len(buffer) + i
    /\ dropCount = Cardinality(dropped)

(* As long as only the timer and stop() flush, frames reach the callback in
   the order they were added, unless a join gave up: the final flush of stop()
   and the first one of the next start() wait for the last of the timer. *)
DeliveredInOrder == ~timedOut /\ ~userFlushed => Increasing(delivered)

StopReturned == pc[Controller] = "idle" /\ ~started /\ stopEvent

(* stop() "stops the flush timer and does a final flush": once it is back
   no timer runs, and what was added before the call has left the buffer
   and the hands of stop() and of the timers. *)
StopQuiesces ==
    StopReturned /\ ~timedOut =>
        /\ \A t \in Timers : ~Alive(t)
        /\ \A f \in InBuffer \cup UNION {ElementsOf(batch[t]) : t \in Timers \cup {Controller}} :
                f > stopMark

(* "Start the automatic flush timer thread": after start() the timer runs,
   with its flag clear, unless an earlier stop() gave up waiting for the
   previous one, which start() then takes for a running timer. *)
StartStarts == started /\ ~timedOut => Alive(handle) /\ ~stopEvent

(* At most one timer runs at a time, whatever gave up. *)
OneTimer == \A t, u \in Timers : Alive(t) /\ Alive(u) => t = u

(* What is in the buffer and around it, and who works on it: no frame is
   lost track of, the newest are kept, and start() starts the one timer. *)
BufferInv ==
    TypeOK /\ FramesConserved /\ BufferHoldsNewest /\ StartStarts /\ OneTimer

CallbacksReturn == \A t \in Timers : WF_vars(Callback(t))

(* While the buffer is started and its callback does not hang, no frame
   stays in it for ever. *)
FlushedInTime ==
    CallbacksReturn =>
        \A f \in Frames :
            (f \in InBuffer /\ started /\ ~timedOut)
                ~> (f \notin InBuffer \/ ~started \/ timedOut)
=============================================================================
