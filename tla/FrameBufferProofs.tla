-------------------------- MODULE FrameBufferProofs --------------------------
(***************************************************************************)
(* Theorems about FrameBuffer, for every size of the buffer, every number  *)
(* of frames and any sets of users and timers: BufferInv, DeliveredInOrder *)
(* and StopQuiesces.                                                       *)
(*                                                                         *)
(* The inductive invariant IInv has two halves.  FramesInv is about the    *)
(* frames: those that have left the buffer are the first Departed ones,    *)
(* each in one place.  ThreadsInv is about who may be at work: what the    *)
(* flag, the handle and the two halves of stop() say of the timers.        *)
(***************************************************************************)
EXTENDS FrameBuffer, FiniteSetTheorems, TLAPS

(* How many frames have left the buffer. *)
Departed == added - Len(buffer)

Outside == InBatch \cup ElementsOf(delivered) \cup lost \cup dropped

FramesInv ==
    /\ \A i \in DOMAIN buffer : buffer[i] = Departed + i
    /\ Departed \in Nat
    /\ Outside = 1..Departed
    /\ NoRepeats(delivered)
    /\ \A t, u \in Flushers : t # u => ElementsOf(batch[t]) \cap ElementsOf(batch[u]) = {}
    /\ InBatch \cap (ElementsOf(delivered) \cup lost \cup dropped) = {}
    /\ ElementsOf(delivered) \cap (lost \cup dropped) = {}
    /\ lost \cap dropped = {}
    /\ dropCount = Cardinality(dropped)
    /\ \A t \in Flushers : Increasing(batch[t]) /\ (pc[t] # "callback" => batch[t] = <<>>)

(* Where each kind of thread can be. *)
Roles ==
    /\ \A u \in Users : pc[u] \in {"idle", "callback"}
    /\ \A t \in Timers : pc[t] \in {"unused", "wait", "peek", "flush", "callback", "exited"}
    /\ pc[Controller] \in {"idle", "join", "flush", "callback"}

(* The one timer that may be alive is the one in the handle.  Outside of
   the join of stop(), a flag that is set means that it is dead. *)
TimersOK ==
    /\ \A t \in Timers : Alive(t) => t = handle
    /\ pc[Controller] # "idle" => stopEvent /\ ~started
    /\ started /\ ~timedOut => Alive(handle) /\ ~stopEvent
    /\ ~timedOut /\ stopEvent /\ pc[Controller] # "join" => ~Alive(handle)

(* After the final flush of stop() only newer frames are in the buffer. *)
FlushedAtStop ==
    /\ stopMark <= added
    /\ ~timedOut /\ stopEvent /\ ~started /\ pc[Controller] \in {"callback", "idle"}
          => \A f \in InBuffer : f > stopMark

(* Without users, what is in a batch is newer than what was delivered. *)
OrderKept ==
    /\ ~userFlushed => \A u \in Users : pc[u] = "idle"
    /\ ~timedOut /\ ~userFlushed =>
          Increasing(delivered) /\ \A f \in ElementsOf(delivered), g \in InBatch : f < g

ThreadsInv == Roles /\ TimersOK /\ FlushedAtStop

IInv == TypeOK /\ FramesInv /\ ThreadsInv /\ OrderKept

-----------------------------------------------------------------------------
(* Facts about sequences of frames. *)

LEMMA FramesAreNumbers == Frames \subseteq Nat \ {0}
  BY MaxFramesAssumption DEF Frames

LEMMA AppendFacts ==
    ASSUME NEW s \in Seq(Frames), NEW f \in Frames
    PROVE  /\ Append(s, f) \in Seq(Frames)
           /\ Len(Append(s, f)) = Len(s) + 1 /\ Len(s) \in Nat
           /\ DOMAIN s = 1..Len(s) /\ DOMAIN Append(s, f) = 1..(Len(s) + 1)
           /\ \A i \in 1..Len(s) : Append(s, f)[i] = s[i]
           /\ Append(s, f)[Len(s) + 1] = f
  OBVIOUS

LEMMA TailFacts ==
    ASSUME NEW s \in Seq(Frames), s # <<>>
    PROVE  /\ Head(s) = s[1] /\ Head(s) \in Frames
           /\ Tail(s) \in Seq(Frames)
           /\ Len(s) \in Nat /\ Len(s) >= 1 /\ Len(Tail(s)) = Len(s) - 1
           /\ DOMAIN s = 1..Len(s) /\ DOMAIN Tail(s) = 1..(Len(s) - 1)
           /\ \A i \in 1..(Len(s) - 1) : Tail(s)[i] = s[i + 1]
  OBVIOUS

LEMMA ConcatFacts ==
    ASSUME NEW s \in Seq(Frames), NEW t \in Seq(Frames)
    PROVE  /\ s \o t \in Seq(Frames)
           /\ ElementsOf(s \o t) = ElementsOf(s) \cup ElementsOf(t)
           /\ NoRepeats(s) /\ NoRepeats(t) /\ ElementsOf(s) \cap ElementsOf(t) = {}
                 => NoRepeats(s \o t)
           /\ Increasing(s) /\ Increasing(t)
              /\ (\A f \in ElementsOf(s), g \in ElementsOf(t) : f < g)
                 => Increasing(s \o t)
  <1> DEFINE c == s \o t
  <1>1. /\ c \in Seq(Frames)
        /\ Len(s) \in Nat /\ Len(t) \in Nat /\ Len(c) = Len(s) + Len(t)
        /\ DOMAIN s = 1..Len(s) /\ DOMAIN t = 1..Len(t) /\ DOMAIN c = 1..(Len(s) + Len(t))
        /\ \A i \in 1..Len(s) : c[i] = s[i]
        /\ \A i \in 1..Len(t) : c[Len(s) + i] = t[i]
    OBVIOUS
  <1> HIDE DEF c
  <1>2. \A i \in DOMAIN c : \/ i \in DOMAIN s /\ c[i] = s[i]
                            \/ i - Len(s) \in DOMAIN t /\ c[i] = t[i - Len(s)] /\ i > Len(s)
    <2>1. ASSUME NEW i \in DOMAIN c, i \notin DOMAIN s
          PROVE  i - Len(s) \in DOMAIN t /\ c[i] = t[i - Len(s)] /\ i > Len(s)
      <3>1. i - Len(s) \in 1..Len(t) /\ i > Len(s) /\ Len(s) + (i - Len(s)) = i
        BY <1>1, <2>1
      <3> QED
        BY <1>1, <3>1
    <2> QED
      BY <1>1, <2>1
  <1>3. ElementsOf(c) = ElementsOf(s) \cup ElementsOf(t)
    <2>1. ElementsOf(c) \subseteq ElementsOf(s) \cup ElementsOf(t)
      BY <1>2 DEF ElementsOf
    <2>2. ElementsOf(s) \subseteq ElementsOf(c)
      BY <1>1 DEF ElementsOf
    <2>3. ASSUME NEW i \in DOMAIN t
          PROVE  t[i] \in ElementsOf(c)
      <3>1. Len(s) + i \in DOMAIN c /\ c[Len(s) + i] = t[i]
        BY <1>1, <2>3
      <3> QED
        BY <3>1 DEF ElementsOf
    <2> QED
      BY <2>1, <2>2, <2>3 DEF ElementsOf
  <1>4. ASSUME NoRepeats(s), NoRepeats(t), ElementsOf(s) \cap ElementsOf(t) = {}
        PROVE  NoRepeats(c)
    <2>1. ASSUME NEW i \in DOMAIN c, NEW j \in DOMAIN c, c[i] = c[j]
          PROVE  i = j
      <3>1. CASE i \in DOMAIN s /\ j \in DOMAIN s
        BY <1>1, <1>4, <2>1, <3>1 DEF NoRepeats
      <3>2. CASE i \notin DOMAIN s /\ j \notin DOMAIN s
        <4>1. i - Len(s) = j - Len(s)
          BY <1>2, <1>4, <2>1, <3>2 DEF NoRepeats
        <4> QED
          BY <1>1, <4>1
      <3>3. CASE i \in DOMAIN s /\ j \notin DOMAIN s
        BY <1>2, <1>4, <2>1, <3>3 DEF ElementsOf
      <3>4. CASE i \notin DOMAIN s /\ j \in DOMAIN s
        BY <1>2, <1>4, <2>1, <3>4 DEF ElementsOf
      <3> QED
        BY <3>1, <3>2, <3>3, <3>4
    <2> QED
      BY <2>1 DEF NoRepeats
  <1>5. ASSUME Increasing(s), Increasing(t),
               \A f \in ElementsOf(s), g \in ElementsOf(t) : f < g
        PROVE  Increasing(c)
    <2>1. ASSUME NEW i \in DOMAIN c, NEW j \in DOMAIN c, i < j
          PROVE  c[i] < c[j]
      <3>1. CASE j \in DOMAIN s
        <4>1. i \in DOMAIN s
          BY <1>1, <2>1, <3>1
        <4> QED
          BY <1>1, <1>5, <2>1, <3>1, <4>1 DEF Increasing
      <3>2. CASE i \notin DOMAIN s
        <4>1. j \notin DOMAIN s /\ i - Len(s) < j - Len(s)
          BY <1>1, <2>1, <3>2
        <4> QED
          BY <1>2, <1>5, <3>2, <4>1 DEF Increasing
      <3>3. CASE i \in DOMAIN s /\ j \notin DOMAIN s
        BY <1>1, <1>2, <1>5, <3>3 DEF ElementsOf
      <3> QED
        BY <3>1, <3>2, <3>3
    <2> QED
      BY <2>1 DEF Increasing
  <1> QED
    BY <1>1, <1>3, <1>4, <1>5 DEF c

(* The buffer holds the frames after the Departed first ones, in order. *)
LEMMA BufferFacts ==
    ASSUME TypeOK, FramesInv
    PROVE  /\ InBuffer = (Departed + 1)..added
           /\ Increasing(buffer)
           /\ added = Departed + Len(buffer)
           /\ Len(buffer) \in Nat /\ DOMAIN buffer = 1..Len(buffer)
  <1>1. /\ Len(buffer) \in Nat /\ DOMAIN buffer = 1..Len(buffer)
        /\ added \in Nat /\ Departed \in Nat
        /\ added = Departed + Len(buffer)
        /\ \A i \in DOMAIN buffer : buffer[i] = Departed + i
    BY MaxFramesAssumption DEF TypeOK, FramesInv, Departed
  <1>2. ASSUME NEW f \in (Departed + 1)..added
        PROVE  f \in InBuffer
    <2>1. f - Departed \in DOMAIN buffer /\ buffer[f - Departed] = f
      BY <1>1, <1>2
    <2> QED
      BY <2>1 DEF InBuffer, ElementsOf
  <1>3. InBuffer \subseteq (Departed + 1)..added
    BY <1>1 DEF InBuffer, ElementsOf
  <1>4. InBuffer = (Departed + 1)..added
    BY <1>2, <1>3
  <1>5. Increasing(buffer)
    BY <1>1 DEF Increasing
  <1> QED
    BY <1>1, <1>4, <1>5

LEMMA IncreasingIsUnique ==
    ASSUME NEW s \in Seq(Frames), Increasing(s)
    PROVE  NoRepeats(s)
  <1>1. DOMAIN s = 1..Len(s) /\ Len(s) \in Nat /\ \A i \in DOMAIN s : s[i] \in Frames
    OBVIOUS
  <1>2. \A i \in DOMAIN s : s[i] \in Nat
    BY <1>1, FramesAreNumbers
  <1> QED
    BY <1>1, <1>2 DEF Increasing, NoRepeats

-----------------------------------------------------------------------------
(* Types. *)

LEMMA TypeStep == TypeOK /\ [Next]_vars => TypeOK'
  <1> SUFFICES ASSUME TypeOK, [Next]_vars
               PROVE  TypeOK'
    OBVIOUS
  <1> USE DEF TypeOK, frameVars, histVars, threadVars
  <1>1. CASE Add
    <2>1. added + 1 \in Frames /\ added' \in 0..MaxFrames
      BY <1>1, MaxFramesAssumption DEF Add, Frames
    <2>2. CASE Full
      <3>1. buffer # <<>> /\ Len(buffer) = MaxSize
        BY <2>2, MaxSizeAssumption DEF Full
      <3>2. /\ Head(buffer) \in Frames /\ Tail(buffer) \in Seq(Frames)
            /\ Len(Tail(buffer)) = Len(buffer) - 1 /\ Len(buffer) \in Nat
        BY <3>1, TailFacts
      <3>3. buffer' = Append(Tail(buffer), added + 1) /\ dropCount' = dropCount + 1
            /\ dropped' = dropped \cup {Head(buffer)}
        BY <1>1, <2>2 DEF Add, PushOldestOut, CountDrop
      <3>4. buffer' \in Seq(Frames) /\ Len(buffer') = Len(buffer)
        BY <2>1, <3>2, <3>3, AppendFacts
      <3>5. Len(buffer') <= MaxSize /\ dropCount' \in Nat /\ dropped' \in SUBSET Frames
        BY <3>2, <3>3, <3>4
      <3>6. UNCHANGED <<batch, delivered, lost, stopEvent, handle, pc, started, stopMark,
                        timedOut, userFlushed>>
        BY <1>1 DEF Add
      <3> QED
        BY <2>1, <3>4, <3>5, <3>6
    <2>3. CASE ~Full
      <3>1. buffer' = Append(buffer, added + 1) /\ UNCHANGED <<dropCount, dropped>>
        BY <1>1, <2>3 DEF Add
      <3>2. buffer' \in Seq(Frames) /\ Len(buffer') = Len(buffer) + 1 /\ Len(buffer) \in Nat
        BY <2>1, <3>1, AppendFacts
      <3>3. Len(buffer') <= MaxSize
        BY <2>3, <3>2, MaxSizeAssumption DEF Full
      <3> QED
        BY <1>1, <2>1, <3>1, <3>2, <3>3 DEF Add
    <2> QED
      BY <2>2, <2>3
  <1>2. ASSUME NEW t \in Flushers, Snapshot(t)
        PROVE  TypeOK'
    <2>1. buffer' \in Seq(Frames) /\ Len(buffer') <= MaxSize
      BY <1>2, MaxSizeAssumption DEF Snapshot
    <2>2. batch' \in [Flushers -> Seq(Frames)]
      BY <1>2 DEF Snapshot, Copy
    <2>3. pc' \in [Flushers -> {"unused", "wait", "peek", "flush", "callback", "exited",
                                "idle", "join"}]
      BY <1>2 DEF Snapshot, AfterFlush
    <2>4. userFlushed' \in BOOLEAN
      BY <1>2 DEF Snapshot
    <2> QED
      BY <1>2, <2>1, <2>2, <2>3, <2>4 DEF Snapshot
  <1>3. ASSUME NEW t \in Flushers, CallbackReturns(t)
        PROVE  TypeOK'
    <2>1. delivered' \in Seq(Frames)
      BY <1>3, ConcatFacts DEF CallbackReturns
    <2> QED
      BY <1>3, <2>1 DEF CallbackReturns, AfterFlush
  <1>4. ASSUME NEW t \in Flushers, CallbackRaises(t)
        PROVE  TypeOK'
    <2>1. batch[t] \in Seq(Frames)
      OBVIOUS
    <2>2. lost' \in SUBSET Frames
      BY <1>4, <2>1 DEF CallbackRaises, ElementsOf
    <2> QED
      BY <1>4, <2>2 DEF CallbackRaises, AfterFlush
  <1>5. ASSUME NEW t \in Timers, TimerWait(t) \/ TimerPeek(t)
        PROVE  TypeOK'
    BY <1>5 DEF TimerWait, TimerPeek
  <1>6. CASE Start
    BY <1>6 DEF Start, Cleared
  <1>7. CASE StopSet
    BY <1>7 DEF StopSet
  <1>8. CASE StopJoined \/ StopJoinTimeout
    BY <1>8 DEF StopJoined, StopJoinTimeout
  <1>9. CASE UNCHANGED vars
    BY <1>9 DEF vars
  <1> QED
    BY <1>1, <1>2, <1>3, <1>4, <1>5, <1>6, <1>7, <1>8, <1>9
       DEF Next, Callback, Timer, Stop, StopFlush, Flushers

-----------------------------------------------------------------------------
(* The frames. *)

(* FramesInv says the two invariants about frames, and more. *)
LEMMA FramesSound ==
    ASSUME TypeOK, FramesInv
    PROVE  FramesConserved /\ BufferHoldsNewest
  <1>1. /\ InBuffer = (Departed + 1)..added /\ added = Departed + Len(buffer)
        /\ Departed \in Nat /\ added \in Nat
    BY BufferFacts, MaxFramesAssumption DEF TypeOK, FramesInv
  <1>2. Outside = 1..Departed
    BY DEF FramesInv
  <1>3. 1..added = InBuffer \cup Outside
    BY <1>1, <1>2
  <1>4. InBuffer \cap Outside = {}
    BY <1>1, <1>2
  <1>5. FramesConserved
    BY <1>3, <1>4 DEF FramesConserved, FramesInv, Outside
  <1>6. BufferHoldsNewest
    BY DEF BufferHoldsNewest, FramesInv, Departed
  <1> QED
    BY <1>5, <1>6

LEMMA FramesStart == Init => FramesInv
  <1> SUFFICES ASSUME Init PROVE FramesInv
    OBVIOUS
  <1>1. ElementsOf(<<>>) = {} /\ Len(<<>>) = 0 /\ DOMAIN <<>> = {}
    BY DEF ElementsOf
  <1>2. NoRepeats(<<>>) /\ Increasing(<<>>)
    BY <1>1 DEF NoRepeats, Increasing
  <1>3. /\ buffer = <<>> /\ delivered = <<>> /\ lost = {} /\ dropped = {} /\ dropCount = 0
        /\ added = 0 /\ \A t \in Flushers : batch[t] = <<>>
    BY DEF Init
  <1>4. \A t \in Flushers : ElementsOf(batch[t]) = {} /\ Increasing(batch[t])
    <2> TAKE t \in Flushers
    <2>1. batch[t] = <<>>
      BY <1>3
    <2> QED
      BY <1>1, <1>2, <2>1, Zenon
  <1>5. InBatch = {} /\ ElementsOf(delivered) = {}
    <2>1. ElementsOf(delivered) = {}
      BY <1>1, <1>3
    <2>2. InBatch = {}
      BY <1>4 DEF InBatch
    <2> QED
      BY <2>1, <2>2
  <1>6. Departed = 0 /\ 1..Departed = {}
    <2>1. Len(buffer) = 0 /\ added = 0
      BY <1>1, <1>3
    <2> QED
      BY <2>1 DEF Departed
  <1>7. Outside = 1..Departed
    BY <1>3, <1>5, <1>6 DEF Outside
  <1>8. Cardinality(dropped) = 0
    BY <1>3, FS_EmptySet
  <1> QED
    BY <1>1, <1>2, <1>3, <1>4, <1>5, <1>6, <1>7, <1>8 DEF FramesInv

LEMMA AddKeepsFrames ==
    ASSUME TypeOK, FramesInv, Add
    PROVE  FramesInv'
  <1>1. /\ InBuffer = (Departed + 1)..added /\ added = Departed + Len(buffer)
        /\ Len(buffer) \in Nat /\ Departed \in Nat /\ added \in Nat
        /\ DOMAIN buffer = 1..Len(buffer)
        /\ \A i \in 1..Len(buffer) : buffer[i] = Departed + i
    BY BufferFacts, MaxFramesAssumption DEF TypeOK, FramesInv
  <1>2. added + 1 \in Frames /\ added' = added + 1
    BY <1>1, MaxFramesAssumption DEF Add, Frames
  <1>3. UNCHANGED <<batch, delivered, lost, pc>>
    BY DEF Add, threadVars
  <1>4. /\ InBatch' = InBatch /\ ElementsOf(delivered)' = ElementsOf(delivered)
        /\ NoRepeats(delivered)' /\ lost' = lost
        /\ \A t, u \in Flushers :
              t # u => ElementsOf(batch'[t]) \cap ElementsOf(batch'[u]) = {}
        /\ \A t \in Flushers : /\ Increasing(batch'[t])
                               /\ pc'[t] # "callback" => batch'[t] = <<>>
    BY <1>3 DEF FramesInv, InBatch
  <1>5. CASE Full
    <2>1. buffer # <<>>
      BY <1>5, MaxSizeAssumption DEF Full
    <2>2. /\ buffer' = Append(Tail(buffer), added + 1) /\ dropCount' = dropCount + 1
          /\ dropped' = dropped \cup {Head(buffer)}
      BY <1>5 DEF Add, PushOldestOut, CountDrop
    <2>3. /\ Head(buffer) = Departed + 1 /\ Departed + 1 \in Frames
          /\ Tail(buffer) \in Seq(Frames) /\ Len(Tail(buffer)) = Len(buffer) - 1
          /\ Len(buffer) >= 1
          /\ \A i \in 1..(Len(buffer) - 1) : Tail(buffer)[i] = Departed + i + 1
      <3>1. buffer \in Seq(Frames)
        BY DEF TypeOK
      <3>2. Head(buffer) = buffer[1] /\ Head(buffer) \in Frames /\ Len(buffer) >= 1
        BY <2>1, <3>1, TailFacts
      <3>3. \A i \in 1..(Len(buffer) - 1) : Tail(buffer)[i] = buffer[i + 1] /\ i + 1 \in 1..Len(buffer)
        BY <1>1, <2>1, <3>1, TailFacts
      <3> QED
        BY <1>1, <2>1, <3>1, <3>2, <3>3, TailFacts
    <2>4. Len(buffer') = Len(buffer) /\ DOMAIN buffer' = 1..Len(buffer)
          /\ (\A i \in 1..(Len(buffer) - 1) : buffer'[i] = Departed + i + 1)
          /\ buffer'[Len(buffer)] = added + 1
      <3>1. /\ Len(buffer') = Len(Tail(buffer)) + 1
            /\ DOMAIN buffer' = 1..(Len(Tail(buffer)) + 1)
            /\ \A i \in 1..Len(Tail(buffer)) : buffer'[i] = Tail(buffer)[i]
            /\ buffer'[Len(Tail(buffer)) + 1] = added + 1
        BY <1>2, <2>2, <2>3, AppendFacts
      <3> QED
        BY <1>1, <2>3, <3>1
    <2>5. Departed' = Departed + 1
      BY <1>1, <1>2, <2>4 DEF Departed
    <2>6. ASSUME NEW i \in DOMAIN buffer'
          PROVE  buffer'[i] = Departed' + i
      <3>1. CASE i = Len(buffer)
        BY <1>1, <2>4, <2>5, <3>1
      <3>2. CASE i # Len(buffer)
        <4>1. i \in 1..(Len(buffer) - 1)
          BY <1>1, <2>4, <3>2
        <4> QED
          BY <1>1, <2>4, <2>5, <4>1
      <3> QED
        BY <3>1, <3>2
    <2>7. Head(buffer) \notin Outside
      BY <1>1, <2>3 DEF FramesInv
    <2>8. Outside' = Outside \cup {Departed + 1}
      BY <1>4, <2>2, <2>3 DEF Outside
    <2>9. Outside' = 1..Departed' /\ Departed' \in Nat
      BY <1>1, <2>5, <2>8 DEF FramesInv
    <2>10. dropCount' = Cardinality(dropped')
      <3>1. IsFiniteSet(dropped)
        <4>1. IsFiniteSet(1..MaxFrames) /\ dropped \in SUBSET (1..MaxFrames)
          BY FS_Interval, MaxFramesAssumption DEF TypeOK, Frames
        <4> QED
          BY <4>1, FS_Subset
      <3>2. Cardinality(dropped \cup {Head(buffer)}) = Cardinality(dropped) + 1
        BY <2>7, <3>1, FS_AddElement DEF Outside
      <3> QED
        BY <2>2, <3>2 DEF FramesInv
    <2>11. /\ Head(buffer) \notin InBatch /\ Head(buffer) \notin ElementsOf(delivered)
           /\ Head(buffer) \notin lost
      BY <2>7 DEF Outside
    <2>12. /\ InBatch' \cap (ElementsOf(delivered) \cup lost \cup dropped)' = {}
           /\ (ElementsOf(delivered) \cap (lost \cup dropped))' = {}
           /\ (lost \cap dropped)' = {}
      BY <1>4, <2>2, <2>11 DEF FramesInv
    <2> QED
      BY <1>4, <2>6, <2>9, <2>10, <2>12 DEF FramesInv
  <1>6. CASE ~Full
    <2>1. buffer' = Append(buffer, added + 1) /\ UNCHANGED <<dropCount, dropped>>
      BY <1>6 DEF Add
    <2>2. /\ Len(buffer') = Len(buffer) + 1 /\ DOMAIN buffer' = 1..(Len(buffer) + 1)
          /\ \A i \in 1..Len(buffer) : buffer'[i] = buffer[i]
          /\ buffer'[Len(buffer) + 1] = added + 1
      BY <1>2, <2>1, AppendFacts DEF TypeOK
    <2>3. Departed' = Departed
      BY <1>1, <1>2, <2>2 DEF Departed
    <2>4. \A i \in DOMAIN buffer' : buffer'[i] = Departed' + i
      BY <1>1, <2>2, <2>3
    <2>5. Outside' = Outside
      BY <1>4, <2>1 DEF Outside
    <2> QED
      BY <1>1, <1>4, <2>1, <2>3, <2>4, <2>5 DEF FramesInv
  <1> QED
    BY <1>5, <1>6

LEMMA SnapshotKeepsFrames ==
    ASSUME TypeOK, FramesInv, NEW t \in Flushers, Snapshot(t)
    PROVE  FramesInv' /\ InBatch' = InBatch \cup InBuffer /\ InBuffer' = {}
  <1>1. /\ InBuffer = (Departed + 1)..added /\ Increasing(buffer)
        /\ Departed \in Nat /\ added \in Nat /\ added = Departed + Len(buffer)
    BY BufferFacts, MaxFramesAssumption DEF TypeOK, FramesInv
  <1>2. batch[t] = <<>>
    BY DEF Snapshot, FlushAt, FramesInv
  <1>3. /\ \A u \in Flushers : batch'[u] = IF u = t THEN buffer ELSE batch[u]
        /\ buffer' = <<>>
        /\ UNCHANGED <<added, dropCount, delivered, lost, dropped>>
    BY DEF Snapshot, TypeOK, Copy
  <1>4. ElementsOf(<<>>) = {} /\ InBuffer' = {} /\ Len(buffer') = 0
    BY <1>3 DEF ElementsOf, InBuffer
  <1>5. \A u \in Flushers : ElementsOf(batch'[u]) = IF u = t THEN InBuffer ELSE ElementsOf(batch[u])
    BY <1>3 DEF InBuffer
  <1>6. InBatch' = InBatch \cup InBuffer
    <2>1. InBatch' \subseteq InBatch \cup InBuffer
      BY <1>5 DEF InBatch
    <2>2. InBuffer \subseteq InBatch'
      BY <1>5 DEF InBatch
    <2>3. ASSUME NEW u \in Flushers
          PROVE  ElementsOf(batch[u]) \subseteq InBatch'
      BY <1>2, <1>4, <1>5 DEF InBatch
    <2> QED
      BY <2>1, <2>2, <2>3 DEF InBatch
  <1>7. InBuffer \cap Outside = {}
    BY <1>1 DEF FramesInv
  <1>8. Departed' = added
    BY <1>1, <1>3, <1>4 DEF Departed
  <1>9. Outside' = 1..Departed'
    <2>1. Outside' = Outside \cup InBuffer
      BY <1>3, <1>6 DEF Outside
    <2> QED
      BY <1>1, <1>8, <2>1 DEF FramesInv
  <1>10. \A u, v \in Flushers : u # v => ElementsOf(batch'[u]) \cap ElementsOf(batch'[v]) = {}
    <2>1. \A u \in Flushers : ElementsOf(batch[u]) \cap InBuffer = {}
      BY <1>7 DEF Outside, InBatch
    <2> QED
      BY <1>5, <2>1 DEF FramesInv
  <1>11. \A u \in Flushers : Increasing(batch'[u]) /\ (pc'[u] # "callback" => batch'[u] = <<>>)
    <2>1. \A u \in Flushers \ {t} : pc'[u] = pc[u] /\ batch'[u] = batch[u]
      BY <1>3 DEF Snapshot, TypeOK
    <2>2. pc'[t] # "callback" => batch'[t] = <<>>
      BY <1>3 DEF Snapshot, TypeOK
    <2> QED
      BY <1>1, <1>3, <2>1, <2>2 DEF FramesInv
  <1>12. /\ InBatch' \cap (ElementsOf(delivered) \cup lost \cup dropped)' = {}
         /\ (ElementsOf(delivered) \cap (lost \cup dropped))' = {}
         /\ (lost \cap dropped)' = {} /\ NoRepeats(delivered)'
         /\ dropCount' = Cardinality(dropped')
    BY <1>3, <1>6, <1>7 DEF FramesInv, Outside
  <1>13. /\ \A i \in DOMAIN buffer' : buffer'[i] = Departed' + i
         /\ Departed' \in Nat
    BY <1>1, <1>3, <1>8
  <1> QED
    BY <1>4, <1>6, <1>9, <1>10, <1>11, <1>12, <1>13 DEF FramesInv

(* A callback takes its batch away, and leaves all others. *)
LEMMA CallbackBatches ==
    ASSUME TypeOK, FramesInv, NEW t \in Flushers, pc[t] = "callback",
           batch' = [batch EXCEPT ![t] = <<>>],
           pc' = [pc EXCEPT ![t] = AfterFlush(t)], UNCHANGED <<buffer, added>>
    PROVE  /\ InBatch' = InBatch \ ElementsOf(batch[t])
           /\ ElementsOf(batch[t]) \subseteq InBatch
           /\ \A u, v \in Flushers :
                 u # v => ElementsOf(batch'[u]) \cap ElementsOf(batch'[v]) = {}
           /\ \A u \in Flushers : Increasing(batch'[u]) /\ (pc'[u] # "callback" => batch'[u] = <<>>)
           /\ \A i \in DOMAIN buffer' : buffer'[i] = Departed' + i
           /\ Departed' = Departed /\ Departed' \in Nat
  <1>1. \A u \in Flushers : batch'[u] = IF u = t THEN <<>> ELSE batch[u]
    BY DEF TypeOK
  <1>2. \A u \in Flushers \ {t} : pc'[u] = pc[u]
    BY DEF TypeOK
  <1>3. ElementsOf(<<>>) = {} /\ Increasing(<<>>)
    BY DEF ElementsOf, Increasing
  <1>4. \A u \in Flushers \ {t} : ElementsOf(batch[u]) \cap ElementsOf(batch[t]) = {}
    BY DEF FramesInv
  <1>5. \A u \in Flushers : ElementsOf(batch'[u]) = IF u = t THEN {} ELSE ElementsOf(batch[u])
    <2>1. batch'[t] = <<>> /\ \A u \in Flushers \ {t} : batch'[u] = batch[u]
      BY <1>1
    <2>2. ElementsOf(batch'[t]) = {}
      BY <1>3, <2>1
    <2>3. \A u \in Flushers \ {t} : ElementsOf(batch'[u]) = ElementsOf(batch[u])
      BY <2>1
    <2> QED
      BY <2>2, <2>3
  <1>6. InBatch' = InBatch \ ElementsOf(batch[t])
    BY <1>4, <1>5 DEF InBatch
  <1>7. ElementsOf(batch[t]) \subseteq InBatch
    BY DEF InBatch
  <1>8. \A u, v \in Flushers : u # v => ElementsOf(batch'[u]) \cap ElementsOf(batch'[v]) = {}
    BY <1>5 DEF FramesInv
  <1>9. \A u \in Flushers : Increasing(batch'[u]) /\ (pc'[u] # "callback" => batch'[u] = <<>>)
    BY <1>1, <1>2, <1>3 DEF FramesInv
  <1> QED
    BY <1>6, <1>7, <1>8, <1>9 DEF FramesInv, Departed

LEMMA CallbackKeepsFrames ==
    ASSUME TypeOK, FramesInv, NEW t \in Flushers, Callback(t)
    PROVE  FramesInv' /\ InBatch' = InBatch \ ElementsOf(batch[t])
  <1>1. /\ InBatch' = InBatch \ ElementsOf(batch[t])
        /\ ElementsOf(batch[t]) \subseteq InBatch
        /\ \A u, v \in Flushers :
              u # v => ElementsOf(batch'[u]) \cap ElementsOf(batch'[v]) = {}
        /\ \A u \in Flushers : Increasing(batch'[u]) /\ (pc'[u] # "callback" => batch'[u] = <<>>)
        /\ \A i \in DOMAIN buffer' : buffer'[i] = Departed' + i
        /\ Departed' = Departed /\ Departed' \in Nat
    BY CallbackBatches DEF Callback, CallbackReturns, CallbackRaises
  <1>2. CASE CallbackReturns(t)
    <2>1. delivered' = delivered \o batch[t] /\ UNCHANGED <<dropCount, lost, dropped>>
      BY <1>2 DEF CallbackReturns
    <2>2. delivered \in Seq(Frames) /\ batch[t] \in Seq(Frames) /\ NoRepeats(batch[t])
      BY IncreasingIsUnique DEF TypeOK, FramesInv
    <2>3. ElementsOf(delivered)' = ElementsOf(delivered) \cup ElementsOf(batch[t])
      BY <2>1, <2>2, ConcatFacts
    <2>4. NoRepeats(delivered)'
      <3>1. ElementsOf(delivered) \cap ElementsOf(batch[t]) = {} /\ NoRepeats(delivered)
        BY <1>1 DEF FramesInv
      <3> QED
        BY <2>1, <2>2, <3>1, ConcatFacts
    <2>5. Outside' = Outside
      BY <1>1, <2>1, <2>3 DEF Outside
    <2> QED
      BY <1>1, <2>1, <2>3, <2>4, <2>5 DEF FramesInv
  <1>3. CASE CallbackRaises(t)
    <2>1. lost' = lost \cup ElementsOf(batch[t]) /\ UNCHANGED <<dropCount, delivered, dropped>>
      BY <1>3 DEF CallbackRaises
    <2>2. Outside' = Outside /\ ElementsOf(delivered)' = ElementsOf(delivered)
          /\ NoRepeats(delivered)'
      BY <1>1, <2>1 DEF Outside, FramesInv
    <2> QED
      BY <1>1, <2>1, <2>2 DEF FramesInv
  <1> QED
    BY <1>1, <1>2, <1>3 DEF Callback

(* A step that touches no frame and lets no callback begin or end. *)
LEMMA OthersKeepFrames ==
    ASSUME FramesInv, UNCHANGED frameVars,
           \A t \in Flushers : pc[t] = "callback" => pc'[t] = "callback"
    PROVE  FramesInv'
  <1>1. UNCHANGED <<buffer, added, dropCount, batch, delivered, lost, dropped>>
    BY DEF frameVars
  <1>2. /\ InBatch' = InBatch /\ ElementsOf(delivered)' = ElementsOf(delivered)
        /\ Departed' = Departed /\ Outside' = Outside /\ NoRepeats(delivered)'
    BY <1>1 DEF InBatch, Departed, Outside, FramesInv
  <1>3. \A t \in Flushers : Increasing(batch'[t]) /\ (pc'[t] # "callback" => batch'[t] = <<>>)
    BY <1>1 DEF FramesInv
  <1> QED
    BY <1>1, <1>2, <1>3 DEF FramesInv

-----------------------------------------------------------------------------
(* The threads. *)

LEMMA ThreadsStart == Init => ThreadsInv /\ OrderKept
  <1> SUFFICES ASSUME Init PROVE ThreadsInv /\ OrderKept
    OBVIOUS
  <1>1. /\ \A u \in Users : pc[u] = "idle"
        /\ \A t \in Timers : pc[t] = "unused"
        /\ pc[Controller] = "idle"
    BY FlusherAssumption DEF Init, Flushers
  <1>2. Roles /\ TimersOK
    BY <1>1, FlusherAssumption DEF Init, Roles, TimersOK, Alive
  <1>3. FlushedAtStop
    BY DEF Init, FlushedAtStop
  <1>4. delivered = <<>> /\ ElementsOf(delivered) = {} /\ Increasing(delivered)
    <2>1. DOMAIN <<>> = {} /\ delivered = <<>>
      BY DEF Init
    <2> QED
      BY <2>1 DEF ElementsOf, Increasing
  <1> QED
    BY <1>1, <1>2, <1>3, <1>4 DEF ThreadsInv, OrderKept

(* The step of one thread: where the others are, and which timers live. *)
LEMMA OnlyOneMoves ==
    ASSUME TypeOK, NEW t \in Flushers, NEW l, pc' = [pc EXCEPT ![t] = l]
    PROVE  /\ pc'[t] = l /\ \A u \in Flushers \ {t} : pc'[u] = pc[u]
           /\ \A u \in Timers \ {t} : Alive(u)' <=> Alive(u)
           /\ l \notin {"unused", "exited"} =>
                 (Alive(t)' <=> t \in Timers)
  <1>1. pc'[t] = l /\ \A u \in Flushers \ {t} : pc'[u] = pc[u]
    BY DEF TypeOK
  <1> QED
    BY <1>1 DEF Alive, Flushers

(* A timer that moves on, or ends because the flag is set. *)
LEMMA TimerKeepsThreads ==
    ASSUME TypeOK, ThreadsInv, NEW t \in Timers, Alive(t),
           NEW l \in {"wait", "peek", "flush", "callback", "exited"},
           l = "exited" => stopEvent,
           pc' = [pc EXCEPT ![t] = l],
           UNCHANGED <<stopEvent, handle, started, timedOut, stopMark, added>>,
           InBuffer' \subseteq InBuffer
    PROVE  ThreadsInv'
  <1>1. /\ t \in Flushers /\ t # Controller /\ Controller \in Flushers
        /\ \A u \in Users : u # t /\ u \in Flushers
        /\ \A u \in Timers : u \in Flushers
    BY FlusherAssumption DEF Flushers
  <1>2. /\ pc'[t] = l /\ \A u \in Flushers \ {t} : pc'[u] = pc[u]
        /\ \A u \in Timers \ {t} : Alive(u)' <=> Alive(u)
    BY <1>1, OnlyOneMoves
  <1>3. pc'[Controller] = pc[Controller]
    BY <1>1, <1>2
  <1>4. t = handle
    BY DEF ThreadsInv, TimersOK
  <1>5. Alive(t)' <=> l # "exited"
    BY <1>2 DEF Alive
  <1>6. Roles'
    BY <1>1, <1>2, <1>3 DEF ThreadsInv, Roles
  <1>7. TimersOK'
    <2>1. \A u \in Timers : Alive(u)' => u = handle'
      BY <1>2, <1>4 DEF ThreadsInv, TimersOK
    <2>2. started' /\ ~timedOut' => Alive(handle)' /\ ~stopEvent'
      BY <1>4, <1>5 DEF ThreadsInv, TimersOK
    <2>3. ~timedOut' /\ stopEvent' /\ pc'[Controller] # "join" => ~Alive(handle)'
      BY <1>3, <1>4 DEF ThreadsInv, TimersOK
    <2> QED
      BY <1>3, <2>1, <2>2, <2>3 DEF ThreadsInv, TimersOK
  <1>8. FlushedAtStop'
    BY <1>3 DEF ThreadsInv, FlushedAtStop
  <1> QED
    BY <1>6, <1>7, <1>8 DEF ThreadsInv

(* A user that calls flush(), or comes back from it. *)
LEMMA UserKeepsThreads ==
    ASSUME TypeOK, ThreadsInv, NEW t \in Users, NEW l \in {"idle", "callback"},
           pc' = [pc EXCEPT ![t] = l],
           UNCHANGED <<stopEvent, handle, started, timedOut, stopMark, added>>,
           InBuffer' \subseteq InBuffer
    PROVE  ThreadsInv'
  <1>1. /\ t \in Flushers /\ t # Controller /\ Controller \in Flushers /\ t \notin Timers
        /\ \A u \in Users \cup Timers : u \in Flushers
    BY FlusherAssumption DEF Flushers
  <1>2. /\ pc'[t] = l /\ \A u \in Flushers \ {t} : pc'[u] = pc[u]
        /\ \A u \in Timers \ {t} : Alive(u)' <=> Alive(u)
    BY <1>1, OnlyOneMoves
  <1>3. pc'[Controller] = pc[Controller] /\ \A u \in Timers : Alive(u)' <=> Alive(u)
    BY <1>1, <1>2
  <1>4. Alive(handle)' <=> Alive(handle)
    BY <1>3 DEF Alive
  <1>5. Roles'
    BY <1>1, <1>2, <1>3 DEF ThreadsInv, Roles
  <1>6. TimersOK'
    BY <1>3, <1>4 DEF ThreadsInv, TimersOK
  <1>7. FlushedAtStop'
    BY <1>3 DEF ThreadsInv, FlushedAtStop
  <1> QED
    BY <1>5, <1>6, <1>7 DEF ThreadsInv

(* The controller in stop(), once the flag is set. *)
LEMMA StopKeepsThreads ==
    ASSUME TypeOK, ThreadsInv, pc[Controller] # "idle",
           NEW l \in {"idle", "flush", "callback"},
           pc' = [pc EXCEPT ![Controller] = l],
           pc[Controller] = "join" => timedOut' \/ ~Alive(handle),
           timedOut => timedOut',
           UNCHANGED <<stopEvent, handle, started, stopMark, added>>,
           InBuffer' \subseteq InBuffer,
           l \in {"idle", "callback"} => InBuffer' = {} \/ pc[Controller] = "callback"
    PROVE  ThreadsInv'
  <1>1. /\ Controller \in Flushers /\ Controller \notin Timers /\ Controller \notin Users
        /\ \A u \in Users \cup Timers : u \in Flushers
    BY FlusherAssumption DEF Flushers
  <1>2. /\ pc'[Controller] = l /\ \A u \in Flushers \ {Controller} : pc'[u] = pc[u]
        /\ \A u \in Timers \ {Controller} : Alive(u)' <=> Alive(u)
    BY <1>1, OnlyOneMoves
  <1>3. \A u \in Timers : Alive(u)' <=> Alive(u)
    BY <1>1, <1>2
  <1>4. Alive(handle)' <=> Alive(handle)
    BY <1>3 DEF Alive
  <1>5. stopEvent /\ ~started
    BY DEF ThreadsInv, TimersOK
  <1>6. Roles'
    BY <1>1, <1>2 DEF ThreadsInv, Roles
  <1>7. TimersOK'
    BY <1>2, <1>3, <1>4, <1>5 DEF ThreadsInv, TimersOK
  <1>8. FlushedAtStop'
    BY <1>2, <1>5 DEF ThreadsInv, FlushedAtStop
  <1> QED
    BY <1>6, <1>7, <1>8 DEF ThreadsInv

LEMMA ThreadsStep == TypeOK /\ ThreadsInv /\ [Next]_vars => ThreadsInv'
  <1> SUFFICES ASSUME TypeOK, ThreadsInv, [Next]_vars
               PROVE  ThreadsInv'
    OBVIOUS
  <1>0. Controller \in Flushers /\ Controller \notin Timers /\ Controller \notin Users
        /\ NoTimer \notin Timers /\ Users \cap Timers = {}
        /\ Users \subseteq Flushers /\ Timers \subseteq Flushers
    BY FlusherAssumption DEF Flushers
  <1>1. CASE Add
    <2>1. UNCHANGED <<stopEvent, handle, pc, started, stopMark, timedOut>>
      BY <1>1 DEF Add, threadVars, histVars
    <2>2. Roles' /\ TimersOK'
      BY <2>1 DEF ThreadsInv, Roles, TimersOK, Alive
    <2>3. added' = added + 1 /\ added \in Nat /\ stopMark \in Nat /\ stopMark <= added
      BY <1>1, MaxFramesAssumption DEF Add, TypeOK, ThreadsInv, FlushedAtStop
    <2>4. InBuffer' \subseteq InBuffer \cup {added + 1}
      <3>1. CASE Full
        <4>1. buffer # <<>> /\ buffer' = Append(Tail(buffer), added + 1)
          BY <1>1, <3>1, MaxSizeAssumption DEF Full, Add, PushOldestOut
        <4> QED
          BY <4>1 DEF InBuffer, ElementsOf, TypeOK
      <3>2. CASE ~Full
        <4>1. buffer' = Append(buffer, added + 1)
          BY <1>1, <3>2 DEF Add
        <4> QED
          BY <4>1 DEF InBuffer, ElementsOf, TypeOK
      <3> QED
        BY <3>1, <3>2
    <2>5. FlushedAtStop'
      BY <2>1, <2>3, <2>4 DEF ThreadsInv, FlushedAtStop
    <2> QED
      BY <2>2, <2>5 DEF ThreadsInv
  <1>2. ASSUME NEW t \in Flushers, Snapshot(t)
        PROVE  ThreadsInv'
    <2>1. /\ UNCHANGED <<stopEvent, handle, started, timedOut, stopMark, added>>
          /\ buffer' = <<>> /\ pc[t] = FlushAt(t)
      BY <1>2 DEF Snapshot
    <2>2. InBuffer' = {}
      BY <2>1 DEF InBuffer, ElementsOf
    <2>3. CASE t \in Users
      <3>1. \E l \in {"idle", "callback"} : pc' = [pc EXCEPT ![t] = l]
        BY <1>0, <1>2, <2>3 DEF Snapshot, AfterFlush
      <3> QED
        BY <2>1, <2>2, <2>3, <3>1, UserKeepsThreads
    <2>4. CASE t \in Timers
      <3>1. \E l \in {"wait", "callback"} : pc' = [pc EXCEPT ![t] = l]
        BY <1>0, <1>2, <2>4 DEF Snapshot, AfterFlush
      <3>2. Alive(t)
        BY <1>0, <2>1, <2>4 DEF FlushAt, Alive
      <3> QED
        BY <2>1, <2>2, <2>4, <3>1, <3>2, TimerKeepsThreads
    <2>5. CASE t = Controller
      <3>1. \E l \in {"idle", "callback"} : pc' = [pc EXCEPT ![Controller] = l]
        BY <1>0, <1>2, <2>5 DEF Snapshot, AfterFlush
      <3>2. pc[Controller] = "flush"
        BY <1>0, <2>1, <2>5 DEF FlushAt
      <3> QED
        BY <2>1, <2>2, <3>1, <3>2, StopKeepsThreads
    <2> QED
      BY <2>3, <2>4, <2>5 DEF Flushers
  <1>3. ASSUME NEW t \in Flushers, Callback(t)
        PROVE  ThreadsInv'
    <2>1. /\ UNCHANGED <<stopEvent, handle, started, timedOut, stopMark, added, buffer>>
          /\ pc[t] = "callback" /\ pc' = [pc EXCEPT ![t] = AfterFlush(t)]
      BY <1>3 DEF Callback, CallbackReturns, CallbackRaises, histVars
    <2>2. InBuffer' \subseteq InBuffer
      BY <2>1 DEF InBuffer
    <2>3. CASE t \in Users
      <3>1. AfterFlush(t) = "idle"
        BY <1>0, <2>3 DEF AfterFlush
      <3> QED
        BY <2>1, <2>2, <2>3, <3>1, UserKeepsThreads
    <2>4. CASE t \in Timers
      <3>1. AfterFlush(t) = "wait" /\ Alive(t)
        BY <2>1, <2>4 DEF AfterFlush, Alive
      <3> QED
        BY <2>1, <2>2, <2>4, <3>1, TimerKeepsThreads
    <2>5. CASE t = Controller
      <3>1. AfterFlush(t) = "idle"
        BY <1>0, <2>5 DEF AfterFlush
      <3> QED
        BY <2>1, <2>2, <2>5, <3>1, StopKeepsThreads
    <2> QED
      BY <2>3, <2>4, <2>5 DEF Flushers
  <1>4. ASSUME NEW t \in Timers, TimerWait(t) \/ TimerPeek(t)
        PROVE  ThreadsInv'
    <2>1. /\ UNCHANGED <<stopEvent, handle, started, timedOut, stopMark, added, buffer>>
          /\ pc[t] \in {"wait", "peek"}
      BY <1>4 DEF TimerWait, TimerPeek, histVars, frameVars
    <2>2. InBuffer' \subseteq InBuffer /\ Alive(t)
      BY <2>1 DEF InBuffer, Alive
    <2>3. \E l \in {"wait", "peek", "flush", "exited"} :
             pc' = [pc EXCEPT ![t] = l] /\ (l = "exited" => stopEvent)
      BY <1>4 DEF TimerWait, TimerPeek
    <2> QED
      BY <2>1, <2>2, <2>3, TimerKeepsThreads
  <1>5. CASE Start
    <2>1. /\ pc[Controller] = "idle" /\ started' = TRUE
          /\ UNCHANGED <<buffer, added, stopMark, timedOut>>
      BY <1>5 DEF Start, frameVars
    <2>2. CASE AlreadyRunning /\ UNCHANGED <<stopEvent, handle, pc>>
      <3>1. Alive(handle)' /\ Alive(handle) /\ \A t \in Timers : Alive(t)' <=> Alive(t)
        BY <2>2 DEF AlreadyRunning, Alive
      <3>2. Roles'
        BY <2>2 DEF ThreadsInv, Roles
      <3>3. TimersOK'
        BY <2>1, <2>2, <3>1 DEF ThreadsInv, TimersOK
      <3>4. FlushedAtStop'
        BY <2>1 DEF ThreadsInv, FlushedAtStop
      <3> QED
        BY <3>2, <3>3, <3>4 DEF ThreadsInv
    <2>3. ASSUME ~AlreadyRunning, stopEvent' = FALSE, NEW t \in Timers, pc[t] = "unused",
                 handle' = t, pc' = [pc EXCEPT ![t] = "wait"]
          PROVE  ThreadsInv'
      <3>1. /\ pc'[t] = "wait" /\ \A u \in Flushers \ {t} : pc'[u] = pc[u]
            /\ \A u \in Timers \ {t} : Alive(u)' <=> Alive(u)
            /\ Alive(t)'
        <4>1. t \in Flushers
          BY <1>0
        <4>2. /\ pc'[t] = "wait" /\ \A u \in Flushers \ {t} : pc'[u] = pc[u]
              /\ \A u \in Timers \ {t} : Alive(u)' <=> Alive(u)
          BY <2>3, <4>1, OnlyOneMoves
        <4>3. Alive(t)'
          BY <4>2 DEF Alive
        <4> QED
          BY <4>2, <4>3
      <3>2. \A u \in Timers : ~Alive(u)
        BY <2>3 DEF ThreadsInv, TimersOK, AlreadyRunning
      <3>3. pc'[Controller] = "idle"
        BY <1>0, <2>1, <3>1
      <3>4. Roles'
        BY <1>0, <3>1, <3>3 DEF ThreadsInv, Roles
      <3>5. TimersOK'
        <4>1. \A u \in Timers : Alive(u)' => u = t
          BY <3>1, <3>2
        <4>2. Alive(handle)'
          BY <2>3, <3>1 DEF Alive
        <4> QED
          BY <2>3, <3>3, <4>1, <4>2 DEF TimersOK
      <3>6. FlushedAtStop'
        BY <2>1 DEF ThreadsInv, FlushedAtStop
      <3> QED
        BY <3>4, <3>5, <3>6 DEF ThreadsInv
    <2> QED
      BY <1>5, <2>2, <2>3 DEF Start, Cleared
  <1>6. CASE StopSet
    <2>1. /\ pc[Controller] = "idle" /\ stopEvent' = TRUE /\ started' = FALSE /\ stopMark' = added
          /\ UNCHANGED <<buffer, added, handle, timedOut>>
      BY <1>6 DEF StopSet, frameVars
    <2>2. /\ \A u \in Flushers \ {Controller} : pc'[u] = pc[u]
          /\ pc'[Controller] = IF handle = NoTimer THEN "flush" ELSE "join"
      BY <1>0, <1>6 DEF StopSet, TypeOK
    <2>3. \A u \in Timers : Alive(u)' <=> Alive(u)
      BY <1>0, <2>2 DEF Alive
    <2>4. Roles'
      BY <1>0, <2>2 DEF ThreadsInv, Roles
    <2>5. TimersOK'
      <3>1. handle = NoTimer => ~Alive(handle)'
        BY <1>0, <2>1 DEF Alive
      <3> QED
        BY <2>1, <2>2, <2>3, <3>1 DEF ThreadsInv, TimersOK
    <2>6. FlushedAtStop'
      BY <2>1, <2>2, MaxFramesAssumption DEF FlushedAtStop, TypeOK
    <2> QED
      BY <2>4, <2>5, <2>6 DEF ThreadsInv
  <1>7. CASE StopJoined \/ StopJoinTimeout
    <2>1. /\ pc[Controller] = "join" /\ pc' = [pc EXCEPT ![Controller] = "flush"]
          /\ UNCHANGED <<stopEvent, handle, started, stopMark, added, buffer>>
      BY <1>7 DEF StopJoined, StopJoinTimeout, frameVars, histVars
    <2>3. (timedOut' \/ ~Alive(handle)) /\ (timedOut => timedOut')
      BY <1>7 DEF StopJoined, StopJoinTimeout, Joined, histVars
    <2>2. InBuffer' \subseteq InBuffer
      BY <2>1 DEF InBuffer
    <2> QED
      BY <2>1, <2>2, <2>3, StopKeepsThreads
  <1>8. CASE UNCHANGED vars
    BY <1>8 DEF vars, frameVars, threadVars, histVars, ThreadsInv, Roles, TimersOK,
       FlushedAtStop, Alive, InBuffer
  <1> QED
    BY <1>1, <1>2, <1>3, <1>4, <1>5, <1>6, <1>7, <1>8
       DEF Next, Timer, Stop, StopFlush, Flushers

-----------------------------------------------------------------------------
(* The order of delivery. *)

(* While no join has timed out and no user flushes, one thread at a time is
   in the callback: a timer in it is alive, and stop() flushes when none is. *)
LEMMA OneInCallback ==
    ASSUME TypeOK, ThreadsInv, ~timedOut, \A u \in Users : pc[u] = "idle",
           NEW t \in Flushers, NEW u \in Flushers,
           pc[t] \in {"flush", "callback"}, pc[u] \in {"flush", "callback"}
    PROVE  t = u
  <1>1. t \notin Users /\ u \notin Users
    OBVIOUS
  <1>2. \A v \in Timers : pc[v] \in {"flush", "callback"} => Alive(v) /\ v = handle
    BY DEF Alive, ThreadsInv, TimersOK
  <1>3. pc[Controller] \in {"flush", "callback"} => ~Alive(handle)
    BY DEF ThreadsInv, TimersOK
  <1> QED
    BY <1>1, <1>2, <1>3 DEF Flushers

LEMMA OrderStep ==
    ASSUME TypeOK, FramesInv, ThreadsInv, OrderKept, [Next]_vars
    PROVE  OrderKept'
  <1>0. Controller \in Flushers /\ Controller \notin Users
        /\ Users \subseteq Flushers /\ Timers \subseteq Flushers /\ Users \cap Timers = {}
    BY FlusherAssumption DEF Flushers
  <1>1. ASSUME NEW t \in Flushers, Snapshot(t)
        PROVE  OrderKept'
    <2>1. /\ userFlushed' = (userFlushed \/ t \in Users)
          /\ UNCHANGED <<delivered, timedOut>> /\ pc[t] = FlushAt(t)
          /\ pc' = [pc EXCEPT ![t] = IF buffer = <<>> THEN AfterFlush(t) ELSE "callback"]
      BY <1>1 DEF Snapshot
    <2>2. \A u \in Flushers \ {t} : pc'[u] = pc[u]
      BY <2>1 DEF TypeOK
    <2>3. ~userFlushed' => \A u \in Users : pc'[u] = "idle"
      BY <1>0, <2>1, <2>2 DEF OrderKept
    <2>4. ASSUME ~timedOut', ~userFlushed'
          PROVE  Increasing(delivered)'
                 /\ \A f \in ElementsOf(delivered'), g \in InBatch' : f < g
      <3>1. ~timedOut /\ ~userFlushed /\ t \notin Users /\ pc[t] = "flush"
            /\ \A u \in Users : pc[u] = "idle"
        BY <2>1, <2>4 DEF FlushAt, OrderKept
      <3>2. ASSUME NEW u \in Flushers
            PROVE  ElementsOf(batch[u]) = {}
        <4>1. pc[u] # "callback"
          BY <3>1, OneInCallback
        <4>2. batch[u] = <<>>
          BY <4>1 DEF FramesInv
        <4> QED
          BY <4>2 DEF ElementsOf
      <3>3. InBatch = {}
        BY <3>2 DEF InBatch
      <3>4. InBatch' = InBuffer
        BY <1>1, <3>3, SnapshotKeepsFrames
      <3>5. /\ \A g \in InBuffer : g \in Nat /\ g > Departed
            /\ \A f \in ElementsOf(delivered) : f \in Nat /\ f <= Departed
            /\ Departed \in Nat
        <4>1. InBuffer = (Departed + 1)..added /\ Departed \in Nat /\ added \in Nat
          BY BufferFacts, MaxFramesAssumption DEF TypeOK, FramesInv
        <4>2. ElementsOf(delivered) \subseteq 1..Departed
          BY DEF FramesInv, Outside
        <4> QED
          BY <4>1, <4>2
      <3>6. Increasing(delivered)' /\ ElementsOf(delivered') = ElementsOf(delivered)
        BY <2>1, <3>1 DEF OrderKept
      <3> QED
        BY <3>4, <3>5, <3>6
    <2> QED
      BY <2>3, <2>4 DEF OrderKept
  <1>2. ASSUME NEW t \in Flushers, Callback(t)
        PROVE  OrderKept'
    <2>1. /\ pc[t] = "callback" /\ pc' = [pc EXCEPT ![t] = AfterFlush(t)]
          /\ UNCHANGED <<timedOut, userFlushed>>
      BY <1>2 DEF Callback, CallbackReturns, CallbackRaises, histVars
    <2>2. \A u \in Flushers \ {t} : pc'[u] = pc[u]
      BY <2>1 DEF TypeOK
    <2>3. ~userFlushed' => \A u \in Users : pc'[u] = "idle"
      BY <1>0, <2>1, <2>2 DEF OrderKept
    <2>4. InBatch' = InBatch \ ElementsOf(batch[t])
      BY <1>2, CallbackKeepsFrames
    <2>5. ASSUME ~timedOut', ~userFlushed'
          PROVE  Increasing(delivered)'
                 /\ \A f \in ElementsOf(delivered'), g \in InBatch' : f < g
      <3>1. /\ ~timedOut /\ ~userFlushed /\ \A u \in Users : pc[u] = "idle"
            /\ Increasing(delivered)
            /\ \A f \in ElementsOf(delivered), g \in InBatch : f < g
        BY <2>1, <2>5 DEF OrderKept
      <3>2. CASE CallbackReturns(t)
        <4>1. delivered' = delivered \o batch[t]
          BY <3>2 DEF CallbackReturns
        <4>2. /\ delivered \in Seq(Frames) /\ batch[t] \in Seq(Frames) /\ Increasing(batch[t])
              /\ ElementsOf(batch[t]) \subseteq InBatch
          BY DEF TypeOK, FramesInv, InBatch
        <4>3. Increasing(delivered')
          BY <3>1, <4>1, <4>2, ConcatFacts
        <4>4. ASSUME NEW u \in Flushers \ {t}
              PROVE  ElementsOf(batch[u]) = {}
          <5>1. pc[u] # "callback"
            BY <2>1, <3>1, OneInCallback
          <5>2. batch[u] = <<>>
            BY <5>1 DEF FramesInv
          <5> QED
            BY <5>2 DEF ElementsOf
        <4>5. InBatch' = {}
          BY <2>4, <4>4 DEF InBatch
        <4> QED
          BY <4>3, <4>5
      <3>3. CASE CallbackRaises(t)
        <4>1. delivered' = delivered
          BY <3>3 DEF CallbackRaises
        <4> QED
          BY <2>4, <3>1, <4>1
      <3> QED
        BY <1>2, <3>2, <3>3 DEF Callback
    <2> QED
      BY <2>3, <2>5 DEF OrderKept
  <1>3. ASSUME UNCHANGED <<delivered, batch, userFlushed>>, timedOut => timedOut',
               \A u \in Users : pc'[u] = pc[u]
        PROVE  OrderKept'
    <2>1. InBatch' = InBatch
      BY <1>3 DEF InBatch
    <2> QED
      BY <1>3, <2>1 DEF OrderKept
  <1>4. CASE Add
    BY <1>3, <1>4 DEF Add, threadVars, histVars
  <1>5. ASSUME NEW t \in Timers, TimerWait(t) \/ TimerPeek(t)
        PROVE  OrderKept'
    <2>1. UNCHANGED <<delivered, batch, userFlushed, timedOut>>
      BY <1>5 DEF TimerWait, TimerPeek, frameVars, histVars
    <2>2. \A u \in Users : pc'[u] = pc[u]
      BY <1>0, <1>5 DEF TimerWait, TimerPeek, TypeOK
    <2> QED
      BY <1>3, <2>1, <2>2
  <1>6. CASE Start
    <2>1. UNCHANGED <<delivered, batch, userFlushed, timedOut>>
      BY <1>6 DEF Start, frameVars
    <2>2. \A u \in Users : pc'[u] = pc[u]
      BY <1>0, <1>6 DEF Start, TypeOK
    <2> QED
      BY <1>3, <2>1, <2>2
  <1>7. CASE StopSet \/ StopJoined \/ StopJoinTimeout
    <2>1. UNCHANGED <<delivered, batch, userFlushed>> /\ (timedOut => timedOut')
      BY <1>7 DEF StopSet, StopJoined, StopJoinTimeout, frameVars, histVars
    <2>2. \A u \in Users : pc'[u] = pc[u]
      BY <1>0, <1>7 DEF StopSet, StopJoined, StopJoinTimeout, TypeOK
    <2> QED
      BY <1>3, <2>1, <2>2
  <1>8. CASE UNCHANGED vars
    BY <1>3, <1>8 DEF vars, frameVars, threadVars, histVars
  <1> QED
    BY <1>0, <1>1, <1>2, <1>4, <1>5, <1>6, <1>7, <1>8 DEF Next, Timer, Stop, StopFlush

-----------------------------------------------------------------------------
(* The theorems. *)

LEMMA FramesStep == TypeOK /\ FramesInv /\ ThreadsInv /\ [Next]_vars => FramesInv'
  <1> SUFFICES ASSUME TypeOK, FramesInv, ThreadsInv, [Next]_vars
               PROVE  FramesInv'
    OBVIOUS
  <1>0. Controller \in Flushers /\ Users \subseteq Flushers /\ Timers \subseteq Flushers
    BY DEF Flushers
  <1>1. CASE Add
    BY <1>1, AddKeepsFrames
  <1>2. ASSUME NEW t \in Flushers, Snapshot(t) \/ Callback(t)
        PROVE  FramesInv'
    BY <1>2, SnapshotKeepsFrames, CallbackKeepsFrames
  <1>3. ASSUME NEW t \in Flushers, pc[t] # "callback", NEW l, pc' = [pc EXCEPT ![t] = l],
               UNCHANGED frameVars
        PROVE  FramesInv'
    <2>1. \A u \in Flushers : pc[u] = "callback" => pc'[u] = "callback"
      BY <1>3 DEF TypeOK
    <2> QED
      BY <1>3, <2>1, OthersKeepFrames
  <1>4. ASSUME NEW t \in Timers, TimerWait(t) \/ TimerPeek(t)
        PROVE  FramesInv'
    <2>1. /\ pc[t] # "callback" /\ UNCHANGED frameVars
          /\ \E l : pc' = [pc EXCEPT ![t] = l]
      BY <1>4 DEF TimerWait, TimerPeek
    <2> QED
      BY <1>0, <1>3, <2>1
  <1>5. CASE Start
    <2>1. CASE UNCHANGED pc
      BY <1>5, <2>1, OthersKeepFrames DEF Start
    <2>2. ASSUME NEW t \in Timers, pc[t] = "unused", pc' = [pc EXCEPT ![t] = "wait"]
          PROVE  FramesInv'
      BY <1>0, <1>3, <1>5, <2>2 DEF Start
    <2> QED
      BY <1>5, <2>1, <2>2 DEF Start
  <1>6. CASE StopSet \/ StopJoined \/ StopJoinTimeout
    <2>1. /\ pc[Controller] # "callback" /\ UNCHANGED frameVars
          /\ \E l : pc' = [pc EXCEPT ![Controller] = l]
      BY <1>6 DEF StopSet, StopJoined, StopJoinTimeout
    <2> QED
      BY <1>0, <1>3, <2>1
  <1>7. CASE UNCHANGED vars
    BY <1>7, OthersKeepFrames DEF vars, threadVars
  <1> QED
    BY <1>0, <1>1, <1>2, <1>4, <1>5, <1>6, <1>7 DEF Next, Timer, Stop, StopFlush

LEMMA TypeStart == Init => TypeOK
  <1> SUFFICES ASSUME Init PROVE TypeOK
    OBVIOUS
  <1>1. buffer \in Seq(Frames) /\ Len(buffer) <= MaxSize
    BY MaxSizeAssumption DEF Init
  <1>2. added \in 0..MaxFrames /\ stopMark \in 0..MaxFrames /\ dropCount \in Nat
    BY MaxFramesAssumption DEF Init
  <1>3. stopEvent \in BOOLEAN /\ handle \in Timers \cup {NoTimer} /\ started \in BOOLEAN
        /\ timedOut \in BOOLEAN /\ userFlushed \in BOOLEAN
    BY DEF Init
  <1>4. pc \in [Flushers -> {"unused", "wait", "peek", "flush", "callback", "exited",
                            "idle", "join"}]
    BY DEF Init
  <1>5. batch \in [Flushers -> Seq(Frames)]
    BY DEF Init
  <1>6. delivered \in Seq(Frames) /\ lost \in SUBSET Frames /\ dropped \in SUBSET Frames
    BY DEF Init
  <1> QED
    BY <1>1, <1>2, <1>3, <1>4, <1>5, <1>6 DEF TypeOK

LEMMA InvariantHolds == Spec => []IInv
  <1>1. Init => IInv
    BY TypeStart, FramesStart, ThreadsStart DEF IInv
  <1>2. IInv /\ [Next]_vars => IInv'
    BY TypeStep, FramesStep, ThreadsStep, OrderStep DEF IInv
  <1> QED
    BY <1>1, <1>2, PTL DEF Spec

(* Whatever threads add, flush, start and stop in whatever order, every
   frame that was added is in one place, the buffer holds the newest ones,
   drop_count counts those pushed out, at most one timer runs, and start()
   leaves one running. *)
THEOREM BufferIsSound == Spec => []BufferInv
  <1>1. IInv => StartStarts /\ OneTimer
    BY DEF IInv, ThreadsInv, TimersOK, StartStarts, OneTimer
  <1>2. IInv => BufferInv
    BY <1>1, FramesSound DEF IInv, BufferInv
  <1> QED
    BY <1>2, InvariantHolds, PTL

(* A buffer that only its timer and stop() flush hands the frames to the
   callback in the order in which they were added, over any number of
   start() and stop(), until a join gives up. *)
THEOREM DeliveryKeepsOrder == Spec => []DeliveredInOrder
  <1>1. IInv => DeliveredInOrder
    BY DEF IInv, OrderKept, DeliveredInOrder
  <1> QED
    BY <1>1, InvariantHolds, PTL

(* Once stop() is back, and no join has given up, no timer runs and no frame
   that was added before the call is left in the buffer, with a timer or
   with stop() itself. *)
THEOREM StopIsComplete == Spec => []StopQuiesces
  <1>1. ASSUME IInv, StopReturned, ~timedOut
        PROVE  /\ \A t \in Timers : ~Alive(t)
               /\ \A f \in InBuffer \cup UNION {ElementsOf(batch[t]) :
                                                  t \in Timers \cup {Controller}} : f > stopMark
    <2>1. pc[Controller] = "idle" /\ ~started /\ stopEvent
      BY <1>1 DEF StopReturned
    <2>2. \A t \in Timers : ~Alive(t)
      BY <1>1, <2>1 DEF IInv, ThreadsInv, TimersOK
    <2>3. \A f \in InBuffer : f > stopMark
      BY <1>1, <2>1 DEF IInv, ThreadsInv, FlushedAtStop
    <2>4. ASSUME NEW t \in Timers \cup {Controller}
          PROVE  ElementsOf(batch[t]) = {}
      <3>1. t \in Flushers /\ pc[t] # "callback"
        BY <2>1, <2>2 DEF Alive, Flushers
      <3>2. batch[t] = <<>>
        BY <1>1, <3>1 DEF IInv, FramesInv
      <3> QED
        BY <3>2 DEF ElementsOf
    <2> QED
      BY <2>2, <2>3, <2>4
  <1>2. IInv => StopQuiesces
    BY <1>1 DEF StopQuiesces
  <1> QED
    BY <1>2, InvariantHolds, PTL
=============================================================================
