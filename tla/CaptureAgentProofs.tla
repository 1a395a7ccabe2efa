-------------------------- MODULE CaptureAgentProofs --------------------------
(***************************************************************************)
(* Theorems about CaptureAgent, for every finite set of capture threads,   *)
(* every set of packets and devices and every value of the bounds:         *)
(* AgentInv, ExitLosesLittle, that no window is published twice, and that  *)
(* the agent uses its transport as AtMostOnceChannel allows.               *)
(*                                                                         *)
(* AgentInv leans on where a window in hand can be (HandsOK); the losses   *)
(* at the exit lean on the order in which stop() clears the flag, builds   *)
(* the last window and drains the transport, in every call on the stack.   *)
(* At the end: HopperInv, of the ChannelHopper that each radio has.        *)
(***************************************************************************)
EXTENDS CaptureAgent, ChannelHopper, FiniteSetTheorems, SequenceTheorems, TLAPS

CallSet == [at : {"clear", "hoppers", "acquire", "build", "publish", "drain"},
            hand : 0..MaxWindows]

(* A thread holds a window exactly while it is about to publish it; there is
   no flush loop before start() has made it. *)
HandsOK ==
    /\ main = "starting" => flusher = "none"
    /\ flushHand # 0 <=> flusher = "publish"
    /\ \A i \in Calls : stack[i].hand # 0 <=> stack[i].at = "publish"

(* A packet is late only when running was cleared, and the thread that
   handled it is done, since its stop_filter then says so. *)
DoneCaptures == {c \in Captures : capture[c] = "done"}

LatePerRadio ==
    /\ IsFiniteSet(late)
    /\ Cardinality(late) <= Cardinality(DoneCaptures)

(* What a call of stop() has done by the time it is somewhere. *)
StopOrder ==
    /\ \A i \in Calls : stack[i].at # "clear" => ~running
    /\ (\E i \in Calls : stack[i].at \in {"publish", "drain"}) => InObs \subseteq late
    /\ stopped => main = "exited" /\ stack # <<>> /\ Top.at = "drain"

IInv ==
    /\ AgentInv
    /\ IsFiniteSet(Known)
    /\ HandsOK
    /\ LatePerRadio
    /\ StopOrder

-----------------------------------------------------------------------------
(* What the helpers of the actions do to the state. *)

LEMMA BuildFacts ==
    ASSUME TypeOK, BuildWindow
    PROVE  /\ NewWindow \in WindowIds /\ NewWindow # 0 /\ NewWindow \notin DOMAIN windows
           /\ windows' \in Seq(SUBSET Packets) /\ Len(windows') <= MaxWindows
           /\ DOMAIN windows' = DOMAIN windows \cup {NewWindow}
           /\ \A w \in DOMAIN windows : windows'[w] = windows[w]
           /\ windows'[NewWindow] = InObs
           /\ obs' = [m \in Macs |-> {}] /\ InObs' = {} /\ Known' = {}
  <1>1. InObs \in SUBSET Packets
    BY DEF TypeOK, InObs
  <1>2. /\ windows \in Seq(SUBSET Packets) /\ Len(windows) \in Nat /\ Len(windows) < MaxWindows
        /\ MaxWindows \in Nat
        /\ windows' = Append(windows, InObs) /\ obs' = [m \in Macs |-> {}]
    BY MaxAssumption DEF TypeOK, BuildWindow
  <1>3. InObs' = {} /\ Known' = {}
    BY <1>2 DEF InObs, Known
  <1> HIDE DEF InObs
  <1>4. /\ windows' \in Seq(SUBSET Packets) /\ Len(windows') = Len(windows) + 1
        /\ DOMAIN windows = 1..Len(windows) /\ DOMAIN windows' = 1..(Len(windows) + 1)
        /\ \A w \in 1..Len(windows) : windows'[w] = windows[w]
        /\ windows'[Len(windows) + 1] = InObs
    BY <1>1, <1>2
  <1> QED
    BY <1>2, <1>3, <1>4 DEF NewWindow, WindowIds

LEMMA PublishFacts ==
    ASSUME TypeOK, NEW w \in WindowIds, Publish(w)
    PROVE  /\ w \notin Published /\ Published' = Published \cup {w}
           /\ (pending \cup gone \subseteq WindowIds)' /\ UNCHANGED delivered
  BY DEF TypeOK, Publish, Transport!Accept, Transport!Refuse, Published, Transport!DeliveredSet, WindowIds

LEMMA TransportFacts ==
    ASSUME TypeOK, TransportStep
    PROVE  /\ Published' = Published
           /\ (pending \cup gone \subseteq WindowIds)' /\ delivered' \in Seq(WindowIds)
  <1>1. PICK w \in WindowIds : Transport!Deliver(w) \/ Transport!Lose(w)
    BY DEF TransportStep
  <1>2. CASE Transport!Lose(w)
    BY <1>2 DEF TypeOK, Transport!Lose, Published, Transport!DeliveredSet
  <1>3. CASE Transport!Deliver(w)
    <2>1. /\ w \in pending /\ pending' = pending \ {w} /\ gone' = gone
          /\ delivered' = Append(delivered, w) /\ delivered \in Seq(WindowIds)
      BY <1>3 DEF TypeOK, Transport!Deliver
    <2>2. /\ delivered' \in Seq(WindowIds) /\ Len(delivered) \in Nat
          /\ DOMAIN delivered = 1..Len(delivered) /\ DOMAIN delivered' = 1..(Len(delivered) + 1)
          /\ \A i \in 1..Len(delivered) : delivered'[i] = delivered[i]
          /\ delivered'[Len(delivered) + 1] = w
      BY <2>1
    <2>3. Transport!DeliveredSet' = Transport!DeliveredSet \cup {w}
      <3>1. \A x \in Transport!DeliveredSet' : x \in Transport!DeliveredSet \cup {w}
        BY <2>2 DEF Transport!DeliveredSet
      <3>2. \A x \in Transport!DeliveredSet : x \in Transport!DeliveredSet'
        BY <2>2 DEF Transport!DeliveredSet
      <3>3. Len(delivered) + 1 \in DOMAIN delivered'
        BY <2>2
      <3>4. w \in Transport!DeliveredSet'
        BY <2>2, <3>3 DEF Transport!DeliveredSet
      <3> QED
        BY <3>1, <3>2, <3>4
    <2> QED
      BY <2>1, <2>2, <2>3 DEF Published, TypeOK
  <1> QED
    BY <1>1, <1>2, <1>3

(* A step of the innermost stop(). *)
LEMMA TopMoves ==
    ASSUME TypeOK, stack # <<>>,
           NEW l \in {"clear", "hoppers", "acquire", "build", "publish", "drain"},
           NEW w \in 0..MaxWindows, GotoWith(l, w)
    PROVE  /\ stack' \in Seq(CallSet) /\ stack' # <<>> /\ Len(stack') = Len(stack)
           /\ Calls' = Calls /\ Calls = 1..Len(stack) /\ Len(stack) \in Nat
           /\ Len(stack) \in Calls
           /\ stack'[Len(stack)].at = l /\ stack'[Len(stack)].hand = w
           /\ \A i \in Calls : i # Len(stack) => stack'[i] = stack[i]
  <1> DEFINE r == [at |-> l, hand |-> w]
  <1>1. stack \in Seq(CallSet) /\ r \in CallSet /\ r.at = l /\ r.hand = w
    BY DEF TypeOK, CallSet
  <1>2. stack' = [stack EXCEPT ![Len(stack)] = r]
    BY DEF GotoWith
  <1> HIDE DEF r
  <1>3. /\ Len(stack) \in Nat /\ Len(stack) >= 1 /\ DOMAIN stack = 1..Len(stack)
        /\ Len(stack) \in 1..Len(stack)
    <2>1. Len(stack) \in Nat \ {0}
      BY <1>1, EmptySeq
    <2> QED
      BY <1>1, <2>1, LenProperties
  <1>4. /\ stack' \in Seq(CallSet) /\ Len(stack') = Len(stack) /\ DOMAIN stack' = 1..Len(stack)
        /\ stack'[Len(stack)] = r
        /\ \A i \in 1..Len(stack) : i # Len(stack) => stack'[i] = stack[i]
    <2>1. /\ stack' \in Seq(CallSet) /\ Len(stack') = Len(stack)
          /\ \A i \in 1..Len(stack) : stack'[i] = IF i = Len(stack) THEN r ELSE stack[i]
      BY <1>1, <1>2, <1>3, ExceptSeq
    <2>2. DOMAIN stack' = 1..Len(stack)
      BY <2>1, LenProperties
    <2> QED
      BY <1>3, <2>1, <2>2
  <1>5. stack' # <<>>
    <2>1. DOMAIN stack' # {}
      BY <1>3, <1>4
    <2>2. DOMAIN <<>> = {}
      BY EmptySeq, LenProperties
    <2> QED
      BY <2>1, <2>2
  <1> QED
    BY <1>1, <1>3, <1>4, <1>5 DEF Calls

-----------------------------------------------------------------------------
(* The hands.  Holder 0 is the flush loop, holder i the i-th call of stop(). *)

Holders == Calls \cup {0}
HandOf(k) == IF k = 0 THEN flushHand ELSE stack[k].hand

InHands == {HandOf(k) : k \in Holders} \ {0}

HandsSound ==
    /\ DOMAIN windows = Published \cup InHands
    /\ Published \cap InHands = {}
    /\ \A j, k \in Holders : HandOf(j) # 0 /\ HandOf(j) = HandOf(k) => j = k

ObsSound ==
    /\ handled = InObs \cup InWindows \cup turnedAway
    /\ turnedAway \cap (InObs \cup InWindows) = {}
    /\ \A m, n \in Macs : m # n => obs[m] \cap obs[n] = {}
    /\ \A v, w \in DOMAIN windows : v # w => windows[v] \cap windows[w] = {}
    /\ \A w \in DOMAIN windows : windows[w] \cap InObs = {}

LEMMA CountedInTwoParts ==
    ASSUME TypeOK
    PROVE  CountedOnce <=> ObsSound /\ HandsSound
  <1>1. /\ 0 \notin Calls /\ Calls = 1..Len(stack) /\ Len(stack) \in Nat
    BY DEF TypeOK, Calls
  <1>2. HandOf(0) = flushHand /\ \A i \in Calls : HandOf(i) = stack[i].hand
    BY <1>1 DEF HandOf
  <1>3. InHands = Hands
    BY <1>1, <1>2 DEF InHands, Hands, Holders
  <1>4. ASSUME CountedOnce, NEW j \in Holders, NEW k \in Holders, HandOf(j) # 0, HandOf(j) = HandOf(k)
        PROVE  j = k
    BY <1>1, <1>2, <1>4 DEF CountedOnce, Holders
  <1>5. ASSUME HandsSound, NEW i \in Calls, stack[i].hand # 0
        PROVE  stack[i].hand \notin {flushHand} \cup {stack[j].hand : j \in Calls \ {i}}
    BY <1>1, <1>2, <1>5 DEF HandsSound, Holders
  <1> QED
    BY <1>3, <1>4, <1>5 DEF CountedOnce, ObsSound, HandsSound

LEMMA HandsKept ==
    ASSUME HandsSound, Holders \subseteq Holders', DOMAIN windows' = DOMAIN windows,
           Published' = Published,
           \A k \in Holders : HandOf(k)' = HandOf(k),
           \A k \in Holders' : k \notin Holders => HandOf(k)' = 0
    PROVE  HandsSound'
  <1>1. InHands' = InHands
    BY DEF InHands
  <1>2. ASSUME NEW j \in Holders', NEW k \in Holders', HandOf(j)' # 0, HandOf(j)' = HandOf(k)'
        PROVE  j = k
    BY <1>2 DEF HandsSound
  <1> QED
    BY <1>1, <1>2 DEF HandsSound

LEMMA HolderTakes ==
    ASSUME HandsSound, Holders' = Holders, NEW k \in Holders, NEW n, n # 0,
           n \notin DOMAIN windows, DOMAIN windows' = DOMAIN windows \cup {n},
           Published' = Published, HandOf(k) = 0, HandOf(k)' = n,
           \A j \in Holders : j # k => HandOf(j)' = HandOf(j)
    PROVE  HandsSound'
  <1>1. \A j \in Holders : HandOf(j) # n
    BY DEF HandsSound, InHands
  <1>2. InHands' = InHands \cup {n}
    BY DEF InHands
  <1>3. \A i, j \in Holders' : HandOf(i)' # 0 /\ HandOf(i)' = HandOf(j)' => i = j
    BY <1>1 DEF HandsSound
  <1> QED
    BY <1>2, <1>3 DEF HandsSound

LEMMA HolderPublishes ==
    ASSUME HandsSound, Holders' = Holders, NEW k \in Holders, HandOf(k) # 0,
           DOMAIN windows' = DOMAIN windows, Published' = Published \cup {HandOf(k)},
           HandOf(k)' = 0,
           \A j \in Holders : j # k => HandOf(j)' = HandOf(j)
    PROVE  HandsSound'
  <1>1. \A j \in Holders : j # k => HandOf(j) # HandOf(k)
    BY DEF HandsSound
  <1>2. InHands' = InHands \ {HandOf(k)}
    BY <1>1 DEF InHands
  <1>3. \A i, j \in Holders' : HandOf(i)' # 0 /\ HandOf(i)' = HandOf(j)' => i = j
    BY DEF HandsSound
  <1>4. HandOf(k) \in InHands
    BY DEF InHands
  <1> QED
    BY <1>2, <1>3, <1>4 DEF HandsSound

-----------------------------------------------------------------------------
(* Type correctness. *)

LEMMA TypeInit == Init => TypeOK /\ IsFiniteSet(Known)
  <1> SUFFICES ASSUME Init PROVE TypeOK /\ IsFiniteSet(Known)
    OBVIOUS
  <1>1. Known = {}
    BY DEF Init, Known
  <1>2. IsFiniteSet(Known) /\ Cardinality(Known) <= MaxObs
    BY <1>1, FS_EmptySet, MaxAssumption
  <1>3. windows \in Seq(SUBSET Packets) /\ Len(windows) <= MaxWindows
    BY MaxAssumption DEF Init
  <1>4. stack \in Seq(CallSet) /\ delivered \in Seq(WindowIds)
    BY DEF Init, Transport!Init
  <1>5. flushHand \in 0..MaxWindows
    BY MaxAssumption DEF Init
  <1> QED
    BY <1>2, <1>3, <1>4, <1>5 DEF Init, TypeOK, Transport!Init, CallSet

LEMMA HandlePacketTypes ==
    ASSUME TypeOK, IsFiniteSet(Known), NEW c \in Captures, NEW p \in Packets, NEW m \in Macs,
           HandlePacket(c, p, m)
    PROVE  TypeOK' /\ IsFiniteSet(Known')
  <1>1. capture' \in [Captures -> {"none", "sniffing", "done"}]
    BY DEF TypeOK, HandlePacket, SniffNext
  <1>2. /\ UNCHANGED <<running, locked, windows, flusher, flushHand, main, stack, stopped>>
        /\ UNCHANGED <<pending, delivered, gone>>
    BY DEF HandlePacket, transportVars
  <1>3. CASE AtCap
    BY <1>1, <1>2, <1>3 DEF HandlePacket, TypeOK, Known
  <1>4. CASE ~AtCap
    <2>1. /\ obs' = [obs EXCEPT ![m] = obs[m] \cup {p}] /\ late' \in {late, late \cup {p}}
          /\ handled' = handled \cup {p} /\ UNCHANGED turnedAway
      BY <1>4 DEF HandlePacket, Merged
    <2>2. obs' \in [Macs -> SUBSET Packets] /\ late' \in SUBSET Packets /\ handled' \in SUBSET Packets
      BY <2>1 DEF TypeOK
    <2>3. Known' = Known \cup {m}
      <3>1. \A n \in Macs : obs'[n] = IF n = m THEN obs[m] \cup {p} ELSE obs[n]
        BY <2>1 DEF TypeOK
      <3> QED
        BY <3>1 DEF Known
    <2>4. Cardinality(Known) \in Nat /\ Cardinality(Known) < MaxObs
      BY <1>4, FS_CardinalityType, MaxAssumption DEF AtCap
    <2>5. /\ IsFiniteSet(Known')
          /\ Cardinality(Known') = Cardinality(Known) \/ Cardinality(Known') = Cardinality(Known) + 1
      BY <2>3, FS_AddElement
    <2>6. Cardinality(Known') <= MaxObs
      BY <2>4, <2>5, MaxAssumption
    <2> QED
      BY <1>1, <1>2, <2>1, <2>2, <2>5, <2>6 DEF TypeOK
  <1> QED
    BY <1>3, <1>4

LEMMA TypeStep ==
    TypeOK /\ IsFiniteSet(Known) /\ HandsOK /\ [Next]_vars => TypeOK' /\ IsFiniteSet(Known')
  <1> SUFFICES ASSUME TypeOK, IsFiniteSet(Known), HandsOK, [Next]_vars
               PROVE  TypeOK' /\ IsFiniteSet(Known')
    OBVIOUS
  <1>0. /\ MaxWindows \in Nat /\ 0 \in 0..MaxWindows
        /\ stack \in Seq(CallSet)
        /\ \A w \in WindowIds : w \in 0..MaxWindows
    BY MaxAssumption DEF TypeOK, CallSet, WindowIds
  <1>1. ASSUME UNCHANGED <<obs, seen>>
        PROVE  Known' = Known /\ late' \in SUBSET Packets /\ handled' \in SUBSET Packets
               /\ turnedAway' \in SUBSET Packets /\ obs' \in [Macs -> SUBSET Packets]
               /\ IsFiniteSet(Known') /\ Cardinality(Known') <= MaxObs
    BY <1>1 DEF Known, TypeOK, seen
  <1>2. ASSUME NEW c \in Captures, NEW p \in Packets, NEW m \in Macs, HandlePacket(c, p, m)
        PROVE  TypeOK' /\ IsFiniteSet(Known')
    BY <1>2, HandlePacketTypes
  <1>3. ASSUME BuildWindow
        PROVE  /\ windows' \in Seq(SUBSET Packets) /\ Len(windows') <= MaxWindows
               /\ obs' \in [Macs -> SUBSET Packets]
               /\ IsFiniteSet(Known') /\ Cardinality(Known') <= MaxObs
               /\ NewWindow \in 0..MaxWindows
    <2>1. /\ windows' \in Seq(SUBSET Packets) /\ Len(windows') <= MaxWindows
          /\ obs' = [m \in Macs |-> {}] /\ NewWindow \in WindowIds /\ Known' = {}
      BY <1>3, BuildFacts
    <2>2. IsFiniteSet(Known') /\ Cardinality(Known') <= MaxObs
      BY <2>1, FS_EmptySet, MaxAssumption
    <2> QED
      BY <1>0, <2>1, <2>2
  <1>4. CASE FlusherTest \/ (\E c \in Captures : StartRadio(c)) \/ StartFlusher \/ CtrlC
    <2>1. UNCHANGED <<obs, seen, locked, windows, flushHand, stack, stopped, pending, delivered, gone, running>>
      BY <1>4 DEF FlusherTest, StartRadio, StartFlusher, CtrlC, transportVars
    <2>2. /\ capture' \in [Captures -> {"none", "sniffing", "done"}]
          /\ flusher' \in {"none", "while", "sleep", "publish", "done"}
          /\ main' \in {"starting", "looping", "exited"}
      BY <1>4 DEF FlusherTest, StartRadio, StartFlusher, CtrlC, TypeOK
    <2> QED
      BY <1>1, <2>1, <2>2 DEF TypeOK
  <1>5. CASE FlusherBuild
    <2>1. UNCHANGED <<capture, locked, stack, stopped, pending, delivered, gone, running, main, seen>>
      BY <1>5 DEF FlusherBuild, transportVars
    <2>2. flusher' \in {"none", "while", "sleep", "publish", "done"}
      BY <1>5 DEF FlusherBuild
    <2>3. CASE InObs = {}
      BY <1>1, <1>5, <2>1, <2>2, <2>3 DEF TypeOK, FlusherBuild
    <2>4. CASE InObs # {}
      BY <1>3, <1>5, <2>1, <2>2, <2>4 DEF TypeOK, FlusherBuild, seen
    <2> QED
      BY <2>3, <2>4
  <1>6. CASE FlusherPublish
    <2>1. /\ UNCHANGED <<obs, seen, capture, locked, windows, stack, stopped, running, main>>
          /\ flusher' = "while" /\ flushHand' = 0
      BY <1>6 DEF FlusherPublish
    <2>2. flushHand \in WindowIds
      BY <1>0, <1>6 DEF FlusherPublish, HandsOK, TypeOK, WindowIds
    <2>3. (pending \cup gone \subseteq WindowIds)' /\ UNCHANGED delivered
      BY <1>6, <2>2, PublishFacts DEF FlusherPublish
    <2> QED
      BY <1>0, <1>1, <2>1, <2>3 DEF TypeOK
  <1>7. CASE CallStop
    <2>1. UNCHANGED <<obs, seen, capture, locked, windows, flusher, flushHand, stopped, running, main,
                      pending, delivered, gone>>
      BY <1>7 DEF CallStop, transportVars
    <2>2. stack' \in Seq(CallSet)
      <3>1. [at |-> "clear", hand |-> 0] \in CallSet
        BY <1>0 DEF CallSet
      <3> QED
        BY <1>0, <1>7, <3>1, AppendProperties DEF CallStop
    <2> QED
      BY <1>1, <2>1, <2>2 DEF TypeOK, CallSet
  <1>8. CASE StopClear \/ StopHoppers \/ StopAcquire
    <2>1. /\ UNCHANGED <<obs, seen, capture, windows, flusher, flushHand, stopped, main>>
          /\ UNCHANGED <<pending, delivered, gone>>
          /\ running' \in BOOLEAN /\ locked' \in BOOLEAN
      BY <1>8 DEF StopClear, StopHoppers, StopAcquire, transportVars, TypeOK
    <2>2. stack # <<>> /\ \E l \in {"hoppers", "acquire", "build"} : GotoWith(l, 0)
      BY <1>8 DEF StopClear, StopHoppers, StopAcquire, At, Goto, ThenFlush
    <2>3. stack' \in Seq(CallSet)
      BY <1>0, <2>2, TopMoves
    <2> QED
      BY <1>1, <2>1, <2>3 DEF TypeOK, CallSet
  <1>9. CASE StopBuild
    <2>1. /\ UNCHANGED <<seen, capture, flusher, flushHand, stopped, main, running>>
          /\ UNCHANGED <<pending, delivered, gone>>
          /\ locked' \in BOOLEAN /\ stack # <<>>
      BY <1>9 DEF StopBuild, transportVars, At
    <2>2. CASE InObs = {}
      <3>1. UNCHANGED <<windows, obs>> /\ GotoWith("drain", 0)
        BY <1>9, <2>2 DEF StopBuild, Goto
      <3>2. stack' \in Seq(CallSet)
        BY <1>0, <2>1, <3>1, TopMoves
      <3> QED
        BY <1>1, <2>1, <3>1, <3>2 DEF TypeOK, CallSet
    <2>3. CASE InObs # {}
      <3>1. BuildWindow /\ GotoWith("publish", NewWindow)
        BY <1>9, <2>3 DEF StopBuild
      <3>2. stack' \in Seq(CallSet)
        BY <1>3, <2>1, <3>1, TopMoves
      <3> QED
        BY <1>3, <2>1, <3>1, <3>2 DEF TypeOK, CallSet, seen
    <2> QED
      BY <2>2, <2>3
  <1>10. CASE StopPublish
    <2>1. /\ UNCHANGED <<obs, seen, capture, locked, windows, flusher, flushHand, stopped, running, main>>
          /\ stack # <<>> /\ GotoWith("drain", 0) /\ Publish(Top.hand) /\ Top.at = "publish"
      BY <1>10 DEF StopPublish, At, Goto
    <2>2. stack' \in Seq(CallSet) /\ Len(stack) \in Calls
      BY <1>0, <2>1, TopMoves
    <2>3. Top.hand \in WindowIds
      <3>1. Top.hand # 0 /\ Top \in CallSet
        BY <1>0, <2>1, <2>2, ElementOfSeq, LenProperties DEF HandsOK, Top, Calls
      <3> QED
        BY <1>0, <3>1 DEF CallSet, WindowIds
    <2>4. (pending \cup gone \subseteq WindowIds)' /\ UNCHANGED delivered
      BY <2>1, <2>3, PublishFacts
    <2> QED
      BY <1>1, <2>1, <2>2, <2>4 DEF TypeOK, CallSet
  <1>11. CASE StopExit
    BY <1>1, <1>11 DEF StopExit, transportVars, TypeOK
  <1>12. CASE TransportStep
    <2>1. UNCHANGED agentVars
      BY <1>12 DEF TransportStep
    <2> QED
      BY <1>1, <1>12, <2>1, TransportFacts DEF agentVars, TypeOK
  <1>13. CASE UNCHANGED vars
    BY <1>1, <1>13 DEF vars, agentVars, transportVars, TypeOK
  <1> QED
    BY <1>2, <1>4, <1>5, <1>6, <1>7, <1>8, <1>9, <1>10, <1>11, <1>12, <1>13 DEF Next, Stop

-----------------------------------------------------------------------------
(* The hands and the observations. *)

LEMMA HandsOKStep == TypeOK /\ HandsOK /\ [Next]_vars => HandsOK'
  <1> SUFFICES ASSUME TypeOK, HandsOK, [Next]_vars
               PROVE  HandsOK'
    OBVIOUS
  <1>0. 0 \in 0..MaxWindows
    BY MaxAssumption
  <1>1. CASE UNCHANGED <<flusher, flushHand, stack>> /\ main' \in {main, "exited"}
    BY <1>1 DEF HandsOK, Calls
  <1>2. ASSUME NEW c \in Captures, NEW p \in Packets, NEW m \in Macs, HandlePacket(c, p, m)
        PROVE  HandsOK'
    BY <1>1, <1>2 DEF HandlePacket
  <1>3. ASSUME NEW c \in Captures, StartRadio(c)
        PROVE  HandsOK'
    BY <1>1, <1>3 DEF StartRadio
  <1>4. CASE CtrlC \/ StopExit \/ TransportStep \/ UNCHANGED vars
    BY <1>1, <1>4 DEF CtrlC, StopExit, TransportStep, vars, agentVars
  <1>5. CASE FlusherTest \/ FlusherPublish
    <2>1. UNCHANGED <<stack, main>> /\ main # "starting"
      BY <1>5 DEF FlusherTest, FlusherPublish, HandsOK
    <2>2. flushHand' = 0 /\ flusher' # "publish"
      BY <1>5 DEF FlusherTest, FlusherPublish, HandsOK
    <2> QED
      BY <2>1, <2>2 DEF HandsOK, Calls
  <1>11. CASE StartFlusher
    <2>1. UNCHANGED <<stack, flushHand>> /\ flusher' = "while" /\ main' = "looping"
      BY <1>11 DEF StartFlusher
    <2>2. flusher = "none"
      BY <1>11 DEF StartFlusher, HandsOK
    <2> QED
      BY <2>1, <2>2 DEF HandsOK, Calls
  <1>6. CASE FlusherBuild
    <2>1. UNCHANGED <<stack, main>> /\ flusher = "sleep" /\ main # "starting"
      BY <1>6 DEF FlusherBuild, HandsOK
    <2>2. \/ flusher' = "while" /\ flushHand' = flushHand
          \/ flusher' = "publish" /\ flushHand' # 0
      BY <1>6, BuildFacts DEF FlusherBuild
    <2> QED
      BY <2>1, <2>2 DEF HandsOK, Calls
  <1>7. CASE CallStop
    <2>1. /\ UNCHANGED <<flusher, flushHand, main>>
          /\ stack' = Append(stack, [at |-> "clear", hand |-> 0])
      BY <1>7 DEF CallStop
    <2>2. stack \in Seq(CallSet) /\ [at |-> "clear", hand |-> 0] \in CallSet
      BY <1>0 DEF TypeOK, CallSet
    <2>3. /\ DOMAIN stack' = 1..(Len(stack) + 1) /\ DOMAIN stack = 1..Len(stack) /\ Len(stack) \in Nat
          /\ \A i \in 1..Len(stack) : stack'[i] = stack[i]
          /\ stack'[Len(stack) + 1] = [at |-> "clear", hand |-> 0]
      BY <2>1, <2>2, AppendProperties, LenProperties
    <2>4. \A i \in DOMAIN stack' : stack'[i].hand # 0 <=> stack'[i].at = "publish"
      BY <2>3 DEF HandsOK, Calls
    <2> QED
      BY <2>1, <2>4 DEF HandsOK, Calls
  <1>8. ASSUME stack # <<>>, NEW l \in {"clear", "hoppers", "acquire", "build", "publish", "drain"},
               NEW w \in 0..MaxWindows, GotoWith(l, w), l = "publish" <=> w # 0,
               UNCHANGED <<flusher, flushHand, main>>
        PROVE  HandsOK'
    BY <1>8, TopMoves DEF HandsOK
  <1>9. CASE StopClear \/ StopHoppers \/ StopAcquire \/ StopPublish
    <2>1. /\ stack # <<>> /\ UNCHANGED <<flusher, flushHand, main>>
          /\ \E l \in {"hoppers", "acquire", "build", "drain"} : GotoWith(l, 0)
      BY <1>9 DEF StopClear, StopHoppers, StopAcquire, StopPublish, At, Goto, ThenFlush
    <2> QED
      BY <1>0, <1>8, <2>1
  <1>10. CASE StopBuild
    <2>1. stack # <<>> /\ UNCHANGED <<flusher, flushHand, main>>
      BY <1>10 DEF StopBuild, At
    <2>2. CASE InObs = {}
      BY <1>0, <1>8, <1>10, <2>1, <2>2 DEF StopBuild, Goto
    <2>3. CASE InObs # {}
      <3>1. NewWindow \in 0..MaxWindows /\ NewWindow # 0 /\ GotoWith("publish", NewWindow)
        BY <1>10, <2>3, BuildFacts DEF StopBuild, WindowIds
      <3> QED
        BY <1>8, <2>1, <3>1
    <2> QED
      BY <2>2, <2>3
  <1> QED
    BY <1>2, <1>3, <1>4, <1>5, <1>6, <1>7, <1>9, <1>10, <1>11 DEF Next, Stop

(* The observations change only with a packet that is nowhere yet, and with
   a window that takes all of them. *)
LEMMA ObsStep == TypeOK /\ ObsSound /\ [Next]_vars => ObsSound'
  <1> SUFFICES ASSUME TypeOK, ObsSound, [Next]_vars
               PROVE  ObsSound'
    OBVIOUS
  <1>1. CASE UNCHANGED <<obs, windows, handled, turnedAway>>
    BY <1>1 DEF ObsSound, InObs, InWindows
  <1>2. ASSUME NEW c \in Captures, NEW p \in Packets, NEW m \in Macs, HandlePacket(c, p, m)
        PROVE  ObsSound'
    <2>1. UNCHANGED windows /\ InWindows' = InWindows /\ handled' = handled \cup {p}
      BY <1>2 DEF HandlePacket, InWindows
    <2>4. p \notin InObs /\ p \notin InWindows /\ p \notin turnedAway
      BY <1>2 DEF HandlePacket, ObsSound
    <2>2. CASE AtCap
      <3>1. InObs' = InObs /\ UNCHANGED obs /\ turnedAway' = turnedAway \cup {p}
        BY <1>2, <2>2 DEF HandlePacket, InObs
      <3> QED
        BY <2>1, <2>4, <3>1 DEF ObsSound
    <2>3. CASE ~AtCap
      <3>1. p \notin InObs /\ \A w \in DOMAIN windows : p \notin windows[w]
        BY <2>4 DEF InWindows
      <3>2. /\ \A n \in Macs : obs'[n] = IF n = m THEN obs[m] \cup {p} ELSE obs[n]
            /\ UNCHANGED turnedAway
        BY <1>2, <2>3 DEF HandlePacket, TypeOK, Merged
      <3>3. InObs' = InObs \cup {p}
        BY <3>2 DEF InObs
      <3>4. \A n \in Macs : p \notin obs[n]
        BY <3>1 DEF InObs
      <3>5. \A n, k \in Macs : n # k => obs'[n] \cap obs'[k] = {}
        BY <3>2, <3>4 DEF ObsSound
      <3>6. /\ handled' = InObs' \cup InWindows' \cup turnedAway'
            /\ turnedAway' \cap (InObs' \cup InWindows') = {}
        BY <2>1, <2>4, <3>2, <3>3 DEF ObsSound
      <3> QED
        BY <2>1, <3>1, <3>3, <3>5, <3>6 DEF ObsSound
    <2> QED
      BY <2>2, <2>3
  <1>3. ASSUME BuildWindow, UNCHANGED <<handled, turnedAway>>
        PROVE  ObsSound'
    <2>1. /\ NewWindow \notin DOMAIN windows
          /\ DOMAIN windows' = DOMAIN windows \cup {NewWindow}
          /\ \A w \in DOMAIN windows : windows'[w] = windows[w]
          /\ windows'[NewWindow] = InObs
          /\ obs' = [m \in Macs |-> {}] /\ InObs' = {}
      BY <1>3, BuildFacts
    <2>2. \A v, w \in DOMAIN windows' : v # w => windows'[v] \cap windows'[w] = {}
      BY <2>1 DEF ObsSound
    <2>3. InWindows' = InWindows \cup InObs
      BY <2>1 DEF InWindows
    <2>4. /\ handled' = InObs' \cup InWindows' \cup turnedAway'
          /\ turnedAway' \cap (InObs' \cup InWindows') = {}
      BY <1>3, <2>1, <2>3 DEF ObsSound
    <2> QED
      BY <2>1, <2>2, <2>4 DEF ObsSound
  <1>4. CASE FlusherBuild
    BY <1>1, <1>3, <1>4 DEF FlusherBuild, seen
  <1>5. CASE StopBuild
    BY <1>1, <1>3, <1>5 DEF StopBuild, seen
  <1>6. ASSUME NEW c \in Captures, StartRadio(c)
        PROVE  ObsSound'
    BY <1>1, <1>6 DEF StartRadio, seen
  <1>7. CASE FlusherTest \/ FlusherPublish \/ StartFlusher \/ CallStop \/ CtrlC \/ StopClear
             \/ StopHoppers \/ StopAcquire \/ StopPublish \/ StopExit \/ TransportStep \/ UNCHANGED vars
    BY <1>1, <1>7 DEF seen, FlusherTest, FlusherPublish, StartFlusher, CallStop, CtrlC, StopClear,
       StopHoppers, StopAcquire, StopPublish, StopExit, TransportStep, vars, agentVars
  <1> QED
    BY <1>2, <1>4, <1>5, <1>6, <1>7 DEF Next, Stop

LEMMA TopIsHolder ==
    ASSUME TypeOK, stack # <<>>,
           NEW l \in {"clear", "hoppers", "acquire", "build", "publish", "drain"},
           NEW w \in 0..MaxWindows, GotoWith(l, w), UNCHANGED flushHand
    PROVE  /\ Holders' = Holders
           /\ \E k \in Holders : /\ HandOf(k) = Top.hand /\ HandOf(k)' = w
                               /\ \A j \in Holders : j # k => HandOf(j)' = HandOf(j)
  <1>1. /\ Calls' = Calls /\ Calls = 1..Len(stack) /\ Len(stack) \in Calls /\ Len(stack) # 0
        /\ stack'[Len(stack)].hand = w
        /\ \A i \in Calls : i # Len(stack) => stack'[i] = stack[i]
    BY TopMoves
  <1>2. Holders' = Holders
    BY <1>1 DEF Holders
  <1>3. PICK k \in Calls : k = Len(stack)
    BY <1>1
  <1>4. k \in Holders /\ HandOf(k) = Top.hand /\ HandOf(k)' = w
    BY <1>1, <1>3 DEF HandOf, Top, Holders
  <1>5. \A j \in Holders : j # k => HandOf(j)' = HandOf(j)
    BY <1>1, <1>3 DEF HandOf, Holders
  <1> QED
    BY <1>2, <1>4, <1>5

LEMMA HandsStep == TypeOK /\ HandsOK /\ HandsSound /\ [Next]_vars => HandsSound'
  <1> SUFFICES ASSUME TypeOK, HandsOK, HandsSound, [Next]_vars
               PROVE  HandsSound'
    OBVIOUS
  <1>0. 0 \in 0..MaxWindows /\ 0 \in Holders /\ HandOf(0) = flushHand /\ 0 \notin Calls
        /\ \A i \in Calls : i # 0
    BY MaxAssumption DEF Holders, HandOf, TypeOK, Calls
  <1>1. ASSUME UNCHANGED <<windows, flushHand, stack>>, Published' = Published
        PROVE  HandsSound'
    <2>1. Holders' = Holders /\ \A k \in Holders : HandOf(k)' = HandOf(k)
      BY <1>1 DEF Holders, HandOf, Calls
    <2> QED
      BY <1>1, <2>1, HandsKept
  <1>2. ASSUME UNCHANGED <<pending, delivered, gone>>
        PROVE  Published' = Published
    BY <1>2 DEF Published, Transport!DeliveredSet
  <1>3. ASSUME NEW c \in Captures, NEW p \in Packets, NEW m \in Macs, HandlePacket(c, p, m)
        PROVE  HandsSound'
    BY <1>1, <1>2, <1>3 DEF HandlePacket, transportVars
  <1>4. ASSUME NEW c \in Captures, StartRadio(c)
        PROVE  HandsSound'
    BY <1>1, <1>2, <1>4 DEF StartRadio, transportVars
  <1>5. CASE FlusherTest \/ StartFlusher \/ CtrlC \/ StopExit \/ UNCHANGED vars
    BY <1>1, <1>2, <1>5 DEF FlusherTest, StartFlusher, CtrlC, StopExit, vars, agentVars, transportVars
  <1>6. CASE TransportStep
    BY <1>1, <1>6, TransportFacts DEF TransportStep, agentVars
  <1>7. CASE FlusherBuild
    <2>1. UNCHANGED stack /\ Published' = Published /\ flusher = "sleep"
      BY <1>2, <1>7 DEF FlusherBuild, transportVars
    <2>2. CASE InObs = {}
      BY <1>1, <1>7, <2>1, <2>2 DEF FlusherBuild
    <2>3. CASE InObs # {}
      <3>1. BuildWindow /\ flushHand' = NewWindow
        BY <1>7, <2>3 DEF FlusherBuild
      <3>2. /\ NewWindow # 0 /\ NewWindow \notin DOMAIN windows
            /\ DOMAIN windows' = DOMAIN windows \cup {NewWindow}
        BY <3>1, BuildFacts
      <3>3. HandOf(0) = 0
        BY <1>0, <2>1 DEF HandsOK
      <3>4. HandOf(0)' = NewWindow
        BY <3>1 DEF HandOf
      <3>5. Holders' = Holders /\ \A j \in Holders : j # 0 => HandOf(j)' = HandOf(j)
        BY <2>1 DEF Holders, HandOf, Calls
      <3> QED
        BY <1>0, <2>1, <3>2, <3>3, <3>4, <3>5, HolderTakes
    <2> QED
      BY <2>2, <2>3
  <1>8. CASE FlusherPublish
    <2>1. UNCHANGED <<windows, stack>> /\ flusher = "publish" /\ flushHand' = 0 /\ Publish(flushHand)
      BY <1>8 DEF FlusherPublish
    <2>2. flushHand # 0 /\ flushHand \in WindowIds
      BY <2>1, MaxAssumption DEF HandsOK, TypeOK, WindowIds
    <2>3. Published' = Published \cup {HandOf(0)} /\ HandOf(0) # 0
      BY <1>0, <2>1, <2>2, PublishFacts
    <2>4. HandOf(0)' = 0
      BY <2>1 DEF HandOf
    <2>5. Holders' = Holders /\ \A j \in Holders : j # 0 => HandOf(j)' = HandOf(j)
      BY <2>1 DEF Holders, HandOf, Calls
    <2> QED
      BY <1>0, <2>1, <2>3, <2>4, <2>5, HolderPublishes
  <1>9. CASE CallStop
    <2>1. /\ UNCHANGED <<windows, flushHand>> /\ Published' = Published
          /\ stack' = Append(stack, [at |-> "clear", hand |-> 0])
      BY <1>2, <1>9 DEF CallStop, transportVars
    <2>2. stack \in Seq(CallSet) /\ [at |-> "clear", hand |-> 0] \in CallSet
      BY <1>0 DEF TypeOK, CallSet
    <2>3. /\ DOMAIN stack' = 1..(Len(stack) + 1) /\ DOMAIN stack = 1..Len(stack) /\ Len(stack) \in Nat
          /\ \A i \in 1..Len(stack) : stack'[i] = stack[i]
          /\ stack'[Len(stack) + 1] = [at |-> "clear", hand |-> 0]
      BY <2>1, <2>2, AppendProperties, LenProperties
    <2>4. Holders \subseteq Holders'
      BY <2>3 DEF Holders, Calls
    <2>5. \A k \in Holders : HandOf(k)' = HandOf(k)
      <3>1. HandOf(0)' = HandOf(0)
        BY <2>1 DEF HandOf
      <3>2. \A k \in Calls : HandOf(k)' = HandOf(k)
        BY <1>0, <2>3 DEF Calls, HandOf
      <3> QED
        BY <3>1, <3>2 DEF Holders
    <2>6. \A k \in Holders' : k \notin Holders => HandOf(k)' = 0
      <3>1. \A k \in Holders' : k \notin Holders => k = Len(stack) + 1
        BY <2>3 DEF Holders, Calls
      <3>2. stack'[Len(stack) + 1].hand = 0 /\ Len(stack) + 1 # 0
        BY <2>3
      <3> QED
        BY <3>1, <3>2 DEF HandOf
    <2> QED
      BY <2>1, <2>4, <2>5, <2>6, HandsKept
  <1>10. ASSUME stack # <<>>, UNCHANGED <<windows, flushHand>>, Published' = Published, Top.hand = 0,
                NEW l \in {"hoppers", "acquire", "build", "drain"}, GotoWith(l, 0)
         PROVE  HandsSound'
    <2>1. Holders' = Holders /\ \A j \in Holders : HandOf(j)' = HandOf(j)
      BY <1>0, <1>10, TopIsHolder
    <2>2. DOMAIN windows' = DOMAIN windows
      BY <1>10
    <2> QED
      BY <1>10, <2>1, <2>2, HandsKept
  <1>11. ASSUME stack # <<>>
         PROVE  Len(stack) \in Calls /\ (Top.hand # 0 <=> Top.at = "publish") /\ Top.hand \in 0..MaxWindows
    <2>1. Len(stack) \in Calls /\ Top \in CallSet
      <3>1. stack \in Seq(CallSet)
        BY DEF TypeOK, CallSet
      <3>2. Len(stack) \in 1..Len(stack) /\ DOMAIN stack = 1..Len(stack)
        BY <1>11, <3>1, EmptySeq, LenProperties
      <3> QED
        BY <3>1, <3>2, ElementOfSeq DEF Calls, Top
    <2> QED
      BY <2>1 DEF HandsOK, Top, CallSet
  <1>12. CASE StopClear \/ StopHoppers \/ StopAcquire
    <2>1. /\ stack # <<>> /\ UNCHANGED <<windows, flushHand, pending, delivered, gone>>
          /\ Top.at # "publish"
          /\ \E l \in {"hoppers", "acquire", "build", "drain"} : GotoWith(l, 0)
      BY <1>12 DEF StopClear, StopHoppers, StopAcquire, At, Goto, ThenFlush, transportVars
    <2> QED
      BY <1>2, <1>10, <1>11, <2>1
  <1>13. CASE StopBuild
    <2>1. /\ stack # <<>> /\ UNCHANGED <<flushHand, pending, delivered, gone>> /\ Top.at = "build"
      BY <1>13 DEF StopBuild, At, transportVars
    <2>2. CASE InObs = {}
      BY <1>2, <1>10, <1>11, <1>13, <2>1, <2>2 DEF StopBuild, Goto
    <2>3. CASE InObs # {}
      <3>1. BuildWindow /\ GotoWith("publish", NewWindow) /\ Top.hand = 0
        BY <1>11, <1>13, <2>1, <2>3 DEF StopBuild
      <3>2. /\ NewWindow # 0 /\ NewWindow \notin DOMAIN windows /\ NewWindow \in 0..MaxWindows
            /\ DOMAIN windows' = DOMAIN windows \cup {NewWindow} /\ NewWindow \in WindowIds
        BY <3>1, BuildFacts DEF WindowIds
      <3>3. PICK n \in WindowIds : n = NewWindow
        BY <3>2 DEF WindowIds
      <3>4. /\ Holders' = Holders
            /\ \E k \in Holders : /\ HandOf(k) = 0 /\ HandOf(k)' = n
                                /\ \A j \in Holders : j # k => HandOf(j)' = HandOf(j)
        BY <2>1, <3>1, <3>2, <3>3, TopIsHolder
      <3>5. Published' = Published
        BY <1>2, <2>1
      <3> QED
        BY <3>2, <3>3, <3>4, <3>5, HolderTakes
    <2> QED
      BY <2>2, <2>3
  <1>14. CASE StopPublish
    <2>1. /\ stack # <<>> /\ UNCHANGED <<windows, flushHand>> /\ Top.at = "publish"
          /\ Publish(Top.hand) /\ GotoWith("drain", 0)
      BY <1>14 DEF StopPublish, At, Goto
    <2>2. Top.hand # 0 /\ Top.hand \in WindowIds
      BY <1>11, <2>1 DEF WindowIds
    <2>3. /\ Holders' = Holders
          /\ \E k \in Holders : /\ HandOf(k) = Top.hand /\ HandOf(k)' = 0
                              /\ \A j \in Holders : j # k => HandOf(j)' = HandOf(j)
      BY <1>0, <2>1, TopIsHolder
    <2>4. Published' = Published \cup {Top.hand}
      BY <2>1, <2>2, PublishFacts
    <2>5. DOMAIN windows' = DOMAIN windows
      BY <2>1
    <2> QED
      BY <2>2, <2>3, <2>4, <2>5, HolderPublishes
  <1> QED
    BY <1>3, <1>4, <1>5, <1>6, <1>7, <1>8, <1>9, <1>12, <1>13, <1>14 DEF Next, Stop

-----------------------------------------------------------------------------
(* The late packets. *)

LEMMA LateStep ==
    TypeOK /\ LatePerRadio /\ [Next]_vars => LatePerRadio'
  <1> SUFFICES ASSUME TypeOK, LatePerRadio, [Next]_vars
               PROVE  LatePerRadio'
    OBVIOUS
  <1>0. /\ IsFiniteSet(DoneCaptures) /\ DoneCaptures \subseteq Captures
    <2>1. DoneCaptures \in SUBSET Captures
      BY DEF DoneCaptures
    <2> QED
      BY <2>1, CapturesAssumption, FS_Subset
  <1>1. CASE UNCHANGED late /\ DoneCaptures' = DoneCaptures
    BY <1>1 DEF LatePerRadio
  <1>2. ASSUME NEW c \in Captures, NEW p \in Packets, NEW m \in Macs, HandlePacket(c, p, m)
        PROVE  LatePerRadio'
    <2>1. /\ capture[c] = "sniffing"
          /\ \A d \in Captures : capture'[d] = IF d = c THEN SniffNext ELSE capture[d]
          /\ late' = late \/ (~running /\ late' = late \cup {p})
      BY <1>2 DEF HandlePacket, TypeOK
    <2>2. c \notin DoneCaptures
      BY <2>1 DEF DoneCaptures
    <2>3. CASE running
      <3>1. DoneCaptures' = DoneCaptures
        BY <2>1, <2>3 DEF DoneCaptures, SniffNext
      <3> QED
        BY <1>1, <2>1, <2>3, <3>1
    <2>4. CASE ~running
      <3>1. DoneCaptures' = DoneCaptures \cup {c}
        BY <2>1, <2>4 DEF DoneCaptures, SniffNext
      <3>2. Cardinality(DoneCaptures') = Cardinality(DoneCaptures) + 1
        BY <1>0, <2>2, <3>1, FS_AddElement
      <3>3. /\ IsFiniteSet(late')
            /\ Cardinality(late') = Cardinality(late) \/ Cardinality(late') = Cardinality(late) + 1
        BY <2>1, FS_AddElement DEF LatePerRadio
      <3>4. Cardinality(late) \in Nat /\ Cardinality(DoneCaptures) \in Nat
        BY <1>0, FS_CardinalityType DEF LatePerRadio
      <3> QED
        BY <3>2, <3>3, <3>4 DEF LatePerRadio
    <2> QED
      BY <2>3, <2>4 DEF TypeOK
  <1>3. ASSUME NEW c \in Captures, StartRadio(c)
        PROVE  LatePerRadio'
    <2>1. /\ UNCHANGED late /\ capture[c] = "none"
          /\ \A d \in Captures : capture'[d] = IF d = c THEN "sniffing" ELSE capture[d]
      BY <1>3 DEF seen, StartRadio, TypeOK
    <2>2. DoneCaptures' = DoneCaptures
      BY <2>1 DEF DoneCaptures
    <2> QED
      BY <1>1, <2>1, <2>2
  <1>4. CASE UNCHANGED <<late, capture>>
    BY <1>1, <1>4 DEF DoneCaptures
  <1>5. CASE FlusherTest \/ FlusherBuild \/ FlusherPublish \/ StartFlusher \/ CallStop \/ CtrlC
             \/ Stop \/ TransportStep \/ UNCHANGED vars
    BY <1>4, <1>5 DEF seen, FlusherTest, FlusherBuild, FlusherPublish, StartFlusher, CallStop, CtrlC, Stop,
       StopClear, StopHoppers, StopAcquire, StopBuild, StopPublish, StopExit, TransportStep, vars, agentVars
  <1> QED
    BY <1>2, <1>3, <1>5 DEF Next

-----------------------------------------------------------------------------
(* The order of stop(): once one of its calls is past the last window, what
   is observed is late. *)

PastFlush == \E i \in Calls : stack[i].at \in {"publish", "drain"}

LEMMA StopOrderStep ==
    TypeOK /\ StopOrder /\ [Next]_vars => StopOrder'
  <1> SUFFICES ASSUME TypeOK, StopOrder, [Next]_vars
               PROVE  StopOrder'
    OBVIOUS
  <1>0. stack \in Seq(CallSet) /\ 0 \in 0..MaxWindows
    BY MaxAssumption DEF TypeOK, CallSet
  <1>1. \A i \in Calls : stack[i].at \in {"publish", "drain"} => ~running
    BY DEF StopOrder
  (* Nothing of stop() moves. *)
  <1>2. ASSUME UNCHANGED <<stack, running, stopped>>, main' \in {main, "exited"} \/ main # "exited",
               PastFlush => InObs' \subseteq late'
        PROVE  StopOrder'
    BY <1>2 DEF StopOrder, Calls, Top, PastFlush
  <1>3. ASSUME UNCHANGED <<obs, late>>
        PROVE  PastFlush => InObs' \subseteq late'
    BY <1>3 DEF StopOrder, InObs, PastFlush
  <1>4. ASSUME NEW c \in Captures, NEW p \in Packets, NEW m \in Macs, HandlePacket(c, p, m)
        PROVE  StopOrder'
    <2>1. UNCHANGED <<stack, running, stopped, main>>
      BY <1>4 DEF HandlePacket
    <2>2. CASE UNCHANGED <<obs, late>>
      BY <1>2, <1>3, <2>1, <2>2
    <2>3. CASE ~AtCap
      <3>1. \A n \in Macs : obs'[n] = IF n = m THEN obs[m] \cup {p} ELSE obs[n]
        BY <1>4, <2>3 DEF HandlePacket, Merged, TypeOK
      <3>2. InObs' \subseteq InObs \cup {p}
        BY <3>1 DEF InObs
      <3>3. ~running => late' = late \cup {p}
        BY <1>4, <2>3 DEF HandlePacket
      <3>4. PastFlush => InObs' \subseteq late'
        BY <1>1, <3>2, <3>3 DEF PastFlush, StopOrder
      <3> QED
        BY <1>2, <2>1, <3>4
    <2> QED
      BY <1>4, <2>2, <2>3 DEF HandlePacket
  <1>5. ASSUME NEW c \in Captures, StartRadio(c)
        PROVE  StopOrder'
    BY <1>2, <1>3, <1>5 DEF seen, StartRadio
  <1>6. CASE FlusherTest \/ FlusherPublish \/ StartFlusher \/ CtrlC \/ TransportStep \/ UNCHANGED vars
    <2>1. /\ UNCHANGED <<stack, running, stopped, obs, late>>
          /\ main' \in {main, "exited"} \/ main # "exited"
      BY <1>6 DEF seen, FlusherTest, FlusherPublish, StartFlusher, CtrlC, TransportStep, vars, agentVars
    <2> QED
      BY <1>2, <1>3, <2>1
  <1>7. CASE FlusherBuild
    <2>1. UNCHANGED <<stack, running, stopped, main, late>>
      BY <1>7 DEF seen, FlusherBuild
    <2>2. UNCHANGED obs \/ InObs' = {}
      BY <1>7, BuildFacts DEF seen, FlusherBuild
    <2> QED
      BY <1>2, <1>3, <2>1, <2>2
  <1>8. CASE CallStop
    <2>1. /\ UNCHANGED <<running, stopped, obs, late>> /\ main # "exited" /\ main' = main
          /\ stack' = Append(stack, [at |-> "clear", hand |-> 0])
      BY <1>8 DEF seen, CallStop
    <2>2. [at |-> "clear", hand |-> 0] \in CallSet
      BY <1>0 DEF CallSet
    <2>3. /\ DOMAIN stack' = 1..(Len(stack) + 1) /\ DOMAIN stack = 1..Len(stack) /\ Len(stack) \in Nat
          /\ \A i \in 1..Len(stack) : stack'[i] = stack[i]
          /\ stack'[Len(stack) + 1] = [at |-> "clear", hand |-> 0]
      BY <1>0, <2>1, <2>2, AppendProperties, LenProperties
    <2>4. \A i \in DOMAIN stack' : (i \in DOMAIN stack /\ stack'[i] = stack[i]) \/ stack'[i].at = "clear"
      BY <2>3
    <2>5. \A i \in DOMAIN stack' : stack'[i].at # "clear" => ~running'
      BY <2>1, <2>4 DEF StopOrder, Calls
    <2>6. (\E i \in DOMAIN stack' : stack'[i].at \in {"publish", "drain"}) => InObs' \subseteq late'
      BY <1>3, <2>1, <2>4 DEF PastFlush, Calls
    <2>7. ~stopped'
      BY <2>1 DEF StopOrder
    <2> QED
      BY <2>5, <2>6, <2>7 DEF StopOrder, Calls
  (* The innermost call moves on. *)
  <1>9. ASSUME stack # <<>>, NEW l \in {"hoppers", "acquire", "build", "publish", "drain"},
               NEW w \in 0..MaxWindows, GotoWith(l, w), ~running', ~stopped'
        PROVE  /\ \A i \in Calls' : stack'[i].at # "clear" => ~running'
               /\ stopped' => (main = "exited" /\ stack # <<>> /\ Top.at = "drain")'
               /\ l \notin {"publish", "drain"} => (PastFlush' => PastFlush)
    <2>1. /\ Calls' = Calls /\ Len(stack) \in Calls /\ stack'[Len(stack)].at = l
          /\ \A i \in Calls : i # Len(stack) => stack'[i] = stack[i]
      BY <1>9, TopMoves
    <2> QED
      BY <1>9, <2>1 DEF PastFlush
  <1>10. stack # <<>> /\ Top.at # "clear" => ~running
    <2>1. stack # <<>> => Len(stack) \in Calls
      BY <1>0, EmptySeq, LenProperties DEF Calls
    <2> QED
      BY <2>1 DEF StopOrder, Top
  <1>11. main # "exited" => ~stopped
    BY DEF StopOrder
  <1>12. CASE StopClear \/ StopHoppers \/ StopAcquire
    <2>1. /\ stack # <<>> /\ ~running' /\ ~stopped' /\ UNCHANGED <<obs, late>>
          /\ \E l \in {"hoppers", "acquire", "build"} : GotoWith(l, 0)
      BY <1>10, <1>11, <1>12 DEF seen, StopClear, StopHoppers, StopAcquire, At, Goto, ThenFlush
    <2>2. PICK l \in {"hoppers", "acquire", "build"} : GotoWith(l, 0)
      BY <2>1
    <2>3. PastFlush' => InObs' \subseteq late'
      BY <1>0, <1>3, <1>9, <2>1, <2>2
    <2> QED
      BY <1>0, <1>9, <2>1, <2>2, <2>3 DEF StopOrder, PastFlush
  <1>13. CASE StopBuild
    <2>1. stack # <<>> /\ ~running' /\ ~stopped'
      BY <1>10, <1>11, <1>13 DEF seen, StopBuild, At
    <2>2. PICK l \in {"publish", "drain"}, w \in 0..MaxWindows : GotoWith(l, w)
      <3>1. CASE InObs = {}
        BY <1>0, <1>13, <3>1 DEF seen, StopBuild, Goto
      <3>2. CASE InObs # {}
        <4>1. NewWindow \in 0..MaxWindows /\ GotoWith("publish", NewWindow)
          BY <1>13, <3>2, BuildFacts DEF seen, StopBuild, WindowIds
        <4> QED
          BY <4>1
      <3> QED
        BY <3>1, <3>2
    <2>3. InObs' = {}
      <3>1. CASE InObs = {}
        BY <1>13, <3>1 DEF seen, StopBuild, InObs
      <3>2. CASE InObs # {}
        BY <1>13, <3>2, BuildFacts DEF seen, StopBuild
      <3> QED
        BY <3>1, <3>2
    <2> QED
      BY <1>9, <2>1, <2>2, <2>3 DEF StopOrder
  <1>14. CASE StopPublish
    <2>1. /\ stack # <<>> /\ ~running' /\ ~stopped' /\ UNCHANGED <<obs, late>>
          /\ GotoWith("drain", 0) /\ Top.at = "publish"
      BY <1>10, <1>11, <1>14 DEF seen, StopPublish, At, Goto
    <2>2. PastFlush
      BY <1>0, <2>1, TopMoves DEF PastFlush, Top
    <2>3. InObs' \subseteq late'
      BY <1>3, <2>1, <2>2
    <2> QED
      BY <1>0, <1>9, <2>1, <2>3 DEF StopOrder
  <1>15. CASE StopExit
    <2>1. UNCHANGED <<stack, running, obs, late>> /\ main' = "exited" /\ stack # <<>> /\ Top.at = "drain"
      BY <1>15 DEF StopExit, At, seen
    <2> QED
      BY <1>3, <2>1 DEF StopOrder, PastFlush, Calls, Top
  <1> QED
    BY <1>4, <1>5, <1>6, <1>7, <1>8, <1>12, <1>13, <1>14, <1>15 DEF Next, Stop

-----------------------------------------------------------------------------
(* The invariant holds. *)

LEMMA InvariantInit == Init => IInv
  <1> SUFFICES ASSUME Init PROVE IInv
    OBVIOUS
  <1>1. TypeOK /\ IsFiniteSet(Known)
    BY TypeInit
  <1>2. Calls = {} /\ windows = <<>> /\ DOMAIN windows = {} /\ InObs = {}
    BY EmptySeq, LenProperties DEF Init, Calls, InObs
  <1>3. Published = {} /\ Hands = {}
    <2>1. Transport!DeliveredSet = {}
      BY DEF Init, Transport!Init, Transport!DeliveredSet
    <2> QED
      BY <1>2, <2>1 DEF Init, Transport!Init, Published, Hands
  <1>4. CountedOnce
    BY <1>2, <1>3 DEF CountedOnce, InWindows, Init
  <1>5. HandsOK /\ StopOrder
    BY <1>2 DEF HandsOK, StopOrder, Init
  <1>6. LatePerRadio
    <2>1. late = {} /\ DoneCaptures = {}
      BY DEF Init, DoneCaptures
    <2> QED
      BY <2>1, FS_EmptySet DEF LatePerRadio
  <1> QED
    BY <1>1, <1>4, <1>5, <1>6 DEF IInv, AgentInv

LEMMA InvariantStep == IInv /\ [Next]_vars => IInv'
  <1> SUFFICES ASSUME IInv, [Next]_vars PROVE IInv'
    OBVIOUS
  <1>1. TypeOK' /\ IsFiniteSet(Known)' /\ HandsOK' /\ LatePerRadio' /\ StopOrder'
    BY TypeStep, HandsOKStep, LateStep, StopOrderStep DEF IInv, AgentInv
  <1>2. ObsSound /\ HandsSound
    BY CountedInTwoParts DEF IInv, AgentInv
  <1>3. ObsSound' /\ HandsSound'
    BY <1>2, ObsStep, HandsStep DEF IInv, AgentInv
  <1>4. TypeOK' => (CountedOnce' <=> ObsSound' /\ HandsSound')
    BY CountedInTwoParts, PTL
  <1> QED
    BY <1>1, <1>3, <1>4 DEF IInv, AgentInv

LEMMA InvariantHolds == Spec => []IInv
  BY InvariantInit, InvariantStep, PTL DEF Spec

(* Every observation is counted once: a packet that was handled is in one
   entry, in one window, or was turned away at the cap, and every window is in
   the transport once or in one thread's hand, however the flush loop, the
   captures and the calls of stop() that interrupt one another interleave. *)
THEOREM AgentIsSound == Spec => []AgentInv
  BY InvariantHolds, PTL DEF IInv

(* When stop() ends the process, what never reached the transport is what each
   radio handled after the flag was cleared, one packet at most, and what the
   flush loop or an interrupted stop() had taken and not published yet. *)
THEOREM ExitLoses == Spec => []ExitLosesLittle
  <1>1. IInv => ExitLosesLittle
    <2> SUFFICES ASSUME IInv PROVE ExitLosesLittle
      OBVIOUS
    <2>1. Cardinality(late) <= Cardinality(Captures)
      <3>1. DoneCaptures \in SUBSET Captures
        BY DEF DoneCaptures
      <3>2. /\ IsFiniteSet(DoneCaptures) /\ Cardinality(DoneCaptures) <= Cardinality(Captures)
        BY <3>1, CapturesAssumption, FS_Subset
      <3>3. /\ Cardinality(late) \in Nat /\ Cardinality(DoneCaptures) \in Nat
            /\ Cardinality(Captures) \in Nat
        BY <3>2, CapturesAssumption, FS_CardinalityType DEF IInv, LatePerRadio
      <3> QED
        BY <3>2, <3>3 DEF IInv, LatePerRadio
    <2>2. ASSUME stopped
          PROVE  /\ InObs \subseteq late
                 /\ DOMAIN windows \ Published
                        \subseteq {flushHand} \cup {stack[i].hand : i \in Calls \ {Len(stack)}}
      <3>1. stack # <<>> /\ Top.at = "drain"
        BY <2>2 DEF IInv, StopOrder
      <3>2. stack \in Seq(CallSet)
        BY DEF IInv, AgentInv, TypeOK, CallSet
      <3>3. Len(stack) \in Calls
        BY <3>1, <3>2, EmptySeq, LenProperties DEF Calls
      <3>4. InObs \subseteq late
        BY <3>1, <3>3 DEF IInv, StopOrder, Top
      <3>5. stack[Len(stack)].hand = 0
        BY <3>1, <3>3 DEF IInv, HandsOK, Top
      <3>6. DOMAIN windows \ Published \subseteq Hands
        BY DEF IInv, AgentInv, CountedOnce
      <3> QED
        BY <3>3, <3>4, <3>5, <3>6 DEF Hands
    <2> QED
      BY <2>1, <2>2 DEF ExitLosesLittle
  <1> QED
    BY <1>1, InvariantHolds, PTL

-----------------------------------------------------------------------------
(* The agent and its transport.  publish() is modelled by the channel's
   Accept and Refuse, which a window that was published before would block:
   that no thread ever waits there has to be shown. *)

NeverPublishedTwice ==
    /\ flusher = "publish" => flushHand \in WindowIds \ Published
    /\ \A i \in Calls : stack[i].at = "publish" =>
           stack[i].hand \in WindowIds \ (Published \cup {flushHand})

LEMMA PublishAllowed == IInv => NeverPublishedTwice
  <1> SUFFICES ASSUME IInv PROVE NeverPublishedTwice
    OBVIOUS
  <1>1. /\ Published \cap Hands = {} /\ MaxWindows \in Nat
        /\ flushHand \in 0..MaxWindows /\ stack \in Seq(CallSet)
    BY MaxAssumption DEF IInv, AgentInv, TypeOK, CountedOnce, CallSet
  <1>2. ASSUME flusher = "publish"
        PROVE  flushHand \in WindowIds \ Published
    <2>1. flushHand # 0
      BY <1>2 DEF IInv, HandsOK
    <2> QED
      BY <1>1, <2>1 DEF Hands, WindowIds
  <1>3. ASSUME NEW i \in Calls, stack[i].at = "publish"
        PROVE  stack[i].hand \in WindowIds \ (Published \cup {flushHand})
    <2>1. stack[i].hand # 0
      BY <1>3 DEF IInv, HandsOK
    <2>2. stack[i].hand \in 0..MaxWindows
      <3>1. stack[i] \in CallSet
        BY <1>1, <1>3, ElementOfSeq, LenProperties DEF Calls
      <3> QED
        BY <3>1 DEF CallSet
    <2>3. stack[i].hand \in Hands
      BY <1>3, <2>1 DEF Hands
    <2>4. stack[i].hand # flushHand
      BY <1>3, <2>1 DEF IInv, AgentInv, CountedOnce
    <2> QED
      BY <1>1, <2>1, <2>2, <2>3, <2>4 DEF WindowIds
  <1> QED
    BY <1>2, <1>3 DEF NeverPublishedTwice

(* Whoever is about to publish a window is the first to: neither the flush
   loop nor any call of stop() hands the transport one that it has had. *)
THEOREM PublishesOnce == Spec => []NeverPublishedTwice
  BY PublishAllowed, InvariantHolds, PTL

(* What the agent and its transport do together is what AtMostOnceChannel
   allows, over the windows the agent builds: the agent relies on nothing of
   the transport but what MqttTransport is proved to implement. *)
THEOREM UsesChannel == Spec => Transport!Spec
  <1>1. Init => Transport!Init
    BY DEF Init
  <1>2. IInv /\ [Next]_vars => [Transport!Next]_(Transport!vars)
    <2> SUFFICES ASSUME IInv, [Next]_vars PROVE [Transport!Next]_(Transport!vars)
      OBVIOUS
    <2>1. ASSUME NEW w \in WindowIds, Publish(w)
          PROVE  Transport!Next
      BY <2>1 DEF Publish, Transport!Next
    <2>2. CASE FlusherPublish
      <3>1. Publish(flushHand) /\ flushHand \in WindowIds
        BY <2>2, PublishAllowed DEF FlusherPublish, NeverPublishedTwice
      <3> QED
        BY <2>1, <3>1
    <2>3. CASE StopPublish
      <3>1. Publish(Top.hand) /\ stack # <<>> /\ Top.at = "publish"
        BY <2>3 DEF StopPublish, At
      <3>2. Len(stack) \in Calls
        <4>1. stack \in Seq(CallSet)
          BY DEF IInv, AgentInv, TypeOK, CallSet
        <4> QED
          BY <3>1, <4>1, EmptySeq, LenProperties DEF Calls
      <3>3. Top.hand \in WindowIds
        BY <3>1, <3>2, PublishAllowed DEF NeverPublishedTwice, Top
      <3> QED
        BY <2>1, <3>1, <3>3
    <2>4. CASE TransportStep
      BY <2>4 DEF TransportStep, Transport!Next
    <2>5. CASE UNCHANGED <<pending, delivered, gone>>
      BY <2>5 DEF Transport!vars
    <2>6. ASSUME NEW c \in Captures, NEW p \in Packets, NEW m \in Macs, HandlePacket(c, p, m)
          PROVE  UNCHANGED <<pending, delivered, gone>>
      BY <2>6 DEF HandlePacket, transportVars
    <2>7. CASE FlusherTest \/ FlusherBuild \/ (\E c \in Captures : StartRadio(c)) \/ StartFlusher
               \/ CallStop \/ CtrlC \/ StopClear \/ StopHoppers \/ StopAcquire \/ StopBuild
               \/ StopExit \/ UNCHANGED vars
      BY <2>5, <2>7 DEF FlusherTest, FlusherBuild, StartRadio, StartFlusher, CallStop, CtrlC,
         StopClear, StopHoppers, StopAcquire, StopBuild, StopExit, vars, transportVars
    <2> QED
      BY <2>2, <2>3, <2>4, <2>5, <2>6, <2>7 DEF Next, Stop
  <1> QED
    BY <1>1, <1>2, InvariantHolds, PTL DEF Spec, Transport!Spec
-----------------------------------------------------------------------------
(* The hoppers that the agent starts and stops, one per radio: ChannelHopper,
   for any list of channels and any threads.  stop() waits for a thread that
   there is; and what is to be recorded is what iw has tuned, unless another
   loop was alive then. *)
HopperJoinOK == agent = "join" => handle # NoThread
HopperRecordOK == undisputed => \A t \in Threads : pc[t] = "tuned" => radio = Hop(t)

HopperIInv ==
    HopperTypeOK /\ LoopsAccounted /\ HopperJoinOK /\ HopperRecordOK /\ ReportedIsTuned

-----------------------------------------------------------------------------
LEMMA RemainderInRange == ASSUME NEW n \in Nat \ {0}, NEW i \in Nat PROVE i % n \in 0..(n - 1)
  OBVIOUS

(* The index moves on within the list, and comes round at its end. *)
LEMMA NextIdxInList == \A i \in DOMAIN Channels : NextIdx(i) \in DOMAIN Channels
  <1> USE ChannelsAssumption DEF ChannelsAssumption
  <1>1. Len(Channels) \in Nat \ {0} /\ DOMAIN Channels = 1..Len(Channels)
    OBVIOUS
  <1>2. ASSUME NEW i \in DOMAIN Channels PROVE NextIdx(i) \in DOMAIN Channels
    <2> DEFINE n == Len(Channels)
    <2>0. n \in Nat \ {0} /\ i \in Nat
      BY <1>1, <1>2
    <2> HIDE DEF n
    <2>1. i % n \in 0..(n - 1)
      BY <2>0, RemainderInRange
    <2> DEFINE q == i % n
    <2>2. q \in 0..(n - 1) /\ NextIdx(i) = q + 1
      BY <2>1 DEF NextIdx, n
    <2> HIDE DEF q
    <2> QED
      BY <1>1, <2>0, <2>2 DEF n
  <1> QED
    BY <1>2

LEMMA HopperStarts == HopperInit => HopperIInv
  <1> USE ChannelsAssumption, SentinelAssumption DEF ChannelsAssumption, SentinelAssumption
  <1>1. 1 \in DOMAIN Channels
    OBVIOUS
  <1> QED
    BY <1>1 DEF HopperInit, HopperIInv, HopperTypeOK, LoopsAccounted, HopperJoinOK,
                HopperRecordOK, ReportedIsTuned, Alive

(* The agent's steps: a thread is spawned only where _thread is not alive. *)
LEMMA HopperCallsKeep ==
    ASSUME HopperIInv, Start \/ StopSet \/ StopJoined \/ StopJoinTimeout
    PROVE  HopperIInv'
  <1> USE ChannelsAssumption, SentinelAssumption
      DEF ChannelsAssumption, SentinelAssumption, HopperIInv, HopperTypeOK, hopperHistory
  <1>1. CASE Start
    <2>1. PICK t \in Threads :
             pc[t] = "unused" /\ handle' = t /\ pc' = [pc EXCEPT ![t] = "while"]
      BY <1>1 DEF Start
    <2>2. \A u \in Threads : Alive(u) => u \in abandoned
      BY <1>1 DEF Start, AlreadyRunning, LoopsAccounted
    <2>3. \A u \in Threads : u # t => pc'[u] = pc[u]
      BY <2>1
    <2>4. HopperTypeOK'
      BY <1>1, <2>1 DEF Start
    <2>5. LoopsAccounted' /\ HopperJoinOK'
      BY <1>1, <2>1, <2>2, <2>3 DEF Start, LoopsAccounted, HopperJoinOK, Alive
    <2>6. HopperRecordOK' /\ ReportedIsTuned'
      BY <1>1, <2>1, <2>3 DEF Start, HopperRecordOK, ReportedIsTuned, Hop
    <2> QED
      BY <2>4, <2>5, <2>6
  <1>2. CASE StopSet
    BY <1>2 DEF StopSet, LoopsAccounted, HopperJoinOK, HopperRecordOK, ReportedIsTuned, Alive, Hop
  <1>3. CASE StopJoined
    BY <1>3 DEF StopJoined, LoopsAccounted, HopperJoinOK, HopperRecordOK, ReportedIsTuned,
                Alive, Hop
  <1>4. CASE StopJoinTimeout
    <2>1. HopperTypeOK' /\ HopperJoinOK'
      BY <1>4 DEF StopJoinTimeout, HopperJoinOK
    <2>2. LoopsAccounted'
      BY <1>4 DEF StopJoinTimeout, LoopsAccounted, Alive
    <2>3. HopperRecordOK' /\ ReportedIsTuned'
      BY <1>4 DEF StopJoinTimeout, HopperRecordOK, ReportedIsTuned, Hop
    <2> QED
      BY <2>1, <2>2, <2>3
  <1> QED
    BY <1>1, <1>2, <1>3, <1>4

(* The loop's steps: it spawns nobody, and tunes the radio alone or not. *)
LEMMA HopLoopKeeps ==
    ASSUME HopperIInv, NEW t \in Threads, HopLoop(t)
    PROVE  HopperIInv'
  <1> USE ChannelsAssumption, SentinelAssumption
      DEF ChannelsAssumption, SentinelAssumption, HopperIInv, HopperTypeOK, hopperHistory,
          ToNextChannel
  <1>1. /\ UNCHANGED <<stopEvent, handle, agent, abandoned>> /\ Alive(t)
        /\ \A u \in Threads : u # t => pc'[u] = pc[u] /\ idx'[u] = idx[u]
    BY DEF HopLoop, HopTest, SetChannel, SetChannelFails, KilledTooLate, Record, Dwell, Alive
  <1>2. LoopsAccounted' /\ HopperJoinOK'
    BY <1>1 DEF LoopsAccounted, HopperJoinOK, Alive
  <1>3. Hop(t) \in {Channels[i] : i \in DOMAIN Channels} /\ Hop(t) # NoChannel
    BY DEF Hop
  <1>4. CASE HopTest(t) \/ Dwell(t)
    <2>1. UNCHANGED <<idx, current, radio, undisputed>> /\ HopperTypeOK'
      BY <1>4 DEF HopTest, Dwell, LoopUnlessStopped
    <2>2. pc[t] # "tuned" /\ pc'[t] # "tuned"
      BY <1>4 DEF HopTest, Dwell, LoopUnlessStopped
    <2>3. HopperRecordOK'
      BY <1>1, <2>1, <2>2 DEF HopperRecordOK, Hop
    <2>4. ReportedIsTuned'
      BY <1>1, <2>1, <2>2 DEF ReportedIsTuned
    <2> QED
      BY <1>2, <2>1, <2>3, <2>4
  <1>5. CASE SetChannel(t)
    <2>1. HopperTypeOK' /\ pc'[t] = "tuned" /\ radio' = Hop(t) /\ idx' = idx
      BY <1>3, <1>5 DEF SetChannel
    <2>2. undisputed' => \A u \in Threads : pc'[u] = "tuned" => u = t
      BY <1>1, <1>5 DEF SetChannel, Alive
    <2>3. HopperRecordOK'
      BY <2>1, <2>2 DEF HopperRecordOK, Hop
    <2> QED
      BY <1>2, <2>1, <2>3 DEF ReportedIsTuned
  <1>6. CASE SetChannelFails(t)
    <2>1. HopperTypeOK' /\ pc'[t] = "dwell"
      BY <1>6, NextIdxInList DEF SetChannelFails
    <2> QED
      BY <1>1, <1>2, <1>6, <2>1 DEF SetChannelFails, HopperRecordOK, ReportedIsTuned, Hop
  <1>7. CASE KilledTooLate(t)
    <2>1. HopperTypeOK' /\ ~undisputed'
      BY <1>7, NextIdxInList DEF KilledTooLate
    <2> QED
      BY <1>2, <2>1 DEF HopperRecordOK, ReportedIsTuned
  <1>8. CASE Record(t)
    <2>1. HopperTypeOK' /\ pc'[t] = "dwell" /\ current' = Hop(t)
      BY <1>3, <1>8, NextIdxInList DEF Record
    <2>2. HopperRecordOK'
      BY <1>1, <1>8, <2>1 DEF Record, HopperRecordOK, Hop
    <2>3. ReportedIsTuned'
      BY <1>3, <1>8, <2>1 DEF Record, HopperRecordOK, ReportedIsTuned
    <2> QED
      BY <1>2, <2>1, <2>2, <2>3
  <1> QED
    BY <1>4, <1>5, <1>6, <1>7, <1>8 DEF HopLoop

(* However often stop() gives up on a loop, start() clears its flag and iw is
   killed: no loop hops the radio but the one that _thread names and those,
   and current_channel() is right again with the next hop of a loop that is
   alone. *)
THEOREM HopperIsSound == HopperSpec => []HopperInv
  <1>0. HopperInit => HopperIInv
    BY HopperStarts
  <1>1. HopperIInv /\ [HopperNext]_hopperVars => HopperIInv'
    <2>1. HopperIInv /\ UNCHANGED hopperVars => HopperIInv'
      BY DEF hopperVars, hopperHistory, HopperIInv, HopperTypeOK, LoopsAccounted, HopperJoinOK,
             HopperRecordOK, ReportedIsTuned, Alive, Hop
    <2> QED
      BY <2>1, HopperCallsKeep, HopLoopKeeps DEF HopperNext
  <1>2. HopperIInv => HopperInv
    BY DEF HopperIInv, HopperInv
  <1> QED
    BY <1>0, <1>1, <1>2, PTL DEF HopperSpec
=============================================================================
