------------------------ MODULE MqttTransportProofs ------------------------
(***************************************************************************)
(* Theorems about MqttTransport, for every set of windows, all finite sets *)
(* of threads and every queue size.                                        *)
(*                                                                         *)
(* IInv gives the types, Conservation and the refinement; ShutdownInv,     *)
(* further down, what disconnect() promises of the queue.                  *)
(***************************************************************************)
EXTENDS MqttTransport, FiniteSetTheorems, SequenceTheorems, TLAPS

-----------------------------------------------------------------------------
(* Facts about the queue operations. *)

LEMMA RangeOfAppend ==
    ASSUME NEW S, NEW s \in Seq(S), NEW e \in S
    PROVE  /\ Append(s, e) \in Seq(S)
           /\ Len(Append(s, e)) = Len(s) + 1
           /\ SeqRange(Append(s, e)) = SeqRange(s) \cup {e}
           /\ NoDuplicates(s) /\ e \notin SeqRange(s) => NoDuplicates(Append(s, e))
<1> DEFINE a == Append(s, e)
<1>1. /\ a \in Seq(S) /\ Len(a) = Len(s) + 1
      /\ DOMAIN s = 1..Len(s) /\ DOMAIN a = 1..(Len(s) + 1)
      /\ Len(s) \in Nat
      /\ \A i \in 1..Len(s) : a[i] = s[i]
      /\ a[Len(s) + 1] = e
  OBVIOUS
<1> HIDE DEF a
<1>2. SeqRange(a) = SeqRange(s) \cup {e}
  <2>1. \A x \in SeqRange(a) : x \in SeqRange(s) \cup {e}
    BY <1>1 DEF SeqRange
  <2>2. \A x \in SeqRange(s) : x \in SeqRange(a)
    BY <1>1 DEF SeqRange
  <2>3. e \in SeqRange(a)
    <3>1. Len(s) + 1 \in DOMAIN a
      BY <1>1
    <3>2. QED
      BY <1>1, <3>1 DEF SeqRange
  <2>4. QED
    BY <2>1, <2>2, <2>3
<1>3. NoDuplicates(s) /\ e \notin SeqRange(s) => NoDuplicates(a)
  BY <1>1 DEF NoDuplicates, SeqRange
<1>4. QED
  BY <1>1, <1>2, <1>3 DEF a

LEMMA RangeOfTail ==
    ASSUME NEW S, NEW s \in Seq(S), s # <<>>
    PROVE  /\ Head(s) \in S /\ Head(s) \in SeqRange(s)
           /\ Tail(s) \in Seq(S)
           /\ Len(Tail(s)) = Len(s) - 1 /\ Len(s) \in Nat
           /\ NoDuplicates(s) => NoDuplicates(Tail(s))
           /\ NoDuplicates(s) => SeqRange(Tail(s)) = SeqRange(s) \ {Head(s)}
<1> DEFINE u == Tail(s)
<1>1. /\ Len(s) \in Nat /\ Len(s) >= 1
      /\ u \in Seq(S) /\ Len(u) = Len(s) - 1
      /\ DOMAIN s = 1..Len(s) /\ DOMAIN u = 1..(Len(s) - 1)
      /\ \A i \in 1..(Len(s) - 1) : u[i] = s[i + 1]
      /\ Head(s) = s[1]
      /\ s[1] \in S
  OBVIOUS
<1> HIDE DEF u
<1>2. Head(s) \in SeqRange(s)
  BY <1>1 DEF SeqRange
<1>3. ASSUME NoDuplicates(s)
      PROVE  NoDuplicates(u)
  <2>1. ASSUME NEW i \in DOMAIN u, NEW j \in DOMAIN u, u[i] = u[j]
        PROVE  i = j
    <3>1. i + 1 \in DOMAIN s /\ j + 1 \in DOMAIN s /\ s[i + 1] = s[j + 1]
      BY <1>1, <2>1
    <3>2. i + 1 = j + 1
      BY <3>1, <1>3 DEF NoDuplicates
    <3>3. QED
      BY <1>1, <3>2
  <2>2. QED
    BY <2>1 DEF NoDuplicates
<1>4. ASSUME NoDuplicates(s)
      PROVE  SeqRange(u) = SeqRange(s) \ {Head(s)}
  <2>1. ASSUME NEW i \in DOMAIN u
        PROVE  u[i] \in SeqRange(s) \ {Head(s)}
    <3>1. i + 1 \in DOMAIN s /\ u[i] = s[i + 1] /\ 1 \in DOMAIN s /\ i + 1 # 1
      BY <1>1, <2>1
    <3>2. s[i + 1] # s[1]
      BY <3>1, <1>4 DEF NoDuplicates
    <3>3. QED
      BY <3>1, <3>2, <1>1 DEF SeqRange
  <2>2. ASSUME NEW j \in DOMAIN s, s[j] # Head(s)
        PROVE  s[j] \in SeqRange(u)
    <3>1. j - 1 \in DOMAIN u /\ u[j - 1] = s[j]
      BY <1>1, <2>2
    <3>2. QED
      BY <3>1 DEF SeqRange
  <2>3. QED
    BY <2>1, <2>2 DEF SeqRange
<1>5. QED
  BY <1>1, <1>2, <1>3, <1>4 DEF u

-----------------------------------------------------------------------------
(* How the windows in hand and on offer change. *)

LEMMA HandTakes ==
    ASSUME TypeOK, NEW t \in Consumers, NEW w \in Windows, hand[t] = NoWindow,
           hand' = [hand EXCEPT ![t] = w]
    PROVE  InHand' = InHand \cup {w}
<1>1. hand \in [Consumers -> Windows \cup {NoWindow}] /\ w # NoWindow
  BY WindowAssumption DEF TypeOK
<1>2. \A u \in Consumers : hand'[u] = IF u = t THEN w ELSE hand[u]
  BY <1>1
<1>3. QED
  BY <1>1, <1>2 DEF InHand

LEMMA HandDrops ==
    ASSUME TypeOK, HandOK, NEW t \in Consumers, hand[t] # NoWindow,
           hand' = [hand EXCEPT ![t] = NoWindow]
    PROVE  hand[t] \in InHand /\ hand[t] \in Windows /\ InHand' = InHand \ {hand[t]}
<1>1. hand \in [Consumers -> Windows \cup {NoWindow}]
  BY DEF TypeOK
<1>2. \A u \in Consumers : hand'[u] = IF u = t THEN NoWindow ELSE hand[u]
  BY <1>1
<1>3. \A u \in Consumers : hand[u] = hand[t] => u = t
  BY DEF HandOK
<1>4. QED
  BY <1>1, <1>2, <1>3 DEF InHand

LEMMA OfferTakes ==
    ASSUME TypeOK, NEW c \in Callers, NEW w \in Windows, offer[c] = NoWindow,
           offer' = [offer EXCEPT ![c] = w]
    PROVE  InOffer' = InOffer \cup {w}
<1>1. offer \in [Callers -> Windows \cup {NoWindow}] /\ w # NoWindow
  BY WindowAssumption DEF TypeOK
<1>2. \A d \in Callers : offer'[d] = IF d = c THEN w ELSE offer[d]
  BY <1>1
<1>3. QED
  BY <1>1, <1>2 DEF InOffer

LEMMA OfferDrops ==
    ASSUME TypeOK, OfferOK, NEW c \in Callers, offer[c] # NoWindow,
           offer' = [offer EXCEPT ![c] = NoWindow]
    PROVE  offer[c] \in InOffer /\ offer[c] \in Windows /\ InOffer' = InOffer \ {offer[c]}
<1>1. offer \in [Callers -> Windows \cup {NoWindow}]
  BY DEF TypeOK
<1>2. \A d \in Callers : offer'[d] = IF d = c THEN NoWindow ELSE offer[d]
  BY <1>1
<1>3. \A d \in Callers : offer[d] = offer[c] => d = c
  BY DEF OfferOK
<1>4. QED
  BY <1>1, <1>2, <1>3 DEF InOffer

-----------------------------------------------------------------------------
(* The queue operations on well-typed queues. *)

LEMMA AppendWindow ==
    ASSUME NEW s \in Seq(Windows), NEW w \in Windows
    PROVE  /\ Append(s, w) \in Seq(Windows)
           /\ Len(Append(s, w)) = Len(s) + 1 /\ Len(s) \in Nat
           /\ SeqRange(Append(s, w)) = SeqRange(s) \cup {w}
           /\ NoDuplicates(s) /\ w \notin SeqRange(s) => NoDuplicates(Append(s, w))
<1>1. Len(s) \in Nat
  OBVIOUS
<1>2. QED
  BY <1>1, RangeOfAppend

-----------------------------------------------------------------------------
(* Type correctness.  It leans on HandOK: _do_publish is never entered
   without a window in hand. *)

LEMMA TypeInit == Init => TypeOK
<1> SUFFICES ASSUME Init PROVE TypeOK
  OBVIOUS
<1>1. queue \in Seq(Windows) /\ Len(queue) = 0 /\ accepted \in Seq(Windows) /\ sent \in Seq(Windows)
  BY DEF Init
<1>2. backoff \in BackoffStart..BackoffMax /\ Len(queue) <= QueueMax
  BY <1>1, QueueMaxAssumption, BackoffAssumption DEF Init
<1>3. QED
  BY <1>1, <1>2 DEF Init, TypeOK, Consumers

LEMMA TakeTypes ==
    ASSUME TypeOK, NEW t \in Consumers, Take(t)
    PROVE  /\ queue' \in Seq(Windows) /\ Len(queue') <= QueueMax
           /\ hand' \in [Consumers -> Windows \cup {NoWindow}]
           /\ step' \in [Consumers -> {"none", "check", "requeue", "send"}]
<1>1. queue \in Seq(Windows) /\ Len(queue) <= QueueMax
  BY DEF TypeOK
<1>2. queue # <<>> /\ queue' = Tail(queue)
  BY DEF Take
<1>3. queue' \in Seq(Windows) /\ Len(queue') <= QueueMax /\ Head(queue) \in Windows
  BY <1>1, <1>2, RangeOfTail, QueueMaxAssumption
<1>4. QED
  BY <1>3 DEF Take, TypeOK

(* A step that moves only the program counter of a consumer. *)
LEMMA GotoTypes ==
    ASSUME TypeOK, NEW t \in Consumers,
           NEW l \in {"while", "get", "idle", "flush", "join", "done"},
           pc' = [pc EXCEPT ![t] = l],
           hist' = [hist EXCEPT !.timeout = TRUE] \/ UNCHANGED hist,
           UNCHANGED <<connVars, shuttingDown, flowVars, step, hand>>
    PROVE  TypeOK'
<1>1. pc' \in [Consumers -> {"unstarted", "while", "get", "idle", "flush", "flag", "drain",
                             "join", "loopStop", "close", "clear", "done"}]
  BY DEF TypeOK
<1>2. hist' \in [lost : BOOLEAN, timeout : BOOLEAN,
               flushed : SUBSET Closers, late : SUBSET Windows]
  BY DEF TypeOK
<1>3. /\ UNCHANGED <<start, loopRunning, session, lossPending, connected, backoff, recon>>
      /\ UNCHANGED <<shuttingDown, step, hand>>
      /\ UNCHANGED <<queue, offer, accepted, rejected, sent, failed, dropped>>
  BY DEF connVars, flowVars
<1>4. QED
  BY <1>1, <1>2, <1>3 DEF TypeOK

LEMMA TypeStep == TypeOK /\ HandOK /\ [Next]_vars => TypeOK'
<1> SUFFICES ASSUME TypeOK, HandOK, [Next]_vars
             PROVE  TypeOK'
  OBVIOUS
<1> USE DEF TypeOK, connVars, flowVars, localVars
<1>1. ASSUME ConnectRefused
      PROVE  TypeOK'
  BY <1>1 DEF ConnectRefused, Consumers
<1>2. ASSUME ConnectOpen
      PROVE  TypeOK'
  BY <1>2 DEF ConnectOpen, Consumers
<1>3. ASSUME ConnectReady
      PROVE  TypeOK'
  BY <1>3 DEF ConnectReady, Consumers
<1>4. ASSUME ConnectTimeout
      PROVE  TypeOK'
  BY <1>4 DEF ConnectTimeout, Consumers
<1>5. ASSUME NEW c \in Callers, NEW w \in Windows, PublishCheck(c, w)
      PROVE  TypeOK'
  BY <1>5 DEF PublishCheck, Unseen
<1>6. ASSUME NEW c \in Callers, PublishPut(c)
      PROVE  TypeOK'
  <2>1. offer[c] \in Windows
    BY <1>6 DEF PublishPut, Enqueued
  <2>2. CASE HasRoom
    <3>1. queue' = Append(queue, offer[c]) /\ accepted' = Append(accepted, offer[c])
      BY <1>6, <2>2 DEF PublishPut, Enqueued
    <3>2. queue' \in Seq(Windows) /\ Len(queue') <= QueueMax /\ accepted' \in Seq(Windows)
      BY <2>1, <2>2, <3>1, AppendWindow, QueueMaxAssumption DEF HasRoom
    <3>3. hist' \in [lost : BOOLEAN, timeout : BOOLEAN,
                     flushed : SUBSET Closers, late : SUBSET Windows]
      <4> HIDE DEF TypeOK
      <4>1. hist \in [lost : BOOLEAN, timeout : BOOLEAN,
                      flushed : SUBSET Closers, late : SUBSET Windows]
        BY DEF TypeOK
      <4>2. \/ hist' = [hist EXCEPT !.late = hist.late]
            \/ hist' = [hist EXCEPT !.late = hist.late \cup {offer[c]}]
        BY <1>6, <2>2 DEF PublishPut, Enqueued
      <4>3. QED
        BY <2>1, <4>1, <4>2
    <3>4. QED
      BY <1>6, <2>2, <3>2, <3>3 DEF PublishPut, Enqueued
  <2>3. CASE ~HasRoom
    BY <1>6, <2>1, <2>3 DEF PublishPut, Enqueued
  <2>4. QED
    BY <2>2, <2>3
<1>7. ASSUME NEW t \in Consumers, DoPublishCheck(t)
      PROVE  TypeOK'
  BY <1>7 DEF DoPublishCheck, Route
<1>8. ASSUME NEW t \in Consumers, DoPublishRequeue(t)
      PROVE  TypeOK'
  <2>1. hand[t] \in Windows
    BY <1>8 DEF DoPublishRequeue, HandOK
  <2>2. CASE HasRoom
    <3>1. queue' \in Seq(Windows) /\ Len(queue') <= QueueMax
      <4>1. queue' = Append(queue, hand[t])
        BY <1>8, <2>2 DEF DoPublishRequeue, Enqueued, GivenUp
      <4>2. QED
        BY <2>1, <2>2, <4>1, AppendWindow, QueueMaxAssumption DEF HasRoom
    <3>2. QED
      BY <1>8, <2>2, <3>1 DEF DoPublishRequeue, DoPublishReturn, GivenUp
  <2>3. CASE ~HasRoom
    BY <1>8, <2>1, <2>3 DEF DoPublishRequeue, DoPublishReturn, GivenUp
  <2>4. QED
    BY <2>2, <2>3
<1>9. ASSUME NEW t \in Consumers, DoPublishSend(t)
      PROVE  TypeOK'
  <2>1. hand[t] \in Windows
    BY <1>9 DEF DoPublishSend, HandOK
  <2>2. sent' \in Seq(Windows) /\ failed' \in SUBSET Windows
    <3>1. CASE session \in {"up", "connecting"}
      <4>1. sent' = Append(sent, hand[t]) /\ UNCHANGED failed
        BY <1>9, <3>1 DEF DoPublishSend
      <4>2. QED
        BY <2>1, <4>1, AppendWindow
    <3>2. CASE session \notin {"up", "connecting"}
      <4>1. failed' = failed \cup {hand[t]} /\ UNCHANGED sent
        BY <1>9, <3>2 DEF DoPublishSend
      <4>2. QED
        BY <2>1, <4>1
    <3>3. QED
      BY <3>1, <3>2
  <2>3. /\ hand' \in [Consumers -> Windows \cup {NoWindow}]
        /\ step' \in [Consumers -> {"none", "check", "requeue", "send"}]
    BY <1>9 DEF DoPublishSend, DoPublishReturn
  <2>4. /\ UNCHANGED <<connVars, shuttingDown>>
        /\ UNCHANGED <<queue, offer, accepted, rejected, dropped>>
        /\ UNCHANGED <<pc, hist>>
    BY <1>9 DEF DoPublishSend
  <2>5. QED
    BY <2>2, <2>3, <2>4
<1>10. ASSUME PublishLoopTest
      PROVE  TypeOK'
  <2> HIDE DEF TypeOK, connVars, flowVars
  <2>1. PublishThread \in Consumers
    BY DEF Consumers
  <2>2. QED
    BY <1>10, <2>1, GotoTypes DEF PublishLoopTest
<1>11. ASSUME PublishLoopGet
      PROVE  TypeOK'
  <2>1. PublishThread \in Consumers /\ Take(PublishThread)
    BY <1>11 DEF PublishLoopGet, Consumers
  <2>2. /\ queue' \in Seq(Windows) /\ Len(queue') <= QueueMax
        /\ hand' \in [Consumers -> Windows \cup {NoWindow}]
        /\ step' \in [Consumers -> {"none", "check", "requeue", "send"}]
    <3> HIDE DEF TypeOK
    <3>1. QED
      BY <2>1, TakeTypes
  <2>3. QED
    BY <1>11, <2>2 DEF PublishLoopGet
<1>12. ASSUME PublishLoopEmpty
      PROVE  TypeOK'
  <2> HIDE DEF TypeOK, connVars, flowVars
  <2>1. PublishThread \in Consumers
    BY DEF Consumers
  <2>2. QED
    BY <1>12, <2>1, GotoTypes DEF PublishLoopEmpty
<1>13. ASSUME NEW c \in Closers, FlushCall(c)
      PROVE  TypeOK'
  BY <1>13 DEF FlushCall, Goto
<1>14. ASSUME NEW c \in Closers, FlushDeadline(c)
      PROVE  TypeOK'
  <2> HIDE DEF TypeOK, connVars, flowVars
  <2>1. c \in Consumers
    BY DEF Consumers
  <2>2. QED
    BY <1>14, <2>1, GotoTypes DEF FlushDeadline, AfterFlush, Goto
<1>15. ASSUME NEW c \in Closers, DisconnectCall(c)
      PROVE  TypeOK'
  BY <1>15 DEF DisconnectCall, Goto
<1>16. ASSUME NEW c \in Closers, FlushGet(c)
      PROVE  TypeOK'
  <2>1. c \in Consumers /\ Take(c)
    BY <1>16 DEF FlushGet, Consumers
  <2>2. /\ queue' \in Seq(Windows) /\ Len(queue') <= QueueMax
        /\ hand' \in [Consumers -> Windows \cup {NoWindow}]
        /\ step' \in [Consumers -> {"none", "check", "requeue", "send"}]
    <3> HIDE DEF TypeOK
    <3>1. QED
      BY <2>1, TakeTypes
  <2>3. QED
    BY <1>16, <2>2 DEF FlushGet
<1>17. ASSUME NEW c \in Closers, FlushEmpty(c)
      PROVE  TypeOK'
  <2> HIDE DEF TypeOK, connVars, flowVars
  <2>1. c \in Consumers
    BY DEF Consumers
  <2>2. QED
    BY <1>17, <2>1, GotoTypes DEF FlushEmpty, AfterFlush, Goto
<1>18. ASSUME NEW c \in Closers, DisconnectFlag(c)
      PROVE  TypeOK'
  BY <1>18 DEF DisconnectFlag, Goto
<1>19. ASSUME NEW c \in Closers, JoinReturns(c)
      PROVE  TypeOK'
  BY <1>19 DEF JoinReturns, Goto
<1>20. ASSUME NEW c \in Closers, JoinTimeout(c)
      PROVE  TypeOK'
  BY <1>20 DEF JoinTimeout, Goto
<1>21. ASSUME NEW c \in Closers, LoopStop(c)
      PROVE  TypeOK'
  BY <1>21 DEF LoopStop, Goto
<1>22. ASSUME NEW c \in Closers, ClientDisconnect(c)
      PROVE  TypeOK'
  BY <1>22 DEF ClientDisconnect, Goto
<1>23. ASSUME NEW c \in Closers, ClearConnected(c)
      PROVE  TypeOK'
  BY <1>23 DEF ClearConnected, Goto
<1>24. ASSUME SocketLost
      PROVE  TypeOK'
  BY <1>24 DEF SocketLost
<1>25. ASSUME OnDisconnect
      PROVE  TypeOK'
  BY <1>25 DEF OnDisconnect
<1>26. ASSUME OnConnect
      PROVE  TypeOK'
  BY <1>26, BackoffAssumption DEF OnConnect
<1>27. ASSUME OnConnectRefused
      PROVE  TypeOK'
  BY <1>27 DEF OnConnectRefused
<1>28. ASSUME AutoReconnect
      PROVE  TypeOK'
  BY <1>28 DEF AutoReconnect
<1>29. ASSUME NEW r \in ReconnectThreads, ReconnectTest(r)
      PROVE  TypeOK'
  BY <1>29 DEF ReconnectTest
<1>30. ASSUME NEW r \in ReconnectThreads, ReconnectWait(r)
      PROVE  TypeOK'
  BY <1>30 DEF ReconnectWait
<1>31. ASSUME NEW r \in ReconnectThreads, ReconnectOpen(r)
      PROVE  TypeOK'
  BY <1>31 DEF ReconnectOpen
<1>32. ASSUME NEW r \in ReconnectThreads, ReconnectFails(r)
      PROVE  TypeOK'
  BY <1>32, BackoffAssumption DEF ReconnectFails
<1>33. CASE UNCHANGED vars
  BY <1>33 DEF vars
<1>34. QED
  BY <1>1, <1>2, <1>3, <1>4, <1>5, <1>6, <1>7, <1>8, <1>9, <1>10, <1>11, <1>12, <1>13, <1>14,
     <1>15, <1>16, <1>17, <1>18, <1>19, <1>20, <1>21, <1>22, <1>23, <1>24, <1>25, <1>26,
     <1>27, <1>28, <1>29, <1>30, <1>31, <1>32, <1>33
     DEF Next, Connect, DoPublish, PublishLoop, Teardown, Network, Reconnect

-----------------------------------------------------------------------------
(* Conservation. *)

(* The inductive invariant.  Conservation is inductive once every variable
   has its type; HandOK and OfferOK, its first two parts, are what makes it
   so: they name the holder of a window that is in no container. *)
IInv == TypeOK /\ Conservation

LEMMA InitConservation == Init => Conservation
<1> SUFFICES ASSUME Init PROVE Conservation
  OBVIOUS
<1>1. InQueue = {} /\ Accepted = {} /\ Sent = {} /\ NoDuplicates(queue) /\ NoDuplicates(sent)
  BY DEF Init, InQueue, Accepted, Sent, SeqRange, NoDuplicates
<1>2. InHand = {} /\ InOffer = {}
  BY DEF Init, InHand, InOffer
<1>3. HandOK
  BY ThreadAssumption DEF Init, HandOK, Consumers
<1>4. OfferOK
  BY <1>1, <1>2 DEF Init, OfferOK, Disjoint
<1>5. QED
  BY <1>1, <1>2, <1>3, <1>4 DEF Init, Conservation, Disjoint

(* A step that moves no window and takes none in hand. *)
LEMMA NoMove ==
    ASSUME Conservation, UNCHANGED flowVars, UNCHANGED hand,
           step' = step \/ \E t \in Consumers : step[t] # "none" /\
               \E l \in {"check", "send", "requeue"} : step' = [step EXCEPT ![t] = l],
           step \in [Consumers -> {"none", "check", "requeue", "send"}],
           pc'[PublishThread] = "get" => step'[PublishThread] = "none"
    PROVE  Conservation'
<1>1. \A u \in Consumers : step'[u] = "none" <=> step[u] = "none"
  OBVIOUS
<1>2. HandOK'
  BY <1>1 DEF Conservation, HandOK
<1>3. /\ InQueue' = InQueue /\ InHand' = InHand /\ InOffer' = InOffer
      /\ Accepted' = Accepted /\ Sent' = Sent
      /\ NoDuplicates(queue)' /\ NoDuplicates(sent)' /\ OfferOK'
  <2>1. /\ UNCHANGED queue /\ UNCHANGED offer /\ UNCHANGED accepted
        /\ UNCHANGED rejected /\ UNCHANGED sent
    BY DEF flowVars
  <2>2. /\ InQueue' = InQueue /\ InHand' = InHand /\ InOffer' = InOffer
        /\ Accepted' = Accepted /\ Sent' = Sent
    BY <2>1 DEF InQueue, InHand, InOffer, Accepted, Sent
  <2>3. NoDuplicates(queue)' /\ NoDuplicates(sent)'
    BY <2>1 DEF Conservation
  <2>4. OfferOK
    BY DEF Conservation
  <2>5. OfferOK'
    BY <2>1, <2>2, <2>4 DEF OfferOK
  <2>6. QED
    BY <2>2, <2>3, <2>5
<1>4. QED
  BY <1>2, <1>3 DEF Conservation, flowVars

(* A thread takes the head of the queue in hand. *)
LEMMA TakeMoves ==
    ASSUME TypeOK, Conservation, NEW t \in Consumers, step[t] = "none", Take(t),
           UNCHANGED <<offer, accepted, rejected, sent, failed, dropped>>,
           pc'[PublishThread] = "get" => pc[PublishThread] = "get" /\ t # PublishThread
    PROVE  Conservation'
<1> DEFINE w == Head(queue)
<1>1. /\ w \in Windows /\ w \in InQueue /\ w # NoWindow
      /\ InQueue' = InQueue \ {w} /\ NoDuplicates(queue')
  BY RangeOfTail, WindowAssumption DEF Take, TypeOK, Conservation, InQueue
<1>2. hand[t] = NoWindow
  BY DEF Conservation, HandOK
<1>3. InHand' = InHand \cup {w} /\ w \notin InHand
  BY <1>1, <1>2, HandTakes DEF Take, Conservation, Disjoint
<1>4. HandOK'
  <2>1. /\ \A u \in Consumers : hand'[u] = IF u = t THEN w ELSE hand[u]
        /\ \A u \in Consumers : step'[u] = IF u = t THEN "check" ELSE step[u]
    BY DEF Take, TypeOK
  <2>2. \A u \in Consumers : hand[u] # w
    BY <1>1, <1>3 DEF InHand
  <2>3. \A u \in Consumers : hand'[u] = NoWindow <=> step'[u] = "none"
    BY <2>1, <1>1 DEF Conservation, HandOK
  <2>4. pc'[PublishThread] = "get" => step'[PublishThread] = "none"
    BY <2>1 DEF Conservation, HandOK, Consumers
  <2>5. \A u, v \in Consumers : hand'[u] # NoWindow /\ hand'[u] = hand'[v] => u = v
    BY <2>1, <2>2 DEF Conservation, HandOK
  <2>6. QED
    BY <2>3, <2>4, <2>5 DEF HandOK
<1>5. Accepted' = Accepted /\ Sent' = Sent /\ OfferOK' /\ NoDuplicates(sent)'
  BY DEF Accepted, Sent, OfferOK, InOffer, Conservation
<1>6. QED
  BY <1>1, <1>3, <1>4, <1>5 DEF Conservation, Disjoint

(* A thread leaves _do_publish, and its window goes to one container. *)
LEMMA ReturnDrops ==
    ASSUME TypeOK, Conservation, NEW t \in Consumers, step[t] # "none",
           DoPublishReturn(t), UNCHANGED pc
    PROVE  /\ hand[t] \in InHand /\ hand[t] \in Windows
           /\ InHand' = InHand \ {hand[t]} /\ HandOK'
<1>1. hand[t] # NoWindow /\ HandOK
  BY DEF Conservation, HandOK
<1>2. hand[t] \in InHand /\ hand[t] \in Windows /\ InHand' = InHand \ {hand[t]}
  BY <1>1, HandDrops DEF DoPublishReturn
<1>3. /\ \A u \in Consumers : hand'[u] = IF u = t THEN NoWindow ELSE hand[u]
      /\ \A u \in Consumers : step'[u] = IF u = t THEN "none" ELSE step[u]
  BY DEF DoPublishReturn, TypeOK
<1>4. PublishThread \in Consumers
  BY DEF Consumers
<1>5. HandOK'
  BY <1>1, <1>3, <1>4 DEF HandOK
<1>6. QED
  BY <1>2, <1>5

LEMMA RequeueMoves ==
    ASSUME TypeOK, Conservation, NEW t \in Consumers, DoPublishRequeue(t)
    PROVE  Conservation'
<1> DEFINE w == hand[t]
<1>1. w \in InHand /\ w \in Windows /\ InHand' = InHand \ {w} /\ HandOK'
  BY ReturnDrops DEF DoPublishRequeue, Enqueued, GivenUp
<1>2. Accepted' = Accepted /\ Sent' = Sent /\ OfferOK' /\ NoDuplicates(sent)'
  BY DEF DoPublishRequeue, Accepted, Sent, OfferOK, InOffer, Conservation
<1>3. w \notin InQueue
  BY <1>1 DEF Conservation, Disjoint
<1>4. CASE HasRoom
  <2>1. queue' = Append(queue, w) /\ UNCHANGED <<dropped, failed, rejected>>
    BY <1>4 DEF DoPublishRequeue, Enqueued, GivenUp
  <2>2. InQueue' = InQueue \cup {w} /\ NoDuplicates(queue')
    BY <1>1, <1>3, <2>1, AppendWindow DEF TypeOK, Conservation, InQueue
  <2>3. QED
    BY <1>1, <1>2, <2>1, <2>2 DEF Conservation, Disjoint
<1>5. CASE ~HasRoom
  <2>1. dropped' = dropped \cup {w} /\ UNCHANGED <<queue, failed, rejected>>
    BY <1>5 DEF DoPublishRequeue, Enqueued, GivenUp
  <2>2. InQueue' = InQueue /\ NoDuplicates(queue')
    BY <2>1 DEF InQueue, Conservation
  <2>3. QED
    BY <1>1, <1>2, <2>1, <2>2 DEF Conservation, Disjoint
<1>6. QED
  BY <1>4, <1>5

LEMMA SendMoves ==
    ASSUME TypeOK, Conservation, NEW t \in Consumers, DoPublishSend(t)
    PROVE  Conservation'
<1> DEFINE w == hand[t]
<1>1. w \in InHand /\ w \in Windows /\ InHand' = InHand \ {w} /\ HandOK'
  BY ReturnDrops DEF DoPublishSend
<1>2. Accepted' = Accepted /\ InQueue' = InQueue /\ OfferOK' /\ NoDuplicates(queue)'
  BY DEF DoPublishSend, Accepted, InQueue, OfferOK, InOffer, Conservation
<1>3. w \notin Sent
  BY <1>1 DEF Conservation, Disjoint
<1>4. CASE session \in {"up", "connecting"}
  <2>1. sent' = Append(sent, w) /\ UNCHANGED <<dropped, failed, rejected>>
    BY <1>4 DEF DoPublishSend
  <2>2. Sent' = Sent \cup {w} /\ NoDuplicates(sent')
    BY <1>1, <1>3, <2>1, AppendWindow DEF TypeOK, Conservation, Sent
  <2>3. QED
    BY <1>1, <1>2, <2>1, <2>2 DEF Conservation, Disjoint
<1>5. CASE session \notin {"up", "connecting"}
  <2>1. failed' = failed \cup {w} /\ UNCHANGED <<sent, dropped, rejected>>
    BY <1>5 DEF DoPublishSend
  <2>2. Sent' = Sent /\ NoDuplicates(sent')
    BY <2>1 DEF Sent, Conservation
  <2>3. QED
    BY <1>1, <1>2, <2>1, <2>2 DEF Conservation, Disjoint
<1>6. QED
  BY <1>4, <1>5

LEMMA PublishCheckMoves ==
    ASSUME TypeOK, Conservation, NEW c \in Callers, NEW w \in Windows, PublishCheck(c, w)
    PROVE  Conservation'
<1>1. w \notin InOffer /\ w \notin Accepted /\ w \notin rejected
  BY DEF PublishCheck, Unseen
<1>2. /\ InQueue' = InQueue /\ InHand' = InHand /\ Accepted' = Accepted /\ Sent' = Sent
      /\ NoDuplicates(queue)' /\ NoDuplicates(sent)' /\ HandOK'
      /\ UNCHANGED <<failed, dropped>>
  BY DEF PublishCheck, localVars, InQueue, InHand, Accepted, Sent, Conservation, HandOK
<1>3. CASE ~Accepts
  <2>1. rejected' = rejected \cup {w} /\ UNCHANGED offer
    BY <1>3 DEF PublishCheck
  <2>2. OfferOK'
    BY <1>1, <1>2, <2>1 DEF Conservation, OfferOK, InOffer, Disjoint
  <2>3. QED
    BY <1>1, <1>2, <2>1, <2>2 DEF Conservation, Disjoint
<1>4. CASE Accepts
  <2>1. offer' = [offer EXCEPT ![c] = w] /\ offer[c] = NoWindow /\ UNCHANGED rejected
    BY <1>4 DEF PublishCheck
  <2>2. InOffer' = InOffer \cup {w}
    BY <2>1, OfferTakes
  <2>3. \A d \in Callers : offer'[d] = IF d = c THEN w ELSE offer[d]
    BY <2>1 DEF TypeOK
  <2>4. \A d \in Callers : offer[d] # w
    BY <1>1, WindowAssumption DEF InOffer
  <2>5. OfferOK'
    BY <1>1, <1>2, <2>1, <2>2, <2>3, <2>4 DEF Conservation, OfferOK, Disjoint
  <2>6. QED
    BY <1>2, <2>1, <2>5 DEF Conservation, Disjoint
<1>5. QED
  BY <1>3, <1>4

LEMMA PublishPutMoves ==
    ASSUME TypeOK, Conservation, NEW c \in Callers, PublishPut(c)
    PROVE  Conservation'
<1> DEFINE w == offer[c]
<1>1. w \in InOffer /\ w \in Windows /\ InOffer' = InOffer \ {w}
  BY OfferDrops DEF PublishPut, Conservation
<1>2. w \notin Accepted /\ w \notin rejected
  BY <1>1 DEF Conservation, OfferOK, Disjoint
<1>3. /\ InHand' = InHand /\ Sent' = Sent /\ NoDuplicates(sent)' /\ HandOK'
      /\ UNCHANGED <<failed, dropped>>
  BY DEF PublishPut, localVars, InHand, Sent, Conservation, HandOK
<1>4. \A d, e \in Callers : offer'[d] # NoWindow /\ offer'[d] = offer'[e] => d = e
  <2>1. \A d \in Callers : offer'[d] = IF d = c THEN NoWindow ELSE offer[d]
    BY DEF PublishPut, TypeOK
  <2>2. QED
    BY <2>1 DEF Conservation, OfferOK
<1>5. CASE HasRoom
  <2>1. /\ queue' = Append(queue, w) /\ accepted' = Append(accepted, w)
        /\ UNCHANGED rejected
    BY <1>5 DEF PublishPut, Enqueued
  <2>2. InQueue' = InQueue \cup {w} /\ NoDuplicates(queue')
    BY <1>1, <1>2, <2>1, AppendWindow DEF TypeOK, Conservation, InQueue
  <2>3. Accepted' = Accepted \cup {w}
    BY <1>1, <2>1, AppendWindow DEF TypeOK, Accepted
  <2>4. OfferOK'
    BY <1>1, <1>4, <2>1, <2>3 DEF Conservation, OfferOK, Disjoint
  <2>5. QED
    BY <1>2, <1>3, <2>1, <2>2, <2>3, <2>4 DEF Conservation, Disjoint
<1>6. CASE ~HasRoom
  <2>1. rejected' = rejected \cup {w} /\ UNCHANGED <<queue, accepted>>
    BY <1>6 DEF PublishPut, Enqueued
  <2>2. InQueue' = InQueue /\ NoDuplicates(queue') /\ Accepted' = Accepted
    BY <2>1 DEF InQueue, Accepted, Conservation
  <2>3. OfferOK'
    BY <1>1, <1>4, <2>1, <2>2 DEF Conservation, OfferOK, Disjoint
  <2>4. QED
    BY <1>2, <1>3, <2>1, <2>2, <2>3 DEF Conservation, Disjoint
<1>7. QED
  BY <1>5, <1>6

LEMMA ConservationStep == TypeOK /\ Conservation /\ [Next]_vars => Conservation'
<1> SUFFICES ASSUME TypeOK, Conservation, [Next]_vars
             PROVE  Conservation'
  OBVIOUS
<1>0. /\ step \in [Consumers -> {"none", "check", "requeue", "send"}]
      /\ PublishThread \in Consumers /\ PublishThread \notin Closers
      /\ pc[PublishThread] = "get" => step[PublishThread] = "none"
      /\ \A c \in Closers : \A l : [pc EXCEPT ![c] = l][PublishThread] = pc[PublishThread]
  BY ThreadAssumption DEF TypeOK, Consumers, Conservation, HandOK
<1>1. ASSUME Connect
      PROVE  Conservation'
  <2>1. UNCHANGED <<flowVars, hand, step>>
    BY <1>1 DEF Connect, ConnectRefused, ConnectOpen, ConnectReady, ConnectTimeout, localVars
  <2>2. pc'[PublishThread] = "get" => pc[PublishThread] = "get"
    BY <1>0, <1>1 DEF Connect, ConnectRefused, ConnectOpen, ConnectReady, ConnectTimeout,
       localVars, TypeOK
  <2>3. QED
    BY <1>0, <2>1, <2>2, NoMove
<1>2. ASSUME NEW c \in Callers, PublishPut(c) \/ \E w \in Windows : PublishCheck(c, w)
      PROVE  Conservation'
  BY <1>2, PublishPutMoves, PublishCheckMoves
<1>3. ASSUME NEW t \in Consumers, DoPublish(t)
      PROVE  Conservation'
  <2>1. CASE DoPublishCheck(t)
    <3>1. UNCHANGED <<flowVars, hand, pc>> /\ step[t] = "check"
      BY <2>1 DEF DoPublishCheck, Route
    <3>2. \E l \in {"check", "send", "requeue"} : step' = [step EXCEPT ![t] = l]
      BY <2>1 DEF DoPublishCheck, Route
    <3>3. step'[PublishThread] = "none" \/ step[PublishThread] # "none"
      BY <1>0, <3>1, <3>2
    <3>4. QED
      BY <1>0, <3>1, <3>2, <3>3, NoMove
  <2>2. QED
    BY <1>3, <2>1, RequeueMoves, SendMoves DEF DoPublish
<1>4. ASSUME PublishLoop
      PROVE  Conservation'
  <2>1. CASE PublishLoopTest
    BY <1>0, <2>1, NoMove DEF PublishLoopTest
  <2>2. CASE PublishLoopEmpty
    BY <1>0, <2>2, NoMove DEF PublishLoopEmpty, TypeOK
  <2>3. CASE PublishLoopGet
    <3>1. step[PublishThread] = "none" /\ pc'[PublishThread] = "while"
      BY <1>0, <2>3 DEF PublishLoopGet, TypeOK
    <3>2. QED
      BY <1>0, <2>3, <3>1, TakeMoves DEF PublishLoopGet
  <2>4. QED
    BY <1>4, <2>1, <2>2, <2>3 DEF PublishLoop
<1>5. ASSUME NEW c \in Closers,
             FlushCall(c) \/ FlushDeadline(c) \/ DisconnectCall(c) \/ Teardown(c)
      PROVE  Conservation'
  <2>1. CASE FlushGet(c)
    <3>1. c \in Consumers /\ c # PublishThread
      BY <1>0 DEF Consumers
    <3>2. QED
      BY <2>1, <3>1, TakeMoves DEF FlushGet
  <2>2. CASE ~FlushGet(c)
    <3>1. UNCHANGED <<flowVars, hand, step>> /\ \E l : pc' = [pc EXCEPT ![c] = l]
      BY <1>5, <2>2 DEF FlushCall, FlushDeadline, DisconnectCall, Teardown, FlushEmpty,
         DisconnectFlag, JoinReturns, JoinTimeout, LoopStop, ClientDisconnect, ClearConnected,
         AfterFlush, Goto
    <3>2. pc'[PublishThread] = pc[PublishThread]
      BY <1>0, <3>1
    <3>3. QED
      BY <1>0, <3>1, <3>2, NoMove
  <2>3. QED
    BY <2>1, <2>2
<1>6. ASSUME Network \/ \E r \in ReconnectThreads : Reconnect(r)
      PROVE  Conservation'
  <2>1. UNCHANGED <<flowVars, localVars>>
    BY <1>6 DEF Network, SocketLost, OnDisconnect, OnConnect, OnConnectRefused, AutoReconnect,
       Reconnect, ReconnectTest, ReconnectWait, ReconnectOpen, ReconnectFails
  <2>2. QED
    BY <1>0, <2>1, NoMove DEF localVars
<1>7. CASE UNCHANGED vars
  BY <1>0, <1>7, NoMove DEF vars, localVars
<1>8. QED
  BY <1>1, <1>2, <1>3, <1>4, <1>5, <1>6, <1>7 DEF Next

-----------------------------------------------------------------------------
(* The theorems. *)

LEMMA InvariantHolds == Spec => []IInv
<1>1. Init => IInv
  BY TypeInit, InitConservation DEF IInv
<1>2. IInv /\ [Next]_vars => IInv'
  BY TypeStep, ConservationStep DEF IInv, Conservation
<1>3. QED
  BY <1>1, <1>2, PTL DEF Spec

(* The transport's variables always have their types, whatever the number
   of windows and threads and the size of the queue. *)
THEOREM TypeCorrect == Spec => []TypeOK
<1>1. IInv => TypeOK
  BY DEF IInv
<1>2. QED
  BY <1>1, InvariantHolds, PTL

(* Every window publish() accepted is in exactly one place, and a window it
   refused is in none, whatever interleaving the threads run into. *)
THEOREM WindowsConserved == Spec => []Conservation
<1>1. IInv => Conservation
  BY DEF IInv
<1>2. QED
  BY <1>1, InvariantHolds, PTL
-----------------------------------------------------------------------------
(* Refinement. *)

(* A step that leaves the queue and the hands alone together, the windows
   sent and the windows gone, is a stuttering step of the channel. *)
LEMMA ChannelStutters ==
    ASSUME (InQueue \cup InHand)' = InQueue \cup InHand,
           UNCHANGED <<sent, rejected, failed, dropped>>
    PROVE  UNCHANGED Channel!vars
BY DEF Channel!vars

LEMMA ChannelRequeue ==
    ASSUME TypeOK, Conservation, NEW t \in Consumers, DoPublishRequeue(t)
    PROVE  [Channel!Next]_(Channel!vars)
<1> DEFINE w == hand[t]
<1>1. w \in InHand /\ w \in Windows /\ InHand' = InHand \ {w}
  BY ReturnDrops DEF DoPublishRequeue, Enqueued, GivenUp
<1>2. w \notin InQueue
  BY <1>1 DEF Conservation, Disjoint
<1>3. CASE HasRoom
  <2>1. queue' = Append(queue, w) /\ UNCHANGED <<dropped, failed, rejected, sent>>
    BY <1>3 DEF DoPublishRequeue, Enqueued, GivenUp
  <2>2. InQueue' = InQueue \cup {w}
    BY <1>1, <2>1, AppendWindow DEF TypeOK, InQueue
  <2>3. QED
    BY <1>1, <2>1, <2>2, ChannelStutters
<1>4. CASE ~HasRoom
  <2>1. dropped' = dropped \cup {w} /\ UNCHANGED <<queue, failed, rejected, sent>>
    BY <1>4 DEF DoPublishRequeue, Enqueued, GivenUp
  <2>2. (InQueue \cup InHand)' = (InQueue \cup InHand) \ {w}
    BY <1>1, <1>2, <2>1 DEF InQueue
  <2>3. Channel!Lose(w)
    BY <1>1, <2>1, <2>2 DEF Channel!Lose
  <2>4. QED
    BY <1>1, <2>3 DEF Channel!Next
<1>5. QED
  BY <1>3, <1>4

LEMMA ChannelSend ==
    ASSUME TypeOK, Conservation, NEW t \in Consumers, DoPublishSend(t)
    PROVE  [Channel!Next]_(Channel!vars)
<1> DEFINE w == hand[t]
<1>1. w \in InHand /\ w \in Windows /\ InHand' = InHand \ {w}
  BY ReturnDrops DEF DoPublishSend
<1>2. (InQueue \cup InHand)' = (InQueue \cup InHand) \ {w}
  BY <1>1 DEF Conservation, Disjoint, DoPublishSend, InQueue
<1>3. CASE session \in {"up", "connecting"}
  <2>1. Channel!Deliver(w)
    BY <1>1, <1>2, <1>3 DEF DoPublishSend, Channel!Deliver
  <2>2. QED
    BY <1>1, <2>1 DEF Channel!Next
<1>4. CASE session \notin {"up", "connecting"}
  <2>1. Channel!Lose(w)
    BY <1>1, <1>2, <1>4 DEF DoPublishSend, Channel!Lose
  <2>2. QED
    BY <1>1, <2>1 DEF Channel!Next
<1>5. QED
  BY <1>3, <1>4

LEMMA ChannelPublish ==
    ASSUME TypeOK, Conservation, NEW c \in Callers,
           PublishPut(c) \/ \E w \in Windows : PublishCheck(c, w)
    PROVE  [Channel!Next]_(Channel!vars)
<1>1. Channel!DeliveredSet = Sent
  BY DEF Channel!DeliveredSet, Sent, SeqRange
<1> DEFINE Seen == InQueue \cup InHand \cup Channel!DeliveredSet \cup
                   (rejected \cup failed \cup dropped)
<1>2. Seen = Accepted \cup rejected
  BY <1>1 DEF Conservation
<1>3. ASSUME NEW w \in Windows, PublishCheck(c, w)
      PROVE  [Channel!Next]_(Channel!vars)
  <2>1. w \notin Seen
    BY <1>2, <1>3 DEF PublishCheck, Unseen
  <2>2. (InQueue \cup InHand)' = InQueue \cup InHand /\ UNCHANGED <<sent, failed, dropped>>
    BY <1>3 DEF PublishCheck, localVars, InQueue, InHand
  <2>3. CASE ~Accepts
    <3>1. Channel!Refuse(w)
      BY <1>3, <2>1, <2>2, <2>3 DEF PublishCheck, Channel!Refuse
    <3>2. QED
      BY <3>1 DEF Channel!Next
  <2>4. CASE Accepts
    BY <1>3, <2>2, <2>4, ChannelStutters DEF PublishCheck
  <2>5. QED
    BY <2>3, <2>4
<1>4. ASSUME PublishPut(c)
      PROVE  [Channel!Next]_(Channel!vars)
  <2> DEFINE w == offer[c]
  <2>1. w \in InOffer /\ w \in Windows
    BY <1>4, OfferDrops DEF PublishPut, Conservation
  <2>2. w \notin Seen
    BY <1>2, <2>1 DEF Conservation, OfferOK, Disjoint
  <2>3. InHand' = InHand /\ UNCHANGED <<sent, failed, dropped>>
    BY <1>4 DEF PublishPut, localVars, InHand
  <2>4. CASE HasRoom
    <3>1. queue' = Append(queue, w) /\ UNCHANGED rejected
      BY <1>4, <2>4 DEF PublishPut, Enqueued
    <3>2. (InQueue \cup InHand)' = InQueue \cup InHand \cup {w}
      BY <2>1, <2>3, <3>1, AppendWindow DEF TypeOK, InQueue
    <3>3. Channel!Accept(w)
      BY <2>2, <2>3, <3>1, <3>2 DEF Channel!Accept
    <3>4. QED
      BY <2>1, <3>3 DEF Channel!Next
  <2>5. CASE ~HasRoom
    <3>1. rejected' = rejected \cup {w} /\ UNCHANGED queue
      BY <1>4, <2>5 DEF PublishPut, Enqueued
    <3>2. Channel!Refuse(w)
      BY <2>2, <2>3, <3>1 DEF Channel!Refuse, InQueue
    <3>3. QED
      BY <2>1, <3>2 DEF Channel!Next
  <2>6. QED
    BY <2>4, <2>5
<1>5. QED
  BY <1>3, <1>4

LEMMA ChannelTake ==
    ASSUME TypeOK, Conservation, NEW t \in Consumers, step[t] = "none", Take(t),
           UNCHANGED <<rejected, sent, failed, dropped>>
    PROVE  UNCHANGED Channel!vars
<1>1. hand[t] = NoWindow
  BY DEF Conservation, HandOK
<1>2. Head(queue) \in Windows /\ Head(queue) \in InQueue /\ InQueue' = InQueue \ {Head(queue)}
  BY RangeOfTail DEF Take, TypeOK, Conservation, InQueue
<1>3. InHand' = InHand \cup {Head(queue)}
  BY <1>1, <1>2, HandTakes DEF Take
<1>4. QED
  BY <1>2, <1>3, ChannelStutters

LEMMA ChannelStep == TypeOK /\ Conservation /\ [Next]_vars => [Channel!Next]_(Channel!vars)
<1> SUFFICES ASSUME TypeOK, Conservation, [Next]_vars
             PROVE  [Channel!Next]_(Channel!vars)
  OBVIOUS
<1>1. ASSUME UNCHANGED <<flowVars, hand>>
      PROVE  UNCHANGED Channel!vars
  BY <1>1, ChannelStutters DEF flowVars, InQueue, InHand
<1>2. CASE Connect
  BY <1>1, <1>2
     DEF Connect, ConnectRefused, ConnectOpen, ConnectReady, ConnectTimeout, localVars
<1>3. ASSUME NEW t \in Consumers, DoPublish(t)
      PROVE  [Channel!Next]_(Channel!vars)
  BY <1>1, <1>3, ChannelRequeue, ChannelSend DEF DoPublish, DoPublishCheck
<1>4. CASE PublishLoop
  <2>1. CASE PublishLoopGet
    <3>1. PublishThread \in Consumers /\ step[PublishThread] = "none"
      BY <2>1 DEF PublishLoopGet, Consumers, Conservation, HandOK
    <3>2. QED
      BY <2>1, <3>1, ChannelTake DEF PublishLoopGet
  <2>2. QED
    BY <1>1, <1>4, <2>1 DEF PublishLoop, PublishLoopTest, PublishLoopEmpty
<1>5. ASSUME NEW c \in Closers,
             FlushCall(c) \/ FlushDeadline(c) \/ DisconnectCall(c) \/ Teardown(c)
      PROVE  [Channel!Next]_(Channel!vars)
  <2>1. CASE FlushGet(c)
    <3>1. c \in Consumers
      BY DEF Consumers
    <3>2. QED
      BY <2>1, <3>1, ChannelTake DEF FlushGet
  <2>2. CASE ~FlushGet(c)
    BY <1>1, <1>5, <2>2 DEF FlushCall, FlushDeadline, DisconnectCall, Teardown, FlushEmpty,
       DisconnectFlag, JoinReturns, JoinTimeout, LoopStop, ClientDisconnect, ClearConnected
  <2>3. QED
    BY <2>1, <2>2
<1>6. CASE Network \/ \E r \in ReconnectThreads : Reconnect(r)
  BY <1>1, <1>6 DEF Network, SocketLost, OnDisconnect, OnConnect, OnConnectRefused,
     AutoReconnect, Reconnect, ReconnectTest, ReconnectWait, ReconnectOpen, ReconnectFails,
     localVars
<1>7. CASE UNCHANGED vars
  BY <1>1, <1>7 DEF vars, localVars
<1>8. QED
  BY <1>2, <1>3, <1>4, <1>5, <1>6, <1>7, ChannelPublish DEF Next

(* The transport implements the at-most-once channel: a window is handed to
   the MQTT client at most once, only if publish() accepted it, and never
   after it was given up. *)
THEOREM ImplementsChannel == Spec => ChannelSpec
<1>1. Init => Channel!Init
  BY DEF Init, Channel!Init, InQueue, InHand, SeqRange
<1>2. IInv /\ [Next]_vars => [Channel!Next]_(Channel!vars)
  BY ChannelStep DEF IInv
<1>3. QED
  BY <1>1, <1>2, InvariantHolds, PTL DEF Spec, ChannelSpec, Channel!Spec

-----------------------------------------------------------------------------
(***************************************************************************)
(* The teardown, and the order of the windows.  NothingStranded,           *)
(* CleanShutdownDelivers and OrderWhileUp need to know where every thread  *)
(* can be, so IInv is strengthened to ShutdownInv, below.                  *)
(***************************************************************************)
Unbroken == ~hist.lost /\ ~hist.timeout

(* Where each consumer can be: a thread is in _do_publish only from its loop. *)
Roles ==
    /\ pc[PublishThread] \in {"unstarted", "while", "get", "done"}
    /\ \A c \in Closers : pc[c] \notin {"unstarted", "while", "get"}
    /\ pc[PublishThread] \in {"unstarted", "done"} => step[PublishThread] = "none"
    /\ \A c \in Closers : step[c] # "none" => pc[c] \in {"flush", "drain"}
    /\ start = "new" => ~loopRunning /\ ~connected

(* What a closer has announced by the time it is somewhere. *)
Announced ==
    /\ \A c \in Closers :
          pc[c] \in {"drain", "join", "loopStop", "close", "clear", "done"} => shuttingDown
    /\ \A c \in Closers :
          pc[c] \in {"flush", "drain", "join", "loopStop", "close", "clear"} => c \in hist.flushed
    /\ shuttingDown => hist.flushed # {}

(* While no connection was lost there is nothing to reconnect, and a closed
   connection that still counts as connected is one a closer is closing. *)
NoLoss ==
    ~hist.lost =>
        /\ ~lossPending
        /\ \A r \in ReconnectThreads : recon[r] = "none"
        /\ session = "down" /\ connected => \E c \in Closers : pc[c] = "clear"

(* Some closer is past the join, or every one that shut down is. *)
Joined ==
    \/ \E c \in Closers : pc[c] \in {"loopStop", "close", "clear"}
    \/ shuttingDown /\ \A c \in Closers : pc[c] \notin {"drain", "join"}

(* After a join that did not time out the publish thread takes nothing from
   the queue again; it may not even have been started, and connect() may
   start it later, but then it finds the flag set. *)
PublisherRetired ==
    ~hist.timeout /\ Joined => pc[PublishThread] # "get" /\ step[PublishThread] = "none"

(* The publish thread runs only when connected, so it puts nothing back. *)
PublisherConnected ==
    Unbroken =>
        /\ step[PublishThread] # "none" \/ pc[PublishThread] = "get"
             \/ (pc[PublishThread] = "while" /\ ~shuttingDown) => connected
        /\ step[PublishThread] # "requeue"

(* While no closer flushes, a transport that shuts down has in its queue
   only what was enqueued after the flag. *)
QueueDrained ==
    Unbroken /\ shuttingDown /\ (\A c \in Closers : pc[c] \notin {"flush", "drain"})
        => InQueue \subseteq hist.late

OneFlusher == \A c, d \in hist.flushed : c = d

(* With one closer nobody closes the connection under a thread that sends. *)
NoneRefused ==
    Unbroken /\ OneFlusher =>
        /\ failed = {}
        /\ \A t \in Consumers : step[t] = "send" => session # "down"

(* A caller that had read the flag before it was set can enqueue once. *)
Offering == {c \in Callers : offer[c] # NoWindow}

LateBounded ==
    /\ ~shuttingDown => hist.late = {}
    /\ IsFiniteSet(hist.late)
    /\ shuttingDown => Cardinality(hist.late) + Cardinality(Offering) <= Cardinality(Callers)

(* A link that was never lost nor flushed is up once it is connected, and
   it was connected before the publish thread started. *)
LinkUp ==
    ~hist.lost /\ hist.flushed = {} =>
        /\ connected => session = "up"
        /\ pc[PublishThread] # "unstarted" => connected
        /\ step[PublishThread] # "requeue"

ShutdownInv ==
    /\ IInv
    /\ Roles /\ Announced /\ NoLoss
    /\ PublisherRetired /\ PublisherConnected
    /\ QueueDrained /\ NoneRefused /\ LateBounded
    /\ LinkUp /\ OrderWhileUp

-----------------------------------------------------------------------------
(* What a step of a closer, and of any other thread, can do. *)

LEMMA PcMoves ==
    ASSUME TypeOK
    PROVE  /\ PublishThread \in Consumers /\ Closers \subseteq Consumers
           /\ \A c \in Closers : c # PublishThread
           /\ \A t, u \in Consumers : \A l : [pc EXCEPT ![t] = l][u] = IF u = t THEN l ELSE pc[u]
           /\ \A t, u \in Consumers : \A l :
                 [step EXCEPT ![t] = l][u] = IF u = t THEN l ELSE step[u]
  BY ThreadAssumption DEF TypeOK, Consumers

CloserActs(c) == FlushCall(c) \/ FlushDeadline(c) \/ DisconnectCall(c) \/ Teardown(c)

(* What a step of closer c does to itself: where it goes from where, and what that requires. *)
CloserMove(c) ==
    \/ /\ pc[c] = "idle" /\ pc'[c] = "flush" /\ c \in hist'.flushed
       /\ UNCHANGED <<step, session, connected, shuttingDown, queue>> /\ hist'.timeout = hist.timeout
    \/ /\ pc[c] \in {"flush", "drain"} /\ pc'[c] = (IF pc[c] = "flush" THEN "idle" ELSE "join")
       /\ step[c] = "none" /\ (queue = <<>> \/ hist'.timeout)
       /\ hist'.flushed = hist.flushed
       /\ UNCHANGED <<step, session, connected, shuttingDown, queue>>
    \/ /\ pc[c] = "idle" /\ pc'[c] = (IF shuttingDown THEN "done" ELSE "flag")
       /\ UNCHANGED <<step, session, connected, shuttingDown, queue, hist>>
    \/ /\ pc[c] \in {"flush", "drain"} /\ pc'[c] = pc[c]
       /\ step[c] = "none" /\ step'[c] = "check"
       /\ queue # <<>> /\ queue' = Tail(queue)
       /\ UNCHANGED <<session, connected, shuttingDown, hist>>
    \/ /\ pc[c] = "flag" /\ pc'[c] = "drain" /\ shuttingDown' /\ c \in hist'.flushed
       /\ UNCHANGED <<step, session, connected, queue>> /\ hist'.timeout = hist.timeout
    \/ /\ pc[c] = "join" /\ pc'[c] = "loopStop"
       /\ pc[PublishThread] \in {"unstarted", "done"} \/ hist'.timeout
       /\ hist'.flushed = hist.flushed
       /\ UNCHANGED <<step, session, connected, shuttingDown, queue>>
    \/ /\ pc[c] = "loopStop" /\ pc'[c] = "close"
       /\ UNCHANGED <<step, session, connected, shuttingDown, queue, hist>>
    \/ /\ pc[c] = "close" /\ pc'[c] = "clear" /\ session' = "down"
       /\ UNCHANGED <<step, connected, shuttingDown, queue, hist>>
    \/ /\ pc[c] = "clear" /\ pc'[c] = "done" /\ connected' = FALSE
       /\ UNCHANGED <<step, session, shuttingDown, queue, hist>>

CloserLeaves(c) ==
    /\ UNCHANGED <<start, lossPending, recon, offer, accepted, sent, failed, dropped>>
    /\ \A t \in Consumers : t # c => pc'[t] = pc[t] /\ step'[t] = step[t]
    /\ hist'.lost = hist.lost /\ hist'.late = hist.late
    /\ hist.timeout => hist'.timeout
    /\ hist'.flushed \in {hist.flushed, hist.flushed \cup {c}}
    /\ loopRunning' => loopRunning

LEMMA Leaves ==
    ASSUME TypeOK, NEW c \in Consumers, AfterFlush(c)
    PROVE  /\ pc'[c] = (IF pc[c] = "flush" THEN "idle" ELSE "join")
           /\ \A t \in Consumers : t # c => pc'[t] = pc[t]
  BY DEF TypeOK, AfterFlush, Goto

LEMMA CloserStep ==
    ASSUME TypeOK, NEW c \in Closers, CloserActs(c)
    PROVE  CloserMove(c) /\ CloserLeaves(c)
  <1>0. /\ PublishThread \in Consumers /\ c \in Consumers
        /\ \A t, u \in Consumers : \A l : [pc EXCEPT ![t] = l][u] = IF u = t THEN l ELSE pc[u]
        /\ \A t, u \in Consumers : \A l : [step EXCEPT ![t] = l][u] = IF u = t THEN l ELSE step[u]
        /\ hist \in [lost : BOOLEAN, timeout : BOOLEAN,
                    flushed : SUBSET Closers, late : SUBSET Windows]
    BY PcMoves DEF TypeOK
  <1> USE DEF CloserMove, CloserLeaves, Goto, connVars, flowVars
  <1>1. CASE FlushCall(c)
    BY <1>0, <1>1 DEF FlushCall
  <1>2. CASE FlushDeadline(c)
    <2>1. /\ hist'.timeout /\ hist'.lost = hist.lost /\ hist'.late = hist.late
          /\ hist'.flushed = hist.flushed
      BY <1>0, <1>2 DEF FlushDeadline
    <2>2. /\ pc[c] \in {"flush", "drain"} /\ step[c] = "none"
          /\ UNCHANGED <<connVars, shuttingDown, flowVars, step, hand>>
      BY <1>2 DEF FlushDeadline
    <2>3. /\ pc'[c] = (IF pc[c] = "flush" THEN "idle" ELSE "join")
          /\ \A t \in Consumers : t # c => pc'[t] = pc[t]
      BY <1>0, <1>2, Leaves DEF FlushDeadline
    <2>4. CloserMove(c)
      BY <2>1, <2>2, <2>3
    <2>5. CloserLeaves(c)
      BY <2>1, <2>2, <2>3
    <2> QED
      BY <2>4, <2>5
  <1>3. CASE DisconnectCall(c)
    BY <1>0, <1>3 DEF DisconnectCall
  <1>4. CASE FlushGet(c)
    <2>1. UNCHANGED <<start, lossPending, recon, offer, accepted, sent, failed, dropped,
                     session, connected, shuttingDown, loopRunning, hist, pc>>
      BY <1>4 DEF FlushGet, connVars
    <2>2. /\ pc[c] \in {"flush", "drain"} /\ step[c] = "none"
          /\ queue # <<>> /\ queue' = Tail(queue)
          /\ step' = [step EXCEPT ![c] = "check"]
      BY <1>4 DEF FlushGet, Take
    <2>3. step'[c] = "check" /\ \A t \in Consumers : t # c => step'[t] = step[t]
      BY <1>0, <2>2 DEF TypeOK
    <2>4. CloserMove(c)
      BY <2>1, <2>2, <2>3
    <2>5. CloserLeaves(c)
      BY <2>1, <2>3
    <2> QED
      BY <2>4, <2>5
  <1>5. CASE FlushEmpty(c)
    <2>1. /\ pc[c] \in {"flush", "drain"} /\ step[c] = "none" /\ queue = <<>>
          /\ UNCHANGED <<connVars, shuttingDown, flowVars, step, hand, hist>>
      BY <1>5 DEF FlushEmpty
    <2> QED
      BY <1>0, <1>5, <2>1, Leaves DEF FlushEmpty
  <1>6. CASE DisconnectFlag(c)
    BY <1>0, <1>6 DEF DisconnectFlag
  <1>7. CASE JoinReturns(c)
    BY <1>0, <1>7 DEF JoinReturns, PublishThreadEnded
  <1>8. CASE JoinTimeout(c)
    <2>1. /\ hist'.timeout /\ hist'.lost = hist.lost /\ hist'.late = hist.late
          /\ hist'.flushed = hist.flushed
      BY <1>0, <1>8 DEF JoinTimeout
    <2> QED
      BY <1>0, <1>8, <2>1 DEF JoinTimeout, PublishThreadEnded
  <1>9. CASE LoopStop(c)
    BY <1>0, <1>9 DEF LoopStop
  <1>10. CASE ClientDisconnect(c)
    BY <1>0, <1>10 DEF ClientDisconnect
  <1>11. CASE ClearConnected(c)
    BY <1>0, <1>11 DEF ClearConnected
  <1> QED
    BY <1>1, <1>2, <1>3, <1>4, <1>5, <1>6, <1>7, <1>8, <1>9, <1>10, <1>11 DEF CloserActs, Teardown

LEMMA RolesStep == TypeOK /\ HandOK /\ Roles /\ [Next]_vars => Roles'
  <1> SUFFICES ASSUME TypeOK, HandOK, Roles, [Next]_vars
               PROVE  Roles'
    OBVIOUS
  <1>0. /\ PublishThread \in Consumers /\ Closers \subseteq Consumers
        /\ \A c \in Closers : c # PublishThread
        /\ \A t, u \in Consumers : \A l : [pc EXCEPT ![t] = l][u] = IF u = t THEN l ELSE pc[u]
        /\ \A t, u \in Consumers : \A l : [step EXCEPT ![t] = l][u] = IF u = t THEN l ELSE step[u]
    BY PcMoves
  <1>1. CASE Connect
    BY <1>0, <1>1 DEF Roles, Connect, ConnectRefused, ConnectOpen, ConnectReady, ConnectTimeout,
       localVars
  <1>2. ASSUME NEW c \in Callers, PublishPut(c) \/ \E w \in Windows : PublishCheck(c, w)
        PROVE  Roles'
    BY <1>2 DEF Roles, PublishPut, PublishCheck, connVars, localVars
  <1>3. ASSUME NEW t \in Consumers, DoPublish(t)
        PROVE  Roles'
    <2>1. /\ UNCHANGED <<connVars, pc>>
          /\ step[t] # "none"
          /\ \E l : step' = [step EXCEPT ![t] = l]
      BY <1>3 DEF DoPublish, DoPublishCheck, DoPublishRequeue, DoPublishSend, DoPublishReturn
    <2>2. t \in Closers \/ t = PublishThread
      BY DEF Consumers
    <2> QED
      BY <1>0, <2>1, <2>2 DEF Roles, connVars
  <1>4. CASE PublishLoop
    <2>1. /\ pc[PublishThread] \in {"while", "get"} /\ step[PublishThread] = "none"
          /\ \/ pc' = [pc EXCEPT ![PublishThread] = "done"] /\ step' = step
             \/ pc' = [pc EXCEPT ![PublishThread] = "get"] /\ step' = step
             \/ /\ pc' = [pc EXCEPT ![PublishThread] = "while"]
                /\ \/ step' = step
                   \/ step' = [step EXCEPT ![PublishThread] = "check"]
      BY <1>4 DEF PublishLoop, PublishLoopTest, PublishLoopGet, PublishLoopEmpty, Take, HandOK
    <2>2. UNCHANGED connVars
      BY <1>4 DEF PublishLoop, PublishLoopTest, PublishLoopGet, PublishLoopEmpty
    <2>3. \A c \in Closers : pc'[c] = pc[c] /\ step'[c] = step[c]
      BY <1>0, <2>1
    <2>4. /\ pc'[PublishThread] \in {"while", "get", "done"}
          /\ pc'[PublishThread] = "done" => step'[PublishThread] = "none"
      BY <1>0, <2>1
    <2> QED
      BY <2>2, <2>3, <2>4 DEF Roles, connVars
  <1>5. ASSUME NEW c \in Closers, CloserActs(c)
        PROVE  Roles'
    <2>1. CloserMove(c) /\ CloserLeaves(c)
      BY <1>5, CloserStep
    <2>2. start' = start /\ (loopRunning' => loopRunning) /\ (connected' => connected)
      BY <2>1 DEF CloserMove, CloserLeaves
    <2>3. pc'[PublishThread] = pc[PublishThread] /\ step'[PublishThread] = step[PublishThread]
      BY <1>0, <2>1 DEF CloserLeaves
    <2>4. /\ pc'[c] \notin {"unstarted", "while", "get"}
          /\ step'[c] # "none" => pc'[c] \in {"flush", "drain"}
      BY <1>0, <2>1 DEF CloserMove, Roles
    <2>5. \A d \in Closers : d # c => pc'[d] = pc[d] /\ step'[d] = step[d]
      BY <1>0, <2>1 DEF CloserLeaves
    <2> QED
      BY <2>2, <2>3, <2>4, <2>5 DEF Roles
  <1>7. CASE Network
    BY <1>7 DEF Roles, Network, SocketLost, OnDisconnect, OnConnect, OnConnectRefused,
       AutoReconnect, localVars
  <1>8. ASSUME NEW r \in ReconnectThreads, Reconnect(r)
        PROVE  Roles'
    BY <1>8 DEF Roles, Reconnect, ReconnectTest, ReconnectWait, ReconnectOpen, ReconnectFails,
       localVars
  <1>9. CASE UNCHANGED vars
    BY <1>9 DEF Roles, vars, localVars, connVars
  <1> QED
    BY <1>1, <1>2, <1>3, <1>4, <1>5, <1>7, <1>8, <1>9 DEF Next, CloserActs

(* The threads other than the closers. *)
OthersAct ==
    \/ Connect
    \/ \E c \in Callers : PublishPut(c) \/ \E w \in Windows : PublishCheck(c, w)
    \/ \E t \in Consumers : DoPublish(t)
    \/ PublishLoop
    \/ Network
    \/ \E r \in ReconnectThreads : Reconnect(r)
    \/ UNCHANGED vars

OthersKeep ==
    /\ UNCHANGED shuttingDown
    /\ \A c \in Closers : pc'[c] = pc[c]
    /\ hist'.flushed = hist.flushed /\ hist'.timeout = hist.timeout
    /\ hist.lost => hist'.lost

LEMMA OthersStep ==
    ASSUME TypeOK, OthersAct
    PROVE  OthersKeep
  <1>0. /\ PublishThread \in Consumers /\ Closers \subseteq Consumers
        /\ \A c \in Closers : c # PublishThread
        /\ \A u \in Consumers : \A l :
              [pc EXCEPT ![PublishThread] = l][u] = IF u = PublishThread THEN l ELSE pc[u]
        /\ hist \in [lost : BOOLEAN, timeout : BOOLEAN,
                    flushed : SUBSET Closers, late : SUBSET Windows]
    BY PcMoves DEF TypeOK
  <1>1. CASE UNCHANGED <<shuttingDown, hist>> /\ \E l : pc' = [pc EXCEPT ![PublishThread] = l]
    BY <1>0, <1>1 DEF OthersKeep
  <1>2. CASE UNCHANGED <<shuttingDown, hist, pc>>
    BY <1>2 DEF OthersKeep
  <1>3. CASE Connect
    BY <1>1, <1>2, <1>3 DEF Connect, ConnectRefused, ConnectOpen, ConnectReady, ConnectTimeout,
       localVars
  <1>4. ASSUME NEW c \in Callers, PublishPut(c)
        PROVE  OthersKeep
    <2>1. UNCHANGED <<shuttingDown, pc>>
      BY <1>4 DEF PublishPut, localVars
    <2>2. CASE HasRoom
      <3>1. \E S : hist' = [hist EXCEPT !.late = S]
        BY <1>4, <2>2 DEF PublishPut
      <3> QED
        BY <1>0, <2>1, <3>1 DEF OthersKeep
    <2>3. CASE ~HasRoom
      BY <1>2, <1>4, <2>1, <2>3 DEF PublishPut
    <2> QED
      BY <2>2, <2>3
  <1>5. ASSUME NEW c \in Callers, NEW w \in Windows, PublishCheck(c, w)
        PROVE  OthersKeep
    BY <1>2, <1>5 DEF PublishCheck, localVars
  <1>6. ASSUME NEW t \in Consumers, DoPublish(t)
        PROVE  OthersKeep
    BY <1>2, <1>6 DEF DoPublish, DoPublishCheck, DoPublishRequeue, DoPublishSend
  <1>7. CASE PublishLoop
    BY <1>1, <1>7 DEF PublishLoop, PublishLoopTest, PublishLoopGet, PublishLoopEmpty
  <1>8. CASE SocketLost \/ OnConnectRefused
    <2>1. UNCHANGED <<shuttingDown, pc>> /\ hist' = [hist EXCEPT !.lost = TRUE]
      BY <1>8 DEF SocketLost, OnConnectRefused, localVars
    <2>2. hist'.flushed = hist.flushed /\ hist'.timeout = hist.timeout /\ hist'.lost
      BY <1>0, <2>1
    <2> QED
      BY <2>1, <2>2 DEF OthersKeep
  <1>9. CASE OnDisconnect \/ OnConnect \/ AutoReconnect
    BY <1>2, <1>9 DEF OnDisconnect, OnConnect, AutoReconnect, localVars
  <1>10. ASSUME NEW r \in ReconnectThreads, Reconnect(r)
        PROVE  OthersKeep
    BY <1>2, <1>10 DEF Reconnect, ReconnectTest, ReconnectWait, ReconnectOpen, ReconnectFails,
       localVars
  <1>11. CASE UNCHANGED vars
    BY <1>2, <1>11 DEF vars, localVars
  <1> QED
    BY <1>3, <1>4, <1>5, <1>6, <1>7, <1>8, <1>9, <1>10, <1>11 DEF OthersAct, Network

-----------------------------------------------------------------------------
(* One lemma for each part of ShutdownInv. *)

LEMMA ClosersOrOthers ==
    [Next]_vars => OthersAct \/ \E c \in Closers : CloserActs(c)
  BY DEF Next, OthersAct, CloserActs

LEMMA AnnouncedStep == TypeOK /\ Announced /\ [Next]_vars => Announced'
  <1> SUFFICES ASSUME TypeOK, Announced, [Next]_vars
               PROVE  Announced'
    OBVIOUS
  <1>1. CASE OthersAct
    <2>1. OthersKeep
      BY <1>1, OthersStep
    <2> QED
      BY <2>1 DEF Announced, OthersKeep
  <1>2. ASSUME NEW c \in Closers, CloserActs(c)
        PROVE  Announced'
    <2>1. CloserMove(c) /\ CloserLeaves(c)
      BY <1>2, CloserStep
    <2>2. \A d \in Closers : d # c => pc'[d] = pc[d]
      BY <2>1, PcMoves DEF CloserLeaves
    <2>3. hist.flushed \subseteq hist'.flushed /\ (shuttingDown => shuttingDown')
      BY <2>1 DEF CloserLeaves, CloserMove
    <2>4. /\ pc'[c] \in {"drain", "join", "loopStop", "close", "clear", "done"} => shuttingDown'
          /\ pc'[c] \in {"flush", "drain", "join", "loopStop", "close", "clear"} => c \in hist'.flushed
          /\ shuttingDown' => shuttingDown \/ c \in hist'.flushed
      BY <2>1 DEF CloserMove, Announced
    <2> QED
      BY <2>2, <2>3, <2>4 DEF Announced
  <1> QED
    BY <1>1, <1>2, ClosersOrOthers

(* What the threads other than the closers do to the link, as long as no connection is lost. *)
LinkKept ==
    /\ UNCHANGED <<lossPending, recon>>
    /\ \/ UNCHANGED <<session, connected>>
       \/ session' = "connecting" /\ UNCHANGED connected /\ (session = "down" \/ start = "new")
       \/ session' = "up" /\ connected'

LEMMA LinkStep ==
    ASSUME TypeOK, NoLoss, OthersAct, ~hist'.lost
    PROVE  LinkKept
  <1>0. ~hist.lost /\ ~lossPending /\ \A r \in ReconnectThreads : recon[r] = "none"
    BY OthersStep DEF OthersKeep, NoLoss
  <1>1. CASE UNCHANGED connVars
    BY <1>1 DEF LinkKept, connVars
  <1>2. CASE Connect
    BY <1>2 DEF LinkKept, Connect, ConnectRefused, ConnectOpen, ConnectReady, ConnectTimeout,
       connVars
  <1>3. ASSUME NEW c \in Callers, PublishPut(c) \/ \E w \in Windows : PublishCheck(c, w)
        PROVE  UNCHANGED connVars
    BY <1>3 DEF PublishPut, PublishCheck
  <1>4. ASSUME NEW t \in Consumers, DoPublish(t)
        PROVE  UNCHANGED connVars
    BY <1>4 DEF DoPublish, DoPublishCheck, DoPublishRequeue, DoPublishSend
  <1>5. CASE PublishLoop
    BY <1>1, <1>5 DEF PublishLoop, PublishLoopTest, PublishLoopGet, PublishLoopEmpty
  <1>6. ~SocketLost /\ ~OnConnectRefused
    BY DEF SocketLost, OnConnectRefused, TypeOK
  <1>7. CASE OnConnect \/ AutoReconnect
    BY <1>7 DEF OnConnect, AutoReconnect, LinkKept
  <1>8. ~OnDisconnect
    BY <1>0 DEF OnDisconnect
  <1>9. \A r \in ReconnectThreads : ~Reconnect(r)
    BY <1>0 DEF Reconnect, ReconnectTest, ReconnectWait, ReconnectOpen, ReconnectFails
  <1>10. CASE UNCHANGED vars
    BY <1>1, <1>10 DEF vars
  <1> QED
    BY <1>1, <1>2, <1>3, <1>4, <1>5, <1>6, <1>7, <1>8, <1>9, <1>10 DEF OthersAct, Network

LEMMA NoLossStep == TypeOK /\ NoLoss /\ [Next]_vars => NoLoss'
  <1> SUFFICES ASSUME TypeOK, NoLoss, [Next]_vars, ~hist'.lost
               PROVE  /\ ~lossPending'
                      /\ \A r \in ReconnectThreads : recon'[r] = "none"
                      /\ session' = "down" /\ connected' => \E c \in Closers : pc'[c] = "clear"
    BY DEF NoLoss
  <1>1. CASE OthersAct
    <2>1. OthersKeep /\ LinkKept
      BY <1>1, OthersStep, LinkStep
    <2> QED
      BY <2>1 DEF NoLoss, OthersKeep, LinkKept
  <1>2. ASSUME NEW c \in Closers, CloserActs(c)
        PROVE  /\ ~lossPending'
               /\ \A r \in ReconnectThreads : recon'[r] = "none"
               /\ session' = "down" /\ connected' => \E d \in Closers : pc'[d] = "clear"
    <2>1. CloserMove(c) /\ CloserLeaves(c)
      BY <1>2, CloserStep
    <2>2. \A d \in Closers : d # c => pc'[d] = pc[d]
      BY <2>1, PcMoves DEF CloserLeaves
    <2>3. ~hist.lost /\ UNCHANGED <<lossPending, recon>>
      BY <2>1 DEF CloserLeaves
    <2>4. \/ connected' = FALSE
          \/ pc'[c] = "clear"
          \/ UNCHANGED <<session, connected>> /\ pc[c] # "clear"
      BY <2>1 DEF CloserMove
    <2> QED
      BY <2>2, <2>3, <2>4 DEF NoLoss
  <1> QED
    BY <1>1, <1>2, ClosersOrOthers

(* A step of the publish thread or of a thread that is not a consumer. *)
LEMMA PublisherStep ==
    ASSUME TypeOK, HandOK, OthersAct
    PROVE  \/ pc'[PublishThread] = pc[PublishThread] /\ step'[PublishThread] = step[PublishThread]
           \/ /\ pc'[PublishThread] = "while" /\ step' = step
              /\ connected /\ connected' /\ start = "waiting"
           \/ /\ pc[PublishThread] = "while" /\ step[PublishThread] = "none"
              /\ pc'[PublishThread] = (IF shuttingDown THEN "done" ELSE "get")
              /\ UNCHANGED <<step, connected>>
           \/ /\ pc[PublishThread] = "get" /\ pc'[PublishThread] = "while" /\ step[PublishThread] = "none"
              /\ step'[PublishThread] \in {"none", "check"}
              /\ UNCHANGED connected
           \/ /\ step[PublishThread] # "none" /\ pc' = pc
              /\ step'[PublishThread] = (IF step[PublishThread] # "check" THEN "none"
                                         ELSE IF connected THEN "send" ELSE "requeue")
              /\ UNCHANGED connected
  <1>0. /\ PublishThread \in Consumers
        /\ \A t, u \in Consumers : \A l : [pc EXCEPT ![t] = l][u] = IF u = t THEN l ELSE pc[u]
        /\ \A t, u \in Consumers : \A l : [step EXCEPT ![t] = l][u] = IF u = t THEN l ELSE step[u]
    BY PcMoves
  <1>2. CASE Connect
    <2>1. CASE ConnectReady
      <3>1. pc'[PublishThread] = "while" /\ step' = step /\ connected /\ connected' /\ start = "waiting"
        BY <1>0, <2>1 DEF ConnectReady
      <3> QED
        BY <3>1
    <2> QED
      BY <1>2, <2>1 DEF Connect, ConnectRefused, ConnectOpen, ConnectTimeout, localVars
  <1>3. ASSUME NEW c \in Callers, PublishPut(c) \/ \E w \in Windows : PublishCheck(c, w)
        PROVE  UNCHANGED <<pc, step>>
    BY <1>3 DEF PublishPut, PublishCheck, localVars
  <1>4. ASSUME NEW t \in Consumers, DoPublish(t)
        PROVE  /\ pc' = pc /\ UNCHANGED connected
               /\ \/ step'[PublishThread] = step[PublishThread]
                  \/ /\ step[PublishThread] # "none"
                     /\ step'[PublishThread] = (IF step[PublishThread] # "check" THEN "none"
                                         ELSE IF connected THEN "send" ELSE "requeue")
    <2>1. pc' = pc /\ UNCHANGED connected
      BY <1>4 DEF DoPublish, DoPublishCheck, DoPublishRequeue, DoPublishSend, connVars
    <2>2. \/ step[t] = "check" /\ step' = [step EXCEPT ![t] = Route]
          \/ step[t] \in {"requeue", "send"} /\ step' = [step EXCEPT ![t] = "none"]
      BY <1>4 DEF DoPublish, DoPublishCheck, DoPublishRequeue, DoPublishSend, DoPublishReturn
    <2>3. \/ step[t] = "check" /\ step'[t] = Route
          \/ step[t] \in {"requeue", "send"} /\ step'[t] = "none"
      BY <2>2 DEF TypeOK
    <2>4. t # PublishThread => step'[PublishThread] = step[PublishThread]
      BY <1>0, <2>2
    <2> QED
      BY <2>1, <2>3, <2>4 DEF Route
  <1>5. CASE PublishLoopTest
    <2>1. /\ pc' = [pc EXCEPT ![PublishThread] = IF shuttingDown THEN "done" ELSE "get"]
          /\ pc[PublishThread] = "while" /\ step[PublishThread] = "none" /\ UNCHANGED <<step, connected>>
      BY <1>5 DEF PublishLoopTest, WhileNotShuttingDown, connVars
    <2>2. pc'[PublishThread] = (IF shuttingDown THEN "done" ELSE "get")
      BY <1>0, <2>1 DEF TypeOK
    <2> QED
      BY <2>1, <2>2
  <1>6. CASE PublishLoopGet \/ PublishLoopEmpty
    <2>1. /\ pc[PublishThread] = "get" /\ pc' = [pc EXCEPT ![PublishThread] = "while"]
          /\ step[PublishThread] = "none" /\ UNCHANGED connected
          /\ step' = step \/ step' = [step EXCEPT ![PublishThread] = "check"]
      BY <1>6 DEF PublishLoopGet, PublishLoopEmpty, Take, HandOK, connVars
    <2> QED
      BY <1>0, <2>1
  <1>7. CASE Network
    BY <1>7 DEF Network, SocketLost, OnDisconnect, OnConnect, OnConnectRefused, AutoReconnect,
       localVars
  <1>8. ASSUME NEW r \in ReconnectThreads, Reconnect(r)
        PROVE  UNCHANGED <<pc, step>>
    BY <1>8 DEF Reconnect, ReconnectTest, ReconnectWait, ReconnectOpen, ReconnectFails, localVars
  <1>9. CASE UNCHANGED vars
    BY <1>9 DEF vars, localVars
  <1> QED
    BY <1>2, <1>3, <1>4, <1>5, <1>6, <1>7, <1>8, <1>9 DEF OthersAct, PublishLoop

LEMMA PublisherConnectedStep ==
    TypeOK /\ HandOK /\ Roles /\ Announced /\ NoLoss /\ PublisherRetired /\ PublisherConnected
    /\ [Next]_vars
        => PublisherConnected'
  <1> SUFFICES ASSUME TypeOK, HandOK, Roles, Announced, NoLoss, PublisherRetired, PublisherConnected,
                      [Next]_vars, ~hist'.lost, ~hist'.timeout
               PROVE  /\ step'[PublishThread] # "none" \/ pc'[PublishThread] = "get"
                           \/ (pc'[PublishThread] = "while" /\ ~shuttingDown') => connected'
                      /\ step'[PublishThread] # "requeue"
    BY DEF PublisherConnected, Unbroken
  <1>1. CASE OthersAct
    <2>1. OthersKeep /\ LinkKept
      BY <1>1, OthersStep, LinkStep
    <2>2. Unbroken
      BY <2>1 DEF OthersKeep, Unbroken
    <2>3. connected => connected'
      BY <2>1 DEF LinkKept
    <2> QED
      BY <1>1, <2>1, <2>2, <2>3, PublisherStep DEF PublisherConnected, OthersKeep, Roles
  <1>2. ASSUME NEW c \in Closers, CloserActs(c)
        PROVE  /\ step'[PublishThread] # "none" \/ pc'[PublishThread] = "get"
                    \/ (pc'[PublishThread] = "while" /\ ~shuttingDown') => connected'
               /\ step'[PublishThread] # "requeue"
    <2>1. CloserMove(c) /\ CloserLeaves(c)
      BY <1>2, CloserStep
    <2>2. pc'[PublishThread] = pc[PublishThread] /\ step'[PublishThread] = step[PublishThread]
      BY <2>1, PcMoves DEF CloserLeaves
    <2>3. Unbroken
      BY <2>1 DEF CloserLeaves, Unbroken
    <2>4. shuttingDown => shuttingDown'
      BY <2>1 DEF CloserMove
    <2>5. CASE connected' = connected
      BY <2>2, <2>3, <2>4, <2>5 DEF PublisherConnected
    <2>6. CASE connected' # connected
      <3>1. pc[c] = "clear" /\ shuttingDown
        BY <2>1, <2>6 DEF CloserMove, Announced
      <3>2. pc[PublishThread] # "get" /\ step[PublishThread] = "none"
        BY <2>3, <3>1 DEF PublisherRetired, Joined, Unbroken
      <3> QED
        BY <2>2, <2>4, <3>1, <3>2
    <2> QED
      BY <2>5, <2>6
  <1> QED
    BY <1>1, <1>2, ClosersOrOthers

LEMMA PublisherRetiredStep ==
    TypeOK /\ HandOK /\ Roles /\ Announced /\ PublisherRetired /\ [Next]_vars => PublisherRetired'
  <1> SUFFICES ASSUME TypeOK, HandOK, Roles, Announced, PublisherRetired,
                      [Next]_vars, ~hist'.timeout, Joined'
               PROVE  pc'[PublishThread] # "get" /\ step'[PublishThread] = "none"
    BY DEF PublisherRetired
  <1>1. CASE OthersAct
    <2>1. OthersKeep
      BY <1>1, OthersStep
    <2>2. Joined /\ ~hist.timeout
      BY <2>1 DEF OthersKeep, Joined
    <2>3. shuttingDown
      BY <2>2 DEF Joined, Announced
    <2>4. pc[PublishThread] # "get" /\ step[PublishThread] = "none"
      BY <2>2 DEF PublisherRetired
    <2> QED
      BY <1>1, <2>3, <2>4, PublisherStep
  <1>2. ASSUME NEW c \in Closers, CloserActs(c)
        PROVE  pc'[PublishThread] # "get" /\ step'[PublishThread] = "none"
    <2>1. CloserMove(c) /\ CloserLeaves(c)
      BY <1>2, CloserStep
    <2>2. pc'[PublishThread] = pc[PublishThread] /\ step'[PublishThread] = step[PublishThread]
      BY <2>1, PcMoves DEF CloserLeaves
    <2>3. ~hist.timeout
      BY <2>1 DEF CloserLeaves
    <2>4. \A d \in Closers : d # c => pc'[d] = pc[d]
      BY <2>1, PcMoves DEF CloserLeaves
    <2>5. CASE pc[c] = "join" /\ pc[PublishThread] \in {"unstarted", "done"}
      BY <2>2, <2>5 DEF Roles
    <2>6. CASE ~(pc[c] = "join" /\ pc[PublishThread] \in {"unstarted", "done"})
      <3>1. /\ pc'[c] \in {"loopStop", "close", "clear"} => pc[c] \in {"loopStop", "close", "clear"}
            /\ pc'[c] \notin {"drain", "join"} /\ shuttingDown' => pc[c] \notin {"drain", "join"} /\ shuttingDown
        BY <2>1, <2>6 DEF CloserMove
      <3>2. Joined
        BY <2>4, <3>1 DEF Joined
      <3> QED
        BY <2>2, <2>3, <3>2 DEF PublisherRetired
    <2> QED
      BY <2>5, <2>6
  <1> QED
    BY <1>1, <1>2, ClosersOrOthers

LEMMA QueueDrainedStep ==
    TypeOK /\ Conservation /\ Roles /\ PublisherConnected /\ QueueDrained /\ [Next]_vars
        => QueueDrained'
  <1> SUFFICES ASSUME TypeOK, Conservation, Roles, PublisherConnected, QueueDrained, [Next]_vars,
                      Unbroken', shuttingDown', \A c \in Closers : pc'[c] \notin {"flush", "drain"}
               PROVE  InQueue' \subseteq hist'.late
    BY DEF QueueDrained
  <1>0. ASSUME queue # <<>>, queue' = Tail(queue)
        PROVE  InQueue' \subseteq InQueue
    BY <1>0, RangeOfTail DEF TypeOK, Conservation, InQueue
  <1>1. CASE OthersAct
    <2>1. OthersKeep
      BY <1>1, OthersStep
    <2>2. Unbroken /\ shuttingDown /\ \A c \in Closers : pc[c] \notin {"flush", "drain"}
      BY <2>1 DEF OthersKeep, Unbroken
    <2>3. InQueue \subseteq hist.late
      BY <2>2 DEF QueueDrained
    <2>4. CASE InQueue' \subseteq InQueue /\ hist'.late = hist.late
      BY <2>3, <2>4
    <2>5. ASSUME NEW c \in Callers, PublishPut(c)
          PROVE  InQueue' \subseteq hist'.late
      <3>1. offer[c] \in Windows
        BY <2>5 DEF PublishPut, TypeOK
      <3>2. CASE HasRoom
        <4>1. queue' = Append(queue, offer[c]) /\ hist' = [hist EXCEPT !.late = hist.late \cup {offer[c]}]
          BY <2>2, <2>5, <3>2 DEF PublishPut, Enqueued
        <4>2. hist'.late = hist.late \cup {offer[c]}
          BY <4>1 DEF TypeOK
        <4>3. InQueue' = InQueue \cup {offer[c]}
          BY <3>1, <4>1, AppendWindow DEF TypeOK, InQueue
        <4> QED
          BY <2>3, <4>2, <4>3
      <3>3. CASE ~HasRoom
        BY <2>4, <2>5, <3>3 DEF PublishPut, InQueue
      <3> QED
        BY <3>2, <3>3
    <2>6. ASSUME NEW t \in Consumers, DoPublish(t)
          PROVE  InQueue' \subseteq hist'.late
      <3>1. step[t] # "requeue"
        BY <2>2 DEF Consumers, Roles, PublisherConnected
      <3> QED
        BY <2>4, <2>6, <3>1 DEF DoPublish, DoPublishCheck, DoPublishRequeue, DoPublishSend,
           flowVars, InQueue
    <2>7. CASE PublishLoopGet
      BY <1>0, <2>4, <2>7 DEF PublishLoopGet, Take
    <2>8. CASE UNCHANGED <<queue, hist>>
      BY <2>4, <2>8 DEF InQueue
    <2>9. ASSUME SocketLost \/ OnConnectRefused
          PROVE  FALSE
      BY <2>9 DEF SocketLost, OnConnectRefused, Unbroken, TypeOK
    <2>10. CASE Connect
      BY <2>8, <2>10 DEF Connect, ConnectRefused, ConnectOpen, ConnectReady, ConnectTimeout,
         flowVars
    <2>11. ASSUME NEW c \in Callers, NEW w \in Windows, PublishCheck(c, w)
           PROVE  InQueue' \subseteq hist'.late
      BY <2>8, <2>11 DEF PublishCheck
    <2>12. CASE PublishLoop
      BY <2>7, <2>8, <2>12 DEF PublishLoop, PublishLoopTest, PublishLoopEmpty, flowVars
    <2>13. CASE Network
      BY <2>8, <2>9, <2>13 DEF Network, OnDisconnect, OnConnect, AutoReconnect, flowVars
    <2>14. ASSUME NEW r \in ReconnectThreads, Reconnect(r)
           PROVE  InQueue' \subseteq hist'.late
      BY <2>8, <2>14 DEF Reconnect, ReconnectTest, ReconnectWait, ReconnectOpen, ReconnectFails,
         flowVars
    <2>15. CASE UNCHANGED vars
      BY <2>8, <2>15 DEF vars, flowVars
    <2> QED
      BY <1>1, <2>5, <2>6, <2>10, <2>11, <2>12, <2>13, <2>14, <2>15 DEF OthersAct
  <1>2. ASSUME NEW c \in Closers, CloserActs(c)
        PROVE  InQueue' \subseteq hist'.late
    <2>1. CloserMove(c) /\ CloserLeaves(c)
      BY <1>2, CloserStep
    <2>2. \A d \in Closers : d # c => pc'[d] = pc[d]
      BY <2>1, PcMoves DEF CloserLeaves
    <2>3. Unbroken /\ hist'.late = hist.late
      BY <2>1 DEF CloserLeaves, Unbroken
    <2>4. CASE pc[c] \in {"flush", "drain"}
      <3>1. UNCHANGED queue /\ queue = <<>>
        BY <2>1, <2>4 DEF CloserMove, Unbroken
      <3> QED
        BY <3>1 DEF InQueue, SeqRange
    <2>5. CASE pc[c] \notin {"flush", "drain"}
      <3>1. UNCHANGED queue /\ shuttingDown
        BY <2>1, <2>5 DEF CloserMove
      <3>2. InQueue \subseteq hist.late
        BY <2>2, <2>3, <2>5, <3>1 DEF QueueDrained
      <3> QED
        BY <2>3, <3>1, <3>2 DEF InQueue
    <2> QED
      BY <2>4, <2>5
  <1> QED
    BY <1>1, <1>2, ClosersOrOthers

LEMMA OneClient ==
    ASSUME Unbroken, OneFlusher, Roles, Announced, PublisherRetired,
           NEW c \in Closers, pc[c] \in {"close", "clear"},
           NEW t \in Consumers, step[t] # "none"
    PROVE  FALSE
  <1>1. t # PublishThread
    BY DEF PublisherRetired, Joined, Unbroken
  <1>2. t \in Closers /\ pc[t] \in {"flush", "drain"}
    BY <1>1 DEF Consumers, Roles
  <1>3. t = c
    BY <1>2 DEF Announced, OneFlusher
  <1> QED
    BY <1>2, <1>3

LEMMA NoneRefusedStep ==
    TypeOK /\ Roles /\ Announced /\ NoLoss /\ PublisherRetired /\ NoneRefused /\ [Next]_vars
        => NoneRefused'
  <1> SUFFICES ASSUME TypeOK, Roles, Announced, NoLoss, PublisherRetired, NoneRefused, [Next]_vars,
                      Unbroken', OneFlusher'
               PROVE  failed' = {} /\ \A t \in Consumers : step'[t] = "send" => session' # "down"
    BY DEF NoneRefused
  <1>1. CASE OthersAct
    <2>1. OthersKeep /\ LinkKept
      BY <1>1, OthersStep, LinkStep DEF Unbroken
    <2>2. Unbroken /\ OneFlusher
      BY <2>1 DEF OthersKeep, Unbroken, OneFlusher
    <2>3. failed = {} /\ \A t \in Consumers : step[t] = "send" => session # "down"
      BY <2>2 DEF NoneRefused
    <2>4. session # "down" => session' # "down"
      BY <2>1 DEF LinkKept
    <2>5. CASE UNCHANGED <<failed, step>>
      BY <2>3, <2>4, <2>5
    <2>6. ASSUME NEW t \in Consumers, DoPublish(t)
          PROVE  failed' = {} /\ \A u \in Consumers : step'[u] = "send" => session' # "down"
      <3>0. \A u \in Consumers : \A l : [step EXCEPT ![t] = l][u] = IF u = t THEN l ELSE step[u]
        BY PcMoves
      <3>1. CASE DoPublishCheck(t)
        <4>1. step[t] = "check" /\ UNCHANGED failed /\ step' = [step EXCEPT ![t] = Route]
          BY <3>1 DEF DoPublishCheck, flowVars
        <4>2. session = "down" => ~connected
          BY <2>2, <4>1, OneClient DEF NoLoss, Unbroken
        <4>3. Route = "send" => session # "down"
          BY <4>2 DEF Route
        <4> QED
          BY <2>3, <2>4, <3>0, <4>1, <4>3
      <3>2. CASE DoPublishRequeue(t)
        <4>1. UNCHANGED failed /\ step' = [step EXCEPT ![t] = "none"]
          BY <3>2 DEF DoPublishRequeue, DoPublishReturn
        <4> QED
          BY <2>3, <2>4, <3>0, <4>1
      <3>3. CASE DoPublishSend(t)
        <4>1. step[t] = "send" /\ step' = [step EXCEPT ![t] = "none"]
          BY <3>3 DEF DoPublishSend, DoPublishReturn
        <4>2. session \in {"up", "connecting"}
          BY <2>3, <4>1 DEF TypeOK
        <4>3. UNCHANGED failed
          BY <3>3, <4>2 DEF DoPublishSend
        <4> QED
          BY <2>3, <2>4, <3>0, <4>1, <4>3
      <3> QED
        BY <2>6, <3>1, <3>2, <3>3 DEF DoPublish
    <2>7. CASE PublishLoop
      <3>0. \A u \in Consumers : [step EXCEPT ![PublishThread] = "check"][u] \in {step[u], "check"}
        BY PcMoves
      <3>1. UNCHANGED failed
        BY <2>7 DEF PublishLoop, PublishLoopTest, PublishLoopGet, PublishLoopEmpty, flowVars
      <3>2. step' = step \/ step' = [step EXCEPT ![PublishThread] = "check"]
        BY <2>7 DEF PublishLoop, PublishLoopTest, PublishLoopGet, PublishLoopEmpty, Take
      <3> QED
        BY <2>3, <2>4, <3>0, <3>1, <3>2
    <2>8. CASE Connect
      BY <2>5, <2>8 DEF Connect, ConnectRefused, ConnectOpen, ConnectReady, ConnectTimeout,
         flowVars, localVars
    <2>9. ASSUME NEW c \in Callers, PublishPut(c) \/ \E w \in Windows : PublishCheck(c, w)
          PROVE  UNCHANGED <<failed, step>>
      BY <2>9 DEF PublishPut, PublishCheck, localVars
    <2>10. CASE Network
      BY <2>5, <2>10 DEF Network, SocketLost, OnDisconnect, OnConnect, OnConnectRefused,
         AutoReconnect,
         flowVars, localVars
    <2>11. ASSUME NEW r \in ReconnectThreads, Reconnect(r)
           PROVE  UNCHANGED <<failed, step>>
      BY <2>11 DEF Reconnect, ReconnectTest, ReconnectWait, ReconnectOpen, ReconnectFails,
         flowVars, localVars
    <2>12. CASE UNCHANGED vars
      BY <2>5, <2>12 DEF vars, flowVars, localVars
    <2> QED
      BY <1>1, <2>5, <2>6, <2>7, <2>8, <2>9, <2>10, <2>11, <2>12 DEF OthersAct
  <1>2. ASSUME NEW c \in Closers, CloserActs(c)
        PROVE  failed' = {} /\ \A t \in Consumers : step'[t] = "send" => session' # "down"
    <2>1. CloserMove(c) /\ CloserLeaves(c)
      BY <1>2, CloserStep
    <2>2. UNCHANGED failed /\ Unbroken /\ OneFlusher
      BY <2>1 DEF CloserLeaves, Unbroken, OneFlusher
    <2>3. failed = {} /\ \A t \in Consumers : step[t] = "send" => session # "down"
      BY <2>2 DEF NoneRefused
    <2>4. \A t \in Consumers : step'[t] = "send" => step[t] = "send"
      BY <2>1 DEF CloserLeaves, CloserMove
    <2>5. CASE session' = session
      BY <2>2, <2>3, <2>4, <2>5
    <2>6. CASE session' # session
      <3>1. pc[c] = "close"
        BY <2>1, <2>6 DEF CloserMove
      <3>2. \A t \in Consumers : step[t] = "none"
        BY <2>2, <3>1, OneClient
      <3> QED
        BY <2>2, <2>3, <2>4, <3>2
    <2> QED
      BY <2>5, <2>6
  <1> QED
    BY <1>1, <1>2, ClosersOrOthers

LEMMA LateBoundedStep == TypeOK /\ LateBounded /\ [Next]_vars => LateBounded'
  <1> SUFFICES ASSUME TypeOK, LateBounded, [Next]_vars
               PROVE  LateBounded'
    OBVIOUS
  <1>0. /\ Offering \in SUBSET Callers /\ IsFiniteSet(Offering) /\ Cardinality(Offering) \in Nat
        /\ Cardinality(Offering) <= Cardinality(Callers) /\ Cardinality(Callers) \in Nat
        /\ Cardinality(hist.late) \in Nat /\ IsFiniteSet(hist.late)
    <2>1. Offering \in SUBSET Callers
      BY DEF Offering
    <2>2. IsFiniteSet(hist.late)
      BY DEF LateBounded
    <2> QED
      BY <2>1, <2>2, FiniteAssumption, FS_Subset, FS_CardinalityType
  <1>1. CASE /\ UNCHANGED <<shuttingDown, offer>> /\ hist'.late = hist.late
    BY <1>1 DEF LateBounded, Offering
  <1>2. ASSUME NEW c \in Callers, NEW w \in Windows, PublishCheck(c, w)
        PROVE  LateBounded'
    <2>1. CASE shuttingDown
      BY <1>1, <1>2, <2>1 DEF PublishCheck, Accepts
    <2>2. CASE ~shuttingDown
      <3>1. ~shuttingDown' /\ hist' = hist
        BY <1>2, <2>2 DEF PublishCheck
      <3> QED
        BY <2>2, <3>1 DEF LateBounded
    <2> QED
      BY <2>1, <2>2
  <1>3. ASSUME NEW c \in Callers, PublishPut(c)
        PROVE  LateBounded'
    <2>1. /\ offer[c] # NoWindow /\ c \in Offering /\ UNCHANGED shuttingDown
          /\ \A d \in Callers : offer'[d] = IF d = c THEN NoWindow ELSE offer[d]
      BY <1>3 DEF PublishPut, Offering, TypeOK
    <2>2. Offering' = Offering \ {c}
      BY <2>1 DEF Offering
    <2>3. Cardinality(Offering') = Cardinality(Offering) - 1
      BY <1>0, <2>1, <2>2, FS_RemoveElement
    <2>4. hist'.late = hist.late \/ (shuttingDown /\ hist'.late = hist.late \cup {offer[c]})
      <3>1. \/ hist' = hist
            \/ hist' = [hist EXCEPT !.late = IF shuttingDown THEN hist.late \cup {offer[c]} ELSE hist.late]
        BY <1>3 DEF PublishPut
      <3> QED
        BY <3>1 DEF TypeOK
    <2>5. /\ IsFiniteSet(hist'.late) /\ Cardinality(hist'.late) \in Nat
          /\ Cardinality(hist'.late) <= Cardinality(hist.late) + 1
      <3> DEFINE more == hist.late \cup {offer[c]}
      <3>1. IsFiniteSet(more) /\ Cardinality(more) \in Nat /\ Cardinality(more) <= Cardinality(hist.late) + 1
        <4>1. /\ IsFiniteSet(more)
              /\ \/ Cardinality(more) = Cardinality(hist.late)
                 \/ Cardinality(more) = Cardinality(hist.late) + 1
          BY <1>0, FS_AddElement
        <4> QED
          BY <1>0, <4>1
      <3>2. CASE hist'.late = hist.late
        <4>1. Cardinality(hist.late) <= Cardinality(hist.late) + 1
          BY <1>0
        <4> QED
          BY <1>0, <3>2, <4>1
      <3>3. CASE hist'.late = more
        BY <3>1, <3>3
      <3> QED
        BY <2>4, <3>2, <3>3
    <2>6. ~shuttingDown' => hist'.late = {}
      BY <2>1, <2>4 DEF LateBounded
    <2>7. shuttingDown' => Cardinality(hist'.late) + Cardinality(Offering') <= Cardinality(Callers)
      BY <1>0, <2>1, <2>3, <2>5 DEF LateBounded
    <2> QED
      BY <2>5, <2>6, <2>7 DEF LateBounded
  <1>4. ASSUME NEW c \in Closers, CloserActs(c)
        PROVE  LateBounded'
    <2>1. CloserMove(c) /\ CloserLeaves(c)
      BY <1>4, CloserStep
    <2>2. UNCHANGED offer /\ hist'.late = hist.late /\ (shuttingDown => shuttingDown')
      BY <2>1 DEF CloserMove, CloserLeaves
    <2>3. CASE ~shuttingDown /\ shuttingDown'
      <3>1. hist'.late = {} /\ Cardinality(hist'.late) = 0
        BY <2>2, <2>3, FS_EmptySet DEF LateBounded
      <3>2. Offering' = Offering
        BY <2>2 DEF Offering
      <3> QED
        BY <1>0, <2>2, <2>3, <3>1, <3>2 DEF LateBounded
    <2>4. CASE shuttingDown \/ ~shuttingDown'
      <3>1. Offering' = Offering
        BY <2>2 DEF Offering
      <3> QED
        BY <2>2, <2>4, <3>1 DEF LateBounded
    <2> QED
      BY <2>3, <2>4
  <1>5. CASE OthersAct
    <2>1. ASSUME NEW t \in Consumers, DoPublish(t)
          PROVE  UNCHANGED <<shuttingDown, offer, hist>>
      BY <2>1 DEF DoPublish, DoPublishCheck, DoPublishRequeue, DoPublishSend, flowVars
    <2>2. CASE Connect
      BY <1>1, <2>2 DEF Connect, ConnectRefused, ConnectOpen, ConnectReady, ConnectTimeout, flowVars
    <2>3. CASE PublishLoop
      BY <1>1, <2>3 DEF PublishLoop, PublishLoopTest, PublishLoopGet, PublishLoopEmpty, flowVars
    <2>4. CASE SocketLost \/ OnConnectRefused
      <3>1. UNCHANGED <<shuttingDown, flowVars>> /\ hist' = [hist EXCEPT !.lost = TRUE]
        BY <2>4 DEF SocketLost, OnConnectRefused
      <3>2. hist'.late = hist.late
        BY <3>1 DEF TypeOK
      <3> QED
        BY <1>1, <3>1, <3>2 DEF flowVars
    <2>5. CASE OnDisconnect \/ OnConnect \/ AutoReconnect
      BY <1>1, <2>5 DEF OnDisconnect, OnConnect, AutoReconnect, flowVars
    <2>6. ASSUME NEW r \in ReconnectThreads, Reconnect(r)
          PROVE  UNCHANGED <<shuttingDown, offer, hist>>
      BY <2>6 DEF Reconnect, ReconnectTest, ReconnectWait, ReconnectOpen, ReconnectFails, flowVars
    <2>7. CASE UNCHANGED vars
      BY <1>1, <2>7 DEF vars, flowVars
    <2> QED
      BY <1>1, <1>2, <1>3, <1>5, <2>1, <2>2, <2>3, <2>4, <2>5, <2>6, <2>7 DEF OthersAct, Network
  <1> QED
    BY <1>4, <1>5, ClosersOrOthers

-----------------------------------------------------------------------------
(* The order of the windows. *)

(* The window the publish thread has in hand, as a sequence. *)
InTransit == IF hand[PublishThread] = NoWindow THEN <<>> ELSE <<hand[PublishThread]>>

LEMMA ConcatWindows ==
    ASSUME NEW s \in Seq(Windows), NEW t \in Seq(Windows), NEW u \in Seq(Windows)
    PROVE  (s \o t) \o u = s \o (t \o u)
  BY ConcatAssociative

LEMMA HeadThenTail ==
    ASSUME NEW s \in Seq(Windows), s # <<>>
    PROVE  /\ Head(s) \in Windows /\ Tail(s) \in Seq(Windows) /\ <<Head(s)>> \in Seq(Windows)
           /\ s = <<Head(s)>> \o Tail(s)
  <1>1. /\ Head(s) \in Windows /\ Tail(s) \in Seq(Windows) /\ <<Head(s)>> \in Seq(Windows)
        /\ Len(Tail(s)) = Len(s) - 1 /\ Len(s) \in Nat /\ Head(s) = s[1]
        /\ \A i \in 1..Len(Tail(s)) : Tail(s)[i] = s[i + 1]
    OBVIOUS
  <1> DEFINE c == <<Head(s)>> \o Tail(s)
  <1>2. /\ c \in Seq(Windows) /\ Len(c) = 1 + Len(Tail(s))
        /\ \A i \in 1..(1 + Len(Tail(s))) :
              c[i] = IF i <= 1 THEN Head(s) ELSE Tail(s)[i - 1]
    BY <1>1, ConcatProperties
  <1>3. \A i \in 1..Len(s) : s[i] = c[i]
    <2>1. ASSUME NEW i \in 1..Len(s)
          PROVE  s[i] = c[i]
      <3>1. CASE i = 1
        BY <1>1, <1>2, <3>1
      <3>2. CASE i # 1
        <4>1. i - 1 \in 1..Len(Tail(s)) /\ i \in 1..(1 + Len(Tail(s)))
          BY <1>1, <2>1, <3>2
        <4>2. Tail(s)[i - 1] = s[i]
          BY <1>1, <4>1
        <4> QED
          BY <1>2, <3>2, <4>1, <4>2
      <3> QED
        BY <3>1, <3>2
    <2> QED
      BY <2>1
  <1>4. Len(s) = Len(c)
    BY <1>1, <1>2
  <1> HIDE DEF c
  <1>5. s = c
    BY <1>2, <1>3, <1>4, SeqEqual
  <1> QED
    BY <1>1, <1>5 DEF c

LEMMA OrderStep ==
    TypeOK /\ HandOK /\ Roles /\ Announced /\ LinkUp /\ OrderWhileUp /\ [Next]_vars => OrderWhileUp'
  <1> SUFFICES ASSUME TypeOK, HandOK, Roles, Announced, LinkUp, OrderWhileUp, [Next]_vars,
                      ~hist'.lost, hist'.flushed = {}
               PROVE  accepted' = sent' \o InTransit' \o queue'
    BY DEF OrderWhileUp, InTransit
  <1>0. /\ PublishThread \in Consumers
        /\ hand[PublishThread] = NoWindow <=> step[PublishThread] = "none"
        /\ hand[PublishThread] \in Windows \cup {NoWindow}
        /\ queue \in Seq(Windows) /\ sent \in Seq(Windows) /\ accepted \in Seq(Windows)
        /\ InTransit \in Seq(Windows)
    <2>1. PublishThread \in Consumers
      BY DEF Consumers
    <2>2. hand[PublishThread] \in Windows \cup {NoWindow}
      BY <2>1 DEF TypeOK
    <2>3. InTransit \in Seq(Windows)
      BY <2>2 DEF InTransit
    <2> QED
      BY <2>1, <2>2, <2>3 DEF TypeOK, HandOK
  <1>1. CASE OthersAct
    <2>1. OthersKeep
      BY <1>1, OthersStep
    <2>2. ~hist.lost /\ hist.flushed = {}
      BY <2>1 DEF OthersKeep
    <2>3. accepted = sent \o InTransit \o queue
      BY <2>2 DEF OrderWhileUp, InTransit
    <2>4. \A c \in Closers : step[c] = "none"
      BY <2>2 DEF Roles, Announced
    <2>5. CASE UNCHANGED <<accepted, sent, hand, queue>>
      BY <2>3, <2>5 DEF InTransit
    <2>6. ASSUME NEW c \in Callers, PublishPut(c)
          PROVE  accepted' = sent' \o InTransit' \o queue'
      <3>1. UNCHANGED <<sent, hand>>
        BY <2>6 DEF PublishPut, localVars
      <3>2. CASE HasRoom
        <4>1. queue' = Append(queue, offer[c]) /\ accepted' = Append(accepted, offer[c])
              /\ offer[c] \in Windows
          BY <2>6, <3>2 DEF PublishPut, Enqueued, TypeOK
        <4> DEFINE front == sent \o InTransit
                   one == <<offer[c]>>
        <4>2. front \in Seq(Windows) /\ one \in Seq(Windows)
          BY <1>0, <4>1, ConcatProperties
        <4>3. accepted' = (front \o queue) \o one
          BY <1>0, <2>3, <4>1, AppendIsConcat
        <4>4. queue' = queue \o one
          BY <1>0, <4>1, AppendIsConcat
        <4> HIDE DEF front, one
        <4>5. accepted' = front \o queue'
          <5>1. (front \o queue) \o one = front \o (queue \o one)
            <6>1. queue \in Seq(Windows)
              BY <1>0
            <6> QED
              BY <4>2, <6>1, ConcatWindows
          <5> QED
            BY <4>3, <4>4, <5>1
        <4> QED
          BY <3>1, <4>5 DEF InTransit, front
      <3>3. CASE ~HasRoom
        BY <2>5, <2>6, <3>1, <3>3 DEF PublishPut
      <3> QED
        BY <3>2, <3>3
    <2>7. ASSUME NEW t \in Consumers, DoPublish(t)
          PROVE  accepted' = sent' \o InTransit' \o queue'
      <3>1. CASE DoPublishCheck(t)
        BY <2>5, <3>1 DEF DoPublishCheck, flowVars
      <3>2. CASE step[t] # "check"
        <4>1. t = PublishThread /\ step[PublishThread] = "send"
          BY <2>2, <2>4, <2>7, <3>2 DEF DoPublish, DoPublishCheck, DoPublishRequeue,
             DoPublishSend, LinkUp, Consumers
        <4>2. session = "up"
          BY <2>2, <4>1 DEF LinkUp, Roles
        <4>3. /\ sent' = Append(sent, hand[PublishThread]) /\ UNCHANGED <<accepted, queue>>
              /\ hand' = [hand EXCEPT ![PublishThread] = NoWindow]
          BY <2>7, <4>1, <4>2 DEF DoPublish, DoPublishCheck, DoPublishRequeue, DoPublishSend,
             DoPublishReturn
        <4>4. InTransit = <<hand[PublishThread]>> /\ hand[PublishThread] \in Windows
          BY <1>0, <4>1 DEF InTransit
        <4>5. InTransit' = <<>>
          BY <1>0, <4>3 DEF InTransit, TypeOK
        <4>6. sent' = sent \o InTransit /\ sent' \in Seq(Windows)
          BY <1>0, <4>3, <4>4, AppendIsConcat, ConcatProperties
        <4>7. sent' \o InTransit' = sent'
          BY <4>5, <4>6, ConcatEmptySeq
        <4> QED
          BY <2>3, <4>3, <4>6, <4>7
      <3> QED
        BY <2>7, <3>1, <3>2 DEF DoPublish, DoPublishRequeue, DoPublishSend
    <2>8. CASE PublishLoopGet
      <3>1. /\ queue # <<>> /\ queue' = Tail(queue) /\ UNCHANGED <<accepted, sent>>
            /\ hand' = [hand EXCEPT ![PublishThread] = Head(queue)]
            /\ step[PublishThread] = "none"
        BY <2>8 DEF PublishLoopGet, Take, HandOK
      <3>2. /\ Head(queue) \in Windows /\ queue' \in Seq(Windows)
            /\ <<Head(queue)>> \in Seq(Windows)
            /\ queue = <<Head(queue)>> \o queue'
        BY <1>0, <3>1, HeadThenTail
      <3>3. InTransit = <<>>
        BY <1>0, <3>1 DEF InTransit
      <3>4. InTransit' = <<Head(queue)>>
        <4>1. hand'[PublishThread] = Head(queue) /\ Head(queue) # NoWindow
          BY <1>0, <3>1, <3>2, WindowAssumption DEF TypeOK
        <4> QED
          BY <4>1 DEF InTransit
      <3>5. sent \o InTransit = sent
        BY <1>0, <3>3, ConcatEmptySeq
      <3>6. accepted = sent \o (InTransit' \o queue')
        <4>1. accepted = sent \o queue
          BY <2>3, <3>5
        <4>2. InTransit' \o queue' = <<Head(queue)>> \o queue'
          BY <3>4
        <4>3. InTransit' \o queue' = queue
          BY <3>2, <4>2
        <4> QED
          BY <4>1, <4>3
      <3>7. accepted = (sent \o InTransit') \o queue'
        <4>1. InTransit' \in Seq(Windows) /\ queue' \in Seq(Windows)
          BY <3>2, <3>4
        <4>2. (sent \o InTransit') \o queue' = sent \o (InTransit' \o queue')
          <5>1. sent \in Seq(Windows)
            BY <1>0
          <5> QED
            BY <4>1, <5>1, ConcatWindows
        <4> QED
          BY <3>6, <4>2
      <3> QED
        BY <3>1, <3>7
    <2>9. CASE Connect
      BY <2>5, <2>9 DEF Connect, ConnectRefused, ConnectOpen, ConnectReady, ConnectTimeout,
         flowVars, localVars
    <2>10. ASSUME NEW c \in Callers, NEW w \in Windows, PublishCheck(c, w)
           PROVE  UNCHANGED <<accepted, sent, hand, queue>>
      BY <2>10 DEF PublishCheck, localVars
    <2>11. CASE PublishLoop
      BY <2>5, <2>8, <2>11 DEF PublishLoop, PublishLoopTest, PublishLoopEmpty, flowVars
    <2>12. CASE Network
      BY <2>5, <2>12 DEF Network, SocketLost, OnDisconnect, OnConnect, OnConnectRefused,
         AutoReconnect,
         flowVars, localVars
    <2>13. ASSUME NEW r \in ReconnectThreads, Reconnect(r)
           PROVE  UNCHANGED <<accepted, sent, hand, queue>>
      BY <2>13 DEF Reconnect, ReconnectTest, ReconnectWait, ReconnectOpen, ReconnectFails,
         flowVars, localVars
    <2>14. CASE UNCHANGED vars
      BY <2>5, <2>14 DEF vars, flowVars, localVars
    <2> QED
      BY <1>1, <2>5, <2>6, <2>7, <2>9, <2>10, <2>11, <2>12, <2>13, <2>14 DEF OthersAct
  <1>2. ASSUME NEW c \in Closers, CloserActs(c)
        PROVE  accepted' = sent' \o InTransit' \o queue'
    <2>1. CloserMove(c) /\ CloserLeaves(c)
      BY <1>2, CloserStep
    <2>2. ~hist.lost /\ hist.flushed = {}
      BY <2>1 DEF CloserLeaves
    <2>3. /\ pc[c] = "idle" /\ pc'[c] # "flush"
      BY <2>1, <2>2 DEF CloserMove, Announced
    <2>4. DisconnectCall(c)
      <3>1. ~FlushCall(c)
        BY <2>3, PcMoves DEF FlushCall, Goto
      <3> QED
        BY <1>2, <2>3, <3>1 DEF CloserActs, Teardown, FlushDeadline, FlushGet, FlushEmpty,
           DisconnectFlag,
           JoinReturns, JoinTimeout, LoopStop, ClientDisconnect, ClearConnected
    <2> QED
      BY <2>2, <2>4 DEF DisconnectCall, flowVars, OrderWhileUp, InTransit
  <1> QED
    BY <1>1, <1>2, ClosersOrOthers

LEMMA LinkUpStep ==
    TypeOK /\ HandOK /\ Roles /\ Announced /\ NoLoss /\ LinkUp /\ [Next]_vars => LinkUp'
  <1> SUFFICES ASSUME TypeOK, HandOK, Roles, Announced, NoLoss, LinkUp, [Next]_vars,
                      ~hist'.lost, hist'.flushed = {}
               PROVE  /\ connected' => session' = "up"
                      /\ pc'[PublishThread] # "unstarted" => connected'
                      /\ step'[PublishThread] # "requeue"
    BY DEF LinkUp
  <1>1. CASE OthersAct
    <2>1. OthersKeep /\ LinkKept
      BY <1>1, OthersStep, LinkStep
    <2>2. ~hist.lost /\ hist.flushed = {}
      BY <2>1 DEF OthersKeep
    <2>3. /\ connected => session = "up"
          /\ pc[PublishThread] # "unstarted" => connected
          /\ step[PublishThread] # "requeue"
      BY <2>2 DEF LinkUp
    <2>4. (connected' => session' = "up") /\ (connected => connected')
      BY <2>1, <2>3 DEF LinkKept, Roles
    <2>5. step[PublishThread] # "none" => pc[PublishThread] # "unstarted"
      BY DEF Roles
    <2> QED
      BY <1>1, <2>3, <2>4, <2>5, PublisherStep
  <1>2. ASSUME NEW c \in Closers, CloserActs(c)
        PROVE  /\ connected' => session' = "up"
               /\ pc'[PublishThread] # "unstarted" => connected'
               /\ step'[PublishThread] # "requeue"
    <2>1. CloserMove(c) /\ CloserLeaves(c)
      BY <1>2, CloserStep
    <2>2. ~hist.lost /\ hist.flushed = {}
      BY <2>1 DEF CloserLeaves
    <2>3. UNCHANGED <<session, connected>>
      BY <2>1, <2>2 DEF CloserMove, Announced
    <2>4. pc'[PublishThread] = pc[PublishThread] /\ step'[PublishThread] = step[PublishThread]
      BY <2>1, PcMoves DEF CloserLeaves
    <2> QED
      BY <2>2, <2>3, <2>4 DEF LinkUp
  <1> QED
    BY <1>1, <1>2, ClosersOrOthers

-----------------------------------------------------------------------------
(* The theorems about the teardown and the order. *)

LEMMA ShutdownStart == Init => ShutdownInv
  <1> SUFFICES ASSUME Init PROVE ShutdownInv
    OBVIOUS
  <1>1. IInv
    BY TypeInit, InitConservation DEF IInv
  <1>2. /\ PublishThread \in Consumers /\ Closers \subseteq Consumers
        /\ \A c \in Closers : c # PublishThread /\ pc[c] = "idle" /\ step[c] = "none"
        /\ pc[PublishThread] = "unstarted" /\ step[PublishThread] = "none"
        /\ hand[PublishThread] = NoWindow
    BY ThreadAssumption DEF Init, Consumers
  <1>3. /\ ~hist.lost /\ ~hist.timeout /\ hist.flushed = {} /\ hist.late = {}
        /\ ~loopRunning /\ ~connected /\ ~shuttingDown /\ ~lossPending /\ failed = {}
        /\ \A r \in ReconnectThreads : recon[r] = "none"
    BY DEF Init
  <1>4. Roles /\ Announced /\ NoLoss
    BY <1>2, <1>3 DEF Roles, Announced, NoLoss
  <1>5. PublisherRetired /\ PublisherConnected /\ LinkUp
    BY <1>2, <1>3 DEF PublisherRetired, PublisherConnected, Unbroken, LinkUp
  <1>6. QueueDrained
    BY <1>3 DEF QueueDrained
  <1>7. NoneRefused
    <2>1. \A t \in Consumers : step[t] # "send"
      BY DEF Init
    <2> QED
      BY <1>3, <2>1 DEF NoneRefused
  <1>8. LateBounded
    BY <1>3, FS_EmptySet DEF LateBounded
  <1>9. OrderWhileUp
    <2>1. accepted = <<>> /\ sent = <<>> /\ queue = <<>>
      BY DEF Init
    <2>2. <<>> \in Seq(Windows) /\ <<>> \o <<>> = <<>>
      BY ConcatEmptySeq, EmptySeq
    <2> QED
      BY <1>2, <2>1, <2>2 DEF OrderWhileUp
  <1> QED
    BY <1>1, <1>4, <1>5, <1>6, <1>7, <1>8, <1>9 DEF ShutdownInv

LEMMA ShutdownHolds == Spec => []ShutdownInv
  <1>1. ShutdownInv /\ [Next]_vars => ShutdownInv'
    <2> SUFFICES ASSUME ShutdownInv, [Next]_vars
                 PROVE  ShutdownInv'
      OBVIOUS
    <2>1. TypeOK /\ Conservation /\ HandOK
      BY DEF ShutdownInv, IInv, Conservation
    <2>2. IInv'
      BY <2>1, TypeStep, ConservationStep DEF IInv
    <2>3. Roles' /\ Announced' /\ NoLoss'
      BY <2>1, RolesStep, AnnouncedStep, NoLossStep DEF ShutdownInv
    <2>4. PublisherRetired' /\ PublisherConnected'
      BY <2>1, PublisherRetiredStep, PublisherConnectedStep DEF ShutdownInv
    <2>5. QueueDrained' /\ NoneRefused' /\ LateBounded'
      BY <2>1, QueueDrainedStep, NoneRefusedStep, LateBoundedStep DEF ShutdownInv
    <2>6. LinkUp' /\ OrderWhileUp'
      BY <2>1, LinkUpStep, OrderStep DEF ShutdownInv
    <2> QED
      BY <2>2, <2>3, <2>4, <2>5, <2>6 DEF ShutdownInv
  <1> QED
    BY <1>1, ShutdownStart, PTL DEF Spec

(* As long as the link holds and nobody flushed, the client gets the windows
   in the order in which publish() accepted them. *)
THEOREM OrderIsKept == Spec => []OrderWhileUp
  <1>1. ShutdownInv => OrderWhileUp
    BY DEF ShutdownInv
  <1> QED
    BY <1>1, ShutdownHolds, PTL

LEMMA QuietClosers ==
    ASSUME ShutdownInv, ClosersQuiet, Unbroken
    PROVE  InQueue \subseteq hist.late /\ InHand = {}
  <1>1. \A c \in Closers : pc[c] \in {"idle", "done"} /\ step[c] = "none"
    BY DEF ClosersQuiet, ShutdownInv, Roles
  <1>2. shuttingDown
    BY DEF ClosersQuiet, ShutdownInv, Announced
  <1>3. step[PublishThread] = "none"
    BY <1>1, <1>2 DEF ShutdownInv, PublisherRetired, Joined, Unbroken
  <1>4. \A t \in Consumers : hand[t] = NoWindow
    BY <1>1, <1>3 DEF Consumers, ShutdownInv, IInv, Conservation, HandOK
  <1>5. InHand = {}
    BY <1>4 DEF InHand
  <1> QED
    BY <1>1, <1>2, <1>5 DEF ShutdownInv, QueueDrained

(* disconnect() leaves no window behind that was there when it set its flag. *)
THEOREM NothingIsStranded == Spec => []NothingStranded
  <1>1. ASSUME ShutdownInv
        PROVE  Cardinality(hist.late) <= Cardinality(Callers)
    <2>1. LateBounded /\ Cardinality(Callers) \in Nat
      BY <1>1, FiniteAssumption, FS_CardinalityType DEF ShutdownInv
    <2>2. Offering \in SUBSET Callers
      BY DEF Offering
    <2>3. Cardinality(Offering) \in Nat /\ Cardinality(hist.late) \in Nat
      BY <2>1, <2>2, FiniteAssumption, FS_Subset, FS_CardinalityType DEF LateBounded
    <2>4. CASE shuttingDown
      BY <2>1, <2>3, <2>4 DEF LateBounded
    <2>5. CASE ~shuttingDown
      <3>1. Cardinality(hist.late) = 0
        BY <2>1, <2>5, FS_EmptySet DEF LateBounded
      <3> QED
        BY <2>1, <3>1
    <2> QED
      BY <2>4, <2>5
  <1>2. ShutdownInv => NothingStranded
    BY <1>1, QuietClosers DEF NothingStranded, Unbroken
  <1> QED
    BY <1>2, ShutdownHolds, PTL

(* One closer that tears the transport down in peace gets every accepted
   window to the client, but those the full queue had no room to take back. *)
THEOREM CleanShutdownSends == Spec => []CleanShutdownDelivers
  <1>1. ASSUME ShutdownInv, ClosersQuiet, Cardinality(hist.flushed) = 1,
               ~hist.lost, ~hist.timeout, hist.late = {}
        PROVE  Accepted = Sent \cup dropped
    <2>1. InQueue = {} /\ InHand = {}
      BY <1>1, QuietClosers DEF Unbroken
    <2>2. OneFlusher
      <3>1. hist.flushed \in SUBSET Closers
        BY <1>1 DEF ShutdownInv, IInv, TypeOK
      <3>2. IsFiniteSet(hist.flushed)
        BY <3>1, FiniteAssumption, FS_Subset
      <3>3. \E x : hist.flushed = {x}
        BY <1>1, <3>2, FS_Singleton
      <3> QED
        BY <3>3 DEF OneFlusher
    <2>3. failed = {}
      BY <1>1, <2>2 DEF ShutdownInv, NoneRefused, Unbroken
    <2>4. Accepted = InQueue \cup InHand \cup Sent \cup failed \cup dropped
      BY <1>1 DEF ShutdownInv, IInv, Conservation
    <2> QED
      BY <2>1, <2>3, <2>4
  <1>2. ShutdownInv => CleanShutdownDelivers
    BY <1>1 DEF CleanShutdownDelivers
  <1> QED
    BY <1>2, ShutdownHolds, PTL
=============================================================================
