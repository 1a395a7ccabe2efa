--------------------------- MODULE MqttTransport ---------------------------
(***************************************************************************)
(* The publisher the sensors use to reach AWS IoT Core                     *)
(* (src/pineapple/transport/mqtt_client.py, class MQTTTransport).          *)
(*                                                                         *)
(* Threads that share one transport object:                                *)
(*   - Callers run publish();                                              *)
(*   - PublishThread runs _publish_loop(), started by connect();           *)
(*   - Closers run flush() and disconnect() (the agent's stop(), a signal  *)
(*     handler);                                                           *)
(*   - ReconnectThreads run _reconnect_loop(), one spawned per loss;       *)
(*   - the network thread of the paho client runs the callbacks.           *)
(* Every access to _queue, _connected and _shutting_down is one step: they *)
(* are a Queue and two Events, each with a lock of its own, and the code   *)
(* holds no lock across two of them.  The value of a window is abstracted  *)
(* to its identity; _serialise and json.dumps only rewrite it.             *)
(***************************************************************************)
EXTENDS Integers, Sequences, FiniteSets

CONSTANTS
    Windows,            \* the observation windows the callers publish
    Callers,            \* threads that call publish()
    Closers,            \* threads that call flush() and disconnect()
    PublishThread,      \* the thread named "mqtt-publish"
    ReconnectThreads,   \* slots for the threads named "mqtt-reconnect"
    NoWindow,           \* "nothing in hand"
    QueueMax,           \* queue_max_size
    BackoffStart,       \* _DEFAULT_BACKOFF_START
    BackoffMax          \* _DEFAULT_BACKOFF_MAX

ASSUME WindowAssumption == NoWindow \notin Windows
ASSUME ThreadAssumption == PublishThread \notin Closers
ASSUME FiniteAssumption == IsFiniteSet(Callers) /\ IsFiniteSet(Closers)
ASSUME QueueMaxAssumption == QueueMax \in Nat \ {0}
ASSUME BackoffAssumption ==
    BackoffStart \in Nat \ {0} /\ BackoffMax \in Nat /\ BackoffStart <= BackoffMax

VARIABLES
    start,          \* where connect() is
    loopRunning,    \* the paho network thread runs (loop_start .. loop_stop)
    session,        \* the paho client's connection
    lossPending,    \* paho noticed a loss and has yet to call _on_disconnect
    connected,      \* _connected
    shuttingDown,   \* _shutting_down
    backoff,        \* _backoff
    queue,          \* _queue
    offer,          \* the window a caller of publish() has yet to enqueue
    pc,             \* where a consumer of the queue is in its method
    step,           \* where it is in _do_publish, "none" outside of it
    hand,           \* the window it took from the queue
    recon,          \* where a reconnect thread is
    accepted,       \* windows publish() returned True for, in that order
    rejected,       \* windows publish() returned False for
    sent,           \* windows client.publish() took, in that order
    failed,         \* windows client.publish() returned an error for
    dropped,        \* windows _do_publish could not put back
    hist            \* history: what happened to this transport so far

connVars  == <<start, loopRunning, session, lossPending, connected, backoff, recon>>
flowVars  == <<queue, offer, accepted, rejected, sent, failed, dropped>>
localVars == <<pc, step, hand>>
vars == <<connVars, shuttingDown, flowVars, localVars, hist>>

Consumers == Closers \cup {PublishThread}

SeqRange(s) == {s[i] : i \in DOMAIN s}
InQueue  == SeqRange(queue)
InHand   == {hand[t] : t \in Consumers} \ {NoWindow}
InOffer  == {offer[c] : c \in Callers} \ {NoWindow}
Accepted == SeqRange(accepted)
Sent     == SeqRange(sent)
Unseen   == Windows \ (InOffer \cup Accepted \cup rejected)

Init ==
    /\ start = "new"
    /\ loopRunning = FALSE
    /\ session = "down"
    /\ lossPending = FALSE
    /\ connected = FALSE
    /\ shuttingDown = FALSE
    /\ backoff = BackoffStart
    /\ queue = <<>>
    /\ offer = [c \in Callers |-> NoWindow]
    /\ pc = [t \in Consumers |-> IF t = PublishThread THEN "unstarted" ELSE "idle"]
    /\ step = [t \in Consumers |-> "none"]
    /\ hand = [t \in Consumers |-> NoWindow]
    /\ recon = [r \in ReconnectThreads |-> "none"]
    /\ accepted = <<>>
    /\ rejected = {}
    /\ sent = <<>>
    /\ failed = {}
    /\ dropped = {}
    /\ hist = [lost |-> FALSE, timeout |-> FALSE, flushed |-> {}, late |-> {}]

-----------------------------------------------------------------------------
(* connect() *)

(* client.connect() raises, and connect() with it. *)
ConnectRefused ==
    /\ start = "new"
    /\ start' = "failed"
    /\ UNCHANGED <<loopRunning, session, lossPending, connected, backoff, recon,
                   shuttingDown, flowVars, localVars, hist>>

(* client.connect() opens the connection, loop_start() starts the network
   thread, and connect() waits for the CONNACK. *)
ConnectOpen ==
    /\ start = "new"
    /\ start' = "waiting"
    /\ session' = "connecting"
    /\ loopRunning' = TRUE
    /\ UNCHANGED <<lossPending, connected, backoff, recon, shuttingDown, flowVars, localVars, hist>>

(* _connected is set in time: the publish thread is started. *)
ConnectReady ==
    /\ start = "waiting"
    /\ connected
    /\ start' = "ready"
    /\ pc' = [pc EXCEPT ![PublishThread] = "while"]
    /\ UNCHANGED <<loopRunning, session, lossPending, connected, backoff, recon,
                   shuttingDown, flowVars, step, hand, hist>>

(* No CONNACK within 10 seconds: loop_stop() and raise. *)
ConnectTimeout ==
    /\ start = "waiting"
    /\ ~connected
    /\ start' = "failed"
    /\ loopRunning' = FALSE
    /\ UNCHANGED <<session, lossPending, connected, backoff, recon,
                   shuttingDown, flowVars, localVars, hist>>

-----------------------------------------------------------------------------
(* put_nowait(): Full, or the window is the last of the queue. *)
HasRoomForOneMore == Len(queue) <= QueueMax         \* mutant
HasRoom == Len(queue) < QueueMax

EnqueuedFirst(w) == <<w>> \o queue                  \* mutant
Enqueued(w) == Append(queue, w)

(* publish(): the flag is read first, the window is enqueued later. *)

Accepts == ~shuttingDown

PublishCheck(c, w) ==
    /\ offer[c] = NoWindow
    /\ w \in Unseen
    /\ IF Accepts
       THEN offer' = [offer EXCEPT ![c] = w] /\ UNCHANGED rejected
       ELSE rejected' = rejected \cup {w} /\ UNCHANGED offer
    /\ UNCHANGED <<connVars, shuttingDown, queue, accepted, sent, failed, dropped,
                   localVars, hist>>

PublishPut(c) ==
    /\ offer[c] # NoWindow
    /\ offer' = [offer EXCEPT ![c] = NoWindow]
    /\ IF HasRoom
       THEN /\ queue' = Enqueued(offer[c])
            /\ accepted' = Append(accepted, offer[c])
            /\ hist' = [hist EXCEPT !.late = IF shuttingDown THEN @ \cup {offer[c]} ELSE @]
            /\ UNCHANGED rejected
       ELSE /\ rejected' = rejected \cup {offer[c]}
            /\ UNCHANGED <<queue, accepted, hist>>
    /\ UNCHANGED <<connVars, shuttingDown, sent, failed, dropped, localVars>>

-----------------------------------------------------------------------------
(* _do_publish(), run by the publish thread and by flush() in any closer. *)

(* Take the head of the queue and enter _do_publish. *)
Take(t) ==
    /\ queue # <<>>
    /\ queue' = Tail(queue)
    /\ hand' = [hand EXCEPT ![t] = Head(queue)]
    /\ step' = [step EXCEPT ![t] = "check"]

RouteInverted == IF connected THEN "requeue" ELSE "send"    \* mutant
Route == IF connected THEN "send" ELSE "requeue"

DoPublishCheck(t) ==
    /\ step[t] = "check"
    /\ step' = [step EXCEPT ![t] = Route]
    /\ UNCHANGED <<connVars, shuttingDown, flowVars, pc, hand, hist>>

(* Mutant: the publish thread tries a message again that it has sent. *)
DoPublishRetry(t) ==
    /\ step' = [step EXCEPT ![t] = IF @ = "send" THEN "check" ELSE "none"]
    /\ hand' = [hand EXCEPT ![t] = IF step[t] = "send" THEN @ ELSE NoWindow]

(* Leave _do_publish: a closer is back in its loop, and so is the publish
   thread, which next tests _shutting_down. *)
DoPublishReturn(t) ==
    /\ hand' = [hand EXCEPT ![t] = NoWindow]
    /\ step' = [step EXCEPT ![t] = "none"]

ForgottenUnseen(w) == dropped                       \* mutant
GivenUp(w) == dropped \cup {w}

DoPublishRequeue(t) ==
    /\ step[t] = "requeue"
    /\ IF HasRoom
       THEN queue' = Enqueued(hand[t]) /\ UNCHANGED dropped
       ELSE dropped' = GivenUp(hand[t]) /\ UNCHANGED queue
    /\ DoPublishReturn(t)
    /\ UNCHANGED <<connVars, shuttingDown, offer, accepted, rejected, sent, failed,
                   pc, hist>>

(* The paho client takes the message while it has a socket, and reports
   MQTT_ERR_NO_CONN when it has none; the error is logged and that is all. *)
DoPublishSend(t) ==
    /\ step[t] = "send"
    /\ IF session \in {"up", "connecting"}
       THEN sent' = Append(sent, hand[t]) /\ UNCHANGED failed
       ELSE failed' = failed \cup {hand[t]} /\ UNCHANGED sent
    /\ DoPublishReturn(t)
    /\ UNCHANGED <<connVars, shuttingDown, queue, offer, accepted, rejected, dropped,
                   pc, hist>>

DoPublish(t) == DoPublishCheck(t) \/ DoPublishRequeue(t) \/ DoPublishSend(t)

-----------------------------------------------------------------------------
(* _publish_loop() *)

WhileNotShuttingDown == ~shuttingDown

PublishLoopTest ==
    /\ pc[PublishThread] = "while"
    /\ step[PublishThread] = "none"
    /\ pc' = [pc EXCEPT ![PublishThread] = IF WhileNotShuttingDown THEN "get" ELSE "done"]
    /\ UNCHANGED <<connVars, shuttingDown, flowVars, step, hand, hist>>

PublishLoopGet ==
    /\ pc[PublishThread] = "get"
    /\ pc' = [pc EXCEPT ![PublishThread] = "while"]
    /\ Take(PublishThread)
    /\ UNCHANGED <<connVars, shuttingDown, offer, accepted, rejected, sent, failed,
                   dropped, hist>>

(* Queue.get(timeout=0.05) raises Empty. *)
PublishLoopEmpty ==
    /\ pc[PublishThread] = "get"
    /\ queue = <<>>
    /\ pc' = [pc EXCEPT ![PublishThread] = "while"]
    /\ UNCHANGED <<connVars, shuttingDown, flowVars, step, hand, hist>>

PublishLoop == PublishLoopTest \/ PublishLoopGet \/ PublishLoopEmpty

-----------------------------------------------------------------------------
(* flush() and disconnect().  "flush" is flush() called on its own, "drain"
   is the call disconnect() makes. *)

Goto(c, label) == pc' = [pc EXCEPT ![c] = label]

FlushCall(c) ==
    /\ pc[c] = "idle"
    /\ Goto(c, "flush")
    /\ hist' = [hist EXCEPT !.flushed = @ \cup {c}]
    /\ UNCHANGED <<connVars, shuttingDown, flowVars, step, hand>>

AfterFlush(c) == Goto(c, IF pc[c] = "flush" THEN "idle" ELSE "join")

FlushGet(c) ==
    /\ pc[c] \in {"flush", "drain"}
    /\ step[c] = "none"
    /\ Take(c)
    /\ UNCHANGED <<connVars, shuttingDown, offer, accepted, rejected, sent, failed,
                   dropped, pc, hist>>

FlushEmpty(c) ==
    /\ pc[c] \in {"flush", "drain"}
    /\ step[c] = "none"
    /\ queue = <<>>
    /\ AfterFlush(c)
    /\ UNCHANGED <<connVars, shuttingDown, flowVars, step, hand, hist>>

(* Mutant: flush() has no deadline. *)
FlushDeadlineNever(c) == FALSE

(* The 10 second deadline has passed when the loop tests it. *)
FlushDeadline(c) ==
    /\ pc[c] \in {"flush", "drain"}
    /\ step[c] = "none"
    /\ AfterFlush(c)
    /\ hist' = [hist EXCEPT !.timeout = TRUE]
    /\ UNCHANGED <<connVars, shuttingDown, flowVars, step, hand>>

(* disconnect() tests _shutting_down and sets it: two steps. *)
DisconnectCall(c) ==
    /\ pc[c] = "idle"
    /\ Goto(c, IF shuttingDown THEN "done" ELSE "flag")
    /\ UNCHANGED <<connVars, shuttingDown, flowVars, step, hand, hist>>

(* Mutant: the connection is torn down without a flush. *)
DisconnectFlagNoFlush(c) ==
    /\ pc[c] = "flag"
    /\ shuttingDown' = TRUE
    /\ Goto(c, "join")
    /\ hist' = [hist EXCEPT !.flushed = @ \cup {c}]
    /\ UNCHANGED <<connVars, flowVars, step, hand>>

DisconnectFlag(c) ==
    /\ pc[c] = "flag"
    /\ shuttingDown' = TRUE
    /\ Goto(c, "drain")
    /\ hist' = [hist EXCEPT !.flushed = @ \cup {c}]
    /\ UNCHANGED <<connVars, flowVars, step, hand>>

(* join(timeout=5.0) returns at once when there is no publish thread. *)
NoNeedToJoin == TRUE                                \* mutant
PublishThreadEnded == pc[PublishThread] \in {"unstarted", "done"}

JoinReturns(c) ==
    /\ pc[c] = "join"
    /\ PublishThreadEnded
    /\ Goto(c, "loopStop")
    /\ UNCHANGED <<connVars, shuttingDown, flowVars, step, hand, hist>>

JoinTimeout(c) ==
    /\ pc[c] = "join"
    /\ ~PublishThreadEnded
    /\ Goto(c, "loopStop")
    /\ hist' = [hist EXCEPT !.timeout = TRUE]
    /\ UNCHANGED <<connVars, shuttingDown, flowVars, step, hand>>

LoopStop(c) ==
    /\ pc[c] = "loopStop"
    /\ Goto(c, "close")
    /\ loopRunning' = FALSE
    /\ UNCHANGED <<start, session, lossPending, connected, backoff, recon, shuttingDown,
                   flowVars, step, hand, hist>>

(* client.disconnect() *)
ClientDisconnect(c) ==
    /\ pc[c] = "close"
    /\ Goto(c, "clear")
    /\ session' = "down"
    /\ UNCHANGED <<start, loopRunning, lossPending, connected, backoff, recon, shuttingDown,
                   flowVars, step, hand, hist>>

ClearConnected(c) ==
    /\ pc[c] = "clear"
    /\ Goto(c, "done")
    /\ connected' = FALSE
    /\ UNCHANGED <<start, loopRunning, session, lossPending, backoff, recon, shuttingDown,
                   flowVars, step, hand, hist>>

Teardown(c) ==
    \/ FlushGet(c) \/ FlushEmpty(c) \/ DisconnectFlag(c)
    \/ JoinReturns(c) \/ JoinTimeout(c)
    \/ LoopStop(c) \/ ClientDisconnect(c) \/ ClearConnected(c)

-----------------------------------------------------------------------------
(* The paho client and the callbacks its network thread runs. *)

(* The client notices that its connection is gone.  Bound: a connection is
   lost only while a slot for a reconnect thread is free. *)
SocketLost ==
    /\ loopRunning
    /\ ~lossPending
    /\ session \in {"connecting", "up"}
    /\ \E r \in ReconnectThreads : recon[r] = "none"
    /\ session' = "down"
    /\ lossPending' = TRUE
    /\ hist' = [hist EXCEPT !.lost = TRUE]
    /\ UNCHANGED <<start, loopRunning, connected, backoff, recon, shuttingDown,
                   flowVars, localVars>>

(* _on_disconnect with rc # 0: _connected is cleared, and a thread is
   spawned unless the transport is shutting down. *)
OnDisconnect ==
    /\ loopRunning
    /\ lossPending
    /\ lossPending' = FALSE
    /\ connected' = FALSE
    /\ IF shuttingDown
       THEN UNCHANGED recon
       ELSE \E r \in ReconnectThreads :
                /\ recon[r] = "none"
                /\ recon' = [recon EXCEPT ![r] = "while"]
    /\ UNCHANGED <<start, loopRunning, session, backoff, shuttingDown,
                   flowVars, localVars, hist>>

(* _on_connect with rc = 0 *)
OnConnect ==
    /\ loopRunning
    /\ ~lossPending
    /\ session = "connecting"
    /\ session' = "up"
    /\ connected' = TRUE
    /\ backoff' = BackoffStart
    /\ UNCHANGED <<start, loopRunning, lossPending, recon, shuttingDown,
                   flowVars, localVars, hist>>

(* _on_connect with rc # 0: the broker refuses the session, and closes it. *)
OnConnectRefused ==
    /\ loopRunning
    /\ ~lossPending
    /\ session = "connecting"
    /\ \E r \in ReconnectThreads : recon[r] = "none"
    /\ session' = "down"
    /\ lossPending' = TRUE
    /\ connected' = FALSE
    /\ hist' = [hist EXCEPT !.lost = TRUE]
    /\ UNCHANGED <<start, loopRunning, backoff, recon, shuttingDown, flowVars, localVars>>

(* paho's network loop reconnects on its own as well. *)
AutoReconnect ==
    /\ loopRunning
    /\ ~lossPending
    /\ session = "down"
    /\ session' = "connecting"
    /\ UNCHANGED <<start, loopRunning, lossPending, connected, backoff, recon, shuttingDown,
                   flowVars, localVars, hist>>

-----------------------------------------------------------------------------
(* _reconnect_loop() *)

(* while not _shutting_down *)
ReconnectTest(r) ==
    /\ recon[r] = "while"
    /\ recon' = [recon EXCEPT ![r] = IF shuttingDown THEN "none" ELSE "wait"]
    /\ UNCHANGED <<start, loopRunning, session, lossPending, connected, backoff, shuttingDown,
                   flowVars, localVars, hist>>

(* _shutting_down.wait(timeout=backoff): returns at once when the flag is
   set, after the backoff otherwise. *)
ReconnectWait(r) ==
    /\ recon[r] = "wait"
    /\ recon' = [recon EXCEPT ![r] = IF shuttingDown THEN "none" ELSE "attempt"]
    /\ UNCHANGED <<start, loopRunning, session, lossPending, connected, backoff, shuttingDown,
                   flowVars, localVars, hist>>

(* client.reconnect() succeeds: it closes the connection the client has,
   if any, and opens a new one; the thread ends. *)
ReconnectOpen(r) ==
    /\ recon[r] = "attempt"
    /\ recon' = [recon EXCEPT ![r] = "none"]
    /\ session' = "connecting"
    /\ UNCHANGED <<start, loopRunning, lossPending, connected, backoff, shuttingDown,
                   flowVars, localVars, hist>>

(* Mutant: the thread gives up after its first failed attempt. *)
ReconnectFailsOnce(r) ==
    /\ recon[r] = "attempt"
    /\ recon' = [recon EXCEPT ![r] = "none"]
    /\ session' = "down"
    /\ UNCHANGED <<start, loopRunning, lossPending, connected, backoff, shuttingDown,
                   flowVars, localVars, hist>>

(* client.reconnect() raises: the client has no connection, the backoff is
   doubled up to the maximum, and the loop goes on. *)
ReconnectFails(r) ==
    /\ recon[r] = "attempt"
    /\ recon' = [recon EXCEPT ![r] = "while"]
    /\ session' = "down"
    /\ backoff' = IF backoff * 2 > BackoffMax THEN BackoffMax ELSE backoff * 2
    /\ UNCHANGED <<start, loopRunning, lossPending, connected, shuttingDown,
                   flowVars, localVars, hist>>

Reconnect(r) ==
    ReconnectTest(r) \/ ReconnectWait(r) \/ ReconnectOpen(r) \/ ReconnectFails(r)

-----------------------------------------------------------------------------
Connect == ConnectRefused \/ ConnectOpen \/ ConnectReady \/ ConnectTimeout

Network == SocketLost \/ OnDisconnect \/ OnConnect \/ OnConnectRefused \/ AutoReconnect

Next ==
    \/ Connect
    \/ \E c \in Callers : PublishPut(c) \/ \E w \in Windows : PublishCheck(c, w)
    \/ \E t \in Consumers : DoPublish(t)
    \/ PublishLoop
    \/ \E c \in Closers : FlushCall(c) \/ FlushDeadline(c) \/ DisconnectCall(c) \/ Teardown(c)
    \/ Network
    \/ \E r \in ReconnectThreads : Reconnect(r)

Spec == Init /\ [][Next]_vars

(***************************************************************************)
(* Fairness.  Every thread of the program is scheduled, the deadline of    *)
(* flush() passes, and a backoff ends.  The network owes nothing here.     *)
(***************************************************************************)
FairSpec ==
    /\ Spec
    /\ WF_vars(PublishLoop)
    /\ \A t \in Consumers : WF_vars(DoPublish(t))
    /\ \A c \in Callers : WF_vars(PublishPut(c))
    /\ \A c \in Closers : WF_vars(Teardown(c)) /\ SF_vars(FlushDeadline(c))
    /\ \A r \in ReconnectThreads : WF_vars(Reconnect(r))

(* The broker can be reached: a reconnection that is tried again and again
   succeeds, and a session that is opened again and again is accepted. *)
BrokerReachable ==
    /\ WF_vars(OnDisconnect)
    /\ SF_vars(OnConnect)
    /\ \A r \in ReconnectThreads : SF_vars(ReconnectOpen(r))

-----------------------------------------------------------------------------
(* The variables hold what the code can put into them. *)
TypeOK ==
    /\ start \in {"new", "waiting", "ready", "failed"}
    /\ loopRunning \in BOOLEAN
    /\ session \in {"down", "connecting", "up"}
    /\ lossPending \in BOOLEAN
    /\ connected \in BOOLEAN
    /\ shuttingDown \in BOOLEAN
    /\ backoff \in BackoffStart..BackoffMax
    /\ queue \in Seq(Windows) /\ Len(queue) <= QueueMax
    /\ offer \in [Callers -> Windows \cup {NoWindow}]
    /\ pc \in [Consumers -> {"unstarted", "while", "get", "idle", "flush", "flag", "drain",
                             "join", "loopStop", "close", "clear", "done"}]
    /\ step \in [Consumers -> {"none", "check", "requeue", "send"}]
    /\ hand \in [Consumers -> Windows \cup {NoWindow}]
    /\ recon \in [ReconnectThreads -> {"none", "while", "wait", "attempt"}]
    /\ accepted \in Seq(Windows)
    /\ rejected \in SUBSET Windows
    /\ sent \in Seq(Windows)
    /\ failed \in SUBSET Windows
    /\ dropped \in SUBSET Windows
    /\ hist \in [lost : BOOLEAN, timeout : BOOLEAN, flushed : SUBSET Closers, late : SUBSET Windows]

(* Every window publish() said True for is in exactly one place: the queue,
   the hands of one thread, the client, or one of the two ways to be lost;
   and no place holds a window publish() said False for.  This is about
   _do_publish: the re-queue, the drop and the send exclude one another
   however publishers, flushes and callbacks interleave. *)
NoDuplicates(s) == \A i, j \in DOMAIN s : s[i] = s[j] => i = j

Disjoint(s, t) == s \cap t = {}

(* A thread holds a window exactly while it is in _do_publish, and no two
   threads hold the same one. *)
HandOK ==
    /\ \A t \in Consumers : hand[t] = NoWindow <=> step[t] = "none"
    /\ pc[PublishThread] = "get" => step[PublishThread] = "none"
    /\ \A t, u \in Consumers : hand[t] # NoWindow /\ hand[t] = hand[u] => t = u

(* A window between the test and the put of publish() is nowhere else. *)
OfferOK ==
    /\ \A c, d \in Callers : offer[c] # NoWindow /\ offer[c] = offer[d] => c = d
    /\ Disjoint(InOffer, Accepted \cup rejected)

Conservation ==
    /\ HandOK
    /\ OfferOK
    /\ Accepted = InQueue \cup InHand \cup Sent \cup failed \cup dropped
    /\ NoDuplicates(queue) /\ NoDuplicates(sent)
    /\ Disjoint(InQueue, InHand \cup Sent \cup failed \cup dropped)
    /\ Disjoint(InHand, Sent \cup failed \cup dropped)
    /\ Disjoint(Sent, failed \cup dropped)
    /\ Disjoint(failed, dropped)
    /\ Disjoint(Accepted, rejected)

(* As long as the link was never lost and nobody flushed, the client gets
   the windows in the order publish() accepted them: _publish_loop is the
   only consumer, so a queue in between keeps the order. *)
OrderWhileUp ==
    ~hist.lost /\ hist.flushed = {} =>
        accepted = sent \o (IF hand[PublishThread] = NoWindow
                            THEN <<>> ELSE <<hand[PublishThread]>>) \o queue

ClosersQuiet ==
    /\ \A c \in Closers : pc[c] \in {"idle", "done"}
    /\ \E c \in Closers : pc[c] = "done"

(* disconnect() "flushes the remaining queue": when the link was never lost
   and no deadline passed, then once every closer is back, only windows that
   were enqueued after the flag are left in the queue or in a hand; publish()
   tests _shutting_down and enqueues later, which each caller can do once.
   It needs the order flag, drain, join in disconnect(). *)
NothingStranded ==
    /\ Cardinality(hist.late) <= Cardinality(Callers)
    /\ ClosersQuiet /\ ~hist.lost /\ ~hist.timeout => InQueue \cup InHand \subseteq hist.late

(* When one closer did all the flushing, the queued windows reached the
   client: none met a closed connection.  A flush before the first CONNACK
   can still drop some, when the queue fills up while it holds a window it
   has to put back. *)
CleanShutdownDelivers ==
    /\ ClosersQuiet /\ Cardinality(hist.flushed) = 1
    /\ ~hist.lost /\ ~hist.timeout /\ hist.late = {}
    => Accepted = Sent \cup dropped

(* The transport is an at-most-once channel. *)
Channel == INSTANCE AtMostOnceChannel
    WITH pending <- InQueue \cup InHand, delivered <- sent,
         gone <- rejected \cup failed \cup dropped

ChannelSpec == Channel!Spec

(* disconnect() and flush() return, whatever the broker does. *)
TeardownReturns ==
    \A c \in Closers : (pc[c] \notin {"idle", "done"}) ~> (pc[c] \in {"idle", "done"})

(* While the transport stays connected, a window in the queue gets out. *)
DrainsWhileUp ==
    <>[](connected /\ start = "ready" /\ ~shuttingDown) =>
        \A w \in Windows : (w \in InQueue) ~> (w \notin InQueue \cup InHand)

(* A transport that lost its connection gets it back while the broker can
   be reached: no interleaving of losses, refused sessions and failed
   attempts leaves it without a thread that reconnects. *)
ComesBack ==
    BrokerReachable => ((start = "ready" /\ ~connected) ~> (connected \/ shuttingDown))
=============================================================================
