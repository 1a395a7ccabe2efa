---------------------------- MODULE LiveUpdates ----------------------------
(***************************************************************************)
(* How a map reaches the phone: the WebSocket client of the app            *)
(* (src/app/src/services/websocket.ts, src/app/App.tsx), the Lambda that   *)
(* keeps the table of connections (src/backend/handlers/ws_handler.py) and *)
(* the push of the REST Lambda (_push_ws_map_update in api_handler.py).    *)
(*                                                                         *)
(* The app is single-threaded: one callback is one step.  Every Lambda     *)
(* invocation is concurrent with all others, is one DynamoDB call long     *)
(* (the push: a scan, then one call per connection), and API Gateway       *)
(* orders invocations only in that $connect ends before a connection opens.*)
(* A DynamoDB call that raises has been applied, or never is.              *)
(* Left out: the back-off time of the client (a pending timer fires at     *)
(* some point), tokens, the messages "ping" and "unsubscribe", which the   *)
(* app never sends, and the content of a map.                              *)
(* Bounds: Conns are used once each; the user selects MaxSelects times.    *)
(***************************************************************************)
EXTENDS Integers, FiniteSets

CONSTANTS
    Conns,          \* the connections, each a WebSocket object and its id
    Sessions,       \* audit sessions
    Timers,         \* timer ids of setTimeout
    Pushers,        \* slots for concurrent pushes
    MaxSelects,     \* bound: selections of a session
    NoConn, NoTimer, NoSession,     \* null
    Absent          \* no such row

ASSUME NullAssumption ==
    /\ NoConn \notin Conns /\ NoTimer \notin Timers
    /\ {NoSession, Absent} \cap Sessions = {} /\ NoSession # Absent
ASSUME MaxSelectsAssumption == MaxSelects \in Nat

VARIABLES
    mounted,        \* the App component is mounted
    sock,           \* this.ws
    timers,         \* timers that have yet to fire
    reconnectTimer, \* this.reconnectTimer
    closed,         \* this.intentionallyClosed
    wsConnected,    \* the store's wsConnected
    current,        \* the store's currentSession
    selects,        \* selections so far
    conn,           \* what became of a connection
    table,          \* the connections table: the session_id of a row
    messages,       \* subscribe messages whose invocation has yet to run
    disconnects,    \* connections whose $disconnect has yet to run
    push,           \* what a push has scanned and not posted to yet
    toClient,       \* map_update messages under way
    shown,          \* the session of the last map_update the app took
    orphans,        \* history: connections refused when their row was put
    undeleted,      \* history: connections whose row could not be deleted
    ghosts,         \* history: connections whose row a subscribe put back
    unheard         \* history: connections whose subscribe failed

clientVars == <<mounted, sock, timers, reconnectTimer, closed, wsConnected>>
userVars == <<current, selects>>
failureVars == <<orphans, undeleted, ghosts, unheard>>
serverVars == <<table, messages, disconnects, push, toClient, shown, failureVars>>
vars == <<clientVars, userVars, conn, serverVars>>

Live == {c \in Conns : conn[c] \in {"connecting", "accepted", "open"}}
Known == {c \in Conns : conn[c] \in {"accepted", "open"}}   \* $connect has succeeded
Unused == {c \in Conns : conn[c] = "unused"}
IsOpen == sock # NoConn /\ conn[sock] = "open"
Idle == [session |-> NoSession, todo |-> {}]

Init ==
    /\ mounted = FALSE
    /\ sock = NoConn
    /\ timers = {}
    /\ reconnectTimer = NoTimer
    /\ closed = FALSE
    /\ wsConnected = FALSE
    /\ current = NoSession
    /\ selects = 0
    /\ conn = [c \in Conns |-> "unused"]
    /\ table = [c \in Conns |-> Absent]
    /\ messages = {}
    /\ disconnects = {}
    /\ push = [p \in Pushers |-> Idle]
    /\ toClient = {}
    /\ shown = NoSession
    /\ orphans = {}
    /\ undeleted = {}
    /\ ghosts = {}
    /\ unheard = {}

-----------------------------------------------------------------------------
(* WebSocketClient *)

(* cleanup(): the timer is cleared, the handlers are taken off, and the
   socket is closed unless it is already. *)
HangUpForgotten == conn                             \* mutant
HangUp == [c \in Conns |-> IF c # sock THEN conn[c]
                           ELSE CASE conn[c] = "connecting" -> "abandoned"
                                  [] conn[c] \in {"accepted", "open"} -> "closed"
                                  [] OTHER -> conn[c]]

ClearedTimers == timers \ {reconnectTimer}

HungUp == disconnects \cup (Known \cap {sock})

(* scheduleReconnect(), from the timers that are pending by then. *)
NoReconnect(pending, intentionally) ==              \* mutant
    timers' = pending /\ UNCHANGED reconnectTimer

ScheduleReconnect(pending, intentionally) ==
    IF intentionally
    THEN timers' = pending /\ UNCHANGED reconnectTimer
    ELSE \E t \in Timers \ pending : timers' = pending \cup {t} /\ reconnectTimer' = t

(* connect(), from the timers that are pending by then: cleanup() and a new
   socket, or an exception and a timer. *)
ConnectAfter(pending) ==
    /\ \E c \in Unused :
          /\ sock' = c
          /\ conn' = [HangUp EXCEPT ![c] = "connecting"]
    /\ timers' = pending \ {reconnectTimer}
    /\ reconnectTimer' = NoTimer
    /\ disconnects' = HungUp

ConnectThrows(pending) ==
    /\ sock' = NoConn
    /\ conn' = HangUp
    /\ disconnects' = HungUp
    /\ ScheduleReconnect(pending \ {reconnectTimer}, FALSE)

(* The first effect of App, the root component, which is mounted once: a new
   client, and connect(). *)
Mount ==
    /\ ~mounted
    /\ ~closed
    /\ mounted' = TRUE
    /\ closed' = FALSE
    /\ ConnectAfter(timers) \/ ConnectThrows(timers)
    /\ UNCHANGED <<wsConnected, userVars, table, messages, push, toClient, shown, failureVars>>

TimerConnects(t) ==
    /\ t \in timers
    /\ closed' = FALSE
    /\ ConnectAfter(timers \ {t})
    /\ UNCHANGED <<mounted, wsConnected, userVars, table, messages, push, toClient,
                   shown, failureVars>>

TimerFails(t) ==
    /\ t \in timers
    /\ closed' = FALSE
    /\ ConnectThrows(timers \ {t})
    /\ UNCHANGED <<mounted, wsConnected, userVars, table, messages, push, toClient,
                   shown, failureVars>>

(* The effect's clean-up: disconnect(). *)
Unmount ==
    /\ mounted
    /\ mounted' = FALSE
    /\ closed' = TRUE
    /\ sock' = NoConn
    /\ conn' = HangUp
    /\ disconnects' = HungUp
    /\ timers' = ClearedTimers
    /\ reconnectTimer' = NoTimer
    /\ UNCHANGED <<wsConnected, userVars, table, messages, push, toClient, shown, failureVars>>

OnOpen ==
    /\ sock # NoConn
    /\ conn[sock] = "accepted"
    /\ conn' = [conn EXCEPT ![sock] = "open"]
    /\ wsConnected' = TRUE
    /\ UNCHANGED <<mounted, sock, timers, reconnectTimer, closed, userVars, serverVars>>

StatusAfterClose == FALSE

(* onclose; onerror only closes the socket. *)
OnClose ==
    /\ sock # NoConn
    /\ conn[sock] = "closed"
    /\ conn' = [conn EXCEPT ![sock] = "reported"]
    /\ wsConnected' = StatusAfterClose
    /\ ScheduleReconnect(timers, closed)
    /\ UNCHANGED <<mounted, sock, closed, userVars, serverVars>>

(* The user selects or creates a session; App's second effect subscribes,
   and send() drops the message unless the socket is open. *)
Select(s) ==
    /\ s # current
    /\ selects < MaxSelects
    /\ current' = s
    /\ selects' = selects + 1
    /\ messages' = IF mounted /\ IsOpen
                   THEN messages \cup {[conn |-> sock, session |-> s, n |-> selects']}
                   ELSE messages
    /\ UNCHANGED <<clientVars, conn, table, disconnects, push, toClient, shown, failureVars>>

(* onmessage, for a socket that still has its handlers. *)
OnMessage(m) ==
    /\ m \in toClient
    /\ toClient' = toClient \ {m}
    /\ shown' = IF m.conn = sock /\ IsOpen THEN m.session ELSE shown
    /\ UNCHANGED <<clientVars, userVars, conn, table, messages, disconnects, push, failureVars>>

-----------------------------------------------------------------------------
(* The network and ws_handler.py *)

(* handle_connect: a row without a session, and the handshake goes on.  The
   client may have given the connection up by then. *)
HandleConnect(c) ==
    /\ conn[c] \in {"connecting", "abandoned"}
    /\ table' = [table EXCEPT ![c] = NoSession]
    /\ IF conn[c] = "connecting"
       THEN conn' = [conn EXCEPT ![c] = "accepted"] /\ UNCHANGED disconnects
       ELSE conn' = [conn EXCEPT ![c] = "closed"] /\ disconnects' = disconnects \cup {c}
    /\ UNCHANGED <<clientVars, userVars, messages, push, toClient, shown, failureVars>>

(* The handshake fails, and no $disconnect will follow.  Bound: while another
   connection can be tried. *)
HandshakeFails(c) ==
    /\ conn[c] = "abandoned" \/ (conn[c] = "connecting" /\ Unused # {})
    /\ conn' = [conn EXCEPT ![c] = "closed"]
    /\ UNCHANGED <<clientVars, userVars, messages, disconnects, push, toClient, shown,
                   undeleted, ghosts, unheard>>

ConnectFails(c) ==
    /\ HandshakeFails(c)
    /\ UNCHANGED <<table, orphans>>

(* put_item raises, or the Lambda times out, when the row is in the table. *)
ConnectFailsLate(c) ==
    /\ HandshakeFails(c)
    /\ table' = [table EXCEPT ![c] = NoSession]
    /\ orphans' = orphans \cup {c}

(* The connection is lost.  Bound: while another one can be tried. *)
Drop(c) ==
    /\ c \in Known
    /\ Unused # {}
    /\ conn' = [conn EXCEPT ![c] = "closed"]
    /\ disconnects' = disconnects \cup {c}
    /\ UNCHANGED <<clientVars, userVars, table, messages, push, toClient, shown, failureVars>>

(* handle_disconnect: the row is deleted, or is not.  Nobody looks at the
   answer, so that a delete_item that raised when it was done is no case of
   its own. *)
RowLeft(c) == table[c]                              \* mutant
RowDeleted(c) == Absent

HandleDisconnect(c) ==
    /\ c \in disconnects
    /\ disconnects' = disconnects \ {c}
    /\ table' = [table EXCEPT ![c] = RowDeleted(c)]
    /\ UNCHANGED <<clientVars, userVars, conn, messages, push, toClient, shown, failureVars>>

HandleDisconnectFails(c) ==
    /\ c \in disconnects
    /\ disconnects' = disconnects \ {c}
    /\ undeleted' = undeleted \cup {c}
    /\ UNCHANGED <<clientVars, userVars, conn, table, messages, push, toClient, shown,
                   orphans, ghosts, unheard>>

(* _handle_subscribe: update_item creates the row when there is none, or is
   not applied, and then the message is gone.  Here too the answer goes to
   nobody: an update that raised when it was done is one that was done. *)
HandleSubscribe(m) ==
    /\ m \in messages
    /\ messages' = messages \ {m}
    /\ table' = [table EXCEPT ![m.conn] = m.session]
    /\ ghosts' = IF table[m.conn] = Absent THEN ghosts \cup {m.conn} ELSE ghosts
    /\ UNCHANGED <<clientVars, userVars, conn, disconnects, push, toClient, shown,
                   orphans, undeleted, unheard>>

HandleSubscribeFails(m) ==
    /\ m \in messages
    /\ messages' = messages \ {m}
    /\ unheard' = unheard \cup {m.conn}
    /\ UNCHANGED <<clientVars, userVars, conn, table, disconnects, push, toClient, shown,
                   orphans, undeleted, ghosts>>

-----------------------------------------------------------------------------
(* _push_ws_map_update(): the scan, then one post per row it found. *)

PushScan(p, s) ==
    /\ push[p] = Idle
    /\ \E c \in Conns : table[c] = s
    /\ push' = [push EXCEPT ![p] = [session |-> s, todo |-> {c \in Conns : table[c] = s}]]
    /\ UNCHANGED <<clientVars, userVars, conn, table, messages, disconnects, toClient,
                   shown, failureVars>>

Posted(p, c) ==
    LET rest == push[p].todo \ {c}
    IN  push' = [push EXCEPT ![p] = IF rest = {} THEN Idle
                                    ELSE [session |-> @.session, todo |-> rest]]

PushPost(p, c) ==
    /\ c \in push[p].todo \cap Known
    /\ Posted(p, c)
    /\ toClient' = toClient \cup {[conn |-> c, session |-> push[p].session]}
    /\ UNCHANGED <<clientVars, userVars, conn, table, messages, disconnects, shown, failureVars>>

(* GoneException: the row is deleted. *)
PushGone(p, c) ==
    /\ c \in push[p].todo \ Known
    /\ Posted(p, c)
    /\ table' = [table EXCEPT ![c] = Absent]
    /\ UNCHANGED <<clientVars, userVars, conn, messages, disconnects, toClient, shown, failureVars>>

(* ... and delete_item may raise out of the function, done or not: the rest
   of the rows get nothing. *)
PushGoneRaises(p, c) ==
    /\ c \in push[p].todo \ Known
    /\ push' = [push EXCEPT ![p] = Idle]
    /\ table' \in {table, [table EXCEPT ![c] = Absent]}
    /\ UNCHANGED <<clientVars, userVars, conn, messages, disconnects, toClient, shown, failureVars>>

(* Any other exception: pass. *)
TableAfterAnyFailure(c) == [table EXCEPT ![c] = Absent]     \* mutant
TableAfterFailure(c) == table

PushFails(p, c) ==
    /\ c \in push[p].todo
    /\ Posted(p, c)
    /\ table' = TableAfterFailure(c)
    /\ UNCHANGED <<clientVars, userVars, conn, messages, disconnects, toClient, shown, failureVars>>

-----------------------------------------------------------------------------
Client ==
    \/ Mount \/ Unmount \/ OnOpen \/ OnClose
    \/ \E t \in Timers : TimerConnects(t) \/ TimerFails(t)
    \/ \E s \in Sessions : Select(s)
    \/ \E m \in toClient : OnMessage(m)

Server ==
    \/ \E c \in Conns : HandleConnect(c) \/ ConnectFails(c)
                        \/ ConnectFailsLate(c) \/ Drop(c)
                        \/ HandleDisconnect(c) \/ HandleDisconnectFails(c)
    \/ \E m \in messages : HandleSubscribe(m) \/ HandleSubscribeFails(m)
    \/ \E p \in Pushers :
          \/ \E s \in Sessions : PushScan(p, s)
          \/ \E c \in Conns : PushPost(p, c) \/ PushGone(p, c)
                             \/ PushGoneRaises(p, c) \/ PushFails(p, c)

Next == Client \/ Server

Spec == Init /\ [][Next]_vars

(* Timers fire and callbacks run, a handshake is answered, and new WebSocket()
   does not throw for ever. *)
FairSpec ==
    /\ Spec
    /\ WF_vars(OnOpen) /\ WF_vars(OnClose)
    /\ SF_vars(\E t \in Timers : TimerConnects(t))
    /\ \A c \in Conns : WF_vars(HandleConnect(c))

-----------------------------------------------------------------------------
(* The variables hold what the code can put into them. *)
TypeOK ==
    /\ mounted \in BOOLEAN /\ closed \in BOOLEAN /\ wsConnected \in BOOLEAN
    /\ sock \in Conns \cup {NoConn}
    /\ timers \in SUBSET Timers
    /\ reconnectTimer \in Timers \cup {NoTimer}
    /\ current \in Sessions \cup {NoSession} /\ shown \in Sessions \cup {NoSession}
    /\ selects \in 0..MaxSelects
    /\ conn \in [Conns -> {"unused", "connecting", "abandoned", "accepted", "open",
                           "closed", "reported"}]
    /\ table \in [Conns -> Sessions \cup {NoSession, Absent}]
    /\ messages \in SUBSET [conn : Conns, session : Sessions, n : 1..MaxSelects]
    /\ disconnects \in SUBSET Conns
    /\ push \in [Pushers -> {Idle} \cup [session : Sessions, todo : (SUBSET Conns) \ {{}}]]
    /\ toClient \in SUBSET [conn : Conns, session : Sessions]
    /\ orphans \cup undeleted \cup ghosts \cup unheard \subseteq Conns

(* The client never holds two connections, nor one it no longer listens to;
   and it waits to reconnect only while it has none.  Once App is unmounted
   nothing of its client is left to wake up. *)
OneConnection ==
    /\ Live \subseteq {sock}
    /\ Cardinality(timers) <= 1
    /\ timers # {} => Live = {}
    /\ ~mounted => Live = {} /\ timers = {}

(* The green dot of the Settings screen: it is on as long as the connection
   is open, and off again once the client has heard that it is closed. *)
StatusHonest ==
    mounted =>
        /\ IsOpen => wsConnected
        /\ wsConnected => sock # NoConn /\ conn[sock] # "reported"

(* The client of the app: one connection, and a status that is its own. *)
ClientInv == TypeOK /\ OneConnection /\ StatusHonest

(* A connection that can be posted to has its row: no handler deletes the
   row of a live connection, whatever fails. *)
LiveHasRow == \A c \in Known : table[c] # Absent

DeadRows == {c \in Conns : table[c] # Absent /\ conn[c] \in {"closed", "reported"}}

(* handle_disconnect: "remove connection from DynamoDB".  A connection that
   has ended has a row only until its $disconnect has run; or when the row
   could not be deleted, or was put by a $connect that failed all the same,
   which no $disconnect follows; or when a subscribe message was handled
   after the row had gone, and put it back. *)
GhostsExplained == DeadRows \subseteq disconnects \cup undeleted \cup orphans \cup ghosts

Quiet == messages = {} /\ disconnects = {}

(* "WebSocket pushes map_update to connected clients": when all invocations
   have run and none has failed, a connected app that shows a session is
   subscribed to it. *)
ConnectedIsSubscribed ==
    mounted /\ IsOpen /\ current # NoSession /\ Quiet /\ sock \notin unheard
        => table[sock] = current

(* While it is mounted, the app gets its connection back. *)
ComesBack == mounted ~> (IsOpen \/ ~mounted)
=============================================================================
