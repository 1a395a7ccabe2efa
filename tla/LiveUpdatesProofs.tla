-------------------------- MODULE LiveUpdatesProofs --------------------------
(***************************************************************************)
(* Theorems about LiveUpdates, for every set of connections, sessions,     *)
(* timers and concurrent pushes: ClientInv, LiveHasRow, GhostsExplained.   *)
(*                                                                         *)
(* The client's part leans on what a pending timer says of the socket      *)
(* (ClientOrder), the table's part on what a row, a message and a pending  *)
(* $disconnect say of the connection (RowsOrder).                          *)
(***************************************************************************)
EXTENDS LiveUpdates, FiniteSetTheorems, TLAPS

(* The client holds one socket and one timer at most, and waits on a timer
   only for a socket that has told it of its end. *)
ClientOrder ==
    /\ timers \subseteq {reconnectTimer}
    /\ timers # {} => sock = NoConn \/ conn[sock] = "reported"
    /\ Live \subseteq {sock}
    /\ ~mounted => sock = NoConn /\ timers = {}
    /\ ~mounted /\ ~closed => ~wsConnected
    /\ sock # NoConn => conn[sock] \notin {"unused", "abandoned"}

Closed == {c \in Conns : conn[c] \in {"closed", "reported"}}
Unanswered == {c \in Conns : conn[c] \in {"unused", "connecting", "abandoned"}}

(* A connection has a row only after $connect, a message only once it was
   open, and a $disconnect only once it is closed. *)
RowsOrder ==
    /\ \A c \in Unanswered : table[c] = Absent
    /\ \A m \in messages : m.conn \notin Unanswered
    /\ disconnects \subseteq Closed

IInv ==
    /\ TypeOK
    /\ ClientOrder
    /\ StatusHonest
    /\ RowsOrder
    /\ LiveHasRow
    /\ GhostsExplained

-----------------------------------------------------------------------------
(* What close() and connect() do to the connections. *)

States == {"unused", "connecting", "abandoned", "accepted", "open", "closed", "reported"}

LEMMA HangUpFacts ==
    ASSUME TypeOK, ClientOrder
    PROVE  /\ HangUp \in [Conns -> States]
           /\ \A c \in Conns : c # sock => HangUp[c] = conn[c]
           /\ \A c \in Conns : HangUp[c] \notin {"connecting", "accepted", "open"}
           /\ \A c \in Conns : conn[c] = "connecting" => HangUp[c] = "abandoned"
           /\ \A c \in Known : HangUp[c] = "closed" /\ c = sock
           /\ \A c \in Conns \ Live : HangUp[c] = conn[c]
  <1>1. conn \in [Conns -> States]
    BY DEF TypeOK, States
  <1>2. \A c \in Conns : c # sock => HangUp[c] = conn[c] /\ c \notin Live
    BY DEF HangUp, ClientOrder
  <1>3. ASSUME NEW c \in Conns, c = sock
        PROVE  /\ conn[c] = "connecting" => HangUp[c] = "abandoned"
               /\ conn[c] \in {"accepted", "open"} => HangUp[c] = "closed"
               /\ c \notin Live => HangUp[c] = conn[c]
    <2>1. HangUp[c] = CASE conn[c] = "connecting" -> "abandoned"
                        [] conn[c] \in {"accepted", "open"} -> "closed"
                        [] OTHER -> conn[c]
      BY <1>3 DEF HangUp
    <2>2. CASE conn[c] = "connecting"
      BY <2>1, <2>2 DEF Live
    <2>3. CASE conn[c] \in {"accepted", "open"}
      BY <2>1, <2>3 DEF Live
    <2>4. CASE c \notin Live
      BY <2>1, <2>4 DEF Live
    <2> QED
      BY <2>2, <2>3, <2>4 DEF Live
  <1>4. \A c \in Conns : HangUp[c] \in States \ {"connecting", "accepted", "open"}
    <2> TAKE c \in Conns
    <2>1. CASE c = sock
      BY <1>1, <1>3, <2>1 DEF Live, States
    <2>2. CASE c # sock
      BY <1>1, <1>2, <2>2 DEF Live, States
    <2> QED
      BY <2>1, <2>2
  <1>5. DOMAIN HangUp = Conns /\ HangUp = [c \in Conns |-> HangUp[c]]
    BY DEF HangUp
  <1>6. \A c \in Conns : conn[c] = "connecting" => c \in Live
    BY DEF Live
  <1>7. \A c \in Known : c \in Conns /\ c \in Live /\ conn[c] \in {"accepted", "open"}
    BY DEF Live, Known
  <1> HIDE DEF HangUp, Live, Known
  <1>8. HangUp \in [Conns -> States]
    BY <1>4, <1>5
  <1>9. \A c \in Conns \ Live : HangUp[c] = conn[c]
    BY <1>2, <1>3
  <1> QED
    BY <1>2, <1>3, <1>4, <1>6, <1>7, <1>8, <1>9

(* A client step closes the sockets it leaves, and nothing else is known of
   the connections: their rows stay explained. *)
LEMMA RowsKept ==
    ASSUME RowsOrder, LiveHasRow, GhostsExplained,
           UNCHANGED <<table, messages, orphans, undeleted, ghosts>>,
           Unanswered' = Unanswered, Known' \subseteq Known,
           Closed' = Closed \cup (Known \ Known'),
           disconnects' = disconnects \cup (Known \ Known')
    PROVE  RowsOrder' /\ LiveHasRow' /\ GhostsExplained'
  <1>1. DeadRows = {c \in Closed : table[c] # Absent}
    BY DEF DeadRows, Closed
  <1>2. DeadRows' = {c \in Closed' : table'[c] # Absent}
    BY DEF DeadRows, Closed
  <1> HIDE DEF Closed, Known, Unanswered, DeadRows
  <1> QED
    BY <1>1, <1>2 DEF RowsOrder, LiveHasRow, GhostsExplained

(* hanging up, and possibly opening an unused connection. *)
LEMMA HangUpKeepsRows ==
    ASSUME TypeOK, ClientOrder, RowsOrder, LiveHasRow, GhostsExplained,
           UNCHANGED <<table, messages, orphans, undeleted, ghosts>>, disconnects' = HungUp,
           \/ conn' = HangUp
           \/ \E c \in Unused : conn' = [HangUp EXCEPT ![c] = "connecting"]
    PROVE  RowsOrder' /\ LiveHasRow' /\ GhostsExplained'
  <1>1. \A c \in Conns : conn'[c] = HangUp[c] \/ (conn[c] = "unused" /\ conn'[c] = "connecting")
    <2>1. HangUp \in [Conns -> States]
      BY HangUpFacts
    <2> HIDE DEF HangUp
    <2>2. CASE conn' = HangUp
      BY <2>2
    <2>3. ASSUME NEW c \in Unused, conn' = [HangUp EXCEPT ![c] = "connecting"]
          PROVE  \A d \in Conns : conn'[d] = HangUp[d] \/ (conn[d] = "unused" /\ conn'[d] = "connecting")
      BY <2>1, <2>3 DEF Unused
    <2> QED
      BY <2>2, <2>3
  <1>2. \A c \in Conns : HangUp[c] = conn[c] \/ c \in Live
    BY HangUpFacts
  <1>3. conn \in [Conns -> States]
    BY DEF TypeOK, States
  <1> HIDE DEF HangUp
  <1>4. Unanswered' = Unanswered
    BY <1>1, <1>2, HangUpFacts DEF Unanswered, Live, Known
  <1>5. Known' = {}
    BY <1>1, HangUpFacts DEF Known
  <1>6. Closed' = Closed \cup Known
    BY <1>1, <1>2, HangUpFacts DEF Closed, Known, Live
  <1>7. disconnects' = disconnects \cup Known
    BY HangUpFacts DEF HungUp
  <1> QED
    BY <1>4, <1>5, <1>6, <1>7, RowsKept

-----------------------------------------------------------------------------
(* connect() *)

LEMMA ConnectAfterFacts ==
    ASSUME TypeOK, ClientOrder, NEW pending \in SUBSET timers, ConnectAfter(pending)
    PROVE  /\ conn' \in [Conns -> States] /\ disconnects' \in SUBSET Conns
           /\ sock' \in Conns /\ conn'[sock'] = "connecting" /\ Live' \subseteq {sock'}
           /\ timers' = {} /\ reconnectTimer' = NoTimer
  <1>1. PICK c \in Unused : sock' = c /\ conn' = [HangUp EXCEPT ![c] = "connecting"]
    BY DEF ConnectAfter
  <1>2. c \in Conns
    BY DEF Unused
  <1>3. /\ HangUp \in [Conns -> States]
        /\ \A d \in Conns : HangUp[d] \notin {"connecting", "accepted", "open"}
    BY HangUpFacts
  <1> HIDE DEF HangUp
  <1>4. conn' \in [Conns -> States] /\ conn'[c] = "connecting"
    BY <1>1, <1>2, <1>3 DEF States
  <1>5. Live' \subseteq {c}
    BY <1>1, <1>2, <1>3 DEF Live
  <1>6. disconnects' \in SUBSET Conns
    BY DEF ConnectAfter, HungUp, Known, TypeOK
  <1>7. timers' = {} /\ reconnectTimer' = NoTimer
    BY DEF ConnectAfter, ClientOrder
  <1> QED
    BY <1>1, <1>2, <1>4, <1>5, <1>6, <1>7

LEMMA ConnectThrowsFacts ==
    ASSUME TypeOK, ClientOrder, NEW pending \in SUBSET timers, ConnectThrows(pending)
    PROVE  /\ conn' \in [Conns -> States] /\ disconnects' \in SUBSET Conns
           /\ sock' = NoConn /\ Live' = {}
           /\ reconnectTimer' \in Timers /\ timers' = {reconnectTimer'}
  <1>1. /\ HangUp \in [Conns -> States]
        /\ \A d \in Conns : HangUp[d] \notin {"connecting", "accepted", "open"}
    BY HangUpFacts
  <1>2. conn' = HangUp /\ sock' = NoConn /\ disconnects' = HungUp
    BY DEF ConnectThrows
  <1> HIDE DEF HangUp
  <1>3. Live' = {}
    BY <1>1, <1>2 DEF Live
  <1>4. disconnects' \in SUBSET Conns
    BY <1>2 DEF HungUp, Known, TypeOK
  <1>5. pending \ {reconnectTimer} = {}
    BY DEF ClientOrder
  <1>6. reconnectTimer' \in Timers /\ timers' = {reconnectTimer'}
    BY <1>5 DEF ConnectThrows, ScheduleReconnect
  <1> QED
    BY <1>1, <1>2, <1>3, <1>4, <1>6

-----------------------------------------------------------------------------
(* The client. *)

ClientSound == TypeOK /\ ClientOrder /\ StatusHonest

LEMMA ConnectAfterKeeps ==
    ASSUME ClientSound, NEW pending \in SUBSET timers, ConnectAfter(pending), mounted',
           UNCHANGED <<wsConnected, userVars, table, messages, push, toClient, shown, failureVars>>,
           closed' = FALSE, mounted' \in BOOLEAN
    PROVE  ClientSound'
  <1>1. /\ conn' \in [Conns -> States] /\ disconnects' \in SUBSET Conns
        /\ sock' \in Conns /\ conn'[sock'] = "connecting" /\ Live' \subseteq {sock'}
        /\ timers' = {} /\ reconnectTimer' = NoTimer
    BY ConnectAfterFacts DEF ClientSound
  <1>2. TypeOK'
    BY <1>1 DEF ClientSound, TypeOK, userVars, failureVars, States, Idle
  <1>3. ClientOrder'
    BY <1>1 DEF ClientOrder
  <1>4. StatusHonest'
    BY <1>1, NullAssumption DEF StatusHonest, IsOpen
  <1> QED
    BY <1>2, <1>3, <1>4 DEF ClientSound

LEMMA ConnectThrowsKeeps ==
    ASSUME ClientSound, NEW pending \in SUBSET timers, ConnectThrows(pending), mounted', ~wsConnected,
           UNCHANGED <<wsConnected, userVars, table, messages, push, toClient, shown, failureVars>>,
           closed' = FALSE, mounted' \in BOOLEAN
    PROVE  ClientSound'
  <1>1. /\ conn' \in [Conns -> States] /\ disconnects' \in SUBSET Conns
        /\ sock' = NoConn /\ Live' = {}
        /\ reconnectTimer' \in Timers /\ timers' = {reconnectTimer'}
    BY ConnectThrowsFacts DEF ClientSound
  <1>2. TypeOK'
    BY <1>1 DEF ClientSound, TypeOK, userVars, failureVars, States, Idle
  <1>3. ClientOrder'
    BY <1>1 DEF ClientOrder
  <1>4. StatusHonest'
    BY <1>1 DEF StatusHonest, IsOpen
  <1> QED
    BY <1>2, <1>3, <1>4 DEF ClientSound

LEMMA ClientStep == ClientSound /\ Client => ClientSound'
  <1> SUFFICES ASSUME ClientSound, Client PROVE ClientSound'
    OBVIOUS
  <1> USE NullAssumption
  <1>0. /\ NoConn \notin Conns /\ conn \in [Conns -> States] /\ sock \in Conns \cup {NoConn}
        /\ timers \in SUBSET Timers
        /\ mounted \in BOOLEAN /\ closed \in BOOLEAN /\ wsConnected \in BOOLEAN
    BY DEF ClientSound, TypeOK, States
  <1>1. CASE Mount
    <2>1. /\ ~mounted /\ ~closed /\ mounted' = TRUE /\ closed' = FALSE
          /\ UNCHANGED <<wsConnected, userVars, table, messages, push, toClient, shown, failureVars>>
          /\ ConnectAfter(timers) \/ ConnectThrows(timers)
      BY <1>1 DEF Mount
    <2>2. ~wsConnected
      BY <2>1 DEF ClientSound, ClientOrder
    <2> QED
      BY <2>1, <2>2, ConnectAfterKeeps, ConnectThrowsKeeps
  <1>2. ASSUME NEW t \in Timers, TimerConnects(t) \/ TimerFails(t)
        PROVE  ClientSound'
    <2>1. /\ t \in timers /\ closed' = FALSE /\ mounted' = mounted
          /\ UNCHANGED <<wsConnected, userVars, table, messages, push, toClient, shown, failureVars>>
          /\ ConnectAfter(timers \ {t}) \/ ConnectThrows(timers \ {t})
      BY <1>2 DEF TimerConnects, TimerFails
    <2>2. mounted /\ ~wsConnected
      BY <1>0, <2>1 DEF ClientSound, ClientOrder, StatusHonest
    <2> QED
      BY <1>0, <2>1, <2>2, ConnectAfterKeeps, ConnectThrowsKeeps
  <1>3. CASE Unmount
    <2>1. /\ mounted' = FALSE /\ closed' = TRUE /\ sock' = NoConn /\ conn' = HangUp
          /\ disconnects' = HungUp /\ timers' = {} /\ reconnectTimer' = NoTimer
          /\ UNCHANGED <<wsConnected, userVars, table, messages, push, toClient, shown, failureVars>>
      BY <1>3 DEF Unmount, ClearedTimers, ClientSound, ClientOrder
    <2>2. /\ conn' \in [Conns -> States]
          /\ \A c \in Conns : conn'[c] \notin {"connecting", "accepted", "open"}
      BY <2>1, HangUpFacts DEF ClientSound
    <2>3. disconnects' \in SUBSET Conns
      BY <2>1 DEF HungUp, Known, ClientSound, TypeOK
    <2> HIDE DEF HangUp
    <2>4. TypeOK'
      BY <2>1, <2>2, <2>3 DEF ClientSound, TypeOK, userVars, failureVars, States, Idle
    <2>5. ClientOrder' /\ StatusHonest'
      BY <2>1, <2>2 DEF ClientOrder, StatusHonest, Live
    <2> QED
      BY <2>4, <2>5 DEF ClientSound
  <1>4. CASE OnOpen
    <2>1. /\ sock \in Conns /\ conn[sock] = "accepted" /\ conn' = [conn EXCEPT ![sock] = "open"]
          /\ wsConnected' = TRUE
          /\ UNCHANGED <<mounted, sock, timers, reconnectTimer, closed, userVars, serverVars>>
      BY <1>0, <1>4 DEF OnOpen
    <2>2. /\ conn' \in [Conns -> States] /\ conn'[sock] = "open"
          /\ \A c \in Conns : c # sock => conn'[c] = conn[c]
      BY <1>0, <2>1 DEF States
    <2>3. TypeOK'
      BY <2>1, <2>2 DEF ClientSound, TypeOK, userVars, serverVars, failureVars, States, Idle
    <2>4. ClientOrder'
      BY <2>1, <2>2 DEF ClientSound, ClientOrder, Live
    <2>5. StatusHonest'
      BY <2>1, <2>2 DEF StatusHonest, IsOpen
    <2> QED
      BY <2>3, <2>4, <2>5 DEF ClientSound
  <1>5. CASE OnClose
    <2>1. /\ sock \in Conns /\ conn[sock] = "closed" /\ conn' = [conn EXCEPT ![sock] = "reported"]
          /\ wsConnected' = FALSE /\ ScheduleReconnect(timers, closed)
          /\ UNCHANGED <<mounted, sock, closed, userVars, serverVars>>
      BY <1>0, <1>5 DEF OnClose, StatusAfterClose
    <2>2. /\ conn' \in [Conns -> States] /\ conn'[sock] = "reported"
          /\ \A c \in Conns : c # sock => conn'[c] = conn[c]
      BY <1>0, <2>1 DEF States
    <2>3. timers = {} /\ mounted
      BY <1>0, <2>1 DEF ClientSound, ClientOrder
    <2>4. /\ timers' \subseteq {reconnectTimer'} /\ timers' \in SUBSET Timers
          /\ reconnectTimer' \in Timers \cup {NoTimer}
      BY <2>1, <2>3 DEF ScheduleReconnect, ClientSound, TypeOK
    <2>5. TypeOK'
      BY <2>1, <2>2, <2>4 DEF ClientSound, TypeOK, userVars, serverVars, failureVars, States, Idle
    <2>6. Live' = {}
      BY <2>1, <2>2 DEF ClientSound, ClientOrder, Live
    <2>7. ClientOrder'
      BY <1>0, <2>1, <2>2, <2>3, <2>4, <2>6 DEF ClientOrder
    <2>8. StatusHonest'
      BY <2>1, <2>2 DEF StatusHonest, IsOpen
    <2> QED
      BY <2>5, <2>7, <2>8 DEF ClientSound
  <1>6. ASSUME UNCHANGED <<clientVars, conn>>, TypeOK'
        PROVE  ClientSound'
    BY <1>6 DEF ClientSound, ClientOrder, StatusHonest, clientVars, Live, IsOpen
  <1>7. ASSUME NEW s \in Sessions, Select(s)
        PROVE  ClientSound'
    <2>1. /\ UNCHANGED <<clientVars, conn, table, disconnects, push, toClient, shown, failureVars>>
          /\ current' = s /\ selects' = selects + 1 /\ selects < MaxSelects
      BY <1>7 DEF Select
    <2>2. selects' \in 1..MaxSelects /\ selects' \in 0..MaxSelects
      BY <2>1, MaxSelectsAssumption DEF ClientSound, TypeOK
    <2>3. messages' \in SUBSET [conn : Conns, session : Sessions, n : 1..MaxSelects]
      BY <1>0, <1>7, <2>2 DEF Select, IsOpen, ClientSound, TypeOK
    <2>4. TypeOK'
      BY <2>1, <2>2, <2>3 DEF ClientSound, TypeOK, clientVars, failureVars, Idle
    <2> QED
      BY <1>6, <2>1, <2>4
  <1>8. ASSUME NEW m \in toClient, OnMessage(m)
        PROVE  ClientSound'
    <2>1. /\ UNCHANGED <<clientVars, userVars, conn, table, messages, disconnects, push, failureVars>>
          /\ toClient' = toClient \ {m} /\ shown' \in {shown, m.session}
      BY <1>8 DEF OnMessage
    <2>2. m.session \in Sessions
      BY DEF ClientSound, TypeOK
    <2>3. TypeOK'
      BY <2>1, <2>2 DEF ClientSound, TypeOK, clientVars, userVars, failureVars, Idle
    <2> QED
      BY <1>6, <2>1, <2>3
  <1> QED
    BY <1>1, <1>2, <1>3, <1>4, <1>5, <1>7, <1>8 DEF Client

-----------------------------------------------------------------------------
(* The server, as the client sees it: connections are accepted and end. *)

LEMMA ServerTypes == TypeOK /\ Server => TypeOK'
  <1> SUFFICES ASSUME TypeOK, Server PROVE TypeOK'
    OBVIOUS
  <1> USE DEF Idle
  <1>1. ASSUME UNCHANGED <<mounted, sock, timers, reconnectTimer, closed, wsConnected, current,
                           selects, shown>>,
               conn' \in [Conns -> States],
               table' \in [Conns -> Sessions \cup {NoSession, Absent}],
               messages' \subseteq messages, disconnects' \in SUBSET Conns,
               push' \in [Pushers -> {Idle} \cup [session : Sessions, todo : (SUBSET Conns) \ {{}}]],
               toClient' \in SUBSET [conn : Conns, session : Sessions],
               orphans' \cup undeleted' \cup ghosts' \cup unheard' \subseteq Conns
        PROVE  TypeOK'
    BY <1>1 DEF TypeOK, States
  <1>2. /\ conn \in [Conns -> States] /\ table \in [Conns -> Sessions \cup {NoSession, Absent}]
        /\ disconnects \in SUBSET Conns /\ toClient \in SUBSET [conn : Conns, session : Sessions]
        /\ push \in [Pushers -> {Idle} \cup [session : Sessions, todo : (SUBSET Conns) \ {{}}]]
        /\ orphans \cup undeleted \cup ghosts \cup unheard \subseteq Conns
    BY DEF TypeOK, States
  <1>3. ASSUME NEW c \in Conns,
               HandleConnect(c) \/ ConnectFails(c) \/ ConnectFailsLate(c) \/ Drop(c) \/ HandleDisconnect(c)
                   \/ HandleDisconnectFails(c)
        PROVE  TypeOK'
    <2>1. conn' \in [Conns -> States]
      BY <1>2, <1>3 DEF HandleConnect, HandshakeFails, ConnectFails, ConnectFailsLate, Drop, HandleDisconnect, HandleDisconnectFails, States
    <2>2. table' \in [Conns -> Sessions \cup {NoSession, Absent}]
      BY <1>2, <1>3 DEF HandleConnect, HandshakeFails, ConnectFails, ConnectFailsLate, Drop, HandleDisconnect, HandleDisconnectFails,
         serverVars, RowDeleted
    <2>3. disconnects' \in SUBSET Conns /\ orphans' \cup undeleted' \cup ghosts' \cup unheard' \subseteq Conns
      BY <1>2, <1>3 DEF HandleConnect, HandshakeFails, ConnectFails, ConnectFailsLate, Drop, HandleDisconnect, HandleDisconnectFails,
         serverVars, failureVars
    <2>4. UNCHANGED <<mounted, sock, timers, reconnectTimer, closed, wsConnected, current,
                      selects, shown, messages, push, toClient>>
      BY <1>3 DEF HandleConnect, HandshakeFails, ConnectFails, ConnectFailsLate, Drop, HandleDisconnect, HandleDisconnectFails,
         serverVars, clientVars, userVars
    <2> QED
      BY <1>1, <1>2, <2>1, <2>2, <2>3, <2>4
  <1>4. ASSUME NEW m \in messages, HandleSubscribe(m) \/ HandleSubscribeFails(m)
        PROVE  TypeOK'
    <2>1. m.conn \in Conns /\ m.session \in Sessions
      BY DEF TypeOK
    <2>2. /\ table' \in [Conns -> Sessions \cup {NoSession, Absent}]
          /\ orphans' \cup undeleted' \cup ghosts' \cup unheard' \subseteq Conns
          /\ messages' \subseteq messages
      BY <1>2, <1>4, <2>1 DEF HandleSubscribe, HandleSubscribeFails
    <2>3. UNCHANGED <<mounted, sock, timers, reconnectTimer, closed, wsConnected, current,
                      selects, shown, conn, disconnects, push, toClient>>
      BY <1>4 DEF HandleSubscribe, HandleSubscribeFails, clientVars, userVars
    <2> QED
      BY <1>1, <1>2, <2>2, <2>3
  <1>5. ASSUME NEW p \in Pushers, NEW s \in Sessions, PushScan(p, s)
        PROVE  TypeOK'
    <2>1. UNCHANGED <<mounted, sock, timers, reconnectTimer, closed, wsConnected, current, selects,
                      shown, conn, table, messages, disconnects, toClient, orphans, undeleted, ghosts, unheard>>
      BY <1>5 DEF PushScan, clientVars, userVars, failureVars
    <2>2. [session |-> s, todo |-> {c \in Conns : table[c] = s}]
              \in [session : Sessions, todo : (SUBSET Conns) \ {{}}]
      BY <1>5 DEF PushScan
    <2>3. push' \in [Pushers -> {Idle} \cup [session : Sessions, todo : (SUBSET Conns) \ {{}}]]
      BY <1>2, <1>5, <2>2 DEF PushScan
    <2> QED
      BY <1>1, <1>2, <2>1, <2>3
  <1>6. ASSUME NEW p \in Pushers, NEW c \in Conns,
               PushPost(p, c) \/ PushGone(p, c) \/ PushGoneRaises(p, c) \/ PushFails(p, c)
        PROVE  TypeOK'
    <2>1. /\ UNCHANGED <<mounted, sock, timers, reconnectTimer, closed, wsConnected, current, selects,
                         shown, conn, messages, disconnects, orphans, undeleted, ghosts, unheard>>
          /\ c \in push[p].todo
      BY <1>6 DEF PushPost, PushGone, PushGoneRaises, PushFails, clientVars, userVars, failureVars
    <2>2. push[p] \in [session : Sessions, todo : (SUBSET Conns) \ {{}}]
      <3>1. push[p] # Idle
        BY <2>1
      <3> QED
        BY <1>2, <3>1
    <2>3. push' \in [Pushers -> {Idle} \cup [session : Sessions, todo : (SUBSET Conns) \ {{}}]]
      <3>1. CASE PushGoneRaises(p, c)
        BY <1>2, <3>1 DEF PushGoneRaises
      <3>2. CASE Posted(p, c)
        <4>1. CASE push[p].todo \ {c} = {}
          BY <1>2, <3>2, <4>1 DEF Posted
        <4>2. CASE push[p].todo \ {c} # {}
          <5>1. [session |-> push[p].session, todo |-> push[p].todo \ {c}]
                    \in [session : Sessions, todo : (SUBSET Conns) \ {{}}]
            BY <2>2, <4>2
          <5> QED
            BY <1>2, <3>2, <4>2, <5>1 DEF Posted
        <4> QED
          BY <4>1, <4>2
      <3> QED
        BY <1>6, <3>1, <3>2 DEF PushPost, PushGone, PushFails
    <2>4. /\ table' \in [Conns -> Sessions \cup {NoSession, Absent}]
          /\ toClient' \in SUBSET [conn : Conns, session : Sessions]
      BY <1>2, <1>6, <2>2 DEF PushPost, PushGone, PushGoneRaises, PushFails, TableAfterFailure
    <2> QED
      BY <1>1, <1>2, <2>1, <2>3, <2>4
  <1> QED
    BY <1>3, <1>4, <1>5, <1>6 DEF Server

LEMMA ServerStep == ClientSound /\ Server => ClientSound'
  <1> SUFFICES ASSUME ClientSound, Server PROVE ClientSound'
    OBVIOUS
  <1>0. /\ conn \in [Conns -> States] /\ NoConn \notin Conns /\ sock \in Conns \cup {NoConn}
    BY NullAssumption DEF ClientSound, TypeOK, States
  <1>1. TypeOK'
    BY ServerTypes DEF ClientSound
  <1>2. UNCHANGED <<mounted, sock, timers, reconnectTimer, closed, wsConnected>>
    BY DEF Server, HandleConnect, HandshakeFails, ConnectFails, ConnectFailsLate, Drop, HandleDisconnect, HandleDisconnectFails,
       HandleSubscribe, HandleSubscribeFails, PushScan, PushPost, PushGone, PushGoneRaises,
       PushFails, clientVars
  (* A connection that is not live stays so, and only one is opened by its client. *)
  <1>3. \A c \in Conns :
           \/ conn'[c] = conn[c]
           \/ conn[c] = "connecting" /\ conn'[c] \in {"accepted", "closed"}
           \/ conn[c] = "abandoned" /\ conn'[c] = "closed"
           \/ conn[c] \in {"accepted", "open"} /\ conn'[c] = "closed"
    <2>1. CASE UNCHANGED conn
      BY <2>1
    <2>2. ASSUME NEW c \in Conns, HandleConnect(c) \/ ConnectFails(c) \/ ConnectFailsLate(c) \/ Drop(c)
          PROVE  \A d \in Conns :
                    \/ conn'[d] = conn[d]
                    \/ conn[d] = "connecting" /\ conn'[d] \in {"accepted", "closed"}
                    \/ conn[d] = "abandoned" /\ conn'[d] = "closed"
                    \/ conn[d] \in {"accepted", "open"} /\ conn'[d] = "closed"
      BY <1>0, <2>2 DEF HandleConnect, HandshakeFails, ConnectFails, ConnectFailsLate, Drop, Known
    <2>3. ASSUME NEW c \in Conns, HandleDisconnect(c) \/ HandleDisconnectFails(c)
          PROVE  UNCHANGED conn
      BY <2>3 DEF HandleDisconnect, HandleDisconnectFails
    <2>4. ASSUME NEW m \in messages, HandleSubscribe(m) \/ HandleSubscribeFails(m)
          PROVE  UNCHANGED conn
      BY <2>4 DEF HandleSubscribe, HandleSubscribeFails
    <2>5. ASSUME NEW p \in Pushers, NEW s \in Sessions, PushScan(p, s)
          PROVE  UNCHANGED conn
      BY <2>5 DEF PushScan
    <2>6. ASSUME NEW p \in Pushers, NEW c \in Conns,
                 PushPost(p, c) \/ PushGone(p, c) \/ PushGoneRaises(p, c) \/ PushFails(p, c)
          PROVE  UNCHANGED conn
      BY <2>6 DEF PushPost, PushGone, PushGoneRaises, PushFails
    <2> QED
      BY <2>1, <2>2, <2>3, <2>4, <2>5, <2>6 DEF Server
  <1>4. Live' \subseteq Live
    BY <1>3 DEF Live
  <1>5. ClientOrder'
    <2>1. (timers # {} => sock = NoConn \/ conn[sock] = "reported")'
      BY <1>0, <1>2, <1>3 DEF ClientSound, ClientOrder
    <2>2. (sock # NoConn => conn[sock] \notin {"unused", "abandoned"})'
      BY <1>0, <1>2, <1>3 DEF ClientSound, ClientOrder
    <2>3. Live' \subseteq {sock'}
      BY <1>2, <1>4 DEF ClientSound, ClientOrder
    <2> QED
      BY <1>2, <2>1, <2>2, <2>3 DEF ClientSound, ClientOrder
  <1>6. StatusHonest'
    <2>1. IsOpen' => IsOpen
      BY <1>0, <1>2, <1>3 DEF IsOpen
    <2>2. sock # NoConn /\ conn[sock] # "reported" => (sock # NoConn /\ conn[sock] # "reported")'
      BY <1>0, <1>2, <1>3
    <2> QED
      BY <1>2, <2>1, <2>2 DEF ClientSound, StatusHonest
  <1> QED
    BY <1>1, <1>5, <1>6 DEF ClientSound

-----------------------------------------------------------------------------
(* The rows. *)

RowsSound == RowsOrder /\ LiveHasRow /\ GhostsExplained

LEMMA ClientKeepsRows == ClientSound /\ RowsSound /\ Client => RowsSound'
  <1> SUFFICES ASSUME ClientSound, RowsSound, Client PROVE RowsSound'
    OBVIOUS
  <1>0. NoConn \notin Conns /\ sock \in Conns \cup {NoConn} /\ conn \in [Conns -> States]
    BY NullAssumption DEF ClientSound, TypeOK, States
  <1>1. ASSUME UNCHANGED <<table, messages, orphans, undeleted, ghosts>>, disconnects' = HungUp,
               \/ conn' = HangUp
               \/ \E c \in Unused : conn' = [HangUp EXCEPT ![c] = "connecting"]
        PROVE  RowsSound'
    BY <1>1, HangUpKeepsRows DEF ClientSound, RowsSound
  <1>2. ASSUME NEW pending, ConnectAfter(pending) \/ ConnectThrows(pending),
               UNCHANGED <<table, messages, orphans, undeleted, ghosts>>
        PROVE  RowsSound'
    <2>1. disconnects' = HungUp
      BY <1>2 DEF ConnectAfter, ConnectThrows
    <2>2. \/ conn' = HangUp
          \/ \E c \in Unused : conn' = [HangUp EXCEPT ![c] = "connecting"]
      BY <1>2 DEF ConnectAfter, ConnectThrows
    <2> QED
      BY <1>1, <1>2, <2>1, <2>2
  <1>3. CASE Mount
    <2>1. ConnectAfter(timers) \/ ConnectThrows(timers)
      BY <1>3 DEF Mount
    <2>2. UNCHANGED <<table, messages, orphans, undeleted, ghosts>>
      BY <1>3 DEF Mount, failureVars
    <2> QED
      BY <1>2, <2>1, <2>2
  <1>4. ASSUME NEW t \in Timers, TimerConnects(t) \/ TimerFails(t)
        PROVE  RowsSound'
    <2>1. ConnectAfter(timers \ {t}) \/ ConnectThrows(timers \ {t})
      BY <1>4 DEF TimerConnects, TimerFails
    <2>2. UNCHANGED <<table, messages, orphans, undeleted, ghosts>>
      BY <1>4 DEF TimerConnects, TimerFails, failureVars
    <2> QED
      BY <1>2, <2>1, <2>2
  <1>5. CASE Unmount
    <2>1. UNCHANGED <<table, messages, orphans, undeleted, ghosts>> /\ disconnects' = HungUp /\ conn' = HangUp
      BY <1>5 DEF Unmount, failureVars
    <2> QED
      BY <1>1, <2>1
  <1>6. CASE OnOpen \/ OnClose
    <2>1. /\ UNCHANGED <<table, messages, orphans, undeleted, ghosts, disconnects>>
          /\ sock \in Conns
          /\ \/ conn[sock] = "accepted" /\ conn' = [conn EXCEPT ![sock] = "open"]
             \/ conn[sock] = "closed" /\ conn' = [conn EXCEPT ![sock] = "reported"]
      BY <1>0, <1>6 DEF OnOpen, OnClose, serverVars, failureVars
    <2>2. \A c \in Conns : \/ conn'[c] = conn[c]
                           \/ conn[c] = "accepted" /\ conn'[c] = "open"
                           \/ conn[c] = "closed" /\ conn'[c] = "reported"
      BY <1>0, <2>1
    <2>3. Unanswered' = Unanswered /\ Known' = Known /\ Closed' = Closed
      BY <2>2 DEF Unanswered, Known, Closed
    <2>4. Closed' = Closed \cup (Known \ Known') /\ disconnects' = disconnects \cup (Known \ Known')
      BY <2>1, <2>3
    <2> QED
      BY <2>1, <2>3, <2>4, RowsKept DEF RowsSound
  <1>7. ASSUME NEW s \in Sessions, Select(s)
        PROVE  RowsSound'
    <2>1. UNCHANGED <<conn, table, disconnects, orphans, undeleted, ghosts>>
      BY <1>7 DEF Select, failureVars
    <2>2. \A m \in messages' : m \in messages \/ (IsOpen /\ m.conn = sock)
      BY <1>7 DEF Select
    <2>3. IsOpen => sock \in Known /\ sock \notin Unanswered
      BY <1>0 DEF IsOpen, Known, Unanswered
    <2>4. \A m \in messages' : m.conn \notin Unanswered
      BY <2>2, <2>3 DEF RowsSound, RowsOrder
    <2> QED
      BY <2>1, <2>4 DEF RowsSound, RowsOrder, LiveHasRow, GhostsExplained, DeadRows, Known, Closed, Unanswered
  <1>8. ASSUME NEW m \in toClient, OnMessage(m)
        PROVE  RowsSound'
    BY <1>8 DEF OnMessage, failureVars, RowsSound, RowsOrder, LiveHasRow, GhostsExplained, DeadRows,
       Known, Closed, Unanswered
  <1> QED
    BY <1>3, <1>4, <1>5, <1>6, <1>7, <1>8 DEF Client

(* A row of a connection that has no live client may go. *)
LEMMA RowGoes ==
    ASSUME TypeOK, RowsSound, UNCHANGED <<conn, orphans, undeleted, ghosts>>, messages' \subseteq messages,
           NEW c \in Conns, c \notin Known, table' = [table EXCEPT ![c] = Absent],
           disconnects' \subseteq disconnects, disconnects \subseteq disconnects' \cup {c}
    PROVE  RowsSound'
  <1>1. Unanswered' = Unanswered /\ Known' = Known /\ Closed' = Closed
    BY DEF Unanswered, Known, Closed
  <1>2. \A d \in Conns : table'[d] = IF d = c THEN Absent ELSE table[d]
    BY DEF TypeOK
  <1>3. RowsOrder'
    <2>1. \A d \in Unanswered : d \in Conns
      BY DEF Unanswered
    <2> QED
      BY <1>1, <1>2, <2>1 DEF RowsSound, RowsOrder
  <1>4. LiveHasRow'
    <2>1. \A d \in Known : d \in Conns /\ d # c
      BY DEF Known
    <2> QED
      BY <1>1, <1>2, <2>1 DEF RowsSound, LiveHasRow
  <1>5. DeadRows' \subseteq DeadRows \ {c}
    BY <1>2 DEF DeadRows
  <1> QED
    BY <1>3, <1>4, <1>5 DEF RowsSound, GhostsExplained

LEMMA ServerKeepsRows == TypeOK /\ RowsSound /\ Server => RowsSound'
  <1> SUFFICES ASSUME TypeOK, RowsSound, Server PROVE RowsSound'
    OBVIOUS
  <1>0. /\ conn \in [Conns -> States] /\ table \in [Conns -> Sessions \cup {NoSession, Absent}]
        /\ disconnects \in SUBSET Conns
    BY DEF TypeOK, States
  <1>1. ASSUME UNCHANGED <<conn, table, orphans, undeleted, ghosts, disconnects>>, messages' \subseteq messages
        PROVE  RowsSound'
    BY <1>1 DEF RowsSound, RowsOrder, LiveHasRow, GhostsExplained, DeadRows, Known, Closed, Unanswered
  <1>2. ASSUME NEW c \in Conns, HandleConnect(c)
        PROVE  RowsSound'
    <2>1. /\ UNCHANGED <<messages, orphans, undeleted, ghosts>>
          /\ \A d \in Conns : table'[d] = IF d = c THEN NoSession ELSE table[d]
          /\ c \in Unanswered
          /\ \/ /\ conn' = [conn EXCEPT ![c] = "accepted"] /\ disconnects' = disconnects
             \/ /\ conn' = [conn EXCEPT ![c] = "closed"] /\ disconnects' = disconnects \cup {c}
      BY <1>0, <1>2 DEF HandleConnect, failureVars, Unanswered
    <2>2. \A d \in Conns : d # c => conn'[d] = conn[d]
      BY <1>0, <2>1
    <2>3. conn'[c] = "accepted" \/ (conn'[c] = "closed" /\ c \in disconnects')
      BY <1>0, <2>1
    <2>4. disconnects \subseteq disconnects'
      BY <2>1
    <2>5. RowsOrder'
      <3>1. Unanswered' = Unanswered \ {c}
        BY <2>2, <2>3 DEF Unanswered
      <3>2. disconnects' \subseteq Closed'
        <4>1. CASE conn' = [conn EXCEPT ![c] = "accepted"] /\ disconnects' = disconnects
          BY <2>1, <2>2, <4>1 DEF RowsSound, RowsOrder, Closed, Unanswered
        <4>2. CASE conn' = [conn EXCEPT ![c] = "closed"] /\ disconnects' = disconnects \cup {c}
          BY <1>0, <2>1, <2>2, <4>2 DEF RowsSound, RowsOrder, Closed, Unanswered
        <4> QED
          BY <2>1, <4>1, <4>2
      <3>3. \A d \in Unanswered' : table'[d] = Absent
        <4>1. \A d \in Unanswered' : d \in Unanswered /\ d \in Conns /\ d # c
          BY <3>1 DEF Unanswered
        <4> QED
          BY <2>1, <4>1 DEF RowsSound, RowsOrder
      <3>4. \A m \in messages' : m.conn \notin Unanswered'
        BY <2>1, <3>1 DEF RowsSound, RowsOrder
      <3> QED
        BY <3>2, <3>3, <3>4 DEF RowsOrder
    <2>6. LiveHasRow'
      BY <2>1, <2>2, NullAssumption DEF RowsSound, LiveHasRow, Known
    <2>7. DeadRows' \subseteq DeadRows \cup (disconnects' \cap {c})
      BY <2>1, <2>2, <2>3 DEF DeadRows
    <2> QED
      BY <2>1, <2>4, <2>5, <2>6, <2>7 DEF RowsSound, GhostsExplained
  <1>3. ASSUME NEW c \in Conns, ConnectFails(c) \/ ConnectFailsLate(c)
        PROVE  RowsSound'
    <2>1. /\ UNCHANGED <<messages, undeleted, ghosts, disconnects>>
          /\ conn[c] \in {"connecting", "abandoned"} /\ conn' = [conn EXCEPT ![c] = "closed"]
          /\ \A d \in Conns : d # c => table'[d] = table[d]
          /\ orphans \subseteq orphans' /\ (table' = table \/ c \in orphans')
      BY <1>0, <1>3 DEF ConnectFails, ConnectFailsLate, HandshakeFails
    <2>2. \A d \in Conns : conn'[d] = IF d = c THEN "closed" ELSE conn[d]
      BY <1>0, <2>1
    <2>3. table[c] = Absent
      BY <2>1 DEF RowsSound, RowsOrder, Unanswered
    <2>4. /\ Unanswered' = Unanswered \ {c} /\ Known' = Known /\ c \notin Known
          /\ Closed \subseteq Closed'
      BY <2>1, <2>2 DEF Unanswered, Known, Closed
    <2>5. RowsOrder'
      <3>1. \A d \in Unanswered' : d \in Conns /\ d # c /\ d \in Unanswered
        BY <2>4 DEF Unanswered
      <3> QED
        BY <2>1, <2>4, <3>1 DEF RowsSound, RowsOrder
    <2>6. LiveHasRow'
      <3>1. \A d \in Known : d \in Conns /\ d # c
        BY <2>4 DEF Known
      <3> QED
        BY <2>1, <2>4, <3>1 DEF RowsSound, LiveHasRow
    <2>7. DeadRows' \subseteq DeadRows \cup (orphans' \cap {c})
      BY <2>1, <2>2, <2>3 DEF DeadRows
    <2> QED
      BY <2>1, <2>5, <2>6, <2>7 DEF RowsSound, GhostsExplained
  <1>4. ASSUME NEW c \in Conns, Drop(c)
        PROVE  RowsSound'
    <2>1. /\ UNCHANGED <<messages, table, orphans, undeleted, ghosts>>
          /\ c \in Known /\ conn' = [conn EXCEPT ![c] = "closed"]
          /\ disconnects' = disconnects \cup {c}
      BY <1>4 DEF Drop, failureVars
    <2>2. \A d \in Conns : conn'[d] = IF d = c THEN "closed" ELSE conn[d]
      BY <1>0, <2>1
    <2>3. /\ Unanswered' = Unanswered /\ Known' = Known \ {c}
          /\ Closed' = Closed \cup {c}
      BY <2>1, <2>2 DEF Unanswered, Known, Closed
    <2>4. Known \ Known' = {c}
      BY <2>1, <2>3
    <2> QED
      BY <2>1, <2>3, <2>4, RowsKept DEF RowsSound
  <1>5. ASSUME NEW c \in Conns, HandleDisconnect(c)
        PROVE  RowsSound'
    <2>1. /\ UNCHANGED <<conn, messages, orphans, undeleted, ghosts>>
          /\ c \in disconnects /\ disconnects' = disconnects \ {c}
          /\ table' = [table EXCEPT ![c] = Absent]
      BY <1>5 DEF HandleDisconnect, RowDeleted, failureVars
    <2>2. c \notin Known
      BY <2>1 DEF RowsSound, RowsOrder, Closed, Known
    <2> QED
      BY <2>1, <2>2, RowGoes
  <1>6. ASSUME NEW c \in Conns, HandleDisconnectFails(c)
        PROVE  RowsSound'
    <2>1. /\ UNCHANGED <<conn, table, messages, orphans, ghosts>>
          /\ disconnects' = disconnects \ {c} /\ undeleted' = undeleted \cup {c}
      BY <1>6 DEF HandleDisconnectFails
    <2> QED
      BY <2>1 DEF RowsSound, RowsOrder, LiveHasRow, GhostsExplained, DeadRows, Known, Closed, Unanswered
  <1>7. ASSUME NEW m \in messages, HandleSubscribe(m)
        PROVE  RowsSound'
    <2>1. /\ UNCHANGED <<conn, orphans, undeleted, disconnects>>
          /\ messages' \subseteq messages
          /\ table' = [table EXCEPT ![m.conn] = m.session]
          /\ ghosts \subseteq ghosts' /\ (table[m.conn] = Absent => m.conn \in ghosts')
      BY <1>7 DEF HandleSubscribe
    <2>2. m.conn \in Conns /\ m.session # Absent /\ m.conn \notin Unanswered
      BY NullAssumption DEF TypeOK, RowsSound, RowsOrder
    <2>3. \A d \in Conns : table'[d] = IF d = m.conn THEN m.session ELSE table[d]
      BY <1>0, <2>1
    <2>4. Unanswered' = Unanswered /\ Known' = Known /\ Closed' = Closed
      BY <2>1 DEF Unanswered, Known, Closed
    <2>5. RowsOrder'
      <3>1. \A d \in Unanswered : d \in Conns /\ d # m.conn
        BY <2>2 DEF Unanswered
      <3> QED
        BY <2>1, <2>3, <2>4, <3>1 DEF RowsSound, RowsOrder
    <2>6. LiveHasRow'
      BY <2>2, <2>3, <2>4 DEF RowsSound, LiveHasRow, Known
    <2>7. DeadRows' \subseteq DeadRows \cup (ghosts' \cap {m.conn})
      BY <2>1, <2>3 DEF DeadRows
    <2> QED
      BY <2>1, <2>5, <2>6, <2>7 DEF RowsSound, GhostsExplained
  <1>8. ASSUME NEW m \in messages, HandleSubscribeFails(m)
        PROVE  RowsSound'
    BY <1>1, <1>8 DEF HandleSubscribeFails
  <1>9. ASSUME NEW p \in Pushers, NEW s \in Sessions, PushScan(p, s)
        PROVE  RowsSound'
    BY <1>1, <1>9 DEF PushScan, failureVars
  <1>10. ASSUME NEW p \in Pushers, NEW c \in Conns, PushPost(p, c) \/ PushFails(p, c)
         PROVE  RowsSound'
    BY <1>1, <1>10 DEF PushPost, PushFails, TableAfterFailure, failureVars
  <1>11. ASSUME NEW p \in Pushers, NEW c \in Conns, PushGone(p, c) \/ PushGoneRaises(p, c)
         PROVE  RowsSound'
    <2>1. /\ UNCHANGED <<conn, messages, disconnects, orphans, undeleted, ghosts>>
          /\ c \notin Known /\ table' \in {table, [table EXCEPT ![c] = Absent]}
      BY <1>11 DEF PushGone, PushGoneRaises, failureVars
    <2>2. CASE table' = [table EXCEPT ![c] = Absent]
      BY <2>1, <2>2, RowGoes
    <2> QED
      BY <1>1, <2>1, <2>2
  <1> QED
    BY <1>2, <1>3, <1>4, <1>5, <1>6, <1>7, <1>8, <1>9, <1>10, <1>11 DEF Server

-----------------------------------------------------------------------------
(* The invariant holds. *)

LEMMA InvariantInit == Init => IInv
  <1> SUFFICES ASSUME Init PROVE IInv
    OBVIOUS
  <1>1. TypeOK
    <2>1. selects \in 0..MaxSelects
      BY MaxSelectsAssumption DEF Init
    <2>2. /\ conn \in [Conns -> States] /\ table \in [Conns -> Sessions \cup {NoSession, Absent}]
          /\ push \in [Pushers -> {Idle} \cup [session : Sessions, todo : (SUBSET Conns) \ {{}}]]
      BY DEF Init, States
    <2>3. messages = {} /\ toClient = {} /\ disconnects = {} /\ timers = {}
      BY DEF Init
    <2>4. orphans \cup undeleted \cup ghosts \cup unheard \subseteq Conns
      BY DEF Init
    <2> QED
      BY <2>1, <2>2, <2>3, <2>4 DEF Init, TypeOK, States
  <1>2. ClientOrder /\ StatusHonest
    BY DEF Init, ClientOrder, StatusHonest, Live, IsOpen
  <1>3. RowsOrder /\ LiveHasRow /\ GhostsExplained
    BY DEF Init, RowsOrder, LiveHasRow, GhostsExplained, DeadRows, Known, Closed, Unanswered
  <1> QED
    BY <1>1, <1>2, <1>3 DEF IInv

LEMMA InvariantStep == IInv /\ [Next]_vars => IInv'
  <1> SUFFICES ASSUME IInv, [Next]_vars PROVE IInv'
    OBVIOUS
  <1>1. ClientSound /\ RowsSound
    BY DEF IInv, ClientSound, RowsSound
  <1>2. CASE Client
    BY <1>1, <1>2, ClientStep, ClientKeepsRows DEF IInv, ClientSound, RowsSound
  <1>3. CASE Server
    BY <1>1, <1>3, ServerStep, ServerKeepsRows DEF IInv, ClientSound, RowsSound
  <1>4. CASE UNCHANGED vars
    <2>1. TypeOK'
      BY <1>4 DEF IInv, TypeOK, vars, clientVars, userVars, serverVars, failureVars, Idle
    <2>2. ClientOrder' /\ StatusHonest'
      BY <1>4 DEF IInv, ClientOrder, StatusHonest, Live, IsOpen, vars, clientVars
    <2>3. RowsOrder' /\ LiveHasRow' /\ GhostsExplained'
      BY <1>4 DEF IInv, RowsOrder, LiveHasRow, GhostsExplained, DeadRows, Known, Closed, Unanswered,
         vars, serverVars, failureVars
    <2> QED
      BY <2>1, <2>2, <2>3 DEF IInv
  <1> QED
    BY <1>2, <1>3, <1>4 DEF Next

LEMMA InvariantHolds == Spec => []IInv
  BY InvariantInit, InvariantStep, PTL DEF Spec

(* However connections are lost, timers fire and the app is unmounted, the
   client has one connection and one timer at most, and not both; once it is
   unmounted it has neither.  Its green dot is on while the connection is open
   and off once the client has heard of its end. *)
THEOREM ClientIsSound == Spec => []ClientInv
  <1>1. IInv => ClientInv
    <2> SUFFICES ASSUME IInv PROVE ClientInv
      OBVIOUS
    <2>1. TypeOK /\ ClientOrder /\ StatusHonest
      BY DEF IInv
    <2>2. Cardinality(timers) <= 1
      <3>1. timers = {} \/ timers = {reconnectTimer}
        BY <2>1 DEF ClientOrder
      <3>2. Cardinality({}) = 0 /\ Cardinality({reconnectTimer}) = 1
        BY FS_EmptySet, FS_Singleton
      <3> QED
        BY <3>1, <3>2
    <2>3. Live \subseteq {sock} /\ (sock = NoConn => Live = {}) /\ (timers # {} => Live = {})
      BY <2>1, NullAssumption DEF ClientOrder, Live
    <2>4. OneConnection
      BY <2>1, <2>2, <2>3 DEF OneConnection, ClientOrder
    <2> QED
      BY <2>1, <2>4 DEF ClientInv
  <1> QED
    BY <1>1, InvariantHolds, PTL

(* No handler, whatever fails and in whatever order the invocations run,
   deletes the row of a connection that can still be posted to. *)
THEOREM LiveKeepsRow == Spec => []LiveHasRow
  BY InvariantHolds, PTL DEF IInv

(* The only rows that outlive their connection are those whose $disconnect has
   yet to run, or was not applied; those of a $connect that put the row and
   failed; and those a late subscribe message put back. *)
THEOREM GhostsAreExplained == Spec => []GhostsExplained
  BY InvariantHolds, PTL DEF IInv
=============================================================================
