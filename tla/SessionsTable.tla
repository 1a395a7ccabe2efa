--------------------------- MODULE SessionsTable ---------------------------
(***************************************************************************)
(* The DynamoDB table of audit sessions and its two writers:               *)
(*   - create_session() of src/backend/handlers/api_handler.py, an         *)
(*     invocation per call: a get_item, then a put_item;                   *)
(*   - _ensure_session() of src/backend/handlers/preprocessor.py, a        *)
(*     conditional put_item, and a cache of the session ids it has tried   *)
(*     that lives as long as its container does.                           *)
(* Each call of DynamoDB is atomic; it may fail, and a put_item that fails *)
(* may have been applied.  An item is the identity of its writer.  Left    *)
(* out: a call without a session_id, whose fresh uuid nobody shares.       *)
(* Bound: Calls are made once each.                                        *)
(***************************************************************************)
CONSTANTS
    Ids,            \* session ids
    Calls,          \* POST /api/sessions with a session_id
    Containers,     \* containers of the preprocessor
    NoItem          \* no such row, or no answer

ASSUME NoItemAssumption == NoItem \notin Calls \cup Containers

VARIABLES
    table,          \* the item of a session id
    call,           \* where a call of create_session is
    sid,            \* its session_id
    answer,         \* the session of its answer 200 or 201
    saw,            \* the item its get_item returned, "error" if that failed
    cache           \* _registered_sessions of a container

sessionsVars == <<table, call, sid, answer, saw, cache>>

Items == Calls \cup Containers
Blind == "error"

SessionsInit ==
    /\ table = [s \in Ids |-> NoItem]
    /\ call = [k \in Calls |-> "new"]
    /\ sid \in [Calls -> Ids]
    /\ answer = [k \in Calls |-> NoItem]
    /\ saw = [k \in Calls |-> NoItem]
    /\ cache = [l \in Containers |-> {}]

-----------------------------------------------------------------------------
(* create_session() *)

Exists(k) == table[sid[k]] # NoItem

(* get_item: an existing session is the answer. *)
CreateGet(k) ==
    /\ call[k] = "new"
    /\ IF Exists(k)
       THEN /\ answer' = [answer EXCEPT ![k] = table[sid[k]]]
            /\ call' = [call EXCEPT ![k] = "done"]
       ELSE /\ call' = [call EXCEPT ![k] = "put"]
            /\ UNCHANGED answer
    /\ saw' = [saw EXCEPT ![k] = table[sid[k]]]
    /\ UNCHANGED <<table, sid, cache>>

(* except Exception: pass *)
CreateGetFails(k) ==
    /\ call[k] = "new"
    /\ call' = [call EXCEPT ![k] = "put"]
    /\ saw' = [saw EXCEPT ![k] = Blind]
    /\ UNCHANGED <<table, sid, answer, cache>>

CreatePut(k) ==
    /\ call[k] = "put"
    /\ table' = [table EXCEPT ![sid[k]] = k]
    /\ answer' = [answer EXCEPT ![k] = k]
    /\ call' = [call EXCEPT ![k] = "done"]
    /\ UNCHANGED <<sid, saw, cache>>

(* Answer 500; the item may be there all the same. *)
CreatePutFails(k) ==
    /\ call[k] = "put"
    /\ call' = [call EXCEPT ![k] = "failed"]
    /\ table' \in {table, [table EXCEPT ![sid[k]] = k]}
    /\ UNCHANGED <<sid, answer, saw, cache>>

-----------------------------------------------------------------------------
(* _ensure_session() for a session that is not in the cache *)

PutAlways(l, s) == l                                \* mutant
PutIfAbsent(l, s) == IF table[s] = NoItem THEN l ELSE table[s]

Ensure(l, s) ==
    /\ s \notin cache[l]
    /\ table' = [table EXCEPT ![s] = PutIfAbsent(l, s)]
    /\ cache' = [cache EXCEPT ![l] = @ \cup {s}]
    /\ UNCHANGED <<call, sid, answer, saw>>

(* put_item fails with a ClientError, which is logged: the id goes into the
   cache as well. *)
EnsureFails(l, s) ==
    /\ s \notin cache[l]
    /\ cache' = [cache EXCEPT ![l] = @ \cup {s}]
    /\ UNCHANGED <<table, call, sid, answer, saw>>

(* Any other exception ends the record before the cache is written; the
   item may be there all the same. *)
RaisesLate(l, s) ==                                 \* mutant
    /\ s \notin cache[l]
    /\ table' \in {table, [table EXCEPT ![s] = PutIfAbsent(l, s)]}
    /\ cache' = [cache EXCEPT ![l] = @ \cup {s}]
    /\ UNCHANGED <<call, sid, answer, saw>>

EnsureRaises(l, s) ==
    /\ s \notin cache[l]
    /\ table' \in {table, [table EXCEPT ![s] = PutIfAbsent(l, s)]}
    /\ UNCHANGED <<call, sid, answer, saw, cache>>

(* A container is replaced; the new one has its name here. *)
ColdStart(l) ==
    /\ cache' = [cache EXCEPT ![l] = {}]
    /\ UNCHANGED <<table, call, sid, answer, saw>>

-----------------------------------------------------------------------------
Create(k) == CreateGet(k) \/ CreateGetFails(k) \/ CreatePut(k) \/ CreatePutFails(k)

SessionsNext ==
    \/ \E k \in Calls : Create(k)
    \/ \E l \in Containers :
          \/ \E s \in Ids : Ensure(l, s) \/ EnsureFails(l, s) \/ EnsureRaises(l, s)
          \/ ColdStart(l)

SessionsSpec == SessionsInit /\ [][SessionsNext]_sessionsVars

-----------------------------------------------------------------------------
(* The variables hold what the code can put into them; a session that was
   answered for is in the table, whoever wrote it last. *)
SessionsTypeOK ==
    /\ table \in [Ids -> Items \cup {NoItem}]
    /\ call \in [Calls -> {"new", "put", "done", "failed"}]
    /\ sid \in [Calls -> Ids]
    /\ answer \in [Calls -> Items \cup {NoItem}]
    /\ saw \in [Calls -> Items \cup {NoItem, Blind}]
    /\ cache \in [Containers -> SUBSET Ids]
    /\ \A k \in Calls : call[k] = "done" <=> answer[k] # NoItem
    /\ \A k \in Calls : answer[k] # NoItem => table[sid[k]] # NoItem

(* A session is overwritten only by a create_session() that looked too early
   or whose look failed, never by a window that arrives: the put of
   _ensure_session() is conditional. *)
OverwrittenUnseenOnly ==
    [][\A s \in Ids :
          table[s] # NoItem /\ table'[s] # table[s] =>
              \E k \in Calls :
                  /\ table'[s] = k /\ sid[k] = s
                  /\ call[k] = "put" /\ saw[k] \in {NoItem, Blind}]_sessionsVars
=============================================================================
