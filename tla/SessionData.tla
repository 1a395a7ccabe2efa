----------------------------- MODULE SessionData -----------------------------
(***************************************************************************)
(* Positions that are tagged, maps that are made of them, and the map the  *)
(* mobile app shows:                                                       *)
(*   - create_position() and _generate_and_store_map() of                  *)
(*     src/backend/handlers/api_handler.py, an invocation per tag, each    *)
(*     call of DynamoDB a step;                                            *)
(*   - tagPosition() of src/app/src/services/api.ts, and the hook useMap   *)
(*     with the store and the storage it writes to (useDevices and         *)
(*     usePresence are the same code over two other values).               *)
(* A tag takes the devices that SerialRelay has ingested as its snapshot.  *)
(* A read of DynamoDB may be out of date, a write that raised may have     *)
(* been done.  Where ml cannot be imported, as in the Lambda that          *)
(* terraform deploys, no map is made.  Of map data the model keeps whose   *)
(* it is, and whether it is rows of the table or a heatmap.                *)
(* Bound: Sizes are the sizes of the instances that one run looks at.      *)
(***************************************************************************)
EXTENDS SerialRelay

CONSTANTS
    Sessions,
    RelaySession,   \* SESSION_ID of the serial bridge
    NoSession,      \* null
    Sizes           \* [lines, tags, loads, mapper]: how many of each there
                    \* are, and whether ml.models.env_mapper can be imported

ASSUME RelaySessionAssumption == RelaySession \in Sessions /\ NoSession \notin Sessions
ASSUME SizesAssumption ==
    Sizes \subseteq [lines : Nat, tags : Nat, loads : Nat, mapper : BOOLEAN]

VARIABLES
    size,           \* the size of this instance
    tags,           \* calls of tagPosition: [session, at, bare, map]
    rows,           \* the tags that are in the maps table
    maps,           \* the heatmaps that are in it: [session, of]
    pushes,         \* map_update messages on their way to the app
    current,        \* currentSession
    loads,          \* effects of useMap: [session, at, data]
    shown,          \* mapData: [of, kind]
    stored,         \* AsyncStorage: whose rows are under the key of a session
    stale, hurried, \* history: a query of create_position was out of date;
                    \* a session was selected while another one was loaded
    unmapped        \* history: tags answered 201 though their map was not
                    \* made, or its put raised

server == <<tags, rows, maps, pushes, stale, unmapped>>
app == <<current, loads, shown, stored, hurried>>
vars == <<relayVars, size, server, app>>

Nothing == [of |-> NoSession, kind |-> "none"]

Init ==
    /\ RelayInit
    /\ size \in Sizes
    /\ tags = <<>> /\ rows = {} /\ maps = {} /\ pushes = {} /\ stale = FALSE
    /\ unmapped = {}
    /\ current = NoSession /\ loads = <<>>
    /\ shown = Nothing /\ stored = [s \in Sessions |-> NoSession]
    /\ hurried = FALSE

-----------------------------------------------------------------------------
(* tagPosition().  The preview of the hook is of positions with a snapshot,
   and the position it has just made has none: there never is one. *)
Tag ==
    /\ current # NoSession /\ Len(tags) < size.tags
    /\ tags' = Append(tags, [session |-> current, at |-> "snapshot",
                             bare |-> TRUE, map |-> {}])
    /\ UNCHANGED <<relayVars, size, rows, maps, pushes, stale, unmapped, app>>

(* GET /api/devices; without an answer the snapshot is empty. *)
Visible(s) == s = RelaySession /\ \E m \in Macs : devices[m].count > 0

Snapshot(k) ==
    /\ tags[k].at = "snapshot"
    /\ \E bare \in {~Visible(tags[k].session), TRUE} :
          tags' = [tags EXCEPT ![k].at = "put", ![k].bare = bare]
    /\ UNCHANGED <<relayVars, size, rows, maps, pushes, stale, unmapped, app>>

(* create_position(): put_item, then query. *)
Put(k) ==
    /\ tags[k].at = "put"
    /\ rows' = rows \cup {k}
    /\ tags' = [tags EXCEPT ![k].at = "query"]
    /\ UNCHANGED <<relayVars, size, maps, pushes, stale, unmapped, app>>

RowsOf(s) == {k \in rows : tags[k].session = s}
Drawable(ks) == {k \in ks : ~tags[k].bare}

(* _generate_and_store_map needs three positions, EnvironmentMapper.fit
   three with a reading. *)
FourRows(ks) ==                                                 \* mutant
    Cardinality(ks) > 3 /\ Cardinality(Drawable(ks)) >= 3
Enough(ks) == Cardinality(ks) >= 3 /\ Cardinality(Drawable(ks)) >= 3

Query(k) ==
    /\ tags[k].at = "query"
    /\ \E missing \in SUBSET RowsOf(tags[k].session) :
          LET seen == RowsOf(tags[k].session) \ missing
          IN /\ tags' = IF Enough(seen)
                        THEN [tags EXCEPT ![k].at = "store", ![k].map = Drawable(seen)]
                        ELSE [tags EXCEPT ![k].at = "over"]
             /\ stale' = (stale \/ missing # {})
    /\ UNCHANGED <<relayVars, size, rows, maps, pushes, unmapped, app>>

MapOf(k) == [session |-> tags[k].session, of |-> tags[k].map]

(* _generate_and_store_map() with the positions of the query. *)
Store(k) ==
    /\ tags[k].at = "store" /\ size.mapper
    /\ maps' = maps \cup {MapOf(k)}
    /\ tags' = [tags EXCEPT ![k].at = "push"]
    /\ UNCHANGED <<relayVars, size, rows, pushes, stale, unmapped, app>>

(* It returns without a map: ml cannot be imported, the mapper raises, or
   the put does, done or not.  The answer is 201 with "map_generated". *)
MapFails(k) ==
    /\ tags[k].at = "store"
    /\ maps' \in {maps} \cup (IF size.mapper THEN {maps \cup {MapOf(k)}} ELSE {})
    /\ tags' = [tags EXCEPT ![k].at = "over"]
    /\ unmapped' = unmapped \cup {k}
    /\ UNCHANGED <<relayVars, size, rows, pushes, stale, app>>

(* _push_ws_map_update, to an app that is subscribed to the session or not *)
Push(k) ==
    /\ tags[k].at = "push"
    /\ pushes' \in {pushes, pushes \cup {MapOf(k)}}
    /\ tags' = [tags EXCEPT ![k].at = "over"]
    /\ UNCHANGED <<relayVars, size, rows, maps, stale, unmapped, app>>

(* Answer 500, or none: put_item or query raises, or the Lambda ends before
   its answer, what it had asked of DynamoDB last done or not. *)
Fails(k) ==
    /\ tags[k].at \in {"put", "query", "store", "push"}
    /\ rows' \in {rows} \cup (IF tags[k].at = "put" THEN {rows \cup {k}} ELSE {})
    /\ maps' \in {maps} \cup (IF tags[k].at = "store" /\ size.mapper
                              THEN {maps \cup {MapOf(k)}} ELSE {})
    /\ pushes' \in {pushes} \cup (IF tags[k].at = "push"
                                  THEN {pushes \cup {MapOf(k)}} ELSE {})
    /\ tags' = [tags EXCEPT ![k].at = "failed"]
    /\ UNCHANGED <<relayVars, size, stale, unmapped, app>>

-----------------------------------------------------------------------------
(* setCurrentSession, and the effect of useMap for the new session.  What
   is shown stays, and the effect of the old one runs on. *)
Loading == {i \in DOMAIN loads : loads[i].at \notin {"over", "failed"}}

Select(s) ==
    /\ s # current /\ Len(loads) < size.loads
    /\ current' = s
    /\ loads' = Append(loads, [session |-> s, at |-> "cache", data |-> NoSession])
    /\ hurried' = (hurried \/ Loading # {})
    /\ UNCHANGED <<relayVars, size, server, shown, stored>>

Load(i) == loads[i].session

ReadCache(i) ==
    /\ loads[i].at = "cache"
    /\ loads' = [loads EXCEPT ![i].at = "cached", ![i].data = stored[Load(i)]]
    /\ UNCHANGED <<relayVars, size, server, current, shown, stored, hurried>>

ShowCached(i) ==
    /\ loads[i].at = "cached"
    /\ shown' = IF loads[i].data = NoSession THEN shown
                ELSE [of |-> loads[i].data, kind |-> "rows"]
    /\ loads' = [loads EXCEPT ![i].at = "fetch"]
    /\ UNCHANGED <<relayVars, size, server, current, stored, hurried>>

(* get_map() answers with the rows, or the request fails. *)
GetMap(i) ==
    /\ loads[i].at = "fetch"
    /\ \/ loads' = [loads EXCEPT ![i].at = "answered", ![i].data = Load(i)]
       \/ loads' = [loads EXCEPT ![i].at = "failed"]
    /\ UNCHANGED <<relayVars, size, server, current, shown, stored, hurried>>

FirstStays(i) == IF shown = Nothing THEN [of |-> loads[i].data, kind |-> "rows"]
                 ELSE shown                                     \* mutant
Fetched(i) == [of |-> loads[i].data, kind |-> "rows"]

Key(i) == Load(i)

Arrive(i) ==
    /\ loads[i].at = "answered"
    /\ shown' = Fetched(i)
    /\ stored' \in {stored, [stored EXCEPT ![Key(i)] = loads[i].data]}
    /\ loads' = [loads EXCEPT ![i].at = "over"]
    /\ UNCHANGED <<relayVars, size, server, current, hurried>>

(* handleWebSocketMessage: a map_update is shown, of whatever session. *)
MapUpdate(p) ==
    /\ pushes' = pushes \ {p}
    /\ shown' = [of |-> p.session, kind |-> "heatmap"]
    /\ UNCHANGED <<relayVars, size, tags, rows, maps, stale, unmapped, current, loads,
                   stored, hurried>>

-----------------------------------------------------------------------------
Next ==
    \/ RelayNext /\ printed' <= size.lines /\ UNCHANGED <<size, server, app>>
    \/ Tag
    \/ \E k \in DOMAIN tags :
          \/ Snapshot(k) \/ Put(k) \/ Query(k) \/ Store(k) \/ MapFails(k)
          \/ Push(k) \/ Fails(k)
    \/ \E s \in Sessions : Select(s)
    \/ \E i \in DOMAIN loads : ReadCache(i) \/ ShowCached(i) \/ GetMap(i) \/ Arrive(i)
    \/ \E p \in pushes : MapUpdate(p)

Spec == Init /\ [][Next]_vars

-----------------------------------------------------------------------------
(* The values the variables take. *)
TypeOK ==
    /\ RelayTypeOK
    /\ size \in Sizes
    /\ tags \in Seq([session : Sessions, bare : BOOLEAN, map : SUBSET DOMAIN tags,
                    at : {"snapshot", "put", "query", "store", "push", "over", "failed"}])
    /\ rows \subseteq DOMAIN tags /\ unmapped \subseteq DOMAIN tags
    /\ maps \cup pushes \subseteq [session : Sessions, of : SUBSET DOMAIN tags]
    /\ current \in Sessions \cup {NoSession}
    /\ loads \in Seq([session : Sessions, data : Sessions \cup {NoSession},
                     at : {"cache", "cached", "fetch", "answered", "over", "failed"}])
    /\ shown \in [of : Sessions \cup {NoSession}, kind : {"none", "rows", "heatmap"}]
    /\ stored \in [Sessions -> Sessions \cup {NoSession}]
    /\ stale \in BOOLEAN /\ hurried \in BOOLEAN

TagsOf(s) == {k \in DOMAIN tags : tags[k].session = s}

(* "Heatmap builds up live as you tag": create_position() calls that run
   side by side each make a map of what they see.  When all of a session are
   over, none has failed and none read something out of date, one of them has
   taken every position that has a reading to the mapper, and its map is in
   the table, unless that very call could not make or store one. *)
MapCoversAll ==
    \A s \in Sessions :
        /\ ~stale
        /\ \A k \in TagsOf(s) : tags[k].at = "over"
        /\ Cardinality(Drawable(TagsOf(s))) >= 3
        => \E k \in TagsOf(s) :
               /\ tags[k].map = Drawable(TagsOf(s))
               /\ MapOf(k) \in maps \/ k \in unmapped

(* The storage of the app: whatever is selected when an answer arrives,
   what is kept under the key of a session are its rows. *)
StoredIsOwn == \A s \in Sessions : stored[s] \in {NoSession, s}

(* What the table of devices and the storage of the app hold. *)
DataInv == TypeOK /\ CountedAtMostOnce /\ StoredIsOwn

(* The map screen, once every load has ended well: unless a session was
   selected while another one was loaded, or a map_update came since, it
   shows the selected session. *)
SettledShowsSelected ==
    /\ ~hurried /\ shown.kind # "heatmap" /\ loads # <<>>
    /\ \A i \in DOMAIN loads : loads[i].at = "over"
    => shown = [of |-> current, kind |-> "rows"]
=============================================================================
