---------------------------- MODULE Preprocessor ----------------------------
(***************************************************************************)
(* The Lambda that takes observation windows off the Kinesis stream        *)
(* (src/backend/handlers/preprocessor.py), and the event source mapping    *)
(* that calls it (src/terraform/modules/lambda/main.tf).                   *)
(*                                                                         *)
(* One shard, so one invocation at a time, record by record and store by   *)
(* store.  A store may fail with a ClientError, which is logged, or with   *)
(* another exception, which ends the record and is counted; neither fails  *)
(* the invocation.  What does is a crash: out of time, out of memory.  The *)
(* batch is then halved, or delivered again, or goes to the dead-letter    *)
(* queue.  The WebSocket and SageMaker steps are left out: as deployed,    *)
(* WEBSOCKET_CONNECTIONS_TABLE and SAGEMAKER_ENDPOINT are not set, and     *)
(* both return at once.                                                    *)
(* Its sessions are those of SessionsTable, where create_session() works   *)
(* on the same rows.  Bound: Stream is the whole stream.                   *)
(***************************************************************************)
EXTENDS SessionsTable, Integers, Sequences, FiniteSets

CONSTANTS
    Stream,         \* the records: [kind, session, macs]
    Macs,
    BatchSize,      \* batch_size
    MaxTries        \* 1 + maximum_retry_attempts

ASSUME StreamAssumption ==
    Stream \in Seq([kind : {"window", "empty", "malformed"},
                    session : Ids, macs : SUBSET Macs])
ASSUME BoundsAssumption == BatchSize \in Nat \ {0} /\ MaxTries \in Nat \ {0}

VARIABLES
    next,           \* the first record the mapping has not fetched
    batches,        \* the batches to deliver, in order; the first is delivered
    at,             \* the record the handler is at, 0 when it does not run
    step,           \* the step it is at
    left,           \* the devices of that record it has still to store
    on,             \* the container it runs in, or ran in last
    tracks,         \* device_tracks: the record a device was stored from
    presence,       \* how many presence events a record has
    outcome,        \* how the last delivery of a record ended
    dlq,            \* the records in the dead-letter queue
    hist            \* history: what failed so far

stores == <<tracks, presence>>
vars == <<sessionsVars, next, batches, at, step, left, on, stores, outcome, dlq, hist>>

Records == 1..Len(Stream)
SessionOf(r) == Stream[r].session
Current == Head(batches)
InBatches == UNION {batches[i].first..batches[i].last : i \in DOMAIN batches}

Init ==
    /\ SessionsInit
    /\ next = 1
    /\ batches = <<>>
    /\ at = 0
    /\ step = "none"
    /\ left = {}
    /\ on \in Containers
    /\ tracks = [sm \in Ids \X Macs |-> 0]
    /\ presence = [r \in Records |-> 0]
    /\ outcome = [r \in Records |-> "none"]
    /\ dlq = {}
    /\ hist = [crashed |-> FALSE, unstored |-> {}, unregistered |-> {}]

-----------------------------------------------------------------------------
(* The event source mapping *)

Fetch ==
    /\ batches = <<>>
    /\ next \in Records
    /\ \E last \in next..Len(Stream) :
          /\ last < next + BatchSize
          /\ batches' = <<[first |-> next, last |-> last, tries |-> 1]>>
          /\ next' = last + 1
    /\ UNCHANGED <<sessionsVars, at, step, left, on, stores, outcome, dlq, hist>>

Invoke ==
    /\ at = 0
    /\ batches # <<>>
    /\ at' = Current.first
    /\ step' = "decode"
    /\ on' \in Containers
    /\ UNCHANGED <<sessionsVars, next, batches, left, stores, outcome, dlq, hist>>

(* The invocation ends in the middle; a new container takes over.  A batch
   of more than one record is halved, at no cost of a retry. *)
Halves ==
    LET mid == (Current.first + Current.last) \div 2
    IN <<[Current EXCEPT !.last = mid], [Current EXCEPT !.first = mid + 1]>>

Crash ==
    /\ at # 0
    /\ at' = 0
    /\ step' = "none"
    /\ left' = {}
    /\ ColdStart(on)
    /\ hist' = [hist EXCEPT !.crashed = TRUE]
    /\ \/ /\ Current.first < Current.last
          /\ batches' = Halves \o Tail(batches)
          /\ UNCHANGED dlq
       \/ /\ Current.first = Current.last
          /\ Current.tries < MaxTries
          /\ batches' = [batches EXCEPT ![1].tries = @ + 1]
          /\ UNCHANGED dlq
       \/ /\ Current.first = Current.last
          /\ Current.tries = MaxTries
          /\ batches' = Tail(batches)
          /\ dlq' = dlq \cup {Current.first}
    /\ UNCHANGED <<next, on, stores, outcome>>

-----------------------------------------------------------------------------
(* handler() *)

(* The record is counted, and the loop goes on or the handler returns. *)
EndRecord(result) ==
    /\ outcome' = [outcome EXCEPT ![at] = result]
    /\ left' = {}
    /\ IF at = Current.last
       THEN at' = 0 /\ step' = "none" /\ batches' = Tail(batches)
       ELSE at' = at + 1 /\ step' = "decode" /\ UNCHANGED batches

(* Mutant: a record that cannot be decoded fails the invocation, for ever. *)
DecodeRaises ==
    /\ step = "decode"
    /\ at' = 0
    /\ step' = "none"
    /\ UNCHANGED <<sessionsVars, next, batches, left, on, stores, outcome, dlq, hist>>

(* _decode_record, _validate, and the test for observations. *)
Decode ==
    /\ step = "decode"
    /\ CASE Stream[at].kind = "malformed" -> EndRecord("failed")
         [] Stream[at].kind = "empty" -> EndRecord("skipped")
         [] Stream[at].kind = "window" ->
                step' = "session" /\ UNCHANGED <<at, left, batches, outcome>>
    /\ UNCHANGED <<sessionsVars, next, on, stores, dlq, hist>>

(* _ensure_session *)
EnsureSession ==
    /\ step = "session"
    /\ step' = "archive"
    /\ \/ SessionOf(at) \in cache[on] /\ UNCHANGED <<sessionsVars, hist>>
       \/ Ensure(on, SessionOf(at)) /\ UNCHANGED hist
       \/ /\ EnsureFails(on, SessionOf(at))
          /\ hist' = [hist EXCEPT !.unregistered = @ \cup {SessionOf(at)}]
    /\ UNCHANGED <<next, batches, at, left, on, stores, outcome, dlq>>

(* _archive_to_s3; nothing reads the archive, which is left out. *)
ArchiveToS3 ==
    /\ step = "archive"
    /\ step' = "tracks"
    /\ left' = Stream[at].macs
    /\ UNCHANGED <<sessionsVars, next, batches, at, on, stores, outcome, dlq, hist>>

(* _store_device_tracks, one put_item per device of the window. *)
TrackOf(m) == at
StoreDeviceTrack(m) ==
    /\ step = "tracks"
    /\ m \in left
    /\ left' = left \ {m}
    /\ tracks' = [tracks EXCEPT ![<<SessionOf(at), m>>] = TrackOf(m)]
    /\ UNCHANGED <<sessionsVars, next, batches, at, step, on, presence, outcome, dlq, hist>>

DeviceTrackFails(m) ==
    /\ step = "tracks"
    /\ m \in left
    /\ left' = left \ {m}
    /\ hist' = [hist EXCEPT !.unstored = @ \cup {at}]
    /\ UNCHANGED <<sessionsVars, next, batches, at, step, on, stores, outcome, dlq>>

(* _store_presence_events: a new uuid makes a new event of every delivery. *)
StorePresence ==
    /\ step = "tracks"
    /\ left = {}
    /\ \/ presence' = [presence EXCEPT ![at] = @ + 1]
       \/ UNCHANGED presence
    /\ EndRecord("processed")
    /\ UNCHANGED <<sessionsVars, next, on, tracks, dlq, hist>>

(* except Exception: a step raises something else than a ClientError, say a
   time-out of a put_item, which may have been applied. *)
StepRaises ==
    /\ step \in {"session", "archive", "tracks"}
    /\ IF step = "session"
       THEN EnsureRaises(on, SessionOf(at))
       ELSE UNCHANGED sessionsVars
    /\ tracks' \in {tracks} \cup
          {[tracks EXCEPT ![<<SessionOf(at), m>>] = TrackOf(m)] : m \in left}
    /\ presence' \in {presence} \cup
          (IF step = "tracks" /\ left = {} THEN {[presence EXCEPT ![at] = @ + 1]} ELSE {})
    /\ EndRecord("failed")
    /\ UNCHANGED <<next, on, dlq, hist>>

Handler ==
    \/ Decode \/ EnsureSession \/ ArchiveToS3 \/ StorePresence \/ StepRaises
    \/ \E m \in Macs : StoreDeviceTrack(m) \/ DeviceTrackFails(m)

-----------------------------------------------------------------------------
CreateSession(k) ==
    /\ Create(k)
    /\ UNCHANGED <<next, batches, at, step, left, on, stores, outcome, dlq, hist>>

Next ==
    \/ Fetch \/ Invoke \/ Crash \/ Handler
    \/ \E k \in Calls : CreateSession(k)

Spec == Init /\ [][Next]_vars

(* The mapping polls and calls, and the Lambda runs. *)
FairSpec == Spec /\ WF_vars(Fetch) /\ WF_vars(Invoke) /\ WF_vars(Handler)

-----------------------------------------------------------------------------
(* The variables hold what the code can put into them. *)
TypeOK ==
    /\ SessionsTypeOK
    /\ next \in 1..(Len(Stream) + 1)
    /\ batches \in Seq([first : Records, last : Records, tries : 1..MaxTries])
    /\ at \in Records \cup {0}
    /\ step \in {"none", "decode", "session", "archive", "tracks"}
    /\ left \in SUBSET Macs
    /\ on \in Containers
    /\ tracks \in [Ids \X Macs -> Records \cup {0}]
    /\ presence \in [Records -> Nat]
    /\ outcome \in [Records -> {"none", "processed", "failed", "skipped"}]
    /\ dlq \in SUBSET Records
    /\ hist \in [crashed : BOOLEAN, unstored : SUBSET Records, unregistered : SUBSET Ids]
    /\ at # 0 => at \in Current.first..Current.last

(* At least once: every record that was fetched is in one batch that is
   still to be delivered, or was gone through by the loop, or is in the
   dead-letter queue; batches follow each other as the records do. *)
Accounted ==
    /\ \A i \in DOMAIN batches : batches[i].first <= batches[i].last
    /\ \A i \in 1..(Len(batches) - 1) : batches[i + 1].first = batches[i].last + 1
    /\ batches # <<>> => batches[Len(batches)].last = next - 1
    /\ \A r \in 1..(next - 1) : r \in InBatches \cup dlq \/ outcome[r] # "none"

(* A device is tracked under a registered session, unless the put_item of
   that session failed with a ClientError. *)
TrackedIsRegistered ==
    \A s \in Ids, m \in Macs :
        tracks[<<s, m>>] # 0 => table[s] # NoItem \/ s \in hist.unregistered

(* As long as no crash had records delivered again, a device's track is never
   older than the last window that was processed and had it, unless its
   put_item failed, and a window makes one presence event. *)
StoresFollow ==
    ~hist.crashed =>
        /\ \A r \in Records \ hist.unstored :
              outcome[r] = "processed" =>
                  \A m \in Stream[r].macs : tracks[<<SessionOf(r), m>>] >= r
        /\ \A r \in Records : presence[r] <= 1

(* No record is lost track of, and the stores follow what was delivered. *)
IngestInv == TypeOK /\ Accounted /\ TrackedIsRegistered /\ StoresFollow

(* The stream is gone through, whatever fails and crashes. *)
Drains == <>(next > Len(Stream) /\ batches = <<>>)
=============================================================================
