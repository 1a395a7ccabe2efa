------------------------- MODULE PreprocessorProofs -------------------------
(***************************************************************************)
(* Proofs about Preprocessor and the SessionsTable it works on.  The       *)
(* invariant of the runs is not inductive: it is strengthened with where   *)
(* the handler is, what it went through before, what of the stream nobody  *)
(* has touched yet, and why a session it stores devices of is registered.  *)
(***************************************************************************)
EXTENDS Preprocessor, SequenceTheorems, TLAPS

Registered(s) == table[s] # NoItem \/ s \in hist.unregistered

(* The handler runs on the first batch; devices are left in one step only. *)
HandlerOK ==
    /\ at = 0 <=> step = "none"
    /\ at # 0 => batches # <<>>
    /\ step # "tracks" => left = {}
    /\ step = "tracks" => left \subseteq Stream[at].macs

(* What the batch had before the current record has been gone through. *)
GoneThrough ==
    at # 0 => \A r \in Records : Current.first <= r /\ r < at => outcome[r] # "none"

(* A session that is in a cache, or past its step, was registered or failed. *)
SessionsDone ==
    /\ \A l \in Containers : \A s \in cache[l] : Registered(s)
    /\ step \in {"archive", "tracks"} => Registered(SessionOf(at))

(* The first record that has not been gone through, if nothing crashed. *)
Front == IF at # 0 THEN at ELSE IF batches # <<>> THEN Current.first ELSE next

Untouched ==
    ~hist.crashed =>
        \A r \in Records : r >= Front => outcome[r] = "none" /\ presence[r] = 0

(* The devices of the current record that are not left are stored. *)
StoredSoFar ==
    step = "tracks" /\ at \notin hist.unstored =>
        \A m \in Stream[at].macs \ left : tracks[<<SessionOf(at), m>>] = at

SawNothing == \A k \in Calls : call[k] = "put" => saw[k] \in {NoItem, Blind}

IInv ==
    /\ TypeOK /\ Accounted /\ TrackedIsRegistered /\ StoresFollow
    /\ HandlerOK /\ GoneThrough /\ SessionsDone /\ Untouched /\ StoredSoFar /\ SawNothing

-----------------------------------------------------------------------------
(* The sessions. *)

USE NoItemAssumption DEF NoItemAssumption

LEMMA SessionsStart == SessionsInit => SessionsTypeOK /\ SawNothing
  BY DEF SessionsInit, SessionsTypeOK, SawNothing, Items

(* What one step of the table's writers keeps and never does. *)
SessionsKept ==
    /\ SessionsTypeOK' /\ SawNothing'
    /\ \A s \in Ids : table[s] # NoItem => table'[s] # NoItem
    /\ \A s \in Ids :
          table[s] # NoItem /\ table'[s] # table[s] =>
              \E k \in Calls :
                  /\ table'[s] = k /\ sid[k] = s
                  /\ call[k] = "put" /\ saw[k] \in {NoItem, Blind}

LEMMA SessionsStep ==
    ASSUME SessionsTypeOK, SawNothing, [SessionsNext]_sessionsVars
    PROVE  SessionsKept
  <1> USE DEF SessionsKept, SessionsTypeOK, SawNothing, Items
  <1>1. CASE UNCHANGED sessionsVars
    BY <1>1 DEF sessionsVars
  <1>2. ASSUME NEW k \in Calls, CreateGet(k) PROVE SessionsKept
    BY <1>2 DEF CreateGet, Exists
  <1>3. ASSUME NEW k \in Calls, CreateGetFails(k) PROVE SessionsKept
    BY <1>3 DEF CreateGetFails, Blind
  <1>4. ASSUME NEW k \in Calls, CreatePut(k) PROVE SessionsKept
    BY <1>4 DEF CreatePut
  <1>5. ASSUME NEW k \in Calls, CreatePutFails(k) PROVE SessionsKept
    BY <1>5 DEF CreatePutFails
  <1>6. ASSUME NEW l \in Containers, NEW s \in Ids,
               Ensure(l, s) \/ EnsureFails(l, s) \/ EnsureRaises(l, s)
        PROVE  SessionsKept
    BY <1>6 DEF Ensure, EnsureFails, EnsureRaises, PutIfAbsent
  <1>7. ASSUME NEW l \in Containers, ColdStart(l) PROVE SessionsKept
    BY <1>7 DEF ColdStart
  <1> QED
    BY <1>1, <1>2, <1>3, <1>4, <1>5, <1>6, <1>7 DEF SessionsNext, Create

-----------------------------------------------------------------------------
(* Records, batches, and the steps that only concern them. *)

USE StreamAssumption, BoundsAssumption DEF StreamAssumption, BoundsAssumption

Batch == [first : Records, last : Records, tries : 1..MaxTries]

LEMMA StreamFacts ==
    /\ Len(Stream) \in Nat /\ Records \subseteq Nat \ {0}
    /\ \A r \in Records :
          /\ SessionOf(r) \in Ids /\ Stream[r].macs \subseteq Macs
          /\ Stream[r].kind \in {"window", "empty", "malformed"}
  <1>1. Len(Stream) \in Nat /\ Records \subseteq Nat \ {0}
    BY DEF Records
  <1>2. ASSUME NEW r \in Records
        PROVE  Stream[r] \in [kind : {"window", "empty", "malformed"},
                              session : Ids, macs : SUBSET Macs]
    <2> DEFINE Rec == [kind : {"window", "empty", "malformed"},
                       session : Ids, macs : SUBSET Macs]
    <2>1. Stream \in Seq(Rec)
      BY StreamAssumption
    <2>2. r \in 1..Len(Stream)
      BY <1>2 DEF Records
    <2> HIDE DEF Rec
    <2>3. Stream[r] \in Rec
      BY <2>1, <2>2, ElementOfSeq
    <2> QED
      BY <2>3 DEF Rec
  <1> QED
    BY <1>1, <1>2 DEF SessionOf

LEMMA BatchFacts ==
    ASSUME NEW bs \in Seq(Batch), bs # <<>>
    PROVE  /\ Len(bs) \in Nat \ {0} /\ bs[1] \in Batch /\ Head(bs) = bs[1]
           /\ Tail(bs) \in Seq(Batch) /\ Len(Tail(bs)) = Len(bs) - 1
           /\ \A i \in 1..(Len(bs) - 1) : Tail(bs)[i] = bs[i + 1]
           /\ Tail(bs) = <<>> <=> Len(bs) = 1
  <1>1. /\ Len(bs) \in Nat \ {0} /\ bs[1] \in Batch /\ Head(bs) = bs[1]
        /\ Tail(bs) \in Seq(Batch) /\ Len(Tail(bs)) = Len(bs) - 1
        /\ \A i \in 1..(Len(bs) - 1) : Tail(bs)[i] = bs[i + 1]
    OBVIOUS
  <1>2. Tail(bs) = <<>> <=> Len(Tail(bs)) = 0
    BY <1>1, EmptySeq
  <1> QED
    BY <1>1, <1>2

LEMMA AtFacts ==
    ASSUME TypeOK, HandlerOK, at # 0
    PROVE  /\ at \in Records /\ at \in Nat /\ SessionOf(at) \in Ids
           /\ Stream[at].macs \subseteq Macs
           /\ batches \in Seq(Batch) /\ batches # <<>> /\ Current = batches[1]
           /\ Current \in Batch /\ at \in Current.first..Current.last
  <1>1. batches \in Seq(Batch) /\ batches # <<>>
    BY DEF TypeOK, HandlerOK, Batch
  <1> QED
    BY <1>1, BatchFacts, StreamFacts DEF TypeOK, Current

LEMMA InBatchesFact ==
    ASSUME NEW r
    PROVE  r \in InBatches <=> \E i \in DOMAIN batches : r \in batches[i].first..batches[i].last
  BY DEF InBatches

LEMMA Starts == Init => IInv
  <1> SUFFICES ASSUME Init PROVE IInv
    OBVIOUS
  <1>1. SessionsTypeOK /\ SawNothing
    BY SessionsStart DEF Init
  <1>2. TypeOK
    BY <1>1, StreamFacts DEF Init, TypeOK, Records
  <1>3. Accounted
    BY DEF Init, Accounted
  <1>4. TrackedIsRegistered /\ StoresFollow
    BY DEF Init, TrackedIsRegistered, StoresFollow
  <1>5. HandlerOK /\ GoneThrough /\ SessionsDone /\ Untouched /\ StoredSoFar
    BY DEF Init, HandlerOK, GoneThrough, SessionsDone, Untouched, StoredSoFar, SessionsInit
  <1> QED
    BY <1>1, <1>2, <1>3, <1>4, <1>5 DEF IInv

(* What the ingest Lambda does to the sessions is a step of their table. *)
LEMMA NextSessions ==
    ASSUME TypeOK, HandlerOK, [Next]_vars
    PROVE  [SessionsNext]_sessionsVars
  <1>1. CASE UNCHANGED sessionsVars
    BY <1>1
  <1>2. CASE Crash
    BY <1>2 DEF Crash, SessionsNext, TypeOK
  <1>3. ASSUME step # "none",
               Ensure(on, SessionOf(at)) \/ EnsureFails(on, SessionOf(at))
                 \/ EnsureRaises(on, SessionOf(at))
        PROVE  SessionsNext
    BY <1>3, AtFacts DEF SessionsNext, TypeOK, HandlerOK
  <1>4. CASE EnsureSession
    BY <1>3, <1>4 DEF EnsureSession
  <1>5. CASE StepRaises
    BY <1>3, <1>5 DEF StepRaises
  <1>6. ASSUME NEW k \in Calls, CreateSession(k) PROVE SessionsNext
    BY <1>6 DEF CreateSession, SessionsNext
  <1>7. CASE Fetch \/ Invoke \/ Decode \/ ArchiveToS3 \/ StorePresence
    BY <1>7 DEF Fetch, Invoke, Decode, ArchiveToS3, StorePresence, sessionsVars
  <1>8. CASE \E m \in Macs : StoreDeviceTrack(m) \/ DeviceTrackFails(m)
    BY <1>8 DEF StoreDeviceTrack, DeviceTrackFails, sessionsVars
  <1>9. CASE UNCHANGED vars
    BY <1>9 DEF vars
  <1> QED
    BY <1>1, <1>2, <1>4, <1>5, <1>6, <1>7, <1>8, <1>9 DEF Next, Handler

LEMMA RegisteredGrows ==
    ASSUME SessionsKept, hist.unregistered \subseteq hist'.unregistered
    PROVE  \A s \in Ids : Registered(s) => Registered(s)'
  BY DEF SessionsKept, Registered

LEMMA EndRecordKeeps ==
    ASSUME IInv, at # 0, NEW result \in {"processed", "failed", "skipped"},
           EndRecord(result), UNCHANGED <<next, dlq>>
    PROVE  /\ at' \in Records \cup {0} /\ step' \in {"none", "decode"} /\ left' = {}
           /\ batches' \in Seq(Batch)
           /\ outcome' = [outcome EXCEPT ![at] = result]
           /\ outcome' \in [Records -> {"none", "processed", "failed", "skipped"}]
           /\ at' # 0 => batches' # <<>> /\ at' \in (Current.first..Current.last)'
           /\ at' = 0 <=> step' = "none"
           /\ Accounted' /\ GoneThrough' /\ Front' = at + 1
  <1>1. /\ at \in Records /\ at \in Nat /\ batches \in Seq(Batch) /\ batches # <<>>
        /\ Current = batches[1] /\ Current \in Batch /\ at \in Current.first..Current.last
    BY AtFacts DEF IInv
  <1>2. /\ Len(batches) \in Nat \ {0}
        /\ Tail(batches) \in Seq(Batch) /\ Len(Tail(batches)) = Len(batches) - 1
        /\ \A i \in 1..(Len(batches) - 1) : Tail(batches)[i] = batches[i + 1]
        /\ Tail(batches) = <<>> <=> Len(batches) = 1
    BY <1>1, BatchFacts
  <1>3. /\ outcome' = [outcome EXCEPT ![at] = result]
        /\ outcome' \in [Records -> {"none", "processed", "failed", "skipped"}]
        /\ left' = {}
    BY <1>1 DEF EndRecord, IInv, TypeOK
  <1>4. \A r \in Records : outcome[r] # "none" => outcome'[r] # "none"
    BY <1>1, <1>3 DEF IInv, TypeOK
  <1>5. outcome'[at] # "none"
    BY <1>1, <1>3 DEF IInv, TypeOK
  <1>6. /\ \A i \in 1..Len(batches) : batches[i] \in Batch /\ batches[i].first <= batches[i].last
        /\ \A i \in 1..(Len(batches) - 1) : batches[i + 1].first = batches[i].last + 1
        /\ batches[Len(batches)].last = next - 1
        /\ next \in 1..(Len(Stream) + 1)
    <2>1. \A i \in 1..Len(batches) : batches[i] \in Batch
      BY <1>1
    <2>2. DOMAIN batches = 1..Len(batches)
      BY <1>1
    <2>3. next \in 1..(Len(Stream) + 1)
      BY DEF IInv, TypeOK
    <2> QED
      BY <1>1, <2>1, <2>2, <2>3 DEF IInv, Accounted
  <1>7. \A r \in 1..(next - 1) :
           r \in dlq \/ outcome[r] # "none"
             \/ \E i \in 1..Len(batches) : r \in batches[i].first..batches[i].last
    BY <1>1, InBatchesFact DEF IInv, Accounted
  <1>8. 1..(next - 1) \subseteq Records /\ Len(Stream) \in Nat
    BY <1>6, StreamFacts DEF Records
  <1>a. CASE at = Current.last
    <2>1. at' = 0 /\ step' = "none" /\ batches' = Tail(batches)
      BY <1>a DEF EndRecord
    <2>2. \A r \in 1..(next - 1) :
             r \in dlq \/ outcome'[r] # "none"
               \/ \E i \in 1..Len(batches') : r \in batches'[i].first..batches'[i].last
      <3> TAKE r \in 1..(next - 1)
      <3>1. CASE r \in dlq \/ outcome[r] # "none"
        BY <3>1, <1>4, <1>8
      <3>2. CASE r \in batches[1].first..batches[1].last
        <4>1. outcome[r] # "none" \/ r = at
          BY <3>2, <1>1, <1>a, <1>8, StreamFacts DEF IInv, GoneThrough, Batch
        <4> QED
          BY <4>1, <1>4, <1>5, <1>8
      <3>3. ASSUME NEW i \in 1..Len(batches), i # 1, r \in batches[i].first..batches[i].last
            PROVE  \E j \in 1..Len(batches') : r \in batches'[j].first..batches'[j].last
        <4>1. i - 1 \in 1..Len(batches') /\ batches'[i - 1] = batches[i]
          BY <3>3, <2>1, <1>2
        <4> QED
          BY <4>1, <3>3
      <3> QED
        BY <3>1, <3>2, <3>3, <1>7, <1>2
    <2>3. /\ \A i \in 1..Len(batches') : batches'[i].first <= batches'[i].last
          /\ \A i \in 1..(Len(batches') - 1) : batches'[i + 1].first = batches'[i].last + 1
          /\ batches' # <<>> => batches'[Len(batches')].last = next - 1
      BY <2>1, <1>2, <1>6
    <2>4. DOMAIN batches' = 1..Len(batches')
      BY <2>1, <1>2
    <2>5. Accounted'
      BY <2>2, <2>3, <2>4, InBatchesFact DEF Accounted, InBatches
    <2>6. Front' = at + 1
      <3>1. CASE Tail(batches) = <<>>
        <4>1. Len(batches) = 1
          BY <3>1, <1>2
        <4>2. next = at + 1
          BY <4>1, <1>6, <1>1, <1>a
        <4> QED
          BY <4>2, <2>1, <3>1 DEF Front
      <3>2. CASE Tail(batches) # <<>>
        <4>1. Len(batches) > 1 /\ Head(Tail(batches)) = batches[2]
          BY <3>2, <1>2, BatchFacts
        <4>2. batches[2].first = batches[1].last + 1
          BY <4>1, <1>6, <1>2
        <4> QED
          BY <4>1, <4>2, <2>1, <3>2, <1>1, <1>a DEF Front, Current
      <3> QED
        BY <3>1, <3>2
    <2> QED
      BY <2>1, <2>5, <2>6, <1>2, <1>3 DEF GoneThrough
  <1>b. CASE at # Current.last
    <2>1. at' = at + 1 /\ step' = "decode" /\ batches' = batches
      BY <1>b DEF EndRecord
    <2>2. at + 1 \in Records /\ at + 1 \in Current.first..Current.last
      BY <1>1, <1>b, StreamFacts DEF Batch, Records
    <2>3. Accounted'
      BY <2>1, <1>4, <1>8 DEF IInv, Accounted, InBatches
    <2>4. GoneThrough'
      <3> SUFFICES ASSUME NEW r \in Records, Current.first <= r, r < at + 1
                   PROVE  outcome'[r] # "none"
        BY <2>1 DEF GoneThrough, Current
      <3>1. r < at \/ r = at
        BY <1>1, StreamFacts
      <3> QED
        BY <3>1, <1>1, <1>4, <1>5 DEF IInv, GoneThrough
    <2> QED
      BY <2>1, <2>2, <2>3, <2>4, <1>1, <1>3 DEF Front, Current
  <1> QED
    BY <1>a, <1>b

-----------------------------------------------------------------------------
(* One lemma per action. *)

(* The handler and the stores stand still while create_session() runs. *)
LEMMA SessionsOnly ==
    ASSUME IInv, SessionsKept, cache' = cache,
           UNCHANGED <<next, batches, at, step, left, on, stores, outcome, dlq, hist>>
    PROVE  IInv'
  <1>1. \A s \in Ids : Registered(s) => Registered(s)'
    BY RegisteredGrows
  <1>2. TypeOK' /\ SawNothing'
    BY DEF IInv, TypeOK, SessionsKept, stores, Current
  <1>3. Accounted' /\ StoresFollow' /\ HandlerOK' /\ GoneThrough' /\ Untouched' /\ StoredSoFar'
    BY DEF IInv, Accounted, StoresFollow, HandlerOK, GoneThrough, Untouched, StoredSoFar,
           stores, Current, InBatches, Front
  <1>4. TrackedIsRegistered'
    BY <1>1 DEF IInv, TrackedIsRegistered, Registered, stores
  <1>5. step \in {"archive", "tracks"} => SessionOf(at) \in Ids
    BY AtFacts DEF IInv, HandlerOK
  <1>6. cache \in [Containers -> SUBSET Ids]
    BY DEF IInv, TypeOK, SessionsTypeOK
  <1>7. SessionsDone'
    BY <1>1, <1>5, <1>6 DEF IInv, SessionsDone
  <1> QED
    BY <1>2, <1>3, <1>4, <1>7 DEF IInv

(* What a step that leaves the sessions alone has of them. *)
LEMMA SessionsSame ==
    ASSUME IInv, UNCHANGED <<sessionsVars, tracks, hist>>
    PROVE  SessionsTypeOK' /\ SawNothing' /\ TrackedIsRegistered'
           /\ \A l \in Containers : \A s \in cache'[l] : Registered(s)'
  BY DEF IInv, TypeOK, SessionsTypeOK, SawNothing, TrackedIsRegistered, SessionsDone,
         Registered, sessionsVars

LEMMA FetchKeeps == ASSUME IInv, Fetch PROVE IInv'
  <1>1. /\ batches = <<>> /\ next \in Records /\ at = 0 /\ at' = 0
        /\ UNCHANGED <<sessionsVars, at, step, left, on, tracks, presence, outcome, dlq, hist>>
    BY DEF Fetch, IInv, HandlerOK, stores
  <1>2. PICK last \in next..Len(Stream) :
           batches' = <<[first |-> next, last |-> last, tries |-> 1]>> /\ next' = last + 1
    BY DEF Fetch
  <1>3. last \in Records /\ last \in Nat /\ next \in Nat /\ next <= last
        /\ Len(Stream) \in Nat /\ next' \in 1..(Len(Stream) + 1) /\ 1 \in 1..MaxTries
    BY <1>1, <1>2, StreamFacts DEF Records
  <1> DEFINE b == [first |-> next, last |-> last, tries |-> 1]
  <1>4. b \in Batch /\ b.first = next /\ b.last = last
    BY <1>1, <1>3 DEF Batch
  <1> HIDE DEF b
  <1>5. /\ batches' \in Seq(Batch) /\ DOMAIN batches' = 1..1 /\ Len(batches') = 1
        /\ batches'[1] = b /\ Head(batches') = b /\ batches' # <<>>
    BY <1>2, <1>4 DEF b
  <1>6. TypeOK'
    BY <1>1, <1>3, <1>5, SessionsSame DEF IInv, TypeOK, Batch
  <1>7. \A r \in 1..(next' - 1) : r \in InBatches' \cup dlq \/ outcome[r] # "none"
    <2> TAKE r \in 1..(next' - 1)
    <2>1. CASE r < next
      <3>1. r \in InBatches \cup dlq \/ outcome[r] # "none"
        BY <2>1, <1>2, <1>3 DEF IInv, Accounted
      <3> QED
        BY <3>1, <1>1, InBatchesFact
    <2>2. CASE r >= next
      BY <2>2, <1>2, <1>3, <1>4, <1>5 DEF InBatches
    <2> QED
      BY <2>1, <2>2, <1>2, <1>3
  <1>8. Accounted'
    BY <1>1, <1>2, <1>3, <1>4, <1>5, <1>7 DEF Accounted
  <1>9. Front' = Front
    BY <1>1, <1>4, <1>5 DEF Front, Current
  <1>10. StoresFollow' /\ Untouched' /\ StoredSoFar' /\ HandlerOK' /\ GoneThrough'
    BY <1>1, <1>5, <1>9 DEF IInv, StoresFollow, Untouched, StoredSoFar, HandlerOK, GoneThrough
  <1>11. SessionsDone'
    BY <1>1, SessionsSame DEF IInv, SessionsDone, HandlerOK
  <1> QED
    BY <1>1, <1>6, <1>8, <1>10, <1>11, SessionsSame DEF IInv

LEMMA InvokeKeeps == ASSUME IInv, Invoke PROVE IInv'
  <1>1. /\ at = 0 /\ batches # <<>> /\ at' = Current.first /\ step' = "decode"
        /\ step = "none" /\ left = {} /\ on' \in Containers
        /\ UNCHANGED <<sessionsVars, next, batches, left, tracks, presence, outcome, dlq, hist>>
    BY DEF Invoke, IInv, HandlerOK, stores
  <1>2. batches \in Seq(Batch)
    BY DEF IInv, TypeOK, Batch
  <1>3. /\ Current = batches[1] /\ Current \in Batch /\ 1 \in DOMAIN batches
    BY <1>1, <1>2, BatchFacts DEF Current
  <1>4. /\ Current.first \in Records /\ Current.last \in Records
        /\ Current.first <= Current.last /\ Current.first \in Nat \ {0} /\ Current.last \in Nat
    <2>1. Current.first \in Records /\ Current.last \in Records
      BY <1>3 DEF Batch
    <2>2. Current.first <= Current.last
      BY <1>3 DEF IInv, Accounted
    <2> QED
      BY <2>1, <2>2, StreamFacts
  <1>5. TypeOK'
    <2>1. SessionsTypeOK'
      BY <1>1, SessionsSame
    <2>2. Current' = Current /\ (at # 0 => at \in Current.first..Current.last)'
      BY <1>1, <1>4 DEF Current
    <2>3. at' \in Records \cup {0} /\ on' \in Containers /\ left' \in SUBSET Macs
      BY <1>1, <1>4
    <2>4. TypeOK
      BY DEF IInv
    <2> QED
      BY <1>1, <2>1, <2>2, <2>3, <2>4 DEF TypeOK
  <1>6. Front' = Front
    BY <1>1, <1>4 DEF Front, Current
  <1>7. Accounted' /\ StoresFollow' /\ Untouched' /\ StoredSoFar' /\ HandlerOK'
    <2>1. Accounted' /\ HandlerOK'
      BY <1>1, <1>4 DEF IInv, Accounted, InBatches, HandlerOK
    <2>2. StoresFollow' /\ Untouched' /\ StoredSoFar'
      BY <1>1, <1>6 DEF IInv, StoresFollow, Untouched, StoredSoFar
    <2> QED
      BY <2>1, <2>2
  <1>8. GoneThrough'
    <2>0. Records \subseteq Nat
      BY StreamFacts
    <2>1. \A r \in Records : ~ (Current.first <= r /\ r < Current.first)
      BY <1>4, <2>0
    <2>2. at' = Current.first /\ Current' = Current
      BY <1>1 DEF Current
    <2> QED
      BY <2>1, <2>2 DEF GoneThrough
  <1>9. SessionsDone'
    BY <1>1, SessionsSame DEF SessionsDone
  <1> QED
    BY <1>1, <1>5, <1>7, <1>8, <1>9, SessionsSame DEF IInv

(* The invocation ends on a batch of one or more records. *)
LEMMA CrashKeeps == ASSUME IInv, SessionsKept, Crash PROVE IInv'
  <1>1. /\ at # 0 /\ at' = 0 /\ step' = "none" /\ left' = {} /\ ColdStart(on)
        /\ hist' = [hist EXCEPT !.crashed = TRUE]
        /\ UNCHANGED <<next, on, tracks, presence, outcome>>
    BY DEF Crash, stores
  <1>2. /\ at \in Records /\ batches \in Seq(Batch) /\ batches # <<>>
        /\ Current = batches[1] /\ Current \in Batch /\ at \in Current.first..Current.last
    BY <1>1, AtFacts DEF IInv
  <1>3. /\ Len(batches) \in Nat \ {0} /\ Tail(batches) \in Seq(Batch)
        /\ Len(Tail(batches)) = Len(batches) - 1
        /\ \A i \in 1..(Len(batches) - 1) : Tail(batches)[i] = batches[i + 1]
        /\ DOMAIN batches = 1..Len(batches)
    BY <1>2, BatchFacts
  <1>4. \A i \in 1..Len(batches) :
           /\ batches[i] \in Batch /\ batches[i].first \in Nat /\ batches[i].last \in Nat
           /\ batches[i].first <= batches[i].last
    <2>1. \A i \in 1..Len(batches) : batches[i] \in Batch
      BY <1>2
    <2>2. \A i \in 1..Len(batches) : batches[i].first <= batches[i].last
      BY <1>3 DEF IInv, Accounted
    <2>3. \A bt \in Batch : bt.first \in Nat /\ bt.last \in Nat
      BY StreamFacts DEF Batch
    <2> QED
      BY <2>1, <2>2, <2>3
  <1>5. /\ \A i \in 1..(Len(batches) - 1) : batches[i + 1].first = batches[i].last + 1
        /\ batches[Len(batches)].last = next - 1
    BY <1>2, <1>3 DEF IInv, Accounted
  <1>6. \A r \in 1..(next - 1) :
           r \in dlq \/ outcome[r] # "none"
             \/ \E i \in 1..Len(batches) : r \in batches[i].first..batches[i].last
    BY <1>3, InBatchesFact DEF IInv, Accounted
  <1> DEFINE Follows(bs) ==
        /\ bs \in Seq(Batch)
        /\ \A i \in 1..Len(bs) : bs[i].first <= bs[i].last
        /\ \A i \in 1..(Len(bs) - 1) : bs[i + 1].first = bs[i].last + 1
        /\ bs # <<>> => bs[Len(bs)].last = next - 1
  <1> DEFINE Covers(bs, d) ==
        \A r \in 1..(next - 1) :
           r \in d \/ outcome[r] # "none"
             \/ \E i \in 1..Len(bs) : r \in bs[i].first..bs[i].last
  <1>a. Follows(batches') /\ Covers(batches', dlq') /\ dlq' \in SUBSET Records
    <2>0. dlq \in SUBSET Records
      BY DEF IInv, TypeOK
    <2>1. CASE Current.first < Current.last /\ batches' = Halves \o Tail(batches) /\ dlq' = dlq
      <3> DEFINE mid == (Current.first + Current.last) \div 2
                 lower == [Current EXCEPT !.last = mid]
                 upper == [Current EXCEPT !.first = mid + 1]
      <3>1. /\ Current.first \in Records /\ Current.last \in Records
            /\ Current.first \in Nat /\ Current.last \in Nat /\ Current.first < Current.last
        BY <2>1, <1>2, StreamFacts DEF Batch
      <3>2. mid \in Nat /\ Current.first <= mid /\ mid < Current.last
        BY <3>1
      <3>3. mid \in Records /\ mid + 1 \in Records
        BY <3>1, <3>2, StreamFacts DEF Records
      <3>4. Halves = <<lower, upper>>
        BY DEF Halves
      <3> HIDE DEF mid
      <3>5. /\ lower \in Batch /\ lower.first = Current.first /\ lower.last = mid
            /\ upper \in Batch /\ upper.first = mid + 1 /\ upper.last = Current.last
        BY <1>2, <3>3 DEF Batch
      <3> HIDE DEF lower, upper
      <3>6. <<lower, upper>> \in Seq(Batch) /\ Len(<<lower, upper>>) = 2
        BY <3>5
      <3>7. /\ batches' \in Seq(Batch) /\ Len(batches') = Len(batches) + 1
            /\ batches'[1] = lower /\ batches'[2] = upper
            /\ \A i \in 3..Len(batches') : batches'[i] = batches[i - 1]
        <4>1. batches' \in Seq(Batch) /\ Len(batches') = 2 + (Len(batches) - 1)
          BY <2>1, <3>4, <3>6, <1>3, ConcatProperties
        <4>2. \A i \in 1..Len(batches') :
                 batches'[i] = IF i <= 2 THEN <<lower, upper>>[i] ELSE Tail(batches)[i - 2]
          BY <2>1, <3>4, <3>6, <1>3, ConcatProperties
        <4>3. ASSUME NEW i \in 3..Len(batches') PROVE batches'[i] = batches[i - 1]
          <5>1. i - 2 \in 1..(Len(batches) - 1)
            BY <4>1, <1>3
          <5>2. Tail(batches)[i - 2] = batches[(i - 2) + 1]
            BY <5>1, <1>3
          <5> QED
            BY <4>1, <4>2, <5>1, <5>2, <1>3
        <4> QED
          BY <4>1, <4>2, <4>3, <1>3
      <3>8. Follows(batches')
        <4>1. \A i \in 1..Len(batches') : batches'[i].first <= batches'[i].last
          <5> TAKE i \in 1..Len(batches')
          <5>1. i = 1 \/ i = 2 \/ (i \in 3..Len(batches') /\ i - 1 \in 1..Len(batches))
            BY <3>7, <1>3
          <5>2. lower.first <= lower.last /\ upper.first <= upper.last
            BY <3>1, <3>2, <3>5
          <5> QED
            BY <5>1, <5>2, <3>7, <1>4
        <4>2. \A i \in 1..(Len(batches') - 1) : batches'[i + 1].first = batches'[i].last + 1
          <5> TAKE i \in 1..(Len(batches') - 1)
          <5>1. CASE i = 1
            BY <5>1, <3>5, <3>7
          <5>2. CASE i = 2
            BY <5>2, <3>5, <3>7, <1>2, <1>3, <1>5
          <5>3. CASE i > 2
            <6>1. i \in 3..Len(batches') /\ i + 1 \in 3..Len(batches')
                  /\ i - 1 \in 1..(Len(batches) - 1)
              BY <5>3, <3>7, <1>3
            <6> QED
              BY <6>1, <3>7, <1>3, <1>5
          <5> QED
            BY <5>1, <5>2, <5>3, <3>7, <1>3
        <4>3. batches'[Len(batches')].last = next - 1
          BY <3>5, <3>7, <1>2, <1>3, <1>5
        <4> QED
          BY <4>1, <4>2, <4>3, <3>7
      <3>9. Covers(batches', dlq')
        <4> SUFFICES ASSUME NEW r \in 1..(next - 1),
                            NEW i \in 1..Len(batches), r \in batches[i].first..batches[i].last
                     PROVE  \E j \in 1..Len(batches') : r \in batches'[j].first..batches'[j].last
          BY <1>6, <2>1
        <4>1. CASE i = 1
          <5>1. 1 \in 1..Len(batches') /\ 2 \in 1..Len(batches')
            BY <3>7, <1>3
          <5>2. r \in lower.first..lower.last \/ r \in upper.first..upper.last
            BY <4>1, <1>2, <3>1, <3>2, <3>5
          <5> QED
            BY <5>1, <5>2, <3>7
        <4>2. CASE i # 1
          <5>1. i + 1 \in 3..Len(batches') /\ i + 1 \in 1..Len(batches') /\ (i + 1) - 1 = i
            BY <4>2, <3>7, <1>3
          <5> QED
            BY <5>1, <3>7
        <4> QED
          BY <4>1, <4>2
      <3> QED
        BY <3>8, <3>9, <2>0, <2>1
    <2>2. CASE Current.tries < MaxTries /\ batches' = [batches EXCEPT ![1].tries = @ + 1] /\ dlq' = dlq
      <3> DEFINE again == [Current EXCEPT !.tries = @ + 1]
      <3>1. /\ again \in Batch /\ again.first = batches[1].first /\ again.last = batches[1].last
        <4>1. Current.tries + 1 \in 1..MaxTries
          BY <2>2, <1>2, BoundsAssumption DEF Batch
        <4> QED
          BY <4>1, <1>2 DEF Batch
      <3>2. batches' = [batches EXCEPT ![1] = again]
        BY <2>2, <1>2
      <3> HIDE DEF again
      <3>3. /\ batches' \in Seq(Batch) /\ Len(batches') = Len(batches)
            /\ \A i \in 1..Len(batches) :
                  batches'[i].first = batches[i].first /\ batches'[i].last = batches[i].last
        BY <3>1, <3>2, <1>2, <1>3
      <3> QED
        BY <3>3, <1>3, <1>4, <1>5, <1>6, <2>0, <2>2
    <2>3. CASE /\ Current.first = Current.last /\ batches' = Tail(batches)
               /\ dlq' = dlq \cup {Current.first}
      <3>1. Follows(batches')
        BY <2>3, <1>3, <1>4, <1>5
      <3>2. Covers(batches', dlq')
        <4> SUFFICES ASSUME NEW r \in 1..(next - 1),
                            NEW i \in 1..Len(batches), r \in batches[i].first..batches[i].last
                     PROVE  r \in dlq' \/ \E j \in 1..Len(batches') :
                                             r \in batches'[j].first..batches'[j].last
          BY <1>6, <2>3
        <4>1. CASE i = 1
          BY <4>1, <2>3, <1>2, <1>4
        <4>2. CASE i # 1
          <5>1. i - 1 \in 1..Len(batches') /\ batches'[i - 1] = batches[i]
            BY <4>2, <2>3, <1>3
          <5> QED
            BY <5>1
        <4> QED
          BY <4>1, <4>2
      <3> QED
        BY <3>1, <3>2, <2>0, <2>3, <1>2, StreamFacts DEF Batch
    <2> QED
      BY <2>1, <2>2, <2>3 DEF Crash
  <1>7. Accounted'
    <2>1. DOMAIN batches' = 1..Len(batches')
      BY <1>a
    <2>2. \A r \in 1..(next - 1) : r \in (InBatches \cup dlq)' \/ outcome[r] # "none"
      BY <1>a, <2>1 DEF InBatches
    <2> QED
      BY <1>1, <1>a, <2>1, <2>2 DEF Accounted
  <1> HIDE DEF Follows, Covers
  <1>8. hist' \in [crashed : BOOLEAN, unstored : SUBSET Records, unregistered : SUBSET Ids]
        /\ hist'.crashed /\ hist'.unregistered = hist.unregistered
    BY <1>1 DEF IInv, TypeOK
  <1>9. TypeOK' /\ SawNothing'
    BY <1>1, <1>8, <1>a DEF Follows, IInv, TypeOK, SessionsKept, Batch
  <1>10. StoresFollow' /\ Untouched' /\ StoredSoFar' /\ HandlerOK' /\ GoneThrough'
    BY <1>1, <1>8 DEF StoresFollow, Untouched, StoredSoFar, HandlerOK, GoneThrough
  <1>11. SessionsDone' /\ TrackedIsRegistered'
    <2>1. table' = table /\ \A l \in Containers : cache'[l] \subseteq cache[l]
      BY <1>1 DEF ColdStart, IInv, TypeOK, SessionsTypeOK
    <2> QED
      BY <2>1, <1>1, <1>8 DEF IInv, SessionsDone, TrackedIsRegistered, Registered
  <1> QED
    BY <1>7, <1>9, <1>10, <1>11 DEF IInv

(* What the end of a record leaves to show: the stores. *)
LEMMA EndRecordEnds ==
    ASSUME IInv, SessionsKept, at # 0, NEW result \in {"processed", "failed", "skipped"},
           EndRecord(result), UNCHANGED <<next, on, dlq, hist>>, cache' = cache,
           tracks' \in [Ids \X Macs -> Records \cup {0}], presence' \in [Records -> Nat],
           \A r \in Records \ {at} : presence'[r] = presence[r],
           TrackedIsRegistered', StoresFollow'
    PROVE  IInv'
  <1>1. /\ at' \in Records \cup {0} /\ step' \in {"none", "decode"} /\ left' = {}
        /\ batches' \in Seq(Batch)
        /\ outcome' = [outcome EXCEPT ![at] = result]
        /\ outcome' \in [Records -> {"none", "processed", "failed", "skipped"}]
        /\ at' # 0 => batches' # <<>> /\ at' \in (Current.first..Current.last)'
        /\ at' = 0 <=> step' = "none"
        /\ Accounted' /\ GoneThrough' /\ Front' = at + 1
    BY EndRecordKeeps
  <1>2. TypeOK' /\ SawNothing'
    BY <1>1 DEF IInv, TypeOK, SessionsKept, Batch
  <1>3. HandlerOK' /\ StoredSoFar'
    BY <1>1 DEF HandlerOK, StoredSoFar
  <1>4. SessionsDone'
    <2>1. \A s \in Ids : Registered(s) => Registered(s)'
      BY RegisteredGrows
    <2>2. cache \in [Containers -> SUBSET Ids]
      BY DEF IInv, TypeOK, SessionsTypeOK
    <2> QED
      BY <2>1, <2>2, <1>1 DEF IInv, SessionsDone
  <1>5. Untouched'
    <2> SUFFICES ASSUME ~hist.crashed, NEW r \in Records, r >= at + 1
                 PROVE  outcome'[r] = "none" /\ presence'[r] = 0
      BY <1>1 DEF Untouched
    <2>1. at \in Nat /\ r \in Nat /\ at \in Records
      BY AtFacts, StreamFacts DEF IInv
    <2>2. Front = at /\ r >= Front /\ r # at
      BY <2>1 DEF Front
    <2>3. outcome[r] = "none" /\ presence[r] = 0
      BY <2>2 DEF IInv, Untouched
    <2> QED
      BY <1>1, <2>2, <2>3 DEF IInv, TypeOK
  <1> QED
    BY <1>1, <1>2, <1>3, <1>4, <1>5 DEF IInv

(* Where the front is while the handler runs. *)
LEMMA AtFront ==
    ASSUME IInv, at # 0
    PROVE  /\ Front = at
           /\ ~hist.crashed => outcome[at] = "none" /\ presence[at] = 0
           /\ ~hist.crashed => \A r \in Records : outcome[r] # "none" => r < at
  <1>1. at \in Records /\ at \in Nat
    BY AtFacts DEF IInv
  <1>2. Front = at
    BY <1>1 DEF Front
  <1>3. ~hist.crashed => \A r \in Records : r >= at => outcome[r] = "none" /\ presence[r] = 0
    BY <1>2 DEF IInv, Untouched
  <1>4. at >= at /\ \A r \in Records : r >= at \/ r < at
    BY <1>1, StreamFacts
  <1> QED
    BY <1>1, <1>2, <1>3, <1>4

LEMMA DecodeKeeps == ASSUME IInv, SessionsKept, Decode PROVE IInv'
  <1>1. /\ step = "decode" /\ at # 0 /\ at \in Records /\ left = {}
        /\ UNCHANGED <<sessionsVars, next, on, tracks, presence, dlq, hist>>
    BY AtFacts DEF Decode, IInv, HandlerOK, stores
  <1>2. TrackedIsRegistered'
    BY <1>1, SessionsSame
  <1>3. ASSUME NEW result \in {"failed", "skipped"}, EndRecord(result) PROVE IInv'
    <2>1. StoresFollow'
      <3>1. \A r \in Records : outcome'[r] = "processed" => outcome[r] = "processed"
        BY <1>1, <1>3 DEF EndRecord, IInv, TypeOK
      <3> QED
        BY <3>1, <1>1 DEF IInv, StoresFollow
    <2> QED
      BY <1>1, <1>2, <1>3, <2>1, EndRecordEnds DEF IInv, TypeOK, sessionsVars
  <1>4. CASE step' = "session" /\ UNCHANGED <<at, left, batches, outcome>>
    <2>1. TypeOK'
      BY <1>1, <1>4, SessionsSame DEF IInv, TypeOK, Current
    <2>2. Accounted' /\ StoresFollow' /\ HandlerOK' /\ GoneThrough' /\ Untouched' /\ StoredSoFar'
      BY <1>1, <1>4 DEF IInv, Accounted, InBatches, StoresFollow, HandlerOK, GoneThrough,
                        Untouched, StoredSoFar, Current, Front
    <2>3. SessionsDone'
      BY <1>1, <1>4, SessionsSame DEF SessionsDone
    <2> QED
      BY <1>1, <2>1, <2>2, <2>3, SessionsSame DEF IInv
  <1>5. Stream[at].kind \in {"window", "empty", "malformed"}
    BY <1>1, StreamFacts
  <1>6. \/ EndRecord("failed") \/ EndRecord("skipped")
        \/ step' = "session" /\ UNCHANGED <<at, left, batches, outcome>>
    BY <1>5 DEF Decode
  <1> QED
    BY <1>3, <1>4, <1>6

LEMMA EnsureSessionKeeps == ASSUME IInv, SessionsKept, EnsureSession PROVE IInv'
  <1>1. /\ step = "session" /\ step' = "archive" /\ at # 0 /\ at \in Records /\ left = {}
        /\ UNCHANGED <<next, batches, at, left, on, tracks, presence, outcome, dlq>>
    BY AtFacts DEF EnsureSession, IInv, HandlerOK, stores
  <1>2. /\ SessionOf(at) \in Ids /\ on \in Containers
        /\ table \in [Ids -> Items \cup {NoItem}] /\ cache \in [Containers -> SUBSET Ids]
        /\ hist \in [crashed : BOOLEAN, unstored : SUBSET Records, unregistered : SUBSET Ids]
    BY <1>1, StreamFacts DEF IInv, TypeOK, SessionsTypeOK
  <1>3. /\ hist'.crashed = hist.crashed /\ hist'.unstored = hist.unstored
        /\ hist.unregistered \subseteq hist'.unregistered
        /\ hist' \in [crashed : BOOLEAN, unstored : SUBSET Records, unregistered : SUBSET Ids]
        /\ table'[SessionOf(at)] # NoItem \/ SessionOf(at) \in hist'.unregistered
        /\ \A l \in Containers : cache'[l] \subseteq cache[l] \cup {SessionOf(at)}
    <2>1. CASE SessionOf(at) \in cache[on] /\ UNCHANGED <<sessionsVars, hist>>
      BY <2>1, <1>1, <1>2 DEF IInv, SessionsDone, Registered, sessionsVars
    <2>2. CASE Ensure(on, SessionOf(at)) /\ UNCHANGED hist
      <3>1. table'[SessionOf(at)] # NoItem
        BY <2>2, <1>2 DEF Ensure, PutIfAbsent
      <3> QED
        BY <3>1, <2>2, <1>1, <1>2 DEF Ensure, Registered
    <2>3. CASE /\ EnsureFails(on, SessionOf(at))
               /\ hist' = [hist EXCEPT !.unregistered = @ \cup {SessionOf(at)}]
      BY <2>3, <1>1, <1>2 DEF EnsureFails, Registered
    <2> QED
      BY <2>1, <2>2, <2>3 DEF EnsureSession
  <1>4. \A s \in Ids : Registered(s) => Registered(s)'
    BY <1>3, RegisteredGrows
  <1>5. TypeOK' /\ SawNothing'
    BY <1>1, <1>3 DEF IInv, TypeOK, SessionsKept, Current
  <1>6. Accounted' /\ StoresFollow' /\ HandlerOK' /\ GoneThrough' /\ Untouched' /\ StoredSoFar'
    BY <1>1, <1>3 DEF IInv, Accounted, InBatches, StoresFollow, HandlerOK, GoneThrough,
                      Untouched, StoredSoFar, Current, Front
  <1>7. TrackedIsRegistered'
    BY <1>1, <1>4 DEF IInv, TrackedIsRegistered, Registered
  <1>8. SessionsDone'
    <2>1. \A l \in Containers : \A s \in cache'[l] : Registered(s)'
      BY <1>2, <1>3, <1>4 DEF IInv, SessionsDone, Registered
    <2> QED
      BY <2>1, <1>1, <1>3 DEF SessionsDone, SessionOf, Registered
  <1> QED
    BY <1>5, <1>6, <1>7, <1>8 DEF IInv

LEMMA ArchiveKeeps == ASSUME IInv, ArchiveToS3 PROVE IInv'
  <1>1. /\ step = "archive" /\ step' = "tracks" /\ at # 0 /\ at \in Records
        /\ left' = Stream[at].macs
        /\ UNCHANGED <<sessionsVars, next, batches, at, on, tracks, presence, outcome, dlq, hist>>
    BY AtFacts DEF ArchiveToS3, IInv, HandlerOK, stores
  <1>2. TypeOK'
    BY <1>1, StreamFacts, SessionsSame DEF IInv, TypeOK, Current
  <1>3. Accounted' /\ StoresFollow' /\ HandlerOK' /\ GoneThrough' /\ Untouched' /\ StoredSoFar'
    BY <1>1 DEF IInv, Accounted, InBatches, StoresFollow, HandlerOK, GoneThrough,
                Untouched, StoredSoFar, Current, Front
  <1>4. SessionsDone'
    BY <1>1, SessionsSame DEF IInv, SessionsDone, SessionOf, Registered, sessionsVars
  <1> QED
    BY <1>1, <1>2, <1>3, <1>4, SessionsSame DEF IInv

(* What StoresFollow says of the tracks, for what they become. *)
TracksFollow(t) ==
    \A r \in Records \ hist.unstored :
        outcome[r] = "processed" => \A q \in Stream[r].macs : t[<<SessionOf(r), q>>] >= r

(* A device is stored from the current record, the newest that is processed. *)
LEMMA TrackOneKeeps ==
    ASSUME IInv, step = "tracks", NEW m \in left,
           UNCHANGED <<sessionsVars, hist>>,
           tracks' = [tracks EXCEPT ![<<SessionOf(at), m>>] = at]
    PROVE  /\ tracks' \in [Ids \X Macs -> Records \cup {0}]
           /\ tracks'[<<SessionOf(at), m>>] = at
           /\ \A sm \in Ids \X Macs : sm # <<SessionOf(at), m>> => tracks'[sm] = tracks[sm]
           /\ TrackedIsRegistered' /\ (~hist.crashed => TracksFollow(tracks'))
  <1>1. /\ at # 0 /\ at \in Records /\ at \in Nat /\ SessionOf(at) \in Ids
        /\ m \in Macs /\ tracks \in [Ids \X Macs -> Records \cup {0}]
    BY AtFacts DEF IInv, HandlerOK, TypeOK
  <1>2. /\ tracks' \in [Ids \X Macs -> Records \cup {0}]
        /\ tracks'[<<SessionOf(at), m>>] = at
        /\ \A sm \in Ids \X Macs : sm # <<SessionOf(at), m>> => tracks'[sm] = tracks[sm]
    BY <1>1
  <1>3. TrackedIsRegistered'
    <2>1. table' = table /\ hist' = hist
      BY DEF sessionsVars
    <2> SUFFICES ASSUME NEW s \in Ids, NEW q \in Macs, tracks'[<<s, q>>] # 0
                 PROVE  table[s] # NoItem \/ s \in hist.unregistered
      BY <2>1 DEF TrackedIsRegistered
    <2>2. CASE s = SessionOf(at)
      BY <2>2 DEF IInv, SessionsDone, Registered
    <2>3. CASE s # SessionOf(at)
      BY <2>3, <1>2 DEF IInv, TrackedIsRegistered
    <2> QED
      BY <2>2, <2>3
  <1>4. ASSUME ~hist.crashed PROVE TracksFollow(tracks')
    <2> USE <1>4
    <2> SUFFICES \A r \in Records \ hist.unstored :
                    outcome[r] = "processed" =>
                       \A q \in Stream[r].macs : tracks'[<<SessionOf(r), q>>] >= r
      BY DEF TracksFollow
    <2> TAKE r \in Records \ hist.unstored
    <2> HAVE outcome[r] = "processed"
    <2> TAKE q \in Stream[r].macs
    <2>1. r < at /\ r \in Nat
      BY <1>1, AtFront, StreamFacts
    <2>2. q \in Macs /\ SessionOf(r) \in Ids
      BY StreamFacts
    <2>3. tracks[<<SessionOf(r), q>>] >= r
      BY DEF IInv, StoresFollow
    <2> QED
      BY <1>1, <1>2, <2>1, <2>2, <2>3
  <1> QED
    BY <1>2, <1>3, <1>4

LEMMA StoreTrackKeeps ==
    ASSUME IInv, NEW m \in Macs, StoreDeviceTrack(m) \/ DeviceTrackFails(m)
    PROVE  IInv'
  <1>1. /\ step = "tracks" /\ step' = "tracks" /\ at # 0 /\ at \in Records /\ m \in left
        /\ left' = left \ {m} /\ left \subseteq Stream[at].macs
        /\ UNCHANGED <<sessionsVars, next, batches, at, on, presence, outcome, dlq>>
    BY AtFacts DEF StoreDeviceTrack, DeviceTrackFails, IInv, HandlerOK, stores
  <1>2. Accounted' /\ HandlerOK' /\ GoneThrough'
    BY <1>1 DEF IInv, Accounted, InBatches, HandlerOK, GoneThrough, Current
  <1>3. CASE hist' = hist /\ tracks' = [tracks EXCEPT ![<<SessionOf(at), m>>] = at]
    <2>1. /\ tracks' \in [Ids \X Macs -> Records \cup {0}]
          /\ tracks'[<<SessionOf(at), m>>] = at
          /\ \A sm \in Ids \X Macs : sm # <<SessionOf(at), m>> => tracks'[sm] = tracks[sm]
          /\ TrackedIsRegistered' /\ (~hist.crashed => TracksFollow(tracks'))
      BY <1>1, <1>3, TrackOneKeeps
    <2>a. StoresFollow'
      BY <1>1, <1>3, <2>1 DEF IInv, StoresFollow, TracksFollow
    <2>2. SessionsTypeOK' /\ SawNothing' /\ SessionsDone'
      BY <1>1, <1>3 DEF IInv, TypeOK, SessionsTypeOK, SawNothing, SessionsDone, SessionOf,
                        Registered, sessionsVars
    <2>3. TypeOK'
      BY <1>1, <1>3, <2>1, <2>2 DEF IInv, TypeOK, Current
    <2>4. Untouched'
      BY <1>1, <1>3 DEF IInv, Untouched, Front, Current
    <2>5. StoredSoFar'
      <3> SUFFICES ASSUME at \notin hist.unstored, NEW q \in Stream[at].macs \ left'
                   PROVE  tracks'[<<SessionOf(at), q>>] = at
        BY <1>1, <1>3 DEF StoredSoFar, SessionOf
      <3>1. q \in Macs /\ SessionOf(at) \in Ids
        BY <1>1, StreamFacts
      <3>2. CASE q = m
        BY <3>2, <2>1
      <3>3. CASE q # m
        BY <3>1, <3>3, <1>1, <2>1 DEF IInv, StoredSoFar
      <3> QED
        BY <3>2, <3>3
    <2> QED
      BY <1>2, <2>1, <2>a, <2>2, <2>3, <2>4, <2>5 DEF IInv
  <1>4. CASE hist' = [hist EXCEPT !.unstored = @ \cup {at}] /\ tracks' = tracks
    <2>1. /\ hist' \in [crashed : BOOLEAN, unstored : SUBSET Records, unregistered : SUBSET Ids]
          /\ hist'.crashed = hist.crashed /\ hist'.unregistered = hist.unregistered
          /\ hist'.unstored = hist.unstored \cup {at}
      BY <1>1, <1>4 DEF IInv, TypeOK
    <2>2. SessionsTypeOK' /\ SawNothing' /\ SessionsDone' /\ TrackedIsRegistered'
      BY <1>1, <1>4, <2>1 DEF IInv, TypeOK, SessionsTypeOK, SawNothing, SessionsDone, SessionOf,
                        Registered, TrackedIsRegistered, sessionsVars
    <2>3. TypeOK'
      BY <1>1, <1>4, <2>1, <2>2 DEF IInv, TypeOK, Current
    <2>4. Untouched' /\ StoredSoFar' /\ StoresFollow'
      BY <1>1, <1>4, <2>1 DEF IInv, Untouched, Front, Current, StoredSoFar, StoresFollow
    <2> QED
      BY <1>2, <2>2, <2>3, <2>4 DEF IInv
  <1> QED
    BY <1>3, <1>4 DEF StoreDeviceTrack, DeviceTrackFails, TrackOf, stores

LEMMA StorePresenceKeeps == ASSUME IInv, SessionsKept, StorePresence PROVE IInv'
  <1>1. /\ step = "tracks" /\ left = {} /\ at # 0 /\ at \in Records /\ EndRecord("processed")
        /\ UNCHANGED <<sessionsVars, next, on, tracks, dlq, hist>>
    BY AtFacts DEF StorePresence, IInv, HandlerOK
  <1>2. /\ presence \in [Records -> Nat] /\ presence' \in [Records -> Nat]
        /\ \A r \in Records \ {at} : presence'[r] = presence[r]
        /\ presence'[at] <= presence[at] + 1
    <2>1. presence \in [Records -> Nat]
      BY DEF IInv, TypeOK
    <2>2. CASE presence' = presence
      BY <2>1, <2>2, <1>1
    <2>3. CASE presence' = [presence EXCEPT ![at] = @ + 1]
      BY <2>1, <2>3, <1>1
    <2> QED
      BY <2>1, <2>2, <2>3 DEF StorePresence
  <1>3. StoresFollow'
    <2> SUFFICES ASSUME ~hist.crashed
                 PROVE  /\ \A r \in Records \ hist.unstored :
                              outcome'[r] = "processed" =>
                                 \A q \in Stream[r].macs : tracks[<<SessionOf(r), q>>] >= r
                        /\ \A r \in Records : presence'[r] <= 1
      BY <1>1 DEF StoresFollow
    <2>1. \A r \in Records : r # at => outcome'[r] = outcome[r]
      BY <1>1 DEF EndRecord, IInv, TypeOK
    <2>2. presence'[at] <= 1 /\ presence[at] = 0
      BY <1>1, <1>2, AtFront
    <2>3. ASSUME NEW r \in Records \ hist.unstored, outcome'[r] = "processed",
                 NEW q \in Stream[r].macs
          PROVE  tracks[<<SessionOf(r), q>>] >= r
      <3>1. CASE r = at
        <4>1. tracks[<<SessionOf(at), q>>] = at /\ at \in Nat
          BY <2>3, <3>1, <1>1, StreamFacts DEF IInv, StoredSoFar
        <4> QED
          BY <3>1, <4>1
      <3>2. CASE r # at
        BY <2>1, <2>3, <3>2 DEF IInv, StoresFollow
      <3> QED
        BY <3>1, <3>2
    <2>4. \A r \in Records : presence'[r] <= 1
      BY <1>2, <2>2 DEF IInv, StoresFollow
    <2> QED
      BY <2>3, <2>4
  <1>4. TrackedIsRegistered' /\ cache' = cache /\ tracks' \in [Ids \X Macs -> Records \cup {0}]
    BY <1>1, SessionsSame DEF IInv, TypeOK, sessionsVars
  <1> QED
    BY <1>1, <1>2, <1>3, <1>4, EndRecordEnds

LEMMA StepRaisesKeeps == ASSUME IInv, SessionsKept, StepRaises PROVE IInv'
  <1>1. /\ step \in {"session", "archive", "tracks"} /\ at # 0 /\ at \in Records
        /\ EndRecord("failed") /\ UNCHANGED <<next, on, dlq, hist>> /\ cache' = cache
    BY AtFacts DEF StepRaises, IInv, HandlerOK, EnsureRaises, sessionsVars
  <1>2. /\ presence \in [Records -> Nat] /\ presence' \in [Records -> Nat]
        /\ \A r \in Records \ {at} : presence'[r] = presence[r]
        /\ presence'[at] <= presence[at] + 1
    <2>1. presence \in [Records -> Nat]
      BY DEF IInv, TypeOK
    <2>2. CASE presence' = presence
      BY <2>1, <2>2, <1>1
    <2>3. CASE presence' = [presence EXCEPT ![at] = @ + 1]
      BY <2>1, <2>3, <1>1
    <2>4. presence' = presence \/ presence' = [presence EXCEPT ![at] = @ + 1]
      BY DEF StepRaises
    <2> QED
      BY <2>1, <2>2, <2>3, <2>4
  <1>3. /\ tracks' \in [Ids \X Macs -> Records \cup {0}]
        /\ TrackedIsRegistered' /\ (~hist.crashed => TracksFollow(tracks'))
    <2>1. CASE tracks' = tracks
      <3>1. \A s \in Ids : Registered(s) => Registered(s)'
        BY <1>1, RegisteredGrows
      <3>2. tracks \in [Ids \X Macs -> Records \cup {0}]
        BY DEF IInv, TypeOK
      <3>3. TrackedIsRegistered'
        BY <3>1, <2>1, <1>1 DEF IInv, TrackedIsRegistered, Registered
      <3> QED
        BY <2>1, <3>2, <3>3 DEF IInv, StoresFollow, TracksFollow
    <2>2. ASSUME NEW m \in left, tracks' = [tracks EXCEPT ![<<SessionOf(at), m>>] = at]
          PROVE  /\ tracks' \in [Ids \X Macs -> Records \cup {0}]
                 /\ TrackedIsRegistered' /\ (~hist.crashed => TracksFollow(tracks'))
      <3>1. step = "tracks" /\ UNCHANGED sessionsVars
        BY <2>2, <1>1 DEF IInv, HandlerOK, StepRaises
      <3> QED
        BY <3>1, <2>2, <1>1, TrackOneKeeps
    <2> QED
      BY <2>1, <2>2 DEF StepRaises, TrackOf
  <1>4. StoresFollow'
    <2> SUFFICES ASSUME ~hist.crashed
                 PROVE  /\ \A r \in Records \ hist.unstored :
                              outcome'[r] = "processed" =>
                                 \A q \in Stream[r].macs : tracks'[<<SessionOf(r), q>>] >= r
                        /\ \A r \in Records : presence'[r] <= 1
      BY <1>1 DEF StoresFollow
    <2>1. \A r \in Records : outcome'[r] = "processed" => outcome[r] = "processed"
      BY <1>1 DEF EndRecord, IInv, TypeOK
    <2>2. presence'[at] <= 1
      BY <1>1, <1>2, AtFront
    <2>3. \A r \in Records : presence'[r] <= 1
      BY <1>2, <2>2 DEF IInv, StoresFollow
    <2> QED
      BY <1>3, <2>1, <2>3 DEF TracksFollow
  <1> QED
    BY <1>1, <1>2, <1>3, <1>4, EndRecordEnds

-----------------------------------------------------------------------------
LEMMA Stays == ASSUME IInv, [Next]_vars PROVE IInv' /\ SessionsKept
  <1>1. SessionsKept
    BY NextSessions, SessionsStep DEF IInv, TypeOK
  <1>2. CASE UNCHANGED vars
    BY <1>1, <1>2, SessionsOnly DEF vars, sessionsVars
  <1>3. ASSUME NEW k \in Calls, CreateSession(k) PROVE IInv'
    <2>1. cache' = cache
      BY <1>3 DEF CreateSession, Create, CreateGet, CreateGetFails, CreatePut, CreatePutFails
    <2> QED
      BY <1>1, <1>3, <2>1, SessionsOnly DEF CreateSession
  <1>4. CASE Handler
    BY <1>1, <1>4, DecodeKeeps, EnsureSessionKeeps, ArchiveKeeps, StorePresenceKeeps,
       StepRaisesKeeps, StoreTrackKeeps DEF Handler
  <1> QED
    BY <1>1, <1>2, <1>3, <1>4, FetchKeeps, InvokeKeeps, CrashKeeps DEF Next

(* No record of the stream is lost track of, and the stores follow what was
   delivered, for every stream, batch size, number of tries and containers. *)
THEOREM IngestIsSound == Spec => []IngestInv
  <1>1. IInv => IngestInv
    BY DEF IInv, IngestInv
  <1> QED
    BY <1>1, Starts, Stays, PTL DEF Spec

(* A registered session stays registered, and only a create_session() that
   looked too early replaces it: never a window that arrives. *)
THEOREM SessionsOverwrittenUnseenOnly == Spec => OverwrittenUnseenOnly
  <1>1. ASSUME IInv, [Next]_vars
        PROVE  [\A s \in Ids :
                  table[s] # NoItem /\ table'[s] # table[s] =>
                      \E k \in Calls :
                          /\ table'[s] = k /\ sid[k] = s
                          /\ call[k] = "put" /\ saw[k] \in {NoItem, Blind}]_sessionsVars
    BY <1>1, Stays DEF SessionsKept
  <1> QED
    BY <1>1, Starts, Stays, PTL DEF Spec, OverwrittenUnseenOnly

=============================================================================
