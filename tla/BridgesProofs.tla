--------------------------- MODULE BridgesProofs ---------------------------
(***************************************************************************)
(* Theorems about what the serial bridges bring in and what becomes of it: *)
(* SerialRelay and SessionData for the Pineapple and the cloud, and        *)
(* SensorBridge for the boards and routers that src/ reads itself.         *)
(***************************************************************************)
EXTENDS SessionData, SensorBridge, FiniteSetTheorems, SequenceTheorems, TLAPS

-----------------------------------------------------------------------------
(* SerialRelay: the relay's variables have their types, the types of their
   records named, and the requests are within their bound. *)
Networks == [line : 1..Len(Lines), whole : BOOLEAN]
PostRecord ==
    [lines : SUBSET (1..Len(Lines)), macs : SUBSET Macs, late : BOOLEAN,
     at : {"sent", "lost", "ingest", "over"}]
DeviceRecord == [first : 0..MaxPosts, last : 0..MaxPosts, count : 0..MaxPosts]

RelayTypes ==
    /\ printed \in 0..Len(Lines)
    /\ tty \in Seq(Networks) /\ Len(tty) <= TtyLines
    /\ bridge \in {"reading", "posting", "ended"}
    /\ kept \subseteq 1..Len(Lines) /\ due \in BOOLEAN
    /\ posts \in Seq(PostRecord) /\ Len(posts) <= MaxPosts
    /\ devices \in [Macs -> DeviceRecord]
    /\ scanEvents \subseteq 1..MaxPosts

(* The port gives lines in the order of their printing, each once: what is
   still to be read is newer than all that was read. *)
LinesInOrder ==
    /\ \A i, j \in 1..Len(tty) : i < j => tty[i].line < tty[j].line
    /\ \A i \in 1..Len(tty) :
          /\ tty[i].line <= printed
          /\ \A n \in kept : n < tty[i].line
          /\ \A r \in Posts : \A n \in posts[r].lines : n < tty[i].line
    /\ kept \subseteq 1..printed
    /\ \A r \in Posts : posts[r].lines \subseteq 1..printed

(* A line is in one request only, or in none and kept for the next. *)
LinesApart ==
    /\ \A q, r \in Posts : q # r => posts[q].lines \cap posts[r].lines = {}
    /\ IF bridge = "posting" THEN posts # <<>> /\ kept = posts[LastPost].lines
       ELSE \A r \in Posts : kept \cap posts[r].lines = {}

(* The requests that brought a device in, or tried to. *)
Tried(m) == {r \in Posts : m \in MacsOf(posts[r].lines) \ posts[r].macs}

(* A count is of requests, each of which has tried the device once. *)
CountsAreOfPosts ==
    /\ \A r \in Posts : posts[r].macs \subseteq MacsOf(posts[r].lines)
    /\ \A m \in Macs :
          /\ devices[m].count <= Cardinality(Tried(m))
          /\ devices[m].last # 0 => devices[m].last \in Tried(m)
          /\ devices[m].first # 0 => devices[m].first \in Posts
    /\ scanEvents \subseteq Posts

(* Until one is given up, the request under way is the one waited for. *)
WaitedFor ==
    GivenUp = {} => \A r \in Posts :
        posts[r].at \in {"sent", "ingest"} => r = LastPost /\ bridge = "posting"

RelayIInv == RelayTypes /\ LinesInOrder /\ LinesApart /\ CountsAreOfPosts /\ WaitedFor

-----------------------------------------------------------------------------
(* SessionData: an answer is of its own session, and the load of the
   selected session is the last one. *)
AnswersAreOwn ==
    /\ StoredIsOwn
    /\ \A i \in DOMAIN loads : loads[i].at = "answered" => loads[i].data = loads[i].session

LastIsCurrent == loads # <<>> => current = loads[Len(loads)].session

(* Without hurry the loads before the last one are at their end, and the
   last one leaves its session on the screen. *)
InTurn ==
    ~hurried =>
        /\ \A i \in DOMAIN loads : i < Len(loads) => loads[i].at \in {"over", "failed"}
        /\ loads # <<>> /\ loads[Len(loads)].at = "over" /\ shown.kind # "heatmap"
           => shown = [of |-> current, kind |-> "rows"]

(* A tag is in the table once it was put there. *)
TagsInRows ==
    \A k \in DOMAIN tags :
        /\ tags[k].at \in {"snapshot", "put"} => k \notin rows
        /\ tags[k].at \in {"query", "store", "push", "over"} => k \in rows

(* The last one to ask has seen every tag, and all that has a reading is in
   its map: it is about to be made, was kept, or could not be. *)
Queried(s) == \A k \in TagsOf(s) : tags[k].at \in {"store", "push", "over"}
Mapped(k) == tags[k].at = "store" \/ MapOf(k) \in maps \/ k \in unmapped
HasAll(s) ==
    ~stale /\ Queried(s) /\ Cardinality(Drawable(TagsOf(s))) >= 3 =>
        \E k \in TagsOf(s) : tags[k].map = Drawable(TagsOf(s)) /\ Mapped(k)
LastHasAll == \A s \in Sessions : HasAll(s)

-----------------------------------------------------------------------------
(* SerialRelay: type correctness, and that a scan is counted at most once. *)

(* Dropping the head of the first line changes no line's number. *)
LEMMA HeadlessLines ==
    ASSUME NEW seq \in Seq(Networks), seq # <<>>
    PROVE  /\ Headless(seq) \in Seq(Networks)
           /\ Len(Headless(seq)) = Len(seq)
           /\ \A i \in 1..Len(seq) : Headless(seq)[i].line = seq[i].line
<1>1. 1 \in 1..Len(seq) /\ seq[1] \in Networks
  OBVIOUS
<1> DEFINE head == [seq[1] EXCEPT !.whole = FALSE]
<1>2. head \in Networks /\ head.line = seq[1].line
  BY <1>1 DEF Networks
<1>3. Headless(seq) = [seq EXCEPT ![1] = head]
  BY <1>1 DEF Headless
<1> QED
  BY <1>1, <1>2, <1>3

(* What is left of the port after a read is a later part of it. *)
LEMMA RestIsLater ==
    ASSUME tty \in Seq(Networks), NEW rest \in Rests
    PROVE  /\ rest \in Seq(Networks)
           /\ \E n \in 1..Len(tty) :
                 /\ Len(rest) = Len(tty) - n
                 /\ \A i \in 1..Len(rest) : rest[i].line = tty[i + n].line
<1> DEFINE after(n) == SubSeq(tty, n + 1, Len(tty))
<1>1. \E n \in 1..Len(tty) : rest = after(n) \/ (after(n) # <<>> /\ rest = Headless(after(n)))
  BY DEF Rests
<1>2. PICK n \in 1..Len(tty) : rest = after(n) \/ (after(n) # <<>> /\ rest = Headless(after(n)))
  BY <1>1
<1>3. /\ after(n) \in Seq(Networks) /\ Len(after(n)) = Len(tty) - n
      /\ \A i \in 1..Len(after(n)) : after(n)[i] = tty[i + n]
  OBVIOUS
<1>4. CASE rest = after(n)
  BY <1>3, <1>4
<1>5. CASE after(n) # <<>> /\ rest = Headless(after(n))
  <2> HIDE DEF after
  <2>1. /\ rest \in Seq(Networks) /\ Len(rest) = Len(after(n))
        /\ \A i \in 1..Len(after(n)) : rest[i].line = after(n)[i].line
    BY <1>3, <1>5, HeadlessLines
  <2> QED
    BY <1>3, <2>1
<1> QED
  BY <1>2, <1>4, <1>5

(* A line that is to be read has a number and was printed. *)
LEMMA LinesAreNumbers ==
    ASSUME RelayTypes, LinesInOrder
    PROVE  /\ Len(Lines) \in Nat /\ printed \in Nat
           /\ Len(tty) \in Nat /\ Len(posts) \in Nat
           /\ Posts = 1..Len(posts)
           /\ \A i \in 1..Len(tty) : tty[i].line \in 1..printed /\ tty[i].line \in 1..Len(Lines)
<1>1. Len(Lines) \in Nat /\ printed \in Nat
  BY LinesAssumption DEF RelayTypes
<1>2. tty \in Seq(Networks) /\ Len(tty) \in Nat
  BY DEF RelayTypes
<1>3. \A i \in 1..Len(tty) : tty[i] \in Networks
  BY <1>2
<1>4. \A i \in 1..Len(tty) : tty[i].line \in 1..Len(Lines)
  BY <1>3 DEF Networks
<1>5. Len(posts) \in Nat /\ Posts = 1..Len(posts)
  BY DEF RelayTypes, Posts
<1> QED
  BY <1>1, <1>2, <1>4, <1>5 DEF LinesInOrder

LEMMA RelayStarts == RelayInit => RelayIInv
<1> SUFFICES ASSUME RelayInit PROVE RelayIInv
  OBVIOUS
<1>1. Len(Lines) \in Nat /\ TtyLines \in Nat \ {0} /\ MaxPosts \in Nat
  BY LinesAssumption, RelayBounds
<1>2. tty = <<>> /\ posts = <<>> /\ Posts = {}
  BY DEF RelayInit, Posts
<1>3. NewDevice \in DeviceRecord
  BY <1>1 DEF NewDevice, DeviceRecord
<1>4. RelayTypes
  <2>1. /\ tty \in Seq(Networks) /\ Len(tty) = 0
        /\ posts \in Seq(PostRecord) /\ Len(posts) = 0
    BY <1>2
  <2>2. devices \in [Macs -> DeviceRecord]
    BY <1>3 DEF RelayInit
  <2>3. printed \in 0..Len(Lines) /\ Len(tty) <= TtyLines /\ Len(posts) <= MaxPosts
    BY <1>1, <2>1 DEF RelayInit
  <2> QED
    BY <2>1, <2>2, <2>3 DEF RelayInit, RelayTypes
<1>5. LinesInOrder /\ LinesApart /\ WaitedFor
  BY <1>2 DEF RelayInit, LinesInOrder, LinesApart, WaitedFor
<1>6. CountsAreOfPosts
  <2>1. \A m \in Macs : Tried(m) = {}
    BY <1>2 DEF Tried
  <2>2. \A m \in Macs : Cardinality(Tried(m)) = 0
    BY <2>1, FS_EmptySet
  <2>3. \A m \in Macs : devices[m].count = 0 /\ devices[m].last = 0 /\ devices[m].first = 0
    BY DEF RelayInit, NewDevice
  <2> QED
    BY <1>2, <2>2, <2>3 DEF RelayInit, CountsAreOfPosts
<1> QED
  BY <1>4, <1>5, <1>6 DEF RelayIInv

(* The order and the apartness of lines need to know nothing of the port
   but that what is left of it is a later part of what was there. *)
LEMMA LaterIsInOrder ==
    ASSUME RelayTypes, LinesInOrder, NEW n \in 0..Len(tty),
           tty' \in Seq(Networks), Len(tty') = Len(tty) - n,
           \A i \in 1..Len(tty') : tty'[i].line = tty[i + n].line,
           UNCHANGED <<printed, posts>>,
           kept' = kept \/ (n > 0 /\ kept' = Heard)
    PROVE  LinesInOrder'
<1>1. /\ Len(Lines) \in Nat /\ printed \in Nat /\ Len(tty) \in Nat
      /\ \A i \in 1..Len(tty) : tty[i].line \in 1..printed
  BY LinesAreNumbers
<1>2. Posts' = Posts
  BY DEF Posts
<1>3. \A i \in 1..Len(tty') : i + n \in 1..Len(tty) /\ (n > 0 => 1 < i + n)
  BY <1>1
<1>4. \A i, j \in 1..Len(tty') : i < j => tty'[i].line < tty'[j].line
  <2> SUFFICES ASSUME NEW i \in 1..Len(tty'), NEW j \in 1..Len(tty'), i < j
               PROVE  tty'[i].line < tty'[j].line
    OBVIOUS
  <2>1. i + n \in 1..Len(tty) /\ j + n \in 1..Len(tty) /\ i + n < j + n
    BY <1>1, <1>3
  <2>2. tty[i + n].line < tty[j + n].line
    BY <2>1 DEF LinesInOrder
  <2> QED
    BY <2>2
<1>5. n > 0 => 1 \in 1..Len(tty)
  BY <1>1
<1>6. kept' \subseteq 1..printed
  BY <1>1, <1>5 DEF LinesInOrder, Heard
<1>7. ASSUME NEW i \in 1..Len(tty')
      PROVE  /\ tty'[i].line <= printed
             /\ \A k \in kept' : k < tty'[i].line
             /\ \A r \in Posts : \A k \in posts[r].lines : k < tty'[i].line
  <2> DEFINE j == i + n
  <2>1. j \in 1..Len(tty) /\ (n > 0 => 1 < j) /\ tty'[i].line = tty[j].line
    BY <1>3
  <2> HIDE DEF j
  <2>2. /\ tty[j].line <= printed
        /\ \A k \in kept : k < tty[j].line
        /\ \A r \in Posts : \A k \in posts[r].lines : k < tty[j].line
    BY <2>1 DEF LinesInOrder
  <2>3. n > 0 => tty[1].line < tty[j].line
    BY <1>5, <2>1 DEF LinesInOrder
  <2> QED
    BY <2>1, <2>2, <2>3 DEF Heard
<1> QED
  BY <1>2, <1>4, <1>6, <1>7 DEF LinesInOrder

(* What a step of the port, or of the bridge before a request, keeps. *)
LEMMA PortStepKeeps ==
    ASSUME RelayIInv, PrintLine \/ IntervalPasses \/ Pause \/ ReadGarbage \/ ReadLine
    PROVE  RelayIInv'
<1>1. Len(Lines) \in Nat /\ TtyLines \in Nat \ {0} /\ MaxPosts \in Nat
  BY LinesAssumption, RelayBounds
<1>0. RelayTypes /\ LinesInOrder /\ LinesApart /\ CountsAreOfPosts /\ WaitedFor
  BY DEF RelayIInv
<1>2. UNCHANGED <<bridge, posts, devices, scanEvents>>
  BY DEF PrintLine, IntervalPasses, Pause, ReadGarbage, ReadLine
<1>3. CountsAreOfPosts' /\ WaitedFor'
  BY <1>0, <1>2 DEF CountsAreOfPosts, WaitedFor, Tried, Posts, LastPost, GivenUp
<1>4. tty \in Seq(Networks) /\ printed \in 0..Len(Lines)
  BY <1>0 DEF RelayTypes
<1>9. /\ printed \in Nat /\ Len(tty) \in Nat /\ Posts = 1..Len(posts)
      /\ \A i \in 1..Len(tty) : tty[i].line \in 1..printed /\ tty[i].line \in 1..Len(Lines)
  BY <1>0, LinesAreNumbers
<1>5. CASE PrintLine
  <2>1. LinesApart'
    BY <1>0, <1>5 DEF PrintLine, LinesApart, Posts, LastPost
  <2> DEFINE new == [line |-> printed + 1, whole |-> TRUE]
  <2>2. new \in Networks /\ new.line = printed + 1 /\ printed' \in 0..Len(Lines) /\ printed' = printed + 1
    BY <1>1, <1>4, <1>5 DEF PrintLine, Networks
  <2>3. kept' = kept /\ posts' = posts /\ Posts' = Posts /\ due' = due
    BY <1>5 DEF PrintLine, Posts
  <2>4. kept \subseteq 1..printed /\ \A r \in Posts : posts[r].lines \subseteq 1..printed
    BY <1>0 DEF LinesInOrder
  <2>5. CASE tty' = tty
    <3>1. RelayTypes'
      BY <1>0, <1>2, <2>2, <2>3, <2>5 DEF RelayTypes
    <3>2. kept \subseteq 1..printed' /\ \A r \in Posts : posts[r].lines \subseteq 1..printed'
      BY <1>9, <2>2, <2>4
    <3>3. \A i \in 1..Len(tty) : tty[i].line <= printed'
      BY <1>9, <2>2
    <3>4. LinesInOrder'
      BY <1>0, <2>3, <2>5, <3>2, <3>3 DEF LinesInOrder
    <3> QED
      BY <1>3, <2>1, <3>1, <3>4 DEF RelayIInv
  <2>6. CASE Len(tty) < TtyLines /\ tty' = Append(tty, new)
    <3> HIDE DEF new
    <3>1. /\ tty' \in Seq(Networks) /\ Len(tty') = Len(tty) + 1
          /\ tty'[Len(tty) + 1] = new
          /\ \A i \in 1..Len(tty) : tty'[i] = tty[i]
      BY <1>4, <2>2, <2>6
    <3>2. RelayTypes'
      BY <1>0, <1>1, <1>2, <2>2, <2>3, <2>6, <3>1 DEF RelayTypes
    <3>3. \A i, j \in 1..Len(tty') : i < j => tty'[i].line < tty'[j].line
      <4> SUFFICES ASSUME NEW i \in 1..Len(tty'), NEW j \in 1..Len(tty'), i < j
                   PROVE  tty'[i].line < tty'[j].line
        OBVIOUS
      <4>1. i \in 1..Len(tty) /\ (j \in 1..Len(tty) \/ j = Len(tty) + 1)
        BY <1>9, <3>1
      <4>2. CASE j \in 1..Len(tty)
        BY <1>0, <3>1, <4>1, <4>2 DEF LinesInOrder
      <4>3. CASE j = Len(tty) + 1
        BY <1>9, <2>2, <3>1, <4>1, <4>3
      <4> QED
        BY <4>1, <4>2, <4>3
    <3>4. ASSUME NEW i \in 1..Len(tty')
          PROVE  /\ tty'[i].line <= printed + 1
                 /\ \A n \in kept : n < tty'[i].line
                 /\ \A r \in Posts : \A n \in posts[r].lines : n < tty'[i].line
      <4>1. CASE i \in 1..Len(tty)
        <5>1. tty[i].line \in 1..printed
          BY <1>9, <4>1
        <5>2. /\ \A n \in kept : n < tty[i].line
              /\ \A r \in Posts : \A n \in posts[r].lines : n < tty[i].line
          BY <1>0, <4>1 DEF LinesInOrder
        <5> QED
          BY <1>9, <3>1, <4>1, <5>1, <5>2
      <4>2. CASE i = Len(tty) + 1
        <5>1. tty'[i].line = printed + 1
          BY <2>2, <3>1, <4>2
        <5>2. \A n \in 1..printed : n < printed + 1
          BY <1>9
        <5> QED
          BY <1>9, <2>4, <5>1, <5>2
      <4> QED
        BY <1>9, <3>1, <4>1, <4>2
    <3>5. kept \subseteq 1..printed' /\ \A r \in Posts : posts[r].lines \subseteq 1..printed'
      BY <1>9, <2>2, <2>4
    <3>6. LinesInOrder'
      BY <2>2, <2>3, <3>3, <3>4, <3>5 DEF LinesInOrder
    <3> QED
      BY <1>3, <2>1, <3>2, <3>6 DEF RelayIInv
  <2> QED
    BY <1>5, <2>5, <2>6 DEF PrintLine
<1>6. CASE IntervalPasses
  <2>1. UNCHANGED <<printed, tty, kept>> /\ due' = TRUE
    BY <1>6 DEF IntervalPasses
  <2> QED
    BY <1>0, <1>2, <1>3, <2>1 DEF RelayIInv, RelayTypes, LinesInOrder, LinesApart, Posts, LastPost
<1>7. CASE Pause
  <2>1. tty # <<>> /\ tty' = Headless(tty) /\ UNCHANGED <<kept, printed, due>>
    BY <1>7 DEF Pause
  <2>2. /\ tty' \in Seq(Networks) /\ Len(tty') = Len(tty)
        /\ \A i \in 1..Len(tty) : tty'[i].line = tty[i].line
    BY <1>4, <2>1, HeadlessLines
  <2>3. RelayTypes' /\ LinesApart'
    BY <1>0, <1>2, <2>1, <2>2 DEF RelayTypes, LinesApart, Posts, LastPost
  <2>4. /\ 0 \in 0..Len(tty) /\ Len(tty') = Len(tty) - 0
        /\ \A i \in 1..Len(tty') : i + 0 = i
    BY <1>9, <2>2
  <2>5. LinesInOrder'
    BY <1>0, <1>2, <2>1, <2>2, <2>4, LaterIsInOrder
  <2> QED
    BY <1>3, <2>3, <2>5 DEF RelayIInv
<1>8. CASE ReadGarbage \/ ReadLine
  <2>1. /\ tty # <<>> /\ tty' \in Rests /\ UNCHANGED <<printed, due>>
        /\ kept' = kept \/ (bridge = "reading" /\ kept' = Heard)
    BY <1>8 DEF ReadGarbage, ReadLine
  <2>2. PICK n \in 1..Len(tty) :
          /\ tty' \in Seq(Networks) /\ Len(tty') = Len(tty) - n
          /\ \A i \in 1..Len(tty') : tty'[i].line = tty[i + n].line
    BY <1>4, <2>1, RestIsLater
  <2>3. 1 \in 1..Len(tty) /\ n \in 0..Len(tty) /\ n > 0 /\ Len(tty') <= Len(tty)
    BY <1>9, <2>2
  <2>4. kept' \subseteq 1..Len(Lines)
    <3>1. kept \subseteq 1..Len(Lines) /\ tty[1].line \in 1..Len(Lines)
      BY <1>0, <1>9, <2>3 DEF RelayTypes
    <3> QED
      BY <2>1, <3>1 DEF Heard
  <2>5. RelayTypes'
    <3>1. Len(tty') <= TtyLines
      BY <1>0, <1>1, <1>9, <2>2, <2>3 DEF RelayTypes
    <3> QED
      BY <1>0, <1>2, <2>1, <2>2, <2>4, <3>1 DEF RelayTypes
  <2>6. LinesInOrder'
    BY <1>0, <1>2, <2>1, <2>2, <2>3, LaterIsInOrder
  <2>7. \A r \in Posts : tty[1].line \notin posts[r].lines
    BY <1>0, <1>9, <2>3 DEF LinesInOrder
  <2>8. LinesApart'
    BY <1>0, <1>2, <2>1, <2>7 DEF LinesApart, Heard, Posts, LastPost
  <2> QED
    BY <1>3, <2>5, <2>6, <2>8 DEF RelayIInv
<1> QED
  BY <1>5, <1>6, <1>7, <1>8

(* A request takes what was kept and the line that made it due. *)
LEMMA PostBatchKeeps ==
    ASSUME RelayIInv, PostBatch
    PROVE  RelayIInv'
<1>1. Len(Lines) \in Nat /\ TtyLines \in Nat \ {0} /\ MaxPosts \in Nat
  BY LinesAssumption, RelayBounds
<1>2. RelayTypes /\ LinesInOrder /\ LinesApart /\ CountsAreOfPosts /\ WaitedFor
  BY DEF RelayIInv
<1>3. /\ printed \in Nat /\ Len(tty) \in Nat /\ Len(posts) \in Nat /\ Posts = 1..Len(posts)
      /\ \A i \in 1..Len(tty) : tty[i].line \in 1..printed /\ tty[i].line \in 1..Len(Lines)
  BY <1>2, LinesAreNumbers
<1> DEFINE new == [lines |-> Heard, macs |-> MacsOf(Heard), at |-> "sent", late |-> FALSE]
           k == Len(posts) + 1
<1>4. /\ bridge = "reading" /\ tty # <<>> /\ tty' \in Rests /\ Len(posts) < MaxPosts
      /\ posts' = Append(posts, new) /\ kept' = Heard /\ bridge' = "posting"
      /\ UNCHANGED <<printed, due, devices, scanEvents>>
  BY DEF PostBatch
<1>5. tty \in Seq(Networks) /\ posts \in Seq(PostRecord)
  BY <1>2 DEF RelayTypes
<1>6. PICK n \in 1..Len(tty) :
        /\ tty' \in Seq(Networks) /\ Len(tty') = Len(tty) - n
        /\ \A i \in 1..Len(tty') : tty'[i].line = tty[i + n].line
  BY <1>4, <1>5, RestIsLater
<1>7. 1 \in 1..Len(tty) /\ tty[1].line \in 1..printed /\ tty[1].line \in 1..Len(Lines)
  BY <1>3, <1>6
<1>8. Heard \subseteq 1..Len(Lines) /\ Heard \subseteq 1..printed
  BY <1>2, <1>7 DEF RelayTypes, LinesInOrder, Heard
<1>9. MacsOf(Heard) \subseteq Macs
  BY <1>8, LinesAssumption DEF MacsOf
<1>10. /\ new \in PostRecord /\ new.lines = Heard /\ new.macs = MacsOf(Heard)
       /\ new.at = "sent" /\ new.late = FALSE
  BY <1>8, <1>9 DEF PostRecord
<1> HIDE DEF new
<1>11. /\ posts' \in Seq(PostRecord) /\ Len(posts') = k /\ k \in Nat
       /\ posts'[k] = new /\ \A r \in 1..Len(posts) : posts'[r] = posts[r]
       /\ Posts' = 1..k /\ Posts' = Posts \cup {k} /\ k \notin Posts
  <2>1. /\ posts' \in Seq(PostRecord) /\ Len(posts') = k
        /\ posts'[k] = new /\ \A r \in 1..Len(posts) : posts'[r] = posts[r]
    BY <1>4, <1>5, <1>10
  <2>2. Posts' = 1..k
    BY <2>1 DEF Posts
  <2> QED
    BY <1>3, <2>1, <2>2
<1> HIDE DEF k
<1>12. RelayTypes'
  <2>1. Len(tty') <= TtyLines /\ Len(posts') <= MaxPosts
    BY <1>1, <1>2, <1>3, <1>4, <1>6, <1>11 DEF RelayTypes, k
  <2> QED
    BY <1>2, <1>4, <1>6, <1>8, <1>11, <2>1 DEF RelayTypes
<1>13. LinesInOrder'
  <2>1. \A i \in 1..Len(tty') : i + n \in 1..Len(tty) /\ 1 < i + n
    BY <1>3, <1>6
  <2>2. ASSUME NEW i \in 1..Len(tty')
        PROVE  /\ tty'[i].line <= printed
               /\ \A h \in Heard : h < tty'[i].line
               /\ \A r \in Posts : \A h \in posts[r].lines : h < tty'[i].line
    <3> DEFINE j == i + n
    <3>1. j \in 1..Len(tty) /\ 1 < j /\ tty'[i].line = tty[j].line
      BY <1>6, <2>1
    <3> HIDE DEF j
    <3>2. /\ tty[j].line <= printed
          /\ \A h \in kept : h < tty[j].line
          /\ \A r \in Posts : \A h \in posts[r].lines : h < tty[j].line
          /\ tty[1].line < tty[j].line
      BY <1>2, <1>7, <3>1 DEF LinesInOrder
    <3> QED
      BY <3>1, <3>2 DEF Heard
  <2>3. ASSUME NEW i \in 1..Len(tty'), NEW j \in 1..Len(tty'), i < j
        PROVE  tty'[i].line < tty'[j].line
    <3>1. i + n \in 1..Len(tty) /\ j + n \in 1..Len(tty) /\ i + n < j + n
      BY <1>3, <1>6, <2>1, <2>3
    <3>2. tty[i + n].line < tty[j + n].line
      BY <1>2, <3>1 DEF LinesInOrder
    <3> QED
      BY <1>6, <3>2
  <2>4. \A r \in Posts' : r \in Posts \/ posts'[r].lines = Heard
    BY <1>10, <1>11
  <2>5. \A r \in Posts : posts'[r] = posts[r]
    BY <1>3, <1>11
  <2>6. \A r \in Posts : posts[r].lines \subseteq 1..printed
    BY <1>2 DEF LinesInOrder
  <2> QED
    BY <1>4, <1>8, <2>2, <2>3, <2>4, <2>5, <2>6 DEF LinesInOrder
<1>14. \A r \in Posts : Heard \cap posts[r].lines = {}
  <2>1. \A r \in Posts : kept \cap posts[r].lines = {}
    BY <1>2, <1>4 DEF LinesApart
  <2>2. \A r \in Posts : tty[1].line \notin posts[r].lines
    BY <1>2, <1>3, <1>7 DEF LinesInOrder
  <2> QED
    BY <2>1, <2>2 DEF Heard
<1>15. LinesApart'
  <2>1. \A q, r \in Posts' : q # r => posts'[q].lines \cap posts'[r].lines = {}
    BY <1>2, <1>3, <1>10, <1>11, <1>14 DEF LinesApart
  <2>2. posts' # <<>> /\ kept' = posts'[LastPost'].lines
    BY <1>3, <1>4, <1>10, <1>11 DEF LastPost, k
  <2> QED
    BY <1>4, <2>1, <2>2 DEF LinesApart
<1>16. CountsAreOfPosts'
  <2>1. \A r \in Posts' : posts'[r].macs \subseteq MacsOf(posts'[r].lines)
    BY <1>2, <1>3, <1>10, <1>11 DEF CountsAreOfPosts
  <2>2. \A m : Tried(m)' = Tried(m)
    BY <1>3, <1>10, <1>11 DEF Tried
  <2> QED
    BY <1>2, <1>4, <1>11, <2>1, <2>2 DEF CountsAreOfPosts
<1>17. WaitedFor'
  <2>1. GivenUp' = GivenUp
    BY <1>3, <1>10, <1>11 DEF GivenUp
  <2>2. GivenUp = {} => \A r \in Posts : posts'[r].at \notin {"sent", "ingest"}
    BY <1>2, <1>3, <1>4, <1>11 DEF WaitedFor
  <2> QED
    BY <1>4, <1>11, <2>1, <2>2 DEF WaitedFor, LastPost
<1> QED
  BY <1>12, <1>13, <1>15, <1>16, <1>17 DEF RelayIInv

(* The bridge is done with a request, or at its end: what it kept is gone. *)
LEMMA BridgeDropsBatch ==
    ASSUME RelayIInv, Answered \/ GivesUp \/ Ends
    PROVE  RelayIInv'
<1>1. RelayTypes /\ LinesInOrder /\ LinesApart /\ CountsAreOfPosts /\ WaitedFor
  BY DEF RelayIInv
<1>2. /\ Len(posts) \in Nat /\ Posts = 1..Len(posts) /\ posts \in Seq(PostRecord)
  BY <1>1, LinesAreNumbers DEF RelayTypes
<1>3. /\ kept' = {} /\ bridge' \in {"reading", "ended"} /\ due' \in {due, FALSE}
      /\ UNCHANGED <<printed, tty, devices, scanEvents>>
      /\ posts' = posts \/ (bridge = "posting" /\ posts' = [posts EXCEPT ![LastPost].late = TRUE])
  BY DEF Answered, GivesUp, Ends, Posted
<1>4. /\ posts' \in Seq(PostRecord) /\ Len(posts') = Len(posts) /\ Posts' = Posts
      /\ \A r \in Posts : posts'[r].lines = posts[r].lines /\ posts'[r].macs = posts[r].macs
                          /\ posts'[r].at = posts[r].at
  <2>1. CASE posts' = posts
    BY <1>2, <2>1 DEF Posts
  <2>2. CASE bridge = "posting" /\ posts' = [posts EXCEPT ![LastPost].late = TRUE]
    <3>1. LastPost \in 1..Len(posts) /\ posts[LastPost] \in PostRecord
      BY <1>1, <1>2, <2>2 DEF LinesApart, LastPost
    <3> DEFINE overdue == [posts[LastPost] EXCEPT !.late = TRUE]
    <3>2. /\ overdue \in PostRecord /\ overdue.lines = posts[LastPost].lines
          /\ overdue.macs = posts[LastPost].macs /\ overdue.at = posts[LastPost].at
      BY <3>1 DEF PostRecord
    <3>3. posts' = [posts EXCEPT ![LastPost] = overdue]
      BY <2>2
    <3> HIDE DEF overdue
    <3> QED
      BY <1>2, <3>1, <3>2, <3>3 DEF Posts
  <2> QED
    BY <1>3, <2>1, <2>2
<1>5. RelayTypes'
  BY <1>1, <1>3, <1>4 DEF RelayTypes
<1>6. LinesInOrder' /\ LinesApart'
  BY <1>1, <1>3, <1>4 DEF LinesInOrder, LinesApart
<1>7. CountsAreOfPosts'
  <2>1. \A m : Tried(m)' = Tried(m)
    BY <1>4 DEF Tried
  <2> QED
    BY <1>1, <1>3, <1>4, <2>1 DEF CountsAreOfPosts
<1>8. WaitedFor'
  <2>1. CASE Answered
    <3>1. posts' = posts /\ posts[LastPost].at \notin {"sent", "ingest"}
      BY <2>1 DEF Answered
    <3> QED
      BY <1>1, <3>1 DEF WaitedFor, GivenUp, Posts, LastPost
  <2>2. CASE GivesUp
    <3>1. LastPost \in Posts /\ posts' = [posts EXCEPT ![LastPost].late = TRUE]
      BY <1>1, <1>2, <2>2 DEF LinesApart, LastPost, GivesUp
    <3>2. posts'[LastPost].late = TRUE
      BY <1>2, <3>1 DEF PostRecord
    <3>3. GivenUp' # {}
      BY <1>4, <3>1, <3>2 DEF GivenUp
    <3> QED
      BY <3>3 DEF WaitedFor
  <2>3. CASE Ends
    <3>1. posts' = posts /\ bridge = "reading"
      BY <2>3 DEF Ends
    <3> QED
      BY <1>1, <3>1 DEF WaitedFor, GivenUp, Posts, LastPost
  <2> QED
    BY <2>1, <2>2, <2>3
<1> QED
  BY <1>5, <1>6, <1>7, <1>8 DEF RelayIInv

(* A step that moves one request on in the cloud. *)
LEMMA CloudKeeps ==
    ASSUME RelayIInv, NEW r \in Posts, Forward(r) \/ Lost(r) \/ IngestEnds(r)
    PROVE  RelayIInv'
<1>1. RelayTypes /\ LinesInOrder /\ LinesApart /\ CountsAreOfPosts /\ WaitedFor
  BY DEF RelayIInv
<1>2. /\ Len(posts) \in Nat /\ Posts = 1..Len(posts) /\ posts \in Seq(PostRecord)
      /\ posts[r] \in PostRecord /\ Len(posts) <= MaxPosts
  BY <1>1, LinesAreNumbers DEF RelayTypes
<1>3. PICK at \in {"ingest", "lost", "over"} : posts' = [posts EXCEPT ![r].at = at]
  BY DEF Forward, Lost, IngestEnds
<1>4. /\ UNCHANGED <<printed, tty, bridge, kept, due, devices>>
      /\ scanEvents' \in {scanEvents, scanEvents \cup {r}}
      /\ posts[r].at \in {"sent", "ingest"}
  BY DEF Forward, Lost, IngestEnds
<1> DEFINE new == [posts[r] EXCEPT !.at = at]
<1>5. /\ new \in PostRecord /\ new.lines = posts[r].lines /\ new.macs = posts[r].macs
      /\ new.late = posts[r].late
  BY <1>2 DEF PostRecord
<1>6. posts' = [posts EXCEPT ![r] = new]
  BY <1>3
<1> HIDE DEF new
<1>7. /\ posts' \in Seq(PostRecord) /\ Len(posts') = Len(posts) /\ Posts' = Posts
      /\ \A q \in Posts : posts'[q].lines = posts[q].lines /\ posts'[q].macs = posts[q].macs
                          /\ posts'[q].late = posts[q].late
      /\ \A q \in Posts \ {r} : posts'[q].at = posts[q].at
  BY <1>2, <1>5, <1>6 DEF Posts
<1>8. r \in 1..MaxPosts
  BY <1>2, RelayBounds
<1>9. RelayTypes'
  BY <1>1, <1>4, <1>7, <1>8 DEF RelayTypes
<1>10. LinesInOrder'
  BY <1>1, <1>4, <1>7 DEF LinesInOrder
<1>11. LinesApart'
  <2>1. posts = <<>> <=> posts' = <<>>
    BY <1>2, <1>7
  <2>2. LastPost' = LastPost /\ (posts # <<>> => LastPost \in Posts)
    BY <1>2, <1>7 DEF LastPost
  <2> QED
    BY <1>1, <1>4, <1>7, <2>1, <2>2 DEF LinesApart
<1>12. CountsAreOfPosts'
  <2>1. \A m : Tried(m)' = Tried(m)
    BY <1>7 DEF Tried
  <2> QED
    BY <1>1, <1>4, <1>7, <2>1 DEF CountsAreOfPosts
<1>13. WaitedFor'
  <2>1. GivenUp' = GivenUp /\ LastPost' = LastPost
    BY <1>7 DEF GivenUp, LastPost
  <2> QED
    BY <1>1, <1>4, <1>7, <2>1 DEF WaitedFor
<1> QED
  BY <1>9, <1>10, <1>11, <1>12, <1>13 DEF RelayIInv

(* update_item adds at most one to a count, once for a request. *)
LEMMA IngestKeeps ==
    ASSUME RelayIInv, NEW r \in Posts, NEW m \in Macs, IngestDevice(r, m)
    PROVE  RelayIInv'
<1>1. RelayTypes /\ LinesInOrder /\ LinesApart /\ CountsAreOfPosts /\ WaitedFor
  BY DEF RelayIInv
<1>2. /\ Len(posts) \in Nat /\ Posts = 1..Len(posts) /\ posts \in Seq(PostRecord)
      /\ posts[r] \in PostRecord /\ Len(posts) <= MaxPosts /\ r \in 1..MaxPosts /\ MaxPosts \in Nat
  BY <1>1, LinesAreNumbers, RelayBounds DEF RelayTypes
<1>3. /\ m \in posts[r].macs
      /\ posts' = [posts EXCEPT ![r].macs = posts[r].macs \ {m}]
      /\ devices' \in {devices, [devices EXCEPT ![m] = Upsert(devices[m], r)]}
      /\ UNCHANGED <<printed, tty, bridge, kept, due, scanEvents>>
  BY DEF IngestDevice
<1> DEFINE new == [posts[r] EXCEPT !.macs = posts[r].macs \ {m}]
<1>4. /\ new \in PostRecord /\ new.lines = posts[r].lines /\ new.macs = posts[r].macs \ {m}
      /\ new.late = posts[r].late /\ new.at = posts[r].at
  BY <1>2 DEF PostRecord
<1>5. posts' = [posts EXCEPT ![r] = new]
  BY <1>3
<1> HIDE DEF new
<1>6. /\ posts' \in Seq(PostRecord) /\ Len(posts') = Len(posts) /\ Posts' = Posts
      /\ \A q \in Posts : /\ posts'[q].lines = posts[q].lines /\ posts'[q].at = posts[q].at
                          /\ posts'[q].late = posts[q].late
      /\ \A q \in Posts \ {r} : posts'[q].macs = posts[q].macs
      /\ posts'[r].macs = posts[r].macs \ {m}
  BY <1>2, <1>4, <1>5 DEF Posts
<1>7. m \in MacsOf(posts[r].lines)
  BY <1>1, <1>3 DEF CountsAreOfPosts
<1>8. /\ Tried(m)' = Tried(m) \cup {r} /\ r \notin Tried(m)
      /\ \A d \in Macs \ {m} : Tried(d)' = Tried(d)
  BY <1>3, <1>6, <1>7 DEF Tried
<1>9. /\ IsFiniteSet(Posts) /\ Cardinality(Posts) = Len(posts)
  <2>1. 1 \in Int /\ Len(posts) \in Int
    BY <1>2
  <2>2. /\ IsFiniteSet(1..Len(posts))
        /\ Cardinality(1..Len(posts)) = IF 1 > Len(posts) THEN 0 ELSE Len(posts) - 1 + 1
    BY <2>1, FS_Interval
  <2>3. Len(posts) = IF 1 > Len(posts) THEN 0 ELSE Len(posts) - 1 + 1
    BY <1>2
  <2> QED
    BY <1>2, <2>2, <2>3
<1>10. Tried(m) \subseteq Posts /\ Tried(m)' \subseteq Posts
  BY <1>8 DEF Tried
<1>11. /\ IsFiniteSet(Tried(m)) /\ Cardinality(Tried(m)) \in Nat
       /\ Cardinality(Tried(m)') = Cardinality(Tried(m)) + 1
       /\ Cardinality(Tried(m)') <= MaxPosts
  <2>1. IsFiniteSet(Tried(m)) /\ IsFiniteSet(Tried(m)') /\ Cardinality(Tried(m)') <= Len(posts)
    BY <1>9, <1>10, FS_Subset
  <2>2. Cardinality(Tried(m)) \in Nat /\ Cardinality(Tried(m)') \in Nat
    BY <2>1, FS_CardinalityType
  <2>3. Cardinality(Tried(m)') = Cardinality(Tried(m)) + 1
    BY <1>8, <2>1, FS_AddElement
  <2> QED
    BY <1>2, <2>1, <2>2, <2>3
<1>12. /\ devices[m] \in DeviceRecord /\ devices[m].count <= Cardinality(Tried(m))
       /\ devices \in [Macs -> DeviceRecord]
  BY <1>1 DEF RelayTypes, CountsAreOfPosts
<1> DEFINE up == Upsert(devices[m], r)
<1>13. /\ up \in DeviceRecord /\ up.last = r /\ up.count = devices[m].count + 1
       /\ up.first \in {r, devices[m].first}
  <2>1. devices[m].count \in 0..MaxPosts /\ devices[m].first \in 0..MaxPosts
    BY <1>12 DEF DeviceRecord
  <2>2. devices[m].count + 1 \in 0..MaxPosts
    BY <1>2, <1>11, <1>12, <2>1
  <2> QED
    BY <1>2, <2>1, <2>2 DEF Upsert, DeviceRecord
<1>14. devices' = devices \/ devices' = [devices EXCEPT ![m] = up]
  BY <1>3
<1> HIDE DEF up
<1>15. devices' \in [Macs -> DeviceRecord]
  BY <1>12, <1>13, <1>14
<1>16. RelayTypes'
  BY <1>1, <1>3, <1>6, <1>15 DEF RelayTypes
<1>17. LinesInOrder'
  BY <1>1, <1>3, <1>6 DEF LinesInOrder
<1>18. LinesApart'
  <2>1. posts = <<>> <=> posts' = <<>>
    BY <1>2, <1>6
  <2>2. LastPost' = LastPost /\ (posts # <<>> => LastPost \in Posts)
    BY <1>2, <1>6 DEF LastPost
  <2> QED
    BY <1>1, <1>3, <1>6, <2>1, <2>2 DEF LinesApart
<1>19. CountsAreOfPosts'
  <2>1. \A q \in Posts' : posts'[q].macs \subseteq MacsOf(posts'[q].lines)
    BY <1>1, <1>6 DEF CountsAreOfPosts
  <2>2. ASSUME NEW d \in Macs
        PROVE  /\ devices'[d].count <= Cardinality(Tried(d)')
               /\ devices'[d].last # 0 => devices'[d].last \in Tried(d)'
               /\ devices'[d].first # 0 => devices'[d].first \in Posts'
    <3>1. /\ devices[d].count <= Cardinality(Tried(d))
          /\ devices[d].last # 0 => devices[d].last \in Tried(d)
          /\ devices[d].first # 0 => devices[d].first \in Posts
      BY <1>1 DEF CountsAreOfPosts
    <3>2. CASE d # m
      BY <1>6, <1>8, <1>12, <1>14, <3>1, <3>2
    <3>3. CASE d = m
      <4>1. devices[m].count \in Nat
        BY <1>12, <1>2 DEF DeviceRecord
      <4>2. devices[m].count <= Cardinality(Tried(m)') /\ devices[m].count + 1 <= Cardinality(Tried(m)')
        BY <1>11, <1>12, <4>1
      <4>3. devices[m].last # 0 => devices[m].last \in Tried(m)'
        BY <1>8, <3>1, <3>3
      <4>4. devices'[m] = devices[m] \/ devices'[m] = up
        BY <1>12, <1>14
      <4>5. r \in Tried(m)' /\ r \in Posts'
        BY <1>6, <1>8
      <4>6. /\ devices'[m].count <= Cardinality(Tried(m)')
            /\ devices'[m].last # 0 => devices'[m].last \in Tried(m)'
            /\ devices'[m].first # 0 => devices'[m].first \in Posts'
        BY <1>6, <1>13, <3>1, <3>3, <4>2, <4>3, <4>4, <4>5
      <4> QED
        BY <3>3, <4>6
    <3> QED
      BY <3>2, <3>3
  <2>3. scanEvents' \subseteq Posts'
    BY <1>1, <1>3, <1>6 DEF CountsAreOfPosts
  <2> QED
    BY <2>1, <2>2, <2>3 DEF CountsAreOfPosts
<1>20. WaitedFor'
  <2>1. GivenUp' = GivenUp /\ LastPost' = LastPost
    BY <1>6 DEF GivenUp, LastPost
  <2> QED
    BY <1>1, <1>3, <1>6, <2>1 DEF WaitedFor
<1> QED
  BY <1>16, <1>17, <1>18, <1>19, <1>20 DEF RelayIInv

LEMMA RelayStepKeeps ==
    ASSUME RelayIInv, RelayNext
    PROVE  RelayIInv'
BY PortStepKeeps, PostBatchKeeps, BridgeDropsBatch, CloudKeeps, IngestKeeps DEF RelayNext

(* A device was in that many scans at least, for its requests have each a
   line of their own. *)
LEMMA CountedBound ==
    ASSUME RelayIInv
    PROVE  RelayTypeOK /\ CountedAtMostOnce
<1>1. RelayTypes /\ LinesInOrder /\ LinesApart /\ CountsAreOfPosts
  BY DEF RelayIInv
<1>2. RelayTypeOK
  BY <1>1 DEF RelayTypes, RelayTypeOK, Networks, PostRecord, DeviceRecord
<1>3. CountedAtMostOnce
  <2> SUFFICES ASSUME NEW m \in Macs
               PROVE  devices[m].count <= Cardinality({i \in 1..printed : m \in Lines[i]})
    BY DEF CountedAtMostOnce
  <2> DEFINE Scans == {i \in 1..printed : m \in Lines[i]}
             f == [r \in Tried(m) |-> CHOOSE i \in posts[r].lines : m \in Lines[i]]
  <2>1. \A r \in Tried(m) : f[r] \in posts[r].lines /\ m \in Lines[f[r]]
    BY DEF Tried, MacsOf
  <2>2. \A r \in Tried(m) : r \in Posts /\ posts[r].lines \subseteq 1..printed
    BY <1>1 DEF Tried, LinesInOrder
  <2>3. f \in [Tried(m) -> Scans]
    <3>1. \A r \in Tried(m) : f[r] \in Scans
      BY <2>1, <2>2
    <3> QED
      BY <3>1
  <2>4. \A q, r \in Tried(m) : f[q] = f[r] => q = r
    BY <1>1, <2>1, <2>2 DEF LinesApart
  <2> HIDE DEF f
  <2>5. f \in Injection(Tried(m), Scans)
    BY <2>3, <2>4 DEF Injection, IsInjective
  <2>6. printed \in Nat
    BY <1>1, LinesAreNumbers
  <2>7. IsFiniteSet(1..printed)
    BY <2>6, FS_Interval
  <2>8. IsFiniteSet(Scans)
    BY <2>7, FS_Subset
  <2>9. IsFiniteSet(Tried(m)) /\ Cardinality(Tried(m)) <= Cardinality(Scans)
    BY <2>5, <2>8, FS_Injection
  <2>10. Cardinality(Tried(m)) \in Nat /\ Cardinality(Scans) \in Nat
    BY <2>8, <2>9, FS_CardinalityType
  <2>11. devices[m].count \in Int /\ devices[m].count <= Cardinality(Tried(m))
    BY <1>1, RelayBounds DEF CountsAreOfPosts, RelayTypes, DeviceRecord
  <2> QED
    BY <2>9, <2>10, <2>11
<1> QED
  BY <1>2, <1>3

-----------------------------------------------------------------------------
(* SessionData: the table of devices and the storage of the app. *)

TagRecord ==
    [session : Sessions, bare : BOOLEAN, map : SUBSET DOMAIN tags,
     at : {"snapshot", "put", "query", "store", "push", "over", "failed"}]
LoadRecord ==
    [session : Sessions, data : Sessions \cup {NoSession},
     at : {"cache", "cached", "fetch", "answered", "over", "failed"}]

CloudTypes ==
    /\ size \in Sizes
    /\ tags \in Seq(TagRecord) /\ rows \subseteq DOMAIN tags
    /\ maps \cup pushes \subseteq [session : Sessions, of : SUBSET DOMAIN tags]
    /\ unmapped \subseteq DOMAIN tags /\ stale \in BOOLEAN

AppTypes ==
    /\ current \in Sessions \cup {NoSession}
    /\ loads \in Seq(LoadRecord)
    /\ shown \in [of : Sessions \cup {NoSession}, kind : {"none", "rows", "heatmap"}]
    /\ stored \in [Sessions -> Sessions \cup {NoSession}]
    /\ hurried \in BOOLEAN

LEMMA TypesSplit == TypeOK <=> RelayTypeOK /\ CloudTypes /\ AppTypes
BY DEF TypeOK, CloudTypes, AppTypes, TagRecord, LoadRecord

CloudInv == CloudTypes /\ TagsInRows /\ LastHasAll
AppInv == AppTypes /\ AnswersAreOwn /\ LastIsCurrent /\ InTurn

LEMMA SessionStarts == Init => RelayIInv /\ CloudInv /\ AppInv
<1> SUFFICES ASSUME Init PROVE RelayIInv /\ CloudInv /\ AppInv
  OBVIOUS
<1>1. RelayIInv
  BY RelayStarts DEF Init
<1>2. tags = <<>> /\ loads = <<>> /\ DOMAIN tags = {} /\ DOMAIN loads = {}
  BY DEF Init
<1>3. CloudTypes
  <2>1. tags \in Seq(TagRecord)
    BY <1>2
  <2> QED
    BY <1>2, <2>1 DEF Init, CloudTypes
<1>4. AppTypes
  <2>1. loads \in Seq(LoadRecord)
    BY <1>2
  <2>2. shown \in [of : Sessions \cup {NoSession}, kind : {"none", "rows", "heatmap"}]
    BY DEF Init, Nothing
  <2> QED
    BY <2>1, <2>2 DEF Init, AppTypes
<1>5. TagsInRows
  BY <1>2 DEF TagsInRows
<1>6. LastHasAll
  <2>1. \A s : Drawable(TagsOf(s)) = {}
    BY <1>2 DEF TagsOf, Drawable
  <2>2. Cardinality({}) = 0
    BY FS_EmptySet
  <2>3. \A s : ~(Cardinality(Drawable(TagsOf(s))) >= 3)
    BY <2>1, <2>2
  <2> QED
    BY <2>3 DEF LastHasAll, HasAll
<1>7. AnswersAreOwn /\ LastIsCurrent /\ InTurn
  BY <1>2 DEF Init, AnswersAreOwn, LastIsCurrent, InTurn, StoredIsOwn
<1> QED
  BY <1>1, <1>3, <1>4, <1>5, <1>6, <1>7 DEF CloudInv, AppInv

(* The tags of one record or another. *)
LEMMA TagFacts ==
    ASSUME CloudTypes
    PROVE  /\ DOMAIN tags = 1..Len(tags) /\ Len(tags) \in Nat
           /\ \A k \in DOMAIN tags : tags[k] \in TagRecord
           /\ IsFiniteSet(DOMAIN tags)
<1>1. DOMAIN tags = 1..Len(tags) /\ Len(tags) \in Nat
      /\ \A k \in DOMAIN tags : tags[k] \in TagRecord
  BY DEF CloudTypes
<1>2. IsFiniteSet(1..Len(tags))
  BY <1>1, FS_Interval
<1> QED
  BY <1>1, <1>2

(* One tag is replaced by another of its session, with the same reading. *)
LEMMA TagReplaced ==
    ASSUME CloudTypes, NEW k \in DOMAIN tags, NEW tag \in TagRecord,
           tag.session = tags[k].session, tags' = [tags EXCEPT ![k] = tag]
    PROVE  /\ DOMAIN tags' = DOMAIN tags /\ tags' \in Seq(TagRecord) /\ TagRecord' = TagRecord
           /\ tags'[k] = tag
           /\ \A j \in DOMAIN tags \ {k} : tags'[j] = tags[j]
           /\ \A s : TagsOf(s)' = TagsOf(s)
<1>1. DOMAIN tags = 1..Len(tags) /\ Len(tags) \in Nat /\ tags \in Seq(TagRecord)
  BY TagFacts DEF CloudTypes
<1>2. /\ DOMAIN tags' = DOMAIN tags /\ tags' \in Seq(TagRecord) /\ tags'[k] = tag
      /\ \A j \in DOMAIN tags \ {k} : tags'[j] = tags[j]
  BY <1>1
<1>3. TagRecord' = TagRecord
  BY <1>2 DEF TagRecord
<1> QED
  BY <1>2, <1>3 DEF TagsOf

(* For the sessions that a step on a tag is not about, nothing changes. *)
LEMMA OtherSessions ==
    ASSUME CloudTypes, LastHasAll, NEW k \in DOMAIN tags, NEW tag \in TagRecord,
           tag.session = tags[k].session, tags' = [tags EXCEPT ![k] = tag],
           maps \subseteq maps', unmapped \subseteq unmapped', stale => stale',
           NEW s \in Sessions, s # tags[k].session
    PROVE  HasAll(s)'
<1>1. /\ \A j \in DOMAIN tags \ {k} : tags'[j] = tags[j]
      /\ TagsOf(s)' = TagsOf(s)
  BY TagReplaced
<1>2. \A j \in TagsOf(s) : j \in DOMAIN tags \ {k}
  BY DEF TagsOf
<1>3. Drawable(TagsOf(s))' = Drawable(TagsOf(s)) /\ Queried(s)' = Queried(s)
  BY <1>1, <1>2 DEF Drawable, Queried
<1>4. HasAll(s)
  BY DEF LastHasAll
<1>5. \A j \in TagsOf(s) : tags'[j].map = tags[j].map /\ (Mapped(j) => Mapped(j)')
  BY <1>1, <1>2 DEF Mapped, MapOf
<1> QED
  BY <1>1, <1>3, <1>4, <1>5 DEF HasAll

(* A call of tagPosition begins: its session is not through yet. *)
LEMMA TagKeeps == ASSUME CloudInv, AppTypes, Tag PROVE CloudInv'
<1> DEFINE new == [session |-> current, at |-> "snapshot", bare |-> TRUE, map |-> {}]
           n == Len(tags) + 1
<1>1. CloudTypes /\ TagsInRows /\ LastHasAll
  BY DEF CloudInv
<1>2. /\ current \in Sessions /\ tags' = Append(tags, new)
      /\ UNCHANGED <<size, rows, maps, pushes, stale, unmapped>>
  BY DEF Tag, AppTypes
<1>3. new \in TagRecord /\ new.at = "snapshot" /\ new.session = current
  BY <1>2 DEF TagRecord
<1> HIDE DEF new
<1>4. DOMAIN tags = 1..Len(tags) /\ Len(tags) \in Nat /\ tags \in Seq(TagRecord)
  BY <1>1, TagFacts DEF CloudTypes
<1>5. /\ DOMAIN tags' = DOMAIN tags \cup {n} /\ n \notin DOMAIN tags
      /\ tags' \in Seq(TagRecord) /\ tags'[n] = new
      /\ \A j \in DOMAIN tags : tags'[j] = tags[j]
  BY <1>2, <1>3, <1>4
<1> HIDE DEF n
<1>6. CloudTypes'
  <2>1. TagRecord \subseteq TagRecord'
    BY <1>5 DEF TagRecord
  <2>2. tags' \in Seq(TagRecord')
    BY <1>5, <2>1
  <2>3. (maps \cup pushes)' \subseteq [session : Sessions, of : SUBSET DOMAIN tags']
    <3>1. \A p \in maps \cup pushes : p \in [session : Sessions, of : SUBSET DOMAIN tags]
      BY <1>1 DEF CloudTypes
    <3>2. \A p \in maps \cup pushes : p \in [session : Sessions, of : SUBSET DOMAIN tags']
      BY <1>5, <3>1
    <3> QED
      BY <1>2, <3>2
  <2> QED
    BY <1>1, <1>2, <1>5, <2>2, <2>3 DEF CloudTypes
<1>7. TagsInRows'
  BY <1>1, <1>2, <1>3, <1>5 DEF CloudTypes, TagsInRows
<1>8. ASSUME NEW s \in Sessions PROVE HasAll(s)'
  <2>1. CASE s = current
    BY <1>3, <1>5, <2>1 DEF HasAll, Queried, TagsOf
  <2>2. CASE s # current
    <3>1. TagsOf(s)' = TagsOf(s) /\ TagsOf(s) \subseteq DOMAIN tags
      BY <1>3, <1>5, <2>2 DEF TagsOf
    <3>2. Drawable(TagsOf(s))' = Drawable(TagsOf(s)) /\ Queried(s)' = Queried(s)
      BY <1>5, <3>1 DEF Drawable, Queried
    <3>3. HasAll(s)
      BY <1>1 DEF LastHasAll
    <3>4. \A j \in TagsOf(s) : tags'[j].map = tags[j].map /\ (Mapped(j) => Mapped(j)')
      BY <1>2, <1>5, <3>1 DEF Mapped, MapOf
    <3> QED
      BY <1>2, <3>1, <3>2, <3>3, <3>4 DEF HasAll
  <2> QED
    BY <2>1, <2>2
<1>9. LastHasAll'
  BY <1>8 DEF LastHasAll
<1> QED
  BY <1>6, <1>7, <1>9 DEF CloudInv

(* Any step of a tag: the types, and that it is in the table when it is. *)
LEMMA TagStepTypes ==
    ASSUME CloudTypes, TagsInRows, NEW k \in DOMAIN tags, NEW tag \in TagRecord,
           tag.session = tags[k].session, tags' = [tags EXCEPT ![k] = tag],
           UNCHANGED size, stale' \in BOOLEAN,
           rows' = rows \/ rows' = rows \cup {k},
           unmapped' \subseteq unmapped \cup {k},
           (maps \cup pushes)' \subseteq maps \cup pushes \cup {MapOf(k)},
           tag.at \in {"snapshot", "put"} => k \notin rows',
           tag.at \in {"query", "store", "push", "over"} => k \in rows'
    PROVE  CloudTypes' /\ TagsInRows'
<1>1. /\ DOMAIN tags' = DOMAIN tags /\ tags' \in Seq(TagRecord) /\ TagRecord' = TagRecord
      /\ tags'[k] = tag /\ \A j \in DOMAIN tags \ {k} : tags'[j] = tags[j]
  BY TagReplaced
<1>2. tags[k] \in TagRecord
  BY TagFacts
<1>3. MapOf(k) \in [session : Sessions, of : SUBSET DOMAIN tags]
  BY <1>2 DEF MapOf, TagRecord
<1>4. (maps \cup pushes)' \subseteq [session : Sessions, of : SUBSET DOMAIN tags]
  BY <1>3 DEF CloudTypes
<1>5. CloudTypes'
  BY <1>1, <1>4 DEF CloudTypes
<1>6. TagsInRows'
  BY <1>1 DEF TagsInRows
<1> QED
  BY <1>5, <1>6

(* Before a tag has asked, and once it has failed, its session has not all. *)
LEMMA NotThrough ==
    ASSUME CloudInv, NEW k \in DOMAIN tags, Snapshot(k) \/ Put(k) \/ Fails(k)
    PROVE  CloudInv'
<1>1. CloudTypes /\ TagsInRows /\ LastHasAll
  BY DEF CloudInv
<1>2. tags[k] \in TagRecord
  BY <1>1, TagFacts
<1>3. \E tag \in TagRecord :
        /\ tag.session = tags[k].session /\ tag.at \in {"put", "query", "failed"}
        /\ tags' = [tags EXCEPT ![k] = tag]
        /\ tag.at = "put" => rows' = rows /\ k \notin rows
        /\ tag.at = "query" => k \in rows'
  <2>1. CASE Snapshot(k)
    <3>1. PICK bare \in BOOLEAN : tags' = [tags EXCEPT ![k].at = "put", ![k].bare = bare]
      BY <2>1 DEF Snapshot, Visible
    <3> DEFINE tag == [tags[k] EXCEPT !.at = "put", !.bare = bare]
    <3>2. tag \in TagRecord /\ tag.session = tags[k].session /\ tag.at = "put"
      BY <1>2 DEF TagRecord
    <3>3. tags' = [tags EXCEPT ![k] = tag]
      BY <3>1
    <3>4. rows' = rows /\ k \notin rows
      BY <1>1, <2>1 DEF Snapshot, TagsInRows
    <3> HIDE DEF tag
    <3> QED
      BY <3>2, <3>3, <3>4
  <2>2. CASE Put(k)
    <3> DEFINE tag == [tags[k] EXCEPT !.at = "query"]
    <3>1. tag \in TagRecord /\ tag.session = tags[k].session /\ tag.at = "query"
      BY <1>2 DEF TagRecord
    <3>2. tags' = [tags EXCEPT ![k] = tag] /\ k \in rows'
      BY <2>2 DEF Put
    <3> HIDE DEF tag
    <3> QED
      BY <3>1, <3>2
  <2>3. CASE Fails(k)
    <3> DEFINE tag == [tags[k] EXCEPT !.at = "failed"]
    <3>1. tag \in TagRecord /\ tag.session = tags[k].session /\ tag.at = "failed"
      BY <1>2 DEF TagRecord
    <3>2. tags' = [tags EXCEPT ![k] = tag]
      BY <2>3 DEF Fails
    <3> HIDE DEF tag
    <3> QED
      BY <3>1, <3>2
  <2> QED
    BY <2>1, <2>2, <2>3
<1>4. PICK tag \in TagRecord :
        /\ tag.session = tags[k].session /\ tag.at \in {"put", "query", "failed"}
        /\ tags' = [tags EXCEPT ![k] = tag]
        /\ tag.at = "put" => rows' = rows /\ k \notin rows
        /\ tag.at = "query" => k \in rows'
  BY <1>3
<1>5. /\ UNCHANGED <<size, stale, unmapped>> /\ maps \subseteq maps'
      /\ (maps \cup pushes)' \subseteq maps \cup pushes \cup {MapOf(k)}
      /\ rows' = rows \/ rows' = rows \cup {k}
  BY DEF Snapshot, Put, Fails
<1>6. CloudTypes' /\ TagsInRows'
  <2>1. stale' \in BOOLEAN /\ unmapped' \subseteq unmapped \cup {k}
    BY <1>1, <1>5 DEF CloudTypes
  <2>2. /\ tag.at \in {"snapshot", "put"} => k \notin rows'
        /\ tag.at \in {"query", "store", "push", "over"} => k \in rows'
    BY <1>4
  <2> QED
    BY <1>1, <1>4, <1>5, <2>1, <2>2, TagStepTypes
<1>7. ASSUME NEW s \in Sessions PROVE HasAll(s)'
  <2>1. CASE s = tags[k].session
    <3>1. k \in TagsOf(s)' /\ tags'[k].at \in {"put", "query", "failed"}
      BY <1>1, <1>4, <2>1, TagReplaced DEF TagsOf
    <3> QED
      BY <3>1 DEF HasAll, Queried
  <2>2. CASE s # tags[k].session
    BY <1>1, <1>4, <1>5, <2>2, OtherSessions
  <2> QED
    BY <2>1, <2>2
<1>8. LastHasAll'
  BY <1>7 DEF LastHasAll
<1> QED
  BY <1>6, <1>8 DEF CloudInv

(* A query that sees all rows of a session whose other tags have all asked
   sees all its tags. *)
LEMMA QueryKeeps ==
    ASSUME CloudInv, NEW k \in DOMAIN tags, Query(k)
    PROVE  CloudInv'
<1>1. CloudTypes /\ TagsInRows /\ LastHasAll
  BY DEF CloudInv
<1>2. tags[k] \in TagRecord /\ DOMAIN tags = 1..Len(tags) /\ IsFiniteSet(DOMAIN tags)
  BY <1>1, TagFacts
<1> DEFINE own == tags[k].session
<1>3. PICK missing \in SUBSET RowsOf(own) :
        /\ tags' = IF Enough(RowsOf(own) \ missing)
                   THEN [tags EXCEPT ![k].at = "store", ![k].map = Drawable(RowsOf(own) \ missing)]
                   ELSE [tags EXCEPT ![k].at = "over"]
        /\ stale' = (stale \/ missing # {})
  BY DEF Query
<1> DEFINE seen == RowsOf(own) \ missing
           full == [tags[k] EXCEPT !.at = "store", !.map = Drawable(seen)]
           tag == IF Enough(seen) THEN full ELSE [tags[k] EXCEPT !.at = "over"]
<1>4. seen \subseteq DOMAIN tags /\ Drawable(seen) \subseteq DOMAIN tags
  BY <1>1 DEF CloudTypes, RowsOf, Drawable
<1>5. full \in TagRecord /\ full.session = own /\ full.at = "store" /\ full.map = Drawable(seen)
  BY <1>2, <1>4 DEF TagRecord
<1>6. tag \in TagRecord /\ tag.session = own /\ tag.at \in {"store", "over"}
  BY <1>2, <1>5 DEF TagRecord
<1>7. tags' = [tags EXCEPT ![k] = tag]
  BY <1>3
<1>8. /\ UNCHANGED <<size, rows, maps, pushes, unmapped>> /\ k \in rows
      /\ (stale => stale') /\ stale' \in BOOLEAN
  BY <1>1, <1>3 DEF Query, TagsInRows, CloudTypes
<1>9. Enough(seen) => tag = full
  OBVIOUS
<1> HIDE DEF tag, full
<1>10. CloudTypes' /\ TagsInRows'
  BY <1>1, <1>6, <1>7, <1>8, TagStepTypes
<1>11. ASSUME NEW s \in Sessions PROVE HasAll(s)'
  <2>1. CASE s = own
    <3> SUFFICES ASSUME ~stale', Queried(s)', Cardinality(Drawable(TagsOf(s))') >= 3
                 PROVE  \E j \in TagsOf(s)' :
                            tags'[j].at = "store" /\ tags'[j].map = Drawable(TagsOf(s))'
      BY DEF HasAll, Mapped
    <3>1. /\ TagsOf(s)' = TagsOf(s) /\ tags'[k] = tag
          /\ \A j \in DOMAIN tags \ {k} : tags'[j] = tags[j]
      BY <1>1, <1>6, <1>7, TagReplaced
    <3>2. \A j \in TagsOf(s) : j \in rows
      BY <1>1, <1>8, <3>1 DEF Queried, TagsOf, TagsInRows
    <3>3. RowsOf(own) = TagsOf(s)
      BY <1>1, <2>1, <3>2 DEF RowsOf, TagsOf, CloudTypes
    <3>4. missing = {}
      BY <1>3
    <3>5. seen = TagsOf(s)
      BY <3>3, <3>4
    <3>6. tag.bare = tags[k].bare
      BY <1>2 DEF tag, full, TagRecord
    <3>7. Drawable(TagsOf(s))' = Drawable(TagsOf(s))
      BY <3>1, <3>6 DEF Drawable, TagsOf
    <3>8. Enough(TagsOf(s))
      <4>1. TagsOf(s) \subseteq DOMAIN tags /\ Drawable(TagsOf(s)) \subseteq TagsOf(s)
        BY DEF TagsOf, Drawable
      <4>2. IsFiniteSet(TagsOf(s))
        BY <1>2, <4>1, FS_Subset
      <4>3. /\ IsFiniteSet(Drawable(TagsOf(s)))
            /\ Cardinality(Drawable(TagsOf(s))) <= Cardinality(TagsOf(s))
        BY <4>1, <4>2, FS_Subset
      <4>4. Cardinality(Drawable(TagsOf(s))) \in Nat /\ Cardinality(TagsOf(s)) \in Nat
        BY <4>2, <4>3, FS_CardinalityType
      <4> QED
        BY <3>7, <4>3, <4>4 DEF Enough
    <3>9. tags'[k] = full
      BY <1>9, <3>1, <3>5, <3>8
    <3>10. k \in TagsOf(s)'
      BY <2>1, <3>1 DEF TagsOf
    <3> QED
      BY <1>5, <3>5, <3>7, <3>9, <3>10
  <2>2. CASE s # own
    BY <1>1, <1>6, <1>7, <1>8, <2>2, OtherSessions
  <2> QED
    BY <2>1, <2>2
<1>12. LastHasAll'
  BY <1>11 DEF LastHasAll
<1> QED
  BY <1>10, <1>12 DEF CloudInv

(* The map of a tag is stored or cannot be, and is announced. *)
LEMMA StoreKeeps ==
    ASSUME CloudInv, NEW k \in DOMAIN tags, Store(k) \/ MapFails(k) \/ Push(k)
    PROVE  CloudInv'
<1>1. CloudTypes /\ TagsInRows /\ LastHasAll
  BY DEF CloudInv
<1>2. tags[k] \in TagRecord
  BY <1>1, TagFacts
<1>3. PICK at \in {"push", "over"} : tags' = [tags EXCEPT ![k].at = at]
  BY DEF Store, MapFails, Push
<1> DEFINE tag == [tags[k] EXCEPT !.at = at]
<1>4. /\ tag \in TagRecord /\ tag.session = tags[k].session /\ tag.at = at
      /\ tag.bare = tags[k].bare /\ tag.map = tags[k].map
  BY <1>2 DEF TagRecord
<1>5. tags' = [tags EXCEPT ![k] = tag]
  BY <1>3
<1>6. /\ UNCHANGED <<size, rows, stale>> /\ maps \subseteq maps'
      /\ unmapped \subseteq unmapped' /\ unmapped' \subseteq unmapped \cup {k}
      /\ (maps \cup pushes)' \subseteq maps \cup pushes \cup {MapOf(k)}
      /\ tags[k].at \in {"store", "push"}
      /\ tags[k].at = "store" => MapOf(k) \in maps' \/ k \in unmapped'
  BY DEF Store, MapFails, Push
<1> HIDE DEF tag
<1>7. CloudTypes' /\ TagsInRows'
  <2>1. stale' \in BOOLEAN /\ k \in rows /\ tag.at \notin {"snapshot", "put"}
    BY <1>1, <1>4, <1>6 DEF CloudTypes, TagsInRows
  <2> QED
    BY <1>1, <1>4, <1>5, <1>6, <2>1, TagStepTypes
<1>8. ASSUME NEW s \in Sessions PROVE HasAll(s)'
  <2>1. CASE s = tags[k].session
    <3>1. /\ TagsOf(s)' = TagsOf(s) /\ tags'[k] = tag
          /\ \A j \in DOMAIN tags \ {k} : tags'[j] = tags[j]
      BY <1>1, <1>4, <1>5, TagReplaced
    <3>2. Drawable(TagsOf(s))' = Drawable(TagsOf(s))
      BY <1>4, <3>1 DEF Drawable, TagsOf
    <3>3. Queried(s)' => Queried(s)
      BY <1>4, <1>6, <3>1 DEF Queried, TagsOf
    <3>4. HasAll(s)
      BY <1>1 DEF LastHasAll
    <3>5. ASSUME NEW j \in TagsOf(s) PROVE tags'[j].map = tags[j].map /\ MapOf(j)' = MapOf(j)
      BY <1>4, <3>1 DEF MapOf, TagsOf
    <3>6. ASSUME NEW j \in TagsOf(s), Mapped(j) PROVE Mapped(j)'
      <4>1. CASE j = k
        BY <1>6, <3>5, <3>6, <4>1 DEF Mapped
      <4>2. CASE j # k
        BY <1>6, <3>1, <3>5, <3>6, <4>2 DEF Mapped, TagsOf
      <4> QED
        BY <4>1, <4>2
    <3> QED
      BY <1>6, <3>1, <3>2, <3>3, <3>4, <3>5, <3>6 DEF HasAll
  <2>2. CASE s # tags[k].session
    BY <1>1, <1>4, <1>5, <1>6, <2>2, OtherSessions
  <2> QED
    BY <2>1, <2>2
<1>9. LastHasAll'
  BY <1>8 DEF LastHasAll
<1> QED
  BY <1>7, <1>9 DEF CloudInv

(* Selecting a session begins a load, which is then the last. *)
LEMMA SelectKeeps == ASSUME AppInv, NEW s \in Sessions, Select(s) PROVE AppInv'
<1>1. AppTypes /\ AnswersAreOwn /\ LastIsCurrent /\ InTurn
  BY DEF AppInv
<1> DEFINE new == [session |-> s, at |-> "cache", data |-> NoSession]
           n == Len(loads) + 1
<1>2. /\ current' = s /\ loads' = Append(loads, new) /\ UNCHANGED <<shown, stored>>
      /\ hurried' = (hurried \/ Loading # {})
  BY DEF Select
<1>3. new \in LoadRecord /\ new.session = s /\ new.at = "cache"
  BY DEF LoadRecord
<1> HIDE DEF new
<1>4. /\ loads' \in Seq(LoadRecord) /\ DOMAIN loads' = DOMAIN loads \cup {n}
      /\ Len(loads') = n /\ loads'[n] = new /\ DOMAIN loads = 1..Len(loads) /\ Len(loads) \in Nat
      /\ \A i \in DOMAIN loads : loads'[i] = loads[i] /\ i < n
  BY <1>1, <1>2, <1>3 DEF AppTypes
<1> HIDE DEF n
<1>5. AppTypes'
  BY <1>1, <1>2, <1>4 DEF AppTypes
<1>6. AnswersAreOwn'
  BY <1>1, <1>2, <1>3, <1>4 DEF AnswersAreOwn, StoredIsOwn
<1>7. LastIsCurrent'
  BY <1>2, <1>3, <1>4 DEF LastIsCurrent
<1>8. InTurn'
  <2>1. ~hurried' => \A i \in DOMAIN loads : loads[i].at \in {"over", "failed"}
    BY <1>2 DEF Loading
  <2>2. ~hurried' => \A i \in DOMAIN loads' : i < Len(loads') => loads'[i].at \in {"over", "failed"}
    BY <1>4, <2>1
  <2> QED
    BY <1>3, <1>4, <2>2 DEF InTurn
<1> QED
  BY <1>5, <1>6, <1>7, <1>8 DEF AppInv

(* One load is replaced by another state of it: what it answers is its own,
   and what it shows are the rows that it answered with. *)
LEMMA LoadKeeps ==
    ASSUME AppInv, NEW i \in DOMAIN loads,
           ReadCache(i) \/ ShowCached(i) \/ GetMap(i) \/ Arrive(i)
    PROVE  AppInv'
<1>1. AppTypes /\ AnswersAreOwn /\ LastIsCurrent /\ InTurn
  BY DEF AppInv
<1>2. /\ loads \in Seq(LoadRecord) /\ DOMAIN loads = 1..Len(loads) /\ Len(loads) \in Nat
      /\ loads[i] \in LoadRecord /\ stored \in [Sessions -> Sessions \cup {NoSession}]
  BY <1>1 DEF AppTypes
<1>3. loads[i].session \in Sessions /\ loads[i].data \in Sessions \cup {NoSession}
  BY <1>2 DEF LoadRecord
<1>4. \E load \in LoadRecord :
        /\ load.session = loads[i].session /\ loads' = [loads EXCEPT ![i] = load]
        /\ load.at = "answered" => load.data = load.session
        /\ load.at = "over" => Arrive(i)
  <2>1. CASE ReadCache(i)
    <3> DEFINE load == [loads[i] EXCEPT !.at = "cached", !.data = stored[Load(i)]]
    <3>1. load \in LoadRecord /\ load.session = loads[i].session /\ load.at = "cached"
      BY <1>2, <1>3 DEF LoadRecord, Load
    <3>2. loads' = [loads EXCEPT ![i] = load]
      BY <2>1 DEF ReadCache
    <3> HIDE DEF load
    <3> QED
      BY <3>1, <3>2
  <2>2. CASE ShowCached(i)
    <3> DEFINE load == [loads[i] EXCEPT !.at = "fetch"]
    <3>1. load \in LoadRecord /\ load.session = loads[i].session /\ load.at = "fetch"
      BY <1>2 DEF LoadRecord
    <3>2. loads' = [loads EXCEPT ![i] = load]
      BY <2>2 DEF ShowCached
    <3> HIDE DEF load
    <3> QED
      BY <3>1, <3>2
  <2>3. CASE GetMap(i)
    <3> DEFINE answered == [loads[i] EXCEPT !.at = "answered", !.data = Load(i)]
               failed == [loads[i] EXCEPT !.at = "failed"]
    <3>1. /\ answered \in LoadRecord /\ answered.session = loads[i].session
          /\ answered.at = "answered" /\ answered.data = loads[i].session
          /\ failed \in LoadRecord /\ failed.session = loads[i].session /\ failed.at = "failed"
      BY <1>2, <1>3 DEF LoadRecord, Load
    <3>2. loads' = [loads EXCEPT ![i] = answered] \/ loads' = [loads EXCEPT ![i] = failed]
      BY <2>3 DEF GetMap
    <3> HIDE DEF answered, failed
    <3> QED
      BY <3>1, <3>2
  <2>4. CASE Arrive(i)
    <3> DEFINE load == [loads[i] EXCEPT !.at = "over"]
    <3>1. load \in LoadRecord /\ load.session = loads[i].session /\ load.at = "over"
      BY <1>2 DEF LoadRecord
    <3>2. loads' = [loads EXCEPT ![i] = load]
      BY <2>4 DEF Arrive
    <3> HIDE DEF load
    <3> QED
      BY <2>4, <3>1, <3>2
  <2> QED
    BY <2>1, <2>2, <2>3, <2>4
<1>5. PICK load \in LoadRecord :
        /\ load.session = loads[i].session /\ loads' = [loads EXCEPT ![i] = load]
        /\ load.at = "answered" => load.data = load.session
        /\ load.at = "over" => Arrive(i)
  BY <1>4
<1>6. /\ loads' \in Seq(LoadRecord) /\ Len(loads') = Len(loads) /\ DOMAIN loads' = DOMAIN loads
      /\ loads'[i] = load /\ \A j \in DOMAIN loads \ {i} : loads'[j] = loads[j]
  BY <1>2, <1>5
<1>7. UNCHANGED <<current, hurried>> /\ loads[i].at \in {"cache", "cached", "fetch", "answered"}
  BY DEF ReadCache, ShowCached, GetMap, Arrive
<1>8. Arrive(i) => /\ loads[i].data = loads[i].session
                   /\ shown' = [of |-> loads[i].session, kind |-> "rows"]
                   /\ stored' \in {stored, [stored EXCEPT ![loads[i].session] = loads[i].session]}
  BY <1>1 DEF Arrive, AnswersAreOwn, Fetched, Key, Load
<1>9. ~Arrive(i) => stored' = stored
  BY DEF ReadCache, ShowCached, GetMap
<1>10. shown' \in [of : Sessions \cup {NoSession}, kind : {"none", "rows", "heatmap"}]
  <2>1. shown' = shown \/ shown' = [of |-> loads[i].data, kind |-> "rows"]
    BY DEF ReadCache, ShowCached, GetMap, Arrive, Fetched
  <2> QED
    BY <1>1, <1>3, <2>1 DEF AppTypes
<1>11. stored' \in [Sessions -> Sessions \cup {NoSession}] /\ StoredIsOwn'
  <2>1. StoredIsOwn
    BY <1>1 DEF AnswersAreOwn
  <2>2. stored' = stored \/ stored' = [stored EXCEPT ![loads[i].session] = loads[i].session]
    BY <1>8, <1>9
  <2> QED
    BY <1>2, <1>3, <2>1, <2>2 DEF StoredIsOwn
<1>12. AppTypes'
  BY <1>1, <1>6, <1>7, <1>10, <1>11 DEF AppTypes
<1>13. AnswersAreOwn'
  BY <1>1, <1>5, <1>6, <1>11 DEF AnswersAreOwn
<1>14. LastIsCurrent'
  <2>1. loads # <<>> /\ Len(loads) \in DOMAIN loads
    BY <1>2
  <2> QED
    BY <1>1, <1>5, <1>6, <1>7, <2>1 DEF LastIsCurrent
<1>15. InTurn'
  <2> SUFFICES ASSUME ~hurried PROVE InTurn'
    BY <1>7 DEF InTurn
  <2>1. \A j \in DOMAIN loads : j < Len(loads) => loads[j].at \in {"over", "failed"}
    BY <1>1 DEF InTurn
  <2>2. i = Len(loads)
    BY <1>2, <1>7, <2>1
  <2>3. \A j \in DOMAIN loads' : j < Len(loads') => loads'[j].at \in {"over", "failed"}
    BY <1>2, <1>6, <2>1, <2>2
  <2>4. loads # <<>> /\ current = loads[i].session
    BY <1>1, <1>2, <2>2 DEF LastIsCurrent
  <2>5. loads'[Len(loads')].at = "over" => shown' = [of |-> current', kind |-> "rows"]
    BY <1>5, <1>6, <1>7, <1>8, <2>2, <2>4
  <2> QED
    BY <2>3, <2>5 DEF InTurn
<1> QED
  BY <1>12, <1>13, <1>14, <1>15 DEF AppInv

(* A map_update takes the place of what is shown. *)
LEMMA UpdateKeeps ==
    ASSUME CloudInv, AppInv, NEW p \in pushes, MapUpdate(p)
    PROVE  CloudInv' /\ AppInv'
<1>1. /\ pushes' = pushes \ {p} /\ shown' = [of |-> p.session, kind |-> "heatmap"]
      /\ UNCHANGED <<size, tags, rows, maps, stale, unmapped, current, loads, stored, hurried>>
  BY DEF MapUpdate
<1>2. p.session \in Sessions
  BY DEF CloudInv, CloudTypes
<1>3. CloudInv'
  BY <1>1 DEF CloudInv, CloudTypes, TagRecord, TagsInRows, LastHasAll, HasAll, Mapped, MapOf,
         Queried, TagsOf, Drawable
<1>4. AppInv'
  BY <1>1, <1>2 DEF AppInv, AppTypes, AnswersAreOwn, StoredIsOwn, LastIsCurrent, InTurn
<1> QED
  BY <1>3, <1>4

LEMMA SessionStepKeeps ==
    ASSUME RelayIInv, CloudInv, AppInv, [Next]_vars
    PROVE  RelayIInv' /\ CloudInv' /\ AppInv'
<1>1. ASSUME UNCHANGED relayVars PROVE RelayIInv'
  BY <1>1 DEF relayVars, RelayIInv, RelayTypes, LinesInOrder, LinesApart, CountsAreOfPosts, Tried,
              WaitedFor, GivenUp, Posts, LastPost
<1>2. ASSUME UNCHANGED <<size, server>> PROVE CloudInv'
  BY <1>2 DEF server, CloudInv, CloudTypes, TagRecord, TagsInRows, LastHasAll, HasAll, Mapped,
              MapOf, Queried, TagsOf, Drawable
<1>3. ASSUME UNCHANGED app PROVE AppInv'
  BY <1>3 DEF app, AppInv, AppTypes, AnswersAreOwn, StoredIsOwn, LastIsCurrent, InTurn
<1>4. CASE RelayNext /\ printed' <= size.lines /\ UNCHANGED <<size, server, app>>
  BY <1>2, <1>3, <1>4, RelayStepKeeps
<1>5. CASE Tag
  <2>1. UNCHANGED relayVars /\ UNCHANGED app /\ AppTypes
    BY <1>5 DEF Tag, AppInv
  <2> QED
    BY <1>1, <1>3, <1>5, <2>1, TagKeeps
<1>6. ASSUME NEW k \in DOMAIN tags,
             \/ Snapshot(k) \/ Put(k) \/ Query(k) \/ Store(k) \/ MapFails(k)
             \/ Push(k) \/ Fails(k)
      PROVE  RelayIInv' /\ CloudInv' /\ AppInv'
  <2>1. UNCHANGED relayVars /\ UNCHANGED app
    BY <1>6 DEF Snapshot, Put, Query, Store, MapFails, Push, Fails
  <2> QED
    BY <1>1, <1>3, <1>6, <2>1, NotThrough, QueryKeeps, StoreKeeps
<1>7. ASSUME NEW s \in Sessions, Select(s) PROVE RelayIInv' /\ CloudInv' /\ AppInv'
  <2>1. UNCHANGED relayVars /\ UNCHANGED <<size, server>>
    BY <1>7 DEF Select
  <2> QED
    BY <1>1, <1>2, <1>7, <2>1, SelectKeeps
<1>8. ASSUME NEW i \in DOMAIN loads, ReadCache(i) \/ ShowCached(i) \/ GetMap(i) \/ Arrive(i)
      PROVE  RelayIInv' /\ CloudInv' /\ AppInv'
  <2>1. UNCHANGED relayVars /\ UNCHANGED <<size, server>>
    BY <1>8 DEF ReadCache, ShowCached, GetMap, Arrive
  <2> QED
    BY <1>1, <1>2, <1>8, <2>1, LoadKeeps
<1>9. ASSUME NEW p \in pushes, MapUpdate(p) PROVE RelayIInv' /\ CloudInv' /\ AppInv'
  <2>1. UNCHANGED relayVars
    BY <1>9 DEF MapUpdate
  <2> QED
    BY <1>1, <1>9, <2>1, UpdateKeeps
<1>10. CASE UNCHANGED vars
  BY <1>1, <1>2, <1>3, <1>10 DEF vars
<1> QED
  BY <1>4, <1>5, <1>6, <1>7, <1>8, <1>9, <1>10 DEF Next

LEMMA SessionAlways == Spec => [](RelayIInv /\ CloudInv /\ AppInv)
<1>1. Init => RelayIInv /\ CloudInv /\ AppInv
  BY SessionStarts
<1>2. RelayIInv /\ CloudInv /\ AppInv /\ [Next]_vars => (RelayIInv /\ CloudInv /\ AppInv)'
  BY SessionStepKeeps
<1> QED
  BY <1>1, <1>2, PTL DEF Spec

(* Type correctness of SerialRelay and SessionData; a scan adds to the count
   of a device at most once, whatever requests are lost, given up and
   ingested late; what the app keeps under a session's key are its rows. *)
THEOREM DataIsSound == Spec => []DataInv
<1>1. RelayIInv /\ CloudInv /\ AppInv => DataInv
  BY CountedBound, TypesSplit DEF DataInv, CloudInv, AppInv, AnswersAreOwn
<1> QED
  BY <1>1, SessionAlways, PTL

(* When the create_position() calls of a session are over, none has failed
   and none has read something out of date, one of them has taken every
   position that has a reading to the mapper, however the calls ran side by
   side: its map is in the table, or it is that very call which could not
   import ml, draw the map or store it. *)
THEOREM AMapCoversAll == Spec => []MapCoversAll
<1>1. ASSUME CloudInv PROVE MapCoversAll
  <2> SUFFICES ASSUME NEW s \in Sessions, ~stale, \A k \in TagsOf(s) : tags[k].at = "over",
                      Cardinality(Drawable(TagsOf(s))) >= 3
               PROVE  \E k \in TagsOf(s) : /\ tags[k].map = Drawable(TagsOf(s))
                                           /\ MapOf(k) \in maps \/ k \in unmapped
    BY DEF MapCoversAll
  <2>1. HasAll(s) /\ Queried(s)
    BY <1>1 DEF CloudInv, LastHasAll, Queried
  <2> QED
    BY <2>1 DEF HasAll, Mapped
<1> QED
  BY <1>1, SessionAlways, PTL

(* The map screen shows the session that is selected once all is loaded,
   unless it was changed in a hurry or a map_update came since. *)
THEOREM ScreenShowsSelected == Spec => []SettledShowsSelected
<1>1. ASSUME AppInv PROVE SettledShowsSelected
  <2> SUFFICES ASSUME ~hurried, shown.kind # "heatmap", loads # <<>>,
                      \A i \in DOMAIN loads : loads[i].at = "over"
               PROVE  shown = [of |-> current, kind |-> "rows"]
    BY DEF SettledShowsSelected
  <2>1. Len(loads) \in DOMAIN loads
    BY <1>1 DEF AppInv, AppTypes
  <2> QED
    BY <1>1, <2>1 DEF AppInv, InTurn
<1> QED
  BY <1>1, SessionAlways, PTL

(* Until the bridge gives a request up that is still under way, the table is
   as if the scans of a device came in order: one request is open, and the
   last_seen it leaves is later than any before. *)
THEOREM TableIsInOrder == Spec => SeenInOrder
<1> DEFINE Ordered ==
        \A m \in Macs : devices'[m] # devices[m] /\ GivenUp = {} =>
            /\ devices'[m].last > devices[m].last
            /\ devices[m].count > 0 => devices'[m].first = devices[m].first
<1>1. ASSUME RelayIInv, [Next]_vars PROVE [Ordered]_relayVars
  <2> SUFFICES ASSUME NEW d \in Macs, devices'[d] # devices[d], GivenUp = {}
               PROVE  /\ devices'[d].last > devices[d].last
                      /\ devices[d].count > 0 => devices'[d].first = devices[d].first
    OBVIOUS
  <2>1. \E r \in Posts : \E m \in Macs : IngestDevice(r, m)
    BY <1>1 DEF Next, vars, relayVars, RelayNext, PrintLine, Pause, ReadGarbage, ReadLine, PostBatch,
                IntervalPasses, Answered, GivesUp, Ends, Forward, Lost, IngestEnds, Tag, Snapshot,
                Put, Query, Store, MapFails, Push, Fails, Select, ReadCache, ShowCached, GetMap,
                Arrive, MapUpdate
  <2>2. PICK r \in Posts, m \in Macs : IngestDevice(r, m)
    BY <2>1
  <2>3. RelayTypes /\ LinesInOrder /\ CountsAreOfPosts /\ WaitedFor
    BY <1>1 DEF RelayIInv
  <2>4. devices \in [Macs -> DeviceRecord] /\ devices[d] \in DeviceRecord /\ MaxPosts \in Nat
    BY <2>3, RelayBounds DEF RelayTypes
  <2>5. d = m /\ devices'[d] = Upsert(devices[d], r) /\ d \in posts[r].macs
    BY <2>2, <2>4 DEF IngestDevice
  <2>6. r = LastPost
    BY <2>2, <2>3 DEF IngestDevice, WaitedFor
  <2>7. devices[d].last # 0 => devices[d].last \in Posts /\ devices[d].last # r
    BY <2>3, <2>5 DEF CountsAreOfPosts, Tried
  <2>8. Posts = 1..Len(posts) /\ Len(posts) \in Nat
    BY <2>3, LinesAreNumbers
  <2>9. devices[d].last < r
    BY <2>4, <2>6, <2>7, <2>8 DEF LastPost
  <2>10. devices'[d].last = r /\ (devices[d].count # 0 => devices'[d].first = devices[d].first)
    BY <2>5 DEF Upsert
  <2>11. devices[d].last \in Int /\ r \in Int
    BY <2>4, <2>8 DEF DeviceRecord
  <2> QED
    BY <2>9, <2>10, <2>11
<1>2. Spec => [][Ordered]_relayVars
  BY <1>1, SessionAlways, PTL DEF Spec
<1> QED
  BY <1>2 DEF SeenInOrder

-----------------------------------------------------------------------------
(* SensorBridge: the types of its variables, and of what a reading is. *)
LineRecord ==
    [stream : Streams \cup {"wifi"}, mac : Senders, wide : BOOLEAN, into : 0..MaxReadings]
BusySteps == {"clear", "feed", "take", "drop", "publish"}
PcType ==
    [Threads -> BusySteps \cup {"loop", "copy", "done", "dead", "disconnect", "close", "exit",
                                "gone"}]
Numbers == 1..Len(readings)

WindowTypes ==
    /\ kind \in Kinds
    /\ readings \in Seq(LineRecord) /\ Len(readings) <= MaxReadings
    /\ agg \in [Streams -> SUBSET Numbers] /\ slot \in [Streams -> SUBSET Numbers]
    /\ hand \in [Threads -> SUBSET Numbers] /\ frame \in [Threads -> SUBSET Numbers]
    /\ again \subseteq sent /\ sent \cup late \cup disturbed \subseteq Numbers
    /\ deques \in [Senders -> Seq(BOOLEAN)]
    /\ \A m \in Senders : Len(deques[m]) <= WindowSize

(* What add() has looked up is an object of BLE, which may have left the
   aggregator. *)
SourceTypes ==
    /\ {running, plugged, healthy, online, nested} \subseteq BOOLEAN
    /\ unplugs \in 0..MaxUnplugs
    /\ handle \in {"none", "live", "stale"} /\ (kind = "ssh" => handle = "none")
    /\ reader \in {"open", "connect", "read", "merge", "add", "done"}
    /\ reader \in {"connect", "add"} => kind \in RouterKinds
    /\ fetched \in {<<>>} \cup (Senders \X ({0} \cup Numbers))
    /\ reader = "merge" =>
          /\ kind = "esp32" /\ fetched # <<>>
          /\ fetched[2] # 0 => readings[fetched[2]].stream = "ble"

(* Where the threads are: a thread that has a window in hand or a slot to
   look into has a stream of this bridge to flush, and the main thread has
   but the final flush of the ESP32's, once running is cleared. *)
ThreadsInStep ==
    /\ pc \in PcType
    /\ todo \in [Threads -> Seq(StreamsOf(kind))]
    /\ \A t \in Threads :
          /\ Busy(t) => todo[t] # <<>>
          /\ hand[t] # {} => pc[t] \in {"clear", "feed", "drop"}
          /\ frame[t] # {} => pc[t] = "publish"
    /\ pc[Main] # "dead" /\ pc[Flusher] # "close"
    /\ Busy(Main) \/ pc[Main] = "copy" => kind = "esp32" /\ todo[Main] = <<"ble">>
    /\ pc[Main] = "disconnect" => kind \in RouterKinds
    /\ pc[Main] \notin {"loop", "gone"} => ~running

(* What is in a window is of the window's stream, and so is what is merged
   into it. *)
OfStream(os, s) == \A o \in os : readings[o].stream = s
WindowsOfStream ==
    /\ \A s \in Streams : OfStream(agg[s] \cup slot[s], s)
    /\ \A t \in Threads : Windowing(t) => OfStream(hand[t], Head(todo[t]))
    /\ \A n \in Numbers : readings[n].into # 0 =>
          readings[n].into \in 1..n /\ readings[readings[n].into].stream = readings[n].stream

(* A frame is of readings of which an object was kept. *)
FramesOfObjects == \A t \in Threads : \A n \in frame[t] : readings[n].into # 0

(* What was cleared is not in the aggregator again. *)
ClearedOnce ==
    /\ \A s \in Streams : agg[s] \cap slot[s] = {}
    /\ \A t \in Threads : pc[t] \in {"feed", "drop"} => hand[t] \cap agg[Head(todo[t])] = {}

(* What two threads are at together is disturbed. *)
Contest ==
    \A t, u \in Threads :
        t # u /\ Windowing(t) /\ Windowing(u) /\ Head(todo[t]) = Head(todo[u]) =>
            hand[t] \cup slot[Head(todo[t])] \subseteq disturbed

(* A slot is full only between a feed and the capture that empties it, and
   who empties it has it in hand. *)
SlotsTended ==
    /\ \A s \in Streams : slot[s] \subseteq disturbed
          \/ \E t \in Threads : pc[t] \in {"take", "drop"} /\ Head(todo[t]) = s
    /\ \A t \in Threads :
          pc[t] = "drop" => slot[Head(todo[t])] \subseteq hand[t] \cup disturbed

(* The readings of objects that no mishap has touched: they are published
   once, in one frame at a time, and their object is in no window any more. *)
Shipped == sent \cup InFrames
ShippedOnce ==
    /\ \A n \in Kept : n \in Shipped => readings[n].into \notin Waiting
    /\ \A t, u \in Threads : t # u => frame[t] \cap frame[u] \cap Kept = {}
    /\ \A t \in Threads : frame[t] \cap sent \cap Kept = {}
    /\ again \cap Kept = {}

(* Once stop() has cleared the aggregator of BLE, one more line may come. *)
OneMoreLine ==
    pc[Main] \in {"feed", "take", "drop", "publish", "close"} /\ kind = "esp32" =>
        IF reader \in {"read", "merge"} THEN agg["ble"] = {}
        ELSE agg["ble"] \subseteq {Len(readings)}

BridgeIInv ==
    /\ WindowTypes /\ SourceTypes /\ ThreadsInStep /\ WindowsOfStream
    /\ FramesOfObjects /\ ClearedOnce /\ Contest /\ SlotsTended /\ ShippedOnce
    /\ NothingElseLost /\ OneMoreLine /\ DisturbedByStop

-----------------------------------------------------------------------------
(* SensorBridge: what a thread at a step of a flush has. *)

LEMMA StreamsKnown ==
    ASSUME kind \in Kinds PROVE StreamsOf(kind) \subseteq Streams
BY KindsAssumption DEF StreamsOf, Streams

LEMMA HeadKnown ==
    ASSUME WindowTypes, ThreadsInStep, NEW t \in Threads, todo[t] # <<>>
    PROVE  Head(todo[t]) \in StreamsOf(kind) /\ Head(todo[t]) \in Streams
<1>1. todo[t] \in Seq(StreamsOf(kind))
  BY DEF ThreadsInStep
<1>2. Head(todo[t]) \in StreamsOf(kind)
  BY <1>1
<1> QED
  BY <1>2, StreamsKnown DEF WindowTypes

LEMMA TwoThreads == Main \in Threads /\ Flusher \in Threads /\ Main # Flusher /\ Threads = {Main, Flusher}
BY DEF Main, Flusher, Threads

LEMMA WindowingIsBusy ==
    ASSUME WindowTypes, ThreadsInStep, NEW t \in Threads, Windowing(t)
    PROVE  Busy(t) /\ Head(todo[t]) \in Streams /\ frame[t] = {}
<1>1. Busy(t) /\ todo[t] # <<>> /\ frame[t] = {}
  BY DEF Windowing, Busy, ThreadsInStep
<1> QED
  BY <1>1, HeadKnown

(* A thread goes to the next step of the same flush. *)
LEMMA StepFacts ==
    ASSUME WindowTypes, ThreadsInStep, NEW t \in Threads, todo[t] # <<>>,
           pc[t] = "copy" \/ Busy(t),
           NEW to \in BusySteps \cup {"dead"}, NEW window, NEW ns, Step(t, to, window, ns),
           window # {} => to \in {"clear", "feed", "drop"}, ns # {} => to = "publish",
           to = "dead" => t = Flusher,
           UNCHANGED <<kind, running>>
    PROVE  /\ ThreadsInStep'
           /\ pc'[t] = to /\ hand'[t] = window /\ frame'[t] = ns /\ todo' = todo
           /\ \A u \in Threads \ {t} : pc'[u] = pc[u] /\ hand'[u] = hand[u] /\ frame'[u] = frame[u]
<1>1. /\ pc' = [pc EXCEPT ![t] = to] /\ hand' = [hand EXCEPT ![t] = window] /\ todo' = todo
      /\ frame' = [frame EXCEPT ![t] = ns]
      /\ pc \in PcType /\ hand \in [Threads -> SUBSET Numbers] /\ frame \in [Threads -> SUBSET Numbers]
  BY DEF Step, ThreadsInStep, WindowTypes
<1>2. /\ pc' \in PcType /\ pc'[t] = to /\ hand'[t] = window /\ frame'[t] = ns
      /\ \A u \in Threads \ {t} : pc'[u] = pc[u] /\ hand'[u] = hand[u] /\ frame'[u] = frame[u]
  BY <1>1 DEF PcType
<1>3. t = Main => kind = "esp32" /\ todo[Main] = <<"ble">> /\ ~running
  BY DEF ThreadsInStep, Busy, Windowing
<1>4. \A u \in Threads : Busy(u)' => todo'[u] # <<>>
  BY <1>1, <1>2 DEF ThreadsInStep, Busy, Windowing
<1>5. \A u \in Threads : /\ hand'[u] # {} => pc'[u] \in {"clear", "feed", "drop"}
                         /\ frame'[u] # {} => pc'[u] = "publish"
  BY <1>2 DEF ThreadsInStep
<1>6. pc'[Main] # "dead" /\ pc'[Flusher] # "close"
  BY <1>2, TwoThreads DEF ThreadsInStep, BusySteps
<1>7. Busy(Main)' \/ pc'[Main] = "copy" => kind = "esp32" /\ todo[Main] = <<"ble">>
  BY <1>2, <1>3, TwoThreads DEF ThreadsInStep, Busy, Windowing
<1>8. /\ pc'[Main] = "disconnect" => kind \in RouterKinds
      /\ pc'[Main] \notin {"loop", "gone"} => ~running
  <2>1. CASE t = Main
    BY <1>2, <1>3, <2>1 DEF BusySteps
  <2>2. CASE t # Main
    BY <1>2, <2>2, TwoThreads DEF ThreadsInStep
  <2> QED
    BY <2>1, <2>2
<1> QED
  BY <1>1, <1>2, <1>4, <1>5, <1>6, <1>7, <1>8 DEF ThreadsInStep

(* A thread is done with a stream, and has nothing in hand. *)
LEMMA FinishFacts ==
    ASSUME WindowTypes, ThreadsInStep, NEW t \in Threads, Busy(t), Finish(t),
           UNCHANGED <<kind, running>>
    PROVE  /\ ThreadsInStep' /\ hand'[t] = {} /\ frame'[t] = {}
           /\ pc'[t] \in {"loop", "copy", "close"} /\ (t = Main => pc'[t] = "close")
           /\ \A u \in Threads \ {t} :
                 pc'[u] = pc[u] /\ hand'[u] = hand[u] /\ frame'[u] = frame[u] /\ todo'[u] = todo[u]
<1> DEFINE to == IF Len(todo[t]) = 1 THEN AfterPass(t) ELSE "copy"
<1>1. /\ pc' = [pc EXCEPT ![t] = to] /\ hand' = [hand EXCEPT ![t] = {}]
      /\ frame' = [frame EXCEPT ![t] = {}]
      /\ todo' = [todo EXCEPT ![t] = Tail(todo[t])]
      /\ pc \in PcType /\ hand \in [Threads -> SUBSET Numbers] /\ frame \in [Threads -> SUBSET Numbers]
      /\ todo \in [Threads -> Seq(StreamsOf(kind))] /\ todo[t] # <<>>
  BY DEF Finish, ThreadsInStep, WindowTypes
<1>2. t = Main => kind = "esp32" /\ todo[Main] = <<"ble">> /\ ~running
  BY DEF ThreadsInStep, Busy, Windowing
<1>3. /\ to \in {"loop", "copy", "close"} /\ (t = Main => to = "close")
      /\ t = Flusher => to # "close"
  <2>1. t = Main => Len(todo[t]) = 1
    BY <1>2
  <2> QED
    BY <2>1, TwoThreads DEF AfterPass
<1> HIDE DEF to
<1>4. /\ pc' \in PcType /\ pc'[t] = to /\ hand'[t] = {} /\ frame'[t] = {}
      /\ \A u \in Threads \ {t} :
            pc'[u] = pc[u] /\ hand'[u] = hand[u] /\ frame'[u] = frame[u] /\ todo'[u] = todo[u]
  BY <1>1, <1>3 DEF PcType
<1>5. todo' \in [Threads -> Seq(StreamsOf(kind))]
  <2>1. Tail(todo[t]) \in Seq(StreamsOf(kind))
    BY <1>1
  <2> QED
    BY <1>1, <2>1
<1>6. \A u \in Threads : Busy(u)' => todo'[u] # <<>>
  BY <1>3, <1>4 DEF ThreadsInStep, Busy, Windowing
<1>7. \A u \in Threads : /\ hand'[u] # {} => pc'[u] \in {"clear", "feed", "drop"}
                         /\ frame'[u] # {} => pc'[u] = "publish"
  BY <1>4 DEF ThreadsInStep
<1>8. pc'[Main] # "dead" /\ pc'[Flusher] # "close"
  BY <1>3, <1>4, TwoThreads DEF ThreadsInStep
<1>9. Busy(Main)' \/ pc'[Main] = "copy" => kind = "esp32" /\ todo'[Main] = <<"ble">>
  BY <1>3, <1>4, TwoThreads DEF ThreadsInStep, Busy, Windowing
<1>10. /\ pc'[Main] = "disconnect" => kind \in RouterKinds
       /\ pc'[Main] \notin {"loop", "gone"} => ~running
  <2>1. CASE t = Main
    BY <1>2, <1>3, <1>4, <2>1
  <2>2. CASE t # Main
    BY <1>4, <2>2, TwoThreads DEF ThreadsInStep
  <2> QED
    BY <2>1, <2>2
<1> QED
  BY <1>3, <1>4, <1>5, <1>6, <1>7, <1>8, <1>9, <1>10 DEF ThreadsInStep

-----------------------------------------------------------------------------
(* SensorBridge: where objects and readings are. *)

LEMMA WaitingIs ==
    ASSUME NEW o
    PROVE  /\ o \in Waiting <=> \/ \E s \in Streams : o \in agg[s] \cup slot[s]
                                \/ \E t \in Threads : o \in hand[t]
           /\ o \in Waiting' <=> \/ \E s \in Streams : o \in agg'[s] \cup slot'[s]
                                 \/ \E t \in Threads : o \in hand'[t]
BY DEF Waiting

LEMMA InFramesIs ==
    ASSUME NEW n
    PROVE  /\ n \in InFrames <=> \E t \in Threads : n \in frame[t]
           /\ n \in InFrames' <=> \E t \in Threads : n \in frame'[t]
BY DEF InFrames

LEMMA ContentIs ==
    ASSUME WindowTypes, NEW n, NEW os
    PROVE  n \in Content(os) <=> n \in Numbers /\ readings[n].into \in os
BY DEF WindowTypes, Content, Numbers

LEMMA KeptIs ==
    ASSUME WindowTypes, NEW n
    PROVE  n \in Kept <=> n \in Numbers /\ readings[n].into # 0 /\ readings[n].into \notin disturbed
BY DEF WindowTypes, Kept, Numbers

(* Nothing is where it was not. *)
LEMMA ShippedKept ==
    ASSUME ShippedOnce, UNCHANGED <<readings, sent, again, frame>>, disturbed \subseteq disturbed',
           Waiting' \subseteq Waiting
    PROVE  ShippedOnce'
<1>1. Kept' \subseteq Kept
  BY DEF Kept
<1>2. Shipped' = Shipped
  BY DEF Shipped, InFrames
<1> QED
  BY <1>1, <1>2 DEF ShippedOnce

(* What is accounted for stays accounted for. *)
LEMMA LostKept ==
    ASSUME NothingElseLost, WindowTypes, WindowTypes', UNCHANGED readings,
           disturbed \subseteq disturbed', online' => online,
           \A n \in Kept' : online /\ (readings[n].into \in Waiting \/ n \in InFrames \cup sent \cup late)
              => readings[n].into \in Waiting' \/ n \in InFrames' \cup sent' \cup late'
    PROVE  NothingElseLost'
<1> SUFFICES ASSUME online', NEW n \in Kept'
             PROVE  n \in Content(Waiting)' \cup InFrames' \cup sent' \cup late'
  BY DEF NothingElseLost
<1>1. n \in Kept /\ n \in DOMAIN readings
  BY DEF Kept
<1>2. n \in Content(Waiting) \cup InFrames \cup sent \cup late
  BY <1>1 DEF NothingElseLost
<1>3. readings[n].into \in Waiting \/ n \in InFrames \cup sent \cup late
  BY <1>2 DEF Content
<1>4. readings[n].into \in Waiting' \/ n \in InFrames' \cup sent' \cup late'
  BY <1>3
<1> QED
  BY <1>1, <1>4 DEF Content

(* OneMoreLine survives what does not fill the aggregator. *)
LEMMA MoreLineKept ==
    ASSUME OneMoreLine, UNCHANGED <<kind, reader, readings>>, agg'["ble"] \subseteq agg["ble"],
           pc'[Main] \in {"feed", "take", "drop", "publish", "close"} =>
               pc[Main] \in {"feed", "take", "drop", "publish", "close"} \/ agg'["ble"] = {}
    PROVE  OneMoreLine'
BY DEF OneMoreLine

LEMMA SourceTypesKept ==
    ASSUME SourceTypes,
           UNCHANGED <<running, online, nested, kind, unplugs, handle, plugged, healthy, reader,
                       fetched, readings>>
    PROVE  SourceTypes'
BY DEF SourceTypes, Numbers

(* flush() begins: the thread has a copy of the aggregator in hand, and what
   another thread has of the stream is disturbed. *)
LEMMA CopyKeeps == ASSUME BridgeIInv, NEW t \in Threads, Copy(t) PROVE BridgeIInv'
<1> DEFINE s == Head(todo[t])
<1>1. /\ WindowTypes /\ SourceTypes /\ ThreadsInStep /\ WindowsOfStream /\ ClearedOnce
      /\ Contest /\ SlotsTended /\ ShippedOnce /\ NothingElseLost /\ OneMoreLine
      /\ DisturbedByStop /\ FramesOfObjects
  BY DEF BridgeIInv
<1>2. /\ pc[t] = "copy" /\ todo[t] # <<>> /\ Step(t, "clear", agg[s], {})
      /\ disturbed' = disturbed \cup Meets(t, s)
      /\ UNCHANGED <<kind, running, source, agg, slot, deques, outlet, late, nested>>
  BY DEF Copy
<1>3. s \in StreamsOf(kind) /\ s \in Streams
  BY <1>1, <1>2, HeadKnown
<1>4. /\ ThreadsInStep' /\ pc'[t] = "clear" /\ hand'[t] = agg[s] /\ frame'[t] = {} /\ todo' = todo
      /\ \A u \in Threads \ {t} : pc'[u] = pc[u] /\ hand'[u] = hand[u] /\ frame'[u] = frame[u]
  <2>1. "clear" \in BusySteps \cup {"dead"}
    BY DEF BusySteps
  <2> QED
    BY <1>1, <1>2, <2>1, StepFacts
<1>5. hand[t] = {} /\ frame[t] = {}
  BY <1>1, <1>2 DEF ThreadsInStep
<1>6. UNCHANGED <<kind, running, agg, slot, readings, reader, sent, again, late, deques, online, nested>>
  BY <1>2 DEF source, outlet
<1>7. /\ \A u \in Threads \ {t} : Windowing(u) /\ Head(todo[u]) = s =>
            agg[s] \cup slot[s] \cup hand[u] \subseteq disturbed'
      /\ disturbed \subseteq disturbed' /\ Meets(t, s) \subseteq Numbers
      /\ (\A u \in Threads \ {t} : ~Windowing(u)) => disturbed' = disturbed
  <2>1. agg[s] \in SUBSET Numbers /\ slot[s] \in SUBSET Numbers
        /\ \A u \in Threads : hand[u] \in SUBSET Numbers
    BY <1>1, <1>3 DEF WindowTypes
  <2> QED
    BY <1>2, <2>1 DEF Meets
<1> HIDE DEF s
<1>8. WindowTypes'
  <2>1. hand' \in [Threads -> SUBSET Numbers] /\ frame' \in [Threads -> SUBSET Numbers]
    BY <1>1, <1>2, <1>3 DEF Step, WindowTypes
  <2>2. disturbed' \subseteq Numbers
    BY <1>1, <1>2, <1>7 DEF WindowTypes
  <2> QED
    BY <1>1, <1>6, <2>1, <2>2 DEF WindowTypes, Numbers
<1>9. SourceTypes'
  BY <1>1, <1>2, SourceTypesKept DEF source, outlet
<1>10. WindowsOfStream'
  BY <1>1, <1>3, <1>4, <1>6 DEF WindowsOfStream, OfStream, Windowing, Numbers, s
<1>11. ClearedOnce'
  BY <1>1, <1>4, <1>6 DEF ClearedOnce
<1>12. Contest'
  <2> SUFFICES ASSUME NEW u \in Threads \ {t}, Windowing(u)', Head(todo[u]) = s
               PROVE  hand'[t] \cup hand'[u] \cup slot[s] \subseteq disturbed'
    BY <1>4, <1>6, TwoThreads DEF Contest, s
  <2> QED
    BY <1>4, <1>7 DEF Windowing
<1>13. SlotsTended'
  <2>1. \A u \in Threads : pc[u] \in {"take", "drop"} <=> pc'[u] \in {"take", "drop"}
    BY <1>2, <1>4
  <2>2. \A u \in Threads : pc'[u] = "drop" => hand'[u] = hand[u] /\ pc[u] = "drop"
    BY <1>4
  <2> QED
    BY <1>1, <1>4, <1>6, <1>7, <2>1, <2>2 DEF SlotsTended
<1>14. \A o : o \in Waiting <=> o \in Waiting'
  BY <1>3, <1>4, <1>5, <1>6, WaitingIs
<1>15. frame' = frame
  <2>1. frame \in [Threads -> SUBSET Numbers] /\ frame' = [frame EXCEPT ![t] = {}]
    BY <1>1, <1>2 DEF WindowTypes, Step
  <2> QED
    BY <1>5, <2>1
<1>16. ShippedOnce'
  BY <1>1, <1>6, <1>7, <1>14, <1>15, ShippedKept
<1>17. NothingElseLost'
  <2>1. InFrames' = InFrames
    BY <1>15 DEF InFrames
  <2> QED
    BY <1>1, <1>6, <1>7, <1>8, <1>14, <2>1, LostKept
<1>18. OneMoreLine'
  BY <1>1, <1>4, <1>6, TwoThreads, MoreLineKept
<1>19. DisturbedByStop'
  <2> SUFFICES ASSUME running, pc'[Flusher] # "dead" PROVE disturbed' = {}
    BY <1>6 DEF DisturbedByStop
  <2>1. pc[Main] \in {"loop", "gone"}
    BY <1>1 DEF ThreadsInStep
  <2>2. t = Flusher /\ \A u \in Threads \ {t} : ~Windowing(u)
    BY <1>2, <2>1, TwoThreads DEF Windowing
  <2> QED
    BY <1>1, <1>2, <1>7, <2>2 DEF DisturbedByStop
<1>20. FramesOfObjects'
  BY <1>1, <1>6, <1>15 DEF FramesOfObjects
<1> QED
  BY <1>4, <1>8, <1>9, <1>10, <1>11, <1>12, <1>13, <1>16, <1>17, <1>18, <1>19, <1>20 DEF BridgeIInv

(* flush() ends: the aggregator is empty, what came since the copy is late. *)
LEMMA ClearKeeps == ASSUME BridgeIInv, NEW t \in Threads, Clear(t) PROVE BridgeIInv'
<1> DEFINE s == Head(todo[t])
<1>1. /\ WindowTypes /\ SourceTypes /\ ThreadsInStep /\ WindowsOfStream /\ ClearedOnce
      /\ Contest /\ SlotsTended /\ ShippedOnce /\ NothingElseLost /\ OneMoreLine
      /\ DisturbedByStop /\ FramesOfObjects
  BY DEF BridgeIInv
<1>2. /\ pc[t] = "clear" /\ late' = late \cup Content(agg[s] \ hand[t])
      /\ agg' = [agg EXCEPT ![s] = {}]
      /\ IF hand[t] = {} THEN Finish(t) ELSE Step(t, "feed", hand[t], {})
      /\ UNCHANGED <<kind, running, source, slot, deques, outlet, hist>>
  BY DEF Clear
<1>3. Windowing(t) /\ Busy(t) /\ s \in Streams /\ frame[t] = {} /\ todo[t] # <<>>
  <2>1. Windowing(t)
    BY <1>2 DEF Windowing
  <2> QED
    BY <1>1, <2>1, WindowingIsBusy DEF ThreadsInStep
<1>4. /\ ThreadsInStep' /\ hand'[t] = hand[t] /\ frame'[t] = {}
      /\ pc'[t] \in {"loop", "copy", "close", "feed"} /\ (pc'[t] = "feed" => todo' = todo)
      /\ \A u \in Threads \ {t} :
            pc'[u] = pc[u] /\ hand'[u] = hand[u] /\ frame'[u] = frame[u] /\ todo'[u] = todo[u]
  <2>1. CASE hand[t] = {}
    BY <1>1, <1>2, <1>3, <2>1, FinishFacts
  <2>2. CASE hand[t] # {}
    <3>1. "feed" \in BusySteps \cup {"dead"}
      BY DEF BusySteps
    <3> QED
      BY <1>1, <1>2, <1>3, <2>2, <3>1, StepFacts
  <2> QED
    BY <2>1, <2>2
<1>5. UNCHANGED <<kind, running, slot, readings, reader, sent, again, deques, online, disturbed, nested>>
  BY <1>2 DEF source, outlet, hist
<1> HIDE DEF s
<1>6. agg'[s] = {} /\ \A r \in Streams \ {s} : agg'[r] = agg[r]
  BY <1>1, <1>2, <1>3 DEF WindowTypes
<1>7. hand' = hand /\ frame' = frame
  <2>1. hand \in [Threads -> SUBSET Numbers] /\ frame \in [Threads -> SUBSET Numbers]
    BY <1>1 DEF WindowTypes
  <2>2. hand' = [hand EXCEPT ![t] = hand[t]] /\ frame' = [frame EXCEPT ![t] = {}]
    BY <1>2 DEF Step, Finish
  <2> QED
    BY <1>3, <2>1, <2>2
<1>8. WindowTypes'
  <2>1. agg' \in [Streams -> SUBSET Numbers]
    BY <1>1, <1>2, <1>3 DEF WindowTypes
  <2>2. late' \subseteq Numbers
    BY <1>1, <1>2, ContentIs DEF WindowTypes
  <2> QED
    BY <1>1, <1>5, <1>7, <2>1, <2>2 DEF WindowTypes, Numbers
<1>9. SourceTypes'
  BY <1>1, <1>2, SourceTypesKept DEF source, outlet, hist
<1>10. /\ \A u \in Threads : Windowing(u)' => Windowing(u) /\ todo'[u] = todo[u]
       /\ \A r \in Streams : agg'[r] \subseteq agg[r]
  <2>1. \A u \in Threads : Windowing(u)' => Windowing(u) /\ todo'[u] = todo[u]
    BY <1>3, <1>4 DEF Windowing
  <2> QED
    BY <1>6, <2>1
<1>11. WindowsOfStream'
  BY <1>1, <1>5, <1>7, <1>10 DEF WindowsOfStream, OfStream, Numbers
<1>12. ClearedOnce'
  <2>1. ASSUME NEW u \in Threads, pc'[u] \in {"feed", "drop"}
        PROVE  hand'[u] \cap agg'[Head(todo'[u])] = {}
    <3>1. CASE u = t
      BY <1>4, <1>6, <2>1, <3>1 DEF s
    <3>2. CASE u # t
      <4>1. pc[u] = pc'[u] /\ todo'[u] = todo[u] /\ Windowing(u)
        BY <1>4, <2>1, <3>2 DEF Windowing
      <4>2. Head(todo[u]) \in Streams
        BY <1>1, <4>1, WindowingIsBusy
      <4> QED
        BY <1>1, <1>7, <1>10, <2>1, <4>1, <4>2 DEF ClearedOnce
    <3> QED
      BY <3>1, <3>2
  <2> QED
    BY <1>1, <1>5, <1>10, <2>1 DEF ClearedOnce
<1>13. Contest'
  BY <1>1, <1>5, <1>7, <1>10 DEF Contest
<1>14. SlotsTended'
  <2>1. \A u \in Threads : pc[u] \in {"take", "drop"} => pc'[u] = pc[u] /\ todo'[u] = todo[u]
    BY <1>2, <1>4
  <2>2. \A u \in Threads : pc'[u] = "drop" => pc[u] = "drop" /\ todo'[u] = todo[u]
    BY <1>4
  <2> QED
    BY <1>1, <1>5, <1>7, <2>1, <2>2 DEF SlotsTended
<1>15. Waiting' \subseteq Waiting
  BY <1>5, <1>7, <1>10, WaitingIs
<1>16. ShippedOnce'
  BY <1>1, <1>5, <1>7, <1>15, ShippedKept
<1>17. NothingElseLost'
  <2>1. ASSUME NEW n \in Kept', readings[n].into \in Waiting
        PROVE  readings[n].into \in Waiting' \/ n \in late'
    <3>1. CASE readings[n].into \in agg[s] \ hand[t]
      <4>1. n \in Numbers
        BY <1>1, <1>5, KeptIs DEF Kept
      <4> QED
        BY <1>1, <1>2, <3>1, <4>1, ContentIs
    <3>2. CASE readings[n].into \notin agg[s] \ hand[t]
      BY <1>5, <1>6, <1>7, <2>1, <3>2, WaitingIs
    <3> QED
      BY <3>1, <3>2
  <2>2. InFrames' = InFrames /\ late \subseteq late'
    BY <1>2, <1>7 DEF InFrames
  <2> QED
    BY <1>1, <1>5, <1>8, <2>1, <2>2, LostKept
<1>18. OneMoreLine'
  <2>1. agg'["ble"] \subseteq agg["ble"]
    BY <1>10 DEF Streams
  <2>2. CASE t = Main
    <3>1. s = "ble"
      BY <1>1, <1>3, <2>2 DEF ThreadsInStep, s
    <3> QED
      BY <1>1, <1>5, <1>6, <2>1, <3>1, MoreLineKept
  <2>3. CASE t # Main
    BY <1>1, <1>4, <1>5, <2>1, <2>3, TwoThreads, MoreLineKept
  <2> QED
    BY <2>2, <2>3
<1>19. DisturbedByStop'
  <2>1. pc[Flusher] = "dead" => pc'[Flusher] = "dead"
    BY <1>2, <1>4, TwoThreads
  <2> QED
    BY <1>1, <1>5, <2>1 DEF DisturbedByStop
<1>20. FramesOfObjects'
  BY <1>1, <1>5, <1>7 DEF FramesOfObjects
<1> QED
  BY <1>4, <1>8, <1>9, <1>11, <1>12, <1>13, <1>14, <1>16, <1>17, <1>18, <1>19, <1>20 DEF BridgeIInv

(* feed_window: what was in the slot is replaced, and what is in hand is
   there now. *)
LEMMA FeedKeeps == ASSUME BridgeIInv, NEW t \in Threads, Feed(t) PROVE BridgeIInv'
<1> DEFINE s == Head(todo[t])
<1>1. /\ WindowTypes /\ SourceTypes /\ ThreadsInStep /\ WindowsOfStream /\ ClearedOnce
      /\ Contest /\ SlotsTended /\ ShippedOnce /\ NothingElseLost /\ OneMoreLine
      /\ DisturbedByStop /\ FramesOfObjects
  BY DEF BridgeIInv
<1>2. /\ pc[t] = "feed" /\ slot' = [slot EXCEPT ![s] = hand[t]] /\ Step(t, "take", {}, {})
      /\ UNCHANGED <<kind, running, source, agg, deques, outlet, late, hist>>
  BY DEF Feed
<1>3. Windowing(t) /\ Busy(t) /\ s \in Streams /\ frame[t] = {} /\ todo[t] # <<>>
  <2>1. Windowing(t)
    BY <1>2 DEF Windowing
  <2> QED
    BY <1>1, <2>1, WindowingIsBusy DEF ThreadsInStep
<1>4. /\ ThreadsInStep' /\ pc'[t] = "take" /\ hand'[t] = {} /\ frame'[t] = {} /\ todo' = todo
      /\ \A u \in Threads \ {t} : pc'[u] = pc[u] /\ hand'[u] = hand[u] /\ frame'[u] = frame[u]
  <2>1. "take" \in BusySteps \cup {"dead"}
    BY DEF BusySteps
  <2> QED
    BY <1>1, <1>2, <1>3, <2>1, StepFacts
<1>5. UNCHANGED <<kind, running, agg, readings, reader, sent, again, late, deques, online, disturbed, nested>>
  BY <1>2 DEF source, outlet, hist
<1> HIDE DEF s
<1>6. slot'[s] = hand[t] /\ \A r \in Streams \ {s} : slot'[r] = slot[r]
  BY <1>1, <1>2, <1>3 DEF WindowTypes
<1>7. WindowTypes'
  <2>1. /\ hand' \in [Threads -> SUBSET Numbers] /\ slot' \in [Streams -> SUBSET Numbers]
        /\ frame' \in [Threads -> SUBSET Numbers]
    BY <1>1, <1>2, <1>3 DEF Step, WindowTypes
  <2> QED
    BY <1>1, <1>5, <2>1 DEF WindowTypes, Numbers
<1>8. SourceTypes'
  BY <1>1, <1>2, SourceTypesKept DEF source, outlet, hist
<1>9. \A u \in Threads : Windowing(u)' <=> Windowing(u)
  BY <1>3, <1>4 DEF Windowing
<1>10. WindowsOfStream'
  <2>1. OfStream(hand[t], s)
    BY <1>1, <1>3 DEF WindowsOfStream, s
  <2>2. \A r \in Streams : OfStream(agg[r] \cup slot'[r], r)
    BY <1>1, <1>6, <2>1 DEF WindowsOfStream, OfStream
  <2>3. \A u \in Threads : Windowing(u)' => OfStream(hand'[u], Head(todo[u]))
    BY <1>1, <1>4, <1>9 DEF WindowsOfStream, OfStream
  <2> QED
    BY <1>1, <1>4, <1>5, <2>2, <2>3 DEF WindowsOfStream, OfStream, Numbers
<1>11. ClearedOnce'
  <2>1. hand[t] \cap agg[s] = {}
    BY <1>1, <1>2 DEF ClearedOnce, s
  <2> QED
    BY <1>1, <1>4, <1>5, <1>6, <2>1 DEF ClearedOnce
<1>12. Contest'
  <2>1. ASSUME NEW u \in Threads \ {t}, Windowing(u), Head(todo[u]) = s
        PROVE  hand[t] \cup hand[u] \subseteq disturbed
    BY <1>1, <1>3, <2>1 DEF Contest, s
  <2> SUFFICES ASSUME NEW u \in Threads \ {t}, Windowing(u)', Head(todo[u]) = s
               PROVE  hand'[t] \cup hand'[u] \cup slot'[s] \subseteq disturbed
    BY <1>4, <1>5, TwoThreads DEF Contest, s
  <2> QED
    BY <1>4, <1>6, <1>9, <2>1
<1>13. SlotsTended'
  <2>1. \A u \in Threads : pc[u] \in {"take", "drop"} => pc'[u] = pc[u]
    BY <1>2, <1>4
  <2>2. \E u \in Threads : pc'[u] \in {"take", "drop"} /\ Head(todo'[u]) = s
    BY <1>4 DEF s
  <2>3. ASSUME NEW u \in Threads, pc'[u] = "drop"
        PROVE  slot'[Head(todo'[u])] \subseteq hand'[u] \cup disturbed
    <3>1. u # t /\ pc[u] = "drop" /\ hand'[u] = hand[u] /\ Windowing(u)
      BY <1>4, <2>3 DEF Windowing
    <3>2. Head(todo[u]) \in Streams
      BY <1>1, <3>1, WindowingIsBusy
    <3>3. CASE Head(todo[u]) = s
      <4>1. hand[t] \subseteq disturbed
        BY <1>1, <1>3, <3>1, <3>3 DEF Contest, s
      <4> QED
        BY <1>4, <1>6, <3>3, <4>1
    <3>4. CASE Head(todo[u]) # s
      BY <1>1, <1>4, <1>6, <3>1, <3>2, <3>4 DEF SlotsTended
    <3> QED
      BY <3>3, <3>4
  <2> QED
    BY <1>1, <1>4, <1>5, <1>6, <2>1, <2>2, <2>3 DEF SlotsTended
<1>14. Waiting' \subseteq Waiting
  BY <1>3, <1>4, <1>5, <1>6, WaitingIs
<1>15. frame' = frame
  <2>1. frame \in [Threads -> SUBSET Numbers] /\ frame' = [frame EXCEPT ![t] = {}]
    BY <1>1, <1>2 DEF WindowTypes, Step
  <2> QED
    BY <1>3, <2>1
<1>16. ShippedOnce'
  BY <1>1, <1>5, <1>14, <1>15, ShippedKept
<1>17. NothingElseLost'
  <2>1. slot[s] \subseteq disturbed
    <3> SUFFICES ASSUME ~(slot[s] \subseteq disturbed) PROVE FALSE
      OBVIOUS
    <3>1. PICK u \in Threads : pc[u] \in {"take", "drop"} /\ Head(todo[u]) = s
      BY <1>1, <1>3 DEF SlotsTended
    <3>2. u # t /\ Windowing(u)
      BY <1>2, <3>1 DEF Windowing
    <3> QED
      BY <1>1, <1>3, <3>1, <3>2 DEF Contest, s
  <2>2. ASSUME NEW n \in Kept', readings[n].into \in Waiting
        PROVE  readings[n].into \in Waiting'
    <3>1. readings[n].into \notin slot[s]
      BY <1>5, <2>1 DEF Kept
    <3>2. CASE readings[n].into \in hand[t]
      BY <1>3, <1>6, <3>2, WaitingIs
    <3>3. CASE readings[n].into \notin hand[t]
      BY <1>4, <1>5, <1>6, <2>2, <3>1, <3>3, WaitingIs
    <3> QED
      BY <3>2, <3>3
  <2>3. InFrames' = InFrames
    BY <1>15 DEF InFrames
  <2> QED
    BY <1>1, <1>5, <1>7, <2>2, <2>3, LostKept
<1>18. OneMoreLine'
  BY <1>1, <1>2, <1>4, <1>5, TwoThreads, MoreLineKept
<1>19. DisturbedByStop'
  <2>1. pc[Flusher] = "dead" => pc'[Flusher] = "dead"
    BY <1>2, <1>4, TwoThreads
  <2> QED
    BY <1>1, <1>5, <2>1 DEF DisturbedByStop
<1>20. FramesOfObjects'
  BY <1>1, <1>5, <1>15 DEF FramesOfObjects
<1> QED
  BY <1>4, <1>7, <1>8, <1>10, <1>11, <1>12, <1>13, <1>16, <1>17, <1>18, <1>19, <1>20 DEF BridgeIInv

(* capture(), first step: the window that is pending is read. *)
LEMMA TakeKeeps == ASSUME BridgeIInv, NEW t \in Threads, Take(t) PROVE BridgeIInv'
<1> DEFINE s == Head(todo[t])
<1>1. /\ WindowTypes /\ SourceTypes /\ ThreadsInStep /\ WindowsOfStream /\ ClearedOnce
      /\ Contest /\ SlotsTended /\ ShippedOnce /\ NothingElseLost /\ OneMoreLine
      /\ DisturbedByStop /\ FramesOfObjects
  BY DEF BridgeIInv
<1>2. /\ pc[t] = "take"
      /\ IF slot[s] = {} THEN Finish(t) ELSE Step(t, "drop", slot[s], {})
      /\ UNCHANGED <<kind, running, source, agg, slot, deques, outlet, late, hist>>
  BY DEF Take
<1>3. Windowing(t) /\ Busy(t) /\ s \in Streams /\ frame[t] = {} /\ hand[t] = {} /\ todo[t] # <<>>
  <2>1. Windowing(t)
    BY <1>2 DEF Windowing
  <2> QED
    BY <1>1, <1>2, <2>1, WindowingIsBusy DEF ThreadsInStep
<1>4. /\ ThreadsInStep' /\ hand'[t] = slot[s] /\ frame'[t] = {}
      /\ \/ slot[s] = {} /\ pc'[t] \in {"loop", "copy", "close"}
         \/ pc'[t] = "drop" /\ todo' = todo
      /\ \A u \in Threads \ {t} :
            pc'[u] = pc[u] /\ hand'[u] = hand[u] /\ frame'[u] = frame[u] /\ todo'[u] = todo[u]
  <2>1. CASE slot[s] = {}
    BY <1>1, <1>2, <1>3, <2>1, FinishFacts
  <2>2. CASE slot[s] # {}
    <3>1. "drop" \in BusySteps \cup {"dead"}
      BY DEF BusySteps
    <3> QED
      BY <1>1, <1>2, <1>3, <2>2, <3>1, StepFacts
  <2> QED
    BY <2>1, <2>2
<1>5. /\ UNCHANGED <<kind, running, agg, slot, readings, reader, sent, again, late, deques, online>>
      /\ UNCHANGED <<disturbed, nested>>
  BY <1>2 DEF source, outlet, hist
<1>6. pc'[t] = "drop" => Head(todo'[t]) = s
  BY <1>4
<1> HIDE DEF s
<1>7. frame' = frame
  <2>1. frame \in [Threads -> SUBSET Numbers] /\ frame' = [frame EXCEPT ![t] = {}]
    BY <1>1, <1>2 DEF WindowTypes, Step, Finish
  <2> QED
    BY <1>3, <2>1
<1>8. WindowTypes'
  <2>1. hand' \in [Threads -> SUBSET Numbers]
    BY <1>1, <1>2, <1>3 DEF Step, Finish, WindowTypes
  <2> QED
    BY <1>1, <1>5, <1>7, <2>1 DEF WindowTypes, Numbers
<1>9. SourceTypes'
  BY <1>1, <1>2, SourceTypesKept DEF source, outlet, hist
<1>10. \A u \in Threads : Windowing(u)' => Windowing(u) /\ Head(todo'[u]) = Head(todo[u])
  BY <1>3, <1>4, <1>6 DEF Windowing, s
<1>11. WindowsOfStream'
  <2>1. OfStream(slot[s], s)
    BY <1>1, <1>3 DEF WindowsOfStream, OfStream
  <2>2. \A u \in Threads : Windowing(u)' => OfStream(hand'[u], Head(todo'[u]))
    BY <1>1, <1>4, <1>10, <2>1 DEF WindowsOfStream, s
  <2> QED
    BY <1>1, <1>5, <2>2 DEF WindowsOfStream, OfStream, Numbers
<1>12. ClearedOnce'
  <2>1. slot[s] \cap agg[s] = {}
    BY <1>1, <1>3 DEF ClearedOnce
  <2> QED
    BY <1>1, <1>4, <1>5, <1>6, <2>1 DEF ClearedOnce
<1>13. Contest'
  <2>1. ASSUME NEW u \in Threads \ {t}, Windowing(u), Head(todo[u]) = s
        PROVE  slot[s] \cup hand[u] \subseteq disturbed
    BY <1>1, <1>3, <2>1 DEF Contest, s
  <2> SUFFICES ASSUME NEW u \in Threads \ {t}, Windowing(t)', Windowing(u)',
                      Head(todo'[u]) = Head(todo'[t])
               PROVE  hand'[t] \cup hand'[u] \cup slot[Head(todo'[t])] \subseteq disturbed
    BY <1>5, TwoThreads DEF Contest
  <2>2. Windowing(u) /\ Head(todo[u]) = s /\ Head(todo'[t]) = s
    BY <1>10 DEF s
  <2> QED
    BY <1>4, <2>1, <2>2
<1>14. SlotsTended'
  <2>1. ASSUME NEW r \in Streams, ~(slot[r] \subseteq disturbed)
        PROVE  \E u \in Threads : pc'[u] \in {"take", "drop"} /\ Head(todo'[u]) = r
    <3>1. PICK u \in Threads : pc[u] \in {"take", "drop"} /\ Head(todo[u]) = r
      BY <1>1, <2>1 DEF SlotsTended
    <3> QED
      BY <1>4, <1>6, <2>1, <3>1 DEF s
  <2>2. \A u \in Threads : pc'[u] = "drop" => slot[Head(todo'[u])] \subseteq hand'[u] \cup disturbed
    BY <1>1, <1>4, <1>6 DEF SlotsTended
  <2> QED
    BY <1>5, <2>1, <2>2 DEF SlotsTended
<1>15. \A o : o \in Waiting <=> o \in Waiting'
  BY <1>3, <1>4, <1>5, WaitingIs
<1>16. ShippedOnce'
  BY <1>1, <1>5, <1>7, <1>15, ShippedKept
<1>17. NothingElseLost'
  <2>1. InFrames' = InFrames
    BY <1>7 DEF InFrames
  <2> QED
    BY <1>1, <1>5, <1>8, <1>15, <2>1, LostKept
<1>18. OneMoreLine'
  BY <1>1, <1>2, <1>4, <1>5, TwoThreads, MoreLineKept
<1>19. DisturbedByStop'
  <2>1. pc[Flusher] = "dead" => pc'[Flusher] = "dead"
    BY <1>2, <1>4, TwoThreads
  <2> QED
    BY <1>1, <1>5, <2>1 DEF DisturbedByStop
<1>20. FramesOfObjects'
  BY <1>1, <1>5, <1>7 DEF FramesOfObjects
<1> QED
  BY <1>4, <1>8, <1>9, <1>11, <1>12, <1>13, <1>14, <1>16, <1>17, <1>18, <1>19, <1>20 DEF BridgeIInv

(* The deque of a sender keeps its last frames, and no more of them than
   fit. *)
LEMMA DequeFacts ==
    ASSUME WindowTypes, NEW window \in SUBSET (1..Len(readings)), NEW o, NEW m \in Senders
    PROVE  Deque(window, o, m) \in Seq(BOOLEAN) /\ Len(Deque(window, o, m)) <= WindowSize
<1> DEFINE new == {i \in window : i <= o /\ readings[i].mac = m}
           wide(k) == \E i \in new : readings[i].wide /\ Cardinality({j \in new : j <= i}) = k
           added == [k \in 1..Cardinality(new) |-> wide(k)]
           all == deques[m] \o added
           first == IF Len(all) > WindowSize THEN Len(all) - WindowSize + 1 ELSE 1
<1>1. Cardinality(new) \in Nat
  <2>1. IsFiniteSet(1..Len(readings))
    <3>1. Len(readings) \in Nat
      BY DEF WindowTypes
    <3> QED
      BY <3>1, FS_Interval
  <2>2. IsFiniteSet(new)
    BY <2>1, FS_Subset
  <2> QED
    BY <2>2, FS_CardinalityType
<1>2. \A k : wide(k) \in BOOLEAN
  OBVIOUS
<1> HIDE DEF new, wide
<1>3. added \in Seq(BOOLEAN)
  BY <1>1, <1>2
<1>4. deques[m] \in Seq(BOOLEAN)
  BY DEF WindowTypes
<1> HIDE DEF added
<1>5. all \in Seq(BOOLEAN) /\ Len(all) \in Nat
  BY <1>3, <1>4
<1>6. WindowSize \in Nat \ {0}
  BY BoundsAssumption
<1> HIDE DEF all
<1>7. first \in 1..Len(all) + 1 /\ Len(all) - first + 1 <= WindowSize
  BY <1>5, <1>6
<1> HIDE DEF first
<1>8. SubSeq(all, first, Len(all)) \in Seq(BOOLEAN) /\ Len(SubSeq(all, first, Len(all))) <= WindowSize
  BY <1>5, <1>7
<1>9. Deque(window, o, m) = SubSeq(all, first, Len(all))
  BY DEF Deque, new, wide, added, all, first
<1> QED
  BY <1>8, <1>9

(* capture(), second step: the slot is emptied; the thread goes on with a
   frame of the readings in its window, or dies with them. *)
LEMMA DropKeeps ==
    ASSUME BridgeIInv, NEW t \in Threads, Drop(t) \/ (t = Flusher /\ DropRaises)
    PROVE  BridgeIInv'
<1> DEFINE s == Head(todo[t])
<1>1. /\ WindowTypes /\ SourceTypes /\ ThreadsInStep /\ WindowsOfStream /\ ClearedOnce
      /\ Contest /\ SlotsTended /\ ShippedOnce /\ NothingElseLost /\ OneMoreLine
      /\ DisturbedByStop /\ FramesOfObjects
  BY DEF BridgeIInv
<1>2. /\ pc[t] = "drop" /\ slot' = [slot EXCEPT ![s] = {}]
      /\ UNCHANGED <<kind, running, source, agg, outlet, late, nested>>
  BY DEF Drop, DropRaises, hist
<1>3. PICK to \in {"publish", "dead"}, ns \in {{}, Content(hand[t])} :
        /\ Step(t, to, {}, ns)
        /\ to = "publish" => ns = Content(hand[t]) /\ disturbed' = disturbed
        /\ to = "dead" => t = Flusher /\ ns = {} /\ disturbed' = disturbed \cup hand[t]
  BY DEF Drop, DropRaises, hist
<1>4. Windowing(t) /\ Busy(t) /\ s \in Streams /\ frame[t] = {} /\ todo[t] # <<>>
  <2>1. Windowing(t)
    BY <1>2 DEF Windowing
  <2> QED
    BY <1>1, <2>1, WindowingIsBusy DEF ThreadsInStep
<1>5. /\ ThreadsInStep' /\ pc'[t] = to /\ hand'[t] = {} /\ frame'[t] = ns /\ todo' = todo
      /\ \A u \in Threads \ {t} : pc'[u] = pc[u] /\ hand'[u] = hand[u] /\ frame'[u] = frame[u]
  <2>1. to \in BusySteps \cup {"dead"}
    BY DEF BusySteps
  <2> QED
    BY <1>1, <1>2, <1>3, <1>4, <2>1, StepFacts
<1>6. /\ UNCHANGED <<kind, running, agg, readings, reader, sent, again, late, online, nested>>
      /\ disturbed \subseteq disturbed' /\ disturbed' \subseteq disturbed \cup hand[t]
  BY <1>2, <1>3 DEF source, outlet
<1> HIDE DEF s
<1>7. slot'[s] = {} /\ \A r \in Streams \ {s} : slot'[r] = slot[r]
  BY <1>1, <1>2, <1>4 DEF WindowTypes
<1>8. hand[t] \in SUBSET Numbers /\ Content(hand[t]) \in SUBSET Numbers
  BY <1>1, ContentIs DEF WindowTypes
<1>9. WindowTypes'
  <2>1. /\ hand' \in [Threads -> SUBSET Numbers] /\ slot' \in [Streams -> SUBSET Numbers]
        /\ frame' \in [Threads -> SUBSET Numbers] /\ disturbed' \subseteq Numbers
    BY <1>1, <1>2, <1>3, <1>4, <1>6, <1>8 DEF Step, WindowTypes
  <2>2. deques' \in [Senders -> Seq(BOOLEAN)] /\ \A m \in Senders : Len(deques'[m]) <= WindowSize
    <3>1. deques' = deques \/ deques' = [m \in Senders |-> Deque(hand[t], MaxReadings, m)]
      BY DEF Drop, DropRaises
    <3>2. \A m \in Senders : /\ Deque(hand[t], MaxReadings, m) \in Seq(BOOLEAN)
                             /\ Len(Deque(hand[t], MaxReadings, m)) <= WindowSize
      BY <1>1, <1>8, DequeFacts DEF Numbers
    <3>3. deques \in [Senders -> Seq(BOOLEAN)] /\ \A m \in Senders : Len(deques[m]) <= WindowSize
      BY <1>1 DEF WindowTypes
    <3> QED
      BY <3>1, <3>2, <3>3
  <2> QED
    BY <1>1, <1>6, <2>1, <2>2 DEF WindowTypes, Numbers
<1>10. SourceTypes'
  BY <1>1, <1>2, SourceTypesKept DEF source, outlet
<1>11. \A u \in Threads : Windowing(u)' => u # t /\ Windowing(u)
  BY <1>3, <1>5 DEF Windowing
<1>12. WindowsOfStream'
  <2>1. \A r \in Streams : slot'[r] \subseteq slot[r]
    BY <1>7
  <2> QED
    BY <1>1, <1>5, <1>6, <1>11, <2>1 DEF WindowsOfStream, OfStream, Numbers
<1>13. ClearedOnce'
  <2>1. \A r \in Streams : slot'[r] \subseteq slot[r]
    BY <1>7
  <2> QED
    BY <1>1, <1>5, <1>6, <2>1 DEF ClearedOnce
<1>14. Contest'
  <2> SUFFICES ASSUME Windowing(Main)', Windowing(Flusher)' PROVE FALSE
    BY TwoThreads DEF Contest
  <2> QED
    BY <1>11, TwoThreads
<1>15. SlotsTended'
  <2>1. ASSUME NEW r \in Streams, ~(slot'[r] \subseteq disturbed')
        PROVE  \E u \in Threads : pc'[u] \in {"take", "drop"} /\ Head(todo'[u]) = r
    <3>1. r # s /\ ~(slot[r] \subseteq disturbed)
      BY <1>6, <1>7, <2>1
    <3>2. PICK u \in Threads : pc[u] \in {"take", "drop"} /\ Head(todo[u]) = r
      BY <1>1, <3>1 DEF SlotsTended
    <3> QED
      BY <1>5, <3>1, <3>2 DEF s
  <2>2. ASSUME NEW u \in Threads, pc'[u] = "drop"
        PROVE  slot'[Head(todo'[u])] \subseteq hand'[u] \cup disturbed'
    <3>1. u # t /\ pc[u] = "drop" /\ hand'[u] = hand[u] /\ Windowing(u)
      BY <1>3, <1>5, <2>2 DEF Windowing
    <3>2. Head(todo[u]) \in Streams /\ slot[Head(todo[u])] \subseteq hand[u] \cup disturbed
      BY <1>1, <3>1, WindowingIsBusy DEF SlotsTended
    <3>3. slot'[Head(todo[u])] \subseteq slot[Head(todo[u])]
      BY <1>7, <3>2
    <3> QED
      BY <1>5, <1>6, <3>1, <3>2, <3>3
  <2> QED
    BY <2>1, <2>2 DEF SlotsTended
<1>16. \A o : o \in Waiting' => o \in Waiting
  BY <1>4, <1>5, <1>6, <1>7, WaitingIs
<1>17. Kept' \subseteq Kept /\ \A n \in Kept' : readings'[n] = readings[n]
  BY <1>6 DEF Kept
<1>18. ASSUME NEW n \in Kept, n \in Content(hand[t]), to = "publish"
       PROVE  n \notin Shipped /\ readings[n].into \notin Waiting'
  <2> DEFINE o == readings[n].into
  <2>1. n \in Numbers /\ o \in hand[t] /\ o \notin disturbed
    BY <1>1, <1>18, ContentIs, KeptIs
  <2>2. o \in Waiting /\ readings[o].stream = s
    BY <1>1, <1>4, <2>1, WaitingIs DEF WindowsOfStream, OfStream, s
  <2>3. n \notin Shipped
    BY <1>1, <2>2 DEF ShippedOnce
  <2>4. ASSUME NEW r \in Streams PROVE o \notin agg'[r] \cup slot'[r]
    <3>1. CASE r = s
      BY <1>1, <1>2, <1>6, <1>7, <2>1, <3>1 DEF ClearedOnce, s
    <3>2. CASE r # s
      BY <1>1, <1>6, <1>7, <2>2, <3>2 DEF WindowsOfStream, OfStream
    <3> QED
      BY <3>1, <3>2
  <2>5. ASSUME NEW u \in Threads, o \in hand'[u] PROVE FALSE
    <3>1. u # t /\ o \in hand[u] /\ Windowing(u)
      BY <1>1, <1>5, <2>5 DEF ThreadsInStep, Windowing
    <3>2. Head(todo[u]) # s
      BY <1>1, <1>4, <2>1, <3>1 DEF Contest, s
    <3> QED
      BY <1>1, <2>2, <3>1, <3>2 DEF WindowsOfStream, OfStream
  <2> QED
    BY <2>3, <2>4, <2>5, WaitingIs
<1>19. ShippedOnce'
  <2>1. ASSUME NEW n \in Kept', n \in Shipped' PROVE readings'[n].into \notin Waiting'
    <3>1. n \in Kept /\ readings'[n] = readings[n]
      BY <1>17
    <3>2. CASE n \in Shipped
      BY <1>1, <1>16, <3>1, <3>2 DEF ShippedOnce
    <3>3. CASE n \notin Shipped
      <4>1. n \in frame'[t] /\ to = "publish"
        BY <1>3, <1>5, <1>6, <2>1, <3>3, InFramesIs DEF Shipped
      <4> QED
        BY <1>3, <1>5, <1>18, <3>1, <4>1
    <3> QED
      BY <3>2, <3>3
  <2>2. ASSUME NEW n \in Kept', n \in frame'[t]
        PROVE  n \notin sent /\ \A u \in Threads \ {t} : n \notin frame[u]
    <3>1. n \notin Shipped
      BY <1>3, <1>5, <1>17, <1>18, <2>2
    <3> QED
      BY <3>1, InFramesIs DEF Shipped
  <2>3. ASSUME NEW n \in Kept', NEW u \in Threads, n \in frame'[u] PROVE n \notin sent'
    <3>1. CASE u = t
      BY <1>6, <2>2, <2>3, <3>1
    <3>2. CASE u # t
      BY <1>1, <1>5, <1>6, <1>17, <2>3, <3>2 DEF ShippedOnce
    <3> QED
      BY <3>1, <3>2
  <2>4. ASSUME NEW n \in Kept', n \in frame'[Main], n \in frame'[Flusher] PROVE FALSE
    <3>1. PICK u \in Threads \ {t} : n \in frame'[t] /\ n \in frame'[u]
      BY <2>4, TwoThreads
    <3> QED
      BY <1>5, <2>2, <3>1
  <2>5. again' \cap Kept' = {}
    BY <1>1, <1>6, <1>17 DEF ShippedOnce
  <2>6. \A u, v \in Threads : u # v => frame'[u] \cap frame'[v] \cap Kept' = {}
    BY <2>4, TwoThreads
  <2>7. \A u \in Threads : frame'[u] \cap sent' \cap Kept' = {}
    BY <2>3
  <2> QED
    BY <2>1, <2>5, <2>6, <2>7 DEF ShippedOnce
<1>20. NothingElseLost'
  <2>1. ASSUME NEW n \in Kept', readings[n].into \in Waiting
        PROVE  readings[n].into \in Waiting' \/ n \in InFrames'
    <3> DEFINE o == readings[n].into
    <3>1. n \in Numbers /\ o \notin disturbed'
      BY <1>6, <1>9, KeptIs DEF Kept, Numbers, WindowTypes
    <3>2. CASE o \in hand[t]
      <4>1. to = "publish"
        BY <1>3, <3>1, <3>2
      <4>2. n \in frame'[t]
        BY <1>1, <1>3, <1>5, <3>1, <3>2, <4>1, ContentIs
      <4> QED
        BY <4>2, InFramesIs
    <3>3. CASE o \notin hand[t]
      <4>1. o \notin slot[s]
        BY <1>1, <1>2, <1>6, <3>1, <3>3 DEF SlotsTended, s
      <4> QED
        BY <1>5, <1>6, <1>7, <2>1, <3>3, <4>1, WaitingIs
    <3> QED
      BY <3>2, <3>3
  <2>2. \A n : n \in InFrames => n \in InFrames'
    BY <1>4, <1>5, InFramesIs
  <2> QED
    BY <1>1, <1>6, <1>9, <2>1, <2>2, LostKept
<1>21. OneMoreLine'
  BY <1>1, <1>2, <1>5, <1>6, TwoThreads, MoreLineKept
<1>22. DisturbedByStop'
  <2> SUFFICES ASSUME running, pc'[Flusher] # "dead" PROVE disturbed' = {}
    BY <1>6 DEF DisturbedByStop
  <2>1. to # "dead" /\ disturbed' = disturbed
    BY <1>3, <1>5
  <2>2. pc[Flusher] # "dead"
    BY <1>2, <1>5, TwoThreads
  <2> QED
    BY <1>1, <2>1, <2>2 DEF DisturbedByStop
<1>23. FramesOfObjects'
  <2>1. \A n \in ns : readings[n].into # 0
    <3>1. 0 \notin Numbers
      BY <1>1 DEF WindowTypes, Numbers
    <3> QED
      BY <1>1, <1>3, <1>8, <3>1, ContentIs
  <2> QED
    BY <1>1, <1>5, <1>6, <2>1 DEF FramesOfObjects
<1> QED
  BY <1>5, <1>9, <1>10, <1>12, <1>13, <1>14, <1>15, <1>19, <1>20, <1>21, <1>22, <1>23
     DEF BridgeIInv

(* The frame is published, or refused by a transport that is closed. *)
LEMMA PublishKeeps == ASSUME BridgeIInv, NEW t \in Threads, Publish(t) PROVE BridgeIInv'
<1>1. /\ WindowTypes /\ SourceTypes /\ ThreadsInStep /\ WindowsOfStream /\ ClearedOnce
      /\ Contest /\ SlotsTended /\ ShippedOnce /\ NothingElseLost /\ OneMoreLine
      /\ DisturbedByStop /\ FramesOfObjects
  BY DEF BridgeIInv
<1>2. /\ pc[t] = "publish"
      /\ sent' = IF online THEN sent \cup frame[t] ELSE sent
      /\ again' = IF online THEN again \cup (sent \cap frame[t]) ELSE again
      /\ Finish(t)
      /\ UNCHANGED <<kind, running, source, agg, slot, deques, online, late, hist>>
  BY DEF Publish
<1>3. Busy(t) /\ hand[t] = {}
  BY <1>1, <1>2 DEF Busy, ThreadsInStep
<1>4. /\ ThreadsInStep' /\ hand'[t] = {} /\ frame'[t] = {} /\ pc'[t] \in {"loop", "copy", "close"}
      /\ \A u \in Threads \ {t} :
            pc'[u] = pc[u] /\ hand'[u] = hand[u] /\ frame'[u] = frame[u] /\ todo'[u] = todo[u]
  BY <1>1, <1>2, <1>3, FinishFacts
<1>5. UNCHANGED <<kind, running, agg, slot, readings, reader, late, deques, online, disturbed, nested>>
  BY <1>2 DEF source, hist
<1>6. hand' = hand
  <2>1. hand \in [Threads -> SUBSET Numbers] /\ hand' = [hand EXCEPT ![t] = {}]
    BY <1>1, <1>2 DEF WindowTypes, Finish
  <2> QED
    BY <1>3, <2>1
<1>7. WindowTypes'
  <2>1. frame' \in [Threads -> SUBSET Numbers]
    BY <1>1, <1>2 DEF Finish, WindowTypes
  <2>2. again' \subseteq sent' /\ sent' \subseteq Numbers
    BY <1>1, <1>2 DEF WindowTypes
  <2> QED
    BY <1>1, <1>5, <1>6, <2>1, <2>2 DEF WindowTypes, Numbers
<1>8. SourceTypes'
  BY <1>1, <1>2, SourceTypesKept DEF source, hist
<1>9. \A u \in Threads : Windowing(u)' => Windowing(u) /\ todo'[u] = todo[u]
  BY <1>4 DEF Windowing
<1>10. WindowsOfStream'
  BY <1>1, <1>5, <1>6, <1>9 DEF WindowsOfStream, OfStream, Numbers
<1>11. ClearedOnce'
  BY <1>1, <1>4, <1>5, <1>6 DEF ClearedOnce
<1>12. Contest'
  BY <1>1, <1>5, <1>6, <1>9 DEF Contest
<1>13. SlotsTended'
  <2>1. \A u \in Threads : pc[u] \in {"take", "drop"} => pc'[u] = pc[u] /\ todo'[u] = todo[u]
    BY <1>2, <1>4
  <2>2. \A u \in Threads : pc'[u] = "drop" => pc[u] = "drop" /\ todo'[u] = todo[u]
    BY <1>4
  <2> QED
    BY <1>1, <1>5, <1>6, <2>1, <2>2 DEF SlotsTended
<1>14. \A o : o \in Waiting <=> o \in Waiting'
  BY <1>5, <1>6, WaitingIs
<1>15. Kept' = Kept
  BY <1>5 DEF Kept
<1>16. ShippedOnce'
  <2>1. \A n : n \in Shipped' => n \in Shipped
    BY <1>2, <1>4, InFramesIs DEF Shipped
  <2>2. \A n \in Kept' : n \in Shipped' => readings'[n].into \notin Waiting'
    BY <1>1, <1>5, <1>14, <1>15, <2>1 DEF ShippedOnce
  <2>3. \A u \in Threads : frame'[u] \subseteq frame[u] /\ (u = t => frame'[u] = {})
    BY <1>4
  <2>4. \A u, v \in Threads : u # v => frame'[u] \cap frame'[v] \cap Kept' = {}
    BY <1>1, <1>15, <2>3 DEF ShippedOnce
  <2>5. \A u \in Threads : frame'[u] \cap sent' \cap Kept' = {}
    BY <1>1, <1>2, <1>15, <2>3 DEF ShippedOnce
  <2>6. again' \cap Kept' = {}
    BY <1>1, <1>2, <1>15 DEF ShippedOnce
  <2> QED
    BY <2>2, <2>4, <2>5, <2>6 DEF ShippedOnce
<1>17. NothingElseLost'
  <2>1. \A n : online /\ n \in InFrames \cup sent => n \in InFrames' \cup sent'
    BY <1>2, <1>4, InFramesIs
  <2> QED
    BY <1>1, <1>5, <1>7, <1>14, <2>1, LostKept
<1>18. OneMoreLine'
  BY <1>1, <1>2, <1>4, <1>5, TwoThreads, MoreLineKept DEF source
<1>19. DisturbedByStop'
  <2>1. pc[Flusher] = "dead" => pc'[Flusher] = "dead"
    BY <1>2, <1>4, TwoThreads
  <2> QED
    BY <1>1, <1>5, <2>1 DEF DisturbedByStop
<1>20. FramesOfObjects'
  BY <1>1, <1>4, <1>5 DEF FramesOfObjects
<1> QED
  BY <1>4, <1>7, <1>8, <1>10, <1>11, <1>12, <1>13, <1>16, <1>17, <1>18, <1>19, <1>20 DEF BridgeIInv

(* The flush thread wakes up for a pass, or ends. *)
LEMMA WakeKeeps ==
    ASSUME BridgeIInv, LoopEnds \/ \E pass \in Passes : Wake(pass)
    PROVE  BridgeIInv'
<1>1. /\ WindowTypes /\ SourceTypes /\ ThreadsInStep /\ WindowsOfStream /\ ClearedOnce
      /\ Contest /\ SlotsTended /\ ShippedOnce /\ NothingElseLost /\ OneMoreLine
      /\ DisturbedByStop /\ FramesOfObjects
  BY DEF BridgeIInv
<1>2. /\ pc[Flusher] = "loop"
      /\ \E to \in {"copy", "done"} : pc' = [pc EXCEPT ![Flusher] = to]
      /\ UNCHANGED <<kind, running, source, agg, slot, deques, hand, frame, outlet, late, hist>>
      /\ todo' = todo \/ \E pass \in Passes : todo' = [todo EXCEPT ![Flusher] = pass]
  BY DEF LoopEnds, Wake
<1>3. PICK to \in {"copy", "done"} : pc' = [pc EXCEPT ![Flusher] = to]
  BY <1>2
<1>4. \A pass \in Passes : pass \in Seq(StreamsOf(kind))
  <2>1. kind \in {"esp32", "s2", "ssh", "serial"}
    BY <1>1, KindsAssumption DEF WindowTypes
  <2>2. <<"ble", "csi">> \in Seq({"ble", "csi"}) /\ <<"csi">> \in Seq({"ble", "csi"})
        /\ <<"router">> \in Seq({"router"})
    OBVIOUS
  <2> QED
    BY <2>1, <2>2 DEF Passes, EspPasses, RouterPass, StreamsOf
<1>5. /\ pc' \in PcType /\ pc'[Flusher] = to /\ pc'[Main] = pc[Main]
  BY <1>1, <1>3, TwoThreads DEF ThreadsInStep, PcType
<1>6. todo' \in [Threads -> Seq(StreamsOf(kind))] /\ todo'[Main] = todo[Main]
  BY <1>1, <1>2, <1>4, TwoThreads DEF ThreadsInStep
<1>7. /\ ~Busy(Flusher) /\ ~Busy(Flusher)' /\ (Busy(Main)' <=> Busy(Main))
      /\ ~Windowing(Flusher) /\ ~Windowing(Flusher)' /\ (Windowing(Main)' <=> Windowing(Main))
  BY <1>2, <1>5 DEF Busy, Windowing
<1>8. /\ UNCHANGED <<kind, running, agg, slot, hand, frame, readings, reader, sent, again, late>>
      /\ UNCHANGED <<deques, online, disturbed, nested>>
  BY <1>2 DEF source, outlet, hist
<1>9. ThreadsInStep'
  BY <1>1, <1>2, <1>5, <1>6, <1>7, <1>8, TwoThreads DEF ThreadsInStep
<1>10. WindowTypes' /\ SourceTypes'
  BY <1>1, <1>2, <1>8, SourceTypesKept DEF WindowTypes, Numbers, source
<1>11. WindowsOfStream' /\ ClearedOnce' /\ Contest' /\ SlotsTended' /\ FramesOfObjects'
  BY <1>1, <1>2, <1>5, <1>6, <1>7, <1>8, TwoThreads
     DEF WindowsOfStream, OfStream, Numbers, ClearedOnce, Contest, SlotsTended, FramesOfObjects
<1>12. ShippedOnce' /\ NothingElseLost'
  BY <1>1, <1>8
     DEF ShippedOnce, NothingElseLost, Kept, Shipped, Waiting, InFrames, Content
<1>13. OneMoreLine' /\ DisturbedByStop'
  BY <1>1, <1>2, <1>5, <1>8 DEF OneMoreLine, DisturbedByStop
<1> QED
  BY <1>9, <1>10, <1>11, <1>12, <1>13 DEF BridgeIInv

(* A step of the source or of the reading thread that adds nothing. *)
LEMMA SourceKeeps ==
    ASSUME BridgeIInv,
           \/ Unplug \/ Replug \/ Ended \/ PortOpen \/ PortTimeout \/ PortLost
           \/ RouterLoop \/ ConnectSsh \/ ConnectSerial \/ RouterNotThere
           \/ RouterPoll \/ RouterPolled \/ \E m \in Senders : BleGet(m)
    PROVE  BridgeIInv'
<1>1. /\ WindowTypes /\ SourceTypes /\ ThreadsInStep /\ WindowsOfStream /\ ClearedOnce
      /\ Contest /\ SlotsTended /\ ShippedOnce /\ NothingElseLost /\ OneMoreLine
      /\ DisturbedByStop /\ FramesOfObjects
  BY DEF BridgeIInv
<1> USE DEF Unplug, Replug, Ended, PortOpen, PortTimeout, PortLost, RouterLoop, ConnectSsh,
            ConnectSerial, RouterNotThere, RouterPoll, RouterPolled, Reading, BleGet
<1>2. UNCHANGED <<kind, running, readings, agg, slot, deques, worker, outlet, late, hist>>
  OBVIOUS
<1>3. SourceTypes'
  <2>1. {running, plugged, healthy, online, nested}' \subseteq BOOLEAN
    BY <1>1 DEF SourceTypes, outlet, hist
  <2>2. unplugs' \in 0..MaxUnplugs
    BY <1>1, BoundsAssumption DEF SourceTypes
  <2>3. handle' \in {"none", "live", "stale"} /\ (kind = "ssh" => handle' = "none")
    BY <1>1 DEF SourceTypes, HasPort
  <2>4. /\ reader' \in {"open", "connect", "read", "merge", "add", "done"}
        /\ reader' \in {"connect", "add"} => kind \in RouterKinds
        /\ reader' = "merge" => kind = "esp32"
    BY <1>1 DEF SourceTypes, HasPort
  <2>5. CASE UNCHANGED fetched /\ (reader' = "merge" => reader = "merge")
    BY <1>1, <1>2, <2>1, <2>2, <2>3, <2>4, <2>5 DEF SourceTypes, Numbers
  <2>6. CASE \E m \in Senders : BleGet(m)
    <3>1. PICK m \in Senders : fetched' = <<m, Existing(m)>>
      BY <2>6
    <3>2. \/ Existing(m) = 0
          \/ Existing(m) \in Numbers /\ readings[Existing(m)].stream = "ble"
      <4> DEFINE same == {o \in agg["ble"] : readings[o].mac = m}
      <4>1. agg["ble"] \subseteq Numbers /\ \A o \in agg["ble"] : readings[o].stream = "ble"
        BY <1>1 DEF WindowTypes, WindowsOfStream, OfStream, Streams
      <4>2. same # {} => (CHOOSE o \in same : TRUE) \in same
        OBVIOUS
      <4>3. Existing(m) = IF same = {} THEN 0 ELSE CHOOSE o \in same : TRUE
        BY DEF Existing
      <4> HIDE DEF same
      <4>4. Existing(m) = 0 \/ Existing(m) \in same
        BY <4>2, <4>3
      <4> QED
        BY <4>1, <4>4 DEF same
    <3>3. fetched' \in Senders \X ({0} \cup Numbers) /\ fetched' # <<>> /\ fetched'[2] = Existing(m)
      BY <3>1, <3>2
    <3> QED
      BY <1>2, <2>1, <2>2, <2>3, <2>4, <3>2, <3>3 DEF SourceTypes, Numbers
  <2>7. (UNCHANGED fetched /\ (reader' = "merge" => reader = "merge")) \/ \E m \in Senders : BleGet(m)
    OBVIOUS
  <2> QED
    BY <2>5, <2>6, <2>7
<1>4. OneMoreLine'
  <2> SUFFICES ASSUME pc[Main] \in {"feed", "take", "drop", "publish", "close"}, kind = "esp32"
               PROVE  IF reader' \in {"read", "merge"} THEN agg["ble"] = {}
                      ELSE agg["ble"] \subseteq {Len(readings)}
    BY <1>2 DEF OneMoreLine, worker
  <2>1. IF reader \in {"read", "merge"} THEN agg["ble"] = {} ELSE agg["ble"] \subseteq {Len(readings)}
    BY <1>1 DEF OneMoreLine
  <2>2. ~running
    BY <1>1 DEF ThreadsInStep
  <2>3. reader' \in {"read", "merge"} => reader \in {"read", "merge"}
    BY <2>2 DEF RouterKinds
  <2> QED
    BY <2>1, <2>3
<1>5. WindowTypes' /\ ThreadsInStep'
  BY <1>1, <1>2 DEF WindowTypes, Numbers, ThreadsInStep, Busy, Windowing, worker, outlet, hist
<1>6. WindowsOfStream' /\ ClearedOnce' /\ Contest' /\ SlotsTended' /\ FramesOfObjects'
  BY <1>1, <1>2 DEF WindowsOfStream, OfStream, Numbers, ClearedOnce, Contest, SlotsTended, Windowing,
                    FramesOfObjects, worker, hist
<1>7. ShippedOnce' /\ NothingElseLost' /\ DisturbedByStop'
  BY <1>1, <1>2 DEF ShippedOnce, NothingElseLost, DisturbedByStop, Kept, Shipped, Waiting, InFrames,
                    Content, worker, outlet, hist
<1> QED
  BY <1>3, <1>4, <1>5, <1>6, <1>7 DEF BridgeIInv

(* What becomes of a reading of stream s: its object is none, or a new one
   in the aggregator, or one of its stream that is there already, or that is
   not there any more, and then the reading is late. *)
ReadOutcome(s, o) ==
    \/ o = 0 /\ UNCHANGED <<agg, late>>
    \/ /\ s \in Streams /\ o = Len(readings) + 1
       /\ agg' = [agg EXCEPT ![s] = @ \cup {o}] /\ UNCHANGED late
    \/ /\ s = "ble" /\ o \in Numbers /\ readings[o].stream = s /\ UNCHANGED agg
       /\ late' = IF o \in agg["ble"] THEN late ELSE late \cup {Len(readings')}

LEMMA ReadKeeps ==
    ASSUME BridgeIInv, NEW s \in Streams \cup {"wifi"}, NEW m \in Senders, NEW w \in BOOLEAN, NEW o,
           Read(s, m, w, o), ReadOutcome(s, o),
           UNCHANGED <<kind, running, slot, deques, worker, outlet, hist>>
    PROVE  /\ WindowTypes' /\ ThreadsInStep' /\ WindowsOfStream' /\ ClearedOnce' /\ Contest'
           /\ SlotsTended' /\ ShippedOnce' /\ NothingElseLost' /\ DisturbedByStop' /\ FramesOfObjects'
           /\ agg'["ble"] \subseteq agg["ble"] \cup {Len(readings')}
<1>1. /\ WindowTypes /\ SourceTypes /\ ThreadsInStep /\ WindowsOfStream /\ ClearedOnce
      /\ Contest /\ SlotsTended /\ ShippedOnce /\ NothingElseLost /\ DisturbedByStop
      /\ FramesOfObjects
  BY DEF BridgeIInv
<1> DEFINE n == Len(readings) + 1
           new == [stream |-> s, mac |-> m, wide |-> w, into |-> o]
<1>2. Len(readings) < MaxReadings /\ readings' = Append(readings, new)
  BY DEF Read
<1>3. /\ readings \in Seq(LineRecord) /\ Len(readings) \in Nat /\ MaxReadings \in Nat
      /\ agg \in [Streams -> SUBSET Numbers]
  BY <1>1, BoundsAssumption DEF WindowTypes
<1>4. o \in 0..MaxReadings
  BY <1>2, <1>3 DEF ReadOutcome, Numbers
<1>5. new \in LineRecord /\ new.stream = s /\ new.into = o
  BY <1>4 DEF LineRecord
<1> HIDE DEF new
<1>6. /\ readings' \in Seq(LineRecord) /\ Len(readings') = n /\ readings'[n] = new
      /\ \A p \in Numbers : readings'[p] = readings[p]
  BY <1>2, <1>3, <1>5 DEF Numbers
<1>7. /\ Numbers' = Numbers \cup {n} /\ n \notin Numbers
      /\ Len(readings') <= MaxReadings /\ n # 0 /\ n \in Nat /\ \A p \in Numbers : p \in 1..n
  BY <1>2, <1>3, <1>6 DEF Numbers
<1>8. /\ o \in {0, n} \cup Numbers
      /\ o = 0 => UNCHANGED <<agg, late>>
      /\ o = n => s \in Streams /\ agg' = [agg EXCEPT ![s] = agg[s] \cup {n}] /\ UNCHANGED late
      /\ o \in Numbers => /\ s = "ble" /\ readings[o].stream = s /\ UNCHANGED agg
                          /\ late' = IF o \in agg["ble"] THEN late ELSE late \cup {n}
  BY <1>6, <1>7 DEF ReadOutcome, Numbers
<1> HIDE DEF n
<1>9. /\ \A r \in Streams : agg'[r] = agg[r] \/ (r = s /\ o = n /\ agg'[r] = agg[r] \cup {n})
      /\ agg' \in [Streams -> SUBSET Numbers']
      /\ late \subseteq late' /\ late' \subseteq late \cup {n}
  BY <1>3, <1>7, <1>8
<1>10. /\ \A r \in Streams : n \notin agg[r] \cup slot[r]
       /\ \A t \in Threads : n \notin hand[t] \cup frame[t]
       /\ n \notin sent \cup late \cup disturbed
  BY <1>1, <1>7 DEF WindowTypes
<1>11. /\ UNCHANGED <<kind, running, slot, hand, frame, pc, todo, sent, again, deques, online>>
       /\ UNCHANGED <<disturbed, nested>>
  BY DEF worker, outlet, hist
<1>12. WindowTypes'
  <2>1. /\ slot \in [Streams -> SUBSET Numbers'] /\ hand \in [Threads -> SUBSET Numbers']
        /\ frame \in [Threads -> SUBSET Numbers'] /\ sent \cup late' \cup disturbed \subseteq Numbers'
    BY <1>1, <1>7, <1>9 DEF WindowTypes
  <2> QED
    BY <1>1, <1>6, <1>7, <1>9, <1>11, <2>1 DEF WindowTypes
<1>13. ThreadsInStep'
  BY <1>1, <1>11 DEF ThreadsInStep, Busy, Windowing
<1>14. WindowsOfStream'
  <2>1. ASSUME NEW r \in Streams PROVE \A p \in agg'[r] \cup slot[r] : readings'[p].stream = r
    <3>1. OfStream(agg[r] \cup slot[r], r) /\ agg[r] \cup slot[r] \subseteq Numbers
      BY <1>1 DEF WindowsOfStream, WindowTypes
    <3>2. \A p \in agg'[r] \cup slot[r] : p \in agg[r] \cup slot[r] \/ (p = n /\ r = s)
      BY <1>9
    <3> QED
      BY <1>5, <1>6, <3>1, <3>2 DEF OfStream
  <2>2. ASSUME NEW t \in Threads, Windowing(t)
        PROVE  \A p \in hand[t] : readings'[p].stream = Head(todo[t])
    <3>1. hand[t] \subseteq Numbers /\ \A p \in hand[t] : readings[p].stream = Head(todo[t])
      BY <1>1, <2>2 DEF WindowsOfStream, WindowTypes, OfStream
    <3> QED
      BY <1>6, <3>1
  <2>3. ASSUME NEW p \in Numbers', readings'[p].into # 0
        PROVE  /\ readings'[p].into \in 1..p
               /\ readings'[readings'[p].into].stream = readings'[p].stream
    <3>1. CASE p \in Numbers
      <4>1. /\ readings'[p] = readings[p] /\ readings[p].into \in 1..p
            /\ readings[readings[p].into].stream = readings[p].stream
        BY <1>1, <1>6, <2>3, <3>1 DEF WindowsOfStream
      <4>2. readings[p].into \in Numbers
        BY <1>3, <3>1, <4>1 DEF Numbers
      <4> QED
        BY <1>6, <4>1, <4>2
    <3>2. CASE p = n
      <4>1. readings'[p].into = o /\ readings'[p].stream = s /\ o # 0
        BY <1>5, <1>6, <2>3, <3>2
      <4>2. CASE o = n
        BY <1>7, <3>2, <4>1, <4>2
      <4>3. CASE o \in Numbers
        BY <1>6, <1>7, <1>8, <3>2, <4>1, <4>3
      <4> QED
        BY <1>8, <4>1, <4>2, <4>3
    <3> QED
      BY <1>7, <3>1, <3>2
  <2> QED
    BY <1>11, <2>1, <2>2, <2>3 DEF WindowsOfStream, OfStream, Windowing
<1>15. ClearedOnce'
  <2>1. \A t \in Threads : pc[t] \in {"feed", "drop"} => Head(todo[t]) \in Streams
    BY <1>1, HeadKnown DEF ThreadsInStep, Busy, Windowing
  <2> QED
    BY <1>1, <1>9, <1>10, <1>11, <2>1 DEF ClearedOnce
<1>16. Contest' /\ SlotsTended' /\ DisturbedByStop'
  BY <1>1, <1>11 DEF Contest, SlotsTended, DisturbedByStop, Windowing
<1>17. /\ \A p \in Kept' : p \in Kept \/ (p = n /\ o # 0)
       /\ \A p \in Kept : p \in Numbers /\ p # n /\ readings'[p] = readings[p]
                          /\ readings[p].into \in Numbers
       /\ \A q \in Waiting' : q \in Waiting \/ q = n
       /\ Waiting \subseteq Waiting' /\ InFrames' = InFrames /\ Shipped' = Shipped
       /\ n \notin Shipped
  <2>1. \A p \in Kept : /\ p \in Numbers /\ p # n /\ readings'[p] = readings[p]
                        /\ readings[p].into \in Numbers
    <3> SUFFICES ASSUME NEW p \in Kept
                 PROVE  p \in Numbers /\ p # n /\ readings'[p] = readings[p] /\ readings[p].into \in Numbers
      OBVIOUS
    <3>1. p \in Numbers /\ readings[p].into # 0
      BY <1>1, KeptIs
    <3>2. readings[p].into \in 1..p
      BY <1>1, <3>1 DEF WindowsOfStream
    <3> QED
      BY <1>3, <1>6, <1>7, <3>1, <3>2 DEF Numbers
  <2>2. \A p \in Kept' : p \in Kept \/ (p = n /\ o # 0)
    <3> SUFFICES ASSUME NEW p \in Kept', p \notin Kept PROVE p = n /\ o # 0
      OBVIOUS
    <3>1. p \in Numbers' /\ readings'[p].into # 0 /\ readings'[p].into \notin disturbed
      BY <1>11, <1>12 DEF Kept, WindowTypes, Numbers
    <3>2. p \notin Numbers
      BY <1>1, <1>6, <3>1, KeptIs
    <3> QED
      BY <1>5, <1>6, <1>7, <3>1, <3>2
  <2>3. (\A q \in Waiting' : q \in Waiting \/ q = n) /\ Waiting \subseteq Waiting'
    BY <1>9, <1>11, WaitingIs
  <2>4. InFrames' = InFrames /\ Shipped' = Shipped
    BY <1>11 DEF InFrames, Shipped
  <2>5. n \notin Shipped
    BY <1>10, InFramesIs DEF Shipped
  <2> QED
    BY <2>1, <2>2, <2>3, <2>4, <2>5
<1>18. ShippedOnce'
  <2>1. \A p \in Kept' : p \in Shipped' => readings'[p].into \notin Waiting'
    BY <1>1, <1>7, <1>17 DEF ShippedOnce
  <2>2. \A p \in Kept' : p \in Kept \/ p \notin Shipped
    BY <1>17
  <2>3. \A t \in Threads : frame[t] \subseteq Shipped
    BY InFramesIs DEF Shipped
  <2>4. sent \subseteq Shipped /\ again \subseteq Shipped
    BY <1>1 DEF Shipped, WindowTypes
  <2>5. again' \cap Kept' = {}
    BY <1>1, <1>11, <2>2, <2>4 DEF ShippedOnce
  <2>6. \A t, u \in Threads : t # u => frame'[t] \cap frame'[u] \cap Kept' = {}
    BY <1>1, <1>11, <2>2, <2>3 DEF ShippedOnce
  <2>7. \A t \in Threads : frame'[t] \cap sent' \cap Kept' = {}
    BY <1>1, <1>11, <2>2, <2>3 DEF ShippedOnce
  <2> QED
    BY <2>1, <2>5, <2>6, <2>7 DEF ShippedOnce
<1>19. NothingElseLost'
  <2> SUFFICES ASSUME online, NEW p \in Kept'
               PROVE  readings'[p].into \in Waiting' \/ p \in InFrames' \cup sent' \cup late'
    BY <1>11 DEF NothingElseLost, Content, Kept
  <2>1. CASE p \in Kept
    <3>1. readings[p].into \in Waiting \/ p \in InFrames \cup sent \cup late
      BY <1>1, <2>1 DEF NothingElseLost, Content
    <3> QED
      BY <1>9, <1>11, <1>17, <2>1, <3>1
  <2>2. CASE p = n /\ o # 0
    <3>1. readings'[p].into = o
      BY <1>5, <1>6, <2>2
    <3>2. CASE o = n
      <4>1. s \in Streams /\ n \in agg'[s]
        BY <1>3, <1>8, <3>2
      <4> QED
        BY <3>1, <3>2, <4>1, WaitingIs
    <3>3. CASE o \in Numbers
      <4>1. o \in agg'["ble"] \/ n \in late'
        BY <1>8, <3>3
      <4> QED
        BY <2>2, <3>1, <4>1, WaitingIs DEF Streams
    <3> QED
      BY <1>8, <2>2, <3>2, <3>3
  <2> QED
    BY <1>17, <2>1, <2>2
<1>20. agg'["ble"] \subseteq agg["ble"] \cup {Len(readings')}
  BY <1>6, <1>9 DEF Streams
<1>21. FramesOfObjects'
  <2>1. \A t \in Threads : frame[t] \subseteq Numbers
    BY <1>1 DEF WindowTypes
  <2> QED
    BY <1>1, <1>6, <1>11, <2>1 DEF FramesOfObjects
<1> QED
  BY <1>12, <1>13, <1>14, <1>15, <1>16, <1>18, <1>19, <1>20, <1>21

LEMMA AppendedIsRead ==
    ASSUME NEW s \in Streams, NEW m, NEW w, Appended(s, m, w), UNCHANGED late
    PROVE  \E o : Read(s, m, w, o) /\ ReadOutcome(s, o)
<1> DEFINE n == Len(readings) + 1
<1>1. CASE Cardinality(agg[s]) < Cap
  <2>1. Read(s, m, w, n) /\ agg' = [agg EXCEPT ![s] = @ \cup {n}]
    BY <1>1 DEF Appended
  <2> QED
    BY <2>1 DEF ReadOutcome
<1>2. CASE ~(Cardinality(agg[s]) < Cap)
  <2>1. Read(s, m, w, 0) /\ agg' = agg
    BY <1>2 DEF Appended
  <2> QED
    BY <2>1 DEF ReadOutcome
<1> QED
  BY <1>1, <1>2

(* A line of the board, an observation of a poll, or a merge. *)
LEMMA LinesKeep ==
    ASSUME BridgeIInv, EspLine \/ S2Reads \/ RouterAdd \/ BleMerge
    PROVE  BridgeIInv'
<1>1. /\ WindowTypes /\ SourceTypes /\ ThreadsInStep /\ WindowsOfStream /\ ClearedOnce
      /\ Contest /\ SlotsTended /\ ShippedOnce /\ NothingElseLost /\ OneMoreLine
      /\ DisturbedByStop /\ FramesOfObjects
  BY DEF BridgeIInv
<1>2. /\ UNCHANGED <<kind, running, plugged, unplugs, handle, healthy, slot, deques, worker,
                     outlet, hist>>
      /\ reader' \in {"read", "open", reader} /\ fetched' \in {<<>>, fetched}
      /\ reader' # "merge"
  BY <1>1 DEF EspLine, S2Reads, Line, NextLine, RouterAdd, BleMerge
<1>3. \/ UNCHANGED <<readings, agg, late>>
      \/ \E s \in Streams \cup {"wifi"}, m \in Senders, w \in BOOLEAN :
            \E o : Read(s, m, w, o) /\ ReadOutcome(s, o)
  <2>1. "ble" \in Streams /\ "csi" \in Streams /\ "router" \in Streams
    BY DEF Streams
  <2>2. ASSUME NEW m \in Senders, WifiLine(m), UNCHANGED late
        PROVE  Read("wifi", m, FALSE, 0) /\ ReadOutcome("wifi", 0)
    BY <2>2 DEF WifiLine, ReadOutcome
  <2>3. CASE EspLine
    <3>1. PICK m \in Senders : WifiLine(m) \/ \E w \in BOOLEAN : CsiLine(m, w)
      BY <2>3 DEF EspLine, Line, EspParse
    <3>2. UNCHANGED late
      BY <2>3 DEF EspLine, Line
    <3>3. CASE WifiLine(m)
      BY <2>2, <3>2, <3>3
    <3>4. CASE \E w \in BOOLEAN : CsiLine(m, w)
      BY <2>1, <3>2, <3>4, AppendedIsRead DEF CsiLine
    <3> QED
      BY <3>1, <3>3, <3>4
  <2>4. CASE S2Reads
    <3>1. S2Line /\ UNCHANGED late
      BY <2>4 DEF S2Reads, Line
    <3>2. UNCHANGED <<readings, agg>> \/ \E m \in Senders : WifiLine(m)
      BY <3>1 DEF S2Line
    <3> QED
      BY <2>2, <3>1, <3>2
  <2>5. CASE RouterAdd
    BY <2>1, <2>5, AppendedIsRead DEF RouterAdd
  <2>6. CASE BleMerge
    <3>1. /\ fetched[1] \in Senders /\ fetched[2] \in {0} \cup Numbers
          /\ fetched[2] # 0 => readings[fetched[2]].stream = "ble"
      BY <1>1, <2>6 DEF BleMerge, SourceTypes
    <3>2. CASE fetched[2] = 0
      BY <2>1, <2>6, <3>1, <3>2, AppendedIsRead DEF BleMerge
    <3>3. CASE fetched[2] # 0
      <4>1. Read("ble", fetched[1], FALSE, fetched[2])
        BY <2>6, <3>3 DEF BleMerge
      <4>2. ReadOutcome("ble", fetched[2])
        BY <2>6, <3>1, <3>3 DEF BleMerge, ReadOutcome
      <4> QED
        BY <2>1, <3>1, <4>1, <4>2
    <3> QED
      BY <3>2, <3>3
  <2> QED
    BY <2>3, <2>4, <2>5, <2>6
<1>4. ASSUME Numbers \subseteq Numbers' PROVE SourceTypes'
  <2>1. {running, plugged, healthy, online, nested}' \subseteq BOOLEAN
    BY <1>1, <1>2 DEF SourceTypes, outlet, hist
  <2>2. fetched' \in {<<>>} \cup (Senders \X ({0} \cup Numbers'))
    BY <1>1, <1>2, <1>4 DEF SourceTypes
  <2>3. /\ reader' \in {"open", "connect", "read", "merge", "add", "done"}
        /\ reader' \in {"connect", "add"} => kind \in RouterKinds
    BY <1>1, <1>2 DEF SourceTypes
  <2> QED
    BY <1>1, <1>2, <2>1, <2>2, <2>3 DEF SourceTypes
<1>5. ASSUME pc[Main] \in {"feed", "take", "drop", "publish", "close"}, kind = "esp32"
      PROVE  reader' = "open" /\ agg["ble"] = {}
  <2>1. ~running /\ kind \notin RouterKinds
    BY <1>1, <1>5 DEF ThreadsInStep, RouterKinds
  <2>2. reader \in {"read", "merge"} /\ reader' = "open"
    BY <1>1, <2>1 DEF EspLine, S2Reads, Line, NextLine, RouterAdd, BleMerge, SourceTypes
  <2> QED
    BY <1>1, <1>5, <2>2 DEF OneMoreLine
<1>6. CASE UNCHANGED <<readings, agg, late>>
  <2>1. WindowTypes' /\ ThreadsInStep'
    BY <1>1, <1>2, <1>6 DEF WindowTypes, Numbers, ThreadsInStep, Busy, Windowing, worker, outlet, hist
  <2>2. WindowsOfStream' /\ ClearedOnce' /\ Contest' /\ SlotsTended' /\ FramesOfObjects'
    BY <1>1, <1>2, <1>6 DEF WindowsOfStream, OfStream, Numbers, ClearedOnce, Contest, SlotsTended,
                            FramesOfObjects, Windowing, worker, hist
  <2>3. ShippedOnce' /\ NothingElseLost' /\ DisturbedByStop'
    BY <1>1, <1>2, <1>6 DEF ShippedOnce, NothingElseLost, DisturbedByStop, Kept, Shipped, Waiting,
                            InFrames, Content, worker, outlet, hist
  <2>4. OneMoreLine'
    BY <1>2, <1>5, <1>6 DEF OneMoreLine, worker
  <2>5. SourceTypes'
    BY <1>4, <1>6 DEF Numbers
  <2> QED
    BY <2>1, <2>2, <2>3, <2>4, <2>5 DEF BridgeIInv
<1>7. ASSUME NEW s \in Streams \cup {"wifi"}, NEW m \in Senders, NEW w \in BOOLEAN, NEW o,
             Read(s, m, w, o), ReadOutcome(s, o)
      PROVE  BridgeIInv'
  <2>1. /\ WindowTypes' /\ ThreadsInStep' /\ WindowsOfStream' /\ ClearedOnce' /\ Contest'
        /\ SlotsTended' /\ ShippedOnce' /\ NothingElseLost' /\ DisturbedByStop' /\ FramesOfObjects'
        /\ agg'["ble"] \subseteq agg["ble"] \cup {Len(readings')}
    BY <1>2, <1>7, ReadKeeps
  <2>2. Numbers \subseteq Numbers'
    <3>1. Len(readings) \in Nat /\ Len(readings') = Len(readings) + 1
      BY <1>1, <1>7 DEF WindowTypes, Read
    <3> QED
      BY <3>1 DEF Numbers
  <2>3. OneMoreLine'
    BY <1>2, <1>5, <2>1 DEF OneMoreLine, worker
  <2> QED
    BY <1>4, <2>1, <2>2, <2>3 DEF BridgeIInv
<1> QED
  BY <1>3, <1>6, <1>7

(* stop() begins, for the first time or again: the main thread has nothing
   in hand, and but the final flush before it; what it had is disturbed. *)
LEMMA StopKeeps == ASSUME BridgeIInv, Stop \/ StopAgain PROVE BridgeIInv'
<1>1. /\ WindowTypes /\ SourceTypes /\ ThreadsInStep /\ WindowsOfStream /\ ClearedOnce
      /\ Contest /\ SlotsTended /\ ShippedOnce /\ NothingElseLost /\ OneMoreLine
      /\ DisturbedByStop /\ FramesOfObjects
  BY DEF BridgeIInv
<1>2. /\ running' = FALSE
      /\ pc' = [pc EXCEPT ![Main] = FirstOfStop]
      /\ todo' = [todo EXCEPT ![Main] = FinalFlush]
      /\ hand' = [hand EXCEPT ![Main] = {}] /\ frame' = [frame EXCEPT ![Main] = {}]
      /\ UNCHANGED <<kind, source, agg, slot, deques, outlet, late>>
      /\ nested' \in {nested, TRUE} /\ disturbed' \in {disturbed, disturbed \cup MainHas}
      /\ pc[Main] = "loop" \/ disturbed' = disturbed \cup MainHas
  BY DEF Stop, StopAgain, Stopping, hist
<1>3. kind \in {"esp32", "s2", "ssh", "serial"}
  BY <1>1, KindsAssumption DEF WindowTypes
<1>4. /\ FirstOfStop \in {"copy", "exit", "disconnect"}
      /\ FirstOfStop = "copy" => kind = "esp32" /\ FinalFlush = <<"ble">>
      /\ FirstOfStop = "disconnect" => kind \in RouterKinds
      /\ FinalFlush \in Seq(StreamsOf(kind))
  <2>1. <<"ble">> \in Seq({"ble", "csi"}) /\ <<"ble">> # <<>>
    OBVIOUS
  <2>2. CASE kind = "esp32"
    BY <2>1, <2>2 DEF FirstOfStop, FinalFlush, StreamsOf
  <2>3. CASE kind # "esp32"
    BY <1>3, <2>3 DEF FirstOfStop, FinalFlush, RouterKinds
  <2> QED
    BY <2>2, <2>3
<1>5. /\ pc' \in PcType /\ pc'[Main] = FirstOfStop /\ pc'[Flusher] = pc[Flusher]
  BY <1>1, <1>2, <1>4, TwoThreads DEF ThreadsInStep, PcType
<1>6. /\ todo' \in [Threads -> Seq(StreamsOf(kind))] /\ todo'[Main] = FinalFlush
      /\ todo'[Flusher] = todo[Flusher]
  BY <1>1, <1>2, <1>4, TwoThreads DEF ThreadsInStep
<1>7. /\ hand' \in [Threads -> SUBSET Numbers] /\ hand'[Main] = {} /\ hand'[Flusher] = hand[Flusher]
      /\ frame' \in [Threads -> SUBSET Numbers] /\ frame'[Main] = {}
      /\ frame'[Flusher] = frame[Flusher]
  BY <1>1, <1>2, TwoThreads DEF WindowTypes
<1>8. /\ ~Busy(Main)' /\ (Busy(Flusher)' <=> Busy(Flusher))
      /\ ~Windowing(Main)' /\ (Windowing(Flusher)' <=> Windowing(Flusher))
  BY <1>4, <1>5 DEF Busy, Windowing
<1>9. /\ UNCHANGED <<kind, agg, slot, readings, reader, sent, again, late, deques, online>>
      /\ disturbed \subseteq disturbed'
  BY <1>2 DEF source, outlet
<1>10. MainHas \subseteq Numbers
  <2>1. hand[Main] \subseteq Numbers /\ frame[Main] \subseteq Numbers
    BY <1>1, TwoThreads DEF WindowTypes
  <2>2. \A n \in frame[Main] : readings[n].into \in Numbers
    <3> SUFFICES ASSUME NEW n \in frame[Main] PROVE readings[n].into \in Numbers
      OBVIOUS
    <3>1. n \in Numbers /\ readings[n].into # 0 /\ Len(readings) \in Nat
      BY <1>1, <2>1, TwoThreads DEF FramesOfObjects, WindowTypes
    <3>2. readings[n].into \in 1..n
      BY <1>1, <3>1 DEF WindowsOfStream
    <3> QED
      BY <3>1, <3>2 DEF Numbers
  <2>3. pc[Main] \in {"take", "drop"} => slot[Head(todo[Main])] \subseteq Numbers
    BY <1>1, WindowingIsBusy, TwoThreads DEF WindowTypes, Windowing
  <2> QED
    BY <2>1, <2>2, <2>3 DEF MainHas
<1>11. WindowTypes'
  <2>1. disturbed' \subseteq Numbers
    BY <1>1, <1>2, <1>10 DEF WindowTypes
  <2> QED
    BY <1>1, <1>7, <1>9, <2>1 DEF WindowTypes, Numbers
<1>12. SourceTypes'
  <2>1. {running', online', nested'} \subseteq BOOLEAN
    BY <1>1, <1>2, <1>9 DEF SourceTypes
  <2> QED
    BY <1>1, <1>2, <2>1 DEF SourceTypes, Numbers, source
<1>13. ThreadsInStep'
  <2>1. \A t \in Threads : Busy(t)' => todo'[t] # <<>>
    BY <1>1, <1>6, <1>8, TwoThreads DEF ThreadsInStep
  <2>2. \A t \in Threads : /\ hand'[t] # {} => pc'[t] \in {"clear", "feed", "drop"}
                           /\ frame'[t] # {} => pc'[t] = "publish"
    BY <1>1, <1>5, <1>7, TwoThreads DEF ThreadsInStep
  <2> QED
    BY <1>1, <1>2, <1>4, <1>5, <1>6, <1>8, <1>9, <2>1, <2>2 DEF ThreadsInStep
<1>14. WindowsOfStream'
  BY <1>1, <1>6, <1>7, <1>8, <1>9, TwoThreads DEF WindowsOfStream, OfStream, Numbers
<1>15. FramesOfObjects'
  BY <1>1, <1>7, <1>9, TwoThreads DEF FramesOfObjects
<1>16. ClearedOnce'
  BY <1>1, <1>4, <1>5, <1>6, <1>7, <1>9, TwoThreads DEF ClearedOnce
<1>17. Contest'
  BY <1>8, TwoThreads DEF Contest
<1>18. SlotsTended'
  <2>1. ASSUME NEW s \in Streams, ~(slot[s] \subseteq disturbed')
        PROVE  \E t \in Threads : pc'[t] \in {"take", "drop"} /\ Head(todo'[t]) = s
    <3>1. PICK t \in Threads : pc[t] \in {"take", "drop"} /\ Head(todo[t]) = s
      BY <1>1, <1>9, <2>1 DEF SlotsTended
    <3>2. t # Main
      <4>1. pc[Main] \in {"take", "drop"} => slot[Head(todo[Main])] \subseteq disturbed'
        BY <1>2 DEF MainHas
      <4> QED
        BY <2>1, <3>1, <4>1
    <3> QED
      BY <1>5, <1>6, <3>1, <3>2, TwoThreads
  <2>2. ASSUME NEW t \in Threads, pc'[t] = "drop"
        PROVE  slot[Head(todo'[t])] \subseteq hand'[t] \cup disturbed'
    <3>1. t = Flusher /\ pc[t] = "drop"
      BY <1>4, <1>5, <2>2, TwoThreads
    <3> QED
      BY <1>1, <1>6, <1>7, <1>9, <3>1 DEF SlotsTended
  <2> QED
    BY <1>9, <2>1, <2>2 DEF SlotsTended
<1>19. Kept' \subseteq Kept
  BY <1>9 DEF Kept
<1>20. \A t \in Threads : frame'[t] \subseteq frame[t] /\ hand'[t] \subseteq hand[t]
  BY <1>7, TwoThreads
<1>21. ShippedOnce'
  <2>1. \A n : n \in Shipped' => n \in Shipped
    BY <1>9, <1>20, InFramesIs DEF Shipped
  <2>2. \A o : o \in Waiting' => o \in Waiting
    BY <1>9, <1>20, WaitingIs
  <2>3. \A n \in Kept' : n \in Shipped' => readings'[n].into \notin Waiting'
    BY <1>1, <1>9, <1>19, <2>1, <2>2 DEF ShippedOnce
  <2>4. \A t, u \in Threads : t # u => frame'[t] \cap frame'[u] \cap Kept' = {}
    BY <1>1, <1>19, <1>20 DEF ShippedOnce
  <2>5. \A t \in Threads : frame'[t] \cap sent' \cap Kept' = {}
    BY <1>1, <1>9, <1>19, <1>20 DEF ShippedOnce
  <2>6. again' \cap Kept' = {}
    BY <1>1, <1>9, <1>19 DEF ShippedOnce
  <2> QED
    BY <2>3, <2>4, <2>5, <2>6 DEF ShippedOnce
<1>22. NothingElseLost'
  <2>1. ASSUME NEW n \in Kept' PROVE n \notin frame[Main] /\ readings[n].into \notin hand[Main]
    <3>1. readings[n].into \notin disturbed'
      BY <1>9 DEF Kept
    <3>2. CASE pc[Main] = "loop"
      BY <1>1, <3>2, TwoThreads DEF ThreadsInStep
    <3>3. CASE disturbed' = disturbed \cup MainHas
      BY <3>1, <3>3 DEF MainHas
    <3> QED
      BY <1>2, <3>2, <3>3
  <2>2. \A n \in Kept' : n \in InFrames => n \in InFrames'
    BY <1>7, <2>1, TwoThreads, InFramesIs
  <2>3. \A n \in Kept' : readings[n].into \in Waiting => readings[n].into \in Waiting'
    BY <1>7, <1>9, <2>1, TwoThreads, WaitingIs
  <2> QED
    BY <1>1, <1>9, <1>11, <2>2, <2>3, LostKept
<1>23. OneMoreLine' /\ DisturbedByStop'
  BY <1>2, <1>4, <1>5 DEF OneMoreLine, DisturbedByStop
<1> QED
  BY <1>11, <1>12, <1>13, <1>14, <1>15, <1>16, <1>17, <1>18, <1>21, <1>22, <1>23 DEF BridgeIInv

(* The rest of stop(), and the end of the process. *)
LEMMA EndKeeps == ASSUME BridgeIInv, Disconnect \/ Close \/ Exit \/ Interrupt PROVE BridgeIInv'
<1>1. /\ WindowTypes /\ SourceTypes /\ ThreadsInStep /\ WindowsOfStream /\ ClearedOnce
      /\ Contest /\ SlotsTended /\ ShippedOnce /\ NothingElseLost /\ OneMoreLine
      /\ DisturbedByStop /\ FramesOfObjects
  BY DEF BridgeIInv
<1>2. PICK to \in {"close", "exit", "gone"} :
        /\ pc' = [pc EXCEPT ![Main] = to]
        /\ to = "close" => pc[Main] = "disconnect" /\ online' = online
        /\ to = "exit" => pc[Main] = "close" /\ online' = FALSE
        /\ to = "gone" => pc[Main] \in {"loop", "exit"} /\ online' = online
  BY DEF Disconnect, Close, Exit, Interrupt, Gone, outlet
<1>3. /\ UNCHANGED <<kind, running, agg, slot, readings, deques, todo, hand, frame, sent, again>>
      /\ UNCHANGED <<late, reader, fetched, disturbed, nested>>
  BY DEF Disconnect, Close, Exit, Interrupt, Gone, source, outlet, hist
<1>4. /\ pc' \in PcType /\ pc'[Main] = to /\ pc'[Flusher] = pc[Flusher]
      /\ pc[Main] \in {"disconnect", "close", "loop", "exit"}
  BY <1>1, <1>2, TwoThreads DEF ThreadsInStep, PcType
<1>5. /\ ~Busy(Main) /\ ~Busy(Main)' /\ (Busy(Flusher)' <=> Busy(Flusher))
      /\ \A t \in Threads : Windowing(t)' <=> Windowing(t)
  BY <1>2, <1>4, TwoThreads DEF Busy, Windowing
<1>6. WindowTypes'
  BY <1>1, <1>3 DEF WindowTypes, Numbers
<1>7. SourceTypes'
  <2>1. {running, plugged, healthy, online, nested}' \subseteq BOOLEAN
    BY <1>1 DEF SourceTypes, Disconnect, Close, Exit, Interrupt, Gone, source, outlet, hist
  <2>2. /\ unplugs' = unplugs
        /\ handle' \in {"none", "live", "stale"} /\ (kind = "ssh" => handle' = "none")
    BY <1>1 DEF SourceTypes, Disconnect, Close, Exit, Interrupt, Gone, source
  <2> QED
    BY <1>1, <1>3, <2>1, <2>2 DEF SourceTypes, Numbers
<1>8. ThreadsInStep'
  <2>1. \A t \in Threads : /\ hand[t] # {} => pc'[t] \in {"clear", "feed", "drop"}
                           /\ frame[t] # {} => pc'[t] = "publish"
    BY <1>1, <1>4, TwoThreads DEF ThreadsInStep
  <2>2. \A t \in Threads : Busy(t)' => todo[t] # <<>>
    BY <1>1, <1>5, TwoThreads DEF ThreadsInStep
  <2>3. to # "gone" => ~running
    BY <1>1, <1>2 DEF ThreadsInStep
  <2> QED
    BY <1>1, <1>2, <1>3, <1>4, <1>5, <2>1, <2>2, <2>3 DEF ThreadsInStep
<1>9. WindowsOfStream' /\ FramesOfObjects' /\ Contest'
  BY <1>1, <1>3, <1>5 DEF WindowsOfStream, OfStream, Numbers, FramesOfObjects, Contest
<1>10. ClearedOnce' /\ SlotsTended'
  BY <1>1, <1>2, <1>3, <1>4, TwoThreads DEF ClearedOnce, SlotsTended
<1>11. ShippedOnce'
  BY <1>1, <1>3 DEF ShippedOnce, Kept, Shipped, Waiting, InFrames
<1>12. NothingElseLost'
  <2>1. online' => online
    BY <1>2
  <2> QED
    BY <1>1, <1>3, <2>1 DEF NothingElseLost, Kept, Waiting, InFrames, Content
<1>13. OneMoreLine'
  <2>1. to = "close" => kind # "esp32"
    BY <1>1, <1>2 DEF ThreadsInStep, RouterKinds
  <2> QED
    BY <1>2, <1>3, <1>4, <2>1 DEF OneMoreLine
<1>14. DisturbedByStop'
  BY <1>1, <1>3, <1>4 DEF DisturbedByStop
<1> QED
  BY <1>6, <1>7, <1>8, <1>9, <1>10, <1>11, <1>12, <1>13, <1>14 DEF BridgeIInv

LEMMA BridgeStarts == BridgeInit => BridgeIInv
<1> SUFFICES ASSUME BridgeInit PROVE BridgeIInv
  OBVIOUS
<1>1. /\ kind \in Kinds /\ running = TRUE /\ online = TRUE
      /\ sent = {} /\ again = {} /\ late = {} /\ disturbed = {} /\ nested = FALSE
      /\ healthy = FALSE /\ handle = "none" /\ plugged = TRUE /\ unplugs = 0
      /\ agg = [s \in Streams |-> {}] /\ slot = [s \in Streams |-> {}]
      /\ deques = [m \in Senders |-> <<>>]
      /\ reader = "open" /\ fetched = <<>> /\ readings = <<>> /\ pc = FirstStep
      /\ todo = [t \in Threads |-> <<>>] /\ hand = [t \in Threads |-> {}]
      /\ frame = [t \in Threads |-> {}]
  BY DEF BridgeInit, BridgeCreated, SensorInit, WindowsInit
<1>2. /\ pc \in PcType /\ pc[Main] = "loop" /\ pc[Flusher] \in {"loop", "done"}
      /\ \A t \in Threads : pc[t] \in {"loop", "done"}
  BY <1>1, TwoThreads DEF FirstStep, PcType
<1>3. MaxReadings \in Nat /\ MaxUnplugs \in Nat /\ WindowSize \in Nat
  BY BoundsAssumption
<1>4. readings \in Seq(LineRecord) /\ Len(readings) = 0 /\ Numbers = {}
  BY <1>1 DEF Numbers
<1>5. WindowTypes
  <2>1. deques \in [Senders -> Seq(BOOLEAN)] /\ \A m \in Senders : Len(deques[m]) = 0
    <3>1. <<>> \in Seq(BOOLEAN) /\ Len(<<>>) = 0
      OBVIOUS
    <3> QED
      BY <1>1, <3>1
  <2>2. /\ agg \in [Streams -> SUBSET Numbers] /\ slot \in [Streams -> SUBSET Numbers]
        /\ hand \in [Threads -> SUBSET Numbers] /\ frame \in [Threads -> SUBSET Numbers]
    BY <1>1
  <2> QED
    BY <1>1, <1>3, <1>4, <2>1, <2>2 DEF WindowTypes
<1>6. SourceTypes
  <2>1. unplugs \in 0..MaxUnplugs
    BY <1>1, <1>3
  <2>2. {running, plugged, healthy, online, nested} \subseteq BOOLEAN
    BY <1>1
  <2> QED
    BY <1>1, <2>1, <2>2 DEF SourceTypes
<1>7. ThreadsInStep
  <2>1. todo \in [Threads -> Seq(StreamsOf(kind))]
    BY <1>1
  <2> QED
    BY <1>1, <1>2, <2>1, TwoThreads DEF ThreadsInStep, Busy, Windowing
<1>8. WindowsOfStream /\ FramesOfObjects /\ ClearedOnce /\ Contest /\ SlotsTended
  BY <1>1, <1>2, <1>4
     DEF WindowsOfStream, OfStream, FramesOfObjects, ClearedOnce, Contest, SlotsTended, Windowing
<1>9. Kept = {}
  BY <1>4, <1>5, KeptIs
<1>10. ShippedOnce /\ NothingElseLost /\ OneMoreLine /\ DisturbedByStop
  BY <1>1, <1>2, <1>9 DEF ShippedOnce, NothingElseLost, OneMoreLine, DisturbedByStop
<1> QED
  BY <1>5, <1>6, <1>7, <1>8, <1>10 DEF BridgeIInv

LEMMA BridgeStepKeeps ==
    ASSUME BridgeIInv, [BridgeNext]_bridgeVars
    PROVE  BridgeIInv'
<1>1. ASSUME UNCHANGED bridgeVars PROVE BridgeIInv'
  <2>1. /\ UNCHANGED <<kind, running, plugged, unplugs, handle, healthy, reader, fetched, readings>>
        /\ UNCHANGED <<agg, slot, deques, pc, todo, hand, frame, online, sent, again, late>>
        /\ UNCHANGED <<disturbed, nested>>
    BY <1>1 DEF bridgeVars, source, worker, outlet, hist
  <2>2. WindowTypes' /\ SourceTypes' /\ ThreadsInStep'
    BY <2>1 DEF BridgeIInv, WindowTypes, Numbers, SourceTypes, ThreadsInStep, Busy, Windowing
  <2>3. WindowsOfStream' /\ FramesOfObjects' /\ ClearedOnce' /\ Contest' /\ SlotsTended'
    BY <2>1 DEF BridgeIInv, WindowsOfStream, OfStream, Numbers, FramesOfObjects, ClearedOnce, Contest,
                SlotsTended, Windowing
  <2>4. ShippedOnce' /\ NothingElseLost' /\ OneMoreLine' /\ DisturbedByStop'
    BY <2>1 DEF BridgeIInv, ShippedOnce, NothingElseLost, OneMoreLine, DisturbedByStop, Kept, Shipped,
                Waiting, InFrames, Content
  <2> QED
    BY <2>2, <2>3, <2>4 DEF BridgeIInv
<1>2. CASE Source
  BY <1>2, SourceKeeps, LinesKeep DEF Source
<1>3. CASE Control
  BY <1>3, StopKeeps, EndKeeps DEF Control
<1>4. ASSUME NEW t \in Threads, Flush(t) PROVE BridgeIInv'
  BY <1>4, CopyKeeps, ClearKeeps, FeedKeeps, TakeKeeps, DropKeeps, PublishKeeps, WakeKeeps DEF Flush
<1> QED
  BY <1>1, <1>2, <1>3, <1>4 DEF BridgeNext

LEMMA BridgeAlways == BridgeSpec => []BridgeIInv
BY BridgeStarts, BridgeStepKeeps, PTL DEF BridgeSpec

(* Type correctness of SensorBridge; every reading of which an object was
   kept is in a window, in a frame or published while the bridge is online,
   but for those whose add() a clear() overtook and those of windows that
   were disturbed; those that were not disturbed are published once; and
   only stop(), or the end of the flush thread, disturbs a window. *)
THEOREM BridgeIsSound == BridgeSpec => []BridgeInv
<1>1. ASSUME BridgeIInv PROVE BridgeInv
  <2>1. WindowTypes /\ SourceTypes /\ ThreadsInStep
    BY <1>1 DEF BridgeIInv
  <2>2. Numbers \subseteq Objects
    BY <2>1, BoundsAssumption DEF WindowTypes, Numbers, Objects
  <2>3. /\ agg \in [Streams -> SUBSET Objects] /\ slot \in [Streams -> SUBSET Objects]
        /\ hand \in [Threads -> SUBSET Objects] /\ frame \in [Threads -> SUBSET Objects]
        /\ again \subseteq sent /\ sent \cup late \cup disturbed \subseteq Objects
    BY <2>1, <2>2 DEF WindowTypes
  <2>4. \A t \in Threads : Busy(t) => todo[t] # <<>> /\ Head(todo[t]) \in StreamsOf(kind)
    BY <2>1, HeadKnown DEF ThreadsInStep
  <2>5. fetched \in {<<>>} \cup (Senders \X (0..MaxReadings))
    <3>1. {0} \cup Numbers \subseteq 0..MaxReadings
      BY <2>2, BoundsAssumption DEF Objects
    <3> QED
      BY <2>1, <3>1 DEF SourceTypes
  <2>6. BridgeTypeOK
    BY <2>1, <2>3, <2>4, <2>5 DEF BridgeTypeOK, WindowTypes, SourceTypes
  <2>7. PublishedOnce
    BY <1>1 DEF BridgeIInv, ShippedOnce, PublishedOnce
  <2> QED
    BY <1>1, <2>6, <2>7 DEF BridgeInv, BridgeIInv
<1> QED
  BY <1>1, BridgeAlways, PTL

(* stop() sends what BLE there was: when it closes the transport, every
   reading of a window that was not disturbed has been published, but those
   that came too late, the last line of the reader, and what the flush
   thread is at. *)
THEOREM StopSendsWhatWasBle == BridgeSpec => []StopSendsBle
<1>1. ASSUME BridgeIInv PROVE StopSendsBle
  <2> SUFFICES ASSUME pc[Main] = "close", kind = "esp32", online,
                      NEW n \in Kept, readings[n].stream = "ble"
               PROVE  n \in sent \cup late \cup {Len(readings)} \cup AtFlusher
    BY DEF StopSendsBle
  <2> DEFINE o == readings[n].into
  <2>1. /\ WindowTypes /\ ThreadsInStep /\ WindowsOfStream /\ OneMoreLine /\ NothingElseLost
        /\ SlotsTended
    BY <1>1 DEF BridgeIInv
  <2>2. n \in Numbers /\ o # 0 /\ o \notin disturbed /\ Len(readings) \in Nat
    BY <2>1, KeptIs DEF WindowTypes
  <2>3. o \in 1..n /\ o \in Numbers /\ readings[o].stream = "ble"
    <3>1. o \in 1..n /\ readings[o].stream = "ble"
      BY <2>1, <2>2 DEF WindowsOfStream
    <3> QED
      BY <2>2, <3>1 DEF Numbers
  <2>4. hand[Main] = {} /\ frame[Main] = {}
    BY <2>1, TwoThreads DEF ThreadsInStep
  <2>5. o \in Waiting \/ n \in InFrames \cup sent \cup late
    BY <2>1 DEF NothingElseLost, Content
  <2>6. CASE n \in InFrames
    BY <2>4, <2>6, TwoThreads, InFramesIs DEF AtFlusher
  <2>7. CASE o \in Waiting
    <3>1. (\E s \in Streams : o \in agg[s] \cup slot[s]) \/ o \in hand[Flusher]
      BY <2>4, <2>7, TwoThreads, WaitingIs
    <3>2. \A s \in Streams : o \in agg[s] \cup slot[s] => s = "ble"
      BY <2>1, <2>3 DEF WindowsOfStream, OfStream
    <3>3. CASE o \in agg["ble"]
      <4>1. o = Len(readings)
        BY <2>1, <3>3 DEF OneMoreLine
      <4> QED
        BY <2>2, <2>3, <4>1 DEF Numbers
    <3>4. CASE o \in slot["ble"]
      <4>1. PICK t \in Threads : pc[t] \in {"take", "drop"} /\ Head(todo[t]) = "ble"
        BY <2>1, <2>2, <3>4 DEF SlotsTended, Streams
      <4>2. pc[Flusher] \in {"take", "drop"}
        BY <4>1, TwoThreads
      <4> QED
        BY <2>1, <2>2, <3>4, <4>2, ContentIs DEF AtFlusher
    <3>5. CASE o \in hand[Flusher]
      BY <2>1, <2>2, <3>5, ContentIs DEF AtFlusher
    <3> QED
      BY <3>1, <3>2, <3>3, <3>4, <3>5
  <2> QED
    BY <2>5, <2>6, <2>7
<1> QED
  BY <1>1, BridgeAlways, PTL
=============================================================================
