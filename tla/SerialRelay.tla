----------------------------- MODULE SerialRelay -----------------------------
(***************************************************************************)
(* Scans on their way from the ESP32 of the Pineapple into the table of    *)
(* devices: the firmware prints a line per scan (src/esp32/main.py), the   *)
(* bridge reads the serial port and posts what it has every few seconds    *)
(* (src/pineapple/esp32_serial_bridge.py), and ingest_scan() of            *)
(* src/backend/handlers/api_handler.py updates one device after the other. *)
(*                                                                         *)
(* The bridge waits 10 seconds for an answer, and so does relay_server.py  *)
(* when the Pineapple has no way to the internet of its own; a request     *)
(* that was given up may still be under way, or wait in the relay for its  *)
(* turn, and is ingested later.  The timestamps of requests grow as their  *)
(* numbers do.  Bound: Lines is what the firmware prints.                  *)
(***************************************************************************)
EXTENDS Integers, Sequences, FiniteSets

CONSTANTS
    Macs,
    Lines,          \* line |-> the networks of a scan; {} is a status line
    TtyLines,       \* how many lines the kernel keeps for the bridge
    MaxPosts        \* bound: requests

ASSUME LinesAssumption == Lines \in Seq(SUBSET Macs)
ASSUME RelayBounds == TtyLines \in Nat \ {0} /\ MaxPosts \in Nat

VARIABLES
    printed,        \* how many lines were printed
    tty,            \* what of them is to be read: [line, whole]
    bridge,         \* "reading", "posting" or "ended"
    kept,           \* pending_networks: the lines they are from
    due,            \* BATCH_INTERVAL has passed since last_post
    posts,          \* the requests: [lines, macs to ingest, at, late]
    devices,        \* mac |-> first_seen, last_seen (requests) and scan_count
    scanEvents      \* presence: the requests with a "scan" event

relayVars == <<printed, tty, bridge, kept, due, posts, devices, scanEvents>>

Posts == DOMAIN posts
NewDevice == [first |-> 0, last |-> 0, count |-> 0]

RelayInit ==
    /\ printed = 0 /\ tty = <<>>
    /\ bridge = "reading" /\ kept = {} /\ due = FALSE
    /\ posts = <<>>
    /\ devices = [m \in Macs |-> NewDevice]
    /\ scanEvents = {}

-----------------------------------------------------------------------------
(* The ESP32 scans and prints; the kernel drops what it has no room for. *)
PrintLine ==
    /\ printed < Len(Lines)
    /\ printed' = printed + 1
    /\ tty' = IF Len(tty) < TtyLines
              THEN Append(tty, [line |-> printed + 1, whole |-> TRUE]) ELSE tty
    /\ UNCHANGED <<bridge, kept, due, posts, devices, scanEvents>>

(* read_line(): what the last chunk had behind the newline is dropped, be it
   whole lines or the head of one, whose rest is then not JSON. *)
Headless(seq) == [seq EXCEPT ![1].whole = FALSE]
Rests ==
    LET after(n) == SubSeq(tty, n + 1, Len(tty))
        cut == {after(n) : n \in 1..Len(tty)}
    IN cut \cup {Headless(seq) : seq \in cut \ {<<>>}}

(* A second without a byte in the middle of a line ends it, too. *)
Pause ==
    /\ bridge = "reading" /\ tty # <<>> /\ tty[1].whole
    /\ tty' = Headless(tty)
    /\ UNCHANGED <<printed, bridge, kept, due, posts, devices, scanEvents>>

(* The loop: a line that is not JSON is passed over. *)
ReadGarbage ==
    /\ bridge = "reading" /\ tty # <<>> /\ ~tty[1].whole
    /\ tty' \in Rests
    /\ UNCHANGED <<printed, bridge, kept, due, posts, devices, scanEvents>>

Heard == kept \cup {tty[1].line}
MacsOf(ls) == UNION {Lines[i] : i \in ls}

ReadLine ==
    /\ bridge = "reading" /\ tty # <<>> /\ tty[1].whole
    /\ ~(due /\ MacsOf(Heard) # {})
    /\ kept' = Heard
    /\ tty' \in Rests
    /\ UNCHANGED <<printed, bridge, due, posts, devices, scanEvents>>

(* A line is when the bridge looks at the clock: the batch is one network
   per bssid, the strongest. *)
PostBatch ==
    /\ bridge = "reading" /\ tty # <<>> /\ tty[1].whole
    /\ due /\ MacsOf(Heard) # {} /\ Len(posts) < MaxPosts
    /\ posts' = Append(posts, [lines |-> Heard, macs |-> MacsOf(Heard),
                             at |-> "sent", late |-> FALSE])
    /\ kept' = Heard
    /\ bridge' = "posting"
    /\ tty' \in Rests
    /\ UNCHANGED <<printed, due, devices, scanEvents>>

IntervalPasses ==
    /\ ~due /\ due' = TRUE
    /\ UNCHANGED <<printed, tty, bridge, kept, posts, devices, scanEvents>>

(* post_to_api returns, whatever it returns: the batch is forgotten. *)
KeepOnFailure(answered) ==                                      \* mutant
    /\ bridge' = "reading" /\ due' = FALSE
    /\ kept' = IF answered THEN {} ELSE kept
Posted(answered) == bridge' = "reading" /\ due' = FALSE /\ kept' = {}

LastPost == Len(posts)

Answered ==
    /\ bridge = "posting" /\ posts[LastPost].at \in {"over", "lost"}
    /\ Posted(posts[LastPost].at = "over")
    /\ UNCHANGED <<printed, tty, posts, devices, scanEvents>>

(* 10 seconds without an answer, at the bridge or at the relay, or the
   connection breaks. *)
GivesUp ==
    /\ bridge = "posting" /\ posts[LastPost].at \in {"sent", "ingest"}
    /\ posts' = [posts EXCEPT ![LastPost].late = TRUE]
    /\ Posted(FALSE)
    /\ UNCHANGED <<printed, tty, devices, scanEvents>>

(* A signal, or an OSError of a port that is gone. *)
Ends ==
    /\ bridge = "reading"
    /\ bridge' = "ended" /\ kept' = {}
    /\ UNCHANGED <<printed, tty, due, posts, devices, scanEvents>>

-----------------------------------------------------------------------------
(* The relay, if there is one, forwards the request, and a Lambda takes it. *)
Forward(r) ==
    /\ posts[r].at = "sent"
    /\ posts' = [posts EXCEPT ![r].at = "ingest"]
    /\ UNCHANGED <<printed, tty, bridge, kept, due, devices, scanEvents>>

FirstIsLast(d, r) == [first |-> r, last |-> r, count |-> d.count + 1]  \* mutant

(* update_item: first_seen if there is none, last_seen, ADD scan_count. *)
Upsert(d, r) ==
    [first |-> IF d.count = 0 THEN r ELSE d.first, last |-> r, count |-> d.count + 1]

IngestDevice(r, m) ==
    /\ posts[r].at = "ingest" /\ m \in posts[r].macs
    /\ posts' = [posts EXCEPT ![r].macs = @ \ {m}]
    /\ devices' \in {devices, [devices EXCEPT ![m] = Upsert(@, r)]}
    /\ UNCHANGED <<printed, tty, bridge, kept, due, scanEvents>>

(* Nobody gets the request, or the Lambda dies with it. *)
Lost(r) ==
    /\ posts[r].at \in {"sent", "ingest"}
    /\ posts' = [posts EXCEPT ![r].at = "lost"]
    /\ UNCHANGED <<printed, tty, bridge, kept, due, devices, scanEvents>>

(* The presence event, and the answer. *)
IngestEnds(r) ==
    /\ posts[r].at = "ingest" /\ posts[r].macs = {}
    /\ posts' = [posts EXCEPT ![r].at = "over"]
    /\ scanEvents' \in {scanEvents, scanEvents \cup {r}}
    /\ UNCHANGED <<printed, tty, bridge, kept, due, devices>>

RelayNext ==
    \/ PrintLine \/ Pause \/ ReadGarbage \/ ReadLine \/ PostBatch \/ IntervalPasses
    \/ Answered \/ GivesUp \/ Ends
    \/ \E r \in Posts :
          Forward(r) \/ Lost(r) \/ IngestEnds(r) \/ \E m \in Macs : IngestDevice(r, m)

-----------------------------------------------------------------------------
(* The values the variables take. *)
RelayTypeOK ==
    /\ printed \in 0..Len(Lines)
    /\ tty \in Seq([line : 1..Len(Lines), whole : BOOLEAN]) /\ Len(tty) <= TtyLines
    /\ bridge \in {"reading", "posting", "ended"}
    /\ kept \subseteq 1..Len(Lines) /\ due \in BOOLEAN
    /\ posts \in Seq([lines : SUBSET (1..Len(Lines)), macs : SUBSET Macs, late : BOOLEAN,
                      at : {"sent", "lost", "ingest", "over"}])
    /\ devices \in [Macs -> [first : 0..MaxPosts, last : 0..MaxPosts, count : 0..MaxPosts]]
    /\ scanEvents \subseteq 1..MaxPosts

(* scan_count: however requests fail, end late and overtake each other, a
   scan adds to the count of a device at most once. *)
CountedAtMostOnce ==
    \A m \in Macs :
        devices[m].count <= Cardinality({i \in 1..printed : m \in Lines[i]})

GivenUp == {r \in Posts : posts[r].late}

(* "Use update to preserve first_seen": what the table says of a device is
   as if its scans came in order, first_seen kept and last_seen growing,
   unless the bridge has given a request up that was still under way. *)
SeenInOrder ==
    [][\A m \in Macs : devices'[m] # devices[m] /\ GivenUp = {} =>
          /\ devices'[m].last > devices[m].last
          /\ devices[m].count > 0 => devices'[m].first = devices[m].first]_relayVars
=============================================================================
