--------------------------- MODULE DashboardFile ---------------------------
(***************************************************************************)
(* dashboard/data.json, the file through which up to six processes feed    *)
(* the local dashboard: esp32_bridge, ble_scanner, router_bridge,          *)
(* esp32s2_wifi_bridge, scripts/pineapple_live_bridge and                  *)
(* scripts/merge_data.  Each reads the file, puts its own sections into    *)
(* what it read and replaces the file, in a way of its own: some lock      *)
(* data.lock, one reads before it locks, some do not lock, most write the  *)
(* same data.tmp and rename it, one writes in place.                       *)
(*                                                                         *)
(* A process has a file open, not a name: when rename() moves the name, the*)
(* handles follow the file.  The content of a file is blank after          *)
(* open("w"), torn if json.load cannot read it, or whole; which sections of*)
(* a whole one are the newest that their owner published is kept as a set. *)
(* Reading and writing a file are one step each.  A section is what one    *)
(* source contributes: its entries of "devices", "bluetooth_devices", or   *)
(* the object router_sensor.  Bound: MaxKills processes are killed and     *)
(* started again.  What is newest is followed until two processes had one  *)
(* temporary file open.                                                    *)
(***************************************************************************)
EXTENDS Naturals, FiniteSets

CONSTANTS
    Deployments,    \* sets of processes that run together
    MaxKills,
    Nobody

Processes == {"esp32", "ble", "router", "s2", "pine", "merge"}
Sections == {"bt", "esp", "router", "s2", "pine", "merged"}

ASSUME DeploymentsAssumption == Deployments \subseteq SUBSET Processes /\ MaxKills \in Nat
ASSUME NobodyAssumption == Nobody \notin Processes

VARIABLES
    running,        \* the processes of this deployment
    data, tmp,      \* the files data.json and data.tmp
    lock,           \* who holds the flock on data.lock
    pc, mem, open,  \* process |-> step, what it will write, the file it has open
    kills,
    by,             \* history: who published the content of data.json
    clash,          \* history: two processes had one data.tmp open
    unread          \* history: <<p, q>>, p replaced what q had just published unread

files == <<data, tmp>>
vars == <<running, files, lock, pc, mem, open, kills, by, clash, unread>>

File(form, sections) == [form |-> form, newest |-> sections]
Blank == File("blank", {})
Torn == File("torn", {})
Absent == File("absent", {})
Handles == {"none", "data", "tmp", "own", "unnamed"}
Readable(c) == c.form = "whole"

-----------------------------------------------------------------------------
(* What a process writes when it has read c: its own sections anew, and of
   the others those that it keeps. *)

Own(p) ==
    CASE p = "esp32" -> {"bt", "esp"}
      [] p = "ble" -> {"bt"}
      [] p = "merge" -> {"merged"}
      [] OTHER -> {p}

Merged(p, c, kept) == Own(p) \cup (c \cap kept)

EspMerge(c) == Merged("esp32", c, Sections)
BleMerge(c) == Merged("ble", c, Sections)
RouterMerge(c) == Merged("router", c, Sections)
S2Merge(c) == Merged("s2", c, Sections)

(* The object of the router is kept.  Bluetooth devices are dropped; the
   devices of others are those that the process has had since it first saw
   them, until it prunes them after five minutes. *)
PineMerge(c) == Merged("pine", c, {"router"})

(* wifi_data.json and ble_data.json are read, never data.json. *)
MergeData(c) == Merged("merge", c, {})

Writes(p, c) ==
    CASE p = "esp32" -> EspMerge(c)   [] p = "ble" -> BleMerge(c)
      [] p = "router" -> RouterMerge(c) [] p = "s2" -> S2Merge(c)
      [] p = "pine" -> PineMerge(c)   [] p = "merge" -> MergeData(c)

(* The disciplines. *)
Locks(p) == p \in {"esp32", "ble", "pine"}
ReadsUnderLock(p) == p \in {"esp32", "ble"}
InPlace(p) == p = "s2"
SharesTmp(p) == p \in {"esp32", "ble", "router", "merge"}
StartsAfresh(p) == p \in {"pine", "merge"}      \* needs nothing that is readable

ReadFirst(p) == "read"                                          \* mutant
First(p) == IF ReadsUnderLock(p) THEN "lock" ELSE "read"
AfterRead(p) == IF Locks(p) /\ ~ReadsUnderLock(p) THEN "lock" ELSE "open"

Init ==
    /\ running \in Deployments
    /\ data = File("whole", {}) /\ tmp = Absent
    /\ lock = Nobody
    /\ pc = [p \in Processes |-> "idle"]
    /\ mem = [p \in Processes |-> {}] /\ open = [p \in Processes |-> "none"]
    /\ kills = 0
    /\ by = Nobody /\ clash = FALSE /\ unread = {}

Goto(p, to) == pc' = [pc EXCEPT ![p] = to]
Free(p) == lock' = IF lock = p THEN Nobody ELSE lock

(* The exception that ends an export is swallowed; "with" frees the lock. *)
GiveUp(p) == Goto(p, "idle") /\ Free(p)

-----------------------------------------------------------------------------
(* One export of a process, every few seconds. *)

Begin(p) ==
    /\ p \in running /\ pc[p] = "idle"
    /\ Goto(p, First(p))
    /\ UNCHANGED <<running, files, lock, mem, open, kills, by, clash, unread>>

Lock(p) ==
    /\ pc[p] = "lock" /\ lock = Nobody
    /\ lock' = p
    /\ Goto(p, IF ReadsUnderLock(p) THEN "read" ELSE "open")
    /\ UNCHANGED <<running, files, mem, open, kills, by, clash, unread>>

ReadOrGiveUp(p) ==                                              \* mutant
    /\ pc[p] = "read"
    /\ IF Readable(data)
         THEN /\ mem' = [mem EXCEPT ![p] = IF clash THEN {} ELSE Writes(p, data.newest)]
              /\ Goto(p, AfterRead(p)) /\ UNCHANGED lock
         ELSE GiveUp(p) /\ UNCHANGED mem
    /\ UNCHANGED <<running, files, open, kills, by, clash, unread>>

Read(p) ==
    /\ pc[p] = "read"
    /\ IF Readable(data) \/ StartsAfresh(p)
         THEN /\ mem' = [mem EXCEPT ![p] = IF clash THEN {} ELSE Writes(p, data.newest)]
              /\ Goto(p, AfterRead(p)) /\ UNCHANGED lock
         ELSE GiveUp(p) /\ UNCHANGED mem
    /\ UNCHANGED <<running, files, open, kills, by, clash, unread>>

(* open(..., "w") truncates the file that has the name, or makes one.  Only
   the live bridge of the Pineapple has a temporary name of its own. *)
TwoInPlace(p) == IF p \in {"s2", "router"} THEN "data" ELSE "tmp"  \* mutant
Target(p) == IF InPlace(p) THEN "data" ELSE IF SharesTmp(p) THEN "tmp" ELSE "own"

Open(p) ==
    LET f == Target(p)
    IN /\ pc[p] = "open"
       /\ data' = IF f = "data" THEN Blank ELSE data
       /\ tmp' = IF f = "tmp" THEN Blank ELSE tmp
       /\ open' = [open EXCEPT ![p] = f]
       /\ clash' = (clash \/ (f # "own" /\ \E q \in Processes \ {p} : open[q] = f))
       /\ Goto(p, "write")
       /\ UNCHANGED <<running, lock, mem, kills, by, unread>>

(* What p leaves in a file with content c: if another has it open, or has
   written there since p truncated it, the two may be mixed. *)
Results(p, c) ==
    {File("whole", mem[p])} \cup
        IF c = Blank /\ \A q \in Processes \ {p} : open[q] = open[p] => pc[q] = "rename"
        THEN {} ELSE {Torn}

(* p's newest sections make every other copy of them old. *)
Aged(sections, p, c) == sections \ (Own(p) \cap c.newest)

(* c becomes the content of data.json by the doing of p. *)
Published(p, c) ==
    LET missed == {q \in {by} \ {Nobody, p} : Readable(c) /\ Readable(data) /\
                     ((Own(q) \ Own(p)) \cap data.newest) \ c.newest # {}}
    IN /\ data' = c
       /\ mem' = [q \in Processes |-> IF q = p THEN {} ELSE Aged(mem[q], p, c)]
       /\ by' = IF clash THEN Nobody ELSE p
       /\ unread' = IF clash THEN {} ELSE unread \cup {<<p, q>> : q \in missed}

(* A write goes to the file that was opened, whatever its name is by now. *)
Write(p) ==
    /\ pc[p] = "write"
    /\ CASE open[p] = "data" ->
              \E c \in Results(p, data) :
                 Published(p, c) /\ tmp' = [tmp EXCEPT !.newest = Aged(@, p, c)]
         [] open[p] = "tmp" ->
              (\E c \in Results(p, tmp) : tmp' = c) /\ UNCHANGED <<data, mem, by, unread>>
         [] OTHER -> UNCHANGED <<files, mem, by, unread>>
    /\ IF InPlace(p)
         THEN GiveUp(p) /\ open' = [open EXCEPT ![p] = "none"]
         ELSE Goto(p, "rename") /\ UNCHANGED <<lock, open>>
    /\ UNCHANGED <<running, kills, clash>>

(* After rename() the file that was data.json has no name. *)
Moved(p, from) ==
    open' = [q \in Processes |->
               IF q = p THEN "none" ELSE IF open[q] = "data" THEN "unnamed"
               ELSE IF open[q] = from THEN "data" ELSE open[q]]

(* rename() moves whatever file has the name, and fails if none has. *)
Rename(p) ==
    /\ pc[p] = "rename"
    /\ CASE SharesTmp(p) /\ tmp = Absent ->
              open' = [open EXCEPT ![p] = "none"] /\ UNCHANGED <<files, mem, by, unread>>
         [] SharesTmp(p) /\ tmp # Absent ->
              Published(p, tmp) /\ tmp' = Absent /\ Moved(p, "tmp")
         [] OTHER ->
              /\ Published(p, File("whole", mem[p])) /\ Moved(p, "own")
              /\ tmp' = [tmp EXCEPT !.newest = @ \ Own(p)]
    /\ GiveUp(p)
    /\ UNCHANGED <<running, kills, clash>>

(* The process dies at any point of an export: stop() of the bridges ends
   their daemon threads so.  The kernel frees its lock, not its files. *)
Kill(p) ==
    /\ pc[p] \notin {"idle", "dead"} /\ kills < MaxKills
    /\ kills' = kills + 1
    /\ Goto(p, "dead") /\ Free(p)
    /\ open' = [open EXCEPT ![p] = "none"] /\ mem' = [mem EXCEPT ![p] = {}]
    /\ UNCHANGED <<running, files, by, clash, unread>>

Restart(p) ==
    /\ pc[p] = "dead"
    /\ Goto(p, "idle")
    /\ UNCHANGED <<running, files, lock, mem, open, kills, by, clash, unread>>

Export(p) == Begin(p) \/ Lock(p) \/ Read(p) \/ Open(p) \/ Write(p) \/ Rename(p)

Next == \E p \in Processes : Export(p) \/ Kill(p) \/ Restart(p)

Spec == Init /\ [][Next]_vars

(* The loops go on, the kernel grants the lock to who waits for it again and
   again, and nothing is assumed of a process that was killed.  Only what
   Heals needs is stated: of the others, that they finish with the lock. *)
FairSpec ==
    /\ Spec
    /\ WF_vars(\E p \in Processes : ReadsUnderLock(p) /\ lock = p /\ Export(p))
    /\ \A p \in {"pine", "merge"} : WF_vars(Export(p))
    /\ SF_vars(Lock("pine"))

-----------------------------------------------------------------------------
(* The values the variables take; no process writes without the lock that
   it takes. *)
TypeOK ==
    /\ running \in Deployments /\ {data.form, tmp.form} \subseteq {"whole", "blank", "torn", "absent"}
    /\ data # Absent /\ data.newest \cup tmp.newest \subseteq Sections
    /\ mem \in [Processes -> SUBSET Sections]
    /\ open \in [Processes -> Handles]
    /\ lock \in Processes \cup {Nobody} /\ kills \in 0..MaxKills
    /\ unread \subseteq running \X running
    /\ \A p \in Processes : pc[p] \in {"open", "write", "rename"} /\ Locks(p) => lock = p

(* A temporary file and rename() never show a file that cannot be read, not
   even when a writer is killed, as long as no two processes have the one
   temporary file open.  Only the writer in place does, while it writes or
   where it was killed. *)
ReadableUnlessShared ==
    \/ Readable(data) \/ clash
    \/ \E p \in running : InPlace(p) /\ (kills > 0 \/ (pc[p] = "write" /\ open[p] = "data"))

(* What the file holds and who holds its lock. *)
FileInv == TypeOK /\ ReadableUnlessShared

(* Between the processes that read and write under the lock nothing is lost:
   none replaces what another has just published without having read it,
   whatever those that do not lock do in between. *)
LockersReadEachOther ==
    clash \/ \A pair \in unread : \E p \in {pair[1], pair[2]} : ~ReadsUnderLock(p)

(* A file that cannot be read does not stay so where a process runs that
   does not need to read it; every other export gives up on it for ever. *)
Heals ==
    (\E p \in running : StartsAfresh(p) /\ pc[p] # "dead") /\ ~Readable(data) ~>
        Readable(data) \/ \A p \in running : StartsAfresh(p) => pc[p] = "dead"
=============================================================================
