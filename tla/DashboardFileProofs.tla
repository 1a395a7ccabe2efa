------------------------- MODULE DashboardFileProofs -------------------------
(***************************************************************************)
(* Theorems about DashboardFile, for every set of deployments (sets of     *)
(* processes that run together) and every number of kills: FileInv and     *)
(* LockersReadEachOther.                                                   *)
(*                                                                         *)
(* Both lean on who has which file open while no two have had the one      *)
(* temporary file (HandlesOK); the second also on what the scanner of      *)
(* Bluetooth holds of the last export of the ESP32 bridge (BleHasRead).    *)
(***************************************************************************)
EXTENDS DashboardFile, TLAPS

Forms == {"whole", "blank", "torn", "absent"}
FileSet == [form : Forms, newest : SUBSET Sections]

(* Only what runs takes steps, and the lock is held from where a process took
   it to the end of its export. *)
StepsOK ==
    /\ pc \in [Processes -> {"idle", "lock", "read", "open", "write", "rename", "dead"}]
    /\ running \subseteq Processes
    /\ \A p \in Processes : pc[p] # "idle" => p \in running
    /\ by \in running \cup {Nobody}
    /\ \A p \in Processes : pc[p] = "lock" => Locks(p)
    /\ \A p \in Processes : pc[p] = "read" /\ ReadsUnderLock(p) => lock = p
    /\ \A p \in Processes : pc[p] = "rename" => ~InPlace(p)
    /\ \A p \in Processes : pc[p] \notin {"write", "rename"} => open[p] = "none"

(* While no two processes have had one file open, the one that has it is
   alone to write it. *)
HandlesOK ==
    clash \/
        /\ \A p \in Processes : open[p] = "tmp" <=> SharesTmp(p) /\ pc[p] \in {"write", "rename"}
        /\ \A p, q \in Processes : open[p] = "tmp" /\ open[q] = "tmp" => p = q
        /\ \A p \in Processes : open[p] = "tmp" =>
               IF pc[p] = "write" THEN tmp = Blank ELSE Readable(tmp)
        /\ \A p \in Processes : open[p] = "own" => ~SharesTmp(p) /\ ~InPlace(p)
        /\ \A p \in Processes : open[p] = "data" => InPlace(p) /\ data = Blank
        /\ Readable(data) \/ \E p \in running : InPlace(p) /\ (kills > 0 \/ open[p] = "data")

(* As long as the last to publish was the ESP32 bridge, an export of the
   Bluetooth scanner that is under way has read what it published. *)
BleHasRead ==
    clash \/ (by = "esp32" /\ Readable(data) /\ "esp" \in data.newest =>
        /\ pc["ble"] \in {"open", "write"} => "esp" \in mem["ble"]
        /\ pc["ble"] = "rename" => "esp" \in tmp.newest)

IInv ==
    /\ TypeOK
    /\ {data, tmp} \subseteq FileSet
    /\ StepsOK
    /\ HandlesOK
    /\ BleHasRead
    /\ LockersReadEachOther

-----------------------------------------------------------------------------
(* What the helpers of the actions do. *)

Steps == {"idle", "lock", "read", "open", "write", "rename", "dead"}

LEMMA Files ==
    /\ Blank \in FileSet /\ Torn \in FileSet /\ Absent \in FileSet
    /\ Blank # Absent /\ Torn # Absent
    /\ \A s \in SUBSET Sections : /\ File("whole", s) \in FileSet /\ File("whole", s) # Absent
                                  /\ Readable(File("whole", s)) /\ File("whole", s).newest = s
  BY DEF Blank, Torn, Absent, File, FileSet, Forms, Readable

LEMMA MergedSections ==
    ASSUME NEW p \in Processes, NEW c \in SUBSET Sections
    PROVE  Writes(p, c) \in SUBSET Sections /\ Own(p) \in SUBSET Sections
  <1>1. Own(p) \in SUBSET Sections
    BY DEF Own, Processes, Sections
  <1>2. \E kept \in SUBSET Sections : Writes(p, c) = Own(p) \cup (c \cap kept)
    <2>1. CASE p = "esp32"
      BY <2>1 DEF Writes, EspMerge, Merged, Sections
    <2>2. CASE p = "ble"
      BY <2>2 DEF Writes, BleMerge, Merged, Sections
    <2>3. CASE p = "router"
      BY <2>3 DEF Writes, RouterMerge, Merged, Sections
    <2>4. CASE p = "s2"
      BY <2>4 DEF Writes, S2Merge, Merged, Sections
    <2>5. CASE p = "pine"
      <3>1. Writes(p, c) = Own(p) \cup (c \cap {"router"}) /\ {"router"} \in SUBSET Sections
        BY <2>5 DEF Writes, PineMerge, Merged, Sections
      <3> QED
        BY <3>1
    <2>6. CASE p = "merge"
      <3>1. Writes(p, c) = Own(p) \cup (c \cap {}) /\ {} \in SUBSET Sections
        BY <2>6 DEF Writes, MergeData, Merged, Sections
      <3> QED
        BY <3>1
    <2> QED
      BY <2>1, <2>2, <2>3, <2>4, <2>5, <2>6 DEF Processes
  <1> QED
    BY <1>1, <1>2

LEMMA PublishedFacts ==
    ASSUME TypeOK, StepsOK, NEW p \in Processes, p \in running, NEW c \in FileSet, Published(p, c)
    PROVE  /\ data' = c
           /\ mem' \in [Processes -> SUBSET Sections]
           /\ by' \in running \cup {Nobody} /\ (~clash => by' = p)
           /\ unread' \subseteq running \X running
           /\ ~clash => \A pair \in unread' :
                  \/ pair \in unread
                  \/ /\ by # Nobody /\ pair = <<p, by>>
                     /\ Readable(c) /\ Readable(data)
                     /\ ((Own(by) \ Own(p)) \cap data.newest) \ c.newest # {}
  <1> DEFINE missed == {q \in {by} \ {Nobody, p} : Readable(c) /\ Readable(data) /\
                          ((Own(q) \ Own(p)) \cap data.newest) \ c.newest # {}}
  <1>1. /\ data' = c
        /\ mem' = [q \in Processes |-> IF q = p THEN {} ELSE Aged(mem[q], p, c)]
        /\ by' = IF clash THEN Nobody ELSE p
        /\ unread' = IF clash THEN {} ELSE unread \cup {<<p, q>> : q \in missed}
    BY DEF Published
  <1>2. mem' \in [Processes -> SUBSET Sections]
    BY <1>1 DEF TypeOK, Aged
  <1>3. missed \subseteq {by} /\ missed \subseteq running
    BY DEF StepsOK
  <1>4. \A q \in missed : /\ by # Nobody /\ q = by
                          /\ Readable(c) /\ Readable(data)
                          /\ ((Own(by) \ Own(p)) \cap data.newest) \ c.newest # {}
    OBVIOUS
  <1> HIDE DEF missed
  <1>5. unread' \subseteq running \X running
    BY <1>1, <1>3 DEF TypeOK
  <1> QED
    BY <1>1, <1>2, <1>4, <1>5 DEF StepsOK

(* Whoever writes a file alone leaves in it what it meant to. *)
LEMMA ResultFacts ==
    ASSUME TypeOK, NEW p \in Processes, NEW f \in FileSet, NEW c \in Results(p, f)
    PROVE  /\ c \in FileSet /\ c # Absent
           /\ f = Blank /\ (\A q \in Processes \ {p} : open[q] = open[p] => pc[q] = "rename")
                  => c = File("whole", mem[p])
  <1>1. mem[p] \in SUBSET Sections
    BY DEF TypeOK
  <1>2. c = File("whole", mem[p]) \/ c = Torn
    BY DEF Results
  <1> QED
    BY <1>1, <1>2, Files DEF Results

LEMMA WriteFacts ==
    ASSUME TypeOK, {data, tmp} \subseteq FileSet, StepsOK, HandlesOK, NEW p \in Processes, Write(p)
    PROVE  /\ pc[p] = "write" /\ UNCHANGED <<running, kills, clash>>
           /\ \/ /\ InPlace(p) /\ pc' = [pc EXCEPT ![p] = "idle"]
                 /\ lock' = IF lock = p THEN Nobody ELSE lock
                 /\ open' = [open EXCEPT ![p] = "none"]
              \/ ~InPlace(p) /\ pc' = [pc EXCEPT ![p] = "rename"] /\ UNCHANGED <<lock, open>>
           /\ \/ /\ open[p] = "data" /\ tmp' \in FileSet
                 /\ \E c \in FileSet : /\ Published(p, c) /\ c # Absent
                                       /\ ~clash => c = File("whole", mem[p])
                                       /\ tmp' = [tmp EXCEPT !.newest = Aged(@, p, c)]
              \/ /\ open[p] = "tmp" /\ UNCHANGED <<data, mem, by, unread>>
                 /\ tmp' \in FileSet /\ (~clash => tmp' = File("whole", mem[p]))
              \/ /\ open[p] \notin {"data", "tmp"} /\ UNCHANGED <<data, tmp, mem, by, unread>>
  <1>1. /\ pc[p] = "write" /\ UNCHANGED <<running, kills, clash>>
        /\ \/ /\ InPlace(p) /\ pc' = [pc EXCEPT ![p] = "idle"]
              /\ lock' = IF lock = p THEN Nobody ELSE lock
              /\ open' = [open EXCEPT ![p] = "none"]
           \/ ~InPlace(p) /\ pc' = [pc EXCEPT ![p] = "rename"] /\ UNCHANGED <<lock, open>>
    BY DEF Write, GiveUp, Goto, Free
  <1>2. CASE open[p] = "data"
    <2>1. PICK c \in Results(p, data) : Published(p, c) /\ tmp' = [tmp EXCEPT !.newest = Aged(@, p, c)]
      BY <1>2 DEF Write
    <2>2. c \in FileSet /\ c # Absent
      BY ResultFacts
    <2>3. ~clash => c = File("whole", mem[p])
      <3>1. ~clash => data = Blank /\ \A q \in Processes \ {p} : open[q] # open[p]
        BY <1>2 DEF HandlesOK, InPlace
      <3> QED
        BY <3>1, ResultFacts
    <2>4. tmp' \in FileSet
      BY <2>1 DEF FileSet, Aged
    <2> QED
      BY <1>1, <1>2, <2>1, <2>2, <2>3, <2>4
  <1>3. CASE open[p] = "tmp"
    <2>1. UNCHANGED <<data, mem, by, unread>> /\ tmp' \in Results(p, tmp)
      BY <1>3 DEF Write
    <2>2. tmp' \in FileSet
      BY <2>1, ResultFacts
    <2>3. ~clash => tmp = Blank /\ \A q \in Processes \ {p} : open[q] # open[p]
      BY <1>1, <1>3 DEF HandlesOK
    <2>4. ~clash => tmp' = File("whole", mem[p])
      BY <2>1, <2>3, ResultFacts
    <2> QED
      BY <1>1, <1>3, <2>1, <2>2, <2>4
  <1>4. CASE open[p] \notin {"data", "tmp"}
    BY <1>1, <1>4 DEF Write, files
  <1> QED
    BY <1>2, <1>3, <1>4

LEMMA RenameFacts ==
    ASSUME TypeOK, {data, tmp} \subseteq FileSet, StepsOK, HandlesOK, NEW p \in Processes, Rename(p)
    PROVE  /\ pc[p] = "rename" /\ UNCHANGED <<running, kills, clash>>
           /\ pc' = [pc EXCEPT ![p] = "idle"] /\ lock' = IF lock = p THEN Nobody ELSE lock
           /\ open' \in [Processes -> Handles] /\ open'[p] = "none" /\ tmp' \in FileSet
           /\ \A q \in Processes : q # p => (open[q] = "none" => open'[q] = "none")
           /\ \/ clash /\ UNCHANGED <<data, tmp, mem, by, unread>>
              \/ SharesTmp(p) /\ tmp # Absent /\ Published(p, tmp) /\ tmp' = Absent /\ Moved(p, "tmp")
              \/ /\ ~SharesTmp(p) /\ Published(p, File("whole", mem[p])) /\ Moved(p, "own")
                 /\ tmp' = [tmp EXCEPT !.newest = @ \ Own(p)]
  <1>1. /\ pc[p] = "rename" /\ UNCHANGED <<running, kills, clash>>
        /\ pc' = [pc EXCEPT ![p] = "idle"] /\ lock' = IF lock = p THEN Nobody ELSE lock
    BY DEF Rename, GiveUp, Goto, Free
  <1>2. ASSUME NEW from \in {"tmp", "own"}, Moved(p, from)
        PROVE  /\ open' \in [Processes -> Handles] /\ open'[p] = "none"
               /\ \A q \in Processes : q # p => (open[q] = "none" => open'[q] = "none")
    BY <1>2 DEF Moved, TypeOK, Handles
  <1>3. CASE SharesTmp(p) /\ tmp = Absent
    <2>1. open' = [open EXCEPT ![p] = "none"] /\ UNCHANGED <<data, tmp, mem, by, unread>>
      BY <1>3 DEF Rename, files
    <2>2. clash
      BY <1>1, <1>3 DEF HandlesOK, Readable, Absent, File
    <2> QED
      BY <1>1, <2>1, <2>2 DEF TypeOK, Handles
  <1>4. CASE SharesTmp(p) /\ tmp # Absent
    <2>1. Published(p, tmp) /\ tmp' = Absent /\ Moved(p, "tmp")
      BY <1>4 DEF Rename
    <2> QED
      BY <1>1, <1>2, <1>4, <2>1, Files
  <1>5. CASE ~SharesTmp(p)
    <2>1. /\ Published(p, File("whole", mem[p])) /\ Moved(p, "own")
          /\ tmp' = [tmp EXCEPT !.newest = @ \ Own(p)]
      BY <1>5 DEF Rename
    <2>2. tmp' \in FileSet
      BY <2>1 DEF FileSet
    <2> QED
      BY <1>1, <1>2, <1>5, <2>1, <2>2
  <1> QED
    BY <1>3, <1>4, <1>5

-----------------------------------------------------------------------------
(* Types, and who runs, locks and has a file open. *)

TypeSound == TypeOK /\ {data, tmp} \subseteq FileSet /\ StepsOK

Locking == \A p \in Processes : pc[p] \in {"open", "write", "rename"} /\ Locks(p) => lock = p

(* p ends its export, or is killed. *)
LEMMA LockIsFreed ==
    ASSUME TypeSound, NEW p \in Processes, NEW to \in {"idle", "dead"},
           pc' = [pc EXCEPT ![p] = to], lock' = IF lock = p THEN Nobody ELSE lock
    PROVE  /\ Locking' /\ lock' \in Processes \cup {Nobody}
           /\ \A q \in Processes : pc'[q] = "read" /\ ReadsUnderLock(q) => lock' = q
  <1>1. \A q \in Processes : pc'[q] = IF q = p THEN to ELSE pc[q]
    BY DEF TypeSound, StepsOK
  <1>2. ASSUME NEW q \in Processes, pc'[q] \in {"open", "write", "rename"}, Locks(q)
        PROVE  lock' = q
    BY <1>1, <1>2 DEF TypeSound, TypeOK
  <1>3. ASSUME NEW q \in Processes, pc'[q] = "read", ReadsUnderLock(q)
        PROVE  lock' = q
    BY <1>1, <1>3 DEF TypeSound, StepsOK
  <1>4. lock' \in Processes \cup {Nobody}
    BY DEF TypeSound, TypeOK
  <1> QED
    BY <1>2, <1>3, <1>4 DEF Locking

LEMMA DataOKNext ==
    ASSUME data' \in FileSet, tmp' \in FileSet, data' # Absent
    PROVE  (/\ {data.form, tmp.form} \subseteq {"whole", "blank", "torn", "absent"}
            /\ data # Absent /\ data.newest \cup tmp.newest \subseteq Sections)'
  BY DEF FileSet, Forms, Absent, File

LEMMA TypeStep == TypeSound /\ HandlesOK /\ [Next]_vars => TypeSound'
  <1> SUFFICES ASSUME TypeSound, HandlesOK, [Next]_vars PROVE TypeSound'
    OBVIOUS
  <1>0. /\ pc \in [Processes -> Steps] /\ running \subseteq Processes
        /\ data \in FileSet /\ tmp \in FileSet /\ data # Absent
        /\ lock \in Processes \cup {Nobody} /\ kills \in 0..MaxKills /\ running \in Deployments
        /\ mem \in [Processes -> SUBSET Sections] /\ open \in [Processes -> Handles]
        /\ by \in running \cup {Nobody} /\ unread \subseteq running \X running
    BY DEF TypeSound, TypeOK, StepsOK, Steps
  <1>1. ASSUME UNCHANGED running, kills' \in 0..MaxKills,
               pc' \in [Processes -> Steps], mem' \in [Processes -> SUBSET Sections],
               open' \in [Processes -> Handles], lock' \in Processes \cup {Nobody},
               data' \in FileSet, tmp' \in FileSet, data' # Absent,
               by' \in running \cup {Nobody}, unread' \subseteq running \X running,
               \A p \in Processes : pc'[p] # "idle" => pc[p] # "idle" \/ p \in running,
               \A p \in Processes : pc'[p] = "lock" => Locks(p),
               \A p \in Processes : pc'[p] = "read" /\ ReadsUnderLock(p) => lock' = p,
               \A p \in Processes : pc'[p] = "rename" => ~InPlace(p),
               \A p \in Processes : pc'[p] \notin {"write", "rename"} => open'[p] = "none",
               Locking'
        PROVE  TypeSound'
    <2>1. (/\ {data.form, tmp.form} \subseteq {"whole", "blank", "torn", "absent"}
           /\ data # Absent /\ data.newest \cup tmp.newest \subseteq Sections)'
      BY <1>1, DataOKNext
    <2>2. TypeOK'
      BY <1>0, <1>1, <2>1 DEF TypeOK, Locking
    <2>3. StepsOK'
      BY <1>0, <1>1 DEF TypeSound, StepsOK, Steps
    <2> QED
      BY <1>1, <2>2, <2>3 DEF TypeSound
  <1>2. /\ Locking
        /\ \A p \in Processes : pc[p] = "lock" => Locks(p)
        /\ \A p \in Processes : pc[p] = "read" /\ ReadsUnderLock(p) => lock = p
        /\ \A p \in Processes : pc[p] = "rename" => ~InPlace(p)
        /\ \A p \in Processes : pc[p] \notin {"write", "rename"} => open[p] = "none"
        /\ \A p \in Processes : pc[p] # "idle" => p \in running
    BY DEF TypeSound, TypeOK, StepsOK, Locking
  <1>3. \A p \in Processes : ReadsUnderLock(p) => Locks(p)
    BY DEF ReadsUnderLock, Locks
  <1>4. ASSUME NEW p \in Processes, Begin(p)
        PROVE  TypeSound'
    <2>1. /\ p \in running /\ pc[p] = "idle" /\ pc' = [pc EXCEPT ![p] = First(p)]
          /\ UNCHANGED <<running, data, tmp, lock, mem, open, kills, by, clash, unread>>
      BY <1>4 DEF Begin, Goto, files
    <2>2. First(p) = IF ReadsUnderLock(p) THEN "lock" ELSE "read"
      BY DEF First
    <2>3. /\ pc' \in [Processes -> Steps]
          /\ \A q \in Processes : pc'[q] = IF q = p THEN First(p) ELSE pc[q]
      BY <1>0, <2>1, <2>2 DEF Steps
    <2>4. Locking'
      BY <1>2, <2>1, <2>2, <2>3 DEF Locking
    <2> QED
      BY <1>0, <1>1, <1>2, <1>3, <2>1, <2>2, <2>3, <2>4
  <1>5. ASSUME NEW p \in Processes, Lock(p)
        PROVE  TypeSound'
    <2>1. /\ pc[p] = "lock" /\ lock = Nobody /\ lock' = p
          /\ pc' = [pc EXCEPT ![p] = IF ReadsUnderLock(p) THEN "read" ELSE "open"]
          /\ UNCHANGED <<running, data, tmp, mem, open, kills, by, clash, unread>>
      BY <1>5 DEF Lock, Goto, files
    <2>2. /\ pc' \in [Processes -> Steps] /\ pc'[p] \in {"read", "open"}
          /\ \A q \in Processes : q # p => pc'[q] = pc[q]
      BY <1>0, <2>1 DEF Steps
    <2>3. Locking'
      BY <1>2, <2>1, <2>2, NobodyAssumption DEF Locking
    <2>4. \A q \in Processes : pc'[q] = "read" /\ ReadsUnderLock(q) => lock' = q
      BY <1>2, <2>1, <2>2, NobodyAssumption
    <2> QED
      BY <1>0, <1>1, <1>2, <2>1, <2>2, <2>3, <2>4
  <1>6. ASSUME NEW p \in Processes, Read(p)
        PROVE  TypeSound'
    <2>1. /\ pc[p] = "read" /\ UNCHANGED <<running, data, tmp, open, kills, by, clash, unread>>
      BY <1>6 DEF Read, files
    <2>2. CASE Readable(data) \/ StartsAfresh(p)
      <3>1. /\ mem' = [mem EXCEPT ![p] = IF clash THEN {} ELSE Writes(p, data.newest)]
            /\ pc' = [pc EXCEPT ![p] = AfterRead(p)] /\ lock' = lock
        BY <1>6, <2>2 DEF Read, Goto
      <3>2. AfterRead(p) = IF Locks(p) /\ ~ReadsUnderLock(p) THEN "lock" ELSE "open"
        BY DEF AfterRead
      <3>3. /\ pc' \in [Processes -> Steps]
            /\ \A q \in Processes : pc'[q] = IF q = p THEN AfterRead(p) ELSE pc[q]
        BY <1>0, <3>1, <3>2 DEF Steps
      <3>4. Writes(p, data.newest) \in SUBSET Sections
        BY <1>0, MergedSections DEF FileSet
      <3>5. mem' \in [Processes -> SUBSET Sections]
        BY <1>0, <3>1, <3>4
      <3>6. Locking'
        BY <1>2, <2>1, <3>1, <3>2, <3>3 DEF Locking
      <3> QED
        BY <1>0, <1>1, <1>2, <2>1, <3>1, <3>2, <3>3, <3>5, <3>6
    <2>3. CASE ~(Readable(data) \/ StartsAfresh(p))
      <3>1. /\ pc' = [pc EXCEPT ![p] = "idle"] /\ lock' = (IF lock = p THEN Nobody ELSE lock)
            /\ UNCHANGED mem
        BY <1>6, <2>3 DEF Read, GiveUp, Goto, Free
      <3>2. /\ Locking' /\ lock' \in Processes \cup {Nobody}
            /\ \A q \in Processes : pc'[q] = "read" /\ ReadsUnderLock(q) => lock' = q
        BY <3>1, LockIsFreed
      <3>3. /\ pc' \in [Processes -> Steps]
            /\ \A q \in Processes : pc'[q] = IF q = p THEN "idle" ELSE pc[q]
        BY <1>0, <3>1 DEF Steps
      <3> QED
        BY <1>0, <1>1, <1>2, <2>1, <3>1, <3>2, <3>3
    <2> QED
      BY <2>2, <2>3
  <1>7. ASSUME NEW p \in Processes, Open(p)
        PROVE  TypeSound'
    <2>1. /\ pc[p] = "open" /\ pc' = [pc EXCEPT ![p] = "write"]
          /\ UNCHANGED <<running, lock, mem, kills, by, unread>>
          /\ data' \in {data, Blank} /\ tmp' \in {tmp, Blank}
          /\ open' = [open EXCEPT ![p] = Target(p)]
      BY <1>7 DEF Open, Goto
    <2>2. /\ pc' \in [Processes -> Steps]
          /\ \A q \in Processes : pc'[q] = IF q = p THEN "write" ELSE pc[q]
      BY <1>0, <2>1 DEF Steps
    <2>3. Target(p) \in Handles
      BY DEF Target, Handles
    <2>4. /\ open' \in [Processes -> Handles]
          /\ \A q \in Processes : q # p => open'[q] = open[q]
      BY <1>0, <2>1, <2>3
    <2>5. Locking'
      BY <1>2, <2>1, <2>2 DEF Locking
    <2> QED
      BY <1>0, <1>1, <1>2, <2>1, <2>2, <2>4, <2>5, Files
  <1>8. ASSUME NEW p \in Processes, Write(p)
        PROVE  TypeSound'
    <2>1. pc[p] = "write" /\ UNCHANGED <<running, kills, clash>> /\ p \in running
      BY <1>2, <1>8, WriteFacts DEF TypeSound
    <2>2. /\ data' \in FileSet /\ data' # Absent /\ tmp' \in FileSet
          /\ mem' \in [Processes -> SUBSET Sections] /\ by' \in running \cup {Nobody}
          /\ unread' \subseteq running \X running
      <3>1. CASE \E c \in FileSet : Published(p, c) /\ c # Absent /\ tmp' \in FileSet
        BY <2>1, <3>1, PublishedFacts DEF TypeSound
      <3>2. CASE UNCHANGED <<data, mem, by, unread>> /\ tmp' \in FileSet
        BY <1>0, <3>2
      <3> QED
        BY <1>0, <1>8, <3>1, <3>2, WriteFacts DEF TypeSound
    <2>3. CASE InPlace(p) /\ pc' = [pc EXCEPT ![p] = "idle"]
                 /\ lock' = (IF lock = p THEN Nobody ELSE lock) /\ open' = [open EXCEPT ![p] = "none"]
      <3>1. /\ Locking' /\ lock' \in Processes \cup {Nobody}
            /\ \A q \in Processes : pc'[q] = "read" /\ ReadsUnderLock(q) => lock' = q
        BY <2>3, LockIsFreed
      <3>2. /\ pc' \in [Processes -> Steps]
            /\ \A q \in Processes : pc'[q] = IF q = p THEN "idle" ELSE pc[q]
        BY <1>0, <2>3 DEF Steps
      <3>3. /\ open' \in [Processes -> Handles]
            /\ \A q \in Processes : open'[q] = IF q = p THEN "none" ELSE open[q]
        BY <1>0, <2>3 DEF Handles
      <3> QED
        BY <1>0, <1>1, <1>2, <2>1, <2>2, <3>1, <3>2, <3>3
    <2>4. CASE ~InPlace(p) /\ pc' = [pc EXCEPT ![p] = "rename"] /\ UNCHANGED <<lock, open>>
      <3>1. /\ pc' \in [Processes -> Steps]
            /\ \A q \in Processes : pc'[q] = IF q = p THEN "rename" ELSE pc[q]
        BY <1>0, <2>4 DEF Steps
      <3>2. Locking'
        BY <1>2, <2>1, <2>4, <3>1 DEF Locking
      <3> QED
        BY <1>0, <1>1, <1>2, <2>1, <2>2, <2>4, <3>1, <3>2
    <2> QED
      BY <1>8, <2>3, <2>4, WriteFacts DEF TypeSound
  <1>9. ASSUME NEW p \in Processes, Rename(p)
        PROVE  TypeSound'
    <2>1. /\ pc[p] = "rename" /\ UNCHANGED <<running, kills, clash>> /\ p \in running
          /\ pc' = [pc EXCEPT ![p] = "idle"] /\ lock' = (IF lock = p THEN Nobody ELSE lock)
          /\ open' \in [Processes -> Handles] /\ open'[p] = "none" /\ tmp' \in FileSet
          /\ \A q \in Processes : q # p => (open[q] = "none" => open'[q] = "none")
      BY <1>2, <1>9, RenameFacts DEF TypeSound
    <2>2. /\ data' \in FileSet /\ data' # Absent
          /\ mem' \in [Processes -> SUBSET Sections] /\ by' \in running \cup {Nobody}
          /\ unread' \subseteq running \X running
      <3>1. CASE \E c \in FileSet : Published(p, c) /\ c # Absent
        BY <2>1, <3>1, PublishedFacts DEF TypeSound
      <3>2. CASE UNCHANGED <<data, mem, by, unread>>
        BY <1>0, <3>2
      <3>3. File("whole", mem[p]) \in FileSet /\ File("whole", mem[p]) # Absent
        BY <1>0, Files
      <3> QED
        BY <1>0, <1>9, <3>1, <3>2, <3>3, RenameFacts DEF TypeSound
    <2>3. /\ Locking' /\ lock' \in Processes \cup {Nobody}
          /\ \A q \in Processes : pc'[q] = "read" /\ ReadsUnderLock(q) => lock' = q
      BY <2>1, LockIsFreed
    <2>4. /\ pc' \in [Processes -> Steps]
          /\ \A q \in Processes : pc'[q] = IF q = p THEN "idle" ELSE pc[q]
      BY <1>0, <2>1 DEF Steps
    <2> QED
      BY <1>0, <1>1, <1>2, <2>1, <2>2, <2>3, <2>4
  <1>10. ASSUME NEW p \in Processes, Kill(p)
         PROVE  TypeSound'
    <2>1. /\ pc[p] # "idle" /\ kills < MaxKills /\ kills' = kills + 1
          /\ pc' = [pc EXCEPT ![p] = "dead"] /\ lock' = (IF lock = p THEN Nobody ELSE lock)
          /\ open' = [open EXCEPT ![p] = "none"] /\ mem' = [mem EXCEPT ![p] = {}]
          /\ UNCHANGED <<running, data, tmp, by, clash, unread>>
      BY <1>10 DEF Kill, Goto, Free, files
    <2>2. /\ Locking' /\ lock' \in Processes \cup {Nobody}
          /\ \A q \in Processes : pc'[q] = "read" /\ ReadsUnderLock(q) => lock' = q
      BY <2>1, LockIsFreed
    <2>3. /\ pc' \in [Processes -> Steps]
          /\ \A q \in Processes : pc'[q] = IF q = p THEN "dead" ELSE pc[q]
      BY <1>0, <2>1 DEF Steps
    <2>4. /\ open' \in [Processes -> Handles] /\ mem' \in [Processes -> SUBSET Sections]
          /\ \A q \in Processes : open'[q] = IF q = p THEN "none" ELSE open[q]
      BY <1>0, <2>1 DEF Handles
    <2>5. kills' \in 0..MaxKills
      BY <1>0, <2>1, DeploymentsAssumption
    <2> QED
      BY <1>0, <1>1, <1>2, <2>1, <2>2, <2>3, <2>4, <2>5
  <1>11. ASSUME NEW p \in Processes, Restart(p)
         PROVE  TypeSound'
    <2>1. /\ pc[p] = "dead" /\ pc' = [pc EXCEPT ![p] = "idle"]
          /\ UNCHANGED <<running, data, tmp, lock, mem, open, kills, by, clash, unread>>
      BY <1>11 DEF Restart, Goto, files
    <2>2. /\ pc' \in [Processes -> Steps]
          /\ \A q \in Processes : pc'[q] = IF q = p THEN "idle" ELSE pc[q]
      BY <1>0, <2>1 DEF Steps
    <2>3. Locking'
      BY <1>2, <2>1, <2>2 DEF Locking
    <2> QED
      BY <1>0, <1>1, <1>2, <2>1, <2>2, <2>3
  <1>12. CASE UNCHANGED vars
    BY <1>0, <1>1, <1>2, <1>12 DEF vars, files, Locking
  <1> QED
    BY <1>4, <1>5, <1>6, <1>7, <1>8, <1>9, <1>10, <1>11, <1>12 DEF Next, Export

-----------------------------------------------------------------------------
(* Who has which file open. *)

Alone ==
    /\ \A p \in Processes : open[p] = "tmp" <=> SharesTmp(p) /\ pc[p] \in {"write", "rename"}
    /\ \A p, q \in Processes : open[p] = "tmp" /\ open[q] = "tmp" => p = q
    /\ \A p \in Processes : open[p] = "tmp" =>
           IF pc[p] = "write" THEN tmp = Blank ELSE Readable(tmp)
    /\ \A p \in Processes : open[p] = "own" => ~SharesTmp(p) /\ ~InPlace(p)
    /\ \A p \in Processes : open[p] = "data" => InPlace(p) /\ data = Blank

Healthy == Readable(data) \/ \E p \in running : InPlace(p) /\ (kills > 0 \/ open[p] = "data")

LEMMA InTwoParts == HandlesOK <=> clash \/ (Alone /\ Healthy)
  BY DEF HandlesOK, Alone, Healthy

LEMMA ClashStays == TypeSound /\ HandlesOK /\ [Next]_vars /\ clash => clash'
  <1> SUFFICES ASSUME TypeSound, HandlesOK, [Next]_vars, clash PROVE clash'
    OBVIOUS
  <1>1. ASSUME NEW p \in Processes, Write(p) \/ Rename(p)
        PROVE  clash'
    BY <1>1, WriteFacts, RenameFacts DEF TypeSound
  <1>2. ASSUME NEW p \in Processes, Begin(p) \/ Lock(p) \/ Read(p) \/ Open(p) \/ Kill(p) \/ Restart(p)
        PROVE  clash'
    BY <1>2 DEF Begin, Lock, Read, Open, Kill, Restart
  <1>3. CASE UNCHANGED vars
    BY <1>3 DEF vars
  <1> QED
    BY <1>1, <1>2, <1>3 DEF Next, Export

LEMMA Disciplines ==
    \A p, q \in Processes :
        /\ InPlace(p) => ~SharesTmp(p) /\ ~Locks(p)
        /\ InPlace(p) /\ InPlace(q) => p = q
        /\ ~SharesTmp(p) /\ ~InPlace(p) /\ ~SharesTmp(q) /\ ~InPlace(q) => p = q
        /\ ReadsUnderLock(p) => SharesTmp(p) /\ Locks(p) /\ ~StartsAfresh(p)
  BY DEF InPlace, SharesTmp, Locks, ReadsUnderLock, StartsAfresh, Processes

(* A step of p that opens, writes and renames nothing. *)
LEMMA AloneKept ==
    ASSUME TypeSound, Alone, NEW p \in Processes, pc[p] \notin {"write", "rename"},
           NEW to \in Steps \ {"write", "rename"}, pc' = [pc EXCEPT ![p] = to],
           UNCHANGED <<data, tmp, open>>
    PROVE  Alone'
  <1>1. \A q \in Processes : pc'[q] = IF q = p THEN to ELSE pc[q]
    BY DEF TypeSound, StepsOK
  <1>2. open[p] = "none"
    BY DEF TypeSound, StepsOK
  <1>3. \A q \in Processes : open[q] = "tmp" => q # p
    BY <1>2
  <1>4. \A q \in Processes : open'[q] = "tmp" <=> SharesTmp(q) /\ pc'[q] \in {"write", "rename"}
    BY <1>1, <1>2 DEF Alone, Steps
  <1>5. \A q \in Processes : open'[q] = "tmp" =>
           IF pc'[q] = "write" THEN tmp' = Blank ELSE Readable(tmp)'
    BY <1>1, <1>3 DEF Alone, Readable
  <1> QED
    BY <1>4, <1>5 DEF Alone

LEMMA OpenAlone ==
    ASSUME TypeSound, Alone, NEW p \in Processes, Open(p), ~clash'
    PROVE  Alone'
  <1>1. /\ pc[p] = "open" /\ pc' = [pc EXCEPT ![p] = "write"]
        /\ data' = (IF Target(p) = "data" THEN Blank ELSE data)
        /\ tmp' = (IF Target(p) = "tmp" THEN Blank ELSE tmp)
        /\ open' = [open EXCEPT ![p] = Target(p)]
        /\ Target(p) # "own" => \A q \in Processes \ {p} : open[q] # Target(p)
    BY DEF Open, Goto
  <1>2. \A q \in Processes : /\ pc'[q] = IF q = p THEN "write" ELSE pc[q]
                             /\ open'[q] = IF q = p THEN Target(p) ELSE open[q]
    BY <1>1 DEF TypeSound, TypeOK, StepsOK
  <1>3. Target(p) = IF InPlace(p) THEN "data" ELSE IF SharesTmp(p) THEN "tmp" ELSE "own"
    BY DEF Target
  <1>4. \A q \in Processes : open'[q] = "tmp" <=> SharesTmp(q) /\ pc'[q] \in {"write", "rename"}
    BY <1>1, <1>2, <1>3, Disciplines DEF Alone
  <1>5. \A q, r \in Processes : open'[q] = "tmp" /\ open'[r] = "tmp" => q = r
    BY <1>1, <1>2, <1>3 DEF Alone
  <1>6. \A q \in Processes : open'[q] = "tmp" =>
           IF pc'[q] = "write" THEN tmp' = Blank ELSE Readable(tmp)'
    BY <1>1, <1>2, <1>3 DEF Alone, Readable
  <1>7. \A q \in Processes : open'[q] = "own" => ~SharesTmp(q) /\ ~InPlace(q)
    BY <1>2, <1>3 DEF Alone
  <1>8. \A q \in Processes : open'[q] = "data" => InPlace(q) /\ data' = Blank
    BY <1>1, <1>2, <1>3 DEF Alone
  <1> QED
    BY <1>4, <1>5, <1>6, <1>7, <1>8 DEF Alone

LEMMA WriteAlone ==
    ASSUME TypeSound, HandlesOK, ~clash, NEW p \in Processes, Write(p)
    PROVE  Alone' /\ (open[p] = "data" => Readable(data)')
  <1>0. Alone /\ pc[p] = "write" /\ mem[p] \in SUBSET Sections
    BY InTwoParts, WriteFacts DEF TypeSound, TypeOK
  <1>1. CASE InPlace(p)
    <2>1. /\ open[p] # "tmp" /\ pc' = [pc EXCEPT ![p] = "idle"] /\ open' = [open EXCEPT ![p] = "none"]
      BY <1>0, <1>1, WriteFacts, Disciplines DEF TypeSound, Alone
    <2>2. \A q \in Processes : /\ pc'[q] = IF q = p THEN "idle" ELSE pc[q]
                               /\ open'[q] = IF q = p THEN "none" ELSE open[q]
      BY <2>1 DEF TypeSound, TypeOK, StepsOK
    <2>3. \/ /\ open[p] = "data" /\ data' = File("whole", mem[p])
             /\ tmp' = [tmp EXCEPT !.newest = tmp'.newest]
          \/ open[p] # "data" /\ UNCHANGED <<data, tmp>>
      <3>1. CASE open[p] = "data"
        <4>1. PICK c \in FileSet : /\ Published(p, c) /\ c = File("whole", mem[p])
                                   /\ tmp' = [tmp EXCEPT !.newest = Aged(@, p, c)]
          BY <3>1, WriteFacts DEF TypeSound
        <4>2. data' = c
          BY <4>1 DEF Published
        <4>3. tmp'.newest = Aged(tmp.newest, p, c)
          BY <4>1 DEF TypeSound, FileSet
        <4> QED
          BY <3>1, <4>1, <4>2, <4>3
      <3>2. CASE open[p] # "data"
        BY <2>1, <3>2, WriteFacts DEF TypeSound
      <3> QED
        BY <3>1, <3>2
    <2>4. Readable(tmp) => Readable(tmp)'
      BY <2>3 DEF Readable, TypeSound, FileSet
    <2>5. tmp = Blank => tmp' = Blank
      <3>1. CASE open[p] = "data"
        <4>1. PICK c \in FileSet : tmp' = [tmp EXCEPT !.newest = Aged(@, p, c)]
          BY <3>1, WriteFacts DEF TypeSound
        <4> QED
          BY <4>1 DEF Blank, File, Aged
      <3> QED
        BY <2>3, <3>1
    <2>6. \A q \in Processes : open'[q] = "tmp" =>
             IF pc'[q] = "write" THEN tmp' = Blank ELSE Readable(tmp)'
      BY <1>0, <2>1, <2>2, <2>4, <2>5 DEF Alone
    <2>7. \A q \in Processes : open'[q] = "tmp" <=> SharesTmp(q) /\ pc'[q] \in {"write", "rename"}
      BY <1>0, <1>1, <2>2, Disciplines DEF Alone
    <2>8. \A q \in Processes : open'[q] = "data" => InPlace(q) /\ data' = Blank
      BY <1>0, <1>1, <2>2, <2>3, Disciplines DEF Alone
    <2>9. open[p] = "data" => Readable(data)'
      BY <1>0, <2>3, Files DEF Readable
    <2> QED
      BY <1>0, <2>2, <2>6, <2>7, <2>8, <2>9 DEF Alone
  <1>2. CASE ~InPlace(p)
    <2>1. pc' = [pc EXCEPT ![p] = "rename"] /\ UNCHANGED open /\ open[p] # "data"
      BY <1>0, <1>2, WriteFacts DEF TypeSound, Alone
    <2>2. \A q \in Processes : pc'[q] = IF q = p THEN "rename" ELSE pc[q]
      BY <2>1 DEF TypeSound, StepsOK
    <2>3. UNCHANGED data
      BY <2>1, WriteFacts DEF TypeSound
    <2>4. IF open[p] = "tmp" THEN Readable(tmp)' ELSE UNCHANGED tmp
      <3>1. open[p] = "tmp" => tmp' = File("whole", mem[p])
        BY WriteFacts DEF TypeSound
      <3>2. open[p] # "tmp" => UNCHANGED tmp
        BY <2>1, WriteFacts DEF TypeSound
      <3> QED
        BY <1>0, <3>1, <3>2, Files DEF Readable
    <2>5. \A q \in Processes : open'[q] = "tmp" =>
             IF pc'[q] = "write" THEN tmp' = Blank ELSE Readable(tmp)'
      BY <1>0, <2>1, <2>2, <2>4 DEF Alone, Readable
    <2>6. \A q \in Processes : open'[q] = "tmp" <=> SharesTmp(q) /\ pc'[q] \in {"write", "rename"}
      BY <1>0, <2>1, <2>2 DEF Alone
    <2> QED
      BY <1>0, <2>1, <2>3, <2>5, <2>6 DEF Alone
  <1> QED
    BY <1>1, <1>2

LEMMA RenameAlone ==
    ASSUME TypeSound, HandlesOK, ~clash, NEW p \in Processes, Rename(p)
    PROVE  Alone' /\ Readable(data)'
  <1>0. /\ Alone /\ pc[p] = "rename" /\ mem[p] \in SUBSET Sections
        /\ pc' = [pc EXCEPT ![p] = "idle"]
    BY InTwoParts, RenameFacts DEF TypeSound, TypeOK
  <1>1. \A q \in Processes : pc'[q] = IF q = p THEN "idle" ELSE pc[q]
    BY <1>0 DEF TypeSound, StepsOK
  <1>2. ~InPlace(p)
    BY <1>0 DEF TypeSound, StepsOK
  <1>3. CASE SharesTmp(p)
    <2>1. Published(p, tmp) /\ tmp' = Absent /\ Moved(p, "tmp")
      BY <1>3, RenameFacts DEF TypeSound
    <2>2. open[p] = "tmp" /\ \A q \in Processes \ {p} : open[q] # "tmp"
      BY <1>0, <1>3 DEF Alone
    <2>3. Readable(data)'
      BY <1>0, <2>1, <2>2 DEF Alone, Published, Readable
    <2>4. \A q \in Processes : open'[q] = IF q = p THEN "none"
                                          ELSE IF open[q] = "data" THEN "unnamed" ELSE open[q]
      BY <2>1, <2>2 DEF Moved
    <2>5. \A q \in Processes : open'[q] # "tmp" /\ open'[q] # "data"
      BY <2>2, <2>4
    <2>6. \A q \in Processes : SharesTmp(q) => pc'[q] \notin {"write", "rename"}
      BY <1>0, <1>1, <2>2 DEF Alone
    <2>7. \A q \in Processes : open'[q] = "own" => open[q] = "own"
      BY <2>4
    <2> QED
      BY <1>0, <2>3, <2>5, <2>6, <2>7 DEF Alone
  <1>4. CASE ~SharesTmp(p)
    <2>1. /\ Published(p, File("whole", mem[p])) /\ Moved(p, "own")
          /\ tmp' = [tmp EXCEPT !.newest = @ \ Own(p)]
      BY <1>4, RenameFacts DEF TypeSound
    <2>2. \A q \in Processes \ {p} : open[q] # "own"
      BY <1>0, <1>2, <1>4, Disciplines DEF Alone
    <2>3. open[p] # "tmp"
      BY <1>0, <1>4 DEF Alone
    <2>4. \A q \in Processes : open'[q] = IF q = p THEN "none"
                                          ELSE IF open[q] = "data" THEN "unnamed" ELSE open[q]
      BY <2>1, <2>2 DEF Moved
    <2>5. Readable(data)'
      BY <1>0, <2>1, Files DEF Published, Readable
    <2>6. (Readable(tmp) => Readable(tmp)') /\ (tmp = Blank => tmp' = Blank)
      BY <2>1 DEF Readable, TypeSound, FileSet, Blank, File
    <2>7. \A q \in Processes : open'[q] = "tmp" <=> q # p /\ open[q] = "tmp"
      BY <2>4
    <2>8. \A q \in Processes : open'[q] = "tmp" =>
             IF pc'[q] = "write" THEN tmp' = Blank ELSE Readable(tmp)'
      BY <1>0, <1>1, <2>6, <2>7 DEF Alone
    <2>9. \A q \in Processes : open'[q] = "tmp" <=> SharesTmp(q) /\ pc'[q] \in {"write", "rename"}
      BY <1>0, <1>1, <1>4, <2>3, <2>7 DEF Alone
    <2>10. \A q \in Processes : open'[q] # "data" /\ (open'[q] = "own" => open[q] = "own")
      BY <2>4
    <2> QED
      BY <1>0, <2>5, <2>7, <2>8, <2>9, <2>10 DEF Alone
  <1> QED
    BY <1>3, <1>4

LEMMA KillAlone ==
    ASSUME TypeSound, Alone, NEW p \in Processes, Kill(p)
    PROVE  Alone'
  <1>1. /\ pc' = [pc EXCEPT ![p] = "dead"] /\ open' = [open EXCEPT ![p] = "none"]
        /\ UNCHANGED <<data, tmp>>
    BY DEF Kill, Goto, files
  <1>2. \A q \in Processes : /\ pc'[q] = IF q = p THEN "dead" ELSE pc[q]
                             /\ open'[q] = IF q = p THEN "none" ELSE open[q]
    BY <1>1 DEF TypeSound, TypeOK, StepsOK
  <1>3. \A q \in Processes : open'[q] = "tmp" =>
           IF pc'[q] = "write" THEN tmp' = Blank ELSE Readable(tmp)'
    BY <1>1, <1>2 DEF Alone, Readable
  <1>4. \A q \in Processes : open'[q] = "tmp" <=> SharesTmp(q) /\ pc'[q] \in {"write", "rename"}
    BY <1>2 DEF Alone
  <1> QED
    BY <1>1, <1>2, <1>3, <1>4 DEF Alone

LEMMA HandlesStep == TypeSound /\ HandlesOK /\ [Next]_vars => HandlesOK'
  <1> SUFFICES ASSUME TypeSound, HandlesOK, [Next]_vars, ~clash' PROVE (Alone /\ Healthy)'
    <2>1. HandlesOK' <=> (clash \/ (Alone /\ Healthy))'
      BY InTwoParts, PTL
    <2> QED
      BY <2>1
  <1>0. ~clash /\ Alone /\ Healthy
    BY ClashStays, InTwoParts
  <1>1. ASSUME NEW p \in Processes, pc[p] \notin {"write", "rename"},
               NEW to \in Steps \ {"write", "rename"}, pc' = [pc EXCEPT ![p] = to],
               UNCHANGED <<running, kills, data, tmp, open>>
        PROVE  (Alone /\ Healthy)'
    BY <1>0, <1>1, AloneKept DEF Healthy, Readable
  <1>2. ASSUME NEW p \in Processes, Begin(p) \/ Lock(p) \/ Read(p) \/ Restart(p)
        PROVE  (Alone /\ Healthy)'
    <2>1. /\ pc[p] \notin {"write", "rename"} /\ UNCHANGED <<running, kills, data, tmp, open>>
      BY <1>2 DEF Begin, Lock, Read, Restart, files
    <2>2. \E to \in Steps \ {"write", "rename"} : pc' = [pc EXCEPT ![p] = to]
      <3>1. {First(p), AfterRead(p), "idle", "read", "open", IF ReadsUnderLock(p) THEN "read" ELSE "open"}
                \subseteq Steps \ {"write", "rename"}
        BY DEF First, AfterRead, Steps
      <3> QED
        BY <1>2, <3>1 DEF Begin, Lock, Read, Restart, Goto, GiveUp
    <2> QED
      BY <1>1, <2>1, <2>2
  <1>3. ASSUME NEW p \in Processes, Open(p)
        PROVE  (Alone /\ Healthy)'
    <2>1. /\ pc[p] = "open" /\ UNCHANGED <<running, kills>>
          /\ data' = (IF Target(p) = "data" THEN Blank ELSE data)
          /\ open' = [open EXCEPT ![p] = Target(p)]
      BY <1>3 DEF Open
    <2>2. p \in running /\ open[p] = "none"
      BY <2>1 DEF TypeSound, StepsOK
    <2>3. \A q \in Processes : open'[q] = IF q = p THEN Target(p) ELSE open[q]
      BY <2>1 DEF TypeSound, TypeOK
    <2>4. Healthy'
      <3>1. CASE Target(p) = "data"
        BY <2>1, <2>2, <2>3, <3>1 DEF Healthy, Target
      <3>2. CASE Target(p) # "data"
        BY <1>0, <2>1, <2>2, <2>3, <3>2 DEF Healthy, Readable, TypeSound, StepsOK
      <3> QED
        BY <3>1, <3>2
    <2> QED
      BY <1>0, <1>3, <2>4, OpenAlone
  <1>4. ASSUME NEW p \in Processes, Write(p)
        PROVE  (Alone /\ Healthy)'
    <2>1. Alone' /\ (open[p] = "data" => Readable(data)')
      BY <1>0, <1>4, WriteAlone
    <2>2. UNCHANGED <<running, kills>>
      BY <1>4, WriteFacts DEF TypeSound
    <2>3. CASE open[p] = "data"
      BY <2>1, <2>3 DEF Healthy
    <2>4. CASE open[p] # "data"
      <3>1. UNCHANGED data
        BY <1>4, <2>4, WriteFacts DEF TypeSound
      <3>2. \A q \in Processes : open[q] = "data" => open'[q] = "data"
        <4>1. open' = open \/ open' = [open EXCEPT ![p] = "none"]
          BY <1>4, WriteFacts DEF TypeSound
        <4> QED
          BY <2>4, <4>1 DEF TypeSound, TypeOK
      <3> QED
        BY <1>0, <2>1, <2>2, <3>1, <3>2 DEF Healthy, Readable, TypeSound, StepsOK
    <2> QED
      BY <2>3, <2>4
  <1>5. ASSUME NEW p \in Processes, Rename(p)
        PROVE  (Alone /\ Healthy)'
    BY <1>0, <1>5, RenameAlone DEF Healthy
  <1>6. ASSUME NEW p \in Processes, Kill(p)
        PROVE  (Alone /\ Healthy)'
    <2>1. UNCHANGED <<running, data>> /\ kills' > 0
      BY <1>6 DEF Kill, files, TypeSound, TypeOK
    <2> QED
      BY <1>0, <1>6, <2>1, KillAlone DEF Healthy, Readable
  <1>7. CASE UNCHANGED vars
    BY <1>0, <1>7 DEF vars, files, Alone, Healthy, Readable
  <1> QED
    BY <1>2, <1>3, <1>4, <1>5, <1>6, <1>7 DEF Next, Export

-----------------------------------------------------------------------------
(* What the Bluetooth scanner has read of the ESP32 bridge. *)

Fresh == by = "esp32" /\ Readable(data) /\ "esp" \in data.newest

HasIt ==
    /\ pc["ble"] \in {"open", "write"} => "esp" \in mem["ble"]
    /\ pc["ble"] = "rename" => "esp" \in tmp.newest

LEMMA Bluetooth ==
    /\ "ble" \in Processes /\ "esp32" \in Processes
    /\ \A p \in Processes : ReadsUnderLock(p) <=> p \in {"esp32", "ble"}
    /\ Locks("ble") /\ Locks("esp32") /\ SharesTmp("ble") /\ ~InPlace("ble") /\ ~InPlace("esp32")
    /\ AfterRead("ble") = "open" /\ First("ble") = "lock" /\ ~StartsAfresh("ble")
    /\ Own("ble") \ Own("esp32") = {} /\ Own("esp32") \ Own("ble") = {"esp"}
    /\ \A c \in SUBSET Sections : c \subseteq Writes("ble", c)
    /\ SharesTmp("esp32")
  <1>1. \A c \in SUBSET Sections : c \subseteq Writes("ble", c)
    BY DEF Writes, BleMerge, Merged
  <1>2. Own("ble") \ Own("esp32") = {} /\ Own("esp32") \ Own("ble") = {"esp"}
    BY DEF Own
  <1> QED
    BY <1>1, <1>2 DEF Processes, ReadsUnderLock, Locks, SharesTmp, InPlace, AfterRead, First, StartsAfresh

LEMMA BleStep == TypeSound /\ HandlesOK /\ BleHasRead /\ [Next]_vars => BleHasRead'
  <1> SUFFICES ASSUME TypeSound, HandlesOK, BleHasRead, [Next]_vars, ~clash', Fresh'
               PROVE  HasIt'
    BY DEF BleHasRead, Fresh, HasIt
  <1>0. /\ ~clash /\ Alone /\ (Fresh => HasIt)
        /\ pc \in [Processes -> Steps] /\ mem \in [Processes -> SUBSET Sections]
        /\ "ble" \in Processes /\ data.newest \in SUBSET Sections
        /\ open \in [Processes -> Handles]
    BY ClashStays, InTwoParts, Bluetooth DEF BleHasRead, Fresh, HasIt, TypeSound, TypeOK, StepsOK, Steps, FileSet
  <1>1. ASSUME NEW p \in Processes, p # "ble", UNCHANGED <<by, data, tmp>>, mem'["ble"] = mem["ble"],
               pc'["ble"] = pc["ble"]
        PROVE  HasIt'
    BY <1>0, <1>1 DEF Fresh, HasIt, Readable
  <1>2. ASSUME UNCHANGED <<by, data, tmp, mem>>, pc'["ble"] = pc["ble"]
        PROVE  HasIt'
    BY <1>0, <1>2 DEF Fresh, HasIt, Readable
  <1>3. ASSUME NEW p \in Processes, Begin(p) \/ Lock(p) \/ Restart(p)
        PROVE  HasIt'
    <2>1. UNCHANGED <<by, data, tmp, mem>>
      BY <1>3 DEF Begin, Lock, Restart, files
    <2>2. CASE p = "ble"
      <3>1. pc'["ble"] \in {"lock", "read", "idle"}
        BY <1>0, <1>3, <2>2, Bluetooth DEF Begin, Lock, Restart, Goto
      <3> QED
        BY <3>1 DEF HasIt
    <2>3. CASE p # "ble"
      <3>1. pc'["ble"] = pc["ble"]
        BY <1>0, <1>3, <2>3 DEF Begin, Lock, Restart, Goto
      <3> QED
        BY <1>2, <2>1, <3>1
    <2> QED
      BY <2>2, <2>3
  <1>4. ASSUME NEW p \in Processes, Read(p)
        PROVE  HasIt'
    <2>1. UNCHANGED <<by, data, tmp>>
      BY <1>4 DEF Read, files
    <2>2. CASE p = "ble"
      <3>1. CASE Readable(data)
        <4>1. /\ pc' = [pc EXCEPT !["ble"] = "open"]
              /\ mem' = [mem EXCEPT !["ble"] = Writes("ble", data.newest)]
          BY <1>0, <1>4, <2>2, <3>1, Bluetooth DEF Read, Goto
        <4>2. pc'["ble"] = "open" /\ mem'["ble"] = Writes("ble", data.newest)
          BY <1>0, <4>1
        <4>3. "esp" \in data.newest
          BY <2>1 DEF Fresh
        <4> QED
          BY <1>0, <4>2, <4>3, Bluetooth DEF HasIt
      <3>2. CASE ~Readable(data)
        BY <2>1, <3>2 DEF Fresh, Readable
      <3> QED
        BY <3>1, <3>2
    <2>3. CASE p # "ble"
      <3>1. pc'["ble"] = pc["ble"] /\ mem'["ble"] = mem["ble"]
        BY <1>0, <1>4, <2>3 DEF Read, Goto, GiveUp
      <3> QED
        BY <1>1, <2>1, <2>3, <3>1
    <2> QED
      BY <2>2, <2>3
  <1>5. ASSUME NEW p \in Processes, Open(p)
        PROVE  HasIt'
    <2>1. /\ pc[p] = "open" /\ pc' = [pc EXCEPT ![p] = "write"] /\ UNCHANGED <<mem, by>>
          /\ data' = (IF Target(p) = "data" THEN Blank ELSE data)
          /\ tmp' = (IF Target(p) = "tmp" THEN Blank ELSE tmp)
          /\ Target(p) = "tmp" => \A q \in Processes \ {p} : open[q] # "tmp"
      BY <1>5 DEF Open, Goto
    <2>2. UNCHANGED data
      BY <2>1 DEF Fresh, Readable, Blank, File
    <2>3. HasIt
      BY <1>0, <2>1, <2>2 DEF Fresh, Readable
    <2>4. CASE p = "ble"
      BY <1>0, <2>1, <2>3, <2>4 DEF HasIt
    <2>5. CASE p # "ble"
      <3>1. pc'["ble"] = pc["ble"]
        BY <1>0, <2>1, <2>5
      <3>2. pc["ble"] = "rename" => tmp' = tmp
        BY <1>0, <2>1, <2>5, Bluetooth DEF Alone
      <3> QED
        BY <2>1, <2>3, <3>1, <3>2 DEF HasIt
    <2> QED
      BY <2>4, <2>5
  <1>6. ASSUME NEW p \in Processes, Write(p)
        PROVE  HasIt'
    <2>1. pc[p] = "write"
      BY <1>6 DEF Write
    <2>2. CASE open[p] = "data"
      <3>1. InPlace(p)
        BY <1>0, <2>2 DEF Alone
      <3>2. by' = p
        BY <1>0, <1>6, <2>2, WriteFacts DEF Published, TypeSound
      <3> QED
        BY <3>1, <3>2, Bluetooth DEF Fresh
    <2>3. CASE open[p] = "tmp"
      <3>1. /\ UNCHANGED <<data, mem, by>> /\ tmp' = File("whole", mem[p])
            /\ ~InPlace(p) /\ pc' = [pc EXCEPT ![p] = "rename"]
        BY <1>0, <1>6, <2>3, WriteFacts, Disciplines DEF TypeSound, Alone
      <3>2. HasIt
        BY <1>0, <3>1 DEF Fresh, Readable
      <3>3. CASE p = "ble"
        BY <1>0, <2>1, <3>1, <3>2, <3>3, Files DEF HasIt
      <3>4. CASE p # "ble"
        <4>1. pc'["ble"] = pc["ble"] /\ pc["ble"] \notin {"write", "rename"}
          BY <1>0, <2>3, <3>1, <3>4, Bluetooth DEF Alone
        <4> QED
          BY <3>1, <3>2, <4>1 DEF HasIt
      <3> QED
        BY <3>3, <3>4
    <2>4. CASE open[p] \notin {"data", "tmp"}
      <3>1. p # "ble"
        BY <1>0, <2>1, <2>4, Bluetooth DEF Alone
      <3>2. UNCHANGED <<data, tmp, mem, by>> /\ pc'["ble"] = pc["ble"]
        BY <1>0, <1>6, <2>4, <3>1, WriteFacts DEF TypeSound
      <3> QED
        BY <1>2, <3>2
    <2> QED
      BY <2>2, <2>3, <2>4
  <1>7. ASSUME NEW p \in Processes, Rename(p)
        PROVE  HasIt'
    <2>1. pc[p] = "rename" /\ pc' = [pc EXCEPT ![p] = "idle"] /\ by' = p
      BY <1>0, <1>7, RenameFacts DEF Published, TypeSound
    <2>2. p = "esp32"
      BY <2>1 DEF Fresh
    <2>3. lock = "esp32"
      BY <2>1, <2>2, Bluetooth DEF TypeSound, TypeOK
    <2>4. pc["ble"] \notin {"open", "write", "rename"}
      BY <2>3, Bluetooth DEF TypeSound, TypeOK
    <2>5. pc'["ble"] = pc["ble"]
      BY <1>0, <2>1, <2>2
    <2> QED
      BY <2>4, <2>5 DEF HasIt
  <1>8. ASSUME NEW p \in Processes, Kill(p)
        PROVE  HasIt'
    <2>1. /\ pc' = [pc EXCEPT ![p] = "dead"] /\ mem' = [mem EXCEPT ![p] = {}]
          /\ UNCHANGED <<by, data, tmp>>
      BY <1>8 DEF Kill, Goto, files
    <2>2. CASE p = "ble"
      BY <1>0, <2>1, <2>2 DEF HasIt
    <2>3. CASE p # "ble"
      BY <1>0, <1>1, <2>1, <2>3
    <2> QED
      BY <2>2, <2>3
  <1>9. CASE UNCHANGED vars
    BY <1>2, <1>9 DEF vars, files
  <1> QED
    BY <1>3, <1>4, <1>5, <1>6, <1>7, <1>8, <1>9 DEF Next, Export

LEMMA LockersStep ==
    TypeSound /\ HandlesOK /\ BleHasRead /\ LockersReadEachOther /\ [Next]_vars => LockersReadEachOther'
  <1> SUFFICES ASSUME TypeSound, HandlesOK, BleHasRead, LockersReadEachOther, [Next]_vars, ~clash',
                      NEW pair \in unread'
               PROVE  \E p \in {pair[1], pair[2]} : ~ReadsUnderLock(p)
    BY DEF LockersReadEachOther
  <1>0. ~clash
    BY ClashStays
  <1>1. CASE pair \in unread
    BY <1>0, <1>1 DEF LockersReadEachOther
  <1>2. ASSUME NEW p \in Processes, Write(p)
        PROVE  \E q \in {pair[1], pair[2]} : ~ReadsUnderLock(q)
    <2>1. pc[p] = "write" /\ p \in running
      BY <1>2 DEF Write, TypeSound, StepsOK
    <2>2. CASE open[p] = "data"
      <3>1. InPlace(p) /\ ~ReadsUnderLock(p)
        BY <1>0, <2>2, InTwoParts, Disciplines DEF Alone
      <3>2. PICK c \in FileSet : Published(p, c)
        BY <1>2, <2>2, WriteFacts DEF TypeSound
      <3>3. pair \in unread \/ pair = <<p, by>>
        BY <1>0, <2>1, <3>2, PublishedFacts DEF TypeSound
      <3> QED
        BY <1>1, <3>1, <3>3
    <2>3. CASE open[p] # "data"
      BY <1>1, <1>2, <2>3, WriteFacts DEF TypeSound
    <2> QED
      BY <2>2, <2>3
  <1>3. ASSUME NEW p \in Processes, Rename(p)
        PROVE  \E q \in {pair[1], pair[2]} : ~ReadsUnderLock(q)
    <2>1. pc[p] = "rename" /\ p \in running /\ tmp \in FileSet /\ File("whole", mem[p]) \in FileSet
      BY <1>3, Files DEF Rename, TypeSound, TypeOK, StepsOK
    <2>2. PICK c \in FileSet : Published(p, c) /\ (SharesTmp(p) => c = tmp)
      BY <1>0, <1>3, <2>1, RenameFacts DEF TypeSound
    <2>3. \/ pair \in unread
          \/ /\ pair = <<p, by>> /\ by # Nobody /\ Readable(data)
             /\ ((Own(by) \ Own(p)) \cap data.newest) \ c.newest # {}
      BY <1>0, <2>1, <2>2, PublishedFacts DEF TypeSound
    <2>4. CASE /\ pair = <<p, by>> /\ by # Nobody /\ Readable(data)
               /\ ((Own(by) \ Own(p)) \cap data.newest) \ c.newest # {}
               /\ ReadsUnderLock(p) /\ ReadsUnderLock(by)
      <3>1. by \in Processes
        BY <2>4 DEF TypeSound, StepsOK
      <3>2. p \in {"esp32", "ble"} /\ by \in {"esp32", "ble"} /\ p # by
        BY <2>4, <3>1, Bluetooth
      <3>3. p = "ble" /\ by = "esp32"
        BY <2>4, <3>2, Bluetooth
      <3>4. "esp" \in data.newest /\ "esp" \notin c.newest /\ c = tmp
        BY <2>2, <2>4, <3>3, Bluetooth
      <3>5. "esp" \in tmp.newest
        BY <1>0, <2>1, <2>4, <3>3, <3>4 DEF BleHasRead
      <3> QED
        BY <3>4, <3>5
    <2> QED
      BY <1>1, <2>3, <2>4
  <1>4. ASSUME NEW p \in Processes, Begin(p) \/ Lock(p) \/ Read(p) \/ Open(p) \/ Kill(p) \/ Restart(p)
        PROVE  UNCHANGED unread
    BY <1>4 DEF Begin, Lock, Read, Open, Kill, Restart
  <1>5. CASE UNCHANGED vars
    BY <1>1, <1>5 DEF vars
  <1> QED
    BY <1>1, <1>2, <1>3, <1>4, <1>5 DEF Next, Export

-----------------------------------------------------------------------------
(* The invariant holds. *)

LEMMA InvariantInit == Init => IInv
  <1> SUFFICES ASSUME Init PROVE IInv
    OBVIOUS
  <1>1. /\ data = File("whole", {}) /\ tmp = Absent /\ running \in Deployments
        /\ running \subseteq Processes
    BY DeploymentsAssumption DEF Init
  <1>2. /\ data \in FileSet /\ tmp \in FileSet /\ data # Absent /\ Readable(data)
    BY <1>1, Files
  <1>3. /\ {data.form, tmp.form} \subseteq {"whole", "blank", "torn", "absent"}
        /\ data.newest \cup tmp.newest \subseteq Sections
    BY <1>2 DEF FileSet, Forms
  <1>4. /\ mem \in [Processes -> SUBSET Sections] /\ open \in [Processes -> Handles]
        /\ pc = [p \in Processes |-> "idle"] /\ open = [p \in Processes |-> "none"]
        /\ lock = Nobody /\ kills \in 0..MaxKills /\ unread = {} /\ by = Nobody /\ clash = FALSE
    BY DeploymentsAssumption DEF Init, Handles
  <1>5. TypeOK
    BY <1>1, <1>2, <1>3, <1>4 DEF TypeOK
  <1>6. StepsOK
    BY <1>1, <1>4 DEF StepsOK
  <1>7. HandlesOK
    BY <1>2, <1>4 DEF HandlesOK
  <1>8. BleHasRead /\ LockersReadEachOther
    BY <1>4, NobodyAssumption, Bluetooth DEF BleHasRead, LockersReadEachOther
  <1> QED
    BY <1>2, <1>5, <1>6, <1>7, <1>8 DEF IInv

LEMMA InvariantStep == IInv /\ [Next]_vars => IInv'
  BY TypeStep, HandlesStep, BleStep, LockersStep DEF IInv, TypeSound

LEMMA InvariantHolds == Spec => []IInv
  BY InvariantInit, InvariantStep, PTL DEF Spec

(* Whichever of the six processes run together and wherever they are killed:
   as long as no two have had data.tmp open, data.json can be read, unless the
   process that writes it in place is writing it or was killed. *)
THEOREM FileIsSound == Spec => []FileInv
  <1>1. IInv => FileInv
    <2> SUFFICES ASSUME IInv PROVE FileInv
      OBVIOUS
    <2>1. ASSUME ~clash, ~Readable(data)
          PROVE  \E p \in running : InPlace(p) /\ (kills > 0 \/ (pc[p] = "write" /\ open[p] = "data"))
      <3>1. PICK p \in running : InPlace(p) /\ (kills > 0 \/ open[p] = "data")
        BY <2>1 DEF IInv, HandlesOK
      <3>2. p \in Processes
        BY DEF IInv, StepsOK
      <3>3. open[p] = "data" => pc[p] = "write"
        BY <3>1, <3>2 DEF IInv, StepsOK
      <3> QED
        BY <3>1, <3>3
    <2>2. ReadableUnlessShared
      BY <2>1 DEF ReadableUnlessShared
    <2> QED
      BY <2>2 DEF IInv, FileInv
  <1> QED
    BY <1>1, InvariantHolds, PTL

(* Of the processes that read and write under the lock none replaces what
   another has just published without having read it, whatever those that do
   not lock do in between, until two processes have one temporary file open. *)
THEOREM LockersRead == Spec => []LockersReadEachOther
  BY InvariantHolds, PTL DEF IInv
=============================================================================
