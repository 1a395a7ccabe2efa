-------------------------- MODULE MovementTracker --------------------------
(***************************************************************************)
(* The tracker that turns zone predictions into movements of devices       *)
(* (src/ml/models/movement_tracker.py, class MovementTracker).             *)
(*                                                                         *)
(* A device is a number, given on the first prediction for a MAC nobody    *)
(* has; link_mac() lets a new (randomised) MAC lead to an old device.  A   *)
(* change of zone is committed when CONFIRM_COUNT observations in a row    *)
(* say so, except from "unknown", which is left at once and which an       *)
(* untrained classifier predicts.  Of a visit the model keeps whether it   *)
(* was left; of time, whether a device was seen in the last 60 seconds.    *)
(* Bound: MaxDevices devices; a run also bounds what is observed.          *)
(***************************************************************************)
EXTENDS Integers, Sequences

CONSTANTS
    Macs, Zones,
    Unknown,        \* the zone "unknown"
    NoZone,         \* the empty _pending_zone
    ConfirmCount,   \* CONFIRM_COUNT
    MaxObservations,\* MAX_OBSERVATIONS
    MaxDevices

Devices == 1..MaxDevices
Predictions == Zones \cup {Unknown}

ASSUME ZonesAssumption == Unknown \notin Zones /\ NoZone \notin Predictions
ASSUME CountsAssumption ==
    /\ ConfirmCount \in Nat /\ ConfirmCount > 1 /\ MaxObservations \in Nat /\ MaxDevices \in Nat
    /\ ConfirmCount <= MaxObservations

VARIABLES
    deviceOf,       \* _mac_to_device, 0 for a MAC that nobody has
    next,           \* _next_id
    zone,           \* device |-> current_zone
    pending, count, \* device |-> _pending_zone, _pending_count
    observed,       \* device |-> the zones of its observations
    visits,         \* device |-> zone_history
    macs,           \* device |-> mac_history, as a set
    recent,         \* device |-> last_seen is less than 60 seconds ago
    active          \* device |-> is_active

movement == <<zone, pending, count, observed, visits>>
identity == <<deviceOf, next, macs>>
trackerVars == <<movement, identity, recent, active>>

TrackerInit ==
    /\ deviceOf = [m \in Macs |-> 0]
    /\ next = 1
    /\ zone = [d \in Devices |-> Unknown]
    /\ pending = [d \in Devices |-> NoZone] /\ count = [d \in Devices |-> 0]
    /\ observed = [d \in Devices |-> <<>>] /\ visits = [d \in Devices |-> <<>>]
    /\ macs = [d \in Devices |-> {}]
    /\ recent = [d \in Devices |-> FALSE] /\ active = [d \in Devices |-> FALSE]

-----------------------------------------------------------------------------
Visits == [zone : Predictions, left : BOOLEAN]
Visit(z) == [zone |-> z, left |-> FALSE]

(* observations.append, and pop(0) beyond MAX_OBSERVATIONS. *)
Appended(seq, z) ==
    IF Len(seq) < MaxObservations THEN Append(seq, z) ELSE Append(Tail(seq), z)

Left(history) ==
    IF history = <<>> THEN history
    ELSE [history EXCEPT ![Len(history)] = [zone |-> @.zone, left |-> TRUE]]

(* Zone transition logic of update(). *)
FirstZone(d, z) ==
    /\ zone[d] = Unknown
    /\ zone' = [zone EXCEPT ![d] = z]
    /\ visits' = [visits EXCEPT ![d] = Append(@, Visit(z))]
    /\ UNCHANGED <<pending, count>>

PendingKept(d, z) ==                                            \* mutant
    /\ zone[d] # Unknown /\ z = zone[d]
    /\ UNCHANGED <<zone, visits, pending, count>>

SameZone(d, z) ==
    /\ zone[d] # Unknown /\ z = zone[d]
    /\ pending' = [pending EXCEPT ![d] = NoZone] /\ count' = [count EXCEPT ![d] = 0]
    /\ UNCHANGED <<zone, visits>>

NewPending(d, z) ==
    /\ zone[d] # Unknown /\ z # zone[d] /\ z # pending[d]
    /\ pending' = [pending EXCEPT ![d] = z] /\ count' = [count EXCEPT ![d] = 1]
    /\ UNCHANGED <<zone, visits>>

Counted(d, z) ==
    /\ zone[d] # Unknown /\ z # zone[d] /\ z = pending[d]
    /\ count[d] + 1 < ConfirmCount
    /\ count' = [count EXCEPT ![d] = @ + 1]
    /\ UNCHANGED <<zone, visits, pending>>

(* _commit_transition *)
CommitUnclosed(d, z) ==                                         \* mutant
    /\ zone[d] # Unknown /\ z # zone[d] /\ z = pending[d]
    /\ count[d] + 1 >= ConfirmCount
    /\ zone' = [zone EXCEPT ![d] = z]
    /\ visits' = [visits EXCEPT ![d] = Append(@, Visit(z))]
    /\ pending' = [pending EXCEPT ![d] = NoZone] /\ count' = [count EXCEPT ![d] = 0]

Commit(d, z) ==
    /\ zone[d] # Unknown /\ z # zone[d] /\ z = pending[d]
    /\ count[d] + 1 >= ConfirmCount
    /\ zone' = [zone EXCEPT ![d] = z]
    /\ visits' = [visits EXCEPT ![d] = Append(Left(@), Visit(z))]
    /\ pending' = [pending EXCEPT ![d] = NoZone] /\ count' = [count EXCEPT ![d] = 0]

Transition(d, z) ==
    FirstZone(d, z) \/ SameZone(d, z) \/ NewPending(d, z) \/ Counted(d, z) \/ Commit(d, z)

(* The device of a MAC, a new one if it has none. *)
DeviceFor(m) == IF deviceOf[m] = 0 THEN next ELSE deviceOf[m]

Track(m, d) ==
    IF deviceOf[m] = 0
    THEN /\ deviceOf' = [deviceOf EXCEPT ![m] = d] /\ next' = next + 1
         /\ macs' = [macs EXCEPT ![d] = {m}]
    ELSE UNCHANGED identity

(* update(mac, prediction) *)
Update(m, z) ==
    LET d == DeviceFor(m)
    IN /\ d \in Devices
       /\ Track(m, d)
       /\ Transition(d, z)
       /\ observed' = [observed EXCEPT ![d] = Appended(@, z)]
       /\ recent' = [recent EXCEPT ![d] = TRUE] /\ active' = [active EXCEPT ![d] = TRUE]

LinkOnly(old, new) ==                                           \* mutant
    /\ deviceOf[old] # 0
    /\ deviceOf' = [deviceOf EXCEPT ![new] = deviceOf[old]]
    /\ UNCHANGED <<next, macs, movement, recent, active>>

(* link_mac(old_mac, new_mac): a device that new_mac had is not merged, and
   is left without a MAC that leads to it. *)
LinkMac(old, new) ==
    /\ deviceOf[old] # 0
    /\ deviceOf' = [deviceOf EXCEPT ![new] = deviceOf[old]]
    /\ macs' = [macs EXCEPT ![deviceOf[old]] = @ \cup {new}]
    /\ UNCHANGED <<next, movement, recent, active>>

(* A minute passes without an update of d. *)
Age(d) ==
    /\ recent[d]
    /\ recent' = [recent EXCEPT ![d] = FALSE]
    /\ UNCHANGED <<movement, identity, active>>

(* get_active_tracks() marks who was not seen, and only it does. *)
GetActiveTracks ==
    /\ active' = [d \in Devices |-> d < next /\ recent[d]]
    /\ UNCHANGED <<movement, identity, recent>>

TrackerNext ==
    \/ \E m \in Macs, z \in Predictions : Update(m, z)
    \/ \E old, new \in Macs : LinkMac(old, new)
    \/ \E d \in Devices : Age(d)
    \/ GetActiveTracks

TrackerSpec == TrackerInit /\ [][TrackerNext]_trackerVars

-----------------------------------------------------------------------------
(* The values the variables take. *)
TrackerTypeOK ==
    /\ deviceOf \in [Macs -> 0..MaxDevices]
    /\ next \in 1..(MaxDevices + 1)
    /\ zone \in [Devices -> Predictions]
    /\ pending \in [Devices -> Predictions \cup {NoZone}]
    /\ count \in [Devices -> 0..(ConfirmCount - 1)]
    /\ observed \in [Devices -> Seq(Predictions)]
    /\ visits \in [Devices -> Seq(Visits)]
    /\ macs \in [Devices -> SUBSET Macs]
    /\ recent \in [Devices -> BOOLEAN] /\ active \in [Devices -> BOOLEAN]

(* The last n observations of d were all of zone z. *)
LastOf(d, n, z) ==
    /\ n <= Len(observed[d])
    /\ \A i \in (Len(observed[d]) - n + 1)..Len(observed[d]) : observed[d][i] = z

(* "2+ consecutive observations in new zone before committing transition":
   no matter over which of its MACs a device was observed, its zone changes
   from a known one only if the last CONFIRM_COUNT observations, this one
   included, are of the new zone. *)
ConfirmedChange ==
    [][\A d \in Devices : zone'[d] # zone[d] /\ zone[d] # Unknown =>
          LastOf(d, ConfirmCount, zone[d])']_trackerVars

(* What is pending was observed in a row, and is not the current zone. *)
PendingIsRecent ==
    \A d \in Devices :
        /\ LastOf(d, count[d], pending[d])
        /\ count[d] > 0 => pending[d] # zone[d]

(* The history of a device is a path: the last visit is open and where it
   is, every earlier one was left unless it was of "unknown", and no visit
   repeats the zone before it unless that is "unknown". *)
VisitsArePath ==
    \A d \in Devices :
        /\ visits[d] # <<>> => visits[d][Len(visits[d])] = Visit(zone[d])
        /\ \A i \in 1..(Len(visits[d]) - 1) : visits[d][i].zone # Unknown =>
              visits[d][i].left /\ visits[d][i].zone # visits[d][i + 1].zone

(* A MAC leads to a device that knows it, and every device that a
   prediction made is led to by a MAC, or by none because a link took it
   over to a device that lists it now. *)
MacsLeadToTracks ==
    /\ \A m \in Macs : deviceOf[m] # 0 => deviceOf[m] < next /\ m \in macs[deviceOf[m]]
    /\ \A d \in 1..(next - 1) :
          macs[d] # {} /\ \A m \in macs[d] : deviceOf[m] # 0
=============================================================================
