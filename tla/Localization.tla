---------------------------- MODULE Localization ---------------------------
(***************************************************************************)
(* From the readings of several sensors to tracks: FingerprintCollector    *)
(* (src/src/pipeline/fingerprint_collector.py) makes fingerprints of the   *)
(* MACs that enough sensors saw, ZoneClassifier                            *)
(* (src/ml/models/zone_classifier.py) gives each a zone, MovementTracker   *)
(* follows it.  The repository has no caller that joins the three; it is   *)
(* taken from their documentation: flush(), then predict() and update()    *)
(* for each fingerprint, one after the other.                              *)
(*                                                                         *)
(* A reading from before window_ms is used where a sensor has no other: of *)
(* the readings of a MAC only who has any counts for what flush() returns. *)
(* Of the history of RSSI values the length is kept.                       *)
(* Bounds: MaxUpdates predictions, MaxLinks links.                         *)
(***************************************************************************)
EXTENDS MovementTracker, FiniteSets

CONSTANTS
    Sensors,        \* sensor_ids
    MinSensors,     \* min_sensors
    MaxHistory,     \* max_history
    MaxUpdates, MaxLinks

ASSUME SensorsAssumption ==
    /\ IsFiniteSet(Sensors)
    /\ {MinSensors, MaxHistory, MaxUpdates, MaxLinks} \subseteq Nat
    /\ MaxHistory > 0

VARIABLES
    readings,       \* _pending: MAC |-> the sensors with readings of it
    history,        \* _history: MAC |-> sensor |-> how many values
    fingerprints,   \* MACs with a fingerprint that is still to be classified
    trained,        \* _trained
    updates, links  \* how often each was done

collector == <<readings, history>>
vars == <<trackerVars, collector, fingerprints, trained, updates, links>>

Init ==
    /\ TrackerInit
    /\ readings = [m \in Macs |-> {}]
    /\ history = [m \in Macs |-> [s \in Sensors |-> 0]]
    /\ fingerprints = {}
    /\ trained = FALSE
    /\ updates = 0 /\ links = 0

-----------------------------------------------------------------------------
(* add_observation, and add_observations_bulk with one device. *)
AddObservation(m, s) ==
    /\ s \notin readings[m] /\ updates < MaxUpdates
    /\ readings' = [readings EXCEPT ![m] = @ \cup {s}]
    /\ UNCHANGED <<trackerVars, history, fingerprints, trained, updates, links>>

Emitted == {m \in Macs : Cardinality(readings[m]) >= MinSensors}

(* flush(): MACs that too few sensors saw get nothing, and everything that
   was pending is cleared. *)
Flush ==
    /\ fingerprints = {}
    /\ fingerprints' = Emitted
    /\ history' = [m \in Macs |-> [s \in Sensors |->
                     IF m \in Emitted /\ s \in readings[m] /\ history[m][s] < MaxHistory
                     THEN history[m][s] + 1 ELSE history[m][s]]]
    /\ readings' = [m \in Macs |-> {}]
    /\ UNCHANGED <<trackerVars, trained, updates, links>>

(* ZoneClassifier.train or load. *)
Train ==
    /\ ~trained
    /\ trained' = TRUE
    /\ UNCHANGED <<trackerVars, collector, fingerprints, updates, links>>

(* predict(): the zone of the greatest probability, whatever it is. *)
Predicted == IF trained THEN Zones ELSE {Unknown}

Classify(m) ==
    /\ m \in fingerprints /\ updates < MaxUpdates
    /\ \E z \in Predicted : Update(m, z)
    /\ fingerprints' = fingerprints \ {m}
    /\ updates' = updates + 1
    /\ UNCHANGED <<collector, trained, links>>

Link ==
    /\ links < MaxLinks
    /\ \E old, new \in Macs : old # new /\ LinkMac(old, new)
    /\ links' = links + 1
    /\ UNCHANGED <<collector, fingerprints, trained, updates>>

(* A minute without an update of a device, or somebody asks who is active. *)
TimeAndQueries ==
    /\ (\E d \in Devices : Age(d)) \/ GetActiveTracks
    /\ UNCHANGED <<collector, fingerprints, trained, updates, links>>

Next ==
    \/ \E m \in Macs, s \in Sensors : AddObservation(m, s)
    \/ Flush \/ Train \/ Link \/ TimeAndQueries
    \/ \E m \in Macs : Classify(m)

Spec == Init /\ [][Next]_vars

-----------------------------------------------------------------------------
(* The values the variables take. *)
TypeOK ==
    /\ TrackerTypeOK
    /\ readings \in [Macs -> SUBSET Sensors]
    /\ history \in [Macs -> [Sensors -> 0..MaxHistory]]
    /\ fingerprints \subseteq Macs
    /\ trained \in BOOLEAN /\ updates \in 0..MaxUpdates /\ links \in 0..MaxLinks

(* A MAC is classified only if enough sensors saw it between two flushes:
   of all that are in the history, at least MinSensors. *)
ClassifiedWereSeen ==
    \A m \in fingerprints : Cardinality({s \in Sensors : history[m][s] > 0}) >= MinSensors

(* What the collector hands on was seen, what is pending was observed in a
   row, and every MAC leads to a device that knows it. *)
Inv == TypeOK /\ ClassifiedWereSeen /\ PendingIsRecent /\ MacsLeadToTracks

(* "unknown" is where a track may begin, not where it goes: once its zone
   is known a device is never without one again. *)
KnownStays ==
    [][\A d \in Devices : zone[d] # Unknown => zone'[d] # Unknown]_vars
=============================================================================
