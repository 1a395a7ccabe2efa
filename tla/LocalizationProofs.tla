------------------------- MODULE LocalizationProofs -------------------------
(***************************************************************************)
(* Proofs about Localization and its MovementTracker, for any MACs, zones, *)
(* sensors, CONFIRM_COUNT, sizes of the histories and bounds.              *)
(*                                                                         *)
(* PendingIsRecent is inductive only together with UnknownIsFresh: the     *)
(* first known zone is taken without touching what is pending, which is    *)
(* sound because nothing can be pending while the zone is "unknown".       *)
(***************************************************************************)
EXTENDS Localization, FiniteSetTheorems, TLAPS

(* Nothing is pending for a device whose zone is unknown. *)
UnknownIsFresh == \A d \in Devices : zone[d] = Unknown => count[d] = 0 /\ pending[d] = NoZone

(* A zone is known only from a trained classifier. *)
KnownMeansTrained == (\E d \in Devices : zone[d] # Unknown) => trained

IInv == Inv /\ UnknownIsFresh /\ KnownMeansTrained /\ VisitsArePath

USE ZonesAssumption, CountsAssumption

-----------------------------------------------------------------------------
(* Facts about the operators. *)

LEMMA AppendedFacts ==
    ASSUME NEW obs \in Seq(Predictions), NEW z \in Predictions
    PROVE  LET new == Appended(obs, z)
           IN /\ new \in Seq(Predictions)
              /\ Len(new) \in Nat /\ Len(new) > 0 /\ new[Len(new)] = z
              /\ \A n \in Nat :
                    /\ n <= Len(obs) /\ n < MaxObservations
                    /\ \A i \in (Len(obs) - n + 1)..Len(obs) : obs[i] = z
                    => /\ n + 1 <= Len(new)
                       /\ \A i \in (Len(new) - (n + 1) + 1)..Len(new) : new[i] = z
  <1>1. CASE Len(obs) < MaxObservations
    <2>1. Appended(obs, z) = Append(obs, z)
      BY <1>1 DEF Appended
    <2> QED
      BY <2>1
  <1>2. CASE ~(Len(obs) < MaxObservations)
    <2>1. Appended(obs, z) = Append(Tail(obs), z)
      BY <1>2 DEF Appended
    <2>2. Len(obs) \in Nat /\ Len(obs) > 1 /\ obs # <<>>
      BY <1>2
    <2>3. /\ Tail(obs) \in Seq(Predictions) /\ Len(Tail(obs)) = Len(obs) - 1
          /\ \A i \in 1..(Len(obs) - 1) : Tail(obs)[i] = obs[i + 1]
      BY <2>2
    <2> DEFINE new == Append(Tail(obs), z)
    <2>4. /\ new \in Seq(Predictions) /\ Len(new) = Len(obs) /\ new[Len(obs)] = z
          /\ \A i \in 1..(Len(obs) - 1) : new[i] = obs[i + 1]
      BY <2>2, <2>3
    <2> HIDE DEF new
    <2>5. ASSUME NEW n \in Nat, n <= Len(obs), n < MaxObservations,
                 \A i \in (Len(obs) - n + 1)..Len(obs) : obs[i] = z,
                 NEW i \in (Len(new) - (n + 1) + 1)..Len(new)
          PROVE  n + 1 <= Len(new) /\ new[i] = z
      <3>1. n + 1 <= Len(new)
        BY <1>2, <2>2, <2>4, <2>5
      <3>2. CASE i = Len(obs)
        BY <2>4, <3>1, <3>2
      <3>3. CASE i # Len(obs)
        <4>1. i \in 1..(Len(obs) - 1) /\ i + 1 \in (Len(obs) - n + 1)..Len(obs)
          BY <2>2, <2>4, <2>5, <3>1, <3>3
        <4> QED
          BY <2>4, <2>5, <3>1, <4>1
      <3> QED
        BY <3>2, <3>3
    <2>6. ASSUME NEW n \in Nat, n <= Len(obs), n < MaxObservations
          PROVE  n + 1 <= Len(new)
      BY <1>2, <2>2, <2>4, <2>6
    <2>7. Appended(obs, z) = new
      BY <2>1 DEF new
    <2> QED
      BY <2>2, <2>4, <2>5, <2>6, <2>7
  <1> QED
    BY <1>1, <1>2

-----------------------------------------------------------------------------
(* The transition of one device. *)

TypesOf(d) ==
    /\ zone[d] \in Predictions /\ pending[d] \in Predictions \cup {NoZone}
    /\ count[d] \in 0..(ConfirmCount - 1) /\ observed[d] \in Seq(Predictions)
    /\ visits[d] \in Seq(Visits)

LEMMA TypeGivesTypesOf == TrackerTypeOK => \A d \in Devices : TypesOf(d)
  BY DEF TrackerTypeOK, TypesOf

LEMMA TransitionType ==
    ASSUME TrackerTypeOK, NEW d \in Devices, NEW z \in Predictions, Transition(d, z)
    PROVE  /\ zone' \in [Devices -> Predictions]
           /\ pending' \in [Devices -> Predictions \cup {NoZone}]
           /\ count' \in [Devices -> 0..(ConfirmCount - 1)]
           /\ visits' \in [Devices -> Seq(Visits)]
           /\ \A e \in Devices \ {d} :
                 /\ zone'[e] = zone[e] /\ pending'[e] = pending[e]
                 /\ count'[e] = count[e] /\ visits'[e] = visits[e]
  <1>1. Visit(z) \in Visits
    BY DEF Visit, Visits
  <1>2. visits[d] \in Seq(Visits)
    BY DEF TrackerTypeOK
  <1>3. Left(visits[d]) \in Seq(Visits)
    <2>1. CASE visits[d] = <<>>
      BY <2>1, <1>2 DEF Left
    <2>2. CASE visits[d] # <<>>
      <3>1. Len(visits[d]) \in 1..Len(visits[d])
        BY <2>2, <1>2
      <3>2. visits[d][Len(visits[d])] \in Visits
        BY <3>1, <1>2
      <3>3. [zone |-> visits[d][Len(visits[d])].zone, left |-> TRUE] \in Visits
        BY <3>2 DEF Visits
      <3> QED
        BY <2>2, <3>1, <3>3, <1>2 DEF Left
    <2> QED
      BY <2>1, <2>2
  <1>4. CASE FirstZone(d, z)
    BY <1>4, <1>1, <1>2 DEF FirstZone, TrackerTypeOK
  <1>5. CASE SameZone(d, z)
    BY <1>5 DEF SameZone, TrackerTypeOK
  <1>6. CASE NewPending(d, z)
    BY <1>6 DEF NewPending, TrackerTypeOK
  <1>7. CASE Counted(d, z)
    BY <1>7 DEF Counted, TrackerTypeOK
  <1>8. CASE Commit(d, z)
    <2>1. Append(Left(visits[d]), Visit(z)) \in Seq(Visits)
      BY <1>1, <1>3
    <2> QED
      BY <1>8, <2>1 DEF Commit, TrackerTypeOK
  <1> QED
    BY <1>4, <1>5, <1>6, <1>7, <1>8 DEF Transition

LEMMA VisitFacts ==
    ASSUME NEW x
    PROVE  Visit(x).zone = x
  BY DEF Visit

(* What is pending was observed in a row, by one more observation. *)
LEMMA TransitionPending ==
    ASSUME TrackerTypeOK, PendingIsRecent, UnknownIsFresh,
           NEW d \in Devices, NEW z \in Predictions, Transition(d, z),
           observed' = [observed EXCEPT ![d] = Appended(@, z)]
    PROVE  /\ PendingIsRecent' /\ UnknownIsFresh'
           /\ zone'[d] # zone[d] /\ zone[d] # Unknown => LastOf(d, ConfirmCount, zone[d])'
  <1> DEFINE new == Appended(observed[d], z)
  <1>1. TypesOf(d)
    BY TypeGivesTypesOf
  <1>2. /\ observed[d] \in Seq(Predictions) /\ Len(observed[d]) \in Nat
        /\ count[d] \in 0..(ConfirmCount - 1)
    BY <1>1 DEF TypesOf
  <1>3. observed'[d] = new /\ \A e \in Devices \ {d} : observed'[e] = observed[e]
    BY DEF TrackerTypeOK
  <1>4. /\ Len(new) \in Nat /\ Len(new) > 0 /\ new[Len(new)] = z
        /\ \A n \in Nat :
              /\ n <= Len(observed[d]) /\ n < MaxObservations
              /\ \A i \in (Len(observed[d]) - n + 1)..Len(observed[d]) : observed[d][i] = z
              => /\ n + 1 <= Len(new)
                 /\ \A i \in (Len(new) - (n + 1) + 1)..Len(new) : new[i] = z
    BY <1>2, AppendedFacts
  <1> HIDE DEF new
  <1>5. \A e \in Devices \ {d} :
           /\ zone'[e] = zone[e] /\ pending'[e] = pending[e] /\ count'[e] = count[e]
    BY TransitionType
  <1>6. \A e \in Devices \ {d} :
           /\ LastOf(e, count[e], pending[e])'
           /\ count'[e] > 0 => pending'[e] # zone'[e]
           /\ zone'[e] = Unknown => count'[e] = 0 /\ pending'[e] = NoZone
    BY <1>3, <1>5 DEF PendingIsRecent, UnknownIsFresh, LastOf
  <1> DEFINE Last(n, y) ==
        n <= Len(new) /\ \A i \in (Len(new) - n + 1)..Len(new) : new[i] = y
      Goal ==
        /\ Last(count'[d], pending'[d])
        /\ count'[d] > 0 => pending'[d] # zone'[d]
        /\ zone'[d] = Unknown => count'[d] = 0 /\ pending'[d] = NoZone
        /\ zone'[d] # zone[d] /\ zone[d] # Unknown => Last(ConfirmCount, zone'[d])
  <1>7. \A y : Last(0, y)
    BY <1>4
  <1>8. ASSUME z = pending[d]  PROVE  Last(count[d] + 1, z)
    <2>1. /\ count[d] <= Len(observed[d])
          /\ \A i \in (Len(observed[d]) - count[d] + 1)..Len(observed[d]) : observed[d][i] = z
      BY <1>8 DEF PendingIsRecent, LastOf
    <2>2. count[d] \in Nat /\ count[d] < MaxObservations
      BY <1>2
    <2> QED
      BY <1>4, <2>1, <2>2
  <1>9. ASSUME FirstZone(d, z)  PROVE  Goal
    <2>1. zone[d] = Unknown /\ pending'[d] = NoZone /\ count'[d] = 0
      BY <1>9 DEF FirstZone, UnknownIsFresh
    <2> HIDE DEF Last
    <2> QED
      BY <1>7, <2>1
  <1>10. ASSUME SameZone(d, z)  PROVE  Goal
    <2>1. zone'[d] = zone[d] /\ pending'[d] = NoZone /\ count'[d] = 0
      BY <1>10 DEF SameZone, TrackerTypeOK
    <2> HIDE DEF Last
    <2> QED
      BY <1>7, <2>1
  <1>11. ASSUME NewPending(d, z)  PROVE  Goal
    <2>1. /\ zone'[d] = zone[d] /\ zone[d] # Unknown /\ z # zone[d]
          /\ pending'[d] = z /\ count'[d] = 1
      BY <1>11 DEF NewPending, TrackerTypeOK
    <2>2. Last(1, z)
      BY <1>4
    <2> HIDE DEF Last
    <2> QED
      BY <2>1, <2>2
  <1>12. ASSUME Counted(d, z)  PROVE  Goal
    <2>1. /\ zone'[d] = zone[d] /\ zone[d] # Unknown /\ z # zone[d] /\ z = pending[d]
          /\ pending'[d] = z /\ count'[d] = count[d] + 1
      BY <1>12 DEF Counted, TrackerTypeOK
    <2> HIDE DEF Last
    <2> QED
      BY <1>8, <2>1
  <1>13. ASSUME Commit(d, z)  PROVE  Goal
    <2>1. /\ zone'[d] = z /\ zone[d] # Unknown /\ z # zone[d] /\ z = pending[d]
          /\ pending'[d] = NoZone /\ count'[d] = 0 /\ count[d] + 1 >= ConfirmCount
      BY <1>13 DEF Commit, TrackerTypeOK
    <2>2. count[d] \in Int /\ count[d] <= ConfirmCount - 1
      BY <1>2
    <2>3. count[d] + 1 = ConfirmCount
      BY <2>1, <2>2
    <2>4. z # Unknown \/ count'[d] = 0
      BY <2>1
    <2> HIDE DEF Last
    <2>5. Last(ConfirmCount, zone'[d])
      BY <1>8, <2>1, <2>3
    <2> QED
      BY <1>7, <2>1, <2>5
  <1>14. Goal
    BY <1>9, <1>10, <1>11, <1>12, <1>13 DEF Transition
  <1> QED
    BY <1>3, <1>6, <1>14 DEF PendingIsRecent, UnknownIsFresh, LastOf

(* The path goes on from the zone where it is. *)
LEMMA TransitionPath ==
    ASSUME TrackerTypeOK, VisitsArePath,
           NEW d \in Devices, NEW z \in Predictions, Transition(d, z)
    PROVE  VisitsArePath'
  <1> DEFINE Path(h, at) ==
        /\ h # <<>> => h[Len(h)] = Visit(at)
        /\ \A i \in 1..(Len(h) - 1) : h[i].zone # Unknown =>
              h[i].left /\ h[i].zone # h[i + 1].zone
  <1>1. \A e \in Devices : Path(visits[e], zone[e])
    BY DEF VisitsArePath
  <1>2. visits[d] \in Seq(Visits) /\ zone[d] \in Predictions
    BY DEF TrackerTypeOK
  <1>3. Visit(z) \in Visits /\ Visit(z).zone = z
    BY DEF Visit, Visits
  <1>4. \A e \in Devices \ {d} : zone'[e] = zone[e] /\ visits'[e] = visits[e]
    BY TransitionType
  <1>5. CASE FirstZone(d, z)
    <2> DEFINE h == Append(visits[d], Visit(z))
    <2>1. zone[d] = Unknown /\ zone'[d] = z /\ visits'[d] = h
      BY <1>5 DEF FirstZone, TrackerTypeOK
    <2>2. /\ Len(h) = Len(visits[d]) + 1 /\ Len(visits[d]) \in Nat /\ h[Len(h)] = Visit(z)
          /\ \A i \in 1..Len(visits[d]) : h[i] = visits[d][i]
      BY <1>2, <1>3
    <2> HIDE DEF h
    <2>3. visits[d] # <<>> => visits[d][Len(visits[d])].zone = Unknown
      BY <1>1, <2>1, VisitFacts
    <2>4. ASSUME NEW i \in 1..(Len(h) - 1), h[i].zone # Unknown
          PROVE  h[i].left /\ h[i].zone # h[i + 1].zone
      <3>1. i \in 1..Len(visits[d]) /\ visits[d] # <<>>
        BY <2>2, <2>4, <1>2
      <3>2. i # Len(visits[d])
        BY <2>2, <2>3, <2>4, <3>1
      <3>3. i \in 1..(Len(visits[d]) - 1) /\ i + 1 \in 1..Len(visits[d])
        BY <2>2, <3>1, <3>2
      <3> QED
        BY <1>1, <2>2, <2>4, <3>1, <3>3
    <2>5. Path(h, z)
      BY <2>2, <2>4
    <2> QED
      BY <1>1, <1>4, <2>1, <2>5 DEF VisitsArePath
  <1>6. CASE zone'[d] = zone[d] /\ visits'[d] = visits[d]
    BY <1>1, <1>4, <1>6 DEF VisitsArePath
  <1>7. CASE Commit(d, z)
    <2> DEFINE l == Left(visits[d])
               h == Append(l, Visit(z))
    <2>1. z # zone[d] /\ zone'[d] = z /\ visits'[d] = h
      BY <1>7 DEF Commit, TrackerTypeOK
    <2>2. /\ l \in Seq(Visits) /\ Len(l) = Len(visits[d]) /\ Len(l) \in Nat
          /\ \A i \in 1..(Len(l) - 1) : l[i] = visits[d][i]
          /\ Len(l) > 0 => l[Len(l)].zone = zone[d] /\ l[Len(l)].left
      <3>1. CASE visits[d] = <<>>
        BY <1>2, <3>1 DEF Left
      <3>2. CASE visits[d] # <<>>
        <4>1. Len(visits[d]) \in 1..Len(visits[d]) /\ visits[d][Len(visits[d])] = Visit(zone[d])
          BY <1>1, <1>2, <3>2
        <4>2. [zone |-> zone[d], left |-> TRUE] \in Visits
          BY <1>2 DEF Visits
        <4>3. l = [visits[d] EXCEPT ![Len(visits[d])] = [zone |-> zone[d], left |-> TRUE]]
          BY <3>2, <4>1, VisitFacts DEF Left
        <4> HIDE DEF l
        <4> QED
          BY <1>2, <4>1, <4>2, <4>3
      <3> QED
        BY <3>1, <3>2
    <2> HIDE DEF l
    <2>3. /\ Len(h) = Len(l) + 1 /\ h[Len(h)] = Visit(z)
          /\ \A i \in 1..Len(l) : h[i] = l[i]
      BY <1>3, <2>2
    <2> HIDE DEF h
    <2>4. ASSUME NEW i \in 1..(Len(h) - 1), h[i].zone # Unknown
          PROVE  h[i].left /\ h[i].zone # h[i + 1].zone
      <3>1. CASE i = Len(l)
        BY <1>3, <2>1, <2>2, <2>3, <3>1
      <3>2. CASE i # Len(l)
        <4>1. i \in 1..(Len(l) - 1) /\ i \in 1..Len(l) /\ i + 1 \in 1..Len(l)
          BY <2>2, <2>3, <2>4, <3>2
        <4>2. h[i] = visits[d][i] /\ h[i + 1] = l[i + 1] /\ i \in 1..(Len(visits[d]) - 1)
          BY <2>2, <2>3, <4>1
        <4>3. h[i].left /\ visits[d][i].zone # visits[d][i + 1].zone
          BY <1>1, <2>4, <4>2
        <4>4. l[i + 1].zone = visits[d][i + 1].zone
          <5>1. CASE i + 1 = Len(l)
            <6>1. visits[d] # <<>> /\ visits[d][Len(visits[d])] = Visit(zone[d])
              BY <1>1, <1>2, <2>2, <4>1
            <6> QED
              BY <2>2, <5>1, <6>1 DEF Visit
          <5>2. CASE i + 1 # Len(l)
            BY <2>2, <4>1, <5>2
          <5> QED
            BY <5>1, <5>2
        <4> QED
          BY <4>2, <4>3, <4>4
      <3> QED
        BY <3>1, <3>2
    <2>5. Path(h, z)
      BY <2>3, <2>4
    <2> QED
      BY <1>1, <1>4, <2>1, <2>5 DEF VisitsArePath
  <1>8. SameZone(d, z) \/ NewPending(d, z) \/ Counted(d, z)
           => zone'[d] = zone[d] /\ visits'[d] = visits[d]
    BY DEF SameZone, NewPending, Counted
  <1> QED
    BY <1>5, <1>6, <1>7, <1>8 DEF Transition

-----------------------------------------------------------------------------
(* The operations of the tracker. *)

TrackerInv == TrackerTypeOK /\ PendingIsRecent /\ UnknownIsFresh /\ MacsLeadToTracks
              /\ VisitsArePath

LEMMA UpdateKeeps ==
    ASSUME TrackerInv, NEW m \in Macs, NEW z \in Predictions, Update(m, z)
    PROVE  /\ TrackerInv'
           /\ \A d \in Devices : zone'[d] # zone[d] /\ zone[d] # Unknown =>
                 LastOf(d, ConfirmCount, zone[d])'
  <1>1. PICK d \in Devices :
          /\ d = DeviceFor(m) /\ Track(m, d) /\ Transition(d, z)
          /\ observed' = [observed EXCEPT ![d] = Appended(@, z)]
          /\ recent' = [recent EXCEPT ![d] = TRUE] /\ active' = [active EXCEPT ![d] = TRUE]
    BY DEF Update
  <1>2. d = IF deviceOf[m] = 0 THEN next ELSE deviceOf[m]
    BY <1>1 DEF DeviceFor
  <1>3. TrackerTypeOK
    BY DEF TrackerInv
  <1>4. observed' \in [Devices -> Seq(Predictions)]
    <2>1. Appended(observed[d], z) \in Seq(Predictions)
      BY <1>1, <1>3, AppendedFacts DEF TrackerTypeOK
    <2> QED
      BY <1>1, <1>3, <2>1 DEF TrackerTypeOK
  <1>5. /\ zone' \in [Devices -> Predictions]
        /\ pending' \in [Devices -> Predictions \cup {NoZone}]
        /\ count' \in [Devices -> 0..(ConfirmCount - 1)]
        /\ visits' \in [Devices -> Seq(Visits)]
    BY <1>1, <1>3, TransitionType
  <1>6. /\ deviceOf' \in [Macs -> 0..MaxDevices] /\ next' \in 1..(MaxDevices + 1)
        /\ macs' \in [Devices -> SUBSET Macs]
    <2>1. CASE deviceOf[m] = 0
      <3>1. /\ deviceOf' = [deviceOf EXCEPT ![m] = d] /\ next' = next + 1 /\ d = next
            /\ macs' = [macs EXCEPT ![d] = {m}]
        BY <1>1, <1>2, <2>1 DEF Track
      <3>2. /\ deviceOf \in [Macs -> 0..MaxDevices] /\ macs \in [Devices -> SUBSET Macs]
            /\ next \in 1..(MaxDevices + 1) /\ d \in 1..MaxDevices
        BY <1>3 DEF TrackerTypeOK, Devices
      <3>3. next' \in 1..(MaxDevices + 1) /\ d \in 0..MaxDevices
        BY <3>1, <3>2
      <3> QED
        BY <3>1, <3>2, <3>3
    <2>2. CASE deviceOf[m] # 0
      BY <1>1, <1>3, <2>2 DEF TrackerTypeOK, Track, identity
    <2> QED
      BY <2>1, <2>2
  <1>13. recent' \in [Devices -> BOOLEAN] /\ active' \in [Devices -> BOOLEAN]
    BY <1>1, <1>3 DEF TrackerTypeOK
  <1>7. TrackerTypeOK'
    BY <1>4, <1>5, <1>6, <1>13 DEF TrackerTypeOK
  <1>8. MacsLeadToTracks'
    <2>1. CASE deviceOf[m] = 0
      <3>1. /\ deviceOf' = [deviceOf EXCEPT ![m] = d] /\ next' = next + 1 /\ d = next
            /\ macs' = [macs EXCEPT ![d] = {m}]
        BY <1>1, <1>2, <2>1 DEF Track
      <3>2. /\ deviceOf \in [Macs -> 0..MaxDevices] /\ macs \in [Devices -> SUBSET Macs]
            /\ next \in 1..(MaxDevices + 1) /\ d \in 1..MaxDevices /\ MacsLeadToTracks
        BY <1>3 DEF TrackerInv, TrackerTypeOK, Devices
      <3>3. \A k \in Macs : deviceOf'[k] # 0 => deviceOf'[k] < next' /\ k \in macs'[deviceOf'[k]]
        <4> SUFFICES ASSUME NEW k \in Macs, deviceOf'[k] # 0
                     PROVE  deviceOf'[k] < next' /\ k \in macs'[deviceOf'[k]]
          OBVIOUS
        <4>1. CASE k = m
          BY <3>1, <3>2, <4>1 DEF Devices
        <4>2. CASE k # m
          <5>1. /\ deviceOf'[k] = deviceOf[k] /\ deviceOf[k] \in 1..MaxDevices
                /\ deviceOf[k] < next /\ k \in macs[deviceOf[k]]
            BY <3>1, <3>2, <4>2 DEF MacsLeadToTracks
          <5>2. macs'[deviceOf[k]] = macs[deviceOf[k]]
            BY <3>1, <3>2, <5>1 DEF Devices
          <5> QED
            BY <3>1, <3>2, <5>1, <5>2
        <4> QED
          BY <4>1, <4>2
      <3>4. \A e \in 1..(next' - 1) : macs'[e] # {} /\ \A k \in macs'[e] : deviceOf'[k] # 0
        <4> SUFFICES ASSUME NEW e \in 1..next
                     PROVE  macs'[e] # {} /\ \A k \in macs'[e] : deviceOf'[k] # 0
          BY <3>1, <3>2
        <4>1. CASE e = next
          BY <3>1, <3>2, <4>1 DEF Devices
        <4>2. CASE e # next
          <5>1. e \in 1..(next - 1) /\ e \in Devices /\ macs'[e] = macs[e]
            BY <3>1, <3>2, <4>2 DEF Devices
          <5>2. \A k \in macs[e] : k \in Macs /\ deviceOf[k] # 0
            BY <3>2, <5>1 DEF MacsLeadToTracks
          <5>3. \A k \in Macs : deviceOf[k] # 0 => deviceOf'[k] # 0
            BY <3>1, <3>2
          <5> QED
            BY <3>2, <5>1, <5>2, <5>3 DEF MacsLeadToTracks
        <4> QED
          BY <4>1, <4>2
      <3> QED
        BY <3>3, <3>4 DEF MacsLeadToTracks
    <2>2. CASE deviceOf[m] # 0
      BY <1>1, <2>2 DEF Track, identity, TrackerInv, MacsLeadToTracks
    <2> QED
      BY <2>1, <2>2
  <1>9. VisitsArePath'
    BY <1>1, TransitionPath DEF TrackerInv
  <1>10. /\ PendingIsRecent' /\ UnknownIsFresh'
         /\ zone'[d] # zone[d] /\ zone[d] # Unknown => LastOf(d, ConfirmCount, zone[d])'
    BY <1>1, TransitionPending DEF TrackerInv
  <1>11. \A e \in Devices \ {d} : zone'[e] = zone[e]
    BY <1>1, <1>3, TransitionType
  <1>12. \A e \in Devices : zone'[e] # zone[e] /\ zone[e] # Unknown =>
            LastOf(e, ConfirmCount, zone[e])'
    BY <1>10, <1>11
  <1> QED
    BY <1>7, <1>8, <1>9, <1>10, <1>12 DEF TrackerInv

(* Everything else leaves the movements alone. *)
LEMMA MovementUnchanged ==
    ASSUME TrackerInv, UNCHANGED movement
    PROVE  /\ PendingIsRecent' /\ UnknownIsFresh' /\ VisitsArePath'
           /\ zone' = zone
  BY DEF TrackerInv, movement, PendingIsRecent, UnknownIsFresh, VisitsArePath, LastOf

LEMMA LinkKeeps ==
    ASSUME TrackerInv, NEW old \in Macs, NEW new \in Macs, LinkMac(old, new)
    PROVE  TrackerInv' /\ zone' = zone
  <1> USE DEF LinkMac
  <1>1. TrackerTypeOK /\ MacsLeadToTracks /\ deviceOf[old] \in Devices
    BY DEF TrackerInv, TrackerTypeOK, Devices
  <1>2. TrackerTypeOK'
    <2>1. deviceOf' \in [Macs -> 0..MaxDevices] /\ macs' \in [Devices -> SUBSET Macs]
      BY <1>1 DEF TrackerTypeOK
    <2> QED
      BY <1>1, <2>1 DEF TrackerTypeOK, movement
  <1>3. MacsLeadToTracks'
    <2>1. /\ deviceOf \in [Macs -> 0..MaxDevices] /\ macs \in [Devices -> SUBSET Macs]
          /\ next' = next /\ deviceOf' = [deviceOf EXCEPT ![new] = deviceOf[old]]
          /\ macs' = [macs EXCEPT ![deviceOf[old]] = @ \cup {new}] /\ deviceOf[old] # 0
      BY <1>1 DEF TrackerTypeOK
    <2>2. \A d \in Devices : macs[d] \subseteq macs'[d] /\ macs'[d] \subseteq macs[d] \cup {new}
      BY <1>1, <2>1
    <2>3. \A m \in Macs : deviceOf'[m] # 0 =>
             deviceOf'[m] \in Devices /\ deviceOf'[m] < next /\ m \in macs'[deviceOf'[m]]
      BY <1>1, <2>1, <2>2 DEF MacsLeadToTracks, Devices
    <2>4. ASSUME NEW d \in 1..(next - 1)
          PROVE  macs'[d] # {} /\ \A m \in macs'[d] : deviceOf'[m] # 0
      <3>1. d \in Devices
        BY <1>1, <2>4 DEF TrackerTypeOK, Devices
      <3> QED
        BY <1>1, <2>1, <2>2, <3>1 DEF MacsLeadToTracks
    <2> QED
      BY <2>1, <2>3, <2>4 DEF MacsLeadToTracks
  <1> QED
    BY <1>2, <1>3, MovementUnchanged DEF TrackerInv

LEMMA TimeKeeps ==
    ASSUME TrackerInv, (\E d \in Devices : Age(d)) \/ GetActiveTracks
    PROVE  TrackerInv' /\ zone' = zone
  <1>1. UNCHANGED <<movement, identity>>
    BY DEF Age, GetActiveTracks
  <1>2. TrackerTypeOK'
    <2>1. recent' \in [Devices -> BOOLEAN] /\ active' \in [Devices -> BOOLEAN]
      BY DEF Age, GetActiveTracks, TrackerInv, TrackerTypeOK
    <2> QED
      BY <1>1, <2>1 DEF TrackerInv, TrackerTypeOK, movement, identity
  <1>3. MacsLeadToTracks'
    BY <1>1 DEF TrackerInv, MacsLeadToTracks, identity
  <1> QED
    BY <1>1, <1>2, <1>3, MovementUnchanged DEF TrackerInv

LEMMA TrackerUnchanged ==
    ASSUME TrackerInv, UNCHANGED trackerVars
    PROVE  TrackerInv' /\ zone' = zone
  <1>1. TrackerTypeOK' /\ MacsLeadToTracks'
    BY DEF TrackerInv, trackerVars, movement, identity, TrackerTypeOK, MacsLeadToTracks
  <1> QED
    BY <1>1, MovementUnchanged DEF TrackerInv, trackerVars

LEMMA TrackerStarts == TrackerInit => TrackerInv
  <1> SUFFICES ASSUME TrackerInit  PROVE  TrackerInv
    OBVIOUS
  <1> USE DEF TrackerInit
  <1>1. TrackerTypeOK
    <2>1. <<>> \in Seq(Predictions) /\ <<>> \in Seq(Visits)
      OBVIOUS
    <2> QED
      BY <2>1 DEF TrackerTypeOK, Predictions
  <1>2. PendingIsRecent /\ UnknownIsFresh
    BY DEF PendingIsRecent, UnknownIsFresh, LastOf
  <1>3. MacsLeadToTracks
    BY DEF MacsLeadToTracks
  <1>4. VisitsArePath
    <2>1. \A d \in Devices : visits[d] = <<>> /\ Len(visits[d]) = 0
      OBVIOUS
    <2> QED
      BY <2>1 DEF VisitsArePath
  <1> QED
    BY <1>1, <1>2, <1>3, <1>4 DEF TrackerInv

-----------------------------------------------------------------------------
(* The collector and the classifier. *)

LEMMA Starts == Init => IInv
  <1> SUFFICES ASSUME Init  PROVE  IInv
    OBVIOUS
  <1>1. TrackerInv
    BY TrackerStarts DEF Init
  <1>2. TypeOK /\ ClassifiedWereSeen
    <2>1. MaxHistory \in Nat /\ MaxUpdates \in Nat /\ MaxLinks \in Nat
      BY SensorsAssumption
    <2>2. history \in [Macs -> [Sensors -> 0..MaxHistory]] /\ readings \in [Macs -> SUBSET Sensors]
      BY <2>1 DEF Init
    <2>3. updates \in 0..MaxUpdates /\ links \in 0..MaxLinks /\ fingerprints = {}
      BY <2>1 DEF Init
    <2>4. trained \in BOOLEAN
      BY Zenon DEF Init
    <2> QED
      BY <1>1, <2>2, <2>3, <2>4 DEF TrackerInv, TypeOK, ClassifiedWereSeen
  <1>3. KnownMeansTrained
    BY DEF Init, TrackerInit, KnownMeansTrained
  <1> QED
    BY <1>1, <1>2, <1>3 DEF IInv, Inv, TrackerInv

LEMMA IInvGivesTrackerInv == IInv => TrackerInv
  BY DEF IInv, Inv, TypeOK, TrackerInv

(* Only a classification touches a movement. *)
LEMMA OthersKeep ==
    ASSUME IInv, TrackerInv', zone' = zone, trained => trained',
           readings' \in [Macs -> SUBSET Sensors], UNCHANGED <<history, fingerprints>>,
           trained' \in BOOLEAN, updates' \in 0..MaxUpdates, links' \in 0..MaxLinks
    PROVE  IInv'
  <1>1. TypeOK' /\ ClassifiedWereSeen'
    BY DEF IInv, Inv, TypeOK, TrackerInv, ClassifiedWereSeen
  <1>2. KnownMeansTrained'
    BY DEF IInv, KnownMeansTrained
  <1> QED
    BY <1>1, <1>2 DEF IInv, Inv, TrackerInv

LEMMA FlushKeeps == IInv /\ Flush => IInv'
  <1> SUFFICES ASSUME IInv, Flush  PROVE  IInv'
    OBVIOUS
  <1>1. /\ readings \in [Macs -> SUBSET Sensors] /\ history \in [Macs -> [Sensors -> 0..MaxHistory]]
        /\ UNCHANGED <<trackerVars, trained, updates, links>>
    BY DEF IInv, Inv, TypeOK, Flush
  <1>2. TrackerInv' /\ zone' = zone
    BY <1>1, IInvGivesTrackerInv, TrackerUnchanged
  <1>3. /\ fingerprints' = Emitted
        /\ readings' = [m \in Macs |-> {}]
        /\ history' = [m \in Macs |-> [s \in Sensors |->
                IF m \in Emitted /\ s \in readings[m] /\ history[m][s] < MaxHistory
                THEN history[m][s] + 1 ELSE history[m][s]]]
    BY DEF Flush
  <1>4. /\ history' \in [Macs -> [Sensors -> 0..MaxHistory]]
        /\ \A m \in Emitted : \A s \in readings[m] : history'[m][s] > 0
    <2> SUFFICES ASSUME NEW m \in Macs, NEW s \in Sensors
                 PROVE  /\ history'[m][s] \in 0..MaxHistory
                        /\ m \in Emitted /\ s \in readings[m] => history'[m][s] > 0
      BY <1>1, <1>3 DEF Emitted
    <2>1. /\ history[m][s] \in 0..MaxHistory
          /\ history'[m][s] = IF m \in Emitted /\ s \in readings[m] /\ history[m][s] < MaxHistory
                              THEN history[m][s] + 1 ELSE history[m][s]
      BY <1>1, <1>3
    <2> QED
      BY <2>1, SensorsAssumption
  <1>5. ClassifiedWereSeen'
    <2> SUFFICES ASSUME NEW m \in Emitted
                 PROVE  Cardinality({s \in Sensors : history'[m][s] > 0}) >= MinSensors
      BY <1>3 DEF ClassifiedWereSeen
    <2> DEFINE seen == {s \in Sensors : history'[m][s] > 0}
    <2>1. readings[m] \subseteq seen
      BY <1>1, <1>4 DEF Emitted
    <2>2. IsFiniteSet(seen)
      BY FS_Subset, SensorsAssumption
    <2>3. Cardinality(readings[m]) <= Cardinality(seen) /\ IsFiniteSet(readings[m])
      BY <2>1, <2>2, FS_Subset
    <2>4. Cardinality(readings[m]) >= MinSensors
      BY DEF Emitted
    <2>5. Cardinality(readings[m]) \in Nat /\ Cardinality(seen) \in Nat
      BY <2>2, <2>3, FS_CardinalityType
    <2> HIDE DEF seen
    <2> QED
      BY <2>3, <2>4, <2>5, SensorsAssumption DEF seen
  <1>6. TypeOK'
    BY <1>1, <1>2, <1>3, <1>4 DEF TypeOK, IInv, Inv, TrackerInv, Emitted
  <1>7. KnownMeansTrained'
    BY <1>1, <1>2 DEF IInv, KnownMeansTrained
  <1> QED
    BY <1>2, <1>5, <1>6, <1>7 DEF IInv, Inv, TrackerInv

LEMMA PredictedFacts == Predicted \subseteq Predictions /\ (~trained => Predicted = {Unknown})
  BY DEF Predicted, Predictions

LEMMA ClassifyKeeps ==
    ASSUME IInv, NEW m \in Macs, Classify(m)
    PROVE  /\ IInv'
           /\ \A d \in Devices : zone'[d] # zone[d] /\ zone[d] # Unknown =>
                 LastOf(d, ConfirmCount, zone[d])'
           /\ \A d \in Devices : zone[d] # Unknown => zone'[d] # Unknown
  <1>1. PICK z \in Predicted : Update(m, z)
    BY DEF Classify
  <1>2. z \in Predictions
    BY <1>1, PredictedFacts
  <1>3. /\ TrackerInv'
        /\ \A d \in Devices : zone'[d] # zone[d] /\ zone[d] # Unknown =>
              LastOf(d, ConfirmCount, zone[d])'
    BY <1>1, <1>2, UpdateKeeps, IInvGivesTrackerInv
  <1>4. /\ fingerprints' = fingerprints \ {m} /\ updates' = updates + 1
        /\ updates < MaxUpdates /\ UNCHANGED <<readings, history, trained, links>>
    BY DEF Classify, collector
  <1>5. TypeOK' /\ ClassifiedWereSeen'
    BY <1>3, <1>4, SensorsAssumption DEF IInv, Inv, TypeOK, TrackerInv, ClassifiedWereSeen
  <1>6. KnownMeansTrained'
    <2> SUFFICES ASSUME ~trained  PROVE  \A d \in Devices : zone'[d] = Unknown
      BY <1>4 DEF KnownMeansTrained
    <2>1. z = Unknown /\ \A d \in Devices : zone[d] = Unknown
      BY <1>1, PredictedFacts DEF IInv, KnownMeansTrained
    <2>2. PICK d \in Devices : Transition(d, z)
      BY <1>1 DEF Update
    <2>3. FirstZone(d, z) \/ UNCHANGED zone
      BY <2>1, <2>2 DEF Transition, SameZone, NewPending, Counted, Commit
    <2> QED
      BY <2>1, <2>3 DEF FirstZone, IInv, Inv, TypeOK, TrackerTypeOK
  <1>7. \A d \in Devices : zone[d] # Unknown => zone'[d] # Unknown
    <2> SUFFICES ASSUME trained  PROVE  \A d \in Devices : zone[d] # Unknown => zone'[d] # Unknown
      BY DEF IInv, KnownMeansTrained
    <2>1. z # Unknown
      BY <1>1 DEF Predicted
    <2>2. PICK d \in Devices : Transition(d, z)
      BY <1>1 DEF Update
    <2>3. zone' = [zone EXCEPT ![d] = z] \/ UNCHANGED zone
      BY <2>2 DEF Transition, FirstZone, SameZone, NewPending, Counted, Commit
    <2> QED
      BY <2>1, <2>3 DEF IInv, Inv, TypeOK, TrackerTypeOK
  <1> QED
    BY <1>3, <1>5, <1>6, <1>7 DEF IInv, Inv, TrackerInv

LEMMA NextKeeps ==
    ASSUME IInv, [Next]_vars
    PROVE  /\ IInv'
           /\ \A d \in Devices : zone'[d] # zone[d] /\ zone[d] # Unknown =>
                 LastOf(d, ConfirmCount, zone[d])'
           /\ \A d \in Devices : zone[d] # Unknown => zone'[d] # Unknown
  <1>1. TypeOK /\ TrackerInv
    BY IInvGivesTrackerInv DEF IInv, Inv
  <1>2. ASSUME NEW m \in Macs, NEW s \in Sensors, AddObservation(m, s)
        PROVE  IInv' /\ zone' = zone
    <2>1. readings' \in [Macs -> SUBSET Sensors]
      BY <1>1, <1>2 DEF TypeOK, AddObservation
    <2>2. TrackerInv' /\ zone' = zone
      BY <1>1, <1>2, TrackerUnchanged DEF AddObservation
    <2> QED
      BY <1>1, <1>2, <2>1, <2>2, OthersKeep DEF TypeOK, AddObservation
  <1>3. ASSUME Flush  PROVE  IInv' /\ zone' = zone
    BY <1>3, FlushKeeps DEF Flush, trackerVars, movement
  <1>4. ASSUME Train  PROVE  IInv' /\ zone' = zone
    <2>1. TrackerInv' /\ zone' = zone
      BY <1>1, <1>4, TrackerUnchanged DEF Train
    <2> QED
      BY <1>1, <1>4, <2>1, OthersKeep DEF TypeOK, Train, collector
  <1>5. ASSUME Link  PROVE  IInv' /\ zone' = zone
    <2>1. TrackerInv' /\ zone' = zone
      BY <1>1, <1>5, LinkKeeps DEF Link
    <2>2. links' \in 0..MaxLinks
      BY <1>1, <1>5, SensorsAssumption DEF TypeOK, Link
    <2> QED
      BY <1>1, <1>5, <2>1, <2>2, OthersKeep DEF TypeOK, Link, collector
  <1>6. ASSUME TimeAndQueries  PROVE  IInv' /\ zone' = zone
    <2>1. TrackerInv' /\ zone' = zone
      BY <1>1, <1>6, TimeKeeps DEF TimeAndQueries
    <2> QED
      BY <1>1, <1>6, <2>1, OthersKeep DEF TypeOK, TimeAndQueries, collector
  <1>7. ASSUME UNCHANGED vars  PROVE  IInv' /\ zone' = zone
    <2>1. TrackerInv' /\ zone' = zone
      BY <1>1, <1>7, TrackerUnchanged DEF vars
    <2> QED
      BY <1>1, <1>7, <2>1, OthersKeep DEF TypeOK, vars, collector
  <1> QED
    BY <1>2, <1>3, <1>4, <1>5, <1>6, <1>7, ClassifyKeeps DEF Next

-----------------------------------------------------------------------------
(* Every reachable state satisfies the strengthened invariant. *)
THEOREM Strengthened == Spec => []IInv
  <1>1. IInv /\ [Next]_vars => IInv'
    BY NextKeeps
  <1> QED
    BY <1>1, Starts, PTL DEF Spec

(* FingerprintCollector.flush, MovementTracker.update and link_mac keep the
   types; who is classified was seen by enough sensors, what is pending was
   observed in a row, every MAC leads to a device that lists it. *)
THEOREM TrackingInvariant == Spec => []Inv
  <1>1. IInv => Inv
    BY DEF IInv
  <1> QED
    BY <1>1, Strengthened, PTL

(* The visits of a device are a path, whatever links and predictions come:
   one open visit at the end, where the device is. *)
THEOREM HistoryIsPath == Spec => []VisitsArePath
  <1>1. IInv => VisitsArePath
    BY DEF IInv
  <1> QED
    BY <1>1, Strengthened, PTL

(* update() leaves a known zone only after CONFIRM_COUNT observations in a
   row of the new one. *)
THEOREM ChangesAreConfirmed == Spec => ConfirmedChange
  <1>1. IInv /\ [Next]_vars =>
          [\A d \in Devices : zone'[d] # zone[d] /\ zone[d] # Unknown =>
              LastOf(d, ConfirmCount, zone[d])']_trackerVars
    BY NextKeeps
  <1> QED
    BY <1>1, Strengthened, PTL DEF Spec, ConfirmedChange

(* A device whose zone is known is never without one again: a trained
   classifier does not say "unknown" and is not untrained. *)
THEOREM KnownForGood == Spec => KnownStays
  <1>1. IInv /\ [Next]_vars => [\A d \in Devices : zone[d] # Unknown => zone'[d] # Unknown]_vars
    BY NextKeeps
  <1> QED
    BY <1>1, Strengthened, PTL DEF Spec, KnownStays

(* The collector and the classifier use the tracker as it is meant: what
   they do is predictions, links, time and queries, or no business of its. *)
THEOREM TracksPredictions == Spec => TrackerSpec
  <1>1. Init => TrackerInit
    BY DEF Init
  <1>2. [Next]_vars => [TrackerNext]_trackerVars
    <2>1. ASSUME NEW m \in Macs, Classify(m)  PROVE  TrackerNext
      BY <2>1, PredictedFacts DEF Classify, TrackerNext
    <2>2. Link => TrackerNext
      BY DEF Link, TrackerNext
    <2>3. TimeAndQueries => TrackerNext
      BY DEF TimeAndQueries, TrackerNext
    <2>4. Flush \/ Train \/ (\E m \in Macs, s \in Sensors : AddObservation(m, s))
             => UNCHANGED trackerVars
      BY DEF Flush, Train, AddObservation
    <2>5. UNCHANGED vars => UNCHANGED trackerVars
      BY DEF vars
    <2> QED
      BY <2>1, <2>2, <2>3, <2>4, <2>5 DEF Next
  <1> QED
    BY <1>1, <1>2, PTL DEF Spec, TrackerSpec
=============================================================================
