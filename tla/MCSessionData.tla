--------------------------- MODULE MCSessionData ---------------------------
(* Small instances of SessionData for TLC: the relay alone, with a status
   line between two scans; tags beside the scan they take snapshots of, where
   maps can be made and where they cannot; and an app that is switched
   between sessions. *)
EXTENDS SessionData

ThreeLines == <<{"m"}, {}, {"m", "n"}>>

Instances ==
    {[lines |-> 3, tags |-> 0, loads |-> 0, mapper |-> TRUE],
     [lines |-> 1, tags |-> 3, loads |-> 1, mapper |-> TRUE],
     [lines |-> 1, tags |-> 3, loads |-> 1, mapper |-> FALSE],
     [lines |-> 1, tags |-> 1, loads |-> 3, mapper |-> TRUE]}
=============================================================================
