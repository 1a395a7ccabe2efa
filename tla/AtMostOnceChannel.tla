------------------------- MODULE AtMostOnceChannel -------------------------
(***************************************************************************)
(* What the sensor's MQTT transport promises to the code that calls        *)
(* publish(): a lossy, unordered channel.  A window that is accepted is    *)
(* handed on at most once or is lost; a window that is refused is never    *)
(* handed on; nothing is handed on that was not accepted.                  *)
(***************************************************************************)
EXTENDS Sequences

CONSTANT Windows        \* the observation windows callers may publish

VARIABLES
    pending,            \* accepted, not yet handed on
    delivered,          \* handed on, in that order
    gone                \* refused, or accepted and lost

vars == <<pending, delivered, gone>>

DeliveredSet == {delivered[i] : i \in DOMAIN delivered}

Init ==
    /\ pending = {}
    /\ delivered = <<>>
    /\ gone = {}

(* publish() returns True. *)
Accept(w) ==
    /\ w \notin pending \cup DeliveredSet \cup gone
    /\ pending' = pending \cup {w}
    /\ UNCHANGED <<delivered, gone>>

(* publish() returns False. *)
Refuse(w) ==
    /\ w \notin pending \cup DeliveredSet \cup gone
    /\ gone' = gone \cup {w}
    /\ UNCHANGED <<pending, delivered>>

(* The MQTT client takes the window. *)
Deliver(w) ==
    /\ w \in pending
    /\ pending' = pending \ {w}
    /\ delivered' = Append(delivered, w)
    /\ UNCHANGED gone

(* The channel gives up on an accepted window. *)
Lose(w) ==
    /\ w \in pending
    /\ pending' = pending \ {w}
    /\ gone' = gone \cup {w}
    /\ UNCHANGED delivered

Next == \E w \in Windows : Accept(w) \/ Refuse(w) \/ Deliver(w) \/ Lose(w)

Spec == Init /\ [][Next]_vars
=============================================================================
