-------------------------- MODULE MCDashboardFile -------------------------
(* Small instances of DashboardFile for TLC. *)
EXTENDS DashboardFile

(* Two that lock beside one that does not; the in-place writer and the live
   bridge beside one that locks; the merger beside two that do not lock. *)
Three == {{"esp32", "ble", "router"}, {"esp32", "s2", "pine"}, {"s2", "merge"}}
=============================================================================
