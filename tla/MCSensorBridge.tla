-------------------------- MODULE MCSensorBridge --------------------------
(* Small instances of SensorBridge for TLC. *)
EXTENDS SensorBridge
=============================================================================
