--------------------------- MODULE MCCaptureAgent ---------------------------
(* Small instances of CaptureAgent for TLC. *)
EXTENDS CaptureAgent
=============================================================================
