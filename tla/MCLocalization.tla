-------------------------- MODULE MCLocalization --------------------------
(* Small instances of Localization for TLC. *)
EXTENDS Localization
=============================================================================
