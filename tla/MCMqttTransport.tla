-------------------------- MODULE MCMqttTransport --------------------------
(* Small instances of MqttTransport for TLC. *)
EXTENDS MqttTransport, TLC

(* Windows only differ by identity, and so do callers and closers. *)
WindowSymmetry == Permutations(Windows) \cup Permutations(Callers) \cup Permutations(Closers)
=============================================================================
