-------------------------- MODULE MCPreprocessor --------------------------
(* Small instances of Preprocessor for TLC. *)
EXTENDS Preprocessor

Window(s, macs) == [kind |-> "window", session |-> s, macs |-> macs]

(* Two windows of a day that share a device, around a record that cannot be
   decoded, and a window without observations. *)
OneDay ==
    <<Window("monday", {"m", "n"}),
      [kind |-> "malformed", session |-> "monday", macs |-> {}],
      Window("monday", {"m"}),
      [kind |-> "empty", session |-> "monday", macs |-> {}]>>
=============================================================================
