-------------------------- MODULE MCChannelHopper --------------------------
(* Small instances of ChannelHopper for TLC. *)
EXTENDS ChannelHopper

ThreeChannels == <<1, 6, 11>>
=============================================================================
