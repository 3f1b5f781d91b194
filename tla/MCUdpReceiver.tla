---------------------------- MODULE MCUdpReceiver ----------------------------
(* UdpReceiver with a ring of a few slots, for TLC. *)
EXTENDS UdpReceiver
=============================================================================
