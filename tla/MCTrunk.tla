------------------------------ MODULE MCTrunk ------------------------------
(* Instance of Trunk for TLC: URIs of every kind parse_protocol_host_port  *)
(* and dns2ipaddr tell apart.                                              *)
EXTENDS Trunk

MCUris ==
  {[scheme |-> "TCP/", host |-> "localhost", port |-> 2727],
   [scheme |-> "TCP/", host |-> "nowhere", port |-> 2727],
   [scheme |-> "TCP/", host |-> "", port |-> 0],
   [scheme |-> "UDP/", host |-> "localhost", port |-> 2727],
   [scheme |-> "", host |-> "localhost", port |-> 2727]}

MCResolve == [localhost |-> "inet", nowhere |-> "invalid"]

=============================================================================
