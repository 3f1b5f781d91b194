-------------------------------- MODULE Uri --------------------------------
(***************************************************************************)
(* The trunk's endpoints, as the socket layer reads them from the          *)
(* configuration: parse_protocol_host_port and dns2ipaddr.  A URI is a     *)
(* record: the scheme it begins with, what stands before the last colon    *)
(* and the number after it; "" is a URI without a colon, or with nothing   *)
(* in front of it.                                                         *)
(***************************************************************************)
EXTENDS Integers

CONSTANTS
  Uris,      \* the URIs a configuration may have
  Resolve    \* what the resolver answers: a family or "invalid", for a host

ASSUME UriAssumption ==
  \A u \in Uris : u.host = "" \/ Resolve[u.host] \in {"inet", "inet6", "invalid"}

\* Mutant of parse_protocol_host_port: the host is not looked at.
parse_protocol_any_host(u) ==
  CASE u.scheme = "UDP/" -> "udp" [] u.scheme = "TCP/" -> "tcp" [] OTHER -> "none"

parse_protocol_host_port(u) ==
  CASE u.scheme = "UDP/" /\ u.host # "" -> "udp"
    [] u.scheme = "TCP/" /\ u.host # "" -> "tcp"
    [] OTHER                            -> "none"

\* The address has the port 0: getaddrinfo is not given one, and the number in
\* the URI is kept in node_cfg.port, which nothing reads.
dns2ipaddr(u) == [family |-> Resolve[u.host], port |-> 0]

=============================================================================
