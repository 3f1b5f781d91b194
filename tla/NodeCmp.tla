------------------------------ MODULE NodeCmp ------------------------------
(***************************************************************************)
(* How a session tells the nodes of its connection from the others:        *)
(* node_cmp and __vcmp.  A node has a descriptor, a port, a family (as the *)
(* number it is compared as) and the memory of its two addresses.          *)
(***************************************************************************)
EXTENDS Integers, Sequences

AF_INET == 2
AF_INET6 == 10

\* (a > b) - (a < b)
Sign(a, b) == IF a > b THEN 1 ELSE IF a < b THEN -1 ELSE 0

\* The difference of the first bytes that differ.
vcmp(s, t) ==
  LET differ == {i \in DOMAIN s : s[i] # t[i]}
  IN  IF differ = {} THEN 0
      ELSE LET i == CHOOSE i \in differ : \A j \in differ : i <= j IN s[i] - t[i]

\* Where a sockaddr_in and a sockaddr_in6 have the address.  (accept_thread
\* stores it at the begin of the field instead.)
sin_addr(ipv4) == SubSeq(ipv4, 5, 8)
sin6_addr(ipv6) == SubSeq(ipv6, 9, 24)

node_cmp(a, b) ==
  LET fields == <<Sign(a.fd, b.fd), Sign(a.port, b.port), Sign(a.family, b.family)>>
      differ == SelectSeq(fields, LAMBDA x : x # 0)
  IN  IF differ # << >> THEN Head(differ)
      ELSE CASE a.family = AF_INET  -> vcmp(sin_addr(a.ipv4), sin_addr(b.ipv4))
             [] a.family = AF_INET6 -> vcmp(sin6_addr(a.ipv6), sin6_addr(b.ipv6))
             [] OTHER               -> 0

=============================================================================
