----------------------------- MODULE MCNetQueue -----------------------------
(* Instances of NetQueue: a NIC and a back end in a pair, and VLANs.       *)
EXTENDS NetQueue

CONSTANTS nic, nic2, tap, slirp

KindOf ==
  [c \in Clients |-> CASE c = tap -> "tap" [] c = slirp -> "slirp" [] OTHER -> "virtio"]

Topology(v, o, n, ch) ==
  [vlan |-> v, order |-> o, packets |-> n, changes |-> ch]

Each(n) == [c \in Clients |-> n]

OneNic ==
  {Topology(FALSE, <<nic, tap>>, Each(2), {"link", "delete", "stop"}),
   Topology(FALSE, <<nic, slirp>>, Each(2), {"delete"}),
   Topology(TRUE, <<nic, tap, slirp>>, [Each(2) EXCEPT ![tap] = 1], {}),
   Topology(TRUE, <<tap, nic, slirp>>, Each(1), {"delete", "stop"})}

TwoNics == {Topology(TRUE, <<nic2, nic, slirp>>, Each(1), {})}
=============================================================================
