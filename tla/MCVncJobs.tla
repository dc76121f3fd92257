----------------------------- MODULE MCVncJobs -----------------------------
(* Instances of VncJobs for TLC: the clients are interchangeable.          *)
EXTENDS VncJobs

Symmetry == Permutations(Clients)
=============================================================================
