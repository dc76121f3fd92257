-------------------------------- MODULE MCQed -------------------------------
(* Qed with the values a configuration file cannot spell.  Clusters have 2  *)
(* sectors and tables 4 entries, so sectors 0 and 1 are the allocated       *)
(* cluster, 2 and 3 the zero cluster, 4 to 7 are unallocated in the first   *)
(* L2 table, 8 to 15 belong to the second, and 16 on have no L2 table.      *)
EXTENDS Qed, TLC

Symmetry == Permutations(Reqs)

Allocated == <<1, 2>>
ZeroAndNext == <<3, 5>>
TwoClusters == <<5, 7>>
SecondTable == <<8, 9>>
NoL2Table == <<16, 17>>

AllocExtents == {ZeroAndNext, NoL2Table}
MixedExtents == {Allocated, TwoClusters, NoL2Table}
EvictExtents == {TwoClusters, SecondTable}
=============================================================================
