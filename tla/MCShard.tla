------------------------------ MODULE MCShard ------------------------------
(* Instances of Shard for TLC.                                             *)
EXTENDS Shard, TLC

CONSTANTS c1, c2, k1, k2, v1, v2

MCSize == [v \in Values |-> IF v = v1 THEN 1 ELSE 2]

(* Without a ceiling sizes do not matter, and the values are all alike.    *)
MCUnitSize == [v \in Values |-> 1]

Symmetry == Permutations(Clients) \cup Permutations(Values)
=============================================================================
