----------------------------- MODULE MCWalFile -----------------------------
(* Instances of WalFile for TLC.                                           *)
EXTENDS WalFile

CONSTANTS k1, v1, v2

MCKeyLen == [k \in Keys |-> 1]
MCValLen == [v \in Vals |-> IF v = v1 THEN 1 ELSE 2]
=============================================================================
