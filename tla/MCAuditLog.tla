---------------------------- MODULE MCAuditLog ----------------------------
(* Runs without a key, with a key, and with a key that wraps another.      *)
EXTENDS AuditLog, TLC

CONSTANTS k1, k2, l1, l2

MCConfigs == {[mode |-> "plain", key |-> None], [mode |-> "key", key |-> k1],
              [mode |-> "envelope", key |-> k1], [mode |-> "envelope", key |-> k2]}
MCFlags == {{"auth", "other"}}

Symmetry == Permutations(Loops)
=============================================================================
