--------------------------- MODULE MCEncryptedWal ---------------------------
(* A shard whose operator turns encryption on, and may rotate the KEK.     *)
EXTENDS EncryptedWal, TLC

CONSTANTS k1, k2, shardEnv, auditEnv, x, y, v

MCConfigs == {[mode |-> "plain", kek |-> k1],
              [mode |-> "envelope", kek |-> k1], [mode |-> "envelope", kek |-> k2]}

Symmetry == Permutations(Keys)
=============================================================================
