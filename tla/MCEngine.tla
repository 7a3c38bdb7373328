------------------------------ MODULE MCEngine ------------------------------
(* Three keys, more than event loops: one with a TTL, one whose size       *)
(* changes since SetRaw stores less than Set does, one restored with       *)
(* SetFromBuffer.                                                          *)
EXTENDS Engine

CONSTANTS k1, k2, k3

MCWrites ==
    {[key |-> k1, len |-> 0, ttl |-> 1, via |-> "Set"],
     [key |-> k2, len |-> 0, ttl |-> 0, via |-> "Set"],
     [key |-> k2, len |-> 0, ttl |-> 0, via |-> "SetRaw"],
     [key |-> k3, len |-> 0, ttl |-> 0, via |-> "SetFromBuffer"]}
=============================================================================
