----------------------------- MODULE RecordLog -----------------------------
(***************************************************************************)
(* What a shard relies on when it logs a request: a log of whole records.  *)
(* A record enters the log at its end, in one step.  It becomes durable by *)
(* an acknowledged Sync, together with all records before it.  A durable   *)
(* record never changes and never disappears; of the others a crash may    *)
(* take some away, the youngest first.                                     *)
(***************************************************************************)
EXTENDS Naturals, Sequences

CONSTANT Record

VARIABLES
    durable,   \* the records that nothing can take away
    tail       \* the records that are in the log but not known to be durable

Init == durable = <<>> /\ tail = <<>>

Store(r) == tail' = Append(tail, r) /\ UNCHANGED durable

Acknowledge == durable' = durable \o tail /\ tail' = <<>>

Lose(n) == tail' = SubSeq(tail, 1, n) /\ UNCHANGED durable

Next ==
    \/ \E r \in Record : Store(r)
    \/ Acknowledge
    \/ \E n \in 0 .. Len(tail) : Lose(n)

Spec == Init /\ [][Next]_<<durable, tail>>
=============================================================================
