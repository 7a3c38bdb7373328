------------------------------- MODULE Engine -------------------------------
(***************************************************************************)
(* The storage engine of one shard at the grain of its atomic steps: the   *)
(* map under an RWMutex, the counters that are adjusted after the lock is  *)
(* released, and the timing wheel with its goroutine.                      *)
(*                                                                         *)
(* Time is relative: an entry carries the time left to its deadline, which *)
(* TimePasses counts down, so that the clock needs no bound.  The counters *)
(* keep a width, since they are adjusted by adding two's complements.      *)
(* Statistics (hits, misses, commands, overflows) are left out; the byte   *)
(* and the key counter are adjusted by two adds, taken here as one step.   *)
(***************************************************************************)
EXTENDS Integers, Sequences, FiniteSets, FiniteSetsExt, Functions

CONSTANTS
    Loops,         \* the event loops that call the engine
    Wheel,         \* the goroutine of the timing wheel
    Keys,
    KeyLen,        \* len(key)
    Writes,        \* the writes: a key, len(value), a TTL (0 for none), the method called
    Overhead,      \* what encryption adds to a value; 0 without encryption
    MaxBytes,      \* the memory ceiling; 0 for none
    Modulus,       \* the counters count modulo this power of two
    Interval,      \* time units between two ticks of the wheel
    NumSlots,
    SlotCapacity,
    NoExpiry       \* the zero Expiration

Methods == {"Set", "SetFromBuffer", "SetRaw"}

ASSUME EngineAssumption ==
    /\ IsFiniteSet(Loops) /\ Loops # {} /\ Wheel \notin Loops
    /\ Writes \subseteq [key : Keys, len : Nat, ttl : Nat, via : Methods]
    /\ KeyLen \in Nat /\ Overhead \in Nat
    /\ MaxBytes \in Nat /\ Modulus \in Nat \ {0}
    /\ NoExpiry \notin Int
    /\ Interval \in Nat \ {0} /\ NumSlots \in Nat \ {0} /\ SlotCapacity \in Nat

VARIABLES
    items,           \* Engine.items: the entry of each key in its domain
    allocatedBytes,
    keyCount,
    slots,           \* Chronometer.slots, cut to slotSizes
    curSlot,
    phase,           \* time units since the last tick of the ticker
    tick,            \* the ticker's channel holds a tick
    pc,              \* where each goroutine is
    op,              \* its local variables
    batch            \* the keys of a slot that the wheel has still to delete

wheelVars == <<slots, curSlot, phase, tick, batch>>
vars == <<items, allocatedBytes, keyCount, pc, op, wheelVars>>

Goroutines == Loops \cup {Wheel}
TTLs == {w.ttl : w \in Writes}
MaxTTL == Max(TTLs \cup {0})
Lefts == (-1 .. MaxTTL) \cup {NoExpiry}
StoredLens == {KeyLen + w.len + o : w \in Writes, o \in {0, Overhead}}
MaxEntry == Max(StoredLens)

\* Lengths are bounded, and what the engine may hold at most is far from 2^64.
ASSUME SizeAssumption ==
    /\ \E n \in StoredLens : \A l \in StoredLens : l <= n
    /\ MaxBytes + (2 * Cardinality(Loops) + 1) * MaxEntry < Modulus

Entry == [size : StoredLens, left : Lefts]

\* What a goroutine has in hand: the entry it is about to store and its TTL,
\* the adjustment of the counters it still owes, the slot it will register in.
Op == [key : Keys, size : StoredLens \cup {0}, left : Lefts, ttl : TTLs \cup {0},
       bytes : Int, keys : {-1, 0, 1}, slot : 0 .. NumSlots - 1]

Nothing == [key |-> CHOOSE k \in Keys : TRUE, size |-> 0, left |-> NoExpiry, ttl |-> 0,
            bytes |-> 0, keys |-> 0, slot |-> 0]

TypeOK ==
    /\ DOMAIN items \subseteq Keys /\ \A k \in DOMAIN items : items[k] \in Entry
    /\ allocatedBytes \in 0 .. Modulus - 1 /\ keyCount \in 0 .. Modulus - 1
    /\ \A s \in 0 .. NumSlots - 1 : slots[s] \in Seq(Keys) /\ Len(slots[s]) <= SlotCapacity
    /\ curSlot \in 0 .. NumSlots - 1
    /\ phase \in 0 .. Interval - 1 /\ tick \in BOOLEAN
    /\ pc \in [Goroutines -> {"idle", "lock", "count", "append", "evict",
                              "release", "store", "sweep"}]
    /\ \A g \in Goroutines : op[g] \in Op
    /\ batch \in Seq(Keys)

Init ==
    /\ items = <<>>
    /\ allocatedBytes = 0 /\ keyCount = 0
    /\ slots = [s \in 0 .. NumSlots - 1 |-> <<>>] /\ curSlot = 0
    /\ phase = 0 /\ tick = FALSE
    /\ pc = [g \in Goroutines |-> "idle"]
    /\ op = [g \in Goroutines |-> Nothing]
    /\ batch = <<>>

-----------------------------------------------------------------------------
(* Helpers                                                                 *)

Expired(e) == e.left # NoExpiry /\ e.left < 0

Without(k) == [j \in DOMAIN items \ {k} |-> items[j]]

With(k, e) == [j \in DOMAIN items \cup {k} |-> IF j = k THEN e ELSE items[j]]

\* The sum allocatedBytes + totalEntrySize is computed in 64 bits.
Full(size) == MaxBytes > 0 /\ (allocatedBytes + size) % Modulus > MaxBytes

Goto(g, label) == pc' = [pc EXCEPT ![g] = label]

\* Where the wheel's goroutine goes on with these keys left to delete.
SweepOrIdle(keys) == IF keys = <<>> THEN "idle" ELSE "sweep"

-----------------------------------------------------------------------------
(* Set, SetFromBuffer and SetRaw: ceiling, lock, counters, registration.   *)

\* The size is checked against the counter and the deadline is computed
\* before the lock is taken.
BeginStore(c, w, size) ==
    /\ pc[c] = "idle"
    /\ op' = [op EXCEPT ![c] = [Nothing EXCEPT !.key = w.key, !.size = size, !.ttl = w.ttl,
                                !.left = IF w.ttl > 0 THEN w.ttl ELSE NoExpiry]]
    /\ Goto(c, "lock")
    /\ UNCHANGED <<items, allocatedBytes, keyCount, wheelVars>>

\* Plausible slip: the new entry alone is held against the ceiling.
Set_EntryOnly(c, w) ==
    /\ w.via = "Set"
    /\ ~(MaxBytes > 0 /\ KeyLen + w.len + Overhead > MaxBytes)
    /\ BeginStore(c, w, KeyLen + w.len + Overhead)

Set(c, w) ==
    /\ w.via = "Set"
    /\ ~Full(KeyLen + w.len + Overhead)
    /\ BeginStore(c, w, KeyLen + w.len + Overhead)

\* With encryption SetFromBuffer is Set, and without, it stores the buffer.
SetFromBuffer(c, w) ==
    /\ w.via = "SetFromBuffer"
    /\ ~Full(KeyLen + w.len + Overhead)
    /\ BeginStore(c, w, KeyLen + w.len + Overhead)

\* The value comes from a snapshot and is encrypted already.
SetRaw(c, w) ==
    /\ w.via = "SetRaw" /\ Overhead > 0
    /\ ~Full(KeyLen + w.len)
    /\ BeginStore(c, w, KeyLen + w.len)

\* Plausible slip: an update is accounted for like a new entry.
StoreItem_NoUpdate(c) ==
    /\ pc[c] = "lock"
    /\ items' = With(op[c].key, [size |-> op[c].size, left |-> op[c].left])
    /\ op' = [op EXCEPT ![c].bytes = op[c].size,
                        ![c].keys = IF op[c].key \in DOMAIN items THEN 0 ELSE 1]
    /\ Goto(c, "count")
    /\ UNCHANGED <<allocatedBytes, keyCount, wheelVars>>

StoreItem(c) ==
    LET k == op[c].key
        isUpdate == k \in DOMAIN items
    IN  /\ pc[c] = "lock"
        /\ items' = With(k, [size |-> op[c].size, left |-> op[c].left])
        /\ op' = [op EXCEPT ![c] =
               [Nothing EXCEPT !.key = k, !.ttl = op[c].ttl,
                   !.bytes = op[c].size - (IF isUpdate THEN items[k].size ELSE 0),
                   !.keys = IF isUpdate THEN 0 ELSE 1]]
        /\ Goto(c, "count")
        /\ UNCHANGED <<allocatedBytes, keyCount, wheelVars>>

\* The adds, and the load of curSlot with which Register begins: a step of
\* another goroutine between them would commute with the adds.
CountItem(c) ==
    LET steps == Min({op[c].ttl \div Interval, NumSlots - 1})
    IN  /\ pc[c] = "count"
        /\ allocatedBytes' = (allocatedBytes + op[c].bytes) % Modulus
        /\ keyCount' = (keyCount + op[c].keys) % Modulus
        /\ IF op[c].ttl > 0
           THEN /\ op' = [op EXCEPT ![c] = [Nothing EXCEPT !.key = op[c].key,
                                            !.slot = (curSlot + steps) % NumSlots]]
                /\ Goto(c, "append")
           ELSE op' = [op EXCEPT ![c] = Nothing] /\ Goto(c, "idle")
        /\ UNCHANGED <<items, wheelVars>>

\* Only now the lock of the target slot is taken.  A full slot drops the key.
Register(c) ==
    /\ pc[c] = "append"
    /\ slots' = IF Len(slots[op[c].slot]) < SlotCapacity
                THEN [slots EXCEPT ![op[c].slot] = Append(@, op[c].key)]
                ELSE slots
    /\ op' = [op EXCEPT ![c] = Nothing]
    /\ Goto(c, "idle")
    /\ UNCHANGED <<items, allocatedBytes, keyCount, curSlot, phase, tick, batch>>

-----------------------------------------------------------------------------
(* Delete, Get, GetInto and the removal of an expired entry                *)

\* releaseKey runs after the unlock, on the item that was removed.
Owing(g, k) ==
    [op EXCEPT ![g].key = k, ![g].bytes = -items[k].size, ![g].keys = -1]

\* A Delete of a key that is absent does nothing.
Delete(c, k) ==
    /\ pc[c] = "idle"
    /\ k \in DOMAIN items
    /\ items' = Without(k)
    /\ op' = Owing(c, k)
    /\ Goto(c, "release")
    /\ UNCHANGED <<allocatedBytes, keyCount, wheelVars>>

\* Get and GetInto read under the read lock.  What they find matters here if
\* it has expired: they then come back for the write lock.
Get(c, k) ==
    /\ pc[c] = "idle"
    /\ k \in DOMAIN items /\ Expired(items[k])
    /\ op' = [op EXCEPT ![c].key = k]
    /\ Goto(c, "evict")
    /\ UNCHANGED <<items, allocatedBytes, keyCount, wheelVars>>

\* Plausible slip: what was found expired, or registered, is deleted unseen.
deleteIfExpired_Blind(g, k, otherwise) ==
    IF k \in DOMAIN items
    THEN items' = Without(k) /\ op' = Owing(g, k) /\ Goto(g, "release")
    ELSE UNCHANGED items /\ op' = [op EXCEPT ![g].key = Nothing.key] /\ Goto(g, otherwise)

\* The entry is looked at again under the lock.
deleteIfExpired(g, k, otherwise) ==
    IF k \in DOMAIN items /\ Expired(items[k])
    THEN items' = Without(k) /\ op' = Owing(g, k) /\ Goto(g, "release")
    ELSE UNCHANGED items /\ op' = [op EXCEPT ![g].key = Nothing.key] /\ Goto(g, otherwise)

LazyEviction(c) ==
    /\ pc[c] = "evict"
    /\ deleteIfExpired(c, op[c].key, "idle")
    /\ UNCHANGED <<allocatedBytes, keyCount, wheelVars>>

releaseKey(g) ==
    /\ pc[g] = "release"
    /\ allocatedBytes' = (allocatedBytes + op[g].bytes) % Modulus
    /\ keyCount' = (keyCount + op[g].keys) % Modulus
    /\ op' = [op EXCEPT ![g] = Nothing]
    /\ Goto(g, IF g = Wheel THEN SweepOrIdle(batch) ELSE "idle")
    /\ UNCHANGED <<items, wheelVars>>

-----------------------------------------------------------------------------
(* The timing wheel                                                        *)

\* The slot is emptied under its lock.
AdvanceTake ==
    /\ pc[Wheel] = "idle" /\ tick
    /\ tick' = FALSE
    /\ batch' = slots[curSlot]
    /\ slots' = [slots EXCEPT ![curSlot] = <<>>]
    /\ Goto(Wheel, "store")
    /\ UNCHANGED <<items, allocatedBytes, keyCount, curSlot, phase, op>>

\* Plausible slip: the wheel turns over its last slot.
AdvanceStore_Short ==
    /\ pc[Wheel] = "store"
    /\ curSlot' = (curSlot + 1) % (NumSlots - 1)
    /\ Goto(Wheel, SweepOrIdle(batch))
    /\ UNCHANGED <<items, allocatedBytes, keyCount, slots, phase, tick, op, batch>>

AdvanceStore ==
    /\ pc[Wheel] = "store"
    /\ curSlot' = (curSlot + 1) % NumSlots
    /\ Goto(Wheel, SweepOrIdle(batch))
    /\ UNCHANGED <<items, allocatedBytes, keyCount, slots, phase, tick, op, batch>>

AdvanceDelete ==
    /\ pc[Wheel] = "sweep"
    /\ batch' = Tail(batch)
    /\ deleteIfExpired(Wheel, Head(batch), SweepOrIdle(Tail(batch)))
    /\ UNCHANGED <<allocatedBytes, keyCount, slots, curSlot, phase, tick>>

\* A deadline that has passed stays at -1.  The ticker drops a tick when its
\* channel is full.
Sooner(left) == IF left = NoExpiry THEN left ELSE Max({left - 1, -1})

TimePasses ==
    /\ items' = [k \in DOMAIN items |-> [items[k] EXCEPT !.left = Sooner(@)]]
    /\ op' = [g \in Goroutines |-> [op[g] EXCEPT !.left = Sooner(@)]]
    /\ phase' = (phase + 1) % Interval
    /\ tick' = (tick \/ phase' = 0)
    /\ UNCHANGED <<allocatedBytes, keyCount, slots, curSlot, pc, batch>>

-----------------------------------------------------------------------------
Request(c) ==
    \/ \E w \in Writes : Set(c, w) \/ SetFromBuffer(c, w) \/ SetRaw(c, w)
    \/ \E k \in Keys : Delete(c, k) \/ Get(c, k)

Continue(c) ==
    \/ StoreItem(c) \/ CountItem(c) \/ Register(c)
    \/ LazyEviction(c) \/ releaseKey(c)

Advance == AdvanceTake \/ AdvanceStore \/ AdvanceDelete \/ releaseKey(Wheel)

Next ==
    \/ \E c \in Loops : Request(c) \/ Continue(c)
    \/ Advance \/ TimePasses

Spec == Init /\ [][Next]_vars

\* Time goes on, and the wheel's goroutine is scheduled.
FairSpec == Spec /\ WF_vars(TimePasses) /\ WF_vars(Advance)

-----------------------------------------------------------------------------
(* Properties                                                              *)

Stored == SumFunction([k \in DOMAIN items |-> items[k].size])
OwedBytes == SumFunction([g \in Goroutines |-> op[g].bytes])
OwedKeys == SumFunction([g \in Goroutines |-> op[g].keys])

\* Between the unlock and the atomic adds the counters are wrong by exactly
\* what the goroutines in between still owe: no interleaving of Set, Delete,
\* lazy eviction and the wheel loses or doubles an adjustment, even if a
\* counter wraps below zero on the way.
AccountsBalance ==
    /\ (allocatedBytes + OwedBytes) % Modulus = Stored % Modulus
    /\ (keyCount + OwedKeys) % Modulus = Cardinality(DOMAIN items) % Modulus

\* The ceiling is checked before the lock: event loops that pass it together
\* exceed it, by no more than one entry for each loop but one.
OvershootBounded ==
    MaxBytes > 0 => Stored <= MaxBytes + (Cardinality(Loops) - 1) * MaxEntry

\* Only a Delete removes an entry that has time left.  A key may stand in the
\* wheel twice, and be refreshed after a Get has found it expired: neither
\* the wheel nor that Get removes the refreshed entry.
LiveKept ==
    [][\A k \in DOMAIN items \ DOMAIN items' :
          Expired(items[k]) \/ \E c \in Loops : pc[c] = "idle" /\ pc'[c] = "release"]_vars

\* A key that has expired and stands in a slot of the wheel is removed in the
\* end, or written again.
RegisteredEvicted ==
    \A k \in Keys :
        (/\ k \in DOMAIN items /\ Expired(items[k])
         /\ \E s \in DOMAIN slots : k \in Range(slots[s]))
        ~> (k \notin DOMAIN items \/ ~Expired(items[k]))
=============================================================================
