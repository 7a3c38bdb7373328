------------------------- MODULE EncryptedWal_proofs -------------------------
(***************************************************************************)
(* Proofs about the encrypted log and its envelopes, for any number of     *)
(* processes, crashes, records and runs of the rewrap tool.                *)
(***************************************************************************)
EXTENDS EncryptedWal, FiniteSetTheorems, WellFoundedInduction, TLAPS

(***************************************************************************)
(* The least and the greatest of some numbers.  Where a proof needs        *)
(* induction it takes the least counterexample.                            *)
(***************************************************************************)

(* A set of natural numbers has a least element.                           *)
LEMMA LeastNumber ==
    ASSUME NEW N \in SUBSET Nat, N # {}
    PROVE  \E n \in N : \A m \in N : n <= m
<1> DEFINE R == StrictSubsetOrdering(Nat)
           S == FiniteSubsetsOf(Nat)
           T == {0 .. n : n \in N}
<1>1. IsWellFoundedOn(R, S)
  BY FS_StrictSubsetOrderingWellFounded
<1>2. \A n \in N : 0 .. n \in S
  BY FS_Interval DEF FiniteSubsetsOf
<1>3. T \subseteq S /\ T # {}
  BY <1>2, Zenon
<1>4. PICK x \in T : \A y \in T : ~(<<y, x>> \in R)
  <2> HIDE DEF R, S, T
  <2>1. QED
    BY <1>1, <1>3, WFMin
<1>5. PICK n \in N : x = 0 .. n
  BY <1>4
<1>6. ASSUME NEW m \in N, m < n PROVE FALSE
  <2>1. 0 .. m \in S /\ x \in S /\ 0 .. m \in T
    BY <1>2, <1>5
  <2>2. 0 .. m \subseteq x /\ 0 .. m # x
    BY <1>5, <1>6
  <2>3. <<0 .. m, x>> \in R
    BY <2>1, <2>2 DEF StrictSubsetOrdering, FiniteSubsetsOf
  <2>4. QED
    BY <1>4, <2>1, <2>3, Zenon
<1>7. QED
  BY <1>6

(* Finitely many numbers have a greatest, or there are none.               *)
LEMMA GreatestNumber ==
    ASSUME NEW n \in Nat, NEW f, \A i \in 1 .. n : f[i] \in Nat
    PROVE  \E m \in {0} \cup {f[i] : i \in 1 .. n} : \A i \in 1 .. n : f[i] <= m
<1> DEFINE Has(j) == \E m \in {0} \cup {f[i] : i \in 1 .. j} : \A i \in 1 .. j : f[i] <= m
           Lacks == {j \in 0 .. n : ~Has(j)}
<1>1. SUFFICES ASSUME Lacks # {} PROVE FALSE
  BY <1>1
<1>3. Has(0)
  OBVIOUS
<1>2. PICK j \in Lacks : \A k \in Lacks : j <= k
  <2> HIDE DEF Has
  <2>1. Lacks \in SUBSET Nat
    OBVIOUS
  <2>2. QED
    BY <1>1, <2>1, LeastNumber, Zenon
<1>4. j # 0 /\ j - 1 \in 0 .. n /\ j \in 1 .. n
  <2> HIDE DEF Has
  <2>1. QED
    BY <1>2, <1>3
<1>5. Has(j - 1)
  <2> HIDE DEF Has
  <2>1. QED
    BY <1>2, <1>4
<1>6. PICK m \in {0} \cup {f[i] : i \in 1 .. j - 1} : \A i \in 1 .. j - 1 : f[i] <= m
  BY <1>5
<1>7. Has(j)
  <2>1. m \in Nat /\ f[j] \in Nat /\ 1 .. j = (1 .. j - 1) \cup {j}
    BY <1>4, <1>6
  <2>2. CASE f[j] <= m
    <3>1. m \in {0} \cup {f[i] : i \in 1 .. j} /\ \A i \in 1 .. j : f[i] <= m
      BY <1>6, <2>1, <2>2
    <3>2. QED
      BY <3>1
  <2>3. CASE m < f[j]
    <3>1. f[j] \in {0} \cup {f[i] : i \in 1 .. j} /\ \A i \in 1 .. j : f[i] <= f[j]
      BY <1>4, <1>6, <2>1, <2>3
    <3>2. QED
      BY <3>1
  <2>4. QED
    BY <2>1, <2>2, <2>3
<1>8. QED
  BY <1>2, <1>7

(***************************************************************************)
(* Replay                                                                  *)
(***************************************************************************)

(* A record that replay accepts.                                           *)
Good(recs, dek, i) == recs[i].whole /\ recs[i].dek = dek

(* Replay reads the records up to the first that it cannot accept.         *)
LEMMA ValidPrefix ==
    ASSUME NEW recs \in Seq(Record), NEW dek
    PROVE  \E n \in 0 .. Len(recs) :
              /\ Valid(recs, dek) = SubSeq(recs, 1, n)
              /\ \A i \in 1 .. n : Good(recs, dek, i)
              /\ n = Len(recs) \/ ~Good(recs, dek, n + 1)
<1> DEFINE good(n) == \A i \in 1 .. n : recs[i].whole /\ recs[i].dek = dek
           stop(n) == good(n) /\ (n = Len(recs) \/ ~good(n + 1))
           Ends == {n \in 0 .. Len(recs) : n = Len(recs) \/ ~Good(recs, dek, n + 1)}
<1>1. Len(recs) \in Ends /\ Ends \subseteq Nat
  OBVIOUS
<1>2. PICK n \in Ends : \A m \in Ends : n <= m
  BY <1>1, LeastNumber, Zenon
<1>3. \A i \in 1 .. n : Good(recs, dek, i)
  <2> SUFFICES ASSUME NEW i \in 1 .. n, ~Good(recs, dek, i) PROVE FALSE
    OBVIOUS
  <2>1. i - 1 \in 0 .. Len(recs) /\ (i - 1) + 1 = i
    BY <1>2
  <2>2. i - 1 \in Ends
    BY <2>1
  <2>3. n <= i - 1
    BY <1>2, <2>2, Zenon
  <2>4. n \in Nat
    BY <1>2
  <2>5. QED
    BY <2>3, <2>4
<1>4. n \in 0 .. Len(recs) /\ stop(n)
  BY <1>2, <1>3 DEF Good
<1>5. PICK c \in 0 .. Len(recs) : c = (CHOOSE x \in 0 .. Len(recs) : stop(x)) /\ stop(c)
  BY <1>4, Zenon
<1>6. Valid(recs, dek) = SubSeq(recs, 1, c)
  BY <1>5 DEF Valid
<1>7. c = Len(recs) \/ ~Good(recs, dek, c + 1)
  <2> SUFFICES ASSUME c # Len(recs), Good(recs, dek, c + 1) PROVE FALSE
    OBVIOUS
  <2>1. good(c) /\ ~good(c + 1)
    BY <1>5, Zenon
  <2>2. \A i \in 1 .. c + 1 : i \in 1 .. c \/ i = c + 1
    OBVIOUS
  <2>3. QED
    BY <2>1, <2>2 DEF Good
<1>8. QED
  BY <1>5, <1>6, <1>7, Zenon DEF Good

(* What replay reads, record by record.                                    *)
LEMMA ValidIsSeq ==
    ASSUME NEW recs \in Seq(Record), NEW dek
    PROVE  /\ Valid(recs, dek) \in Seq(Record)
           /\ Len(Valid(recs, dek)) <= Len(recs)
           /\ \A i \in 1 .. Len(Valid(recs, dek)) : Valid(recs, dek)[i] = recs[i] /\ Good(recs, dek, i)
<1>1. PICK n \in 0 .. Len(recs) :
              /\ Valid(recs, dek) = SubSeq(recs, 1, n)
              /\ \A i \in 1 .. n : Good(recs, dek, i)
  BY ValidPrefix
<1>2. QED
  BY <1>1

(* The counter that replay finds is above those of all the records.        *)
LEMMA CounterAbove ==
    ASSUME NEW recs \in Seq(Record)
    PROVE  /\ NextCounter(recs) \in Nat
           /\ \A i \in 1 .. Len(recs) : recs[i].ctr < NextCounter(recs)
<1> DEFINE f == [i \in 1 .. Len(recs) |-> recs[i].ctr]
           C == {0} \cup {recs[i].ctr : i \in DOMAIN recs}
<1>1. \A i \in 1 .. Len(recs) : recs[i].ctr \in Nat /\ f[i] \in Nat
  <2>1. \A i \in 1 .. Len(recs) : recs[i] \in Record
    OBVIOUS
  <2>2. QED
    BY <2>1 DEF Record
<1>2. \E m \in {0} \cup {f[i] : i \in 1 .. Len(recs)} : \A i \in 1 .. Len(recs) : f[i] <= m
  <2> HIDE DEF f
  <2>1. Len(recs) \in Nat
    OBVIOUS
  <2>2. QED
    BY <1>1, <2>1, GreatestNumber, Zenon
<1>3. \E m \in C : \A i \in DOMAIN recs : recs[i].ctr <= m
  BY <1>2
<1> DEFINE c == CHOOSE m \in C : \A i \in DOMAIN recs : recs[i].ctr <= m
<1>4. c \in C /\ \A i \in DOMAIN recs : recs[i].ctr <= c
  <2> HIDE DEF C
  <2>1. QED
    BY <1>3
<1>5. NextCounter(recs) = 1 + c
  BY DEF NextCounter
<1> HIDE DEF c
<1>6. c \in Nat
  BY <1>1, <1>4
<1>7. QED
  BY <1>1, <1>4, <1>5, <1>6

(* The records of key k, and the last of them.                             *)
Mentions(recs, k) == {i \in DOMAIN recs : recs[i].key = k}

LastOf(recs, k, i) == i \in Mentions(recs, k) /\ \A j \in Mentions(recs, k) : j <= i

(* A key that the records mention has a last record.                       *)
LEMMA LastExists ==
    ASSUME NEW recs \in Seq(Record), NEW k, Mentions(recs, k) # {}
    PROVE  \E i \in 1 .. Len(recs) : LastOf(recs, k, i)
<1> DEFINE M == Mentions(recs, k)
           N == {Len(recs) - i : i \in M}
<1>1. M \subseteq 1 .. Len(recs) /\ Len(recs) \in Nat
  BY DEF Mentions
<1>2. N \in SUBSET Nat /\ N # {}
  BY <1>1
<1>3. PICK n \in N : \A m \in N : n <= m
  BY <1>2, LeastNumber, Zenon
<1>4. PICK i \in M : n = Len(recs) - i
  BY <1>3
<1>5. \A j \in M : Len(recs) - i <= Len(recs) - j
  BY <1>3, <1>4
<1>6. \A j \in M : j <= i
  BY <1>1, <1>5
<1>7. QED
  BY <1>1, <1>6 DEF LastOf

(* What replay makes of key k: what its last record says.                  *)
LEMMA AppliedLast ==
    ASSUME NEW recs \in Seq(Record), NEW k, NEW before, NEW dek, NEW i, LastOf(recs, k, i)
    PROVE  Applied(recs, k, before, dek)
             = [val |-> recs[i].val, dek |-> IF recs[i].val = None THEN 0 ELSE dek]
<1> DEFINE mine == {j \in DOMAIN recs : recs[j].key = k}
           c == CHOOSE x \in mine : \A j \in mine : j <= x
<1>1. i \in mine /\ \A j \in mine : j <= i
  BY DEF LastOf, Mentions
<1>2. c \in mine /\ \A j \in mine : j <= c
  BY <1>1, Zenon
<1>3. Applied(recs, k, before, dek)
        = IF mine = {} THEN before
          ELSE [val |-> recs[c].val, dek |-> IF recs[c].val = None THEN 0 ELSE dek]
  BY DEF Applied
<1> HIDE DEF c
<1>4. c = i
  BY <1>1, <1>2
<1>5. QED
  BY <1>1, <1>3, <1>4

(* Replay leaves a key alone that no record mentions.                      *)
LEMMA AppliedNone ==
    ASSUME NEW recs, NEW k, NEW before, NEW dek, Mentions(recs, k) = {}
    PROVE  Applied(recs, k, before, dek) = before
  BY DEF Applied, Mentions

(* Replay stores what the engine may hold.                                 *)
LEMMA AppliedType ==
    ASSUME NEW recs \in Seq(Record), NEW k, NEW before \in Stored, NEW dek \in Nat \cup Keks
    PROVE  Applied(recs, k, before, dek) \in Stored
<1>1. CASE Mentions(recs, k) = {}
  BY <1>1, AppliedNone
<1>2. CASE Mentions(recs, k) # {}
  <2>1. PICK i \in 1 .. Len(recs) : LastOf(recs, k, i)
    BY <1>2, LastExists
  <2>2. recs[i] \in Record
    BY <2>1
  <2>3. Applied(recs, k, before, dek)
          = [val |-> recs[i].val, dek |-> IF recs[i].val = None THEN 0 ELSE dek]
    BY <2>1, AppliedLast
  <2>4. recs[i].val \in Vals \cup {None}
    BY <2>2 DEF Record
  <2>5. QED
    BY <2>3, <2>4 DEF Stored
<1>3. QED
  BY <1>1, <1>2

(***************************************************************************)
(* Types                                                                   *)
(***************************************************************************)

(* A shard in envelope mode that is past its envelope has a data key.      *)
KeyInv ==
    /\ srv.pc \notin {"down", "failed", "keys"} => srv.todo = {}
    /\ srv.pc \notin {"down", "failed"} /\ srv.conf.mode = "envelope" /\ Mine \notin srv.todo
          => env[Mine] # Missing

(* Once all envelopes are loaded there is a key for the log.               *)
LEMMA DataKeyType ==
    ASSUME TypeOK, KeyInv, srv.pc \notin {"down", "failed"}, srv.todo = {}
    PROVE  DataKey \in Nat \cup Keks
<1>1. srv.conf \in [mode : {"plain", "direct", "envelope"}, kek : Keks]
  BY EncryptedWalAssumption DEF TypeOK, Process
<1>2. CASE srv.conf.mode = "envelope"
  <2>1. env[Mine] \in EnvelopeFile
    BY <1>2, EncryptedWalAssumption DEF TypeOK, EnvelopeTypeOK, KeyInv
  <2>2. QED
    BY <1>2, <2>1 DEF DataKey, EnvelopeFile
<1>3. CASE srv.conf.mode # "envelope"
  BY <1>1, <1>3 DEF DataKey
<1>4. QED
  BY <1>2, <1>3

(* After a crash there is no process.                                      *)
LEMMA NoProcessType ==
    ASSUME NEW n \in 0 .. MaxStarts
    PROVE  /\ NoProcess(n) \in Process
           /\ NoProcess(n).pc = "down" /\ NoProcess(n).todo = {}
  BY EncryptedWalAssumption DEF NoProcess, Process

(* Before it starts, and after it ends, the rewrap tool has no state.      *)
LEMMA IdleType == Idle \in Tool /\ Idle.pc = "off" /\ Idle.says = "nothing"
  BY DEF Idle, Tool

(* The rewrap tool at work: what it has still to do, and that every        *)
(* envelope it has seen is under one of its two keys.                      *)
ToolInv ==
    tool.pc = "write" =>
        /\ tool.says = "nothing"
        /\ tool.keys \in Keks \X Keks /\ tool.keys[1] # tool.keys[2]
        /\ tool.todo \subseteq Wrapped(tool.keys[1])
        /\ ~tool.lost => Wrapped(tool.keys[1]) \subseteq tool.todo
        /\ Present # {} /\ Present = Wrapped(tool.keys[1]) \cup Wrapped(tool.keys[2])

(* The steps of the rewrap tool keep the types and draw no key.            *)
LEMMA RewrapType ==
    ASSUME EnvelopeTypeOK, ToolInv, Rewrap
    PROVE  EnvelopeTypeOK' /\ drawn' = drawn
<1>1. ASSUME NEW old \in Keks, NEW new \in Keks, RewrapStart(old, new)
      PROVE  EnvelopeTypeOK' /\ drawn' = drawn
  BY <1>1 DEF RewrapStart, EnvelopeTypeOK, Tool, Done, Idle, Wrapped, Present
<1>2. ASSUME NEW f \in Files, RewrapWrite(f)
      PROVE  EnvelopeTypeOK' /\ drawn' = drawn
  <2>1. tool.keys[2] \in Keks /\ env[f] \in EnvelopeFile
    BY <1>2 DEF RewrapWrite, First, ToolInv, EnvelopeTypeOK, Wrapped, Present
  <2>2. [env[f] EXCEPT !.kek = tool.keys[2]] \in EnvelopeFile
    BY <2>1 DEF EnvelopeFile
  <2>3. env' \in [Files -> EnvelopeFile \cup {Missing}] /\ drawn' = drawn
    BY <1>2, <2>2 DEF RewrapWrite, EnvelopeTypeOK
  <2>4. QED
    BY <1>2, <2>3 DEF RewrapWrite, EnvelopeTypeOK, Tool
<1>3. ASSUME NEW f \in Files, RewrapLost(f)
      PROVE  EnvelopeTypeOK' /\ drawn' = drawn
  BY <1>3, Zenon DEF RewrapLost, EnvelopeTypeOK, Tool
<1>4. CASE RewrapCrash \/ \E f \in Files : RewrapFails(f)
  BY <1>4, IdleType DEF RewrapCrash, RewrapFails, EnvelopeTypeOK
<1>5. CASE RewrapEnd
  BY <1>5 DEF RewrapEnd, EnvelopeTypeOK, Tool, Done
<1>6. QED
  BY <1>1, <1>2, <1>3, <1>4, <1>5 DEF Rewrap

(* The steps of start-up up to the snapshot keep the types, and a process  *)
(* that is past its envelope has a data key.                               *)
LEMMA StartType ==
    ASSUME TypeOK, KeyInv, ToolInv,
           \/ \E c \in Configs : StartServer(c)
           \/ \E f \in Files : LoadEnvelope(f)
           \/ OpenShard \/ LoadSnapshot
    PROVE  TypeOK' /\ KeyInv'
<1>1. ASSUME NEW c \in Configs, StartServer(c) PROVE TypeOK' /\ KeyInv'
  <2>1. srv' \in Process /\ h' \in Handle /\ engine' \in [Keys -> Stored] /\ EnvelopeTypeOK'
    BY <1>1, IdleType, EncryptedWalAssumption
       DEF StartServer, TypeOK, EnvelopeTypeOK, Process, Handle, NoHandle, Empty, Stored
  <2>2. KeyInv'
    BY <1>1, EncryptedWalAssumption DEF StartServer, KeyInv, TypeOK, Process
  <2>3. QED
    BY <1>1, <2>1, <2>2, Zenon DEF StartServer, TypeOK
<1>2. ASSUME NEW f \in Files, LoadEnvelope(f) PROVE TypeOK' /\ KeyInv'
  <2>1. srv.pc = "keys" /\ srv.conf.kek \in Keks /\ srv.todo \subseteq Files /\ srv \in Process
    BY <1>2, EncryptedWalAssumption DEF LoadEnvelope, TypeOK, Process
  <2>2. /\ UNCHANGED <<h, wal, sidecar, snap, engine, acked, tool>>
        /\ srv' = [srv EXCEPT !.todo = @ \ {f}] \/ srv' = [srv EXCEPT !.pc = "failed"]
    BY <1>2 DEF LoadEnvelope, ServerUnchanged, Failed
  <2>3. \/ UNCHANGED <<env, drawn>>
        \/ /\ env[f] = Missing /\ drawn' = drawn + 1
           /\ env' = [env EXCEPT ![f] = [kek |-> srv.conf.kek, dek |-> drawn + 1]]
    BY <1>2 DEF LoadEnvelope, StoreFresh
  <2>4. EnvelopeTypeOK'
    BY <2>1, <2>2, <2>3 DEF TypeOK, EnvelopeTypeOK, EnvelopeFile
  <2>5. srv' \in Process
    BY <2>1, <2>2 DEF Process
  <2>6. KeyInv'
    <3>1. srv' = [srv EXCEPT !.todo = @ \ {f}] /\ Mine # f
            => (Mine \notin srv'.todo => Mine \notin srv.todo)
      BY <2>1 DEF Process
    <3>2. srv' = [srv EXCEPT !.todo = @ \ {f}] => env'[f] # Missing
      <4>1. \A d \in Nat : [kek |-> srv.conf.kek, dek |-> d + 1] # Missing
        BY <2>1, EncryptedWalAssumption DEF EnvelopeFile
      <4>2. drawn \in Nat /\ f \in DOMAIN env
        BY DEF TypeOK, EnvelopeTypeOK
      <4>3. Loads(f, srv.conf.kek) /\ UNCHANGED env => env'[f] # Missing
        BY DEF Loads
      <4>4. srv.pc # "failed" /\ srv \in Process => [srv EXCEPT !.todo = @ \ {f}] # [srv EXCEPT !.pc = "failed"]
        BY DEF Process
      <4>5. QED
        BY <1>2, <2>1, <4>1, <4>2, <4>3, <4>4 DEF LoadEnvelope, StoreFresh, Failed
    <3>3. \A g \in Files : env[g] # Missing /\ g # f => env'[g] # Missing
      BY <2>3 DEF TypeOK, EnvelopeTypeOK
    <3>4. QED
      BY <2>1, <2>2, <3>1, <3>2, <3>3, EncryptedWalAssumption DEF KeyInv, Process
  <2>7. QED
    BY <2>2, <2>4, <2>5, <2>6 DEF TypeOK
<1>3. CASE OpenShard
  <2>1. DataKey \in Nat \cup Keks
    BY <1>3, DataKeyType DEF OpenShard
  <2>2. UNCHANGED <<envelopeVars, sidecar, snap, engine, acked>>
    BY <1>3 DEF OpenShard
  <2>3. wal' \in LogFile
    BY <1>3, ZenonT(30) DEF OpenShard, TypeOK, LogFile
  <2>4. h' \in Handle
    <3>1. (wal.ver = "plain" /\ DataKey # 0) \in BOOLEAN
      OBVIOUS
    <3>2. \A b \in BOOLEAN :
            [ver |-> IF wal'.ver = "enc" THEN 1 ELSE 0, dek |-> IF wal'.ver = "enc" THEN DataKey ELSE 0,
             ctr |-> 0, migrate |-> b] \in Handle
      BY <2>1 DEF Handle
    <3>3. QED
      BY <1>3, <3>1, <3>2, Zenon DEF OpenShard, TypeOK
  <2>5. srv' \in Process /\ srv'.todo = srv.todo /\ srv'.conf = srv.conf /\ srv.todo = {} /\ srv.pc = "keys"
    BY <1>3 DEF OpenShard, TypeOK, Process
  <2>6. KeyInv'
    BY <2>2, <2>5 DEF KeyInv, envelopeVars
  <2>7. QED
    BY <2>2, <2>3, <2>4, <2>5, <2>6 DEF TypeOK, EnvelopeTypeOK, envelopeVars
<1>4. CASE LoadSnapshot
  <2>1. UNCHANGED <<envelopeVars, h, wal, sidecar, snap, acked>>
    BY <1>4 DEF LoadSnapshot
  <2>2. engine' \in [Keys -> Stored]
    BY <1>4 DEF LoadSnapshot, TypeOK
  <2>3. srv' \in Process /\ srv'.todo = srv.todo /\ srv'.conf = srv.conf /\ srv.pc = "load"
    BY <1>4 DEF LoadSnapshot, TypeOK, Process
  <2>4. KeyInv'
    BY <2>1, <2>3 DEF KeyInv, envelopeVars
  <2>5. QED
    BY <2>1, <2>2, <2>3, <2>4 DEF TypeOK, EnvelopeTypeOK, envelopeVars
<1>5. QED
  BY <1>1, <1>2, <1>3, <1>4

(* A step that leaves the envelopes alone leaves the data key alone.       *)
LEMMA KeyInvKept ==
    ASSUME KeyInv, env' = env,
           \/ /\ srv.pc \notin {"down", "failed", "keys"}
              /\ srv'.todo = srv.todo /\ srv'.conf = srv.conf
           \/ srv'.pc \in {"down", "failed"}
    PROVE  KeyInv'
  BY DEF KeyInv

(* Replay and migration keep the types.                                    *)
LEMMA ReplayType ==
    ASSUME TypeOK, KeyInv,
           Replay \/ FinishReplay \/ MigrateRename \/ MigrateFails \/ MigrateSidecar
    PROVE  TypeOK' /\ KeyInv'
<1>1. UNCHANGED envelopeVars /\ EnvelopeTypeOK'
  BY DEF Replay, FinishReplay, MigrateRename, MigrateFails, MigrateSidecar, TypeOK, EnvelopeTypeOK,
         envelopeVars
<1>2. srv' \in Process /\ srv'.todo = srv.todo /\ srv'.conf = srv.conf
      /\ srv.pc \in {"replay", "finish", "migrate", "sidecar"}
  BY DEF Replay, FinishReplay, MigrateRename, MigrateFails, MigrateSidecar, TypeOK, Process
<1>3. KeyInv'
  BY <1>1, <1>2, KeyInvKept DEF envelopeVars
<1>4. DataKey \in Nat \cup Keks
  BY <1>2, DataKeyType DEF KeyInv
<1>5. wal.recs \in Seq(Record) /\ Valid(wal.recs, h.dek) \in Seq(Record)
  BY ValidIsSeq DEF TypeOK, LogFile
<1>6. CASE Replay
  <2> DEFINE recs == Valid(wal.recs, h.dek)
             top == NextCounter(recs)
             next == IF sidecar > top THEN sidecar ELSE top
  <2>1. next \in Nat
    BY <1>5, CounterAbove DEF TypeOK
  <2>2. \A k \in Keys : Applied(recs, k, engine[k], DataKey) \in Stored
    BY <1>4, <1>5, AppliedType DEF TypeOK
  <2>3. engine' = [k \in Keys |-> Applied(recs, k, engine[k], DataKey)]
    BY <1>6 DEF Replay
  <2>4. \/ h' = [h EXCEPT !.ctr = next] /\ sidecar' \in {next, sidecar}
        \/ UNCHANGED <<h, sidecar>>
    BY <1>6 DEF Replay, writeNonceSidecar
  <2> HIDE DEF next, recs
  <2>5. h' \in Handle /\ sidecar' \in Nat
    BY <2>1, <2>4 DEF TypeOK, Handle
  <2>6. engine' \in [Keys -> Stored]
    BY <2>2, <2>3
  <2>7. QED
    BY <1>1, <1>2, <1>3, <1>6, <2>5, <2>6 DEF Replay, TypeOK
<1>7. CASE FinishReplay
  <2>1. wal' \in LogFile
    BY <1>5, <1>7, Zenon DEF FinishReplay, TypeOK, LogFile
  <2>2. QED
    BY <1>1, <1>2, <1>3, <1>7, <2>1 DEF FinishReplay, TypeOK
<1>8. CASE MigrateRename
  <2>1. Cardinality(Live) \in Nat
    BY EncryptedWalAssumption, FS_Subset, FS_CardinalityType DEF Live
  <2>2. PICK order \in [1 .. Cardinality(Live) -> Live] :
           wal' = [ver |-> "enc", recs |-> MigratedLog(order), fresh |-> FALSE]
    BY <1>8, Zenon DEF MigrateRename
  <2>3. \A i \in DOMAIN order :
          [key |-> order[i], val |-> engine[order[i]].val, dek |-> DataKey, ctr |-> i - 1, whole |-> TRUE]
             \in Record
    BY <1>4, <2>1, <2>2 DEF Record, Live, TypeOK, Stored
  <2>4. MigratedLog(order) \in Seq(Record)
    BY <2>1, <2>2, <2>3 DEF MigratedLog
  <2>5. wal' \in LogFile
    BY <2>2, <2>4 DEF LogFile
  <2>6. h' \in Handle
    BY <1>4, <1>8, <2>1 DEF MigrateRename, Handle
  <2>7. QED
    BY <1>1, <1>2, <1>3, <1>8, <2>5, <2>6 DEF MigrateRename, TypeOK
<1>9. CASE MigrateFails
  BY <1>1, <1>2, <1>3, <1>9 DEF MigrateFails, ServerUnchanged, TypeOK
<1>10. CASE MigrateSidecar
  <2>1. sidecar' \in Nat
    BY <1>10 DEF MigrateSidecar, writeNonceSidecar, TypeOK, Handle
  <2>2. QED
    BY <1>1, <1>2, <1>3, <1>10, <2>1 DEF MigrateSidecar, TypeOK
<1>11. QED
  BY <1>6, <1>7, <1>8, <1>9, <1>10

(* What an append leaves in the file.                                      *)
LEMMA AppendType ==
    ASSUME TypeOK, NEW k \in Keys \cup {None}, NEW v \in Vals \cup {None}, NEW ok \in BOOLEAN
    PROVE  /\ Rec(k, v, ok) \in Record
           /\ Append1(k, v, ok) \in LogFile
           /\ Append1(k, v, ok).recs = Append(wal.recs, Rec(k, v, ok))
           /\ CounterUsed \in Handle
<1>1. Rec(k, v, ok) \in Record
  BY DEF Rec, Record, TypeOK, Handle
<1>2. Append(wal.recs, Rec(k, v, ok)) \in Seq(Record)
  BY <1>1 DEF TypeOK, LogFile
<1>3. Append1(k, v, ok) \in LogFile /\ Append1(k, v, ok).recs = Append(wal.recs, Rec(k, v, ok))
  BY <1>2 DEF Append1, LogFile, TypeOK
<1>4. CounterUsed \in Handle
  BY DEF CounterUsed, Handle, TypeOK
<1>5. QED
  BY <1>1, <1>3, <1>4

(* Appends and snapshots keep the types.                                   *)
LEMMA ServiceType ==
    ASSUME TypeOK, KeyInv,
           \/ \E k \in Keys, v \in Vals \cup {None} : Write(k, v)
           \/ WriteFails \/ PublishSnapshot \/ TruncateWAL
    PROVE  TypeOK' /\ KeyInv'
<1>1. UNCHANGED envelopeVars /\ EnvelopeTypeOK'
  BY Zenon DEF Write, WriteFails, PublishSnapshot, TruncateWAL, TypeOK, EnvelopeTypeOK, envelopeVars
<1>2. srv' \in Process /\ srv'.todo = srv.todo /\ srv'.conf = srv.conf /\ srv.pc = "serve"
  BY Zenon DEF Write, WriteFails, PublishSnapshot, TruncateWAL, TypeOK, Process
<1>3. KeyInv'
  BY <1>1, <1>2, KeyInvKept DEF envelopeVars
<1>4. DataKey \in Nat \cup Keks
  BY <1>2, DataKeyType DEF KeyInv
<1>5. ASSUME NEW k \in Keys, NEW v \in Vals \cup {None}, Write(k, v) PROVE TypeOK'
  <2>1. wal' \in LogFile /\ h' \in Handle
    BY <1>5, AppendType, Zenon DEF Write
  <2>2. engine' \in [Keys -> Stored] /\ acked' \in [Keys -> Vals \cup {None}]
    BY <1>4, <1>5 DEF Write, TypeOK, Stored
  <2>3. QED
    BY <1>1, <1>2, <1>5, <2>1, <2>2, Zenon DEF Write, TypeOK
<1>6. CASE WriteFails
  <2>1. CounterUsed \in Handle
    BY DEF CounterUsed, Handle, TypeOK
  <2>2. QED
    BY <1>1, <1>2, <1>3, <1>6, <2>1 DEF WriteFails, TypeOK
<1>7. CASE PublishSnapshot
  <2>1. snap' \in [fp : Nat \cup Keks, data : [Keys -> Stored]]
    BY <1>7 DEF PublishSnapshot, TypeOK, Handle
  <2>2. QED
    BY <1>1, <1>2, <1>3, <1>7, <2>1 DEF PublishSnapshot, TypeOK
<1>8. CASE TruncateWAL
  <2>1. sidecar' \in Nat
    BY <1>8 DEF TruncateWAL, writeNonceSidecar, TypeOK, Handle
  <2>2. QED
    BY <1>1, <1>2, <1>3, <1>8, <2>1 DEF TruncateWAL, TypeOK
<1>9. QED
  BY <1>3, <1>5, <1>6, <1>7, <1>8

(* The end of a process and the rewrap after it keep the types.            *)
LEMMA EndType ==
    ASSUME TypeOK, KeyInv, ToolInv, Crash \/ CrashInWrite \/ OfflineRewrap
    PROVE  TypeOK' /\ KeyInv'
<1>1. CASE Crash \/ CrashInWrite
  <2>1. srv.starts \in 0 .. MaxStarts
    BY DEF TypeOK, Process
  <2>2. srv' \in Process /\ srv'.pc = "down"
    BY <1>1, <2>1, NoProcessType, Zenon DEF Crash, CrashInWrite
  <2>3. UNCHANGED <<envelopeVars, sidecar, snap, acked>> /\ EnvelopeTypeOK'
    BY <1>1, Zenon DEF Crash, CrashInWrite, TypeOK, EnvelopeTypeOK, envelopeVars
  <2>4. h' = NoHandle /\ engine' = Empty /\ NoHandle \in Handle /\ Empty \in [Keys -> Stored]
    <3>1. NoHandle \in Handle
      BY DEF Handle, NoHandle
    <3>2. Empty \in [Keys -> Stored]
      BY DEF Empty, Stored
    <3>3. QED
      BY <1>1, <3>1, <3>2, Zenon DEF Crash, CrashInWrite
  <2>5. wal' \in LogFile
    <3>1. CASE Crash
      <4>1. \A x \in {"empty", "short"} : [wal EXCEPT !.ver = x, !.fresh = FALSE] \in LogFile
        BY Zenon DEF TypeOK, LogFile
      <4>2. [wal EXCEPT !.fresh = FALSE] \in LogFile
        BY Zenon DEF TypeOK, LogFile
      <4>3. QED
        BY <3>1, <4>1, <4>2, Zenon DEF Crash
    <3>2. CASE CrashInWrite
      <4>1. Append1(None, None, FALSE) \in LogFile
        BY AppendType, Zenon
      <4>2. [wal EXCEPT !.ver = "short", !.fresh = FALSE] \in LogFile
        BY Zenon DEF TypeOK, LogFile
      <4>3. QED
        BY <3>2, <4>1, <4>2, Zenon DEF CrashInWrite
    <3>3. QED
      BY <1>1, <3>1, <3>2
  <2>6. KeyInv'
    BY <2>2 DEF KeyInv
  <2>7. QED
    BY <2>2, <2>3, <2>4, <2>5, <2>6 DEF TypeOK
<1>2. CASE OfflineRewrap
  <2>1. EnvelopeTypeOK' /\ UNCHANGED walVars /\ srv.pc \in {"down", "failed"}
    BY <1>2, RewrapType DEF OfflineRewrap, TypeOK
  <2>2. QED
    BY <2>1 DEF TypeOK, KeyInv, walVars
<1>3. QED
  BY <1>1, <1>2

(***************************************************************************)
(* Envelopes                                                               *)
(***************************************************************************)

(* The tool does not run beside a server, and says nothing of a directory  *)
(* that a server has been started on since.                                *)
OffInv == srv.pc \notin {"down", "failed"} => tool.pc = "off" /\ tool.says = "nothing"

(* An envelope changes in two ways: it is created, or the tool wraps its   *)
(* DEK with another KEK.                                                   *)
LEMMA EnvelopeStep ==
    ASSUME TypeOK, ToolInv, [Next]_vars
    PROVE  \/ env' = env
           \/ /\ srv.pc = "keys"
              /\ \E f \in Files : env[f] = Missing
                    /\ \E e \in EnvelopeFile : env' = [env EXCEPT ![f] = e]
           \/ OfflineRewrap /\ \E f \in Files : RewrapWrite(f)
<1>1. ASSUME NEW f \in Files, LoadEnvelope(f), env' # env
      PROVE  srv.pc = "keys" /\ env[f] = Missing /\ \E e \in EnvelopeFile : env' = [env EXCEPT ![f] = e]
  <2>1. srv.pc = "keys" /\ env[f] = Missing /\ env' = [env EXCEPT ![f] = [kek |-> srv.conf.kek, dek |-> drawn + 1]]
    BY <1>1 DEF LoadEnvelope, StoreFresh
  <2>2. srv.conf.kek \in Keks /\ drawn \in Nat
    BY EncryptedWalAssumption DEF TypeOK, EnvelopeTypeOK, Process
  <2>3. [kek |-> srv.conf.kek, dek |-> drawn + 1] \in EnvelopeFile
    BY <2>2 DEF EnvelopeFile
  <2>4. QED
    BY <2>1, <2>3, Zenon
<1>2. CASE OfflineRewrap
  BY <1>2, Zenon DEF OfflineRewrap, Rewrap, RewrapStart, RewrapLost, RewrapFails, RewrapEnd, RewrapCrash
<1>3. CASE UNCHANGED vars
  BY <1>3 DEF vars, envelopeVars
<1>4. QED
  BY <1>1, <1>2, <1>3, Zenon DEF Next, StartServer, OpenShard, LoadSnapshot, Replay, FinishReplay, MigrateRename,
     MigrateFails, MigrateSidecar, Write, WriteFails, PublishSnapshot, TruncateWAL, Crash, CrashInWrite,
     envelopeVars

(* What one rewrapped envelope changes.                                    *)
LEMMA RewrapWriteEffect ==
    ASSUME EnvelopeTypeOK, ToolInv, NEW f \in Files, RewrapWrite(f)
    PROVE  /\ f \in Wrapped(tool.keys[1]) /\ f \in tool.todo
           /\ Present' = Present
           /\ \A g \in Files : env[g] # Missing => env'[g].dek = env[g].dek
           /\ \A k : Wrapped(k)' = IF k = tool.keys[2] THEN Wrapped(k) \cup {f} ELSE Wrapped(k) \ {f}
<1>1. f \in tool.todo /\ f \in Wrapped(tool.keys[1]) /\ tool.keys[2] \in Keks
  BY DEF RewrapWrite, First, ToolInv
<1>2. env[f] # Missing /\ env[f] \in EnvelopeFile
  BY <1>1 DEF EnvelopeTypeOK, Wrapped, Present
<1>3. /\ env' = [env EXCEPT ![f] = [env[f] EXCEPT !.kek = tool.keys[2]]]
      /\ [env[f] EXCEPT !.kek = tool.keys[2]] \in EnvelopeFile
      /\ [env[f] EXCEPT !.kek = tool.keys[2]].dek = env[f].dek
      /\ [env[f] EXCEPT !.kek = tool.keys[2]].kek = tool.keys[2]
  BY <1>1, <1>2 DEF RewrapWrite, EnvelopeFile
<1>4. env'[f] # Missing /\ env'[f].dek = env[f].dek /\ env'[f].kek = tool.keys[2]
  BY <1>3, EncryptedWalAssumption DEF EnvelopeTypeOK
<1>5. \A g \in Files \ {f} : env'[g] = env[g]
  BY <1>3 DEF EnvelopeTypeOK
<1>6. QED
  BY <1>1, <1>2, <1>4, <1>5 DEF Present, Wrapped

(* The rewrap tool says that it is done only when every envelope is under  *)
(* the new KEK.                                                            *)
LEMMA RewrapStep ==
    ASSUME EnvelopeTypeOK, ToolInv, DoneMeansRewrapped, Rewrap
    PROVE  ToolInv' /\ DoneMeansRewrapped'
<1>1. ASSUME NEW old \in Keks, NEW new \in Keks, RewrapStart(old, new)
      PROVE  ToolInv' /\ DoneMeansRewrapped'
  <2>1. Present' = Present /\ \A k : Wrapped(k)' = Wrapped(k)
    BY <1>1 DEF RewrapStart, Present, Wrapped
  <2>2. CASE tool' = Idle
    BY <2>2, IdleType DEF ToolInv, DoneMeansRewrapped
  <2>3. CASE Wrapped(old) = {} /\ Wrapped(new) # {} /\ tool' = Done(<<old, new>>, FALSE)
    BY <2>1, <2>3, Zenon DEF ToolInv, DoneMeansRewrapped, Done
  <2>4. CASE /\ Wrapped(old) # {} /\ Present = Wrapped(old) \cup Wrapped(new)
             /\ tool' = [pc |-> "write", todo |-> Wrapped(old), keys |-> <<old, new>>,
                         lost |-> FALSE, says |-> "nothing"]
    <3>1. /\ tool'.pc = "write" /\ tool'.says = "nothing" /\ tool'.todo = Wrapped(old)
          /\ tool'.keys = <<old, new>> /\ tool'.keys[1] = old /\ tool'.keys[2] = new
      BY <2>4
    <3>2. Present # {}
      BY <2>4, SMTT(30) DEF Wrapped
    <3>3. QED
      BY <1>1, <2>1, <2>4, <3>1, <3>2, Zenon DEF ToolInv, DoneMeansRewrapped, RewrapStart
  <2>5. QED
    BY <1>1, <2>2, <2>3, <2>4, Zenon DEF RewrapStart
<1>2. ASSUME NEW f \in Files, RewrapWrite(f)
      PROVE  ToolInv' /\ DoneMeansRewrapped'
  <2>1. /\ tool.pc = "write" /\ tool'.pc = "write" /\ tool'.says = "nothing" /\ tool'.keys = tool.keys
        /\ tool'.lost = tool.lost /\ tool'.todo = tool.todo \ {f}
    BY <1>2 DEF RewrapWrite, EnvelopeTypeOK, Tool, ToolInv
  <2>2. QED
    BY <1>2, <2>1, RewrapWriteEffect DEF ToolInv, DoneMeansRewrapped
<1>3. ASSUME NEW f \in Files, RewrapLost(f)
      PROVE  ToolInv' /\ DoneMeansRewrapped'
  <2>1. Present' = Present /\ \A k : Wrapped(k)' = Wrapped(k)
    BY <1>3 DEF RewrapLost, Present, Wrapped
  <2>2. /\ tool.pc = "write" /\ tool'.pc = "write" /\ tool'.says = "nothing" /\ tool'.keys = tool.keys
        /\ tool'.lost /\ tool'.todo = tool.todo \ {f}
    BY <1>3, SMTT(30) DEF RewrapLost, EnvelopeTypeOK, Tool, ToolInv
  <2>3. QED
    BY <2>1, <2>2, Zenon DEF ToolInv, DoneMeansRewrapped
<1>4. CASE RewrapCrash \/ \E f \in Files : RewrapFails(f)
  BY <1>4, IdleType DEF RewrapCrash, RewrapFails, ToolInv, DoneMeansRewrapped
<1>5. CASE RewrapEnd
  <2>1. Present' = Present /\ \A k : Wrapped(k)' = Wrapped(k)
    BY <1>5, SMTT(30) DEF RewrapEnd, Present, Wrapped
  <2>2. /\ tool.pc = "write" /\ tool.todo = {}
        /\ tool'.pc = "off" /\ tool'.keys = tool.keys /\ tool'.lost = tool.lost
    BY <1>5 DEF RewrapEnd, Done
  <2>3. QED
    BY <2>1, <2>2 DEF ToolInv, DoneMeansRewrapped
<1>6. QED
  BY <1>1, <1>2, <1>3, <1>4, <1>5 DEF Rewrap

(* No step of the server falsifies what the rewrap tool has said.          *)
LEMMA ToolStep ==
    ASSUME TypeOK, ToolInv, OffInv, DoneMeansRewrapped, [Next]_vars
    PROVE  ToolInv' /\ OffInv' /\ DoneMeansRewrapped'
<1>1. CASE OfflineRewrap
  BY <1>1, RewrapStep DEF OfflineRewrap, TypeOK, OffInv, walVars
<1>2. ASSUME NEW c \in Configs, StartServer(c)
      PROVE  ToolInv' /\ OffInv' /\ DoneMeansRewrapped'
  BY <1>2, IdleType, Zenon DEF StartServer, ToolInv, OffInv, DoneMeansRewrapped
<1>3. ASSUME NEW f \in Files, LoadEnvelope(f)
      PROVE  ToolInv' /\ OffInv' /\ DoneMeansRewrapped'
  BY <1>3 DEF LoadEnvelope, ToolInv, OffInv, DoneMeansRewrapped
<1>4. CASE /\ UNCHANGED <<env, tool>>
           /\ srv.pc \in {"down", "failed"} => srv'.pc \in {"down", "failed"}
  BY <1>4, Zenon DEF ToolInv, OffInv, DoneMeansRewrapped, Present, Wrapped
<1>5. CASE UNCHANGED vars
  BY <1>4, <1>5 DEF vars, envelopeVars, walVars
<1>6. CASE OpenShard \/ LoadSnapshot \/ Replay \/ FinishReplay \/ MigrateRename \/ MigrateFails
           \/ MigrateSidecar
  BY <1>4, <1>6 DEF OpenShard, LoadSnapshot, Replay, FinishReplay, MigrateRename, MigrateFails,
     MigrateSidecar, envelopeVars
<1>7. CASE WriteFails \/ PublishSnapshot \/ TruncateWAL \/ Crash \/ CrashInWrite
           \/ \E k \in Keys, v \in Vals \cup {None} : Write(k, v)
  BY <1>4, <1>7, Zenon DEF Write, WriteFails, PublishSnapshot, TruncateWAL, Crash, CrashInWrite, envelopeVars
<1>8. QED
  BY <1>1, <1>2, <1>3, <1>5, <1>6, <1>7 DEF Next

(* The first inductive invariant: types, and the envelopes beside the tool. *)
BaseInv == TypeOK /\ KeyInv /\ ToolInv /\ OffInv /\ DoneMeansRewrapped

(* The invariant of keys and envelopes holds at first.                     *)
LEMMA BaseInit == Init => BaseInv
<1> SUFFICES ASSUME Init PROVE BaseInv
  OBVIOUS
<1>1. 0 \in 0 .. MaxStarts
  BY EncryptedWalAssumption
<1>2. srv \in Process /\ srv.pc = "down" /\ tool = Idle
  BY <1>1, NoProcessType DEF Init, EnvelopeInit
<1>3. EnvelopeTypeOK
  BY IdleType DEF Init, EnvelopeInit, EnvelopeTypeOK
<1>4. h \in Handle /\ sidecar \in Nat
  BY DEF Init, Handle, NoHandle
<1>5. wal \in LogFile
  BY DEF Init, LogFile
<1>6. engine \in [Keys -> Stored] /\ acked \in [Keys -> Vals \cup {None}]
  BY DEF Init, Empty, Stored
<1>7. TypeOK
  BY <1>2, <1>3, <1>4, <1>5, <1>6 DEF Init, TypeOK
<1>8. QED
  BY <1>2, <1>7, IdleType DEF BaseInv, KeyInv, ToolInv, OffInv, DoneMeansRewrapped

(* Every step keeps the invariant of keys and envelopes.                   *)
LEMMA BaseStep == BaseInv /\ [Next]_vars => BaseInv'
<1> SUFFICES ASSUME BaseInv, [Next]_vars PROVE BaseInv'
  OBVIOUS
<1> USE DEF BaseInv
<1>1. ToolInv' /\ OffInv' /\ DoneMeansRewrapped'
  BY ToolStep
<1>2. CASE UNCHANGED vars
  BY <1>1, <1>2 DEF TypeOK, EnvelopeTypeOK, KeyInv, vars, envelopeVars, walVars
<1>3. CASE Next
  BY <1>1, <1>3, StartType, ReplayType, ServiceType, EndType DEF Next
<1>4. QED
  BY <1>2, <1>3

(* Types are kept; a process past its envelope has a data key; the rewrap  *)
(* tool, which runs only while no process does, knows which envelopes are  *)
(* left.                                                                   *)
THEOREM Base == Spec => []BaseInv
<1>1. QED
  BY BaseInit, BaseStep, PTL DEF Spec

(* When the rewrap tool of crypto/rewrap.go says that it is done, no        *)
(* envelope is left under the old KEK, however many interrupted runs came   *)
(* before.                                                                  *)
THEOREM RewrapIsComplete == Spec => []DoneMeansRewrapped
<1>1. BaseInv => DoneMeansRewrapped
  BY DEF BaseInv
<1>2. QED
  BY <1>1, Base, PTL

(* The DEK in an envelope is never replaced: LoadOrGenerate draws one only  *)
(* if there is no file, and rewrap writes back the one it has unwrapped.    *)
THEOREM DekIsKept == Spec => DekKept
<1> DEFINE Kept == \A f \in Present : env'[f] # Missing /\ env'[f].dek = env[f].dek
<1>1. BaseInv /\ [Next]_vars => [Kept]_env
  <2> SUFFICES ASSUME BaseInv, [Next]_vars, env' # env PROVE Kept
    OBVIOUS
  <2> USE DEF BaseInv
  <2>1. CASE \E f \in Files : env[f] = Missing
                /\ \E e \in EnvelopeFile : env' = [env EXCEPT ![f] = e]
    BY <2>1 DEF Present, TypeOK, EnvelopeTypeOK
  <2>2. CASE \E f \in Files : RewrapWrite(f)
    <3>1. PICK f \in Files : RewrapWrite(f)
      BY <2>2
    <3>2. Present' = Present /\ \A g \in Files : env[g] # Missing => env'[g].dek = env[g].dek
      BY <3>1, RewrapWriteEffect, SMTT(30) DEF TypeOK
    <3>3. QED
      BY <3>2 DEF Present
  <2>3. QED
    BY <2>1, <2>2, EnvelopeStep
<1>2. QED
  BY <1>1, Base, PTL DEF Spec, DekKept

(***************************************************************************)
(* Nonces                                                                  *)
(***************************************************************************)

(* The records all carry key dek and a counter below n.                    *)
Below(recs, dek, n) == \A i \in 1 .. Len(recs) : recs[i].dek = dek /\ recs[i].ctr < n

(* No counter repeats, because the handle of a sealed log is above all of  *)
(* them: after the replay for the records that it read, which is all that  *)
(* finishReplay leaves, and from then on.  A plaintext handle has no key.   *)
NonceInv ==
    /\ NoncesDistinct
    /\ h.ver = 0 => h.dek = 0
    /\ srv.pc \in {"sidecar", "serve"} /\ h.ver = 1 => Below(wal.recs, h.dek, h.ctr)
    /\ srv.pc = "finish" /\ h.ver = 1 => Below(Valid(wal.recs, h.dek), h.dek, h.ctr)

(* No nonce has been used at first.                                        *)
LEMMA NonceInit == Init => NonceInv
  BY NoProcessType, EncryptedWalAssumption DEF Init, NonceInv, NoncesDistinct, NoHandle

(* An append under a counter that is not in use.                           *)
LEMMA NonceAppend ==
    ASSUME TypeOK, NonceInv, srv.pc = "serve", NEW r \in Record, r.dek = h.dek, r.ctr = h.ctr,
           wal'.recs = Append(wal.recs, r)
    PROVE  NoncesDistinct'
<1> DEFINE n == Len(wal.recs)
<1>1. wal.recs \in Seq(Record) /\ n \in Nat /\ h \in Handle
  BY DEF TypeOK, LogFile
<1>2. DOMAIN wal.recs = 1 .. n /\ DOMAIN wal'.recs = 1 .. n + 1 /\ wal'.recs[n + 1] = r
      /\ \A i \in 1 .. n : wal'.recs[i] = wal.recs[i]
  BY <1>1
<1>3. \A i \in 1 .. n + 1 : i \in 1 .. n \/ i = n + 1
  BY <1>1
<1>4. ASSUME NEW i \in 1 .. n, r.dek # 0, wal.recs[i].dek = r.dek, wal.recs[i].ctr = r.ctr
      PROVE  FALSE
  <2>1. h.ver = 1
    BY <1>1, <1>4, SMTT(30) DEF NonceInv, Handle
  <2>2. wal.recs[i].ctr < h.ctr
    BY <1>4, <2>1 DEF NonceInv, Below
  <2>3. QED
    BY <1>1, <1>4, <2>2 DEF Handle
<1>5. SUFFICES ASSUME NEW i \in 1 .. n + 1, NEW j \in 1 .. n + 1, wal'.recs[i].dek # 0,
                      wal'.recs[i].dek = wal'.recs[j].dek, wal'.recs[i].ctr = wal'.recs[j].ctr
               PROVE  i = j
  BY <1>2, Zenon DEF NoncesDistinct
<1>6. CASE i \in 1 .. n /\ j \in 1 .. n
  <2>1. wal'.recs[i] = wal.recs[i] /\ wal'.recs[j] = wal.recs[j]
    BY <1>2, <1>6, Zenon
  <2>2. QED
    BY <1>2, <1>5, <1>6, <2>1, Zenon DEF NonceInv, NoncesDistinct
<1>7. CASE i \in 1 .. n /\ j = n + 1
  BY <1>2, <1>4, <1>5, <1>7, Zenon
<1>8. CASE j \in 1 .. n /\ i = n + 1
  BY <1>2, <1>4, <1>5, <1>8, ZenonT(30)
<1>9. QED
  BY <1>3, <1>6, <1>7, <1>8, Zenon

(* A step that leaves the file alone, and the handle unless it starts anew. *)
LEMMA NonceKept ==
    ASSUME NonceInv, wal'.recs = wal.recs,
           \/ h' = h /\ srv'.pc = srv.pc
           \/ /\ srv'.pc \notin {"sidecar", "serve", "finish"}
              /\ h' = h \/ h' = NoHandle
    PROVE  NonceInv'
  BY DEF NonceInv, NoncesDistinct, NoHandle

(* OpenShard forgets the counter, and replay has to find it again.         *)
LEMMA NonceStart ==
    ASSUME TypeOK, NonceInv,
           \/ \E c \in Configs : StartServer(c)
           \/ \E f \in Files : LoadEnvelope(f)
           \/ OpenShard \/ LoadSnapshot
    PROVE  NonceInv'
<1>1. CASE \E c \in Configs : StartServer(c)
  <2>1. wal' = wal /\ h' = NoHandle /\ srv'.pc = "keys"
    BY <1>1 DEF StartServer
  <2>2. QED
    BY <2>1, NonceKept, SMTT(30)
<1>2. ASSUME NEW f \in Files, LoadEnvelope(f) PROVE NonceInv'
  <2>1. srv.pc = "keys" /\ srv'.pc \in {"keys", "failed"}
    BY <1>2 DEF LoadEnvelope, Failed, TypeOK, Process
  <2>2. QED
    BY <1>2, <2>1, NonceKept DEF LoadEnvelope, ServerUnchanged
<1>3. CASE OpenShard
  <2>1. wal'.recs = wal.recs /\ srv'.pc \in {"failed", "load"}
    BY <1>3, Zenon DEF OpenShard, TypeOK, LogFile, Process
  <2>2. h'.ver = 0 => h'.dek = 0
    BY <1>3 DEF OpenShard, NonceInv
  <2>3. QED
    BY <2>1, <2>2, Zenon DEF NonceInv, NoncesDistinct
<1>4. CASE LoadSnapshot
  <2>1. srv'.pc \in {"failed", "replay"}
    BY <1>4 DEF LoadSnapshot, TypeOK, Process
  <2>2. QED
    BY <1>4, <2>1, NonceKept DEF LoadSnapshot
<1>5. QED
  BY <1>1, <1>2, <1>3, <1>4

(* Replay puts the counter above those of all the records that stay in     *)
(* the file.                                                               *)
LEMMA NonceReplay ==
    ASSUME TypeOK, NonceInv, Replay \/ FinishReplay
    PROVE  NonceInv'
<1> DEFINE recs == Valid(wal.recs, h.dek)
<1>1. /\ wal.recs \in Seq(Record) /\ recs \in Seq(Record) /\ Len(recs) <= Len(wal.recs)
      /\ \A i \in 1 .. Len(recs) : recs[i] = wal.recs[i] /\ recs[i].dek = h.dek
  BY ValidIsSeq DEF TypeOK, LogFile, Good
<1>2. h \in Handle /\ sidecar \in Nat
  BY DEF TypeOK
<1>3. CASE Replay
  <2>1. wal' = wal /\ srv'.pc = "finish" /\ h'.ver = h.ver /\ h'.dek = h.dek
    BY <1>2, <1>3, SMTT(30) DEF Replay, TypeOK, Process, Handle
  <2>2. ASSUME h.ver = 1 PROVE Below(recs, h.dek, h'.ctr)
    <3>1. h'.ctr = IF sidecar > NextCounter(recs) THEN sidecar ELSE NextCounter(recs)
      BY <1>2, <1>3, <2>2, SMTT(30) DEF Replay, Handle
    <3>2. \A i \in 1 .. Len(recs) : recs[i].ctr \in Nat
      <4>1. \A i \in 1 .. Len(recs) : recs[i] \in Record
        BY <1>1, SMTT(30)
      <4>2. QED
        BY <4>1 DEF Record
    <3>3. NextCounter(recs) \in Nat /\ \A i \in 1 .. Len(recs) : recs[i].ctr < NextCounter(recs)
      BY <1>1, CounterAbove
    <3>4. QED
      BY <1>1, <1>2, <3>1, <3>2, <3>3 DEF Below
  <2>3. QED
    BY <2>1, <2>2, Zenon DEF NonceInv, NoncesDistinct
<1>4. CASE FinishReplay
  <2>1. wal'.recs = recs /\ h' = h /\ srv.pc = "finish" /\ srv'.pc # "finish"
    BY <1>4, SMTT(30) DEF FinishReplay, TypeOK, LogFile, Process
  <2>2. NoncesDistinct'
    <3>1. \A i \in DOMAIN recs : i \in DOMAIN wal.recs /\ recs[i] = wal.recs[i]
      BY <1>1
    <3>2. QED
      BY <2>1, <3>1 DEF NonceInv, NoncesDistinct
  <2>3. QED
    BY <2>1, <2>2, Zenon DEF NonceInv
<1>5. QED
  BY <1>3, <1>4, SMTT(30)

(* migrateToEncrypted numbers the records of the new file and goes on      *)
(* after the last.                                                         *)
LEMMA NonceMigrate ==
    ASSUME TypeOK, KeyInv, NonceInv, MigrateRename \/ MigrateFails \/ MigrateSidecar
    PROVE  NonceInv'
<1>1. CASE MigrateRename
  <2>1. PICK order \in [1 .. Cardinality(Live) -> Live] : wal'.recs = MigratedLog(order)
    BY <1>1 DEF MigrateRename
  <2>2. Cardinality(Live) \in Nat
    BY EncryptedWalAssumption, FS_Subset, FS_CardinalityType, SMTT(30) DEF Live
  <2>3. /\ DOMAIN wal'.recs = 1 .. Cardinality(Live)
        /\ \A i \in 1 .. Cardinality(Live) : wal'.recs[i].dek = DataKey /\ wal'.recs[i].ctr = i - 1
    BY <2>1 DEF MigratedLog
  <2>4. Len(wal'.recs) = Cardinality(Live)
    BY <2>2, <2>3
  <2>5. h'.ver = 1 /\ h'.dek = DataKey /\ h'.ctr = Cardinality(Live) /\ srv'.pc = "sidecar"
    BY <1>1 DEF MigrateRename, TypeOK, Process
  <2>6. NoncesDistinct'
    BY <2>2, <2>3 DEF NoncesDistinct
  <2>7. Below(wal'.recs, DataKey, Cardinality(Live))
    BY <2>2, <2>3, <2>4 DEF Below
  <2>8. QED
    BY <2>5, <2>6, <2>7 DEF NonceInv
<1>2. CASE MigrateFails
  <2>1. srv'.pc = "failed"
    BY <1>2 DEF MigrateFails, TypeOK, Process
  <2>2. QED
    BY <1>2, <2>1, NonceKept DEF MigrateFails, ServerUnchanged
<1>3. CASE MigrateSidecar
  <2>1. srv.pc = "sidecar" /\ srv'.pc = "serve"
    BY <1>3 DEF MigrateSidecar, TypeOK, Process
  <2>2. QED
    BY <1>3, <2>1 DEF MigrateSidecar, NonceInv, NoncesDistinct
<1>4. QED
  BY <1>1, <1>2, <1>3, SMTT(30)

(* An append uses the counter once, also if it fails with part of the      *)
(* record written.                                                         *)
LEMMA NonceService ==
    ASSUME TypeOK, NonceInv,
           \/ \E k \in Keys, v \in Vals \cup {None} : Write(k, v)
           \/ WriteFails \/ PublishSnapshot \/ TruncateWAL
    PROVE  NonceInv'
<1>1. h \in Handle /\ wal.recs \in Seq(Record)
  BY DEF TypeOK, LogFile
<1>2. CounterUsed.ver = h.ver /\ CounterUsed.dek = h.dek /\ (h.ver = 1 => CounterUsed.ctr = h.ctr + 1)
  BY <1>1 DEF CounterUsed, Handle
<1>3. \A i \in 1 .. Len(wal.recs) : wal.recs[i].ctr \in Nat
  <2>1. \A i \in 1 .. Len(wal.recs) : wal.recs[i] \in Record
    BY <1>1
  <2>2. QED
    BY <2>1 DEF Record
<1>4. h.ctr \in Nat
  BY <1>1 DEF Handle
<1>5. ASSUME NEW k \in Keys, NEW v \in Vals \cup {None}, Write(k, v) PROVE NonceInv'
  <2> DEFINE r == Rec(k, v, TRUE)
  <2>1. r \in Record /\ wal'.recs = Append(wal.recs, r) /\ r.dek = h.dek /\ r.ctr = h.ctr
    BY <1>5, AppendType, Zenon DEF Write, Rec
  <2>2. NoncesDistinct'
    BY <1>5, <2>1, NonceAppend, Zenon DEF Write
  <2>3. h' = CounterUsed /\ srv' = srv /\ srv.pc = "serve"
    BY <1>5 DEF Write
  <2>4. ASSUME h.ver = 1 PROVE Below(wal'.recs, h.dek, h.ctr + 1)
    <3> HIDE DEF r
    <3>1. Below(wal.recs, h.dek, h.ctr)
      BY <2>3, <2>4 DEF NonceInv
    <3>2. /\ Len(wal'.recs) = Len(wal.recs) + 1 /\ wal'.recs[Len(wal.recs) + 1] = r
          /\ \A i \in 1 .. Len(wal.recs) : wal'.recs[i] = wal.recs[i]
      BY <1>1, <2>1
    <3>3. \A i \in 1 .. Len(wal.recs) + 1 : i \in 1 .. Len(wal.recs) \/ i = Len(wal.recs) + 1
      BY <1>1
    <3>4. SUFFICES ASSUME NEW i \in 1 .. Len(wal.recs) + 1
                   PROVE  wal'.recs[i].dek = h.dek /\ wal'.recs[i].ctr < h.ctr + 1
      BY <3>2, Zenon DEF Below
    <3>5. CASE i \in 1 .. Len(wal.recs)
      <4>1. /\ wal'.recs[i] = wal.recs[i] /\ wal.recs[i].dek = h.dek
            /\ wal.recs[i].ctr < h.ctr /\ wal.recs[i].ctr \in Nat
        BY <1>3, <3>1, <3>2, <3>5, Zenon DEF Below
      <4>2. QED
        BY <1>4, <4>1
    <3>6. CASE i = Len(wal.recs) + 1
      BY <1>4, <2>1, <3>2, <3>6, SMTT(30)
    <3>7. QED
      BY <3>3, <3>5, <3>6, Zenon
  <2>5. QED
    BY <1>2, <2>2, <2>3, <2>4 DEF NonceInv
<1>6. CASE WriteFails
  <2>1. wal' = wal /\ srv' = srv /\ srv.pc = "serve" /\ h.ver = 1 /\ h' = CounterUsed
    BY <1>6, ZenonT(30) DEF WriteFails
  <2>2. Below(wal.recs, h.dek, h.ctr) /\ NoncesDistinct'
    BY <2>1, SMTT(30) DEF NonceInv, NoncesDistinct
  <2>3. Below(wal.recs, h.dek, h.ctr + 1)
    BY <1>3, <1>4, <2>2 DEF Below
  <2>4. QED
    BY <1>2, <2>1, <2>2, <2>3 DEF NonceInv
<1>7. CASE PublishSnapshot \/ TruncateWAL
  <2>1. srv'.pc = srv.pc
    BY <1>7 DEF PublishSnapshot, TruncateWAL, TypeOK, Process
  <2>2. QED
    BY <1>7, <2>1, NonceKept DEF PublishSnapshot, TruncateWAL
<1>8. QED
  BY <1>5, <1>6, <1>7

(* A crash adds at most the record of the append it interrupts.            *)
LEMMA NonceEnd ==
    ASSUME TypeOK, NonceInv, Crash \/ CrashInWrite \/ OfflineRewrap
    PROVE  NonceInv'
<1>1. CASE OfflineRewrap
  BY <1>1, NonceKept DEF OfflineRewrap, walVars
<1>2. CASE Crash \/ CrashInWrite
  <2>1. srv'.pc = "down" /\ h' = NoHandle
    <3>1. srv.starts \in 0 .. MaxStarts
      BY DEF TypeOK, Process
    <3>2. QED
      BY <1>2, <3>1, NoProcessType, Zenon DEF Crash, CrashInWrite
  <2>2. CASE wal'.recs = wal.recs
    BY <2>1, <2>2, NonceKept
  <2>3. CASE srv.pc = "serve" /\ wal' = Append1(None, None, FALSE)
    <3>1. Rec(None, None, FALSE) \in Record /\ wal'.recs = Append(wal.recs, Rec(None, None, FALSE))
      BY <2>3, AppendType, Zenon
    <3>2. NoncesDistinct'
      BY <2>3, <3>1, NonceAppend, Zenon DEF Rec
    <3>3. QED
      BY <2>1, <3>2, Zenon DEF NonceInv, NoHandle
  <2>4. CASE Crash
    <3>1. [wal EXCEPT !.fresh = FALSE].recs = wal.recs
          /\ \A x \in {"empty", "short"} : [wal EXCEPT !.ver = x, !.fresh = FALSE].recs = wal.recs
      BY DEF TypeOK, LogFile
    <3>2. QED
      BY <2>2, <2>4, <3>1, Zenon DEF Crash
  <2>5. CASE CrashInWrite
    <3>1. [wal EXCEPT !.ver = "short", !.fresh = FALSE].recs = wal.recs
      BY DEF TypeOK, LogFile
    <3>2. QED
      BY <2>2, <2>3, <2>5, <3>1, Zenon DEF CrashInWrite
  <2>6. QED
    BY <1>2, <2>4, <2>5
<1>3. QED
  BY <1>1, <1>2

(* No two records of an encrypted log are sealed under one DEK with one     *)
(* counter: allocateNonce never repeats what replayWALEncrypted, the        *)
(* sidecar or migrateToEncrypted may have left behind.                      *)
THEOREM NoncesAreDistinct == Spec => []NoncesDistinct
<1>1. BaseInv /\ NonceInv /\ [Next]_vars => NonceInv'
  <2> SUFFICES ASSUME BaseInv, NonceInv, [Next]_vars PROVE NonceInv'
    OBVIOUS
  <2>1. CASE UNCHANGED vars
    BY <2>1, NonceKept DEF vars, walVars
  <2>2. CASE Next
    BY <2>2, NonceStart, NonceReplay, NonceMigrate, NonceService, NonceEnd DEF Next, BaseInv
  <2>3. QED
    BY <2>1, <2>2
<1>2. NonceInv => NoncesDistinct
  BY DEF NonceInv
<1>3. QED
  BY <1>1, <1>2, Base, NonceInit, PTL DEF Spec
=============================================================================
