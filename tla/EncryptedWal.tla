---------------------------- MODULE EncryptedWal ----------------------------
(***************************************************************************)
(* The log of one shard with encryption at rest, over a sequence of server *)
(* processes that may be configured differently: without encryption, with  *)
(* the configured key as the data key, or with an envelope (Envelope).     *)
(*                                                                         *)
(* A record is sealed under a DEK with a counter as nonce; its bytes are   *)
(* the record [key, val, dek, ctr, whole], with dek = 0 for plaintext and  *)
(* whole = FALSE for what a crash has left of an append.  Deadlines and    *)
(* the memory ceiling are Shard's matter, cells of the file WalFile's.     *)
(***************************************************************************)
EXTENDS Envelope, Sequences

CONSTANTS
    Keys, Vals,
    None,         \* no value: a deleted key, and the tombstone of a record
    Configs,      \* [mode : {"plain", "direct", "envelope"}, kek : Keks]
    MaxRecords,   \* bound on the log
    MaxWasted,    \* bound on the counters that failed appends use up
    MaxStarts     \* bound on the number of server processes

ASSUME EncryptedWalAssumption ==
    /\ Mine \in Files /\ Missing \notin EnvelopeFile
    /\ Keks \cap Nat = {}
    /\ None \notin Vals \cup Keys /\ IsFiniteSet(Keys)
    /\ Configs # {} /\ Configs \subseteq [mode : {"plain", "direct", "envelope"}, kek : Keks]
    /\ MaxRecords \in Nat /\ MaxWasted \in Nat /\ MaxStarts \in Nat

VARIABLES
    srv,          \* the process: [pc, conf, todo, dump, starts]
    h,            \* shardHandle: [ver, dek, ctr, migrate]
    wal,          \* the file: [ver, recs, fresh]; fresh: the magic is not synced
    sidecar,      \* the nonce sidecar, 0 if missing
    snap,         \* [fp, data], None if missing
    engine,       \* Engine.items: the value and the DEK its bytes are sealed under
    acked         \* history: for each key, what the last write that took effect left

walVars == <<srv, h, wal, sidecar, snap, engine, acked>>
vars == <<envelopeVars, walVars>>

Empty == [k \in Keys |-> [val |-> None, dek |-> 0]]
NoHandle == [ver |-> 0, dek |-> 0, ctr |-> 0, migrate |-> FALSE]

\* The configuration of a process that is not there does not matter.
NoProcess(n) == [pc |-> "down", conf |-> CHOOSE c \in Configs : TRUE, todo |-> {},
                 dump |-> "no", starts |-> n]

Record == [key : Keys \cup {None}, val : Vals \cup {None}, dek : Nat \cup Keks, ctr : Nat, whole : BOOLEAN]
Stored == [val : Vals \cup {None}, dek : Nat \cup Keks]

Process ==
    [pc : {"down", "keys", "load", "replay", "finish", "migrate", "sidecar", "serve", "failed"},
     conf : Configs, todo : SUBSET Files, dump : {"no", "truncate", "done"}, starts : 0 .. MaxStarts]
Handle == [ver : {0, 1}, dek : Nat \cup Keks, ctr : Nat, migrate : BOOLEAN]
LogFile == [ver : {"empty", "short", "plain", "enc"}, recs : Seq(Record), fresh : BOOLEAN]

TypeOK ==
    /\ EnvelopeTypeOK
    /\ srv \in Process /\ h \in Handle /\ wal \in LogFile
    /\ sidecar \in Nat
    /\ snap = None \/ snap \in [fp : Nat \cup Keks, data : [Keys -> Stored]]
    /\ engine \in [Keys -> Stored]
    /\ acked \in [Keys -> Vals \cup {None}]

Init ==
    /\ EnvelopeInit
    /\ srv = NoProcess(0)
    /\ h = NoHandle
    /\ wal = [ver |-> "empty", recs |-> <<>>, fresh |-> FALSE]
    /\ sidecar = 0 /\ snap = None
    /\ engine = Empty
    /\ acked = [k \in Keys |-> None]

-----------------------------------------------------------------------------
(* What replay makes of a log                                              *)

\* Replay stops at the first record that is cut short or does not decrypt.
Valid(recs, dek) ==
    LET good(n) == \A i \in 1 .. n : recs[i].whole /\ recs[i].dek = dek
    IN  SubSeq(recs, 1, CHOOSE n \in 0 .. Len(recs) :
                            good(n) /\ (n = Len(recs) \/ ~good(n + 1)))

\* Plausible slip: a tombstone is passed over like a record that has expired.
Applied_NoTombstones(recs, k, before, dek) ==
    LET mine == {i \in DOMAIN recs : recs[i].key = k /\ recs[i].val # None}
    IN  IF mine = {} THEN before
        ELSE [val |-> recs[CHOOSE i \in mine : \A j \in mine : j <= i].val, dek |-> dek]

\* The last record of a key decides; a key without record keeps what it has.
Applied(recs, k, before, dek) ==
    LET mine == {i \in DOMAIN recs : recs[i].key = k}
        last == recs[CHOOSE i \in mine : \A j \in mine : j <= i]
    IN  IF mine = {} THEN before
        ELSE [val |-> last.val, dek |-> IF last.val = None THEN 0 ELSE dek]

\* Plausible slip: the counter of a fresh handle is the number of records.
NextCounter_Count(recs) == Len(recs)

\* maxNonce + 1, where maxNonce starts at 0.
NextCounter(recs) ==
    1 + CHOOSE m \in {0} \cup {recs[i].ctr : i \in DOMAIN recs} :
            \A i \in DOMAIN recs : recs[i].ctr <= m

\* The sidecar is replaced by renaming; an error leaves the old one, and all
\* callers go on.
writeNonceSidecar(ctr) ==
    sidecar' \in {ctr} \cup (IF "error" \in DiskFaults THEN {sidecar} ELSE {})

-----------------------------------------------------------------------------
(* Start-up: Run, OpenShard, LoadShard and the replay of the log           *)

ServerUnchanged == UNCHANGED <<h, wal, sidecar, snap, engine, acked>>

StartServer(c) ==
    /\ srv.pc \in {"down", "failed"} /\ srv.starts < MaxStarts
    /\ tool.pc = "off"
    /\ tool' = Idle
    /\ srv' = [pc |-> "keys", conf |-> c, dump |-> "no", starts |-> srv.starts + 1,
               todo |-> IF c.mode = "envelope" THEN Files ELSE {}]
    /\ h' = NoHandle /\ engine' = Empty
    /\ UNCHANGED <<env, drawn, wal, sidecar, snap, acked>>

\* Plausible slip: a KEK that does not match is taken for a first boot.
LoadEnvelope_Regenerates(f) ==
    /\ srv.pc = "keys" /\ f \in srv.todo
    /\ srv' = [srv EXCEPT !.todo = @ \ {f}]
    /\ IF Loads(f, srv.conf.kek)
       THEN UNCHANGED <<env, drawn>>
       ELSE /\ drawn' = drawn + 1
            /\ env' = [env EXCEPT ![f] = [kek |-> srv.conf.kek, dek |-> drawn + 1]]
    /\ ServerUnchanged /\ UNCHANGED tool

\* A failing disk ends start-up.
Failed == IF "error" \in DiskFaults THEN {[srv EXCEPT !.pc = "failed"]} ELSE {}

\* The DEK of one envelope is loaded; on the first boot it is drawn and stored,
\* and Store may fail before the rename or, syncing the directory, after it.  If
\* the file was written with another KEK start-up fails.
LoadEnvelope(f) ==
    /\ srv.pc = "keys" /\ First(f, srv.todo)
    /\ \/ /\ Loads(f, srv.conf.kek)
          /\ srv' = [srv EXCEPT !.todo = @ \ {f}]
          /\ UNCHANGED <<env, drawn>>
       \/ /\ StoreFresh(f, srv.conf.kek)
          /\ srv' \in {[srv EXCEPT !.todo = @ \ {f}]} \cup Failed
       \/ /\ env[f] = Missing
          /\ srv' \in Failed
          /\ UNCHANGED <<env, drawn>>
       \/ /\ env[f] # Missing /\ ~Loads(f, srv.conf.kek)
          /\ srv' = [srv EXCEPT !.pc = "failed"]
          /\ UNCHANGED <<env, drawn>>
    /\ ServerUnchanged /\ UNCHANGED tool

DataKey == CASE srv.conf.mode = "plain"    -> 0
             [] srv.conf.mode = "direct"   -> srv.conf.kek
             [] srv.conf.mode = "envelope" -> env[Mine].dek

\* An empty file gets the magic if there is a key.  The file decides otherwise:
\* sealed without a key is an error, plaintext with a key is to be migrated.
OpenShard ==
    /\ srv.pc = "keys" /\ srv.todo = {}
    /\ IF wal.ver = "short" \/ (wal.ver = "enc" /\ DataKey = 0)
       THEN srv' = [srv EXCEPT !.pc = "failed"] /\ UNCHANGED <<h, wal>>
       ELSE /\ srv' = [srv EXCEPT !.pc = "load"]
            /\ wal' = IF wal.ver = "empty" /\ DataKey # 0
                      THEN [wal EXCEPT !.ver = "enc", !.fresh = TRUE] ELSE wal
            /\ h' = [ver     |-> IF wal'.ver = "enc" THEN 1 ELSE 0,
                     dek     |-> IF wal'.ver = "enc" THEN DataKey ELSE 0,
                     ctr     |-> 0,
                     migrate |-> wal.ver = "plain" /\ DataKey # 0]
    /\ UNCHANGED <<envelopeVars, sidecar, snap, engine, acked>>

\* The snapshot must carry the fingerprint of the handle's key.  Its values
\* enter the engine as they are.
LoadSnapshot ==
    /\ srv.pc = "load"
    /\ IF snap # None /\ snap.fp # h.dek
       THEN srv' = [srv EXCEPT !.pc = "failed"] /\ UNCHANGED engine
       ELSE /\ srv' = [srv EXCEPT !.pc = "replay"]
            /\ engine' = IF snap = None THEN engine ELSE snap.data
    /\ UNCHANGED <<envelopeVars, h, wal, sidecar, snap, acked>>

\* Engine.Set seals what replay yields.  A sealed log also yields the counter,
\* unless the sidecar is ahead of it; the sidecar is written.
Replay ==
    /\ srv.pc = "replay"
    /\ srv' = [srv EXCEPT !.pc = "finish"]
    /\ LET recs == Valid(wal.recs, h.dek)
           top  == NextCounter(recs)
           next == IF sidecar > top THEN sidecar ELSE top
       IN  /\ engine' = [k \in Keys |-> Applied(recs, k, engine[k], DataKey)]
           /\ IF h.ver = 1 THEN h' = [h EXCEPT !.ctr = next] /\ writeNonceSidecar(next)
                           ELSE UNCHANGED <<h, sidecar>>
    /\ UNCHANGED <<envelopeVars, wal, snap, acked>>

\* finishReplay cuts off what was not read.
FinishReplay ==
    /\ srv.pc = "finish"
    /\ srv' = [srv EXCEPT !.pc = IF h.migrate THEN "migrate" ELSE "serve"]
    /\ LET recs == Valid(wal.recs, h.dek)
       IN  wal' = [wal EXCEPT !.recs = recs,
                              !.ver = IF h.ver = 0 /\ recs = <<>> THEN "empty" ELSE @]
    /\ UNCHANGED <<envelopeVars, h, sidecar, snap, engine, acked>>

-----------------------------------------------------------------------------
(* Migration of a plaintext log, at the end of LoadShard                   *)

Live == {k \in Keys : engine[k].val # None}

\* What ForEach yields, in any order, sealed with counters from 0.
MigratedLog(order) ==
    [i \in DOMAIN order |-> [key |-> order[i], val |-> engine[order[i]].val,
                             dek |-> DataKey, ctr |-> i - 1, whole |-> TRUE]]

\* The temporary file is written, synced and renamed over the log.  A value that
\* does not decrypt, or a failing write, gives up with the log untouched.
MigrateRename ==
    /\ srv.pc = "migrate"
    /\ \A k \in Live : engine[k].dek = DataKey
    /\ \E order \in [1 .. Cardinality(Live) -> Live] :
        /\ \A i, j \in DOMAIN order : order[i] = order[j] => i = j
        /\ wal' = [ver |-> "enc", recs |-> MigratedLog(order), fresh |-> FALSE]
    /\ h' = [ver |-> 1, dek |-> DataKey, ctr |-> Cardinality(Live), migrate |-> FALSE]
    /\ srv' = [srv EXCEPT !.pc = "sidecar"]
    /\ UNCHANGED <<envelopeVars, sidecar, snap, engine, acked>>

MigrateFails ==
    /\ srv.pc = "migrate"
    /\ "error" \in DiskFaults \/ \E k \in Live : engine[k].dek # DataKey
    /\ srv' = [srv EXCEPT !.pc = "failed"]
    /\ ServerUnchanged /\ UNCHANGED envelopeVars

\* An error of the sidecar is only logged.
MigrateSidecar ==
    /\ srv.pc = "sidecar"
    /\ srv' = [srv EXCEPT !.pc = "serve"]
    /\ writeNonceSidecar(h.ctr)
    /\ UNCHANGED <<envelopeVars, h, wal, snap, engine, acked>>

-----------------------------------------------------------------------------
(* Service                                                                 *)

Rec(k, v, ok) == [key |-> k, val |-> v, dek |-> h.dek, ctr |-> h.ctr, whole |-> ok]

Append1(k, v, ok) == [ver   |-> IF wal.ver = "empty" THEN "plain" ELSE wal.ver,
                      recs  |-> Append(wal.recs, Rec(k, v, ok)),
                      fresh |-> FALSE]

\* Only a sealed record uses up a counter.
CounterUsed == [h EXCEPT !.ctr = IF h.ver = 1 THEN @ + 1 ELSE @]

\* Storage.Write or Delete, then the engine.
Write(k, v) ==
    /\ srv.pc = "serve" /\ Len(wal.recs) < MaxRecords
    /\ wal' = Append1(k, v, TRUE)
    /\ h' = CounterUsed
    /\ engine' = [engine EXCEPT ![k] = [val |-> v, dek |-> IF v = None THEN 0 ELSE DataKey]]
    /\ acked' = [acked EXCEPT ![k] = v]
    /\ UNCHANGED <<envelopeVars, srv, sidecar, snap>>

\* The first write of an append fails: nothing is in the file, the counter is used.
WriteFails ==
    /\ "error" \in DiskFaults
    /\ srv.pc = "serve" /\ h.ctr <= MaxWasted
    /\ h.ver = 1 /\ h' = CounterUsed
    /\ UNCHANGED <<envelopeVars, srv, wal, sidecar, snap, engine, acked>>

\* Snapshot, bounded to one in a process: the child publishes the engine's bytes
\* with the key's fingerprint ...
PublishSnapshot ==
    /\ srv.pc = "serve" /\ srv.dump = "no"
    /\ snap' = [fp |-> h.dek, data |-> engine]
    /\ srv' = [srv EXCEPT !.dump = "truncate"]
    /\ UNCHANGED <<envelopeVars, h, wal, sidecar, engine, acked>>

\* ... and the sidecar is written before the log is cut at its own size.
TruncateWAL ==
    /\ srv.pc = "serve" /\ srv.dump = "truncate"
    /\ srv' = [srv EXCEPT !.dump = "done"]
    /\ IF h.ver = 1 THEN writeNonceSidecar(h.ctr) ELSE UNCHANGED sidecar
    /\ UNCHANGED <<envelopeVars, h, wal, snap, engine, acked>>

-----------------------------------------------------------------------------
(* The end of a process                                                    *)

\* Of a magic that was never synced a crash leaves any part.
Crash ==
    /\ srv.pc \notin {"down", "failed"}
    /\ srv' = NoProcess(srv.starts)
    /\ wal' \in {[wal EXCEPT !.fresh = FALSE]} \cup
                (IF wal.fresh THEN {[wal EXCEPT !.ver = v, !.fresh = FALSE] : v \in {"empty", "short"}}
                              ELSE {})
    /\ h' = NoHandle /\ engine' = Empty
    /\ UNCHANGED <<envelopeVars, sidecar, snap, acked>>

\* A crash in an append leaves the record, which is Write and then Crash, a part
\* of it, or too little for the next start to tell the kind of file.
CrashInWrite ==
    /\ srv.pc = "serve" /\ Len(wal.recs) < MaxRecords
    /\ srv' = NoProcess(srv.starts)
    /\ h' = NoHandle /\ engine' = Empty
    /\ \/ wal' = Append1(None, None, FALSE)
       \/ /\ wal.ver = "empty" \/ wal.fresh
          /\ wal' = [wal EXCEPT !.ver = "short", !.fresh = FALSE]
    /\ UNCHANGED <<envelopeVars, sidecar, snap, acked>>

\* The operator runs kek rewrap while no server is up.
OfflineRewrap ==
    /\ srv.pc \in {"down", "failed"}
    /\ Rewrap
    /\ UNCHANGED walVars

Next ==
    \/ \E c \in Configs : StartServer(c)
    \/ \E f \in Files : LoadEnvelope(f)
    \/ OpenShard \/ LoadSnapshot \/ Replay \/ FinishReplay
    \/ MigrateRename \/ MigrateFails \/ MigrateSidecar
    \/ \E k \in Keys, v \in Vals \cup {None} : Write(k, v)
    \/ WriteFails \/ PublishSnapshot \/ TruncateWAL
    \/ Crash \/ CrashInWrite \/ OfflineRewrap

Spec == Init /\ [][Next]_vars

-----------------------------------------------------------------------------
(* Properties                                                              *)

\* A shard that serves shows every acknowledged write, and can decrypt it: also
\* after a migration that was interrupted, a snapshot that was taken before it,
\* a torn append, and a rewrap of the envelopes between two starts.
AckedReadable ==
    srv.pc = "serve" =>
        \A k \in Keys : engine[k].val = acked[k] /\ (acked[k] # None => engine[k].dek = DataKey)

\* Whatever state the process is in, the log holds the acknowledged writes under
\* a key that exists: migration never replaces it by something less, and
\* truncation of a torn tail never takes a record along.
AckedOnDisk ==
    \E d \in {0} \cup Keks \cup {env[f].dek : f \in Present \cap {Mine}} :
        \A k \in Keys : Applied(Valid(wal.recs, d), k, Empty[k], d).val = acked[k]

\* No two records of the log are sealed under the same DEK with the same
\* counter: across crashes, torn tails, failed appends, and a migration whose
\* sidecar was never written.
NoncesDistinct ==
    \A i, j \in DOMAIN wal.recs :
        wal.recs[i].dek # 0 /\ wal.recs[i].dek = wal.recs[j].dek
          /\ wal.recs[i].ctr = wal.recs[j].ctr => i = j
=============================================================================
