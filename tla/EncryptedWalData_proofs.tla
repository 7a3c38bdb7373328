----------------------- MODULE EncryptedWalData_proofs -----------------------
(***************************************************************************)
(* Proofs that no acknowledged write is lost on the way from a plaintext   *)
(* log to an encrypted one and back through any crashes, provided that the *)
(* configured key is never used as the data key itself (NoDirect): then    *)
(* the key of the records is the one in the envelope for good.             *)
(***************************************************************************)
EXTENDS EncryptedWal_proofs

NoDirect == \A c \in Configs : c.mode # "direct"

(***************************************************************************)
(* The invariant                                                           *)
(***************************************************************************)

(* The key of the records in the file.                                     *)
FileDek == IF wal.ver = "enc" THEN env[Mine].dek ELSE 0

(* What replay would read.                                                 *)
Kept == Valid(wal.recs, FileDek)

(* The last record of key k has value w; without a record w is None.       *)
Says(recs, k, w) ==
    \/ Mentions(recs, k) = {} /\ w = None
    \/ \E i \in 1 .. Len(recs) : LastOf(recs, k, i) /\ recs[i].val = w

Mentioned(recs) == {k \in Keys : Mentions(recs, k) # {}}

AllGood(recs, dek) == \A i \in 1 .. Len(recs) : Good(recs, dek, i)

(* The log says what was acknowledged.  A file that may lose its magic     *)
(* number has no records yet.                                              *)
FileInv ==
    /\ wal.ver = "enc" => env[Mine] # Missing
    /\ wal.ver \in {"empty", "short"} \/ wal.fresh => wal.recs = <<>>
    /\ \A k \in Keys : Says(Kept, k, acked[k])

(* The handle has the key of the file; after a migration, or if none is    *)
(* due, that is the key of the configuration.                              *)
HandleInv ==
    /\ srv.pc \notin {"down", "failed", "keys"} =>
          /\ wal.ver # "short"
          /\ h.dek = FileDek /\ (h.ver = 1 <=> wal.ver = "enc")
          /\ IF h.migrate THEN wal.ver # "enc" /\ DataKey # 0 ELSE DataKey = FileDek
    /\ srv.pc = "migrate" => h.migrate
    /\ srv.pc \in {"sidecar", "serve"} => ~h.migrate
    /\ srv.pc \in {"migrate", "sidecar", "serve"} => AllGood(wal.recs, FileDek)

(* Replay comes after the snapshot, so that a key of the snapshot which    *)
(* the log does not mention would come back.  There is none in a snapshot  *)
(* with the fingerprint of the log; one taken before a migration has       *)
(* another fingerprint.                                                    *)
SnapLive == {k \in Keys : snap.data[k].val # None}

SnapInv ==
    snap # None =>
        /\ wal.ver # "enc" \/ wal.fresh =>
              SnapLive \subseteq (IF snap.fp = 0 THEN Mentioned(Kept) ELSE {})
        /\ wal.ver = "enc" /\ snap.fp # 0 => SnapLive \subseteq Mentioned(Kept)

EngineInv ==
    /\ srv.pc \in {"keys", "load"} => engine = Empty
    /\ srv.pc = "replay" => \A k \in Keys : engine[k].val # None => k \in Mentioned(Kept)
    /\ srv.pc \in {"finish", "migrate", "sidecar", "serve"} =>
          \A k \in Keys : engine[k].val = acked[k] /\ (acked[k] # None => engine[k].dek = DataKey)

DataInv == FileInv /\ HandleInv /\ SnapInv /\ EngineInv

(***************************************************************************)
(* What a log says                                                         *)
(***************************************************************************)

(* Replay, over an engine that has no value of its own for a key without   *)
(* record, stores what the log says.                                       *)
LEMMA SaysApplied ==
    ASSUME NEW recs \in Seq(Record), NEW k \in Keys, NEW w, Says(recs, k, w), NEW dek,
           NEW before \in Stored, k \notin Mentioned(recs) => before.val = None
    PROVE  /\ Applied(recs, k, before, dek).val = w
           /\ w # None => Applied(recs, k, before, dek).dek = dek
<1>1. CASE Mentions(recs, k) = {} /\ w = None
  BY <1>1, AppliedNone DEF Mentioned
<1>2. ASSUME NEW i \in 1 .. Len(recs), LastOf(recs, k, i), recs[i].val = w
      PROVE  /\ Applied(recs, k, before, dek).val = w
             /\ w # None => Applied(recs, k, before, dek).dek = dek
  <2>1. Applied(recs, k, before, dek)
          = [val |-> recs[i].val, dek |-> IF recs[i].val = None THEN 0 ELSE dek]
    BY <1>2, AppliedLast
  <2>2. QED
    BY <1>2, <2>1
<1>3. QED
  BY <1>1, <1>2 DEF Says

(* A key with a value has a record.                                        *)
LEMMA SaysMentioned ==
    ASSUME NEW recs, NEW k \in Keys, NEW w, Says(recs, k, w), w # None
    PROVE  k \in Mentioned(recs)
  BY DEF Says, LastOf, Mentioned

(* An append speaks for its key, and leaves the others alone.              *)
LEMMA SaysAppend ==
    ASSUME NEW recs \in Seq(Record), NEW r \in Record, NEW k, NEW w,
           IF k = r.key THEN w = r.val ELSE Says(recs, k, w)
    PROVE  Says(Append(recs, r), k, w)
<1>1. PICK n \in Nat : n = Len(recs)
  OBVIOUS
<1>2. PICK t : t = Append(recs, r)
  BY Zenon
<1>3. t \in Seq(Record) /\ Len(t) = n + 1 /\ t[n + 1] = r /\ \A i \in 1 .. n : t[i] = recs[i]
  BY <1>1, <1>2
<1>4. DOMAIN t = 1 .. n + 1 /\ DOMAIN recs = 1 .. n
  BY <1>1, <1>3
<1>5. \A i \in 1 .. n + 1 : i \in 1 .. n \/ i = n + 1
  BY <1>1
<1> HIDE <1>2
<1>6. CASE k = r.key
  <2>1. LastOf(t, k, n + 1)
    BY <1>1, <1>3, <1>4, <1>6 DEF LastOf, Mentions
  <2>2. QED
    BY <1>1, <1>2, <1>3, <1>6, <2>1 DEF Says
<1>7. CASE k # r.key
  <2>1. Mentions(t, k) = Mentions(recs, k)
    BY <1>3, <1>4, <1>5, <1>7 DEF Mentions
  <2>2. CASE Mentions(recs, k) = {} /\ w = None
    BY <1>2, <2>1, <2>2 DEF Says
  <2>3. ASSUME NEW i \in 1 .. Len(recs), LastOf(recs, k, i), recs[i].val = w
        PROVE  Says(t, k, w)
    <3>1. i \in 1 .. n + 1 /\ t[i] = recs[i]
      BY <1>1, <1>3, <2>3
    <3>2. LastOf(t, k, i)
      BY <2>1, <2>3 DEF LastOf
    <3>3. QED
      BY <1>3, <2>3, <3>1, <3>2 DEF Says
  <2>4. QED
    BY <1>2, <1>7, <2>2, <2>3 DEF Says
<1>8. QED
  BY <1>6, <1>7

(* No key is forgotten by an append.                                       *)
LEMMA MentionedAppend ==
    ASSUME NEW recs \in Seq(Record), NEW r \in Record
    PROVE  Mentioned(recs) \subseteq Mentioned(Append(recs, r))
<1>1. \A i \in DOMAIN recs : i \in DOMAIN Append(recs, r) /\ Append(recs, r)[i] = recs[i]
  OBVIOUS
<1>2. QED
  BY <1>1 DEF Mentioned, Mentions

(* An empty log says nothing.                                              *)
LEMMA SaysNothing ==
    ASSUME NEW k, NEW dek
    PROVE  /\ Valid(<<>>, dek) = <<>> /\ Mentioned(<<>>) = {}
           /\ Says(<<>>, k, None) /\ \A w : Says(<<>>, k, w) => w = None
<1>1. <<>> \in Seq(Record) /\ Len(<<>>) = 0 /\ DOMAIN <<>> = {}
  OBVIOUS
<1>2. Valid(<<>>, dek) = <<>>
  <2>1. PICK n \in 0 .. 0 : Valid(<<>>, dek) = SubSeq(<<>>, 1, n)
    BY <1>1, ValidPrefix, Zenon
  <2>2. QED
    BY <2>1
<1>3. QED
  BY <1>1, <1>2 DEF Mentioned, Mentions, Says, LastOf

(* A log without damage is read to its end.                                *)
LEMMA GoodIsKept ==
    ASSUME NEW recs \in Seq(Record), NEW dek, AllGood(recs, dek)
    PROVE  Valid(recs, dek) = recs
<1>1. PICK n \in 0 .. Len(recs) :
              /\ Valid(recs, dek) = SubSeq(recs, 1, n)
              /\ n = Len(recs) \/ ~Good(recs, dek, n + 1)
  BY ValidPrefix
<1>2. n = Len(recs)
  BY <1>1 DEF AllGood
<1>3. QED
  BY <1>1, <1>2

(* What is read has no damage.                                             *)
LEMMA KeptIsGood ==
    ASSUME NEW recs \in Seq(Record), NEW dek
    PROVE  AllGood(Valid(recs, dek), dek) /\ Valid(Valid(recs, dek), dek) = Valid(recs, dek)
<1>1. /\ Valid(recs, dek) \in Seq(Record)
      /\ \A i \in 1 .. Len(Valid(recs, dek)) : Valid(recs, dek)[i] = recs[i] /\ Good(recs, dek, i)
  BY ValidIsSeq
<1>2. AllGood(Valid(recs, dek), dek)
  BY <1>1 DEF AllGood, Good
<1>3. QED
  BY <1>1, <1>2, GoodIsKept

(* A whole record under the key of the log leaves it without damage.       *)
LEMMA GoodAppend ==
    ASSUME NEW recs \in Seq(Record), NEW r \in Record, NEW dek, AllGood(recs, dek),
           r.whole, r.dek = dek
    PROVE  AllGood(Append(recs, r), dek)
<1>1. /\ Len(Append(recs, r)) = Len(recs) + 1 /\ Append(recs, r)[Len(recs) + 1] = r
      /\ \A i \in 1 .. Len(recs) : Append(recs, r)[i] = recs[i]
  OBVIOUS
<1>2. \A i \in 1 .. Len(recs) + 1 : i \in 1 .. Len(recs) \/ i = Len(recs) + 1
  OBVIOUS
<1>3. QED
  BY <1>1, <1>2 DEF AllGood, Good

(* A torn record after a log without damage costs nothing.                 *)
LEMMA TornAppend ==
    ASSUME NEW recs \in Seq(Record), NEW r \in Record, NEW dek, AllGood(recs, dek), ~r.whole
    PROVE  Valid(Append(recs, r), dek) = recs
<1>1. PICK L \in Nat : L = Len(recs)
  OBVIOUS
<1>2. PICK t : t = Append(recs, r)
  BY Zenon
<1>21. t \in Seq(Record)
  BY <1>2
<1>3. Len(t) = L + 1 /\ t[L + 1] = r /\ \A i \in 1 .. L : t[i] = recs[i]
  BY <1>1, <1>2
<1>4. PICK n \in 0 .. Len(t) :
              /\ Valid(t, dek) = SubSeq(t, 1, n)
              /\ \A i \in 1 .. n : Good(t, dek, i)
              /\ n = Len(t) \/ ~Good(t, dek, n + 1)
  BY <1>21, ValidPrefix
<1>5. \A i \in 1 .. L : Good(t, dek, i)
  BY <1>1, <1>3 DEF AllGood, Good
<1>6. ~Good(t, dek, L + 1)
  BY <1>3 DEF Good
<1>7. n = L
  BY <1>3, <1>4, <1>5, <1>6
<1>8. SubSeq(t, 1, L) = recs
  BY <1>1, <1>21, <1>3
<1>9. QED
  BY <1>2, <1>4, <1>7, <1>8

(***************************************************************************)
(* Keys                                                                    *)
(***************************************************************************)

(* A data key is the one in the envelope.                                  *)
LEMMA KeyIsEnvelopes ==
    ASSUME NoDirect, TypeOK, KeyInv, srv.pc \notin {"down", "failed"}, srv.todo = {}
    PROVE  IF srv.conf.mode = "plain" THEN DataKey = 0
           ELSE env[Mine] # Missing /\ DataKey = env[Mine].dek /\ DataKey # 0
<1>1. srv.conf \in Configs /\ srv.conf.mode \in {"plain", "envelope"}
  BY EncryptedWalAssumption DEF TypeOK, Process, NoDirect
<1>2. CASE srv.conf.mode = "plain"
  BY <1>2 DEF DataKey
<1>3. CASE srv.conf.mode = "envelope"
  <2>1. env[Mine] # Missing /\ env[Mine] \in EnvelopeFile
    BY <1>3, EncryptedWalAssumption DEF TypeOK, EnvelopeTypeOK, KeyInv
  <2>2. env[Mine].dek # 0
    BY <2>1 DEF EnvelopeFile
  <2>3. QED
    BY <1>3, <2>1, <2>2 DEF DataKey
<1>4. QED
  BY <1>1, <1>2, <1>3

(* The key of the file is 0 for plaintext only.                            *)
LEMMA FileDekType ==
    ASSUME TypeOK, FileInv
    PROVE  FileDek = 0 <=> wal.ver # "enc"
<1>1. CASE wal.ver = "enc"
  <2>1. env[Mine] \in EnvelopeFile
    BY <1>1, EncryptedWalAssumption DEF TypeOK, EnvelopeTypeOK, FileInv
  <2>2. env[Mine].dek # 0
    BY <2>1 DEF EnvelopeFile
  <2>3. QED
    BY <1>1, <2>2 DEF FileDek
<1>2. QED
  BY <1>1 DEF FileDek

(* What replay reads has the type of a log.                                *)
LEMMA KeptType ==
    ASSUME TypeOK
    PROVE  wal.recs \in Seq(Record) /\ Kept \in Seq(Record)
<1>1. wal.recs \in Seq(Record)
  BY DEF TypeOK, LogFile
<1>2. QED
  BY <1>1, ValidIsSeq DEF Kept

(* Creating and rewrapping envelopes leave the key of the file alone.      *)
LEMMA EnvelopesKeepFile ==
    ASSUME BaseInv, [Next]_vars, FileInv, wal' = wal
    PROVE  FileDek' = FileDek /\ (wal.ver = "enc" => env'[Mine] # Missing)
<1> USE DEF BaseInv
<1>1. CASE wal.ver # "enc"
  BY <1>1 DEF FileDek
<1>2. CASE wal.ver = "enc"
  <2>1. env[Mine] # Missing /\ Mine \in Files
    BY <1>2, EncryptedWalAssumption DEF FileInv
  <2>2. CASE env' = env
    BY <2>1, <2>2 DEF FileDek
  <2>3. ASSUME NEW f \in Files, env[f] = Missing, NEW e \in EnvelopeFile, env' = [env EXCEPT ![f] = e]
        PROVE  env'[Mine] = env[Mine]
    BY <2>1, <2>3 DEF TypeOK, EnvelopeTypeOK
  <2>4. ASSUME NEW f \in Files, RewrapWrite(f)
        PROVE  env'[Mine] # Missing /\ env'[Mine].dek = env[Mine].dek
    <3>1. Present' = Present /\ env'[Mine].dek = env[Mine].dek
      BY <2>1, <2>4, RewrapWriteEffect DEF TypeOK
    <3>2. QED
      BY <2>1, <3>1 DEF Present
  <2>5. env'[Mine] # Missing /\ env'[Mine].dek = env[Mine].dek
    BY <2>1, <2>2, <2>3, <2>4, EnvelopeStep
  <2>6. QED
    BY <2>5 DEF FileDek
<1>3. QED
  BY <1>1, <1>2

(* A step that leaves the files alone.                                     *)
LEMMA FilesKept ==
    ASSUME BaseInv, [Next]_vars, FileInv, SnapInv, UNCHANGED <<wal, snap, acked>>
    PROVE  FileDek' = FileDek /\ Kept' = Kept /\ FileInv' /\ SnapInv'
<1>1. FileDek' = FileDek /\ (wal.ver = "enc" => env'[Mine] # Missing)
  BY EnvelopesKeepFile
<1>2. Kept' = Kept
  BY <1>1 DEF Kept
<1>3. FileInv'
  BY <1>1, <1>2 DEF FileInv
<1>4. SnapInv'
  BY <1>1, <1>2 DEF SnapInv, SnapLive
<1>5. QED
  BY <1>1, <1>2, <1>3, <1>4

(* The invariant holds before the first start.                             *)
LEMMA DataInit == Init => DataInv
<1> SUFFICES ASSUME Init PROVE DataInv
  OBVIOUS
<1>1. srv.pc = "down"
  <2>1. 0 \in 0 .. MaxStarts
    BY EncryptedWalAssumption
  <2>2. QED
    BY <2>1, NoProcessType DEF Init
<1>2. wal.ver = "empty" /\ wal.recs = <<>> /\ snap = None
  BY DEF Init
<1>3. FileInv
  <2>1. Kept = <<>>
    BY <1>2, SaysNothing DEF Kept
  <2>2. \A k \in Keys : acked[k] = None
    BY DEF Init
  <2>3. QED
    BY <1>2, <2>1, <2>2, SaysNothing DEF FileInv
<1>4. QED
  BY <1>1, <1>2, <1>3 DEF DataInv, HandleInv, SnapInv, EngineInv

(***************************************************************************)
(* Start-up                                                                *)
(***************************************************************************)

(* A process that starts has an empty engine, and loading keys touches     *)
(* neither log nor snapshot.                                               *)
LEMMA DataKeys ==
    ASSUME BaseInv, DataInv, [Next]_vars,
           \/ \E c \in Configs : StartServer(c)
           \/ \E f \in Files : LoadEnvelope(f)
    PROVE  DataInv'
<1>1. UNCHANGED <<wal, snap, acked>>
  BY DEF StartServer, LoadEnvelope, ServerUnchanged
<1>2. FileInv' /\ SnapInv'
  BY <1>1, FilesKept DEF DataInv
<1>3. CASE \E c \in Configs : StartServer(c)
  <2>1. srv'.pc = "keys" /\ engine' = Empty
    BY <1>3 DEF StartServer
  <2>2. Empty' = Empty
    BY DEF Empty
  <2>3. QED
    BY <1>2, <2>1, <2>2 DEF DataInv, HandleInv, EngineInv
<1>4. CASE \E f \in Files : LoadEnvelope(f)
  <2>1. srv.pc = "keys" /\ srv'.pc \in {"keys", "failed"} /\ engine' = engine
    BY <1>4 DEF LoadEnvelope, Failed, ServerUnchanged, BaseInv, TypeOK, Process
  <2>2. QED
    BY <1>2, <2>1 DEF DataInv, HandleInv, EngineInv, Empty
<1>5. QED
  BY <1>3, <1>4

(* OpenShard: an empty file becomes an encrypted one and says nothing, as  *)
(* before; any other stays, and its kind decides about the key.            *)
LEMMA DataOpen ==
    ASSUME NoDirect, BaseInv, DataInv, [Next]_vars, OpenShard
    PROVE  DataInv'
<1>1. /\ srv.pc = "keys" /\ srv.todo = {} /\ UNCHANGED <<env, snap, engine, acked>>
      /\ srv \in Process /\ wal \in LogFile
  BY DEF OpenShard, envelopeVars, BaseInv, TypeOK
<1>2. IF srv.conf.mode = "plain" THEN DataKey = 0
      ELSE env[Mine] # Missing /\ DataKey = env[Mine].dek /\ DataKey # 0
  BY <1>1, KeyIsEnvelopes DEF BaseInv
<1>3. FileDek = 0 <=> wal.ver # "enc"
  BY FileDekType DEF BaseInv, DataInv
<1>4. CASE wal.ver = "short" \/ (wal.ver = "enc" /\ DataKey = 0)
  <2>1. srv'.pc = "failed" /\ wal' = wal
    BY <1>1, <1>4 DEF OpenShard, Process
  <2>2. FileInv' /\ SnapInv'
    BY <1>1, <2>1, FilesKept DEF DataInv
  <2>3. QED
    BY <2>1, <2>2 DEF DataInv, HandleInv, EngineInv
<1>5. CASE ~(wal.ver = "short" \/ (wal.ver = "enc" /\ DataKey = 0))
  <2>1. /\ srv'.pc = "load" /\ srv'.conf = srv.conf
        /\ wal' = IF wal.ver = "empty" /\ DataKey # 0
                  THEN [wal EXCEPT !.ver = "enc", !.fresh = TRUE] ELSE wal
        /\ h' = [ver     |-> IF wal'.ver = "enc" THEN 1 ELSE 0,
                 dek     |-> IF wal'.ver = "enc" THEN DataKey ELSE 0,
                 ctr     |-> 0,
                 migrate |-> wal.ver = "plain" /\ DataKey # 0]
    BY <1>1, <1>5 DEF OpenShard, Process
  <2>2. DataKey' = DataKey
    BY <1>1, <2>1 DEF DataKey
  <2>3. EngineInv'
    BY <1>1, <2>1 DEF DataInv, EngineInv, Empty
  <2>4. wal.ver \in {"empty", "plain", "enc"}
    BY <1>1, <1>5 DEF LogFile
  <2>5. CASE wal.ver = "empty" /\ DataKey # 0
    <3>1. wal'.ver = "enc" /\ wal'.recs = wal.recs /\ wal'.fresh /\ wal.recs = <<>>
      BY <1>1, <2>1, <2>5 DEF LogFile, DataInv, FileInv
    <3>2. Kept = <<>> /\ Kept' = <<>>
      BY <3>1, SaysNothing DEF Kept
    <3>3. env[Mine] # Missing /\ DataKey = env[Mine].dek /\ FileDek' = DataKey
      BY <1>1, <1>2, <2>5, <3>1 DEF FileDek
    <3>4. FileInv'
      BY <1>1, <3>1, <3>2, <3>3 DEF DataInv, FileInv
    <3>5. SnapInv'
      <4>1. snap # None => SnapLive \subseteq (IF snap.fp = 0 THEN Mentioned(Kept) ELSE {})
        BY <2>5 DEF DataInv, SnapInv
      <4>2. SnapLive' = SnapLive /\ snap' = snap /\ Mentioned(Kept)' = Mentioned(Kept)
        BY <1>1, <3>2 DEF SnapLive, Mentioned, Mentions
      <4>3. QED
        BY <4>1, <4>2 DEF SnapInv
    <3>6. h'.dek = DataKey /\ h'.ver = 1 /\ ~h'.migrate
      BY <2>1, <2>5, <3>1, Zenon
    <3>7. HandleInv'
      BY <2>1, <2>2, <3>1, <3>3, <3>6 DEF HandleInv
    <3>8. QED
      BY <2>3, <3>4, <3>5, <3>7 DEF DataInv
  <2>6. CASE ~(wal.ver = "empty" /\ DataKey # 0)
    <3>1. wal' = wal
      BY <2>1, <2>6
    <3>2. FileInv' /\ SnapInv' /\ FileDek' = FileDek
      BY <1>1, <3>1, FilesKept DEF DataInv
    <3>3. wal.ver = "enc" => DataKey = FileDek
      BY <1>2, <1>5 DEF FileDek
    <3>4. (h'.ver = 1 <=> wal.ver = "enc") /\ h'.dek = FileDek
      <4>1. /\ h'.ver = IF wal'.ver = "enc" THEN 1 ELSE 0
            /\ h'.dek = IF wal'.ver = "enc" THEN DataKey ELSE 0
        BY <2>1, Zenon
      <4>2. QED
        BY <3>1, <3>3, <4>1 DEF FileDek
    <3>5. h'.migrate = (wal.ver = "plain" /\ DataKey # 0)
      BY <2>1, Zenon
    <3>6. HandleInv'
      BY <1>3, <2>1, <2>2, <2>4, <2>6, <3>1, <3>2, <3>3, <3>4, <3>5, Zenon DEF HandleInv
    <3>7. QED
      BY <2>3, <3>2, <3>6 DEF DataInv
  <2>7. QED
    BY <2>5, <2>6
<1>6. QED
  BY <1>4, <1>5

(* The snapshot with the fingerprint of the log has no key that the log    *)
(* does not mention.                                                       *)
LEMMA DataLoad ==
    ASSUME NoDirect, BaseInv, DataInv, [Next]_vars, LoadSnapshot
    PROVE  DataInv'
<1>1. srv.pc = "load" /\ UNCHANGED <<env, h, wal, snap, acked>> /\ srv \in Process
  BY DEF LoadSnapshot, envelopeVars, BaseInv, TypeOK
<1>2. FileInv' /\ SnapInv' /\ FileDek' = FileDek /\ Kept' = Kept
  BY <1>1, FilesKept DEF DataInv
<1>3. h.dek = FileDek /\ (FileDek = 0 <=> wal.ver # "enc")
  BY <1>1, FileDekType DEF BaseInv, DataInv, HandleInv
<1>4. CASE snap # None /\ snap.fp # h.dek
  <2>1. srv'.pc = "failed"
    BY <1>1, <1>4 DEF LoadSnapshot, Process
  <2>2. QED
    BY <1>2, <2>1 DEF DataInv, HandleInv, EngineInv
<1>5. CASE ~(snap # None /\ snap.fp # h.dek)
  <2>1. /\ srv'.pc = "replay" /\ srv'.conf = srv.conf
        /\ engine' = IF snap = None THEN engine ELSE snap.data
    BY <1>1, <1>5 DEF LoadSnapshot, Process
  <2>2. DataKey' = DataKey
    BY <1>1, <2>1 DEF DataKey
  <2>3. HandleInv'
    BY <1>1, <1>2, <2>1, <2>2 DEF DataInv, HandleInv
  <2>4. \A k \in Keys : engine'[k].val # None => k \in Mentioned(Kept)
    <3>1. CASE snap = None
      BY <1>1, <2>1, <3>1 DEF DataInv, EngineInv, Empty
    <3>2. CASE snap # None
      <4>1. SnapLive \subseteq Mentioned(Kept)
        BY <1>3, <1>5, <3>2, Zenon DEF DataInv, SnapInv
      <4>2. QED
        BY <2>1, <3>2, <4>1 DEF SnapLive
    <3>3. QED
      BY <3>1, <3>2, Zenon
  <2>5. EngineInv'
    BY <1>2, <2>1, <2>4, Zenon DEF EngineInv, Mentioned, Mentions
  <2>6. QED
    BY <1>2, <2>3, <2>5 DEF DataInv
<1>6. QED
  BY <1>4, <1>5

(* After the replay the engine has what the log says, under the data key.  *)
LEMMA DataReplay ==
    ASSUME NoDirect, BaseInv, DataInv, [Next]_vars, Replay
    PROVE  DataInv'
<1>1. srv.pc = "replay" /\ UNCHANGED <<env, wal, snap, acked>> /\ srv \in Process /\ h \in Handle
  BY DEF Replay, envelopeVars, BaseInv, TypeOK
<1>2. FileInv' /\ SnapInv' /\ FileDek' = FileDek /\ Kept' = Kept
  BY <1>1, FilesKept DEF DataInv
<1>3. h.dek = FileDek /\ Kept = Valid(wal.recs, h.dek)
  BY <1>1 DEF DataInv, HandleInv, Kept
<1>4. srv'.pc = "finish" /\ srv'.conf = srv.conf /\ DataKey' = DataKey
  BY <1>1, Zenon DEF Replay, Process, DataKey
<1>5. h'.dek = h.dek /\ h'.ver = h.ver /\ h'.migrate = h.migrate
  BY <1>1 DEF Replay, Handle
<1>6. HandleInv'
  BY <1>1, <1>2, <1>4, <1>5 DEF DataInv, HandleInv
<1>7. engine' = [k \in Keys |-> Applied(Kept, k, engine[k], DataKey)]
  BY <1>3 DEF Replay
<1>8. ASSUME NEW k \in Keys
      PROVE  engine'[k].val = acked[k] /\ (acked[k] # None => engine'[k].dek = DataKey)
  <2>1. Says(Kept, k, acked[k]) /\ Kept \in Seq(Record) /\ engine[k] \in Stored
    BY KeptType, Zenon DEF DataInv, FileInv, BaseInv, TypeOK
  <2>2. k \notin Mentioned(Kept) => engine[k].val = None
    BY <1>1 DEF DataInv, EngineInv
  <2>3. /\ Applied(Kept, k, engine[k], DataKey).val = acked[k]
        /\ acked[k] # None => Applied(Kept, k, engine[k], DataKey).dek = DataKey
    BY <2>1, <2>2, SaysApplied
  <2>4. QED
    BY <1>7, <2>3, Zenon
<1>9. EngineInv'
  BY <1>1, <1>4, <1>8 DEF EngineInv
<1>10. QED
  BY <1>2, <1>6, <1>9 DEF DataInv

(* finishReplay keeps what was read.                                       *)
LEMMA DataFinish ==
    ASSUME NoDirect, BaseInv, DataInv, [Next]_vars, FinishReplay
    PROVE  DataInv'
<1>1. /\ srv.pc = "finish" /\ UNCHANGED <<env, h, snap, engine, acked>>
      /\ srv \in Process /\ wal \in LogFile
  BY DEF FinishReplay, envelopeVars, BaseInv, TypeOK
<1>2. /\ h.dek = FileDek /\ Kept = Valid(wal.recs, h.dek) /\ (h.ver = 1 <=> wal.ver = "enc")
      /\ h.ver \in {0, 1}
  BY <1>1 DEF DataInv, HandleInv, Kept, BaseInv, TypeOK, Handle
<1>3. /\ srv'.pc = IF h.migrate THEN "migrate" ELSE "serve"
      /\ srv'.conf = srv.conf /\ DataKey' = DataKey
  BY <1>1, Zenon DEF FinishReplay, Process, DataKey
<1>4. /\ wal'.recs = Kept /\ wal'.fresh = wal.fresh
      /\ wal'.ver = IF h.ver = 0 /\ Kept = <<>> THEN "empty" ELSE wal.ver
  BY <1>1, <1>2 DEF FinishReplay, LogFile
<1>5. (wal'.ver = "enc" <=> wal.ver = "enc") /\ FileDek' = FileDek
  BY <1>1, <1>2, <1>4 DEF FileDek
<1>6. AllGood(Kept, FileDek) /\ Kept' = Kept
  BY <1>4, <1>5, KeptType, KeptIsGood, Zenon DEF Kept, BaseInv
<1>7. FileInv'
  <2>1. wal.recs = <<>> => Kept = <<>>
    BY SaysNothing DEF Kept
  <2>2. wal'.ver \in {"empty", "short"} \/ wal'.fresh => wal'.recs = <<>>
    BY <1>4, <2>1, Zenon DEF DataInv, FileInv
  <2>3. QED
    BY <1>1, <1>5, <1>6, <2>2 DEF DataInv, FileInv
<1>8. SnapInv'
  BY <1>1, <1>4, <1>5, <1>6 DEF DataInv, SnapInv, SnapLive, Mentioned, Mentions
<1>9. HandleInv'
  BY <1>1, <1>3, <1>4, <1>5, <1>6, Zenon DEF DataInv, HandleInv, AllGood, Good
<1>10. EngineInv'
  BY <1>1, <1>3 DEF DataInv, EngineInv
<1>11. QED
  BY <1>7, <1>8, <1>9, <1>10 DEF DataInv

(***************************************************************************)
(* Migration                                                               *)
(***************************************************************************)

(* ForEach yields every key that is live, once.                            *)
LEMMA OrderIsComplete ==
    ASSUME NEW L, IsFiniteSet(L), NEW order \in [1 .. Cardinality(L) -> L],
           \A i, j \in DOMAIN order : order[i] = order[j] => i = j
    PROVE  Cardinality(L) \in Nat /\ \A k \in L : \E i \in 1 .. Cardinality(L) : order[i] = k
<1>1. PICK n \in Nat : n = Cardinality(L)
  BY FS_CardinalityType
<1>2. order \in [1 .. n -> L] /\ \A i, j \in 1 .. n : order[i] = order[j] => i = j
  BY <1>1
<1>3. order \in Injection(1 .. n, L)
  BY <1>2 DEF Injection, IsInjective
<1>4. Cardinality(1 .. n) = n
  <2>1. 1 \in Int /\ n \in Int
    OBVIOUS
  <2>2. Cardinality(1 .. n) = IF 1 > n THEN 0 ELSE n - 1 + 1
    BY <2>1, FS_Interval
  <2>3. QED
    BY <2>2
<1>5. order \in Surjection(1 .. n, L)
  BY <1>1, <1>3, <1>4, FS_Injection
<1>6. QED
  BY <1>1, <1>5 DEF Surjection

(* The new file says of every key what the engine has.                     *)
LEMMA MigratedSays ==
    ASSUME TypeOK, NEW order \in [1 .. Cardinality(Live) -> Live],
           \A i, j \in DOMAIN order : order[i] = order[j] => i = j,
           NEW recs \in Seq(Record), recs = MigratedLog(order)
    PROVE  /\ AllGood(recs, DataKey)
           /\ \A k \in Keys : Says(recs, k, engine[k].val)
<1>1. IsFiniteSet(Live) /\ Live \subseteq Keys
  BY EncryptedWalAssumption, FS_Subset DEF Live
<1>2. /\ Cardinality(Live) \in Nat
      /\ \A k \in Live : \E i \in 1 .. Cardinality(Live) : order[i] = k
  BY <1>1, OrderIsComplete, Zenon
<1>3. PICK n \in Nat : n = Cardinality(Live)
  BY <1>2
<1>4. /\ DOMAIN recs = 1 .. n
      /\ \A i \in 1 .. n : /\ recs[i].key = order[i] /\ recs[i].val = engine[order[i]].val
                           /\ recs[i].dek = DataKey /\ recs[i].whole = TRUE
  BY <1>3, Zenon DEF MigratedLog
<1>5. Len(recs) = n
  BY <1>4
<1>6. AllGood(recs, DataKey)
  BY <1>4, <1>5 DEF AllGood, Good
<1>7. ASSUME NEW k \in Keys PROVE Says(recs, k, engine[k].val)
  <2>1. CASE k \in Live
    <3>1. PICK i \in 1 .. n : order[i] = k
      BY <1>2, <1>3, <2>1
    <3>2. \A j \in 1 .. n : order[j] = k => j = i
      BY <1>3, <3>1
    <3>3. LastOf(recs, k, i)
      BY <1>4, <3>1, <3>2, SMTT(30) DEF LastOf, Mentions
    <3>4. recs[i].val = engine[k].val
      BY <1>4, <3>1
    <3>5. QED
      BY <1>5, <3>3, <3>4 DEF Says
  <2>2. CASE k \notin Live
    <3>1. engine[k].val = None
      BY <2>2 DEF Live
    <3>2. \A i \in 1 .. n : order[i] \in Live
      BY <1>3
    <3>3. Mentions(recs, k) = {}
      BY <1>4, <2>2, <3>2 DEF Mentions
    <3>4. QED
      BY <3>1, <3>3 DEF Says
  <2>3. QED
    BY <2>1, <2>2
<1>8. QED
  BY <1>6, <1>7

(* The rename of migrateToEncrypted replaces the log by one that says the  *)
(* same.  A snapshot of before has another fingerprint, and one with the   *)
(* fingerprint of the new log is empty.                                    *)
LEMMA DataMigrate ==
    ASSUME NoDirect, BaseInv, BaseInv', DataInv, [Next]_vars, MigrateRename
    PROVE  DataInv'
<1>1. /\ srv.pc = "migrate" /\ UNCHANGED <<env, snap, engine, acked>>
      /\ srv \in Process /\ srv.todo = {}
  BY DEF MigrateRename, envelopeVars, BaseInv, TypeOK, KeyInv
<1>2. PICK order \in [1 .. Cardinality(Live) -> Live] :
        /\ \A i, j \in DOMAIN order : order[i] = order[j] => i = j
        /\ wal' = [ver |-> "enc", recs |-> MigratedLog(order), fresh |-> FALSE]
  BY Zenon DEF MigrateRename
<1>3. wal'.ver = "enc" /\ wal'.recs = MigratedLog(order) /\ wal'.fresh = FALSE
  BY <1>2, Zenon
<1>4. srv'.pc = "sidecar" /\ srv'.conf = srv.conf /\ DataKey' = DataKey
  BY <1>1, Zenon DEF MigrateRename, Process, DataKey
<1>5. h'.ver = 1 /\ h'.dek = DataKey /\ h'.migrate = FALSE
  BY Zenon DEF MigrateRename
<1>6. wal.ver # "enc" /\ DataKey # 0
  BY <1>1 DEF DataInv, HandleInv
<1>7. env[Mine] # Missing /\ DataKey = env[Mine].dek
  BY <1>1, <1>6, KeyIsEnvelopes, Zenon DEF BaseInv
<1>8. FileDek' = DataKey
  BY <1>1, <1>3, <1>7, Zenon DEF FileDek
<1>9. wal'.recs \in Seq(Record)
  BY DEF BaseInv, TypeOK, LogFile
<1>10. AllGood(wal'.recs, DataKey) /\ \A k \in Keys : Says(wal'.recs, k, engine[k].val)
  BY <1>2, <1>3, <1>9, MigratedSays, Zenon DEF BaseInv
<1>11. Kept' = wal'.recs
  BY <1>8, <1>9, <1>10, GoodIsKept, Zenon DEF Kept
<1>12. FileInv'
  <2>1. \A k \in Keys : engine[k].val = acked[k]
    BY <1>1, Zenon DEF DataInv, EngineInv
  <2>2. \A k \in Keys : Says(Kept', k, acked'[k])
    BY <1>1, <1>10, <1>11, <2>1, Zenon
  <2>3. QED
    BY <1>1, <1>3, <1>7, <2>2, Zenon DEF FileInv
<1>13. SnapInv'
  <2>1. snap # None /\ snap.fp # 0 => SnapLive \subseteq {}
    BY <1>6 DEF DataInv, SnapInv
  <2>2. SnapLive' = SnapLive
    BY <1>1, Zenon DEF SnapLive
  <2>3. QED
    BY <1>1, <1>3, <2>1, <2>2, Zenon DEF SnapInv
<1>14. HandleInv'
  BY <1>3, <1>4, <1>5, <1>8, <1>10, ZenonT(30) DEF HandleInv
<1>15. EngineInv'
  BY <1>1, <1>4 DEF DataInv, EngineInv
<1>16. QED
  BY <1>12, <1>13, <1>14, <1>15, Zenon DEF DataInv

(* The other steps of a migration touch no data.                           *)
LEMMA DataSidecar ==
    ASSUME NoDirect, BaseInv, DataInv, [Next]_vars, MigrateFails \/ MigrateSidecar
    PROVE  DataInv'
<1>1. UNCHANGED <<env, h, wal, snap, engine, acked>> /\ srv \in Process
  BY DEF MigrateFails, MigrateSidecar, ServerUnchanged, envelopeVars, BaseInv, TypeOK
<1>2. FileInv' /\ SnapInv' /\ FileDek' = FileDek
  BY <1>1, FilesKept, Zenon DEF DataInv
<1>3. CASE MigrateFails
  <2>1. srv'.pc = "failed"
    BY <1>1, <1>3 DEF MigrateFails, Process
  <2>2. QED
    BY <1>2, <2>1, Zenon DEF DataInv, HandleInv, EngineInv
<1>4. CASE MigrateSidecar
  <2>1. srv.pc = "sidecar" /\ srv'.pc = "serve" /\ srv'.conf = srv.conf /\ DataKey' = DataKey
    BY <1>1, <1>4, Zenon DEF MigrateSidecar, Process, DataKey
  <2>2. HandleInv'
    BY <1>1, <1>2, <2>1, Zenon DEF DataInv, HandleInv, AllGood, Good
  <2>3. EngineInv'
    BY <1>1, <2>1, Zenon DEF DataInv, EngineInv
  <2>4. QED
    BY <1>2, <2>2, <2>3 DEF DataInv
<1>5. QED
  BY <1>3, <1>4

(***************************************************************************)
(* Service                                                                 *)
(***************************************************************************)

(* What is known of a shard that serves.                                   *)
LEMMA Serving ==
    ASSUME NoDirect, BaseInv, DataInv, srv.pc = "serve"
    PROVE  /\ h.dek = FileDek /\ DataKey = FileDek /\ ~h.migrate
           /\ AllGood(wal.recs, FileDek) /\ Kept = wal.recs
           /\ wal.recs \in Seq(Record)
<1>1. h.dek = FileDek /\ DataKey = FileDek /\ ~h.migrate /\ AllGood(wal.recs, FileDek)
  BY DEF DataInv, HandleInv
<1>2. wal.recs \in Seq(Record)
  BY SMTT(30) DEF BaseInv, TypeOK, LogFile
<1>3. QED
  BY <1>1, <1>2, GoodIsKept, Zenon DEF Kept

(* The first append to an empty file makes it plaintext; otherwise the     *)
(* kind of the file stays.                                                 *)
LEMMA AppendFile ==
    ASSUME NoDirect, BaseInv, DataInv, srv.pc = "serve", UNCHANGED env,
           NEW k \in Keys \cup {None}, NEW w \in Vals \cup {None}, NEW ok \in BOOLEAN,
           wal' = Append1(k, w, ok)
    PROVE  /\ wal'.recs = Append(wal.recs, Rec(k, w, ok)) /\ wal'.fresh = FALSE
           /\ (wal'.ver = "enc" <=> wal.ver = "enc") /\ wal'.ver \notin {"empty", "short"}
           /\ FileDek' = FileDek /\ Rec(k, w, ok) \in Record
<1>1. wal'.recs = Append(wal.recs, Rec(k, w, ok)) /\ Rec(k, w, ok) \in Record
  BY AppendType, Zenon DEF BaseInv
<1>2. wal'.fresh = FALSE /\ wal'.ver = IF wal.ver = "empty" THEN "plain" ELSE wal.ver
  BY Zenon DEF Append1
<1>3. wal.ver # "short"
  BY DEF DataInv, HandleInv
<1>4. QED
  BY <1>1, <1>2, <1>3 DEF FileDek

(* A write that is acknowledged is in the log, under the key of the log.   *)
LEMMA DataWrite ==
    ASSUME NoDirect, BaseInv, DataInv, [Next]_vars,
           NEW k \in Keys, NEW w \in Vals \cup {None}, Write(k, w)
    PROVE  DataInv'
<1> DEFINE r == Rec(k, w, TRUE)
<1>1. /\ srv.pc = "serve" /\ UNCHANGED <<env, srv, snap>>
      /\ wal' = Append1(k, w, TRUE) /\ h' = CounterUsed
      /\ engine' = [engine EXCEPT ![k] = [val |-> w, dek |-> IF w = None THEN 0 ELSE DataKey]]
      /\ acked' = [acked EXCEPT ![k] = w]
  BY DEF Write, envelopeVars
<1>2. /\ h.dek = FileDek /\ DataKey = FileDek /\ ~h.migrate
      /\ AllGood(wal.recs, FileDek) /\ Kept = wal.recs
      /\ wal.recs \in Seq(Record)
  BY <1>1, Serving
<1>3. /\ wal'.recs = Append(wal.recs, r) /\ wal'.fresh = FALSE
      /\ (wal'.ver = "enc" <=> wal.ver = "enc") /\ wal'.ver \notin {"empty", "short"}
      /\ FileDek' = FileDek /\ r \in Record
  BY <1>1, AppendFile, Zenon
<1>4. r.key = k /\ r.val = w /\ r.dek = h.dek /\ r.whole = TRUE
  BY Zenon DEF Rec
<1> HIDE DEF r
<1>5. AllGood(wal'.recs, FileDek)
  BY <1>2, <1>3, <1>4, GoodAppend, Zenon
<1>6. Kept' = wal'.recs
  <2>1. wal'.recs \in Seq(Record)
    BY <1>2, <1>3
  <2>2. QED
    BY <1>3, <1>5, <2>1, GoodIsKept, Zenon DEF Kept
<1>7. Mentioned(Kept) \subseteq Mentioned(Kept')
  BY <1>2, <1>3, <1>6, MentionedAppend
<1>8. FileInv'
  <2>1. ASSUME NEW j \in Keys PROVE Says(Kept', j, acked'[j])
    <3>1. IF j = k THEN acked'[j] = w ELSE Says(wal.recs, j, acked'[j])
      BY <1>1, <1>2, Zenon DEF DataInv, FileInv, BaseInv, TypeOK
    <3>2. QED
      BY <1>2, <1>3, <1>4, <1>6, <3>1, SaysAppend, Zenon
  <2>2. QED
    BY <1>1, <1>3, <2>1, Zenon DEF DataInv, FileInv
<1>9. SnapInv'
  <2>1. SnapLive' = SnapLive /\ snap' = snap /\ Mentioned(Kept)' = Mentioned(Kept')
    BY <1>1, Zenon DEF SnapLive, Mentioned, Mentions
  <2>2. QED
    BY <1>3, <1>7, <2>1, Zenon DEF DataInv, SnapInv
<1>10. h'.ver = h.ver /\ h'.dek = h.dek /\ h'.migrate = h.migrate
  BY <1>1 DEF CounterUsed, BaseInv, TypeOK, Handle
<1>11. DataKey' = DataKey
  BY <1>1 DEF DataKey
<1>12. HandleInv'
  BY <1>1, <1>2, <1>3, <1>5, <1>10, <1>11, Zenon DEF DataInv, HandleInv
<1>13. EngineInv'
  <2>1. ASSUME NEW j \in Keys
        PROVE  engine'[j].val = acked'[j] /\ (acked'[j] # None => engine'[j].dek = DataKey)
    <3>1. CASE j = k
      BY <1>1, <3>1 DEF BaseInv, TypeOK
    <3>2. CASE j # k
      BY <1>1, <3>2, Zenon DEF BaseInv, TypeOK, DataInv, EngineInv
    <3>3. QED
      BY <3>1, <3>2, Zenon
  <2>2. QED
    BY <1>1, <1>11, <2>1, Zenon DEF EngineInv
<1>14. QED
  BY <1>8, <1>9, <1>12, <1>13, Zenon DEF DataInv

(* The image of the engine is covered by the log.                          *)
LEMMA DataSnapshot ==
    ASSUME NoDirect, BaseInv, DataInv, [Next]_vars, WriteFails \/ PublishSnapshot \/ TruncateWAL
    PROVE  DataInv'
<1>1. /\ srv.pc = "serve" /\ UNCHANGED <<env, wal, engine, acked>>
      /\ srv \in Process /\ h \in Handle
  BY DEF WriteFails, PublishSnapshot, TruncateWAL, envelopeVars, BaseInv, TypeOK
<1>2. srv'.pc = "serve" /\ srv'.conf = srv.conf
  BY <1>1 DEF WriteFails, PublishSnapshot, TruncateWAL, Process
<1>3. h'.ver = h.ver /\ h'.dek = h.dek /\ h'.migrate = h.migrate
  BY <1>1 DEF WriteFails, PublishSnapshot, TruncateWAL, CounterUsed, Handle
<1>4. FileDek' = FileDek /\ DataKey' = DataKey /\ Kept' = Kept
  BY <1>1, <1>2, Zenon DEF FileDek, DataKey, Kept
<1>5. FileInv'
  BY <1>1, <1>4, Zenon DEF DataInv, FileInv
<1>6. HandleInv'
  BY <1>1, <1>2, <1>3, <1>4, Zenon DEF DataInv, HandleInv, AllGood, Good
<1>7. EngineInv'
  BY <1>1, <1>2, <1>4, Zenon DEF DataInv, EngineInv
<1>8. SnapInv'
  <2>1. CASE snap' = snap
    BY <1>1, <1>4, <2>1, Zenon DEF DataInv, SnapInv, SnapLive, Mentioned, Mentions
  <2>2. CASE PublishSnapshot
    <3>1. snap'.fp = h.dek /\ snap'.data = engine
      BY <2>2 DEF PublishSnapshot
    <3>2. h.dek = FileDek /\ Kept = wal.recs /\ (FileDek = 0 <=> wal.ver # "enc")
      BY <1>1, Serving, FileDekType, Zenon DEF BaseInv, DataInv
    <3>3. \A k \in Keys : engine[k].val # None => k \in Mentioned(Kept)
      <4>1. \A k \in Keys : engine[k].val = acked[k] /\ Says(Kept, k, acked[k])
        BY <1>1, Zenon DEF DataInv, EngineInv, FileInv
      <4>2. QED
        BY <4>1, SaysMentioned, Zenon
    <3>4. SnapLive' \subseteq Mentioned(Kept)
      BY <3>1, <3>3, Zenon DEF SnapLive
    <3>5. wal.fresh => Mentioned(Kept) = {}
      BY <3>2, SaysNothing, Zenon DEF DataInv, FileInv
    <3>6. Mentioned(Kept)' = Mentioned(Kept)
      BY <1>4 DEF Mentioned, Mentions
    <3>7. QED
      BY <1>1, <3>1, <3>2, <3>4, <3>5, <3>6, Zenon DEF SnapInv
  <2>3. QED
    BY <2>1, <2>2, Zenon DEF WriteFails, TruncateWAL
<1>9. QED
  BY <1>5, <1>6, <1>7, <1>8, Zenon DEF DataInv

(***************************************************************************)
(* The end of a process                                                    *)
(***************************************************************************)

(* A crash may take the magic number from a file without records.          *)
LEMMA DataCrash ==
    ASSUME NoDirect, BaseInv, DataInv, [Next]_vars, Crash
    PROVE  DataInv'
<1>1. UNCHANGED <<env, snap, acked>> /\ wal \in LogFile
  BY DEF Crash, envelopeVars, BaseInv, TypeOK
<1>2. srv'.pc = "down"
  <2>1. srv.starts \in 0 .. MaxStarts
    BY DEF BaseInv, TypeOK, Process
  <2>2. QED
    BY <2>1, NoProcessType DEF Crash
<1>3. HandleInv' /\ EngineInv'
  BY <1>2 DEF HandleInv, EngineInv
<1>4. wal'.recs = wal.recs /\ wal'.fresh = FALSE
      /\ (wal'.ver = wal.ver \/ (wal.fresh /\ wal'.ver \in {"empty", "short"}))
  BY <1>1, Zenon DEF Crash, LogFile
<1>5. CASE wal'.ver = wal.ver
  <2>1. FileDek' = FileDek /\ Kept' = Kept
    BY <1>1, <1>4, <1>5, Zenon DEF FileDek, Kept
  <2>2. FileInv'
    BY <1>1, <1>4, <1>5, <2>1, Zenon DEF DataInv, FileInv
  <2>3. SnapInv'
    BY <1>1, <1>4, <1>5, <2>1, Zenon DEF DataInv, SnapInv, SnapLive, Mentioned, Mentions
  <2>4. QED
    BY <1>3, <2>2, <2>3 DEF DataInv
<1>6. CASE wal.fresh /\ wal'.ver \in {"empty", "short"}
  <2>1. wal.recs = <<>> /\ Kept = <<>> /\ Kept' = <<>>
    BY <1>4, <1>6, SaysNothing, Zenon DEF DataInv, FileInv, Kept
  <2>2. FileInv'
    BY <1>1, <1>4, <1>6, <2>1, Zenon DEF DataInv, FileInv
  <2>3. SnapInv'
    BY <1>1, <1>4, <1>6, <2>1 DEF DataInv, SnapInv, SnapLive, Mentioned, Mentions
  <2>4. QED
    BY <1>3, <2>2, <2>3 DEF DataInv
<1>7. QED
  BY <1>4, <1>5, <1>6

(* A torn append is not read, and costs no record that was there before.   *)
LEMMA DataTorn ==
    ASSUME NoDirect, BaseInv, DataInv, [Next]_vars, CrashInWrite
    PROVE  DataInv'
<1>1. srv.pc = "serve" /\ UNCHANGED <<env, snap, acked>> /\ wal \in LogFile
  BY DEF CrashInWrite, envelopeVars, BaseInv, TypeOK
<1>2. srv'.pc = "down"
  <2>1. srv.starts \in 0 .. MaxStarts
    BY DEF BaseInv, TypeOK, Process
  <2>2. QED
    BY <2>1, NoProcessType, Zenon DEF CrashInWrite
<1>3. HandleInv' /\ EngineInv'
  BY <1>2 DEF HandleInv, EngineInv
<1>4. /\ AllGood(wal.recs, FileDek) /\ Kept = wal.recs /\ wal.recs \in Seq(Record)
  BY <1>1, Serving, Zenon
<1>5. CASE wal' = Append1(None, None, FALSE)
  <2> DEFINE r == Rec(None, None, FALSE)
  <2>1. /\ wal'.recs = Append(wal.recs, r) /\ wal'.fresh = FALSE
        /\ (wal'.ver = "enc" <=> wal.ver = "enc") /\ wal'.ver \notin {"empty", "short"}
        /\ FileDek' = FileDek /\ r \in Record
    BY <1>1, <1>5, AppendFile, Zenon
  <2>2. r.whole = FALSE
    BY Zenon DEF Rec
  <2> HIDE DEF r
  <2>3. Valid(wal'.recs, FileDek) = wal.recs
    BY <1>4, <2>1, <2>2, TornAppend, Zenon
  <2>4. Kept' = Kept
    BY <1>4, <2>1, <2>3, Zenon DEF Kept
  <2>5. FileInv'
    BY <1>1, <2>1, <2>4, Zenon DEF DataInv, FileInv
  <2>6. SnapInv'
    BY <1>1, <2>1, <2>4, Zenon DEF DataInv, SnapInv, SnapLive, Mentioned, Mentions
  <2>7. QED
    BY <1>3, <2>5, <2>6 DEF DataInv
<1>6. CASE (wal.ver = "empty" \/ wal.fresh) /\ wal' = [wal EXCEPT !.ver = "short", !.fresh = FALSE]
  <2>1. wal'.recs = wal.recs /\ wal'.ver = "short" /\ wal'.fresh = FALSE
    BY <1>1, <1>6 DEF LogFile
  <2>2. wal.recs = <<>> /\ Kept = <<>> /\ Kept' = <<>>
    BY <1>6, <2>1, SaysNothing, Zenon DEF DataInv, FileInv, Kept
  <2>3. FileInv'
    BY <1>1, <2>1, <2>2, SMTT(30) DEF DataInv, FileInv
  <2>4. SnapInv'
    <3>1. UNCHANGED snap /\ SnapLive' = SnapLive /\ Mentioned(Kept)' = Mentioned(Kept)
      BY <1>1, <2>2, Zenon DEF SnapLive, Mentioned, Mentions
    <3>2. SnapInv /\ (wal.ver # "enc" \/ wal.fresh)
      BY <1>6, Zenon DEF DataInv
    <3>3. QED
      BY <2>1, <3>1, <3>2 DEF SnapInv
  <2>5. QED
    BY <1>3, <2>3, <2>4 DEF DataInv
<1>7. QED
  BY <1>5, <1>6, Zenon DEF CrashInWrite

(* The rewrap of envelopes keeps the key of the file.                      *)
LEMMA DataRewrap ==
    ASSUME NoDirect, BaseInv, DataInv, [Next]_vars, OfflineRewrap
    PROVE  DataInv'
<1>1. srv.pc \in {"down", "failed"} /\ srv' = srv /\ UNCHANGED <<wal, snap, acked>>
  BY DEF OfflineRewrap, walVars
<1>2. FileInv' /\ SnapInv'
  BY <1>1, FilesKept DEF DataInv
<1>3. QED
  BY <1>1, <1>2, Zenon DEF DataInv, HandleInv, EngineInv

(***************************************************************************)
(* The theorems                                                            *)
(***************************************************************************)

(* Every step keeps the invariant.                                         *)
LEMMA DataStep ==
    ASSUME NoDirect, BaseInv, BaseInv', DataInv, [Next]_vars
    PROVE  DataInv'
<1>1. CASE UNCHANGED vars
  <2>1. UNCHANGED <<env, srv, h, wal, snap, engine, acked>>
    BY <1>1 DEF vars, envelopeVars, walVars
  <2>2. FileInv' /\ SnapInv' /\ FileDek' = FileDek /\ Kept' = Kept
    BY <2>1, FilesKept DEF DataInv
  <2>3. DataKey' = DataKey
    BY <2>1, Zenon DEF DataKey
  <2>4. HandleInv'
    BY <2>1, <2>2, <2>3, Zenon DEF DataInv, HandleInv, AllGood, Good
  <2>5. EngineInv'
    BY <2>1, <2>2, <2>3 DEF DataInv, EngineInv, Empty, Mentioned, Mentions
  <2>6. QED
    BY <2>2, <2>4, <2>5, Zenon DEF DataInv
<1>2. CASE Next
  BY <1>2, DataKeys, DataOpen, DataLoad, DataReplay, DataFinish, DataMigrate, DataSidecar,
     DataWrite, DataSnapshot, DataCrash, DataTorn, DataRewrap, Zenon DEF Next
<1>3. QED
  BY <1>1, <1>2

(* The invariant holds in every state.                                     *)
LEMMA DataAlways ==
    ASSUME NoDirect
    PROVE  Spec => []DataInv
<1>1. BaseInv /\ BaseInv' /\ DataInv /\ [Next]_vars => DataInv'
  BY DataStep
<1>2. QED
  BY <1>1, Base, DataInit, PTL DEF Spec

(* A shard that serves shows every acknowledged write, and can decrypt it, *)
(* through migrateToEncrypted, its interruptions, snapshots of before it,  *)
(* torn appends and rewrapped envelopes.                                   *)
THEOREM AcknowledgedIsReadable ==
    ASSUME NoDirect
    PROVE  Spec => []AckedReadable
<1>1. DataInv => AckedReadable
  BY DEF DataInv, EngineInv, AckedReadable
<1>2. QED
  BY <1>1, DataAlways, PTL

(* At any moment, and whatever replay is left with, the log holds the      *)
(* acknowledged writes under a key that exists.                            *)
THEOREM AcknowledgedIsOnDisk ==
    ASSUME NoDirect
    PROVE  Spec => []AckedOnDisk
<1>1. BaseInv /\ DataInv => AckedOnDisk
  <2> SUFFICES ASSUME BaseInv, DataInv PROVE AckedOnDisk
    BY SMTT(30)
  <2>1. FileDek \in {0} \cup Keks \cup {env[f].dek : f \in Present \cap {Mine}}
    BY EncryptedWalAssumption, SMTT(30) DEF FileDek, DataInv, FileInv, Present
  <2>2. ASSUME NEW k \in Keys
        PROVE  Applied(Valid(wal.recs, FileDek), k, Empty[k], FileDek).val = acked[k]
    <3>1. Empty[k] \in Stored /\ Empty[k].val = None
      BY DEF Empty, Stored
    <3>2. Kept \in Seq(Record) /\ Says(Kept, k, acked[k])
      BY KeptType, Zenon DEF BaseInv, DataInv, FileInv
    <3>3. Applied(Kept, k, Empty[k], FileDek).val = acked[k]
      BY <3>1, <3>2, SaysApplied
    <3>4. QED
      BY <3>3 DEF Kept
  <2>3. QED
    BY <2>1, <2>2, Zenon DEF AckedOnDisk
<1>2. QED
  BY <1>1, Base, DataAlways, PTL
==============================================================================
