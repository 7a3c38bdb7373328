---------------------------- MODULE Shard_proofs ----------------------------
(***************************************************************************)
(* Proofs, for every value of the constants of Shard, that its type        *)
(* invariant holds, that nothing is visible before it is logged, and that  *)
(* acknowledged writes are durable.                                        *)
(*                                                                         *)
(* First what an append does to the log, and that every step keeps the     *)
(* type invariant; the requests in flight, who writes the log, and that    *)
(* nothing is visible before it is logged.  Then what the log holds of a   *)
(* request that nothing overlaps, and of a promise; at last the engine and *)
(* the replay.                                                             *)
(***************************************************************************)
EXTENDS Shard, TLAPS

(***************************************************************************)
(* The log                                                                 *)
(***************************************************************************)

(* Appending a record keeps the old ones where they are.                   *)
LEMMA AppendRecord ==
    ASSUME wal \in Seq(Record), NEW r \in Record, wal' = Append(wal, r)
    PROVE  /\ wal' \in Seq(Record)
           /\ Len(wal) \in Nat
           /\ DOMAIN wal = 1 .. Len(wal)
           /\ DOMAIN wal' = 1 .. Len(wal) + 1
           /\ \A i \in DOMAIN wal : wal'[i] = wal[i]
           /\ wal'[Len(wal) + 1] = r
  OBVIOUS

(* A key that no record names is not named after a record of another key.  *)
LEMMA AppendOther ==
    ASSUME wal \in Seq(Record), NEW r \in Record, wal' = Append(wal, r),
           NEW k, k # r.key, \A i \in DOMAIN wal : wal[i].key # k
    PROVE  \A i \in DOMAIN wal' : wal'[i].key # k
  BY AppendRecord

(* The appended record is the last one of its key ...                      *)
LEMMA AppendIsLast ==
    ASSUME wal \in Seq(Record), NEW r \in Record, wal' = Append(wal, r)
    PROVE  \E i \in DOMAIN wal' : IsLast(i, r.key)' /\ wal'[i] = r
  <1>. PICK n \in Nat : n = Len(wal) + 1
    BY AppendRecord
  <1>1. n \in DOMAIN wal' /\ wal'[n] = r
    BY AppendRecord
  <1>2. IsLast(n, r.key)'
    BY AppendRecord, <1>1 DEF IsLast
  <1>. QED  BY <1>1, <1>2

(* A step that leaves the log alone leaves the last record of a key what   *)
(* it is ...                                                               *)
LEMMA SameLast ==
    ASSUME wal' = wal, NEW k, NEW i, IsLast(i, k)
    PROVE  IsLast(i, k)'
  BY Zenon DEF IsLast

(* ... and an append does not change it for the other keys.                *)
LEMMA AppendKeepsLast ==
    ASSUME wal \in Seq(Record), NEW r \in Record, wal' = Append(wal, r),
           NEW k, k # r.key, NEW i \in DOMAIN wal, IsLast(i, k)
    PROVE  i \in DOMAIN wal' /\ IsLast(i, k)' /\ wal'[i] = wal[i]
  BY AppendRecord DEF IsLast

(* Nothing that is in the log is lost by an append.                        *)
LEMMA AppendKeepsInLog ==
    ASSUME wal \in Seq(Record), NEW r \in Record, wal' = Append(wal, r)
    PROVE  /\ \A k, v : InLog(k, v) => InLog(k, v)'
           /\ InLog(r.key, r.ent.val)'
  <1>1. ASSUME NEW k, NEW v, InLog(k, v)
        PROVE  InLog(k, v)'
    BY <1>1, AppendRecord DEF InLog
  <1>2. InLog(r.key, r.ent.val)'
    <2>. Len(wal) + 1 \in DOMAIN wal'  BY AppendRecord
    <2>. QED  BY AppendRecord DEF InLog
  <1>. QED  BY <1>1, <1>2

(* Truncating the file to its own size, as Snapshot does, leaves it as it  *)
(* is.                                                                     *)
LEMMA TruncateKeeps ==
    ASSUME wal \in Seq(Record)
    PROVE  SubSeq(wal, 1, Len(wal)) = wal
  OBVIOUS

(***************************************************************************)
(* Types                                                                   *)
(***************************************************************************)
(* The initial and empty values of the engine and of the event loops have  *)
(* their types.                                                            *)
LEMMA AbsentType == Absent \in Entry /\ NoItems \in Image /\ NoRequest \in Request
  BY DEF Absent, Entry, NoItems, Image, NoRequest, Request

(* The expiration that Execute and Engine.Set compute is a time.           *)
LEMMA DeadlineType ==
    ASSUME now \in Nat, NEW ttl \in TTLs \cup {0}
    PROVE  Deadline(ttl) \in Nat
  BY ShardAssumption DEF Deadline

(* What Persistence.Write and Persistence.Delete append are records of the *)
(* key of the request.                                                     *)
LEMMA LoggedType ==
    ASSUME NEW r \in Request, r.key \in Keys
    PROVE  /\ Logged(r) \in Record /\ Logged(r).key = r.key
           /\ Logged(r).ent = [val |-> r.val, exp |-> r.exp]
           /\ Tombstone(r.key) \in Record /\ Tombstone(r.key).key = r.key
           /\ Tombstone(r.key).ent = Absent
  BY AbsentType DEF Logged, Tombstone, Record, Request, Entry

(* Ending a request keeps the types of what belongs to it.                 *)
LEMMA ReturnType ==
    ASSUME TypeOK, NEW c \in Clients, Return(c)
    PROVE  /\ pc' \in [Clients -> {"idle", "log", "apply", "undo"}]
           /\ req' \in [Clients -> Request]
           /\ solo' \in [Clients -> BOOLEAN]
  BY AbsentType DEF TypeOK, Return

(* The history variables keep their types when a request starts ...        *)
LEMMA WithdrawType ==
    ASSUME TypeOK, NEW c \in Clients, NEW k \in Keys, Withdraw(c, k)
    PROVE  expect' \in [Keys -> Entry \cup {Unknown}] /\ solo' \in [Clients -> BOOLEAN]
  BY Zenon DEF TypeOK, Withdraw

(* ... and when it completes.                                              *)
LEMMA PromiseType ==
    ASSUME TypeOK, NEW c \in Clients, NEW e \in Entry, Promise(c, e)
    PROVE  expect' \in [Keys -> Entry \cup {Unknown}]
  BY Zenon DEF TypeOK, Promise

(* Loading one entry of the snapshot or of the log keeps the types of the  *)
(* engine and of the status.                                               *)
LEMMA RestoreType ==
    ASSUME TypeOK, NEW k \in Keys, NEW e \in Entry, Restore(k, e)
    PROVE  items' \in Image /\ status' \in Statuses
  BY DEF TypeOK, Restore, Image, Statuses

(* Every step of Execute keeps the type invariant ...                      *)
LEMMA TypeExecute ==
    ASSUME TypeOK, RequestInv, NEW c \in Clients, Execute(c)
    PROVE  TypeOK'
  <1>1. ASSUME NEW k \in Keys, NEW v \in Values, NEW ttl \in TTLs, SetStart(c, k, v, ttl)
        PROVE  TypeOK'
    <2>1. req' \in [Clients -> Request]
      BY <1>1, DeadlineType DEF TypeOK, SetStart, Request, Live
    <2>2. items' \in Image
      BY <1>1, AbsentType DEF TypeOK, SetStart, AfterGet, Image
    <2>3. pc' \in [Clients -> {"idle", "log", "apply", "undo"}]
      BY <1>1 DEF TypeOK, SetStart
    <2>. QED  BY <1>1, <2>1, <2>2, <2>3, WithdrawType DEF TypeOK, SetStart
  <1>2. ASSUME NEW k \in Keys, DelStart(c, k)
        PROVE  TypeOK'
    <2>1. req' \in [Clients -> Request]
      BY <1>2 DEF TypeOK, DelStart, Request
    <2>2. pc' \in [Clients -> {"idle", "log", "apply", "undo"}]
      BY <1>2 DEF TypeOK, DelStart
    <2>. QED  BY <1>2, <2>1, <2>2, WithdrawType DEF TypeOK, DelStart
  <1>3. CASE LogRequest(c)
    <2>1. Logged(req[c]) \in Record
      BY <1>3, LoggedType, Zenon DEF TypeOK, LogRequest, RequestInv
    <2>2. wal' \in Seq(Record)
      BY <1>3, <2>1 DEF TypeOK, LogRequest
    <2>3. pc' \in [Clients -> {"idle", "log", "apply", "undo"}]
      BY <1>3 DEF TypeOK, LogRequest
    <2>. QED  BY <1>3, <2>2, <2>3 DEF TypeOK, LogRequest
  <1>4. CASE LogRequestFails(c)
    <2>1. Logged(req[c]) \in Record
      BY <1>4, LoggedType, Zenon DEF TypeOK, LogRequestFails, RequestInv
    <2>2. wal' \in Seq(Record)
      BY <1>4, <2>1 DEF TypeOK, LogRequestFails
    <2>. QED  BY <1>4, <2>2, ReturnType DEF TypeOK, LogRequestFails
  <1>5. CASE ApplySet(c)
    <2>1. req[c] \in Request /\ req[c].key \in Keys /\ Logged(req[c]).ent \in Entry
      BY <1>5, LoggedType, Zenon DEF TypeOK, ApplySet, RequestInv, Record
    <2>2. items' \in Image
      BY <1>5, <2>1, DeadlineType DEF TypeOK, ApplySet, Image, Entry, Request
    <2>. QED  BY <1>5, <2>1, <2>2, ReturnType, PromiseType DEF TypeOK, ApplySet
  <1>6. CASE RejectSet(c)
    <2>1. CASE req[c].existed
      BY <1>6, <2>1, ReturnType DEF TypeOK, RejectSet
    <2>2. CASE ~req[c].existed
      <3>. pc' \in [Clients -> {"idle", "log", "apply", "undo"}]
        BY <1>6, <2>2 DEF TypeOK, RejectSet
      <3>. QED  BY <1>6, <2>2 DEF TypeOK, RejectSet
    <2>. QED  BY <2>1, <2>2
  <1>7. CASE UndoSet(c) \/ UndoSetFails(c)
    <2>1. Tombstone(req[c].key) \in Record
      BY <1>7, LoggedType, Zenon DEF TypeOK, UndoSet, UndoSetFails, RequestInv
    <2>2. wal' \in Seq(Record)
      <3>1. wal' \in {wal, Append(wal, Tombstone(req[c].key))}
        BY <1>7 DEF UndoSet, UndoSetFails
      <3>2. wal \in Seq(Record)
        BY DEF TypeOK
      <3>. QED  BY <2>1, <3>1, <3>2
    <2>3. CASE UndoSet(c)
      BY <2>2, <2>3, ReturnType, PromiseType, AbsentType DEF TypeOK, UndoSet
    <2>4. CASE UndoSetFails(c)
      BY <2>2, <2>4, ReturnType DEF TypeOK, UndoSetFails
    <2>. QED  BY <1>7, <2>3, <2>4
  <1>8. CASE ApplyDel(c)
    <2>1. items' \in Image
      BY <1>8, AbsentType, Zenon DEF TypeOK, ApplyDel, Image
    <2>2. Logged(req[c]).ent \in Entry
      BY <1>8, LoggedType, Zenon DEF TypeOK, ApplyDel, RequestInv, Record
    <2>. QED  BY <1>8, <2>1, <2>2, ReturnType, PromiseType DEF TypeOK, ApplyDel
  <1>. QED  BY <1>1, <1>2, <1>3, <1>4, <1>5, <1>6, <1>7, <1>8 DEF Execute

(* ... and so does every other step.                                       *)
LEMMA TypeOthers ==
    ASSUME TypeOK,
           \/ \E k \in Keys : Evict(k)
           \/ Snapshot \/ Startup \/ Crash \/ StartAgain \/ Tick \/ UNCHANGED vars
    PROVE  TypeOK'
  <1>1. ASSUME NEW k \in Keys, Evict(k)
        PROVE  TypeOK'
    <2>. items' \in Image
      BY <1>1, AbsentType DEF TypeOK, Evict, Image
    <2>. QED  BY <1>1 DEF TypeOK, Evict
  <1>2. CASE DumpStart
    <2>. child' \in Image
      BY <1>2, AbsentType DEF TypeOK, DumpStart, Image
    <2>. QED  BY <1>2 DEF TypeOK, DumpStart
  <1>3. CASE ChildPublishes \/ ChildFails
    BY <1>3 DEF TypeOK, ChildPublishes, ChildFails
  <1>4. CASE TruncateWAL
    BY <1>4, TruncateKeeps DEF TypeOK, TruncateWAL
  <1>5. CASE OpenShard \/ ReplayStart \/ ReplayEnd
    BY <1>5, AbsentType DEF TypeOK, OpenShard, ReplayStart, ReplayEnd, Statuses
  <1>6. ASSUME NEW k \in Keys, LoadEntry(k)
        PROVE  TypeOK'
    <2>1. todo[k] \in Entry /\ todo' \in Image
      BY <1>6, AbsentType DEF TypeOK, Image, LoadEntry
    <2>. QED  BY <1>6, <2>1, RestoreType DEF TypeOK, LoadEntry
  <1>7. CASE ReplayRecord
    <2>1. wal[pos + 1] \in Record
      BY <1>7 DEF TypeOK, ReplayRecord
    <2>2. wal[pos + 1].key \in Keys /\ wal[pos + 1].ent \in Entry
      BY <2>1 DEF Record
    <2>. QED  BY <1>7, <2>2, RestoreType DEF TypeOK, ReplayRecord
  <1>8. CASE Crash
    <2>1. child' \in Image \cup {NoSnapshot}
      BY <1>8, AbsentType DEF TypeOK, Crash, Orphans, Image
    <2>2. /\ pc' \in [Clients -> {"idle", "log", "apply", "undo"}]
          /\ req' \in [Clients -> Request] /\ solo' \in [Clients -> BOOLEAN]
      BY <1>8, AbsentType DEF Crash
    <2>. QED  BY <1>8, <2>1, <2>2, AbsentType DEF TypeOK, Crash, Statuses
  <1>9. CASE StartAgain \/ Tick \/ UNCHANGED vars
    BY <1>9, AbsentType DEF TypeOK, StartAgain, Tick, vars, Statuses
  <1>. QED  BY <1>1, <1>2, <1>3, <1>4, <1>5, <1>6, <1>7, <1>8, <1>9 DEF Snapshot, Startup

(***************************************************************************)
(* Requests                                                                *)
(***************************************************************************)
(* The fields of the request that an event loop executes have their types. *)
LEMMA RequestTypes ==
    ASSUME TypeOK, NEW c \in Clients
    PROVE  req[c] \in Request /\ req[c].ttl \in Nat /\ req[c].exp \in Nat
  <1>1. req[c] \in Request
    BY DEF TypeOK
  <1>2. req[c].ttl \in TTLs \cup {0} /\ req[c].exp \in Nat
    BY <1>1 DEF Request
  <1>3. \A t \in TTLs \cup {0} : t \in Nat
    BY ShardAssumption
  <1>. QED  BY <1>1, <1>2, <1>3

(* Every step keeps what RequestInv says of the requests in flight: a      *)
(* request starts and ends inside Execute, and a crash ends all of them.   *)
LEMMA RequestStep ==
    ASSUME TypeOK, RequestInv, [Next]_vars
    PROVE  RequestInv'
  <1>1. ASSUME NEW c \in Clients, NEW k \in Keys,
               (\E v \in Values, ttl \in TTLs : SetStart(c, k, v, ttl)) \/ DelStart(c, k)
        PROVE  RequestInv'
    <2>1. /\ status = "up" /\ status' = "up" /\ now' = now
          /\ pc' = [pc EXCEPT ![c] = "log"]
          /\ req'[c].key = k
          /\ req'[c].ttl \in TTLs \cup {0} /\ req'[c].exp = Deadline(req'[c].ttl)
          /\ \A d \in Clients : d # c => req'[d] = req[d]
          /\ Withdraw(c, k)
      BY <1>1, SMTT(30) DEF TypeOK, SetStart, DelStart, Deadline
    <2>2. ASSUME NEW d \in Clients, solo'[d], NEW e \in Clients, e # d
          PROVE  req'[e].key # req'[d].key
      <3>1. CASE d = c
        BY <2>1, <2>2, <3>1, Zenon DEF Withdraw, InFlight
      <3>2. CASE d # c /\ e = c
        BY <2>1, <2>2, <3>2, Zenon DEF Withdraw, InFlight
      <3>3. CASE d # c /\ e # c
        <4>1. solo[d]
          BY <2>1, <2>2, <3>3, Zenon DEF Withdraw
        <4>2. req[e].key # req[d].key
          BY <2>2, <4>1 DEF RequestInv
        <4>. QED  BY <2>1, <3>3, <4>2
      <3>. QED  BY <3>1, <3>2, <3>3
    <2>3. ASSUME NEW d \in Clients
          PROVE  /\ pc'[d] = "idle" => req'[d] = NoRequest /\ ~solo'[d]
                 /\ pc'[d] # "idle" => status' = "up" /\ req'[d].key \in Keys
                 /\ pc'[d] = "undo" => req'[d].val # None /\ ~req'[d].existed
      BY <2>1 DEF TypeOK, RequestInv, Withdraw
    <2>4. ASSUME NEW d \in Clients
          PROVE  req'[d].ttl > 0 => req'[d].exp # 0 /\ req'[d].exp <= now' + req'[d].ttl
      <3>1. CASE d = c
        <4>1. now \in Nat
          BY DEF TypeOK
        <4>2. \A t \in TTLs \cup {0} : t \in Nat
          BY ShardAssumption
        <4>. QED  BY <2>1, <3>1, <4>1, <4>2 DEF Deadline
      <3>2. CASE d # c
        BY <2>1, <3>2 DEF RequestInv
      <3>. QED  BY <3>1, <3>2
    <2>. QED  BY <2>2, <2>3, <2>4, Zenon DEF RequestInv
  <1>2. ASSUME NEW c \in Clients, Return(c), status' = status, now' = now
        PROVE  RequestInv'
    BY <1>2, ShardAssumption DEF TypeOK, RequestInv, Return, NoRequest
  <1>3. ASSUME NEW c \in Clients, LogRequest(c)
        PROVE  RequestInv'
    BY <1>3 DEF TypeOK, RequestInv, LogRequest
  <1>4. ASSUME NEW c \in Clients, RejectSet(c)
        PROVE  RequestInv'
    <2>1. CASE req[c].existed
      BY <1>2, <1>4, <2>1 DEF RejectSet
    <2>2. CASE ~req[c].existed
      BY <1>4, <2>2 DEF TypeOK, RequestInv, RejectSet
    <2>. QED  BY <2>1, <2>2
  <1>5. CASE Crash
    BY <1>5 DEF RequestInv, Crash, NoRequest
  <1>6. CASE UNCHANGED <<pc, req, solo>> /\ (status = "up" => status' = "up") /\ now' \in {now, now + 1}
    <2>1. ASSUME NEW c \in Clients, req[c].ttl > 0
          PROVE  req[c].exp # 0 /\ req[c].exp <= now' + req[c].ttl
      <3>. now \in Nat
        BY DEF TypeOK
      <3>. req[c].exp # 0 /\ req[c].exp <= now + req[c].ttl
        BY <2>1, Zenon DEF RequestInv
      <3>. QED  BY <1>6, RequestTypes
    <2>. QED  BY <1>6, <2>1 DEF RequestInv
  <1>7. ASSUME NEW c \in Clients, Execute(c)
        PROVE  RequestInv'
    BY <1>1, <1>2, <1>3, <1>4, <1>7, Zenon
       DEF Execute, LogRequestFails, ApplySet, UndoSet, UndoSetFails, ApplyDel
  <1>8. CASE Startup
    BY <1>6, <1>8, Zenon DEF Startup, OpenShard, LoadEntry, ReplayStart, ReplayRecord, ReplayEnd, Restore
  <1>9. CASE Snapshot \/ StartAgain \/ Tick \/ UNCHANGED vars \/ \E k \in Keys : Evict(k)
    BY <1>6, <1>9 DEF Snapshot, DumpStart, ChildPublishes, ChildFails, TruncateWAL,
                      StartAgain, Tick, vars, Evict
  <1>. QED  BY <1>5, <1>7, <1>8, <1>9, Zenon DEF Next

(***************************************************************************)
(* The log is written by requests only, one record at a time               *)
(***************************************************************************)
LogWrite(c, r) ==
    /\ pc[c] \in {"log", "undo"}
    /\ r \in {Logged(req[c]), Tombstone(req[c].key)}
    /\ wal' = Append(wal, r)

(* A step leaves the log as it is or appends one record of a request:      *)
(* TruncateWAL included, which truncates the file to its own size.         *)
LEMMA WalStep ==
    ASSUME TypeOK, [Next]_vars
    PROVE  wal' = wal \/ \E c \in Clients : \E r : LogWrite(c, r)
  <1>1. ASSUME NEW c \in Clients, Execute(c)
        PROVE  wal' = wal \/ \E r : LogWrite(c, r)
    <2>1. CASE LogRequest(c) \/ LogRequestFails(c)
      <3>1. pc[c] = "log" /\ (wal' = wal \/ wal' = Append(wal, Logged(req[c])))
        BY <2>1 DEF LogRequest, LogRequestFails
      <3>2. wal' = wal \/ LogWrite(c, Logged(req[c]))
        BY <3>1 DEF LogWrite
      <3>. QED  BY <3>2
    <2>2. CASE UndoSet(c) \/ UndoSetFails(c)
      <3>1. pc[c] = "undo" /\ (wal' = wal \/ wal' = Append(wal, Tombstone(req[c].key)))
        BY <2>2 DEF UndoSet, UndoSetFails
      <3>2. wal' = wal \/ LogWrite(c, Tombstone(req[c].key))
        BY <3>1 DEF LogWrite
      <3>. QED  BY <3>2
    <2>. QED  BY <1>1, <2>1, <2>2, Zenon DEF Execute, SetStart, DelStart, ApplySet, RejectSet, ApplyDel
  <1>2. CASE TruncateWAL
    BY <1>2, TruncateKeeps, Zenon DEF TruncateWAL, TypeOK
  <1>3. CASE DumpStart \/ ChildPublishes \/ ChildFails \/ Startup
    BY <1>3, Zenon DEF DumpStart, ChildPublishes, ChildFails, Startup, OpenShard, LoadEntry,
                ReplayStart, ReplayRecord, ReplayEnd
  <1>4. CASE Crash \/ StartAgain \/ Tick \/ UNCHANGED vars \/ \E k \in Keys : Evict(k)
    BY <1>4 DEF Crash, StartAgain, Tick, vars, Evict
  <1>. QED  BY <1>1, <1>2, <1>3, <1>4 DEF Next, Snapshot

(* The record appended is one of the key of the request.                   *)
LEMMA LogWriteType ==
    ASSUME TypeOK, RequestInv, NEW c \in Clients, NEW r, LogWrite(c, r)
    PROVE  r \in Record /\ r.key = req[c].key /\ r.key \in Keys
  <1>1. req[c] \in Request /\ req[c].key \in Keys
    BY RequestTypes, Zenon DEF LogWrite, RequestInv
  <1>. QED  BY <1>1, LoggedType, Zenon DEF LogWrite

(* A value that is in the log stays in it.                                 *)
LEMMA InLogKept ==
    ASSUME TypeOK, RequestInv, [Next]_vars, NEW k, NEW v, InLog(k, v)
    PROVE  InLog(k, v)'
  <1>1. CASE wal' = wal
    BY <1>1 DEF InLog
  <1>2. ASSUME NEW c \in Clients, NEW r, LogWrite(c, r)
        PROVE  InLog(k, v)'
    <2>1. r \in Record /\ wal \in Seq(Record) /\ wal' = Append(wal, r)
      BY <1>2, LogWriteType, Zenon DEF LogWrite, TypeOK
    <2>. QED  BY <2>1, AppendKeepsInLog
  <1>. QED  BY <1>1, <1>2, WalStep

(***************************************************************************)
(* Nothing is visible before it is logged                                  *)
(***************************************************************************)
(* An event loop that is about to change the engine has its record in the  *)
(* log: Execute writes the log first.                                      *)
LEMMA ApplyStep ==
    ASSUME TypeOK, RequestInv, ApplyIsLogged, [Next]_vars
    PROVE  ApplyIsLogged'
  <1>. SUFFICES ASSUME NEW d \in Clients, pc'[d] = "apply"
                PROVE  InLog(req[d].key, req[d].val)'
    BY DEF ApplyIsLogged
  <1>1. CASE pc[d] = "apply" /\ req'[d] = req[d]
    <2>. PICK k, v : k = req[d].key /\ v = req[d].val
      OBVIOUS
    <2>1. InLog(k, v)'
      BY <1>1, InLogKept DEF ApplyIsLogged
    <2>. QED  BY <1>1, <2>1 DEF InLog
  <1>2. CASE LogRequest(d)
    <2>. PICK r : r = Logged(req[d])
      OBVIOUS
    <2>1. r \in Record /\ wal \in Seq(Record) /\ wal' = Append(wal, r)
      BY <1>2, LogWriteType, Zenon DEF LogRequest, LogWrite, TypeOK
    <2>2. r.key = req[d].key /\ r.ent.val = req[d].val /\ req' = req
      BY <1>2 DEF Logged, LogRequest
    <2>3. InLog(r.key, r.ent.val)'
      BY <2>1, AppendKeepsInLog
    <2>. QED  BY <2>2, <2>3 DEF InLog
  <1>3. (pc[d] = "apply" /\ req'[d] = req[d]) \/ LogRequest(d)
    <2>1. ASSUME NEW c \in Clients, Execute(c)
          PROVE  (pc[d] = "apply" /\ req'[d] = req[d]) \/ LogRequest(d)
      BY <2>1, Zenon DEF TypeOK, Execute, SetStart, DelStart, LogRequest, LogRequestFails, ApplySet,
                  RejectSet, UndoSet, UndoSetFails, ApplyDel, Return
    <2>2. CASE Snapshot \/ Startup
      BY <2>2, Zenon DEF Snapshot, DumpStart, ChildPublishes, ChildFails, TruncateWAL, Startup,
                  OpenShard, LoadEntry, ReplayStart, ReplayRecord, ReplayEnd
    <2>3. CASE Crash \/ StartAgain \/ Tick \/ UNCHANGED vars \/ \E k \in Keys : Evict(k)
      BY <2>3 DEF Crash, StartAgain, Tick, vars, Evict
    <2>. QED  BY <2>1, <2>2, <2>3, Zenon DEF Next
  <1>. QED  BY <1>1, <1>2, <1>3

(* What a step leaves in an image is covered by the log, if the step took  *)
(* it from something that the log covers.                                  *)
LEMMA CoversKept ==
    ASSUME TypeOK, RequestInv, [Next]_vars, NEW k, NEW e, e # Absent => InLog(k, e.val)
    PROVE  e # Absent => InLog(k, e.val)'
  BY InLogKept, Zenon

(* What a step leaves in the engine was in the log before the step:        *)
(* Engine.Set, applyRecord and snapshotRead only store what is logged.     *)
LEMMA ItemsStep ==
    ASSUME TypeOK, RequestInv, ApplyIsLogged, VisibleIsLogged, [Next]_vars,
           NEW k \in Keys, items'[k] # Absent
    PROVE  InLog(k, items'[k].val)
  <1>1. CASE items'[k] = items[k]
    BY <1>1, Zenon DEF VisibleIsLogged, LogCovers
  <1>2. ASSUME NEW c \in Clients, Execute(c)
        PROVE  items'[k] = items[k] \/ InLog(k, items'[k].val)
    <2>1. CASE ApplySet(c)
      <3>1. CASE req[c].key = k
        <4>1. items'[k].val = req[c].val
          BY <2>1, <3>1, SMTT(30) DEF ApplySet, TypeOK, Image
        <4>. QED  BY <2>1, <3>1, <4>1, Zenon DEF ApplySet, ApplyIsLogged
      <3>2. CASE req[c].key # k
        BY <2>1, <3>2 DEF ApplySet, TypeOK, Image
      <3>. QED  BY <3>1, <3>2, Zenon
    <2>2. CASE ApplyDel(c)
      BY <2>2 DEF ApplyDel, TypeOK, Image
    <2>3. ASSUME NEW j \in Keys, NEW v \in Values, NEW ttl \in TTLs, SetStart(c, j, v, ttl)
          PROVE  items'[k] = items[k]
      BY <2>3 DEF SetStart, AfterGet, TypeOK, Image
    <2>. QED  BY <1>2, <2>1, <2>2, <2>3, Zenon
             DEF Execute, DelStart, LogRequest, LogRequestFails, RejectSet, UndoSet, UndoSetFails
  <1>3. ASSUME NEW j \in Keys, NEW e, Restore(j, e), e # Absent => InLog(j, e.val)
        PROVE  items'[k] = items[k] \/ InLog(k, items'[k].val)
    BY <1>3 DEF Restore, TypeOK, Image
  <1>4. ASSUME NEW j \in Keys, LoadEntry(j)
        PROVE  items'[k] = items[k] \/ InLog(k, items'[k].val)
    BY <1>3, <1>4 DEF LoadEntry, VisibleIsLogged, LogCovers
  <1>5. CASE ReplayRecord
    <2>1. pos + 1 \in DOMAIN wal /\ wal[pos + 1] \in Record
      BY <1>5 DEF ReplayRecord, TypeOK
    <2>2. wal[pos + 1].key \in Keys /\ InLog(wal[pos + 1].key, wal[pos + 1].ent.val)
      BY <2>1, Zenon DEF InLog, Record
    <2>. QED  BY <1>1, <1>3, <1>5, <2>2 DEF ReplayRecord
  <1>6. CASE Snapshot \/ OpenShard \/ ReplayStart \/ ReplayEnd \/ Tick \/ UNCHANGED vars
    BY <1>1, <1>6, Zenon DEF Snapshot, DumpStart, ChildPublishes, ChildFails, TruncateWAL, OpenShard,
                      ReplayStart, ReplayEnd, Tick, vars
  <1>7. CASE Crash \/ StartAgain \/ \E j \in Keys : Evict(j)
    BY <1>1, <1>7 DEF Crash, StartAgain, Evict, NoItems, TypeOK, Image
  <1>. QED  BY <1>1, <1>2, <1>4, <1>5, <1>6, <1>7, Zenon DEF Next, Startup

(* Hence every step keeps VisibleIsLogged: for the engine, and for the     *)
(* images that the snapshot child and start-up take from it.               *)
LEMMA VisibleStep ==
    ASSUME TypeOK, RequestInv, ApplyIsLogged, VisibleIsLogged, [Next]_vars
    PROVE  VisibleIsLogged'
  <1>1. LogCovers(items)'
    <2>. SUFFICES ASSUME NEW k \in Keys, items'[k] # Absent
                  PROVE  InLog(k, items[k].val)'
      BY DEF LogCovers
    <2>. PICK v : v = items'[k].val
      OBVIOUS
    <2>1. InLog(k, v)
      BY ItemsStep
    <2>2. InLog(k, v)'
      BY <2>1, InLogKept
    <2>. QED  BY <2>2 DEF InLog
  <1>2. ASSUME NEW img, LogCovers(img)
        PROVE  \A k \in Keys : img[k] # Absent => InLog(k, img[k].val)'
    BY <1>2, CoversKept, Zenon DEF LogCovers
  <1>3. LogCovers(NoItems)
    BY DEF LogCovers, NoItems
  <1>4. LogCovers(todo)'
    <2>1. ASSUME NEW j \in Keys, LoadEntry(j)
          PROVE  LogCovers(todo)'
      <3>1. todo' = [todo EXCEPT ![j] = Absent] /\ todo \in [Keys -> Entry]
        BY <2>1, Zenon DEF LoadEntry, TypeOK, Image
      <3>2. PICK img : img = todo /\ LogCovers(img)
        BY Zenon DEF VisibleIsLogged
      <3>3. \A k \in Keys : img[k] # Absent => InLog(k, img[k].val)'
        BY <1>2, <3>2, Zenon
      <3>4. \A k \in Keys : todo'[k] # Absent => todo'[k] = img[k]
        BY <3>1, <3>2
      <3>5. \A k \in Keys : todo'[k] # Absent => InLog(k, todo[k].val)'
        BY <3>3, <3>4 DEF InLog
      <3>. QED  BY <3>5, Zenon DEF LogCovers
    <2>2. CASE todo' = todo
      <3>1. \A k \in Keys : todo[k] # Absent => InLog(k, todo[k].val)'
        BY <1>2, <2>2 DEF VisibleIsLogged
      <3>. QED  BY <2>2, <3>1 DEF LogCovers
    <2>3. CASE OpenShard \/ Crash \/ StartAgain
      <3>1. PICK img : img = todo' /\ LogCovers(img)
        BY <1>3, <2>3 DEF OpenShard, Crash, StartAgain, VisibleIsLogged
      <3>2. \A k \in Keys : img[k] # Absent => InLog(k, img[k].val)'
        BY <1>2, <3>1
      <3>. QED  BY <3>1, <3>2, SMTT(30) DEF LogCovers, InLog
    <2>4. \/ todo' = todo \/ OpenShard \/ Crash \/ StartAgain
          \/ \E j \in Keys : LoadEntry(j)
      BY Zenon DEF Next, Execute, SetStart, DelStart, LogRequest, LogRequestFails, ApplySet, RejectSet,
             UndoSet, UndoSetFails, ApplyDel, Evict, Snapshot, DumpStart, ChildPublishes,
             ChildFails, TruncateWAL, Startup, ReplayStart, ReplayRecord, ReplayEnd, Tick, vars
    <2>. QED  BY <2>1, <2>2, <2>3, <2>4, Zenon
  <1>5. ASSUME snap' # NoSnapshot
        PROVE  LogCovers(snap)'
    <2>1. snap' = snap \/ (snap' = child /\ child # NoSnapshot)
      BY Zenon DEF Next, Execute, SetStart, DelStart, LogRequest, LogRequestFails, ApplySet, RejectSet,
             UndoSet, UndoSetFails, ApplyDel, Evict, Snapshot, DumpStart, ChildPublishes,
             ChildFails, TruncateWAL, Startup, OpenShard, LoadEntry, ReplayStart, ReplayRecord,
             ReplayEnd, Crash, StartAgain, Tick, vars
    <2>2. PICK img : img = snap' /\ LogCovers(img)
      BY <1>5, <2>1 DEF VisibleIsLogged
    <2>3. \A k \in Keys : img[k] # Absent => InLog(k, img[k].val)'
      BY <1>2, <2>2
    <2>. QED  BY <2>2, <2>3 DEF LogCovers, InLog
  <1>6. ASSUME child' # NoSnapshot
        PROVE  LogCovers(child)'
    <2>1. CASE DumpStart
      <3>. PICK img : img = child'
        OBVIOUS
      <3>1. LogCovers(img)
        BY <2>1, SMTT(30) DEF DumpStart, VisibleIsLogged, LogCovers
      <3>. QED  BY <1>2, <3>1 DEF LogCovers, InLog
    <2>2. CASE Crash
      <3>. PICK img : img = child'
        OBVIOUS
      <3>1. LogCovers(img)
        BY <1>6, <2>2 DEF Crash, Orphans, VisibleIsLogged, LogCovers
      <3>. QED  BY <1>2, <3>1 DEF LogCovers, InLog
    <2>3. child' = child \/ DumpStart \/ Crash
      BY <1>6, Zenon DEF Next, Execute, SetStart, DelStart, LogRequest, LogRequestFails, ApplySet,
             RejectSet, UndoSet, UndoSetFails, ApplyDel, Evict, Snapshot, ChildPublishes,
             ChildFails, TruncateWAL, Startup, OpenShard, LoadEntry, ReplayStart, ReplayRecord,
             ReplayEnd, StartAgain, Tick, vars
    <2>4. CASE child' = child
      <3>1. \A k \in Keys : child[k] # Absent => InLog(k, child[k].val)'
        BY <1>2, <1>6, <2>4 DEF VisibleIsLogged
      <3>. QED  BY <2>4, <3>1 DEF LogCovers
    <2>. QED  BY <2>1, <2>2, <2>3, <2>4
  <1>. QED  BY <1>1, <1>4, <1>5, <1>6 DEF VisibleIsLogged

(***************************************************************************)
(* Requests that nothing overlaps                                          *)
(***************************************************************************)
Starts(c) ==
    \/ \E k \in Keys, v \in Values, ttl \in TTLs : SetStart(c, k, v, ttl)
    \/ \E k \in Keys : DelStart(c, k)

(* A request that nothing has overlapped was one before the step already,  *)
(* or starts with it.                                                      *)
LEMMA SoloOrigin ==
    ASSUME TypeOK, RequestInv, [Next]_vars, NEW d \in Clients, solo'[d]
    PROVE  \/ Starts(d)
           \/ solo[d] /\ req'[d] = req[d] /\ pc[d] # "idle" /\ pc'[d] # "idle"
  <1>. RequestInv'
    BY RequestStep, Zenon
  <1>1. pc'[d] # "idle"
    BY DEF RequestInv
  <1>2. ASSUME NEW c \in Clients, Execute(c)
        PROVE  Starts(d) \/ (solo[d] /\ req'[d] = req[d])
    <2>0. solo \in [Clients -> BOOLEAN] /\ req \in [Clients -> Request]
      BY Zenon DEF TypeOK
    <2>1. CASE Starts(c)
      <3>1. PICK k \in Keys : Withdraw(c, k) /\ \E r : req' = [req EXCEPT ![c] = r]
        BY <2>1, Zenon DEF Starts, SetStart, DelStart
      <3>2. CASE d = c
        BY <2>1, <3>2, Zenon
      <3>3. CASE d # c
        BY <2>0, <3>1, <3>3 DEF Withdraw
      <3>. QED  BY <3>2, <3>3
    <2>2. CASE ~Starts(c)
      BY <1>2, <2>2, Zenon DEF Execute, Starts, LogRequest, LogRequestFails, ApplySet, RejectSet,
                        UndoSet, UndoSetFails, ApplyDel, Return, TypeOK
    <2>. QED  BY <2>1, <2>2
  <1>3. ASSUME Snapshot \/ Startup
        PROVE  solo[d] /\ req'[d] = req[d]
    BY <1>3, Zenon DEF Snapshot, DumpStart, ChildPublishes, ChildFails, TruncateWAL, Startup, OpenShard,
                LoadEntry, ReplayStart, ReplayRecord, ReplayEnd
  <1>4. ASSUME Crash \/ StartAgain \/ Tick \/ UNCHANGED vars \/ \E k \in Keys : Evict(k)
        PROVE  solo[d] /\ req'[d] = req[d]
    BY <1>4, Zenon DEF Crash, StartAgain, Tick, vars, Evict
  <1>5. Starts(d) \/ (solo[d] /\ req'[d] = req[d])
    BY <1>2, <1>3, <1>4, Zenon DEF Next, Snapshot, Startup
  <1>. QED  BY <1>1, <1>5 DEF RequestInv

(* Every step keeps SoloInv: while nothing overlaps a request, nobody else *)
(* writes a record of its key, and only it gives the key a value.          *)
LEMMA SoloStep ==
    ASSUME TypeOK, RequestInv, SoloInv, [Next]_vars
    PROVE  SoloInv'
  <1>. SUFFICES ASSUME NEW d \in Clients, solo'[d]
                PROVE  /\ pc'[d] = "apply" => \E i \in DOMAIN wal' :
                            IsLast(i, req[d].key)' /\ wal'[i] = Logged(req[d])'
                       /\ req'[d].val # None /\ ~req'[d].existed => items'[req'[d].key] = Absent
    BY SMTT(30) DEF SoloInv
  <1>1. ASSUME pc'[d] = "apply"
        PROVE  \E i \in DOMAIN wal' : IsLast(i, req[d].key)' /\ wal'[i] = Logged(req[d])'
    <2>1. ~Starts(d)
      BY <1>1, Zenon DEF Starts, SetStart, DelStart, TypeOK
    <2>2. solo[d] /\ req'[d] = req[d]
      BY <2>1, SoloOrigin, Zenon
    <2>. PICK r, k : r = Logged(req[d]) /\ k = req[d].key
      OBVIOUS
    <2>. SUFFICES \E i \in DOMAIN wal' : IsLast(i, k)' /\ wal'[i] = r
      BY <2>2, Zenon DEF IsLast, Logged
    <2>3. CASE LogRequest(d)
      <3>1. r \in Record /\ r.key = k /\ wal \in Seq(Record) /\ wal' = Append(wal, r)
        BY <2>3, LogWriteType, Zenon DEF LogRequest, LogWrite, TypeOK
      <3>. QED  BY <3>1, AppendIsLast
    <2>4. CASE pc[d] = "apply"
      <3>. PICK i \in DOMAIN wal : IsLast(i, k) /\ wal[i] = r
        BY <2>2, <2>4 DEF SoloInv
      <3>1. CASE wal' = wal
        BY <3>1, Zenon DEF IsLast
      <3>2. ASSUME NEW c \in Clients, NEW q, LogWrite(c, q)
            PROVE  i \in DOMAIN wal' /\ IsLast(i, k)' /\ wal'[i] = r
        <4>1. q \in Record /\ q.key = req[c].key /\ wal \in Seq(Record) /\ wal' = Append(wal, q)
          BY <3>2, LogWriteType, Zenon DEF LogWrite, TypeOK
        <4>2. c # d
          BY <2>4, <3>2, Zenon DEF LogWrite
        <4>3. k # q.key
          BY <2>2, <4>1, <4>2, Zenon DEF RequestInv
        <4>. QED  BY <4>1, <4>3, AppendKeepsLast, Zenon
      <3>. QED  BY <3>1, <3>2, WalStep
    <2>5. pc[d] = "apply" \/ LogRequest(d)
      <3>1. ASSUME NEW c \in Clients, Execute(c)
            PROVE  pc[d] = "apply" \/ LogRequest(d)
        BY <1>1, <3>1, Zenon DEF TypeOK, Execute, SetStart, DelStart, LogRequest, LogRequestFails,
                    ApplySet, RejectSet, UndoSet, UndoSetFails, ApplyDel, Return
      <3>2. CASE Snapshot \/ Startup
        BY <1>1, <3>2, Zenon DEF Snapshot, DumpStart, ChildPublishes, ChildFails, TruncateWAL, Startup,
                    OpenShard, LoadEntry, ReplayStart, ReplayRecord, ReplayEnd
      <3>3. CASE Crash \/ StartAgain \/ Tick \/ UNCHANGED vars \/ \E j \in Keys : Evict(j)
        BY <1>1, <3>3 DEF Crash, StartAgain, Tick, vars, Evict
      <3>. QED  BY <3>1, <3>2, <3>3 DEF Next
    <2>. QED  BY <2>3, <2>4, <2>5
  <1>2. ASSUME req'[d].val # None, ~req'[d].existed
        PROVE  items'[req'[d].key] = Absent
    <2>1. CASE Starts(d)
      <3>. PICK k \in Keys, v \in Values, ttl \in TTLs : SetStart(d, k, v, ttl)
        BY <1>2, <2>1 DEF Starts, DelStart, TypeOK
      <3>1. req'[d].key = k /\ ~Live(k) /\ items' = AfterGet(k)
        BY <1>2 DEF SetStart, TypeOK
      <3>. QED  BY <3>1, Zenon DEF Live, AfterGet, TypeOK, Image
    <2>2. CASE solo[d] /\ req'[d] = req[d] /\ pc[d] # "idle" /\ pc'[d] # "idle"
      <3>. DEFINE k == req[d].key
      <3>1. items[k] = Absent /\ k \in Keys /\ status = "up"
        BY <1>2, <2>2, Zenon DEF SoloInv, RequestInv
      <3>2. ASSUME NEW c \in Clients, Execute(c)
            PROVE  items'[k] = Absent
        <4>1. CASE ApplySet(c)
          <5>1. c # d
            BY <2>2, <4>1, Zenon DEF ApplySet, Return, TypeOK
          <5>2. req[c].key # k
            BY <2>2, <5>1, Zenon DEF RequestInv
          <5>. QED  BY <3>1, <4>1, <5>2, Zenon DEF ApplySet, TypeOK, Image
        <4>2. CASE ApplyDel(c)
          BY <3>1, <4>2, Zenon DEF ApplyDel, TypeOK, Image
        <4>3. ASSUME NEW j \in Keys, NEW v \in Values, NEW ttl \in TTLs, SetStart(c, j, v, ttl)
              PROVE  items'[k] = Absent
          BY <3>1, <4>3, ZenonT(30) DEF SetStart, AfterGet, TypeOK, Image
        <4>. QED  BY <3>1, <3>2, <4>1, <4>2, <4>3, Zenon
                  DEF Execute, DelStart, LogRequest, LogRequestFails, RejectSet, UndoSet, UndoSetFails
      <3>3. CASE Snapshot \/ Tick \/ UNCHANGED vars \/ \E j \in Keys : Evict(j)
        <4>1. CASE Snapshot \/ Tick \/ UNCHANGED vars
          BY <3>1, <4>1, Zenon DEF Snapshot, DumpStart, ChildPublishes, ChildFails, TruncateWAL,
                                   Tick, vars
        <4>2. ASSUME NEW j \in Keys, Evict(j)
              PROVE  items'[k] = Absent
          BY <3>1, <4>2, Zenon DEF Evict, TypeOK, Image
        <4>. QED  BY <2>2, <3>3, <4>1, <4>2, Zenon
      <3>4. CASE Crash \/ StartAgain
        BY <3>1, <3>4, Zenon DEF Crash, StartAgain, NoItems
      <3>5. ~Startup
        BY <3>1, Zenon DEF Startup, OpenShard, LoadEntry, ReplayStart, ReplayRecord, ReplayEnd
      <3>. QED  BY <2>2, <3>2, <3>3, <3>4, <3>5, Zenon DEF Next
    <2>. QED  BY <2>1, <2>2, SoloOrigin, Zenon
  <1>. QED  BY <1>1, <1>2, Zenon

(***************************************************************************)
(* Promises                                                                *)
(***************************************************************************)
Completes(c, k, e) ==
    /\ solo[c] /\ req[c].key = k
    /\ \/ (ApplySet(c) \/ ApplyDel(c)) /\ e = Logged(req[c]).ent
       \/ UndoSet(c) /\ e = Absent

(* A promise is an old one, about a key that no request has started on, or *)
(* it is made by a request that nothing overlapped.                        *)
LEMMA PromiseOrigin ==
    ASSUME TypeOK, RequestInv, [Next]_vars, NEW k \in Keys, expect'[k] # Unknown
    PROVE  \/ expect'[k] = expect[k] /\ \A c \in Clients : req'[c].key = k => req[c].key = k
           \/ \E c \in Clients : Completes(c, k, expect'[k])
  <1>1. ASSUME NEW c \in Clients, Starts(c)
        PROVE  expect'[k] = expect[k] /\ \A d \in Clients : req'[d].key = k => req[d].key = k
    <2>1. PICK j \in Keys :
            /\ Withdraw(c, j) /\ req'[c].key = j
            /\ \A d \in Clients : d # c => req'[d] = req[d]
      <3>1. req \in [Clients -> Request]
        BY Zenon DEF TypeOK
      <3>2. CASE \E i \in Keys, v \in Values, ttl \in TTLs : SetStart(c, i, v, ttl)
        BY <3>1, <3>2, SMTT(30) DEF SetStart
      <3>3. CASE \E i \in Keys : DelStart(c, i)
        BY <3>1, <3>3 DEF DelStart
      <3>. QED  BY <1>1, <3>2, <3>3, Zenon DEF Starts
    <2>2. j # k
      BY <2>1, Zenon DEF Withdraw, TypeOK
    <2>. QED  BY <2>1, <2>2 DEF Withdraw, TypeOK
  <1>2. ASSUME NEW c \in Clients, Return(c)
        PROVE  \A d \in Clients : req'[d].key = k => req[d].key = k
    BY <1>2, ShardAssumption DEF Return, TypeOK, NoRequest
  <1>3. ASSUME NEW c \in Clients, ApplySet(c) \/ ApplyDel(c)
        PROVE  \/ expect'[k] = expect[k]
               \/ Completes(c, k, expect'[k])
    BY <1>3, Zenon DEF ApplySet, ApplyDel, Promise, Completes, TypeOK
  <1>4. ASSUME NEW c \in Clients, UndoSet(c)
        PROVE  \/ expect'[k] = expect[k]
               \/ Completes(c, k, expect'[k])
    BY <1>4 DEF UndoSet, Promise, Completes, TypeOK
  <1>5. ASSUME NEW c \in Clients, Execute(c)
        PROVE  \/ expect'[k] = expect[k] /\ \A d \in Clients : req'[d].key = k => req[d].key = k
               \/ Completes(c, k, expect'[k])
    <2>1. CASE Starts(c)
      BY <1>1, <2>1, Zenon
    <2>2. CASE LogRequest(c)
      BY <2>2, Zenon DEF LogRequest
    <2>3. CASE LogRequestFails(c) \/ UndoSetFails(c)
      BY <1>2, <2>3, Zenon DEF LogRequestFails, UndoSetFails
    <2>4. CASE RejectSet(c)
      BY <1>2, <2>4, Zenon DEF RejectSet
    <2>5. CASE ApplySet(c) \/ ApplyDel(c)
      <3>1. Return(c)
        BY <2>5, Zenon DEF ApplySet, ApplyDel
      <3>. QED  BY <1>2, <1>3, <2>5, <3>1, Zenon
    <2>6. CASE UndoSet(c)
      BY <1>2, <1>4, <2>6, Zenon DEF UndoSet
    <2>. QED  BY <1>5, <2>1, <2>2, <2>3, <2>4, <2>5, <2>6, Zenon DEF Execute, Starts
  <1>6. CASE Snapshot \/ Startup
    BY <1>6, Zenon DEF Snapshot, DumpStart, ChildPublishes, ChildFails, TruncateWAL, Startup, OpenShard,
                LoadEntry, ReplayStart, ReplayRecord, ReplayEnd
  <1>7. CASE StartAgain \/ Tick \/ UNCHANGED vars \/ \E j \in Keys : Evict(j)
    BY <1>7, Zenon DEF StartAgain, Tick, vars, Evict
  <1>8. CASE Crash
    BY <1>8, ShardAssumption, Zenon DEF Crash, NoRequest
  <1>. QED  BY <1>5, <1>6, <1>7, <1>8, Zenon DEF Next

(* Every step keeps PromiseInv: Execute withdraws the promise about a key  *)
(* before it writes the log, and a request that completes alone leaves the *)
(* last record of its key.                                                 *)
LEMMA PromiseStep ==
    ASSUME TypeOK, RequestInv, SoloInv, PromiseInv, [Next]_vars
    PROVE  PromiseInv'
  <1>. SUFFICES ASSUME NEW k \in Keys, expect'[k] # Unknown
                PROVE  /\ InFlight(k)' = {}
                       /\ \/ (\A i \in DOMAIN wal' : wal'[i].key # k) /\ expect'[k] = Absent
                          \/ \E i \in DOMAIN wal' : IsLast(i, k)' /\ wal'[i].ent = expect'[k]
    BY Zenon DEF PromiseInv
  <1>1. ASSUME expect'[k] = expect[k], \A c \in Clients : req'[c].key = k => req[c].key = k
        PROVE  /\ InFlight(k)' = {}
               /\ \/ (\A i \in DOMAIN wal' : wal'[i].key # k) /\ expect'[k] = Absent
                  \/ \E i \in DOMAIN wal' : IsLast(i, k)' /\ wal'[i].ent = expect'[k]
    <2>1. InFlight(k) = {}
      BY <1>1, Zenon DEF PromiseInv
    <2>2. InFlight(k)' = {}
      BY <1>1, <2>1, Zenon DEF InFlight
    <2>3. CASE wal' = wal
      BY <1>1, <2>2, <2>3, Zenon DEF PromiseInv, IsLast
    <2>4. ASSUME NEW c \in Clients, NEW r, LogWrite(c, r)
          PROVE  \/ (\A i \in DOMAIN wal' : wal'[i].key # k) /\ expect'[k] = Absent
                 \/ \E i \in DOMAIN wal' : IsLast(i, k)' /\ wal'[i].ent = expect'[k]
      <3>1. r \in Record /\ r.key = req[c].key /\ wal \in Seq(Record) /\ wal' = Append(wal, r)
        BY <2>4, LogWriteType, Zenon DEF LogWrite, TypeOK
      <3>2. k # r.key
        BY <2>1, <3>1, Zenon DEF InFlight
      <3>3. CASE (\A i \in DOMAIN wal : wal[i].key # k) /\ expect[k] = Absent
        BY <1>1, <3>1, <3>2, <3>3, AppendOther, Zenon
      <3>4. CASE \E i \in DOMAIN wal : IsLast(i, k) /\ wal[i].ent = expect[k]
        <4>1. PICK i \in DOMAIN wal : IsLast(i, k) /\ wal[i].ent = expect[k]
          BY <3>4, Zenon
        <4>2. i \in DOMAIN wal' /\ IsLast(i, k)' /\ wal'[i] = wal[i]
          BY <3>1, <3>2, <4>1, AppendKeepsLast, Zenon
        <4>. QED  BY <1>1, <4>1, <4>2, Zenon
      <3>5. \/ (\A i \in DOMAIN wal : wal[i].key # k) /\ expect[k] = Absent
            \/ \E i \in DOMAIN wal : IsLast(i, k) /\ wal[i].ent = expect[k]
        BY <1>1, Zenon DEF PromiseInv
      <3>. QED  BY <3>3, <3>4, <3>5, Zenon
    <2>. QED  BY <2>2, <2>3, <2>4, WalStep, Zenon
  <1>2. ASSUME NEW c \in Clients, Completes(c, k, expect'[k])
        PROVE  /\ InFlight(k)' = {}
               /\ \E i \in DOMAIN wal' : IsLast(i, k)' /\ wal'[i].ent = expect'[k]
    <2>1. Return(c)
      BY <1>2, Zenon DEF Completes, ApplySet, ApplyDel, UndoSet
    <2>2. InFlight(k)' = {}
      <3>1. \A d \in Clients : d # c => req'[d].key # k
        BY <1>2, <2>1, Zenon DEF Return, TypeOK, Completes, RequestInv
      <3>2. req'[c].key # k
        BY <2>1, ShardAssumption, Zenon DEF Return, TypeOK, NoRequest
      <3>. QED  BY <3>1, <3>2 DEF InFlight
    <2>3. CASE ApplySet(c) \/ ApplyDel(c)
      <3>1. wal' = wal /\ pc[c] = "apply" /\ solo[c] /\ req[c].key = k
        BY <1>2, <2>3, Zenon DEF ApplySet, ApplyDel, Completes
      <3>2. expect'[k] = Logged(req[c]).ent
        BY <1>2, <2>3, Zenon DEF ApplySet, ApplyDel, UndoSet, Completes
      <3>3. PICK i \in DOMAIN wal : IsLast(i, k) /\ wal[i] = Logged(req[c])
        BY <3>1, Zenon DEF SoloInv
      <3>4. IsLast(i, k)'
        BY <3>1, <3>3, SameLast, Zenon
      <3>. QED  BY <2>2, <3>1, <3>2, <3>3, <3>4, Zenon
    <2>4. CASE UndoSet(c)
      <3>. PICK r : r = Tombstone(req[c].key)
        BY Zenon
      <3>1. r \in Record /\ r.key = k /\ wal \in Seq(Record) /\ wal' = Append(wal, r)
        BY <1>2, <2>4, LogWriteType, Zenon DEF UndoSet, LogWrite, TypeOK, Completes
      <3>2. r.ent = Absent /\ expect'[k] = Absent
        BY <1>2, <2>4, Zenon DEF UndoSet, ApplySet, ApplyDel, Completes, Tombstone
      <3>3. PICK i \in DOMAIN wal' : IsLast(i, r.key)' /\ wal'[i] = r
        BY <3>1, AppendIsLast, Zenon
      <3>4. IsLast(i, k)' /\ wal'[i].ent = expect'[k]
        BY <3>1, <3>2, <3>3, Zenon
      <3>. QED  BY <2>2, <3>3, <3>4, Zenon
    <2>5. ApplySet(c) \/ ApplyDel(c) \/ UndoSet(c)
      BY <1>2, Zenon DEF Completes
    <2>. QED  BY <2>3, <2>4, <2>5, Zenon
  <1>. QED  BY <1>1, <1>2, PromiseOrigin, Zenon

(***************************************************************************)
(* The engine while the shard serves                                       *)
(***************************************************************************)

(* A key with a standing promise is touched by its eviction only.          *)
LEMMA PromisedItem ==
    ASSUME TypeOK, RequestInv, PromiseInv, [Next]_vars, status = "up", status' = "up",
           NEW k \in Keys, expect[k] # Unknown, expect'[k] # Unknown
    PROVE  items'[k] = items[k] \/ Evict(k)
  <1>1. \A c \in Clients : req[c].key # k
    <2>1. InFlight(k) = {}
      BY Zenon DEF PromiseInv
    <2>. QED  BY <2>1, Zenon DEF InFlight
  <1>2. ASSUME NEW c \in Clients, Execute(c)
        PROVE  items'[k] = items[k]
    <2>1. ASSUME NEW j \in Keys, NEW v \in Values, NEW ttl \in TTLs, SetStart(c, j, v, ttl)
          PROVE  items'[k] = items[k]
      <3>1. j # k
        BY <2>1, Zenon DEF SetStart, Withdraw, TypeOK
      <3>. QED  BY <2>1, <3>1, Zenon DEF SetStart, AfterGet, TypeOK, Image
    <2>2. CASE ApplySet(c) \/ ApplyDel(c)
      BY <1>1, <2>2, Zenon DEF ApplySet, ApplyDel, TypeOK, Image
    <2>. QED  BY <1>2, <2>1, <2>2, Zenon DEF Execute, DelStart, LogRequest, LogRequestFails, RejectSet,
                                     UndoSet, UndoSetFails
  <1>3. CASE Snapshot \/ Tick \/ UNCHANGED vars
    BY <1>3, Zenon DEF Snapshot, DumpStart, ChildPublishes, ChildFails, TruncateWAL, Tick, vars
  <1>4. ASSUME NEW j \in Keys, Evict(j)
        PROVE  items'[k] = items[k] \/ Evict(k)
    BY <1>4, Zenon DEF Evict, TypeOK, Image
  <1>5. ~Startup /\ ~Crash /\ ~StartAgain
    BY Zenon DEF Startup, OpenShard, LoadEntry, ReplayStart, ReplayRecord, ReplayEnd, Crash, StartAgain
  <1>. QED  BY <1>2, <1>3, <1>4, <1>5, Zenon DEF Next

(* The clock does not run backwards.                                       *)
LEMMA ClockStep ==
    ASSUME TypeOK, [Next]_vars
    PROVE  now' \in Nat /\ now <= now'
  <1>1. now' = now \/ Tick
    BY ZenonT(30) DEF Next, Execute, SetStart, DelStart, LogRequest, LogRequestFails, ApplySet, RejectSet,
           UndoSet, UndoSetFails, ApplyDel, Evict, Snapshot, DumpStart, ChildPublishes, ChildFails,
           TruncateWAL, Startup, OpenShard, LoadEntry, ReplayStart, ReplayRecord, ReplayEnd,
           Crash, StartAgain, vars
  <1>. QED  BY <1>1 DEF Tick, TypeOK

(* An entry that shows an unlapsed one is not expired.                     *)
LEMMA CoveredIsFresh ==
    ASSUME now \in Nat, NEW it \in Entry, NEW e \in Entry, Covers(it, e), ~Lapsed(e)
    PROVE  ~Expired(it)
  BY DEF Covers, Lapsed, Expired, Entry

(* The deadline that Set computes covers the one that was logged before.   *)
LEMMA DeadlineCovers ==
    ASSUME now \in Nat, NEW v, NEW ttl \in Nat, NEW x \in Nat,
           ttl > 0 => x # 0 /\ x <= now + ttl
    PROVE  Covers([val |-> v, exp |-> Deadline(ttl)], [val |-> v, exp |-> x])
  <1>1. Deadline(ttl) = 0 \/ (x # 0 /\ Deadline(ttl) >= x)
    BY DEF Deadline
  <1>. QED  BY <1>1 DEF Covers

(* What a completed request leaves in the engine shows what it logged.     *)
LEMMA CompletedCovers ==
    ASSUME TypeOK, RequestInv, SoloInv, NEW c \in Clients, NEW k \in Keys, NEW e,
           Completes(c, k, e)
    PROVE  Covers(items'[k], e)
  <1>1. req[c] \in Request /\ req[c].ttl \in Nat /\ req[c].exp \in Nat /\ now \in Nat
    BY RequestTypes, Zenon DEF TypeOK
  <1>2. CASE ApplySet(c)
    <2>1. items'[k] = [val |-> req[c].val, exp |-> Deadline(req[c].ttl)]
      BY <1>2, Zenon DEF ApplySet, Completes, TypeOK, Image
    <2>2. e = [val |-> req[c].val, exp |-> req[c].exp]
      <3>1. ~UndoSet(c)
        BY <1>2, Zenon DEF ApplySet, UndoSet
      <3>2. e = Logged(req[c]).ent
        BY <3>1, Zenon DEF Completes
      <3>. QED  BY <3>2 DEF Logged
    <2>3. req[c].ttl > 0 => req[c].exp # 0 /\ req[c].exp <= now + req[c].ttl
      BY Zenon DEF RequestInv
    <2>4. Covers([val |-> req[c].val, exp |-> Deadline(req[c].ttl)],
                 [val |-> req[c].val, exp |-> req[c].exp])
      BY <1>1, <2>3, DeadlineCovers, Zenon
    <2>. QED  BY <2>1, <2>2, <2>4, Zenon
  <1>3. CASE ApplyDel(c)
    <2>1. items'[k] = Absent
      BY <1>3, Zenon DEF ApplyDel, Completes, TypeOK, Image
    <2>2. e.val = None
      <3>1. req[c].val = None
        BY <1>3, Zenon DEF ApplyDel
      <3>2. e = Logged(req[c]).ent \/ e = Absent
        BY Zenon DEF Completes
      <3>3. Logged(req[c]).ent.val = req[c].val /\ Absent.val = None
        BY DEF Logged, Absent
      <3>. QED  BY <3>1, <3>2, <3>3, Zenon
    <2>3. Absent.val = None /\ Absent.exp = 0
      BY DEF Absent
    <2>. QED  BY <2>1, <2>2, <2>3, Zenon DEF Covers
  <1>4. CASE UndoSet(c)
    <2>1. items'[k] = Absent
      BY <1>4, Zenon DEF UndoSet, Completes, SoloInv, RequestInv
    <2>2. e = Absent
      BY <1>4, Zenon DEF Completes, ApplySet, ApplyDel, UndoSet
    <2>. QED  BY <2>1, <2>2 DEF Covers, Absent
  <1>. QED  BY <1>2, <1>3, <1>4, Zenon DEF Completes

(* Every step keeps EngineInv: eviction only removes entries whose promise *)
(* has lapsed, and when replay ends the engine shows what the log ends     *)
(* with.                                                                   *)
LEMMA EngineStep ==
    ASSUME TypeOK, TypeOK', RequestInv, VisibleIsLogged, SoloInv, PromiseInv, EngineInv, ReplayInv,
           [Next]_vars
    PROVE  EngineInv'
  <1>. SUFFICES ASSUME status' = "up", NEW k \in Keys, expect'[k] # Unknown, ~Lapsed(expect[k])'
                PROVE  Covers(items'[k], expect'[k])
    BY Zenon DEF EngineInv, Covers
  <1>1. CASE status = "up"
    <2>1. ASSUME expect'[k] = expect[k]
          PROVE  Covers(items'[k], expect'[k])
      <3>1. expect[k] \in Entry /\ items[k] \in Entry /\ now \in Nat
        BY <2>1 DEF TypeOK, Image
      <3>2. expect[k].exp \in Nat
        BY <3>1, SMTT(30) DEF Entry
      <3>3. ~Lapsed(expect[k])
        <4>1. now' \in Nat /\ now <= now'
          BY <3>1, ClockStep
        <4>. QED  BY <2>1, <3>1, <3>2, <4>1 DEF Lapsed
      <3>4. Covers(items[k], expect[k])
        BY <1>1, <2>1, <3>3, Zenon DEF EngineInv
      <3>5. ~Evict(k)
        BY <3>1, <3>3, <3>4, CoveredIsFresh, Zenon DEF Evict
      <3>6. items'[k] = items[k]
        BY <1>1, <2>1, <3>5, PromisedItem, Zenon
      <3>. QED  BY <2>1, <3>4, <3>6, Zenon
    <2>2. ASSUME NEW c \in Clients, Completes(c, k, expect'[k])
          PROVE  Covers(items'[k], expect'[k])
      BY <2>2, CompletedCovers, Zenon
    <2>. QED  BY <2>1, <2>2, PromiseOrigin, Zenon
  <1>2. CASE status # "up"
    <2>1. ReplayEnd
      <3>1. \A c \in Clients : ~Execute(c)
        BY <1>2, ZenonT(30) DEF Execute, SetStart, DelStart, LogRequest, LogRequestFails, ApplySet, RejectSet,
                    UndoSet, UndoSetFails, ApplyDel, RequestInv
      <3>2. CASE Snapshot \/ Tick \/ UNCHANGED vars \/ \E j \in Keys : Evict(j)
        BY <1>2, <3>2, Zenon DEF Snapshot, DumpStart, ChildPublishes, ChildFails, TruncateWAL, Tick, vars,
                          Evict
      <3>3. CASE Startup
        BY <1>2, <3>3, Zenon DEF Startup, OpenShard, LoadEntry, ReplayStart, ReplayRecord, Restore
      <3>. QED  BY <3>1, <3>2, <3>3 DEF Next, Crash, StartAgain
    <2>2. /\ status = "replay" /\ pos = Len(wal)
          /\ UNCHANGED <<now, items, wal, expect>>
      BY <2>1 DEF ReplayEnd
    <2>3. CASE (\A i \in DOMAIN wal : wal[i].key # k) /\ expect[k] = Absent
      <3>1. items[k] = Absent
        <4>1. LogCovers(items)
          BY Zenon DEF VisibleIsLogged
        <4>2. ~InLog(k, items[k].val)
          BY <2>3, Zenon DEF InLog
        <4>. QED  BY <4>1, <4>2, Zenon DEF LogCovers
      <3>2. Absent.exp = 0
        BY DEF Absent
      <3>3. Covers(Absent, Absent)
        BY <3>2, Zenon DEF Covers
      <3>. QED  BY <2>2, <2>3, <3>1, <3>3, Zenon
    <2>4. ASSUME NEW i \in DOMAIN wal, IsLast(i, k), wal[i].ent = expect[k]
          PROVE  Covers(items[k], expect[k])
      <3>1. DOMAIN wal = 1 .. pos /\ wal[i].key = k
        <4>1. wal \in Seq(Record)
          BY Zenon DEF TypeOK
        <4>2. DOMAIN wal = 1 .. pos
          BY <2>2, <4>1
        <4>3. wal[i].key = k
          BY <2>4, Zenon DEF IsLast
        <4>. QED  BY <4>2, <4>3, Zenon
      <3>2. ~Lapsed(wal[i].ent)
        BY <2>2, <2>4, Zenon DEF Lapsed
      <3>3. \A j \in 1 .. pos : wal[j].key = wal[i].key => j <= i
        BY <2>4, <3>1, Zenon DEF IsLast
      <3>4. Covers(items[wal[i].key], wal[i].ent)
        BY <2>2, <3>1, <3>2, <3>3, Zenon DEF ReplayInv
      <3>. QED  BY <2>4, <3>1, <3>4, Zenon
    <2>. QED  BY <2>2, <2>3, <2>4, Zenon DEF PromiseInv
  <1>. QED  BY <1>1, <1>2, Zenon

(***************************************************************************)
(* The engine during a replay                                              *)
(***************************************************************************)
(* Every step keeps ReplayInv: applyRecord shows the record it replays,    *)
(* unless it has lapsed, and eviction only removes what has lapsed.        *)
LEMMA ReplayStep ==
    ASSUME TypeOK, TypeOK', RequestInv, ReplayInv, [Next]_vars
    PROVE  ReplayInv'
  <1>. SUFFICES ASSUME status' = "replay"
                PROVE  /\ pos' <= Len(wal')
                       /\ \A i \in 1 .. pos' :
                            (\A j \in 1 .. pos' : wal'[j].key = wal'[i].key => j <= i)
                            /\ ~Lapsed(wal[i].ent)'
                                => Covers(items'[wal'[i].key], wal'[i].ent)
    BY Zenon DEF ReplayInv, Covers
  <1>1. CASE ReplayStart
    <2>1. pos' = 0 /\ wal' \in Seq(Record)
      BY <1>1, Zenon DEF ReplayStart, TypeOK
    <2>2. pos' <= Len(wal') /\ 1 .. pos' = {}
      BY <2>1
    <2>. QED  BY <2>2, Zenon
  <1>2. CASE ReplayRecord
    <2>. DEFINE r == wal[pos + 1]
    <2>0. items \in [Keys -> Entry] /\ wal \in Seq(Record)
      BY Zenon DEF TypeOK, Image
    <2>1. /\ status = "replay" /\ pos \in Nat /\ pos < Len(wal) /\ pos' = pos + 1
          /\ wal' = wal /\ now' = now /\ Restore(r.key, r.ent)
      BY <1>2, Zenon DEF ReplayRecord, TypeOK
    <2>2. r \in Record /\ r.key \in Keys /\ r.ent \in Entry /\ Len(wal) \in Nat
      <3>1. r \in Record /\ Len(wal) \in Nat
        BY <2>0, <2>1, SMTT(30)
      <3>. QED  BY <3>1 DEF Record
    <2>3. ~Lapsed(r.ent) => items' = [items EXCEPT ![r.key] = r.ent]
      BY <2>1 DEF Restore
    <2>4. Lapsed(r.ent) => items' = items
      BY <2>1, Zenon DEF Restore
    <2>5. ASSUME NEW i \in 1 .. pos + 1, ~Lapsed(wal[i].ent),
                 \A j \in 1 .. pos + 1 : wal[j].key = wal[i].key => j <= i
          PROVE  Covers(items'[wal[i].key], wal[i].ent)
      <3>1. CASE i = pos + 1
        <4>1. items'[r.key] = r.ent
          BY <2>0, <2>2, <2>3, <2>5, <3>1, Zenon
        <4>2. r.ent.exp \in Nat
          BY <2>2, Zenon DEF Entry
        <4>. QED  BY <3>1, <4>1, <4>2 DEF Covers
      <3>2. CASE i # pos + 1
        <4>1. i \in 1 .. pos /\ wal[i].key # r.key
          BY <2>1, <2>5, <3>2, SMTT(30)
        <4>2. Covers(items[wal[i].key], wal[i].ent)
          BY <2>1, <2>5, <4>1 DEF ReplayInv
        <4>3. items'[wal[i].key] = items[wal[i].key]
          <5>1. wal[i] \in Record
            BY <2>0, <2>1, <2>2, <4>1
          <5>. wal[i].key \in Keys
            BY <5>1, Zenon DEF Record
          <5>. QED  BY <2>0, <2>2, <2>3, <2>4, <4>1, Zenon
        <4>. QED  BY <4>2, <4>3
      <3>. QED  BY <3>1, <3>2, Zenon
    <2>6. \A i \in 1 .. pos + 1 : Lapsed(wal[i].ent)' <=> Lapsed(wal[i].ent)
      BY <2>1 DEF Lapsed
    <2>7. pos' <= Len(wal')
      BY <2>1, <2>2
    <2>8. \A i \in 1 .. pos' :
            (\A j \in 1 .. pos' : wal'[j].key = wal'[i].key => j <= i)
            /\ ~Lapsed(wal[i].ent)' => Covers(items'[wal'[i].key], wal'[i].ent)
      <3>1. pos' = pos + 1 /\ wal' = wal
        BY <2>1, Zenon
      <3>. QED  BY <2>5, <2>6, <3>1, Zenon
    <2>. QED  BY <2>7, <2>8, Zenon
  <1>3. ASSUME status = "replay", UNCHANGED <<wal, pos>>,
               \A k \in Keys : items'[k] = items[k] \/ Expired(items[k])
        PROVE  /\ pos' <= Len(wal')
               /\ \A i \in 1 .. pos' :
                    (\A j \in 1 .. pos' : wal'[j].key = wal'[i].key => j <= i)
                    /\ ~Lapsed(wal[i].ent)'
                        => Covers(items'[wal'[i].key], wal'[i].ent)
    <2>1. pos' <= Len(wal')
      BY <1>3, Zenon DEF ReplayInv
    <2>2. ASSUME NEW i \in 1 .. pos, ~Lapsed(wal[i].ent)',
                 \A j \in 1 .. pos : wal[j].key = wal[i].key => j <= i
          PROVE  Covers(items'[wal[i].key], wal[i].ent)
      <3>1. wal[i] \in Record /\ now \in Nat /\ pos \in Nat
        <4>1. wal \in Seq(Record) /\ now \in Nat /\ pos \in Nat
          BY Zenon DEF TypeOK
        <4>2. pos <= Len(wal)
          BY <1>3, Zenon DEF ReplayInv
        <4>. QED  BY <4>1, <4>2
      <3>2. wal[i].key \in Keys /\ wal[i].ent \in Entry /\ wal[i].ent.exp \in Nat
        BY <3>1, ZenonT(30) DEF Record, Entry
      <3>3. ~Lapsed(wal[i].ent)
        BY <1>3, <2>2, <3>1, <3>2, ClockStep DEF Lapsed
      <3>4. Covers(items[wal[i].key], wal[i].ent)
        BY <1>3, <2>2, <3>3, Zenon DEF ReplayInv
      <3>5. ~Expired(items[wal[i].key])
        BY <3>1, <3>2, <3>3, <3>4, CoveredIsFresh, Zenon DEF TypeOK, Image
      <3>. QED  BY <1>3, <3>2, <3>4, <3>5, Zenon
    <2>. QED  BY <1>3, <2>1, <2>2, Zenon
  <1>4. CASE Snapshot \/ Tick \/ UNCHANGED vars
    BY <1>3, <1>4, TruncateKeeps, Zenon DEF Snapshot, DumpStart, ChildPublishes, ChildFails, TruncateWAL,
                                     Tick, vars, TypeOK
  <1>5. ASSUME NEW k \in Keys, Evict(k)
        PROVE  /\ status = "replay" /\ UNCHANGED <<wal, pos>>
               /\ \A j \in Keys : items'[j] = items[j] \/ Expired(items[j])
    BY <1>5, Zenon DEF Evict, TypeOK, Image
  <1>6. ASSUME NEW c \in Clients
        PROVE  ~Execute(c)
    <2>1. ASSUME status = "up"
          PROVE  ~Execute(c)
      <3>1. ASSUME Execute(c)
            PROVE  status' = status
        BY <3>1, Zenon DEF Execute, SetStart, DelStart, LogRequest, LogRequestFails, ApplySet,
                           RejectSet, UndoSet, UndoSetFails, ApplyDel
      <3>. QED  BY <2>1, <3>1
    <2>2. ASSUME status # "up"
          PROVE  ~Execute(c)
      BY <2>2, Zenon DEF Execute, SetStart, DelStart, LogRequest, LogRequestFails, ApplySet, RejectSet,
                  UndoSet, UndoSetFails, ApplyDel, RequestInv
    <2>. QED  BY <2>1, <2>2, Zenon
  <1>7. ~OpenShard /\ ~ReplayEnd /\ ~Crash /\ ~StartAgain /\ \A k \in Keys : ~LoadEntry(k)
    BY Zenon DEF OpenShard, ReplayEnd, Crash, StartAgain, LoadEntry, Restore
  <1>. QED  BY <1>1, <1>2, <1>3, <1>4, <1>5, <1>6, <1>7, Zenon DEF Next, Startup

(***************************************************************************)
(* The theorems                                                            *)
(***************************************************************************)
(* The facts together are inductive; none of them is on its own.           *)
IInv == TypeOK /\ VisibleIsLogged /\ Recoverable

(* The inductive invariant holds of an empty data directory ...            *)
LEMMA InitInv == Init => IInv
  <1>. SUFFICES ASSUME Init
                PROVE  IInv
    BY Zenon
  <1>1. TypeOK
    <2>1. /\ pc \in [Clients -> {"idle", "log", "apply", "undo"}]
          /\ req \in [Clients -> Request] /\ solo \in [Clients -> BOOLEAN]
      BY AbsentType DEF Init
    <2>2. expect \in [Keys -> Entry \cup {Unknown}]
      BY AbsentType DEF Init, NoItems, Image
    <2>3. wal \in Seq(Record)
      BY DEF Init
    <2>. QED  BY <2>1, <2>2, <2>3, AbsentType, SMTT(30) DEF Init, TypeOK, Statuses
  <1>2. VisibleIsLogged
    BY Zenon DEF Init, VisibleIsLogged, LogCovers, NoItems
  <1>3. RequestInv /\ ApplyIsLogged /\ SoloInv
    <2>1. RequestInv
      <3>1. \A c \in Clients : pc[c] = "idle" /\ req[c] = NoRequest /\ ~solo[c]
        BY Zenon DEF Init
      <3>2. ~(NoRequest.ttl > 0)
        BY SMTT(30) DEF NoRequest
      <3>. QED  BY <3>1, <3>2, Zenon DEF RequestInv
    <2>2. ApplyIsLogged
      BY SMTT(30) DEF Init, ApplyIsLogged
    <2>3. SoloInv
      BY DEF Init, SoloInv
    <2>. QED  BY <2>1, <2>2, <2>3, Zenon
  <1>4. PromiseInv
    <2>1. \A k \in Keys : InFlight(k) = {}
      BY ShardAssumption DEF Init, InFlight, NoRequest
    <2>2. \A i \in DOMAIN wal : FALSE
      BY DEF Init
    <2>3. \A k \in Keys : expect[k] = Absent
      <3>1. expect = NoItems
        BY ZenonT(30) DEF Init
      <3>. QED  BY <3>1, Zenon DEF NoItems
    <2>. QED  BY <2>1, <2>2, <2>3, Zenon DEF PromiseInv
  <1>5. EngineInv /\ ReplayInv
    <2>1. status = "down"
      BY ZenonT(30) DEF Init
    <2>. QED  BY <2>1, Zenon DEF EngineInv, ReplayInv
  <1>. QED  BY <1>1, <1>2, <1>3, <1>4, <1>5 DEF IInv, Recoverable

(* ... every step keeps it ...                                             *)
LEMMA NextInv == IInv /\ [Next]_vars => IInv'
  <1>. SUFFICES ASSUME IInv, [Next]_vars
                PROVE  IInv'
    OBVIOUS
  <1>. USE DEF IInv, Recoverable
  <1>1. TypeOK'
    BY TypeExecute, TypeOthers DEF Next
  <1>2. RequestInv'
    BY RequestStep
  <1>3. VisibleIsLogged' /\ ApplyIsLogged'
    BY VisibleStep, ApplyStep
  <1>4. SoloInv' /\ PromiseInv'
    BY SoloStep, PromiseStep, SMTT(30)
  <1>5. EngineInv' /\ ReplayInv'
    BY <1>1, EngineStep, ReplayStep
  <1>. QED  BY <1>1, <1>2, <1>3, <1>4, <1>5

(* ... and so it always holds.                                             *)
LEMMA Invariance == Spec => []IInv
  BY InitInv, NextInv, PTL DEF Spec

(* Every state of a shard is well typed: no interleaving of requests,      *)
(* snapshots, start-ups and crashes takes it out of the states the actions *)
(* are written for.                                                        *)
THEOREM TypeCorrect == Spec => []TypeOK
  <1>1. IInv => TypeOK
    BY DEF IInv
  <1>. QED  BY <1>1, Invariance, PTL

(* Execute writes the log before the engine, and nothing shortens the log: *)
(* whatever the engine or a snapshot shows is in the log.                  *)
THEOREM WriteAhead == Spec => []VisibleIsLogged
  <1>1. IInv => VisibleIsLogged
    BY DEF IInv
  <1>. QED  BY <1>1, Invariance, PTL

(* At every point of every request, snapshot and start-up the log suffices *)
(* to restore what LoadShard must restore.                                 *)
THEOREM Recoverability == Spec => []Recoverable
  <1>1. IInv => Recoverable
    BY Zenon DEF IInv
  <1>. QED  BY <1>1, Invariance, PTL

(* An acknowledged write that no other write of the key overlapped is      *)
(* shown by a serving shard until its deadline, whatever crashes, restarts *)
(* and snapshots come between: Execute and LoadShard keep the promise.     *)
THEOREM Durability == Spec => []AckedDurable
  <1>1. IInv => AckedDurable
    BY DEF IInv, Recoverable, EngineInv, Covers, AckedDurable
  <1>. QED  BY <1>1, Invariance, PTL

(* No step takes a record out of the log, the truncation at the end of     *)
(* Snapshot included.                                                      *)
THEOREM AppendOnly == Spec => LogOnlyGrows
  <1>1. IInv /\ [Next]_vars => wal' = wal \/ Extends(wal', wal)
    <2>. SUFFICES ASSUME IInv, [Next]_vars, wal' # wal
                  PROVE  Extends(wal', wal)
      OBVIOUS
    <2>. USE DEF IInv, Recoverable
    <2>1. PICK c \in Clients : \E r : LogWrite(c, r)
      BY WalStep
    <2>2. PICK r : LogWrite(c, r)
      BY <2>1
    <2>3. r \in Record /\ wal \in Seq(Record) /\ wal' = Append(wal, r)
      BY <2>2, LogWriteType, Zenon DEF LogWrite, TypeOK
    <2>. QED  BY <2>3 DEF Extends
  <1>. QED  BY <1>1, Invariance, PTL DEF Spec, LogOnlyGrows
=============================================================================
