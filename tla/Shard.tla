------------------------------- MODULE Shard -------------------------------
(***************************************************************************)
(* One shard of the store: the command path of internal/shard/runner.go    *)
(* over the engine of internal/storage, the plaintext write-ahead log and  *)
(* the snapshots of internal/persistence.                                  *)
(*                                                                         *)
(* The listeners run one event loop per core, and every loop calls Execute *)
(* directly on the shard that owns the key.  A SET or a DEL is therefore   *)
(* not atomic: it is a sequence of steps, each atomic by the lock it runs  *)
(* under (the log's mutex, the engine's mutex), interleaved with the steps *)
(* of the other event loops, of the timing wheel, of the snapshot loop and *)
(* its child process, and with crashes.  Start-up is modelled step by step *)
(* too: the snapshot is loaded entry by entry and the log is replayed      *)
(* record by record, so a crash may fall inside the recovery.              *)
(*                                                                         *)
(* A log record carries an entry; a tombstone is the record of Absent.     *)
(* Engine.Set is one step here: the counters that the code adjusts after   *)
(* it has released the lock are taken to change with the map.              *)
(***************************************************************************)
EXTENDS Naturals, Sequences, FiniteSetsExt

CONSTANTS
    Clients,     \* the event loops, each executing one request at a time
    Keys,        \* the keys that hash to this shard
    Values,      \* what a SET may store
    Size,        \* Size[v]: len(key) + len(value) of an entry holding v
    TTLs,        \* the TTLs a SET may carry; 0 is "no TTL"
    MaxBytes,    \* the engine's memory ceiling; 0 is "no ceiling"
    DiskFaults,  \* whether an append to the log may fail
    MaxLog,      \* bound: no request starts on a log of this many records
    MaxTime,     \* bound on the clock
    MaxCrashes,  \* bound on the number of crashes
    None,        \* the value of an absent key and of a tombstone
    NoSnapshot,  \* there is no snapshot (or no snapshot child)
    Unknown      \* no promise was made about a key

ASSUME ShardAssumption ==
    /\ None \notin Values /\ None \notin Keys
    /\ TTLs \subseteq Nat
    /\ DiskFaults \in BOOLEAN
    /\ MaxBytes \in Nat /\ MaxLog \in Nat /\ MaxTime \in Nat /\ MaxCrashes \in Nat

VARIABLES
    now,       \* the wall clock
    status,    \* where the process is: see Statuses
    items,     \* Engine.items; Absent for a key that is not in the map
    wal,       \* the records of shard_NNN.db, in file order
    snap,      \* the contents of shard_NNN.snap
    child,     \* what the snapshot child has been sent through its pipe
    snapper,   \* the snapshot loop: idle, dumping (waits for its child), truncating
    todo,      \* start-up: what is still to be loaded of the snapshot read
    pos,       \* start-up: the number of log records replayed
    pc,        \* where each event loop is in Execute
    req,       \* the request it executes
    crashes,   \* the number of crashes so far
    expect,    \* history: what the store has promised about each key
    solo       \* history: no other SET or DEL of the key overlapped this one

vars == <<now, status, items, wal, snap, child, snapper, todo, pos,
          pc, req, crashes, expect, solo>>

Statuses == {"down", "snapshot", "replay", "up", "failed"}

Entry == [val : Values \cup {None}, exp : Nat]
Absent == [val |-> None, exp |-> 0]
Record == [key : Keys, ent : Entry]
Image == [Keys -> Entry]

(* A request: the key, the value (None for a DEL), the TTL, the expiration *)
(* computed for the log, and keyExisted.                                   *)
Request == [key : Keys \cup {None}, val : Values \cup {None}, ttl : TTLs \cup {0},
            exp : Nat, existed : BOOLEAN]
NoRequest == [key |-> None, val |-> None, ttl |-> 0, exp |-> 0, existed |-> FALSE]

NoItems == [k \in Keys |-> Absent]

(***************************************************************************)
(* Time                                                                    *)
(***************************************************************************)
Deadline(ttl) == IF ttl > 0 THEN now + ttl ELSE 0

(* The engine's test, time.Now().After(exp), and the one replay applies to *)
(* a stored deadline, time.Until(exp) <= 0, differ at the deadline itself. *)
Expired(e) == e.exp # 0 /\ now > e.exp
Lapsed(e) == e.exp # 0 /\ now >= e.exp

Live(k) == items[k] # Absent /\ ~Expired(items[k])

(***************************************************************************)
(* The engine                                                              *)
(***************************************************************************)
Allocated == MapThenSumSet(LAMBDA k : Size[items[k].val],
                           {k \in Keys : items[k] # Absent})

(* The ceiling is checked against the whole new entry, also when the SET   *)
(* replaces an entry that is already accounted for.                        *)
Full(v) == MaxBytes > 0 /\ Allocated + Size[v] > MaxBytes

(* deleteIfExpired, as Get calls it on the key it looks up.                *)
AfterGet(k) == IF Expired(items[k]) THEN [items EXCEPT ![k] = Absent] ELSE items

(***************************************************************************)
(* The requests                                                            *)
(***************************************************************************)
InFlight(k) == {c \in Clients : req[c].key = k}

Logged(r) == [key |-> r.key, ent |-> [val |-> r.val, exp |-> r.exp]]
Tombstone(k) == [key |-> k, ent |-> Absent]

(* Bookkeeping of the history variables when c starts to change key k: the *)
(* promise about k is withdrawn until a request on k completes that no     *)
(* other one overlapped.                                                   *)
Withdraw(c, k) ==
    /\ expect' = [expect EXCEPT ![k] = Unknown]
    /\ solo' = [d \in Clients |-> IF d = c THEN InFlight(k) = {}
                                  ELSE solo[d] /\ d \notin InFlight(k)]

(* ... and when it completes, having left entry e behind.                  *)
Promise(c, e) ==
    expect' = IF solo[c] THEN [expect EXCEPT ![req[c].key] = e] ELSE expect

Return(c) ==
    /\ pc' = [pc EXCEPT ![c] = "idle"]
    /\ req' = [req EXCEPT ![c] = NoRequest]
    /\ solo' = [solo EXCEPT ![c] = FALSE]

(* Mutant of SetStart: the engine is changed before the log is written.    *)
SetStart_EngineFirst(c, k, v, ttl) ==
    /\ status = "up" /\ pc[c] = "idle" /\ Len(wal) < MaxLog
    /\ req' = [req EXCEPT ![c] = [key |-> k, val |-> v, ttl |-> ttl,
                                  exp |-> Deadline(ttl), existed |-> Live(k)]]
    /\ items' = AfterGet(k)
    /\ pc' = [pc EXCEPT ![c] = "apply"]
    /\ Withdraw(c, k)
    /\ UNCHANGED <<now, status, wal, snap, child, snapper, todo, pos, crashes>>

(* Execute, case CmdSet: the expiration for the log, then keyExisted.      *)
SetStart(c, k, v, ttl) ==
    /\ status = "up" /\ pc[c] = "idle" /\ Len(wal) < MaxLog
    /\ req' = [req EXCEPT ![c] = [key |-> k, val |-> v, ttl |-> ttl,
                                  exp |-> Deadline(ttl), existed |-> Live(k)]]
    /\ items' = AfterGet(k)
    /\ pc' = [pc EXCEPT ![c] = "log"]
    /\ Withdraw(c, k)
    /\ UNCHANGED <<now, status, wal, snap, child, snapper, todo, pos, crashes>>

(* Execute, case CmdDel.                                                   *)
DelStart(c, k) ==
    /\ status = "up" /\ pc[c] = "idle" /\ Len(wal) < MaxLog
    /\ req' = [req EXCEPT ![c] = [key |-> k, val |-> None, ttl |-> 0,
                                  exp |-> 0, existed |-> FALSE]]
    /\ pc' = [pc EXCEPT ![c] = "log"]
    /\ Withdraw(c, k)
    /\ UNCHANGED <<now, status, items, wal, snap, child, snapper, todo, pos, crashes>>

(* Persistence.Write or Persistence.Delete: the record is appended and     *)
(* synced under the log's mutex.                                           *)
LogRequest(c) ==
    /\ pc[c] = "log"
    /\ wal' = Append(wal, Logged(req[c]))
    /\ pc' = [pc EXCEPT ![c] = "apply"]
    /\ UNCHANGED <<now, status, items, snap, child, snapper, todo, pos,
                   req, crashes, expect, solo>>

(* The same when it fails: the first write failed and nothing is in the    *)
(* file, or the last step, Sync, failed and the record is there.  The      *)
(* request returns the error without touching the engine.  (What an error  *)
(* between the two leaves behind is the subject of module WalFile.)        *)
LogRequestFails(c) ==
    /\ DiskFaults /\ pc[c] = "log"
    /\ wal' \in {wal, Append(wal, Logged(req[c]))}
    /\ Return(c)
    /\ UNCHANGED <<now, status, items, snap, child, snapper, todo, pos,
                   crashes, expect>>

(* Engine.Set.  The entry's expiration is computed again, from the clock   *)
(* as it is now.                                                           *)
ApplySet(c) ==
    LET r == req[c] IN
    /\ pc[c] = "apply" /\ r.val # None /\ ~Full(r.val)
    /\ items' = [items EXCEPT ![r.key] = [val |-> r.val, exp |-> Deadline(r.ttl)]]
    /\ Return(c)
    /\ Promise(c, Logged(r).ent)
    /\ UNCHANGED <<now, status, wal, snap, child, snapper, todo, pos, crashes>>

(* Engine.Set returns ErrEngineFull: only a key that did not exist is      *)
(* compensated for in the log.                                             *)
RejectSet(c) ==
    LET r == req[c] IN
    /\ pc[c] = "apply" /\ r.val # None /\ Full(r.val)
    /\ IF r.existed THEN Return(c)
       ELSE pc' = [pc EXCEPT ![c] = "undo"] /\ UNCHANGED <<req, solo>>
    /\ UNCHANGED <<now, status, items, wal, snap, child, snapper, todo, pos,
                   crashes, expect>>

(* Mutant of UndoSet: the refused SET stays in the log.                    *)
UndoSet_NoTombstone(c) ==
    /\ pc[c] = "undo"
    /\ Return(c)
    /\ Promise(c, Absent)
    /\ UNCHANGED <<now, status, items, wal, snap, child, snapper, todo, pos, crashes>>

(* The compensating Persistence.Delete.                                    *)
UndoSet(c) ==
    /\ pc[c] = "undo"
    /\ wal' = Append(wal, Tombstone(req[c].key))
    /\ Return(c)
    /\ Promise(c, Absent)
    /\ UNCHANGED <<now, status, items, snap, child, snapper, todo, pos, crashes>>

(* ... whose failure is only written to the server's own logger.           *)
UndoSetFails(c) ==
    /\ DiskFaults /\ pc[c] = "undo"
    /\ wal' \in {wal, Append(wal, Tombstone(req[c].key))}
    /\ Return(c)
    /\ UNCHANGED <<now, status, items, snap, child, snapper, todo, pos,
                   crashes, expect>>

(* Engine.Delete.                                                          *)
ApplyDel(c) ==
    /\ pc[c] = "apply" /\ req[c].val = None
    /\ items' = [items EXCEPT ![req[c].key] = Absent]
    /\ Return(c)
    /\ Promise(c, Logged(req[c]).ent)
    /\ UNCHANGED <<now, status, wal, snap, child, snapper, todo, pos, crashes>>

(* deleteIfExpired, called by a GET of the key and by the timing wheel,    *)
(* which runs from NewEngine on, so also during start-up.                  *)
Evict(k) ==
    /\ status \in {"snapshot", "replay", "up"}
    /\ items[k] # Absent /\ Expired(items[k])
    /\ items' = [items EXCEPT ![k] = Absent]
    /\ UNCHANGED <<now, status, wal, snap, child, snapper, todo, pos,
                   pc, req, crashes, expect, solo>>

(***************************************************************************)
(* Snapshots                                                               *)
(***************************************************************************)

(* Mutant of DumpStart: the image has no place for a key without entry.    *)
DumpStart_Partial ==
    /\ status = "up" /\ snapper = "idle" /\ child = NoSnapshot
    /\ child' = [k \in {x \in Keys : Live(x)} |-> items[k]]
    /\ snapper' = "dumping"
    /\ UNCHANGED <<now, status, items, wal, snap, todo, pos, pc, req,
                   crashes, expect, solo>>

(* snapshotForkDump: ForEach copies the unexpired entries under the read   *)
(* lock; the copy is streamed to the child.  An orphan of a crashed        *)
(* process is taken to be gone by the first tick, a second after start-up. *)
DumpStart ==
    /\ status = "up" /\ snapper = "idle" /\ child = NoSnapshot
    /\ child' = [k \in Keys |-> IF Live(k) THEN items[k] ELSE Absent]
    /\ snapper' = "dumping"
    /\ UNCHANGED <<now, status, items, wal, snap, todo, pos, pc, req,
                   crashes, expect, solo>>

(* The child has read EOF, patched the header and renamed its file over    *)
(* the old snapshot.  The parent, if it still runs, learns of it, or of an *)
(* error after the rename (syncDir, the child's timeout).                  *)
ChildPublishes ==
    /\ child # NoSnapshot
    /\ snap' = child
    /\ child' = NoSnapshot
    /\ snapper' \in IF snapper = "dumping" THEN {"truncating", "idle"} ELSE {snapper}
    /\ UNCHANGED <<now, status, items, wal, todo, pos, pc, req, crashes,
                   expect, solo>>

(* The child fails before the rename: it removes its temporary file.       *)
ChildFails ==
    /\ child # NoSnapshot
    /\ child' = NoSnapshot
    /\ snapper' = "idle"
    /\ UNCHANGED <<now, status, items, wal, snap, todo, pos, pc, req, crashes,
                   expect, solo>>

(* Mutant of TruncateWAL: the whole log is taken to be in the snapshot.    *)
TruncateWAL_ToZero ==
    /\ snapper = "truncating"
    /\ wal' = <<>>
    /\ snapper' = "idle"
    /\ UNCHANGED <<now, status, items, snap, child, todo, pos, pc, req,
                   crashes, expect, solo>>

(* The tail of Snapshot: the boundary handed to truncateWALLocked is the   *)
(* size of the file, read under the mutex that it is truncated under.      *)
TruncateWAL ==
    /\ snapper = "truncating"
    /\ wal' = SubSeq(wal, 1, Len(wal))
    /\ snapper' = "idle"
    /\ UNCHANGED <<now, status, items, snap, child, todo, pos, pc, req,
                   crashes, expect, solo>>

(***************************************************************************)
(* Start-up and crashes                                                    *)
(***************************************************************************)

(* Run: a new engine, OpenShard, and the first half of snapshotRead, which *)
(* decodes and verifies all of the file, if there is one.                  *)
OpenShard ==
    /\ status = "down"
    /\ status' = "snapshot"
    /\ todo' = IF snap = NoSnapshot THEN NoItems ELSE snap
    /\ UNCHANGED <<now, items, wal, snap, child, snapper, pos, pc, req,
                   crashes, expect, solo>>

(* Mutant of Restore: a tombstone is skipped like a record that lapsed.    *)
Restore_SkipTombstone(k, e) ==
    IF Lapsed(e) \/ e = Absent THEN UNCHANGED <<items, status>>
    ELSE IF Full(e.val) THEN status' = "failed" /\ UNCHANGED items
    ELSE items' = [items EXCEPT ![k] = e] /\ UNCHANGED status

(* Loading one entry at start-up, from the snapshot or from the log: a     *)
(* deadline that has passed leaves the engine as it is, and an entry that  *)
(* does not fit makes LoadShard, and with it start-up, fail.               *)
Restore(k, e) ==
    IF Lapsed(e) THEN UNCHANGED <<items, status>>
    ELSE IF e # Absent /\ Full(e.val) THEN status' = "failed" /\ UNCHANGED items
    ELSE items' = [items EXCEPT ![k] = e] /\ UNCHANGED status

(* The second half of snapshotRead: one entry, in the (arbitrary) order of *)
(* the file.                                                               *)
LoadEntry(k) ==
    /\ status = "snapshot" /\ todo[k] # Absent
    /\ Restore(k, todo[k])
    /\ todo' = [todo EXCEPT ![k] = Absent]
    /\ UNCHANGED <<now, wal, snap, child, snapper, pos, pc, req, crashes,
                   expect, solo>>

ReplayStart ==
    /\ status = "snapshot" /\ todo = NoItems
    /\ status' = "replay"
    /\ pos' = 0
    /\ UNCHANGED <<now, items, wal, snap, child, snapper, todo, pc, req,
                   crashes, expect, solo>>

(* Mutant of ReplayRecord: the position stays at a record that adds        *)
(* nothing to the engine.                                                  *)
ReplayRecord_Stuck ==
    /\ status = "replay" /\ pos < Len(wal)
    /\ Restore(wal[pos + 1].key, wal[pos + 1].ent)
    /\ pos' = IF wal[pos + 1].ent = Absent THEN pos ELSE pos + 1
    /\ UNCHANGED <<now, wal, snap, child, snapper, todo, pc, req, crashes,
                   expect, solo>>

(* applyRecord on the next record.                                         *)
ReplayRecord ==
    /\ status = "replay" /\ pos < Len(wal)
    /\ Restore(wal[pos + 1].key, wal[pos + 1].ent)
    /\ pos' = pos + 1
    /\ UNCHANGED <<now, wal, snap, child, snapper, todo, pc, req, crashes,
                   expect, solo>>

(* finishReplay, and Run returns the shard to the server; the position was *)
(* a local variable of its loop.                                           *)
ReplayEnd ==
    /\ status = "replay" /\ pos = Len(wal)
    /\ status' = "up"
    /\ pos' = 0
    /\ UNCHANGED <<now, items, wal, snap, child, snapper, todo, pc, req,
                   crashes, expect, solo>>

(* What the snapshot child may hold once its parent is gone: the pipe ends *)
(* wherever the parent was.  Between two entries that is a clean EOF, and  *)
(* the child goes on to publish a partial image; elsewhere it gives up.    *)
Orphans ==
    {NoSnapshot} \cup
    IF child = NoSnapshot THEN {}
    ELSE {[k \in Keys |-> IF k \in S THEN child[k] ELSE Absent] : S \in SUBSET Keys}

(* The process dies, or is stopped: Stop closes only the engine.  A record *)
(* that the crash cuts short is not in wal: replay breaks at it, and       *)
(* finishReplay removes it before the next append (see module WalFile).    *)
Crash ==
    /\ status \in {"snapshot", "replay", "up"} /\ crashes < MaxCrashes
    /\ crashes' = crashes + 1
    /\ status' = "down"
    /\ items' = NoItems
    /\ child' \in Orphans
    /\ snapper' = "idle" /\ todo' = NoItems /\ pos' = 0
    /\ pc' = [c \in Clients |-> "idle"]
    /\ req' = [c \in Clients |-> NoRequest] /\ solo' = [c \in Clients |-> FALSE]
    /\ UNCHANGED <<now, wal, snap, expect>>

(* A failed start-up ends the process; an operator may start it again.     *)
StartAgain ==
    /\ status = "failed" /\ crashes < MaxCrashes
    /\ crashes' = crashes + 1
    /\ status' = "down"
    /\ items' = NoItems
    /\ todo' = NoItems /\ pos' = 0
    /\ UNCHANGED <<now, wal, snap, child, snapper, pc, req, expect, solo>>

Tick ==
    /\ now < MaxTime
    /\ now' = now + 1
    /\ UNCHANGED <<status, items, wal, snap, child, snapper, todo, pos,
                   pc, req, crashes, expect, solo>>

(***************************************************************************)
(* The specification                                                       *)
(***************************************************************************)

(* An empty data directory.                                                *)
Init ==
    /\ now = 0 /\ crashes = 0
    /\ status = "down" /\ items = NoItems
    /\ wal = <<>>
    /\ snap = NoSnapshot /\ child = NoSnapshot /\ snapper = "idle"
    /\ todo = NoItems /\ pos = 0
    /\ pc = [c \in Clients |-> "idle"]
    /\ req = [c \in Clients |-> NoRequest]
    /\ expect = NoItems
    /\ solo = [c \in Clients |-> FALSE]

Execute(c) ==
    \/ \E k \in Keys, v \in Values, ttl \in TTLs : SetStart(c, k, v, ttl)
    \/ \E k \in Keys : DelStart(c, k)
    \/ LogRequest(c) \/ LogRequestFails(c)
    \/ ApplySet(c) \/ RejectSet(c) \/ UndoSet(c) \/ UndoSetFails(c)
    \/ ApplyDel(c)

Snapshot == DumpStart \/ ChildPublishes \/ ChildFails \/ TruncateWAL

Startup ==
    \/ OpenShard
    \/ \E k \in Keys : LoadEntry(k)
    \/ ReplayStart \/ ReplayRecord \/ ReplayEnd

Next ==
    \/ \E c \in Clients : Execute(c)
    \/ \E k \in Keys : Evict(k)
    \/ Snapshot
    \/ Startup
    \/ Crash \/ StartAgain
    \/ Tick

Spec == Init /\ [][Next]_vars

(* Start-up runs on the main goroutine and waits for nobody, and each      *)
(* event loop carries the request it executes to its end.                  *)
FairSpec ==
    /\ Spec
    /\ WF_vars(Startup)
    /\ \A c \in Clients : WF_vars(Execute(c) /\ pc[c] # "idle")

----------------------------------------------------------------------------
(* Type invariant.                                                         *)
TypeOK ==
    /\ now \in Nat /\ crashes \in Nat /\ pos \in Nat
    /\ status \in Statuses
    /\ items \in Image
    /\ wal \in Seq(Record)
    /\ snap \in Image \cup {NoSnapshot}
    /\ child \in Image \cup {NoSnapshot}
    /\ snapper \in {"idle", "dumping", "truncating"}
    /\ todo \in Image
    /\ pc \in [Clients -> {"idle", "log", "apply", "undo"}]
    /\ req \in [Clients -> Request]
    /\ expect \in [Keys -> Entry \cup {Unknown}]
    /\ solo \in [Clients -> BOOLEAN]

(* Acknowledged writes are durable.  When a SET or a DEL has been          *)
(* acknowledged (or a SET of a new key has been refused and compensated    *)
(* for), and no other write of the key overlapped it or followed it, then  *)
(* until its deadline the running store shows exactly its effect: before   *)
(* any crash and after any number of crashes, restarts, snapshots (whole   *)
(* or cut short) and crashes in the middle of a restart.  Behaviour of     *)
(* Execute, LoadShard and Snapshot together.                               *)
AckedDurable ==
    status = "up" =>
        \A k \in Keys : expect[k] # Unknown /\ ~Lapsed(expect[k])
                            => items[k].val = expect[k].val

(* Nothing is visible before it is logged.  Whatever the engine, the       *)
(* snapshot file or a snapshot child holds for a key is the value of some  *)
(* record of that key in the log: Execute writes the log first, and        *)
(* truncateWALLocked never cuts a record off.                              *)
InLog(k, v) == \E i \in DOMAIN wal : wal[i].key = k /\ wal[i].ent.val = v

LogCovers(img) == \A k \in Keys : img[k] # Absent => InLog(k, img[k].val)

VisibleIsLogged ==
    /\ LogCovers(items) /\ LogCovers(todo)
    /\ snap # NoSnapshot => LogCovers(snap)
    /\ child # NoSnapshot => LogCovers(child)

(* The log only grows.  No step, and in particular neither the truncation  *)
(* after a snapshot nor a start-up, takes a record away or changes one;    *)
(* each step adds at most one.                                             *)
Extends(new, old) == Len(new) = Len(old) + 1 /\ SubSeq(new, 1, Len(old)) = old

LogOnlyGrows == [][wal' = wal \/ Extends(wal', wal)]_vars

(* Start-up comes to an end: it serves, or it reports failure.             *)
StartupEnds == status = "down" ~> status \in {"up", "failed"}

(* Last write wins.  After any acknowledged write that no other one        *)
(* overlapped or followed, a reader sees that write or, once it has been   *)
(* removed or has expired, nothing: never an older value of the key.       *)
LastWriteWins ==
    status = "up" =>
        \A k \in Keys : expect[k] # Unknown
                            => items[k].val \in {expect[k].val, None}

(* Record i is the last one of key k in the log.                           *)
IsLast(i, k) ==
    /\ i \in DOMAIN wal /\ wal[i].key = k
    /\ \A j \in DOMAIN wal : wal[j].key = k => j <= i

(* With no request in flight the engine shows, for every key, what the     *)
(* last record of the key in the log says, so that replaying the records   *)
(* in order restores it.                                                   *)
ReplayRestores ==
    (status = "up" /\ \A c \in Clients : pc[c] = "idle") =>
        \A k \in Keys : \A i \in DOMAIN wal :
            IsLast(i, k) /\ ~Lapsed(wal[i].ent) => items[k].val = wal[i].ent.val

(* A data directory that the server wrote never stops it from starting.    *)
StartupSucceeds == status # "failed"

----------------------------------------------------------------------------
(* The inductive invariant behind AckedDurable.                            *)

(* An engine entry that shows e for as long as e has not lapsed.           *)
Covers(it, e) ==
    /\ it.val = e.val
    /\ it.exp = 0 \/ (e.exp # 0 /\ it.exp >= e.exp)

(* An event loop has a request exactly while it is inside Execute, which   *)
(* only happens on a running shard; history is kept for such a loop only.  *)
RequestInv == \A c \in Clients :
    /\ pc[c] = "idle" => req[c] = NoRequest /\ ~solo[c]
    /\ pc[c] # "idle" => status = "up" /\ req[c].key \in Keys
    /\ pc[c] = "undo" => req[c].val # None /\ ~req[c].existed
    /\ req[c].ttl > 0 => req[c].exp # 0 /\ req[c].exp <= now + req[c].ttl
    /\ solo[c] => \A d \in Clients : d # c => req[d].key # req[c].key

(* What the engine will show next is in the log already.                   *)
ApplyIsLogged == \A c \in Clients :
    pc[c] = "apply" => InLog(req[c].key, req[c].val)

(* A request that nothing overlapped wrote the last record of its key, and *)
(* a key it found absent is still absent until it writes the key itself.   *)
SoloInv == \A c \in Clients : solo[c] =>
    /\ pc[c] = "apply" => \E i \in DOMAIN wal :
                             IsLast(i, req[c].key) /\ wal[i] = Logged(req[c])
    /\ req[c].val # None /\ ~req[c].existed => items[req[c].key] = Absent

(* The log ends, for a key about which there is a promise, with it.        *)
PromiseInv == \A k \in Keys : expect[k] # Unknown =>
    /\ InFlight(k) = {}
    /\ \/ (\A i \in DOMAIN wal : wal[i].key # k) /\ expect[k] = Absent
       \/ \E i \in DOMAIN wal : IsLast(i, k) /\ wal[i].ent = expect[k]

(* While the shard serves, so does the engine.                             *)
EngineInv == status = "up" =>
    \A k \in Keys : expect[k] # Unknown /\ ~Lapsed(expect[k])
                        => Covers(items[k], expect[k])

(* In the middle of a replay the engine shows, for every key, the last of  *)
(* its records that have been replayed, unless that one has lapsed.        *)
ReplayInv == status = "replay" =>
    /\ pos <= Len(wal)
    /\ \A i \in 1 .. pos :
         (\A j \in 1 .. pos : wal[j].key = wal[i].key => j <= i) /\ ~Lapsed(wal[i].ent)
             => Covers(items[wal[i].key], wal[i].ent)

(* Together: the log always suffices to restore what was promised, at any  *)
(* point of any request, snapshot or start-up.                             *)
Recoverable ==
    /\ RequestInv /\ ApplyIsLogged /\ SoloInv /\ PromiseInv
    /\ EngineInv /\ ReplayInv

=============================================================================
