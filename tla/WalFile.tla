------------------------------ MODULE WalFile ------------------------------
(***************************************************************************)
(* The plaintext write-ahead log of internal/persistence as a file.        *)
(*                                                                         *)
(* appendRecord makes three writes and a Sync; a crash may fall between or *)
(* inside them, and each may fail.  There is no checksum and no mark       *)
(* between records: replay finds the next record by the lengths in the     *)
(* header of this one.                                                     *)
(*                                                                         *)
(* The file is a sequence of cells, a cell standing for some bytes of a    *)
(* record: which record, and which cell of it.  Module Shard takes the log *)
(* to be a sequence of whole records; RecordLog says what that takes, and  *)
(* the refinement below shows when this file provides it.                  *)
(***************************************************************************)
EXTENDS Naturals, Sequences

CONSTANTS
    Keys, Vals,
    KeyLen, ValLen,  \* KeyLen[k], ValLen[v]: the cells of a key and of a value
    HeaderLen,       \* the cells of a header (16 bytes)
    MagicLen,        \* the cells OpenShard reads to recognise an encrypted file
    DirtyFaults,     \* whether an I/O error may leave part of a record behind
    MaxCells,        \* bound: no append starts on a file of this many cells
    MaxCrashes,      \* bound on the number of crashes
    None,            \* no value (a tombstone), and no append under way
    Garbage          \* a record decoded from bytes that never were one

Record == [key : Keys, val : Vals \cup {None}]

ASSUME WalFileAssumption ==
    /\ None \notin Vals \cup Record /\ Garbage \notin Record
    /\ KeyLen \in [Keys -> Nat] /\ ValLen \in [Vals -> Nat]
    /\ MagicLen \in Nat /\ HeaderLen \in Nat /\ 0 < MagicLen /\ MagicLen < HeaderLen
    /\ DirtyFaults \in BOOLEAN
    /\ MaxCells \in Nat /\ MaxCrashes \in Nat

VARIABLES
    file,      \* the cells of shard_NNN.db
    synced,    \* how many of them a Sync has made durable
    status,    \* "down", "replay", "up" or "failed"
    cur,       \* the record being appended, under the shard's mutex
    stage,     \* what appendRecord does next: header, key, value, sync; or idle
    pos,       \* replay: the cells read
    crashes,   \* the number of crashes so far
    given,     \* the records the engine has been given since start-up
    acked      \* history: the records whose append returned no error

vars == <<file, synced, status, cur, stage, pos, crashes, given, acked>>

(* The layout of a record: header, key, value.  A tombstone has no value.  *)
ValCells(v) == IF v = None THEN 0 ELSE ValLen[v]

Cells(r) ==
    [i \in 1 .. HeaderLen + KeyLen[r.key] + ValCells(r.val) |-> [rec |-> r, at |-> i]]

Header(r) == SubSeq(Cells(r), 1, HeaderLen)

KeyPart(r) == SubSeq(Cells(r), HeaderLen + 1, HeaderLen + KeyLen[r.key])

ValPart(r) == SubSeq(Cells(r), HeaderLen + KeyLen[r.key] + 1, Len(Cells(r)))

----------------------------------------------------------------------------
(* appendRecord.  The mutex is held from the first write to the return, so *)
(* appends do not overlap.                                                 *)
Lock(r) ==
    /\ status = "up" /\ stage = "idle" /\ Len(file) < MaxCells
    /\ cur' = r /\ stage' = "header"
    /\ UNCHANGED <<file, synced, status, pos, crashes, given, acked>>

WriteHeader ==
    /\ stage = "header"
    /\ file' = file \o Header(cur)
    /\ stage' = "key"
    /\ UNCHANGED <<synced, status, cur, pos, crashes, given, acked>>

WriteKey ==
    /\ stage = "key"
    /\ file' = file \o KeyPart(cur)
    /\ stage' = "value"
    /\ UNCHANGED <<synced, status, cur, pos, crashes, given, acked>>

WriteValue ==
    /\ stage = "value"
    /\ file' = file \o ValPart(cur)
    /\ stage' = "sync"
    /\ UNCHANGED <<synced, status, cur, pos, crashes, given, acked>>

(* Mutant of Sync: the append returns without a Sync.                      *)
Sync_Skipped ==
    /\ stage = "sync"
    /\ acked' = Append(acked, cur) /\ given' = Append(given, cur)
    /\ cur' = None /\ stage' = "idle"
    /\ UNCHANGED <<file, synced, status, pos, crashes>>

(* The append returns nil, and the caller goes on to change the engine.    *)
Sync ==
    /\ stage = "sync"
    /\ synced' = Len(file)
    /\ acked' = Append(acked, cur) /\ given' = Append(given, cur)
    /\ cur' = None /\ stage' = "idle"
    /\ UNCHANGED <<file, status, pos, crashes>>

(* A write fails, having written some of its cells; the append returns the *)
(* error and leaves in the file what it has written.  Without DirtyFaults  *)
(* only the first write fails, and writes nothing.                         *)
WriteFails ==
    /\ stage \in {"header", "key", "value"}
    /\ LET part == CASE stage = "header" -> Header(cur)
                     [] stage = "key" -> KeyPart(cur)
                     [] stage = "value" -> ValPart(cur)
       IN  \E n \in 0 .. Len(part) - 1 :
              /\ DirtyFaults \/ (stage = "header" /\ n = 0)
              /\ file' = file \o SubSeq(part, 1, n)
    /\ cur' = None /\ stage' = "idle"
    /\ UNCHANGED <<synced, status, pos, crashes, given, acked>>

(* Sync fails: the record is in the file, but its append is an error.      *)
SyncFails ==
    /\ stage = "sync"
    /\ cur' = None /\ stage' = "idle"
    /\ UNCHANGED <<file, synced, status, pos, crashes, given, acked>>

----------------------------------------------------------------------------
(* OpenShard: a file that is not empty must hold at least the cells that   *)
(* tell an encrypted log from a plaintext one.                             *)
OpenShard ==
    /\ status = "down"
    /\ status' = IF file # <<>> /\ Len(file) < MagicLen THEN "failed" ELSE "replay"
    /\ pos' = 0 /\ given' = <<>>
    /\ UNCHANGED <<file, synced, cur, stage, crashes, acked>>

(* The lengths that replay takes from the header at pos: those of the      *)
(* record, if the cells are the header of one, and otherwise any.          *)
Lengths ==
    LET header == SubSeq(file, pos + 1, pos + HeaderLen)
        whose == {r \in Record : Header(r) = header}
    IN  IF whose # {} THEN {KeyLen[r.key] + ValCells(r.val) : r \in whose}
        ELSE 0 .. MaxCells

(* What those cells decode to.                                             *)
Decode(cells) ==
    IF \E r \in Record : Cells(r) = cells
    THEN CHOOSE r \in Record : Cells(r) = cells ELSE Garbage

(* One turn of the loop of replayWALPlaintext that applies a record; a     *)
(* record that was cut short is not applied.                               *)
ReplayRecord ==
    /\ status = "replay" /\ pos + HeaderLen <= Len(file)
    /\ \E n \in Lengths :
         LET end == pos + HeaderLen + n IN
         /\ end <= Len(file)
         /\ given' = Append(given, Decode(SubSeq(file, pos + 1, end)))
         /\ pos' = end
    /\ UNCHANGED <<file, synced, status, cur, stage, crashes, acked>>

(* Mutants of ReplayEnd: the tail is not cut off; all of the file is.      *)
ReplayEnd_KeepTail ==
    /\ status = "replay"
    /\ \/ pos + HeaderLen > Len(file)
       \/ /\ pos + HeaderLen <= Len(file)
          /\ \E n \in Lengths : pos + HeaderLen + n > Len(file)
    /\ status' = "up"
    /\ UNCHANGED <<file, synced, cur, stage, pos, crashes, given, acked>>

ReplayEnd_ToZero ==
    /\ status = "replay"
    /\ \/ pos + HeaderLen > Len(file)
       \/ /\ pos + HeaderLen <= Len(file)
          /\ \E n \in Lengths : pos + HeaderLen + n > Len(file)
    /\ file' = IF pos < Len(file) THEN <<>> ELSE file
    /\ synced' = IF Len(file') < synced THEN Len(file') ELSE synced
    /\ status' = "up"
    /\ UNCHANGED <<cur, stage, pos, crashes, given, acked>>

(* The turn that leaves the loop, and finishReplay, which cuts off what    *)
(* follows the last record it read.  Its failure is only logged.           *)
ReplayEnd ==
    /\ status = "replay"
    /\ \/ pos + HeaderLen > Len(file)
       \/ /\ pos + HeaderLen <= Len(file)
          /\ \E n \in Lengths : pos + HeaderLen + n > Len(file)
    /\ file' \in {SubSeq(file, 1, pos)} \cup (IF DirtyFaults THEN {file} ELSE {})
    /\ synced' = IF Len(file') < synced THEN Len(file') ELSE synced
    /\ status' = "up"
    /\ UNCHANGED <<cur, stage, pos, crashes, given, acked>>

(* A crash keeps the synced cells and any number of the ones after them.   *)
Crash ==
    /\ status \in {"up", "replay"} /\ crashes < MaxCrashes
    /\ crashes' = crashes + 1
    /\ \E n \in synced .. Len(file) : file' = SubSeq(file, 1, n)
    /\ status' = "down" /\ cur' = None /\ stage' = "idle"
    /\ pos' = 0 /\ given' = <<>>
    /\ UNCHANGED <<synced, acked>>

----------------------------------------------------------------------------
Init ==
    /\ file = <<>> /\ synced = 0
    /\ status = "down" /\ cur = None /\ stage = "idle"
    /\ pos = 0 /\ crashes = 0
    /\ given = <<>> /\ acked = <<>>

Next ==
    \/ \E r \in Record : Lock(r)
    \/ WriteHeader \/ WriteKey \/ WriteValue \/ Sync
    \/ WriteFails \/ SyncFails
    \/ OpenShard \/ ReplayRecord \/ ReplayEnd
    \/ Crash

Spec == Init /\ [][Next]_vars

----------------------------------------------------------------------------
(* s can be obtained from t by leaving elements out.                       *)
Embeds(s, t) ==
    \E f \in [DOMAIN s -> DOMAIN t] :
        /\ \A i, j \in DOMAIN s : i < j => f[i] < f[j]
        /\ \A i \in DOMAIN s : t[f[i]] = s[i]

(* Acknowledged records are replayed.  Once the shard serves, the engine   *)
(* has been given every record whose append was ever acknowledged, in the  *)
(* order of the appends: whatever was cut short by crashes in the middle   *)
(* of an append, of a replay, or of the first append after a replay.       *)
AckedRecovered == status = "up" => Embeds(acked, given)

(* Replay invents nothing: without checksums, it never takes the rest of a *)
(* record that was cut short for a record.                                 *)
NothingInvented == \A i \in DOMAIN given : given[i] # Garbage

(* OpenShard refuses a file only if no append to it was ever acknowledged. *)
RefusalLosesNothing == status = "failed" => acked = <<>>

(* The records that cells hold from p on, and one of them.                 *)
Whole(cells, p) ==
    {r \in Record : /\ p + Len(Cells(r)) <= Len(cells)
                    /\ SubSeq(cells, p + 1, p + Len(Cells(r))) = Cells(r)}

First(cells, p) == CHOOSE r \in Whole(cells, p) : TRUE

(* The whole records of a file, from its start.                            *)
Records(cells) ==
    LET from[p \in 0 .. Len(cells)] ==
          IF Whole(cells, p) = {} THEN <<>>
          ELSE <<First(cells, p)>> \o from[p + Len(Cells(First(cells, p)))]
    IN  from[0]

Durable == Records(SubSeq(file, 1, synced))

(* The file implements a log of whole records.                             *)
Log == INSTANCE RecordLog WITH
           durable <- Durable,
           tail <- SubSeq(Records(file), Len(Durable) + 1, Len(Records(file)))

IsRecordLog == Log!Spec
=============================================================================
