------------------------------ MODULE AuditLog ------------------------------
(***************************************************************************)
(* The audit log and the ACL LOG buffer over several runs of the server.   *)
(* A rejected AUTH or a denied command is put into the buffer under one    *)
(* mutex and then recorded in the audit file under another, so two event   *)
(* loops may enter the two in different orders.  Recording is a write of   *)
(* the length, a write of the record and, at the limit, a rotation; any of *)
(* them may fail, and the process may be killed within each.  A restart    *)
(* may come with another key, and seeds the buffer from the files.         *)
(***************************************************************************)
EXTENDS AuditFile

CONSTANTS
    Loops,        \* event loops
    Configs,      \* [mode : {"plain", "key", "envelope"}, key : Keys]
    Flags,        \* values of --audit-events
    Events,       \* events that happen
    MaxSize,      \* rotateAfterBytes, in cells
    MaxEvents,    \* bound: events in all
    MaxStarts,    \* bound: runs of the server
    MaxFaults     \* bound: failed writes, opens and closes

VARIABLES
    files,      \* the audit files, in the order of their names
    env,        \* audit.env: [kek, dek], or None
    proc,       \* the server: what NewLogEngine built, and where start-up is
    buffer,     \* Store.log, logHead, logLen
    todo,       \* per event loop: the record it has still to hand to Record, or None
    writer,     \* the Record call that holds the mutex
    faults,     \* failures so far
    count,      \* events so far
    trail,      \* history: per run its files, what Record took on, and how it ended
    written,    \* history: all records completely written, with their key
    recent      \* history: what the ACL LOG should be showing

vars == <<files, env, proc, buffer, todo, writer, faults, count, trail, written, recent>>

Down == [pc |-> "down", mode |-> "plain", key |-> None, engine |-> None, filter |-> {},
         cur |-> 0, bytes |-> 0, firstErr |-> FALSE]
Free == [pc |-> "free", loop |-> None, rec |-> None]
NoLog == [log |-> [i \in 0..(LogCap - 1) |-> None], head |-> 0, len |-> 0]

Init ==
    /\ files = <<>> /\ env = None /\ proc = Down /\ buffer = NoLog
    /\ todo = [l \in Loops |-> None] /\ writer = Free /\ faults = 0 /\ count = 0
    /\ trail = <<>> /\ written = <<>> /\ recent = <<>>

Newest(s, n) == SubSeq(s, IF Len(s) > n THEN Len(s) - n + 1 ELSE 1, Len(s))

\* Data arrive at the end of a file.
Put(f, cells) == files' = [files EXCEPT ![f] = @ \o cells]

\* What a write may leave when it fails or is cut off: nothing, a fragment of a
\* cell, or whole cells.
Parts(cells) == {<<>>, <<Fragment>>} \cup {SubSeq(cells, 1, n) : n \in 1..(Len(cells) - 1)}

Fault == faults < MaxFaults /\ faults' = faults + 1

-----------------------------------------------------------------------------
(* The ACL LOG buffer                                                      *)

AppendLocked(b, entry) ==
    [log  |-> [b.log EXCEPT ![b.head] = entry],
     head |-> (b.head + 1) % LogCap,
     len  |-> IF b.len < LogCap THEN b.len + 1 ELSE b.len]

AuthLog ==
    LET start == IF buffer.head < buffer.len THEN buffer.head - buffer.len + LogCap
                 ELSE buffer.head - buffer.len
    IN  [i \in 1..buffer.len |-> buffer.log[(start + i - 1) % LogCap]]

SeedAuthLog(entries) == FoldLeft(AppendLocked, NoLog, entries)

-----------------------------------------------------------------------------
(* Start-up                                                                *)

keyMode == IF proc.engine # None THEN "envelope" ELSE "simple"

StartServer(cfg, flag) ==
    /\ proc.pc = "down" /\ Len(trail) < MaxStarts
    /\ proc' = [Down EXCEPT !.pc = IF cfg.mode = "envelope" THEN "env" ELSE "open",
                            !.mode = cfg.mode, !.key = cfg.key,
                            !.engine = IF cfg.mode = "key" THEN cfg.key ELSE None,
                            !.filter = ParseEventTypes(flag)]
    /\ trail' = Append(trail, [mode |-> cfg.mode, key |-> cfg.key, files |-> <<>>,
                               taken |-> <<>>, end |-> "running"])
    /\ UNCHANGED <<files, env, buffer, todo, writer, faults, written, recent, count>>

Runs == Len(trail)

\* The run has ended in this way; its memory is gone.
Ends(how) ==
    /\ proc' = Down /\ buffer' = NoLog /\ writer' = Free
    /\ todo' = [l \in Loops |-> None] /\ recent' = <<>>
    /\ trail' = [trail EXCEPT ![Runs].end = how]

\* The DEK of an earlier run, or a new one where there is no envelope.  The
\* envelope of another KEK stops the start.
LoadEnvelope ==
    /\ proc.pc = "env"
    /\ \/ /\ env = None
          /\ env' = [kek |-> proc.key, dek |-> "dek"]
          /\ proc' = [proc EXCEPT !.pc = "open", !.engine = "dek"]
          /\ UNCHANGED <<buffer, todo, writer, trail, recent>>
       \/ /\ env # None /\ env.kek = proc.key
          /\ proc' = [proc EXCEPT !.pc = "open", !.engine = env.dek]
          /\ UNCHANGED <<env, buffer, todo, writer, trail, recent>>
       \/ /\ env # None /\ env.kek # proc.key
          /\ Ends("failed") /\ UNCHANGED env
    /\ UNCHANGED <<files, faults, written, count>>

\* open: the file under a new name, which is the last one.
CreateFile ==
    /\ files' = Append(files, <<>>)
    /\ trail' = [trail EXCEPT ![Runs].files = Append(@, Len(files) + 1)]

\* open: a header that cannot be written costs the file.
RemoveFile ==
    /\ files' = Front(files)
    /\ trail' = [trail EXCEPT ![Runs].files = Front(@)]

NewFile ==
    /\ proc.pc = "open"
    /\ CreateFile
    /\ proc' = [proc EXCEPT !.pc = "header"]
    /\ UNCHANGED <<env, buffer, todo, writer, faults, written, recent, count>>

NewFileHeader ==
    /\ proc.pc = "header"
    /\ Put(Len(files), Header(keyMode, proc.engine))
    /\ proc' = [proc EXCEPT !.pc = "seed", !.cur = Len(files)]
    /\ UNCHANGED <<env, buffer, todo, writer, faults, trail, written, recent, count>>

\* newFile fails and with it the start.
NewFileFails ==
    /\ proc.pc = "header" /\ Fault
    /\ files' = Front(files)
    /\ proc' = Down
    /\ trail' = [trail EXCEPT ![Runs].files = Front(@), ![Runs].end = "failed"]
    /\ UNCHANGED <<env, buffer, todo, writer, written, recent, count>>

Opens(w) == w.key = None \/ w.key = proc.engine

\* Before the listeners start.
SeedAuditReplay ==
    /\ proc.pc = "seed"
    /\ buffer' = SeedAuthLog(ReplayAuthLog(files, proc.engine, LogCap))
    /\ proc' = [proc EXCEPT !.pc = "serving"]
    /\ LET readable == SelectSeq(written, LAMBDA w : Opens(w) /\ Security(w.rec))
       IN  recent' = Newest([i \in DOMAIN readable |-> readable[i].rec], LogCap)
    /\ UNCHANGED <<files, env, todo, writer, faults, trail, written, count>>

-----------------------------------------------------------------------------
(* Events                                                                  *)

\* A rejected AUTH and a denied command enter the buffer; other events do not.
\* The audit record is still to come, and the loop waits for it: Record returns
\* before the next event.
Event(l, event) ==
    LET rec == [event |-> event, id |-> count + 1]
    IN  /\ proc.pc = "serving" /\ todo[l] = None /\ writer.loop # l
        /\ count < MaxEvents /\ count' = rec.id
        /\ todo' = [todo EXCEPT ![l] = rec]
        /\ IF Security(rec)
           THEN buffer' = AppendLocked(buffer, rec) /\ recent' = Newest(Append(recent, rec), LogCap)
           ELSE UNCHANGED <<buffer, recent>>
        /\ UNCHANGED <<files, env, proc, writer, faults, trail, written>>

\* Record takes the mutex; events outside the filter have returned before.
Takes(l) ==
    /\ writer.pc = "free" /\ todo[l] # None /\ proc.pc = "serving"
    /\ todo' = [todo EXCEPT ![l] = None]
    /\ IF todo[l].event \in proc.filter
       THEN trail' = [trail EXCEPT ![Runs].taken = Append(@, todo[l])]
       ELSE UNCHANGED trail

\* Plausible slip: a sink that has failed is tried again.
Record_Retries(l) ==
    /\ Takes(l)
    /\ writer' = IF todo[l].event \notin proc.filter THEN Free
                 ELSE [pc |-> IF proc.engine # None THEN "prefix" ELSE "blob", loop |-> l, rec |-> todo[l]]
    /\ UNCHANGED <<files, env, proc, buffer, faults, written, recent, count>>

\* After the first error every record is dropped.
Record(l) ==
    /\ Takes(l)
    /\ writer' = IF todo[l].event \notin proc.filter \/ proc.firstErr THEN Free
                 ELSE [pc |-> IF proc.engine # None THEN "prefix" ELSE "blob", loop |-> l, rec |-> todo[l]]
    /\ UNCHANGED <<files, env, proc, buffer, faults, written, recent, count>>

CurBlob == Blob(writer.rec, proc.engine)
Pending == CASE writer.pc = "prefix" -> Prefix(CurBlob)
             [] writer.pc = "blob"   -> CurBlob
             [] OTHER -> <<>>

WritePrefix ==
    /\ writer.pc = "prefix"
    /\ Put(proc.cur, Pending)
    /\ proc' = [proc EXCEPT !.bytes = @ + 1]
    /\ writer' = [writer EXCEPT !.pc = "blob"]
    /\ UNCHANGED <<env, buffer, todo, faults, trail, written, recent, count>>

Complete == written' = Append(written, [rec |-> writer.rec, key |-> proc.engine])

WriteBlob ==
    LET bytes == proc.bytes + Len(CurBlob)
    IN  /\ writer.pc = "blob"
        /\ Put(proc.cur, Pending)
        /\ Complete
        /\ proc' = [proc EXCEPT !.bytes = bytes]
        /\ writer' = IF bytes >= MaxSize THEN [writer EXCEPT !.pc = "rotate"] ELSE Free
        /\ UNCHANGED <<env, buffer, todo, faults, trail, recent, count>>

\* Record keeps the first error of Encode.
FailRecord == proc' = [proc EXCEPT !.firstErr = TRUE] /\ writer' = Free

WriteFails ==
    /\ writer.pc \in {"prefix", "blob"} /\ Fault
    /\ \E part \in Parts(Pending) : Put(proc.cur, part)
    /\ FailRecord
    /\ UNCHANGED <<env, buffer, todo, trail, written, recent, count>>

-----------------------------------------------------------------------------
(* Rotation                                                                *)

RotateCreate ==
    /\ writer.pc = "rotate"
    /\ CreateFile
    /\ writer' = [writer EXCEPT !.pc = "header"]
    /\ UNCHANGED <<env, proc, buffer, todo, faults, written, recent, count>>

RotateCreateFails ==
    /\ writer.pc = "rotate" /\ Fault
    /\ FailRecord
    /\ UNCHANGED <<files, env, buffer, todo, trail, written, recent, count>>

RotateHeader ==
    /\ writer.pc = "header"
    /\ Put(Len(files), Header(keyMode, proc.engine))
    /\ writer' = [writer EXCEPT !.pc = "switch"]
    /\ UNCHANGED <<env, proc, buffer, todo, faults, trail, written, recent, count>>

RotateHeaderFails ==
    /\ writer.pc = "header" /\ Fault
    /\ RemoveFile
    /\ FailRecord
    /\ UNCHANGED <<env, buffer, todo, written, recent, count>>

RotateSwitch ==
    /\ writer.pc = "switch"
    /\ proc' = [proc EXCEPT !.cur = Len(files), !.bytes = 0]
    /\ writer' = Free
    /\ UNCHANGED <<files, env, buffer, todo, faults, trail, written, recent, count>>

\* The old file cannot be closed: the new one stays, unused.
RotateCloseFails ==
    /\ writer.pc = "switch" /\ Fault
    /\ FailRecord
    /\ UNCHANGED <<files, env, buffer, todo, trail, written, recent, count>>

-----------------------------------------------------------------------------
(* The end of a run                                                        *)

\* Shutdown stops the listeners and then closes the log; Close waits for the
\* mutex and reports the first error.
Close ==
    /\ proc.pc = "serving" /\ writer.pc = "free" /\ \A l \in Loops : todo[l] = None
    /\ Ends(IF proc.firstErr THEN "error" ELSE "closed")
    /\ UNCHANGED <<files, env, faults, written, count>>

\* The process is killed; a write may be cut off, or done.
Crash ==
    /\ proc.pc # "down"
    /\ LET header == Header(keyMode, proc.engine)
           inHeader == proc.pc = "header" \/ writer.pc = "header"
       IN  \/ /\ Pending # <<>>
              /\ \E part \in Parts(Pending) \cup {Pending} :
                    /\ Put(proc.cur, part)
                    /\ IF writer.pc = "blob" /\ part = Pending THEN Complete ELSE UNCHANGED written
           \/ /\ inHeader
              /\ \E part \in Parts(header) : Put(Len(files), part)
              /\ UNCHANGED written
           \/ Pending = <<>> /\ ~inHeader /\ UNCHANGED <<files, written>>
    /\ Ends("killed")
    /\ UNCHANGED <<env, faults, count>>

\* kek rewrap, with the server down: the same DEK under another KEK.
RewrapAuditEnv ==
    /\ proc.pc = "down" /\ env # None
    /\ \E cfg \in Configs : cfg.mode = "envelope" /\ env' = [env EXCEPT !.kek = cfg.key]
    /\ UNCHANGED <<files, proc, buffer, todo, writer, faults, trail, written, recent, count>>

Next ==
    \/ \E cfg \in Configs, flag \in Flags : StartServer(cfg, flag)
    \/ LoadEnvelope \/ NewFile \/ NewFileHeader \/ NewFileFails \/ SeedAuditReplay
    \/ \E l \in Loops : Record(l) \/ \E event \in Events : Event(l, event)
    \/ WritePrefix \/ WriteBlob \/ WriteFails
    \/ RotateCreate \/ RotateCreateFails \/ RotateHeader \/ RotateHeaderFails
    \/ RotateSwitch \/ RotateCloseFails
    \/ Close \/ Crash \/ RewrapAuditEnv

Spec == Init /\ [][Next]_vars

-----------------------------------------------------------------------------
(* Properties                                                              *)

\* ACL LOG shows the most recent security events: after a restart the newest
\* LogCap of all those completely written to files that the present key opens,
\* over all earlier runs and whatever cut them off, and from then on what comes
\* in.  (replayAuthLog, SeedAuthLog, appendLocked, AuthLog.)
AclLogRecent == proc.pc = "serving" => AuthLog = recent

\* The key with which the operator opens the files of a run today.
KeyOf(r) == IF trail[r].mode = "envelope" THEN env.kek ELSE trail[r].key

\* What "audit decrypt" makes of the files of a run, one after the other.
Decrypted(r) ==
    LET Read(f) == IF trail[r].mode = "plain" THEN DecryptFile(files[f], env, None)
                   ELSE RunAuditDecrypt({KeyOf(r)}, files[f], env)
    IN  FlattenSeq([i \in DOMAIN trail[r].files |-> Read(trail[r].files[i]).recs])

\* The trail of a run has no gaps: its files, decrypted with the present KEK,
\* hold the first of the events it was given, in the order Record took them; all
\* of them if Close reported no error, and all but the one in work while no
\* error has occurred.  (Record, file.Write, rotate, Close, DecryptFile.)
TrailHasNoGaps ==
    \A r \in DOMAIN trail :
        LET recs == Decrypted(r)
        IN  /\ IsPrefix(recs, trail[r].taken)
            /\ trail[r].end = "closed" => recs = trail[r].taken
            /\ r = Runs /\ proc.pc = "serving" /\ ~proc.firstErr =>
                  Len(recs) >= Len(trail[r].taken) - (IF writer.pc = "free" THEN 0 ELSE 1)
=============================================================================
