----------------------------- MODULE AuditFile -----------------------------
(***************************************************************************)
(* The format of an audit file and its two readers: replay, which restores *)
(* the ACL LOG, and "tellstone audit decrypt".                             *)
(*                                                                         *)
(* A file is a sequence of cells.  A header is the magic number and the    *)
(* rest; a record is two halves, the newline (or the authentication tag)   *)
(* belonging to the second; a sealed record has its length in front.  Any  *)
(* of these may be the last thing a killed process has written, so every   *)
(* cut of a file is a cut between cells, or leaves a fragment of one.  A   *)
(* fingerprint is the key itself, and None where there is no key.          *)
(***************************************************************************)
EXTENDS Integers, FiniteSets, SequencesExt

CONSTANTS
    None,
    LogCap      \* DefaultAuthLogCap

Cell(kind, rec, half, val) == [kind |-> kind, rec |-> rec, half |-> half, val |-> val]

Fragment == Cell("fragment", None, 0, None)
Magic == Cell("magic", None, 0, None)
Meta(keyMode, fingerprint) == Cell(keyMode, None, 0, fingerprint)
Header(keyMode, fingerprint) == <<Magic, Meta(keyMode, fingerprint)>>

\* The record as the encoder hands it over, or sealed with a key.
Blob(rec, key) == <<Cell("blob", rec, 1, key), Cell("blob", rec, 2, key)>>
Prefix(blob) == <<Cell("prefix", None, 0, Len(blob))>>

\* Any other four bytes, read as a length, exceed what the file holds.
BlobLen(cell, rest) == IF cell.kind = "prefix" THEN cell.val ELSE Len(rest) + 1

AllEvents == {"connect", "disconnect", "auth_success", "auth_failure", "acl_deny", "command"}
DefaultEventTypes == {"auth_success", "auth_failure", "acl_deny"}

\* The --audit-events flag, as its set of tokens; what is not recognised is ignored.
ParseEventTypes(tokens) ==
    LET Enables(t) == CASE t = "auth" -> {"auth_success", "auth_failure"}
                        [] t = "acl"  -> {"acl_deny"}
                        [] t = "all"  -> AllEvents
                        [] OTHER      -> {t} \cap AllEvents
    IN  IF tokens = {} THEN DefaultEventTypes ELSE UNION {Enables(t) : t \in tokens}

-----------------------------------------------------------------------------
(* Headers                                                                 *)

ParseHeader(data) ==
    IF data = <<>> \/ data[1] # Magic
    THEN [ok |-> FALSE, bad |-> FALSE, keyMode |-> None, fingerprint |-> None, rest |-> data]
    ELSE IF Len(data) < 2 \/ data[2].kind \notin {"simple", "envelope"}
    THEN [ok |-> FALSE, bad |-> TRUE, keyMode |-> None, fingerprint |-> None, rest |-> <<>>]
    ELSE [ok |-> TRUE, bad |-> FALSE, keyMode |-> data[2].kind,
          fingerprint |-> data[2].val, rest |-> SubSeq(data, 3, Len(data))]

-----------------------------------------------------------------------------
(* Replay                                                                  *)

Security(rec) == rec.event \in {"auth_failure", "acl_deny"}

\* Two cells are a record of this key, whole.
Whole(c1, c2, key) ==
    /\ c1.kind = "blob" /\ c2.kind = "blob" /\ c1.val = key
    /\ c1.half = 1 /\ c2.half = 2 /\ c1.rec = c2.rec

\* A line ends with the second half of a record: cells[i] closes a good one if
\* the half before it is alone in the line.
GoodLines(cells) ==
    LET EndsLine(i) == cells[i].kind = "blob" /\ cells[i].half = 2
        good == {i \in DOMAIN cells : /\ i > 1 /\ Whole(cells[i - 1], cells[i], None)
                                      /\ i > 2 => EndsLine(i - 2)}
    IN  [k \in 1..Cardinality(good) |->
            cells[CHOOSE i \in good : Cardinality({j \in good : j <= i}) = k].rec]

DecodePlaintext(cells) == SelectSeq(GoodLines(cells), Security)

\* Broken framing ends the walk; a record that does not open is skipped.
RECURSIVE DecodeEncrypted(_, _)
DecodeEncrypted(data, key) ==
    IF data = <<>> \/ data[1] = Fragment THEN <<>>
    ELSE LET rest == Tail(data)
             n    == BlobLen(data[1], rest)
         IN  IF n > Len(rest) THEN <<>>
             ELSE (IF Whole(rest[1], rest[2], key) /\ Security(rest[1].rec)
                   THEN <<rest[1].rec>> ELSE <<>>)
                  \o DecodeEncrypted(SubSeq(rest, n + 1, Len(rest)), key)

\* engine is the key of the running engine, or None.
ReadFile(data, engine) ==
    LET h == ParseHeader(data)
    IN  CASE h.bad -> <<>>
          [] ~h.ok -> IF engine # None THEN DecodeEncrypted(data, engine) ELSE DecodePlaintext(data)
          [] h.ok /\ h.keyMode = "simple" -> DecodePlaintext(h.rest)
          [] OTHER -> IF engine = None \/ engine # h.fingerprint THEN <<>>
                      ELSE DecodeEncrypted(h.rest, engine)

\* Plausible slip: only the order of the files is reversed again.
ReplayAuthLog_Unreversed(files, engine, max) ==
    LET all == FlattenSeq([i \in DOMAIN files |-> Reverse(ReadFile(files[i], engine))])
    IN  SubSeq(all, IF Len(all) > max THEN Len(all) - max + 1 ELSE 1, Len(all))

\* The newest file first, and the newest entry of it, until there are max; then
\* reversed.
ReplayAuthLog(files, engine, max) ==
    LET RECURSIVE Walk(_, _)
        Walk(i, out) ==
            IF i = 0 \/ Len(out) >= max THEN out
            ELSE LET newest == Reverse(ReadFile(files[i], engine))
                     room   == max - Len(out)
                 IN  Walk(i - 1, out \o SubSeq(newest, 1, IF Len(newest) < room THEN Len(newest) ELSE room))
    IN  Reverse(Walk(Len(files), <<>>))

-----------------------------------------------------------------------------
(* tellstone audit decrypt                                                 *)

Error == [ok |-> FALSE, recs |-> <<>>]
Recovered(recs) == [ok |-> TRUE, recs |-> recs]

\* The DEK of audit.env, if this KEK wrapped it and it sealed the file.
UnwrapDEK(env, fingerprint, kek) ==
    IF env.kek = kek /\ env.dek = fingerprint THEN {env.dek} ELSE {}

\* The keys (none or one) that open the file; None stands for plaintext.
ResolveEngine(h, env, key) ==
    CASE ~h.ok -> {key}
      [] h.ok /\ h.keyMode = "simple" -> IF key = h.fingerprint THEN {None} ELSE {}
      [] OTHER -> IF key = h.fingerprint THEN {key}
                  ELSE IF env = None THEN {}
                  ELSE UnwrapDEK(env, h.fingerprint, key)

\* A cut-off record at the end is left out; one that does not open is an error.
\* Plain text is returned as it is: its good lines, and what else there is.
RECURSIVE DecodeAllRecords(_, _)
DecodeAllRecords(data, key) ==
    IF key = None THEN Recovered(GoodLines(data))
    ELSE IF data = <<>> \/ data[1] = Fragment THEN Recovered(<<>>)
    ELSE LET rest == Tail(data)
             n    == BlobLen(data[1], rest)
         IN  IF n > Len(rest) THEN Recovered(<<>>)
             ELSE IF ~Whole(rest[1], rest[2], key) THEN Error
             ELSE LET more == DecodeAllRecords(SubSeq(rest, n + 1, Len(rest)), key)
                  IN  IF more.ok THEN Recovered(<<rest[1].rec>> \o more.recs) ELSE Error

DecryptFile(data, env, key) ==
    LET h    == ParseHeader(data)
        keys == ResolveEngine(h, env, key)
    IN  IF data = <<>> \/ h.bad \/ keys = {} THEN Error
        ELSE DecodeAllRecords(h.rest, CHOOSE k \in keys : TRUE)

\* The command takes its key from the flag or from a file, and wants exactly one.
RunAuditDecrypt(sources, data, env) ==
    IF Cardinality(sources) # 1 THEN Error
    ELSE DecryptFile(data, env, CHOOSE k \in sources : TRUE)
=============================================================================
