------------------------------ MODULE Envelope ------------------------------
(***************************************************************************)
(* The envelope files of a data directory and the offline tool that        *)
(* re-wraps them.  Each file holds a data key (DEK) wrapped with a key     *)
(* encryption key (KEK), and the fingerprint of that KEK.                  *)
(*                                                                         *)
(* A DEK is a number drawn afresh; a wrapped DEK is the pair of KEK and    *)
(* DEK, so that only the KEK it names opens it.  A file is replaced by     *)
(* writing a temporary one and renaming it: whatever a crash does, the old *)
(* or the new one is there.                                                *)
(***************************************************************************)
EXTENDS Integers, FiniteSets

CONSTANTS
    Files,        \* shard-N.env of every shard, and audit.env
    Keks,
    Mine,         \* the file of the shard in question
    Missing,      \* no such file
    DiskFaults    \* writes may fail: "error", reported; "lost", see RewrapLost

VARIABLES
    env,          \* the envelope files
    drawn,        \* number of DEKs drawn so far
    tool          \* kek rewrap: the envelopes it has still to write, and its result

envelopeVars == <<env, drawn, tool>>

EnvelopeFile == [kek : Keks, dek : Nat \ {0}]

Idle == [pc |-> "off", todo |-> {}, keys |-> <<>>, lost |-> FALSE, says |-> "nothing"]

\* The tool has returned without error from a run with these keys.
Done(keys, lost) == [pc |-> "off", todo |-> {}, keys |-> keys, lost |-> lost, says |-> "done"]

Tool == [pc : {"off", "write"}, todo : SUBSET Files, keys : {<<>>} \cup (Keks \X Keks),
         lost : BOOLEAN, says : {"nothing", "done"}]

EnvelopeTypeOK ==
    /\ env \in [Files -> EnvelopeFile \cup {Missing}]
    /\ drawn \in Nat
    /\ tool \in Tool

EnvelopeInit ==
    /\ env = [f \in Files |-> Missing]
    /\ drawn = 0
    /\ tool = Idle

-----------------------------------------------------------------------------
(* What a shard does with its envelope                                     *)

\* Load compares the fingerprint, and only then unwraps.
Loads(f, kek) == env[f] # Missing /\ env[f].kek = kek

\* GenerateDEK and Store, when Load has found no file.
StoreFresh(f, kek) ==
    /\ env[f] = Missing
    /\ drawn' = drawn + 1
    /\ env' = [env EXCEPT ![f] = [kek |-> kek, dek |-> drawn + 1]]

-----------------------------------------------------------------------------
(* RewrapEnvelopes                                                         *)

\* Files are worked through in a fixed order: this shard's first.
First(f, files) == f \in files /\ (f = Mine \/ Mine \notin files)

Present == {f \in Files : env[f] # Missing}
Wrapped(kek) == {f \in Present : env[f].kek = kek}

\* Every envelope is read and classified before any is written.  If none has
\* the old KEK the tool is done, or refuses; an envelope with a third KEK
\* makes it refuse.  After an error nothing is known of the outcome.
RewrapStart(old, new) ==
    /\ tool.pc = "off" /\ old # new
    /\ tool' = IF Wrapped(old) = {}
               THEN IF Wrapped(new) # {} THEN Done(<<old, new>>, FALSE) ELSE Idle
               ELSE IF Present # Wrapped(old) \cup Wrapped(new)
               THEN Idle
               ELSE [pc |-> "write", todo |-> Wrapped(old), keys |-> <<old, new>>,
                     lost |-> FALSE, says |-> "nothing"]
    /\ UNCHANGED <<env, drawn>>

\* Plausible slip: one Envelope value is reused and keeps the DEK of another file.
RewrapWrite_StaleDek(f) ==
    /\ tool.pc = "write" /\ First(f, tool.todo)
    /\ env' = [env EXCEPT ![f] = [kek |-> tool.keys[2], dek |-> env[CHOOSE g \in Present : TRUE].dek]]
    /\ tool' = [tool EXCEPT !.todo = @ \ {f}]
    /\ UNCHANGED drawn

\* The DEK was unwrapped and wrapped again before the first write.
RewrapWrite(f) ==
    /\ tool.pc = "write" /\ First(f, tool.todo)
    /\ env' = [env EXCEPT ![f] = [@ EXCEPT !.kek = tool.keys[2]]]
    /\ tool' = [tool EXCEPT !.todo = @ \ {f}]
    /\ UNCHANGED drawn

\* atomicWrite, when writing, syncing, closing or renaming the temporary file
\* fails, returns the result of removing it: the file is counted as rewrapped.
RewrapLost(f) ==
    /\ "lost" \in DiskFaults
    /\ tool.pc = "write" /\ First(f, tool.todo)
    /\ tool' = [tool EXCEPT !.todo = @ \ {f}, !.lost = TRUE]
    /\ UNCHANGED <<env, drawn>>

\* An error of the backup, of opening the temporary file or of removing it ends
\* the tool.  One of syncing the directory is RewrapWrite and then RewrapCrash.
RewrapFails(f) ==
    /\ "error" \in DiskFaults
    /\ tool.pc = "write" /\ First(f, tool.todo)
    /\ tool' = Idle
    /\ UNCHANGED <<env, drawn>>

\* Plausible slip: the tool ends after the first file.
RewrapEnd_Early ==
    /\ tool.pc = "write"
    /\ tool' = Done(tool.keys, tool.lost)
    /\ UNCHANGED <<env, drawn>>

RewrapEnd ==
    /\ tool.pc = "write" /\ tool.todo = {}
    /\ tool' = Done(tool.keys, tool.lost)
    /\ UNCHANGED <<env, drawn>>

RewrapCrash ==
    /\ tool.pc = "write"
    /\ tool' = Idle
    /\ UNCHANGED <<env, drawn>>

Rewrap ==
    \/ \E old, new \in Keks : RewrapStart(old, new)
    \/ \E f \in Files : RewrapWrite(f) \/ RewrapLost(f) \/ RewrapFails(f)
    \/ RewrapEnd \/ RewrapCrash

-----------------------------------------------------------------------------
(* Properties                                                              *)

\* Once a DEK is in an envelope, that envelope yields it for ever: neither an
\* interrupted rewrap nor its repetition, nor a start with a wrong KEK, loses
\* the key of data that is on disk.
DekKept ==
    [][\A f \in Present : env'[f] # Missing /\ env'[f].dek = env[f].dek]_env

\* When the tool says it is done, no envelope is left under the old KEK, however
\* many interrupted runs came before; unless the disk failed in the way of
\* RewrapLost.
DoneMeansRewrapped ==
    tool.says = "done" /\ ~tool.lost => Wrapped(tool.keys[1]) = {} /\ Wrapped(tool.keys[2]) # {}
=============================================================================
