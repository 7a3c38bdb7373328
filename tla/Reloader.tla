------------------------------ MODULE Reloader ------------------------------
(***************************************************************************)
(* The TLS configuration: three files, replaced by somebody else while the *)
(* server reads them, the watcher that reports changes, and the reloader   *)
(* that publishes what it has read in the ConfigStore.                     *)
(*                                                                         *)
(* A certificate and a key are known by the version they belong to; 0 is a *)
(* file that is being written.  The file of client CAs is the set of the   *)
(* certificates that parse from it.  Reading is three steps, since the     *)
(* files are read one after the other.                                     *)
(***************************************************************************)
EXTENDS Integers, FiniteSets, TlsConfig

CONSTANTS
    CAs,            \* the client CAs a CA file may name
    Versions        \* versions of certificate and key

VARIABLES
    disk,           \* the files: [cert, key, ca]; ca = None: no CA file is configured
    event, overflow,\* the watcher: an event is waiting, an error is waiting
    timer,          \* the debounce timer is armed
    loader,         \* the reloader's goroutine: where it is, and what it has read
    finger,         \* Reloader.fingerprint
    store           \* ConfigStore.current: a Config, or None before NewReloader

reloaderVars == <<disk, event, overflow, timer, loader, finger, store>>

At(where, cert, key) == [at |-> where, cert |-> cert, key |-> key]
Idle == At("select", None, None)
Starting == store = None
Watching == loader.at # "new"

ReloaderInit(files) ==
    /\ disk = files
    /\ event = FALSE /\ overflow = FALSE /\ timer = FALSE
    /\ loader = At("new", None, None)
    /\ finger = None /\ store = None

----------------------------------------------------------------------------
(* The files and the watcher                                               *)

\* A change is reported to a watcher, or its queue overflows.
Notify ==
    IF ~Watching THEN UNCHANGED <<event, overflow>>
    ELSE \/ event' = TRUE /\ UNCHANGED overflow
         \/ overflow' = TRUE /\ UNCHANGED event

Replace(files) ==
    /\ disk' = files
    /\ Notify
    /\ UNCHANGED <<timer, loader, finger, store>>

\* A file is written in place, or moved there complete.
WriteCert(v) == disk.cert # v /\ Replace([disk EXCEPT !.cert = v])
WriteKey(v) == disk.key # v /\ Replace([disk EXCEPT !.key = v])
WriteCA(cas) == disk.ca # None /\ disk.ca # cas /\ Replace([disk EXCEPT !.ca = cas])

\* A Secret is projected: the link to the directory of all files is replaced.
SwapData(v, cas) ==
    /\ disk.cert # v
    /\ Replace([cert |-> v, key |-> v, ca |-> IF disk.ca = None THEN None ELSE cas])

----------------------------------------------------------------------------
(* loadConfig                                                              *)

KeyPairMatches(cert, key) == cert # 0 /\ cert = key
CAParses(ca) == ca = None \/ ca # {}

\* NewReloader installs the watches before it reads.
InstallWatches ==
    /\ loader.at = "new"
    /\ loader' = At("cert", None, None)
    /\ UNCHANGED <<disk, event, overflow, timer, finger, store>>

ReadCert ==
    /\ loader.at = "cert"
    /\ loader' = At("key", disk.cert, None)
    /\ UNCHANGED <<disk, event, overflow, timer, finger, store>>

\* An error leaves the Config that is in use; NewReloader returns it.
LoadFails ==
    /\ loader' = IF Starting THEN At("failed", None, None) ELSE Idle
    /\ UNCHANGED <<disk, event, overflow, timer, finger, store>>

ReadKey ==
    /\ loader.at = "key"
    /\ IF KeyPairMatches(loader.cert, disk.key)
       THEN /\ loader' = At("ca", loader.cert, disk.key)
            /\ UNCHANGED <<disk, event, overflow, timer, finger, store>>
       ELSE LoadFails

\* A Config is an object of its own, with its own ticket keys.
NextId == IF Starting THEN 1 ELSE store.id + 1

\* The end of loadConfig, and what NewReloader or reload does with it.
ReadCA ==
    LET print == [cert |-> loader.cert, key |-> loader.key, ca |-> disk.ca]
    IN /\ loader.at = "ca"
       /\ IF ~CAParses(disk.ca) THEN LoadFails
          ELSE /\ loader' = Idle
               /\ IF ~Starting /\ print = finger THEN UNCHANGED <<finger, store>>
                  ELSE /\ finger' = print
                       /\ store' = Config(NextId, loader.cert, disk.ca)
               /\ UNCHANGED <<disk, event, overflow, timer>>

----------------------------------------------------------------------------
(* Run                                                                     *)

\* schedule: the timer starts, or starts again.
OnEvent ==
    /\ loader = Idle /\ event
    /\ event' = FALSE /\ timer' = TRUE
    /\ UNCHANGED <<disk, overflow, loader, finger, store>>

\* Mutant: an error of the watcher is only logged.
OnWatchErrorIgnored ==
    /\ loader = Idle /\ overflow
    /\ overflow' = FALSE
    /\ UNCHANGED <<disk, event, timer, loader, finger, store>>

\* Events may have been lost: what they would have reported is read.
OnWatchError ==
    /\ loader = Idle /\ overflow
    /\ overflow' = FALSE /\ timer' = TRUE
    /\ UNCHANGED <<disk, event, loader, finger, store>>

OnTimer ==
    /\ loader = Idle /\ timer
    /\ timer' = FALSE
    /\ loader' = At("cert", None, None)
    /\ UNCHANGED <<disk, event, overflow, finger, store>>

ReloaderStep ==
    \/ InstallWatches \/ ReadCert \/ ReadKey \/ ReadCA
    \/ OnEvent \/ OnWatchError \/ OnTimer

FilesChange ==
    \/ \E v \in Versions \cup {0} : WriteCert(v) \/ WriteKey(v)
    \/ \E cas \in SUBSET CAs : WriteCA(cas)
    \/ \E v \in Versions, cas \in SUBSET CAs : SwapData(v, cas)

FileSets == [cert : Versions \cup {0}, key : Versions \cup {0}, ca : {None} \cup SUBSET CAs]

\* The reloader by itself, under any changes of the files.
ReloaderSpec ==
    /\ \E files \in FileSets : ReloaderInit(files)
    /\ [][ReloaderStep \/ FilesChange]_reloaderVars

----------------------------------------------------------------------------

Valid(files) == KeyPairMatches(files.cert, files.key) /\ CAParses(files.ca)
Quiet == loader = Idle /\ ~event /\ ~overflow /\ ~timer

(* Once the reloader has nothing left to do, what it has published is what *)
(* the files say, if they are a valid set: no rotation is missed, whether  *)
(* the files change between two reads of one reload, while NewReloader is  *)
(* at work, or when the watcher loses events.                              *)
QuietMeansPublished ==
    Quiet /\ Valid(disk) => store.cert = disk.cert /\ store.cas = disk.ca
=============================================================================
