-------------------------- MODULE Reloader_proofs --------------------------
(***************************************************************************)
(* No rotation of the TLS files is missed, for any number of changes at    *)
(* any moments: QuietMeansPublished is an invariant of the reloader.       *)
(***************************************************************************)
EXTENDS Reloader, TLAPS

(* Something is on its way that will make the reloader read again.         *)
Dirty == event \/ overflow \/ timer

(* What the goroutine has read is what the files say, or it will read      *)
(* again.  That is the reason why the watches come before the first read,  *)
(* and why an event that arrives during a reload waits for it to end.      *)
LoaderInv ==
    /\ loader.at \in {"new", "cert", "key", "ca", "select", "failed"}
    /\ loader.at = "key" => Dirty \/ loader.cert = disk.cert
    /\ loader.at = "ca" => /\ KeyPairMatches(loader.cert, loader.key)
                           /\ Dirty \/ (loader.cert = disk.cert /\ loader.key = disk.key)
    /\ loader.at = "select" => loader = Idle

(* The fingerprint is that of the Config that is published.                *)
StoreInv == store = None \/ (store.cert = finger.cert /\ store.cas = finger.ca)

Published == Valid(disk) => store.cert = disk.cert /\ store.cas = disk.ca

TypeInv ==
    /\ event \in BOOLEAN /\ overflow \in BOOLEAN /\ timer \in BOOLEAN
    /\ disk = [cert |-> disk.cert, key |-> disk.key, ca |-> disk.ca]

IInv ==
    /\ TypeInv
    /\ LoaderInv
    /\ StoreInv
    /\ loader.at = "select" => Dirty \/ Published

----------------------------------------------------------------------------

(* NewReloader has read nothing yet, and promises nothing.                 *)
LEMMA ReloaderStarts ==
    ASSUME NEW files \in FileSets, ReloaderInit(files)
    PROVE  IInv
  BY Zenon DEF FileSets, ReloaderInit, At, IInv, TypeInv, LoaderInv, StoreInv

(* A change of the files reaches a watcher, or overflows its queue: from   *)
(* the moment the watches are installed it leaves a trace.                 *)
LEMMA ChangeLeavesTrace ==
    ASSUME IInv, NEW files, Replace(files),
           files = [cert |-> files.cert, key |-> files.key, ca |-> files.ca]
    PROVE  IInv'
<1>1. CASE Watching
  <2>1. Dirty' /\ TypeInv'
    BY <1>1, Zenon DEF Replace, Notify, Dirty, IInv, TypeInv
  <2>2. QED
    BY <2>1 DEF Replace, IInv, LoaderInv, StoreInv, Idle, At
<1>2. CASE ~Watching
  BY <1>2 DEF Watching, Replace, Notify, IInv, TypeInv, LoaderInv, StoreInv, Idle, At
<1>3. QED
  BY <1>1, <1>2

(* Each kind of change of the files keeps the invariant.                   *)
LEMMA FilesChangeKeeps ==
    ASSUME IInv, FilesChange
    PROVE  IInv'
<1>1. TypeInv
  BY DEF IInv
<1>2. ASSUME NEW v, WriteCert(v) PROVE IInv'
  BY <1>1, <1>2, ChangeLeavesTrace DEF WriteCert, TypeInv
<1>3. ASSUME NEW v, WriteKey(v) PROVE IInv'
  BY <1>1, <1>3, ChangeLeavesTrace DEF WriteKey, TypeInv
<1>4. ASSUME NEW cas, WriteCA(cas) PROVE IInv'
  BY <1>1, <1>4, ChangeLeavesTrace DEF WriteCA, TypeInv
<1>5. ASSUME NEW v, NEW cas, SwapData(v, cas) PROVE IInv'
  BY <1>5, ChangeLeavesTrace DEF SwapData
<1>6. QED
  BY <1>2, <1>3, <1>4, <1>5 DEF FilesChange

(* A read that fails: either something has changed meanwhile, or the files *)
(* are not a valid set and nothing is promised of them.                    *)
LEMMA FailureKeeps ==
    ASSUME IInv, LoadFails, Dirty \/ ~Valid(disk)
    PROVE  IInv'
  BY DEF LoadFails, At, Idle, IInv, TypeInv, LoaderInv, StoreInv, Dirty, Valid, Published,
         KeyPairMatches, CAParses

(* Reading the key: a pair that does not match ends the reload, but then   *)
(* the files are not valid or it will read again.                          *)
LEMMA ReadKeyKeeps ==
    ASSUME IInv, ReadKey
    PROVE  IInv'
<1>1. CASE KeyPairMatches(loader.cert, disk.key)
  BY <1>1 DEF ReadKey, At, IInv, TypeInv, LoaderInv, StoreInv, Dirty, KeyPairMatches
<1>2. CASE ~KeyPairMatches(loader.cert, disk.key)
  <2>1. LoadFails
    BY <1>2 DEF ReadKey
  <2>2. Dirty \/ ~Valid(disk)
    BY <1>2 DEF ReadKey, IInv, LoaderInv, Valid
  <2>3. QED
    BY <2>1, <2>2, FailureKeeps
<1>3. QED
  BY <1>1, <1>2

(* The end of a reload, successful or not, publishes what the files say    *)
(* unless they have changed since they were read.                          *)
LEMMA ReadCAKeeps ==
    ASSUME IInv, ReadCA
    PROVE  IInv'
<1> DEFINE print == [cert |-> loader.cert, key |-> loader.key, ca |-> disk.ca]
<1>1. CASE ~CAParses(disk.ca)
  BY <1>1, FailureKeeps DEF ReadCA, Valid
<1>2. CASE CAParses(disk.ca)
  <2>1. /\ loader.at = "ca" /\ loader' = Idle
        /\ UNCHANGED <<disk, event, overflow, timer>>
        /\ Dirty \/ (loader.cert = disk.cert /\ loader.key = disk.key)
    BY <1>2 DEF ReadCA, IInv, LoaderInv
  <2>2. store'.cert = print.cert /\ store'.cas = print.ca /\ finger' = print
    <3>1. CASE ~Starting /\ print = finger
      BY <1>2, <3>1 DEF ReadCA, IInv, StoreInv, Starting
    <3>2. CASE ~(~Starting /\ print = finger)
      BY <1>2, <3>2 DEF ReadCA, Config
    <3>3. QED
      BY <3>1, <3>2
  <2>3. TypeInv' /\ LoaderInv'
    BY <2>1 DEF IInv, TypeInv, LoaderInv, Idle, At
  <2>4. StoreInv'
    BY <2>2 DEF StoreInv
  <2>5. (Dirty \/ Published)'
    BY <2>1, <2>2 DEF Dirty, Published
  <2>6. QED
    BY <2>3, <2>4, <2>5 DEF IInv
<1>3. QED
  BY <1>1, <1>2

(* Every step of the reloader's goroutine keeps the invariant.             *)
LEMMA ReloaderStepKeeps ==
    ASSUME IInv, ReloaderStep
    PROVE  IInv'
<1>1. CASE InstallWatches
  BY <1>1 DEF InstallWatches, At, IInv, TypeInv, LoaderInv, StoreInv
<1>2. CASE ReadCert
  BY <1>2 DEF ReadCert, At, IInv, TypeInv, LoaderInv, StoreInv, Dirty
<1>3. CASE ReadKey
  BY <1>3, ReadKeyKeeps
<1>4. CASE ReadCA
  BY <1>4, ReadCAKeeps
<1>5. CASE OnEvent
  BY <1>5, Zenon DEF OnEvent, Idle, At, IInv, TypeInv, LoaderInv, StoreInv, Dirty
<1>6. CASE OnWatchError
  BY <1>6, Zenon DEF OnWatchError, Idle, At, IInv, TypeInv, LoaderInv, StoreInv, Dirty
<1>7. CASE OnTimer
  BY <1>7, Zenon DEF OnTimer, Idle, At, IInv, TypeInv, LoaderInv, StoreInv
<1>8. QED
  BY <1>1, <1>2, <1>3, <1>4, <1>5, <1>6, <1>7 DEF ReloaderStep

----------------------------------------------------------------------------

(* Once the reloader has nothing left to do, the Config it has published   *)
(* is the one the files describe, if they are a valid set: whichever files *)
(* change, in whatever order, between any two of its reads.                *)
THEOREM NoRotationMissed == ReloaderSpec => []QuietMeansPublished
<1>1. (\E files \in FileSets : ReloaderInit(files)) => IInv
  BY ReloaderStarts
<1>2. IInv /\ [ReloaderStep \/ FilesChange]_reloaderVars => IInv'
  <2>1. CASE UNCHANGED reloaderVars
    BY <2>1 DEF reloaderVars, IInv, TypeInv, LoaderInv, StoreInv, Dirty, Published, Valid,
                KeyPairMatches, CAParses, Idle, At
  <2>2. QED
    BY <2>1, ReloaderStepKeeps, FilesChangeKeeps
<1>3. IInv => QuietMeansPublished
  BY DEF IInv, QuietMeansPublished, Quiet, Idle, At, Dirty, Published
<1>4. QED
  BY <1>1, <1>2, <1>3, PTL DEF ReloaderSpec
=============================================================================
