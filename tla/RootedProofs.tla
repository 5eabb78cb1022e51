---------------------------- MODULE RootedProofs ----------------------------
(***************************************************************************)
(* Proofs about the rooted file system: what one call promises its caller  *)
(* on either platform, for any numbers of failing calls and of changes     *)
(* another program makes.  Each platform has an inductive invariant, which *)
(* says where the files are, what a power failure can bring back, and how  *)
(* far the publication status tells the truth, at every point of the call. *)
(***************************************************************************)
EXTENDS MCRooted, TLAPS

-----------------------------------------------------------------------------
(* POSIX: the inductive invariant. *)

Preparing == {"namespace", "payload", "fill", "flush", "check", "publish"}
Exchanging == {"syncPublished", "verify", "reverse", "removeOld"}
Quarantining == {"quarantine", "syncQuarantined", "verifyQuarantined", "removeQuarantined",
                 "restore", "cleanQuarantine"}
Locations ==
    Preparing \union Exchanging \union Quarantining \union
    {"syncReversed", "cleanup", "discard", "discardDirectory", "conclude", "open", "done"}

PosixTypes ==
    /\ TypeOK /\ pc \in Locations
    /\ pc = "done" <=> outcome # "running"
    /\ touched => foreign # 0

(* The prepared file is at the payload name, then at the target, never at  *)
(* both, and is gone only from a call that has withdrawn it.               *)
PreparedFile ==
    /\ "new" \notin {entry.source, entry.quarantine}
    /\ ~(entry.target = "new" /\ entry.payload = "new")
    /\ pc \in {"namespace", "payload"} => entry.payload = None /\ entry.target # "new"
    /\ pc \in {"fill", "flush", "check", "publish"} => entry.payload = "new"
    /\ "new" \in gone =>
         /\ pub = "NotPublished" /\ "new" \notin {entry.target, entry.payload}
         /\ pc \in {"discardDirectory", "conclude", "done"}

(* A removal has nothing to prepare or to publish. *)
RemovalPublishesNothing ==
    /\ pc = "open" => call = "remove"
    /\ pc \in Preparing \union Exchanging \union
              {"syncReversed", "cleanup", "discard", "discardDirectory", "conclude"} => call # "remove"
    /\ call = "remove" => /\ pub = "NotPublished" /\ committed = "none" /\ entry.payload = None
                          /\ entry.target # "new" /\ "new" \notin gone

(* What the handle remembers of the payload name. *)
HandleSound ==
    /\ pc \in Preparing => pub = "NotPublished" /\ committed = "none" /\ identity = "new" /\ gone = {}
    /\ present /\ identity = "new" => pub = "NotPublished"
    /\ present /\ identity = "old" => pub # "NotPublished"
    /\ pc \in Exchanging =>
         /\ pub = "Published" /\ expect = None => entry.payload = None /\ ~present
         /\ expect # None => identity = "old"
         /\ gone = {} /\ committed = "none"
    /\ pc = "removeOld" => entry.payload = "old"
    /\ pc = "cleanup" => entry.payload = None /\ ~present /\ committed = "none"

(* How much of the publication is known and durable. *)
StatusSound ==
    /\ pub = "NotPublished" /\ foreign = 0 /\ call # "remove" => entry.target = expect
    /\ pub # "NotPublished" /\ ~touched => entry.target = "new"
    /\ (durable \/ pub = "Unknown") /\ pub # "NotPublished" /\ ~touched => crash.target = {"new"}
    /\ pub = "Unknown" => ~durable
    /\ pub # "NotPublished" \/ pc \in {"check", "publish"} => "new" \in flushed
    /\ pc \in Exchanging => pub = "Published" /\ (foreign = 0 => entry.payload = expect)
    /\ pc \in Exchanging \ {"syncPublished"} => durable
    /\ pc = "syncPublished" => ~durable
    /\ pc = "syncReversed" => pub = "NotPublished" /\ ~durable /\ gone = {}
    /\ pc = "cleanup" => pub = "Published" /\ durable
    /\ committed = "ok" => pub = "Published" /\ durable
    /\ pc = "discard" /\ pub = "Published" /\ ~durable => torn
    /\ pc \in {"discard", "discardDirectory"} /\ private = "cleaned" => pub = "Published" /\ durable
    /\ pc \in Preparing \union Exchanging \union {"syncReversed", "cleanup"} => private # "cleaned"
    /\ pc \in Quarantining /\ call = "replace" => committed = "ok"

(* What was given up. *)
GivenUpSound ==
    /\ call # "remove" /\ gone \intersect {"old", "src"} # {} =>
         pub # "NotPublished" /\ (torn \/ durable \/ pub = "Unknown")
    /\ gone \subseteq {"old", "src", "new"}

(* The quarantined file, and the name it was taken from. *)
QuarantineSound ==
    /\ pc \in Quarantining => call # "write"
    /\ pc = "removeQuarantined" => entry.quarantine = Opened
    /\ call = "remove" /\ pc \in Quarantining \ {"quarantine", "restore"} /\ ~touched =>
         entry.target = None

PosixInv ==
    /\ PosixTypes /\ PreparedFile /\ RemovalPublishesNothing /\ HandleSound /\ StatusSound
    /\ GivenUpSound /\ QuarantineSound /\ ForeignFileKept /\ AcknowledgedIsDurable

(* A failing call counts at most up to its bound. *)
LEMMA FaultType ==
    ASSUME TypeOK, Fault \/ NoFault
    PROVE  faults' \in 0 .. MaxFaults
BY RootedAssumption DEF TypeOK, Fault, NoFault

(* The names after a rename, an exchange or an unlink are names of files. *)
LEMMA NowType ==
    ASSUME TypeOK, NEW e \in [Slots -> Files \union {None}], Now(e)
    PROVE  /\ entry' \in [Slots -> Files \union {None}]
           /\ crash' \in [Slots -> SUBSET (Files \union {None})]
BY DEF TypeOK, Now

(* What a directory's barrier leaves. *)
LEMMA SyncedType ==
    ASSUME TypeOK, NEW dirs, Synced(dirs)
    PROVE  crash' \in [Slots -> SUBSET (Files \union {None})]
BY DEF TypeOK, Synced

(* The private directory is made; a failure leaves nothing published. *)
LEMMA CreateNamespaceKeeps ==
    ASSUME PosixInv, CreateNamespace
    PROVE  PosixInv'
<1>1. TypeOK'
  BY FaultType, RootedAssumption DEF PosixInv, PosixTypes, CreateNamespace, Synced,
     GivesUp, publishStatus, handle, results, world, TypeOK, Files, Slots, DirOf
<1>2. PosixTypes'
  BY <1>1, RootedAssumption DEF PosixInv, PosixTypes, CreateNamespace, Synced, GivesUp,
     publishStatus, handle, results, world, Preparing, Exchanging, Quarantining, Locations,
     TypeOK
<1>3. PreparedFile'
  BY RootedAssumption DEF PosixInv, PosixTypes, PreparedFile, RemovalPublishesNothing,
     HandleSound, StatusSound, GivenUpSound, QuarantineSound, ForeignFileKept,
     AcknowledgedIsDurable, CreateNamespace, Synced, Fault, NoFault, GivesUp, publishStatus,
     handle, results, world, TypeOK, Files, Slots, DirOf, Preparing, Exchanging, Quarantining
<1>4. RemovalPublishesNothing' /\ HandleSound' /\ GivenUpSound' /\ ForeignFileKept'
  BY DEF PosixInv, RemovalPublishesNothing, HandleSound, GivenUpSound, ForeignFileKept,
     CreateNamespace, Synced, Fault, NoFault, GivesUp, publishStatus, handle, results, world,
     Preparing, Exchanging, Quarantining, Slots, DirOf, Range
<1>5. StatusSound'
  BY RootedAssumption DEF PosixInv, PosixTypes, StatusSound, CreateNamespace, Synced,
     Fault, NoFault, GivesUp, publishStatus, handle, results, world, Preparing, Exchanging,
     Quarantining, TypeOK, Files, Slots, DirOf
<1>6. QuarantineSound'
  BY RootedAssumption DEF PosixInv, QuarantineSound, CreateNamespace, Synced, Fault,
     NoFault, GivesUp, publishStatus, handle, results, world, Preparing, Exchanging,
     Quarantining, Opened
<1>7. AcknowledgedIsDurable'
  BY RootedAssumption DEF PosixInv, PosixTypes, AcknowledgedIsDurable, CreateNamespace,
     Synced, Fault, NoFault, GivesUp, publishStatus, handle, results, world, TypeOK, Files,
     Slots, DirOf
<1> QED
  BY <1>2, <1>3, <1>4, <1>5, <1>6, <1>7 DEF PosixInv

(* The prepared file appears at the payload name only. *)
LEMMA CreatePayloadKeeps ==
    ASSUME PosixInv, CreatePayload
    PROVE  PosixInv'
<1>1. TypeOK'
  BY FaultType, RootedAssumption DEF PosixInv, PosixTypes, CreatePayload, Now, GivesUp,
     publishStatus, handle, results, world, TypeOK, Files, Slots, DirOf
<1>2. PosixTypes'
  BY <1>1, RootedAssumption DEF PosixInv, PosixTypes, CreatePayload, Now, GivesUp,
     publishStatus, handle, results, world, Preparing, Exchanging, Quarantining, Locations,
     TypeOK
<1>3. PreparedFile'
  BY RootedAssumption DEF PosixInv, PosixTypes, PreparedFile, CreatePayload, Now, Fault,
     NoFault, GivesUp, publishStatus, handle, results, world, TypeOK, Files, Slots, DirOf
<1>4. RemovalPublishesNothing' /\ HandleSound' /\ GivenUpSound' /\ QuarantineSound'
  BY DEF PosixInv, RemovalPublishesNothing, HandleSound, GivenUpSound, QuarantineSound,
     CreatePayload, Now, Fault, NoFault, GivesUp, publishStatus, handle, results, world,
     Preparing, Exchanging, Quarantining, Opened
<1>5. StatusSound'
  BY RootedAssumption DEF PosixInv, PosixTypes, StatusSound, CreatePayload, Now, Fault,
     NoFault, GivesUp, publishStatus, handle, results, world, Preparing, Exchanging,
     Quarantining, TypeOK, Files, Slots, DirOf
<1>6. ForeignFileKept'
  BY RootedAssumption DEF PosixInv, PosixTypes, PreparedFile, RemovalPublishesNothing,
     HandleSound, StatusSound, GivenUpSound, QuarantineSound, ForeignFileKept,
     AcknowledgedIsDurable, CreatePayload, Now, Fault, NoFault, GivesUp, publishStatus,
     handle, results, world, Slots, DirOf, Range, TypeOK, Files, Preparing, Exchanging,
     Quarantining
<1>7. AcknowledgedIsDurable'
  BY RootedAssumption DEF PosixInv, PosixTypes, AcknowledgedIsDurable, CreatePayload, Now,
     Fault, NoFault, GivesUp, publishStatus, handle, results, world, TypeOK, Files, Slots,
     DirOf
<1> QED
  BY <1>2, <1>3, <1>4, <1>5, <1>6, <1>7 DEF PosixInv

(* The contents are written, or the commit has failed unpublished. *)
LEMMA FillPayloadKeeps ==
    ASSUME PosixInv, FillPayload
    PROVE  PosixInv'
<1>1. TypeOK'
  BY FaultType, RootedAssumption DEF PosixInv, PosixTypes, FillPayload, publishStatus,
     handle, names, world, TypeOK, Files, Slots, DirOf
<1>2. PosixTypes'
  BY <1>1, RootedAssumption DEF PosixInv, PosixTypes, FillPayload, publishStatus, handle,
     names, world, Preparing, Exchanging, Quarantining, Locations, TypeOK
<1>3. PreparedFile' /\ RemovalPublishesNothing' /\ HandleSound' /\ GivenUpSound' /\
      QuarantineSound' /\ ForeignFileKept' /\ AcknowledgedIsDurable'
  BY DEF PosixInv, PreparedFile, RemovalPublishesNothing, HandleSound, GivenUpSound,
     QuarantineSound, ForeignFileKept, AcknowledgedIsDurable, FillPayload, Fault, NoFault,
     publishStatus, handle, names, world, Preparing, Exchanging, Quarantining, Opened, Slots,
     DirOf, Range
<1>4. StatusSound'
  BY RootedAssumption DEF PosixInv, PosixTypes, HandleSound, StatusSound, FillPayload,
     Fault, NoFault, publishStatus, handle, names, world, Preparing, Exchanging, Quarantining,
     TypeOK, Files, Slots, DirOf
<1> QED
  BY <1>2, <1>3, <1>4 DEF PosixInv

(* From here on the prepared file's contents are on the disk. *)
LEMMA FlushKeeps ==
    ASSUME PosixInv, Flush
    PROVE  PosixInv'
<1>1. TypeOK'
  <2>1. faults' \in 0 .. MaxFaults
    BY FaultType DEF PosixInv, PosixTypes, Flush
  <2>2. /\ entry' \in [Slots -> Files \union {None}]
        /\ crash' \in [Slots -> SUBSET (Files \union {None})]
    BY RootedAssumption DEF PosixInv, PosixTypes, Flush, CommitReturns, publishStatus,
       handle, names, results, world, TypeOK, Files, Slots, DirOf
  <2>3. flushed' \subseteq Files /\ gone' \subseteq Files
    BY DEF PosixInv, PosixTypes, Flush, Fault, NoFault, CommitReturns, publishStatus,
       handle, names, results, world, TypeOK, Files
  <2> QED
    BY <2>1, <2>2, <2>3 DEF PosixInv, PosixTypes, Flush, CommitReturns, publishStatus,
       handle, names, results, world, TypeOK
<1>2. PosixTypes'
  BY <1>1, RootedAssumption DEF PosixInv, PosixTypes, Flush, CommitReturns, publishStatus,
     handle, names, results, world, Preparing, Exchanging, Quarantining, Locations, TypeOK
<1>3. PreparedFile' /\ RemovalPublishesNothing' /\ HandleSound' /\ GivenUpSound' /\
      QuarantineSound' /\ ForeignFileKept' /\ AcknowledgedIsDurable'
  BY DEF PosixInv, PreparedFile, RemovalPublishesNothing, HandleSound, GivenUpSound,
     QuarantineSound, ForeignFileKept, AcknowledgedIsDurable, Flush, Fault, NoFault,
     CommitReturns, publishStatus, handle, names, results, world, Preparing, Exchanging,
     Quarantining, Opened, Slots, DirOf, Range
<1>4. StatusSound'
  BY RootedAssumption DEF PosixInv, PosixTypes, HandleSound, StatusSound, Flush, Fault,
     NoFault, CommitReturns, publishStatus, handle, names, results, world, Preparing,
     Exchanging, Quarantining, TypeOK, Files, Slots, DirOf
<1> QED
  BY <1>2, <1>3, <1>4 DEF PosixInv

(* The payload is compared; nothing moves. *)
LEMMA CheckKeeps ==
    ASSUME PosixInv, Check
    PROVE  PosixInv'
<1>1. TypeOK'
  BY FaultType, RootedAssumption DEF PosixInv, PosixTypes, Check, CommitReturns,
     publishStatus, handle, names, results, world, TypeOK, Files, Slots, DirOf
<1>2. PosixTypes'
  BY <1>1, RootedAssumption DEF PosixInv, PosixTypes, Check, CommitReturns, publishStatus,
     handle, names, results, world, Preparing, Exchanging, Quarantining, Locations, TypeOK
<1>3. PreparedFile'
  BY RootedAssumption DEF PosixInv, PreparedFile, Check, Fault, NoFault, CommitReturns,
     publishStatus, handle, names, results, world
<1>4. RemovalPublishesNothing' /\ HandleSound' /\ GivenUpSound' /\ QuarantineSound' /\
      ForeignFileKept' /\ AcknowledgedIsDurable'
  BY DEF PosixInv, RemovalPublishesNothing, HandleSound, GivenUpSound, QuarantineSound,
     ForeignFileKept, AcknowledgedIsDurable, Check, Fault, NoFault, CommitReturns,
     publishStatus, handle, names, results, world, Preparing, Exchanging, Quarantining,
     Opened, Slots, DirOf, Range
<1>5. StatusSound'
  BY RootedAssumption DEF PosixInv, PosixTypes, HandleSound, StatusSound, Check, Fault,
     NoFault, CommitReturns, publishStatus, handle, names, results, world, Preparing,
     Exchanging, Quarantining, TypeOK, Files, Slots, DirOf
<1> QED
  BY <1>2, <1>3, <1>4, <1>5 DEF PosixInv

(* The prepared file and what was at the target change places. *)
LEMMA PublishKeeps ==
    ASSUME PosixInv, Publish
    PROVE  PosixInv'
<1>1. TypeOK'
  <2>1. faults' \in 0 .. MaxFaults
    BY FaultType DEF PosixInv, PosixTypes, Publish, PublishName, failures, NoFault
  <2>2. /\ entry' \in [Slots -> Files \union {None}]
        /\ crash' \in [Slots -> SUBSET (Files \union {None})]
    BY NowType, RootedAssumption DEF PosixInv, PosixTypes, Publish, PublishName, Exchanged,
       Renamed, CanRename, CanExchange, results, failures, TypeOK, Files, Slots, DirOf
  <2>3. flushed' \subseteq Files /\ gone' \subseteq Files
    BY DEF PosixInv, PosixTypes, Publish, PublishName, Now, Exchanged, Renamed, CanRename,
       CanExchange, results, failures, TypeOK, Files
  <2> QED
    BY <2>1, <2>2, <2>3 DEF PosixInv, PosixTypes, Publish, PublishName, results, failures,
       TypeOK
<1>2. PosixTypes'
  BY <1>1, RootedAssumption DEF PosixInv, PosixTypes, Publish, PublishName, Now, Exchanged,
     Renamed, CanRename, CanExchange, results, failures, Preparing, Exchanging, Quarantining,
     Locations, TypeOK
<1>3. PreparedFile'
  BY RootedAssumption DEF PosixInv, PosixTypes, PreparedFile, Publish, PublishName, Now,
     Exchanged, Renamed, CanRename, CanExchange, results, failures, TypeOK, Files, Slots,
     DirOf
<1>4. RemovalPublishesNothing' /\ QuarantineSound'
  BY DEF PosixInv, RemovalPublishesNothing, QuarantineSound, Publish, PublishName, Now,
     Exchanged, Renamed, CanRename, CanExchange, results, failures, Preparing, Exchanging,
     Quarantining, Opened
<1>5. HandleSound'
  BY RootedAssumption DEF PosixInv, PosixTypes, HandleSound, Publish, PublishName, Now,
     Exchanged, Renamed, CanRename, CanExchange, results, failures, Preparing, Exchanging,
     Quarantining, TypeOK, Files, Slots, DirOf
<1>6. StatusSound'
  BY RootedAssumption DEF PosixInv, PosixTypes, PreparedFile, RemovalPublishesNothing,
     HandleSound, StatusSound, GivenUpSound, QuarantineSound, ForeignFileKept,
     AcknowledgedIsDurable, Publish, PublishName, Now, Exchanged, Renamed, CanRename,
     CanExchange, results, failures, Preparing, Exchanging, Quarantining, TypeOK, Files,
     Slots, DirOf
<1>7. GivenUpSound'
  BY RootedAssumption DEF PosixInv, PosixTypes, HandleSound, StatusSound, GivenUpSound,
     Publish, PublishName, Now, Exchanged, Renamed, CanRename, CanExchange, results, failures,
     TypeOK, Files, Slots, DirOf, Preparing, Exchanging, Quarantining
<1>8. ForeignFileKept'
  BY RootedAssumption DEF PosixInv, PosixTypes, ForeignFileKept, Publish, PublishName, Now,
     Exchanged, Renamed, CanRename, CanExchange, results, failures, Slots, DirOf, Range,
     TypeOK, Files
<1>9. AcknowledgedIsDurable'
  BY RootedAssumption DEF PosixInv, PosixTypes, AcknowledgedIsDurable, Publish,
     PublishName, Now, Exchanged, Renamed, CanRename, CanExchange, results, failures, TypeOK,
     Files, Slots, DirOf
<1> QED
  BY <1>2, <1>3, <1>4, <1>5, <1>6, <1>7, <1>8, <1>9 DEF PosixInv

(* The target stays as the other program left it. *)
LEMMA PublishRefusedKeeps ==
    ASSUME PosixInv, PublishRefused
    PROVE  PosixInv'
<1>1. TypeOK'
  BY FaultType, RootedAssumption DEF PosixInv, PosixTypes, PublishRefused, FailsWhen,
     CommitReturns, publishStatus, handle, names, world, TypeOK, Files, Slots, DirOf
<1>2. PosixTypes'
  BY <1>1, RootedAssumption DEF PosixInv, PosixTypes, PublishRefused, FailsWhen,
     CommitReturns, publishStatus, handle, names, world, Preparing, Exchanging, Quarantining,
     Locations, TypeOK
<1>3. PreparedFile' /\ HandleSound'
  BY RootedAssumption DEF PosixInv, PreparedFile, HandleSound, PublishRefused, FailsWhen,
     Fault, NoFault, CommitReturns, publishStatus, handle, names, world, Preparing,
     Exchanging, Quarantining
<1>4. RemovalPublishesNothing' /\ GivenUpSound' /\ QuarantineSound' /\ ForeignFileKept' /\
      AcknowledgedIsDurable'
  BY DEF PosixInv, RemovalPublishesNothing, GivenUpSound, QuarantineSound, ForeignFileKept,
     AcknowledgedIsDurable, PublishRefused, FailsWhen, Fault, NoFault, CommitReturns,
     publishStatus, handle, names, world, Preparing, Exchanging, Quarantining, Opened, Slots,
     DirOf, Range
<1>5. StatusSound'
  BY RootedAssumption DEF PosixInv, PosixTypes, HandleSound, StatusSound, PublishRefused,
     FailsWhen, Fault, NoFault, CommitReturns, publishStatus, handle, names, world, Preparing,
     Exchanging, Quarantining, TypeOK, Files, Slots, DirOf
<1> QED
  BY <1>2, <1>3, <1>4, <1>5 DEF PosixInv

(* A publication is durable, or its directory is torn. *)
LEMMA SyncPublishedKeeps ==
    ASSUME PosixInv, SyncPublished
    PROVE  PosixInv'
<1>1. TypeOK'
  <2>1. faults' \in 0 .. MaxFaults
    BY FaultType DEF PosixInv, PosixTypes, SyncPublished
  <2>2. /\ entry' \in [Slots -> Files \union {None}]
        /\ crash' \in [Slots -> SUBSET (Files \union {None})]
    BY SyncedType, RootedAssumption DEF PosixInv, PosixTypes, SyncPublished, CommitReturns,
       handle, results, world, TypeOK, Files, Slots, DirOf
  <2>3. flushed' \subseteq Files /\ gone' \subseteq Files
    BY DEF PosixInv, PosixTypes, SyncPublished, Synced, Fault, NoFault, CommitReturns,
       handle, results, world, TypeOK, Files
  <2> QED
    BY <2>1, <2>2, <2>3 DEF PosixInv, PosixTypes, SyncPublished, CommitReturns, handle,
       results, world, TypeOK
<1>2. PosixTypes'
  BY <1>1, RootedAssumption DEF PosixInv, PosixTypes, SyncPublished, Synced, CommitReturns,
     handle, results, world, Preparing, Exchanging, Quarantining, Locations, TypeOK
<1>3. PreparedFile' /\ RemovalPublishesNothing' /\ HandleSound' /\ GivenUpSound' /\
      QuarantineSound' /\ ForeignFileKept'
  BY DEF PosixInv, PreparedFile, RemovalPublishesNothing, HandleSound, GivenUpSound,
     QuarantineSound, ForeignFileKept, SyncPublished, Synced, Fault, NoFault, CommitReturns,
     handle, results, world, Preparing, Exchanging, Quarantining, Opened, Slots, DirOf, Range
<1>4. StatusSound'
  BY RootedAssumption DEF PosixInv, PosixTypes, StatusSound, SyncPublished, Synced, Fault,
     NoFault, CommitReturns, handle, results, world, Preparing, Exchanging, Quarantining,
     TypeOK, Files, Slots, DirOf
<1>5. AcknowledgedIsDurable'
  BY RootedAssumption DEF PosixInv, PosixTypes, AcknowledgedIsDurable, SyncPublished,
     Synced, Fault, NoFault, CommitReturns, handle, results, world, TypeOK, Files, Slots,
     DirOf
<1> QED
  BY <1>2, <1>3, <1>4, <1>5 DEF PosixInv

(* Only an expected displaced file goes on to be removed. *)
LEMMA VerifyKeeps ==
    ASSUME PosixInv, Verify
    PROVE  PosixInv'
<1>1. TypeOK'
  BY FaultType, RootedAssumption DEF PosixInv, PosixTypes, Verify, Verified, publishStatus,
     handle, names, results, world, TypeOK, Files, Slots, DirOf
<1>2. PosixTypes'
  BY <1>1, RootedAssumption DEF PosixInv, PosixTypes, Verify, Verified, publishStatus,
     handle, names, results, world, Preparing, Exchanging, Quarantining, Locations, TypeOK
<1>3. PreparedFile' /\ RemovalPublishesNothing' /\ StatusSound' /\ GivenUpSound' /\
      QuarantineSound' /\ ForeignFileKept' /\ AcknowledgedIsDurable'
  BY DEF PosixInv, PreparedFile, RemovalPublishesNothing, StatusSound, GivenUpSound,
     QuarantineSound, ForeignFileKept, AcknowledgedIsDurable, Verify, Fault, NoFault,
     Verified, publishStatus, handle, names, results, world, Preparing, Exchanging,
     Quarantining, Opened, Slots, DirOf, Range
<1>4. HandleSound'
  BY RootedAssumption DEF PosixInv, PosixTypes, HandleSound, StatusSound, Verify, Fault,
     NoFault, Verified, publishStatus, handle, names, results, world, Preparing, Exchanging,
     Quarantining, TypeOK, Files, Slots, DirOf
<1> QED
  BY <1>2, <1>3, <1>4 DEF PosixInv

(* The displaced file goes back and the publication is withdrawn. *)
LEMMA ReverseKeeps ==
    ASSUME PosixInv, Reverse
    PROVE  PosixInv'
<1>1. TypeOK'
  <2>1. faults' \in 0 .. MaxFaults
    BY FaultType DEF PosixInv, PosixTypes, Reverse, failures, NoFault
  <2>2. /\ entry' \in [Slots -> Files \union {None}]
        /\ crash' \in [Slots -> SUBSET (Files \union {None})]
    BY NowType, RootedAssumption DEF PosixInv, PosixTypes, Reverse, Exchanged, Renamed,
       CanRename, CanExchange, results, world, failures, TypeOK, Files, Slots, DirOf
  <2>3. flushed' \subseteq Files /\ gone' \subseteq Files
    BY DEF PosixInv, PosixTypes, Reverse, Now, Exchanged, Renamed, CanRename, CanExchange,
       results, world, failures, TypeOK, Files
  <2> QED
    BY <2>1, <2>2, <2>3 DEF PosixInv, PosixTypes, Reverse, results, world, failures, TypeOK
<1>2. PosixTypes'
  BY <1>1, RootedAssumption DEF PosixInv, PosixTypes, Reverse, Now, Exchanged, Renamed,
     CanRename, CanExchange, results, world, failures, Preparing, Exchanging, Quarantining,
     Locations, TypeOK
<1>3. PreparedFile'
  BY RootedAssumption DEF PosixInv, PosixTypes, PreparedFile, Reverse, Now, Exchanged,
     Renamed, CanRename, CanExchange, results, world, failures, TypeOK, Files, Slots, DirOf
<1>4. RemovalPublishesNothing' /\ HandleSound' /\ QuarantineSound'
  BY DEF PosixInv, RemovalPublishesNothing, HandleSound, QuarantineSound, Reverse, Now,
     Exchanged, Renamed, CanRename, CanExchange, results, world, failures, Preparing,
     Exchanging, Quarantining, Opened
<1>5. StatusSound'
  BY RootedAssumption DEF PosixInv, PosixTypes, HandleSound, StatusSound, Reverse, Now,
     Exchanged, Renamed, CanRename, CanExchange, results, world, failures, Preparing,
     Exchanging, Quarantining, TypeOK, Files, Slots, DirOf
<1>6. GivenUpSound'
  BY RootedAssumption DEF PosixInv, PosixTypes, HandleSound, StatusSound, GivenUpSound,
     Reverse, Now, Exchanged, Renamed, CanRename, CanExchange, results, world, failures,
     TypeOK, Files, Slots, DirOf, Preparing, Exchanging, Quarantining
<1>7. ForeignFileKept'
  BY RootedAssumption DEF PosixInv, PosixTypes, ForeignFileKept, Reverse, Now, Exchanged,
     Renamed, CanRename, CanExchange, results, world, failures, Slots, DirOf, Range, TypeOK,
     Files
<1>8. AcknowledgedIsDurable'
  BY RootedAssumption DEF PosixInv, PosixTypes, AcknowledgedIsDurable, Reverse, Now,
     Exchanged, Renamed, CanRename, CanExchange, results, world, failures, TypeOK, Files,
     Slots, DirOf
<1> QED
  BY <1>2, <1>3, <1>4, <1>5, <1>6, <1>7, <1>8 DEF PosixInv

(* The status becomes unknown, and the target is durable already. *)
LEMMA ReverseFailsKeeps ==
    ASSUME PosixInv, ReverseFails
    PROVE  PosixInv'
<1>1. TypeOK'
  BY FaultType, RootedAssumption DEF PosixInv, PosixTypes, ReverseFails, FailsWhen,
     CommitReturns, handle, names, world, TypeOK, Files, Slots, DirOf
<1>2. PosixTypes'
  BY <1>1, RootedAssumption DEF PosixInv, PosixTypes, ReverseFails, FailsWhen,
     CommitReturns, handle, names, world, Preparing, Exchanging, Quarantining, Locations,
     TypeOK
<1>3. PreparedFile' /\ RemovalPublishesNothing' /\ StatusSound' /\ GivenUpSound' /\
      QuarantineSound' /\ ForeignFileKept' /\ AcknowledgedIsDurable'
  BY DEF PosixInv, PreparedFile, RemovalPublishesNothing, StatusSound, GivenUpSound,
     QuarantineSound, ForeignFileKept, AcknowledgedIsDurable, ReverseFails, FailsWhen, Fault,
     NoFault, CommitReturns, handle, names, world, Preparing, Exchanging, Quarantining,
     Opened, Slots, DirOf, Range
<1>4. HandleSound'
  BY RootedAssumption DEF PosixInv, PosixTypes, HandleSound, StatusSound, ReverseFails,
     FailsWhen, Fault, NoFault, CommitReturns, handle, names, world, Preparing, Exchanging,
     Quarantining, TypeOK, Files, Slots, DirOf
<1> QED
  BY <1>2, <1>3, <1>4 DEF PosixInv

(* A withdrawn publication ends as a failed commit. *)
LEMMA SyncReversedKeeps ==
    ASSUME PosixInv, SyncReversed
    PROVE  PosixInv'
<1>1. TypeOK'
  <2>1. faults' \in 0 .. MaxFaults
    BY FaultType DEF PosixInv, PosixTypes, SyncReversed
  <2>2. /\ entry' \in [Slots -> Files \union {None}]
        /\ crash' \in [Slots -> SUBSET (Files \union {None})]
    BY SyncedType, RootedAssumption DEF PosixInv, PosixTypes, SyncReversed, CommitReturns,
       handle, world, TypeOK, Files, Slots, DirOf
  <2>3. flushed' \subseteq Files /\ gone' \subseteq Files
    BY DEF PosixInv, PosixTypes, SyncReversed, Synced, Fault, NoFault, CommitReturns,
       handle, world, TypeOK, Files
  <2> QED
    BY <2>1, <2>2, <2>3 DEF PosixInv, PosixTypes, SyncReversed, CommitReturns, handle,
       world, TypeOK
<1>2. PosixTypes'
  BY <1>1, RootedAssumption DEF PosixInv, PosixTypes, SyncReversed, Synced, CommitReturns,
     handle, world, Preparing, Exchanging, Quarantining, Locations, TypeOK
<1>3. PreparedFile' /\ RemovalPublishesNothing' /\ HandleSound' /\ StatusSound' /\
      GivenUpSound' /\ QuarantineSound' /\ ForeignFileKept'
  BY DEF PosixInv, PreparedFile, RemovalPublishesNothing, HandleSound, StatusSound,
     GivenUpSound, QuarantineSound, ForeignFileKept, SyncReversed, Synced, Fault, NoFault,
     CommitReturns, handle, world, Preparing, Exchanging, Quarantining, Opened, Slots, DirOf,
     Range
<1>4. AcknowledgedIsDurable'
  BY RootedAssumption DEF PosixInv, PosixTypes, AcknowledgedIsDurable, SyncReversed,
     Synced, Fault, NoFault, CommitReturns, handle, world, TypeOK, Files, Slots, DirOf
<1> QED
  BY <1>2, <1>3, <1>4 DEF PosixInv

(* The displaced file that is unlinked is the expected one. *)
LEMMA RemoveOldKeeps ==
    ASSUME PosixInv, RemoveOld
    PROVE  PosixInv'
<1>1. TypeOK'
  <2>1. faults' \in 0 .. MaxFaults
    BY FaultType DEF PosixInv, PosixTypes, RemoveOld
  <2>2. /\ entry' \in [Slots -> Files \union {None}]
        /\ crash' \in [Slots -> SUBSET (Files \union {None})]
    BY RootedAssumption DEF PosixInv, PosixTypes, RemoveOld, CommitReturns, results, world,
       TypeOK, Files, Slots, DirOf
  <2>3. flushed' \subseteq Files /\ gone' \subseteq Files
    BY DEF PosixInv, PosixTypes, HandleSound, RemoveOld, Fault, NoFault, CommitReturns,
       results, world, TypeOK, Files
  <2> QED
    BY <2>1, <2>2, <2>3 DEF PosixInv, PosixTypes, RemoveOld, CommitReturns, results, world,
       TypeOK
<1>2. PosixTypes'
  BY <1>1, RootedAssumption DEF PosixInv, PosixTypes, RemoveOld, CommitReturns, results,
     world, Preparing, Exchanging, Quarantining, Locations, TypeOK
<1>3. PreparedFile'
  BY RootedAssumption DEF PosixInv, PosixTypes, PreparedFile, HandleSound, StatusSound,
     RemoveOld, Fault, NoFault, CommitReturns, results, world, TypeOK, Files, Slots, DirOf,
     Preparing, Exchanging, Quarantining
<1>4. RemovalPublishesNothing' /\ HandleSound' /\ QuarantineSound'
  BY DEF PosixInv, RemovalPublishesNothing, HandleSound, QuarantineSound, RemoveOld, Fault,
     NoFault, CommitReturns, results, world, Preparing, Exchanging, Quarantining, Opened
<1>5. StatusSound'
  BY RootedAssumption DEF PosixInv, PosixTypes, StatusSound, RemoveOld, Fault, NoFault,
     CommitReturns, results, world, Preparing, Exchanging, Quarantining, TypeOK, Files, Slots,
     DirOf
<1>6. GivenUpSound'
  BY RootedAssumption DEF PosixInv, PosixTypes, HandleSound, StatusSound, GivenUpSound,
     RemoveOld, Fault, NoFault, CommitReturns, results, world, TypeOK, Files, Slots, DirOf,
     Preparing, Exchanging, Quarantining
<1>7. ForeignFileKept'
  BY RootedAssumption DEF PosixInv, PosixTypes, HandleSound, StatusSound, ForeignFileKept,
     RemoveOld, Fault, NoFault, CommitReturns, results, world, Slots, DirOf, Range, TypeOK,
     Files, Preparing, Exchanging, Quarantining
<1>8. AcknowledgedIsDurable'
  BY RootedAssumption DEF PosixInv, PosixTypes, AcknowledgedIsDurable, RemoveOld, Fault,
     NoFault, CommitReturns, results, world, TypeOK, Files, Slots, DirOf
<1> QED
  BY <1>2, <1>3, <1>4, <1>5, <1>6, <1>7, <1>8 DEF PosixInv

(* Nothing was unlinked: the exchange will be reversed. *)
LEMMA RemoveOldFailsKeeps ==
    ASSUME PosixInv, RemoveOldFails
    PROVE  PosixInv'
<1>1. TypeOK'
  BY FaultType, RootedAssumption DEF PosixInv, PosixTypes, RemoveOldFails, publishStatus,
     handle, names, results, world, TypeOK, Files, Slots, DirOf
<1>2. PosixTypes'
  BY <1>1, RootedAssumption DEF PosixInv, PosixTypes, RemoveOldFails, publishStatus,
     handle, names, results, world, Preparing, Exchanging, Quarantining, Locations, TypeOK
<1>3. PreparedFile' /\ RemovalPublishesNothing' /\ HandleSound' /\ StatusSound' /\
      GivenUpSound' /\ QuarantineSound' /\ ForeignFileKept' /\ AcknowledgedIsDurable'
  BY DEF PosixInv, PreparedFile, RemovalPublishesNothing, HandleSound, StatusSound,
     GivenUpSound, QuarantineSound, ForeignFileKept, AcknowledgedIsDurable, RemoveOldFails,
     Fault, publishStatus, handle, names, results, world, Preparing, Exchanging, Quarantining,
     Opened, Slots, DirOf, Range
<1> QED
  BY <1>2, <1>3 DEF PosixInv

(* A commit that succeeds is published and durable. *)
LEMMA CleanupKeeps ==
    ASSUME PosixInv, Cleanup
    PROVE  PosixInv'
<1>1. TypeOK'
  <2>1. faults' \in 0 .. MaxFaults
    BY FaultType DEF PosixInv, PosixTypes, Cleanup
  <2>2. /\ entry' \in [Slots -> Files \union {None}]
        /\ crash' \in [Slots -> SUBSET (Files \union {None})]
    BY SyncedType, RootedAssumption DEF PosixInv, PosixTypes, Cleanup, CommitReturns,
       publishStatus, handle, world, TypeOK, Files, Slots, DirOf
  <2>3. flushed' \subseteq Files /\ gone' \subseteq Files
    BY DEF PosixInv, PosixTypes, Cleanup, Synced, Fault, NoFault, CommitReturns,
       publishStatus, handle, world, TypeOK, Files
  <2> QED
    BY <2>1, <2>2, <2>3 DEF PosixInv, PosixTypes, Cleanup, CommitReturns, publishStatus,
       handle, world, TypeOK
<1>2. PosixTypes'
  BY <1>1, RootedAssumption DEF PosixInv, PosixTypes, Cleanup, Synced, CommitReturns,
     publishStatus, handle, world, Preparing, Exchanging, Quarantining, Locations, TypeOK
<1>3. PreparedFile' /\ RemovalPublishesNothing' /\ HandleSound' /\ GivenUpSound' /\
      QuarantineSound' /\ ForeignFileKept'
  BY DEF PosixInv, PreparedFile, RemovalPublishesNothing, HandleSound, GivenUpSound,
     QuarantineSound, ForeignFileKept, Cleanup, Synced, Fault, NoFault, CommitReturns,
     publishStatus, handle, world, Preparing, Exchanging, Quarantining, Opened, Slots, DirOf,
     Range
<1>4. StatusSound'
  BY RootedAssumption DEF PosixInv, PosixTypes, HandleSound, StatusSound, Cleanup, Synced,
     Fault, NoFault, CommitReturns, publishStatus, handle, world, Preparing, Exchanging,
     Quarantining, TypeOK, Files, Slots, DirOf
<1>5. AcknowledgedIsDurable'
  BY RootedAssumption DEF PosixInv, PosixTypes, AcknowledgedIsDurable, Cleanup, Synced,
     Fault, NoFault, CommitReturns, publishStatus, handle, world, TypeOK, Files, Slots, DirOf
<1> QED
  BY <1>2, <1>3, <1>4, <1>5 DEF PosixInv

(* Only a file the handle remembers is unlinked, never a published one. *)
LEMMA DiscardPayloadKeeps ==
    ASSUME PosixInv, DiscardPayload
    PROVE  PosixInv'
<1>1. TypeOK'
  <2>1. faults' \in 0 .. MaxFaults
    BY FaultType DEF PosixInv, PosixTypes, DiscardPayload, FailsWhen
  <2>2. /\ entry' \in [Slots -> Files \union {None}]
        /\ crash' \in [Slots -> SUBSET (Files \union {None})]
    BY RootedAssumption DEF PosixInv, PosixTypes, DiscardPayload, names, TypeOK, Files, Slots, DirOf
  <2>3. flushed' \subseteq Files /\ gone' \subseteq Files
    BY DEF PosixInv, PosixTypes, DiscardPayload, names, TypeOK, Files
  <2>4. /\ {present', torn'} \subseteq BOOLEAN
        /\ discarded' \in {"none", "ok", "fail"}
    BY DEF PosixInv, PosixTypes, DiscardPayload, TypeOK
  <2> QED
    BY <2>1, <2>2, <2>3, <2>4 DEF PosixInv, PosixTypes, DiscardPayload, publishStatus, world, TypeOK
<1>2. PosixTypes'
  BY <1>1, RootedAssumption DEF PosixInv, PosixTypes, DiscardPayload, FailsWhen,
     publishStatus, names, world, Preparing, Exchanging, Quarantining, Locations, TypeOK
<1>3. PreparedFile'
  BY RootedAssumption DEF PosixInv, PosixTypes, PreparedFile, HandleSound, StatusSound,
     DiscardPayload, Fault, NoFault, FailsWhen, publishStatus, names, world, TypeOK, Files,
     Slots, DirOf, Preparing, Exchanging, Quarantining
<1>4. RemovalPublishesNothing' /\ HandleSound' /\ QuarantineSound'
  BY DEF PosixInv, RemovalPublishesNothing, HandleSound, QuarantineSound, DiscardPayload,
     Fault, NoFault, FailsWhen, publishStatus, names, world, Preparing, Exchanging,
     Quarantining, Opened
<1>5. StatusSound'
  BY RootedAssumption DEF PosixInv, PosixTypes, StatusSound, DiscardPayload, Fault,
     NoFault, FailsWhen, publishStatus, names, world, Preparing, Exchanging, Quarantining,
     TypeOK, Files, Slots, DirOf
<1>6. GivenUpSound'
  BY RootedAssumption DEF PosixInv, PosixTypes, HandleSound, StatusSound, GivenUpSound,
     DiscardPayload, Fault, NoFault, FailsWhen, publishStatus, names, world, TypeOK, Files,
     Slots, DirOf, Preparing, Exchanging, Quarantining
<1>7. ForeignFileKept'
  BY RootedAssumption DEF PosixInv, PosixTypes, ForeignFileKept, DiscardPayload, Fault,
     NoFault, FailsWhen, publishStatus, names, world, Slots, DirOf, Range, TypeOK, Files
<1>8. AcknowledgedIsDurable'
  BY RootedAssumption DEF PosixInv, PosixTypes, AcknowledgedIsDurable, DiscardPayload,
     Fault, NoFault, FailsWhen, publishStatus, names, world, TypeOK, Files, Slots, DirOf
<1> QED
  BY <1>2, <1>3, <1>4, <1>5, <1>6, <1>7, <1>8 DEF PosixInv

(* Removing the private directory makes a publication durable. *)
LEMMA DiscardDirectoryKeeps ==
    ASSUME PosixInv, DiscardDirectory
    PROVE  PosixInv'
<1>1. TypeOK'
  <2>1. faults' \in 0 .. MaxFaults
    BY FaultType DEF PosixInv, PosixTypes, DiscardDirectory, FailsWhen
  <2>2. /\ entry' \in [Slots -> Files \union {None}]
        /\ crash' \in [Slots -> SUBSET (Files \union {None})]
    BY SyncedType, RootedAssumption DEF PosixInv, PosixTypes, DiscardDirectory, FailsWhen,
       handle, world, TypeOK, Files, Slots, DirOf
  <2>3. flushed' \subseteq Files /\ gone' \subseteq Files
    BY DEF PosixInv, PosixTypes, DiscardDirectory, Synced, NoFault, FailsWhen, Fault,
       handle, world, TypeOK, Files
  <2> QED
    BY <2>1, <2>2, <2>3 DEF PosixInv, PosixTypes, DiscardDirectory, FailsWhen, handle,
       world, TypeOK
<1>2. PosixTypes'
  BY <1>1, RootedAssumption DEF PosixInv, PosixTypes, DiscardDirectory, Synced, FailsWhen,
     handle, world, Preparing, Exchanging, Quarantining, Locations, TypeOK
<1>3. PreparedFile' /\ RemovalPublishesNothing' /\ HandleSound' /\ GivenUpSound' /\
      QuarantineSound' /\ ForeignFileKept'
  BY DEF PosixInv, PreparedFile, RemovalPublishesNothing, HandleSound, GivenUpSound,
     QuarantineSound, ForeignFileKept, DiscardDirectory, Synced, NoFault, FailsWhen, Fault,
     handle, world, Preparing, Exchanging, Quarantining, Opened, Slots, DirOf, Range
<1>4. StatusSound'
  BY RootedAssumption DEF PosixInv, PosixTypes, StatusSound, DiscardDirectory, Synced,
     NoFault, FailsWhen, Fault, handle, world, Preparing, Exchanging, Quarantining, TypeOK,
     Files, Slots, DirOf
<1>5. AcknowledgedIsDurable'
  BY RootedAssumption DEF PosixInv, PosixTypes, AcknowledgedIsDurable, DiscardDirectory,
     Synced, NoFault, FailsWhen, Fault, handle, world, TypeOK, Files, Slots, DirOf
<1> QED
  BY <1>2, <1>3, <1>4, <1>5 DEF PosixInv

(* Success, of a commit or of its reconciliation, is durable. *)
LEMMA ConcludeWriteKeeps ==
    ASSUME PosixInv, ConcludeWrite
    PROVE  PosixInv'
<1>1. TypeOK'
  BY FaultType, RootedAssumption DEF PosixInv, PosixTypes, ConcludeWrite, Reconciles,
     publishStatus, handle, names, world, TypeOK, Files, Slots, DirOf
<1>2. PosixTypes'
  BY <1>1, RootedAssumption DEF PosixInv, PosixTypes, ConcludeWrite, Reconciles,
     publishStatus, handle, names, world, Preparing, Exchanging, Quarantining, Locations,
     TypeOK
<1>3. PreparedFile' /\ RemovalPublishesNothing' /\ HandleSound' /\ StatusSound' /\
      GivenUpSound' /\ QuarantineSound' /\ ForeignFileKept'
  BY DEF PosixInv, PreparedFile, RemovalPublishesNothing, HandleSound, StatusSound,
     GivenUpSound, QuarantineSound, ForeignFileKept, ConcludeWrite, Fault, NoFault,
     Reconciles, publishStatus, handle, names, world, Preparing, Exchanging, Quarantining,
     Opened, Slots, DirOf, Range
<1>4. AcknowledgedIsDurable'
  BY RootedAssumption DEF PosixInv, PosixTypes, HandleSound, StatusSound,
     AcknowledgedIsDurable, ConcludeWrite, Fault, NoFault, Reconciles, publishStatus, handle,
     names, world, TypeOK, Files, Slots, DirOf, Preparing, Exchanging, Quarantining
<1> QED
  BY <1>2, <1>3, <1>4 DEF PosixInv

(* Only a durable copy goes on to the removal of its source. *)
LEMMA ConcludeCopyKeeps ==
    ASSUME PosixInv, ConcludeCopy
    PROVE  PosixInv'
<1>1. TypeOK'
  BY FaultType, RootedAssumption DEF PosixInv, PosixTypes, ConcludeCopy, publishStatus,
     handle, names, world, TypeOK, Files, Slots, DirOf
<1>2. PosixTypes'
  BY <1>1, RootedAssumption DEF PosixInv, PosixTypes, ConcludeCopy, publishStatus, handle,
     names, world, Preparing, Exchanging, Quarantining, Locations, TypeOK
<1>3. PreparedFile'
  BY RootedAssumption DEF PosixInv, PosixTypes, PreparedFile, HandleSound, StatusSound,
     ConcludeCopy, NoFault, publishStatus, handle, names, world, TypeOK, Files, Slots, DirOf,
     Preparing, Exchanging, Quarantining
<1>4. RemovalPublishesNothing' /\ HandleSound' /\ StatusSound' /\ GivenUpSound' /\
      QuarantineSound' /\ ForeignFileKept' /\ AcknowledgedIsDurable'
  BY DEF PosixInv, RemovalPublishesNothing, HandleSound, StatusSound, GivenUpSound,
     QuarantineSound, ForeignFileKept, AcknowledgedIsDurable, ConcludeCopy, NoFault,
     publishStatus, handle, names, world, Preparing, Exchanging, Quarantining, Opened, Slots,
     DirOf, Range
<1> QED
  BY <1>2, <1>3, <1>4 DEF PosixInv

(* An absent target that was expected absent is durably absent. *)
LEMMA OpenRemovedKeeps ==
    ASSUME PosixInv, OpenRemoved
    PROVE  PosixInv'
<1>1. TypeOK'
  BY FaultType, RootedAssumption DEF PosixInv, PosixTypes, OpenRemoved, Synced, FailsWhen,
     publishStatus, handle, world, TypeOK, Files, Slots, DirOf
<1>2. PosixTypes'
  BY <1>1, RootedAssumption DEF PosixInv, PosixTypes, OpenRemoved, Synced, FailsWhen,
     publishStatus, handle, world, Preparing, Exchanging, Quarantining, Locations, TypeOK
<1>3. PreparedFile' /\ RemovalPublishesNothing' /\ HandleSound' /\ GivenUpSound' /\
      ForeignFileKept'
  BY DEF PosixInv, PreparedFile, RemovalPublishesNothing, HandleSound, GivenUpSound,
     ForeignFileKept, OpenRemoved, Synced, NoFault, FailsWhen, Fault, publishStatus, handle,
     world, Preparing, Exchanging, Quarantining, Slots, DirOf, Range
<1>4. StatusSound'
  BY RootedAssumption DEF PosixInv, PosixTypes, PreparedFile, RemovalPublishesNothing,
     HandleSound, StatusSound, GivenUpSound, QuarantineSound, ForeignFileKept,
     AcknowledgedIsDurable, OpenRemoved, Synced, NoFault, FailsWhen, Fault, publishStatus,
     handle, world, Preparing, Exchanging, Quarantining, TypeOK, Files, Slots, DirOf
<1>5. QuarantineSound'
  BY RootedAssumption DEF PosixInv, PosixTypes, PreparedFile, RemovalPublishesNothing,
     HandleSound, StatusSound, GivenUpSound, QuarantineSound, ForeignFileKept,
     AcknowledgedIsDurable, OpenRemoved, Synced, NoFault, FailsWhen, Fault, publishStatus,
     handle, world, Preparing, Exchanging, Quarantining, Opened, TypeOK, Files, Slots, DirOf
<1>6. AcknowledgedIsDurable'
  BY RootedAssumption DEF PosixInv, PosixTypes, PreparedFile, RemovalPublishesNothing,
     HandleSound, StatusSound, GivenUpSound, QuarantineSound, ForeignFileKept,
     AcknowledgedIsDurable, OpenRemoved, Synced, NoFault, FailsWhen, Fault, publishStatus,
     handle, world, TypeOK, Files, Slots, DirOf, Preparing, Exchanging, Quarantining
<1> QED
  BY <1>2, <1>3, <1>4, <1>5, <1>6 DEF PosixInv

(* The removed name is empty, and its file is quarantined, not lost. *)
LEMMA QuarantineKeeps ==
    ASSUME PosixInv, Quarantine
    PROVE  PosixInv'
<1>1. TypeOK'
  <2>1. faults' \in 0 .. MaxFaults
    BY FaultType DEF PosixInv, PosixTypes, Quarantine, FailsWhen
  <2>2. /\ entry' \in [Slots -> Files \union {None}]
        /\ crash' \in [Slots -> SUBSET (Files \union {None})]
    BY NowType, RootedAssumption DEF PosixInv, PosixTypes, Quarantine, Renamed, CanRename,
       FailsWhen, Removed, QuarantineReturns, quarantineFrame, publishStatus, handle, results,
       TypeOK, Files, Slots, DirOf
  <2>3. flushed' \subseteq Files /\ gone' \subseteq Files
    BY DEF PosixInv, PosixTypes, Quarantine, Now, Renamed, CanRename, NoFault, FailsWhen,
       Fault, Removed, QuarantineReturns, quarantineFrame, publishStatus, handle, results,
       TypeOK, Files
  <2>4. {touched', torn'} \subseteq BOOLEAN /\ outcome' \in {"running", "ok", "fail"}
    BY DEF PosixInv, PosixTypes, Quarantine, QuarantineReturns, results, TypeOK
  <2> QED
    BY <2>1, <2>2, <2>3, <2>4 DEF PosixInv, PosixTypes, Quarantine, Removed,
       QuarantineReturns, quarantineFrame, publishStatus, handle, results, TypeOK
<1>2. PosixTypes'
  <2>1. pc' \in Locations /\ (pc' = "done" <=> outcome' # "running")
    BY DEF PosixInv, PosixTypes, Quarantine, quarantineFrame, QuarantineReturns, results,
       Quarantining, Locations, TypeOK
  <2>2. touched' => foreign' # 0
    BY DEF PosixInv, PosixTypes, Quarantine, quarantineFrame
  <2> QED
    BY <1>1, <2>1, <2>2 DEF PosixTypes
<1>3. PreparedFile'
  BY RootedAssumption DEF PosixInv, PosixTypes, PreparedFile, RemovalPublishesNothing,
     HandleSound, StatusSound, GivenUpSound, QuarantineSound, ForeignFileKept,
     AcknowledgedIsDurable, Quarantine, Now, Renamed, CanRename, NoFault, FailsWhen, Fault,
     Removed, QuarantineReturns, quarantineFrame, publishStatus, handle, results, TypeOK,
     Files, Slots, DirOf, Preparing, Exchanging, Quarantining
<1>4. RemovalPublishesNothing'
  BY RootedAssumption DEF PosixInv, PosixTypes, RemovalPublishesNothing, HandleSound,
     StatusSound, Quarantine, Now, Renamed, CanRename, NoFault, FailsWhen, Fault, Removed,
     QuarantineReturns, quarantineFrame, publishStatus, handle, results, Preparing,
     Exchanging, Quarantining, TypeOK, Files, Slots, DirOf
<1>5. HandleSound' /\ GivenUpSound'
  BY DEF PosixInv, HandleSound, GivenUpSound, Quarantine, Now, Renamed, CanRename, NoFault,
     FailsWhen, Fault, Removed, QuarantineReturns, quarantineFrame, publishStatus, handle,
     results, Preparing, Exchanging, Quarantining
<1>6. StatusSound'
  BY RootedAssumption DEF PosixInv, PosixTypes, PreparedFile, RemovalPublishesNothing,
     HandleSound, StatusSound, GivenUpSound, QuarantineSound, ForeignFileKept,
     AcknowledgedIsDurable, Quarantine, Now, Renamed, CanRename, NoFault, FailsWhen, Fault,
     Removed, QuarantineReturns, quarantineFrame, publishStatus, handle, results, Preparing,
     Exchanging, Quarantining, TypeOK, Files, Slots, DirOf
<1>7. QuarantineSound'
  BY RootedAssumption DEF PosixInv, PosixTypes, QuarantineSound, Quarantine, Now, Renamed,
     CanRename, NoFault, FailsWhen, Fault, Removed, QuarantineReturns, quarantineFrame,
     publishStatus, handle, results, Preparing, Exchanging, Quarantining, Opened, TypeOK,
     Files, Slots, DirOf
<1>8. ForeignFileKept'
  <2>1. CASE UNCHANGED entry
    BY <2>1 DEF PosixInv, ForeignFileKept, Quarantine, quarantineFrame, Range
  <2>2. CASE CanRename(Removed, "quarantine") /\ entry' = Renamed(Removed, "quarantine")
    <3>1. Removed \in Slots /\ Removed # "quarantine" /\ "quarantine" \in Slots
      BY DEF Removed, Slots, DirOf
    <3>2. entry \in [Slots -> Files \union {None}]
      BY DEF PosixInv, PosixTypes, TypeOK
    <3>3. \A s \in Slots : entry[s] = "alien" => entry'[s] = "alien" \/ entry'["quarantine"] = "alien"
      BY <2>2, <3>1, <3>2, RootedAssumption DEF CanRename, Renamed
    <3>4. DOMAIN entry = Slots /\ DOMAIN entry' = Slots
      BY <2>2, <3>2 DEF Renamed
    <3> QED
      BY <3>1, <3>3, <3>4 DEF PosixInv, ForeignFileKept, Quarantine, quarantineFrame, Range
  <2> QED
    BY <2>1, <2>2 DEF Quarantine, Now
<1>9. AcknowledgedIsDurable'
  BY RootedAssumption DEF PosixInv, PosixTypes, AcknowledgedIsDurable, Quarantine, Now,
     Renamed, CanRename, NoFault, FailsWhen, Fault, Removed, QuarantineReturns,
     quarantineFrame, publishStatus, handle, results, TypeOK, Files, Slots, DirOf
<1> QED
  BY <1>2, <1>3, <1>4, <1>5, <1>6, <1>7, <1>8, <1>9 DEF PosixInv

(* The two directories are synchronised; no file moves. *)
LEMMA SyncQuarantinedKeeps ==
    ASSUME PosixInv, SyncQuarantined
    PROVE  PosixInv'
<1>1. TypeOK'
  <2>1. faults' \in 0 .. MaxFaults
    BY FaultType DEF PosixInv, PosixTypes, SyncQuarantined
  <2>2. /\ entry' \in [Slots -> Files \union {None}]
        /\ crash' \in [Slots -> SUBSET (Files \union {None})]
    BY SyncedType, RootedAssumption DEF PosixInv, PosixTypes, SyncQuarantined,
       QuarantineReturns, quarantineFrame, publishStatus, handle, results, TypeOK, Files,
       Slots, DirOf
  <2>3. flushed' \subseteq Files /\ gone' \subseteq Files
    BY DEF PosixInv, PosixTypes, SyncQuarantined, Synced, Fault, NoFault,
       QuarantineReturns, quarantineFrame, publishStatus, handle, results, TypeOK, Files
  <2> QED
    BY <2>1, <2>2, <2>3 DEF PosixInv, PosixTypes, SyncQuarantined, QuarantineReturns,
       quarantineFrame, publishStatus, handle, results, TypeOK
<1>2. PosixTypes'
  BY <1>1, RootedAssumption DEF PosixInv, PosixTypes, SyncQuarantined, Synced,
     QuarantineReturns, quarantineFrame, publishStatus, handle, results, Preparing,
     Exchanging, Quarantining, Locations, TypeOK
<1>3. PreparedFile' /\ RemovalPublishesNothing' /\ HandleSound' /\ GivenUpSound' /\
      QuarantineSound' /\ ForeignFileKept'
  BY DEF PosixInv, PreparedFile, RemovalPublishesNothing, HandleSound, GivenUpSound,
     QuarantineSound, ForeignFileKept, SyncQuarantined, Synced, Fault, NoFault,
     QuarantineReturns, quarantineFrame, publishStatus, handle, results, Preparing,
     Exchanging, Quarantining, Opened, Slots, DirOf, Range
<1>4. StatusSound'
  BY RootedAssumption DEF PosixInv, PosixTypes, StatusSound, SyncQuarantined, Synced,
     Fault, NoFault, QuarantineReturns, quarantineFrame, publishStatus, handle, results,
     Preparing, Exchanging, Quarantining, TypeOK, Files, Slots, DirOf
<1>5. AcknowledgedIsDurable'
  BY RootedAssumption DEF PosixInv, PosixTypes, AcknowledgedIsDurable, SyncQuarantined,
     Synced, Fault, NoFault, QuarantineReturns, quarantineFrame, publishStatus, handle,
     results, TypeOK, Files, Slots, DirOf
<1> QED
  BY <1>2, <1>3, <1>4, <1>5 DEF PosixInv

(* Only the opened file goes on to be unlinked. *)
LEMMA VerifyQuarantinedKeeps ==
    ASSUME PosixInv, VerifyQuarantined
    PROVE  PosixInv'
<1>1. TypeOK'
  BY FaultType, RootedAssumption DEF PosixInv, PosixTypes, VerifyQuarantined, FailsWhen,
     Opened, quarantineFrame, publishStatus, handle, names, results, TypeOK, Files, Slots,
     DirOf
<1>2. PosixTypes'
  BY <1>1, RootedAssumption DEF PosixInv, PosixTypes, VerifyQuarantined, FailsWhen, Opened,
     quarantineFrame, publishStatus, handle, names, results, Preparing, Exchanging,
     Quarantining, Locations, TypeOK
<1>3. PreparedFile' /\ RemovalPublishesNothing' /\ HandleSound' /\ StatusSound' /\
      GivenUpSound' /\ QuarantineSound' /\ ForeignFileKept' /\ AcknowledgedIsDurable'
  BY DEF PosixInv, PreparedFile, RemovalPublishesNothing, HandleSound, StatusSound,
     GivenUpSound, QuarantineSound, ForeignFileKept, AcknowledgedIsDurable, VerifyQuarantined,
     NoFault, FailsWhen, Fault, Opened, quarantineFrame, publishStatus, handle, names,
     results, Preparing, Exchanging, Quarantining, Slots, DirOf, Range
<1> QED
  BY <1>2, <1>3 DEF PosixInv

(* The quarantined file that is unlinked is the opened one. *)
LEMMA RemoveQuarantinedKeeps ==
    ASSUME PosixInv, RemoveQuarantined
    PROVE  PosixInv'
<1>1. TypeOK'
  <2>1. faults' \in 0 .. MaxFaults
    BY FaultType DEF PosixInv, PosixTypes, RemoveQuarantined
  <2>2. /\ entry' \in [Slots -> Files \union {None}]
        /\ crash' \in [Slots -> SUBSET (Files \union {None})]
    BY RootedAssumption DEF PosixInv, PosixTypes, RemoveQuarantined, QuarantineReturns,
       quarantineFrame, publishStatus, handle, names, results, TypeOK, Files, Slots, DirOf
  <2>3. flushed' \subseteq Files /\ gone' \subseteq Files
    BY DEF PosixInv, PosixTypes, QuarantineSound, Opened, RemoveQuarantined, Fault,
       NoFault, QuarantineReturns, quarantineFrame, publishStatus, handle, names, results,
       TypeOK, Files
  <2>4. {touched', torn'} \subseteq BOOLEAN /\ outcome' \in {"running", "ok", "fail"}
    BY DEF PosixInv, PosixTypes, RemoveQuarantined, QuarantineReturns, results, TypeOK
  <2> QED
    BY <2>1, <2>2, <2>3, <2>4 DEF PosixInv, PosixTypes, RemoveQuarantined,
       QuarantineReturns, quarantineFrame, publishStatus, handle, names, results, TypeOK
<1>2. PosixTypes'
  BY <1>1, RootedAssumption DEF PosixInv, PosixTypes, RemoveQuarantined, QuarantineReturns,
     quarantineFrame, publishStatus, handle, names, results, Preparing, Exchanging,
     Quarantining, Locations, TypeOK
<1>3. PreparedFile'
  BY RootedAssumption DEF PosixInv, PosixTypes, PreparedFile, RemoveQuarantined, Fault,
     NoFault, QuarantineReturns, quarantineFrame, publishStatus, handle, names, results,
     Opened, TypeOK, Files, Slots, DirOf
<1>4. RemovalPublishesNothing'
  BY RootedAssumption DEF PosixInv, PosixTypes, PreparedFile, RemovalPublishesNothing,
     HandleSound, StatusSound, GivenUpSound, QuarantineSound, ForeignFileKept,
     AcknowledgedIsDurable, RemoveQuarantined, Fault, NoFault, QuarantineReturns,
     quarantineFrame, publishStatus, handle, names, results, Opened, Preparing, Exchanging,
     Quarantining, TypeOK, Files, Slots, DirOf
<1>5. HandleSound'
  BY DEF PosixInv, HandleSound, RemoveQuarantined, Fault, NoFault, QuarantineReturns,
     quarantineFrame, publishStatus, handle, names, results, Opened, Preparing, Exchanging,
     Quarantining
<1>6. StatusSound'
  BY RootedAssumption DEF PosixInv, PosixTypes, StatusSound, RemoveQuarantined, Fault,
     NoFault, QuarantineReturns, quarantineFrame, publishStatus, handle, names, results,
     Opened, Preparing, Exchanging, Quarantining, TypeOK, Files, Slots, DirOf
<1>7. GivenUpSound'
  BY RootedAssumption DEF PosixInv, PosixTypes, PreparedFile, RemovalPublishesNothing,
     HandleSound, StatusSound, GivenUpSound, QuarantineSound, ForeignFileKept,
     AcknowledgedIsDurable, RemoveQuarantined, Fault, NoFault, QuarantineReturns,
     quarantineFrame, publishStatus, handle, names, results, Opened, TypeOK, Files, Slots,
     DirOf, Preparing, Exchanging, Quarantining
<1>8. QuarantineSound'
  BY RootedAssumption DEF PosixInv, PosixTypes, QuarantineSound, RemoveQuarantined, Fault,
     NoFault, QuarantineReturns, quarantineFrame, publishStatus, handle, names, results,
     Preparing, Exchanging, Quarantining, Opened, TypeOK, Files, Slots, DirOf
<1>9. ForeignFileKept'
  BY RootedAssumption DEF PosixInv, PosixTypes, PreparedFile, RemovalPublishesNothing,
     HandleSound, StatusSound, GivenUpSound, QuarantineSound, ForeignFileKept,
     AcknowledgedIsDurable, RemoveQuarantined, Fault, NoFault, QuarantineReturns,
     quarantineFrame, publishStatus, handle, names, results, Opened, Slots, DirOf, Range,
     TypeOK, Files, Preparing, Exchanging, Quarantining
<1>10. AcknowledgedIsDurable'
  BY RootedAssumption DEF PosixInv, PosixTypes, AcknowledgedIsDurable, RemoveQuarantined,
     Fault, NoFault, QuarantineReturns, quarantineFrame, publishStatus, handle, names,
     results, Opened, TypeOK, Files, Slots, DirOf
<1> QED
  BY <1>2, <1>3, <1>4, <1>5, <1>6, <1>7, <1>8, <1>9, <1>10 DEF PosixInv

(* A file that is not the opened one returns to its name. *)
LEMMA RestoreKeeps ==
    ASSUME PosixInv, Restore
    PROVE  PosixInv'
<1>1. TypeOK'
  BY FaultType, RootedAssumption DEF PosixInv, PosixTypes, Restore, Now, Renamed,
     CanRename, FailsWhen, Removed, QuarantineReturns, quarantineFrame, publishStatus, handle,
     TypeOK, Files, Slots, DirOf
<1>2. PosixTypes'
  BY <1>1, RootedAssumption DEF PosixInv, PosixTypes, Restore, Now, Renamed, CanRename,
     FailsWhen, Removed, QuarantineReturns, quarantineFrame, publishStatus, handle, Preparing,
     Exchanging, Quarantining, Locations, TypeOK
<1>3. PreparedFile'
  BY RootedAssumption DEF PosixInv, PosixTypes, PreparedFile, Restore, Now, Renamed,
     CanRename, NoFault, FailsWhen, Fault, Removed, QuarantineReturns, quarantineFrame,
     publishStatus, handle, TypeOK, Files, Slots, DirOf
<1>4. RemovalPublishesNothing'
  BY RootedAssumption DEF PosixInv, PosixTypes, PreparedFile, RemovalPublishesNothing,
     HandleSound, StatusSound, GivenUpSound, QuarantineSound, ForeignFileKept,
     AcknowledgedIsDurable, Restore, Now, Renamed, CanRename, NoFault, FailsWhen, Fault,
     Removed, QuarantineReturns, quarantineFrame, publishStatus, handle, Preparing,
     Exchanging, Quarantining, TypeOK, Files, Slots, DirOf
<1>5. HandleSound' /\ GivenUpSound' /\ QuarantineSound' /\ AcknowledgedIsDurable'
  BY DEF PosixInv, HandleSound, GivenUpSound, QuarantineSound, AcknowledgedIsDurable,
     Restore, Now, Renamed, CanRename, NoFault, FailsWhen, Fault, Removed, QuarantineReturns,
     quarantineFrame, publishStatus, handle, Preparing, Exchanging, Quarantining, Opened
<1>6. StatusSound'
  BY RootedAssumption DEF PosixInv, PosixTypes, StatusSound, Restore, Now, Renamed,
     CanRename, NoFault, FailsWhen, Fault, Removed, QuarantineReturns, quarantineFrame,
     publishStatus, handle, Preparing, Exchanging, Quarantining, TypeOK, Files, Slots, DirOf
<1>7. ForeignFileKept'
  BY RootedAssumption DEF PosixInv, PosixTypes, ForeignFileKept, Restore, Now, Renamed,
     CanRename, NoFault, FailsWhen, Fault, Removed, QuarantineReturns, quarantineFrame,
     publishStatus, handle, Slots, DirOf, Range, TypeOK, Files
<1> QED
  BY <1>2, <1>3, <1>4, <1>5, <1>6, <1>7 DEF PosixInv

(* A removal that succeeds leaves a durably absent target. *)
LEMMA CleanQuarantineKeeps ==
    ASSUME PosixInv, CleanQuarantine
    PROVE  PosixInv'
<1>1. TypeOK'
  <2>1. faults' \in 0 .. MaxFaults
    BY FaultType DEF PosixInv, PosixTypes, CleanQuarantine
  <2>2. /\ entry' \in [Slots -> Files \union {None}]
        /\ crash' \in [Slots -> SUBSET (Files \union {None})]
    BY SyncedType, RootedAssumption DEF PosixInv, PosixTypes, CleanQuarantine,
       quarantineFrame, publishStatus, handle, TypeOK, Files, Slots, DirOf
  <2>3. flushed' \subseteq Files /\ gone' \subseteq Files
    BY DEF PosixInv, PosixTypes, CleanQuarantine, Synced, Fault, NoFault, quarantineFrame,
       publishStatus, handle, TypeOK, Files
  <2> QED
    BY <2>1, <2>2, <2>3 DEF PosixInv, PosixTypes, CleanQuarantine, quarantineFrame,
       publishStatus, handle, TypeOK
<1>2. PosixTypes'
  BY <1>1, RootedAssumption DEF PosixInv, PosixTypes, CleanQuarantine, Synced,
     quarantineFrame, publishStatus, handle, Preparing, Exchanging, Quarantining, Locations,
     TypeOK
<1>3. PreparedFile' /\ RemovalPublishesNothing' /\ HandleSound' /\ GivenUpSound' /\
      QuarantineSound' /\ ForeignFileKept'
  BY DEF PosixInv, PreparedFile, RemovalPublishesNothing, HandleSound, GivenUpSound,
     QuarantineSound, ForeignFileKept, CleanQuarantine, Synced, Fault, NoFault,
     quarantineFrame, publishStatus, handle, Preparing, Exchanging, Quarantining, Opened,
     Slots, DirOf, Range
<1>4. StatusSound'
  BY RootedAssumption DEF PosixInv, PosixTypes, StatusSound, CleanQuarantine, Synced,
     Fault, NoFault, quarantineFrame, publishStatus, handle, Preparing, Exchanging,
     Quarantining, TypeOK, Files, Slots, DirOf
<1>5. AcknowledgedIsDurable'
  BY RootedAssumption DEF PosixInv, PosixTypes, PreparedFile, RemovalPublishesNothing,
     HandleSound, StatusSound, GivenUpSound, QuarantineSound, ForeignFileKept,
     AcknowledgedIsDurable, CleanQuarantine, Synced, Fault, NoFault, quarantineFrame,
     publishStatus, handle, TypeOK, Files, Slots, DirOf, Preparing, Exchanging, Quarantining
<1> QED
  BY <1>2, <1>3, <1>4, <1>5 DEF PosixInv

(* The other program changes the target and nothing else. *)
LEMMA ForeignKeeps ==
    ASSUME PosixInv, Foreign
    PROVE  PosixInv'
<1>1. TypeOK'
  <2>1. /\ entry' \in [Slots -> Files \union {None}]
        /\ crash' \in [Slots -> SUBSET (Files \union {None})]
    BY NowType DEF PosixInv, PosixTypes, Foreign, TypeOK, Files, Slots, DirOf
  <2>2. foreign' \in 0 .. MaxForeign /\ faults' \in 0 .. MaxFaults
    BY RootedAssumption DEF PosixInv, PosixTypes, Foreign, failures, TypeOK
  <2>3. alien' \in {"none", "live", "removed"} /\ {touched', torn'} \subseteq BOOLEAN
    BY DEF PosixInv, PosixTypes, Foreign, failures, TypeOK
  <2> QED
    BY <2>1, <2>2, <2>3 DEF PosixInv, PosixTypes, Foreign, TypeOK, publishStatus, handle, results, failures
<1>2. PosixTypes'
  BY <1>1, RootedAssumption DEF PosixInv, PosixTypes, Foreign, Now, publishStatus, handle,
     results, failures, Preparing, Exchanging, Quarantining, Locations, TypeOK
<1>3. PreparedFile'
  BY RootedAssumption DEF PosixInv, PosixTypes, PreparedFile, Foreign, Now, publishStatus,
     handle, results, failures, TypeOK, Files, Slots, DirOf
<1>4. RemovalPublishesNothing'
  BY RootedAssumption DEF PosixInv, PosixTypes, RemovalPublishesNothing, Foreign, Now,
     publishStatus, handle, results, failures, Preparing, Exchanging, Quarantining, TypeOK,
     Files, Slots, DirOf
<1>5. HandleSound'
  BY RootedAssumption DEF PosixInv, PosixTypes, HandleSound, Foreign, Now, publishStatus,
     handle, results, failures, Preparing, Exchanging, Quarantining, TypeOK, Files, Slots,
     DirOf
<1>6. StatusSound'
  BY RootedAssumption DEF PosixInv, PosixTypes, StatusSound, Foreign, Now, publishStatus,
     handle, results, failures, Preparing, Exchanging, Quarantining, TypeOK, Files, Slots,
     DirOf
<1>7. GivenUpSound' /\ AcknowledgedIsDurable'
  BY DEF PosixInv, GivenUpSound, AcknowledgedIsDurable, Foreign, Now, publishStatus,
     handle, results, failures
<1>8. QuarantineSound'
  BY RootedAssumption DEF PosixInv, PosixTypes, QuarantineSound, Foreign, Now,
     publishStatus, handle, results, failures, Preparing, Exchanging, Quarantining, Opened,
     TypeOK, Files, Slots, DirOf
<1>9. ForeignFileKept'
  BY RootedAssumption DEF PosixInv, PosixTypes, ForeignFileKept, Foreign, Now,
     publishStatus, handle, results, failures, Slots, DirOf, Range, TypeOK, Files
<1> QED
  BY <1>2, <1>3, <1>4, <1>5, <1>6, <1>7, <1>8, <1>9 DEF PosixInv

(* Before the first call nothing is published, gone or foreign. *)
LEMMA PosixStarts ==
    ASSUME Init
    PROVE  PosixInv
<1>1. TypeOK
  <2>1. entry \in [Slots -> Files \union {None}]
    BY DEF Init, Files, Slots, DirOf
  <2>2. crash \in [Slots -> SUBSET (Files \union {None})]
    BY <2>1 DEF Init
  <2>3. {durable, reconcilable, present, touched, torn} \subseteq BOOLEAN
    BY DEF Init
  <2>4. foreign \in 0 .. MaxForeign /\ faults \in 0 .. MaxFaults
    BY RootedAssumption DEF Init
  <2> QED
    BY <2>1, <2>2, <2>3, <2>4 DEF Init, TypeOK, Files
<1>2. PosixTypes
  BY <1>1 DEF Init, PosixTypes, Locations, Preparing
<1>3. PreparedFile /\ RemovalPublishesNothing
  BY RootedAssumption DEF Init, PreparedFile, RemovalPublishesNothing, Preparing, Exchanging
<1>4. HandleSound /\ StatusSound
  BY RootedAssumption DEF Init, HandleSound, StatusSound, Preparing, Exchanging, Quarantining
<1>5. GivenUpSound /\ QuarantineSound /\ ForeignFileKept /\ AcknowledgedIsDurable
  BY DEF Init, GivenUpSound, QuarantineSound, ForeignFileKept, AcknowledgedIsDurable, Quarantining
<1> QED
  BY <1>2, <1>3, <1>4, <1>5 DEF PosixInv

(* Every step of a call and of the other program keeps the invariant. *)
LEMMA PosixStepKeeps ==
    ASSUME PosixInv, Next
    PROVE  PosixInv'
BY CreateNamespaceKeeps, CreatePayloadKeeps, FillPayloadKeeps, FlushKeeps, CheckKeeps,
   PublishKeeps, PublishRefusedKeeps, SyncPublishedKeeps, VerifyKeeps, ReverseKeeps,
   ReverseFailsKeeps, SyncReversedKeeps, RemoveOldKeeps, RemoveOldFailsKeeps, CleanupKeeps,
   DiscardPayloadKeeps, DiscardDirectoryKeeps, ConcludeWriteKeeps, ConcludeCopyKeeps,
   OpenRemovedKeeps, QuarantineKeeps, SyncQuarantinedKeeps, VerifyQuarantinedKeeps,
   RemoveQuarantinedKeeps, RestoreKeeps, CleanQuarantineKeeps, ForeignKeeps DEF Next, Operation

(* The invariant implies what the callers rely on. *)
LEMMA PosixPromises ==
    ASSUME PosixInv
    PROVE  /\ TypeOK /\ AcknowledgedIsDurable /\ StatusTruthful /\ GivenUpOnlyWhenDurable
           /\ ForeignFileKept /\ PublishedNeverDiscarded
<1>1. StatusTruthful
  BY DEF PosixInv, PosixTypes, TypeOK, RemovalPublishesNothing, StatusSound, StatusTruthful
<1>2. GivenUpOnlyWhenDurable
  BY DEF PosixInv, StatusSound, GivenUpSound, GivenUpOnlyWhenDurable
<1>3. PublishedNeverDiscarded
  BY DEF PosixInv, PreparedFile, PublishedNeverDiscarded
<1> QED
  BY <1>1, <1>2, <1>3 DEF PosixInv, PosixTypes

-----------------------------------------------------------------------------
(* Windows: the inductive invariant. *)

Comparing == {"exclusive", "guard", "acl", "replace"}
Replacing == {"create", "flush", "parents", "install"} \union Comparing
Published == {"displaced", "named", "close", "flushDirectory"}
Removing == {"open", "quarantine", "flushQuarantined", "delete"}

WindowsTypes ==
    /\ Windows!TypeOK
    /\ pc \in Replacing \union Published \union Removing \union {"discard", "conclude", "done"}
    /\ pc = "done" <=> outcome # "running"
    /\ touched => foreign # 0
    /\ pc \in Removing <=> call = "remove" /\ pc # "done"
    /\ pc \in {"discard", "conclude"} => committed # "none" /\ call = "write"
    /\ pc = "install" => expect = None
    /\ pc \in Comparing \union {"displaced", "named", "close"} => expect = "old"

(* Nothing is published before the rename, and a file that is deleted with *)
(* its handle is not published.                                            *)
WindowsUnpublished ==
    /\ pc \in Replacing => pub = "NotPublished" /\ committed = "none"
    /\ call = "remove" => pub = "NotPublished" /\ committed = "none"
    /\ pc \in Published => pub = "Published" /\ committed = "none" /\ ~durable
    /\ pub = "NotPublished" => target # "new"
    /\ pc \in Replacing => "new" \notin gone
    /\ deleteOnDestroy => pub = "NotPublished"
    /\ pub # "NotPublished" \/ pc \in Replacing \ {"create", "flush"} => flushed

(* What publishStatus() says of the target. *)
WindowsStatus ==
    /\ pub = "NotPublished" /\ foreign = 0 /\ call # "remove" => target = expect
    /\ pub # "NotPublished" /\ ~touched => target = "new"
    /\ pub # "NotPublished" /\ durable /\ ~touched => crash = {"new"}
    /\ committed = "ok" => pub = "Published" /\ durable

(* The file that went is the one the caller expected, or the call fails    *)
(* without a claim that it can be reconciled; the other program's file is  *)
(* at the target of a rename only if it came after the comparison.         *)
WindowsDisplaced ==
    /\ /\ expect = "old"
       /\ \/ pc \in {"named", "close", "flushDirectory"} \/ reconcilable
          \/ committed = "ok" \/ outcome = "ok"
       => "old" \in gone
    /\ pc \in {"acl", "replace"} /\ target = "alien" => placed \in {"acl", "replace"}
    /\ call = "remove" /\ pc \in {"flushQuarantined", "delete"} /\ ~touched => target = None
    /\ pc = "quarantine" /\ call = "remove" => expect = "old"

WindowsInv ==
    /\ WindowsTypes /\ WindowsUnpublished /\ WindowsStatus /\ WindowsDisplaced
    /\ Windows!AcknowledgedIsDurable /\ Windows!StaleExpectationNotApplied
    /\ Windows!PublishedNeverDiscarded

(* A failing call counts at most up to its bound. *)
LEMMA WindowsFaultType ==
    ASSUME Windows!TypeOK, Windows!Fault \/ Windows!NoFault
    PROVE  faults' \in 0 .. MaxFaults
BY RootedAssumption DEF Windows!TypeOK, Windows!Fault, Windows!NoFault

(* The temporary file is deleted with its handle until it is published. *)
LEMMA WindowsCreateKeeps ==
    ASSUME WindowsInv, Windows!Create
    PROVE  WindowsInv'
<1>1. Windows!TypeOK'
  BY WindowsFaultType, RootedAssumption DEF WindowsInv, WindowsTypes, Windows!Create,
     Windows!Goes, Windows!results, Windows!publishStatus, Windows!names, Windows!world,
     Windows!input, Windows!TypeOK, Windows!Files
<1>2. WindowsTypes'
  BY <1>1, RootedAssumption DEF WindowsInv, WindowsTypes, Windows!TypeOK, Windows!Create,
     Windows!Goes, Windows!results, Windows!publishStatus, Windows!names, Windows!world,
     Windows!input, Comparing, Replacing, Published, Removing
<1>3. WindowsUnpublished'
  BY RootedAssumption DEF WindowsInv, WindowsTypes, WindowsUnpublished, WindowsStatus,
     WindowsDisplaced, Windows!AcknowledgedIsDurable, Windows!StaleExpectationNotApplied,
     Windows!PublishedNeverDiscarded, Windows!Create, Windows!Fault, Windows!NoFault,
     Windows!Goes, Windows!results, Windows!publishStatus, Windows!names, Windows!world,
     Windows!input, Comparing, Replacing, Published, Removing, Windows!TypeOK, Windows!Files
<1>4. WindowsStatus' /\ WindowsDisplaced' /\ Windows!AcknowledgedIsDurable' /\
      Windows!StaleExpectationNotApplied' /\ Windows!PublishedNeverDiscarded'
  BY DEF WindowsInv, WindowsStatus, WindowsDisplaced, Windows!AcknowledgedIsDurable,
     Windows!StaleExpectationNotApplied, Windows!PublishedNeverDiscarded, Windows!Create,
     Windows!Fault, Windows!NoFault, Windows!Goes, Windows!results, Windows!publishStatus,
     Windows!names, Windows!world, Windows!input, Comparing, Replacing, Published, Removing
<1> QED
  BY <1>2, <1>3, <1>4 DEF WindowsInv

(* From here on the prepared file's contents are on the disk. *)
LEMMA WindowsFlushKeeps ==
    ASSUME WindowsInv, Windows!Flush
    PROVE  WindowsInv'
<1>1. Windows!TypeOK'
  BY WindowsFaultType, RootedAssumption DEF WindowsInv, WindowsTypes, Windows!Flush,
     Windows!CommitReturns, Windows!Goes, Windows!results, Windows!publishStatus,
     Windows!names, Windows!world, Windows!input, Windows!TypeOK, Windows!Files
<1>2. WindowsTypes'
  BY <1>1, RootedAssumption DEF WindowsInv, WindowsTypes, Windows!TypeOK, Windows!Flush,
     Windows!CommitReturns, Windows!Goes, Windows!results, Windows!publishStatus,
     Windows!names, Windows!world, Windows!input, Comparing, Replacing, Published, Removing
<1>3. WindowsUnpublished'
  BY RootedAssumption DEF WindowsInv, WindowsTypes, WindowsUnpublished, Windows!Flush,
     Windows!Fault, Windows!NoFault, Windows!CommitReturns, Windows!Goes, Windows!results,
     Windows!publishStatus, Windows!names, Windows!world, Windows!input, Comparing, Replacing,
     Published, Removing, Windows!TypeOK, Windows!Files
<1>4. WindowsStatus' /\ WindowsDisplaced' /\ Windows!AcknowledgedIsDurable' /\
      Windows!StaleExpectationNotApplied' /\ Windows!PublishedNeverDiscarded'
  BY DEF WindowsInv, WindowsStatus, WindowsDisplaced, Windows!AcknowledgedIsDurable,
     Windows!StaleExpectationNotApplied, Windows!PublishedNeverDiscarded, Windows!Flush,
     Windows!Fault, Windows!NoFault, Windows!CommitReturns, Windows!Goes, Windows!results,
     Windows!publishStatus, Windows!names, Windows!world, Windows!input, Comparing, Replacing,
     Published, Removing
<1> QED
  BY <1>2, <1>3, <1>4 DEF WindowsInv

(* The expectation decides which rename is used. *)
LEMMA WindowsCompareParentsKeeps ==
    ASSUME WindowsInv, Windows!CompareParents
    PROVE  WindowsInv'
<1>1. Windows!TypeOK'
  BY WindowsFaultType, RootedAssumption DEF WindowsInv, WindowsTypes,
     Windows!CompareParents, Windows!CommitReturns, Windows!Goes, Windows!results,
     Windows!publishStatus, Windows!names, Windows!world, Windows!input, Windows!TypeOK,
     Windows!Files
<1>2. WindowsTypes'
  BY <1>1, RootedAssumption DEF WindowsInv, WindowsTypes, Windows!TypeOK,
     Windows!CompareParents, Windows!CommitReturns, Windows!Goes, Windows!results,
     Windows!publishStatus, Windows!names, Windows!world, Windows!input, Comparing, Replacing,
     Published, Removing
<1>3. WindowsUnpublished'
  BY RootedAssumption DEF WindowsInv, WindowsTypes, WindowsUnpublished,
     Windows!CompareParents, Windows!Fault, Windows!NoFault, Windows!CommitReturns,
     Windows!Goes, Windows!results, Windows!publishStatus, Windows!names, Windows!world,
     Windows!input, Comparing, Replacing, Published, Removing, Windows!TypeOK, Windows!Files
<1>4. WindowsStatus' /\ WindowsDisplaced' /\ Windows!AcknowledgedIsDurable' /\
      Windows!StaleExpectationNotApplied' /\ Windows!PublishedNeverDiscarded'
  BY DEF WindowsInv, WindowsStatus, WindowsDisplaced, Windows!AcknowledgedIsDurable,
     Windows!StaleExpectationNotApplied, Windows!PublishedNeverDiscarded,
     Windows!CompareParents, Windows!Fault, Windows!NoFault, Windows!CommitReturns,
     Windows!Goes, Windows!results, Windows!publishStatus, Windows!names, Windows!world,
     Windows!input, Comparing, Replacing, Published, Removing
<1> QED
  BY <1>2, <1>3, <1>4 DEF WindowsInv

(* A rename that does not replace publishes at a missing target. *)
LEMMA WindowsInstallKeeps ==
    ASSUME WindowsInv, Windows!Install
    PROVE  WindowsInv'
<1>1. Windows!TypeOK'
  BY WindowsFaultType, RootedAssumption DEF WindowsInv, WindowsTypes, Windows!Install,
     Windows!FailsWhen, Windows!Named, Windows!CommitReturns, Windows!Goes, Windows!results,
     Windows!publishStatus, Windows!world, Windows!input, Windows!TypeOK, Windows!Files
<1>2. WindowsTypes'
  BY <1>1, RootedAssumption DEF WindowsInv, WindowsTypes, Windows!TypeOK, Windows!Install,
     Windows!FailsWhen, Windows!Named, Windows!CommitReturns, Windows!Goes, Windows!results,
     Windows!publishStatus, Windows!world, Windows!input, Comparing, Replacing, Published,
     Removing
<1>3. WindowsUnpublished'
  BY RootedAssumption DEF WindowsInv, WindowsTypes, WindowsUnpublished, Windows!Install,
     Windows!NoFault, Windows!FailsWhen, Windows!Fault, Windows!Named, Windows!CommitReturns,
     Windows!Goes, Windows!results, Windows!publishStatus, Windows!world, Windows!input,
     Comparing, Replacing, Published, Removing, Windows!TypeOK, Windows!Files
<1>4. WindowsStatus'
  BY RootedAssumption DEF WindowsInv, WindowsTypes, WindowsUnpublished, WindowsStatus,
     Windows!Install, Windows!NoFault, Windows!FailsWhen, Windows!Fault, Windows!Named,
     Windows!CommitReturns, Windows!Goes, Windows!results, Windows!publishStatus,
     Windows!world, Windows!input, Comparing, Replacing, Published, Removing, Windows!TypeOK,
     Windows!Files
<1>5. WindowsDisplaced'
  BY RootedAssumption DEF WindowsInv, WindowsTypes, WindowsDisplaced, Windows!Install,
     Windows!NoFault, Windows!FailsWhen, Windows!Fault, Windows!Named, Windows!CommitReturns,
     Windows!Goes, Windows!results, Windows!publishStatus, Windows!world, Windows!input,
     Comparing, Replacing, Published, Removing, Windows!TypeOK, Windows!Files
<1>6. Windows!AcknowledgedIsDurable'
  BY RootedAssumption DEF WindowsInv, WindowsTypes, Windows!AcknowledgedIsDurable,
     Windows!Install, Windows!NoFault, Windows!FailsWhen, Windows!Fault, Windows!Named,
     Windows!CommitReturns, Windows!Goes, Windows!results, Windows!publishStatus,
     Windows!world, Windows!input, Comparing, Replacing, Published, Removing, Windows!TypeOK,
     Windows!Files
<1>7. Windows!StaleExpectationNotApplied'
  BY DEF WindowsInv, Windows!StaleExpectationNotApplied, Windows!Install, Windows!NoFault,
     Windows!FailsWhen, Windows!Fault, Windows!Named, Windows!CommitReturns, Windows!Goes,
     Windows!results, Windows!publishStatus, Windows!world, Windows!input
<1>8. Windows!PublishedNeverDiscarded'
  BY RootedAssumption DEF WindowsInv, WindowsTypes, WindowsUnpublished, WindowsStatus,
     Windows!PublishedNeverDiscarded, Windows!Install, Windows!NoFault, Windows!FailsWhen,
     Windows!Fault, Windows!Named, Windows!CommitReturns, Windows!Goes, Windows!results,
     Windows!publishStatus, Windows!world, Windows!input, Comparing, Replacing, Published,
     Removing, Windows!TypeOK, Windows!Files
<1> QED
  BY <1>2, <1>3, <1>4, <1>5, <1>6, <1>7, <1>8 DEF WindowsInv

(* The first comparison; nothing moves. *)
LEMMA WindowsOpenExclusivelyKeeps ==
    ASSUME WindowsInv, Windows!OpenExclusively
    PROVE  WindowsInv'
<1>1. Windows!TypeOK'
  BY WindowsFaultType, RootedAssumption DEF WindowsInv, WindowsTypes,
     Windows!OpenExclusively, Windows!FailsWhen, Windows!CommitReturns, Windows!Goes,
     Windows!results, Windows!publishStatus, Windows!names, Windows!world, Windows!input,
     Windows!TypeOK, Windows!Files
<1>2. WindowsTypes'
  BY <1>1, RootedAssumption DEF WindowsInv, WindowsTypes, Windows!TypeOK,
     Windows!OpenExclusively, Windows!FailsWhen, Windows!CommitReturns, Windows!Goes,
     Windows!results, Windows!publishStatus, Windows!names, Windows!world, Windows!input,
     Comparing, Replacing, Published, Removing
<1>3. WindowsUnpublished'
  BY RootedAssumption DEF WindowsInv, WindowsTypes, WindowsUnpublished,
     Windows!OpenExclusively, Windows!NoFault, Windows!FailsWhen, Windows!Fault,
     Windows!CommitReturns, Windows!Goes, Windows!results, Windows!publishStatus,
     Windows!names, Windows!world, Windows!input, Comparing, Replacing, Published, Removing,
     Windows!TypeOK, Windows!Files
<1>4. WindowsStatus' /\ WindowsDisplaced' /\ Windows!AcknowledgedIsDurable' /\
      Windows!StaleExpectationNotApplied' /\ Windows!PublishedNeverDiscarded'
  BY DEF WindowsInv, WindowsStatus, WindowsDisplaced, Windows!AcknowledgedIsDurable,
     Windows!StaleExpectationNotApplied, Windows!PublishedNeverDiscarded,
     Windows!OpenExclusively, Windows!NoFault, Windows!FailsWhen, Windows!Fault,
     Windows!CommitReturns, Windows!Goes, Windows!results, Windows!publishStatus,
     Windows!names, Windows!world, Windows!input, Comparing, Replacing, Published, Removing
<1> QED
  BY <1>2, <1>3, <1>4 DEF WindowsInv

(* After the second comparison no foreign file is at the target. *)
LEMMA WindowsGuardKeeps ==
    ASSUME WindowsInv, Windows!Guard
    PROVE  WindowsInv'
<1>1. Windows!TypeOK'
  BY WindowsFaultType, RootedAssumption DEF WindowsInv, WindowsTypes, Windows!Guard,
     Windows!FailsWhen, Windows!CommitReturns, Windows!Goes, Windows!results,
     Windows!publishStatus, Windows!names, Windows!world, Windows!input, Windows!TypeOK,
     Windows!Files
<1>2. WindowsTypes'
  BY <1>1, RootedAssumption DEF WindowsInv, WindowsTypes, Windows!TypeOK, Windows!Guard,
     Windows!FailsWhen, Windows!CommitReturns, Windows!Goes, Windows!results,
     Windows!publishStatus, Windows!names, Windows!world, Windows!input, Comparing, Replacing,
     Published, Removing
<1>3. WindowsUnpublished'
  BY RootedAssumption DEF WindowsInv, WindowsTypes, WindowsUnpublished, Windows!Guard,
     Windows!NoFault, Windows!FailsWhen, Windows!Fault, Windows!CommitReturns, Windows!Goes,
     Windows!results, Windows!publishStatus, Windows!names, Windows!world, Windows!input,
     Comparing, Replacing, Published, Removing, Windows!TypeOK, Windows!Files
<1>4. WindowsStatus' /\ Windows!AcknowledgedIsDurable' /\
      Windows!StaleExpectationNotApplied' /\ Windows!PublishedNeverDiscarded'
  BY DEF WindowsInv, WindowsStatus, Windows!AcknowledgedIsDurable,
     Windows!StaleExpectationNotApplied, Windows!PublishedNeverDiscarded, Windows!Guard,
     Windows!NoFault, Windows!FailsWhen, Windows!Fault, Windows!CommitReturns, Windows!Goes,
     Windows!results, Windows!publishStatus, Windows!names, Windows!world, Windows!input
<1>5. WindowsDisplaced'
  BY RootedAssumption DEF WindowsInv, WindowsTypes, WindowsDisplaced, Windows!Guard,
     Windows!NoFault, Windows!FailsWhen, Windows!Fault, Windows!CommitReturns, Windows!Goes,
     Windows!results, Windows!publishStatus, Windows!names, Windows!world, Windows!input,
     Comparing, Replacing, Published, Removing, Windows!TypeOK, Windows!Files
<1> QED
  BY <1>2, <1>3, <1>4, <1>5 DEF WindowsInv

(* The access control list is copied; nothing moves. *)
LEMMA WindowsCopyAclKeeps ==
    ASSUME WindowsInv, Windows!CopyAcl
    PROVE  WindowsInv'
<1>1. Windows!TypeOK'
  BY WindowsFaultType, RootedAssumption DEF WindowsInv, WindowsTypes, Windows!CopyAcl,
     Windows!CommitReturns, Windows!Goes, Windows!results, Windows!publishStatus,
     Windows!names, Windows!world, Windows!input, Windows!TypeOK, Windows!Files
<1>2. WindowsTypes'
  BY <1>1, RootedAssumption DEF WindowsInv, WindowsTypes, Windows!TypeOK, Windows!CopyAcl,
     Windows!CommitReturns, Windows!Goes, Windows!results, Windows!publishStatus,
     Windows!names, Windows!world, Windows!input, Comparing, Replacing, Published, Removing
<1>3. WindowsUnpublished'
  BY RootedAssumption DEF WindowsInv, WindowsTypes, WindowsUnpublished, Windows!CopyAcl,
     Windows!Fault, Windows!NoFault, Windows!CommitReturns, Windows!Goes, Windows!results,
     Windows!publishStatus, Windows!names, Windows!world, Windows!input, Comparing, Replacing,
     Published, Removing, Windows!TypeOK, Windows!Files
<1>4. WindowsStatus' /\ Windows!StaleExpectationNotApplied'
  BY RootedAssumption DEF WindowsInv, WindowsStatus, Windows!StaleExpectationNotApplied,
     Windows!CopyAcl, Windows!Fault, Windows!NoFault, Windows!CommitReturns, Windows!Goes,
     Windows!results, Windows!publishStatus, Windows!names, Windows!world, Windows!input
<1>5. WindowsDisplaced' /\ Windows!AcknowledgedIsDurable' /\
      Windows!PublishedNeverDiscarded'
  BY DEF WindowsInv, WindowsDisplaced, Windows!AcknowledgedIsDurable,
     Windows!PublishedNeverDiscarded, Windows!CopyAcl, Windows!Fault, Windows!NoFault,
     Windows!CommitReturns, Windows!Goes, Windows!results, Windows!publishStatus,
     Windows!names, Windows!world, Windows!input, Comparing, Replacing, Published, Removing
<1> QED
  BY <1>2, <1>3, <1>4, <1>5 DEF WindowsInv

(* A foreign file is overwritten only if it came after the comparison. *)
LEMMA WindowsReplaceKeeps ==
    ASSUME WindowsInv, Windows!Replace
    PROVE  WindowsInv'
<1>1. Windows!TypeOK'
  BY WindowsFaultType, RootedAssumption DEF WindowsInv, WindowsTypes, Windows!Replace,
     Windows!Named, Windows!CommitReturns, Windows!Goes, Windows!results,
     Windows!publishStatus, Windows!names, Windows!world, Windows!input, Windows!TypeOK,
     Windows!Files
<1>2. WindowsTypes'
  BY <1>1, RootedAssumption DEF WindowsInv, WindowsTypes, Windows!TypeOK, Windows!Replace,
     Windows!Named, Windows!CommitReturns, Windows!Goes, Windows!results,
     Windows!publishStatus, Windows!names, Windows!world, Windows!input, Comparing, Replacing,
     Published, Removing
<1>3. WindowsUnpublished'
  BY RootedAssumption DEF WindowsInv, WindowsTypes, WindowsUnpublished, Windows!Replace,
     Windows!Fault, Windows!NoFault, Windows!Named, Windows!CommitReturns, Windows!Goes,
     Windows!results, Windows!publishStatus, Windows!names, Windows!world, Windows!input,
     Comparing, Replacing, Published, Removing, Windows!TypeOK, Windows!Files
<1>4. WindowsStatus'
  BY RootedAssumption DEF WindowsInv, WindowsTypes, WindowsUnpublished, WindowsStatus,
     Windows!Replace, Windows!Fault, Windows!NoFault, Windows!Named, Windows!CommitReturns,
     Windows!Goes, Windows!results, Windows!publishStatus, Windows!names, Windows!world,
     Windows!input, Comparing, Replacing, Published, Removing, Windows!TypeOK, Windows!Files
<1>5. WindowsDisplaced'
  BY DEF WindowsInv, WindowsDisplaced, Windows!Replace, Windows!Fault, Windows!NoFault,
     Windows!Named, Windows!CommitReturns, Windows!Goes, Windows!results,
     Windows!publishStatus, Windows!names, Windows!world, Windows!input, Comparing, Replacing,
     Published, Removing
<1>6. Windows!AcknowledgedIsDurable'
  BY RootedAssumption DEF WindowsInv, WindowsTypes, Windows!AcknowledgedIsDurable,
     Windows!Replace, Windows!Fault, Windows!NoFault, Windows!Named, Windows!CommitReturns,
     Windows!Goes, Windows!results, Windows!publishStatus, Windows!names, Windows!world,
     Windows!input, Comparing, Replacing, Published, Removing, Windows!TypeOK, Windows!Files
<1>7. Windows!StaleExpectationNotApplied'
  BY RootedAssumption DEF WindowsInv, WindowsTypes, WindowsUnpublished, WindowsStatus,
     WindowsDisplaced, Windows!AcknowledgedIsDurable, Windows!StaleExpectationNotApplied,
     Windows!PublishedNeverDiscarded, Windows!Replace, Windows!Fault, Windows!NoFault,
     Windows!Named, Windows!CommitReturns, Windows!Goes, Windows!results,
     Windows!publishStatus, Windows!names, Windows!world, Windows!input, Comparing, Replacing,
     Published, Removing, Windows!TypeOK, Windows!Files
<1>8. Windows!PublishedNeverDiscarded'
  BY RootedAssumption DEF WindowsInv, WindowsTypes, WindowsUnpublished, WindowsStatus,
     Windows!PublishedNeverDiscarded, Windows!Replace, Windows!Fault, Windows!NoFault,
     Windows!Named, Windows!CommitReturns, Windows!Goes, Windows!results,
     Windows!publishStatus, Windows!names, Windows!world, Windows!input, Comparing, Replacing,
     Published, Removing, Windows!TypeOK, Windows!Files
<1> QED
  BY <1>2, <1>3, <1>4, <1>5, <1>6, <1>7, <1>8 DEF WindowsInv

(* The call goes on only if the expected file is gone. *)
LEMMA WindowsQueryDisplacedKeeps ==
    ASSUME WindowsInv, Windows!QueryDisplaced
    PROVE  WindowsInv'
<1>1. Windows!TypeOK'
  BY WindowsFaultType, RootedAssumption DEF WindowsInv, WindowsTypes,
     Windows!QueryDisplaced, Windows!FailsWhen, Windows!CommitReturns, Windows!Goes,
     Windows!results, Windows!publishStatus, Windows!names, Windows!world, Windows!input,
     Windows!TypeOK, Windows!Files
<1>2. WindowsTypes'
  BY <1>1, RootedAssumption DEF WindowsInv, WindowsTypes, Windows!TypeOK,
     Windows!QueryDisplaced, Windows!FailsWhen, Windows!CommitReturns, Windows!Goes,
     Windows!results, Windows!publishStatus, Windows!names, Windows!world, Windows!input,
     Comparing, Replacing, Published, Removing
<1>3. WindowsUnpublished' /\ WindowsStatus' /\ WindowsDisplaced' /\
      Windows!AcknowledgedIsDurable' /\ Windows!StaleExpectationNotApplied' /\
      Windows!PublishedNeverDiscarded'
  BY DEF WindowsInv, WindowsUnpublished, WindowsStatus, WindowsDisplaced,
     Windows!AcknowledgedIsDurable, Windows!StaleExpectationNotApplied,
     Windows!PublishedNeverDiscarded, Windows!QueryDisplaced, Windows!NoFault,
     Windows!FailsWhen, Windows!Fault, Windows!CommitReturns, Windows!Goes, Windows!results,
     Windows!publishStatus, Windows!names, Windows!world, Windows!input, Comparing, Replacing,
     Published, Removing
<1> QED
  BY <1>2, <1>3 DEF WindowsInv

(* A status that is given up says so; the target does not move. *)
LEMMA WindowsVerifyNamedKeeps ==
    ASSUME WindowsInv, Windows!VerifyNamed
    PROVE  WindowsInv'
<1>1. Windows!TypeOK'
  BY WindowsFaultType, RootedAssumption DEF WindowsInv, WindowsTypes, Windows!VerifyNamed,
     Windows!FailsWhen, Windows!CommitReturns, Windows!Goes, Windows!results,
     Windows!publishStatus, Windows!names, Windows!world, Windows!input, Windows!TypeOK,
     Windows!Files
<1>2. WindowsTypes'
  BY <1>1, RootedAssumption DEF WindowsInv, WindowsTypes, Windows!TypeOK,
     Windows!VerifyNamed, Windows!FailsWhen, Windows!CommitReturns, Windows!Goes,
     Windows!results, Windows!publishStatus, Windows!names, Windows!world, Windows!input,
     Comparing, Replacing, Published, Removing
<1>3. WindowsUnpublished' /\ WindowsDisplaced' /\ Windows!AcknowledgedIsDurable' /\
      Windows!StaleExpectationNotApplied'
  BY DEF WindowsInv, WindowsUnpublished, WindowsDisplaced, Windows!AcknowledgedIsDurable,
     Windows!StaleExpectationNotApplied, Windows!VerifyNamed, Windows!Fault, Windows!NoFault,
     Windows!FailsWhen, Windows!CommitReturns, Windows!Goes, Windows!results,
     Windows!publishStatus, Windows!names, Windows!world, Windows!input, Comparing, Replacing,
     Published, Removing
<1>4. WindowsStatus'
  BY RootedAssumption DEF WindowsInv, WindowsTypes, WindowsUnpublished, WindowsStatus,
     Windows!VerifyNamed, Windows!Fault, Windows!NoFault, Windows!FailsWhen,
     Windows!CommitReturns, Windows!Goes, Windows!results, Windows!publishStatus,
     Windows!names, Windows!world, Windows!input, Comparing, Replacing, Published, Removing,
     Windows!TypeOK, Windows!Files
<1>5. Windows!PublishedNeverDiscarded'
  BY RootedAssumption DEF WindowsInv, WindowsTypes, WindowsUnpublished, WindowsStatus,
     Windows!PublishedNeverDiscarded, Windows!VerifyNamed, Windows!Fault, Windows!NoFault,
     Windows!FailsWhen, Windows!CommitReturns, Windows!Goes, Windows!results,
     Windows!publishStatus, Windows!names, Windows!world, Windows!input, Comparing, Replacing,
     Published, Removing, Windows!TypeOK, Windows!Files
<1> QED
  BY <1>2, <1>3, <1>4, <1>5 DEF WindowsInv

(* Closing the handles changes no status. *)
LEMMA WindowsCloseBothKeeps ==
    ASSUME WindowsInv, Windows!CloseBoth
    PROVE  WindowsInv'
<1>1. Windows!TypeOK'
  BY WindowsFaultType, RootedAssumption DEF WindowsInv, WindowsTypes, Windows!CloseBoth,
     Windows!CommitReturns, Windows!Goes, Windows!results, Windows!publishStatus,
     Windows!names, Windows!world, Windows!input, Windows!TypeOK, Windows!Files
<1>2. WindowsTypes'
  BY <1>1, RootedAssumption DEF WindowsInv, WindowsTypes, Windows!TypeOK,
     Windows!CloseBoth, Windows!CommitReturns, Windows!Goes, Windows!results,
     Windows!publishStatus, Windows!names, Windows!world, Windows!input, Comparing, Replacing,
     Published, Removing
<1>3. WindowsUnpublished' /\ WindowsStatus' /\ WindowsDisplaced' /\
      Windows!AcknowledgedIsDurable' /\ Windows!StaleExpectationNotApplied' /\
      Windows!PublishedNeverDiscarded'
  BY DEF WindowsInv, WindowsUnpublished, WindowsStatus, WindowsDisplaced,
     Windows!AcknowledgedIsDurable, Windows!StaleExpectationNotApplied,
     Windows!PublishedNeverDiscarded, Windows!CloseBoth, Windows!Fault, Windows!NoFault,
     Windows!CommitReturns, Windows!Goes, Windows!results, Windows!publishStatus,
     Windows!names, Windows!world, Windows!input, Comparing, Replacing, Published, Removing
<1> QED
  BY <1>2, <1>3 DEF WindowsInv

(* A commit that succeeds is durable. *)
LEMMA WindowsFlushPublishedKeeps ==
    ASSUME WindowsInv, Windows!FlushPublished
    PROVE  WindowsInv'
<1>1. Windows!TypeOK'
  BY WindowsFaultType, RootedAssumption DEF WindowsInv, WindowsTypes,
     Windows!FlushPublished, Windows!FlushDirectory, Windows!CommitReturns, Windows!world,
     Windows!input, Windows!TypeOK, Windows!Files
<1>2. WindowsTypes'
  BY <1>1, RootedAssumption DEF WindowsInv, WindowsTypes, Windows!TypeOK,
     Windows!FlushPublished, Windows!FlushDirectory, Windows!CommitReturns, Windows!world,
     Windows!input, Comparing, Replacing, Published, Removing
<1>3. WindowsUnpublished' /\ WindowsDisplaced' /\ Windows!StaleExpectationNotApplied' /\
      Windows!PublishedNeverDiscarded'
  BY DEF WindowsInv, WindowsUnpublished, WindowsDisplaced,
     Windows!StaleExpectationNotApplied, Windows!PublishedNeverDiscarded,
     Windows!FlushPublished, Windows!Fault, Windows!NoFault, Windows!FlushDirectory,
     Windows!CommitReturns, Windows!world, Windows!input, Comparing, Replacing, Published,
     Removing
<1>4. WindowsStatus'
  BY RootedAssumption DEF WindowsInv, WindowsTypes, WindowsUnpublished, WindowsStatus,
     Windows!FlushPublished, Windows!Fault, Windows!NoFault, Windows!FlushDirectory,
     Windows!CommitReturns, Windows!world, Windows!input, Comparing, Replacing, Published,
     Removing, Windows!TypeOK, Windows!Files
<1>5. Windows!AcknowledgedIsDurable'
  BY RootedAssumption DEF WindowsInv, WindowsTypes, WindowsUnpublished, WindowsStatus,
     Windows!AcknowledgedIsDurable, Windows!FlushPublished, Windows!Fault, Windows!NoFault,
     Windows!FlushDirectory, Windows!CommitReturns, Windows!world, Windows!input, Comparing,
     Replacing, Published, Removing, Windows!TypeOK, Windows!Files
<1> QED
  BY <1>2, <1>3, <1>4, <1>5 DEF WindowsInv

(* Only an unpublished file is deleted through its handle. *)
LEMMA WindowsDiscardKeeps ==
    ASSUME WindowsInv, Windows!Discard
    PROVE  WindowsInv'
<1>1. Windows!TypeOK'
  BY WindowsFaultType, RootedAssumption DEF WindowsInv, WindowsTypes, Windows!Discard,
     Windows!FlushDirectory, Windows!world, Windows!input, Windows!TypeOK, Windows!Files
<1>2. WindowsTypes'
  BY <1>1, RootedAssumption DEF WindowsInv, WindowsTypes, Windows!TypeOK, Windows!Discard,
     Windows!FlushDirectory, Windows!world, Windows!input, Comparing, Replacing, Published,
     Removing
<1>3. WindowsUnpublished' /\ WindowsDisplaced' /\ Windows!StaleExpectationNotApplied'
  BY DEF WindowsInv, WindowsUnpublished, WindowsDisplaced,
     Windows!StaleExpectationNotApplied, Windows!Discard, Windows!Fault, Windows!NoFault,
     Windows!FlushDirectory, Windows!world, Windows!input, Comparing, Replacing, Published,
     Removing
<1>4. WindowsStatus'
  <2>1. CASE crash' = {target} /\ durable'
    BY <2>1 DEF WindowsInv, WindowsStatus, WindowsTypes, WindowsUnpublished,
       Windows!TypeOK, Windows!Discard, Windows!world, Windows!input
  <2>2. CASE UNCHANGED <<crash, durable>>
    BY <2>2 DEF WindowsInv, WindowsStatus, Windows!Discard, Windows!world, Windows!input
  <2> QED
    BY <2>1, <2>2 DEF Windows!Discard, Windows!FlushDirectory
<1>5. Windows!AcknowledgedIsDurable'
  BY RootedAssumption DEF WindowsInv, WindowsTypes, WindowsUnpublished, WindowsStatus,
     Windows!AcknowledgedIsDurable, Windows!Discard, Windows!Fault, Windows!NoFault,
     Windows!FlushDirectory, Windows!world, Windows!input, Comparing, Replacing, Published,
     Removing, Windows!TypeOK, Windows!Files
<1>6. Windows!PublishedNeverDiscarded'
  BY RootedAssumption DEF WindowsInv, WindowsTypes, WindowsUnpublished, WindowsStatus,
     Windows!PublishedNeverDiscarded, Windows!Discard, Windows!Fault, Windows!NoFault,
     Windows!FlushDirectory, Windows!world, Windows!input, Comparing, Replacing, Published,
     Removing, Windows!TypeOK, Windows!Files
<1> QED
  BY <1>2, <1>3, <1>4, <1>5, <1>6 DEF WindowsInv

(* Success, of a commit or of its reconciliation, is durable. *)
LEMMA WindowsConcludeKeeps ==
    ASSUME WindowsInv, Windows!Conclude
    PROVE  WindowsInv'
<1>1. Windows!TypeOK'
  BY WindowsFaultType, RootedAssumption DEF WindowsInv, WindowsTypes, Windows!Conclude,
     Windows!Reconciles, Windows!publishStatus, Windows!names, Windows!world, Windows!input,
     Windows!TypeOK, Windows!Files
<1>2. WindowsTypes'
  BY <1>1, RootedAssumption DEF WindowsInv, WindowsTypes, Windows!TypeOK, Windows!Conclude,
     Windows!Reconciles, Windows!publishStatus, Windows!names, Windows!world, Windows!input,
     Comparing, Replacing, Published, Removing
<1>3. WindowsUnpublished' /\ WindowsStatus' /\ WindowsDisplaced' /\
      Windows!StaleExpectationNotApplied' /\ Windows!PublishedNeverDiscarded'
  BY DEF WindowsInv, WindowsUnpublished, WindowsStatus, WindowsDisplaced,
     Windows!StaleExpectationNotApplied, Windows!PublishedNeverDiscarded, Windows!Conclude,
     Windows!Fault, Windows!NoFault, Windows!Reconciles, Windows!publishStatus, Windows!names,
     Windows!world, Windows!input, Comparing, Replacing, Published, Removing
<1>4. Windows!AcknowledgedIsDurable'
  BY RootedAssumption DEF WindowsInv, WindowsTypes, WindowsUnpublished, WindowsStatus,
     Windows!AcknowledgedIsDurable, Windows!Conclude, Windows!Fault, Windows!NoFault,
     Windows!Reconciles, Windows!publishStatus, Windows!names, Windows!world, Windows!input,
     Comparing, Replacing, Published, Removing, Windows!TypeOK, Windows!Files
<1> QED
  BY <1>2, <1>3, <1>4 DEF WindowsInv

(* An absent target that was expected absent is durably absent. *)
LEMMA WindowsOpenRemovedKeeps ==
    ASSUME WindowsInv, Windows!OpenRemoved
    PROVE  WindowsInv'
<1>1. Windows!TypeOK'
  BY WindowsFaultType, RootedAssumption DEF WindowsInv, WindowsTypes, Windows!OpenRemoved,
     Windows!FailsWhen, Windows!FlushDirectory, Windows!Goes, Windows!results,
     Windows!Returns, Windows!publishStatus, Windows!world, Windows!input, Windows!TypeOK,
     Windows!Files
<1>2. WindowsTypes'
  BY <1>1, RootedAssumption DEF WindowsInv, WindowsTypes, Windows!TypeOK,
     Windows!OpenRemoved, Windows!FailsWhen, Windows!FlushDirectory, Windows!Goes,
     Windows!results, Windows!Returns, Windows!publishStatus, Windows!world, Windows!input,
     Comparing, Replacing, Published, Removing
<1>3. WindowsUnpublished' /\ WindowsStatus' /\ Windows!StaleExpectationNotApplied' /\
      Windows!PublishedNeverDiscarded'
  BY DEF WindowsInv, WindowsUnpublished, WindowsStatus, Windows!StaleExpectationNotApplied,
     Windows!PublishedNeverDiscarded, Windows!OpenRemoved, Windows!NoFault, Windows!FailsWhen,
     Windows!Fault, Windows!FlushDirectory, Windows!Goes, Windows!results, Windows!Returns,
     Windows!publishStatus, Windows!world, Windows!input, Comparing, Replacing, Published,
     Removing
<1>4. WindowsDisplaced'
  BY RootedAssumption DEF WindowsInv, WindowsTypes, WindowsDisplaced, Windows!OpenRemoved,
     Windows!NoFault, Windows!FailsWhen, Windows!Fault, Windows!FlushDirectory, Windows!Goes,
     Windows!results, Windows!Returns, Windows!publishStatus, Windows!world, Windows!input,
     Comparing, Replacing, Published, Removing, Windows!TypeOK, Windows!Files
<1>5. Windows!AcknowledgedIsDurable'
  BY RootedAssumption DEF WindowsInv, WindowsTypes, Windows!AcknowledgedIsDurable,
     Windows!OpenRemoved, Windows!NoFault, Windows!FailsWhen, Windows!Fault,
     Windows!FlushDirectory, Windows!Goes, Windows!results, Windows!Returns,
     Windows!publishStatus, Windows!world, Windows!input, Comparing, Replacing, Published,
     Removing, Windows!TypeOK, Windows!Files
<1> QED
  BY <1>2, <1>3, <1>4, <1>5 DEF WindowsInv

(* The target's name is empty. *)
LEMMA WindowsQuarantineKeeps ==
    ASSUME WindowsInv, Windows!Quarantine
    PROVE  WindowsInv'
<1>1. Windows!TypeOK'
  BY WindowsFaultType, RootedAssumption DEF WindowsInv, WindowsTypes, Windows!Quarantine,
     Windows!Named, Windows!Goes, Windows!results, Windows!Returns, Windows!publishStatus,
     Windows!world, Windows!input, Windows!TypeOK, Windows!Files
<1>2. WindowsTypes'
  BY <1>1, RootedAssumption DEF WindowsInv, WindowsTypes, Windows!TypeOK,
     Windows!Quarantine, Windows!Named, Windows!Goes, Windows!results, Windows!Returns,
     Windows!publishStatus, Windows!world, Windows!input, Comparing, Replacing, Published,
     Removing
<1>3. WindowsUnpublished'
  BY RootedAssumption DEF WindowsInv, WindowsUnpublished, Windows!Quarantine,
     Windows!Fault, Windows!NoFault, Windows!Named, Windows!Goes, Windows!results,
     Windows!Returns, Windows!publishStatus, Windows!world, Windows!input, Comparing,
     Replacing, Published, Removing
<1>4. WindowsStatus'
  BY RootedAssumption DEF WindowsInv, WindowsTypes, WindowsUnpublished, WindowsStatus,
     Windows!Quarantine, Windows!Fault, Windows!NoFault, Windows!Named, Windows!Goes,
     Windows!results, Windows!Returns, Windows!publishStatus, Windows!world, Windows!input,
     Comparing, Replacing, Published, Removing, Windows!TypeOK, Windows!Files
<1>5. WindowsDisplaced' /\ Windows!StaleExpectationNotApplied' /\
      Windows!PublishedNeverDiscarded'
  BY DEF WindowsInv, WindowsDisplaced, Windows!StaleExpectationNotApplied,
     Windows!PublishedNeverDiscarded, Windows!Quarantine, Windows!Fault, Windows!NoFault,
     Windows!Named, Windows!Goes, Windows!results, Windows!Returns, Windows!publishStatus,
     Windows!world, Windows!input, Comparing, Replacing, Published, Removing
<1>6. Windows!AcknowledgedIsDurable'
  BY RootedAssumption DEF WindowsInv, WindowsTypes, Windows!AcknowledgedIsDurable,
     Windows!Quarantine, Windows!Fault, Windows!NoFault, Windows!Named, Windows!Goes,
     Windows!results, Windows!Returns, Windows!publishStatus, Windows!world, Windows!input,
     Comparing, Replacing, Published, Removing, Windows!TypeOK, Windows!Files
<1> QED
  BY <1>2, <1>3, <1>4, <1>5, <1>6 DEF WindowsInv

(* The directory is flushed; no file moves. *)
LEMMA WindowsFlushQuarantinedKeeps ==
    ASSUME WindowsInv, Windows!FlushQuarantined
    PROVE  WindowsInv'
<1>1. Windows!TypeOK'
  BY WindowsFaultType, RootedAssumption DEF WindowsInv, WindowsTypes,
     Windows!FlushQuarantined, Windows!FlushDirectory, Windows!Goes, Windows!results,
     Windows!Returns, Windows!publishStatus, Windows!world, Windows!input, Windows!TypeOK,
     Windows!Files
<1>2. WindowsTypes'
  BY <1>1, RootedAssumption DEF WindowsInv, WindowsTypes, Windows!TypeOK,
     Windows!FlushQuarantined, Windows!FlushDirectory, Windows!Goes, Windows!results,
     Windows!Returns, Windows!publishStatus, Windows!world, Windows!input, Comparing,
     Replacing, Published, Removing
<1>3. WindowsUnpublished' /\ WindowsStatus' /\ WindowsDisplaced' /\
      Windows!StaleExpectationNotApplied' /\ Windows!PublishedNeverDiscarded'
  BY DEF WindowsInv, WindowsUnpublished, WindowsStatus, WindowsDisplaced,
     Windows!StaleExpectationNotApplied, Windows!PublishedNeverDiscarded,
     Windows!FlushQuarantined, Windows!Fault, Windows!NoFault, Windows!FlushDirectory,
     Windows!Goes, Windows!results, Windows!Returns, Windows!publishStatus, Windows!world,
     Windows!input, Comparing, Replacing, Published, Removing
<1>4. Windows!AcknowledgedIsDurable'
  BY RootedAssumption DEF WindowsInv, WindowsTypes, Windows!AcknowledgedIsDurable,
     Windows!FlushQuarantined, Windows!Fault, Windows!NoFault, Windows!FlushDirectory,
     Windows!Goes, Windows!results, Windows!Returns, Windows!publishStatus, Windows!world,
     Windows!input, Comparing, Replacing, Published, Removing, Windows!TypeOK, Windows!Files
<1> QED
  BY <1>2, <1>3, <1>4 DEF WindowsInv

(* A removal that succeeds leaves a durably absent target. *)
LEMMA WindowsDeleteQuarantinedKeeps ==
    ASSUME WindowsInv, Windows!DeleteQuarantined
    PROVE  WindowsInv'
<1>1. Windows!TypeOK'
  BY WindowsFaultType, RootedAssumption DEF WindowsInv, WindowsTypes,
     Windows!DeleteQuarantined, Windows!FlushDirectory, Windows!Returns,
     Windows!publishStatus, Windows!world, Windows!input, Windows!TypeOK, Windows!Files
<1>2. WindowsTypes'
  BY <1>1, RootedAssumption DEF WindowsInv, WindowsTypes, Windows!TypeOK,
     Windows!DeleteQuarantined, Windows!FlushDirectory, Windows!Returns,
     Windows!publishStatus, Windows!world, Windows!input, Comparing, Replacing, Published,
     Removing
<1>3. WindowsUnpublished' /\ WindowsStatus' /\ WindowsDisplaced' /\
      Windows!StaleExpectationNotApplied' /\ Windows!PublishedNeverDiscarded'
  BY DEF WindowsInv, WindowsUnpublished, WindowsStatus, WindowsDisplaced,
     Windows!StaleExpectationNotApplied, Windows!PublishedNeverDiscarded,
     Windows!DeleteQuarantined, Windows!Fault, Windows!NoFault, Windows!FlushDirectory,
     Windows!Returns, Windows!publishStatus, Windows!world, Windows!input, Comparing,
     Replacing, Published, Removing
<1>4. Windows!AcknowledgedIsDurable'
  BY RootedAssumption DEF WindowsInv, WindowsTypes, WindowsUnpublished, WindowsStatus,
     WindowsDisplaced, Windows!AcknowledgedIsDurable, Windows!StaleExpectationNotApplied,
     Windows!PublishedNeverDiscarded, Windows!DeleteQuarantined, Windows!Fault,
     Windows!NoFault, Windows!FlushDirectory, Windows!Returns, Windows!publishStatus,
     Windows!world, Windows!input, Comparing, Replacing, Published, Removing, Windows!TypeOK,
     Windows!Files
<1> QED
  BY <1>2, <1>3, <1>4 DEF WindowsInv

(* The other program changes the target and records when it did. *)
LEMMA WindowsForeignKeeps ==
    ASSUME WindowsInv, Windows!Foreign
    PROVE  WindowsInv'
<1>1. Windows!TypeOK'
  <2>1. target' \in Windows!Files \union {None} /\ crash' \subseteq Windows!Files \union {None}
    BY DEF WindowsInv, WindowsTypes, Windows!Foreign, Windows!Named, Windows!TypeOK, Windows!Files
  <2>2. gone' \subseteq Windows!Files
    BY DEF WindowsInv, WindowsTypes, Windows!Foreign, Windows!TypeOK
  <2>3. foreign' \in 0 .. MaxForeign
    BY RootedAssumption DEF WindowsInv, WindowsTypes, Windows!Foreign, Windows!TypeOK
  <2> QED
    BY <2>1, <2>2, <2>3 DEF WindowsInv, WindowsTypes, Windows!Foreign, Windows!TypeOK,
       Windows!publishStatus, Windows!results, Windows!input
<1>2. WindowsTypes'
  BY <1>1, RootedAssumption DEF WindowsInv, WindowsTypes, Windows!TypeOK, Windows!Foreign,
     Windows!Named, Windows!Held, Windows!publishStatus, Windows!results, Windows!input,
     Comparing, Replacing, Published, Removing
<1>3. WindowsUnpublished' /\ WindowsDisplaced'
  BY RootedAssumption DEF WindowsInv, WindowsUnpublished, WindowsDisplaced,
     Windows!Foreign, Windows!Named, Windows!Held, Windows!publishStatus, Windows!results,
     Windows!input, Comparing, Replacing, Published, Removing
<1>4. WindowsStatus'
  BY RootedAssumption DEF WindowsInv, WindowsTypes, WindowsStatus, Windows!Foreign,
     Windows!Named, Windows!Held, Windows!publishStatus, Windows!results, Windows!input,
     Comparing, Replacing, Published, Removing, Windows!TypeOK, Windows!Files
<1>5. Windows!AcknowledgedIsDurable' /\ Windows!StaleExpectationNotApplied'
  BY DEF WindowsInv, Windows!AcknowledgedIsDurable, Windows!StaleExpectationNotApplied,
     Windows!Foreign, Windows!Named, Windows!Held, Windows!publishStatus, Windows!results,
     Windows!input
<1>6. Windows!PublishedNeverDiscarded'
  BY RootedAssumption DEF WindowsInv, WindowsTypes, WindowsUnpublished, WindowsStatus,
     WindowsDisplaced, Windows!AcknowledgedIsDurable, Windows!StaleExpectationNotApplied,
     Windows!PublishedNeverDiscarded, Windows!Foreign, Windows!Named, Windows!Held,
     Windows!publishStatus, Windows!results, Windows!input, Comparing, Replacing, Published,
     Removing, Windows!TypeOK, Windows!Files
<1> QED
  BY <1>2, <1>3, <1>4, <1>5, <1>6 DEF WindowsInv

(* Before the first call nothing is published, gone or foreign. *)
LEMMA WindowsStarts ==
    ASSUME Windows!Init
    PROVE  WindowsInv
<1>1. Windows!TypeOK
  <2>1. {flushed, deleteOnDestroy, durable, reconcilable, overwritten, touched} \subseteq BOOLEAN
    BY DEF Windows!Init
  <2>2. foreign \in 0 .. MaxForeign /\ faults \in 0 .. MaxFaults
    BY RootedAssumption DEF Windows!Init
  <2> QED
    BY <2>1, <2>2 DEF Windows!Init, Windows!TypeOK, Windows!Files
<1>2. WindowsTypes
  BY <1>1, RootedAssumption DEF Windows!Init, WindowsTypes, Comparing, Replacing, Published, Removing
<1>3. WindowsUnpublished /\ WindowsStatus /\ WindowsDisplaced
  BY RootedAssumption DEF Windows!Init, WindowsUnpublished, WindowsStatus, WindowsDisplaced,
     Comparing, Replacing, Published, Removing
<1>4. /\ Windows!AcknowledgedIsDurable /\ Windows!StaleExpectationNotApplied
      /\ Windows!PublishedNeverDiscarded
  BY DEF Windows!Init, Windows!AcknowledgedIsDurable, Windows!StaleExpectationNotApplied,
     Windows!PublishedNeverDiscarded
<1> QED
  BY <1>2, <1>3, <1>4 DEF WindowsInv

(* Every step of a call and of the other program keeps the invariant. *)
LEMMA WindowsStepKeeps ==
    ASSUME WindowsInv, Windows!Next
    PROVE  WindowsInv'
BY WindowsCreateKeeps, WindowsFlushKeeps, WindowsCompareParentsKeeps, WindowsInstallKeeps,
   WindowsOpenExclusivelyKeeps, WindowsGuardKeeps, WindowsCopyAclKeeps, WindowsReplaceKeeps,
   WindowsQueryDisplacedKeeps, WindowsVerifyNamedKeeps, WindowsCloseBothKeeps,
   WindowsFlushPublishedKeeps, WindowsDiscardKeeps, WindowsConcludeKeeps,
   WindowsOpenRemovedKeeps, WindowsQuarantineKeeps, WindowsFlushQuarantinedKeeps,
   WindowsDeleteQuarantinedKeeps, WindowsForeignKeeps DEF Windows!Next, Windows!Operation

(* The invariant implies what the callers rely on. *)
LEMMA WindowsPromises ==
    ASSUME WindowsInv
    PROVE  /\ Windows!TypeOK /\ Windows!AcknowledgedIsDurable /\ Windows!StatusTruthful
           /\ Windows!StaleExpectationNotApplied /\ Windows!SuccessDisplacedExpected
           /\ Windows!PublishedNeverDiscarded
<1>1. Windows!StatusTruthful
  BY DEF WindowsInv, WindowsTypes, WindowsUnpublished, WindowsStatus, Windows!StatusTruthful
<1>2. Windows!SuccessDisplacedExpected
  BY DEF WindowsInv, WindowsDisplaced, Windows!SuccessDisplacedExpected
<1> QED
  BY <1>1, <1>2 DEF WindowsInv, WindowsTypes

-----------------------------------------------------------------------------
(* Either platform. *)

RootedInv ==
    /\ platform \in {"posix", "windows"}
    /\ platform = "posix" => PosixInv
    /\ platform = "windows" => WindowsInv

(* The invariant of the platform that was built holds throughout a call,   *)
(* whatever fails in it and whatever another program does to the target.   *)
THEOREM RootedInvariance == MCSpec => []RootedInv
<1>1. MCInit => RootedInv
  BY PosixStarts, WindowsStarts DEF MCInit, RootedInv
<1>2. RootedInv /\ [MCNext]_mcVars => RootedInv'
  <2> SUFFICES ASSUME RootedInv, [MCNext]_mcVars
               PROVE  RootedInv'
    OBVIOUS
  <2>1. CASE PosixFrame /\ Next
    BY <2>1, PosixStepKeeps DEF RootedInv, PosixFrame
  <2>2. CASE WindowsFrame /\ Windows!Next
    BY <2>2, WindowsStepKeeps DEF RootedInv, WindowsFrame
  <2>3. CASE UNCHANGED mcVars
    <3>1. UNCHANGED <<vars, platform, windowsOnly>>
      BY <2>3 DEF mcVars
    <3>2. PosixInv => PosixInv'
      BY <3>1 DEF vars, PosixInv, PosixTypes, PreparedFile, RemovalPublishesNothing, HandleSound,
         StatusSound, GivenUpSound, QuarantineSound, ForeignFileKept, AcknowledgedIsDurable,
         TypeOK, Opened
    <3>3. WindowsInv => WindowsInv'
      BY <3>1 DEF vars, windowsOnly, WindowsInv, WindowsTypes, WindowsUnpublished, WindowsStatus,
         WindowsDisplaced, Windows!AcknowledgedIsDurable, Windows!StaleExpectationNotApplied,
         Windows!PublishedNeverDiscarded, Windows!TypeOK
    <3> QED
      BY <3>1, <3>2, <3>3 DEF RootedInv
  <2> QED
    BY <2>1, <2>2, <2>3 DEF MCNext
<1> QED
  BY <1>1, <1>2, PTL DEF MCSpec

(* commit(), discard() and the reconciliation of a failed commit: a        *)
(* success is durable, publishStatus() tells the truth, and the old file   *)
(* is given up only after the new one is safe.                             *)
THEOREM ReplacementsAreDurable == MCSpec => []ReplacementIsDurable
<1>1. RootedInv => ReplacementIsDurable
  BY PosixPromises, WindowsPromises DEF RootedInv, ReplacementIsDurable
<1> QED
  BY <1>1, RootedInvariance, PTL

(* Nobody's file is lost: neither one that another program put in place    *)
(* while the call was running nor the published target of a call that is   *)
(* discarded.                                                              *)
THEOREM FilesAreKept == MCSpec => []NoFileIsLost
<1>1. RootedInv => NoFileIsLost
  BY PosixPromises, WindowsPromises DEF RootedInv, NoFileIsLost
<1> QED
  BY <1>1, RootedInvariance, PTL
=============================================================================
