----------------------------- MODULE StateStore -----------------------------
(***************************************************************************)
(* The bundled state store (default/JsonStateStore.cpp): threads of        *)
(* several processes share the state file, its last-known-good snapshot    *)
(* and the resume sidecar.  Every call takes the mutex of its process,     *)
(* then the lock file in a bounded number of attempts, reads, decides, and *)
(* replaces files one after the other; the names are in one directory, so  *)
(* a directory flush makes all of them durable.  Processes are killed, the *)
(* power fails, writes fail before or after they are visible, and another  *)
(* program that ignores the lock destroys a file.  The contents of the     *)
(* sidecar are ResumeEntries.                                              *)
(***************************************************************************)
EXTENDS Naturals, FiniteSets

CONSTANTS
    Processes, Threads,
    Releases,       \* what can be accepted, or pending with its plan digest
    Legacy,         \* pending updates of the old schema, without a digest
    Kinds,          \* the operations the threads may call
    None, Missing, Corrupt,
    LockAttempts,   \* kLockAttempts
    MaxCalls, MaxFaults, MaxCrashes, MaxForeign     \* bounds on the environment

ASSUME StoreAssumption ==
    /\ Legacy \subseteq Releases /\ None \notin Releases /\ LockAttempts \in Nat \ {0}
    /\ None \notin Processes \X Threads
    /\ {MaxCalls, MaxFaults, MaxCrashes, MaxForeign} \subseteq Nat

Clients == Processes \X Threads
Files == {"primary", "backup", "sidecar"}

(* validateRoot: a document with a schema version has a digest with its    *)
(* pending update.  resume: it embeds the old URL-keyed resume map.        *)
Documents == {d \in [accepted: Releases \union {None}, pending: Releases \union {None},
                     versioned: BOOLEAN, resume: BOOLEAN] :
              d.versioned => d.pending \notin Legacy}
Fresh == [accepted |-> None, pending |-> None, versioned |-> FALSE, resume |-> FALSE]
Batches == {"empty", "some"}

(* A file that is missing or cannot be read holds no document. *)
ASSUME ContentAssumption ==
    /\ Missing # Corrupt
    /\ \A x \in {Missing, Corrupt} :
          /\ x \notin Documents /\ x \notin Batches
          /\ x \notin [accepted: Releases \union {None}, pending: Releases \union {None}]

Contents(f) == IF f = "sidecar" THEN Batches \union {Missing, Corrupt}
                                ELSE Documents \union {Missing, Corrupt}

Operations ==
    {o \in [kind: Kinds, arg: Releases \union {None} \union Batches, expected: Releases \union {None}] :
        /\ o.kind \in {"accept", "commit", "save", "clearIf"} => o.arg \in Releases
        /\ o.kind = "mutateResume" => o.arg \in Batches
        /\ o.kind \in {"load", "clear", "loadResume"} => o.arg = None
        /\ o.kind # "commit" => o.expected = None}

VARIABLES
    disk,       \* what each name refers to now
    afterCrash, \* what it may refer to after a power failure
    mutex,      \* the thread that holds processStateStoreMutex, per process
    lock,       \* the client that holds the lock file
    pc, op, attempts,
    doc,        \* the document of this call, as it is to be saved
    seen,       \* the files as this call read them
    stale,      \* names that were replaced since this call read them
    result,     \* of the last call: kind, success, and the store at its return
    calls, faults, crashes, foreign

vars == <<disk, afterCrash, mutex, lock, pc, op, attempts, doc, seen, stale, result,
          calls, faults, crashes, foreign>>
locals == <<op, doc, seen>>
bounds == <<attempts, calls, crashes, foreign>>

NoOperation == [kind |-> "none", arg |-> None, expected |-> None]
NothingSeen == [f \in Files |-> Missing]
NoResult == [kind |-> "none", ok |-> FALSE, durable |-> FALSE, clean |-> FALSE]

(* What an earlier release of the library can have left behind; a snapshot *)
(* matters by the resume records it may hold.                              *)
OldDocuments == [accepted: {None}, pending: Legacy \union {None}, versioned: {FALSE}, resume: BOOLEAN]
OldSnapshots == {Missing, [Fresh EXCEPT !.resume = TRUE]}

Init ==
    /\ disk \in [primary: {Missing} \union OldDocuments, backup: OldSnapshots,
                 sidecar: {Missing}]
    /\ disk["primary"] = Missing => disk["backup"] = Missing
    /\ afterCrash = [f \in Files |-> {disk[f]}]
    /\ mutex = [p \in Processes |-> None] /\ lock = None
    /\ pc = [c \in Clients |-> "idle"] /\ op = [c \in Clients |-> NoOperation]
    /\ attempts = [c \in Clients |-> 0] /\ doc = [c \in Clients |-> Fresh]
    /\ seen = [c \in Clients |-> NothingSeen] /\ stale = [c \in Clients |-> {}]
    /\ result = [c \in Clients |-> NoResult]
    /\ calls = 0 /\ faults = 0 /\ crashes = 0 /\ foreign = 0

Fault == faults < MaxFaults /\ faults' = faults + 1
NoFault == UNCHANGED faults
FailsWhen(reason) == (reason /\ NoFault) \/ Fault

Documented(content) == content \notin {Missing, Corrupt}
HasResume(content) == Documented(content) /\ content.resume

-----------------------------------------------------------------------------
(* Taking the locks (lockOnly) *)

Goes(c, next) == pc' = [pc EXCEPT ![c] = next] /\ UNCHANGED <<mutex, lock, result>>

Forgets(c) ==
    /\ op' = [op EXCEPT ![c] = NoOperation] /\ doc' = [doc EXCEPT ![c] = Fresh]
    /\ seen' = [seen EXCEPT ![c] = NothingSeen]

(* The call returns: the lock file and the mutex are released with it.     *)
Returns(c, ok) ==
    /\ pc' = [pc EXCEPT ![c] = "idle"] /\ Forgets(c)
    /\ result' = [result EXCEPT ![c] =
           [kind |-> op[c].kind, ok |-> ok, durable |-> afterCrash'["primary"] = {disk'["primary"]},
            clean |-> ~ HasResume(disk'["primary"]) /\ ~ HasResume(disk'["backup"])
                      /\ disk'["backup"] # Corrupt]]
    /\ lock' = (IF lock = c THEN None ELSE lock)
    /\ mutex' = [mutex EXCEPT ![c[1]] = None]

(* A pending update without a plan digest is refused before anything else. *)
Call(c) ==
    /\ pc[c] = "idle" /\ calls < MaxCalls /\ calls' = calls + 1
    /\ \E o \in Operations :
         IF o.kind = "save" /\ o.arg \in Legacy
           THEN result' = [result EXCEPT ![c] = [NoResult EXCEPT !.kind = "save"]] /\ UNCHANGED <<pc, op>>
           ELSE op' = [op EXCEPT ![c] = o] /\ pc' = [pc EXCEPT ![c] = "mutex"] /\ UNCHANGED result
    /\ attempts' = [attempts EXCEPT ![c] = 0]
    /\ UNCHANGED <<disk, afterCrash, mutex, lock, doc, stale, seen, faults, crashes, foreign>>

EnterProcess(c) ==
    /\ pc[c] = "mutex" /\ mutex[c[1]] = None
    /\ mutex' = [mutex EXCEPT ![c[1]] = c[2]] /\ pc' = [pc EXCEPT ![c] = "lock"]
    /\ UNCHANGED <<disk, afterCrash, lock, result, locals, stale, faults, bounds>>

(* Mutant: a lock file that is held is taken. *)
TakeLockAnyway(c) ==
    /\ pc[c] = "lock"
    /\ lock' = c /\ pc' = [pc EXCEPT ![c] = "read"]
    /\ UNCHANGED <<disk, afterCrash, mutex, result, locals, stale, faults, bounds>>

TakeLock(c) ==
    /\ pc[c] = "lock" /\ lock = None
    /\ lock' = c /\ pc' = [pc EXCEPT ![c] = "read"]
    /\ UNCHANGED <<disk, afterCrash, mutex, result, locals, stale, faults, bounds>>

(* A busy lock file is tried again; after the last attempt the call fails. *)
RetryLock(c) ==
    /\ pc[c] = "lock" /\ lock # None /\ attempts[c] + 1 < LockAttempts
    /\ attempts' = [attempts EXCEPT ![c] = @ + 1]
    /\ UNCHANGED <<disk, afterCrash, mutex, lock, pc, locals, stale, result, faults, calls, crashes, foreign>>

(* The last attempt, or the directory or the lock file cannot be opened.   *)
LockFails(c) ==
    /\ pc[c] = "lock" /\ FailsWhen(lock # None /\ attempts[c] + 1 = LockAttempts)
    /\ UNCHANGED <<disk, afterCrash, stale, bounds>>
    /\ Returns(c, FALSE)

-----------------------------------------------------------------------------
(* What each operation decides from the document it reads *)

Saves(d) == [act |-> "save", doc |-> d]
Answers(ok) == [act |-> IF ok THEN "ok" ELSE "fail", doc |-> Fresh]

saveLastAcceptedVersion(d, o) == Saves([d EXCEPT !.accepted = o.arg])

(* Mutant: a healthy version that is already recorded is a success at once. *)
CommitWithoutBarrier(d, o) ==
    IF d.pending = o.expected THEN Saves([d EXCEPT !.accepted = o.arg, !.pending = None])
    ELSE Answers(d.pending = None /\ d.accepted = o.arg)

(* Mutant: the health of another pending update is committed. *)
CommitUnexpected(d, o) == Saves([d EXCEPT !.accepted = o.arg, !.pending = None])

(* "Recommit the complete terminal state so success still means a          *)
(* durability barrier was positively acknowledged."                        *)
commitHealthyVersion(d, o) ==
    IF d.pending = o.expected THEN Saves([d EXCEPT !.accepted = o.arg, !.pending = None])
    ELSE IF d.pending = None /\ d.accepted = o.arg THEN Saves(d)
    ELSE Answers(FALSE)

(* Mutant: the newer pending update takes the place of the older. *)
SavePendingOver(d, o) ==
    IF d.pending = o.arg THEN Answers(TRUE) ELSE Saves([d EXCEPT !.pending = o.arg])

savePendingUpdate(d, o) ==
    IF d.pending = None THEN Saves([d EXCEPT !.pending = o.arg]) ELSE Answers(d.pending = o.arg)

(* Mutant: whatever is pending is cleared. *)
ClearWhatever(d, o) ==
    IF d.pending # None THEN Saves([d EXCEPT !.pending = None]) ELSE Answers(FALSE)

clearPendingUpdateIfMatches(d, o) ==
    IF d.pending = o.arg THEN Saves([d EXCEPT !.pending = None]) ELSE Answers(FALSE)

clearPendingUpdate(d) == Saves([d EXCEPT !.pending = None])

(* Mutant: only the primary is searched for resume records of the old kind. *)
ScrubPrimaryOnly(d) ==
    IF HasResume(disk["primary"]) THEN Saves([d EXCEPT !.resume = FALSE])
    ELSE [act |-> "sidecar", doc |-> d]

(* scrubEmbeddedDownloadResumesLocked: the old map goes from the primary   *)
(* and its snapshot; a snapshot that is corrupt, or the only one to hold   *)
(* the map, is replaced by the primary.                                    *)
scrubEmbeddedDownloadResumes(d) ==
    IF HasResume(disk["primary"]) THEN Saves([d EXCEPT !.resume = FALSE])
    ELSE IF Documented(disk["primary"]) /\ (disk["backup"] = Corrupt \/ HasResume(disk["backup"]))
    THEN [act |-> "snapshot", doc |-> d]
    ELSE [act |-> "sidecar", doc |-> d]

Decision(d, o) ==
    CASE o.kind = "accept" -> saveLastAcceptedVersion(d, o)
      [] o.kind = "commit" -> commitHealthyVersion(d, o)
      [] o.kind = "save" -> savePendingUpdate(d, o)
      [] o.kind = "clearIf" -> clearPendingUpdateIfMatches(d, o)
      [] o.kind = "clear" -> clearPendingUpdate(d)
      [] o.kind = "mutateResume" -> scrubEmbeddedDownloadResumes(d)
      [] OTHER -> Answers(TRUE)

(* saveLocked adds the schema version, except to a document whose pending  *)
(* update has no digest.                                                   *)
Schema(d) ==
    IF ~ d.versioned /\ d.pending \in Legacy THEN d ELSE [d EXCEPT !.versioned = TRUE]

-----------------------------------------------------------------------------
(* Reading, under both locks *)

(* Mutant: a missing primary is a fresh state, snapshot or not. *)
ReadableAnyway == disk["primary"] # Corrupt

(* loadStateLocked: a state that was there and is gone is an error. *)
Readable ==
    /\ disk["primary"] # Corrupt
    /\ disk["primary"] = Missing => disk["backup"] = Missing

(* The resume operations read the sidecar; loading it needs no state.      *)
CanRead(o) ==
    /\ o.kind \in {"loadResume", "mutateResume"} => disk["sidecar"] # Corrupt
    /\ o.kind # "loadResume" => Readable

Read(c) ==
    /\ pc[c] = "read" /\ UNCHANGED <<disk, afterCrash, bounds>>
    /\ \/ /\ CanRead(op[c]) /\ NoFault
          /\ stale' = [stale EXCEPT ![c] = {}]
          /\ LET decision == Decision(IF Documented(disk["primary"]) THEN disk["primary"] ELSE Fresh, op[c])
             IN IF decision.act \in {"ok", "fail"}
                  THEN Returns(c, decision.act = "ok")
                  ELSE /\ seen' = [seen EXCEPT ![c] = disk] /\ UNCHANGED op
                       /\ doc' = [doc EXCEPT ![c] = IF decision.act = "save"
                                                      THEN Schema(decision.doc) ELSE decision.doc]
                       /\ Goes(c, IF decision.act # "save" THEN decision.act
                                  ELSE IF disk["primary"] = Missing THEN "primary" ELSE "backup")
       \/ FailsWhen(~ CanRead(op[c])) /\ Returns(c, FALSE) /\ UNCHANGED stale

-----------------------------------------------------------------------------
(* Replacing files (writeAtomic over RootedReplace) *)

(* The snapshot's expectation is read when it is written. *)
Outdated(c, f) == IF pc[c] = "idle" \/ f = "backup" THEN stale[c] ELSE stale[c] \union {f}

Visible(c, f, content) ==
    /\ disk' = [disk EXCEPT ![f] = content]
    /\ stale' = [d \in Clients |-> IF d = c THEN stale[c] ELSE Outdated(d, f)]

(* Published, and the directory flushed. *)
Written(c, f, content) ==
    /\ f \notin stale[c] /\ NoFault
    /\ Visible(c, f, content) /\ afterCrash' = [g \in Files |-> {disk'[g]}]

(* Reported as a failure: the target is not the file that was read, or     *)
(* nothing was published, or something was and the flush, the cleanup or   *)
(* the verification failed after it.                                       *)
WriteFails(c, f, content) ==
    /\ \/ FailsWhen(f \in stale[c]) /\ UNCHANGED <<disk, stale, afterCrash>>
       \/ /\ f \notin stale[c] /\ Fault /\ Visible(c, f, content)
          /\ afterCrash' \in {[g \in Files |-> {disk'[g]}],
                              [afterCrash EXCEPT ![f] = @ \union {content}]}
    /\ Returns(c, FALSE)

(* Mutant: a snapshot that is there already is kept. *)
WriteBackupOnce(c) ==
    /\ pc[c] \in {"backup", "snapshot"} /\ UNCHANGED bounds
    /\ IF disk["backup"] # Missing
         THEN Goes(c, IF pc[c] = "backup" THEN "primary" ELSE "sidecar") /\ UNCHANGED <<disk, afterCrash, stale, locals, faults>>
         ELSE \/ Written(c, "backup", seen[c].primary) /\ Goes(c, "primary") /\ UNCHANGED locals
              \/ WriteFails(c, "backup", seen[c].primary)

(* saveLocked writes the snapshot before the primary: what the primary was *)
(* when it was read, or the new document when old resume records are being *)
(* removed.  pc "snapshot" is the snapshot that is scrubbed alone.         *)
WriteBackup(c) ==
    /\ pc[c] \in {"backup", "snapshot"}
    /\ LET content == IF pc[c] = "backup" /\ op[c].kind = "mutateResume" THEN doc[c] ELSE seen[c].primary
       IN \/ Written(c, "backup", content) /\ Goes(c, IF pc[c] = "backup" THEN "primary" ELSE "sidecar") /\ UNCHANGED locals
          \/ WriteFails(c, "backup", content)
    /\ UNCHANGED bounds

WritePrimary(c) ==
    /\ pc[c] = "primary"
    /\ \/ /\ Written(c, "primary", doc[c])
          /\ IF op[c].kind = "mutateResume" THEN Goes(c, "sidecar") /\ UNCHANGED locals ELSE Returns(c, TRUE)
       \/ WriteFails(c, "primary", doc[c])
    /\ UNCHANGED bounds

(* saveDownloadResumesLocked: a sidecar that would not change is left.     *)
WriteSidecar(c) ==
    /\ pc[c] = "sidecar"
    /\ IF seen[c].sidecar = op[c].arg \/ (seen[c].sidecar = Missing /\ op[c].arg = "empty")
         THEN UNCHANGED <<disk, afterCrash, stale>> /\ NoFault /\ Returns(c, TRUE)
         ELSE \/ Written(c, "sidecar", op[c].arg) /\ Returns(c, TRUE)
              \/ WriteFails(c, "sidecar", op[c].arg)
    /\ UNCHANGED bounds

-----------------------------------------------------------------------------
(* The environment *)

Stopped(who) ==
    /\ pc' = [c \in Clients |-> IF c \in who THEN "idle" ELSE pc[c]]
    /\ result' = [c \in Clients |-> IF c \in who THEN NoResult ELSE result[c]]
    /\ lock' = (IF lock \in who THEN None ELSE lock)
    /\ mutex' = [p \in Processes |-> IF \E c \in who : c[1] = p THEN None ELSE mutex[p]]
    /\ crashes < MaxCrashes /\ crashes' = crashes + 1
    /\ op' = [c \in Clients |-> IF c \in who THEN NoOperation ELSE op[c]]
    /\ doc' = [c \in Clients |-> IF c \in who THEN Fresh ELSE doc[c]]
    /\ seen' = [c \in Clients |-> IF c \in who THEN NothingSeen ELSE seen[c]]
    /\ UNCHANGED <<attempts, calls, faults, foreign>>

(* A process is killed; the system releases its locks. *)
Crash(p) ==
    /\ \E c \in Clients : c[1] = p /\ pc[c] # "idle"
    /\ Stopped({c \in Clients : c[1] = p})
    /\ UNCHANGED <<disk, afterCrash, stale>>

PowerFailure ==
    /\ Stopped(Clients)
    /\ disk' \in [primary: afterCrash["primary"], backup: afterCrash["backup"],
                   sidecar: afterCrash["sidecar"]]
    /\ afterCrash' = [f \in Files |-> {disk'[f]}]
    /\ stale' = [c \in Clients |-> {}]

(* Another program deletes or damages a file. *)
Foreign ==
    /\ foreign < MaxForeign /\ foreign' = foreign + 1
    /\ \E f \in Files, content \in {Missing, Corrupt} :
         /\ disk[f] \notin {Missing, content} /\ disk' = [disk EXCEPT ![f] = content]
         /\ afterCrash' = [afterCrash EXCEPT ![f] = @ \union {content}]
         /\ stale' = [c \in Clients |-> Outdated(c, f)]
    /\ UNCHANGED <<mutex, lock, pc, locals, attempts, result, calls, faults, crashes>>

Step(c) ==
    \/ EnterProcess(c) \/ TakeLock(c) \/ RetryLock(c) \/ LockFails(c)
    \/ Read(c) \/ WriteBackup(c) \/ WritePrimary(c) \/ WriteSidecar(c)

Next ==
    \/ \E c \in Clients : Call(c) \/ Step(c)
    \/ \E p \in Processes : Crash(p)
    \/ PowerFailure \/ Foreign

Spec == Init /\ [][Next]_vars

-----------------------------------------------------------------------------
(* Properties *)

TypeOK ==
    /\ \A f \in Files : disk[f] \in Contents(f) /\ afterCrash[f] \subseteq Contents(f)
    /\ mutex \in [Processes -> Threads \union {None}] /\ lock \in Clients \union {None}
    /\ doc \in [Clients -> Documents] /\ attempts \in [Clients -> 0 .. LockAttempts]
    /\ pc \in [Clients -> {"idle", "mutex", "lock", "read", "backup", "primary", "snapshot", "sidecar"}]
    /\ op \in [Clients -> Operations \union {NoOperation}]

(* A commit of a healthy version, a clear or an acceptance that reports    *)
(* success leaves nothing else for a power failure to restore: "success    *)
(* still means a durability barrier was positively acknowledged"           *)
(* (JsonStateStore.cpp), also when an earlier attempt was visible and      *)
(* reported as failed.                                                     *)
CommitAcknowledged ==
    \A c \in Clients :
        result[c].ok /\ result[c].kind \in {"accept", "commit", "clear", "clearIf"} => result[c].durable

(* "Legacy embedded downloadResume maps are ... removed from both the      *)
(* primary state and last-known-good snapshot on the next successful       *)
(* resume mutation" (docs/architecture-plan.md), unless another program    *)
(* damages the snapshot meanwhile.                                         *)
ScrubbedEverywhere ==
    \A c \in Clients :
        result[c].ok /\ result[c].kind = "mutateResume" /\ foreign = 0 => result[c].clean

(* "A missing or corrupt primary continues to fail closed instead of       *)
(* trusting or rewriting its last-known-good snapshot in isolation"        *)
(* (docs/security-model.md): only another program or a power failure       *)
(* changes a state that is corrupt, or gone from beside its snapshot.      *)
FailsClosed ==
    disk["primary"] = Corrupt \/ (disk["primary"] = Missing /\ disk["backup"] # Missing)
       => disk'["primary"] = disk["primary"] \/ foreign' # foreign \/ crashes' # crashes

(* Between the snapshot and the primary of one save there is no write of   *)
(* another call, so the snapshot is what the new primary replaces.         *)
SnapshotIsReplaced ==
    \A c \in Clients :
        (pc[c] = "primary" /\ disk'["primary"] # disk["primary"] /\ disk'["primary"] = doc[c]
           /\ disk["primary"] # Missing /\ foreign = 0 /\ op[c].kind # "mutateResume")
        => disk["backup"] = disk["primary"]

View(content) ==
    IF Documented(content) THEN [accepted |-> content.accepted, pending |-> content.pending] ELSE content

(* The call that holds the lock file, if it may change the state. *)
Serving ==
    IF lock # None /\ op[lock].kind \in {"accept", "commit", "save", "clearIf", "clear"}
    THEN op[lock] ELSE NoOperation

Contract == INSTANCE StateContract WITH
    value <- View(disk["primary"]), request <- Serving,
    restorable <- {View(content) : content \in afterCrash["primary"]}

(* Whatever the interleaving, the crashes and the failing writes, the      *)
(* state file behaves as the atomic state IStateStore.h promises: a call   *)
(* changes it at most once, and a commit, a conditional clear or a save    *)
(* only where the pending update is the one it expects at that moment.     *)
Refines == Contract!Spec

(* What a caller may conclude from a success, in every interleaving and    *)
(* with every failing write: the change is durable, and no credential of   *)
(* an old resume map is left beside the state.                             *)
SuccessIsKept == TypeOK /\ CommitAcknowledged /\ ScrubbedEverywhere

(* The snapshot is what the last save replaced and never stands in for the *)
(* state.                                                                  *)
SnapshotDiscipline == [][FailsClosed /\ SnapshotIsReplaced]_vars
=============================================================================
