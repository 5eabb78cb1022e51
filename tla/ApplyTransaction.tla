--------------------------- MODULE ApplyTransaction ---------------------------
(***************************************************************************)
(* The external updater's transaction engine: updater/ApplyExecutor.cpp    *)
(* over the journal of updater/ApplyJournal.cpp.  One invocation holds     *)
(* .autoupdater/update.lock from before it reads the journal until it      *)
(* exits, so at most one invocation runs; a crash releases the lock and    *)
(* loses every volatile variable.  Each durable write is one action whose  *)
(* outcome is "ok", "lost" (error, nothing published) or "shown" (error,   *)
(* yet published): the three results of writeAtomic and of a rooted commit.*)
(***************************************************************************)
EXTENDS Integers, Sequences, FiniteSets

CONSTANTS
    Paths,          \* managed targets
    Contents,       \* file contents (bytes and permissions together)
    Missing,        \* the observation "no such file"
    AnyFile,        \* an operation without a precondition
    InstallPlans,   \* the plans the application may ask to install
    PlanDirs,       \* backup directories of install plans
    TxIds,          \* transaction identities (random, never reused)
    NoTx,           \* no active pointer / no transaction
    NoPlan, NoSummary, NoRecord, NoTerminal, NoRequest, NoStamp,
    Stamps,         \* completion timestamps
    InitialFiles,   \* the installation the updater finds
    ForeignPaths,   \* targets another program may write
    MaxFaults,      \* bound on failing operations
    MaxCrashes      \* bound on crashes of the updater

File == Contents \union {Missing}
BackupDirs == PlanDirs \union TxIds

(***************************************************************************)
(* Durable records (ApplyPlan.h, ApplyJournal.h).  An operation replaces   *)
(* its target by data, or removes it when data is Missing.                 *)
(***************************************************************************)
Operation == [target : Paths, data : File, pre : File \union {AnyFile}]
Plan == [intent : {"Install", "Rollback"}, rollbackOf : TxIds \union {NoTx},
         ops : Seq(Operation), restart : BOOLEAN, backupDir : BackupDirs]
FileStates == {"Prepared", "Applying", "FilesApplied", "Complete",
               "RollingBack", "RolledBack", "RecoveryFailed"}
RestartStates == {"NotRequested", "NotAttempted", "Intent", "Launched",
                  "Failed", "OutcomeUnknown"}
Summary == [fileState : FileStates, restartState : RestartStates,
            applyError : BOOLEAN, rollbackError : BOOLEAN,
            restartError : BOOLEAN, completedAt : Stamps \union {NoStamp}]
Record == [original : File,
           backupState : {"NotRequired", "Intent", "Durable"},
           applyState : {"Pending", "Intent", "Complete"},
           rollbackState : {"NotStarted", "NotRequired", "Intent",
                            "Complete", "Failed"},
           error : BOOLEAN]
Terminal == [tx : TxIds, completedAt : Stamps \union {NoStamp}]
Request == [intent : {"Install"}, plan : InstallPlans, of : {NoTx}]
             \union [intent : {"Rollback"}, plan : {NoPlan}, of : TxIds]

(***************************************************************************)
(* An install plan names each target once (validateManagedTargetPaths) and *)
(* has no preconditions (writeApplyPlan); its backup directory is scoped   *)
(* by versions and manifest digest only, so two plans may share it.        *)
(***************************************************************************)
DistinctTargets(ops) ==
    \A i, j \in DOMAIN ops : ops[i].target = ops[j].target => i = j

ASSUME PlanAssumption ==
    /\ InstallPlans \subseteq Plan
    /\ \A p \in InstallPlans :
          /\ p.intent = "Install" /\ p.rollbackOf = NoTx
          /\ p.backupDir \in PlanDirs
          /\ DistinctTargets(p.ops)
          /\ \A i \in DOMAIN p.ops : p.ops[i].pre = AnyFile
ASSUME SentinelAssumption ==
    /\ Missing \notin Contents /\ AnyFile \notin File
    /\ NoTx \notin TxIds /\ NoStamp \notin Stamps /\ Stamps # {}
    /\ NoPlan \notin Plan /\ NoSummary \notin Summary
    /\ NoRecord \notin Record /\ NoTerminal \notin Terminal
    /\ NoRequest \notin Request /\ PlanDirs \cap TxIds = {}
ASSUME EnvironmentAssumption ==
    /\ InitialFiles \in [Paths -> File] /\ ForeignPaths \subseteq Paths
    /\ MaxFaults \in Nat /\ MaxCrashes \in Nat

VARIABLES
    install,    \* the managed files on disk
    backup,     \* backup[dir][path]
    plans,      \* <tx>.plan.json
    summary,    \* <tx>.json
    records,    \* <tx>.ops/<i>.json, prepared in order of index
    active,     \* active.json
    terminal,   \* terminal.json
    pc,         \* where the running invocation is, "idle" when none runs
    req,        \* the plan it was given
    recovering, \* it runs recover() of the transaction it found active
    cur,        \* its transaction
    idx,        \* the operation it works on
    rec,        \* that operation's record in memory
    seen,       \* the observation its next compare-and-swap expects
    sameId,     \* the target still has the identity that was observed
    result,     \* what the last invocation reported
    launches,   \* how often each transaction started the application
    touched,    \* what another program did to each path
    faults, crashes

durable == <<backup, plans, summary, records, active, terminal>>
volatile == <<pc, req, recovering, cur, idx, rec, seen, sameId>>
ghosts == <<launches, touched, crashes>>
vars == <<install, durable, volatile, result, ghosts, faults>>

PCs == {"idle", "recover", "dispatch", "prepared", "prepare", "backup",
        "backupDurable", "prepareFailed", "applying", "apply", "commit",
        "applyCheck", "applyFailed", "markRollback", "rollback", "restore",
        "restoreCheck", "rollbackOpFailed", "rollbackFailed", "restart",
        "launch", "launched", "launchFailed", "complete", "terminalFailed",
        "publish", "clear"}

(* Every variable holds a value of its record type. *)
TypeOK ==
    /\ install \in [Paths -> File]
    /\ backup \in [BackupDirs -> [Paths -> File]]
    /\ plans \in [TxIds -> Plan \union {NoPlan}]
    /\ summary \in [TxIds -> Summary \union {NoSummary}]
    /\ records \in [TxIds -> Seq(Record)]
    /\ active \in TxIds \union {NoTx}
    /\ terminal \in Terminal \union {NoTerminal}
    /\ pc \in PCs
    /\ req \in Request \union {NoRequest}
    /\ recovering \in BOOLEAN
    /\ cur \in TxIds \union {NoTx}
    /\ idx \in Nat
    /\ rec \in Record \union {NoRecord}
    /\ seen \in File
    /\ sameId \in BOOLEAN
    /\ result \in {"none", "ok", "fail"}
    /\ launches \in [TxIds -> Nat]
    /\ touched \in [Paths -> {"no", "replaced", "edited"}]
    /\ faults \in 0 .. MaxFaults
    /\ crashes \in 0 .. MaxCrashes

Init ==
    /\ install = InitialFiles
    /\ backup = [d \in BackupDirs |-> [p \in Paths |-> Missing]]
    /\ plans = [t \in TxIds |-> NoPlan]
    /\ summary = [t \in TxIds |-> NoSummary]
    /\ records = [t \in TxIds |-> <<>>]
    /\ active = NoTx
    /\ terminal = NoTerminal
    /\ pc = "idle" /\ req = NoRequest /\ recovering = FALSE
    /\ cur = NoTx /\ idx = 0 /\ rec = NoRecord /\ seen = Missing /\ sameId = TRUE
    /\ result = "none"
    /\ launches = [t \in TxIds |-> 0]
    /\ touched = [p \in Paths |-> "no"]
    /\ faults = 0 /\ crashes = 0

-----------------------------------------------------------------------------
(* Reading the journal. *)

Ops(t) == plans[t].ops
Op(t, i) == Ops(t)[i]
OpAt == Op(cur, idx)

LoadedRecords(t) == Len(records[t]) = Len(Ops(t))

(* Mutant: an interrupted launch counts as not started. *)
MutRestartMayHaveStarted(t) == summary[t].restartState = "Launched"

RestartMayHaveStarted(t) ==
    summary[t].restartState \in {"Intent", "Launched", "OutcomeUnknown"}

(* validateSummaryRecord and validateRecoveredSummary: the summaries that  *)
(* are written and that a later invocation accepts.                        *)
AllowedRestartStates(fileState) ==
    CASE fileState = "FilesApplied" ->
             {"NotRequested", "NotAttempted", "Intent", "OutcomeUnknown"}
      [] fileState = "Complete" ->
             {"NotRequested", "Launched", "Failed", "OutcomeUnknown"}
      [] OTHER -> {"NotRequested", "NotAttempted"}

ConsistentSummary(plan, s) ==
    /\ s.restartState = "NotRequested" <=> ~plan.restart
    /\ s.restartError <=> s.restartState \in {"Failed", "OutcomeUnknown"}
    /\ s.rollbackError <=> s.fileState = "RecoveryFailed"
    /\ s.restartState \in AllowedRestartStates(s.fileState)
    /\ s.completedAt # NoStamp <=> s.fileState = "Complete"

ValidSummary(t) ==
    /\ plans[t] # NoPlan /\ summary[t] # NoSummary
    /\ ConsistentSummary(plans[t], summary[t])

(* verifyAppliedState: installed files and backup evidence of t, from disk. *)
VerifiedOp(t, i) ==
    LET r == records[t][i]
        target == Op(t, i).target
    IN  /\ r.applyState = "Complete" /\ ~r.error
        /\ install[target] = Op(t, i).data
        /\ IF r.original = Missing
           THEN r.backupState = "NotRequired"
           ELSE \/ /\ r.backupState = "NotRequired"
                   /\ r.rollbackState = "NotRequired"
                   /\ install[target] = r.original
                \/ /\ r.backupState = "Durable"
                   /\ backup[plans[t].backupDir][target] = r.original

VerifyAppliedState(t) ==
    LoadedRecords(t) /\ \A i \in 1 .. Len(Ops(t)) : VerifiedOp(t, i)

(* Mutant: an unknown restart counts as a success. *)
MutRestartFailed(t) == summary[t].restartState = "Failed"

(* completedRestartFailure: what a completed transaction still reports. *)
RestartFailed(t) ==
    summary[t].restartState \in {"Failed", "OutcomeUnknown", "Intent"}

-----------------------------------------------------------------------------
(* Outcomes of durable writes, and leaving the invocation. *)

Outcomes == {"ok", "lost", "shown"}

Spend(o) ==
    /\ o # "ok" => faults < MaxFaults
    /\ faults' = IF o = "ok" THEN faults ELSE faults + 1

(* A check fails because of what it finds or, a fault, because it cannot   *)
(* read what it looks at.                                                  *)
FailedCheck(bad, o) == o = (IF bad THEN "ok" ELSE "lost") /\ Spend(o)

WriteSummary(s, o) ==
    /\ Spend(o)
    /\ summary' = IF o = "lost" THEN summary ELSE [summary EXCEPT ![cur] = s]

WriteOperation(r, o) ==
    /\ Spend(o)
    /\ records' =
         IF o = "lost" THEN records
         ELSE [records EXCEPT ![cur] =
                  IF idx <= Len(@) THEN [@ EXCEPT ![idx] = r] ELSE Append(@, r)]

Forget == rec' = NoRecord /\ seen' = Missing /\ sameId' = TRUE

Goto(label) == pc' = label /\ UNCHANGED <<req, recovering, cur>>

Return(r) ==
    /\ pc' = "idle" /\ req' = NoRequest /\ recovering' = FALSE
    /\ cur' = NoTx /\ idx' = 0 /\ Forget
    /\ result' = r

(* Move on to operation i with nothing in memory. *)
Proceed(label, i) ==
    Goto(label) /\ idx' = i /\ Forget /\ UNCHANGED result

(* Stay on this operation with record r in memory. *)
Continue(label, r) ==
    Goto(label) /\ rec' = r /\ UNCHANGED <<idx, result>>

KeepObservation == UNCHANGED <<seen, sameId>>

-----------------------------------------------------------------------------
(* executeApplyPlanWithDependencies: take the lock, look at active.json. *)
Invoke(r) ==
    /\ pc = "idle"
    /\ r.intent = "Rollback" =>
          /\ summary[r.of] # NoSummary /\ summary[r.of].fileState = "Complete"
          /\ plans[r.of].intent = "Install"
    /\ req' = r /\ result' = "none"
    /\ recovering' = (active # NoTx)
    /\ cur' = active
    /\ pc' = IF active # NoTx THEN "recover" ELSE "dispatch"
    /\ UNCHANGED <<install, durable, idx, rec, seen, sameId, ghosts, faults>>

(* recover(): what the journal of the active transaction calls for. *)
RecoverRejected == ~ValidSummary(cur)

(* Mutants: a completed transaction whose files changed is rolled back;    *)
(* applied files are published without completing the summary; a rollback  *)
(* in progress is taken for a finished one.                                *)
MutRecoverCompleteRollsBack(verified) ==
    IF ~verified THEN "markRollback" ELSE "publish"

MutRecoverSkipsCompletion(verified) ==
    IF summary[cur].fileState \in {"Complete", "FilesApplied"} THEN "publish"
    ELSE "markRollback"

MutRecoverTrustsRollingBack(verified) ==
    IF summary[cur].fileState \in {"RollingBack", "RolledBack"} THEN "clear"
    ELSE "markRollback"

RecoverTarget(verified) ==
    LET s == summary[cur]
    IN  CASE s.fileState = "Complete" -> IF verified THEN "publish" ELSE "terminalFailed"
          [] s.fileState = "RolledBack" -> "rollback"
          [] s.fileState = "FilesApplied" /\ verified -> "restart"
          [] OTHER -> IF RestartMayHaveStarted(cur) THEN "terminalFailed"
                      ELSE "markRollback"

(* Installed files that cannot be read count as not verified. *)
Recover(o) ==
    /\ pc = "recover" /\ o \in {"ok", "lost"} /\ Spend(o)
    /\ IF RecoverRejected THEN Return("fail")
       ELSE Proceed(RecoverTarget(o = "ok" /\ VerifyAppliedState(cur)), Len(Ops(cur)))
    /\ UNCHANGED <<install, durable, ghosts>>

(* recordTerminalReconciliationFailure: fail closed, keep active.json. *)
TerminalFailure(s) ==
    IF s.restartState = "Intent"
    THEN [s EXCEPT !.applyError = TRUE, !.restartState = "OutcomeUnknown",
                   !.restartError = TRUE]
    ELSE [s EXCEPT !.applyError = TRUE]

RecordTerminalReconciliationFailure(o) ==
    /\ pc = "terminalFailed"
    /\ WriteSummary(TerminalFailure(summary[cur]), o)
    /\ Return("fail")
    /\ UNCHANGED <<install, backup, plans, records, active, terminal, ghosts>>

-----------------------------------------------------------------------------
(* With no active transaction: replay the receipt, reject, or start. *)

TrustedTerminal ==
    /\ terminal # NoTerminal
    /\ ValidSummary(terminal.tx)
    /\ terminal.completedAt = summary[terminal.tx].completedAt
    /\ summary[terminal.tx].fileState = "Complete"

(* The receipt already answers the request. *)
Replays ==
    /\ terminal # NoTerminal
    /\ \/ req.intent = "Install" /\ plans[terminal.tx] = req.plan
       \/ /\ req.intent = "Rollback" /\ terminal.tx # req.of
          /\ plans[terminal.tx].intent = "Rollback"
          /\ plans[terminal.tx].rollbackOf = req.of

RollbackSource ==
    /\ TrustedTerminal
    /\ terminal.tx = req.of /\ plans[req.of].intent = "Install"
    /\ VerifyAppliedState(req.of)

(* deriveRollbackPlan: the inverse of each operation that changed a file,  *)
(* last first, bound to the file the forward transaction left.             *)
InverseOp(t, i) ==
    [target |-> Op(t, i).target, data |-> records[t][i].original, pre |-> Op(t, i).data]

Reversible(t) == {i \in 1 .. Len(Ops(t)) : records[t][i].rollbackState # "NotRequired"}

FromLast(t, i) == Cardinality({j \in Reversible(t) : j >= i})

RollbackOps(t) ==
    [k \in 1 .. Cardinality(Reversible(t)) |->
        InverseOp(t, CHOOSE i \in Reversible(t) : FromLast(t, i) = k)]

RollbackPlan(t) ==
    [intent |-> "Rollback", rollbackOf |-> t, ops |-> RollbackOps(t),
     restart |-> plans[t].restart, backupDir |-> t]

ReplayTerminal ==
    /\ pc = "dispatch" /\ Replays
    /\ Return(IF /\ TrustedTerminal /\ VerifyAppliedState(terminal.tx)
                 /\ ~RestartFailed(terminal.tx)
              THEN "ok" ELSE "fail")
    /\ UNCHANGED <<install, durable, ghosts, faults>>

RejectRollback ==
    /\ pc = "dispatch" /\ ~Replays
    /\ req.intent = "Rollback" /\ ~RollbackSource
    /\ Return("fail")
    /\ UNCHANGED <<install, durable, ghosts, faults>>

StartsNew == /\ pc = "dispatch" /\ ~Replays
             /\ req.intent = "Rollback" => RollbackSource

NewPlan == IF req.intent = "Install" THEN req.plan ELSE RollbackPlan(req.of)

(* validateApplyPlanResources: well-formed, and no target named twice. *)
ValidateApplyPlan(plan) == plan \in Plan /\ DistinctTargets(plan.ops)

(* The plan is refused, or no identity can be made (TxIds is exhausted). *)
RejectStart ==
    /\ StartsNew
    /\ ValidateApplyPlan(NewPlan) => \A t \in TxIds : plans[t] # NoPlan
    /\ Return("fail")
    /\ UNCHANGED <<install, durable, ghosts, faults>>

(* start(): the immutable plan snapshot under a fresh identity. *)
StartTransaction(t, o) ==
    /\ StartsNew /\ ValidateApplyPlan(NewPlan) /\ plans[t] = NoPlan
    /\ Spend(o)
    /\ plans' = IF o = "lost" THEN plans ELSE [plans EXCEPT ![t] = NewPlan]
    /\ IF o = "ok"
       THEN /\ cur' = t /\ pc' = "prepared" /\ Forget
            /\ UNCHANGED <<req, recovering, idx, result>>
       ELSE Return("fail")
    /\ UNCHANGED <<install, backup, summary, records, active, terminal, ghosts>>

-----------------------------------------------------------------------------
(* Preparation: every record and backup before active.json. *)

PersistPrepared(o) ==
    /\ pc = "prepared"
    /\ WriteSummary([fileState |-> "Prepared",
                     restartState |-> IF plans[cur].restart THEN "NotAttempted"
                                      ELSE "NotRequested",
                     applyError |-> FALSE, rollbackError |-> FALSE,
                     restartError |-> FALSE, completedAt |-> NoStamp], o)
    /\ IF o = "ok" THEN Proceed("prepare", 1) ELSE Return("fail")
    /\ UNCHANGED <<install, backup, plans, records, active, terminal, ghosts>>

(* prepareOne up to the first durable record of the operation. *)
InitialRecord(file, data) ==
    [original |-> file,
     backupState |-> IF file = Missing \/ file = data THEN "NotRequired" ELSE "Intent",
     applyState |-> IF file = data THEN "Complete" ELSE "Pending",
     rollbackState |-> IF file = data THEN "NotRequired" ELSE "NotStarted",
     error |-> FALSE]

PreconditionHolds(file, pre) == pre = AnyFile \/ file = pre

PrepareOne(o) ==
    LET file == install[OpAt.target]
        r == InitialRecord(file, OpAt.data)
    IN  /\ pc = "prepare" /\ idx <= Len(Ops(cur))
        /\ PreconditionHolds(file, OpAt.pre)
        /\ WriteOperation(r, o)
        /\ IF o # "ok" THEN Continue("prepareFailed", r) /\ KeepObservation
           ELSE IF r.backupState = "Intent" THEN Continue("backup", r) /\ KeepObservation
           ELSE Proceed("prepare", idx + 1)
        /\ UNCHANGED <<install, backup, plans, summary, active, terminal, ghosts>>

PreconditionFailed ==
    /\ pc = "prepare" /\ idx <= Len(Ops(cur))
    /\ ~PreconditionHolds(install[OpAt.target], OpAt.pre)
    /\ Return("fail")
    /\ UNCHANGED <<install, durable, ghosts, faults>>

(* ensureBackup: an existing backup is used only if it is the original.    *)
ExistingBackup == backup[plans[cur].backupDir][OpAt.target]

(* Mutant: an existing backup is overwritten without being verified. *)
MutBackupUsable == install[OpAt.target] = rec.original

BackupUsable ==
    /\ install[OpAt.target] = rec.original
    /\ ExistingBackup \in {Missing, rec.original}

EnsureBackup(o) ==
    /\ pc = "backup" /\ BackupUsable
    /\ Spend(o)
    /\ backup' = IF o = "lost" THEN backup
                 ELSE [backup EXCEPT ![plans[cur].backupDir][OpAt.target] = rec.original]
    /\ Continue(IF o = "ok" THEN "backupDurable" ELSE "prepareFailed", rec)
    /\ KeepObservation
    /\ UNCHANGED <<install, plans, summary, records, active, terminal, ghosts>>

BackupRejected ==
    /\ pc = "backup" /\ ~BackupUsable
    /\ Continue("prepareFailed", rec) /\ KeepObservation
    /\ UNCHANGED <<install, durable, ghosts, faults>>

PersistBackupDurable(o) ==
    LET r == [rec EXCEPT !.backupState = "Durable"]
    IN  /\ pc = "backupDurable"
        /\ WriteOperation(r, o)
        /\ IF o = "ok" THEN Proceed("prepare", idx + 1)
           ELSE Continue("prepareFailed", r) /\ KeepObservation
        /\ UNCHANGED <<install, backup, plans, summary, active, terminal, ghosts>>

(* failOperation during preparation: the orphan transaction is abandoned. *)
FailPreparation(o) ==
    /\ pc = "prepareFailed"
    /\ WriteOperation([rec EXCEPT !.error = TRUE], o)
    /\ Return("fail")
    /\ UNCHANGED <<install, backup, plans, summary, active, terminal, ghosts>>

(* writeActive: from here on the transaction must be recovered. *)
PublishActive(o) ==
    /\ pc = "prepare" /\ idx > Len(Ops(cur))
    /\ Spend(o)
    /\ active' = IF o = "lost" THEN active ELSE cur
    /\ IF o = "ok" THEN Proceed("applying", 0) ELSE Return("fail")
    /\ UNCHANGED <<install, backup, plans, summary, records, terminal, ghosts>>

-----------------------------------------------------------------------------
(* Applying the operations. *)

PersistApplying(o) ==
    /\ pc = "applying"
    /\ WriteSummary([summary[cur] EXCEPT !.fileState = "Applying"], o)
    /\ IF o = "ok" THEN Proceed("apply", 1) ELSE Proceed("markRollback", 0)
    /\ UNCHANGED <<install, backup, plans, records, active, terminal, ghosts>>

AlreadyApplied(r) == r.applyState = "Complete" /\ r.rollbackState = "NotRequired"

(* The staged file of a rollback plan is the forward transaction's backup. *)
StagedMatches ==
    plans[cur].intent = "Rollback" /\ OpAt.data # Missing =>
        backup[plans[plans[cur].rollbackOf].backupDir][OpAt.target] = OpAt.data

(* applyOne finds the record it prepared and the file it recorded. *)
Applicable ==
    LET r == records[cur][idx]
    IN  /\ install[OpAt.target] = r.original
        /\ r.applyState = "Pending" /\ r.rollbackState = "NotStarted"
        /\ r.original # Missing => r.backupState = "Durable"
        /\ StagedMatches

SkipApplied ==
    LET r == records[cur][idx]
    IN  /\ pc = "apply" /\ idx <= Len(Ops(cur))
        /\ AlreadyApplied(r) /\ install[OpAt.target] = r.original
        /\ Proceed("apply", idx + 1)
        /\ UNCHANGED <<install, durable, ghosts, faults>>

TargetChanged ==
    LET r == records[cur][idx]
    IN  IF AlreadyApplied(r) THEN install[OpAt.target] # r.original ELSE ~Applicable

(* The target changed, or it or the staged file cannot be used. *)
ApplyRejected(o) ==
    /\ pc = "apply" /\ idx <= Len(Ops(cur))
    /\ FailedCheck(TargetChanged, o)
    /\ Continue("applyFailed", records[cur][idx]) /\ KeepObservation
    /\ UNCHANGED <<install, durable, ghosts>>

(* The prepared record is missing or cannot be read. *)
ApplyUnloadable(o) ==
    /\ pc = "apply" /\ idx <= Len(Ops(cur))
    /\ FailedCheck(idx > Len(records[cur]), o)
    /\ Proceed("markRollback", 0)
    /\ UNCHANGED <<install, durable, ghosts>>

(* Mutant: the commit goes ahead although the intent was not recorded. *)
MutApplyIntent(o) ==
    LET r == [records[cur][idx] EXCEPT !.applyState = "Intent"]
    IN  /\ pc = "apply" /\ idx <= Len(Ops(cur))
        /\ ~AlreadyApplied(records[cur][idx]) /\ Applicable
        /\ WriteOperation(r, o)
        /\ Continue("commit", r)
        /\ seen' = install[OpAt.target] /\ UNCHANGED sameId
        /\ UNCHANGED <<install, backup, plans, summary, active, terminal, ghosts>>

ApplyIntent(o) ==
    LET r == [records[cur][idx] EXCEPT !.applyState = "Intent"]
    IN  /\ pc = "apply" /\ idx <= Len(Ops(cur))
        /\ ~AlreadyApplied(records[cur][idx]) /\ Applicable
        /\ WriteOperation(r, o)
        /\ Continue(IF o = "ok" THEN "commit" ELSE "applyFailed", r)
        /\ seen' = IF o = "ok" THEN install[OpAt.target] ELSE Missing
        /\ UNCHANGED sameId
        /\ UNCHANGED <<install, backup, plans, summary, active, terminal, ghosts>>

(* RootedEntryExpectation: a missing entry must still be missing, an       *)
(* existing one must still have the observed identity.                     *)
(* Mutant: a replaced target is not noticed. *)
MutExpectationHolds == (seen = Missing) = (install[OpAt.target] = Missing)

ExpectationHolds ==
    IF seen = Missing THEN install[OpAt.target] = Missing
    ELSE install[OpAt.target] # Missing /\ sameId

Swap(data, o) ==
    /\ ExpectationHolds \/ o = "ok"
    /\ Spend(o)
    /\ install' = IF ExpectationHolds /\ o # "lost"
                  THEN [install EXCEPT ![OpAt.target] = data] ELSE install

Commit(o) ==
    /\ pc = "commit"
    /\ Swap(OpAt.data, o)
    /\ Continue(IF ExpectationHolds /\ o = "ok" THEN "applyCheck" ELSE "applyFailed", rec)
    /\ seen' = Missing /\ sameId' = TRUE
    /\ UNCHANGED <<durable, ghosts>>

(* The installed file is observed again before the record is completed. *)
ApplyCheck(o) ==
    LET r == [rec EXCEPT !.applyState = "Complete"]
    IN  /\ pc = "applyCheck" /\ install[OpAt.target] = OpAt.data
        /\ WriteOperation(r, o)
        /\ IF o = "ok" THEN Proceed("apply", idx + 1)
           ELSE Continue("applyFailed", r) /\ KeepObservation
        /\ UNCHANGED <<install, backup, plans, summary, active, terminal, ghosts>>

ApplyCheckFailed(o) ==
    /\ pc = "applyCheck" /\ FailedCheck(install[OpAt.target] # OpAt.data, o)
    /\ Continue("applyFailed", rec) /\ KeepObservation
    /\ UNCHANGED <<install, durable, ghosts>>

(* failOperation while applying: start() goes on to failAndRollback. *)
FailApply(o) ==
    /\ pc = "applyFailed"
    /\ WriteOperation([rec EXCEPT !.error = TRUE], o)
    /\ Proceed("markRollback", 0)
    /\ UNCHANGED <<install, backup, plans, summary, active, terminal, ghosts>>

PersistFilesApplied(o) ==
    /\ pc = "apply" /\ idx > Len(Ops(cur))
    /\ WriteSummary([summary[cur] EXCEPT !.fileState = "FilesApplied"], o)
    /\ Proceed(IF o = "ok" THEN "restart" ELSE "markRollback", 0)
    /\ UNCHANGED <<install, backup, plans, records, active, terminal, ghosts>>

-----------------------------------------------------------------------------
(* Rolling back: failAndRollback and recoverByRollback. *)

MarkRollback(o) ==
    /\ pc = "markRollback"
    /\ WriteSummary([summary[cur] EXCEPT !.fileState = "RollingBack",
                     !.applyError = TRUE, !.rollbackError = FALSE], o)
    /\ IF o = "ok" THEN Proceed("rollback", Len(Ops(cur))) ELSE Return("fail")
    /\ UNCHANGED <<install, backup, plans, records, active, terminal, ghosts>>

(* Mutant: the walk over the records is off by one. *)
MutRollbackSkip(o) ==
    LET r == records[cur][idx]
    IN  /\ pc = "rollback" /\ LoadedRecords(cur) /\ idx > 0
        /\ install[OpAt.target] = r.original
        /\ WriteOperation([r EXCEPT !.error = FALSE, !.rollbackState = "Complete"], o)
        /\ IF o = "ok" THEN Proceed("rollback", idx - 2)
           ELSE Proceed("rollbackFailed", 0)
        /\ UNCHANGED <<install, backup, plans, summary, active, terminal, ghosts>>

(* rollbackAll walks the records backwards, rollbackOne looks at the file. *)
RollbackSkip(o) ==
    LET r == records[cur][idx]
    IN  /\ pc = "rollback" /\ LoadedRecords(cur) /\ idx > 0
        /\ install[OpAt.target] = r.original
        /\ WriteOperation([r EXCEPT !.error = FALSE,
                !.rollbackState = IF r.applyState = "Pending" THEN "NotRequired"
                                  ELSE "Complete"], o)
        /\ IF o = "ok" THEN Proceed("rollback", idx - 1)
           ELSE Proceed("rollbackFailed", 0)
        /\ UNCHANGED <<install, backup, plans, summary, active, terminal, ghosts>>

(* The target is ours to restore: our installed content, or a file missing *)
(* after a replacement was begun.                                          *)
(* Mutant: only a recorded completion is taken for a change of ours. *)
MutRestorable ==
    records[cur][idx].applyState = "Complete" /\ install[OpAt.target] = OpAt.data

Restorable ==
    LET r == records[cur][idx]
        file == install[OpAt.target]
    IN  /\ r.applyState # "Pending"
        /\ \/ file = OpAt.data
           \/ /\ file = Missing /\ r.original # Missing
              /\ OpAt.data # Missing /\ r.backupState = "Durable"

RollbackIntent(o) ==
    LET r == [records[cur][idx] EXCEPT !.rollbackState = "Intent", !.error = FALSE]
    IN  /\ pc = "rollback" /\ LoadedRecords(cur) /\ idx > 0
        /\ install[OpAt.target] # r.original /\ Restorable
        /\ WriteOperation(r, o)
        /\ IF o = "ok"
           THEN /\ Continue("restore", r)
                /\ seen' = install[OpAt.target] /\ UNCHANGED sameId
           ELSE Proceed("rollbackFailed", 0)
        /\ UNCHANGED <<install, backup, plans, summary, active, terminal, ghosts>>

RollbackRejected(o) ==
    LET r == records[cur][idx]
    IN  /\ pc = "rollback" /\ LoadedRecords(cur) /\ idx > 0
        /\ FailedCheck(install[OpAt.target] # r.original /\ ~Restorable, o)
        /\ Continue("rollbackOpFailed", r) /\ KeepObservation
        /\ UNCHANGED <<install, durable, ghosts>>

(* loadOperationRecords fails before any file is restored. *)
RollbackUnloadable(o) ==
    /\ pc = "rollback" /\ idx > 0 /\ idx = Len(Ops(cur))
    /\ FailedCheck(~LoadedRecords(cur), o)
    /\ Proceed("rollbackFailed", 0)
    /\ UNCHANGED <<install, durable, ghosts>>

BackupVerified ==
    \/ rec.original = Missing
    \/ rec.backupState = "Durable" /\ ExistingBackup = rec.original

Restore(o) ==
    /\ pc = "restore" /\ BackupVerified
    /\ Swap(rec.original, o)
    /\ Continue(IF ExpectationHolds /\ o = "ok" THEN "restoreCheck"
                ELSE "rollbackOpFailed", rec)
    /\ seen' = Missing /\ sameId' = TRUE
    /\ UNCHANGED <<durable, ghosts>>

RestoreUnverified(o) ==
    /\ pc = "restore" /\ rec.original # Missing
    /\ FailedCheck(~BackupVerified, o)
    /\ Continue("rollbackOpFailed", rec) /\ seen' = Missing /\ sameId' = TRUE
    /\ UNCHANGED <<install, durable, ghosts>>

RestoreCheck(o) ==
    /\ pc = "restoreCheck" /\ install[OpAt.target] = rec.original
    /\ WriteOperation([rec EXCEPT !.rollbackState = "Complete"], o)
    /\ IF o = "ok" THEN Proceed("rollback", idx - 1)
       ELSE Proceed("rollbackFailed", 0)
    /\ UNCHANGED <<install, backup, plans, summary, active, terminal, ghosts>>

RestoreCheckFailed(o) ==
    /\ pc = "restoreCheck" /\ FailedCheck(install[OpAt.target] # rec.original, o)
    /\ Continue("rollbackOpFailed", rec) /\ KeepObservation
    /\ UNCHANGED <<install, durable, ghosts>>

MarkRollbackOperationFailed(o) ==
    /\ pc = "rollbackOpFailed"
    /\ WriteOperation([rec EXCEPT !.rollbackState = "Failed", !.error = TRUE], o)
    /\ Proceed("rollbackFailed", 0)
    /\ UNCHANGED <<install, backup, plans, summary, active, terminal, ghosts>>

RecordRollbackFailure(o) ==
    /\ pc = "rollbackFailed"
    /\ WriteSummary([summary[cur] EXCEPT !.fileState = "RecoveryFailed",
                     !.rollbackError = TRUE], o)
    /\ Return("fail")
    /\ UNCHANGED <<install, backup, plans, records, active, terminal, ghosts>>

(* A rollback found complete by recover() is only reconciled, not rewritten.*)
PersistRolledBack(o) ==
    /\ pc = "rollback" /\ LoadedRecords(cur) /\ idx = 0
    /\ IF summary[cur].fileState = "RolledBack"
       THEN o = "ok" /\ UNCHANGED <<summary, faults>> /\ Proceed("clear", 0)
       ELSE /\ WriteSummary([summary[cur] EXCEPT !.fileState = "RolledBack",
                             !.rollbackError = FALSE], o)
            /\ IF o = "ok" THEN Proceed("clear", 0) ELSE Return("fail")
    /\ UNCHANGED <<install, backup, plans, records, active, terminal, ghosts>>

-----------------------------------------------------------------------------
(* finishRestart, persistCompletion, publishTerminalAndClear. *)

(* Mutant: an intent without an outcome is tried again. *)
MutRestartPending == summary[cur].restartState \in {"NotAttempted", "Intent"}

RestartPending == summary[cur].restartState = "NotAttempted"

RestartIntent(o) ==
    /\ pc = "restart" /\ RestartPending
    /\ WriteSummary([summary[cur] EXCEPT !.restartState = "Intent"], o)
    /\ IF o = "ok" THEN Proceed("launch", 0) ELSE Return("fail")
    /\ UNCHANGED <<install, backup, plans, records, active, terminal, ghosts>>

RestartSettled ==
    /\ pc = "restart" /\ ~RestartPending
    /\ Proceed("complete", 0)
    /\ UNCHANGED <<install, durable, ghosts, faults>>

(* An error is reported also when the application has started and only the *)
(* child's launch status could not be read ("shown").                      *)
LaunchRestart(o) ==
    /\ pc = "launch"
    /\ Spend(o)
    /\ launches' = IF o = "lost" THEN launches ELSE [launches EXCEPT ![cur] = @ + 1]
    /\ Proceed(IF o = "ok" THEN "launched" ELSE "launchFailed", 0)
    /\ UNCHANGED <<install, durable, touched, crashes>>

(* Mutant: an interrupted intent is carried into the completed summary. *)
MutFinalRestartState ==
    CASE pc = "launched" -> "Launched"
      [] pc = "launchFailed" -> "Failed"
      [] OTHER -> summary[cur].restartState

(* The restart state the completed summary records. *)
FinalRestartState ==
    CASE pc = "launched" -> "Launched"
      [] pc = "launchFailed" -> "Failed"
      [] OTHER -> IF summary[cur].restartState = "Intent" THEN "OutcomeUnknown"
                  ELSE summary[cur].restartState

PersistCompletion(stamp, o) ==
    /\ pc \in {"complete", "launched", "launchFailed"}
    /\ WriteSummary([summary[cur] EXCEPT !.fileState = "Complete",
                     !.restartState = FinalRestartState,
                     !.restartError = FinalRestartState \in {"Failed", "OutcomeUnknown"},
                     !.completedAt = IF @ = NoStamp THEN stamp ELSE @], o)
    /\ IF o = "ok" THEN Proceed("publish", 0) ELSE Return("fail")
    /\ UNCHANGED <<install, backup, plans, records, active, terminal, ghosts>>

PublishTerminal(o) ==
    /\ pc = "publish"
    /\ Spend(o)
    /\ terminal' = IF o = "lost" THEN terminal
                   ELSE [tx |-> cur, completedAt |-> summary[cur].completedAt]
    /\ IF o = "ok" THEN Proceed("clear", 0) ELSE Return("fail")
    /\ UNCHANGED <<install, backup, plans, summary, records, active, ghosts>>

(* clearActive; a detached rollback request goes on once active.json is gone. *)
ClearActive(o) ==
    /\ pc = "clear"
    /\ Spend(o)
    /\ active' = IF o = "lost" THEN active ELSE NoTx
    /\ IF recovering /\ req.intent = "Rollback" /\ o # "lost"
       THEN /\ pc' = "dispatch" /\ recovering' = FALSE
            /\ cur' = NoTx /\ idx' = 0 /\ Forget /\ UNCHANGED <<req, result>>
       ELSE Return(IF /\ o = "ok" /\ summary[cur].fileState = "Complete"
                      /\ ~RestartFailed(cur)
                   THEN "ok" ELSE "fail")
    /\ UNCHANGED <<install, backup, plans, summary, records, terminal, ghosts>>

-----------------------------------------------------------------------------
(* The environment. *)

(* The updater is killed: the kernel drops its lock, only the disk remains. *)
Crash ==
    /\ pc # "idle" /\ crashes < MaxCrashes
    /\ crashes' = crashes + 1
    /\ Return("fail")
    /\ UNCHANGED <<install, durable, launches, touched, faults>>

(* Another program replaces (or removes, or creates) a managed file, or    *)
(* edits it in place, which leaves its identity alone.                     *)
ForeignWrite(p, file, how) ==
    /\ touched[p] = "no" /\ file # install[p]
    /\ how = "edited" => install[p] # Missing /\ file # Missing
    /\ install' = [install EXCEPT ![p] = file]
    /\ touched' = [touched EXCEPT ![p] = how]
    /\ sameId' = (sameId /\ ~(/\ how = "replaced" /\ pc \in {"commit", "restore"}
                              /\ OpAt.target = p))
    /\ UNCHANGED <<durable, pc, req, recovering, cur, idx, rec, seen, result,
                   launches, crashes, faults>>

ReadStep == ReplayTerminal \/ RejectRollback \/ RejectStart \/ PreconditionFailed
            \/ BackupRejected \/ SkipApplied \/ RestartSettled

FailedReadStep(o) ==
    \/ ApplyRejected(o) \/ ApplyUnloadable(o) \/ ApplyCheckFailed(o)
    \/ RollbackUnloadable(o) \/ RollbackRejected(o) \/ RestoreUnverified(o)
    \/ RestoreCheckFailed(o)

PrepareStep(o) ==
    \/ \E t \in TxIds : StartTransaction(t, o)
    \/ PersistPrepared(o) \/ PrepareOne(o) \/ EnsureBackup(o)
    \/ PersistBackupDurable(o) \/ FailPreparation(o) \/ PublishActive(o)

ApplyStep(o) ==
    \/ PersistApplying(o) \/ ApplyIntent(o) \/ Commit(o) \/ ApplyCheck(o)
    \/ FailApply(o) \/ PersistFilesApplied(o)

RollbackStep(o) ==
    \/ MarkRollback(o) \/ RollbackSkip(o) \/ RollbackIntent(o) \/ Restore(o)
    \/ RestoreCheck(o) \/ MarkRollbackOperationFailed(o)
    \/ RecordRollbackFailure(o) \/ PersistRolledBack(o)
    \/ Recover(o) \/ RecordTerminalReconciliationFailure(o)

FinishStep(o) ==
    \/ RestartIntent(o) \/ LaunchRestart(o) \/ PublishTerminal(o) \/ ClearActive(o)
    \/ \E stamp \in Stamps : PersistCompletion(stamp, o)

UpdaterStep ==
    \/ ReadStep
    \/ \E o \in Outcomes : \/ FailedReadStep(o) \/ PrepareStep(o) \/ ApplyStep(o)
                           \/ RollbackStep(o) \/ FinishStep(o)

Next ==
    \/ \E r \in Request : Invoke(r)
    \/ UpdaterStep
    \/ Crash
    \/ \E p \in ForeignPaths, file \in File, how \in {"replaced", "edited"} :
          ForeignWrite(p, file, how)

Spec == Init /\ [][Next]_vars

(* The updater keeps running, and a helper is invoked again whenever none  *)
(* runs; nothing is assumed of faults, crashes or other programs.          *)
FairSpec == Spec /\ WF_vars(UpdaterStep) /\ WF_vars(\E r \in Request : Invoke(r))

-----------------------------------------------------------------------------
(* Properties. *)

(* Whatever is on disk when an invocation starts, an active transaction is *)
(* one recover() accepts: its plan snapshot and every operation record     *)
(* exist and validateRecoveredSummary passes, so recovery is never refused *)
(* because of the journal's own content.                                   *)
RecoveryAccepted ==
    active # NoTx => ValidSummary(active) /\ LoadedRecords(active)

(* finishRestart starts the application at most once per transaction, over *)
(* every crash, failed write and repeated invocation.                      *)
RestartAtMostOnce == \A t \in TxIds : launches[t] <= 1

(* Once a transaction has started the application no step of the updater   *)
(* changes a managed file on behalf of that transaction.                   *)
NoChangeAfterRestart ==
    [][cur # NoTx /\ launches[cur] > 0 /\ touched' = touched
           => install' = install]_vars

(* The updater only ever replaces content it looked at and found to be the *)
(* journaled original or the planned content (or no file); what another    *)
(* program put there in between is overwritten only if it was edited in    *)
(* place, which keeps the identity commit() compares.                      *)
NoForeignLoss ==
    [][\A p \in Paths : install'[p] # install[p] /\ touched' = touched =>
          /\ install[p] = seen \/ touched[p] = "edited"
          /\ \E i \in 1 .. Len(records[cur]) :
                /\ Op(cur, i).target = p
                /\ seen \in {records[cur][i].original, Op(cur, i).data, Missing}]_vars

(* While a transaction is active, every file that differs from its         *)
(* journaled original and that no other program wrote can be put back: the *)
(* mutation was journaled before it was made and the original is in the    *)
(* backup directory.                                                       *)
EveryChangeIsUndoable ==
    active # NoTx =>
        \A i \in 1 .. Len(records[active]) :
            LET r == records[active][i]
                target == Op(active, i).target
            IN  install[target] # r.original /\ touched[target] = "no" =>
                    /\ r.applyState # "Pending"
                    /\ r.original # Missing =>
                          /\ r.backupState = "Durable"
                          /\ backup[plans[active].backupDir][target] = r.original

(* A backup a journal calls durable holds that journal's original for      *)
(* ever, also when later plans and retries share the backup directory.     *)
DurableBackupsKept ==
    \A t \in TxIds : \A i \in 1 .. Len(records[t]) :
        records[t][i].backupState = "Durable" =>
            backup[plans[t].backupDir][Op(t, i).target] = records[t][i].original

(* terminal.json always names a transaction whose summary is complete, is  *)
(* accepted by a later invocation and carries the same timestamp, and all  *)
(* of whose operations are recorded as applied.                            *)
ReceiptTrustworthy ==
    terminal # NoTerminal =>
        /\ TrustedTerminal
        /\ LoadedRecords(terminal.tx)
        /\ \A i \in 1 .. Len(records[terminal.tx]) :
              records[terminal.tx][i].applyState = "Complete"

(* An invocation that reports success leaves no active transaction, and    *)
(* the plan of the receipt is installed on every path no other program     *)
(* wrote, with its restart neither failed nor unknown.                     *)
SuccessMeansInstalled ==
    result = "ok" =>
        /\ active = NoTx /\ terminal # NoTerminal
        /\ summary[terminal.tx].restartState \in {"NotRequested", "Launched"}
        /\ \A i \in 1 .. Len(Ops(terminal.tx)) :
              LET op == Op(terminal.tx, i)
              IN  touched[op.target] = "no" => install[op.target] = op.data

(* A completed transaction stays completed with the timestamp it got, even *)
(* when a later recovery finds the files changed.                          *)
CompletionIsFinal ==
    [][\A t \in TxIds :
          summary[t] # NoSummary /\ summary[t].fileState = "Complete" =>
              /\ summary'[t].fileState = "Complete"
              /\ summary'[t].completedAt = summary[t].completedAt]_vars

(* If no other program interferes, every published transaction is settled: *)
(* finitely many faults and crashes cannot leave active.json for ever.     *)
RecoveryTerminates == (active # NoTx) ~> (active = NoTx)

=============================================================================
