--------------------------- MODULE ApplyInvariants ---------------------------
(***************************************************************************)
(* The inductive invariant behind the safety theorems of ApplyTransaction: *)
(* what the journal on disk looks like at every point of an invocation, so *)
(* that a crash at that point leaves something recover() accepts.          *)
(***************************************************************************)
EXTENDS ApplyTransaction

(* Before active.json names the transaction; once it does; with a record   *)
(* in memory; while files may still be changed or put back.                *)
PreparePcs == {"prepared", "prepare", "backup", "backupDurable", "prepareFailed"}
ActivePcs == PCs \ (PreparePcs \union {"idle", "dispatch"})
RecordPcs == {"backup", "backupDurable", "prepareFailed", "commit", "applyCheck",
              "applyFailed", "restore", "restoreCheck", "rollbackOpFailed"}
ApplyPcs == {"apply", "commit", "applyCheck", "applyFailed"}
RollbackPcs == {"rollback", "restore", "restoreCheck", "rollbackOpFailed"}
FilePcs == {"applying", "markRollback", "rollbackFailed"} \union ApplyPcs \union RollbackPcs
LaunchPcs == {"launch", "launched", "launchFailed"}

(* Nothing exists of a transaction without a plan snapshot. *)
SnapshotFirst ==
    \A t \in TxIds : plans[t] = NoPlan =>
        summary[t] = NoSummary /\ records[t] = <<>> /\ launches[t] = 0

(* A launch is preceded by a durable intent, which is never taken back. *)
IntentFirst ==
    \A t \in TxIds : launches[t] > 0 =>
        /\ summary[t] # NoSummary
        /\ summary[t].restartState \in {"Intent", "Launched", "Failed", "OutcomeUnknown"}

(* Which transaction the invocation works on. *)
WorkingTransaction ==
    /\ pc # "idle" => req \in Request
    /\ pc \in PreparePcs \union {"dispatch"} => active = NoTx
    /\ pc \in PreparePcs => cur \in TxIds /\ plans[cur] # NoPlan
    /\ pc \in ActivePcs => cur \in TxIds /\ active = cur

(* Preparation writes the summary, then the records in order. *)
Preparation ==
    /\ pc = "prepared" => summary[cur] = NoSummary /\ records[cur] = <<>>
    /\ pc \in PreparePcs \ {"prepared"} =>
          /\ ValidSummary(cur) /\ summary[cur].fileState = "Prepared"
          /\ launches[cur] = 0
    /\ pc = "prepare" => idx = Len(records[cur]) + 1 /\ idx <= Len(Ops(cur)) + 1
    /\ pc \in {"backup", "backupDurable"} =>
          idx = Len(records[cur]) /\ idx \in 1 .. Len(Ops(cur))
    /\ pc = "prepareFailed" =>
          /\ idx \in 1 .. Len(Ops(cur))
          /\ idx \in Len(records[cur]) .. Len(records[cur]) + 1

(* The operation worked on exists, and what it needs is in memory. *)
Position ==
    /\ pc \in RecordPcs => rec \in Record
    /\ pc \in ApplyPcs => idx \in 1 .. Len(Ops(cur)) + 1
    /\ pc \in RollbackPcs => idx \in 0 .. Len(Ops(cur))
    /\ pc \in RecordPcs => idx \in 1 .. Len(Ops(cur))

(* What the summary on disk says at each point. *)
Progress ==
    /\ pc = "applying" => summary[cur].fileState = "Prepared"
    /\ pc \in ApplyPcs => summary[cur].fileState = "Applying"
    /\ pc \in FilePcs => /\ summary[cur].restartState \in {"NotRequested", "NotAttempted"}
                         /\ summary[cur].fileState # "Complete"
    /\ pc \in LaunchPcs \union {"restart", "complete"} =>
          summary[cur].fileState = "FilesApplied"
    /\ pc \in LaunchPcs => summary[cur].restartState = "Intent"
    /\ pc = "launch" => launches[cur] = 0
    /\ pc = "complete" => summary[cur].restartState # "NotAttempted"
    /\ pc = "publish" => summary[cur].fileState = "Complete"

(* The inductive invariant: what is on disk is acceptable at every step,   *)
(* and agrees with the point the running invocation has reached.           *)
JournalInv == SnapshotFirst /\ RecoveryAccepted /\ RestartAtMostOnce /\ IntentFirst
PointInv == WorkingTransaction /\ Preparation /\ Position /\ Progress
IndInv == TypeOK /\ JournalInv /\ PointInv

-----------------------------------------------------------------------------
(***************************************************************************)
(* What the journal is worth: the files, the backups and the records agree *)
(* at every point, so that what recovery, a rollback or a receipt relies   *)
(* on is true.                                                             *)
(***************************************************************************)

(* A path that no other program wrote holds the given file. *)
Holds(p, file) == touched[p] = "no" => install[p] = file

(* What a record of operation i of t, on disk or in memory, claims. *)
Sound(t, i, r) ==
    /\ r.backupState # "NotRequired" => r.original # Missing
    /\ r.backupState = "Durable" =>
          backup[plans[t].backupDir][Op(t, i).target] = r.original
    /\ r.rollbackState = "NotStarted" => r.original # Op(t, i).data
    /\ AlreadyApplied(r) => r.original = Op(t, i).data

(* Plans name each target once, and have no fewer operations than records. *)
PlansSound ==
    \A t \in TxIds : plans[t] # NoPlan =>
        DistinctTargets(plans[t].ops) /\ Len(records[t]) <= Len(Ops(t))

RecordsSound == \A t \in TxIds : \A i \in 1 .. Len(records[t]) : Sound(t, i, records[t][i])

(* Files of a transaction that is prepared or active: the original, or     *)
(* content that was announced and can be undone.                           *)
Undoable(t, i) ==
    LET r == records[t][i]
        op == Op(t, i)
    IN  touched[op.target] = "no" /\ install[op.target] # r.original =>
            /\ install[op.target] = op.data /\ r.applyState # "Pending"
            /\ r.original # Missing => r.backupState = "Durable"

ActiveAccounted ==
    active # NoTx => \A i \in 1 .. Len(records[active]) : Undoable(active, i)

Restored(t, i) == Holds(Op(t, i).target, records[t][i].original)

PreparedAccounted == pc \in PreparePcs => \A i \in 1 .. Len(records[cur]) : Restored(cur, i)

(* The record in memory against the one on disk. *)
Follows(r, s) ==
    /\ r.original = s.original /\ r.backupState = s.backupState
    /\ s.applyState # "Pending" => r.applyState # "Pending"

InMemory ==
    /\ pc \in RecordPcs => Sound(cur, idx, rec)
    /\ pc \in RecordPcs \ {"prepareFailed", "applyFailed"} => rec = records[cur][idx]
    /\ pc = "applyFailed" => Follows(rec, records[cur][idx])
    /\ pc \in {"backup", "backupDurable"} =>
          rec.backupState = "Intent" /\ rec.applyState = "Pending"
    /\ pc = "backupDurable" => ExistingBackup = rec.original
    /\ pc \in {"commit", "applyCheck"} =>
          /\ rec.applyState = "Intent" /\ rec.rollbackState = "NotStarted"
          /\ rec.original # Missing => rec.backupState = "Durable"

(* Which operations are done, at each point. *)
Applied(t, i) ==
    /\ records[t][i].applyState = "Complete"
    /\ records[t][i].rollbackState \in {"NotStarted", "NotRequired"}

Installed(t) == \A i \in 1 .. Len(Ops(t)) : Holds(Op(t, i).target, Op(t, i).data)

Walk ==
    /\ pc \in {"apply", "commit", "applyCheck"} => \A i \in 1 .. idx - 1 :
          Applied(cur, i) /\ Holds(Op(cur, i).target, Op(cur, i).data)
    /\ pc \in RollbackPcs =>
          /\ summary[cur].fileState \in {"RollingBack", "RolledBack"}
          /\ \A i \in idx + 1 .. Len(Ops(cur)) : Restored(cur, i)
    /\ pc \in LaunchPcs \union {"restart", "complete", "publish"} => Installed(cur)
    /\ pc = "clear" =>
          \/ /\ summary[cur].fileState = "Complete" /\ Installed(cur)
             /\ terminal # NoTerminal /\ terminal.tx = cur
          \/ /\ summary[cur].fileState = "RolledBack"
             /\ \A i \in 1 .. Len(Ops(cur)) : Restored(cur, i)

(* What a summary says of the records. *)
SummariesSound ==
    \A t \in TxIds : summary[t] # NoSummary =>
        /\ ValidSummary(t)
        /\ summary[t].fileState \in {"FilesApplied", "Complete"} =>
              LoadedRecords(t) /\ \A i \in 1 .. Len(Ops(t)) : Applied(t, i)

(* What the next compare-and-swap expects was on disk, unless another      *)
(* program was there since.                                                *)
Expectation ==
    pc \in {"commit", "restore"} =>
        /\ sameId => install[OpAt.target] = seen \/ touched[OpAt.target] = "edited"
        /\ pc = "commit" => seen = rec.original
        /\ pc = "restore" => seen \in {OpAt.data, Missing}

(* A success is the last thing an invocation does. *)
Success == (result = "ok" => pc = "idle") /\ SuccessMeansInstalled

(* A plan is one the application asks for, or the inverse of a completed   *)
(* transaction: exactly the files that changed, with what they were.       *)
Inverts(plan, s) ==
    /\ summary[s] # NoSummary /\ summary[s].fileState = "Complete"
    /\ \A k \in DOMAIN plan.ops : \E i \in 1 .. Len(Ops(s)) :
          /\ Op(s, i).target = plan.ops[k].target
          /\ records[s][i].original = plan.ops[k].data
          /\ records[s][i].original # Op(s, i).data
    /\ \A i \in 1 .. Len(Ops(s)) : records[s][i].original # Op(s, i).data =>
          \E k \in DOMAIN plan.ops : plan.ops[k].target = Op(s, i).target

PlanOrigin ==
    \A t \in TxIds : plans[t] # NoPlan =>
        \/ plans[t] \in InstallPlans
        \/ \E s \in TxIds : Inverts(plans[t], s)

(* The evidence on disk, which a crash leaves alone, and what ties it to   *)
(* the point the running invocation has reached.                           *)
DiskEvidence == PlansSound /\ RecordsSound /\ ActiveAccounted /\ SummariesSound
                /\ ReceiptTrustworthy /\ PlanOrigin
PointEvidence == PreparedAccounted /\ InMemory /\ Walk /\ Expectation /\ Success

(* Everything the safety theorems rest on. *)
SafetyInv == IndInv /\ DiskEvidence /\ PointEvidence
=============================================================================
