------------------------ MODULE ApplyTransactionProofs ------------------------
(***************************************************************************)
(* Proofs about ApplyTransaction, for any plans, identities and numbers of *)
(* faults and crashes, in three parts.                                     *)
(*                                                                         *)
(* The transaction: IndInv is shown to be inductive action by action; each *)
(* step is split into the type of what it leaves in memory, the type of    *)
(* what it leaves on disk, the journal invariant and the point the         *)
(* invocation reached (lemma Recombine).  The safety theorems are parts of *)
(* IndInv; the action properties look at the few steps that write a file   *)
(* or a summary and use IndInv before the step.                            *)
(*                                                                         *)
(* The evidence: what the journal claims is true.  SafetyInv adds to       *)
(* IndInv the agreement of files, backups and records.  A step writes one  *)
(* kind of durable object, so there is a lemma for what each kind of write *)
(* does to DiskEvidence, and one lemma per action for where it leaves the  *)
(* invocation.                                                             *)
(*                                                                         *)
(* The refinement: ApplyTransaction implements AtomicInstall.  Publishing  *)
(* active.json begins the abstract transaction, starting the application   *)
(* restarts it, clearing active.json finishes it or gives it up, and a     *)
(* foreign write is one.  Every other step leaves the abstract state       *)
(* alone, although it writes the files and the journal that the abstract   *)
(* state is read from.                                                     *)
(***************************************************************************)
EXTENDS ApplyRefinement, SequenceTheorems, FiniteSetTheorems, TLAPS

-----------------------------------------------------------------------------
(* What the two journal writes do, whatever their outcome. *)

(* A durable write spends at most the faults that are left. *)
LEMMA SpendType ==
    ASSUME TypeOK, NEW o, Spend(o)
    PROVE  faults' \in 0 .. MaxFaults
BY EnvironmentAssumption DEF TypeOK, Spend

(* writeSummary leaves every other transaction's summary alone and either  *)
(* keeps or replaces the one of the working transaction.                   *)
LEMMA SummaryWritten ==
    ASSUME TypeOK, cur \in TxIds, NEW s \in Summary, NEW o, WriteSummary(s, o)
    PROVE  /\ summary' \in [TxIds -> Summary \union {NoSummary}]
           /\ faults' \in 0 .. MaxFaults
           /\ \A t \in TxIds : t # cur => summary'[t] = summary[t]
           /\ summary'[cur] = IF o = "lost" THEN summary[cur] ELSE s
<1>1. faults' \in 0 .. MaxFaults
  BY SpendType DEF WriteSummary
<1>2. summary \in [TxIds -> Summary \union {NoSummary}]
  BY DEF TypeOK
<1>3. QED
  BY <1>1, <1>2 DEF WriteSummary

(* writeOperation replaces the record at idx or adds it as the next one. *)
LEMMA OperationWritten ==
    ASSUME TypeOK, cur \in TxIds, NEW r \in Record, NEW o, WriteOperation(r, o),
           idx \in 1 .. Len(records[cur]) + 1
    PROVE  /\ records' \in [TxIds -> Seq(Record)]
           /\ faults' \in 0 .. MaxFaults
           /\ \A t \in TxIds : t # cur => records'[t] = records[t]
           /\ Len(records'[cur]) =
                 IF o = "lost" \/ idx <= Len(records[cur]) THEN Len(records[cur])
                 ELSE Len(records[cur]) + 1
<1>1. faults' \in 0 .. MaxFaults
  BY SpendType DEF WriteOperation
<1>2. records \in [TxIds -> Seq(Record)] /\ records[cur] \in Seq(Record)
  BY DEF TypeOK
<1> DEFINE s == records[cur]
           e == IF idx <= Len(s) THEN [s EXCEPT ![idx] = r] ELSE Append(s, r)
<1>3. e \in Seq(Record) /\ Len(e) = IF idx <= Len(s) THEN Len(s) ELSE Len(s) + 1
  <2>1. CASE idx <= Len(s)
    <3>1. idx \in 1 .. Len(s)
      BY <2>1, <1>2
    <3>2. QED
      BY <2>1, <3>1, <1>2, ExceptSeq
  <2>2. CASE ~(idx <= Len(s))
    BY <2>2, <1>2, AppendProperties
  <2>3. QED
    BY <2>1, <2>2
<1>4. records' = IF o = "lost" THEN records ELSE [records EXCEPT ![cur] = e]
  BY DEF WriteOperation
<1> HIDE DEF e
<1>5. QED
  BY <1>1, <1>2, <1>3, <1>4

-----------------------------------------------------------------------------
(* What the journal invariant needs of each kind of step. *)

(* A step that writes none of the journal's files and starts nothing. *)
LEMMA JournalKept ==
    ASSUME IndInv, UNCHANGED <<plans, summary, records, active, launches>>
    PROVE  JournalInv'
BY DEF IndInv, JournalInv, SnapshotFirst, RecoveryAccepted, RestartAtMostOnce,
       IntentFirst, ValidSummary, LoadedRecords, Ops

(* A step that writes a consistent summary of the working transaction. *)
LEMMA JournalSummary ==
    ASSUME IndInv, cur \in TxIds, plans[cur] # NoPlan,
           NEW s \in Summary, NEW o, WriteSummary(s, o),
           ConsistentSummary(plans[cur], s),
           launches[cur] > 0 =>
               s.restartState \in {"Intent", "Launched", "Failed", "OutcomeUnknown"},
           UNCHANGED <<plans, records, active, launches>>
    PROVE  JournalInv'
<1>1. /\ \A t \in TxIds : t # cur => summary'[t] = summary[t]
      /\ summary'[cur] = IF o = "lost" THEN summary[cur] ELSE s
  BY SummaryWritten DEF IndInv
<1>2. NoSummary # s
  BY SentinelAssumption
<1>3. SnapshotFirst'
  BY <1>1 DEF IndInv, JournalInv, SnapshotFirst
<1>4. RecoveryAccepted'
  <2>1. active \in TxIds \union {NoTx}
    BY DEF IndInv, TypeOK
  <2>2. CASE active = cur
    BY <1>1, <1>2, <2>2 DEF IndInv, JournalInv, RecoveryAccepted, ValidSummary, LoadedRecords, Ops
  <2>3. CASE active # cur
    BY <1>1, <2>1, <2>3 DEF IndInv, JournalInv, RecoveryAccepted, ValidSummary, LoadedRecords, Ops
  <2>4. QED
    BY <2>2, <2>3
<1>5. RestartAtMostOnce' /\ IntentFirst'
  BY <1>1, <1>2 DEF IndInv, JournalInv, RestartAtMostOnce, IntentFirst
<1>6. QED
  BY <1>3, <1>4, <1>5 DEF JournalInv

(* A step that writes an operation record: once the transaction is active  *)
(* all records exist, so one is replaced and none is added.                *)
LEMMA JournalOperation ==
    ASSUME IndInv, cur \in TxIds, plans[cur] # NoPlan,
           NEW r \in Record, NEW o, WriteOperation(r, o),
           idx \in 1 .. Len(records[cur]) + 1,
           active \in {NoTx, cur},
           active = cur => idx <= Len(records[cur]),
           UNCHANGED <<plans, summary, active, launches>>
    PROVE  JournalInv'
<1>1. /\ \A t \in TxIds : t # cur => records'[t] = records[t]
      /\ Len(records'[cur]) =
            IF o = "lost" \/ idx <= Len(records[cur]) THEN Len(records[cur])
            ELSE Len(records[cur]) + 1
  BY OperationWritten DEF IndInv
<1>2. SnapshotFirst'
  BY <1>1 DEF IndInv, JournalInv, SnapshotFirst
<1>3. RecoveryAccepted'
  BY <1>1 DEF IndInv, JournalInv, RecoveryAccepted, ValidSummary, LoadedRecords, Ops
<1>4. RestartAtMostOnce' /\ IntentFirst'
  BY DEF IndInv, JournalInv, RestartAtMostOnce, IntentFirst
<1>5. QED
  BY <1>2, <1>3, <1>4 DEF JournalInv

(* An invocation that ends has nothing left to agree with the journal. *)
LEMMA PointReturn ==
    ASSUME NEW r, Return(r)
    PROVE  PointInv'
BY DEF Return, PointInv, WorkingTransaction, Preparation, Position, Progress,
       PreparePcs, ActivePcs, RecordPcs, ApplyPcs, RollbackPcs, FilePcs, LaunchPcs

-----------------------------------------------------------------------------
(* What the invariant says at the point an invocation has reached. *)

(* An invocation past its dispatch works on a transaction with a snapshot. *)
LEMMA WorkingFacts ==
    ASSUME IndInv, pc \in PreparePcs \union ActivePcs
    PROVE  /\ cur \in TxIds /\ plans[cur] \in Plan /\ plans[cur] # NoPlan
           /\ Ops(cur) \in Seq(Operation) /\ Len(Ops(cur)) \in Nat
           /\ records[cur] \in Seq(Record) /\ Len(records[cur]) \in Nat
           /\ active \in {NoTx, cur}
           /\ idx \in Nat
<1>1. cur \in TxIds /\ plans[cur] # NoPlan /\ active \in {NoTx, cur}
  <2>1. CASE pc \in PreparePcs
    BY <2>1 DEF IndInv, PointInv, WorkingTransaction
  <2>2. CASE pc \in ActivePcs
    BY <2>2, SentinelAssumption
       DEF IndInv, PointInv, JournalInv, WorkingTransaction, RecoveryAccepted, ValidSummary
  <2>3. QED
    BY <2>1, <2>2
<1>2. plans[cur] \in Plan /\ records[cur] \in Seq(Record) /\ idx \in Nat
  BY <1>1 DEF IndInv, TypeOK
<1>3. Ops(cur) \in Seq(Operation)
  BY <1>2 DEF Plan, Ops
<1>4. QED
  BY <1>1, <1>2, <1>3, LenProperties

(* Once active, the journal is complete and recovery would accept it. *)
LEMMA ActiveFacts ==
    ASSUME IndInv, pc \in ActivePcs
    PROVE  /\ active = cur /\ active # NoTx
           /\ summary[cur] \in Summary /\ ConsistentSummary(plans[cur], summary[cur])
           /\ Len(records[cur]) = Len(Ops(cur))
<1>1. cur \in TxIds /\ active = cur
  BY DEF IndInv, PointInv, WorkingTransaction
<1>2. ValidSummary(cur) /\ LoadedRecords(cur)
  BY <1>1, SentinelAssumption DEF IndInv, JournalInv, RecoveryAccepted
<1>3. QED
  BY <1>1, <1>2, SentinelAssumption DEF IndInv, TypeOK, ValidSummary, LoadedRecords

(* The operation an index of the plan names. *)
LEMMA OperationFacts ==
    ASSUME IndInv, pc \in PreparePcs \union ActivePcs, idx \in 1 .. Len(Ops(cur))
    PROVE  /\ OpAt.target \in Paths /\ OpAt.data \in File
           /\ install[OpAt.target] \in File
           /\ idx <= Len(records[cur]) => records[cur][idx] \in Record
<1>1. Op(cur, idx) \in Operation
  BY WorkingFacts, ElementOfSeq DEF Op
<1>2. OpAt.target \in Paths /\ OpAt.data \in File
  BY <1>1 DEF Operation, OpAt
<1>3. idx <= Len(records[cur]) => records[cur][idx] \in Record
  BY WorkingFacts, ElementOfSeq
<1>4. QED
  BY <1>2, <1>3 DEF IndInv, TypeOK

-----------------------------------------------------------------------------
(* Initial states. *)

(* The installation the updater finds has no journal. *)
LEMMA InitInv == Init => IndInv
<1> SUFFICES ASSUME Init PROVE IndInv
  OBVIOUS
<1>1. TypeOK
  <2>1. records \in [TxIds -> Seq(Record)]
    BY EmptySeq DEF Init
  <2>2. install \in [Paths -> File] /\ backup \in [BackupDirs -> [Paths -> File]]
    BY EnvironmentAssumption DEF Init, File
  <2>3. faults \in 0 .. MaxFaults /\ crashes \in 0 .. MaxCrashes
    BY EnvironmentAssumption DEF Init
  <2>4. QED
    BY <2>1, <2>2, <2>3 DEF Init, TypeOK, PCs, File
<1>2. JournalInv
  BY <1>1, SentinelAssumption
     DEF Init, JournalInv, SnapshotFirst, RecoveryAccepted, RestartAtMostOnce, IntentFirst
<1>3. PointInv
  BY DEF Init, PointInv, WorkingTransaction, Preparation, Position, Progress,
         PreparePcs, ActivePcs, RecordPcs, ApplyPcs, RollbackPcs, FilePcs, LaunchPcs
<1>4. QED
  BY <1>1, <1>2, <1>3 DEF IndInv

-----------------------------------------------------------------------------
(* Types of the variables that leaving, proceeding or continuing assigns. *)

(* What an invocation keeps in memory has its type. *)
VolatileType ==
    /\ pc \in PCs /\ req \in Request \union {NoRequest} /\ recovering \in BOOLEAN
    /\ cur \in TxIds \union {NoTx} /\ idx \in Nat /\ rec \in Record \union {NoRecord}
    /\ seen \in File /\ sameId \in BOOLEAN /\ result \in {"none", "ok", "fail"}

(* What is on disk, and the bookkeeping of the environment, has its type. *)
DurableType ==
    /\ install \in [Paths -> File] /\ backup \in [BackupDirs -> [Paths -> File]]
    /\ plans \in [TxIds -> Plan \union {NoPlan}]
    /\ summary \in [TxIds -> Summary \union {NoSummary}]
    /\ records \in [TxIds -> Seq(Record)]
    /\ active \in TxIds \union {NoTx} /\ terminal \in Terminal \union {NoTerminal}
    /\ launches \in [TxIds -> Nat]
    /\ touched \in [Paths -> {"no", "replaced", "edited"}]
    /\ faults \in 0 .. MaxFaults /\ crashes \in 0 .. MaxCrashes

(* The invariant from its parts. *)
LEMMA Recombine ==
    ASSUME DurableType', VolatileType', JournalInv', PointInv'
    PROVE  IndInv'
BY DEF IndInv, TypeOK, DurableType, VolatileType

(* Leaving the invocation with a result resets every variable to its type. *)
LEMMA ReturnType ==
    ASSUME NEW r \in {"ok", "fail"}, Return(r)
    PROVE  VolatileType'
BY SentinelAssumption DEF Return, Forget, VolatileType, PCs, File

(* Moving to another operation. *)
LEMMA ProceedType ==
    ASSUME TypeOK, NEW label \in PCs, NEW i \in Nat, Proceed(label, i)
    PROVE  VolatileType'
BY DEF Proceed, Goto, Forget, TypeOK, VolatileType, File

(* Staying on the operation with its record in memory. *)
LEMMA ContinueType ==
    ASSUME TypeOK, NEW label \in PCs, NEW r \in Record, Continue(label, r),
           seen' \in File, sameId' \in BOOLEAN
    PROVE  VolatileType'
BY DEF Continue, Goto, TypeOK, VolatileType

(* A summary is written, an operation record is written, nothing is. *)
LEMMA DurableSummary ==
    ASSUME IndInv, cur \in TxIds, NEW s \in Summary, NEW o, WriteSummary(s, o),
           UNCHANGED <<install, backup, plans, records, active, terminal, ghosts>>
    PROVE  DurableType'
BY SummaryWritten DEF IndInv, TypeOK, DurableType, ghosts

(* An operation record is written, nothing else on disk changes. *)
LEMMA DurableOperation ==
    ASSUME IndInv, cur \in TxIds, NEW r \in Record, NEW o, WriteOperation(r, o),
           idx \in 1 .. Len(records[cur]) + 1,
           UNCHANGED <<install, backup, plans, summary, active, terminal, ghosts>>
    PROVE  DurableType'
BY OperationWritten DEF IndInv, TypeOK, DurableType, ghosts

(* Nothing on disk changes. *)
LEMMA DurableKept ==
    ASSUME IndInv, UNCHANGED <<install, durable, ghosts, faults>>
    PROVE  DurableType' /\ JournalInv'
BY JournalKept DEF IndInv, TypeOK, DurableType, durable, ghosts

(* A step that changes nothing on disk, whether or not it could read it. *)
LEMMA DurableRead ==
    ASSUME IndInv, NEW o, Spend(o), UNCHANGED <<install, durable, ghosts>>
    PROVE  DurableType' /\ JournalInv'
BY SpendType, JournalKept DEF IndInv, TypeOK, DurableType, durable, ghosts

(* A step that changes nothing on disk and ends the invocation. *)
LEMMA FailedReadInv ==
    ASSUME IndInv, NEW r \in {"ok", "fail"}, Return(r),
           UNCHANGED <<install, durable, ghosts, faults>>
    PROVE  IndInv'
<1>1. DurableType' /\ JournalInv'
  BY DurableKept
<1>2. VolatileType' /\ PointInv'
  BY ReturnType, PointReturn
<1>3. QED
  BY <1>1, <1>2, Recombine

-----------------------------------------------------------------------------
(* Preparation. *)

(* The restart states validateRecoveredSummary allows, state by state. *)
LEMMA AllowedStates ==
    /\ AllowedRestartStates("FilesApplied") =
          {"NotRequested", "NotAttempted", "Intent", "OutcomeUnknown"}
    /\ AllowedRestartStates("Complete") =
          {"NotRequested", "Launched", "Failed", "OutcomeUnknown"}
    /\ \A f \in FileStates \ {"FilesApplied", "Complete"} :
          AllowedRestartStates(f) = {"NotRequested", "NotAttempted"}
BY DEF AllowedRestartStates, FileStates

USE DEF PointInv, WorkingTransaction, Preparation, Position, Progress,
        PreparePcs, ActivePcs, RecordPcs, ApplyPcs, RollbackPcs, FilePcs, LaunchPcs

(* The first summary names no restart attempt and no error. *)
LEMMA PersistPreparedInv ==
    ASSUME IndInv, NEW o \in Outcomes, PersistPrepared(o)
    PROVE  IndInv'
<1> DEFINE s == [fileState |-> "Prepared",
                 restartState |-> IF plans[cur].restart THEN "NotAttempted"
                                  ELSE "NotRequested",
                 applyError |-> FALSE, rollbackError |-> FALSE,
                 restartError |-> FALSE, completedAt |-> NoStamp]
<1>0. pc = "prepared" /\ WriteSummary(s, o)
      /\ UNCHANGED <<install, backup, plans, records, active, terminal, ghosts>>
  BY DEF PersistPrepared
<1>1. s \in Summary /\ ConsistentSummary(plans[cur], s)
  <2>1. plans[cur] \in Plan
    BY <1>0, WorkingFacts
  <2>2. plans[cur].restart \in BOOLEAN
    BY <2>1 DEF Plan
  <2>3. s \in Summary
    BY <2>2 DEF Summary, FileStates, RestartStates
  <2>4. ConsistentSummary(plans[cur], s)
    BY <2>2, AllowedStates DEF ConsistentSummary, FileStates
  <2>5. QED
    BY <2>3, <2>4
<1>2. launches[cur] = 0
  BY <1>0 DEF IndInv, JournalInv, IntentFirst, TypeOK
<1> HIDE DEF s
<1>3. JournalInv'
  BY <1>0, <1>1, <1>2, WorkingFacts, JournalSummary DEF ghosts
<1>4. DurableType' /\ VolatileType'
  BY <1>0, <1>1, WorkingFacts, DurableSummary, ReturnType, ProceedType
     DEF PersistPrepared, IndInv, PCs
<1>5. PointInv'
  <2>1. CASE o = "ok"
    BY <1>0, <1>1, <1>2, <2>1, WorkingFacts, SummaryWritten, SentinelAssumption
       DEF PersistPrepared, Proceed, Goto, IndInv, ghosts, ValidSummary, s, Ops
  <2>2. CASE o # "ok"
    BY <2>2, PointReturn DEF PersistPrepared
  <2>3. QED
    BY <2>1, <2>2
<1>6. QED
  BY <1>3, <1>4, <1>5, Recombine

(* The plan snapshot is the first file of a fresh transaction. *)
LEMMA StartTransactionInv ==
    ASSUME IndInv, NEW t \in TxIds, NEW o \in Outcomes, StartTransaction(t, o)
    PROVE  IndInv'
<1>1. /\ pc = "dispatch" /\ active = NoTx /\ req \in Request
      /\ plans[t] = NoPlan /\ summary[t] = NoSummary /\ records[t] = <<>>
      /\ launches[t] = 0
      /\ NewPlan \in Plan /\ NewPlan # NoPlan
      /\ plans' = IF o = "lost" THEN plans ELSE [plans EXCEPT ![t] = NewPlan]
      /\ UNCHANGED <<install, backup, summary, records, active, terminal, ghosts>>
  BY SentinelAssumption
     DEF StartTransaction, StartsNew, ValidateApplyPlan, IndInv, JournalInv, SnapshotFirst
<1> HIDE DEF NewPlan
<1>2. JournalInv'
  BY <1>1 DEF IndInv, JournalInv, SnapshotFirst, RecoveryAccepted, RestartAtMostOnce,
              IntentFirst, TypeOK, ghosts
<1>3. DurableType'
  BY <1>1, SpendType DEF StartTransaction, IndInv, TypeOK, DurableType, ghosts
<1>4. CASE o = "ok"
  <2>1. VolatileType'
    BY <1>1, <1>4 DEF StartTransaction, Forget, IndInv, TypeOK, VolatileType, PCs, File
  <2>2. PointInv'
    BY <1>1, <1>4 DEF StartTransaction, IndInv, TypeOK
  <2>3. QED
    BY <1>2, <1>3, <2>1, <2>2, Recombine
<1>5. CASE o # "ok"
  <2>1. VolatileType' /\ PointInv'
    BY <1>5, ReturnType, PointReturn DEF StartTransaction
  <2>2. QED
    BY <1>2, <1>3, <2>1, Recombine
<1>6. QED
  BY <1>4, <1>5

(* prepareOne adds the record at idx. *)
LEMMA PrepareOneInv ==
    ASSUME IndInv, NEW o \in Outcomes, PrepareOne(o)
    PROVE  IndInv'
<1> DEFINE r == InitialRecord(install[OpAt.target], OpAt.data)
<1>1. /\ pc = "prepare" /\ idx = Len(records[cur]) + 1 /\ idx \in 1 .. Len(Ops(cur))
      /\ WriteOperation(r, o) /\ active = NoTx
      /\ UNCHANGED <<install, backup, plans, summary, active, terminal, ghosts>>
  BY WorkingFacts DEF PrepareOne, IndInv
<1>2. r \in Record
  BY <1>1, OperationFacts DEF InitialRecord, Record
<1> HIDE DEF r
<1>3. DurableType' /\ JournalInv'
  BY <1>1, <1>2, WorkingFacts, SentinelAssumption, DurableOperation, JournalOperation DEF ghosts
<1>4. Len(records'[cur]) = IF o = "lost" THEN Len(records[cur]) ELSE Len(records[cur]) + 1
  BY <1>1, <1>2, WorkingFacts, OperationWritten DEF IndInv
<1>5. CASE o # "ok"
  <2>1. Continue("prepareFailed", r) /\ KeepObservation
    BY <1>5 DEF PrepareOne, r
  <2>2. VolatileType'
    BY <1>2, <2>1, ContinueType DEF KeepObservation, IndInv, TypeOK, PCs
  <2>3. PointInv'
    BY <1>1, <1>2, <1>4, <2>1, WorkingFacts
       DEF Continue, Goto, IndInv, ValidSummary, Ops, ghosts
  <2>4. QED
    BY <1>3, <2>2, <2>3, Recombine
<1>6. CASE o = "ok" /\ r.backupState = "Intent"
  <2>1. Continue("backup", r) /\ KeepObservation
    BY <1>6 DEF PrepareOne, r
  <2>2. VolatileType'
    BY <1>2, <2>1, ContinueType DEF KeepObservation, IndInv, TypeOK, PCs
  <2>3. PointInv'
    BY <1>1, <1>2, <1>4, <1>6, <2>1, WorkingFacts
       DEF Continue, Goto, IndInv, ValidSummary, Ops, ghosts
  <2>4. QED
    BY <1>3, <2>2, <2>3, Recombine
<1>7. CASE o = "ok" /\ r.backupState # "Intent"
  <2>1. Proceed("prepare", idx + 1)
    BY <1>7 DEF PrepareOne, r
  <2>2. VolatileType'
    BY <1>1, <2>1, ProceedType DEF IndInv, PCs
  <2>3. PointInv'
    BY <1>1, <1>4, <1>7, <2>1, WorkingFacts
       DEF Proceed, Goto, IndInv, ValidSummary, Ops, ghosts
  <2>4. QED
    BY <1>3, <2>2, <2>3, Recombine
<1>8. QED
  BY <1>5, <1>6, <1>7

(* ensureBackup publishes the copy of an original, nothing else. *)
LEMMA EnsureBackupInv ==
    ASSUME IndInv, NEW o \in Outcomes, EnsureBackup(o)
    PROVE  IndInv'
<1>1. /\ pc = "backup" /\ rec \in Record /\ idx \in 1 .. Len(Ops(cur))
      /\ UNCHANGED <<install, plans, summary, records, active, terminal, ghosts>>
      /\ UNCHANGED <<seen, sameId>>
  BY DEF EnsureBackup, KeepObservation, IndInv
<1>2. JournalInv'
  BY <1>1, JournalKept DEF ghosts
<1>3. DurableType'
  <2>1. rec.original \in File
    BY <1>1 DEF Record
  <2>2. backup' \in [BackupDirs -> [Paths -> File]]
    BY <1>1, <2>1, OperationFacts DEF EnsureBackup, IndInv, TypeOK
  <2>3. QED
    BY <1>1, <2>2, SpendType DEF EnsureBackup, IndInv, TypeOK, DurableType, ghosts
<1>4. Continue(IF o = "ok" THEN "backupDurable" ELSE "prepareFailed", rec)
  BY DEF EnsureBackup
<1>5. VolatileType'
  BY <1>1, <1>4, ContinueType DEF IndInv, TypeOK, PCs
<1>6. PointInv'
  BY <1>1, <1>4, WorkingFacts DEF Continue, Goto, IndInv, ValidSummary, Ops, ghosts
<1>7. QED
  BY <1>2, <1>3, <1>5, <1>6, Recombine

(* A backup that cannot be trusted ends the preparation. *)
LEMMA BackupRejectedInv ==
    ASSUME IndInv, BackupRejected
    PROVE  IndInv'
<1>1. /\ pc = "backup" /\ rec \in Record /\ Continue("prepareFailed", rec)
      /\ KeepObservation /\ UNCHANGED <<install, durable, ghosts, faults>>
  BY DEF BackupRejected, IndInv
<1>2. DurableType' /\ JournalInv'
  BY <1>1, DurableKept
<1>3. VolatileType'
  BY <1>1, ContinueType DEF KeepObservation, IndInv, TypeOK, PCs
<1>4. PointInv'
  BY <1>1, WorkingFacts DEF Continue, Goto, IndInv, ValidSummary, Ops, ghosts, durable
<1>5. QED
  BY <1>2, <1>3, <1>4, Recombine

(* The record is marked durable in place. *)
LEMMA PersistBackupDurableInv ==
    ASSUME IndInv, NEW o \in Outcomes, PersistBackupDurable(o)
    PROVE  IndInv'
<1> DEFINE r == [rec EXCEPT !.backupState = "Durable"]
<1>1. /\ pc = "backupDurable" /\ rec \in Record
      /\ idx = Len(records[cur]) /\ idx \in 1 .. Len(Ops(cur))
      /\ WriteOperation(r, o) /\ active = NoTx
      /\ UNCHANGED <<install, backup, plans, summary, active, terminal, ghosts>>
  BY DEF PersistBackupDurable, IndInv
<1>2. r \in Record
  BY <1>1 DEF Record
<1>3. o = "ok" => Proceed("prepare", idx + 1)
  BY DEF PersistBackupDurable
<1>4. o # "ok" => Continue("prepareFailed", r) /\ KeepObservation
  BY DEF PersistBackupDurable
<1> HIDE DEF r
<1>5. DurableType' /\ JournalInv'
  BY <1>1, <1>2, WorkingFacts, SentinelAssumption, DurableOperation, JournalOperation DEF ghosts
<1>6. Len(records'[cur]) = Len(records[cur])
  BY <1>1, <1>2, WorkingFacts, OperationWritten DEF IndInv
<1>7. VolatileType'
  BY <1>1, <1>2, <1>3, <1>4, ProceedType, ContinueType DEF KeepObservation, IndInv, TypeOK, PCs
<1>8. PointInv'
  <2>1. CASE o = "ok"
    BY <1>1, <1>3, <1>6, <2>1, WorkingFacts
       DEF Proceed, Goto, IndInv, ValidSummary, Ops, ghosts
  <2>2. CASE o # "ok"
    BY <1>1, <1>2, <1>4, <1>6, <2>2, WorkingFacts
       DEF Continue, Goto, IndInv, ValidSummary, Ops, ghosts
  <2>3. QED
    BY <2>1, <2>2
<1>9. QED
  BY <1>5, <1>7, <1>8, Recombine

(* The abandoned transaction is marked, active.json never names it. *)
LEMMA FailPreparationInv ==
    ASSUME IndInv, NEW o \in Outcomes, FailPreparation(o)
    PROVE  IndInv'
<1> DEFINE r == [rec EXCEPT !.error = TRUE]
<1>1. /\ pc = "prepareFailed" /\ rec \in Record
      /\ idx \in 1 .. Len(records[cur]) + 1
      /\ WriteOperation(r, o) /\ active = NoTx /\ Return("fail")
      /\ UNCHANGED <<install, backup, plans, summary, active, terminal, ghosts>>
  BY WorkingFacts DEF FailPreparation, IndInv
<1>2. r \in Record
  BY <1>1 DEF Record
<1> HIDE DEF r
<1>3. DurableType' /\ JournalInv'
  BY <1>1, <1>2, WorkingFacts, SentinelAssumption, DurableOperation, JournalOperation DEF ghosts
<1>4. VolatileType' /\ PointInv'
  BY <1>1, ReturnType, PointReturn
<1>5. QED
  BY <1>3, <1>4, Recombine

(* active.json is published when the summary and every record exist. *)
LEMMA PublishActiveInv ==
    ASSUME IndInv, NEW o \in Outcomes, PublishActive(o)
    PROVE  IndInv'
<1>1. /\ pc = "prepare" /\ cur \in TxIds
      /\ ValidSummary(cur) /\ summary[cur].fileState = "Prepared"
      /\ Len(records[cur]) = Len(Ops(cur))
      /\ active' = IF o = "lost" THEN active ELSE cur
      /\ UNCHANGED <<install, backup, plans, summary, records, terminal, ghosts>>
  BY WorkingFacts DEF PublishActive, IndInv
<1>2. JournalInv'
  BY <1>1 DEF IndInv, JournalInv, SnapshotFirst, RecoveryAccepted, RestartAtMostOnce,
              IntentFirst, ValidSummary, LoadedRecords, Ops, ghosts
<1>3. DurableType'
  BY <1>1, SpendType DEF PublishActive, IndInv, TypeOK, DurableType, ghosts
<1>4. VolatileType'
  BY ReturnType, ProceedType DEF PublishActive, IndInv, PCs
<1>5. PointInv'
  <2>1. CASE o = "ok"
    <3>1. summary[cur].restartState \in {"NotRequested", "NotAttempted"}
      BY <1>1, AllowedStates DEF ValidSummary, ConsistentSummary, FileStates
    <3>2. QED
      BY <1>1, <2>1, <3>1 DEF PublishActive, Proceed, Goto, IndInv, PCs
  <2>2. CASE o # "ok"
    BY <2>2, PointReturn DEF PublishActive
  <2>3. QED
    BY <2>1, <2>2
<1>6. QED
  BY <1>2, <1>3, <1>4, <1>5, Recombine

-----------------------------------------------------------------------------
(* Applying. *)

(* A record of the active transaction is rewritten. *)
LEMMA ActiveOperation ==
    ASSUME IndInv, pc \in ActivePcs, idx \in 1 .. Len(Ops(cur)),
           NEW r \in Record, NEW o, WriteOperation(r, o),
           UNCHANGED <<install, backup, plans, summary, active, terminal, ghosts>>
    PROVE  DurableType' /\ JournalInv'
BY WorkingFacts, ActiveFacts, DurableOperation, JournalOperation DEF ghosts

(* The summary of the active transaction is rewritten. *)
LEMMA ActiveSummary ==
    ASSUME IndInv, pc \in ActivePcs,
           NEW s \in Summary, NEW o, WriteSummary(s, o),
           ConsistentSummary(plans[cur], s),
           launches[cur] > 0 =>
               s.restartState \in {"Intent", "Launched", "Failed", "OutcomeUnknown"},
           UNCHANGED <<install, backup, plans, records, active, terminal, ghosts>>
    PROVE  /\ DurableType' /\ JournalInv'
           /\ summary'[cur] = IF o = "lost" THEN summary[cur] ELSE s
BY WorkingFacts, DurableSummary, JournalSummary, SummaryWritten DEF IndInv, ghosts

(* While files may change the transaction has not started the application. *)
LEMMA NotLaunched ==
    ASSUME IndInv, pc \in FilePcs
    PROVE  /\ launches[cur] = 0
           /\ summary[cur].restartState \in {"NotRequested", "NotAttempted"}
           /\ pc \in ActivePcs
<1>1. pc \in ActivePcs /\ summary[cur].restartState \in {"NotRequested", "NotAttempted"}
  BY DEF IndInv, PCs
<1>2. cur \in TxIds /\ launches[cur] \in Nat
  BY <1>1, WorkingFacts DEF IndInv, TypeOK
<1>3. QED
  BY <1>1, <1>2 DEF IndInv, JournalInv, IntentFirst

(* A summary that moves among the file states without a restart. *)
LEMMA FileStateSummary ==
    ASSUME IndInv, pc \in FilePcs, NEW s \in Summary, NEW o, WriteSummary(s, o),
           s.restartState = summary[cur].restartState,
           s.restartError = summary[cur].restartError,
           s.completedAt = summary[cur].completedAt,
           s.rollbackError <=> s.fileState = "RecoveryFailed",
           s.fileState # "Complete",
           UNCHANGED <<install, backup, plans, records, active, terminal, ghosts>>
    PROVE  /\ DurableType' /\ JournalInv'
           /\ summary'[cur] = IF o = "lost" THEN summary[cur] ELSE s
<1>1. /\ ConsistentSummary(plans[cur], summary[cur])
      /\ summary[cur].restartState \in {"NotRequested", "NotAttempted"}
      /\ launches[cur] = 0 /\ pc \in ActivePcs
  BY NotLaunched, ActiveFacts
<1>c. summary[cur].fileState # "Complete"
  BY DEF IndInv, PointInv, Progress
<1>2. s.fileState \in FileStates
  BY DEF Summary
<1>3. ConsistentSummary(plans[cur], s)
  BY <1>1, <1>c, <1>2, AllowedStates DEF ConsistentSummary
<1>4. QED
  BY <1>1, <1>3, ActiveSummary

(* persistSummary(Applying): the only way into the apply loop. *)
LEMMA PersistApplyingInv ==
    ASSUME IndInv, NEW o \in Outcomes, PersistApplying(o)
    PROVE  IndInv'
<1> DEFINE s == [summary[cur] EXCEPT !.fileState = "Applying"]
<1>1. /\ pc = "applying" /\ pc \in FilePcs /\ WriteSummary(s, o)
      /\ summary[cur].fileState = "Prepared"
      /\ UNCHANGED <<install, backup, plans, records, active, terminal, ghosts>>
  BY DEF PersistApplying, IndInv
<1>2. summary[cur] \in Summary /\ ConsistentSummary(plans[cur], summary[cur])
  BY <1>1, NotLaunched, ActiveFacts
<1>3. /\ s \in Summary /\ s.fileState = "Applying"
      /\ s.restartState = summary[cur].restartState
      /\ s.restartError = summary[cur].restartError
      /\ s.completedAt = summary[cur].completedAt
      /\ s.rollbackError <=> s.fileState = "RecoveryFailed"
  BY <1>1, <1>2 DEF Summary, FileStates, ConsistentSummary
<1> HIDE DEF s
<1>4. /\ DurableType' /\ JournalInv'
      /\ summary'[cur] = IF o = "lost" THEN summary[cur] ELSE s
  BY <1>1, <1>3, FileStateSummary
<1>5. VolatileType'
  BY ProceedType DEF PersistApplying, IndInv, PCs
<1>6. PointInv'
  BY <1>1, <1>3, <1>4, NotLaunched, WorkingFacts
     DEF PersistApplying, Proceed, Goto, IndInv, Ops, ghosts
<1>7. QED
  BY <1>4, <1>5, <1>6, Recombine

(* Steps of the apply loop that change nothing on disk. *)
LEMMA SkipAppliedInv ==
    ASSUME IndInv, SkipApplied
    PROVE  IndInv'
<1>1. /\ pc = "apply" /\ idx \in 1 .. Len(Ops(cur)) /\ Proceed("apply", idx + 1)
      /\ UNCHANGED <<install, durable, ghosts, faults>>
  BY WorkingFacts DEF SkipApplied, IndInv, PCs
<1>2. DurableType' /\ JournalInv'
  BY <1>1, DurableKept
<1>3. VolatileType'
  BY <1>1, ProceedType DEF IndInv, PCs
<1>4. PointInv'
  BY <1>1, WorkingFacts DEF Proceed, Goto, IndInv, Ops, durable, PCs
<1>5. QED
  BY <1>2, <1>3, <1>4, Recombine

(* The changed target is reported; nothing on disk changes. *)
LEMMA ApplyRejectedInv ==
    ASSUME IndInv, NEW o \in Outcomes, ApplyRejected(o)
    PROVE  IndInv'
<1>1. /\ pc = "apply" /\ pc \in ActivePcs /\ idx \in 1 .. Len(Ops(cur))
      /\ Continue("applyFailed", records[cur][idx]) /\ KeepObservation
      /\ Spend(o) /\ UNCHANGED <<install, durable, ghosts>>
  BY WorkingFacts DEF ApplyRejected, FailedCheck, IndInv, PCs
<1>2. records[cur][idx] \in Record
  BY <1>1, OperationFacts, ActiveFacts, WorkingFacts
<1>3. DurableType' /\ JournalInv'
  BY <1>1, DurableRead
<1>4. VolatileType'
  BY <1>1, <1>2, ContinueType DEF KeepObservation, IndInv, TypeOK, PCs
<1>5. PointInv'
  BY <1>1, <1>2, WorkingFacts DEF Continue, Goto, IndInv, Ops, durable
<1>6. QED
  BY <1>3, <1>4, <1>5, Recombine

(* A record that cannot be read sends the transaction into rollback. *)
LEMMA ApplyUnloadableInv ==
    ASSUME IndInv, NEW o \in Outcomes, ApplyUnloadable(o)
    PROVE  IndInv'
<1>1. /\ pc = "apply" /\ Proceed("markRollback", 0)
      /\ Spend(o) /\ UNCHANGED <<install, durable, ghosts>>
  BY DEF ApplyUnloadable, FailedCheck
<1>2. DurableType' /\ JournalInv'
  BY <1>1, DurableRead
<1>3. VolatileType'
  BY <1>1, ProceedType DEF IndInv, PCs
<1>4. PointInv'
  BY <1>1, WorkingFacts DEF Proceed, Goto, IndInv, durable, PCs
<1>5. QED
  BY <1>2, <1>3, <1>4, Recombine

(* The intent of an operation is journaled before its commit. *)
LEMMA ApplyIntentInv ==
    ASSUME IndInv, NEW o \in Outcomes, ApplyIntent(o)
    PROVE  IndInv'
<1> DEFINE r == [records[cur][idx] EXCEPT !.applyState = "Intent"]
           label == IF o = "ok" THEN "commit" ELSE "applyFailed"
<1>1. /\ pc = "apply" /\ pc \in ActivePcs /\ idx \in 1 .. Len(Ops(cur))
      /\ WriteOperation(r, o) /\ Continue(label, r)
      /\ seen' = (IF o = "ok" THEN install[OpAt.target] ELSE Missing) /\ sameId' = sameId
      /\ UNCHANGED <<install, backup, plans, summary, active, terminal, ghosts>>
  BY WorkingFacts DEF ApplyIntent, IndInv, PCs
<1>2. r \in Record /\ install[OpAt.target] \in File
  <2>1. records[cur][idx] \in Record /\ install[OpAt.target] \in File
    BY <1>1, OperationFacts, ActiveFacts, WorkingFacts
  <2>2. QED
    BY <2>1 DEF Record
<1> HIDE DEF r
<1>3. DurableType' /\ JournalInv'
  BY <1>1, <1>2, ActiveOperation
<1>4. VolatileType'
  BY <1>1, <1>2, ContinueType DEF IndInv, TypeOK, PCs, File
<1>5. PointInv'
  BY <1>1, <1>2, WorkingFacts DEF Continue, Goto, IndInv, Ops
<1>6. QED
  BY <1>3, <1>4, <1>5, Recombine

(* A commit changes one managed file to a file, or nothing. *)
LEMMA SwapType ==
    ASSUME IndInv, pc \in ActivePcs, idx \in 1 .. Len(Ops(cur)),
           NEW data \in File, NEW o, Swap(data, o), UNCHANGED <<durable, ghosts>>
    PROVE  DurableType' /\ JournalInv'
<1>1. install' \in [Paths -> File]
  BY OperationFacts DEF Swap, IndInv, TypeOK
<1>2. faults' \in 0 .. MaxFaults
  BY SpendType DEF Swap, IndInv
<1>3. QED
  BY <1>1, <1>2, JournalKept DEF IndInv, TypeOK, DurableType, durable, ghosts

(* The commit of an operation touches a managed file and no journal. *)
LEMMA CommitInv ==
    ASSUME IndInv, NEW o \in Outcomes, Commit(o)
    PROVE  IndInv'
<1> DEFINE label == IF ExpectationHolds /\ o = "ok" THEN "applyCheck" ELSE "applyFailed"
<1>1. /\ pc = "commit" /\ pc \in ActivePcs /\ idx \in 1 .. Len(Ops(cur)) /\ rec \in Record
      /\ Swap(OpAt.data, o) /\ Continue(label, rec) /\ seen' = Missing /\ sameId' = TRUE
      /\ UNCHANGED <<durable, ghosts>>
  BY DEF Commit, IndInv, PCs
<1>2. DurableType' /\ JournalInv'
  BY <1>1, OperationFacts, SwapType
<1>3. label \in {"applyCheck", "applyFailed"}
  OBVIOUS
<1> HIDE DEF label
<1>4. VolatileType'
  BY <1>1, <1>3, ContinueType DEF IndInv, PCs, File
<1>5. PointInv'
  BY <1>1, <1>3, WorkingFacts DEF Continue, Goto, IndInv, Ops, durable
<1>6. QED
  BY <1>2, <1>4, <1>5, Recombine

(* The record of an operation found installed is completed in place. *)
LEMMA ApplyCheckInv ==
    ASSUME IndInv, NEW o \in Outcomes, ApplyCheck(o)
    PROVE  IndInv'
<1> DEFINE r == [rec EXCEPT !.applyState = "Complete"]
<1>1. /\ pc = "applyCheck" /\ pc \in ActivePcs /\ idx \in 1 .. Len(Ops(cur)) /\ rec \in Record
      /\ WriteOperation(r, o)
      /\ UNCHANGED <<install, backup, plans, summary, active, terminal, ghosts>>
  BY DEF ApplyCheck, IndInv, PCs
<1>2. o = "ok" => Proceed("apply", idx + 1)
  BY DEF ApplyCheck
<1>3. o # "ok" => Continue("applyFailed", r) /\ KeepObservation
  BY DEF ApplyCheck
<1>4. r \in Record
  BY <1>1 DEF Record
<1> HIDE DEF r
<1>5. DurableType' /\ JournalInv'
  BY <1>1, <1>4, ActiveOperation
<1>6. VolatileType'
  BY <1>1, <1>2, <1>3, <1>4, ProceedType, ContinueType
     DEF KeepObservation, IndInv, TypeOK, PCs
<1>7. PointInv'
  BY <1>1, <1>2, <1>3, <1>4, WorkingFacts DEF Proceed, Continue, Goto, IndInv, Ops
<1>8. QED
  BY <1>5, <1>6, <1>7, Recombine

(* A commit that is not found installed is reported. *)
LEMMA ApplyCheckFailedInv ==
    ASSUME IndInv, NEW o \in Outcomes, ApplyCheckFailed(o)
    PROVE  IndInv'
<1>1. /\ pc = "applyCheck" /\ rec \in Record /\ Continue("applyFailed", rec)
      /\ KeepObservation /\ Spend(o) /\ UNCHANGED <<install, durable, ghosts>>
  BY DEF ApplyCheckFailed, FailedCheck, IndInv
<1>2. DurableType' /\ JournalInv'
  BY <1>1, DurableRead
<1>3. VolatileType'
  BY <1>1, ContinueType DEF KeepObservation, IndInv, TypeOK, PCs
<1>4. PointInv'
  BY <1>1, WorkingFacts DEF Continue, Goto, IndInv, Ops, durable, PCs
<1>5. QED
  BY <1>2, <1>3, <1>4, Recombine

(* A failed operation is recorded, then the files are rolled back. *)
LEMMA FailApplyInv ==
    ASSUME IndInv, NEW o \in Outcomes, FailApply(o)
    PROVE  IndInv'
<1> DEFINE r == [rec EXCEPT !.error = TRUE]
<1>1. /\ pc = "applyFailed" /\ pc \in ActivePcs /\ idx \in 1 .. Len(Ops(cur)) /\ rec \in Record
      /\ WriteOperation(r, o) /\ Proceed("markRollback", 0)
      /\ UNCHANGED <<install, backup, plans, summary, active, terminal, ghosts>>
  BY DEF FailApply, IndInv, PCs
<1>2. r \in Record
  BY <1>1 DEF Record
<1> HIDE DEF r
<1>3. DurableType' /\ JournalInv'
  BY <1>1, <1>2, ActiveOperation
<1>4. VolatileType'
  BY <1>1, ProceedType DEF IndInv, PCs
<1>5. PointInv'
  BY <1>1, WorkingFacts DEF Proceed, Goto, IndInv
<1>6. QED
  BY <1>3, <1>4, <1>5, Recombine

(* All operations are applied: the restart comes next. *)
LEMMA PersistFilesAppliedInv ==
    ASSUME IndInv, NEW o \in Outcomes, PersistFilesApplied(o)
    PROVE  IndInv'
<1> DEFINE s == [summary[cur] EXCEPT !.fileState = "FilesApplied"]
<1>1. /\ pc = "apply" /\ pc \in FilePcs /\ WriteSummary(s, o)
      /\ summary[cur].fileState = "Applying"
      /\ Proceed(IF o = "ok" THEN "restart" ELSE "markRollback", 0)
      /\ UNCHANGED <<install, backup, plans, records, active, terminal, ghosts>>
  BY DEF PersistFilesApplied, IndInv
<1>2. summary[cur] \in Summary /\ ConsistentSummary(plans[cur], summary[cur])
  BY <1>1, NotLaunched, ActiveFacts
<1>3. /\ s \in Summary /\ s.fileState = "FilesApplied"
      /\ s.restartState = summary[cur].restartState
      /\ s.restartError = summary[cur].restartError
      /\ s.completedAt = summary[cur].completedAt
      /\ s.rollbackError <=> s.fileState = "RecoveryFailed"
  BY <1>1, <1>2 DEF Summary, FileStates, ConsistentSummary
<1> HIDE DEF s
<1>4. /\ DurableType' /\ JournalInv'
      /\ summary'[cur] = IF o = "lost" THEN summary[cur] ELSE s
  BY <1>1, <1>3, FileStateSummary
<1>5. VolatileType'
  BY <1>1, ProceedType DEF IndInv, PCs
<1>6. PointInv'
  BY <1>1, <1>3, <1>4, NotLaunched, WorkingFacts DEF Proceed, Goto, IndInv
<1>7. QED
  BY <1>4, <1>5, <1>6, Recombine

-----------------------------------------------------------------------------
(* Rolling back. *)

(* RollingBack is journaled before the first file is restored. *)
LEMMA MarkRollbackInv ==
    ASSUME IndInv, NEW o \in Outcomes, MarkRollback(o)
    PROVE  IndInv'
<1> DEFINE s == [summary[cur] EXCEPT !.fileState = "RollingBack",
                 !.applyError = TRUE, !.rollbackError = FALSE]
<1>1. /\ pc = "markRollback" /\ pc \in FilePcs /\ WriteSummary(s, o)
      /\ UNCHANGED <<install, backup, plans, records, active, terminal, ghosts>>
  BY DEF MarkRollback
<1>2. /\ o = "ok" => Proceed("rollback", Len(Ops(cur)))
      /\ o # "ok" => Return("fail")
  BY DEF MarkRollback
<1>3. summary[cur] \in Summary
  BY <1>1, NotLaunched, ActiveFacts
<1>4. /\ s \in Summary /\ s.fileState = "RollingBack"
      /\ s.restartState = summary[cur].restartState
      /\ s.restartError = summary[cur].restartError
      /\ s.completedAt = summary[cur].completedAt
      /\ s.rollbackError <=> s.fileState = "RecoveryFailed"
  BY <1>3 DEF Summary, FileStates
<1> HIDE DEF s
<1>5. /\ DurableType' /\ JournalInv'
      /\ summary'[cur] = IF o = "lost" THEN summary[cur] ELSE s
  BY <1>1, <1>4, FileStateSummary
<1>6. Len(Ops(cur)) \in Nat
  BY <1>1, NotLaunched, WorkingFacts
<1>7. VolatileType'
  BY <1>2, <1>6, ProceedType, ReturnType DEF IndInv, PCs
<1>8. PointInv'
  <2>1. CASE o = "ok"
    BY <1>1, <1>2, <1>4, <1>5, <1>6, <2>1, NotLaunched, WorkingFacts
       DEF Proceed, Goto, IndInv, Ops
  <2>2. CASE o # "ok"
    BY <1>2, <2>2, PointReturn
  <2>3. QED
    BY <2>1, <2>2
<1>9. QED
  BY <1>5, <1>7, <1>8, Recombine

(* What the rollback loop may rely on. *)
LEMMA RollbackFacts ==
    ASSUME IndInv, pc \in RollbackPcs, idx > 0
    PROVE  /\ pc \in ActivePcs /\ pc \in FilePcs
           /\ idx \in 1 .. Len(Ops(cur)) /\ records[cur][idx] \in Record
           /\ OpAt.data \in File /\ install[OpAt.target] \in File
<1>1. pc \in ActivePcs /\ idx \in 1 .. Len(Ops(cur))
  BY NotLaunched, WorkingFacts DEF IndInv
<1>2. QED
  BY <1>1, OperationFacts, ActiveFacts, WorkingFacts

(* A rollback step that rewrites the record at idx and goes on, or fails. *)
LEMMA RollbackRecordInv ==
    ASSUME IndInv, pc \in RollbackPcs, idx > 0,
           NEW r \in Record, NEW o, WriteOperation(r, o),
           UNCHANGED <<install, backup, plans, summary, active, terminal, ghosts>>,
           Proceed("rollback", idx - 1) \/ Proceed("rollbackFailed", 0)
    PROVE  IndInv'
<1>1. DurableType' /\ JournalInv'
  BY RollbackFacts, ActiveOperation
<1>2. idx - 1 \in Nat
  BY RollbackFacts, WorkingFacts
<1>3. VolatileType'
  BY <1>2, ProceedType DEF IndInv, PCs
<1>4. PointInv'
  BY RollbackFacts, WorkingFacts DEF Proceed, Goto, IndInv, Ops
<1>5. QED
  BY <1>1, <1>3, <1>4, Recombine

(* rollbackOne on a file that already is the original. *)
LEMMA RollbackSkipInv ==
    ASSUME IndInv, NEW o \in Outcomes, RollbackSkip(o)
    PROVE  IndInv'
<1> DEFINE old == records[cur][idx]
           r == [old EXCEPT !.error = FALSE,
                   !.rollbackState = IF old.applyState = "Pending" THEN "NotRequired"
                                     ELSE "Complete"]
<1>1. pc \in RollbackPcs /\ idx > 0 /\ WriteOperation(r, o)
      /\ UNCHANGED <<install, backup, plans, summary, active, terminal, ghosts>>
  BY DEF RollbackSkip
<1>2. Proceed("rollback", idx - 1) \/ Proceed("rollbackFailed", 0)
  BY DEF RollbackSkip
<1>3. r \in Record
  <2>1. old \in Record
    BY <1>1, RollbackFacts
  <2>2. QED
    BY <2>1 DEF Record
<1> HIDE DEF r
<1>4. QED
  BY <1>1, <1>2, <1>3, RollbackRecordInv

(* The intent to restore is journaled before the restoring commit. *)
LEMMA RollbackIntentInv ==
    ASSUME IndInv, NEW o \in Outcomes, RollbackIntent(o)
    PROVE  IndInv'
<1> DEFINE r == [records[cur][idx] EXCEPT !.rollbackState = "Intent", !.error = FALSE]
<1>1. /\ pc = "rollback" /\ pc \in RollbackPcs /\ idx > 0 /\ WriteOperation(r, o)
      /\ UNCHANGED <<install, backup, plans, summary, active, terminal, ghosts>>
  BY DEF RollbackIntent
<1>2. o = "ok" => Continue("restore", r) /\ seen' = install[OpAt.target] /\ sameId' = sameId
  BY DEF RollbackIntent
<1>3. o # "ok" => Proceed("rollbackFailed", 0)
  BY DEF RollbackIntent
<1>4. r \in Record
  <2>1. records[cur][idx] \in Record
    BY <1>1, RollbackFacts
  <2>2. QED
    BY <2>1 DEF Record
<1> HIDE DEF r
<1>5. CASE o = "ok"
  <2>1. DurableType' /\ JournalInv'
    BY <1>1, <1>4, RollbackFacts, ActiveOperation
  <2>2. VolatileType'
    BY <1>1, <1>2, <1>4, <1>5, RollbackFacts, ContinueType DEF IndInv, TypeOK, PCs
  <2>3. PointInv'
    BY <1>1, <1>2, <1>4, <1>5, RollbackFacts, WorkingFacts DEF Continue, Goto, IndInv, Ops
  <2>4. QED
    BY <2>1, <2>2, <2>3, Recombine
<1>6. CASE o # "ok"
  BY <1>1, <1>3, <1>4, <1>6, RollbackRecordInv
<1>7. QED
  BY <1>5, <1>6

(* A rollback step that stays on the operation and changes nothing on disk. *)
LEMMA RollbackStuckInv ==
    ASSUME IndInv, pc \in RollbackPcs, idx > 0, NEW r \in Record, NEW o, Spend(o),
           Continue("rollbackOpFailed", r), seen' \in File, sameId' \in BOOLEAN,
           UNCHANGED <<install, durable, ghosts>>
    PROVE  IndInv'
<1>1. DurableType' /\ JournalInv'
  BY DurableRead
<1>2. VolatileType'
  BY ContinueType DEF IndInv, PCs
<1>3. PointInv'
  BY RollbackFacts, WorkingFacts DEF Continue, Goto, IndInv, Ops, durable
<1>4. QED
  BY <1>1, <1>2, <1>3, Recombine

(* rollbackOne on a file that is not ours to restore. *)
LEMMA RollbackRejectedInv ==
    ASSUME IndInv, NEW o \in Outcomes, RollbackRejected(o)
    PROVE  IndInv'
BY RollbackFacts, RollbackStuckInv
   DEF RollbackRejected, FailedCheck, KeepObservation, IndInv, TypeOK

(* rollbackOne with a backup that cannot be trusted. *)
LEMMA RestoreUnverifiedInv ==
    ASSUME IndInv, NEW o \in Outcomes, RestoreUnverified(o)
    PROVE  IndInv'
<1>1. pc \in RollbackPcs /\ idx > 0 /\ rec \in Record
  BY WorkingFacts DEF RestoreUnverified, IndInv, PCs
<1>2. QED
  BY <1>1, RollbackStuckInv DEF RestoreUnverified, FailedCheck, File

(* A restored file that is not the original is reported. *)
LEMMA RestoreCheckFailedInv ==
    ASSUME IndInv, NEW o \in Outcomes, RestoreCheckFailed(o)
    PROVE  IndInv'
<1>1. pc \in RollbackPcs /\ idx > 0 /\ rec \in Record
  BY WorkingFacts DEF RestoreCheckFailed, IndInv, PCs
<1>2. QED
  BY <1>1, RollbackStuckInv DEF RestoreCheckFailed, FailedCheck, KeepObservation, IndInv, TypeOK

(* A rollback without all records restores nothing. *)
LEMMA RollbackUnloadableInv ==
    ASSUME IndInv, NEW o \in Outcomes, RollbackUnloadable(o)
    PROVE  IndInv'
<1>1. /\ pc = "rollback" /\ Proceed("rollbackFailed", 0)
      /\ Spend(o) /\ UNCHANGED <<install, durable, ghosts>>
  BY DEF RollbackUnloadable, FailedCheck
<1>2. DurableType' /\ JournalInv'
  BY <1>1, DurableRead
<1>3. VolatileType'
  BY <1>1, ProceedType DEF IndInv, PCs
<1>4. PointInv'
  BY <1>1, WorkingFacts DEF Proceed, Goto, IndInv, durable, PCs
<1>5. QED
  BY <1>2, <1>3, <1>4, Recombine

(* The restoring commit. *)
LEMMA RestoreInv ==
    ASSUME IndInv, NEW o \in Outcomes, Restore(o)
    PROVE  IndInv'
<1> DEFINE label == IF ExpectationHolds /\ o = "ok" THEN "restoreCheck" ELSE "rollbackOpFailed"
<1>1. /\ pc = "restore" /\ pc \in ActivePcs /\ idx \in 1 .. Len(Ops(cur)) /\ rec \in Record
      /\ Swap(rec.original, o) /\ Continue(label, rec) /\ seen' = Missing /\ sameId' = TRUE
      /\ UNCHANGED <<durable, ghosts>>
  BY DEF Restore, IndInv, PCs
<1>2. rec.original \in File
  BY <1>1 DEF Record
<1>3. DurableType' /\ JournalInv'
  BY <1>1, <1>2, SwapType
<1>4. label \in {"restoreCheck", "rollbackOpFailed"}
  OBVIOUS
<1> HIDE DEF label
<1>5. VolatileType'
  BY <1>1, <1>4, ContinueType DEF IndInv, PCs, File
<1>6. PointInv'
  BY <1>1, <1>4, WorkingFacts DEF Continue, Goto, IndInv, Ops, durable
<1>7. QED
  BY <1>3, <1>5, <1>6, Recombine

(* The record of a restored operation is completed in place. *)
LEMMA RestoreCheckInv ==
    ASSUME IndInv, NEW o \in Outcomes, RestoreCheck(o)
    PROVE  IndInv'
<1> DEFINE r == [rec EXCEPT !.rollbackState = "Complete"]
<1>1. /\ pc \in RollbackPcs /\ idx > 0 /\ rec \in Record /\ WriteOperation(r, o)
      /\ UNCHANGED <<install, backup, plans, summary, active, terminal, ghosts>>
  BY WorkingFacts DEF RestoreCheck, IndInv, PCs
<1>2. Proceed("rollback", idx - 1) \/ Proceed("rollbackFailed", 0)
  BY DEF RestoreCheck
<1>3. r \in Record
  BY <1>1 DEF Record
<1> HIDE DEF r
<1>4. QED
  BY <1>1, <1>2, <1>3, RollbackRecordInv

(* The operation that cannot be restored is marked in place. *)
LEMMA MarkRollbackOperationFailedInv ==
    ASSUME IndInv, NEW o \in Outcomes, MarkRollbackOperationFailed(o)
    PROVE  IndInv'
<1> DEFINE r == [rec EXCEPT !.rollbackState = "Failed", !.error = TRUE]
<1>1. /\ pc \in RollbackPcs /\ idx > 0 /\ rec \in Record /\ WriteOperation(r, o)
      /\ Proceed("rollbackFailed", 0)
      /\ UNCHANGED <<install, backup, plans, summary, active, terminal, ghosts>>
  BY WorkingFacts DEF MarkRollbackOperationFailed, IndInv, PCs
<1>2. r \in Record
  BY <1>1 DEF Record
<1> HIDE DEF r
<1>3. QED
  BY <1>1, <1>2, RollbackRecordInv

(* RecoveryFailed is a summary that recovery accepts again. *)
LEMMA RecordRollbackFailureInv ==
    ASSUME IndInv, NEW o \in Outcomes, RecordRollbackFailure(o)
    PROVE  IndInv'
<1> DEFINE s == [summary[cur] EXCEPT !.fileState = "RecoveryFailed", !.rollbackError = TRUE]
<1>1. /\ pc = "rollbackFailed" /\ pc \in FilePcs /\ WriteSummary(s, o) /\ Return("fail")
      /\ UNCHANGED <<install, backup, plans, records, active, terminal, ghosts>>
  BY DEF RecordRollbackFailure
<1>2. summary[cur] \in Summary
  BY <1>1, NotLaunched, ActiveFacts
<1>3. /\ s \in Summary /\ s.fileState = "RecoveryFailed"
      /\ s.restartState = summary[cur].restartState
      /\ s.restartError = summary[cur].restartError
      /\ s.completedAt = summary[cur].completedAt
      /\ s.rollbackError <=> s.fileState = "RecoveryFailed"
  BY <1>2 DEF Summary, FileStates
<1> HIDE DEF s
<1>4. DurableType' /\ JournalInv'
  BY <1>1, <1>3, FileStateSummary
<1>5. VolatileType' /\ PointInv'
  BY <1>1, ReturnType, PointReturn
<1>6. QED
  BY <1>4, <1>5, Recombine

(* RolledBack is journaled when every record has been walked. *)
LEMMA PersistRolledBackInv ==
    ASSUME IndInv, NEW o \in Outcomes, PersistRolledBack(o)
    PROVE  IndInv'
<1> DEFINE s == [summary[cur] EXCEPT !.fileState = "RolledBack", !.rollbackError = FALSE]
<1>1. /\ pc = "rollback" /\ pc \in FilePcs
      /\ UNCHANGED <<install, backup, plans, records, active, terminal, ghosts>>
      /\ Proceed("clear", 0) \/ Return("fail")
  BY DEF PersistRolledBack
<1>2. DurableType' /\ JournalInv'
  <2>1. CASE summary[cur].fileState = "RolledBack"
    BY <1>1, <2>1, DurableKept DEF PersistRolledBack, durable
  <2>2. CASE summary[cur].fileState # "RolledBack"
    <3>1. summary[cur] \in Summary /\ WriteSummary(s, o)
      BY <1>1, <2>2, NotLaunched, ActiveFacts DEF PersistRolledBack
    <3>2. /\ s \in Summary /\ s.fileState = "RolledBack"
          /\ s.restartState = summary[cur].restartState
          /\ s.restartError = summary[cur].restartError
          /\ s.completedAt = summary[cur].completedAt
          /\ s.rollbackError <=> s.fileState = "RecoveryFailed"
      BY <3>1 DEF Summary, FileStates
    <3> HIDE DEF s
    <3>3. QED
      BY <1>1, <3>1, <3>2, FileStateSummary
  <2>3. QED
    BY <2>1, <2>2
<1>3. VolatileType'
  BY <1>1, ProceedType, ReturnType DEF IndInv, PCs
<1>4. PointInv'
  <2>1. CASE Proceed("clear", 0)
    BY <1>1, <2>1, NotLaunched, WorkingFacts DEF Proceed, Goto, IndInv
  <2>2. CASE Return("fail")
    BY <2>2, PointReturn
  <2>3. QED
    BY <1>1, <2>1, <2>2
<1>5. QED
  BY <1>2, <1>3, <1>4, Recombine

-----------------------------------------------------------------------------
(* Invocation, recovery and the end of a transaction. *)

(* A new invocation works on what active.json names, or on nothing. *)
LEMMA InvokeInv ==
    ASSUME IndInv, NEW r \in Request, Invoke(r)
    PROVE  IndInv'
<1>1. /\ req' = r /\ result' = "none" /\ recovering' = (active # NoTx) /\ cur' = active
      /\ pc' = (IF active # NoTx THEN "recover" ELSE "dispatch")
      /\ UNCHANGED <<install, durable, idx, rec, seen, sameId, ghosts, faults>>
  BY DEF Invoke
<1>2. DurableType' /\ JournalInv'
  BY <1>1, DurableKept
<1>3. VolatileType'
  <2>1. recovering' \in BOOLEAN
    BY <1>1
  <2>2. QED
    BY <1>1, <2>1 DEF IndInv, TypeOK, VolatileType, PCs
<1>4. PointInv'
  BY <1>1 DEF IndInv, TypeOK, durable, PCs
<1>5. QED
  BY <1>2, <1>3, <1>4, Recombine

(* What recover() chooses agrees with the summary it read. *)
LEMMA RecoverTargetFacts ==
    ASSUME IndInv, pc = "recover", NEW v \in BOOLEAN
    PROVE  \/ /\ RecoverTarget(v) = "publish" /\ summary[cur].fileState = "Complete"
           \/ RecoverTarget(v) = "terminalFailed"
           \/ /\ RecoverTarget(v) = "restart" /\ summary[cur].fileState = "FilesApplied"
           \/ /\ RecoverTarget(v) \in {"rollback", "markRollback"}
              /\ summary[cur].fileState # "Complete"
              /\ summary[cur].restartState \in {"NotRequested", "NotAttempted"}
<1>1. summary[cur] \in Summary /\ ConsistentSummary(plans[cur], summary[cur])
  BY ActiveFacts DEF PCs
<1> DEFINE f == summary[cur].fileState
           r == summary[cur].restartState
<1>2. f \in FileStates /\ r \in AllowedRestartStates(f)
  BY <1>1 DEF Summary, ConsistentSummary
<1>3. CASE f = "Complete"
  BY <1>3 DEF RecoverTarget
<1>4. CASE f = "RolledBack"
  BY <1>2, <1>4, AllowedStates DEF RecoverTarget, FileStates
<1>5. CASE f = "FilesApplied" /\ v
  BY <1>5 DEF RecoverTarget
<1>6. CASE f \notin {"Complete", "RolledBack"} /\ ~(f = "FilesApplied" /\ v)
  <2>1. RecoverTarget(v) = IF RestartMayHaveStarted(cur) THEN "terminalFailed" ELSE "markRollback"
    BY <1>6 DEF RecoverTarget
  <2>2. ~RestartMayHaveStarted(cur) => r \in {"NotRequested", "NotAttempted"}
    BY <1>2, <1>6, AllowedStates DEF RestartMayHaveStarted, FileStates
  <2>3. QED
    BY <1>6, <2>1, <2>2
<1>7. QED
  BY <1>3, <1>4, <1>5, <1>6

(* recover() goes on at a point that agrees with the journal. *)
LEMMA RecoverInv ==
    ASSUME IndInv, NEW o \in Outcomes, Recover(o)
    PROVE  IndInv'
<1> DEFINE v == o = "ok" /\ VerifyAppliedState(cur)
<1>1. pc = "recover" /\ Spend(o) /\ UNCHANGED <<install, durable, ghosts>>
  BY DEF Recover
<1>2. CASE RecoverRejected
  <2>1. Return("fail")
    BY <1>2 DEF Recover
  <2>2. DurableType' /\ JournalInv'
    BY <1>1, DurableRead
  <2>3. VolatileType' /\ PointInv'
    BY <2>1, ReturnType, PointReturn
  <2>4. QED
    BY <2>2, <2>3, Recombine
<1>3. CASE ~RecoverRejected
  <2>1. Proceed(RecoverTarget(v), Len(Ops(cur)))
    BY <1>3 DEF Recover
  <2>2. DurableType' /\ JournalInv'
    BY <1>1, DurableRead
  <2>3. Len(Ops(cur)) \in Nat /\ cur \in TxIds /\ active = cur
    BY <1>1, WorkingFacts, ActiveFacts DEF PCs
  <2>4. v \in BOOLEAN
    BY DEF VerifyAppliedState
  <2> HIDE DEF v
  <2>5. VolatileType'
    BY <1>1, <2>1, <2>3, <2>4, RecoverTargetFacts, ProceedType DEF IndInv, PCs
  <2>6. PointInv'
    BY <1>1, <2>1, <2>3, <2>4, RecoverTargetFacts DEF Proceed, Goto, IndInv, Ops, durable
  <2>7. QED
    BY <2>2, <2>5, <2>6, Recombine
<1>4. QED
  BY <1>2, <1>3

(* Failing closed turns an interrupted launch into an unknown outcome. *)
LEMMA RecordTerminalReconciliationFailureInv ==
    ASSUME IndInv, NEW o \in Outcomes, RecordTerminalReconciliationFailure(o)
    PROVE  IndInv'
<1> DEFINE old == summary[cur]
           s == TerminalFailure(old)
<1>1. /\ pc = "terminalFailed" /\ pc \in ActivePcs /\ WriteSummary(s, o) /\ Return("fail")
      /\ UNCHANGED <<install, backup, plans, records, active, terminal, ghosts>>
  BY DEF RecordTerminalReconciliationFailure, PCs
<1>2. old \in Summary /\ ConsistentSummary(plans[cur], old)
  BY <1>1, ActiveFacts
<1>3. /\ s \in Summary /\ s.fileState = old.fileState /\ s.rollbackError = old.rollbackError
      /\ s.completedAt = old.completedAt
      /\ old.restartState = "Intent" => s.restartState = "OutcomeUnknown" /\ s.restartError = TRUE
      /\ old.restartState # "Intent" =>
            s.restartState = old.restartState /\ s.restartError = old.restartError
  BY <1>2 DEF TerminalFailure, Summary, RestartStates
<1> HIDE DEF s
<1>4. ConsistentSummary(plans[cur], s)
  <2>1. CASE old.restartState = "Intent"
    <3>1. old.fileState = "FilesApplied"
      BY <1>2, <2>1, AllowedStates DEF Summary, ConsistentSummary
    <3>2. QED
      BY <1>2, <1>3, <2>1, <3>1, AllowedStates DEF ConsistentSummary
  <2>2. CASE old.restartState # "Intent"
    BY <1>2, <1>3, <2>2 DEF ConsistentSummary
  <2>3. QED
    BY <2>1, <2>2
<1>5. launches[cur] > 0 =>
          s.restartState \in {"Intent", "Launched", "Failed", "OutcomeUnknown"}
  BY <1>1, <1>3, WorkingFacts DEF IndInv, JournalInv, IntentFirst
<1>6. DurableType' /\ JournalInv'
  BY <1>1, <1>3, <1>4, <1>5, ActiveSummary
<1>7. VolatileType' /\ PointInv'
  BY <1>1, ReturnType, PointReturn
<1>8. QED
  BY <1>6, <1>7, Recombine

(* The restart intent is durable before the launch, and only follows a     *)
(* restart that was never attempted.                                       *)
LEMMA RestartIntentInv ==
    ASSUME IndInv, NEW o \in Outcomes, RestartIntent(o)
    PROVE  IndInv'
<1> DEFINE s == [summary[cur] EXCEPT !.restartState = "Intent"]
<1>1. /\ pc = "restart" /\ pc \in ActivePcs /\ WriteSummary(s, o)
      /\ summary[cur].restartState = "NotAttempted"
      /\ summary[cur].fileState = "FilesApplied"
      /\ UNCHANGED <<install, backup, plans, records, active, terminal, ghosts>>
  BY DEF RestartIntent, RestartPending, IndInv, PCs
<1>2. /\ o = "ok" => Proceed("launch", 0)
      /\ o # "ok" => Return("fail")
  BY DEF RestartIntent
<1>3. summary[cur] \in Summary /\ ConsistentSummary(plans[cur], summary[cur])
  BY <1>1, ActiveFacts
<1>4. /\ s \in Summary /\ s.restartState = "Intent"
      /\ s.fileState = "FilesApplied"
      /\ s.restartError = summary[cur].restartError
      /\ s.completedAt = summary[cur].completedAt
      /\ s.rollbackError = summary[cur].rollbackError
  BY <1>1, <1>3 DEF Summary, RestartStates
<1> HIDE DEF s
<1>5. ConsistentSummary(plans[cur], s)
  BY <1>1, <1>3, <1>4, AllowedStates DEF ConsistentSummary
<1>6. launches[cur] = 0
  <2>1. cur \in TxIds /\ launches[cur] \in Nat
    BY <1>1, WorkingFacts DEF IndInv, TypeOK
  <2>2. QED
    BY <1>1, <2>1 DEF IndInv, JournalInv, IntentFirst
<1>7. /\ DurableType' /\ JournalInv'
      /\ summary'[cur] = IF o = "lost" THEN summary[cur] ELSE s
  BY <1>1, <1>4, <1>5, <1>6, ActiveSummary
<1>8. VolatileType'
  BY <1>2, ProceedType, ReturnType DEF IndInv, PCs
<1>9. PointInv'
  <2>1. CASE o = "ok"
    BY <1>1, <1>2, <1>4, <1>6, <1>7, <2>1, WorkingFacts DEF Proceed, Goto, IndInv, ghosts
  <2>2. CASE o # "ok"
    BY <1>2, <2>2, PointReturn
  <2>3. QED
    BY <2>1, <2>2
<1>10. QED
  BY <1>7, <1>8, <1>9, Recombine

(* A restart that was attempted is not attempted again. *)
LEMMA RestartSettledInv ==
    ASSUME IndInv, RestartSettled
    PROVE  IndInv'
<1>1. /\ pc = "restart" /\ Proceed("complete", 0)
      /\ summary[cur].restartState # "NotAttempted"
      /\ UNCHANGED <<install, durable, ghosts, faults>>
  BY DEF RestartSettled, RestartPending
<1>2. DurableType' /\ JournalInv'
  BY <1>1, DurableKept
<1>3. VolatileType'
  BY <1>1, ProceedType DEF IndInv, PCs
<1>4. PointInv'
  BY <1>1, WorkingFacts DEF Proceed, Goto, IndInv, durable, PCs
<1>5. QED
  BY <1>2, <1>3, <1>4, Recombine

(* The launch itself: the first of this transaction. *)
LEMMA LaunchRestartInv ==
    ASSUME IndInv, NEW o \in Outcomes, LaunchRestart(o)
    PROVE  IndInv'
<1>1. /\ pc = "launch" /\ cur \in TxIds /\ launches[cur] = 0
      /\ summary[cur].restartState = "Intent" /\ summary[cur] \in Summary
      /\ launches' = (IF o = "lost" THEN launches ELSE [launches EXCEPT ![cur] = @ + 1])
      /\ UNCHANGED <<install, durable, touched, crashes>>
  BY WorkingFacts, ActiveFacts DEF LaunchRestart, IndInv, PCs
<1>2. launches' \in [TxIds -> Nat] /\ \A t \in TxIds : launches'[t] =
          IF t = cur /\ o # "lost" THEN 1 ELSE launches[t]
  BY <1>1 DEF IndInv, TypeOK
<1>3. plans[cur] # NoPlan /\ summary[cur] # NoSummary
  BY <1>1, WorkingFacts, SentinelAssumption DEF PCs
<1>4. JournalInv'
  BY <1>1, <1>2, <1>3
     DEF IndInv, JournalInv, SnapshotFirst, RecoveryAccepted, RestartAtMostOnce,
         IntentFirst, ValidSummary, LoadedRecords, Ops, durable
<1>5. DurableType'
  BY <1>1, <1>2, SpendType DEF LaunchRestart, IndInv, TypeOK, DurableType, durable
<1>6. VolatileType'
  BY ProceedType DEF LaunchRestart, IndInv, PCs
<1>7. PointInv'
  BY <1>1 DEF LaunchRestart, Proceed, Goto, IndInv, durable, PCs
<1>8. QED
  BY <1>4, <1>5, <1>6, <1>7, Recombine

(* The completed summary records a settled restart. *)
LEMMA PersistCompletionInv ==
    ASSUME IndInv, NEW stamp \in Stamps, NEW o \in Outcomes, PersistCompletion(stamp, o)
    PROVE  IndInv'
<1> DEFINE old == summary[cur]
           f == FinalRestartState
           e == f \in {"Failed", "OutcomeUnknown"}
           s == [old EXCEPT !.fileState = "Complete", !.restartState = f,
                   !.restartError = e,
                   !.completedAt = IF @ = NoStamp THEN stamp ELSE @]
<1>1. /\ pc \in {"complete", "launched", "launchFailed"} /\ pc \in ActivePcs
      /\ WriteSummary(s, o) /\ old.fileState = "FilesApplied"
      /\ UNCHANGED <<install, backup, plans, records, active, terminal, ghosts>>
  BY DEF PersistCompletion, IndInv, PCs
<1>2. /\ o = "ok" => Proceed("publish", 0)
      /\ o # "ok" => Return("fail")
  BY DEF PersistCompletion
<1>3. old \in Summary /\ ConsistentSummary(plans[cur], old)
  BY <1>1, ActiveFacts
<1>4. /\ f \in {"NotRequested", "Launched", "Failed", "OutcomeUnknown"}
      /\ f = "NotRequested" <=> old.restartState = "NotRequested"
  <2>1. old.restartState \in {"NotRequested", "NotAttempted", "Intent", "OutcomeUnknown"}
    BY <1>1, <1>3, AllowedStates DEF ConsistentSummary
  <2>2. CASE pc = "complete"
    <3>1. old.restartState # "NotAttempted"
      BY <2>2 DEF IndInv
    <3>2. QED
      BY <2>1, <2>2, <3>1 DEF FinalRestartState
  <2>3. CASE pc \in {"launched", "launchFailed"}
    <3>1. old.restartState = "Intent"
      BY <2>3 DEF IndInv
    <3>2. QED
      BY <2>3, <3>1 DEF FinalRestartState
  <2>4. QED
    BY <1>1, <2>2, <2>3
<1>e. e \in BOOLEAN
  OBVIOUS
<1> HIDE DEF f, e
<1>5. /\ s \in Summary /\ s.fileState = "Complete" /\ s.restartState = f
      /\ s.restartError = e /\ s.rollbackError = old.rollbackError
      /\ s.completedAt # NoStamp
  BY <1>3, <1>4, <1>e, SentinelAssumption DEF Summary, FileStates, RestartStates
<1> HIDE DEF s
<1>6. ConsistentSummary(plans[cur], s)
  BY <1>1, <1>3, <1>4, <1>5, AllowedStates DEF ConsistentSummary, e
<1>7. launches[cur] > 0 =>
          s.restartState \in {"Intent", "Launched", "Failed", "OutcomeUnknown"}
  BY <1>1, <1>4, <1>5, WorkingFacts DEF IndInv, JournalInv, IntentFirst
<1>8. /\ DurableType' /\ JournalInv'
      /\ summary'[cur] = IF o = "lost" THEN summary[cur] ELSE s
  BY <1>1, <1>5, <1>6, <1>7, ActiveSummary
<1>9. VolatileType'
  BY <1>2, ProceedType, ReturnType DEF IndInv, PCs
<1>10. PointInv'
  <2>1. CASE o = "ok"
    BY <1>1, <1>2, <1>5, <1>8, <2>1, WorkingFacts DEF Proceed, Goto, IndInv
  <2>2. CASE o # "ok"
    BY <1>2, <2>2, PointReturn
  <2>3. QED
    BY <2>1, <2>2
<1>11. QED
  BY <1>8, <1>9, <1>10, Recombine

(* The receipt is published while the transaction is still active. *)
LEMMA PublishTerminalInv ==
    ASSUME IndInv, NEW o \in Outcomes, PublishTerminal(o)
    PROVE  IndInv'
<1>1. /\ pc = "publish" /\ pc \in ActivePcs /\ Spend(o)
      /\ terminal' = (IF o = "lost" THEN terminal
                      ELSE [tx |-> cur, completedAt |-> summary[cur].completedAt])
      /\ UNCHANGED <<install, backup, plans, summary, records, active, ghosts>>
  BY DEF PublishTerminal, PCs
<1>2. /\ o = "ok" => Proceed("clear", 0)
      /\ o # "ok" => Return("fail")
  BY DEF PublishTerminal
<1>3. terminal' \in Terminal \union {NoTerminal}
  <2>1. summary[cur].completedAt \in Stamps \union {NoStamp} /\ cur \in TxIds
    BY <1>1, ActiveFacts, WorkingFacts DEF Summary
  <2>2. QED
    BY <1>1, <2>1 DEF Terminal, IndInv, TypeOK
<1>4. DurableType' /\ JournalInv'
  BY <1>1, <1>3, SpendType, JournalKept DEF IndInv, TypeOK, DurableType, ghosts
<1>5. VolatileType'
  BY <1>2, ProceedType, ReturnType DEF IndInv, PCs
<1>6. PointInv'
  <2>1. CASE o = "ok"
    BY <1>1, <1>2, <2>1, WorkingFacts DEF Proceed, Goto, IndInv
  <2>2. CASE o # "ok"
    BY <1>2, <2>2, PointReturn
  <2>3. QED
    BY <2>1, <2>2
<1>7. QED
  BY <1>4, <1>5, <1>6, Recombine

(* Clearing active.json ends the invocation or lets a rollback request on. *)
LEMMA ClearActiveInv ==
    ASSUME IndInv, NEW o \in Outcomes, ClearActive(o)
    PROVE  IndInv'
<1>1. /\ pc = "clear" /\ Spend(o) /\ req \in Request
      /\ active' = (IF o = "lost" THEN active ELSE NoTx)
      /\ UNCHANGED <<install, backup, plans, summary, records, terminal, ghosts>>
  BY DEF ClearActive, IndInv
<1>2. JournalInv'
  BY <1>1 DEF IndInv, JournalInv, SnapshotFirst, RecoveryAccepted, RestartAtMostOnce,
              IntentFirst, ValidSummary, LoadedRecords, Ops, ghosts
<1>3. DurableType'
  BY <1>1, SpendType DEF IndInv, TypeOK, DurableType, ghosts
<1>4. CASE recovering /\ req.intent = "Rollback" /\ o # "lost"
  <2>1. /\ pc' = "dispatch" /\ recovering' = FALSE /\ cur' = NoTx /\ idx' = 0 /\ Forget
        /\ UNCHANGED <<req, result>>
    BY <1>4 DEF ClearActive
  <2>2. VolatileType'
    BY <2>1 DEF Forget, IndInv, TypeOK, VolatileType, PCs, File
  <2>3. PointInv'
    BY <1>1, <1>4, <2>1
  <2>4. QED
    BY <1>2, <1>3, <2>2, <2>3, Recombine
<1>5. CASE ~(recovering /\ req.intent = "Rollback" /\ o # "lost")
  <2>1. PICK r \in {"ok", "fail"} : Return(r)
    BY <1>5 DEF ClearActive
  <2>2. VolatileType' /\ PointInv'
    BY <2>1, ReturnType, PointReturn
  <2>3. QED
    BY <1>2, <1>3, <2>2, Recombine
<1>6. QED
  BY <1>4, <1>5

-----------------------------------------------------------------------------
(* The environment. *)

(* Whatever is on disk at a crash is acceptable: memory is all that is lost. *)
LEMMA CrashInv ==
    ASSUME IndInv, Crash
    PROVE  IndInv'
<1>1. /\ crashes' = crashes + 1 /\ crashes < MaxCrashes /\ Return("fail")
      /\ UNCHANGED <<install, durable, launches, touched, faults>>
  BY DEF Crash
<1>2. DurableType'
  BY <1>1, EnvironmentAssumption DEF IndInv, TypeOK, DurableType, durable
<1>3. JournalInv'
  BY <1>1, JournalKept DEF durable
<1>4. VolatileType' /\ PointInv'
  BY <1>1, ReturnType, PointReturn
<1>5. QED
  BY <1>2, <1>3, <1>4, Recombine

(* Another program changes managed files, never the journal. *)
LEMMA ForeignWriteInv ==
    ASSUME IndInv, NEW p \in ForeignPaths, NEW file \in File,
           NEW how \in {"replaced", "edited"}, ForeignWrite(p, file, how)
    PROVE  IndInv'
<1>1. /\ install' = [install EXCEPT ![p] = file]
      /\ touched' = [touched EXCEPT ![p] = how]
      /\ UNCHANGED <<durable, pc, req, recovering, cur, idx, rec, seen, result,
                     launches, crashes, faults>>
  BY DEF ForeignWrite
<1>2. sameId' \in BOOLEAN
  BY DEF ForeignWrite
<1>3. DurableType'
  BY <1>1, EnvironmentAssumption DEF IndInv, TypeOK, DurableType, durable
<1>4. VolatileType'
  BY <1>1, <1>2 DEF IndInv, TypeOK, VolatileType
<1>5. JournalInv'
  BY <1>1, JournalKept DEF durable
<1>6. PointInv'
  BY <1>1 DEF IndInv, durable, ValidSummary, Ops
<1>7. QED
  BY <1>3, <1>4, <1>5, <1>6, Recombine

-----------------------------------------------------------------------------
(* The theorems. *)

HIDE DEF PointInv, WorkingTransaction, Preparation, Position, Progress,
         PreparePcs, ActivePcs, RecordPcs, ApplyPcs, RollbackPcs, FilePcs, LaunchPcs

(* The steps that only read preserve the invariant. *)
LEMMA ReadStepInv == ASSUME IndInv, ReadStep PROVE IndInv'
<1>1. CASE ReplayTerminal
  BY <1>1, FailedReadInv DEF ReplayTerminal
<1>2. CASE RejectRollback
  BY <1>2, FailedReadInv DEF RejectRollback
<1>3. CASE RejectStart
  BY <1>3, FailedReadInv DEF RejectStart
<1>4. CASE PreconditionFailed
  BY <1>4, FailedReadInv DEF PreconditionFailed
<1>5. QED
  BY <1>1, <1>2, <1>3, <1>4, BackupRejectedInv, SkipAppliedInv, RestartSettledInv
     DEF ReadStep

(* So do the failed checks. *)
LEMMA FailedReadStepInv ==
    ASSUME IndInv, NEW o \in Outcomes, FailedReadStep(o)
    PROVE  IndInv'
BY ApplyRejectedInv, ApplyUnloadableInv, ApplyCheckFailedInv, RollbackUnloadableInv,
   RollbackRejectedInv, RestoreUnverifiedInv, RestoreCheckFailedInv DEF FailedReadStep

(* Every step of the updater and of its environment preserves IndInv. *)
LEMMA NextInv == IndInv /\ [Next]_vars => IndInv'
<1> SUFFICES ASSUME IndInv, [Next]_vars PROVE IndInv'
  OBVIOUS
<1>1. ASSUME NEW r \in Request, Invoke(r) PROVE IndInv'
  BY <1>1, InvokeInv
<1>2. CASE ReadStep
  BY <1>2, ReadStepInv
<1>3. ASSUME NEW o \in Outcomes, PrepareStep(o) PROVE IndInv'
  BY <1>3, StartTransactionInv, PersistPreparedInv, PrepareOneInv, EnsureBackupInv,
     PersistBackupDurableInv, FailPreparationInv, PublishActiveInv DEF PrepareStep
<1>4. ASSUME NEW o \in Outcomes, ApplyStep(o) PROVE IndInv'
  BY <1>4, PersistApplyingInv, ApplyIntentInv, CommitInv, ApplyCheckInv,
     FailApplyInv, PersistFilesAppliedInv DEF ApplyStep
<1>5. ASSUME NEW o \in Outcomes, RollbackStep(o) PROVE IndInv'
  BY <1>5, MarkRollbackInv, RollbackSkipInv, RollbackIntentInv, RestoreInv, RestoreCheckInv,
     MarkRollbackOperationFailedInv, RecordRollbackFailureInv, PersistRolledBackInv,
     RecoverInv, RecordTerminalReconciliationFailureInv DEF RollbackStep
<1>6. ASSUME NEW o \in Outcomes, FinishStep(o) PROVE IndInv'
  BY <1>6, RestartIntentInv, LaunchRestartInv, PublishTerminalInv, ClearActiveInv,
     PersistCompletionInv DEF FinishStep
<1>7. CASE Crash
  BY <1>7, CrashInv
<1>8. ASSUME NEW p \in ForeignPaths, NEW file \in File, NEW how \in {"replaced", "edited"},
             ForeignWrite(p, file, how)
      PROVE  IndInv'
  BY <1>8, ForeignWriteInv
<1>9. CASE UNCHANGED vars
  BY <1>9, JournalKept
     DEF vars, durable, volatile, ghosts, IndInv, TypeOK, PointInv, WorkingTransaction,
         Preparation, Position, Progress, ValidSummary, Ops
<1>10. ASSUME NEW o \in Outcomes, FailedReadStep(o) PROVE IndInv'
  BY <1>10, FailedReadStepInv
<1>11. QED
  BY <1>1, <1>2, <1>3, <1>4, <1>5, <1>6, <1>7, <1>8, <1>9, <1>10 DEF Next, UpdaterStep

(* The inductive invariant holds in every reachable state. *)
THEOREM Invariance == Spec => []IndInv
BY InitInv, NextInv, PTL DEF Spec

(* Every variable always has its type. *)
THEOREM TypeCorrect == Spec => []TypeOK
<1>1. IndInv => TypeOK
  BY DEF IndInv
<1>2. QED
  BY <1>1, Invariance, PTL

(* For any plans, faults and crashes: what active.json names is always a   *)
(* transaction that recover() accepts, with all of its records.            *)
THEOREM RecoveryIsAccepted == Spec => []RecoveryAccepted
<1>1. IndInv => RecoveryAccepted
  BY DEF IndInv, JournalInv
<1>2. QED
  BY <1>1, Invariance, PTL

(* For any plans, faults and crashes: no transaction starts the            *)
(* application twice.                                                      *)
THEOREM RestartsOnce == Spec => []RestartAtMostOnce
<1>1. IndInv => RestartAtMostOnce
  BY DEF IndInv, JournalInv
<1>2. QED
  BY <1>1, Invariance, PTL

-----------------------------------------------------------------------------
(* Action properties. *)

(* Only the two commits and other programs change a managed file. *)
LEMMA InstallChanges ==
    ASSUME IndInv, Next, install' # install
    PROVE  touched' # touched \/ \E o \in Outcomes : Commit(o) \/ Restore(o)
<1>1. ASSUME NEW p \in ForeignPaths, NEW file \in File, NEW how \in {"replaced", "edited"},
             ForeignWrite(p, file, how)
      PROVE  touched' # touched
  BY <1>1, EnvironmentAssumption DEF ForeignWrite, IndInv, TypeOK
<1>2. ASSUME NEW o \in Outcomes, PrepareStep(o) PROVE install' = install
  BY <1>2 DEF PrepareStep, StartTransaction, PersistPrepared, PrepareOne, EnsureBackup,
              PersistBackupDurable, FailPreparation, PublishActive
<1>3. ASSUME NEW o \in Outcomes, ApplyStep(o), ~Commit(o) PROVE install' = install
  BY <1>3 DEF ApplyStep, PersistApplying, ApplyIntent, ApplyCheck, FailApply,
              PersistFilesApplied
<1>4. ASSUME NEW o \in Outcomes, RollbackStep(o), ~Restore(o) PROVE install' = install
  BY <1>4 DEF RollbackStep, MarkRollback, RollbackSkip, RollbackIntent, RestoreCheck,
              MarkRollbackOperationFailed, RecordRollbackFailure, PersistRolledBack,
              Recover, RecordTerminalReconciliationFailure
<1>5. ASSUME NEW o \in Outcomes, FinishStep(o) PROVE install' = install
  BY <1>5 DEF FinishStep, RestartIntent, LaunchRestart, PersistCompletion, PublishTerminal,
              ClearActive
<1>6. ReadStep \/ (\E o \in Outcomes : FailedReadStep(o)) => install' = install
  BY DEF ReadStep, ReplayTerminal, RejectRollback, RejectStart, PreconditionFailed,
         BackupRejected, SkipApplied, RestartSettled, FailedReadStep, ApplyRejected,
         ApplyUnloadable, ApplyCheckFailed, RollbackUnloadable, RollbackRejected,
         RestoreUnverified, RestoreCheckFailed
<1>7. (\E r \in Request : Invoke(r)) \/ Crash => install' = install
  BY DEF Invoke, Crash
<1>8. QED
  BY <1>1, <1>2, <1>3, <1>4, <1>5, <1>6, <1>7 DEF Next, UpdaterStep

(* For any plans, faults and crashes: once a transaction has started the   *)
(* application, the updater changes no managed file on its behalf.         *)
THEOREM NoChangeOnceRestarted == Spec => NoChangeAfterRestart
<1> DEFINE P == cur # NoTx /\ launches[cur] > 0 /\ touched' = touched
                    => install' = install
<1>1. IndInv /\ [Next]_vars => [P]_vars
  <2> SUFFICES ASSUME IndInv, Next, cur # NoTx, launches[cur] > 0, touched' = touched
               PROVE  install' = install
    OBVIOUS
  <2>1. pc \in {"commit", "restore"} => launches[cur] = 0
    BY NotLaunched DEF FilePcs, ApplyPcs, RollbackPcs
  <2>2. (\E o \in Outcomes : Commit(o) \/ Restore(o)) => pc \in {"commit", "restore"}
    BY DEF Commit, Restore
  <2>3. launches[cur] # 0
    BY DEF IndInv, TypeOK
  <2>4. QED
    BY <2>1, <2>2, <2>3, InstallChanges
<1>2. QED
  BY <1>1, Invariance, PTL DEF Spec, NoChangeAfterRestart

(* A summary write of another transaction's summary does not exist. *)
LEMMA OtherSummaries ==
    ASSUME TypeOK, NEW s, NEW o, WriteSummary(s, o), NEW t \in TxIds, summary'[t] # summary[t]
    PROVE  t = cur /\ summary'[t] = s
BY DEF TypeOK, WriteSummary

(* Where an existing summary may change, and how. *)
LEMMA SummaryChanges ==
    ASSUME IndInv, Next, NEW t \in TxIds, summary'[t] # summary[t]
    PROVE  /\ t = cur
           /\ \/ pc \in FilePcs \union {"restart", "complete", "launched", "launchFailed"}
              \/ pc = "prepared" /\ summary'[t].fileState = "Prepared"
              \/ pc = "terminalFailed" /\ summary'[t] = TerminalFailure(summary[t])
<1>0. TypeOK
  BY DEF IndInv
<1>1. ASSUME NEW o \in Outcomes, PrepareStep(o)
      PROVE  t = cur /\ pc = "prepared" /\ summary'[t].fileState = "Prepared"
  <2>1. CASE PersistPrepared(o)
    BY <1>0, <2>1, OtherSummaries DEF PersistPrepared
  <2>2. QED
    BY <1>1, <2>1
       DEF PrepareStep, StartTransaction, PrepareOne, EnsureBackup, PersistBackupDurable,
           FailPreparation, PublishActive
<1>2. ASSUME NEW o \in Outcomes, ApplyStep(o) PROVE t = cur /\ pc \in FilePcs
  <2>1. CASE PersistApplying(o)
    BY <1>0, <2>1, OtherSummaries DEF PersistApplying, FilePcs
  <2>2. CASE PersistFilesApplied(o)
    BY <1>0, <2>2, OtherSummaries DEF PersistFilesApplied, FilePcs, ApplyPcs
  <2>3. QED
    BY <1>2, <2>1, <2>2
       DEF ApplyStep, ApplyIntent, Commit, ApplyCheck, FailApply, durable
<1>3. ASSUME NEW o \in Outcomes, RollbackStep(o)
      PROVE  /\ t = cur
             /\ \/ pc \in FilePcs
                \/ pc = "terminalFailed" /\ summary'[t] = TerminalFailure(summary[t])
  <2>1. CASE MarkRollback(o)
    BY <1>0, <2>1, OtherSummaries DEF MarkRollback, FilePcs
  <2>2. CASE RecordRollbackFailure(o)
    BY <1>0, <2>2, OtherSummaries DEF RecordRollbackFailure, FilePcs
  <2>3. CASE PersistRolledBack(o)
    BY <1>0, <2>3, OtherSummaries DEF PersistRolledBack, FilePcs, RollbackPcs
  <2>4. CASE RecordTerminalReconciliationFailure(o)
    <3>1. pc = "terminalFailed" /\ WriteSummary(TerminalFailure(summary[cur]), o)
      BY <2>4 DEF RecordTerminalReconciliationFailure
    <3>2. QED
      BY <1>0, <3>1, OtherSummaries
  <2>5. QED
    BY <1>3, <2>1, <2>2, <2>3, <2>4
       DEF RollbackStep, RollbackSkip, RollbackIntent, Restore, RestoreCheck,
           MarkRollbackOperationFailed, Recover, durable
<1>4. ASSUME NEW o \in Outcomes, FinishStep(o)
      PROVE  t = cur /\ pc \in {"restart", "complete", "launched", "launchFailed"}
  <2>1. CASE RestartIntent(o)
    BY <1>0, <2>1, OtherSummaries DEF RestartIntent
  <2>2. ASSUME NEW stamp \in Stamps, PersistCompletion(stamp, o)
        PROVE  t = cur /\ pc \in {"complete", "launched", "launchFailed"}
    BY <1>0, <2>2, OtherSummaries DEF PersistCompletion
  <2>3. QED
    BY <1>4, <2>1, <2>2 DEF FinishStep, LaunchRestart, PublishTerminal, ClearActive, durable
<1>5. ReadStep \/ (\E o \in Outcomes : FailedReadStep(o)) => UNCHANGED summary
  BY DEF ReadStep, ReplayTerminal, RejectRollback, RejectStart, PreconditionFailed,
         BackupRejected, SkipApplied, RestartSettled, FailedReadStep, ApplyRejected,
         ApplyUnloadable, ApplyCheckFailed, RollbackUnloadable, RollbackRejected,
         RestoreUnverified, RestoreCheckFailed, durable
<1>6. (\E r \in Request : Invoke(r)) \/ Crash => UNCHANGED summary
  BY DEF Invoke, Crash, durable
<1>7. ASSUME NEW p \in ForeignPaths, NEW file \in File, NEW how \in {"replaced", "edited"},
             ForeignWrite(p, file, how)
      PROVE  UNCHANGED summary
  BY <1>7 DEF ForeignWrite, durable
<1>8. QED
  BY <1>1, <1>2, <1>3, <1>4, <1>5, <1>6, <1>7 DEF Next, UpdaterStep

(* For any plans, faults and crashes: a completed transaction stays        *)
(* completed, with the timestamp it got.                                   *)
THEOREM CompletionStays == Spec => CompletionIsFinal
<1> DEFINE Stays(t) == summary[t] # NoSummary /\ summary[t].fileState = "Complete" =>
                          /\ summary'[t].fileState = "Complete"
                          /\ summary'[t].completedAt = summary[t].completedAt
<1>1. IndInv /\ [Next]_vars => [\A t \in TxIds : Stays(t)]_vars
  <2> SUFFICES ASSUME IndInv, Next, NEW t \in TxIds,
                      summary[t] # NoSummary, summary[t].fileState = "Complete",
                      summary'[t] # summary[t]
               PROVE  /\ summary'[t].fileState = "Complete"
                      /\ summary'[t].completedAt = summary[t].completedAt
    OBVIOUS
  <2>1. t = cur /\ summary[t] \in Summary
    BY SummaryChanges DEF IndInv, TypeOK
  <2>2. pc \notin FilePcs \union {"prepared", "restart", "complete", "launched", "launchFailed"}
    BY <2>1 DEF IndInv, PointInv, Preparation, Progress, LaunchPcs
  <2>3. summary'[t] = TerminalFailure(summary[t])
    BY <2>2, SummaryChanges
  <2>4. QED
    BY <2>1, <2>3 DEF TerminalFailure, Summary
<1>2. QED
  BY <1>1, Invariance, PTL DEF Spec, CompletionIsFinal

-----------------------------------------------------------------------------
(***************************************************************************)
(* The evidence: what the journal claims is true.                          *)
(***************************************************************************)

-----------------------------------------------------------------------------
(* Types. *)

(* The operation i of a transaction with a plan. *)
LEMMA OpType ==
    ASSUME IndInv, NEW t \in TxIds, plans[t] # NoPlan, NEW i \in 1 .. Len(Ops(t))
    PROVE  /\ Op(t, i) \in Operation /\ Op(t, i).target \in Paths /\ Op(t, i).data \in File
           /\ plans[t] \in Plan /\ plans[t].backupDir \in BackupDirs
<1>1. plans[t] \in Plan
  BY DEF IndInv, TypeOK
<1>2. Ops(t) \in Seq(Operation)
  BY <1>1 DEF Plan, Ops
<1>3. Op(t, i) \in Operation
  BY <1>2, ElementOfSeq DEF Op
<1>4. QED
  BY <1>1, <1>3 DEF Operation, Plan

(* A record on disk belongs to an operation of a plan. *)
LEMMA RecordType ==
    ASSUME IndInv, PlansSound, NEW t \in TxIds, NEW i \in 1 .. Len(records[t])
    PROVE  /\ records[t][i] \in Record
           /\ plans[t] # NoPlan /\ i \in 1 .. Len(Ops(t))
           /\ Op(t, i) \in Operation /\ Op(t, i).target \in Paths /\ Op(t, i).data \in File
           /\ plans[t] \in Plan /\ plans[t].backupDir \in BackupDirs
<1>1. records[t] \in Seq(Record)
  BY DEF IndInv, TypeOK
<1>2. records[t][i] \in Record
  BY <1>1, ElementOfSeq
<1>3. plans[t] # NoPlan
  BY <1>1, EmptySeq DEF IndInv, JournalInv, SnapshotFirst
<1>4. Ops(t) \in Seq(Operation)
  BY <1>3 DEF IndInv, TypeOK, Plan, Ops
<1>5. Len(Ops(t)) \in Nat /\ Len(records[t]) \in Nat
  BY <1>1, <1>4, LenProperties
<1>6. i \in 1 .. Len(Ops(t))
  BY <1>3, <1>5 DEF PlansSound
<1>7. QED
  BY <1>2, <1>3, <1>6, OpType

(* What writeOperation does to the records of the working transaction. *)
LEMMA RecordWritten ==
    ASSUME IndInv, cur \in TxIds, NEW r \in Record, NEW o, WriteOperation(r, o),
           idx \in 1 .. Len(records[cur]) + 1
    PROVE  /\ \A t \in TxIds : t # cur => records'[t] = records[t]
           /\ \A i \in 1 .. Len(records'[cur]) :
                 \/ i \in 1 .. Len(records[cur]) /\ i # idx /\ records'[cur][i] = records[cur][i]
                 \/ i = idx /\ o # "lost" /\ records'[cur][i] = r
                 \/ i = idx /\ o = "lost" /\ i \in 1 .. Len(records[cur])
                    /\ records'[cur][i] = records[cur][i]
           /\ \A i \in 1 .. Len(records[cur]) : i \in 1 .. Len(records'[cur])
           /\ o = "lost" => records' = records
           /\ Len(records'[cur]) \in Nat /\ Len(records[cur]) \in Nat
           /\ Len(records'[cur]) = IF o = "lost" \/ idx <= Len(records[cur])
                                   THEN Len(records[cur]) ELSE Len(records[cur]) + 1
<1>1. records \in [TxIds -> Seq(Record)] /\ records[cur] \in Seq(Record)
      /\ Len(records[cur]) \in Nat
  BY LenProperties DEF IndInv, TypeOK
<1>2. /\ records' \in [TxIds -> Seq(Record)]
      /\ \A t \in TxIds : t # cur => records'[t] = records[t]
      /\ Len(records'[cur]) = IF o = "lost" \/ idx <= Len(records[cur])
                              THEN Len(records[cur]) ELSE Len(records[cur]) + 1
  BY OperationWritten DEF IndInv
<1>3. CASE o = "lost"
  <2>1. records' = records
    BY <1>3 DEF WriteOperation
  <2>2. QED
    BY <1>1, <1>2, <1>3, <2>1
<1>4. CASE o # "lost" /\ idx <= Len(records[cur])
  <2>1. records'[cur] = [records[cur] EXCEPT ![idx] = r]
    BY <1>1, <1>4 DEF WriteOperation
  <2>2. \A i \in 1 .. Len(records[cur]) :
           records'[cur][i] = IF i = idx THEN r ELSE records[cur][i]
    BY <1>1, <2>1, ExceptSeq
  <2>3. QED
    BY <1>1, <1>2, <1>4, <2>2
<1>5. CASE o # "lost" /\ ~(idx <= Len(records[cur]))
  <2>1. records'[cur] = Append(records[cur], r)
    BY <1>1, <1>5 DEF WriteOperation
  <2>2. \A i \in 1 .. Len(records[cur]) + 1 :
           records'[cur][i] = IF i = idx THEN r ELSE records[cur][i]
    BY <1>1, <1>5, <2>1, AppendProperties
  <2>3. QED
    BY <1>1, <1>2, <1>5, <2>2
<1>6. QED
  BY <1>3, <1>4, <1>5

-----------------------------------------------------------------------------
(* What each kind of step does to the evidence on disk. *)

(* Completed transactions stay completed, with all of their records. *)
LEMMA CompletionKept ==
    ASSUME IndInv, Next, NEW t \in TxIds,
           summary[t] # NoSummary, summary[t].fileState = "Complete"
    PROVE  /\ summary'[t] # NoSummary /\ summary'[t].fileState = "Complete"
           /\ summary'[t].completedAt = summary[t].completedAt
<1>1. CASE summary'[t] = summary[t]
  BY <1>1
<1>2. CASE summary'[t] # summary[t]
  <2>1. t = cur /\ summary[t] \in Summary
    BY <1>2, SummaryChanges DEF IndInv, TypeOK
  <2>2. pc \notin FilePcs \union {"prepared", "restart", "complete", "launched", "launchFailed"}
    BY <2>1 DEF IndInv, PointInv, Preparation, Progress, LaunchPcs
  <2>3. summary'[t] = TerminalFailure(summary[t])
    BY <1>2, <2>2, SummaryChanges
  <2>4. summary'[t] \in Summary
    BY <2>1, <2>3 DEF TerminalFailure, Summary, RestartStates
  <2>5. summary'[t] # NoSummary
    BY <2>4, SentinelAssumption
  <2>6. QED
    BY <2>1, <2>3, <2>5 DEF TerminalFailure, Summary
<1>3. QED
  BY <1>1, <1>2

(* A step that writes neither files nor journal. *)
LEMMA DiskKept ==
    ASSUME IndInv, DiskEvidence,
           UNCHANGED <<install, backup, plans, summary, records, active, terminal, touched>>
    PROVE  DiskEvidence'
BY DEF DiskEvidence, PlansSound, RecordsSound, ActiveAccounted, SummariesSound,
       ReceiptTrustworthy, PlanOrigin, Sound, Undoable, Ops, Op, AlreadyApplied, ValidSummary,
       LoadedRecords, Applied, TrustedTerminal, Inverts

(* Evidence that depends on the plans, the records and the backups only. *)
LEMMA PlansKept ==
    ASSUME IndInv, DiskEvidence, UNCHANGED <<backup, plans, records>>
    PROVE  PlansSound' /\ RecordsSound'
BY DEF DiskEvidence, PlansSound, RecordsSound, Sound, Ops, Op, AlreadyApplied

(* The files of the active transaction, when no file is written. *)
LEMMA AccountsKept ==
    ASSUME IndInv, DiskEvidence, UNCHANGED <<install, touched, plans, records, active>>
    PROVE  ActiveAccounted'
BY DEF DiskEvidence, ActiveAccounted, Undoable, Ops, Op

(* Receipt and inverse plans speak of completed transactions, whose        *)
(* records, plans and completion do not change.                            *)
LEMMA ReceiptKept ==
    ASSUME IndInv, DiskEvidence, Next, SummariesSound', UNCHANGED terminal,
           \A t \in TxIds : summary[t] # NoSummary /\ summary[t].fileState = "Complete" =>
              plans'[t] = plans[t] /\ records'[t] = records[t]
    PROVE  ReceiptTrustworthy'
<1> SUFFICES ASSUME terminal # NoTerminal PROVE ReceiptTrustworthy'
  BY DEF ReceiptTrustworthy
<1> DEFINE t == terminal.tx
<1>1. t \in TxIds /\ ReceiptTrustworthy
  BY DEF IndInv, TypeOK, Terminal, DiskEvidence
<1>2. /\ summary[t] # NoSummary /\ summary[t].fileState = "Complete"
      /\ terminal.completedAt = summary[t].completedAt
  BY <1>1 DEF ReceiptTrustworthy, TrustedTerminal, ValidSummary
<1>3. /\ summary'[t] # NoSummary /\ summary'[t].fileState = "Complete"
      /\ summary'[t].completedAt = summary[t].completedAt
  BY <1>1, <1>2, CompletionKept
<1>4. ValidSummary(t)' /\ plans'[t] = plans[t] /\ records'[t] = records[t]
  BY <1>1, <1>2, <1>3 DEF SummariesSound
<1>5. QED
  BY <1>1, <1>2, <1>3, <1>4 DEF ReceiptTrustworthy, TrustedTerminal, LoadedRecords, Ops

(* A plan that inverts a completed transaction goes on doing so. *)
LEMMA InversesKept ==
    ASSUME IndInv, DiskEvidence, Next,
           \A t \in TxIds : summary[t] # NoSummary /\ summary[t].fileState = "Complete" =>
              plans'[t] = plans[t] /\ records'[t] = records[t],
           NEW plan, NEW s \in TxIds, Inverts(plan, s)
    PROVE  Inverts(plan, s)'
<1>1. summary[s] # NoSummary /\ summary[s].fileState = "Complete"
  BY DEF Inverts
<1>2. plans'[s] = plans[s] /\ records'[s] = records[s]
  BY <1>1
<1>3. summary'[s] # NoSummary /\ summary'[s].fileState = "Complete"
  BY <1>1, CompletionKept
<1>4. QED
  BY <1>1, <1>2, <1>3 DEF Inverts, Ops, Op

(* No plan is written. *)
LEMMA OriginKept ==
    ASSUME IndInv, DiskEvidence, Next, UNCHANGED plans,
           \A t \in TxIds : summary[t] # NoSummary /\ summary[t].fileState = "Complete" =>
              records'[t] = records[t]
    PROVE  PlanOrigin'
BY InversesKept DEF DiskEvidence, PlanOrigin

(* A summary of the working transaction is written. *)
LEMMA DiskSummary ==
    ASSUME IndInv, DiskEvidence, Next, cur \in TxIds,
           NEW s \in Summary, NEW o, WriteSummary(s, o),
           plans[cur] # NoPlan, ConsistentSummary(plans[cur], s),
           s.fileState \in {"FilesApplied", "Complete"} =>
               LoadedRecords(cur) /\ \A i \in 1 .. Len(Ops(cur)) : Applied(cur, i),
           UNCHANGED <<install, backup, plans, records, active, terminal, ghosts>>
    PROVE  DiskEvidence'
<1>1. /\ \A t \in TxIds : t # cur => summary'[t] = summary[t]
      /\ summary'[cur] = IF o = "lost" THEN summary[cur] ELSE s
  BY SummaryWritten DEF IndInv
<1>2. SummariesSound'
  BY <1>1, SentinelAssumption
     DEF DiskEvidence, SummariesSound, ValidSummary, LoadedRecords, Applied, Ops
<1>3. QED
  BY <1>2, PlansKept, AccountsKept, ReceiptKept, OriginKept DEF DiskEvidence, ghosts

(* A record of the active transaction is replaced by one that follows it. *)
LEMMA DiskOperation ==
    ASSUME IndInv, DiskEvidence, Next, pc \in ActivePcs, idx \in 1 .. Len(records[cur]),
           NEW r \in Record, NEW o, WriteOperation(r, o),
           Sound(cur, idx, r), Follows(r, records[cur][idx]),
           summary[cur].fileState \notin {"FilesApplied", "Complete"},
           UNCHANGED <<install, backup, plans, summary, active, terminal, ghosts>>
    PROVE  DiskEvidence'
<1>1. cur \in TxIds /\ active = cur /\ Len(records[cur]) \in Nat /\ plans[cur] # NoPlan
  BY WorkingFacts, ActiveFacts
<1>2. idx \in 1 .. Len(records[cur]) + 1
  BY <1>1
<1>3. /\ \A t \in TxIds : t # cur => records'[t] = records[t]
      /\ Len(records'[cur]) = Len(records[cur])
      /\ \A i \in 1 .. Len(records[cur]) :
            \/ records'[cur][i] = records[cur][i]
            \/ i = idx /\ records'[cur][i] = r
  BY <1>1, <1>2, RecordWritten
<1>4. PlansSound'
  BY <1>3 DEF DiskEvidence, PlansSound, Ops
<1>5. RecordsSound'
  <2>1. ASSUME NEW t \in TxIds, NEW i \in 1 .. Len(records'[t])
        PROVE  Sound(t, i, records'[t][i])
    <3>1. CASE records'[t][i] = records[t][i] /\ i \in 1 .. Len(records[t])
      BY <3>1 DEF DiskEvidence, RecordsSound
    <3>2. CASE t = cur /\ i = idx /\ records'[t][i] = r
      BY <3>2
    <3>3. QED
      BY <1>3, <3>1, <3>2
  <2>2. QED
    BY <2>1 DEF RecordsSound, Sound, Op, Ops, AlreadyApplied
<1>6. ActiveAccounted'
  <2>1. ASSUME NEW t \in TxIds, t = cur, NEW i \in 1 .. Len(records'[t])
        PROVE  Undoable(t, i)'
    <3>1. Undoable(t, i) /\ i \in 1 .. Len(records[t])
      BY <1>1, <1>3, <2>1, SentinelAssumption DEF DiskEvidence, ActiveAccounted
    <3>2. CASE records'[t][i] = records[t][i]
      BY <3>1, <3>2 DEF Undoable, Op, Ops, ghosts
    <3>3. CASE i = idx /\ records'[t][i] = r
      BY <2>1, <3>1, <3>3 DEF Undoable, Follows, Op, Ops, ghosts
    <3>4. QED
      BY <1>3, <2>1, <3>1, <3>2, <3>3
  <2>2. active' \in TxIds /\ active' = cur
    BY <1>1
  <2>3. QED
    BY <2>1, <2>2 DEF ActiveAccounted
<1>7. SummariesSound'
  BY <1>1, <1>3 DEF DiskEvidence, SummariesSound, ValidSummary, LoadedRecords, Applied, Ops
<1>8. \A t \in TxIds : summary[t] # NoSummary /\ summary[t].fileState = "Complete" =>
         plans'[t] = plans[t] /\ records'[t] = records[t]
  BY <1>3
<1>9. ReceiptTrustworthy' /\ PlanOrigin'
  BY <1>7, <1>8, ReceiptKept, OriginKept
<1>10. QED
  BY <1>4, <1>5, <1>6, <1>7, <1>9 DEF DiskEvidence

(* A record is written or replaced while the transaction is prepared. *)
LEMMA DiskPrepare ==
    ASSUME IndInv, DiskEvidence, Next, pc \in PreparePcs \ {"prepared"},
           idx \in 1 .. Len(records[cur]) + 1, idx \in 1 .. Len(Ops(cur)),
           NEW r \in Record, NEW o, WriteOperation(r, o), Sound(cur, idx, r),
           UNCHANGED <<install, backup, plans, summary, active, terminal, ghosts>>
    PROVE  DiskEvidence'
<1>1. cur \in TxIds /\ active = NoTx /\ Len(records[cur]) \in Nat /\ plans[cur] # NoPlan
      /\ Len(Ops(cur)) \in Nat
  BY WorkingFacts DEF IndInv, PointInv, WorkingTransaction
<1>2. summary[cur].fileState = "Prepared"
  BY DEF IndInv, PointInv, Preparation
<1>3. /\ \A t \in TxIds : t # cur => records'[t] = records[t]
      /\ Len(records'[cur]) \in Nat
      /\ Len(records'[cur]) \in {Len(records[cur]), idx}
      /\ \A i \in 1 .. Len(records'[cur]) :
            \/ i \in 1 .. Len(records[cur]) /\ records'[cur][i] = records[cur][i]
            \/ i = idx /\ records'[cur][i] = r
  BY <1>1, RecordWritten
<1>4. PlansSound'
  BY <1>1, <1>3 DEF DiskEvidence, PlansSound, Ops
<1>5. RecordsSound'
  <2> SUFFICES ASSUME NEW t \in TxIds, NEW i \in 1 .. Len(records'[t])
               PROVE  Sound(t, i, records[t][i])'
    BY DEF RecordsSound
  <2>1. CASE t = cur /\ i = idx /\ records'[t][i] = r
    BY <2>1 DEF Sound, Op, Ops, AlreadyApplied
  <2>2. CASE i \in 1 .. Len(records[t]) /\ records'[t][i] = records[t][i]
    BY <2>2 DEF DiskEvidence, RecordsSound, Sound, Op, Ops, AlreadyApplied
  <2>3. QED
    BY <1>1, <1>3, <2>1, <2>2
<1>6. ActiveAccounted'
  BY <1>1 DEF ActiveAccounted
<1>7. SummariesSound'
  BY <1>1, <1>2, <1>3 DEF DiskEvidence, SummariesSound, ValidSummary, LoadedRecords, Applied, Ops
<1>8. \A t \in TxIds : summary[t] # NoSummary /\ summary[t].fileState = "Complete" =>
         plans'[t] = plans[t] /\ records'[t] = records[t]
  BY <1>2, <1>3
<1>9. ReceiptTrustworthy' /\ PlanOrigin'
  BY <1>7, <1>8, ReceiptKept, OriginKept
<1>10. QED
  BY <1>4, <1>5, <1>6, <1>7, <1>9 DEF DiskEvidence

(* A backup is written only over nothing or over the same file, so what    *)
(* other journals call durable stays.                                      *)
LEMMA DiskBackup ==
    ASSUME IndInv, DiskEvidence, Next, pc \in PreparePcs \union ActivePcs,
           idx \in 1 .. Len(Ops(cur)), ExistingBackup \in {Missing, rec.original},
           \/ backup' = backup
           \/ backup' = [backup EXCEPT ![plans[cur].backupDir][OpAt.target] = rec.original],
           UNCHANGED <<install, plans, summary, records, active, terminal, ghosts>>
    PROVE  DiskEvidence'
<1>1. /\ backup \in [BackupDirs -> [Paths -> File]]
      /\ plans[cur].backupDir \in BackupDirs /\ OpAt.target \in Paths
  BY WorkingFacts, OperationFacts DEF IndInv, TypeOK, Plan
<1>2. PlansSound'
  BY DEF DiskEvidence, PlansSound, Ops
<1>3. RecordsSound'
  <2> SUFFICES ASSUME NEW t \in TxIds, NEW i \in 1 .. Len(records[t])
               PROVE  Sound(t, i, records[t][i])'
    BY DEF RecordsSound
  <2>1. Sound(t, i, records[t][i])
    BY DEF DiskEvidence, RecordsSound
  <2>2. plans[t].backupDir \in BackupDirs /\ Op(t, i).target \in Paths
    BY RecordType DEF DiskEvidence
  <2> DEFINE b == backup[plans[t].backupDir][Op(t, i).target]
  <2>3. \/ backup'[plans[t].backupDir][Op(t, i).target] = b
        \/ b = Missing
    BY <1>1, <2>2 DEF ExistingBackup
  <2>4. QED
    BY <2>1, <2>3 DEF Sound, Op, Ops, AlreadyApplied
<1>4. ActiveAccounted' /\ SummariesSound'
  BY DEF DiskEvidence, ActiveAccounted, Undoable, SummariesSound, ValidSummary, LoadedRecords,
         Applied, Op, Ops, ghosts
<1>5. ReceiptTrustworthy' /\ PlanOrigin'
  BY <1>4, ReceiptKept, OriginKept
<1>6. QED
  BY <1>2, <1>3, <1>4, <1>5 DEF DiskEvidence

(* The target of the operation is replaced by what can be undone. *)
LEMMA DiskSwap ==
    ASSUME IndInv, DiskEvidence, Next, pc \in ActivePcs, idx \in 1 .. Len(Ops(cur)),
           \A p \in Paths : p # OpAt.target => install'[p] = install[p],
           \/ install'[OpAt.target] \in {install[OpAt.target], records[cur][idx].original}
           \/ /\ install'[OpAt.target] = OpAt.data
              /\ records[cur][idx].applyState # "Pending"
              /\ records[cur][idx].original # Missing =>
                    records[cur][idx].backupState = "Durable",
           UNCHANGED <<durable, ghosts>>
    PROVE  DiskEvidence'
<1>1. /\ cur \in TxIds /\ active = cur /\ active # NoTx /\ plans[cur] # NoPlan /\ install \in [Paths -> File]
      /\ Len(records[cur]) = Len(Ops(cur)) /\ OpAt.target \in Paths
  BY WorkingFacts, ActiveFacts, OperationFacts DEF IndInv, TypeOK
<1>2. PlansSound' /\ RecordsSound'
  BY PlansKept DEF durable
<1>3. ActiveAccounted'
  <2> SUFFICES ASSUME NEW i \in 1 .. Len(records[cur])
               PROVE  Undoable(active, i)'
    BY <1>1 DEF ActiveAccounted, durable
  <2>1. Undoable(active, i) /\ Op(cur, i).target \in Paths
    BY <1>1, RecordType DEF DiskEvidence, ActiveAccounted
  <2>2. CASE i = idx
    BY <1>1, <2>1, <2>2 DEF Undoable, Op, Ops, OpAt, durable, ghosts
  <2>3. CASE i # idx
    <3>1. Op(cur, i).target # OpAt.target
      BY <1>1, <2>3, WorkingFacts, LenProperties
         DEF DiskEvidence, PlansSound, DistinctTargets, Op, Ops, OpAt
    <3>2. install'[Op(cur, i).target] = install[Op(cur, i).target]
      BY <1>1, <2>1, <3>1
    <3>3. QED
      BY <1>1, <2>1, <3>2 DEF Undoable, Op, Ops, durable, ghosts
  <2>4. QED
    BY <2>2, <2>3
<1>4. SummariesSound'
  BY DEF DiskEvidence, SummariesSound, ValidSummary, LoadedRecords, Applied, Op, Ops, durable
<1>5. ReceiptTrustworthy' /\ PlanOrigin'
  BY <1>4, ReceiptKept, OriginKept DEF durable
<1>6. QED
  BY <1>2, <1>3, <1>4, <1>5 DEF DiskEvidence

(* Another program's file is not among those the journal accounts for. *)
LEMMA DiskForeign ==
    ASSUME IndInv, DiskEvidence, Next, NEW p \in Paths, NEW file, NEW how,
           ForeignWrite(p, file, how), how # "no"
    PROVE  DiskEvidence'
<1>1. install \in [Paths -> File] /\ touched \in [Paths -> {"no", "replaced", "edited"}]
  BY DEF IndInv, TypeOK
<1>2. PlansSound' /\ RecordsSound'
  BY PlansKept DEF ForeignWrite, durable
<1>3. ActiveAccounted'
  <2> SUFFICES ASSUME active # NoTx, NEW i \in 1 .. Len(records[active])
               PROVE  Undoable(active, i)'
    BY DEF ActiveAccounted, ForeignWrite, durable
  <2>1. active \in TxIds
    BY DEF IndInv, TypeOK
  <2>2. Undoable(active, i) /\ Op(active, i).target \in Paths
    BY <2>1, RecordType DEF DiskEvidence, ActiveAccounted
  <2>3. QED
    BY <1>1, <2>2 DEF Undoable, ForeignWrite, Op, Ops, durable
<1>4. SummariesSound'
  BY DEF DiskEvidence, SummariesSound, ValidSummary, LoadedRecords, Applied, Op, Ops,
         ForeignWrite, durable
<1>5. ReceiptTrustworthy' /\ PlanOrigin'
  BY <1>4, ReceiptKept, OriginKept DEF ForeignWrite, durable
<1>6. QED
  BY <1>2, <1>3, <1>4, <1>5 DEF DiskEvidence

(* active.json names a transaction all of whose originals are in place, or *)
(* names none.                                                             *)
LEMMA DiskActive ==
    ASSUME IndInv, DiskEvidence, Next,
           \/ active' \in {active, NoTx}
           \/ active' = cur /\ \A i \in 1 .. Len(records[cur]) : Restored(cur, i),
           UNCHANGED <<install, backup, plans, summary, records, terminal, ghosts>>
    PROVE  DiskEvidence'
<1>1. PlansSound' /\ RecordsSound'
  BY PlansKept
<1>2. ActiveAccounted'
  BY DEF DiskEvidence, ActiveAccounted, Undoable, Restored, Holds, Op, Ops, ghosts
<1>3. SummariesSound'
  BY DEF DiskEvidence, SummariesSound, ValidSummary, LoadedRecords, Applied, Op, Ops
<1>4. ReceiptTrustworthy' /\ PlanOrigin'
  BY <1>3, ReceiptKept, OriginKept
<1>5. QED
  BY <1>1, <1>2, <1>3, <1>4 DEF DiskEvidence

(* terminal.json names a transaction whose summary is complete. *)
LEMMA DiskTerminal ==
    ASSUME IndInv, DiskEvidence, Next, cur \in TxIds,
           summary[cur] # NoSummary, summary[cur].fileState = "Complete",
           terminal' \in {terminal, [tx |-> cur, completedAt |-> summary[cur].completedAt]},
           UNCHANGED <<install, backup, plans, summary, records, active, ghosts>>
    PROVE  DiskEvidence'
<1>1. PlansSound' /\ RecordsSound' /\ ActiveAccounted' /\ PlanOrigin'
  BY PlansKept, AccountsKept, OriginKept DEF ghosts
<1>2. SummariesSound'
  BY DEF DiskEvidence, SummariesSound, ValidSummary, LoadedRecords, Applied, Op, Ops
<1>3. CASE terminal' = terminal
  BY <1>1, <1>2, <1>3, ReceiptKept DEF DiskEvidence
<1>4. CASE terminal' = [tx |-> cur, completedAt |-> summary[cur].completedAt]
  <2>1. terminal'.tx = cur /\ terminal'.completedAt = summary[cur].completedAt
    BY <1>4
  <2>2. terminal' # NoTerminal
    <3>1. summary[cur] \in Summary
      BY DEF IndInv, TypeOK
    <3>2. terminal' \in Terminal
      BY <1>4, <3>1 DEF Terminal, Summary
    <3>3. QED
      BY <3>2, SentinelAssumption
  <2>3. /\ ValidSummary(cur) /\ LoadedRecords(cur)
        /\ \A i \in 1 .. Len(Ops(cur)) : records[cur][i].applyState = "Complete"
    BY DEF DiskEvidence, SummariesSound, Applied
  <2>4. ReceiptTrustworthy'
    BY <2>1, <2>2, <2>3
       DEF ReceiptTrustworthy, TrustedTerminal, ValidSummary, LoadedRecords, Ops
  <2>5. QED
    BY <1>1, <1>2, <2>4 DEF DiskEvidence
<1>5. QED
  BY <1>3, <1>4

-----------------------------------------------------------------------------
(* Deriving a rollback plan. *)

(* Counting from the last reversible operation numbers each of them once. *)
LEMMA Numbering ==
    ASSUME NEW s, NEW n \in Nat, Reversible(s) \subseteq 1 .. n
    PROVE  /\ Cardinality(Reversible(s)) \in Nat
           /\ \A i \in Reversible(s) : FromLast(s, i) \in 1 .. Cardinality(Reversible(s))
           /\ \A i, j \in Reversible(s) : FromLast(s, i) = FromLast(s, j) => i = j
           /\ \A k \in 1 .. Cardinality(Reversible(s)) :
                 \E i \in Reversible(s) : FromLast(s, i) = k
<1> DEFINE R == Reversible(s)
           c == Cardinality(R)
           From(i) == {j \in R : j >= i}
<1>1. IsFiniteSet(R) /\ c \in Nat /\ R \subseteq Nat
  <2>1. IsFiniteSet(1 .. n)
    BY FS_Interval
  <2>2. IsFiniteSet(R)
    BY <2>1, FS_Subset
  <2>3. QED
    BY <2>2, FS_CardinalityType
<1> HIDE DEF R
<1>2. \A i \in R : /\ IsFiniteSet(From(i)) /\ From(i) \in SUBSET R
                   /\ Cardinality(From(i)) \in 1 .. c
  <2> TAKE i \in R
  <2>1. From(i) \in SUBSET R /\ i \in From(i)
    BY <1>1
  <2>2. IsFiniteSet(From(i)) /\ Cardinality(From(i)) <= c
    BY <1>1, <2>1, FS_Subset
  <2>3. Cardinality(From(i)) \in Nat /\ Cardinality(From(i)) # 0
    BY <2>1, <2>2, FS_CardinalityType, FS_EmptySet
  <2>4. QED
    BY <1>1, <2>1, <2>2, <2>3
<1>3. \A i, j \in R : i < j => Cardinality(From(i)) # Cardinality(From(j))
  <2> SUFFICES ASSUME NEW i \in R, NEW j \in R, i < j
               PROVE  Cardinality(From(i)) # Cardinality(From(j))
    OBVIOUS
  <2>1. i \in Nat /\ j \in Nat /\ \A x \in R : x \in Nat
    BY <1>1
  <2>2. From(j) \subseteq From(i) /\ i \in From(i) /\ i \notin From(j)
    <3>1. \A x \in R : x >= j => x >= i
      BY <2>1
    <3>2. i >= i /\ ~(i >= j)
      BY <2>1
    <3>3. QED
      BY <3>1, <3>2
  <2>3. QED
    BY <1>2, <2>2, FS_Subset
<1>4. \A i, j \in R : Cardinality(From(i)) = Cardinality(From(j)) => i = j
  BY <1>1, <1>3
<1> DEFINE f == [i \in R |-> Cardinality(From(i))]
<1>5. f \in Injection(R, 1 .. c)
  BY <1>2, <1>4 DEF Injection, IsInjective
<1>6. IsFiniteSet(1 .. c) /\ Cardinality(1 .. c) = c
  BY <1>1, FS_Interval
<1>7. f \in Surjection(R, 1 .. c)
  BY <1>5, <1>6, FS_Injection
<1>8. \A k \in 1 .. c : \E i \in R : Cardinality(From(i)) = k
  BY <1>7 DEF Surjection
<1>9. QED
  BY <1>1, <1>2, <1>4, <1>8 DEF R, FromLast

(* deriveRollbackPlan inverts a completed transaction: it names exactly    *)
(* the files that changed, with what they were.                            *)
LEMMA RollbackPlanInverts ==
    ASSUME IndInv, DiskEvidence, NEW s \in TxIds,
           summary[s] # NoSummary, summary[s].fileState = "Complete"
    PROVE  Inverts(RollbackPlan(s), s)
<1> DEFINE R == Reversible(s)
           c == Cardinality(R)
           n == Len(Ops(s))
           Kth(k) == CHOOSE i \in R : FromLast(s, i) = k
<1>1. /\ LoadedRecords(s) /\ plans[s] # NoPlan
      /\ \A i \in 1 .. n : Applied(s, i)
  BY DEF DiskEvidence, SummariesSound, ValidSummary
<1>2. n \in Nat /\ R \subseteq 1 .. n
  BY <1>1, LenProperties DEF IndInv, TypeOK, Plan, Ops, Reversible
<1>3. \A i \in 1 .. n : records[s][i].original # Op(s, i).data <=> i \in R
  <2> TAKE i \in 1 .. n
  <2>1. Applied(s, i) /\ Sound(s, i, records[s][i])
    BY <1>1 DEF DiskEvidence, RecordsSound, LoadedRecords
  <2>2. QED
    BY <2>1 DEF Applied, Sound, AlreadyApplied, Reversible
<1>4. /\ c \in Nat
      /\ \A i \in R : FromLast(s, i) \in 1 .. c
      /\ \A i, j \in R : FromLast(s, i) = FromLast(s, j) => i = j
      /\ \A k \in 1 .. c : \E i \in R : FromLast(s, i) = k
  BY <1>2, Numbering
<1>5. \A k \in 1 .. c : Kth(k) \in R /\ FromLast(s, Kth(k)) = k
  BY <1>4
<1>6. \A i \in R : Kth(FromLast(s, i)) = i
  BY <1>4, <1>5
<1>7. /\ DOMAIN RollbackPlan(s).ops = 1 .. c
      /\ \A k \in 1 .. c : RollbackPlan(s).ops[k] = InverseOp(s, Kth(k))
  BY DEF RollbackPlan, RollbackOps
<1> HIDE DEF Kth
<1>8. \A k \in 1 .. c : \E i \in 1 .. n :
         /\ Op(s, i).target = RollbackPlan(s).ops[k].target
         /\ records[s][i].original = RollbackPlan(s).ops[k].data
         /\ records[s][i].original # Op(s, i).data
  <2> TAKE k \in 1 .. c
  <2>1. PICK i \in 1 .. n : i = Kth(k) /\ records[s][i].original # Op(s, i).data
    BY <1>2, <1>3, <1>5
  <2>2. RollbackPlan(s).ops[k] = InverseOp(s, i)
    BY <1>7, <2>1
  <2>3. QED
    BY <2>1, <2>2 DEF InverseOp
<1>9. \A i \in 1 .. n : records[s][i].original # Op(s, i).data =>
         \E k \in 1 .. c : RollbackPlan(s).ops[k].target = Op(s, i).target
  <2> SUFFICES ASSUME NEW i \in R
               PROVE  \E k \in 1 .. c : RollbackPlan(s).ops[k].target = Op(s, i).target
    BY <1>3
  <2>1. FromLast(s, i) \in 1 .. c /\ RollbackPlan(s).ops[FromLast(s, i)] = InverseOp(s, i)
    BY <1>4, <1>6, <1>7
  <2>2. QED
    BY <2>1 DEF InverseOp
<1>10. QED
  BY <1>7, <1>8, <1>9 DEF Inverts

(* A plan snapshot is written under a fresh identity. *)
LEMMA DiskStart ==
    ASSUME IndInv, DiskEvidence, Next, NEW t \in TxIds, NEW o, StartTransaction(t, o)
    PROVE  DiskEvidence'
<1>1. /\ plans[t] = NoPlan /\ summary[t] = NoSummary /\ records[t] = <<>>
      /\ plans \in [TxIds -> Plan \union {NoPlan}] /\ req \in Request
      /\ DistinctTargets(NewPlan.ops) /\ NewPlan \in Plan /\ StartsNew
      /\ UNCHANGED <<install, backup, summary, records, active, terminal, touched>>
  BY DEF IndInv, TypeOK, JournalInv, SnapshotFirst, StartTransaction, ValidateApplyPlan,
         PointInv, WorkingTransaction, StartsNew, ghosts
<1>2. /\ \A u \in TxIds : u # t => plans'[u] = plans[u]
      /\ plans'[t] \in {NoPlan, NewPlan}
  BY <1>1 DEF StartTransaction
<1>3. PlansSound'
  <2>1. NewPlan.ops \in Seq(Operation)
    BY <1>1 DEF Plan
  <2>2. QED
    BY <1>1, <1>2, <2>1, LenProperties, EmptySeq DEF DiskEvidence, PlansSound, Ops
<1>4. RecordsSound'
  BY <1>1, <1>2, EmptySeq DEF DiskEvidence, RecordsSound, Sound, Op, Ops, AlreadyApplied
<1>5. ActiveAccounted'
  <2>1. active # t /\ active \in TxIds \union {NoTx}
    BY <1>1, SentinelAssumption
       DEF IndInv, TypeOK, JournalInv, RecoveryAccepted, ValidSummary
  <2>2. QED
    BY <1>1, <1>2, <2>1 DEF DiskEvidence, ActiveAccounted, Undoable, Op, Ops
<1>6. SummariesSound'
  BY <1>1, <1>2 DEF DiskEvidence, SummariesSound, ValidSummary, LoadedRecords, Applied, Ops
<1>7. \A u \in TxIds : summary[u] # NoSummary /\ summary[u].fileState = "Complete" =>
         plans'[u] = plans[u] /\ records'[u] = records[u]
  BY <1>1, <1>2
<1>8. ReceiptTrustworthy'
  BY <1>1, <1>6, <1>7, ReceiptKept
<1>a. PICK q : q = NewPlan
  OBVIOUS
<1>9. q \in InstallPlans \/ \E s \in TxIds : Inverts(q, s)'
  <2>1. CASE req.intent = "Install"
    BY <1>1, <1>a, <2>1 DEF NewPlan, Request
  <2>2. CASE req.intent = "Rollback"
    <3>1. req.of \in TxIds /\ RollbackSource /\ NewPlan = RollbackPlan(req.of)
      BY <1>1, <2>2 DEF NewPlan, Request, StartsNew
    <3>2. summary[req.of] # NoSummary /\ summary[req.of].fileState = "Complete"
      BY <3>1 DEF RollbackSource, TrustedTerminal, ValidSummary
    <3>3. \E s \in TxIds : Inverts(q, s)
      BY <1>a, <3>1, <3>2, RollbackPlanInverts
    <3>4. QED
      BY <1>7, <3>3, InversesKept
  <2>3. QED
    BY <1>1, <2>1, <2>2 DEF Request
<1>10. PlanOrigin'
  <2> SUFFICES ASSUME NEW u \in TxIds, plans'[u] # NoPlan
               PROVE  (plans[u] \in InstallPlans \/ \E s \in TxIds : Inverts(plans[u], s))'
    BY DEF PlanOrigin
  <2>a. PICK v : v = plans'[u]
    OBVIOUS
  <2>b. \A s \in TxIds : Inverts(v, s)' => Inverts(plans[u], s)'
    BY <2>a DEF Inverts
  <2> SUFFICES v \in InstallPlans \/ \E s \in TxIds : Inverts(v, s)'
    BY <2>a, <2>b
  <2>1. CASE u # t
    <3>1. v \in InstallPlans \/ \E s \in TxIds : Inverts(v, s)
      BY <1>2, <2>a, <2>1 DEF DiskEvidence, PlanOrigin
    <3>2. QED
      BY <1>7, <3>1, InversesKept
  <2>2. CASE u = t
    BY <1>2, <1>a, <1>9, <2>a, <2>2
  <2>3. QED
    BY <2>1, <2>2
<1>11. QED
  BY <1>3, <1>4, <1>5, <1>6, <1>8, <1>10 DEF DiskEvidence

-----------------------------------------------------------------------------
(* Where a step leaves the invocation. *)

USE DEF PreparePcs, ActivePcs, RecordPcs, ApplyPcs, RollbackPcs, FilePcs, LaunchPcs

(* An invocation that fails leaves nothing to be said of it. *)
LEMMA PointFail ==
    ASSUME Return("fail")
    PROVE  PointEvidence'
BY DEF Return, PointEvidence, PreparedAccounted, InMemory, Walk, Expectation, Success,
       SuccessMeansInstalled

(* An invocation that goes on has reported nothing yet. *)
LEMMA SuccessKept ==
    ASSUME PointEvidence, pc # "idle", UNCHANGED result
    PROVE  Success'
BY DEF PointEvidence, Success, SuccessMeansInstalled

(* Points where the invocation relies on the disk only. *)
LEMMA PointQuiet ==
    ASSUME PointEvidence, pc # "idle", UNCHANGED result,
           pc' \in {"applying", "markRollback", "rollbackFailed", "terminalFailed",
                    "recover", "dispatch"}
    PROVE  PointEvidence'
BY SuccessKept DEF PointEvidence, PreparedAccounted, InMemory, Walk, Expectation

(* Points of the preparation. *)
LEMMA PointPrepare ==
    ASSUME PointEvidence, pc # "idle", UNCHANGED result, pc' \in PreparePcs,
           PreparedAccounted', InMemory'
    PROVE  PointEvidence'
BY SuccessKept DEF PointEvidence, Walk, Expectation

-----------------------------------------------------------------------------
(* Preparation. *)

(* A prepared transaction whose records and files the step leaves alone. *)
LEMMA PreparedKept ==
    ASSUME SafetyInv, pc \in PreparePcs,
           UNCHANGED <<install, plans, records, cur, touched>>
    PROVE  PreparedAccounted'
BY DEF SafetyInv, PointEvidence, PreparedAccounted, Restored, Holds, Op, Ops

(* start() with a fresh snapshot. *)
LEMMA StartTransactionSafe ==
    ASSUME SafetyInv, Next, IndInv', NEW t \in TxIds, NEW o \in Outcomes,
           StartTransaction(t, o)
    PROVE  DiskEvidence' /\ PointEvidence'
<1>1. DiskEvidence'
  BY DiskStart DEF SafetyInv
<1>2. CASE o = "ok"
  <2>1. pc # "idle" /\ pc' = "prepared" /\ result' = result
    BY <1>2 DEF StartTransaction, StartsNew
  <2>2. records'[cur'] = <<>>
    BY <2>1 DEF IndInv, PointInv, Preparation
  <2>3. PreparedAccounted' /\ InMemory'
    BY <2>1, <2>2, EmptySeq DEF PreparedAccounted, InMemory
  <2>4. QED
    BY <1>1, <2>1, <2>3, PointPrepare DEF SafetyInv
<1>3. CASE o # "ok"
  BY <1>1, <1>3, PointFail DEF StartTransaction
<1>4. QED
  BY <1>2, <1>3

(* The first summary. *)
LEMMA PersistPreparedSafe ==
    ASSUME SafetyInv, Next, IndInv', NEW o \in Outcomes, PersistPrepared(o)
    PROVE  DiskEvidence' /\ PointEvidence'
<1> DEFINE s == [fileState |-> "Prepared",
                 restartState |-> IF plans[cur].restart THEN "NotAttempted"
                                  ELSE "NotRequested",
                 applyError |-> FALSE, rollbackError |-> FALSE,
                 restartError |-> FALSE, completedAt |-> NoStamp]
<1>1. pc = "prepared" /\ WriteSummary(s, o)
      /\ UNCHANGED <<install, backup, plans, records, active, terminal, ghosts>>
  BY DEF PersistPrepared
<1>2. cur \in TxIds /\ plans[cur] # NoPlan /\ plans[cur].restart \in BOOLEAN
  BY <1>1, WorkingFacts DEF SafetyInv, Plan
<1>3. s \in Summary
  BY DEF Summary, FileStates, RestartStates
<1>4. ConsistentSummary(plans[cur], s)
  BY <1>2, AllowedStates, SentinelAssumption DEF ConsistentSummary, FileStates
<1>5. DiskEvidence'
  BY <1>1, <1>2, <1>3, <1>4, DiskSummary DEF SafetyInv
<1>6. CASE o = "ok"
  <2>1. pc # "idle" /\ pc' = "prepare" /\ UNCHANGED <<result, cur>>
    BY <1>1, <1>6 DEF PersistPrepared, Proceed, Goto
  <2>2. PreparedAccounted' /\ InMemory'
    BY <1>1, <2>1, PreparedKept DEF InMemory, ghosts
  <2>3. QED
    BY <1>5, <2>1, <2>2, PointPrepare DEF SafetyInv
<1>7. CASE o # "ok"
  BY <1>5, <1>7, PointFail DEF PersistPrepared
<1>8. QED
  BY <1>6, <1>7

(* prepareOne records the file it finds. *)
LEMMA PrepareOneSafe ==
    ASSUME SafetyInv, Next, IndInv', NEW o \in Outcomes, PrepareOne(o)
    PROVE  DiskEvidence' /\ PointEvidence'
<1> DEFINE file == install[OpAt.target]
           r == InitialRecord(file, OpAt.data)
<1>1. /\ pc = "prepare" /\ idx <= Len(Ops(cur)) /\ WriteOperation(r, o)
      /\ UNCHANGED <<install, backup, plans, summary, active, terminal, ghosts>>
      /\ IF o # "ok" THEN Continue("prepareFailed", r) /\ KeepObservation
         ELSE IF r.backupState = "Intent" THEN Continue("backup", r) /\ KeepObservation
         ELSE Proceed("prepare", idx + 1)
  BY DEF PrepareOne
<1>2. /\ cur \in TxIds /\ plans[cur] # NoPlan /\ idx = Len(records[cur]) + 1
      /\ Len(records[cur]) \in Nat /\ Len(Ops(cur)) \in Nat
  BY <1>1, WorkingFacts DEF SafetyInv, IndInv, PointInv, Preparation
<1>3. idx \in 1 .. Len(records[cur]) + 1 /\ idx \in 1 .. Len(Ops(cur))
  BY <1>1, <1>2
<1>4. OpAt.target \in Paths /\ OpAt.data \in File /\ file \in File
  BY <1>1, <1>3, OperationFacts DEF SafetyInv
<1>5. r \in Record
  BY <1>4 DEF InitialRecord, Record
<1>6. Sound(cur, idx, r)
  BY DEF Sound, InitialRecord, AlreadyApplied, OpAt
<1>7. DiskEvidence'
  BY <1>1, <1>3, <1>5, <1>6, DiskPrepare DEF SafetyInv
<1>8. /\ \A i \in 1 .. Len(records'[cur]) :
           \/ i \in 1 .. Len(records[cur]) /\ records'[cur][i] = records[cur][i]
           \/ i = idx /\ records'[cur][i] = r
      /\ o # "lost" => Len(records'[cur]) = idx
  BY <1>2, <1>3, <1>5, <1>1, RecordWritten DEF SafetyInv
<1>9. cur' = cur /\ result' = result /\ pc' \in {"prepare", "backup", "prepareFailed"}
  BY <1>1 DEF Continue, Proceed, Goto
<1>10. PreparedAccounted'
  <2> SUFFICES ASSUME NEW i \in 1 .. Len(records'[cur])
               PROVE  Restored(cur, i)'
    BY <1>9 DEF PreparedAccounted
  <2>1. CASE i \in 1 .. Len(records[cur]) /\ records'[cur][i] = records[cur][i]
    <3>1. Restored(cur, i)
      BY <1>1, <2>1 DEF SafetyInv, PointEvidence, PreparedAccounted
    <3>2. QED
      BY <1>1, <1>9, <2>1, <3>1 DEF Restored, Holds, Op, Ops, ghosts
  <2>2. CASE i = idx /\ records'[cur][i] = r
    <3>1. r.original = install[Op(cur, i).target]
      BY <2>2 DEF InitialRecord, OpAt
    <3>2. Op(cur, i)' = Op(cur, i) /\ install' = install
      BY <1>1, <1>9 DEF Op, Ops
    <3>3. QED
      BY <1>9, <2>2, <3>1, <3>2 DEF Restored, Holds
  <2>3. QED
    BY <1>8, <2>1, <2>2
<1>11. InMemory'
  <2>1. CASE pc' = "prepare"
    BY <2>1 DEF InMemory
  <2>2. CASE pc' # "prepare"
    <3>1. rec' = r /\ idx' = idx
      BY <1>1, <2>2 DEF Continue, Proceed, Goto
    <3>2. Sound(cur, idx, rec)'
      BY <1>1, <1>6, <1>9, <3>1 DEF Sound, Op, Ops, AlreadyApplied
    <3>3. pc' = "backup" => o = "ok" /\ r.backupState = "Intent"
      BY <1>1 DEF Continue, Proceed, Goto
    <3>4. pc' = "backup" => records'[cur][idx] = r
      BY <1>2, <1>3, <1>8, <3>3
    <3>5. r.backupState = "Intent" => r.applyState = "Pending"
      BY DEF InitialRecord
    <3>6. QED
      BY <1>9, <2>2, <3>1, <3>2, <3>3, <3>4, <3>5 DEF InMemory
  <2>3. QED
    BY <2>1, <2>2
<1>12. QED
  BY <1>1, <1>7, <1>9, <1>10, <1>11, PointPrepare DEF SafetyInv

(* ensureBackup: an existing backup is used only if it is the original. *)
LEMMA EnsureBackupSafe ==
    ASSUME SafetyInv, Next, IndInv', NEW o \in Outcomes, EnsureBackup(o)
    PROVE  DiskEvidence' /\ PointEvidence'
<1>1. /\ pc = "backup" /\ BackupUsable /\ cur' = cur /\ rec' = rec /\ idx' = idx
      /\ result' = result /\ pc' = (IF o = "ok" THEN "backupDurable" ELSE "prepareFailed")
      /\ backup' = IF o = "lost" THEN backup
                   ELSE [backup EXCEPT ![plans[cur].backupDir][OpAt.target] = rec.original]
      /\ UNCHANGED <<install, plans, summary, records, active, terminal, ghosts>>
  BY DEF EnsureBackup, Continue, Goto
<1>2. idx \in 1 .. Len(Ops(cur))
  BY <1>1 DEF SafetyInv, IndInv, PointInv, Preparation
<1>3. DiskEvidence'
  <2>1. ExistingBackup \in {Missing, rec.original} /\ pc \in PreparePcs \union ActivePcs
    BY <1>1 DEF BackupUsable
  <2>2. IndInv /\ DiskEvidence
    BY DEF SafetyInv
  <2>3. QED
    BY <1>1, <1>2, <2>1, <2>2, DiskBackup
<1>4. PreparedAccounted'
  BY <1>1, PreparedKept DEF ghosts
<1>5. InMemory'
  <2>1. Sound(cur, idx, rec) /\ rec = records[cur][idx] /\ rec.backupState = "Intent"
        /\ rec.applyState = "Pending"
    BY <1>1 DEF SafetyInv, PointEvidence, InMemory
  <2>2. Sound(cur, idx, rec)'
    BY <1>1, <2>1 DEF Sound, Op, Ops, AlreadyApplied
  <2>3. o = "ok" => ExistingBackup' = rec.original
    <3>1. /\ backup \in [BackupDirs -> [Paths -> File]]
          /\ plans[cur].backupDir \in BackupDirs /\ OpAt.target \in Paths
      BY <1>1, <1>2, WorkingFacts, OperationFacts DEF SafetyInv, IndInv, TypeOK, Plan
    <3>2. QED
      BY <1>1, <3>1 DEF ExistingBackup, OpAt, Op, Ops
  <2>4. QED
    BY <1>1, <2>1, <2>2, <2>3 DEF InMemory
<1>6. QED
  BY <1>1, <1>3, <1>4, <1>5, PointPrepare DEF SafetyInv

(* The record that says the backup is durable is written after the backup. *)
LEMMA PersistBackupDurableSafe ==
    ASSUME SafetyInv, Next, IndInv', NEW o \in Outcomes, PersistBackupDurable(o)
    PROVE  DiskEvidence' /\ PointEvidence'
<1> DEFINE r == [rec EXCEPT !.backupState = "Durable"]
<1>1. /\ pc = "backupDurable" /\ WriteOperation(r, o)
      /\ UNCHANGED <<install, backup, plans, summary, active, terminal, ghosts>>
      /\ IF o = "ok" THEN Proceed("prepare", idx + 1)
         ELSE Continue("prepareFailed", r) /\ KeepObservation
  BY DEF PersistBackupDurable
<1>2. /\ cur \in TxIds /\ plans[cur] # NoPlan /\ idx = Len(records[cur])
      /\ Len(records[cur]) \in Nat /\ idx \in 1 .. Len(Ops(cur)) /\ rec \in Record
      /\ Sound(cur, idx, rec) /\ rec = records[cur][idx] /\ rec.backupState = "Intent"
      /\ ExistingBackup = rec.original
  BY <1>1, WorkingFacts
     DEF SafetyInv, IndInv, PointInv, Preparation, Position, PointEvidence, InMemory
<1>3. r \in Record /\ idx \in 1 .. Len(records[cur]) + 1
  BY <1>2 DEF Record
<1>4. Sound(cur, idx, r)
  BY <1>2 DEF Sound, ExistingBackup, OpAt, AlreadyApplied, Record
<1>5. DiskEvidence'
  BY <1>1, <1>2, <1>3, <1>4, DiskPrepare DEF SafetyInv
<1>6. /\ Len(records'[cur]) = Len(records[cur])
      /\ \A i \in 1 .. Len(records[cur]) :
            records'[cur][i] \in {records[cur][i], IF i = idx THEN r ELSE records[cur][i]}
  BY <1>1, <1>2, <1>3, RecordWritten DEF SafetyInv
<1>7. cur' = cur /\ result' = result /\ pc' \in {"prepare", "prepareFailed"}
  BY <1>1 DEF Continue, Proceed, Goto
<1>8. \A i \in 1 .. Len(records[cur]) : records'[cur][i].original = records[cur][i].original
  BY <1>2, <1>6 DEF Record
<1>9. PreparedAccounted'
  BY <1>1, <1>6, <1>7, <1>8
     DEF SafetyInv, PointEvidence, PreparedAccounted, Restored, Holds, Op, Ops, ghosts
<1>10. InMemory'
  <2>1. pc' = "prepareFailed" => Sound(cur, idx, rec)'
    BY <1>1, <1>4, <1>7 DEF Continue, Proceed, Goto, Sound, Op, Ops, AlreadyApplied
  <2>2. QED
    BY <1>7, <2>1 DEF InMemory
<1>11. QED
  BY <1>1, <1>5, <1>7, <1>9, <1>10, PointPrepare DEF SafetyInv

(* The backup cannot be made. *)
LEMMA BackupRejectedSafe ==
    ASSUME SafetyInv, Next, IndInv', BackupRejected
    PROVE  DiskEvidence' /\ PointEvidence'
<1>1. /\ pc = "backup" /\ pc' = "prepareFailed"
      /\ UNCHANGED <<install, durable, ghosts, cur, idx, rec, result>>
  BY DEF BackupRejected, Continue, Goto
<1>2. DiskEvidence'
  BY <1>1, DiskKept DEF SafetyInv, durable, ghosts
<1>3. PreparedAccounted'
  BY <1>1, PreparedKept DEF durable, ghosts
<1>4. InMemory'
  BY <1>1 DEF SafetyInv, PointEvidence, InMemory, Sound, Op, Ops, AlreadyApplied, durable
<1>5. QED
  BY <1>1, <1>2, <1>3, <1>4, PointPrepare DEF SafetyInv

(* The failure of a preparation is noted in the operation's record. *)
LEMMA FailPreparationSafe ==
    ASSUME SafetyInv, Next, IndInv', NEW o \in Outcomes, FailPreparation(o)
    PROVE  DiskEvidence' /\ PointEvidence'
<1> DEFINE r == [rec EXCEPT !.error = TRUE]
<1>1. /\ pc = "prepareFailed" /\ WriteOperation(r, o) /\ Return("fail")
      /\ UNCHANGED <<install, backup, plans, summary, active, terminal, ghosts>>
  BY DEF FailPreparation
<1>2. /\ Len(records[cur]) \in Nat /\ idx \in 1 .. Len(Ops(cur)) /\ rec \in Record
      /\ idx \in Len(records[cur]) .. Len(records[cur]) + 1 /\ Len(Ops(cur)) \in Nat
      /\ Sound(cur, idx, rec)
  BY <1>1, WorkingFacts
     DEF SafetyInv, IndInv, PointInv, Preparation, Position, PointEvidence, InMemory
<1>3. r \in Record /\ idx \in 1 .. Len(records[cur]) + 1
  <2>1. r \in Record
    BY <1>2 DEF Record
  <2>2. idx \in 1 .. Len(records[cur]) + 1
    BY <1>2
  <2>3. QED
    BY <2>1, <2>2
<1>4. Sound(cur, idx, r)
  BY <1>2 DEF Sound, AlreadyApplied, Record
<1>5. DiskEvidence'
  BY <1>1, <1>2, <1>3, <1>4, DiskPrepare DEF SafetyInv
<1>6. QED
  BY <1>1, <1>5, PointFail

(* active.json is published with every original in place. *)
LEMMA PublishActiveSafe ==
    ASSUME SafetyInv, Next, IndInv', NEW o \in Outcomes, PublishActive(o)
    PROVE  DiskEvidence' /\ PointEvidence'
<1>1. /\ pc = "prepare" /\ active' \in {active, cur}
      /\ UNCHANGED <<install, backup, plans, summary, records, terminal, ghosts>>
      /\ IF o = "ok" THEN Proceed("applying", 0) ELSE Return("fail")
  BY DEF PublishActive
<1>2. \A i \in 1 .. Len(records[cur]) : Restored(cur, i)
  BY <1>1 DEF SafetyInv, PointEvidence, PreparedAccounted
<1>3. DiskEvidence'
  BY <1>1, <1>2, DiskActive DEF SafetyInv
<1>4. PointEvidence'
  BY <1>1, PointFail, PointQuiet DEF SafetyInv, Proceed, Goto
<1>5. QED
  BY <1>3, <1>4

-----------------------------------------------------------------------------
(* Journal writes of the active transaction. *)

(* The operation that is worked on, and what its record on disk claims. *)
LEMMA ActiveRecord ==
    ASSUME SafetyInv, pc \in ActivePcs, idx \in 1 .. Len(Ops(cur))
    PROVE  /\ cur \in TxIds /\ plans[cur] # NoPlan /\ active = cur
           /\ Len(records[cur]) = Len(Ops(cur)) /\ Len(Ops(cur)) \in Nat
           /\ records[cur][idx] \in Record /\ Sound(cur, idx, records[cur][idx])
           /\ Undoable(cur, idx)
           /\ OpAt.target \in Paths /\ OpAt.data \in File
<1>1. /\ cur \in TxIds /\ plans[cur] # NoPlan /\ active = cur /\ active # NoTx
      /\ Len(records[cur]) = Len(Ops(cur)) /\ Len(Ops(cur)) \in Nat
  BY WorkingFacts, ActiveFacts DEF SafetyInv
<1>2. records[cur][idx] \in Record /\ OpAt.target \in Paths /\ OpAt.data \in File
  BY <1>1, OperationFacts DEF SafetyInv
<1>3. QED
  BY <1>1, <1>2 DEF SafetyInv, DiskEvidence, RecordsSound, ActiveAccounted

(* A record is rewritten while files are applied or put back. *)
LEMMA ActiveWrite ==
    ASSUME SafetyInv, Next, pc \in ApplyPcs \union RollbackPcs, idx \in 1 .. Len(Ops(cur)),
           NEW r \in Record, NEW o, WriteOperation(r, o),
           Sound(cur, idx, r), Follows(r, records[cur][idx]),
           UNCHANGED <<install, backup, plans, summary, active, terminal, ghosts>>
    PROVE  /\ DiskEvidence'
           /\ Len(records'[cur]) = Len(records[cur])
           /\ \A i \in 1 .. Len(Ops(cur)) : i # idx => records'[cur][i] = records[cur][i]
           /\ records'[cur][idx] = IF o = "lost" THEN records[cur][idx] ELSE r
<1>1. /\ cur \in TxIds /\ Len(records[cur]) = Len(Ops(cur)) /\ Len(Ops(cur)) \in Nat
      /\ pc \in ActivePcs
  BY ActiveRecord DEF PCs
<1>2. summary[cur].fileState \notin {"FilesApplied", "Complete"}
  BY DEF SafetyInv, IndInv, PointInv, Progress, PointEvidence, Walk
<1>3. idx \in 1 .. Len(records[cur]) /\ idx \in 1 .. Len(records[cur]) + 1
  BY <1>1
<1>4. DiskEvidence'
  BY <1>1, <1>2, <1>3, DiskOperation DEF SafetyInv
<1>5. /\ Len(records'[cur]) = Len(records[cur])
      /\ \A i \in 1 .. Len(Ops(cur)) : i # idx => records'[cur][i] = records[cur][i]
      /\ records'[cur][idx] = IF o = "lost" THEN records[cur][idx] ELSE r
  BY <1>1, <1>3, RecordWritten DEF SafetyInv
<1>6. QED
  BY <1>4, <1>5

(* A summary of the active transaction is written; recovery accepts it. *)
LEMMA ActiveSummaryWrite ==
    ASSUME SafetyInv, Next, IndInv', pc \in ActivePcs,
           NEW s \in Summary, NEW o, WriteSummary(s, o),
           s.fileState \in {"FilesApplied", "Complete"} =>
               \A i \in 1 .. Len(Ops(cur)) : Applied(cur, i),
           UNCHANGED <<install, backup, plans, records, active, terminal, ghosts>>
    PROVE  /\ DiskEvidence'
           /\ summary'[cur] = IF o = "lost" THEN summary[cur] ELSE s
<1>1. cur \in TxIds /\ active = cur /\ active # NoTx /\ Len(records[cur]) = Len(Ops(cur))
  BY WorkingFacts, ActiveFacts DEF SafetyInv
<1>2. /\ \A t \in TxIds : t # cur => summary'[t] = summary[t]
      /\ summary'[cur] = IF o = "lost" THEN summary[cur] ELSE s
  BY <1>1, SummaryWritten DEF SafetyInv, IndInv
<1>3. PICK t \in TxIds : t = cur
  BY <1>1
<1>4. ValidSummary(t)'
  BY <1>1, <1>3 DEF IndInv, JournalInv, RecoveryAccepted, ValidSummary
<1>5. SummariesSound'
  BY <1>1, <1>2, <1>3, <1>4
     DEF SafetyInv, DiskEvidence, SummariesSound, ValidSummary, LoadedRecords, Applied, Ops
<1>6. DiskEvidence'
  BY <1>5, PlansKept, AccountsKept, ReceiptKept, OriginKept DEF SafetyInv, DiskEvidence, ghosts
<1>7. QED
  BY <1>2, <1>6

-----------------------------------------------------------------------------
(* Applying the operations. *)

(* Operation i is applied, and its file is installed. *)
Done(i) == Applied(cur, i) /\ Holds(Op(cur, i).target, Op(cur, i).data)

(* The point is one of applyOne, and the operations before it are done. *)
LEMMA PointApply ==
    ASSUME PointEvidence, pc # "idle", UNCHANGED result, pc' \in ApplyPcs,
           InMemory', pc' # "applyFailed" => (\A i \in 1 .. idx - 1 : Done(i))',
           Expectation'
    PROVE  PointEvidence'
<1>1. Walk'
  BY DEF Walk, Done
<1>2. QED
  BY <1>1, SuccessKept DEF PointEvidence, PreparedAccounted

(* Operations the step does not write. *)
LEMMA DoneKept ==
    ASSUME SafetyInv, pc \in {"apply", "commit", "applyCheck"}, NEW i \in 1 .. idx - 1,
           records'[cur][i] = records[cur][i],
           install'[Op(cur, i).target] = install[Op(cur, i).target],
           UNCHANGED <<plans, cur, touched>>
    PROVE  Done(i)'
BY DEF SafetyInv, PointEvidence, Walk, Done, Applied, Holds, Op, Ops

(* The first summary of the active transaction. *)
LEMMA PersistApplyingSafe ==
    ASSUME SafetyInv, Next, IndInv', NEW o \in Outcomes, PersistApplying(o)
    PROVE  DiskEvidence' /\ PointEvidence'
<1> DEFINE s == [summary[cur] EXCEPT !.fileState = "Applying"]
<1>1. /\ pc = "applying" /\ WriteSummary(s, o)
      /\ UNCHANGED <<install, backup, plans, records, active, terminal, ghosts>>
      /\ IF o = "ok" THEN Proceed("apply", 1) ELSE Proceed("markRollback", 0)
  BY DEF PersistApplying
<1>2. s \in Summary /\ s.fileState = "Applying"
  BY <1>1, ActiveFacts DEF SafetyInv, Summary, FileStates, PCs
<1>3. DiskEvidence'
  BY <1>1, <1>2, ActiveSummaryWrite DEF PCs
<1>4. CASE o = "ok"
  <2>1. pc' = "apply" /\ idx' = 1 /\ result' = result
    BY <1>1, <1>4 DEF Proceed, Goto
  <2>2. InMemory' /\ Expectation' /\ (\A i \in 1 .. idx - 1 : Done(i))'
    BY <2>1 DEF InMemory, Expectation
  <2>3. QED
    BY <1>1, <1>3, <2>1, <2>2, PointApply DEF SafetyInv
<1>5. CASE o # "ok"
  BY <1>1, <1>3, <1>5, PointQuiet DEF SafetyInv, Proceed, Goto
<1>6. QED
  BY <1>4, <1>5

(* An operation whose file was the planned one all along. *)
LEMMA SkipAppliedSafe ==
    ASSUME SafetyInv, Next, IndInv', SkipApplied
    PROVE  DiskEvidence' /\ PointEvidence'
<1>1. /\ pc = "apply" /\ idx <= Len(Ops(cur)) /\ AlreadyApplied(records[cur][idx])
      /\ install[OpAt.target] = records[cur][idx].original
      /\ pc' = "apply" /\ idx' = idx + 1
      /\ UNCHANGED <<install, durable, ghosts, cur, result>>
  BY DEF SkipApplied, Proceed, Goto
<1>2. idx \in 1 .. Len(Ops(cur))
  BY <1>1, WorkingFacts DEF SafetyInv, IndInv, PointInv, Position, PCs
<1>3. Sound(cur, idx, records[cur][idx])
  BY <1>1, <1>2, ActiveRecord DEF PCs
<1>4. Done(idx)
  BY <1>1, <1>3 DEF Sound, AlreadyApplied, Done, Applied, Holds, OpAt
<1>5. \A i \in 1 .. idx : Done(i)'
  BY <1>1, <1>2, <1>4, DoneKept DEF Done, Applied, Holds, Op, Ops, durable, ghosts
<1>6. DiskEvidence'
  BY <1>1, DiskKept DEF SafetyInv, durable, ghosts
<1>7. InMemory' /\ Expectation'
  BY <1>1 DEF InMemory, Expectation
<1>8. (\A i \in 1 .. idx - 1 : Done(i))'
  BY <1>1, <1>2, <1>5
<1>9. QED
  BY <1>1, <1>6, <1>7, <1>8, PointApply DEF SafetyInv

(* The target or the staged file is not what was prepared. *)
LEMMA ApplyRejectedSafe ==
    ASSUME SafetyInv, Next, IndInv', NEW o \in Outcomes, ApplyRejected(o)
    PROVE  DiskEvidence' /\ PointEvidence'
<1>1. /\ pc = "apply" /\ idx <= Len(Ops(cur)) /\ pc' = "applyFailed"
      /\ rec' = records[cur][idx]
      /\ UNCHANGED <<install, durable, ghosts, cur, idx, result>>
  BY DEF ApplyRejected, Continue, Goto
<1>2. idx \in 1 .. Len(Ops(cur))
  BY <1>1, WorkingFacts DEF SafetyInv, IndInv, PointInv, Position, PCs
<1>3. DiskEvidence'
  BY <1>1, DiskKept DEF SafetyInv, durable, ghosts
<1>4. Sound(cur, idx, rec)'
  BY <1>1, <1>2, ActiveRecord DEF PCs, Sound, Op, Ops, AlreadyApplied, durable
<1>5. InMemory'
  BY <1>1, <1>4 DEF InMemory, Follows, durable
<1>6. QED
  BY <1>1, <1>3, <1>5, PointApply DEF SafetyInv, Expectation

(* The prepared record cannot be read. *)
LEMMA ApplyUnloadableSafe ==
    ASSUME SafetyInv, Next, IndInv', NEW o \in Outcomes, ApplyUnloadable(o)
    PROVE  DiskEvidence' /\ PointEvidence'
<1>1. /\ pc = "apply" /\ pc' = "markRollback"
      /\ UNCHANGED <<install, durable, ghosts, cur, result>>
  BY DEF ApplyUnloadable, Proceed, Goto
<1>2. DiskEvidence'
  BY <1>1, DiskKept DEF SafetyInv, durable, ghosts
<1>3. QED
  BY <1>1, <1>2, PointQuiet DEF SafetyInv

(* The intent is journaled before the file is replaced. *)
LEMMA ApplyIntentSafe ==
    ASSUME SafetyInv, Next, IndInv', NEW o \in Outcomes, ApplyIntent(o)
    PROVE  DiskEvidence' /\ PointEvidence'
<1> DEFINE q == records[cur][idx]
           r == [q EXCEPT !.applyState = "Intent"]
<1>1. /\ pc = "apply" /\ idx <= Len(Ops(cur)) /\ ~AlreadyApplied(q) /\ Applicable
      /\ WriteOperation(r, o)
      /\ pc' = (IF o = "ok" THEN "commit" ELSE "applyFailed")
      /\ rec' = r /\ seen' = (IF o = "ok" THEN install[OpAt.target] ELSE Missing)
      /\ UNCHANGED <<cur, idx, result, sameId>>
      /\ UNCHANGED <<install, backup, plans, summary, active, terminal, ghosts>>
  BY DEF ApplyIntent, Continue, Goto
<1>2. idx \in 1 .. Len(Ops(cur))
  BY <1>1, WorkingFacts DEF SafetyInv, IndInv, PointInv, Position, PCs
<1>3. q \in Record /\ Sound(cur, idx, q) /\ cur \in TxIds
  BY <1>1, <1>2, ActiveRecord DEF PCs
<1>4. /\ install[OpAt.target] = q.original /\ q.applyState = "Pending"
      /\ q.rollbackState = "NotStarted"
      /\ q.original # Missing => q.backupState = "Durable"
  BY <1>1 DEF Applicable
<1>5. /\ r \in Record /\ r.original = q.original /\ r.backupState = q.backupState
      /\ r.rollbackState = q.rollbackState /\ r.applyState = "Intent"
  BY <1>3 DEF Record
<1> HIDE DEF r
<1>6. Sound(cur, idx, r) /\ Follows(r, q)
  BY <1>3, <1>4, <1>5 DEF Sound, AlreadyApplied, Follows
<1>7. /\ DiskEvidence'
      /\ \A i \in 1 .. Len(Ops(cur)) : i # idx => records'[cur][i] = records[cur][i]
      /\ records'[cur][idx] = IF o = "lost" THEN q ELSE r
  BY <1>1, <1>2, <1>5, <1>6, ActiveWrite
<1>8. (\A i \in 1 .. idx - 1 : Done(i))'
  BY <1>1, <1>2, <1>7, DoneKept DEF ghosts
<1>9. InMemory'
  <2>1. Sound(cur, idx, rec)'
    BY <1>1, <1>6 DEF Sound, Op, Ops, AlreadyApplied
  <2>2. Follows(rec, records[cur][idx])'
    BY <1>1, <1>5, <1>7, <1>4 DEF Follows
  <2>3. pc' = "commit" => rec' = records'[cur'][idx']
    BY <1>1, <1>7
  <2>4. /\ rec'.applyState = "Intent" /\ rec'.rollbackState = "NotStarted"
        /\ rec'.original # Missing => rec'.backupState = "Durable"
    BY <1>1, <1>4, <1>5
  <2>5. pc' \in {"commit", "applyFailed"}
    BY <1>1
  <2>6. QED
    BY <2>1, <2>2, <2>3, <2>4, <2>5 DEF InMemory
<1>10. Expectation'
  BY <1>1, <1>4, <1>5 DEF Expectation, OpAt, Op, Ops
<1>11. QED
  BY <1>1, <1>7, <1>8, <1>9, <1>10, PointApply DEF SafetyInv

(* A compare-and-swap changes its target or nothing. *)
LEMMA SwapChanges ==
    ASSUME IndInv, OpAt.target \in Paths, NEW data, NEW o, Swap(data, o)
    PROVE  /\ \A p \in Paths : p # OpAt.target => install'[p] = install[p]
           /\ install'[OpAt.target] \in {install[OpAt.target], data}
BY DEF IndInv, TypeOK, Swap

(* Replacing one target leaves the targets of the other operations alone. *)
LEMMA SwapOthers ==
    ASSUME SafetyInv, pc \in ActivePcs, idx \in 1 .. Len(Ops(cur)),
           \A p \in Paths : p # OpAt.target => install'[p] = install[p],
           NEW i \in 1 .. Len(Ops(cur)), i # idx
    PROVE  install'[Op(cur, i).target] = install[Op(cur, i).target]
<1>1. /\ cur \in TxIds /\ plans[cur] # NoPlan /\ Ops(cur) \in Seq(Operation)
      /\ install \in [Paths -> File] /\ OpAt.target \in Paths
  BY WorkingFacts, ActiveRecord DEF SafetyInv, IndInv, TypeOK
<1>2. Op(cur, i).target \in Paths
  BY <1>1, OpType DEF SafetyInv
<1>3. Op(cur, i).target # OpAt.target
  BY <1>1, LenProperties
     DEF SafetyInv, DiskEvidence, PlansSound, DistinctTargets, Op, Ops, OpAt
<1>4. QED
  BY <1>1, <1>2, <1>3

(* The compare-and-swap of applyOne. *)
LEMMA CommitSafe ==
    ASSUME SafetyInv, Next, IndInv', NEW o \in Outcomes, Commit(o)
    PROVE  DiskEvidence' /\ PointEvidence'
<1>1. /\ pc = "commit" /\ pc' \in {"applyCheck", "applyFailed"} /\ Swap(OpAt.data, o)
      /\ UNCHANGED <<durable, ghosts, cur, idx, rec, result>>
  BY DEF Commit, Continue, Goto
<1>2. /\ idx \in 1 .. Len(Ops(cur)) /\ Len(Ops(cur)) \in Nat
      /\ Sound(cur, idx, rec) /\ rec = records[cur][idx]
      /\ rec.applyState = "Intent" /\ rec.rollbackState = "NotStarted"
      /\ rec.original # Missing => rec.backupState = "Durable"
  BY <1>1, WorkingFacts DEF SafetyInv, IndInv, PointInv, Position, PointEvidence, InMemory, PCs
<1>3. pc \in ActivePcs
  BY <1>1 DEF PCs
<1>a. /\ \A p \in Paths : p # OpAt.target => install'[p] = install[p]
      /\ install'[OpAt.target] \in {install[OpAt.target], OpAt.data}
  BY <1>1, <1>2, <1>3, ActiveRecord, SwapChanges DEF SafetyInv
<1>4. DiskEvidence'
  BY <1>1, <1>2, <1>3, <1>a, DiskSwap DEF SafetyInv
<1>5. \A i \in 1 .. idx - 1 : Done(i)'
  <2> TAKE i \in 1 .. idx - 1
  <2>1. i \in 1 .. Len(Ops(cur)) /\ i # idx
    BY <1>2
  <2>2. install'[Op(cur, i).target] = install[Op(cur, i).target]
    BY <1>2, <1>3, <1>a, <2>1, SwapOthers
  <2>3. QED
    BY <1>1, <2>2, DoneKept DEF durable, ghosts
<1>6. InMemory'
  BY <1>1, <1>2 DEF InMemory, Sound, Follows, Op, Ops, AlreadyApplied, durable
<1>7. Expectation'
  BY <1>1 DEF Expectation
<1>8. QED
  BY <1>1, <1>4, <1>5, <1>6, <1>7, PointApply DEF SafetyInv

(* The record is completed only when the planned file is seen in place. *)
LEMMA ApplyCheckSafe ==
    ASSUME SafetyInv, Next, IndInv', NEW o \in Outcomes, ApplyCheck(o)
    PROVE  DiskEvidence' /\ PointEvidence'
<1> DEFINE r == [rec EXCEPT !.applyState = "Complete"]
<1>1. /\ pc = "applyCheck" /\ install[OpAt.target] = OpAt.data /\ WriteOperation(r, o)
      /\ UNCHANGED <<install, backup, plans, summary, active, terminal, ghosts>>
      /\ UNCHANGED <<cur, result>>
      /\ o = "ok" => pc' = "apply" /\ idx' = idx + 1
      /\ o # "ok" => pc' = "applyFailed" /\ rec' = r /\ idx' = idx
  BY DEF ApplyCheck, Continue, Proceed, Goto
<1>2. /\ idx \in 1 .. Len(Ops(cur)) /\ rec \in Record
      /\ Sound(cur, idx, rec) /\ rec = records[cur][idx]
      /\ rec.applyState = "Intent" /\ rec.rollbackState = "NotStarted"
  BY <1>1 DEF SafetyInv, IndInv, PointInv, Position, PointEvidence, InMemory
<1>3. /\ r \in Record /\ r.original = rec.original /\ r.backupState = rec.backupState
      /\ r.rollbackState = "NotStarted" /\ r.applyState = "Complete"
  BY <1>2 DEF Record
<1> HIDE DEF r
<1>4. Sound(cur, idx, r) /\ Follows(r, records[cur][idx])
  BY <1>2, <1>3 DEF Sound, AlreadyApplied, Follows
<1>5. /\ DiskEvidence'
      /\ \A i \in 1 .. Len(Ops(cur)) : i # idx => records'[cur][i] = records[cur][i]
      /\ records'[cur][idx] = IF o = "lost" THEN records[cur][idx] ELSE r
  BY <1>1, <1>2, <1>3, <1>4, ActiveWrite
<1>6. CASE o = "ok"
  <2>1. \A i \in 1 .. idx - 1 : Done(i)'
    BY <1>1, <1>2, <1>5, DoneKept DEF ghosts
  <2>2. PICK k : k = idx
    OBVIOUS
  <2>3. Done(k)'
    BY <1>1, <1>3, <1>5, <1>6, <2>2 DEF Done, Applied, Holds, Op, Ops, OpAt
  <2>4. \A i \in 1 .. idx : Done(i)'
    BY <1>2, <2>1, <2>2, <2>3
  <2>5. (\A i \in 1 .. idx - 1 : Done(i))'
    BY <1>1, <1>2, <1>6, <2>4
  <2>6. InMemory' /\ Expectation'
    BY <1>1, <1>6 DEF InMemory, Expectation
  <2>7. QED
    BY <1>1, <1>5, <1>6, <2>5, <2>6, PointApply DEF SafetyInv
<1>7. CASE o # "ok"
  <2>1. Sound(cur, idx, rec)' /\ Follows(rec, records[cur][idx])'
    BY <1>1, <1>2, <1>3, <1>4, <1>5, <1>7 DEF Sound, Op, Ops, AlreadyApplied, Follows
  <2>2. InMemory' /\ Expectation'
    BY <1>1, <1>7, <2>1 DEF InMemory, Expectation
  <2>3. QED
    BY <1>1, <1>5, <1>7, <2>2, PointApply DEF SafetyInv
<1>8. QED
  BY <1>6, <1>7

(* The planned file is not in place after the swap. *)
LEMMA ApplyCheckFailedSafe ==
    ASSUME SafetyInv, Next, IndInv', NEW o \in Outcomes, ApplyCheckFailed(o)
    PROVE  DiskEvidence' /\ PointEvidence'
<1>1. /\ pc = "applyCheck" /\ pc' = "applyFailed"
      /\ UNCHANGED <<install, durable, ghosts, cur, idx, rec, result>>
  BY DEF ApplyCheckFailed, Continue, Goto
<1>2. DiskEvidence'
  BY <1>1, DiskKept DEF SafetyInv, durable, ghosts
<1>3. Sound(cur, idx, rec) /\ rec = records[cur][idx]
  BY <1>1 DEF SafetyInv, PointEvidence, InMemory
<1>4. InMemory'
  BY <1>1, <1>3 DEF InMemory, Sound, Follows, Op, Ops, AlreadyApplied, durable
<1>5. QED
  BY <1>1, <1>2, <1>4, PointApply DEF SafetyInv, Expectation

(* The failure is noted in the operation's record. *)
LEMMA FailApplySafe ==
    ASSUME SafetyInv, Next, IndInv', NEW o \in Outcomes, FailApply(o)
    PROVE  DiskEvidence' /\ PointEvidence'
<1> DEFINE r == [rec EXCEPT !.error = TRUE]
<1>1. /\ pc = "applyFailed" /\ WriteOperation(r, o)
      /\ UNCHANGED <<install, backup, plans, summary, active, terminal, ghosts>>
      /\ pc' = "markRollback" /\ result' = result
  BY DEF FailApply, Proceed, Goto
<1>2. /\ idx \in 1 .. Len(Ops(cur)) /\ rec \in Record
      /\ Sound(cur, idx, rec) /\ Follows(rec, records[cur][idx])
  BY <1>1 DEF SafetyInv, IndInv, PointInv, Position, PointEvidence, InMemory
<1>3. r \in Record /\ Sound(cur, idx, r) /\ Follows(r, records[cur][idx])
  BY <1>2 DEF Record, Sound, AlreadyApplied, Follows
<1>4. DiskEvidence'
  BY <1>1, <1>2, <1>3, ActiveWrite
<1>5. QED
  BY <1>1, <1>4, PointQuiet DEF SafetyInv

(* Points after every operation was applied. *)
LEMMA PointInstalled ==
    ASSUME PointEvidence, pc # "idle", UNCHANGED result, Installed(cur)',
           pc' \in LaunchPcs \union {"restart", "complete", "publish"}
    PROVE  PointEvidence'
BY SuccessKept DEF PointEvidence, PreparedAccounted, InMemory, Walk, Expectation

(* All operations are done. *)
LEMMA PersistFilesAppliedSafe ==
    ASSUME SafetyInv, Next, IndInv', NEW o \in Outcomes, PersistFilesApplied(o)
    PROVE  DiskEvidence' /\ PointEvidence'
<1> DEFINE s == [summary[cur] EXCEPT !.fileState = "FilesApplied"]
<1>1. /\ pc = "apply" /\ idx > Len(Ops(cur)) /\ WriteSummary(s, o)
      /\ UNCHANGED <<install, backup, plans, records, active, terminal, ghosts, cur, result>>
      /\ pc' = (IF o = "ok" THEN "restart" ELSE "markRollback")
  BY DEF PersistFilesApplied, Proceed, Goto
<1>2. s \in Summary
  BY <1>1, ActiveFacts DEF SafetyInv, Summary, FileStates, PCs
<1>3. idx \in Nat /\ Len(Ops(cur)) \in Nat
  BY <1>1, WorkingFacts DEF SafetyInv, PCs
<1>4. \A i \in 1 .. Len(Ops(cur)) : Done(i)
  BY <1>1, <1>3 DEF SafetyInv, PointEvidence, Walk, Done
<1>5. DiskEvidence'
  BY <1>1, <1>2, <1>4, ActiveSummaryWrite DEF Done, PCs
<1>6. Installed(cur)'
  BY <1>1, <1>4 DEF Done, Installed, Holds, Op, Ops, ghosts
<1>7. QED
  BY <1>1, <1>5, <1>6, PointInstalled, PointQuiet DEF SafetyInv

-----------------------------------------------------------------------------
(* Putting files back. *)

(* The point is one of rollbackAll, and the later operations are undone. *)
LEMMA PointRollback ==
    ASSUME PointEvidence, pc # "idle", UNCHANGED result, pc' \in RollbackPcs,
           InMemory', Expectation',
           summary'[cur'].fileState \in {"RollingBack", "RolledBack"},
           (\A i \in idx + 1 .. Len(Ops(cur)) : Restored(cur, i))'
    PROVE  PointEvidence'
<1>1. Walk'
  BY DEF Walk
<1>2. QED
  BY <1>1, SuccessKept DEF PointEvidence, PreparedAccounted

(* Operations the step does not write. *)
LEMMA RestoredKept ==
    ASSUME SafetyInv, pc \in RollbackPcs, NEW i \in idx + 1 .. Len(Ops(cur)),
           records'[cur][i] = records[cur][i],
           install'[Op(cur, i).target] = install[Op(cur, i).target],
           UNCHANGED <<plans, cur, touched>>
    PROVE  Restored(cur, i)'
BY DEF SafetyInv, PointEvidence, Walk, Restored, Holds, Op, Ops

(* The rollback is announced before any file is put back. *)
LEMMA MarkRollbackSafe ==
    ASSUME SafetyInv, Next, IndInv', NEW o \in Outcomes, MarkRollback(o)
    PROVE  DiskEvidence' /\ PointEvidence'
<1> DEFINE s == [summary[cur] EXCEPT !.fileState = "RollingBack",
                 !.applyError = TRUE, !.rollbackError = FALSE]
<1>1. /\ pc = "markRollback" /\ WriteSummary(s, o)
      /\ UNCHANGED <<install, backup, plans, records, active, terminal, ghosts>>
      /\ IF o = "ok" THEN Proceed("rollback", Len(Ops(cur))) ELSE Return("fail")
  BY DEF MarkRollback
<1>2. s \in Summary /\ s.fileState = "RollingBack"
  BY <1>1, ActiveFacts DEF SafetyInv, Summary, FileStates, PCs
<1>3. DiskEvidence' /\ summary'[cur] = IF o = "lost" THEN summary[cur] ELSE s
  BY <1>1, <1>2, ActiveSummaryWrite DEF PCs
<1>4. CASE o = "ok"
  <2>1. pc' = "rollback" /\ idx' = Len(Ops(cur)) /\ UNCHANGED <<cur, result>>
    BY <1>1, <1>4 DEF Proceed, Goto
  <2>2. (\A i \in idx + 1 .. Len(Ops(cur)) : Restored(cur, i))'
    <3>1. Len(Ops(cur))' = Len(Ops(cur)) /\ Len(Ops(cur)) \in Nat
      BY <1>1, <2>1, WorkingFacts DEF SafetyInv, Ops, PCs
    <3>2. QED
      BY <2>1, <3>1
  <2>3. InMemory' /\ Expectation'
    BY <2>1 DEF InMemory, Expectation
  <2>4. QED
    BY <1>1, <1>2, <1>3, <1>4, <2>1, <2>2, <2>3, PointRollback DEF SafetyInv
<1>5. CASE o # "ok"
  BY <1>1, <1>3, <1>5, PointFail
<1>6. QED
  BY <1>4, <1>5

(* A record is rewritten and the walk goes on to the operation before, its *)
(* file being the original; or the rollback has failed.                    *)
LEMMA WalkBack ==
    ASSUME SafetyInv, Next, IndInv', NEW o, pc \in RollbackPcs, idx \in 1 .. Len(Ops(cur)),
           NEW r \in Record, WriteOperation(r, o),
           install[OpAt.target] = r.original,
           Sound(cur, idx, r), Follows(r, records[cur][idx]),
           IF o = "ok" THEN Proceed("rollback", idx - 1) ELSE Proceed("rollbackFailed", 0),
           UNCHANGED <<install, backup, plans, summary, active, terminal, ghosts>>
    PROVE  DiskEvidence' /\ PointEvidence'
<1>1. /\ DiskEvidence'
      /\ \A i \in 1 .. Len(Ops(cur)) : i # idx => records'[cur][i] = records[cur][i]
      /\ records'[cur][idx] = IF o = "lost" THEN records[cur][idx] ELSE r
  BY ActiveWrite
<1>2. CASE o = "ok"
  <2>1. pc' = "rollback" /\ idx' = idx - 1 /\ UNCHANGED <<cur, result>>
    BY <1>2 DEF Proceed, Goto
  <2>2. Len(Ops(cur))' = Len(Ops(cur)) /\ Len(Ops(cur)) \in Nat /\ idx \in Nat
    BY <2>1, WorkingFacts DEF SafetyInv, Ops, PCs
  <2>3. \A i \in idx + 1 .. Len(Ops(cur)) : Restored(cur, i)'
    <3> TAKE i \in idx + 1 .. Len(Ops(cur))
    <3>1. i \in 1 .. Len(Ops(cur)) /\ i # idx
      BY <2>2
    <3>2. QED
      BY <1>1, <2>1, <3>1, RestoredKept DEF ghosts
  <2>4. PICK k : k = idx
    OBVIOUS
  <2>5. Restored(cur, k)'
    BY <1>1, <1>2, <2>1, <2>4 DEF Restored, Holds, Op, Ops, OpAt
  <2>6. \A i \in idx .. Len(Ops(cur)) : Restored(cur, i)'
    BY <2>2, <2>3, <2>4, <2>5
  <2>7. (\A i \in idx + 1 .. Len(Ops(cur)) : Restored(cur, i))'
    BY <2>1, <2>2, <2>6
  <2>8. InMemory' /\ Expectation' /\ pc # "idle"
    BY <2>1 DEF InMemory, Expectation
  <2>9. summary'[cur'].fileState \in {"RollingBack", "RolledBack"}
    BY <2>1 DEF SafetyInv, PointEvidence, Walk
  <2>10. QED
    BY <1>1, <2>1, <2>7, <2>8, <2>9, PointRollback DEF SafetyInv
<1>3. CASE o # "ok"
  <2>1. pc' = "rollbackFailed" /\ result' = result /\ pc # "idle"
    BY <1>3 DEF Proceed, Goto
  <2>2. QED
    BY <1>1, <2>1, PointQuiet DEF SafetyInv
<1>4. QED
  BY <1>2, <1>3

(* The file is the original already. *)
LEMMA RollbackSkipSafe ==
    ASSUME SafetyInv, Next, IndInv', NEW o \in Outcomes, RollbackSkip(o)
    PROVE  DiskEvidence' /\ PointEvidence'
<1> DEFINE q == records[cur][idx]
           r == [q EXCEPT !.error = FALSE,
                  !.rollbackState = IF q.applyState = "Pending" THEN "NotRequired"
                                    ELSE "Complete"]
<1>1. /\ pc = "rollback" /\ idx > 0 /\ install[OpAt.target] = q.original
      /\ WriteOperation(r, o)
      /\ IF o = "ok" THEN Proceed("rollback", idx - 1) ELSE Proceed("rollbackFailed", 0)
      /\ UNCHANGED <<install, backup, plans, summary, active, terminal, ghosts>>
  BY DEF RollbackSkip
<1>2. idx \in 1 .. Len(Ops(cur))
  BY <1>1, WorkingFacts DEF SafetyInv, IndInv, PointInv, Position, PCs
<1>3. q \in Record /\ Sound(cur, idx, q)
  BY <1>1, <1>2, ActiveRecord DEF PCs
<1>4. /\ r \in Record /\ r.original = q.original /\ r.backupState = q.backupState
      /\ r.applyState = q.applyState
      /\ r.rollbackState = IF q.applyState = "Pending" THEN "NotRequired" ELSE "Complete"
  BY <1>3 DEF Record
<1> HIDE DEF r
<1>5. Sound(cur, idx, r) /\ Follows(r, q)
  BY <1>3, <1>4 DEF Sound, AlreadyApplied, Follows
<1>6. QED
  BY <1>1, <1>2, <1>4, <1>5, WalkBack

(* The file is the original again. *)
LEMMA RestoreCheckSafe ==
    ASSUME SafetyInv, Next, IndInv', NEW o \in Outcomes, RestoreCheck(o)
    PROVE  DiskEvidence' /\ PointEvidence'
<1> DEFINE r == [rec EXCEPT !.rollbackState = "Complete"]
<1>1. /\ pc = "restoreCheck" /\ install[OpAt.target] = rec.original
      /\ WriteOperation(r, o)
      /\ IF o = "ok" THEN Proceed("rollback", idx - 1) ELSE Proceed("rollbackFailed", 0)
      /\ UNCHANGED <<install, backup, plans, summary, active, terminal, ghosts>>
  BY DEF RestoreCheck
<1>2. /\ idx \in 1 .. Len(Ops(cur)) /\ rec \in Record
      /\ Sound(cur, idx, rec) /\ rec = records[cur][idx]
  BY <1>1 DEF SafetyInv, IndInv, PointInv, Position, PointEvidence, InMemory
<1>3. /\ r \in Record /\ r.original = rec.original /\ r.backupState = rec.backupState
      /\ r.applyState = rec.applyState /\ r.rollbackState = "Complete"
  BY <1>2 DEF Record
<1> HIDE DEF r
<1>4. Sound(cur, idx, r) /\ Follows(r, records[cur][idx])
  BY <1>2, <1>3 DEF Sound, AlreadyApplied, Follows
<1>5. QED
  BY <1>1, <1>2, <1>3, <1>4, WalkBack

(* Staying on an operation with its record in memory. *)
LEMMA PointHeld ==
    ASSUME SafetyInv, Next, IndInv', pc \in RollbackPcs, idx \in 1 .. Len(Ops(cur)),
           pc' \in {"restore", "restoreCheck", "rollbackOpFailed"},
           rec' = records'[cur][idx], Sound(cur, idx, rec'), Expectation',
           \A i \in 1 .. Len(Ops(cur)) : i # idx =>
              /\ records'[cur][i] = records[cur][i]
              /\ install'[Op(cur, i).target] = install[Op(cur, i).target],
           UNCHANGED <<backup, plans, summary, cur, idx, result, touched>>
    PROVE  PointEvidence'
<1>1. Len(Ops(cur))' = Len(Ops(cur)) /\ Len(Ops(cur)) \in Nat /\ idx \in Nat
  BY WorkingFacts DEF SafetyInv, Ops, PCs
<1>2. \A i \in idx + 1 .. Len(Ops(cur)) : Restored(cur, i)'
  <2> TAKE i \in idx + 1 .. Len(Ops(cur))
  <2>1. i \in 1 .. Len(Ops(cur)) /\ i # idx
    BY <1>1
  <2>2. QED
    BY <2>1, RestoredKept
<1>3. Sound(cur, idx, rec)'
  BY DEF Sound, Op, Ops, AlreadyApplied
<1>4. InMemory'
  BY <1>3 DEF InMemory
<1>5. summary'[cur'].fileState \in {"RollingBack", "RolledBack"} /\ pc # "idle"
  BY DEF SafetyInv, PointEvidence, Walk
<1>6. QED
  BY <1>1, <1>2, <1>4, <1>5, PointRollback DEF SafetyInv

(* The restoration is journaled before it is made. *)
LEMMA RollbackIntentSafe ==
    ASSUME SafetyInv, Next, IndInv', NEW o \in Outcomes, RollbackIntent(o)
    PROVE  DiskEvidence' /\ PointEvidence'
<1> DEFINE q == records[cur][idx]
           r == [q EXCEPT !.rollbackState = "Intent", !.error = FALSE]
<1>1. /\ pc = "rollback" /\ idx > 0 /\ Restorable /\ WriteOperation(r, o)
      /\ UNCHANGED <<install, backup, plans, summary, active, terminal, ghosts>>
      /\ UNCHANGED <<cur, result>>
      /\ o = "ok" => /\ pc' = "restore" /\ rec' = r /\ seen' = install[OpAt.target]
                     /\ idx' = idx
      /\ o # "ok" => pc' = "rollbackFailed"
  BY DEF RollbackIntent, Continue, Proceed, Goto
<1>2. idx \in 1 .. Len(Ops(cur))
  BY <1>1, WorkingFacts DEF SafetyInv, IndInv, PointInv, Position, PCs
<1>3. q \in Record /\ Sound(cur, idx, q)
  BY <1>1, <1>2, ActiveRecord DEF PCs
<1>4. /\ r \in Record /\ r.original = q.original /\ r.backupState = q.backupState
      /\ r.applyState = q.applyState /\ r.rollbackState = "Intent"
  BY <1>3 DEF Record
<1> HIDE DEF r
<1>5. Sound(cur, idx, r) /\ Follows(r, q)
  BY <1>3, <1>4 DEF Sound, AlreadyApplied, Follows
<1>6. /\ DiskEvidence'
      /\ \A i \in 1 .. Len(Ops(cur)) : i # idx => records'[cur][i] = records[cur][i]
      /\ records'[cur][idx] = IF o = "lost" THEN q ELSE r
  BY <1>1, <1>2, <1>4, <1>5, ActiveWrite
<1>7. CASE o = "ok"
  <2>1. seen' \in {OpAt.data, Missing} /\ OpAt' = OpAt
    BY <1>1, <1>7 DEF Restorable, OpAt, Op, Ops
  <2>2. Expectation'
    BY <1>1, <1>7, <2>1 DEF Expectation
  <2>3. PointEvidence'
    BY <1>1, <1>2, <1>5, <1>6, <1>7, <2>2, PointHeld DEF ghosts
  <2>4. QED
    BY <1>6, <2>3
<1>8. CASE o # "ok"
  BY <1>1, <1>6, <1>8, PointQuiet DEF SafetyInv
<1>9. QED
  BY <1>7, <1>8

(* The operation cannot be undone: its record stays in memory. *)
LEMMA RollbackStuckSafe ==
    ASSUME SafetyInv, Next, IndInv', pc \in RollbackPcs, idx \in 1 .. Len(Ops(cur)),
           rec' = records[cur][idx], pc' = "rollbackOpFailed",
           UNCHANGED <<install, durable, ghosts, cur, idx, result>>
    PROVE  DiskEvidence' /\ PointEvidence'
<1>1. DiskEvidence'
  BY DiskKept DEF SafetyInv, durable, ghosts
<1>2. Sound(cur, idx, rec')
  BY ActiveRecord DEF PCs
<1>3. Expectation'
  BY DEF Expectation
<1>4. PointEvidence'
  BY <1>2, <1>3, PointHeld DEF durable, ghosts
<1>5. QED
  BY <1>1, <1>4

(* The record that the failure of a rollback step keeps in memory. *)
LEMMA HeldRecord ==
    ASSUME SafetyInv, pc \in {"restore", "restoreCheck", "rollbackOpFailed"}
    PROVE  /\ idx \in 1 .. Len(Ops(cur)) /\ rec \in Record
           /\ Sound(cur, idx, rec) /\ rec = records[cur][idx]
BY DEF SafetyInv, IndInv, PointInv, Position, PointEvidence, InMemory

(* The file is neither the original nor one of ours. *)
LEMMA RollbackRejectedSafe ==
    ASSUME SafetyInv, Next, IndInv', NEW o \in Outcomes, RollbackRejected(o)
    PROVE  DiskEvidence' /\ PointEvidence'
<1>1. /\ pc = "rollback" /\ idx > 0 /\ rec' = records[cur][idx] /\ pc' = "rollbackOpFailed"
      /\ UNCHANGED <<install, durable, ghosts, cur, idx, result>>
  BY DEF RollbackRejected, Continue, Goto
<1>2. idx \in 1 .. Len(Ops(cur))
  BY <1>1, WorkingFacts DEF SafetyInv, IndInv, PointInv, Position, PCs
<1>3. QED
  BY <1>1, <1>2, RollbackStuckSafe

(* The backup is not the original, or cannot be read. *)
LEMMA RestoreUnverifiedSafe ==
    ASSUME SafetyInv, Next, IndInv', NEW o \in Outcomes, RestoreUnverified(o)
    PROVE  DiskEvidence' /\ PointEvidence'
<1>1. /\ pc = "restore" /\ rec' = rec /\ pc' = "rollbackOpFailed"
      /\ UNCHANGED <<install, durable, ghosts, cur, idx, result>>
  BY DEF RestoreUnverified, Continue, Goto
<1>2. QED
  BY <1>1, HeldRecord, RollbackStuckSafe

(* The restored file is not seen in place. *)
LEMMA RestoreCheckFailedSafe ==
    ASSUME SafetyInv, Next, IndInv', NEW o \in Outcomes, RestoreCheckFailed(o)
    PROVE  DiskEvidence' /\ PointEvidence'
<1>1. /\ pc = "restoreCheck" /\ rec' = rec /\ pc' = "rollbackOpFailed"
      /\ UNCHANGED <<install, durable, ghosts, cur, idx, result>>
  BY DEF RestoreCheckFailed, Continue, Goto
<1>2. QED
  BY <1>1, HeldRecord, RollbackStuckSafe

(* The records cannot be read. *)
LEMMA RollbackUnloadableSafe ==
    ASSUME SafetyInv, Next, IndInv', NEW o \in Outcomes, RollbackUnloadable(o)
    PROVE  DiskEvidence' /\ PointEvidence'
<1>1. /\ pc = "rollback" /\ pc' = "rollbackFailed"
      /\ UNCHANGED <<install, durable, ghosts, result>>
  BY DEF RollbackUnloadable, Proceed, Goto
<1>2. DiskEvidence'
  BY <1>1, DiskKept DEF SafetyInv, durable, ghosts
<1>3. QED
  BY <1>1, <1>2, PointQuiet DEF SafetyInv

(* The compare-and-swap of rollbackOne. *)
LEMMA RestoreSafe ==
    ASSUME SafetyInv, Next, IndInv', NEW o \in Outcomes, Restore(o)
    PROVE  DiskEvidence' /\ PointEvidence'
<1>1. /\ pc = "restore" /\ pc' \in {"restoreCheck", "rollbackOpFailed"}
      /\ Swap(rec.original, o)
      /\ UNCHANGED <<durable, ghosts, cur, idx, rec, result>>
  BY DEF Restore, Continue, Goto
<1>2. /\ idx \in 1 .. Len(Ops(cur)) /\ Sound(cur, idx, rec) /\ rec = records[cur][idx]
      /\ pc \in ActivePcs /\ pc \in RollbackPcs
  BY <1>1, HeldRecord DEF PCs
<1>3. /\ \A p \in Paths : p # OpAt.target => install'[p] = install[p]
      /\ install'[OpAt.target] \in {install[OpAt.target], rec.original}
  BY <1>1, <1>2, ActiveRecord, SwapChanges DEF SafetyInv
<1>4. DiskEvidence'
  BY <1>1, <1>2, <1>3, DiskSwap DEF SafetyInv
<1>5. \A i \in 1 .. Len(Ops(cur)) : i # idx =>
         install'[Op(cur, i).target] = install[Op(cur, i).target]
  BY <1>2, <1>3, SwapOthers
<1>6. Expectation'
  BY <1>1 DEF Expectation
<1>7. PointEvidence'
  BY <1>1, <1>2, <1>5, <1>6, PointHeld DEF durable, ghosts
<1>8. QED
  BY <1>4, <1>7

(* The failure is noted in the operation's record. *)
LEMMA MarkRollbackOperationFailedSafe ==
    ASSUME SafetyInv, Next, IndInv', NEW o \in Outcomes, MarkRollbackOperationFailed(o)
    PROVE  DiskEvidence' /\ PointEvidence'
<1> DEFINE r == [rec EXCEPT !.rollbackState = "Failed", !.error = TRUE]
<1>1. /\ pc = "rollbackOpFailed" /\ WriteOperation(r, o)
      /\ UNCHANGED <<install, backup, plans, summary, active, terminal, ghosts>>
      /\ pc' = "rollbackFailed" /\ result' = result
  BY DEF MarkRollbackOperationFailed, Proceed, Goto
<1>2. /\ idx \in 1 .. Len(Ops(cur)) /\ rec \in Record
      /\ Sound(cur, idx, rec) /\ rec = records[cur][idx]
  BY <1>1, HeldRecord
<1>3. r \in Record /\ Sound(cur, idx, r) /\ Follows(r, records[cur][idx])
  BY <1>2 DEF Record, Sound, AlreadyApplied, Follows
<1>4. DiskEvidence'
  BY <1>1, <1>2, <1>3, ActiveWrite
<1>5. QED
  BY <1>1, <1>4, PointQuiet DEF SafetyInv

(* A failed recovery ends the invocation. *)
LEMMA RecordRollbackFailureSafe ==
    ASSUME SafetyInv, Next, IndInv', NEW o \in Outcomes, RecordRollbackFailure(o)
    PROVE  DiskEvidence' /\ PointEvidence'
<1> DEFINE s == [summary[cur] EXCEPT !.fileState = "RecoveryFailed", !.rollbackError = TRUE]
<1>1. /\ pc = "rollbackFailed" /\ WriteSummary(s, o) /\ Return("fail")
      /\ UNCHANGED <<install, backup, plans, records, active, terminal, ghosts>>
  BY DEF RecordRollbackFailure
<1>2. s \in Summary /\ s.fileState = "RecoveryFailed"
  BY <1>1, ActiveFacts DEF SafetyInv, Summary, FileStates, PCs
<1>3. DiskEvidence'
  BY <1>1, <1>2, ActiveSummaryWrite DEF PCs
<1>4. QED
  BY <1>1, <1>3, PointFail

(* The point before active.json is cleared. *)
LEMMA PointClear ==
    ASSUME PointEvidence, pc # "idle", UNCHANGED result, pc' = "clear",
           \/ /\ summary'[cur'].fileState = "Complete" /\ Installed(cur)'
              /\ terminal' # NoTerminal /\ terminal'.tx = cur'
           \/ /\ summary'[cur'].fileState = "RolledBack"
              /\ (\A i \in 1 .. Len(Ops(cur)) : Restored(cur, i))'
    PROVE  PointEvidence'
BY SuccessKept DEF PointEvidence, PreparedAccounted, InMemory, Walk, Expectation

(* All operations are undone. *)
LEMMA PersistRolledBackSafe ==
    ASSUME SafetyInv, Next, IndInv', NEW o \in Outcomes, PersistRolledBack(o)
    PROVE  DiskEvidence' /\ PointEvidence'
<1> DEFINE s == [summary[cur] EXCEPT !.fileState = "RolledBack", !.rollbackError = FALSE]
<1>1. /\ pc = "rollback" /\ idx = 0
      /\ UNCHANGED <<install, backup, plans, records, active, terminal, ghosts>>
  BY DEF PersistRolledBack
<1>2. s \in Summary /\ s.fileState = "RolledBack"
  BY <1>1, ActiveFacts DEF SafetyInv, Summary, FileStates, PCs
<1>3. \A i \in 1 .. Len(Ops(cur)) : Restored(cur, i)
  BY <1>1 DEF SafetyInv, PointEvidence, Walk
<1>4. cur' = cur => (\A i \in 1 .. Len(Ops(cur)) : Restored(cur, i))'
  BY <1>1, <1>3 DEF Restored, Holds, Op, Ops, ghosts
<1>5. CASE summary[cur].fileState = "RolledBack"
  <2>1. summary' = summary /\ pc' = "clear" /\ UNCHANGED <<cur, result>>
    BY <1>5 DEF PersistRolledBack, Proceed, Goto
  <2>2. DiskEvidence'
    BY <1>1, <2>1, DiskKept DEF SafetyInv, ghosts
  <2>3. QED
    BY <1>1, <1>4, <1>5, <2>1, <2>2, PointClear DEF SafetyInv
<1>6. CASE summary[cur].fileState # "RolledBack"
  <2>1. WriteSummary(s, o) /\ IF o = "ok" THEN Proceed("clear", 0) ELSE Return("fail")
    BY <1>6 DEF PersistRolledBack
  <2>2. DiskEvidence' /\ summary'[cur] = IF o = "lost" THEN summary[cur] ELSE s
    BY <1>1, <1>2, <2>1, ActiveSummaryWrite DEF PCs
  <2>3. CASE o = "ok"
    <3>1. pc' = "clear" /\ UNCHANGED <<cur, result>>
      BY <2>1, <2>3 DEF Proceed, Goto
    <3>2. QED
      BY <1>1, <1>2, <1>4, <2>2, <2>3, <3>1, PointClear DEF SafetyInv
  <2>4. CASE o # "ok"
    BY <2>1, <2>2, <2>4, PointFail
  <2>5. QED
    BY <2>3, <2>4
<1>7. QED
  BY <1>5, <1>6

-----------------------------------------------------------------------------
(* Starting an invocation, and recovery. *)

(* A step that leaves the disk alone and fails. *)
LEMMA ReadFails ==
    ASSUME SafetyInv, Return("fail"), UNCHANGED <<install, durable, touched>>
    PROVE  DiskEvidence' /\ PointEvidence'
BY DiskKept, PointFail DEF SafetyInv, durable

(* The lock is taken and the journal is looked at. *)
LEMMA InvokeSafe ==
    ASSUME SafetyInv, Next, IndInv', NEW r \in Request, Invoke(r)
    PROVE  DiskEvidence' /\ PointEvidence'
<1>1. /\ pc' \in {"recover", "dispatch"} /\ result' = "none"
      /\ UNCHANGED <<install, durable, ghosts>>
  BY DEF Invoke
<1>2. DiskEvidence'
  BY <1>1, DiskKept DEF SafetyInv, durable, ghosts
<1>3. PointEvidence'
  BY <1>1 DEF PointEvidence, PreparedAccounted, InMemory, Walk, Expectation, Success,
              SuccessMeansInstalled
<1>4. QED
  BY <1>2, <1>3

(* What verifyAppliedState finds in place is installed. *)
LEMMA VerifiedInstalled ==
    ASSUME NEW t, VerifyAppliedState(t)
    PROVE  Installed(t)
BY DEF VerifyAppliedState, VerifiedOp, Installed, Holds

(* recover() goes where the evidence allows. *)
LEMMA RecoverSafe ==
    ASSUME SafetyInv, Next, IndInv', NEW o \in Outcomes, Recover(o)
    PROVE  DiskEvidence' /\ PointEvidence'
<1> DEFINE v == o = "ok" /\ VerifyAppliedState(cur)
<1>1. /\ pc = "recover" /\ UNCHANGED <<install, durable, ghosts>>
      /\ IF RecoverRejected THEN Return("fail") ELSE Proceed(RecoverTarget(v), Len(Ops(cur)))
  BY DEF Recover
<1>2. CASE RecoverRejected
  BY <1>1, <1>2, ReadFails DEF ghosts
<1>3. CASE ~RecoverRejected
  <2>1. /\ pc' = RecoverTarget(v) /\ idx' = Len(Ops(cur)) /\ pc # "idle"
        /\ UNCHANGED <<cur, result>>
    BY <1>1, <1>3 DEF Proceed, Goto
  <2>2. DiskEvidence'
    BY <1>1, DiskKept DEF SafetyInv, durable, ghosts
  <2>3. \/ pc' \in {"terminalFailed", "markRollback"}
        \/ pc' \in {"publish", "restart"} /\ v
        \/ pc' = "rollback" /\ summary[cur].fileState = "RolledBack"
    BY <2>1 DEF RecoverTarget
  <2>4. CASE pc' \in {"terminalFailed", "markRollback"}
    BY <2>1, <2>2, <2>4, PointQuiet DEF SafetyInv
  <2>5. CASE pc' \in {"publish", "restart"} /\ v
    <3>1. Installed(cur)
      BY <2>5, VerifiedInstalled
    <3>2. Installed(cur)'
      BY <1>1, <2>1, <3>1 DEF Installed, Holds, Op, Ops, durable, ghosts
    <3>3. QED
      BY <2>1, <2>2, <2>5, <3>2, PointInstalled DEF SafetyInv
  <2>6. CASE pc' = "rollback" /\ summary[cur].fileState = "RolledBack"
    <3>1. Len(Ops(cur))' = Len(Ops(cur)) /\ Len(Ops(cur)) \in Nat
      BY <1>1, <2>1, WorkingFacts DEF SafetyInv, Ops, durable, PCs
    <3>2. (\A i \in idx + 1 .. Len(Ops(cur)) : Restored(cur, i))'
      BY <2>1, <3>1
    <3>3. InMemory' /\ Expectation'
      BY <2>6 DEF InMemory, Expectation
    <3>4. QED
      BY <1>1, <2>1, <2>2, <2>6, <3>2, <3>3, PointRollback DEF SafetyInv, durable
  <2>7. QED
    BY <2>3, <2>4, <2>5, <2>6
<1>4. QED
  BY <1>2, <1>3

(* A transaction that cannot be reconciled keeps its state. *)
LEMMA RecordTerminalReconciliationFailureSafe ==
    ASSUME SafetyInv, Next, IndInv', NEW o \in Outcomes,
           RecordTerminalReconciliationFailure(o)
    PROVE  DiskEvidence' /\ PointEvidence'
<1> DEFINE s == TerminalFailure(summary[cur])
<1>1. /\ pc = "terminalFailed" /\ WriteSummary(s, o) /\ Return("fail")
      /\ UNCHANGED <<install, backup, plans, records, active, terminal, ghosts>>
  BY DEF RecordTerminalReconciliationFailure
<1>2. summary[cur] \in Summary /\ cur \in TxIds
  BY <1>1, ActiveFacts, WorkingFacts DEF SafetyInv, PCs
<1>3. s \in Summary /\ s.fileState = summary[cur].fileState
  BY <1>2 DEF TerminalFailure, Summary, RestartStates
<1> HIDE DEF s
<1>4. s.fileState \in {"FilesApplied", "Complete"} =>
         \A i \in 1 .. Len(Ops(cur)) : Applied(cur, i)
  BY <1>2, <1>3, SentinelAssumption DEF SafetyInv, DiskEvidence, SummariesSound
<1>5. DiskEvidence'
  BY <1>1, <1>3, <1>4, ActiveSummaryWrite DEF PCs
<1>6. QED
  BY <1>1, <1>5, PointFail

-----------------------------------------------------------------------------
(* Restart, completion and receipt. *)

(* Applied files and records, at the points after the last operation. *)
LEMMA FinishFacts ==
    ASSUME SafetyInv, pc \in LaunchPcs \union {"restart", "complete", "publish"}
    PROVE  /\ cur \in TxIds /\ summary[cur] \in Summary /\ pc \in ActivePcs
           /\ \A i \in 1 .. Len(Ops(cur)) : Applied(cur, i)
           /\ Installed(cur)
<1>1. cur \in TxIds /\ summary[cur] \in Summary /\ pc \in ActivePcs
  BY ActiveFacts, WorkingFacts DEF SafetyInv, PCs
<1>2. summary[cur].fileState \in {"FilesApplied", "Complete"}
  BY DEF SafetyInv, IndInv, PointInv, Progress
<1>3. QED
  BY <1>1, <1>2, SentinelAssumption
     DEF SafetyInv, DiskEvidence, SummariesSound, PointEvidence, Walk

(* Installed files stay installed. *)
LEMMA InstalledKept ==
    ASSUME Installed(cur), UNCHANGED <<install, touched, plans, cur>>
    PROVE  Installed(cur)'
BY DEF Installed, Holds, Op, Ops

(* The intent to restart. *)
LEMMA RestartIntentSafe ==
    ASSUME SafetyInv, Next, IndInv', NEW o \in Outcomes, RestartIntent(o)
    PROVE  DiskEvidence' /\ PointEvidence'
<1> DEFINE s == [summary[cur] EXCEPT !.restartState = "Intent"]
<1>1. /\ pc = "restart" /\ WriteSummary(s, o)
      /\ UNCHANGED <<install, backup, plans, records, active, terminal, ghosts>>
      /\ IF o = "ok" THEN Proceed("launch", 0) ELSE Return("fail")
  BY DEF RestartIntent
<1>2. s \in Summary
  BY <1>1, FinishFacts DEF Summary, RestartStates
<1>3. DiskEvidence'
  BY <1>1, <1>2, FinishFacts, ActiveSummaryWrite
<1>4. CASE o = "ok"
  <2>1. pc' = "launch" /\ UNCHANGED <<cur, result>>
    BY <1>1, <1>4 DEF Proceed, Goto
  <2>2. QED
    BY <1>1, <1>3, <2>1, FinishFacts, InstalledKept, PointInstalled DEF SafetyInv, ghosts
<1>5. CASE o # "ok"
  BY <1>1, <1>3, <1>5, PointFail
<1>6. QED
  BY <1>4, <1>5

(* No restart is due. *)
LEMMA RestartSettledSafe ==
    ASSUME SafetyInv, Next, IndInv', RestartSettled
    PROVE  DiskEvidence' /\ PointEvidence'
<1>1. /\ pc = "restart" /\ pc' = "complete"
      /\ UNCHANGED <<install, durable, ghosts, cur, result>>
  BY DEF RestartSettled, Proceed, Goto
<1>2. DiskEvidence'
  BY <1>1, DiskKept DEF SafetyInv, durable, ghosts
<1>3. QED
  BY <1>1, <1>2, FinishFacts, InstalledKept, PointInstalled DEF SafetyInv, durable, ghosts

(* The application is started, or cannot be. *)
LEMMA LaunchRestartSafe ==
    ASSUME SafetyInv, Next, IndInv', NEW o \in Outcomes, LaunchRestart(o)
    PROVE  DiskEvidence' /\ PointEvidence'
<1>1. /\ pc = "launch" /\ pc' \in {"launched", "launchFailed"}
      /\ UNCHANGED <<install, durable, touched, cur, result>>
  BY DEF LaunchRestart, Proceed, Goto
<1>2. DiskEvidence'
  BY <1>1, DiskKept DEF SafetyInv, durable
<1>3. QED
  BY <1>1, <1>2, FinishFacts, InstalledKept, PointInstalled DEF SafetyInv, durable

(* The summary is completed. *)
LEMMA PersistCompletionSafe ==
    ASSUME SafetyInv, Next, IndInv', NEW o \in Outcomes, NEW stamp \in Stamps,
           PersistCompletion(stamp, o)
    PROVE  DiskEvidence' /\ PointEvidence'
<1> DEFINE old == summary[cur]
           f == FinalRestartState
           e == f \in {"Failed", "OutcomeUnknown"}
           s == [old EXCEPT !.fileState = "Complete", !.restartState = f, !.restartError = e,
                 !.completedAt = IF @ = NoStamp THEN stamp ELSE @]
<1>1. /\ pc \in {"complete", "launched", "launchFailed"} /\ WriteSummary(s, o)
      /\ UNCHANGED <<install, backup, plans, records, active, terminal, ghosts>>
      /\ IF o = "ok" THEN Proceed("publish", 0) ELSE Return("fail")
  BY DEF PersistCompletion
<1>2. old \in Summary /\ e \in BOOLEAN
  BY <1>1, FinishFacts
<1>3. f \in RestartStates
  BY <1>2 DEF FinalRestartState, Summary, RestartStates
<1> HIDE DEF e, f
<1>4. s \in Summary
  BY <1>2, <1>3 DEF Summary, FileStates
<1> HIDE DEF s
<1>5. DiskEvidence'
  BY <1>1, <1>4, FinishFacts, ActiveSummaryWrite
<1>6. CASE o = "ok"
  <2>1. pc' = "publish" /\ UNCHANGED <<cur, result>>
    BY <1>1, <1>6 DEF Proceed, Goto
  <2>2. QED
    BY <1>1, <1>5, <2>1, FinishFacts, InstalledKept, PointInstalled DEF SafetyInv, ghosts
<1>7. CASE o # "ok"
  BY <1>1, <1>5, <1>7, PointFail
<1>8. QED
  BY <1>6, <1>7

(* The receipt is written once the summary is complete. *)
LEMMA PublishTerminalSafe ==
    ASSUME SafetyInv, Next, IndInv', NEW o \in Outcomes, PublishTerminal(o)
    PROVE  DiskEvidence' /\ PointEvidence'
<1> DEFINE receipt == [tx |-> cur, completedAt |-> summary[cur].completedAt]
<1>1. /\ pc = "publish" /\ terminal' = IF o = "lost" THEN terminal ELSE receipt
      /\ UNCHANGED <<install, backup, plans, summary, records, active, ghosts>>
      /\ IF o = "ok" THEN Proceed("clear", 0) ELSE Return("fail")
  BY DEF PublishTerminal
<1>2. cur \in TxIds /\ summary[cur] # NoSummary /\ summary[cur].fileState = "Complete"
  BY <1>1, FinishFacts, SentinelAssumption DEF SafetyInv, IndInv, PointInv, Progress
<1>3. DiskEvidence'
  BY <1>1, <1>2, DiskTerminal DEF SafetyInv
<1>4. CASE o = "ok"
  <2>1. pc' = "clear" /\ UNCHANGED <<cur, result>> /\ terminal' = receipt
    BY <1>1, <1>4 DEF Proceed, Goto
  <2>2. terminal' # NoTerminal /\ terminal'.tx = cur
    <3>1. receipt \in Terminal
      BY <1>1, <1>2, FinishFacts DEF Terminal, Summary
    <3>2. QED
      BY <2>1, <3>1, SentinelAssumption
  <2>3. Installed(cur)'
    BY <1>1, <2>1, FinishFacts, InstalledKept DEF ghosts
  <2>4. QED
    BY <1>1, <1>2, <1>3, <2>1, <2>2, <2>3, PointClear DEF SafetyInv
<1>5. CASE o # "ok"
  BY <1>1, <1>3, <1>5, PointFail
<1>6. QED
  BY <1>4, <1>5

(* Reporting success is what SuccessMeansInstalled asks for. *)
LEMMA PointSucceeds ==
    ASSUME NEW r, Return(r), r = "ok" => SuccessMeansInstalled'
    PROVE  PointEvidence'
BY DEF Return, PointEvidence, PreparedAccounted, InMemory, Walk, Expectation, Success,
       SuccessMeansInstalled

(* A completed transaction that does not report a restart failure. *)
LEMMA RestartDone ==
    ASSUME NEW t, ValidSummary(t), summary[t].fileState = "Complete", ~RestartFailed(t)
    PROVE  summary[t].restartState \in {"NotRequested", "Launched"}
BY AllowedStates DEF ValidSummary, ConsistentSummary, RestartFailed

(* active.json is removed after everything else. *)
LEMMA ClearActiveSafe ==
    ASSUME SafetyInv, Next, IndInv', NEW o \in Outcomes, ClearActive(o)
    PROVE  DiskEvidence' /\ PointEvidence'
<1> DEFINE r == IF o = "ok" /\ summary[cur].fileState = "Complete" /\ ~RestartFailed(cur)
                THEN "ok" ELSE "fail"
<1>1. /\ pc = "clear" /\ active' = (IF o = "lost" THEN active ELSE NoTx)
      /\ UNCHANGED <<install, backup, plans, summary, records, terminal, ghosts>>
      /\ \/ pc' = "dispatch" /\ result' = result
         \/ Return(r)
  BY DEF ClearActive
<1>2. DiskEvidence'
  BY <1>1, DiskActive DEF SafetyInv
<1>3. r = "ok" => SuccessMeansInstalled'
  <2> SUFFICES ASSUME r = "ok" PROVE SuccessMeansInstalled'
    OBVIOUS
  <2>1. o = "ok" /\ summary[cur].fileState = "Complete" /\ ~RestartFailed(cur)
    OBVIOUS
  <2>2. Installed(cur) /\ terminal # NoTerminal /\ terminal.tx = cur
    BY <1>1, <2>1 DEF SafetyInv, PointEvidence, Walk
  <2>3. cur \in TxIds /\ summary[cur] # NoSummary
    BY <1>1, ActiveFacts, WorkingFacts, SentinelAssumption DEF SafetyInv, PCs
  <2>4. summary[cur].restartState \in {"NotRequested", "Launched"}
    BY <2>1, <2>3, RestartDone DEF SafetyInv, DiskEvidence, SummariesSound
  <2>5. QED
    BY <1>1, <2>1, <2>2, <2>4 DEF SuccessMeansInstalled, Installed, Holds, Op, Ops, ghosts
<1>4. PointEvidence'
  <2>1. CASE pc' = "dispatch" /\ result' = result
    BY <1>1, <2>1, PointQuiet DEF SafetyInv
  <2>2. CASE Return(r)
    BY <1>3, <2>2, PointSucceeds
  <2>3. QED
    BY <1>1, <2>1, <2>2
<1>5. QED
  BY <1>2, <1>4

(* A receipt that answers the request is verified again. *)
LEMMA ReplayTerminalSafe ==
    ASSUME SafetyInv, Next, IndInv', ReplayTerminal
    PROVE  DiskEvidence' /\ PointEvidence'
<1> DEFINE r == IF /\ TrustedTerminal /\ VerifyAppliedState(terminal.tx)
                   /\ ~RestartFailed(terminal.tx)
                THEN "ok" ELSE "fail"
<1>1. pc = "dispatch" /\ Return(r) /\ UNCHANGED <<install, durable, ghosts>>
  BY DEF ReplayTerminal
<1>2. DiskEvidence'
  BY <1>1, DiskKept DEF SafetyInv, durable, ghosts
<1>3. r = "ok" => SuccessMeansInstalled'
  <2> SUFFICES ASSUME r = "ok" PROVE SuccessMeansInstalled'
    OBVIOUS
  <2>1. TrustedTerminal /\ VerifyAppliedState(terminal.tx) /\ ~RestartFailed(terminal.tx)
    OBVIOUS
  <2>2. Installed(terminal.tx)
    BY <2>1, VerifiedInstalled
  <2>3. summary[terminal.tx].restartState \in {"NotRequested", "Launched"}
    BY <2>1, RestartDone DEF TrustedTerminal
  <2>4. active = NoTx
    BY <1>1 DEF SafetyInv, IndInv, PointInv, WorkingTransaction
  <2>5. QED
    BY <1>1, <2>1, <2>2, <2>3, <2>4
       DEF TrustedTerminal, SuccessMeansInstalled, Installed, Holds, Op, Ops, durable, ghosts
<1>4. QED
  BY <1>1, <1>2, <1>3, PointSucceeds

-----------------------------------------------------------------------------
(* The environment. *)

(* What is claimed of a path another program did not write stays true. *)
LEMMA HoldsForeign ==
    ASSUME IndInv, NEW p \in Paths, NEW file, NEW how \in {"replaced", "edited"},
           ForeignWrite(p, file, how), NEW q \in Paths, NEW f, Holds(q, f)
    PROVE  Holds(q, f)'
BY DEF IndInv, TypeOK, ForeignWrite, Holds

(* Another program writes a managed file. *)
LEMMA ForeignWriteSafe ==
    ASSUME SafetyInv, Next, IndInv', NEW p \in ForeignPaths, NEW file \in File,
           NEW how \in {"replaced", "edited"}, ForeignWrite(p, file, how)
    PROVE  DiskEvidence' /\ PointEvidence'
<1>1. p \in Paths
  BY EnvironmentAssumption
<1>2. UNCHANGED <<durable, pc, req, cur, idx, rec, seen, result>>
  BY DEF ForeignWrite
<1>3. DiskEvidence'
  BY <1>1, DiskForeign DEF SafetyInv
<1>4. \A q \in Paths : \A f : Holds(q, f) => Holds(q, f)'
  BY <1>1, HoldsForeign DEF SafetyInv
<1>5. \A t \in TxIds : \A i : i \in 1 .. Len(records[t]) /\ Restored(t, i) => Restored(t, i)'
  <2> SUFFICES ASSUME NEW t \in TxIds, NEW i \in 1 .. Len(records[t]), Restored(t, i)
               PROVE  Restored(t, i)'
    OBVIOUS
  <2>1. PICK q, f : q = Op(t, i).target /\ f = records[t][i].original
    OBVIOUS
  <2>2. q \in Paths
    BY <2>1, RecordType DEF SafetyInv, DiskEvidence
  <2>3. Holds(q, f)'
    BY <1>4, <2>1, <2>2 DEF Restored
  <2>4. QED
    BY <1>2, <2>1, <2>3 DEF Restored, Holds, Op, Ops, durable
<1>6. \A t \in TxIds : \A i : plans[t] # NoPlan /\ i \in 1 .. Len(Ops(t)) =>
         (Holds(Op(t, i).target, Op(t, i).data) => Holds(Op(t, i).target, Op(t, i).data)')
  <2> SUFFICES ASSUME NEW t \in TxIds, NEW i \in 1 .. Len(Ops(t)), plans[t] # NoPlan,
                      Holds(Op(t, i).target, Op(t, i).data)
               PROVE  Holds(Op(t, i).target, Op(t, i).data)'
    OBVIOUS
  <2>1. PICK q, f : q = Op(t, i).target /\ f = Op(t, i).data
    OBVIOUS
  <2>2. q \in Paths
    BY <2>1, OpType DEF SafetyInv
  <2>3. Holds(q, f)'
    BY <1>4, <2>1, <2>2
  <2>4. QED
    BY <1>2, <2>1, <2>3 DEF Holds, Op, Ops, durable
<1>7. PreparedAccounted'
  <2> SUFFICES ASSUME pc \in PreparePcs, NEW i \in 1 .. Len(records[cur])
               PROVE  Restored(cur, i)'
    BY <1>2 DEF PreparedAccounted, durable
  <2>1. cur \in TxIds /\ Restored(cur, i)
    BY WorkingFacts DEF SafetyInv, PointEvidence, PreparedAccounted
  <2>2. PICK t \in TxIds : t = cur
    BY <2>1
  <2>3. Restored(t, i)'
    BY <1>5, <2>1, <2>2
  <2>4. QED
    BY <1>2, <2>2, <2>3
<1>8. InMemory'
  BY <1>2 DEF SafetyInv, PointEvidence, InMemory, Sound, Follows, ExistingBackup, OpAt, Op, Ops,
              AlreadyApplied, durable
<1>9. Walk'
  <2>1. pc \in ActivePcs => /\ cur \in TxIds /\ plans[cur] # NoPlan /\ idx \in Nat
                            /\ Len(records[cur]) = Len(Ops(cur)) /\ Len(Ops(cur)) \in Nat
    BY WorkingFacts, ActiveFacts DEF SafetyInv
  <2>2. CASE pc \in ActivePcs
    <3>1. PICK t \in TxIds : t = cur
      BY <2>1, <2>2
    <3>2. \A i \in 1 .. Len(Ops(cur)) :
             /\ Applied(cur, i) => Applied(cur, i)'
             /\ Restored(cur, i) => Restored(cur, i)'
             /\ Holds(Op(cur, i).target, Op(cur, i).data)
                   => Holds(Op(cur, i).target, Op(cur, i).data)'
      BY <1>2, <1>5, <1>6, <2>1, <2>2, <3>1 DEF Applied, Restored, Holds, Op, Ops, durable
    <3>3. Installed(cur) => Installed(cur)'
      BY <1>2, <3>2 DEF Installed, Ops, durable
    <3>4. pc \in {"apply", "commit", "applyCheck"} => (\A i \in 1 .. idx - 1 : Done(i))'
      <4>1. pc \in {"apply", "commit", "applyCheck"} => idx \in 1 .. Len(Ops(cur)) + 1
        BY DEF SafetyInv, IndInv, PointInv, Position
      <4>2. QED
        BY <1>2, <2>1, <2>2, <3>2, <4>1 DEF SafetyInv, PointEvidence, Walk, Done
    <3>5. pc \in RollbackPcs => (\A i \in idx + 1 .. Len(Ops(cur)) : Restored(cur, i))'
      BY <1>2, <2>1, <2>2, <3>2 DEF SafetyInv, PointEvidence, Walk, Ops, durable
    <3>6. (\A i \in 1 .. Len(Ops(cur)) : Restored(cur, i))
             => (\A i \in 1 .. Len(Ops(cur)) : Restored(cur, i))'
      BY <1>2, <3>2 DEF Ops, durable
    <3>7. QED
      BY <1>2, <3>3, <3>4, <3>5, <3>6 DEF SafetyInv, PointEvidence, Walk, Done, durable
  <2>3. CASE pc \notin ActivePcs
    BY <1>2, <2>3 DEF Walk, PCs
  <2>4. QED
    BY <2>2, <2>3
<1>10. Expectation'
  <2> SUFFICES ASSUME pc \in {"commit", "restore"} PROVE Expectation'
    BY <1>2 DEF Expectation
  <2>1. OpAt' = OpAt /\ OpAt.target \in Paths
    <3>1. idx \in 1 .. Len(Ops(cur)) /\ pc \in ActivePcs
      BY DEF SafetyInv, IndInv, PointInv, Position, PCs
    <3>2. QED
      BY <1>2, <3>1, ActiveRecord DEF OpAt, Op, Ops, durable
  <2>2. Expectation
    BY DEF SafetyInv, PointEvidence
  <2>3. sameId' => \/ install'[OpAt.target] = seen
                   \/ touched'[OpAt.target] = "edited"
    <3>1. install \in [Paths -> File] /\ touched \in [Paths -> {"no", "replaced", "edited"}]
      BY DEF SafetyInv, IndInv, TypeOK
    <3>2. QED
      BY <1>1, <2>1, <2>2, <3>1 DEF Expectation, ForeignWrite
  <2>4. QED
    BY <1>2, <2>1, <2>2, <2>3 DEF Expectation
<1>11. Success'
  <2> SUFFICES ASSUME result = "ok" PROVE Success'
    BY <1>2 DEF Success, SuccessMeansInstalled
  <2>1. pc = "idle" /\ SuccessMeansInstalled
    BY DEF SafetyInv, PointEvidence, Success
  <2>2. PICK t \in TxIds : t = terminal.tx
    BY <2>1 DEF SafetyInv, IndInv, TypeOK, Terminal, SuccessMeansInstalled
  <2>3. plans[t] # NoPlan
    BY <2>1, <2>2 DEF SafetyInv, DiskEvidence, ReceiptTrustworthy, TrustedTerminal, ValidSummary,
                      SuccessMeansInstalled
  <2>4. \A i \in 1 .. Len(Ops(t)) : Holds(Op(t, i).target, Op(t, i).data)'
    BY <1>6, <2>1, <2>2, <2>3 DEF SuccessMeansInstalled, Holds
  <2>5. QED
    BY <1>2, <2>1, <2>2, <2>4
       DEF Success, SuccessMeansInstalled, Holds, Op, Ops, durable
<1>12. QED
  BY <1>3, <1>7, <1>8, <1>9, <1>10, <1>11 DEF PointEvidence

-----------------------------------------------------------------------------
(* The invariant. *)

(* Nothing is on disk yet. *)
LEMMA InitSafety == Init => SafetyInv
<1> SUFFICES ASSUME Init PROVE SafetyInv
  OBVIOUS
<1>1. IndInv
  BY InitInv
<1>2. DiskEvidence
  BY EmptySeq
     DEF Init, DiskEvidence, PlansSound, RecordsSound, ActiveAccounted, SummariesSound,
         ReceiptTrustworthy, PlanOrigin
<1>3. PointEvidence
  BY DEF Init, PointEvidence, PreparedAccounted, InMemory, Walk, Expectation, Success,
         SuccessMeansInstalled
<1>4. QED
  BY <1>1, <1>2, <1>3 DEF SafetyInv

(* Nothing changes. *)
LEMMA StutterSafe ==
    ASSUME SafetyInv, UNCHANGED vars
    PROVE  DiskEvidence' /\ PointEvidence'
<1> USE DEF vars, durable, volatile, ghosts
<1>1. DiskEvidence'
  BY DiskKept DEF SafetyInv
<1>2. PreparedAccounted' /\ Walk'
  BY DEF SafetyInv, PointEvidence, PreparedAccounted, Walk, Restored, Installed, Applied, Holds,
         Op, Ops
<1>3. InMemory' /\ Expectation'
  BY DEF SafetyInv, PointEvidence, InMemory, Expectation, Sound, Follows, ExistingBackup,
         AlreadyApplied, OpAt, Op, Ops
<1>4. Success'
  BY DEF SafetyInv, PointEvidence, Success, SuccessMeansInstalled, Op, Ops
<1>5. QED
  BY <1>1, <1>2, <1>3, <1>4 DEF PointEvidence

(* Every step of the updater and of its environment preserves SafetyInv. *)
LEMMA NextSafety == SafetyInv /\ [Next]_vars => SafetyInv'
<1> SUFFICES ASSUME SafetyInv, [Next]_vars PROVE DiskEvidence' /\ PointEvidence'
  BY NextInv DEF SafetyInv
<1>1. CASE UNCHANGED vars
  BY <1>1, StutterSafe
<1>2. CASE Next
  <2>0. Next /\ IndInv'
    BY <1>2, NextInv DEF SafetyInv
  <2>1. ASSUME NEW r \in Request, Invoke(r) PROVE DiskEvidence' /\ PointEvidence'
    BY <2>0, <2>1, InvokeSafe
  <2>2. CASE ReadStep
    <3>1. CASE RejectRollback \/ RejectStart \/ PreconditionFailed
      BY <3>1, ReadFails DEF RejectRollback, RejectStart, PreconditionFailed, ghosts
    <3>2. QED
      BY <2>0, <2>2, <3>1, ReplayTerminalSafe, BackupRejectedSafe, SkipAppliedSafe,
         RestartSettledSafe DEF ReadStep
  <2>3. ASSUME NEW o \in Outcomes, FailedReadStep(o) PROVE DiskEvidence' /\ PointEvidence'
    BY <2>0, <2>3, ApplyRejectedSafe, ApplyUnloadableSafe, ApplyCheckFailedSafe,
       RollbackUnloadableSafe, RollbackRejectedSafe, RestoreUnverifiedSafe,
       RestoreCheckFailedSafe DEF FailedReadStep
  <2>4. ASSUME NEW o \in Outcomes, PrepareStep(o) PROVE DiskEvidence' /\ PointEvidence'
    BY <2>0, <2>4, StartTransactionSafe, PersistPreparedSafe, PrepareOneSafe, EnsureBackupSafe,
       PersistBackupDurableSafe, FailPreparationSafe, PublishActiveSafe DEF PrepareStep
  <2>5. ASSUME NEW o \in Outcomes, ApplyStep(o) PROVE DiskEvidence' /\ PointEvidence'
    BY <2>0, <2>5, PersistApplyingSafe, ApplyIntentSafe, CommitSafe, ApplyCheckSafe,
       FailApplySafe, PersistFilesAppliedSafe DEF ApplyStep
  <2>6. ASSUME NEW o \in Outcomes, RollbackStep(o) PROVE DiskEvidence' /\ PointEvidence'
    BY <2>0, <2>6, MarkRollbackSafe, RollbackSkipSafe, RollbackIntentSafe, RestoreSafe,
       RestoreCheckSafe, MarkRollbackOperationFailedSafe, RecordRollbackFailureSafe,
       PersistRolledBackSafe, RecoverSafe, RecordTerminalReconciliationFailureSafe
       DEF RollbackStep
  <2>7. ASSUME NEW o \in Outcomes, FinishStep(o) PROVE DiskEvidence' /\ PointEvidence'
    BY <2>0, <2>7, RestartIntentSafe, LaunchRestartSafe, PublishTerminalSafe, ClearActiveSafe,
       PersistCompletionSafe DEF FinishStep
  <2>8. CASE Crash
    BY <2>8, ReadFails DEF Crash
  <2>9. ASSUME NEW p \in ForeignPaths, NEW file \in File, NEW how \in {"replaced", "edited"},
               ForeignWrite(p, file, how)
        PROVE  DiskEvidence' /\ PointEvidence'
    BY <2>0, <2>9, ForeignWriteSafe
  <2>10. QED
    BY <2>0, <2>1, <2>2, <2>3, <2>4, <2>5, <2>6, <2>7, <2>8, <2>9 DEF Next, UpdaterStep
<1>3. QED
  BY <1>1, <1>2

-----------------------------------------------------------------------------
(* The theorems. *)

(* Files, backups and records agree in every reachable state, whatever     *)
(* fails, crashes or is written by other programs.                         *)
THEOREM SafetyInvariance == Spec => []SafetyInv
BY InitSafety, NextSafety, PTL DEF Spec

(* terminal.json names only a transaction whose completed summary a later  *)
(* invocation accepts, with the same timestamp and all operations applied. *)
THEOREM ReceiptIsTrustworthy == Spec => []ReceiptTrustworthy
<1>1. SafetyInv => ReceiptTrustworthy
  BY DEF SafetyInv, DiskEvidence
<1>2. QED
  BY <1>1, SafetyInvariance, PTL

(* An invocation reports success only with active.json gone, the receipt's *)
(* plan installed and its restart neither failed nor unknown.              *)
THEOREM SuccessIsInstalled == Spec => []SuccessMeansInstalled
<1>1. SafetyInv => SuccessMeansInstalled
  BY DEF SafetyInv, PointEvidence, Success
<1>2. QED
  BY <1>1, SafetyInvariance, PTL

(* While a transaction is active every file it changed was announced, and  *)
(* its original is in the backup directory.                                *)
THEOREM ChangesAreUndoable == Spec => []EveryChangeIsUndoable
<1>1. SafetyInv => EveryChangeIsUndoable
  <2> SUFFICES ASSUME SafetyInv, active # NoTx, NEW i \in 1 .. Len(records[active])
               PROVE  LET r == records[active][i]
                          target == Op(active, i).target
                      IN  install[target] # r.original /\ touched[target] = "no" =>
                              /\ r.applyState # "Pending"
                              /\ r.original # Missing =>
                                    /\ r.backupState = "Durable"
                                    /\ backup[plans[active].backupDir][target] = r.original
    BY DEF EveryChangeIsUndoable
  <2>1. active \in TxIds
    BY DEF SafetyInv, IndInv, TypeOK
  <2>2. Undoable(active, i) /\ Sound(active, i, records[active][i])
    BY <2>1 DEF SafetyInv, DiskEvidence, ActiveAccounted, RecordsSound
  <2>3. QED
    BY <2>2 DEF Undoable, Sound
<1>2. QED
  BY <1>1, SafetyInvariance, PTL

(* A backup that some journal calls durable is that journal's original,    *)
(* whichever plans and retries share the directory.                        *)
THEOREM BackupsAreKept == Spec => []DurableBackupsKept
<1>1. SafetyInv => DurableBackupsKept
  BY DEF SafetyInv, DiskEvidence, RecordsSound, Sound, DurableBackupsKept
<1>2. QED
  BY <1>1, SafetyInvariance, PTL

(* The updater replaces a file only if it is the one it looked at, found   *)
(* to be the journaled original, the planned content or no file, unless    *)
(* another program edited that very file in place.                         *)
THEOREM ForeignFilesAreKept == Spec => NoForeignLoss
<1> DEFINE Ours(p) ==
             /\ install[p] = seen \/ touched[p] = "edited"
             /\ \E i \in 1 .. Len(records[cur]) :
                   /\ Op(cur, i).target = p
                   /\ seen \in {records[cur][i].original, Op(cur, i).data, Missing}
           P == \A p \in Paths : install'[p] # install[p] /\ touched' = touched => Ours(p)
<1>1. SafetyInv /\ [Next]_vars => [P]_vars
  <2> SUFFICES ASSUME SafetyInv, Next, NEW p \in Paths, install'[p] # install[p],
                      touched' = touched
               PROVE  Ours(p)
    OBVIOUS
  <2>1. PICK o \in Outcomes : Commit(o) \/ Restore(o)
    BY InstallChanges DEF SafetyInv
  <2>2. pc \in {"commit", "restore"} /\ \E data : Swap(data, o)
    BY <2>1 DEF Commit, Restore
  <2>3. idx \in 1 .. Len(Ops(cur)) /\ pc \in ActivePcs /\ rec = records[cur][idx]
    BY <2>2 DEF SafetyInv, IndInv, PointInv, Position, PointEvidence, InMemory, PCs
  <2>4. OpAt.target \in Paths /\ Len(records[cur]) = Len(Ops(cur))
    BY <2>3, ActiveRecord
  <2>5. p = OpAt.target /\ ExpectationHolds
    BY <2>2, <2>4, SwapChanges DEF SafetyInv, Swap
  <2>6. install[p] = seen \/ touched[p] = "edited"
    BY <2>2, <2>5 DEF SafetyInv, PointEvidence, Expectation, ExpectationHolds
  <2>7. seen \in {records[cur][idx].original, Op(cur, idx).data, Missing}
    BY <2>2, <2>3 DEF SafetyInv, PointEvidence, Expectation, OpAt
  <2>8. QED
    BY <2>3, <2>4, <2>5, <2>6, <2>7 DEF OpAt
<1>2. QED
  BY <1>1, SafetyInvariance, PTL DEF Spec, NoForeignLoss

-----------------------------------------------------------------------------
(***************************************************************************)
(* The refinement: ApplyTransaction implements AtomicInstall.              *)
(***************************************************************************)

-----------------------------------------------------------------------------
(* Reading the abstract state from the journal. *)

(* An operation is found by its target, which no other operation has. *)
LEMMA FoundByTarget ==
    ASSUME SafetyInv, NEW t \in TxIds, NEW i \in 1 .. Len(records[t])
    PROVE  Names(t, Op(t, i).target) /\ At(t, Op(t, i).target) = i
<1>1. /\ DistinctTargets(plans[t].ops) /\ plans[t] # NoPlan
      /\ \A j \in 1 .. Len(records[t]) : j \in 1 .. Len(Ops(t))
  BY RecordType DEF SafetyInv, DiskEvidence, PlansSound
<1>2. DOMAIN Ops(t) = 1 .. Len(Ops(t))
  BY <1>1, LenProperties DEF SafetyInv, IndInv, TypeOK, Plan, Ops
<1>3. \A j \in 1 .. Len(records[t]) : Op(t, j).target = Op(t, i).target => j = i
  BY <1>1, <1>2 DEF DistinctTargets, Op, Ops
<1>4. QED
  BY <1>3 DEF Names, At

(* The operation a path names. *)
LEMMA NamedOperation ==
    ASSUME SafetyInv, NEW t \in TxIds, NEW p, Names(t, p)
    PROVE  /\ At(t, p) \in 1 .. Len(records[t]) /\ Op(t, At(t, p)).target = p
           /\ Op(t, At(t, p)).data \in File /\ Original(t, p) \in File
           /\ Op(t, At(t, p)).data # AnyFile /\ Original(t, p) # AnyFile
<1>1. At(t, p) \in 1 .. Len(records[t]) /\ Op(t, At(t, p)).target = p
  BY DEF Names, At
<1>2. Op(t, At(t, p)).data \in File /\ records[t][At(t, p)] \in Record
  BY <1>1, RecordType DEF SafetyInv, DiskEvidence
<1>3. QED
  BY <1>1, <1>2, SentinelAssumption DEF Original, Record

(* The abstract variables after a step, entry by entry. *)
LEMMA AbstractAfter ==
    /\ Fates' = [t \in TxIds |-> Fate(t)']
    /\ GoalsOf' = [t \in TxIds |-> [p \in Paths |-> GoalAt(t, p)']]
    /\ UndosOf' = [t \in TxIds |-> [p \in Paths |-> UndoAt(t, p)']]
    /\ Settled' = [p \in Paths |-> SettledAt(p)']
<1> USE DEF Fate, Known, Names, At, Original, Op, Ops
<1>1. Fates' = [t \in TxIds |-> Fate(t)']
  BY DEF Fates
<1>2. GoalsOf' = [t \in TxIds |-> [p \in Paths |-> GoalAt(t, p)']]
  BY DEF GoalsOf, GoalAt
<1>3. UndosOf' = [t \in TxIds |-> [p \in Paths |-> UndoAt(t, p)']]
  BY DEF UndosOf, UndoAt
<1>4. Settled' = [p \in Paths |-> SettledAt(p)']
  BY DEF Settled, SettledAt
<1>5. QED
  BY <1>1, <1>2, <1>3, <1>4

(* The entries for a named path, before and after a step. *)
LEMMA EntryAfter ==
    ASSUME NEW t, NEW p
    PROVE  /\ GoalAt(t, p)' = IF Fate(t)' # "unused" /\ Names(t, p)'
                              THEN Known(p, Op(t, At(t, p)).data)' ELSE AnyFile
           /\ UndoAt(t, p)' = IF Fate(t)' # "unused" /\ Names(t, p)'
                              THEN Known(p, Original(t, p))' ELSE AnyFile
           /\ SettledAt(p)' = IF touched'[p] # "no" THEN AnyFile
                              ELSE IF active' # NoTx /\ Names(active, p)'
                              THEN Original(active, p)' ELSE install'[p]
BY DEF GoalAt, UndoAt, SettledAt, Known

(* A transaction whose plan and originals the step leaves alone. *)
JournalOf(t) ==
    /\ plans'[t] = plans[t] /\ Len(records'[t]) = Len(records[t])
    /\ \A i \in 1 .. Len(records[t]) : records'[t][i].original = records[t][i].original

(* Its operations are found as before. *)
LEMMA OperationsKept ==
    ASSUME SafetyInv, NEW t \in TxIds, JournalOf(t), NEW p
    PROVE  /\ Names(t, p)' <=> Names(t, p)
           /\ At(t, p)' = At(t, p)
           /\ Op(t, At(t, p))' = Op(t, At(t, p))
           /\ Names(t, p) => Original(t, p)' = Original(t, p)
<1>1. Names(t, p)' <=> Names(t, p)
  BY DEF Names, Op, Ops, JournalOf
<1>2. At(t, p)' = At(t, p)
  BY DEF At, Op, Ops, JournalOf
<1>3. Op(t, At(t, p))' = Op(t, At(t, p))
  BY <1>2 DEF Op, Ops, JournalOf
<1>4. Names(t, p) => Original(t, p)' = Original(t, p)
  BY <1>2, NamedOperation DEF Original, JournalOf
<1>5. QED
  BY <1>1, <1>2, <1>3, <1>4

(* So what it asks for and what it replaced stay, on paths left alone. *)
LEMMA EntriesKept ==
    ASSUME SafetyInv, NEW t \in TxIds, NEW p \in Paths, touched'[p] = touched[p],
           Fate(t)' = "unused" <=> Fate(t) = "unused",
           Fate(t) # "unused" => JournalOf(t)
    PROVE  GoalAt(t, p)' = GoalAt(t, p) /\ UndoAt(t, p)' = UndoAt(t, p)
<1>1. CASE Fate(t) = "unused"
  BY <1>1, EntryAfter DEF GoalAt, UndoAt
<1>2. CASE Fate(t) # "unused"
  <2>1. /\ Names(t, p)' <=> Names(t, p)
        /\ Op(t, At(t, p))' = Op(t, At(t, p))
        /\ Names(t, p) => Original(t, p)' = Original(t, p)
    BY <1>2, OperationsKept
  <2>2. Known(p, Op(t, At(t, p)).data)' = Known(p, Op(t, At(t, p)).data)
    BY <2>1 DEF Known
  <2>3. Names(t, p) => Known(p, Original(t, p))' = Known(p, Original(t, p))
    BY <2>1 DEF Known
  <2>4. QED
    BY <1>2, <2>1, <2>2, <2>3, EntryAfter DEF GoalAt, UndoAt
<1>3. QED
  BY <1>1, <1>2

(* What may be relied on at p: the file, or the active transaction's       *)
(* original, whatever that transaction does to the file.                   *)
LEMMA SettledKept ==
    ASSUME SafetyInv, NEW p \in Paths, touched'[p] = touched[p], active' = active,
           \A t \in TxIds : Fate(t) # "unused" => JournalOf(t),
           install'[p] = install[p] \/ (active # NoTx /\ Names(active, p))
    PROVE  SettledAt(p)' = SettledAt(p)
<1>1. CASE active = NoTx
  BY <1>1, EntryAfter DEF SettledAt, Known
<1>2. CASE active # NoTx
  <2>1. PICK t \in TxIds : t = active
    BY <1>2 DEF SafetyInv, IndInv, TypeOK
  <2>2. Fate(t) # "unused"
    BY <2>1 DEF Fate
  <2>3. /\ Names(t, p)' <=> Names(t, p)
        /\ Names(t, p) => Original(t, p)' = Original(t, p)
    BY <2>2, OperationsKept
  <2>4. /\ Names(active, p)' <=> Names(t, p)'
        /\ Original(active, p)' = Original(t, p)'
    BY <2>1 DEF Names, Original, At
  <2>5. QED
    BY <1>2, <2>1, <2>3, <2>4, EntryAfter DEF SettledAt, Known
<1>3. QED
  BY <1>1, <1>2

(* What a step must leave alone for the abstract state to stay the same. *)
LEMMA AbstractKept ==
    ASSUME SafetyInv, UNCHANGED <<active, touched>>,
           \A t \in TxIds : Fate(t)' = Fate(t),
           \A t \in TxIds : Fate(t) # "unused" => JournalOf(t),
           \A p \in Paths : install'[p] = install[p] \/ (active # NoTx /\ Names(active, p))
    PROVE  UNCHANGED Atomic!vars
<1>1. Fates' = Fates
  BY AbstractAfter DEF Fates
<1>2. GoalsOf' = GoalsOf /\ UndosOf' = UndosOf
  BY EntriesKept, AbstractAfter DEF GoalsOf, UndosOf
<1>3. \A p \in Paths : SettledAt(p)' = SettledAt(p)
  BY SettledKept
<1>4. Settled' = Settled
  BY <1>3, AbstractAfter DEF Settled
<1>5. QED
  BY <1>1, <1>2, <1>4 DEF Atomic!vars

-----------------------------------------------------------------------------
(* Which steps write what the abstract state is read from. *)

USE DEF PreparePcs, ActivePcs, RecordPcs, ApplyPcs, RollbackPcs, FilePcs, LaunchPcs

(* A record of the active transaction is rewritten with its original. *)
LEMMA OriginalsKept ==
    ASSUME SafetyInv, pc \in ApplyPcs \union RollbackPcs, idx \in 1 .. Len(Ops(cur)),
           NEW r \in Record, NEW o, WriteOperation(r, o),
           r.original = records[cur][idx].original,
           NEW t \in TxIds, records'[t] # records[t]
    PROVE  /\ t = cur /\ Len(records'[t]) = Len(records[t])
           /\ \A i \in 1 .. Len(records[t]) : records'[t][i].original = records[t][i].original
<1>1. /\ cur \in TxIds /\ Len(records[cur]) = Len(Ops(cur)) /\ Len(Ops(cur)) \in Nat
  BY ActiveRecord DEF PCs
<1>2. idx \in 1 .. Len(records[cur]) /\ idx \in 1 .. Len(records[cur]) + 1
  BY <1>1
<1>3. /\ \A u \in TxIds : u # cur => records'[u] = records[u]
      /\ Len(records'[cur]) = Len(records[cur])
      /\ \A i \in 1 .. Len(records'[cur]) :
            i # idx => records'[cur][i] = records[cur][i]
      /\ records'[cur][idx] = IF o = "lost" THEN records[cur][idx] ELSE r
  BY <1>1, <1>2, RecordWritten DEF SafetyInv
<1>4. QED
  BY <1>2, <1>3

(* Applying an operation keeps the original it found. *)
LEMMA ApplyRecords ==
    ASSUME SafetyInv, NEW o \in Outcomes, ApplyStep(o), NEW t \in TxIds,
           records'[t] # records[t]
    PROVE  /\ t = cur /\ Len(records'[t]) = Len(records[t])
           /\ \A i \in 1 .. Len(records[t]) : records'[t][i].original = records[t][i].original
<1>1. CASE ApplyIntent(o)
  <2> DEFINE r == [records[cur][idx] EXCEPT !.applyState = "Intent"]
  <2>1. pc = "apply" /\ WriteOperation(r, o) /\ idx \in 1 .. Len(Ops(cur))
    BY <1>1 DEF ApplyIntent, SafetyInv, IndInv, TypeOK, PointInv, Position
  <2>2. records[cur][idx] \in Record
    BY <2>1, ActiveRecord DEF PCs
  <2>3. r \in Record /\ r.original = records[cur][idx].original
    BY <2>2 DEF Record
  <2>4. QED
    BY <2>1, <2>3, OriginalsKept
<1>2. CASE ApplyCheck(o)
  <2> DEFINE r == [rec EXCEPT !.applyState = "Complete"]
  <2>1. pc = "applyCheck" /\ WriteOperation(r, o) /\ idx \in 1 .. Len(Ops(cur))
    BY <1>2 DEF ApplyCheck, SafetyInv, IndInv, PointInv, Position
  <2>2. rec \in Record /\ rec = records[cur][idx]
    BY <2>1 DEF SafetyInv, IndInv, PointInv, Position, PointEvidence, InMemory
  <2>3. r \in Record /\ r.original = records[cur][idx].original
    BY <2>2 DEF Record
  <2>4. QED
    BY <2>1, <2>3, OriginalsKept
<1>3. CASE FailApply(o)
  <2> DEFINE r == [rec EXCEPT !.error = TRUE]
  <2>1. pc = "applyFailed" /\ WriteOperation(r, o) /\ idx \in 1 .. Len(Ops(cur))
    BY <1>3 DEF FailApply, SafetyInv, IndInv, PointInv, Position
  <2>2. rec \in Record /\ rec.original = records[cur][idx].original
    BY <2>1 DEF SafetyInv, IndInv, PointInv, Position, PointEvidence, InMemory, Follows
  <2>3. r \in Record /\ r.original = records[cur][idx].original
    BY <2>2 DEF Record
  <2>4. QED
    BY <2>1, <2>3, OriginalsKept
<1>4. QED
  BY <1>1, <1>2, <1>3 DEF ApplyStep, PersistApplying, Commit, PersistFilesApplied, durable

(* So does putting its file back. *)
LEMMA RollbackRecords ==
    ASSUME SafetyInv, NEW o \in Outcomes, RollbackStep(o), NEW t \in TxIds,
           records'[t] # records[t]
    PROVE  /\ t = cur /\ Len(records'[t]) = Len(records[t])
           /\ \A i \in 1 .. Len(records[t]) : records'[t][i].original = records[t][i].original
<1>1. CASE RollbackSkip(o) \/ RollbackIntent(o)
  <2>1. /\ pc = "rollback" /\ idx \in 1 .. Len(Ops(cur))
    BY <1>1 DEF RollbackSkip, RollbackIntent, SafetyInv, IndInv, TypeOK, PointInv, Position
  <2>2. records[cur][idx] \in Record
    BY <2>1, ActiveRecord DEF PCs
  <2>3. PICK r : /\ WriteOperation(r, o)
                 /\ \/ r = [records[cur][idx] EXCEPT !.error = FALSE,
                            !.rollbackState = IF records[cur][idx].applyState = "Pending"
                                              THEN "NotRequired" ELSE "Complete"]
                    \/ r = [records[cur][idx] EXCEPT !.rollbackState = "Intent", !.error = FALSE]
    BY <1>1 DEF RollbackSkip, RollbackIntent
  <2>4. r \in Record /\ r.original = records[cur][idx].original
    BY <2>2, <2>3 DEF Record
  <2>5. QED
    BY <2>1, <2>3, <2>4, OriginalsKept
<1>2. CASE RestoreCheck(o) \/ MarkRollbackOperationFailed(o)
  <2>1. /\ pc \in {"restoreCheck", "rollbackOpFailed"} /\ idx \in 1 .. Len(Ops(cur))
        /\ rec \in Record /\ rec = records[cur][idx]
    BY <1>2 DEF RestoreCheck, MarkRollbackOperationFailed, SafetyInv, IndInv, PointInv,
                Position, PointEvidence, InMemory
  <2>2. PICK r : /\ WriteOperation(r, o)
                 /\ \/ r = [rec EXCEPT !.rollbackState = "Complete"]
                    \/ r = [rec EXCEPT !.rollbackState = "Failed", !.error = TRUE]
    BY <1>2 DEF RestoreCheck, MarkRollbackOperationFailed
  <2>3. r \in Record /\ r.original = records[cur][idx].original
    BY <2>1, <2>2 DEF Record
  <2>4. QED
    BY <2>1, <2>2, <2>3, OriginalsKept
<1>3. QED
  BY <1>1, <1>2
     DEF RollbackStep, MarkRollback, Restore, RecordRollbackFailure, PersistRolledBack, Recover,
         RecordTerminalReconciliationFailure, durable

(* Preparation writes records of the transaction being prepared only. *)
LEMMA PrepareRecords ==
    ASSUME SafetyInv, NEW o \in Outcomes, PrepareStep(o), NEW t \in TxIds,
           records'[t] # records[t]
    PROVE  t = cur /\ pc \in PreparePcs
<1>1. ASSUME NEW r, WriteOperation(r, o) PROVE t = cur
  BY <1>1 DEF WriteOperation, SafetyInv, IndInv, TypeOK
<1>2. CASE PrepareOne(o)
  BY <1>1, <1>2 DEF PrepareOne
<1>3. CASE PersistBackupDurable(o)
  BY <1>1, <1>3 DEF PersistBackupDurable
<1>4. CASE FailPreparation(o)
  BY <1>1, <1>4 DEF FailPreparation
<1>5. QED
  BY <1>2, <1>3, <1>4
     DEF PrepareStep, StartTransaction, PersistPrepared, EnsureBackup, PublishActive

(* After preparation a record may change, its original does not. *)
LEMMA RecordsChange ==
    ASSUME SafetyInv, Next, NEW t \in TxIds, records'[t] # records[t]
    PROVE  /\ t = cur
           /\ \/ pc \in PreparePcs
              \/ /\ Len(records'[t]) = Len(records[t])
                 /\ \A i \in 1 .. Len(records[t]) :
                       records'[t][i].original = records[t][i].original
<1>1. ASSUME NEW o \in Outcomes PROVE ~FinishStep(o) /\ ~FailedReadStep(o)
  BY DEF FinishStep, RestartIntent, LaunchRestart, PersistCompletion, PublishTerminal,
         ClearActive, FailedReadStep, ApplyRejected, ApplyUnloadable, ApplyCheckFailed,
         RollbackUnloadable, RollbackRejected, RestoreUnverified, RestoreCheckFailed, durable
<1>2. ~ReadStep /\ ~Crash /\ ~(\E r \in Request : Invoke(r))
  BY DEF ReadStep, ReplayTerminal, RejectRollback, RejectStart, PreconditionFailed,
         BackupRejected, SkipApplied, RestartSettled, Invoke, Crash, durable
<1>3. ASSUME NEW p \in ForeignPaths, NEW file \in File, NEW how \in {"replaced", "edited"}
      PROVE  ~ForeignWrite(p, file, how)
  BY DEF ForeignWrite, durable
<1>4. QED
  BY <1>1, <1>2, <1>3, ApplyRecords, RollbackRecords, PrepareRecords DEF Next, UpdaterStep

(* A plan snapshot is written once, under a fresh identity. *)
LEMMA PlansChange ==
    ASSUME SafetyInv, Next, NEW t \in TxIds, plans'[t] # plans[t]
    PROVE  plans[t] = NoPlan
<1>1. ASSUME NEW o \in Outcomes, NEW u \in TxIds, StartTransaction(u, o) PROVE plans[t] = NoPlan
  BY <1>1 DEF StartTransaction, SafetyInv, IndInv, TypeOK
<1>2. ASSUME NEW o \in Outcomes
      PROVE  ~ApplyStep(o) /\ ~FinishStep(o) /\ ~FailedReadStep(o)
  BY DEF ApplyStep, PersistApplying, ApplyIntent, Commit, ApplyCheck, FailApply,
         PersistFilesApplied, FinishStep, RestartIntent, LaunchRestart, PersistCompletion,
         PublishTerminal, ClearActive, FailedReadStep, ApplyRejected, ApplyUnloadable,
         ApplyCheckFailed, RollbackUnloadable, RollbackRejected, RestoreUnverified,
         RestoreCheckFailed, durable
<1>3. ASSUME NEW o \in Outcomes PROVE ~RollbackStep(o)
  BY DEF RollbackStep, MarkRollback, RollbackSkip, RollbackIntent, Restore, RestoreCheck,
         MarkRollbackOperationFailed, RecordRollbackFailure, PersistRolledBack, Recover,
         RecordTerminalReconciliationFailure, durable
<1>4. ASSUME NEW o \in Outcomes, PrepareStep(o) PROVE plans[t] = NoPlan
  BY <1>1, <1>4 DEF PrepareStep, PersistPrepared, PrepareOne, EnsureBackup,
         PersistBackupDurable, FailPreparation, PublishActive
<1>5. ~ReadStep /\ ~Crash /\ ~(\E r \in Request : Invoke(r))
  BY DEF ReadStep, ReplayTerminal, RejectRollback, RejectStart, PreconditionFailed,
         BackupRejected, SkipApplied, RestartSettled, Invoke, Crash, durable
<1>6. ASSUME NEW p \in ForeignPaths, NEW file \in File, NEW how \in {"replaced", "edited"}
      PROVE  ~ForeignWrite(p, file, how)
  BY DEF ForeignWrite, durable
<1>7. QED
  BY <1>2, <1>3, <1>4, <1>5, <1>6 DEF Next, UpdaterStep

(* What the abstract state reads of a transaction that counts is fixed. *)
LEMMA JournalFixed ==
    ASSUME SafetyInv, Next, NEW t \in TxIds, Fate(t) # "unused"
    PROVE  JournalOf(t)
<1>1. /\ active # t => summary[t] # NoSummary
                       /\ summary[t].fileState \in {"Complete", "RolledBack"}
      /\ t # NoTx
  BY SentinelAssumption DEF Fate
<1>2. plans[t] # NoPlan
  BY <1>1 DEF SafetyInv, IndInv, JournalInv, SnapshotFirst, RecoveryAccepted, ValidSummary
<1>3. t = cur => pc \notin PreparePcs
  BY <1>1 DEF SafetyInv, IndInv, PointInv, WorkingTransaction, Preparation
<1>4. QED
  BY <1>2, <1>3, PlansChange, RecordsChange DEF JournalOf

(* A transaction's fate is decided by active.json and its launches. *)
LEMMA FateKept ==
    ASSUME SafetyInv, Next, UNCHANGED <<active, launches>>, NEW t \in TxIds
    PROVE  Fate(t)' = Fate(t)
<1>1. CASE active = t \/ summary'[t] = summary[t]
  BY <1>1 DEF Fate
<1>2. CASE active # t /\ summary'[t] # summary[t]
  <2>1. t = cur /\ pc \notin ActivePcs
    BY <1>2, SummaryChanges DEF SafetyInv, IndInv, PointInv, WorkingTransaction
  <2>2. pc = "prepared" /\ summary'[t].fileState = "Prepared"
    BY <1>2, <2>1, SummaryChanges DEF SafetyInv, PCs
  <2>3. summary[t] = NoSummary
    BY <2>1, <2>2 DEF SafetyInv, IndInv, PointInv, Preparation
  <2>4. QED
    BY <1>2, <2>2, <2>3 DEF Fate
<1>3. QED
  BY <1>1, <1>2

(* A step that leaves active.json, the launches and the other programs'    *)
(* writes alone is invisible: the files it changes are the active          *)
(* transaction's, whose originals are in the journal.                      *)
LEMMA Invisible ==
    ASSUME SafetyInv, Next, UNCHANGED <<active, launches, touched>>
    PROVE  UNCHANGED Atomic!vars
<1>1. \A p \in Paths : install'[p] = install[p] \/ (active # NoTx /\ Names(active, p))
  <2> SUFFICES ASSUME NEW p \in Paths, install'[p] # install[p]
               PROVE  active # NoTx /\ Names(active, p)
    OBVIOUS
  <2>1. PICK o \in Outcomes : Commit(o) \/ Restore(o)
    BY InstallChanges DEF SafetyInv
  <2>2. pc \in {"commit", "restore"} /\ \E data : Swap(data, o)
    BY <2>1 DEF Commit, Restore
  <2>3. idx \in 1 .. Len(Ops(cur)) /\ pc \in ActivePcs
    BY <2>2 DEF SafetyInv, IndInv, PointInv, Position, PCs
  <2>4. /\ OpAt.target \in Paths /\ Len(records[cur]) = Len(Ops(cur))
        /\ active = cur /\ cur \in TxIds
    BY <2>3, ActiveRecord
  <2>5. p = OpAt.target
    BY <2>2, <2>4, SwapChanges DEF SafetyInv
  <2>6. QED
    BY <2>3, <2>4, <2>5, SentinelAssumption DEF OpAt, Names
<1>2. QED
  BY <1>1, FateKept, JournalFixed, AbstractKept

-----------------------------------------------------------------------------
(* The visible steps. *)

(* Another program's write makes one path unknown. *)
LEMMA ForeignIsForeign ==
    ASSUME SafetyInv, Next, NEW p \in ForeignPaths, NEW file \in File,
           NEW how \in {"replaced", "edited"}, ForeignWrite(p, file, how)
    PROVE  Atomic!Foreign(p)
<1>1. /\ p \in Paths /\ touched'[p] # "no"
      /\ \A q \in Paths : q # p => touched'[q] = touched[q] /\ install'[q] = install[q]
      /\ active' = active /\ launches' = launches
  BY EnvironmentAssumption DEF ForeignWrite, SafetyInv, IndInv, TypeOK, durable
<1>2. \A t \in TxIds : Fate(t)' = Fate(t)
  BY <1>1, FateKept
<1>3. \A t \in TxIds : Fate(t) # "unused" => JournalOf(t)
  BY JournalFixed
<1>4. ASSUME NEW t \in TxIds
      PROVE  /\ GoalAt(t, p)' = AnyFile /\ UndoAt(t, p)' = AnyFile
             /\ \A q \in Paths : q # p =>
                   GoalAt(t, q)' = GoalAt(t, q) /\ UndoAt(t, q)' = UndoAt(t, q)
  <2>1. GoalAt(t, p)' = AnyFile /\ UndoAt(t, p)' = AnyFile
    BY <1>1 DEF GoalAt, UndoAt, Known
  <2>2. QED
    BY <1>1, <1>2, <1>3, <2>1, EntriesKept
<1>5. GoalsOf' = [t \in TxIds |-> [GoalsOf[t] EXCEPT ![p] = AnyFile]]
  <2>1. ASSUME NEW t \in TxIds
        PROVE  [q \in Paths |-> GoalAt(t, q)'] = [GoalsOf[t] EXCEPT ![p] = AnyFile]
    BY <1>1, <1>4 DEF GoalsOf
  <2>2. QED
    BY <2>1, AbstractAfter
<1>6. UndosOf' = [t \in TxIds |-> [UndosOf[t] EXCEPT ![p] = AnyFile]]
  <2>1. ASSUME NEW t \in TxIds
        PROVE  [q \in Paths |-> UndoAt(t, q)'] = [UndosOf[t] EXCEPT ![p] = AnyFile]
    BY <1>1, <1>4 DEF UndosOf
  <2>2. QED
    BY <2>1, AbstractAfter
<1>7. Settled' = [Settled EXCEPT ![p] = AnyFile]
  <2>1. SettledAt(p)' = AnyFile
    BY <1>1, EntryAfter
  <2>2. \A q \in Paths : q # p => SettledAt(q)' = SettledAt(q)
    BY <1>1, <1>3, SettledKept
  <2>3. QED
    BY <1>1, <2>1, <2>2, AbstractAfter DEF Settled
<1>8. Fates' = Fates
  BY <1>2, AbstractAfter DEF Fates
<1>9. QED
  BY <1>1, <1>5, <1>6, <1>7, <1>8 DEF Atomic!Foreign

(* Steps of the updater that write neither files nor plans nor records. *)
LEMMA GoalsKept ==
    ASSUME SafetyInv, UNCHANGED <<plans, records, touched>>, NEW t \in TxIds,
           Fate(t)' = "unused" <=> Fate(t) = "unused", NEW p \in Paths
    PROVE  GoalAt(t, p)' = GoalAt(t, p) /\ UndoAt(t, p)' = UndoAt(t, p)
<1>1. JournalOf(t)
  BY DEF JournalOf
<1>2. QED
  BY <1>1, EntriesKept

(* The launch of the application is the abstract restart. *)
LEMMA LaunchIsRestart ==
    ASSUME SafetyInv, Next, NEW o \in Outcomes \ {"lost"}, LaunchRestart(o)
    PROVE  \E t \in TxIds : Atomic!Restart(t)
<1>1. PICK t \in TxIds : t = cur /\ active = t
  BY DEF LaunchRestart, SafetyInv, IndInv, PointInv, WorkingTransaction, PCs
<1>2. /\ launches[t] = 0 /\ launches' = [launches EXCEPT ![t] = @ + 1]
      /\ launches \in [TxIds -> Nat]
  BY <1>1 DEF LaunchRestart, SafetyInv, IndInv, TypeOK, PointInv, Progress
<1>3. UNCHANGED <<install, plans, summary, records, active, touched>>
  BY DEF LaunchRestart, durable
<1>4. Fate(t) = "open" /\ Fate(t)' = "restarted"
  BY <1>1, <1>2, <1>3 DEF Fate
<1>5. \A u \in TxIds : u # t => Fate(u)' = Fate(u)
  BY <1>1, <1>2, <1>3 DEF Fate
<1>6. Fates' = [Fates EXCEPT ![t] = "restarted"] /\ Fates[t] = "open"
  BY <1>4, <1>5, AbstractAfter DEF Fates
<1>7. \A u \in TxIds : Fate(u)' = "unused" <=> Fate(u) = "unused"
  BY <1>4, <1>5
<1>8. GoalsOf' = GoalsOf /\ UndosOf' = UndosOf
  BY <1>3, <1>7, GoalsKept, AbstractAfter DEF GoalsOf, UndosOf
<1>9. Settled' = Settled
  <2>1. \A p \in Paths : SettledAt(p)' = SettledAt(p)
    BY <1>3, JournalFixed, SettledKept
  <2>2. QED
    BY <2>1, AbstractAfter DEF Settled
<1>10. QED
  BY <1>1, <1>3, <1>6, <1>8, <1>9 DEF Atomic!Restart

(* Clearing active.json: what becomes of the transaction, and the files    *)
(* that may be relied on from then on.                                     *)
LEMMA ClearActiveSteps ==
    ASSUME SafetyInv, Next, NEW o \in Outcomes, ClearActive(o), active' # active,
           NEW t \in TxIds, t = cur
    PROVE  /\ active = t /\ active' = NoTx
           /\ Fate(t)' = (IF summary[t].fileState = "Complete" THEN "done" ELSE "undone")
           /\ Fates' = [Fates EXCEPT ![t] = Fate(t)']
           /\ GoalsOf' = GoalsOf /\ UndosOf' = UndosOf
           /\ \A p \in Paths : SettledAt(p)' = Known(p, install[p])
           /\ summary[t].fileState \in {"Complete", "RolledBack"}
<1>1. /\ pc = "clear" /\ active' = NoTx
      /\ UNCHANGED <<install, plans, summary, records, launches, touched>>
  BY DEF ClearActive, ghosts
<1>2. active = t /\ t # NoTx /\ summary[t] # NoSummary
  BY <1>1, SentinelAssumption
     DEF SafetyInv, IndInv, PointInv, WorkingTransaction, JournalInv, RecoveryAccepted,
         ValidSummary, PCs
<1>3. summary[t].fileState \in {"Complete", "RolledBack"}
  BY <1>1 DEF SafetyInv, PointEvidence, Walk
<1>4. Fate(t)' = IF summary[t].fileState = "Complete" THEN "done" ELSE "undone"
  BY <1>1, <1>2, <1>3 DEF Fate
<1>5. \A u \in TxIds : u # t => Fate(u)' = Fate(u)
  BY <1>1, <1>2, SentinelAssumption DEF Fate
<1>6. Fate(t) # "unused" /\ Fate(t)' # "unused"
  BY <1>2, <1>4 DEF Fate
<1>7. Fates' = [Fates EXCEPT ![t] = Fate(t)']
  BY <1>5, AbstractAfter DEF Fates
<1>8. GoalsOf' = GoalsOf /\ UndosOf' = UndosOf
  <2>1. \A u \in TxIds : Fate(u)' = "unused" <=> Fate(u) = "unused"
    BY <1>5, <1>6
  <2>2. QED
    BY <1>1, <2>1, GoalsKept, AbstractAfter DEF GoalsOf, UndosOf
<1>9. \A p \in Paths : SettledAt(p)' = Known(p, install[p])
  BY <1>1, EntryAfter DEF Known
<1>10. QED
  BY <1>1, <1>2, <1>3, <1>4, <1>7, <1>8, <1>9

(* A completed transaction is finished: its files are all installed. *)
LEMMA ClearIsFinish ==
    ASSUME SafetyInv, Next, NEW o \in Outcomes, ClearActive(o), active' # active,
           NEW t \in TxIds, t = cur, summary[t].fileState = "Complete"
    PROVE  Atomic!Finish(t)
<1>1. /\ active = t /\ active' = NoTx /\ Fate(t)' = "done"
      /\ Fates' = [Fates EXCEPT ![t] = Fate(t)']
      /\ GoalsOf' = GoalsOf /\ UndosOf' = UndosOf
      /\ \A p \in Paths : SettledAt(p)' = Known(p, install[p])
  BY ClearActiveSteps
<1>2. /\ Installed(t) /\ Len(records[t]) = Len(Ops(t)) /\ t # NoTx
  BY <1>1, SentinelAssumption
     DEF ClearActive, SafetyInv, PointEvidence, Walk, IndInv, JournalInv, RecoveryAccepted,
         LoadedRecords
<1>3. Fate(t) # "unused"
  BY <1>1 DEF Fate
<1>4. ASSUME NEW p \in Paths
      PROVE  Known(p, install[p]) = IF GoalAt(t, p) = AnyFile THEN SettledAt(p) ELSE GoalAt(t, p)
  <2>1. CASE Names(t, p)
    <3>1. /\ At(t, p) \in 1 .. Len(Ops(t)) /\ Op(t, At(t, p)).target = p
          /\ Op(t, At(t, p)).data # AnyFile
      BY <1>2, <2>1, NamedOperation
    <3>2. Holds(p, Op(t, At(t, p)).data)
      BY <1>2, <3>1 DEF Installed
    <3>3. QED
      BY <1>3, <2>1, <3>1, <3>2 DEF GoalAt, SettledAt, Known, Holds
  <2>2. CASE ~Names(t, p)
    BY <1>1, <2>2 DEF GoalAt, SettledAt
  <2>3. QED
    BY <2>1, <2>2
<1>5. Settled' = [p \in Paths |-> IF GoalsOf[t][p] = AnyFile THEN Settled[p] ELSE GoalsOf[t][p]]
  BY <1>1, <1>4, AbstractAfter DEF GoalsOf, Settled
<1>6. QED
  BY <1>1, <1>5 DEF Atomic!Finish

(* A transaction that was rolled back is given up: its originals are back, *)
(* and it never started the application.                                   *)
LEMMA ClearIsGiveUp ==
    ASSUME SafetyInv, Next, NEW o \in Outcomes, ClearActive(o), active' # active,
           NEW t \in TxIds, t = cur, summary[t].fileState # "Complete"
    PROVE  Atomic!GiveUp(t)
<1>1. /\ active = t /\ active' = NoTx /\ Fate(t)' = "undone"
      /\ Fates' = [Fates EXCEPT ![t] = Fate(t)']
      /\ GoalsOf' = GoalsOf /\ UndosOf' = UndosOf
      /\ \A p \in Paths : SettledAt(p)' = Known(p, install[p])
      /\ summary[t].fileState = "RolledBack"
  BY ClearActiveSteps
<1>2. /\ \A i \in 1 .. Len(Ops(t)) : Restored(t, i)
      /\ Len(records[t]) = Len(Ops(t)) /\ t # NoTx /\ ValidSummary(t)
  BY <1>1, SentinelAssumption
     DEF ClearActive, SafetyInv, PointEvidence, Walk, IndInv, JournalInv, RecoveryAccepted,
         LoadedRecords
<1>3. launches[t] = 0
  <2>1. summary[t].restartState \in {"NotRequested", "NotAttempted"}
    BY <1>1, <1>2 DEF ValidSummary, ConsistentSummary, AllowedRestartStates
  <2>2. ~(launches[t] > 0) /\ launches[t] \in Nat
    BY <2>1 DEF SafetyInv, IndInv, TypeOK, JournalInv, IntentFirst
  <2>3. QED
    BY <2>2
<1>4. Fates[t] = "open"
  BY <1>1, <1>3 DEF Fates, Fate
<1>5. ASSUME NEW p \in Paths PROVE Known(p, install[p]) = SettledAt(p)
  <2>1. CASE Names(t, p)
    <3>1. At(t, p) \in 1 .. Len(Ops(t)) /\ Op(t, At(t, p)).target = p
      BY <1>2, <2>1, NamedOperation
    <3>2. Holds(p, Original(t, p))
      BY <1>2, <3>1 DEF Restored, Original
    <3>3. QED
      BY <1>1, <1>2, <2>1, <3>2 DEF SettledAt, Known, Holds
  <2>2. CASE ~Names(t, p)
    BY <1>1, <2>2 DEF SettledAt
  <2>3. QED
    BY <2>1, <2>2
<1>6. Settled' = Settled
  BY <1>1, <1>5, AbstractAfter DEF Settled
<1>7. QED
  BY <1>1, <1>4, <1>6 DEF Atomic!GiveUp

(* Publishing active.json: the transaction counts from here on, and no     *)
(* file has changed since its originals were recorded.                     *)
LEMMA PublishActiveSteps ==
    ASSUME SafetyInv, Next, NEW o \in Outcomes, PublishActive(o), active' # active,
           NEW t \in TxIds, t = cur
    PROVE  /\ active = NoTx /\ active' = t /\ t # NoTx
           /\ UNCHANGED <<install, plans, summary, records, launches, touched>>
           /\ Fate(t) = "unused" /\ Fate(t)' = "open"
           /\ Len(records[t]) = Len(Ops(t)) /\ plans[t] # NoPlan
           /\ \A i \in 1 .. Len(records[t]) : Restored(t, i)
           /\ \A p : /\ Names(t, p)' <=> Names(t, p)
                     /\ At(t, p)' = At(t, p) /\ Op(t, At(t, p))' = Op(t, At(t, p))
                     /\ Names(t, p) => Original(t, p)' = Original(t, p)
<1>1. /\ pc = "prepare" /\ idx > Len(Ops(cur)) /\ active' = cur
      /\ UNCHANGED <<install, plans, summary, records, launches, touched>>
  BY DEF PublishActive, ghosts
<1>2. /\ active = NoTx /\ t # NoTx /\ plans[t] # NoPlan /\ launches[t] = 0
      /\ summary[t].fileState = "Prepared"
  BY <1>1, SentinelAssumption
     DEF SafetyInv, IndInv, PointInv, WorkingTransaction, Preparation
<1>3. Len(records[t]) = Len(Ops(t))
  <2>1. Len(records[t]) \in Nat /\ Len(Ops(t)) \in Nat
    BY <1>2, LenProperties DEF SafetyInv, IndInv, TypeOK, Plan, Ops
  <2>2. idx = Len(records[t]) + 1 /\ idx <= Len(Ops(t)) + 1
    BY <1>1 DEF SafetyInv, IndInv, PointInv, Preparation
  <2>3. QED
    BY <1>1, <2>1, <2>2
<1>4. Fate(t) = "unused" /\ Fate(t)' = "open"
  BY <1>1, <1>2 DEF Fate
<1>5. \A i \in 1 .. Len(records[t]) : Restored(t, i)
  BY <1>1 DEF SafetyInv, PointEvidence, PreparedAccounted
<1>6. JournalOf(t)
  BY <1>1 DEF JournalOf
<1>7. QED
  BY <1>1, <1>2, <1>3, <1>4, <1>5, <1>6, OperationsKept

(* What it asks for, what it will put back, and what is relied on. *)
LEMMA BeginEntries ==
    ASSUME SafetyInv, Next, NEW o \in Outcomes, PublishActive(o), active' # active,
           NEW t \in TxIds, t = cur, NEW p \in Paths
    PROVE  /\ GoalAt(t, p)' = IF Names(t, p) /\ touched[p] = "no"
                              THEN Op(t, At(t, p)).data ELSE AnyFile
           /\ UndoAt(t, p)' = IF GoalAt(t, p)' = AnyFile THEN AnyFile ELSE SettledAt(p)
           /\ SettledAt(p)' = SettledAt(p)
           /\ SettledAt(p) = Known(p, install[p])
           /\ SettledAt(p) = AnyFile <=> touched[p] # "no"
<1>1. /\ active = NoTx /\ active' = t /\ t # NoTx
      /\ UNCHANGED <<install, plans, summary, records, launches, touched>>
      /\ Fate(t)' = "open"
      /\ \A i \in 1 .. Len(records[t]) : Restored(t, i)
      /\ Names(t, p)' <=> Names(t, p)
      /\ At(t, p)' = At(t, p) /\ Op(t, At(t, p))' = Op(t, At(t, p))
      /\ Names(t, p) => Original(t, p)' = Original(t, p)
  BY PublishActiveSteps
<1>2. GoalAt(t, p)' = IF Names(t, p) /\ touched[p] = "no" THEN Op(t, At(t, p)).data ELSE AnyFile
  <2>1. Known(p, Op(t, At(t, p)).data)' = IF touched[p] = "no" THEN Op(t, At(t, p)).data
                                          ELSE AnyFile
    BY <1>1 DEF Known
  <2>2. QED
    BY <1>1, <2>1, EntryAfter
<1>3. SettledAt(p) = Known(p, install[p])
  BY <1>1 DEF SettledAt
<1>4. SettledAt(p) = AnyFile <=> touched[p] # "no"
  BY <1>3, SentinelAssumption DEF Known, SafetyInv, IndInv, TypeOK
<1>5. CASE Names(t, p)
  <2>1. /\ At(t, p) \in 1 .. Len(records[t]) /\ Op(t, At(t, p)).target = p
        /\ Op(t, At(t, p)).data # AnyFile
    BY <1>5, NamedOperation
  <2>2. Holds(p, Original(t, p))
    BY <1>1, <2>1 DEF Restored, Original
  <2>3. Known(p, Original(t, p))' = IF touched[p] = "no" THEN Original(t, p) ELSE AnyFile
    BY <1>1, <1>5 DEF Known
  <2>4. UndoAt(t, p)' = IF touched[p] = "no" THEN Original(t, p) ELSE AnyFile
    BY <1>1, <1>5, <2>3, EntryAfter
  <2>5. /\ Names(active, p)' <=> Names(t, p)'
        /\ Original(active, p)' = Original(t, p)'
    BY <1>1 DEF Names, Original, At
  <2>6. SettledAt(p)' = IF touched[p] = "no" THEN Original(t, p) ELSE AnyFile
    BY <1>1, <1>5, <2>5, EntryAfter
  <2>7. QED
    BY <1>2, <1>3, <1>4, <1>5, <2>1, <2>2, <2>4, <2>6 DEF Holds, Known
<1>6. CASE ~Names(t, p)
  <2>1. UndoAt(t, p)' = AnyFile
    BY <1>1, <1>6, EntryAfter
  <2>2. Names(active, p)' <=> Names(t, p)'
    BY <1>1 DEF Names
  <2>3. SettledAt(p)' = SettledAt(p)
    BY <1>1, <1>3, <1>6, <2>2, EntryAfter DEF Known
  <2>4. QED
    BY <1>2, <1>3, <1>4, <1>6, <2>1, <2>3
<1>7. QED
  BY <1>5, <1>6

(* An install plan asks for the files the application wants. *)
LEMMA BeginInstalls ==
    ASSUME SafetyInv, Next, NEW o \in Outcomes, PublishActive(o), active' # active,
           NEW t \in TxIds, t = cur, plans[t] \in InstallPlans
    PROVE  Atomic!Installs(GoalsOf'[t])
<1> DEFINE h == GoalOfPlan(plans[t])
<1>1. Len(records[t]) = Len(Ops(t)) /\ plans[t] # NoPlan
  BY PublishActiveSteps
<1>2. DOMAIN plans[t].ops = 1 .. Len(records[t])
  BY <1>1, LenProperties DEF SafetyInv, IndInv, TypeOK, Plan, Ops
<1>3. ASSUME NEW p \in Paths
      PROVE  h[p] = IF Names(t, p) THEN Op(t, At(t, p)).data ELSE AnyFile
  BY <1>2 DEF GoalOfPlan, Names, At, Op, Ops
<1>4. ASSUME NEW p \in Paths
      PROVE  GoalsOf'[t][p] = IF Settled[p] = AnyFile THEN AnyFile ELSE h[p]
  <2>1. GoalsOf'[t][p] = GoalAt(t, p)' /\ Settled[p] = SettledAt(p)
    BY AbstractAfter DEF Settled
  <2>2. QED
    BY <1>3, <2>1, BeginEntries
<1>5. GoalsOf'[t] = [p \in Paths |-> IF Settled[p] = AnyFile THEN AnyFile ELSE h[p]]
  <2>1. GoalsOf'[t] = [p \in Paths |-> GoalAt(t, p)']
    BY AbstractAfter
  <2>2. QED
    BY <1>4, <2>1
<1>6. h \in {GoalOfPlan(plan) : plan \in InstallPlans}
  OBVIOUS
<1>7. QED
  BY <1>5, <1>6 DEF Atomic!Installs

(* A rollback plan asks for what its source replaced, and nothing else. *)
LEMMA BeginUndoes ==
    ASSUME SafetyInv, Next, NEW o \in Outcomes, PublishActive(o), active' # active,
           NEW t \in TxIds, t = cur, NEW s \in TxIds, Inverts(plans[t], s)
    PROVE  Atomic!UndoOf(GoalsOf'[t], s)
<1>1. Len(records[t]) = Len(Ops(t)) /\ plans[t] # NoPlan /\ active = NoTx
  BY PublishActiveSteps
<1>2. DOMAIN plans[t].ops = 1 .. Len(records[t])
  BY <1>1, LenProperties DEF SafetyInv, IndInv, TypeOK, Plan, Ops
<1>3. /\ summary[s] # NoSummary /\ summary[s].fileState = "Complete"
      /\ Len(records[s]) = Len(Ops(s)) /\ s # NoTx
  BY SentinelAssumption
     DEF Inverts, SafetyInv, DiskEvidence, SummariesSound, LoadedRecords
<1>4. Fate(s) = "done"
  BY <1>1, <1>3 DEF Fate
<1>5. ASSUME NEW p \in Paths, Names(t, p)
      PROVE  /\ Names(s, p) /\ Original(s, p) = Op(t, At(t, p)).data
             /\ Original(s, p) # Op(s, At(s, p)).data
  <2>1. At(t, p) \in 1 .. Len(records[t]) /\ Op(t, At(t, p)).target = p
    BY <1>5, NamedOperation
  <2>0. PICK k \in DOMAIN plans[t].ops : k = At(t, p) /\ plans[t].ops[k] = Op(t, At(t, p))
    BY <1>2, <2>1 DEF Op, Ops
  <2>2. PICK i \in 1 .. Len(records[s]) :
           /\ Op(s, i).target = p /\ records[s][i].original = Op(t, At(t, p)).data
           /\ records[s][i].original # Op(s, i).data
    <3>1. PICK j \in 1 .. Len(Ops(s)) :
             /\ Op(s, j).target = plans[t].ops[k].target
             /\ records[s][j].original = plans[t].ops[k].data
             /\ records[s][j].original # Op(s, j).data
      BY Zenon DEF Inverts
    <3>2. QED
      BY <1>3, <2>0, <2>1, <3>1
  <2>3. Names(s, p) /\ At(s, p) = i
    BY <2>2, FoundByTarget
  <2>4. QED
    BY <2>2, <2>3 DEF Original
<1>6. ASSUME NEW p \in Paths, Names(s, p), Original(s, p) # Op(s, At(s, p)).data
      PROVE  Names(t, p)
  <2>1. At(s, p) \in 1 .. Len(Ops(s)) /\ Op(s, At(s, p)).target = p
    BY <1>3, <1>6, NamedOperation
  <2>2. PICK k \in DOMAIN plans[t].ops : plans[t].ops[k].target = p
    BY <1>6, <2>1 DEF Inverts, Original
  <2>3. QED
    BY <1>2, <2>2 DEF Names, Op, Ops
<1>7. ASSUME NEW p \in Paths
      PROVE  GoalsOf'[t][p] = IF UndosOf[s][p] = GoalsOf[s][p] THEN AnyFile ELSE UndosOf[s][p]
  <2>1. /\ GoalsOf'[t][p] = GoalAt(t, p)'
        /\ UndosOf[s][p] = UndoAt(s, p) /\ GoalsOf[s][p] = GoalAt(s, p)
    BY AbstractAfter DEF UndosOf, GoalsOf
  <2>2. GoalAt(t, p)' = IF Names(t, p) /\ touched[p] = "no" THEN Op(t, At(t, p)).data ELSE AnyFile
    BY BeginEntries
  <2>3. QED
    BY <1>4, <1>5, <1>6, <2>1, <2>2 DEF UndoAt, GoalAt, Known
<1>8. QED
  BY <1>4, <1>7 DEF Atomic!UndoOf, Fates

(* So publishing active.json begins the transaction. *)
LEMMA PublishIsBegin ==
    ASSUME SafetyInv, Next, NEW o \in Outcomes, PublishActive(o), active' # active,
           NEW t \in TxIds, t = cur
    PROVE  Atomic!Begin(t, GoalsOf'[t])
<1>1. /\ active = NoTx /\ active' = t /\ t # NoTx /\ plans[t] # NoPlan
      /\ UNCHANGED <<install, plans, summary, records, launches, touched>>
      /\ Fate(t) = "unused" /\ Fate(t)' = "open"
  BY PublishActiveSteps
<1>2. \A u \in TxIds : u # t => Fate(u)' = Fate(u)
  BY <1>1, SentinelAssumption DEF Fate
<1>3. Fates' = [Fates EXCEPT ![t] = "open"] /\ Fates[t] = "unused"
  BY <1>1, <1>2, AbstractAfter DEF Fates
<1>4. ASSUME NEW u \in TxIds, u # t
      PROVE  GoalsOf'[u] = GoalsOf[u] /\ UndosOf'[u] = UndosOf[u]
  <2>1. Fate(u)' = "unused" <=> Fate(u) = "unused"
    BY <1>2, <1>4
  <2>2. \A p \in Paths : GoalAt(u, p)' = GoalAt(u, p) /\ UndoAt(u, p)' = UndoAt(u, p)
    BY <1>1, <2>1, GoalsKept
  <2>3. QED
    BY <2>2, AbstractAfter DEF GoalsOf, UndosOf
<1>5. GoalsOf' = [GoalsOf EXCEPT ![t] = GoalsOf'[t]]
  BY <1>4, AbstractAfter DEF GoalsOf
<1>6. UndosOf' = [UndosOf EXCEPT ![t] =
          [p \in Paths |-> IF GoalsOf'[t][p] = AnyFile THEN AnyFile ELSE Settled[p]]]
  <2>1. ASSUME NEW p \in Paths
        PROVE  UndoAt(t, p)' = IF GoalsOf'[t][p] = AnyFile THEN AnyFile ELSE Settled[p]
    BY BeginEntries, AbstractAfter DEF Settled
  <2>2. UndosOf'[t] = [p \in Paths |-> IF GoalsOf'[t][p] = AnyFile THEN AnyFile ELSE Settled[p]]
    BY <2>1, AbstractAfter
  <2>3. QED
    BY <1>4, <2>2, AbstractAfter DEF UndosOf
<1>7. Settled' = Settled
  BY BeginEntries, AbstractAfter DEF Settled
<1>8. Atomic!Installs(GoalsOf'[t]) \/ \E s \in TxIds : Atomic!UndoOf(GoalsOf'[t], s)
  <2>1. plans[t] \in InstallPlans \/ \E s \in TxIds : Inverts(plans[t], s)
    BY <1>1 DEF SafetyInv, DiskEvidence, PlanOrigin
  <2>2. QED
    BY <2>1, BeginInstalls, BeginUndoes
<1>9. QED
  BY <1>1, <1>3, <1>5, <1>6, <1>7, <1>8 DEF Atomic!Begin

-----------------------------------------------------------------------------
(* The refinement. *)

(* What the abstract state shows changes in five actions only. *)
LEMMA VisibleSteps ==
    ASSUME SafetyInv, Next, ~UNCHANGED <<active, launches, touched>>
    PROVE  \/ \E o \in Outcomes \ {"lost"} : LaunchRestart(o)
           \/ active' # active /\ \E o \in Outcomes : PublishActive(o) \/ ClearActive(o)
           \/ \E p \in ForeignPaths, file \in File, how \in {"replaced", "edited"} :
                 ForeignWrite(p, file, how)
<1>1. ASSUME NEW o \in Outcomes, PrepareStep(o) PROVE PublishActive(o) /\ active' # active
  BY <1>1 DEF PrepareStep, StartTransaction, PersistPrepared, PrepareOne, EnsureBackup,
              PersistBackupDurable, FailPreparation, PublishActive, ghosts
<1>2. ASSUME NEW o \in Outcomes PROVE ~ApplyStep(o) /\ ~FailedReadStep(o)
  BY DEF ApplyStep, PersistApplying, ApplyIntent, Commit, ApplyCheck, FailApply,
         PersistFilesApplied, FailedReadStep, ApplyRejected, ApplyUnloadable,
         ApplyCheckFailed, RollbackUnloadable, RollbackRejected, RestoreUnverified,
         RestoreCheckFailed, durable, ghosts
<1>3. ASSUME NEW o \in Outcomes PROVE ~RollbackStep(o)
  BY DEF RollbackStep, MarkRollback, RollbackSkip, RollbackIntent, Restore, RestoreCheck,
         MarkRollbackOperationFailed, RecordRollbackFailure, PersistRolledBack, Recover,
         RecordTerminalReconciliationFailure, durable, ghosts
<1>4. ASSUME NEW o \in Outcomes, FinishStep(o)
      PROVE  \/ o # "lost" /\ LaunchRestart(o)
             \/ ClearActive(o) /\ active' # active
  <2>1. CASE LaunchRestart(o)
    <3>1. o # "lost"
      BY <2>1 DEF LaunchRestart, durable
    <3>2. QED
      BY <2>1, <3>1
  <2>2. CASE ClearActive(o)
    BY <2>2 DEF ClearActive, ghosts
  <2>3. QED
    BY <1>4, <2>1, <2>2
       DEF FinishStep, RestartIntent, PersistCompletion, PublishTerminal, ghosts
<1>5. ~ReadStep /\ ~Crash /\ ~(\E r \in Request : Invoke(r))
  BY DEF ReadStep, ReplayTerminal, RejectRollback, RejectStart, PreconditionFailed,
         BackupRejected, SkipApplied, RestartSettled, Invoke, Crash, durable, ghosts
<1>6. QED
  BY <1>1, <1>2, <1>3, <1>4, <1>5 DEF Next, UpdaterStep

(* Before the first invocation nothing has been asked for. *)
LEMMA InitAbstract == Init => Atomic!Init
<1> SUFFICES ASSUME Init PROVE Atomic!Init
  OBVIOUS
<1>1. \A t \in TxIds : Fate(t) = "unused"
  BY SentinelAssumption DEF Init, Fate
<1>2. Settled \in [Paths -> File \union {AnyFile}]
  <2>1. \A p \in Paths : SettledAt(p) = install[p] /\ install[p] \in File
    BY EnvironmentAssumption DEF Init, SettledAt, Known
  <2>2. QED
    BY <2>1 DEF Settled
<1>3. QED
  BY <1>1, <1>2
     DEF Init, Atomic!Init, Atomic!View, Atomic!Nothing, Fates, GoalsOf, UndosOf, GoalAt, UndoAt

(* Every step of the executor is an abstract step or none. *)
LEMMA NextAbstract == SafetyInv /\ [Next]_vars => [Atomic!Next]_Atomic!vars
<1> SUFFICES ASSUME SafetyInv, [Next]_vars PROVE Atomic!Next \/ UNCHANGED Atomic!vars
  OBVIOUS
<1>1. CASE UNCHANGED vars
  <2>1. UNCHANGED <<install, plans, summary, records, active, launches, touched>>
    BY <1>1 DEF vars, durable, ghosts
  <2>2. \A t \in TxIds : Fate(t)' = Fate(t) /\ JournalOf(t)
    BY <2>1 DEF Fate, JournalOf
  <2>3. QED
    BY <2>1, <2>2, AbstractKept
<1>2. CASE Next /\ UNCHANGED <<active, launches, touched>>
  BY <1>2, Invisible
<1>3. CASE Next /\ ~UNCHANGED <<active, launches, touched>>
  <2>1. CASE \E o \in Outcomes \ {"lost"} : LaunchRestart(o)
    BY <1>3, <2>1, LaunchIsRestart DEF Atomic!Next
  <2>2. ASSUME NEW p \in ForeignPaths, NEW file \in File, NEW how \in {"replaced", "edited"},
               ForeignWrite(p, file, how)
        PROVE  Atomic!Next
    <3>1. p \in Paths /\ Atomic!Foreign(p)
      BY <1>3, <2>2, ForeignIsForeign, EnvironmentAssumption
    <3>2. QED
      BY <3>1 DEF Atomic!Next
  <2>3. ASSUME NEW o \in Outcomes, PublishActive(o), active' # active PROVE Atomic!Next
    <3>1. PICK t \in TxIds : t = cur
      BY <2>3 DEF PublishActive, SafetyInv, IndInv, PointInv, WorkingTransaction
    <3>2. Atomic!Begin(t, GoalsOf'[t])
      BY <1>3, <2>3, <3>1, PublishIsBegin
    <3>3. QED
      BY <3>2 DEF Atomic!Next
  <2>4. ASSUME NEW o \in Outcomes, ClearActive(o), active' # active PROVE Atomic!Next
    <3>1. PICK t \in TxIds : t = cur
      BY <2>4 DEF ClearActive, SafetyInv, IndInv, PointInv, WorkingTransaction, PCs
    <3>2. Atomic!Finish(t) \/ Atomic!GiveUp(t)
      BY <1>3, <2>4, <3>1, ClearIsFinish, ClearIsGiveUp
    <3>3. QED
      BY <3>2 DEF Atomic!Next
  <2>5. QED
    BY <1>3, <2>1, <2>2, <2>3, <2>4, VisibleSteps
<1>4. QED
  BY <1>1, <1>2, <1>3

(* For any plans, identities, faults, crashes and foreign writes: the      *)
(* executor behaves like one that installs or gives up whole transactions, *)
(* never gives up one that restarted the application, and rolls back to    *)
(* exactly the files a completed transaction replaced.                     *)
THEOREM ExecutorIsAtomic == Spec => ImplementsAtomicInstall
<1>1. Init => Atomic!Init
  BY InitAbstract
<1>2. SafetyInv /\ [Next]_vars => [Atomic!Next]_Atomic!vars
  BY NextAbstract
<1>3. QED
  BY <1>1, <1>2, SafetyInvariance, PTL DEF Spec, ImplementsAtomicInstall, Atomic!Spec
=============================================================================
