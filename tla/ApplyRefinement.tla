--------------------------- MODULE ApplyRefinement ---------------------------
(***************************************************************************)
(* ApplyTransaction implements AtomicInstall.  While a transaction is      *)
(* active the files to rely on are its journaled originals, whatever is on *)
(* disk; they change when active.json is cleared.                          *)
(***************************************************************************)
EXTENDS ApplyInvariants

Known(p, file) == IF touched[p] = "no" THEN file ELSE AnyFile

(* The prepared operation of t on path p, and the file it found there. *)
Names(t, p) == \E i \in 1 .. Len(records[t]) : Op(t, i).target = p
At(t, p) == CHOOSE i \in 1 .. Len(records[t]) : Op(t, i).target = p
Original(t, p) == records[t][At(t, p)].original

(* A transaction counts from the moment active.json named it. *)
Fate(t) ==
    IF active = t THEN IF launches[t] > 0 THEN "restarted" ELSE "open"
    ELSE IF summary[t] = NoSummary THEN "unused"
    ELSE IF summary[t].fileState = "Complete" THEN "done"
    ELSE IF summary[t].fileState = "RolledBack" THEN "undone"
    ELSE "unused"

(* Nothing is asked of a path that t does not name. *)
GoalAt(t, p) ==
    IF Fate(t) # "unused" /\ Names(t, p) THEN Known(p, Op(t, At(t, p)).data) ELSE AnyFile
UndoAt(t, p) ==
    IF Fate(t) # "unused" /\ Names(t, p) THEN Known(p, Original(t, p)) ELSE AnyFile
SettledAt(p) ==
    Known(p, IF active # NoTx /\ Names(active, p) THEN Original(active, p) ELSE install[p])

Fates == [t \in TxIds |-> Fate(t)]
GoalsOf == [t \in TxIds |-> [p \in Paths |-> GoalAt(t, p)]]
UndosOf == [t \in TxIds |-> [p \in Paths |-> UndoAt(t, p)]]
Settled == [p \in Paths |-> SettledAt(p)]

GoalOfPlan(plan) == [p \in Paths |->
    IF \E i \in DOMAIN plan.ops : plan.ops[i].target = p
    THEN plan.ops[CHOOSE i \in DOMAIN plan.ops : plan.ops[i].target = p].data
    ELSE AnyFile]

Atomic == INSTANCE AtomicInstall WITH
    Unknown <- AnyFile,
    Goals <- {GoalOfPlan(plan) : plan \in InstallPlans},
    files <- Settled,
    current <- active,
    fate <- Fates,
    goal <- GoalsOf,
    undo <- UndosOf

(* Over crashes, failed writes, repeated invocations and foreign writes    *)
(* the executor behaves like one that installs or rolls back whole         *)
(* transactions: all of a plan's files change or none does, a transaction  *)
(* that restarted the application is never given up, and an explicit       *)
(* rollback puts back exactly what its source replaced.                    *)
ImplementsAtomicInstall == Atomic!Spec
=============================================================================
