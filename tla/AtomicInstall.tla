---------------------------- MODULE AtomicInstall ----------------------------
(***************************************************************************)
(* What the external updater promises of an installation.  A transaction   *)
(* changes the managed files in one step or not at all; once it has        *)
(* restarted the application it can no longer be given up; the files it    *)
(* replaced can be put back later by another transaction.  A path another  *)
(* program wrote is Unknown from then on and nothing is promised of it.    *)
(***************************************************************************)
CONSTANTS
    Paths, File, TxIds, NoTx,
    Unknown,    \* nothing is known, or nothing is asked, of a path
    Goals       \* the file sets an installation may ask for

VARIABLES
    files,      \* the installation as the application may rely on it
    current,    \* the transaction in progress
    fate,       \* what became of each transaction
    goal,       \* goal[t][p]: what t installs at p
    undo        \* undo[t][p]: what was at p before t

vars == <<files, current, fate, goal, undo>>

View == [Paths -> File \union {Unknown}]
Nothing == [p \in Paths |-> Unknown]

Init ==
    /\ files \in View
    /\ current = NoTx
    /\ fate = [t \in TxIds |-> "unused"]
    /\ goal = [t \in TxIds |-> Nothing]
    /\ undo = [t \in TxIds |-> Nothing]

(* g asks for a release; paths that are Unknown stay out of the promise. *)
Installs(g) == \E h \in Goals : g = [p \in Paths |-> IF files[p] = Unknown THEN Unknown ELSE h[p]]

(* g puts back everything the finished transaction s changed. *)
UndoOf(g, s) ==
    /\ fate[s] = "done"
    /\ \A p \in Paths :
          g[p] = IF undo[s][p] = goal[s][p] THEN Unknown ELSE undo[s][p]

Begin(t, g) ==
    /\ current = NoTx /\ fate[t] = "unused"
    /\ Installs(g) \/ \E s \in TxIds : UndoOf(g, s)
    /\ current' = t
    /\ fate' = [fate EXCEPT ![t] = "open"]
    /\ goal' = [goal EXCEPT ![t] = g]
    /\ undo' = [undo EXCEPT ![t] =
                  [p \in Paths |-> IF g[p] = Unknown THEN Unknown ELSE files[p]]]
    /\ UNCHANGED files

Restart(t) ==
    /\ current = t /\ fate[t] = "open"
    /\ fate' = [fate EXCEPT ![t] = "restarted"]
    /\ UNCHANGED <<files, current, goal, undo>>

Finish(t) ==
    /\ current = t
    /\ current' = NoTx
    /\ fate' = [fate EXCEPT ![t] = "done"]
    /\ files' = [p \in Paths |-> IF goal[t][p] = Unknown THEN files[p] ELSE goal[t][p]]
    /\ UNCHANGED <<goal, undo>>

GiveUp(t) ==
    /\ current = t /\ fate[t] = "open"
    /\ current' = NoTx
    /\ fate' = [fate EXCEPT ![t] = "undone"]
    /\ UNCHANGED <<files, goal, undo>>

Foreign(p) ==
    /\ files' = [files EXCEPT ![p] = Unknown]
    /\ goal' = [t \in TxIds |-> [goal[t] EXCEPT ![p] = Unknown]]
    /\ undo' = [t \in TxIds |-> [undo[t] EXCEPT ![p] = Unknown]]
    /\ UNCHANGED <<current, fate>>

Next ==
    \/ \E t \in TxIds : Restart(t) \/ Finish(t) \/ GiveUp(t) \/ Begin(t, goal'[t])
    \/ \E p \in Paths : Foreign(p)

Spec == Init /\ [][Next]_vars
=============================================================================
