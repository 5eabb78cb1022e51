------------------------------- MODULE MCApply -------------------------------
(* Small instances of ApplyTransaction for TLC. *)
EXTENDS ApplyRefinement, TLC

Change(target, data) == [target |-> target, data |-> data, pre |-> AnyFile]

InstallPlan(ops, restart, dir) ==
    [intent |-> "Install", rollbackOf |-> NoTx, ops |-> ops,
     restart |-> restart, backupDir |-> dir]

(* Replaces one file, creates or removes the other, restarts. *)
Upgrade == InstallPlan(<<Change("app", "v1"), Change("lib", "v1")>>, TRUE, "dirA")
Removal == InstallPlan(<<Change("lib", Missing), Change("app", "v1")>>, TRUE, "dirA")
(* The same release planned from other local files: same backup directory. *)
Repair == InstallPlan(<<Change("app", "v1")>>, FALSE, "dirA")

MCPaths == {"app", "lib"}
MCContents == {"v0", "v1", "v2"}
MCFresh == [p \in MCPaths |-> IF p = "app" THEN "v0" ELSE Missing]
MCFull == [p \in MCPaths |-> "v0"]
JustRemoval == {Removal}
TwoPlans == {Upgrade, Repair}
Symmetric == Permutations(TxIds)
=============================================================================
