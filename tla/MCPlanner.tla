------------------------------ MODULE MCPlanner ------------------------------
(***************************************************************************)
(* An instance of UpdatePlanner.  The contents that manifests list are     *)
(* interchangeable; the first installation holds none of them yet.         *)
(***************************************************************************)
EXTENDS UpdatePlanner, TLC

FirstInstallations == [Targets -> {Other, Missing}]
Symmetric == Permutations(Hashes)
=============================================================================
