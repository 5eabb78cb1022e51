------------------------------ MODULE MCFacade ------------------------------
(* Small instances of UpdaterFacade for TLC. *)
EXTENDS UpdaterFacade

From(pendingUpdate, kind, release) ==
    [pending |-> pendingUpdate, receipt |-> [kind |-> kind, release |-> release]]

(* Nothing was ever installed; the running release was just installed and  *)
(* awaits confirmation; a release was prepared and never applied.          *)
UsualStarts ==
    {From(None, "none", None), From(Running, "install", Running),
     From("r1", "install", Running)}

(* The running release was restored by a rollback of r1, and the pending   *)
(* update is, or is not, reconciled yet.                                   *)
AfterRollback == {From("r1", "rollback", "r1"), From(None, "rollback", "r1")}

AllStarts == UsualStarts \union AfterRollback
=============================================================================
