------------------------------ MODULE MCRooted ------------------------------
(***************************************************************************)
(* One call on the rooted file system of either platform.  The callers see *)
(* the same handle and the same RootedPublishStatus on both, so the two    *)
(* protocols share the variables they have in common and are held to the   *)
(* same promises.                                                          *)
(***************************************************************************)
EXTENDS RootedReplace

VARIABLES
    platform,   \* which implementation of IRootedFileSystem was built
    target, deleteOnDestroy, overwritten, placed    \* RootedReplaceWindows

windowsOnly == <<target, deleteOnDestroy, overwritten, placed>>
posixOnly == <<entry, present, identity, private, alien, torn>>

Windows == INSTANCE RootedReplaceWindows

MCInit ==
    \/ /\ platform = "posix" /\ Init
       /\ target = None /\ deleteOnDestroy = FALSE /\ overwritten = FALSE /\ placed = "none"
    \/ /\ platform = "windows" /\ Windows!Init
       /\ entry = <<>> /\ present = FALSE /\ identity = "new" /\ private = "absent"
       /\ alien = "none" /\ torn = FALSE

PosixFrame == platform = "posix" /\ UNCHANGED <<platform, windowsOnly>>
WindowsFrame == platform = "windows" /\ UNCHANGED <<platform, posixOnly>>

MCNext == (PosixFrame /\ Next) \/ (WindowsFrame /\ Windows!Next)

mcVars == <<vars, platform, windowsOnly>>

MCSpec == MCInit /\ [][MCNext]_mcVars

-----------------------------------------------------------------------------
(* commit(), discard() and the callers that reconcile a failed commit: in  *)
(* every order of failing calls, a success is durable, publishStatus()     *)
(* tells the truth, and the old file is given up only after the new one is *)
(* safe.                                                                   *)
ReplacementIsDurable ==
    IF platform = "posix"
      THEN TypeOK /\ AcknowledgedIsDurable /\ StatusTruthful /\ GivenUpOnlyWhenDurable
      ELSE Windows!TypeOK /\ Windows!AcknowledgedIsDurable /\ Windows!StatusTruthful

(* Nobody's file is lost: not one that another program put in place while  *)
(* the call was running (on Windows up to the second comparison), and not  *)
(* the published target when the call is discarded.                        *)
NoFileIsLost ==
    IF platform = "posix"
      THEN ForeignFileKept /\ PublishedNeverDiscarded
      ELSE /\ Windows!StaleExpectationNotApplied /\ Windows!SuccessDisplacedExpected
           /\ Windows!PublishedNeverDiscarded
=============================================================================
