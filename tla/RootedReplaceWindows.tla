------------------------ MODULE RootedReplaceWindows ------------------------
(***************************************************************************)
(* The identity-bound replacement and removal of RootedReplace, as         *)
(* default/RootedFileSystemWindows.cpp performs them: there is no atomic   *)
(* exchange, so the target is compared before a rename that replaces it,   *)
(* and the displaced file is questioned afterwards.  A handle opened       *)
(* without sharing keeps other programs away from its file; one that       *)
(* shares deletion lets them rename or delete it.  Temporary, target and   *)
(* quarantined names are in one directory.                                 *)
(***************************************************************************)
EXTENDS Naturals, FiniteSets

CONSTANTS
    None,
    MaxForeign,     \* bound on changes another program makes to the target
    MaxFaults       \* bound on failing system calls

Files == {"old", "new", "alien"}

VARIABLES
    target,     \* the file the target name refers to
    crash,      \* the files it may refer to after a power failure
    flushed,    \* the prepared file's contents are on the disk
    call,       \* "write", "replace" or "remove"
    expect,     \* RootedEntryExpectation: a file, or None for missing
    pc,
    deleteOnDestroy,
    pub, durable, reconcilable,     \* RootedPublishStatus
    committed, discarded, outcome,
    gone,       \* files that were deleted, by the code or by another program
    overwritten,    \* the code destroyed the other program's file
    placed,     \* what the code was about to do when that file appeared
    touched,    \* the target was changed since it was published
    foreign, faults

publishStatus == <<pub, durable, reconcilable>>
results == <<committed, discarded, outcome>>
names == <<target, crash, gone, overwritten, touched>>
world == <<placed, foreign>>
input == <<call, expect>>
vars == <<target, crash, flushed, call, expect, pc, deleteOnDestroy, pub, durable,
          reconcilable, committed, discarded, outcome, gone, overwritten, placed,
          touched, foreign, faults>>

TypeOK ==
    /\ target \in Files \union {None} /\ crash \subseteq Files \union {None}
    /\ call \in {"write", "replace", "remove"} /\ expect \in {"old", None}
    /\ pub \in {"NotPublished", "Published", "Unknown"}
    /\ {flushed, deleteOnDestroy, durable, reconcilable, overwritten, touched} \subseteq BOOLEAN
    /\ {committed, discarded} \subseteq {"none", "ok", "fail"}
    /\ outcome \in {"running", "ok", "fail"}
    /\ gone \subseteq Files
    /\ foreign \in 0 .. MaxForeign /\ faults \in 0 .. MaxFaults

(* The file a download publishes was flushed by its caller and is not      *)
(* deleted with its handle.                                                *)
Init ==
    /\ call \in {"write", "replace", "remove"} /\ expect \in {"old", None}
    /\ target = expect /\ crash = {expect}
    /\ pc = CASE call = "write" -> "create" [] call = "replace" -> "parents" [] OTHER -> "open"
    /\ flushed = (call = "replace") /\ deleteOnDestroy = FALSE
    /\ pub = "NotPublished" /\ durable = FALSE /\ reconcilable = FALSE
    /\ committed = "none" /\ discarded = "none" /\ outcome = "running"
    /\ gone = {} /\ overwritten = FALSE /\ placed = "none" /\ touched = FALSE
    /\ foreign = 0 /\ faults = 0

-----------------------------------------------------------------------------
Fault == faults < MaxFaults /\ faults' = faults + 1
NoFault == UNCHANGED faults
FailsWhen(reason) == (reason /\ NoFault) \/ Fault

Named(file) == target' = file /\ crash' = crash \union {file}

(* FlushFileBuffers on the directory. *)
FlushDirectory == crash' = {target}

(* A write goes on to discard(); a replacement has no temporary to finish. *)
CommitReturns(result) ==
    /\ committed' = result
    /\ IF call = "write" THEN pc' = "discard" /\ UNCHANGED outcome
                         ELSE pc' = "done" /\ outcome' = result
    /\ UNCHANGED discarded

Goes(next) == pc' = next /\ UNCHANGED results

-----------------------------------------------------------------------------
(* WindowsTemporaryFile, and renameOpenedFile up to the rename. *)

(* Mutant: without a temporary file the result of its commit is returned.  *)
CreateUnreported ==
    /\ pc = "create"
    /\ \/ deleteOnDestroy' = TRUE /\ NoFault /\ Goes("flush")
       \/ Fault /\ UNCHANGED <<deleteOnDestroy, committed, discarded>> /\ pc' = "done" /\ outcome' = committed
    /\ UNCHANGED <<names, flushed, publishStatus, world, input>>

(* createAtomicReplacement and the caller's write. *)
Create ==
    /\ pc = "create"
    /\ \/ deleteOnDestroy' = TRUE /\ NoFault /\ Goes("flush")
       \/ Fault /\ UNCHANGED <<deleteOnDestroy, committed, discarded>> /\ pc' = "done" /\ outcome' = "fail"
    /\ UNCHANGED <<names, flushed, publishStatus, world, input>>

(* Mutant: the contents are left in the cache. *)
FlushSkipped ==
    /\ pc = "flush" /\ NoFault /\ Goes("parents")
    /\ UNCHANGED <<names, flushed, deleteOnDestroy, publishStatus, world, input>>

(* WindowsTemporaryFile::commit flushes before it renames. *)
Flush ==
    /\ pc = "flush"
    /\ \/ flushed' = TRUE /\ NoFault /\ Goes("parents")
       \/ Fault /\ CommitReturns("fail") /\ UNCHANGED flushed
    /\ UNCHANGED <<names, deleteOnDestroy, publishStatus, world, input>>

(* The source and the target must be in the same directory. *)
CompareParents ==
    /\ pc = "parents"
    /\ \/ NoFault /\ Goes(IF expect = None THEN "install" ELSE "exclusive")
       \/ Fault /\ CommitReturns("fail")
    /\ UNCHANGED <<names, flushed, deleteOnDestroy, publishStatus, world, input>>

(* A target expected to be missing: a rename that does not replace. *)
Install ==
    /\ pc = "install"
    /\ \/ /\ target = None /\ Named("new") /\ touched' = FALSE /\ NoFault
          /\ deleteOnDestroy' = FALSE
          /\ pub' = "Published" /\ durable' = FALSE /\ reconcilable' = FALSE
          /\ Goes("flushDirectory")
       \/ /\ FailsWhen(target # None) /\ CommitReturns("fail")
          /\ UNCHANGED <<target, crash, touched, deleteOnDestroy, publishStatus>>
    /\ UNCHANGED <<flushed, gone, overwritten, world, input>>

(* The first comparison, under a handle that shares nothing. *)
OpenExclusively ==
    /\ pc = "exclusive"
    /\ \/ target = expect /\ NoFault /\ Goes("guard")
       \/ FailsWhen(target # expect) /\ CommitReturns("fail")
    /\ UNCHANGED <<names, flushed, deleteOnDestroy, publishStatus, world, input>>

(* Mutant: the target is not compared again. *)
GuardUnchecked ==
    /\ pc = "guard"
    /\ \/ NoFault /\ Goes("acl")
       \/ Fault /\ CommitReturns("fail")
    /\ UNCHANGED <<names, flushed, deleteOnDestroy, publishStatus, world, input>>

(* The second comparison, under a handle that shares deletion and stays.   *)
Guard ==
    /\ pc = "guard"
    /\ \/ target = expect /\ NoFault /\ Goes("acl")
       \/ FailsWhen(target # expect) /\ CommitReturns("fail")
    /\ UNCHANGED <<names, flushed, deleteOnDestroy, publishStatus, world, input>>

(* The target's access control list is copied to the prepared file, which  *)
(* is flushed again.                                                       *)
CopyAcl ==
    /\ pc = "acl"
    /\ \/ flushed' = TRUE /\ NoFault /\ Goes("replace")
       \/ Fault /\ CommitReturns("fail") /\ UNCHANGED flushed
    /\ UNCHANGED <<names, deleteOnDestroy, publishStatus, world, input>>

(* replaceHandleRelative replaces whatever has the target's name. *)
Replace ==
    /\ pc = "replace"
    /\ \/ /\ Named("new") /\ touched' = FALSE /\ NoFault
          /\ gone' = gone \union ({target} \ {None}) /\ overwritten' = (target = "alien")
          /\ deleteOnDestroy' = FALSE
          /\ pub' = "Published" /\ durable' = FALSE /\ reconcilable' = FALSE
          /\ Goes("displaced")
       \/ Fault /\ CommitReturns("fail") /\ UNCHANGED <<names, deleteOnDestroy, publishStatus>>
    /\ UNCHANGED <<flushed, world, input>>

-----------------------------------------------------------------------------
(* renameOpenedFile after the rename *)

(* Mutant: the displaced file is not questioned. *)
DisplacedUnchecked ==
    /\ pc = "displaced" /\ NoFault /\ Goes("named")
    /\ UNCHANGED <<names, flushed, deleteOnDestroy, publishStatus, world, input>>

(* FILE_STANDARD_INFO.DeletePending of the guarded handle tells whether    *)
(* the file that was compared is the one that went.                        *)
QueryDisplaced ==
    /\ pc = "displaced"
    /\ \/ "old" \in gone /\ NoFault /\ Goes("named")
       \/ FailsWhen("old" \notin gone) /\ CommitReturns("fail")
    /\ UNCHANGED <<names, flushed, deleteOnDestroy, publishStatus, world, input>>

(* The target is opened by name and compared with the prepared file.       *)
VerifyNamed ==
    /\ pc = "named"
    /\ \/ target = "new" /\ NoFault /\ Goes("close") /\ UNCHANGED publishStatus
       \/ /\ FailsWhen(target = None) /\ pub' = "Unknown" /\ durable' = FALSE
          /\ reconcilable' = TRUE /\ CommitReturns("fail")
       \/ /\ target \notin {"new", None} /\ NoFault /\ pub' = "Unknown" /\ durable' = FALSE
          /\ reconcilable' = FALSE /\ CommitReturns("fail")
       \/ Fault /\ reconcilable' = TRUE /\ CommitReturns("fail") /\ UNCHANGED <<pub, durable>>
    /\ UNCHANGED <<names, flushed, deleteOnDestroy, world, input>>

CloseBoth ==
    /\ pc = "close"
    /\ \/ NoFault /\ Goes("flushDirectory")
       \/ Fault /\ CommitReturns("fail")
    /\ UNCHANGED <<names, flushed, deleteOnDestroy, publishStatus, world, input>>

(* Mutant: the status says durable before the directory is flushed. *)
FlushPresumed ==
    /\ pc = "flushDirectory" /\ durable' = TRUE /\ reconcilable' = FALSE
    /\ \/ FlushDirectory /\ NoFault /\ CommitReturns("ok")
       \/ Fault /\ CommitReturns("fail") /\ UNCHANGED crash
    /\ UNCHANGED <<target, gone, overwritten, touched, pub, flushed, deleteOnDestroy, world, input>>

(* The directory is flushed; a failure leaves a published file whose       *)
(* durability discard() may still establish.                               *)
FlushPublished ==
    /\ pc = "flushDirectory"
    /\ \/ FlushDirectory /\ NoFault /\ durable' = TRUE /\ reconcilable' = FALSE /\ CommitReturns("ok")
       \/ Fault /\ reconcilable' = TRUE /\ CommitReturns("fail") /\ UNCHANGED <<crash, durable>>
    /\ UNCHANGED <<target, gone, overwritten, touched, pub, flushed, deleteOnDestroy, world, input>>

-----------------------------------------------------------------------------
(* discardTemporary and its caller *)

(* Mutant: the file behind the handle is deleted, published or not. *)
DiscardAlways ==
    /\ pc = "discard" /\ NoFault /\ pc' = "conclude"
    /\ gone' = gone \union {"new"} /\ target' = IF target = "new" THEN None ELSE target
    /\ crash' = {target'} /\ durable' = TRUE /\ discarded' = "ok" /\ deleteOnDestroy' = FALSE
    /\ UNCHANGED <<overwritten, touched, flushed, pub, reconcilable, committed, outcome, world, input>>

(* An unpublished file is deleted through its handle; a publication that   *)
(* is not durable yet gets another flush of its directory.                 *)
Discard ==
    /\ pc = "discard" /\ pc' = "conclude"
    /\ \/ /\ NoFault /\ deleteOnDestroy' = FALSE
          /\ gone' = IF deleteOnDestroy THEN gone \union {"new"} ELSE gone
          /\ IF deleteOnDestroy \/ (pub # "NotPublished" /\ ~durable)
               THEN FlushDirectory /\ durable' = TRUE
               ELSE UNCHANGED <<crash, durable>>
          /\ discarded' = "ok"
       \/ /\ Fault /\ discarded' = "fail"
          /\ deleteOnDestroy' \in {deleteOnDestroy, FALSE}
          /\ gone' = IF deleteOnDestroy # deleteOnDestroy' THEN gone \union {"new"} ELSE gone
          /\ UNCHANGED <<crash, durable>>
    /\ UNCHANGED <<target, overwritten, touched, flushed, pub, reconcilable, committed, outcome, world, input>>

Reconciles == pub # "NotPublished" /\ durable /\ reconcilable

Conclude ==
    /\ pc = "conclude" /\ pc' = "done"
    /\ \/ /\ outcome' = (IF discarded = "fail" THEN "fail"
                         ELSE IF committed = "ok" THEN "ok"
                         ELSE IF Reconciles /\ target = "new" THEN "ok" ELSE "fail")
          /\ NoFault
       \/ committed = "fail" /\ Fault /\ outcome' = "fail"
    /\ UNCHANGED <<names, flushed, deleteOnDestroy, publishStatus, committed, discarded, world, input>>

-----------------------------------------------------------------------------
(* removeRegularFile *)

Returns(result) == pc' = "done" /\ outcome' = result /\ UNCHANGED <<committed, discarded>>

(* Opened without sharing: from here on nobody else touches this file. *)
OpenRemoved ==
    /\ pc = "open"
    /\ \/ target = expect /\ expect # None /\ NoFault /\ Goes("quarantine") /\ UNCHANGED crash
       \/ target = None /\ expect = None /\ FlushDirectory /\ NoFault /\ Returns("ok")
       \/ FailsWhen(target # expect) /\ Returns("fail") /\ UNCHANGED crash
    /\ UNCHANGED <<target, gone, overwritten, touched, flushed, deleteOnDestroy, publishStatus, world, input>>

Quarantine ==
    /\ pc = "quarantine"
    /\ \/ Named(None) /\ touched' = FALSE /\ NoFault /\ Goes("flushQuarantined")
       \/ Fault /\ Returns("fail") /\ UNCHANGED <<target, crash, touched>>
    /\ UNCHANGED <<gone, overwritten, flushed, deleteOnDestroy, publishStatus, world, input>>

FlushQuarantined ==
    /\ pc = "flushQuarantined"
    /\ \/ FlushDirectory /\ NoFault /\ Goes("delete")
       \/ Fault /\ Returns("fail") /\ UNCHANGED crash
    /\ UNCHANGED <<target, gone, overwritten, touched, flushed, deleteOnDestroy, publishStatus, world, input>>

DeleteQuarantined ==
    /\ pc = "delete"
    /\ \/ gone' = gone \union {"old"} /\ FlushDirectory /\ NoFault /\ Returns("ok")
       \/ Fault /\ gone' \in {gone, gone \union {"old"}} /\ Returns("fail") /\ UNCHANGED crash
    /\ UNCHANGED <<target, overwritten, touched, flushed, deleteOnDestroy, publishStatus, world, input>>

-----------------------------------------------------------------------------
(* While the target is open without sharing, nobody else can change it. *)
Held == call = "remove" /\ pc = "quarantine"

(* Another program moves or deletes the target's file, or both and puts    *)
(* its own in its place.                                                   *)
Foreign ==
    /\ foreign < MaxForeign /\ outcome = "running" /\ ~Held
    /\ foreign' = foreign + 1 /\ touched' = TRUE
    /\ gone' \in {gone, gone \union ({target} \ {None})}
    /\ \/ placed = "none" /\ Named("alien") /\ placed' = pc
       \/ target # None /\ Named(None) /\ UNCHANGED placed
    /\ UNCHANGED <<overwritten, flushed, deleteOnDestroy, publishStatus, results, input, pc, faults>>

Operation ==
    \/ Create \/ Flush \/ CompareParents \/ Install \/ OpenExclusively \/ Guard \/ CopyAcl
    \/ Replace \/ QueryDisplaced \/ VerifyNamed \/ CloseBoth \/ FlushPublished
    \/ Discard \/ Conclude
    \/ OpenRemoved \/ Quarantine \/ FlushQuarantined \/ DeleteQuarantined

Next == Operation \/ Foreign

Spec == Init /\ [][Next]_vars

-----------------------------------------------------------------------------
(* Properties *)

(* Success is a durability acknowledgement, as on POSIX. *)
AcknowledgedIsDurable ==
    outcome = "ok" /\ ~touched =>
        IF call = "remove" THEN crash = {None} ELSE crash = {"new"} /\ flushed

(* "a stale expectation is never knowingly applied"                        *)
(* (RootedFileSystemWindows.cpp): another program's file is overwritten    *)
(* only if it appeared after the target was compared for the second time.  *)
StaleExpectationNotApplied ==
    overwritten => placed \in {"acl", "replace"}

(* A replacement succeeds only if the file the caller expected is the one  *)
(* that is gone: one that another program moved away in time is noticed.   *)
SuccessDisplacedExpected ==
    outcome = "ok" /\ expect = "old" => "old" \in gone

(* discard() "never removes a published target" (IRootedFileSystem.h). *)
PublishedNeverDiscarded == "new" \in gone => pub = "NotPublished" \/ foreign > 0

(* publishStatus() tells the truth when no other program interferes.       *)
StatusTruthful ==
    committed # "none" /\ foreign = 0 =>
        /\ pub = "NotPublished" => target = expect
        /\ pub # "NotPublished" => target = "new"
        /\ durable /\ pub # "NotPublished" => crash = {"new"}
=============================================================================
