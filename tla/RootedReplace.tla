---------------------------- MODULE RootedReplace ----------------------------
(***************************************************************************)
(* The identity-bound replacement and removal of one file below an opened  *)
(* directory, as default/RootedFileSystemPosix.cpp performs them, and the  *)
(* caller that prepares, commits, discards and reconciles a replacement    *)
(* (default/StdFileSystem.cpp).  A step is one system call, or a group of  *)
(* calls between which no other program can tell the difference.  Another  *)
(* program may change the target at any moment, any call may fail, and the *)
(* power may fail: crash[s] holds every content the name s can have after  *)
(* the machine restarts, that is, its contents since its directory was     *)
(* last synchronised.                                                      *)
(***************************************************************************)
EXTENDS Naturals, FiniteSets, Functions

CONSTANTS
    None,
    MaxForeign,     \* bound on changes another program makes to the target
    MaxFaults       \* bound on failing system calls

ASSUME RootedAssumption ==
    /\ None \notin {"old", "new", "src", "alien"}
    /\ MaxForeign \in Nat /\ MaxFaults \in Nat

(* The target and the open source share a directory; the payload lives in  *)
(* a private directory beside them, a quarantined file in another.         *)
DirOf == [target |-> "parent", source |-> "parent",
          payload |-> "private", quarantine |-> "quarantine"]
Slots == DOMAIN DirOf
Files == {"old", "new", "src", "alien"}

VARIABLES
    entry,      \* the file each name refers to
    crash,      \* the files it may refer to after a power failure
    flushed,    \* files whose contents are on the disk
    call,       \* "write", "replace" or "remove"
    expect,     \* RootedEntryExpectation: a file, or None for missing
    pc,
    pub, durable, reconcilable,     \* RootedPublishStatus
    present, identity,              \* PosixTemporaryFile::payloadPresent_, payloadIdentity_
    private,    \* the private directory: "absent", "present", "removed" or "cleaned"
    committed, discarded,           \* what commit() and discard() returned
    outcome,
    gone,       \* files the code has unlinked
    touched,    \* another program changed the target since it was published
    alien,      \* the other program's file: "none", "live" or "removed" by it
    foreign, faults, torn           \* counters; a directory could not be synchronised

publishStatus == <<pub, durable, reconcilable>>
handle == <<present, identity>>
names == <<entry, crash, gone>>
results == <<committed, discarded, outcome>>
world == <<touched, alien, foreign>>
failures == <<faults, torn>>
vars == <<entry, crash, flushed, call, expect, pc, pub, durable, reconcilable, present,
          identity, private, committed, discarded, outcome, gone, touched, alien,
          foreign, faults, torn>>

TypeOK ==
    /\ entry \in [Slots -> Files \union {None}]
    /\ crash \in [Slots -> SUBSET (Files \union {None})]
    /\ flushed \subseteq Files /\ gone \subseteq Files
    /\ call \in {"write", "replace", "remove"} /\ expect \in {"old", None}
    /\ pub \in {"NotPublished", "Published", "Unknown"}
    /\ {durable, reconcilable, present, touched, torn} \subseteq BOOLEAN
    /\ identity \in {"old", "new"}
    /\ private \in {"absent", "present", "removed", "cleaned"}
    /\ {committed, discarded} \subseteq {"none", "ok", "fail"}
    /\ outcome \in {"running", "ok", "fail"}
    /\ alien \in {"none", "live", "removed"}
    /\ foreign \in 0 .. MaxForeign /\ faults \in 0 .. MaxFaults

(* The caller has inspected the target and expects to find it unchanged. *)
Init ==
    /\ call \in {"write", "replace", "remove"}
    /\ expect \in {"old", None}
    /\ entry = [target |-> expect,
                source |-> IF call = "replace" THEN "src" ELSE None,
                payload |-> None, quarantine |-> None]
    /\ crash = [s \in Slots |-> {entry[s]}]
    /\ flushed = {"old", "src", "alien"}
    /\ pc = IF call = "remove" THEN "open" ELSE "namespace"
    /\ pub = "NotPublished" /\ durable = FALSE /\ reconcilable = FALSE
    /\ present = TRUE /\ identity = "new" /\ private = "absent"
    /\ committed = "none" /\ discarded = "none" /\ outcome = "running"
    /\ gone = {} /\ touched = FALSE /\ alien = "none"
    /\ foreign = 0 /\ faults = 0 /\ torn = FALSE

-----------------------------------------------------------------------------
(* Names and directories. *)

(* The names after a rename, an exchange or an unlink. *)
Now(e) ==
    /\ entry' = e
    /\ crash' = [s \in Slots |-> crash[s] \union {e[s]}]

Exchanged(a, b) == [entry EXCEPT ![a] = entry[b], ![b] = entry[a]]
Renamed(a, b) == [entry EXCEPT ![a] = None, ![b] = entry[a]]

(* renameat2(RENAME_NOREPLACE) and renameat2(RENAME_EXCHANGE). *)
CanRename(a, b) == entry[a] # None /\ entry[b] = None
CanExchange(a, b) == entry[a] # None /\ entry[b] # None

(* syncDirectory: what the names of these directories are now is durable. *)
Synced(dirs) ==
    crash' = [s \in Slots |-> IF DirOf[s] \in dirs THEN {entry[s]} ELSE crash[s]]

Fault == faults < MaxFaults /\ faults' = faults + 1
NoFault == UNCHANGED faults

(* A call that fails for a reason, or because the system call failed. *)
FailsWhen(reason) == (reason /\ NoFault) \/ Fault

-----------------------------------------------------------------------------
(* createAtomicReplacement *)

(* Nothing is published yet: the caller gives up. *)
GivesUp == pc' = "done" /\ outcome' = "fail" /\ UNCHANGED <<committed, discarded>>

(* createPrivateNamespace: made, opened, secured, compared with its name   *)
(* and synchronised together with its parent.  A failure may leave it.     *)
CreateNamespace ==
    /\ pc = "namespace"
    /\ \/ private' = "present" /\ Synced({"parent", "private"}) /\ pc' = "payload" /\ NoFault /\ UNCHANGED results
       \/ Fault /\ private' \in {"absent", "present", "cleaned"} /\ GivesUp /\ UNCHANGED crash
    /\ UNCHANGED <<entry, gone, flushed, publishStatus, handle, world, call, expect, torn>>

(* The payload is created exclusively and must be a regular file with one  *)
(* link; a namespace without its payload is removed when it is destroyed.  *)
CreatePayload ==
    /\ pc = "payload"
    /\ \/ Now([entry EXCEPT !.payload = "new"]) /\ pc' = "fill" /\ NoFault /\ UNCHANGED <<private, results>>
       \/ Fault /\ private' \in {"present", "cleaned"} /\ GivesUp /\ UNCHANGED <<entry, crash>>
    /\ UNCHANGED <<gone, flushed, publishStatus, handle, world, call, expect, torn>>

(* The caller writes the contents, or copyOpenedFile does. *)
FillPayload ==
    /\ pc = "fill"
    /\ \/ pc' = "flush" /\ NoFault /\ UNCHANGED committed
       \/ Fault /\ committed' = "fail" /\ pc' = "discard"
    /\ UNCHANGED <<names, flushed, publishStatus, handle, world, call, expect, private, discarded, outcome, torn>>

-----------------------------------------------------------------------------
(* commitPrivateTemporary *)

CommitReturns(result) ==
    /\ committed' = result /\ pc' = "discard"
    /\ UNCHANGED <<discarded, outcome>>

(* Mutant: the payload is published without being flushed. *)
FlushSkipped ==
    /\ pc = "flush" /\ pc' = "check"
    /\ UNCHANGED <<names, flushed, publishStatus, handle, results, world, call, expect, private, failures>>

(* PosixTemporaryFile::commit flushes the payload first. *)
Flush ==
    /\ pc = "flush"
    /\ \/ flushed' = flushed \union {"new"} /\ pc' = "check" /\ NoFault /\ UNCHANGED results
       \/ Fault /\ CommitReturns("fail") /\ UNCHANGED flushed
    /\ UNCHANGED <<names, publishStatus, handle, world, call, expect, private, torn>>

(* The parent is opened again and must be the same directory; the payload  *)
(* must have one link and its name must still refer to it.                 *)
Check ==
    /\ pc = "check"
    /\ \/ pc' = "publish" /\ NoFault /\ UNCHANGED results
       \/ Fault /\ CommitReturns("fail")
    /\ UNCHANGED <<names, flushed, publishStatus, handle, world, call, expect, private, torn>>

(* What the step that changes the target does apart from its marks. *)
PublishName ==
    /\ pc = "publish"
    /\ IF expect = None THEN CanRename("payload", "target") ELSE CanExchange("payload", "target")
    /\ Now(IF expect = None THEN Renamed("payload", "target") ELSE Exchanged("payload", "target"))
    /\ present' = (expect # None) /\ touched' = FALSE
    /\ pub' = "Published" /\ reconcilable' = TRUE
    /\ UNCHANGED <<flushed, call, expect, private, results, gone, alien, foreign, failures>>

(* Mutants: the handle remembers whatever it displaced; the displaced file *)
(* is dealt with before the directories are synchronised; the publication  *)
(* is called durable before they are.                                      *)
PublishTrusting ==
    /\ PublishName /\ durable' = FALSE /\ pc' = "syncPublished"
    /\ identity' = IF expect = None THEN identity ELSE entry.target
PublishUnsynced ==
    /\ PublishName /\ durable' = FALSE /\ pc' = "verify"
    /\ identity' = IF expect = None THEN identity ELSE expect
PublishDeclaredDurable ==
    /\ PublishName /\ durable' = TRUE /\ pc' = "syncPublished"
    /\ identity' = IF expect = None THEN identity ELSE expect

(* The target changes before anything is known of what it was. *)
Publish ==
    /\ PublishName /\ durable' = FALSE /\ pc' = "syncPublished"
    /\ identity' = IF expect = None THEN identity ELSE expect

(* EEXIST for a target expected missing, ENOENT for one that disappeared,  *)
(* or any other failure of the call.                                       *)
PublishRefused ==
    /\ pc = "publish"
    /\ FailsWhen((entry.target # None) = (expect = None))
    /\ CommitReturns("fail")
    /\ UNCHANGED <<names, flushed, publishStatus, handle, world, call, expect, private, torn>>

(* syncNamespaceMutation: the first directory, then the second. *)
SyncPublished ==
    /\ pc = "syncPublished"
    /\ \/ /\ Synced({"parent", "private"}) /\ NoFault
          /\ durable' = TRUE /\ reconcilable' = FALSE
          /\ pc' = "verify" /\ UNCHANGED <<results, torn>>
       \/ /\ Fault /\ torn' = TRUE
          /\ \E first \in {{}, {"parent"}} : Synced(first)
          /\ CommitReturns("fail") /\ UNCHANGED <<durable, reconcilable>>
    /\ UNCHANGED <<entry, gone, flushed, handle, pub, world, call, expect, private>>

(* verifyEntryIdentity: the target is the payload, and what the exchange   *)
(* displaced is what the caller expected.                                  *)
Verified ==
    /\ entry.target = "new"
    /\ expect # None => entry.payload = expect

Verify ==
    /\ pc = "verify"
    /\ \/ Verified /\ NoFault /\ pc' = IF expect = None THEN "cleanup" ELSE "removeOld"
       \/ ~Verified /\ NoFault /\ pc' = "reverse"
       \/ Fault /\ pc' = "reverse"
    /\ UNCHANGED <<names, flushed, publishStatus, handle, results, world, call, expect, private, torn>>

(* What was displaced goes back, and the payload becomes temporary again. *)
Reverse ==
    /\ pc = "reverse"
    /\ IF expect = None THEN CanRename("target", "payload") ELSE CanExchange("target", "payload")
    /\ Now(IF expect = None THEN Renamed("target", "payload") ELSE Exchanged("target", "payload"))
    /\ present' = TRUE /\ identity' = "new"
    /\ pub' = "NotPublished" /\ durable' = FALSE /\ reconcilable' = FALSE
    /\ pc' = "syncReversed"
    /\ UNCHANGED <<flushed, call, expect, private, results, gone, world, failures>>

ReverseFails ==
    /\ pc = "reverse"
    /\ FailsWhen(entry.target = None)
    /\ pub' = "Unknown" /\ durable' = FALSE /\ reconcilable' = FALSE
    /\ CommitReturns("fail")
    /\ UNCHANGED <<names, flushed, handle, world, call, expect, private, torn>>

SyncReversed ==
    /\ pc = "syncReversed"
    /\ \/ Synced({"parent", "private"}) /\ durable' = TRUE /\ NoFault /\ UNCHANGED torn
       \/ Fault /\ torn' = TRUE /\ UNCHANGED <<crash, durable>>
    /\ CommitReturns("fail")
    /\ UNCHANGED <<entry, gone, flushed, pub, reconcilable, handle, world, call, expect, private>>

(* removeEntryWithIdentity on the displaced file.  If it cannot be removed *)
(* the exchange is reversed; if it was removed and the directory could not *)
(* be synchronised, the failure can be reconciled.                         *)
RemoveOld ==
    /\ pc = "removeOld"
    /\ entry' = [entry EXCEPT !.payload = None] /\ gone' = gone \union {entry.payload}
    /\ present' = FALSE
    /\ \/ /\ crash' = [crash EXCEPT !.payload = {None}] /\ NoFault
          /\ pc' = "cleanup" /\ UNCHANGED <<reconcilable, results, torn>>
       \/ /\ crash' = [crash EXCEPT !.payload = @ \union {None}] /\ Fault /\ torn' = TRUE
          /\ reconcilable' = TRUE /\ CommitReturns("fail")
    /\ UNCHANGED <<flushed, pub, durable, identity, world, call, expect, private>>

RemoveOldFails ==
    /\ pc = "removeOld" /\ Fault
    /\ pc' = "reverse"
    /\ UNCHANGED <<names, flushed, publishStatus, handle, results, world, call, expect, private, torn>>

(* cleanupDirectory, within commit.  A target that was missing is already  *)
(* installed and verified, so its commit succeeds all the same.            *)
Cleanup ==
    /\ pc = "cleanup"
    /\ \/ private' = "cleaned" /\ Synced({"parent"}) /\ NoFault /\ CommitReturns("ok") /\ UNCHANGED torn
       \/ /\ Fault /\ \E p \in {"present", "removed"} : private' = p /\ torn' = (torn \/ p = "removed")
          /\ CommitReturns(IF expect = None THEN "ok" ELSE "fail") /\ UNCHANGED crash
    /\ UNCHANGED <<entry, gone, flushed, publishStatus, handle, world, call, expect>>

-----------------------------------------------------------------------------
(* discard *)

(* Mutants: whatever the payload name refers to is removed; the target of  *)
(* a failed commit is removed too.                                         *)
DiscardBlindly ==
    /\ pc = "discard" /\ pc' = "discardDirectory"
    /\ entry' = [entry EXCEPT !.payload = None]
    /\ crash' = [crash EXCEPT !.payload = {None}]
    /\ gone' = gone \union ({entry.payload} \ {None}) /\ present' = FALSE
    /\ UNCHANGED <<flushed, publishStatus, identity, results, world, call, expect, private, failures>>

DiscardUndoes ==
    /\ pc = "discard" /\ pc' = "discardDirectory"
    /\ LET undone == IF committed = "fail" /\ entry.target = "new"
                       THEN {"target", "payload"} ELSE {"payload"}
       IN /\ Now([s \in Slots |-> IF s \in undone THEN None ELSE entry[s]])
          /\ gone' = gone \union ({entry[s] : s \in undone} \ {None})
    /\ present' = FALSE
    /\ UNCHANGED <<flushed, publishStatus, identity, results, world, call, expect, private, failures>>

(* The payload name is removed only if it refers to the file the handle    *)
(* remembers: its own, or the one it displaced.                            *)
DiscardPayload ==
    /\ pc = "discard" /\ pc' = "discardDirectory"
    /\ \/ ~present /\ NoFault /\ UNCHANGED <<names, present, discarded, torn>>
       \/ /\ present /\ entry.payload = identity
          /\ entry' = [entry EXCEPT !.payload = None] /\ gone' = gone \union {identity}
          /\ present' = FALSE
          /\ \/ crash' = [crash EXCEPT !.payload = {None}] /\ NoFault /\ UNCHANGED <<discarded, torn>>
             \/ /\ crash' = [crash EXCEPT !.payload = @ \union {None}] /\ Fault
                /\ torn' = TRUE /\ discarded' = "fail"
       \/ /\ present /\ FailsWhen(entry.payload # identity)
          /\ discarded' = "fail" /\ UNCHANGED <<names, present, torn>>
    /\ UNCHANGED <<flushed, publishStatus, identity, committed, outcome, world, call, expect, private>>

(* cleanupDirectory and the closes.  Removing the private directory        *)
(* synchronises the target's directory.                                    *)
DiscardDirectory ==
    /\ pc = "discardDirectory" /\ pc' = "conclude"
    /\ \/ /\ private = "cleaned" \/ entry.payload = None
          /\ NoFault /\ private' = "cleaned"
          /\ IF private = "cleaned" THEN UNCHANGED crash ELSE Synced({"parent"})
          /\ durable' = (durable \/ pub # "Unknown")
          /\ discarded' = IF discarded = "fail" THEN "fail" ELSE "ok"
          /\ UNCHANGED torn
       \/ /\ private # "cleaned" /\ FailsWhen(entry.payload # None)
          /\ torn' = (torn \/ entry.payload = None)
          /\ discarded' = "fail" /\ UNCHANGED <<crash, durable, private>>
    /\ UNCHANGED <<entry, gone, flushed, pub, reconcilable, handle, committed, outcome, world, call, expect>>

-----------------------------------------------------------------------------
(* The callers. *)

(* The caller may discharge a failed commit that was published, durably,   *)
(* and that says it can be reconciled, by finding its own file in place.   *)
Reconciles == pub # "NotPublished" /\ durable /\ reconcilable

ConcludeWrite ==
    /\ pc = "conclude" /\ call = "write" /\ pc' = "done"
    /\ \/ /\ outcome' = (IF discarded = "fail" THEN "fail"
                         ELSE IF committed = "ok" THEN "ok"
                         ELSE IF Reconciles /\ entry.target = "new" THEN "ok" ELSE "fail")
          /\ NoFault
       \/ committed = "fail" /\ Fault /\ outcome' = "fail"
    /\ UNCHANGED <<names, flushed, publishStatus, handle, committed, discarded, world, call, expect, private, torn>>

(* replaceWithOpenedFile publishes a copy of the source, then removes it. *)
ConcludeCopy ==
    /\ pc = "conclude" /\ call = "replace" /\ NoFault
    /\ IF committed = "ok" /\ discarded = "ok"
         THEN pc' = "quarantine" /\ UNCHANGED outcome
         ELSE pc' = "done" /\ outcome' = "fail"
    /\ UNCHANGED <<names, flushed, publishStatus, handle, committed, discarded, world, call, expect, private, torn>>

(* removeRegularFile opens the target and compares it with the expected    *)
(* file; an absent target is fine if none is expected.                     *)
OpenRemoved ==
    /\ pc = "open"
    /\ \/ entry.target = expect /\ expect # None /\ NoFault /\ pc' = "quarantine" /\ UNCHANGED <<crash, outcome>>
       \/ /\ entry.target = None /\ expect = None /\ NoFault
          /\ Synced({"parent"}) /\ pc' = "done" /\ outcome' = "ok"
       \/ /\ FailsWhen(entry.target # expect)
          /\ pc' = "done" /\ outcome' = "fail" /\ UNCHANGED crash
    /\ UNCHANGED <<entry, gone, flushed, publishStatus, handle, committed, discarded, world, call, expect, private, torn>>

-----------------------------------------------------------------------------
(* quarantineAndRemoveOpenedFile *)

Removed == IF call = "remove" THEN "target" ELSE "source"
Opened == IF call = "remove" THEN "old" ELSE "src"

(* finishQuarantine: the directory goes if it is empty. *)
QuarantineReturns(result) ==
    /\ pc' = IF result = "ok" THEN "cleanQuarantine" ELSE "done"
    /\ outcome' = IF result = "ok" THEN outcome ELSE "fail"
    /\ UNCHANGED <<committed, discarded>>

quarantineFrame == <<flushed, publishStatus, handle, call, expect, private, alien, foreign>>

Quarantine ==
    /\ pc = "quarantine"
    /\ \/ /\ CanRename(Removed, "quarantine") /\ Now(Renamed(Removed, "quarantine")) /\ NoFault
          /\ touched' = IF call = "remove" THEN FALSE ELSE touched
          /\ pc' = "syncQuarantined" /\ UNCHANGED results
       \/ /\ FailsWhen(entry[Removed] = None)
          /\ QuarantineReturns("fail") /\ UNCHANGED <<entry, crash, touched>>
    /\ UNCHANGED <<quarantineFrame, gone, torn>>

SyncQuarantined ==
    /\ pc = "syncQuarantined"
    /\ \/ Synced({"parent", "quarantine"}) /\ NoFault /\ pc' = "verifyQuarantined" /\ UNCHANGED <<results, torn>>
       \/ Fault /\ torn' = TRUE /\ QuarantineReturns("fail") /\ UNCHANGED crash
    /\ UNCHANGED <<quarantineFrame, entry, gone, touched>>

VerifyQuarantined ==
    /\ pc = "verifyQuarantined"
    /\ \/ entry.quarantine = Opened /\ NoFault /\ pc' = "removeQuarantined"
       \/ FailsWhen(entry.quarantine # Opened) /\ pc' = "restore"
    /\ UNCHANGED <<quarantineFrame, names, results, touched, torn>>

RemoveQuarantined ==
    /\ pc = "removeQuarantined"
    /\ \/ /\ entry' = [entry EXCEPT !.quarantine = None] /\ gone' = gone \union {entry.quarantine}
          /\ \/ crash' = [crash EXCEPT !.quarantine = {None}] /\ NoFault /\ QuarantineReturns("ok") /\ UNCHANGED torn
             \/ /\ crash' = [crash EXCEPT !.quarantine = @ \union {None}] /\ Fault
                /\ torn' = TRUE /\ QuarantineReturns("fail")
       \/ Fault /\ pc' = "restore" /\ UNCHANGED <<names, results, torn>>
    /\ UNCHANGED <<quarantineFrame, touched>>

Restore ==
    /\ pc = "restore"
    /\ \/ CanRename("quarantine", Removed) /\ Now(Renamed("quarantine", Removed)) /\ NoFault
       \/ FailsWhen(entry[Removed] # None) /\ UNCHANGED <<entry, crash>>
    /\ QuarantineReturns("fail")
    /\ UNCHANGED <<quarantineFrame, gone, touched, torn>>

CleanQuarantine ==
    /\ pc = "cleanQuarantine" /\ pc' = "done"
    /\ \/ Synced({"parent"}) /\ outcome' = "ok" /\ NoFault /\ UNCHANGED torn
       \/ Fault /\ torn' = TRUE /\ outcome' = "fail" /\ UNCHANGED crash
    /\ UNCHANGED <<quarantineFrame, entry, gone, committed, discarded, touched>>

-----------------------------------------------------------------------------
(* Another program puts a file of its own at the target, or removes what   *)
(* is there.                                                               *)
Foreign ==
    /\ foreign < MaxForeign /\ outcome = "running"
    /\ foreign' = foreign + 1 /\ touched' = TRUE
    /\ \/ alien = "none" /\ alien' = "live" /\ Now([entry EXCEPT !.target = "alien"])
       \/ /\ entry.target # None /\ Now([entry EXCEPT !.target = None])
          /\ alien' = IF entry.target = "alien" THEN "removed" ELSE alien
    /\ UNCHANGED <<flushed, publishStatus, handle, results, call, expect, pc, private, gone, failures>>

Operation ==
    \/ CreateNamespace \/ CreatePayload \/ FillPayload
    \/ Flush \/ Check \/ Publish \/ PublishRefused \/ SyncPublished \/ Verify
    \/ Reverse \/ ReverseFails \/ SyncReversed \/ RemoveOld \/ RemoveOldFails \/ Cleanup
    \/ DiscardPayload \/ DiscardDirectory \/ ConcludeWrite \/ ConcludeCopy
    \/ OpenRemoved \/ Quarantine \/ SyncQuarantined \/ VerifyQuarantined
    \/ RemoveQuarantined \/ Restore \/ CleanQuarantine

Next == Operation \/ Foreign

Spec == Init /\ [][Next]_vars

-----------------------------------------------------------------------------
(* Properties *)

(* Success is a durability acknowledgement: whatever the code did on the   *)
(* way (a barrier that failed and one that replaced it, a cleanup that did *)
(* not happen), a power failure after a call that returned success leaves  *)
(* the new file, with its contents, or leaves no file if it was removed.   *)
AcknowledgedIsDurable ==
    outcome = "ok" /\ ~touched =>
        IF call = "remove" THEN crash.target = {None}
        ELSE crash.target = {"new"} /\ "new" \in flushed

(* A file the caller did not expect is never destroyed, in any order of    *)
(* the other program's changes and the code's: the exchange may displace   *)
(* it and a rejected installation may carry it away, but it stays linked.  *)
ForeignFileKept == alien = "live" => "alien" \in Range(entry)

(* discard() "never removes a published target"                            *)
(* (IRootedFileSystem.h): the prepared file is unlinked only when commit() *)
(* has withdrawn it.                                                       *)
PublishedNeverDiscarded == "new" \in gone => pub = "NotPublished" /\ entry.target # "new"

(* What a write replaces and what a replacement copies are given up only   *)
(* when a power failure can no longer bring the old target back, unless a  *)
(* directory could not be synchronised, which the caller is told.          *)
GivenUpOnlyWhenDurable ==
    gone \intersect {"old", "src"} # {} /\ call # "remove" /\ ~touched =>
        crash.target = {"new"} \/ torn

(* publishStatus() tells the truth about the target when no other program  *)
(* interferes: callers decide from it whether to reconcile.                *)
StatusTruthful ==
    committed # "none" /\ foreign = 0 =>
        /\ pub = "NotPublished" => entry.target = expect
        /\ pub = "Published" => entry.target = "new"
        /\ durable /\ pub = "Published" => crash.target = {"new"}
=============================================================================
