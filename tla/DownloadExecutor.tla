-------------------------- MODULE DownloadExecutor --------------------------
(***************************************************************************)
(* executeDownloads (DownloadExecutor.cpp): the artifacts of one release   *)
(* are staged one after the other.  Each has a final name and a partial    *)
(* file; resume records go through a coordinator to the state store.  The  *)
(* call is repeated by the application, the process is killed or the power *)
(* fails at any step, file operations fail, publications fail after they   *)
(* were visible, and another program changes the staging directory.  A     *)
(* network transfer is one step with the outcomes that Transfer permits.   *)
(***************************************************************************)
EXTENDS Integers, FiniteSets, FiniteSetsExt

CONSTANTS
    Downloads,      \* the artifacts, numbered in the order of the decision
    Sizes,          \* signed sizes to choose from
    MaxArtifactBytes, MaxTotalBytes,
    WordMax,        \* the largest byte count the program can represent
    MaxRetries,
    None, Missing,
    MaxRuns, MaxFaults, MaxCrashes, MaxForeign      \* bounds

ASSUME DownloadAssumption ==
    /\ IsFiniteSet(Downloads) /\ Downloads = 1 .. Cardinality(Downloads)
    /\ WordMax \in Nat /\ Sizes \subseteq 0 .. WordMax /\ None \notin Nat
    /\ Missing \notin {"right", "wrong"} /\ Missing \notin [len: Nat, pure: BOOLEAN]
    /\ {MaxArtifactBytes, MaxTotalBytes} \subseteq 0 .. WordMax
    /\ {MaxRetries, MaxRuns, MaxFaults, MaxCrashes, MaxForeign} \subseteq Nat

VARIABLES
    size,           \* signed size of each artifact
    enableResume, batch,    \* configuration; whether the store takes batches
    renames,        \* publication renames the partial file (Windows) or copies it (POSIX)
    final,          \* the staged file: Missing, "right" or "wrong"
    afterCrash,     \* what a power failure may leave under that name
    temp,           \* the partial file: Missing or its length and whether every byte is right
    record,         \* the artifacts that have a record in the state store
    cached, upserts, clears,    \* DownloadResumeCoordinator
    pc, index, attempt, flushed,
    changed,        \* the final name was changed by others since it was examined
    spoiled,        \* files damaged by others since they were staged or verified
    own,            \* files this run published
    cancelled, execution, outcome,
    runs, faults, crashes, foreign

config == <<size, enableResume, batch, renames>>
staging == <<final, afterCrash, temp, spoiled>>
coordinator == <<record, cached, upserts, clears>>
progress == <<index, attempt, flushed, own>>
results == <<execution, outcome>>
bounds == <<runs, crashes, foreign>>
vars == <<config, staging, coordinator, progress, results, bounds, pc, changed, cancelled, faults>>

Complete(d) == [len |-> size[d], pure |-> TRUE]
Empty == [len |-> 0, pure |-> TRUE]
Partials == {t \in [len: 0 .. Max(Sizes) + 1, pure: BOOLEAN] : t.len = 0 => t.pure}

Init ==
    /\ size \in [Downloads -> Sizes] /\ enableResume \in BOOLEAN
    /\ batch \in BOOLEAN /\ renames \in BOOLEAN
    /\ final = [d \in Downloads |-> Missing] /\ afterCrash = [d \in Downloads |-> {Missing}]
    /\ temp = [d \in Downloads |-> Missing] /\ record = {}
    /\ cached = {} /\ upserts = {} /\ clears = {}
    /\ pc = "idle" /\ index = 1 /\ attempt = 0 /\ flushed = FALSE
    /\ changed = FALSE /\ spoiled = {} /\ own = {} /\ cancelled = FALSE
    /\ execution = "none" /\ outcome = "none"
    /\ runs = 0 /\ faults = 0 /\ crashes = 0 /\ foreign = 0

Fault == faults < MaxFaults /\ faults' = faults + 1
NoFault == UNCHANGED faults

-----------------------------------------------------------------------------
(* Admission: the sizes are added up without wrapping around. *)

(* Mutant: the sum wraps around. *)
WrappingAdd(a, b) == (a + b) % (WordMax + 1)

checkedAdd(a, b) == IF b > WordMax - a THEN None ELSE a + b

(* The bytes of the first n artifacts, or None once a limit is exceeded. *)
Totals(sizes) ==
    LET sum[n \in 0 .. Cardinality(Downloads)] ==
            IF n = 0 THEN 0
            ELSE IF sum[n - 1] = None \/ sizes[n] > MaxArtifactBytes THEN None
            ELSE LET total == checkedAdd(sum[n - 1], sizes[n])
                 IN IF total = None THEN None ELSE IF total > MaxTotalBytes THEN None ELSE total
    IN sum

Total == Totals(size)[Cardinality(Downloads)]

Ends(result) == pc' = "idle" /\ outcome' = result /\ UNCHANGED execution

(* The limits, the policy, the keys, the clock, the records of the batch   *)
(* store, and the staging directory.                                       *)
Start ==
    /\ pc = "idle" /\ runs < MaxRuns /\ runs' = runs + 1
    /\ cached' = (IF batch /\ enableResume THEN record ELSE {}) /\ upserts' = {} /\ clears' = {}
    /\ index' = 1 /\ own' = {} /\ cancelled' = FALSE
    /\ \/ /\ Total # None /\ NoFault
          /\ pc' = "file" /\ execution' = "none" /\ outcome' = "none"
       \/ (Total = None /\ NoFault) /\ Ends("fail")
       \/ Fault /\ Ends("fail")
    /\ UNCHANGED <<config, staging, record, attempt, flushed, changed, crashes, foreign>>

-----------------------------------------------------------------------------
(* DownloadResumeCoordinator.  A store without batches is written through. *)

(* What load() answers. *)
HasRecord(d) == IF batch THEN d \in upserts \/ (d \notin clears /\ d \in cached) ELSE d \in record

SaveRecord(d) ==
    IF batch THEN /\ clears' = clears \ {d} /\ cached' = cached \union {d}
                  /\ upserts' = upserts \union {d} /\ UNCHANGED record
             ELSE record' = record \union {d} /\ UNCHANGED <<cached, upserts, clears>>

(* Mutant: the store is not told that the record is dropped. *)
ClearForgotten(d) ==
    IF batch THEN cached' = cached \ {d} /\ upserts' = upserts \ {d} /\ UNCHANGED <<record, clears>>
             ELSE record' = record \ {d} /\ UNCHANGED <<cached, upserts, clears>>

ClearRecord(d) ==
    IF batch THEN /\ cached' = cached \ {d} /\ upserts' = upserts \ {d}
                  /\ clears' = clears \union {d} /\ UNCHANGED record
             ELSE record' = record \ {d} /\ UNCHANGED <<cached, upserts, clears>>

-----------------------------------------------------------------------------
(* The loop over the artifacts *)

Stops(result) == pc' = "flush" /\ execution' = result /\ UNCHANGED outcome
Goes(next) == pc' = next /\ UNCHANGED results

Advances == index' = index + 1 /\ Goes("file")

NextFile ==
    /\ pc = "file" /\ index \in Downloads
    /\ \/ cancelled /\ NoFault /\ Stops("fail") /\ UNCHANGED <<coordinator, index, attempt, changed>>
       \/ ~ cancelled /\ Fault /\ Stops("fail") /\ UNCHANGED <<coordinator, index, attempt, changed>>
       \/ /\ ~ cancelled /\ final[index] = "right" /\ NoFault
          /\ ClearRecord(index) /\ Advances /\ UNCHANGED <<attempt, changed>>
       \/ /\ ~ cancelled /\ final[index] # "right" /\ NoFault
          /\ attempt' = 0 /\ changed' = FALSE /\ Goes("attempt") /\ UNCHANGED <<coordinator, index>>
    /\ UNCHANGED <<config, staging, flushed, own, bounds, cancelled>>

AllStaged ==
    /\ pc = "file" /\ index \notin Downloads /\ Stops("ok")
    /\ UNCHANGED <<config, staging, coordinator, progress, bounds, changed, cancelled, faults>>

OpenPartial(found, kept) ==
    /\ IF found = kept THEN UNCHANGED coordinator ELSE ClearRecord(index)
    /\ temp' = [temp EXCEPT ![index] = IF enableResume THEN kept ELSE Empty]

(* A partial file that is too long is removed with its record; one that    *)
(* cannot be resumed is truncated.  Whether there is a record only decides *)
(* which validators are sent.                                              *)
Attempt ==
    /\ pc = "attempt"
    /\ LET found == IF temp[index] = Missing THEN Empty ELSE temp[index]
           kept == IF found.len <= size[index] THEN found ELSE Empty
       IN \/ cancelled /\ NoFault /\ Stops("fail") /\ UNCHANGED <<temp, coordinator>>
          \/ ~ cancelled /\ NoFault /\ Goes("transfer") /\ OpenPartial(found, kept)
          \/ /\ ~ cancelled /\ Fault /\ Stops("fail")
             /\ \/ temp' = [temp EXCEPT ![index] = found] /\ UNCHANGED coordinator
                \/ /\ found # kept /\ (ClearRecord(index) \/ UNCHANGED coordinator)
                   /\ temp' \in {[temp EXCEPT ![index] = t] : t \in {Missing, Empty}}
    /\ UNCHANGED <<config, final, afterCrash, spoiled, index, attempt, flushed, own, bounds, changed, cancelled>>

(* What a transfer may leave: the resumed bytes with more behind them, or, *)
(* after a redirect or a server that ignored the range, new bytes alone;   *)
(* never more than the signed size (Transfer!NeverBeyondLimit).            *)
Transferred(d) == {t \in Partials : t.len <= size[d]}

Retry ==
    IF attempt < MaxRetries THEN attempt' = attempt + 1 /\ Goes("attempt")
                            ELSE Stops("fail") /\ UNCHANGED attempt

Completed ==
    /\ pc = "transfer" /\ Goes("complete")
    /\ temp' \in {[temp EXCEPT ![index] = t] : t \in Transferred(index)}
    /\ flushed' = FALSE
    /\ UNCHANGED <<config, final, afterCrash, spoiled, coordinator, index, attempt, own,
                   bounds, changed, cancelled, faults>>

(* Broken or cancelled: the partial file is kept, with a record without    *)
(* validators, and tried again.                                            *)
Interrupted ==
    /\ pc = "transfer"
    /\ temp' \in {[temp EXCEPT ![index] = t] : t \in Transferred(index)}
    /\ \/ /\ NoFault /\ Retry
          /\ IF enableResume /\ temp'[index].len > 0 THEN SaveRecord(index) ELSE UNCHANGED coordinator
       \/ Fault /\ Stops("fail") /\ UNCHANGED <<coordinator, attempt>>
    /\ UNCHANGED <<config, final, afterCrash, spoiled, index, flushed, own, bounds, changed, cancelled>>

(* The body was larger than the signed size: no retry. *)
Oversized ==
    /\ pc = "transfer" /\ Stops("fail") /\ ClearRecord(index)
    /\ \/ temp' = [temp EXCEPT ![index] = Missing] /\ NoFault
       \/ Fault /\ UNCHANGED temp
    /\ UNCHANGED <<config, final, afterCrash, spoiled, progress, bounds, changed, cancelled>>

-----------------------------------------------------------------------------
(* Verification and publication *)

(* Mutant: the completed file is not flushed. *)
FlushSkipped ==
    /\ pc = "complete" /\ NoFault /\ Goes("verify") /\ UNCHANGED flushed
    /\ UNCHANGED <<config, staging, coordinator, index, attempt, own, bounds, changed, cancelled>>

Flush ==
    /\ pc = "complete"
    /\ \/ flushed' = TRUE /\ NoFault /\ Goes("verify")
       \/ Fault /\ Stops("fail") /\ UNCHANGED flushed
    /\ UNCHANGED <<config, staging, coordinator, index, attempt, own, bounds, changed, cancelled>>

(* Mutant: only the length is compared. *)
VerifyLength ==
    /\ pc = "verify"
    /\ IF temp[index].len = size[index]
         THEN NoFault /\ Goes("publish") /\ UNCHANGED <<temp, coordinator, attempt>>
         ELSE NoFault /\ Retry /\ ClearRecord(index) /\ temp' = [temp EXCEPT ![index] = Missing]
    /\ UNCHANGED <<config, final, afterCrash, spoiled, index, flushed, own, bounds, changed, cancelled>>

(* Wrong content is removed with its record and downloaded again; failing  *)
(* to remove it, or to compute the digest, ends the run.                   *)
Verify ==
    /\ pc = "verify"
    /\ \/ /\ temp[index] = Complete(index) /\ NoFault /\ Goes("publish")
          /\ UNCHANGED <<temp, coordinator, attempt>>
       \/ /\ temp[index] # Complete(index) /\ NoFault /\ Retry /\ ClearRecord(index)
          /\ temp' = [temp EXCEPT ![index] = Missing]
       \/ /\ Fault /\ Stops("fail") /\ ClearRecord(index) /\ UNCHANGED attempt
          /\ temp' \in {temp, [temp EXCEPT ![index] = Missing]}
    /\ UNCHANGED <<config, final, afterCrash, spoiled, index, flushed, own, bounds, changed, cancelled>>

Content(t, d) == IF t = Complete(d) THEN "right" ELSE "wrong"

(* replaceWithOpenedFile installs a flushed copy of the partial file and   *)
(* removes it; on Windows it renames the file itself.                      *)
Visible(d) ==
    /\ final' = [final EXCEPT ![d] = Content(temp[d], d)]
    /\ spoiled' = IF temp[d] = Complete(d) THEN spoiled \ {d} ELSE spoiled

Survives(d) == IF renames /\ ~ flushed THEN "wrong" ELSE Content(temp[d], d)

Published(d) ==
    /\ Visible(d) /\ temp' = [temp EXCEPT ![d] = Missing]
    /\ afterCrash' = [afterCrash EXCEPT ![d] = {Survives(d)}]

(* Done; done, but closing the file or clearing the record failed; refused;*)
(* or visible, and reported as a failure.                                  *)
Publish ==
    /\ pc = "publish"
    /\ \/ /\ ~ changed /\ NoFault /\ Published(index) /\ ClearRecord(index)
          /\ own' = own \union {index} /\ Advances
       \/ /\ ~ changed /\ Fault /\ Published(index) /\ Stops("fail")
          /\ UNCHANGED <<coordinator, index, own>>
       \/ /\ (changed /\ NoFault) \/ Fault
          /\ Goes("reconcile") /\ UNCHANGED <<staging, coordinator, index, own>>
       \/ /\ ~ changed /\ Fault /\ Visible(index)
          /\ afterCrash' \in {[afterCrash EXCEPT ![index] = {Survives(index)}],
                              [afterCrash EXCEPT ![index] = @ \union {Survives(index)}]}
          /\ \/ temp' = [temp EXCEPT ![index] = Missing]
             \/ ~ renames /\ UNCHANGED temp
          /\ Goes("reconcile") /\ UNCHANGED <<coordinator, index, own>>
    /\ UNCHANGED <<config, attempt, flushed, bounds, changed, cancelled>>

(* failAfterDiscardingCompletedDownload *)
Discards ==
    /\ Stops("fail") /\ ClearRecord(index)
    /\ temp' \in {temp, [temp EXCEPT ![index] = Missing]}
    /\ UNCHANGED <<final, afterCrash, spoiled, index, own>>

(* Mutant: a verified file under the final name is enough. *)
ReconcileVisible ==
    /\ pc = "reconcile"
    /\ \/ /\ final[index] = "right" /\ NoFault
          /\ ClearRecord(index) /\ own' = own \union {index} /\ Advances /\ UNCHANGED staging
       \/ final[index] # "right" /\ NoFault /\ Discards
    /\ UNCHANGED <<config, attempt, flushed, bounds, changed, cancelled>>

(* If the verified bytes are visible they are published once more, "so     *)
(* success has a fresh durability acknowledgement"; that needs the partial *)
(* file under its name.                                                    *)
Reconcile ==
    /\ pc = "reconcile"
    /\ LET again == final[index] = "right" /\ temp[index] # Missing
       IN \/ /\ again /\ NoFault /\ Published(index)
             /\ ClearRecord(index) /\ own' = own \union {index} /\ Advances
          \/ ((~ again /\ NoFault) \/ Fault) /\ Discards
    /\ UNCHANGED <<config, attempt, flushed, bounds, changed, cancelled>>

(* Mutant: cleared records are not removed from the store. *)
FlushUpserts ==
    /\ pc = "flush" /\ record' = record \union upserts /\ NoFault /\ Ends(execution)
    /\ UNCHANGED <<config, staging, cached, upserts, clears, progress, bounds, changed, cancelled>>

(* The records are written once, after success and after failure. *)
FlushRecords ==
    /\ pc = "flush"
    /\ \/ /\ record' = (IF batch THEN (record \ clears) \union upserts ELSE record) /\ NoFault
          /\ Ends(execution)
       \/ batch /\ Fault /\ Ends("fail") /\ UNCHANGED record
    /\ UNCHANGED <<config, staging, cached, upserts, clears, progress, bounds, changed, cancelled>>

-----------------------------------------------------------------------------
(* The environment *)

Cancel ==
    /\ pc # "idle" /\ ~ cancelled /\ cancelled' = TRUE
    /\ UNCHANGED <<config, staging, coordinator, progress, results, bounds, pc, changed, faults>>

Stopped == pc # "idle" /\ crashes < MaxCrashes /\ crashes' = crashes + 1 /\ Ends("none")

Crash ==
    /\ Stopped
    /\ UNCHANGED <<config, staging, coordinator, progress, changed, cancelled, runs, faults, foreign>>

(* Partial files were not flushed: any part of them may be lost. *)
PowerFailure ==
    /\ Stopped
    /\ \E f \in [Downloads -> {Missing, "right", "wrong"}] :
         (\A d \in Downloads : f[d] \in afterCrash[d]) /\ final' = f
    /\ afterCrash' = [d \in Downloads |-> {final'[d]}]
    /\ temp' \in {temp, [d \in Downloads |-> IF temp[d] \in {Missing, Empty} THEN temp[d] ELSE [temp[d] EXCEPT !.pure = FALSE]]}
    /\ UNCHANGED <<config, spoiled, coordinator, progress, changed, cancelled, runs, faults, foreign>>

(* The partial file of d was verified and is not looked at again. *)
InHand(d) == d = index /\ pc \in {"publish", "reconcile"}

(* Another program, such as a second instance of the application, changes  *)
(* a staged file.                                                          *)
ForeignFinal ==
    /\ foreign < MaxForeign /\ foreign' = foreign + 1
    /\ \E d \in Downloads, content \in {"right", "wrong"} :
         /\ content # final[d] /\ final' = [final EXCEPT ![d] = content]
         /\ afterCrash' = [afterCrash EXCEPT ![d] = @ \union {content}]
         /\ spoiled' = IF content = "wrong" THEN spoiled \union {d}
                       ELSE IF InHand(d) THEN spoiled ELSE spoiled \ {d}
         /\ changed' = (changed \/ d = index)
    /\ UNCHANGED <<config, temp, coordinator, progress, results, pc, cancelled, runs, faults, crashes>>

(* Where open files are not protected it changes the partial file of the   *)
(* same release.                                                           *)
ForeignPartial ==
    /\ foreign < MaxForeign /\ foreign' = foreign + 1 /\ ~ renames
    /\ \E d \in Downloads, t \in Partials :
         /\ temp[d] # Missing /\ temp' = [temp EXCEPT ![d] = t]
         /\ spoiled' = IF InHand(d) THEN spoiled \union {d} ELSE spoiled
    /\ UNCHANGED <<config, final, afterCrash, changed, coordinator, progress, results, pc, cancelled,
                   runs, faults, crashes>>

Executor ==
    \/ NextFile \/ AllStaged \/ Attempt \/ Completed \/ Interrupted \/ Oversized
    \/ Flush \/ Verify \/ Publish \/ Reconcile \/ FlushRecords

Next == Start \/ Executor \/ Cancel \/ Crash \/ PowerFailure \/ ForeignFinal \/ ForeignPartial

Spec == Init /\ [][Next]_vars

-----------------------------------------------------------------------------
(* Properties *)

TypeOK ==
    /\ final \in [Downloads -> {Missing, "right", "wrong"}]
    /\ temp \in [Downloads -> Partials \union {Missing}]
    /\ {record, cached, upserts, clears, own} \subseteq SUBSET Downloads
    /\ index \in 1 .. Cardinality(Downloads) + 1 /\ attempt \in 0 .. MaxRetries
    /\ execution \in {"none", "ok", "fail"} /\ outcome \in {"none", "ok", "fail"}

(* A run that succeeds has staged every artifact with the signed content:  *)
(* "A resumed or restarted artifact must still match the signed size and   *)
(* SHA-256 before it can enter an apply plan" (docs/security-model.md),    *)
(* whatever partial files, crashes and servers it met.  A file that others *)
(* damage after its digest was computed is excused (spoiled): the code     *)
(* does not look at it again before the updater does.                      *)
StagedMatches ==
    outcome = "ok" => \A d \in Downloads : final[d] = "right" \/ d \in spoiled

(* What this run published is durable when the run succeeds, also when the *)
(* publication was visible and reported as failed first.  A staged file    *)
(* that is found and reused gets no barrier of its own: whoever published  *)
(* it may have been killed before his, and a power failure may lose it.    *)
PublishedIsDurable ==
    outcome = "ok" => \A d \in own : afterCrash[d] = {"right"} \/ foreign > 0

(* No power failure turns a staged artifact into a damaged one. *)
StagedSurvives ==
    \A d \in Downloads : final[d] = "right" /\ foreign = 0 => "wrong" \notin afterCrash[d]

(* A run that no step of failed leaves records for partial files only: no  *)
(* record outlives the file it describes.                                  *)
RecordsMatchPartials ==
    pc = "idle" /\ outcome # "none" /\ faults = 0 /\ crashes = 0 /\ foreign = 0 =>
        \A d \in record : temp[d] # Missing /\ final[d] # "right"

(* What the coordinator answers during a run is what the store will hold   *)
(* after it: a record that was dropped does not come back.                 *)
CoordinatorCoherent ==
    pc # "idle" /\ batch => \A d \in Downloads : HasRecord(d) <=> d \in (record \ clears) \union upserts

(* The exact sums of the sizes. *)
ExactTotals(sizes) ==
    LET sum[n \in 0 .. Cardinality(Downloads)] == IF n = 0 THEN 0 ELSE sum[n - 1] + sizes[n]
    IN sum

(* A sum that cannot be represented never passes for a small one. *)
AdmittedWithinLimits == pc # "idle" => ExactTotals(size)[Cardinality(Downloads)] <= MaxTotalBytes

(* What executeDownloads hands over to the plan writer: artifacts within   *)
(* the limits, of the signed content, that no power failure damages, and   *)
(* durable where this run published them.                                  *)
StagingSound ==
    TypeOK /\ AdmittedWithinLimits /\ StagedMatches /\ PublishedIsDurable /\ StagedSurvives

(* The resume records agree with the partial files they describe, in the   *)
(* coordinator's cache and in the store.                                   *)
RecordsCoherent == RecordsMatchPartials /\ CoordinatorCoherent
=============================================================================
