---------------------------- MODULE ResumeEntries ----------------------------
(***************************************************************************)
(* The records of the resume sidecar (default/JsonStateStore.cpp): batches *)
(* of one release are applied under the locks of StateStore, so one at a   *)
(* time; the wall clock moves between them, in either direction.  A batch  *)
(* drops what is not fresh, clears and adds records, evicts the oldest     *)
(* until the entry limit and the byte limit hold, and replaces the sidecar.*)
(***************************************************************************)
EXTENDS Naturals, FiniteSets, FiniteSetsExt

CONSTANTS
    Keys,       \* storage keys, numbers as they are ordered
    Releases, None,
    Weights,    \* bytes a record takes
    MaxAge, EntryLimit, ByteLimit,
    MaxClock, MaxBatches    \* bounds

ResumeAssumption ==
    /\ Keys \subseteq Nat /\ IsFiniteSet(Keys) /\ Weights \subseteq Nat /\ None \notin Releases
    /\ {MaxAge, EntryLimit, ByteLimit, MaxClock, MaxBatches} \subseteq Nat

Records == [release: Releases, at: 0 .. MaxClock, weight: Weights]
IsEntries(f) == DOMAIN f \subseteq Keys /\ \A k \in DOMAIN f : f[k] \in Records

VARIABLES
    sidecar,    \* the records on disk: a function on the keys that have one
    entries,    \* the records of the batch in progress
    protectedKeys,
    scope,      \* the release and the time of the batch
    clock, pc,
    loaded,     \* what the last load returned, and for which scope
    evicted,    \* records the batch evicted
    outcome, batches

vars == <<sidecar, entries, protectedKeys, scope, clock, pc, loaded, evicted, outcome, batches>>

TypeOK ==
    /\ IsEntries(sidecar) /\ IsEntries(entries) /\ protectedKeys \subseteq Keys
    /\ clock \in 0 .. MaxClock /\ pc \in {"idle", "count", "bytes"}
    /\ outcome \in {"none", "ok", "fail"} /\ batches \in 0 .. MaxBatches

Nothing == [k \in {} |-> None]

Init ==
    /\ sidecar = Nothing /\ entries = Nothing /\ protectedKeys = {} /\ evicted = Nothing
    /\ clock = 0 /\ scope = [release |-> None, now |-> 0] /\ pc = "idle"
    /\ loaded = [scope |-> scope, entries |-> Nothing] /\ outcome = "none" /\ batches = 0

Only(f, ks) == [k \in ks |-> f[k]]
Bytes(f) == MapThenSumSet(LAMBDA k : f[k].weight, DOMAIN f)

(* Mutant: a record of the future is as good as new. *)
FreshForward(record, s) ==
    record.release = s.release /\ (record.at <= s.now => s.now - record.at <= MaxAge)

(* The clock may have been set back since the record was written. *)
downloadResumeIsFresh(record, s) ==
    /\ record.release = s.release
    /\ IF record.at > s.now THEN record.at - s.now <= MaxAge ELSE s.now - record.at <= MaxAge

-----------------------------------------------------------------------------
(* loadDownloadResumeBatch *)
Load ==
    /\ pc = "idle" /\ batches < MaxBatches /\ batches' = batches + 1
    /\ \E r \in Releases :
         LET s == [release |-> r, now |-> clock]
         IN loaded' = [scope |-> s, entries |->
                Only(sidecar, {k \in DOMAIN sidecar : downloadResumeIsFresh(sidecar[k], s)})]
    /\ UNCHANGED <<sidecar, entries, protectedKeys, scope, clock, pc, evicted, outcome>>

Starts(kept, r, at, w, upserts) ==
    /\ pc = "idle" /\ batches < MaxBatches /\ batches' = batches + 1
    /\ entries' = [k \in kept \union upserts |->
                     IF k \in upserts THEN [release |-> r, at |-> at, weight |-> w] ELSE sidecar[k]]
    /\ protectedKeys' = upserts /\ scope' = [release |-> r, now |-> clock]
    /\ pc' = "count" /\ evicted' = Nothing /\ outcome' = "none"
    /\ UNCHANGED <<sidecar, clock, loaded>>

StillFresh(r) ==
    {k \in DOMAIN sidecar : downloadResumeIsFresh(sidecar[k], [release |-> r, now |-> clock])}

(* Mutant: a record is stamped with the time it expires. *)
BeginExpiring ==
    \E r \in Releases, w \in Weights, upserts \in SUBSET Keys, clears \in SUBSET DOMAIN sidecar :
        Starts(StillFresh(r) \ clears, r, clock + MaxAge, w, upserts)

(* applyDownloadResumeBatch up to the limits.  A key that is cleared and   *)
(* added again is added.                                                   *)
Begin ==
    \E r \in Releases, w \in Weights, upserts \in SUBSET Keys, clears \in SUBSET DOMAIN sidecar :
        Starts(StillFresh(r) \ clears, r, clock, w, upserts)

Older(f, k, l) == f[k].at < f[l].at \/ (f[k].at = f[l].at /\ k < l)

(* Mutant: the records the batch adds are evicted with the others. *)
OldestUnprotected == {k \in DOMAIN entries : \A l \in DOMAIN entries : l # k => Older(entries, k, l)}

(* Mutant: the newest goes first. *)
NewestEvictable ==
    LET candidates == DOMAIN entries \ protectedKeys
    IN {k \in candidates : \A l \in candidates : l # k => Older(entries, l, k)}

(* evictOldestDownloadResume: the one record it would take, if any. *)
Oldest ==
    LET candidates == DOMAIN entries \ protectedKeys
    IN {k \in candidates : \A l \in candidates : l # k => Older(entries, k, l)}

Evict(k) ==
    /\ entries' = Only(entries, DOMAIN entries \ {k})
    /\ evicted' = [l \in DOMAIN evicted \union {k} |-> IF l = k THEN entries[k] ELSE evicted[l]]
    /\ UNCHANGED <<sidecar, protectedKeys, scope, clock, pc, loaded, outcome, batches>>

Finish(result) ==
    /\ pc' = "idle" /\ outcome' = result
    /\ UNCHANGED <<entries, protectedKeys, scope, clock, loaded, evicted, batches>>

(* Too many records. *)
EvictByCount ==
    /\ pc = "count" /\ Cardinality(protectedKeys) <= EntryLimit /\ Cardinality(DOMAIN entries) > EntryLimit
    /\ \E k \in Oldest : Evict(k)

(* A batch that is too large by itself fails and changes nothing. *)
BatchTooLarge ==
    /\ pc = "count" /\ Cardinality(protectedKeys) > EntryLimit
    /\ Finish("fail") /\ UNCHANGED sidecar

CountFits ==
    /\ pc = "count" /\ Cardinality(DOMAIN entries) <= EntryLimit
    /\ pc' = "bytes"
    /\ UNCHANGED <<sidecar, entries, protectedKeys, scope, clock, loaded, evicted, outcome, batches>>

(* saveDownloadResumesLocked: serializeDownloadResumes reports the limit   *)
(* until enough has been evicted.                                          *)
EvictByBytes ==
    /\ pc = "bytes" /\ Bytes(entries) > ByteLimit
    /\ \E k \in Oldest : Evict(k)

BytesExceeded ==
    /\ pc = "bytes" /\ Bytes(entries) > ByteLimit /\ Oldest = {}
    /\ Finish("fail") /\ UNCHANGED sidecar

(* Mutant: the byte limit is not looked at again. *)
SaveOversized ==
    /\ pc = "bytes"
    /\ \/ sidecar' = entries /\ Finish("ok")
       \/ UNCHANGED sidecar /\ Finish("fail")

(* The sidecar is replaced, or the write fails. *)
Save ==
    /\ pc = "bytes" /\ Bytes(entries) <= ByteLimit
    /\ \/ sidecar' = entries /\ Finish("ok")
       \/ UNCHANGED sidecar /\ Finish("fail")

(* The wall clock is set. *)
SetClock ==
    /\ pc = "idle" /\ clock' \in 0 .. MaxClock \ {clock}
    /\ UNCHANGED <<sidecar, entries, protectedKeys, scope, pc, loaded, evicted, outcome, batches>>

Next ==
    \/ Load \/ Begin \/ EvictByCount \/ BatchTooLarge \/ CountFits
    \/ EvictByBytes \/ BytesExceeded \/ Save \/ SetClock

Spec == Init /\ [][Next]_vars

-----------------------------------------------------------------------------
(* Properties *)

(* parseDownloadResumeDocument refuses a sidecar beyond the limits, which  *)
(* would make every later resume operation fail: none is ever written.     *)
SidecarReadable == Cardinality(DOMAIN sidecar) <= EntryLimit /\ Bytes(sidecar) <= ByteLimit

Within(record, s) ==
    /\ record.release = s.release
    /\ record.at \in {t \in 0 .. MaxClock : t + MaxAge >= s.now /\ t <= s.now + MaxAge}

(* "It retains only the active release, rejects timestamps more than seven *)
(* days from the current wall clock in either direction"                   *)
(* (docs/security-model.md), for what is loaded and what a batch leaves,   *)
(* whatever the clock did.                                                 *)
OnlyFreshRecords ==
    /\ \A k \in DOMAIN loaded.entries : Within(loaded.entries[k], loaded.scope)
    /\ pc = "idle" /\ outcome = "ok" => \A k \in DOMAIN sidecar : Within(sidecar[k], scope)

(* A batch that succeeds keeps every record it added. *)
BatchSurvives ==
    pc = "idle" /\ outcome = "ok" =>
        \A k \in protectedKeys : k \in DOMAIN sidecar /\ sidecar[k].at = scope.now

(* No record is evicted while an older one, not of this batch, is kept.    *)
OldestGoFirst ==
    \A k \in DOMAIN evicted, l \in DOMAIN entries \ protectedKeys : evicted[k].at <= entries[l].at
=============================================================================
