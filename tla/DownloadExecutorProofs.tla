------------------------ MODULE DownloadExecutorProofs ------------------------
(***************************************************************************)
(* Proofs about DownloadExecutor for any number of artifacts, sizes,       *)
(* limits, retries, runs, faults, crashes and interferences: what a        *)
(* successful run has staged, that no power failure takes it back, that    *)
(* the sizes it admitted do not exceed the limits, and that the resume     *)
(* records agree with the partial files.                                   *)
(***************************************************************************)
EXTENDS DownloadExecutor, FiniteSetTheorems, WellFoundedInduction, TLAPS

-----------------------------------------------------------------------------
(* The invariant. *)

Names == {Missing, "right", "wrong"}
Working == {"attempt", "transfer", "complete", "verify", "publish", "reconcile"}
Looping == Working \union {"file"}

RecordTypes ==
    /\ record \subseteq Downloads /\ cached \subseteq Downloads
    /\ upserts \subseteq Downloads /\ clears \subseteq Downloads

(* The values of the variables, and where the loop is. *)
TypeInv ==
    /\ size \in [Downloads -> Sizes] /\ enableResume \in BOOLEAN /\ batch \in BOOLEAN
    /\ renames \in BOOLEAN /\ flushed \in BOOLEAN /\ changed \in BOOLEAN
    /\ final \in [Downloads -> Names] /\ afterCrash \in [Downloads -> SUBSET Names]
    /\ temp \in [Downloads -> Partials \union {Missing}]
    /\ RecordTypes /\ own \subseteq Downloads
    /\ index \in 1 .. Cardinality(Downloads) + 1 /\ attempt \in 0 .. MaxRetries
    /\ pc \in {"idle", "file", "flush"} \union Working /\ (pc \in Working => index \in Downloads)
    /\ execution \in {"none", "ok", "fail"} /\ outcome \in {"none", "ok", "fail"}
    /\ faults \in Nat /\ crashes \in Nat /\ foreign \in Nat

(* What was admitted. *)
AdmittedInv == pc # "idle" => Total # None

Staged(d) == final[d] = "right" \/ d \in spoiled

(* The artifacts before the index are staged, and the verified partial     *)
(* file is the artifact unless others changed it.                          *)
StagedInv ==
    /\ pc \in Looping => \A d \in Downloads : d < index => Staged(d)
    /\ pc = "flush" /\ execution = "ok" => \A d \in Downloads : Staged(d)
    /\ outcome = "ok" => pc = "idle" /\ \A d \in Downloads : Staged(d)
    /\ pc = "publish" => temp[index] = Complete(index) \/ index \in spoiled
    /\ pc = "reconcile" => temp[index] \in {Complete(index), Missing} \/ index \in spoiled

(* Nothing damaged is ever durable when nobody else writes, and what the   *)
(* run published survives.                                                 *)
DurableInv ==
    /\ foreign = 0 => spoiled = {} /\ ~ changed
    /\ foreign = 0 => \A d \in Downloads : final[d] # "wrong" /\ "wrong" \notin afterCrash[d]
    /\ pc \in {"verify", "publish", "reconcile"} => flushed
    /\ pc \in Looping => \A d \in own : d < index
    /\ foreign = 0 => \A d \in own : afterCrash[d] = {"right"}

(* The coordinator's view, and the records of the batch when it is         *)
(* written.                                                                *)
CoordinatorInv ==
    /\ ~ enableResume => record = {} /\ upserts = {}
    /\ batch => upserts \subseteq cached /\ upserts \intersect clears = {} /\ clears \intersect cached = {}
    /\ pc # "idle" /\ batch => \A d \in Downloads : d \notin clears /\ d \notin upserts => (d \in cached <=> d \in record)

Pending == IF batch /\ pc # "idle" THEN (record \ clears) \union upserts ELSE record

Undisturbed == faults = 0 /\ crashes = 0 /\ foreign = 0

(* While nothing fails, records are for partial files of artifacts that    *)
(* are not staged.                                                         *)
RecordsInv ==
    Undisturbed =>
        /\ \A d \in Pending : temp[d] # Missing /\ final[d] # "right"
        /\ pc \in Working => final[index] # "right"
        /\ pc # "reconcile"

DownloadInv == TypeInv /\ AdmittedInv /\ StagedInv /\ DurableInv /\ CoordinatorInv /\ RecordsInv

-----------------------------------------------------------------------------
(* Numbers: induction, the largest size, and the sums of the admission. *)

(* The artifacts are numbered from 1. *)
LEMMA Numbered ==
    /\ Cardinality(Downloads) \in Nat /\ WordMax \in Nat /\ MaxTotalBytes \in 0 .. WordMax /\ MaxRetries \in Nat
    /\ \A d : d \in Downloads <=> d \in 1 .. Cardinality(Downloads)
<1>1. Cardinality(Downloads) \in Nat
  BY DownloadAssumption, FS_CardinalityType
<1>2. Downloads = 1 .. Cardinality(Downloads)
  BY DownloadAssumption
<1>3. QED
  BY <1>1, <1>2, DownloadAssumption

(* A set of numbers that has 0 and the successor of each of its members    *)
(* has all of them: its complement would have a least one.                 *)
LEMMA SetInduction ==
    ASSUME NEW S, 0 \in S, \A n \in Nat : n \in S => n + 1 \in S
    PROVE  Nat \subseteq S
<1> DEFINE T == Nat \ S
           R == OpToRel(<, Nat)
<1>1. SUFFICES ASSUME T # {} PROVE FALSE
  OBVIOUS
<1>2. IsWellFoundedOn(R, Nat)
  BY NatLessThanWellFounded
<1>3. T \subseteq Nat
  OBVIOUS
<1> HIDE DEF R, T
<1>4. PICK x \in T : \A y \in T : ~ (<<y, x>> \in R)
  BY <1>1, <1>2, <1>3, WFMin
<1>5. x \in Nat /\ x \notin S /\ x # 0
  BY <1>4 DEF T
<1>6. x - 1 \in Nat /\ x - 1 < x
  BY <1>5
<1>7. x - 1 \notin S
  BY <1>5, <1>6
<1>8. <<x - 1, x>> \in R
  BY <1>5, <1>6 DEF R, OpToRel
<1>9. QED
  BY <1>4, <1>6, <1>7, <1>8 DEF T

(* The largest size is one of them: otherwise there would be one beyond    *)
(* every bound.                                                            *)
LEMMA LargestSize ==
    ASSUME Sizes # {}
    PROVE  Max(Sizes) \in Sizes /\ Max(Sizes) \in Nat /\ \A s \in Sizes : s <= Max(Sizes)
<1>1. Sizes \subseteq 0 .. WordMax /\ WordMax \in Nat
  BY DownloadAssumption
<1>2. \E x \in Sizes : \A y \in Sizes : x >= y
  <2>1. SUFFICES ASSUME \A x \in Sizes : \E y \in Sizes : y > x PROVE FALSE
    BY <1>1
  <2> DEFINE S == {n \in Nat : \E x \in Sizes : x >= n}
  <2>2. 0 \in S
    <3>1. PICK x \in Sizes : TRUE
      OBVIOUS
    <3>2. x >= 0
      BY <1>1
    <3>3. QED
      BY <3>2
  <2>3. ASSUME NEW n \in Nat, n \in S PROVE n + 1 \in S
    <3>1. PICK x \in Sizes : x >= n
      BY <2>3
    <3>2. PICK y \in Sizes : y > x
      BY <2>1
    <3>3. y >= n + 1
      BY <1>1, <3>1, <3>2
    <3>4. QED
      BY <3>3
  <2>4. Nat \subseteq S
    <3> HIDE DEF S
    <3>1. QED
      BY <2>2, <2>3, SetInduction
  <2>5. PICK x \in Sizes : x >= WordMax + 1
    BY <1>1, <2>4
  <2>6. QED
    BY <1>1, <2>5
<1>3. PICK m \in Sizes : m = Max(Sizes) /\ \A y \in Sizes : m >= y
  BY <1>2 DEF Max
<1>4. QED
  BY <1>1, <1>3

(* The files that can be: the empty one, and lengths are numbers. *)
LEMMA PartialFiles ==
    /\ \A t \in Partials : t \in [len: Nat, pure: BOOLEAN] /\ t # Missing
    /\ Sizes # {} => Empty \in Partials
    /\ \A t \in Partials : t # Empty => [t EXCEPT !.pure = FALSE] \in Partials
<1>1. \A t \in Partials : t \in [len: Nat, pure: BOOLEAN] /\ t # Missing
  BY DownloadAssumption DEF Partials
<1>2. Sizes # {} => Empty \in Partials
  BY LargestSize DEF Partials, Empty
<1>3. ASSUME NEW t \in Partials, t # Empty PROVE [t EXCEPT !.pure = FALSE] \in Partials
  <2>1. t \in [len: 0 .. Max(Sizes) + 1, pure: BOOLEAN] /\ (t.len = 0 => t.pure)
    BY DEF Partials
  <2>2. t = [len |-> t.len, pure |-> t.pure]
    BY <2>1
  <2>3. t.len # 0
    <3>1. SUFFICES ASSUME t.len = 0 PROVE FALSE
      OBVIOUS
    <3>2. t.pure = TRUE
      BY <2>1, <3>1
    <3>3. QED
      BY <1>3, <2>2, <3>1, <3>2 DEF Empty
  <2>4. QED
    BY <2>1, <2>3 DEF Partials
<1>4. QED
  BY <1>1, <1>2, <1>3

(* The recursive definition of the exact sums has a solution. *)
LEMMA ExactTotalsDef ==
    ASSUME NEW sizes
    PROVE  ExactTotals(sizes) = [n \in 0 .. Cardinality(Downloads) |->
                                    IF n = 0 THEN 0 ELSE ExactTotals(sizes)[n - 1] + sizes[n]]
<1> DEFINE D(g, m) == g = [n \in 0 .. m |-> IF n = 0 THEN 0 ELSE g[n - 1] + sizes[n]]
           S == {m \in Nat : \E g : D(g, m)}
<1>1. 0 \in S
  <2> DEFINE g == [n \in 0 .. 0 |-> 0]
  <2>1. D(g, 0)
    OBVIOUS
  <2> HIDE DEF g
  <2>2. QED
    BY <2>1
<1>2. ASSUME NEW m \in Nat, m \in S PROVE m + 1 \in S
  <2>1. PICK g : D(g, m)
    BY <1>2
  <2> DEFINE h == [n \in 0 .. m + 1 |-> IF n <= m THEN g[n] ELSE g[m] + sizes[n]]
  <2>2. ASSUME NEW n \in 0 .. m + 1 PROVE h[n] = IF n = 0 THEN 0 ELSE h[n - 1] + sizes[n]
    BY <2>1
  <2>3. h = [n \in 0 .. m + 1 |-> h[n]]
    OBVIOUS
  <2>4. D(h, m + 1)
    BY <2>2, <2>3
  <2> HIDE DEF h
  <2>5. QED
    BY <2>4
<1>3. Cardinality(Downloads) \in S
  <2> HIDE DEF S
  <2>1. QED
    BY <1>1, <1>2, Numbered, SetInduction
<1>4. \E g : D(g, Cardinality(Downloads))
  BY <1>3
<1>5. ExactTotals(sizes) = CHOOSE g : D(g, Cardinality(Downloads))
  BY DEF ExactTotals
<1>6. QED
  BY <1>4, <1>5

(* So has that of the sums the program computes. *)
LEMMA TotalsDef ==
    ASSUME NEW sizes
    PROVE  Totals(sizes) = [n \in 0 .. Cardinality(Downloads) |->
               IF n = 0 THEN 0
               ELSE IF Totals(sizes)[n - 1] = None \/ sizes[n] > MaxArtifactBytes THEN None
               ELSE IF checkedAdd(Totals(sizes)[n - 1], sizes[n]) = None THEN None
               ELSE IF checkedAdd(Totals(sizes)[n - 1], sizes[n]) > MaxTotalBytes THEN None
               ELSE checkedAdd(Totals(sizes)[n - 1], sizes[n])]
<1> DEFINE Step(s, n) == IF s = None \/ sizes[n] > MaxArtifactBytes THEN None
                         ELSE IF checkedAdd(s, sizes[n]) = None THEN None
                         ELSE IF checkedAdd(s, sizes[n]) > MaxTotalBytes THEN None
                         ELSE checkedAdd(s, sizes[n])
           D(g, m) == g = [n \in 0 .. m |-> IF n = 0 THEN 0 ELSE Step(g[n - 1], n)]
           S == {m \in Nat : \E g : D(g, m)}
<1>5. Totals(sizes) = CHOOSE g : D(g, Cardinality(Downloads))
  BY DEF Totals
<1> HIDE DEF Step
<1>1. 0 \in S
  <2> DEFINE g == [n \in 0 .. 0 |-> 0]
  <2>1. D(g, 0)
    OBVIOUS
  <2> HIDE DEF g
  <2>2. QED
    BY <2>1
<1>2. ASSUME NEW m \in Nat, m \in S PROVE m + 1 \in S
  <2>1. PICK g : D(g, m)
    BY <1>2
  <2> DEFINE h == [n \in 0 .. m + 1 |-> IF n <= m THEN g[n] ELSE Step(g[m], n)]
  <2>2. ASSUME NEW n \in 0 .. m + 1 PROVE h[n] = IF n = 0 THEN 0 ELSE Step(h[n - 1], n)
    BY <2>1
  <2>3. h = [n \in 0 .. m + 1 |-> h[n]]
    OBVIOUS
  <2>4. D(h, m + 1)
    BY <2>2, <2>3
  <2> HIDE DEF h
  <2>5. QED
    BY <2>4
<1>3. Cardinality(Downloads) \in S
  <2> HIDE DEF S
  <2>1. QED
    BY <1>1, <1>2, Numbered, SetInduction
<1>4. \E g : D(g, Cardinality(Downloads))
  BY <1>3
<1>6. D(Totals(sizes), Cardinality(Downloads))
  BY <1>4, <1>5
<1>7. QED
  BY <1>6 DEF Step

(* A sum the program computes is exact and within the limit. *)
LEMMA TotalsAreExact ==
    ASSUME NEW sizes \in [Downloads -> Sizes]
    PROVE  \A n \in 0 .. Cardinality(Downloads) :
               Totals(sizes)[n] # None => Totals(sizes)[n] = ExactTotals(sizes)[n] /\ Totals(sizes)[n] \in 0 .. MaxTotalBytes
<1> DEFINE P(n) == Totals(sizes)[n] # None =>
                       Totals(sizes)[n] = ExactTotals(sizes)[n] /\ Totals(sizes)[n] \in 0 .. MaxTotalBytes
           S == {n \in Nat : n <= Cardinality(Downloads) => P(n)}
<1>1. 0 \in S
  <2>1. 0 \in 0 .. Cardinality(Downloads)
    BY Numbered
  <2>2. Totals(sizes)[0] = 0 /\ ExactTotals(sizes)[0] = 0
    BY <2>1, TotalsDef, ExactTotalsDef
  <2>3. QED
    BY <2>2, Numbered
<1>2. ASSUME NEW n \in Nat, n \in S PROVE n + 1 \in S
  <2>1. SUFFICES ASSUME n + 1 <= Cardinality(Downloads), Totals(sizes)[n + 1] # None PROVE P(n + 1)
    OBVIOUS
  <2>2. n + 1 \in 0 .. Cardinality(Downloads) /\ n + 1 \in Downloads /\ n + 1 # 0 /\ (n + 1) - 1 = n
    BY <2>1, Numbered
  <2>3. sizes[n + 1] \in Nat
    <3>1. sizes[n + 1] \in Sizes /\ Sizes \subseteq 0 .. WordMax
      BY <2>2, DownloadAssumption
    <3> DEFINE x == sizes[n + 1]
    <3>2. x \in 0 .. WordMax
      BY <3>1
    <3> HIDE DEF x
    <3>3. x \in Nat
      BY <3>2
    <3>4. QED
      BY <3>3 DEF x
  <2> DEFINE t == Totals(sizes)[n]
  <2>4. ExactTotals(sizes)[n + 1] = ExactTotals(sizes)[n] + sizes[n + 1]
    <3> DEFINE f == ExactTotals(sizes)
    <3>1. f = [k \in 0 .. Cardinality(Downloads) |-> IF k = 0 THEN 0 ELSE f[k - 1] + sizes[k]]
      BY ExactTotalsDef
    <3> HIDE DEF f
    <3>2. f[n + 1] = IF n + 1 = 0 THEN 0 ELSE f[(n + 1) - 1] + sizes[n + 1]
      BY <2>2, <3>1
    <3>3. QED
      BY <2>2, <3>2 DEF f
  <2>5. Totals(sizes)[n + 1] = IF t = None \/ sizes[n + 1] > MaxArtifactBytes THEN None
                               ELSE IF checkedAdd(t, sizes[n + 1]) = None THEN None
                               ELSE IF checkedAdd(t, sizes[n + 1]) > MaxTotalBytes THEN None
                               ELSE checkedAdd(t, sizes[n + 1])
    <3> DEFINE f == Totals(sizes)
               Step(a, k) == IF a = None \/ sizes[k] > MaxArtifactBytes THEN None
                             ELSE IF checkedAdd(a, sizes[k]) = None THEN None
                             ELSE IF checkedAdd(a, sizes[k]) > MaxTotalBytes THEN None
                             ELSE checkedAdd(a, sizes[k])
    <3>1. f = [k \in 0 .. Cardinality(Downloads) |-> IF k = 0 THEN 0 ELSE Step(f[k - 1], k)]
      BY TotalsDef
    <3> HIDE DEF f, Step
    <3>2. f[n + 1] = IF n + 1 = 0 THEN 0 ELSE Step(f[(n + 1) - 1], n + 1)
      BY <2>2, <3>1
    <3>3. f[n + 1] = Step(f[n], n + 1)
      BY <2>2, <3>2
    <3>4. QED
      BY <3>3 DEF f, Step
  <2>6. t # None /\ t = ExactTotals(sizes)[n] /\ t \in 0 .. MaxTotalBytes
    <3>1. t # None
      BY <2>1, <2>5
    <3>2. QED
      BY <1>2, <2>1, <3>1, Numbered
  <2> HIDE DEF t
  <2>7. /\ Totals(sizes)[n + 1] = checkedAdd(t, sizes[n + 1])
        /\ ~ (checkedAdd(t, sizes[n + 1]) > MaxTotalBytes) /\ checkedAdd(t, sizes[n + 1]) # None
    BY <2>1, <2>5
  <2>8. checkedAdd(t, sizes[n + 1]) = t + sizes[n + 1]
    BY <2>7 DEF checkedAdd
  <2>9. QED
    BY <2>3, <2>4, <2>6, <2>7, <2>8, Numbered
<1>3. Nat \subseteq S
  <2> HIDE DEF S
  <2>1. QED
    BY <1>1, <1>2, SetInduction
<1>4. QED
  BY <1>3, Numbered

(* So nothing is admitted beyond the limit. *)
LEMMA AdmittedIsBounded ==
    ASSUME TypeInv, AdmittedInv
    PROVE  AdmittedWithinLimits
<1>1. Cardinality(Downloads) \in 0 .. Cardinality(Downloads) /\ size \in [Downloads -> Sizes]
  BY Numbered DEF TypeInv
<1>2. QED
  BY <1>1, TotalsAreExact, Numbered DEF AdmittedInv, AdmittedWithinLimits, Total

-----------------------------------------------------------------------------
(* The coordinator. *)

(* It is left alone. *)
LEMMA KeepCoordinator ==
    ASSUME TypeInv, CoordinatorInv, pc # "idle", pc' # "idle",
           UNCHANGED <<enableResume, batch, record, cached, upserts, clears>>
    PROVE  CoordinatorInv' /\ RecordTypes' /\ Pending' = Pending
<1>1. CoordinatorInv'
  BY DEF CoordinatorInv
<1>2. RecordTypes'
  BY DEF TypeInv, RecordTypes
<1>3. QED
  BY <1>1, <1>2 DEF Pending

(* A record is dropped: here, and in the store at the end of the run. *)
LEMMA ClearCoordinator ==
    ASSUME TypeInv, CoordinatorInv, pc # "idle", pc' # "idle", index \in Downloads,
           UNCHANGED <<enableResume, batch>>, ClearRecord(index)
    PROVE  CoordinatorInv' /\ RecordTypes' /\ Pending' = Pending \ {index}
<1>1. CASE batch
  <2>1. /\ cached' = cached \ {index} /\ upserts' = upserts \ {index}
        /\ clears' = clears \union {index} /\ record' = record /\ batch' = batch /\ enableResume' = enableResume
    BY <1>1 DEF ClearRecord
  <2>2. CoordinatorInv'
    BY <2>1 DEF CoordinatorInv
  <2>3. RecordTypes'
    BY <2>1 DEF TypeInv, RecordTypes
  <2>4. Pending' = Pending \ {index}
    BY <1>1, <2>1 DEF Pending
  <2>5. QED
    BY <2>2, <2>3, <2>4
<1>2. CASE ~ batch
  <2>1. /\ record' = record \ {index} /\ cached' = cached /\ upserts' = upserts /\ clears' = clears
        /\ batch' = batch /\ enableResume' = enableResume
    BY <1>2 DEF ClearRecord
  <2>2. CoordinatorInv'
    BY <1>2, <2>1 DEF CoordinatorInv
  <2>3. RecordTypes'
    BY <2>1 DEF TypeInv, RecordTypes
  <2>4. Pending' = Pending \ {index}
    BY <1>2, <2>1 DEF Pending
  <2>5. QED
    BY <2>2, <2>3, <2>4
<1>3. QED
  BY <1>1, <1>2

(* A record is kept for the partial file. *)
LEMMA SaveCoordinator ==
    ASSUME TypeInv, CoordinatorInv, pc # "idle", pc' # "idle", index \in Downloads, enableResume,
           UNCHANGED <<enableResume, batch>>, SaveRecord(index)
    PROVE  CoordinatorInv' /\ RecordTypes' /\ Pending' = Pending \union {index}
<1>1. CASE batch
  <2>1. /\ cached' = cached \union {index} /\ upserts' = upserts \union {index}
        /\ clears' = clears \ {index} /\ record' = record /\ batch' = batch /\ enableResume' = enableResume
    BY <1>1 DEF SaveRecord
  <2>2. CoordinatorInv'
    BY <2>1 DEF CoordinatorInv
  <2>3. RecordTypes'
    BY <2>1 DEF TypeInv, RecordTypes
  <2>4. Pending' = Pending \union {index}
    BY <1>1, <2>1 DEF Pending
  <2>5. QED
    BY <2>2, <2>3, <2>4
<1>2. CASE ~ batch
  <2>1. /\ record' = record \union {index} /\ cached' = cached /\ upserts' = upserts /\ clears' = clears
        /\ batch' = batch /\ enableResume' = enableResume
    BY <1>2 DEF SaveRecord
  <2>2. CoordinatorInv'
    BY <1>2, <2>1 DEF CoordinatorInv
  <2>3. RecordTypes'
    BY <2>1 DEF TypeInv, RecordTypes
  <2>4. Pending' = Pending \union {index}
    BY <1>2, <2>1 DEF Pending
  <2>5. QED
    BY <2>2, <2>3, <2>4
<1>3. QED
  BY <1>1, <1>2

-----------------------------------------------------------------------------
(* The loop up to the publication. *)

(* What the steps that leave the staged files alone have in common. *)
LEMMA ProgressInv ==
    ASSUME DownloadInv, pc \in Looping, pc' \in (Looping \ {"reconcile"}) \union {"flush"},
           UNCHANGED <<size, enableResume, batch, renames, final, afterCrash, spoiled, own, outcome, crashes, foreign>>,
           temp' \in [Downloads -> Partials \union {Missing}],
           index' = index \/ (index' = index + 1 /\ index \in Downloads /\ Staged(index) /\ pc' = "file"),
           attempt' \in 0 .. MaxRetries, flushed' \in BOOLEAN, changed' \in BOOLEAN, changed' => changed,
           pc' \in Working => index \in Downloads,
           execution' \in {"none", "ok", "fail"}, faults' \in {faults, faults + 1},
           pc' = "flush" /\ execution' = "ok" => index \notin Downloads,
           pc' = "publish" => temp'[index] = Complete(index),
           pc' \in {"verify", "publish"} => flushed',
           CoordinatorInv', RecordTypes',
           Undisturbed' =>
              /\ \A d \in Pending' : temp'[d] # Missing /\ final[d] # "right"
              /\ pc' \in Working => final[index] # "right"
    PROVE  DownloadInv'
<1>1. TypeInv'
  <2>1. index' \in 1 .. Cardinality(Downloads) + 1 /\ faults' \in Nat
    BY Numbered DEF DownloadInv, TypeInv
  <2>2. pc' \in {"idle", "file", "flush"} \union Working /\ (pc' \in Working => index' \in Downloads)
    BY DEF Looping, Working
  <2>3. /\ size' \in [Downloads -> Sizes] /\ enableResume' \in BOOLEAN /\ batch' \in BOOLEAN
        /\ renames' \in BOOLEAN /\ final' \in [Downloads -> Names] /\ afterCrash' \in [Downloads -> SUBSET Names]
        /\ own' \subseteq Downloads /\ outcome' \in {"none", "ok", "fail"} /\ crashes' \in Nat /\ foreign' \in Nat
    BY DEF DownloadInv, TypeInv
  <2>4. QED
    BY <2>1, <2>2, <2>3 DEF TypeInv
<1>2. AdmittedInv'
  BY DEF DownloadInv, AdmittedInv, Total, Looping, Working
<1>3. StagedInv'
  <2>1. \A d \in Downloads : Staged(d)' <=> Staged(d)
    BY DEF Staged
  <2>2. \A d \in Downloads : d < index => Staged(d)
    BY DEF DownloadInv, StagedInv
  <2>3. pc' \in Looping => \A d \in Downloads : d < index' => Staged(d)
    <3>1. \A d \in Downloads : d < index + 1 => d < index \/ d = index
      BY Numbered DEF DownloadInv, TypeInv
    <3>2. QED
      BY <2>2, <3>1
  <2>4. pc' = "flush" /\ execution' = "ok" => \A d \in Downloads : Staged(d)
    <3>1. index \notin Downloads => \A d \in Downloads : d < index
      BY Numbered DEF DownloadInv, TypeInv
    <3>2. QED
      BY <2>2, <3>1
  <2>5. outcome' # "ok"
    BY DEF DownloadInv, StagedInv, Looping, Working
  <2>6. pc' = "publish" => temp'[index'] = Complete(index)'
    BY DEF Complete
  <2>7. pc' # "reconcile"
    OBVIOUS
  <2>8. QED
    BY <2>1, <2>3, <2>4, <2>5, <2>6, <2>7 DEF StagedInv
<1>4. DurableInv'
  <2>1. pc' \in Looping => \A d \in own' : d < index'
    BY Numbered DEF DownloadInv, DurableInv, TypeInv
  <2>2. QED
    BY <2>1 DEF DownloadInv, DurableInv
<1>5. RecordsInv'
  BY DEF RecordsInv, Working
<1>6. QED
  BY <1>1, <1>2, <1>3, <1>4, <1>5 DEF DownloadInv

(* What every step may use. *)
LEMMA Facts ==
    ASSUME DownloadInv
    PROVE  /\ size \in [Downloads -> Sizes] /\ enableResume \in BOOLEAN /\ batch \in BOOLEAN
           /\ temp \in [Downloads -> Partials \union {Missing}] /\ attempt \in 0 .. MaxRetries
           /\ flushed \in BOOLEAN /\ changed \in BOOLEAN /\ execution \in {"none", "ok", "fail"}
           /\ faults \in Nat /\ crashes \in Nat /\ foreign \in Nat
           /\ pc \in Working => index \in Downloads
BY DEF DownloadInv, TypeInv

(* The steps before this one failed no more than it does. *)
LEMMA UndisturbedBefore ==
    ASSUME DownloadInv, faults' \in {faults, faults + 1}, crashes' = crashes, foreign' = foreign, Undisturbed'
    PROVE  Undisturbed /\ faults' = faults
BY Facts DEF Undisturbed

(* The next artifact: staged already, or to be downloaded. *)
LEMMA NextFileInv ==
    ASSUME DownloadInv, NextFile
    PROVE  DownloadInv'
<1>1. /\ pc = "file" /\ index \in Downloads
      /\ UNCHANGED <<size, enableResume, batch, renames, final, afterCrash, spoiled, temp, own, flushed,
                     crashes, foreign, outcome>>
      /\ faults' \in {faults, faults + 1}
      /\ \/ /\ pc' = "flush" /\ execution' = "fail"
            /\ UNCHANGED <<record, cached, upserts, clears, index, attempt, changed>>
         \/ /\ final[index] = "right" /\ ClearRecord(index) /\ index' = index + 1 /\ pc' = "file"
            /\ UNCHANGED <<execution, attempt, changed>>
         \/ /\ final[index] # "right" /\ attempt' = 0 /\ changed' = FALSE /\ pc' = "attempt"
            /\ UNCHANGED <<execution, record, cached, upserts, clears, index>>
  BY DEF NextFile, config, staging, coordinator, bounds, results, Stops, Goes, Advances, NoFault, Fault
<1>2. pc \in Looping /\ pc # "idle" /\ pc' # "idle"
  BY <1>1 DEF Looping, Working
<1>3. CoordinatorInv' /\ RecordTypes' /\ Pending' \subseteq Pending /\ (index' = index + 1 => index \notin Pending')
  <2>1. CASE ClearRecord(index)
    <3>1. CoordinatorInv' /\ RecordTypes' /\ Pending' = Pending \ {index}
      BY <1>1, <1>2, <2>1, ClearCoordinator DEF DownloadInv
    <3>2. QED
      BY <3>1
  <2>2. CASE UNCHANGED <<record, cached, upserts, clears>> /\ index' = index
    <3>1. CoordinatorInv' /\ RecordTypes' /\ Pending' = Pending
      BY <1>1, <1>2, <2>2, KeepCoordinator DEF DownloadInv
    <3>2. index' # index + 1
      BY <2>2, Numbered DEF DownloadInv, TypeInv
    <3>3. QED
      BY <3>1, <3>2
  <2>3. QED
    BY <1>1, <2>1, <2>2
<1>4. /\ temp' \in [Downloads -> Partials \union {Missing}] /\ attempt' \in 0 .. MaxRetries /\ flushed' \in BOOLEAN
      /\ changed' \in BOOLEAN /\ (changed' => changed) /\ execution' \in {"none", "ok", "fail"}
  <2>1. 0 \in 0 .. MaxRetries
    BY Numbered
  <2>2. temp' \in [Downloads -> Partials \union {Missing}] /\ attempt' \in 0 .. MaxRetries /\ flushed' \in BOOLEAN
    BY <1>1, <2>1, Facts
  <2>3. changed' = changed \/ changed' = FALSE
    BY <1>1
  <2>4. changed' \in BOOLEAN /\ (changed' => changed)
    <3>1. CASE changed' = changed
      <4>1. changed \in BOOLEAN
        BY Facts
      <4>2. QED
        BY <3>1, <4>1
    <3>2. CASE changed' = FALSE
      BY <3>2
    <3>3. QED
      BY <2>3, <3>1, <3>2
  <2>5. execution' \in {"none", "ok", "fail"}
    BY <1>1, Facts
  <2>6. QED
    BY <2>2, <2>4, <2>5
<1>5. Undisturbed' =>
        /\ \A d \in Pending' : temp'[d] # Missing /\ final[d] # "right"
        /\ pc' \in Working => final[index] # "right"
  <2>1. Undisturbed' => Undisturbed
    BY <1>1, UndisturbedBefore
  <2>2. Undisturbed => \A d \in Pending : temp[d] # Missing /\ final[d] # "right"
    BY DEF DownloadInv, RecordsInv
  <2>3. pc' \in Working => final[index] # "right"
    BY <1>1 DEF Working
  <2>4. QED
    BY <1>1, <1>3, <2>1, <2>2, <2>3
<1>6. /\ pc' \in (Looping \ {"reconcile"}) \union {"flush"}
      /\ index' = index \/ (index' = index + 1 /\ index \in Downloads /\ Staged(index) /\ pc' = "file")
      /\ pc' \in Working => index \in Downloads
      /\ pc' = "flush" /\ execution' = "ok" => index \notin Downloads
      /\ pc' = "publish" => temp'[index] = Complete(index)
      /\ pc' \in {"verify", "publish"} => flushed'
  BY <1>1 DEF Looping, Working, Staged
<1>7. QED
  BY <1>1, <1>2, <1>3, <1>4, <1>5, <1>6, ProgressInv

(* No artifact is left. *)
LEMMA AllStagedInv ==
    ASSUME DownloadInv, AllStaged
    PROVE  DownloadInv'
<1>1. /\ pc = "file" /\ index \notin Downloads /\ pc' = "flush" /\ execution' = "ok"
      /\ UNCHANGED <<size, enableResume, batch, renames, final, afterCrash, spoiled, temp, own, flushed, record, cached,
                     upserts, clears, index, attempt, changed, crashes, foreign, outcome, faults>>
  BY DEF AllStaged, config, staging, coordinator, bounds, progress, Stops
<1>2. pc \in Looping /\ pc # "idle" /\ pc' # "idle"
  BY <1>1 DEF Looping, Working
<1>3. CoordinatorInv' /\ RecordTypes' /\ Pending' = Pending
  BY <1>1, <1>2, KeepCoordinator DEF DownloadInv
<1>4. /\ temp' \in [Downloads -> Partials \union {Missing}] /\ attempt' \in 0 .. MaxRetries /\ flushed' \in BOOLEAN
      /\ changed' \in BOOLEAN /\ (changed' => changed) /\ execution' \in {"none", "ok", "fail"}
      /\ faults' \in {faults, faults + 1}
  BY <1>1, Facts
<1>5. Undisturbed' =>
        /\ \A d \in Pending' : temp'[d] # Missing /\ final[d] # "right"
        /\ pc' \in Working => final[index] # "right"
  <2>1. Undisturbed' => Undisturbed
    BY <1>1 DEF Undisturbed
  <2>2. QED
    BY <1>1, <1>3, <2>1 DEF DownloadInv, RecordsInv, Working
<1>6. /\ pc' \in (Looping \ {"reconcile"}) \union {"flush"}
      /\ index' = index \/ (index' = index + 1 /\ index \in Downloads /\ Staged(index) /\ pc' = "file")
      /\ pc' \in Working => index \in Downloads
      /\ pc' = "flush" /\ execution' = "ok" => index \notin Downloads
      /\ pc' = "publish" => temp'[index] = Complete(index)
      /\ pc' \in {"verify", "publish"} => flushed'
  BY <1>1 DEF Working
<1>7. QED
  BY <1>1, <1>2, <1>3, <1>4, <1>5, <1>6, ProgressInv

(* While an artifact is worked on, its name does not hold it.  A step that *)
(* goes on with the same artifact: the coordinator answers for no other    *)
(* record than before, or for that of this partial file.                   *)
LEMMA WorkingInv ==
    ASSUME DownloadInv, pc \in Working \ {"publish", "reconcile"}, pc' \in (Working \ {"reconcile"}) \union {"flush"},
           UNCHANGED <<size, enableResume, batch, renames, final, afterCrash, spoiled, own, outcome, crashes, foreign,
                       index, changed>>,
           NEW t \in Partials \union {Missing}, temp' = [temp EXCEPT ![index] = t],
           attempt' \in 0 .. MaxRetries, flushed' \in BOOLEAN,
           execution' \in {"none", "ok", "fail"}, faults' \in {faults, faults + 1},
           pc' = "flush" => execution' # "ok",
           pc' = "publish" => t = Complete(index),
           pc' \in {"verify", "publish"} => flushed',
           CoordinatorInv', RecordTypes',
           Pending' \subseteq Pending \union {index},
           Undisturbed /\ faults' = faults /\ t = Missing => index \notin Pending'
    PROVE  DownloadInv'
<1>1. pc \in Looping /\ pc' \in (Looping \ {"reconcile"}) \union {"flush"} /\ index \in Downloads
  BY Facts DEF Looping
<1>2. temp' \in [Downloads -> Partials \union {Missing}] /\ temp'[index] = t
  BY <1>1, Facts
<1>3. changed' \in BOOLEAN /\ (changed' => changed)
  BY Facts
<1>4. ASSUME Undisturbed'
      PROVE  /\ \A d \in Pending' : temp'[d] # Missing /\ final[d] # "right"
             /\ pc' \in Working => final[index] # "right"
  <2>1. Undisturbed /\ faults' = faults
    BY <1>4, UndisturbedBefore
  <2>2. /\ \A d \in Pending : temp[d] # Missing /\ final[d] # "right"
        /\ final[index] # "right"
    BY <2>1 DEF DownloadInv, RecordsInv
  <2>3. \A d \in Pending' : d = index \/ (d \in Pending /\ d # index)
    OBVIOUS
  <2>4. Pending' \subseteq Downloads
    BY DEF Pending, RecordTypes
  <2>5. \A d \in Pending' : d # index => temp'[d] = temp[d]
    BY <2>4, Facts
  <2>6. QED
    BY <1>2, <2>1, <2>2, <2>3, <2>5
<1>5. QED
  BY <1>1, <1>2, <1>3, <1>4, ProgressInv

(* An attempt opens the partial file, or drops what is too long. *)
LEMMA AttemptInv ==
    ASSUME DownloadInv, Attempt
    PROVE  DownloadInv'
<1> DEFINE found == IF temp[index] = Missing THEN Empty ELSE temp[index]
           kept == IF found.len <= size[index] THEN found ELSE Empty
<1>1. /\ pc = "attempt"
      /\ UNCHANGED <<size, enableResume, batch, renames, final, afterCrash, spoiled, own, outcome, crashes, foreign,
                     index, changed, attempt, flushed>>
      /\ \/ /\ pc' = "flush" /\ execution' = "fail" /\ faults' = faults
            /\ UNCHANGED <<temp, record, cached, upserts, clears>>
         \/ /\ pc' = "transfer" /\ execution' = execution /\ faults' = faults
            /\ UNCHANGED <<record, cached, upserts, clears>> \/ ClearRecord(index)
            /\ temp' = [temp EXCEPT ![index] = IF enableResume THEN kept ELSE Empty]
         \/ /\ pc' = "flush" /\ execution' = "fail" /\ faults' = faults + 1
            /\ \/ UNCHANGED <<record, cached, upserts, clears>> /\ temp' = [temp EXCEPT ![index] = found]
               \/ /\ UNCHANGED <<record, cached, upserts, clears>> \/ ClearRecord(index)
                  /\ \E t \in {Missing, Empty} : temp' = [temp EXCEPT ![index] = t]
  BY DEF Attempt, OpenPartial, config, coordinator, bounds, results, Stops, Goes, NoFault, Fault
<1>2. index \in Downloads /\ Sizes # {} /\ Empty \in Partials /\ found \in Partials /\ kept \in Partials
  <2>1. index \in Downloads
    BY <1>1, Facts DEF Working
  <2>2. Sizes # {}
    BY <2>1, Facts
  <2>3. Empty \in Partials
    BY <2>2, PartialFiles
  <2>4. QED
    BY <2>1, <2>2, <2>3, Facts
<1> HIDE DEF found, kept
<1>3. PICK t \in Partials \union {Missing} :
          /\ temp' = [temp EXCEPT ![index] = t]
          /\ t = Missing => \/ faults' = faults + 1
                            \/ temp[index] = Missing /\ UNCHANGED <<record, cached, upserts, clears>>
  <2>1. CASE temp' = temp /\ UNCHANGED <<record, cached, upserts, clears>>
    <3>1. temp[index] \in Partials \union {Missing} /\ temp' = [temp EXCEPT ![index] = temp[index]]
      BY <1>2, <2>1, Facts
    <3>2. QED
      BY <2>1, <3>1
  <2>2. CASE \/ temp' = [temp EXCEPT ![index] = IF enableResume THEN kept ELSE Empty]
             \/ temp' = [temp EXCEPT ![index] = found]
    <3>1. PICK t \in Partials : temp' = [temp EXCEPT ![index] = t]
      BY <1>2, <2>2
    <3>2. t # Missing
      BY PartialFiles
    <3>3. QED
      BY <3>1, <3>2
  <2>3. CASE faults' = faults + 1 /\ \E t \in {Missing, Empty} : temp' = [temp EXCEPT ![index] = t]
    BY <1>2, <2>3
  <2>4. QED
    BY <1>1, <2>1, <2>2, <2>3
<1>4. pc # "idle" /\ pc' # "idle"
  BY <1>1
<1>5. CoordinatorInv' /\ RecordTypes' /\ Pending' \subseteq Pending
  <2>1. CASE ClearRecord(index)
    BY <1>1, <1>2, <1>4, <2>1, ClearCoordinator DEF DownloadInv
  <2>2. CASE UNCHANGED <<record, cached, upserts, clears>>
    BY <1>1, <1>4, <2>2, KeepCoordinator DEF DownloadInv
  <2>3. QED
    BY <1>1, <2>1, <2>2
<1>6. Undisturbed /\ faults' = faults /\ t = Missing => index \notin Pending'
  <2>1. faults' = faults => faults' # faults + 1
    BY Facts
  <2>2. QED
    BY <1>3, <1>5, <2>1 DEF DownloadInv, RecordsInv
<1>7. QED
  BY <1>1, <1>2, <1>3, <1>5, <1>6, Facts, WorkingInv DEF Working

(* A transfer that completes leaves some file within the signed size. *)
LEMMA CompletedInv ==
    ASSUME DownloadInv, Completed
    PROVE  DownloadInv'
<1>1. /\ pc = "transfer" /\ pc' = "complete" /\ flushed' = FALSE
      /\ UNCHANGED <<size, enableResume, batch, renames, final, afterCrash, spoiled, own, outcome, execution, crashes,
                     foreign, index, changed, attempt, faults, record, cached, upserts, clears>>
      /\ \E t \in Transferred(index) : temp' = [temp EXCEPT ![index] = t]
  BY DEF Completed, config, coordinator, bounds, results, Goes
<1>2. PICK t \in Partials : temp' = [temp EXCEPT ![index] = t]
  BY <1>1 DEF Transferred
<1>3. t # Missing
  BY PartialFiles
<1>4. CoordinatorInv' /\ RecordTypes' /\ Pending' = Pending
  BY <1>1, KeepCoordinator DEF DownloadInv
<1>5. flushed' \in BOOLEAN
  BY <1>1
<1>6. QED
  BY <1>1, <1>2, <1>3, <1>4, <1>5, Facts, WorkingInv DEF Working

(* A broken transfer keeps its bytes, and a record of them. *)
LEMMA InterruptedInv ==
    ASSUME DownloadInv, Interrupted
    PROVE  DownloadInv'
<1>1. /\ pc = "transfer"
      /\ UNCHANGED <<size, enableResume, batch, renames, final, afterCrash, spoiled, own, outcome, crashes,
                     foreign, index, changed, flushed>>
      /\ \E t \in Transferred(index) : temp' = [temp EXCEPT ![index] = t]
      /\ \/ /\ faults' = faults
            /\ \/ pc' = "attempt" /\ execution' = execution /\ attempt < MaxRetries /\ attempt' = attempt + 1
               \/ pc' = "flush" /\ execution' = "fail" /\ attempt' = attempt
            /\ (enableResume /\ SaveRecord(index)) \/ UNCHANGED <<record, cached, upserts, clears>>
         \/ /\ pc' = "flush" /\ execution' = "fail" /\ faults' = faults + 1
            /\ UNCHANGED <<record, cached, upserts, clears, attempt>>
  BY DEF Interrupted, Retry, config, coordinator, bounds, results, Goes, Stops, Fault, NoFault
<1>2. PICK t \in Partials : temp' = [temp EXCEPT ![index] = t]
  BY <1>1 DEF Transferred
<1>3. t # Missing
  BY PartialFiles
<1>4. index \in Downloads /\ pc # "idle" /\ pc' # "idle"
  BY <1>1, Facts DEF Working
<1>5. CoordinatorInv' /\ RecordTypes' /\ Pending' \subseteq Pending \union {index}
  <2>1. CASE enableResume /\ SaveRecord(index)
    BY <1>1, <1>4, <2>1, SaveCoordinator DEF DownloadInv
  <2>2. CASE UNCHANGED <<record, cached, upserts, clears>>
    BY <1>1, <1>4, <2>2, KeepCoordinator DEF DownloadInv
  <2>3. QED
    BY <1>1, <2>1, <2>2
<1>6. attempt' \in 0 .. MaxRetries
  BY <1>1, Facts, Numbered
<1>7. QED
  BY <1>1, <1>2, <1>3, <1>5, <1>6, Facts, WorkingInv DEF Working

(* A body that is too large is dropped with its record. *)
LEMMA OversizedInv ==
    ASSUME DownloadInv, Oversized
    PROVE  DownloadInv'
<1>1. /\ pc = "transfer" /\ pc' = "flush" /\ execution' = "fail" /\ ClearRecord(index)
      /\ UNCHANGED <<size, enableResume, batch, renames, final, afterCrash, spoiled, own, outcome, crashes,
                     foreign, index, changed, flushed, attempt>>
      /\ \/ temp' = [temp EXCEPT ![index] = Missing] /\ faults' = faults
         \/ faults' = faults + 1 /\ temp' = temp
  BY DEF Oversized, config, progress, bounds, Stops, Fault, NoFault
<1>2. index \in Downloads
  BY <1>1, Facts DEF Working
<1>3. CoordinatorInv' /\ RecordTypes' /\ Pending' = Pending \ {index}
  BY <1>1, <1>2, ClearCoordinator DEF DownloadInv
<1>4. PICK t \in Partials \union {Missing} : temp' = [temp EXCEPT ![index] = t]
  <2>1. temp[index] \in Partials \union {Missing} /\ temp = [temp EXCEPT ![index] = temp[index]]
    BY <1>2, Facts
  <2>2. QED
    BY <1>1, <2>1
<1>5. QED
  BY <1>1, <1>3, <1>4, Facts, WorkingInv DEF Working

(* The completed file is flushed. *)
LEMMA FlushInv ==
    ASSUME DownloadInv, Flush
    PROVE  DownloadInv'
<1>1. /\ pc = "complete"
      /\ UNCHANGED <<size, enableResume, batch, renames, final, afterCrash, spoiled, own, outcome, crashes,
                     foreign, index, changed, attempt, temp, record, cached, upserts, clears>>
      /\ \/ flushed' = TRUE /\ faults' = faults /\ pc' = "verify" /\ execution' = execution
         \/ faults' = faults + 1 /\ pc' = "flush" /\ execution' = "fail" /\ flushed' = flushed
  BY DEF Flush, config, staging, coordinator, bounds, results, Goes, Stops, Fault, NoFault
<1>2. index \in Downloads
  BY <1>1, Facts DEF Working
<1>3. CoordinatorInv' /\ RecordTypes' /\ Pending' = Pending
  BY <1>1, KeepCoordinator DEF DownloadInv
<1>4. temp[index] \in Partials \union {Missing} /\ temp' = [temp EXCEPT ![index] = temp[index]]
  BY <1>1, <1>2, Facts
<1>5. PICK t \in Partials \union {Missing} : t = temp[index]
  BY <1>4
<1>6. Undisturbed /\ t = Missing => index \notin Pending'
  BY <1>3, <1>5 DEF DownloadInv, RecordsInv
<1>7. flushed' \in BOOLEAN /\ (pc' \in {"verify", "publish"} => flushed')
  <2>1. CASE flushed' = TRUE
    BY <2>1
  <2>2. CASE pc' = "flush" /\ flushed' = flushed
    BY <2>2, Facts
  <2>3. QED
    BY <1>1, <2>1, <2>2
<1>8. QED
  BY <1>1, <1>3, <1>4, <1>5, <1>6, <1>7, Facts, WorkingInv DEF Working

(* The digest of the completed file is compared. *)
LEMMA VerifyInv ==
    ASSUME DownloadInv, Verify
    PROVE  DownloadInv'
<1>1. /\ pc = "verify"
      /\ UNCHANGED <<size, enableResume, batch, renames, final, afterCrash, spoiled, own, outcome, crashes,
                     foreign, index, changed, flushed>>
      /\ \/ /\ temp[index] = Complete(index) /\ pc' = "publish"
            /\ UNCHANGED <<faults, execution, temp, record, cached, upserts, clears, attempt>>
         \/ /\ faults' = faults /\ ClearRecord(index) /\ temp' = [temp EXCEPT ![index] = Missing]
            /\ \/ pc' = "attempt" /\ execution' = execution /\ attempt < MaxRetries /\ attempt' = attempt + 1
               \/ pc' = "flush" /\ execution' = "fail" /\ attempt' = attempt
         \/ /\ faults' = faults + 1 /\ ClearRecord(index) /\ pc' = "flush" /\ execution' = "fail" /\ attempt' = attempt
            /\ temp' = temp \/ temp' = [temp EXCEPT ![index] = Missing]
  BY DEF Verify, Retry, config, coordinator, bounds, results, Goes, Stops, Fault, NoFault
<1>2. index \in Downloads /\ pc # "idle" /\ pc' # "idle"
  BY <1>1, Facts DEF Working
<1>3. temp[index] \in Partials \union {Missing} /\ temp = [temp EXCEPT ![index] = temp[index]]
  BY <1>2, Facts
<1>4. PICK t \in Partials \union {Missing} :
         /\ temp' = [temp EXCEPT ![index] = t]
         /\ pc' = "publish" => t = Complete(index)
         /\ t = Missing => ClearRecord(index) \/ temp[index] = Missing
  <2>1. CASE temp' = temp
    BY <1>1, <1>3, <2>1
  <2>2. CASE temp' = [temp EXCEPT ![index] = Missing] /\ ClearRecord(index) /\ pc' # "publish"
    BY <2>2
  <2>3. QED
    BY <1>1, <2>1, <2>2
<1>5. /\ CoordinatorInv' /\ RecordTypes' /\ Pending' \subseteq Pending
      /\ ClearRecord(index) => index \notin Pending'
  <2>1. CASE ClearRecord(index)
    <3>1. CoordinatorInv' /\ RecordTypes' /\ Pending' = Pending \ {index}
      BY <1>1, <1>2, <2>1, ClearCoordinator DEF DownloadInv
    <3>2. QED
      BY <3>1
  <2>2. CASE UNCHANGED <<record, cached, upserts, clears>> /\ ~ ClearRecord(index)
    BY <1>1, <1>2, <2>2, KeepCoordinator DEF DownloadInv
  <2>3. QED
    BY <1>1, <2>1, <2>2
<1>6. Undisturbed /\ t = Missing => index \notin Pending'
  <2>1. Undisturbed => \A d \in Pending : temp[d] # Missing
    BY DEF DownloadInv, RecordsInv
  <2>2. QED
    BY <1>4, <1>5, <2>1
<1>7. attempt' \in 0 .. MaxRetries
  BY <1>1, Facts, Numbered
<1>8. flushed
  BY <1>1 DEF DownloadInv, DurableInv
<1>9. QED
  BY <1>1, <1>4, <1>5, <1>6, <1>7, <1>8, Facts, WorkingInv DEF Working

-----------------------------------------------------------------------------
(* The publication. *)

(* The verified partial file under the final name. *)
LEMMA VisibleFacts ==
    ASSUME DownloadInv, pc \in {"publish", "reconcile"}, Visible(index),
           temp[index] = Complete(index) \/ index \in spoiled
    PROVE  /\ final' \in [Downloads -> Names] /\ (\A d \in Downloads : d # index => final'[d] = final[d])
           /\ \A d \in Downloads : Staged(d) \/ d = index => Staged(d)'
           /\ Survives(index) \in {"right", "wrong"}
           /\ foreign = 0 => spoiled' = {} /\ final'[index] = "right" /\ Survives(index) = "right"
           /\ temp[index] = Complete(index) \/ index \in spoiled'
<1>1. index \in Downloads /\ final \in [Downloads -> Names]
  BY DEF DownloadInv, TypeInv, Working
<1>2. flushed
  BY DEF DownloadInv, DurableInv
<1>3. foreign = 0 => spoiled = {}
  BY DEF DownloadInv, DurableInv
<1>4. /\ final' = [final EXCEPT ![index] = Content(temp[index], index)]
      /\ spoiled' = IF temp[index] = Complete(index) THEN spoiled \ {index} ELSE spoiled
  BY DEF Visible
<1>5. Content(temp[index], index) \in {"right", "wrong"} /\ Survives(index) = Content(temp[index], index)
  BY <1>2 DEF Content, Survives
<1>6. temp[index] = Complete(index) => Content(temp[index], index) = "right"
  BY DEF Content
<1>7. final' \in [Downloads -> Names] /\ (\A d \in Downloads : d # index => final'[d] = final[d])
      /\ final'[index] = Content(temp[index], index)
  BY <1>1, <1>4, <1>5 DEF Names
<1>8. \A d \in Downloads : Staged(d) \/ d = index => Staged(d)'
  BY <1>4, <1>6, <1>7 DEF Staged
<1>9. temp[index] = Complete(index) \/ index \in spoiled'
  BY <1>4
<1>10. foreign = 0 => spoiled' = {} /\ final'[index] = "right" /\ Survives(index) = "right"
  BY <1>3, <1>4, <1>5, <1>6, <1>7
<1>11. QED
  BY <1>5, <1>7, <1>8, <1>9, <1>10

(* The artifact is published and the loop goes on. *)
LEMMA AdvanceInv ==
    ASSUME DownloadInv, pc \in {"publish", "reconcile"}, temp[index] = Complete(index) \/ index \in spoiled,
           Published(index), ClearRecord(index), own' = own \union {index}, index' = index + 1, pc' = "file",
           UNCHANGED <<size, enableResume, batch, renames, outcome, execution, crashes, foreign, changed, attempt,
                       flushed, faults>>
    PROVE  DownloadInv'
<1>1. /\ Visible(index) /\ temp' = [temp EXCEPT ![index] = Missing]
      /\ afterCrash' = [afterCrash EXCEPT ![index] = {Survives(index)}]
  BY DEF Published
<1>2. /\ index \in Downloads /\ temp \in [Downloads -> Partials \union {Missing}]
      /\ afterCrash \in [Downloads -> SUBSET Names] /\ own \subseteq Downloads /\ index \in Nat
  BY Numbered DEF DownloadInv, TypeInv, Working
<1>3. /\ final' \in [Downloads -> Names] /\ (\A d \in Downloads : d # index => final'[d] = final[d])
      /\ \A d \in Downloads : Staged(d) \/ d = index => Staged(d)'
      /\ Survives(index) \in {"right", "wrong"}
      /\ foreign = 0 => spoiled' = {} /\ final'[index] = "right" /\ Survives(index) = "right"
  BY <1>1, VisibleFacts
<1>4. CoordinatorInv' /\ RecordTypes' /\ Pending' = Pending \ {index}
  BY <1>2, ClearCoordinator DEF DownloadInv
<1>5. /\ temp' \in [Downloads -> Partials \union {Missing}] /\ (\A d \in Downloads : d # index => temp'[d] = temp[d])
      /\ afterCrash' \in [Downloads -> SUBSET Names] /\ afterCrash'[index] = {Survives(index)}
      /\ \A d \in Downloads : d # index => afterCrash'[d] = afterCrash[d]
  BY <1>1, <1>2, <1>3 DEF Names
<1>6. TypeInv'
  <2>1. index' \in 1 .. Cardinality(Downloads) + 1
    BY <1>2, Numbered
  <2>2. own' \subseteq Downloads /\ pc' \in {"idle", "file", "flush"} \union Working /\ pc' \notin Working
    BY <1>2 DEF Working
  <2>3. QED
    BY <1>3, <1>4, <1>5, <2>1, <2>2 DEF DownloadInv, TypeInv
<1>7. AdmittedInv'
  BY DEF DownloadInv, AdmittedInv, Total
<1>8. StagedInv'
  <2>1. \A d \in Downloads : d < index => Staged(d)
    BY DEF DownloadInv, StagedInv, Looping, Working
  <2>2. \A d \in Downloads : d < index' => d < index \/ d = index
    BY <1>2, Numbered
  <2>3. outcome' # "ok"
    BY DEF DownloadInv, StagedInv
  <2>4. QED
    BY <1>3, <2>1, <2>2, <2>3 DEF StagedInv
<1>9. DurableInv'
  <2>1. \A d \in own : d < index
    BY DEF DownloadInv, DurableInv, Looping, Working
  <2>2. \A d \in own' : d < index'
    BY <1>2, <2>1, Numbered
  <2>3. \A d \in own : d # index
    BY <1>2, <2>1
  <2>4. ASSUME foreign' = 0
        PROVE  /\ spoiled' = {} /\ ~ changed'
               /\ \A d \in Downloads : final'[d] # "wrong" /\ "wrong" \notin afterCrash'[d]
               /\ \A d \in own' : afterCrash'[d] = {"right"}
    <3>1. /\ ~ changed /\ (\A d \in Downloads : final[d] # "wrong" /\ "wrong" \notin afterCrash[d])
          /\ \A d \in own : afterCrash[d] = {"right"}
      BY <2>4 DEF DownloadInv, DurableInv
    <3>2. spoiled' = {} /\ ~ changed' /\ final'[index] = "right" /\ afterCrash'[index] = {"right"}
      BY <1>3, <1>5, <2>4, <3>1
    <3>3. \A d \in Downloads : final'[d] # "wrong" /\ "wrong" \notin afterCrash'[d]
      BY <1>3, <1>5, <3>1, <3>2
    <3>4. \A d \in own' : afterCrash'[d] = {"right"}
      BY <1>2, <1>5, <2>3, <3>1, <3>2
    <3>5. QED
      BY <3>2, <3>3, <3>4
  <2>5. QED
    BY <2>2, <2>4 DEF DurableInv
<1>10. RecordsInv'
  <2>1. Undisturbed' => Undisturbed
    BY DEF Undisturbed
  <2>2. Pending' \subseteq Downloads
    BY <1>4 DEF Pending, RecordTypes
  <2>3. QED
    BY <1>3, <1>4, <1>5, <2>1, <2>2 DEF DownloadInv, RecordsInv, Working
<1>11. QED
  BY <1>4, <1>6, <1>7, <1>8, <1>9, <1>10 DEF DownloadInv

(* A publication that is reported as a failure, visible or not. *)
LEMMA VisibleFailsInv ==
    ASSUME DownloadInv, pc = "publish", Visible(index), faults' = faults + 1,
           \/ afterCrash' = [afterCrash EXCEPT ![index] = {Survives(index)}]
           \/ afterCrash' = [afterCrash EXCEPT ![index] = afterCrash[index] \union {Survives(index)}],
           temp' = [temp EXCEPT ![index] = Missing] \/ temp' = temp,
           (pc' = "reconcile" /\ execution' = execution) \/ (pc' = "flush" /\ execution' = "fail"),
           UNCHANGED <<size, enableResume, batch, renames, outcome, crashes, foreign, changed, attempt,
                       flushed, index, own, record, cached, upserts, clears>>
    PROVE  DownloadInv'
<1>1. temp[index] = Complete(index) \/ index \in spoiled
  BY DEF DownloadInv, StagedInv
<1>2. /\ index \in Downloads /\ temp \in [Downloads -> Partials \union {Missing}]
      /\ afterCrash \in [Downloads -> SUBSET Names] /\ own \subseteq Downloads /\ index \in Nat
  BY Numbered DEF DownloadInv, TypeInv, Working
<1>3. /\ final' \in [Downloads -> Names] /\ (\A d \in Downloads : d # index => final'[d] = final[d])
      /\ \A d \in Downloads : Staged(d) \/ d = index => Staged(d)'
      /\ Survives(index) \in {"right", "wrong"}
      /\ foreign = 0 => spoiled' = {} /\ final'[index] = "right" /\ Survives(index) = "right"
      /\ temp[index] = Complete(index) \/ index \in spoiled'
  BY <1>1, VisibleFacts
<1>4. CoordinatorInv' /\ RecordTypes'
  BY KeepCoordinator DEF DownloadInv
<1>5. /\ temp' \in [Downloads -> Partials \union {Missing}] /\ temp'[index] \in {Missing, temp[index]}
      /\ afterCrash' \in [Downloads -> SUBSET Names]
      /\ afterCrash'[index] \subseteq afterCrash[index] \union {Survives(index)}
      /\ \A d \in Downloads : d # index => afterCrash'[d] = afterCrash[d]
  <2>1. temp' \in [Downloads -> Partials \union {Missing}] /\ temp'[index] \in {Missing, temp[index]}
    BY <1>2
  <2>2. /\ afterCrash' \in [Downloads -> SUBSET Names]
        /\ afterCrash'[index] \subseteq afterCrash[index] \union {Survives(index)}
        /\ \A d \in Downloads : d # index => afterCrash'[d] = afterCrash[d]
    BY <1>2, <1>3 DEF Names
  <2>3. QED
    BY <2>1, <2>2
<1>6. TypeInv'
  <2>1. pc' \in {"idle", "file", "flush"} \union Working /\ faults' \in Nat /\ execution' \in {"none", "ok", "fail"}
    BY Facts DEF Working
  <2>2. QED
    BY <1>2, <1>3, <1>4, <1>5, <2>1 DEF DownloadInv, TypeInv
<1>7. AdmittedInv'
  BY DEF DownloadInv, AdmittedInv, Total
<1>8. StagedInv'
  <2>1. \A d \in Downloads : d < index => Staged(d)
    BY DEF DownloadInv, StagedInv, Looping, Working
  <2>2. outcome' # "ok"
    BY DEF DownloadInv, StagedInv
  <2>3. pc' = "reconcile" => temp'[index'] \in {Complete(index)', Missing} \/ index' \in spoiled'
    BY <1>3, <1>5 DEF Complete
  <2>4. QED
    BY <1>3, <2>1, <2>2, <2>3 DEF StagedInv
<1>9. DurableInv'
  <2>1. \A d \in own : d < index
    BY DEF DownloadInv, DurableInv, Looping, Working
  <2>2. \A d \in own : d # index
    BY <1>2, <2>1
  <2>3. flushed
    BY DEF DownloadInv, DurableInv
  <2>4. ASSUME foreign' = 0
        PROVE  /\ spoiled' = {} /\ ~ changed'
               /\ \A d \in Downloads : final'[d] # "wrong" /\ "wrong" \notin afterCrash'[d]
               /\ \A d \in own' : afterCrash'[d] = {"right"}
    <3>1. /\ ~ changed /\ (\A d \in Downloads : final[d] # "wrong" /\ "wrong" \notin afterCrash[d])
          /\ \A d \in own : afterCrash[d] = {"right"}
      BY <2>4 DEF DownloadInv, DurableInv
    <3>2. spoiled' = {} /\ ~ changed' /\ final'[index] = "right" /\ "wrong" \notin afterCrash'[index]
      BY <1>2, <1>3, <1>5, <2>4, <3>1
    <3>3. \A d \in Downloads : final'[d] # "wrong" /\ "wrong" \notin afterCrash'[d]
      BY <1>3, <1>5, <3>1, <3>2
    <3>4. \A d \in own' : afterCrash'[d] = {"right"}
      BY <1>2, <1>5, <2>2, <3>1
    <3>5. QED
      BY <3>2, <3>3, <3>4
  <2>5. QED
    BY <2>1, <2>3, <2>4 DEF DurableInv
<1>10. RecordsInv'
  BY Facts DEF RecordsInv, Undisturbed
<1>11. QED
  BY <1>4, <1>6, <1>7, <1>8, <1>9, <1>10 DEF DownloadInv

(* A publication that is refused is reconciled. *)
LEMMA RefusedInv ==
    ASSUME DownloadInv, pc = "publish", pc' = "reconcile",
           (changed /\ faults' = faults) \/ faults' = faults + 1,
           UNCHANGED <<size, enableResume, batch, renames, final, afterCrash, temp, spoiled, record, cached, upserts,
                       clears, index, own, outcome, execution, crashes, foreign, changed, attempt, flushed>>
    PROVE  DownloadInv'
<1>1. CoordinatorInv' /\ RecordTypes'
  BY KeepCoordinator DEF DownloadInv
<1>2. TypeInv'
  <2>1. pc' \in {"idle", "file", "flush"} \union Working /\ faults' \in Nat /\ index \in Downloads
    BY Facts DEF Working
  <2>2. QED
    BY <1>1, <2>1 DEF DownloadInv, TypeInv
<1>3. AdmittedInv'
  BY DEF DownloadInv, AdmittedInv, Total
<1>4. StagedInv'
  BY DEF DownloadInv, StagedInv, Staged, Looping, Working, Complete
<1>5. DurableInv'
  BY DEF DownloadInv, DurableInv, Looping, Working
<1>6. RecordsInv'
  <2>1. ~ Undisturbed'
    BY Facts DEF Undisturbed, DownloadInv, DurableInv
  <2>2. QED
    BY <2>1 DEF RecordsInv
<1>7. QED
  BY <1>1, <1>2, <1>3, <1>4, <1>5, <1>6 DEF DownloadInv

(* Publish. *)
LEMMA PublishInv ==
    ASSUME DownloadInv, Publish
    PROVE  DownloadInv'
<1>1. /\ pc = "publish"
      /\ UNCHANGED <<size, enableResume, batch, renames, outcome, attempt, flushed, crashes, foreign, changed>>
  BY DEF Publish, config, bounds, Advances, Goes, Stops, results
<1>2. temp[index] = Complete(index) \/ index \in spoiled
  BY <1>1 DEF DownloadInv, StagedInv
<1>3. CASE /\ Published(index) /\ ClearRecord(index) /\ own' = own \union {index} /\ index' = index + 1
           /\ pc' = "file" /\ faults' = faults /\ execution' = execution
  BY <1>1, <1>2, <1>3, AdvanceInv
<1>4. CASE /\ faults' = faults + 1 /\ Published(index) /\ pc' = "flush" /\ execution' = "fail"
           /\ UNCHANGED <<record, cached, upserts, clears, index, own>>
  <2>1. /\ Visible(index) /\ temp' = [temp EXCEPT ![index] = Missing]
        /\ afterCrash' = [afterCrash EXCEPT ![index] = {Survives(index)}]
    BY <1>4 DEF Published
  <2>2. QED
    BY <1>1, <1>4, <2>1, VisibleFailsInv
<1>5. CASE /\ (changed /\ faults' = faults) \/ faults' = faults + 1
           /\ pc' = "reconcile" /\ execution' = execution
           /\ UNCHANGED <<final, afterCrash, temp, spoiled, record, cached, upserts, clears, index, own>>
  BY <1>1, <1>5, RefusedInv
<1>6. CASE /\ faults' = faults + 1 /\ Visible(index)
           /\ \/ afterCrash' = [afterCrash EXCEPT ![index] = {Survives(index)}]
              \/ afterCrash' = [afterCrash EXCEPT ![index] = afterCrash[index] \union {Survives(index)}]
           /\ temp' = [temp EXCEPT ![index] = Missing] \/ temp' = temp
           /\ pc' = "reconcile" /\ execution' = execution
           /\ UNCHANGED <<record, cached, upserts, clears, index, own>>
  <2>1. CASE afterCrash' = [afterCrash EXCEPT ![index] = {Survives(index)}]
    BY <1>1, <1>6, <2>1, VisibleFailsInv
  <2>2. CASE afterCrash' = [afterCrash EXCEPT ![index] = afterCrash[index] \union {Survives(index)}]
    BY <1>1, <1>6, <2>2, VisibleFailsInv
  <2>3. QED
    BY <1>6, <2>1, <2>2
<1>7. \/ /\ Published(index) /\ ClearRecord(index) /\ own' = own \union {index} /\ index' = index + 1
         /\ pc' = "file" /\ faults' = faults /\ execution' = execution
      \/ /\ faults' = faults + 1 /\ Published(index) /\ pc' = "flush" /\ execution' = "fail"
         /\ UNCHANGED <<record, cached, upserts, clears, index, own>>
      \/ /\ (changed /\ faults' = faults) \/ faults' = faults + 1
         /\ pc' = "reconcile" /\ execution' = execution
         /\ UNCHANGED <<final, afterCrash, temp, spoiled, record, cached, upserts, clears, index, own>>
      \/ /\ faults' = faults + 1 /\ Visible(index)
         /\ \/ afterCrash' = [afterCrash EXCEPT ![index] = {Survives(index)}]
            \/ afterCrash' = [afterCrash EXCEPT ![index] = afterCrash[index] \union {Survives(index)}]
         /\ temp' = [temp EXCEPT ![index] = Missing] \/ temp' = temp
         /\ pc' = "reconcile" /\ execution' = execution
         /\ UNCHANGED <<record, cached, upserts, clears, index, own>>
  BY DEF Publish, Advances, Goes, Stops, results, coordinator, staging, Fault, NoFault
<1>8. QED
  BY <1>3, <1>4, <1>5, <1>6, <1>7

(* Reconcile: published once more, or the completed download is dropped. *)
LEMMA ReconcileInv ==
    ASSUME DownloadInv, Reconcile
    PROVE  DownloadInv'
<1>1. /\ pc = "reconcile"
      /\ UNCHANGED <<size, enableResume, batch, renames, outcome, attempt, flushed, crashes, foreign, changed>>
      /\ \/ /\ temp[index] # Missing /\ Published(index) /\ ClearRecord(index) /\ own' = own \union {index}
            /\ index' = index + 1 /\ pc' = "file" /\ faults' = faults /\ execution' = execution
         \/ /\ faults' \in {faults, faults + 1} /\ pc' = "flush" /\ execution' = "fail" /\ ClearRecord(index)
            /\ temp' = temp \/ temp' = [temp EXCEPT ![index] = Missing]
            /\ UNCHANGED <<final, afterCrash, spoiled, index, own>>
  BY DEF Reconcile, config, bounds, Advances, Goes, Stops, results, Discards, Fault, NoFault
<1>2. temp[index] \in {Complete(index), Missing} \/ index \in spoiled
  BY <1>1 DEF DownloadInv, StagedInv
<1>3. CASE /\ temp[index] # Missing /\ Published(index) /\ ClearRecord(index) /\ own' = own \union {index}
           /\ index' = index + 1 /\ pc' = "file" /\ faults' = faults /\ execution' = execution
  BY <1>1, <1>2, <1>3, AdvanceInv
<1>4. CASE /\ faults' \in {faults, faults + 1} /\ pc' = "flush" /\ execution' = "fail" /\ ClearRecord(index)
           /\ temp' = temp \/ temp' = [temp EXCEPT ![index] = Missing]
           /\ UNCHANGED <<final, afterCrash, spoiled, index, own>>
  <2>1. index \in Downloads
    BY <1>1, Facts DEF Working
  <2>2. CoordinatorInv' /\ RecordTypes' /\ Pending' = Pending \ {index}
    BY <1>1, <1>4, <2>1, ClearCoordinator DEF DownloadInv
  <2>3. temp' \in [Downloads -> Partials \union {Missing}] /\ faults' \in Nat
    BY <1>4, <2>1, Facts
  <2>4. TypeInv'
    <3>1. pc' \in {"idle", "file", "flush"} \union Working /\ pc' \notin Working
      BY <1>4 DEF Working
    <3>2. QED
      BY <1>1, <1>4, <2>2, <2>3, <3>1 DEF DownloadInv, TypeInv
  <2>5. AdmittedInv'
    BY <1>1 DEF DownloadInv, AdmittedInv, Total
  <2>6. StagedInv'
    BY <1>1, <1>4 DEF DownloadInv, StagedInv, Looping, Working
  <2>7. DurableInv'
    BY <1>1, <1>4 DEF DownloadInv, DurableInv, Looping, Working
  <2>8. RecordsInv'
    <3>1. ~ Undisturbed'
      BY <1>1, <1>4, Facts DEF Undisturbed, DownloadInv, RecordsInv
    <3>2. QED
      BY <3>1 DEF RecordsInv
  <2>9. QED
    BY <2>2, <2>4, <2>5, <2>6, <2>7, <2>8 DEF DownloadInv
<1>5. QED
  BY <1>1, <1>3, <1>4

-----------------------------------------------------------------------------
(* The ends of a run, and its beginning. *)

(* What a step that leaves the staged files and the partial files alone    *)
(* and ends in no run has in common with the others of its kind.           *)
LEMMA IdleInv ==
    ASSUME DownloadInv, pc' = "idle", outcome' \in {"none", "ok", "fail"},
           outcome' = "ok" => \A d \in Downloads : Staged(d),
           execution' \in {"none", "ok", "fail"},
           UNCHANGED <<size, enableResume, batch, renames, final, afterCrash, temp, spoiled, index, attempt, flushed,
                       own, changed, cached, upserts, clears, foreign>>,
           record' \subseteq Downloads, ~ enableResume => record' = {},
           faults' \in {faults, faults + 1}, crashes' \in {crashes, crashes + 1},
           Undisturbed' => record' \subseteq Pending
    PROVE  DownloadInv'
<1>1. TypeInv'
  <2>1. RecordTypes' /\ faults' \in Nat /\ crashes' \in Nat /\ pc' \notin Working
    BY DEF DownloadInv, TypeInv, RecordTypes, Working
  <2>2. QED
    BY <2>1 DEF DownloadInv, TypeInv
<1>2. AdmittedInv' /\ StagedInv'
  BY DEF AdmittedInv, StagedInv, Staged, Looping, Working
<1>3. DurableInv'
  BY DEF DownloadInv, DurableInv, Looping, Working
<1>4. CoordinatorInv'
  BY DEF DownloadInv, CoordinatorInv
<1>5. RecordsInv'
  <2>1. Undisturbed' => Undisturbed
    BY Facts DEF Undisturbed
  <2>2. Pending' = record'
    BY DEF Pending
  <2>3. QED
    BY <2>1, <2>2 DEF DownloadInv, RecordsInv, Working
<1>6. QED
  BY <1>1, <1>2, <1>3, <1>4, <1>5 DEF DownloadInv

(* FlushRecords. *)
LEMMA FlushRecordsInv ==
    ASSUME DownloadInv, FlushRecords
    PROVE  DownloadInv'
<1>1. /\ pc = "flush" /\ pc' = "idle" /\ execution' = execution
      /\ UNCHANGED <<size, enableResume, batch, renames, final, afterCrash, temp, spoiled, index, attempt, flushed,
                     own, changed, cached, upserts, clears, foreign, crashes>>
      /\ \/ record' = (IF batch THEN (record \ clears) \union upserts ELSE record) /\ faults' = faults /\ outcome' = execution
         \/ faults' = faults + 1 /\ outcome' = "fail" /\ record' = record
  BY DEF FlushRecords, Ends, config, staging, progress, bounds, NoFault, Fault
<1>2. outcome' \in {"none", "ok", "fail"} /\ execution' \in {"none", "ok", "fail"}
  BY <1>1, Facts
<1>3. outcome' = "ok" => \A d \in Downloads : Staged(d)
  BY <1>1 DEF DownloadInv, StagedInv
<1>4. record' \subseteq Downloads /\ (~ enableResume => record' = {})
  BY <1>1 DEF DownloadInv, TypeInv, RecordTypes, CoordinatorInv
<1>5. Undisturbed' => record' \subseteq Pending
  <2>1. Undisturbed' => faults' # faults + 1
    BY Facts DEF Undisturbed
  <2>2. QED
    BY <1>1, <2>1 DEF Pending
<1>6. QED
  BY <1>1, <1>2, <1>3, <1>4, <1>5, IdleInv

(* The process is killed. *)
LEMMA CrashInv ==
    ASSUME DownloadInv, Crash
    PROVE  DownloadInv'
<1>1. /\ pc' = "idle" /\ outcome' = "none" /\ crashes' = crashes + 1
      /\ UNCHANGED <<size, enableResume, batch, renames, final, afterCrash, temp, spoiled, index, attempt, flushed,
                     own, changed, cached, upserts, clears, record, foreign, faults, execution>>
  BY DEF Crash, Stopped, Ends, config, staging, coordinator, progress
<1>2. record' \subseteq Downloads /\ (~ enableResume => record' = {}) /\ execution' \in {"none", "ok", "fail"}
  BY <1>1, Facts DEF DownloadInv, TypeInv, RecordTypes, CoordinatorInv
<1>3. ~ Undisturbed'
  BY <1>1, Facts DEF Undisturbed
<1>4. /\ outcome' \in {"none", "ok", "fail"} /\ (outcome' = "ok" => \A d \in Downloads : Staged(d))
      /\ faults' \in {faults, faults + 1} /\ crashes' \in {crashes, crashes + 1}
      /\ (Undisturbed' => record' \subseteq Pending)
  BY <1>1, <1>3
<1>5. QED
  BY <1>1, <1>2, <1>4, IdleInv

(* A run begins, or is refused at once. *)
LEMMA StartInv ==
    ASSUME DownloadInv, Start
    PROVE  DownloadInv'
<1>1. /\ pc = "idle" /\ index' = 1 /\ own' = {} /\ upserts' = {} /\ clears' = {}
      /\ cached' = (IF batch /\ enableResume THEN record ELSE {}) /\ faults' \in {faults, faults + 1}
      /\ UNCHANGED <<size, enableResume, batch, renames, final, afterCrash, temp, spoiled, record, attempt, flushed,
                     changed, crashes, foreign>>
      /\ \/ Total # None /\ pc' = "file" /\ execution' = "none" /\ outcome' = "none"
         \/ pc' = "idle" /\ outcome' = "fail" /\ execution' = execution
  BY DEF Start, Ends, config, staging, NoFault, Fault
<1>2. TypeInv'
  <2>1. RecordTypes'
    BY <1>1 DEF DownloadInv, TypeInv, RecordTypes
  <2>2. index' \in 1 .. Cardinality(Downloads) + 1 /\ own' \subseteq Downloads /\ faults' \in Nat
    BY <1>1, Numbered, Facts
  <2>3. pc' \in {"idle", "file", "flush"} \union Working /\ pc' \notin Working
    BY <1>1 DEF Working
  <2>4. outcome' \in {"none", "ok", "fail"} /\ execution' \in {"none", "ok", "fail"}
    BY <1>1, Facts
  <2>5. QED
    BY <1>1, <2>1, <2>2, <2>3, <2>4 DEF DownloadInv, TypeInv
<1>3. AdmittedInv'
  BY <1>1 DEF AdmittedInv, Total
<1>4. StagedInv'
  <2>1. \A d \in Downloads : ~ (d < index')
    BY <1>1, Numbered
  <2>2. QED
    BY <1>1, <2>1 DEF StagedInv
<1>5. DurableInv'
  BY <1>1 DEF DownloadInv, DurableInv
<1>6. CoordinatorInv'
  BY <1>1 DEF DownloadInv, CoordinatorInv
<1>7. RecordsInv'
  <2>1. Undisturbed' => Undisturbed
    BY <1>1, UndisturbedBefore
  <2>2. Pending = record /\ Pending' = record
    BY <1>1 DEF Pending
  <2>3. QED
    BY <1>1, <2>1, <2>2 DEF DownloadInv, RecordsInv, Working
<1>8. QED
  BY <1>2, <1>3, <1>4, <1>5, <1>6, <1>7 DEF DownloadInv

-----------------------------------------------------------------------------
(* The environment. *)

(* What the invariant reads. *)
seen == <<size, enableResume, batch, renames, final, afterCrash, temp, spoiled, record, cached, upserts, clears, index,
          attempt, flushed, own, changed, execution, outcome, pc, faults, crashes, foreign>>

(* Steps that change nothing of it: a cancellation, and stuttering. *)
LEMMA SeenInv ==
    ASSUME DownloadInv, UNCHANGED seen
    PROVE  DownloadInv'
<1>1. UNCHANGED <<size, enableResume, batch, renames, final, afterCrash, temp, spoiled, record, cached, upserts, clears,
                  index, attempt, flushed, own, changed, execution, outcome, pc, faults, crashes, foreign>>
  BY DEF seen
<1>2. TypeInv'
  <2>1. RecordTypes'
    BY <1>1 DEF DownloadInv, TypeInv, RecordTypes
  <2>2. QED
    BY <1>1, <2>1 DEF DownloadInv, TypeInv
<1>3. AdmittedInv'
  BY <1>1 DEF DownloadInv, AdmittedInv, Total
<1>4. StagedInv'
  BY <1>1 DEF DownloadInv, StagedInv, Staged, Complete
<1>5. DurableInv'
  BY <1>1 DEF DownloadInv, DurableInv
<1>6. CoordinatorInv'
  BY <1>1 DEF DownloadInv, CoordinatorInv
<1>7. RecordsInv'
  BY <1>1 DEF DownloadInv, RecordsInv, Undisturbed, Pending
<1>8. QED
  BY <1>2, <1>3, <1>4, <1>5, <1>6, <1>7 DEF DownloadInv

(* The power fails: every staged name holds what may survive. *)
LEMMA PowerFailureInv ==
    ASSUME DownloadInv, PowerFailure
    PROVE  DownloadInv'
<1>1. /\ pc' = "idle" /\ outcome' = "none" /\ crashes' = crashes + 1
      /\ UNCHANGED <<size, enableResume, batch, renames, spoiled, index, attempt, flushed, own, changed, cached,
                     upserts, clears, record, foreign, faults, execution>>
      /\ final' \in [Downloads -> Names] /\ (\A d \in Downloads : final'[d] \in afterCrash[d])
      /\ afterCrash' = [d \in Downloads |-> {final'[d]}]
      /\ temp' = temp \/ temp' = [d \in Downloads |-> IF temp[d] \in {Missing, Empty} THEN temp[d]
                                                        ELSE [temp[d] EXCEPT !.pure = FALSE]]
  BY DEF PowerFailure, Stopped, Ends, config, coordinator, progress, Names
<1>2. temp' \in [Downloads -> Partials \union {Missing}]
  <2>1. CASE temp' = temp
    BY <2>1, Facts
  <2>2. CASE temp' = [d \in Downloads |-> IF temp[d] \in {Missing, Empty} THEN temp[d]
                                          ELSE [temp[d] EXCEPT !.pure = FALSE]]
    <3>1. ASSUME NEW d \in Downloads
          PROVE  (IF temp[d] \in {Missing, Empty} THEN temp[d] ELSE [temp[d] EXCEPT !.pure = FALSE])
                    \in Partials \union {Missing}
      <4>1. temp[d] \in Partials \union {Missing}
        BY Facts
      <4>2. CASE temp[d] \in {Missing, Empty}
        BY <4>1, <4>2
      <4>3. CASE temp[d] \notin {Missing, Empty}
        BY <4>1, <4>3, PartialFiles
      <4>4. QED
        BY <4>2, <4>3
    <3>2. QED
      BY <2>2, <3>1
  <2>3. QED
    BY <1>1, <2>1, <2>2
<1>3. afterCrash' \in [Downloads -> SUBSET Names] /\ \A d \in Downloads : afterCrash'[d] = {final'[d]}
  BY <1>1
<1>4. TypeInv'
  <2>1. RecordTypes'
    BY <1>1 DEF DownloadInv, TypeInv, RecordTypes
  <2>2. crashes' \in Nat /\ pc' \notin Working /\ pc' \in {"idle", "file", "flush"} \union Working
    BY <1>1, Facts DEF Working
  <2>3. QED
    BY <1>1, <1>2, <1>3, <2>1, <2>2 DEF DownloadInv, TypeInv
<1>5. AdmittedInv' /\ StagedInv'
  BY <1>1 DEF AdmittedInv, StagedInv, Looping, Working
<1>6. DurableInv'
  <2>1. ASSUME foreign' = 0
        PROVE  /\ spoiled' = {} /\ ~ changed'
               /\ \A d \in Downloads : final'[d] # "wrong" /\ "wrong" \notin afterCrash'[d]
               /\ \A d \in own' : afterCrash'[d] = {"right"}
    <3>1. /\ spoiled = {} /\ ~ changed /\ (\A d \in Downloads : "wrong" \notin afterCrash[d])
          /\ own \subseteq Downloads /\ \A d \in own : afterCrash[d] = {"right"}
      BY <1>1, <2>1 DEF DownloadInv, DurableInv, TypeInv
    <3>2. \A d \in Downloads : final'[d] # "wrong" /\ "wrong" \notin afterCrash'[d]
      BY <1>1, <1>3, <3>1
    <3>3. \A d \in own : final'[d] = "right"
      BY <1>1, <3>1
    <3>4. QED
      BY <1>1, <1>3, <3>1, <3>2, <3>3
  <2>2. QED
    BY <1>1, <2>1 DEF DurableInv, Looping, Working
<1>7. CoordinatorInv'
  BY <1>1 DEF DownloadInv, CoordinatorInv
<1>8. RecordsInv'
  BY <1>1, Facts DEF RecordsInv, Undisturbed
<1>9. QED
  BY <1>4, <1>5, <1>6, <1>7, <1>8 DEF DownloadInv

(* Another program changes a staged file. *)
LEMMA ForeignFinalInv ==
    ASSUME DownloadInv, ForeignFinal
    PROVE  DownloadInv'
<1>1. PICK d \in Downloads, content \in {"right", "wrong"} :
         /\ final' = [final EXCEPT ![d] = content]
         /\ afterCrash' = [afterCrash EXCEPT ![d] = afterCrash[d] \union {content}]
         /\ spoiled' = IF content = "wrong" THEN spoiled \union {d}
                       ELSE IF InHand(d) THEN spoiled ELSE spoiled \ {d}
         /\ changed' = (changed \/ d = index)
  BY DEF ForeignFinal
<1>2. /\ foreign' = foreign + 1
      /\ UNCHANGED <<size, enableResume, batch, renames, temp, record, cached, upserts, clears, index, attempt, flushed,
                     own, execution, outcome, pc, faults, crashes>>
  BY DEF ForeignFinal, config, coordinator, progress, results
<1>3. foreign' \in Nat /\ foreign' # 0
  BY <1>2, Facts
<1>4. /\ final' \in [Downloads -> Names] /\ final'[d] = content /\ (\A e \in Downloads : e # d => final'[e] = final[e])
      /\ afterCrash' \in [Downloads -> SUBSET Names]
  <2>1. final \in [Downloads -> Names] /\ afterCrash \in [Downloads -> SUBSET Names] /\ content \in Names
    BY DEF DownloadInv, TypeInv, Names
  <2>2. QED
    BY <1>1, <2>1
<1>5. TypeInv'
  <2>1. RecordTypes'
    BY <1>2 DEF DownloadInv, TypeInv, RecordTypes
  <2>2. changed' \in BOOLEAN
    BY <1>1
  <2>3. QED
    BY <1>2, <1>3, <1>4, <2>1, <2>2 DEF DownloadInv, TypeInv
<1>6. AdmittedInv'
  BY <1>2 DEF DownloadInv, AdmittedInv, Total
<1>7. StagedInv'
  <2>1. \A e \in Downloads : Staged(e) => Staged(e)'
    BY <1>1, <1>4 DEF Staged
  <2>2. pc \in {"publish", "reconcile"} /\ index \in spoiled => index' \in spoiled'
    BY <1>1, <1>2 DEF InHand
  <2>3. temp'[index'] = temp[index] /\ Complete(index)' = Complete(index)
    BY <1>2 DEF Complete
  <2>4. QED
    BY <1>2, <2>1, <2>2, <2>3 DEF DownloadInv, StagedInv
<1>8. DurableInv'
  BY <1>2, <1>3 DEF DownloadInv, DurableInv
<1>9. CoordinatorInv'
  BY <1>2 DEF DownloadInv, CoordinatorInv
<1>10. RecordsInv'
  BY <1>3 DEF RecordsInv, Undisturbed
<1>11. QED
  BY <1>5, <1>6, <1>7, <1>8, <1>9, <1>10 DEF DownloadInv

(* Another program changes a partial file. *)
LEMMA ForeignPartialInv ==
    ASSUME DownloadInv, ForeignPartial
    PROVE  DownloadInv'
<1>1. PICK d \in Downloads, t \in Partials :
         /\ temp' = [temp EXCEPT ![d] = t]
         /\ spoiled' = IF InHand(d) THEN spoiled \union {d} ELSE spoiled
  BY DEF ForeignPartial
<1>2. /\ foreign' = foreign + 1
      /\ UNCHANGED <<size, enableResume, batch, renames, final, afterCrash, record, cached, upserts, clears, index,
                     attempt, flushed, own, changed, execution, outcome, pc, faults, crashes>>
  BY DEF ForeignPartial, config, coordinator, progress, results
<1>3. foreign' \in Nat /\ foreign' # 0
  BY <1>2, Facts
<1>4. temp' \in [Downloads -> Partials \union {Missing}] /\ (\A e \in Downloads : e # d => temp'[e] = temp[e])
  BY <1>1, Facts
<1>5. TypeInv'
  <2>1. RecordTypes'
    BY <1>2 DEF DownloadInv, TypeInv, RecordTypes
  <2>2. QED
    BY <1>2, <1>3, <1>4, <2>1 DEF DownloadInv, TypeInv
<1>6. AdmittedInv'
  BY <1>2 DEF DownloadInv, AdmittedInv, Total
<1>7. StagedInv'
  <2>1. \A e \in Downloads : Staged(e) => Staged(e)'
    BY <1>1, <1>2 DEF Staged
  <2>2. pc \in {"publish", "reconcile"} => index \in Downloads
    BY Facts DEF Working
  <2>3. pc \in {"publish", "reconcile"} => temp'[index] = temp[index] \/ index \in spoiled'
    <3>1. CASE d = index
      BY <1>1, <3>1 DEF InHand
    <3>2. CASE d # index
      BY <1>4, <2>2, <3>2
    <3>3. QED
      BY <3>1, <3>2
  <2>4. index' = index /\ Complete(index)' = Complete(index) /\ spoiled \subseteq spoiled' /\ pc' = pc
    BY <1>1, <1>2 DEF Complete
  <2>5. /\ pc = "publish" => temp'[index] = Complete(index) \/ index \in spoiled'
        /\ pc = "reconcile" => temp'[index] \in {Complete(index), Missing} \/ index \in spoiled'
    BY <2>3, <2>4 DEF DownloadInv, StagedInv
  <2>6. QED
    BY <1>2, <2>1, <2>4, <2>5 DEF DownloadInv, StagedInv
<1>8. DurableInv'
  BY <1>2, <1>3 DEF DownloadInv, DurableInv
<1>9. CoordinatorInv'
  BY <1>2 DEF DownloadInv, CoordinatorInv
<1>10. RecordsInv'
  BY <1>3 DEF RecordsInv, Undisturbed
<1>11. QED
  BY <1>5, <1>6, <1>7, <1>8, <1>9, <1>10 DEF DownloadInv

-----------------------------------------------------------------------------
(* The theorems. *)

(* The initial states. *)
LEMMA InitInv ==
    ASSUME Init
    PROVE  DownloadInv
<1>1. /\ size \in [Downloads -> Sizes] /\ enableResume \in BOOLEAN /\ batch \in BOOLEAN /\ renames \in BOOLEAN
      /\ final = [d \in Downloads |-> Missing] /\ afterCrash = [d \in Downloads |-> {Missing}]
      /\ temp = [d \in Downloads |-> Missing] /\ record = {} /\ cached = {} /\ upserts = {} /\ clears = {}
      /\ pc = "idle" /\ index = 1 /\ attempt = 0 /\ flushed = FALSE /\ changed = FALSE /\ spoiled = {} /\ own = {}
      /\ execution = "none" /\ outcome = "none" /\ faults = 0 /\ crashes = 0 /\ foreign = 0
  BY DEF Init
<1>2. TypeInv
  <2>1. final \in [Downloads -> Names] /\ afterCrash \in [Downloads -> SUBSET Names]
        /\ temp \in [Downloads -> Partials \union {Missing}]
    BY <1>1 DEF Names
  <2>2. index \in 1 .. Cardinality(Downloads) + 1 /\ attempt \in 0 .. MaxRetries
    BY <1>1, Numbered
  <2>3. flushed \in BOOLEAN /\ changed \in BOOLEAN
    BY <1>1
  <2>4. RecordTypes /\ own \subseteq Downloads
    BY <1>1 DEF RecordTypes
  <2>5. pc \in {"idle", "file", "flush"} \union Working /\ pc \notin Working
    BY <1>1 DEF Working
  <2>6. QED
    BY <1>1, <2>1, <2>2, <2>3, <2>4, <2>5 DEF TypeInv
<1>3. AdmittedInv /\ StagedInv
  BY <1>1 DEF AdmittedInv, StagedInv, Looping, Working
<1>4. DurableInv
  <2>1. \A d \in Downloads : final[d] # "wrong" /\ "wrong" \notin afterCrash[d]
    <3>1. Missing # "wrong"
      BY DownloadAssumption
    <3>2. QED
      BY <1>1, <3>1
  <2>2. QED
    BY <1>1, <2>1 DEF DurableInv
<1>5. CoordinatorInv /\ RecordsInv
  BY <1>1 DEF CoordinatorInv, RecordsInv, Pending, Working
<1>6. QED
  BY <1>2, <1>3, <1>4, <1>5 DEF DownloadInv

(* Every step keeps the invariant. *)
LEMMA NextInv ==
    ASSUME DownloadInv, [Next]_vars
    PROVE  DownloadInv'
<1>1. CASE Executor
  BY <1>1, NextFileInv, AllStagedInv, AttemptInv, CompletedInv, InterruptedInv, OversizedInv, FlushInv, VerifyInv,
     PublishInv, ReconcileInv, FlushRecordsInv DEF Executor
<1>2. CASE Cancel
  <2>1. UNCHANGED seen
    BY <1>2 DEF Cancel, seen, config, staging, coordinator, progress, results, bounds
  <2>2. QED
    BY <2>1, SeenInv
<1>3. CASE UNCHANGED vars
  <2>1. UNCHANGED seen
    BY <1>3 DEF vars, seen, config, staging, coordinator, progress, results, bounds
  <2>2. QED
    BY <2>1, SeenInv
<1>4. QED
  BY <1>1, <1>2, <1>3, StartInv, CrashInv, PowerFailureInv, ForeignFinalInv, ForeignPartialInv DEF Next

(* The invariant of executeDownloads over any number of runs. *)
THEOREM DownloadInvariance == Spec => []DownloadInv
<1>1. Init => DownloadInv
  BY InitInv
<1>2. DownloadInv /\ [Next]_vars => DownloadInv'
  BY NextInv
<1>3. QED
  BY <1>1, <1>2, PTL DEF Spec

(* What executeDownloads hands over is within the limits, of the signed    *)
(* content and durable, whatever partial files, servers, crashes and       *)
(* failing operations it met.                                              *)
THEOREM StagingIsSound == Spec => []StagingSound
<1>1. DownloadInv => StagingSound
  <2>1. SUFFICES ASSUME DownloadInv PROVE StagingSound
    OBVIOUS
  <2>2. TypeOK
    <3>1. {record, cached, upserts, clears, own} \subseteq SUBSET Downloads
      BY <2>1 DEF DownloadInv, TypeInv, RecordTypes
    <3>2. QED
      BY <2>1, <3>1 DEF DownloadInv, TypeInv, TypeOK, Names
  <2>3. AdmittedWithinLimits
    BY <2>1, AdmittedIsBounded DEF DownloadInv
  <2>4. StagedMatches
    BY <2>1 DEF DownloadInv, StagedInv, Staged, StagedMatches
  <2>5. PublishedIsDurable
    BY <2>1, Facts DEF DownloadInv, DurableInv, PublishedIsDurable
  <2>6. StagedSurvives
    BY <2>1 DEF DownloadInv, DurableInv, StagedSurvives
  <2>7. QED
    BY <2>2, <2>3, <2>4, <2>5, <2>6 DEF StagingSound
<1>2. QED
  BY <1>1, DownloadInvariance, PTL

(* DownloadResumeCoordinator: what load() answers is what the store will   *)
(* hold, and no record outlives the partial file it describes.             *)
THEOREM RecordsAreCoherent == Spec => []RecordsCoherent
<1>1. DownloadInv => RecordsCoherent
  <2>1. SUFFICES ASSUME DownloadInv PROVE RecordsCoherent
    OBVIOUS
  <2>2. RecordsMatchPartials
    BY <2>1 DEF DownloadInv, RecordsInv, Undisturbed, Pending, RecordsMatchPartials
  <2>3. CoordinatorCoherent
    BY <2>1 DEF DownloadInv, CoordinatorInv, HasRecord, CoordinatorCoherent
  <2>4. QED
    BY <2>2, <2>3 DEF RecordsCoherent
<1>2. QED
  BY <1>1, DownloadInvariance, PTL

=============================================================================
