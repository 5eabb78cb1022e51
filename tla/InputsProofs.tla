---------------------------- MODULE InputsProofs ----------------------------
(***************************************************************************)
(* Proofs about what reaches the updater from outside: for each module of  *)
(* Inputs, its inductive invariant, that the steps of that module keep it  *)
(* while it is the subject, and the theorem that follows.  The sections:   *)
(* the calendar, the records of downloads, induction over numbers, the     *)
(* choice of a target and the fetching of a manifest, the order of         *)
(* versions, sorting, and the paths of a manifest.                         *)
(***************************************************************************)
EXTENDS Inputs, SequenceTheorems, FiniteSetTheorems, NaturalsInduction, WellFoundedInduction, TLAPS

-----------------------------------------------------------------------------
(* The calendar: util/Rfc3339.cpp, for every year from 1970 on. *)

Years == {y \in Nat : y >= 1970}
Months == 1 .. 12
Stamps == {s \in [year: Years, month: Months, day: Nat, hour: {0, 23}] :
             s.day \in 1 .. Calendar!daysInMonth(s.year, s.month)}

(* The day after one that is not the last of its month. *)
LEMMA NextDayOfMonth ==
    ASSUME NEW y \in Years, NEW m \in Months, NEW d \in Nat
    PROVE  Calendar!daysFromCivil(y, m, d + 1) = Calendar!daysFromCivil(y, m, d) + 1
BY DEF Years, Months, Calendar!daysFromCivil

(* The first of March follows the 28th or, in a leap year, the 29th of     *)
(* February, also at the end of a century and of an era of 400 years.      *)
LEMMA MarchFirst ==
    ASSUME NEW y \in Years
    PROVE  Calendar!daysFromCivil(y, 3, 1) =
             Calendar!daysFromCivil(y, 2, Calendar!daysInMonth(y, 2)) + 1
BY DEF Years, Calendar!daysFromCivil, Calendar!daysInMonth, Calendar!isLeapYear

(* The first of the next month follows the last of this one. *)
LEMMA NextMonth ==
    ASSUME NEW y \in Years, NEW m \in Months, m # 12
    PROVE  Calendar!daysFromCivil(y, m + 1, 1) =
             Calendar!daysFromCivil(y, m, Calendar!daysInMonth(y, m)) + 1
<1>1. CASE m = 2
  BY <1>1, MarchFirst
<1>2. CASE m \in {1, 3, 4, 5, 6, 7, 8, 9, 10, 11}
  BY <1>2 DEF Years, Calendar!daysFromCivil, Calendar!daysInMonth
<1> QED
  BY <1>1, <1>2 DEF Months

(* The first of January follows the last of December. *)
LEMMA NextYear ==
    ASSUME NEW y \in Years
    PROVE  Calendar!daysFromCivil(y + 1, 1, 1) = Calendar!daysFromCivil(y, 12, 31) + 1
BY DEF Years, Calendar!daysFromCivil

(* A date is a whole number of days from the epoch. *)
LEMMA DaysType ==
    ASSUME NEW y \in Years, NEW m \in Months, NEW d \in Nat
    PROVE  Calendar!daysFromCivil(y, m, d) \in Int
BY DEF Years, Months, Calendar!daysFromCivil

(* A month has 28 to 31 days, and December 31. *)
LEMMA MonthLength ==
    ASSUME NEW y \in Years, NEW m \in Months
    PROVE  Calendar!daysInMonth(y, m) \in 28 .. 31 /\ Calendar!daysInMonth(y, 12) = 31
BY DEF Years, Months, Calendar!daysInMonth, Calendar!isLeapYear

-----------------------------------------------------------------------------
(* The clock and its deadlines. *)

Instants == [stamp: Stamps, hours: Int]

ClockInv ==
    /\ stamp \in Stamps /\ hours \in Int /\ history \in Seq(Instants)
    /\ Calendar!Instant(stamp) = hours
    /\ \A i \in 1 .. Len(history) : Calendar!Instant(history[i].stamp) = history[i].hours
    /\ stamp.hour = 0 /\ history # <<>> =>
          /\ history[1].hours = hours - 1 /\ history[1].stamp.hour = 23
          /\ history[1].stamp.year <= stamp.year

(* An instant that is remembered becomes the first of the history, and the *)
(* others are earlier ones.                                                *)
LEMMA RememberedInstant ==
    ASSUME ClockInv, Calendar!Remember
    PROVE  /\ history' \in Seq(Instants) /\ history' # <<>>
           /\ history'[1] = [stamp |-> stamp, hours |-> hours]
           /\ \A i \in 2 .. Len(history') : i - 1 \in 1 .. Len(history) /\ history'[i] = history[i - 1]
<1> DEFINE x == [stamp |-> stamp, hours |-> hours]
           n == IF Len(history) < Remembered THEN Len(history) + 1 ELSE Remembered
           h == <<x>> \o history
<1>1. /\ x \in Instants /\ history \in Seq(Instants) /\ Len(history) \in Nat
      /\ Remembered \in Nat \ {0}
  BY InputsAssumption DEF ClockInv, Instants, Calendar!ClockAssumption
<1>2. /\ h \in Seq(Instants) /\ Len(h) = Len(history) + 1 /\ h[1] = x
      /\ \A i \in 2 .. Len(h) : h[i] = history[i - 1]
  BY <1>1
<1>3. n \in 1 .. Len(h)
  BY <1>1, <1>2
<1>4. history' = SubSeq(h, 1, n)
  BY DEF Calendar!Remember
<1> HIDE DEF h, n, x
<1>5. /\ history' \in Seq(Instants) /\ Len(history') = n
      /\ \A i \in 1 .. n : history'[i] = h[i]
  BY <1>2, <1>3, <1>4
<1> QED
  BY <1>1, <1>2, <1>3, <1>5 DEF x

(* Both steps of the clock leave the instants of the past as they were, so *)
(* the present one is what remains to be shown.                            *)
LEMMA PastKept ==
    ASSUME ClockInv, Calendar!Remember,
           stamp' \in Stamps, hours' \in Int, (Calendar!Instant(stamp) = hours)',
           stamp'.hour = 0 => hours' = hours + 1 /\ stamp.hour = 23 /\ stamp.year <= stamp'.year
    PROVE  ClockInv'
<1>1. \A i \in 1 .. Len(history') : Calendar!Instant(history'[i].stamp) = history'[i].hours
  <2> TAKE i \in 1 .. Len(history')
  <2>1. CASE i = 1
    BY <2>1, RememberedInstant DEF ClockInv
  <2>2. CASE i \in 2 .. Len(history')
    BY <2>2, RememberedInstant DEF ClockInv
  <2> QED
    BY <2>1, <2>2, RememberedInstant
<1>2. stamp'.hour = 0 => /\ history'[1].hours = hours' - 1 /\ history'[1].stamp.hour = 23
                         /\ history'[1].stamp.year <= stamp'.year
  BY RememberedInstant DEF ClockInv
<1> QED
  BY <1>1, <1>2, RememberedInstant DEF ClockInv, Calendar!Instant

(* The last hour of a day. *)
LEMMA EveningKeeps ==
    ASSUME ClockInv, Calendar!Evening
    PROVE  ClockInv'
<1>1. /\ stamp' \in Stamps /\ stamp'.hour = 23 /\ hours' = hours + 23
      /\ stamp'.year = stamp.year /\ stamp'.month = stamp.month /\ stamp'.day = stamp.day
      /\ stamp.hour = 0
  BY DEF ClockInv, Stamps, Calendar!Evening, Calendar!HoursPerDay
<1>2. Calendar!daysFromCivil(stamp.year, stamp.month, stamp.day) \in Int
  BY DaysType DEF ClockInv, Stamps
<1>3. (Calendar!Instant(stamp) = hours)'
  BY <1>1, <1>2 DEF ClockInv, Calendar!Instant, Calendar!HoursPerDay
<1> QED
  BY <1>1, <1>3, PastKept DEF ClockInv, Calendar!Evening

(* The first hour of the next day, which the calendar makes the next one   *)
(* of the count.                                                           *)
LEMMA MidnightKeeps ==
    ASSUME ClockInv, Calendar!Midnight
    PROVE  ClockInv'
<1> DEFINE y == stamp.year
           m == stamp.month
           d == stamp.day
           Days(s) == Calendar!daysFromCivil(s.year, s.month, s.day)
<1>1. /\ y \in Years /\ m \in Months /\ d \in 1 .. Calendar!daysInMonth(y, m)
      /\ stamp.hour = 23 /\ hours \in Int /\ hours' = hours + 1
  BY DEF ClockInv, Stamps, Calendar!Midnight
<1>2. stamp' \in Stamps /\ stamp'.hour = 0 /\ stamp'.year >= y /\ Days(stamp') = Days(stamp) + 1
  <2>1. CASE d # Calendar!daysInMonth(y, m)
    <3>1. stamp' = [year |-> y, month |-> m, day |-> d + 1, hour |-> 0]
      BY <2>1 DEF Calendar!Midnight
    <3> QED
      BY <1>1, <2>1, <3>1, NextDayOfMonth, MonthLength DEF Stamps, Years
  <2>2. CASE d = Calendar!daysInMonth(y, m) /\ m # 12
    <3>1. stamp' = [year |-> y, month |-> m + 1, day |-> 1, hour |-> 0]
      BY <2>2 DEF Calendar!Midnight
    <3>2. m + 1 \in Months
      BY <1>1, <2>2 DEF Months
    <3> QED
      BY <1>1, <2>2, <3>1, <3>2, NextMonth, MonthLength DEF Stamps, Years
  <2>3. CASE d = Calendar!daysInMonth(y, m) /\ m = 12
    <3>1. stamp' = [year |-> y + 1, month |-> 1, day |-> 1, hour |-> 0]
      BY <2>3 DEF Calendar!Midnight
    <3>2. y + 1 \in Years /\ 1 \in Months
      BY <1>1 DEF Years, Months
    <3> QED
      BY <1>1, <2>3, <3>1, <3>2, NextYear, MonthLength DEF Stamps, Years
  <2> QED
    BY <2>1, <2>2, <2>3
<1>3. Days(stamp) \in Int
  BY <1>1, DaysType, MonthLength
<1>4. (Calendar!Instant(stamp) = hours)'
  <2>1. Days(stamp) * 24 + 23 = hours
    BY <1>1 DEF ClockInv, Calendar!Instant, Calendar!HoursPerDay
  <2>2. Days(stamp') * 24 + 0 = hours'
    BY <1>1, <1>2, <1>3, <2>1
  <2> QED
    BY <1>2, <2>2 DEF Calendar!Instant, Calendar!HoursPerDay
<1> QED
  BY <1>1, <1>2, <1>4, PastKept DEF Calendar!Midnight, Years

(* The stamps of the walk are timestamps, up to the last year. *)
LEMMA StampIsValid ==
    ASSUME NEW s \in Stamps
    PROVE  /\ Calendar!ValidStamp(s) <=> s.year <= MaxYear
           /\ Calendar!Instant(s) \in Int
           /\ \A h \in 0 .. 23 :
                 LET t == [s EXCEPT !.hour = h]
                 IN /\ Calendar!ValidStamp(t) <=> s.year <= MaxYear
                    /\ Calendar!Instant(t) = Calendar!Instant(s) - s.hour + h
<1>1. /\ s.year \in Years /\ s.month \in Months /\ s.hour \in {0, 23} /\ MaxYear \in Nat
      /\ s.day \in 1 .. Calendar!daysInMonth(s.year, s.month) /\ s.day \in Nat
  BY InputsAssumption DEF Stamps, Calendar!ClockAssumption
<1>2. Calendar!daysFromCivil(s.year, s.month, s.day) \in Int
  BY <1>1, DaysType
<1>3. Calendar!Instant(s) \in Int
  BY <1>1, <1>2 DEF Calendar!Instant, Calendar!HoursPerDay
<1>4. Calendar!ValidStamp(s) <=> s.year <= MaxYear
  BY <1>1 DEF Calendar!ValidStamp, Calendar!HoursPerDay, Years, Months
<1>5. ASSUME NEW h \in 0 .. 23
      PROVE  LET t == [s EXCEPT !.hour = h]
             IN /\ Calendar!ValidStamp(t) <=> s.year <= MaxYear
                /\ Calendar!Instant(t) = Calendar!Instant(s) - s.hour + h
  <2> DEFINE t == [s EXCEPT !.hour = h]
  <2>1. t.year = s.year /\ t.month = s.month /\ t.day = s.day /\ t.hour = h
    BY DEF Stamps
  <2> HIDE DEF t
  <2>2. Calendar!ValidStamp(t) <=> s.year <= MaxYear
    BY <1>1, <2>1 DEF Calendar!ValidStamp, Calendar!HoursPerDay, Years, Months
  <2>3. Calendar!Instant(t) = Calendar!Instant(s) - s.hour + h
    BY <1>1, <1>2, <2>1 DEF Calendar!Instant, Calendar!HoursPerDay
  <2> QED
    BY <2>2, <2>3 DEF t
<1> QED
  BY <1>3, <1>4, <1>5

(* What the updater reads from the clock. *)
LEMMA ClockPromises ==
    ASSUME ClockInv
    PROVE  Calendar!InstantIsCount /\ Calendar!OffsetNormalized /\ Calendar!ExpiresOnTime
<1>1. /\ stamp \in Stamps /\ stamp.year \in Nat /\ stamp.hour \in {0, 23}
      /\ MaxYear \in Nat /\ MaxInstant \in Nat /\ None \notin Int
  BY InputsAssumption DEF ClockInv, Stamps, Years, Calendar!ClockAssumption
<1>2. Calendar!InstantIsCount /\ hours \in Int
  BY <1>1, StampIsValid DEF ClockInv, Calendar!InstantIsCount, Calendar!currentUtcInstant
<1>3. /\ DOMAIN history = 1 .. Len(history) /\ Len(history) \in Nat
      /\ \A i \in 1 .. Len(history) : history[i].stamp \in Stamps /\ history[i].hours \in Int
  <2>1. DOMAIN history = 1 .. Len(history) /\ Len(history) \in Nat
    BY DEF ClockInv
  <2>2. \A i \in 1 .. Len(history) : history[i] \in Instants
    BY DEF ClockInv
  <2>3. \A x \in Instants : x.stamp \in Stamps /\ x.hours \in Int
    BY DEF Instants
  <2> QED
    BY <2>1, <2>2, <2>3
<1>4. Calendar!OffsetNormalized
  <2> DEFINE before == history[1].stamp
  <2> SUFFICES ASSUME stamp.hour = 0, history # <<>>, stamp.year <= MaxYear,
                      NEW offset \in 1 .. 24 - 1
               PROVE  /\ Calendar!parseRfc3339(stamp, offset) =
                            Calendar!parseRfc3339([before EXCEPT !.hour = 24 - offset], 0)
                      /\ Calendar!parseRfc3339(before, 0 - offset) =
                            Calendar!parseRfc3339([stamp EXCEPT !.hour = offset - 1], 0)
    BY DEF Calendar!OffsetNormalized, Calendar!HoursPerDay
  <2>0. offset \in 1 .. 23
    OBVIOUS
  <2>1. 1 \in 1 .. Len(history)
    BY <1>3 DEF ClockInv
  <2>2. /\ before \in Stamps /\ before.hour = 23 /\ before.year \in Nat /\ before.year <= MaxYear
        /\ Calendar!Instant(before) = hours - 1 /\ Calendar!Instant(stamp) = hours
    BY <1>1, <1>3, <2>1 DEF ClockInv, Stamps, Years
  <2> DEFINE dawn == [stamp EXCEPT !.hour = offset - 1]
             dusk == [before EXCEPT !.hour = 24 - offset]
  <2>3. /\ Calendar!ValidStamp(stamp) /\ Calendar!ValidStamp(before)
        /\ Calendar!ValidStamp(dawn) /\ Calendar!ValidStamp(dusk)
        /\ Calendar!Instant(dawn) = hours + offset - 1
        /\ Calendar!Instant(dusk) = hours - offset
    <3>1. offset - 1 \in 0 .. 23 /\ 24 - offset \in 0 .. 23
      BY <2>0
    <3> HIDE DEF before
    <3>2. Calendar!ValidStamp(dawn) /\ Calendar!Instant(dawn) = hours - 0 + (offset - 1)
      BY <1>1, <2>2, <3>1, StampIsValid
    <3>3. Calendar!ValidStamp(dusk) /\ Calendar!Instant(dusk) = hours - 1 - 23 + (24 - offset)
      BY <2>2, <3>1, StampIsValid
    <3>4. Calendar!ValidStamp(stamp) /\ Calendar!ValidStamp(before)
      BY <1>1, <2>2, StampIsValid
    <3> HIDE DEF dawn, dusk
    <3> QED
      BY <1>2, <2>0, <3>2, <3>3, <3>4
  <2>4. {0, offset, 0 - offset} \subseteq Calendar!Offsets
    BY <2>0 DEF Calendar!Offsets, Calendar!HoursPerDay
  <2> HIDE DEF before, dawn, dusk
  <2>5. ASSUME NEW s, NEW o \in Calendar!Offsets, Calendar!ValidStamp(s)
        PROVE  Calendar!parseRfc3339(s, o) = Calendar!Instant(s) - o
    BY <2>5 DEF Calendar!parseRfc3339
  <2>6. Calendar!parseRfc3339(stamp, offset) = Calendar!parseRfc3339(dusk, 0)
    BY <1>2, <2>0, <2>2, <2>3, <2>4, <2>5
  <2>7. Calendar!parseRfc3339(before, 0 - offset) = Calendar!parseRfc3339(dawn, 0)
    BY <1>2, <2>0, <2>2, <2>3, <2>4, <2>5
  <2> QED
    BY <2>6, <2>7 DEF dawn, dusk
<1>5. Calendar!ExpiresOnTime
  <2> SUFFICES ASSUME hours <= MaxInstant, NEW i \in 1 .. Len(history), NEW timeout \in Timeouts,
                      history[i].stamp.year <= MaxYear
               PROVE  LET answer == Calendar!healthConfirmationExpired(
                                        Calendar!parseRfc3339(history[i].stamp, 0), timeout)
                      IN IF answer = "fail"
                         THEN ~ Calendar!validHealthConfirmationTimeout(timeout) \/ stamp.year > MaxYear
                         ELSE answer = "expired" <=> timeout > 0 /\ hours - history[i].hours >= timeout
    BY <1>3 DEF Calendar!ExpiresOnTime
  <2> DEFINE done == Calendar!parseRfc3339(history[i].stamp, 0)
  <2>1. timeout \in Int
    BY InputsAssumption DEF Calendar!ClockAssumption
  <2>2. done = history[i].hours /\ done \in Int
    <3>0. 0 \in Calendar!Offsets
      BY DEF Calendar!Offsets, Calendar!HoursPerDay
    <3>1. Calendar!ValidStamp(history[i].stamp)
      BY <1>3, StampIsValid
    <3>2. Calendar!Instant(history[i].stamp) = history[i].hours /\ history[i].hours \in Int
      BY <1>3 DEF ClockInv
    <3> QED
      BY <3>0, <3>1, <3>2 DEF Calendar!parseRfc3339
  <2>3. Calendar!currentUtcInstant = IF stamp.year <= MaxYear THEN hours ELSE None
    BY <1>2 DEF Calendar!InstantIsCount
  <2>4. done # None /\ hours # None
    BY <1>1, <1>2, <2>2
  <2> HIDE DEF done
  <2> QED
    BY <1>1, <1>2, <2>1, <2>2, <2>3, <2>4
       DEF done, Calendar!healthConfirmationExpired, Calendar!validHealthConfirmationTimeout,
           Calendar!kMaximumHealthConfirmationTimeout, Calendar!HoursPerDay
<1> QED
  BY <1>2, <1>4, <1>5

(* The clock's invariant holds while the subject is the clock. *)
LEMMA ClockInvariance == Spec => [](subject = "clock" => ClockInv)
<1>1. Init => (subject = "clock" => ClockInv)
  <2> SUFFICES ASSUME Calendar!Init
               PROVE  ClockInv
    BY DEF Init
  <2>1. stamp \in Stamps /\ hours = 0 /\ history = <<>>
    BY DEF Calendar!Init, Stamps, Years, Months, Calendar!daysInMonth
  <2>2. Calendar!Instant(stamp) = hours
    BY DEF Calendar!Init, Calendar!Instant, Calendar!daysFromCivil, Calendar!HoursPerDay
  <2> QED
    BY <2>1, <2>2 DEF ClockInv
<1>2. (subject = "clock" => ClockInv) /\ [Next]_inputVars => (subject = "clock" => ClockInv)'
  <2> SUFFICES ASSUME subject = "clock" => ClockInv, [Next]_inputVars, subject' = "clock"
               PROVE  ClockInv'
    OBVIOUS
  <2>1. CASE UNCHANGED inputVars
    BY <2>1 DEF inputVars, clockVars, ClockInv, Calendar!Instant
  <2>2. CASE Calendar!Next /\ subject = "clock"
    BY <2>2, EveningKeeps, MidnightKeeps DEF Calendar!Next
  <2> QED
    BY <2>1, <2>2 DEF Next
<1> QED
  BY <1>1, <1>2, PTL DEF Spec

(* parseRfc3339, currentUtcInstant and healthConfirmationExpired, for any  *)
(* last year and any timeouts: an update expires at its deadline and not   *)
(* before, across month ends, leap days and centuries.                     *)
THEOREM DeadlinesAreExact == Spec => []DeadlinesExact
<1>1. (subject = "clock" => ClockInv) => DeadlinesExact
  BY ClockPromises DEF DeadlinesExact
<1> QED
  BY <1>1, ClockInvariance, PTL

-----------------------------------------------------------------------------
(* The resume sidecar: default/JsonStateStore.cpp. *)

Scopes == [release: Releases \union {None}, now: 0 .. MaxClock]

(* The batch in progress: its records are fresh, those it adds are there   *)
(* with its time, and the entry limit is kept once it is established.      *)
BatchSound ==
    /\ pc # "idle" =>
         /\ \A k \in DOMAIN entries : Resume!Within(entries[k], scope)
         /\ \A k \in protectedKeys : k \in DOMAIN entries /\ entries[k].at = scope.now
    /\ pc = "bytes" => Cardinality(DOMAIN entries) <= EntryLimit

ResumeInv ==
    /\ Resume!TypeOK /\ Resume!IsEntries(evicted) /\ scope \in Scopes
    /\ Resume!SidecarReadable /\ Resume!OnlyFreshRecords /\ Resume!BatchSurvives
    /\ Resume!OldestGoFirst /\ BatchSound

(* The sizes ResumeEntries speaks of are those of finite sets. *)
LEMMA ResumeSizes ==
    ASSUME NEW S
    PROVE  Resume!Cardinality(S) = Cardinality(S) /\ (Resume!IsFiniteSet(S) <=> IsFiniteSet(S))
<1>1. Resume!Cardinality(S) = Cardinality(S)
  BY DEF Cardinality, Resume!Cardinality
<1>2. Resume!IsFiniteSet(S) <=> IsFiniteSet(S)
  BY DEF IsFiniteSet, Resume!IsFiniteSet
<1> QED
  BY <1>1, <1>2

(* The bounds are natural numbers and there are finitely many keys. *)
LEMMA ResumeBounds ==
    /\ Keys \subseteq Nat /\ IsFiniteSet(Keys)
    /\ MaxAge \in Nat /\ EntryLimit \in Nat /\ ByteLimit \in Nat /\ MaxClock \in Nat /\ MaxBatches \in Nat
BY InputsAssumption, ResumeSizes DEF Resume!ResumeAssumption

(* A sidecar without records takes no bytes. *)
LEMMA NothingIsEmpty ==
    DOMAIN Resume!Nothing = {} /\ Resume!Bytes(Resume!Nothing) = 0
<1>1. DOMAIN Resume!Nothing = {}
  BY DEF Resume!Nothing
<1>2. SUBSET {} = {{}}
  OBVIOUS
<1> QED
  BY <1>1, <1>2 DEF Resume!Bytes, Resume!MapThenSumSet, Resume!MapThenFoldSet

(* downloadResumeIsFresh is the two-sided window around the batch's time,  *)
(* whichever of the two times is the later one.                            *)
LEMMA FreshIsWithin ==
    ASSUME NEW record \in Resume!Records, NEW s \in Scopes, Resume!downloadResumeIsFresh(record, s)
    PROVE  Resume!Within(record, s)
<1>1. record.at \in 0 .. MaxClock /\ s.now \in 0 .. MaxClock
  BY DEF Resume!Records, Scopes
<1> QED
  BY <1>1, ResumeBounds DEF Resume!downloadResumeIsFresh, Resume!Within

(* Records a batch keeps or leaves out are still records. *)
LEMMA OnlyType ==
    ASSUME NEW f, Resume!IsEntries(f), NEW ks \in SUBSET DOMAIN f
    PROVE  /\ Resume!IsEntries(Resume!Only(f, ks)) /\ DOMAIN Resume!Only(f, ks) = ks
           /\ \A k \in ks : Resume!Only(f, ks)[k] = f[k]
BY DEF Resume!IsEntries, Resume!Only

(* Nothing is stored at first. *)
LEMMA ResumeStarts ==
    ASSUME Resume!Init
    PROVE  ResumeInv
<1>1. Resume!IsEntries(Resume!Nothing)
  BY NothingIsEmpty DEF Resume!IsEntries
<1>2. Resume!TypeOK /\ Resume!IsEntries(evicted) /\ scope \in Scopes
  BY <1>1, ResumeBounds DEF Resume!Init, Resume!TypeOK, Scopes
<1>3. Resume!SidecarReadable
  BY NothingIsEmpty, ResumeBounds, ResumeSizes, FS_EmptySet DEF Resume!Init, Resume!SidecarReadable
<1>4. Resume!OnlyFreshRecords /\ Resume!BatchSurvives /\ Resume!OldestGoFirst /\ BatchSound
  BY NothingIsEmpty DEF Resume!Init, Resume!OnlyFreshRecords, Resume!BatchSurvives, Resume!OldestGoFirst,
     BatchSound
<1> QED
  BY <1>2, <1>3, <1>4 DEF ResumeInv

(* loadDownloadResumeBatch returns fresh records of the release it is      *)
(* asked for.                                                              *)
LEMMA LoadKeeps ==
    ASSUME ResumeInv, Resume!Load
    PROVE  ResumeInv'
<1>1. PICK r \in Releases :
        LET s == [release |-> r, now |-> clock]
        IN loaded' = [scope |-> s, entries |->
              Resume!Only(sidecar, {k \in DOMAIN sidecar : Resume!downloadResumeIsFresh(sidecar[k], s)})]
  BY DEF Resume!Load
<1> DEFINE s == [release |-> r, now |-> clock]
           fresh == {k \in DOMAIN sidecar : Resume!downloadResumeIsFresh(sidecar[k], s)}
<1>2. s \in Scopes /\ Resume!IsEntries(sidecar)
  BY DEF ResumeInv, Resume!TypeOK, Scopes
<1>3. loaded'.scope = s /\ loaded'.entries = Resume!Only(sidecar, fresh)
  BY <1>1
<1>4. /\ DOMAIN Resume!Only(sidecar, fresh) = fresh
      /\ \A k \in fresh : Resume!Only(sidecar, fresh)[k] = sidecar[k]
  BY <1>2, OnlyType
<1>5. \A k \in fresh : Resume!Within(sidecar[k], s)
  BY <1>2, FreshIsWithin DEF Resume!IsEntries
<1>6. \A k \in DOMAIN loaded'.entries : Resume!Within(loaded'.entries[k], loaded'.scope)
  BY <1>3, <1>4, <1>5
<1>7. Resume!OnlyFreshRecords'
  BY <1>6 DEF ResumeInv, Resume!OnlyFreshRecords, Resume!Load, Resume!Within
<1>8. Resume!TypeOK'
  BY ResumeBounds DEF ResumeInv, Resume!TypeOK, Resume!Load
<1> QED
  BY <1>7, <1>8 DEF ResumeInv, Resume!Load, Resume!IsEntries, Resume!SidecarReadable,
     Resume!BatchSurvives, Resume!OldestGoFirst, BatchSound

(* applyDownloadResumeBatch starts from the fresh records it does not      *)
(* clear and the ones it adds.                                             *)
LEMMA BeginKeeps ==
    ASSUME ResumeInv, Resume!Begin
    PROVE  ResumeInv'
<1>1. PICK r \in Releases, w \in Weights, upserts \in SUBSET Keys, clears \in SUBSET DOMAIN sidecar :
        Resume!Starts(Resume!StillFresh(r) \ clears, r, clock, w, upserts)
  BY DEF Resume!Begin
<1> DEFINE kept == Resume!StillFresh(r) \ clears
           added == [release |-> r, at |-> clock, weight |-> w]
           s == [release |-> r, now |-> clock]
<1>2. s \in Scopes /\ added \in Resume!Records /\ Resume!IsEntries(sidecar) /\ clock \in 0 .. MaxClock
  BY DEF ResumeInv, Resume!TypeOK, Scopes, Resume!Records
<1>3. kept \subseteq DOMAIN sidecar /\ \A k \in kept : Resume!Within(sidecar[k], s)
  BY <1>2, FreshIsWithin DEF Resume!StillFresh, Resume!IsEntries
<1>4. Resume!Within(added, s)
  BY <1>2, ResumeBounds DEF Resume!Within
<1>5. /\ entries' = [k \in kept \union upserts |-> IF k \in upserts THEN added ELSE sidecar[k]]
      /\ protectedKeys' = upserts /\ scope' = s /\ pc' = "count" /\ evicted' = Resume!Nothing
      /\ outcome' = "none" /\ batches' = batches + 1 /\ batches < MaxBatches
      /\ UNCHANGED <<sidecar, clock, loaded>>
  BY <1>1 DEF Resume!Starts
<1> HIDE DEF kept, added, s
<1>6. /\ DOMAIN entries' = kept \union upserts
      /\ \A k \in upserts : entries'[k] = added
      /\ \A k \in kept \ upserts : entries'[k] = sidecar[k]
  BY <1>5
<1>7. Resume!IsEntries(entries')
  BY <1>2, <1>3, <1>6 DEF Resume!IsEntries
<1>8. \A k \in DOMAIN entries' : Resume!Within(entries'[k], s)
  BY <1>3, <1>4, <1>6
<1>9. Resume!TypeOK'
  BY <1>5, <1>7, ResumeBounds DEF ResumeInv, Resume!TypeOK, Resume!IsEntries
<1>10. BatchSound'
  <2>1. \A k \in protectedKeys' : k \in DOMAIN entries' /\ entries'[k].at = scope'.now
    BY <1>5, <1>6 DEF added, s
  <2> QED
    BY <1>5, <1>8, <2>1 DEF BatchSound, Resume!Within
<1>11. Resume!IsEntries(evicted)' /\ Resume!OldestGoFirst'
  BY <1>5, NothingIsEmpty DEF Resume!IsEntries, Resume!OldestGoFirst
<1>12. Resume!SidecarReadable' /\ Resume!OnlyFreshRecords' /\ Resume!BatchSurvives'
  BY <1>5 DEF ResumeInv, Resume!SidecarReadable, Resume!OnlyFreshRecords, Resume!Within,
     Resume!BatchSurvives
<1> QED
  BY <1>2, <1>5, <1>9, <1>10, <1>11, <1>12 DEF ResumeInv

(* evictOldestDownloadResume takes a record that is none of the batch's    *)
(* and no younger than any other of that kind.                             *)
LEMMA EvictKeeps ==
    ASSUME ResumeInv, pc # "idle", NEW k \in Resume!Oldest, Resume!Evict(k)
    PROVE  ResumeInv'
<1>1. k \in DOMAIN entries \ protectedKeys /\ Resume!IsEntries(entries) /\ Resume!IsEntries(evicted)
  BY DEF Resume!Oldest, ResumeInv, Resume!TypeOK
<1>2. /\ Resume!IsEntries(entries') /\ DOMAIN entries' = DOMAIN entries \ {k}
      /\ \A l \in DOMAIN entries' : entries'[l] = entries[l]
  BY <1>1, OnlyType DEF Resume!Evict
<1>3. /\ DOMAIN evicted' = DOMAIN evicted \union {k} /\ evicted'[k] = entries[k]
      /\ \A l \in DOMAIN evicted \ {k} : evicted'[l] = evicted[l]
  BY DEF Resume!Evict
<1>4. Resume!IsEntries(evicted')
  BY <1>1, <1>3 DEF Resume!IsEntries
<1>5. UNCHANGED <<sidecar, protectedKeys, scope, clock, pc, loaded, outcome, batches>>
  BY DEF Resume!Evict
<1>6. \A l \in DOMAIN entries : entries[l].at \in Nat
  BY <1>1, ResumeBounds DEF Resume!IsEntries, Resume!Records
<1>7. \A l \in DOMAIN entries \ protectedKeys : entries[k].at <= entries[l].at
  BY <1>1, <1>6 DEF Resume!Oldest, Resume!Older
<1>8. Resume!OldestGoFirst'
  <2> SUFFICES ASSUME NEW e \in DOMAIN evicted', NEW l \in DOMAIN entries' \ protectedKeys
               PROVE  evicted'[e].at <= entries'[l].at
    BY <1>5 DEF Resume!OldestGoFirst
  <2>1. l \in DOMAIN entries \ protectedKeys /\ entries'[l] = entries[l]
    BY <1>2
  <2>2. CASE e = k
    BY <1>3, <1>7, <2>1, <2>2
  <2>3. CASE e # k
    BY <1>3, <2>1, <2>3 DEF ResumeInv, Resume!OldestGoFirst
  <2> QED
    BY <2>2, <2>3
<1>9. Cardinality(DOMAIN entries') <= Cardinality(DOMAIN entries) /\ Cardinality(DOMAIN entries') \in Nat
      /\ Cardinality(DOMAIN entries) \in Nat
  <2>1. IsFiniteSet(DOMAIN entries)
    BY <1>1, ResumeBounds, FS_Subset DEF Resume!IsEntries
  <2> QED
    BY <1>2, <2>1, FS_Subset, FS_CardinalityType
<1>10. BatchSound'
  BY <1>1, <1>2, <1>5, <1>9, ResumeBounds DEF ResumeInv, BatchSound, Resume!Within
<1>11. Resume!TypeOK' /\ Resume!SidecarReadable' /\ Resume!OnlyFreshRecords' /\ Resume!BatchSurvives'
  BY <1>2, <1>5 DEF ResumeInv, Resume!TypeOK, Resume!SidecarReadable, Resume!OnlyFreshRecords,
     Resume!Within, Resume!BatchSurvives, Resume!IsEntries
<1> QED
  BY <1>4, <1>5, <1>8, <1>10, <1>11 DEF ResumeInv

(* A batch that fails leaves the sidecar; one that succeeds replaces it by *)
(* what it kept and added, within both limits.                             *)
LEMMA FinishKeeps ==
    ASSUME ResumeInv, NEW answer \in {"ok", "fail"}, Resume!Finish(answer), pc # "idle",
           \/ UNCHANGED sidecar /\ answer = "fail"
           \/ sidecar' = entries /\ pc = "bytes" /\ Resume!Bytes(entries) <= ByteLimit
    PROVE  ResumeInv'
<1>1. /\ pc' = "idle" /\ outcome' = answer
      /\ UNCHANGED <<entries, protectedKeys, scope, clock, loaded, evicted, batches>>
  BY DEF Resume!Finish
<1>2. Resume!TypeOK' /\ Resume!IsEntries(evicted)'
  BY <1>1 DEF ResumeInv, Resume!TypeOK, Resume!IsEntries
<1>3. Resume!SidecarReadable'
  BY ResumeSizes DEF ResumeInv, BatchSound, Resume!SidecarReadable
<1>4. Resume!OnlyFreshRecords' /\ Resume!BatchSurvives'
  BY <1>1 DEF ResumeInv, BatchSound, Resume!OnlyFreshRecords, Resume!BatchSurvives, Resume!Within
<1>5. Resume!OldestGoFirst' /\ BatchSound'
  BY <1>1 DEF ResumeInv, BatchSound, Resume!OldestGoFirst
<1> QED
  BY <1>1, <1>2, <1>3, <1>4, <1>5 DEF ResumeInv

(* Every step of a load, of a batch and of the clock. *)
LEMMA ResumeStepKeeps ==
    ASSUME ResumeInv, Resume!Next
    PROVE  ResumeInv'
<1>1. CASE Resume!EvictByCount \/ Resume!EvictByBytes
  BY <1>1, EvictKeeps DEF Resume!EvictByCount, Resume!EvictByBytes
<1>2. CASE Resume!BatchTooLarge \/ Resume!BytesExceeded \/ Resume!Save
  BY <1>2, FinishKeeps DEF Resume!BatchTooLarge, Resume!BytesExceeded, Resume!Save
<1>3. CASE Resume!CountFits
  BY <1>3, ResumeSizes DEF Resume!CountFits, ResumeInv, Resume!TypeOK, Resume!IsEntries, Resume!SidecarReadable,
     Resume!OnlyFreshRecords, Resume!Within, Resume!BatchSurvives, Resume!OldestGoFirst,
     BatchSound
<1>4. CASE Resume!SetClock
  BY <1>4 DEF Resume!SetClock, ResumeInv, Resume!TypeOK, Resume!IsEntries, Resume!SidecarReadable,
     Resume!OnlyFreshRecords, Resume!Within, Resume!BatchSurvives, Resume!OldestGoFirst,
     BatchSound
<1> QED
  BY <1>1, <1>2, <1>3, <1>4, LoadKeeps, BeginKeeps DEF Resume!Next

(* The sidecar's invariant holds while the subject is the sidecar. *)
LEMMA ResumeInvariance == Spec => [](subject = "resume" => ResumeInv)
<1>1. Init => (subject = "resume" => ResumeInv)
  BY ResumeStarts DEF Init
<1>2. (subject = "resume" => ResumeInv) /\ [Next]_inputVars => (subject = "resume" => ResumeInv)'
  <2> SUFFICES ASSUME subject = "resume" => ResumeInv, [Next]_inputVars, subject' = "resume"
               PROVE  ResumeInv'
    OBVIOUS
  <2>1. CASE UNCHANGED inputVars
    BY <2>1 DEF inputVars, resumeVars, ResumeInv, Resume!TypeOK, Resume!IsEntries, Resume!SidecarReadable,
       Resume!OnlyFreshRecords, Resume!Within, Resume!BatchSurvives, Resume!OldestGoFirst,
       BatchSound
  <2>2. CASE Resume!Next /\ subject = "resume"
    BY <2>2, ResumeStepKeeps
  <2> QED
    BY <2>1, <2>2 DEF Next
<1> QED
  BY <1>1, <1>2, PTL DEF Spec

(* applyDownloadResumeBatch and loadDownloadResumeBatch, for any keys,     *)
(* limits and movements of the clock: the sidecar can be read again, holds *)
(* fresh records of one release, keeps what the last batch added and lost  *)
(* the oldest first.                                                       *)
THEOREM ResumeRecordsAreSound == Spec => []ResumeRecordsSound
<1>1. (subject = "resume" => ResumeInv) => ResumeRecordsSound
  BY DEF ResumeInv, ResumeRecordsSound
<1> QED
  BY <1>1, ResumeInvariance, PTL

-----------------------------------------------------------------------------
(* Induction over the numbers. *)

(* A set of numbers that has 0 and the successor of each of its members    *)
(* has all of them: its complement would have a least one.                 *)
LEMMA SetInduction ==
    ASSUME NEW S, 0 \in S, \A n \in Nat : n \in S => n + 1 \in S
    PROVE  Nat \subseteq S
<1> DEFINE T == Nat \ S
           R == OpToRel(<, Nat)
<1>1. SUFFICES ASSUME T # {} PROVE FALSE
  OBVIOUS
<1>2. IsWellFoundedOn(R, Nat) /\ T \subseteq Nat
  BY NatLessThanWellFounded
<1> HIDE DEF R, T
<1>3. PICK x \in T : \A y \in T : ~ (<<y, x>> \in R)
  BY <1>1, <1>2, WFMin
<1>4. x \in Nat /\ x \notin S /\ x # 0
  BY <1>3 DEF T
<1>5. x - 1 \in Nat /\ x - 1 \notin S /\ <<x - 1, x>> \in R
  BY <1>4 DEF R, OpToRel
<1> QED
  BY <1>3, <1>5 DEF T

-----------------------------------------------------------------------------
(* The choice of a target: selectIndexTarget in ManifestFetcher.cpp. *)

(* A target is as specific as it has selectors, and never None. *)
LEMMA TargetFacts ==
    /\ None \notin Fetch!Targets /\ None \notin Urls /\ First \in Allowed /\ Allowed \subseteq Urls
    /\ \A t : Fetch!Specificity(t) \in Nat
<1>1. \A t : Fetch!Specificity(t) \in Nat
  <2> TAKE t
  <2> DEFINE S == {f \in {"platform", "arch"} : t[f] # "any"}
  <2>1. Fetch!Cardinality(S) = Cardinality(S)
    BY DEF Cardinality, Fetch!Cardinality
  <2>2. IsFiniteSet({"platform", "arch"})
    <3>1. IsFiniteSet({} \union {"platform"})
      BY FS_EmptySet, FS_AddElement
    <3>2. IsFiniteSet(({} \union {"platform"}) \union {"arch"})
      BY <3>1, FS_AddElement
    <3>3. ({} \union {"platform"}) \union {"arch"} = {"platform", "arch"}
      OBVIOUS
    <3> QED
      BY <3>2, <3>3
  <2>4. S \subseteq {"platform", "arch"}
    OBVIOUS
  <2> HIDE DEF S
  <2>3. Cardinality(S) \in Nat
    BY <2>2, <2>4, FS_Subset, FS_CardinalityType
  <2> QED
    BY <2>1, <2>3 DEF S, Fetch!Specificity
<1> QED
  BY <1>1, InputsAssumption DEF Fetch!FetchAssumption

(* The pass over the targets takes them one by one. *)
LEMMA BestOfFirstDef ==
    ASSUME NEW listed, Len(listed) \in Nat
    PROVE  Fetch!BestOfFirst(listed) = [n \in 0 .. Len(listed) |->
              IF n = 0 THEN Fetch!Nothing
              ELSE Fetch!Consider(Fetch!BestOfFirst(listed)[n - 1], listed[n])]
<1> DEFINE D(g, m) == g = [n \in 0 .. m |-> IF n = 0 THEN Fetch!Nothing
                                             ELSE Fetch!Consider(g[n - 1], listed[n])]
           S == {m \in Nat : \E g : D(g, m)}
<1>1. 0 \in S
  <2> DEFINE g == [n \in 0 .. 0 |-> Fetch!Nothing]
  <2>1. D(g, 0)
    OBVIOUS
  <2> HIDE DEF g
  <2> QED
    BY <2>1
<1>2. ASSUME NEW m \in Nat, m \in S PROVE m + 1 \in S
  <2>1. PICK g : D(g, m)
    BY <1>2
  <2> DEFINE h == [n \in 0 .. m + 1 |-> IF n <= m THEN g[n] ELSE Fetch!Consider(g[m], listed[n])]
  <2>2. ASSUME NEW n \in 0 .. m + 1
        PROVE  h[n] = IF n = 0 THEN Fetch!Nothing ELSE Fetch!Consider(h[n - 1], listed[n])
    BY <2>1
  <2>3. h = [n \in 0 .. m + 1 |-> h[n]]
    OBVIOUS
  <2>4. D(h, m + 1)
    BY <2>2, <2>3
  <2> HIDE DEF h
  <2> QED
    BY <2>4
<1>3. Len(listed) \in S
  <2> HIDE DEF S
  <2> QED
    BY <1>1, <1>2, SetInduction
<1>4. \E g : D(g, Len(listed))
  BY <1>3
<1>5. Fetch!BestOfFirst(listed) = CHOOSE g : D(g, Len(listed))
  BY DEF Fetch!BestOfFirst
<1> QED
  BY <1>4, <1>5

(* What is known after the first n targets: nothing if none matches;       *)
(* otherwise a match that no other exceeds, alone exactly if it was        *)
(* counted once.                                                           *)
MatchesIn(listed, n) == {i \in 1 .. n : Fetch!Matches(listed[i])}
Unsurpassed(listed, n, best, i) ==
    /\ i \in MatchesIn(listed, n)
    /\ best.selected = listed[i] /\ best.specificity = Fetch!Specificity(listed[i])
    /\ \A j \in MatchesIn(listed, n) : Fetch!Specificity(listed[j]) <= best.specificity
    /\ best.count = 1 =>
         \A j \in MatchesIn(listed, n) \ {i} : Fetch!Specificity(listed[j]) < best.specificity
    /\ best.count # 1 =>
         \E j \in MatchesIn(listed, n) \ {i} : Fetch!Specificity(listed[j]) = best.specificity
BestSoFar(listed, n, best) ==
    /\ best \in [selected: Fetch!Targets \union {None}, specificity: Nat, count: Nat]
    /\ MatchesIn(listed, n) = {} => best = Fetch!Nothing
    /\ MatchesIn(listed, n) # {} => best.count > 0 /\ \E i \in 1 .. n : Unsurpassed(listed, n, best, i)

(* One more target keeps the best, ties with it, or replaces it. *)
LEMMA ConsiderOneMore ==
    ASSUME NEW listed \in Seq(Fetch!Targets), NEW n \in Nat, n < Len(listed), NEW best,
           BestSoFar(listed, n, best)
    PROVE  BestSoFar(listed, n + 1, Fetch!Consider(best, listed[n + 1]))
<1> DEFINE t == listed[n + 1]
           M == MatchesIn(listed, n)
           M1 == MatchesIn(listed, n + 1)
           next == Fetch!Consider(best, t)
           Sp(i) == Fetch!Specificity(listed[i])
<1>1. t \in Fetch!Targets /\ t # None /\ n + 1 \notin M
  BY TargetFacts DEF MatchesIn
<1>2. \A i : Sp(i) \in Nat
  BY TargetFacts
<1>3. M1 = IF Fetch!Matches(t) THEN M \union {n + 1} ELSE M
  BY DEF MatchesIn
<1>4. best.count \in Nat /\ best.specificity \in Nat
      /\ best \in [selected: Fetch!Targets \union {None}, specificity: Nat, count: Nat]
  BY DEF BestSoFar
<1>5. CASE ~ Fetch!Matches(t)
  <2>1. next = best /\ M1 = M
    BY <1>3, <1>5 DEF Fetch!Consider
  <2>2. \A i \in 1 .. n : Unsurpassed(listed, n, best, i) => Unsurpassed(listed, n + 1, best, i)
    BY <2>1 DEF Unsurpassed
  <2> QED
    BY <2>1, <2>2 DEF BestSoFar
<1>6. CASE Fetch!Matches(t) /\ (best.selected = None \/ Fetch!Specificity(t) > best.specificity)
  <2>1. next = [selected |-> t, specificity |-> Fetch!Specificity(t), count |-> 1]
    BY <1>6 DEF Fetch!Consider
  <2>2. \A j \in M : Sp(j) < Fetch!Specificity(t)
    <3>1. CASE M = {}
      BY <3>1
    <3>2. CASE M # {}
      <4>1. PICK i \in 1 .. n : Unsurpassed(listed, n, best, i)
        BY <3>2 DEF BestSoFar
      <4>2. best.selected # None
        BY <4>1, TargetFacts DEF Unsurpassed
      <4> QED
        BY <1>2, <1>4, <1>6, <4>1, <4>2 DEF Unsurpassed
    <3> QED
      BY <3>1, <3>2
  <2>3. Unsurpassed(listed, n + 1, next, n + 1)
    BY <1>2, <1>3, <1>6, <2>1, <2>2 DEF Unsurpassed
  <2>4. next \in [selected: Fetch!Targets \union {None}, specificity: Nat, count: Nat]
    BY <1>1, <1>2, <2>1
  <2>5. M1 # {} /\ n + 1 \in 1 .. n + 1 /\ next.count > 0
    BY <1>3, <1>6, <2>1
  <2> QED
    BY <2>3, <2>4, <2>5 DEF BestSoFar
<1>7. CASE /\ Fetch!Matches(t) /\ best.selected # None
           /\ ~ (Fetch!Specificity(t) > best.specificity)
  <2>1. M # {}
    BY <1>7 DEF BestSoFar, Fetch!Nothing
  <2>2. PICK i \in 1 .. n : Unsurpassed(listed, n, best, i)
    BY <2>1 DEF BestSoFar
  <2>3. best.count > 0 /\ i \in M /\ i # n + 1 /\ i \in 1 .. n + 1 /\ M1 = M \union {n + 1} /\ M1 # {}
    BY <1>1, <1>3, <1>7, <2>1, <2>2 DEF BestSoFar, Unsurpassed
  <2>4. CASE Fetch!Specificity(t) = best.specificity
    <3>1. next = [best EXCEPT !.count = @ + 1]
      BY <1>7, <2>4 DEF Fetch!Consider
    <3>2. /\ next.selected = best.selected /\ next.specificity = best.specificity
          /\ next.count = best.count + 1 /\ next.count # 1 /\ next.count > 0
          /\ next \in [selected: Fetch!Targets \union {None}, specificity: Nat, count: Nat]
      <4> HIDE DEF next
      <4>1. /\ next.selected = best.selected /\ next.specificity = best.specificity
            /\ next.count = best.count + 1
        BY <1>4, <3>1
      <4>2. next \in [selected: Fetch!Targets \union {None}, specificity: Nat, count: Nat]
        BY <1>4, <3>1
      <4> QED
        BY <1>4, <2>3, <4>1, <4>2
    <3> HIDE DEF next
    <3>3. Unsurpassed(listed, n + 1, next, i)
      BY <1>2, <2>2, <2>3, <2>4, <3>2 DEF Unsurpassed
    <3>4. BestSoFar(listed, n + 1, next)
      BY <2>3, <3>2, <3>3 DEF BestSoFar
    <3> QED
      BY <3>4 DEF next
  <2>5. CASE Fetch!Specificity(t) < best.specificity
    <3>1. next = best
      BY <1>2, <1>4, <1>7, <2>5 DEF Fetch!Consider
    <3> HIDE DEF next
    <3>2. Unsurpassed(listed, n + 1, best, i)
      BY <1>2, <1>4, <2>2, <2>3, <2>5 DEF Unsurpassed
    <3>3. BestSoFar(listed, n + 1, next)
      BY <1>4, <2>3, <3>1, <3>2 DEF BestSoFar
    <3> QED
      BY <3>3 DEF next
  <2> QED
    BY <1>2, <1>4, <1>7, <2>4, <2>5
<1> QED
  BY <1>5, <1>6, <1>7

(* So it is after any number of targets. *)
LEMMA BestOfAll ==
    ASSUME NEW listed \in Seq(Fetch!Targets)
    PROVE  BestSoFar(listed, Len(listed), Fetch!BestOfFirst(listed)[Len(listed)])
<1> DEFINE best == Fetch!BestOfFirst(listed)
           S == {n \in Nat : n <= Len(listed) => BestSoFar(listed, n, best[n])}
<1>1. /\ Len(listed) \in Nat
      /\ best[0] = Fetch!Nothing
      /\ \A n \in Nat : n < Len(listed) => best[n + 1] = Fetch!Consider(best[n], listed[n + 1])
  <2>1. Len(listed) \in Nat
    OBVIOUS
  <2>2. best = [n \in 0 .. Len(listed) |->
                  IF n = 0 THEN Fetch!Nothing ELSE Fetch!Consider(best[n - 1], listed[n])]
    BY <2>1, BestOfFirstDef
  <2> HIDE DEF best
  <2> QED
    BY <2>1, <2>2
<1> HIDE DEF best
<1>2. 0 \in S
  <2>1. MatchesIn(listed, 0) = {}
    BY DEF MatchesIn
  <2> QED
    BY <1>1, <2>1 DEF BestSoFar, Fetch!Nothing
<1>3. ASSUME NEW n \in Nat, n \in S PROVE n + 1 \in S
  BY <1>1, <1>3, ConsiderOneMore
<1>4. Nat \subseteq S
  <2> HIDE DEF S
  <2> QED
    BY <1>2, <1>3, SetInduction
<1> QED
  BY <1>1, <1>4 DEF best

(* selectIndexTarget answers with the one most specific match, and with    *)
(* none exactly when no target matches or the best ones are tied.          *)
LEMMA SelectsTheBest ==
    ASSUME NEW listed \in Seq(Fetch!Targets)
    PROVE  LET M == MatchesIn(listed, Len(listed))
               B == {i \in M : \A j \in M \ {i} : Fetch!Better(listed[i], listed[j])}
               chosen == Fetch!selectIndexTarget(listed)
           IN IF B = {} THEN chosen = None ELSE \A i \in B : chosen = listed[i]
<1> DEFINE M == MatchesIn(listed, Len(listed))
           B == {i \in M : \A j \in M \ {i} : Fetch!Better(listed[i], listed[j])}
           chosen == Fetch!selectIndexTarget(listed)
           best == Fetch!BestOfFirst(listed)[Len(listed)]
<1> SUFFICES IF B = {} THEN chosen = None ELSE \A i \in B : chosen = listed[i]
  OBVIOUS
<1>1. BestSoFar(listed, Len(listed), best)
  BY BestOfAll
<1>2. chosen = IF best.count = 1 THEN best.selected ELSE None
  BY DEF Fetch!selectIndexTarget
<1> HIDE DEF best, chosen
<1>3. \A i : Fetch!Specificity(listed[i]) \in Nat
  BY TargetFacts
<1>4. CASE M = {}
  <2>1. best.count # 1
    BY <1>1, <1>4 DEF BestSoFar, Fetch!Nothing
  <2> QED
    BY <1>2, <1>4, <2>1
<1>5. CASE M # {}
  <2>1. PICK i \in M : Unsurpassed(listed, Len(listed), best, i)
    BY <1>1, <1>5 DEF BestSoFar, Unsurpassed
  <2>2. \A k \in B : k = i
    BY <1>3, <2>1 DEF Unsurpassed, Fetch!Better
  <2>3. CASE best.count = 1
    <3>1. i \in B
      BY <1>3, <2>1, <2>3 DEF Unsurpassed, Fetch!Better
    <3> QED
      BY <1>2, <2>1, <2>2, <2>3, <3>1 DEF Unsurpassed
  <2>4. CASE best.count # 1
    <3>1. i \notin B
      BY <1>3, <2>1, <2>4 DEF Unsurpassed, Fetch!Better
    <3> QED
      BY <1>2, <2>2, <2>4, <3>1
  <2> QED
    BY <2>3, <2>4
<1> QED
  BY <1>4, <1>5

(* The larger of the two limits is at least each of them. *)
LEMMA LargerLimit ==
    LET larger == Fetch!Max({MaxIndexBytes, MaxManifestBytes})
    IN  larger \in Nat /\ MaxIndexBytes <= larger /\ MaxManifestBytes <= larger
<1> DEFINE S == {MaxIndexBytes, MaxManifestBytes}
<1>1. MaxIndexBytes \in Nat /\ MaxManifestBytes \in Nat
  BY InputsAssumption DEF Fetch!FetchAssumption
<1>2. \E x \in S : \A y \in S : x >= y
  BY <1>1
<1>3. Fetch!Max(S) \in S /\ \A y \in S : Fetch!Max(S) >= y
  <2> HIDE DEF S
  <2> QED
    BY <1>2 DEF Fetch!Max
<1> QED
  BY <1>1, <1>3

-----------------------------------------------------------------------------
(* A manifest that can be trusted: fetchAndVerifyManifest. *)

(* What is at hand in each phase. *)
FetchTypes ==
    /\ required \in BOOLEAN /\ signatureVerified \in BOOLEAN
    /\ content \in [Fetch!Ids -> [kind: Fetch!Kinds, size: Sizes]]
    /\ pc = "signature" => required
    /\ pc \in {"signature", "parse"} => body \in Fetch!Ids /\ effective \in Allowed
    /\ result = "ok" => pc = "done"

(* What a verified signature says, and of which document: the flag is for  *)
(* the bytes at hand, is set before they are parsed where signatures are   *)
(* required, and was set for the index that led to the second phase.       *)
SignatureSound ==
    /\ signatureVerified => required /\ body \in Signed
    /\ pc = "parse" /\ required => signatureVerified
    /\ phase = 2 /\ required => indexed \in Signed
    /\ pc = "parse" /\ phase = 2 /\ required => signatureUrl = <<effective, "sig">>

FetchInv ==
    /\ FetchTypes /\ SignatureSound
    /\ Fetch!TypeOK /\ Fetch!Authentic /\ Fetch!FlagMeansVerified /\ Fetch!SignatureBesideRelease
    /\ Fetch!BaseInScope /\ Fetch!ManifestWithinLimit /\ Fetch!SelectedIsBest

LEMMA FetchStarts == Fetch!Init => FetchInv
<1> SUFFICES ASSUME Fetch!Init PROVE FetchInv
  OBVIOUS
<1>1. FetchTypes
  BY DEF Fetch!Init, FetchTypes
<1>2. SignatureSound
  BY DEF Fetch!Init, SignatureSound
<1>3. Fetch!TypeOK
  BY TargetFacts DEF Fetch!Init, Fetch!TypeOK
<1>4. /\ Fetch!Authentic /\ Fetch!FlagMeansVerified /\ Fetch!SignatureBesideRelease
      /\ Fetch!BaseInScope /\ Fetch!ManifestWithinLimit /\ Fetch!SelectedIsBest
  BY DEF Fetch!Init, Fetch!Authentic, Fetch!FlagMeansVerified, Fetch!SignatureBesideRelease,
     Fetch!BaseInScope, Fetch!ManifestWithinLimit, Fetch!SelectedIsBest
<1> QED
  BY <1>1, <1>2, <1>3, <1>4 DEF FetchInv

(* Until a manifest is accepted nothing is said about one. *)
LEMMA NothingAccepted ==
    ASSUME result' # "ok"
    PROVE  /\ Fetch!Authentic' /\ Fetch!FlagMeansVerified' /\ Fetch!SignatureBesideRelease'
           /\ Fetch!BaseInScope' /\ Fetch!ManifestWithinLimit'
  BY DEF Fetch!Authentic, Fetch!FlagMeansVerified, Fetch!SignatureBesideRelease, Fetch!BaseInScope,
     Fetch!ManifestWithinLimit

(* The choice stands while the index stays. *)
LEMMA SelectionStands ==
    ASSUME Fetch!SelectedIsBest, UNCHANGED <<indexed, targets, target>>
    PROVE  Fetch!SelectedIsBest'
  BY DEF Fetch!SelectedIsBest, Fetch!Best, Fetch!Matching

LEMMA FetchDocumentKeeps == FetchInv /\ Fetch!FetchDocument => FetchInv'
<1> SUFFICES ASSUME FetchInv, Fetch!FetchDocument PROVE FetchInv'
  OBVIOUS
<1>1. /\ FetchTypes /\ SignatureSound /\ Fetch!TypeOK /\ Fetch!SelectedIsBest
      /\ result # "ok" /\ result' # "ok" /\ result' \in {"none", "fail"}
  BY DEF FetchInv, FetchTypes, Fetch!FetchDocument, Fetch!Goes, Fetch!Fail, Fetch!TypeOK
<1>2. Fetch!SelectedIsBest'
  BY <1>1, SelectionStands DEF Fetch!FetchDocument
<1>3. Fetch!TypeOK'
  <2> DEFINE larger == Fetch!Max({MaxIndexBytes, MaxManifestBytes})
  <2>1. larger \in Nat /\ MaxManifestBytes <= larger /\ MaxManifestBytes \in Nat /\ Sizes \subseteq Nat
    BY LargerLimit, InputsAssumption DEF Fetch!FetchAssumption
  <2>2. Fetch!Limit = larger \/ Fetch!Limit = MaxManifestBytes
    BY DEF Fetch!Limit
  <2> HIDE DEF larger
  <2>3. /\ phase' \in 1 .. 2 /\ url' \in Allowed /\ result' \in {"none", "ok", "fail"}
        /\ body' \in Fetch!Ids \union {None} /\ effective' \in Allowed \union {None}
    BY <1>1 DEF Fetch!FetchDocument, Fetch!TypeOK, Fetch!document
  <2>4. CASE UNCHANGED Fetch!document
    BY <1>1, <2>3, <2>4 DEF Fetch!FetchDocument, Fetch!TypeOK, Fetch!document
  <2>5. CASE \E d \in Fetch!Ids, u \in Allowed :
               content[d].size <= Fetch!Limit /\ body' = d /\ effective' = u
    <3>1. body' \in Fetch!Ids /\ content[body'].size <= Fetch!Limit /\ content' = content
      BY <2>5 DEF Fetch!FetchDocument
    <3>2. content[body'].size \in Nat
      BY <1>1, <2>1, <3>1 DEF FetchTypes
    <3>3. content'[body'].size <= larger
      BY <2>1, <2>2, <3>1, <3>2
    <3> QED
      BY <2>3, <3>3 DEF Fetch!TypeOK, larger
  <2> QED
    BY <2>4, <2>5 DEF Fetch!FetchDocument
<1>4. FetchTypes'
  BY <1>1 DEF FetchTypes, Fetch!FetchDocument, Fetch!Goes, Fetch!Fail
<1>5. SignatureSound'
  BY <1>1 DEF SignatureSound, FetchTypes, Fetch!FetchDocument, Fetch!Goes, Fetch!Fail, Fetch!document
<1> QED
  BY <1>1, <1>2, <1>3, <1>4, <1>5, NothingAccepted DEF FetchInv

LEMMA FetchSignatureKeeps == FetchInv /\ Fetch!FetchSignature => FetchInv'
<1> SUFFICES ASSUME FetchInv, Fetch!FetchSignature PROVE FetchInv'
  OBVIOUS
<1>1. /\ FetchTypes /\ SignatureSound /\ Fetch!TypeOK /\ Fetch!SelectedIsBest
      /\ result # "ok" /\ result' # "ok" /\ result' \in {"none", "fail"}
      /\ body' = body /\ effective' = effective
  BY DEF FetchInv, FetchTypes, Fetch!FetchSignature, Fetch!Goes, Fetch!Fail, Fetch!TypeOK, Fetch!document
<1>2. Fetch!SelectedIsBest'
  BY <1>1, SelectionStands DEF Fetch!FetchSignature
<1>3. Fetch!TypeOK'
  BY <1>1 DEF Fetch!FetchSignature, Fetch!TypeOK
<1>4. FetchTypes'
  BY <1>1 DEF FetchTypes, Fetch!FetchSignature, Fetch!Goes, Fetch!Fail
<1>5. SignatureSound'
  BY <1>1 DEF SignatureSound, FetchTypes, Fetch!FetchSignature, Fetch!Goes, Fetch!Fail,
     Fetch!signatureUrlFor, Fetch!Verifies
<1> QED
  BY <1>1, <1>2, <1>3, <1>4, <1>5, NothingAccepted DEF FetchInv

LEMMA SelectReleaseKeeps == FetchInv /\ Fetch!SelectRelease => FetchInv'
<1> SUFFICES ASSUME FetchInv, Fetch!SelectRelease PROVE FetchInv'
  OBVIOUS
<1>1. /\ FetchTypes /\ SignatureSound /\ Fetch!TypeOK
      /\ result # "ok" /\ result' # "ok" /\ result' \in {"none", "fail"} /\ pc' \in {"fetch", "done"}
      /\ body' = body /\ effective' = effective /\ pc = "parse"
  BY DEF FetchInv, FetchTypes, Fetch!SelectRelease, Fetch!Goes, Fetch!Fail, Fetch!TypeOK, Fetch!document
<1>2. Fetch!SelectedIsBest'
  <2>1. targets' \in Seq(Fetch!Targets) /\ DOMAIN targets' = 1 .. Len(targets')
    BY DEF Fetch!SelectRelease, Fetch!Indexes
  <2>2. target' = Fetch!selectIndexTarget(targets')
    BY DEF Fetch!SelectRelease
  <2>3. Fetch!Matching' = MatchesIn(targets', Len(targets'))
    BY <2>1 DEF Fetch!Matching, MatchesIn
  <2> DEFINE M == MatchesIn(targets', Len(targets'))
             B == {i \in M : \A j \in M \ {i} : Fetch!Better(targets'[i], targets'[j])}
  <2>4. Fetch!Best' = B
    BY <2>3 DEF Fetch!Best
  <2>5. IF B = {} THEN target' = None ELSE \A i \in B : target' = targets'[i]
    BY <2>1, <2>2, SelectsTheBest
  <2> HIDE DEF B
  <2> QED
    BY <2>4, <2>5 DEF Fetch!SelectedIsBest
<1>3. Fetch!TypeOK'
  BY <1>1 DEF Fetch!SelectRelease, Fetch!TypeOK, Fetch!resolveAndAuthorize
<1>4. FetchTypes'
  BY <1>1 DEF FetchTypes, Fetch!SelectRelease
<1>5. SignatureSound'
  BY <1>1 DEF SignatureSound, Fetch!SelectRelease
<1> QED
  BY <1>1, <1>2, <1>3, <1>4, <1>5, NothingAccepted DEF FetchInv

LEMMA RejectDocumentKeeps == FetchInv /\ Fetch!RejectDocument => FetchInv'
<1> SUFFICES ASSUME FetchInv, Fetch!RejectDocument PROVE FetchInv'
  OBVIOUS
<1>1. /\ FetchTypes /\ SignatureSound /\ Fetch!TypeOK /\ Fetch!SelectedIsBest
      /\ result' = "fail" /\ pc' = "done" /\ body' = body /\ effective' = effective
  BY DEF FetchInv, Fetch!RejectDocument, Fetch!Fail, Fetch!document
<1>2. Fetch!SelectedIsBest'
  BY <1>1, SelectionStands DEF Fetch!RejectDocument
<1>3. Fetch!TypeOK' /\ FetchTypes' /\ SignatureSound'
  BY <1>1 DEF Fetch!RejectDocument, Fetch!TypeOK, FetchTypes, SignatureSound
<1> QED
  BY <1>1, <1>2, <1>3, NothingAccepted DEF FetchInv

(* The only step that accepts: all that is promised of the manifest is     *)
(* known of the document at hand.                                          *)
LEMMA AcceptKeeps == FetchInv /\ Fetch!Accept => FetchInv'
<1> SUFFICES ASSUME FetchInv, Fetch!Accept PROVE FetchInv'
  OBVIOUS
<1>1. /\ FetchTypes /\ SignatureSound /\ Fetch!TypeOK /\ Fetch!SelectedIsBest
      /\ result' \in {"ok", "fail"} /\ pc = "parse" /\ pc' = "done"
      /\ UNCHANGED <<required, content, phase, url, body, effective, signatureUrl, signatureVerified,
                     target, indexed, targets>>
  BY DEF FetchInv, Fetch!Accept, Fetch!Fail, Fetch!document
<1>2. Fetch!SelectedIsBest'
  BY <1>1, SelectionStands
<1>3. Fetch!TypeOK' /\ FetchTypes' /\ SignatureSound'
  BY <1>1 DEF Fetch!TypeOK, FetchTypes, SignatureSound
<1>4. CASE result' # "ok"
  BY <1>1, <1>2, <1>3, <1>4, NothingAccepted DEF FetchInv
<1>5. CASE result' = "ok"
  <2>1. PICK own \in Urls \union {None} :
               /\ Fetch!resolveArtifactBase(own) # None
               /\ envelope' = Fetch!Envelope(Fetch!resolveArtifactBase(own), signatureVerified)
    BY <1>5 DEF Fetch!Accept, Fetch!Fail
  <2>2. Fetch!resolveArtifactBase(own) \in Allowed
    BY <2>1, TargetFacts DEF Fetch!resolveArtifactBase
  <2>3. /\ envelope'.body = body /\ envelope'.source = effective /\ envelope'.verified = signatureVerified
        /\ envelope'.base \in Allowed
    BY <2>1, <2>2 DEF Fetch!Envelope
  <2>4. content[body].size <= MaxManifestBytes
    BY DEF Fetch!Accept, Fetch!IsManifest, Fetch!WithinManifest
  <2>5. Fetch!Authentic' /\ Fetch!FlagMeansVerified' /\ Fetch!SignatureBesideRelease'
    BY <1>1, <2>3 DEF SignatureSound, FetchTypes, Fetch!Authentic, Fetch!FlagMeansVerified, Fetch!SignatureBesideRelease
  <2>6. Fetch!BaseInScope' /\ Fetch!ManifestWithinLimit'
    BY <1>1, <2>3, <2>4 DEF Fetch!BaseInScope, Fetch!ManifestWithinLimit
  <2> QED
    BY <1>2, <1>3, <2>5, <2>6 DEF FetchInv
<1> QED
  BY <1>4, <1>5

(* The fetcher's invariant holds while the subject is the fetcher. *)
LEMMA FetchInvariance == Spec => [](subject = "fetch" => FetchInv)
<1>1. Init => (subject = "fetch" => FetchInv)
  BY FetchStarts DEF Init
<1>2. (subject = "fetch" => FetchInv) /\ [Next]_inputVars => (subject = "fetch" => FetchInv)'
  <2> SUFFICES ASSUME subject = "fetch" => FetchInv, [Next]_inputVars, subject' = "fetch"
               PROVE  FetchInv'
    OBVIOUS
  <2>1. CASE UNCHANGED inputVars
    BY <2>1 DEF inputVars, fetchVars, FetchInv, FetchTypes, SignatureSound, Fetch!TypeOK, Fetch!Authentic,
       Fetch!FlagMeansVerified, Fetch!SignatureBesideRelease, Fetch!BaseInScope,
       Fetch!ManifestWithinLimit, Fetch!SelectedIsBest, Fetch!Best, Fetch!Matching
  <2>2. CASE Fetch!Next /\ subject = "fetch"
    BY <2>2, FetchDocumentKeeps, FetchSignatureKeeps, SelectReleaseKeeps, RejectDocumentKeeps, AcceptKeeps
       DEF Fetch!Next
  <2> QED
    BY <2>1, <2>2 DEF Next
<1> QED
  BY <1>1, <1>2, PTL DEF Spec

(* fetchAndVerifyManifest, for any documents, sizes, limits, URLs and      *)
(* policies, whatever the server answers to each request: the accepted     *)
(* manifest is one the publisher signed where signatures are required,     *)
(* respects its limit, was reached by the one best target of a signed      *)
(* index, and its artifacts lie within the policy's scope.                 *)
THEOREM AcceptedManifestIsTrusted == Spec => []TrustedManifest
<1>1. (subject = "fetch" => FetchInv) => TrustedManifest
  BY DEF FetchInv, TrustedManifest
<1> QED
  BY <1>1, FetchInvariance, PTL

-----------------------------------------------------------------------------
(* The order of versions: Version.cpp. *)

(* Numbers have a least one in every set of them. *)
LEMMA LeastNumber ==
    ASSUME NEW D, D \subseteq Nat, D # {}
    PROVE  \E i \in D : \A j \in D : i <= j
<1> DEFINE R == OpToRel(<, Nat)
<1>1. IsWellFoundedOn(R, Nat)
  BY NatLessThanWellFounded
<1> HIDE DEF R
<1>2. PICK x \in D : \A y \in D : ~ (<<y, x>> \in R)
  BY <1>1, WFMin
<1>3. \A y \in D : ~ (y < x)
  BY <1>2 DEF R, OpToRel
<1> QED
  BY <1>3

(* A strict prefix is shorter and agrees as far as it goes. *)
LEMMA StrictPrefix ==
    ASSUME NEW S, NEW a \in Seq(S), NEW b \in Seq(S)
    PROVE  Order!IsStrictPrefix(a, b) <=> Len(a) < Len(b) /\ \A i \in 1 .. Len(a) : a[i] = b[i]
<1>1. ASSUME Order!IsStrictPrefix(a, b)
      PROVE  Len(a) < Len(b) /\ \A i \in 1 .. Len(a) : a[i] = b[i]
  <2>1. Len(a) <= Len(b) /\ SubSeq(a, 1, Len(a)) = SubSeq(b, 1, Len(a)) /\ a # b
    BY <1>1 DEF Order!IsStrictPrefix, Order!IsPrefix
  <2>2. \A i \in 1 .. Len(a) : a[i] = b[i]
    <3> TAKE i \in 1 .. Len(a)
    <3>1. SubSeq(a, 1, Len(a))[i] = a[i] /\ SubSeq(b, 1, Len(a))[i] = b[i]
      BY <2>1
    <3> QED
      BY <2>1, <3>1
  <2>3. Len(a) # Len(b)
    BY <2>1, <2>2, SeqEqual
  <2> QED
    BY <2>1, <2>2, <2>3
<1>2. ASSUME Len(a) < Len(b), \A i \in 1 .. Len(a) : a[i] = b[i]
      PROVE  Order!IsStrictPrefix(a, b)
  <2>1. SubSeq(a, 1, Len(a)) = SubSeq(b, 1, Len(a))
    <3> DEFINE s == SubSeq(a, 1, Len(a))
               t == SubSeq(b, 1, Len(a))
    <3>1. s \in Seq(S) /\ t \in Seq(S) /\ Len(s) = Len(a) /\ Len(t) = Len(a)
      BY <1>2
    <3>2. \A i \in 1 .. Len(a) : s[i] = a[i] /\ t[i] = b[i]
      BY <1>2
    <3> HIDE DEF s, t
    <3> QED
      BY <1>2, <3>1, <3>2, SeqEqual DEF s, t
  <2> QED
    BY <1>2, <2>1 DEF Order!IsStrictPrefix, Order!IsPrefix
<1> QED
  BY <1>1, <1>2

(* Two sequences are equal, one continues the other, or there is a first   *)
(* place where they differ.                                                *)
DifferFirst(a, b, i) ==
    /\ i \in DOMAIN a \intersect DOMAIN b /\ a[i] # b[i]
    /\ \A j \in 1 .. i - 1 : a[j] = b[j]

LEMMA FirstDifference ==
    ASSUME NEW S, NEW a \in Seq(S), NEW b \in Seq(S)
    PROVE  \/ a = b \/ Order!IsStrictPrefix(a, b) \/ Order!IsStrictPrefix(b, a)
           \/ \E i \in Nat : DifferFirst(a, b, i)
<1> DEFINE D == {i \in DOMAIN a \intersect DOMAIN b : a[i] # b[i]}
<1>1. DOMAIN a = 1 .. Len(a) /\ DOMAIN b = 1 .. Len(b) /\ Len(a) \in Nat /\ Len(b) \in Nat
  OBVIOUS
<1>4. Len(a) = Len(b) \/ Len(a) < Len(b) \/ Len(b) < Len(a)
  <2>1. \A m, n \in Nat : m = n \/ m < n \/ n < m
    OBVIOUS
  <2>2. Len(a) \in Nat /\ Len(b) \in Nat
    OBVIOUS
  <2> QED
    BY <2>1, <2>2, Zenon
<1>2. CASE D = {}
  <2>1. \A i \in Nat : 1 <= i /\ i <= Len(a) /\ i <= Len(b) => a[i] = b[i]
    BY <1>1, <1>2
  <2>2. CASE Len(a) = Len(b)
    <3>1. \A i \in 1 .. Len(a) : a[i] = b[i]
      BY <1>1, <2>1, <2>2
    <3>2. a = b
      BY <2>2, <3>1, SeqEqual
    <3> QED
      BY <3>2
  <2>3. CASE Len(a) < Len(b)
    BY <1>1, <2>1, <2>3, StrictPrefix
  <2>4. CASE Len(b) < Len(a)
    BY <1>1, <2>1, <2>4, StrictPrefix
  <2> QED
    BY <1>4, <2>2, <2>3, <2>4
<1>3. CASE D # {}
  <2>1. D \subseteq Nat
    BY <1>1
  <2> HIDE DEF D
  <2>2. PICK i \in D : \A j \in D : i <= j
    BY <1>3, <2>1, LeastNumber
  <2>3. DifferFirst(a, b, i) /\ i \in Nat
    BY <1>1, <2>1, <2>2 DEF D, DifferFirst
  <2> QED
    BY <2>3
<1> QED
  BY <1>2, <1>3

(* These exclude each other. *)
LEMMA OneDifference ==
    ASSUME NEW S, NEW a \in Seq(S), NEW b \in Seq(S), NEW i \in Nat, DifferFirst(a, b, i)
    PROVE  /\ a # b /\ ~ Order!IsStrictPrefix(a, b) /\ ~ Order!IsStrictPrefix(b, a)
           /\ DifferFirst(b, a, i) /\ i \in 1 .. Len(a) /\ i \in 1 .. Len(b)
           /\ \A k \in DOMAIN a \intersect DOMAIN b :
                (\A j \in 1 .. k - 1 : a[j] = b[j]) /\ k # i => k < i
<1>1. DOMAIN a = 1 .. Len(a) /\ DOMAIN b = 1 .. Len(b) /\ Len(a) \in Nat /\ Len(b) \in Nat
  OBVIOUS
<1>2. i \in 1 .. Len(a) /\ i \in 1 .. Len(b) /\ a[i] # b[i] /\ DifferFirst(b, a, i)
  BY <1>1 DEF DifferFirst
<1> QED
  BY <1>1, <1>2, StrictPrefix DEF DifferFirst

(* Texts are ordered at the first difference. *)
LEMMA TextAtDifference ==
    ASSUME NEW a \in Seq(Nat), NEW b \in Seq(Nat), NEW i \in Nat, DifferFirst(a, b, i)
    PROVE  Order!TextLess(a, b) <=> a[i] < b[i]
<1>1. i \in DOMAIN a \intersect DOMAIN b /\ a[i] \in Nat /\ b[i] \in Nat /\ a[i] # b[i]
      /\ \A j \in 1 .. i - 1 : a[j] = b[j]
  BY DEF DifferFirst
<1>2. ~ Order!IsStrictPrefix(a, b)
  BY OneDifference
<1>3. ASSUME NEW k \in DOMAIN a \intersect DOMAIN b, a[k] < b[k], \A j \in 1 .. k - 1 : a[j] = b[j]
      PROVE  k = i
  <2>1. k \in Nat /\ k >= 1 /\ a[k] \in Nat /\ b[k] \in Nat
    OBVIOUS
  <2>2. a[k] # b[k]
    BY <1>3, <2>1
  <2>3. k # i => k < i
    BY <1>3, OneDifference
  <2> QED
    BY <1>1, <2>1, <2>2, <2>3
<1> QED
  BY <1>1, <1>2, <1>3 DEF Order!TextLess

(* Exactly one of below, equal and above. *)
LEMMA TextTrichotomy ==
    ASSUME NEW a \in Seq(Nat), NEW b \in Seq(Nat)
    PROVE  /\ Order!TextLess(a, b) \/ a = b \/ Order!TextLess(b, a)
           /\ ~ (Order!TextLess(a, b) /\ Order!TextLess(b, a))
           /\ a = b => ~ Order!TextLess(a, b)
<1>1. CASE a = b
  <2>1. ~ Order!IsStrictPrefix(a, b)
    BY <1>1, StrictPrefix
  <2>2. \A i \in DOMAIN a : a[i] \in Nat
    OBVIOUS
  <2>3. ~ Order!TextLess(a, b)
    BY <1>1, <2>1, <2>2 DEF Order!TextLess
  <2> QED
    BY <1>1, <2>3
<1>2. CASE \E i \in Nat : DifferFirst(a, b, i)
  <2>1. PICK i \in Nat : DifferFirst(a, b, i)
    BY <1>2
  <2>2. a[i] \in Nat /\ b[i] \in Nat /\ a[i] # b[i] /\ DifferFirst(b, a, i) /\ a # b
    BY <2>1, OneDifference DEF DifferFirst
  <2>3. (Order!TextLess(a, b) <=> a[i] < b[i]) /\ (Order!TextLess(b, a) <=> b[i] < a[i])
    BY <2>1, <2>2, TextAtDifference
  <2> QED
    BY <2>2, <2>3
<1>3. ASSUME NEW s \in Seq(Nat), NEW t \in Seq(Nat), Order!IsStrictPrefix(s, t)
      PROVE  Order!TextLess(s, t) /\ ~ Order!TextLess(t, s) /\ s # t
  <2>1. Len(s) < Len(t) /\ \A i \in 1 .. Len(s) : s[i] = t[i]
    BY <1>3, StrictPrefix
  <2>2. ~ Order!IsStrictPrefix(t, s)
    BY <2>1, StrictPrefix
  <2>3. \A i \in DOMAIN t \intersect DOMAIN s : s[i] = t[i] /\ s[i] \in Nat
    <3>1. DOMAIN s = 1 .. Len(s)
      OBVIOUS
    <3>2. \A i \in DOMAIN s : s[i] \in Nat
      OBVIOUS
    <3> QED
      BY <2>1, <3>1, <3>2
  <2> QED
    BY <1>3, <2>1, <2>2, <2>3 DEF Order!TextLess
<1> QED
  BY <1>1, <1>2, <1>3, FirstDifference

(* The value of a number's text is computed digit by digit. *)
LEMMA ValueOfFirstDef ==
    ASSUME NEW text, Len(text) \in Nat
    PROVE  Order!ValueOfFirst(text) = [n \in 0 .. Len(text) |->
              IF n = 0 THEN 0 ELSE 10 * Order!ValueOfFirst(text)[n - 1] + text[n] - 1]
<1> DEFINE D(g, m) == g = [n \in 0 .. m |-> IF n = 0 THEN 0 ELSE 10 * g[n - 1] + text[n] - 1]
           S == {m \in Nat : \E g : D(g, m)}
<1>1. 0 \in S
  <2> DEFINE g == [n \in 0 .. 0 |-> 0]
  <2>1. D(g, 0)
    OBVIOUS
  <2> HIDE DEF g
  <2> QED
    BY <2>1
<1>2. ASSUME NEW m \in Nat, m \in S PROVE m + 1 \in S
  <2>1. PICK g : D(g, m)
    BY <1>2
  <2> DEFINE h == [n \in 0 .. m + 1 |-> IF n <= m THEN g[n] ELSE 10 * g[m] + text[n] - 1]
  <2>2. ASSUME NEW n \in 0 .. m + 1
        PROVE  h[n] = IF n = 0 THEN 0 ELSE 10 * h[n - 1] + text[n] - 1
    BY <2>1
  <2>3. h = [n \in 0 .. m + 1 |-> h[n]]
    OBVIOUS
  <2>4. D(h, m + 1)
    BY <2>2, <2>3
  <2> HIDE DEF h
  <2> QED
    BY <2>4
<1>3. Len(text) \in S
  <2> HIDE DEF S
  <2> QED
    BY <1>1, <1>2, SetInduction
<1>4. \E g : D(g, Len(text))
  BY <1>3
<1>5. Order!ValueOfFirst(text) = CHOOSE g : D(g, Len(text))
  BY DEF Order!ValueOfFirst
<1> QED
  BY <1>4, <1>5

(* The values of the beginnings of a number. *)
LEMMA Values ==
    ASSUME NEW text \in Seq(Nat), Order!isNumericIdentifier(text)
    PROVE  LET v == Order!ValueOfFirst(text)
           IN /\ Len(text) \in Nat \ {0} /\ v[0] = 0
              /\ \A n \in Nat : n <= Len(text) => v[n] \in Nat
              /\ \A n \in Nat : n < Len(text) => v[n + 1] = 10 * v[n] + text[n + 1] - 1
              /\ \A n \in 1 .. Len(text) : text[n] \in 1 .. 10
<1> DEFINE v == Order!ValueOfFirst(text)
<1>1. Len(text) \in Nat \ {0} /\ \A n \in 1 .. Len(text) : text[n] \in 1 .. 10
  BY DEF Order!isNumericIdentifier, Order!isAsciiDigit
<1>2. v = [n \in 0 .. Len(text) |-> IF n = 0 THEN 0 ELSE 10 * v[n - 1] + text[n] - 1]
  BY <1>1, ValueOfFirstDef
<1> HIDE DEF v
<1>3. v[0] = 0 /\ \A n \in Nat : n < Len(text) => v[n + 1] = 10 * v[n] + text[n + 1] - 1
  BY <1>1, <1>2
<1>4. \A n \in Nat : n <= Len(text) => v[n] \in Nat
  <2> DEFINE S == {n \in Nat : n <= Len(text) => v[n] \in Nat}
  <2>1. 0 \in S
    BY <1>3
  <2>2. ASSUME NEW n \in Nat, n \in S PROVE n + 1 \in S
    <3>1. CASE n < Len(text)
      <4>1. v[n] \in Nat /\ text[n + 1] \in 1 .. 10 /\ v[n + 1] = 10 * v[n] + text[n + 1] - 1
        BY <1>1, <1>3, <2>2, <3>1
      <4>2. \A x \in Nat, d \in 1 .. 10 : 10 * x + d - 1 \in Nat
        OBVIOUS
      <4>3. v[n + 1] \in Nat
        BY <4>1, <4>2
      <4> QED
        BY <4>3
    <3> QED
      BY <1>1, <3>1
  <2> HIDE DEF S
  <2>3. Nat \subseteq S
    BY <2>1, <2>2, SetInduction
  <2> QED
    BY <2>3 DEF S
<1> QED
  BY <1>1, <1>3, <1>4 DEF v

(* A further digit each does not reverse the order of two numbers. *)
LEMMA FurtherDigits ==
    ASSUME NEW p \in Nat, NEW q \in Nat, p < q, NEW d \in 1 .. 10, NEW e \in 1 .. 10
    PROVE  10 * p + d - 1 < 10 * q + e - 1
  OBVIOUS

(* Once smaller, always smaller: the digits that follow cannot make up for *)
(* a difference before them.                                               *)
LEMMA SmallerStaysSmaller ==
    ASSUME NEW a \in Seq(Nat), NEW b \in Seq(Nat),
           Order!isNumericIdentifier(a), Order!isNumericIdentifier(b),
           NEW k \in Nat, NEW m \in Nat, Len(b) = Len(a) + k, m <= Len(a),
           Order!ValueOfFirst(a)[m] < Order!ValueOfFirst(b)[m + k]
    PROVE  Order!Value(a) < Order!Value(b)
<1> DEFINE v == Order!ValueOfFirst(a)
           w == Order!ValueOfFirst(b)
           S == {n \in Nat : m + n <= Len(a) => v[m + n] < w[m + n + k]}
<1>1. /\ Len(a) \in Nat
      /\ \A n \in Nat : n <= Len(a) => v[n] \in Nat
      /\ \A n \in Nat : n < Len(a) => v[n + 1] = 10 * v[n] + a[n + 1] - 1
      /\ \A n \in 1 .. Len(a) : a[n] \in 1 .. 10
  BY Values
<1>2. /\ Len(b) \in Nat
      /\ \A n \in Nat : n <= Len(b) => w[n] \in Nat
      /\ \A n \in Nat : n < Len(b) => w[n + 1] = 10 * w[n] + b[n + 1] - 1
      /\ \A n \in 1 .. Len(b) : b[n] \in 1 .. 10
  BY Values
<1>0. v[m] < w[m + k]
  OBVIOUS
<1> HIDE DEF v, w
<1>3. 0 \in S
  BY <1>0
<1>4. ASSUME NEW n \in Nat, n \in S PROVE n + 1 \in S
  <2> SUFFICES ASSUME m + (n + 1) <= Len(a) PROVE v[m + (n + 1)] < w[m + (n + 1) + k]
    OBVIOUS
  <2> DEFINE x == m + n
             y == m + n + k
  <2>1. x \in Nat /\ y \in Nat /\ x < Len(a) /\ y < Len(b) /\ x + 1 = m + (n + 1) /\ y + 1 = m + (n + 1) + k
    BY <1>1, <1>2
  <2>2. v[x] < w[y]
    BY <1>1, <1>4
  <2> HIDE DEF x, y
  <2>3. v[x] \in Nat /\ w[y] \in Nat /\ a[x + 1] \in 1 .. 10 /\ b[y + 1] \in 1 .. 10
    <3>0. \A place, length \in Nat : place < length => place + 1 \in 1 .. length /\ place <= length
      OBVIOUS
    <3>1. x + 1 \in 1 .. Len(a) /\ y + 1 \in 1 .. Len(b) /\ x <= Len(a) /\ y <= Len(b)
      BY <1>1, <1>2, <2>1, <3>0
    <3> QED
      BY <1>1, <1>2, <2>1, <3>1
  <2>4. v[x + 1] = 10 * v[x] + a[x + 1] - 1 /\ w[y + 1] = 10 * w[y] + b[y + 1] - 1
    BY <1>1, <1>2, <2>1
  <2>5. v[x + 1] < w[y + 1]
    BY <2>2, <2>3, <2>4, FurtherDigits
  <2> QED
    BY <2>1, <2>5
<1>5. Len(a) - m \in S
  <2>1. Len(a) - m \in Nat
    BY <1>1
  <2> HIDE DEF S
  <2> QED
    BY <1>3, <1>4, <2>1, SetInduction
<1>6. v[Len(a)] < w[Len(b)]
  <2>1. m + (Len(a) - m) = Len(a) /\ m + (Len(a) - m) + k = Len(b)
    BY <1>1
  <2> QED
    BY <1>1, <1>5, <2>1
<1> QED
  BY <1>6 DEF v, w, Order!Value

(* A longer number without a leading zero is larger. *)
LEMMA LongerIsLarger ==
    ASSUME NEW a \in Seq(Nat), NEW b \in Seq(Nat),
           Order!isNumericIdentifier(a), Order!isNumericIdentifier(b), Len(a) < Len(b), b[1] # 1
    PROVE  Order!Value(a) < Order!Value(b)
<1> DEFINE v == Order!ValueOfFirst(a)
           w == Order!ValueOfFirst(b)
           S == {n \in Nat : n + 1 <= Len(b) => w[n + 1] >= 1}
           k == Len(b) - Len(a)
<1>1. Len(a) \in Nat \ {0} /\ v[0] = 0
  BY Values
<1>2. /\ Len(b) \in Nat \ {0} /\ w[0] = 0
      /\ \A n \in Nat : n <= Len(b) => w[n] \in Nat
      /\ \A n \in Nat : n < Len(b) => w[n + 1] = 10 * w[n] + b[n + 1] - 1
      /\ \A n \in 1 .. Len(b) : b[n] \in 1 .. 10
  BY Values
<1> HIDE DEF v, w
<1>3. 0 \in S
  <2>1. b[1] \in 1 .. 10 /\ w[0 + 1] = 10 * w[0] + b[0 + 1] - 1
    BY <1>2
  <2>2. w[0 + 1] >= 1
    BY <1>2, <2>1
  <2> QED
    BY <2>2
<1>4. ASSUME NEW n \in Nat, n \in S PROVE n + 1 \in S
  <2> SUFFICES ASSUME (n + 1) + 1 <= Len(b) PROVE w[(n + 1) + 1] >= 1
    OBVIOUS
  <2>1. w[n + 1] >= 1 /\ w[n + 1] \in Nat /\ b[(n + 1) + 1] \in 1 .. 10
    BY <1>2, <1>4
  <2>2. w[(n + 1) + 1] = 10 * w[n + 1] + b[(n + 1) + 1] - 1
    BY <1>2
  <2> QED
    BY <2>1, <2>2
<1>5. k - 1 \in S
  <2>1. k - 1 \in Nat
    BY <1>1, <1>2
  <2> HIDE DEF S
  <2> QED
    BY <1>3, <1>4, <2>1, SetInduction
<1>6. w[k] >= 1 /\ w[k] \in Nat /\ k \in Nat /\ Len(b) = Len(a) + k
  <2>1. (k - 1) + 1 = k /\ k <= Len(b) /\ k \in Nat
    BY <1>1, <1>2
  <2> QED
    BY <1>1, <1>2, <1>5, <2>1
<1>7. v[0] < w[0 + k]
  BY <1>1, <1>6
<1> QED
  <2>1. 0 \in Nat /\ 0 <= Len(a)
    BY <1>1
  <2> HIDE DEF k
  <2>2. k \in Nat /\ Len(b) = Len(a) + k /\ Order!ValueOfFirst(a)[0] < Order!ValueOfFirst(b)[0 + k]
    BY <1>6, <1>7 DEF v, w
  <2> QED
    BY <2>1, <2>2, SmallerStaysSmaller

(* Of two numbers of one length, the first difference decides. *)
LEMMA DifferenceDecides ==
    ASSUME NEW a \in Seq(Nat), NEW b \in Seq(Nat),
           Order!isNumericIdentifier(a), Order!isNumericIdentifier(b), Len(a) = Len(b),
           Order!TextLess(a, b)
    PROVE  Order!Value(a) < Order!Value(b)
<1> DEFINE v == Order!ValueOfFirst(a)
           w == Order!ValueOfFirst(b)
<1>1. /\ Len(a) \in Nat /\ v[0] = 0
      /\ \A n \in Nat : n <= Len(a) => v[n] \in Nat
      /\ \A n \in Nat : n < Len(a) => v[n + 1] = 10 * v[n] + a[n + 1] - 1
      /\ \A n \in 1 .. Len(a) : a[n] \in 1 .. 10
  BY Values
<1>2. /\ w[0] = 0
      /\ \A n \in Nat : n <= Len(a) => w[n] \in Nat
      /\ \A n \in Nat : n < Len(a) => w[n + 1] = 10 * w[n] + b[n + 1] - 1
      /\ \A n \in 1 .. Len(a) : b[n] \in 1 .. 10
  BY Values
<1> HIDE DEF v, w
<1>3. ~ Order!IsStrictPrefix(a, b)
  BY <1>1, StrictPrefix
<1>4. PICK i \in 1 .. Len(a) : a[i] < b[i] /\ \A j \in 1 .. i - 1 : a[j] = b[j]
  <2>1. DOMAIN a = 1 .. Len(a) /\ DOMAIN b = 1 .. Len(a)
    OBVIOUS
  <2>2. DOMAIN a \intersect DOMAIN b = 1 .. Len(a)
    BY <2>1
  <2> QED
    BY <1>3, <2>2 DEF Order!TextLess
<1> DEFINE S == {n \in Nat : n <= i - 1 => v[n] = w[n]}
<1>5. 0 \in S
  BY <1>1, <1>2
<1>6. ASSUME NEW n \in Nat, n \in S PROVE n + 1 \in S
  <2> SUFFICES ASSUME n + 1 <= i - 1 PROVE v[n + 1] = w[n + 1]
    OBVIOUS
  <2>1. n < Len(a) /\ n + 1 \in 1 .. i - 1 /\ v[n] = w[n]
    BY <1>1, <1>4, <1>6
  <2>2. a[n + 1] = b[n + 1]
    BY <1>4, <2>1
  <2> QED
    BY <1>1, <1>2, <2>1, <2>2
<1>7. i - 1 \in S
  <2>1. i - 1 \in Nat
    BY <1>1
  <2> HIDE DEF S
  <2> QED
    BY <1>5, <1>6, <2>1, SetInduction
<1>8. v[i] < w[i + 0]
  <2>1. i - 1 \in Nat /\ i - 1 < Len(a) /\ (i - 1) + 1 = i /\ i + 0 = i /\ v[i - 1] = w[i - 1]
    BY <1>1, <1>4, <1>7
  <2>2. v[i] = 10 * v[i - 1] + a[i] - 1 /\ w[i] = 10 * w[i - 1] + b[i] - 1 /\ v[i - 1] \in Nat
        /\ a[i] \in 1 .. 10 /\ b[i] \in 1 .. 10
    <3>1. v[(i - 1) + 1] = 10 * v[i - 1] + a[(i - 1) + 1] - 1
      BY <1>1, <2>1
    <3>2. w[(i - 1) + 1] = 10 * w[i - 1] + b[(i - 1) + 1] - 1
      BY <1>2, <2>1
    <3>3. i - 1 <= Len(a)
      BY <1>1, <2>1
    <3>4. v[i - 1] \in Nat /\ a[i] \in 1 .. 10 /\ b[i] \in 1 .. 10
      BY <1>1, <1>2, <2>1, <3>3
    <3> QED
      BY <2>1, <3>1, <3>2, <3>4
  <2> QED
    BY <1>4, <2>1, <2>2
<1>9. i \in Nat /\ i <= Len(a) /\ Len(b) = Len(a) + 0
  BY <1>1, <1>4
<1> QED
  BY <1>8, <1>9, SmallerStaysSmaller DEF v, w

(* What parse leaves of an identifier: not empty, and without a leading    *)
(* zero if it is a number.                                                 *)
Identifier ==
    {t \in Seq(Nat) : t # <<>> /\ (Order!isNumericIdentifier(t) /\ Len(t) > 1 => t[1] # 1)}

(* compareNumericIdentifier, which compares texts, compares values. *)
LEMMA NumbersByValue ==
    ASSUME NEW a \in Identifier, NEW b \in Identifier,
           Order!isNumericIdentifier(a), Order!isNumericIdentifier(b)
    PROVE  LET c == Order!compareNumericIdentifier(a, b)
           IN /\ c \in {-1, 0, 1}
              /\ c < 0 <=> Order!Value(b) > Order!Value(a)
              /\ c > 0 <=> Order!Value(a) > Order!Value(b)
              /\ c = 0 <=> a = b
<1> DEFINE c == Order!compareNumericIdentifier(a, b)
           x == Order!Value(a)
           y == Order!Value(b)
<1> SUFFICES c \in {-1, 0, 1} /\ (c < 0 <=> y > x) /\ (c > 0 <=> x > y) /\ (c = 0 <=> a = b)
  OBVIOUS
<1>1. /\ a \in Seq(Nat) /\ b \in Seq(Nat) /\ Len(a) \in Nat \ {0} /\ Len(b) \in Nat \ {0}
      /\ Len(a) > 1 => a[1] # 1
      /\ Len(b) > 1 => b[1] # 1
  BY DEF Identifier
<1>2. x \in Nat /\ y \in Nat
  BY <1>1, Values DEF Order!Value
<1>3. CASE Len(a) < Len(b)
  <2>1. c = -1 /\ a # b
    BY <1>1, <1>3 DEF Order!compareNumericIdentifier, Order!Sign
  <2>2. x < y
    BY <1>1, <1>3, LongerIsLarger
  <2> HIDE DEF c, x, y
  <2> QED
    BY <1>2, <2>1, <2>2
<1>4. CASE Len(b) < Len(a)
  <2>1. c = 1 /\ a # b
    BY <1>1, <1>4 DEF Order!compareNumericIdentifier, Order!Sign
  <2>2. y < x
    BY <1>1, <1>4, LongerIsLarger
  <2> HIDE DEF c, x, y
  <2> QED
    BY <1>2, <2>1, <2>2
<1>5. CASE Len(a) = Len(b)
  <2>1. c = Order!Sign(Order!TextLess(a, b), Order!TextLess(b, a))
    BY <1>5 DEF Order!compareNumericIdentifier, Order!compareText
  <2>2. (Order!TextLess(a, b) => x < y) /\ (Order!TextLess(b, a) => y < x)
    BY <1>1, <1>5, DifferenceDecides
  <2>3. CASE Order!TextLess(a, b)
    <3>1. c = -1 /\ a # b /\ x < y
      BY <1>1, <2>1, <2>2, <2>3, TextTrichotomy DEF Order!Sign
    <3> HIDE DEF c, x, y
    <3> QED
      BY <1>2, <3>1
  <2>4. CASE Order!TextLess(b, a)
    <3>1. c = 1 /\ a # b /\ y < x
      BY <1>1, <2>1, <2>2, <2>4, TextTrichotomy DEF Order!Sign
    <3> HIDE DEF c, x, y
    <3> QED
      BY <1>2, <3>1
  <2>5. CASE ~ Order!TextLess(a, b) /\ ~ Order!TextLess(b, a)
    <3>1. c = 0 /\ a = b
      BY <1>1, <2>1, <2>5, TextTrichotomy DEF Order!Sign
    <3>2. x = y
      BY <3>1
    <3> HIDE DEF c, x, y
    <3> QED
      BY <1>2, <3>1, <3>2
  <2> QED
    BY <2>3, <2>4, <2>5
<1> QED
  BY <1>1, <1>3, <1>4, <1>5

(* compareIdentifier orders every two identifiers by precedence. *)
LEMMA IdentifiersByPrecedence ==
    ASSUME NEW a \in Identifier, NEW b \in Identifier
    PROVE  LET c == Order!compareIdentifier(a, b)
           IN /\ c \in {-1, 0, 1}
              /\ c < 0 <=> Order!Above(b, a)
              /\ c > 0 <=> Order!Above(a, b)
              /\ c = 0 <=> a = b
<1> DEFINE c == Order!compareIdentifier(a, b)
           A == Order!isNumericIdentifier(a)
           B == Order!isNumericIdentifier(b)
<1> SUFFICES c \in {-1, 0, 1} /\ (c < 0 <=> Order!Above(b, a)) /\ (c > 0 <=> Order!Above(a, b)) /\ (c = 0 <=> a = b)
  OBVIOUS
<1>1. CASE A /\ B
  <2>1. c = Order!compareNumericIdentifier(a, b)
    BY <1>1 DEF Order!compareIdentifier
  <2>2. /\ Order!Above(b, a) <=> Order!Value(b) > Order!Value(a)
        /\ Order!Above(a, b) <=> Order!Value(a) > Order!Value(b)
    BY <1>1 DEF Order!Above
  <2> QED
    BY <1>1, <2>1, <2>2, NumbersByValue
<1>2. CASE A /\ ~ B
  <2>1. c = -1 /\ a # b
    BY <1>2 DEF Order!compareIdentifier
  <2>2. Order!Above(b, a) /\ ~ Order!Above(a, b)
    BY <1>2 DEF Order!Above
  <2> HIDE DEF c
  <2> QED
    BY <2>1, <2>2
<1>3. CASE ~ A /\ B
  <2>1. c = 1 /\ a # b
    BY <1>3 DEF Order!compareIdentifier
  <2>2. Order!Above(a, b) /\ ~ Order!Above(b, a)
    BY <1>3 DEF Order!Above
  <2> HIDE DEF c
  <2> QED
    BY <2>1, <2>2
<1>4. CASE ~ A /\ ~ B
  <2>1. c = Order!Sign(Order!TextLess(a, b), Order!TextLess(b, a))
    <3>1. A = FALSE /\ B = FALSE
      BY <1>4 DEF Order!isNumericIdentifier
    <3> QED
      BY <3>1 DEF Order!compareIdentifier, Order!compareText
  <2>2. (Order!Above(b, a) <=> Order!TextLess(a, b)) /\ (Order!Above(a, b) <=> Order!TextLess(b, a))
    BY <1>4 DEF Order!Above
  <2>3. /\ Order!TextLess(a, b) \/ a = b \/ Order!TextLess(b, a)
        /\ ~ (Order!TextLess(a, b) /\ Order!TextLess(b, a))
        /\ a = b => ~ Order!TextLess(a, b)
        /\ a = b => ~ Order!TextLess(b, a)
    BY TextTrichotomy DEF Identifier
  <2> HIDE DEF c
  <2> QED
    BY <2>1, <2>2, <2>3 DEF Order!Sign
<1> QED
  BY <1>1, <1>2, <1>3, <1>4

(* The precedence of prereleases: a release is above its prereleases, the  *)
(* first difference decides, and what continues is above.                  *)
PrereleaseBelow(a, b) ==
    /\ a # <<>>
    /\ \/ b = <<>> \/ Order!IsStrictPrefix(a, b)
       \/ \E i \in DOMAIN a \intersect DOMAIN b :
            Order!Above(b[i], a[i]) /\ \A j \in 1 .. i - 1 : a[j] = b[j]

(* comparePrerelease is decided at the first difference, if there is one. *)
LEMMA PrereleaseAtDifference ==
    ASSUME NEW a \in Seq(Identifier), NEW b \in Seq(Identifier), NEW i \in Nat, DifferFirst(a, b, i)
    PROVE  /\ Order!comparePrerelease(a, b) = Order!compareIdentifier(a[i], b[i])
           /\ PrereleaseBelow(a, b) <=> Order!Above(b[i], a[i])
<1> DEFINE different == {k \in DOMAIN a \intersect DOMAIN b : Order!compareIdentifier(a[k], b[k]) # 0}
<1>1. \A k \in DOMAIN a \intersect DOMAIN b :
        /\ a[k] \in Identifier /\ b[k] \in Identifier /\ k \in Nat /\ k >= 1
        /\ Order!compareIdentifier(a[k], b[k]) = 0 <=> a[k] = b[k]
        /\ a[k] = b[k] => ~ Order!Above(b[k], a[k])
  <2> TAKE k \in DOMAIN a \intersect DOMAIN b
  <2>1. a[k] \in Identifier /\ b[k] \in Identifier /\ k \in Nat /\ k >= 1
    OBVIOUS
  <2> QED
    BY <2>1, IdentifiersByPrecedence
<1>2. i \in DOMAIN a \intersect DOMAIN b /\ a[i] # b[i] /\ a # <<>> /\ b # <<>>
  BY OneDifference DEF DifferFirst
<1>3. i \in different /\ \A k \in different : i <= k
  <2>1. i \in different
    BY <1>1, <1>2
  <2>2. ASSUME NEW k \in different PROVE i <= k
    <3>1. k \in Nat /\ k >= 1 /\ a[k] # b[k]
      BY <1>1
    <3>2. k \notin 1 .. i - 1
      BY <3>1 DEF DifferFirst
    <3> QED
      BY <3>1, <3>2
  <2> QED
    BY <2>1, <2>2
<1>4. \A k \in different : (\A j \in different : k <= j) => k = i
  BY <1>1, <1>3
<1>5. Order!comparePrerelease(a, b)
        = LET k == CHOOSE k \in different : \A j \in different : k <= j IN Order!compareIdentifier(a[k], b[k])
  BY <1>2, <1>3 DEF Order!comparePrerelease
<1> HIDE DEF different
<1>6. (CHOOSE k \in different : \A j \in different : k <= j) = i
  BY <1>3, <1>4
<1>7. Order!comparePrerelease(a, b) = Order!compareIdentifier(a[i], b[i])
  BY <1>5, <1>6
<1>8. ~ Order!IsStrictPrefix(a, b)
  BY OneDifference
<1>9. ASSUME NEW k \in DOMAIN a \intersect DOMAIN b, Order!Above(b[k], a[k]),
             \A j \in 1 .. k - 1 : a[j] = b[j]
      PROVE  k = i
  <2>1. a[k] # b[k] /\ k \in Nat /\ k >= 1
    BY <1>1, <1>9
  <2>2. k # i => k < i
    BY <1>9, OneDifference
  <2>3. k \notin 1 .. i - 1
    BY <2>1 DEF DifferFirst
  <2> QED
    BY <2>1, <2>2, <2>3
<1>10. PrereleaseBelow(a, b) <=> Order!Above(b[i], a[i])
  BY <1>2, <1>8, <1>9 DEF PrereleaseBelow, DifferFirst
<1> QED
  BY <1>7, <1>10

(* Every two prereleases are ordered, and by precedence. *)
LEMMA PrereleasesByPrecedence ==
    ASSUME NEW a \in Seq(Identifier), NEW b \in Seq(Identifier)
    PROVE  LET c == Order!comparePrerelease(a, b)
               d == Order!comparePrerelease(b, a)
           IN /\ c < 0 <=> PrereleaseBelow(a, b)
              /\ c < 0 \/ a = b \/ d < 0
              /\ ~ (c < 0 /\ d < 0) /\ (a = b => ~ (c < 0))
<1> DEFINE c == Order!comparePrerelease(a, b)
           d == Order!comparePrerelease(b, a)
<1> SUFFICES /\ c < 0 <=> PrereleaseBelow(a, b)
             /\ c < 0 \/ a = b \/ d < 0
             /\ ~ (c < 0 /\ d < 0) /\ (a = b => ~ (c < 0))
  OBVIOUS
<1>1. CASE \E i \in Nat : DifferFirst(a, b, i)
  <2>1. PICK i \in Nat : DifferFirst(a, b, i)
    BY <1>1
  <2>2. DifferFirst(b, a, i) /\ a # b /\ a[i] \in Identifier /\ b[i] \in Identifier
    BY <2>1, OneDifference DEF DifferFirst
  <2>3. c = Order!compareIdentifier(a[i], b[i]) /\ d = Order!compareIdentifier(b[i], a[i])
        /\ (PrereleaseBelow(a, b) <=> Order!Above(b[i], a[i]))
    BY <2>1, <2>2, PrereleaseAtDifference
  <2>4. /\ c \in {-1, 0, 1} /\ (c < 0 <=> Order!Above(b[i], a[i])) /\ (c > 0 <=> Order!Above(a[i], b[i]))
        /\ c # 0
    BY <2>1, <2>2, <2>3, IdentifiersByPrecedence DEF DifferFirst
  <2>5. d < 0 <=> Order!Above(a[i], b[i])
    BY <2>2, <2>3, IdentifiersByPrecedence
  <2> HIDE DEF c, d
  <2> QED
    BY <2>2, <2>3, <2>4, <2>5
<1>2. ASSUME NEW s \in Seq(Identifier), NEW t \in Seq(Identifier),
             \A i \in DOMAIN s \intersect DOMAIN t : s[i] = t[i], s # <<>>, t # <<>>
      PROVE  /\ Order!comparePrerelease(s, t) = Order!Sign(Len(s) < Len(t), Len(s) > Len(t))
             /\ PrereleaseBelow(s, t) <=> Order!IsStrictPrefix(s, t)
  <2> DEFINE different == {k \in DOMAIN s \intersect DOMAIN t : Order!compareIdentifier(s[k], t[k]) # 0}
  <2>1. ASSUME NEW k \in DOMAIN s \intersect DOMAIN t
        PROVE  Order!compareIdentifier(s[k], t[k]) = 0 /\ ~ Order!Above(t[k], s[k])
    <3>1. s[k] \in Identifier /\ t[k] \in Identifier /\ s[k] = t[k]
      BY <1>2
    <3> QED
      BY <3>1, IdentifiersByPrecedence
  <2>2. different = {}
    BY <2>1
  <2> QED
    BY <1>2, <2>1, <2>2 DEF Order!comparePrerelease, PrereleaseBelow
<1>3. ASSUME NEW s \in Seq(Identifier), NEW t \in Seq(Identifier), Order!IsStrictPrefix(s, t), s # <<>>
      PROVE  /\ Order!comparePrerelease(s, t) = -1 /\ Order!comparePrerelease(t, s) = 1
             /\ PrereleaseBelow(s, t) /\ ~ PrereleaseBelow(t, s) /\ s # t
  <2>1. Len(s) < Len(t) /\ Len(s) \in Nat /\ Len(t) \in Nat /\ t # <<>> /\ s # t
        /\ \A i \in DOMAIN s \intersect DOMAIN t : s[i] = t[i]
    <3>1. Len(s) < Len(t) /\ \A i \in 1 .. Len(s) : s[i] = t[i]
      BY <1>3, StrictPrefix
    <3>2. Len(s) \in Nat /\ Len(t) \in Nat /\ DOMAIN s = 1 .. Len(s)
      OBVIOUS
    <3>3. t # <<>> /\ s # t
      BY <3>1, <3>2
    <3> QED
      BY <3>1, <3>2, <3>3
  <2>2. ~ Order!IsStrictPrefix(t, s)
    BY <2>1, StrictPrefix
  <2>3. /\ Order!comparePrerelease(s, t) = Order!Sign(Len(s) < Len(t), Len(s) > Len(t))
        /\ PrereleaseBelow(s, t) <=> Order!IsStrictPrefix(s, t)
    BY <1>2, <1>3, <2>1
  <2>4. /\ Order!comparePrerelease(t, s) = Order!Sign(Len(t) < Len(s), Len(t) > Len(s))
        /\ PrereleaseBelow(t, s) <=> Order!IsStrictPrefix(t, s)
    BY <1>2, <1>3, <2>1
  <2>5. Order!comparePrerelease(s, t) = -1
    BY <2>1, <2>3 DEF Order!Sign
  <2>6. Order!comparePrerelease(t, s) = 1
    BY <2>1, <2>4 DEF Order!Sign
  <2> QED
    BY <1>3, <2>1, <2>2, <2>3, <2>4, <2>5, <2>6
<1>4. CASE a = b
  <2>1. CASE a = <<>>
    <3>1. c = 0 /\ d = 0
      BY <1>4, <2>1 DEF Order!comparePrerelease
    <3>2. ~ PrereleaseBelow(a, b)
      BY <2>1 DEF PrereleaseBelow
    <3> HIDE DEF c, d
    <3> QED
      BY <1>4, <3>1, <3>2
  <2>2. CASE a # <<>>
    <3>1. c = 0 /\ (PrereleaseBelow(a, b) <=> Order!IsStrictPrefix(a, b))
      BY <1>2, <1>4, <2>2 DEF Order!Sign
    <3>2. ~ Order!IsStrictPrefix(a, b)
      BY <1>4, StrictPrefix
    <3> HIDE DEF c, d
    <3> QED
      BY <1>4, <3>1, <3>2
  <2> QED
    BY <2>1, <2>2
<1>5. CASE a = <<>> /\ b # <<>>
  BY <1>5 DEF Order!comparePrerelease, PrereleaseBelow
<1>6. CASE a # <<>> /\ b = <<>>
  BY <1>6 DEF Order!comparePrerelease, PrereleaseBelow
<1>7. CASE a # <<>> /\ b # <<>> /\ Order!IsStrictPrefix(a, b)
  <2>1. c = -1 /\ d = 1 /\ PrereleaseBelow(a, b) /\ a # b
    BY <1>3, <1>7
  <2> HIDE DEF c, d
  <2> QED
    BY <2>1
<1>8. CASE a # <<>> /\ b # <<>> /\ Order!IsStrictPrefix(b, a)
  <2>1. c = 1 /\ d = -1 /\ ~ PrereleaseBelow(a, b) /\ a # b
    BY <1>3, <1>8
  <2> HIDE DEF c, d
  <2> QED
    BY <2>1
<1>9. a = b \/ Order!IsStrictPrefix(a, b) \/ Order!IsStrictPrefix(b, a) \/ \E i \in Nat : DifferFirst(a, b, i)
  BY FirstDifference
<1> QED
  BY <1>1, <1>4, <1>5, <1>6, <1>7, <1>8, <1>9

(* What is known of a parsed version. *)
LEMMA ParsedVersions ==
    ASSUME NEW v \in Order!Parsed
    PROVE  /\ v.core \in Seq(Nat) /\ Len(v.core) = 3 /\ v.core \in [1 .. 3 -> Nat]
           /\ v.prerelease \in Seq(Identifier)
<1>1. v.core \in Cores /\ v.prerelease \in Order!Prereleases /\ Order!validDotIdentifiers(v.prerelease)
  BY DEF Order!Parsed
<1>2. Cores \subseteq [1 .. 3 -> Nat] /\ Identifiers \subseteq Seq(0 .. 11) /\ MaxIdentifiers \in Nat
  BY InputsAssumption DEF Order!VersionAssumption
<1>3. v.core \in Seq(Nat) /\ Len(v.core) = 3 /\ v.core \in [1 .. 3 -> Nat]
  <2>1. v.core \in [1 .. 3 -> Nat]
    BY <1>1, <1>2
  <2>2. v.core \in Seq(Nat)
    <3>1. \E n \in Nat : v.core \in [1 .. n -> Nat]
      BY <2>1
    <3> QED
      BY <3>1
  <2> QED
    BY <2>1, <2>2
<1>4. PICK n \in 0 .. MaxIdentifiers : v.prerelease \in [1 .. n -> Identifiers]
  BY <1>1 DEF Order!Prereleases
<1> DEFINE p == v.prerelease
<1>5. p \in [1 .. n -> Identifiers] /\ n \in Nat
  BY <1>2, <1>4
<1>6. \A i \in 1 .. n : p[i] \in Identifier
  <2> TAKE i \in 1 .. n
  <2>1. p[i] \in Seq(0 .. 11) /\ i \in DOMAIN p
    BY <1>2, <1>5
  <2>2. p[i] \in Seq(Nat)
    BY <2>1
  <2>3. p[i] # <<>> /\ (Order!isNumericIdentifier(p[i]) /\ Len(p[i]) > 1 => p[i][1] # 1)
    BY <1>1, <2>1 DEF Order!validDotIdentifiers
  <2> QED
    BY <2>2, <2>3 DEF Identifier
<1> HIDE DEF p
<1>7. p \in Seq(Identifier)
  BY <1>5, <1>6
<1> QED
  BY <1>3, <1>7 DEF p

(* operator< is the precedence of semantic versions, and with operator==   *)
(* it orders every two versions.                                           *)
LEMMA VersionsByPrecedence ==
    ASSUME NEW v \in Order!Parsed, NEW w \in Order!Parsed
    PROVE  /\ Order!VersionLess(v, w) <=> Order!Precedes(v, w)
           /\ Order!VersionLess(v, w) \/ Order!VersionEqual(v, w) \/ Order!VersionLess(w, v)
           /\ ~ (Order!VersionLess(v, w) /\ Order!VersionLess(w, v))
           /\ Order!VersionEqual(v, w) => ~ Order!VersionLess(v, w)
<1>1. /\ v.core \in Seq(Nat) /\ Len(v.core) = 3 /\ v.prerelease \in Seq(Identifier)
      /\ w.core \in Seq(Nat) /\ Len(w.core) = 3 /\ w.prerelease \in Seq(Identifier)
  BY ParsedVersions
<1>2. CASE v.core = w.core
  <2>1. /\ Order!VersionLess(v, w) <=> Order!comparePrerelease(v.prerelease, w.prerelease) < 0
        /\ Order!VersionLess(w, v) <=> Order!comparePrerelease(w.prerelease, v.prerelease) < 0
        /\ Order!VersionEqual(v, w) <=> v.prerelease = w.prerelease
    BY <1>2 DEF Order!VersionLess, Order!VersionEqual
  <2>2. Order!Precedes(v, w) <=> PrereleaseBelow(v.prerelease, w.prerelease)
    <3>1. \A i \in 1 .. 3 : ~ (v.core[i] < w.core[i])
      BY <1>1, <1>2
    <3> QED
      BY <1>2, <3>1 DEF Order!Precedes, PrereleaseBelow
  <2> QED
    BY <1>1, <2>1, <2>2, PrereleasesByPrecedence
<1>3. CASE v.core # w.core
  <2>1. /\ Order!VersionLess(v, w) <=> Order!TextLess(v.core, w.core)
        /\ Order!VersionLess(w, v) <=> Order!TextLess(w.core, v.core)
        /\ ~ Order!VersionEqual(v, w)
    BY <1>3 DEF Order!VersionLess, Order!VersionEqual
  <2>2. Order!Precedes(v, w) <=> Order!TextLess(v.core, w.core)
    <3>1. ~ Order!IsStrictPrefix(v.core, w.core)
      BY <1>1, StrictPrefix
    <3>2. DOMAIN v.core = 1 .. 3 /\ DOMAIN w.core = 1 .. 3
      BY <1>1
    <3> QED
      BY <1>3, <3>1, <3>2 DEF Order!Precedes, Order!TextLess
  <2> QED
    BY <1>1, <1>3, <2>1, <2>2, TextTrichotomy
<1> QED
  BY <1>2, <1>3

-----------------------------------------------------------------------------
(* The answer that was given stands for the two versions. *)
VersionInv ==
    /\ left \in Order!Parsed /\ right \in Order!Parsed
    /\ Order!ComparesByPrecedence /\ Order!Trichotomy

LEMMA CompareKeeps == VersionInv /\ Order!Compare => VersionInv'
<1> SUFFICES ASSUME VersionInv, Order!Compare PROVE VersionInv'
  OBVIOUS
<1>1. left \in Order!Parsed /\ right \in Order!Parsed /\ left' = left /\ right' = right
  BY DEF VersionInv, Order!Compare
<1>2. /\ compared' \in {"less", "equal", "greater"}
      /\ compared' = "less" => Order!VersionLess(left, right)
      /\ compared' = "equal" => Order!VersionEqual(left, right)
      /\ compared' = "greater" => ~ Order!VersionLess(left, right) /\ ~ Order!VersionEqual(left, right)
  <2>1. CASE Order!VersionLess(left, right)
    BY <1>1, <2>1, VersionsByPrecedence DEF Order!Compare
  <2>2. CASE ~ Order!VersionLess(left, right) /\ Order!VersionEqual(left, right)
    BY <2>2 DEF Order!Compare
  <2>3. CASE ~ Order!VersionLess(left, right) /\ ~ Order!VersionEqual(left, right)
    BY <2>3 DEF Order!Compare
  <2> QED
    BY <2>1, <2>2, <2>3
<1>3. Order!ComparesByPrecedence'
  <2>1. compared' = "less" <=> Order!Precedes(left, right)
    BY <1>1, <1>2, VersionsByPrecedence
  <2>2. compared' # "no"
    BY <1>2
  <2> QED
    BY <1>1, <2>1, <2>2 DEF Order!ComparesByPrecedence
<1>4. Order!Trichotomy'
  BY <1>1, <1>2, VersionsByPrecedence DEF Order!Trichotomy
<1> QED
  BY <1>1, <1>3, <1>4 DEF VersionInv

(* The comparison's invariant holds while the subject is the versions. *)
LEMMA VersionInvariance == Spec => [](subject = "versions" => VersionInv)
<1>1. Init => (subject = "versions" => VersionInv)
  BY DEF Init, Order!Init, VersionInv, Order!ComparesByPrecedence, Order!Trichotomy
<1>2. (subject = "versions" => VersionInv) /\ [Next]_inputVars => (subject = "versions" => VersionInv)'
  <2> SUFFICES ASSUME subject = "versions" => VersionInv, [Next]_inputVars, subject' = "versions"
               PROVE  VersionInv'
    OBVIOUS
  <2>1. CASE UNCHANGED inputVars
    BY <2>1 DEF inputVars, versionVars, VersionInv, Order!ComparesByPrecedence, Order!Trichotomy
  <2>2. CASE Order!Next /\ subject = "versions"
    BY <2>2, CompareKeeps DEF Order!Next
  <2> QED
    BY <2>1, <2>2 DEF Next
<1> QED
  BY <1>1, <1>2, PTL DEF Spec

(* Version's operators, for any cores and any prerelease identifiers of    *)
(* any length: comparing numbers as texts is comparing their values, the   *)
(* order is the precedence of semantic versions, and exactly one of below, *)
(* equal and above holds.                                                  *)
THEOREM VersionsAreOrdered == Spec => []VersionsOrdered
<1>1. (subject = "versions" => VersionInv) => VersionsOrdered
  BY DEF VersionInv, VersionsOrdered
<1> QED
  BY <1>1, VersionInvariance, PTL

-----------------------------------------------------------------------------
(* Sorting, as Manifest.cpp and PathUtil.cpp rely on it. *)

(* Keys are ordered as texts are. *)
LEMMA SameOrder == \A a, b : Manifest!Less(a, b) <=> Order!TextLess(a, b)
  BY DEF Manifest!Less, Order!TextLess, Manifest!IsStrictPrefix, Order!IsStrictPrefix,
     Manifest!IsPrefix, Order!IsPrefix

(* The order place by place. *)
LEMMA LessByPlace ==
    ASSUME NEW a \in Seq(Nat), NEW b \in Seq(Nat)
    PROVE  Manifest!Less(a, b) <=>
             \/ Len(a) < Len(b) /\ \A i \in 1 .. Len(a) : a[i] = b[i]
             \/ \E i \in 1 .. Len(a) :
                  i <= Len(b) /\ a[i] < b[i] /\ \A j \in 1 .. i - 1 : a[j] = b[j]
<1>1. DOMAIN a = 1 .. Len(a) /\ DOMAIN b = 1 .. Len(b) /\ Len(a) \in Nat /\ Len(b) \in Nat
  OBVIOUS
<1>2. DOMAIN a \intersect DOMAIN b = {i \in 1 .. Len(a) : i <= Len(b)}
  BY <1>1
<1>3. Order!IsStrictPrefix(a, b) <=> Len(a) < Len(b) /\ \A i \in 1 .. Len(a) : a[i] = b[i]
  <2>1. ASSUME Order!IsStrictPrefix(a, b)
        PROVE  Len(a) < Len(b) /\ \A i \in 1 .. Len(a) : a[i] = b[i]
    BY <2>1, StrictPrefix
  <2>2. ASSUME Len(a) < Len(b), \A i \in 1 .. Len(a) : a[i] = b[i]
        PROVE  Order!IsStrictPrefix(a, b)
    BY <2>2, StrictPrefix
  <2> QED
    BY <2>1, <2>2
<1> QED
  BY <1>2, <1>3, SameOrder DEF Order!TextLess

LEMMA LessTransitive ==
    ASSUME NEW a \in Seq(Nat), NEW b \in Seq(Nat), NEW c \in Seq(Nat),
           Manifest!Less(a, b), Manifest!Less(b, c)
    PROVE  Manifest!Less(a, c)
<1>1. /\ Len(a) \in Nat /\ Len(b) \in Nat /\ Len(c) \in Nat
      /\ \A i \in 1 .. Len(a) : a[i] \in Nat
      /\ \A i \in 1 .. Len(b) : b[i] \in Nat
      /\ \A i \in 1 .. Len(c) : c[i] \in Nat
  OBVIOUS
<1>2. CASE Len(a) < Len(b) /\ \A i \in 1 .. Len(a) : a[i] = b[i]
  <2>1. CASE Len(b) < Len(c) /\ \A i \in 1 .. Len(b) : b[i] = c[i]
    <3>1. Len(a) < Len(c) /\ \A i \in 1 .. Len(a) : a[i] = c[i]
      BY <1>1, <1>2, <2>1
    <3> QED
      BY <3>1, LessByPlace
  <2>2. ASSUME NEW k \in 1 .. Len(b), k <= Len(c), b[k] < c[k], \A j \in 1 .. k - 1 : b[j] = c[j]
        PROVE  Manifest!Less(a, c)
    <3>1. CASE k <= Len(a)
      <4>1. k \in 1 .. Len(a) /\ a[k] < c[k] /\ \A j \in 1 .. k - 1 : a[j] = c[j]
        BY <1>1, <1>2, <2>2, <3>1
      <4> QED
        BY <2>2, <4>1, LessByPlace
    <3>2. CASE Len(a) < k
      <4>1. Len(a) < Len(c) /\ \A i \in 1 .. Len(a) : a[i] = c[i]
        BY <1>1, <1>2, <2>2, <3>2
      <4> QED
        BY <4>1, LessByPlace
    <3> QED
      BY <1>1, <3>1, <3>2
  <2> QED
    BY <2>1, <2>2, LessByPlace
<1>3. ASSUME NEW i \in 1 .. Len(a), i <= Len(b), a[i] < b[i], \A j \in 1 .. i - 1 : a[j] = b[j]
      PROVE  Manifest!Less(a, c)
  <2>1. CASE Len(b) < Len(c) /\ \A k \in 1 .. Len(b) : b[k] = c[k]
    <3>1. i <= Len(c) /\ a[i] < c[i] /\ \A j \in 1 .. i - 1 : a[j] = c[j]
      BY <1>1, <1>3, <2>1
    <3> QED
      BY <3>1, LessByPlace
  <2>2. ASSUME NEW k \in 1 .. Len(b), k <= Len(c), b[k] < c[k], \A j \in 1 .. k - 1 : b[j] = c[j]
        PROVE  Manifest!Less(a, c)
    <3>1. CASE k < i
      <4>1. k \in 1 .. Len(a) /\ k <= Len(c) /\ a[k] < c[k] /\ \A j \in 1 .. k - 1 : a[j] = c[j]
        <5>1. k \in 1 .. i - 1 /\ k \in 1 .. Len(a) /\ \A j \in 1 .. k - 1 : j \in 1 .. i - 1
          BY <1>1, <3>1
        <5>2. a[k] = b[k]
          BY <1>3, <5>1
        <5>3. \A j \in 1 .. k - 1 : a[j] = c[j]
          BY <1>3, <2>2, <5>1
        <5> QED
          BY <2>2, <5>1, <5>2, <5>3
      <4> QED
        BY <4>1, LessByPlace
    <3>2. CASE i <= k
      <4>3. i <= Len(c) /\ i \in 1 .. Len(b) /\ i \in 1 .. Len(c)
        BY <1>1, <1>3, <2>2, <3>2
      <4>4. a[i] \in Nat /\ b[i] \in Nat /\ c[i] \in Nat
        BY <1>1, <4>3
      <4>5. b[i] <= c[i]
        <5>1. CASE i = k
          BY <2>2, <4>4, <5>1
        <5>2. CASE i # k
          <6>1. i \in 1 .. k - 1
            BY <3>2, <5>2
          <6> QED
            BY <2>2, <4>4, <6>1
        <5> QED
          BY <5>1, <5>2
      <4>6. a[i] < b[i]
        BY <1>3
      <4>8. \A x, y, z \in Nat : x < y /\ y <= z => x < z
        OBVIOUS
      <4>1. i <= Len(c) /\ a[i] < c[i]
        BY <4>3, <4>4, <4>5, <4>6, <4>8, Zenon
      <4>2. \A j \in 1 .. i - 1 : a[j] = c[j]
        <5> TAKE j \in 1 .. i - 1
        <5>1. j \in 1 .. k - 1
          BY <3>2
        <5>2. a[j] = b[j]
          BY <1>3
        <5>3. b[j] = c[j]
          BY <2>2, <5>1
        <5> QED
          BY <5>2, <5>3
      <4>7. \E x \in 1 .. Len(a) :
               x <= Len(c) /\ a[x] < c[x] /\ \A j \in 1 .. x - 1 : a[j] = c[j]
        BY <4>1, <4>2
      <4> QED
        BY <4>7, LessByPlace
    <3> QED
      BY <1>1, <3>1, <3>2
  <2> QED
    BY <2>1, <2>2, LessByPlace
<1> QED
  BY <1>2, <1>3, LessByPlace

(* At most: a total order. *)
AtMost(a, b) == Manifest!Less(a, b) \/ a = b

LEMMA AtMostTotal ==
    ASSUME NEW a \in Seq(Nat), NEW b \in Seq(Nat)
    PROVE  /\ AtMost(a, b) \/ AtMost(b, a)
           /\ AtMost(a, b) /\ AtMost(b, a) => a = b
           /\ ~ (Manifest!Less(a, b) /\ AtMost(b, a))
  BY TextTrichotomy, SameOrder DEF AtMost

LEMMA AtMostTransitive ==
    ASSUME NEW a \in Seq(Nat), NEW b \in Seq(Nat), NEW c \in Seq(Nat), AtMost(a, b), AtMost(b, c)
    PROVE  AtMost(a, c)
  BY LessTransitive DEF AtMost

(* Some key is the last of all. *)
LEMMA LastKey ==
    ASSUME NEW n \in Nat, NEW s \in [1 .. n + 1 -> Seq(Nat)]
    PROVE  \E m \in 1 .. n + 1 : \A i \in 1 .. n + 1 : AtMost(s[i], s[m])
<1> DEFINE S == {k \in Nat : k <= n => \E m \in 1 .. k + 1 : \A i \in 1 .. k + 1 : AtMost(s[i], s[m])}
<1>1. 0 \in S
  <2>1. 1 \in 1 .. 0 + 1 /\ \A i \in 1 .. 0 + 1 : AtMost(s[i], s[1])
    BY DEF AtMost
  <2> QED
    BY <2>1
<1>2. ASSUME NEW k \in Nat, k \in S PROVE k + 1 \in S
  <2> SUFFICES ASSUME k + 1 <= n
               PROVE  \E m \in 1 .. (k + 1) + 1 : \A i \in 1 .. (k + 1) + 1 : AtMost(s[i], s[m])
    OBVIOUS
  <2>1. PICK m \in 1 .. k + 1 : \A i \in 1 .. k + 1 : AtMost(s[i], s[m])
    BY <1>2
  <2> DEFINE l == (k + 1) + 1
  <2>2. l \in 1 .. n + 1 /\ 1 .. l = (1 .. k + 1) \union {l} /\ 1 .. k + 1 \subseteq 1 .. n + 1
    OBVIOUS
  <2> HIDE DEF l
  <2>3. \A i \in 1 .. l : s[i] \in Seq(Nat)
    BY <2>2
  <2>4. s[m] \in Seq(Nat) /\ s[l] \in Seq(Nat) /\ m \in 1 .. l /\ l \in 1 .. l
    BY <2>2
  <2>5. CASE AtMost(s[l], s[m])
    BY <2>1, <2>2, <2>4, <2>5 DEF l
  <2>6. CASE AtMost(s[m], s[l])
    <3>1. \A i \in 1 .. l : AtMost(s[i], s[l])
      <4> TAKE i \in 1 .. l
      <4>1. CASE i = l
        BY <4>1 DEF AtMost
      <4>2. CASE i \in 1 .. k + 1
        BY <2>1, <2>3, <2>4, <2>6, <4>2, AtMostTransitive
      <4> QED
        BY <2>2, <4>1, <4>2
    <3> QED
      BY <2>4, <3>1 DEF l
  <2> QED
    BY <2>4, <2>5, <2>6, AtMostTotal
<1>3. n \in S
  <2> HIDE DEF S
  <2> QED
    BY <1>1, <1>2, SetInduction
<1> QED
  BY <1>3

(* A permutation of the first n numbers. *)
Shuffles(n) ==
    {q \in [1 .. n -> 1 .. n] : (\A i, j \in 1 .. n : q[i] = q[j] => i = j)
                                /\ \A k \in 1 .. n : \E i \in 1 .. n : q[i] = k}
Sorts(q, s, n) == \A i, j \in 1 .. n : i < j => AtMost(s[q[i]], s[q[j]])

(* Any keys can be sorted: the last one goes to the end, and the rest can  *)
(* be sorted.                                                              *)
LEMMA SortOneMore ==
    ASSUME NEW n \in Nat, NEW s \in [1 .. n + 1 -> Seq(Nat)],
           \A t \in [1 .. n -> Seq(Nat)] : \E q \in Shuffles(n) : Sorts(q, t, n)
    PROVE  \E q \in Shuffles(n + 1) : Sorts(q, s, n + 1)
<1>1. PICK m \in 1 .. n + 1 : \A i \in 1 .. n + 1 : AtMost(s[i], s[m])
  BY LastKey
<1> DEFINE t == [i \in 1 .. n |-> IF i = m THEN s[n + 1] ELSE s[i]]
<1>2. t \in [1 .. n -> Seq(Nat)]
  OBVIOUS
<1>3. PICK q \in Shuffles(n) : Sorts(q, t, n)
  <2> HIDE DEF t
  <2> QED
    BY <1>2
<1> DEFINE p == [i \in 1 .. n + 1 |-> IF i = n + 1 THEN m ELSE IF q[i] = m THEN n + 1 ELSE q[i]]
<1>4. /\ \A i \in 1 .. n : q[i] \in 1 .. n
      /\ \A i, j \in 1 .. n : q[i] = q[j] => i = j
      /\ \A k \in 1 .. n : \E i \in 1 .. n : q[i] = k
  BY DEF Shuffles
<1>5. /\ p[n + 1] = m
      /\ \A i \in 1 .. n : p[i] = IF q[i] = m THEN n + 1 ELSE q[i]
      /\ \A i \in 1 .. n + 1 : i # n + 1 => i \in 1 .. n
      /\ p \in [1 .. n + 1 -> 1 .. n + 1]
  <2>1. \A i \in 1 .. n + 1 : i # n + 1 => i \in 1 .. n
    OBVIOUS
  <2>2. n + 1 \in 1 .. n + 1 /\ \A i \in 1 .. n : i \in 1 .. n + 1 /\ i # n + 1
    OBVIOUS
  <2>3. p[n + 1] = m
    BY <2>2
  <2>4. \A i \in 1 .. n : p[i] = IF q[i] = m THEN n + 1 ELSE q[i]
    BY <2>2
  <2>5. ASSUME NEW i \in 1 .. n + 1 PROVE p[i] \in 1 .. n + 1
    <3>1. CASE i = n + 1
      BY <2>3, <3>1
    <3>2. CASE i # n + 1
      <4>1. q[i] \in 1 .. n + 1
        BY <1>4, <2>1, <2>2, <3>2
      <4> QED
        BY <2>1, <2>2, <2>4, <3>2, <4>1
    <3> QED
      BY <3>1, <3>2
  <2>6. p \in [1 .. n + 1 -> 1 .. n + 1]
    BY <2>5
  <2> QED
    BY <2>1, <2>3, <2>4, <2>6
<1> HIDE DEF p
<1>6. \A i \in 1 .. n : s[p[i]] = t[q[i]]
  BY <1>4, <1>5
<1>7. \A i, j \in 1 .. n + 1 : p[i] = p[j] => i = j
  <2>0. \A x \in 1 .. n : x # n + 1
    OBVIOUS
  <2>1. \A i \in 1 .. n : p[i] # m
    BY <1>4, <1>5, <2>0
  <2>2. \A i, j \in 1 .. n : p[i] = p[j] => q[i] = q[j]
    BY <1>4, <1>5, <2>0
  <2> QED
    BY <1>4, <1>5, <2>1, <2>2
<1>8. \A k \in 1 .. n + 1 : \E i \in 1 .. n + 1 : p[i] = k
  <2> TAKE k \in 1 .. n + 1
  <2>1. CASE k = m
    BY <1>5, <2>1
  <2>2. CASE k # m /\ k = n + 1
    <3>1. m \in 1 .. n
      BY <2>2
    <3>2. PICK i \in 1 .. n : q[i] = m
      BY <1>4, <3>1
    <3>3. i \in 1 .. n + 1
      OBVIOUS
    <3>4. p[i] = k
      BY <1>5, <2>2, <3>2
    <3> QED
      BY <3>3, <3>4
  <2>3. CASE k # m /\ k # n + 1
    <3>1. k \in 1 .. n
      BY <2>3
    <3>2. PICK i \in 1 .. n : q[i] = k
      BY <1>4, <3>1
    <3>3. i \in 1 .. n + 1
      OBVIOUS
    <3>4. p[i] = k
      BY <1>5, <2>3, <3>2
    <3> QED
      BY <3>3, <3>4
  <2> QED
    BY <2>1, <2>2, <2>3
<1>9. p \in Shuffles(n + 1)
  BY <1>5, <1>7, <1>8 DEF Shuffles
<1>10. Sorts(p, s, n + 1)
  <2> SUFFICES ASSUME NEW i \in 1 .. n + 1, NEW j \in 1 .. n + 1, i < j
               PROVE  AtMost(s[p[i]], s[p[j]])
    BY DEF Sorts
  <2>1. CASE j = n + 1
    BY <1>1, <1>5, <2>1
  <2>2. CASE j # n + 1
    <3>1. i \in 1 .. n /\ j \in 1 .. n
      BY <2>2
    <3>2. AtMost(t[q[i]], t[q[j]])
      BY <1>3, <3>1 DEF Sorts
    <3> QED
      BY <1>6, <3>1, <3>2
  <2> QED
    BY <2>1, <2>2
<1> QED
  BY <1>9, <1>10

LEMMA SortExists ==
    ASSUME NEW n \in Nat, NEW s \in [1 .. n -> Seq(Nat)]
    PROVE  \E q \in Shuffles(n) : Sorts(q, s, n)
<1> DEFINE S == {k \in Nat : \A t \in [1 .. k -> Seq(Nat)] : \E q \in Shuffles(k) : Sorts(q, t, k)}
<1>1. 0 \in S
  <2> DEFINE q == [i \in 1 .. 0 |-> i]
  <2>1. 1 .. 0 = {}
    OBVIOUS
  <2>2. q \in Shuffles(0) /\ \A t : Sorts(q, t, 0)
    BY <2>1 DEF Shuffles, Sorts
  <2> HIDE DEF q
  <2> QED
    BY <2>2
<1>2. ASSUME NEW k \in Nat, k \in S PROVE k + 1 \in S
  <2>1. ASSUME NEW t \in [1 .. k + 1 -> Seq(Nat)]
        PROVE  \E q \in Shuffles(k + 1) : Sorts(q, t, k + 1)
    BY <1>2, SortOneMore
  <2> QED
    BY <2>1
<1>3. n \in S
  <2> HIDE DEF S
  <2> QED
    BY <1>1, <1>2, SetInduction
<1> QED
  BY <1>3

(* Sorted answers with the same keys, in order: there is a permutation, as *)
(* sorting is always possible.                                             *)
LEMMA SortedKeys ==
    ASSUME NEW n \in Nat, NEW keys \in [1 .. n -> Seq(Nat)]
    PROVE  \E q \in Shuffles(n) :
             Manifest!Sorted(keys) = [i \in 1 .. n |-> keys[q[i]]] /\ Sorts(q, keys, n)
<1> DEFINE B == Manifest!Bijection(DOMAIN keys, DOMAIN keys)
           P(q) == Manifest!Ascending(Manifest!Permuted(keys, q))
           q0 == CHOOSE q \in B : P(q)
<1>1. DOMAIN keys = 1 .. n
  OBVIOUS
<1>2. B = Shuffles(n)
  BY <1>1 DEF Shuffles, Manifest!Bijection, Manifest!Injection, Manifest!Surjection, Manifest!IsInjective
<1>3. \A q \in B : P(q) <=> Sorts(q, keys, n)
  <2> TAKE q \in B
  <2>1. \A i \in 1 .. n : Manifest!Permuted(keys, q)[i] = keys[q[i]]
    BY <1>1 DEF Manifest!Permuted
  <2>2. DOMAIN Manifest!Permuted(keys, q) = 1 .. n
    BY <1>1 DEF Manifest!Permuted
  <2> QED
    BY <2>1, <2>2 DEF Manifest!Ascending, Sorts, AtMost
<1>4. \E q \in B : P(q)
  <2> HIDE DEF B, P
  <2> QED
    BY <1>2, <1>3, SortExists
<1>5. q0 \in B /\ P(q0)
  <2> HIDE DEF B, P
  <2> QED
    BY <1>4
<1>6. Manifest!Sorted(keys) = [i \in 1 .. n |-> keys[q0[i]]]
  BY <1>1 DEF Manifest!Sorted, Manifest!Permuted
<1> HIDE DEF B, P, q0
<1> QED
  BY <1>2, <1>3, <1>5, <1>6

(* The keys of a map, in order. *)
LEMMA MapKeys ==
    ASSUME NEW keys, IsFiniteSet(keys), keys \subseteq Seq(Nat)
    PROVE  \E n \in Nat : LET s == Manifest!InOrder(keys) IN
             /\ s \in [1 .. n -> keys]
             /\ \A i, j \in 1 .. n : s[i] = s[j] => i = j
             /\ \A k \in keys : \E i \in 1 .. n : s[i] = k
             /\ \A i, j \in 1 .. n : i < j => AtMost(s[i], s[j])
<1> DEFINE n == Manifest!Cardinality(keys)
           B == Manifest!Bijection(1 .. n, keys)
           s0 == Manifest!InOrder(keys)
<1>1. n = Cardinality(keys)
  BY DEF Cardinality, Manifest!Cardinality
<1>2. n \in Nat /\ ExistsBijection(1 .. n, keys)
  BY <1>1, FS_CardinalityType
<1> HIDE DEF n
<1>3. PICK f \in [1 .. n -> keys] :
             /\ \A i, j \in 1 .. n : f[i] = f[j] => i = j
             /\ \A k \in keys : \E i \in 1 .. n : f[i] = k
  BY <1>2 DEF ExistsBijection, Bijection, Injection, Surjection, IsInjective
<1>4. PICK q \in Shuffles(n) : Sorts(q, f, n)
  <2>1. f \in [1 .. n -> Seq(Nat)]
    OBVIOUS
  <2> QED
    BY <1>2, <2>1, SortExists
<1> DEFINE g == [i \in 1 .. n |-> f[q[i]]]
<1>5. /\ \A i \in 1 .. n : q[i] \in 1 .. n
      /\ \A i, j \in 1 .. n : q[i] = q[j] => i = j
      /\ \A k \in 1 .. n : \E i \in 1 .. n : q[i] = k
  BY DEF Shuffles
<1>6. g \in B
  <2>1. g \in [1 .. n -> keys]
    BY <1>5
  <2>2. \A i, j \in 1 .. n : g[i] = g[j] => i = j
    BY <1>3, <1>5
  <2>3. \A k \in keys : \E i \in 1 .. n : g[i] = k
    <3> TAKE k \in keys
    <3>1. PICK j \in 1 .. n : f[j] = k
      BY <1>3
    <3>2. PICK i \in 1 .. n : q[i] = j
      BY <1>5
    <3> QED
      BY <3>1, <3>2
  <2> HIDE DEF g
  <2> QED
    BY <2>1, <2>2, <2>3 DEF Manifest!Bijection, Manifest!Injection, Manifest!Surjection, Manifest!IsInjective
<1>7. Manifest!Ascending(g)
  BY <1>4 DEF Manifest!Ascending, Sorts, AtMost
<1>8. s0 = CHOOSE s \in B : Manifest!Ascending(s)
  BY DEF Manifest!InOrder, n
<1>9. s0 \in B /\ Manifest!Ascending(s0)
  <2> HIDE DEF B, g, s0
  <2> QED
    BY <1>6, <1>7, <1>8
<1> HIDE DEF s0, g
<1>10. /\ s0 \in [1 .. n -> keys]
       /\ \A i, j \in 1 .. n : s0[i] = s0[j] => i = j
       /\ \A k \in keys : \E i \in 1 .. n : s0[i] = k
  BY <1>9 DEF Manifest!Bijection, Manifest!Injection, Manifest!Surjection, Manifest!IsInjective
<1>11. \A i, j \in 1 .. n : i < j => AtMost(s0[i], s0[j])
  BY <1>9, <1>10 DEF Manifest!Ascending, AtMost
<1> QED
  BY <1>2, <1>10, <1>11 DEF s0

(* A prefix that ends with a given character, place by place. *)
LEMMA PrefixByPlace ==
    ASSUME NEW a \in Seq(Nat), NEW b \in Seq(Nat), NEW c \in Nat
    PROVE  Manifest!IsPrefix(Append(a, c), b) <=>
             Len(a) < Len(b) /\ b[Len(a) + 1] = c /\ \A i \in 1 .. Len(a) : a[i] = b[i]
<1> DEFINE e == Append(a, c)
<1>1. /\ e \in Seq(Nat) /\ Len(e) = Len(a) + 1 /\ e[Len(a) + 1] = c /\ Len(a) \in Nat /\ Len(b) \in Nat
      /\ \A i \in 1 .. Len(a) : e[i] = a[i]
  OBVIOUS
<1> HIDE DEF e
<1>2. ASSUME Manifest!IsPrefix(e, b)
      PROVE  Len(a) < Len(b) /\ b[Len(a) + 1] = c /\ \A i \in 1 .. Len(a) : a[i] = b[i]
  <2>1. Len(e) <= Len(b) /\ SubSeq(e, 1, Len(e)) = SubSeq(b, 1, Len(e))
    BY <1>2 DEF Manifest!IsPrefix
  <2>2. \A i \in 1 .. Len(e) : e[i] = b[i]
    <3> TAKE i \in 1 .. Len(e)
    <3>1. SubSeq(e, 1, Len(e))[i] = e[i] /\ SubSeq(b, 1, Len(e))[i] = b[i]
      BY <1>1, <2>1
    <3> QED
      BY <2>1, <3>1
  <2>3. Len(a) < Len(b) /\ Len(a) + 1 \in 1 .. Len(e) /\ \A i \in 1 .. Len(a) : i \in 1 .. Len(e)
    BY <1>1, <2>1
  <2>4. b[Len(a) + 1] = c
    BY <1>1, <2>2, <2>3
  <2>5. \A i \in 1 .. Len(a) : a[i] = b[i]
    BY <1>1, <2>2, <2>3
  <2> QED
    BY <2>3, <2>4, <2>5
<1>3. ASSUME Len(a) < Len(b), b[Len(a) + 1] = c, \A i \in 1 .. Len(a) : a[i] = b[i]
      PROVE  Manifest!IsPrefix(e, b)
  <2> DEFINE s == SubSeq(e, 1, Len(e))
             t == SubSeq(b, 1, Len(e))
  <2>1. Len(e) <= Len(b) /\ \A i \in 1 .. Len(e) : e[i] = b[i]
    <3>1. Len(e) <= Len(b) /\ \A i \in 1 .. Len(e) : i = Len(a) + 1 \/ i \in 1 .. Len(a)
      BY <1>1, <1>3
    <3> QED
      BY <1>1, <1>3, <3>1
  <2>5. Len(e) \in Nat /\ Len(e) <= Len(b) /\ Len(b) \in Nat /\ e \in Seq(Nat)
    BY <1>1, <2>1
  <2>6. s \in Seq(Nat) /\ Len(s) = Len(e)
    BY <2>5
  <2>7. t \in Seq(Nat) /\ Len(t) = Len(e)
    BY <2>5
  <2>2. s \in Seq(Nat) /\ t \in Seq(Nat) /\ Len(s) = Len(e) /\ Len(t) = Len(e)
    BY <2>6, <2>7
  <2>3. \A i \in 1 .. Len(e) : s[i] = e[i] /\ t[i] = b[i]
    BY <1>1, <2>1
  <2> HIDE DEF s, t
  <2>4. s = t
    BY <2>1, <2>2, <2>3, SeqEqual
  <2> QED
    BY <2>1, <2>4 DEF Manifest!IsPrefix, s, t
<1> QED
  BY <1>2, <1>3 DEF e

(* What lies between a key and one below it lies below it too: the         *)
(* separator is before all characters.                                     *)
LEMMA BetweenFollows ==
    ASSUME NEW a \in Seq(Nat), NEW b \in Seq(Nat), NEW x \in Seq(Nat),
           Manifest!Less(a, x), AtMost(x, b), Manifest!Follows(a, b, 0)
    PROVE  Manifest!Follows(a, x, 0)
<1>1. /\ Len(a) \in Nat /\ Len(b) \in Nat /\ Len(x) \in Nat
      /\ \A i \in 1 .. Len(a) : a[i] \in Nat
      /\ \A i \in 1 .. Len(b) : b[i] \in Nat
      /\ \A i \in 1 .. Len(x) : x[i] \in Nat
  OBVIOUS
<1>2. Len(a) < Len(b) /\ b[Len(a) + 1] = 0 /\ \A i \in 1 .. Len(a) : a[i] = b[i]
  BY PrefixByPlace DEF Manifest!Follows
<1>3. ~ Manifest!Less(b, x)
  BY AtMostTotal DEF AtMost
<1>4. CASE Len(a) < Len(x) /\ \A i \in 1 .. Len(a) : a[i] = x[i]
  <2> DEFINE l == Len(a) + 1
  <2>1. l \in 1 .. Len(b) /\ l <= Len(x) /\ l \in 1 .. Len(x) /\ b[l] = 0 /\ x[l] \in Nat
        /\ \A j \in 1 .. l - 1 : b[j] = x[j]
    BY <1>1, <1>2, <1>4
  <2> HIDE DEF l
  <2>2. x[l] = 0
    <3>1. ~ (b[l] < x[l])
      BY <1>3, <2>1, LessByPlace
    <3> QED
      BY <2>1, <3>1
  <2>3. x[Len(a) + 1] = 0
    BY <2>2 DEF l
  <2> QED
    BY <1>4, <2>3, PrefixByPlace DEF Manifest!Follows
<1>5. ASSUME NEW i \in 1 .. Len(a), i <= Len(x), a[i] < x[i], \A j \in 1 .. i - 1 : a[j] = x[j]
      PROVE  FALSE
  <2>1. i \in 1 .. Len(b) /\ b[i] < x[i] /\ \A j \in 1 .. i - 1 : b[j] = x[j]
    <3>1. i \in 1 .. Len(b) /\ \A j \in 1 .. i - 1 : j \in 1 .. Len(a)
      BY <1>1, <1>2
    <3>2. a[i] = b[i] /\ \A j \in 1 .. i - 1 : a[j] = b[j]
      BY <1>2, <3>1
    <3> QED
      BY <1>5, <3>1, <3>2
  <2> QED
    BY <1>3, <1>5, <2>1, LessByPlace
<1> QED
  BY <1>4, <1>5, LessByPlace

(* Looking at neighbours is enough: no key among sorted different ones     *)
(* lies below another if none lies below the one before it.                *)
LEMMA NeighboursSuffice ==
    ASSUME NEW n \in Nat, NEW k \in [1 .. n -> Seq(Nat)],
           \A i, j \in 1 .. n : i < j => AtMost(k[i], k[j]),
           \A i, j \in 1 .. n : k[i] = k[j] => i = j,
           \A i \in 2 .. n : ~ Manifest!Follows(k[i - 1], k[i], 0),
           NEW i \in 1 .. n, NEW j \in 1 .. n
    PROVE  ~ Manifest!Follows(k[i], k[j], 0)
<1> SUFFICES ASSUME Manifest!Follows(k[i], k[j], 0) PROVE FALSE
  OBVIOUS
<1>1. k[i] \in Seq(Nat) /\ k[j] \in Seq(Nat)
  OBVIOUS
<1>2. Manifest!Less(k[i], k[j])
  BY <1>1, PrefixByPlace, LessByPlace DEF Manifest!Follows
<1>3. i < j
  <2>1. i # j
    BY <1>1, <1>2, AtMostTotal DEF AtMost
  <2>2. ~ (j < i)
    BY <1>1, <1>2, AtMostTotal
  <2> QED
    BY <2>1, <2>2
<1>4. i + 1 \in 1 .. n /\ i + 1 \in 2 .. n /\ (i + 1) - 1 = i /\ i < i + 1
  BY <1>3
<1>5. ~ Manifest!Follows(k[i], k[i + 1], 0)
  BY <1>4
<1>6. k[i + 1] \in Seq(Nat) /\ AtMost(k[i], k[i + 1]) /\ k[i] # k[i + 1]
  BY <1>4
<1>7. i + 1 = j \/ i + 1 < j
  BY <1>3
<1>8. AtMost(k[i + 1], k[j])
  BY <1>4, <1>7 DEF AtMost
<1> QED
  BY <1>1, <1>5, <1>6, <1>8, BetweenFollows DEF AtMost

(* Two equal keys among sorted ones would be neighbours. *)
LEMMA DifferentNeighbours ==
    ASSUME NEW n \in Nat, NEW k \in [1 .. n -> Seq(Nat)],
           \A i, j \in 1 .. n : i < j => AtMost(k[i], k[j]),
           \A i \in 2 .. n : k[i - 1] # k[i]
    PROVE  \A i, j \in 1 .. n : k[i] = k[j] => i = j
<1>1. ASSUME NEW i \in 1 .. n, NEW j \in 1 .. n, i < j PROVE k[i] # k[j]
  <2>1. i + 1 \in 1 .. n /\ i + 1 \in 2 .. n /\ (i + 1) - 1 = i /\ i < i + 1 /\ (i + 1 = j \/ i + 1 < j)
    BY <1>1
  <2>2. k[i] # k[i + 1] /\ AtMost(k[i], k[i + 1]) /\ k[i] \in Seq(Nat) /\ k[i + 1] \in Seq(Nat)
    BY <2>1
  <2>3. AtMost(k[i + 1], k[j])
    BY <2>1 DEF AtMost
  <2> QED
    BY <2>2, <2>3, AtMostTotal
<1> QED
  BY <1>1

-----------------------------------------------------------------------------
(* Keys and the paths they stand for: managedPathLookupKey. *)

Path == Seq(Manifest!Characters)

(* A key and a folded path are as long as the path; at each place they     *)
(* tell the same characters apart, and the separator from all others.      *)
LEMMA KeyFacts ==
    ASSUME NEW p \in Path
    PROVE  LET k == Manifest!managedPathLookupKey(p)
               f == Manifest!Folded(p)
           IN /\ Len(p) \in Nat
              /\ k \in Seq(Nat) /\ Len(k) = Len(p) /\ f \in Seq(Nat) /\ Len(f) = Len(p)
              /\ \A i \in 1 .. Len(p) :
                   /\ p[i] \in 1 .. 7
                   /\ k[i] = IF f[i] = 2 THEN 0 ELSE f[i]
                   /\ f[i] = IF p[i] = 3 THEN 4 ELSE IF p[i] = 5 THEN 6 ELSE p[i]
<1> DEFINE k == Manifest!managedPathLookupKey(p)
           f == Manifest!Folded(p)
<1>1. Len(p) \in Nat /\ DOMAIN p = 1 .. Len(p) /\ \A i \in 1 .. Len(p) : p[i] \in 1 .. 7
  BY DEF Path, Manifest!Characters
<1>2. ASSUME NEW i \in 1 .. Len(p)
      PROVE  /\ f[i] = IF p[i] = 3 THEN 4 ELSE IF p[i] = 5 THEN 6 ELSE p[i]
             /\ k[i] = IF f[i] = 2 THEN 0 ELSE f[i]
  <2>1. f[i] = IF p[i] = 3 THEN 4 ELSE IF p[i] = 5 THEN 6 ELSE p[i]
    BY <1>1 DEF Manifest!Folded, Manifest!Upper, Manifest!Lower, Manifest!OwnUpper, Manifest!OwnDir
  <2>2. k[i] = IF p[i] = 2 THEN 0 ELSE IF p[i] = 3 THEN 4 ELSE IF p[i] = 5 THEN 6 ELSE p[i]
    BY <1>1 DEF Manifest!managedPathLookupKey, Manifest!Slash, Manifest!Upper, Manifest!Lower,
       Manifest!OwnUpper, Manifest!OwnDir
  <2> HIDE DEF f, k
  <2> QED
    BY <1>1, <2>1, <2>2
<1>3. DOMAIN f = 1 .. Len(p) /\ f = [i \in 1 .. Len(p) |-> f[i]]
  BY <1>1 DEF Manifest!Folded
<1>4. DOMAIN k = 1 .. Len(p) /\ k = [i \in 1 .. Len(p) |-> k[i]]
  BY <1>1 DEF Manifest!managedPathLookupKey
<1> HIDE DEF f, k
<1>5. \A i \in 1 .. Len(p) : f[i] \in Nat /\ k[i] \in Nat
  BY <1>1, <1>2
<1>6. f \in Seq(Nat) /\ Len(f) = Len(p)
  <2>1. f \in [1 .. Len(p) -> Nat]
    BY <1>3, <1>5
  <2>2. f \in Seq(Nat)
    BY <1>1, <2>1
  <2> QED
    BY <1>1, <1>3, <2>2
<1>7. k \in Seq(Nat) /\ Len(k) = Len(p)
  <2>1. k \in [1 .. Len(p) -> Nat]
    BY <1>4, <1>5
  <2>2. k \in Seq(Nat)
    BY <1>1, <2>1
  <2> QED
    BY <1>1, <1>4, <2>2
<1> QED
  BY <1>1, <1>2, <1>6, <1>7 DEF f, k

(* The separator of keys. *)
LEMMA KeySeparator == Manifest!Separator = 0
<1>1. <<Manifest!Slash>>[1] = Manifest!Slash /\ DOMAIN <<Manifest!Slash>> = {1}
  OBVIOUS
<1> QED
  BY <1>1 DEF Manifest!Separator, Manifest!managedPathLookupKey, Manifest!Slash, Manifest!Upper, Manifest!OwnUpper

(* Comparing keys is comparing folded paths. *)
LEMMA KeysForPaths ==
    ASSUME NEW p \in Path, NEW q \in Path
    PROVE  LET k(x) == Manifest!managedPathLookupKey(x)
           IN /\ k(p) = k(q) <=> Manifest!Folded(p) = Manifest!Folded(q)
              /\ Manifest!Follows(k(p), k(q), 0) <=> Manifest!Inside(p, q)
<1> DEFINE kp == Manifest!managedPathLookupKey(p)
           kq == Manifest!managedPathLookupKey(q)
           fp == Manifest!Folded(p)
           fq == Manifest!Folded(q)
<1>1. /\ Len(p) \in Nat /\ kp \in Seq(Nat) /\ Len(kp) = Len(p) /\ fp \in Seq(Nat) /\ Len(fp) = Len(p)
      /\ \A i \in 1 .. Len(p) : kp[i] = (IF fp[i] = 2 THEN 0 ELSE fp[i]) /\ fp[i] \in 1 .. 7
  <2>1. /\ Len(p) \in Nat /\ kp \in Seq(Nat) /\ Len(kp) = Len(p) /\ fp \in Seq(Nat) /\ Len(fp) = Len(p)
        /\ \A i \in 1 .. Len(p) :
             /\ p[i] \in 1 .. 7
             /\ kp[i] = IF fp[i] = 2 THEN 0 ELSE fp[i]
             /\ fp[i] = IF p[i] = 3 THEN 4 ELSE IF p[i] = 5 THEN 6 ELSE p[i]
    BY KeyFacts
  <2> HIDE DEF kp, fp
  <2> QED
    BY <2>1
<1>2. /\ Len(q) \in Nat /\ kq \in Seq(Nat) /\ Len(kq) = Len(q) /\ fq \in Seq(Nat) /\ Len(fq) = Len(q)
      /\ \A i \in 1 .. Len(q) : kq[i] = (IF fq[i] = 2 THEN 0 ELSE fq[i]) /\ fq[i] \in 1 .. 7
  <2>1. /\ Len(q) \in Nat /\ kq \in Seq(Nat) /\ Len(kq) = Len(q) /\ fq \in Seq(Nat) /\ Len(fq) = Len(q)
        /\ \A i \in 1 .. Len(q) :
             /\ q[i] \in 1 .. 7
             /\ kq[i] = IF fq[i] = 2 THEN 0 ELSE fq[i]
             /\ fq[i] = IF q[i] = 3 THEN 4 ELSE IF q[i] = 5 THEN 6 ELSE q[i]
    BY KeyFacts
  <2> HIDE DEF kq, fq
  <2> QED
    BY <2>1
<1>3. Manifest!Follows(kp, kq, 0) <=> Manifest!IsPrefix(Append(kp, 0), kq)
  BY DEF Manifest!Follows
<1>4. Manifest!Inside(p, q) <=> Manifest!IsPrefix(Append(fp, 2), fq)
  BY DEF Manifest!Inside, Manifest!Slash
<1> HIDE DEF kp, kq, fp, fq
<1>5. \A i \in 1 .. Len(p) : i <= Len(q) => (kp[i] = kq[i] <=> fp[i] = fq[i])
  <2> SUFFICES ASSUME NEW i \in 1 .. Len(p), i <= Len(q) PROVE kp[i] = kq[i] <=> fp[i] = fq[i]
    OBVIOUS
  <2>1. i \in 1 .. Len(q)
    BY <1>1, <1>2
  <2>2. kp[i] = (IF fp[i] = 2 THEN 0 ELSE fp[i]) /\ fp[i] \in 1 .. 7
    BY <1>1
  <2>3. kq[i] = (IF fq[i] = 2 THEN 0 ELSE fq[i]) /\ fq[i] \in 1 .. 7
    BY <1>2, <2>1
  <2> QED
    BY <2>2, <2>3
<1>6. \A i \in 1 .. Len(q) : kq[i] = 0 <=> fq[i] = 2
  <2> TAKE i \in 1 .. Len(q)
  <2>1. kq[i] = (IF fq[i] = 2 THEN 0 ELSE fq[i]) /\ fq[i] \in 1 .. 7
    BY <1>2
  <2> QED
    BY <2>1
<1>7. kp = kq <=> fp = fq
  <2>1. ASSUME kp = kq PROVE fp = fq
    <3>1. Len(p) = Len(q) /\ \A i \in 1 .. Len(p) : fp[i] = fq[i]
      BY <1>1, <1>2, <1>5, <2>1
    <3> QED
      BY <1>1, <1>2, <3>1, SeqEqual
  <2>2. ASSUME fp = fq PROVE kp = kq
    <3>1. Len(p) = Len(q) /\ \A i \in 1 .. Len(p) : kp[i] = kq[i]
      BY <1>1, <1>2, <1>5, <2>2
    <3> QED
      BY <1>1, <1>2, <3>1, SeqEqual
  <2> QED
    BY <2>1, <2>2
<1>8. Manifest!Follows(kp, kq, 0) <=> Manifest!Inside(p, q)
  <2>1. Manifest!IsPrefix(Append(kp, 0), kq) <=>
          Len(p) < Len(q) /\ kq[Len(p) + 1] = 0 /\ \A i \in 1 .. Len(p) : kp[i] = kq[i]
    <3>1. Manifest!IsPrefix(Append(kp, 0), kq) <=>
            Len(kp) < Len(kq) /\ kq[Len(kp) + 1] = 0 /\ \A i \in 1 .. Len(kp) : kp[i] = kq[i]
      <4>1. kp \in Seq(Nat) /\ kq \in Seq(Nat) /\ 0 \in Nat
        BY <1>1, <1>2
      <4> QED
        BY <4>1, PrefixByPlace
    <3>2. Len(kp) = Len(p) /\ Len(kq) = Len(q)
      BY <1>1, <1>2
    <3> QED
      BY <3>1, <3>2
  <2>2. Manifest!IsPrefix(Append(fp, 2), fq) <=>
          Len(p) < Len(q) /\ fq[Len(p) + 1] = 2 /\ \A i \in 1 .. Len(p) : fp[i] = fq[i]
    <3>1. Manifest!IsPrefix(Append(fp, 2), fq) <=>
            Len(fp) < Len(fq) /\ fq[Len(fp) + 1] = 2 /\ \A i \in 1 .. Len(fp) : fp[i] = fq[i]
      <4>1. fp \in Seq(Nat) /\ fq \in Seq(Nat) /\ 2 \in Nat
        BY <1>1, <1>2
      <4> QED
        BY <4>1, PrefixByPlace
    <3>2. Len(fp) = Len(p) /\ Len(fq) = Len(q)
      BY <1>1, <1>2
    <3> QED
      BY <3>1, <3>2
  <2>3. ASSUME Len(p) < Len(q)
        PROVE  /\ kq[Len(p) + 1] = 0 <=> fq[Len(p) + 1] = 2
               /\ (\A i \in 1 .. Len(p) : kp[i] = kq[i]) <=> (\A i \in 1 .. Len(p) : fp[i] = fq[i])
    <3>1. Len(p) + 1 \in 1 .. Len(q) /\ \A i \in 1 .. Len(p) : i <= Len(q)
      BY <1>1, <1>2, <2>3
    <3> QED
      BY <1>5, <1>6, <3>1
  <2> QED
    BY <1>3, <1>4, <2>1, <2>2, <2>3
<1> QED
  BY <1>7, <1>8 DEF kp, kq, fp, fq

(* validateManagedTargetPath refuses what is named like the updater's own  *)
(* directory, and refuses nothing else but possible aliases of it.         *)
LEMMA ReservedNames ==
    ASSUME NEW p \in Path
    PROVE  LET f == Manifest!Folded(p)
           IN /\ Manifest!validateManagedTargetPath(p) =>
                   f # <<Manifest!OwnDir>> /\ ~ Manifest!IsPrefix(<<Manifest!OwnDir, Manifest!Slash>>, f)
              /\ ~ Manifest!validateManagedTargetPath(p) =>
                   Manifest!Contains(p, Manifest!Tilde) \/ f[1] = Manifest!OwnDir
<1> DEFINE f == Manifest!Folded(p)
           I == {i \in 1 .. Len(p) : p[i] = 2}
           first == IF I # {} THEN Manifest!Min(I) ELSE 0
           segment == IF first = 0 THEN p ELSE SubSeq(p, 1, first - 1)
           k == Manifest!managedPathLookupKey(segment)
<1>1. Manifest!validateManagedTargetPath(p) <=> k # << 6 >> /\ ~ Manifest!Contains(segment, 7)
  BY DEF Manifest!validateManagedTargetPath, Manifest!SelectInSeq, Manifest!Slash, Manifest!OwnDir,
     Manifest!Tilde
<1>2. /\ Len(p) \in Nat /\ f \in Seq(Nat) /\ Len(f) = Len(p)
      /\ \A i \in 1 .. Len(p) : /\ p[i] \in 1 .. 7
                                /\ f[i] = IF p[i] = 3 THEN 4 ELSE IF p[i] = 5 THEN 6 ELSE p[i]
  BY KeyFacts
<1>3. /\ first \in 0 .. Len(p) /\ (first # 0 => p[first] = 2)
      /\ \A i \in 1 .. Len(p) : (first = 0 \/ i < first) => p[i] # 2
      /\ first = 0 => \A i \in 1 .. Len(p) : p[i] # 2
  <2>1. CASE I = {}
    <3>1. first = 0 /\ \A i \in 1 .. Len(p) : p[i] # 2
      BY <2>1
    <3>2. 0 \in 0 .. Len(p)
      BY <1>2
    <3> HIDE DEF first, I
    <3> QED
      BY <3>1, <3>2
  <2>2. CASE I # {}
    <3>1. I \subseteq Nat
      BY <1>2
    <3>2. \E x \in I : \A y \in I : x <= y
      <4> HIDE DEF I
      <4> QED
        BY <2>2, <3>1, LeastNumber
    <3>3. Manifest!Min(I) \in I /\ \A y \in I : Manifest!Min(I) <= y
      <4> HIDE DEF I
      <4> QED
        BY <3>2 DEF Manifest!Min
    <3>4. first \in I /\ \A y \in I : first <= y
      BY <2>2, <3>3
    <3> HIDE DEF first
    <3> QED
      BY <1>2, <3>4
  <2> QED
    BY <2>1, <2>2
<1> HIDE DEF first
<1>4. /\ segment \in Path /\ Len(segment) = (IF first = 0 THEN Len(p) ELSE first - 1)
      /\ \A i \in 1 .. Len(segment) : segment[i] = p[i] /\ i \in 1 .. Len(p)
  <2>1. CASE first = 0
    BY <1>2, <2>1
  <2>2. CASE first # 0
    <3>1. first - 1 \in 0 .. Len(p) /\ p \in Seq(Manifest!Characters)
      BY <1>2, <1>3, <2>2 DEF Path
    <3>2. SubSeq(p, 1, first - 1) \in Seq(Manifest!Characters) /\ Len(SubSeq(p, 1, first - 1)) = first - 1
      BY <1>2, <3>1
    <3>3. \A i \in 1 .. first - 1 : SubSeq(p, 1, first - 1)[i] = p[i] /\ i \in 1 .. Len(p)
      BY <1>2, <3>1
    <3> QED
      BY <2>2, <3>2, <3>3 DEF Path
  <2> QED
    BY <2>1, <2>2
<1> HIDE DEF segment
<1>5. /\ k \in Seq(Nat) /\ Len(k) = Len(segment)
      /\ \A i \in 1 .. Len(segment) : k[i] = IF f[i] = 2 THEN 0 ELSE f[i]
  <2> DEFINE g == Manifest!Folded(segment)
  <2>1. /\ k \in Seq(Nat) /\ Len(k) = Len(segment)
        /\ \A i \in 1 .. Len(segment) : /\ k[i] = IF g[i] = 2 THEN 0 ELSE g[i]
                                        /\ g[i] = IF segment[i] = 3 THEN 4 ELSE IF segment[i] = 5 THEN 6 ELSE segment[i]
    BY <1>4, KeyFacts
  <2> HIDE DEF g, k, f
  <2>2. \A i \in 1 .. Len(segment) : g[i] = f[i]
    BY <1>2, <1>4, <2>1
  <2> QED
    BY <2>1, <2>2
<1> HIDE DEF k, f
<1>6. k = << 6 >> <=> Len(k) = 1 /\ k[1] = 6
  <2>1. << 6 >> \in Seq(Nat) /\ Len(<< 6 >>) = 1 /\ << 6 >>[1] = 6
    OBVIOUS
  <2>2. ASSUME Len(k) = 1, k[1] = 6 PROVE k = << 6 >>
    <3>1. \A i \in 1 .. Len(k) : k[i] = << 6 >>[i]
      BY <2>1, <2>2
    <3> QED
      BY <1>5, <2>1, <2>2, <3>1, SeqEqual
  <2> QED
    BY <2>1, <2>2
<1>7. ASSUME f = << 6 >> PROVE k = << 6 >>
  <2>1. Len(p) = 1 /\ f[1] = 6 /\ 1 \in 1 .. Len(p)
    BY <1>2, <1>7
  <2>2. p[1] # 2 /\ first # 1
    BY <1>2, <1>3, <2>1
  <2>3. first = 0
    BY <1>3, <2>1, <2>2
  <2>4. Len(segment) = 1
    BY <1>4, <2>1, <2>3
  <2> QED
    BY <1>5, <1>6, <2>1, <2>4
<1>8. ASSUME Manifest!IsPrefix(<<6, 2>>, f) PROVE k = << 6 >>
  <2>1. <<6, 2>> = Append(<< 6 >>, 2) /\ << 6 >> \in Seq(Nat) /\ Len(<< 6 >>) = 1 /\ << 6 >>[1] = 6
    OBVIOUS
  <2>2. 1 < Len(f) /\ f[1 + 1] = 2 /\ f[1] = 6
    <3> DEFINE a == << 6 >>
    <3>1. a \in Seq(Nat) /\ Len(a) = 1 /\ a[1] = 6 /\ Manifest!IsPrefix(Append(a, 2), f)
      BY <1>8, <2>1
    <3> HIDE DEF a
    <3>2. Len(a) < Len(f) /\ f[Len(a) + 1] = 2 /\ \A i \in 1 .. Len(a) : a[i] = f[i]
      BY <1>2, <3>1, PrefixByPlace
    <3> QED
      BY <3>1, <3>2
  <2>3. p[1] # 2 /\ p[2] = 2 /\ 1 \in 1 .. Len(p) /\ 2 \in 1 .. Len(p)
    BY <1>2, <2>2
  <2>4. first = 2
    BY <1>2, <1>3, <2>3
  <2>5. Len(segment) = 1 /\ 1 \in 1 .. Len(segment)
    BY <1>4, <2>4
  <2> QED
    BY <1>5, <1>6, <2>2, <2>5
<1>9. ASSUME k = << 6 >> PROVE f[1] = 6
  <2>1. 1 \in 1 .. Len(segment) /\ k[1] = 6
    BY <1>5, <1>6, <1>9
  <2>2. 6 = IF f[1] = 2 THEN 0 ELSE f[1]
    BY <1>5, <2>1
  <2> QED
    BY <2>2
<1>10. Manifest!Contains(segment, 7) => Manifest!Contains(p, 7)
  BY <1>4 DEF Manifest!Contains
<1>11. Manifest!validateManagedTargetPath(p) => f # << 6 >> /\ ~ Manifest!IsPrefix(<<6, 2>>, f)
  BY <1>1, <1>7, <1>8
<1>12. ~ Manifest!validateManagedTargetPath(p) => Manifest!Contains(p, 7) \/ f[1] = 6
  BY <1>1, <1>9, <1>10
<1> QED
  BY <1>11, <1>12 DEF f, Manifest!OwnDir, Manifest!Slash, Manifest!Tilde

-----------------------------------------------------------------------------
(* Manifests that can be installed: Manifest::parse. *)

(* What has been read: each file is evidence for its source, and there is  *)
(* no other evidence.                                                      *)
Entry == [path: Paths, localPath: Paths \union {None}, size: Sizes]
PathTypes ==
    /\ files \in Seq(Entry) /\ remove \in Seq(Paths) /\ total \in Nat
    /\ pc = "items" => result = "none"
Evidence ==
    /\ IsFiniteSet(DOMAIN sourceEvidence)
    /\ \A k \in DOMAIN sourceEvidence : \E i \in DOMAIN files : k = Manifest!SourceKey(files[i].path)
    /\ \A i \in DOMAIN files : /\ Manifest!SourceKey(files[i].path) \in DOMAIN sourceEvidence
                               /\ sourceEvidence[Manifest!SourceKey(files[i].path)] = files[i].size

(* The targets are paths. *)
LEMMA TargetsArePaths ==
    ASSUME PathTypes
    PROVE  Manifest!ManagedTargets \in Seq(Path) /\ \A i \in DOMAIN files : files[i].path \in Path
<1>1. Paths \subseteq Path
  BY InputsAssumption DEF Manifest!PathAssumption, Path
<1>2. files \in Seq(Entry) /\ remove \in Seq(Paths) /\ Len(files) \in Nat /\ DOMAIN files = 1 .. Len(files)
  BY DEF PathTypes
<1>3. \A i \in 1 .. Len(files) : files[i] \in Entry
  BY <1>2
<1>4. \A i \in 1 .. Len(files) : files[i].path \in Path /\ Manifest!Target(files[i]) \in Path
  BY <1>1, <1>3 DEF Entry, Manifest!Target
<1> DEFINE t == [i \in DOMAIN files |-> Manifest!Target(files[i])]
<1>5. t \in [1 .. Len(files) -> Path]
  BY <1>2, <1>4
<1>6. t \in Seq(Path)
  <2> HIDE DEF t
  <2> QED
    BY <1>2, <1>5
<1>7. remove \in Seq(Path)
  BY <1>1, <1>2
<1>8. t \o remove \in Seq(Path)
  <2> HIDE DEF t
  <2> QED
    BY <1>6, <1>7
<1> QED
  BY <1>2, <1>4, <1>8 DEF Manifest!ManagedTargets

(* The verdict on a sequence of targets is the pairwise one. *)
LEMMA TargetsVerdict ==
    ASSUME NEW t \in Seq(Path)
    PROVE  /\ Manifest!validateManagedTargetPaths(t) =>
                /\ \A i \in DOMAIN t : Manifest!validateManagedTargetPath(t[i])
                /\ \A i, j \in DOMAIN t : i # j => ~ Manifest!Clash(t[i], t[j])
           /\ ~ Manifest!validateManagedTargetPaths(t) =>
                \/ \E i \in DOMAIN t : ~ Manifest!validateManagedTargetPath(t[i])
                \/ \E i, j \in DOMAIN t : i # j /\ Manifest!Clash(t[i], t[j])
<1> DEFINE n == Len(t)
           K(i) == Manifest!managedPathLookupKey(t[i])
           raw == [i \in DOMAIN t |-> K(i)]
           keys == Manifest!Sorted(raw)
           Fine == \A i \in 2 .. n : keys[i - 1] # keys[i] /\ ~ Manifest!Follows(keys[i - 1], keys[i], 0)
           Valid == \A i \in DOMAIN t : Manifest!validateManagedTargetPath(t[i])
<1>1. n \in Nat /\ DOMAIN t = 1 .. n /\ \A i \in 1 .. n : t[i] \in Path
  OBVIOUS
<1>2. \A i \in 1 .. n : K(i) \in Seq(Nat)
  BY <1>1, KeyFacts
<1>3. raw \in [1 .. n -> Seq(Nat)] /\ \A i \in 1 .. n : raw[i] = K(i)
  BY <1>1, <1>2
<1>4. PICK q \in Shuffles(n) : keys = [i \in 1 .. n |-> raw[q[i]]] /\ Sorts(q, raw, n)
  <2> HIDE DEF raw, n
  <2> QED
    BY <1>1, <1>3, SortedKeys
<1>5. /\ \A i \in 1 .. n : q[i] \in 1 .. n
      /\ \A i, j \in 1 .. n : q[i] = q[j] => i = j
      /\ \A k \in 1 .. n : \E i \in 1 .. n : q[i] = k
  BY DEF Shuffles
<1>6. Manifest!validateManagedTargetPaths(t) <=> Valid /\ Fine
  <2>1. Len(keys) = n
    <3> HIDE DEF keys, n
    <3> QED
      BY <1>1, <1>4
  <2> QED
    BY <2>1, KeySeparator DEF Manifest!validateManagedTargetPaths
<1> HIDE DEF keys, n, K
<1>7. /\ keys \in [1 .. n -> Seq(Nat)] /\ \A i \in 1 .. n : keys[i] = K(q[i])
      /\ \A i, j \in 1 .. n : i < j => AtMost(keys[i], keys[j])
  BY <1>2, <1>3, <1>4, <1>5 DEF Sorts
<1> HIDE DEF raw
<1>8. \A i, j \in 1 .. n :
        /\ K(i) = K(j) <=> Manifest!Folded(t[i]) = Manifest!Folded(t[j])
        /\ Manifest!Follows(K(i), K(j), 0) <=> Manifest!Inside(t[i], t[j])
  BY <1>1, KeysForPaths DEF K
<1>9. ASSUME Fine, NEW i \in 1 .. n, NEW j \in 1 .. n, i # j PROVE ~ Manifest!Clash(t[i], t[j])
  <2>1. PICK a \in 1 .. n : q[a] = i
    BY <1>5
  <2>2. PICK b \in 1 .. n : q[b] = j
    BY <1>5
  <2>3. \A x, y \in 1 .. n : keys[x] = keys[y] => x = y
    BY <1>1, <1>7, <1>9, DifferentNeighbours
  <2>4. K(i) # K(j)
    BY <1>7, <1>9, <2>1, <2>2, <2>3
  <2>5. \A x, y \in 1 .. n : ~ Manifest!Follows(keys[x], keys[y], 0)
    BY <1>1, <1>7, <1>9, <2>3, NeighboursSuffice
  <2>6. ~ Manifest!Follows(K(i), K(j), 0) /\ ~ Manifest!Follows(K(j), K(i), 0)
    BY <1>7, <2>1, <2>2, <2>5
  <2> QED
    BY <1>8, <2>4, <2>6 DEF Manifest!Clash
<1>10. ASSUME ~ Fine PROVE \E i, j \in 1 .. n : i # j /\ Manifest!Clash(t[i], t[j])
  <2>1. PICK a \in 2 .. n : keys[a - 1] = keys[a] \/ Manifest!Follows(keys[a - 1], keys[a], 0)
    BY <1>10
  <2>2. a \in 1 .. n /\ a - 1 \in 1 .. n /\ a - 1 # a
    BY <1>1
  <2>3. q[a - 1] \in 1 .. n /\ q[a] \in 1 .. n /\ q[a - 1] # q[a]
    BY <1>5, <2>2
  <2>4. K(q[a - 1]) = K(q[a]) \/ Manifest!Follows(K(q[a - 1]), K(q[a]), 0)
    BY <1>7, <2>1, <2>2
  <2>5. Manifest!Clash(t[q[a - 1]], t[q[a]])
    BY <1>8, <2>3, <2>4 DEF Manifest!Clash
  <2> QED
    BY <2>3, <2>5
<1> HIDE DEF Fine
<1> QED
  BY <1>1, <1>6, <1>9, <1>10

(* And so is the one on the sources. *)
LEMMA SourcesVerdict ==
    ASSUME PathTypes, Evidence
    PROVE  /\ Manifest!validateSourceTopology =>
                \A i, j \in DOMAIN files : ~ Manifest!Inside(files[i].path, files[j].path)
           /\ ~ Manifest!validateSourceTopology =>
                \E i, j \in DOMAIN files : Manifest!Inside(files[i].path, files[j].path)
<1> DEFINE E == DOMAIN sourceEvidence
           K(i) == Manifest!managedPathLookupKey(files[i].path)
           s == Manifest!InOrder(E)
<1>1. \A i \in DOMAIN files : files[i].path \in Path
  BY TargetsArePaths
<1>2. \A i \in DOMAIN files : K(i) \in Seq(Nat) /\ K(i) \in E
  BY <1>1, KeyFacts DEF Evidence, Manifest!SourceKey
<1>3. IsFiniteSet(E) /\ (\A k \in E : \E i \in DOMAIN files : k = K(i)) /\ E \subseteq Seq(Nat)
  BY <1>2 DEF Evidence, Manifest!SourceKey
<1>4. \A i, j \in DOMAIN files : Manifest!Follows(K(i), K(j), 0) <=> Manifest!Inside(files[i].path, files[j].path)
  BY <1>1, KeysForPaths
<1> HIDE DEF E, K
<1>5. PICK n \in Nat : /\ s \in [1 .. n -> E]
                       /\ \A i, j \in 1 .. n : s[i] = s[j] => i = j
                       /\ \A k \in E : \E i \in 1 .. n : s[i] = k
                       /\ \A i, j \in 1 .. n : i < j => AtMost(s[i], s[j])
  BY <1>3, MapKeys
<1> DEFINE Fine == \A i \in 2 .. n : ~ Manifest!Follows(s[i - 1], s[i], 0)
<1>6. Manifest!validateSourceTopology <=> Fine
  <2>1. Len(s) = n
    <3> HIDE DEF s
    <3> QED
      BY <1>5
  <2> QED
    BY <2>1, KeySeparator DEF Manifest!validateSourceTopology, E
<1> HIDE DEF s
<1>7. s \in [1 .. n -> Seq(Nat)]
  BY <1>3, <1>5
<1>8. ASSUME Fine, NEW i \in DOMAIN files, NEW j \in DOMAIN files
      PROVE  ~ Manifest!Inside(files[i].path, files[j].path)
  <2>1. PICK a \in 1 .. n : s[a] = K(i)
    BY <1>2, <1>5
  <2>2. PICK b \in 1 .. n : s[b] = K(j)
    BY <1>2, <1>5
  <2>3. ~ Manifest!Follows(s[a], s[b], 0)
    BY <1>5, <1>7, <1>8, NeighboursSuffice
  <2> QED
    BY <1>4, <2>1, <2>2, <2>3
<1>9. ASSUME ~ Fine PROVE \E i, j \in DOMAIN files : Manifest!Inside(files[i].path, files[j].path)
  <2>1. PICK a \in 2 .. n : Manifest!Follows(s[a - 1], s[a], 0)
    BY <1>9
  <2>2. a \in 1 .. n /\ a - 1 \in 1 .. n
    OBVIOUS
  <2>3. PICK i \in DOMAIN files : s[a - 1] = K(i)
    BY <1>3, <1>5, <2>2
  <2>4. PICK j \in DOMAIN files : s[a] = K(j)
    BY <1>3, <1>5, <2>2
  <2> QED
    BY <1>4, <2>1, <2>3, <2>4
<1> HIDE DEF Fine
<1> QED
  BY <1>6, <1>8, <1>9

PathInv ==
    /\ PathTypes /\ Evidence
    /\ Manifest!TypeOK /\ Manifest!TargetsDisjoint /\ Manifest!SourcesStageable
    /\ Manifest!StateUntouched /\ Manifest!RefusalJustified

(* What a verdict says about the manifest that was read. *)
LEMMA Verdict ==
    ASSUME PathTypes, Evidence
    PROVE  LET ok == Manifest!validateSourceTopology
                     /\ Manifest!validateManagedTargetPaths(Manifest!ManagedTargets)
               t == Manifest!ManagedTargets
           IN /\ ok => /\ \A i, j \in DOMAIN t : i # j => ~ Manifest!Clash(t[i], t[j])
                       /\ \A i, j \in DOMAIN files :
                            /\ ~ Manifest!Inside(files[i].path, files[j].path)
                            /\ Manifest!Folded(files[i].path) = Manifest!Folded(files[j].path)
                                 => files[i].size = files[j].size
                       /\ \A i \in DOMAIN t :
                            /\ Manifest!Folded(t[i]) # <<Manifest!OwnDir>>
                            /\ ~ Manifest!IsPrefix(<<Manifest!OwnDir, Manifest!Slash>>, Manifest!Folded(t[i]))
              /\ ~ ok => \/ \E i, j \in DOMAIN t : i # j /\ Manifest!Clash(t[i], t[j])
                         \/ \E i, j \in DOMAIN files : Manifest!Inside(files[i].path, files[j].path)
                         \/ \E i \in DOMAIN t : Manifest!Contains(t[i], Manifest!Tilde)
                         \/ \E i \in DOMAIN t : Manifest!Folded(t[i])[1] = Manifest!OwnDir
<1> DEFINE t == Manifest!ManagedTargets
<1>1. t \in Seq(Path) /\ (\A i \in DOMAIN files : files[i].path \in Path)
  BY TargetsArePaths
<1> HIDE DEF t
<1>2. \A i \in DOMAIN t : t[i] \in Path
  BY <1>1
<1>3. \A i, j \in DOMAIN files :
        Manifest!Folded(files[i].path) = Manifest!Folded(files[j].path) => files[i].size = files[j].size
  <2> SUFFICES ASSUME NEW i \in DOMAIN files, NEW j \in DOMAIN files,
                      Manifest!Folded(files[i].path) = Manifest!Folded(files[j].path)
               PROVE  files[i].size = files[j].size
    OBVIOUS
  <2>1. Manifest!SourceKey(files[i].path) = Manifest!SourceKey(files[j].path)
    BY <1>1, KeysForPaths DEF Manifest!SourceKey
  <2> QED
    BY <2>1 DEF Evidence
<1>4. ASSUME Manifest!validateManagedTargetPaths(t)
      PROVE  /\ \A i, j \in DOMAIN t : i # j => ~ Manifest!Clash(t[i], t[j])
             /\ \A i \in DOMAIN t :
                  /\ Manifest!Folded(t[i]) # <<Manifest!OwnDir>>
                  /\ ~ Manifest!IsPrefix(<<Manifest!OwnDir, Manifest!Slash>>, Manifest!Folded(t[i]))
  <2>1. /\ \A i \in DOMAIN t : Manifest!validateManagedTargetPath(t[i])
        /\ \A i, j \in DOMAIN t : i # j => ~ Manifest!Clash(t[i], t[j])
    BY <1>1, <1>4, TargetsVerdict
  <2> QED
    BY <1>2, <2>1, ReservedNames
<1>5. ASSUME ~ Manifest!validateManagedTargetPaths(t)
      PROVE  \/ \E i, j \in DOMAIN t : i # j /\ Manifest!Clash(t[i], t[j])
             \/ \E i \in DOMAIN t : Manifest!Contains(t[i], Manifest!Tilde)
             \/ \E i \in DOMAIN t : Manifest!Folded(t[i])[1] = Manifest!OwnDir
  <2>1. \/ \E i \in DOMAIN t : ~ Manifest!validateManagedTargetPath(t[i])
        \/ \E i, j \in DOMAIN t : i # j /\ Manifest!Clash(t[i], t[j])
    BY <1>1, <1>5, TargetsVerdict
  <2> QED
    BY <1>2, <2>1, ReservedNames
<1>6. /\ Manifest!validateSourceTopology =>
           \A i, j \in DOMAIN files : ~ Manifest!Inside(files[i].path, files[j].path)
      /\ ~ Manifest!validateSourceTopology =>
           \E i, j \in DOMAIN files : Manifest!Inside(files[i].path, files[j].path)
  BY SourcesVerdict
<1> QED
  BY <1>3, <1>4, <1>5, <1>6 DEF t

LEMMA PathStarts == Manifest!Init => PathInv
<1> SUFFICES ASSUME Manifest!Init PROVE PathInv
  OBVIOUS
<1>1. /\ files = <<>> /\ remove = <<>> /\ sourceEvidence = <<>> /\ total = 0
      /\ pc = "items" /\ result = "none" /\ DOMAIN files = {} /\ DOMAIN sourceEvidence = {}
      /\ Len(files) = 0 /\ Len(remove) = 0
  BY DEF Manifest!Init
<1>2. PathTypes
  BY <1>1 DEF PathTypes
<1>3. Evidence
  BY <1>1, FS_EmptySet DEF Evidence
<1>4. MaxTotalBytes \in Nat /\ MaxEntries \in Nat
  BY InputsAssumption DEF Manifest!PathAssumption
<1>5. Manifest!TypeOK
  BY <1>1, <1>4 DEF Manifest!TypeOK
<1> QED
  BY <1>1, <1>2, <1>3, <1>5 DEF PathInv, Manifest!TargetsDisjoint, Manifest!SourcesStageable,
     Manifest!StateUntouched, Manifest!RefusalJustified

(* Nothing is said before the verdict. *)
LEMMA NoVerdict ==
    ASSUME result' \in {"none", "fail"}
    PROVE  /\ Manifest!TargetsDisjoint' /\ Manifest!SourcesStageable'
           /\ Manifest!StateUntouched' /\ Manifest!RefusalJustified'
  BY DEF Manifest!TargetsDisjoint, Manifest!SourcesStageable, Manifest!StateUntouched,
     Manifest!RefusalJustified

LEMMA AddFileKeeps == PathInv /\ Manifest!AddFile => PathInv'
<1> SUFFICES ASSUME PathInv, Manifest!AddFile PROVE PathInv'
  OBVIOUS
<1>1. /\ PathTypes /\ Evidence /\ Manifest!TypeOK /\ pc = "items" /\ result = "none" /\ remove' = remove
      /\ Len(files) + Len(remove) < MaxEntries
  BY DEF PathInv, PathTypes, Manifest!AddFile
<1>2. /\ files \in Seq(Entry) /\ remove \in Seq(Paths) /\ total \in Nat
      /\ Len(files) \in Nat /\ Len(remove) \in Nat /\ DOMAIN files = 1 .. Len(files)
  BY <1>1 DEF PathTypes
<1>3. Sizes \subseteq Nat /\ MaxEntries \in Nat /\ MaxTotalBytes \in Nat
  BY InputsAssumption DEF Manifest!PathAssumption
<1>4. CASE Manifest!Refuse /\ UNCHANGED <<files, sourceEvidence, total>>
  <2>1. result' = "fail" /\ pc' = "done"
    BY <1>4 DEF Manifest!Refuse
  <2>2. PathTypes' /\ Evidence' /\ Manifest!TypeOK'
    BY <1>1, <1>4, <2>1 DEF PathTypes, Evidence, Manifest!TypeOK
  <2> QED
    BY <2>1, <2>2, NoVerdict DEF PathInv
<1>5. ASSUME NEW path \in Paths, NEW localPath \in Paths \union {None}, NEW size \in Sizes,
             Manifest!Fits(size),
             Manifest!SourceKey(path) \in DOMAIN sourceEvidence => sourceEvidence[Manifest!SourceKey(path)] = size,
             files' = Append(files, [path |-> path, localPath |-> localPath, size |-> size]),
             sourceEvidence' = [k \in DOMAIN sourceEvidence \union {Manifest!SourceKey(path)} |->
                                  IF k = Manifest!SourceKey(path) THEN size ELSE sourceEvidence[k]],
             total' = total + size, Manifest!Continue
      PROVE  PathInv'
  <2> DEFINE e == [path |-> path, localPath |-> localPath, size |-> size]
             key == Manifest!SourceKey(path)
  <2>1. result' = "none" /\ pc' = "items"
    BY <1>1, <1>5 DEF Manifest!Continue
  <2>2. e \in Entry /\ e.path = path /\ e.size = size
    BY DEF Entry
  <2>3. files' = Append(files, e)
    BY <1>5
  <2> HIDE DEF e
  <2>4. /\ files' \in Seq(Entry) /\ Len(files') = Len(files) + 1 /\ DOMAIN files' = 1 .. Len(files) + 1
        /\ files'[Len(files) + 1] = e /\ \A i \in 1 .. Len(files) : files'[i] = files[i]
    BY <1>2, <2>2, <2>3
  <2>5. PathTypes'
    BY <1>1, <1>2, <1>3, <1>5, <2>1, <2>4 DEF PathTypes
  <2>6. DOMAIN sourceEvidence' = DOMAIN sourceEvidence \union {key}
        /\ sourceEvidence'[key] = size
        /\ \A k \in DOMAIN sourceEvidence : k # key => sourceEvidence'[k] = sourceEvidence[k]
    BY <1>5
  <2>7. \A i \in 1 .. Len(files) + 1 : i = Len(files) + 1 \/ i \in 1 .. Len(files)
    BY <1>2
  <2>8. 1 .. Len(files) \subseteq 1 .. Len(files) + 1 /\ Len(files) + 1 \in 1 .. Len(files) + 1
    BY <1>2
  <2>9. Evidence'
    <3>1. IsFiniteSet(DOMAIN sourceEvidence')
      BY <1>1, <2>6, FS_AddElement DEF Evidence
    <3>2. \A k \in DOMAIN sourceEvidence' : \E i \in DOMAIN files' : k = Manifest!SourceKey(files'[i].path)
      <4> TAKE k \in DOMAIN sourceEvidence'
      <4>1. CASE k = key
        BY <2>2, <2>4, <2>8, <4>1
      <4>2. CASE k # key
        <5>1. PICK i \in 1 .. Len(files) : k = Manifest!SourceKey(files[i].path)
          BY <1>1, <1>2, <2>6, <4>2 DEF Evidence
        <5> QED
          BY <2>4, <2>8, <5>1
      <4> QED
        BY <4>1, <4>2
    <3>3. ASSUME NEW i \in DOMAIN files'
          PROVE  /\ Manifest!SourceKey(files'[i].path) \in DOMAIN sourceEvidence'
                 /\ sourceEvidence'[Manifest!SourceKey(files'[i].path)] = files'[i].size
      <4>1. CASE i = Len(files) + 1
        BY <2>2, <2>4, <2>6, <4>1
      <4>2. CASE i \in 1 .. Len(files)
        <5>1. /\ files'[i] = files[i] /\ Manifest!SourceKey(files[i].path) \in DOMAIN sourceEvidence
              /\ sourceEvidence[Manifest!SourceKey(files[i].path)] = files[i].size
          BY <1>1, <1>2, <2>4, <4>2 DEF Evidence
        <5>2. CASE Manifest!SourceKey(files[i].path) = key
          BY <1>5, <2>6, <5>1, <5>2
        <5>3. CASE Manifest!SourceKey(files[i].path) # key
          BY <2>6, <5>1, <5>3
        <5> QED
          BY <5>2, <5>3
      <4> QED
        BY <2>4, <2>7, <4>1, <4>2
    <3> QED
      BY <3>1, <3>2, <3>3 DEF Evidence
  <2>10. Manifest!TypeOK'
    <3>1. Len(files') + Len(remove') <= MaxEntries
      BY <1>1, <1>2, <1>3, <2>4
    <3>2. total' <= MaxTotalBytes
      BY <1>5 DEF Manifest!Fits
    <3> QED
      BY <2>1, <2>9, <3>1, <3>2 DEF Manifest!TypeOK, Evidence
  <2> QED
    BY <2>1, <2>5, <2>9, <2>10, NoVerdict DEF PathInv
<1> QED
  BY <1>4, <1>5 DEF Manifest!AddFile

LEMMA AddRemoveKeeps == PathInv /\ Manifest!AddRemove => PathInv'
<1> SUFFICES ASSUME PathInv, Manifest!AddRemove PROVE PathInv'
  OBVIOUS
<1>1. /\ PathTypes /\ Evidence /\ Manifest!TypeOK /\ result' = "none" /\ pc' = "items"
      /\ UNCHANGED <<files, sourceEvidence, total>> /\ Len(files) + Len(remove) < MaxEntries
  BY DEF PathInv, PathTypes, Manifest!AddRemove, Manifest!Continue
<1>2. PICK path \in Paths : remove' = Append(remove, path)
  BY DEF Manifest!AddRemove
<1>3. Len(files) \in Nat /\ Len(remove) \in Nat /\ remove \in Seq(Paths) /\ MaxEntries \in Nat
  BY <1>1, InputsAssumption DEF PathTypes, Manifest!PathAssumption
<1>4. remove' \in Seq(Paths) /\ Len(remove') = Len(remove) + 1
  BY <1>2, <1>3
<1>5. PathTypes' /\ Evidence'
  BY <1>1, <1>4 DEF PathTypes, Evidence
<1>6. Len(files') + Len(remove') <= MaxEntries
  BY <1>1, <1>3, <1>4
<1>7. Manifest!TypeOK'
  BY <1>1, <1>6 DEF Manifest!TypeOK
<1> QED
  BY <1>1, <1>5, <1>7, NoVerdict DEF PathInv

LEMMA VerdictKeeps == PathInv /\ Manifest!Finish => PathInv'
<1> DEFINE t == Manifest!ManagedTargets
           ok == Manifest!validateSourceTopology /\ Manifest!validateManagedTargetPaths(t)
<1> SUFFICES ASSUME PathInv, Manifest!Finish PROVE PathInv'
  OBVIOUS
<1>1. /\ PathTypes /\ Evidence /\ Manifest!TypeOK /\ pc' = "done"
      /\ result' = (IF ok THEN "ok" ELSE "conflict")
      /\ UNCHANGED <<files, remove, sourceEvidence, total>>
  BY DEF PathInv, Manifest!Finish
<1>2. t' = t
  BY <1>1 DEF Manifest!ManagedTargets
<1>3. PathTypes' /\ Evidence' /\ Manifest!TypeOK'
  BY <1>1 DEF PathTypes, Evidence, Manifest!TypeOK
<1>4. /\ ok => /\ \A i, j \in DOMAIN t : i # j => ~ Manifest!Clash(t[i], t[j])
               /\ \A i, j \in DOMAIN files :
                    /\ ~ Manifest!Inside(files[i].path, files[j].path)
                    /\ Manifest!Folded(files[i].path) = Manifest!Folded(files[j].path)
                         => files[i].size = files[j].size
               /\ \A i \in DOMAIN t :
                    /\ Manifest!Folded(t[i]) # <<Manifest!OwnDir>>
                    /\ ~ Manifest!IsPrefix(<<Manifest!OwnDir, Manifest!Slash>>, Manifest!Folded(t[i]))
      /\ ~ ok => \/ \E i, j \in DOMAIN t : i # j /\ Manifest!Clash(t[i], t[j])
                 \/ \E i, j \in DOMAIN files : Manifest!Inside(files[i].path, files[j].path)
                 \/ \E i \in DOMAIN t : Manifest!Contains(t[i], Manifest!Tilde)
                 \/ \E i \in DOMAIN t : Manifest!Folded(t[i])[1] = Manifest!OwnDir
  BY <1>1, Verdict
<1> HIDE DEF ok, t
<1>5. Manifest!TargetsDisjoint' /\ Manifest!StateUntouched'
  BY <1>1, <1>2, <1>4 DEF t, Manifest!TargetsDisjoint, Manifest!StateUntouched
<1>6. Manifest!SourcesStageable'
  BY <1>1, <1>4 DEF Manifest!SourcesStageable
<1>7. Manifest!RefusalJustified'
  BY <1>1, <1>2, <1>4 DEF t, Manifest!RefusalJustified
<1> QED
  BY <1>3, <1>5, <1>6, <1>7 DEF PathInv

(* The parser's invariant holds while the subject is the manifest. *)
LEMMA PathInvariance == Spec => [](subject = "paths" => PathInv)
<1>1. Init => (subject = "paths" => PathInv)
  BY PathStarts DEF Init
<1>2. (subject = "paths" => PathInv) /\ [Next]_inputVars => (subject = "paths" => PathInv)'
  <2> SUFFICES ASSUME subject = "paths" => PathInv, [Next]_inputVars, subject' = "paths"
               PROVE  PathInv'
    OBVIOUS
  <2>1. CASE UNCHANGED inputVars
    <3>1. PathInv /\ UNCHANGED <<files, remove, sourceEvidence, total, pc, result>>
      BY <2>1 DEF inputVars, pathVars
    <3>2. PathTypes' /\ Evidence' /\ Manifest!TypeOK' /\ Manifest!SourcesStageable'
      BY <3>1 DEF PathInv, PathTypes, Evidence, Manifest!TypeOK, Manifest!SourcesStageable
    <3>3. Manifest!ManagedTargets' = Manifest!ManagedTargets
      BY <3>1 DEF Manifest!ManagedTargets
    <3>4. Manifest!TargetsDisjoint' /\ Manifest!StateUntouched' /\ Manifest!RefusalJustified'
      BY <3>1, <3>3 DEF PathInv, Manifest!TargetsDisjoint, Manifest!StateUntouched, Manifest!RefusalJustified
    <3> QED
      BY <3>2, <3>4 DEF PathInv
  <2>2. CASE Manifest!Next /\ subject = "paths"
    BY <2>2, AddFileKeeps, AddRemoveKeeps, VerdictKeeps DEF Manifest!Next
  <2> QED
    BY <2>1, <2>2 DEF Next
<1> QED
  BY <1>1, <1>2, PTL DEF Spec

(* Manifest::parse, for any number of files and removed paths of any       *)
(* length: comparing neighbours of the sorted keys accepts exactly the     *)
(* manifests whose targets can live side by side where the case of ASCII   *)
(* letters is folded, whose sources can be staged and that leave the       *)
(* updater's own directory alone.                                          *)
THEOREM AcceptedManifestIsInstallable == Spec => []ManifestInstallable
<1>1. (subject = "paths" => PathInv) => ManifestInstallable
  BY DEF PathInv, ManifestInstallable
<1> QED
  BY <1>1, PathInvariance, PTL

=============================================================================
