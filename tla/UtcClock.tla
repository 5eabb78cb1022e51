------------------------------ MODULE UtcClock ------------------------------
(***************************************************************************)
(* Civil dates and instants (util/Rfc3339.cpp) and the health deadline     *)
(* that is computed from them (Updater.cpp).  The calendar is walked hour  *)
(* by hour of interest from 1970-01-01 on, counting; what the code         *)
(* computes from a date must agree with the count.  The unit of time is    *)
(* the hour, which keeps the numbers small: minutes, seconds and fractions *)
(* of a timestamp, and offsets with minutes, are not modelled.             *)
(***************************************************************************)
EXTENDS Integers, Sequences, FiniteSets

CONSTANTS
    None,
    LastYear,       \* bound of the walk
    MaxYear,        \* the last year with four digits
    MaxInstant,     \* the largest instant the program can represent
    Timeouts,       \* health confirmation timeouts, in hours
    Remembered      \* how many instants back an update may have completed

ClockAssumption ==
    /\ LastYear \in Nat /\ LastYear >= 1970 /\ Remembered \in Nat \ {0}
    /\ MaxYear \in Nat /\ MaxInstant \in Nat /\ Timeouts \subseteq Int /\ None \notin Int

VARIABLES
    stamp,          \* the civil time of the clock
    hours,          \* hours counted since the start
    history         \* earlier instants: their civil time and count
vars == <<stamp, hours, history>>

HoursPerDay == 24

-----------------------------------------------------------------------------
(* util/Rfc3339.cpp *)

(* Mutant: every hundredth year is an ordinary year. *)
LeapByCentury(year) == year % 4 = 0 /\ year % 100 # 0

isLeapYear(year) == year % 4 = 0 /\ (year % 100 # 0 \/ year % 400 = 0)

daysInMonth(year, month) ==
    IF month = 2 /\ isLeapYear(year) THEN 29
    ELSE <<31, 28, 31, 30, 31, 30, 31, 31, 30, 31, 30, 31>>[month]

(* Years begin in March, so that the leap day is the last of its year. *)
daysFromCivil(year, month, day) ==
    LET y == IF month <= 2 THEN year - 1 ELSE year
        era == y \div 400
        yearOfEra == y - era * 400
        adjustedMonth == month + (IF month > 2 THEN -3 ELSE 9)
        dayOfYear == (153 * adjustedMonth + 2) \div 5 + day - 1
        dayOfEra == yearOfEra * 365 + yearOfEra \div 4 - yearOfEra \div 100 + dayOfYear
    IN era * 146097 + dayOfEra - 719468

Instant(s) == daysFromCivil(s.year, s.month, s.day) * HoursPerDay + s.hour

(* A timestamp of the grammar, with a date of the calendar. *)
ValidStamp(s) ==
    /\ s.year \in 1 .. MaxYear /\ s.month \in 1 .. 12
    /\ s.day \in 1 .. daysInMonth(s.year, s.month) /\ s.hour \in 0 .. HoursPerDay - 1

Offsets == 1 - HoursPerDay .. HoursPerDay - 1

(* Mutant: the offset is added. *)
ParseAdding(s, offset) == IF ValidStamp(s) /\ offset \in Offsets THEN Instant(s) + offset ELSE None

(* A local time and its offset from UTC. *)
parseRfc3339(s, offset) == IF ValidStamp(s) /\ offset \in Offsets THEN Instant(s) - offset ELSE None

(* The system clock is anchored through its UTC civil time. *)
currentUtcInstant == IF ValidStamp(stamp) THEN Instant(stamp) ELSE None

-----------------------------------------------------------------------------
(* Updater.cpp *)

kMaximumHealthConfirmationTimeout == HoursPerDay
validHealthConfirmationTimeout(timeout) == timeout \in 0 .. kMaximumHealthConfirmationTimeout

(* Mutant: the deadline itself still counts as in time. *)
ExpiredAfter(completedAt, timeout) ==
    IF ~ validHealthConfirmationTimeout(timeout) THEN "fail"
    ELSE IF completedAt = None \/ timeout = 0 THEN "valid"
    ELSE IF completedAt > MaxInstant - timeout THEN "valid"
    ELSE IF currentUtcInstant = None THEN "fail"
    ELSE IF currentUtcInstant > completedAt + timeout THEN "expired" ELSE "valid"

(* Mutant: the addition is not guarded and wraps around. *)
ExpiredUnguarded(completedAt, timeout) ==
    LET sum == completedAt + timeout
        deadline == IF sum > MaxInstant THEN sum - 2 * (MaxInstant + 1) ELSE sum
    IN IF ~ validHealthConfirmationTimeout(timeout) THEN "fail"
       ELSE IF completedAt = None \/ timeout = 0 THEN "valid"
       ELSE IF currentUtcInstant = None THEN "fail"
       ELSE IF currentUtcInstant >= deadline THEN "expired" ELSE "valid"

(* A journal without a completion time, a timeout of zero and a deadline   *)
(* that cannot be represented never expire.                                *)
healthConfirmationExpired(completedAt, timeout) ==
    IF ~ validHealthConfirmationTimeout(timeout) THEN "fail"
    ELSE IF completedAt = None \/ timeout = 0 THEN "valid"
    ELSE IF completedAt > MaxInstant - timeout THEN "valid"
    ELSE IF currentUtcInstant = None THEN "fail"
    ELSE IF currentUtcInstant >= completedAt + timeout THEN "expired" ELSE "valid"

-----------------------------------------------------------------------------
(* The walk *)

Init ==
    /\ stamp = [year |-> 1970, month |-> 1, day |-> 1, hour |-> 0]
    /\ hours = 0 /\ history = <<>>

Remember == history' = SubSeq(<<[stamp |-> stamp, hours |-> hours]>> \o history, 1,
                              IF Len(history) < Remembered THEN Len(history) + 1 ELSE Remembered)

(* The last hour of the day, *)
Evening ==
    /\ stamp.hour = 0
    /\ stamp' = [stamp EXCEPT !.hour = HoursPerDay - 1] /\ hours' = hours + HoursPerDay - 1 /\ Remember

(* and the first of the next one, by the calendar. *)
Midnight ==
    /\ stamp.hour # 0 /\ stamp.year <= LastYear
    /\ LET lastDay == stamp.day = daysInMonth(stamp.year, stamp.month)
           lastMonth == lastDay /\ stamp.month = 12
       IN stamp' = [year |-> IF lastMonth THEN stamp.year + 1 ELSE stamp.year,
                    month |-> IF lastMonth THEN 1 ELSE IF lastDay THEN stamp.month + 1 ELSE stamp.month,
                    day |-> IF lastDay THEN 1 ELSE stamp.day + 1, hour |-> 0]
    /\ hours' = hours + 1 /\ Remember

Next == Evening \/ Midnight
Spec == Init /\ [][Next]_vars

-----------------------------------------------------------------------------
(* Properties *)

(* The instant computed from a civil date is the number of hours that have *)
(* passed, across every month, leap day and century; after the last year   *)
(* with four digits there is none.                                         *)
InstantIsCount == currentUtcInstant = IF stamp.year <= MaxYear THEN hours ELSE None

(* A timestamp means the same instant with every offset: midnight in a     *)
(* zone ahead is an hour of the day before in UTC, and the last hour in a  *)
(* zone behind is one of the day after.                                    *)
OffsetNormalized ==
    stamp.hour = 0 /\ history # <<>> /\ stamp.year <= MaxYear =>
        LET before == history[1].stamp
        IN \A offset \in 1 .. HoursPerDay - 1 :
             /\ parseRfc3339(stamp, offset) =
                    parseRfc3339([before EXCEPT !.hour = HoursPerDay - offset], 0)
             /\ parseRfc3339(before, 0 - offset) = parseRfc3339([stamp EXCEPT !.hour = offset - 1], 0)

(* A pending update expires when exactly the configured time has passed    *)
(* since it was completed, never earlier and never later, whatever dates   *)
(* lie between and however near the end of time it is; a timeout of zero   *)
(* means that it never does.  There is no answer only if the timeout is    *)
(* not one or the clock is past its last year.                             *)
ExpiresOnTime ==
    hours <= MaxInstant =>
        \A i \in DOMAIN history, timeout \in Timeouts :
            LET answer == healthConfirmationExpired(parseRfc3339(history[i].stamp, 0), timeout)
                due == timeout > 0 /\ hours - history[i].hours >= timeout
            IN history[i].stamp.year <= MaxYear =>
                 IF answer = "fail"
                 THEN ~ validHealthConfirmationTimeout(timeout) \/ stamp.year > MaxYear
                 ELSE answer = "expired" <=> due
=============================================================================
