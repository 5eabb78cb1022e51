---------------------------- MODULE VersionOrder ----------------------------
(***************************************************************************)
(* The comparison of versions (Version.cpp).  The planner's decisions and  *)
(* the refusal of downgrades rest on it: a pair it orders wrongly is an    *)
(* update never offered or a downgrade never noticed.  Prerelease          *)
(* identifiers are texts, characters in the order of their codes: 0 stands *)
(* for "-", 1 to 10 for the digits and 11 for a letter.  A number is       *)
(* compared as text, never as an integer, so it may have any length.       *)
(***************************************************************************)
EXTENDS Integers, Sequences, SequencesExt

CONSTANTS
    Cores,          \* the triples major, minor, patch
    Identifiers,    \* prerelease identifiers
    MaxIdentifiers  \* bound

VersionAssumption ==
    Cores \subseteq [1 .. 3 -> Nat] /\ Identifiers \subseteq Seq(0 .. 11) /\ MaxIdentifiers \in Nat

Prereleases == UNION {[1 .. n -> Identifiers] : n \in 0 .. MaxIdentifiers}

VARIABLES left, right, compared
vars == <<left, right, compared>>

isAsciiDigit(c) == c \in 1 .. 10
isNumericIdentifier(text) == text # <<>> /\ \A i \in DOMAIN text : isAsciiDigit(text[i])

(* parse refuses an empty identifier and leading zeroes. *)
validDotIdentifiers(parts) ==
    \A i \in DOMAIN parts : parts[i] # <<>> /\ (isNumericIdentifier(parts[i]) /\ Len(parts[i]) > 1 => parts[i][1] # 1)

TextLess(a, b) ==
    \/ IsStrictPrefix(a, b)
    \/ \E i \in DOMAIN a \intersect DOMAIN b : a[i] < b[i] /\ \A j \in 1 .. i - 1 : a[j] = b[j]

Sign(less, greater) == IF less THEN -1 ELSE IF greater THEN 1 ELSE 0
compareText(a, b) == Sign(TextLess(a, b), TextLess(b, a))

(* Mutant: numbers are compared as text only. *)
CompareAsText(a, b) == compareText(a, b)

compareNumericIdentifier(a, b) ==
    IF Len(a) # Len(b) THEN Sign(Len(a) < Len(b), TRUE) ELSE compareText(a, b)

compareIdentifier(a, b) ==
    CASE isNumericIdentifier(a) /\ isNumericIdentifier(b) -> compareNumericIdentifier(a, b)
      [] isNumericIdentifier(a) # isNumericIdentifier(b) -> IF isNumericIdentifier(a) THEN -1 ELSE 1
      [] OTHER -> compareText(a, b)

(* The first difference decides; a release is above its prereleases. *)
comparePrerelease(a, b) ==
    LET different == {i \in DOMAIN a \intersect DOMAIN b : compareIdentifier(a[i], b[i]) # 0}
    IN CASE a = <<>> /\ b = <<>> -> 0 [] a = <<>> /\ b # <<>> -> 1 [] a # <<>> /\ b = <<>> -> -1
         [] different # {} -> LET i == CHOOSE k \in different : \A j \in different : k <= j
                              IN compareIdentifier(a[i], b[i])
         [] OTHER -> Sign(Len(a) < Len(b), Len(a) > Len(b))

(* Mutant: a release equals its prereleases. *)
EqualCore(v, w) == v.core = w.core

(* operator== and operator<; build metadata takes part in neither. *)
VersionEqual(v, w) == v.core = w.core /\ v.prerelease = w.prerelease
VersionLess(v, w) ==
    IF v.core # w.core THEN TextLess(v.core, w.core) ELSE comparePrerelease(v.prerelease, w.prerelease) < 0

Parsed == {v \in [core: Cores, prerelease: Prereleases] : validDotIdentifiers(v.prerelease)}

(* Two versions that somebody compares. *)
Init ==
    /\ left \in Parsed /\ right \in Parsed /\ compared = "no"

Compare ==
    /\ compared = "no"
    /\ compared' = CASE VersionLess(left, right) -> "less" [] VersionEqual(left, right) -> "equal"
                     [] OTHER -> "greater"
    /\ UNCHANGED <<left, right>>

Next == Compare
Spec == Init /\ [][Next]_vars

-----------------------------------------------------------------------------
(* Properties *)

(* Precedence of semantic versions, by value: each identifier is a number  *)
(* or a word, and numbers are below words.                                 *)
ValueOfFirst(text) ==
    LET value[n \in 0 .. Len(text)] == IF n = 0 THEN 0 ELSE 10 * value[n - 1] + text[n] - 1
    IN value
Value(text) == ValueOfFirst(text)[Len(text)]
Above(a, b) ==
    \/ isNumericIdentifier(b) /\ ~ isNumericIdentifier(a)
    \/ isNumericIdentifier(a) /\ isNumericIdentifier(b) /\ Value(a) > Value(b)
    \/ ~ isNumericIdentifier(a) /\ ~ isNumericIdentifier(b) /\ TextLess(b, a)
Precedes(v, w) ==
    \/ \E i \in 1 .. 3 : v.core[i] < w.core[i] /\ \A j \in 1 .. i - 1 : v.core[j] = w.core[j]
    \/ /\ v.core = w.core /\ v.prerelease # <<>>
       /\ \/ w.prerelease = <<>> \/ IsStrictPrefix(v.prerelease, w.prerelease)
          \/ \E i \in DOMAIN v.prerelease \intersect DOMAIN w.prerelease :
               Above(w.prerelease[i], v.prerelease[i])
               /\ \A j \in 1 .. i - 1 : v.prerelease[j] = w.prerelease[j]

(* The comparison of texts is the precedence of semantic versions. *)
ComparesByPrecedence == compared = "less" <=> compared # "no" /\ Precedes(left, right)

(* Exactly one of below, equal and above holds: what is no downgrade and   *)
(* no update is the same version.                                          *)
Trichotomy ==
    /\ compared = "greater" => VersionLess(right, left)
    /\ compared = "less" => ~ VersionLess(right, left) /\ ~ VersionEqual(left, right)
=============================================================================
