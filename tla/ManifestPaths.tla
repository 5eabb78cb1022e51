--------------------------- MODULE ManifestPaths ---------------------------
(***************************************************************************)
(* Manifest::parse reads the files and the removed paths of a manifest and *)
(* decides whether they can live side by side in the staging and in the    *)
(* installation directory, also of a platform that folds the case of ASCII *)
(* letters (Manifest.cpp, PathUtil.cpp; Unicode folding is excluded in     *)
(* docs/security-model.md).  The decision is made by sorting: this module  *)
(* compares it with the pairwise definition.  The form of a single path    *)
(* (validateManagedPath: separators, reserved names, dots) is not          *)
(* examined, so that the model accepts more paths than the code.           *)
(***************************************************************************)
EXTENDS Naturals, Sequences, FiniteSets, SequencesExt

CONSTANTS
    Paths,          \* the paths a manifest may contain: sequences of the characters below
    Sizes, MaxArtifactBytes, MaxTotalBytes,
    MaxEntries,     \* bound on files and removed paths
    None

(* Characters in the order of their codes.  OwnUpper and OwnDir stand for  *)
(* the name of the updater's directory in two spellings.                   *)
Dash == 1
Slash == 2
Upper == 3
Lower == 4
OwnUpper == 5
OwnDir == 6
Tilde == 7
Characters == 1 .. 7

PathAssumption ==
    /\ Paths \subseteq Seq(Characters) /\ Sizes \subseteq Nat
    /\ {MaxArtifactBytes, MaxTotalBytes, MaxEntries} \subseteq Nat

VARIABLES files, remove, sourceEvidence, total, pc, result
vars == <<files, remove, sourceEvidence, total, pc, result>>

Init ==
    /\ files = <<>> /\ remove = <<>> /\ sourceEvidence = <<>> /\ total = 0
    /\ pc = "items" /\ result = "none"

-----------------------------------------------------------------------------
(* Keys and their order *)

(* Mutant: the separator keeps its place among the characters. *)
LookupRaw(path) ==
    [i \in DOMAIN path |-> CASE path[i] = Upper -> Lower [] path[i] = OwnUpper -> OwnDir [] OTHER -> path[i]]

(* managedPathLookupKey, portableSourceKey: letters are folded and the     *)
(* separator sorts before every character of a name.                       *)
managedPathLookupKey(path) ==
    [i \in DOMAIN path |-> CASE path[i] = Slash -> 0 [] path[i] = Upper -> Lower
                             [] path[i] = OwnUpper -> OwnDir [] OTHER -> path[i]]

Less(a, b) ==
    \/ IsStrictPrefix(a, b)
    \/ \E i \in DOMAIN a \intersect DOMAIN b :
         a[i] < b[i] /\ \A j \in 1 .. i - 1 : a[j] = b[j]

(* Keys in ascending order: a sorted vector (std::sort), and the keys of a *)
(* map.                                                                    *)
Ascending(keys) == \A i, j \in DOMAIN keys : i < j => Less(keys[i], keys[j]) \/ keys[i] = keys[j]
Permuted(keys, q) == [i \in DOMAIN keys |-> keys[q[i]]]
Sorted(keys) ==
    Permuted(keys, CHOOSE q \in Bijection(DOMAIN keys, DOMAIN keys) : Ascending(Permuted(keys, q)))
InOrder(keys) == CHOOSE s \in Bijection(1 .. Cardinality(keys), keys) : Ascending(s)

(* Mutant: any prefix counts as a parent. *)
FollowsPrefix(previous, current, separator) == IsStrictPrefix(previous, current)

Follows(previous, current, separator) == IsPrefix(Append(previous, separator), current)
Separator == managedPathLookupKey(<<Slash>>)[1]

Target(file) == IF file.localPath = None THEN file.path ELSE file.localPath
ManagedTargets == [i \in DOMAIN files |-> Target(files[i])] \o remove

(* Mutant: the reserved name is compared without folding. *)
TargetSpelled(path) == path[1] # OwnDir

(* validateManagedTargetPath: the updater's own directory, and names that  *)
(* may be an alias of it, are refused.                                     *)
validateManagedTargetPath(path) ==
    LET first == SelectInSeq(path, LAMBDA c : c = Slash)
        segment == IF first = 0 THEN path ELSE SubSeq(path, 1, first - 1)
    IN managedPathLookupKey(segment) # <<OwnDir>> /\ ~ Contains(segment, Tilde)

(* Adjacent keys of the sorted targets. *)
validateManagedTargetPaths(paths) ==
    LET keys == Sorted([i \in DOMAIN paths |-> managedPathLookupKey(paths[i])])
    IN /\ \A i \in DOMAIN paths : validateManagedTargetPath(paths[i])
       /\ \A i \in 2 .. Len(keys) :
            keys[i - 1] # keys[i] /\ ~ Follows(keys[i - 1], keys[i], Separator)

(* The source keys, in the order of the map. *)
validateSourceTopology ==
    LET keys == InOrder(DOMAIN sourceEvidence)
    IN \A i \in 2 .. Len(keys) : ~ Follows(keys[i - 1], keys[i], Separator)

-----------------------------------------------------------------------------
(* The loop of Manifest::parse *)

Refuse == pc' = "done" /\ result' = "fail"
Continue == UNCHANGED <<pc, result>>

(* Mutant: a source is remembered by its spelling. *)
SourceSpelled(path) == path
SourceKey(path) == managedPathLookupKey(path)

(* Mutant: the total is checked before the file is counted. *)
FitsBefore(size) == total <= MaxTotalBytes
Fits(size) == size <= MaxArtifactBytes /\ total + size <= MaxTotalBytes

(* Files may share a source when they agree on its size and digest, which  *)
(* one number stands for.                                                  *)
AddFile ==
    /\ pc = "items" /\ Len(files) + Len(remove) < MaxEntries
    /\ \E path \in Paths, localPath \in Paths \union {None}, size \in Sizes :
         LET key == SourceKey(path)
             known == key \in DOMAIN sourceEvidence
             agrees == known => sourceEvidence[key] = size
         IN \/ /\ Fits(size) /\ agrees
               /\ files' = Append(files, [path |-> path, localPath |-> localPath, size |-> size])
               /\ sourceEvidence' = [k \in DOMAIN sourceEvidence \union {key} |->
                                        IF k = key THEN size ELSE sourceEvidence[k]]
               /\ total' = total + size /\ Continue
            \/ /\ ~ (Fits(size) /\ agrees)
               /\ Refuse /\ UNCHANGED <<files, sourceEvidence, total>>
    /\ UNCHANGED remove

AddRemove ==
    /\ pc = "items" /\ Len(files) + Len(remove) < MaxEntries
    /\ \E path \in Paths : remove' = Append(remove, path)
    /\ Continue /\ UNCHANGED <<files, sourceEvidence, total>>

Finish ==
    /\ pc = "items" /\ pc' = "done"
    /\ result' = IF validateSourceTopology /\ validateManagedTargetPaths(ManagedTargets) THEN "ok" ELSE "conflict"
    /\ UNCHANGED <<files, remove, sourceEvidence, total>>

Next == AddFile \/ AddRemove \/ Finish
Spec == Init /\ [][Next]_vars

-----------------------------------------------------------------------------
(* Properties, in terms of what a case-insensitive file system does *)

TypeOK ==
    /\ result \in {"none", "ok", "fail", "conflict"} /\ Len(files) + Len(remove) <= MaxEntries
    /\ total <= MaxTotalBytes /\ \A i \in DOMAIN files : SourceKey(files[i].path) \in DOMAIN sourceEvidence

Folded(path) ==
    [i \in DOMAIN path |-> CASE path[i] = Upper -> Lower [] path[i] = OwnUpper -> OwnDir [] OTHER -> path[i]]
Inside(p, q) == IsPrefix(Append(Folded(p), Slash), Folded(q))
Clash(p, q) == Folded(p) = Folded(q) \/ Inside(p, q) \/ Inside(q, p)

(* Accepted targets never name one file twice, nor a file and a directory  *)
(* of the same name, also where names that differ in the case of ASCII     *)
(* letters are the same: no operation destroys the target of another.      *)
TargetsDisjoint ==
    result = "ok" => \A i, j \in DOMAIN ManagedTargets : i # j => ~ Clash(ManagedTargets[i], ManagedTargets[j])

(* Two artifacts that share a name in the staging directory are the same   *)
(* artifact, and none lies below another.                                  *)
SourcesStageable ==
    result = "ok" => \A i, j \in DOMAIN files :
        /\ ~ Inside(files[i].path, files[j].path)
        /\ Folded(files[i].path) = Folded(files[j].path) => files[i].size = files[j].size

(* No target lies in the directory of the updater's own state. *)
StateUntouched ==
    result = "ok" => \A i \in DOMAIN ManagedTargets :
        LET t == Folded(ManagedTargets[i]) IN t # <<OwnDir>> /\ ~ IsPrefix(<<OwnDir, Slash>>, t)

(* A manifest is refused for a conflict only if there is one: looking at   *)
(* neighbours loses nothing and invents nothing.                           *)
RefusalJustified ==
    result = "conflict" =>
        \/ \E i, j \in DOMAIN ManagedTargets : i # j /\ Clash(ManagedTargets[i], ManagedTargets[j])
        \/ \E i, j \in DOMAIN files : Inside(files[i].path, files[j].path)
        \/ \E i \in DOMAIN ManagedTargets : Contains(ManagedTargets[i], Tilde)
        \/ \E i \in DOMAIN ManagedTargets : Folded(ManagedTargets[i])[1] = OwnDir
=============================================================================
