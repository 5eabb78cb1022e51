------------------------- MODULE UpdatePlannerProofs -------------------------
(***************************************************************************)
(* Proofs about UpdatePlanner for any versions, targets, manifests, number *)
(* of checks and interferences: which version an installation goes to, and *)
(* what a plan does to its files.                                          *)
(***************************************************************************)
EXTENDS UpdatePlanner, TLAPS

-----------------------------------------------------------------------------
(* The invariant. *)

Kinds == Hashes \union {"unlisted", "remove"}
Files == {t \in Targets : manifest.entries[t] \in Hashes}
Wanted(t) == manifest.entries[t]

(* The values of the variables. *)
ValuesInv ==
    /\ TypeOK
    /\ pc \in {"idle", "snapshot", "plan", "decided"} /\ foreign \in Nat
    /\ pc # "idle" => manifest \in Manifests
    /\ previous # None => previous.version \in Versions /\ previous.installed \in [Targets -> Contents]

(* The manifest that was applied is the one that runs, and is no plan. *)
AgainInv == again => manifest \in Manifests /\ manifest.version = current /\ pc # "decided"

(* The snapshot is what is installed, but for what others changed. *)
SnapshotInv ==
    pc \in {"plan", "decided"} =>
        /\ DOMAIN snapshot = Files
        /\ \A t \in Files \ disturbed : snapshot[t] = installed[t]

(* A decision holds until it is carried out. *)
DecisionInv ==
    pc = "decided" =>
        /\ UpdateAvailable /\ (isDowngrade => downgradeAuthorized)
        /\ Managed /\ operations = Operations

PlannerInv == ValuesInv /\ AgainInv /\ SnapshotInv /\ DecisionInv

-----------------------------------------------------------------------------
(* The operators. *)

(* The higher of two versions. *)
LEMMA Higher ==
    ASSUME NEW a \in Nat, NEW b \in Nat
    PROVE  Max({a, b}) \in {a, b} /\ Max({a, b}) >= a /\ Max({a, b}) >= b
<1>1. \E x \in {a, b} : \A y \in {a, b} : x >= y
  <2>1. CASE a >= b
    BY <2>1
  <2>2. CASE b >= a
    BY <2>2
  <2>3. QED
    BY <2>1, <2>2
<1>2. PICK m \in {a, b} : m = Max({a, b}) /\ \A y \in {a, b} : m >= y
  BY <1>1 DEF Max
<1>3. QED
  BY <1>2

(* What a manifest is made of. *)
LEMMA ManifestIs ==
    ASSUME NEW m \in Manifests
    PROVE  m.version \in Versions /\ m.entries \in [Targets -> Kinds]
BY DEF Manifests, Kinds

(* An available update that is no unauthorized downgrade goes above the    *)
(* running and the last accepted version.                                  *)
LEMMA AvailableIsAbove ==
    ASSUME ValuesInv, manifest \in Manifests, UpdateAvailable, isDowngrade => downgradeAuthorized,
           ~ (~ rejectDowngrade /\ requireManifestSignature /\ manifest.allowDowngrade)
    PROVE  manifest.version > current /\ (lastAccepted # None => manifest.version >= lastAccepted)
<1>1. /\ manifest.version \in Nat /\ current \in Nat /\ (lastAccepted # None => lastAccepted \in Nat)
  BY ManifestIs, PlannerAssumption DEF ValuesInv, TypeOK
<1>2. ~ downgradeAuthorized
  BY DEF downgradeAuthorized
<1>3. current < manifest.version /\ ~ isDowngrade
  BY <1>2 DEF UpdateAvailable
<1>4. lastAccepted # None => manifest.version >= lastAccepted
  <2>1. SUFFICES ASSUME lastAccepted # None PROVE manifest.version >= lastAccepted
    OBVIOUS
  <2>2. downgradeBaseline = Max({current, lastAccepted}) /\ lastAccepted \in Nat
    BY <1>1, <2>1 DEF downgradeBaseline
  <2>3. downgradeBaseline >= lastAccepted /\ downgradeBaseline \in Nat
    BY <1>1, <2>2, Higher
  <2>4. ~ (manifest.version < downgradeBaseline)
    BY <1>3 DEF isDowngrade
  <2>5. QED
    BY <1>1, <2>2, <2>3, <2>4
<1>5. QED
  BY <1>1, <1>3, <1>4

(* What a plan has for a target: what the manifest says of it. *)
LEMMA OperationsAre ==
    ASSUME manifest \in Manifests, DOMAIN snapshot = Files
    PROVE  /\ \A o \in Operations : o.target \in Targets /\ o.content \in Contents
           /\ \A o \in Operations : manifest.entries[o.target] \in Hashes => o.content = Wanted(o.target)
           /\ \A o \in Operations : manifest.entries[o.target] = "remove" => o.content = Missing
           /\ \A o \in Operations : manifest.entries[o.target] # "unlisted"
           /\ \A t \in Files : snapshot[t] # Wanted(t) => \E o \in Operations : o.target = t
           /\ \A t \in Targets : manifest.entries[t] = "remove" => \E o \in Operations : o.target = t
<1> DEFINE Gone == {t \in Targets : manifest.entries[t] = "remove"}
<1>1. \A o \in Operations :
         \/ \E t \in Files : o = [target |-> t, content |-> Wanted(t)]
         \/ \E t \in Gone : o = [target |-> t, content |-> Missing]
  BY DEF Operations, Wanted
<1>2. \A t \in Files : snapshot[t] # Wanted(t) => [target |-> t, content |-> Wanted(t)] \in Operations
  BY DEF Operations, NeedsDownload, Wanted
<1>3. \A t \in Gone : [target |-> t, content |-> Missing] \in Operations
  BY DEF Operations
<1>4. \A o \in Operations :
         /\ o.target \in Targets /\ o.content \in Contents
         /\ \/ o.target \in Files /\ o.content = Wanted(o.target)
            \/ o.target \in Gone /\ o.content = Missing
  BY <1>1 DEF Files, Contents, Wanted
<1>5. \A t \in Files : snapshot[t] # Wanted(t) => \E o \in Operations : o.target = t
  <2>1. TAKE t \in Files
  <2>2. HAVE snapshot[t] # Wanted(t)
  <2>3. [target |-> t, content |-> Wanted(t)] \in Operations
    BY <1>2, <2>2
  <2>4. WITNESS [target |-> t, content |-> Wanted(t)] \in Operations
  <2>5. QED
    OBVIOUS
<1>6. \A t \in Gone : \E o \in Operations : o.target = t
  <2>1. TAKE t \in Gone
  <2>2. [target |-> t, content |-> Missing] \in Operations
    BY <1>3
  <2>3. WITNESS [target |-> t, content |-> Missing] \in Operations
  <2>4. QED
    OBVIOUS
<1>7. "remove" \notin Hashes /\ "unlisted" \notin Hashes
  BY PlannerAssumption
<1>8. QED
  BY <1>4, <1>5, <1>6, <1>7 DEF Files

-----------------------------------------------------------------------------
(* The steps. *)

(* What a decision rests on is not changed behind it. *)
LEMMA DecisionStays ==
    ASSUME UNCHANGED <<rejectDowngrade, requireManifestSignature, whitelist, current, lastAccepted, manifest, snapshot>>
    PROVE  /\ UpdateAvailable' <=> UpdateAvailable
           /\ (isDowngrade => downgradeAuthorized)' <=> (isDowngrade => downgradeAuthorized)
           /\ Managed' <=> Managed
           /\ Operations' = Operations
           /\ Files' = Files
<1>1. isDowngrade' <=> isDowngrade
  <2>1. downgradeBaseline' = downgradeBaseline
    BY DEF downgradeBaseline
  <2>2. QED
    BY <2>1 DEF isDowngrade
<1>2. downgradeAuthorized' <=> downgradeAuthorized
  BY <1>1 DEF downgradeAuthorized
<1>3. UpdateAvailable' <=> UpdateAvailable
  BY <1>2 DEF UpdateAvailable
<1>4. Managed' <=> Managed
  BY DEF Managed, Listed
<1>5. Operations' = Operations
  BY DEF Operations, NeedsDownload
<1>6. Files' = Files
  BY DEF Files
<1>7. QED
  BY <1>1, <1>2, <1>3, <1>4, <1>5, <1>6

(* A check begins: with a manifest of the server, or the applied one. *)
LEMMA FetchInv ==
    ASSUME PlannerInv, Fetch
    PROVE  PlannerInv'
<1>1. /\ pc = "idle" /\ pc' = "snapshot"
      /\ UNCHANGED <<rejectDowngrade, requireManifestSignature, whitelist, current, lastAccepted, installed, previous,
                     snapshot, operations, disturbed, foreign>>
      /\ decision' = "none"
      /\ \/ manifest' \in Manifests /\ again' = FALSE
         \/ again /\ manifest' = manifest /\ again' = again
  BY DEF Fetch, config, local, plan
<1>2. manifest' \in Manifests
  BY <1>1 DEF PlannerInv, AgainInv
<1>3. ValuesInv'
  BY <1>1, <1>2 DEF PlannerInv, ValuesInv, TypeOK
<1>4. AgainInv'
  BY <1>1, <1>2 DEF PlannerInv, AgainInv
<1>5. SnapshotInv' /\ DecisionInv'
  BY <1>1 DEF SnapshotInv, DecisionInv
<1>6. QED
  BY <1>3, <1>4, <1>5 DEF PlannerInv

(* Every step that forgets the manifest. *)
LEMMA ForgetInv ==
    ASSUME PlannerInv, Forget, current' \in Versions, lastAccepted' \in Versions \union {None},
           installed' \in [Targets -> Contents], decision' \in {"none", "update", "reinstall", "fail"},
           foreign' \in Nat, previous' \in {None, previous}
    PROVE  PlannerInv'
<1>1. pc' = "idle" /\ again' = FALSE /\ manifest' = None /\ operations' = {}
  BY DEF Forget
<1>2. ValuesInv'
  BY <1>1 DEF PlannerInv, ValuesInv, TypeOK
<1>3. AgainInv' /\ SnapshotInv' /\ DecisionInv'
  BY <1>1 DEF AgainInv, SnapshotInv, DecisionInv
<1>4. QED
  BY <1>2, <1>3 DEF PlannerInv

(* The installed files are looked at. *)
LEMMA SnapshotStepInv ==
    ASSUME PlannerInv, buildLocalSnapshot
    PROVE  PlannerInv'
<1>1. /\ pc = "snapshot"
      /\ UNCHANGED <<rejectDowngrade, requireManifestSignature, whitelist, current, lastAccepted, installed, previous,
                     decision, foreign>>
      /\ \/ /\ snapshot' = [t \in Files |-> installed[t]] /\ pc' = "plan"
            /\ UNCHANGED <<manifest, again, operations>>
         \/ Forget
  BY DEF buildLocalSnapshot, config, local, Files
<1>2. CASE Forget
  BY <1>1, <1>2, ForgetInv DEF PlannerInv, ValuesInv, TypeOK
<1>3. CASE /\ snapshot' = [t \in Files |-> installed[t]] /\ pc' = "plan"
           /\ UNCHANGED <<manifest, again, operations>>
  <2>1. ValuesInv'
    BY <1>1, <1>3 DEF PlannerInv, ValuesInv, TypeOK
  <2>2. AgainInv'
    BY <1>1, <1>3 DEF PlannerInv, AgainInv
  <2>3. SnapshotInv'
    <3>1. Files' = Files
      BY <1>3 DEF Files
    <3>2. DOMAIN snapshot' = Files /\ \A t \in Files : snapshot'[t] = installed[t]
      BY <1>3
    <3>3. QED
      BY <1>1, <3>1, <3>2 DEF SnapshotInv
  <2>4. DecisionInv'
    BY <1>3 DEF DecisionInv
  <2>5. QED
    BY <2>1, <2>2, <2>3, <2>4 DEF PlannerInv
<1>4. QED
  BY <1>1, <1>2, <1>3

(* The decision. *)
LEMMA PlanInv ==
    ASSUME PlannerInv, planUpdate
    PROVE  PlannerInv'
<1>1. /\ pc = "plan"
      /\ UNCHANGED <<rejectDowngrade, requireManifestSignature, whitelist, current, lastAccepted, installed, previous,
                     foreign>>
      /\ \/ /\ UpdateAvailable /\ (isDowngrade => downgradeAuthorized) /\ Managed
            /\ decision' = "update" /\ operations' = Operations /\ pc' = "decided"
            /\ UNCHANGED <<manifest, again, snapshot, disturbed>>
         \/ Forget /\ decision' \in {"none", "reinstall", "fail"}
  BY DEF planUpdate, config, local
<1>2. CASE Forget /\ decision' \in {"none", "reinstall", "fail"}
  BY <1>1, <1>2, ForgetInv DEF PlannerInv, ValuesInv, TypeOK
<1>3. CASE /\ UpdateAvailable /\ (isDowngrade => downgradeAuthorized) /\ Managed
           /\ decision' = "update" /\ operations' = Operations /\ pc' = "decided"
           /\ UNCHANGED <<manifest, again, snapshot, disturbed>>
  <2>1. manifest \in Manifests /\ DOMAIN snapshot = Files
    BY <1>1 DEF PlannerInv, ValuesInv, SnapshotInv
  <2>2. /\ UpdateAvailable' <=> UpdateAvailable
        /\ (isDowngrade => downgradeAuthorized)' <=> (isDowngrade => downgradeAuthorized)
        /\ Managed' <=> Managed
        /\ Operations' = Operations /\ Files' = Files
    BY <1>1, <1>3, DecisionStays
  <2>3. ValuesInv'
    <3>1. \A o \in operations' : o.target \in Targets /\ o.content \in Contents
      BY <1>3, <2>1, OperationsAre
    <3>2. QED
      BY <1>1, <1>3, <2>1, <3>1 DEF PlannerInv, ValuesInv, TypeOK
  <2>4. AgainInv'
    <3>1. again => manifest.version = current /\ current \in Nat
      BY PlannerAssumption DEF PlannerInv, AgainInv, ValuesInv, TypeOK
    <3>2. ~ again
      BY <1>3, <3>1 DEF UpdateAvailable
    <3>3. QED
      BY <1>3, <3>2 DEF AgainInv
  <2>5. SnapshotInv'
    BY <1>1, <1>3, <2>2 DEF PlannerInv, SnapshotInv
  <2>6. DecisionInv'
    BY <1>3, <2>2 DEF DecisionInv
  <2>7. QED
    BY <2>3, <2>4, <2>5, <2>6 DEF PlannerInv
<1>4. QED
  BY <1>1, <1>2, <1>3

(* What the transaction makes of a target. *)
LEMMA Applied ==
    ASSUME PlannerInv, Apply
    PROVE  /\ installed' \in [Targets -> Contents]
           /\ \A t \in Targets : t \notin disturbed \/ (\E o \in operations : o.target = t) =>
                 /\ manifest.entries[t] \in Hashes => installed'[t] = Wanted(t)
                 /\ manifest.entries[t] = "remove" => installed'[t] = Missing
           /\ \A t \in Targets \ whitelist : installed'[t] = installed[t]
<1> DEFINE Ops(t) == {o \in operations : o.target = t}
           New(t) == IF Ops(t) = {} THEN installed[t] ELSE (CHOOSE o \in Ops(t) : TRUE).content
<1>1. pc = "decided" /\ installed' = [t \in Targets |-> New(t)]
  BY DEF Apply
<1>2. /\ manifest \in Manifests /\ DOMAIN snapshot = Files /\ operations = Operations /\ Managed
      /\ installed \in [Targets -> Contents] /\ (\A t \in Files \ disturbed : snapshot[t] = installed[t])
  BY <1>1 DEF PlannerInv, ValuesInv, TypeOK, SnapshotInv, DecisionInv
<1>3. /\ \A o \in operations : o.target \in Targets /\ o.content \in Contents
      /\ \A o \in operations : manifest.entries[o.target] \in Hashes => o.content = Wanted(o.target)
      /\ \A o \in operations : manifest.entries[o.target] = "remove" => o.content = Missing
      /\ \A o \in operations : manifest.entries[o.target] # "unlisted"
      /\ \A t \in Files : snapshot[t] # Wanted(t) => \E o \in operations : o.target = t
      /\ \A t \in Targets : manifest.entries[t] = "remove" => \E o \in operations : o.target = t
  BY <1>2, OperationsAre
<1>4. \A t \in Targets : Ops(t) # {} => \E o \in operations : o.target = t /\ New(t) = o.content
  <2>1. ASSUME NEW t \in Targets, Ops(t) # {} PROVE \E o \in operations : o.target = t /\ New(t) = o.content
    <3>1. PICK o \in Ops(t) : o = CHOOSE p \in Ops(t) : TRUE
      BY <2>1
    <3>2. QED
      BY <2>1, <3>1
  <2>2. QED
    BY <2>1
<1>5. \A t \in Targets : Ops(t) = {} => New(t) = installed[t]
  OBVIOUS
<1>6. \A t \in Targets : (\E o \in operations : o.target = t) => Ops(t) # {}
  OBVIOUS
<1> HIDE DEF Ops, New
<1>7. \A t \in Targets : New(t) \in Contents
  BY <1>2, <1>3, <1>4, <1>5
<1>8. ASSUME NEW t \in Targets, t \notin disturbed \/ (\E o \in operations : o.target = t)
      PROVE  /\ manifest.entries[t] \in Hashes => New(t) = Wanted(t)
             /\ manifest.entries[t] = "remove" => New(t) = Missing
  <2>1. CASE Ops(t) # {}
    BY <1>3, <1>4, <2>1
  <2>2. CASE Ops(t) = {}
    <3>1. manifest.entries[t] # "remove"
      BY <1>3, <1>6, <2>2
    <3>0. t \notin disturbed
      BY <1>6, <1>8, <2>2
    <3>2. manifest.entries[t] \in Hashes => t \in Files /\ snapshot[t] = Wanted(t)
      BY <1>3, <1>6, <2>2 DEF Files
    <3>3. QED
      BY <1>2, <1>5, <2>2, <3>0, <3>1, <3>2
  <2>3. QED
    BY <2>1, <2>2
<1>9. ASSUME NEW t \in Targets, t \notin whitelist PROVE New(t) = installed[t]
  <2>1. manifest.entries[t] = "unlisted"
    BY <1>2, <1>9 DEF Managed, Listed
  <2>2. Ops(t) = {}
    BY <1>3, <1>4, <2>1
  <2>3. QED
    BY <1>5, <2>2
<1>10. QED
  BY <1>1, <1>7, <1>8, <1>9

(* The update is installed and runs. *)
LEMMA ApplyInv ==
    ASSUME PlannerInv, Apply
    PROVE  PlannerInv'
<1>1. /\ pc = "decided" /\ pc' = "idle" /\ current' = manifest.version
      /\ previous' = [version |-> current, installed |-> installed]
      /\ operations' = {} /\ UNCHANGED <<lastAccepted, manifest, decision, foreign>>
  BY DEF Apply
<1>2. manifest \in Manifests /\ manifest.version \in Versions
  BY <1>1, ManifestIs DEF PlannerInv, ValuesInv
<1>3. previous'.version = current /\ previous'.installed = installed
  BY <1>1
<1>4. ValuesInv'
  <2>1. installed' \in [Targets -> Contents]
    BY Applied
  <2>2. QED
    BY <1>1, <1>2, <1>3, <2>1 DEF PlannerInv, ValuesInv, TypeOK
<1>5. AgainInv'
  BY <1>1, <1>2 DEF AgainInv
<1>6. SnapshotInv' /\ DecisionInv'
  BY <1>1 DEF SnapshotInv, DecisionInv
<1>7. QED
  BY <1>4, <1>5, <1>6 DEF PlannerInv

(* What follows: given up, confirmed or rolled back. *)
LEMMA AfterInv ==
    ASSUME PlannerInv, Abandon \/ Confirm \/ RollBack
    PROVE  PlannerInv'
<1>1. CASE Abandon
  <2>1. Forget /\ UNCHANGED <<current, lastAccepted, installed, previous, decision, foreign>>
    BY <1>1 DEF Abandon, local
  <2>2. QED
    BY <2>1, ForgetInv DEF PlannerInv, ValuesInv, TypeOK
<1>2. CASE RollBack
  <2>1. /\ Forget /\ UNCHANGED <<lastAccepted, decision, foreign>> /\ previous # None
        /\ current' = previous.version /\ installed' = previous.installed /\ previous' = None
    BY <1>2 DEF RollBack
  <2>2. QED
    BY <2>1, ForgetInv DEF PlannerInv, ValuesInv, TypeOK
<1>3. CASE Confirm
  <2>1. /\ pc = "idle" /\ lastAccepted' = current /\ previous' = None
        /\ UNCHANGED <<current, installed, pc, manifest, again, decision, operations, foreign>>
    BY <1>3 DEF Confirm, plan
  <2>2. ValuesInv'
    BY <2>1 DEF PlannerInv, ValuesInv, TypeOK
  <2>3. AgainInv' /\ SnapshotInv' /\ DecisionInv'
    BY <2>1 DEF PlannerInv, AgainInv, SnapshotInv, DecisionInv
  <2>4. QED
    BY <2>2, <2>3 DEF PlannerInv
<1>4. QED
  BY <1>1, <1>2, <1>3

(* Another program changes an installed file. *)
LEMMA ForeignInv ==
    ASSUME PlannerInv, Foreign
    PROVE  PlannerInv'
<1>1. PICK t \in Targets, content \in Contents :
         /\ installed' = [installed EXCEPT ![t] = content]
         /\ disturbed' = IF pc \in {"plan", "decided"} THEN disturbed \union {t} ELSE {}
  BY DEF Foreign
<1>2. /\ foreign' = foreign + 1
      /\ UNCHANGED <<rejectDowngrade, requireManifestSignature, whitelist, current, lastAccepted, previous, pc, manifest,
                     again, snapshot, decision, operations>>
  BY DEF Foreign, config, plan
<1>3. installed' \in [Targets -> Contents] /\ \A u \in Targets : u # t => installed'[u] = installed[u]
  BY <1>1 DEF PlannerInv, ValuesInv, TypeOK, Contents
<1>4. ValuesInv'
  BY <1>2, <1>3 DEF PlannerInv, ValuesInv, TypeOK
<1>5. AgainInv'
  BY <1>2 DEF PlannerInv, AgainInv
<1>6. /\ UpdateAvailable' <=> UpdateAvailable
      /\ (isDowngrade => downgradeAuthorized)' <=> (isDowngrade => downgradeAuthorized)
      /\ Managed' <=> Managed
      /\ Operations' = Operations /\ Files' = Files
  BY <1>2, DecisionStays
<1>7. SnapshotInv'
  <2>1. Files \subseteq Targets
    BY DEF Files
  <2>2. QED
    BY <1>1, <1>2, <1>3, <1>6, <2>1 DEF PlannerInv, SnapshotInv
<1>8. DecisionInv'
  BY <1>2, <1>6 DEF PlannerInv, DecisionInv
<1>9. QED
  BY <1>4, <1>5, <1>7, <1>8 DEF PlannerInv

-----------------------------------------------------------------------------
(* The theorems. *)

(* The initial states. *)
LEMMA InitInv ==
    ASSUME Init
    PROVE  PlannerInv
<1>1. installed \in [Targets -> Contents]
  BY PlannerAssumption DEF Init
<1>2. ValuesInv
  BY <1>1 DEF Init, ValuesInv, TypeOK
<1>3. AgainInv /\ SnapshotInv /\ DecisionInv
  BY DEF Init, AgainInv, SnapshotInv, DecisionInv
<1>4. QED
  BY <1>2, <1>3 DEF PlannerInv

(* Every step keeps the invariant. *)
LEMMA NextInv ==
    ASSUME PlannerInv, [Next]_vars
    PROVE  PlannerInv'
<1>1. CASE UNCHANGED vars
  <2>1. UNCHANGED <<rejectDowngrade, requireManifestSignature, whitelist, current, lastAccepted, installed, previous, pc,
                    manifest, again, snapshot, decision, operations, disturbed, foreign>>
    BY <1>1 DEF vars, config, local, plan
  <2>2. /\ UpdateAvailable' <=> UpdateAvailable
        /\ (isDowngrade => downgradeAuthorized)' <=> (isDowngrade => downgradeAuthorized)
        /\ Managed' <=> Managed
        /\ Operations' = Operations /\ Files' = Files
    BY <2>1, DecisionStays
  <2>3. ValuesInv'
    BY <2>1 DEF PlannerInv, ValuesInv, TypeOK
  <2>4. AgainInv' /\ SnapshotInv' /\ DecisionInv'
    BY <2>1, <2>2 DEF PlannerInv, AgainInv, SnapshotInv, DecisionInv
  <2>5. QED
    BY <2>3, <2>4 DEF PlannerInv
<1>2. QED
  BY <1>1, FetchInv, SnapshotStepInv, PlanInv, ApplyInv, AfterInv, ForeignInv DEF Next

(* The invariant of the planner over the life of an installation. *)
THEOREM PlannerInvariance == Spec => []PlannerInv
<1>1. Init => PlannerInv
  BY InitInv
<1>2. PlannerInv /\ [Next]_vars => PlannerInv'
  BY NextInv
<1>3. QED
  BY <1>1, <1>2, PTL DEF Spec

(* Only the transaction and foreign programs change anything while a       *)
(* decision stands.                                                        *)
LEMMA DecidedSteps ==
    ASSUME pc = "decided", Next
    PROVE  \/ Apply
           \/ UNCHANGED <<current, lastAccepted, previous, installed>>
           \/ UNCHANGED <<current, lastAccepted, previous>> /\ foreign' = foreign + 1
<1>1. Apply \/ Abandon \/ Foreign
  BY DEF Next, Fetch, buildLocalSnapshot, planUpdate, Confirm, RollBack
<1>2. QED
  BY <1>1 DEF Abandon, Foreign, local

(* planUpdate and downgradeBaseline: over checks, rollbacks and            *)
(* confirmations the installation never goes silently below a version that *)
(* ran, and the manifest that was applied is no update again.              *)
THEOREM InstallationMovesForward == Spec => VersionsMoveForward
<1>1. PlannerInv /\ PlannerInv' /\ [Next]_vars => [NoSilentDowngrade /\ NoUpdateLoop]_vars
  <2>1. SUFFICES ASSUME PlannerInv, PlannerInv', Next PROVE NoSilentDowngrade /\ NoUpdateLoop
    OBVIOUS
  <2>2. NoUpdateLoop
    BY <2>1 DEF PlannerInv, AgainInv, NoUpdateLoop
  <2>3. NoSilentDowngrade
    <3>1. SUFFICES ASSUME pc = "decided", current' # current,
                          ~ (~ rejectDowngrade /\ requireManifestSignature /\ manifest.allowDowngrade)
                   PROVE  current' > current /\ (lastAccepted # None => current' >= lastAccepted)
      BY DEF NoSilentDowngrade
    <3>2. Apply
      BY <2>1, <3>1, DecidedSteps
    <3>3. current' = manifest.version
      BY <3>2 DEF Apply
    <3>4. ValuesInv /\ manifest \in Manifests /\ UpdateAvailable /\ (isDowngrade => downgradeAuthorized)
      BY <2>1, <3>1 DEF PlannerInv, ValuesInv, DecisionInv
    <3>5. QED
      BY <3>1, <3>3, <3>4, AvailableIsAbove
  <2>4. QED
    BY <2>2, <2>3
<1>2. QED
  BY <1>1, PlannerInvariance, PTL DEF Spec, VersionsMoveForward

(* planUpdate's operations, carried out: every file the manifest lists and *)
(* none that it removes, and nothing outside the whitelist.                *)
THEOREM PlansAreExact == Spec => PlanIsExact
<1>1. PlannerInv /\ PlannerInv' /\ [Next]_vars => [TypeOK' /\ InstalledMatches /\ ManagedOnly]_vars
  <2>1. SUFFICES ASSUME PlannerInv, PlannerInv', Next PROVE TypeOK' /\ InstalledMatches /\ ManagedOnly
    OBVIOUS
  <2>2. TypeOK'
    BY <2>1 DEF PlannerInv, ValuesInv
  <2>3. InstalledMatches
    <3>1. SUFFICES ASSUME pc = "decided", previous' # previous
                   PROVE  \A t \in Targets : t \notin disturbed \/ (\E o \in operations : o.target = t) =>
                             /\ manifest.entries[t] \in Hashes => installed'[t] = manifest.entries[t]
                             /\ manifest.entries[t] = "remove" => installed'[t] = Missing
      BY DEF InstalledMatches
    <3>2. Apply
      BY <2>1, <3>1, DecidedSteps
    <3>3. QED
      BY <2>1, <3>2, Applied DEF Wanted
  <2>4. ManagedOnly
    <3>1. SUFFICES ASSUME pc = "decided"
                   PROVE  \A t \in Targets \ whitelist : installed'[t] = installed[t] \/ foreign' # foreign
      BY DEF ManagedOnly
    <3>2. CASE Apply
      BY <2>1, <3>2, Applied
    <3>3. CASE ~ Apply
      <4>1. foreign \in Nat
        BY <2>1 DEF PlannerInv, ValuesInv
      <4>2. installed' = installed \/ foreign' = foreign + 1
        BY <2>1, <3>1, <3>3, DecidedSteps
      <4>3. QED
        BY <4>1, <4>2
    <3>4. QED
      BY <3>2, <3>3
  <2>5. QED
    BY <2>2, <2>3, <2>4
<1>2. QED
  BY <1>1, PlannerInvariance, PTL DEF Spec, PlanIsExact

=============================================================================
