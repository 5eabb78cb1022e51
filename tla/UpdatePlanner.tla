--------------------------- MODULE UpdatePlanner ---------------------------
(***************************************************************************)
(* planUpdate (UpdatePlanner.cpp) over the life of an installation: the    *)
(* server offers a manifest, buildLocalSnapshot looks at the installed     *)
(* files, the planner decides, the update is applied (ApplyTransaction),   *)
(* confirmed or rolled back, and the next check begins.  Another program   *)
(* changes files in between.  Versions are numbers: VersionOrder shows     *)
(* that their order is total.                                              *)
(***************************************************************************)
EXTENDS Naturals, FiniteSets, FiniteSetsExt

CONSTANTS
    Versions,
    MinVersions,    \* minimum client versions that manifests ask for
    Targets,        \* managed paths of the installation directory
    Whitelists,     \* the sets of targets a configuration may manage
    Hashes, Other, Missing,     \* content: what manifests ask for, anything else, nothing
    Initially,      \* what may be installed at first
    None,
    MaxChecks, MaxForeign      \* bounds

Contents == Hashes \union {Other, Missing}

ASSUME PlannerAssumption ==
    /\ Versions \subseteq Nat /\ MinVersions \subseteq Versions \union {None}
    /\ Whitelists \subseteq SUBSET Targets /\ {MaxChecks, MaxForeign} \subseteq Nat
    /\ Initially \subseteq [Targets -> Contents]
    /\ Cardinality({Other, Missing, None}) = 3
    /\ Hashes \intersect {Other, Missing, None, "unlisted", "remove"} = {}

(* What a manifest says of a target: nothing, its content, or its removal. *)
Manifests == [version: Versions, allowDowngrade: BOOLEAN, minVersion: MinVersions,
              entries: [Targets -> Hashes \union {"unlisted", "remove"}]]

VARIABLES
    rejectDowngrade, requireManifestSignature, whitelist,    \* Config
    current,        \* config.currentVersion, the version that runs
    lastAccepted,
    installed,      \* the content of every target
    pc, manifest,
    again,          \* the manifest is the one that was applied last
    snapshot, decision, operations,
    previous,       \* what a rollback restores
    disturbed,      \* files changed by others since the snapshot
    checks, foreign

config == <<rejectDowngrade, requireManifestSignature, whitelist>>
local == <<current, lastAccepted, installed, previous>>
plan == <<snapshot, decision, operations>>
vars == <<config, local, pc, manifest, again, plan, disturbed, checks, foreign>>

Init ==
    /\ rejectDowngrade \in BOOLEAN /\ requireManifestSignature \in BOOLEAN
    /\ whitelist \in Whitelists
    /\ current \in Versions /\ lastAccepted \in Versions \union {None}
    /\ installed \in Initially
    /\ pc = "idle" /\ manifest = None /\ again = FALSE
    /\ snapshot = None /\ decision = "none" /\ operations = {} /\ previous = None
    /\ disturbed = {} /\ checks = 0 /\ foreign = 0

-----------------------------------------------------------------------------
(* A check *)

(* fetchAndVerifyManifest; the flag of the envelope says whether signatures *)
(* are required (ManifestFetch!FlagMeansVerified).                          *)
Fetch ==
    /\ pc = "idle" /\ checks < MaxChecks /\ checks' = checks + 1
    /\ pc' = "snapshot" /\ decision' = "none"
    /\ \/ manifest' \in Manifests /\ again' = FALSE
       \/ again /\ UNCHANGED <<manifest, again>>
    /\ UNCHANGED <<config, local, snapshot, operations, disturbed, foreign>>

(* The check or the update ends without effect. *)
Forget ==
    /\ pc' = "idle" /\ again' = FALSE /\ manifest' = None
    /\ snapshot' = None /\ operations' = {} /\ disturbed' = {}

(* The files of the manifest; removed targets are not looked at.  A file   *)
(* may be unreadable.                                                      *)
buildLocalSnapshot ==
    /\ pc = "snapshot"
    /\ \/ /\ snapshot' = [t \in {u \in Targets : manifest.entries[u] \in Hashes} |-> installed[t]]
          /\ pc' = "plan" /\ UNCHANGED <<manifest, again, operations, disturbed>>
       \/ Forget
    /\ UNCHANGED <<config, local, decision, checks, foreign>>

Listed == {t \in Targets : manifest.entries[t] # "unlisted"}

(* Mutant: only the running version counts. *)
BaselineCurrent == current

(* The higher of the running and the last accepted version. *)
downgradeBaseline == IF lastAccepted = None THEN current ELSE Max({current, lastAccepted})

isDowngrade == manifest.version < downgradeBaseline
downgradeAuthorized ==
    isDowngrade /\ ~ rejectDowngrade /\ requireManifestSignature /\ manifest.allowDowngrade

ReinstallRequired == manifest.minVersion # None /\ current < manifest.minVersion

(* Mutant: an authorized downgrade is always an update. *)
UpdateWhenAuthorized == current < manifest.version \/ downgradeAuthorized

UpdateAvailable ==
    current < manifest.version \/ (downgradeAuthorized /\ manifest.version # current)

(* Mutant: a missing file is not downloaded. *)
NeedsChanged(t) == snapshot[t] \notin {manifest.entries[t], Missing}

NeedsDownload(t) == snapshot[t] # manifest.entries[t]

(* Replacements and removals. *)
Operations ==
    {[target |-> t, content |-> manifest.entries[t]] : t \in {u \in DOMAIN snapshot : NeedsDownload(u)}}
    \union {[target |-> t, content |-> Missing] : t \in {u \in Targets : manifest.entries[u] = "remove"}}

(* Mutant: the whitelist is not consulted for removals. *)
ManagedFiles == DOMAIN snapshot \subseteq whitelist
Managed == Listed \subseteq whitelist

(* validateManifestAgainstConfig may also refuse the identity of the       *)
(* manifest, its expiry date or its URLs.                                  *)
planUpdate ==
    /\ pc = "plan"
    /\ LET refused == isDowngrade /\ ~ downgradeAuthorized
           updates == ~ refused /\ ~ ReinstallRequired /\ UpdateAvailable
       IN \/ /\ updates /\ Managed /\ decision' = "update" /\ operations' = Operations /\ pc' = "decided"
             /\ UNCHANGED <<manifest, again, snapshot, disturbed>>
          \/ /\ ~ refused /\ ~ updates /\ Forget
             /\ decision' = IF ReinstallRequired THEN "reinstall" ELSE "none"
          \/ decision' = "fail" /\ Forget
    /\ UNCHANGED <<config, local, checks, foreign>>

-----------------------------------------------------------------------------
(* What follows a decision *)

(* The transaction installs everything (AtomicInstall!Commit) and the new  *)
(* version starts.                                                         *)
Apply ==
    /\ pc = "decided" /\ pc' = "idle" /\ again' = TRUE
    /\ snapshot' = None /\ operations' = {} /\ disturbed' = {}
    /\ installed' = [t \in Targets |->
                        LET ops == {o \in operations : o.target = t}
                        IN IF ops = {} THEN installed[t] ELSE (CHOOSE o \in ops : TRUE).content]
    /\ current' = manifest.version /\ previous' = [version |-> current, installed |-> installed]
    /\ UNCHANGED <<config, lastAccepted, manifest, decision, checks, foreign>>

(* The download or the transaction fails, or the application gives up. *)
Abandon ==
    /\ pc = "decided" /\ Forget
    /\ UNCHANGED <<config, local, decision, checks, foreign>>

(* commitHealthyVersion *)
Confirm ==
    /\ pc = "idle" /\ previous # None /\ lastAccepted' = current /\ previous' = None
    /\ UNCHANGED <<config, current, installed, pc, manifest, again, plan, disturbed, checks, foreign>>

RollBack ==
    /\ pc = "idle" /\ previous # None /\ Forget
    /\ current' = previous.version /\ installed' = previous.installed /\ previous' = None
    /\ UNCHANGED <<config, lastAccepted, decision, checks, foreign>>

Foreign ==
    /\ foreign < MaxForeign /\ foreign' = foreign + 1
    /\ \E t \in Targets, content \in Contents :
         content # installed[t] /\ installed' = [installed EXCEPT ![t] = content]
         /\ disturbed' = IF pc \in {"plan", "decided"} THEN disturbed \union {t} ELSE {}
    /\ UNCHANGED <<config, current, lastAccepted, previous, pc, manifest, again, plan, checks>>

Next == Fetch \/ buildLocalSnapshot \/ planUpdate \/ Apply \/ Abandon \/ Confirm \/ RollBack \/ Foreign
Spec == Init /\ [][Next]_vars

-----------------------------------------------------------------------------
(* Properties *)

TypeOK ==
    /\ installed \in [Targets -> Contents] /\ current \in Versions
    /\ lastAccepted \in Versions \union {None} /\ manifest \in Manifests \union {None}
    /\ decision \in {"none", "update", "reinstall", "fail"}
    /\ \A o \in operations : o.target \in Targets /\ o.content \in Contents

(* No update takes the installation below a version that ran healthily, or *)
(* below the one that runs, unless the configuration admits downgrades and *)
(* the publisher signed this one.                                          *)
NoSilentDowngrade ==
    pc = "decided" /\ current' # current
        /\ ~ (~ rejectDowngrade /\ requireManifestSignature /\ manifest.allowDowngrade)
        => current' > current /\ (lastAccepted # None => current' >= lastAccepted)

(* An applied plan leaves what the manifest describes: every file it lists *)
(* and none that it removes, also where others interfered since the        *)
(* snapshot.  The exception is a file that the snapshot found up to date:  *)
(* the plan has no operation for it, and does not look at it again.        *)
InstalledMatches ==
    pc = "decided" /\ previous' # previous =>
        \A t \in Targets : t \notin disturbed \/ (\E o \in operations : o.target = t) =>
            /\ manifest.entries[t] \in Hashes => installed'[t] = manifest.entries[t]
            /\ manifest.entries[t] = "remove" => installed'[t] = Missing

(* The manifest that was just applied is no update, also when it was a     *)
(* downgrade and the higher version is still the accepted one.             *)
NoUpdateLoop == again' => pc' # "decided"

(* Files outside the whitelist are never touched by an update. *)
ManagedOnly ==
    pc = "decided" =>
        \A t \in Targets \ whitelist : installed'[t] = installed[t] \/ foreign' # foreign

(* Which version an installation goes to, over checks, rollbacks and       *)
(* confirmations: never silently down, and never to the same one again.    *)
VersionsMoveForward == [][NoSilentDowngrade /\ NoUpdateLoop]_vars

(* What a plan does to the files: all that the manifest asks for, nothing  *)
(* that is not managed.                                                    *)
PlanIsExact == [][TypeOK' /\ InstalledMatches /\ ManagedOnly]_vars
=============================================================================
