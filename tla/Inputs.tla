------------------------------- MODULE Inputs -------------------------------
(***************************************************************************)
(* What reaches the updater from outside before it decides anything: the   *)
(* documents of a server, the paths of a manifest, the records of earlier  *)
(* downloads, versions and timestamps.  The modules that judge them do not *)
(* share state; each behaviour is of one of them, the subject.             *)
(***************************************************************************)
EXTENDS Naturals, FiniteSets

CONSTANTS
    None, Sizes,
    Urls, First, Override, Allowed, MaxManifestBytes, MaxIndexBytes, Signed, Unsigned, MaxTargets,
    Paths, MaxArtifactBytes, MaxTotalBytes, MaxEntries,
    Keys, Releases, Weights, MaxAge, EntryLimit, ByteLimit, MaxClock, MaxBatches,
    Cores, Identifiers, MaxIdentifiers,
    LastYear, MaxYear, MaxInstant, Timeouts, Remembered

VARIABLES
    subject, pc, result,
    required, content, phase, url, body, effective, signatureUrl, signatureVerified, target, indexed,
    targets, envelope,
    files, remove, sourceEvidence, total,
    sidecar, entries, protectedKeys, scope, clock, loaded, evicted, outcome, batches,
    left, right, compared,
    stamp, hours, history

fetchVars == <<required, content, phase, url, body, effective, signatureUrl, signatureVerified,
               target, indexed, targets, envelope>>
pathVars == <<files, remove, sourceEvidence, total>>
resumeVars == <<sidecar, entries, protectedKeys, scope, clock, loaded, evicted, outcome, batches>>
versionVars == <<left, right, compared>>
clockVars == <<stamp, hours, history>>
inputVars == <<subject, pc, result, fetchVars, pathVars, resumeVars, versionVars, clockVars>>

Fetch == INSTANCE ManifestFetch
Manifest == INSTANCE ManifestPaths
Resume == INSTANCE ResumeEntries
Order == INSTANCE VersionOrder
Calendar == INSTANCE UtcClock

ASSUME InputsAssumption ==
    /\ Fetch!FetchAssumption /\ Manifest!PathAssumption /\ Resume!ResumeAssumption
    /\ Order!VersionAssumption /\ Calendar!ClockAssumption

-----------------------------------------------------------------------------
(* The variables of the modules a behaviour is not about. *)
NoFetch ==
    /\ required = None /\ content = None /\ phase = None /\ url = None /\ body = None
    /\ effective = None /\ signatureUrl = None /\ signatureVerified = None /\ target = None
    /\ indexed = None /\ targets = None /\ envelope = None
NoPaths == files = None /\ remove = None /\ sourceEvidence = None /\ total = None
NoResume ==
    /\ sidecar = None /\ entries = None /\ protectedKeys = None /\ scope = None /\ clock = None
    /\ loaded = None /\ evicted = None /\ outcome = None /\ batches = None
NoVersions == left = None /\ right = None /\ compared = None
NoClock == stamp = None /\ hours = None /\ history = None

Init ==
    \/ subject = "fetch" /\ Fetch!Init /\ NoPaths /\ NoResume /\ NoVersions /\ NoClock
    \/ subject = "paths" /\ Manifest!Init /\ NoFetch /\ NoResume /\ NoVersions /\ NoClock
    \/ subject = "resume" /\ Resume!Init /\ result = None /\ NoFetch /\ NoPaths /\ NoVersions /\ NoClock
    \/ subject = "versions" /\ Order!Init /\ pc = None /\ result = None /\ NoFetch /\ NoPaths /\ NoResume /\ NoClock
    \/ subject = "clock" /\ Calendar!Init /\ pc = None /\ result = None /\ NoFetch /\ NoPaths /\ NoResume /\ NoVersions

Next ==
    /\ UNCHANGED subject
    /\ \/ /\ subject = "fetch" /\ Fetch!Next
          /\ UNCHANGED <<pathVars, resumeVars, versionVars, clockVars>>
       \/ /\ subject = "paths" /\ Manifest!Next
          /\ UNCHANGED <<fetchVars, resumeVars, versionVars, clockVars>>
       \/ /\ subject = "resume" /\ Resume!Next
          /\ UNCHANGED <<result, fetchVars, pathVars, versionVars, clockVars>>
       \/ /\ subject = "versions" /\ Order!Next
          /\ UNCHANGED <<pc, result, fetchVars, pathVars, resumeVars, clockVars>>
       \/ /\ subject = "clock" /\ Calendar!Next
          /\ UNCHANGED <<pc, result, fetchVars, pathVars, resumeVars, versionVars>>

Spec == Init /\ [][Next]_inputVars

-----------------------------------------------------------------------------
(* fetchAndVerifyManifest: whatever a server answers to each request, the  *)
(* manifest that is accepted is one the publisher signed, of the right     *)
(* size, whose signature was looked for in the right place, reached by the *)
(* one best target of a signed index, with artifacts in the policy's scope.*)
TrustedManifest ==
    subject = "fetch" =>
        /\ Fetch!TypeOK /\ Fetch!Authentic /\ Fetch!FlagMeansVerified /\ Fetch!SignatureBesideRelease
        /\ Fetch!BaseInScope /\ Fetch!ManifestWithinLimit /\ Fetch!SelectedIsBest

(* Manifest::parse: comparing neighbours of the sorted keys accepts        *)
(* exactly the manifests whose files can live side by side, also where     *)
(* names are folded as ASCII text, apart from the updater's own directory. *)
ManifestInstallable ==
    subject = "paths" =>
        /\ Manifest!TypeOK /\ Manifest!TargetsDisjoint /\ Manifest!SourcesStageable
        /\ Manifest!StateUntouched /\ Manifest!RefusalJustified

(* applyDownloadResumeBatch: after any batches of any releases, with the   *)
(* clock set back and forth, the sidecar can be read again, holds fresh    *)
(* records of one release, and lost the oldest first and none of the batch.*)
ResumeRecordsSound ==
    subject = "resume" =>
        /\ Resume!TypeOK /\ Resume!SidecarReadable /\ Resume!OnlyFreshRecords
        /\ Resume!BatchSurvives /\ Resume!OldestGoFirst

(* Version's operators, which compare numbers of any length as texts, are  *)
(* the precedence of semantic versions and order every two versions.       *)
VersionsOrdered == subject = "versions" => Order!ComparesByPrecedence /\ Order!Trichotomy

(* parseRfc3339, currentUtcInstant and healthConfirmationExpired: across   *)
(* month ends, leap days, centuries and offsets, and up to the last        *)
(* instant, an update expires at its deadline and not before.              *)
DeadlinesExact ==
    subject = "clock" => Calendar!InstantIsCount /\ Calendar!OffsetNormalized /\ Calendar!ExpiresOnTime
=============================================================================
