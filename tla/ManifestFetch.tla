--------------------------- MODULE ManifestFetch ---------------------------
(***************************************************************************)
(* fetchAndVerifyManifest (ManifestFetcher.cpp): the first document is a   *)
(* release manifest or an index of them; each document has a detached      *)
(* signature of its own.  The server may answer every request differently: *)
(* a document is replaced between two requests, a redirect changes the URL *)
(* the answer counts for, a signature belongs to another document.         *)
(***************************************************************************)
EXTENDS Naturals, Sequences, FiniteSets, SequencesExt

CONSTANTS
    Urls,               \* URLs of documents and of artifacts
    First,              \* config.manifestUrl
    Override,           \* config.security.manifestSignatureUrl
    Allowed,            \* the URLs within the policy's scope
    Sizes, MaxManifestBytes, MaxIndexBytes,
    Signed,             \* the ids of the documents the publisher signed
    Unsigned,           \* the ids of other documents
    MaxTargets,         \* bound on the targets of an index
    None

(* A selector is absent, the configured value, or another one. *)
Selectors == {"any", "mine", "other"}
Targets == [platform: Selectors, arch: Selectors]

FetchAssumption ==
    /\ First \in Allowed /\ Allowed \subseteq Urls /\ Override \notin Urls
    /\ Signed \intersect Unsigned = {} /\ Sizes \subseteq Nat /\ None \notin Urls \union Targets
    /\ {MaxManifestBytes, MaxIndexBytes, MaxTargets} \subseteq Nat

Ids == Signed \union Unsigned

(* What a body parses to; the id stands for its bytes. *)
Kinds == {"manifest", "index", "garbage", "schema"}
Indexes == {targets \in UNION {[1 .. n -> Targets] : n \in 0 .. MaxTargets} : IsInjective(targets)}

VARIABLES
    required,           \* security.requireManifestSignature
    content,            \* what each id is: kind and size
    pc, phase,          \* phase 1 is the first document, 2 the release an index names
    url,                \* the document being fetched
    body, effective,    \* RedirectedTextResult
    signatureUrl, signatureVerified,
    target,             \* what selectIndexTarget answered
    indexed, targets,   \* the index that named the release, and its targets
    envelope, result

document == <<body, effective>>
vars == <<required, content, pc, phase, url, document, signatureUrl, signatureVerified, target,
          indexed, targets, envelope, result>>

Init ==
    /\ required \in BOOLEAN
    /\ content \in [Ids -> [kind: Kinds, size: Sizes]]
    /\ pc = "fetch" /\ phase = 1 /\ url = First /\ body = None /\ effective = None
    /\ signatureUrl = None /\ signatureVerified = FALSE /\ target = None /\ indexed = None /\ targets = <<>>
    /\ envelope = None /\ result = "none"

Fail == pc' = "done" /\ result' = "fail"
Goes(next) == pc' = next /\ UNCHANGED result

-----------------------------------------------------------------------------
(* fetchTextAndVerify *)

(* The byte limit of the request. *)
Limit == IF phase = 1 THEN Max({MaxIndexBytes, MaxManifestBytes}) ELSE MaxManifestBytes

(* The answer counts for the URL the last redirect led to. *)
FetchDocument ==
    /\ pc = "fetch"
    /\ \/ /\ \E d \in Ids, u \in Allowed :
               content[d].size <= Limit /\ body' = d /\ effective' = u
          /\ signatureVerified' = FALSE
          /\ Goes(IF required THEN "signature" ELSE "parse")
       \/ Fail /\ UNCHANGED <<document, signatureVerified>>
    /\ UNCHANGED <<required, content, phase, url, signatureUrl, target, indexed, targets, envelope>>

(* Mutant: the configured signature URL serves for the release manifest. *)
OverrideAlways == Override

(* The override belongs to the first document. *)
signatureUrlFor == IF phase = 1 /\ Override # None THEN Override ELSE <<effective, "sig">>

(* Mutant: any signature of the publisher's key will do. *)
VerifiesKey(d, signature) == signature \in Signed

(* ISignatureVerifier::verify: a signature stands for the id of the bytes  *)
(* it was made for.                                                        *)
Verifies(d, signature) == signature = d

(* The server answers with any signature it ever saw, or with none. *)
FetchSignature ==
    /\ pc = "signature"
    /\ signatureUrl' = signatureUrlFor
    /\ \/ /\ \E signature \in Signed : Verifies(body, signature)
          /\ signatureVerified' = TRUE /\ Goes("parse")
       \/ Fail /\ UNCHANGED signatureVerified
    /\ UNCHANGED <<required, content, phase, url, document, target, indexed, targets, envelope>>

-----------------------------------------------------------------------------
(* selectIndexTarget: one pass over the targets *)

Matches(t) == t.platform # "other" /\ t.arch # "other"
Specificity(t) == Cardinality({f \in {"platform", "arch"} : t[f] # "any"})

Nothing == [selected |-> None, specificity |-> 0, count |-> 0]

(* Mutant: the count of the best matches is not restarted. *)
ConsiderSticky(best, t) ==
    IF ~ Matches(t) THEN best
    ELSE IF best.selected = None \/ Specificity(t) > best.specificity
           THEN [selected |-> t, specificity |-> Specificity(t), count |-> best.count + 1]
    ELSE IF Specificity(t) = best.specificity THEN [best EXCEPT !.count = @ + 1]
    ELSE best

Consider(best, t) ==
    IF ~ Matches(t) THEN best
    ELSE IF best.selected = None \/ Specificity(t) > best.specificity
           THEN [selected |-> t, specificity |-> Specificity(t), count |-> 1]
    ELSE IF Specificity(t) = best.specificity THEN [best EXCEPT !.count = @ + 1]
    ELSE best

(* The best match among the first n targets. *)
BestOfFirst(listed) ==
    LET best[n \in 0 .. Len(listed)] == IF n = 0 THEN Nothing ELSE Consider(best[n - 1], listed[n])
    IN best

selectIndexTarget(listed) ==
    LET best == BestOfFirst(listed)[Len(listed)]
    IN IF best.count = 1 THEN best.selected ELSE None

-----------------------------------------------------------------------------
(* What is parsed, and what follows *)

WithinManifest == content[body].size <= MaxManifestBytes
WithinIndex == content[body].size <= MaxIndexBytes

(* Mutant: the limit of the first document is the larger of the two. *)
IsManifestAnySize == content[body].kind = "manifest"

IsManifest == WithinManifest /\ content[body].kind = "manifest"

(* A document that is no manifest may be an index; one with another schema *)
(* version may not.  An index is parsed under its own limit.               *)
MayBeIndex == IF WithinManifest THEN content[body].kind \in {"index", "garbage"} ELSE WithinIndex

IsIndex == phase = 1 /\ ~ IsManifest /\ MayBeIndex /\ WithinIndex /\ content[body].kind = "index"

(* Mutant: the target is resolved without the policy. *)
ResolveOnly == Urls

(* The URLs a target may resolve to. *)
resolveAndAuthorize == Allowed

(* The identity of the application in the index, or the URL of the target, *)
(* may be refused.                                                         *)
SelectRelease ==
    /\ pc = "parse" /\ IsIndex
    /\ targets' \in Indexes /\ indexed' = body
    /\ target' = selectIndexTarget(targets')
    /\ \/ target' # None /\ url' \in resolveAndAuthorize /\ phase' = 2 /\ Goes("fetch")
       \/ Fail /\ UNCHANGED <<url, phase>>
    /\ UNCHANGED <<required, content, document, signatureUrl, signatureVerified, envelope>>

RejectDocument ==
    /\ pc = "parse" /\ ~ IsManifest /\ ~ IsIndex /\ Fail
    /\ UNCHANGED <<required, content, phase, url, document, signatureUrl, signatureVerified, target,
                   indexed, targets, envelope>>

(* Mutant: the base URL is resolved without the policy. *)
BaseUnchecked(base) == IF base = None THEN effective ELSE base

(* The directory of the document, or the manifest's own base URL. *)
resolveArtifactBase(base) ==
    IF effective \in Allowed /\ base \in Allowed \union {None}
    THEN IF base = None THEN effective ELSE base
    ELSE None

(* Mutant: the envelope says what was configured. *)
EnvelopeClaims(base, verified) == [body |-> body, source |-> effective, base |-> base, verified |-> TRUE]

Envelope(base, verified) == [body |-> body, source |-> effective, base |-> base, verified |-> verified]

Accept ==
    /\ pc = "parse" /\ IsManifest
    /\ \E own \in Urls \union {None} :              \* the manifest's baseUrl
         \/ /\ resolveArtifactBase(own) # None
            /\ envelope' = Envelope(resolveArtifactBase(own), signatureVerified)
            /\ result' = "ok" /\ pc' = "done"
         \/ resolveArtifactBase(own) = None /\ Fail /\ UNCHANGED envelope
    /\ UNCHANGED <<required, content, phase, url, document, signatureUrl, signatureVerified, target,
                   indexed, targets>>

Next == FetchDocument \/ FetchSignature \/ SelectRelease \/ RejectDocument \/ Accept

Spec == Init /\ [][Next]_vars

-----------------------------------------------------------------------------
(* Properties *)

(* The two phases and the documents they may hold. *)
TypeOK ==
    /\ phase \in 1 .. 2 /\ body \in Ids \union {None} /\ effective \in Allowed \union {None}
    /\ url \in Allowed /\ result \in {"none", "ok", "fail"}
    /\ body # None => content[body].size <= Max({MaxIndexBytes, MaxManifestBytes})

(* With signatures required, the accepted manifest and the index that led  *)
(* to it are documents the publisher signed, whatever the server answered. *)
Authentic ==
    required /\ result = "ok" =>
        envelope.body \in Signed /\ (phase = 2 => indexed \in Signed)

(* releaseManifestSignatureVerified, which later authorizes downgrades, is *)
(* only set for a manifest whose own signature was verified.               *)
FlagMeansVerified == result = "ok" /\ envelope.verified => required /\ envelope.body \in Signed

(* The configured signature URL is used for the first document only: the   *)
(* signature of an accepted release was looked for beside the release.     *)
SignatureBesideRelease ==
    required /\ result = "ok" /\ phase = 2 => signatureUrl = <<envelope.source, "sig">>

(* Artifacts are fetched from within the policy's scope. *)
BaseInScope == result = "ok" => envelope.base \in Allowed /\ envelope.source = effective

(* An accepted manifest respects its limit, also when the first document   *)
(* was allowed to be as large as an index.                                 *)
ManifestWithinLimit == result = "ok" => content[envelope.body].size <= MaxManifestBytes

Better(t, u) == Specificity(t) > Specificity(u)
Matching == {i \in DOMAIN targets : Matches(targets[i])}
Best == {i \in Matching : \A j \in Matching \ {i} : Better(targets[i], targets[j])}

(* The target followed is the only one of the most specific matches; there *)
(* is none exactly when no target matches or the best ones are tied.       *)
SelectedIsBest ==
    indexed # None => IF Best = {} THEN target = None ELSE \A i \in Best : target = targets[i]
=============================================================================
