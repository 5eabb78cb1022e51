------------------------------ MODULE Transfer ------------------------------
(***************************************************************************)
(* One coordinated network request (NetworkRequest.cpp): the redirect loop *)
(* over single-hop requests, the URL policy that authorizes every hop      *)
(* (UrlPolicy.cpp), the byte limits (NetworkLimits.cpp) and, for an        *)
(* artifact, the bounded view of the partial file that the network client  *)
(* writes through.  The client and the server are free: they answer with   *)
(* any status and any URL, and write a body with any of them.              *)
(***************************************************************************)
EXTENDS Integers, Sequences

CONSTANTS
    Https, Http, Local,     \* URLs in the configured scopes, by scheme
    Outside,                \* URLs in no scope
    Limit,                  \* the signed size, or a document's byte limit
    Chunks,                 \* sizes of the writes of a client
    MaxRedirects,
    None,
    MaxFaults               \* bound on failing file operations

ASSUME TransferAssumption ==
    /\ Limit \in Nat /\ MaxRedirects \in Nat /\ MaxFaults \in Nat /\ Chunks \subseteq Nat \ {0}
    /\ Https \intersect Http = {} /\ (Https \union Http) \intersect Local = {}
    /\ (Https \union Http \union Local) \intersect Outside = {}

Urls == Https \union Http \union Local \union Outside
Statuses == {200, 204, 206, 302, 404}

VARIABLES
    kind,       \* "text" or "download"
    initial, current, visited, redirectCount,
    partial,    \* the length of the partial file the caller resumes, 0 for none
    resume,     \* activeResume: the offset the next request resumes at
    file,       \* the bytes, each the number of the request that wrote it; 0: the caller's
    sizeBefore, written, exceeded,  \* BoundedRootedFile
    response,
    requests,   \* what was asked for, in order: [url, offset]
    pc, outcome, faults

vars == <<kind, initial, current, visited, redirectCount, partial, resume, file, sizeBefore,
          written, exceeded, response, requests, pc, outcome, faults>>
input == <<kind, initial, partial>>
route == <<current, visited, redirectCount>>
bounded == <<sizeBefore, written, exceeded>>

Responses == [status: Statuses, effective: Urls, location: Urls \union {None},
              headersFit: BOOLEAN, declared: {"fits", "over", "malformed"}]
Failures == {[error |-> "transport"], [error |-> "limit"]}

Init ==
    /\ kind \in {"text", "download"} /\ initial \in Urls
    /\ partial \in (IF kind = "text" THEN {0} ELSE 0 .. Limit)
    /\ current = initial /\ visited = {} /\ redirectCount = 0
    /\ resume = partial /\ file = [i \in 1 .. partial |-> 0]
    /\ sizeBefore = 0 /\ written = 0 /\ exceeded = FALSE /\ response = None
    /\ requests = <<>> /\ pc = "start" /\ outcome = "running" /\ faults = 0

Ends(result) == pc' = "done" /\ outcome' = result
Goes(next) == pc' = next /\ UNCHANGED outcome

-----------------------------------------------------------------------------
(* UrlPolicy *)

(* The mode is fixed by the configured manifest URL; a request starts from *)
(* a URL of that mode.                                                     *)
authorize(u) == u \in (IF initial \in Local THEN Local ELSE Https \union Http)

(* Mutant: the target of a redirect is authorized, the step to it is not.  *)
TransitionUnchecked(from, to) == authorize(from) /\ authorize(to)

authorizeTransition(from, to) ==
    /\ authorize(from) /\ authorize(to)
    /\ ~ (from \in Https /\ to \in Http)
    /\ from \in Local <=> to \in Local

-----------------------------------------------------------------------------
(* The loop *)

(* Mutant: a URL that is not authorized is not answered. *)
AuthorizeOnly ==
    /\ pc = "start" /\ authorize(initial) /\ visited' = {initial} /\ Goes("request")
    /\ UNCHANGED <<input, current, redirectCount, resume, file, bounded, response, requests, faults>>

Authorize ==
    /\ pc = "start"
    /\ \/ authorize(initial) /\ visited' = {initial} /\ Goes("request")
       \/ ~ authorize(initial) /\ UNCHANGED visited /\ Ends("refused")
    /\ UNCHANGED <<input, current, redirectCount, resume, file, bounded, response, requests, faults>>

(* A text request has no file; its body is collected afresh. *)
Request ==
    /\ pc = "request"
    /\ file' = (IF kind = "text" THEN <<>> ELSE file)
    /\ sizeBefore' = Len(file') /\ written' = 0 /\ exceeded' = FALSE
    /\ requests' = Append(requests, [url |-> current, offset |-> resume])
    /\ Goes("transfer")
    /\ UNCHANGED <<input, route, resume, response, faults>>

(* Mutant: only one write is compared with the limit, not their sum. *)
WriteUnbudgeted ==
    /\ pc = "transfer" /\ ~ exceeded
    /\ \E n \in Chunks :
         IF n > Limit
           THEN exceeded' = TRUE /\ UNCHANGED <<file, written>>
           ELSE /\ file' = file \o [i \in 1 .. n |-> Len(requests)]
                /\ written' = written + n /\ UNCHANGED exceeded
    /\ UNCHANGED <<input, route, resume, sizeBefore, response, requests, pc, outcome, faults>>

(* BoundedRootedFile::write.  Clients that are refused stop writing. *)
Write ==
    /\ pc = "transfer" /\ ~ exceeded
    /\ \E n \in Chunks :
         IF n > Limit - Len(file) \/ n > (Limit - sizeBefore) - written
           THEN exceeded' = TRUE /\ UNCHANGED <<file, written>>
           ELSE /\ file' = file \o [i \in 1 .. n |-> Len(requests)]
                /\ written' = written + n /\ UNCHANGED exceeded
    /\ UNCHANGED <<input, route, resume, sizeBefore, response, requests, pc, outcome, faults>>

Respond ==
    /\ pc = "transfer"
    /\ response' \in Responses \union Failures
    /\ Goes("judge")
    /\ UNCHANGED <<input, route, resume, file, bounded, requests, faults>>

Failed == response \in Failures
Ranged == resume > 0
Remote == current \notin Local
ExpectedStatus == IF Remote /\ Ranged THEN 206 ELSE 200

(* The conditions in the order in which the code tests them. *)
Verdict ==
    IF Failed THEN IF exceeded \/ response.error = "limit" THEN "limit" ELSE "transport"
    ELSE IF ~ response.headersFit \/ exceeded THEN "limit"
    ELSE IF response.status = ExpectedStatus /\ response.declared = "over" THEN "limit"
    ELSE IF response.status = ExpectedStatus /\ response.declared = "malformed" THEN "status"
    ELSE IF response.effective # current \/ ~ authorize(response.effective) THEN "refused"
    ELSE IF response.status = 302 THEN "redirect"
    ELSE IF response.status \notin 200 .. 299 THEN "status"
    ELSE IF kind = "download" /\ Ranged /\ Remote /\ response.status = 200 THEN "restart"
    ELSE IF response.status # ExpectedStatus THEN "status"
    ELSE "accept"

(* restoreFileSize, which can itself fail. *)
Restored(size) ==
    \/ file' = (IF kind = "text" THEN file ELSE SubSeq(file, 1, size)) /\ UNCHANGED faults
    \/ /\ kind = "download" /\ Len(file) > size /\ faults < MaxFaults /\ faults' = faults + 1
       /\ UNCHANGED file

(* Mutant: what an answer that is not accepted wrote is left in the file.  *)
RejectUnrestored ==
    /\ pc = "judge" /\ Verdict \in {"limit", "refused", "status"}
    /\ Ends(Verdict) /\ UNCHANGED <<file, faults>>
    /\ UNCHANGED <<input, route, resume, bounded, response, requests>>

(* Every refusal puts the file back to the size it had before the request. *)
Reject ==
    /\ pc = "judge" /\ Verdict \in {"limit", "refused", "status"}
    /\ Restored(sizeBefore)
    /\ Ends(IF faults' # faults /\ Verdict # "limit" THEN "transport" ELSE Verdict)
    /\ UNCHANGED <<input, route, resume, bounded, response, requests>>

(* A broken transport leaves the partial body; the caller decides. *)
TransportFails ==
    /\ pc = "judge" /\ Verdict = "transport" /\ Ends("transport")
    /\ UNCHANGED <<input, route, resume, file, bounded, response, requests, faults>>

(* Mutant: the range of the first request is asked of the next host too.   *)
RedirectKeepsRange ==
    /\ pc = "judge" /\ Verdict = "redirect"
    /\ Restored(sizeBefore) /\ UNCHANGED resume
    /\ IF /\ redirectCount < MaxRedirects /\ response.location # None
          /\ authorizeTransition(current, response.location) /\ response.location \notin visited
         THEN /\ current' = response.location /\ visited' = visited \union {response.location}
              /\ redirectCount' = redirectCount + 1 /\ Goes("request")
         ELSE Ends("refused") /\ UNCHANGED route
    /\ UNCHANGED <<input, bounded, response, requests>>

(* nextRedirect, after the partial file was dropped with its validators:   *)
(* "Never forward Range/If-Range across a redirect."                       *)
Redirect ==
    /\ pc = "judge" /\ Verdict = "redirect"
    /\ Restored(IF Ranged THEN 0 ELSE sizeBefore)
    /\ IF faults' # faults
         THEN Ends("transport") /\ UNCHANGED <<resume, route>>
         ELSE /\ resume' = 0
              /\ IF /\ redirectCount < MaxRedirects /\ response.location # None
                    /\ authorizeTransition(current, response.location) /\ response.location \notin visited
                   THEN /\ current' = response.location /\ visited' = visited \union {response.location}
                        /\ redirectCount' = redirectCount + 1 /\ Goes("request")
                   ELSE Ends("refused") /\ UNCHANGED route
    /\ UNCHANGED <<input, bounded, response, requests>>

(* Mutant: the body of an answer that ignored the range is kept. *)
RestartOnTop ==
    /\ pc = "judge" /\ Verdict = "restart"
    /\ Restored(sizeBefore) /\ resume' = 0 /\ Goes("request")
    /\ UNCHANGED <<input, route, bounded, response, requests>>

(* The server ignored the range: the same URL again, from the beginning.   *)
Restart ==
    /\ pc = "judge" /\ Verdict = "restart"
    /\ Restored(0)
    /\ IF faults' # faults THEN Ends("transport") /\ UNCHANGED resume
                           ELSE resume' = 0 /\ Goes("request")
    /\ UNCHANGED <<input, route, bounded, response, requests>>

Accept ==
    /\ pc = "judge" /\ Verdict = "accept" /\ Ends("ok")
    /\ UNCHANGED <<input, route, resume, file, bounded, response, requests, faults>>

Coordinator ==
    Authorize \/ Request \/ Reject \/ TransportFails \/ Redirect \/ Restart \/ Accept

Next == Coordinator \/ Write \/ Respond

Spec == Init /\ [][Next]_vars

(* The client returns: its time limits end every request. *)
FairSpec == Spec /\ WF_vars(Coordinator) /\ WF_vars(Respond)

-----------------------------------------------------------------------------
(* Properties *)

TypeOK ==
    /\ current \in Urls /\ visited \subseteq Urls /\ redirectCount \in 0 .. MaxRedirects
    /\ resume \in 0 .. Limit /\ file \in Seq(0 .. Len(requests)) /\ exceeded \in BOOLEAN
    /\ response \in Responses \union Failures \union {None}
    /\ pc \in {"start", "request", "transfer", "judge", "done"}
    /\ outcome \in {"running", "ok", "transport", "limit", "refused", "status"}

(* The file never outgrows the signed size, however many requests write to *)
(* it and however they divide their writes.                                *)
NeverBeyondLimit == Len(file) <= Limit

(* What a successful download appended comes from one answer, and what it  *)
(* kept of the caller's file was resumed by a request without a redirect:  *)
(* bytes of two answers are never joined.                                  *)
OneBody ==
    outcome = "ok" =>
        /\ \A i \in 1 .. Len(file) : file[i] \in {0, Len(requests)}
        /\ (\E i \in 1 .. Len(file) : file[i] = 0) =>
               Len(requests) = 1 /\ SubSeq(file, 1, partial) = [i \in 1 .. partial |-> 0]

(* "Never forward Range/If-Range across a redirect": only the first request *)
(* has a range, and it goes to the URL the caller named.                   *)
RangeStaysHome ==
    \A i \in 1 .. Len(requests) :
        requests[i].offset > 0 => i = 1 /\ requests[i].url = initial /\ requests[i].offset = partial

(* Every request goes to a configured scope; a chain never falls from      *)
(* HTTPS to HTTP, never mixes files and the network, and visits no URL     *)
(* twice but for one restart.                                              *)
ChainAuthorized ==
    /\ \A i \in 1 .. Len(requests) : requests[i].url \notin Outside
    /\ \A i, j \in 1 .. Len(requests) : i < j =>
          /\ requests[i].url \in Https => requests[j].url \in Https
          /\ requests[i].url \in Local <=> requests[j].url \in Local
          /\ requests[i].url = requests[j].url => i = 1 /\ j = 2 /\ partial > 0

(* A refusal that reports no failed file operation leaves the caller's     *)
(* partial file as it was, or empty once the range had been given up.      *)
RefusalKeepsPartial ==
    outcome \in {"limit", "refused", "status"} /\ kind = "download" /\ faults = 0 =>
        file = <<>> \/ file = [i \in 1 .. partial |-> 0]

(* The caller's partial file, and what is accepted as the artifact, under  *)
(* any division of bodies over answers, redirects, restarts and failing    *)
(* truncations: bounded, of one body, and kept when the answer is refused. *)
PartialFileSound == TypeOK /\ NeverBeyondLimit /\ OneBody /\ RefusalKeepsPartial

(* No sequence of redirects and restarts takes a request, or the range of  *)
(* the partial file, where the configuration does not allow it.            *)
RequestsInScope == ChainAuthorized /\ RangeStaysHome

(* Every request ends: redirects and restarts are bounded. *)
RequestEnds == <>(outcome # "running")
=============================================================================
