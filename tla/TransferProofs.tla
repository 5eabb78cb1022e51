---------------------------- MODULE TransferProofs ----------------------------
(***************************************************************************)
(* Proofs about Transfer for any URLs, size limit, number of redirects,    *)
(* division of the body into writes and number of failing truncations: the *)
(* requests stay in the configured scopes, the range goes to the URL the   *)
(* caller named only, and the partial file is of one body.                 *)
(***************************************************************************)
EXTENDS Transfer, SequenceTheorems, TLAPS

-----------------------------------------------------------------------------
(* The invariant. *)

Zeros(n) == [i \in 1 .. n |-> 0]

(* The values the request is made with and has. *)
TypeInv ==
    /\ kind \in {"text", "download"} /\ initial \in Urls /\ partial \in 0 .. Limit
    /\ kind = "text" => partial = 0
    /\ current \in Urls /\ visited \subseteq Urls /\ redirectCount \in 0 .. MaxRedirects
    /\ resume \in {0, partial} /\ exceeded \in BOOLEAN /\ faults \in Nat
    /\ response \in Responses \union Failures \union {None}
    /\ pc \in {"start", "request", "transfer", "judge", "done"}
    /\ outcome \in {"running", "ok", "transport", "limit", "refused", "status"}
    /\ outcome # "running" <=> pc = "done"
    /\ requests \in Seq([url: Urls, offset: Nat])
    /\ pc = "judge" => response \in Responses \union Failures

(* Where the chain of requests is, before and after the current URL is     *)
(* asked.                                                                  *)
RouteInv ==
    /\ pc = "start" => current = initial /\ requests = <<>> /\ redirectCount = 0 /\ resume = partial
    /\ pc \in {"request", "transfer", "judge"} => authorize(current) /\ current \in visited
    /\ \A i \in 1 .. Len(requests) :
          /\ requests[i].url \in visited
          /\ requests[i].url \in Https => current \in Https
          /\ requests[i].url \in Local <=> current \in Local
    /\ resume > 0 /\ pc # "done" =>
          current = initial /\ Len(requests) = IF pc \in {"start", "request"} THEN 0 ELSE 1
    /\ pc = "request" /\ requests = <<>> => current = initial /\ resume = partial
    /\ pc = "request" => \A i \in 1 .. Len(requests) :
          requests[i].url = current => i = 1 /\ Len(requests) = 1 /\ partial > 0
    /\ pc \in {"transfer", "judge"} => Len(requests) > 0

(* Only the request that resumes finds bytes of the caller in the file,    *)
(* and everything behind them is its own.                                  *)
FileInv ==
    /\ file \in Seq(0 .. Len(requests)) /\ Len(file) <= Limit
    /\ pc \in {"start", "request"} /\ kind = "download" => file = Zeros(resume)
    /\ pc \in {"transfer", "judge"} =>
          /\ sizeBefore = resume /\ written = Len(file) - resume /\ resume <= Len(file)
          /\ \A i \in 1 .. Len(file) : file[i] = IF i <= resume THEN 0 ELSE Len(requests)

TransferInv ==
    /\ TypeInv /\ RouteInv /\ FileInv
    /\ RequestsInScope /\ OneBody /\ RefusalKeepsPartial

-----------------------------------------------------------------------------
(* Sequences of equal elements, and the first elements of a sequence. *)

(* A run of n elements. *)
LEMMA ConstantSeq ==
    ASSUME NEW n \in Nat, NEW S, NEW x \in S
    PROVE  /\ [i \in 1 .. n |-> x] \in Seq(S) /\ Len([i \in 1 .. n |-> x]) = n
           /\ \A i \in 1 .. n : [j \in 1 .. n |-> x][i] = x
OBVIOUS

(* The caller's bytes. *)
LEMMA ZerosIs ==
    ASSUME NEW n \in Nat, NEW m \in Nat
    PROVE  /\ Zeros(n) \in Seq(0 .. m) /\ Len(Zeros(n)) = n /\ Zeros(0) = <<>>
           /\ \A i \in 1 .. n : Zeros(n)[i] = 0
<1>1. 0 \in 0 .. m
  OBVIOUS
<1>2. QED
  BY <1>1, ConstantSeq DEF Zeros

(* A file that begins with them is cut back to them. *)
LEMMA CutToZeros ==
    ASSUME NEW s, NEW m \in Nat, s \in Seq(0 .. m), NEW n \in 0 .. Len(s),
           \A i \in 1 .. n : s[i] = 0
    PROVE  SubSeq(s, 1, n) = Zeros(n)
<1>1. n \in Nat /\ Len(s) \in Nat
  BY LenProperties
<1>2. \A i \in 1 .. n : s[i] \in 0 .. m
  BY <1>1
<1>3. /\ SubSeq(s, 1, n) \in Seq(0 .. m) /\ Len(SubSeq(s, 1, n)) = n
      /\ \A i \in 1 .. n : SubSeq(s, 1, n)[i] = 0
  BY <1>1, <1>2, SubSeqProperties
<1>4. Zeros(n) \in Seq(0 .. m) /\ Len(Zeros(n)) = n /\ \A i \in 1 .. n : Zeros(n)[i] = 0
  BY <1>1, ZerosIs
<1>5. QED
  BY <1>3, <1>4, SeqEqual

-----------------------------------------------------------------------------
(* The steps. *)

(* What a step that only decides does to the file: it is left, or cut back *)
(* to the caller's bytes or to nothing.                                    *)
LEMMA RestoredFile ==
    ASSUME TransferInv, pc = "judge", NEW size \in {0, sizeBefore}, Restored(size)
    PROVE  /\ kind = "download" /\ faults' = faults => file' = Zeros(IF size = 0 THEN 0 ELSE resume)
           /\ file' \in Seq(0 .. Len(requests)) /\ Len(file') <= Limit
           /\ faults' \in Nat
<1>1. /\ file \in Seq(0 .. Len(requests)) /\ Len(file) <= Limit /\ Len(requests) \in Nat
      /\ sizeBefore = resume /\ resume \in Nat /\ resume <= Len(file) /\ Len(file) \in Nat
      /\ \A i \in 1 .. resume : file[i] = 0
  <2>1. /\ file \in Seq(0 .. Len(requests)) /\ Len(file) <= Limit
        /\ sizeBefore = resume /\ resume \in Nat /\ resume <= Len(file)
        /\ \A i \in 1 .. Len(file) : file[i] = IF i <= resume THEN 0 ELSE Len(requests)
    BY DEF TransferInv, FileInv, TypeInv
  <2>2. Len(requests) \in Nat /\ Len(file) \in Nat
    BY <2>1, LenProperties DEF TransferInv, TypeInv
  <2>3. QED
    BY <2>1, <2>2
<1>2. size \in Nat /\ size \in 0 .. Len(file) /\ size <= Limit /\ (\A i \in 1 .. size : file[i] = 0)
      /\ size = (IF size = 0 THEN 0 ELSE resume) /\ faults \in Nat
  BY <1>1, TransferAssumption DEF TransferInv, TypeInv
<1>3. SubSeq(file, 1, size) = Zeros(size)
  BY <1>1, <1>2, CutToZeros
<1>4. Zeros(size) \in Seq(0 .. Len(requests)) /\ Len(Zeros(size)) = size
  BY <1>1, <1>2, ZerosIs
<1>5. /\ kind = "download" /\ faults' = faults => file' = Zeros(size)
      /\ file' = file \/ file' = Zeros(size)
      /\ faults' \in Nat
  BY <1>2, <1>3 DEF Restored
<1>6. QED
  BY <1>1, <1>2, <1>4, <1>5

(* The verdicts that go on. *)
LEMMA VerdictIs ==
    ASSUME TransferInv, pc = "judge"
    PROVE  /\ Verdict = "redirect" => response \in Responses
           /\ Verdict = "restart" => resume > 0 /\ kind = "download"
           /\ Verdict \in {"limit", "transport", "status", "refused", "redirect", "restart", "accept"}
BY DEF Verdict, Failed, Ranged, TransferInv, TypeInv

(* Before the first request. *)
LEMMA AuthorizeInv ==
    ASSUME TransferInv, Authorize
    PROVE  TransferInv'
<1>1. /\ pc = "start" /\ UNCHANGED <<kind, initial, partial, current, redirectCount, resume, file,
                                      sizeBefore, written, exceeded, response, requests, faults>>
      /\ \/ authorize(initial) /\ visited' = {initial} /\ pc' = "request" /\ outcome' = outcome
         \/ visited' = visited /\ pc' = "done" /\ outcome' = "refused"
  BY DEF Authorize, Goes, Ends, input, bounded
<1>2. TypeInv'
  BY <1>1 DEF TransferInv, TypeInv
<1>3. requests = <<>> /\ Len(requests) = 0 /\ current = initial /\ resume = partial
  BY <1>1 DEF TransferInv, RouteInv
<1>4. authorize(initial)' <=> authorize(initial)
  BY <1>1 DEF authorize
<1>5. RouteInv'
  BY <1>1, <1>3, <1>4 DEF RouteInv, authorize
<1>6. FileInv' /\ RequestsInScope'
  BY <1>1, <1>3 DEF TransferInv, FileInv, RequestsInScope, ChainAuthorized, RangeStaysHome
<1>7. OneBody' /\ RefusalKeepsPartial'
  BY <1>1, <1>3 DEF TransferInv, FileInv, TypeInv, OneBody, RefusalKeepsPartial, Zeros
<1>8. QED
  BY <1>2, <1>5, <1>6, <1>7 DEF TransferInv

(* A request goes to the current URL. *)
LEMMA RequestInv ==
    ASSUME TransferInv, Request
    PROVE  TransferInv'
<1> DEFINE r == [url |-> current, offset |-> resume]
<1>1. /\ pc = "request" /\ pc' = "transfer" /\ outcome' = outcome
      /\ file' = (IF kind = "text" THEN <<>> ELSE file)
      /\ sizeBefore' = Len(file') /\ written' = 0 /\ exceeded' = FALSE
      /\ requests' = Append(requests, r)
      /\ UNCHANGED <<kind, initial, partial, current, visited, redirectCount, resume, response, faults>>
  BY DEF Request, Goes, input, route
<1>2. /\ requests \in Seq([url: Urls, offset: Nat]) /\ r \in [url: Urls, offset: Nat]
      /\ resume \in Nat /\ Len(requests) \in Nat /\ outcome = "running"
  BY <1>1, LenProperties DEF TransferInv, TypeInv
<1>3. r.url = current /\ r.offset = resume
  OBVIOUS
<1> HIDE DEF r
<1>4. /\ requests' \in Seq([url: Urls, offset: Nat]) /\ Len(requests') = Len(requests) + 1
      /\ \A i \in 1 .. Len(requests) : requests'[i] = requests[i]
      /\ requests'[Len(requests) + 1] = r
  BY <1>1, <1>2, AppendProperties
<1>5. TypeInv'
  BY <1>1, <1>2, <1>4 DEF TransferInv, TypeInv
<1>6. /\ authorize(current) /\ current \in visited
      /\ \A i \in 1 .. Len(requests) :
            /\ requests[i].url \in visited
            /\ requests[i].url \in Https => current \in Https
            /\ requests[i].url \in Local <=> current \in Local
            /\ requests[i].url = current => i = 1 /\ Len(requests) = 1 /\ partial > 0
      /\ resume > 0 => current = initial /\ Len(requests) = 0 /\ resume = partial
  BY <1>1 DEF TransferInv, RouteInv, TypeInv
<1>7. \A i \in 1 .. Len(requests') : i \in 1 .. Len(requests) \/ i = Len(requests) + 1
  BY <1>2, <1>4
<1>8. RouteInv'
  <2>1. authorize(current)'
    BY <1>1, <1>6 DEF authorize
  <2>2. \A i \in 1 .. Len(requests') :
            /\ requests'[i].url \in visited'
            /\ requests'[i].url \in Https => current' \in Https
            /\ requests'[i].url \in Local <=> current' \in Local
    BY <1>1, <1>3, <1>4, <1>6, <1>7
  <2>3. QED
    BY <1>1, <1>2, <1>4, <1>6, <2>1, <2>2 DEF RouteInv
<1>9. FileInv'
  <2>1. /\ file' \in Seq(0 .. Len(requests')) /\ Len(file') = resume /\ Len(file') <= Limit
        /\ \A i \in 1 .. Len(file') : file'[i] = 0
    <3>1. CASE kind = "text"
      <4>1. resume = 0 /\ file' = <<>>
        BY <1>1, <3>1 DEF TransferInv, TypeInv
      <4>2. QED
        BY <4>1, TransferAssumption
    <3>2. CASE kind # "text"
      <4>1. file' = Zeros(resume)
        BY <1>1, <3>2 DEF TransferInv, TypeInv, FileInv
      <4>2. Len(requests') \in Nat /\ Len(file) <= Limit /\ file' = file
        BY <1>1, <1>2, <1>4, <3>2 DEF TransferInv, FileInv
      <4>3. QED
        BY <1>2, <4>1, <4>2, ZerosIs
    <3>3. QED
      BY <3>1, <3>2
  <2>2. QED
    BY <1>1, <1>2, <2>1 DEF FileInv
<1>10. RangeStaysHome'
  BY <1>1, <1>2, <1>3, <1>4, <1>6, <1>7 DEF TransferInv, RequestsInScope, RangeStaysHome
<1>11. ChainAuthorized'
  <2>1. current \notin Outside
    BY <1>6, TransferAssumption DEF authorize
  <2>2. \A i \in 1 .. Len(requests') : requests'[i].url \notin Outside
    BY <1>3, <1>4, <1>7, <2>1 DEF TransferInv, RequestsInScope, ChainAuthorized
  <2>3. ASSUME NEW i \in 1 .. Len(requests'), NEW j \in 1 .. Len(requests'), i < j
        PROVE  /\ requests'[i].url \in Https => requests'[j].url \in Https
               /\ requests'[i].url \in Local <=> requests'[j].url \in Local
               /\ requests'[i].url = requests'[j].url => i = 1 /\ j = 2 /\ partial' > 0
    <3>1. i \in 1 .. Len(requests)
      BY <1>2, <1>4, <2>3
    <3>2. CASE j \in 1 .. Len(requests)
      BY <1>1, <1>4, <2>3, <3>1, <3>2 DEF TransferInv, RequestsInScope, ChainAuthorized
    <3>3. CASE j = Len(requests) + 1
      BY <1>1, <1>3, <1>4, <1>6, <3>1, <3>3
    <3>4. QED
      BY <1>7, <3>2, <3>3
  <2>4. QED
    BY <2>2, <2>3 DEF ChainAuthorized
<1>12. OneBody' /\ RefusalKeepsPartial'
  BY <1>1, <1>2 DEF OneBody, RefusalKeepsPartial
<1>13. QED
  BY <1>5, <1>8, <1>9, <1>10, <1>11, <1>12 DEF TransferInv, RequestsInScope

(* What every step of the judgement that ends the request leaves. *)
LEMMA EndsInv ==
    ASSUME TransferInv, pc = "judge", pc' = "done",
           outcome' \in {"ok", "transport", "limit", "refused", "status"},
           UNCHANGED <<kind, initial, partial, current, visited, redirectCount, exceeded, response, requests>>,
           resume' \in {0, partial}, faults' \in Nat,
           file' \in Seq(0 .. Len(requests)), Len(file') <= Limit,
           OneBody', RefusalKeepsPartial'
    PROVE  TransferInv'
<1>1. TypeInv'
  BY DEF TransferInv, TypeInv
<1>2. RouteInv'
  BY DEF TransferInv, RouteInv
<1>3. FileInv'
  BY DEF FileInv
<1>4. RequestsInScope'
  BY DEF TransferInv, RequestsInScope, ChainAuthorized, RangeStaysHome
<1>5. QED
  BY <1>1, <1>2, <1>3, <1>4 DEF TransferInv

(* A refused answer: the file is put back. *)
LEMMA RejectInv ==
    ASSUME TransferInv, Reject
    PROVE  TransferInv'
<1>1. /\ pc = "judge" /\ pc' = "done" /\ Restored(sizeBefore)
      /\ outcome' = (IF faults' # faults /\ Verdict # "limit" THEN "transport" ELSE Verdict)
      /\ Verdict \in {"limit", "refused", "status"}
      /\ UNCHANGED <<kind, initial, partial, current, visited, redirectCount, resume, exceeded, response, requests>>
  BY DEF Reject, Ends, input, route, bounded
<1> DEFINE v == Verdict
<1>2. v \in {"limit", "refused", "status"} /\ outcome' \in {"transport", v}
  BY <1>1
<1> HIDE DEF v
<1>3. /\ sizeBefore = resume /\ resume \in {0, partial} /\ partial \in Nat /\ faults \in Nat
      /\ resume \in Nat
  BY <1>1, TransferAssumption DEF TransferInv, FileInv, TypeInv
<1>4. /\ kind = "download" /\ faults' = faults => file' = Zeros(IF sizeBefore = 0 THEN 0 ELSE resume)
      /\ file' \in Seq(0 .. Len(requests)) /\ Len(file') <= Limit
      /\ faults' \in Nat
  BY <1>1, RestoredFile
<1>5. faults' = 0 => faults' = faults
  BY <1>1, <1>3 DEF Restored
<1>6. RefusalKeepsPartial'
  <2>1. Zeros(0) = <<>>
    BY ZerosIs
  <2>2. kind = "download" /\ faults' = 0 => file' = Zeros(0) \/ file' = Zeros(partial)
    BY <1>3, <1>4, <1>5
  <2>3. kind' = kind /\ partial' = partial
    BY <1>1
  <2>4. QED
    BY <2>1, <2>2, <2>3 DEF RefusalKeepsPartial, Zeros
<1>7. OneBody'
  BY <1>2 DEF OneBody
<1>8. outcome' \in {"ok", "transport", "limit", "refused", "status"} /\ resume' \in {0, partial}
  BY <1>1, <1>2, <1>3
<1>9. QED
  BY <1>1, <1>4, <1>6, <1>7, <1>8, EndsInv

(* A broken transport leaves what it wrote. *)
LEMMA TransportInv ==
    ASSUME TransferInv, TransportFails
    PROVE  TransferInv'
<1>1. /\ pc = "judge" /\ pc' = "done" /\ outcome' = "transport"
      /\ UNCHANGED <<kind, initial, partial, current, visited, redirectCount, resume, exceeded, response,
                     requests, file, faults>>
  BY DEF TransportFails, Ends, input, route, bounded
<1>2. /\ resume' \in {0, partial} /\ faults' \in Nat /\ file' \in Seq(0 .. Len(requests))
      /\ Len(file') <= Limit
  BY <1>1 DEF TransferInv, TypeInv, FileInv
<1>3. OneBody' /\ RefusalKeepsPartial'
  BY <1>1 DEF OneBody, RefusalKeepsPartial
<1>4. QED
  BY <1>1, <1>2, <1>3, EndsInv

(* An accepted body: the file holds the caller's bytes only when this was  *)
(* the first request, which resumed behind them.                           *)
LEMMA AcceptInv ==
    ASSUME TransferInv, Accept
    PROVE  TransferInv'
<1>1. /\ pc = "judge" /\ pc' = "done" /\ outcome' = "ok"
      /\ UNCHANGED <<kind, initial, partial, current, visited, redirectCount, resume, exceeded, response,
                     requests, file, faults>>
  BY DEF Accept, Ends, input, route, bounded
<1>2. /\ resume \in {0, partial} /\ faults \in Nat /\ file \in Seq(0 .. Len(requests))
      /\ Len(file) <= Limit /\ resume <= Len(file) /\ partial \in Nat /\ resume \in Nat
      /\ \A i \in 1 .. Len(file) : file[i] = IF i <= resume THEN 0 ELSE Len(requests)
      /\ Len(requests) > 0 /\ (resume > 0 => Len(requests) = 1)
  BY <1>1, TransferAssumption DEF TransferInv, TypeInv, FileInv, RouteInv
<1>3. Len(requests) \in Nat /\ Len(file) \in Nat
  BY <1>2, LenProperties DEF TransferInv, TypeInv
<1>4. \A i \in 1 .. Len(file) : file[i] \in {0, Len(requests)}
  BY <1>2
<1>5. ASSUME NEW i \in 1 .. Len(file), file[i] = 0
      PROVE  Len(requests) = 1 /\ SubSeq(file, 1, partial) = Zeros(partial)
  <2>1. i <= resume
    BY <1>2, <1>3, <1>5
  <2>2. resume > 0 /\ resume = partial
    BY <1>2, <1>3, <2>1
  <2>3. partial \in 0 .. Len(file) /\ \A k \in 1 .. partial : file[k] = 0
    BY <1>2, <1>3, <2>2
  <2>4. SubSeq(file, 1, partial) = Zeros(partial)
    BY <1>2, <1>3, <2>3, CutToZeros
  <2>5. QED
    BY <1>2, <2>2, <2>4
<1>6. OneBody' /\ RefusalKeepsPartial'
  BY <1>1, <1>4, <1>5 DEF OneBody, RefusalKeepsPartial, Zeros
<1>7. QED
  BY <1>1, <1>2, <1>6, EndsInv

(* A write within the budget appends bytes of the current request only. *)
LEMMA WriteInv ==
    ASSUME TransferInv, Write
    PROVE  TransferInv'
<1>1. PICK n \in Chunks :
          IF n > Limit - Len(file) \/ n > (Limit - sizeBefore) - written
            THEN exceeded' = TRUE /\ UNCHANGED <<file, written>>
            ELSE /\ file' = file \o [i \in 1 .. n |-> Len(requests)]
                 /\ written' = written + n /\ UNCHANGED exceeded
  BY DEF Write
<1>2. /\ pc = "transfer" /\ exceeded' \in BOOLEAN
      /\ UNCHANGED <<kind, initial, partial, current, visited, redirectCount, resume, sizeBefore, response,
                     requests, pc, outcome, faults>>
  BY <1>1 DEF Write, input, route, TransferInv, TypeInv
<1>3. /\ file \in Seq(0 .. Len(requests)) /\ Len(file) <= Limit /\ Limit \in Nat /\ n \in Nat
      /\ sizeBefore = resume /\ written = Len(file) - resume /\ resume <= Len(file) /\ resume \in Nat
      /\ \A i \in 1 .. Len(file) : file[i] = IF i <= resume THEN 0 ELSE Len(requests)
  BY <1>2, TransferAssumption DEF TransferInv, TypeInv, FileInv
<1>4. Len(requests) \in Nat /\ Len(file) \in Nat
  BY <1>3, LenProperties DEF TransferInv, TypeInv
<1>5. TypeInv'
  BY <1>2 DEF TransferInv, TypeInv
<1>6. RouteInv'
  <2>1. authorize(current)' <=> authorize(current)
    BY <1>2 DEF authorize
  <2>2. QED
    BY <1>2, <2>1 DEF TransferInv, RouteInv
<1>7. RequestsInScope'
  BY <1>2 DEF TransferInv, RequestsInScope, ChainAuthorized, RangeStaysHome
<1>8. OneBody' /\ RefusalKeepsPartial'
  BY <1>2 DEF OneBody, RefusalKeepsPartial, TransferInv, TypeInv
<1>9. FileInv'
  <2>1. CASE n > Limit - Len(file) \/ n > (Limit - sizeBefore) - written
    BY <1>1, <1>2, <2>1 DEF TransferInv, FileInv
  <2>2. CASE ~ (n > Limit - Len(file) \/ n > (Limit - sizeBefore) - written)
    <3> DEFINE c == [i \in 1 .. n |-> Len(requests)]
    <3>1. Len(requests) \in 0 .. Len(requests)
      BY <1>4
    <3>2. c \in Seq(0 .. Len(requests)) /\ Len(c) = n /\ \A i \in 1 .. n : c[i] = Len(requests)
      BY <1>3, <3>1, ConstantSeq
    <3>3. file' = file \o c /\ written' = written + n
      BY <1>1, <2>2
    <3> HIDE DEF c
    <3>4. /\ file' \in Seq(0 .. Len(requests)) /\ Len(file') = Len(file) + n
          /\ \A i \in 1 .. Len(file') : file'[i] = IF i <= Len(file) THEN file[i] ELSE c[i - Len(file)]
      <4>1. \A i \in 1 .. Len(file) + n : (file \o c)[i] = IF i <= Len(file) THEN file[i] ELSE c[i - Len(file)]
        BY <1>3, <1>4, <3>2
      <4>2. file \o c \in Seq(0 .. Len(requests)) /\ Len(file \o c) = Len(file) + n
        BY <1>3, <1>4, <3>2
      <4>3. QED
        BY <3>3, <4>1, <4>2
    <3>5. Len(file') <= Limit /\ resume <= Len(file') /\ written' = Len(file') - resume
      BY <1>3, <1>4, <2>2, <3>3, <3>4
    <3>6. ASSUME NEW i \in 1 .. Len(file')
          PROVE  file'[i] = IF i <= resume THEN 0 ELSE Len(requests)
      <4>1. CASE i <= Len(file)
        BY <1>3, <1>4, <3>4, <4>1
      <4>2. CASE ~ (i <= Len(file))
        <5>1. i - Len(file) \in 1 .. n /\ ~ (i <= resume)
          BY <1>3, <1>4, <3>4, <4>2
        <5>2. QED
          BY <3>2, <3>4, <4>2, <5>1
      <4>3. QED
        BY <4>1, <4>2
    <3>7. QED
      BY <1>2, <1>3, <3>4, <3>5, <3>6 DEF FileInv
  <2>3. QED
    BY <2>1, <2>2
<1>10. QED
  BY <1>5, <1>6, <1>7, <1>8, <1>9 DEF TransferInv

(* The answer. *)
LEMMA RespondInv ==
    ASSUME TransferInv, Respond
    PROVE  TransferInv'
<1>1. /\ pc = "transfer" /\ pc' = "judge" /\ response' \in Responses \union Failures
      /\ UNCHANGED <<kind, initial, partial, current, visited, redirectCount, resume, file, sizeBefore, written,
                     exceeded, requests, outcome, faults>>
  BY DEF Respond, Goes, input, route, bounded
<1>2. TypeInv'
  BY <1>1 DEF TransferInv, TypeInv
<1>3. RouteInv'
  <2>1. authorize(current)' <=> authorize(current)
    BY <1>1 DEF authorize
  <2>2. QED
    BY <1>1, <2>1 DEF TransferInv, RouteInv
<1>4. FileInv'
  BY <1>1 DEF TransferInv, FileInv
<1>5. RequestsInScope'
  BY <1>1 DEF TransferInv, RequestsInScope, ChainAuthorized, RangeStaysHome
<1>6. OneBody' /\ RefusalKeepsPartial'
  BY <1>1 DEF OneBody, RefusalKeepsPartial, TransferInv, TypeInv
<1>7. QED
  BY <1>2, <1>3, <1>4, <1>5, <1>6 DEF TransferInv

(* What every step of the judgement that asks again leaves: the range is   *)
(* given up, and nothing of the caller's file is left.                     *)
LEMMA AgainInv ==
    ASSUME TransferInv, pc = "judge", pc' = "request", resume' = 0,
           UNCHANGED <<kind, initial, partial, exceeded, response, requests, outcome, faults>>,
           current' \in Urls, visited' \subseteq Urls, visited \subseteq visited',
           current' \in visited', redirectCount' \in 0 .. MaxRedirects,
           authorize(current'), current \in Https => current' \in Https,
           current \in Local <=> current' \in Local,
           file' \in Seq(0 .. Len(requests)), Len(file') <= Limit,
           kind = "download" => file' = Zeros(0),
           \A i \in 1 .. Len(requests) :
               requests[i].url = current' => i = 1 /\ Len(requests) = 1 /\ partial > 0
    PROVE  TransferInv'
<1>1. TypeInv'
  BY DEF TransferInv, TypeInv
<1>2. RouteInv'
  <2>1. authorize(current)'
    BY DEF authorize
  <2>2. Len(requests) > 0 /\ requests # <<>>
    BY DEF TransferInv, RouteInv
  <2>3. \A i \in 1 .. Len(requests) :
            /\ requests'[i].url \in visited'
            /\ requests'[i].url \in Https => current' \in Https
            /\ requests'[i].url \in Local <=> current' \in Local
    BY DEF TransferInv, RouteInv
  <2>4. QED
    BY <2>1, <2>2, <2>3 DEF RouteInv
<1>3. FileInv'
  BY DEF FileInv
<1>4. RequestsInScope'
  BY DEF TransferInv, RequestsInScope, ChainAuthorized, RangeStaysHome
<1>5. OneBody' /\ RefusalKeepsPartial'
  BY DEF OneBody, RefusalKeepsPartial, TransferInv, TypeInv
<1>6. QED
  BY <1>1, <1>2, <1>3, <1>4, <1>5 DEF TransferInv

(* A failing truncation ends the request with the file as it was. *)
LEMMA TruncationFailsInv ==
    ASSUME TransferInv, pc = "judge", pc' = "done", outcome' = "transport",
           UNCHANGED <<kind, initial, partial, current, visited, redirectCount, resume, exceeded, response, requests>>,
           NEW size \in {0, sizeBefore}, Restored(size)
    PROVE  TransferInv'
<1>1. file' \in Seq(0 .. Len(requests)) /\ Len(file') <= Limit /\ faults' \in Nat
  BY RestoredFile
<1>2. OneBody' /\ RefusalKeepsPartial'
  BY DEF OneBody, RefusalKeepsPartial
<1>3. resume' \in {0, partial}
  BY DEF TransferInv, TypeInv
<1>4. QED
  BY <1>1, <1>2, <1>3, EndsInv

(* The server ignored the range: the same URL once more. *)
LEMMA RestartInv ==
    ASSUME TransferInv, Restart
    PROVE  TransferInv'
<1>1. /\ pc = "judge" /\ Verdict = "restart" /\ Restored(0)
      /\ IF faults' # faults THEN pc' = "done" /\ outcome' = "transport" /\ resume' = resume
                             ELSE resume' = 0 /\ pc' = "request" /\ outcome' = outcome
      /\ UNCHANGED <<kind, initial, partial, current, visited, redirectCount, exceeded, response, requests>>
  BY DEF Restart, Goes, Ends, input, route, bounded
<1>2. resume > 0 /\ kind = "download"
  BY <1>1, VerdictIs
<1>3. CASE faults' # faults
  BY <1>1, <1>3, TruncationFailsInv
<1>4. CASE faults' = faults
  <2>1. file' = Zeros(0) /\ file' \in Seq(0 .. Len(requests)) /\ Len(file') <= Limit
    BY <1>1, <1>2, <1>4, RestoredFile
  <2>2. /\ current \in Urls /\ visited \subseteq Urls /\ redirectCount \in 0 .. MaxRedirects
        /\ current \in visited /\ authorize(current) /\ Len(requests) = 1 /\ partial > 0
    BY <1>1, <1>2 DEF TransferInv, TypeInv, RouteInv
  <2>3. authorize(current')
    BY <1>1, <2>2 DEF authorize
  <2>4. \A i \in 1 .. Len(requests) : i = 1
    BY <2>2
  <2>5. QED
    BY <1>1, <1>4, <2>1, <2>2, <2>3, <2>4, AgainInv
<1>5. QED
  BY <1>3, <1>4

(* A redirect: to a URL that was not visited, and only if the policy       *)
(* authorizes the step.                                                    *)
LEMMA RedirectInv ==
    ASSUME TransferInv, Redirect
    PROVE  TransferInv'
<1> DEFINE size == IF Ranged THEN 0 ELSE sizeBefore
           taken == /\ redirectCount < MaxRedirects /\ response.location # None
                    /\ authorizeTransition(current, response.location) /\ response.location \notin visited
<1>1. /\ pc = "judge" /\ Verdict = "redirect" /\ Restored(size)
      /\ UNCHANGED <<kind, initial, partial, exceeded, response, requests>>
      /\ IF faults' # faults
           THEN pc' = "done" /\ outcome' = "transport" /\ UNCHANGED <<resume, current, visited, redirectCount>>
           ELSE /\ resume' = 0
                /\ IF taken
                     THEN /\ current' = response.location /\ visited' = visited \union {response.location}
                          /\ redirectCount' = redirectCount + 1 /\ pc' = "request" /\ outcome' = outcome
                     ELSE pc' = "done" /\ outcome' = "refused" /\ UNCHANGED <<current, visited, redirectCount>>
  BY DEF Redirect, Goes, Ends, input, route, bounded
<1>2. response \in Responses
  BY <1>1, VerdictIs
<1>3. size \in {0, sizeBefore} /\ size = 0
  BY <1>1, TransferAssumption DEF Ranged, TransferInv, FileInv, TypeInv
<1>4. size \in {0, sizeBefore}
  BY <1>3
<1>5. CASE faults' # faults
  BY <1>1, <1>3, <1>5, TruncationFailsInv
<1>6. CASE faults' = faults
  <2>1. /\ kind = "download" => file' = Zeros(0)
        /\ file' \in Seq(0 .. Len(requests)) /\ Len(file') <= Limit /\ faults' \in Nat
    BY <1>1, <1>3, <1>6, RestoredFile
  <2>2. CASE ~ taken
    <3>1. OneBody'
      BY <1>1, <1>6, <2>2 DEF OneBody
    <3>2. Zeros(0) = <<>>
      BY ZerosIs
    <3>3. RefusalKeepsPartial'
      BY <1>1, <2>1, <3>2 DEF RefusalKeepsPartial
    <3>4. /\ UNCHANGED <<kind, initial, partial, current, visited, redirectCount, exceeded, response, requests>>
          /\ pc' = "done" /\ outcome' = "refused" /\ resume' \in {0, partial}
      BY <1>1, <1>6, <2>2
    <3>5. QED
      BY <1>1, <2>1, <3>1, <3>3, <3>4, EndsInv
  <2>3. CASE taken
    <3> DEFINE to == response.location
    <3>1. /\ to \in Urls /\ to \notin visited /\ redirectCount + 1 \in 0 .. MaxRedirects
          /\ visited \subseteq Urls
      BY <1>2, <2>3, TransferAssumption DEF Responses, TransferInv, TypeInv
    <3>2. /\ authorize(to) /\ (current \in Local <=> to \in Local)
          /\ ~ (current \in Https /\ to \in Http)
      BY <2>3 DEF authorizeTransition
    <3>3. current \in Https => to \in Https
      BY <3>2, TransferAssumption DEF authorize
    <3>4. /\ resume' = 0 /\ current' = to /\ visited' = visited \union {to}
          /\ redirectCount' = redirectCount + 1 /\ pc' = "request" /\ outcome' = outcome
      BY <1>1, <1>6, <2>3
    <3> HIDE DEF taken, to, size
    <3>5. \A i \in 1 .. Len(requests) : requests[i].url # current'
      BY <3>1, <3>4 DEF TransferInv, RouteInv
    <3>6. /\ current' \in Urls /\ visited' \subseteq Urls /\ visited \subseteq visited'
          /\ current' \in visited' /\ redirectCount' \in 0 .. MaxRedirects
          /\ authorize(current') /\ (current \in Https => current' \in Https)
          /\ (current \in Local <=> current' \in Local)
      <4>1. authorize(current')
        BY <3>2, <3>4
      <4>2. QED
        BY <3>1, <3>2, <3>3, <3>4, <4>1
    <3>7. UNCHANGED <<kind, initial, partial, exceeded, response, requests, outcome, faults>>
      BY <1>1, <1>6, <3>4
    <3>8. QED
      BY <1>1, <2>1, <3>4, <3>5, <3>6, <3>7, AgainInv
  <2>4. QED
    BY <2>2, <2>3
<1>7. QED
  BY <1>5, <1>6

(* Before anything was asked. *)
LEMMA InitInv ==
    ASSUME Init
    PROVE  TransferInv
<1>1. /\ partial \in 0 .. Limit /\ partial \in Nat /\ kind \in {"text", "download"} /\ initial \in Urls
      /\ current = initial /\ visited = {} /\ redirectCount = 0 /\ resume = partial /\ file = Zeros(partial)
      /\ exceeded = FALSE /\ response = None /\ requests = <<>> /\ pc = "start" /\ outcome = "running"
      /\ faults = 0 /\ (kind = "text" => partial = 0)
  BY TransferAssumption DEF Init, Zeros
<1>2. requests \in Seq([url: Urls, offset: Nat]) /\ Len(requests) = 0
  BY <1>1
<1>3. TypeInv
  <2>1. redirectCount \in 0 .. MaxRedirects
    <3>1. MaxRedirects \in Nat
      BY TransferAssumption
    <3>2. QED
      BY <1>1, <3>1
  <2>2. resume \in {0, partial} /\ exceeded \in BOOLEAN /\ faults \in Nat
        /\ current \in Urls /\ visited \subseteq Urls
    BY <1>1
  <2>3. QED
    BY <1>1, <1>2, <2>1, <2>2 DEF TypeInv
<1>4. RouteInv
  BY <1>1, <1>2 DEF RouteInv
<1>5. FileInv
  <2>1. file \in Seq(0 .. Len(requests)) /\ Len(file) = partial
    BY <1>1, <1>2, ZerosIs
  <2>2. QED
    BY <1>1, <2>1, TransferAssumption DEF FileInv
<1>6. RequestsInScope /\ OneBody /\ RefusalKeepsPartial
  BY <1>1, <1>2 DEF RequestsInScope, ChainAuthorized, RangeStaysHome, OneBody, RefusalKeepsPartial
<1>7. QED
  BY <1>3, <1>4, <1>5, <1>6 DEF TransferInv

(* Every step keeps the invariant. *)
LEMMA NextInv ==
    ASSUME TransferInv, [Next]_vars
    PROVE  TransferInv'
<1>1. CASE Next
  BY <1>1, AuthorizeInv, RequestInv, RejectInv, TransportInv, RedirectInv, RestartInv, AcceptInv,
     WriteInv, RespondInv DEF Next, Coordinator
<1>2. CASE UNCHANGED vars
  <2>1. UNCHANGED <<kind, initial, current, visited, redirectCount, partial, resume, file, sizeBefore,
                    written, exceeded, response, requests, pc, outcome, faults>>
    BY <1>2 DEF vars
  <2>2. TypeInv'
    BY <2>1 DEF TransferInv, TypeInv
  <2>3. RouteInv'
    <3>1. authorize(current)' <=> authorize(current)
      BY <2>1 DEF authorize
    <3>2. QED
      BY <2>1, <3>1 DEF TransferInv, RouteInv
  <2>4. FileInv'
    BY <2>1 DEF TransferInv, FileInv
  <2>5. RequestsInScope' /\ OneBody' /\ RefusalKeepsPartial'
    BY <2>1 DEF TransferInv, RequestsInScope, ChainAuthorized, RangeStaysHome, OneBody, RefusalKeepsPartial
  <2>6. QED
    BY <2>2, <2>3, <2>4, <2>5 DEF TransferInv
<1>3. QED
  BY <1>1, <1>2

-----------------------------------------------------------------------------
(* The theorems. *)

(* The invariant of one coordinated request, for any number of redirects   *)
(* and any division of the bodies into writes.                             *)
THEOREM TransferInvariance == Spec => []TransferInv
<1>1. Init => TransferInv
  BY InitInv
<1>2. TransferInv /\ [Next]_vars => TransferInv'
  BY NextInv
<1>3. QED
  BY <1>1, <1>2, PTL DEF Spec

(* The redirect loop and UrlPolicy: no request leaves the configured       *)
(* scopes, falls from HTTPS to HTTP, mixes files and the network or visits *)
(* a URL twice but for one restart, and the range of the partial file goes *)
(* to the URL the caller named only.                                       *)
THEOREM RequestsStayInScope == Spec => []RequestsInScope
<1>1. TransferInv => RequestsInScope
  BY DEF TransferInv
<1>2. QED
  BY <1>1, TransferInvariance, PTL

(* BoundedRootedFile and restoreFileSize: the partial file never outgrows  *)
(* the signed size, what is accepted is of one body behind at most the     *)
(* caller's bytes, and a refused answer leaves the caller's file or none.  *)
THEOREM PartialFileIsSound == Spec => []PartialFileSound
<1>1. TransferInv => PartialFileSound
  BY TransferAssumption DEF TransferInv, TypeInv, FileInv, PartialFileSound, TypeOK, NeverBeyondLimit
<1>2. QED
  BY <1>1, TransferInvariance, PTL

=============================================================================
