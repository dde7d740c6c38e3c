----------------------------- MODULE BottleFetch -----------------------------
(* One HTTPS bottle of a tap, from ingestion to build: the probe, the fetch  *)
(* and the Sigstore look-up of internal/cataloggenerator (buildExternalHTTPS,*)
(* provenanceForHTTPS), and the later fetch of the signed request by the     *)
(* bottle-fetcher, all through internal/fetcher.                             *)
(*                                                                           *)
(* Servers may change what they answer, the resolver may answer differently  *)
(* each time it is asked, and every network operation may fail.  A URL is    *)
(* [host, path, form]: form "bad" is one validateEndpointURL refuses, "long" *)
(* one that only the probe refuses, "unnamed" one whose path ends in no file *)
(* name.  A response is [status, to, encoding,    *)
(* length, body], length -1 without Content-Length.  Bytes are sequences and *)
(* the digest of a byte string is the string itself.                         *)
EXTENDS Integers, Sequences, FiniteSets, Functions

CONSTANTS
  Bottle, Signature,   \* the declared bottle URL and its .sigstore.json
  Responses,           \* URL -> the responses its server may give
  Webs,                \* what the servers may answer at first: URL -> response
  Answers,             \* host -> the sets of addresses DNS may return for it
  Public,              \* the public addresses
  MaxRedirects,        \* fetcher.MaxRedirects
  MaxBottleSize,       \* fetcher.MaxBottleSize
  MaxBundleSize,       \* maxSigstoreBundleBytes
  Declared,            \* the digest the tap declares
  Genuine,             \* a bundle that verifies for that digest
  MaxChanges           \* bound on changes of the web

VARIABLES
  web,                 \* what the servers answer now
  stage,               \* the call in progress, or how the bottle ended
  loop,                \* its redirect loop: [at, visited, hosts, step]
  request,             \* the bottle's request: [size, allow], signed after ingestion
  sigRequest,          \* the request for the Sigstore bundle
  result,              \* what the last fetch returned: [evidence, bytes]
  provenance,          \* "none", "verified" or "waived"
  dialed,              \* every address connected to
  past                 \* [changes, disturbed, status, failed]

vars == <<web, stage, loop, request, sigRequest, result, provenance, dialed, past>>

(* Every place a request may be sent to has a server and a name.             *)
WebSound ==
  /\ MaxRedirects \in Nat
  /\ Bottle \in DOMAIN Responses /\ Signature \in DOMAIN Responses
  /\ \A w \in Webs :
       w = [u \in DOMAIN Responses |-> w[u]] /\ \A u \in DOMAIN Responses : w[u] \in Responses[u]
  /\ \A u \in DOMAIN Responses :
       /\ u.host \in DOMAIN Answers
       /\ \A r \in Responses[u] :
            r.to.form \notin {"bad", "none"} => r.to \in DOMAIN Responses

Probing == {"probe", "sig probe"}
Fetching == {"fetch", "sig fetch", "build"}
NoRequest == [size |-> 0, allow |-> {}]
NoResult == [hosts |-> <<>>, size |-> 0, digest |-> <<>>]

Enter(url) == [at |-> url, visited |-> {}, hosts |-> <<>>, step |-> "visit"]

Init ==
  /\ web \in Webs
  /\ stage = "probe"
  /\ loop = Enter(Bottle)
  /\ request = NoRequest /\ sigRequest = NoRequest
  /\ result = NoResult
  /\ provenance = "none"
  /\ dialed = {}
  /\ past = [changes |-> 0, disturbed |-> FALSE, status |-> 0, failed |-> "none"]

Current == IF stage = "sig fetch" THEN sigRequest ELSE request

-----------------------------------------------------------------------------
IsPublicIP(address) == address \in Public

(* publicResolver.lookup: no answer, no address and one address that is not  *)
(* public all fail the look-up.                                              *)
LookupOK(answer) == answer # {} /\ \A a \in answer : IsPublicIP(a)

Fail(disturbed) ==
  /\ past' = [past EXCEPT !.failed = stage, !.disturbed = @ \/ disturbed]
  /\ stage' = "failed"
  /\ loop' = [loop EXCEPT !.step = "over"]
  /\ UNCHANGED <<web, request, sigRequest, result, provenance>>

(* validateEndpointURL.                                                      *)
EndpointOK(url) == url.form # "bad"

(* The head of the loop: context, loop detection, the endpoint, the signed   *)
(* allowlist once redirected, and the look-up that precedes the request.     *)
Admitted(url, redirected) ==
  /\ url \notin loop.visited
  /\ EndpointOK(url)
  /\ stage \in Fetching /\ redirected => url.host \in Current.allow

Visit ==
  /\ loop.step = "visit"
  /\ UNCHANGED dialed
  /\ IF ~Admitted(loop.at, loop.hosts # <<>>)
       THEN Fail(FALSE)
       ELSE \E answer \in Answers[loop.at.host] \cup {{}} :
              IF ~LookupOK(answer)
                THEN Fail(TRUE)
                ELSE /\ loop' = [loop EXCEPT !.visited = @ \cup {loop.at},
                                             !.hosts = Append(@, loop.at.host),
                                             !.step = "send"]
                     /\ UNCHANGED <<web, stage, request, sigRequest, result,
                                    provenance, past>>

-----------------------------------------------------------------------------
(* The allowlist of a request: every host the probe met, the origin first.   *)
AllowedAfter(hosts) == Range(hosts)

Step(next, url) ==
  /\ stage' = next
  /\ loop' = Enter(url)

(* bottleFilename of the URL the probe ended at, and the check of it in      *)
(* ValidateRequest, whose other checks hold of what a probe returns.         *)
FilenameOK(url) == url.form # "unnamed"

(* The probe of the bottle fixes its size and its redirect hosts.            *)
Probed(r) ==
  IF ~FilenameOK(loop.at)
    THEN Fail(FALSE)
    ELSE /\ Step("fetch", Bottle)
         /\ request' = [size |-> r.length, allow |-> AllowedAfter(loop.hosts)]
         /\ UNCHANGED <<web, sigRequest, result, provenance, past>>

(* VerifyEvidence of what was fetched against the request.                   *)
EvidenceOK(e, q) ==
  /\ Len(e.hosts) \in 1..(MaxRedirects + 1)
  /\ e.size = q.size
  /\ e.digest = Declared
  /\ e.hosts[1] = Bottle.host
  /\ \A i \in 2..Len(e.hosts) : e.hosts[i] \in q.allow

FetchedBottle(e) ==
  /\ result' = e
  /\ IF EvidenceOK(e, request)
       THEN Step("sig probe", Signature) /\ UNCHANGED past
       ELSE /\ stage' = "failed"
            /\ loop' = [loop EXCEPT !.step = "over"]
            /\ past' = [past EXCEPT !.failed = stage]
  /\ UNCHANGED <<web, request, sigRequest, provenance>>

SignatureFound(r) ==
  IF r.length > MaxBundleSize
    THEN Fail(FALSE)
    ELSE /\ Step("sig fetch", Signature)
         /\ sigRequest' = [size |-> r.length, allow |-> AllowedAfter(loop.hosts)]
         /\ UNCHANGED <<web, request, result, provenance, past>>

(* ProbeOptional: only 404 and 410 are an absence, which waives provenance.  *)
IsAbsence(status) == status \in {404, 410}

SignatureAbsent(status) ==
  /\ provenance' = "waived"
  /\ Step("build", Bottle)
  /\ past' = [past EXCEPT !.status = status]
  /\ UNCHANGED <<web, request, sigRequest, result>>

(* FetchObserved does not compare the digest; the bundle itself is verified. *)
FetchedSignature(e) ==
  IF e.digest # Genuine
    THEN Fail(FALSE)
    ELSE /\ provenance' = "verified"
         /\ Step("build", Bottle)
         /\ UNCHANGED <<web, request, sigRequest, result, past>>

Delivered(e) ==
  /\ stage' = "delivered"
  /\ loop' = [loop EXCEPT !.step = "over"]
  /\ result' = e
  /\ UNCHANGED <<web, request, sigRequest, provenance, past>>

-----------------------------------------------------------------------------
(* The bytes a response body yields under its Content-Length (net/http).     *)
Whole(r) == r.length = -1 \/ Len(r.body) >= r.length
Body(r) == IF r.length = -1 THEN r.body ELSE SubSeq(r.body, 1, r.length)

(* A fetch that checks the size alone.                                       *)
BodyOKBySize(r, q) == Whole(r) /\ Len(Body(r)) = q.size

(* The size and, unless only observed, the digest of a fetched body.         *)
BodyOK(r, q) ==
  /\ r.length >= 0 => r.length = q.size
  /\ Whole(r)
  /\ Len(Body(r)) = q.size
  /\ stage # "sig fetch" => Body(r) = Declared

Fetched(r) ==
  LET e == [hosts |-> loop.hosts, size |-> Len(Body(r)), digest |-> Body(r)]
  IN CASE ~BodyOK(r, Current) -> Fail(FALSE)
       [] BodyOK(r, Current) /\ stage = "fetch" -> FetchedBottle(e)
       [] BodyOK(r, Current) /\ stage = "sig fetch" -> FetchedSignature(e)
       [] BodyOK(r, Current) /\ stage = "build" -> Delivered(e)

(* A redirect: the limit, the Location and its host, then the next round.    *)
RedirectLimitReached == Len(loop.hosts) - 1 >= MaxRedirects

TargetOK(url) ==
  /\ EndpointOK(url)
  /\ stage \in Probing => url.form # "long"
  /\ stage \in Fetching => url.host \in Current.allow

Redirected(r) ==
  IF RedirectLimitReached \/ r.to.form = "none" \/ ~TargetOK(r.to)
    THEN Fail(FALSE)
    ELSE /\ loop' = [loop EXCEPT !.at = r.to, !.step = "visit"]
         /\ UNCHANGED <<web, stage, request, sigRequest, result, provenance, past>>

(* exactProbeContentLength.                                                  *)
ProbedLengthOK(r) == r.length \in 1..MaxBottleSize

Answered(r) ==
  \/ r.status = 302 /\ Redirected(r)
  \/ /\ r.status \notin {200, 302}
     /\ IF stage = "sig probe" /\ IsAbsence(r.status)
          THEN SignatureAbsent(r.status) ELSE Fail(FALSE)
  \/ r.status = 200 /\ r.encoding # "identity" /\ Fail(FALSE)
  \/ r.status = 200 /\ r.encoding = "identity" /\ stage \in Fetching /\ Fetched(r)
  \/ /\ r.status = 200 /\ r.encoding = "identity" /\ stage \in Probing
     /\ IF ~ProbedLengthOK(r)
          THEN Fail(FALSE)
          ELSE IF stage = "probe" THEN Probed(r) ELSE SignatureFound(r)

(* One of the addresses of an answer is connected to.                        *)
Dial(answer) == \E a \in answer : dialed' = dialed \cup {a}

(* The request: publicDialer looks the host up again and connects to one of  *)
(* the addresses of that answer; the connection or the transfer may fail.    *)
Send ==
  /\ loop.step = "send"
  /\ \E answer \in Answers[loop.at.host] \cup {{}} :
       IF ~LookupOK(answer)
         THEN Fail(TRUE) /\ UNCHANGED dialed
         ELSE /\ Dial(answer)
              /\ Answered(web[loop.at]) \/ Fail(TRUE)

-----------------------------------------------------------------------------
(* A server changes what it answers.                                         *)
Change ==
  /\ past.changes < MaxChanges
  /\ stage \notin {"failed", "delivered"}
  /\ \E u \in DOMAIN web : \E r \in Responses[u] \ {web[u]} :
       web' = [web EXCEPT ![u] = r]
  /\ past' = [past EXCEPT !.changes = @ + 1, !.disturbed = TRUE]
  /\ UNCHANGED <<stage, loop, request, sigRequest, result, provenance, dialed>>

Next == Visit \/ Send \/ Change

Spec == Init /\ [][Next]_vars

-----------------------------------------------------------------------------
(* No connection is ever made to an address that is not public, though the   *)
(* resolver may answer the dialer differently than it answered the check.    *)
DialsArePublic == dialed \subseteq Public

(* A bottle is delivered only with the bytes the tap declared and the size   *)
(* that was signed, however often the servers changed since the ingestion.   *)
DeliveredIsDeclared ==
  stage = "delivered" => result.digest = Declared /\ result.size = request.size

(* The evidence a fetch returns always passes the check its consumers make,  *)
(* VerifyEvidence: a fetch never follows more redirects than evidence may    *)
(* hold nor leaves the hosts that were signed.                               *)
EvidenceAccepted ==
  stage \in {"sig probe", "sig fetch", "build", "delivered"} =>
    /\ Len(result.hosts) \in 1..(MaxRedirects + 1)
    /\ result.hosts[1] = Bottle.host
    /\ Range(result.hosts) \subseteq request.allow

(* A bottle that was probed can be fetched: while servers and resolvers      *)
(* answer as they did, the request ingestion builds is refused only when the *)
(* bytes are not the declared ones.                                          *)
ProbedIsFetched ==
  past.failed \in {"fetch", "build"} /\ ~past.disturbed =>
    LET last == web[loop.at]
    IN last.status = 200 /\ (~Whole(last) \/ Body(last) # Declared)

(* Provenance is waived only after the server itself said 404 or 410: an     *)
(* outage, a refused redirect or an odd answer never downgrades it.          *)
WaivedMeansAbsent ==
  provenance = "waived" => past.status \in {404, 410}

(* Whatever redirects, names and bodies the network answers with.            *)
FetchedIsDeclared ==
  DialsArePublic /\ DeliveredIsDeclared /\ EvidenceAccepted /\ WaivedMeansAbsent
=============================================================================
