---------------------------- MODULE CatalogClient ----------------------------
(* The frontend's side of the catalog protocol, internal/catalogclient, with *)
(* the verification it rests on: catalogauth.VerifyAccepted, metadata.       *)
(* VerifyJWS, catalogkeys.Policy and the bindings of catalog/compare.go.     *)
(*                                                                           *)
(* One Resolve against one service that may already have the operation from  *)
(* an earlier caller, generates for a while, refreshes results that grow     *)
(* old, and may have its signing key rotated.  The service or what stands    *)
(* between may also answer wrongly a bounded number of times: the result of  *)
(* another request, one signed by an older deployment, a stale one, another  *)
(* document.  Time is in seconds; the digest of a document is the document   *)
(* itself.                                                                   *)
EXTENDS Naturals, Sequences, FiniteSets

CONSTANTS
  Policies,      \* release key policies: [required, overlap, keys, unknown, floor]
  Keys,          \* the signing keys of the service, in the order of rotation
  Taps,          \* the taps of the request, in order
  Generations,   \* how long a generation may take
  Retries,       \* what the service may give as retry_after_seconds
  DefaultRetry, MaxRetry,
  Published,     \* when the service may have published an earlier result
  Started,       \* when Resolve is called
  Deadline,      \* how long it may take
  Refresh, Lifetime,
  Delay,         \* how long a slow answer is under way
  MaxFaults, MaxRotations,
  MaxNow,        \* the horizon, beyond the deadline
  None

VARIABLES
  now,
  service,       \* [signer, op, ready, longest, result, sequence, rotations]
  client,        \* [pc, policy, wake, result, got, polls, verified]
  faults         \* wrong answers and failed requests so far

vars == <<now, service, client, faults>>

(* The results a client may be shown, honest or not: the payload names the   *)
(* taps of the request, in order.                                            *)
References ==
  [tap : {Taps[i] : i \in DOMAIN Taps}, sequence : Nat,
   origin : {"service", "elsewhere"}]

ReferenceLists ==
  {l \in [DOMAIN Taps -> References] : \A i \in DOMAIN Taps : l[i].tap = Taps[i]}

Payloads ==
  [request : {"ours", "other"}, core : {"core", "older"}, roots : {"exact", "other"},
   by : {"current", "older"}, from : Nat, until : Nat, refs : ReferenceLists]

Signatures ==
  [kid : {Keys[i] : i \in DOMAIN Keys} \cup {"unlisted"}, good : BOOLEAN]

Results ==
  [request : {"ours", "other"}, payload : Payloads, digest : Payloads \cup {None},
   signatures : SUBSET Signatures]

(* What a release and a service are configured with: a policy holds every   *)
(* key it accepts, keys are told apart by their identifiers and a pause      *)
(* takes time.  The refresh interval and the lifetime of a result are set    *)
(* apart from each other.                                                    *)
ConfigurationSound ==
  /\ Keys \in Seq(STRING) /\ Len(Keys) > 0 /\ Taps \in Seq(STRING)
  /\ \A i, j \in DOMAIN Keys : Keys[i] = Keys[j] => i = j
  /\ \A p \in Policies : {p.required} \cup p.overlap \subseteq p.keys /\ p.floor \in Nat
  /\ None \notin Results
  /\ Generations \subseteq Nat /\ Retries \subseteq Nat
  /\ DefaultRetry \in Nat \ {0} /\ MaxRetry \in Nat \ {0}
  /\ Published \subseteq 0..Started
  /\ {Started, Deadline, Delay} \subseteq Nat /\ {Refresh, Lifetime} \subseteq Nat \ {0}

(* AcceptedKeyIDs: the required signer, then the overlap signers.            *)
AcceptedKeyIDsNoOverlap(policy) == {policy.required}

AcceptedKeyIDs(policy) == {policy.required} \cup policy.overlap

-----------------------------------------------------------------------------
(* The service, as far as the protocol shows it.                             *)

(* publishGenerated: a payload bound to the request, signed with one key.    *)
Payload(request, t, sequence) ==
  [request |-> request, core |-> "core", roots |-> "exact", by |-> "current",
   from |-> t, until |-> t + Lifetime,
   refs |-> [i \in DOMAIN Taps |->
               [tap |-> Taps[i], sequence |-> sequence, origin |-> "service"]]]

Signed(payload, signatures) ==
  [request |-> payload.request, payload |-> payload, digest |-> payload,
   signatures |-> signatures]

Signature(kid) == [kid |-> kid, good |-> TRUE]

Init ==
  /\ now = Started
  /\ \E g \in Generations, t \in Published, op \in {"none", "pending", "completed", "failed"} :
       service = [signer |-> 1, op |-> op, sequence |-> 2, rotations |-> 0,
                  ready |-> IF op = "pending" THEN Started + g ELSE 0,
                  longest |-> IF op = "pending" THEN g ELSE 0,
                  result |-> IF op = "completed"
                               THEN Signed(Payload("ours", t, 1), {Signature(Keys[1])})
                               ELSE None]
  /\ \E p \in Policies :
       client = [pc |-> "post", policy |-> p, wake |-> 0, result |-> None,
                 got |-> <<>>, polls |-> 0, verified |-> 0]
  /\ faults = 0

Complete ==
  /\ service.op = "pending" /\ now >= service.ready
  /\ \/ service' =
          [service EXCEPT !.op = "completed", !.sequence = @ + 1,
             !.result = Signed(Payload("ours", now, service.sequence),
                               {Signature(Keys[service.signer])})]
     \/ service' = [service EXCEPT !.op = "failed"]
  /\ UNCHANGED <<now, client, faults>>

(* The validity window of a payload at this moment.                          *)
InWindow(payload) == now >= payload.from /\ now < payload.until

(* A freshness check that leaves the expiry to the refresh interval.         *)
FreshByRefresh ==
  /\ service.result # None
  /\ service.result.signatures = {Signature(Keys[service.signer])}
  /\ now < service.result.payload.from + Refresh

(* cachedResultFresh: Verify under the service's own key and at this moment, *)
(* then the refresh interval.                                                *)
Fresh ==
  /\ service.result # None
  /\ service.result.signatures = {Signature(Keys[service.signer])}
  /\ InWindow(service.result.payload)
  /\ now < service.result.payload.from + Refresh

(* handleCatalogSet and handleOperation: an operation that failed starts     *)
(* again on POST only, a stale one on both.                                  *)
Asked(post) ==
  LET again == \/ service.op = "completed" /\ ~Fresh
               \/ post /\ service.op \in {"none", "failed"}
  IN IF again
       THEN \E g \in Generations :
              service' = [service EXCEPT !.op = "pending", !.ready = now + g,
                            !.longest = IF g > @ THEN g ELSE @]
       ELSE UNCHANGED service

(* The operator restarts the service with the next signing key: Close        *)
(* cancels a generation under way, and resumePending starts it from nothing. *)
Rotate ==
  /\ service.rotations < MaxRotations /\ service.signer < Len(Keys)
  /\ \E g \in Generations :
       service' =
         [service EXCEPT !.signer = @ + 1, !.rotations = @ + 1,
            !.ready = IF service.op = "pending" THEN now + g ELSE @,
            !.longest = IF service.op = "pending" /\ g > @ THEN g ELSE @]
  /\ UNCHANGED <<now, client, faults>>

(* Wrong results: each differs from a good one in one thing.                 *)
WrongResults ==
  LET good == Payload("ours", now, service.sequence)
      key == {Signature(Keys[service.signer])}
      with(p) == Signed(p, key)
  IN {with([good EXCEPT !.request = "other"]),
      [with(good) EXCEPT !.request = "other"],
      [with(good) EXCEPT !.payload.request = "other"],
      [with(good) EXCEPT !.digest = None],
      with([good EXCEPT !.core = "older"]),
      with([good EXCEPT !.roots = "other"]),
      with([good EXCEPT !.by = "older"]),
      with([good EXCEPT !.from = now + 1]),
      with([good EXCEPT !.until = now]),
      with([good EXCEPT !.refs[1].sequence = 0]),
      with([good EXCEPT !.refs[1].origin = "elsewhere"]),
      Signed(good, {}),
      Signed(good, {Signature("unlisted")}),
      Signed(good, key \cup {Signature("unlisted")}),
      Signed(good, {[kid |-> Keys[service.signer], good |-> FALSE]})}

-----------------------------------------------------------------------------
(* The client.                                                               *)

(* An error is all that is returned.                                         *)
Fails ==
  client' = [client EXCEPT !.pc = "failed", !.wake = 0, !.result = None, !.got = <<>>]

(* context.WithTimeout over the whole of Resolve.                            *)
Expired == now >= Started + Deadline

(* The pause before the next poll: the operation's, else the header's (which *)
(* the service sets from the same field), else the default, and never more   *)
(* than the maximum.                                                         *)
Pause(retry) ==
  LET wanted == IF retry = 0 THEN DefaultRetry ELSE retry
  IN IF wanted > MaxRetry THEN MaxRetry ELSE wanted

Sleeps(retry) ==
  client' = [client EXCEPT !.pc = "sleep", !.wake = now + Pause(retry)]

Holds(result) == client' = [client EXCEPT !.pc = "verify", !.result = result]

(* What the client does with an operation it was given: Result, OperationError *)
(* or another pause.                                                          *)
TakesOperation ==
  CASE service'.op = "completed" -> Holds(service'.result)
    [] service'.op = "pending" -> \E r \in Retries : Sleeps(r)
    [] service'.op \in {"failed", "none"} -> Fails

(* A request that fails, or is answered by something else than the service:  *)
(* an error, another status, another operation, a wrong result.              *)
Misanswered ==
  /\ faults < MaxFaults
  /\ faults' = faults + 1
  /\ Fails \/ \E r \in WrongResults : Holds(r)
  /\ UNCHANGED <<now, service>>

Post ==
  /\ client.pc = "post"
  /\ \/ Asked(TRUE) /\ TakesOperation /\ UNCHANGED <<now, faults>>
     \/ Misanswered

Sleep ==
  /\ client.pc = "sleep"
  /\ \/ now >= client.wake
        /\ client' = [client EXCEPT !.pc = "poll", !.polls = @ + 1]
     \/ Expired /\ Fails
  /\ UNCHANGED <<now, service, faults>>

Poll ==
  /\ client.pc = "poll"
  /\ \/ Expired /\ Fails /\ UNCHANGED <<now, service, faults>>
     \/ ~Expired /\ Asked(FALSE) /\ TakesOperation /\ UNCHANGED <<now, faults>>
     \/ ~Expired /\ Misanswered

-----------------------------------------------------------------------------
(* verifyPS512: the signature is one of the key it names.                    *)
Verifies(signature) == signature.good

(* VerifyJWS under one required signer: every signature by a known key must  *)
(* verify, an unknown one is tolerated only by policy, the required one must *)
(* be among them.                                                            *)
VerifyJWS(signatures, policy, required) ==
  /\ signatures # {}
  /\ \A s \in signatures : IF s.kid \in policy.keys THEN Verifies(s) ELSE policy.unknown
  /\ \E s \in signatures : s.kid = required

(* VerifyAccepted: any accepted signer, then the request, the core snapshot  *)
(* and the validity window at this moment.                                   *)
VerifyAccepted(result, policy) ==
  /\ \E k \in AcceptedKeyIDs(policy) : VerifyJWS(result.signatures, policy, k)
  /\ result.payload.request = "ours"
  /\ result.payload.core = "core"
  /\ InWindow(result.payload)

(* The rest of Resolve before the documents: the envelope's own digests, the *)
(* exact roots and platforms, and the components the policy authorizes.      *)
BindingOKBySignature(result) == result.payload.by = "current"

BindingOK(result) ==
  /\ result.request = "ours"
  /\ result.digest = result.payload
  /\ result.payload.roots = "exact"
  /\ result.payload.by = "current"

Verify ==
  /\ client.pc = "verify"
  /\ IF VerifyAccepted(client.result, client.policy) /\ BindingOK(client.result)
       THEN client' = [client EXCEPT !.pc = "fetch", !.verified = now]
       ELSE Fails
  /\ UNCHANGED <<now, service, faults>>

(* fetchCatalogs, one reference after another: origin, sequence floor, then  *)
(* a document that must be the referenced one (DecodeReferencedTapCatalog).  *)
ReferenceOK(reference, policy) ==
  /\ reference.origin = "service"
  /\ reference.sequence >= policy.floor

Document(reference) == [tap |-> reference.tap, sequence |-> reference.sequence]

(* What a wrong answer holds: nothing, or another document of the tap.       *)
WrongDocuments(reference) ==
  {None, [Document(reference) EXCEPT !.sequence = @ + 1]}

TakesDocument(reference, document) ==
  IF document = Document(reference)
    THEN client' = [client EXCEPT !.got = Append(@, document)]
    ELSE Fails

FetchCatalog ==
  /\ client.pc = "fetch" /\ Len(client.got) < Len(client.result.payload.refs)
  /\ LET reference == client.result.payload.refs[Len(client.got) + 1]
     IN IF Expired \/ ~ReferenceOK(reference, client.policy)
          THEN Fails /\ UNCHANGED faults
          ELSE \/ /\ TakesDocument(reference, Document(reference))
                  /\ UNCHANGED faults
               \/ /\ faults < MaxFaults /\ faults' = faults + 1
                  /\ \E d \in WrongDocuments(reference) : TakesDocument(reference, d)
  /\ UNCHANGED <<now, service>>

Finish ==
  /\ client.pc = "fetch" /\ Len(client.got) = Len(client.result.payload.refs)
  /\ client' = [client EXCEPT !.pc = "resolved"]
  /\ UNCHANGED <<now, service, faults>>

-----------------------------------------------------------------------------
(* Time passes while the client sleeps and the service is not done.          *)
Tick ==
  /\ client.pc = "sleep" /\ now < client.wake /\ ~Expired /\ now < MaxNow
  /\ ~(service.op = "pending" /\ now >= service.ready)
  /\ now' = now + 1
  /\ UNCHANGED <<service, client, faults>>

(* An answer is slow: a result that arrives after the deadline is not read.  *)
Slow ==
  /\ faults < MaxFaults /\ faults' = faults + 1
  /\ now' = now + Delay
  /\ \/ /\ client.pc = "verify"
        /\ IF now' >= Started + Deadline THEN Fails ELSE UNCHANGED client
     \/ client.pc = "fetch" /\ UNCHANGED client
  /\ UNCHANGED service

Over == client.pc \in {"resolved", "failed"}

Progress == Post \/ Sleep \/ Poll \/ Verify \/ FetchCatalog \/ Finish \/ Tick \/ Complete

Next == Progress \/ Slow \/ (~Over /\ Rotate)

Spec == Init /\ [][Next]_vars
Fairness == WF_vars(Progress)

-----------------------------------------------------------------------------
(* What Resolve returns was signed by a key the release accepts, for this    *)
(* request, core snapshot and set of roots, by an authorized service, was    *)
(* valid when it was verified, rolls no tap back below the floor, and comes  *)
(* with exactly the documents it references, whatever was answered.          *)
ResolvedIsBound ==
  client.pc = "resolved" =>
    LET p == client.result.payload
        accepted == {client.policy.required} \cup client.policy.overlap
    IN /\ \E s \in client.result.signatures : s.kid \in accepted /\ s.good
       /\ p.request = "ours" /\ p.core = "core"
       /\ p.roots = "exact" /\ p.by = "current"
       /\ client.result.request = "ours" /\ client.result.digest = p
       /\ p.from <= client.verified /\ client.verified < p.until
       /\ Len(client.got) = Len(Taps)
       /\ \A i \in DOMAIN Taps :
            /\ client.got[i].tap = Taps[i]
            /\ client.got[i].sequence = p.refs[i].sequence
            /\ client.got[i].sequence >= client.policy.floor

(* A client that accepts every key of the rotation is served through it,     *)
(* whatever operation an earlier caller left: with no wrong answer,          *)
(* generations that succeed, and a refresh interval and a lifetime longer    *)
(* than a pause, Resolve fails only when one generation and one pause for    *)
(* each key do not fit the deadline, whenever the keys are switched, in the  *)
(* middle of a generation too.                                               *)
OverlapIsServed ==
  (/\ client.pc = "failed" /\ faults = 0 /\ service.op # "failed"
   /\ {Keys[i] : i \in DOMAIN Keys} \subseteq
        {client.policy.required} \cup client.policy.overlap
   /\ client.policy.floor <= 1
   /\ Refresh > MaxRetry /\ Lifetime > MaxRetry)
     => (service.rotations + 1) * (service.longest + MaxRetry) >= Deadline

(* A client never polls more often than once a second.                       *)
PollsPaced == Started + client.polls <= now

(* A client whose policy has the overlap of a key rotation is served on both *)
(* sides of it, and polls at most once a second.                             *)
RotationServed == OverlapIsServed /\ PollsPaced

(* Resolve returns, though a generation may outlast it: the deadline spans the *)
(* posting, every poll and every pause.                                       *)
ResolveReturns == <>Over
=============================================================================
