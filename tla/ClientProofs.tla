---------------------------- MODULE ClientProofs ----------------------------
(***************************************************************************)
(* Theorems about the protocol between the catalog service and its client  *)
(* (CatalogClient): what Resolve accepts, and that a rotation of the       *)
(* signing key never turns a prepared client away.  They hold for every    *)
(* configuration that the policy and the service accept                    *)
(* (ConfigurationSound).  The second needs the times: with s the longest   *)
(* generation plus the longest pause, whatever the client waits for is     *)
(* ready after (rotations + 1) * s.                                        *)
(***************************************************************************)
EXTENDS Naturals, Sequences, FiniteSets, TLAPS
CONSTANTS Policies, SigningKeys, Taps, Generations, Retries, DefaultRetry, MaxRetry, Published, Started,
  Deadline, Refresh, Lifetime, Delay, MaxFaults, MaxRotations, MaxNow, NoValue

VARIABLES now, server, client, misses

P == INSTANCE CatalogClient
       WITH Keys <- SigningKeys, None <- NoValue, service <- server, faults <- misses

Documents == [tap : {Taps[i] : i \in DOMAIN Taps}, sequence : Nat]
Pcs == {"post", "sleep", "poll", "verify", "fetch", "resolved", "failed"}
Ops == {"none", "pending", "completed", "failed"}

(* The values the variables range over.                                      *)
ProtocolType ==
  /\ now \in Nat /\ misses \in Nat
  /\ server \in [signer : DOMAIN SigningKeys, op : Ops, ready : Nat, longest : Nat,
                 result : P!Results \cup {NoValue}, sequence : Nat \ {0}, rotations : Nat]
  /\ client \in [pc : Pcs, policy : Policies, wake : Nat, result : P!Results \cup {NoValue},
                 got : Seq(Documents), polls : Nat, verified : Nat]

(* What the service signs is a payload, valid from its generation on for the *)
(* lifetime.                                                                 *)
LEMMA GoodPayload ==
  ASSUME P!ConfigurationSound, NEW t \in Nat, NEW n \in Nat
  PROVE  /\ P!Payload("ours", t, n) \in P!Payloads
         /\ P!Payload("ours", t, n).from = t /\ P!Payload("ours", t, n).until = t + Lifetime
  <1>1. t + Lifetime \in Nat
    BY DEF P!ConfigurationSound
  <1>2. [i \in DOMAIN Taps |-> [tap |-> Taps[i], sequence |-> n, origin |-> "service"]] \in P!ReferenceLists
    BY DEF P!ReferenceLists, P!References
  <1> HIDE DEF P!ReferenceLists
  <1> QED
    BY <1>1, <1>2 DEF P!Payload, P!Payloads

(* What a generation signs is a result.                                      *)
LEMMA GenerationTyped ==
  ASSUME P!ConfigurationSound, NEW t \in Nat, NEW n \in Nat, NEW k \in DOMAIN SigningKeys
  PROVE  P!Signed(P!Payload("ours", t, n), {P!Signature(SigningKeys[k])}) \in P!Results
  <1>1. P!Payload("ours", t, n) \in P!Payloads
    BY GoodPayload
  <1>2. P!Payload("ours", t, n).request = "ours"
    BY DEF P!Payload
  <1>3. P!Signature(SigningKeys[k]) \in P!Signatures
    BY DEF P!Signature, P!Signatures
  <1> QED
    BY <1>1, <1>2, <1>3 DEF P!Signed, P!Results

(* Dishonest results are results as well.                                    *)
LEMMA WrongTyped ==
  ASSUME P!ConfigurationSound, ProtocolType, NEW r \in P!WrongResults
  PROVE  r \in P!Results
  <1> DEFINE good == P!Payload("ours", now, server.sequence)
             key == {P!Signature(SigningKeys[server.signer])}
             with(p) == P!Signed(p, key)
  <1>1. good \in P!Payloads /\ now \in Nat /\ now + 1 \in Nat /\ 0 \in Nat
    BY GoodPayload DEF ProtocolType
  <1>2. key \in SUBSET P!Signatures /\ {} \in SUBSET P!Signatures
    BY DEF ProtocolType, P!Signatures, P!Signature
  <1>3. ASSUME NEW p \in P!Payloads, NEW k \in SUBSET P!Signatures
        PROVE  P!Signed(p, k) \in P!Results
    BY DEF P!Signed, P!Results, P!Payloads
  <1>4. ASSUME NEW p \in P!Payloads
        PROVE  /\ [p EXCEPT !.request = "other"] \in P!Payloads
               /\ [p EXCEPT !.core = "older"] \in P!Payloads
               /\ [p EXCEPT !.roots = "other"] \in P!Payloads
               /\ [p EXCEPT !.by = "older"] \in P!Payloads
               /\ [p EXCEPT !.from = now + 1] \in P!Payloads
               /\ [p EXCEPT !.until = now] \in P!Payloads
    BY <1>1 DEF P!Payloads
  <1>5. ASSUME NEW p \in P!Payloads
        PROVE  /\ [p EXCEPT !.refs[1].sequence = 0] \in P!Payloads
               /\ [p EXCEPT !.refs[1].origin = "elsewhere"] \in P!Payloads
    <2>1. ASSUME NEW l \in P!ReferenceLists
          PROVE  /\ [l EXCEPT ![1].sequence = 0] \in P!ReferenceLists
                 /\ [l EXCEPT ![1].origin = "elsewhere"] \in P!ReferenceLists
      <3>1. CASE 1 \in DOMAIN Taps
        <4>1. l[1] \in P!References
          BY <3>1 DEF P!ReferenceLists
        <4>2. /\ [l[1] EXCEPT !.sequence = 0] \in P!References
              /\ [l[1] EXCEPT !.origin = "elsewhere"] \in P!References
              /\ [l[1] EXCEPT !.sequence = 0].tap = l[1].tap
              /\ [l[1] EXCEPT !.origin = "elsewhere"].tap = l[1].tap
          BY <4>1 DEF P!References
        <4>3. /\ [l EXCEPT ![1] = [l[1] EXCEPT !.sequence = 0]] \in P!ReferenceLists
              /\ [l EXCEPT ![1] = [l[1] EXCEPT !.origin = "elsewhere"]] \in P!ReferenceLists
          BY <3>1, <4>2 DEF P!ReferenceLists
        <4> QED
          BY <4>3
      <3>2. CASE 1 \notin DOMAIN Taps
        BY <3>2 DEF P!ReferenceLists
      <3> QED
        BY <3>1, <3>2
    <2> QED
      BY <2>1 DEF P!Payloads
  <1>6. ASSUME NEW s \in P!Results
        PROVE  [s EXCEPT !.request = "other"] \in P!Results /\ [s EXCEPT !.digest = NoValue] \in P!Results
               /\ [s EXCEPT !.payload.request = "other"] \in P!Results
    <2>1. s.payload \in P!Payloads /\ [s.payload EXCEPT !.request = "other"] \in P!Payloads
      BY <1>4 DEF P!Results
    <2> HIDE DEF P!Payloads
    <2> QED
      BY <2>1 DEF P!Results
  <1>7. with(good) \in P!Results
    BY <1>1, <1>2, <1>3
  <1>8. /\ {P!Signature("unlisted")} \in SUBSET P!Signatures
        /\ (key \cup {P!Signature("unlisted")}) \in SUBSET P!Signatures
        /\ {[kid |-> SigningKeys[server.signer], good |-> FALSE]} \in SUBSET P!Signatures
    BY <1>2 DEF P!Signature, P!Signatures, ProtocolType
  <1> HIDE DEF good, key
  <1>9. /\ with([good EXCEPT !.request = "other"]) \in P!Results
        /\ with([good EXCEPT !.core = "older"]) \in P!Results
        /\ with([good EXCEPT !.roots = "other"]) \in P!Results
        /\ with([good EXCEPT !.by = "older"]) \in P!Results
        /\ with([good EXCEPT !.from = now + 1]) \in P!Results
        /\ with([good EXCEPT !.until = now]) \in P!Results
        /\ with([good EXCEPT !.refs[1].sequence = 0]) \in P!Results
        /\ with([good EXCEPT !.refs[1].origin = "elsewhere"]) \in P!Results
    BY <1>1, <1>2, <1>3, <1>4, <1>5
  <1>10. /\ [with(good) EXCEPT !.request = "other"] \in P!Results
         /\ [with(good) EXCEPT !.payload.request = "other"] \in P!Results
         /\ [with(good) EXCEPT !.digest = NoValue] \in P!Results
    BY <1>6, <1>7
  <1>11. /\ P!Signed(good, {}) \in P!Results
         /\ P!Signed(good, {P!Signature("unlisted")}) \in P!Results
         /\ P!Signed(good, key \cup {P!Signature("unlisted")}) \in P!Results
         /\ P!Signed(good, {[kid |-> SigningKeys[server.signer], good |-> FALSE]}) \in P!Results
    BY <1>1, <1>2, <1>3, <1>8
  <1> QED
    BY <1>9, <1>10, <1>11 DEF P!WrongResults, good, key

(* The keys the policy of the client accepts.                                *)
Accepted == {client.policy.required} \cup client.policy.overlap

(* A verified result is bound to the request, to the captured core and to    *)
(* the moment of its verification.                                           *)
Bound(r) ==
  /\ \E s \in r.signatures : s.kid \in Accepted /\ s.good
  /\ r.payload.request = "ours" /\ r.payload.core = "core"
  /\ r.payload.roots = "exact" /\ r.payload.by = "current"
  /\ r.request = "ours" /\ r.digest = r.payload
  /\ r.payload.from <= client.verified /\ client.verified < r.payload.until

(* The catalogs fetched so far are those of the taps, in order, as they were *)
(* referenced and none below the floor.                                      *)
Got(n) ==
  /\ Len(client.got) <= Len(Taps)
  /\ \A i \in 1..n :
       /\ client.got[i].tap = Taps[i]
       /\ client.got[i].sequence = client.result.payload.refs[i].sequence
       /\ client.got[i].sequence >= client.policy.floor

(* What a client holds in each phase of Resolve.                             *)
ClientBound ==
  /\ client.pc \in {"verify", "fetch", "resolved"} => client.result \in P!Results
  /\ client.pc \in {"fetch", "resolved"} => Bound(client.result) /\ Got(Len(client.got))
  /\ client.pc \in {"post", "sleep", "poll", "verify"} => client.got = <<>>
  /\ client.pc = "resolved" => Len(client.got) = Len(Taps)

(* The client polls once per pause, and a pause takes time.                  *)
Paced ==
  /\ Started + client.polls <= now
  /\ client.pc = "sleep" => Started + client.polls < client.wake

Held == server.op = "completed" => server.result \in P!Results

(* The inductive invariant behind ResolvedIsBound and PollsPaced.            *)
ProtocolInv == ProtocolType /\ Held /\ ClientBound /\ Paced

(* A client about to post its request.                                       *)
LEMMA ProtocolInit == P!ConfigurationSound /\ P!Init => ProtocolInv
  <1> SUFFICES ASSUME P!ConfigurationSound, P!Init PROVE ProtocolInv
    OBVIOUS
  <1>1. PICK p \in Policies :
          client = [pc |-> "post", policy |-> p, wake |-> 0, result |-> NoValue,
                    got |-> <<>>, polls |-> 0, verified |-> 0]
    BY DEF P!Init
  <1>2. 1 \in DOMAIN SigningKeys
    BY DEF P!ConfigurationSound
  <1>3. <<>> \in Seq(Documents)
    OBVIOUS
  <1>4. PICK g \in Generations, t \in Published, op \in Ops :
          server = [signer |-> 1, op |-> op, sequence |-> 2, rotations |-> 0,
                    ready |-> IF op = "pending" THEN Started + g ELSE 0,
                    longest |-> IF op = "pending" THEN g ELSE 0,
                    result |-> IF op = "completed"
                                 THEN P!Signed(P!Payload("ours", t, 1), {P!Signature(SigningKeys[1])})
                                 ELSE NoValue]
    BY DEF P!Init, Ops
  <1>5. t \in Nat /\ g \in Nat /\ Started \in Nat /\ Started + g \in Nat
    BY DEF P!ConfigurationSound
  <1>6. P!Signed(P!Payload("ours", t, 1), {P!Signature(SigningKeys[1])}) \in P!Results
    BY <1>2, <1>5, GenerationTyped
  <1>7. ProtocolType
    BY <1>1, <1>2, <1>3, <1>4, <1>5, <1>6 DEF P!Init, ProtocolType, Pcs, Ops
  <1>8. Held
    BY <1>4, <1>6 DEF Held
  <1>9. ClientBound /\ Paced
    BY <1>1, <1>5 DEF P!Init, ClientBound, Paced
  <1> QED
    BY <1>7, <1>8, <1>9 DEF ProtocolInv

(* A list of references has one for every tap.                               *)
LEMMA ListsTyped ==
  ASSUME P!ConfigurationSound, NEW l \in P!ReferenceLists
  PROVE  /\ DOMAIN Taps = 1..Len(Taps) /\ Len(Taps) \in Nat /\ Len(l) = Len(Taps)
         /\ \A i \in 1..Len(Taps) : l[i] \in P!References /\ l[i].tap = Taps[i]
  <1>1. DOMAIN Taps = 1..Len(Taps) /\ Len(Taps) \in Nat
    BY DEF P!ConfigurationSound
  <1>2. l \in [1..Len(Taps) -> P!References] /\ \A i \in 1..Len(Taps) : l[i].tap = Taps[i]
    BY <1>1 DEF P!ReferenceLists
  <1>3. l \in Seq(P!References) /\ Len(l) = Len(Taps)
    BY <1>1, <1>2
  <1> QED
    BY <1>1, <1>2, <1>3

(* Client.poll: a pause is positive and at most the maximum.                 *)
LEMMA PauseTakesTime ==
  ASSUME P!ConfigurationSound, NEW r \in Retries
  PROVE  P!Pause(r) \in Nat /\ P!Pause(r) >= 1 /\ P!Pause(r) <= MaxRetry
  BY DEF P!ConfigurationSound, P!Pause

(* Resolve returns an error.                                                 *)
LEMMA FailsKeeps ==
  ASSUME P!ConfigurationSound, ProtocolInv, P!Fails, now' \in Nat, now' >= now
  PROVE  /\ client' \in [pc : Pcs, policy : Policies, wake : Nat, result : P!Results \cup {NoValue},
                         got : Seq(Documents), polls : Nat, verified : Nat]
         /\ ClientBound' /\ Paced' /\ client'.pc = "failed" /\ client'.policy = client.policy
  <1>1. client' \in [pc : Pcs, policy : Policies, wake : Nat, result : P!Results \cup {NoValue},
                     got : Seq(Documents), polls : Nat, verified : Nat]
    <2>1. <<>> \in Seq(Documents) /\ 0 \in Nat
      OBVIOUS
    <2> QED
      BY <2>1 DEF ProtocolInv, ProtocolType, P!Fails, Pcs
  <1>2. client'.pc = "failed" /\ client'.policy = client.policy /\ client'.polls = client.polls
    BY DEF ProtocolInv, ProtocolType, P!Fails
  <1>3. Paced'
    <2>1. Started \in Nat
      BY DEF P!ConfigurationSound
    <2> QED
      BY <1>2, <2>1 DEF ProtocolInv, ProtocolType, Paced
  <1> QED
    BY <1>1, <1>2, <1>3 DEF ClientBound

(* The client takes a result to verify.                                      *)
LEMMA HoldsKeeps ==
  ASSUME ProtocolInv, client.pc \in {"post", "poll"}, now' = now,
         NEW r \in P!Results, P!Holds(r)
  PROVE  /\ client' \in [pc : Pcs, policy : Policies, wake : Nat, result : P!Results \cup {NoValue},
                         got : Seq(Documents), polls : Nat, verified : Nat]
         /\ ClientBound' /\ Paced' /\ client'.pc = "verify"
         /\ client'.result = r /\ client'.policy = client.policy
  <1>1. client' \in [pc : Pcs, policy : Policies, wake : Nat, result : P!Results \cup {NoValue},
                     got : Seq(Documents), polls : Nat, verified : Nat]
    BY DEF ProtocolInv, ProtocolType, P!Holds, Pcs
  <1>2. client'.pc = "verify" /\ client'.result = r /\ client'.got = client.got
        /\ client'.polls = client.polls /\ client'.policy = client.policy
    BY DEF ProtocolInv, ProtocolType, P!Holds
  <1> QED
    BY <1>1, <1>2 DEF ProtocolInv, ClientBound, Paced

(* The client pauses before it polls again.                                  *)
LEMMA SleepsKeeps ==
  ASSUME P!ConfigurationSound, ProtocolInv, client.pc \in {"post", "poll"}, now' = now,
         NEW r \in Retries, P!Sleeps(r)
  PROVE  /\ client' \in [pc : Pcs, policy : Policies, wake : Nat, result : P!Results \cup {NoValue},
                         got : Seq(Documents), polls : Nat, verified : Nat]
         /\ ClientBound' /\ Paced' /\ client'.pc = "sleep" /\ client'.policy = client.policy
         /\ client'.wake \in Nat /\ now <= client'.wake /\ client'.wake <= now + MaxRetry
  <1> DEFINE w == now + P!Pause(r)
  <1>1. w \in Nat /\ w > now /\ w <= now + MaxRetry
    <2>1. now \in Nat /\ MaxRetry \in Nat
      BY DEF ProtocolInv, ProtocolType, P!ConfigurationSound
    <2> QED
      BY <2>1, PauseTakesTime
  <1>2. client' = [client EXCEPT !.pc = "sleep", !.wake = w]
    BY DEF P!Sleeps
  <1> HIDE DEF w
  <1>3. client' \in [pc : Pcs, policy : Policies, wake : Nat, result : P!Results \cup {NoValue},
                     got : Seq(Documents), polls : Nat, verified : Nat]
    BY <1>1, <1>2 DEF ProtocolInv, ProtocolType, Pcs
  <1>4. client'.pc = "sleep" /\ client'.wake = w /\ client'.got = client.got
        /\ client'.polls = client.polls /\ client'.policy = client.policy
    BY <1>2 DEF ProtocolInv, ProtocolType
  <1>5. client.polls \in Nat /\ now \in Nat /\ Started \in Nat
    BY DEF ProtocolInv, ProtocolType, P!ConfigurationSound
  <1> QED
    BY <1>1, <1>3, <1>4, <1>5 DEF ProtocolInv, ClientBound, Paced

(* What the service makes of a request: it leaves its operation alone or     *)
(* starts a generation.                                                      *)
LEMMA AskedKeeps ==
  ASSUME P!ConfigurationSound, ProtocolInv, NEW post \in BOOLEAN, P!Asked(post)
  PROVE  /\ server' \in [signer : DOMAIN SigningKeys, op : Ops, ready : Nat, longest : Nat,
                         result : P!Results \cup {NoValue}, sequence : Nat \ {0}, rotations : Nat]
         /\ Held'
         /\ \/ server' = server
            \/ /\ (server.op = "completed" /\ ~P!Fresh) \/ (post /\ server.op \in {"none", "failed"})
               /\ \E g \in Generations :
                    /\ server'.op = "pending" /\ server'.ready = now + g
                    /\ server'.longest = IF g > server.longest THEN g ELSE server.longest
               /\ server'.signer = server.signer /\ server'.rotations = server.rotations
  <1>1. CASE server' = server
    BY <1>1 DEF ProtocolInv, ProtocolType, Held
  <1>2. CASE server' # server
    <2>1. (server.op = "completed" /\ ~P!Fresh) \/ (post /\ server.op \in {"none", "failed"})
      BY <1>2, Zenon DEF P!Asked
    <2>2. PICK g \in Generations :
            server' = [server EXCEPT !.op = "pending", !.ready = now + g,
                         !.longest = IF g > @ THEN g ELSE @]
      BY <1>2 DEF P!Asked
    <2>3. g \in Nat /\ now + g \in Nat
      BY DEF P!ConfigurationSound, ProtocolInv, ProtocolType
    <2> DEFINE l == IF g > server.longest THEN g ELSE server.longest
    <2>4. l \in Nat
      BY <2>3 DEF ProtocolInv, ProtocolType
    <2>5. /\ server' \in [signer : DOMAIN SigningKeys, op : Ops, ready : Nat, longest : Nat,
                         result : P!Results \cup {NoValue}, sequence : Nat \ {0}, rotations : Nat]
          /\ server'.op = "pending" /\ server'.ready = now + g /\ server'.longest = l
          /\ server'.signer = server.signer /\ server'.rotations = server.rotations
      BY <2>2, <2>3, <2>4 DEF ProtocolInv, ProtocolType, Ops
    <2> QED
      BY <2>1, <2>5 DEF Held
  <1> QED
    BY <1>1, <1>2

(* A request or a poll that is answered.                                     *)
LEMMA AskStep ==
  ASSUME P!ConfigurationSound, ProtocolInv, client.pc \in {"post", "poll"},
         NEW post \in BOOLEAN, P!Asked(post), P!TakesOperation, UNCHANGED <<now, misses>>
  PROVE  ProtocolInv'
  <1>1. CASE server'.op = "completed"
    <2>1. P!Holds(server'.result) /\ server'.result \in P!Results
      BY <1>1, AskedKeeps DEF P!TakesOperation, Held
    <2> QED
      BY <2>1, HoldsKeeps, AskedKeeps DEF ProtocolInv, ProtocolType
  <1>2. CASE server'.op = "pending"
    <2>1. PICK r \in Retries : P!Sleeps(r)
      BY <1>2 DEF P!TakesOperation
    <2> QED
      BY <2>1, SleepsKeeps, AskedKeeps DEF ProtocolInv, ProtocolType
  <1>3. CASE server'.op \in {"failed", "none"}
    <2>1. P!Fails
      BY <1>3 DEF P!TakesOperation
    <2>2. now' \in Nat /\ now' >= now
      BY DEF ProtocolInv, ProtocolType
    <2> QED
      BY <2>1, <2>2, FailsKeeps, AskedKeeps DEF ProtocolInv, ProtocolType
  <1>4. server'.op \in Ops
    BY AskedKeeps
  <1> QED
    BY <1>1, <1>2, <1>3, <1>4 DEF Ops

(* A request or a poll whose answer is lost or wrong.                        *)
LEMMA MisansweredStep ==
  ASSUME P!ConfigurationSound, ProtocolInv, client.pc \in {"post", "poll"}, P!Misanswered
  PROVE  ProtocolInv'
  <1>1. misses' \in Nat /\ now' = now /\ server' = server /\ now' \in Nat /\ now' >= now
    BY DEF P!Misanswered, ProtocolInv, ProtocolType
  <1>2. CASE P!Fails
    BY <1>1, <1>2, FailsKeeps DEF ProtocolInv, ProtocolType, Held
  <1>3. CASE \E r \in P!WrongResults : P!Holds(r)
    BY <1>1, <1>3, WrongTyped, HoldsKeeps DEF ProtocolInv, ProtocolType, Held
  <1> QED
    BY <1>2, <1>3 DEF P!Misanswered

(* The record of the client.                                                 *)
ClientType ==
  client \in [pc : Pcs, policy : Policies, wake : Nat, result : P!Results \cup {NoValue},
              got : Seq(Documents), polls : Nat, verified : Nat]

(* A pause ends or the deadline passes.                                      *)
LEMMA SleepStep ==
  ASSUME P!ConfigurationSound, ProtocolInv, P!Sleep
  PROVE  ProtocolInv'
  <1>1. UNCHANGED <<now, server, misses>> /\ now' \in Nat /\ now' >= now
    BY DEF P!Sleep, ProtocolInv, ProtocolType
  <1>2. CASE P!Fails
    BY <1>1, <1>2, FailsKeeps DEF ProtocolInv, ProtocolType, Held
  <1>3. CASE now >= client.wake /\ client' = [client EXCEPT !.pc = "poll", !.polls = @ + 1]
    <2>1. /\ client.polls \in Nat /\ client.wake \in Nat /\ now \in Nat /\ Started \in Nat
          /\ Started + client.polls < client.wake
      BY DEF ProtocolInv, ProtocolType, Paced, P!Sleep, P!ConfigurationSound
    <2>2. client.polls + 1 \in Nat /\ Started + (client.polls + 1) <= now
      BY <1>3, <2>1
    <2>3. ClientType'
      BY <1>3, <2>2 DEF ProtocolInv, ProtocolType, ClientType, Pcs
    <2>4. client'.pc = "poll" /\ client'.got = client.got /\ client'.polls = client.polls + 1
      BY <1>3 DEF ProtocolInv, ProtocolType
    <2>5. ClientBound' /\ Paced'
      BY <1>1, <2>2, <2>4 DEF ProtocolInv, ClientBound, Paced, P!Sleep
    <2> QED
      BY <1>1, <2>3, <2>5 DEF ProtocolInv, ProtocolType, ClientType, Held
  <1> QED
    BY <1>2, <1>3 DEF P!Sleep

(* What the verification of the signatures, of the window and of the         *)
(* bindings adds up to.                                                      *)
LEMMA VerifiedIsBound ==
  ASSUME P!ConfigurationSound, ProtocolInv, NEW r \in P!Results,
         P!VerifyAccepted(r, client.policy), P!BindingOK(r)
  PROVE  /\ \E s \in r.signatures : s.kid \in Accepted /\ s.good
         /\ r.payload.request = "ours" /\ r.payload.core = "core"
         /\ r.payload.roots = "exact" /\ r.payload.by = "current"
         /\ r.request = "ours" /\ r.digest = r.payload
         /\ r.payload.from <= now /\ now < r.payload.until
  <1>1. PICK k \in P!AcceptedKeyIDs(client.policy) : P!VerifyJWS(r.signatures, client.policy, k)
    BY DEF P!VerifyAccepted
  <1>2. PICK s \in r.signatures : s.kid = k
    BY <1>1 DEF P!VerifyJWS
  <1>3. k \in client.policy.keys
    BY DEF P!ConfigurationSound, P!AcceptedKeyIDs, ProtocolInv, ProtocolType
  <1>4. s.good /\ s.kid \in Accepted
    BY <1>1, <1>2, <1>3 DEF P!VerifyJWS, P!Verifies, P!AcceptedKeyIDs, Accepted
  <1>5. r.payload.from \in Nat /\ r.payload.until \in Nat /\ now \in Nat
    BY DEF P!Results, P!Payloads, ProtocolInv, ProtocolType
  <1> QED
    BY <1>4, <1>5 DEF P!VerifyAccepted, P!BindingOK, P!InWindow

(* The result is verified, at once.                                          *)
LEMMA VerifyStep ==
  ASSUME P!ConfigurationSound, ProtocolInv, P!Verify
  PROVE  ProtocolInv'
  <1>1. UNCHANGED <<now, server, misses>> /\ now' \in Nat /\ now' >= now /\ client.pc = "verify"
    BY DEF P!Verify, ProtocolInv, ProtocolType
  <1>2. CASE P!Fails
    BY <1>1, <1>2, FailsKeeps DEF ProtocolInv, ProtocolType, Held
  <1>3. CASE /\ P!VerifyAccepted(client.result, client.policy) /\ P!BindingOK(client.result)
             /\ client' = [client EXCEPT !.pc = "fetch", !.verified = now]
    <2>1. ClientType'
      BY <1>1, <1>3 DEF ProtocolInv, ProtocolType, ClientType, Pcs
    <2>2. /\ client'.pc = "fetch" /\ client'.verified = now /\ client'.got = client.got
          /\ client'.polls = client.polls /\ client'.policy = client.policy
          /\ client'.result = client.result
      BY <1>3 DEF ProtocolInv, ProtocolType
    <2>3. client.result \in P!Results /\ client.got = <<>>
      BY <1>1 DEF ProtocolInv, ClientBound
    <2>4. Bound(client.result)'
      BY <1>3, <2>2, <2>3, VerifiedIsBound DEF Bound, Accepted
    <2>5. Got(Len(client.got))'
      BY <2>2, <2>3 DEF Got, P!ConfigurationSound
    <2>6. ClientBound' /\ Paced'
      BY <1>1, <2>2, <2>3, <2>4, <2>5 DEF ProtocolInv, ClientBound, Paced
    <2> QED
      BY <1>1, <2>1, <2>6 DEF ProtocolInv, ProtocolType, ClientType, Held
  <1> QED
    BY <1>2, <1>3 DEF P!Verify

(* The next catalog is fetched and compared with its reference.              *)
LEMMA FetchStep ==
  ASSUME P!ConfigurationSound, ProtocolInv, P!FetchCatalog
  PROVE  ProtocolInv'
  <1>1. /\ UNCHANGED <<now, server>> /\ now' \in Nat /\ now' >= now /\ client.pc = "fetch"
        /\ misses' \in Nat
    BY DEF P!FetchCatalog, ProtocolInv, ProtocolType
  <1>2. CASE P!Fails
    BY <1>1, <1>2, FailsKeeps DEF ProtocolInv, ProtocolType, Held
  <1>3. CASE ~P!Fails
    <2> DEFINE n == Len(client.got)
               reference == client.result.payload.refs[n + 1]
               document == P!Document(reference)
    <2>1. /\ n < Len(client.result.payload.refs) /\ P!ReferenceOK(reference, client.policy)
          /\ client' = [client EXCEPT !.got = Append(client.got, document)]
      BY <1>3 DEF P!FetchCatalog, P!TakesDocument
    <2>2. client.result \in P!Results /\ client.result.payload.refs \in P!ReferenceLists
      BY <1>1 DEF ProtocolInv, ClientBound, P!Results, P!Payloads
    <2>3. client.got \in Seq(Documents) /\ n \in Nat
      BY DEF ProtocolInv, ProtocolType
    <2>4. n + 1 <= Len(Taps) /\ reference \in P!References /\ reference.tap = Taps[n + 1]
      BY <2>1, <2>2, <2>3, ListsTyped
    <2>5. /\ document \in Documents /\ document.tap = Taps[n + 1]
          /\ document.sequence >= client.policy.floor /\ document.sequence = reference.sequence
      BY <2>1, <2>4 DEF P!Document, Documents, P!References, P!ReferenceOK
    <2>6. /\ Append(client.got, document) \in Seq(Documents)
          /\ Len(Append(client.got, document)) = n + 1
          /\ \A i \in 1..n : Append(client.got, document)[i] = client.got[i]
          /\ Append(client.got, document)[n + 1] = document
      BY <2>3, <2>5
    <2> HIDE DEF document
    <2>7. ClientType'
      BY <1>1, <2>1, <2>6 DEF ProtocolInv, ProtocolType, ClientType
    <2>8. /\ client'.pc = "fetch" /\ client'.verified = client.verified
          /\ client'.got = Append(client.got, document) /\ client'.polls = client.polls
          /\ client'.policy = client.policy /\ client'.result = client.result
      BY <1>1, <2>1 DEF ProtocolInv, ProtocolType
    <2>9. Got(n)
      BY <1>1 DEF ProtocolInv, ClientBound
    <2>10. Got(Len(client.got))'
      BY <2>3, <2>4, <2>5, <2>6, <2>8, <2>9 DEF Got
    <2>11. Bound(client.result)'
      BY <1>1, <2>8 DEF ProtocolInv, ClientBound, Bound, Accepted
    <2>12. ClientBound' /\ Paced'
      BY <1>1, <2>2, <2>8, <2>10, <2>11 DEF ProtocolInv, ClientBound, Paced
    <2> QED
      BY <1>1, <2>7, <2>12 DEF ProtocolInv, ProtocolType, ClientType, Held
  <1> QED
    BY <1>2, <1>3

(* Resolve returns its catalogs.                                             *)
LEMMA FinishStep ==
  ASSUME P!ConfigurationSound, ProtocolInv, P!Finish
  PROVE  ProtocolInv'
  <1>1. /\ UNCHANGED <<now, server, misses>> /\ client.pc = "fetch"
        /\ client' = [client EXCEPT !.pc = "resolved"]
        /\ Len(client.got) = Len(client.result.payload.refs)
    BY DEF P!Finish
  <1>2. ClientType'
    BY <1>1 DEF ProtocolInv, ProtocolType, ClientType, Pcs
  <1>3. /\ client'.pc = "resolved" /\ client'.verified = client.verified
        /\ client'.got = client.got /\ client'.polls = client.polls
        /\ client'.policy = client.policy /\ client'.result = client.result
    BY <1>1 DEF ProtocolInv, ProtocolType
  <1>4. Len(client.got) = Len(Taps)
    BY <1>1, ListsTyped DEF ProtocolInv, ClientBound, P!Results, P!Payloads
  <1>5. ClientBound' /\ Paced'
    BY <1>1, <1>3, <1>4 DEF ProtocolInv, ClientBound, Bound, Got, Accepted, Paced
  <1> QED
    BY <1>1, <1>2, <1>5 DEF ProtocolInv, ProtocolType, ClientType, Held

(* The service finishes, rotates its key, time passes.                       *)
LEMMA OthersStep ==
  ASSUME P!ConfigurationSound, ProtocolInv, P!Complete \/ P!Rotate \/ P!Tick \/ P!Slow
  PROVE  ProtocolInv'
  <1>1. CASE P!Complete
    <2> DEFINE r == P!Signed(P!Payload("ours", now, server.sequence), {P!Signature(SigningKeys[server.signer])})
    <2>1. r \in P!Results
      BY GenerationTyped DEF ProtocolInv, ProtocolType
    <2> HIDE DEF r
    <2>2. \/ server' = [server EXCEPT !.op = "completed", !.sequence = @ + 1, !.result = r]
          \/ server' = [server EXCEPT !.op = "failed"]
      BY <1>1 DEF P!Complete, r
    <2>3. UNCHANGED <<now, client, misses>>
      BY <1>1 DEF P!Complete
    <2>4. server.sequence \in Nat \ {0} /\ server.sequence + 1 \in Nat \ {0}
      BY DEF ProtocolInv, ProtocolType
    <2>5. /\ server' \in [signer : DOMAIN SigningKeys, op : Ops, ready : Nat, longest : Nat,
                         result : P!Results \cup {NoValue}, sequence : Nat \ {0}, rotations : Nat]
          /\ server'.op = "completed" => server'.result = r
      BY <2>1, <2>2, <2>4 DEF ProtocolInv, ProtocolType, Ops
    <2>6. ProtocolType' /\ Held'
      BY <2>1, <2>3, <2>5 DEF ProtocolInv, ProtocolType, Held
    <2> QED
      BY <2>3, <2>6 DEF ProtocolInv, ClientBound, Bound, Got, Accepted, Paced
  <1>2. CASE P!Rotate
    <2>1. server.signer + 1 \in DOMAIN SigningKeys /\ server.rotations + 1 \in Nat
      <3>1. DOMAIN SigningKeys = 1..Len(SigningKeys) /\ Len(SigningKeys) \in Nat
        BY DEF P!ConfigurationSound
      <3>2. server.signer \in DOMAIN SigningKeys /\ server.rotations \in Nat /\ server.signer < Len(SigningKeys)
        BY <1>2 DEF P!Rotate, ProtocolInv, ProtocolType
      <3> QED
        BY <3>1, <3>2
    <2>2. PICK g \in Generations :
            server' = [server EXCEPT !.signer = @ + 1, !.rotations = @ + 1,
                         !.ready = IF server.op = "pending" THEN now + g ELSE @,
                         !.longest = IF server.op = "pending" /\ g > @ THEN g ELSE @]
      BY <1>2 DEF P!Rotate
    <2>3. UNCHANGED <<now, client, misses>>
      BY <1>2 DEF P!Rotate
    <2> DEFINE ready == IF server.op = "pending" THEN now + g ELSE server.ready
               longest == IF server.op = "pending" /\ g > server.longest THEN g ELSE server.longest
    <2>4. ready \in Nat /\ longest \in Nat
      <3>1. g \in Nat
        BY DEF P!ConfigurationSound
      <3>2. now \in Nat /\ server.ready \in Nat /\ server.longest \in Nat
        BY DEF ProtocolInv, ProtocolType
      <3> QED
        BY <3>1, <3>2
    <2>5. server' = [server EXCEPT !.signer = @ + 1, !.rotations = @ + 1,
                       !.ready = ready, !.longest = longest]
      BY <2>2
    <2> HIDE DEF ready, longest
    <2>6. ProtocolType' /\ Held'
      BY <2>1, <2>3, <2>4, <2>5 DEF ProtocolInv, ProtocolType, Held
    <2> QED
      BY <2>3, <2>6 DEF ProtocolInv, ClientBound, Bound, Got, Accepted, Paced
  <1>3. CASE P!Tick
    <2>1. now' \in Nat /\ now' >= now /\ UNCHANGED <<server, client, misses>>
      BY <1>3 DEF P!Tick, ProtocolInv, ProtocolType
    <2>2. ProtocolType' /\ Held'
      BY <2>1 DEF ProtocolInv, ProtocolType, Held
    <2>3. Started \in Nat
      BY DEF P!ConfigurationSound
    <2> QED
      BY <2>1, <2>2, <2>3 DEF ProtocolInv, ProtocolType, ClientBound, Bound, Got, Accepted, Paced
  <1>4. CASE P!Slow
    <2>1. now' \in Nat /\ now' >= now /\ misses' \in Nat /\ UNCHANGED server
      <3>1. now \in Nat /\ misses \in Nat /\ Delay \in Nat
        BY DEF ProtocolInv, ProtocolType, P!ConfigurationSound
      <3>2. now' = now + Delay /\ misses' = misses + 1 /\ UNCHANGED server
        BY <1>4 DEF P!Slow
      <3> QED
        BY <3>1, <3>2
    <2>2. CASE P!Fails
      BY <2>1, <2>2, FailsKeeps DEF ProtocolInv, ProtocolType, Held
    <2>3. CASE UNCHANGED client
      <3>1. ProtocolType' /\ Held'
        BY <2>1, <2>3 DEF ProtocolInv, ProtocolType, Held
      <3>2. client.pc # "sleep" /\ Started \in Nat
        BY <1>4 DEF P!Slow, P!ConfigurationSound
      <3> QED
        BY <2>1, <2>3, <3>1, <3>2
        DEF ProtocolInv, ProtocolType, ClientBound, Bound, Got, Accepted, Paced
    <2> QED
      BY <1>4, <2>2, <2>3 DEF P!Slow
  <1> QED
    BY <1>1, <1>2, <1>3, <1>4

(* Every step keeps the invariant.                                           *)
LEMMA ProtocolStep ==
  ASSUME P!ConfigurationSound, ProtocolInv, [P!Next]_P!vars
  PROVE  ProtocolInv'
  <1>1. CASE UNCHANGED P!vars
    BY <1>1 DEF P!vars, ProtocolInv, ProtocolType, Held, ClientBound, Bound, Got, Accepted, Paced
  <1>2. CASE P!Post
    BY <1>2, AskStep, MisansweredStep DEF P!Post
  <1>3. CASE P!Poll
    <2>1. CASE P!Fails /\ UNCHANGED <<now, server, misses>>
      <3>1. now' \in Nat /\ now' >= now
        BY <2>1 DEF ProtocolInv, ProtocolType
      <3> QED
        BY <2>1, <3>1, FailsKeeps DEF ProtocolInv, ProtocolType, Held
    <2> QED
      BY <1>3, <2>1, AskStep, MisansweredStep DEF P!Poll
  <1> QED
    BY <1>1, <1>2, <1>3, SleepStep, VerifyStep, FetchStep, FinishStep, OthersStep
    DEF P!Next, P!Progress

(* The invariant gives the two properties.                                   *)
LEMMA ProtocolKeeps ==
  P!ConfigurationSound /\ ProtocolInv => P!ResolvedIsBound /\ P!PollsPaced
  <1> SUFFICES ASSUME P!ConfigurationSound, ProtocolInv PROVE P!ResolvedIsBound /\ P!PollsPaced
    OBVIOUS
  <1>1. DOMAIN Taps = 1..Len(Taps)
    BY DEF P!ConfigurationSound
  <1> QED
    BY <1>1
    DEF ProtocolInv, ClientBound, Bound, Got, Accepted, Paced, P!ResolvedIsBound, P!PollsPaced

(* A round of the protocol: the longest generation and the longest pause.    *)
Round == server.longest + MaxRetry

(* A result the service gave.                                                *)
Honest(r) ==
  /\ r.request = "ours" /\ r.digest = r.payload
  /\ r.payload.request = "ours" /\ r.payload.core = "core"
  /\ r.payload.roots = "exact" /\ r.payload.by = "current"
  /\ r.payload.until = r.payload.from + Lifetime
  /\ \A i \in DOMAIN Taps :
       r.payload.refs[i].origin = "service" /\ r.payload.refs[i].sequence >= 1

SignedBy(r, j) == r.signatures = {P!Signature(SigningKeys[j])}

(* A policy with the overlap of every rotation, and no floor above the first *)
(* catalog.                                                                  *)
AcceptsAll ==
  /\ {SigningKeys[i] : i \in DOMAIN SigningKeys} \subseteq Accepted
  /\ client.policy.floor <= 1

(* When the operation of the service is ready: one round per rotation after  *)
(* the start. A finished one was signed by the j-th key, so that it began    *)
(* within j rounds.                                                          *)
Generating ==
  /\ server.op = "pending" =>
       now <= server.ready /\ server.ready <= Started + server.rotations * Round + server.longest
  /\ server.op = "completed" =>
       /\ Honest(server.result) /\ server.result.payload.from <= now
       /\ \E j \in 1..server.signer :
            /\ SignedBy(server.result, j)
            /\ server.result.payload.from <= Started + (j - 1) * Round + server.longest

(* A client that waits wakes up before what it waits for could have expired. *)
Waiting ==
  /\ client.pc = "post" => now = Started
  /\ client.pc \in {"sleep", "poll"} => server.op # "none"
  /\ client.pc = "sleep" =>
       /\ now <= client.wake
       /\ server.op = "pending" => client.wake <= now + MaxRetry
       /\ server.op = "completed" => client.wake <= server.result.payload.from + MaxRetry
  /\ client.pc = "poll" /\ server.op = "completed" =>
       now <= server.result.payload.from + MaxRetry

(* A client that has a result got an honest one, in time to verify it.       *)
Given ==
  /\ client.pc \in {"verify", "fetch"} =>
       /\ Honest(client.result) /\ \E j \in DOMAIN SigningKeys : SignedBy(client.result, j)
       /\ now <= Started + (server.rotations + 1) * Round
  /\ client.pc = "verify" => P!InWindow(client.result.payload)

(* A client of such a policy fails only when its rounds reach the deadline.  *)
InTime ==
  client.pc = "failed" /\ AcceptsAll /\ server.op # "failed" =>
    (server.rotations + 1) * Round >= Deadline

(* The hypotheses of OverlapIsServed on the network and on the               *)
(* configuration.                                                            *)
Timed == misses = 0 /\ Refresh > MaxRetry /\ Lifetime > MaxRetry

(* The inductive invariant behind OverlapIsServed: without misanswers, and   *)
(* with results that live longer than a pause, everything happens within a   *)
(* round per rotation.                                                       *)
Served ==
  /\ server.signer = server.rotations + 1
  /\ Timed => Generating /\ Waiting /\ Given /\ InTime

(* Products of naturals, for the number of rounds.                           *)
LEMMA Spans ==
  ASSUME NEW a \in Nat, NEW b \in Nat, NEW k \in Nat, NEW l \in Nat, a <= b, k <= l
  PROVE  a * k \in Nat /\ b * l \in Nat /\ a * k <= b * l /\ (a + 1) * k = a * k + k
  <1>1. a * k <= b * k /\ a * k \in Nat /\ b * k \in Nat
    OBVIOUS
  <1>2. b * k <= b * l /\ b * l \in Nat
    OBVIOUS
  <1>3. (a + 1) * k = a * k + k
    OBVIOUS
  <1> QED
    BY <1>1, <1>2, <1>3

(* The numbers of the state, as numbers.                                     *)
LEMMA Numbers ==
  ASSUME P!ConfigurationSound, ProtocolInv
  PROVE  /\ now \in Nat /\ misses \in Nat /\ server.rotations \in Nat /\ server.longest \in Nat
         /\ server.ready \in Nat /\ Round \in Nat /\ MaxRetry \in Nat /\ Refresh \in Nat
         /\ Deadline \in Nat /\ Lifetime \in Nat /\ Started \in Nat
         /\ client.wake \in Nat /\ server.longest <= Round /\ Round = server.longest + MaxRetry
         /\ DOMAIN SigningKeys = 1..Len(SigningKeys) /\ Len(SigningKeys) \in Nat
         /\ server.signer \in DOMAIN SigningKeys
         /\ server.op = "completed" =>
              server.result.payload.from \in Nat /\ server.result \in P!Results
  <1>1. \A r \in P!Results : r.payload.from \in Nat
    BY DEF P!Results, P!Payloads
  <1>2. now \in Nat /\ misses \in Nat /\ server.rotations \in Nat /\ server.longest \in Nat
        /\ server.ready \in Nat /\ client.wake \in Nat /\ server.signer \in DOMAIN SigningKeys
    BY DEF ProtocolInv, ProtocolType
  <1>3. MaxRetry \in Nat /\ Refresh \in Nat /\ Deadline \in Nat /\ Lifetime \in Nat
        /\ Started \in Nat /\ DOMAIN SigningKeys = 1..Len(SigningKeys) /\ Len(SigningKeys) \in Nat
    BY DEF P!ConfigurationSound
  <1> QED
    BY <1>1, <1>2, <1>3 DEF ProtocolInv, Held, Round

(* A client that waits has waited for at most one round per rotation and one *)
(* more.                                                                     *)
LEMMA NowBounded ==
  ASSUME P!ConfigurationSound, ProtocolInv, Served, Timed,
         client.pc \in {"sleep", "poll"}, server.op # "failed"
  PROVE  now <= Started + (server.rotations + 1) * Round
  <1> DEFINE past == server.rotations * Round
             all == (server.rotations + 1) * Round
             from == server.result.payload.from
  <1>1. all = past + Round /\ past \in Nat
    <2>1. server.rotations \in Nat /\ Round \in Nat
      BY Numbers
    <2> QED
      BY <2>1, Spans
  <1>2. /\ now \in Nat /\ MaxRetry \in Nat /\ server.longest \in Nat /\ server.ready \in Nat
        /\ Round = server.longest + MaxRetry /\ client.wake \in Nat /\ Started \in Nat
    BY Numbers
  <1>3. CASE server.op = "pending"
    <2>1. now <= server.ready /\ server.ready <= Started + past + server.longest
      BY <1>3 DEF Served, Timed, Generating
    <2> HIDE DEF past, all, Round
    <2> QED
      BY <1>1, <1>2, <2>1 DEF all
  <1>4. CASE server.op = "completed"
    <2>1. PICK j \in 1..server.signer : from <= Started + (j - 1) * Round + server.longest
      <3>1. Generating
        BY DEF Served, Timed
      <3> QED
        BY <1>4, <3>1 DEF Generating
    <2>2. j - 1 \in Nat /\ j - 1 <= server.rotations
      <3>1. server.signer = server.rotations + 1
        BY DEF Served
      <3>2. server.rotations \in Nat
        BY Numbers
      <3> QED
        BY <3>1, <3>2
    <2> DEFINE before == (j - 1) * Round
    <2>3. before <= past /\ before \in Nat
      <3>1. server.rotations \in Nat /\ Round \in Nat
        BY Numbers
      <3> QED
        BY <2>2, <3>1, Spans
    <2>4. from \in Nat
      BY <1>4, Numbers
    <2>5. now <= from + MaxRetry
      <3>1. CASE client.pc = "sleep"
        <4>1. now <= client.wake /\ client.wake <= from + MaxRetry
          BY <1>4, <3>1 DEF Served, Timed, Waiting
        <4> HIDE DEF from
        <4> QED
          BY <1>2, <2>4, <4>1
      <3>2. CASE client.pc = "poll"
        BY <1>4, <3>2 DEF Served, Timed, Waiting
      <3> QED
        BY <3>1, <3>2
    <2>6. from <= Started + before + server.longest
      BY <2>1
    <2> HIDE DEF past, all, Round, before, from
    <2> QED
      BY <1>1, <1>2, <2>3, <2>4, <2>5, <2>6 DEF all
  <1> QED
    BY <1>3, <1>4 DEF Served, Timed, Waiting, ProtocolInv, ProtocolType, Ops

(* A failure that only the deadline explains keeps Served.                   *)
LEMMA FailedInTime ==
  ASSUME P!ConfigurationSound, ProtocolInv, Served, Timed, P!Fails,
         UNCHANGED <<now, server, misses>>,
         server.op # "failed" /\ AcceptsAll => (server.rotations + 1) * Round >= Deadline
  PROVE  Served'
  <1>1. client'.pc = "failed" /\ client'.policy = client.policy
    BY DEF P!Fails, ProtocolInv, ProtocolType
  <1>2. Generating'
    BY DEF Served, Timed, Generating, Round, Honest, SignedBy
  <1>3. Waiting' /\ Given'
    BY <1>1 DEF Waiting, Given
  <1>4. InTime'
    BY <1>1 DEF InTime, AcceptsAll, Accepted, Round
  <1> QED
    BY <1>2, <1>3, <1>4 DEF Served

(* At the start the service has what an earlier caller left.                 *)
LEMMA ServedInit == P!ConfigurationSound /\ P!Init => Served
  <1> SUFFICES ASSUME P!ConfigurationSound, P!Init PROVE Served
    OBVIOUS
  <1>1. PICK g \in Generations, t \in Published, op \in Ops :
          server = [signer |-> 1, op |-> op, sequence |-> 2, rotations |-> 0,
                    ready |-> IF op = "pending" THEN Started + g ELSE 0,
                    longest |-> IF op = "pending" THEN g ELSE 0,
                    result |-> IF op = "completed"
                                 THEN P!Signed(P!Payload("ours", t, 1), {P!Signature(SigningKeys[1])})
                                 ELSE NoValue]
    BY DEF P!Init, Ops
  <1>2. now = Started /\ client.pc = "post"
    BY DEF P!Init
  <1>3. t \in Nat /\ g \in Nat /\ Started \in Nat /\ t <= Started /\ MaxRetry \in Nat
    BY DEF P!ConfigurationSound
  <1>4. Round \in Nat /\ 0 * Round = 0
    <2>1. Round \in Nat
      BY <1>1, <1>3 DEF Round
    <2> QED
      BY <2>1
  <1>5. server.op = "completed" =>
          /\ Honest(server.result) /\ SignedBy(server.result, 1)
          /\ server.result.payload.from = t
    <2> DEFINE good == P!Payload("ours", t, 1)
    <2>1. good.from = t /\ good.until = t + Lifetime
      BY <1>3, GoodPayload
    <2>2. /\ good.request = "ours" /\ good.core = "core" /\ good.roots = "exact"
          /\ good.by = "current"
          /\ good.refs = [i \in DOMAIN Taps |->
                            [tap |-> Taps[i], sequence |-> 1, origin |-> "service"]]
      BY DEF P!Payload
    <2> HIDE DEF good
    <2>3. server.op = "completed" =>
            /\ server.result.request = good.request /\ server.result.payload = good
            /\ server.result.digest = good
            /\ server.result.signatures = {P!Signature(SigningKeys[1])}
      BY <1>1 DEF P!Signed, good
    <2> QED
      BY <2>1, <2>2, <2>3 DEF Honest, SignedBy
  <1>6. server.op = "pending" =>
          now <= server.ready /\ server.ready <= Started + server.rotations * Round + server.longest
    <2>1. server.op = "pending" => server.ready = Started + g /\ server.longest = g /\ server.rotations = 0
      BY <1>1
    <2> HIDE DEF Round
    <2> QED
      BY <1>2, <1>3, <1>4, <2>1
  <1>7. server.op = "completed" =>
          server.result.payload.from <= now
          /\ server.result.payload.from <= Started + (1 - 1) * Round + server.longest
    <2>1. server.longest \in Nat /\ 1 - 1 = 0
      BY <1>1, <1>3
    <2> HIDE DEF Round
    <2> QED
      BY <1>2, <1>3, <1>4, <1>5, <2>1
  <1>8. Generating
    <2>1. 1 \in 1..server.signer
      BY <1>1
    <2> QED
      BY <1>5, <1>6, <1>7, <2>1 DEF Generating
  <1> QED
    BY <1>1, <1>2, <1>8 DEF Served, Waiting, Given, InTime

(* A rotation outdates what was signed, starts a pending generation over and *)
(* allows one more round.                                                    *)
LEMMA RotateServed ==
  ASSUME P!ConfigurationSound, ProtocolInv, Served, Timed, P!Rotate
  PROVE  Served'
  <1> DEFINE past == server.rotations * Round
             all == (server.rotations + 1) * Round
             next == (server.rotations + 1) * Round'
             more == (server.rotations + 2) * Round'
  <1>1. UNCHANGED <<now, client, misses>>
    BY DEF P!Rotate
  <1>2. PICK g \in Generations :
          server' = [server EXCEPT !.signer = @ + 1, !.rotations = @ + 1,
                       !.ready = IF server.op = "pending" THEN now + g ELSE @,
                       !.longest = IF server.op = "pending" /\ g > @ THEN g ELSE @]
    BY DEF P!Rotate
  <1>3. /\ server'.rotations = server.rotations + 1 /\ server'.signer = server.signer + 1
        /\ server'.ready = IF server.op = "pending" THEN now + g ELSE server.ready
        /\ server'.longest = IF server.op = "pending" /\ g > server.longest THEN g ELSE server.longest
        /\ server'.op = server.op /\ server'.result = server.result
    BY <1>2 DEF ProtocolInv, ProtocolType
  <1>4. /\ server.rotations \in Nat /\ Round \in Nat /\ server.longest \in Nat
        /\ server.ready \in Nat /\ g \in Nat /\ Started \in Nat /\ MaxRetry \in Nat
        /\ server.signer \in Nat /\ Deadline \in Nat /\ now \in Nat
        /\ Round = server.longest + MaxRetry
    <2>1. server.ready \in Nat /\ now \in Nat
      BY DEF ProtocolInv, ProtocolType
    <2>2. g \in Nat
      BY DEF P!ConfigurationSound
    <2> QED
      BY <2>1, <2>2, Numbers
  <1>5. /\ server'.longest \in Nat /\ server.longest <= server'.longest
        /\ server.op = "pending" => g <= server'.longest
        /\ server.op # "pending" => server'.longest = server.longest
    BY <1>3, <1>4
  <1>6. Round' = server'.longest + MaxRetry /\ Round' \in Nat /\ Round <= Round'
    <2>1. Round' = server'.longest + MaxRetry
      BY DEF Round
    <2> QED
      BY <1>4, <1>5, <2>1
  <1>7. /\ past \in Nat /\ all \in Nat /\ more \in Nat /\ next \in Nat
        /\ past <= all /\ all <= next /\ all <= more /\ all = past + Round
    <2>1. (server.rotations + 1) * Round <= (server.rotations + 1) * Round'
      BY <1>4, <1>6, Spans
    <2>2. (server.rotations + 1) * Round <= (server.rotations + 2) * Round'
      BY <1>4, <1>6, Spans
    <2>3. server.rotations * Round <= (server.rotations + 1) * Round
      BY <1>4, Spans
    <2>4. all = past + Round
      BY <1>4, Spans
    <2> QED
      BY <1>4, <1>6, <2>1, <2>2, <2>3, <2>4
  <1>8. server'.rotations * Round' = next /\ (server'.rotations + 1) * Round' = more
    BY <1>3, <1>4, <1>6
  <1>9. Generating'
    <2>1. server.op = "pending" =>
            now <= server'.ready /\ server'.ready <= Started + next + server'.longest
      <3>1. server.op = "pending" => now <= server.ready /\ server.ready <= Started + past + server.longest
        BY DEF Served, Timed, Generating
      <3> HIDE DEF past, all, next, Round
      <3> QED
        BY <1>3, <1>4, <1>5, <1>7, <3>1
    <2>2. \A j \in 1..server.signer : j \in 1..server'.signer
      BY <1>3, <1>4
    <2>3. server.op = "completed" => Round' = Round /\ server'.longest = server.longest
      BY <1>5 DEF Round
    <2> HIDE DEF past, all, next
    <2>4. server'.op = "pending" =>
            now' <= server'.ready /\ server'.ready <= Started + server'.rotations * Round' + server'.longest
      BY <1>1, <1>3, <1>8, <2>1
    <2>5. server'.op = "completed" =>
            /\ Honest(server'.result) /\ server'.result.payload.from <= now'
            /\ \E j \in 1..server'.signer :
                 /\ SignedBy(server'.result, j)
                 /\ server'.result.payload.from <= Started + (j - 1) * Round' + server'.longest
      <3> SUFFICES ASSUME server'.op = "completed"
                   PROVE  /\ Honest(server'.result) /\ server'.result.payload.from <= now'
                          /\ \E j \in 1..server'.signer :
                               /\ SignedBy(server'.result, j)
                               /\ server'.result.payload.from <= Started + (j - 1) * Round' + server'.longest
        OBVIOUS
      <3>1. server.op = "completed" /\ server'.result = server.result
        BY <1>3
      <3>2. PICK j \in 1..server.signer :
              /\ SignedBy(server.result, j)
              /\ server.result.payload.from <= Started + (j - 1) * Round + server.longest
        BY <3>1 DEF Served, Timed, Generating
      <3>3. Honest(server.result) /\ server.result.payload.from <= now
        BY <3>1 DEF Served, Timed, Generating
      <3> QED
        BY <1>1, <2>2, <2>3, <3>1, <3>2, <3>3
    <2> QED
      BY <2>4, <2>5 DEF Generating, Honest, SignedBy
  <1>10. Waiting'
    BY <1>1, <1>3 DEF Served, Timed, Waiting
  <1>11. Given'
    <2>1. now <= Started + all => now <= Started + more
      <3> HIDE DEF all, more
      <3> QED
        BY <1>4, <1>7
    <2> HIDE DEF more
    <2> QED
      BY <1>1, <1>8, <2>1 DEF Served, Timed, Given, Honest, SignedBy, P!InWindow
  <1>12. InTime'
    <2>1. all >= Deadline => more >= Deadline
      <3> HIDE DEF all, more
      <3> QED
        BY <1>4, <1>7
    <2> HIDE DEF more
    <2> QED
      BY <1>1, <1>3, <1>8, <2>1 DEF Served, Timed, InTime, AcceptsAll, Accepted
  <1>13. server'.signer = server'.rotations + 1
    BY <1>3, <1>4 DEF Served
  <1> QED
    BY <1>9, <1>10, <1>11, <1>12, <1>13 DEF Served

(* The generation ends, signed by the current key.                           *)
LEMMA CompleteServed ==
  ASSUME P!ConfigurationSound, ProtocolInv, Served, Timed, P!Complete
  PROVE  Served'
  <1> DEFINE good == P!Payload("ours", now, server.sequence)
             r == P!Signed(good, {P!Signature(SigningKeys[server.signer])})
  <1>1. UNCHANGED <<now, client, misses>> /\ server.op = "pending" /\ now >= server.ready
    BY DEF P!Complete
  <1>2. Honest(r) /\ r.payload.from = now /\ SignedBy(r, server.signer)
    <2>1. good.from = now /\ good.until = now + Lifetime
      BY GoodPayload DEF ProtocolInv, ProtocolType
    <2>2. /\ good.request = "ours" /\ good.core = "core" /\ good.roots = "exact"
          /\ good.by = "current"
          /\ good.refs = [i \in DOMAIN Taps |->
                            [tap |-> Taps[i], sequence |-> server.sequence, origin |-> "service"]]
      BY DEF P!Payload
    <2>3. server.sequence >= 1
      BY DEF ProtocolInv, ProtocolType
    <2>4. /\ r.request = good.request /\ r.payload = good /\ r.digest = good
          /\ r.signatures = {P!Signature(SigningKeys[server.signer])}
      BY DEF P!Signed
    <2> HIDE DEF good, r
    <2> QED
      BY <2>1, <2>2, <2>3, <2>4 DEF Honest, SignedBy
  <1> HIDE DEF r
  <1>3. /\ \/ server'.op = "completed" /\ server'.result = r
           \/ server'.op = "failed"
        /\ server'.rotations = server.rotations /\ server'.signer = server.signer
        /\ server'.longest = server.longest
    BY DEF P!Complete, r, ProtocolInv, ProtocolType
  <1>4. Round' = Round /\ server.signer = server.rotations + 1 /\ server.rotations \in Nat
    BY <1>3, Numbers DEF Round, Served
  <1>5. now <= Started + (server.signer - 1) * Round + server.longest
    <2>1. now <= server.ready /\ server.ready <= Started + server.rotations * Round + server.longest
      BY <1>1 DEF Served, Timed, Generating
    <2>2. now = server.ready
      BY <1>1, <2>1, Numbers
    <2>3. server.signer - 1 = server.rotations
      BY <1>4
    <2> QED
      BY <2>1, <2>2, <2>3
  <1>6. Generating'
    <2>1. server.signer \in 1..server.signer /\ now <= now
      BY <1>4, Numbers
    <2> QED
      BY <1>1, <1>2, <1>3, <1>4, <1>5, <2>1 DEF Generating, Honest, SignedBy
  <1>7. Waiting'
    <2>1. now <= now + MaxRetry
      BY Numbers
    <2> QED
      BY <1>1, <1>2, <1>3, <2>1 DEF Served, Timed, Waiting
  <1>8. Given' /\ InTime'
    BY <1>1, <1>3, <1>4
    DEF Served, Timed, Given, InTime, Honest, SignedBy, AcceptsAll, Accepted, P!InWindow
  <1> QED
    BY <1>3, <1>4, <1>6, <1>7, <1>8 DEF Served

(* A generation that a request starts is ready within its round.             *)
LEMMA RegenerateInTime ==
  ASSUME P!ConfigurationSound, ProtocolInv, Served, Timed, client.pc \in {"post", "poll"},
         NEW post \in BOOLEAN, P!Asked(post), server' # server, post => client.pc = "post"
  PROVE  /\ now <= server'.ready /\ server'.op = "pending"
         /\ server'.ready <= Started + server'.rotations * Round' + server'.longest
         /\ server'.rotations = server.rotations /\ server'.signer = server.signer
  <1>1. /\ (server.op = "completed" /\ ~P!Fresh) \/ (post /\ server.op \in {"none", "failed"})
        /\ server'.signer = server.signer /\ server'.rotations = server.rotations
    BY AskedKeeps
  <1>2. PICK g \in Generations :
          /\ server'.op = "pending" /\ server'.ready = now + g
          /\ server'.longest = IF g > server.longest THEN g ELSE server.longest
    BY AskedKeeps
  <1> DEFINE past == server.rotations * Round
             next == server.rotations * Round'
  <1>3. /\ g \in Nat /\ now \in Nat /\ server.longest \in Nat /\ MaxRetry \in Nat
        /\ server.rotations \in Nat /\ Round \in Nat /\ Round = server.longest + MaxRetry
        /\ Started \in Nat
    BY Numbers DEF P!ConfigurationSound
  <1>4. Round' = server'.longest + MaxRetry
    BY DEF Round
  <1>5. server'.longest \in Nat /\ server'.longest >= g /\ server'.longest >= server.longest
    BY <1>2, <1>3
  <1>6. Round' \in Nat /\ Round <= Round'
    BY <1>3, <1>4, <1>5
  <1>7. past <= next /\ past \in Nat /\ next \in Nat
    BY <1>3, <1>6, Spans
  <1>8. now <= Started + past
    <2>1. CASE client.pc = "post"
      <3>1. now = Started
        BY <2>1 DEF Served, Timed, Waiting
      <3> HIDE DEF past
      <3> QED
        BY <1>3, <1>7, <3>1
    <2>2. CASE client.pc = "poll"
      <3> DEFINE from == server.result.payload.from
      <3>2. server.op = "completed" /\ ~P!Fresh
        BY <1>1, <2>2
      <3>1. PICK j \in 1..server.signer :
              SignedBy(server.result, j) /\ from <= Started + (j - 1) * Round + server.longest
        BY <3>2 DEF Served, Timed, Generating
      <3>3. now <= from + MaxRetry /\ from \in Nat /\ server.result \in P!Results
        BY <2>2, <3>2, Numbers DEF Served, Timed, Waiting
      <3>4. server.result # NoValue
        BY <3>3 DEF P!ConfigurationSound
      <3>5. /\ Refresh > MaxRetry /\ Refresh \in Nat /\ Lifetime > MaxRetry /\ Lifetime \in Nat
            /\ from <= now /\ server.result.payload.until = from + Lifetime
        BY <3>2, Numbers DEF Served, Timed, Generating, Honest
      <3>6. now < from + Refresh /\ now < from + Lifetime
        <4> HIDE DEF from
        <4> QED
          BY <1>3, <3>3, <3>5
      <3>7. j # server.signer
        BY <3>1, <3>2, <3>3, <3>4, <3>5, <3>6 DEF P!Fresh, P!InWindow, SignedBy
      <3>8. j - 1 \in Nat /\ j \in Nat /\ j <= server.rotations
        BY <1>3, <3>7, Numbers DEF Served
      <3> DEFINE before == (j - 1) * Round
                 upto == j * Round
      <3>9. before \in Nat /\ upto = before + Round /\ upto <= past /\ upto \in Nat
        <4>1. (j - 1) + 1 = j
          BY <3>8
        <4> QED
          BY <1>3, <3>8, <4>1, Spans
      <3>10. from <= Started + before + server.longest
        BY <3>1
      <3> HIDE DEF before, upto, past, from
      <3> QED
        BY <1>3, <1>7, <3>3, <3>9, <3>10
    <2> QED
      BY <2>1, <2>2
  <1>9. server'.rotations * Round' = next
    BY <1>1
  <1> HIDE DEF past, next
  <1> QED
    BY <1>1, <1>2, <1>3, <1>5, <1>7, <1>8, <1>9

(* A request or a poll that is answered.                                     *)
LEMMA AskServed ==
  ASSUME P!ConfigurationSound, ProtocolInv, Served, Timed, client.pc \in {"post", "poll"},
         NEW post \in BOOLEAN, P!Asked(post), P!TakesOperation, UNCHANGED <<now, misses>>,
         post <=> client.pc = "post"
  PROVE  Served'
  <1>1. CASE server' # server
    <2>1. /\ now <= server'.ready /\ server'.op = "pending"
          /\ server'.ready <= Started + server'.rotations * Round' + server'.longest
          /\ server'.rotations = server.rotations /\ server'.signer = server.signer
      BY <1>1, RegenerateInTime
    <2>2. PICK r \in Retries : P!Sleeps(r)
      BY <2>1 DEF P!TakesOperation
    <2>3. client'.pc = "sleep" /\ now <= client'.wake /\ client'.wake <= now + MaxRetry
      BY <2>2, SleepsKeeps
    <2>4. Generating' /\ Waiting' /\ Given' /\ InTime'
      BY <2>1, <2>3 DEF Generating, Waiting, Given, InTime
    <2> QED
      BY <2>1, <2>4 DEF Served
  <1>2. CASE server' = server
    <2>1. Generating'
      BY <1>2 DEF Served, Timed, Generating, Honest, SignedBy, Round
    <2>2. server.op # "none"
      <3>1. ASSUME server.op = "none" PROVE FALSE
        <4>1. post
          BY <3>1 DEF Served, Timed, Waiting
        <4>2. PICK g \in Generations :
                server' = [server EXCEPT !.op = "pending", !.ready = now + g,
                             !.longest = IF g > @ THEN g ELSE @]
          BY <3>1, <4>1 DEF P!Asked
        <4>3. server'.op = "pending"
          BY <4>2 DEF ProtocolInv, ProtocolType
        <4> QED
          BY <1>2, <3>1, <4>3
      <3> QED
        BY <3>1
    <2>3. CASE server.op = "failed"
      <3>1. P!Fails
        BY <1>2, <2>3 DEF P!TakesOperation
      <3> QED
        BY <1>2, <2>3, <3>1, FailedInTime
    <2>4. CASE server.op = "pending"
      <3>1. PICK r \in Retries : P!Sleeps(r)
        BY <1>2, <2>4 DEF P!TakesOperation
      <3>2. client'.pc = "sleep" /\ now <= client'.wake /\ client'.wake <= now + MaxRetry
        BY <3>1, SleepsKeeps
      <3>3. Waiting' /\ Given' /\ InTime'
        BY <1>2, <2>4, <3>2 DEF Waiting, Given, InTime
      <3> QED
        BY <1>2, <2>1, <3>3 DEF Served
    <2>5. CASE server.op = "completed"
      <3>1. P!Holds(server.result) /\ server.result \in P!Results
        BY <1>2, <2>5, Numbers DEF P!TakesOperation
      <3>2. client'.pc = "verify" /\ client'.result = server.result
        BY <3>1, HoldsKeeps
      <3>3. now <= Started + (server.rotations + 1) * Round
        <4>1. CASE client.pc = "post"
          <5>1. now = Started
            BY <4>1 DEF Served, Timed, Waiting
          <5>2. (server.rotations + 1) * Round \in Nat /\ Started \in Nat
            BY Numbers
          <5> DEFINE all == (server.rotations + 1) * Round
          <5> HIDE DEF all
          <5> QED
            BY <5>1, <5>2 DEF all
        <4>2. CASE client.pc = "poll"
          BY <2>5, <4>2, NowBounded
        <4> QED
          BY <4>1, <4>2
      <3>4. P!Fresh
        <4>1. ASSUME ~P!Fresh PROVE FALSE
          <5>1. PICK g \in Generations :
                  server' = [server EXCEPT !.op = "pending", !.ready = now + g,
                               !.longest = IF g > @ THEN g ELSE @]
            BY <2>5, <4>1 DEF P!Asked
          <5>2. server'.op = "pending"
            BY <5>1 DEF ProtocolInv, ProtocolType
          <5> QED
            BY <1>2, <2>5, <5>2
        <4> QED
          BY <4>1
      <3>5. /\ Honest(server.result) /\ server.result.payload.from <= now
            /\ \E j \in DOMAIN SigningKeys : SignedBy(server.result, j)
        BY <2>5, <3>4 DEF Served, Timed, Generating, P!Fresh, SignedBy, ProtocolInv, ProtocolType
      <3>6. Given'
        BY <1>2, <3>2, <3>3, <3>4, <3>5 DEF Given, P!Fresh, P!InWindow, Honest, SignedBy, Round
      <3>7. Waiting' /\ InTime'
        BY <3>2 DEF Waiting, InTime
      <3> QED
        BY <1>2, <2>1, <3>6, <3>7 DEF Served
    <2> QED
      BY <2>2, <2>3, <2>4, <2>5 DEF ProtocolInv, ProtocolType, Ops
  <1> QED
    BY <1>1, <1>2

(* The pause ends.                                                           *)
LEMMA SleepServed ==
  ASSUME P!ConfigurationSound, ProtocolInv, Served, Timed, P!Sleep
  PROVE  Served'
  <1>1. UNCHANGED <<now, server, misses>> /\ client.pc = "sleep"
    BY DEF P!Sleep
  <1>2. CASE P!Expired /\ P!Fails
    <2>1. /\ now >= Started + Deadline
          /\ server.op # "failed" => now <= Started + (server.rotations + 1) * Round
      BY <1>1, <1>2, NowBounded DEF P!Expired
    <2>2. server.op # "failed" => (server.rotations + 1) * Round >= Deadline
      <3>1. now \in Nat /\ Started \in Nat /\ Deadline \in Nat /\ (server.rotations + 1) * Round \in Nat
        BY Numbers
      <3> DEFINE all == (server.rotations + 1) * Round
      <3> HIDE DEF all
      <3> QED
        BY <2>1, <3>1 DEF all
    <2> QED
      BY <1>1, <1>2, <2>2, FailedInTime
  <1>3. CASE client' = [client EXCEPT !.pc = "poll", !.polls = @ + 1] /\ now >= client.wake
    <2>1. client'.pc = "poll"
      BY <1>3 DEF ProtocolInv, ProtocolType
    <2>2. server.op = "completed" => now <= server.result.payload.from + MaxRetry
      <3>1. server.op = "completed" => client.wake <= server.result.payload.from + MaxRetry /\ now <= client.wake
        BY <1>1 DEF Served, Timed, Waiting
      <3>2. server.op = "completed" => server.result.payload.from \in Nat
        BY Numbers
      <3>3. now \in Nat /\ client.wake \in Nat /\ MaxRetry \in Nat
        BY Numbers
      <3> QED
        BY <3>1, <3>2, <3>3
    <2>3. Generating'
      BY <1>1 DEF Served, Timed, Generating, Honest, SignedBy, Round
    <2>4. Waiting'
      BY <1>1, <2>1, <2>2 DEF Served, Timed, Waiting
    <2>5. Given' /\ InTime'
      BY <2>1 DEF Given, InTime
    <2> QED
      BY <1>1, <2>3, <2>4, <2>5 DEF Served
  <1> QED
    BY <1>2, <1>3 DEF P!Sleep

(* An honest result given in time passes every check of a client that        *)
(* accepts its key.                                                          *)
LEMMA HonestVerifies ==
  ASSUME P!ConfigurationSound, ProtocolInv, Served, Timed, client.pc = "verify", AcceptsAll
  PROVE  P!VerifyAccepted(client.result, client.policy) /\ P!BindingOK(client.result)
  <1> DEFINE r == client.result
  <1>1. Honest(r) /\ P!InWindow(r.payload)
    BY DEF Served, Timed, Given
  <1>2. PICK j \in DOMAIN SigningKeys : SignedBy(r, j)
    BY DEF Served, Timed, Given
  <1>3. SigningKeys[j] \in P!AcceptedKeyIDs(client.policy) /\ SigningKeys[j] \in client.policy.keys
    BY DEF AcceptsAll, Accepted, P!AcceptedKeyIDs, P!ConfigurationSound, ProtocolInv, ProtocolType
  <1>4. P!VerifyJWS(r.signatures, client.policy, SigningKeys[j])
    BY <1>2, <1>3 DEF SignedBy, P!Signature, P!VerifyJWS, P!Verifies
  <1> HIDE DEF r
  <1>6. P!VerifyAccepted(r, client.policy) /\ P!BindingOK(r)
    BY <1>1, <1>3, <1>4 DEF P!VerifyAccepted, P!BindingOK, Honest
  <1> QED
    BY <1>6 DEF r

(* The result is verified, its catalogs are fetched, Resolve returns.        *)
LEMMA GivenServed ==
  ASSUME P!ConfigurationSound, ProtocolInv, Served, Timed, P!Verify \/ P!FetchCatalog \/ P!Finish,
         misses' = misses
  PROVE  Served'
  <1>1. UNCHANGED <<now, server, misses>> /\ client.pc \in {"verify", "fetch"}
    BY DEF P!Verify, P!FetchCatalog, P!Finish
  <1>2. CASE P!Fails
    <2>1. server.op # "failed" /\ AcceptsAll => (server.rotations + 1) * Round >= Deadline
      <3>1. CASE P!Verify /\ AcceptsAll
        <4>1. client' = [client EXCEPT !.pc = "fetch", !.verified = now]
          BY <3>1, HonestVerifies DEF P!Verify
        <4>2. client'.pc = "fetch" /\ client'.pc = "failed"
          BY <1>2, <4>1 DEF P!Fails, ProtocolInv, ProtocolType
        <4> QED
          BY <4>2
      <3>2. CASE P!FetchCatalog /\ AcceptsAll
        <4>1. P!Expired
          <5> DEFINE n == Len(client.got)
                     reference == client.result.payload.refs[n + 1]
          <5>1. client.pc = "fetch" /\ n < Len(client.result.payload.refs) /\ n \in Nat
            BY <3>2 DEF P!FetchCatalog, ProtocolInv, ProtocolType
          <5>2. client.result.payload.refs \in P!ReferenceLists
            BY <5>1 DEF ProtocolInv, ClientBound, P!Results, P!Payloads
          <5>3. n + 1 \in DOMAIN Taps /\ reference \in P!References
            BY <5>1, <5>2, ListsTyped
          <5>4. reference.origin = "service" /\ reference.sequence >= 1
            BY <5>1, <5>3 DEF Served, Timed, Given, Honest
          <5>5. /\ client.policy.floor <= 1 /\ client.policy.floor \in Nat
                /\ reference.sequence \in Nat
            BY <3>2, <5>3
            DEF AcceptsAll, P!ConfigurationSound, ProtocolInv, ProtocolType, P!References
          <5>6. P!ReferenceOK(reference, client.policy)
            BY <5>4, <5>5 DEF P!ReferenceOK
          <5>7. ~P!Expired => \/ client' = [client EXCEPT !.got = Append(@, P!Document(reference))]
                              \/ misses' = misses + 1
            BY <3>2, <5>6 DEF P!FetchCatalog, P!TakesDocument
          <5>8. misses' # misses + 1
            BY Numbers
          <5>9. client'.pc = "failed"
            BY <1>2 DEF P!Fails, ProtocolInv, ProtocolType
          <5>10. client' # [client EXCEPT !.got = Append(@, P!Document(reference))]
            BY <5>1, <5>9 DEF ProtocolInv, ProtocolType
          <5> QED
            BY <5>7, <5>8, <5>10
        <4>2. now >= Started + Deadline /\ now <= Started + (server.rotations + 1) * Round
          BY <1>1, <4>1 DEF P!Expired, Served, Timed, Given
        <4>3. now \in Nat /\ Started \in Nat /\ Deadline \in Nat /\ (server.rotations + 1) * Round \in Nat
          BY Numbers
        <4> DEFINE all == (server.rotations + 1) * Round
        <4> HIDE DEF all
        <4> QED
          BY <4>2, <4>3 DEF all
      <3>3. CASE P!Finish
        <4>1. client'.pc = "resolved" /\ client'.pc = "failed"
          BY <1>2, <3>3 DEF P!Finish, P!Fails, ProtocolInv, ProtocolType
        <4> QED
          BY <4>1
      <3> QED
        BY <3>1, <3>2, <3>3
    <2> QED
      BY <1>1, <1>2, <2>1, FailedInTime
  <1>3. CASE ~P!Fails
    <2>1. client'.pc \in {"fetch", "resolved"} /\ client'.result = client.result
      BY <1>1, <1>3 DEF P!Verify, P!FetchCatalog, P!TakesDocument, P!Finish, ProtocolInv, ProtocolType
    <2>2. Generating'
      BY <1>1 DEF Served, Timed, Generating, Honest, SignedBy, Round
    <2>3. Waiting' /\ InTime'
      BY <2>1 DEF Waiting, InTime
    <2>4. Given'
      BY <1>1, <2>1 DEF Served, Timed, Given, Honest, SignedBy, Round
    <2> QED
      BY <1>1, <2>2, <2>3, <2>4 DEF Served
  <1> QED
    BY <1>2, <1>3

(* Time passes only up to what is due.                                       *)
LEMMA TickServed ==
  ASSUME P!ConfigurationSound, ProtocolInv, Served, Timed, P!Tick
  PROVE  Served'
  <1>1. UNCHANGED <<server, client, misses>> /\ client.pc = "sleep" /\ now < client.wake /\ now' = now + 1
        /\ (server.op = "pending" => ~(now >= server.ready))
    BY DEF P!Tick
  <1>2. /\ now \in Nat /\ client.wake \in Nat /\ server.ready \in Nat /\ MaxRetry \in Nat
        /\ server.op = "completed" => server.result.payload.from \in Nat
    BY Numbers
  <1>3. /\ now + 1 <= client.wake /\ (server.op = "pending" => now + 1 <= server.ready)
        /\ server.op = "completed" /\ server.result.payload.from <= now =>
             server.result.payload.from <= now + 1
        /\ client.wake <= now + MaxRetry => client.wake <= now + 1 + MaxRetry
    BY <1>1, <1>2
  <1>4. Generating'
    BY <1>1, <1>3 DEF Served, Timed, Generating, Honest, SignedBy, Round
  <1>5. Waiting'
    BY <1>1, <1>3 DEF Served, Timed, Waiting
  <1>6. Given' /\ InTime'
    BY <1>1 DEF Given, InTime
  <1> QED
    BY <1>1, <1>4, <1>5, <1>6 DEF Served

(* The signer is the key after the last rotation.                            *)
LEMMA RotationsCounted ==
  ASSUME P!ConfigurationSound, ProtocolInv, Served, [P!Next]_P!vars
  PROVE  server'.signer = server'.rotations + 1 /\ (misses' # misses => misses' > 0) 
  <1>1. server.signer = server.rotations + 1 /\ server.rotations \in Nat /\ misses \in Nat
    BY Numbers DEF Served
  <1>2. \/ server'.signer = server.signer /\ server'.rotations = server.rotations
        \/ server'.signer = server.signer + 1 /\ server'.rotations = server.rotations + 1
    <2>1. CASE P!Rotate
      BY <2>1 DEF P!Rotate, ProtocolInv, ProtocolType
    <2>2. CASE P!Complete
      BY <2>2 DEF P!Complete, ProtocolInv, ProtocolType
    <2>3. ASSUME NEW post \in BOOLEAN, P!Asked(post)
          PROVE  server'.signer = server.signer /\ server'.rotations = server.rotations
      BY <2>3, AskedKeeps
    <2> QED
      BY <2>1, <2>2, <2>3
      DEF P!Next, P!Progress, P!vars, P!Post, P!Poll, P!Misanswered, P!Sleep, P!Verify,
        P!FetchCatalog, P!Finish, P!Tick, P!Slow
  <1>3. misses' = misses \/ misses' = misses + 1
    BY DEF P!Next, P!Progress, P!vars, P!Post, P!Poll, P!Misanswered, P!Sleep, P!Verify,
      P!FetchCatalog, P!Finish, P!Tick, P!Slow, P!Rotate, P!Complete
  <1> QED
    BY <1>1, <1>2, <1>3

(* Every step keeps Served.                                                  *)
LEMMA ServedStep ==
  ASSUME P!ConfigurationSound, ProtocolInv, Served, [P!Next]_P!vars
  PROVE  Served'
  <1>1. CASE ~(Timed /\ misses' = misses)
    BY <1>1, RotationsCounted DEF Served, Timed
  <1>2. CASE Timed /\ misses' = misses
    <2> USE <1>2
    <2>0. misses' # misses + 1
      BY Numbers
    <2>1. CASE UNCHANGED P!vars
      BY <2>1
      DEF P!vars, Served, Timed, Generating, Waiting, Given, InTime, Honest, SignedBy, Round, AcceptsAll,
          Accepted, P!InWindow
    <2>2. CASE P!Post
      <3>1. P!Asked(TRUE) /\ P!TakesOperation /\ UNCHANGED <<now, misses>> /\ client.pc = "post"
        BY <2>0, <2>2 DEF P!Post, P!Misanswered
      <3> QED
        BY <3>1, AskServed
    <2>3. CASE P!Poll
      <3>1. CASE P!Expired /\ P!Fails /\ UNCHANGED <<now, server, misses>>
        <4>1. /\ now >= Started + Deadline
              /\ server.op # "failed" => now <= Started + (server.rotations + 1) * Round
          BY <2>3, <3>1, NowBounded DEF P!Expired, P!Poll
        <4>2. server.op # "failed" => (server.rotations + 1) * Round >= Deadline
          <5>1. now \in Nat /\ Started \in Nat /\ Deadline \in Nat /\ (server.rotations + 1) * Round \in Nat
            BY Numbers
          <5> DEFINE all == (server.rotations + 1) * Round
          <5> HIDE DEF all
          <5> QED
            BY <4>1, <5>1 DEF all
        <4> QED
          BY <3>1, <4>2, FailedInTime
      <3>2. CASE P!Asked(FALSE) /\ P!TakesOperation /\ UNCHANGED <<now, misses>>
        BY <2>3, <3>2, AskServed DEF P!Poll
      <3> QED
        BY <2>0, <2>3, <3>1, <3>2 DEF P!Poll, P!Misanswered
    <2>4. CASE P!Verify \/ P!FetchCatalog \/ P!Finish
      BY <2>4, GivenServed
    <2>5. ~P!Slow
      BY <2>0 DEF P!Slow
    <2> QED
      BY <2>1, <2>2, <2>3, <2>4, <2>5, SleepServed, TickServed, CompleteServed, RotateServed
        DEF P!Next, P!Progress
  <1> QED
    BY <1>1, <1>2

(* What Resolve accepts was signed by an accepted key, unexpired and bound  *)
(* to the request, catalog by catalog.                                      *)
ResolvedIsBound == P!ResolvedIsBound

(* Resolve returns catalogs only of a result that an accepted key signed,    *)
(* that was unexpired when it was verified, and that is bound to the         *)
(* request, the core snapshot and the references, whatever the network       *)
(* answers: for every list of keys, taps, policies and times.                *)
THEOREM ResolvesBound ==
  ASSUME P!ConfigurationSound
  PROVE  P!Spec => []ResolvedIsBound
  <1>1. ProtocolInv => ResolvedIsBound
    BY ProtocolKeeps DEF ResolvedIsBound
  <1>2. P!Init => ProtocolInv
    BY ProtocolInit
  <1>3. ProtocolInv /\ [P!Next]_P!vars => ProtocolInv'
    BY ProtocolStep
  <1> QED
    BY <1>1, <1>2, <1>3, PTL DEF P!Spec

(* A client whose policy has the overlap of a key rotation is served on     *)
(* both sides of it, and polls at most once a second.                       *)
RotationServed == P!RotationServed

(* A client whose policy holds the overlap of the rotations is served within *)
(* one round per key, unless its deadline comes first, whatever operation it *)
(* meets, where the refresh interval and the lifetime of a result are longer *)
(* than a pause; and under every configuration it polls at most once per     *)
(* unit of time.                                                             *)
THEOREM ServesRotation ==
  ASSUME P!ConfigurationSound
  PROVE  P!Spec => []RotationServed
  <1>1. ProtocolInv /\ Served => RotationServed
    <2> SUFFICES ASSUME ProtocolInv, Served PROVE P!OverlapIsServed
      BY ProtocolKeeps DEF RotationServed, P!RotationServed
    <2> QED
      BY DEF P!OverlapIsServed, Served, Timed, InTime, AcceptsAll, Accepted, Round
  <1>2. P!Init => ProtocolInv /\ Served
    BY ProtocolInit, ServedInit
  <1>3. ProtocolInv /\ Served /\ [P!Next]_P!vars => ProtocolInv' /\ Served'
    BY ProtocolStep, ServedStep
  <1> QED
    BY <1>1, <1>2, <1>3, PTL DEF P!Spec
=============================================================================
