---------------------------- MODULE IngestProofs ----------------------------
(***************************************************************************)
(* What enters from outside, for every value of the constants: the token   *)
(* cache of the registry client (RegistryAuth), the descriptors of an OCI  *)
(* bottle (DescriptorChain) and a bottle fetched over HTTPS (BottleFetch). *)
(* MCStores model-checks the same instances.                               *)
(***************************************************************************)
EXTENDS Integers, Sequences, FiniteSets, FiniteSetTheorems, TLAPS

CONSTANTS
  Gets, RepoOf, Scopes, FirstScope, Moves, Attempts, MaxTokens, MaxRevocations, None,
  BottleKinds, Target, Catalogues, Indexes, Referrers, SourceAt, Bottles, Branch, Bundles,
  MaxPushes, MaxFaults,
  Bottle, Signature, Responses, Webs, NameAnswers, Public, MaxRedirects, MaxBottleSize,
  MaxBundleSize, Declared, Genuine, MaxChanges

VARIABLES
  scope, issued, revoked, authByRepo, tokens, gets,
  kind, files, tag, referrers, pushed, ingest, commit, index, child, proof, failures,
  web, stage, loop, request, sigRequest, result, provenance, dialed, past

(* The tokens of the registry client. *)
A == INSTANCE RegistryAuth WITH Calls <- Gets, calls <- gets

(* The records of the GETs.                                                  *)
Repositories == A!Repositories
MaybeScope == Scopes \cup {None}
GetRecords ==
  [pc : {"start", "get", "token", "store", "served", "failed", "rejected"},
   challenge : MaybeScope, token : Nat, attempt : Nat, hurt : Nat]

AuthType ==
  /\ scope \in [Repositories -> MaybeScope]
  /\ \E n \in Nat : issued \in [1..n -> Scopes]
  /\ revoked \subseteq DOMAIN issued
  /\ authByRepo \in [Repositories -> MaybeScope]
  /\ tokens \in [Scopes -> [value : Nat, live : BOOLEAN]]
  /\ gets \in [Gets -> GetRecords]

(* Token t was given for scope s.                                            *)
OfScope(t, s, given) == t \in DOMAIN given /\ given[t] = s

CachedTokens == \A s \in Scopes : tokens[s].live => OfScope(tokens[s].value, s, issued)

(* A GET carries no token but one of the challenge it answers.               *)
Carried(r, given) ==
  /\ r.pc \in {"get", "store"} /\ r.token # 0 => OfScope(r.token, r.challenge, given)
  /\ r.pc = "token" => r.challenge \in Scopes /\ r.token = 0
  /\ r.pc = "store" => r.challenge \in Scopes /\ r.token # 0

(* The registry would serve s for token t.                                   *)
Good(t, s, given, back) == s = None \/ (t \notin back /\ OfScope(t, s, given))

(* Every refusal but the first is excused: a GET that was refused n times    *)
(* had n - 1 tokens taken back or scopes changed under it, and when it was   *)
(* disturbed less often than it was refused, what it carries is good.        *)
Excused(r, s, given, back) ==
  /\ r.pc = "start" => r.attempt = 0
  /\ r.pc \in {"get", "token", "store"} => r.hurt + 1 >= r.attempt
  /\ r.attempt >= 1 /\ r.hurt < r.attempt =>
       /\ r.pc = "token" => r.challenge = s
       /\ r.pc = "store" => r.challenge = s /\ r.token \notin back
       /\ r.pc = "get" => Good(r.token, s, given, back)
  /\ r.pc = "rejected" => r.hurt >= 2

(* The inductive invariant behind TokensShared.                              *)
AuthInv ==
  /\ AuthType /\ CachedTokens
  /\ \A g \in Gets : Carried(gets[g], issued) /\ Excused(gets[g], scope[RepoOf[g]], issued, revoked)

(* No token was given yet.                                                   *)
LEMMA AuthInit == A!RegistrySound /\ A!Init => AuthInv
  <1> SUFFICES ASSUME A!RegistrySound, A!Init PROVE AuthInv
    OBVIOUS
  <1>1. issued \in [1..0 -> Scopes]
    BY DEF A!Init
  <1>2. AuthType
    BY <1>1 DEF A!Init, A!RegistrySound, AuthType, Repositories, MaybeScope, GetRecords, A!NoToken
  <1> QED
    BY <1>2 DEF A!Init, AuthInv, CachedTokens, A!NoToken, Carried, Excused

(* A step of one GET keeps what holds of the others: tokens are given for    *)
(* good.                                                                     *)
LEMMA OneGetMoves ==
  ASSUME AuthInv, NEW g \in Gets, NEW r \in GetRecords, gets' = [gets EXCEPT ![g] = r],
         scope' = scope, revoked' = revoked,
         AuthType', CachedTokens', Carried(r, issued'),
         Excused(r, scope[RepoOf[g]], issued', revoked),
         \A t \in DOMAIN issued : t \in DOMAIN issued' /\ issued'[t] = issued[t]
  PROVE  AuthInv'
  <1> SUFFICES ASSUME NEW o \in Gets 
         PROVE  /\ Carried(gets'[o], issued')
                /\ Excused(gets'[o], scope'[RepoOf[o]], issued', revoked')
    BY DEF AuthInv
  <1>1. CASE o = g
    BY <1>1 DEF AuthInv, AuthType
  <1>2. CASE o # g
    <2>1. /\ gets'[o] = gets[o] /\ Carried(gets[o], issued)
          /\ Excused(gets[o], scope[RepoOf[o]], issued, revoked)
      BY <1>2 DEF AuthInv, AuthType
    <2>2. Carried(gets'[o], issued')
      BY <2>1 DEF Carried, OfScope
    <2>3. Excused(gets'[o], scope'[RepoOf[o]], issued', revoked')
      BY <2>1 DEF Excused, Good, OfScope
    <2> QED
      BY <2>2, <2>3
  <1> QED
    BY <1>1, <1>2

(* A GET starts with the remembered challenge and a cached token.            *)
LEMMA StartStep ==
  ASSUME A!RegistrySound, AuthInv, NEW g \in Gets, A!Start(g)
  PROVE  AuthInv'
  <1> DEFINE known == authByRepo[RepoOf[g]]
             cached == IF known = None THEN A!NoToken ELSE tokens[known]
             t == IF cached.live THEN cached.value ELSE 0
             p == IF known = None \/ cached.live THEN "get" ELSE "token"
             r == [gets[g] EXCEPT !.challenge = known, !.token = t, !.pc = p]
  <1>1. /\ gets[g] \in GetRecords /\ gets[g].pc = "start" /\ gets[g].attempt = 0
        /\ gets[g].hurt \in Nat
    BY DEF AuthInv, AuthType, A!Start, Excused, GetRecords
  <1>2. known \in MaybeScope
    BY DEF AuthInv, AuthType, A!RegistrySound, Repositories
  <1>3. /\ cached.live \in BOOLEAN /\ cached.value \in Nat
        /\ (cached.live => known \in Scopes /\ OfScope(cached.value, known, issued))
    <2>1. CASE known = None
      BY <2>1 DEF A!NoToken
    <2>2. CASE known # None
      BY <1>2, <2>2 DEF AuthInv, AuthType, CachedTokens, MaybeScope
    <2> QED
      BY <2>1, <2>2
  <1>4. gets' = [gets EXCEPT ![g].challenge = known, ![g].token = t, ![g].pc = p]
        /\ UNCHANGED <<scope, issued, revoked, authByRepo, tokens>>
    BY DEF A!Start
  <1>5. t \in Nat /\ p \in {"get", "token"} /\ (p = "token" => t = 0 /\ known \in Scopes)
        /\ (t # 0 => OfScope(t, known, issued))
    BY <1>2, <1>3 DEF MaybeScope
  <1> HIDE DEF known, t, p
  <1>6. gets' = [gets EXCEPT ![g] = r] /\ r \in GetRecords
    BY <1>1, <1>2, <1>4, <1>5 DEF AuthInv, AuthType, GetRecords
  <1>7. r.challenge = known /\ r.token = t /\ r.pc = p /\ r.attempt = 0 /\ r.hurt = gets[g].hurt
    BY <1>1 DEF GetRecords
  <1>8. Carried(r, issued')
    BY <1>4, <1>5, <1>7 DEF Carried, OfScope
  <1>9. Excused(r, scope[RepoOf[g]], issued', revoked)
    BY <1>1, <1>5, <1>7 DEF Excused
  <1>10. AuthType' /\ CachedTokens'
    BY <1>4, <1>6 DEF AuthInv, AuthType, CachedTokens, OfScope
  <1> QED
    BY <1>4, <1>6, <1>8, <1>9, <1>10, OneGetMoves

(* A GET ends.                                                               *)
LEMMA PcStep ==
  ASSUME AuthInv, NEW g \in Gets, NEW p \in {"served", "failed"},
         gets' = [gets EXCEPT ![g].pc = p],
         UNCHANGED <<scope, issued, revoked, authByRepo, tokens>>
  PROVE  AuthInv'
  <1> DEFINE r == [gets[g] EXCEPT !.pc = p]
  <1>1. r \in GetRecords /\ gets' = [gets EXCEPT ![g] = r] /\ r.pc = p
    BY DEF AuthInv, AuthType, GetRecords
  <1>2. Carried(r, issued') /\ Excused(r, scope[RepoOf[g]], issued', revoked)
    BY <1>1 DEF Carried, Excused
  <1>3. AuthType' /\ CachedTokens'
    BY <1>1 DEF AuthInv, AuthType, CachedTokens, OfScope
  <1> QED
    BY <1>1, <1>2, <1>3, OneGetMoves

(* A GET is refused: it drops its token and remembers the challenge. Only a  *)
(* GET that was never refused may be surprised by that.                      *)
LEMMA RefusedStep ==
  ASSUME A!RegistrySound, AuthInv, NEW g \in Gets, gets[g].pc = "get",
         ~A!Authorized(RepoOf[g], gets[g].token), A!Get(g)
  PROVE  AuthInv'
  <1> DEFINE repo == RepoOf[g]
             s == scope[repo]
             n == gets[g].attempt + 1
             r == [gets[g] EXCEPT !.pc = "token", !.token = 0, !.challenge = s, !.attempt = n]
  <1>1. gets[g] \in GetRecords /\ gets[g].attempt \in Nat /\ n \in Nat /\ gets[g].hurt \in Nat
    BY DEF AuthInv, AuthType, GetRecords
  <1>2. repo \in Repositories /\ s \in MaybeScope /\ s \in Scopes
    BY DEF AuthInv, AuthType, A!RegistrySound, Repositories, A!Authorized, MaybeScope
  <1>3. /\ tokens' = A!InvalidateToken(g) /\ authByRepo' = [authByRepo EXCEPT ![repo] = s]
        /\ gets' = [gets EXCEPT ![g].pc = "token", ![g].token = 0, ![g].challenge = s, ![g].attempt = n]
        /\ UNCHANGED <<scope, issued, revoked>>
    BY DEF A!Get, A!registry
  <1>4. tokens' \in [Scopes -> [value : Nat, live : BOOLEAN]]
        /\ \A x \in Scopes : tokens'[x] = tokens[x] \/ ~tokens'[x].live
    <2>1. CASE gets[g].token = 0
      BY <1>3, <2>1 DEF A!InvalidateToken, AuthInv, AuthType
    <2>2. CASE gets[g].token # 0
      <3>1. tokens' = [tokens EXCEPT ![gets[g].challenge] = A!NoToken]
        BY <1>3, <2>2 DEF A!InvalidateToken
      <3>2. A!NoToken \in [value : Nat, live : BOOLEAN] /\ ~A!NoToken.live
        BY DEF A!NoToken
      <3> QED
        BY <3>1, <3>2 DEF AuthInv, AuthType
    <2> QED
      BY <2>1, <2>2
  <1> HIDE DEF n, s
  <1>5. gets' = [gets EXCEPT ![g] = r] /\ r \in GetRecords
    BY <1>1, <1>2, <1>3 DEF AuthInv, AuthType, GetRecords
  <1>6. r.pc = "token" /\ r.token = 0 /\ r.challenge = s /\ r.attempt = n /\ r.hurt = gets[g].hurt
    BY <1>1 DEF GetRecords
  <1>7. Carried(r, issued')
    BY <1>2, <1>6 DEF Carried
  <1>8. r.hurt + 1 >= r.attempt
    <2>1. gets[g].attempt = 0 \/ gets[g].hurt >= gets[g].attempt
      BY <1>1 DEF AuthInv, Excused, Good, OfScope, A!Authorized
    <2> QED
      BY <1>1, <1>6, <2>1 DEF n
  <1>9. Excused(r, scope[RepoOf[g]], issued', revoked)
    BY <1>3, <1>6, <1>8 DEF Excused, s
  <1>10. AuthType'
    BY <1>2, <1>3, <1>4, <1>5 DEF AuthInv, AuthType
  <1>11. CachedTokens'
    BY <1>3, <1>4 DEF AuthInv, CachedTokens, OfScope
  <1> QED
    BY <1>3, <1>5, <1>7, <1>9, <1>10, <1>11, OneGetMoves

(* The token service answers with a new token of the scope that was asked    *)
(* for.                                                                      *)
LEMMA RequestStep ==
  ASSUME A!RegistrySound, AuthInv, NEW g \in Gets, A!RequestToken(g)
  PROVE  AuthInv'
  <1> DEFINE t == A!Answered(g)
             r == [gets[g] EXCEPT !.pc = "store", !.token = t]
  <1>1. PICK n \in Nat : issued \in [1..n -> Scopes]
    BY DEF AuthInv, AuthType
  <1>2. t = n + 1 /\ t \in Nat /\ t # 0 /\ t \notin DOMAIN issued
    <2>1. Cardinality(1..n) = n
      BY FS_Interval
    <2>2. DOMAIN issued = 1..n
      BY <1>1
    <2> A!Cardinality(1..n) = Cardinality(1..n)
      BY Zenon DEF A!Cardinality, Cardinality, A!IsFiniteSet, IsFiniteSet
    <2>3. t = n + 1
      BY <2>1, <2>2 DEF A!Answered
    <2> QED
      BY <2>2, <2>3
  <1>3. /\ gets[g] \in GetRecords /\ gets[g].pc = "token" /\ gets[g].challenge \in Scopes
        /\ Excused(gets[g], scope[RepoOf[g]], issued, revoked)
    BY DEF AuthInv, AuthType, A!RequestToken, Carried
  <1>4. /\ issued' = [u \in DOMAIN issued \cup {t} |-> IF u = t THEN gets[g].challenge ELSE issued[u]]
        /\ gets' = [gets EXCEPT ![g].pc = "store", ![g].token = t]
        /\ UNCHANGED <<scope, revoked, authByRepo, tokens>>
    BY DEF A!RequestToken
  <1> HIDE DEF t
  <1>5. /\ issued' \in [1..(n + 1) -> Scopes]
        /\ t \in DOMAIN issued' /\ issued'[t] = gets[g].challenge
        /\ \A u \in DOMAIN issued : u \in DOMAIN issued' /\ issued'[u] = issued[u]
    <2>1. 1..(n + 1) = (1..n) \cup {n + 1}
      OBVIOUS
    <2> QED
      BY <1>1, <1>2, <1>3, <1>4, <2>1
  <1>6. gets' = [gets EXCEPT ![g] = r] /\ r \in GetRecords
    BY <1>2, <1>3, <1>4 DEF AuthInv, AuthType, GetRecords
  <1>7. /\ r.pc = "store" /\ r.token = t /\ r.challenge = gets[g].challenge
        /\ r.attempt = gets[g].attempt /\ r.hurt = gets[g].hurt
    BY <1>3 DEF GetRecords
  <1>8. Carried(r, issued')
    BY <1>2, <1>3, <1>5, <1>7 DEF Carried, OfScope
  <1>9. t \notin revoked
    BY <1>2 DEF AuthInv, AuthType
  <1>10. Excused(r, scope[RepoOf[g]], issued', revoked)
    BY <1>3, <1>4, <1>7, <1>9 DEF Excused
  <1>11. AuthType'
    <2>1. \E m \in Nat : issued' \in [1..m -> Scopes]
      BY <1>5
    <2>2. revoked' \subseteq DOMAIN issued'
      BY <1>4, <1>5 DEF AuthInv, AuthType
    <2> QED
      BY <1>4, <1>6, <2>1, <2>2 DEF AuthInv, AuthType
  <1>12. CachedTokens'
    BY <1>4, <1>5 DEF AuthInv, CachedTokens, OfScope
  <1> QED
    BY <1>4, <1>5, <1>6, <1>8, <1>10, <1>11, <1>12, OneGetMoves

(* The token is cached under the challenge it answers, and the GET is tried  *)
(* again or gives up.                                                        *)
LEMMA StoreTokenStep ==
  ASSUME A!RegistrySound, AuthInv, NEW g \in Gets, A!StoreToken(g)
  PROVE  AuthInv'
  <1> DEFINE p == IF A!AttemptsLeft(gets[g].attempt) THEN "get" ELSE "rejected"
             r == [gets[g] EXCEPT !.pc = p]
  <1>1. /\ gets[g] \in GetRecords /\ gets[g].pc = "store" /\ gets[g].challenge \in Scopes
        /\ gets[g].token \in Nat /\ gets[g].attempt \in Nat /\ gets[g].hurt \in Nat
        /\ OfScope(gets[g].token, gets[g].challenge, issued)
        /\ Excused(gets[g], scope[RepoOf[g]], issued, revoked)
    BY DEF AuthInv, AuthType, A!StoreToken, Carried, GetRecords
  <1>2. /\ tokens' = [tokens EXCEPT ![gets[g].challenge] = [value |-> gets[g].token, live |-> TRUE]]
        /\ gets' = [gets EXCEPT ![g].pc = p] /\ UNCHANGED <<scope, issued, revoked, authByRepo>>
    BY DEF A!StoreToken, A!KeyOf
  <1>3. p \in {"get", "rejected"} /\ (p = "rejected" => gets[g].hurt >= 2)
    <2>1. gets[g].hurt + 1 >= gets[g].attempt
      BY <1>1 DEF Excused
    <2>2. p = "rejected" => gets[g].attempt >= 3
      BY <1>1 DEF A!AttemptsLeft, A!RegistrySound
    <2> HIDE DEF p
    <2> QED
      BY <1>1, <2>1, <2>2 DEF p
  <1> HIDE DEF p
  <1>4. gets' = [gets EXCEPT ![g] = r] /\ r \in GetRecords
    BY <1>1, <1>2, <1>3 DEF AuthInv, AuthType, GetRecords
  <1>5. /\ r.pc = p /\ r.token = gets[g].token /\ r.challenge = gets[g].challenge
        /\ r.attempt = gets[g].attempt /\ r.hurt = gets[g].hurt
    BY <1>1 DEF GetRecords
  <1>6. Carried(r, issued')
    BY <1>1, <1>2, <1>3, <1>5 DEF Carried
  <1>7. Excused(r, scope[RepoOf[g]], issued', revoked)
    BY <1>1, <1>2, <1>3, <1>5 DEF Excused, Good, OfScope
  <1>8. AuthType'
    BY <1>1, <1>2, <1>4 DEF AuthInv, AuthType
  <1>9. CachedTokens'
    BY <1>1, <1>2 DEF AuthInv, AuthType, CachedTokens, OfScope
  <1> QED
    BY <1>2, <1>4, <1>6, <1>7, <1>8, <1>9, OneGetMoves

(* The registry takes a token back or moves a repository, which hurts the    *)
(* calls concerned.                                                          *)
LEMMA HurtStep ==
  ASSUME A!RegistrySound, AuthInv, NEW ds, A!Hurt(ds), UNCHANGED <<issued, authByRepo, tokens>>,
         scope' \in [Repositories -> MaybeScope], revoked' \subseteq DOMAIN issued,
         \A g \in Gets : \/ g \in ds
                          \/ /\ scope'[RepoOf[g]] = scope[RepoOf[g]]
                             /\ gets[g].token \in revoked' => gets[g].token \in revoked
  PROVE  AuthInv'
  <1> DEFINE h(g) == gets[g].hurt + 1
             r(g) == [gets[g] EXCEPT !.hurt = h(g)]
  <1>1. ASSUME NEW g \in Gets
        PROVE  /\ gets[g] \in GetRecords /\ gets[g].hurt \in Nat /\ gets[g].attempt \in Nat
               /\ h(g) \in Nat
               /\ Carried(gets[g], issued) /\ Excused(gets[g], scope[RepoOf[g]], issued, revoked)
    BY DEF AuthInv, AuthType, GetRecords
  <1>2. ASSUME NEW g \in Gets
        PROVE  /\ r(g) \in GetRecords /\ r(g).hurt = h(g) /\ r(g).pc = gets[g].pc
               /\ r(g).token = gets[g].token /\ r(g).challenge = gets[g].challenge
               /\ r(g).attempt = gets[g].attempt
    BY <1>1 DEF GetRecords
  <1>3. gets' = [g \in Gets |-> IF g \in ds \cap A!Running THEN r(g) ELSE gets[g]]
    BY DEF A!Hurt
  <1> HIDE DEF r
  <1>4. AuthType'
    <2>1. gets' \in [Gets -> GetRecords]
      BY <1>1, <1>2, <1>3
    <2> QED
      BY <2>1 DEF AuthInv, AuthType
  <1>5. CachedTokens'
    BY DEF AuthInv, CachedTokens, OfScope
  <1>6. ASSUME NEW g \in Gets
        PROVE  /\ Carried(gets'[g], issued')
               /\ Excused(gets'[g], scope'[RepoOf[g]], issued', revoked')
    <2>1. CASE g \in ds \cap A!Running
      <3>1. gets'[g] = r(g)
        BY <1>3, <2>1
      <3>2. Carried(r(g), issued')
        BY <1>1, <1>2 DEF Carried
      <3>3. gets[g].pc \in {"get", "token", "store"} /\ h(g) >= gets[g].attempt
        BY <1>1, <2>1 DEF A!Running, Excused
      <3>4. /\ r(g).pc \in {"get", "token", "store"} /\ r(g).hurt \in Nat /\ r(g).attempt \in Nat
            /\ r(g).hurt >= r(g).attempt
        BY <1>1, <1>2, <3>3
      <3>5. r(g).hurt + 1 >= r(g).attempt /\ ~(r(g).hurt < r(g).attempt)
        BY <3>4
      <3>6. Excused(r(g), scope'[RepoOf[g]], issued', revoked')
        BY <3>4, <3>5 DEF Excused
      <3> QED
        BY <3>1, <3>2, <3>6
    <2>2. CASE g \notin A!Running
      <3>1. gets'[g] = gets[g] /\ gets[g].pc \notin {"get", "token", "store"}
        BY <1>3, <2>2 DEF A!Running
      <3> QED
        BY <1>1, <3>1 DEF Carried, Excused
    <2>3. CASE g \notin ds
      <3>1. gets'[g] = gets[g] /\ scope'[RepoOf[g]] = scope[RepoOf[g]]
            /\ (gets[g].token \in revoked' => gets[g].token \in revoked)
        BY <1>3, <2>3
      <3> QED
        BY <1>1, <3>1 DEF Carried, Excused, Good
    <2> QED
      BY <2>1, <2>2, <2>3
  <1> QED
    BY <1>4, <1>5, <1>6 DEF AuthInv

(* Every step keeps the invariant.                                           *)
LEMMA AuthStep ==
  ASSUME A!RegistrySound, AuthInv, [A!Next]_A!vars
  PROVE  AuthInv'
  <1>1. CASE UNCHANGED A!vars
    BY <1>1 DEF A!vars, AuthInv, AuthType, CachedTokens
  <1>2. ASSUME NEW g \in Gets, A!Get(g) PROVE AuthInv'
    <2>1. CASE A!Authorized(RepoOf[g], gets[g].token)
      <3>1. /\ gets' = [gets EXCEPT ![g].pc = "served"]
            /\ UNCHANGED <<scope, issued, revoked, authByRepo, tokens>>
        BY <1>2, <2>1 DEF A!Get, A!registry
      <3> QED
        BY <3>1, PcStep
    <2>2. CASE ~A!Authorized(RepoOf[g], gets[g].token)
      BY <1>2, <2>2, RefusedStep DEF A!Get
    <2> QED
      BY <2>1, <2>2
  <1>3. ASSUME NEW g \in Gets, A!RequestFails(g) PROVE AuthInv'
    BY <1>3, PcStep DEF A!RequestFails
  <1>4. ASSUME NEW t \in DOMAIN issued, A!Revoke(t) PROVE AuthInv'
    <2> DEFINE ds == {g \in Gets : gets[g].token = t}
    <2>1. /\ A!Hurt(ds) /\ UNCHANGED <<scope, issued, authByRepo, tokens>>
          /\ revoked' = revoked \cup {t}
      BY <1>4 DEF A!Revoke
    <2>2. revoked' \subseteq DOMAIN issued /\ scope' \in [Repositories -> MaybeScope]
      BY <1>4, <2>1 DEF AuthInv, AuthType
    <2>3. \A g \in Gets : g \in ds \/ (gets[g].token \in revoked' => gets[g].token \in revoked)
      BY <2>1
    <2> HIDE DEF ds
    <2> QED
      BY <2>1, <2>2, <2>3, HurtStep
  <1>5. ASSUME NEW m \in Moves, A!Move(m[1], m[2]) PROVE AuthInv'
    <2> DEFINE ds == {g \in Gets : RepoOf[g] = m[1]}
    <2>1. /\ A!Hurt(ds) /\ UNCHANGED <<issued, revoked, authByRepo, tokens>>
          /\ scope' = [scope EXCEPT ![m[1]] = m[2]]
      BY <1>5 DEF A!Move
    <2>2. m[1] \in Repositories /\ m[2] \in MaybeScope
      BY <1>5 DEF A!RegistrySound, Repositories, MaybeScope
    <2>3. revoked' \subseteq DOMAIN issued /\ scope' \in [Repositories -> MaybeScope]
      BY <2>1, <2>2 DEF AuthInv, AuthType
    <2>4. \A g \in Gets : g \in ds \/ scope'[RepoOf[g]] = scope[RepoOf[g]]
      BY <2>1 DEF AuthInv, AuthType, A!RegistrySound, Repositories
    <2> HIDE DEF ds
    <2> QED
      BY <2>1, <2>3, <2>4, HurtStep
  <1>6. ASSUME NEW s \in Scopes, A!Expire(s) PROVE AuthInv'
    <2>1. /\ UNCHANGED <<scope, issued, revoked, authByRepo, gets>>
          /\ tokens' = [tokens EXCEPT ![s].live = FALSE]
      BY <1>6 DEF A!Expire
    <2>2. tokens' = [tokens EXCEPT ![s] = [tokens[s] EXCEPT !.live = FALSE]]
      BY <2>1
    <2>3. /\ tokens[s] \in [value : Nat, live : BOOLEAN]
          /\ [tokens[s] EXCEPT !.live = FALSE] \in [value : Nat, live : BOOLEAN]
          /\ ~[tokens[s] EXCEPT !.live = FALSE].live
      BY DEF AuthInv, AuthType
    <2>4. tokens' \in [Scopes -> [value : Nat, live : BOOLEAN]]
          /\ \A x \in Scopes : tokens'[x] = tokens[x] \/ ~tokens'[x].live
      BY <2>2, <2>3 DEF AuthInv, AuthType
    <2>5. AuthType' /\ CachedTokens'
      BY <2>1, <2>4 DEF AuthInv, AuthType, CachedTokens
    <2> QED
      BY <2>1, <2>5 DEF AuthInv
  <1> QED
    BY <1>1, <1>2, <1>3, <1>4, <1>5, <1>6, StartStep, RequestStep, StoreTokenStep
    DEF A!Next, A!Work

(* Concurrent requests that share the registry client's challenges and      *)
(* tokens send a token only where it was issued for, and fail only when the *)
(* registry refused a fresh one.                                            *)
TokensShared == A!TokensShared

(* doRegistryGET never sends a token of another scope than the challenge it  *)
(* answers, and gives up only when the registry turned on it twice while it  *)
(* ran: for any number of concurrent calls over any repositories and scopes, *)
(* whatever they do to the shared cache.                                     *)
THEOREM TokensStayShared ==
  ASSUME A!RegistrySound
  PROVE  A!Spec => []TokensShared
  <1>1. AuthInv => TokensShared
    BY DEF AuthInv, Carried, OfScope, Excused, TokensShared, A!TokensShared, A!TokensInScope,
       A!RejectedOnlyIfRefused
  <1>2. A!Init => AuthInv
    BY AuthInit
  <1>3. AuthInv /\ [A!Next]_A!vars => AuthInv'
    BY AuthStep
  <1> QED
    BY <1>1, <1>2, <1>3, PTL DEF A!Spec

-----------------------------------------------------------------------------
(* The OCI chain of a bottle. *)
D == INSTANCE DescriptorChain
       WITH Kinds <- BottleKinds, stage <- ingest, provenance <- proof, faults <- failures

(* The index is one that was pushed under the tag, and the child one of its  *)
(* own.                                                                      *)
ChainHangs ==
  /\ index \in pushed
  /\ \E i \in DOMAIN index.children : index.children[i] = child
  /\ D!LabelsOK(index.labels)

(* The inductive invariant behind IngestedIsHonest: what has been checked of *)
(* the chain at every stage, whatever is pushed meanwhile.                   *)
ChainInv ==
  /\ tag \in pushed
  /\ ingest \in {"manifest", "config", "layer", "evidence", "done"} => ChainHangs
  /\ ingest \in {"config", "layer", "evidence", "done"} => D!ManifestOK(child.manifest)
  /\ ingest \in {"layer", "evidence", "done"} => D!ConfigOK(child.manifest.config)
  /\ ingest \in {"evidence", "done"} => D!SourceOK(Bottles[D!Layer])
  /\ D!EvidenceIsHonest

(* Nothing read yet.                                                         *)
LEMMA ChainInit == D!Init => ChainInv
  BY DEF D!Init, ChainInv, D!EvidenceIsHonest

(* What is held and what was asked for stay: so does every check made of     *)
(* them.                                                                     *)
LEMMA ChecksStay ==
  ASSUME UNCHANGED <<kind, files, commit, index, child>>, pushed \subseteq pushed'
  PROVE  /\ ChainHangs => ChainHangs'
         /\ D!ManifestOK(child.manifest) => D!ManifestOK(child.manifest)'
         /\ D!ConfigOK(child.manifest.config) => D!ConfigOK(child.manifest.config)'
         /\ D!SourceOK(Bottles[D!Layer]) => D!SourceOK(Bottles[D!Layer])'
  <1>1. ChainHangs => ChainHangs'
    BY DEF ChainHangs, D!LabelsOK
  <1>2. D!ManifestOK(child.manifest) => D!ManifestOK(child.manifest)'
    BY DEF D!ManifestOK, D!LabelsOK, D!LayersOK, D!SelectedTag
  <1>3. D!ConfigOK(child.manifest.config) => D!ConfigOK(child.manifest.config)'
    BY DEF D!ConfigOK, D!All, D!SelectedTag
  <1>4. D!SourceOK(Bottles[D!Layer]) => D!SourceOK(Bottles[D!Layer])'
    BY DEF D!SourceOK, D!Layer
  <1> QED
    BY <1>1, <1>2, <1>3, <1>4

(* A refusal.                                                                *)
LEMMA FailsKeeps ==
  ASSUME ChainInv, D!Fails, UNCHANGED D!registry
  PROVE  ChainInv'
  BY DEF ChainInv, D!Fails, D!EvidenceIsHonest, D!registry

(* An ingestion concludes with evidence that was verified, or with a waiver  *)
(* where none was announced.                                                 *)
LEMMA ConcludesKeeps ==
  ASSUME ChainInv, ingest = "evidence", UNCHANGED <<D!request, D!registry>>,
         NEW e, D!Concludes(e),
         IF e.waived
           THEN /\ ~e.advertised
                /\ {index.bundle, child.bundle, child.manifest.bundle} = {None}
           ELSE D!BundleOK(e.bundle)
  PROVE  ChainInv'
  <1>1. CASE D!Fails
    BY <1>1, FailsKeeps
  <1>2. CASE ~D!Fails
    <2>1. proof' = e /\ ingest' = "done" /\ UNCHANGED <<commit, index, child>>
      BY <1>2 DEF D!Concludes
    <2>2. UNCHANGED <<kind, files, tag, pushed>>
      BY DEF D!request, D!registry
    <2>3. ChainHangs' /\ D!ManifestOK(child.manifest)' /\ D!ConfigOK(child.manifest.config)'
            /\ D!SourceOK(Bottles[D!Layer])'
      BY <2>1, <2>2, ChecksStay DEF ChainInv
    <2>4. D!EvidenceIsHonest'
      BY <2>1, <2>2 DEF D!EvidenceIsHonest, D!BundleOK, D!Layer
    <2> QED
      BY <2>1, <2>2, <2>3, <2>4 DEF ChainInv
  <1> QED
    BY <1>1, <1>2

(* The attestation of the bottle, taken from the referrers or waived.        *)
LEMMA EvidenceKeeps ==
  ASSUME ChainInv, D!Evidence
  PROVE  ChainInv'
  <1>1. ingest = "evidence" /\ UNCHANGED <<D!request, D!registry>> /\ UNCHANGED D!registry
    BY DEF D!Evidence
  <1>2. ASSUME D!Fails
        PROVE  ChainInv'
    BY <1>1, <1>2, FailsKeeps
  <1>3. ASSUME NEW b, D!BundleOK(b), D!Concludes(D!Verified(b))
        PROVE  ChainInv'
    <2>1. D!Verified(b).bundle = b /\ ~D!Verified(b).waived
      BY DEF D!Verified
    <2> QED
      BY <1>1, <1>3, <2>1, ConcludesKeeps
  <1>4. CASE D!Annotated # {} /\ D!FromAnnotation
    BY <1>2, <1>3, <1>4 DEF D!FromAnnotation
  <1>5. CASE D!Annotated = {} /\ D!FromReferrer
    <2> DEFINE candidates == {r \in referrers : r.artifactType = "bundle"}
               the == CHOOSE r \in candidates : TRUE
    <2>1. CASE candidates = {} /\ D!Concludes(D!Waived)
      <3>1. D!Waived.waived /\ ~D!Waived.advertised
        BY <2>1 DEF D!Waived
      <3>2. {index.bundle, child.bundle, child.manifest.bundle} = {None}
        BY <1>5 DEF D!Annotated
      <3> QED
        BY <1>1, <2>1, <3>1, <3>2, ConcludesKeeps
    <2>2. CASE D!BundleOK(the.bundle) /\ D!Concludes(D!Verified(the.bundle))
      BY <1>3, <2>2
    <2> QED
      BY <1>2, <1>5, <2>1, <2>2 DEF D!FromReferrer
  <1> QED
    BY <1>2, <1>4, <1>5 DEF D!Evidence, D!Refused

(* Every step keeps the invariant.                                           *)
LEMMA ChainStep == ChainInv /\ [D!Next]_D!vars => ChainInv'
  <1> SUFFICES ASSUME ChainInv, [D!Next]_D!vars
               PROVE  ChainInv'
    OBVIOUS
  <1>1. ASSUME D!Fails, UNCHANGED D!registry
        PROVE  ChainInv'
    BY <1>1, FailsKeeps
  <1>2. ASSUME UNCHANGED <<D!request, D!registry>>, UNCHANGED <<commit, index, child>>
        PROVE  /\ tag' \in pushed'
               /\ ChainHangs => ChainHangs'
               /\ D!ManifestOK(child.manifest) => D!ManifestOK(child.manifest)'
               /\ D!ConfigOK(child.manifest.config) => D!ConfigOK(child.manifest.config)'
               /\ D!SourceOK(Bottles[D!Layer]) => D!SourceOK(Bottles[D!Layer])'
    <2>1. UNCHANGED <<kind, files, tag, pushed>>
      BY <1>2 DEF D!request, D!registry
    <2> QED
      BY <1>2, <2>1, ChecksStay DEF ChainInv
  <1>3. CASE D!Discover
    <2>1. CASE D!Fails
      BY <1>1, <1>3, <2>1 DEF D!Discover
    <2>2. CASE ~D!Fails
      <3>1. ingest' = "index" /\ UNCHANGED D!registry
        BY <1>3, <2>2 DEF D!Discover, D!Refused
      <3> QED
        BY <3>1 DEF ChainInv, D!EvidenceIsHonest, D!registry
    <2> QED
      BY <2>1, <2>2
  <1>4. CASE D!FetchIndex
    <2>1. CASE D!Fails
      BY <1>1, <1>4, <2>1 DEF D!FetchIndex
    <2>2. CASE ~D!Fails
      <3>1. /\ D!IndexOK(tag) /\ index' = tag /\ ingest' = "manifest"
            /\ child' = tag.children[CHOOSE i \in D!Chosen(tag) : TRUE]
            /\ UNCHANGED <<commit, proof>> /\ UNCHANGED <<D!request, D!registry>>
        BY <1>4, <2>2 DEF D!FetchIndex, D!Refused
      <3>2. UNCHANGED <<kind, files, tag, pushed>>
        BY <3>1 DEF D!request, D!registry
      <3>3. PICK i \in DOMAIN tag.children : child' = tag.children[i]
        BY <3>1 DEF D!IndexOK, D!Chosen
      <3>4. D!LabelsOK(tag.labels)
        BY <3>1 DEF D!IndexOK
      <3>5. ChainHangs'
        BY <3>1, <3>2, <3>3, <3>4 DEF ChainHangs, ChainInv, D!LabelsOK
      <3> QED
        BY <3>1, <3>2, <3>5 DEF ChainInv, D!EvidenceIsHonest
    <2> QED
      BY <2>1, <2>2
  <1>5. CASE D!FetchManifest
    <2>1. CASE D!Fails
      BY <1>1, <1>5, <2>1 DEF D!FetchManifest
    <2>2. CASE ~D!Fails
      <3>1. /\ ingest = "manifest" /\ D!ManifestOK(child.manifest) /\ ingest' = "config"
            /\ UNCHANGED <<commit, index, child>> /\ UNCHANGED <<D!request, D!registry>>
        BY <1>5, <2>2 DEF D!FetchManifest, D!Refused, D!held
      <3> QED
        BY <1>2, <3>1 DEF ChainInv, D!EvidenceIsHonest
    <2> QED
      BY <2>1, <2>2
  <1>6. CASE D!FetchConfig
    <2>1. CASE D!Fails
      BY <1>1, <1>6, <2>1 DEF D!FetchConfig
    <2>2. CASE ~D!Fails
      <3>1. /\ ingest = "config" /\ D!ConfigOK(child.manifest.config) /\ ingest' = "layer"
            /\ UNCHANGED <<commit, index, child>> /\ UNCHANGED <<D!request, D!registry>>
        BY <1>6, <2>2 DEF D!FetchConfig, D!Refused, D!held
      <3> QED
        BY <1>2, <3>1 DEF ChainInv, D!EvidenceIsHonest
    <2> QED
      BY <2>1, <2>2
  <1>7. CASE D!FetchLayer
    <2>1. CASE D!Fails
      BY <1>1, <1>7, <2>1 DEF D!FetchLayer
    <2>2. CASE ~D!Fails
      <3>1. /\ ingest = "layer" /\ D!SourceOK(Bottles[D!Layer]) /\ ingest' = "evidence"
            /\ UNCHANGED <<commit, index, child>> /\ UNCHANGED <<D!request, D!registry>>
        BY <1>7, <2>2 DEF D!FetchLayer, D!Refused, D!held
      <3> QED
        BY <1>2, <3>1 DEF ChainInv, D!EvidenceIsHonest
    <2> QED
      BY <2>1, <2>2
  <1>8. CASE D!Push \/ D!Attach \/ UNCHANGED D!vars
    <2>1. /\ UNCHANGED <<kind, files, ingest, commit, index, child, proof>>
          /\ pushed \subseteq pushed' /\ tag' \in pushed'
      BY <1>8 DEF D!Push, D!Attach, D!vars, D!request, D!held, ChainInv
    <2>2. D!EvidenceIsHonest'
      BY <2>1 DEF ChainInv, D!EvidenceIsHonest, D!Layer
    <2> QED
      BY <2>1, <2>2, ChecksStay DEF ChainInv
  <1> QED
    BY <1>3, <1>4, <1>5, <1>6, <1>7, <1>8, EvidenceKeeps DEF D!Next

(* The invariant implies the property.                                       *)
LEMMA ChainIsHonest ==
  ASSUME D!TargetSound, ChainInv
  PROVE  D!IngestedIsHonest
  <1>1. D!SourceReproduces
    BY DEF ChainInv, D!SourceReproduces, D!SourceOK
  <1>2. D!IngestedIsOneBuild
    <2> SUFFICES ASSUME ingest = "done"
                 PROVE  D!IngestedIsOneBuild
      BY DEF D!IngestedIsOneBuild
    <2>1. ChainHangs /\ D!ManifestOK(child.manifest) /\ D!ConfigOK(child.manifest.config)
      BY DEF ChainInv
    <2>2. /\ Len(child.manifest.layers) = 1
          /\ child.manifest.layers[1].sum = files[D!SelectedTag]
          /\ D!LabelsOK(child.manifest.labels) /\ D!LabelsOK(index.labels)
      BY <2>1 DEF D!ManifestOK, D!LayersOK, ChainHangs
    <2>3. Target \in DOMAIN files => child.manifest.config.platform = Target
      BY <2>1 DEF D!ConfigOK, D!All, D!SelectedTag, D!TargetSound
    <2>4. kind = "tap" => index.labels.commit = commit /\ child.manifest.labels.commit = commit
      BY <2>2 DEF D!LabelsOK
    <2> QED
      BY <2>1, <2>2, <2>3, <2>4 DEF D!IngestedIsOneBuild, ChainHangs, D!SelectedTag
  <1> QED
    BY <1>1, <1>2 DEF ChainInv, D!IngestedIsHonest

(* An ingested bottle is one build from the index to the layer although     *)
(* tags move between the requests, of a source that can be fetched again,   *)
(* with evidence that is about it.                                          *)
IngestedIsHonest == D!IngestedIsHonest

(* For all indexes, catalogs and referrers: an ingested OCI bottle is one    *)
(* build of the formula asked for at the commit asked for, whatever is       *)
(* pushed to the tag between the requests; its source can be reproduced from *)
(* the commit it names; and its evidence says no more than was verified.     *)
THEOREM IngestsHonestly ==
  ASSUME D!TargetSound
  PROVE  D!Spec => []IngestedIsHonest
  <1>1. D!Init => ChainInv
    BY ChainInit
  <1>2. ChainInv /\ [D!Next]_D!vars => ChainInv'
    BY ChainStep
  <1>3. ChainInv => IngestedIsHonest
    BY ChainIsHonest DEF IngestedIsHonest
  <1> QED
    BY <1>1, <1>2, <1>3, PTL DEF D!Spec

-----------------------------------------------------------------------------
(* The HTTPS fetch of a bottle. *)
H == INSTANCE BottleFetch WITH Answers <- NameAnswers

(* The URLs there are.                                                       *)
Places == DOMAIN Responses
(* The stages in which requests are made.                                    *)
Calling == {"probe", "fetch", "sig probe", "sig fetch", "build"}
(* Where the request in hand began.                                          *)
Origin == IF stage \in {"sig probe", "sig fetch"} THEN Signature ELSE Bottle

(* The fields of the record of what happened.                                *)
PastKept ==
  past = [changes |-> past.changes, disturbed |-> past.disturbed, status |-> past.status,
          failed |-> past.failed]

FetchType ==
  /\ web = [u \in Places |-> web[u]]
  /\ \A u \in Places : web[u] \in Responses[u]
  /\ stage \in Calling \cup {"failed", "delivered"}
  /\ loop = [at |-> loop.at, visited |-> loop.visited, hosts |-> loop.hosts, step |-> loop.step]
  /\ loop.at \in Places
  /\ loop.hosts \in Seq(DOMAIN NameAnswers)
  /\ PastKept

(* The redirect loop: hosts are counted, and before the first one is visited *)
(* the place is the declared one.                                            *)
LoopStands ==
  /\ loop.step \in {"visit", "send", "over"}
  /\ loop.step # "over" => stage \in Calling
  /\ loop.step = "over" => stage \notin Calling
  /\ loop.step = "visit" => Len(loop.hosts) <= MaxRedirects
  /\ loop.step = "send" => Len(loop.hosts) \in 1..(MaxRedirects + 1)
  /\ loop.step # "over" /\ loop.hosts = <<>> => loop.at = Origin
  /\ loop.step # "over" /\ loop.hosts # <<>> => loop.hosts[1] = Origin.host

(* The request a probe made allows the host of the bottle, and the download  *)
(* has met allowed hosts only.                                               *)
HostsSigned ==
  /\ stage \in {"fetch", "sig probe", "sig fetch", "build", "delivered"} =>
       Bottle.host \in request.allow
  /\ stage = "sig fetch" => Signature.host \in sigRequest.allow
  /\ stage \in {"fetch", "build"} => \A i \in 1..Len(loop.hosts) : loop.hosts[i] \in request.allow

(* The inductive invariant behind FetchedIsDeclared.                         *)
FetchInv ==
  FetchType /\ LoopStands /\ HostsSigned /\ H!FetchedIsDeclared

USE DEF Places, Calling, H!Probing, H!Fetching

(* The declared URL, nothing asked yet.                                      *)
LEMMA FetchInit ==
  ASSUME H!WebSound, H!Init
  PROVE  FetchInv
  <1> USE DEF H!Init, H!Enter, Origin
  <1>1. FetchType
    BY DEF FetchType, H!WebSound, PastKept
  <1>2. LoopStands
    BY DEF LoopStands, H!WebSound
  <1>3. HostsSigned
    BY DEF HostsSigned
  <1>4. H!FetchedIsDeclared
    BY DEF H!FetchedIsDeclared, H!DialsArePublic, H!DeliveredIsDeclared, H!EvidenceAccepted,
       H!WaivedMeansAbsent
  <1> QED
    BY <1>1, <1>2, <1>3, <1>4 DEF FetchInv

(* A refusal.                                                                *)
LEMMA FailKeeps ==
  ASSUME FetchInv, NEW d, H!Fail(d), stage \in Calling, dialed' \subseteq Public
  PROVE  FetchInv'
  <1> USE DEF H!Fail
  <1>1. FetchType'
    BY DEF FetchInv, FetchType, PastKept
  <1>2. LoopStands'
    BY DEF FetchInv, FetchType, PastKept, LoopStands, Origin
  <1>3. HostsSigned'
    BY DEF HostsSigned
  <1>4. H!FetchedIsDeclared'
    BY DEF FetchInv, FetchType, PastKept, H!FetchedIsDeclared, H!DialsArePublic,
       H!DeliveredIsDeclared, H!EvidenceAccepted, H!WaivedMeansAbsent
  <1> QED
    BY <1>1, <1>2, <1>3, <1>4 DEF FetchInv

(* A place is checked and dialled, or refused.                               *)
LEMMA VisitKeeps ==
  ASSUME H!WebSound, FetchInv, H!Visit
  PROVE  FetchInv'
  <1>1. loop.step = "visit" /\ stage \in Calling /\ dialed' \subseteq Public
    BY DEF FetchInv, LoopStands, H!Visit, H!FetchedIsDeclared, H!DialsArePublic
  <1>2. CASE H!Fail(FALSE)
    BY <1>1, <1>2, FailKeeps
  <1>3. CASE H!Fail(TRUE)
    BY <1>1, <1>3, FailKeeps
  <1>4. ASSUME H!Admitted(loop.at, loop.hosts # <<>>),
               loop' = [loop EXCEPT !.visited = @ \cup {loop.at},
                                    !.hosts = Append(@, loop.at.host),
                                    !.step = "send"],
               UNCHANGED <<web, stage, request, sigRequest, result, provenance, past, dialed>>
        PROVE  FetchInv'
    <2>1. /\ loop.at.host \in DOMAIN NameAnswers /\ loop.hosts \in Seq(DOMAIN NameAnswers)
          /\ MaxRedirects \in Nat
      BY DEF FetchInv, FetchType, H!WebSound
    <2>2. loop' = [at |-> loop.at, visited |-> loop.visited \cup {loop.at},
                   hosts |-> Append(loop.hosts, loop.at.host), step |-> "send"]
      BY <1>4 DEF FetchInv, FetchType
    <2>3. /\ loop'.hosts = Append(loop.hosts, loop.at.host) /\ loop'.hosts \in Seq(DOMAIN NameAnswers)
          /\ Len(loop'.hosts) = Len(loop.hosts) + 1 /\ loop'.hosts # <<>>
          /\ Len(loop.hosts) \in Nat
          /\ \A i \in 1..Len(loop.hosts) : loop'.hosts[i] = loop.hosts[i]
          /\ loop'.hosts[Len(loop.hosts) + 1] = loop.at.host
      BY <2>1, <2>2
    <2>4. FetchType'
      BY <1>4, <2>2, <2>3 DEF FetchInv, FetchType, PastKept
    <2>5. loop'.hosts[1] = Origin.host
      <3>1. CASE loop.hosts = <<>>
        <4>1. Len(loop.hosts) + 1 = 1
          BY <3>1
        <4> QED
          BY <1>1, <3>1, <4>1, <2>3 DEF FetchInv, LoopStands
      <3>2. CASE loop.hosts # <<>>
        <4>1. 1 \in 1..Len(loop.hosts)
          BY <3>2, <2>1
        <4> QED
          BY <1>1, <3>2, <4>1, <2>3 DEF FetchInv, LoopStands
      <3> QED
        BY <3>1, <3>2
    <2>6. Len(loop'.hosts) \in 1..(MaxRedirects + 1)
      <3>1. Len(loop.hosts) <= MaxRedirects
        BY <1>1 DEF FetchInv, LoopStands
      <3> QED
        BY <3>1, <2>1, <2>3
    <2>7. LoopStands'
      <3>1. loop'.step = "send" /\ stage' = stage /\ Origin' = Origin
        BY <1>4, <2>2 DEF Origin
      <3> QED
        BY <1>1, <3>1, <2>3, <2>5, <2>6 DEF LoopStands
    <2>8. ASSUME stage \in {"fetch", "build"}
          PROVE  \A i \in 1..Len(loop'.hosts) : loop'.hosts[i] \in request.allow
      <3>1. loop.at.host \in request.allow
        BY <1>1, <1>4, <2>8 DEF H!Admitted, H!Current, FetchInv, HostsSigned, LoopStands, Origin
      <3>2. \A i \in 1..Len(loop.hosts) : loop.hosts[i] \in request.allow
        BY <2>8 DEF FetchInv, HostsSigned
      <3> QED
        BY <2>3, <3>1, <3>2
    <2>9. HostsSigned'
      BY <1>4, <2>8 DEF FetchInv, HostsSigned
    <2>10. H!FetchedIsDeclared'
      BY <1>4
      DEF FetchInv, H!FetchedIsDeclared, H!DialsArePublic, H!DeliveredIsDeclared,
          H!EvidenceAccepted, H!WaivedMeansAbsent
    <2> QED
      BY <2>4, <2>7, <2>9, <2>10 DEF FetchInv
  <1> QED
    BY <1>2, <1>3, <1>4 DEF H!Visit

(* The hosts of a walk begin with that of the declared URL, and they are the *)
(* hosts a probe goes on to allow.                                           *)
LEMMA HostsMet ==
  ASSUME H!WebSound, FetchInv, loop.step = "send"
  PROVE  /\ Len(loop.hosts) \in 1..(MaxRedirects + 1)
         /\ loop.hosts[1] = Origin.host
         /\ H!AllowedAfter(loop.hosts) = {loop.hosts[i] : i \in 1..Len(loop.hosts)}
         /\ Origin.host \in H!AllowedAfter(loop.hosts)
  <1>1. /\ loop.hosts \in Seq(DOMAIN NameAnswers) /\ Len(loop.hosts) \in 1..(MaxRedirects + 1)
        /\ MaxRedirects \in Nat
    BY DEF FetchInv, FetchType, LoopStands, H!WebSound
  <1>2. loop.hosts # <<>> /\ 1 \in 1..Len(loop.hosts)
    BY <1>1
  <1>3. loop.hosts[1] = Origin.host
    BY <1>2 DEF FetchInv, LoopStands
  <1>4. H!AllowedAfter(loop.hosts) = {loop.hosts[i] : i \in 1..Len(loop.hosts)}
    BY <1>1 DEF H!AllowedAfter, H!Range
  <1> QED
    BY <1>1, <1>2, <1>3, <1>4

(* An empty list is a list of hosts.                                         *)
LEMMA NoHosts ==
  ASSUME MaxRedirects \in Nat
  PROVE  <<>> \in Seq(DOMAIN NameAnswers) /\ Len(<<>>) <= MaxRedirects /\ 1..Len(<<>>) = {}
  OBVIOUS

(* A stage begins at its declared URL with an empty walk.                    *)
LEMMA StepKeeps ==
  ASSUME H!WebSound, FetchInv, NEW next \in {"fetch", "sig probe", "sig fetch", "build"}, NEW url,
         url = (IF next \in {"sig probe", "sig fetch"} THEN Signature ELSE Bottle),
         H!Step(next, url), UNCHANGED web, PastKept'
  PROVE  FetchType' /\ LoopStands' /\ 1..Len(loop'.hosts) = {} /\ stage' = next
  <1>1. loop' = [at |-> url, visited |-> {}, hosts |-> <<>>, step |-> "visit"] /\ stage' = next
    BY DEF H!Step, H!Enter
  <1>6. /\ url \in Places /\ MaxRedirects \in Nat /\ <<>> \in Seq(DOMAIN NameAnswers)
        /\ Len(<<>>) <= MaxRedirects
    <2>1. url \in Places /\ MaxRedirects \in Nat
      BY DEF H!WebSound
    <2> QED
      BY <2>1, NoHosts
  <1>7. /\ loop' = [at |-> loop'.at, visited |-> loop'.visited, hosts |-> loop'.hosts, step |-> loop'.step]
        /\ loop'.at = url /\ loop'.hosts = <<>> /\ loop'.step = "visit"
    BY <1>1
  <1>4. FetchType'
    <2>1. stage' \in Calling
      BY <1>1
    <2>2. /\ web' = [u \in Places |-> web'[u]]
          /\ \A u \in Places : web'[u] \in Responses[u]
      BY DEF FetchInv, FetchType
    <2> QED
      BY <1>6, <1>7, <2>1, <2>2 DEF FetchType
  <1>5. LoopStands'
    BY <1>1, <1>6, <1>7 DEF LoopStands, Origin
  <1> QED
    BY <1>1, <1>4, <1>5, <1>6, <1>7, NoHosts

(* The response of a place: a redirect, an answer or a failure.              *)
LEMMA SendKeeps ==
  ASSUME H!WebSound, FetchInv, loop.step = "send", dialed' \subseteq Public,
         H!Answered(web[loop.at])
  PROVE  FetchInv'
  <1> DEFINE r == web[loop.at]
  <1> HIDE DEF r
  <1>1. stage \in Calling /\ r \in Responses[loop.at] /\ loop.at \in Places
    BY DEF FetchInv, FetchType, LoopStands, r
  <1>2. ASSUME NEW d, H!Fail(d)
        PROVE  FetchInv'
    BY <1>1, <1>2, FailKeeps
  <1>3. ASSUME H!Redirected(r)
        PROVE  FetchInv'
    <2>1. CASE H!Fail(FALSE)
      BY <1>2, <2>1
    <2>2. CASE ~H!Fail(FALSE)
      <3>1. /\ ~H!RedirectLimitReached /\ r.to.form # "none" /\ H!TargetOK(r.to)
            /\ loop' = [loop EXCEPT !.at = r.to, !.step = "visit"]
            /\ UNCHANGED <<web, stage, request, sigRequest, result, provenance, past>>
        BY <1>3, <2>2 DEF H!Redirected
      <3>2. r.to \in Places
        BY <1>1, <3>1 DEF H!TargetOK, H!EndpointOK, H!WebSound
      <3>3. loop' = [at |-> r.to, visited |-> loop.visited, hosts |-> loop.hosts, step |-> "visit"]
        BY <3>1 DEF FetchInv, FetchType
      <3>4. FetchType'
        BY <3>1, <3>2, <3>3 DEF FetchInv, FetchType, PastKept
      <3>5. Len(loop.hosts) <= MaxRedirects /\ loop.hosts # <<>> /\ loop.hosts[1] = Origin.host
        <4>1. Len(loop.hosts) \in 1..(MaxRedirects + 1) /\ loop.hosts[1] = Origin.host
          BY HostsMet
        <4>2. MaxRedirects \in Nat
          BY DEF H!WebSound
        <4> QED
          BY <3>1, <4>1, <4>2 DEF H!RedirectLimitReached
      <3>6. Origin' = Origin
        BY <3>1 DEF Origin
      <3>7. LoopStands'
        BY <1>1, <3>1, <3>3, <3>5, <3>6 DEF LoopStands
      <3>8. HostsSigned'
        BY <3>1, <3>3 DEF FetchInv, HostsSigned
      <3>9. H!FetchedIsDeclared'
        BY <3>1
        DEF FetchInv, H!FetchedIsDeclared, H!DialsArePublic, H!DeliveredIsDeclared,
            H!EvidenceAccepted, H!WaivedMeansAbsent
      <3> QED
        BY <3>4, <3>7, <3>8, <3>9 DEF FetchInv
    <2> QED
      BY <2>1, <2>2
  <1>4. ASSUME stage = "probe", H!Probed(r)
        PROVE  FetchInv'
    <2>1. CASE H!Fail(FALSE)
      BY <1>2, <2>1
    <2>2. CASE ~H!Fail(FALSE)
      <3>0. /\ H!Step("fetch", Bottle)
            /\ request' = [size |-> r.length, allow |-> H!AllowedAfter(loop.hosts)]
            /\ UNCHANGED <<web, sigRequest, result, provenance, past>>
        BY <1>4, <2>2 DEF H!Probed
      <3>1. FetchType' /\ LoopStands' /\ 1..Len(loop'.hosts) = {} /\ stage' = "fetch"
        <4>1. PastKept'
          BY <3>0 DEF FetchInv, FetchType, PastKept
        <4> QED
          BY <3>0, <4>1, StepKeeps
      <3>2. Bottle.host \in request'.allow
        BY <1>4, <3>0, HostsMet DEF Origin
      <3>3. HostsSigned'
        BY <3>1, <3>2 DEF HostsSigned
      <3>4. H!FetchedIsDeclared'
        BY <1>4, <3>0, <3>1
        DEF FetchInv, H!FetchedIsDeclared, H!DialsArePublic, H!DeliveredIsDeclared,
            H!EvidenceAccepted, H!WaivedMeansAbsent
      <3> QED
        BY <3>1, <3>3, <3>4 DEF FetchInv
    <2> QED
      BY <2>1, <2>2
  <1>5. ASSUME stage = "sig probe", H!SignatureFound(r)
        PROVE  FetchInv'
    <2>1. CASE H!Fail(FALSE)
      BY <1>2, <2>1
    <2>2. CASE ~H!Fail(FALSE)
      <3>0. /\ H!Step("sig fetch", Signature)
            /\ sigRequest' = [size |-> r.length, allow |-> H!AllowedAfter(loop.hosts)]
            /\ UNCHANGED <<web, request, result, provenance, past>>
        BY <1>5, <2>2 DEF H!SignatureFound
      <3>1. FetchType' /\ LoopStands' /\ 1..Len(loop'.hosts) = {} /\ stage' = "sig fetch"
        <4>1. PastKept'
          BY <3>0 DEF FetchInv, FetchType, PastKept
        <4> QED
          BY <3>0, <4>1, StepKeeps
      <3>2. Signature.host \in sigRequest'.allow
        BY <1>5, <3>0, HostsMet DEF Origin
      <3>3. HostsSigned'
        BY <1>5, <3>0, <3>1, <3>2 DEF FetchInv, HostsSigned
      <3>4. H!FetchedIsDeclared'
        BY <1>5, <3>0, <3>1
        DEF FetchInv, H!FetchedIsDeclared, H!DialsArePublic, H!DeliveredIsDeclared,
            H!EvidenceAccepted, H!WaivedMeansAbsent
      <3> QED
        BY <3>1, <3>3, <3>4 DEF FetchInv
    <2> QED
      BY <2>1, <2>2
  <1>6. ASSUME stage = "sig probe", H!IsAbsence(r.status), H!SignatureAbsent(r.status)
        PROVE  FetchInv'
    <2>1. FetchType' /\ LoopStands' /\ 1..Len(loop'.hosts) = {} /\ stage' = "build"
      <3>1. H!Step("build", Bottle) /\ UNCHANGED web /\ PastKept'
        BY <1>6 DEF H!SignatureAbsent, FetchInv, FetchType, PastKept
      <3> QED
        BY <3>1, StepKeeps
    <2>2. past'.status \in {404, 410}
      BY <1>6 DEF H!SignatureAbsent, H!IsAbsence, FetchInv, FetchType, PastKept
    <2>5. UNCHANGED <<request, sigRequest, result>>
      BY <1>6 DEF H!SignatureAbsent
    <2>3. HostsSigned'
      BY <1>6, <2>1, <2>5 DEF FetchInv, HostsSigned
    <2>4. H!FetchedIsDeclared'
      BY <1>6, <2>1, <2>2
      DEF FetchInv, H!SignatureAbsent, H!FetchedIsDeclared, H!DialsArePublic,
          H!DeliveredIsDeclared, H!EvidenceAccepted, H!WaivedMeansAbsent
    <2> QED
      BY <2>1, <2>3, <2>4 DEF FetchInv
  <1>7. ASSUME H!Fetched(r), stage \in H!Fetching
        PROVE  FetchInv'
    <2> DEFINE e == [hosts |-> loop.hosts, size |-> Len(H!Body(r)), digest |-> H!Body(r)]
    <2> HIDE DEF e
    <2>0. CASE ~H!BodyOK(r, H!Current)
      BY <1>2, <1>7, <2>0 DEF H!Fetched
    <2>1. CASE H!BodyOK(r, H!Current) /\ stage = "fetch" /\ H!FetchedBottle(e)
      <3>1. CASE ~H!EvidenceOK(e, request)
        <4>1. /\ stage' = "failed" /\ loop' = [loop EXCEPT !.step = "over"]
              /\ past' = [past EXCEPT !.failed = stage]
              /\ UNCHANGED <<web, request, sigRequest, provenance>>
          BY <2>1, <3>1 DEF H!FetchedBottle
        <4>2. FetchType'
          BY <4>1 DEF FetchInv, FetchType, PastKept
        <4>3. LoopStands'
          BY <4>1 DEF FetchInv, FetchType, LoopStands
        <4>4. HostsSigned'
          BY <4>1 DEF HostsSigned
        <4>5. H!FetchedIsDeclared'
          BY <4>1
          DEF FetchInv, FetchType, PastKept, H!FetchedIsDeclared, H!DialsArePublic,
              H!DeliveredIsDeclared, H!EvidenceAccepted, H!WaivedMeansAbsent
        <4> QED
          BY <4>2, <4>3, <4>4, <4>5 DEF FetchInv
      <3>2. CASE H!EvidenceOK(e, request)
        <4>1. /\ H!Step("sig probe", Signature) /\ result' = e
              /\ UNCHANGED <<web, request, sigRequest, provenance, past>>
          BY <2>1, <3>2 DEF H!FetchedBottle
        <4>2. FetchType' /\ LoopStands' /\ stage' = "sig probe"
          <5>1. PastKept'
            BY <4>1 DEF FetchInv, FetchType, PastKept
          <5> QED
            BY <4>1, <5>1, StepKeeps
        <4>3. HostsSigned'
          BY <2>1, <4>1, <4>2 DEF FetchInv, HostsSigned
        <4>4. H!EvidenceAccepted'
          <5>1. /\ Len(loop.hosts) \in 1..(MaxRedirects + 1) /\ loop.hosts[1] = Bottle.host
                /\ H!AllowedAfter(loop.hosts) = {loop.hosts[i] : i \in 1..Len(loop.hosts)}
            BY <2>1, HostsMet DEF Origin
          <5>2. result'.hosts = loop.hosts /\ request' = request
            BY <4>1 DEF e
          <5>3. H!Range(loop.hosts) \subseteq request.allow
            BY <2>1, <5>1 DEF FetchInv, HostsSigned, H!AllowedAfter
          <5> QED
            BY <5>1, <5>2, <5>3 DEF H!EvidenceAccepted
        <4>5. H!FetchedIsDeclared'
          BY <4>1, <4>2, <4>4
          DEF FetchInv, H!FetchedIsDeclared, H!DialsArePublic, H!DeliveredIsDeclared,
              H!WaivedMeansAbsent
        <4> QED
          BY <4>2, <4>3, <4>5 DEF FetchInv
      <3> QED
        BY <3>1, <3>2
    <2>2. CASE H!BodyOK(r, H!Current) /\ stage = "sig fetch" /\ H!FetchedSignature(e)
      <3>1. CASE H!Fail(FALSE)
        BY <1>2, <3>1
      <3>2. CASE ~H!Fail(FALSE)
        <4>1. /\ H!Step("build", Bottle) /\ provenance' = "verified"
              /\ UNCHANGED <<web, request, sigRequest, result, past>>
          BY <2>2, <3>2 DEF H!FetchedSignature
        <4>2. FetchType' /\ LoopStands' /\ stage' = "build" /\ 1..Len(loop'.hosts) = {}
          <5>1. PastKept'
            BY <4>1 DEF FetchInv, FetchType, PastKept
          <5> QED
            BY <4>1, <5>1, StepKeeps
        <4>3. HostsSigned'
          BY <2>2, <4>1, <4>2 DEF FetchInv, HostsSigned
        <4>4. H!FetchedIsDeclared'
          BY <2>2, <4>1, <4>2
          DEF FetchInv, H!FetchedIsDeclared, H!DialsArePublic, H!DeliveredIsDeclared,
              H!EvidenceAccepted, H!WaivedMeansAbsent
        <4> QED
          BY <4>2, <4>3, <4>4 DEF FetchInv
      <3> QED
        BY <3>1, <3>2
    <2>3. CASE H!BodyOK(r, H!Current) /\ stage = "build" /\ H!Delivered(e)
      <3>1. /\ stage' = "delivered" /\ loop' = [loop EXCEPT !.step = "over"] /\ result' = e
            /\ UNCHANGED <<web, request, sigRequest, provenance, past>>
        BY <2>3 DEF H!Delivered
      <3>2. FetchType'
        BY <3>1 DEF FetchInv, FetchType, PastKept
      <3>3. LoopStands'
        BY <3>1 DEF FetchInv, FetchType, LoopStands
      <3>4. HostsSigned'
        BY <2>3, <3>1 DEF FetchInv, HostsSigned
      <3>5. /\ Len(loop.hosts) \in 1..(MaxRedirects + 1) /\ loop.hosts[1] = Bottle.host
            /\ H!AllowedAfter(loop.hosts) = {loop.hosts[i] : i \in 1..Len(loop.hosts)}
        BY <2>3, HostsMet DEF Origin
      <3>6. H!Range(loop.hosts) \subseteq request.allow
        BY <2>3, <3>5 DEF FetchInv, HostsSigned, H!AllowedAfter
      <3>7. /\ result'.hosts = loop.hosts /\ result'.digest = H!Body(r)
            /\ result'.size = Len(H!Body(r)) /\ request' = request
        BY <3>1 DEF e
      <3>8. H!EvidenceAccepted'
        BY <3>5, <3>6, <3>7 DEF H!EvidenceAccepted
      <3>9. H!DeliveredIsDeclared'
        BY <2>3, <3>7 DEF H!BodyOK, H!Current, H!DeliveredIsDeclared
      <3>10. H!FetchedIsDeclared'
        BY <3>1, <3>8, <3>9
        DEF FetchInv, H!FetchedIsDeclared, H!DialsArePublic, H!WaivedMeansAbsent
      <3> QED
        BY <3>2, <3>3, <3>4, <3>10 DEF FetchInv
    <2> QED
      BY <1>7, <2>0, <2>1, <2>2, <2>3 DEF H!Fetched, e
  <1> QED
    <2>1. H!Answered(r)
      BY DEF r
    <2>2. CASE H!Redirected(r)
      BY <1>3, <2>2
    <2>3. CASE H!Fail(FALSE)
      BY <1>2, <2>3
    <2>4. CASE stage = "sig probe" /\ H!IsAbsence(r.status) /\ H!SignatureAbsent(r.status)
      BY <1>6, <2>4
    <2>5. CASE stage \in H!Fetching /\ H!Fetched(r)
      BY <1>7, <2>5
    <2>6. CASE stage = "probe" /\ H!Probed(r)
      BY <1>4, <2>6
    <2>7. CASE stage = "sig probe" /\ H!SignatureFound(r)
      BY <1>5, <2>7
    <2> QED
      BY <2>1, <2>2, <2>3, <2>4, <2>5, <2>6, <2>7 DEF H!Answered

(* Every step keeps the invariant.                                           *)
LEMMA FetchStep ==
  ASSUME H!WebSound
  PROVE  FetchInv /\ [H!Next]_H!vars => FetchInv'
  <1> SUFFICES ASSUME FetchInv, [H!Next]_H!vars
               PROVE  FetchInv'
    OBVIOUS
  <1>1. CASE H!Visit
    BY <1>1, VisitKeeps
  <1>2. CASE H!Send
    <2>1. stage \in Calling /\ loop.step = "send" /\ dialed \subseteq Public
      BY <1>2 DEF H!Send, FetchInv, LoopStands, H!FetchedIsDeclared, H!DialsArePublic
    <2>2. dialed' \subseteq Public
      BY <1>2, <2>1 DEF H!Send, H!Dial, H!LookupOK, H!IsPublicIP
    <2>3. H!Fail(TRUE) \/ H!Answered(web[loop.at])
      BY <1>2 DEF H!Send
    <2> QED
      BY <2>1, <2>2, <2>3, FailKeeps, SendKeeps
  <1>3. CASE H!Change
    <2>1. UNCHANGED <<stage, loop, request, sigRequest, result, provenance, dialed>>
      BY <1>3 DEF H!Change
    <2>2. PICK u \in Places : \E x \in Responses[u] : web' = [web EXCEPT ![u] = x]
      BY <1>3 DEF H!Change, FetchInv, FetchType
    <2>3. past' = [changes |-> past.changes + 1, disturbed |-> TRUE, status |-> past.status,
                   failed |-> past.failed]
      BY <1>3 DEF H!Change, FetchInv, FetchType, PastKept
    <2>4. FetchType'
      BY <2>1, <2>2, <2>3 DEF FetchInv, FetchType, PastKept
    <2>5. LoopStands' /\ HostsSigned'
      BY <2>1 DEF FetchInv, LoopStands, HostsSigned, Origin
    <2>6. H!FetchedIsDeclared'
      BY <2>1, <2>3
      DEF FetchInv, H!FetchedIsDeclared, H!DialsArePublic, H!DeliveredIsDeclared,
          H!EvidenceAccepted, H!WaivedMeansAbsent
    <2> QED
      BY <2>4, <2>5, <2>6 DEF FetchInv
  <1>4. CASE UNCHANGED H!vars
    <2>1. FetchType' /\ LoopStands'
      BY <1>4 DEF H!vars, FetchInv, FetchType, PastKept, LoopStands, Origin
    <2>2. HostsSigned'
      BY <1>4 DEF H!vars, FetchInv, HostsSigned
    <2>3. H!FetchedIsDeclared'
      BY <1>4
      DEF H!vars, FetchInv, H!FetchedIsDeclared, H!DialsArePublic, H!DeliveredIsDeclared,
          H!EvidenceAccepted, H!WaivedMeansAbsent
    <2> QED
      BY <2>1, <2>2, <2>3 DEF FetchInv
  <1> QED
    BY <1>1, <1>2, <1>3, <1>4 DEF H!Next

(* Whatever redirects, names and bodies the network answers with, fetch     *)
(* dials allowed hosts at public addresses, delivers the declared bytes     *)
(* and records evidence its own validation accepts; a signature is waived   *)
(* only where there is none.                                                *)
FetchedIsDeclared == H!FetchedIsDeclared

(* For every web of redirects that changes while it is walked: only public   *)
(* addresses are dialled, what is delivered has the declared digest,         *)
(* evidence is accepted only with its signature, and it is waived only where *)
(* the server said it is absent.                                             *)
THEOREM FetchesDeclared ==
  ASSUME H!WebSound
  PROVE  H!Spec => []FetchedIsDeclared
  <1>1. H!Init => FetchInv
    BY FetchInit
  <1>2. FetchInv /\ [H!Next]_H!vars => FetchInv'
    BY FetchStep
  <1>3. FetchInv => FetchedIsDeclared
    BY DEF FetchInv, FetchedIsDeclared
  <1> QED
    BY <1>1, <1>2, <1>3, PTL DEF H!Spec
=============================================================================
