---------------------------- MODULE RegistryAuth -----------------------------
(* Authentication of the OCI Distribution client, internal/homebrew/oci/     *)
(* client.go: doRegistryGET answers 401 challenges with bearer tokens, which *)
(* concurrent calls share through the client's two maps.                     *)
(*                                                                           *)
(* The registry gives a token for a scope and takes it back whenever it      *)
(* likes; it may also move a repository to another scope.  Tokens are        *)
(* numbered; "" in the code is 0 here.                                       *)
EXTENDS Naturals, FiniteSets

CONSTANTS
  Calls,        \* concurrent GETs
  RepoOf,       \* the repository each call reads
  Scopes,       \* token scopes the registry uses
  FirstScope,   \* the scope of each repository at first
  Moves,        \* later scopes: <<repository, scope>>, None when it turns public
  Attempts,     \* how often a GET is tried: 3
  MaxTokens, MaxRevocations,
  None

VARIABLES
  scope,        \* the registry: the scope of each repository
  issued,       \* the registry: the scope of every token given so far
  revoked,      \* the registry: tokens taken back
  authByRepo,   \* the client: the last challenge of each repository
  tokens,       \* the client: [value, live] per challenge
  calls         \* [pc, challenge, token, attempt, hurt] per call

registry == <<scope, issued, revoked>>
vars == <<scope, issued, revoked, authByRepo, tokens, calls>>

Repositories == DOMAIN FirstScope

(* Every repository has a scope or is public, before and after it moves.     *)
RegistrySound ==
  /\ RepoOf \in [Calls -> Repositories] /\ None \notin Scopes
  /\ FirstScope \in [Repositories -> Scopes \cup {None}]
  /\ Moves \subseteq Repositories \X (Scopes \cup {None})
  /\ Attempts \in Nat /\ Attempts >= 3

NoToken == [value |-> 0, live |-> FALSE]

Init ==
  /\ scope = FirstScope
  /\ issued = <<>> /\ revoked = {}
  /\ authByRepo = [r \in Repositories |-> None]
  /\ tokens = [s \in Scopes |-> NoToken]
  /\ calls = [c \in Calls |->
                [pc |-> "start", challenge |-> None, token |-> 0, attempt |-> 0,
                 hurt |-> 0]]

-----------------------------------------------------------------------------
(* rememberedChallenge, then bearerToken without force.                      *)
Start(c) ==
  /\ calls[c].pc = "start"
  /\ LET known == authByRepo[RepoOf[c]]
         cached == IF known = None THEN NoToken ELSE tokens[known]
     IN calls' = [calls EXCEPT ![c].challenge = known,
                    ![c].token = IF cached.live THEN cached.value ELSE 0,
                    ![c].pc = IF known = None \/ cached.live THEN "get" ELSE "token"]
  /\ UNCHANGED <<scope, issued, revoked, authByRepo, tokens>>

(* The registry serves a public repository, or a token of the right scope.   *)
Authorized(repo, token) ==
  \/ scope[repo] = None
  \/ token \in DOMAIN issued /\ token \notin revoked /\ issued[token] = scope[repo]

(* invalidateToken: whatever is cached for the challenge the token came from, *)
(* another call's newer token included.                                      *)
InvalidateToken(c) ==
  IF calls[c].token = 0 THEN tokens
  ELSE [tokens EXCEPT ![calls[c].challenge] = NoToken]

(* One try of doGET.  A refusal carries the registry's challenge.            *)
Get(c) ==
  /\ calls[c].pc = "get"
  /\ LET repo == RepoOf[c]
     IN IF Authorized(repo, calls[c].token)
          THEN /\ calls' = [calls EXCEPT ![c].pc = "served"]
               /\ UNCHANGED <<authByRepo, tokens>>
          ELSE /\ tokens' = InvalidateToken(c)
               /\ authByRepo' = [authByRepo EXCEPT ![repo] = scope[repo]]
               /\ calls' = [calls EXCEPT ![c].pc = "token", ![c].token = 0,
                              ![c].challenge = scope[repo], ![c].attempt = @ + 1]
  /\ UNCHANGED registry

(* The token the realm gives for the challenge: always a new one.            *)
Answered(c) == Cardinality(DOMAIN issued) + 1

(* bearerToken's request; the answer is on its way.                          *)
RequestToken(c) ==
  /\ calls[c].pc = "token" /\ Cardinality(DOMAIN issued) < MaxTokens
  /\ LET t == Answered(c)
     IN /\ issued' = [u \in DOMAIN issued \cup {t} |->
                        IF u = t THEN calls[c].challenge ELSE issued[u]]
        /\ calls' = [calls EXCEPT ![c].pc = "store", ![c].token = t]
  /\ UNCHANGED <<scope, revoked, authByRepo, tokens>>

(* A request to the registry or to its token service fails, or the challenge *)
(* or the token it answers with does not parse.                              *)
RequestFails(c) ==
  /\ calls[c].pc \in {"get", "token"}
  /\ calls' = [calls EXCEPT ![c].pc = "failed"]
  /\ UNCHANGED <<scope, issued, revoked, authByRepo, tokens>>

(* The key a token is cached under, and the loop's bound.                    *)
KeyOfAnyScope(challenge) == CHOOSE s \in Scopes : TRUE

KeyOf(challenge) == challenge

AttemptsLeft(n) == n < Attempts

(* The answer arrives: it is cached under the challenge it was asked for, and *)
(* the GET is tried again, unless this was the last attempt.                 *)
StoreToken(c) ==
  /\ calls[c].pc = "store"
  /\ tokens' = [tokens EXCEPT ![KeyOf(calls[c].challenge)] =
                  [value |-> calls[c].token, live |-> TRUE]]
  /\ calls' = [calls EXCEPT ![c].pc =
                 IF AttemptsLeft(calls[c].attempt) THEN "get" ELSE "rejected"]
  /\ UNCHANGED <<scope, issued, revoked, authByRepo>>

-----------------------------------------------------------------------------
Running == {c \in Calls : calls[c].pc \in {"get", "token", "store"}}

Hurt(ds) ==
  calls' = [c \in Calls |->
              IF c \in ds \cap Running THEN [calls[c] EXCEPT !.hurt = @ + 1]
              ELSE calls[c]]

(* The registry takes a token back.  It hurts the calls that hold it.        *)
Revoke(t) ==
  /\ Cardinality(revoked) < MaxRevocations
  /\ t \in DOMAIN issued \ revoked
  /\ revoked' = revoked \cup {t}
  /\ Hurt({c \in Calls : calls[c].token = t})
  /\ UNCHANGED <<scope, issued, authByRepo, tokens>>

(* The registry asks for another scope from now on, or for none.             *)
Move(r, s) ==
  /\ scope = FirstScope
  /\ scope' = [scope EXCEPT ![r] = s]
  /\ Hurt({c \in Calls : RepoOf[c] = r})
  /\ UNCHANGED <<issued, revoked, authByRepo, tokens>>

(* A cached token reaches the expiry the client computed for it.             *)
Expire(s) ==
  /\ tokens[s].live
  /\ tokens' = [tokens EXCEPT ![s].live = FALSE]
  /\ UNCHANGED <<scope, issued, revoked, authByRepo, calls>>

Work(c) == Start(c) \/ Get(c) \/ RequestToken(c) \/ RequestFails(c) \/ StoreToken(c)

Next ==
  \/ \E c \in Calls : Work(c)
  \/ \E t \in DOMAIN issued : Revoke(t)
  \/ \E m \in Moves : Move(m[1], m[2])
  \/ \E s \in Scopes : Expire(s)

Spec == Init /\ [][Next]_vars

-----------------------------------------------------------------------------
(* A GET gives up only when the registry turned on it twice while it ran, by *)
(* taking back the token it held or moving its repository: a stale token in  *)
(* the cache, or what other calls do to the cache, never uses up the         *)
(* attempts of doRegistryGET.                                                *)
RejectedOnlyIfRefused ==
  \A c \in Calls : calls[c].pc = "rejected" => calls[c].hurt >= 2

(* A token is sent only to a repository whose challenge asked for its scope: *)
(* the cache never hands a call the token of another scope.                  *)
TokensInScope ==
  \A c \in Calls :
    calls[c].pc = "get" /\ calls[c].token # 0
      => issued[calls[c].token] = calls[c].challenge

(* Concurrent calls share tokens by challenge only, and lose no attempt to   *)
(* one another.                                                              *)
TokensShared == TokensInScope /\ RejectedOnlyIfRefused
=============================================================================
