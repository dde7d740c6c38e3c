-------------------------- MODULE CatalogPublication --------------------------
(***************************************************************************)
(* Publication of generated catalogs by the catalog service: allocation of *)
(* tap sequence numbers, the content-addressed catalog store, the signed   *)
(* result with its expiry, and the garbage collection of catalogs          *)
(* (publishGenerated, nextSequence, putCatalog, finishOperation,           *)
(* gcCatalogsLocked and removeCatalogsExcept of internal/catalogservice).  *)
(*                                                                         *)
(* publishGenerated runs under Service.publishMu and the collection under  *)
(* Service.mu, so a collection can fall between any two store calls of a   *)
(* publication.  Each store call is therefore an action of its own.  The   *)
(* pool of workers is that of CatalogService; here an operation simply has *)
(* at most one worker, which CatalogServiceProofs proves of that pool.     *)
(***************************************************************************)
EXTENDS Integers, FiniteSets, TLC

CONSTANTS
  Operations,  \* operation identifiers
  Taps,        \* tap identifiers, numbers in the order of TapID
  Sources,     \* source identities of a tap (digests of its TapSource)
  NoOne,       \* publishMu is free
  Unset,       \* a tap without a sequence file
  Lifetime,    \* Config.CatalogSetLifetime
  Refresh,     \* Config.CatalogRefresh
  MaxTime,     \* bound on the clock
  MaxRuns,     \* bound on generations
  MaxFaults,   \* bound on failing store calls
  MaxCrashes   \* bound on process crashes

ASSUME NamesAssumption == NoOne \notin Operations /\ Unset \notin Sources
ASSUME TapsAssumption == Taps \subseteq Nat /\ IsFiniteSet(Taps)
ASSUME TimesAssumption == Lifetime \in Nat \ {0} /\ Refresh \in Nat \ {0}
ASSUME PublicationBounds ==
  MaxTime \in Nat /\ MaxRuns \in Nat /\ MaxFaults \in Nat /\ MaxCrashes \in Nat

VARIABLES
  now,       \* the service's clock, also the file system's
  status,    \* operations/<id>.json: "absent", "pending", "failed", "completed"
  result,    \* the documents its signed result refers to, {} when none
  terminal,  \* keys of Service.terminalErrors
  stage,     \* where the worker of an operation is, or "idle"
  made,      \* what its generator returned: taps and their sources
  at,        \* publishedAt of its publication
  docs,      \* the documents it has staged
  put,       \* those of them it has stored
  holder,    \* the operation whose worker holds publishMu
  sequence,  \* sequences/<tap>.json
  catalogs,  \* files under catalogs/, with their modification times
  issued,    \* history: every result that was ever recorded
  runs, faults, crashes

files   == <<status, result, sequence, catalogs, issued>>
memory  == <<terminal, stage, made, at, docs, put, holder>>
bounds  == <<runs, faults, crashes>>
vars    == <<now, status, result, terminal, stage, made, at, docs, put, holder,
             sequence, catalogs, issued, runs, faults, crashes>>

Stages == {"idle", "generating", "waiting", "allocating", "storing", "signed", "failed"}

(* A tap catalog; its canonical bytes name its file. *)
Documents == [tap : Taps, source : Sources, number : Nat, at : Nat]

(* A generated set has one catalog for each of some taps. *)
GeneratedSets == UNION {[T -> Sources] : T \in SUBSET Taps \ {{}}}

Present(d) == \E c \in catalogs : c.doc = d

(* catalogauth.Verify on a result at the current time. *)
Unexpired(set) == \A d \in set : now < d.at + Lifetime

(* cachedResultFresh *)
FreshResult(o) ==
  /\ status[o] = "completed"
  /\ Unexpired(result[o])
  /\ \A d \in result[o] : now < d.at + Refresh
  /\ \A d \in result[o] : Present(d)

Init ==
  /\ now = 0
  /\ status = [o \in Operations |-> "absent"]
  /\ result = [o \in Operations |-> {}]
  /\ terminal = {}
  /\ stage = [o \in Operations |-> "idle"]
  /\ made = [o \in Operations |-> <<>>]
  /\ at = [o \in Operations |-> 0]
  /\ docs = [o \in Operations |-> {}]
  /\ put = [o \in Operations |-> {}]
  /\ holder = NoOne
  /\ sequence = [t \in Taps |-> [number |-> 0, source |-> Unset]]
  /\ catalogs = {}
  /\ issued = {}
  /\ runs = 0 /\ faults = 0 /\ crashes = 0

(* A store call succeeds, fails without effect, or fails after the effect. *)
StoreCall(outcome) ==
  /\ outcome # "saved" => faults < MaxFaults
  /\ faults' = IF outcome = "saved" THEN faults ELSE faults + 1

(* The worker's variables go out of scope, with the publication or with    *)
(* the worker. *)
DropStaging(o) ==
  /\ made' = [made EXCEPT ![o] = <<>>]
  /\ at' = [at EXCEPT ![o] = 0]
  /\ docs' = [docs EXCEPT ![o] = {}]
  /\ put' = [put EXCEPT ![o] = {}]

(* publishGenerated returns an error; its deferred call unlocks publishMu. *)
Abandon(o) ==
  /\ stage' = [stage EXCEPT ![o] = "failed"]
  /\ holder' = NoOne
  /\ DropStaging(o)

Leave(o) ==
  /\ stage' = [stage EXCEPT ![o] = "idle"]
  /\ DropStaging(o)

-----------------------------------------------------------------------------
(* A request makes its operation pending and starts a worker, unless a     *)
(* fresh result is at hand; an operation found pending is started too.     *)
Begin(o) ==
  /\ stage[o] = "idle"
  /\ o \notin terminal
  /\ ~FreshResult(o)
  /\ runs < MaxRuns
  /\ runs' = runs + 1
  /\ status' = [status EXCEPT ![o] = "pending"]
  /\ result' = [result EXCEPT ![o] = {}]
  /\ stage' = [stage EXCEPT ![o] = "generating"]
  /\ UNCHANGED <<now, terminal, made, at, docs, put, holder, sequence, catalogs, issued,
                 faults, crashes>>

Generated(o, set) ==
  /\ stage[o] = "generating"
  /\ made' = [made EXCEPT ![o] = set]
  /\ stage' = [stage EXCEPT ![o] = "waiting"]
  /\ UNCHANGED <<now, files, terminal, at, docs, put, holder, bounds>>

(* The generator fails, or validateGeneratedSet rejects what it returned.  *)
GenerationFails(o) ==
  /\ stage[o] = "generating"
  /\ stage' = [stage EXCEPT ![o] = "failed"]
  /\ UNCHANGED <<now, files, terminal, made, at, docs, put, holder, bounds>>

(* publishGenerated takes publishMu and only then reads the clock. *)
LockPublishUnlocked(o) ==  \* mutant: publishMu is not taken
  /\ stage[o] = "waiting"
  /\ holder' = o
  /\ at' = [at EXCEPT ![o] = now]
  /\ stage' = [stage EXCEPT ![o] = "allocating"]
  /\ UNCHANGED <<now, files, terminal, made, docs, put, bounds>>

LockPublish(o) ==
  /\ stage[o] = "waiting"
  /\ holder = NoOne
  /\ holder' = o
  /\ at' = [at EXCEPT ![o] = now]
  /\ stage' = [stage EXCEPT ![o] = "allocating"]
  /\ UNCHANGED <<now, files, terminal, made, docs, put, bounds>>

(* What nextSequence returns and leaves in the file of the tap: the same   *)
(* number for the same source, the next one for another.                   *)
NextSequence(t, source) ==
  IF sequence[t].source = source THEN sequence[t]
  ELSE [number |-> sequence[t].number + 1, source |-> source]

StagedTaps(o) == {d.tap : d \in docs[o]}

(* A number for the next tap in order; after the last one the documents    *)
(* are stored.  A failed write gives up the publication, and publishMu.    *)
AllocateSequence(o, outcome) ==
  /\ stage[o] = "allocating"
  /\ \E t \in DOMAIN made[o] \ StagedTaps(o) :
       LET next == NextSequence(t, made[o][t])
           doc == [tap |-> t, source |-> made[o][t], number |-> next.number, at |-> at[o]]
       IN  /\ \A u \in DOMAIN made[o] \ StagedTaps(o) : t <= u
           /\ next = sequence[t] => outcome = "saved"
           /\ sequence' = IF outcome = "lost" THEN sequence
                          ELSE [sequence EXCEPT ![t] = next]
           /\ IF outcome = "saved"
              THEN /\ docs' = [docs EXCEPT ![o] = @ \cup {doc}]
                   /\ stage' = [stage EXCEPT ![o] =
                                  IF DOMAIN made[o] = StagedTaps(o) \cup {t}
                                  THEN "storing" ELSE "allocating"]
                   /\ UNCHANGED <<made, at, put, holder>>
              ELSE Abandon(o)
  /\ StoreCall(outcome)
  /\ UNCHANGED <<now, status, result, terminal, catalogs, issued, runs, crashes>>

(* putCatalog of the staged documents, one after the other: writeImmutable *)
(* leaves a file that is already there as it is.                           *)
PutCatalog(o, outcome) ==
  /\ stage[o] = "storing"
  /\ \E d \in docs[o] \ put[o] :
       /\ \A e \in docs[o] \ put[o] : d.tap <= e.tap
       /\ Present(d) => outcome = "saved"
       /\ catalogs' = IF Present(d) \/ outcome = "lost" THEN catalogs
                      ELSE catalogs \cup {[doc |-> d, mtime |-> now]}
       /\ IF outcome = "saved"
          THEN /\ put' = [put EXCEPT ![o] = @ \cup {d}]
               /\ UNCHANGED <<stage, made, at, docs, holder>>
          ELSE Abandon(o)
  /\ StoreCall(outcome)
  /\ UNCHANGED <<now, status, result, terminal, sequence, issued, runs, crashes>>

(* The payload is signed and publishMu released. *)
SignResult(o) ==
  /\ stage[o] = "storing"
  /\ put[o] = docs[o]
  /\ stage' = [stage EXCEPT ![o] = "signed"]
  /\ holder' = NoOne
  /\ UNCHANGED <<now, files, terminal, made, at, docs, put, bounds>>

(* A document or the payload is rejected, or signing fails; what was       *)
(* allocated and stored stays. *)
PublicationFails(o) ==
  /\ stage[o] \in {"allocating", "storing"}
  /\ Abandon(o)
  /\ UNCHANGED <<now, files, terminal, bounds>>

-----------------------------------------------------------------------------
(* gcCatalogsLocked: the files that no verifiable result refers to and     *)
(* that are as old as a result can get.                                    *)
Referenced(o) == IF status[o] = "completed" /\ Unexpired(result[o]) THEN result[o] ELSE {}

GarbageEager(done) ==  \* mutant: no retention
  {c \in catalogs :
     /\ c.doc \notin done
     /\ \A o \in Operations : c.doc \notin Referenced(o)}

Garbage(done) ==
  {c \in catalogs :
     /\ c.doc \notin done
     /\ \A o \in Operations : c.doc \notin Referenced(o)
     /\ now - c.mtime >= Lifetime}

(* finishOperation of a published result.  Once it is recorded the         *)
(* collection follows in the same critical section; it stops where a       *)
(* removal fails, which nobody notices.                                    *)
FinishCompleted(o, outcome, swept) ==
  /\ stage[o] = "signed"
  /\ StoreCall(outcome)
  /\ LET live == IF Unexpired(docs[o]) THEN docs[o] ELSE {}
     IN  IF outcome = "saved" THEN swept \subseteq Garbage(live) ELSE swept = {}
  /\ catalogs' = catalogs \ swept
  /\ IF outcome = "lost"
     THEN UNCHANGED <<status, result, issued>>
     ELSE /\ status' = [status EXCEPT ![o] = "completed"]
          /\ result' = [result EXCEPT ![o] = docs[o]]
          /\ issued' = issued \cup {docs[o]}
  /\ terminal' = IF outcome = "saved" THEN terminal \ {o} ELSE terminal \cup {o}
  /\ Leave(o)
  /\ UNCHANGED <<now, holder, sequence, runs, crashes>>

(* finishFailure *)
FinishFailed(o, outcome) ==
  /\ stage[o] = "failed"
  /\ StoreCall(outcome)
  /\ status' = IF outcome = "lost" THEN status ELSE [status EXCEPT ![o] = "failed"]
  /\ terminal' = IF outcome = "saved" THEN terminal \ {o} ELSE terminal \cup {o}
  /\ Leave(o)
  /\ UNCHANGED <<now, result, holder, sequence, catalogs, issued, runs, crashes>>

(* evictOperationsLocked makes room for another request. *)
Evict(o) ==
  /\ stage[o] = "idle"
  /\ status[o] \in {"completed", "failed"} \/ (status[o] = "pending" /\ o \in terminal)
  /\ status' = [status EXCEPT ![o] = "absent"]
  /\ result' = [result EXCEPT ![o] = {}]
  /\ terminal' = terminal \ {o}
  /\ UNCHANGED <<now, stage, made, at, docs, put, holder, sequence, catalogs, issued, bounds>>

(* The process dies; its files stay. *)
Crash ==
  /\ crashes < MaxCrashes
  /\ crashes' = crashes + 1
  /\ terminal' = {}
  /\ stage' = [o \in Operations |-> "idle"]
  /\ made' = [o \in Operations |-> <<>>]
  /\ at' = [o \in Operations |-> 0]
  /\ docs' = [o \in Operations |-> {}]
  /\ put' = [o \in Operations |-> {}]
  /\ holder' = NoOne
  /\ UNCHANGED <<now, files, runs, faults>>

Tick ==
  /\ now < MaxTime
  /\ now' = now + 1
  /\ UNCHANGED <<files, memory, bounds>>

Outcomes == {"saved", "lost", "unsynced"}

Step(o) ==
  \/ Begin(o)
  \/ \E set \in GeneratedSets : Generated(o, set)
  \/ GenerationFails(o)
  \/ LockPublish(o)
  \/ SignResult(o)
  \/ PublicationFails(o)
  \/ \E outcome \in Outcomes :
       \/ AllocateSequence(o, outcome)
       \/ PutCatalog(o, outcome)
       \/ FinishFailed(o, outcome)
       \/ \E swept \in SUBSET catalogs : FinishCompleted(o, outcome, swept)
  \/ Evict(o)

Next == (\E o \in Operations : Step(o)) \/ Crash \/ Tick

Spec == Init /\ [][Next]_vars

-----------------------------------------------------------------------------
(* Properties. *)

(* The files and the worker's variables have the shape the code gives      *)
(* them; a worker's stored documents are among those it has staged.        *)
TypeOK ==
  /\ now \in Nat
  /\ status \in [Operations -> {"absent", "pending", "failed", "completed"}]
  /\ result \in [Operations -> SUBSET Documents]
  /\ terminal \subseteq Operations
  /\ stage \in [Operations -> Stages]
  /\ made \in [Operations -> GeneratedSets \cup {<<>>}]
  /\ at \in [Operations -> Nat]
  /\ docs \in [Operations -> SUBSET Documents]
  /\ put \in [Operations -> SUBSET Documents]
  /\ \A o \in Operations : put[o] \subseteq docs[o]
  /\ holder \in Operations \cup {NoOne}
  /\ sequence \in [Taps -> [number : Nat, source : Sources \cup {Unset}]]
  /\ catalogs \subseteq [doc : Documents, mtime : Nat]
  /\ issued \subseteq SUBSET Documents
  /\ runs \in Nat /\ faults \in Nat /\ crashes \in Nat

(* Until a result expires, every catalog it refers to can be fetched:      *)
(* eviction of its operation, the refresh that replaces it, collections    *)
(* triggered by other operations, failing writes and crashes included.     *)
(* The same holds of the catalogs an unfinished publication has stored.    *)
IssuedServable ==
  /\ \A set \in issued : Unexpired(set) => \A d \in set : Present(d)
  /\ \A o \in Operations :
       stage[o] \in {"storing", "signed"} =>
         \A d \in put[o] : now < d.at + Lifetime => Present(d)

(* The documents of some result or publication under way. *)
Published == UNION (issued \cup {docs[o] : o \in Operations})

(* A tap's sequence number stands for one source: nextSequence reuses a    *)
(* number only for the source it was given to, also after a write that     *)
(* failed halfway or a crash. *)
SequenceNamesSource ==
  \A d, e \in Published : d.tap = e.tap /\ d.number = e.number => d.source = e.source

(* A catalog published later never carries a lower number, so that clients *)
(* with a minimum sequence do not reject what the service signs last.      *)
SequenceFollowsTime ==
  \A d, e \in Published : d.tap = e.tap /\ d.at < e.at => d.number <= e.number

(* A sequence number orders the documents of a tap: it names one source    *)
(* and never falls.                                                        *)
SequencesSound == SequenceNamesSource /\ SequenceFollowsTime

(* Instances for TLC: what is told apart by its name only.                  *)
Symmetry == Permutations(Operations) \cup Permutations(Sources)
=============================================================================
