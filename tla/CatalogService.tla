--------------------------- MODULE CatalogService ---------------------------
(***************************************************************************)
(* The catalog service: a single-writer HTTP service that accepts catalog  *)
(* requests, persists one operation per request, generates catalogs in a   *)
(* bounded pool of workers and keeps the results on disk                   *)
(* (internal/catalogservice/service.go and store.go).                      *)
(*                                                                         *)
(* An operation is named by the digest of its request, so an identifier    *)
(* stands for the operation, its request and its worker.  Every handler    *)
(* runs its body in one critical section of Service.mu and is one action;  *)
(* a worker takes the mutex twice, once to record the outcome and once,    *)
(* from a deferred call, to leave the pool, and those are two actions.     *)
(* Responses that change nothing (400, 404, 500 and 503 answers, a fresh   *)
(* cached result) are stuttering steps.                                    *)
(***************************************************************************)
EXTENDS Sequences, FiniteSetsExt, TLC

CONSTANTS
  Ids,            \* operation identifiers, OperationID(request)
  Goroutines,     \* names for the goroutines that run runGeneration
  NoJob,          \* the job of a name that is not in use
  MaxConcurrent,  \* Config.MaxConcurrentGenerations
  MaxPending,     \* Config.MaxPendingGenerations
  MaxStored,      \* Config.MaxStoredOperations
  MaxFaults,      \* bound on failing store calls
  MaxStops        \* bound on shutdowns and process crashes

ASSUME IdsAssumption == IsFiniteSet(Ids) /\ NoJob \notin Ids
ASSUME GoroutinesAssumption == IsFiniteSet(Goroutines)
ASSUME LimitsAssumption ==
  /\ MaxConcurrent \in Nat \ {0}
  /\ MaxPending \in Nat \ {0}
  /\ MaxStored \in Nat \ {0}
ASSUME BoundsAssumption == MaxFaults \in Nat /\ MaxStops \in Nat

VARIABLES
  disk,      \* operations/<id>.json: its status; "stale" is a completed one
             \* that cachedResultFresh rejects
  older,     \* <<i, j>> when the file of i was last written before that of j
  requests,  \* the identifiers with a requests/<id>.json
  life,      \* "down", "open", "closed" (flag set) or "cancelled" (ctx too)
  active,    \* keys of Service.active
  job,       \* the identifier a goroutine generates for, or NoJob
  phase,     \* where that goroutine is, or "idle"
  slots,     \* len(generationSlots)
  queue,     \* Service.queue
  queued,    \* keys of Service.queued
  terminal,  \* keys of Service.terminalErrors
  faults,    \* store calls that have failed
  stops      \* shutdowns and crashes so far

store == <<disk, older, requests>>
sched == <<active, job, phase, slots, queue, queued>>
vars  == <<disk, older, requests, life, active, job, phase, slots, queue, queued,
           terminal, faults, stops>>

Statuses == {"absent", "pending", "completed", "stale", "failed"}
Phases   == {"idle", "generate", "publish", "complete", "fail", "exit"}
Lives    == {"down", "open", "closed", "cancelled"}

(* What a call of saveOperation reports and leaves behind: atomicWrite can *)
(* fail before the rename, or after it in syncDirectory.                   *)
SaveOutcomes == {"saved", "lost", "unsynced"}

Busy    == {g \in Goroutines : phase[g] # "idle"}
Stored  == {id \in Ids : disk[id] # "absent"}
Pending == {id \in Ids : disk[id] = "pending"}

Init ==
  /\ disk = [id \in Ids |-> "absent"]
  /\ older = {}
  /\ requests = {}
  /\ life = "open"
  /\ active = {}
  /\ job = [g \in Goroutines |-> NoJob]
  /\ phase = [g \in Goroutines |-> "idle"]
  /\ slots = 0
  /\ queue = <<>>
  /\ queued = {}
  /\ terminal = {}
  /\ faults = 0
  /\ stops = 0

-----------------------------------------------------------------------------
(* The store. *)

(* The operation files after saveOperation(id, status). *)
Saved(d, id, status, outcome) ==
  IF outcome = "lost" THEN d ELSE [d EXCEPT ![id] = status]

(* Modification order after the same call: a rewritten file is the newest. *)
Touched(o, kept, id, outcome) ==
  IF outcome = "lost" THEN o
  ELSE {p \in o : id \notin {p[1], p[2]}} \cup {<<j, id>> : j \in kept \ {id}}

CountFault(outcome) ==
  /\ outcome # "saved" => faults < MaxFaults
  /\ faults' = IF outcome = "saved" THEN faults ELSE faults + 1

(* The operations evictOperationsLocked may remove. *)
EvictableRunning(id) ==  \* mutant: no test of active
  /\ id \in Stored
  /\ disk[id] = "pending" => id \in terminal

Evictable(id) ==
  /\ id \in Stored \ active
  /\ disk[id] = "pending" => id \in terminal

(* Those it does remove, oldest files first, to leave at most max files.   *)
Victims(max) ==
  {id \in Stored :
     /\ Evictable(id)
     /\ Cardinality({j \in Stored : Evictable(j) /\ <<j, id>> \in older})
          < Cardinality(Stored) - max}

(* The quota check that follows the eviction. *)
QuotaLeft(kept) == Cardinality(kept) < MaxStored

Without(o, gone) == {p \in o : p[1] \notin gone /\ p[2] \notin gone}

-----------------------------------------------------------------------------
(* Admission and start of a generation. *)

(* generationCapacityAvailableLocked *)
Capacity(id) ==
  \/ id \in active
  \/ id \in queued
  \/ Cardinality(active) + Cardinality(queued) < MaxPending

(* launchGenerationLocked on goroutine g. *)
Launch(id, g) ==
  /\ active' = active \cup {id}
  /\ job' = [job EXCEPT ![g] = id]
  /\ phase' = [phase EXCEPT ![g] = "generate"]

(* What startLocked checks before it starts anything. *)
StartableRunning(id) ==  \* mutant: no test of active
  /\ life = "open"
  /\ id \notin terminal \cup queued
  /\ Capacity(id)

Startable(id) ==
  /\ life = "open"
  /\ id \notin terminal \cup active \cup queued
  /\ Capacity(id)

SlotFree == slots < MaxConcurrent

(* startLocked: takes a free slot, otherwise joins the queue. *)
StartLocked(id) ==
  IF ~Startable(id)
  THEN UNCHANGED sched
  ELSE IF SlotFree
  THEN /\ slots' = slots + 1
       /\ \E g \in Goroutines \ Busy : Launch(id, g)
       /\ UNCHANGED <<queue, queued>>
  ELSE /\ queue' = Append(queue, id)
       /\ queued' = queued \cup {id}
       /\ UNCHANGED <<active, job, phase, slots>>

(* The checks both handlers make first.  ServeHTTP turns requests away     *)
(* once closed is set, but a handler it let in before that still runs.     *)
Admitted(id) ==
  /\ life # "down"
  /\ id \notin terminal
  /\ Capacity(id)

-----------------------------------------------------------------------------
(* handleCatalogSet: POST /v1/catalog-sets *)

(* A request not seen before: evict down to one free place, refuse when    *)
(* the quota is still exhausted, persist the request and then a pending    *)
(* operation, and start.  outcome is that of saveOperation.                *)
PostNew(id, outcome) ==
  /\ Admitted(id)
  /\ disk[id] = "absent"
  /\ LET victims == Victims(MaxStored - 1)
         kept == Stored \ victims
         left == [i \in Ids |-> IF i \in victims THEN "absent" ELSE disk[i]]
     IN  /\ QuotaLeft(kept)
         /\ CountFault(outcome)
         /\ disk' = Saved(left, id, "pending", outcome)
         /\ older' = Touched(Without(older, victims), kept, id, outcome)
         /\ requests' = (requests \ victims) \cup {id}
         /\ terminal' = terminal \ victims
         /\ IF outcome = "saved" THEN StartLocked(id) ELSE UNCHANGED sched
  /\ UNCHANGED <<life, stops>>

(* The same request when putRequest fails: the eviction has happened. *)
PostUnstored(id) ==
  /\ Admitted(id)
  /\ disk[id] = "absent"
  /\ LET victims == Victims(MaxStored - 1)
     IN  /\ victims # {}
         /\ CountFault("lost")
         /\ disk' = [i \in Ids |-> IF i \in victims THEN "absent" ELSE disk[i]]
         /\ older' = Without(older, victims)
         /\ requests' = requests \ victims
         /\ terminal' = terminal \ victims
  /\ UNCHANGED <<life, sched, stops>>

(* The same request when removeOperation fails on a victim v: the older    *)
(* victims are gone, v has lost its operation file and perhaps its request *)
(* but keeps its entry of terminalErrors.                                  *)
PostEvictFailsReversed(id, v, unlinked) ==  \* mutant: request unlinked first
  /\ Admitted(id)
  /\ disk[id] = "absent"
  /\ v \in Victims(MaxStored - 1)
  /\ CountFault("lost")
  /\ requests' = requests \ {v}
  /\ UNCHANGED <<disk, older, terminal, life, sched, stops>>

PostEvictFails(id, v, unlinked) ==
  /\ Admitted(id)
  /\ disk[id] = "absent"
  /\ v \in Victims(MaxStored - 1)
  /\ LET gone == {u \in Victims(MaxStored - 1) : <<u, v>> \in older}
     IN  /\ CountFault("lost")
         /\ disk' = [i \in Ids |->
                       IF i \in gone \cup {v} THEN "absent" ELSE disk[i]]
         /\ older' = Without(older, gone \cup {v})
         /\ requests' = requests \ (gone \cup unlinked)
         /\ terminal' = terminal \ gone
  /\ UNCHANGED <<life, sched, stops>>

(* A known request whose operation failed or whose result is stale becomes *)
(* pending again. *)
PostRefresh(id, outcome) ==
  /\ Admitted(id)
  /\ disk[id] \in {"failed", "stale"}
  /\ CountFault(outcome)
  /\ disk' = Saved(disk, id, "pending", outcome)
  /\ older' = Touched(older, Stored, id, outcome)
  /\ requests' = requests \cup {id}
  /\ IF outcome = "saved" THEN StartLocked(id) ELSE UNCHANGED sched
  /\ UNCHANGED <<life, terminal, stops>>

(* A known request that is pending is only (re)started. *)
PostPending(id) ==
  /\ Admitted(id)
  /\ disk[id] = "pending"
  /\ requests' = requests \cup {id}
  /\ StartLocked(id)
  /\ UNCHANGED <<disk, older, life, terminal, faults, stops>>

HandleCatalogSet(id) ==
  \/ \E outcome \in SaveOutcomes : PostNew(id, outcome) \/ PostRefresh(id, outcome)
  \/ PostUnstored(id)
  \/ \E v \in Ids : \E unlinked \in SUBSET {v} : PostEvictFails(id, v, unlinked)
  \/ PostPending(id)

-----------------------------------------------------------------------------
(* handleOperation: GET /v1/operations/<id> *)

(* Polling an operation whose result went stale makes it pending again; a  *)
(* failed one is reported as it is. *)
PollRefresh(id, outcome) ==
  /\ Admitted(id)
  /\ id \in requests
  /\ disk[id] = "stale"
  /\ CountFault(outcome)
  /\ disk' = Saved(disk, id, "pending", outcome)
  /\ older' = Touched(older, Stored, id, outcome)
  /\ IF outcome = "saved" THEN StartLocked(id) ELSE UNCHANGED sched
  /\ UNCHANGED <<requests, life, terminal, stops>>

(* Polling a pending operation starts it when nothing works on it. *)
PollPendingPassive(id) ==  \* mutant: only reports the status
  /\ Admitted(id)
  /\ id \in requests
  /\ disk[id] = "pending"
  /\ UNCHANGED vars

PollPending(id) ==
  /\ Admitted(id)
  /\ id \in requests
  /\ disk[id] = "pending"
  /\ StartLocked(id)
  /\ UNCHANGED <<store, life, terminal, faults, stops>>

HandleOperation(id) ==
  \/ \E outcome \in SaveOutcomes : PollRefresh(id, outcome)
  \/ PollPending(id)

-----------------------------------------------------------------------------
(* A worker: runGeneration and its deferred generationDone. *)

(* The generator returns: cancellation of the service ends the worker      *)
(* without an outcome, a timeout or an error is a failure, and a result    *)
(* goes on to publication. *)
GeneratorReturns(g, next) ==
  /\ phase[g] = "generate"
  /\ IF life = "cancelled" THEN next = "exit" ELSE next \in {"publish", "fail"}
  /\ phase' = [phase EXCEPT ![g] = next]
  /\ UNCHANGED <<store, life, active, job, slots, queue, queued, terminal, faults,
                 stops>>

(* publishGenerated succeeds, or rejects the result or fails to store it.  *)
PublishGenerated(g, next) ==
  /\ phase[g] = "publish"
  /\ phase' = [phase EXCEPT ![g] = next]
  /\ UNCHANGED <<store, life, active, job, slots, queue, queued, terminal, faults,
                 stops>>

(* finishOperation: record the outcome, or remember that it could not be   *)
(* recorded.  A result can be out of date by the time it is recorded.      *)
FinishOperation(g, status, outcome) ==
  /\ \/ phase[g] = "complete" /\ status \in {"completed", "stale"}
     \/ phase[g] = "fail" /\ status = "failed"
  /\ CountFault(outcome)
  /\ disk' = Saved(disk, job[g], status, outcome)
  /\ older' = Touched(older, Stored, job[g], outcome)
  /\ terminal' = IF outcome = "saved" THEN terminal \ {job[g]}
                                      ELSE terminal \cup {job[g]}
  /\ phase' = [phase EXCEPT ![g] = "exit"]
  /\ UNCHANGED <<requests, life, active, job, slots, queue, queued, stops>>

(* The positions of the queue that generationDone does not skip. *)
Launchable ==
  {i \in 1..Len(queue) : queue[i] \in queued /\ queue[i] \notin terminal}

(* The worker leaves the pool and nobody follows it. *)
Leave(g) ==
  /\ active' = active \ {job[g]}
  /\ job' = [job EXCEPT ![g] = NoJob]
  /\ phase' = [phase EXCEPT ![g] = "idle"]
  /\ slots' = slots - 1

(* It hands its slot to entry k of the queue, whose goroutine takes over   *)
(* the name g; the entries before k are dropped.                           *)
HandOverFree(g, k) ==  \* mutant: the slot is not taken again
  /\ active' = (active \ {job[g]}) \cup {queue[k]}
  /\ job' = [job EXCEPT ![g] = queue[k]]
  /\ phase' = [phase EXCEPT ![g] = "generate"]
  /\ slots' = slots - 1
  /\ queue' = SubSeq(queue, k + 1, Len(queue))
  /\ queued' = queued \ {queue[i] : i \in 1..k}

HandOver(g, k) ==
  /\ active' = (active \ {job[g]}) \cup {queue[k]}
  /\ job' = [job EXCEPT ![g] = queue[k]]
  /\ phase' = [phase EXCEPT ![g] = "generate"]
  /\ UNCHANGED slots
  /\ queue' = SubSeq(queue, k + 1, Len(queue))
  /\ queued' = queued \ {queue[i] : i \in 1..k}

(* generationDone: free the slot and launch the first entry of the queue   *)
(* that can be launched. *)
GenerationDone(g) ==
  /\ phase[g] = "exit"
  /\ \/ life # "open" /\ Leave(g) /\ UNCHANGED <<queue, queued>>
     \/ /\ life = "open" /\ Launchable = {}
        /\ Leave(g)
        /\ queue' = <<>>
        /\ queued' = queued \ Range(queue)
     \/ life = "open" /\ Launchable # {} /\ HandOver(g, Min(Launchable))
  /\ UNCHANGED <<store, life, terminal, faults, stops>>

-----------------------------------------------------------------------------
(* Shutdown, crash and start of the process, and the passing of time. *)

(* Close: set the flag, cancel the workers' context, wait for handlers and *)
(* workers, release the writer lock. *)
CloseMark ==
  /\ life = "open"
  /\ stops < MaxStops
  /\ life' = "closed"
  /\ stops' = stops + 1
  /\ UNCHANGED <<store, sched, terminal, faults>>

CloseCancel ==
  /\ life = "closed"
  /\ life' = "cancelled"
  /\ UNCHANGED <<store, sched, terminal, faults, stops>>

(* The memory of the process is gone; what it stored stays. *)
Forget ==
  /\ life' = "down"
  /\ active' = {}
  /\ job' = [g \in Goroutines |-> NoJob]
  /\ phase' = [g \in Goroutines |-> "idle"]
  /\ slots' = 0
  /\ queue' = <<>>
  /\ queued' = {}
  /\ terminal' = {}
  /\ UNCHANGED <<store, faults>>

CloseEnd ==
  /\ life = "cancelled"
  /\ Busy = {}
  /\ Forget
  /\ UNCHANGED stops

Crash ==
  /\ life # "down"
  /\ stops < MaxStops
  /\ Forget
  /\ stops' = stops + 1

(* resumePending refuses to start over a store it cannot resume. *)
Resumable ==
  /\ Stored \subseteq requests
  /\ Cardinality(Pending) <= MaxPending

(* The listings of a set of files: its elements in some order. *)
Listings(S) ==
  {s \in [1..Cardinality(S) -> S] :
     /\ Range(s) = S
     /\ \A i, j \in DOMAIN s : i # j => s[i] # s[j]}

(* The ways to run each identifier of S in a goroutine of its own. *)
Placements(S) ==
  {a \in [Goroutines -> S \cup {NoJob}] :
     /\ S \subseteq Range(a)
     /\ \A g, h \in Goroutines : a[g] = a[h] /\ a[g] # NoJob => g = h}

(* The positions of the listing that find a free slot. *)
Taken(listing) == {i \in 1..Len(listing) : i <= MaxConcurrent}

(* New: resumePending starts every pending operation in the order of the   *)
(* directory listing: the first ones take the slots, the rest queue up.    *)
New(listing) ==
  /\ life = "down"
  /\ Resumable
  /\ LET launched == {listing[i] : i \in Taken(listing)}
     IN  /\ active' = launched
         /\ job' \in Placements(launched)
         /\ phase' = [g \in Goroutines |->
                        IF job'[g] = NoJob THEN "idle" ELSE "generate"]
         /\ slots' = Cardinality(launched)
         /\ queue' = SubSeq(listing, MaxConcurrent + 1, Len(listing))
         /\ queued' = Pending \ launched
  /\ life' = "open"
  /\ UNCHANGED <<store, terminal, faults, stops>>

(* Completed results go out of date: the refresh period or the lifetime    *)
(* ends.  No code runs when that happens. *)
Expire(gone) ==
  /\ gone # {}
  /\ \A id \in gone : disk[id] = "completed"
  /\ disk' = [id \in Ids |-> IF id \in gone THEN "stale" ELSE disk[id]]
  /\ UNCHANGED <<older, requests, life, sched, terminal, faults, stops>>

Worker(g) ==
  \/ \E next \in {"publish", "fail", "exit"} : GeneratorReturns(g, next)
  \/ \E next \in {"complete", "fail"} : PublishGenerated(g, next)
  \/ \E status \in Statuses, outcome \in SaveOutcomes :
       FinishOperation(g, status, outcome)
  \/ GenerationDone(g)

Start == \E listing \in Listings(Pending) : New(listing)

Next ==
  \/ \E id \in Ids : HandleCatalogSet(id) \/ HandleOperation(id)
  \/ \E g \in Goroutines : Worker(g)
  \/ \E gone \in SUBSET Ids : Expire(gone)
  \/ CloseMark
  \/ CloseCancel
  \/ CloseEnd
  \/ Crash
  \/ Start

Spec == Init /\ [][Next]_vars

(***************************************************************************)
(* Fairness.  The runtime schedules a runnable worker, the generator       *)
(* honours its deadline, and the supervisor restarts a process that is     *)
(* down; catalogclient polls an operation for as long as it is pending.    *)
(***************************************************************************)
Fairness ==
  /\ \A g \in Goroutines : WF_vars(Worker(g))
  /\ \A id \in Ids : WF_vars(PollPending(id))
  /\ WF_vars(CloseCancel)
  /\ WF_vars(CloseEnd)
  /\ WF_vars(Start)

FairSpec == Spec /\ Fairness

-----------------------------------------------------------------------------
(* Properties. *)

(* Every variable has the shape the code's fields and files have. *)
TypeOK ==
  /\ disk \in [Ids -> Statuses]
  /\ older \subseteq Ids \X Ids
  /\ requests \subseteq Ids
  /\ life \in Lives
  /\ active \subseteq Ids
  /\ job \in [Goroutines -> Ids \cup {NoJob}]
  /\ phase \in [Goroutines -> Phases]
  /\ slots \in Nat
  /\ queue \in Seq(Ids)
  /\ queued \subseteq Ids
  /\ terminal \subseteq Ids
  /\ faults \in Nat
  /\ stops \in Nat

(* generationSlots holds exactly one token per running worker, whatever    *)
(* mix of finishing, shutdown and restart came before: the receive and the *)
(* send that generationDone makes while it holds mu never block, and no    *)
(* more than MaxConcurrentGenerations generators run.                      *)
SlotAccounting ==
  /\ slots = Cardinality(Busy)
  /\ slots <= MaxConcurrent

(* The map active names exactly the operations that have a worker, and no  *)
(* operation has two: the check of active in startLocked and the separate  *)
(* critical sections of finishOperation and generationDone suffice.        *)
OneWorkerEach ==
  /\ active = {job[g] : g \in Busy}
  /\ \A g, h \in Busy : job[g] = job[h] => g = h

(* The slice queue and the map queued of Service describe the same         *)
(* waiting operations: each waits once, none of them is running, and none  *)
(* is one that generationDone would drop from the queue without running.   *)
QueueSound ==
  /\ Range(queue) = queued
  /\ \A i, j \in 1..Len(queue) : i # j => queue[i] # queue[j]
  /\ queued \cap (active \cup terminal) = {}

(* An open service never lets an admitted operation wait beside a free     *)
(* slot: nobody but generationDone takes operations off the queue.         *)
WorkConserving ==
  life = "open" /\ queue # <<>> => slots = MaxConcurrent

(* Running and waiting generations never exceed MaxPendingGenerations.     *)
AdmissionBound ==
  Cardinality(active) + Cardinality(queued) <= MaxPending

(* The scheduler's variables agree with each other whatever interleaves:   *)
(* tokens, workers, queue and limits.                                      *)
SchedulerSound ==
  SlotAccounting /\ OneWorkerEach /\ QueueSound /\ WorkConserving /\ AdmissionBound

(* What a worker is about to decide, or the queue is about to run, is an   *)
(* operation that is still pending on disk with its request beside it:     *)
(* eviction, refresh and other workers left it alone in the meantime.      *)
WorkIsPending ==
  \A id \in queued \cup {job[g] : g \in {h \in Busy : phase[h] # "exit"}} :
    disk[id] = "pending" /\ id \in requests

(* The operation quota holds however admission, eviction, failing saves    *)
(* and restarts interleave. *)
QuotaRespected == Cardinality(Stored) <= MaxStored

(* No operation file is without its request file, which resumePending      *)
(* insists on for every stored operation, decided ones included.           *)
RequestsKept == Stored \subseteq requests

(* The files agree with the scheduler and among themselves after every     *)
(* partial failure: pending work, quota and requests.                      *)
StoreSound == WorkIsPending /\ QuotaRespected /\ RequestsKept

(* Eviction removes no operation that is running, waiting, or pending with *)
(* its outcome still to come. *)
EvictionSpares ==
  [][\A id \in Ids :
       disk[id] # "absent" /\ disk'[id] = "absent"
         => /\ id \notin active \cup queued
            /\ disk[id] = "pending" => id \in terminal]_vars

(* A decided operation is never decided again in place: an outcome only    *)
(* ever replaces "pending", so a late worker cannot overwrite the result   *)
(* of a newer generation. *)
OutcomeReplacesPending ==
  [][\A id \in Ids :
       disk'[id] # disk[id] /\ disk'[id] \in {"completed", "failed"}
         => disk[id] = "pending"]_vars

(* A pending operation that clients keep polling is eventually decided, or *)
(* its outcome could not be persisted: this includes one left pending      *)
(* without a worker because it was refreshed between finishOperation and   *)
(* generationDone. *)
PendingServed ==
  \A id \in Ids : disk[id] = "pending" ~> disk[id] # "pending" \/ id \in terminal

(* New "resumes pending operations": the store a stopped service leaves    *)
(* behind is one that resumePending accepts.                               *)
RestartAccepted == life = "down" => Resumable

Lifecycle == INSTANCE OperationLifecycle
               WITH status <- disk, unrecorded <- terminal

(* What clients are promised about an operation, as OperationLifecycle     *)
(* states it: the service implements it with its operation files and its   *)
(* terminalErrors.                                                         *)
LifecycleSpec == Lifecycle!Spec

(* Instances for TLC: what is told apart by its name only.                  *)
Symmetry == Permutations(Ids) \cup Permutations(Goroutines)
=============================================================================
