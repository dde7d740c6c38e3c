------------------------ MODULE CatalogServiceProofs ------------------------
(***************************************************************************)
(* The safety properties of CatalogService, proved for any number of       *)
(* requests, any limits and any number of failing writes, shutdowns and    *)
(* crashes; then that it implements OperationLifecycle, and what its steps *)
(* may never do to an operation.                                           *)
(***************************************************************************)
EXTENDS CatalogService, FiniteSetTheorems, SequenceTheorems, TLAPS

(* A goroutine name is in use exactly while it has a job. *)
IdleHasNoJob ==
  \A g \in Goroutines : phase[g] = "idle" <=> job[g] = NoJob

(* What the scheduler's maps, queue and slots keep among themselves. *)
SchedulerInv ==
  /\ IdleHasNoJob
  /\ SlotAccounting
  /\ OneWorkerEach
  /\ QueueSound
  /\ WorkConserving
  /\ AdmissionBound

(* What the files keep among themselves and with the scheduler. *)
StoreInv ==
  /\ WorkIsPending
  /\ QuotaRespected
  /\ RequestsKept

(* A process that is down runs no worker and remembers no failed write. *)
DownForgets == life = "down" => Busy = {} /\ terminal = {}

(* The inductive invariant. *)
Inv == TypeOK /\ SchedulerInv /\ StoreInv /\ DownForgets

-----------------------------------------------------------------------------
(* The sets whose sizes the limits bound are finite. *)
LEMMA Finite ==
  ASSUME TypeOK
  PROVE  /\ IsFiniteSet(Busy) /\ Cardinality(Busy) \in Nat
         /\ IsFiniteSet(active) /\ Cardinality(active) \in Nat
         /\ IsFiniteSet(queued) /\ Cardinality(queued) \in Nat
         /\ IsFiniteSet(Stored) /\ Cardinality(Stored) \in Nat
         /\ IsFiniteSet(Pending) /\ Cardinality(Pending) \in Nat
<1>1. /\ Busy \in SUBSET Goroutines /\ active \in SUBSET Ids /\ queued \in SUBSET Ids
      /\ Stored \in SUBSET Ids /\ Pending \in SUBSET Ids
  BY DEF TypeOK, Busy, Stored, Pending
<1>2. IsFiniteSet(Ids) /\ IsFiniteSet(Goroutines)
  BY IdsAssumption, GoroutinesAssumption
<1>3. IsFiniteSet(Busy) /\ IsFiniteSet(active) /\ IsFiniteSet(queued)
      /\ IsFiniteSet(Stored) /\ IsFiniteSet(Pending)
  BY <1>1, <1>2, FS_Subset
<1>4. QED
  BY <1>3, FS_CardinalityType

(* Steps that leave the scheduler alone, and forget failed writes at most, *)
(* keep its invariant. *)
LEMMA SchedulerUnchanged ==
  ASSUME SchedulerInv, UNCHANGED sched, life' = "open" => life = "open",
         terminal' \cap queued \subseteq terminal
  PROVE  SchedulerInv'
<1>1. UNCHANGED <<Busy, Range(queue), Cardinality(active), Cardinality(queued)>>
  BY DEF sched, Busy
<1>2. IdleHasNoJob' /\ SlotAccounting' /\ OneWorkerEach' /\ AdmissionBound'
  BY <1>1 DEF SchedulerInv, IdleHasNoJob, SlotAccounting, OneWorkerEach, AdmissionBound,
     sched
<1>3. QueueSound'
  BY <1>1 DEF SchedulerInv, QueueSound, sched
<1>4. WorkConserving'
  BY DEF SchedulerInv, WorkConserving, sched
<1>5. QED
  BY <1>2, <1>3, <1>4 DEF SchedulerInv

(* startLocked keeps the scheduler's invariant. *)
LEMMA StartKeepsScheduler ==
  ASSUME TypeOK, SchedulerInv, NEW id \in Ids, StartLocked(id),
         life' = life, terminal' \subseteq terminal
  PROVE  /\ SchedulerInv'
         /\ active' \subseteq Ids /\ job' \in [Goroutines -> Ids \cup {NoJob}]
         /\ phase' \in [Goroutines -> Phases] /\ slots' \in Nat
         /\ queue' \in Seq(Ids) /\ queued' \subseteq Ids
<1>1. CASE ~Startable(id)
  <2>1. UNCHANGED sched
    BY <1>1 DEF StartLocked
  <2>2. SchedulerInv'
    BY <2>1, SchedulerUnchanged
  <2>3. QED
    BY <2>1, <2>2 DEF TypeOK, sched
<1>2. CASE Startable(id) /\ SlotFree
  <2>1. PICK g \in Goroutines \ Busy : Launch(id, g)
    BY <1>2 DEF StartLocked
  <2>2. /\ slots' = slots + 1 /\ UNCHANGED <<queue, queued>>
        /\ id \notin active /\ id \notin queued /\ id \notin terminal
        /\ Cardinality(active) + Cardinality(queued) < MaxPending
    BY <1>2 DEF StartLocked, Startable, Capacity
  <2>3. /\ active' = active \cup {id}
        /\ job' = [job EXCEPT ![g] = id]
        /\ phase' = [phase EXCEPT ![g] = "generate"]
        /\ phase[g] = "idle" /\ g \in Goroutines /\ g \notin Busy
    BY <2>1 DEF Launch, Busy
  <2>4. Busy' = Busy \cup {g}
    BY <2>3 DEF Busy, TypeOK
  <2>5. Cardinality(Busy') = Cardinality(Busy) + 1 /\ Cardinality(active') = Cardinality(active) + 1
    BY Zenon, <2>2, <2>3, <2>4, Finite, FS_AddElement
  <2>6. /\ active' \subseteq Ids /\ job' \in [Goroutines -> Ids \cup {NoJob}]
        /\ phase' \in [Goroutines -> Phases] /\ slots' \in Nat
        /\ queue' \in Seq(Ids) /\ queued' \subseteq Ids
    BY <2>2, <2>3 DEF TypeOK, Phases
  <2>7. IdleHasNoJob'
    BY <2>3, IdsAssumption DEF IdleHasNoJob, SchedulerInv, TypeOK
  <2>8. SlotAccounting'
    BY <1>2, <2>2, <2>5, LimitsAssumption, Finite
       DEF SlotAccounting, SchedulerInv, SlotFree, TypeOK
  <2>9. OneWorkerEach'
    BY <2>2, <2>3, <2>4 DEF OneWorkerEach, SchedulerInv, TypeOK, Busy
  <2>10. QueueSound'
    <3>1. Range(queue') = queued'
      BY <2>2 DEF QueueSound, SchedulerInv
    <3>2. QED
      BY <2>2, <2>3, <3>1 DEF QueueSound, SchedulerInv
  <2>11. WorkConserving'
    BY <1>2, <2>2, LimitsAssumption DEF WorkConserving, SchedulerInv, SlotFree, TypeOK
  <2>12. AdmissionBound'
    BY <2>2, <2>5, Finite, LimitsAssumption DEF AdmissionBound, SchedulerInv
  <2>13. QED
    BY <2>6, <2>7, <2>8, <2>9, <2>10, <2>11, <2>12 DEF SchedulerInv
<1>3. CASE Startable(id) /\ ~SlotFree
  <2>1. /\ queue' = Append(queue, id) /\ queued' = queued \cup {id}
        /\ UNCHANGED <<active, job, phase, slots>>
        /\ id \notin active /\ id \notin queued /\ id \notin terminal
        /\ Cardinality(active) + Cardinality(queued) < MaxPending
    BY <1>3 DEF StartLocked, Startable, Capacity
  <2>2. /\ queue' \in Seq(Ids) /\ Len(queue') = Len(queue) + 1 /\ Len(queue) \in Nat
        /\ \A i \in 1..Len(queue) : queue'[i] = queue[i]
        /\ queue'[Len(queue) + 1] = id
    BY <2>1, AppendProperties, LenProperties DEF TypeOK
  <2>3. Busy' = Busy /\ Cardinality(queued') = Cardinality(queued) + 1
    BY Zenon, <2>1, Finite, FS_AddElement DEF Busy
  <2>4. QueueSound'
    <3>1. Range(queue) = {queue[i] : i \in 1..Len(queue)}
      BY RangeEquality DEF TypeOK
    <3>2. Range(queue') = {queue'[i] : i \in 1..Len(queue')}
      BY <2>2, RangeEquality
    <3>3. Range(queue') = queued'
      BY <2>1, <2>2, <3>1, <3>2 DEF QueueSound, SchedulerInv
    <3>4. \A i \in 1..Len(queue) : queue[i] \in queued
      BY <3>1 DEF QueueSound, SchedulerInv
    <3>5. \A i, j \in 1..Len(queue') : i # j => queue'[i] # queue'[j]
      BY <2>1, <2>2, <3>4 DEF QueueSound, SchedulerInv
    <3>6. queued' \cap (active' \cup terminal') = {}
      BY <2>1 DEF QueueSound, SchedulerInv
    <3>7. QED
      BY <3>3, <3>5, <3>6 DEF QueueSound
  <2>5. IdleHasNoJob' /\ SlotAccounting' /\ OneWorkerEach'
    BY <2>1, <2>3 DEF IdleHasNoJob, SlotAccounting, OneWorkerEach, SchedulerInv
  <2>6. WorkConserving'
    BY <1>3, <2>1, LimitsAssumption
       DEF WorkConserving, SlotFree, SlotAccounting, SchedulerInv, TypeOK
  <2>7. AdmissionBound'
    BY <2>1, <2>3, Finite, LimitsAssumption DEF AdmissionBound, SchedulerInv
  <2>8. QED
    BY <2>1, <2>2, <2>4, <2>5, <2>6, <2>7 DEF SchedulerInv, TypeOK
<1>4. QED
  BY <1>1, <1>2, <1>3

-----------------------------------------------------------------------------
(* The operations whose outcome is still to come from this process. *)
InHand == queued \cup {job[g] : g \in {h \in Busy : phase[h] # "exit"}}

(* They are all running or waiting. *)
LEMMA InHandKnown ==
  ASSUME TypeOK, SchedulerInv
  PROVE  InHand \subseteq active \cup queued
BY DEF InHand, SchedulerInv, OneWorkerEach

(* startLocked adds its own operation to them at most. *)
LEMMA StartAddsOne ==
  ASSUME TypeOK, NEW id \in Ids, StartLocked(id)
  PROVE  InHand' \subseteq InHand \cup {id}
<1>1. CASE ~Startable(id)
  BY <1>1 DEF StartLocked, sched, InHand, Busy
<1>2. CASE Startable(id) /\ SlotFree
  <2>1. PICK g \in Goroutines \ Busy : Launch(id, g)
    BY <1>2 DEF StartLocked
  <2>2. QED
    BY <1>2, <2>1 DEF StartLocked, Launch, InHand, Busy, TypeOK
<1>3. CASE Startable(id) /\ ~SlotFree
  BY <1>3 DEF StartLocked, InHand, Busy
<1>4. QED
  BY <1>1, <1>2, <1>3

(* What evictOperationsLocked removes is stored, neither running nor       *)
(* waiting, and decided unless its outcome could not be recorded.          *)
LEMMA VictimsSpared ==
  ASSUME Inv, NEW max, NEW v \in Victims(max)
  PROVE  /\ v \in Stored /\ v \notin active /\ v \notin queued /\ v \notin InHand
         /\ disk[v] = "pending" => v \in terminal
<1>1. v \in Stored /\ v \notin active /\ (disk[v] = "pending" => v \in terminal)
  BY DEF Victims, Evictable
<1>2. v \notin queued
  BY <1>1 DEF Inv, SchedulerInv, StoreInv, QueueSound, WorkIsPending
<1>3. QED
  BY <1>1, <1>2, InHandKnown DEF Inv

(* The store's invariant, for a step that removes operations which are not *)
(* in hand and makes the operation of the request pending at most.         *)
LEMMA StoreKept ==
  ASSUME Inv, NEW id \in Ids, NEW gone \in SUBSET Ids,
         gone \cap InHand = {},
         InHand' \subseteq InHand \cup {id},
         id \in InHand' => disk'[id] = "pending",
         disk' \in [Ids -> Statuses],
         \A i \in Ids \ (gone \cup {id}) : disk'[i] = disk[i],
         \A i \in gone \ {id} : disk'[i] = "absent",
         disk'[id] \in {disk[id], "pending"},
         requests \ gone \subseteq requests',
         disk'[id] # "absent" => id \in requests',
         Cardinality(Stored') <= MaxStored
  PROVE  StoreInv'
<1>1. RequestsKept'
  BY DEF Inv, StoreInv, RequestsKept, Stored
<1>2. WorkIsPending'
  <2>1. SUFFICES ASSUME NEW i \in InHand'
                 PROVE  disk'[i] = "pending" /\ i \in requests'
    BY DEF WorkIsPending, InHand
  <2>2. CASE i = id
    BY <2>2
  <2>3. CASE i # id
    <3>1. i \in InHand /\ i \notin gone
      BY <2>3
    <3>2. i \in Ids /\ disk[i] = "pending" /\ i \in requests
      BY <3>1 DEF Inv, StoreInv, WorkIsPending, InHand, TypeOK
    <3>3. QED
      BY <2>3, <3>1, <3>2
  <2>4. QED
    BY <2>2, <2>3
<1>3. QED
  BY <1>1, <1>2 DEF StoreInv, QuotaRespected

-----------------------------------------------------------------------------
(* The handlers. *)

(* Removing victims leaves a well-typed, smaller store. *)
LEMMA SmallerStore ==
  ASSUME Inv, disk' \in [Ids -> Statuses],
         \A i \in Ids : disk'[i] # "absent" => disk[i] # "absent"
  PROVE  Cardinality(Stored') <= MaxStored
<1>1. Stored' \subseteq Stored
  BY DEF Stored
<1>2. Cardinality(Stored') <= Cardinality(Stored) /\ Cardinality(Stored') \in Nat
  BY <1>1, Finite, FS_Subset, FS_CardinalityType DEF Inv
<1>3. QED
  BY <1>2, Finite, LimitsAssumption DEF Inv, StoreInv, QuotaRespected

(* A failing or succeeding save moves the fault counter within its type.   *)
LEMMA FaultsTyped ==
  ASSUME TypeOK, NEW outcome, CountFault(outcome)
  PROVE  faults' \in Nat
BY DEF TypeOK, CountFault

(* A new POST keeps the invariant, whatever its eviction removes and       *)
(* whether or not saveOperation succeeds.                                  *)
LEMMA PostNewKeepsInv ==
  ASSUME Inv, NEW id \in Ids, NEW outcome \in SaveOutcomes, PostNew(id, outcome)
  PROVE  Inv'
<1> DEFINE victims == Victims(MaxStored - 1)
           kept == Stored \ victims
           left == [i \in Ids |-> IF i \in victims THEN "absent" ELSE disk[i]]
<1>1. /\ life # "down" /\ life' = life /\ stops' = stops
      /\ disk[id] = "absent" /\ QuotaLeft(kept) /\ CountFault(outcome)
      /\ disk' = Saved(left, id, "pending", outcome)
      /\ older' = Touched(Without(older, victims), kept, id, outcome)
      /\ requests' = (requests \ victims) \cup {id}
      /\ terminal' = terminal \ victims
      /\ IF outcome = "saved" THEN StartLocked(id) ELSE UNCHANGED sched
  BY DEF PostNew, Admitted
<1>2. victims \subseteq Stored /\ victims \cap InHand = {} /\ id \notin victims
  BY <1>1, VictimsSpared DEF Stored
<1>3. TypeOK
  BY DEF Inv
<1>4. left \in [Ids -> Statuses]
  BY <1>3 DEF TypeOK, Statuses
<1>5. /\ disk' \in [Ids -> Statuses]
      /\ \A i \in Ids \ {id} : disk'[i] = left[i]
      /\ disk'[id] \in {"absent", "pending"}
      /\ outcome = "saved" => disk'[id] = "pending"
  BY <1>1, <1>2, <1>4 DEF Saved, Statuses
<1>6. older' \subseteq Ids \X Ids
  BY <1>1, <1>3 DEF TypeOK, Touched, Without, Stored
<1>7. /\ SchedulerInv'
      /\ active' \subseteq Ids /\ job' \in [Goroutines -> Ids \cup {NoJob}]
      /\ phase' \in [Goroutines -> Phases] /\ slots' \in Nat
      /\ queue' \in Seq(Ids) /\ queued' \subseteq Ids
  <2>1. CASE outcome = "saved"
    BY <1>1, <1>3, <2>1, StartKeepsScheduler DEF Inv
  <2>2. CASE outcome # "saved"
    <3>1. UNCHANGED sched
      BY <1>1, <2>2
    <3>2. SchedulerInv'
      BY <1>1, <3>1, SchedulerUnchanged DEF Inv
    <3>3. QED
      BY <1>3, <3>1, <3>2 DEF TypeOK, sched
  <2>3. QED
    BY <2>1, <2>2
<1>8. TypeOK'
  <2>1. faults' \in Nat
    BY <1>1, <1>3, FaultsTyped
  <2>2. QED
    BY Zenon, <1>1, <1>3, <1>5, <1>6, <1>7, <2>1 DEF TypeOK
<1>9. /\ InHand' \subseteq InHand \cup {id}
      /\ id \in InHand' => disk'[id] = "pending"
  <2>1. CASE outcome = "saved"
    BY <1>1, <1>3, <1>5, <2>1, StartAddsOne
  <2>2. CASE outcome # "saved"
    <3>1. InHand' = InHand
      BY <1>1, <2>2 DEF sched, InHand, Busy
    <3>2. id \notin InHand
      BY <1>1 DEF Inv, StoreInv, WorkIsPending, InHand
    <3>3. QED
      BY <3>1, <3>2
  <2>3. QED
    BY <2>1, <2>2
<1>10. Cardinality(Stored') <= MaxStored
  <2>1. Stored' \subseteq kept \cup {id} /\ id \notin kept
    BY <1>1, <1>5 DEF Stored
  <2>2. IsFiniteSet(kept) /\ Cardinality(kept) \in Nat
    BY <1>3, Finite, FS_Subset, FS_CardinalityType
  <2>3. IsFiniteSet(kept \cup {id}) /\ Cardinality(kept \cup {id}) = Cardinality(kept) + 1
    BY <2>1, <2>2, FS_AddElement
  <2>4. Cardinality(Stored') <= Cardinality(kept) + 1 /\ Cardinality(Stored') \in Nat
    BY <2>1, <2>3, FS_Subset, FS_CardinalityType
  <2>5. Cardinality(kept) < MaxStored
    BY <1>1 DEF QuotaLeft
  <2>6. QED
    BY <2>2, <2>4, <2>5, LimitsAssumption
<1>11. StoreInv'
  <2>1. victims \in SUBSET Ids
    BY <1>2 DEF Stored
  <2>2. /\ \A i \in Ids \ (victims \cup {id}) : disk'[i] = disk[i]
        /\ \A i \in victims \ {id} : disk'[i] = "absent"
        /\ disk'[id] \in {disk[id], "pending"}
        /\ requests \ victims \subseteq requests' /\ id \in requests'
    BY <1>1, <1>2, <1>5, <2>1
  <2> HIDE DEF victims, kept, left
  <2>3. QED
    BY <1>2, <1>5, <1>9, <1>10, <2>1, <2>2, StoreKept
<1>12. QED
  BY <1>1, <1>7, <1>8, <1>11 DEF Inv, DownForgets

(* A request that only evicts, because a store call failed. *)
LEMMA EvictionKeepsInv ==
  ASSUME Inv, NEW gone \in SUBSET Ids, NEW dropped \in SUBSET Ids,
         gone \subseteq Victims(MaxStored - 1), dropped \subseteq gone,
         life # "down", UNCHANGED <<life, sched, stops>>, CountFault("lost"),
         disk' = [i \in Ids |-> IF i \in gone THEN "absent" ELSE disk[i]],
         older' = Without(older, gone),
         requests' = requests \ dropped,
         terminal' \subseteq terminal
  PROVE  Inv'
<1>1. TypeOK /\ SchedulerInv
  BY DEF Inv
<1>2. SchedulerInv'
  BY <1>1, SchedulerUnchanged
<1>3. TypeOK'
  BY <1>1, FaultsTyped DEF TypeOK, Without, Statuses, sched
<1>4. StoreInv'
  <2>1. InHand' = InHand /\ gone \cap InHand = {}
    BY VictimsSpared DEF InHand, Busy, sched
  <2>2. WorkIsPending'
    <3>1. SUFFICES ASSUME NEW i \in InHand
                   PROVE  disk'[i] = "pending" /\ i \in requests'
      BY <2>1 DEF WorkIsPending, InHand
    <3>2. i \in Ids /\ disk[i] = "pending" /\ i \in requests
      BY <1>1 DEF Inv, StoreInv, WorkIsPending, InHand, TypeOK
    <3>3. QED
      BY <2>1, <3>2
  <2>3. RequestsKept'
    BY <1>1 DEF Inv, StoreInv, RequestsKept, Stored, TypeOK
  <2>4. QuotaRespected'
    BY <1>1, <1>3, SmallerStore DEF TypeOK, QuotaRespected
  <2>5. QED
    BY <2>2, <2>3, <2>4 DEF StoreInv
<1>5. QED
  BY <1>2, <1>3, <1>4 DEF Inv, DownForgets

(* So does one that evicts and then fails in putRequest.                   *)
LEMMA PostUnstoredKeepsInv ==
  ASSUME Inv, NEW id \in Ids, PostUnstored(id)
  PROVE  Inv'
<1>1. Victims(MaxStored - 1) \in SUBSET Ids
  BY DEF Victims, Stored
<1>2. QED
  BY <1>1, EvictionKeepsInv DEF PostUnstored, Admitted

(* So does one whose eviction fails halfway through removeOperation.       *)
LEMMA PostEvictFailsKeepsInv ==
  ASSUME Inv, NEW id \in Ids, NEW v \in Ids, NEW unlinked \in SUBSET {v},
         PostEvictFails(id, v, unlinked)
  PROVE  Inv'
<1> DEFINE gone == {u \in Victims(MaxStored - 1) : <<u, v>> \in older}
<1>1. gone \cup {v} \subseteq Victims(MaxStored - 1)
  BY DEF PostEvictFails
<1>2. Victims(MaxStored - 1) \in SUBSET Ids
  BY DEF Victims, Stored
<1>3. /\ life # "down" /\ UNCHANGED <<life, sched, stops>> /\ CountFault("lost")
      /\ disk' = [i \in Ids |-> IF i \in gone \cup {v} THEN "absent" ELSE disk[i]]
      /\ older' = Without(older, gone \cup {v})
      /\ requests' = requests \ (gone \cup unlinked)
      /\ terminal' \subseteq terminal
  BY DEF PostEvictFails, Admitted
<1>4. gone \cup unlinked \subseteq gone \cup {v}
  OBVIOUS
<1> HIDE DEF gone
<1>5. QED
  BY <1>1, <1>2, <1>3, <1>4, EvictionKeepsInv

(* A handler that makes a known operation pending again, or finds it       *)
(* pending, and starts it. *)
LEMMA KnownKeepsInv ==
  ASSUME Inv, NEW id \in Ids, NEW outcome \in SaveOutcomes,
         life # "down", UNCHANGED <<life, terminal, stops>>,
         disk[id] \in {"pending", "failed", "stale"}, CountFault(outcome),
         disk' = Saved(disk, id, "pending", outcome),
         older' \in {older, Touched(older, Stored, id, outcome)},
         requests' \in {requests, requests \cup {id}}, id \in requests',
         IF outcome = "saved" THEN StartLocked(id) ELSE UNCHANGED sched
  PROVE  Inv'
<1>1. TypeOK /\ SchedulerInv
  BY DEF Inv
<1>2. /\ disk' \in [Ids -> Statuses]
      /\ \A i \in Ids \ {id} : disk'[i] = disk[i]
      /\ disk'[id] \in {disk[id], "pending"}
      /\ outcome = "saved" => disk'[id] = "pending"
  BY <1>1 DEF Saved, TypeOK, Statuses
<1>3. /\ SchedulerInv'
      /\ active' \subseteq Ids /\ job' \in [Goroutines -> Ids \cup {NoJob}]
      /\ phase' \in [Goroutines -> Phases] /\ slots' \in Nat
      /\ queue' \in Seq(Ids) /\ queued' \subseteq Ids
      /\ InHand' \subseteq InHand \cup {id}
      /\ id \in InHand' => disk'[id] = "pending"
  <2>1. CASE outcome = "saved"
    BY <1>1, <1>2, <2>1, StartKeepsScheduler, StartAddsOne
  <2>2. CASE outcome # "saved"
    <3>1. UNCHANGED sched
      BY <2>2
    <3>2. SchedulerInv'
      BY <1>1, <3>1, SchedulerUnchanged
    <3>3. InHand' = InHand
      BY <3>1 DEF InHand, Busy, sched
    <3>4. id \in InHand => disk[id] = "pending"
      BY DEF Inv, StoreInv, WorkIsPending, InHand
    <3>5. QED
      BY <1>1, <1>2, <3>1, <3>2, <3>3, <3>4 DEF TypeOK, sched
  <2>3. QED
    BY <2>1, <2>2
<1>4. older' \subseteq Ids \X Ids
  BY <1>1 DEF TypeOK, Touched, Stored
<1>5. TypeOK'
  BY <1>1, <1>2, <1>3, <1>4, FaultsTyped DEF TypeOK
<1>6. Cardinality(Stored') <= MaxStored
  BY <1>2, SmallerStore
<1>7. StoreInv'
  <2>1. requests \ {} \subseteq requests' /\ {} \in SUBSET Ids
    OBVIOUS
  <2>2. QED
    BY Zenon, <1>2, <1>3, <1>6, <2>1, StoreKept
<1>8. QED
  BY <1>3, <1>5, <1>7 DEF Inv, DownForgets

(* Both handlers, all their outcomes. *)
LEMMA HandlersKeepInv ==
  ASSUME Inv, NEW id \in Ids, HandleCatalogSet(id) \/ HandleOperation(id)
  PROVE  Inv'
<1>1. ASSUME NEW outcome \in SaveOutcomes, PostNew(id, outcome)
      PROVE  Inv'
  BY <1>1, PostNewKeepsInv
<1>2. ASSUME NEW outcome \in SaveOutcomes, PostRefresh(id, outcome) \/ PollRefresh(id, outcome)
      PROVE  Inv'
  BY <1>2, KnownKeepsInv DEF PostRefresh, PollRefresh, Admitted
<1>3. CASE PostUnstored(id)
  BY <1>3, PostUnstoredKeepsInv
<1>4. ASSUME NEW v \in Ids, NEW unlinked \in SUBSET {v}, PostEvictFails(id, v, unlinked)
      PROVE  Inv'
  BY <1>4, PostEvictFailsKeepsInv
<1>5. CASE PostPending(id) \/ PollPending(id)
  <2>1. disk' = Saved(disk, id, "pending", "saved")
    <3>1. disk' = disk /\ disk[id] = "pending" /\ disk \in [Ids -> Statuses]
      BY <1>5 DEF PostPending, PollPending, store, Inv, TypeOK
    <3>2. QED
      BY <3>1 DEF Saved
  <2>2. CountFault("saved") /\ older' = older /\ "saved" \in SaveOutcomes
    BY <1>5 DEF PostPending, PollPending, store, CountFault, SaveOutcomes
  <2>3. QED
    BY <1>5, <2>1, <2>2, KnownKeepsInv DEF PostPending, PollPending, Admitted, store
<1>6. QED
  BY <1>1, <1>2, <1>3, <1>4, <1>5 DEF HandleCatalogSet, HandleOperation

-----------------------------------------------------------------------------
(* The workers. *)

(* A worker moves on without leaving the pool; it may record its outcome.  *)
LEMMA WorkerStaysKeepsInv ==
  ASSUME Inv, NEW g \in Goroutines, NEW next \in Phases \ {"idle"},
         phase[g] # "idle", phase' = [phase EXCEPT ![g] = next],
         UNCHANGED <<requests, life, active, job, slots, queue, queued, stops>>,
         faults' \in Nat, older' \subseteq Ids \X Ids,
         terminal' \subseteq terminal \cup {job[g]},
         disk' \in [Ids -> Statuses],
         \A i \in Ids : disk'[i] # disk[i] =>
           phase[g] # "exit" /\ next = "exit" /\ i = job[g] /\ disk'[i] # "absent",
         phase[g] = "exit" => next = "exit", life # "down"
  PROVE  Inv'
<1>1. TypeOK /\ SchedulerInv /\ StoreInv
  BY DEF Inv
<1>2. Busy' = Busy /\ g \in Busy
  BY <1>1 DEF Busy, TypeOK
<1>3. job[g] \in Ids /\ job[g] \in active /\ job[g] \notin queued
  BY <1>1, <1>2 DEF SchedulerInv, OneWorkerEach, IdleHasNoJob, QueueSound, TypeOK
<1>4. TypeOK'
  BY <1>1, <1>3 DEF TypeOK
<1>5. IdleHasNoJob'
  BY <1>1 DEF SchedulerInv, IdleHasNoJob, TypeOK
<1>6. SlotAccounting' /\ OneWorkerEach' /\ AdmissionBound' /\ WorkConserving'
  BY <1>1, <1>2 DEF SchedulerInv, SlotAccounting, OneWorkerEach, AdmissionBound,
     WorkConserving
<1>7. QueueSound'
  <2>1. Range(queue') = queued' /\ queued' \cap (active' \cup terminal') = {}
    BY <1>1, <1>3 DEF SchedulerInv, QueueSound
  <2>2. QED
    BY <1>1, <2>1 DEF SchedulerInv, QueueSound
<1>8. WorkIsPending'
  <2>1. SUFFICES ASSUME NEW i \in InHand'
                 PROVE  disk'[i] = "pending" /\ i \in requests'
    BY DEF WorkIsPending, InHand
  <2>2. i \in InHand /\ (next = "exit" => i # job[g])
    BY <1>1, <1>2, <1>3 DEF InHand, SchedulerInv, OneWorkerEach, TypeOK, Busy
  <2>3. i \in Ids /\ disk[i] = "pending" /\ i \in requests
    BY <1>1, <2>2 DEF StoreInv, WorkIsPending, InHand, TypeOK
  <2>4. QED
    BY <2>2, <2>3
<1>9. \A i \in Ids : disk'[i] # "absent" <=> disk[i] # "absent"
  <2>1. phase[g] # "exit" => disk[job[g]] = "pending"
    BY <1>1, <1>2 DEF StoreInv, WorkIsPending
  <2>2. QED
    BY <2>1
<1>10. Stored' = Stored
  BY <1>9 DEF Stored
<1>11. RequestsKept' /\ QuotaRespected'
  BY <1>1, <1>10 DEF StoreInv, RequestsKept, QuotaRespected
<1>12. QED
  BY <1>4, <1>5, <1>6, <1>7, <1>8, <1>11 DEF Inv, SchedulerInv, StoreInv, DownForgets

(* A worker leaves the pool: its name and its slot are free again. *)
LEMMA LeaveKeepsPool ==
  ASSUME TypeOK, SchedulerInv, NEW g \in Goroutines, phase[g] = "exit", Leave(g)
  PROVE  /\ active' \subseteq active /\ job' \in [Goroutines -> Ids \cup {NoJob}]
         /\ phase' \in [Goroutines -> Phases] /\ slots' \in Nat
         /\ IdleHasNoJob' /\ SlotAccounting' /\ OneWorkerEach'
         /\ Cardinality(active') <= Cardinality(active) /\ Cardinality(active') \in Nat
<1>1. /\ active' = active \ {job[g]}
      /\ job' = [job EXCEPT ![g] = NoJob]
      /\ phase' = [phase EXCEPT ![g] = "idle"]
      /\ slots' = slots - 1
  BY DEF Leave
<1>2. Busy' = Busy \ {g} /\ g \in Busy
  BY <1>1 DEF Busy, TypeOK
<1>3. Cardinality(Busy') = Cardinality(Busy) - 1 /\ Cardinality(Busy') \in Nat
  BY <1>2, Finite, FS_RemoveElement, FS_CardinalityType
<1>4. SlotAccounting' /\ slots' \in Nat
  BY <1>1, <1>3, Finite, LimitsAssumption DEF SchedulerInv, SlotAccounting
<1>5. OneWorkerEach'
  <2>1. \A h \in Busy' : job'[h] = job[h] /\ job[h] # job[g]
    BY <1>1, <1>2 DEF SchedulerInv, OneWorkerEach, TypeOK, Busy
  <2>2. QED
    BY <1>1, <1>2, <2>1 DEF SchedulerInv, OneWorkerEach
<1>6. Cardinality(active') <= Cardinality(active) /\ Cardinality(active') \in Nat
  BY <1>1, Finite, FS_Subset, FS_CardinalityType
<1>7. IdleHasNoJob'
  BY <1>1 DEF SchedulerInv, IdleHasNoJob, TypeOK
<1>8. QED
  BY <1>1, <1>4, <1>5, <1>6, <1>7 DEF TypeOK, Phases

(* Every entry of the queue can be launched, so generationDone takes the   *)
(* first. *)
LEMMA FirstIsLaunched ==
  ASSUME TypeOK, SchedulerInv
  PROVE  /\ Launchable = 1..Len(queue) /\ Len(queue) \in Nat
         /\ \A i \in 1..Len(queue) : queue[i] \in queued
         /\ Launchable # {} => Min(Launchable) = 1 /\ 1 \in 1..Len(queue)
<1>1. Range(queue) = {queue[i] : i \in 1..Len(queue)} /\ Len(queue) \in Nat
  BY RangeEquality, LenProperties DEF TypeOK
<1>2. \A i \in 1..Len(queue) : queue[i] \in queued
  BY <1>1 DEF SchedulerInv, QueueSound
<1>3. Launchable = 1..Len(queue)
  BY <1>2 DEF Launchable, SchedulerInv, QueueSound
<1>4. ASSUME Launchable # {} PROVE Min(Launchable) = 1 /\ 1 \in 1..Len(queue)
  <2>1. 1 \in Launchable /\ \A j \in Launchable : 1 <= j
    BY SMTT(30), <1>1, <1>3, <1>4
  <2>2. \A x \in Launchable : (\A j \in Launchable : x <= j) => x = 1
    BY SMTT(30), <1>1, <1>3, <2>1
  <2>3. QED
    BY <1>3, <2>1, <2>2 DEF Min
<1>5. QED
  BY <1>1, <1>2, <1>3, <1>4

(* The worker hands its slot to the operation that waited longest. *)
LEMMA HandOverKeepsScheduler ==
  ASSUME TypeOK, SchedulerInv, NEW g \in Goroutines, phase[g] = "exit",
         Launchable # {}, HandOver(g, Min(Launchable)), UNCHANGED <<life, terminal>>
  PROVE  /\ SchedulerInv'
         /\ active' \subseteq Ids /\ job' \in [Goroutines -> Ids \cup {NoJob}]
         /\ phase' \in [Goroutines -> Phases] /\ slots' \in Nat
         /\ queue' \in Seq(Ids) /\ queued' \subseteq Ids
         /\ InHand' \subseteq InHand
<1> DEFINE id == queue[1]
<1>1. /\ 1 \in 1..Len(queue) /\ Len(queue) \in Nat
      /\ \A i \in 1..Len(queue) : queue[i] \in queued
      /\ Min(Launchable) = 1
  BY FirstIsLaunched
<1>2. id \in queued /\ id \in Ids /\ id \notin active /\ id # NoJob
  BY <1>1, IdsAssumption DEF TypeOK, SchedulerInv, QueueSound
<1>3. /\ active' = (active \ {job[g]}) \cup {id}
      /\ job' = [job EXCEPT ![g] = id]
      /\ phase' = [phase EXCEPT ![g] = "generate"]
      /\ slots' = slots
      /\ queue' = SubSeq(queue, 1 + 1, Len(queue))
      /\ queued' = queued \ {queue[i] : i \in 1..1}
  BY <1>1 DEF HandOver
<1>4. queued' = queued \ {id}
  BY SMTT(30), <1>3
<1>5. /\ queue' \in Seq(Ids) /\ Len(queue') = Len(queue) - 1
      /\ \A i \in 1..Len(queue') : queue'[i] = queue[i + 1]
  <2> DEFINE n == Len(queue)
             rest == SubSeq(queue, 2, n)
  <2>1. \A i \in 2..n : queue[i] \in Ids
    BY SMTT(30), <1>1 DEF TypeOK
  <2>2. /\ rest \in Seq(Ids)
        /\ Len(rest) = IF 2 <= n THEN n - 2 + 1 ELSE 0
        /\ \A i \in 1..(n - 2 + 1) : rest[i] = queue[2 + i - 1]
    BY SMTT(30), <1>1, <2>1, SubSeqProperties
  <2>3. queue' = rest /\ n \in Nat /\ n >= 1
    BY SMTT(30), <1>1, <1>3
  <2> HIDE DEF rest, n
  <2>4. queue' \in Seq(Ids) /\ Len(queue') = n - 1
    BY SMTT(30), <2>2, <2>3
  <2>5. ASSUME NEW i \in 1..Len(queue') PROVE queue'[i] = queue[i + 1]
    <3>1. i \in 1..(n - 2 + 1) /\ 2 + i - 1 = i + 1
      BY SMTT(30), <2>3, <2>4
    <3>2. QED
      BY <2>2, <2>3, <3>1
  <2>6. QED
    BY <2>4, <2>5 DEF n
<1>6. Busy' = Busy /\ g \in Busy
  BY <1>3 DEF Busy, TypeOK
<1>7. job[g] \in active
  BY <1>6 DEF SchedulerInv, OneWorkerEach
<1>8. QueueSound'
  <2>1. Range(queue) = {queue[i] : i \in 1..Len(queue)}
    BY RangeEquality DEF TypeOK
  <2>2. Range(queue') = {queue'[i] : i \in 1..Len(queue')}
    BY <1>5, RangeEquality
  <2>3. \A i \in 2..Len(queue) : queue[i] # id
    BY SMTT(30), <1>1 DEF SchedulerInv, QueueSound
  <2>4. Range(queue') = queued'
    <3>1. Range(queue') \subseteq queued'
      BY SMTT(30), <1>1, <1>4, <1>5, <2>2, <2>3
    <3>2. ASSUME NEW x \in queued' PROVE x \in Range(queue')
      <4>1. PICK i \in 1..Len(queue) : x = queue[i]
        BY <1>4, <2>1 DEF SchedulerInv, QueueSound
      <4>2. i # 1 /\ i - 1 \in 1..Len(queue') /\ queue'[i - 1] = x
        BY SMTT(30), <1>1, <1>4, <1>5, <4>1
      <4>3. QED
        BY <2>2, <4>2
    <3>3. QED
      BY Zenon, <3>1, <3>2
  <2>5. \A i, j \in 1..Len(queue') : i # j => queue'[i] # queue'[j]
    BY SMTT(30), <1>1, <1>5 DEF SchedulerInv, QueueSound
  <2>6. queued' \cap (active' \cup terminal') = {}
    BY <1>3, <1>4 DEF SchedulerInv, QueueSound
  <2>7. QED
    BY <2>4, <2>5, <2>6 DEF QueueSound
<1>9. OneWorkerEach'
  <2>1. \A h \in Busy : h # g => job'[h] = job[h] /\ job[h] # job[g] /\ job[h] \in active
    BY <1>3, <1>6 DEF SchedulerInv, OneWorkerEach, TypeOK, Busy
  <2>2. job'[g] = id
    BY <1>3 DEF TypeOK
  <2>3. QED
    BY SMTT(30), <1>2, <1>3, <1>6, <2>1, <2>2 DEF SchedulerInv, OneWorkerEach
<1>10. AdmissionBound'
  <2>1. IsFiniteSet(active \ {job[g]}) /\ Cardinality(active \ {job[g]}) = Cardinality(active) - 1
    BY Zenon, <1>7, Finite, FS_RemoveElement
  <2>2. Cardinality(active') = Cardinality(active)
    <3>1. id \notin active \ {job[g]}
      BY <1>2
    <3>2. Cardinality((active \ {job[g]}) \cup {id}) = Cardinality(active \ {job[g]}) + 1
      BY Zenon, <2>1, <3>1, FS_AddElement
    <3>3. QED
      BY SMTT(30), <1>3, <2>1, <3>2, Finite
  <2>3. Cardinality(queued') = Cardinality(queued) - 1
    BY Zenon, <1>2, <1>4, Finite, FS_RemoveElement
  <2>4. QED
    BY SMTT(30), <2>2, <2>3, Finite, LimitsAssumption DEF SchedulerInv, AdmissionBound
<1>11. IdleHasNoJob' /\ SlotAccounting'
  BY <1>2, <1>3, <1>6 DEF SchedulerInv, IdleHasNoJob, SlotAccounting, TypeOK
<1>12. WorkConserving'
  <2>1. queue # <<>>
    BY SMTT(30), <1>1
  <2>2. QED
    BY <1>3, <2>1 DEF SchedulerInv, WorkConserving
<1>13. InHand' \subseteq InHand
  BY <1>2, <1>3, <1>4 DEF InHand, Busy, TypeOK
<1>14. QED
  BY <1>2, <1>3, <1>4, <1>5, <1>8, <1>9, <1>10, <1>11, <1>12, <1>13
     DEF SchedulerInv, TypeOK, Phases

(* A worker that leaves keeps the invariant, alone or by handing its slot  *)
(* to the head of the queue.                                               *)
LEMMA GenerationDoneKeepsInv ==
  ASSUME Inv, NEW g \in Goroutines, GenerationDone(g)
  PROVE  Inv'
<1>1. TypeOK /\ SchedulerInv /\ StoreInv /\ phase[g] = "exit"
      /\ UNCHANGED <<store, life, terminal, faults, stops>> /\ life # "down"
  BY DEF Inv, GenerationDone, DownForgets, Busy
<1>2. ASSUME Leave(g), queue' \in Seq(Ids), queued' \subseteq queued, QueueSound', WorkConserving'
      PROVE  SchedulerInv' /\ TypeOK' /\ InHand' \subseteq InHand
  <2>1. /\ active' \subseteq active /\ job' \in [Goroutines -> Ids \cup {NoJob}]
        /\ phase' \in [Goroutines -> Phases] /\ slots' \in Nat
        /\ IdleHasNoJob' /\ SlotAccounting' /\ OneWorkerEach'
        /\ Cardinality(active') <= Cardinality(active) /\ Cardinality(active') \in Nat
    BY <1>1, <1>2, LeaveKeepsPool
  <2>2. Cardinality(queued') <= Cardinality(queued) /\ Cardinality(queued') \in Nat
    BY <1>1, <1>2, Finite, FS_Subset, FS_CardinalityType
  <2>3. AdmissionBound'
    BY SMTT(30), <1>1, <2>1, <2>2, Finite, LimitsAssumption DEF SchedulerInv, AdmissionBound
  <2>4. InHand' \subseteq InHand
    BY <1>1, <1>2 DEF InHand, Busy, Leave, TypeOK
  <2>5. QED
    BY <1>1, <1>2, <2>1, <2>3, <2>4 DEF SchedulerInv, TypeOK, store
<1>3. SchedulerInv' /\ TypeOK' /\ InHand' \subseteq InHand
  <2>1. CASE life # "open" /\ Leave(g) /\ UNCHANGED <<queue, queued>>
    <3>1. Range(queue') = queued' /\ queued' \cap (active' \cup terminal') = {}
      BY <1>1, <2>1 DEF SchedulerInv, QueueSound, Leave
    <3>2. QueueSound' /\ WorkConserving'
      BY <1>1, <2>1, <3>1 DEF SchedulerInv, QueueSound, WorkConserving
    <3>3. QED
      BY <1>1, <1>2, <2>1, <3>2 DEF TypeOK
  <2>2. CASE Leave(g) /\ queue' = <<>> /\ queued' = queued \ Range(queue)
    <3>1. queue' \in Seq(Ids) /\ Len(queue') = 0 /\ Range(queue') = {}
      BY SMTT(30), <2>2 DEF Range
    <3>2. queued' = {}
      BY <1>1, <2>2 DEF SchedulerInv, QueueSound
    <3>3. QueueSound' /\ WorkConserving'
      BY SMTT(30), <2>2, <3>1, <3>2 DEF QueueSound, WorkConserving
    <3>4. QED
      BY <1>2, <2>2, <3>1, <3>2, <3>3
  <2>3. CASE Launchable # {} /\ HandOver(g, Min(Launchable))
    BY <1>1, <2>3, HandOverKeepsScheduler DEF TypeOK, store
  <2>4. QED
    BY <2>1, <2>2, <2>3 DEF GenerationDone
<1>4. StoreInv'
  <2>1. Stored' = Stored
    BY <1>1 DEF Stored, store
  <2>2. RequestsKept' /\ QuotaRespected'
    BY <1>1, <2>1 DEF StoreInv, RequestsKept, QuotaRespected, store
  <2>3. WorkIsPending'
    BY <1>1, <1>3 DEF StoreInv, WorkIsPending, InHand, store
  <2>4. QED
    BY <2>2, <2>3 DEF StoreInv
<1>5. QED
  BY <1>1, <1>3, <1>4 DEF Inv, DownForgets

(* All the steps of a worker. *)
LEMMA WorkerKeepsInv ==
  ASSUME Inv, NEW g \in Goroutines, Worker(g)
  PROVE  Inv'
<1>1. TypeOK /\ (life = "down" => Busy = {}) /\ (phase[g] # "idle" => g \in Busy)
  BY DEF Inv, DownForgets, Busy
<1>2. ASSUME NEW next \in {"publish", "fail", "exit"}, GeneratorReturns(g, next)
      PROVE  Inv'
  <2>1. next \in Phases \ {"idle"} /\ phase[g] = "generate"
        /\ phase' = [phase EXCEPT ![g] = next]
        /\ UNCHANGED <<store, life, active, job, slots, queue, queued, terminal, faults, stops>>
    BY <1>2 DEF GeneratorReturns, Phases
  <2>2. QED
    BY Zenon, <1>1, <2>1, WorkerStaysKeepsInv DEF store, TypeOK
<1>3. ASSUME NEW next \in {"complete", "fail"}, PublishGenerated(g, next)
      PROVE  Inv'
  <2>1. next \in Phases \ {"idle"} /\ phase[g] = "publish"
        /\ phase' = [phase EXCEPT ![g] = next]
        /\ UNCHANGED <<store, life, active, job, slots, queue, queued, terminal, faults, stops>>
    BY <1>3 DEF PublishGenerated, Phases
  <2>2. QED
    BY Zenon, <1>1, <2>1, WorkerStaysKeepsInv DEF store, TypeOK
<1>4. ASSUME NEW status \in Statuses, NEW outcome \in SaveOutcomes,
             FinishOperation(g, status, outcome)
      PROVE  Inv'
  <2>1. /\ phase[g] \in {"complete", "fail"} /\ status # "absent"
        /\ CountFault(outcome)
        /\ disk' = Saved(disk, job[g], status, outcome)
        /\ older' = Touched(older, Stored, job[g], outcome)
        /\ terminal' \subseteq terminal \cup {job[g]}
        /\ phase' = [phase EXCEPT ![g] = "exit"]
        /\ UNCHANGED <<requests, life, active, job, slots, queue, queued, stops>>
    BY <1>4 DEF FinishOperation
  <2>2. job[g] \in Ids
    BY <1>1, <2>1 DEF Inv, SchedulerInv, IdleHasNoJob, TypeOK
  <2>3. /\ disk' \in [Ids -> Statuses]
        /\ \A i \in Ids : disk'[i] # disk[i] => i = job[g] /\ disk'[i] # "absent"
    BY <1>1, <2>1, <2>2 DEF Saved, TypeOK
  <2>4. older' \subseteq Ids \X Ids /\ faults' \in Nat
    BY SMTT(30), <1>1, <2>1, <2>2, FaultsTyped DEF TypeOK, Touched, Stored
  <2>5. "exit" \in Phases \ {"idle"}
    BY DEF Phases
  <2>6. QED
    BY Zenon, <1>1, <2>1, <2>3, <2>4, <2>5, WorkerStaysKeepsInv
<1>5. QED
  BY <1>2, <1>3, <1>4, GenerationDoneKeepsInv DEF Worker

-----------------------------------------------------------------------------
(* Shutdown, crash, restart and time. *)

(* A process that stops keeps its files and forgets the rest. *)
LEMMA ForgetKeepsInv ==
  ASSUME Inv, Forget, stops' \in Nat
  PROVE  Inv'
<1>1. /\ UNCHANGED <<disk, older, requests, faults>>
      /\ life' = "down" /\ active' = {} /\ queue' = <<>> /\ queued' = {} /\ slots' = 0
      /\ job' = [g \in Goroutines |-> NoJob] /\ terminal' = {}
      /\ phase' = [g \in Goroutines |-> "idle"]
  BY DEF Forget, store
<1>2. TypeOK'
  BY SMTT(30), <1>1 DEF Inv, TypeOK, Lives, Phases
<1>3. Busy' = {} /\ Stored' = Stored /\ Range(queue') = {}
  BY SMTT(30), <1>1 DEF Busy, Stored, Range
<1>4. Cardinality({}) = 0
  BY FS_EmptySet
<1>5. IdleHasNoJob' /\ OneWorkerEach' /\ QueueSound' /\ WorkConserving' /\ WorkIsPending'
  BY SMTT(30), <1>1, <1>3 DEF IdleHasNoJob, OneWorkerEach, QueueSound, WorkConserving, WorkIsPending
<1>6. SlotAccounting' /\ AdmissionBound'
  BY SMTT(30), <1>1, <1>3, <1>4, LimitsAssumption DEF SlotAccounting, AdmissionBound
<1>7. RequestsKept' /\ QuotaRespected'
  BY <1>1, <1>3 DEF Inv, StoreInv, RequestsKept, QuotaRespected
<1>8. QED
  BY <1>1, <1>2, <1>3, <1>5, <1>6, <1>7 DEF Inv, SchedulerInv, StoreInv, DownForgets

(* Results that go out of date stay where they are. *)
LEMMA ExpireKeepsInv ==
  ASSUME Inv, NEW gone \in SUBSET Ids, Expire(gone)
  PROVE  Inv'
<1>1. /\ disk' = [id \in Ids |-> IF id \in gone THEN "stale" ELSE disk[id]]
      /\ \A id \in gone : disk[id] = "completed"
      /\ UNCHANGED <<older, requests, life, sched, terminal, faults, stops>>
  BY DEF Expire
<1>2. TypeOK'
  BY <1>1 DEF Inv, TypeOK, Statuses, sched
<1>3. SchedulerInv'
  BY <1>1, SchedulerUnchanged DEF Inv
<1>4. Stored' = Stored
  BY <1>1 DEF Stored, Inv, TypeOK
<1>5. RequestsKept' /\ QuotaRespected'
  BY <1>1, <1>4 DEF Inv, StoreInv, RequestsKept, QuotaRespected
<1>6. WorkIsPending'
  <2>1. InHand' = InHand
    BY <1>1 DEF InHand, Busy, sched
  <2>2. \A id \in InHand : id \in Ids /\ disk[id] = "pending" /\ id \in requests
    BY DEF Inv, StoreInv, WorkIsPending, InHand, TypeOK
  <2>3. QED
    BY <1>1, <2>1, <2>2 DEF WorkIsPending, InHand
<1>7. DownForgets'
  BY <1>1 DEF Inv, DownForgets, Busy, sched
<1>8. QED
  BY <1>2, <1>3, <1>5, <1>6, <1>7 DEF Inv, StoreInv

(* Setting the flag of Close, or cancelling, touches no operation. *)
LEMMA CloseKeepsInv ==
  ASSUME Inv, CloseMark \/ CloseCancel
  PROVE  Inv'
<1>1. /\ UNCHANGED <<store, sched, terminal, faults>>
      /\ life' \in {"closed", "cancelled"} /\ stops' \in Nat
  BY SMTT(30) DEF CloseMark, CloseCancel, Inv, TypeOK
<1>2. TypeOK'
  BY <1>1 DEF Inv, TypeOK, Lives, store, sched
<1>3. SchedulerInv'
  BY <1>1, SchedulerUnchanged DEF Inv
<1>4. StoreInv'
  BY <1>1 DEF Inv, StoreInv, WorkIsPending, RequestsKept, QuotaRespected, Stored, Busy,
     store, sched
<1>5. QED
  BY <1>1, <1>2, <1>3, <1>4 DEF Inv, DownForgets

(* The number of slots resumePending takes: one per operation it launches, *)
(* all of them when anything is left to wait.                              *)
LEMMA LaunchedCount ==
  ASSUME NEW S \in SUBSET Ids, NEW listing \in Listings(S)
  PROVE  LET launched == {listing[i] : i \in Taken(listing)}
         IN  /\ launched \subseteq S
             /\ IsFiniteSet(launched) /\ Cardinality(launched) \in Nat
             /\ Cardinality(launched) <= MaxConcurrent
             /\ Len(listing) > MaxConcurrent => Cardinality(launched) = MaxConcurrent
             /\ Len(listing) \in Nat /\ listing \in Seq(S)
<1> DEFINE n == Cardinality(S)
           launched == {listing[i] : i \in Taken(listing)}
           t == IF n <= MaxConcurrent THEN n ELSE MaxConcurrent
           f == [i \in 1..t |-> listing[i]]
<1>1. IsFiniteSet(S) /\ n \in Nat
  BY IdsAssumption, FS_Subset, FS_CardinalityType
<1>2. listing \in [1..n -> S] /\ \A i, j \in 1..n : i # j => listing[i] # listing[j]
  BY DEF Listings
<1>3. listing \in Seq(S) /\ Len(listing) = n
  BY SMTT(30), <1>1, <1>2, IsASeq, LenProperties
<1>4. t \in Nat /\ Taken(listing) = 1..t /\ t <= MaxConcurrent /\ t <= n
  BY SMTT(30), <1>1, <1>3, LimitsAssumption DEF Taken
<1>5. IsFiniteSet(1..t) /\ Cardinality(1..t) = t
  BY SMTT(30), <1>4, FS_Interval
<1>6. f \in Surjection(1..t, launched) /\ f \in Injection(1..t, launched)
  <2> HIDE DEF t
  <2>1. f \in [1..t -> launched]
    BY <1>4
  <2>2. \A y \in launched : \E i \in 1..t : f[i] = y
    BY <1>4
  <2>3. \A i, j \in 1..t : f[i] = f[j] => i = j
    BY SMTT(30), <1>1, <1>2, <1>4
  <2>4. QED
    BY Zenon, <2>1, <2>2, <2>3 DEF Surjection, Injection, IsInjective
<1>7. IsFiniteSet(launched) /\ Cardinality(launched) = t
  <2> HIDE DEF f, launched, t
  <2>1. QED
    BY <1>5, <1>6, FS_Surjection
<1>8. launched \subseteq S
  BY SMTT(30), <1>1, <1>2, <1>4
<1>9. QED
  BY SMTT(30), <1>1, <1>3, <1>4, <1>7, <1>8, LimitsAssumption

(* The positions that remain after the first k of n. *)
LEMMA ShiftedPosition ==
  ASSUME NEW k \in Nat, NEW n \in Nat, NEW l, l = IF n > k THEN n - k ELSE 0
  PROVE  \A i \in 1..l : k + i \in 1..n /\ k + i > k
<1>1. CASE n > k
  BY SMTT(30), <1>1
<1>2. CASE ~(n > k)
  BY SMTT(30), <1>2
<1>3. QED
  BY <1>1, <1>2

(* A restarted process resumes every pending operation exactly once. *)
LEMMA NewKeepsInv ==
  ASSUME Inv, NEW listing \in Listings(Pending), New(listing)
  PROVE  Inv'
<1> DEFINE launched == {listing[i] : i \in Taken(listing)}
           rest == SubSeq(listing, MaxConcurrent + 1, Len(listing))
           n == Len(listing)
<1>1. /\ life = "down" /\ Stored \subseteq requests /\ Cardinality(Pending) <= MaxPending
      /\ active' = launched /\ job' \in Placements(launched)
      /\ phase' = [g \in Goroutines |-> IF job'[g] = NoJob THEN "idle" ELSE "generate"]
      /\ slots' = Cardinality(launched)
      /\ queue' = rest /\ queued' = Pending \ launched
      /\ life' = "open" /\ UNCHANGED <<store, terminal, faults, stops>>
  BY DEF New, Resumable
<1>2. TypeOK /\ terminal = {} /\ terminal' = {}
  BY <1>1 DEF Inv, DownForgets
<1>3. /\ launched \subseteq Pending
      /\ IsFiniteSet(launched) /\ Cardinality(launched) \in Nat
      /\ Cardinality(launched) <= MaxConcurrent
      /\ n > MaxConcurrent => Cardinality(launched) = MaxConcurrent
      /\ n \in Nat /\ listing \in Seq(Pending)
  BY Zenon, LaunchedCount DEF Pending
<1>4. /\ Pending \subseteq Ids /\ NoJob \notin launched
      /\ IsFiniteSet(Pending) /\ Cardinality(Pending) \in Nat
  BY <1>2, <1>3, IdsAssumption, Finite DEF Pending
<1>5. \A i, j \in 1..n : i # j => listing[i] # listing[j]
  <2>1. DOMAIN listing = 1..n
    BY <1>3, LenProperties
  <2>2. QED
    BY Zenon, <2>1 DEF Listings
<1>6. Pending = {listing[i] : i \in 1..n}
  <2>1. Range(listing) = Pending
    BY DEF Listings
  <2>2. QED
    BY <1>3, <2>1, RangeEquality
<1>7. Taken(listing) = {i \in 1..n : i <= MaxConcurrent}
  BY DEF Taken
<1>8. /\ rest \in Seq(Pending)
      /\ Len(rest) = IF n > MaxConcurrent THEN n - MaxConcurrent ELSE 0
      /\ \A i \in 1..Len(rest) : rest[i] = listing[MaxConcurrent + i]
  <2>1. \A i \in (MaxConcurrent + 1)..n : listing[i] \in Pending
    BY SMTT(30), <1>3, LimitsAssumption
  <2>2. /\ rest \in Seq(Pending)
        /\ Len(rest) = IF MaxConcurrent + 1 <= n THEN n - (MaxConcurrent + 1) + 1 ELSE 0
        /\ \A i \in 1..(n - (MaxConcurrent + 1) + 1) :
             rest[i] = listing[(MaxConcurrent + 1) + i - 1]
    BY SMTT(30), <1>3, <2>1, LimitsAssumption, SubSeqProperties
  <2> HIDE DEF rest, n
  <2>3. Len(rest) = IF n > MaxConcurrent THEN n - MaxConcurrent ELSE 0
    BY SMTT(30), <1>3, <2>2, LimitsAssumption
  <2>4. ASSUME NEW i \in 1..Len(rest) PROVE rest[i] = listing[MaxConcurrent + i]
    <3>1. i \in 1..(n - (MaxConcurrent + 1) + 1) /\ (MaxConcurrent + 1) + i - 1 = MaxConcurrent + i
      BY SMTT(30), <1>3, <2>3, LimitsAssumption
    <3>2. QED
      BY <2>2, <3>1
  <2>5. QED
    BY <2>2, <2>3, <2>4
<1> HIDE DEF rest, n
<1>8a. \A i \in 1..Len(rest) : MaxConcurrent + i \in 1..n /\ MaxConcurrent + i > MaxConcurrent
  <2>1. MaxConcurrent \in Nat /\ n \in Nat
    BY <1>3, LimitsAssumption
  <2>2. QED
    BY <1>8, <2>1, ShiftedPosition
<1>9. Range(rest) = Pending \ launched
  <2>1. Range(rest) = {rest[i] : i \in 1..Len(rest)}
    BY <1>8, RangeEquality
  <2>2. ASSUME NEW x \in Range(rest) PROVE x \in Pending \ launched
    <3>1. PICK i \in 1..Len(rest) : x = rest[i]
      BY <2>1
    <3>2. MaxConcurrent + i \in 1..n /\ MaxConcurrent + i > MaxConcurrent
      BY <1>8a
    <3>3. x = listing[MaxConcurrent + i]
      BY <1>8, <3>1
    <3>4. x \in Pending
      BY <1>6, <3>2, <3>3
    <3>5. \A j \in Taken(listing) : listing[j] # x
      BY SMTT(30), <1>3, <1>5, <1>7, <3>2, <3>3, LimitsAssumption
    <3>6. QED
      BY <3>4, <3>5
  <2>3. ASSUME NEW x \in Pending \ launched PROVE x \in Range(rest)
    <3>1. PICK i \in 1..n : x = listing[i]
      BY <1>6
    <3>2. i > MaxConcurrent
      BY SMTT(30), <1>3, <1>7, <3>1, LimitsAssumption
    <3>3. i - MaxConcurrent \in 1..Len(rest) /\ MaxConcurrent + (i - MaxConcurrent) = i
      BY SMTT(30), <1>3, <1>8, <3>2, LimitsAssumption
    <3>4. rest[i - MaxConcurrent] = x
      BY <1>8, <3>1, <3>3
    <3>5. QED
      BY <2>1, <3>3, <3>4
  <2>4. QED
    BY <2>2, <2>3
<1>10. QueueSound'
  <2>1. \A i, j \in 1..Len(rest) : i # j => rest[i] # rest[j]
    <3>1. \A i \in 1..Len(rest) : MaxConcurrent + i \in 1..n
      BY <1>8a
    <3>2. QED
      BY SMTT(30), <1>5, <1>8, <3>1, LimitsAssumption
  <2>2. queued' \cap (active' \cup terminal') = {}
    BY <1>1, <1>2
  <2>3. QED
    BY <1>1, <1>9, <2>1, <2>2 DEF QueueSound
<1> HIDE DEF launched
<1>11. /\ job' \in [Goroutines -> launched \cup {NoJob}]
       /\ launched \subseteq {job'[g] : g \in Goroutines}
       /\ \A g, h \in Goroutines : job'[g] = job'[h] /\ job'[g] # NoJob => g = h
  BY <1>1 DEF Placements, Range
<1>12. Busy' = {g \in Goroutines : job'[g] # NoJob}
  BY <1>1 DEF Busy
<1>13. OneWorkerEach'
  <2>1. {job'[g] : g \in Busy'} = launched
    BY <1>4, <1>11, <1>12
  <2>2. QED
    BY <1>1, <1>11, <1>12, <2>1 DEF OneWorkerEach
<1>14. SlotAccounting'
  <2> DEFINE f == [g \in Busy' |-> job'[g]]
  <2>1. f \in Bijection(Busy', launched)
    <3>1. f \in [Busy' -> launched]
      BY <1>11, <1>12
    <3>2. \A x \in launched : \E g \in Busy' : f[g] = x
      BY <1>4, <1>11, <1>12
    <3>3. \A g, h \in Busy' : f[g] = f[h] => g = h
      BY <1>11, <1>12
    <3>4. QED
      BY <3>1, <3>2, <3>3 DEF Bijection, Injection, Surjection, IsInjective
  <2>2. IsFiniteSet(Busy')
    BY <1>12, GoroutinesAssumption, FS_Subset
  <2>3. Cardinality(launched) = Cardinality(Busy')
    BY <2>1, <2>2, FS_Bijection DEF ExistsBijection
  <2>4. QED
    BY <1>1, <1>3, <2>3 DEF SlotAccounting
<1>15. AdmissionBound'
  <2>1. Pending \cap launched = launched
    BY <1>3
  <2>2. Cardinality(Pending \ launched) = Cardinality(Pending) - Cardinality(launched)
    BY Zenon, <1>4, <2>1, FS_Difference
  <2>3. QED
    BY SMTT(30), <1>1, <1>3, <1>4, <2>2, LimitsAssumption DEF AdmissionBound
<1>16. WorkConserving'
  <2>1. rest # <<>> => Len(rest) # 0
    BY <1>8, EmptySeq
  <2>2. QED
    BY <1>1, <1>3, <1>8, <2>1 DEF WorkConserving
<1>17. IdleHasNoJob'
  BY <1>1 DEF IdleHasNoJob
<1>18. TypeOK'
  <2>1. rest \in Seq(Ids)
    BY SMTT(30), <1>4, <1>8
  <2>2. QED
    BY <1>1, <1>2, <1>3, <1>4, <1>11, <2>1 DEF TypeOK, store, Lives, Phases
<1>19. StoreInv'
  <2>1. Stored' = Stored
    BY <1>1 DEF Stored, store
  <2>2. RequestsKept' /\ QuotaRespected'
    BY <1>1, <2>1 DEF Inv, StoreInv, RequestsKept, QuotaRespected, store
  <2>3. queued' \cup {job'[g] : g \in Busy'} \subseteq Pending
    BY <1>1, <1>3, <1>11, <1>12
  <2>4. WorkIsPending'
    BY <1>1, <2>3 DEF WorkIsPending, Pending, Stored, store
  <2>5. QED
    BY <2>2, <2>4 DEF StoreInv
<1>20. QED
  BY <1>1, <1>10, <1>13, <1>14, <1>15, <1>16, <1>17, <1>18, <1>19
     DEF Inv, SchedulerInv, DownForgets

-----------------------------------------------------------------------------
(* The theorems. *)

LEMMA InitInv == Init => Inv
<1> SUFFICES ASSUME Init PROVE Inv
  OBVIOUS
<1>1. TypeOK
  BY SMTT(30) DEF Init, TypeOK, Statuses, Lives, Phases
<1>2. Busy = {} /\ Stored = {} /\ Range(queue) = {}
  BY SMTT(30) DEF Init, Busy, Stored, Range
<1>3. Cardinality({}) = 0
  BY FS_EmptySet
<1>4. IdleHasNoJob /\ OneWorkerEach /\ QueueSound /\ WorkConserving /\ WorkIsPending
  BY SMTT(30), <1>2 DEF Init, IdleHasNoJob, OneWorkerEach, QueueSound, WorkConserving, WorkIsPending
<1>5. SlotAccounting /\ AdmissionBound /\ QuotaRespected /\ RequestsKept
  BY SMTT(30), <1>2, <1>3, LimitsAssumption
     DEF Init, SlotAccounting, AdmissionBound, QuotaRespected, RequestsKept
<1>6. QED
  BY <1>1, <1>2, <1>4, <1>5 DEF Init, Inv, SchedulerInv, StoreInv, DownForgets

(* Every step of the service keeps the invariant: one case per action.     *)
LEMMA NextInv == Inv /\ [Next]_vars => Inv'
<1> SUFFICES ASSUME Inv, [Next]_vars PROVE Inv'
  OBVIOUS
<1>1. ASSUME NEW id \in Ids, HandleCatalogSet(id) \/ HandleOperation(id) PROVE Inv'
  BY <1>1, HandlersKeepInv
<1>2. ASSUME NEW g \in Goroutines, Worker(g) PROVE Inv'
  BY <1>2, WorkerKeepsInv
<1>3. ASSUME NEW gone \in SUBSET Ids, Expire(gone) PROVE Inv'
  BY <1>3, ExpireKeepsInv
<1>4. CASE CloseMark \/ CloseCancel
  BY <1>4, CloseKeepsInv
<1>5. CASE CloseEnd \/ Crash
  BY SMTT(30), <1>5, ForgetKeepsInv DEF CloseEnd, Crash, Inv, TypeOK
<1>6. CASE Start
  BY <1>6, NewKeepsInv DEF Start
<1>7. CASE UNCHANGED vars
  <2>1. UNCHANGED <<sched, store, life, terminal, faults, stops>>
    BY <1>7 DEF vars, sched, store
  <2>2. SchedulerInv'
    BY <2>1, SchedulerUnchanged DEF Inv
  <2>3. StoreInv' /\ DownForgets' /\ TypeOK'
    BY <2>1 DEF Inv, StoreInv, DownForgets, TypeOK, WorkIsPending, QuotaRespected,
       RequestsKept, Stored, Busy, store, sched
  <2>4. QED
    BY <2>2, <2>3 DEF Inv
<1>8. QED
  BY <1>1, <1>2, <1>3, <1>4, <1>5, <1>6, <1>7 DEF Next

(* The inductive invariant holds in every reachable state. *)
THEOREM Invariance == Spec => []Inv
BY InitInv, NextInv, PTL DEF Spec

(* Every reachable state is well typed. *)
THEOREM TypeCorrect == Spec => []TypeOK
<1>1. Inv => TypeOK
  BY DEF Inv
<1>2. QED
  BY <1>1, Invariance, PTL

(* For all limits and any number of requests and workers: one token per    *)
(* running worker, so that the receive and the send generationDone makes   *)
(* under mu never block; no operation with two workers; a queue that lists *)
(* what can be launched; no operation that waits beside a free slot; and   *)
(* the admission limit, refreshed and resumed operations included.         *)
THEOREM SchedulerCorrect == Spec => []SchedulerSound
<1>1. Inv => SchedulerSound
  BY DEF Inv, SchedulerInv, SchedulerSound
<1>2. QED
  BY <1>1, Invariance, PTL

(* What is running or waiting is pending on disk with its request, the     *)
(* store stays within its quota, and no operation file is without its      *)
(* request file, whatever admission, eviction, failing saves and restarts  *)
(* do.                                                                     *)
THEOREM StoreCorrect == Spec => []StoreSound
<1>1. Inv => StoreSound
  BY DEF Inv, StoreInv, StoreSound
<1>2. QED
  BY <1>1, Invariance, PTL

-----------------------------------------------------------------------------
(* An operation in hand is not one whose outcome could not be recorded:    *)
(* finishOperation remembers the failed write when the worker is done.     *)
InHandUndecided == InHand \cap terminal = {}

RInv == Inv /\ InHandUndecided

-----------------------------------------------------------------------------
(* What a handler does to the operations in hand. *)
LEMMA HandlerInHand ==
  ASSUME Inv, NEW id \in Ids, HandleCatalogSet(id) \/ HandleOperation(id)
  PROVE  InHand' \subseteq InHand \cup {id} /\ id \notin terminal /\ terminal' \subseteq terminal
<1>1. id \notin terminal /\ terminal' \subseteq terminal
  BY DEF HandleCatalogSet, HandleOperation, PostNew, PostUnstored, PostEvictFails,
     PostRefresh, PostPending, PollRefresh, PollPending, Admitted
<1>2. StartLocked(id) \/ UNCHANGED sched
  BY DEF HandleCatalogSet, HandleOperation, PostNew, PostUnstored, PostEvictFails,
     PostRefresh, PostPending, PollRefresh, PollPending
<1>3. UNCHANGED sched => InHand' = InHand
  BY DEF InHand, Busy, sched
<1>4. QED
  BY <1>1, <1>2, <1>3, StartAddsOne DEF Inv

(* A step of a worker leaves what is in hand undecided.                    *)
LEMMA WorkerInHand ==
  ASSUME RInv, NEW g \in Goroutines, Worker(g)
  PROVE  InHandUndecided'
<1>1. TypeOK /\ SchedulerInv
  BY DEF RInv, Inv
<1>2. ASSUME NEW next \in {"publish", "fail", "exit", "complete"},
             GeneratorReturns(g, next) \/ PublishGenerated(g, next)
      PROVE  InHandUndecided'
  <2>1. InHand' \subseteq InHand /\ terminal' = terminal
    BY <1>1, <1>2 DEF GeneratorReturns, PublishGenerated, InHand, Busy, TypeOK
  <2>2. QED
    BY <2>1 DEF RInv, InHandUndecided
<1>3. ASSUME NEW status, NEW outcome, FinishOperation(g, status, outcome)
      PROVE  InHandUndecided'
  <2>1. g \in Busy /\ job[g] \in active /\ job[g] \notin queued
    <3>1. g \in Busy
      BY <1>3 DEF FinishOperation, Busy
    <3>2. active = {job[h] : h \in Busy} /\ queued \cap active = {}
      BY <1>1 DEF SchedulerInv, OneWorkerEach, QueueSound
    <3>3. job[g] \in active
      BY <3>1, <3>2
    <3>4. QED
      BY <3>1, <3>2, <3>3
  <2>2. InHand' \subseteq InHand \ {job[g]}
    BY <1>1, <1>3, <2>1 DEF FinishOperation, InHand, Busy, TypeOK, SchedulerInv, OneWorkerEach
  <2>3. terminal' \subseteq terminal \cup {job[g]}
    BY <1>3 DEF FinishOperation
  <2>4. QED
    BY <2>2, <2>3 DEF RInv, InHandUndecided
<1>4. CASE GenerationDone(g)
  <2>1. InHand' \subseteq InHand
    <3>1. CASE Leave(g) /\ queued' \subseteq queued
      BY <1>1, <3>1 DEF InHand, Busy, Leave, TypeOK
    <3>2. CASE Launchable # {} /\ HandOver(g, Min(Launchable))
      BY <1>1, <1>4, <3>2, HandOverKeepsScheduler DEF GenerationDone
    <3>3. QED
      BY <1>4, <3>1, <3>2 DEF GenerationDone
  <2>2. QED
    BY <1>4, <2>1 DEF GenerationDone, RInv, InHandUndecided
<1>5. QED
  BY <1>2, <1>3, <1>4 DEF Worker

(* No step decides, or gives up, an operation that is in hand.             *)
LEMMA NextUndecided == RInv /\ [Next]_vars => InHandUndecided'
<1> SUFFICES ASSUME RInv, [Next]_vars PROVE InHandUndecided'
  OBVIOUS
<1>1. ASSUME NEW id \in Ids, HandleCatalogSet(id) \/ HandleOperation(id)
      PROVE  InHandUndecided'
  BY <1>1, HandlerInHand DEF RInv, InHandUndecided
<1>2. ASSUME NEW g \in Goroutines, Worker(g) PROVE InHandUndecided'
  BY <1>2, WorkerInHand
<1>3. ASSUME UNCHANGED <<sched, terminal>> PROVE InHandUndecided'
  BY <1>3 DEF RInv, InHandUndecided, InHand, Busy, sched
<1>4. CASE (\E gone \in SUBSET Ids : Expire(gone)) \/ CloseMark \/ CloseCancel \/ UNCHANGED vars
  BY <1>3, <1>4 DEF Expire, CloseMark, CloseCancel, vars, sched
<1>5. CASE CloseEnd \/ Crash
  BY <1>5 DEF CloseEnd, Crash, Forget, InHandUndecided
<1>6. CASE Start
  <2>1. terminal' = {}
    BY <1>6 DEF Start, New, RInv, Inv, DownForgets
  <2>2. QED
    BY <2>1 DEF InHandUndecided
<1>7. QED
  BY <1>1, <1>2, <1>4, <1>5, <1>6 DEF Next

(* Both invariants hold throughout every behaviour.                        *)
LEMMA RInvariance == Spec => []RInv
<1>1. Init => RInv
  BY InitInv DEF Init, RInv, InHandUndecided
<1>2. RInv /\ [Next]_vars => RInv'
  BY NextInv, NextUndecided DEF RInv
<1>3. QED
  BY <1>1, <1>2, PTL DEF Spec

-----------------------------------------------------------------------------
(* Every step of the service is a step of the lifecycle or a stutter. *)

(* Eviction, with or without a request accepted in the freed place. *)
LEMMA EvictionIsForget ==
  ASSUME Inv, NEW gone \in SUBSET Ids, gone \subseteq Victims(MaxStored - 1),
         NEW cleared \in SUBSET gone, terminal' = terminal \ cleared,
         NEW accepted \in {{}} \cup {{id} : id \in Ids},
         \A id \in accepted : disk[id] = "absent",
         disk' = [id \in Ids |-> IF id \in accepted THEN "pending"
                                 ELSE IF id \in gone THEN "absent" ELSE disk[id]]
  PROVE  Lifecycle!Next
<1>1. gone \subseteq Lifecycle!Forgettable
  BY VictimsSpared DEF Lifecycle!Forgettable, Lifecycle!Decided, Inv, TypeOK, Statuses, Stored
<1>2. Lifecycle!Forget(gone, accepted)
  BY <1>1 DEF Lifecycle!Forget
<1>3. QED
  BY <1>2 DEF Lifecycle!Next

(* Eviction for a request that is then not accepted. *)
LEMMA BareEvictionIsForget ==
  ASSUME Inv, NEW gone \in SUBSET Ids, gone \subseteq Victims(MaxStored - 1),
         NEW cleared \in SUBSET gone, terminal' = terminal \ cleared,
         disk' = [id \in Ids |-> IF id \in gone THEN "absent" ELSE disk[id]]
  PROVE  Lifecycle!Next
<1> DEFINE none == {}
<1>1. /\ none \in {{}} \cup {{id} : id \in Ids} /\ \A id \in none : disk[id] = "absent"
      /\ disk' = [id \in Ids |-> IF id \in none THEN "pending"
                                 ELSE IF id \in gone THEN "absent" ELSE disk[id]]
  OBVIOUS
<1> HIDE DEF none
<1>2. QED
  BY <1>1, EvictionIsForget

(* A new POST is an accepting step of the lifecycle, with the evictions it *)
(* makes on the way.                                                       *)
LEMMA PostNewRefines ==
  ASSUME Inv, NEW id \in Ids, NEW outcome \in SaveOutcomes, PostNew(id, outcome)
  PROVE  Lifecycle!Next
<1> DEFINE victims == Victims(MaxStored - 1)
           left == [i \in Ids |-> IF i \in victims THEN "absent" ELSE disk[i]]
           accepted == IF outcome = "lost" THEN {} ELSE {id}
<1>1. /\ disk[id] = "absent" /\ disk' = Saved(left, id, "pending", outcome)
      /\ terminal' = terminal \ victims
  BY DEF PostNew
<1>2. victims \in SUBSET Ids /\ victims \in SUBSET victims
  BY DEF Victims, Stored
<1>3. accepted \in {{}} \cup {{i} : i \in Ids} /\ \A i \in accepted : disk[i] = "absent"
  BY <1>1
<1>4. disk' = [i \in Ids |-> IF i \in accepted THEN "pending"
                             ELSE IF i \in victims THEN "absent" ELSE disk[i]]
  BY <1>1 DEF Saved
<1> HIDE DEF victims, accepted
<1>5. QED
  BY <1>1, <1>2, <1>3, <1>4, EvictionIsForget DEF victims

(* Both HTTP handlers take steps the lifecycle allows.                     *)
LEMMA HandlersRefine ==
  ASSUME Inv, NEW id \in Ids, HandleCatalogSet(id) \/ HandleOperation(id)
  PROVE  Lifecycle!Next \/ UNCHANGED <<disk, terminal>>
<1> DEFINE victims == Victims(MaxStored - 1)
<1>1. disk \in [Ids -> Statuses] /\ victims \in SUBSET Ids /\ victims \in SUBSET victims
  BY DEF Inv, TypeOK, Victims, Stored
<1>2. ASSUME NEW outcome \in SaveOutcomes, PostNew(id, outcome)
      PROVE  Lifecycle!Next
  BY <1>2, PostNewRefines
<1>3. ASSUME NEW outcome \in SaveOutcomes, PostRefresh(id, outcome) \/ PollRefresh(id, outcome)
      PROVE  Lifecycle!Next \/ UNCHANGED <<disk, terminal>>
  <2>1. /\ disk[id] \in {"failed", "stale"} /\ terminal' = terminal
        /\ disk' = Saved(disk, id, "pending", outcome)
    BY <1>3 DEF PostRefresh, PollRefresh
  <2>2. disk' = disk \/ Lifecycle!Renew(id)
    BY <2>1 DEF Saved, Lifecycle!Renew
  <2>3. QED
    BY <2>1, <2>2 DEF Lifecycle!Next
<1>4. CASE PostUnstored(id)
  <2>1. /\ terminal' = terminal \ victims
        /\ disk' = [i \in Ids |-> IF i \in victims THEN "absent" ELSE disk[i]]
    BY <1>4 DEF PostUnstored
  <2> HIDE DEF victims
  <2>2. QED
    BY <1>1, <2>1, BareEvictionIsForget DEF victims
<1>5. ASSUME NEW v \in Ids, NEW unlinked \in SUBSET {v}, PostEvictFails(id, v, unlinked)
      PROVE  Lifecycle!Next
  <2> DEFINE cleared == {u \in victims : <<u, v>> \in older}
             gone == cleared \cup {v}
  <2>1. /\ terminal' = terminal \ cleared
        /\ disk' = [i \in Ids |-> IF i \in gone THEN "absent" ELSE disk[i]]
    BY <1>5 DEF PostEvictFails
  <2>2. gone \in SUBSET Ids /\ gone \subseteq Victims(MaxStored - 1) /\ cleared \in SUBSET gone
    BY <1>1, <1>5 DEF PostEvictFails
  <2> HIDE DEF gone, cleared
  <2>3. QED
    BY <2>1, <2>2, BareEvictionIsForget
<1>6. CASE PostPending(id) \/ PollPending(id)
  BY <1>6 DEF PostPending, PollPending, store
<1>7. QED
  BY <1>2, <1>3, <1>4, <1>5, <1>6 DEF HandleCatalogSet, HandleOperation

(* A worker records an outcome, or fails to, as the lifecycle allows.      *)
LEMMA WorkerRefines ==
  ASSUME RInv, NEW g \in Goroutines, Worker(g)
  PROVE  Lifecycle!Next \/ UNCHANGED <<disk, terminal>>
<1>1. ASSUME NEW status \in Statuses, NEW outcome \in SaveOutcomes,
             FinishOperation(g, status, outcome)
      PROVE  Lifecycle!Next
  <2>1. /\ phase[g] \in {"complete", "fail"} /\ status \in {"completed", "stale", "failed"}
        /\ disk' = Saved(disk, job[g], status, outcome)
        /\ terminal' = IF outcome = "saved" THEN terminal \ {job[g]}
                                            ELSE terminal \cup {job[g]}
    BY <1>1 DEF FinishOperation
  <2>2. job[g] \in InHand
    BY <2>1 DEF InHand, Busy
  <2>3. job[g] \in Ids /\ disk[job[g]] = "pending" /\ job[g] \notin terminal
    BY <2>1, <2>2 DEF RInv, Inv, InHandUndecided, StoreInv, WorkIsPending, InHand,
       SchedulerInv, IdleHasNoJob, TypeOK
  <2>4. terminal' \in {terminal, terminal \cup {job[g]}}
    BY <2>1, <2>3
  <2>5. disk \in [Ids -> Statuses]
    BY DEF RInv, Inv, TypeOK
  <2>6. CASE outcome = "lost"
    <3>1. disk' = [disk EXCEPT ![job[g]] = "pending"]
      BY <2>1, <2>3, <2>5, <2>6 DEF Saved
    <3>2. Lifecycle!Decide(job[g], "pending")
      BY <2>3, <2>4, <3>1 DEF Lifecycle!Decide
    <3>3. QED
      BY <2>3, <3>2 DEF Lifecycle!Next
  <2>7. CASE outcome # "lost"
    <3>1. Lifecycle!Decide(job[g], status)
      BY <2>1, <2>3, <2>4, <2>7 DEF Lifecycle!Decide, Saved
    <3>2. QED
      BY <2>1, <2>3, <3>1 DEF Lifecycle!Next, Lifecycle!Decided
  <2>8. QED
    BY <2>6, <2>7
<1>2. QED
  BY <1>1 DEF Worker, GeneratorReturns, PublishGenerated, GenerationDone, store

(* Every step of the service is a step or a stutter of the lifecycle.      *)
LEMMA StepRefines == RInv /\ [Next]_vars => [Lifecycle!Next]_Lifecycle!vars
<1> SUFFICES ASSUME RInv, [Next]_vars
             PROVE  Lifecycle!Next \/ UNCHANGED <<disk, terminal>>
  BY DEF Lifecycle!vars
<1>1. ASSUME NEW id \in Ids, HandleCatalogSet(id) \/ HandleOperation(id)
      PROVE  Lifecycle!Next \/ UNCHANGED <<disk, terminal>>
  BY <1>1, HandlersRefine DEF RInv
<1>2. ASSUME NEW g \in Goroutines, Worker(g)
      PROVE  Lifecycle!Next \/ UNCHANGED <<disk, terminal>>
  BY <1>2, WorkerRefines
<1>3. ASSUME NEW gone \in SUBSET Ids, Expire(gone) PROVE Lifecycle!Next
  BY <1>3 DEF Expire, Lifecycle!Age, Lifecycle!Next
<1>4. CASE CloseEnd \/ Crash
  BY <1>4 DEF CloseEnd, Crash, Forget, store, Lifecycle!Restart, Lifecycle!Next
<1>5. CASE CloseMark \/ CloseCancel \/ Start \/ UNCHANGED vars
  BY <1>5 DEF CloseMark, CloseCancel, Start, New, vars, store
<1>6. QED
  BY <1>1, <1>2, <1>3, <1>4, <1>5 DEF Next

(* The service with its queue, workers, limits, failing writes, shutdowns  *)
(* and crashes implements the operation lifecycle its clients rely on.     *)
THEOREM ImplementsLifecycle == Spec => LifecycleSpec
<1>1. Init => Lifecycle!Init
  BY DEF Init, Lifecycle!Init
<1>2. QED
  BY <1>1, RInvariance, StepRefines, PTL DEF Spec, LifecycleSpec, Lifecycle!Spec

-----------------------------------------------------------------------------
(* finishOperation, the only step that decides, replaces "pending": a late *)
(* worker never overwrites a newer outcome.                                *)
THEOREM OutcomeOnce == Spec => OutcomeReplacesPending
<1> DEFINE A == \A id \in Ids :
                  disk'[id] # disk[id] /\ disk'[id] \in {"completed", "failed"}
                    => disk[id] = "pending"
<1>1. RInv /\ [Next]_vars => [A]_vars
  <2> SUFFICES ASSUME RInv, [Next]_vars PROVE A
    OBVIOUS
  <2>1. disk \in [Ids -> Statuses]
    BY DEF RInv, Inv, TypeOK
  <2>2. CASE UNCHANGED <<disk, terminal>>
    BY <2>2
  <2>3. ASSUME NEW gone \in SUBSET Ids, NEW accepted, Lifecycle!Forget(gone, accepted) PROVE A
    BY <2>1, <2>3 DEF Lifecycle!Forget
  <2>4. ASSUME NEW id \in Ids, Lifecycle!Renew(id) PROVE A
    BY <2>1, <2>4 DEF Lifecycle!Renew
  <2>5. ASSUME NEW id \in Ids, NEW outcome, Lifecycle!Decide(id, outcome) PROVE A
    BY <2>1, <2>5 DEF Lifecycle!Decide
  <2>6. ASSUME NEW gone \in SUBSET Ids, Lifecycle!Age(gone) PROVE A
    BY <2>1, <2>6 DEF Lifecycle!Age
  <2>7. CASE Lifecycle!Restart
    BY <2>7 DEF Lifecycle!Restart
  <2> HIDE DEF A
  <2>8. QED
    BY <2>2, <2>3, <2>4, <2>5, <2>6, <2>7, StepRefines DEF Lifecycle!Next, Lifecycle!vars
<1>2. QED
  BY <1>1, RInvariance, PTL DEF Spec, OutcomeReplacesPending

(* Only the eviction of a POST removes an operation file. *)
LEMMA OnlyVictimsGo ==
  ASSUME Inv, [Next]_vars, NEW i \in Ids, disk[i] # "absent", disk'[i] = "absent"
  PROVE  i \in Victims(MaxStored - 1)
<1> DEFINE victims == Victims(MaxStored - 1)
<1>1. disk \in [Ids -> Statuses]
  BY DEF Inv, TypeOK
<1>2. ASSUME NEW d \in [Ids -> Statuses], NEW id, NEW status \in Statuses, NEW outcome,
             disk' = Saved(d, id, status, outcome), status # "absent"
      PROVE  d[i] = "absent"
  BY <1>2 DEF Saved
<1>3. ASSUME NEW id \in Ids, HandleCatalogSet(id) \/ HandleOperation(id)
      PROVE  i \in victims
  <2>1. ASSUME NEW outcome \in SaveOutcomes, PostNew(id, outcome) PROVE i \in victims
    <3> DEFINE left == [j \in Ids |-> IF j \in victims THEN "absent" ELSE disk[j]]
    <3>1. disk' = Saved(left, id, "pending", outcome)
      BY <2>1 DEF PostNew
    <3>2. left \in [Ids -> Statuses] /\ "pending" \in Statuses
      BY <1>1 DEF Statuses
    <3>3. left[i] = "absent"
      <4> HIDE DEF left, victims
      <4>1. QED
        BY <1>2, <3>1, <3>2
    <3>4. QED
      BY <3>3
  <2>2. ASSUME NEW outcome \in SaveOutcomes, PostRefresh(id, outcome) \/ PollRefresh(id, outcome)
        PROVE  i \in victims
    <3>1. disk' = Saved(disk, id, "pending", outcome) /\ "pending" \in Statuses
      BY <2>2 DEF PostRefresh, PollRefresh, Statuses
    <3>2. QED
      BY <1>1, <1>2, <3>1
  <2>3. CASE PostUnstored(id)
    BY <2>3 DEF PostUnstored
  <2>4. ASSUME NEW v \in Ids, NEW unlinked \in SUBSET {v}, PostEvictFails(id, v, unlinked)
        PROVE  i \in victims
    BY <2>4 DEF PostEvictFails
  <2>5. QED
    BY <1>3, <2>1, <2>2, <2>3, <2>4 DEF HandleCatalogSet, HandleOperation, PostPending,
       PollPending, store
<1>4. ASSUME NEW g \in Goroutines, NEW status \in Statuses, NEW outcome \in SaveOutcomes,
             FinishOperation(g, status, outcome)
      PROVE  FALSE
  <2>1. disk' = Saved(disk, job[g], status, outcome) /\ status # "absent"
    BY <1>4 DEF FinishOperation
  <2>2. QED
    BY <1>1, <1>2, <2>1
<1>5. ASSUME NEW gone \in SUBSET Ids, Expire(gone) PROVE FALSE
  BY <1>5 DEF Expire
<1>6. QED
  BY <1>3, <1>4, <1>5 DEF Next, Worker, GeneratorReturns, PublishGenerated, GenerationDone,
     CloseMark, CloseCancel, CloseEnd, Crash, Forget, Start, New, vars, store

(* evictOperationsLocked never takes the file of an operation that runs,   *)
(* waits, or is pending with its outcome to come.                          *)
THEOREM EvictionCorrect == Spec => EvictionSpares
<1> DEFINE A == \A id \in Ids :
                  disk[id] # "absent" /\ disk'[id] = "absent"
                    => /\ id \notin active \cup queued
                       /\ disk[id] = "pending" => id \in terminal
<1>1. Inv /\ [Next]_vars => [A]_vars
  BY OnlyVictimsGo, VictimsSpared
<1>2. QED
  BY <1>1, Invariance, PTL DEF Spec, EvictionSpares
=============================================================================
