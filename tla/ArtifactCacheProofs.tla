------------------------- MODULE ArtifactCacheProofs -------------------------
(***************************************************************************)
(* Exclusion per key and immutability of the records of ArtifactCache, for *)
(* any number of builders, keys, locks and artifacts.                      *)
(***************************************************************************)
EXTENDS ArtifactCache, FiniteSetTheorems, TLAPS

(* The builders that hold a reference to a lock. *)
UsersOf(l) == {b \in Builders : lock[b] = l}

(* What a builder holds at each point of Build. *)
Holding ==
  \A b \in Builders :
    /\ pc[b] = "idle" => key[b] = None
    /\ pc[b] # "idle" => key[b] \in Keys
    /\ pc[b] \in {"idle", "register"} => lock[b] = None
    /\ pc[b] \notin {"idle", "register"} =>
         lock[b] \in Locks /\ keyLocks[key[b]] = lock[b]

(* A lock in the map is the lock of one key. *)
OneKeyPerLock ==
  \A k, j \in Keys : keyLocks[k] = keyLocks[j] /\ keyLocks[k] # None => k = j

(* A lock in the map has a user. *)
LocksUsed ==
  \A k \in Keys : keyLocks[k] # None =>
    \E b \in Builders : key[b] = k /\ lock[b] = keyLocks[k]

Counted == \A l \in Locks : users[l] = Cardinality(UsersOf(l))

(* The builders at the Locked points own their locks. *)
Owning == \A b \in Builders : pc[b] \in Locked => owner[lock[b]] = b

(* What a builder knows of the record of its key. *)
Recording ==
  \A b \in Builders :
    /\ pc[b] \in {"check", "rename"} => made[b] \in Artifacts
    /\ pc[b] = "rename" => record[key[b]] = None
    /\ got[b] # None => pc[b] \in {"unlock", "leave"} /\ record[key[b]] = got[b]

Inv ==
  /\ TypeOK /\ Holding /\ OneKeyPerLock /\ LocksUsed /\ Counted
  /\ Owning /\ Recording

-----------------------------------------------------------------------------
(* Two builders at Locked points of one key would share its lock and both  *)
(* own it.                                                                 *)
LEMMA Exclusion == Inv => OneBuilderPerKey
BY DEF Inv, Holding, Owning, OneBuilderPerKey, Locked, TypeOK

(* The counted references are the ones the map is about. *)
LEMMA Counting == Inv => LocksCounted
<1> SUFFICES ASSUME Inv PROVE LocksCounted
  OBVIOUS
<1>1. \A l \in Locks : users[l] = Cardinality({b \in Builders : lock[b] = l})
  BY DEF Inv, Counted, UsersOf
<1>2. \A k \in Keys, l \in Locks :
        keyLocks[k] = l <=> \E b \in Builders : key[b] = k /\ lock[b] = l
  BY NoneAssumption DEF Inv, TypeOK, Holding, LocksUsed, Points, Locked
<1>3. QED
  BY <1>1, <1>2 DEF LocksCounted

(* A lock with one user left is not shared (the test before delete).       *)
LEMMA LastUser ==
  ASSUME Inv, NEW b \in Builders, lock[b] \in Locks, users[lock[b]] = 1,
         NEW c \in Builders, lock[c] = lock[b]
  PROVE  c = b
<1>1. IsFiniteSet(UsersOf(lock[b]))
  BY BuildersAssumption, FS_Subset DEF UsersOf
<1>2. Cardinality(UsersOf(lock[b])) = 1
  BY DEF Inv, Counted
<1>3. PICK x : UsersOf(lock[b]) = {x}
  BY <1>1, <1>2, FS_Singleton
<1>4. b \in UsersOf(lock[b]) /\ c \in UsersOf(lock[b])
  BY DEF UsersOf
<1>5. QED
  BY <1>3, <1>4

(* No goroutine is in Build, no lock exists and no record either. *)
LEMMA InitInv == Init => Inv
<1> SUFFICES ASSUME Init PROVE Inv
  OBVIOUS
<1>1. TypeOK
  BY DEF Init, TypeOK, Points
<1>2. Counted
  <2> SUFFICES ASSUME NEW l \in Locks PROVE users[l] = Cardinality(UsersOf(l))
    BY DEF Counted
  <2>1. UsersOf(l) = {}
    BY NoneAssumption DEF Init, UsersOf
  <2>2. QED
    BY <2>1, FS_EmptySet DEF Init
<1>3. Holding /\ OneKeyPerLock /\ LocksUsed /\ Owning /\ Recording
  BY DEF Init, Holding, OneKeyPerLock, LocksUsed, Owning, Recording, Locked
<1>4. QED
  BY <1>1, <1>2, <1>3 DEF Inv

(* A step that leaves references and counts alone keeps the count. *)
LEMMA QuietCount ==
  ASSUME Counted, UNCHANGED <<lock, users>>
  PROVE  Counted'
BY DEF Counted, UsersOf

(* Counting a new user (users++) and dropping one (users--). *)
LEMMA RegisterCount ==
  ASSUME Inv, NEW b \in Builders, NEW l \in Locks, Register(b, l)
  PROVE  Counted'
<1> SUFFICES ASSUME NEW m \in Locks PROVE users'[m] = Cardinality(UsersOf(m)')
  BY DEF Counted
<1>0. lock[b] = None /\ lock' = [lock EXCEPT ![b] = l] /\ users' = [users EXCEPT ![l] = @ + 1]
  BY DEF Inv, Holding, Register
<1>1. IsFiniteSet(UsersOf(m)) /\ users[m] = Cardinality(UsersOf(m))
  BY BuildersAssumption, FS_Subset DEF UsersOf, Inv, Counted
<1>2. CASE m = l
  <2>1. UsersOf(m)' = UsersOf(m) \cup {b} /\ b \notin UsersOf(m)
    BY <1>0, <1>2, NoneAssumption DEF UsersOf, Inv, TypeOK
  <2>2. users'[m] = users[m] + 1
    BY <1>0, <1>2 DEF Inv, TypeOK
  <2>3. Cardinality(UsersOf(m) \cup {b}) = Cardinality(UsersOf(m)) + 1
    BY <1>1, <2>1, FS_AddElement
  <2>4. QED
    BY <1>1, <2>1, <2>2, <2>3
<1>3. CASE m # l
  <2>1. UsersOf(m)' = UsersOf(m)
    BY <1>0, <1>3, NoneAssumption DEF UsersOf, Inv, TypeOK
  <2>2. users'[m] = users[m]
    BY <1>0, <1>3 DEF Inv, TypeOK
  <2>3. QED
    BY <1>1, <2>1, <2>2
<1>4. QED
  BY <1>2, <1>3

(* Unregister takes its builder out of the users of its lock, by one. *)
LEMMA UnregisterCount ==
  ASSUME Inv, NEW b \in Builders, Unregister(b)
  PROVE  Counted' /\ users[lock[b]] >= 1
<1>0. /\ lock[b] \in Locks
      /\ lock' = [lock EXCEPT ![b] = None]
      /\ users' = [users EXCEPT ![lock[b]] = @ - 1]
  BY DEF Inv, Holding, Unregister
<1>1. ASSUME NEW m \in Locks
      PROVE IsFiniteSet(UsersOf(m)) /\ users[m] = Cardinality(UsersOf(m))
  BY BuildersAssumption, FS_Subset DEF UsersOf, Inv, Counted
<1>2. b \in UsersOf(lock[b])
  BY DEF UsersOf
<1>3. Cardinality(UsersOf(lock[b]) \ {b}) = Cardinality(UsersOf(lock[b])) - 1
  BY <1>0, <1>1, <1>2, FS_RemoveElement
<1>4. UsersOf(lock[b]) # {}
  BY <1>2
<1>5. users[lock[b]] # 0 /\ users[lock[b]] \in Nat
  BY <1>0, <1>1, <1>4, FS_EmptySet DEF Inv, TypeOK
<1>6. ASSUME NEW m \in Locks PROVE users'[m] = Cardinality(UsersOf(m)')
  <2>1. CASE m = lock[b]
    <3>1. UsersOf(m)' = UsersOf(m) \ {b}
      BY <1>0, <2>1, NoneAssumption DEF UsersOf, Inv, TypeOK
    <3>2. users'[m] = users[m] - 1
      BY <1>0, <2>1 DEF Inv, TypeOK
    <3>3. QED
      BY <1>0, <1>1, <1>3, <2>1, <3>1, <3>2
  <2>2. CASE m # lock[b]
    <3>1. UsersOf(m)' = UsersOf(m)
      BY <1>0, <2>2, NoneAssumption DEF UsersOf, Inv, TypeOK
    <3>2. users'[m] = users[m]
      BY <1>0, <2>2 DEF Inv, TypeOK
    <3>3. QED
      BY <1>1, <3>1, <3>2
  <2>3. QED
    BY <2>1, <2>2
<1>7. QED
  BY <1>5, <1>6 DEF Counted

(* Entering Build disturbs only what the builder itself holds. *)
LEMMA BuildKeepsInv ==
  ASSUME Inv, NEW b \in Builders, NEW k \in Keys, Build(b, k)
  PROVE  Inv'
<1> USE DEF Build, Goto, table
<1>1. TypeOK'
  BY DEF Inv, TypeOK, Points
<1>2. Holding' /\ OneKeyPerLock'
  BY NoneAssumption DEF Inv, TypeOK, Holding, OneKeyPerLock, Points, Locked
<1>3. LocksUsed'
  BY NoneAssumption DEF Inv, TypeOK, Holding, LocksUsed
<1>4. Owning' /\ Recording'
  BY DEF Inv, TypeOK, Owning, Recording, Locked
<1>5. QED
  BY <1>1, <1>2, <1>3, <1>4, QuietCount DEF Inv

(* Finding or making the lock of a key keeps one lock per key. *)
LEMMA RegisterKeepsInv ==
  ASSUME Inv, NEW b \in Builders, NEW l \in Locks, Register(b, l)
  PROVE  Inv'
<1> USE DEF Register, Goto
<1>0. key[b] \in Keys /\ lock[b] = None
  BY DEF Inv, Holding
<1>1. TypeOK'
  BY <1>0 DEF Inv, TypeOK, Points
<1>2. Holding'
  BY <1>0, NoneAssumption DEF Inv, TypeOK, Holding, Points, Locked
<1>3. OneKeyPerLock'
  BY <1>0, NoneAssumption DEF Inv, TypeOK, OneKeyPerLock
<1>4. LocksUsed'
  BY <1>0, NoneAssumption DEF Inv, TypeOK, LocksUsed
<1>5. Owning' /\ Recording'
  BY <1>0 DEF Inv, TypeOK, Owning, Recording, Locked
<1>6. QED
  BY <1>1, <1>2, <1>3, <1>4, <1>5, RegisterCount DEF Inv

(* Locking the mutex of a key that nobody has locked. *)
LEMMA AcquireKeepsInv ==
  ASSUME Inv, NEW b \in Builders, Acquire(b)
  PROVE  Inv'
<1> USE DEF Acquire, Goto
<1>0. lock[b] \in Locks
  BY DEF Inv, Holding
<1>1. TypeOK'
  BY <1>0 DEF Inv, TypeOK, Points, Locked
<1>2. Holding' /\ OneKeyPerLock' /\ LocksUsed'
  BY DEF Inv, TypeOK, Holding, OneKeyPerLock, LocksUsed
<1>3. Owning'
  BY <1>0, NoneAssumption DEF Inv, TypeOK, Holding, Owning, Locked
<1>4. Recording'
  BY DEF Inv, TypeOK, Recording
<1>5. QED
  BY <1>1, <1>2, <1>3, <1>4, QuietCount DEF Inv

(* A step of the owner between two Locked points that leaves the map, the  *)
(* locks and the references alone: all but what is known of the records is *)
(* as before.                                                              *)
LEMMA InsideKeepsInv ==
  ASSUME Inv, NEW b \in Builders, pc[b] \in Locked, NEW point \in Locked, Goto(b, point),
         UNCHANGED <<key, lock, keyLocks, users, owner>>,
         made' \in [Builders -> Artifacts \cup {None}],
         got' \in [Builders -> Artifacts \cup {None}],
         record' \in [Keys -> Artifacts \cup {None}],
         Recording'
  PROVE  Inv'
<1> USE DEF Goto
<1>1. TypeOK'
  BY DEF Inv, TypeOK, Points
<1>2. Holding' /\ OneKeyPerLock' /\ LocksUsed'
  BY DEF Inv, TypeOK, Holding, OneKeyPerLock, LocksUsed, Locked
<1>3. Owning'
  BY DEF Inv, TypeOK, Owning
<1>4. QED
  BY <1>1, <1>2, <1>3, QuietCount DEF Inv

(* The steps of Build between lock and unlock; Rename is the one that      *)
(* needs exclusion: no other builder of the key believes the record absent *)
(* or has returned another artifact.                                       *)
LEMMA LockedKeepsInv ==
  ASSUME Inv, NEW b \in Builders,
         \/ \E accepted \in BOOLEAN : ReadRecord(b, accepted)
         \/ \E a \in Artifacts : InnerBuild(b, a)
         \/ InnerFails(b) \/ CheckRecord(b) \/ Rename(b) \/ WriteFails(b)
  PROVE  Inv'
<1> USE DEF Goto, Return, table
<1>0. /\ pc[b] # "idle" => key[b] \in Keys
      /\ TypeOK /\ Recording
      /\ OneBuilderPerKey
  BY Exclusion DEF Inv, Holding
<1>1. ASSUME NEW accepted \in BOOLEAN, ReadRecord(b, accepted) PROVE Inv'
  <2>1. CASE accepted
    <3>1. Recording'
      BY <1>0, <1>1, <2>1 DEF ReadRecord, TypeOK, Recording
    <3>2. QED
      BY <1>0, <1>1, <2>1, <3>1, InsideKeepsInv DEF ReadRecord, TypeOK, Locked
  <2>2. CASE ~accepted
    <3>1. Recording'
      BY <1>0, <1>1, <2>2 DEF ReadRecord, TypeOK, Recording
    <3>2. QED
      BY <1>0, <1>1, <2>2, <3>1, InsideKeepsInv DEF ReadRecord, TypeOK, Locked
  <2>3. QED
    BY <2>1, <2>2
<1>2. ASSUME NEW a \in Artifacts, InnerBuild(b, a) PROVE Inv'
  <2>1. Recording'
    BY <1>0, <1>2 DEF InnerBuild, TypeOK, Recording
  <2>2. QED
    BY <1>0, <1>2, <2>1, InsideKeepsInv DEF InnerBuild, TypeOK, Locked
<1>3. CASE InnerFails(b)
  <2>1. Recording'
    BY <1>0, <1>3 DEF InnerFails, TypeOK, Recording
  <2>2. QED
    BY <1>0, <1>3, <2>1, InsideKeepsInv DEF InnerFails, TypeOK, Locked
<1>4. CASE CheckRecord(b)
  <2>1. Recording'
    BY <1>0, <1>4 DEF CheckRecord, TypeOK, Recording
  <2>2. QED
    BY <1>0, <1>4, <2>1, InsideKeepsInv DEF CheckRecord, TypeOK, Locked
<1>5. CASE Rename(b)
  <2>1. key[b] \in Keys /\ made[b] \in Artifacts /\ record[key[b]] = None
    BY <1>0, <1>5 DEF Rename, Recording
  <2>2. Recording'
    <3> SUFFICES ASSUME NEW c \in Builders
                 PROVE  /\ pc'[c] \in {"check", "rename"} => made'[c] \in Artifacts
                        /\ pc'[c] = "rename" => record'[key'[c]] = None
                        /\ got'[c] # None => /\ pc'[c] \in {"unlock", "leave"}
                                            /\ record'[key'[c]] = got'[c]
      BY DEF Recording
    <3>1. CASE c = b
      BY <1>0, <1>5, <2>1, <3>1 DEF Rename, TypeOK
    <3>2. CASE c # b
      <4>1. /\ pc'[c] = pc[c] /\ key'[c] = key[c]
            /\ made'[c] = made[c] /\ got'[c] = got[c]
        BY <1>0, <1>5, <3>2 DEF Rename, TypeOK
      <4>2. pc[c] \in Locked => key[c] # key[b]
        BY <1>0, <1>5, <3>2 DEF Rename, OneBuilderPerKey, Locked
      <4>3. key[c] # key[b] => record'[key[c]] = record[key[c]]
        BY <1>0, <1>5, <2>1 DEF Rename, TypeOK
      <4>4. got[c] # None => record[key[c]] = got[c]
        BY <1>0 DEF Recording
      <4>5. got[c] # None => key[c] # key[b]
        BY <2>1, <4>4
      <4>6. QED
        BY <1>0, <4>1, <4>2, <4>3, <4>5 DEF Recording, Locked
    <3>3. QED
      BY <3>1, <3>2
  <2>3. QED
    BY <1>0, <1>5, <2>1, <2>2, InsideKeepsInv DEF Rename, TypeOK, Locked
<1>6. CASE WriteFails(b)
  <2>1. Recording'
    BY <1>0, <1>6 DEF WriteFails, TypeOK, Recording
  <2>2. QED
    BY <1>0, <1>6, <2>1, InsideKeepsInv DEF WriteFails, TypeOK, Locked
<1>7. QED
  BY <1>1, <1>2, <1>3, <1>4, <1>5, <1>6

(* Unlocking the mutex; the reference stays until Unregister. *)
LEMMA UnlockKeepsInv ==
  ASSUME Inv, NEW b \in Builders, Unlock(b)
  PROVE  Inv'
<1> USE DEF Unlock, Goto
<1>0. lock[b] \in Locks
  BY DEF Inv, Holding
<1>1. TypeOK'
  BY <1>0 DEF Inv, TypeOK, Points
<1>2. Holding' /\ OneKeyPerLock' /\ LocksUsed'
  BY DEF Inv, TypeOK, Holding, OneKeyPerLock, LocksUsed
<1>3. Owning'
  <2> SUFFICES ASSUME NEW c \in Builders, pc'[c] \in Locked
               PROVE  owner'[lock'[c]] = c
    BY DEF Owning
  <2>1. c # b /\ pc[c] \in Locked
    BY DEF Inv, TypeOK, Locked
  <2>2. owner[lock[c]] = c /\ owner[lock[b]] = b
    BY <2>1 DEF Inv, Owning, Locked
  <2>3. QED
    BY <1>0, <2>1, <2>2 DEF Inv, TypeOK
<1>4. Recording'
  BY DEF Inv, TypeOK, Recording
<1>5. QED
  BY <1>1, <1>2, <1>3, <1>4, QuietCount DEF Inv

(* Dropping a reference: the entry of the map goes with the last user, so  *)
(* every other builder of the key keeps its lock in the map.               *)
LEMMA UnregisterKeepsInv ==
  ASSUME Inv, NEW b \in Builders, Unregister(b)
  PROVE  Inv'
<1> USE DEF Unregister, Goto
<1>0. key[b] \in Keys /\ lock[b] \in Locks /\ keyLocks[key[b]] = lock[b]
  BY DEF Inv, Holding
<1>1. Counted' /\ users[lock[b]] >= 1
  BY UnregisterCount
<1>2. TypeOK'
  <2>1. users[lock[b]] - 1 \in Nat
    BY <1>0, <1>1 DEF Inv, TypeOK
  <2>2. QED
    BY <1>0, <2>1 DEF Inv, TypeOK, Points
<1>3. ASSUME NEW c \in Builders, c # b, lock[c] \in Locks, lock[c] = lock[b]
      PROVE  keyLocks' = keyLocks
  BY <1>0, <1>3, LastUser
<1>4. Holding'
  <2> SUFFICES ASSUME NEW c \in Builders, c # b, pc[c] \notin {"idle", "register"}
               PROVE  keyLocks'[key[c]] = lock[c]
    BY <1>0 DEF Inv, TypeOK, Holding
  <2>1. key[c] \in Keys /\ lock[c] \in Locks /\ keyLocks[key[c]] = lock[c]
    BY DEF Inv, Holding
  <2>2. CASE key[c] = key[b]
    BY <1>0, <1>3, <2>1, <2>2
  <2>3. CASE key[c] # key[b]
    BY <1>0, <2>1, <2>3 DEF Inv, TypeOK
  <2>4. QED
    BY <2>2, <2>3
<1>5. OneKeyPerLock'
  BY <1>0 DEF Inv, TypeOK, OneKeyPerLock
<1>6. LocksUsed'
  <2> SUFFICES ASSUME NEW k \in Keys, keyLocks'[k] # None
               PROVE  \E c \in Builders : key'[c] = k /\ lock'[c] = keyLocks'[k]
    BY DEF LocksUsed
  <2>1. keyLocks'[k] = keyLocks[k]
    BY <1>0 DEF Inv, TypeOK
  <2>2. CASE k = key[b]
    <3>1. users[lock[b]] # 1
      BY <1>0, <2>2 DEF Inv, TypeOK
    <3>2. PICK c \in Builders : c # b /\ lock[c] = lock[b]
      <4>1. UsersOf(lock[b]) # {b}
        BY <1>0, <3>1, FS_Singleton DEF Inv, Counted
      <4>2. QED
        BY <4>1 DEF UsersOf
    <3>3. pc[c] \notin {"idle", "register"} /\ key[c] \in Keys /\ keyLocks[key[c]] = lock[c]
      BY <1>0, <3>2, NoneAssumption DEF Inv, Holding
    <3>4. key[c] = k
      BY <1>0, <2>2, <3>2, <3>3, NoneAssumption DEF Inv, OneKeyPerLock
    <3>5. QED
      BY <1>0, <2>1, <2>2, <3>2, <3>4 DEF Inv, TypeOK
  <2>3. CASE k # key[b]
    <3>1. PICK c \in Builders : key[c] = k /\ lock[c] = keyLocks[k]
      BY <2>1 DEF Inv, LocksUsed
    <3>2. QED
      BY <2>1, <2>3, <3>1 DEF Inv, TypeOK
  <2>4. QED
    BY <2>2, <2>3
<1>7. Owning' /\ Recording'
  BY DEF Inv, TypeOK, Owning, Recording, Locked
<1>8. QED
  BY <1>1, <1>2, <1>4, <1>5, <1>6, <1>7 DEF Inv

(* A new process starts with no locks and finds the old records. *)
LEMMA RestartKeepsInv ==
  ASSUME Inv, Restart
  PROVE  Inv'
<1> USE DEF Restart
<1>1. TypeOK'
  BY DEF Inv, TypeOK, Points
<1>2. Counted'
  <2> SUFFICES ASSUME NEW l \in Locks PROVE users'[l] = Cardinality(UsersOf(l)')
    BY DEF Counted
  <2>1. UsersOf(l)' = {}
    BY NoneAssumption DEF UsersOf
  <2>2. QED
    BY <2>1, FS_EmptySet
<1>3. Holding' /\ OneKeyPerLock' /\ LocksUsed' /\ Owning' /\ Recording'
  BY DEF Holding, OneKeyPerLock, LocksUsed, Owning, Recording, Locked
<1>4. QED
  BY <1>1, <1>2, <1>3 DEF Inv

-----------------------------------------------------------------------------
(* The invariant holds throughout every behaviour of the cache. *)
THEOREM Invariance == Spec => []Inv
<1>1. ASSUME Inv, [Next]_vars PROVE Inv'
  <2>1. CASE UNCHANGED vars
    <3>1. Counted'
      BY <1>1, <2>1, QuietCount DEF Inv, vars
    <3>2. QED
      BY <1>1, <2>1, <3>1
         DEF Inv, vars, TypeOK, Holding, OneKeyPerLock, LocksUsed, Owning, Recording
  <2>2. ASSUME NEW b \in Builders, Step(b) PROVE Inv'
    BY <1>1, <2>2, RegisterKeepsInv, AcquireKeepsInv, LockedKeepsInv, UnlockKeepsInv,
       UnregisterKeepsInv DEF Step
  <2>3. QED
    BY <1>1, <2>1, <2>2, BuildKeepsInv, RestartKeepsInv DEF Next
<1>2. QED
  BY <1>1, InitInv, PTL DEF Spec

(* The builder's map, locks and records keep their shape.                  *)
THEOREM TypeCorrect == Spec => []TypeOK
<1>1. Inv => TypeOK
  BY DEF Inv
<1>2. QED
  BY <1>1, Invariance, PTL

(* At most one goroutine builds or writes a key although its lock is made  *)
(* and dropped again and again, the reference counts of lockArtifactKey    *)
(* are exact, and what Build returns is on record, so that two generations *)
(* that ask for one key are given the same artifact.                       *)
THEOREM CacheCorrect == Spec => []CacheSound
<1>1. Inv => ReturnedIsRecorded
  BY DEF Inv, Recording, ReturnedIsRecorded
<1>2. Inv => CacheSound
  BY <1>1, Exclusion, Counting DEF CacheSound
<1>3. QED
  BY <1>2, Invariance, PTL

(* The rename of writeCacheTemp never replaces a record, although the      *)
(* check for one is a separate step.                                       *)
THEOREM RecordsImmutable == Spec => RecordImmutable
<1>1. ASSUME Inv, [Next]_vars
      PROVE  [\A k \in Keys : record[k] # None => record'[k] = record[k]]_vars
  <2> SUFFICES ASSUME NEW k \in Keys, record[k] # None PROVE record'[k] = record[k]
    OBVIOUS
  <2>1. CASE \E b \in Builders : Rename(b)
    BY <1>1, <2>1 DEF Inv, TypeOK, Recording, Rename
  <2>2. CASE ~ \E b \in Builders : Rename(b)
    <3>1. UNCHANGED record
      BY <1>1, <2>2 DEF Next, Step, Build, Register, Acquire, ReadRecord, InnerBuild,
         InnerFails, CheckRecord, WriteFails, Unlock, Unregister, Restart, vars
    <3>2. QED
      BY <3>1
  <2>3. QED
    BY <2>1, <2>2
<1>2. QED
  BY <1>1, Invariance, PTL DEF Spec, RecordImmutable
=============================================================================
