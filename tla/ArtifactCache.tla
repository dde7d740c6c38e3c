---------------------------- MODULE ArtifactCache ----------------------------
(***************************************************************************)
(* The catalog generator's artifact cache: concurrent generations ask      *)
(* cachedArtifactBuilder for verified artifacts by cache key, each key has *)
(* a reference-counted lock, and a verified artifact is recorded in an     *)
(* immutable file (internal/cataloggenerator/cache.go).                    *)
(*                                                                         *)
(* The mutex mu of the builder protects the map of locks and is held for   *)
(* one action at a time; the lock of a key is held across the read, the    *)
(* build and the write of its record.  The service runs one process per    *)
(* store directory, which the writer lock of catalogservice enforces.      *)
(***************************************************************************)
EXTENDS Naturals, FiniteSets

CONSTANTS
  Builders,   \* goroutines that call Build
  Keys,       \* cache keys, artifactCacheIdentity hashed
  Locks,      \* addresses of artifactCacheLock values
  Artifacts,  \* what the inner builder can return for a key
  None        \* no lock, no record, no artifact

ASSUME BuildersAssumption == IsFiniteSet(Builders) /\ IsFiniteSet(Locks)
ASSUME NoneAssumption ==
  None \notin Builders /\ None \notin Locks /\ None \notin Artifacts /\ None \notin Keys

VARIABLES
  pc,        \* where a builder is in Build, or "idle"
  key,       \* the cache key it works on
  lock,      \* the lock it holds a reference to
  made,      \* the artifact its inner builder returned
  got,       \* what its Build returns: an artifact, None for an error
  keyLocks,  \* cachedArtifactBuilder.keyLocks
  users,     \* artifactCacheLock.users
  owner,     \* who has locked artifactCacheLock.mu
  record     \* the cache files

table == <<keyLocks, users, owner>>
vars  == <<pc, key, lock, made, got, keyLocks, users, owner, record>>

(* The points of Build between its steps; in the Locked ones the builder   *)
(* owns the lock of its key. *)
Locked == {"read", "build", "check", "rename", "unlock"}
Points == Locked \cup {"idle", "register", "wait", "leave"}

Init ==
  /\ pc = [b \in Builders |-> "idle"]
  /\ key = [b \in Builders |-> None]
  /\ lock = [b \in Builders |-> None]
  /\ made = [b \in Builders |-> None]
  /\ got = [b \in Builders |-> None]
  /\ keyLocks = [k \in Keys |-> None]
  /\ users = [l \in Locks |-> 0]
  /\ owner = [l \in Locks |-> None]
  /\ record = [k \in Keys |-> None]

Goto(b, point) == pc' = [pc EXCEPT ![b] = point]

(* Build returns a or, when a is None, an error; its deferred unlock runs. *)
Return(b, a) ==
  /\ Goto(b, "unlock")
  /\ got' = [got EXCEPT ![b] = a]

-----------------------------------------------------------------------------
(* Build computes the key; the errors on the way to it change nothing. *)
Build(b, k) ==
  /\ pc[b] = "idle"
  /\ Goto(b, "register")
  /\ key' = [key EXCEPT ![b] = k]
  /\ UNCHANGED <<lock, made, got, table, record>>

(* The first half of lockArtifactKey, under mu: find or make the lock of   *)
(* the key and count a user. *)
Register(b, l) ==
  /\ pc[b] = "register"
  /\ \/ keyLocks[key[b]] = l
     \/ /\ keyLocks[key[b]] = None
        /\ users[l] = 0
        /\ \A k \in Keys : keyLocks[k] # l
  /\ keyLocks' = [keyLocks EXCEPT ![key[b]] = l]
  /\ users' = [users EXCEPT ![l] = @ + 1]
  /\ lock' = [lock EXCEPT ![b] = l]
  /\ Goto(b, "wait")
  /\ UNCHANGED <<key, made, got, owner, record>>

(* The second half: lock it. *)
Acquire(b) ==
  /\ pc[b] = "wait"
  /\ owner[lock[b]] = None
  /\ owner' = [owner EXCEPT ![lock[b]] = b]
  /\ Goto(b, "read")
  /\ UNCHANGED <<key, lock, made, got, keyLocks, users, record>>

(* A record that decodes and that validateCachedArtifact accepts is        *)
(* returned; without one, or with one it rejects, the artifact is built.   *)
ReadRecord(b, accepted) ==
  /\ pc[b] = "read"
  /\ accepted => record[key[b]] # None
  /\ IF accepted THEN Return(b, record[key[b]])
                 ELSE Goto(b, "build") /\ UNCHANGED got
  /\ UNCHANGED <<key, lock, made, table, record>>

(* The inner builder returns an artifact that passes validation, or an     *)
(* error is returned. *)
InnerBuild(b, a) ==
  /\ pc[b] = "build"
  /\ made' = [made EXCEPT ![b] = a]
  /\ Goto(b, "check")
  /\ UNCHANGED <<key, lock, got, table, record>>

InnerFails(b) ==
  /\ pc[b] = "build"
  /\ Return(b, None)
  /\ UNCHANGED <<key, lock, made, table, record>>

(* writeCacheFile looks for a record first: the same bytes are fine, other *)
(* bytes are a collision. *)
CheckRecord(b) ==
  /\ pc[b] = "check"
  /\ \/ /\ record[key[b]] = None
        /\ Goto(b, "rename") /\ UNCHANGED got
     \/ /\ record[key[b]] # None
        /\ Return(b, IF record[key[b]] = made[b] THEN made[b] ELSE None)
  /\ UNCHANGED <<key, lock, made, table, record>>

(* writeCacheTemp renames a complete file into place. *)
Rename(b) ==
  /\ pc[b] = "rename"
  /\ record' = [record EXCEPT ![key[b]] = made[b]]
  /\ Return(b, made[b])
  /\ UNCHANGED <<key, lock, made, table>>

(* The record cannot be encoded, looked up, read back or written. *)
WriteFails(b) ==
  /\ pc[b] \in {"check", "rename"}
  /\ Return(b, None)
  /\ UNCHANGED <<key, lock, made, table, record>>

(* The function lockArtifactKey returned: unlock, then, under mu, drop the *)
(* reference and with the last one the lock.                               *)
Unlock(b) ==
  /\ pc[b] = "unlock"
  /\ owner' = [owner EXCEPT ![lock[b]] = None]
  /\ Goto(b, "leave")
  /\ UNCHANGED <<key, lock, made, got, keyLocks, users, record>>

UnregisterAlways(b) ==  \* mutant: the entry goes with the first user
  /\ pc[b] = "leave"
  /\ users' = [users EXCEPT ![lock[b]] = @ - 1]
  /\ keyLocks' = [keyLocks EXCEPT ![key[b]] = None]
  /\ lock' = [lock EXCEPT ![b] = None]
  /\ key' = [key EXCEPT ![b] = None]
  /\ made' = [made EXCEPT ![b] = None]
  /\ got' = [got EXCEPT ![b] = None]
  /\ Goto(b, "idle")
  /\ UNCHANGED <<owner, record>>

Unregister(b) ==
  /\ pc[b] = "leave"
  /\ users' = [users EXCEPT ![lock[b]] = @ - 1]
  /\ keyLocks' = IF users[lock[b]] = 1 THEN [keyLocks EXCEPT ![key[b]] = None]
                                       ELSE keyLocks
  /\ lock' = [lock EXCEPT ![b] = None]
  /\ key' = [key EXCEPT ![b] = None]
  /\ made' = [made EXCEPT ![b] = None]
  /\ got' = [got EXCEPT ![b] = None]
  /\ Goto(b, "idle")
  /\ UNCHANGED <<owner, record>>

(* The process dies and a new one starts over the same directory. *)
Restart ==
  /\ pc # [b \in Builders |-> "idle"]
  /\ pc' = [b \in Builders |-> "idle"]
  /\ key' = [b \in Builders |-> None]
  /\ lock' = [b \in Builders |-> None]
  /\ made' = [b \in Builders |-> None]
  /\ got' = [b \in Builders |-> None]
  /\ keyLocks' = [k \in Keys |-> None]
  /\ users' = [l \in Locks |-> 0]
  /\ owner' = [l \in Locks |-> None]
  /\ UNCHANGED record

Step(b) ==
  \/ \E l \in Locks : Register(b, l)
  \/ Acquire(b)
  \/ \E accepted \in BOOLEAN : ReadRecord(b, accepted)
  \/ \E a \in Artifacts : InnerBuild(b, a)
  \/ InnerFails(b)
  \/ CheckRecord(b)
  \/ Rename(b)
  \/ WriteFails(b)
  \/ Unlock(b)
  \/ Unregister(b)

Next ==
  \/ \E b \in Builders : (\E k \in Keys : Build(b, k)) \/ Step(b)
  \/ Restart

Spec == Init /\ [][Next]_vars

(* A builder that can go on does, the inner builder because its context    *)
(* has a deadline; a sync.Mutex is handed over to a waiter that has waited *)
(* long enough, so none waits forever.                                     *)
Fairness == \A b \in Builders : WF_vars(Step(b)) /\ SF_vars(Acquire(b))

FairSpec == Spec /\ Fairness

-----------------------------------------------------------------------------
(* Properties. *)

(* The variables have the shape of Build's locals and the builder's map.   *)
TypeOK ==
  /\ pc \in [Builders -> Points]
  /\ key \in [Builders -> Keys \cup {None}]
  /\ lock \in [Builders -> Locks \cup {None}]
  /\ made \in [Builders -> Artifacts \cup {None}]
  /\ got \in [Builders -> Artifacts \cup {None}]
  /\ keyLocks \in [Keys -> Locks \cup {None}]
  /\ users \in [Locks -> Nat]
  /\ owner \in [Locks -> Builders \cup {None}]
  /\ record \in [Keys -> Artifacts \cup {None}]

(* No two goroutines read, build or write the same key at once, although   *)
(* the lock of a key is made and dropped again and again.                  *)
OneBuilderPerKey ==
  \A b, c \in Builders : pc[b] \in Locked /\ pc[c] \in Locked /\ key[b] = key[c] => b = c

(* The map of locks holds exactly the locks in use, each with the number   *)
(* of its users: none is dropped early and none is left behind.            *)
LocksCounted ==
  /\ \A l \in Locks : users[l] = Cardinality({b \in Builders : lock[b] = l})
  /\ \A k \in Keys, l \in Locks :
       keyLocks[k] = l <=> \E b \in Builders : key[b] = k /\ lock[b] = l

(* An artifact that Build returns is the one on record for its key: two    *)
(* generations never publish different artifacts for one key.              *)
ReturnedIsRecorded ==
  \A b \in Builders : got[b] # None => record[key[b]] = got[b]

(* Concurrent builds of one key are one build: a single builder, exact     *)
(* reference counts although locks come and go, and one artifact.          *)
CacheSound == OneBuilderPerKey /\ LocksCounted /\ ReturnedIsRecorded

(* A record is never replaced or removed, across restarts included. *)
RecordImmutable == [][\A k \in Keys : record[k] # None => record'[k] = record[k]]_vars

(* Every Build returns and frees what it holds, unless the process dies.   *)
BuildReturns == \A b \in Builders : pc[b] # "idle" ~> pc[b] = "idle"
=============================================================================
