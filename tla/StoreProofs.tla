---------------------------- MODULE StoreProofs -----------------------------
(***************************************************************************)
(* What is kept in files, for every value of the constants: the artifact   *)
(* store (ArtifactStore), the output files of the bottle fetcher           *)
(* (FetchFiles) and the metadata snapshot (MetadataBundle). MCStores       *)
(* model-checks the same instances.                                        *)
(***************************************************************************)
EXTENDS Naturals, Sequences, FiniteSets, TLAPS

CONSTANTS
  Calls, Puts, Nothing, MaxCrashes, MaxDamage,
  Callers, Outside, Absent,
  MaxAge, Skew, Floors, Stamps, MaxNow, MaxGen, MaxCaptures

VARIABLES
  dir, disk, temps, calls, promised, lost,
  bottle, evidence, step, left, frozen,
  now, served, writer, output, released, reader

(* The artifact store. *)
S == INSTANCE ArtifactStore

(* The records of the calls.                                                 *)
PutPcs == {"idle", "create", "copy", "seal", "link", "unlink", "sync", "done"}
PutResults == {"none", "exists", "error", "stored", "opened"}
CallRecords == [pc : PutPcs, put : Puts \cup {Nothing}, result : PutResults]
Slots == S!Files \cup {Nothing}

StoreType ==
  /\ dir \in [S!Digests -> Slots]
  /\ disk \in [S!Digests -> Slots]
  /\ temps \in [Calls -> Slots]
  /\ calls \in [Calls -> CallRecords]
  /\ promised \in [S!Digests -> {"none", "held", "durable"}]
  /\ lost \in [crashes : Nat, damage : Nat]

(* What a call may rely on where it stands: its temporary file, and the      *)
(* entry it linked.                                                          *)
Stands(r, t) ==
  /\ r.pc = "idle" => t = Nothing /\ r.result = "none"
  /\ r.pc # "idle" => r.put \in Puts
  /\ r.pc \in {"copy", "seal", "link"} => t \in S!Files
  /\ r.pc \in {"seal", "link"} => t.bytes = r.put.digest
  /\ r.pc = "link" => t.synced /\ t.mode = "0400"
  /\ r.pc \in {"unlink", "sync"} => dir[r.put.digest] # Nothing
  /\ r.pc # "done" => r.result = "none"
  /\ r.pc = "sync" \/ r.result = "stored" => t = Nothing

CallsStand == \A c \in Calls : Stands(calls[c], temps[c])

(* An entry was synced and sealed before it was linked, and has the bytes of *)
(* its name unless the disk was damaged.                                     *)
Whole(d, e) ==
  e # Nothing => e.synced /\ e.mode = "0400" /\ (lost.damage = 0 => e.bytes = d)

EntriesStand == \A d \in S!Digests : Whole(d, dir[d]) /\ Whole(d, disk[d])

(* The inductive invariant behind KeptIsWhole.                               *)
StoreInv == StoreType /\ CallsStand /\ EntriesStand /\ S!ReportedHolds

(* An empty store.                                                           *)
LEMMA StoreInit == S!ArgumentsTyped /\ S!Init => StoreInv
  <1> SUFFICES ASSUME S!ArgumentsTyped, S!Init PROVE StoreInv
    OBVIOUS
  <1> USE DEF S!ArgumentsTyped, S!Init, S!Idle
  <1>1. StoreType
    BY DEF StoreType, CallRecords, PutPcs, PutResults, Slots
  <1>2. CallsStand /\ EntriesStand /\ S!ReportedHolds
    BY DEF CallsStand, Stands, EntriesStand, Whole, S!ReportedHolds
  <1> QED
    BY <1>1, <1>2 DEF StoreInv

(* An entry that is there can be opened, unless the disk was damaged.        *)
LEMMA WholeOpens ==
  ASSUME EntriesStand, NEW d \in S!Digests, dir[d] # Nothing, lost.damage = 0
  PROVE  S!Openable(d)
  BY DEF EntriesStand, Whole, S!Openable

(* The parts of a Put.                                                       *)
LEMMA PutTyped ==
  ASSUME S!ArgumentsTyped, NEW p \in Puts
  PROVE  /\ p.digest \in S!Digests /\ p.digest \in Seq(Nat)
         /\ p.source \in Seq(Nat) /\ p.size \in Nat
  BY DEF S!ArgumentsTyped, S!Digests

(* A copy of the declared size whose digest matches is the whole entry: Put  *)
(* reads neither less nor more.                                              *)
LEMMA WholeCopy ==
  ASSUME S!ArgumentsTyped, NEW p \in Puts, S!Matches(p)
  PROVE  SubSeq(p.source, 1, IF Len(p.source) < p.size THEN Len(p.source) ELSE p.size) = p.digest
  <1>1. \A s \in Seq(Nat) : SubSeq(s, 1, Len(s)) = s
    OBVIOUS
  <1> QED
    BY <1>1, PutTyped DEF S!Matches

(* A step of one call that leaves the directory alone keeps the invariant    *)
(* when the call still stands and what it reports is there.                  *)
LEMMA OneCallReports ==
  ASSUME StoreInv, NEW c \in Calls, NEW r \in CallRecords, NEW t \in Slots,
         calls' = [calls EXCEPT ![c] = r], temps' = [temps EXCEPT ![c] = t],
         UNCHANGED <<dir, disk, lost>>, Stands(r, t),
         promised' \in [S!Digests -> {"none", "held", "durable"}], S!ReportedHolds'
  PROVE  StoreInv'
  <1>1. StoreType'
    BY DEF StoreInv, StoreType
  <1>2. /\ calls'[c] = r /\ temps'[c] = t
        /\ \A o \in Calls \ {c} : calls'[o] = calls[o] /\ temps'[o] = temps[o]
    BY DEF StoreInv, StoreType
  <1>3. CallsStand'
    BY <1>2 DEF StoreInv, CallsStand, Stands
  <1>4. EntriesStand'
    BY DEF StoreInv, EntriesStand, Whole
  <1> QED
    BY <1>1, <1>3, <1>4 DEF StoreInv

(* The same for a step that reports nothing.                                 *)
LEMMA OneCallMoves ==
  ASSUME StoreInv, NEW c \in Calls, NEW r \in CallRecords, NEW t \in Slots,
         calls' = [calls EXCEPT ![c] = r], temps' = [temps EXCEPT ![c] = t],
         UNCHANGED <<dir, disk, promised, lost>>, Stands(r, t)
  PROVE  StoreInv'
  <1>1. S!ReportedHolds' /\ promised' \in [S!Digests -> {"none", "held", "durable"}]
    BY DEF StoreInv, StoreType, S!ReportedHolds, S!Openable
  <1> QED
    BY <1>1, OneCallReports

(* What Goto and Return make of the record of a call.                        *)
LEMMA Moved ==
  ASSUME StoreInv, NEW c \in Calls, NEW p \in PutPcs, NEW x \in PutResults
  PROVE  /\ calls[c] \in CallRecords /\ temps[c] \in Slots /\ Stands(calls[c], temps[c])
         /\ S!Goto(c, p) => calls' = [calls EXCEPT ![c] = [calls[c] EXCEPT !.pc = p]]
         /\ S!Return(c, x) =>
              calls' = [calls EXCEPT ![c] = [calls[c] EXCEPT !.pc = "done", !.result = x]]
         /\ [calls[c] EXCEPT !.pc = p] \in CallRecords
         /\ [calls[c] EXCEPT !.pc = "done", !.result = x] \in CallRecords
  BY DEF StoreInv, StoreType, CallsStand, CallRecords, PutPcs, S!Goto, S!Return

(* A call that fails has removed its temporary file or could not.            *)
LEMMA FailStands ==
  ASSUME StoreInv, NEW c \in Calls, calls[c].pc # "idle", NEW f \in Slots, S!Fail(c, f)
  PROVE  StoreInv'
  <1> DEFINE r == [calls[c] EXCEPT !.pc = "done", !.result = "error"]
  <1>1. /\ r \in CallRecords /\ calls' = [calls EXCEPT ![c] = r] /\ Stands(calls[c], temps[c])
        /\ calls[c] \in CallRecords
    BY Moved DEF S!Fail, PutPcs, PutResults
  <1>2. \A t \in Slots : Stands(r, t)
    BY <1>1 DEF Stands, CallRecords
  <1>3. /\ \E t \in Slots : temps' = [temps EXCEPT ![c] = t]
        /\ UNCHANGED <<dir, disk, promised, lost>>
    BY DEF S!Fail, Slots
  <1> QED
    BY <1>1, <1>2, <1>3, OneCallMoves

(* The link gives the sealed file its name, where there was none.            *)
LEMMA LinkStands ==
  ASSUME S!ArgumentsTyped, StoreInv, NEW c \in Calls, calls[c].pc = "link",
         S!Linkable(calls[c].put.digest),
         dir' = [dir EXCEPT ![calls[c].put.digest] = temps[c]],
         S!Goto(c, "unlink"), UNCHANGED <<disk, temps, promised, lost>>
  PROVE  StoreInv'
  <1> DEFINE p == calls[c].put
             r == [calls[c] EXCEPT !.pc = "unlink"]
  <1>1. /\ r \in CallRecords /\ calls' = [calls EXCEPT ![c] = r]
        /\ calls[c] \in CallRecords /\ Stands(calls[c], temps[c])
    BY Moved DEF PutPcs, PutResults
  <1>2. /\ p \in Puts /\ p.digest \in S!Digests /\ temps[c] \in S!Files
        /\ temps[c].bytes = p.digest /\ temps[c].synced /\ temps[c] # Nothing
        /\ temps[c].mode = "0400"
    BY <1>1, PutTyped DEF Stands, S!ArgumentsTyped
  <1>3. /\ dir \in [S!Digests -> Slots] /\ dir[p.digest] = Nothing
        /\ dir'[p.digest] = temps[c] /\ \A d \in S!Digests \ {p.digest} : dir'[d] = dir[d]
        /\ dir' \in [S!Digests -> Slots]
    BY <1>2 DEF StoreInv, StoreType, S!Linkable, Slots
  <1>4. StoreType'
    BY <1>1, <1>3 DEF StoreInv, StoreType
  <1>5. \A d \in S!Digests : dir[d] # Nothing => dir'[d] # Nothing
    BY <1>3
  <1>6. CallsStand'
    <2> SUFFICES ASSUME NEW o \in Calls PROVE Stands(calls[o], temps[o])'
      BY DEF CallsStand
    <2>1. CASE o = c
      <3>1. calls'[o] = r /\ temps'[o] = temps[c]
        BY <1>1, <2>1 DEF StoreInv, StoreType
      <3> QED
        BY <1>1, <1>2, <1>3, <3>1 DEF Stands, CallRecords
    <2>2. CASE o # c
      <3>1. calls'[o] = calls[o] /\ temps'[o] = temps[o] /\ Stands(calls[o], temps[o])
        BY <1>1, <2>2 DEF StoreInv, StoreType, CallsStand
      <3>2. calls[o].put \in Puts => calls[o].put.digest \in S!Digests
        BY PutTyped
      <3> QED
        BY <1>5, <3>1, <3>2 DEF Stands
    <2> QED
      BY <2>1, <2>2
  <1>7. EntriesStand'
    BY <1>2, <1>3 DEF StoreInv, EntriesStand, Whole
  <1>8. S!ReportedHolds'
    <2> SUFFICES ASSUME NEW d \in S!Digests
                 PROVE  /\ promised'[d] # "none" =>
                             dir'[d] # Nothing /\ (lost'.damage = 0 => S!Openable(d)')
                        /\ promised'[d] = "durable" => disk'[d] # Nothing
      BY DEF S!ReportedHolds
    <2>1. promised[d] # "none" => dir[d] # Nothing
      BY DEF StoreInv, S!ReportedHolds
    <2>2. promised[d] = "durable" => disk[d] # Nothing
      BY DEF StoreInv, S!ReportedHolds
    <2>3. dir'[d] # Nothing /\ lost'.damage = 0 => S!Openable(d)'
      BY <1>7 DEF EntriesStand, Whole, S!Openable
    <2> QED
      BY <1>5, <2>1, <2>2, <2>3
  <1> QED
    BY <1>4, <1>6, <1>7, <1>8 DEF StoreInv

(* After the sync of the directory the entry outlives a crash.               *)
LEMMA SyncStands ==
  ASSUME S!ArgumentsTyped, StoreInv, NEW c \in Calls, calls[c].pc = "sync",
         disk' = dir, promised' = S!Settled(calls[c].put.digest),
         S!Return(c, "stored"), UNCHANGED <<dir, temps, lost>>
  PROVE  StoreInv'
  <1> DEFINE p == calls[c].put
             r == [calls[c] EXCEPT !.pc = "done", !.result = "stored"]
  <1>1. /\ r \in CallRecords /\ calls' = [calls EXCEPT ![c] = r]
        /\ calls[c] \in CallRecords /\ Stands(calls[c], temps[c])
    BY Moved DEF PutPcs, PutResults
  <1>2. p \in Puts /\ p.digest \in S!Digests /\ dir[p.digest] # Nothing
    BY <1>1, PutTyped DEF Stands
  <1>3. StoreType'
    BY <1>1, <1>2 DEF StoreInv, StoreType, S!Settled
  <1>4. calls'[c] = r /\ \A o \in Calls \ {c} : calls'[o] = calls[o]
    BY <1>1 DEF StoreInv, StoreType
  <1>5. Stands(r, temps[c])
    BY <1>1 DEF Stands, CallRecords
  <1>6. CallsStand'
    <2> SUFFICES ASSUME NEW o \in Calls PROVE Stands(calls[o], temps[o])'
      BY DEF CallsStand
    <2>1. Stands(IF o = c THEN r ELSE calls[o], temps[o])
      BY <1>5 DEF StoreInv, CallsStand
    <2>2. calls'[o] = IF o = c THEN r ELSE calls[o]
      BY <1>4
    <2> QED
      BY <2>1, <2>2 DEF Stands
  <1>7. EntriesStand'
    BY DEF StoreInv, EntriesStand, Whole
  <1>8. S!ReportedHolds'
    <2> SUFFICES ASSUME NEW d \in S!Digests, promised'[d] # "none"
                 PROVE  dir'[d] # Nothing /\ disk'[d] # Nothing /\ (lost'.damage = 0 => S!Openable(d)')
      BY DEF S!ReportedHolds
    <2>1. d = p.digest \/ promised[d] # "none"
      BY DEF S!Settled
    <2>2. dir[d] # Nothing
      BY <1>2, <2>1 DEF StoreInv, S!ReportedHolds
    <2>3. dir'[d] # Nothing /\ lost'.damage = 0 => S!Openable(d)'
      BY <1>7 DEF EntriesStand, Whole, S!Openable
    <2> QED
      BY <2>2, <2>3
  <1> QED
    BY <1>3, <1>6, <1>7, <1>8 DEF StoreInv

(* A power failure leaves what was synced.                                   *)
LEMMA CrashStands ==
  ASSUME S!ArgumentsTyped, StoreInv, S!Crash
  PROVE  StoreInv'
  <1>1. PICK kept \in SUBSET S!Digests :
          dir' = [d \in S!Digests |->
                    LET f == IF d \in kept THEN dir[d] ELSE disk[d]
                    IN  IF f = Nothing \/ f.synced THEN f ELSE S!File(S!Torn, f.mode, TRUE)]
    BY DEF S!Crash
  <1>2. ASSUME NEW d \in S!Digests
        PROVE  dir'[d] = IF d \in kept THEN dir[d] ELSE disk[d]
    BY <1>1, <1>2 DEF StoreInv, EntriesStand, Whole
  <1>3. dir' \in [S!Digests -> Slots]
    BY <1>1, <1>2 DEF StoreInv, StoreType
  <1>4. disk' = dir' /\ calls' = [c \in Calls |-> S!Idle] /\ temps' = [c \in Calls |-> Nothing]
        /\ lost' = [lost EXCEPT !.crashes = @ + 1]
        /\ promised' = [d \in S!Digests |-> IF promised[d] = "durable" THEN "durable" ELSE "none"]
    BY DEF S!Crash
  <1>5. lost' \in [crashes : Nat, damage : Nat] /\ lost'.damage = lost.damage
    BY <1>4 DEF StoreInv, StoreType
  <1>6. S!Idle \in CallRecords /\ Nothing \in Slots
    BY DEF S!Idle, CallRecords, PutPcs, PutResults, Slots
  <1>7. StoreType'
    BY <1>3, <1>4, <1>5, <1>6 DEF StoreInv, StoreType
  <1>8. CallsStand'
    BY <1>4 DEF CallsStand, Stands, S!Idle
  <1>9. EntriesStand'
    BY <1>2, <1>4, <1>5 DEF StoreInv, EntriesStand, Whole
  <1>10. S!ReportedHolds'
    <2> SUFFICES ASSUME NEW d \in S!Digests, promised'[d] # "none"
                 PROVE  dir'[d] # Nothing /\ disk'[d] # Nothing /\ (lost'.damage = 0 => S!Openable(d)')
      BY DEF S!ReportedHolds
    <2>1. promised[d] = "durable"
      BY <1>4
    <2>2. dir[d] # Nothing /\ disk[d] # Nothing
      BY <2>1 DEF StoreInv, S!ReportedHolds
    <2>3. dir'[d] # Nothing /\ lost'.damage = 0 => S!Openable(d)'
      BY <1>9 DEF EntriesStand, Whole, S!Openable
    <2> QED
      BY <1>2, <1>4, <2>2, <2>3
  <1> QED
    BY <1>7, <1>8, <1>9, <1>10 DEF StoreInv

(* The disk damages an entry.                                                *)
LEMMA DamageStands ==
  ASSUME S!ArgumentsTyped, StoreInv, S!Damage
  PROVE  StoreInv'
  <1>1. PICK d \in S!Digests :
          /\ dir[d] # Nothing
          /\ dir' = [dir EXCEPT ![d].bytes = S!Torn]
          /\ disk' = [disk EXCEPT ![d] = IF @ = Nothing THEN @ ELSE [@ EXCEPT !.bytes = S!Torn]]
    BY DEF S!Damage
  <1>2. UNCHANGED <<temps, calls, promised>> /\ lost' = [lost EXCEPT !.damage = @ + 1]
    BY DEF S!Damage
  <1>3. lost' \in [crashes : Nat, damage : Nat] /\ lost'.damage # 0
    BY <1>2 DEF StoreInv, StoreType
  <1>4. ASSUME NEW f \in S!Files
        PROVE  /\ [f EXCEPT !.bytes = S!Torn] \in S!Files
               /\ [f EXCEPT !.bytes = S!Torn].synced = f.synced
               /\ [f EXCEPT !.bytes = S!Torn].mode = f.mode
    <2>1. S!Torn \in Seq(Nat)
      BY DEF S!Torn
    <2> QED
      BY <1>4, <2>1 DEF S!Files
  <1>5. dir' \in [S!Digests -> Slots] /\ dir'[d] = [dir[d] EXCEPT !.bytes = S!Torn]
        /\ \A e \in S!Digests \ {d} : dir'[e] = dir[e]
    <2>1. dir[d] \in S!Files /\ dir' = [dir EXCEPT ![d] = [dir[d] EXCEPT !.bytes = S!Torn]]
      BY <1>1 DEF StoreInv, StoreType, Slots
    <2> QED
      BY <1>4, <2>1 DEF StoreInv, StoreType, Slots
  <1>6. /\ disk' \in [S!Digests -> Slots]
        /\ disk'[d] = (IF disk[d] = Nothing THEN Nothing ELSE [disk[d] EXCEPT !.bytes = S!Torn])
        /\ \A e \in S!Digests \ {d} : disk'[e] = disk[e]
    <2>1. disk[d] # Nothing => disk[d] \in S!Files
      BY DEF StoreInv, StoreType, Slots
    <2> QED
      BY <1>1, <1>4, <2>1 DEF StoreInv, StoreType, Slots
  <1>7. StoreType'
    BY <1>2, <1>3, <1>5, <1>6 DEF StoreInv, StoreType
  <1>8. /\ dir[d] \in S!Files /\ dir'[d] \in S!Files /\ dir'[d] # Nothing
        /\ dir'[d].synced = dir[d].synced /\ dir'[d].mode = dir[d].mode
        /\ (disk[d] = Nothing <=> disk'[d] = Nothing)
        /\ disk'[d] # Nothing => disk'[d].synced = disk[d].synced /\ disk'[d].mode = disk[d].mode
    BY <1>1, <1>4, <1>5, <1>6 DEF StoreInv, StoreType, Slots, S!ArgumentsTyped
  <1>9. \A e \in S!Digests :
          (dir[e] # Nothing => dir'[e] # Nothing) /\ (disk[e] # Nothing => disk'[e] # Nothing)
    BY <1>5, <1>6, <1>8
  <1>10. CallsStand'
    BY <1>2, <1>9, PutTyped DEF StoreInv, CallsStand, Stands
  <1>11. EntriesStand'
    BY <1>3, <1>5, <1>6, <1>8, <1>1 DEF StoreInv, EntriesStand, Whole
  <1>12. S!ReportedHolds'
    BY <1>2, <1>3, <1>9 DEF StoreInv, S!ReportedHolds
  <1> QED
    BY <1>7, <1>10, <1>11, <1>12 DEF StoreInv

(* A call looks for its entry.                                               *)
LEMMA BeginStands ==
  ASSUME S!ArgumentsTyped, StoreInv, NEW c \in Calls, S!PutOpens(c) \/ S!ReaderOpens(c)
  PROVE  StoreInv'
  <1>1. /\ calls[c].pc = "idle" /\ UNCHANGED <<dir, disk, temps, lost>>
        /\ temps[c] = Nothing /\ temps' = [temps EXCEPT ![c] = Nothing] /\ Nothing \in Slots
    BY DEF S!PutOpens, S!ReaderOpens, StoreInv, StoreType, CallsStand, Stands, Slots
  <1>2. CASE S!PutOpens(c)
    <2> DEFINE found(p) == S!Openable(p.digest) /\ Len(dir[p.digest].bytes) = p.size
    <2>1. PICK p \in Puts :
            /\ calls' = [calls EXCEPT ![c] =
                 IF dir[p.digest] = Nothing
                   THEN [pc |-> "create", put |-> p, result |-> "none"]
                   ELSE [pc |-> "done", put |-> p, result |->
                           IF found(p) THEN "exists" ELSE "error"]]
            /\ promised' = IF found(p) /\ promised[p.digest] = "none"
                             THEN [promised EXCEPT ![p.digest] = "held"] ELSE promised
      BY <1>2 DEF S!PutOpens
    <2> DEFINE r == IF dir[p.digest] = Nothing
                      THEN [pc |-> "create", put |-> p, result |-> "none"]
                      ELSE [pc |-> "done", put |-> p, result |->
                              IF found(p) THEN "exists" ELSE "error"]
    <2>2. r \in CallRecords /\ Stands(r, Nothing)
      BY DEF CallRecords, PutPcs, PutResults, Stands
    <2>3. p.digest \in S!Digests /\ promised \in [S!Digests -> {"none", "held", "durable"}]
      BY PutTyped DEF StoreInv, StoreType
    <2>4. promised' \in [S!Digests -> {"none", "held", "durable"}]
      BY <2>1, <2>3
    <2>5. found(p) => dir[p.digest] # Nothing
      BY DEF S!Openable
    <2>6. S!ReportedHolds'
      <3> SUFFICES ASSUME NEW d \in S!Digests
                   PROVE  /\ promised'[d] # "none" =>
                               dir[d] # Nothing /\ (lost.damage = 0 => S!Openable(d))
                          /\ promised'[d] = "durable" => disk[d] # Nothing
        BY <1>1 DEF S!ReportedHolds, S!Openable
      <3>1. promised'[d] = promised[d] \/ (promised'[d] = "held" /\ d = p.digest /\ found(p))
        BY <2>1, <2>3
      <3>2. promised[d] # "none" => dir[d] # Nothing
        BY DEF StoreInv, S!ReportedHolds
      <3>3. promised[d] = "durable" => disk[d] # Nothing
        BY DEF StoreInv, S!ReportedHolds
      <3>4. dir[d] # Nothing /\ lost.damage = 0 => S!Openable(d)
        BY WholeOpens DEF StoreInv
      <3> HIDE DEF found
      <3> QED
        BY <2>5, <3>1, <3>2, <3>3, <3>4
    <2>7. calls' = [calls EXCEPT ![c] = r]
      BY <2>1
    <2> HIDE DEF r
    <2> QED
      BY <1>1, <2>2, <2>4, <2>6, <2>7, OneCallReports
  <1>3. CASE S!ReaderOpens(c)
    <2>1. PICK p \in Puts, x \in {"opened", "error"} :
            calls' = [calls EXCEPT ![c] = [pc |-> "done", put |-> p, result |-> x]]
      BY <1>3 DEF S!ReaderOpens
    <2> DEFINE r == [pc |-> "done", put |-> p, result |-> x]
    <2>2. r \in CallRecords /\ Stands(r, Nothing) /\ UNCHANGED promised
      BY <1>3 DEF CallRecords, PutPcs, PutResults, Stands, S!ReaderOpens
    <2> QED
      BY <1>1, <2>1, <2>2, OneCallMoves
  <1> QED
    BY <1>2, <1>3

(* A Put creates, fills and seals its temporary file.                        *)
LEMMA FillStands ==
  ASSUME S!ArgumentsTyped, StoreInv, NEW c \in Calls,
         S!PutCreates(c) \/ S!PutCopies(c) \/ S!PutSeals(c)
  PROVE  StoreInv'
  <1>1. /\ calls[c] \in CallRecords /\ temps[c] \in Slots
        /\ Stands(calls[c], temps[c]) /\ temps \in [Calls -> Slots]
    BY Moved DEF StoreInv, StoreType, PutPcs, PutResults
  <1> DEFINE empty == S!File(<<>>, "0600", FALSE)
  <1>2. CASE S!Fail(c, temps[c]) \/ S!Fail(c, empty)
    <2>1. calls[c].pc # "idle" /\ empty \in Slots
      BY DEF S!PutCreates, S!PutCopies, S!PutSeals, S!File, S!Files, Slots
    <2> HIDE DEF empty
    <2> QED
      BY <1>1, <1>2, <2>1, FailStands
  <1>3. CASE S!PutCreates(c) /\ ~S!Fail(c, empty)
    <2> DEFINE r == [calls[c] EXCEPT !.pc = "copy"]
               t == S!File(<<>>, "0600", FALSE)
    <2>1. /\ temps' = [temps EXCEPT ![c] = t] /\ S!Goto(c, "copy")
          /\ UNCHANGED <<dir, disk, promised, lost>>
      BY <1>3 DEF S!PutCreates
    <2>2. r \in CallRecords /\ calls' = [calls EXCEPT ![c] = r]
      BY <2>1, Moved DEF PutPcs, PutResults
    <2>3. t \in S!Files /\ t \in Slots
      BY DEF S!File, S!Files, Slots
    <2>4. Stands(r, t)
      BY <1>1, <1>3, <2>3 DEF Stands, CallRecords, S!PutCreates
    <2> QED
      BY <2>1, <2>2, <2>3, <2>4, OneCallMoves
  <1>4. CASE S!PutCopies(c) /\ ~S!Fail(c, temps[c])
    <2> DEFINE p == calls[c].put
               n == IF Len(p.source) < p.size THEN Len(p.source) ELSE p.size
               r == [calls[c] EXCEPT !.pc = "seal"]
               t == [temps[c] EXCEPT !.bytes = p.digest]
    <2>1. /\ p \in Puts /\ p.digest \in Seq(Nat) /\ temps[c] \in S!Files /\ S!Matches(p)
          /\ temps' = [temps EXCEPT ![c].bytes = SubSeq(p.source, 1, n)]
          /\ S!Goto(c, "seal") /\ UNCHANGED <<dir, disk, promised, lost>>
      BY <1>1, <1>4, PutTyped DEF S!PutCopies, Stands
    <2>2. r \in CallRecords /\ calls' = [calls EXCEPT ![c] = r]
      BY <2>1, Moved DEF PutPcs, PutResults
    <2>3. SubSeq(p.source, 1, n) = p.digest
      BY <2>1, WholeCopy
    <2>4. temps' = [temps EXCEPT ![c] = t]
      BY <1>1, <2>1, <2>3
    <2>5. t \in S!Files /\ t \in Slots /\ t.bytes = p.digest
      BY <2>1 DEF S!Files, Slots
    <2>6. Stands(r, t)
      BY <1>1, <1>4, <2>1, <2>5 DEF Stands, CallRecords, S!PutCopies
    <2> QED
      BY <2>1, <2>2, <2>4, <2>5, <2>6, OneCallMoves
  <1>5. CASE S!PutSeals(c) /\ ~S!Fail(c, temps[c])
    <2> DEFINE r == [calls[c] EXCEPT !.pc = "link"]
               t == S!SealedFile(temps[c])
    <2>1. /\ temps[c] \in S!Files /\ temps[c].bytes = calls[c].put.digest /\ calls[c].put \in Puts
          /\ temps' = [temps EXCEPT ![c] = t]
          /\ S!Goto(c, "link") /\ UNCHANGED <<dir, disk, promised, lost>>
      BY <1>1, <1>5 DEF S!PutSeals, Stands
    <2>2. r \in CallRecords /\ calls' = [calls EXCEPT ![c] = r]
      BY <2>1, Moved DEF PutPcs, PutResults
    <2>3. t \in S!Files /\ t \in Slots /\ t.bytes = calls[c].put.digest /\ t.synced
          /\ t.mode = "0400"
      BY <2>1 DEF S!File, S!Files, Slots, S!SealedFile
    <2>4. Stands(r, t)
      BY <1>1, <1>5, <2>1, <2>3 DEF Stands, CallRecords, S!PutSeals
    <2> QED
      BY <2>1, <2>2, <2>3, <2>4, OneCallMoves
  <1> QED
    BY <1>2, <1>3, <1>4, <1>5

(* A Put links its file, removes the temporary name and syncs.               *)
LEMMA PublishStands ==
  ASSUME S!ArgumentsTyped, StoreInv, NEW c \in Calls,
         S!PutLinks(c) \/ S!PutUnlinks(c) \/ S!PutSyncs(c)
  PROVE  StoreInv'
  <1>1. /\ calls[c] \in CallRecords /\ temps[c] \in Slots /\ Nothing \in Slots
        /\ Stands(calls[c], temps[c]) /\ temps \in [Calls -> Slots]
        /\ temps = [temps EXCEPT ![c] = temps[c]]
    BY Moved DEF StoreInv, StoreType, PutPcs, PutResults, Slots
  <1> DEFINE p == calls[c].put
             r == [calls[c] EXCEPT !.pc = "done", !.result = "error"]
  <1>2. CASE /\ S!Return(c, "error") /\ UNCHANGED <<dir, disk, temps, promised, lost>>
             /\ calls[c].pc = "sync"
    <2>1. r \in CallRecords /\ calls' = [calls EXCEPT ![c] = r]
      BY <1>2, Moved DEF PutPcs, PutResults
    <2>2. Stands(r, temps[c])
      BY <1>1, <1>2 DEF Stands, CallRecords
    <2> QED
      BY <1>1, <1>2, <2>1, <2>2, OneCallMoves
  <1>3. CASE S!PutLinks(c)
    <2>1. CASE S!Fail(c, temps[c])
      BY <1>1, <1>3, <2>1, FailStands DEF S!PutLinks
    <2>2. CASE /\ S!Linkable(p.digest)
               /\ dir' = [dir EXCEPT ![p.digest] = temps[c]]
               /\ S!Goto(c, "unlink") /\ UNCHANGED <<disk, temps, promised, lost>>
      BY <1>3, <2>2, LinkStands DEF S!PutLinks
    <2>3. CASE /\ ~S!Linkable(p.digest)
               /\ S!Goto(c, "unlink") /\ UNCHANGED <<dir, disk, temps, promised, lost>>
      <3> DEFINE q == [calls[c] EXCEPT !.pc = "unlink"]
      <3>1. q \in CallRecords /\ calls' = [calls EXCEPT ![c] = q]
        BY <2>3, Moved DEF PutPcs, PutResults
      <3>2. Stands(q, temps[c])
        BY <1>1, <1>3, <2>3 DEF Stands, CallRecords, S!PutLinks, S!Linkable
      <3> QED
        BY <1>1, <2>3, <3>1, <3>2, OneCallMoves
    <2> QED
      BY <1>3, <2>1, <2>2, <2>3 DEF S!PutLinks
  <1>4. CASE /\ S!PutUnlinks(c) /\ temps' = [temps EXCEPT ![c] = Nothing] /\ S!Goto(c, "sync")
             /\ UNCHANGED <<dir, disk, promised, lost>>
    <2> DEFINE q == [calls[c] EXCEPT !.pc = "sync"]
    <2>1. q \in CallRecords /\ calls' = [calls EXCEPT ![c] = q]
      BY <1>4, Moved DEF PutPcs, PutResults
    <2>2. Stands(q, Nothing)
      BY <1>1, <1>4 DEF Stands, CallRecords, S!PutUnlinks
    <2> QED
      BY <1>1, <1>4, <2>1, <2>2, OneCallMoves
  <1>5. CASE /\ S!PutSyncs(c) /\ disk' = dir /\ promised' = S!Settled(p.digest)
             /\ S!Return(c, "stored") /\ UNCHANGED <<dir, temps, lost>>
    BY <1>5, SyncStands DEF S!PutSyncs
  <1>6. CASE S!PutUnlinks(c) /\ S!Fail(c, temps[c])
    BY <1>1, <1>6, FailStands DEF S!PutUnlinks
  <1> QED
    BY <1>2, <1>3, <1>4, <1>5, <1>6 DEF S!PutUnlinks, S!PutSyncs

(* A call that returned is made again.                                       *)
LEMMA AgainStands ==
  ASSUME StoreInv, NEW c \in Calls, S!Again(c)
  PROVE  StoreInv'
  <1>1. S!Idle \in CallRecords /\ Nothing \in Slots /\ Stands(S!Idle, Nothing)
    BY DEF S!Idle, CallRecords, PutPcs, PutResults, Slots, Stands
  <1> QED
    BY <1>1, OneCallMoves DEF S!Again

(* Every step keeps the invariant.                                           *)
LEMMA StoreStep ==
  ASSUME S!ArgumentsTyped, StoreInv, [S!Next]_S!vars
  PROVE  StoreInv'
  <1>1. CASE UNCHANGED S!vars
    BY <1>1
    DEF S!vars, StoreInv, StoreType, CallsStand, Stands, EntriesStand, Whole, S!ReportedHolds,
      S!Openable
  <1>2. ASSUME NEW c \in Calls, S!PutOpens(c) \/ S!ReaderOpens(c)
        PROVE  StoreInv'
    BY <1>2, BeginStands
  <1>3. ASSUME NEW c \in Calls, S!PutCreates(c) \/ S!PutCopies(c) \/ S!PutSeals(c)
        PROVE  StoreInv'
    BY <1>3, FillStands
  <1>4. ASSUME NEW c \in Calls, S!PutLinks(c) \/ S!PutUnlinks(c) \/ S!PutSyncs(c)
        PROVE  StoreInv'
    BY <1>4, PublishStands
  <1>5. ASSUME NEW c \in Calls, S!Again(c)
        PROVE  StoreInv'
    BY <1>5, AgainStands
  <1>6. CASE S!Crash
    BY <1>6, CrashStands
  <1>7. CASE S!Damage
    BY <1>7, DamageStands
  <1> QED
    BY <1>1, <1>2, <1>3, <1>4, <1>5, <1>6, <1>7 DEF S!Next

(* The invariant gives what KeptIsWhole says.                                *)
LEMMA StoreInvKeeps == S!ArgumentsTyped /\ StoreInv => S!KeptIsWhole
  <1> SUFFICES ASSUME S!ArgumentsTyped, StoreInv PROVE S!KeptIsWhole
    OBVIOUS
  <1>1. S!EntriesWhole
    BY DEF StoreInv, EntriesStand, Whole, S!EntriesWhole
  <1>2. S!StoredIsClean
    BY DEF StoreInv, CallsStand, Stands, S!StoredIsClean
  <1> QED
    BY <1>1, <1>2 DEF StoreInv, S!KeptIsWhole

(* Only damage and a crash change an entry that is there.                    *)
LEMMA StepNeverReplaces ==
  ASSUME S!ArgumentsTyped, StoreInv, [S!Next]_S!vars, lost' = lost, NEW d \in S!Digests,
         dir[d] # Nothing
  PROVE  dir'[d] = dir[d]
  <1>1. CASE dir' = dir
    BY <1>1
  <1>2. ASSUME NEW c \in Calls, S!PutLinks(c), dir' # dir
        PROVE  dir'[d] = dir[d]
    BY <1>2 DEF S!PutLinks, S!Linkable, S!Fail, StoreInv, StoreType
  <1>3. ~S!Crash /\ ~S!Damage
    <2>1. lost.crashes \in Nat /\ lost.damage \in Nat /\ lost \in [crashes : Nat, damage : Nat]
      BY DEF StoreInv, StoreType
    <2>2. /\ [lost EXCEPT !.crashes = @ + 1].crashes # lost.crashes
          /\ [lost EXCEPT !.damage = @ + 1].damage # lost.damage
      BY <2>1
    <2> QED
      BY <2>2 DEF S!Crash, S!Damage
  <1> QED
    BY <1>1, <1>2, <1>3 DEF S!Next, S!vars, S!PutOpens, S!PutCreates, S!PutCopies, S!PutSeals,
      S!PutUnlinks, S!PutSyncs, S!ReaderOpens, S!Again, S!Fail

(* A call that finds its entry has compared its bytes.                       *)
LEMMA StepOpensExpected ==
  ASSUME S!ArgumentsTyped, StoreInv, [S!Next]_S!vars, NEW c \in Calls,
         calls[c].pc = "idle", calls'[c].result \in {"opened", "exists"}
  PROVE  dir[calls'[c].put.digest].bytes = calls'[c].put.digest
  <1>1. calls[c].result = "none" /\ calls \in [Calls -> CallRecords]
    BY DEF StoreInv, StoreType, CallsStand, Stands
  <1>2. CASE S!PutOpens(c)
    <2>1. PICK p \in Puts :
            calls'[c] = IF dir[p.digest] = Nothing
              THEN [pc |-> "create", put |-> p, result |-> "none"]
              ELSE [pc |-> "done", put |-> p, result |->
                      IF S!Openable(p.digest) /\ Len(dir[p.digest].bytes) = p.size
                        THEN "exists" ELSE "error"]
      BY <1>1, <1>2 DEF S!PutOpens
    <2> QED
      BY <2>1 DEF S!Openable
  <1>3. CASE S!ReaderOpens(c)
    <2>1. PICK p \in Puts :
            calls'[c] = [pc |-> "done", put |-> p, result |->
                           IF S!Openable(p.digest) THEN "opened" ELSE "error"]
      BY <1>1, <1>3 DEF S!ReaderOpens
    <2> QED
      BY <2>1 DEF S!Openable
  <1>4. ASSUME NEW o \in Calls,
               \/ S!PutCreates(o) \/ S!PutCopies(o) \/ S!PutSeals(o) \/ S!PutLinks(o)
               \/ S!PutUnlinks(o) \/ S!PutSyncs(o) \/ S!Again(o)
        PROVE FALSE
    <2>1. calls[o].pc # "idle" /\ o # c
      BY <1>4
      DEF S!PutCreates, S!PutCopies, S!PutSeals, S!PutLinks, S!PutUnlinks, S!PutSyncs, S!Again
    <2>2. calls'[c] = calls[c]
      BY <1>1, <1>4, <2>1
      DEF S!PutCreates, S!PutCopies, S!PutSeals, S!PutLinks, S!PutUnlinks, S!PutSyncs,
        S!Again, S!Goto, S!Return, S!Fail
    <2> QED
      BY <1>1, <2>2
  <1>5. ASSUME NEW o \in Calls \ {c}, S!PutOpens(o) \/ S!ReaderOpens(o) PROVE FALSE
    <2>1. calls'[c] = calls[c]
      BY <1>1, <1>5 DEF S!PutOpens, S!ReaderOpens
    <2> QED
      BY <1>1, <2>1
  <1>6. CASE S!Crash
    <2>1. calls'[c] = S!Idle
      BY <1>6 DEF S!Crash
    <2> QED
      BY <2>1 DEF S!Idle
  <1>7. CASE S!Damage \/ UNCHANGED S!vars
    <2>1. calls' = calls
      BY <1>7 DEF S!Damage, S!vars
    <2> QED
      BY <1>1, <2>1
  <1> QED
    BY <1>2, <1>3, <1>4, <1>5, <1>6, <1>7 DEF S!Next

(* Every entry of the artifact store is whole; one that a Put reported is    *)
(* there until power fails, and survives power failures from the first       *)
(* directory sync that a Put returned from; a Put that stored its entry left *)
(* no temporary file; no call replaces an entry, and one that is opened was  *)
(* found whole by that call: for any number of concurrent calls, contents    *)
(* and crashes.                                                              *)
THEOREM StoreKeeps ==
  ASSUME S!ArgumentsTyped
  PROVE  S!Spec => []S!KeptIsWhole /\ S!NeverReplaced /\ S!OpenedIsExpected
  <1>1. S!Init => StoreInv
    BY StoreInit
  <1>2. StoreInv /\ [S!Next]_S!vars => StoreInv'
    BY StoreStep
  <1>3. StoreInv => S!KeptIsWhole
    BY StoreInvKeeps
  <1>4. StoreInv /\ [S!Next]_S!vars =>
          [lost' = lost =>
             \A d \in S!Digests : dir[d] # Nothing => dir'[d] = dir[d]]_S!vars
    BY StepNeverReplaces
  <1>5. StoreInv /\ [S!Next]_S!vars =>
          [\A c \in Calls :
             (/\ calls[c].pc = "idle"
              /\ calls'[c].result \in {"opened", "exists"})
               => dir[calls'[c].put.digest].bytes = calls'[c].put.digest]_S!vars
    BY StepOpensExpected
  <1> QED
    BY <1>1, <1>2, <1>3, <1>4, <1>5, PTL DEF S!Spec, S!NeverReplaced, S!OpenedIsExpected

-----------------------------------------------------------------------------
(* The outputs of the fetcher. *)
F == INSTANCE FetchFiles

(* Where a call stands: it has linked nothing, it holds the bottle, it is    *)
(* over.                                                                     *)
Before == {"check bottle", "check evidence", "fetch", "write evidence", "link bottle"}
Holding == {"unlink bottle", "link evidence", "unlink evidence", "withdraw", "returned"}
Ended == {"failed", "killed"}

OutputsType ==
  /\ step \in [Callers -> Before \cup Holding \cup Ended]
  /\ left \in [Callers -> SUBSET F!Temps]
  /\ frozen \in BOOLEAN

(* A call that linked the bottle holds it until it withdraws it, and one     *)
(* that failed on a working file system left nothing.                        *)
BottleHeld ==
  \A c \in Callers :
    /\ step[c] \in Holding => bottle = c
    /\ bottle = c => step[c] \notin Before
    /\ step[c] = "failed" /\ ~frozen => bottle # c /\ left[c] = {}
    /\ step[c] \in {"check bottle", "check evidence", "fetch"} => left[c] = {}

(* Evidence is linked beside its own bottle only.                            *)
EvidenceHeld ==
  \A c \in Callers :
    /\ step[c] \in {"unlink evidence", "returned"} => evidence = c
    /\ evidence = c => bottle = c /\ step[c] \notin {"unlink bottle", "link evidence"}
    /\ evidence = c /\ step[c] = "withdraw" => frozen

(* The inductive invariant behind KeptIsWhole.                               *)
OutputsInv == OutputsType /\ BottleHeld /\ EvidenceHeld

(* Both output paths are free.                                               *)
LEMMA OutputsInit == F!MakersDiffer /\ F!Init => OutputsInv
  BY DEF F!MakersDiffer, F!Init, OutputsInv, OutputsType, BottleHeld, EvidenceHeld, Before,
     Holding, Ended, F!Temps

(* Every step of the calls, the kill, the foreign file and the read-only     *)
(* file system keep the invariant.                                           *)
LEMMA OutputsStep ==
  ASSUME F!MakersDiffer, OutputsInv, [F!Next]_F!vars
  PROVE  OutputsInv'
  <1> USE DEF F!MakersDiffer, OutputsInv, OutputsType, BottleHeld, EvidenceHeld, Before, Holding,
              Ended, F!Goto, F!outputs, F!Temps
  <1>1. ASSUME NEW c \in Callers, F!CheckBottle(c) PROVE OutputsInv'
    BY <1>1 DEF F!CheckBottle
  <1>2. ASSUME NEW c \in Callers, F!CheckEvidence(c) PROVE OutputsInv'
    BY <1>2 DEF F!CheckEvidence
  <1>0. ASSUME NEW c \in Callers, F!Fails(c), step[c] \in Before PROVE OutputsInv'
    <2>1. left' \in [Callers -> SUBSET F!Temps] /\ \A d \in Callers \ {c} : left'[d] = left[d]
      BY <1>0 DEF F!Fails, F!DropTemps
    <2>2. ~frozen => left'[c] = {}
      BY <1>0 DEF F!Fails, F!DropTemps
    <2> QED
      BY <1>0, <2>1, <2>2 DEF F!Fails
  <1>3. ASSUME NEW c \in Callers, F!Fetch(c) PROVE OutputsInv'
    <2>1. CASE ~frozen /\ left' = [left EXCEPT ![c] = {"bottle"}]
               /\ F!Goto(c, "write evidence") /\ UNCHANGED <<F!outputs, frozen>>
      BY <1>3, <2>1 DEF F!Fetch
    <2> QED
      BY <1>0, <1>3, <2>1 DEF F!Fetch
  <1>4. ASSUME NEW c \in Callers, F!WriteEvidence(c) PROVE OutputsInv'
    <2>1. CASE ~frozen /\ left' = [left EXCEPT ![c] = F!Temps]
               /\ F!Goto(c, "link bottle") /\ UNCHANGED <<F!outputs, frozen>>
      BY <1>4, <2>1 DEF F!WriteEvidence
    <2> QED
      BY <1>0, <1>4, <2>1 DEF F!WriteEvidence
  <1>5. ASSUME NEW c \in Callers, F!LinkBottle(c) PROVE OutputsInv'
    <2>1. CASE F!CanLink(bottle)
      <3>1. /\ \A d \in Callers : step[d] \notin Holding /\ evidence # d
            /\ bottle' = c /\ step' = [step EXCEPT ![c] = "unlink bottle"]
            /\ UNCHANGED <<evidence, left, frozen>>
        BY <1>5, <2>1 DEF F!LinkBottle, F!CanLink
      <3>2. step[c] = "link bottle"
        BY <1>5 DEF F!LinkBottle
      <3>3. OutputsType' /\ BottleHeld'
        BY <3>1, <3>2
      <3>4. EvidenceHeld'
        BY <3>1
      <3> QED
        BY <3>3, <3>4
    <2> QED
      BY <1>0, <1>5, <2>1 DEF F!LinkBottle
  <1>6. ASSUME NEW c \in Callers, F!UnlinkBottle(c) PROVE OutputsInv'
    <2>1. CASE frozen
      BY <1>6, <2>1 DEF F!UnlinkBottle
    <2>2. CASE ~frozen
      <3>1. left' = [left EXCEPT ![c] = {"evidence"}] /\ step' = [step EXCEPT ![c] = "link evidence"]
            /\ UNCHANGED <<bottle, evidence, frozen>> /\ step[c] = "unlink bottle"
        BY <1>6, <2>2 DEF F!UnlinkBottle
      <3>2. OutputsType'
        BY <3>1
      <3>3. BottleHeld' /\ EvidenceHeld'
        BY <3>1
      <3> QED
        BY <3>2, <3>3
    <2> QED
      BY <2>1, <2>2
  <1>7. ASSUME NEW c \in Callers, F!LinkEvidence(c) PROVE OutputsInv'
    BY <1>7 DEF F!LinkEvidence, F!CanLink
  <1>8. ASSUME NEW c \in Callers, F!UnlinkEvidence(c) PROVE OutputsInv'
    BY <1>8 DEF F!UnlinkEvidence
  <1>9. ASSUME NEW c \in Callers, F!Withdraw(c) PROVE OutputsInv'
    BY <1>9 DEF F!Withdraw, F!DropTemps
  <1>10. ASSUME NEW c \in Callers, F!Kill(c) PROVE OutputsInv'
    BY <1>10 DEF F!Kill
  <1>11. CASE F!Intrude
    BY <1>11 DEF F!Intrude
  <1>12. CASE F!Freeze
    BY <1>12 DEF F!Freeze
  <1>13. CASE UNCHANGED F!vars
    BY <1>13 DEF F!vars
  <1> QED
    BY <1>1, <1>2, <1>3, <1>4, <1>5, <1>6, <1>7, <1>8, <1>9, <1>10, <1>11, <1>12, <1>13 DEF F!Next

(* A file leaves an output path only when its own call withdraws it.         *)
LEMMA OutputsOthersKept ==
  ASSUME F!MakersDiffer, OutputsInv, F!Next, NEW m \in Callers \cup {Outside}
  PROVE  /\ bottle = m /\ bottle' # m => m # Outside /\ step[m] = "withdraw"
         /\ evidence = m => evidence' = m
  <1> USE DEF F!MakersDiffer, F!outputs
  <1>1. CASE UNCHANGED <<bottle, evidence>>
    BY <1>1
  <1>2. ASSUME NEW c \in Callers, F!LinkBottle(c) \/ F!LinkEvidence(c)
        PROVE  (bottle = m => bottle' = m) /\ (evidence = m => evidence' = m)
    BY <1>2 DEF F!LinkBottle, F!LinkEvidence, F!CanLink, F!Fails
  <1>3. ASSUME NEW c \in Callers, F!Withdraw(c)
        PROVE  bottle = c /\ step[c] = "withdraw" /\ evidence' = evidence
    BY <1>3 DEF F!Withdraw, OutputsInv, BottleHeld, Holding
  <1>4. ASSUME F!Intrude PROVE (bottle = m => bottle' = m) /\ (evidence = m => evidence' = m)
    BY <1>4 DEF F!Intrude
  <1>5. ASSUME NEW c \in Callers,
               F!CheckBottle(c) \/ F!CheckEvidence(c) \/ F!Fetch(c) \/ F!WriteEvidence(c)
                 \/ F!UnlinkBottle(c) \/ F!UnlinkEvidence(c) \/ F!Kill(c)
        PROVE  UNCHANGED <<bottle, evidence>>
    BY <1>5
    DEF F!CheckBottle, F!CheckEvidence, F!Fetch, F!WriteEvidence, F!UnlinkBottle,
        F!UnlinkEvidence,
                F!Kill, F!Fails
  <1>6. CASE F!Freeze
    BY <1>1, <1>6 DEF F!Freeze
  <1> QED
    BY <1>1, <1>2, <1>3, <1>4, <1>5, <1>6 DEF F!Next

(* FetchToFiles leaves evidence only beside the bottle it describes, a call  *)
(* that returned keeps both, one that failed cleans up, and nobody removes a *)
(* file of another process: for any number of concurrent calls.              *)
THEOREM OutputsKept ==
  ASSUME F!MakersDiffer
  PROVE  F!Spec => []F!KeptIsWhole /\ F!OthersKept
  <1>1. F!Init => OutputsInv
    BY OutputsInit
  <1>2. OutputsInv /\ [F!Next]_F!vars => OutputsInv'
    BY OutputsStep
  <1>3. OutputsInv => F!KeptIsWhole
    BY DEF OutputsInv, OutputsType, BottleHeld, EvidenceHeld, Holding, F!KeptIsWhole,
       F!EvidenceNamesItsBottle, F!ReturnedKeeps, F!FailedLeavesNothing
  <1>4. OutputsInv /\ [F!Next]_F!vars =>
          [\A m \in Callers \cup {Outside} :
             /\ bottle = m /\ bottle' # m => m # Outside /\ step[m] = "withdraw"
             /\ evidence = m => evidence' = m]_F!vars
    BY OutputsOthersKept
  <1> QED
    BY <1>1, <1>2, <1>3, <1>4, PTL DEF F!Spec, F!OthersKept

-----------------------------------------------------------------------------
(* The metadata snapshot. *)
M == INSTANCE MetadataBundle WITH None <- Nothing, dir <- output

(* A date, or none.                                                          *)
Times == Nat \cup {Nothing}
Documents == [kind : M!Kinds, gen : Nat, date : Times, genuine : BOOLEAN]
Replies == [data : Documents, at : Times]

(* A document dated in the window of a load at time t: not before the floor, *)
(* not too old, and by its own date when it has one.                         *)
InWindow(doc, date, floor, t) ==
  /\ date \in Nat /\ date >= floor /\ date + MaxAge >= t
  /\ doc.date # Nothing => date = doc.date

(* A snapshot in hand was loaded from documents in the window, and is dated  *)
(* by the earlier of them.                                                   *)
SnapshotStands(s, floor) ==
  /\ s.fetchedAt \in Nat /\ s.fetchedAt <= now
  /\ InWindow(s.formula, s.dates.formula, floor, s.fetchedAt)
  /\ InWindow(s.migrations, s.dates.migrations, floor, s.fetchedAt)
  /\ s.generatedAt \in {s.dates.formula, s.dates.migrations}
  /\ s.generatedAt <= s.dates.formula /\ s.generatedAt <= s.dates.migrations

(* An entry of a manifest describes its document.                            *)
MemberStands(member, doc, date) ==
  /\ doc \in Documents
  /\ member.digest = doc /\ member.at = date /\ date \in Nat
  /\ doc.date # Nothing => date = doc.date

(* A bundle records the documents it was captured from.                      *)
BundleStands(b) ==
  /\ MemberStands(b.manifest.formula, b.formula, b.snapshot.dates.formula)
  /\ MemberStands(b.manifest.migrations, b.migrations, b.snapshot.dates.migrations)
  /\ b.snapshot.formula = b.formula /\ b.snapshot.migrations = b.migrations
  /\ b.snapshot.dates = [formula |-> b.snapshot.dates.formula,
                         migrations |-> b.snapshot.dates.migrations]

WorldType ==
  /\ now \in Nat
  /\ served \in [M!Kinds -> Replies]
  /\ \A b \in released : BundleStands(b)

(* What was fetched so far is an answer of the server.                       *)
Fetched(p) ==
  /\ p.got = [k \in M!Kinds |-> p.got[k]]
  /\ p.stage \in {"migrations", "load"} => p.got["formula"] \in Replies
  /\ p.stage = "load" => p.got["migrations"] \in Replies

WriterStands ==
  /\ writer = [stage |-> writer.stage, got |-> writer.got, bundle |-> writer.bundle,
               step |-> writer.step, captures |-> writer.captures]
  /\ Fetched(writer)
  /\ writer.stage \in {"mkdir", "write", "done"} => BundleStands(writer.bundle)

(* The files of the bundle before the given one are written, the digest is   *)
(* not.                                                                      *)
Written(n) ==
  /\ output.files["formula"] = IF n > 1 THEN writer.bundle.formula ELSE Nothing
  /\ output.files["migrations"] = IF n > 2 THEN writer.bundle.migrations ELSE Nothing
  /\ output.files["manifest"] = IF n > 3 THEN writer.bundle.manifest ELSE Nothing
  /\ output.files["digest"] = Nothing

(* The directory: files only inside it, whole and in order while the writer  *)
(* is at work, and a digest only over a whole bundle.                        *)
DirStands ==
  /\ output = [there |-> output.there, files |-> output.files, torn |-> output.torn]
  /\ output.files = [f \in M!Files |-> output.files[f]]
  /\ output.there \/ output = M!NoDir
  /\ writer.stage = "write" =>
       /\ output.there /\ output.torn = {} /\ writer.step \in 1..4 /\ Written(writer.step)
  /\ M!DigestVouches

(* The reader: what it holds at every stage.                                 *)
ReaderStands ==
  /\ reader = [stage |-> reader.stage, got |-> reader.got, floor |-> reader.floor,
               bound |-> reader.bound, context |-> reader.context,
               snapshot |-> reader.snapshot]
  /\ Fetched(reader)
  /\ reader.floor \in Nat
  /\ reader.stage \in {"idle", "formula", "migrations", "load", "bundle"} =>
       reader.snapshot = Nothing
  /\ reader.stage \in {"formula", "migrations", "load"} => reader.bound = Nothing
  /\ reader.stage = "bundle" => reader.bound \in released
  /\ reader.stage = "loaded" => reader.snapshot # Nothing
  /\ reader.snapshot # Nothing => SnapshotStands(reader.snapshot, reader.floor)
  /\ M!LoadedIsCaptured
  /\ M!SnapshotRecordable

(* The inductive invariant behind SnapshotSound.                             *)
SnapshotInv == WorldType /\ WriterStands /\ DirStands /\ ReaderStands

(* No capture yet.                                                           *)
LEMMA SnapshotInit == M!Init => SnapshotInv
  <1> SUFFICES ASSUME M!Init
               PROVE  SnapshotInv
    OBVIOUS
  <1>1. served \in [M!Kinds -> Replies]
    BY DEF M!Init, M!Kinds, Replies, Documents, Times
  <1>2. WorldType
    BY <1>1 DEF M!Init, WorldType
  <1>3. WriterStands
    BY DEF M!Init, M!Idle, WriterStands, Fetched, M!Kinds
  <1>4. DirStands
    BY DEF M!Init, M!Idle, M!NoDir, DirStands, M!Files, M!Kinds, M!DigestVouches
  <1>5. ReaderStands
    BY DEF M!Init, ReaderStands, Fetched, M!Kinds, M!LoadedIsCaptured, M!SnapshotRecordable
  <1> QED
    BY <1>2, <1>3, <1>4, <1>5 DEF SnapshotInv

(* An answer is a document, genuine or not.                                  *)
LEMMA AnswersTyped ==
  ASSUME WorldType, NEW k \in M!Kinds, NEW s \in M!Answers(k)
  PROVE  s \in Replies
  <1>1. served[k] \in Replies
    BY DEF WorldType
  <1>2. s = served[k] \/ s = [served[k] EXCEPT !.data.genuine = FALSE]
    BY DEF M!Answers
  <1>3. CASE s = [served[k] EXCEPT !.data.genuine = FALSE]
    <2>1. s.at = served[k].at /\ s = [data |-> s.data, at |-> s.at]
      BY <1>1, <1>3 DEF Replies
    <2>2. s.data = [served[k].data EXCEPT !.genuine = FALSE]
      BY <1>1, <1>3 DEF Replies
    <2>3. s.data \in Documents
      BY <1>1, <2>2 DEF Replies, Documents
    <2> QED
      BY <1>1, <2>1, <2>3 DEF Replies
  <1> QED
    BY <1>1, <1>2, <1>3

(* chooseGeneratedAt prefers the date inside the document.                   *)
LEMMA Dated ==
  ASSUME NEW s \in Replies
  PROVE  /\ M!chooseGeneratedAt(s) \in Times
         /\ s.data.date # Nothing => M!chooseGeneratedAt(s) = s.data.date
  BY DEF M!chooseGeneratedAt, Replies, Documents

(* What the checks of a load establish.                                      *)
LEMMA LoadedFacts ==
  ASSUME M!ClockSound, NEW f \in Replies, NEW m \in Replies, NEW t \in Nat, NEW floor \in Nat,
         M!LoadSnapshot(f, m, t, floor) # Nothing
  PROVE  LET s == M!LoadSnapshot(f, m, t, floor)
             fd == M!chooseGeneratedAt(f)
             md == M!chooseGeneratedAt(m)
         IN  /\ s = [formula |-> f.data, migrations |-> m.data,
                     dates |-> [formula |-> fd, migrations |-> md],
                     generatedAt |-> s.generatedAt, fetchedAt |-> t]
             /\ InWindow(f.data, fd, floor, t) /\ InWindow(m.data, md, floor, t)
             /\ s.generatedAt \in {fd, md} /\ s.generatedAt <= fd /\ s.generatedAt <= md
  <1> DEFINE s == M!LoadSnapshot(f, m, t, floor)
             fd == M!chooseGeneratedAt(f)
             md == M!chooseGeneratedAt(m)
  <1>1. /\ s = [formula |-> f.data, migrations |-> m.data,
                dates |-> [formula |-> fd, migrations |-> md],
                generatedAt |-> M!SnapshotDate(f, m), fetchedAt |-> t]
        /\ M!ValidateGeneratedAt(fd, t, floor) /\ M!ValidateGeneratedAt(md, t, floor)
    BY DEF M!LoadSnapshot, M!MembersFresh
  <1>2. fd \in Nat /\ md \in Nat
    BY <1>1, Dated DEF M!ValidateGeneratedAt, Times
  <1>3. InWindow(f.data, fd, floor, t) /\ InWindow(m.data, md, floor, t)
    BY <1>1, <1>2, Dated DEF M!ValidateGeneratedAt, InWindow
  <1>4. s.generatedAt = IF md < fd THEN md ELSE fd
    BY <1>1 DEF M!SnapshotDate
  <1> HIDE DEF s, fd, md
  <1>5. s.generatedAt \in {fd, md} /\ s.generatedAt <= fd /\ s.generatedAt <= md
    BY <1>2, <1>4
  <1>6. s = [formula |-> f.data, migrations |-> m.data,
             dates |-> [formula |-> fd, migrations |-> md],
             generatedAt |-> s.generatedAt, fetchedAt |-> t]
    BY <1>1
  <1> QED
    BY <1>3, <1>5, <1>6 DEF s, fd, md

(* A step of the writer or of the world leaves the reader sound.             *)
LEMMA ReaderStays ==
  ASSUME ReaderStands, UNCHANGED reader, now \in Nat, now' \in Nat, now <= now',
         released \subseteq released'
  PROVE  ReaderStands'
  <1>1. ASSUME SnapshotStands(reader.snapshot, reader.floor)
        PROVE  SnapshotStands(reader.snapshot, reader.floor)'
    <2>1. reader.snapshot.fetchedAt \in Nat /\ reader.snapshot.fetchedAt <= now
      BY <1>1 DEF SnapshotStands
    <2>2. reader.snapshot.fetchedAt <= now'
      BY <2>1
    <2> QED
      BY <1>1, <2>1, <2>2 DEF SnapshotStands
  <1> QED
    BY <1>1 DEF ReaderStands, Fetched, M!LoadedIsCaptured, M!SnapshotRecordable

(* A step that leaves the writer alone leaves it sound.                      *)
LEMMA WriterStays ==
  ASSUME WriterStands, DirStands, UNCHANGED <<writer, output>>
  PROVE  WriterStands' /\ DirStands'
  BY DEF WriterStands, Fetched, DirStands, Written, M!DigestVouches

(* The writer fetches and loads.                                             *)
LEMMA CaptureStep ==
  ASSUME M!ClockSound, SnapshotInv,
         M!CaptureFormula \/ M!CaptureMigrations \/ M!CaptureBundle
  PROVE  SnapshotInv'
  <1>1. /\ UNCHANGED <<now, served, output, released, reader>> /\ writer.stage # "write"
        /\ writer'.stage # "write"
    BY DEF M!CaptureFormula, M!CaptureMigrations, M!CaptureBundle, SnapshotInv, WriterStands,
       M!Idle
  <1>2. WorldType' /\ ReaderStands'
    <2>1. now \in Nat /\ now' \in Nat /\ now <= now'
      BY <1>1 DEF SnapshotInv, WorldType
    <2> QED
      BY <1>1, <2>1, ReaderStays DEF SnapshotInv, WorldType
  <1>3. DirStands'
    BY <1>1 DEF SnapshotInv, DirStands, M!DigestVouches
  <1>4. CASE M!CaptureFormula
    <2>1. PICK a \in M!Answers("formula") :
            writer' = [writer EXCEPT !.stage = "migrations", !.got["formula"] = a, !.captures = @ + 1]
      BY <1>4 DEF M!CaptureFormula
    <2>2. a \in Replies
      BY AnswersTyped DEF SnapshotInv, M!Kinds
    <2>3. writer' = [stage |-> "migrations", got |-> [writer.got EXCEPT !["formula"] = a],
                     bundle |-> writer.bundle, step |-> writer.step, captures |-> writer.captures + 1]
      BY <2>1 DEF SnapshotInv, WriterStands
    <2>4. WriterStands'
      BY <2>2, <2>3 DEF SnapshotInv, WriterStands, Fetched, M!Kinds
    <2> QED
      BY <1>2, <1>3, <2>4 DEF SnapshotInv
  <1>5. CASE M!CaptureMigrations
    <2>1. PICK a \in M!Answers("migrations") :
            writer' = [writer EXCEPT !.stage = "load", !.got["migrations"] = a]
      BY <1>5 DEF M!CaptureMigrations
    <2>2. a \in Replies
      BY AnswersTyped DEF SnapshotInv, M!Kinds
    <2>3. writer' = [stage |-> "load", got |-> [writer.got EXCEPT !["migrations"] = a],
                     bundle |-> writer.bundle, step |-> writer.step, captures |-> writer.captures]
      BY <2>1 DEF SnapshotInv, WriterStands
    <2>4. WriterStands'
      BY <1>5, <2>2, <2>3 DEF M!CaptureMigrations, SnapshotInv, WriterStands, Fetched, M!Kinds
    <2> QED
      BY <1>2, <1>3, <2>4 DEF SnapshotInv
  <1>6. CASE M!CaptureBundle
    <2> DEFINE f == writer.got["formula"]
               m == writer.got["migrations"]
               x == M!LoadSnapshot(f, m, now, 0)
               b == [manifest |-> M!CanonicalManifest(writer.got), formula |-> f.data,
                     migrations |-> m.data, snapshot |-> x]
    <2>1. f \in Replies /\ m \in Replies
      BY <1>6 DEF M!CaptureBundle, SnapshotInv, WriterStands, Fetched
    <2>2. CASE x # Nothing /\ writer' = [M!Idle EXCEPT !.stage = "mkdir", !.captures = writer.captures,
                                        !.bundle = b]
      <3>1. /\ x.formula = f.data /\ x.migrations = m.data
            /\ x.dates = [formula |-> M!chooseGeneratedAt(f), migrations |-> M!chooseGeneratedAt(m)]
            /\ InWindow(f.data, M!chooseGeneratedAt(f), 0, now)
            /\ InWindow(m.data, M!chooseGeneratedAt(m), 0, now)
        <4>1. now \in Nat /\ 0 \in Nat
          BY DEF SnapshotInv, WorldType
        <4> HIDE DEF f, m
        <4> QED
          BY <2>1, <2>2, <4>1, LoadedFacts
      <3>2. /\ b.manifest.formula.at = M!chooseGeneratedAt(f)
            /\ b.manifest.formula.digest = f.data
            /\ b.manifest.migrations.at = M!chooseGeneratedAt(m)
            /\ b.manifest.migrations.digest = m.data
        BY DEF M!CanonicalManifest, M!bundleDocument, M!Kinds
      <3>3. f.data \in Documents /\ m.data \in Documents
        BY <2>1 DEF Replies
      <3>4. b.formula = f.data /\ b.migrations = m.data /\ b.snapshot = x
        OBVIOUS
      <3>5. writer' = [stage |-> "mkdir", got |-> [k \in M!Kinds |-> Nothing], bundle |-> b, step |-> 0,
                       captures |-> writer.captures]
        BY <2>2 DEF M!Idle
      <3> HIDE DEF b, x, f, m
      <3>6. BundleStands(b)
        BY <3>1, <3>2, <3>3, <3>4 DEF BundleStands, MemberStands, InWindow
      <3>7. WriterStands'
        BY <3>5, <3>6 DEF WriterStands, Fetched
      <3> QED
        BY <1>2, <1>3, <3>7 DEF SnapshotInv
    <2>3. CASE writer' = [writer EXCEPT !.stage = "refused"]
      <3>1. WriterStands'
        BY <2>3 DEF SnapshotInv, WriterStands, Fetched
      <3> QED
        BY <1>2, <1>3, <3>1 DEF SnapshotInv
    <2> QED
      BY <1>6, <2>2, <2>3 DEF M!CaptureBundle
  <1> QED
    BY <1>4, <1>5, <1>6

(* A new directory holds nothing.                                            *)
LEMMA EmptyDir ==
  ASSUME output' = M!NoDir, writer'.stage # "write"
  PROVE  DirStands'
  BY DEF DirStands, M!NoDir, M!DigestVouches, M!Files, M!Kinds

(* A step of the writer leaves the world and the reader sound.               *)
LEMMA OthersStay ==
  ASSUME SnapshotInv, UNCHANGED <<now, served, reader>>, released \subseteq released',
         \A b \in released' : BundleStands(b)
  PROVE  WorldType' /\ ReaderStands'
  <1>1. now \in Nat /\ now' \in Nat /\ now <= now'
    BY DEF SnapshotInv, WorldType
  <1> QED
    BY <1>1, ReaderStays DEF SnapshotInv, WorldType

(* The four files of a bundle.                                               *)
LEMMA FileNames == M!Files = {"formula", "migrations", "manifest", "digest"}
  BY DEF M!Files, M!Kinds

(* The writer writes a file, wholly or not.                                  *)
LEMMA WriteStep ==
  ASSUME SnapshotInv, M!WriteFile
  PROVE  WriterStands' /\ DirStands'
  <1> DEFINE b == writer.bundle
             n == writer.step
  <1>1. /\ writer.stage = "write" /\ n \in 1..4 /\ Written(n) /\ output.there /\ output.torn = {}
        /\ BundleStands(b) /\ WriterStands
        /\ output = [there |-> output.there, files |-> output.files, torn |-> output.torn]
        /\ output.files = [f \in M!Files |-> output.files[f]]
    BY DEF M!WriteFile, SnapshotInv, DirStands, WriterStands
  <1>2. /\ output' = [output EXCEPT !.files[M!WriteOrder[n]] = M!Content(M!WriteOrder[n])]
        /\ writer' = IF n = 4 THEN [writer EXCEPT !.stage = "done"] ELSE [writer EXCEPT !.step = @ + 1]
    BY DEF M!WriteFile
  <1>3. /\ output' = [there |-> TRUE, files |-> output'.files, torn |-> {}]
        /\ output'.files = [output.files EXCEPT ![M!WriteOrder[n]] = M!Content(M!WriteOrder[n])]
    BY <1>1, <1>2
  <1>10. /\ output'.files = [f \in M!Files |-> output'.files[f]]
         /\ \A f \in M!Files :
              output'.files[f] = IF f = M!WriteOrder[n] THEN M!Content(M!WriteOrder[n]) ELSE output.files[f]
    <2> DEFINE file == M!WriteOrder[n]
               c == M!Content(file)
    <2>1. /\ output.files = [f \in M!Files |-> output.files[f]]
          /\ output'.files = [output.files EXCEPT ![file] = c]
      BY <1>1, <1>3
    <2> HIDE DEF file, c
    <2>2. /\ output'.files = [f \in M!Files |-> output'.files[f]]
          /\ \A f \in M!Files : output'.files[f] = IF f = file THEN c ELSE output.files[f]
      BY <2>1
    <2> QED
      BY <2>2 DEF file, c
  <1>4. WriterStands'
    BY <1>1, <1>2 DEF WriterStands, Fetched
  <1>5. ASSUME n # 4
        PROVE  /\ writer'.stage = "write" /\ writer'.step = n + 1 /\ writer'.bundle = b
    BY <1>1, <1>2, <1>5 DEF WriterStands
  <1>6. CASE n = 1
    <2>1. M!WriteOrder[n] = "formula" /\ M!Content("formula") = b.formula
      BY <1>6 DEF M!WriteOrder, M!Content, M!Kinds
    <2>2. /\ output'.files = [f \in M!Files |-> output'.files[f]] /\ output'.files["formula"] = b.formula
          /\ output'.files["migrations"] = Nothing /\ output'.files["manifest"] = Nothing
          /\ output'.files["digest"] = Nothing
      <3>2. Written(1)
        BY <1>1, <1>6
      <3> QED
        BY <1>10, <2>1, <3>2, FileNames DEF Written
    <2>3. Written(writer.step)' /\ writer'.step \in 1..4
      BY <1>5, <1>6, <2>2 DEF Written
    <2> QED
      BY <1>3, <1>4, <2>2, <2>3 DEF DirStands, M!DigestVouches
  <1>7. CASE n = 2
    <2>1. M!WriteOrder[n] = "migrations" /\ M!Content("migrations") = b.migrations
      BY <1>7 DEF M!WriteOrder, M!Content, M!Kinds
    <2>2. /\ output'.files = [f \in M!Files |-> output'.files[f]] /\ output'.files["formula"] = b.formula
          /\ output'.files["migrations"] = b.migrations /\ output'.files["manifest"] = Nothing
          /\ output'.files["digest"] = Nothing
      <3>2. Written(2)
        BY <1>1, <1>7
      <3> QED
        BY <1>10, <2>1, <3>2, FileNames DEF Written
    <2>3. Written(writer.step)' /\ writer'.step \in 1..4
      BY <1>5, <1>7, <2>2 DEF Written
    <2> QED
      BY <1>3, <1>4, <2>2, <2>3 DEF DirStands, M!DigestVouches
  <1>8. CASE n = 3
    <2>1. M!WriteOrder[n] = "manifest" /\ M!Content("manifest") = b.manifest
      BY <1>8 DEF M!WriteOrder, M!Content, M!Kinds
    <2>2. /\ output'.files = [f \in M!Files |-> output'.files[f]] /\ output'.files["formula"] = b.formula
          /\ output'.files["migrations"] = b.migrations /\ output'.files["manifest"] = b.manifest
          /\ output'.files["digest"] = Nothing
      <3>2. Written(3)
        BY <1>1, <1>8
      <3> QED
        BY <1>10, <2>1, <3>2, FileNames DEF Written
    <2>3. Written(writer.step)' /\ writer'.step \in 1..4
      BY <1>5, <1>8, <2>2 DEF Written
    <2> QED
      BY <1>3, <1>4, <2>2, <2>3 DEF DirStands, M!DigestVouches
  <1>9. CASE n = 4
    <2>1. M!WriteOrder[n] = "digest" /\ M!Content("digest") = b.manifest
      BY <1>9 DEF M!WriteOrder, M!Content, M!Kinds
    <2>2. /\ output'.files = [f \in M!Files |-> output'.files[f]] /\ output'.files["formula"] = b.formula
          /\ output'.files["migrations"] = b.migrations /\ output'.files["manifest"] = b.manifest
          /\ output'.files["digest"] = b.manifest
      <3>2. Written(4)
        BY <1>1, <1>9
      <3> QED
        BY <1>10, <2>1, <3>2, FileNames DEF Written
    <2>3. writer'.stage = "done"
      BY <1>1, <1>2, <1>9 DEF WriterStands
    <2>4. M!DigestVouches'
      <3>1. b.manifest.formula.digest = b.formula /\ b.manifest.migrations.digest = b.migrations
        BY <1>1 DEF BundleStands, MemberStands
      <3>2. output'.there /\ output'.torn = {}
        BY <1>1, <1>3
      <3>3. \A k \in M!Kinds : output'.files[k] = output'.files["digest"][k].digest
        BY <2>2, <3>1 DEF M!Kinds
      <3> QED
        BY <2>2, <3>2, <3>3 DEF M!DigestVouches
    <2> QED
      BY <1>3, <1>4, <2>2, <2>3, <2>4 DEF DirStands
  <1> QED
    BY <1>1, <1>6, <1>7, <1>8, <1>9

(* The writer is killed, possibly in the middle of a file.                   *)
LEMMA KillStep ==
  ASSUME SnapshotInv, M!Kill
  PROVE  WriterStands' /\ DirStands'
  <1>1. writer'.stage = "killed" /\ WriterStands'
    BY DEF M!Kill, SnapshotInv, WriterStands, Fetched
  <1>2. CASE UNCHANGED output
    BY <1>1, <1>2 DEF SnapshotInv, DirStands, M!DigestVouches
  <1>3. CASE writer.stage = "write" /\ ~UNCHANGED output
    <2> DEFINE b == writer.bundle
               n == writer.step
               file == M!WriteOrder[n]
    <2>1. /\ n \in 1..4 /\ Written(n) /\ BundleStands(b)
          /\ output = [there |-> TRUE, files |-> output.files, torn |-> {}]
          /\ output.files = [f \in M!Files |-> output.files[f]]
      <3>1. output.there = TRUE
        BY <1>3 DEF SnapshotInv, DirStands
      <3> QED
        BY <1>3, <3>1 DEF SnapshotInv, DirStands, WriterStands
    <2>2. output' = [output EXCEPT !.files[file] = M!Content(file), !.torn = {file}]
      BY <1>3 DEF M!Kill
    <2>3. /\ output' = [there |-> TRUE, files |-> output'.files, torn |-> {file}]
          /\ output'.files = [output.files EXCEPT ![file] = M!Content(file)]
      <3> DEFINE c == M!Content(file)
      <3>1. output' = [output EXCEPT !.files[file] = c, !.torn = {file}]
        BY <2>2
      <3>2. /\ output = [there |-> output.there, files |-> output.files, torn |-> output.torn]
            /\ output.there = TRUE
        BY <2>1
      <3> HIDE DEF file, c
      <3>3. output' = [there |-> output.there, files |-> [output.files EXCEPT ![file] = c], torn |-> {file}]
        BY <3>1, <3>2
      <3> QED
        BY <3>2, <3>3 DEF c
    <2>4. /\ output'.files = [f \in M!Files |-> output'.files[f]]
          /\ \A f \in M!Files : output'.files[f] = IF f = file THEN M!Content(file) ELSE output.files[f]
      <3> DEFINE c == M!Content(file)
      <3>1. /\ output.files = [f \in M!Files |-> output.files[f]]
            /\ output'.files = [output.files EXCEPT ![file] = c]
        BY <2>1, <2>3
      <3> HIDE DEF file, c
      <3>2. /\ output'.files = [f \in M!Files |-> output'.files[f]]
            /\ \A f \in M!Files : output'.files[f] = IF f = file THEN c ELSE output.files[f]
        BY <3>1
      <3> QED
        BY <3>2 DEF c
    <2>5. CASE n # 4
      <3>1. file # "digest"
        BY <2>1, <2>5 DEF M!WriteOrder
      <3>2. output'.files["digest"] = Nothing
        BY <2>1, <2>4, <3>1, FileNames DEF Written
      <3> QED
        BY <1>1, <2>3, <2>4, <3>2 DEF DirStands, M!DigestVouches
    <2>6. CASE n = 4
      <3>1. file = "digest" /\ M!Content("digest") = b.manifest
        BY <2>6 DEF M!WriteOrder, M!Content, M!Kinds
      <3>2. /\ output'.files["formula"] = b.formula /\ output'.files["migrations"] = b.migrations
            /\ output'.files["manifest"] = b.manifest /\ output'.files["digest"] = b.manifest
        <4>1. /\ output'.files["digest"] = b.manifest
              /\ \A f \in M!Files \ {"digest"} : output'.files[f] = output.files[f]
          BY <2>4, <3>1, FileNames
        <4>2. Written(4)
          BY <2>1, <2>6
        <4> QED
          BY <4>1, <4>2, FileNames DEF Written
      <3>3. M!DigestVouches'
        BY <2>1, <2>3, <3>1, <3>2 DEF M!DigestVouches, BundleStands, MemberStands, M!Kinds
      <3> QED
        BY <1>1, <2>3, <2>4, <3>3 DEF DirStands
    <2> QED
      BY <2>5, <2>6
  <1> QED
    BY <1>2, <1>3 DEF M!Kill

(* Every step of the writer keeps the invariant.                             *)
LEMMA WriterStep ==
  ASSUME SnapshotInv,
         M!Mkdir \/ M!WriteFile \/ M!WriteFails \/ M!Kill \/ M!Release \/ M!Again
  PROVE  SnapshotInv'
  <1>1. /\ UNCHANGED <<now, served, reader>> /\ released \subseteq released'
        /\ \A b \in released' : BundleStands(b)
    <2>1. \A b \in released : BundleStands(b)
      BY DEF SnapshotInv, WorldType
    <2>2. CASE M!Release
      BY <2>1, <2>2 DEF M!Release, SnapshotInv, WriterStands
    <2>3. CASE M!Mkdir \/ M!WriteFile \/ M!WriteFails \/ M!Kill \/ M!Again
      BY <2>1, <2>3 DEF M!Mkdir, M!WriteFile, M!WriteFails, M!Kill, M!Again
    <2> QED
      BY <2>2, <2>3
  <1>2. WorldType' /\ ReaderStands'
    BY <1>1, OthersStay
  <1>3. CASE M!Mkdir
    <2>1. CASE output.there
      <3>1. writer' = [writer EXCEPT !.stage = "failed"] /\ UNCHANGED output
        BY <1>3, <2>1 DEF M!Mkdir
      <3>2. WriterStands' /\ writer'.stage # "write"
        BY <3>1 DEF SnapshotInv, WriterStands, Fetched
      <3>3. DirStands'
        BY <3>1, <3>2 DEF SnapshotInv, DirStands, M!DigestVouches
      <3> QED
        BY <1>2, <3>2, <3>3 DEF SnapshotInv
    <2>2. CASE ~output.there
      <3>1. /\ writer' = [writer EXCEPT !.stage = "write", !.step = 1]
            /\ output' = [output EXCEPT !.there = TRUE] /\ output = M!NoDir /\ writer.stage = "mkdir"
        BY <1>3, <2>2 DEF M!Mkdir, SnapshotInv, DirStands
      <3>2. WriterStands' /\ writer'.step = 1
        BY <3>1 DEF SnapshotInv, WriterStands, Fetched
      <3>3. output' = [there |-> TRUE, files |-> [f \in M!Files |-> Nothing], torn |-> {}]
        BY <3>1 DEF M!NoDir
      <3>4. DirStands'
        BY <3>2, <3>3 DEF DirStands, Written, M!DigestVouches, M!Files, M!Kinds
      <3> QED
        BY <1>2, <3>2, <3>4 DEF SnapshotInv
    <2> QED
      BY <2>1, <2>2
  <1>4. CASE M!WriteFile
    BY <1>2, <1>4, WriteStep DEF SnapshotInv
  <1>5. CASE M!WriteFails
    <2>1. WriterStands' /\ writer'.stage # "write" /\ output' = M!NoDir
      BY <1>5 DEF M!WriteFails, M!Cleanup, SnapshotInv, WriterStands, Fetched
    <2> QED
      BY <1>2, <2>1, EmptyDir DEF SnapshotInv
  <1>6. CASE M!Kill
    BY <1>2, <1>6, KillStep DEF SnapshotInv
  <1>7. CASE M!Release \/ M!Again
    <2>1. writer' = [M!Idle EXCEPT !.captures = writer.captures]
      BY <1>7 DEF M!Release, M!Again
    <2>2. WriterStands' /\ writer'.stage # "write"
      BY <2>1 DEF WriterStands, Fetched, M!Idle, M!Kinds
    <2>3. output' = output \/ output' = M!NoDir
      BY <1>7 DEF M!Release, M!Again
    <2>4. DirStands'
      BY <2>2, <2>3, EmptyDir DEF SnapshotInv, DirStands, M!DigestVouches
    <2> QED
      BY <1>2, <2>2, <2>4 DEF SnapshotInv
  <1> QED
    BY <1>3, <1>4, <1>5, <1>6, <1>7

(* A snapshot that was loaded stands.                                        *)
LEMMA LoadedStands ==
  ASSUME M!ClockSound, SnapshotInv, NEW s,
         s # Nothing => \E f, m \in Replies : s = M!LoadSnapshot(f, m, now, reader.floor)
  PROVE  s # Nothing => SnapshotStands(s, reader.floor)
  <1> SUFFICES ASSUME s # Nothing
               PROVE  SnapshotStands(s, reader.floor)
    OBVIOUS
  <1>1. PICK f \in Replies, m \in Replies : s = M!LoadSnapshot(f, m, now, reader.floor)
    OBVIOUS
  <1>2. now \in Nat /\ reader.floor \in Nat
    BY DEF SnapshotInv, WorldType, ReaderStands
  <1> DEFINE fd == M!chooseGeneratedAt(f)
             md == M!chooseGeneratedAt(m)
  <1>3. /\ s = [formula |-> f.data, migrations |-> m.data,
                dates |-> [formula |-> fd, migrations |-> md],
                generatedAt |-> s.generatedAt, fetchedAt |-> now]
        /\ InWindow(f.data, fd, reader.floor, now) /\ InWindow(m.data, md, reader.floor, now)
        /\ s.generatedAt \in {fd, md} /\ s.generatedAt <= fd /\ s.generatedAt <= md
    BY <1>1, <1>2, LoadedFacts
  <1> HIDE DEF fd, md
  <1>4. /\ s.formula = f.data /\ s.migrations = m.data /\ s.dates.formula = fd
        /\ s.dates.migrations = md /\ s.fetchedAt = now
    BY <1>3
  <1>5. now <= now
    BY <1>2
  <1> QED
    BY <1>2, <1>3, <1>4, <1>5 DEF SnapshotStands

(* The reader fetches from the server.                                       *)
LEMMA FetchedStep ==
  ASSUME M!ClockSound, SnapshotInv,
         M!FetchFormula \/ M!FetchMigrations \/ M!LoadFetched
  PROVE  ReaderStands'
  <1>1. UNCHANGED <<now, released>> /\ reader.snapshot = Nothing /\ reader.bound = Nothing
    BY DEF M!FetchFormula, M!FetchMigrations, M!LoadFetched, SnapshotInv, ReaderStands
  <1>2. CASE M!FetchFormula
    <2>1. PICK a \in M!Answers("formula") :
            reader' = [reader EXCEPT !.stage = "migrations", !.got["formula"] = a]
      BY <1>2 DEF M!FetchFormula
    <2>2. a \in Replies
      BY AnswersTyped DEF SnapshotInv, M!Kinds
    <2>3. reader' = [stage |-> "migrations", got |-> [reader.got EXCEPT !["formula"] = a],
                     floor |-> reader.floor, bound |-> Nothing, context |-> reader.context,
                     snapshot |-> Nothing]
      BY <1>1, <2>1 DEF SnapshotInv, ReaderStands
    <2>4. Fetched(reader)'
      BY <2>2, <2>3 DEF SnapshotInv, ReaderStands, Fetched, M!Kinds
    <2> QED
      BY <2>3, <2>4 DEF SnapshotInv, ReaderStands, M!LoadedIsCaptured, M!SnapshotRecordable
  <1>3. CASE M!FetchMigrations
    <2>1. PICK a \in M!Answers("migrations") :
            reader' = [reader EXCEPT !.stage = "load", !.got["migrations"] = a]
      BY <1>3 DEF M!FetchMigrations
    <2>2. a \in Replies /\ reader.stage = "migrations"
      BY <1>3, AnswersTyped DEF SnapshotInv, M!Kinds, M!FetchMigrations
    <2>3. reader' = [stage |-> "load", got |-> [reader.got EXCEPT !["migrations"] = a],
                     floor |-> reader.floor, bound |-> Nothing, context |-> reader.context,
                     snapshot |-> Nothing]
      BY <1>1, <2>1 DEF SnapshotInv, ReaderStands
    <2>4. Fetched(reader)'
      BY <2>2, <2>3 DEF SnapshotInv, ReaderStands, Fetched, M!Kinds
    <2> QED
      BY <2>3, <2>4 DEF SnapshotInv, ReaderStands, M!LoadedIsCaptured, M!SnapshotRecordable
  <1>4. CASE M!LoadFetched
    <2> DEFINE s == M!LoadSnapshot(reader.got["formula"], reader.got["migrations"], now, reader.floor)
    <2>1. reader.got["formula"] \in Replies /\ reader.got["migrations"] \in Replies
      BY <1>4 DEF M!LoadFetched, SnapshotInv, ReaderStands, Fetched
    <2>2. reader' = [stage |-> IF s = Nothing THEN "refused" ELSE "loaded",
                     got |-> [k \in M!Kinds |-> Nothing],
                     floor |-> reader.floor, bound |-> Nothing, context |-> reader.context,
                     snapshot |-> s]
      BY <1>1, <1>4 DEF M!LoadFetched, M!Loaded, SnapshotInv, ReaderStands
    <2>3. s # Nothing => SnapshotStands(s, reader.floor)
      BY <2>1, LoadedStands
    <2> HIDE DEF s
    <2>4. reader'.snapshot # Nothing => SnapshotStands(reader.snapshot, reader.floor)'
      BY <1>1, <2>2, <2>3 DEF SnapshotStands
    <2>5. Fetched(reader)'
      BY <2>2 DEF Fetched, M!Kinds
    <2> QED
      BY <2>2, <2>4, <2>5 DEF SnapshotInv, ReaderStands, M!LoadedIsCaptured, M!SnapshotRecordable
  <1> QED
    BY <1>2, <1>3, <1>4

(* The reader reads a released bundle.                                       *)
LEMMA BundleStep ==
  ASSUME M!ClockSound, SnapshotInv, M!LoadBundle
  PROVE  ReaderStands'
  <1> DEFINE bound == reader.bound
  <1>1. PICK a \in released, b \in released, c \in released :
          LET context == [manifest |-> a.manifest, formula |-> b.formula, migrations |-> c.migrations]
              s == IF context.manifest = bound.manifest
                   THEN M!LoadBundleBytes(context.manifest, context.formula,
                                          context.migrations, now, reader.floor)
                   ELSE Nothing
          IN  reader' = [M!Loaded(s) EXCEPT !.context = context]
    BY DEF M!LoadBundle
  <1> DEFINE f == [data |-> b.formula, at |-> bound.manifest.formula.at]
             m == [data |-> c.migrations, at |-> bound.manifest.migrations.at]
             s == IF a.manifest = bound.manifest
                  THEN M!LoadBundleBytes(a.manifest, b.formula, c.migrations, now, reader.floor)
                  ELSE Nothing
  <1>2. UNCHANGED <<now, released>> /\ reader.stage = "bundle" /\ bound \in released
    BY DEF M!LoadBundle, SnapshotInv, ReaderStands
  <1>3. BundleStands(bound) /\ BundleStands(b) /\ BundleStands(c)
    BY <1>2 DEF SnapshotInv, WorldType
  <1>4. reader' = [stage |-> IF s = Nothing THEN "refused" ELSE "loaded",
                   got |-> [k \in M!Kinds |-> Nothing], floor |-> reader.floor, bound |-> bound,
                   context |-> reader'.context, snapshot |-> s]
    BY <1>1 DEF M!Loaded, SnapshotInv, ReaderStands
  <1>5. s # Nothing => /\ s = M!LoadSnapshot(f, m, now, reader.floor)
                    /\ bound.manifest.formula.digest = b.formula
                    /\ bound.manifest.migrations.digest = c.migrations
    BY DEF M!LoadBundleBytes, M!validateBundleContent
  <1>6. f \in Replies /\ m \in Replies
    BY <1>3 DEF BundleStands, MemberStands, Replies, Times
  <1>7. s # Nothing => SnapshotStands(s, reader.floor)
    <2> HIDE DEF s, f, m
    <2> QED
      BY <1>5, <1>6, LoadedStands
  <1>8. ASSUME s # Nothing
        PROVE  /\ s.formula = bound.snapshot.formula /\ s.migrations = bound.snapshot.migrations
               /\ s.dates = bound.snapshot.dates
    <2>1. /\ s.formula = f.data /\ s.migrations = m.data
          /\ s.dates = [formula |-> M!chooseGeneratedAt(f), migrations |-> M!chooseGeneratedAt(m)]
      <3>1. now \in Nat /\ reader.floor \in Nat
        BY DEF SnapshotInv, WorldType, ReaderStands
      <3> HIDE DEF s, f, m
      <3> QED
        BY <1>5, <1>6, <1>8, <3>1, LoadedFacts
    <2>2. b.formula = bound.formula /\ c.migrations = bound.migrations
      BY <1>3, <1>5, <1>8 DEF BundleStands, MemberStands
    <2>3. /\ M!chooseGeneratedAt(f) = bound.snapshot.dates.formula
          /\ M!chooseGeneratedAt(m) = bound.snapshot.dates.migrations
      BY <1>3, <2>2 DEF M!chooseGeneratedAt, BundleStands, MemberStands
    <2> HIDE DEF s
    <2> QED
      BY <1>3, <2>1, <2>2, <2>3 DEF BundleStands
  <1> HIDE DEF s
  <1>9. reader'.snapshot # Nothing => SnapshotStands(reader.snapshot, reader.floor)'
    BY <1>2, <1>4, <1>7 DEF SnapshotStands
  <1>10. M!LoadedIsCaptured'
    BY <1>4, <1>8 DEF M!LoadedIsCaptured
  <1>11. Fetched(reader)'
    BY <1>4 DEF Fetched, M!Kinds
  <1> QED
    BY <1>4, <1>9, <1>10, <1>11 DEF SnapshotInv, ReaderStands, M!SnapshotRecordable

(* The reader checks a snapshot and resolves with it.                        *)
LEMMA ResolveStep ==
  ASSUME SnapshotInv, M!Resolve
  PROVE  ReaderStands'
  <1> DEFINE s == reader.snapshot
  <1>1. /\ UNCHANGED <<now, released>> /\ reader.stage = "loaded" /\ s # Nothing
        /\ SnapshotStands(s, reader.floor) /\ reader.floor \in Nat /\ now \in Nat
    BY DEF M!Resolve, SnapshotInv, ReaderStands, WorldType
  <1>2. /\ reader' = [stage |-> reader'.stage, got |-> reader.got, floor |-> reader.floor,
                      bound |-> reader.bound, context |-> reader.context, snapshot |-> s]
        /\ reader'.stage = IF M!RecordTimesOK(s, now, reader.floor) THEN "resolved" ELSE "unresolved"
    BY DEF M!Resolve, SnapshotInv, ReaderStands
  <1>3. ASSUME ~M!RecordTimesOK(s, now, reader.floor)
        PROVE  s.dates.formula > s.fetchedAt /\ s.dates.migrations > s.fetchedAt
    <2> DEFINE fd == s.dates.formula
               md == s.dates.migrations
               gd == s.generatedAt
               t == s.fetchedAt
               fl == reader.floor
    <2>1. /\ fd \in Nat /\ md \in Nat /\ gd \in {fd, md} /\ gd <= fd /\ gd <= md
          /\ fl <= fd /\ fl <= md /\ t \in Nat /\ t <= now
      BY <1>1 DEF SnapshotStands, InWindow
    <2>2. ~(t >= gd /\ now >= t /\ fl <= gd)
      BY <1>3 DEF M!RecordTimesOK
    <2> HIDE DEF fd, md, gd, t, fl
    <2>3. fd > t /\ md > t
      BY <1>1, <2>1, <2>2
    <2> QED
      BY <2>3 DEF fd, md, t
  <1>4. M!SnapshotRecordable'
    BY <1>2, <1>3 DEF M!SnapshotRecordable, M!Kinds
  <1>5. SnapshotStands(reader.snapshot, reader.floor)'
    BY <1>1, <1>2 DEF SnapshotStands
  <1>6. M!LoadedIsCaptured' /\ Fetched(reader)'
    BY <1>2 DEF SnapshotInv, ReaderStands, M!LoadedIsCaptured, Fetched
  <1> QED
    BY <1>1, <1>2, <1>4, <1>5, <1>6 DEF ReaderStands

(* Every step of the reader keeps the invariant.                             *)
LEMMA ReaderStep ==
  ASSUME M!ClockSound, SnapshotInv,
         M!Start \/ M!FetchFormula \/ M!FetchMigrations \/ M!LoadFetched \/ M!LoadBundle \/ M!Resolve
  PROVE  SnapshotInv'
  <1>1. UNCHANGED <<now, served, released>> /\ UNCHANGED <<writer, output>>
    BY DEF M!Start, M!FetchFormula, M!FetchMigrations, M!LoadFetched, M!LoadBundle, M!Resolve
  <1>2. WorldType' /\ WriterStands' /\ DirStands'
    BY <1>1, WriterStays DEF SnapshotInv, WorldType
  <1>3. ASSUME M!Start
        PROVE  ReaderStands'
    <2>1. PICK floor \in Floors, b \in released \cup {Nothing} :
            reader' = [reader EXCEPT !.floor = floor, !.bound = b,
                         !.stage = IF b = Nothing THEN "formula" ELSE "bundle"]
      BY <1>3 DEF M!Start
    <2>2. reader' = [stage |-> IF b = Nothing THEN "formula" ELSE "bundle", got |-> reader.got,
                     floor |-> floor, bound |-> b, context |-> reader.context, snapshot |-> Nothing]
      BY <1>3, <2>1 DEF M!Start, SnapshotInv, ReaderStands
    <2>3. floor \in Nat
      BY DEF M!ClockSound
    <2>4. Fetched(reader)'
      BY <2>2 DEF SnapshotInv, ReaderStands, Fetched
    <2> QED
      BY <1>1, <2>2, <2>3, <2>4 DEF ReaderStands, M!LoadedIsCaptured, M!SnapshotRecordable
  <1> QED
    BY <1>2, <1>3, FetchedStep, BundleStep, ResolveStep DEF SnapshotInv

(* Time passes and the server publishes.                                     *)
LEMMA WorldStep ==
  ASSUME M!ClockSound, SnapshotInv, (\E k \in M!Kinds : M!Publish(k)) \/ M!Tick
  PROVE  SnapshotInv'
  <1>1. UNCHANGED <<writer, output>> /\ UNCHANGED <<released, reader>>
    BY DEF M!Publish, M!Tick
  <1>2. now \in Nat /\ served \in [M!Kinds -> Replies]
    BY DEF SnapshotInv, WorldType
  <1>3. now' \in Nat /\ now <= now'
    BY <1>2 DEF M!Publish, M!Tick
  <1>4. CASE M!Tick
    <2>1. WorldType'
      BY <1>1, <1>3, <1>4 DEF M!Tick, SnapshotInv, WorldType
    <2> QED
      BY <1>1, <1>2, <1>3, <2>1, WriterStays, ReaderStays DEF SnapshotInv
  <1>5. ASSUME NEW k \in M!Kinds, M!Publish(k)
        PROVE  SnapshotInv'
    <2>1. PICK stamp \in Stamps :
            served' = [served EXCEPT ![k] =
                         [data |-> [kind |-> k, gen |-> served[k].data.gen + 1, genuine |-> TRUE,
                                    date |-> IF stamp.signed = Nothing THEN Nothing
                                             ELSE now + stamp.signed],
                          at |-> IF stamp.header THEN now ELSE Nothing]]
      BY <1>5 DEF M!Publish
    <2> DEFINE date == IF stamp.signed = Nothing THEN Nothing ELSE now + stamp.signed
               at == IF stamp.header THEN now ELSE Nothing
               doc == [kind |-> k, gen |-> served[k].data.gen + 1, genuine |-> TRUE, date |-> date]
    <2>2. date \in Times /\ at \in Times
      BY <1>2 DEF M!ClockSound, Times
    <2>3. served[k].data.gen + 1 \in Nat
      <3>1. served[k].data.gen \in Nat
        BY <1>2 DEF Replies, Documents
      <3> QED
        BY <3>1
    <2>4. doc \in Documents
      <3> HIDE DEF date
      <3> QED
        BY <2>2, <2>3 DEF Documents
    <2>5. [data |-> doc, at |-> at] \in Replies
      <3> HIDE DEF doc, at
      <3> QED
        BY <2>2, <2>4 DEF Replies
    <2>6. served' = [served EXCEPT ![k] = [data |-> doc, at |-> at]]
      BY <2>1
    <2>7. served' \in [M!Kinds -> Replies]
      <3> HIDE DEF doc, at
      <3> QED
        BY <1>2, <2>5, <2>6
    <2>8. WorldType'
      BY <1>1, <1>3, <2>7 DEF SnapshotInv, WorldType
    <2> QED
      BY <1>1, <1>2, <1>3, <2>8, WriterStays, ReaderStays DEF SnapshotInv
  <1> QED
    BY <1>4, <1>5

(* Every step keeps the invariant.                                           *)
LEMMA SnapshotStep ==
  ASSUME M!ClockSound
  PROVE  SnapshotInv /\ [M!Next]_M!vars => SnapshotInv'
  <1> SUFFICES ASSUME SnapshotInv, [M!Next]_M!vars
               PROVE  SnapshotInv'
    OBVIOUS
  <1>1. CASE UNCHANGED M!vars
    <2>1. /\ UNCHANGED <<now, served, reader>> /\ released \subseteq released'
          /\ \A b \in released' : BundleStands(b)
      BY <1>1 DEF M!vars, SnapshotInv, WorldType
    <2>2. UNCHANGED <<writer, output>>
      BY <1>1 DEF M!vars
    <2> QED
      BY <2>1, <2>2, OthersStay, WriterStays DEF SnapshotInv
  <1> QED
    BY <1>1, CaptureStep, WriterStep, ReaderStep, WorldStep DEF M!Next

(* The invariant implies the property.                                       *)
LEMMA SnapshotInvSound ==
  ASSUME SnapshotInv
  PROVE  M!SnapshotSound
  <1>1. M!MembersInWindow
    <2> SUFFICES ASSUME reader.snapshot # Nothing
                 PROVE  M!MembersInWindow
      BY DEF M!MembersInWindow
    <2>1. SnapshotStands(reader.snapshot, reader.floor)
      BY DEF SnapshotInv, ReaderStands
    <2> QED
      BY <2>1 DEF M!MembersInWindow, SnapshotStands, InWindow, M!Kinds
  <1> QED
    BY <1>1 DEF SnapshotInv, ReaderStands, DirStands, M!SnapshotSound

(* A capture that fails leaves no directory.                                 *)
LEMMA FailureCleansUp ==
  SnapshotInv /\ [M!Next]_M!vars =>
    [writer.stage = "write" /\ writer'.stage = "failed" => output' = M!NoDir]_M!vars
  <1> SUFFICES ASSUME SnapshotInv, M!Next, writer.stage = "write", writer'.stage = "failed"
               PROVE  output' = M!NoDir
    OBVIOUS
  <1>1. M!WriteFile \/ M!WriteFails \/ M!Kill \/ UNCHANGED writer
    BY DEF M!Next, M!CaptureFormula, M!CaptureMigrations, M!CaptureBundle, M!Mkdir, M!Release,
       M!Again, M!Start, M!FetchFormula, M!FetchMigrations, M!LoadFetched, M!LoadBundle,
       M!Resolve, M!Publish, M!Tick
  <1>2. ~M!WriteFile
    BY DEF M!WriteFile, SnapshotInv, WriterStands
  <1>3. ~M!Kill
    BY DEF M!Kill, SnapshotInv, WriterStands
  <1>4. ~UNCHANGED writer
    OBVIOUS
  <1> QED
    BY <1>1, <1>2, <1>3, <1>4 DEF M!WriteFails, M!Cleanup

(* The metadata pair a frontend loads is the one its release captured,      *)
(* both members within the freshness window, the digest written last, and   *)
(* its dates are ones a record takes.                                       *)
SnapshotSound == M!SnapshotSound

(* For every clock skew, age limit and history of publications: a snapshot   *)
(* loaded from a bundle is the one that was captured, its members are in the *)
(* window, a digest vouches for whole files only, what is loaded can be      *)
(* recorded in a resolution, and a capture that failed leaves nothing        *)
(* behind.                                                                   *)
THEOREM LoadsCaptured ==
  ASSUME M!ClockSound
  PROVE  M!Spec => []SnapshotSound /\ M!FailedRunLeavesNothing
  <1>1. M!Init => SnapshotInv
    BY SnapshotInit
  <1>2. SnapshotInv /\ [M!Next]_M!vars => SnapshotInv'
    BY SnapshotStep
  <1>3. SnapshotInv => SnapshotSound
    BY SnapshotInvSound DEF SnapshotSound
  <1>4. SnapshotInv /\ [M!Next]_M!vars =>
          [writer.stage = "write" /\ writer'.stage = "failed" => output' = M!NoDir]_M!vars
    BY FailureCleansUp
  <1> QED
    BY <1>1, <1>2, <1>3, <1>4, PTL DEF M!Spec, M!FailedRunLeavesNothing

-----------------------------------------------------------------------------
(* What is kept is whole: an entry of the artifact store has its bytes and  *)
(* outlives a power failure once a Put returned from syncing its directory, *)
(* evidence stands beside the bottle it describes, and a FetchToFiles that  *)
(* failed cleaned up after itself (Put, FetchToFiles).                      *)
KeptIsWhole ==
  S!KeptIsWhole /\ F!KeptIsWhole

(* What is kept stays: no call replaces a store entry, an output of another *)
(* process or a half-written bundle directory, and an entry that is opened  *)
(* was found whole by that very call.                                       *)
StoresKeep ==
  S!NeverReplaced /\ S!OpenedIsExpected /\ F!OthersKept /\ M!FailedRunLeavesNothing

(* The two beside one another: the entries that Put keeps are whole, and so  *)
(* are the outputs of FetchToFiles.                                          *)
THEOREM KeptWhole ==
  ASSUME S!ArgumentsTyped, F!MakersDiffer
  PROVE  S!Spec /\ F!Spec => []KeptIsWhole
  BY StoreKeeps, OutputsKept, PTL DEF KeptIsWhole

(* And it stays, also beside the writer of a metadata bundle: none replaces  *)
(* what another call or an earlier run left, and Open compares what it gives.*)
THEOREM KeptStays ==
  ASSUME S!ArgumentsTyped, F!MakersDiffer, M!ClockSound
  PROVE  S!Spec /\ F!Spec /\ M!Spec => StoresKeep
  BY StoreKeeps, OutputsKept, LoadsCaptured, PTL DEF StoresKeep
=============================================================================
