---------------------------- MODULE ArtifactStore ----------------------------
(* The content-addressed store of derived bottles,                           *)
(* internal/catalogartifactstore: several Put and Open calls of one process  *)
(* over one directory, a machine that may lose power between any two system  *)
(* calls, and a disk that may damage an entry.                               *)
(*                                                                           *)
(* Bytes are sequences, and the digest of a byte string is the string        *)
(* itself.  A file is its bytes, its mode and whether it was synced; `dir' is *)
(* the directory as the kernel shows it, `disk' what of it is durable.        *)
EXTENDS Naturals, Sequences, FiniteSets

CONSTANTS
  Calls,          \* the callers of Put and Open
  Puts,           \* what they ask: [digest, size, source]
  Nothing,        \* no entry, no temporary file
  MaxCrashes,     \* bound on power failures
  MaxDamage       \* bound on damaged entries

VARIABLES
  dir,            \* visible entries: digest -> file or Nothing
  disk,           \* entries that survive a power failure
  temps,          \* caller -> its temporary file or Nothing
  calls,          \* caller -> [pc, put, result]
  promised,       \* digest -> what the Puts that returned nil gave for it
  lost            \* number of power failures and of damaged entries

vars == <<dir, disk, temps, calls, promised, lost>>

Digests == {p.digest : p \in Puts}
Torn == <<0>>
Idle == [pc |-> "idle", put |-> Nothing, result |-> "none"]
File(bytes, mode, synced) == [bytes |-> bytes, mode |-> mode, synced |-> synced]
Files == [bytes : Seq(Nat), mode : {"0600", "0400"}, synced : BOOLEAN]

(* The arguments are byte strings and a size, and no file is an absent one.  *)
ArgumentsTyped ==
  /\ Puts \subseteq [digest : Seq(Nat), size : Nat, source : Seq(Nat)]
  /\ Nothing \notin Files \cup Puts

Init ==
  /\ dir = [d \in Digests |-> Nothing]
  /\ disk = dir
  /\ temps = [c \in Calls |-> Nothing]
  /\ calls = [c \in Calls |-> Idle]
  /\ promised = [d \in Digests |-> "none"]
  /\ lost = [crashes |-> 0, damage |-> 0]

(* Open: the type, the mode, the size read and the digest of what was read.  *)
Openable(d) ==
  /\ dir[d] # Nothing
  /\ dir[d].mode = "0400"
  /\ dir[d].bytes = d

Goto(c, pc) == calls' = [calls EXCEPT ![c].pc = pc]
Return(c, result) ==
  calls' = [calls EXCEPT ![c].pc = "done", ![c].result = result]

(* A Put that fails removes its temporary file in a deferred call, whose own *)
(* failure nobody sees.                                                      *)
Fail(c, file) ==
  /\ \E left \in {Nothing, file} : temps' = [temps EXCEPT ![c] = left]
  /\ Return(c, "error")
  /\ UNCHANGED <<dir, disk, promised, lost>>

-----------------------------------------------------------------------------
(* Put: an entry that is there ends the call, with success when its size is  *)
(* the one asked for, and so does an entry that cannot be opened.  The       *)
(* directory is not synced: the entry is only as durable as the Put that     *)
(* linked it made it.                                                        *)
PutOpens(c) ==
  /\ calls[c].pc = "idle"
  /\ \E p \in Puts :
       LET d == p.digest
           found == Openable(d) /\ Len(dir[d].bytes) = p.size
       IN /\ calls' = [calls EXCEPT ![c] =
               IF dir[d] = Nothing
                 THEN [pc |-> "create", put |-> p, result |-> "none"]
                 ELSE [pc |-> "done", put |-> p, result |->
                         IF found THEN "exists" ELSE "error"]]
          /\ promised' = IF found /\ promised[d] = "none"
                           THEN [promised EXCEPT ![d] = "held"] ELSE promised
  /\ UNCHANGED <<dir, disk, temps, lost>>

PutCreates(c) ==
  /\ calls[c].pc = "create"
  /\ LET empty == File(<<>>, "0600", FALSE)
     IN \/ /\ temps' = [temps EXCEPT ![c] = empty]
           /\ Goto(c, "copy")
           /\ UNCHANGED <<dir, disk, promised, lost>>
        \/ Fail(c, empty)

(* io.CopyN of size bytes, the probe for one byte more, the digest.          *)
Matches(p) ==
  /\ Len(p.source) = p.size
  /\ p.source = p.digest

PutCopies(c) ==
  /\ calls[c].pc = "copy"
  /\ LET p == calls[c].put
         n == IF Len(p.source) < p.size THEN Len(p.source) ELSE p.size
     IN \/ /\ Matches(p)
           /\ temps' = [temps EXCEPT ![c].bytes = SubSeq(p.source, 1, n)]
           /\ Goto(c, "seal")
           /\ UNCHANGED <<dir, disk, promised, lost>>
        \/ Fail(c, temps[c])

(* Sync, chmod 0400, sync again, close.                                      *)
SealedFile(f) == File(f.bytes, "0400", TRUE)

PutSeals(c) ==
  /\ calls[c].pc = "seal"
  /\ \/ /\ temps' = [temps EXCEPT ![c] = SealedFile(temps[c])]
        /\ Goto(c, "link")
        /\ UNCHANGED <<dir, disk, promised, lost>>
     \/ Fail(c, temps[c])

(* os.Link never replaces: an entry another Put made first is opened and     *)
(* must have the size asked for, and the call goes on as if it had linked.   *)
Linkable(d) == dir[d] = Nothing

PutLinks(c) ==
  /\ calls[c].pc = "link"
  /\ LET p == calls[c].put
     IN \/ /\ Linkable(p.digest)
           /\ dir' = [dir EXCEPT ![p.digest] = temps[c]]
           /\ Goto(c, "unlink")
           /\ UNCHANGED <<disk, temps, promised, lost>>
        \/ /\ ~Linkable(p.digest)
           /\ Openable(p.digest) /\ Len(dir[p.digest].bytes) = p.size
           /\ Goto(c, "unlink")
           /\ UNCHANGED <<dir, disk, temps, promised, lost>>
        \/ Fail(c, temps[c])

PutUnlinks(c) ==
  /\ calls[c].pc = "unlink"
  /\ \/ /\ temps' = [temps EXCEPT ![c] = Nothing]
        /\ Goto(c, "sync")
        /\ UNCHANGED <<dir, disk, promised, lost>>
     \/ Fail(c, temps[c])

(* What is durable once the directory is synced: the entry of this Put and   *)
(* whatever an earlier one reported.                                         *)
Settled(d) == [e \in Digests |-> IF e = d \/ promised[e] # "none" THEN "durable" ELSE "none"]

(* A Put that reports success without syncing the directory.                 *)
PutSyncsNot(c) ==
  /\ calls[c].pc = "sync"
  /\ promised' = Settled(calls[c].put.digest)
  /\ Return(c, "stored")
  /\ UNCHANGED <<dir, disk, temps, lost>>

(* syncDirectory makes every name the directory shows durable, then Put      *)
(* reports success.                                                          *)
PutSyncs(c) ==
  /\ calls[c].pc = "sync"
  /\ \/ /\ disk' = dir
        /\ promised' = Settled(calls[c].put.digest)
        /\ Return(c, "stored")
        /\ UNCHANGED <<dir, temps, lost>>
     \/ Return(c, "error") /\ UNCHANGED <<dir, disk, temps, promised, lost>>

(* Open, for a reader: the artifact handed out or an error.                  *)
ReaderOpens(c) ==
  /\ calls[c].pc = "idle"
  /\ \E p \in Puts :
       calls' = [calls EXCEPT ![c] =
         [pc |-> "done", put |-> p, result |->
            IF Openable(p.digest) THEN "opened" ELSE "error"]]
  /\ UNCHANGED <<dir, disk, temps, promised, lost>>

(* The caller is done with its answer and may call again; a temporary file   *)
(* that could not be removed is nobody's from now on.                        *)
Again(c) ==
  /\ calls[c].pc = "done"
  /\ calls' = [calls EXCEPT ![c] = Idle]
  /\ temps' = [temps EXCEPT ![c] = Nothing]
  /\ UNCHANGED <<dir, disk, promised, lost>>

-----------------------------------------------------------------------------
(* Power fails: the calls are gone, a name not synced may be gone or not,    *)
(* and bytes not synced are torn.  Temporary files that survive are left     *)
(* under names nobody reads: no code removes them.  Of what the Puts         *)
(* reported, what no directory sync followed is no longer promised.          *)
Crash ==
  /\ lost.crashes < MaxCrashes
  /\ lost' = [lost EXCEPT !.crashes = @ + 1]
  /\ \E kept \in SUBSET Digests :
       LET after(d) == IF d \in kept THEN dir[d] ELSE disk[d]
           torn(f) == IF f = Nothing \/ f.synced THEN f
                                                 ELSE File(Torn, f.mode, TRUE)
       IN dir' = [d \in Digests |-> torn(after(d))]
  /\ disk' = dir'
  /\ calls' = [c \in Calls |-> Idle]
  /\ temps' = [c \in Calls |-> Nothing]
  /\ promised' = [d \in Digests |-> IF promised[d] = "durable" THEN "durable" ELSE "none"]

(* The disk damages an entry.                                                *)
Damage ==
  /\ lost.damage < MaxDamage
  /\ lost' = [lost EXCEPT !.damage = @ + 1]
  /\ \E d \in Digests :
       /\ dir[d] # Nothing
       /\ dir' = [dir EXCEPT ![d].bytes = Torn]
       /\ disk' = [disk EXCEPT ![d] =
                     IF @ = Nothing THEN @ ELSE [@ EXCEPT !.bytes = Torn]]
  /\ UNCHANGED <<temps, calls, promised>>

Next ==
  \/ \E c \in Calls :
       \/ PutOpens(c) \/ PutCreates(c) \/ PutCopies(c) \/ PutSeals(c)
       \/ PutLinks(c) \/ PutUnlinks(c) \/ PutSyncs(c)
       \/ ReaderOpens(c) \/ Again(c)
  \/ Crash
  \/ Damage

Spec == Init /\ [][Next]_vars

-----------------------------------------------------------------------------
(* Every entry the disk did not damage holds exactly the bytes it is named   *)
(* after, in every state and after every power failure: Put links a file     *)
(* only once its bytes are copied, checked and synced.                       *)
EntriesWhole ==
  lost.damage = 0 =>
    \A d \in Digests : dir[d] # Nothing => dir[d].bytes = d

(* What a Put reported, the entry it linked or one it found, is there and    *)
(* can be opened until power fails; from the first directory sync a Put      *)
(* returns from, it outlives power failures too.  A Put that found the entry *)
(* syncs nothing itself: alone it does not make the entry durable.           *)
ReportedHolds ==
  \A d \in Digests :
    /\ promised[d] # "none" => dir[d] # Nothing /\ (lost.damage = 0 => Openable(d))
    /\ promised[d] = "durable" => disk[d] # Nothing

(* A reader is only ever given the bytes it asked for, whatever the disk and *)
(* the other callers did: Open hands out nothing it did not hash.            *)
OpenedIsExpected ==
  [][\A c \in Calls :
       (/\ calls[c].pc = "idle"
        /\ calls'[c].result \in {"opened", "exists"})
         => dir[calls'[c].put.digest].bytes = calls'[c].put.digest]_vars

(* No call ever replaces or removes an entry, a damaged one included: only   *)
(* a power failure or the disk changes a name that is there.                 *)
NeverReplaced ==
  [][lost' = lost =>
       \A d \in Digests : dir[d] # Nothing => dir'[d] = dir[d]]_vars

(* A Put that stored its entry left no temporary name beside it.             *)
StoredIsClean ==
  \A c \in Calls : calls[c].result = "stored" => temps[c] = Nothing

(* What the store keeps is whole, is there as long as the Puts that returned *)
(* nil promise, and is nothing but entries where a Put stored one.           *)
KeptIsWhole == EntriesWhole /\ ReportedHolds /\ StoredIsClean
=============================================================================
