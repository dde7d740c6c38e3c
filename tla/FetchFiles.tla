------------------------------ MODULE FetchFiles ------------------------------
(* FetchToFiles of internal/fetcher/file.go, the call the bottle-fetcher     *)
(* container makes: several calls over the same two output paths, a file     *)
(* some other process creates there, a file system that may turn read-only   *)
(* and a process that may be killed between any two steps.                   *)
(*                                                                           *)
(* A file is the call that made it; the bytes are the ones that call fetched *)
(* and verified.                                                             *)
EXTENDS Naturals

CONSTANTS
  Callers,        \* concurrent FetchToFiles calls
  Outside,        \* the maker of a file that is none of theirs
  Absent          \* no file under the path

VARIABLES
  bottle,         \* the file under bottlePath
  evidence,       \* the file under evidencePath
  step,           \* caller -> where its call stands
  left,           \* caller -> the temporary files it has: subset of Temps
  frozen          \* the file system accepts no more changes

(* Whose file it is can be told.                                             *)
MakersDiffer == Outside \notin Callers /\ Absent \notin Callers /\ Outside # Absent

outputs == <<bottle, evidence>>
vars == <<bottle, evidence, step, left, frozen>>

Temps == {"bottle", "evidence"}

Init ==
  /\ bottle = Absent /\ evidence = Absent
  /\ step = [c \in Callers |-> "check bottle"]
  /\ left = [c \in Callers |-> {}]
  /\ frozen = FALSE

Goto(c, s) == step' = [step EXCEPT ![c] = s]

(* The deferred removals of the temporary files: their errors are dropped.   *)
DropTemps(c) == left' = IF frozen THEN left ELSE [left EXCEPT ![c] = {}]

Fails(c) ==
  /\ DropTemps(c)
  /\ Goto(c, "failed")
  /\ UNCHANGED <<outputs, frozen>>

-----------------------------------------------------------------------------
(* requireAbsent, once for each path.                                        *)
CheckBottle(c) ==
  /\ step[c] = "check bottle"
  /\ Goto(c, IF bottle = Absent THEN "check evidence" ELSE "failed")
  /\ UNCHANGED <<outputs, left, frozen>>

CheckEvidence(c) ==
  /\ step[c] = "check evidence"
  /\ Goto(c, IF evidence = Absent THEN "fetch" ELSE "failed")
  /\ UNCHANGED <<outputs, left, frozen>>

(* The temporary bottle, the fetch into it and sealFile.                     *)
Fetch(c) ==
  /\ step[c] = "fetch"
  /\ \/ /\ ~frozen
        /\ left' = [left EXCEPT ![c] = {"bottle"}]
        /\ Goto(c, "write evidence")
        /\ UNCHANGED <<outputs, frozen>>
     \/ Fails(c)

WriteEvidence(c) ==
  /\ step[c] = "write evidence"
  /\ \/ /\ ~frozen
        /\ left' = [left EXCEPT ![c] = Temps]
        /\ Goto(c, "link bottle")
        /\ UNCHANGED <<outputs, frozen>>
     \/ Fails(c)

(* Publication that replaces, as os.Rename would.                            *)
CanLinkOver(target) == ~frozen

(* publishNoReplace: os.Link fails when the target is there; removing the    *)
(* temporary name comes after it, and when that fails the target is removed. *)
CanLink(target) == ~frozen /\ target = Absent

LinkBottle(c) ==
  /\ step[c] = "link bottle"
  /\ IF CanLink(bottle)
       THEN /\ bottle' = c
            /\ Goto(c, "unlink bottle")
            /\ UNCHANGED <<evidence, left, frozen>>
       ELSE Fails(c)

UnlinkBottle(c) ==
  /\ step[c] = "unlink bottle"
  /\ IF frozen
       THEN Goto(c, "failed") /\ UNCHANGED <<outputs, left, frozen>>
       ELSE /\ left' = [left EXCEPT ![c] = {"evidence"}]
            /\ Goto(c, "link evidence")
            /\ UNCHANGED <<outputs, frozen>>

LinkEvidence(c) ==
  /\ step[c] = "link evidence"
  /\ IF CanLink(evidence)
       THEN evidence' = c /\ Goto(c, "unlink evidence")
       ELSE UNCHANGED evidence /\ Goto(c, "withdraw")
  /\ UNCHANGED <<bottle, left, frozen>>

UnlinkEvidence(c) ==
  /\ step[c] = "unlink evidence"
  /\ IF frozen
       THEN Goto(c, "withdraw") /\ UNCHANGED left
       ELSE /\ left' = [left EXCEPT ![c] = {}]
            /\ Goto(c, "returned")
  /\ UNCHANGED <<outputs, frozen>>

(* The deferred removal of the published bottle, once evidence failed.       *)
Withdraw(c) ==
  /\ step[c] = "withdraw"
  /\ bottle' = IF frozen THEN bottle ELSE Absent
  /\ DropTemps(c)
  /\ Goto(c, "failed")
  /\ UNCHANGED <<evidence, frozen>>

-----------------------------------------------------------------------------
(* Another process creates one of the outputs.                               *)
Intrude ==
  /\ ~frozen
  /\ \/ bottle = Absent /\ bottle' = Outside /\ UNCHANGED evidence
     \/ evidence = Absent /\ evidence' = Outside /\ UNCHANGED bottle
  /\ UNCHANGED <<step, left, frozen>>

Freeze ==
  /\ ~frozen
  /\ frozen' = TRUE
  /\ UNCHANGED <<outputs, step, left>>

Kill(c) ==
  /\ step[c] \notin {"returned", "failed", "killed"}
  /\ Goto(c, "killed")
  /\ UNCHANGED <<outputs, left, frozen>>

Next ==
  \/ \E c \in Callers :
       \/ CheckBottle(c) \/ CheckEvidence(c) \/ Fetch(c) \/ WriteEvidence(c)
       \/ LinkBottle(c) \/ UnlinkBottle(c) \/ LinkEvidence(c)
       \/ UnlinkEvidence(c) \/ Withdraw(c) \/ Kill(c)
  \/ Intrude
  \/ Freeze

Spec == Init /\ [][Next]_vars

-----------------------------------------------------------------------------
(* Evidence a call published never stands beside a bottle that is missing or *)
(* another's, in any state, a killed call's included: the bottle is linked   *)
(* before its evidence and withdrawn only when the evidence is not there.    *)
EvidenceNamesItsBottle ==
  \A c \in Callers : evidence = c => bottle = c

(* A call that returned success keeps both of its outputs for good.          *)
ReturnedKeeps ==
  \A c \in Callers : step[c] = "returned" => bottle = c /\ evidence = c

(* A call that failed leaves none of its files, temporary or published,      *)
(* unless the file system refused the removals.                              *)
FailedLeavesNothing ==
  \A c \in Callers :
    step[c] = "failed" /\ ~frozen =>
      bottle # c /\ evidence # c /\ left[c] = {}

(* Evidence stands beside the bottle it describes, a call that returned      *)
(* keeps both and one that failed cleaned up after itself.                   *)
KeptIsWhole == EvidenceNamesItsBottle /\ ReturnedKeeps /\ FailedLeavesNothing

(* No call replaces or removes a file it did not make.                       *)
OthersKept ==
  [][\A m \in Callers \cup {Outside} :
       /\ bottle = m /\ bottle' # m => m # Outside /\ step[m] = "withdraw"
       /\ evidence = m => evidence' = m]_vars
=============================================================================
