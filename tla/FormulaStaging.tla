---------------------------- MODULE FormulaStaging ----------------------------
(***************************************************************************)
(* What Install does before the first pour: every bottle is copied into a  *)
(* private directory and the copy is verified, then the Formula sources    *)
(* found in the bottles are staged in the core tap as one transaction that *)
(* is rolled back when any step fails.  Every system call may fail, before *)
(* or after it took effect, and the bottle directory may change at any     *)
(* time.                                                                   *)
(***************************************************************************)
EXTENDS Naturals, FiniteSets

CONSTANTS
    Formulae,   \* the closure
    Shard       \* coreTapFormulaLocation: Formula to shard

VARIABLES
    source,     \* the bottle directory: which bottles have the expected bytes
    private,    \* the private copies: likewise, or "none"
    verified,   \* bottles whose verification succeeded
    parent,     \* the core tap root: its mode and its modification time
    tap,        \* its entries: "staging" and "Formula", each a tree or NoTree
    phase,      \* the step to take next
    rollback    \* "none", "clean" or "failed": a step of the rollback failed

vars == <<source, private, verified, parent, tap, phase, rollback>>

NoTree == [sealed |-> FALSE, shards |-> {"none"}, open |-> {}, files |-> {}, partial |-> {}]
EmptyTree == [sealed |-> FALSE, shards |-> {}, open |-> {}, files |-> {}, partial |-> {}]
Shards == {Shard[f] : f \in Formulae}
WholeTree == [sealed |-> TRUE, shards |-> Shards, open |-> {}, files |-> Formulae, partial |-> {}]
Original == [mode |-> "sealed", time |-> "original"]

Init ==
    /\ source \in [Formulae -> {"good", "bad"}]
    /\ private = [f \in Formulae |-> "none"]
    /\ verified = {}
    /\ parent = Original
    /\ tap = [n \in {"staging", "Formula"} |-> NoTree]
    /\ phase = "bottles" /\ rollback = "none"

(* Whoever fills the bottle directory may still write to it. *)
SourceChanges(f, v) ==
    /\ phase = "bottles"
    /\ source' = [source EXCEPT ![f] = v]
    /\ UNCHANGED <<private, verified, parent, tap, phase, rollback>>

(* One bottle at a time, in any order. *)
CopyBottle(f) ==
    /\ phase = "bottles" /\ private[f] = "none"
    /\ \A g \in Formulae : private[g] # "none" => g \in verified
    /\ private' = [private EXCEPT ![f] = source[f]]
    /\ UNCHANGED <<source, verified, parent, tap, phase, rollback>>

VerifyBottle(f) ==
    /\ phase = "bottles" /\ private[f] # "none" /\ f \notin verified
    /\ IF private[f] = "good" THEN verified' = verified \cup {f} /\ phase' = phase
       ELSE verified' = verified /\ phase' = "failed"
    /\ UNCHANGED <<source, private, parent, tap, rollback>>

Input == <<source, private, verified>>

(* verifiedFormulaInputs and the checks that leave the tap alone. *)
CheckInputs ==
    /\ phase = "bottles" /\ verified = Formulae
    /\ phase' = IF tap["Formula"] = NoTree /\ tap["staging"] = NoTree THEN "writable" ELSE "failed"
    /\ UNCHANGED <<Input, parent, tap, rollback>>

-----------------------------------------------------------------------------
(* The transaction.  A step takes effect and the next one follows, or an    *)
(* error after the effect starts the rollback.                              *)

TransactionPhases == {"writable", "mkdir", "files", "seal", "verify", "publish", "sync", "recheck"}

Then(next) == phase' \in {next, "undo"}

StepFails ==
    /\ phase \in TransactionPhases
    /\ phase' = "undo"
    /\ UNCHANGED <<Input, parent, tap, rollback>>

MakeWritable ==
    /\ phase = "writable"
    /\ parent' = [parent EXCEPT !.mode = "writable"]
    /\ Then("mkdir")
    /\ UNCHANGED <<Input, tap, rollback>>

CreateStaging ==
    /\ phase = "mkdir"
    /\ tap' = [tap EXCEPT !["staging"] = EmptyTree]
    /\ parent' = [parent EXCEPT !.time = "now"]
    /\ phase' \in {"files", "undo"}
    /\ UNCHANGED <<Input, rollback>>

(* The directory is made but cannot be opened, and its removal fails too:   *)
(* currentTreeName is still empty.                                          *)
CreateStagingLeft ==
    /\ phase = "mkdir"
    /\ tap' = [tap EXCEPT !["staging"] = EmptyTree]
    /\ parent' = [parent EXCEPT !.time = "now"]
    /\ phase' = "undo-unnamed"
    /\ rollback' = "failed"
    /\ UNCHANGED Input

StageFile(f) ==
    /\ phase = "files" /\ f \notin tap["staging"].files
    /\ tap' = [tap EXCEPT !["staging"].files = @ \cup {f},
                          !["staging"].shards = @ \cup {Shard[f]},
                          !["staging"].open = @ \cup {Shard[f]}]
    /\ Then("files")
    /\ UNCHANGED <<Input, parent, rollback>>

StageFilePartly(f) ==
    /\ phase = "files" /\ f \notin tap["staging"].files
    /\ tap' = [tap EXCEPT !["staging"].partial = {f},
                          !["staging"].shards = @ \cup {Shard[f]},
                          !["staging"].open = @ \cup {Shard[f]}]
    /\ phase' = "undo"
    /\ UNCHANGED <<Input, parent, rollback>>

AllStaged ==
    /\ phase = "files" /\ tap["staging"].files = Formulae
    /\ phase' = "seal"
    /\ UNCHANGED <<Input, parent, tap, rollback>>

SealShard(s) ==
    /\ phase = "seal" /\ s \in tap["staging"].open
    /\ tap' = [tap EXCEPT !["staging"].open = @ \ {s}]
    /\ Then("seal")
    /\ UNCHANGED <<Input, parent, rollback>>

SealRoot ==
    /\ phase = "seal" /\ tap["staging"].open = {}
    /\ tap' = [tap EXCEPT !["staging"].sealed = TRUE]
    /\ Then("verify")
    /\ UNCHANGED <<Input, parent, rollback>>

(* verifyFormulaTree *)
VerifyTree ==
    /\ phase = "verify"
    /\ phase' = IF tap["staging"] = WholeTree THEN "publish" ELSE "undo"
    /\ UNCHANGED <<Input, parent, tap, rollback>>

(* The rename is atomic; an error after it comes from the next checkpoint. *)
Publish ==
    /\ phase = "publish" /\ tap["Formula"] = NoTree
    /\ tap' = [tap EXCEPT !["Formula"] = tap["staging"], !["staging"] = NoTree]
    /\ Then("sync")
    /\ UNCHANGED <<Input, parent, rollback>>

SyncAndSealParent ==
    /\ phase = "sync"
    /\ parent' \in {parent, [mode |-> "sealed", time |-> "now"], [mode |-> "sealed", time |-> "epoch"]}
    /\ IF parent'.time = "epoch" THEN Then("recheck") ELSE phase' = "undo"
    /\ UNCHANGED <<Input, tap, rollback>>

Recheck ==
    /\ phase = "recheck"
    /\ phase' = IF parent.mode = "sealed" /\ tap["Formula"] = WholeTree THEN "committed" ELSE "undo"
    /\ UNCHANGED <<Input, parent, tap, rollback>>

-----------------------------------------------------------------------------
(* rollbackFormulaTapTransaction: each step reports its error and goes on.  *)

UndoFailure == rollback' = "failed"
UndoSuccess == rollback' = IF rollback = "none" THEN "clean" ELSE rollback

UndoWritable ==
    /\ phase \in {"undo", "undo-unnamed"}
    /\ \/ /\ parent' = [parent EXCEPT !.mode = "writable"]
          /\ phase' = IF phase = "undo" THEN "undo-remove" ELSE "undo-sync"
          /\ UNCHANGED rollback
       \/ /\ parent' = parent
          /\ phase' = "undo-sync"
          /\ UndoFailure
    /\ UNCHANGED <<Input, tap>>

(* removeFormulaTapTree stops at the first entry it cannot remove. *)
UndoRemove ==
    /\ phase = "undo-remove"
    /\ LET n == IF tap["staging"] # NoTree THEN "staging" ELSE "Formula"
       IN  \/ tap' = [tap EXCEPT ![n] = NoTree] /\ UNCHANGED rollback
           \/ /\ tap[n] # NoTree
              /\ \E left \in SUBSET tap[n].files : tap' = [tap EXCEPT ![n].files = left, ![n].sealed = FALSE]
              /\ UndoFailure
    /\ parent' = [parent EXCEPT !.time = "now"]
    /\ phase' = "undo-sync"
    /\ UNCHANGED Input

UndoSync ==
    /\ phase = "undo-sync"
    /\ \/ UNCHANGED rollback
       \/ UndoFailure
    /\ phase' = "undo-seal"
    /\ UNCHANGED <<Input, parent, tap>>

(* Mutant: the parent gets the mode it should have, not the time it had. *)
UndoSealNow ==
    /\ phase = "undo-seal"
    /\ parent' = [parent EXCEPT !.mode = "sealed"]
    /\ UndoSuccess
    /\ phase' = "failed"
    /\ UNCHANGED <<Input, tap>>

UndoSeal ==
    /\ phase = "undo-seal"
    /\ \/ parent' = Original /\ UndoSuccess
       \/ parent' = parent /\ UndoFailure
    /\ phase' = "failed"
    /\ UNCHANGED <<Input, tap>>

Next ==
    \/ \E f \in Formulae, v \in {"good", "bad"} : SourceChanges(f, v)
    \/ \E f \in Formulae :
          CopyBottle(f) \/ VerifyBottle(f) \/ StageFile(f) \/ StageFilePartly(f)
    \/ CheckInputs \/ StepFails \/ MakeWritable \/ CreateStaging \/ CreateStagingLeft
    \/ AllStaged \/ SealRoot \/ VerifyTree \/ Publish \/ SyncAndSealParent \/ Recheck
    \/ \E s \in Shards : SealShard(s)
    \/ UndoWritable \/ UndoRemove \/ UndoSync \/ UndoSeal

Progress ==
    \/ \E f \in Formulae : CopyBottle(f) \/ VerifyBottle(f) \/ StageFile(f)
    \/ CheckInputs \/ MakeWritable \/ CreateStaging
    \/ AllStaged \/ SealRoot \/ VerifyTree \/ Publish \/ SyncAndSealParent \/ Recheck
    \/ \E s \in Shards : SealShard(s)
    \/ UndoWritable \/ UndoRemove \/ UndoSync \/ UndoSeal

Fairness == WF_vars(Progress)

Spec == Init /\ [][Next]_vars /\ Fairness

-----------------------------------------------------------------------------
(* The bytes a later step pours are the bytes that were verified, whatever  *)
(* the bottle directory holds by then.                                      *)
PouredIsVerified == \A f \in verified : private[f] = "good"

(* A Formula tree under its public name is complete and sealed, unless a    *)
(* rollback is taking it away: a crash before that publishes all or nothing. *)
PublishedIsWhole ==
    tap["Formula"] # NoTree /\ phase \in TransactionPhases \cup {"bottles", "committed", "undo", "undo-unnamed"} =>
        tap["Formula"] = WholeTree

(* A transaction that fails leaves the tap exactly as it found it, its      *)
(* parent's mode and time included, unless a step of the rollback failed    *)
(* too; one that commits leaves the sealed tree and no staging entry.       *)
AllOrNothing ==
    /\ phase = "failed" /\ rollback # "failed" =>
          parent = Original /\ tap["staging"] = NoTree /\ tap["Formula"] = NoTree
    /\ phase = "committed" =>
          tap["Formula"] = WholeTree /\ tap["staging"] = NoTree /\ parent.mode = "sealed"

(* The Formula tree Homebrew reads holds verified bottles' Formulae only,   *)
(* is whole whenever it has its name, and is there sealed or not at all     *)
(* when staging ends, whichever call failed.                                *)
StagingAtomic == PouredIsVerified /\ PublishedIsWhole /\ AllOrNothing

(* Staging ends, committed or failed, once the bottles stop changing. *)
StagingEnds == <>(phase \in {"failed", "committed"})
=============================================================================
