--------------------------- MODULE ReceiptNormalize ---------------------------
(***************************************************************************)
(* normalizeInstalledReceipt: the receipt Homebrew wrote is replaced by a  *)
(* deterministic one, through a temporary file and a rename.  Any step may *)
(* fail, and something else may still write the receipt or put another     *)
(* file in its place.                                                      *)
(***************************************************************************)
EXTENDS Naturals

CONSTANTS MaxEdits      \* bound on the edits by others

VARIABLES
    receipt,    \* the receipt: inode, content, links
    temp,       \* content of the temporary file, or "none"
    seen,       \* what was read first: inode and content
    phase,
    result,     \* "running", "unchanged", "replaced", "error", "temporary left"
    edits,      \* edits made so far
    compared    \* the content at the last comparison before the rename

vars == <<receipt, temp, seen, phase, result, edits, compared>>

Contents == {"complete", "incomplete", "edited"}

Init ==
    /\ receipt \in [inode : {0}, content : {"complete", "incomplete"}, links : {1, 2}]
    /\ temp = "none" /\ seen = [inode |-> 0, content |-> "none"]
    /\ phase = "read" /\ result = "running"
    /\ edits = 0 /\ compared = "none"

(* Someone else rewrites the receipt in place, or replaces it. *)
Edit ==
    /\ result = "running" /\ edits < MaxEdits
    /\ edits' = edits + 1
    /\ \E c \in {"complete", "edited"} :
        receipt' \in {[receipt EXCEPT !.content = c],
                     [inode |-> receipt.inode + 1, content |-> c, links |-> 1]}
    /\ UNCHANGED <<temp, seen, phase, result, compared>>

Continue(next) == phase' = next /\ UNCHANGED result
Return(r) == phase' = "cleanup" /\ result' = r

(* NormalizeInstalledReceiptDependencies rejects what it cannot parse and   *)
(* leaves a complete receipt alone.                                         *)
Read ==
    /\ phase = "read"
    /\ seen' = [inode |-> receipt.inode, content |-> receipt.content]
    /\ CASE receipt.links # 1 \/ receipt.content = "edited" -> Return("error")
         [] receipt.links = 1 /\ receipt.content = "complete" -> Return("unchanged")
         [] OTHER -> Continue("create")
    /\ UNCHANGED <<receipt, temp, edits, compared>>

Create ==
    /\ phase = "create"
    /\ temp' = "partial"
    /\ Continue("write")
    /\ UNCHANGED <<receipt, seen, edits, compared>>

(* Write, own, set mode and times, sync, read back and verify. *)
WriteTemp ==
    /\ phase = "write"
    /\ temp' = "normal"
    /\ Continue("compare")
    /\ UNCHANGED <<receipt, seen, edits, compared>>

Compare ==
    /\ phase = "compare"
    /\ compared' = receipt.content
    /\ IF receipt.inode = seen.inode /\ receipt.links = 1 /\ receipt.content = seen.content
       THEN Continue("rename") ELSE Return("error")
    /\ UNCHANGED <<receipt, temp, seen, edits>>

(* Mutant: the temporary file is copied over the receipt. *)
RenameByCopy ==
    /\ phase = "rename"
    /\ receipt' = [receipt EXCEPT !.content = "partial"]
    /\ Continue("committed")
    /\ UNCHANGED <<temp, seen, edits, compared>>

Rename ==
    /\ phase = "rename"
    /\ receipt' = [inode |-> receipt.inode + 10, content |-> temp, links |-> 1]
    /\ temp' = "none"
    /\ Continue("committed")
    /\ UNCHANGED <<seen, edits, compared>>

(* The committed receipt is opened and verified again. *)
VerifyCommitted ==
    /\ phase = "committed"
    /\ Return(IF receipt.content = "normal" /\ receipt.links = 1 THEN "replaced" ELSE "error")
    /\ UNCHANGED <<receipt, temp, seen, edits, compared>>

StepFails ==
    /\ phase \in {"read", "create", "write", "compare", "rename", "committed"}
    /\ Return("error")
    /\ UNCHANGED <<receipt, temp, seen, edits, compared>>

(* The deferred removal of the temporary file. *)
Cleanup ==
    /\ phase = "cleanup"
    /\ temp' = "none"
    /\ phase' = "done"
    /\ UNCHANGED <<receipt, seen, result, edits, compared>>

CleanupFails ==
    /\ phase = "cleanup" /\ temp # "none"
    /\ phase' = "done" /\ result' = "temporary left"
    /\ UNCHANGED <<receipt, temp, seen, edits, compared>>

Next ==
    \/ CleanupFails \/ Edit \/ Read \/ Create \/ WriteTemp \/ Compare \/ Rename
    \/ VerifyCommitted \/ StepFails \/ Cleanup

Spec == Init /\ [][Next]_vars

-----------------------------------------------------------------------------
(* Whoever reads the receipt by its name finds a whole one at every moment. *)
ReceiptIsWhole == receipt.content \in Contents \cup {"normal"}

(* No call leaves its temporary file in the keg, where the reconciliation   *)
(* with the bottle's inventory would find it, unless it reports that the    *)
(* removal failed.                                                          *)
NoTemporaryLeft == phase = "done" /\ temp # "none" => result = "temporary left"

(* The receipt is never seen half-written and its temporary file never      *)
(* stays unreported.                                                        *)
ReceiptSafe == ReceiptIsWhole /\ NoTemporaryLeft

(* An edit made before the last comparison is never overwritten: only the   *)
(* receipt that was read is replaced.                                       *)
EditsNotOverwritten ==
    [][receipt'.content = "normal" /\ receipt.content # "normal" => compared = seen.content]_vars
=============================================================================
