---------------------------- MODULE PruneEvidence ----------------------------
(***************************************************************************)
(* The pruning evidence of a runtime root: buildPruneManifest replaces a   *)
(* uniform pruned subtree by one commitment and lists every other pruned   *)
(* path in a row of its own.  The entry of a path is what the scan planned *)
(* for it.                                                                 *)
(***************************************************************************)
EXTENDS ByteOrder, FiniteSets

CONSTANTS Repository,       \* Homebrew's own checkout
          Compactable,      \* the reasons compactableV2RuntimeReason names
          Identified,       \* the packages that have a formula identity
          Scans             \* the scans: path -> entry

VARIABLES scan, v2, pc, at, subtrees, compacted, rows

vars == <<scan, v2, pc, at, subtrees, compacted, rows>>

Init ==
    /\ scan \in Scans /\ v2 \in BOOLEAN
    /\ pc = "repository" /\ at = 1
    /\ subtrees = {} /\ compacted = {} /\ rows = {}

Entries == SortedPaths(DOMAIN scan)
NoReason == "not_allowlisted"

(* commitPrunedSubtreeVersion: what the digest binds, entry by entry. *)
Commitment(r, entries) ==
    [root |-> r, reason |-> scan[r].reason, package |-> scan[r].package,
     entries |-> entries,
     bytes |-> Cardinality({p \in entries : scan[p].type = "regular"})]

Commits(r, entries) ==
    /\ scan[r].type = "directory" /\ r \in entries
    /\ \A p \in entries : IsWithin(p, r)

Fail == pc' = "failed" /\ UNCHANGED <<scan, v2, at, subtrees, compacted, rows>>

AddSubtree(r, entries) ==
    /\ subtrees' = subtrees \cup {Commitment(r, entries)}
    /\ compacted' = compacted \cup entries

CompactRepository ==
    /\ pc = "repository"
    /\ LET tree == {p \in DOMAIN scan : IsWithin(p, Repository)}
           uniform ==
               /\ Repository \in DOMAIN scan /\ scan[Repository].type = "directory"
               /\ \A p \in tree : /\ ~scan[p].retain /\ scan[p].reason = "repository"
                                  /\ scan[p].package = "" /\ ~scan[p].export
           then == IF v2 THEN "runtime" ELSE "rows"
       IN  IF uniform /\ ~Commits(Repository, tree) THEN Fail
           ELSE /\ pc' = then
                /\ IF uniform THEN AddSubtree(Repository, tree) ELSE UNCHANGED <<subtrees, compacted>>
                /\ UNCHANGED <<scan, v2, at, rows>>

(* alreadyCompacted: what the repository's commitment covers.               *)
AlreadyCompacted == {p \in compacted : IsWithin(p, Repository)}

MayRoot(r) ==
    /\ scan[r].type = "directory" /\ ~scan[r].retain /\ scan[r].reason \in Compactable
    /\ r \notin AlreadyCompacted
    /\ scan[r].package \in Identified /\ ~scan[r].export

Uniform(r, entries) ==
    \A p \in entries : /\ ~scan[p].retain /\ ~scan[p].export /\ p \notin AlreadyCompacted
                       /\ scan[p].reason = scan[r].reason /\ scan[p].package = scan[r].package

(* The entries from at that follow their root without a gap. *)
RunEnd == CHOOSE e \in (at + 1)..(Len(Entries) + 1) :
              /\ \A i \in (at + 1)..(e - 1) : IsWithin(Entries[i], Entries[at])
              /\ e \in DOMAIN Entries => ~IsWithin(Entries[e], Entries[at])

(* Mutant: the scan goes on inside the subtree it has just committed.       *)
SkipToNext(end) == at + 1

SkipTree(end) == end

CompactRuntime ==
    /\ pc = "runtime" /\ at <= Len(Entries)
    /\ LET r == Entries[at]
           tree == {Entries[i] : i \in at..(RunEnd - 1)}
       IN  IF ~MayRoot(r) \/ RunEnd - at < 2 \/ ~Uniform(r, tree)
           THEN at' = at + 1 /\ UNCHANGED <<scan, v2, pc, subtrees, compacted, rows>>
           ELSE IF ~Commits(r, tree) THEN Fail
           ELSE /\ at' = SkipTree(RunEnd)
                /\ AddSubtree(r, tree)
                /\ UNCHANGED <<scan, v2, pc, rows>>

RuntimeDone ==
    /\ pc = "runtime" /\ at > Len(Entries)
    /\ pc' = "rows" /\ UNCHANGED <<scan, v2, at, subtrees, compacted, rows>>

(* buildPruneEntry: an unexplained path gets the default reason, only a     *)
(* regular file may name the metadata it was exported to.                   *)
Row(p) == [path |-> p, reason |-> IF scan[p].reason = "" THEN NoReason ELSE scan[p].reason,
           package |-> scan[p].package, exported |-> scan[p].type = "regular" /\ scan[p].export]

ListRows ==
    /\ pc = "rows"
    /\ rows' = {Row(p) : p \in {p \in DOMAIN scan : ~scan[p].retain /\ p \notin compacted}}
    /\ pc' = "done" /\ UNCHANGED <<scan, v2, at, subtrees, compacted>>

Next == CompactRepository \/ CompactRuntime \/ RuntimeDone \/ ListRows
Spec == Init /\ [][Next]_vars

-----------------------------------------------------------------------------
Accounts(p) == {s \in subtrees : p \in s.entries}
RowsOf(p) == {w \in rows : w.path = p}

(* The finished manifest accounts for every pruned path exactly once, as a  *)
(* row or inside one commitment, and for no path that ships                 *)
(* (TestPruneEvidencePartitionsSourceTree).                                 *)
PartitionsSource ==
    pc = "done" => \A p \in DOMAIN scan :
        Cardinality(Accounts(p)) + Cardinality(RowsOf(p)) = IF scan[p].retain THEN 0 ELSE 1

(* A commitment hides no detail a row would have shown: it covers the whole *)
(* tree below its root, and every path of it has the reason and the package *)
(* the commitment states and exported nothing.                              *)
CommitsWholeTrees ==
    pc = "done" => \A s \in subtrees :
        /\ s.entries = {p \in DOMAIN scan : IsWithin(p, s.root)}
        /\ \A p \in s.entries : scan[p].reason = s.reason /\ scan[p].package = s.package /\ ~scan[p].export

(* The checks inside commitPrunedSubtreeVersion never refuse a subtree that *)
(* the two compactions select, so pruning evidence is always produced.      *)
NeverRefused == pc # "failed"
===============================================================================
