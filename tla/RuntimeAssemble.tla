---------------------------- MODULE RuntimeAssemble ----------------------------
(***************************************************************************)
(* assembleContextWithPolicy: plans the runtime prefix, copies it into a   *)
(* staging directory while the source may still change, checks the copy    *)
(* against the inventory with rules of its own, renames it into place, and *)
(* publishes the evidence about it.                                        *)
(***************************************************************************)
EXTENDS RuntimeScan

CONSTANTS Outputs,   \* what may stand at the output path before: "absent", "empty", "full"
          Changes    \* how many times the source may change while it is copied

VARIABLES src,        \* path -> "same", "edited" or "replaced" since the scan
          changes,    \* how often it changed
          stage,      \* path -> the copy in the staging directory
          staged,     \* the staging directory exists
          output,     \* "absent", "empty", "full" or "published"
          evidence,   \* the evidence in memory: document -> the documents it was computed from
          written,    \* the documents in the evidence staging directory
          shown       \* the published evidence directory: document -> as evidence

asmVars == <<src, changes, stage, staged, output, evidence, written, shown>>
vars == <<scanVars, asmVars>>

Step(s) == pc' = s /\ UNCHANGED <<tree, ent, cand, work, seen, used, exports>>
(* An error return: the deferred removal of the staging directory. *)
Abort ==
    /\ Step("failed")
    /\ stage' = <<>> /\ staged' = FALSE
    /\ UNCHANGED <<src, changes, output, evidence, written, shown>>

Init ==
    /\ ScanInit
    /\ src = [p \in Paths |-> "same"] /\ changes = 0
    /\ stage = <<>> /\ staged = FALSE /\ output \in Outputs
    /\ evidence = <<>> /\ written = {} /\ shown = <<>>

(* validateOutputTarget comes before the scan. *)
Scan ==
    /\ IF pc = "scan" /\ output = "full" THEN Fails ELSE ScanNext
    /\ UNCHANGED asmVars

-----------------------------------------------------------------------------
(* buildInventory *)

Inventory ==
    [p \in Retained |->
        [type |-> IF ent[p].hard # <<>> THEN "hardlink" ELSE tree[p].type,
         mode |-> ent[p].mode, owner |-> ent[p].owner, pkg |-> ent[p].pkg, writable |-> ent[p].writable,
         sum |-> IF tree[p].type = "file" THEN tree[p].sum ELSE 0,
         link |-> ent[p].out, hard |-> ent[p].hard]]

(* validateInventoryPolicyBase *)
CellarOK(p, i) ==
    IF Len(p) < 2 THEN i.pkg = None
    ELSE /\ p[2] \in DOMAIN Nodes
         /\ Len(p) >= 3 => p[3] = Nodes[p[2]].version
         /\ i.pkg = p[2]

WritableRule(p) == p[1] = "var" /\ Matching(p, Allow.var) # {} /\ MatchingRule(p, Allow.var).writable
AllowedPath(p) ==
    CASE p[1] \in {"Cellar", "opt"} -> TRUE
      [] p[1] = "etc" -> Matching(p, Allow.etc) # {} \/ RuleAncestor(p, Allow.etc)
      [] p[1] = "var" -> Matching(p, Allow.var) # {} \/ RuleAncestor(p, Allow.var)
      [] OTHER -> GlobalRootEnabled(p[1])

OwnerWritable == {644, 755, 777}
EntryOK(p, i) ==
    /\ ForcedPrune(p).reason = None
    /\ IF i.pkg = None THEN i.type = "dir" ELSE i.pkg \in DOMAIN Nodes
    /\ p[1] = "Cellar" => CellarOK(p, i)
    /\ AllowedPath(p)
    /\ i.writable = WritableRule(p)
    /\ i.owner = IF i.writable THEN "runtime" ELSE "root"
    /\ i.type # "link" => /\ i.mode # 777
                          /\ ~i.writable /\ p[1] \notin {"etc", "var"} => i.mode \notin OwnerWritable

(* planMinimalInventoryProfile: the verifier's own account of what may not  *)
(* be there, from the inventory alone.                                      *)
InvType(inv) == [p \in DOMAIN inv |-> inv[p].type]
InvTo(inv) == [p \in DOMAIN inv |-> IF inv[p].type = "link" THEN Normalized(p, inv[p].link).resolved ELSE <<>>]
InvWalk(inv, p) == Walk(InvType(inv), InvTo(inv), p)

InvFiles(inv) == {p \in DOMAIN inv : inv[p].type \in {"file", "hardlink"}}
InvLinks(inv) == {p \in DOMAIN inv : inv[p].type = "link"}

(* Mutant: only the directory that holds an exception is excused. *)
ExceptionParents(inv) ==
    {Front(p) : p \in {p \in DOMAIN inv : PathClass(p, inv[p].pkg) # None /\ PruneReason(p, inv[p].pkg) = None}}

ExceptionAncestors(inv) ==
    UNION {{q \in Above(p) : PathClass(q, inv[p].pkg) = PathClass(p, inv[p].pkg)} :
              p \in {p \in DOMAIN inv : PathClass(p, inv[p].pkg) # None /\ PruneReason(p, inv[p].pkg) = None}}

DirectlyForbidden(inv) ==
    {p \in DOMAIN inv : DirectReason(p, inv[p].type, inv[p].pkg) # None} \ ExceptionAncestors(inv)

InvSameContent(a, t) == a.sum = t.sum /\ (a.mode \in {555, 755}) = (t.mode \in {555, 755})

ForbiddenCopies(inv, direct) ==
    {p \in InvFiles(inv) \ direct :
        LET t == Keg(inv[p].pkg) \o p
        IN  /\ inv[p].pkg \in DOMAIN Nodes /\ t \in direct \cap InvFiles(inv) /\ inv[t].pkg = inv[p].pkg
            /\ AliasPath(p, PruneReason(t, inv[t].pkg), inv[t].pkg)
            /\ InvSameContent(inv[p], inv[t])}

(* Why a forbidden path is forbidden: for itself, or as a copy of its keg's. *)
ReasonOf(inv, direct, p) == IF p \in direct THEN PruneReason(p, inv[p].pkg) ELSE PruneReason(Keg(inv[p].pkg) \o p, inv[p].pkg)

ForbiddenLinks(inv, direct, copies) ==
    {p \in InvLinks(inv) \ direct :
        LET t == InvWalk(inv, p).final
        IN  /\ t \in direct \cup copies /\ inv[p].pkg # None /\ inv[p].pkg = inv[t].pkg
            /\ AliasPath(p, ReasonOf(inv, direct, t), inv[t].pkg)}

RECURSIVE Exempted(_, _, _, _)
Exempted(inv, queue, done, forbidden) ==
    IF queue \ done = {} THEN forbidden
    ELSE LET p == CHOOSE p \in queue \ done : TRUE
             w == InvWalk(inv, p)
             below == IF inv[w.final].type = "dir" THEN {q \in DOMAIN inv : Within(q, w.final) /\ q # w.final} ELSE {}
             back == w.trace \cup below
         IN  IF p \in forbidden THEN Exempted(inv, queue, done \cup {p}, forbidden)
             ELSE Exempted(inv, queue \cup (back \cap InvLinks(inv)), done \cup {p}, forbidden \ back)

Forbidden(inv) ==
    LET direct == DirectlyForbidden(inv)
        copies == ForbiddenCopies(inv, direct)
    IN  Exempted(inv, {p \in InvLinks(inv) : KeepsTarget(p)}, {},
                 direct \cup copies \cup ForbiddenLinks(inv, direct, copies))

(* What verifyWithPolicyDigest asks of the inventory. *)
InventoryOK(inv) ==
    /\ \A p \in DOMAIN inv : EntryOK(p, inv[p])
    /\ Allow.profile => /\ \A p \in InvLinks(inv) : InvWalk(inv, p).ok
                        /\ Forbidden(inv) = {}

(* ... and of the staged copy. *)
OnDisk(i) == [type |-> i.type, mode |-> i.mode, owner |-> i.owner, sum |-> i.sum, link |-> i.link, hard |-> i.hard]

CopyOK(inv) ==
    /\ DOMAIN stage = DOMAIN inv
    /\ \A p \in DOMAIN inv : stage[p] = OnDisk(inv[p])
    /\ \A p \in InvLinks(inv) : InvWalk(inv, p).ok

-----------------------------------------------------------------------------
(* copyPlannedTree *)

MakeStage ==
    /\ pc = "planned"
    /\ \/ Step("copy") /\ staged' = TRUE /\ UNCHANGED <<src, changes, stage, output, evidence, written, shown>>
       \/ Abort

(* Someone edits or replaces a file or link of the source behind the copy. *)
SourceChanges ==
    /\ pc = "copy" /\ changes < Changes
    /\ \E p \in {p \in Paths : tree[p].type # "dir"}, how \in {"edited", "replaced"} :
          /\ tree[p].type = "link" => how = "replaced"
          /\ src' = [src EXCEPT ![p] = how]
    /\ changes' = changes + 1
    /\ UNCHANGED <<scanVars, stage, staged, output, evidence, written, shown>>

NextToCopy == First(Retained \ DOMAIN stage)
ParentOK(p) == Len(p) = 1 \/ (Front(p) \in Retained /\ tree[Front(p)].type = "dir")
ReadSum(p) == IF tree[p].type # "file" THEN 0 ELSE IF src[p] = "edited" THEN -1 ELSE tree[p].sum
Put(p) == OnDisk([Inventory[p] EXCEPT !.mode = 600, !.owner = "builder", !.sum = ReadSum(p)])

CopyEntry ==
    /\ pc = "copy" /\ Retained \ DOMAIN stage # {}
    /\ LET p == NextToCopy
       IN  IF ~ParentOK(p) \/ src[p] = "replaced" \/ (Inventory[p].type = "file" /\ ReadSum(p) # tree[p].sum)
           THEN Abort
           ELSE \/ /\ Step("copy")
                   /\ stage' = [q \in DOMAIN stage \cup {p} |-> IF q = p THEN Put(p) ELSE stage[q]]
                   /\ UNCHANGED <<src, changes, staged, output, evidence, written, shown>>
                \/ Abort

(* A hard link shares its primary's content, owner and mode. *)
SetOwnersAndModes ==
    /\ pc = "copy" /\ Retained \ DOMAIN stage = {}
    /\ \/ /\ Step("verify")
          /\ stage' = [p \in DOMAIN stage |->
                         [stage[p] EXCEPT !.mode = ent[p].mode, !.owner = ent[p].owner,
                            !.sum = IF ent[p].hard # <<>> THEN stage[ent[p].hard].sum ELSE @]]
          /\ UNCHANGED <<src, changes, staged, output, evidence, written, shown>>
       \/ Abort

-----------------------------------------------------------------------------
(* Verification, the evidence, and the two renames. *)

Documents == {"inventory", "prune", "sbom", "manifest"}
(* buildResult: the manifest names the digests of the other three.  An      *)
(* evidence document is the set of versions it was computed from.           *)
Built == [d \in Documents |-> IF d = "manifest" THEN {"inventory", "prune", "sbom"} ELSE {d}]

Verify ==
    /\ pc = "verify"
    /\ IF ~InventoryOK(Inventory) \/ ~CopyOK(Inventory) THEN Abort
       ELSE /\ evidence' = Built
            /\ Step("publish")
            /\ UNCHANGED <<src, changes, stage, staged, output, written, shown>>

Publish ==
    /\ pc = "publish"
    /\ \/ /\ Step("published") /\ output' = "published" /\ staged' = FALSE
          /\ UNCHANGED <<src, changes, stage, evidence, written, shown>>
       \/ Abort
       \/ /\ output = "empty" /\ output' = "absent"    \* removed, then the rename failed
          /\ Step("failed") /\ stage' = <<>> /\ staged' = FALSE
          /\ UNCHANGED <<src, changes, evidence, written, shown>>

(* Mutant: replaceSBOM leaves the manifest as it was. *)
ReplaceOnlySBOM ==
    /\ pc = "published"
    /\ \/ evidence' = [evidence EXCEPT !["sbom"] = {"merged"}]
       \/ evidence' = evidence
    /\ Step("write") /\ UNCHANGED <<src, changes, stage, staged, output, written, shown>>

(* replaceSBOM: the packages of the base image join the bill of materials,  *)
(* when there is a base inventory to merge.                                 *)
ReplaceSBOM ==
    /\ pc = "published"
    /\ \/ evidence' = [evidence EXCEPT !["sbom"] = {"merged"}, !["manifest"] = {"inventory", "prune", "merged"}]
       \/ evidence' = evidence
    /\ (Step("write") \/ Step("failed"))
    /\ UNCHANGED <<src, changes, stage, staged, output, written, shown>>

(* WriteEvidence: four files in a directory of their own, then one rename.  *)
EvidenceFails == Step("failed") /\ written' = {} /\ UNCHANGED <<src, changes, stage, staged, output, evidence, shown>>

WriteEvidence ==
    /\ pc = "write"
    /\ \/ /\ Documents \ written # {}
          /\ written' = written \cup {CHOOSE d \in Documents \ written : TRUE}
          /\ Step("write") /\ UNCHANGED <<src, changes, stage, staged, output, evidence, shown>>
       \/ /\ written = Documents /\ shown' = evidence /\ written' = {}
          /\ Step("done") /\ UNCHANGED <<src, changes, stage, staged, output, evidence>>
       \/ EvidenceFails

Next ==
    \/ Scan \/ MakeStage \/ SourceChanges \/ CopyEntry \/ SetOwnersAndModes \/ Verify \/ Publish
    \/ ReplaceSBOM \/ WriteEvidence
    \/ pc \in {"failed", "done"} /\ UNCHANGED vars

Spec == Init /\ [][Next]_vars

-----------------------------------------------------------------------------
(* Properties. *)

Planned == pc \in {"planned", "copy", "verify", "publish", "published", "write", "done"}
Shippable == {p \in Paths : ent[p].retain \/ ent[p].reason \in {"headers", "docs", "build", "tests", "shell", "static"}}

(* The links a working link depends on, followed to the end. *)
Behind(p) ==
    LET w == Final(p)
    IN  w.trace \cup (IF tree[w.final].type = "dir" THEN {q \in Shippable : Within(q, w.final)} ELSE {})
RECURSIVE NeededLinks(_)
NeededLinks(s) ==
    LET t == s \cup Links(UNION {Behind(p) : p \in s}) IN IF t = s THEN s ELSE NeededLinks(t)

(* A link in a requested keg, or one the policy protects, works in the      *)
(* runtime image: every path it passes through and everything under the     *)
(* directory it names ships, and so on through the links found there, for   *)
(* whatever order the work list of retainMinimalRuntimeAliasTargets takes.  *)
NeededLinksShip ==
    Planned /\ Allow.profile =>
        \A p \in NeededLinks({p \in Links(Retained) : KeepsTarget(p)}) : Behind(p) \subseteq Retained

(* Nothing ships whose directory was left out: copyPlannedTree would fail   *)
(* on a plan it was handed as good.                                         *)
ParentsShip == Planned => \A p \in Retained : Len(p) = 1 \/ Front(p) \in Retained

(* The verifier, which sees the inventory only, accepts every plan of the   *)
(* scanner whose links pass through nothing that was left out.  The others  *)
(* are outside it: a link to an optional tool that was left out is accepted *)
(* when the plan is made and refused when the inventory is read.            *)
VerifierAgrees ==
    Planned /\ (\A p \in Links(Retained) : Final(p).trace \subseteq Retained) => InventoryOK(Inventory)

(* A shared file is booked to the one package whose keg ships it: never to  *)
(* one of two packages that ship the same file.                             *)
BookedToItsPackage ==
    Planned => \A p \in Files(Retained) :
        LET ships(n) == \E q \in Files(Paths) :
                            /\ ent[q].pkg = n /\ Within(q, Keg(n))
                            /\ tree[q].inode = tree[p].inode \/ (q = Keg(n) \o p /\ tree[q].sum = tree[p].sum)
        IN  \/ Matching(p, Allow.etc \cup Allow.var \cup Allow.owners) # {}
            \/ {n \in DOMAIN Nodes : ships(n)} = {ent[p].pkg}

(* What is renamed into place is the scanned prefix whatever happened to    *)
(* the source meanwhile, and every link in it leads to something in it.     *)
OutputIsWhole ==
    output = "published" =>
        /\ DOMAIN stage = Retained
        /\ \A p \in Files(Retained) : stage[p].sum = tree[p].sum
        /\ \A p \in Links(Retained) : Final(p).trace \subseteq DOMAIN stage

(* A published manifest names the very documents published beside it, and   *)
(* there is no evidence about a prefix that was not published.              *)
EvidenceBound ==
    shown # <<>> =>
        /\ output = "published" /\ DOMAIN shown = Documents
        /\ shown["manifest"] = shown["inventory"] \cup shown["prune"] \cup shown["sbom"]
===============================================================================
