----------------------------- MODULE RuntimeScan -----------------------------
(***************************************************************************)
(* scanAndPlan: decides, for every path of an installed prefix, whether it *)
(* ships in the runtime image, to which package it belongs and with which  *)
(* owner and mode.  The passes run in the order of the code; the work list *)
(* that brings back what a surviving link needs is the only loop.          *)
(*                                                                         *)
(* The first part is what the runtime policy says about a path: what is    *)
(* never shipped, what the minimal profile may leave out, what it must     *)
(* keep, and where a symbolic link leads.  A path is the sequence of its   *)
(* components below the prefix.  File names matter only by their class, so *)
(* legal texts, shared objects and archives are sets of names.             *)
(***************************************************************************)
EXTENDS Integers, Sequences, FiniteSets, SequencesExt

CONSTANTS
    Nodes,            \* the closure: rack -> its version, profile facts and executables
    Requested,        \* the racks the user asked for
    Allow,            \* the normalised allowlist
    LegalContainers,  \* directory names that hold legal texts
    LegalTexts,       \* file names that are legal texts
    SharedObjects,    \* file names with .so in them
    Archives          \* file names ending in .a

None == ""
Within(p, root) == IsPrefix(root, p)
WithinAny(p, roots) == \E r \in roots : Within(p, r)

(* A rule of the allowlist: [path, pkg, writable, required].  The longest   *)
(* rule that covers a path decides.                                         *)
Matching(p, rules) == {r \in rules : Within(p, r.path)}
MatchingRule(p, rules) ==
    CHOOSE r \in Matching(p, rules) : \A s \in Matching(p, rules) : Len(s.path) <= Len(r.path)
RuleAncestor(p, rules) == \E r \in rules : Within(r.path, p)

GlobalRootEnabled(root) ==
    CASE root = "bin" -> Allow.bin
      [] root = "sbin" -> Allow.sbin
      [] root = "lib" -> Allow.lib
      [] root = "share" -> Allow.share
      [] OTHER -> FALSE

-----------------------------------------------------------------------------
(* forcedPrune: package-manager state never ships; the records it holds are *)
(* exported as evidence.                                                    *)

Repository == {<<"Homebrew">>, <<"Library">>, <<".git">>}
BrewExecutable == {<<"bin", "brew">>, <<"sbin", "brew">>}
Caches == {<<".cache">>, <<"cache">>, <<"var", "cache">>}
Logs == {<<"logs">>, <<"var", "log", "homebrew">>}
ManagerState ==
    {<<"var", "homebrew">>, <<"var", "run", "homebrew">>, <<"var", "locks", "homebrew">>,
     <<"Caskroom">>, <<"share", "doc", "homebrew">>, <<"share", "info", "dir">>,
     <<"share", "man", "man1", "brew.1">>, <<"share", "zsh", "site-functions", "_brew">>,
     <<"share", "fish", "vendor_completions.d", "brew.fish">>,
     <<"share", "bash-completion", "completions", "brew">>,
     <<"etc", "bash_completion.d", "brew">>}
Tools == {<<"libexec", "dalec-homebrew-materializer">>, <<"libexec", "dalec-homebrew-test-runner">>,
          <<"libexec", "dalec-homebrew-record-verify">>}

Pruned(reason, export) == [reason |-> reason, export |-> export]

ForcedPrune(p) ==
    LET inCellar == Len(p) >= 4 /\ p[1] = "Cellar"
    IN  IF WithinAny(p, Repository) THEN Pruned("repository", None)
        ELSE IF p \in BrewExecutable THEN Pruned("brew", None)
        ELSE IF WithinAny(p, Caches) THEN Pruned("cache", None)
        ELSE IF WithinAny(p, Logs) THEN Pruned("log", None)
        ELSE IF WithinAny(p, ManagerState) THEN Pruned("manager", None)
        ELSE IF p \in Tools \/ Within(p, <<"share", "dalec-homebrew-tools">>) THEN Pruned("tooling", None)
        ELSE IF inCellar /\ p[4] = ".brew"
             THEN CASE Last(p) = "formula.rb" -> Pruned("metadata", "formula")
                    [] Last(p) = "sbom" -> Pruned("sbom", "sbom")
                    [] OTHER -> Pruned("metadata", "homebrew")
        ELSE IF inCellar /\ Len(p) = 4 /\ p[4] = "INSTALL_RECEIPT.json" THEN Pruned("receipt", "receipt")
        ELSE Pruned(None, None)

PointsToManagerState(p) ==
    p \in BrewExecutable \/ WithinAny(p, {<<"Homebrew">>, <<"Library">>, <<"var", "homebrew">>})

-----------------------------------------------------------------------------
(* The minimal profile: which paths of a transitive core keg are headers,   *)
(* manuals, build metadata, tests, completions or static archives.          *)

Keg(n) == <<"Cellar", n, Nodes[n].version>>
NoKeg == [pkg |-> None, sub |-> <<>>]

KegLocation(p) ==
    IF Len(p) >= 4 /\ p[1] = "Cellar" /\ p[2] \in DOMAIN Nodes /\ p[3] = Nodes[p[2]].version
    THEN [pkg |-> p[2], sub |-> SubSeq(p, 4, Len(p))]
    ELSE NoKeg

CellarSub(p) == IF Len(p) >= 4 /\ p[1] = "Cellar" THEN SubSeq(p, 4, Len(p)) ELSE <<>>
PackageFromCellarPath(p) == IF Len(p) >= 2 /\ p[1] = "Cellar" /\ p[2] \in DOMAIN Nodes THEN p[2] ELSE None

ProtectedNames ==
    {"libexec", "etc", "conf", "config", "configuration", "locale", "locales", "site-packages",
     "ensurepip", "venv", "plugin", "plugins", "node_modules"}
ProtectedData(p) == \E i \in DOMAIN p : p[i] \in ProtectedNames
LegalPath(p) ==
    \/ Last(p) \in LegalTexts
    \/ \E i \in 1..(Len(p) - 1) : p[i] \in LegalContainers
ShareDoc(p) == Within(p, <<"share", "doc">>) \/ Within(CellarSub(p), <<"share", "doc">>)

AlwaysRetained(p) == LegalPath(p) \/ ShareDoc(p) \/ ProtectedData(p) \/ Last(p) \in SharedObjects

StaticArchive(p) == p # <<>> /\ Last(p) \in Archives /\ Len(p) > 1 /\ p[1] = "lib" /\ ~ProtectedData(p)

DocRoots == {<<"share", "man">>, <<"share", "info">>}
BuildRoots == {<<"lib", "pkgconfig">>, <<"share", "pkgconfig">>, <<"lib", "cmake">>,
               <<"share", "cmake">>, <<"share", "aclocal">>}
ShellRoots == {<<"share", "bash-completion", "completions">>, <<"share", "fish", "vendor_completions.d">>,
               <<"share", "zsh", "site-functions">>}
PythonTest(pkg, p) == Nodes[pkg].tests # <<>> /\ Within(p, Nodes[pkg].tests)

(* minimalRuntimePathClass *)
PathClass(p, pkg) ==
    LET at == KegLocation(p)
    IN  IF ~Allow.profile \/ at.pkg = None \/ at.pkg # pkg \/ pkg \in Requested \/ ~Nodes[pkg].core THEN None
        ELSE IF Within(at.sub, <<"include">>) THEN "headers"
        ELSE IF WithinAny(at.sub, DocRoots) THEN "docs"
        ELSE IF WithinAny(at.sub, BuildRoots) THEN "build"
        ELSE IF PythonTest(pkg, at.sub) THEN "tests"
        ELSE IF WithinAny(at.sub, ShellRoots) THEN "shell"
        ELSE IF StaticArchive(at.sub) THEN "static"
        ELSE None

(* toolchainDevelopmentClosure: a compiler keeps the development files of   *)
(* everything it depends on.                                                *)
RECURSIVE DependencyClosure(_)
DependencyClosure(s) ==
    LET t == s \cup {d \in UNION {Nodes[n].deps : n \in s} : d \in DOMAIN Nodes}
    IN  IF t = s THEN s ELSE DependencyClosure(t)

ToolchainDev == IF Allow.profile THEN DependencyClosure({n \in DOMAIN Nodes : Nodes[n].toolchain}) ELSE {}

(* minimalRuntimePruneReason *)
PruneReason(p, pkg) ==
    LET class == PathClass(p, pkg)
        sub == KegLocation(p).sub
    IN  IF \/ class = None
           \/ pkg \in ToolchainDev /\ class \in {"headers", "build", "static"}
           \/ AlwaysRetained(sub)
           \/ Last(sub) \in Archives /\ ~StaticArchive(sub)
        THEN None ELSE class

(* A directory named like an archive is not an archive. *)
DirectReason(p, type, pkg) ==
    LET r == PruneReason(p, pkg) IN IF r = "static" /\ type = "dir" THEN None ELSE r

(* minimalRuntimeAliasPath: where a link or copy of a left-out file may go  *)
(* with it.                                                                 *)
AliasPath(p, reason, pkg) ==
    /\ ~AlwaysRetained(p)
    /\ CASE reason = "headers" -> Within(p, <<"include">>) \/ Within(CellarSub(p), <<"include">>)
         [] reason = "docs" -> WithinAny(p, DocRoots)
         [] reason = "build" -> WithinAny(p, BuildRoots)
         [] reason = "tests" -> PythonTest(pkg, p)
         [] reason = "shell" -> WithinAny(p, ShellRoots)
         [] reason = "static" -> ~ProtectedData(p) /\ (StaticArchive(p) \/ StaticArchive(CellarSub(p)))

(* minimalRuntimeAliasRetainsTarget: a link that must go on working. *)
KeepsTarget(p) == AlwaysRetained(p) \/ (KegLocation(p).pkg # None /\ KegLocation(p).pkg \in Requested)

-----------------------------------------------------------------------------
(* Links.  A target is [abs, parts]: abs says where an absolute target      *)
(* starts: the install prefix, the scanned copy of it, or the host.         *)

NoLink == [abs |-> "no", parts |-> <<>>]
CleanStep(acc, c) ==
    IF c = ".." THEN IF acc.parts = <<>> THEN [acc EXCEPT !.ok = FALSE] ELSE [acc EXCEPT !.parts = Front(@)]
    ELSE [acc EXCEPT !.parts = Append(@, c)]
CleanFrom(dir, parts) == FoldLeft(CleanStep, [ok |-> TRUE, parts |-> dir], parts)
CleanRelStep(acc, c) ==
    IF c = ".." /\ acc # <<>> /\ Last(acc) # ".." THEN Front(acc) ELSE Append(acc, c)

(* normalizeLinkTarget: the path meant, and the target written. *)
Normalized(p, link) ==
    LET at == CleanFrom(IF link.abs = "no" THEN Front(p) ELSE <<>>, link.parts)
    IN  [ok |-> at.ok /\ at.parts # <<>> /\ link.abs # "host",
         resolved |-> at.parts,
         out |-> IF link.abs = "no" THEN [abs |-> "no", parts |-> FoldLeft(CleanRelStep, <<>>, link.parts)]
                 ELSE [abs |-> "prefix", parts |-> at.parts]]

(* finalLinkTarget, minimalRuntimeLinkRequirements and traceInventoryTarget *)
(* walk a path the same way: type gives the known entries, to their links.  *)
LinkSteps == 64
RECURSIVE WalkFrom(_, _, _, _, _, _)
WalkFrom(type, to, queue, stack, visited, trace) ==
    LET here == Append(stack, Head(queue))
        rest == Tail(queue)
    IN  IF queue = <<>> THEN [ok |-> stack \in DOMAIN type, final |-> stack, trace |-> trace]
        ELSE IF here \notin DOMAIN type THEN WalkFrom(type, to, rest, here, visited, trace)
        ELSE IF type[here] # "link"
             THEN IF rest # <<>> /\ type[here] # "dir" THEN [ok |-> FALSE, final |-> here, trace |-> trace]
                  ELSE WalkFrom(type, to, rest, here, visited, trace \cup {here})
        ELSE IF here \in visited \/ Cardinality(visited) >= LinkSteps
             THEN [ok |-> FALSE, final |-> here, trace |-> trace]
        ELSE WalkFrom(type, to, to[here] \o rest, <<>>, visited \cup {here}, trace \cup {here})

Walk(type, to, p) == WalkFrom(type, to, p, <<>>, {}, {})

-----------------------------------------------------------------------------
(* The scan. *)
CONSTANTS
    Before(_, _),  \* the lexical order of paths
    Trees          \* the installed prefixes: path -> [type, link, inode, sum, exec, unsafe, identity]

VARIABLES
    tree,     \* the prefix that is scanned
    ent,      \* path -> what is planned for it
    cand,     \* path -> reason: what the minimal profile would leave out
    work,     \* links whose needs are still to be looked at
    seen,     \* links that were looked at
    used,     \* paths a directory target already brought back
    exports,  \* metadata that leaves as evidence
    pc

scanVars == <<tree, ent, cand, work, seen, used, exports, pc>>

Paths == DOMAIN tree
First(s) == CHOOSE p \in s : \A q \in s : p = q \/ Before(p, q)
Fails == pc' = "failed" /\ UNCHANGED <<tree, ent, cand, work, seen, used, exports>>

NewEntry ==
    [retain |-> FALSE, reason |-> None, export |-> None, pkg |-> None, writable |-> FALSE,
     resolved |-> <<>>, out |-> NoLink, owner |-> "root", mode |-> 0, hard |-> <<>>]

Retained == {p \in Paths : ent[p].retain}
Links(s) == {p \in s : tree[p].type = "link"}
Files(s) == {p \in s : tree[p].type = "file"}
Final(p) == Walk([q \in Paths |-> tree[q].type], [q \in Paths |-> ent[q].resolved], p)
FinalRetained(p) == Final(p).ok /\ ent[Final(p).final].retain

ScanInit ==
    /\ tree \in Trees
    /\ ent = [p \in Paths |-> NewEntry]
    /\ cand = <<>> /\ work = {} /\ seen = {} /\ used = {} /\ exports = {}
    /\ pc = "scan"

-----------------------------------------------------------------------------
(* classifyRetention *)

LoaderPath == <<"lib", "ld.so">>
BaseLoader == [abs |-> "host", parts |-> <<"base", "ld.so">>]
BrewedLoader == [abs |-> "prefix", parts |-> <<"opt", "glibc", "bin", "ld.so">>]
BrewedLoaderAllowed == "glibc" \in DOMAIN Nodes /\ Nodes["glibc"].loader

ClassifyFails(p) ==
    IF p = LoaderPath
    THEN \/ tree[p].type # "link"
         \/ tree[p].link # BaseLoader /\ ~(tree[p].link = BrewedLoader /\ BrewedLoaderAllowed)
    ELSE /\ ForcedPrune(p).reason = None
         /\ p[1] \in {"Cellar", "opt"} /\ Len(p) >= 2
         /\ \/ p[2] \notin DOMAIN Nodes
            \/ p[1] = "Cellar" /\ Len(p) >= 3 /\ p[3] # Nodes[p[2]].version

ByRule(p, rules) ==
    IF Matching(p, rules) # {}
    THEN [NewEntry EXCEPT !.retain = TRUE, !.pkg = MatchingRule(p, rules).pkg,
                          !.writable = MatchingRule(p, rules).writable]
    ELSE [NewEntry EXCEPT !.retain = RuleAncestor(p, rules)]

ByRoot(p) ==
    CASE p[1] \in {"Cellar", "opt"} -> [NewEntry EXCEPT !.retain = TRUE, !.pkg = IF Len(p) >= 2 THEN p[2] ELSE None]
      [] p[1] = "etc" -> ByRule(p, Allow.etc)
      [] p[1] = "var" -> ByRule(p, Allow.var)
      [] OTHER -> [NewEntry EXCEPT !.retain = GlobalRootEnabled(p[1])]

Classified(p) ==
    LET f == ForcedPrune(p)
        byRoot == ByRoot(p)
    IN  IF p = LoaderPath
        THEN IF tree[p].link = BaseLoader THEN [NewEntry EXCEPT !.reason = "runtime base"]
             ELSE [NewEntry EXCEPT !.retain = Allow.lib]
        ELSE IF f.reason # None
        THEN [NewEntry EXCEPT !.reason = f.reason, !.export = f.export, !.pkg = PackageFromCellarPath(p)]
        ELSE [byRoot EXCEPT !.reason = IF byRoot.retain THEN None ELSE "not allowlisted"]

Classify ==
    /\ pc = "scan"
    /\ IF \E p \in Paths : tree[p].unsafe \/ ClassifyFails(p) THEN Fails
       ELSE /\ ent' = [p \in Paths |-> Classified(p)]
            /\ pc' = "layout"
            /\ UNCHANGED <<tree, cand, work, seen, used, exports>>

(* validateExpectedLayout *)
LayoutOK ==
    /\ \A n \in DOMAIN Nodes :
           /\ Keg(n) \in Retained /\ tree[Keg(n)].type = "dir"
           /\ <<"opt", n>> \in Links(Retained)
    /\ \A r \in Allow.etc \cup Allow.var \cup Allow.owners :
           r.required => /\ r.path \in Retained
                         /\ r.writable => tree[r.path].type = "dir"

Layout ==
    /\ pc = "layout"
    /\ IF ~LayoutOK THEN Fails
       ELSE pc' = "links" /\ UNCHANGED <<tree, ent, cand, work, seen, used, exports>>

-----------------------------------------------------------------------------
(* normalizeLinks: links to package-manager state go, every other retained  *)
(* link must lead to something that stays.                                  *)

Linked ==
    [p \in Paths |->
        LET n == Normalized(p, tree[p].link)
            e == [ent[p] EXCEPT !.resolved = n.resolved, !.out = n.out]
        IN  IF tree[p].type # "link" \/ ent[p].reason = "runtime base" THEN ent[p]
            ELSE IF e.retain /\ PointsToManagerState(n.resolved)
                 THEN [e EXCEPT !.retain = FALSE, !.reason = "manager"]
            ELSE e]

NormalizeLinks ==
    /\ pc = "links"
    /\ IF \E p \in Links(Paths) : ent[p].reason # "runtime base" /\ ~Normalized(p, tree[p].link).ok THEN Fails
       ELSE /\ ent' = Linked
            /\ pc' = "linked"
            /\ UNCHANGED <<tree, cand, work, seen, used, exports>>

CheckLinks ==
    /\ pc = "linked"
    /\ IF \/ \E p \in Links(Retained) : ~FinalRetained(p)
          \/ \E n \in DOMAIN Nodes : <<"opt", n>> \notin Retained \/ Final(<<"opt", n>>).final # Keg(n)
       THEN Fails
       ELSE pc' = "attribute" /\ UNCHANGED <<tree, ent, cand, work, seen, used, exports>>

-----------------------------------------------------------------------------
(* attributeEntries *)

KegFiles == {p \in Files(Retained) : KegLocation(p).pkg # None}
SharingInode(p) == {KegLocation(q).pkg : q \in {q \in KegFiles : tree[q].inode = tree[p].inode}}
CopiesOf(p) ==
    {KegLocation(q).pkg : q \in {q \in KegFiles :
        KegLocation(q).sub = p /\ tree[q].sum = tree[p].sum /\ (tree[q].exec = 0) = (tree[p].exec = 0)}}
Only(s) == IF Cardinality(s) = 1 THEN CHOOSE x \in s : TRUE ELSE None

FilePackage(p) ==
    IF Only(SharingInode(p)) # None THEN Only(SharingInode(p))
    ELSE IF Only(CopiesOf(p)) # None THEN Only(CopiesOf(p))
    ELSE IF Matching(p, Allow.owners) # {} THEN MatchingRule(p, Allow.owners).pkg
    ELSE None

AttributeFiles ==
    /\ pc = "attribute"
    /\ ent' = [p \in Paths |->
                 IF p \in Files(Retained) /\ ent[p].pkg = None THEN [ent[p] EXCEPT !.pkg = FilePackage(p)] ELSE ent[p]]
    /\ pc' = "attribute links"
    /\ UNCHANGED <<tree, cand, work, seen, used, exports>>

LinkAttributed ==
    [p \in Paths |->
        IF p \in Links(Retained) /\ ent[p].pkg = None THEN [ent[p] EXCEPT !.pkg = ent[Final(p).final].pkg] ELSE ent[p]]

AttributeLinks ==
    /\ pc = "attribute links"
    /\ IF \E p \in Links(Retained) : ent[p].pkg = None /\ ~FinalRetained(p) THEN Fails
       ELSE IF \E p \in Retained : tree[p].type # "dir" /\ LinkAttributed[p].pkg = None THEN Fails
       ELSE /\ ent' = LinkAttributed
            /\ pc' = "optional"
            /\ UNCHANGED <<tree, cand, work, seen, used, exports>>

(* pruneOptionalDependencyTooling *)
OptionalLink(p) ==
    /\ p \in Links(Retained) /\ ent[p].pkg \in DOMAIN Nodes \ Requested
    /\ p \in Nodes[ent[p].pkg].optional

PruneOptional ==
    /\ pc = "optional"
    /\ ent' = [p \in Paths |->
                 IF OptionalLink(p) THEN [ent[p] EXCEPT !.retain = FALSE, !.reason = "optional"] ELSE ent[p]]
    /\ pc' = IF Allow.profile THEN "candidates" ELSE "check"
    /\ UNCHANGED <<tree, cand, work, seen, used, exports>>

-----------------------------------------------------------------------------
(* pruneMinimalRuntimeProfile *)

(* The directories above something that stays, stay. *)
Above(p) == {SubSeq(p, 1, k) : k \in 1..(Len(p) - 1)}

Candidates ==
    LET direct == {p \in Retained : DirectReason(p, tree[p].type, ent[p].pkg) # None}
        kept == direct \ UNION {Above(p) : p \in Retained \ direct}
    IN  [p \in kept |-> PruneReason(p, ent[p].pkg)]

FindCandidates ==
    /\ pc = "candidates"
    /\ cand' = Candidates
    /\ pc' = "aliases"
    /\ UNCHANGED <<tree, ent, work, seen, used, exports>>

SameContent(a, t) ==
    /\ tree[a].type = "file" /\ tree[t].type = "file"
    /\ tree[a].inode = tree[t].inode \/ (tree[a].sum = tree[t].sum /\ tree[a].exec = tree[t].exec)

AliasOf(p, t, c) ==
    t \in DOMAIN c /\ ent[p].pkg = ent[t].pkg /\ AliasPath(p, c[t], ent[t].pkg)

(* Copies first, links after them, so that a link to a copy sees the copy. *)
CopyAliases ==
    LET mine(p) == Keg(ent[p].pkg) \o p
    IN  {p \in Files(Retained) \ DOMAIN cand :
            ent[p].pkg \in DOMAIN Nodes /\ mine(p) \in Paths /\ SameContent(p, mine(p)) /\ AliasOf(p, mine(p), cand)}

WithCopies ==
    [p \in DOMAIN cand \cup CopyAliases |-> IF p \in DOMAIN cand THEN cand[p] ELSE cand[Keg(ent[p].pkg) \o p]]
LinkAliases == {p \in Links(Retained) \ DOMAIN WithCopies : AliasOf(p, Final(p).final, WithCopies)}
WithAliases ==
    [p \in DOMAIN WithCopies \cup LinkAliases |->
        IF p \in DOMAIN WithCopies THEN WithCopies[p] ELSE WithCopies[Final(p).final]]

FindAliases ==
    /\ pc = "aliases"
    /\ IF \E p \in Links(Retained) \ DOMAIN WithCopies : ~FinalRetained(p) THEN Fails
       ELSE /\ cand' = WithAliases
            /\ work' = {p \in Links(Retained) : KeepsTarget(p)}
            /\ pc' = "rescue"
            /\ UNCHANGED <<tree, ent, seen, used, exports>>

Without(f, s) == [p \in DOMAIN f \ s |-> f[p]]

(* One turn of retainMinimalRuntimeAliasTargets: the walk of a link that    *)
(* must work comes back, with all that is under the directory it leads to,  *)
(* and the links among that are looked at in turn.                          *)
Needs(p) ==
    LET w == Final(p)
        below == {q \in Retained \ used : Within(q, w.final) /\ q # w.final}
    IN  [walk |-> w.trace, below |-> IF tree[w.final].type = "dir" THEN below ELSE {}]

(* Mutant: what is under a directory target is not brought back. *)
RescueOfWalkOnly(p) ==
    IF ~FinalRetained(p) \/ \E q \in Final(p).trace : ~ent[q].retain THEN Fails
    ELSE /\ cand' = Without(cand, Needs(p).walk)
         /\ work' = (work \ {p}) \cup (Links(Needs(p).walk) \ (seen \cup {p}))
         /\ seen' = seen \cup {p}
         /\ UNCHANGED <<tree, ent, used, exports, pc>>

Rescue(p) ==
    IF ~FinalRetained(p) \/ \E q \in Final(p).trace : ~ent[q].retain THEN Fails
    ELSE LET n == Needs(p)
         IN  /\ cand' = Without(cand, n.walk \cup n.below)
             /\ work' = (work \ {p}) \cup (Links(n.walk \cup n.below) \ (seen \cup {p}))
             /\ used' = used \cup n.below
             /\ seen' = seen \cup {p}
             /\ UNCHANGED <<tree, ent, exports, pc>>

RescueNext ==
    /\ pc = "rescue"
    /\ \E p \in work :
          IF p \in DOMAIN cand
          THEN work' = work \ {p} /\ seen' = seen \cup {p} /\ UNCHANGED <<tree, ent, cand, used, exports, pc>>
          ELSE Rescue(p)

DropCandidates ==
    /\ pc = "rescue" /\ work = {}
    /\ ent' = [p \in Paths |->
                 IF p \in DOMAIN cand THEN [ent[p] EXCEPT !.retain = FALSE, !.reason = cand[p]] ELSE ent[p]]
    /\ pc' = "check"
    /\ UNCHANGED <<tree, cand, work, seen, used, exports>>

-----------------------------------------------------------------------------
(* validateRetainedLinks, validateRequestedExecutables *)

ExecutableOK(n, x) ==
    LET k == Keg(n) \o x
    IN  /\ k \in Retained /\ FinalRetained(k)
        /\ tree[Final(k).final].type = "file" /\ tree[Final(k).final].exec # 0
        /\ ~Nodes[n].kegOnly /\ x[1] \in {"bin", "sbin"} => x \in Retained /\ ent[x].pkg = n

CheckPlan ==
    /\ pc = "check"
    /\ IF \/ \E p \in Links(Retained) : ~FinalRetained(p)
          \/ \E n \in Requested : \E x \in Nodes[n].execs : ~ExecutableOK(n, x)
       THEN Fails
       ELSE pc' = "modes" /\ UNCHANGED <<tree, ent, cand, work, seen, used, exports>>

(* planModesAndHardlinks *)
Mode(p) ==
    LET loose == ent[p].writable \/ p[1] \in {"etc", "var"}
    IN  CASE tree[p].type = "link" -> 777
          [] tree[p].type = "dir" \/ tree[p].exec # 0 -> IF loose THEN 755 ELSE 555
          [] OTHER -> IF loose THEN 644 ELSE 444
Owner(p) == IF ent[p].writable THEN "runtime" ELSE "root"
Primary(p) == First({q \in Files(Retained) : tree[q].inode = tree[p].inode})

ModesOK ==
    /\ \A p \in Retained : ent[p].writable => tree[p].type # "link" /\ ~(tree[p].type = "file" /\ tree[p].exec # 0)
    /\ \A p \in Files(Retained) :
          LET q == Primary(p)
          IN  /\ ent[q].pkg = ent[p].pkg \/ None \in {ent[q].pkg, ent[p].pkg}
              /\ Mode(q) = Mode(p) /\ ent[q].writable = ent[p].writable

PlanModes ==
    /\ pc = "modes"
    /\ IF ~ModesOK THEN Fails
       ELSE /\ ent' = [p \in Paths |->
                         IF ~ent[p].retain THEN ent[p]
                         ELSE [ent[p] EXCEPT !.mode = Mode(p), !.owner = Owner(p),
                                 !.hard = IF tree[p].type = "file" /\ Primary(p) # p THEN Primary(p) ELSE <<>>]]
            /\ pc' = "exports"
            /\ UNCHANGED <<tree, cand, work, seen, used, exports>>

(* collectMetadataExports: a pruned record leaves as evidence, provided it   *)
(* is a file that names its own package.                                    *)
Exported == {p \in Paths : ~ent[p].retain /\ ent[p].export # None /\ tree[p].type # "dir"}

CollectExports ==
    /\ pc = "exports"
    /\ IF \E p \in Exported :
              \/ tree[p].type # "file" \/ ent[p].pkg = None
              \/ ent[p].export \in {"receipt", "formula"} /\ ~tree[p].identity
       THEN Fails
       ELSE /\ exports' = {[pkg |-> ent[p].pkg, kind |-> ent[p].export, source |-> p] : p \in Exported}
            /\ pc' = "planned"
            /\ UNCHANGED <<tree, ent, cand, work, seen, used>>

ScanNext ==
    \/ Classify \/ Layout \/ NormalizeLinks \/ CheckLinks \/ AttributeFiles \/ AttributeLinks \/ PruneOptional
    \/ FindCandidates \/ FindAliases \/ RescueNext \/ DropCandidates \/ CheckPlan \/ PlanModes \/ CollectExports
===============================================================================
