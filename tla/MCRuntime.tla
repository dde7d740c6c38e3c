------------------------------ MODULE MCRuntime ------------------------------
(***************************************************************************)
(* The runtime prefix on small instances: its assembly from start to end,  *)
(* the index and the evidence of what was left out, and the policy's       *)
(* rules.  They share no state, so each behaviour moves one of them while  *)
(* the others are at rest.                                                 *)
(***************************************************************************)
EXTENDS RuntimeAssemble, TLC

CONSTANT Parts   \* the parts that are checked

VARIABLES part,
          paths, next, ranges, root, from, given, out, calls,
          scan, v2, walk, at, subtrees, compacted, rows,
          rules, profileRules, writable, recorded

assembly == vars
index == <<paths, next, ranges, root, from, given, out, calls>>
prune == <<scan, v2, walk, at, subtrees, compacted, rows>>
policy == <<rules, profileRules, writable, recorded>>

-----------------------------------------------------------------------------
(* Prefixes of a requested app and its core dependency.  A tree is a base   *)
(* layout and any combination of a few groups of further entries.           *)

Node(version, core) ==
    [version |-> version, core |-> core, toolchain |-> FALSE, deps |-> {}, tests |-> <<>>,
     loader |-> FALSE, optional |-> {}, kegOnly |-> FALSE, execs |-> {}]
MCNodes ==
    [app |-> [Node("1", TRUE) EXCEPT !.execs = {<<"bin", "app">>}, !.deps = {"dep"}],
     dep |-> [Node("2", TRUE) EXCEPT !.optional = {<<"bin", "psl">>}]]
MCRequested == {"app"}
MCLegalContainers == {"legal"}
MCLegalTexts == {"LICENSE", "legal"}
MCSharedObjects == {"d.so"}
MCArchives == {"d.a"}
R(p, pkg, w, r) == [path |-> p, pkg |-> pkg, writable |-> w, required |-> r]
MCAllow ==
    [bin |-> TRUE, sbin |-> FALSE, lib |-> TRUE, share |-> TRUE, profile |-> TRUE,
     etc |-> {R(<<"etc", "app">>, "app", FALSE, FALSE)},
     var |-> {R(<<"var", "app">>, "app", TRUE, TRUE)},
     owners |-> {R(<<"share", "gen">>, "dep", FALSE, FALSE)}]

D == [type |-> "dir", link |-> NoLink, inode |-> 0, sum |-> 0, exec |-> 0, unsafe |-> FALSE, identity |-> FALSE]
F(inode, sum) == [D EXCEPT !.type = "file", !.inode = inode, !.sum = sum, !.identity = TRUE]
X(inode, sum) == [F(inode, sum) EXCEPT !.exec = 111]
L(parts) == [D EXCEPT !.type = "link", !.link = [abs |-> "no", parts |-> parts]]
A(parts) == [D EXCEPT !.type = "link", !.link = [abs |-> "prefix", parts |-> parts]]
H(parts) == [D EXCEPT !.type = "link", !.link = [abs |-> "host", parts |-> parts]]
At(dir, name) == Append(dir, name)

App == <<"Cellar", "app", "1">>
Dep == <<"Cellar", "dep", "2">>
Inc == At(Dep, "include")
Man == Dep \o <<"share", "man">>
Lib == At(Dep, "lib")

Base ==
    (<<"Cellar">> :> D) @@ (<<"Cellar", "app">> :> D) @@ (App :> D) @@ (<<"Cellar", "dep">> :> D) @@ (Dep :> D)
    @@ (<<"opt">> :> D) @@ (<<"opt", "app">> :> L(<<"..", "Cellar", "app", "1">>))
    @@ (<<"opt", "dep">> :> A(<<"Cellar", "dep", "2">>))
    @@ (<<"bin">> :> D) @@ (<<"lib">> :> D) @@ (<<"share">> :> D) @@ (<<"var">> :> D) @@ (<<"var", "app">> :> D)
    @@ (At(App, "bin") :> D) @@ (App \o <<"bin", "app">> :> X(1, 1))
    @@ (<<"bin", "app">> :> L(<<"..", "Cellar", "app", "1", "bin", "app">>))

(* Development files of the dependency, and what refers to them. *)
Headers == (Inc :> D) @@ (At(Inc, "d.h") :> F(2, 2))
License == (Inc :> D) @@ (At(Inc, "legal") :> D) @@ (Inc \o <<"legal", "LICENSE">> :> F(3, 3))
DeepLicense == (Inc :> D) @@ (At(Inc, "deep") :> D) @@ (Inc \o <<"deep", "LICENSE">> :> F(3, 3))
NeedsHeaders == Headers @@ (At(App, "dev") :> A(<<"opt", "dep", "include">>))
HeaderToManual == Headers @@ (At(Inc, "m") :> L(<<"..", "share", "man", "d.1">>))
Manual == (At(Dep, "share") :> D) @@ (Man :> D) @@ (At(Man, "d.1") :> F(4, 4))
GlobalManual == (<<"share", "man">> :> D) @@ (<<"share", "man", "d.1">> :> F(4, 4))
CopiedManual == (<<"share", "man">> :> D) @@ (<<"share", "man", "d.1">> :> F(5, 4))
LinkedManual == (<<"share", "man">> :> D) @@ (<<"share", "man", "e.1">> :> L(<<"d.1">>))
NeedsManual == At(App, "help") :> L(<<"..", "..", "dep", "2", "share", "man", "d.1">>)
Archive == (Lib :> D) @@ (At(Lib, "d.a") :> F(6, 6)) @@ (<<"lib", "d.a">> :> A(<<"opt", "dep", "lib", "d.a">>))
Stray == (Lib :> D) @@ (At(Lib, "stray.h") :> L(<<"..", "include", "d.h">>))

DevelopmentTrees ==
    {Base @@ h @@ l @@ n @@ m @@ g @@ k @@ a @@ x @@ s :
        h \in {Base, Headers}, l \in {Base, License, DeepLicense}, n \in {Base, NeedsHeaders},
        m \in {Base, Manual}, g \in {Base, GlobalManual, CopiedManual}, k \in {Base, LinkedManual},
        a \in {Base, Archive}, x \in {Base, NeedsManual, HeaderToManual}, s \in {Base, Stray}}

(* Shared files, tools, state and package-manager records. *)
Tool == (At(Dep, "bin") :> D) @@ (Dep \o <<"bin", "psl">> :> X(7, 7))
        @@ (<<"bin", "psl">> :> A(<<"Cellar", "dep", "2", "bin", "psl">>))
ToolAlias == Tool @@ (<<"bin", "psl2">> :> L(<<"psl">>))
SharedFile(a, b) ==
    (At(App, "share") :> D) @@ (App \o <<"share", "gen">> :> F(8, a))
    @@ (At(Dep, "share") :> D) @@ (Dep \o <<"share", "data">> :> F(9, b)) @@ (App \o <<"share", "data">> :> F(10, a))
    @@ (<<"share", "data">> :> F(11, b)) @@ (<<"share", "gen">> :> F(12, a))
State(exec) == (<<"var", "app", "db">> :> [F(13, 13) EXCEPT !.exec = exec]) @@ (<<"etc">> :> D) @@ (<<"etc", "app">> :> F(14, 14))
LinkedState == (<<"var", "app", "db">> :> F(1, 1))
Records(ok) ==
    (App \o <<"INSTALL_RECEIPT.json">> :> [F(15, 15) EXCEPT !.identity = ok])
    @@ (At(App, ".brew") :> D) @@ (App \o <<".brew", "formula.rb">> :> F(16, 16))
Manager == (<<"Homebrew">> :> D) @@ (<<"bin", "brew">> :> L(<<"..", "Homebrew", "brew">>))
           @@ (<<"share", "hb">> :> L(<<"..", "Homebrew">>)) @@ (<<"lib", "ld.so">> :> [D EXCEPT !.type = "link", !.link = BaseLoader])
Foreign == <<"Cellar", "other">> :> D
Escape == <<"bin", "out">> :> H(<<"etc", "passwd">>)
Special == <<"var", "fifo">> :> [D EXCEPT !.unsafe = TRUE]

SharedTrees ==
    {Base @@ t @@ f @@ s @@ r @@ m :
        t \in {Base, Tool, ToolAlias}, f \in {Base, SharedFile(20, 21), SharedFile(20, 20)},
        s \in {Base, State(0), State(111), LinkedState}, r \in {Base, Records(TRUE), Records(FALSE)},
        m \in {Base, Manager, Foreign, Escape, Special}}

Scanned == DevelopmentTrees \cup SharedTrees

(* Lexical order; the names of this instance, sorted. *)
Names == <<".brew", "Cellar", "Homebrew", "INSTALL_RECEIPT.json", "LICENSE", "1", "2", "app", "bin", "brew", "d.1", "d.a",
           "d.h", "data", "db", "deep", "dep", "dev", "e.1", "etc", "fifo", "gen", "hb", "help", "include", "ld.so", "legal",
           "lib", "m", "man", "opt", "other", "out", "psl", "psl2", "share", "stray.h", "var">>
NameRank(n) == CHOOSE i \in DOMAIN Names : Names[i] = n
RECURSIVE MCBefore(_, _)
MCBefore(p, q) ==
    IF q = <<>> THEN FALSE ELSE IF p = <<>> THEN TRUE
    ELSE IF Head(p) = Head(q) THEN MCBefore(Tail(p), Tail(q)) ELSE NameRank(Head(p)) < NameRank(Head(q))

(* The trees whose copy is taken step by step. *)
Copied == {Base @@ t @@ s @@ m : t \in {Base, ToolAlias}, s \in {State(0), LinkedState}, m \in {Base, Manager}}

(* A manual page whose copy in the prefix has more execute bits, needed by  *)
(* a link of the requested keg.                                             *)
ExecBits ==
    {Base @@ NeedsManual
        @@ (At(Dep, "share") :> D) @@ (Man :> D) @@ (At(Man, "d.1") :> [F(4, 4) EXCEPT !.exec = 100])
        @@ (<<"share", "man">> :> D) @@ (<<"share", "man", "d.1">> :> [F(5, 4) EXCEPT !.exec = x]) : x \in {100, 111}}

MCTrees ==
    (IF "profile" \in Parts THEN Scanned ELSE {}) \cup (IF "publish" \in Parts THEN Copied ELSE {})
    \cup (IF "execbits" \in Parts THEN ExecBits ELSE {})
MCOutputs == {"absent", "empty", "full"}

-----------------------------------------------------------------------------
(* a, a-, a/a, a/a/a, a/b, a0, aa *)
MCUniverse == {<<97>>, <<97, 45>>, <<97, 47, 97>>, <<97, 47, 97, 47, 97>>, <<97, 47, 98>>, <<97, 48>>, <<97, 97>>}

Index == INSTANCE DescendantIndex WITH Universe <- MCUniverse, Calls <- 3

-----------------------------------------------------------------------------
(* H, H/g: the repository; i, i-, i/a, i/d, i/d/a: a package's headers.      *)
MCRepository == <<72>>
RepoFile == <<72, 47, 103>>
PrunedDirs == {MCRepository, <<105>>, <<105, 47, 100>>}
HeaderTree == {<<105>>, <<105, 47, 97>>, <<105, 47, 100>>, <<105, 47, 100, 47, 97>>}
Beside == <<105, 45>>
PrunedEntry(p, retain, reason, package, export) ==
    [type |-> IF p \in PrunedDirs THEN "directory" ELSE "regular", retain |-> retain, reason |-> reason,
     package |-> package, export |-> export]
PrunedEntries(p) ==
    {PrunedEntry(p, FALSE, "headers", "p", FALSE), PrunedEntry(p, FALSE, "docs", "p", FALSE),
     PrunedEntry(p, TRUE, "", "p", FALSE)}
    \cup IF p \in PrunedDirs THEN {PrunedEntry(p, FALSE, "", "", FALSE)}
         ELSE {PrunedEntry(p, FALSE, "headers", "q", FALSE), PrunedEntry(p, FALSE, "headers", "p", TRUE)}
RepoEntries ==
    {PrunedEntry(RepoFile, FALSE, "repository", "", FALSE), PrunedEntry(RepoFile, FALSE, "repository", "p", FALSE), PrunedEntry(RepoFile, FALSE, "repository", "", TRUE)}
(* A directory ships when something in it ships (the scan retains parents).  *)
ParentsRetained(s) ==
    \A d, p \in DOMAIN s : s[p].retain /\ Len(p) > Len(d) /\ SubSeq(p, 1, Len(d)) = d => s[d].retain
MCScans ==
    LET trees == {s \in [HeaderTree -> UNION {PrunedEntries(p) : p \in HeaderTree}] :
                     ParentsRetained(s) /\ \A p \in HeaderTree : s[p] \in PrunedEntries(p)}
        with(s, r, b) == [p \in HeaderTree \cup {MCRepository, RepoFile} \cup (IF b THEN {Beside} ELSE {}) |->
            IF p \in HeaderTree THEN s[p] ELSE IF p = RepoFile THEN r
            ELSE IF p = Beside THEN PrunedEntry(p, FALSE, "docs", "p", FALSE)
            ELSE PrunedEntry(p, FALSE, "repository", "", FALSE)]
    IN  {with(s, r, b) : s \in trees, r \in RepoEntries, b \in BOOLEAN}

Prune == INSTANCE PruneEvidence
           WITH Repository <- MCRepository, Compactable <- {"headers", "docs"}, Identified <- {"p", "q"},
                Scans <- MCScans, pc <- walk

-----------------------------------------------------------------------------
(* 1 is var; var, var/2, var/2/3, var/3 and a path outside var.              *)
RulePaths == {<<1>>, <<1, 2>>, <<1, 2, 2>>, <<1, 3>>}
VarRule(p, pkg, w, r) == [path |-> p, package |-> pkg, writable |-> w, required |-> r,
                          text |-> [absolute |-> Head(p) # 1, names |-> p]]
VarRules == {VarRule(p, pkg, w, FALSE) : p \in RulePaths, pkg \in {"p", "q"}, w \in BOOLEAN}
         \cup {VarRule(<<1, 2>>, "p", FALSE, TRUE), VarRule(<<4, 2>>, "p", FALSE, FALSE), VarRule(<<1, 3>>, "absent", FALSE, FALSE)}
StartsWithVar(r) == r.path \in {<<1>>, <<1, 2>>} /\ r.package = "q"
MCRuleLists == {<<a>> : a \in VarRules} \cup {<<a, b>> : a, b \in VarRules}
               \cup {<<a, b, c>> : a \in {r \in VarRules : StartsWithVar(r)}, b \in {r \in VarRules : r.package = "p" /\ ~r.writable},
                                   c \in {r \in VarRules : r.path \in {<<1, 2, 2>>, <<1, 3>>} /\ ~r.writable}}

Norm == INSTANCE RuleNormalize
          WITH VarRoot <- 1, Packages <- {"p", "q"}, RuleLists <- MCRuleLists,
               Forms <- {"absolute", "bare", "dotted"}, Profile <- <<1, 2>>, MaxRules <- 3

-----------------------------------------------------------------------------
(* An assembly that has failed, an index nothing was asked of, and neither  *)
(* evidence nor rules.                                                      *)
AssemblyRests ==
    /\ tree = Base /\ ent = [p \in DOMAIN Base |-> NewEntry]
    /\ cand = <<>> /\ work = {} /\ seen = {} /\ used = {} /\ exports = {} /\ pc = "failed"
    /\ src = [p \in DOMAIN Base |-> "same"] /\ changes = 0 /\ stage = <<>> /\ staged = FALSE
    /\ output = "absent" /\ evidence = <<>> /\ written = {} /\ shown = <<>>
IndexRests ==
    /\ paths = <<>> /\ next = <<1>> /\ ranges = <<>> /\ root = <<>> /\ from = 1
    /\ given = {} /\ out = {} /\ calls = 0
PruneRests ==
    /\ scan = <<>> /\ v2 = FALSE /\ walk = "repository" /\ at = 1
    /\ subtrees = {} /\ compacted = {} /\ rows = {}
PolicyRests ==
    /\ rules = <<>> /\ profileRules = <<1, 2>> /\ recorded = Norm!PolicyDigest(<<>>, <<1, 2>>) /\ writable = {}

MCInit ==
    /\ part \in Parts
    /\ IF part = "index" THEN Index!Init ELSE IndexRests
    /\ IF part = "prune" THEN Prune!Init ELSE PruneRests
    /\ IF part = "rules" THEN Norm!Init ELSE PolicyRests
    /\ IF part \in {"profile", "publish", "execbits"} THEN Init ELSE AssemblyRests
    /\ part = "profile" => tree \in Scanned /\ output = "absent"
    /\ part = "publish" => tree \in Copied
    /\ part = "execbits" => output = "absent"

MCNext ==
    /\ \/ part \in {"profile", "publish", "execbits"} /\ Next /\ UNCHANGED <<index, prune, policy>>
          /\ (part = "publish" \/ changes' = 0)
       \/ part = "index" /\ Index!Next /\ UNCHANGED <<assembly, prune, policy>>
       \/ part = "prune" /\ Prune!Next /\ UNCHANGED <<assembly, index, policy>>
       \/ part = "rules" /\ Norm!Next /\ UNCHANGED <<assembly, index, prune>>
    /\ UNCHANGED part

-----------------------------------------------------------------------------
(* The plan of a scan is whole: what a link that must work depends on       *)
(* ships, to the end of its chain, so do the parents of everything that     *)
(* ships, and each file is booked to the package it came from.              *)
ShipsWhole == NeededLinksShip /\ ParentsShip /\ BookedToItsPackage

(* A published output is the whole plan, with the source as it was scanned, *)
(* and the evidence beside it is about that output.                         *)
PublishedSound == OutputIsWhole /\ EvidenceBound

(* A call to the descendant index gives exactly what is left of a           *)
(* directory.                                                               *)
GivesTheRest == Index!GivesTheRest

(* Everything left out of the image is accounted for once: rows and         *)
(* compacted trees partition the source, a compacted tree is uniform, the   *)
(* evidence is never refused, and in the index of descendants every chain   *)
(* leads to the next path that was not handed out.                          *)
PruneAccounts ==
    /\ Prune!PartitionsSource /\ Prune!CommitsWholeTrees /\ Prune!NeverRefused
    /\ Index!ChainsLeadOn

(* The rules a build recorded are the rules the verifier accepts, in        *)
(* whatever order and form they were written, and no path has two owners.   *)
RulesAgree == Norm!RecordedIsAccepted /\ Norm!OneOwner
==============================================================================
