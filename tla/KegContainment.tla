---------------------------- MODULE KegContainment ----------------------------
(***************************************************************************)
(* What one install may do to the prefix: classify decides it for every    *)
(* path the pour changed, reconcileInstalledKeg compares the new keg with  *)
(* the inventory of its verified bottle.  Both are operators over the      *)
(* snapshots before and after the pour.                                    *)
(***************************************************************************)
EXTENDS GeneratedTrees

GlobalRoots == {"bin", "sbin", "lib", "share", "include"}
LoaderLink == <<"lib", "ld.so">>
BrewedLoader == [abs |-> TRUE, parts |-> Prefix \o <<"opt", "glibc", "bin", "ld.so">>]

Top(p) == IF p = <<>> THEN "" ELSE p[1]
InGlobal(p) == Top(p) \in GlobalRoots
IsGlobalRoot(p) == InGlobal(p) /\ Len(p) = 1

(* isPackageManagerState *)
IsPackageState(p) ==
    \/ p = <<"share", "info", "dir">>
    \/ Within(p, <<"var", "homebrew">>)

IsBrewedLoaderMutation(n, after, p) ==
    /\ p = LoaderLink /\ "brewed-loader" \in n.rules
    /\ Has(after, p, "symlink") /\ after[p].link = BrewedLoader

-----------------------------------------------------------------------------
(* validateSharedDirectoryExpansion: a global link to another keg's         *)
(* directory became a directory that both kegs populate.                    *)

Expansions(before, after) ==
    {p \in ChangedPaths(before, after) :
        /\ InGlobal(p) /\ ~IsGlobalRoot(p)
        /\ Has(before, p, "symlink") /\ Has(after, p, "directory")}

(* The global paths under root that stood for the prior keg's paths. *)
PriorAt(before, root, priorRoot, g) == priorRoot \o Below(g, root)
PriorPaths(before, root, priorRoot) ==
    {root \o Below(c, priorRoot) : c \in {c \in DOMAIN before : Within(c, priorRoot) /\ c # priorRoot}}

(* Mutant: an expanded directory need not keep the prior keg's names. *)
PriorPreservedIfThere(n, before, after, root, priorRoot, g) ==
    g \in DOMAIN after => after[g].type \in {"directory", "symlink"}

PriorPreserved(n, before, after, root, priorRoot, g) ==
    LET c == PriorAt(before, root, priorRoot, g)
        mine == InKeg(n, g)
        want == Resolve(before, c)
    IN  /\ g \in DOMAIN after
        /\ IF before[c].type = "directory"
           THEN /\ SameDirectory(before, c, after, g)
                /\ mine \in DOMAIN after => SameDirectory(after, mine, after, g)
           ELSE /\ after[g].type = "symlink" /\ after[g].owner = after[root].owner
                /\ want.ok /\ ResolvesTo(after, g, want.path)
                /\ mine \notin DOMAIN after

AddedFromKeg(n, after, root, g) ==
    LET src == InKeg(n, g)
        want == Resolve(after, src)
    IN  /\ src \in DOMAIN after
        /\ \/ after[g].type = "directory" /\ SameDirectory(after, src, after, g)
           \/ /\ after[g].type = "symlink" /\ after[g].owner = after[root].owner
              /\ PointsAt(after, g, src)
              /\ want.ok /\ ResolvesTo(after, g, want.path)

ExpandedBelow(after, root) == {g \in DOMAIN after : Within(g, root) /\ g # root}

ExpansionOK(n, before, after, root) ==
    LET prior == Resolve(before, root)
        kept == PriorPaths(before, root, prior.path)
        added == ExpandedBelow(after, root) \ kept
    IN  /\ prior.ok
        /\ Len(prior.path) >= 4 /\ prior.path[1] = "Cellar" /\ ~Within(prior.path, Keg(n))
        /\ SameDirectory(before, prior.path, after, root)
        /\ SameDirectory(after, InKeg(n, root), after, root)
        /\ before[root].owner = after[root].owner
        /\ \A g \in kept : PriorPreserved(n, before, after, root, prior.path, g)
        /\ added # {}
        /\ \A g \in added : AddedFromKeg(n, after, root, g)

ExpandedPaths(before, after) ==
    UNION {{root} \cup ExpandedBelow(after, root) : root \in Expansions(before, after)}

-----------------------------------------------------------------------------
(* classify, one changed path at a time. *)

IsShared(p) == p = <<>> \/ InGlobal(p) \/ p = <<"Cellar">> \/ Top(p) \in {"etc", "var", "opt"}

(* Only a pre-existing shared path that a rule covers may change. *)
PreexistingOK(n, before, after, expanded, p) ==
    \/ p \notin DOMAIN before
    \/ p \in expanded
    \/ IsPackageState(p)
    \/ IsBrewedLoaderMutation(n, after, p)
    \/ p = LoadersCache /\ CacheMutationAllowed(n, before, after)
    \/ ~IsShared(p)

ClassOf(n, npm, p) ==
    CASE p \in {<<>>, <<"Cellar">>} -> "structure"
      [] p = Rack(n) \/ Within(p, Keg(n)) -> "current-keg"
      [] p = <<"opt">> -> "real-root"
      [] Top(p) = "opt" /\ Len(p) > 1 -> "opt"
      [] Top(p) = "Homebrew" \/ p = <<"bin", "brew">> -> "protected"
      [] p \in {<<"etc">>, <<"var">>} -> "real-root"
      [] Top(p) = "etc" /\ Len(p) > 1 -> "configuration"
      [] IsPackageState(p) -> "package-state"
      [] p \in npm /\ ~IsPackageState(p) -> "npm"
      [] Top(p) = "var" /\ Len(p) > 1 /\ ~IsPackageState(p) -> "runtime-state"
      [] IsGlobalRoot(p) /\ p \notin npm -> "real-root"
      [] InGlobal(p) /\ ~IsGlobalRoot(p) /\ p # <<"bin", "brew">> /\ ~IsPackageState(p) /\ p \notin npm -> "global"
      [] OTHER -> "unexpected"

OptNames(n) == {n.name} \cup n.aliases
OptLinkOK(n, after, p) == Has(after, p, "symlink") /\ ResolvesTo(after, p, Keg(n))

(* isCurrentKegBashCompletionLink, isCurrentGlibcLoaderConfigurationLink *)
CompletionLink(n, after, p, resolved) ==
    LET src == InKeg(n, p)
    IN  /\ Within(p, <<"etc", "bash_completion.d">>) /\ Len(p) > 2
        /\ PointsAt(after, p, src)
        /\ Has(after, src, "regular") \/ Has(after, src, "symlink")
        /\ ResolvesTo(after, src, resolved) /\ Within(resolved, Keg(n))

LoaderConfigurationLink(n, after, p, resolved) ==
    LET src == InKeg(n, p)
    IN  /\ n.name = "glibc" /\ p = <<"etc", "ld.so.conf">>
        /\ PointsAt(after, p, src) /\ resolved = src /\ Has(after, src, "regular")
        /\ \E e \in InventoryAt(n, p) : e.type = "regular" /\ e.mode = after[src].mode

ConfigurationOK(n, after, p) ==
    Has(after, p, "symlink") =>
        LET r == Resolve(after, p)
        IN  /\ r.ok
            /\ \/ Within(r.path, <<"etc">>)
               \/ CompletionLink(n, after, p, r.path)
               \/ LoaderConfigurationLink(n, after, p, r.path)

PackageStateOK(n, after, p) ==
    /\ Has(after, p, "symlink") => ResolvesWithin(after, p, Keg(n))
    /\ Has(after, p, "regular") => "x" \notin after[p].mode

GlobalRegularOK(n, after, cacheOK, mime, p) ==
    /\ Top(p) = "share" \/ (p = LoadersCache /\ cacheOK)
    /\ Within(p, MimeRoot) => p \in mime \/ MatchesBottle(n, after, p)
    /\ "x" \notin after[p].mode

GlobalLinkOK(n, before, after, expanded, p) ==
    LET r == Resolve(after, p)
    IN  /\ r.ok
        /\ \/ Within(r.path, Keg(n))
           \/ p \in expanded
           \/ NpmGlobalLink(n, after, p, r.path)
           \/ CertifiGlobalLink(n, after, p, r.path)

GlobalOK(n, before, after, expanded, cacheOK, mime, p) ==
    /\ Has(after, p, "regular") => GlobalRegularOK(n, after, cacheOK, mime, p)
    /\ Has(after, p, "symlink") => GlobalLinkOK(n, before, after, expanded, p)

PathOK(n, before, after, expanded, npm, cacheOK, mime, p) ==
    LET class == ClassOf(n, npm, p)
    IN  /\ PreexistingOK(n, before, after, expanded, p)
        /\ class \notin {"protected", "unexpected"}
        /\ class = "real-root" => Has(after, p, "directory")
        /\ class = "opt" => Len(p) = 2 /\ p[2] \in OptNames(n) /\ OptLinkOK(n, after, p)
        /\ class = "configuration" => ConfigurationOK(n, after, p)
        /\ class = "package-state" => PackageStateOK(n, after, p)
        /\ class = "runtime-state" => (Has(after, p, "symlink") => ResolvesWithin(after, p, <<"var">>))
        /\ class = "global" => GlobalOK(n, before, after, expanded, cacheOK, mime, p)

(* The whole of classify. *)
Contained(n, before, after) ==
    LET changes == ChangedPaths(before, after)
        expanded == ExpandedPaths(before, after)
        mimeChanged == ChangesUnder(before, after, MimeRoot)
        mime == IF mimeChanged THEN MimeOutputs(after) ELSE {}
        node == "generated-node-npm" \in n.rules
        npm == IF node THEN NpmGenerated(n, after) ELSE {}
        loaders == LoadersCache \in changes \/ ChangesUnder(before, after, LoadersDir)
    IN  /\ \A root \in Expansions(before, after) : ExpansionOK(n, before, after, root)
        /\ mimeChanged => "generated-shared-mime" \in n.rules /\ MimeDatabaseOK(n, before, after)
        /\ IF node THEN NpmRuntimeOK(n, before, after) ELSE ~ChangesUnder(before, after, NpmRoot)
        /\ loaders => LoaderCacheOK(n, before, after)
        /\ \A p \in changes : PathOK(n, before, after, expanded, npm, loaders, mime, p)
        /\ \A root \in {<<"etc">>, <<"var">>, <<"opt">>} : Has(after, root, "directory")
        /\ OptLinkOK(n, after, <<"opt", n.name>>)

-----------------------------------------------------------------------------
(* reconcileInstalledKeg. *)

Receipt == <<"INSTALL_RECEIPT.json">>

MayChange(n, e) ==
    \/ e.path \in n.changed
    \/ e.reloc /\ Top(e.path) # ".brew"
    \/ e.path \in {Receipt, <<"sbom.spdx.json">>}

(* allowsInstallerUmaskTightening, allowsPostInstallOwnerWrite *)
ModeOK(n, e, mode) ==
    \/ mode = e.mode
    \/ mode = e.mode \ {"gw"}
    \/ /\ e.type \in {"regular", "hardlink"}
       /\ "ow" \notin e.mode /\ mode = e.mode \cup {"ow"}
       /\ e.path \in n.changed \/ ("python-venv-template" \in n.rules /\ Within(e.path, <<"lib", "python", "venv", "scripts">>))

KegLinkOK(n, after, e) ==
    LET p == InKeg(n, e.path)
        r == Resolve(after, p)
        rewritten == after[p].link # e.link /\ NpmKegLink(n, after, e.path)
    IN  /\ after[p].link = e.link \/ (e.external = <<>> /\ (MayChange(n, e) \/ rewritten))
        /\ r.ok
        /\ IF e.external = <<>> THEN Within(r.path, Keg(n)) \/ rewritten
           ELSE ExternalTargetOK(n, after, e) /\ ResolvesTo(after, e.external, r.path)

EntryOK(n, after, e) ==
    LET p == InKeg(n, e.path)
    IN  /\ Has(after, p, IF e.type = "hardlink" THEN "regular" ELSE e.type)
        /\ e.type \in {"regular", "hardlink"} /\ ~MayChange(n, e) => after[p].digest = e.digest
        /\ e.type = "symlink" => KegLinkOK(n, after, e)
        /\ e.type # "symlink" => ModeOK(n, e, after[p].mode)

(* The paths that one regular entry and its hard links declare together. *)
HardlinkGroup(n, e) ==
    {InKeg(n, f.path) : f \in {f \in n.inventory : f.type \in {"regular", "hardlink"} /\ f.group = e.group}}

Sharing(n, after, p) ==
    {q \in DOMAIN after : after[q].type = "regular" /\ after[q].inode = after[p].inode}

(* Mutant: only the paths inside the keg are searched for aliases. *)
GroupInKeg(n, after, e) ==
    \A p \in HardlinkGroup(n, e) : \A q \in Sharing(n, after, p) :
        Within(q, Keg(n)) => q \in HardlinkGroup(n, e)

GroupOK(n, after, e) ==
    \A p \in HardlinkGroup(n, e) :
        /\ Sharing(n, after, p) \subseteq HardlinkGroup(n, e)
        /\ after[p].links = Cardinality(Sharing(n, after, p))
        /\ \A q \in HardlinkGroup(n, e) :
              [after[p] EXCEPT !.inode = 0, !.links = 0] = [after[q] EXCEPT !.inode = 0, !.links = 0]

AttributedOK(n, after, p) ==
    \/ \E e \in n.inventory : InKeg(n, e.path) = p
    \/ p \in LocalePaths(n, after)
    \/ /\ p = InKeg(n, Receipt)
       /\ after[p].type = "regular" /\ "gw" \notin after[p].mode /\ after[p].links = 1
    \/ after[p].type = "directory" /\ \E e \in n.inventory : Within(InKeg(n, e.path), p)

Reconciled(n, after) ==
    /\ LocaleOK(n, after)
    /\ \A e \in n.inventory : EntryOK(n, after, e)
    /\ \A e \in n.inventory : e.type \in {"regular", "hardlink"} => GroupOK(n, after, e)
    /\ \A p \in DOMAIN after : Within(p, Keg(n)) /\ p # Keg(n) => AttributedOK(n, after, p)

(* verifyInstalledPrefixCount: the Cellar holds the kegs of the formulae    *)
(* installed so far and nothing else, each with a receipt that verifies.    *)
ChildrenOf(snap, d) == {p \in DOMAIN snap : Len(p) = Len(d) + 1 /\ ParentOf(p) = d}
InstalledExactly(snap, installed) ==
    /\ ChildrenOf(snap, <<"Cellar">>) = {Rack(n) : n \in installed}
    /\ \A n \in installed :
          /\ Has(snap, Rack(n), "directory") /\ Has(snap, Keg(n), "directory")
          /\ ChildrenOf(snap, Rack(n)) = {Keg(n)}
          /\ Has(snap, InKeg(n, Receipt), "regular") /\ snap[InKeg(n, Receipt)].digest = "receipt"

(* validatePreinstallSymlinks *)
PreinstallOK(snap, baseLoader) ==
    /\ \A d \in GlobalRoots \cup {"etc", "var", "opt", "Cellar"} :
          <<d>> \in DOMAIN snap => snap[<<d>>].type = "directory"
    /\ \A p \in DOMAIN snap : snap[p].type = "symlink" =>
          IF p = LoaderLink
          THEN \/ snap[p].link = baseLoader
               \/ /\ snap[p].link = BrewedLoader
                  /\ \E n \in Closure : n.name = "glibc" /\ ResolvesTo(snap, p, InKeg(n, <<"bin", "ld.so">>))
          ELSE Resolve(snap, p).ok
=============================================================================
