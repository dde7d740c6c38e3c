---------------------------- MODULE GeneratedTrees ----------------------------
(***************************************************************************)
(* The generated trees an install may leave outside its keg: Node's copy   *)
(* of npm, the shared MIME database, the gdk-pixbuf loader cache, certifi's *)
(* link to the shared CA file and glibc's locale data.  Each rule is the   *)
(* operator form of one validate... function of install.go and holds of a  *)
(* snapshot, or of the snapshots before and after the pour.                *)
(*                                                                         *)
(* A snapshot entry is a record                                            *)
(*   [type, mode, digest, link, inode, links, owner]                       *)
(* whose mode is the set of the permission bits the rules look at: "ow"    *)
(* owner write, "gw" group or other write, "x" execute, "sticky".  The     *)
(* digest of a regular file stands for its content.  A formula n of the    *)
(* resolved closure is a record with its name, version, direct             *)
(* dependencies, policy rules and the inventory of its verified bottle.    *)
(***************************************************************************)
EXTENDS SnapshotPath, FiniteSets

CONSTANTS
    RuntimeOwner,   \* owner of the prefix at run time
    MimeFixed,      \* names of the fixed outputs of update-mime-database
    MimeTypes,      \* its per-type directories
    LoaderNames,    \* the file names isGdkPixbufLoaderBasename accepts
    CacheBlocks     \* the blocks each well-formed loader cache registers

VARIABLE order      \* the formulae of the resolution record, dependencies first

Closure == {order[i] : i \in DOMAIN order}

NpmSource == <<"libexec", "npm">>
NpmParent == <<"lib", "node_modules">>
NpmRoot == <<"lib", "node_modules", "npm">>
Npmrc == Append(NpmRoot, "npmrc")
MimeRoot == <<"share", "mime">>
MimeSource == <<"share", "mime", "packages", "source.xml">>
LoadersDir == <<"lib", "gdk", "loaders">>
LoadersCache == <<"lib", "gdk", "loaders.cache">>
SharedCA == <<"etc", "ca-certificates", "cert.pem">>
CertifiPath == <<"lib", "python3", "cacert.pem">>

Rack(n) == <<"Cellar", n.name>>
Keg(n) == <<"Cellar", n.name, n.version>>
InKeg(n, p) == Keg(n) \o p
Below(p, root) == SubSeq(p, Len(root) + 1, Len(p))
ClosureKegs == {Keg(n) : n \in Closure}
Has(snap, p, type) == IF p \in DOMAIN snap THEN snap[p].type = type ELSE FALSE
ChangedPaths(before, after) ==
    {p \in DOMAIN before \cup DOMAIN after :
        \/ p \notin DOMAIN before \/ p \notin DOMAIN after
        \/ [before[p] EXCEPT !.links = IF before[p].type = "directory" THEN 0 ELSE @]
             # [after[p] EXCEPT !.links = IF after[p].type = "directory" THEN 0 ELSE @]}
ChangesUnder(before, after, root) == \E p \in ChangedPaths(before, after) : Within(p, root)

SameDirectory(snapA, p, snapB, q) ==
    /\ Has(snapA, p, "directory") /\ Has(snapB, q, "directory")
    /\ snapA[p].mode = snapB[q].mode /\ snapA[p].owner = snapB[q].owner

InventoryAt(n, p) == {e \in n.inventory : e.path = p}

(* A protected ordinary data file of the runtime user. *)
PlainData(e) ==
    /\ e.type = "regular" /\ e.links = 1 /\ e.owner = RuntimeOwner
    /\ e.mode \cap {"x", "gw", "sticky"} = {}

-----------------------------------------------------------------------------
(* validateNodeNPMRuntime: lib/node_modules/npm is an exact copy of the     *)
(* keg's npm tree but for the npmrc it adds or replaces.                    *)

(* Mutant: the content of a copied file is not compared. *)
NpmCopiedByName(after, root, src, dst) ==
    after[src].type = after[dst].type /\ after[src].mode = after[dst].mode

NpmCopied(after, root, src, dst) ==
    LET s == after[src]
        d == after[dst]
        rs == Resolve(after, src)
        rd == Resolve(after, dst)
    IN  /\ s.type = d.type /\ s.mode = d.mode /\ s.owner = d.owner
        /\ s.type = "regular" => s.digest = d.digest /\ s.links = 1 /\ d.links = 1
        /\ s.type = "symlink" =>
              /\ s.link = d.link
              /\ rs.ok /\ Within(rs.path, root) /\ rd.ok /\ Within(rd.path, NpmRoot)
              /\ Below(rs.path, root) = Below(rd.path, NpmRoot)

NpmCopies(n, after) ==
    {NpmRoot \o Below(p, InKeg(n, NpmSource)) : p \in {p \in DOMAIN after : Within(p, InKeg(n, NpmSource))}}

NpmRuntimeOK(n, before, after) ==
    LET root == InKeg(n, NpmSource)
        copies == NpmCopies(n, after)
    IN  /\ \A p \in DOMAIN before : ~Within(p, NpmRoot)
        /\ SameDirectory(after, root, after, NpmParent)
        /\ SameDirectory(after, root, after, NpmRoot)
        /\ Cardinality(copies) > 1
        /\ copies \subseteq DOMAIN after
        /\ \A q \in copies \ {Npmrc} : NpmCopied(after, root, root \o Below(q, NpmRoot), q)
        /\ Npmrc \in DOMAIN after
        /\ PlainData(after[Npmrc]) /\ "ow" \in after[Npmrc].mode /\ after[Npmrc].digest = "npmrc"
        /\ {p \in DOMAIN after : Within(p, NpmRoot)} = copies \cup {Npmrc}

NpmGenerated(n, after) == NpmCopies(n, after) \cup {NpmParent, Npmrc}

NpmCommands == {<<"bin", "npm">>, <<"bin", "npx">>}
NpmCommandTarget(p) == NpmRoot \o <<"bin", p[2]>>
IsManPage(p) == Len(p) = 4 /\ p[1] = "share" /\ p[2] = "man" /\ p[3] \in {"man1", "man5", "man7"}

(* isNodeNPMGlobalLink: bin/npm and bin/npx go through the keg's own links, *)
(* manual pages straight to the copy.                                       *)
NpmGlobalLink(n, after, p, resolved) ==
    LET target == IF p \in NpmCommands THEN NpmCommandTarget(p) ELSE NpmRoot \o <<"man", p[3], p[4]>>
        direct == IF p \in NpmCommands THEN InKeg(n, p) ELSE target
    IN  /\ "generated-node-npm" \in n.rules
        /\ p \in NpmCommands \/ IsManPage(p)
        /\ PointsAt(after, p, direct) /\ resolved = target
        /\ p \in NpmCommands => ResolvesTo(after, direct, target)
        /\ target \in NpmGenerated(n, after) /\ Has(after, target, "regular")
        /\ ("x" \in after[target].mode) = (p \in NpmCommands)

(* isValidatedNodeNPMKegLink: the keg's bin/npm may be rewritten to the     *)
(* verified copy.                                                           *)
NpmKegLink(n, after, p) ==
    LET target == NpmCommandTarget(p)
        src == NpmSource \o <<"bin", p[2]>>
        g == after[target]
        s == after[InKeg(n, src)]
    IN  /\ "generated-node-npm" \in n.rules /\ p \in NpmCommands
        /\ PointsAt(after, InKeg(n, p), target) /\ ResolvesTo(after, InKeg(n, p), target)
        /\ Has(after, target, "regular") /\ "x" \in g.mode /\ g.links = 1
        /\ \E e \in InventoryAt(n, src) : e.type = "regular" /\ e.digest = g.digest /\ e.mode = g.mode
        /\ Has(after, InKeg(n, src), "regular")
        /\ s.digest = g.digest /\ s.mode = g.mode /\ s.owner = g.owner

-----------------------------------------------------------------------------
(* validateSharedMimeInfoDatabase. *)

(* globalPathMatchesVerifiedBottle: the path, link or copy, has the bytes   *)
(* and the mode its keg's verified file still has.                          *)
MatchesBottle(n, after, p) ==
    LET src == InKeg(n, p)
    IN  /\ Has(after, src, "regular")
        /\ \E e \in InventoryAt(n, p) :
              e.type = "regular" /\ e.digest = after[src].digest /\ e.mode = after[src].mode
        /\ \/ Has(after, p, "symlink") /\ ResolvesTo(after, p, src)
           \/ Has(after, p, "regular") /\ after[p].digest = after[src].digest /\ after[p].mode = after[src].mode

MimeDirectoryOK(e) ==
    e.type = "directory" /\ e.mode \cap {"gw", "sticky"} = {} /\ e.owner = RuntimeOwner

(* isSharedMimeGeneratedFilePath and validateGeneratedSharedMimeXML: a      *)
(* fixed output, or a well-formed XML file of a known type.                 *)
MimeOutputPath(p) ==
    \/ Len(p) = 3 /\ p[3] \in MimeFixed
    \/ Len(p) = 4 /\ p[3] \in MimeTypes

MimeOutputs(after) ==
    {p \in DOMAIN after : Within(p, MimeRoot) /\ after[p].type # "directory" /\ p # MimeSource}

MimeDatabaseOK(n, before, after) ==
    /\ MimeRoot \notin DOMAIN before
    /\ Has(after, MimeRoot, "directory")
    /\ MatchesBottle(n, after, MimeSource)
    /\ \A p \in DOMAIN after : Within(p, MimeRoot) /\ after[p].type = "directory" => MimeDirectoryOK(after[p])
    /\ \A p \in MimeOutputs(after) :
          /\ after[p].type = "regular" /\ MimeOutputPath(p)
          /\ PlainData(after[p])
          /\ Len(p) = 4 => after[p].digest = "mime-xml"
    /\ \A f \in MimeFixed : Append(MimeRoot, f) \in MimeOutputs(after)
    /\ \A t \in MimeTypes : \E p \in MimeOutputs(after) : Len(p) = 4 /\ p[3] = t

-----------------------------------------------------------------------------
(* validateGdkPixbufLoadersCache.  CacheBlocks gives for the digest of each *)
(* cache LoaderCache accepts a function from the loader modules it          *)
(* registers to their blocks; any other digest is a malformed cache.        *)

IsLoaderPath(p) == Len(p) = 4 /\ ParentOf(p) = LoadersDir /\ p[4] \in LoaderNames
EndsWith(p, suffix) == Len(p) >= Len(suffix) /\ SubSeq(p, Len(p) - Len(suffix) + 1, Len(p)) = suffix

(* installedGlobalGdkPixbufLoaders *)
LoaderLinks(snap) == {p \in DOMAIN snap : IsLoaderPath(p) /\ snap[p].type = "symlink"}

(* validateGdkPixbufLoaderModule: the link leads to a loader directory      *)
(* somewhere inside a keg of the closure.                                   *)
LoaderModuleOK(snap, p) ==
    LET r == Resolve(snap, p)
    IN  /\ Has(snap, p, "symlink") /\ IsLoaderPath(p)
        /\ r.ok
        /\ \E k \in ClosureKegs : Within(r.path, k)
        /\ EndsWith(r.path, p)
        /\ Has(snap, r.path, "regular") /\ snap[r.path].mode \cap {"gw", "sticky"} = {}

LoaderTargets(snap) == [p \in LoaderLinks(snap) |-> Resolve(snap, p).path]
LoadersOK(snap) == \A p \in LoaderLinks(snap) : LoaderModuleOK(snap, p)

BlocksOf(snap) == CacheBlocks[snap[LoadersCache].digest]

(* The module set of a well-formed cache, or an empty one. *)
Registered(snap) ==
    IF snap[LoadersCache].digest \in DOMAIN CacheBlocks THEN DOMAIN BlocksOf(snap) ELSE {}

CacheContentOK(snap) ==
    /\ Has(snap, LoadersDir, "directory")
    /\ Registered(snap) # {}
    /\ \A m \in Registered(snap) : LoaderModuleOK(snap, m)

(* verifiedGdkPixbufLoaders *)
ContributedLoaders(n) == {e.path : e \in {e \in n.inventory : e.type = "regular" /\ IsLoaderPath(e.path)}}

(* isControlledGdkPixbufLoadersCacheMutation *)
CacheMutationAllowed(n, before, after) ==
    IF "owns-loader-cache" \in n.rules
    THEN LoadersCache \notin DOMAIN before
    ELSE /\ LoadersCache \in DOMAIN before /\ LoadersCache \in DOMAIN after
         /\ "gdk-pixbuf-loader-cache" \in n.rules /\ "gdk-pixbuf" \in n.deps
         /\ ContributedLoaders(n) # {}

LoaderCacheOK(n, before, after) ==
    LET created == LoadersCache \notin DOMAIN before
        new == LoaderLinks(after) \ LoaderLinks(before)
    IN  /\ LoadersCache \in ChangedPaths(before, after)
        /\ Has(after, LoadersCache, "regular")
        /\ CacheMutationAllowed(n, before, after)
        /\ ~created => PlainData(before[LoadersCache])
        /\ PlainData(after[LoadersCache])
        /\ CacheContentOK(after)
        /\ LoadersOK(after) /\ Registered(after) = LoaderLinks(after)
        /\ LoadersOK(before)
        /\ LoaderLinks(before) \subseteq LoaderLinks(after)
        /\ \A p \in LoaderLinks(before) : LoaderTargets(after)[p] = LoaderTargets(before)[p]
        /\ created => LoaderLinks(before) = {}
        /\ ~created =>
              /\ CacheContentOK(before)
              /\ \A m \in Registered(before) :
                    /\ m \in Registered(after)
                    /\ BlocksOf(after)[m] = BlocksOf(before)[m]
              /\ new # {}
              /\ \A p \in new : \E q \in ContributedLoaders(n) : LoaderTargets(after)[p] = InKeg(n, q)

-----------------------------------------------------------------------------
(* validateExternalBottleSymlinkTarget: where a keg link that leaves the    *)
(* keg may lead.                                                            *)

SharedCAOK(n, snap) ==
    /\ "certifi-shared-ca" \in n.rules /\ "ca-certificates" \in n.deps
    /\ \E d \in Closure : d.name = "ca-certificates"
    /\ SharedCA \in DOMAIN snap /\ PlainData(snap[SharedCA])
    /\ ResolvesTo(snap, SharedCA, SharedCA)

ExternalTargetOK(n, snap, e) ==
    IF e.external = SharedCA
    THEN e.path = CertifiPath /\ SharedCAOK(n, snap)
    ELSE /\ e.path[1] = "libexec"
         /\ e.external[1] = "opt" /\ e.external[2] \in n.deps
         /\ \E d \in Closure : d.name = e.external[2] /\ ResolvesWithin(snap, e.external, Keg(d))

ExternalTargetsOK(n, snap) == \A e \in n.inventory : e.external # <<>> => ExternalTargetOK(n, snap, e)

(* isCurrentCertifiSharedCAGlobalLink *)
CertifiGlobalLink(n, after, p, resolved) ==
    \E e \in InventoryAt(n, p) :
        /\ p = CertifiPath
        /\ e.type = "symlink" /\ e.external = SharedCA
        /\ PointsAt(after, p, InKeg(n, p))
        /\ Has(after, InKeg(n, p), "symlink") /\ after[InKeg(n, p)].link = e.link
        /\ ExternalTargetOK(n, after, e) /\ resolved = SharedCA
        /\ ResolvesTo(after, InKeg(n, p), SharedCA)

(* allowedPostInstallKegPaths: glibc's generated locale data. *)
LocaleRoot(n) == InKeg(n, <<"lib", "locale">>)

LocalePaths(n, after) ==
    IF "generated-glibc-locale" \in n.rules /\ LocaleRoot(n) \in DOMAIN after
    THEN {p \in DOMAIN after : Within(p, LocaleRoot(n))} ELSE {}

LocaleOK(n, after) ==
    \A p \in LocalePaths(n, after) :
        /\ Has(after, LocaleRoot(n), "directory")
        /\ after[p].type \in {"directory", "regular"}
        /\ after[p].mode \cap {"gw", "sticky"} = {}
        /\ after[p].type = "regular" => "x" \notin after[p].mode /\ after[p].links = 1
=============================================================================
