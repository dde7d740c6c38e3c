----------------------------- MODULE MCInstaller -----------------------------
(***************************************************************************)
(* The installation of bottles on small instances: the prefix from pour to *)
(* pour, the path lookup and the loader cache reader its rules use, the    *)
(* receipt, and the steps of a V2 build.  They share no state, so each     *)
(* behaviour moves one of them while the others are at rest.               *)
(***************************************************************************)
EXTENDS PrefixInstall, InstallProofs, TLC

VARIABLES part,
          snap, query, loop,
          read, reading, dirSeen, count, block, blocks, outcome, text

prefix == vars
lookup == <<snap, query, loop>>
cache == <<read, reading, dirSeen, count, block, blocks, outcome>>
replacement == <<receipt, temp, seen, replacing, result, edits, compared>>
build == <<record, bottles, fetched, prepared, taps, cellar, deltas, building, faults>>

-----------------------------------------------------------------------------
(* Two formulae that share a directory, poured by a Homebrew that may make  *)
(* one arbitrary change per pour beside its own work.                       *)
MCPrefix == <<"p">>
NoLink == [abs |-> FALSE, parts |-> <<>>]

Dir(m) == [type |-> "directory", mode |-> m, digest |-> "", link |-> NoLink, inode |-> <<>>, links |-> 0, owner |-> "brew"]
File(d, m, i) == [type |-> "regular", mode |-> m, digest |-> d, link |-> NoLink, inode |-> i, links |-> 1, owner |-> "brew"]
Link(parts) == [type |-> "symlink", mode |-> {}, digest |-> "", link |-> [abs |-> FALSE, parts |-> parts], inode |-> <<>>, links |-> 1, owner |-> "brew"]
RootOwned(e) == [e EXCEPT !.owner = "root"]
D == Dir({"ow", "x"})

MCBaseLoader == [abs |-> TRUE, parts |-> <<"lib64", "ld.so">>]
MCBasePrefix ==
    [p \in {<<"Cellar">>, <<"opt">>, <<"etc">>, <<"var">>, <<"var", "homebrew">>, <<"bin">>, <<"lib">>, <<"share">>} |-> D]
        @@ [p \in {<<>>} |-> RootOwned(D)]
        @@ [p \in {<<"Homebrew">>, <<"Homebrew", "Formula">>, <<".dalec-homebrew">>} |-> RootOwned(Dir({"x"}))]
        @@ [p \in {<<"Homebrew", "brew">>} |-> RootOwned(File("brew", {"x"}, p))]
        @@ [p \in {<<".dalec-homebrew", "brew">>, <<"bin", "brew">>} |-> RootOwned(Link(<<"..", "Homebrew", "brew">>))]
        @@ [p \in {LoaderLink} |-> RootOwned([Link(<<>>) EXCEPT !.link = MCBaseLoader])]

Entry(p, t, m, d) == [path |-> p, type |-> t, mode |-> m, digest |-> d, reloc |-> FALSE, link |-> NoLink, external |-> <<>>, group |-> p]
DirEntry(p) == Entry(p, "directory", {"ow", "x"}, "")
Regular(p, m) == Entry(p, "regular", m, p[Len(p)])
Relocatable(p) == [Regular(p, {"ow"}) EXCEPT !.reloc = TRUE]
HardLink(p, to) == [Regular(to, {"ow"}) EXCEPT !.path = p, !.type = "hardlink"]
External(p, parts, target) == [Entry(p, "symlink", {}, "") EXCEPT !.link = [abs |-> FALSE, parts |-> parts], !.external = target]

(* The formula of a rewrites its tool, which its bottle holds read-only. *)
A == [name |-> "a", version |-> "1", deps |-> {}, rules |-> {}, aliases |-> {}, changed |-> {<<"bin", "ta">>},
      inventory |-> {DirEntry(<<"share">>), DirEntry(<<"share", "d">>), Regular(<<"share", "d", "fa">>, {"ow"}),
                     DirEntry(<<"bin">>), Regular(<<"bin", "ta">>, {"x"}),
                     Regular(<<"h1">>, {"ow", "gw"}), HardLink(<<"h2">>, <<"h1">>)}]
B == [name |-> "b", version |-> "2", deps |-> {"a"}, rules |-> {}, aliases |-> {"bb"}, changed |-> {},
      inventory |-> {DirEntry(<<"share">>), DirEntry(<<"share", "d">>), Regular(<<"share", "d", "fb">>, {"ow"}),
                     DirEntry(<<"libexec">>),
                     External(<<"libexec", "ta">>, <<"..", "..", "..", "..", "opt", "a", "bin", "ta">>, <<"opt", "a", "bin", "ta">>)}]

(* The keg as brew pours it: hard links are kept, the umask applied and     *)
(* relocatable files rewritten.                                             *)
Poured(n, e) ==
    CASE e.type = "directory" -> Dir(e.mode \ {"gw"})
      [] e.type = "symlink" -> [Link(<<>>) EXCEPT !.link = e.link]
      [] OTHER -> File(IF e.reloc THEN "relocated" ELSE e.digest, e.mode \ {"gw"}, InKeg(n, e.group))
KegOf(n) ==
    [p \in {Rack(n), Keg(n)} |-> D]
        @@ [p \in {InKeg(n, Receipt)} |-> File("raw-receipt", {"ow"}, p)]
        @@ [p \in {InKeg(n, e.path) : e \in n.inventory} |-> Poured(n, CHOOSE e \in n.inventory : p = InKeg(n, e.path))]

Up(p) == [i \in 1 .. Len(p) - 1 |-> ".."]
LinkTo(p, q) == Link(Up(p) \o q)
OptAndState(n) ==
    LET state == <<"var", "homebrew", n.name>>
        opt == <<"opt", n.name>>
    IN  [p \in {opt, state} |-> LinkTo(p, Keg(n))]
SharedDir == <<"share", "d">>
SharedDirOf(f, n) ==
    IF SharedDir \notin DOMAIN f THEN [p \in {SharedDir} |-> LinkTo(p, InKeg(n, p))]
    ELSE IF f[SharedDir].type # "symlink" THEN <<>>
    ELSE [p \in {SharedDir} |-> D]
           @@ [p \in {<<"share", "d", "fa">>} |-> LinkTo(p, InKeg(A, p))]
           @@ [p \in {<<"share", "d", "fb">>} |-> LinkTo(p, InKeg(B, p))]
BinOf(n) == [p \in {<<"bin", "ta">>} \cap {e.path : e \in n.inventory} |-> LinkTo(p, InKeg(n, p))]

Counted(f) ==
    [p \in DOMAIN f |->
        IF f[p].type = "regular"
        THEN [f[p] EXCEPT !.links = Cardinality({q \in DOMAIN f : f[q].type = "regular" /\ f[q].inode = f[p].inode})]
        ELSE f[p]]
Honest(f, n) == KegOf(n) @@ OptAndState(n) @@ SharedDirOf(f, n) @@ BinOf(n) @@ f

EditPaths ==
    {<<"bin", "ta">>, <<"bin", "x">>, <<"lib", "x">>, <<"share", "x">>, <<"share", "d", "fa">>, <<"share", "d", "x">>, SharedDir,
     <<"etc", "x">>, <<"var", "homebrew", "a">>, <<"var", "x">>, <<"opt", "a">>, <<"opt", "bb">>, <<"Cellar", "c">>,
     InKeg(A, <<"bin", "ta">>), InKeg(A, <<"h2">>), InKeg(A, <<"x">>), InKeg(B, <<"share", "d", "fb">>), InKeg(B, <<"share", "d", "fa">>), <<"Homebrew", "brew">>, <<"x">>}
EditEntries(p) ==
    {D, Dir({"ow", "gw", "x"}), File("new", {"ow"}, p), File("new", {"ow", "x"}, p),
     File("h1", {"ow"}, InKeg(A, <<"h1">>)), File("ta", {"x"}, InKeg(A, <<"bin", "ta">>)),
     LinkTo(p, InKeg(A, <<"bin", "ta">>)), LinkTo(p, InKeg(B, <<"share", "d", "fb">>)), LinkTo(p, <<"var", "homebrew", "a", "bin", "ta">>),
     LinkTo(p, Keg(B)), LinkTo(p, <<"etc">>), LinkTo(p, <<"share", "d", "fa">>)}

Valid(f) == \A p \in DOMAIN f : p # <<>> => Has(f, ParentOf(p), "directory")
Edited(f) ==
    {[q \in {p} |-> e] @@ f : <<p, e>> \in UNION {{p} \X EditEntries(p) : p \in EditPaths}}
        \cup {[q \in DOMAIN f \ {p} |-> f[q]] : p \in EditPaths}
SharedPour(f, n) == {Counted(g) : g \in {g \in {Honest(f, n)} \cup Edited(Honest(f, n)) : Valid(g)}}

-----------------------------------------------------------------------------
(* The generated trees, poured likewise. *)
Formula(name, rules, deps, inventory) ==
    [name |-> name, version |-> "1", deps |-> deps, rules |-> rules, aliases |-> {}, changed |-> {}, inventory |-> inventory]
Data(p) == Regular(p, {"ow"})
Tool(p) == Regular(p, {"x"})

Plain == Formula("plain", {}, {}, {DirEntry(<<"lib">>), Data(<<"lib", "so">>)})

(* Node: the npm tree is copied, npmrc written, bin/npm rewritten. *)
Node ==
    Formula("node", {"generated-node-npm"}, {},
        {DirEntry(p) : p \in {<<"bin">>, <<"libexec">>, NpmSource, NpmSource \o <<"bin">>}}
        \cup {Tool(NpmSource \o <<"bin", "npm">>), Relocatable(Append(NpmSource, "lib.js")),
              [Entry(<<"bin", "npm">>, "symlink", {}, "") EXCEPT !.link.parts = <<"..", "libexec", "npm", "bin", "npm">>]})
NpmTree(n) ==
    [p \in {NpmParent, NpmRoot, NpmRoot \o <<"bin">>} |-> D]
        @@ [p \in {Npmrc} |-> File("npmrc", {"ow"}, p)]
        @@ [p \in {NpmRoot \o <<"bin", "npm">>} |-> File("npm", {"x"}, p)]
        @@ [p \in {Append(NpmRoot, "lib.js")} |-> File("relocated", {"ow"}, p)]
        @@ [p \in {<<"bin", "npm">>} |-> LinkTo(p, InKeg(n, p))]
        @@ [p \in {InKeg(n, <<"bin", "npm">>)} |-> LinkTo(p, NpmRoot \o <<"bin", "npm">>)]

(* gdk-pixbuf and a plugin that adds a loader and rewrites the cache. *)
LoaderOf(name) == Append(LoadersDir, name)
MCBlocks == [c \in {"one", "two", "other"} |->
                CASE c = "one" -> [m \in {LoaderOf("png")} |-> "png"]
                  [] c = "two" -> [m \in {LoaderOf("png"), LoaderOf("svg")} |-> "block"]
                  [] OTHER -> [m \in {LoaderOf("png"), LoaderOf("svg")} |-> IF m = LoaderOf("png") THEN "png" ELSE "svg"]]
GdkDirs == {DirEntry(<<"lib">>), DirEntry(<<"lib", "gdk">>), DirEntry(LoadersDir)}
Nested == <<"alt">> \o LoaderOf("png")
Gdk ==
    Formula("gdk-pixbuf", {"owns-loader-cache"}, {},
        GdkDirs \cup {Data(<<"lib", "so">>), Relocatable(LoaderOf("png")), Data(Nested)}
          \cup {DirEntry(SubSeq(Nested, 1, i)) : i \in 1 .. 4})
Plugin == Formula("plugin", {"gdk-pixbuf-loader-cache"}, {"gdk-pixbuf"}, GdkDirs \cup {Data(<<"lib", "so">>), Data(LoaderOf("svg"))})
LoaderTree(n) ==
    LET own == {LoaderOf("png"), LoaderOf("svg")} \cap {e.path : e \in n.inventory}
    IN  [p \in {<<"lib", "gdk">>, LoadersDir} |-> D]
          @@ [p \in own |-> LinkTo(p, InKeg(n, p))]
          @@ [p \in {LoadersCache} |-> File(IF n = Gdk THEN "one" ELSE "other", {"ow"}, p)]

(* ca-certificates, certifi and the MIME database. *)
Ca == Formula("ca-certificates", {}, {}, {DirEntry(<<"share">>), Data(<<"share", "ca">>)})
Certifi ==
    Formula("certifi", {"certifi-shared-ca"}, {"ca-certificates"},
        {DirEntry(<<"lib">>), DirEntry(<<"lib", "python3">>),
         External(CertifiPath, Up(InKeg(Plain, CertifiPath)) \o SharedCA, SharedCA)})
Mime ==
    Formula("mime", {"generated-shared-mime"}, {},
        {DirEntry(<<"share">>), DirEntry(MimeRoot), DirEntry(ParentOf(MimeSource)), Data(MimeSource)})
CaTree == [p \in {ParentOf(SharedCA)} |-> D] @@ [p \in {SharedCA} |-> File("ca", {"ow"}, p)]
CertifiTree(n) == [p \in {<<"lib", "python3">>} |-> D] @@ [p \in {CertifiPath} |-> LinkTo(p, InKeg(n, p))]
MimeTree(n) ==
    [p \in {MimeRoot, ParentOf(MimeSource), Append(MimeRoot, "text")} |-> D]
        @@ [p \in {MimeSource} |-> LinkTo(p, InKeg(n, p))]
        @@ [p \in {Append(MimeRoot, "cache")} |-> File("cache", {"ow"}, p)]
        @@ [p \in {MimeRoot \o <<"text", "plain">>} |-> File("mime-xml", {"ow"}, p)]

(* glibc: locale data inside its keg and the runtime loader link. *)
Glibc ==
    Formula("glibc", {"generated-glibc-locale", "brewed-loader"}, {},
        {DirEntry(<<"lib">>), DirEntry(<<"bin">>), Tool(<<"bin", "ld.so">>)})
GlibcTree(n) ==
    [p \in {LocaleRoot(n)} |-> D]
        @@ [p \in {LocaleRoot(n) \o <<"archive">>} |-> File("locale", {"ow"}, p)]
        @@ [p \in {LoaderLink} |-> [Link(<<>>) EXCEPT !.link = BrewedLoader]]

TreeOf(n) ==
    CASE n.name = "node" -> NpmTree(n)
      [] n.name \in {"gdk-pixbuf", "plugin"} -> LoaderTree(n)
      [] n.name = "ca-certificates" -> CaTree
      [] n.name = "certifi" -> CertifiTree(n)
      [] n.name = "mime" -> MimeTree(n)
      [] n.name = "glibc" -> GlibcTree(n)
      [] OTHER -> <<>>

Grown(f, n) == TreeOf(n) @@ KegOf(n) @@ OptAndState(n) @@ f

(* One change per pour, near the generated trees. *)
ExtraPaths(n) ==
    CASE n.name \in {"node", "plain"} -> {NpmRoot \o <<"bin", "npx">>, Npmrc, Append(NpmRoot, "lib.js"), <<"bin", "npm">>, <<"lib", "so">>}
      [] n.name \in {"gdk-pixbuf", "plugin"} -> {LoaderOf("x"), LoaderOf("svg"), LoaderOf("png"), LoadersCache, LoadersDir, <<"lib", "gdk">>}
      [] OTHER -> {MimeRoot \o <<"text", "x">>, Append(MimeRoot, "x"), MimeSource, SharedCA}
TreePaths(n) == DOMAIN TreeOf(n) \cup ExtraPaths(n) \cup {InKeg(n, <<"lib", "x">>)}
TreeEntries(f, n, p) ==
    {D, Dir({"ow", "gw", "x"}), File("new", {"ow"}, p), File("new", {"ow", "x"}, p), File("one", {"ow"}, p), File("two", {"ow"}, p), File("mime-xml", {"ow", "gw"}, p)}
        \cup {LinkTo(p, q) : q \in {InKeg(n, <<"lib", "so">>), InKeg(Gdk, LoaderOf("png")), InKeg(Gdk, Nested), InKeg(Plugin, LoaderOf("svg")), NpmRoot \o <<"bin", "npm">>, SharedCA, Append(NpmRoot, "lib.js")}}
        \cup (IF Has(f, p, "regular") THEN {[f[p] EXCEPT !.mode = {"ow", "x"}], [f[p] EXCEPT !.digest = "new"]} ELSE {})
TreeEdits(f, n) ==
    {[q \in {p} |-> e] @@ f : <<p, e>> \in UNION {{p} \X TreeEntries(f, n, p) : p \in TreePaths(n)}}
        \cup {[q \in DOMAIN f \ {p} |-> f[q]] : p \in TreePaths(n)}
TreePour(f, n) == {Counted(g) : g \in {g \in {Grown(f, n)} \cup TreeEdits(Grown(f, n), n) : Valid(g)}}

MCOrders == {<<A, B>>, <<Node, Plain>>, <<Gdk, Plugin>>, <<Ca, Certifi, Mime>>, <<Glibc, Plain>>}
MCPour(f, n) == IF n.name \in {"a", "b"} THEN SharedPour(f, n) ELSE TreePour(f, n)

-----------------------------------------------------------------------------
MCTargets ==
    [abs : {FALSE}, parts : {<<"a">>, <<"b">>, <<"..">>, <<"b", "">>, <<"a", "b">>, <<"..", "b">>, <<"a", "..", "b">>, <<"b", ".">>, <<"..", "..", "a">>}]
        \cup [abs : {TRUE}, parts : {<<"p">>, <<"p", "b">>, <<"p", "", "a", "b">>, <<"p", "b", "">>, <<"q", "b">>, <<"p", "..", "p", "a">>}]

Path == INSTANCE SnapshotLookup
          WITH Prefix <- MCPrefix, MaxLinks <- 3, Names <- {"a", "b"}, Targets <- MCTargets

Cache == INSTANCE LoaderCache
           WITH Modules <- {"png", "svg", "gif"}, MaxModules <- 2, MaxLines <- 12, phase <- reading

-----------------------------------------------------------------------------
(* A core bottle whose static checks are deferred, an HTTPS bottle of       *)
(* another tap and a bottle derived in the build, in this order; the        *)
(* resolution may say something of them that is not so.                     *)
BottleContent(name, source, hasReceipt, standalone, payload) ==
    [name |-> name, version |-> "1", source |-> source, receipt |-> hasReceipt, standalone |-> standalone,
     payload |-> payload, inventory |-> source, size |-> 1, summary |-> 1, delta |-> 1]
MCContent ==
    "da" :> BottleContent("a", "sa", TRUE, TRUE, "none") @@ "da2" :> BottleContent("a", "sa2", TRUE, TRUE, "none")
      @@ "db" :> BottleContent("b", "sb", FALSE, TRUE, "none") @@ "dc" :> BottleContent("c", "sc", FALSE, TRUE, "pc")
      @@ "dx" :> BottleContent("b", "sx", TRUE, FALSE, "none")
      @@ "dl" :> [BottleContent("b", "sb", FALSE, TRUE, "none") EXCEPT !.delta = 4]
      @@ "dm" :> [BottleContent("b", "sb", FALSE, TRUE, "none") EXCEPT !.delta = 5]
      @@ "ds" :> [BottleContent("b", "sb", FALSE, TRUE, "none") EXCEPT !.summary = 3]

\* The runtime assembly refuses one of the core bottles.
MCAssembles(c) == \A r \in DOMAIN c : c[r] # "da2"

V2Node(id, tap, transport, digest, source) ==
    [id |-> id, name |-> id, tap |-> tap, transport |-> transport, file |-> id, digest |-> digest,
     version |-> "1", source |-> source, inventory |-> source, deferred |-> FALSE, receiptless |-> FALSE,
     derived |-> FALSE, authorized |-> FALSE, payload |-> "none", deps |-> {}]
CoreNode == [V2Node("a", "core", "oci", "da", "unknown") EXCEPT !.deferred = TRUE]
HttpsNode == [V2Node("b", "other", "https", "db", "sb") EXCEPT !.receiptless = TRUE, !.deps = {"a"}]
DerivedNode == [V2Node("c", "other", "local", "dc", "sc") EXCEPT !.receiptless = TRUE, !.derived = TRUE,
         !.authorized = TRUE, !.payload = "pc", !.deps = {"a", "b"}]
V2Record(nodes) == [nodes |-> nodes, order |-> <<"a", "b", "c">>, bound |-> TRUE, refs |-> TRUE]
MCRecords ==
    {V2Record({CoreNode, HttpsNode, DerivedNode}), [V2Record({CoreNode, HttpsNode, DerivedNode}) EXCEPT !.bound = FALSE], [V2Record({CoreNode, HttpsNode, DerivedNode}) EXCEPT !.refs = FALSE],
     V2Record({CoreNode, [HttpsNode EXCEPT !.source = "sa"], DerivedNode}), V2Record({CoreNode, [HttpsNode EXCEPT !.receiptless = FALSE], DerivedNode}),
     V2Record({CoreNode, [HttpsNode EXCEPT !.digest = "dx", !.source = "sx"], DerivedNode}), V2Record({CoreNode, HttpsNode, [DerivedNode EXCEPT !.authorized = FALSE]}),
     V2Record({CoreNode, HttpsNode, [DerivedNode EXCEPT !.payload = "px"]}), V2Record({CoreNode, HttpsNode, [DerivedNode EXCEPT !.file = "a"]}),
     V2Record({CoreNode, HttpsNode, [DerivedNode EXCEPT !.name = "b"]}), V2Record({[CoreNode EXCEPT !.deferred = FALSE], HttpsNode, DerivedNode}),
     V2Record({[CoreNode EXCEPT !.digest = "da2"], HttpsNode, DerivedNode})}
      \cup {V2Record({CoreNode, [HttpsNode EXCEPT !.digest = d], DerivedNode}) : d \in {"dl", "dm", "ds"}}

(* What the theorems about the build assume of these resolutions. *)
ASSUME RecordsSound == V!RecordsValid

-----------------------------------------------------------------------------
(* An install that has failed, a lookup and a cache that were refused, a    *)
(* receipt that needed no change and a build that failed.                   *)
PrefixRests ==
    order = <<>> /\ fs = MCBasePrefix /\ before = <<>> /\ index = 0 /\ phase = "failed"
LookupRests == snap = <<>> /\ query = <<"a">> /\ loop = [Path!Lookup(<<"a">>) EXCEPT !.outcome = "error"]
CacheRests ==
    /\ read = <<>> /\ reading = "header" /\ dirSeen = FALSE /\ count = 0 /\ block = <<>> /\ blocks = <<>>
    /\ outcome = "error"
ReceiptRests ==
    /\ receipt = [inode |-> 0, content |-> "complete", links |-> 1] /\ temp = "none"
    /\ seen = [inode |-> 0, content |-> "none"] /\ replacing = "done" /\ result = "unchanged"
    /\ edits = 0 /\ compared = "none"
BuildRests ==
    /\ record = V2Record({}) /\ bottles = <<>> /\ fetched = <<>> /\ prepared = V!NoPrep
    /\ taps = <<>> /\ cellar = <<>> /\ deltas = <<>> /\ building = "failed" /\ faults = 2

MCInit ==
    /\ part \in {"prefix", "lookup", "cache", "fields", "receipt", "build"}
    /\ text = <<>>
    /\ IF part = "cache" THEN Cache!Init ELSE CacheRests
    /\ IF part = "receipt" THEN R!Init ELSE ReceiptRests
    /\ IF part = "build" THEN V!Init ELSE BuildRests
    /\ IF part = "prefix" THEN Init ELSE PrefixRests
    /\ IF part = "lookup" THEN Path!Init ELSE LookupRests

MCNext ==
    /\ \/ part = "prefix" /\ Next /\ UNCHANGED <<lookup, cache, text, replacement, build>>
       \/ part = "lookup" /\ Path!Next /\ UNCHANGED <<prefix, cache, text, replacement, build>>
       \/ part = "cache" /\ Cache!Next /\ UNCHANGED <<prefix, lookup, text, replacement, build>>
       \/ /\ part = "fields" /\ Len(text) < 7
          /\ \E c \in {" ", "q", "b", "a"} : text' = Append(text, c)
          /\ UNCHANGED <<prefix, lookup, cache, replacement, build>>
       \/ part = "receipt" /\ R!Next /\ UNCHANGED <<prefix, lookup, cache, text, build>>
       \/ part = "build" /\ V!Next /\ UNCHANGED <<prefix, lookup, cache, text, replacement>>
    /\ UNCHANGED part

-----------------------------------------------------------------------------
(* Whatever a pour changed, what reconciliation accepts keeps every keg     *)
(* poured so far as its bottle declares it, aliases no file of another      *)
(* package, and adds to the shared prefix only links of the package and     *)
(* nothing that can be executed.                                            *)
PrefixSound == KegsHold /\ NoForeignAlias /\ GlobalLinksOwned /\ NoStrayExecutable

(* The trees that post-install steps generate are accepted only when they   *)
(* follow from the kegs, whose files the bottles declare and relocation may *)
(* rewrite: npm, the pixbuf loaders, certificates and the MIME database.    *)
GeneratedSound == NpmFromBottle /\ LoadersFromBottles /\ SharedDataSound

(* resolveSnapshotPath finds what a file system would, and what it finds is *)
(* no link.                                                                 *)
LookupSound == Path!AgreesWithFileSystem /\ Path!ResolvedIsFinal

(* The reader of the loader cache accepts its grammar and nothing else, and *)
(* the blocks and fields it compares hold every line it read.               *)
LoaderCacheRead ==
    /\ part = "cache" => Cache!AcceptsTheGrammar
    /\ Cache!BlocksKeepEveryLine
    /\ Cache!FieldsAreTheLine(text)

(* What the steps keep: the names earlier formulae rely on keep their       *)
(* meaning across a pour, a lookup gets shorter or uses up its links, the   *)
(* normalised receipt replaces the one that was compared, and a keg is      *)
(* poured from its own bottle after its dependencies.                       *)
InstallKeeps ==
    /\ NamesKeepMeaning
    /\ Path!LookupShrinks
    /\ R!EditsNotOverwritten
    /\ V!PouredFromItsBottle
==============================================================================
