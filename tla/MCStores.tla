------------------------------ MODULE MCStores ------------------------------
(***************************************************************************)
(* What is fetched, verified and kept, on small instances: the artifact    *)
(* store (S), the fetcher's output files (F), bottles over HTTPS (H), the  *)
(* registry's tokens (A) and descriptors (D), the signed metadata (M) and  *)
(* the frontend's build (B).  They share no state, so each behaviour moves *)
(* one of them while the others are at rest.                               *)
(***************************************************************************)
EXTENDS StoreProofs, IngestProofs, TLC

CONSTANTS c1, c2, c3    \* concurrent calls

VARIABLES part, world, spec, v2, phase, work

-----------------------------------------------------------------------------
(* ArtifactStore: sources that have their digest and size, or lack one. *)
Wanted(digest, size, source) == [digest |-> digest, size |-> size, source |-> source]

MCPuts == {Wanted(<<1>>, 1, <<1>>), Wanted(<<1>>, 2, <<1, 2>>), Wanted(<<1>>, 1, <<1, 2>>),
           Wanted(<<1, 2>>, 2, <<1, 2>>), Wanted(<<1, 2>>, 2, <<1>>)}

-----------------------------------------------------------------------------
(* BottleFetch: a bottle, its bundle, and three more places on two hosts. *)
Url(host, path, form) == [host |-> host, path |-> path, form |-> form]
BottleURL == Url("tap", "bottle", "ok")
BundleURL == Url("tap", "bundle", "ok")
One == Url("cdn", "one", "ok")
Two == Url("tap", "two", "ok")
Three == Url("cdn", "three", "ok")
Long == Url("cdn", "long", "long")
Bad == Url("cdn", "bad", "bad")
Nowhere == Url("cdn", "none", "none")
Unnamed == Url("cdn", "dir", "unnamed")

Status(n) == [status |-> n, to |-> Nowhere, encoding |-> "identity", length |-> 0,
              body |-> <<>>]
To(url) == [Status(302) EXCEPT !.to = url]
Body(bytes, length) == [Status(200) EXCEPT !.body = bytes, !.length = length]
Wrapped == [Body(<<1, 2>>, 2) EXCEPT !.encoding = "gzip"]

Pages ==
  BottleURL :> {To(One), Body(<<1, 2>>, 2), Body(<<1, 2>>, -1), To(Long), To(Nowhere),
                To(Bad), To(Unnamed), Wrapped}
    @@ One :> {To(Two), To(BottleURL), Body(<<1, 2>>, 2), Body(<<1>>, 2)}
    @@ Two :> {Body(<<1, 2>>, 2), Body(<<1, 3>>, 2), To(One), To(Three)}
    @@ Three :> {Body(<<1, 2>>, 2)}
    @@ Long :> {Body(<<1, 2>>, 2)}
    @@ Unnamed :> {Body(<<1, 2>>, 2)}
    @@ BundleURL :> {Body(<<7>>, 1), Body(<<8>>, 1), Status(404), Status(500),
                     Body(<<1, 2>>, 2), To(One)}

FirstWebs ==
  {BottleURL :> b @@ One :> o @@ Two :> t @@ BundleURL :> s
     @@ Three :> Body(<<1, 2>>, 2) @@ Long :> Body(<<1, 2>>, 2)
     @@ Unnamed :> Body(<<1, 2>>, 2) :
     b \in Pages[BottleURL], o \in Pages[One], t \in Pages[Two], s \in Pages[BundleURL]}

MCAnswers == [tap |-> {{"p"}}, cdn |-> {{"p"}, {"p", "q"}, {"l"}, {"p", "l"}}]
MCDeclared == <<1, 2>>
MCGenuine == <<7>>

-----------------------------------------------------------------------------
(* RegistryAuth: two repositories, one of which moves to the other's scope. *)
MCRepoOf == c1 :> "r" @@ c2 :> "r" @@ c3 :> "q"
MCFirstScope == [r |-> "s1", q |-> "s2"]
MCMoves == {<<"q", "s1">>, <<"r", None>>}

-----------------------------------------------------------------------------
(* DescriptorChain: indexes that differ from a good one in one thing each. *)
Bundle(subject, repository, branch) ==
  [subject |-> subject, repository |-> repository, branch |-> branch, digest |-> "good"]
Annotation(url, digest) == [url |-> url, digest |-> digest]
Labels(c) == [exact |-> TRUE, commit |-> c]
Layer(t, sum) == [sound |-> TRUE, sum |-> sum, title |-> t]
Tab(t) == [arch |-> IF t = "all" THEN None ELSE t, deps |-> {"d"}]
Manifest(c, t, sum, b) ==
  [labels |-> Labels(c), sum |-> sum, tab |-> Tab(t), bundle |-> b,
   layers |-> <<Layer(t, sum)>>, config |-> [diffs |-> 1, platform |-> "x86"]]
Child(c, t, sum, b) ==
  [ref |-> t, platform |-> Tab(t).arch, sound |-> TRUE, sum |-> sum, tab |-> Tab(t),
   bundle |-> b, manifest |-> Manifest(c, t, sum, b)]
Index(c, t, sum, b, honest) ==
  [labels |-> Labels(c), bundle |-> b, honest |-> honest,
   children |-> <<Child(c, t, sum, b)>>]

Plain == Index("k1", "x86", "b1", None, {"core", "tap"})
Wrong == [Plain EXCEPT !.honest = {}]
Bare == [Index("k1", "x86", "b3", None, {"core", "tap"}) EXCEPT
           !.children[1].tab.deps = {}, !.children[1].manifest.tab.deps = {}]
Noted(b) == [Wrong EXCEPT !.children[1].bundle = b, !.children[1].manifest.bundle = b]

PushedIndexes ==
  {Plain, Bare,
   Index("k2", "x86", "b1", None, {"core", "tap"}),
   Index("k1", "all", "b1", None, {"core", "tap"}),
   Index("k1", "x86", "b1", Annotation("u1", "good"), {"tap"}),
   Index("k1", "x86", "b1", Annotation("u4", "good"), {"core"}),
   Index("k3", "x86", "b1", None, {}),
   Index("k1", "x86", "b2", None, {}),
   Index("k1", "x86", "b1", Annotation("u1", "other"), {}),
   Index("k1", "x86", "b1", Annotation("u2", "good"), {}),
   [Wrong EXCEPT !.children[1].bundle = Annotation("u1", "good")],
   [Wrong EXCEPT !.children[1].manifest.bundle = Annotation("u1", "good")],
   [Noted(Annotation("u4", "good")) EXCEPT !.bundle = Annotation("u1", "good")],
   [Wrong EXCEPT !.labels.exact = FALSE],
   [Wrong EXCEPT !.labels.commit = None],
   [Wrong EXCEPT !.children[1].manifest.labels.commit = "k2"],
   [Wrong EXCEPT !.children[1].platform = "arm"],
   [Wrong EXCEPT !.children[1].tab.arch = "arm"],
   [Wrong EXCEPT !.children[1].tab.deps = {"e"}, !.children[1].manifest.tab.deps = {"e"}],
   [Wrong EXCEPT !.children = Append(@, Child("k2", "x86", "b1", None))],
   [Wrong EXCEPT !.children = Append(@, Child("k1", "arm", "b2", None))],
   [Wrong EXCEPT !.children[1].manifest.layers = Append(@, Layer("x86", "b2"))],
   [Wrong EXCEPT !.children[1].manifest.layers[1].sum = "b2"],
   [Wrong EXCEPT !.children[1].manifest.config.platform = "arm"]}

Referrer(type, honest) ==
  [artifactType |-> type, sound |-> TRUE, honest |-> honest,
   subject |-> Plain.children[1].manifest, bundle |-> Bundle("b1", "tap", "main")]

MCCatalogues == {[x86 |-> "b1"], [x86 |-> "b3"], [all |-> "b1"], [x86 |-> "b1", all |-> "b2"]}
MCReferrers == {{}, {Referrer("bundle", TRUE)}, {Referrer("sbom", FALSE)}}
MCSourceAt == [k1 |-> "f1", k2 |-> "f1", k3 |-> "f3"]
MCBottles == [b1 |-> [formula |-> "f1", receipt |-> {"d"}],
              b2 |-> [formula |-> "f1", receipt |-> None],
              b3 |-> [formula |-> "f1", receipt |-> {}]]
MCBundles == [u1 |-> Bundle("b1", "tap", "main"), u2 |-> Bundle("b1", "tap", "dev"),
              u3 |-> Bundle("b2", "tap", "main"), u4 |-> Bundle("b1", "core", "main")]

(* MetadataBundle: a signed date that is old, or none but the header's. *)
MCStamps == {[signed |-> None, header |-> TRUE], [signed |-> 1, header |-> FALSE]}

-----------------------------------------------------------------------------
(* FrontendBuild: a needs b and c, which both need d; on arm64 a needs b    *)
(* alone.  b's amd64 bottle was built against an older or a newer d.        *)
On(x, y) == [amd64 |-> x, arm64 |-> y]
Bottled(tabs) == [runs |-> TRUE, tabs |-> tabs]
Untabbed == Bottled({<<>>})
OlderD == [d |-> <<1, 0, 0>>]
NewerD == [d |-> <<1, 1, 1>>]
Formula(version, deps, kegOnly, b, executables) ==
  [version |-> version, deps |-> deps, kegOnly |-> kegOnly, bottle |-> b,
   executables |-> executables]
World(dDeps, bTabs, bKegOnly, cBottle) ==
  [lookup |-> [a |-> "a", b |-> "b", c |-> "c", d |-> "d", old |-> "b", gone |-> None],
   formula |->
     [a |-> Formula(<<1, 0, 0>>, On({"b", "c"}, {"b"}), On(FALSE, FALSE),
                    On(Untabbed, Untabbed), {"x"}),
      b |-> Formula(<<2, 0, 0>>, On({"d"}, {"d"}), bKegOnly,
                    On(Bottled(bTabs), Bottled({OlderD})), {"y"}),
      c |-> Formula(<<1, 1, 0>>, On({"d"}, {"d"}), On(FALSE, FALSE),
                    On(cBottle, Untabbed), {"y", "z"}),
      d |-> Formula(<<1, 1, 0>>, dDeps, On(FALSE, FALSE), On(Untabbed, Untabbed),
                    {"z", "y"})]]

Root(id, arches) == [id |-> id, arches |-> arches]
Build2(roots, path) ==
  [roots |-> roots, platforms |-> {"amd64", "arm64"}, supported |-> TRUE,
   user |-> "linuxbrew", path |-> path]
Build1(roots) == [Build2(roots, "generated") EXCEPT !.platforms = {"amd64"}]

B == INSTANCE FrontendBuild
       WITH Sorted <- <<"a", "b", "c", "d">>,
            Worlds <- {World(On({}, {}), {OlderD}, On(FALSE, FALSE), Untabbed),
                       World(On({}, {}), {OlderD, NewerD}, On(TRUE, TRUE), Untabbed),
                       World(On({"b"}, {}), {OlderD}, On(TRUE, FALSE), Untabbed),
                       World(On({}, {"old"}), {<<>>}, On(TRUE, FALSE), Untabbed),
                       World(On({}, {}), {OlderD}, On(TRUE, FALSE), None),
                       World(On({}, {}), {OlderD}, On(TRUE, TRUE),
                             [Untabbed EXCEPT !.runs = FALSE])},
            Specs <- {Build2(<<Root("a", {}), Root("d", {"amd64"})>>, "generated"),
                      Build2(<<Root("b", {}), Root("old", {})>>, "own"),
                      Build2(<<Root("b", {}), Root("c", {"arm64"})>>, "generated"),
                      Build2(<<Root("a", {"arm64"}), Root("b", {})>>, "generated"),
                      Build2(<<Root("a", {"arm64"})>>, "generated"),
                      Build1(<<Root("b", {}), Root("b", {})>>),
                      Build1(<<Root("gone", {})>>),
                      [Build1(<<Root("a", {})>>) EXCEPT !.path = "empty"],
                      [Build1(<<Root("a", {})>>) EXCEPT !.user = "root"],
                      [Build1(<<Root("a", {})>>) EXCEPT !.supported = FALSE]}

-----------------------------------------------------------------------------
\* What the theorems about the components assume of these constants.
ASSUME InstancesSound ==
  /\ S!ArgumentsTyped /\ F!MakersDiffer /\ A!RegistrySound
  /\ H!WebSound /\ D!TargetSound /\ M!ClockSound

store == <<dir, disk, temps, calls, promised, lost>>
outputs == <<bottle, evidence, step, left, frozen>>
https == <<web, stage, loop, request, sigRequest, result, provenance, dialed, past>>
registry == <<scope, issued, revoked, authByRepo, tokens, gets>>
chain == <<kind, files, tag, referrers, pushed, ingest, commit, index, child, proof,
           failures>>
metadata == <<now, served, writer, output, released, reader>>
build == <<world, spec, v2, phase, work>>

\* A bottle that was not probed, one that was not discovered, a cancelled build.
HttpsRests ==
  /\ web = [u \in DOMAIN Pages |-> Body(<<1, 2>>, 2)]
  /\ stage = "probe" /\ loop = H!Enter(BottleURL) /\ request = H!NoRequest
  /\ sigRequest = H!NoRequest /\ result = H!NoResult /\ provenance = "none"
  /\ dialed = {}
  /\ past = [changes |-> 0, disturbed |-> FALSE, status |-> 0, failed |-> "none"]

ChainRests ==
  /\ kind = "core" /\ files = [x86 |-> "b1"] /\ tag = Plain /\ referrers = {}
  /\ pushed = {Plain} /\ ingest = "discover" /\ commit = None /\ index = None
  /\ child = None /\ proof = None /\ failures = 0

BuildRests ==
  /\ world = World(On({}, {}), {OlderD}, On(FALSE, FALSE), Untabbed)
  /\ spec = Build1(<<Root("a", {})>>) /\ v2 = TRUE /\ phase = "cancelled"
  /\ work = [p \in {"amd64"} |-> B!Waiting]

Init ==
  /\ part \in {"store", "outputs", "https", "registry", "chain", "metadata", "build"}
  /\ S!Init /\ F!Init /\ A!Init /\ M!Init
  /\ IF part = "https" THEN H!Init ELSE HttpsRests
  /\ IF part = "chain" THEN D!Init ELSE ChainRests
  /\ IF part = "build" THEN B!Init ELSE BuildRests

Next ==
  /\ UNCHANGED part
  /\ \/ /\ part = "store" /\ S!Next
        /\ UNCHANGED <<outputs, https, registry, chain, metadata, build>>
     \/ /\ part = "outputs" /\ F!Next
        /\ UNCHANGED <<store, https, registry, chain, metadata, build>>
     \/ /\ part = "https" /\ H!Next
        /\ UNCHANGED <<store, outputs, registry, chain, metadata, build>>
     \/ /\ part = "registry" /\ A!Next
        /\ UNCHANGED <<store, outputs, https, chain, metadata, build>>
     \/ /\ part = "chain" /\ D!Next
        /\ UNCHANGED <<store, outputs, https, registry, metadata, build>>
     \/ /\ part = "metadata" /\ M!Next
        /\ UNCHANGED <<store, outputs, https, registry, chain, build>>
     \/ /\ part = "build" /\ B!Next
        /\ UNCHANGED <<store, outputs, https, registry, chain, metadata>>

Spec ==
  Init /\ [][Next]_<<part, store, outputs, https, registry, chain, metadata, build>>

-----------------------------------------------------------------------------
(* An honest bottle with dependencies whose bundle is a referrer is         *)
(* ingested.                                                                *)
HonestReferrerIngested == D!HonestReferrerIngested

(* The record of a build is the closure of its roots on every platform with *)
(* all minimum versions met, the image has one build per root, and its PATH *)
(* finds every root (resolver.go, validate.go, config.go).                  *)
RecordSound ==
  B!RecordIsClosure /\ B!MinimumsMet /\ B!ImageIsOneBuild /\ B!PathFindsRoots

(* What is honest is accepted: a bottle that was probed is fetched; a chain *)
(* is ingested, except one whose receipt has no runtime dependencies; a     *)
(* pair is captured and loaded; a specification is built.                   *)
HonestAccepted ==
  H!ProbedIsFetched /\ D!HonestIngested /\ M!HonestCaptured /\ B!HonestBuilds
=============================================================================
