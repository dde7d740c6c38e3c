----------------------------- MODULE MCCatalogs -----------------------------
(***************************************************************************)
(* The catalogs on small universes: signed core documents that are parsed  *)
(* and asked for names (part "core"), the conversion of one tap (part      *)
(* "tap"), and the generation of a set over four taps (part "generation"). *)
(* Each behaviour is about one part; the others stay as they are.          *)
(***************************************************************************)
EXTENDS CatalogGeneration

CONSTANTS Parts,     \* the parts to explore
          Hosting    \* the deployments: a subset of BOOLEAN

VARIABLES part,
          formulae, targets, catalog, asked, answer,   \* core
          extracted, converted, done                   \* tap

coreVars == <<formulae, targets, catalog, asked, answer>>
tapVars == <<extracted, converted, done>>
vars == <<part, coreVars, tapVars, genVars>>

CoreFormula(n, aliases, deps) ==
    [name |-> n, aliases |-> aliases, old |-> {}, versioned |-> {}, deps |-> deps,
     rec |-> {}, uses |-> {}, var |-> [t \in {} |-> {}], mac |-> {},
     keg |-> IF n = 2 THEN {ArmTag} ELSE {}, bottle |-> {"all"}, rebuild |-> n - 1,
     claims |-> TRUE, disabled |-> FALSE, fields |-> TRUE]

(***************************************************************************)
(* Part "core": three Formulae (3 and 8 are versioned) with alternative    *)
(* dependency lists, variations, aliases and old names, and migrations     *)
(* among the names 5, 6 and 7.  A document is parsed once and then asked   *)
(* for names, as NewClient and Lookup do.                                  *)
(***************************************************************************)
CoreNames == 1..8

Raw(n, aliases, old, deps, uses, var, bottle) ==
    [name |-> n, aliases |-> aliases, old |-> old,
     versioned |-> IF n = 1 THEN {3} ELSE {}, deps |-> deps, rec |-> {}, uses |-> uses,
     var |-> var, mac |-> {}, keg |-> {}, bottle |-> bottle, rebuild |-> 0, claims |-> bottle # {}, disabled |-> FALSE,
     fields |-> TRUE]

NoVariation == [t \in {} |-> {}]
Arm(deps) == [t \in {"arm64_linux"} |-> deps]

First == {Raw(1, al, old, d, {}, NoVariation, {"x86_64_linux"}) :
              al \in {{}, {4}, {8}}, old \in {{}, {5}}, d \in {{}, {2}}}
Second == {Raw(2, al, {}, d, u, v, b) :
              al \in {{}, {4}}, d \in {{}, {4}, {5}}, u \in {{<<3, "plain">>}, {<<3, "test">>}},
              v \in {NoVariation, Arm({}), Arm({1})}, b \in {{}, {"all"}}}
Third == {Raw(3, al, {}, d, {}, NoVariation, {"all"}) : al \in {{}, {6}}, d \in {{}, {2}}}
           \cup {[Raw(3, {}, {}, {}, {}, NoVariation, {"all"}) EXCEPT !.mac = {m}] : m \in {2, 7}}

To(p, inCore, n) == [parts |-> p, core |-> inCore, name |-> n]

TargetsOf(n) ==
    CASE n = 5 -> {To(1, FALSE, 6), To(2, TRUE, NoName)}
      [] n = 6 -> {To(1, FALSE, 7), To(3, TRUE, 4), To(2, FALSE, NoName)}
      [] n = 7 -> {To(1, FALSE, 5), To(1, FALSE, 3), To(3, FALSE, 1)}

MigrationTables ==
    UNION {{[n \in S |-> f[n]] : f \in {g \in [S -> UNION {TargetsOf(n) : n \in S}] :
                                           \A n \in S : g[n] \in TargetsOf(n)}} :
            S \in SUBSET {5, 6, 7}}

NotAsked == 0

CoreInit ==
    /\ \E f1 \in First, f2 \in Second, f3 \in Third : formulae = <<f1, f2, f3>>
    /\ targets \in MigrationTables
    /\ catalog = Invalid
    /\ asked = NotAsked
    /\ answer = Refused("")

Load ==
    /\ ~ catalog.ok
    /\ ParseCatalog(formulae, targets).ok
    /\ catalog' = ParseCatalog(formulae, targets)
    /\ UNCHANGED <<formulae, targets, asked, answer>>

Ask(n) ==
    /\ catalog.ok
    /\ asked = NotAsked
    /\ asked' = n
    /\ answer' = Lookup(catalog.cat, n)
    /\ UNCHANGED <<formulae, targets, catalog>>

CoreNext == Load \/ \E n \in CoreNames : Ask(n)

(***************************************************************************)
(* Reference meaning, read off the raw documents: the names one step away. *)
(***************************************************************************)
Raws == {formulae[i] : i \in DOMAIN formulae}

OneStep(n) ==
    {f.name : f \in {g \in Raws : n \in g.aliases \cup g.old}}
      \cup (IF n \in DOMAIN targets /\ (targets[n].parts = 1 \/ targets[n].core)
            THEN {targets[n].name} \ {NoName} ELSE {})

RECURSIVE Reach(_)
Reach(S) == LET T == S \cup UNION {OneStep(n) : n \in S} IN IF T = S THEN S ELSE Reach(T)

IsCanonical(n) == \E f \in Raws : f.name = n

LeavesCore(n) == \E m \in Reach({n}) :
    ~ IsCanonical(m) /\ m \in DOMAIN targets /\ targets[m].parts # 1 /\ ~ targets[m].core

(***************************************************************************)
(* Lookup gives a name at most one Formula, the one its aliases, old names *)
(* and migrations lead to; a name that leaves core, a versioned name that  *)
(* is not canonical, and a Formula without a bottle are refused            *)
(* (Lookup, resolveMigration, claimIndex).                                 *)
(***************************************************************************)
MeaningIsUnique ==
    asked # NotAsked =>
        LET ends == {n \in Reach({asked}) : IsCanonical(n)} IN
        /\ Cardinality(ends) <= 1
        /\ answer.err = "" => ends = {answer.canonical}
        /\ answer.err = "" /\ asked \in Versioned => answer.canonical = asked
        /\ answer.err = "out_of_core" <=> (LeavesCore(asked) /\ ~ asked \in Versioned)
        /\ answer.err = "not_found" => ends = {}

(***************************************************************************)
(* In an accepted catalog the dependencies of every Formula, on either     *)
(* architecture, are Formulae of the catalog and form no cycle: whether a  *)
(* dependency has a bottle is left to the resolver, the topological order  *)
(* always exists (canonicalizeCatalogDependencies,                         *)
(* validateDependencyCycles).                                              *)
(***************************************************************************)
InstallableOnEveryTag ==
    catalog.ok =>
        \A tag \in Tags :
            LET c == catalog.cat.canonical
                deps == {<<m, n>> \in (DOMAIN c) \X CoreNames : n \in DependenciesFor(c[m], tag)}
                Before(S) == {n \in DOMAIN c : \A e \in deps : e[1] = n => e[2] \in S}
            IN Before(Before(Before({}))) = DOMAIN c

(***************************************************************************)
(* On every architecture a Formula still depends on what uses_from_macos   *)
(* makes a runtime dependency on Linux, whatever its variation overrides   *)
(* (normalizeFormula).                                                     *)
(***************************************************************************)
LinuxRuntimeNeedsKept ==
    catalog.ok =>
        \A f \in Raws : \A tag \in Tags :
            \A u \in f.uses : u[2] = "plain" =>
                \E d \in DependenciesFor(catalog.cat.canonical[f.name], tag) : d \in Reach({u[1]})

(***************************************************************************)
(* Part "tap": ToCatalog over the evaluations of a two-Formula tap.  Core  *)
(* knows 1, its alias 4, the versioned 50 and 5, which left core; the      *)
(* tap's second Formula is 7 or shares the name 1 with core, and 80 is     *)
(* known to nobody.                                                        *)
(***************************************************************************)
TapCore == ParseCatalog(<<CoreFormula(1, {4}, {}), CoreFormula(50, {}, {1})>>,
                     [n \in {5} |-> [parts |-> 2, core |-> FALSE, name |-> NoName]]).cat

Bare(n) == [q |-> FALSE, tap |-> 0, name |-> n]
Full(t, n) == [q |-> TRUE, tap |-> t, name |-> n]

DependencyLists ==
    {{}, {Bare(1)}, {Bare(4)}, {Bare(7)}, {Bare(80)}, {Bare(5)}, {Bare(1), Full(0, 1)},
     {Full(1, 7), Bare(50)}, {Full(2, 9)}}

Bottles == {[tags |-> s, rebuild |-> 0] : s \in {{}, {ArmTag}, {"all"}, Tags}}
             \cup {[tags |-> Tags, rebuild |-> 1]}

Evaluations(lists) ==
    [deps : lists, keg : BOOLEAN, ident : {0}, bottle : Bottles, src : BOOLEAN, versioned : {{}}]

SomeLists == {{}, {Bare(1)}, {Bare(7)}, {Full(2, 9)}}

ArmOnly(ev) == [t \in {ArmTag} |-> ev]
X86Only(ev) == [t \in {BaseTag} |-> ev]
Both(x86, arm) == [t \in Tags |-> IF t = BaseTag THEN x86 ELSE arm]

Plain == [deps |-> {}, keg |-> FALSE, ident |-> 0, bottle |-> [tags |-> Tags, rebuild |-> 0],
          src |-> FALSE, versioned |-> {}]

TapNames(S) == [n \in S |-> Full(1, 6)]

Tap(ev, second, renames) ==
    [tap |-> 1, formulae |-> <<[name |-> 6, ev |-> ev], [name |-> second, ev |-> Both(Plain, Plain)]>>,
     aliases |-> TapNames({30}), renames |-> renames, migrations |-> [n \in {80} |-> <<2, 9>>]]

TapInit ==
    /\ \E x86 \in Evaluations(DependencyLists) :
          \E ev \in {ArmOnly(x86), X86Only(x86)}
                      \cup {Both(x86, [arm EXCEPT !.ident = ident]) :
                               arm \in Evaluations(SomeLists), ident \in {0, 1}} :
             \E second \in {7, 1}, renames \in {TapNames({}), TapNames({30})} :
                extracted = Tap(ev, second, renames)
    /\ converted = [ok |-> FALSE]
    /\ done = FALSE

Convert ==
    /\ ~ done
    /\ done' = TRUE
    /\ converted' = ToCatalog(extracted, TapCore)
    /\ UNCHANGED extracted

Resolver == [core |-> TapCore, taps |-> [t \in {1} |-> converted.doc]]

(***************************************************************************)
(* What the resolver reads from the document for one architecture is what  *)
(* the extractor evaluated for that architecture: the same dependency      *)
(* spellings, the same keg_only, no Formula where it was not evaluated,    *)
(* and a prebuilt archive only where no bottle was declared                *)
(* (convertFormula against nodeAndDependencies).                           *)
(***************************************************************************)
PlatformViewKept ==
    converted.ok =>
        LET f == converted.doc.formulae[6]
            ev == extracted.formulae[1].ev
            bottled == UNION {ev[t].bottle.tags : t \in DOMAIN ev}
        IN \A tag \in Tags :
             /\ tag \in DOMAIN ev <=> ~ (tag \in DOMAIN f.var /\ f.var[tag].un)
             /\ tag \in DOMAIN ev =>
                  /\ {d.raw : d \in RequirementsOf(Resolver, <<1, 6>>, tag)} = ev[tag].deps
                  /\ KegOnly(Resolver, <<1, 6>>, tag) = ev[tag].keg
                  /\ tag \in f.pre <=> (ev[tag].src /\ bottled \cap {tag, "all"} = {})

(***************************************************************************)
(* The two places that give a bare dependency its meaning agree: the one   *)
(* recorded when the tap was ingested is the one the resolver finds later, *)
(* so a document that was accepted never fails the resolver's comparison   *)
(* (normalizeDependencies against normalizeDependency).                    *)
(***************************************************************************)
BareIsStable ==
    converted.ok =>
        \A tag \in DOMAIN extracted.formulae[1].ev :
            \A d \in RequirementsOf(Resolver, <<1, 6>>, tag) :
                ~ d.raw.q => normalizeDependency(Resolver, 1, d.raw, {}).id = d.id

(***************************************************************************)
(* A tap whose evaluations agree on everything but dependencies, keg_only  *)
(* and sources, and whose dependencies are canonical names, is accepted    *)
(* (the fields FormulaVariation exists for).                               *)
(***************************************************************************)
HonestTapAccepted ==
    LET ev == extracted.formulae[1].ev
        honest == /\ \A t \in DOMAIN ev :
                        /\ ev[t].ident = 0
                        /\ ev[t].deps \in {{}, {Bare(1)}, {Bare(7)}, {Full(2, 9)}}
                        /\ ev[t].bottle = [tags |-> Tags, rebuild |-> 0]
                  /\ extracted.formulae[2].name = 7
                  /\ extracted.renames = TapNames({})
    IN done /\ honest => converted.ok

(***************************************************************************)
(* Part "generation": tap 1 owns 11 (alias 12) and sent 13 to tap 2; tap 2 *)
(* owns 21 and 22, the latter a prebuilt archive with the alias 23; tap 3  *)
(* owns 31, which may need 41 of tap 4.  Core owns 1, its alias 4, and 2,  *)
(* which needs 1.                                                          *)
(***************************************************************************)
PrebuiltPolicy == [id \in {<<2, 22>>} |-> [ident |-> 0, tags |-> Tags]]

Core == ParseCatalog(<<CoreFormula(1, {4}, {}), CoreFormula(2, {}, {1})>>,
                     [n \in {} |-> {}]).cat

Bottled(deps) == [deps |-> deps, keg |-> FALSE, ident |-> 0,
                  bottle |-> [tags |-> Tags, rebuild |-> 1], src |-> FALSE, versioned |-> {}]
Archive == [deps |-> {}, keg |-> FALSE, ident |-> 0,
            bottle |-> [tags |-> {}, rebuild |-> 0], src |-> TRUE, versioned |-> {}]

NoNames == [n \in {} |-> {}]
TapOf(t, fs, aliases, migrations) ==
    [tap |-> t, formulae |-> fs, aliases |-> aliases, renames |-> NoNames,
     migrations |-> migrations]

X86Needs == {{}, {Full(2, 21)}, {Full(2, 22)}, {Full(1, 13)}, {Bare(2)}}
ArmNeeds == {{}, {Full(3, 31)}, {Bare(1)}}
SecondNeeds == {{}, {Full(3, 31)}, {Full(1, 11)}, {Bare(2)}, {Full(3, 31), Bare(1), Bare(2)}}
ThirdNeeds == {{}, {Full(4, 41)}, {Full(2, 21)}}

Worlds ==
    UNION {{[t \in 1..4 |->
       CASE t = 1 -> TapOf(1, <<[name |-> 11, ev |-> first]>>,
                           [n \in {12} |-> Bare(11)], [n \in {13} |-> <<2, 21>>])
         [] t = 2 -> TapOf(2, <<[name |-> 21, ev |-> Both(Bottled(second), Bottled(second))],
                                [name |-> 22, ev |-> Both(Archive, Archive)]>>,
                           [n \in {23} |-> Bare(22)], NoNames)
         [] t = 3 -> TapOf(3, <<[name |-> 31, ev |-> Both(Bottled(third), Bottled(third))]>>,
                           NoNames, NoNames)
         [] t = 4 -> NoTap] :
       first \in {Both(Bottled(x86), Bottled(arm)) : arm \in ArmNeeds} \cup {X86Only(Bottled(x86))},
       second \in SecondNeeds, third \in ThirdNeeds} : x86 \in X86Needs}

RootSets == {{<<1, 11>>}, {<<1, 12>>}, {<<1, 13>>}, {<<2, 22>>}, {<<2, 23>>}, {<<1, 11>>, <<2, 22>>},
             {<<1, 11>>, <<1, 12>>}}
Target(c, e) == [core |-> c, ext |-> e]

Requests ==
    UNION {{[t \in {BaseTag} |-> Target({}, e)],
            [t \in {ArmTag} |-> Target({<<0, 4>>}, e)],
            [t \in Tags |-> Target({}, e)],
            [t \in Tags |-> IF t = BaseTag THEN Target({}, e) ELSE Target({<<0, 2>>}, {})]} :
           e \in RootSets}
      \cup {[t \in Tags |-> Target({<<0, 1>>}, {})]}

GenerationInit ==
    /\ core = Core
    /\ world \in Worlds
    /\ req \in Requests
    /\ hosted \in Hosting
    /\ Start

(***************************************************************************)
(* The reference: what a Formula ID means in the taps as they were         *)
(* extracted, and what it needs on an architecture.                        *)
(***************************************************************************)
RECURSIVE Means(_)
Means(id) ==
    IF IsCore(id) THEN <<CoreTap, Lookup(Core, id[2]).canonical>>
    ELSE IF id[2] \in DOMAIN world[id[1]].aliases THEN Means(<<id[1], world[id[1]].aliases[id[2]].name>>)
    ELSE IF id[2] \in DOMAIN world[id[1]].migrations THEN Means(world[id[1]].migrations[id[2]])
    ELSE id

NeedsOf(id, tag) ==
    IF IsCore(id) THEN {<<CoreTap, d>> : d \in Core.canonical[id[2]].deps}
    ELSE LET x == world[id[1]]
             f == CHOOSE i \in DOMAIN x.formulae : x.formulae[i].name = id[2]
         IN {Means(Spelt(sp)) : sp \in x.formulae[f].ev[tag].deps}

RECURSIVE Reached(_, _)
Reached(S, tag) ==
    LET T == S \cup UNION {NeedsOf(id, tag) : id \in S}
    IN IF T = S THEN S ELSE Reached(T, tag)

Generated == pc \in {"generated", "recompute", "roots", "prepare", "done"}

(***************************************************************************)
(* What Generate returns is what the tap authors wrote: for every target   *)
(* the nodes are the Formulae reachable from the meaning of the roots      *)
(* along the dependencies evaluated for that architecture, although the    *)
(* taps were discovered one at a time and resolved again every time        *)
(* (generator.go with catalogresolver).                                    *)
(***************************************************************************)
ClosureIsEvaluated ==
    Generated => \A t \in Targets :
        DOMAIN closures[t].nodes = Reached({Means(id) : id \in req[t].core \cup req[t].ext}, t)

(***************************************************************************)
(* The signer rejects what the generator made only for the limits that     *)
(* Generate does not look at, the nodes of all targets together and the    *)
(* sizes of the documents: every ingested tap decided some result and      *)
(* every deciding tap was ingested, a root has one identity on all targets *)
(* and the roots are the requested ones, however the fixed point came      *)
(* about (validateGeneratedSet, ValidateCatalogSetPayload after Generate). *)
(***************************************************************************)
GeneratedIsPublishable == Generated => (SetIsValid <=> WithinUnion /\ WithinBytes)

(***************************************************************************)
(* The frontend, resolving again from the documents alone, finds the same  *)
(* closures, so a generated set is never refused for a mismatch.           *)
(***************************************************************************)
FrontendAgrees == failure.at # "recompute"

(***************************************************************************)
(* Discovery makes progress: a round that ends for want of a tap names one *)
(* that was not ingested, so the loop cannot go round without end, and the *)
(* documents already at hand stay as they are.                             *)
(***************************************************************************)
EveryRoundIngests ==
    [][/\ pc = "ingest" /\ Waiting = {} /\ pc' = "ingest" => Waiting' # {}
       /\ \A t \in DOMAIN catalogs : t \in DOMAIN catalogs' /\ catalogs'[t] = catalogs[t]]_genVars

(***************************************************************************)
(* The resolver and the artifact builder agree on what may be a prebuilt   *)
(* archive, with one exception: a prebuilt Formula that is requested under *)
(* another name is authorised and then refused, because selectPrebuilt     *)
(* compares the requested spellings (authorizePrebuiltArchive against      *)
(* selectPrebuilt).                                                        *)
(***************************************************************************)
SelectionAgreesUnlessRenamed ==
    failure.at = "select" =>
        \E t \in Targets : \E r \in req[t].ext :
            Means(r) \in DOMAIN Policy /\ Means(r) \notin req[t].ext

(***************************************************************************)
(* Resolving each root alone finds what the joint resolution found, with   *)
(* one exception: a root that needs another, prebuilt root is refused when *)
(* it is looked at alone (v2RequestedRoots).                               *)
(***************************************************************************)
AloneAgreesUnlessPrebuilt ==
    failure.at = "roots" =>
        \E t \in Targets : \E r \in req[t].core \cup req[t].ext :
            \E p \in DOMAIN Policy : p # Means(r) /\ p \in Reached({Means(r)}, t)

(***************************************************************************)
(* Hosted publication may restamp the documents without harm: the derived  *)
(* bottle's recipe is still the one the materializer recomputes.           *)
(***************************************************************************)
RecipeSurvivesPublication == failure.at # "prepare"

(***************************************************************************)
(* The parts side by side.                                                 *)
(***************************************************************************)
CoreRests ==
    /\ formulae = <<>> /\ targets = NoNames /\ catalog = Invalid
    /\ asked = NotAsked /\ answer = Refused("")

TapRests == extracted = NoTap /\ converted = [ok |-> FALSE] /\ done = FALSE

GenerationRests ==
    /\ core = Core /\ world = Empty /\ req = Empty /\ hosted = FALSE /\ pc = "rests"
    /\ failure = [at |-> "", code |-> ""] /\ catalogs = Empty /\ pending = {}
    /\ closures = Empty /\ artifacts = Empty /\ stamped = Empty

Init ==
    /\ part \in Parts
    /\ \/ part = "core" /\ TapRests /\ GenerationRests /\ CoreInit
       \/ part = "tap" /\ CoreRests /\ GenerationRests /\ TapInit
       \/ part = "generation" /\ CoreRests /\ TapRests /\ GenerationInit

Next ==
    /\ \/ part = "core" /\ CoreNext /\ UNCHANGED <<tapVars, genVars>>
       \/ part = "tap" /\ Convert /\ UNCHANGED <<coreVars, genVars>>
       \/ part = "generation" /\ GenNext /\ UNCHANGED <<coreVars, tapVars>>
    /\ UNCHANGED part

Spec == Init /\ [][Next]_vars
-----------------------------------------------------------------------------
(***************************************************************************)
(* Documents keep their meaning: a name of the core catalog has one, on    *)
(* every tag it is installable with the runtime needs of Linux, and a tap  *)
(* document says of each architecture what was evaluated there, with bare  *)
(* dependency names that mean the same in every tap (newCatalog, Lookup,   *)
(* ToCatalog).                                                             *)
(***************************************************************************)
DocumentsKeepMeaning ==
    /\ MeaningIsUnique /\ InstallableOnEveryTag /\ LinuxRuntimeNeedsKept
    /\ PlatformViewKept /\ BareIsStable

(***************************************************************************)
(* What Generate returns is the evaluated closure, and the signer rejects  *)
(* it for nothing but the limits on nodes of all targets and on sizes.     *)
(***************************************************************************)
ClosureSound == ClosureIsEvaluated /\ GeneratedIsPublishable

(***************************************************************************)
(* Those who resolve the same request again find the same: the frontend    *)
(* always, the artifact builder and the resolution of single roots but for *)
(* the named exceptions.                                                   *)
(***************************************************************************)
SidesAgree ==
    FrontendAgrees /\ SelectionAgreesUnlessRenamed /\ AloneAgreesUnlessPrebuilt
=============================================================================
