-------------------------- MODULE FormulaCatalogs --------------------------
(***************************************************************************)
(* internal/homebrew/metadata/catalog.go and types.go: how the two signed  *)
(* Homebrew documents (formula.json and the tap migrations) become the     *)
(* index every lookup of a homebrew/core name goes through.                *)
(*                                                                         *)
(* Names are numbers, compared as the code compares strings.  A raw        *)
(* Formula is                                                              *)
(*   [name, aliases, old, versioned, deps, rec : sets of names,            *)
(*    uses  : set of <<name, kind>> (uses_from_macos),                     *)
(*    var   : function from some of Tags to the overriding dependencies,   *)
(*    mac   : the dependencies its variations for other systems override,  *)
(*    keg   : the Tags KegOnlyFor holds on (keg_only or its variation),    *)
(*    bottle: set of bottle tags, {} when bottle.stable is absent,         *)
(*    rebuild : the bottle's rebuild number,                               *)
(*    claims: versions.bottle, disabled, fields : BOOLEAN]                 *)
(* where fields says that the checks on single fields (the syntax of       *)
(* names, the tap, a stable version, no repeated entry of a list) pass.    *)
(* A raw migration target is [parts : 1..3, core : BOOLEAN, name].         *)
(***************************************************************************)
EXTENDS Naturals, Sequences, FiniteSets, Functions

CONSTANT Versioned    \* the names that contain "@"

Tags == {"x86_64_linux", "arm64_linux"}

NoName == 0

\* runtimeUsesFromMacOS: an entry without a kind, or with no_linkage, is a
\* runtime dependency on Linux; build and test entries are not.
RuntimeUses(uses) == {u[1] : u \in {v \in uses : v[2] \in {"plain", "no_linkage"}}}

UsesOK(uses) == \A u \in uses : u[2] \in {"plain", "no_linkage", "build", "test"}

\* normalizeBottle: versions.bottle and bottle.stable agree, and a bottle has
\* files.
BottleOK(raw) == raw.claims <=> raw.bottle # {}

\* normalizeFormula: recommended and uses_from_macos dependencies join the
\* base list and every list a variation overrides.
Normalizes(raw) == raw.fields /\ UsesOK(raw.uses) /\ BottleOK(raw)

normalizeFormula(raw) ==
    LET always == raw.rec \cup RuntimeUses(raw.uses)
    IN [name |-> raw.name, aliases |-> raw.aliases, old |-> raw.old,
        versioned |-> raw.versioned, bottle |-> raw.bottle, disabled |-> raw.disabled,
        keg |-> raw.keg, rebuild |-> raw.rebuild, mac |-> raw.mac,
        deps |-> raw.deps \cup always,
        var |-> [t \in DOMAIN raw.var |-> raw.var[t] \cup always]]

\* normalizeMigration: a bare target and homebrew/core (which keeps the name)
\* stay in core; any other tap, and a cask, is outside.
normalizeMigration(name, target) ==
    [inCore |-> target.parts = 1 \/ target.core,
     target |-> IF target.parts = 2 /\ target.core THEN name ELSE target.name]

(***************************************************************************)
(* buildCatalog.  fs is the sequence of normalized Formulae and ms the     *)
(* function from migrated names to normalized migrations.                  *)
(***************************************************************************)
CanonicalNames(fs) == {fs[i].name : i \in DOMAIN fs}

FormulaNamed(fs, n) == fs[CHOOSE i \in DOMAIN fs : fs[i].name = n]

AliasIndex(fs) ==
    [a \in UNION {fs[i].aliases : i \in DOMAIN fs} |->
        (CHOOSE f \in Range(fs) : a \in f.aliases).name]

OldNameIndex(fs) ==
    [o \in UNION {fs[i].old : i \in DOMAIN fs} |->
        (CHOOSE f \in Range(fs) : o \in f.old).name]

\* A migration to its own name is dropped when core already knows the name.
SameName(ms) == {n \in DOMAIN ms : ms[n].inCore /\ ms[n].target = n}

Accepted(ms) == Restrict(ms, DOMAIN ms \ SameName(ms))

\* claimIndex: a name is a canonical name, an alias, an old name or a
\* migration source of one owner.
Claims(fs, ms) ==
    UNION {{<<fs[i].name, "canonical", i>>} \cup {<<a, "alias", i>> : a \in fs[i].aliases}
             \cup {<<o, "oldname", i>> : o \in fs[i].old} : i \in DOMAIN fs}
      \cup {<<n, "migration", 0>> : n \in DOMAIN Accepted(ms)}

ClaimedOnce(fs, ms) == \A c, d \in Claims(fs, ms) : c[1] = d[1] => c = d

VersionedOK(fs) ==
    \A i \in DOMAIN fs : \A v \in fs[i].versioned :
        /\ v # fs[i].name
        /\ v \in Versioned
        /\ v \in CanonicalNames(fs)

\* canonicalizeCatalogDependencies: a dependency may be spelt with a canonical
\* name, an alias or an old name, never through a migration; that holds for
\* the variations of other systems too, which no Linux tag reads.
ResolveName(fs, n) ==
    IF n \in CanonicalNames(fs) THEN n
    ELSE IF n \in DOMAIN AliasIndex(fs) THEN AliasIndex(fs)[n]
    ELSE IF n \in DOMAIN OldNameIndex(fs) THEN OldNameIndex(fs)[n]
    ELSE NoName

DependencyNames(f) == f.deps \cup f.mac \cup UNION Range(f.var)

DependenciesKnown(fs) ==
    \A i \in DOMAIN fs : \A d \in DependencyNames(fs[i]) : ResolveName(fs, d) # NoName

Canonicalized(fs, f) ==
    [f EXCEPT !.deps = {ResolveName(fs, d) : d \in @},
              !.var = [t \in DOMAIN @ |-> {ResolveName(fs, d) : d \in @[t]}]]

DependenciesFor(f, tag) == IF tag \in DOMAIN f.var THEN f.var[tag] ELSE f.deps

\* validateDependencyCycles for one tag ("" is the base metadata): a
\* depth-first walk with the colours 0 (new), 1 (open) and 2 (closed).
RECURSIVE Visit(_, _, _, _)
RECURSIVE VisitAll(_, _, _, _)

Visit(canonical, tag, colour, n) ==
    LET inside == VisitAll(canonical, tag, [colour EXCEPT ![n] = 1],
                           DependenciesFor(canonical[n], tag))
    IN [inside EXCEPT !.colour[n] = 2]

VisitAll(canonical, tag, colour, todo) ==
    IF todo = {} THEN [ok |-> TRUE, colour |-> colour]
    ELSE LET d == CHOOSE x \in todo : \A y \in todo : x <= y
             rest == todo \ {d}
         IN CASE colour[d] = 1 -> [ok |-> FALSE, colour |-> colour]
              [] colour[d] = 2 -> VisitAll(canonical, tag, colour, rest)
              [] OTHER -> LET v == Visit(canonical, tag, colour, d)
                          IN IF v.ok THEN VisitAll(canonical, tag, v.colour, rest) ELSE v

AcyclicFor(canonical, tag) ==
    VisitAll(canonical, tag, [n \in DOMAIN canonical |-> 0], DOMAIN canonical).ok

\* validateCatalogDependencies: the base metadata and every Linux tag that
\* some Formula varies are walked.
WalkedTags(canonical) == {""} \cup UNION {DOMAIN canonical[n].var : n \in DOMAIN canonical}

DependenciesOK(canonical) == \A tag \in WalkedTags(canonical) : AcyclicFor(canonical, tag)

SameNameOK(fs, ms) == \A n \in SameName(ms) : ResolveName(fs, n) # NoName

\* resolveMigration: follows migrations until a canonical name or a target
\* outside core; active holds the names being followed.
Outside == [ok |-> TRUE, outside |-> TRUE, canonical |-> NoName]
Lands(n) == [ok |-> TRUE, outside |-> FALSE, canonical |-> n]
Unresolved == [ok |-> FALSE, outside |-> FALSE, canonical |-> NoName]

RECURSIVE resolveMigration(_, _, _, _)

resolveMigration(fs, ms, n, active) ==
    LET target == ms[n].target
    IN IF n \in active THEN Unresolved
       ELSE IF ~ ms[n].inCore THEN Outside
       ELSE IF target \in CanonicalNames(fs) THEN Lands(target)
       ELSE IF target \in Versioned THEN Unresolved
       ELSE IF ResolveName(fs, target) # NoName THEN Lands(ResolveName(fs, target))
       ELSE IF target \in DOMAIN ms THEN resolveMigration(fs, ms, target, active \cup {n})
       ELSE Unresolved

Canonical(fs) == [n \in CanonicalNames(fs) |-> Canonicalized(fs, FormulaNamed(fs, n))]

buildOK(fs, ms) ==
    /\ ClaimedOnce(fs, ms)
    /\ VersionedOK(fs)
    /\ DependenciesKnown(fs)
    /\ DependenciesOK(Canonical(fs))
    /\ SameNameOK(fs, ms)
    /\ \A n \in DOMAIN Accepted(ms) : resolveMigration(fs, Accepted(ms), n, {}).ok

buildCatalog(fs, ms) ==
    [canonical |-> Canonical(fs), aliases |-> AliasIndex(fs), old |-> OldNameIndex(fs),
     resolved |-> [n \in DOMAIN Accepted(ms) |-> resolveMigration(fs, Accepted(ms), n, {})]]

\* parseMigrations reads the object that maps names to targets.
parseMigrations(targets) == [n \in DOMAIN targets |-> normalizeMigration(n, targets[n])]

\* ParseCatalog on raw Formulae and raw migration targets.
Invalid == [ok |-> FALSE]

Parsed(c) == [ok |-> TRUE, cat |-> c]

ParseCatalog(raws, targets) ==
    LET fs == [i \in DOMAIN raws |-> normalizeFormula(raws[i])]
        ms == parseMigrations(targets)
    IN IF (\A i \in DOMAIN raws : Normalizes(raws[i])) /\ buildOK(fs, ms)
       THEN Parsed(buildCatalog(fs, ms))
       ELSE Invalid

(***************************************************************************)
(* Catalog.Lookup and match: canonical names first; a versioned name must  *)
(* be canonical; then aliases, old names and migrations.  The Formula      *)
(* found must be enabled and bottled.                                      *)
(***************************************************************************)
Refused(why) == [err |-> why, canonical |-> NoName]

match(c, n) ==
    IF c.canonical[n].disabled THEN Refused("disabled")
    ELSE IF c.canonical[n].bottle = {} THEN Refused("no_bottle")
    ELSE [err |-> "", canonical |-> n]

Lookup(c, n) ==
    IF n \in DOMAIN c.canonical THEN match(c, n)
    ELSE IF n \in Versioned THEN Refused("versioned")
    ELSE IF n \in DOMAIN c.aliases THEN match(c, c.aliases[n])
    ELSE IF n \in DOMAIN c.old THEN match(c, c.old[n])
    ELSE IF n \in DOMAIN c.resolved
         THEN IF c.resolved[n].outside THEN Refused("out_of_core")
              ELSE match(c, c.resolved[n].canonical)
    ELSE Refused("not_found")

\* BottleFor: the exact tag, else the portable "all" bottle.
BottleFor(f, tag) == tag \in f.bottle \/ "all" \in f.bottle

-----------------------------------------------------------------------------
(***************************************************************************)
(* internal/catalogextractor/raw.go (ToCatalog) and the tap-catalog part   *)
(* of internal/catalog/validate.go: how the evaluation of a tap's Formulae *)
(* on two architectures becomes one catalog document.                      *)
(*                                                                         *)
(* A Formula ID is <<tap, name>>; tap 0 is homebrew/core.  A spelling is   *)
(* [q, tap, name]: q says that it is fully qualified.  An extracted tap is *)
(*   [tap,                                                                 *)
(*    formulae  : sequence of [name, ev], where ev maps the tags the       *)
(*                Formula could be evaluated for to [deps : set of         *)
(*                spellings, keg, ident, bottle, src, versioned],          *)
(*    aliases, renames : functions from names to spellings,                *)
(*    migrations : function from names to Formula IDs].                    *)
(* ident stands for the fields that must not vary (full name, version,     *)
(* revision, version scheme, disabled, licence), bottle is [tags, rebuild] *)
(* with no tags when there is none, and src says that a checksummed stable *)
(* archive was reported.                                                   *)
(***************************************************************************)
CONSTANT DisabledIdents   \* the values of ident with disabled = true

CoreTap == 0
IsCore(id) == id[1] = CoreTap
Spelt(sp) == <<sp.tap, sp.name>>
BaseTag == "x86_64_linux"
ArmTag == "arm64_linux"

(***************************************************************************)
(* normalizeDependencies: a qualified spelling names its Formula; a bare   *)
(* one means core when core knows it, else a Formula of the same tap.      *)
(***************************************************************************)
DependencyID(sp, owner, local, core) ==
    LET m == Lookup(core, sp.name)
    IN IF sp.q THEN [ok |-> TRUE, id |-> Spelt(sp)]
       ELSE IF m.err = "" THEN [ok |-> TRUE, id |-> <<CoreTap, m.canonical>>]
       ELSE IF m.err = "not_found" /\ sp.name \in local
            THEN [ok |-> TRUE, id |-> <<owner, sp.name>>]
       ELSE [ok |-> FALSE, id |-> <<CoreTap, NoName>>]

DependenciesNormalize(raw, owner, local, core) ==
    /\ \A sp \in raw : DependencyID(sp, owner, local, core).ok
    /\ \A a, b \in raw : DependencyID(a, owner, local, core).id = DependencyID(b, owner, local, core).id
                            => a = b

normalizeDependencies(raw, owner, local, core) ==
    {[raw |-> sp, id |-> DependencyID(sp, owner, local, core).id] : sp \in raw}

(***************************************************************************)
(* mergeBottleDeclarations and mergePrebuiltArchiveDeclarations.           *)
(***************************************************************************)
BottlesMerge(l, r) ==
    \/ l.tags = {} /\ r.tags = {}
    \/ l.tags # {} /\ r.tags # {} /\ l.rebuild = r.rebuild

mergeBottle(l, r) == [tags |-> l.tags \cup r.tags, rebuild |-> l.rebuild]

PrebuiltTags(ev, bottle) ==
    {t \in DOMAIN ev : ev[t].src /\ t \notin bottle.tags /\ "all" \notin bottle.tags}

(***************************************************************************)
(* convertFormula: the x86 evaluation is the base when there is one; an    *)
(* architecture without an evaluation becomes an unavailable variation,    *)
(* and arm64 overrides only what differs.                                  *)
(***************************************************************************)
Base(ev) == IF BaseTag \in DOMAIN ev THEN ev[BaseTag] ELSE ev[ArmTag]
Other(ev) == IF ArmTag \in DOMAIN ev THEN ev[ArmTag] ELSE ev[BaseTag]

Converts(f, owner, local, core) ==
    /\ DOMAIN f.ev # {}
    /\ Base(f.ev).ident = Other(f.ev).ident
    /\ Base(f.ev).versioned = Other(f.ev).versioned
    /\ \A t \in DOMAIN f.ev : DependenciesNormalize(f.ev[t].deps, owner, local, core)
    /\ BottlesMerge(Base(f.ev).bottle, Other(f.ev).bottle)

Unavailable == [un |-> TRUE, over |-> FALSE, deps |-> {}, keg |-> FALSE, overKeg |-> FALSE]

ArmVariation(base, arm, baseDeps, armDeps) ==
    [un |-> FALSE, over |-> baseDeps # armDeps,
     deps |-> IF baseDeps # armDeps THEN armDeps ELSE {},
     keg |-> arm.keg, overKeg |-> base.keg # arm.keg]

VariationsOfDependencies(ev, baseDeps, armDeps) ==
    [t \in {u \in Tags : u \notin DOMAIN ev \/ (u = ArmTag /\ baseDeps # armDeps)} |->
        IF t \in DOMAIN ev THEN ArmVariation(Base(ev), ev[ArmTag], baseDeps, armDeps)
        ELSE Unavailable]

Variations(ev, baseDeps, armDeps) ==
    [t \in {u \in Tags : \/ u \notin DOMAIN ev
                         \/ u = ArmTag /\ (baseDeps # armDeps \/ Base(ev).keg # ev[ArmTag].keg)} |->
        IF t \in DOMAIN ev THEN ArmVariation(Base(ev), ev[ArmTag], baseDeps, armDeps)
        ELSE Unavailable]

convertFormula(f, owner, local, core) ==
    LET baseDeps == normalizeDependencies(Base(f.ev).deps, owner, local, core)
        armDeps == normalizeDependencies(Other(f.ev).deps, owner, local, core)
        bottle == mergeBottle(Base(f.ev).bottle, Other(f.ev).bottle)
    IN [id |-> <<owner, f.name>>, ident |-> Base(f.ev).ident, keg |-> Base(f.ev).keg,
        deps |-> baseDeps, bottle |-> bottle, pre |-> PrebuiltTags(f.ev, bottle),
        versioned |-> Base(f.ev).versioned,
        var |-> Variations(f.ev, baseDeps, armDeps)]

\* parseSameTapFormula: a bare target belongs to the owner.
SameTap(owner, sp) == IF sp.q THEN Spelt(sp) ELSE <<owner, sp.name>>

(***************************************************************************)
(* ValidateTapCatalog on a document [tap, formulae : name -> Formula,      *)
(* scoped : aliases and renames, migrations : functions from IDs to IDs].  *)
(***************************************************************************)
DependencyOK(d, owner) ==
    IF d.raw.q THEN Spelt(d.raw) = d.id
    ELSE d.raw.name = d.id[2] /\ d.id[1] \in {CoreTap, owner}

DependencyListOK(deps, owner) ==
    /\ \A d \in deps : DependencyOK(d, owner)
    /\ \A d, e \in deps : d.id = e.id => d = e

FormulaOK(f, owner) ==
    /\ f.id[1] = owner
    /\ DependencyListOK(f.deps, owner)
    /\ \A t \in DOMAIN f.var :
          /\ f.var[t].un => f.var[t].deps = {} /\ ~ f.var[t].over /\ ~ f.var[t].overKeg
          /\ f.var[t].deps # {} => f.var[t].over
          /\ f.var[t].keg => f.var[t].overKeg
          /\ DependencyListOK(f.var[t].deps, owner)
    /\ \A t \in f.pre : t \notin f.bottle.tags /\ "all" \notin f.bottle.tags

IDsOf(doc) == {<<doc.tap, n>> : n \in DOMAIN doc.formulae}

ScopedOK(from, to, doc) ==
    /\ from[1] = doc.tap /\ to[1] = doc.tap
    /\ from \notin IDsOf(doc)
    /\ to \in IDsOf(doc)

MigrationOK(from, to, doc) ==
    /\ from # to
    /\ from \notin IDsOf(doc)
    /\ to[1] = doc.tap => to \in IDsOf(doc)

ValidateTapCatalog(doc) ==
    /\ doc.tap # CoreTap
    /\ DOMAIN doc.formulae # {}
    /\ \A n \in DOMAIN doc.formulae :
          /\ FormulaOK(doc.formulae[n], doc.tap)
          /\ \A v \in doc.formulae[n].versioned : v # n /\ v \in DOMAIN doc.formulae
    /\ \A s \in doc.scoped : ScopedOK(s.from, s.to, doc)
    /\ \A m \in doc.migrations : MigrationOK(m.from, m.to, doc)
    /\ \A a, b \in doc.scoped \cup doc.migrations : a.from = b.from => a = b

(***************************************************************************)
(* ToCatalog: the document of an extracted tap, or a refusal.              *)
(***************************************************************************)
LocalNames(x) == {x.formulae[i].name : i \in DOMAIN x.formulae}

ConvertedMappings(names, owner, kind) ==
    {[from |-> <<owner, n>>, to |-> SameTap(owner, names[n]), kind |-> kind] : n \in DOMAIN names}

Document(x, core) ==
    [tap |-> x.tap,
     formulae |-> [n \in LocalNames(x) |->
         convertFormula(x.formulae[CHOOSE i \in DOMAIN x.formulae : x.formulae[i].name = n],
                        x.tap, LocalNames(x), core)],
     scoped |-> ConvertedMappings(x.aliases, x.tap, "alias")
                  \cup ConvertedMappings(x.renames, x.tap, "rename"),
     migrations |-> {[from |-> <<x.tap, n>>, to |-> x.migrations[n], kind |-> "migration"] :
                       n \in DOMAIN x.migrations}]

ToCatalog(x, core) ==
    IF /\ x.tap # CoreTap
       /\ Len(x.formulae) > 0
       /\ Cardinality(LocalNames(x)) = Len(x.formulae)
       /\ \A i \in DOMAIN x.formulae : Converts(x.formulae[i], x.tap, LocalNames(x), core)
       /\ \A n \in DOMAIN x.aliases : SameTap(x.tap, x.aliases[n])[1] = x.tap
       /\ \A n \in DOMAIN x.renames : SameTap(x.tap, x.renames[n])[1] = x.tap
       /\ ValidateTapCatalog(Document(x, core))
    THEN [ok |-> TRUE, doc |-> Document(x, core)]
    ELSE [ok |-> FALSE]
=============================================================================
