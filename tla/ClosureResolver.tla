-------------------------- MODULE ClosureResolver --------------------------
(***************************************************************************)
(* internal/catalogresolver/resolver.go, and the closure validation of     *)
(* internal/catalog/validate.go it ends with: the closure of a request on  *)
(* one architecture, computed from the core catalog and the documents of   *)
(* the taps loaded so far.                                                 *)
(*                                                                         *)
(* A resolver r is [core, taps : function from taps to documents].  An     *)
(* answer carries err ("" when it is one), the missing tap for the error   *)
(* "missing", and used, the taps whose documents decided it.               *)
(***************************************************************************)
EXTENDS FormulaCatalogs, SequencesExt

CONSTANTS MaxClosureNodes, MaxTaps,
          Policy              \* prebuilt archives: ID -> [ident, tags]

NoID == <<CoreTap, NoName>>

LessID(a, b) == a[1] < b[1] \/ (a[1] = b[1] /\ a[2] < b[2])

RECURSIVE SortedIDs(_)
SortedIDs(S) ==
    IF S = {} THEN <<>>
    ELSE LET m == CHOOSE x \in S : \A y \in S \ {x} : LessID(x, y)
         IN <<m>> \o SortedIDs(S \ {m})

Mappings(r) == UNION {r.taps[t].scoped \cup r.taps[t].migrations : t \in DOMAIN r.taps}

Found(id, used) == [err |-> "", id |-> id, tap |-> CoreTap, used |-> used]
Fails(why, used) == [err |-> why, id |-> NoID, tap |-> CoreTap, used |-> used]
Missing(tap, used) == [err |-> "missing", id |-> NoID, tap |-> tap, used |-> used]

\* resolveMapping: follows aliases, renames and migrations, also across taps.
Onward(r, id) == (CHOOSE m \in Mappings(r) : m.from = id).to

RECURSIVE Follow(_, _, _, _)
Follow(r, id, chain, used) ==
    IF id \in chain THEN Fails("cycle", used)
    ELSE IF \A m \in Mappings(r) : m.from # id THEN Found(id, used)
    ELSE Follow(r, Onward(r, id), chain \cup {id}, used \cup ({Onward(r, id)[1]} \ {CoreTap}))

resolveMapping(r, id, used) == Follow(r, id, {}, used \cup {id[1]})

\* lookupExact: a core name as Lookup finds it; another one through the
\* mappings to a Formula of a loaded tap, or to a canonical core name.
CoreFound(m, used) ==
    IF m.err = "" THEN Found(<<CoreTap, m.canonical>>, used) ELSE Fails(m.err, used)

CoreTarget(to, m) ==
    IF m.err # "" THEN Fails(m.err, to.used)
    ELSE IF m.canonical # to.id[2] THEN Fails("not_canonical", to.used)
    ELSE to

Landed(r, to) ==
    IF to.err # "" THEN to
    ELSE IF IsCore(to.id) THEN CoreTarget(to, Lookup(r.core, to.id[2]))
    ELSE IF to.id[1] \notin DOMAIN r.taps THEN Missing(to.id[1], to.used)
    ELSE IF to.id[2] \in DOMAIN r.taps[to.id[1]].formulae THEN to
    ELSE Fails("absent", to.used)

lookupExact(r, id, used) ==
    IF IsCore(id) THEN CoreFound(Lookup(r.core, id[2]), used)
    ELSE Landed(r, resolveMapping(r, id, used))

\* normalizeDependency: a bare spelling falls through to the owner's tap only
\* when core has never heard of it.
CoreOr(r, core, local, used) ==
    IF core.err = "not_found" THEN lookupExact(r, local, used) ELSE core

normalizeDependency(r, owner, sp, used) ==
    IF sp.q THEN lookupExact(r, Spelt(sp), used)
    ELSE CoreOr(r, CoreFound(Lookup(r.core, sp.name), used), <<owner, sp.name>>, used)

(***************************************************************************)
(* nodeAndDependencies and authorizePrebuiltArchive.                       *)
(***************************************************************************)
formulaHasDependencies(f) == f.deps # {} \/ \E t \in DOMAIN f.var : f.var[t].deps # {}

hasNativeBottleForTag(bottle, tag) == tag \in bottle.tags \/ "all" \in bottle.tags

authorizePrebuiltArchive(f, tag, root) ==
    /\ f.id \in DOMAIN Policy
    /\ root
    /\ f.ident = Policy[f.id].ident
    /\ f.bottle.tags = {}
    /\ ~ formulaHasDependencies(f)
    /\ tag \in Policy[f.id].tags
    /\ tag \in f.pre

CoreEligible(f, tag) == ~ f.disabled /\ BottleFor(f, tag)

TapEligible(f, tag, root) ==
    /\ f.ident \notin DisabledIdents
    /\ hasNativeBottleForTag(f.bottle, tag) \/ authorizePrebuiltArchive(f, tag, root)
    /\ tag \in DOMAIN f.var => ~ f.var[tag].un

Eligible(r, id, tag, root) ==
    IF IsCore(id) THEN CoreEligible(r.core.canonical[id[2]], tag)
    ELSE TapEligible(r.taps[id[1]].formulae[id[2]], tag, root)

\* A core dependency carries no signed ID; a tap's does.
RequirementsOfBase(r, id, tag) ==
    IF IsCore(id)
    THEN {[raw |-> [q |-> FALSE, tap |-> CoreTap, name |-> d], id |-> NoID] :
             d \in r.core.canonical[id[2]].deps}
    ELSE r.taps[id[1]].formulae[id[2]].deps

RequirementsOf(r, id, tag) ==
    IF IsCore(id)
    THEN {[raw |-> [q |-> FALSE, tap |-> CoreTap, name |-> d], id |-> NoID] :
             d \in DependenciesFor(r.core.canonical[id[2]], tag)}
    ELSE LET f == r.taps[id[1]].formulae[id[2]]
         IN IF tag \in DOMAIN f.var /\ f.var[tag].over THEN f.var[tag].deps ELSE f.deps

\* BottleRebuild and KegOnly of the node: a core bottle has one rebuild number
\* for all its tags, a tap's Formula without a bottle has none.
Rebuild(r, id, tag) ==
    IF IsCore(id) THEN r.core.canonical[id[2]].rebuild
    ELSE LET f == r.taps[id[1]].formulae[id[2]]
         IN IF hasNativeBottleForTag(f.bottle, tag) THEN f.bottle.rebuild ELSE 0

KegOnly(r, id, tag) ==
    IF IsCore(id) THEN tag \in r.core.canonical[id[2]].keg
    ELSE LET f == r.taps[id[1]].formulae[id[2]]
         IN IF tag \in DOMAIN f.var /\ f.var[tag].overKeg THEN f.var[tag].keg ELSE f.keg

\* The order in which the dependencies of a node are normalized and queued:
\* by name for core, by signed ID for a tap.
OrderedRequirements(reqs, isCore) ==
    LET Key(q) == IF isCore THEN Spelt(q.raw) ELSE q.id
        keys == SortedIDs({Key(q) : q \in reqs})
    IN [i \in DOMAIN keys |-> CHOOSE q \in reqs : Key(q) = keys[i]]

(***************************************************************************)
(* Resolve.  st = [err, tap, used, nodes : function ID -> node, queue].    *)
(***************************************************************************)
Stop(st, why, tap) == [st EXCEPT !.err = why, !.tap = tap, !.queue = <<>>]

\* The dependencies of a node, one at a time: n is what the next one means.
RECURSIVE Normalized(_, _, _, _, _)
Meant(r, id, reqs, st, done, n) ==
    IF n.err # "" THEN [st |-> Stop([st EXCEPT !.used = n.used], n.err, n.tap), deps |-> {}]
    ELSE IF reqs[1].id \notin {NoID, n.id}
         THEN [st |-> Stop([st EXCEPT !.used = n.used], "claimed", CoreTap), deps |-> {}]
    ELSE Normalized(r, id, Tail(reqs),
           [st EXCEPT !.used = n.used,
                      !.queue = IF n.id \in DOMAIN st.nodes THEN @ ELSE Append(@, n.id)],
           done \cup {[raw |-> reqs[1].raw, id |-> n.id]})

Normalized(r, id, reqs, st, done) ==
    IF reqs = <<>> THEN [st |-> st, deps |-> done]
    ELSE Meant(r, id, reqs, st, done, normalizeDependency(r, id[1], reqs[1].raw, st.used))

Grown(r, id, tag, st, deps) ==
    [st EXCEPT !.nodes = [x \in DOMAIN @ \cup {id} |->
        IF x = id THEN [deps |-> deps, keg |-> KegOnly(r, id, tag), rebuild |-> Rebuild(r, id, tag)]
        ELSE @[x]]]

Added(r, id, tag, n) == IF n.st.err # "" THEN n.st ELSE Grown(r, id, tag, n.st, n.deps)

Visited(r, id, tag, roots, st, at) ==
    IF at.err # "" THEN Stop(st, at.err, at.tap)
    ELSE IF at.id # id THEN Stop(st, "not_canonical", CoreTap)
    ELSE IF ~ Eligible(r, id, tag, id \in roots) THEN Stop(st, "ineligible", CoreTap)
    ELSE Added(r, id, tag,
               Normalized(r, id, OrderedRequirements(RequirementsOf(r, id, tag), IsCore(id)),
                          [st EXCEPT !.used = at.used], {}))

Dequeued(st) == [st EXCEPT !.queue = Tail(@)]

RECURSIVE Walk(_, _, _, _)
Walk(r, tag, roots, st) ==
    IF st.queue = <<>> THEN st
    ELSE IF st.queue[1] \in DOMAIN st.nodes THEN Walk(r, tag, roots, Dequeued(st))
    ELSE IF Cardinality(DOMAIN st.nodes) >= MaxClosureNodes THEN Stop(st, "limit", CoreTap)
    ELSE Walk(r, tag, roots, Visited(r, st.queue[1], tag, roots, Dequeued(st),
                                     lookupExact(r, st.queue[1], st.used)))

\* The requested roots in order, which must stay distinct.
RECURSIVE ResolveRoots(_, _, _, _)
Rooted(r, roots, done, at) ==
    IF at.err # "" THEN [err |-> at.err, tap |-> at.tap, used |-> at.used, requested |-> <<>>]
    ELSE IF at.id \in Range(done)
         THEN [err |-> "duplicate", tap |-> CoreTap, used |-> at.used, requested |-> <<>>]
    ELSE ResolveRoots(r, Tail(roots), at.used, Append(done, at.id))

ResolveRoots(r, roots, used, done) ==
    IF roots = <<>> THEN [err |-> "", tap |-> CoreTap, used |-> used, requested |-> done]
    ELSE Rooted(r, roots, done, lookupExact(r, roots[1], used))

RacksDistinct(nodes) == \A a, b \in DOMAIN nodes : a[2] = b[2] => a = b

\* topo: depth first from the roots in order, dependencies by ID.
RECURSIVE TopoAll(_, _, _)
RECURSIVE TopoVisit(_, _, _)

TopoDone(inside, id) ==
    IF inside.ok
    THEN [ok |-> TRUE, open |-> inside.open \ {id}, order |-> Append(inside.order, id)]
    ELSE inside

TopoVisit(nodes, st, id) ==
    IF ~ st.ok \/ id \in Range(st.order) THEN st
    ELSE IF id \in st.open THEN [st EXCEPT !.ok = FALSE]
    ELSE TopoDone(TopoAll(nodes, [st EXCEPT !.open = @ \cup {id}],
                          SortedIDs({d.id : d \in nodes[id].deps})), id)

TopoAll(nodes, st, ids) ==
    IF ids = <<>> THEN st ELSE TopoAll(nodes, TopoVisit(nodes, st, ids[1]), Tail(ids))

topo(nodes, requested) == TopoAll(nodes, [ok |-> TRUE, open |-> {}, order |-> <<>>], requested)

(***************************************************************************)
(* ValidateClosureResult with validateNode and validateRequirement.        *)
(***************************************************************************)
Position(order, id) == CHOOSE i \in DOMAIN order : order[i] = id

RECURSIVE ReachableIn(_, _)
ReachableIn(nodes, S) ==
    LET T == S \cup {d.id : d \in UNION {nodes[n].deps : n \in S}}
    IN IF T = S THEN S ELSE ReachableIn(nodes, T)

NodeOK(id, node) ==
    /\ DependencyListOK(node.deps, id[1])
    /\ \A d \in node.deps : d.id # id

ValidateClosureResult(c) ==
    /\ Cardinality(DOMAIN c.nodes) <= MaxClosureNodes
    /\ \A id \in DOMAIN c.nodes :
          /\ NodeOK(id, c.nodes[id])
          /\ IsCore(id) \/ id[1] \in c.taps
          /\ \A d \in c.nodes[id].deps :
                /\ d.id \in DOMAIN c.nodes
                /\ d.raw.q => d.raw.tap = CoreTap \/ d.raw.tap \in c.taps
    /\ RacksDistinct(c.nodes)
    /\ Range(c.requested) \subseteq DOMAIN c.nodes
    /\ \A m \in c.mappings : IsCore(m[1]) \/ m[1][1] \in c.taps
    /\ Len(c.order) = Cardinality(DOMAIN c.nodes)
    /\ Range(c.order) = DOMAIN c.nodes
    /\ \A id \in DOMAIN c.nodes : \A d \in c.nodes[id].deps :
          Position(c.order, d.id) < Position(c.order, id)
    /\ ReachableIn(c.nodes, Range(c.requested)) = DOMAIN c.nodes

NoClosure(why, tap) ==
    [err |-> why, tap |-> tap, requested |-> <<>>, mappings |-> {}, taps |-> {},
     nodes |-> [x \in {} |-> {}], order |-> <<>>]

Validated(c) == IF ValidateClosureResult(c) THEN c ELSE NoClosure("invalid", CoreTap)

Ordered(roots, rs, st, t) ==
    IF ~ t.ok THEN NoClosure("dependency_cycle", CoreTap)
    ELSE Validated([err |-> "", tap |-> CoreTap, requested |-> rs.requested,
                    mappings |-> {<<roots[i], rs.requested[i]>> : i \in DOMAIN roots},
                    taps |-> st.used, nodes |-> st.nodes, order |-> t.order])

Walked(roots, rs, st) ==
    IF st.err # "" THEN NoClosure(st.err, st.tap)
    ELSE IF ~ RacksDistinct(st.nodes) THEN NoClosure("rack", CoreTap)
    ELSE Ordered(roots, rs, st, topo(st.nodes, rs.requested))

FromRoots(r, roots, tag, rs) ==
    IF rs.err # "" THEN NoClosure(rs.err, rs.tap)
    ELSE Walked(roots, rs,
                Walk(r, tag, Range(rs.requested),
                     [err |-> "", tap |-> CoreTap, used |-> rs.used,
                      nodes |-> [x \in {} |-> {}], queue |-> rs.requested]))

Resolve(r, roots, tag) ==
    IF roots = <<>> THEN NoClosure("no_roots", CoreTap)
    ELSE FromRoots(r, roots, tag, ResolveRoots(r, roots, {}, <<>>))

\* New: every document is valid again, and no mapping source is claimed twice.
NewOK(r) ==
    /\ Cardinality(DOMAIN r.taps) <= MaxTaps
    /\ \A t \in DOMAIN r.taps : t # CoreTap /\ ValidateTapCatalog(r.taps[t]) /\ r.taps[t].tap = t
    /\ \A a, b \in Mappings(r) : a.from = b.from => a = b
============================================================================
