---------------------------- MODULE FrontendBuild ---------------------------
(***************************************************************************)
(* One invocation of the frontend for a spec of homebrew/core roots.  The  *)
(* spec is validated for every target platform before any request; each    *)
(* platform is then resolved by a callback of its own, concurrently: a     *)
(* work queue looks formulae up in the one shared snapshot, selects their  *)
(* bottles in the registry, and a depth-first walk orders the closure.     *)
(* The platforms' records are compared before the image is returned.       *)
(*                                                                         *)
(* A world is a snapshot and a registry: what a name looks up to, each     *)
(* formula's version triple <<version, revision, rebuild>>, and, for a     *)
(* platform, its dependencies, whether it is keg-only, and its bottle, with *)
(* the minimum triples its tab records and whether the runtime baseline    *)
(* can run it.  An index under a tag may be pushed again, so a bottle's    *)
(* tab is chosen from a set on every request.                              *)
(***************************************************************************)
EXTENDS Naturals, FiniteSets, SequencesExt

CONSTANTS Worlds,
          Specs,     \* [roots, platforms, supported, user, path]
          Sorted,    \* the formula names in byte order
          None

VARIABLES world, spec, v2, phase, work

vars == <<world, spec, v2, phase, work>>

Platforms == spec.platforms

Waiting == [stage |-> "waiting", queue |-> <<>>, nodes |-> <<>>, graph |-> <<>>,
            requested |-> <<>>, order |-> <<>>, path |-> <<>>]

Init ==
  /\ world \in Worlds /\ spec \in Specs /\ v2 \in BOOLEAN
  /\ phase = "preflight"
  /\ work = [p \in spec.platforms |-> Waiting]

Fail == phase' = "failed" /\ UNCHANGED <<world, spec, v2, work>>

-----------------------------------------------------------------------------
(* Preflight: spec/validate.go.  Roots are a sequence in byte order; two    *)
(* spellings of one Formula ID are refused, two names of one formula are    *)
(* not known to be that before the lookup.                                  *)

RootsFor(p) == SelectSeq(spec.roots, LAMBDA r : r.arches = {} \/ p \in r.arches)

ValidateForwarded(p) ==
  /\ spec.supported
  /\ \A i, j \in DOMAIN spec.roots : i # j => spec.roots[i].id # spec.roots[j].id
  /\ RootsFor(p) # <<>>

Preflight ==
  /\ phase = "preflight"
  /\ IF \A p \in Platforms : ValidateForwarded(p)
     THEN phase' = "resolving" /\ UNCHANGED <<world, spec, v2, work>>
     ELSE Fail

-----------------------------------------------------------------------------
(* One platform's resolution: resolver/resolver.go. *)

DependenciesFor(f, p) == world.formula[f].deps[p]
KegOnlyFor(f, p) == world.formula[f].kegOnly[p]

\* The roots are looked up first; a name that is unknown ends the build.
LookupRoots(p) ==
  /\ phase = "resolving" /\ work[p].stage = "waiting"
  /\ LET roots == RootsFor(p)
         ids == [i \in DOMAIN roots |-> world.lookup[roots[i].id]]
     IN  IF spec.user = "root" \/ \E i \in DOMAIN ids : ids[i] = None
         THEN Fail
         ELSE /\ work' = [work EXCEPT ![p] =
                   [@ EXCEPT !.stage = "queue",
                      !.queue = FoldLeft(LAMBDA q, f : IF f \in Range(q) THEN q
                                                       ELSE Append(q, f), <<>>, ids),
                      !.requested = [i \in DOMAIN ids |->
                        [requested |-> roots[i].id, canonical |-> ids[i],
                         kegOnly |-> KegOnlyFor(ids[i], p)]]]]
              /\ UNCHANGED <<world, spec, v2, phase>>

\* A signed dependency is the very name of a formula, never another name for it.
Canonical(f) == f \in DOMAIN world.lookup /\ world.lookup[f] = f

\* validateRuntimeCompatibility: the baseline has the CPU and glibc it needs.
RuntimeCompatible(bottle) == bottle.runs

Minimum(tab, d) == IF d \in DOMAIN tab THEN tab[d] ELSE None

SignedDependencies(f, p) == DependenciesFor(f, p)

\* One turn of the work queue: a formula already resolved is skipped.
Visit(p) ==
  /\ phase = "resolving" /\ work[p].stage = "queue" /\ work[p].queue # <<>>
  /\ LET w == work[p]
         f == Head(w.queue)
         deps == SignedDependencies(f, p)
         bottle == world.formula[f].bottle[p]
     IN  IF f \in DOMAIN w.nodes
         THEN /\ work' = [work EXCEPT ![p].queue = Tail(@)]
              /\ UNCHANGED <<world, spec, v2, phase>>
         ELSE \/ /\ bottle # None /\ RuntimeCompatible(bottle)
                 /\ \A d \in deps : Canonical(d)
                 /\ \E tab \in bottle.tabs :
                      work' = [work EXCEPT ![p] =
                        [@ EXCEPT !.queue = Tail(@) \o SelectSeq(Sorted,
                                    LAMBDA d : d \in deps /\ d \notin DOMAIN w.nodes),
                                  !.nodes = @ @@ (f :> world.formula[f].version),
                                  !.graph = @ @@ (f :> [d \in deps |-> Minimum(tab, d)])]]
                 /\ UNCHANGED <<world, spec, v2, phase>>
              \/ /\ \/ bottle = None
                    \/ bottle # None /\ ~RuntimeCompatible(bottle)
                    \/ \E d \in deps : ~Canonical(d)
                 /\ Fail

satisfies(v, min) ==
  \/ v[1] > min[1]
  \/ v[1] = min[1] /\ v[2] > min[2]
  \/ v[1] = min[1] /\ v[2] = min[2] /\ v[3] >= min[3]

\* A dependency the tab does not mention requires what was selected.
MinimumsHold(w) ==
  \A f \in DOMAIN w.graph, d \in Range(Sorted) :
    d \in DOMAIN w.graph[f] =>
      \/ w.graph[f][d] = None
      \/ satisfies(w.nodes[d], w.graph[f][d])

\* Mutant: a formula that was finished before counts as one being visited.
RECURSIVE topoVisitOnce(_, _, _)
topoVisitOnce(graph, f, s) ==
  IF ~s.ok \/ f \in s.stack \/ f \in Range(s.order) THEN [s EXCEPT !.ok = FALSE]
  ELSE LET deps == SelectSeq(Sorted, LAMBDA d : d \in DOMAIN graph[f])
           t == FoldLeft(LAMBDA acc, d : topoVisitOnce(graph, d, acc),
                         [s EXCEPT !.stack = @ \cup {f}], deps)
       IN  [t EXCEPT !.stack = @ \ {f}, !.order = Append(@, f)]

\* The depth-first walk: on the stack a formula closes a cycle, finished it is
\* passed over.
RECURSIVE topoVisit(_, _, _)
topoVisit(graph, f, s) ==
  IF f \in s.stack THEN [s EXCEPT !.ok = FALSE]
  ELSE IF ~s.ok \/ f \in Range(s.order) THEN s
  ELSE LET deps == SelectSeq(Sorted, LAMBDA d : d \in DOMAIN graph[f])
           t == FoldLeft(LAMBDA acc, d : topoVisit(graph, d, acc),
                         [s EXCEPT !.stack = @ \cup {f}], deps)
       IN  [t EXCEPT !.stack = @ \ {f}, !.order = Append(@, f)]

topoOrder(graph, requested) ==
  FoldLeft(LAMBDA s, r : topoVisit(graph, r.canonical, s),
           [order |-> <<>>, stack |-> {}, ok |-> TRUE], requested)

\* resolution.Validate on the finished record.
Validate(w, order) ==
  /\ Len(order) = Cardinality(DOMAIN w.nodes)
  /\ Range(order) = DOMAIN w.nodes
  /\ \A i \in DOMAIN order :
       DOMAIN w.graph[order[i]] \subseteq Range(SubSeq(order, 1, i - 1))

\* A V2 record also refuses two roots that turn out to be one formula.
ValidateRequestedV2(w) ==
  \A i, j \in DOMAIN w.requested :
    i # j => w.requested[i].canonical # w.requested[j].canonical

Order(p) ==
  /\ phase = "resolving" /\ work[p].stage = "queue" /\ work[p].queue = <<>>
  /\ LET w == work[p]
         t == topoOrder(w.graph, w.requested)
     IN  IF MinimumsHold(w) /\ t.ok /\ Validate(w, t.order)
            /\ (v2 => ValidateRequestedV2(w))
         THEN /\ work' = [work EXCEPT ![p] = [@ EXCEPT !.stage = "image",
                                                       !.order = t.order]]
              /\ UNCHANGED <<world, spec, v2, phase>>
         ELSE Fail

-----------------------------------------------------------------------------
(* The image configuration and the solve: runtime/config.go, handler.go. *)

Executables(f) == world.formula[f].executables

\* No executable of one root may also be another root's.
NoCollision(w) ==
  \A i, j \in DOMAIN w.requested :
    LET f == w.requested[i].canonical
        g == w.requested[j].canonical
    IN  f # g => Executables(f) \cap Executables(g) = {}

\* The keg-only roots, whose own bin directories PATH lists, in request order.
KegOnlyRoots(w) ==
  LET roots == SelectSeq(w.requested, LAMBDA r : r.kegOnly)
  IN  [i \in DOMAIN roots |-> roots[i].canonical]

\* Mutant: the shared bin directory precedes the keg-only roots' own.
GeneratedPATHPrefixFirst(w) ==
  <<"prefix">> \o KegOnlyRoots(w)

GeneratedPATH(w) ==
  KegOnlyRoots(w) \o <<"prefix">>

\* The spec's own PATH replaces the generated one, unless it is empty.
BuildImageConfig(p) ==
  /\ phase = "resolving" /\ work[p].stage = "image"
  /\ IF NoCollision(work[p]) /\ spec.path # "empty"
     THEN /\ work' = [work EXCEPT ![p] =
               [@ EXCEPT !.stage = "solve",
                  !.path = IF spec.path = "own" THEN <<>> ELSE GeneratedPATH(work[p])]]
          /\ UNCHANGED <<world, spec, v2, phase>>
     ELSE Fail

Solve(p) ==
  /\ phase = "resolving" /\ work[p].stage = "solve"
  /\ work' = [work EXCEPT ![p].stage = "solved"]
  /\ UNCHANGED <<world, spec, v2, phase>>

\* A request or a solve fails, which cancels the other callbacks.
CallbackFails(p) ==
  /\ phase = "resolving" /\ work[p].stage \in {"waiting", "queue", "solve"}
  /\ phase' = "cancelled"
  /\ UNCHANGED <<world, spec, v2, work>>

AllProduced == \A p \in Platforms : work[p].stage = "solved"

\* V1 compares the package versions (version and revision) of a canonical name;
\* V2 what a requested name became: the formula, its package version and
\* whether it is keg-only.
PkgVersion(p, f) == SubSeq(work[p].nodes[f], 1, 2)
RootKey(r) == IF v2 THEN r.requested ELSE r.canonical
RootIdentity(p, r) == <<r.canonical, PkgVersion(p, r.canonical), v2 /\ r.kegOnly>>

validateCrossPlatformRoots ==
  \A p, q \in {x \in Platforms : work[x].stage = "solved"} :
    \A i \in DOMAIN work[p].requested, j \in DOMAIN work[q].requested :
      LET a == work[p].requested[i]
          b == work[q].requested[j]
      IN  RootKey(a) = RootKey(b) => RootIdentity(p, a) = RootIdentity(q, b)

Finalize ==
  /\ phase = "resolving" /\ AllProduced
  /\ IF validateCrossPlatformRoots
     THEN phase' = "image" /\ UNCHANGED <<world, spec, v2, work>>
     ELSE Fail

Next ==
  \/ Preflight \/ Finalize
  \/ \E p \in Platforms : \/ LookupRoots(p) \/ Visit(p) \/ Order(p)
                          \/ BuildImageConfig(p) \/ Solve(p) \/ CallbackFails(p)

Spec == Init /\ [][Next]_vars

-----------------------------------------------------------------------------
(* Properties. *)

Formulae == Range(Sorted)
Ids(p) == {world.lookup[r.id] : r \in Range(RootsFor(p))} \ {None}

\* The smallest set with the roots and every dependency on the platform.
Closure(p) ==
  LET Closed(S) == /\ Ids(p) \subseteq S
                   /\ \A f \in S : DependenciesFor(f, p) \cap Formulae \subseteq S
  IN  {f \in Formulae : \A S \in SUBSET Formulae : Closed(S) => f \in S}

\* Version triples in order, each part being below 10.
Rank(v) == 100 * v[1] + 10 * v[2] + v[3]

Resolved == {p \in Platforms : work[p].order # <<>>}

(* A platform's record is the closure of its roots on that platform, no more *)
(* and no less, and its install order names each formula once, after all it  *)
(* depends on, whatever order the queue met them in.                         *)
RecordIsClosure ==
  \A p \in Resolved :
    LET order == work[p].order
    IN  /\ Range(order) = Closure(p) /\ DOMAIN work[p].nodes = Closure(p)
        /\ \A i, j \in DOMAIN order :
             order[i] \in DependenciesFor(order[j], p) => i < j

(* What a bottle's tab says it was built against is never newer than what    *)
(* the record installs, to the bottle's rebuild, and no signed dependency is *)
(* missing from the record's edges.                                          *)
MinimumsMet ==
  \A p \in Resolved : \A f \in DOMAIN work[p].graph :
    LET edges == work[p].graph[f]
    IN  /\ DOMAIN edges = DependenciesFor(f, p)
        /\ \A d \in DOMAIN edges :
             edges[d] # None => Rank(edges[d]) <= Rank(world.formula[d].version)

\* Why a build of one platform may be refused.
Refusable(p) ==
  \/ ~spec.supported \/ spec.user = "root" \/ spec.path = "empty"
  \/ RootsFor(p) = <<>>
  \/ \E i, j \in DOMAIN spec.roots : i # j /\ spec.roots[i].id = spec.roots[j].id
  \/ \E r \in Range(RootsFor(p)) : world.lookup[r.id] = None
  \/ v2 /\ Cardinality(Ids(p)) < Len(RootsFor(p))
  \/ \E f, g \in Ids(p) : f # g /\ Executables(f) \cap Executables(g) # {}
  \/ \E f \in Closure(p) :
       \/ world.formula[f].bottle[p] = None
       \/ ~world.formula[f].bottle[p].runs
       \/ ~(DependenciesFor(f, p) \subseteq Formulae)
       \/ \E tab \in world.formula[f].bottle[p].tabs :
            \E d \in DOMAIN tab \cap DependenciesFor(f, p) :
              ~(Rank(tab[d]) <= Rank(world.formula[d].version))
  \/ \E C \in (SUBSET Closure(p)) \ {{}} : \* a cycle
       \A f \in C : DependenciesFor(f, p) \cap C # {}

(* A build is refused only for a reason in the spec, the snapshot or the     *)
(* registry of one of its platforms, or for a root that is keg-only on one   *)
(* platform and not on another, which only V2 refuses.                       *)
HonestBuilds ==
  phase = "failed" =>
    \/ \E p \in Platforms : Refusable(p)
    \/ v2 /\ \E p, q \in Platforms : \E f \in Ids(p) \cap Ids(q) :
               KegOnlyFor(f, p) # KegOnlyFor(f, q)

(* An image is returned only when every platform was solved, and then a root *)
(* is the same formula at the same version on each, and in V2 equally        *)
(* keg-only, although the platforms were resolved at different moments.      *)
ImageIsOneBuild ==
  phase = "image" =>
    /\ \A p \in Platforms : work[p].stage = "solved"
    /\ \A p, q \in Platforms : \A a \in Range(work[p].requested) :
         \A b \in Range(work[q].requested) :
           a.requested = b.requested =>
             /\ a.canonical = b.canonical
             /\ work[p].nodes[a.canonical] = work[q].nodes[b.canonical]
             /\ v2 => a.kegOnly = b.kegOnly

(* With the generated PATH, the first directory that has a root's executable *)
(* has that root's own, whatever the other formulae of the closure install.  *)
PathFindsRoots ==
  \A p \in Platforms : work[p].path # <<>> =>
    LET w == work[p]
        Owners(d, e) ==
          {f \in DOMAIN w.nodes :
             /\ e \in Executables(f)
             /\ IF d = "prefix" THEN ~KegOnlyFor(f, p) ELSE f = d}
        Found(e) == SelectSeq(w.path, LAMBDA d : Owners(d, e) # {})
    IN  \A r \in Range(w.requested) : \A e \in Executables(r.canonical) :
          r.canonical \in Owners(Head(Found(e)), e)
=============================================================================
