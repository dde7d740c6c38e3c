------------------------- MODULE CatalogGeneration -------------------------
(***************************************************************************)
(* internal/cataloggenerator/generator.go: the fixed point that ingests    *)
(* the taps a request reaches, the selection of its artifacts, and what    *)
(* happens to the generated set afterwards: the service signs it or the    *)
(* frontend uses it directly, the frontend resolves every root again       *)
(* (frontend/noncore.go, noncore_local.go, v2_build.go), and the           *)
(* materializer recomputes the recipe of a derived bottle                  *)
(* (materializer/v2_prepare.go).                                           *)
(*                                                                         *)
(* req maps the requested tags to [core, ext], two sets of Formula IDs.    *)
(* world maps a tap to what its extraction yields, or to NoTap when the    *)
(* extraction fails.  Time is a number: the core snapshot's generation is  *)
(* CoreTime, publication happens at PublishTime.                           *)
(***************************************************************************)
EXTENDS ClosureResolver

CONSTANTS CoreTime, PublishTime,
          MaxDocument, MaxAggregate    \* sizes of one catalog document and of all

NoTap == [tap |-> CoreTap, formulae |-> <<>>, aliases |-> [n \in {} |-> {}],
          renames |-> [n \in {} |-> {}], migrations |-> [n \in {} |-> {}]]

VARIABLES core, world, req, hosted,
          pc,          \* the next step, or "done" or "failed"
          failure,     \* [at, code] of a failed one
          catalogs,    \* tap -> document
          pending,     \* set of taps
          closures,    \* tag -> closure of the last round
          artifacts,   \* tag -> node -> [kind, recipe]
          stamped      \* tap -> published_at of its document

genVars == <<core, world, req, hosted, pc, failure, catalogs, pending, closures, artifacts, stamped>>
inputs == <<core, world, req, hosted>>

Empty == [x \in {} |-> {}]

Fail(at, code) ==
    /\ pc' = "failed"
    /\ failure' = [at |-> at, code |-> code]

Targets == DOMAIN req
RootsOf(tag) == SortedIDs(req[tag].core) \o SortedIDs(req[tag].ext)
RootTaps == UNION {{id[1] : id \in req[t].ext} : t \in Targets}

(***************************************************************************)
(* ValidateRequest: one or two targets, external roots outside core, core  *)
(* roots inside, at least one external root, and the two limits.           *)
(***************************************************************************)
ValidateRequest(q) ==
    /\ DOMAIN q # {}
    /\ \A t \in DOMAIN q : /\ \A id \in q[t].ext : ~ IsCore(id)
                           /\ \A id \in q[t].core : IsCore(id)
    /\ \E t \in DOMAIN q : q[t].ext # {}
    /\ Cardinality(UNION {q[t].core \cup q[t].ext : t \in DOMAIN q}) <= MaxClosureNodes
    /\ Cardinality(UNION {{id[1] : id \in q[t].ext} : t \in DOMAIN q}) <= MaxTaps

\* Generate up to the loop; the core provider may fail, time out or hold
\* another snapshot than the requested one.
Begin(snapshot) ==
    /\ pc = "begin"
    /\ IF ~ ValidateRequest(req) THEN Fail("begin", "policy") /\ UNCHANGED pending
       ELSE IF snapshot # "ok"
            THEN Fail("begin", snapshot) /\ UNCHANGED pending
       ELSE /\ pending' = RootTaps
            /\ pc' = "ingest"
            /\ UNCHANGED failure
    /\ UNCHANGED <<inputs, catalogs, closures, artifacts, stamped>>

(***************************************************************************)
(* One pass over the pending taps that have no document yet, in order.     *)
(***************************************************************************)
WaitingRootsOnly == {t \in pending : t \notin DOMAIN catalogs /\ t \in RootTaps}

Waiting == {t \in pending : t \notin DOMAIN catalogs}

NextTap == CHOOSE t \in Waiting : \A u \in Waiting : t <= u

IngestRefused(code) == Fail("ingest", code) /\ UNCHANGED <<catalogs, pending, stamped>>

File(tap, converted) ==
    IF ~ converted.ok THEN IngestRefused("policy")
    ELSE /\ catalogs' = (tap :> converted.doc) @@ catalogs
         /\ stamped' = (tap :> CoreTime) @@ stamped
         /\ pending' = pending \ {tap}
         /\ UNCHANGED <<pc, failure>>

Ingest ==
    /\ pc = "ingest"
    /\ Waiting # {}
    /\ IF Cardinality(DOMAIN catalogs) >= MaxTaps THEN IngestRefused("policy")
       ELSE IF world[NextTap] = NoTap THEN IngestRefused("invalid_tap")
       ELSE File(NextTap, ToCatalog(world[NextTap], core))
    /\ UNCHANGED <<inputs, closures, artifacts>>

\* The deadline passes.  Only the beginning of a round looks at the context
\* itself (the first round waits for the roots' taps, every other one for the
\* tap that was missing); later in the round it makes an Extract fail, which is
\* reported like any other extraction.
RoundBegins == Waiting # {} /\ (DOMAIN catalogs = {} \/ RootTaps \subseteq DOMAIN catalogs)

Expire ==
    /\ \/ pc = "ingest" /\ RoundBegins /\ Fail("ingest", "timeout")
       \/ pc = "ingest" /\ Waiting # {} /\ Fail("ingest", "invalid_tap")
       \/ pc = "artifacts" /\ Fail("artifacts", "timeout")
    /\ UNCHANGED <<inputs, catalogs, pending, closures, artifacts, stamped>>

(***************************************************************************)
(* The resolver over the documents at hand, target by target until one     *)
(* lacks a tap: NormalizedTargets puts amd64 (BaseTag) first.              *)
(***************************************************************************)
R == [core |-> core, taps |-> catalogs]

ResolutionExternalFirst(tag) ==
    IF RootsOf(tag) = <<>> THEN [NoClosure("", CoreTap) EXCEPT !.taps = {}]
    ELSE Resolve(R, SortedIDs(req[tag].ext) \o SortedIDs(req[tag].core), tag)

Resolution(tag) ==
    IF RootsOf(tag) = <<>> THEN [NoClosure("", CoreTap) EXCEPT !.taps = {}]
    ELSE Resolve(R, RootsOf(tag), tag)

Stops(rs) == {t \in Targets : rs[t].err # ""}
FirstStop(rs) == IF BaseTag \in Stops(rs) THEN BaseTag ELSE CHOOSE t \in Stops(rs) : TRUE

\* What a round does with the answers rs of the resolver.
Round(rs) ==
    IF Stops(rs) = {}
    THEN closures' = rs /\ pc' = "artifacts" /\ UNCHANGED <<failure, pending>>
    ELSE IF rs[FirstStop(rs)].err # "missing"
         THEN Fail("resolve", "policy") /\ UNCHANGED <<closures, pending>>
    ELSE IF \/ rs[FirstStop(rs)].tap = CoreTap
            \/ Cardinality(DOMAIN catalogs) + Cardinality(pending) >= MaxTaps
         THEN Fail("limit", "policy") /\ UNCHANGED <<closures, pending>>
    ELSE pending' = pending \cup {rs[FirstStop(rs)].tap} /\ UNCHANGED <<pc, failure, closures>>

ResolveTargets ==
    /\ pc = "ingest"
    /\ Waiting = {}
    /\ IF NewOK(R) THEN Round([t \in Targets |-> Resolution(t)])
       ELSE Fail("resolve", "policy") /\ UNCHANGED <<closures, pending>>
    /\ UNCHANGED <<inputs, catalogs, artifacts, stamped>>

(***************************************************************************)
(* artifact.go Build and prebuilt_artifact.go selectPrebuilt.  The recipe  *)
(* of a derived bottle depends on the document's published_at.             *)
(***************************************************************************)
requestHasExternalRoot(id, tag) == id \in req[tag].ext

selectPrebuilt(f, node, tag) ==
    /\ f.id \in DOMAIN Policy
    /\ f.pre # {}
    /\ f.ident = Policy[f.id].ident
    /\ f.bottle.tags = {}
    /\ requestHasExternalRoot(f.id, tag)
    /\ node.deps = {}
    /\ tag \in DOMAIN f.var => ~ f.var[tag].un
    /\ node.rebuild = 0
    /\ tag \in Policy[f.id].tags
    /\ tag \in f.pre

Native(id, tag) == IsCore(id) \/ hasNativeBottleForTag(catalogs[id[1]].formulae[id[2]].bottle, tag)

Selects(id, tag) ==
    Native(id, tag) \/ selectPrebuilt(catalogs[id[1]].formulae[id[2]], closures[tag].nodes[id], tag)

Recipe(id, tag, epoch) == [id |-> id, tag |-> tag, epoch |-> epoch]

Artifact(id, tag) ==
    IF Native(id, tag) THEN [kind |-> "native", recipe |-> Recipe(NoID, tag, 0)]
    ELSE [kind |-> "derived", recipe |-> Recipe(id, tag, stamped[id[1]])]

\* The registry or the bottle itself may make a native one fail.
BuildArtifacts(outcome) ==
    /\ pc = "artifacts"
    /\ IF \E t \in Targets : \E id \in DOMAIN closures[t].nodes : ~ Selects(id, t)
       THEN Fail("select", "policy") /\ UNCHANGED artifacts
       ELSE IF outcome # "ok" /\ \E t \in Targets : DOMAIN closures[t].nodes # {}
            THEN Fail("artifacts", outcome) /\ UNCHANGED artifacts
       ELSE /\ artifacts' = [t \in Targets |-> [id \in DOMAIN closures[t].nodes |-> Artifact(id, t)]]
            /\ pc' = "generated"
            /\ UNCHANGED failure
    /\ UNCHANGED <<inputs, catalogs, pending, closures, stamped>>

(***************************************************************************)
(* validateGeneratedSet and ValidateCatalogSetPayload: one result for each *)
(* requested target with its roots, the catalogs exactly the taps that     *)
(* decided something, one identity for a root on every target, one         *)
(* artifact for each node, the node limit over all targets together, and   *)
(* the size limits.  The size of a document counts its Formulae, mappings  *)
(* and dependencies.                                                       *)
(***************************************************************************)
UnionNodes == UNION {DOMAIN closures[t].nodes : t \in Targets}

RootIdentities ==
    UNION {{[requested |-> m[1], resolved |-> m[2], rebuild |-> closures[t].nodes[m[2]].rebuild] :
               m \in closures[t].mappings} : t \in Targets}

WithinUnion == Cardinality(UnionNodes) <= MaxClosureNodes

FormulaSize(f) ==
    1 + Cardinality(f.deps) + MapThenSumSet(LAMBDA t : Cardinality(f.var[t].deps), DOMAIN f.var)

DocumentSize(doc) ==
    Cardinality(doc.scoped) + Cardinality(doc.migrations)
      + MapThenSumSet(LAMBDA n : FormulaSize(doc.formulae[n]), DOMAIN doc.formulae)

WithinBytes ==
    /\ \A t \in DOMAIN catalogs : DocumentSize(catalogs[t]) <= MaxDocument
    /\ MapThenSumSet(LAMBDA t : DocumentSize(catalogs[t]), DOMAIN catalogs) <= MaxAggregate

SetIsValid ==
    /\ DOMAIN closures = Targets
    /\ \A t \in Targets : /\ {m[1] : m \in closures[t].mappings} = req[t].core \cup req[t].ext
                          /\ DOMAIN artifacts[t] = DOMAIN closures[t].nodes
                          /\ closures[t].nodes # Empty => ValidateClosureResult(closures[t])
    /\ DOMAIN catalogs # {} /\ Cardinality(DOMAIN catalogs) <= MaxTaps
    /\ DOMAIN catalogs = UNION {closures[t].taps : t \in Targets}
    /\ \A a, b \in RootIdentities : a.requested = b.requested => a = b
    /\ WithinUnion
    /\ WithinBytes

\* publishGenerated for a hosted request: the documents get the time of
\* publication.  The build-local path keeps the generator's documents and
\* looks at their sizes alone.
Publish ==
    /\ pc = "generated"
    /\ IF ~ (IF hosted THEN SetIsValid ELSE WithinBytes)
       THEN Fail("publish", "invalid") /\ UNCHANGED stamped
       ELSE /\ stamped' = [t \in DOMAIN stamped |-> IF hosted THEN PublishTime ELSE stamped[t]]
            /\ pc' = "recompute"
            /\ UNCHANGED failure
    /\ UNCHANGED <<inputs, catalogs, pending, closures, artifacts>>

\* ResolveNonCoreCatalogs and ResolveNonCoreLocally: every closure again.
Recompute ==
    /\ pc = "recompute"
    /\ IF NewOK(R) /\ \A t \in Targets :
            IF RootsOf(t) = <<>> THEN hosted /\ closures[t].nodes = Empty
            ELSE Resolve(R, RootsOf(t), t) = closures[t]
       THEN pc' = "roots" /\ UNCHANGED failure
       ELSE Fail("recompute", "mismatch")
    /\ UNCHANGED <<inputs, catalogs, pending, closures, artifacts, stamped>>

\* v2RequestedRoots resolves each root on its own.
Usable(c, tag) == c.err = "" /\ c.requested[1] \in DOMAIN closures[tag].nodes

RequestRoots ==
    /\ pc = "roots"
    /\ IF \A t \in Targets : \A id \in req[t].core \cup req[t].ext : Usable(Resolve(R, <<id>>, t), t)
       THEN pc' = "prepare" /\ UNCHANGED failure
       ELSE Fail("roots", "alone")
    /\ UNCHANGED <<inputs, catalogs, pending, closures, artifacts, stamped>>

\* metadataSourcesV2 dates a hosted tap by its published_at and a local one by
\* the core snapshot; expectedPrebuiltRecipeDigestV2 uses that date.
SourceTime(tap) == IF hosted THEN stamped[tap] ELSE CoreTime

Prepare ==
    /\ pc = "prepare"
    /\ IF \A t \in Targets : \A id \in DOMAIN artifacts[t] :
            artifacts[t][id].kind = "derived"
               => artifacts[t][id].recipe = Recipe(id, t, SourceTime(id[1]))
       THEN pc' = "done" /\ UNCHANGED failure
       ELSE Fail("prepare", "recipe")
    /\ UNCHANGED <<inputs, catalogs, pending, closures, artifacts, stamped>>

Step ==
    \/ \E s \in {"ok", "timeout", "unavailable", "policy"} : Begin(s)
    \/ Ingest
    \/ ResolveTargets
    \/ \E o \in {"ok", "missing_bottle", "timeout", "policy"} : BuildArtifacts(o)
    \/ Publish
    \/ Recompute
    \/ RequestRoots
    \/ Prepare

GenNext == Step \/ Expire

Start ==
    /\ pc = "begin"
    /\ failure = [at |-> "", code |-> ""]
    /\ catalogs = Empty
    /\ pending = {}
    /\ closures = Empty
    /\ artifacts = Empty
    /\ stamped = Empty
=============================================================================
