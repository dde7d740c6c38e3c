--------------------------- MODULE DescriptorChain ---------------------------
(* Ingestion of one bottle from an OCI registry: the source identity and the *)
(* descriptor chain of internal/homebrew/oci (discover.go, resolve.go,       *)
(* identity.go, referrers.go) as internal/cataloggenerator (artifact.go,     *)
(* provenance.go) uses them.                                                 *)
(*                                                                           *)
(* The tag of an index is mutable and is read twice, everything below it is  *)
(* read by digest; the digest of a document is the document.  The publisher  *)
(* may push another index, or attach a referrer, between any two requests.   *)
EXTENDS Naturals, Sequences, FiniteSets, Functions

CONSTANTS
  Kinds,        \* {"core", "tap"}
  Target,       \* the bottle tag of the platform
  Catalogues,   \* what the catalog may say: bottle tag -> checksum
  Indexes,      \* what the publisher may push
  Referrers,    \* sets of referrers the publisher may attach
  SourceAt,     \* the Formula at a commit of the source repository
  Bottles,      \* checksum -> [formula, receipt], a receipt's dependencies
                \* or None without a receipt
  Branch,       \* the default branch of the source repository
  Bundles,      \* bundle URL -> the bundle found there
  MaxPushes, MaxFaults,
  None

VARIABLES
  kind, files,  \* the request
  tag,          \* the registry: the index the tag names
  referrers,    \* the registry: the referrers of the bottle's manifest
  pushed,       \* the registry: every index the tag has named
  stage, commit, index, child, provenance,
  faults

(* No platform's own tag is the one of a bottle for all.                     *)
TargetSound == Target # "all"

request == <<kind, files>>
registry == <<tag, referrers, pushed>>
held == <<commit, index, child, provenance>>
vars == <<kind, files, tag, referrers, pushed, stage, commit, index, child,
          provenance, faults>>

Init ==
  /\ kind \in Kinds /\ files \in Catalogues
  /\ tag \in Indexes /\ pushed = {tag}
  /\ referrers \in Referrers
  /\ stage = "discover"
  /\ commit = None /\ index = None /\ child = None /\ provenance = None
  /\ faults = 0

Fails == stage' = "failed" /\ UNCHANGED held

(* A response that is refused: another status, type, length or digest than   *)
(* FetchManifest, FetchConfig or FetchBlobTo ask for.                        *)
Refused == faults < MaxFaults /\ faults' = faults + 1 /\ Fails

-----------------------------------------------------------------------------
(* DiscoverAuthenticatedFormulaIdentity and DiscoverCoreFormulaIdentity.     *)
Discover ==
  /\ stage = "discover"
  /\ \/ Refused
     \/ /\ IF tag.labels.exact /\ tag.labels.commit # None
             THEN /\ commit' = tag.labels.commit /\ stage' = "index"
                  /\ UNCHANGED <<index, child, provenance>>
             ELSE Fails
        /\ UNCHANGED faults
  /\ UNCHANGED <<request, registry>>

(* validateCommonAnnotations takes any commit of homebrew/core;              *)
(* validateAuthenticatedCommonAnnotations only the discovered one.           *)
LabelsOKAnyCommit(labels) == labels.exact

LabelsOK(labels) ==
  labels.exact /\ (kind = "core" \/ labels.commit = commit)

(* selectBottleFileFromMap: the platform's own bottle before "all".          *)
SelectedTag == IF Target \in DOMAIN files THEN Target ELSE "all"
All == SelectedTag = "all"

(* parseBottleTabWith: the tab of an "all" bottle names no architecture.      *)
TabOK(tab) == tab.arch = IF All THEN None ELSE Target

(* validateSelectedPlatform: an "all" bottle has no platform anywhere,        *)
(* another the target's everywhere.                                          *)
PlatformOK(c) ==
  c.platform = (IF All THEN None ELSE Target) /\ TabOK(c.tab)

Chosen(x) == {i \in DOMAIN x.children : x.children[i].ref = SelectedTag}

(* validateAndSelectIndexWith.                                               *)
IndexOK(x) ==
  /\ LabelsOK(x.labels)
  /\ x.children # <<>>
  /\ \A i \in DOMAIN x.children : x.children[i].sound
  /\ IsInjective([i \in DOMAIN x.children |-> x.children[i].ref])
  /\ Chosen(x) # {}
  /\ \A i \in Chosen(x) :
       PlatformOK(x.children[i]) /\ x.children[i].sum = files[SelectedTag]

FetchIndex ==
  /\ stage = "index"
  /\ \/ Refused
     \/ /\ IF SelectedTag \in DOMAIN files /\ IndexOK(tag)
             THEN /\ index' = tag
                  /\ child' = tag.children[CHOOSE i \in Chosen(tag) : TRUE]
                  /\ stage' = "manifest"
                  /\ UNCHANGED <<commit, provenance>>
             ELSE Fails
        /\ UNCHANGED faults
  /\ UNCHANGED <<request, registry>>

(* validateManifestWith: one layer, the catalog's, and the annotations of the *)
(* descriptor that led here.                                                 *)
LayersOK(layers) ==
  /\ Len(layers) = 1
  /\ layers[1].sound /\ layers[1].sum = files[SelectedTag]
  /\ layers[1].title = SelectedTag

ManifestOK(m) ==
  /\ LabelsOK(m.labels)
  /\ m.sum = child.sum /\ m.tab = child.tab /\ child.bundle \in {None, m.bundle}
  /\ m.sum = files[SelectedTag]
  /\ LayersOK(m.layers)

(* FetchManifest, FetchConfig and FetchBlobTo, each by digest: the documents *)
(* are the ones the index led to, or refused.                                *)
FetchManifest ==
  /\ stage = "manifest"
  /\ \/ Refused
     \/ /\ IF ManifestOK(child.manifest)
             THEN stage' = "config" /\ UNCHANGED held ELSE Fails
        /\ UNCHANGED faults
  /\ UNCHANGED <<request, registry>>

ConfigOK(config) ==
  /\ config.diffs = 1
  /\ IF All THEN config.platform # None ELSE config.platform = Target

FetchConfig ==
  /\ stage = "config"
  /\ \/ Refused
     \/ /\ IF ConfigOK(child.manifest.config)
             THEN stage' = "layer" /\ UNCHANGED held ELSE Fails
        /\ UNCHANGED faults
  /\ UNCHANGED <<request, registry>>

-----------------------------------------------------------------------------
(* finishOCI: the layer, its inspection, the source at the recorded commit,  *)
(* the evidence, and the receipt of the bottle against the tab of the index. *)
Layer == child.manifest.layers[1].sum

(* verifyAnnotatedFormulaSource.                                             *)
SourceOK(bottle) == SourceAt[commit] = bottle.formula

(* reflect.DeepEqual of what catalogDependencies makes of the receipt and    *)
(* catalogBottleTab of the tab: without dependencies the one is an empty     *)
(* slice, the other nil, and they differ.                                    *)
ReceiptOK(bottle) ==
  bottle.receipt = None \/ (bottle.receipt = child.tab.deps /\ bottle.receipt # {})

FetchLayer ==
  /\ stage = "layer"
  /\ \/ Refused
     \/ /\ IF SourceOK(Bottles[Layer])
             THEN stage' = "evidence" /\ UNCHANGED held ELSE Fails
        /\ UNCHANGED faults
  /\ UNCHANGED <<request, registry>>

(* provenanceAnnotations over the index, the descriptor and the manifest.    *)
Annotated == {index.bundle, child.bundle, child.manifest.bundle} \ {None}

(* verifySigstoreBundle against the layer, the source repository's workflows *)
(* and its default branch.                                                   *)
BundleOK(bundle) ==
  bundle.subject = Layer /\ bundle.repository = kind /\ bundle.branch = Branch

Verified(bundle) == [bundle |-> bundle, waived |-> FALSE, advertised |-> TRUE]

Waived == [bundle |-> None, waived |-> TRUE,
           advertised |-> \E r \in referrers : r.artifactType = "bundle"]

Concludes(evidence) ==
  IF ReceiptOK(Bottles[Layer])
    THEN /\ provenance' = evidence /\ stage' = "done"
         /\ UNCHANGED <<commit, index, child>>
    ELSE Fails

FromAnnotation ==
  LET url == CHOOSE u \in Annotated : TRUE
  IN IF /\ Cardinality(Annotated) = 1 /\ url.url \in DOMAIN Bundles /\ url.digest # None
        /\ Bundles[url.url].digest = url.digest /\ BundleOK(Bundles[url.url])
       THEN Concludes(Verified(Bundles[url.url]))
       ELSE Fails

(* validateDescriptor, as FetchSigstoreBundleReferrer applies it to each     *)
(* candidate.                                                                *)
DescriptorOK(d) == d.sound /\ d.artifactType = ""

(* FetchSigstoreBundleReferrer on the manifest.                              *)
FromReferrer ==
  LET candidates == {r \in referrers : r.artifactType = "bundle"}
      the == CHOOSE r \in candidates : TRUE
  IN \/ (\E r \in candidates : ~DescriptorOK(r)) /\ Fails
     \/ candidates = {} /\ Concludes(Waived)
     \/ /\ candidates # {} /\ \A r \in candidates : DescriptorOK(r)
        /\ IF /\ Cardinality(candidates) = 1
              /\ the.subject = child.manifest /\ BundleOK(the.bundle)
             THEN Concludes(Verified(the.bundle))
             ELSE Fails

Evidence ==
  /\ stage = "evidence"
  /\ \/ Refused
     \/ /\ IF Annotated # {} THEN FromAnnotation ELSE FromReferrer
        /\ UNCHANGED faults
  /\ UNCHANGED <<request, registry>>

-----------------------------------------------------------------------------
(* The publisher pushes another index to the tag, or attaches referrers.     *)
Push ==
  /\ stage \notin {"done", "failed"} /\ Cardinality(pushed) <= MaxPushes
  /\ \E x \in Indexes : tag' = x /\ pushed' = pushed \cup {x}
  /\ UNCHANGED <<request, referrers, stage, held, faults>>

Attach ==
  /\ stage \notin {"done", "failed"} /\ referrers = {}
  /\ referrers' \in Referrers
  /\ UNCHANGED <<request, tag, pushed, stage, held, faults>>

Next == Discover \/ FetchIndex \/ FetchManifest \/ FetchConfig \/ FetchLayer
          \/ Evidence \/ Push \/ Attach

Spec == Init /\ [][Next]_vars

-----------------------------------------------------------------------------
(* A bottle that is ingested is one build throughout, though the tag may     *)
(* move between the two reads of the index: the chain hangs from an index the *)
(* tag named, ends in the one layer the catalog lists for this platform, and, *)
(* outside homebrew/core, the recorded commit is that index's.               *)
IngestedIsOneBuild ==
  stage = "done" =>
    LET m == child.manifest
        own == Target \in DOMAIN files
    IN /\ index \in pushed /\ \E i \in DOMAIN index.children : index.children[i] = child
       /\ Len(m.layers) = 1
       /\ m.layers[1].sum = IF own THEN files[Target] ELSE files["all"]
       /\ own => m.config.platform = Target
       /\ kind = "tap" => index.labels.commit = commit /\ m.labels.commit = commit

(* The Formula inside the bottle is the one at the recorded commit, in       *)
(* homebrew/core too, where the second read of the index is not held to the  *)
(* commit of the first.                                                      *)
SourceReproduces == stage = "done" => SourceAt[commit] = Bottles[Layer].formula

(* Evidence is waived only when none was advertised on any of the three      *)
(* documents or as a referrer, and verified evidence is about this layer,    *)
(* made by a workflow of the source repository on its default branch.        *)
EvidenceIsHonest ==
  stage = "done" =>
    IF provenance.waived
      THEN /\ ~provenance.advertised
           /\ {index.bundle, child.bundle, child.manifest.bundle} = {None}
      ELSE /\ provenance.bundle.subject = Layer
           /\ provenance.bundle.repository = kind
           /\ provenance.bundle.branch = Branch

(* An ingested bottle is one build of its source, with evidence about it.    *)
IngestedIsHonest == IngestedIsOneBuild /\ SourceReproduces /\ EvidenceIsHonest

(* What an honest publisher has pushed, left alone and served without fault. *)
Undisturbed ==
  /\ faults = 0 /\ Cardinality(pushed) = 1 /\ kind \in tag.honest
  /\ files = [t \in {tag.children[1].ref} |-> tag.children[1].sum]

(* Such a bottle is ingested, for the platform's own bottle and for an "all" *)
(* bottle, unless a referrer is attached or its receipt has no runtime       *)
(* dependencies; the latter never is.                                        *)
HonestIngested ==
  Undisturbed /\ referrers = {} =>
    LET bare == Bottles[tag.children[1].sum].receipt = {}
    IN (stage = "failed" => bare) /\ (stage = "done" => ~bare)

(* Such a bottle, with dependencies in its receipt, is also ingested when    *)
(* its one Sigstore bundle is advertised through an OCI 1.1 referrer.        *)
HonestReferrerIngested ==
  (/\ stage = "failed" /\ Cardinality(referrers) = 1
   /\ Bottles[tag.children[1].sum].receipt # {}
   /\ \A r \in referrers : /\ r.honest /\ r.bundle.repository = kind
                           /\ r.subject = tag.children[1].manifest)
     => ~Undisturbed
=============================================================================
