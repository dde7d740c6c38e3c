---------------------------- MODULE MaterializeV2 ----------------------------
(***************************************************************************)
(* The V2 build: llbutil lays out one BuildKit execution per step (fetch,   *)
(* prepare, install each formula, finalize) and the materializer's          *)
(* prepare-v2, install-one-v2 and finalize-v2 commands run in them.  A step *)
(* sees the mounts the steps before it left and keeps its own only when it  *)
(* succeeds, so each is one action; a build that failed starts again at the *)
(* step that failed.                                                        *)
(***************************************************************************)
EXTENDS Integers, Sequences, FiniteSets, Functions

CONSTANTS
    Records,        \* resolutions that pass ValidateV2: [nodes, order, bound, refs]
    Content,        \* bottle digest -> what the archive holds
    Assembles(_),   \* whether AssembleV2 (RuntimeAssemble) accepts a prefix with this Cellar
    MaxSource,      \* bound on the Formula sources together
    MaxPreparation, \* bounds on the evidence of prepare-v2, of one install
    MaxDelta,       \*   and of the build
    MaxMaterialization,
    Framing,        \* what the evidence of the build adds around its pieces
    MaxFaults       \* bound on what the environment does wrong

VARIABLES
    record,         \* the resolution, a readonly mount of every step
    bottles,        \* filename -> digest of the bytes that were delivered
    fetched,        \* evidence number -> what the fetcher says it fetched
    prepared,       \* the output of prepare-v2
    taps,           \* id -> Formula source in the tap trees
    cellar,         \* rack -> digest of the bottle poured into it
    deltas,         \* evidence number -> id
    phase, faults

vars == <<record, bottles, fetched, prepared, taps, cellar, deltas, phase, faults>>

(* What ValidateV2 accepts: ids are unique, and the install order lists     *)
(* every node once, after its dependencies.                                 *)
RecordsValid ==
    \A r \in Records :
      /\ r.order \in Seq({n.id : n \in r.nodes}) /\ r.order # <<>>
      /\ \A m, n \in r.nodes : m.id = n.id => m = n
      /\ \A i, j \in DOMAIN r.order : r.order[i] = r.order[j] => i = j
      /\ \A n \in r.nodes : \E i \in DOMAIN r.order :
            r.order[i] = n.id /\ \A d \in n.deps : \E j \in 1 .. (i - 1) : r.order[j] = d

Nodes == record.nodes
Order == record.order
Node(id) == CHOOSE n \in Nodes : n.id = id
IDs == {n.id : n \in Nodes}
Racks == {n.name : n \in Nodes}
NoPrep == [bottles |-> <<>>, trust |-> {}, verified |-> <<>>, staged |-> <<>>, fetched |-> {}]

Init ==
    /\ record \in Records
    /\ bottles = <<>> /\ fetched = <<>> /\ prepared = NoPrep
    /\ taps = <<>> /\ cellar = <<>> /\ deltas = <<>>
    /\ phase = "fetch" /\ faults = 0

Fails ==
    /\ phase' = "failed"
    /\ UNCHANGED <<record, bottles, fetched, prepared, taps, cellar, deltas>>

(* The build is started again; the steps that succeeded are cached. *)
Rebuild ==
    /\ phase = "failed" /\ faults < MaxFaults
    /\ phase' = CASE bottles = <<>> -> "fetch"
                  [] bottles # <<>> /\ prepared = NoPrep -> "prepare"
                  [] prepared # NoPrep /\ Cardinality(DOMAIN deltas) < Len(Order) -> "install"
                  [] OTHER -> "finalize"
    /\ faults' = faults + 1
    /\ UNCHANGED <<record, bottles, fetched, prepared, taps, cellar, deltas>>

-----------------------------------------------------------------------------
(* BottleStatesV2 *)

FileNamesUnique == \A i, j \in DOMAIN Order : i # j => Node(Order[i]).file # Node(Order[j]).file

(* The images and the platform are those of the record: each of the         *)
(* functions that lays out a step compares them before any step runs.       *)
GraphOK == record.refs /\ FileNamesUnique

(* Mutant: the evidence is numbered among the HTTPS bottles only. *)
EvidenceIndexOfHTTPS(i) == Cardinality({j \in 1 .. i : Node(Order[j]).transport = "https"})

EvidenceIndex(i) == Cardinality({Node(Order[j]).file : j \in 1 .. i})

(* An image blob is addressed by its digest; the fetcher and a build-local  *)
(* bottle deliver whatever they deliver.                                    *)
Delivered(n) == IF n.transport = "oci" THEN {n.digest} ELSE DOMAIN Content

BottleStates ==
    /\ phase = "fetch"
    /\ IF ~GraphOK THEN Fails /\ UNCHANGED faults
       ELSE \E d \in [DOMAIN Order -> DOMAIN Content] :
              LET wrong == {i \in DOMAIN Order : d[i] # Node(Order[i]).digest}
                  https == {i \in DOMAIN Order : Node(Order[i]).transport = "https"}
              IN  /\ \A i \in DOMAIN Order : d[i] \in Delivered(Node(Order[i]))
                  /\ faults + Cardinality(wrong) <= MaxFaults /\ faults' = faults + Cardinality(wrong)
                  /\ bottles' = [f \in {n.file : n \in Nodes} |->
                                   d[CHOOSE i \in DOMAIN Order : Node(Order[i]).file = f]]
                  /\ fetched' = [k \in {EvidenceIndex(i) : i \in https} |->
                                   LET i == CHOOSE j \in https : EvidenceIndex(j) = k
                                   IN  [id |-> Order[i], digest |-> d[i]]]
                  /\ phase' = "prepare"
                  /\ UNCHANGED <<record, prepared, taps, cellar, deltas>>

-----------------------------------------------------------------------------
(* prepare-v2 *)

RuntimePolicyOK == record.bound

FetchEvidenceOK(i) ==
    LET n == Node(Order[i])
    IN  n.transport = "https" =>
          i \in DOMAIN fetched /\ fetched[i] = [id |-> n.id, digest |-> n.digest]

(* VerifyNodeV2: the bytes are those of the record and hold the formula;    *)
(* then the comparisons with what the signed catalog said of the archive.   *)
VerifyNode(n, digest) ==
    /\ digest = n.digest
    /\ Content[digest].name = n.name /\ Content[digest].version = n.version

DerivedBottleOK(n, c) == n.derived => ~c.receipt /\ c.payload = n.payload

VerifyPrepared(n, c) ==
    /\ n.transport \in {"https", "local"} => (n.receiptless <=> ~c.receipt)
    /\ DerivedBottleOK(n, c)
    /\ c.standalone
    /\ ~n.deferred => c.source = n.source /\ c.inventory = n.inventory

TotalSize(digests) == FoldFunction(+, 0, [i \in DOMAIN digests |-> Content[digests[i]].size])

(* The evidence: a summary of each bottle, the changes of each pour. *)
PreparationBytes(digests) == FoldFunction(+, 0, [i \in DOMAIN digests |-> Content[digests[i]].summary])
DeltaBytes(digests) == FoldFunction(+, 0, [i \in DOMAIN digests |-> Content[digests[i]].delta])

SourceBytes == TotalSize([i \in DOMAIN Order |-> bottles[Node(Order[i]).file]])

TrustFile == {n.id : n \in {m \in Nodes : m.tap # "core"}}

(* StageFormulaeV2: one file per formula, created exclusively. *)
RacksUnique == \A m, n \in Nodes : m # n => m.name # n.name

PrepareChecks ==
    /\ RuntimePolicyOK /\ RacksUnique
    /\ \A n \in Nodes : n.derived => n.authorized
    /\ \A i \in DOMAIN Order :
          LET n == Node(Order[i])
          IN  /\ FetchEvidenceOK(i)
              /\ VerifyNode(n, bottles[n.file])
              /\ VerifyPrepared(n, Content[bottles[n.file]])
    /\ SourceBytes <= MaxSource
    /\ PreparationBytes([id \in IDs |-> bottles[Node(id).file]]) <= MaxPreparation

Prepare ==
    /\ phase = "prepare"
    /\ UNCHANGED faults
    /\ IF PrepareChecks
       THEN LET sources == [id \in IDs |-> Content[bottles[Node(id).file]].source]
            IN  /\ prepared' = [bottles |-> bottles, trust |-> TrustFile,
                                verified |-> [id \in IDs |-> bottles[Node(id).file]],
                                staged |-> sources,
                                fetched |-> {fetched[i] : i \in DOMAIN fetched}]
                /\ taps' = sources
                /\ phase' = "install"
                /\ UNCHANGED <<record, bottles, fetched, cellar, deltas>>
       ELSE Fails

-----------------------------------------------------------------------------
(* validatePreparationEvidenceV2, after readBoundedEvidenceFile. *)
PreparationOK ==
    /\ PreparationBytes(prepared.verified) <= MaxPreparation
    /\ DOMAIN prepared.verified = IDs /\ DOMAIN prepared.staged = IDs
    /\ \A n \in Nodes :
          /\ prepared.verified[n.id] = n.digest
          /\ ~n.deferred => prepared.staged[n.id] = n.source
    /\ {e.id : e \in prepared.fetched} = {n.id : n \in {m \in Nodes : m.transport = "https"}}
    /\ \A e \in prepared.fetched : e.digest = Node(e.id).digest

-----------------------------------------------------------------------------
(* install-one-v2 *)

(* verifyInstalledPrefixCount: the Cellar holds the first racks of the      *)
(* install order, each at its version with a valid receipt.                 *)
InstalledPrefix(c, count) ==
    /\ DOMAIN c = {Node(Order[i]).name : i \in 1 .. count}
    /\ \A i \in 1 .. count : Content[c[Node(Order[i]).name]].version = Node(Order[i]).version

InstallIndex == Cardinality(DOMAIN deltas) + 1

StagedDigest(n) == IF n.deferred THEN prepared.staged[n.id] ELSE n.source

InstallChecks(n) ==
    /\ RuntimePolicyOK
    /\ prepared.trust = TrustFile
    /\ InstalledPrefix(cellar, InstallIndex - 1)
    /\ VerifyNode(n, prepared.bottles[n.file]) /\ DerivedBottleOK(n, Content[prepared.bottles[n.file]])
    /\ PreparationOK
    /\ taps[n.id] = StagedDigest(n)

(* What brew may do: its work, or its work and more.  classify and          *)
(* reconcileInstalledKeg, modelled in PrefixInstall, refuse a rack that is  *)
(* not the formula's.                                                       *)
With(f, x, y) == [z \in DOMAIN f \cup {x} |-> IF z = x THEN y ELSE f[z]]

Poured(n) == With(cellar, n.name, prepared.bottles[n.file])

Pours(n) ==
    LET honest == Poured(n)
    IN  {[cellar |-> honest, taps |-> taps]}
          \cup {[cellar |-> With(honest, r, d), taps |-> taps] : r \in Racks, d \in DOMAIN Content}
          \cup {[cellar |-> honest, taps |-> [taps EXCEPT ![id] = "other"]] : id \in DOMAIN taps}
          \cup {[cellar |-> cellar, taps |-> taps]}

Accept(n, after) ==
    /\ after.taps = taps
    /\ \A r \in DOMAIN after.cellar \cap DOMAIN cellar : after.cellar[r] = cellar[r]
    /\ n.name \in DOMAIN after.cellar => after.cellar[n.name] = prepared.bottles[n.file]
    /\ InstalledPrefix(after.cellar, InstallIndex)
    /\ Content[prepared.bottles[n.file]].delta <= MaxDelta

Install ==
    /\ phase = "install"
    /\ LET n == Node(Order[InstallIndex])
       IN  IF ~InstallChecks(n) THEN Fails /\ UNCHANGED faults
           ELSE \E after \in Pours(n) :
                  LET honest == after = [cellar |-> Poured(n), taps |-> taps]
                  IN  /\ faults' = IF honest THEN faults ELSE faults + 1
                      /\ faults' <= MaxFaults
                      /\ IF Accept(n, after)
                         THEN /\ cellar' = after.cellar /\ taps' = after.taps
                              /\ deltas' = With(deltas, InstallIndex, n.id)
                              /\ phase' = IF InstallIndex = Len(Order) THEN "finalize" ELSE "install"
                              /\ UNCHANGED <<record, bottles, fetched, prepared>>
                         ELSE Fails

(* A step that runs out of time or memory, or whose worker is lost. *)
StepLost ==
    /\ phase \in {"fetch", "prepare", "install", "finalize"} /\ faults < MaxFaults
    /\ faults' = faults + 1
    /\ Fails

-----------------------------------------------------------------------------
(* finalize-v2 *)

ClosureOK ==
    /\ DOMAIN cellar = Racks
    /\ \A n \in Nodes : Content[cellar[n.name]].version = n.version

(* The evidence of the build is no longer than its bound: the sum while the *)
(* pieces are read, then the document that holds them.                      *)
EvidenceFits(verified, poured) ==
    PreparationBytes(verified) + DeltaBytes(poured) + Framing <= MaxMaterialization

(* collectMaterializationEvidenceV2 *)
PouredAt(i) == cellar[Node(deltas[i]).name]
DeltasOK ==
    /\ Cardinality({deltas[i] : i \in DOMAIN deltas}) = Cardinality(DOMAIN deltas)
    /\ {deltas[i] : i \in DOMAIN deltas} = {Order[i] : i \in DOMAIN Order}
    /\ \A i \in DOMAIN deltas : Content[PouredAt(i)].delta <= MaxDelta
    /\ EvidenceFits(prepared.verified, [i \in DOMAIN deltas |-> PouredAt(i)])

Finalize ==
    /\ phase = "finalize"
    /\ UNCHANGED faults
    /\ IF RuntimePolicyOK /\ ClosureOK /\ Assembles(cellar) /\ PreparationOK /\ DeltasOK
       THEN phase' = "done" /\ UNCHANGED <<record, bottles, fetched, prepared, taps, cellar, deltas>>
       ELSE Fails

Next == BottleStates \/ Prepare \/ Install \/ Finalize \/ StepLost \/ Rebuild

Spec == Init /\ [][Next]_vars

-----------------------------------------------------------------------------
Finished == [r \in Racks |-> (CHOOSE n \in Nodes : n.name = r).digest]

(* A resolution that agrees with its bottles, each of which respects the    *)
(* bounds that prepare-v2 and install-one-v2 set it.                        *)
Honest ==
    /\ record.bound /\ record.refs /\ FileNamesUnique /\ RacksUnique
    /\ TotalSize([i \in DOMAIN Order |-> Node(Order[i]).digest]) <= MaxSource
    /\ PreparationBytes([id \in IDs |-> Node(id).digest]) <= MaxPreparation
    /\ \A n \in Nodes :
          LET c == Content[n.digest]
          IN  /\ c.name = n.name /\ c.version = n.version /\ c.standalone /\ c.delta <= MaxDelta
              /\ n.transport # "oci" => (n.receiptless <=> ~c.receipt)
              /\ ~n.deferred => c.source = n.source /\ c.inventory = n.inventory
              /\ n.derived => n.authorized /\ ~c.receipt /\ c.payload = n.payload

(* A finished V2 build holds, in every rack of the resolution and in no     *)
(* other, the bottle the resolution names, whatever was delivered, whatever *)
(* brew did beside its work, and however often the build was restarted.     *)
FinishedHoldsTheResolution ==
    phase = "done" => cellar = Finished

(* A formula is poured only from a Formula source that its own verified     *)
(* bottle holds, after the formulae it depends on.                          *)
PouredFromItsBottle ==
    [][\A n \in Nodes : n.name \in DOMAIN cellar' \ DOMAIN cellar =>
          /\ cellar'[n.name] = n.digest
          /\ taps[n.id] = Content[n.digest].source /\ taps' = taps
          /\ Content[n.digest].standalone
          /\ \A d \in n.deps : Node(d).name \in DOMAIN cellar]_vars

(* finalize-v2 has two reasons of its own to refuse a build whose every     *)
(* other step succeeded: the evidence of the steps, each part within its    *)
(* bound, is too long together, or AssembleV2 refuses the prefix.           *)
FinalizeAccepts ==
    /\ EvidenceFits([id \in IDs |-> Node(id).digest], [i \in DOMAIN Order |-> Node(Order[i]).digest])
    /\ Assembles(Finished)

(* The checks of the steps agree with each other but for these two: when    *)
(* nothing was delivered wrong, nothing lost and brew did its work, prepare *)
(* and every install accept what the steps before them made, and only       *)
(* finalize may refuse, for one of its own reasons and after every formula  *)
(* was poured.                                                              *)
HonestRefusedLast ==
    faults = 0 /\ Honest /\ phase = "failed" => cellar = Finished /\ ~FinalizeAccepts

(* A build that finishes holds the resolution, and an honest one fails only *)
(* for what finalize alone decides.                                         *)
BuildDelivers == FinishedHoldsTheResolution /\ HonestRefusedLast

=============================================================================
