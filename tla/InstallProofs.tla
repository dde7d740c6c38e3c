--------------------------- MODULE InstallProofs ----------------------------
(***************************************************************************)
(* What the materializer leaves on disk, for every value of the constants: *)
(* the receipt of a keg (ReceiptNormalize) and the Cellar of a V2 build    *)
(* (MaterializeV2). MCInstaller model-checks the same instances.           *)
(***************************************************************************)
EXTENDS Integers, Sequences, FiniteSets, FiniteSetTheorems, TLAPS

CONSTANTS MaxEdits, Records, Content, Assembles(_), MaxSource, MaxPreparation, MaxDelta,
          MaxMaterialization, Framing, MaxFaults

VARIABLES
  record, bottles, fetched, prepared, taps, cellar, deltas, building, faults,
  receipt, temp, seen, replacing, result, edits, compared

(* The receipt of a keg. *)
R == INSTANCE ReceiptNormalize WITH phase <- replacing

(* The inductive invariant behind ReceiptSafe: which temporary file exists   *)
(* at every phase, and that the rename comes right after the comparison.     *)
ReceiptInv ==
  /\ receipt \in [inode : Nat, content : R!Contents \cup {"normal"}, links : {1, 2}]
  /\ temp \in {"none", "partial", "normal"}
  /\ edits \in Nat
  /\ replacing \in {"read", "create", "write", "compare", "rename", "committed", "cleanup", "done"}
  /\ replacing \in {"read", "create", "committed"} => temp = "none"
  /\ replacing \in {"compare", "rename"} => temp = "normal"
  /\ replacing = "rename" => compared = seen.content
  /\ replacing = "done" /\ temp # "none" => result = "temporary left"

(* A poured keg with its receipt.                                            *)
LEMMA ReceiptInit == R!Init => ReceiptInv
  BY DEF R!Init, ReceiptInv, R!Contents

(* Another process rewrites the receipt whole.                               *)
LEMMA EditKeepsWhole ==
  ASSUME ReceiptInv, R!Edit
  PROVE  /\ receipt' \in [inode : Nat, content : R!Contents \cup {"normal"}, links : {1, 2}]
         /\ receipt'.content \in {"complete", "edited"}
  <1>1. PICK c \in {"complete", "edited"} :
          receipt' \in {[receipt EXCEPT !.content = c],
                        [inode |-> receipt.inode + 1, content |-> c, links |-> 1]}
    BY DEF R!Edit
  <1>2. c \in R!Contents \cup {"normal"}
    BY DEF R!Contents
  <1>3. CASE receipt' = [receipt EXCEPT !.content = c]
    BY <1>2, <1>3, Zenon DEF ReceiptInv
  <1>4. CASE receipt' = [inode |-> receipt.inode + 1, content |-> c, links |-> 1]
    <2>1. receipt.inode \in Nat
      BY Zenon DEF ReceiptInv
    <2>2. receipt.inode + 1 \in Nat
      BY <2>1
    <2> QED
      BY <1>2, <1>4, <2>2
  <1> QED
    BY <1>1, <1>3, <1>4

(* Every step keeps the invariant.                                           *)
LEMMA ReceiptStep == ReceiptInv /\ [R!Next]_R!vars => ReceiptInv'
  <1> SUFFICES ASSUME ReceiptInv, [R!Next]_R!vars PROVE ReceiptInv'
    OBVIOUS
  <1> USE DEF ReceiptInv, R!Contents, R!Continue, R!Return
  <1>1. CASE R!Edit
    BY <1>1, EditKeepsWhole DEF R!Edit
  <1>2. CASE R!Read
    BY <1>2 DEF R!Read
  <1>3. CASE R!Create \/ R!WriteTemp \/ R!Compare
    BY <1>3, Zenon DEF R!Create, R!WriteTemp, R!Compare
  <1>4. CASE R!Rename
    BY <1>4 DEF R!Rename
  <1>5. CASE R!VerifyCommitted \/ R!StepFails \/ R!Cleanup \/ R!CleanupFails
    BY <1>5, Zenon DEF R!VerifyCommitted, R!StepFails, R!Cleanup, R!CleanupFails
  <1>6. CASE UNCHANGED R!vars
    BY <1>6, Zenon DEF R!vars
  <1> QED
    BY <1>1, <1>2, <1>3, <1>4, <1>5, <1>6, Zenon DEF R!Next

(* The normalised receipt appears by the rename only.                        *)
LEMMA OnlyRenameNormalises ==
  ASSUME ReceiptInv, [R!Next]_R!vars, receipt'.content = "normal", receipt.content # "normal"
  PROVE  compared = seen.content
  <1>1. ~R!Edit
    BY EditKeepsWhole
  <1>2. R!Rename
    BY <1>1, Zenon
    DEF R!Next, R!vars, R!Read, R!Create, R!WriteTemp, R!Compare, R!VerifyCommitted, R!StepFails,
        R!Cleanup, R!CleanupFails
  <1> QED
    BY <1>2 DEF R!Rename, ReceiptInv

(* Whoever reads the receipt while it is normalised finds a whole one, and  *)
(* no temporary file stays in the keg.                                      *)
ReceiptSafe == R!ReceiptSafe

(* Whoever reads INSTALL_RECEIPT.json while it is normalised finds a whole   *)
(* one, a temporary file never stays unreported, and the normalised receipt  *)
(* replaces the content that was compared.                                   *)
THEOREM ReceiptReplacedSafely == R!Spec => []ReceiptSafe /\ R!EditsNotOverwritten
  <1>1. ReceiptInv => ReceiptSafe
    BY Zenon DEF ReceiptInv, ReceiptSafe, R!ReceiptSafe, R!ReceiptIsWhole, R!NoTemporaryLeft
  <1>2. ReceiptInv /\ [R!Next]_R!vars =>
          [receipt'.content = "normal" /\ receipt.content # "normal" => compared = seen.content]_R!vars
    BY OnlyRenameNormalises
  <1> QED
    BY <1>1, <1>2, ReceiptInit, ReceiptStep, PTL DEF R!Spec, R!EditsNotOverwritten

-----------------------------------------------------------------------------
(* The steps of a V2 build. *)
V == INSTANCE MaterializeV2 WITH phase <- building

(* How many formulae were poured.                                            *)
Count == V!Cardinality(DOMAIN deltas)

Named(i) == V!Node(V!Order[i])

(* What ValidateV2 accepts of the resolution in hand.                        *)
ValidRecord ==
  /\ V!Order \in Seq(V!IDs) /\ V!Order # <<>>
  /\ \A m, n \in V!Nodes : m.id = n.id => m = n
  /\ \A i, j \in DOMAIN V!Order : V!Order[i] = V!Order[j] => i = j
  /\ \A n \in V!Nodes : \E i \in DOMAIN V!Order :
        V!Order[i] = n.id /\ \A d \in n.deps : \E j \in 1 .. (i - 1) : V!Order[j] = d

(* What prepare-v2 leaves: the sources out of the verified bottles, staged,  *)
(* and the evidence.                                                         *)
Sources == [id \in V!IDs |-> Content[bottles[V!Node(id).file]].source]
Preparation ==
  [bottles |-> bottles, trust |-> V!TrustFile,
   verified |-> [id \in V!IDs |-> bottles[V!Node(id).file]],
   staged |-> Sources, fetched |-> {fetched[i] : i \in DOMAIN fetched}]

(* From prepare-v2 on: what it checked still holds of the bottles, which are *)
(* a read-only mount of the later steps.                                     *)
PreparedStands ==
  /\ prepared = Preparation /\ taps = Sources
  /\ bottles # <<>>
  /\ V!RacksUnique
  /\ \A i \in DOMAIN V!Order :
        /\ bottles[Named(i).file] = Named(i).digest
        /\ Content[Named(i).digest].standalone

(* The Cellar holds the first racks of the install order, each with its      *)
(* bottle; the deltas name them.                                             *)
Progress ==
  /\ Count \in 0 .. Len(V!Order) /\ DOMAIN deltas = 1 .. Count
  /\ DOMAIN cellar = {Named(i).name : i \in 1 .. Count}
  /\ \A i \in 1 .. Count : deltas[i] = V!Order[i] /\ cellar[Named(i).name] = Named(i).digest
  /\ cellar = [r \in DOMAIN cellar |-> cellar[r]]

(* The inductive invariant behind FinishedHoldsTheResolution: which of the   *)
(* two stands at which step, across failures and restarts.                   *)
BuildInv ==
  /\ ValidRecord /\ Progress
  /\ building \in {"fetch", "prepare", "install", "finalize", "done", "failed"}
  /\ building \in {"fetch", "prepare"} => prepared = V!NoPrep
  /\ building = "prepare" => bottles # <<>>
  /\ prepared = V!NoPrep => Count = 0
  /\ prepared # V!NoPrep => PreparedStands
  /\ building \in {"install", "finalize", "done"} => prepared # V!NoPrep
  /\ building = "install" => Count < Len(V!Order)
  /\ building \in {"finalize", "done"} => Count = Len(V!Order)

(* Cardinality of the intervals and their subsets.                           *)
LEMMA CountFacts ==
  /\ \A S : V!Cardinality(S) = Cardinality(S)
  /\ \A k \in Nat : V!Cardinality(1 .. k) = k
  /\ V!Cardinality({}) = 0
  /\ \A k \in Nat : IsFiniteSet(1 .. k)
  /\ \A k \in Nat : \A S \in SUBSET (1 .. k) :
        V!Cardinality(S) \in Nat /\ (V!Cardinality(S) = 0 => S = {})
<1>1. \A S : V!Cardinality(S) = Cardinality(S)
  BY Zenon DEF V!Cardinality, Cardinality, V!IsFiniteSet, IsFiniteSet
<1>2. \A k \in Nat : V!Cardinality(1 .. k) = k
  BY <1>1, FS_Interval
<1>3. \A k \in Nat : IsFiniteSet(1 .. k)
  BY FS_Interval
<1>4. ASSUME NEW k \in Nat, NEW S \in SUBSET (1 .. k)
      PROVE  V!Cardinality(S) \in Nat /\ (V!Cardinality(S) = 0 => S = {})
  <2>1. IsFiniteSet(S)
    BY <1>3, FS_Subset, Zenon
  <2>2. Cardinality(S) \in Nat
    BY <2>1, FS_CardinalityType
  <2>3. Cardinality(S) = 0 => S = {}
    BY <2>1, FS_EmptySet
  <2> QED BY <1>1, <2>2, <2>3
<1> QED BY <1>1, <1>2, <1>3, <1>4, FS_EmptySet, Zenon

(* The install order numbers the nodes.                                      *)
LEMMA OrderFacts ==
  ASSUME ValidRecord
  PROVE  /\ DOMAIN V!Order = 1 .. Len(V!Order) /\ Len(V!Order) \in Nat /\ Len(V!Order) > 0
         /\ \A i \in DOMAIN V!Order : Named(i) \in V!Nodes /\ Named(i).id = V!Order[i]
         /\ \A n \in V!Nodes : V!Node(n.id) = n
         /\ \A n \in V!Nodes : \E i \in DOMAIN V!Order : n = Named(i)
         /\ \A i, j \in DOMAIN V!Order : Named(i) = Named(j) => i = j
<1>1. DOMAIN V!Order = 1 .. Len(V!Order) /\ Len(V!Order) \in Nat /\ Len(V!Order) > 0
  BY DEF ValidRecord
<1>2. \A n \in V!Nodes : V!Node(n.id) = n
  <2> SUFFICES ASSUME NEW n \in V!Nodes PROVE V!Node(n.id) = n
    OBVIOUS
  <2>1. V!Node(n.id) \in V!Nodes /\ V!Node(n.id).id = n.id
    BY DEF V!Node
  <2> QED BY <2>1 DEF ValidRecord
<1>3. \A i \in DOMAIN V!Order : Named(i) \in V!Nodes /\ Named(i).id = V!Order[i]
  <2> SUFFICES ASSUME NEW i \in DOMAIN V!Order
               PROVE  Named(i) \in V!Nodes /\ Named(i).id = V!Order[i]
    OBVIOUS
  <2>1. V!Order[i] \in V!IDs
    BY DEF ValidRecord
  <2>2. PICK n \in V!Nodes : n.id = V!Order[i]
    BY <2>1 DEF V!IDs
  <2> QED BY <2>2 DEF Named, V!Node
<1>4. \A n \in V!Nodes : \E i \in DOMAIN V!Order : n = Named(i)
  <2> SUFFICES ASSUME NEW n \in V!Nodes PROVE \E i \in DOMAIN V!Order : n = Named(i)
    OBVIOUS
  <2>1. PICK i \in DOMAIN V!Order : V!Order[i] = n.id
    BY DEF ValidRecord
  <2>2. Named(i) = n
    BY <2>1, <1>2 DEF Named
  <2> QED BY <2>2
<1>5. \A i, j \in DOMAIN V!Order : Named(i) = Named(j) => i = j
  <2> SUFFICES ASSUME NEW i \in DOMAIN V!Order, NEW j \in DOMAIN V!Order, Named(i) = Named(j)
               PROVE  i = j
    OBVIOUS
  <2>1. V!Order[i] = V!Order[j]
    BY <1>3
  <2> QED BY <2>1 DEF ValidRecord
<1> QED BY <1>1, <1>2, <1>3, <1>4, <1>5

(* Nothing delivered, nothing poured.                                        *)
LEMMA BuildInit == ASSUME V!RecordsValid PROVE V!Init => BuildInv
<1> SUFFICES ASSUME V!Init PROVE BuildInv
  OBVIOUS
<1>1. ValidRecord
  BY Zenon DEF V!Init, V!RecordsValid, ValidRecord, V!Order, V!Nodes, V!IDs
<1>2. /\ Count = 0 /\ DOMAIN deltas = {} /\ DOMAIN cellar = {}
      /\ cellar = [r \in DOMAIN cellar |-> cellar[r]]
  BY CountFacts DEF V!Init, Count
<1>3. Progress
  BY <1>1, <1>2, OrderFacts DEF Progress
<1> QED BY <1>1, <1>2, <1>3 DEF BuildInv, V!Init

(* The resolution is a read-only mount of every step.                        *)
LEMMA RecordStays ==
  ASSUME record' = record
  PROVE  /\ V!Nodes' = V!Nodes /\ V!Order' = V!Order /\ V!IDs' = V!IDs
         /\ V!TrustFile' = V!TrustFile
         /\ \A id : V!Node(id)' = V!Node(id)
         /\ \A i : Named(i)' = Named(i)
         /\ (ValidRecord => ValidRecord') /\ (V!RacksUnique => V!RacksUnique')
<1>1. V!Nodes' = V!Nodes /\ V!Order' = V!Order
  BY DEF V!Nodes, V!Order
<1>2. \A id : V!Node(id)' = V!Node(id)
  BY <1>1 DEF V!Node
<1>3. V!IDs' = V!IDs /\ V!TrustFile' = V!TrustFile
  BY <1>1 DEF V!IDs, V!TrustFile
<1>4. \A i : Named(i)' = Named(i)
  BY <1>1, <1>2 DEF Named
<1> QED BY <1>1, <1>2, <1>3, <1>4 DEF ValidRecord, V!RacksUnique

(* All but the step that is running.                                         *)
BuildState == <<record, bottles, fetched, prepared, taps, cellar, deltas>>

(* A step that keeps none of its mounts keeps what the steps before it left. *)
LEMMA StateStays ==
  ASSUME UNCHANGED BuildState
  PROVE  /\ Count' = Count /\ V!Nodes' = V!Nodes /\ V!Order' = V!Order
         /\ (ValidRecord => ValidRecord') /\ (Progress => Progress')
         /\ (PreparedStands => PreparedStands')
<1> USE DEF BuildState
<1>1. Count' = Count
  BY DEF Count
<1>2. Preparation' = Preparation /\ Sources' = Sources
  BY RecordStays, Zenon DEF Preparation, Sources
<1>3. Progress => Progress'
  BY <1>1, RecordStays DEF Progress
<1>4. PreparedStands => PreparedStands'
  BY <1>2, RecordStays DEF PreparedStands
<1> QED BY <1>1, <1>3, <1>4, RecordStays

(* A step that fails.                                                        *)
LEMMA BuildFails == ASSUME BuildInv, V!Fails PROVE BuildInv'
<1>1. UNCHANGED BuildState /\ building' = "failed"
  BY DEF V!Fails, BuildState
<1> QED BY <1>1, StateStays DEF BuildInv, BuildState, V!NoPrep

(* BottleStatesV2, whatever is delivered.                                    *)
LEMMA DeliveryStep == ASSUME BuildInv, V!BottleStates PROVE BuildInv'
<1>1. CASE V!Fails
  BY <1>1, BuildFails
<1>2. CASE ~V!Fails
  <2>1. /\ UNCHANGED <<record, prepared, taps, cellar, deltas>>
        /\ building' = "prepare" /\ building = "fetch"
    BY <1>2, Zenon DEF V!BottleStates
  <2>2. Count' = Count /\ ValidRecord' /\ Progress'
    BY <2>1, RecordStays DEF BuildInv, Progress, Count
  <2>3. DOMAIN bottles' = {n.file : n \in V!Nodes}
    BY <1>2, Zenon DEF V!BottleStates
  <2>4. bottles' # <<>>
    <3>1. Named(1) \in V!Nodes
      BY OrderFacts DEF BuildInv
    <3>2. Named(1).file \in DOMAIN bottles'
      BY <2>3, <3>1
    <3> QED BY <3>2
  <2> QED BY <2>1, <2>2, <2>4, RecordStays DEF BuildInv, V!NoPrep
<1> QED BY <1>1, <1>2

(* prepare-v2.                                                               *)
LEMMA PreparingStep == ASSUME BuildInv, V!Prepare PROVE BuildInv'
<1>1. CASE V!Fails
  BY <1>1, BuildFails
<1>2. CASE ~V!Fails
  <2>1. V!PrepareChecks /\ building = "prepare"
    BY <1>2 DEF V!Prepare
  <2>2. /\ prepared' = Preparation /\ taps' = Sources /\ building' = "install"
        /\ UNCHANGED <<record, bottles, fetched, cellar, deltas>>
    BY <2>1 DEF V!Prepare, Preparation, Sources
  <2>3. Count' = Count /\ ValidRecord' /\ Progress'
    BY <2>2, RecordStays DEF BuildInv, Progress, Count
  <2>4. Preparation' = Preparation /\ Sources' = Sources
    BY <2>2, RecordStays, Zenon DEF Preparation, Sources
  <2>5. \A i \in DOMAIN V!Order :
          bottles[Named(i).file] = Named(i).digest /\ Content[Named(i).digest].standalone
    BY <2>1 DEF V!PrepareChecks, V!VerifyNode, V!VerifyPrepared, Named
  <2>6. V!RacksUnique
    BY <2>1 DEF V!PrepareChecks
  <2>7. bottles # <<>>
    BY <2>1 DEF BuildInv
  <2>8. PreparedStands'
    BY <2>2, <2>4, <2>5, <2>6, <2>7, RecordStays DEF PreparedStands
  <2>9. Count = 0 /\ Len(V!Order) > 0 /\ V!Order' = V!Order
    BY <2>1, <2>2, OrderFacts, RecordStays DEF BuildInv
  <2>10. prepared' # V!NoPrep
    BY <2>2, <2>7 DEF Preparation, V!NoPrep
  <2> QED BY <2>2, <2>3, <2>8, <2>9, <2>10 DEF BuildInv
<1> QED BY <1>1, <1>2

(* A build started again resumes at the step whose input is there.           *)
LEMMA RebuildStep == ASSUME BuildInv, V!Rebuild PROVE BuildInv'
<1>1. UNCHANGED BuildState
  BY DEF V!Rebuild, BuildState
<1>2. \/ building' = "fetch" /\ bottles = <<>>
      \/ building' = "prepare" /\ bottles # <<>> /\ prepared = V!NoPrep
      \/ building' = "install" /\ prepared # V!NoPrep /\ Count < Len(V!Order)
      \/ building' = "finalize" /\ prepared # V!NoPrep /\ Count >= Len(V!Order)
  <2>1. Count \in Nat /\ Len(V!Order) \in Nat
    BY OrderFacts DEF BuildInv, Progress
  <2> QED BY <2>1 DEF V!Rebuild, Count
<1>3. prepared # V!NoPrep => bottles # <<>>
  BY DEF BuildInv, PreparedStands
<1>4. Count >= Len(V!Order) => Count = Len(V!Order)
  BY OrderFacts DEF BuildInv, Progress
<1>5. V!NoPrep' = V!NoPrep
  BY DEF V!NoPrep
<1> QED BY <1>1, <1>2, <1>3, <1>4, <1>5, StateStays DEF BuildInv, BuildState

(* install-one-v2 takes the next formula of the order, whose rack does not   *)
(* exist.                                                                    *)
LEMMA NotYetPoured ==
  ASSUME BuildInv, building = "install"
  PROVE  Count + 1 \in DOMAIN V!Order /\ Named(Count + 1).name \notin DOMAIN cellar
<1>1. prepared # V!NoPrep /\ PreparedStands
  BY DEF BuildInv
<1>2. Count + 1 \in DOMAIN V!Order /\ Count \in Nat
  BY OrderFacts DEF BuildInv, Progress
<1>3. ASSUME Named(Count + 1).name \in DOMAIN cellar PROVE FALSE
  <2>1. PICK i \in 1 .. Count : Named(Count + 1).name = Named(i).name
    BY <1>3 DEF BuildInv, Progress
  <2>2. i \in DOMAIN V!Order /\ i # Count + 1
    <3>1. DOMAIN V!Order = 1 .. Len(V!Order) /\ Len(V!Order) \in Nat
      BY OrderFacts DEF BuildInv
    <3> QED BY <1>2, <3>1
  <2>3. Named(Count + 1) # Named(i) /\ Named(Count + 1) \in V!Nodes /\ Named(i) \in V!Nodes
    BY <2>2, <1>2, OrderFacts DEF BuildInv
  <2> QED BY <2>1, <2>3, <1>1 DEF PreparedStands, V!RacksUnique
<1> QED BY <1>2, <1>3

(* An accepted install-one-v2 poured that formula and nothing else:          *)
(* verifyInstalledPrefixCount and the comparisons with the Cellar and the    *)
(* taps before it refuse everything else brew may have done.                 *)
LEMMA InstallStep ==
  ASSUME BuildInv, V!Install, ~V!Fails
  PROVE  LET n == Named(Count + 1)
         IN  /\ Count + 1 \in DOMAIN V!Order /\ n.name \notin DOMAIN cellar
             /\ cellar' = V!Poured(n) /\ taps' = taps
             /\ deltas' = V!With(deltas, Count + 1, n.id)
             /\ building' = IF Count + 1 = Len(V!Order) THEN "finalize" ELSE "install"
             /\ UNCHANGED <<record, bottles, fetched, prepared>>
<1> DEFINE n == Named(Count + 1)
<1>1. V!InstallIndex = Count + 1
  BY DEF V!InstallIndex, Count
<1>2. building = "install" /\ prepared # V!NoPrep /\ PreparedStands
  BY DEF V!Install, BuildInv
<1>3. Count + 1 \in DOMAIN V!Order /\ Count \in Nat /\ (Count + 1) - 1 = Count
  BY <1>2, OrderFacts DEF BuildInv, Progress
<1>4. PICK after \in V!Pours(n) :
        /\ V!Accept(n, after)
        /\ cellar' = after.cellar /\ taps' = after.taps
        /\ deltas' = V!With(deltas, Count + 1, n.id)
        /\ building' = IF Count + 1 = Len(V!Order) THEN "finalize" ELSE "install"
        /\ UNCHANGED <<record, bottles, fetched, prepared>>
  BY <1>1 DEF V!Install, Named
<1>5. n.name \notin DOMAIN cellar
  BY <1>2, NotYetPoured
<1>6. /\ after.taps = taps
      /\ \A r \in DOMAIN after.cellar \cap DOMAIN cellar : after.cellar[r] = cellar[r]
      /\ n.name \in DOMAIN after.cellar => after.cellar[n.name] = prepared.bottles[n.file]
      /\ DOMAIN after.cellar = {Named(i).name : i \in 1 .. (Count + 1)}
  BY <1>4, <1>1 DEF V!Accept, V!InstalledPrefix, Named
<1>7. DOMAIN after.cellar = DOMAIN cellar \cup {n.name}
  <2>1. 1 .. (Count + 1) = 1 .. Count \cup {Count + 1}
    BY <1>3
  <2> QED BY <2>1, <1>6 DEF BuildInv, Progress
<1>8. after.cellar = [r \in DOMAIN after.cellar |-> after.cellar[r]]
  <2>1. V!Poured(n) = [r \in DOMAIN V!Poured(n) |-> V!Poured(n)[r]]
    BY DEF V!Poured, V!With
  <2>2. \A r, d : V!With(V!Poured(n), r, d)
                   = [x \in DOMAIN V!With(V!Poured(n), r, d) |-> V!With(V!Poured(n), r, d)[x]]
    BY DEF V!With
  <2>3. cellar = [r \in DOMAIN cellar |-> cellar[r]]
    BY DEF BuildInv, Progress
  <2>4. \/ after.cellar = V!Poured(n) \/ after.cellar = cellar
        \/ \E r, d : after.cellar = V!With(V!Poured(n), r, d)
    BY DEF V!Pours
  <2> QED BY <2>1, <2>2, <2>3, <2>4
<1>9. after.cellar = V!Poured(n)
  <2>1. V!Poured(n) = [r \in DOMAIN cellar \cup {n.name} |->
                         IF r = n.name THEN prepared.bottles[n.file] ELSE cellar[r]]
    BY DEF V!Poured, V!With
  <2> QED BY <2>1, <1>6, <1>7, <1>8
<1> QED BY <1>3, <1>4, <1>5, <1>6, <1>9

(* Every step keeps the invariant.                                           *)
LEMMA BuildStep == ASSUME BuildInv, [V!Next]_V!vars PROVE BuildInv'
<1>1. CASE V!Fails
  BY <1>1, BuildFails
<1>2. CASE V!BottleStates
  BY <1>2, DeliveryStep
<1>3. CASE V!Prepare
  BY <1>3, PreparingStep
<1>4. CASE V!Install /\ ~V!Fails
  <2> DEFINE n == Named(Count + 1)
  <2>1. /\ Count + 1 \in DOMAIN V!Order /\ n.name \notin DOMAIN cellar
        /\ cellar' = V!Poured(n) /\ taps' = taps
        /\ deltas' = V!With(deltas, Count + 1, n.id)
        /\ building' = IF Count + 1 = Len(V!Order) THEN "finalize" ELSE "install"
        /\ UNCHANGED <<record, bottles, fetched, prepared>>
    BY <1>4, InstallStep
  <2>2. PreparedStands /\ prepared # V!NoPrep /\ Progress /\ ValidRecord
    BY <1>4 DEF V!Install, BuildInv
  <2>3. Count \in Nat /\ Len(V!Order) \in Nat /\ Count + 1 \in 1 .. Len(V!Order)
    BY <2>1, <2>2, OrderFacts DEF Progress
  <2>4. 1 .. (Count + 1) = 1 .. Count \cup {Count + 1}
    BY <2>3
  <2>5. /\ DOMAIN deltas' = 1 .. (Count + 1) /\ deltas'[Count + 1] = n.id
        /\ \A i \in 1 .. Count : deltas'[i] = deltas[i]
    BY <2>1, <2>2, <2>3, <2>4 DEF V!With, Progress
  <2>6. Count' = Count + 1
    BY <2>5, <2>3, CountFacts DEF Count
  <2>7. cellar' = [r \in DOMAIN cellar \cup {n.name} |->
                     IF r = n.name THEN prepared.bottles[n.file] ELSE cellar[r]]
    BY <2>1 DEF V!Poured, V!With
  <2>8. prepared.bottles[n.file] = n.digest /\ n.id = V!Order[Count + 1]
    BY <2>1, <2>2, OrderFacts DEF PreparedStands, Preparation
  <2>9. /\ DOMAIN cellar' = {Named(i).name : i \in 1 .. (Count + 1)}
        /\ cellar' = [r \in DOMAIN cellar' |-> cellar'[r]]
    BY <2>7, <2>4, <2>2 DEF Progress
  <2>10. \A i \in 1 .. Count : Named(i).name \in DOMAIN cellar /\ Named(i).name # n.name
    BY <2>1, <2>2 DEF Progress
  <2>11. \A i \in 1 .. (Count + 1) :
           deltas'[i] = V!Order[i] /\ cellar'[Named(i).name] = Named(i).digest
    BY <2>2, <2>4, <2>5, <2>7, <2>8, <2>10 DEF Progress
  <2>12. Progress'
    <3>1. V!Order' = V!Order /\ \A i : Named(i)' = Named(i)
      BY <2>1, RecordStays
    <3>2. Count' \in 0 .. Len(V!Order') /\ DOMAIN deltas' = 1 .. Count'
      BY <2>3, <2>5, <2>6, <3>1
    <3>3. DOMAIN cellar' = {Named(i)'.name : i \in 1 .. Count'}
      BY <2>6, <2>9, <3>1
    <3>4. \A i \in 1 .. Count' :
            deltas'[i] = V!Order'[i] /\ cellar'[Named(i)'.name] = Named(i)'.digest
      BY <2>6, <2>11, <3>1
    <3> QED BY <2>9, <3>2, <3>3, <3>4, Zenon DEF Progress
  <2>13. Preparation' = Preparation /\ Sources' = Sources
    BY <2>1, RecordStays, Zenon DEF Preparation, Sources
  <2>14. PreparedStands'
    BY <2>1, <2>2, <2>13, RecordStays DEF PreparedStands
  <2>15. V!NoPrep' = V!NoPrep /\ V!Order' = V!Order /\ ValidRecord'
    BY <2>1, <2>2, RecordStays DEF V!NoPrep
  <2>16. Count' # Len(V!Order) => Count' < Len(V!Order)
    BY <2>3, <2>6
  <2> QED BY <2>1, <2>2, <2>6, <2>12, <2>14, <2>15, <2>16 DEF BuildInv
<1>5. CASE V!Finalize /\ ~V!Fails
  <2>1. UNCHANGED BuildState /\ building = "finalize" /\ building' = "done"
    BY <1>5 DEF V!Finalize, BuildState
  <2> QED BY <2>1, StateStays DEF BuildInv, BuildState, V!NoPrep
<1>6. CASE V!Rebuild
  BY <1>6, RebuildStep
<1>7. CASE UNCHANGED V!vars
  <2>1. UNCHANGED BuildState /\ building' = building
    BY <1>7 DEF V!vars, BuildState
  <2> QED BY <2>1, StateStays DEF BuildInv, BuildState, V!NoPrep
<1> QED BY <1>1, <1>2, <1>3, <1>4, <1>5, <1>6, <1>7 DEF V!Next, V!StepLost

(* At the end the first racks of the order are all of them.                  *)
LEMMA AllPoured == ASSUME BuildInv, building \in {"finalize", "done"} PROVE cellar = V!Finished
<1>1. PreparedStands /\ Progress /\ ValidRecord /\ Count = Len(V!Order)
  BY DEF BuildInv
<1>2. 1 .. Count = DOMAIN V!Order
  BY <1>1, OrderFacts
<1>3. V!Racks = DOMAIN cellar
  BY <1>1, <1>2, OrderFacts DEF V!Racks, Progress
<1>4. ASSUME NEW r \in V!Racks
      PROVE  cellar[r] = (CHOOSE n \in V!Nodes : n.name = r).digest
  <2>1. PICK m \in V!Nodes : m.name = r
    BY DEF V!Racks
  <2>2. (CHOOSE n \in V!Nodes : n.name = r) = m
    BY <2>1, <1>1 DEF PreparedStands, V!RacksUnique
  <2>3. PICK i \in DOMAIN V!Order : m = Named(i)
    BY <1>1, OrderFacts
  <2>4. i \in 1 .. Count
    BY <2>3, <1>2, Zenon
  <2>5. cellar[Named(i).name] = Named(i).digest
    BY <2>4, <1>1 DEF Progress
  <2> QED BY <2>1, <2>2, <2>3, <2>5, Zenon
<1>5. cellar = [r \in DOMAIN cellar |-> cellar[r]]
  BY <1>1 DEF Progress
<1> QED BY <1>3, <1>4, <1>5 DEF V!Finished

(* So a build that is done holds the resolution.                             *)
LEMMA BuildHolds == ASSUME BuildInv PROVE V!FinishedHoldsTheResolution
BY AllPoured DEF V!FinishedHoldsTheResolution

(* What an install-one-v2 pours, from which source and after which others.   *)
LEMMA PouredStep ==
  ASSUME BuildInv, [V!Next]_V!vars,
         NEW n \in V!Nodes, n.name \in DOMAIN cellar' \ DOMAIN cellar
  PROVE  /\ cellar'[n.name] = n.digest
         /\ taps[n.id] = Content[n.digest].source /\ taps' = taps
         /\ Content[n.digest].standalone
         /\ \A d \in n.deps : V!Node(d).name \in DOMAIN cellar
<1>1. V!Install /\ ~V!Fails
  BY Zenon DEF V!Next, V!vars, V!BottleStates, V!Prepare, V!Finalize, V!StepLost, V!Rebuild, V!Fails
<1> DEFINE m == Named(Count + 1)
<1>2. /\ Count + 1 \in DOMAIN V!Order /\ cellar' = V!Poured(m) /\ taps' = taps
  BY <1>1, InstallStep
<1>3. PreparedStands /\ Progress /\ ValidRecord
  BY <1>1 DEF V!Install, BuildInv
<1>4. m \in V!Nodes /\ m.id = V!Order[Count + 1] /\ V!Node(m.id) = m
  BY <1>2, <1>3, OrderFacts
<1>5. /\ DOMAIN cellar' = DOMAIN cellar \cup {m.name}
      /\ cellar'[m.name] = prepared.bottles[m.file]
  BY <1>2 DEF V!Poured, V!With
<1>6. n = m
  BY <1>3, <1>4, <1>5 DEF PreparedStands, V!RacksUnique
<1>7. bottles[m.file] = m.digest /\ Content[m.digest].standalone
  BY <1>2, <1>3 DEF PreparedStands
<1>8. taps[m.id] = Content[m.digest].source
  <2>1. m.id \in V!IDs
    BY <1>4 DEF V!IDs
  <2> QED BY <2>1, <1>3, <1>4, <1>7 DEF PreparedStands, Sources
<1>9. ASSUME NEW d \in m.deps PROVE V!Node(d).name \in DOMAIN cellar
  <2>1. PICK i \in DOMAIN V!Order :
          V!Order[i] = m.id /\ \A e \in m.deps : \E j \in 1 .. (i - 1) : V!Order[j] = e
    BY <1>3, <1>4 DEF ValidRecord
  <2>2. i = Count + 1
    BY <2>1, <1>2, <1>3, <1>4 DEF ValidRecord
  <2>3. PICK j \in 1 .. (i - 1) : V!Order[j] = d
    BY <2>1
  <2>4. j \in 1 .. Count
    BY <2>2, <2>3, <1>3, OrderFacts DEF Progress
  <2> QED BY <2>3, <2>4, <1>3 DEF Progress, Named
<1>10. prepared.bottles = bottles
  BY <1>3 DEF PreparedStands, Preparation
<1> QED BY <1>2, <1>5, <1>6, <1>7, <1>8, <1>9, <1>10

(* A list without repetitions has as many members as entries.                *)
LEMMA DistinctCount ==
  ASSUME NEW k \in Nat, NEW f, f = [i \in 1 .. k |-> f[i]],
         \A i, j \in 1 .. k : f[i] = f[j] => i = j
  PROVE  V!Cardinality({f[i] : i \in 1 .. k}) = k
<1> DEFINE T == {f[i] : i \in 1 .. k}
<1>1. f \in [1 .. k -> T]
  OBVIOUS
<1>2. f \in Bijection(1 .. k, T)
  BY <1>1 DEF Bijection, Injection, Surjection, IsInjective
<1>3. ExistsBijection(1 .. k, T)
  BY <1>2 DEF ExistsBijection
<1>4. IsFiniteSet(1 .. k) /\ Cardinality(1 .. k) = k
  BY CountFacts
<1>5. Cardinality(T) = k
  BY <1>3, <1>4, FS_Bijection
<1> QED BY <1>5, CountFacts

(* When no two bottles share a file name, evidence numbers are positions in  *)
(* the install order.                                                        *)
LEMMA Numbered ==
  ASSUME ValidRecord, V!FileNamesUnique
  PROVE  \A i \in DOMAIN V!Order : V!EvidenceIndex(i) = i
<1> SUFFICES ASSUME NEW i \in DOMAIN V!Order PROVE V!EvidenceIndex(i) = i
  OBVIOUS
<1> DEFINE f == [j \in 1 .. i |-> Named(j).file]
<1>1. i \in Nat /\ 1 .. i \subseteq DOMAIN V!Order
  BY OrderFacts
<1>2. \A a, b \in 1 .. i : f[a] = f[b] => a = b
  BY <1>1 DEF V!FileNamesUnique, Named
<1>3. f = [j \in 1 .. i |-> f[j]]
  OBVIOUS
<1> HIDE DEF f
<1>4. V!Cardinality({f[j] : j \in 1 .. i}) = i
  BY <1>1, <1>2, <1>3, DistinctCount
<1>5. {f[j] : j \in 1 .. i} = {V!Node(V!Order[j]).file : j \in 1 .. i}
  BY DEF f, Named
<1> QED BY <1>4, <1>5 DEF V!EvidenceIndex

(* What finalize-v2 refused of its own: every formula was poured.            *)
RefusedLast == cellar = V!Finished /\ ~V!FinalizeAccepts

(* When the environment did nothing wrong and the resolution is that of the  *)
(* bottles, nothing but finalize-v2 failed, and the bottles and the fetch    *)
(* evidence are those of the resolution.                                     *)
HonestRun ==
  V!Honest /\ faults = 0 =>
    /\ building = "failed" => RefusedLast
    /\ building # "fetch" =>
         /\ \A i \in DOMAIN V!Order : bottles[Named(i).file] = Named(i).digest
         /\ fetched = [i \in {j \in DOMAIN V!Order : Named(j).transport = "https"} |->
                         [id |-> V!Order[i], digest |-> Named(i).digest]]

(* The inductive invariant behind BuildDelivers.                             *)
HonestInv == BuildInv /\ faults \in Nat /\ HonestRun

(* Whether the resolution is that of the bottles does not change.            *)
LEMMA HonestStays ==
  ASSUME record' = record
  PROVE  V!Honest' => V!Honest
<1> SUFFICES ASSUME V!Honest' PROVE V!Honest
  OBVIOUS
<1>1. V!Nodes' = V!Nodes /\ V!Order' = V!Order /\ V!IDs' = V!IDs /\ \A id : V!Node(id)' = V!Node(id)
  BY RecordStays
<1>2. record.bound /\ record.refs /\ V!FileNamesUnique /\ V!RacksUnique
  BY <1>1 DEF V!Honest, V!FileNamesUnique, V!RacksUnique
<1>3. V!TotalSize([i \in DOMAIN V!Order |-> V!Node(V!Order[i]).digest]) <= MaxSource
  BY <1>1 DEF V!Honest
<1>4. V!PreparationBytes([id \in V!IDs |-> V!Node(id).digest]) <= MaxPreparation
  BY <1>1 DEF V!Honest
<1> QED BY <1>1, <1>2, <1>3, <1>4 DEF V!Honest

(* Nor does what finalize-v2 will say of it.                                 *)
LEMMA RefusalStays ==
  ASSUME record' = record
  PROVE  V!Finished' = V!Finished /\ (V!FinalizeAccepts' <=> V!FinalizeAccepts)
<1>1. V!Finished' = V!Finished
  BY DEF V!Finished, V!Racks, V!Nodes
<1> QED BY <1>1, RecordStays DEF V!FinalizeAccepts

(* Bottles delivered right are found under their names, with evidence that   *)
(* names them.                                                               *)
LEMMA HonestBottles ==
  ASSUME HonestInv, V!BottleStates, V!Honest, faults = 0, faults' = 0
  PROVE  HonestRun'
<1>1. V!GraphOK /\ ValidRecord
  BY DEF V!Honest, V!GraphOK, HonestInv, BuildInv
<1> DEFINE wrong(d) == {i \in DOMAIN V!Order : d[i] # V!Node(V!Order[i]).digest}
           https == {i \in DOMAIN V!Order : V!Node(V!Order[i]).transport = "https"}
<1>2. PICK d \in [DOMAIN V!Order -> DOMAIN Content] :
        /\ faults' = faults + V!Cardinality(wrong(d))
        /\ bottles' = [f \in {n.file : n \in V!Nodes} |->
                         d[CHOOSE i \in DOMAIN V!Order : V!Node(V!Order[i]).file = f]]
        /\ fetched' = [k \in {V!EvidenceIndex(i) : i \in https} |->
                         LET i == CHOOSE j \in https : V!EvidenceIndex(j) = k
                         IN  [id |-> V!Order[i], digest |-> d[i]]]
        /\ building' = "prepare" /\ record' = record
  BY <1>1, Zenon DEF V!BottleStates
<1>3. wrong(d) = {}
  <2>1. wrong(d) \subseteq 1 .. Len(V!Order) /\ Len(V!Order) \in Nat
    BY <1>1, OrderFacts
  <2>2. V!Cardinality(wrong(d)) \in Nat
    BY <2>1, CountFacts, Zenon
  <2>3. V!Cardinality(wrong(d)) = 0
    BY <2>2, <1>2
  <2> QED BY <2>1, <2>3, CountFacts, Zenon
<1>4. \A i \in DOMAIN V!Order : d[i] = Named(i).digest
  BY <1>3 DEF Named
<1>5. ASSUME NEW i \in DOMAIN V!Order PROVE bottles'[Named(i).file] = Named(i).digest
  <2>1. Named(i).file \in {n.file : n \in V!Nodes}
    BY <1>1, OrderFacts
  <2>2. (CHOOSE j \in DOMAIN V!Order : V!Node(V!Order[j]).file = Named(i).file) = i
    BY <1>1 DEF V!GraphOK, V!FileNamesUnique, Named
  <2> QED BY <2>1, <2>2, <1>2, <1>4, Zenon
<1>6. \A i \in https : V!EvidenceIndex(i) = i
  BY <1>1, Numbered DEF V!GraphOK
<1>7. {V!EvidenceIndex(i) : i \in https} = https
  BY <1>6
<1>8. \A k \in https : (CHOOSE j \in https : V!EvidenceIndex(j) = k) = k
  BY <1>6
<1>9. fetched' = [i \in https |-> [id |-> V!Order[i], digest |-> Named(i).digest]]
  BY <1>2, <1>4, <1>7, <1>8
<1>10. V!Order' = V!Order /\ \A i : Named(i)' = Named(i)
  BY <1>2, RecordStays, Zenon
<1>11. fetched' = [i \in {j \in DOMAIN V!Order' : Named(j)'.transport = "https"} |->
                     [id |-> V!Order'[i], digest |-> Named(i)'.digest]]
  <2>1. {j \in DOMAIN V!Order' : Named(j)'.transport = "https"} = https
    BY <1>10 DEF Named
  <2> QED BY <1>9, <1>10, <2>1
<1>12. \A i \in DOMAIN V!Order' : bottles'[Named(i)'.file] = Named(i)'.digest
  BY <1>5, <1>10
<1> QED BY <1>2, <1>11, <1>12, Zenon DEF HonestRun

(* prepare-v2 accepts them.                                                  *)
LEMMA HonestPrepares ==
  ASSUME BuildInv, HonestRun, V!Honest, faults = 0, building = "prepare"
  PROVE  V!PrepareChecks
<1>1. /\ ValidRecord /\ V!RacksUnique /\ V!RuntimePolicyOK
      /\ \A n \in V!Nodes : n.derived => n.authorized
  BY DEF BuildInv, V!Honest, V!RuntimePolicyOK
<1>2. \A i \in DOMAIN V!Order : bottles[Named(i).file] = Named(i).digest
  BY DEF HonestRun
<1>3. ASSUME NEW i \in DOMAIN V!Order
      PROVE  /\ V!FetchEvidenceOK(i)
             /\ V!VerifyNode(Named(i), bottles[Named(i).file])
             /\ V!VerifyPrepared(Named(i), Content[bottles[Named(i).file]])
  <2>1. Named(i) \in V!Nodes /\ Named(i).id = V!Order[i]
    BY <1>1, OrderFacts
  <2>2. V!FetchEvidenceOK(i)
    <3> SUFFICES ASSUME Named(i).transport = "https"
                 PROVE  /\ i \in DOMAIN fetched
                        /\ fetched[i] = [id |-> Named(i).id, digest |-> Named(i).digest]
      BY DEF V!FetchEvidenceOK, Named
    <3> QED BY <2>1 DEF HonestRun
  <2>3. V!VerifyNode(Named(i), bottles[Named(i).file])
    BY <2>1, <1>2 DEF V!Honest, V!VerifyNode
  <2>4. V!VerifyPrepared(Named(i), Content[bottles[Named(i).file]])
    BY <2>1, <1>2 DEF V!Honest, V!VerifyPrepared, V!DerivedBottleOK
  <2> QED BY <2>2, <2>3, <2>4
<1>4. V!SourceBytes <= MaxSource
  <2>1. [i \in DOMAIN V!Order |-> bottles[V!Node(V!Order[i]).file]]
          = [i \in DOMAIN V!Order |-> V!Node(V!Order[i]).digest]
    BY <1>2 DEF Named
  <2> QED BY <2>1 DEF V!SourceBytes, V!Honest
<1>5. V!PreparationBytes([id \in V!IDs |-> bottles[V!Node(id).file]]) <= MaxPreparation
  <2>1. \A id \in V!IDs : bottles[V!Node(id).file] = V!Node(id).digest
    <3> SUFFICES ASSUME NEW n \in V!Nodes PROVE bottles[V!Node(n.id).file] = V!Node(n.id).digest
      BY DEF V!IDs
    <3>1. V!Node(n.id) = n /\ \E i \in DOMAIN V!Order : n = Named(i)
      BY <1>1, OrderFacts
    <3> QED BY <3>1, <1>2
  <2>2. [id \in V!IDs |-> bottles[V!Node(id).file]] = [id \in V!IDs |-> V!Node(id).digest]
    BY <2>1
  <2> QED BY <2>2 DEF V!Honest
<1> QED BY <1>1, <1>3, <1>4, <1>5 DEF V!PrepareChecks, Named

(* validatePreparationEvidenceV2 accepts what prepare-v2 wrote.              *)
LEMMA HonestEvidence ==
  ASSUME BuildInv, HonestRun, V!Honest, faults = 0, building \in {"install", "finalize"}
  PROVE  V!PreparationOK /\ prepared.verified = [id \in V!IDs |-> V!Node(id).digest]
<1>1. PreparedStands /\ ValidRecord
  BY DEF BuildInv
<1>2. /\ prepared.verified = [id \in V!IDs |-> bottles[V!Node(id).file]]
      /\ prepared.staged = Sources
      /\ prepared.fetched = {fetched[i] : i \in DOMAIN fetched}
  BY <1>1 DEF PreparedStands, Preparation
<1>3. ASSUME NEW n \in V!Nodes
      PROVE  /\ prepared.verified[n.id] = n.digest
             /\ ~n.deferred => prepared.staged[n.id] = n.source
  <2>1. n.id \in V!IDs /\ V!Node(n.id) = n
    BY <1>1, OrderFacts DEF V!IDs
  <2>2. PICK i \in DOMAIN V!Order : n = Named(i)
    BY <1>1, OrderFacts
  <2>3. bottles[n.file] = n.digest
    BY <2>2, <1>1 DEF PreparedStands
  <2>4. prepared.staged[n.id] = Content[n.digest].source
    BY <2>1, <2>3, <1>2 DEF Sources
  <2> QED BY <2>1, <2>3, <2>4, <1>2 DEF V!Honest
<1> DEFINE https == {j \in DOMAIN V!Order : Named(j).transport = "https"}
<1>4. /\ DOMAIN fetched = https
      /\ \A i \in https : fetched[i].id = Named(i).id /\ fetched[i].digest = Named(i).digest
  BY <1>1, OrderFacts DEF HonestRun
<1>5. {e.id : e \in prepared.fetched} = {n.id : n \in {m \in V!Nodes : m.transport = "https"}}
  <2>1. {e.id : e \in prepared.fetched} = {Named(i).id : i \in https}
    BY <1>2, <1>4
  <2>2. {Named(i) : i \in https} = {m \in V!Nodes : m.transport = "https"}
    BY <1>1, OrderFacts
  <2> QED BY <2>1, <2>2
<1>6. \A e \in prepared.fetched : e.digest = V!Node(e.id).digest
  <2> SUFFICES ASSUME NEW e \in prepared.fetched PROVE e.digest = V!Node(e.id).digest
    OBVIOUS
  <2>1. PICK i \in https : e = fetched[i]
    BY <1>2, <1>4
  <2>2. V!Node(e.id) = Named(i)
    BY <2>1, <1>1, <1>4, OrderFacts
  <2> QED BY <2>1, <2>2, <1>4
<1>7. DOMAIN prepared.verified = V!IDs /\ DOMAIN prepared.staged = V!IDs
  BY <1>2 DEF Sources
<1>8. prepared.verified = [id \in V!IDs |-> V!Node(id).digest]
  <2>1. ASSUME NEW id \in V!IDs PROVE prepared.verified[id] = V!Node(id).digest
    <3>1. PICK n \in V!Nodes : id = n.id
      BY DEF V!IDs
    <3>2. V!Node(id) = n
      BY <3>1, <1>1, OrderFacts
    <3> QED BY <3>1, <3>2, <1>3
  <2> QED BY <2>1, <1>2
<1>9. V!PreparationBytes(prepared.verified) <= MaxPreparation
  BY <1>8 DEF V!Honest
<1> QED BY <1>3, <1>5, <1>6, <1>7, <1>8, <1>9 DEF V!PreparationOK

(* verifyInstalledPrefixCount accepts what was poured.                       *)
LEMMA HonestPrefix ==
  ASSUME BuildInv, V!Honest
  PROVE  V!InstalledPrefix(cellar, Count)
<1>1. ValidRecord /\ Progress
  BY DEF BuildInv
<1>2. \A i \in 1 .. Count : Named(i) \in V!Nodes
  BY <1>1, OrderFacts DEF Progress
<1> QED BY <1>1, <1>2 DEF V!InstalledPrefix, Progress, V!Honest, Named

(* install-one-v2 refuses neither what the steps before it left nor the work *)
(* brew did.                                                                 *)
LEMMA HonestInstalls ==
  ASSUME BuildInv, HonestRun, V!Install, V!Honest, faults = 0, faults' = 0
  PROVE  building' # "failed" /\ ~V!Fails
<1> DEFINE n == Named(Count + 1)
<1>1. V!InstallIndex = Count + 1 /\ building = "install"
  BY DEF V!InstallIndex, Count, V!Install
<1>2. PreparedStands /\ ValidRecord /\ Progress
  BY <1>1 DEF BuildInv
<1>3. Count + 1 \in DOMAIN V!Order /\ n.name \notin DOMAIN cellar
  BY <1>1, NotYetPoured
<1>4. /\ Count \in Nat /\ (Count + 1) - 1 = Count
      /\ 1 .. (Count + 1) = 1 .. Count \cup {Count + 1}
  BY <1>2, OrderFacts DEF Progress
<1>5. n \in V!Nodes /\ n.id \in V!IDs /\ V!Node(n.id) = n
  BY <1>2, <1>3, OrderFacts DEF V!IDs
<1>6. /\ prepared.bottles = bottles /\ prepared.trust = V!TrustFile
      /\ prepared.staged = Sources /\ taps = Sources
      /\ bottles[n.file] = n.digest
  BY <1>2, <1>3 DEF PreparedStands, Preparation
<1>7. V!InstallChecks(n)
  <2>1. V!RuntimePolicyOK
    BY DEF V!Honest, V!RuntimePolicyOK
  <2>2. V!InstalledPrefix(cellar, V!InstallIndex - 1)
    BY <1>1, <1>4, HonestPrefix
  <2>3. V!VerifyNode(n, prepared.bottles[n.file])
    BY <1>5, <1>6 DEF V!Honest, V!VerifyNode
  <2>4. V!DerivedBottleOK(n, Content[prepared.bottles[n.file]])
    BY <1>5, <1>6 DEF V!Honest, V!DerivedBottleOK
  <2>5. V!PreparationOK
    BY <1>1, HonestEvidence
  <2>6. taps[n.id] = V!StagedDigest(n)
    <3>1. taps[n.id] = Content[n.digest].source
      BY <1>5, <1>6 DEF Sources
    <3> QED BY <3>1, <1>5, <1>6, Zenon DEF V!StagedDigest, V!Honest
  <2> QED BY <1>6, <2>1, <2>2, <2>3, <2>4, <2>5, <2>6, Zenon DEF V!InstallChecks
<1>8. PICK after \in V!Pours(n) :
        /\ faults' = IF after = [cellar |-> V!Poured(n), taps |-> taps] THEN faults ELSE faults + 1
        /\ V!Accept(n, after) =>
             building' = IF Count + 1 = Len(V!Order) THEN "finalize" ELSE "install"
  BY <1>1, <1>7 DEF V!Install, Named
<1>9. after = [cellar |-> V!Poured(n), taps |-> taps]
  BY <1>8
<1>10. V!Poured(n) = [r \in DOMAIN cellar \cup {n.name} |->
                        IF r = n.name THEN n.digest ELSE cellar[r]]
  BY <1>6 DEF V!Poured, V!With
<1>11. V!InstalledPrefix(V!Poured(n), Count + 1)
  <2>1. DOMAIN V!Poured(n) = {Named(i).name : i \in 1 .. (Count + 1)}
    <3>1. DOMAIN V!Poured(n) = DOMAIN cellar \cup {n.name}
      BY <1>10
    <3>2. DOMAIN cellar = {Named(i).name : i \in 1 .. Count}
      BY <1>2 DEF Progress
    <3>3. 1 .. (Count + 1) = 1 .. Count \cup {Count + 1}
      BY <1>4
    <3> QED BY <3>1, <3>2, <3>3, Zenon
  <2>2. ASSUME NEW i \in 1 .. (Count + 1)
        PROVE  Content[V!Poured(n)[Named(i).name]].version = Named(i).version
    <3>1. CASE i = Count + 1
      BY <3>1, <1>5, <1>10, Zenon DEF V!Honest
    <3>2. CASE i \in 1 .. Count
      <4>1. Named(i).name \in DOMAIN cellar /\ cellar[Named(i).name] = Named(i).digest
        BY <3>2, <1>2 DEF Progress
      <4>2. Named(i) \in V!Nodes
        BY <3>2, <1>2, OrderFacts DEF Progress
      <4>3. V!Poured(n)[Named(i).name] = Named(i).digest
        BY <4>1, <1>3, <1>10
      <4> QED BY <4>2, <4>3 DEF V!Honest
    <3> QED BY <3>1, <3>2, <1>4
  <2> QED BY <2>1, <2>2 DEF V!InstalledPrefix, Named
<1>12. V!Accept(n, after)
  <2>1. Content[prepared.bottles[n.file]].delta <= MaxDelta
    BY <1>5, <1>6, Zenon DEF V!Honest
  <2> QED BY <2>1, <1>1, <1>3, <1>6, <1>9, <1>10, <1>11, Zenon DEF V!Accept
<1>13. building' \in {"finalize", "install"}
  BY <1>8, <1>12
<1> QED BY <1>13 DEF V!Fails

(* finalize-v2 accepts the closure and each piece of the evidence.           *)
LEMMA HonestFinalizes ==
  ASSUME BuildInv, HonestRun, V!Finalize, V!Honest, faults = 0
  PROVE  building' = "failed" => RefusedLast
<1>1. building = "finalize"
  BY DEF V!Finalize
<1>2. PreparedStands /\ ValidRecord /\ Progress /\ Count = Len(V!Order) /\ Count \in Nat
  BY <1>1, OrderFacts DEF BuildInv
<1>3. 1 .. Count = DOMAIN V!Order
  BY <1>2, OrderFacts
<1>4. V!ClosureOK
  <2>1. DOMAIN cellar = V!Racks
    BY <1>2, <1>3, OrderFacts DEF Progress, V!Racks
  <2>2. \A n \in V!Nodes : cellar[n.name] = n.digest
    BY <1>2, <1>3, OrderFacts DEF Progress
  <2> QED BY <2>1, <2>2 DEF V!ClosureOK, V!Honest
<1>5. V!FinalizeAccepts => V!DeltasOK
  <2>1. DOMAIN deltas = 1 .. Count /\ \A i \in 1 .. Count : deltas[i] = V!Order[i]
    BY <1>2 DEF Progress
  <2>2. {deltas[i] : i \in DOMAIN deltas} = {V!Order[i] : i \in 1 .. Count}
    BY <2>1
  <2>3. V!Order = [i \in 1 .. Count |-> V!Order[i]]
    BY <1>2, <1>3 DEF ValidRecord
  <2>4. \A i, j \in 1 .. Count : V!Order[i] = V!Order[j] => i = j
    BY <1>2, <1>3 DEF ValidRecord
  <2>5. V!Cardinality({V!Order[i] : i \in 1 .. Count}) = Count
    <3> DEFINE f == V!Order
    <3>1. f = [i \in 1 .. Count |-> f[i]] /\ Count \in Nat
      BY <1>2, <2>3
    <3>2. \A i, j \in 1 .. Count : f[i] = f[j] => i = j
      BY <2>4
    <3> HIDE DEF f
    <3>3. V!Cardinality({f[i] : i \in 1 .. Count}) = Count
      BY <3>1, <3>2, DistinctCount
    <3> QED BY <3>3 DEF f
  <2>6. \A i \in DOMAIN deltas : V!PouredAt(i) = Named(i).digest /\ Named(i) \in V!Nodes
    BY <1>2, <1>3, <2>1, OrderFacts DEF V!PouredAt, Progress, Named
  <2>7. \A i \in DOMAIN deltas : Content[V!PouredAt(i)].delta <= MaxDelta
    BY <2>6 DEF V!Honest
  <2>8. [i \in DOMAIN deltas |-> V!PouredAt(i)] = [i \in DOMAIN V!Order |-> V!Node(V!Order[i]).digest]
    BY <1>3, <2>1, <2>6 DEF Named
  <2>9. prepared.verified = [id \in V!IDs |-> V!Node(id).digest]
    BY <1>1, HonestEvidence
  <2>10. V!FinalizeAccepts => V!EvidenceFits(prepared.verified, [i \in DOMAIN deltas |-> V!PouredAt(i)])
    BY <2>8, <2>9 DEF V!FinalizeAccepts
  <2> QED BY <1>3, <2>2, <2>5, <2>7, <2>10, Zenon DEF V!DeltasOK, Count
<1>6. V!PreparationOK /\ V!RuntimePolicyOK
  BY <1>1, HonestEvidence DEF V!Honest, V!RuntimePolicyOK
<1>7. cellar = V!Finished
  BY <1>1, AllPoured
<1>8. V!FinalizeAccepts => Assembles(cellar)
  BY <1>7 DEF V!FinalizeAccepts
<1>9. V!FinalizeAccepts => building' = "done"
  BY <1>4, <1>5, <1>6, <1>8 DEF V!Finalize
<1> QED BY <1>7, <1>9 DEF RefusedLast

(* Every step keeps both invariants.                                         *)
LEMMA HonestStep == ASSUME HonestInv, [V!Next]_V!vars PROVE HonestInv'
<1>1. BuildInv'
  BY BuildStep DEF HonestInv
<1>2. faults' \in Nat /\ faults' >= faults
  <2>1. CASE V!BottleStates
    <3>1. CASE faults' = faults
      BY <3>1 DEF HonestInv
    <3>2. CASE faults' # faults
      <4> DEFINE wrong(d) == {i \in DOMAIN V!Order : d[i] # V!Node(V!Order[i]).digest}
      <4>1. PICK d \in [DOMAIN V!Order -> DOMAIN Content] :
              faults' = faults + V!Cardinality(wrong(d))
        BY <2>1, <3>2, Zenon DEF V!BottleStates
      <4>2. wrong(d) \subseteq 1 .. Len(V!Order) /\ Len(V!Order) \in Nat
        BY OrderFacts DEF HonestInv, BuildInv
      <4>3. V!Cardinality(wrong(d)) \in Nat
        BY <4>2, CountFacts, Zenon
      <4> QED BY <4>1, <4>3 DEF HonestInv
    <3> QED BY <3>1, <3>2
  <2>2. CASE V!Prepare \/ V!Finalize \/ UNCHANGED V!vars
    <3>1. faults' = faults
      BY <2>2, Zenon DEF V!Prepare, V!Finalize, V!vars
    <3> QED BY <3>1 DEF HonestInv
  <2>3. CASE V!Install
    BY <2>3 DEF V!Install, HonestInv
  <2>4. CASE V!StepLost \/ V!Rebuild
    BY <2>4 DEF V!StepLost, V!Rebuild, HonestInv
  <2> QED BY <2>1, <2>2, <2>3, <2>4 DEF V!Next
<1>3. record' = record
  BY Zenon DEF V!Next, V!vars, V!BottleStates, V!Prepare, V!Install, V!Finalize, V!StepLost, V!Rebuild,
     V!Fails
<1>4. HonestRun'
  <2> SUFFICES ASSUME V!Honest', faults' = 0 PROVE HonestRun'
    BY DEF HonestRun
  <2>1. V!Honest /\ faults = 0 /\ HonestRun /\ BuildInv
    BY <1>2, <1>3, HonestStays DEF HonestInv
  <2>2. CASE V!BottleStates
    BY <2>1, <2>2, HonestBottles
  <2>3. ASSUME ~V!BottleStates
        PROVE  /\ building' = "failed" => RefusedLast'
               /\ bottles' = bottles /\ fetched' = fetched
               /\ (building' # "fetch" => building # "fetch")
    <3>1. CASE V!Prepare
      BY <3>1, <2>1, HonestPrepares DEF V!Prepare
    <3>2. CASE V!Install
      <4>1. building' # "failed" /\ ~V!Fails
        BY <3>2, <2>1, HonestInstalls
      <4> QED BY <3>2, <4>1, InstallStep, <2>1, Zenon DEF V!Install
    <3>3. CASE V!Finalize
      <4>1. building' = "failed" => RefusedLast
        BY <3>3, <2>1, HonestFinalizes
      <4>2. cellar' = cellar /\ bottles' = bottles /\ fetched' = fetched /\ building = "finalize"
        BY <3>3 DEF V!Finalize, V!Fails
      <4> QED BY <4>1, <4>2, <1>3, RefusalStays DEF RefusedLast
    <3>4. CASE V!StepLost \/ V!Rebuild
      BY <3>4, <2>1 DEF V!StepLost, V!Rebuild
    <3>5. CASE UNCHANGED V!vars
      <4>1. building' = building /\ cellar' = cellar /\ bottles' = bottles /\ fetched' = fetched
        BY <3>5 DEF V!vars
      <4>2. building = "failed" => RefusedLast
        BY <2>1 DEF HonestRun
      <4> QED BY <4>1, <4>2, <1>3, RefusalStays DEF RefusedLast
    <3> QED BY <2>3, <3>1, <3>2, <3>3, <3>4, <3>5 DEF V!Next
  <2>4. CASE ~V!BottleStates
    <3>1. V!Order' = V!Order /\ \A i : Named(i)' = Named(i)
      BY <1>3, RecordStays
    <3>2. {j \in DOMAIN V!Order' : Named(j)'.transport = "https"}
            = {j \in DOMAIN V!Order : Named(j).transport = "https"}
      BY <3>1
    <3> QED BY <2>1, <2>3, <2>4, <3>1, <3>2, Zenon DEF HonestRun
  <2> QED BY <2>2, <2>4
<1> QED BY <1>1, <1>2, <1>4 DEF HonestInv

(* A V2 build that finishes holds the resolution, bottle by bottle, and one *)
(* of which every part is honest fails only in finalize-v2, when the        *)
(* evidence is too long together or the runtime assembly refuses the prefix.*)
BuildDelivers == V!BuildDelivers

(* For every resolution ValidateV2 accepts and all bottles: a V2 build that  *)
(* finishes holds the bottle the resolution names in each of its racks and   *)
(* no other rack; each was poured from the source its own bottle holds,      *)
(* after its dependencies; and when nothing went wrong outside, prepare-v2   *)
(* and install-one-v2 refuse nothing that the steps before them made, and    *)
(* finalize-v2 only for the length of the evidence or the runtime assembly.  *)
THEOREM BuildsTheResolution ==
  ASSUME V!RecordsValid
  PROVE  V!Spec => []BuildDelivers /\ V!PouredFromItsBottle
<1>1. V!Init => HonestInv
  <2> SUFFICES ASSUME V!Init PROVE HonestInv
    OBVIOUS
  <2> QED BY BuildInit DEF HonestInv, HonestRun, V!Init
<1>2. HonestInv /\ [V!Next]_V!vars => HonestInv'
  BY HonestStep
<1>3. HonestInv => BuildDelivers
  BY BuildHolds DEF HonestInv, HonestRun, BuildDelivers, V!BuildDelivers, V!HonestRefusedLast, RefusedLast
<1>4. HonestInv /\ [V!Next]_V!vars =>
        [\A n \in V!Nodes : n.name \in DOMAIN cellar' \ DOMAIN cellar =>
          /\ cellar'[n.name] = n.digest
          /\ taps[n.id] = Content[n.digest].source /\ taps' = taps
          /\ Content[n.digest].standalone
          /\ \A d \in n.deps : V!Node(d).name \in DOMAIN cellar]_V!vars
  BY PouredStep DEF HonestInv
<1> QED BY <1>1, <1>2, <1>3, <1>4, PTL DEF V!Spec, V!PouredFromItsBottle
=============================================================================
