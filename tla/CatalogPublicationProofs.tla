---------------------- MODULE CatalogPublicationProofs ----------------------
(***************************************************************************)
(* The safety properties of CatalogPublication, proved for any operations, *)
(* taps, sources, lifetime and refresh period, and for any number of       *)
(* generations, failing store calls and crashes.                           *)
(***************************************************************************)
EXTENDS CatalogPublication, TLAPS

(* What a worker holds in each stage of publishGenerated. *)
StageShape ==
  \A o \in Operations :
    /\ stage[o] \in {"allocating", "storing"} <=> holder = o
    /\ stage[o] \in {"waiting", "allocating"} => made[o] \in GeneratedSets
    /\ stage[o] \notin {"allocating", "storing", "signed"} => docs[o] = {}
    /\ stage[o] = "signed" => put[o] = docs[o]
    /\ \A d \in docs[o] : d.at = at[o]
    /\ at[o] <= now

(* A catalog file is no older than the publication time it contains. *)
FilesTimed == \A c \in catalogs : c.doc.at <= c.mtime

(* What was stored for a result stays until the result expires. *)
Kept ==
  /\ \A set \in issued : \A d \in set : now < d.at + Lifetime => Present(d)
  /\ \A o \in Operations : \A d \in put[o] : now < d.at + Lifetime => Present(d)

(* A tap's sequence file has the highest number published, with its source. *)
Numbered ==
  \A d \in Published :
    /\ d.number <= sequence[d.tap].number
    /\ d.number = sequence[d.tap].number => d.source = sequence[d.tap].source

(* Nothing was published after the time the holder of publishMu has read. *)
Timely ==
  \A d \in Published :
    /\ d.at <= now
    /\ \A o \in Operations : holder = o => d.at <= at[o]

(* The inductive invariant. *)
Inv ==
  /\ TypeOK /\ StageShape
  /\ FilesTimed /\ Kept
  /\ Numbered /\ Timely
  /\ SequenceNamesSource /\ SequenceFollowsTime

-----------------------------------------------------------------------------
(* A document is published when a result or a publication contains it:     *)
(* stated of any results and staged documents, so that it also holds of    *)
(* the next state. *)
LEMMA UnionDocument ==
  ASSUME NEW sets, NEW staged, NEW d
  PROVE  d \in UNION (sets \cup {staged[o] : o \in Operations})
           <=> \/ \E set \in sets : d \in set
               \/ \E o \in Operations : d \in staged[o]
<1>1. ASSUME NEW set \in sets, d \in set
      PROVE  d \in UNION (sets \cup {staged[o] : o \in Operations})
  BY <1>1
<1>2. ASSUME NEW o \in Operations, d \in staged[o]
      PROVE  d \in UNION (sets \cup {staged[u] : u \in Operations})
  BY <1>2
<1>3. ASSUME d \in UNION (sets \cup {staged[o] : o \in Operations})
      PROVE  \/ \E set \in sets : d \in set
             \/ \E o \in Operations : d \in staged[o]
  BY <1>3
<1>4. QED
  BY <1>1, <1>2, <1>3

(* The same of the current state. *)
LEMMA PublishedDocument ==
  \A d : d \in Published <=> \/ \E set \in issued : d \in set
                             \/ \E o \in Operations : d \in docs[o]
BY UnionDocument DEF Published

(* A step that only drops staged documents publishes nothing new. *)
LEMMA PublishedShrinks ==
  ASSUME \A set \in issued' : set \in issued \/ \E o \in Operations : set = docs[o],
         \A o \in Operations : docs'[o] \subseteq docs[o]
  PROVE  Published' \subseteq Published
<1>1. ASSUME NEW d \in Published' PROVE d \in Published
  <2>1. (\E set \in issued' : d \in set) \/ (\E o \in Operations : d \in docs'[o])
    BY <1>1, UnionDocument DEF Published
  <2>2. (\E set \in issued : d \in set) \/ (\E o \in Operations : d \in docs[o])
    BY <2>1
  <2>3. QED
    BY <2>2, PublishedDocument
<1>2. QED
  BY <1>1

(* Published documents have the fields of a document. *)
LEMMA PublishedType == TypeOK => Published \subseteq Documents
BY PublishedDocument DEF TypeOK

(* A step that publishes nothing new, lets time pass at most and leaves    *)
(* the sequences alone, or raises them, keeps what is said of them.        *)
LEMMA NothingPublished ==
  ASSUME Inv, Published' \subseteq Published, now <= now', now' \in Nat,
         UNCHANGED sequence,
         \A o \in Operations : holder' = o => \/ at'[o] = now
                                              \/ holder = o /\ at'[o] = at[o]
  PROVE  Numbered' /\ Timely' /\ SequenceNamesSource' /\ SequenceFollowsTime'
<1>1. Published \subseteq Documents
  BY PublishedType DEF Inv
<1>2. Numbered'
  BY DEF Inv, Numbered
<1>3. Timely'
  <2>1. ASSUME NEW d \in Published' PROVE d.at <= now'
    <3>1. d.at <= now /\ d.at \in Nat /\ now \in Nat
      BY <1>1, <2>1 DEF Inv, Timely, Documents, TypeOK
    <3>2. QED
      BY <3>1
  <2>2. ASSUME NEW d \in Published', NEW o \in Operations, holder' = o PROVE d.at <= at'[o]
    BY <2>2 DEF Inv, Timely
  <2>3. QED
    BY <2>1, <2>2 DEF Timely
<1>4. SequenceNamesSource' /\ SequenceFollowsTime'
  BY DEF Inv, SequenceNamesSource, SequenceFollowsTime
<1>5. QED
  BY <1>2, <1>3, <1>4

(* A step that removes no catalog file keeps stored documents present,     *)
(* when it stores nothing but what is there and time does not go back.     *)
LEMMA NothingLost ==
  ASSUME Inv, catalogs \subseteq catalogs', now <= now', now' \in Nat,
         issued' = issued, \A o \in Operations : put'[o] \subseteq put[o]
  PROVE  Kept'
<1>1. ASSUME NEW d \in Documents, now' < d.at + Lifetime,
             now < d.at + Lifetime => Present(d)
      PROVE  Present(d)'
  <2>1. now < d.at + Lifetime
    BY <1>1, TimesAssumption DEF Inv, TypeOK, Documents
  <2>2. QED
    BY <1>1, <2>1 DEF Present
<1>2. ASSUME NEW set \in issued, NEW d \in set, now' < d.at + Lifetime PROVE Present(d)'
  BY <1>1, <1>2 DEF Inv, TypeOK, Kept
<1>3. ASSUME NEW o \in Operations, NEW d \in put'[o], now' < d.at + Lifetime
      PROVE  Present(d)'
  BY <1>1, <1>3 DEF Inv, TypeOK, Kept
<1>4. QED
  BY <1>2, <1>3 DEF Kept

-----------------------------------------------------------------------------
(* The empty store satisfies the invariant. *)
LEMMA InitInv == Init => Inv
<1> SUFFICES ASSUME Init PROVE Inv
  OBVIOUS
<1>1. Published = {}
  BY PublishedDocument DEF Init
<1>2. TypeOK
  BY NamesAssumption DEF Init, TypeOK, Stages
<1>3. StageShape
  BY NamesAssumption DEF Init, StageShape
<1>4. FilesTimed /\ Kept
  BY DEF Init, FilesTimed, Kept
<1>5. Numbered /\ Timely /\ SequenceNamesSource /\ SequenceFollowsTime
  BY <1>1 DEF Numbered, Timely, SequenceNamesSource, SequenceFollowsTime
<1>6. QED
  BY <1>2, <1>3, <1>4, <1>5 DEF Inv

(* A worker that drops what it staged keeps the invariant, wherever it     *)
(* leaves publishMu to nobody. *)
LEMMA AbandonKeepsInv ==
  ASSUME Inv, NEW o \in Operations, stage[o] \in {"allocating", "storing"}, Abandon(o),
         UNCHANGED <<now, issued>>, catalogs \subseteq catalogs'
  PROVE  /\ StageShape' /\ Kept' /\ Published' \subseteq Published
         /\ \A u \in Operations : holder' # u
         /\ stage' \in [Operations -> Stages] /\ holder' = NoOne
         /\ made' \in [Operations -> GeneratedSets \cup {<<>>}]
         /\ at' \in [Operations -> Nat]
         /\ docs' \in [Operations -> SUBSET Documents]
         /\ put' \in [Operations -> SUBSET Documents]
         /\ \A u \in Operations : put'[u] \subseteq docs'[u]
<1> USE DEF Abandon, DropStaging
<1>1. TypeOK /\ StageShape
  BY DEF Inv
<1>2. \A u \in Operations : holder' # u
  BY NamesAssumption
<1>3. /\ stage' \in [Operations -> Stages] /\ holder' = NoOne
      /\ made' \in [Operations -> GeneratedSets \cup {<<>>}]
      /\ at' \in [Operations -> Nat]
      /\ docs' \in [Operations -> SUBSET Documents]
      /\ put' \in [Operations -> SUBSET Documents]
      /\ \A u \in Operations : put'[u] \subseteq docs'[u]
  BY <1>1 DEF TypeOK, Stages
<1>4. \A u \in Operations : docs'[u] \subseteq docs[u] /\ put'[u] \subseteq put[u]
  BY <1>1 DEF TypeOK
<1>5. Published' \subseteq Published
  BY <1>4, PublishedShrinks
<1>6. Kept'
  BY <1>1, <1>4, NothingLost DEF TypeOK
<1>7. StageShape'
  <2>1. ASSUME NEW u \in Operations, u # o
        PROVE  /\ stage'[u] = stage[u] /\ made'[u] = made[u] /\ docs'[u] = docs[u]
               /\ put'[u] = put[u] /\ at'[u] = at[u] /\ holder # u
    BY <1>1, <2>1 DEF TypeOK, StageShape
  <2>2. stage'[o] = "failed" /\ docs'[o] = {} /\ at'[o] = 0
    BY <1>1 DEF TypeOK
  <2>3. 0 <= now'
    BY <1>1 DEF TypeOK
  <2>4. QED
    BY <1>1, <1>2, <2>1, <2>2, <2>3 DEF StageShape
<1>8. QED
  BY <1>2, <1>3, <1>5, <1>6, <1>7

-----------------------------------------------------------------------------
(* Steps that store, allocate and record nothing keep the invariant as     *)
(* soon as they keep types and stages. *)
LEMMA QuietKeepsInv ==
  ASSUME Inv, TypeOK', StageShape', UNCHANGED <<sequence, catalogs, issued>>,
         now <= now',
         \A o \in Operations : docs'[o] \subseteq docs[o] /\ put'[o] \subseteq put[o],
         \A o \in Operations : holder' = o => \/ at'[o] = now
                                              \/ holder = o /\ at'[o] = at[o]
  PROVE  Inv'
<1>1. now' \in Nat
  BY DEF TypeOK
<1>2. Published' \subseteq Published
  BY PublishedShrinks
<1>3. Numbered' /\ Timely' /\ SequenceNamesSource' /\ SequenceFollowsTime'
  BY <1>1, <1>2, NothingPublished
<1>4. Kept'
  BY <1>1, NothingLost
<1>5. FilesTimed'
  BY DEF Inv, FilesTimed
<1>6. QED
  BY <1>3, <1>4, <1>5 DEF Inv

(* A request that starts a generation. *)
LEMMA BeginKeepsInv ==
  ASSUME Inv, NEW o \in Operations, Begin(o)
  PROVE  Inv'
<1>1. TypeOK /\ StageShape
  BY DEF Inv
<1>2. TypeOK'
  BY <1>1 DEF Begin, TypeOK, Stages
<1>3. StageShape'
  BY <1>1 DEF Begin, TypeOK, StageShape
<1>4. now <= now'
  BY <1>1 DEF Begin, TypeOK
<1>5. QED
  BY <1>2, <1>3, <1>4, QuietKeepsInv DEF Begin

(* The generator returns a set, or fails. *)
LEMMA GeneratorKeepsInv ==
  ASSUME Inv, NEW o \in Operations,
         (\E set \in GeneratedSets : Generated(o, set)) \/ GenerationFails(o)
  PROVE  Inv'
<1>1. TypeOK /\ StageShape
  BY DEF Inv
<1>2. ASSUME NEW set \in GeneratedSets, Generated(o, set) PROVE TypeOK' /\ StageShape'
  <2>1. TypeOK'
    BY <1>1, <1>2 DEF Generated, TypeOK, Stages, files, bounds
  <2>2. StageShape'
    BY <1>1, <1>2 DEF Generated, TypeOK, StageShape, files, bounds
  <2>3. QED
    BY <2>1, <2>2
<1>3. CASE GenerationFails(o)
  <2>1. TypeOK'
    BY <1>1, <1>3 DEF GenerationFails, TypeOK, Stages, files, bounds
  <2>2. StageShape'
    BY <1>1, <1>3 DEF GenerationFails, TypeOK, StageShape, files, bounds
  <2>3. QED
    BY <1>1, <1>3, <2>1, <2>2, QuietKeepsInv DEF GenerationFails, TypeOK, files
<1>4. now <= now' /\ UNCHANGED <<sequence, catalogs, issued, docs, put, holder, at>>
  BY <1>1 DEF Generated, GenerationFails, TypeOK, files, bounds
<1>5. QED
  BY <1>2, <1>3, <1>4, QuietKeepsInv

(* A worker takes publishMu and reads the clock. *)
LEMMA LockPublishKeepsInv ==
  ASSUME Inv, NEW o \in Operations, LockPublish(o)
  PROVE  Inv'
<1>1. TypeOK /\ StageShape
  BY DEF Inv
<1>2. TypeOK'
  BY <1>1 DEF LockPublish, TypeOK, Stages, files, bounds
<1>3. StageShape'
  BY <1>1, NamesAssumption DEF LockPublish, TypeOK, StageShape, files, bounds
<1>4. now <= now' /\ UNCHANGED <<sequence, catalogs, issued, docs, put>>
  BY <1>1 DEF LockPublish, TypeOK, files, bounds
<1>5. \A u \in Operations : holder' = u => at'[u] = now
  BY <1>1 DEF LockPublish, TypeOK
<1>6. QED
  BY <1>2, <1>3, <1>4, <1>5, QuietKeepsInv

(* The result is signed and publishMu released. *)
LEMMA SignResultKeepsInv ==
  ASSUME Inv, NEW o \in Operations, SignResult(o)
  PROVE  Inv'
<1>1. TypeOK /\ StageShape
  BY DEF Inv
<1>2. TypeOK'
  BY <1>1 DEF SignResult, TypeOK, Stages, files, bounds
<1>3. StageShape'
  BY <1>1, NamesAssumption DEF SignResult, TypeOK, StageShape, files, bounds
<1>4. now <= now' /\ UNCHANGED <<sequence, catalogs, issued, docs, put>>
  BY <1>1 DEF SignResult, TypeOK, files, bounds
<1>5. \A u \in Operations : holder' # u
  BY NamesAssumption DEF SignResult
<1>6. QED
  BY <1>2, <1>3, <1>4, <1>5, QuietKeepsInv

(* A publication that is rejected. *)
LEMMA PublicationFailsKeepsInv ==
  ASSUME Inv, NEW o \in Operations, PublicationFails(o)
  PROVE  Inv'
<1>1. UNCHANGED <<now, status, result, terminal, sequence, catalogs, issued, runs, faults, crashes>>
  BY DEF PublicationFails, files, bounds
<1>2. StageShape' /\ \A u \in Operations : holder' # u
  BY <1>1, AbandonKeepsInv DEF PublicationFails
<1>3. TypeOK'
  <2>1. TypeOK
    BY DEF Inv
  <2>2. QED
    BY <1>1, <2>1, AbandonKeepsInv DEF PublicationFails, TypeOK
<1>4. \A u \in Operations : docs'[u] \subseteq docs[u] /\ put'[u] \subseteq put[u]
  BY DEF PublicationFails, Abandon, DropStaging, Inv, TypeOK
<1>5. now <= now'
  BY <1>1 DEF Inv, TypeOK
<1>6. QED
  BY <1>1, <1>2, <1>3, <1>4, <1>5, QuietKeepsInv

(* A failure is recorded, or cannot be. *)
LEMMA FinishFailedKeepsInv ==
  ASSUME Inv, NEW o \in Operations, NEW outcome \in Outcomes, FinishFailed(o, outcome)
  PROVE  Inv'
<1> USE DEF FinishFailed, Leave, DropStaging, StoreCall
<1>1. TypeOK /\ StageShape
  BY DEF Inv
<1>2. TypeOK'
  BY <1>1 DEF TypeOK, Stages
<1>3. StageShape'
  <2>1. \A u \in Operations \ {o} :
          /\ stage'[u] = stage[u] /\ made'[u] = made[u] /\ docs'[u] = docs[u]
          /\ put'[u] = put[u] /\ at'[u] = at[u]
    BY <1>1 DEF TypeOK
  <2>2. stage'[o] = "idle" /\ docs'[o] = {} /\ at'[o] = 0 /\ 0 <= now' /\ holder # o
    BY <1>1 DEF TypeOK, StageShape
  <2>3. QED
    BY <1>1, <2>1, <2>2 DEF StageShape
<1>4. /\ now <= now'
      /\ \A u \in Operations : docs'[u] \subseteq docs[u] /\ put'[u] \subseteq put[u]
  BY SMTT(30), <1>1 DEF TypeOK
<1>5. \A u \in Operations : holder' = u => holder = u /\ at'[u] = at[u]
  BY <1>1 DEF TypeOK, StageShape
<1>6. QED
  BY <1>2, <1>3, <1>4, <1>5, QuietKeepsInv

(* Eviction forgets the result, not its catalogs. *)
LEMMA EvictKeepsInv ==
  ASSUME Inv, NEW o \in Operations, Evict(o)
  PROVE  Inv'
<1>1. TypeOK /\ StageShape
  BY DEF Inv
<1>2. TypeOK'
  BY <1>1 DEF Evict, TypeOK, bounds
<1>3. StageShape'
  BY <1>1 DEF Evict, StageShape
<1>4. now <= now'
  BY SMTT(30), <1>1 DEF Evict, TypeOK
<1>5. QED
  BY <1>2, <1>3, <1>4, QuietKeepsInv DEF Evict

(* The process dies, or time passes. *)
LEMMA CrashTickKeepsInv ==
  ASSUME Inv, Crash \/ Tick
  PROVE  Inv'
<1>1. TypeOK /\ StageShape
  BY DEF Inv
<1>2. CASE Crash
  <2>1. TypeOK'
    BY SMTT(30), <1>1, <1>2 DEF Crash, TypeOK, Stages, files
  <2>2. StageShape'
    BY SMTT(30), <1>1, <1>2, NamesAssumption DEF Crash, TypeOK, StageShape, files
  <2>3. /\ now <= now' /\ UNCHANGED <<sequence, catalogs, issued>>
        /\ \A o \in Operations : holder' # o /\ docs'[o] = {} /\ put'[o] = {}
    BY SMTT(30), <1>1, <1>2, NamesAssumption DEF Crash, TypeOK, files
  <2>4. QED
    BY <2>1, <2>2, <2>3, QuietKeepsInv
<1>3. CASE Tick
  <2>1. TypeOK'
    BY SMTT(30), <1>1, <1>3 DEF Tick, TypeOK, files, memory, bounds
  <2>2. StageShape'
    BY SMTT(30), <1>1, <1>3 DEF Tick, TypeOK, StageShape, files, memory, bounds
  <2>3. now <= now' /\ UNCHANGED <<sequence, catalogs, issued, docs, put, holder, at>>
    BY SMTT(30), <1>1, <1>3 DEF Tick, TypeOK, files, memory
  <2>4. QED
    BY <2>1, <2>2, <2>3, QuietKeepsInv
<1>4. QED
  BY <1>2, <1>3

-----------------------------------------------------------------------------
(* nextSequence never goes back, and only moves on for another source. *)
LEMMA NextSequenceRises ==
  ASSUME TypeOK, NEW t \in Taps, NEW source \in Sources
  PROVE  LET next == NextSequence(t, source)
         IN  /\ next \in [number : Nat, source : Sources \cup {Unset}]
             /\ next.source = source
             /\ sequence[t].number <= next.number
             /\ next.number = sequence[t].number => sequence[t].source = source
<1>1. sequence[t] \in [number : Nat, source : Sources \cup {Unset}]
  BY DEF TypeOK
<1>2. CASE sequence[t].source = source
  BY SMTT(30), <1>1, <1>2 DEF NextSequence
<1>3. CASE sequence[t].source # source
  BY SMTT(30), <1>1, <1>3 DEF NextSequence
<1>4. QED
  BY <1>2, <1>3

(* With a raised sequence file everything published stays within it. *)
LEMMA RaisedKeepsNumbered ==
  ASSUME Inv, NEW t \in Taps, NEW source \in Sources,
         sequence' = [sequence EXCEPT ![t] = NextSequence(t, source)]
  PROVE  \A d \in Published :
           /\ d.number <= sequence'[d.tap].number
           /\ d.number = sequence'[d.tap].number => d.source = sequence'[d.tap].source
<1> DEFINE next == NextSequence(t, source)
<1>1. TypeOK /\ Published \subseteq Documents
  BY PublishedType DEF Inv
<1>2. /\ next \in [number : Nat, source : Sources \cup {Unset}]
      /\ next.source = source
      /\ sequence[t].number <= next.number
      /\ next.number = sequence[t].number => sequence[t].source = source
  BY <1>1, NextSequenceRises
<1> HIDE DEF next
<1>3. sequence' = [sequence EXCEPT ![t] = next]
  BY DEF next
<1> SUFFICES ASSUME NEW d \in Published
             PROVE  /\ d.number <= sequence'[d.tap].number
                    /\ d.number = sequence'[d.tap].number => d.source = sequence'[d.tap].source
  OBVIOUS
<1>4. /\ d.number <= sequence[d.tap].number
      /\ d.number = sequence[d.tap].number => d.source = sequence[d.tap].source
  BY DEF Inv, Numbered
<1>5. d.number \in Nat /\ d.tap \in Taps /\ sequence[d.tap].number \in Nat /\ next.number \in Nat
  BY <1>1, <1>2 DEF Documents, TypeOK
<1>6. CASE d.tap = t
  <2>1. sequence'[d.tap] = next
    BY <1>1, <1>3, <1>6 DEF TypeOK
  <2>2. QED
    BY SMTT(30), <1>2, <1>4, <1>5, <1>6, <2>1
<1>7. CASE d.tap # t
  BY <1>1, <1>3, <1>4, <1>5, <1>7 DEF TypeOK
<1>8. QED
  BY <1>6, <1>7

(* The next tap of a generated set, its source and its place in the set.   *)
LEMMA MadeType ==
  ASSUME Inv, NEW o \in Operations, stage[o] = "allocating", NEW t \in DOMAIN made[o]
  PROVE  t \in Taps /\ made[o][t] \in Sources
<1>1. made[o] \in GeneratedSets
  BY DEF Inv, StageShape
<1>2. PICK T \in SUBSET Taps : made[o] \in [T -> Sources]
  BY <1>1 DEF GeneratedSets
<1>3. QED
  BY <1>2

(* A time that is no later than another does not come after it. *)
LEMMA NotLater ==
  ASSUME NEW x \in Nat, NEW y \in Nat, x <= y
  PROVE  ~(y < x)
BY SMTT(30)

(* The document for the next number of a tap, and the step that stages it. *)
NextDocument(o, t, source) ==
  [tap |-> t, source |-> source, number |-> NextSequence(t, source).number, at |-> at[o]]

Staging(o, t, source, after) ==
  /\ stage[o] = "allocating"
  /\ sequence' = [sequence EXCEPT ![t] = NextSequence(t, source)]
  /\ docs' = [docs EXCEPT ![o] = @ \cup {NextDocument(o, t, source)}]
  /\ stage' = [stage EXCEPT ![o] = after]
  /\ faults' \in Nat
  /\ UNCHANGED <<now, status, result, terminal, made, at, put, holder, catalogs,
                 issued, runs, crashes>>

(* A number is allocated and the document staged. *)
LEMMA StagedKeepsInv ==
  ASSUME Inv, NEW o \in Operations, NEW t \in Taps, NEW source \in Sources,
         NEW after \in {"allocating", "storing"}, Staging(o, t, source, after)
  PROVE  Inv'
<1> DEFINE next == NextSequence(t, source)
<1> DEFINE doc == NextDocument(o, t, source)
<1>1. TypeOK /\ StageShape /\ stage[o] = "allocating" /\ holder = o
  BY DEF Inv, StageShape, Staging
<1>2. sequence' = [sequence EXCEPT ![t] = next]
  BY DEF Staging
<1>3. docs' = [docs EXCEPT ![o] = @ \cup {doc}] /\ stage' = [stage EXCEPT ![o] = after]
  BY DEF Staging
<1>4. UNCHANGED <<now, status, result, terminal, made, at, put, holder, catalogs, issued,
                  runs, crashes>> /\ faults' \in Nat
  BY DEF Staging
<1>5. /\ next \in [number : Nat, source : Sources \cup {Unset}]
      /\ next.source = source
  BY <1>1, NextSequenceRises
<1>6. doc.tap = t /\ doc.source = source /\ doc.number = next.number /\ doc.at = at[o]
  BY DEF NextDocument
<1>7. doc \in Documents
  <2>1. next.number \in Nat /\ at[o] \in Nat
    BY <1>1, <1>5 DEF TypeOK
  <2>2. QED
    BY <2>1 DEF NextDocument, Documents
<1>8. \A d \in Published :
        /\ d.number <= sequence'[d.tap].number
        /\ d.number = sequence'[d.tap].number => d.source = sequence'[d.tap].source
  BY Zenon, <1>2, RaisedKeepsNumbered
<1> HIDE DEF next, doc
<1>9. sequence'[t] = next
  BY <1>1, <1>2 DEF TypeOK
<1>10. \A d \in Published' : d \in Published \/ d = doc
  <2>1. ASSUME NEW d \in Published' PROVE d \in Published \/ d = doc
    <3>1. (\E set \in issued : d \in set) \/ (\E u \in Operations : d \in docs'[u])
      BY <1>4, <2>1, UnionDocument DEF Published
    <3>2. \A u \in Operations : docs'[u] \subseteq docs[u] \cup {doc}
      BY <1>1, <1>3 DEF TypeOK
    <3>3. QED
      BY <3>1, <3>2, PublishedDocument
  <2>2. QED
    BY <2>1
<1>11. TypeOK'
  <2>1. docs' \in [Operations -> SUBSET Documents] /\ \A u \in Operations : docs[u] \subseteq docs'[u]
    BY <1>1, <1>3, <1>7 DEF TypeOK
  <2>2. stage' \in [Operations -> Stages]
    BY <1>1, <1>3 DEF TypeOK, Stages
  <2>3. sequence' \in [Taps -> [number : Nat, source : Sources \cup {Unset}]]
    BY <1>1, <1>2, <1>5 DEF TypeOK
  <2>4. QED
    BY <1>1, <1>4, <2>1, <2>2, <2>3 DEF TypeOK
<1>12. StageShape'
  <2>1. \A u \in Operations \ {o} : stage'[u] = stage[u] /\ docs'[u] = docs[u]
    BY <1>1, <1>3 DEF TypeOK
  <2>2. stage'[o] = after /\ docs'[o] = docs[o] \cup {doc}
    BY <1>1, <1>3 DEF TypeOK
  <2>3. QED
    BY <1>1, <1>4, <1>6, <2>1, <2>2 DEF StageShape
<1>13. FilesTimed' /\ Kept'
  BY <1>4 DEF Inv, FilesTimed, Kept, Present
<1>14. Numbered'
  <2>1. doc.number <= sequence'[doc.tap].number /\ doc.source = sequence'[doc.tap].source
    BY SMTT(30), <1>5, <1>6, <1>9
  <2>2. QED
    BY <1>8, <1>10, <2>1 DEF Numbered
<1>15. Timely'
  <2>1. doc.at <= now /\ \A u \in Operations : holder = u => doc.at <= at[u]
    BY SMTT(30), <1>1, <1>6 DEF StageShape, TypeOK
  <2>2. QED
    BY <1>4, <1>10, <2>1 DEF Inv, Timely
<1>16. SequenceNamesSource'
  <2>1. ASSUME NEW d \in Published, d.tap = t, d.number = doc.number PROVE d.source = source
    BY <1>5, <1>6, <1>8, <1>9, <2>1
  <2>2. QED
    BY <1>6, <1>10, <2>1 DEF Inv, SequenceNamesSource
<1>17. SequenceFollowsTime'
  <2>1. ASSUME NEW d \in Published, d.tap = t PROVE d.number <= doc.number /\ ~(doc.at < d.at)
    <3>1. d.number <= doc.number
      BY <1>6, <1>8, <1>9, <2>1
    <3>2. d.at <= at[o]
      BY <1>1 DEF Inv, Timely
    <3>3. d.at \in Nat /\ at[o] \in Nat
      BY <1>1, PublishedType DEF TypeOK, Documents
    <3>4. ~(at[o] < d.at)
      BY <3>2, <3>3, NotLater
    <3>5. QED
      BY <1>6, <3>1, <3>4
  <2>2. ~(doc.at < doc.at)
    <3>1. at[o] \in Nat
      BY <1>1 DEF TypeOK
    <3>2. ~(at[o] < at[o])
      BY SMTT(30), <3>1, NotLater
    <3>3. QED
      BY <1>6, <3>2
  <2>3. QED
    BY <1>6, <1>10, <2>1, <2>2 DEF Inv, SequenceFollowsTime
<1>18. QED
  BY <1>11, <1>12, <1>13, <1>14, <1>15, <1>16, <1>17 DEF Inv

(* Allocation of a sequence number, with every outcome of the write. *)
LEMMA AllocateKeepsInv ==
  ASSUME Inv, NEW o \in Operations, NEW outcome \in Outcomes, AllocateSequence(o, outcome)
  PROVE  Inv'
<1>1. PICK t \in DOMAIN made[o] \ StagedTaps(o) :
        LET next == NextSequence(t, made[o][t])
            doc == [tap |-> t, source |-> made[o][t], number |-> next.number, at |-> at[o]]
        IN  /\ sequence' = IF outcome = "lost" THEN sequence
                           ELSE [sequence EXCEPT ![t] = next]
            /\ IF outcome = "saved"
               THEN /\ docs' = [docs EXCEPT ![o] = @ \cup {doc}]
                    /\ stage' = [stage EXCEPT ![o] =
                                   IF DOMAIN made[o] = StagedTaps(o) \cup {t}
                                   THEN "storing" ELSE "allocating"]
                    /\ UNCHANGED <<made, at, put, holder>>
               ELSE Abandon(o)
  BY Zenon DEF AllocateSequence
<1>2. stage[o] = "allocating" /\ UNCHANGED <<now, status, result, terminal, catalogs, issued, runs, crashes>>
  BY DEF AllocateSequence
<1>3. t \in Taps /\ made[o][t] \in Sources
  BY <1>2, MadeType
<1>4. faults' \in Nat
  BY SMTT(30) DEF AllocateSequence, StoreCall, Inv, TypeOK
<1>5. CASE outcome = "saved"
  <2>1. PICK after \in {"allocating", "storing"} : stage' = [stage EXCEPT ![o] = after]
    BY <1>1, <1>5
  <2>2. /\ sequence' = [sequence EXCEPT ![t] = NextSequence(t, made[o][t])]
        /\ docs' = [docs EXCEPT ![o] = @ \cup {NextDocument(o, t, made[o][t])}]
        /\ UNCHANGED <<made, at, put, holder>>
    BY <1>1, <1>5 DEF NextDocument
  <2>3. Staging(o, t, made[o][t], after)
    BY <1>2, <1>4, <2>1, <2>2 DEF Staging
  <2>4. QED
    BY <1>3, <2>3, StagedKeepsInv
<1>6. CASE outcome # "saved"
  <2>1. Abandon(o)
    BY <1>1, <1>6
  <2>2. /\ StageShape' /\ Kept' /\ Published' \subseteq Published
        /\ \A u \in Operations : holder' # u
    BY <1>2, <2>1, AbandonKeepsInv
  <2>3. \/ sequence' = sequence
        \/ sequence' = [sequence EXCEPT ![t] = NextSequence(t, made[o][t])]
    BY <1>1
  <2>4. sequence' \in [Taps -> [number : Nat, source : Sources \cup {Unset}]]
    <3>1. NextSequence(t, made[o][t]) \in [number : Nat, source : Sources \cup {Unset}]
      BY <1>3, NextSequenceRises DEF Inv
    <3>2. QED
      BY Zenon, <1>3, <2>3, <3>1 DEF Inv, TypeOK
  <2>5. TypeOK'
    <3>1. TypeOK
      BY DEF Inv
    <3>2. QED
      BY <1>2, <1>4, <2>1, <2>4, <3>1, AbandonKeepsInv DEF TypeOK
  <2>6. Numbered'
    BY <1>3, <2>2, <2>3, RaisedKeepsNumbered DEF Inv, Numbered
  <2>7. Timely' /\ SequenceNamesSource' /\ SequenceFollowsTime' /\ FilesTimed'
    BY <1>2, <2>2 DEF Inv, Timely, SequenceNamesSource, SequenceFollowsTime, FilesTimed
  <2>8. QED
    BY <2>2, <2>5, <2>6, <2>7 DEF Inv
<1>7. QED
  BY <1>5, <1>6

(* A staged document is stored, with every outcome of the write. *)
LEMMA PutCatalogKeepsInv ==
  ASSUME Inv, NEW o \in Operations, NEW outcome \in Outcomes, PutCatalog(o, outcome)
  PROVE  Inv'
<1>1. PICK d \in docs[o] \ put[o] :
        /\ Present(d) => outcome = "saved"
        /\ catalogs' = IF Present(d) \/ outcome = "lost" THEN catalogs
                       ELSE catalogs \cup {[doc |-> d, mtime |-> now]}
        /\ IF outcome = "saved"
           THEN /\ put' = [put EXCEPT ![o] = @ \cup {d}]
                /\ UNCHANGED <<stage, made, at, docs, holder>>
           ELSE Abandon(o)
  BY Zenon DEF PutCatalog
<1>2. /\ stage[o] = "storing"
      /\ UNCHANGED <<now, status, result, terminal, sequence, issued, runs, crashes>>
  BY DEF PutCatalog
<1>3. TypeOK /\ StageShape /\ faults' \in Nat
  BY SMTT(30) DEF PutCatalog, StoreCall, Inv, TypeOK
<1>4. d \in Documents /\ d.at <= now
  BY <1>3 DEF TypeOK, StageShape
<1>5. catalogs \subseteq catalogs' /\ catalogs' \subseteq catalogs \cup {[doc |-> d, mtime |-> now]}
  BY <1>1
<1>6. catalogs' \subseteq [doc : Documents, mtime : Nat]
  BY SMTT(30), <1>3, <1>4, <1>5 DEF TypeOK
<1>7. FilesTimed'
  BY SMTT(30), <1>4, <1>5 DEF Inv, FilesTimed
<1>8. now <= now' /\ now' \in Nat
  BY SMTT(30), <1>2, <1>3 DEF TypeOK
<1>9. CASE outcome = "saved"
  <2>1. put' = [put EXCEPT ![o] = @ \cup {d}] /\ UNCHANGED <<stage, made, at, docs, holder>>
    BY <1>1, <1>9
  <2>2. Present(d)'
    <3>1. CASE Present(d)
      BY <1>5, <3>1 DEF Present
    <3>2. CASE ~Present(d)
      <4>1. [doc |-> d, mtime |-> now] \in catalogs'
        BY <1>1, <1>9, <3>2
      <4>2. [doc |-> d, mtime |-> now].doc = d
        OBVIOUS
      <4>3. QED
        BY <4>1, <4>2 DEF Present
    <3>3. QED
      BY <3>1, <3>2
  <2>3. TypeOK'
    BY <1>2, <1>3, <1>4, <1>6, <2>1 DEF TypeOK
  <2>4. StageShape'
    BY <1>2, <1>3, <2>1 DEF TypeOK, StageShape
  <2>5. Kept'
    <3>1. \A e : Present(e) => Present(e)'
      BY <1>5 DEF Present
    <3>2. \A u \in Operations : \A e \in put'[u] : e \in put[u] \/ e = d
      BY <1>3, <2>1 DEF TypeOK
    <3>3. QED
      BY <1>2, <2>2, <3>1, <3>2 DEF Inv, Kept
  <2>6. Published' \subseteq Published
    BY <1>2, <2>1, PublishedShrinks
  <2>7. Numbered' /\ Timely' /\ SequenceNamesSource' /\ SequenceFollowsTime'
    BY <1>2, <1>8, <2>1, <2>6, NothingPublished
  <2>8. QED
    BY <1>7, <2>3, <2>4, <2>5, <2>7 DEF Inv
<1>10. CASE outcome # "saved"
  <2>1. Abandon(o)
    BY <1>1, <1>10
  <2>2. /\ StageShape' /\ Kept' /\ Published' \subseteq Published
        /\ \A u \in Operations : holder' # u
    BY <1>2, <1>5, <2>1, AbandonKeepsInv
  <2>3. TypeOK'
    BY <1>2, <1>3, <1>5, <1>6, <2>1, AbandonKeepsInv DEF TypeOK
  <2>4. Numbered' /\ Timely' /\ SequenceNamesSource' /\ SequenceFollowsTime'
    BY <1>2, <1>8, <2>2, NothingPublished
  <2>5. QED
    BY <1>7, <2>2, <2>3, <2>4 DEF Inv
<1>11. QED
  BY <1>9, <1>10

(* The collection removes only catalogs whose results have expired. *)
LEMMA GarbageExpired ==
  ASSUME Inv, NEW done, NEW c \in Garbage(done)
  PROVE  c \in catalogs /\ ~(now < c.doc.at + Lifetime)
<1>1. c \in catalogs /\ now - c.mtime >= Lifetime
  BY DEF Garbage
<1>2. c.doc.at <= c.mtime /\ c.doc.at \in Nat /\ c.mtime \in Nat /\ now \in Nat
  BY <1>1 DEF Inv, FilesTimed, TypeOK, Documents
<1>3. QED
  BY SMTT(30), <1>1, <1>2, TimesAssumption

(* A result is recorded, or cannot be, and catalogs are collected. *)
LEMMA FinishCompletedKeepsInv ==
  ASSUME Inv, NEW o \in Operations, NEW outcome \in Outcomes, NEW swept \in SUBSET catalogs,
         FinishCompleted(o, outcome, swept)
  PROVE  Inv'
<1>1. TypeOK /\ StageShape /\ stage[o] = "signed" /\ put[o] = docs[o]
  BY DEF FinishCompleted, Inv, StageShape
<1>2. UNCHANGED <<now, holder, sequence, runs, crashes>> /\ catalogs' = catalogs \ swept
  BY DEF FinishCompleted
<1>3. \/ UNCHANGED <<status, result, issued>>
      \/ /\ status' = [status EXCEPT ![o] = "completed"]
         /\ result' = [result EXCEPT ![o] = docs[o]]
         /\ issued' = issued \cup {docs[o]}
  BY DEF FinishCompleted
<1>4. /\ stage' = [stage EXCEPT ![o] = "idle"]
      /\ made' = [made EXCEPT ![o] = <<>>]
      /\ at' = [at EXCEPT ![o] = 0]
      /\ docs' = [docs EXCEPT ![o] = {}]
      /\ put' = [put EXCEPT ![o] = {}]
  BY DEF FinishCompleted, Leave, DropStaging
<1>5. faults' \in Nat /\ terminal' \subseteq Operations
  BY SMTT(30), <1>1 DEF FinishCompleted, StoreCall, TypeOK
<1>6. TypeOK'
  <2>1. status' \in [Operations -> {"absent", "pending", "failed", "completed"}]
        /\ result' \in [Operations -> SUBSET Documents] /\ issued' \subseteq SUBSET Documents
    <3>1. CASE UNCHANGED <<status, result, issued>>
      BY <1>1, <3>1 DEF TypeOK
    <3>2. CASE /\ status' = [status EXCEPT ![o] = "completed"]
               /\ result' = [result EXCEPT ![o] = docs[o]]
               /\ issued' = issued \cup {docs[o]}
      <4>1. docs[o] \in SUBSET Documents
        BY <1>1 DEF TypeOK
      <4>2. status' \in [Operations -> {"absent", "pending", "failed", "completed"}]
        BY <1>1, <3>2 DEF TypeOK
      <4>3. result' \in [Operations -> SUBSET Documents] /\ issued' \subseteq SUBSET Documents
        BY <1>1, <3>2, <4>1 DEF TypeOK
      <4>4. QED
        BY <4>2, <4>3
    <3>3. QED
      BY <1>3, <3>1, <3>2
  <2>2. /\ stage' \in [Operations -> Stages]
        /\ made' \in [Operations -> GeneratedSets \cup {<<>>}]
        /\ at' \in [Operations -> Nat]
    BY <1>1, <1>4 DEF TypeOK, Stages
  <2>3. /\ docs' \in [Operations -> SUBSET Documents]
        /\ put' \in [Operations -> SUBSET Documents]
        /\ \A u \in Operations : put'[u] \subseteq docs'[u]
    BY <1>1, <1>4 DEF TypeOK
  <2>4. catalogs' \subseteq [doc : Documents, mtime : Nat]
    BY <1>1, <1>2 DEF TypeOK
  <2>5. QED
    BY <1>1, <1>2, <1>5, <2>1, <2>2, <2>3, <2>4 DEF TypeOK
<1>7. StageShape'
  <2>1. \A u \in Operations \ {o} :
          /\ stage'[u] = stage[u] /\ made'[u] = made[u] /\ docs'[u] = docs[u]
          /\ put'[u] = put[u] /\ at'[u] = at[u]
    BY <1>1, <1>4 DEF TypeOK
  <2>2. stage'[o] = "idle" /\ docs'[o] = {} /\ at'[o] = 0
    BY <1>1, <1>4 DEF TypeOK
  <2>3. 0 <= now
    BY SMTT(30), <1>1 DEF TypeOK
  <2>4. holder # o
    BY <1>1 DEF StageShape
  <2>5. QED
    BY <1>1, <1>2, <2>1, <2>2, <2>3, <2>4 DEF StageShape
<1>8. FilesTimed'
  BY <1>2 DEF Inv, FilesTimed
<1>9. Kept'
  <2>1. ASSUME NEW d, Present(d), now < d.at + Lifetime PROVE Present(d)'
    <3>1. PICK c \in catalogs : c.doc = d
      BY <2>1 DEF Present
    <3>2. c \notin swept
      BY <2>1, <3>1, GarbageExpired DEF FinishCompleted
    <3>3. QED
      BY <1>2, <3>1, <3>2 DEF Present
  <2>2. \A set \in issued' : set \in issued \/ set = put[o]
    BY <1>1, <1>3
  <2>3. \A u \in Operations : put'[u] \subseteq put[u]
    BY <1>1, <1>4 DEF TypeOK
  <2>4. QED
    BY <1>2, <2>1, <2>2, <2>3 DEF Inv, Kept
<1>10. Published' \subseteq Published
  <2>1. \A u \in Operations : docs'[u] \subseteq docs[u]
    BY <1>1, <1>4 DEF TypeOK
  <2>2. QED
    BY <1>3, <2>1, PublishedShrinks
<1>11. \A u \in Operations : holder' = u => holder = u /\ at'[u] = at[u]
  BY <1>1, <1>2, <1>4 DEF TypeOK, StageShape
<1>12. now <= now' /\ now' \in Nat
  BY SMTT(30), <1>1, <1>2 DEF TypeOK
<1>13. Numbered' /\ Timely' /\ SequenceNamesSource' /\ SequenceFollowsTime'
  BY <1>2, <1>10, <1>11, <1>12, NothingPublished
<1>14. QED
  BY <1>6, <1>7, <1>8, <1>9, <1>13 DEF Inv

-----------------------------------------------------------------------------
(* Every step keeps the invariant: one case per action. *)
LEMMA NextInv == Inv /\ [Next]_vars => Inv'
<1> SUFFICES ASSUME Inv, [Next]_vars PROVE Inv'
  OBVIOUS
<1>1. ASSUME NEW o \in Operations, Step(o) PROVE Inv'
  BY <1>1, BeginKeepsInv, GeneratorKeepsInv, LockPublishKeepsInv, SignResultKeepsInv,
     PublicationFailsKeepsInv, AllocateKeepsInv, PutCatalogKeepsInv, FinishFailedKeepsInv,
     FinishCompletedKeepsInv, EvictKeepsInv DEF Step
<1>2. CASE Crash \/ Tick
  BY <1>2, CrashTickKeepsInv
<1>3. CASE UNCHANGED vars
  <2>1. TypeOK' /\ StageShape'
    BY <1>3 DEF vars, Inv, TypeOK, StageShape
  <2>2. now <= now'
    BY SMTT(30), <1>3 DEF vars, Inv, TypeOK
  <2>3. QED
    BY <1>3, <2>1, <2>2, QuietKeepsInv DEF vars
<1>4. QED
  BY <1>1, <1>2, <1>3 DEF Next

(* The invariant holds throughout every behaviour of the publication. *)
THEOREM Invariance == Spec => []Inv
BY InitInv, NextInv, PTL DEF Spec

(* Files and worker variables keep the shape the code gives them. *)
THEOREM TypeCorrect == Spec => []TypeOK
<1>1. Inv => TypeOK
  BY DEF Inv
<1>2. QED
  BY <1>1, Invariance, PTL

(* Until a result expires every catalog it refers to can be fetched:       *)
(* removeCatalogsExcept, whatever operations it finds and whenever it      *)
(* runs, removes no file of a result that a client may still hold.         *)
THEOREM ResultsServable == Spec => []IssuedServable
<1>1. Inv => IssuedServable
  <2> SUFFICES ASSUME Inv PROVE IssuedServable
    OBVIOUS
  <2>1. Kept
    BY DEF Inv
  <2>2. QED
    BY <2>1 DEF Kept, IssuedServable, Unexpired
<1>2. QED
  BY <1>1, Invariance, PTL

(* A sequence number names one source of its tap and a catalog published   *)
(* later never has a lower one, however publications, failing writes of    *)
(* the sequence file and crashes interleave: publishGenerated reads the    *)
(* clock and allocates the number under one mutex (nextSequence).          *)
THEOREM SequencesCorrect == Spec => []SequencesSound
<1>1. Inv => SequencesSound
  BY DEF Inv, SequencesSound
<1>2. QED
  BY <1>1, Invariance, PTL
=============================================================================
