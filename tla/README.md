# Verification of dalec-homebrew

TLA+ models of dalec-homebrew, a BuildKit frontend that builds container images
from Homebrew bottles, together with the catalog service it consults for
formulae outside homebrew/core. The modules are written from the Go code under
`src/`; `PROJECT.json` maps every definition to the lines it models, lists the
hazards the properties are about and gives a mutant of the code that breaks each
property.

Model checking: `tlc -config X.cfg M`. Proofs: `tlapm M.tla`.

## The system and its parts

A build request reaches the **frontend** (`internal/frontend`, `internal/spec`).
It loads signed **homebrew metadata** (`internal/homebrew/metadata`), asks the
**catalog service** through the **catalog client** for formulae of other taps,
**resolves** the closure of the requested formulae (`internal/resolver`,
`internal/catalogresolver`), records it (`internal/resolution`) and emits LLB
(`internal/llbutil`) whose steps run the **bottle fetcher**, the
**materializer**, the **runtime assembly** and the **test runner** in
containers. The catalog service runs the **catalog generator**, which evaluates
taps with the **extractor**, ingests bottles from registries and HTTPS servers,
and keeps a **cache** and an **artifact store**.

| part | source (under `internal/`) | what makes it hard | module |
|---|---|---|---|
| operations, worker pool, eviction, restart | `catalogservice/service.go`, `store.go` | handlers, workers, shutdown and crashes over shared maps and files | `CatalogService`, `OperationLifecycle` |
| publication and garbage collection | same files | two mutexes, several files per publication, expiry | `CatalogPublication` |
| external generator | `catalogservice/command_generator.go` | `Close` against running and arriving calls | `CommandGenerator`, `CommandGroup` |
| client and key rotation | `catalogclient`, `catalogauth`, `catalogkeys`, `catalog/compare.go` | polling against a deadline while the service decides, refreshes, changes its key | `CatalogClient` |
| generator | `cataloggenerator/generator.go`, `prebuilt_artifact.go`, `frontend/noncore.go` | a fixed point computed twice, by different code, from different input | `CatalogGeneration` |
| generator cache | `cataloggenerator/cache.go` | reference-counted key locks, immutable records | `ArtifactCache` |
| tap documents | `catalogextractor/raw.go`, `catalog/validate.go` | two evaluations folded into one document | `FormulaCatalogs` |
| core documents | `homebrew/metadata/catalog.go` | aliases, old names, migrations, variations | `FormulaCatalogs` |
| closure over taps | `catalogresolver/resolver.go` | names whose meaning depends on what is loaded | `ClosureResolver` |
| artifact store | `catalogartifactstore/store.go` | concurrent writers of one digest, power failure | `ArtifactStore` |
| fetcher | `fetcher/*.go` | redirects, changing servers, two files published without replacement | `BottleFetch`, `FetchFiles` |
| registry client | `homebrew/oci/*.go`, `cataloggenerator/artifact.go`, `provenance.go` | token cache shared by concurrent requests, a tag read twice | `RegistryAuth`, `DescriptorChain` |
| metadata | `homebrew/metadata/bundle.go`, `fetch.go`, `cmd/metadata-bundle` | two documents of different age, three files, kills | `MetadataBundle` |
| frontend and core resolver | `frontend/handler.go`, `v2_build.go`, `resolver/resolver.go`, `runtime/config.go` | concurrent platform builds of one image | `FrontendBuild` |
| installer supervision, test runner | `materializer/process_linux.go`, `testrunner/runner.go` | descendants that fork while they are killed | `ProcessTree`, `CommandGroup` |
| materializer | `materializer/install.go`, `formula_tap*.go`, `receipt_normalize.go` | what one pour may change, and what later pours may undo | `PrefixInstall`, `KegContainment`, `GeneratedTrees`, `LoaderCache`, `SnapshotPath`, `SnapshotLookup`, `FormulaStaging`, `ReceiptNormalize` |
| V2 build | `llbutil/v2.go`, `materializer/v2_*.go` | a chain of executions that trust earlier mounts | `MaterializeV2` |
| runtime assembly | `runtimefs/*.go` | scanner and verifier written twice, byte order, a source that changes | `RuntimeScan`, `RuntimeAssemble`, `DescendantIndex`, `PruneEvidence`, `RuleNormalize`, `ByteOrder` |

The remaining parts (byte-level archive and ELF parsing, version strings,
configuration decoding, release manifests, command-line wiring) are listed with
their reasons under "components" of `PROJECT.json`.

## Modules

Conventions. A call that holds one mutex for its whole body is one action; a
call that is interrupted by others has one action per step between which they
can come. Sequential code over data is an operator with the names of the code,
and the property compares it with a reference definition or with other code
that has to agree with it. A byte string is its own digest, a signature names
its key. Every action that stands for a system or network call has a failing
outcome. Counters are bounded by constants named `Max...`.

### Catalog service

`CatalogService` models every operation of `Service` that changes state. An
operation is named by the digest of its request, so one identifier stands for
the operation file, the request file and the generation.

| state | code |
|---|---|
| `disk`, `requests`, `older` | `operations/<id>.json`, `requests/<id>.json`, order of modification times |
| `life` | `Service.closed` and the cancellation of `Service.ctx`; `"down"` when no process runs |
| `active`, `queued`, `queue`, `slots`, `terminal` | the fields `active`, `queued`, `queue`, `len(generationSlots)`, `terminalErrors` |
| `job`, `phase` | the goroutines in `runGeneration` |

`"stale"` stands for a completed operation that `cachedResultFresh` rejects;
`Expire` is the passing of time and runs no code.

| action | code |
|---|---|
| `PostNew`, `PostUnstored`, `PostEvictFails`, `PostRefresh`, `PostPending` | the branches of `handleCatalogSet`, including eviction, quota and failing store calls |
| `PollRefresh`, `PollPending` | `handleOperation` |
| `GeneratorReturns`, `PublishGenerated`, `FinishOperation`, `GenerationDone` | `runGeneration` and its deferred call |
| `CloseMark`, `CloseCancel`, `CloseEnd` | `Close` |
| `Crash`, `Start` | death of the process; `New` with `resumePending` |

Handlers hold `Service.mu` for their whole body, so each branch is one action. A
worker takes `mu` twice, to record its outcome and to leave the pool, and
everything else can happen in between. `ServeHTTP` refuses requests once
`closed` is set, but a handler it let in before that may take `mu` afterwards;
handlers therefore stay enabled until the process is down. An `atomicWrite` that
fails may have replaced the file (the directory sync failed) or not; both are
outcomes of every save.

`OperationLifecycle` is what clients may rely on, without pool, queue, limits or
restarts: an operation becomes pending when accepted, a pending one is decided
once, a decided one only becomes pending again or is forgotten, and a pending
one is forgotten only when its outcome could not be recorded. `CatalogService`
implements it with `status <- disk` and `unrecorded <- terminal`.

`CatalogPublication` is `publishGenerated` call by call (sequence allocation per
tap, `putCatalog` per document, signing), interleaved with other publications,
with completions that collect garbage under the other mutex, with eviction,
expiry, failing calls and crashes. A document is its tap, source, sequence
number and publication time; its canonical bytes name its file, so equal
documents share a file. The pool is not repeated: an operation has at most one
worker, which is proved of `CatalogService` (`OneWorkerEach`). One clock drives
both `Service.now` and modification times, as on a host whose file system and
process share the system clock. A file system that rounds modification times
down shortens the retention by its granularity.

`CommandGenerator` is `Generate` and `Close` over the pinned executable: the
`RWMutex` with its preference for a waiting writer, the `Once`, and the look at
`closed` that comes before the start of the command. `CommandGroup` is the
command itself, for the generator and for a step of the test runner: a process
group whose members fork, leave, exit and write, the capture with its limit, the
cancellation, the wait delay and the kill of the group.

### Client

`CatalogClient` is `Resolve`: `Post`, `Sleep`, `Poll`, `Verify` and `FetchCatalog`
against a service that may hold an operation of an earlier caller (pending,
failed, or completed at one of the times `Published`), generates for a while,
refreshes what `cachedResultFresh` rejects, has its signing key rotated (`Rotate`,
which restarts a generation under way from nothing) and may answer wrongly a
bounded number of times (`WrongResults`: the result of another request, of an
older deployment, a stale one; `WrongDocuments`: another document). The refresh
interval and the lifetime of a result are two independent constants, as they are
two independent options of the service. `InWindow`, `VerifyAccepted`, `AcceptedKeyIDs`,
`BindingOK` and `ReferenceOK` are the checks of `catalogauth`, `catalogkeys` and
`catalog/compare.go`; `Pause` bounds what the service says about polling.

### Generator, documents and closure

`FormulaCatalogs` builds the index of Homebrew's two signed documents (canonical
names, aliases, old names, migrations, variations by platform) and looks names up
in it, and it has `ToCatalog`: the evaluations of a tap on two architectures
become one document with variations. `ClosureResolver` extends it with the
closure of a request over core and the taps loaded so far. `CatalogGeneration`
is the generator's fixed point on top of it: each round resolves, meets a
missing tap, and ingests it; then come the selection of artifacts, publication,
and the frontend, which resolves every root again from the signed documents,
and the materializer, which recomputes the recipe of a derived bottle. The three
modules compose by extension, so what a property of `CatalogGeneration` says
goes through the code of all of them. The limits are where the code has them: on
taps in the generator and in `New` of the resolver, on nodes of one closure in the
resolver, on nodes of all targets together and on the sizes of documents in the
signer, which the generator does not look at. A document's size counts its
Formulae, names and dependencies; the bound on the size of the signed set itself
(`MaxCatalogSetBytes`) is left out.

`ArtifactCache` is `cachedArtifactBuilder`, step by step. `keyLocks` and `users` are
the map of locks and their reference counts, `owner` who has locked one, `record`
the cache files. `Register` and `Unregister` are the two critical sections under
`mu`; between them a builder acquires the lock of its key, reads the record,
builds, checks for a record again and renames its file into place, each an
action of its own. A lock is named by its address; one that nobody refers to can
be allocated again. There is one process per directory, because
`catalogservice.New` takes the writer lock.

### What brings bytes in

`ArtifactStore` has `Put` and `Open` system call by system call; `dir` is the
directory as the kernel shows it and `disk` what of it is durable, so a power
failure loses what was not synced. A `Put` that finds an entry verifies it and
returns without a directory sync (`store.go:104-110`), so `promised` tells what the
Puts that returned promise of an entry: `"held"` until power fails, `"durable"`
from the first directory sync a Put returns from. The removal of a temporary file
after a failure may itself fail unseen. `FetchFiles` is the publication of two output
files by calls that do not know of each other, with rollback and kills.
`BottleFetch` follows one HTTPS bottle from probe to fetch to build through
redirects, name resolution and servers that change. `RegistryAuth` is the retry
loop of `doRegistryGET` over the challenge and token maps that concurrent calls
share. `DescriptorChain` reads the tag of an index twice and everything below it
by digest while the publisher pushes; a receipt is compared with the tab as
`reflect.DeepEqual` does it. `MetadataBundle` has the capture of the two
metadata documents, the three files it writes (the removals after a failed write
succeed), and the frontend that loads or fetches them. `FrontendBuild` validates a spec and resolves each platform in a
callback of its own: work queue, bottle selection, depth-first order, the
comparison of the records, and the `PATH` of the image.

### Materializer

`FormulaStaging` copies and verifies the bottles and stages the Formula sources
as one transaction. `PrefixInstall` is the loop over the install order: each turn
takes a snapshot, lets Homebrew pour one bottle with whatever effect, and
accepts the result by the rules of `KegContainment` and `GeneratedTrees`.
`SnapshotPath` is the path resolution those rules rest on, `SnapshotLookup` runs
its loop against the file system's own rule, `LoaderCache` is the line reader of
the gdk-pixbuf cache, and `ReceiptNormalize` the replacement of the receipt.
`MaterializeV2` is the chain of executions: a step sees the mounts earlier steps
left, and a build that failed starts again at the step that failed. Evidence is
its length: that of `prepare-v2` and that of one install have a bound in the step
that writes them (`MaxPreparation`, `MaxDelta`), their sum has one in `finalize-v2`
alone (`MaxMaterialization`); `Assembles` is the verdict of `RuntimeAssemble`.
`ProcessTree` is the supervisor of a pour: subreaper, process group,
cancellation, and the loop that kills and reaps descendants which fork, leave
the group and write to the prefix meanwhile.

### Runtime assembly

`RuntimeScan` has what the policy says of a path and `scanAndPlan` pass by pass, and `RuntimeAssemble` plans, copies while the source may change,
verifies the copy with rules of its own, renames and publishes the evidence.
`DescendantIndex` (paths as bytes, from `ByteOrder`), `PruneEvidence` and
`RuleNormalize` are the three algorithms below it whose mistakes a test of
ordinary names would not show. `RuleNormalize` has the rules below `var` with
their profile; those below `etc` take the same way, and they, the owner rules, the
other prefixes an option may name and the roots of Python's own tests are left
out.

## Runs

Components that share no state are checked in one run: its variable `part`
picks, in the initial state, which component moves, and the others stay in a
resting state. The initial states are thus the union of the components' own.

| run | instance | shows |
|---|---|---|
| `service` | 4 requests, 3 goroutines, 2 workers, 3 admissions, 3 stored operations, 1 failing write, 2 stops | slots, workers, queue, admission, quota and outcomes are consistent in every interleaving, and the service implements `OperationLifecycle` across shutdown and crash |
| `publication` | 2 operations, 1 tap with 2 sources, lifetime 2, refresh 1, 3 generations, 1 failing call, 1 crash | no catalog of an unexpired result is missing; a number names one source and never falls |
| `processes` | 3 processes per pour and per command, 2 callers and 2 closers of the generator, 2 requests with 1 worker, 2 builders of one key, a client that finds any operation and goes through a key rotation, 3 Formulae in 2 shards | what each returns is complete, and each returns |
| `catalogs` | core documents of three Formulae, two-Formula taps over all pairs of evaluations, four taps that refer to one another, documents and sets within and beyond their sizes | one meaning per name; generator, frontend and publication agree |
| `stores` | 2 calls of the store with a power failure and damage, 3 of the fetcher's output, 2 hosts with a change, 3 registry calls in 2 repositories, 24 indexes with a push, 2 captures over 2 generations, 10 specs in 6 worlds | what is kept is what was declared; honest input is accepted |
| `installer` | five install orders with any one change per pour, 15 link targets, caches of 12 lines, texts up to 7 characters, a V2 build of three bottles with 2 faults and evidence within and beyond its bounds | what is accepted keeps earlier Formulae intact; what is honest is accepted but for what `finalize-v2` alone decides |
| `runtime` | development and shared trees, copies with a changing source, 7 byte paths with 3 calls, every header tree over 4 paths, rule lists up to 3 in 3 spellings | what ships is complete, booked once and accepted by the verifier |
| `resume_limit` | 2 requests, 1 admission, 1 stop | **violated**: a stopped service can leave a store that `New` refuses |
| `runtime_execbits` | a global copy of a keg file with other execute bits | **violated**: the verifier refuses the scanner's plan |
| `tap_kegonly` | two-Formula taps | **violated**: an honest tap is refused |
| `generation_recipe` | a tap with a prebuilt archive | **violated**: the recipe changes with publication |
| `referrer_evidence` | an index whose bundle is a referrer | **violated**: honest evidence is refused |

The properties of the passing runs are conjunctions: each conjunct is defined,
with a comment on the code it is about, in the module of its component. A
property that a theorem states is defined where the theorem can see it, in the
component's module or in the proof module that instantiates the component; the
`MC` module extends that module, so run and theorem are about one definition. The
other properties are defined in the `MC` modules.

| run | property | conjuncts |
|---|---|---|
| `service` | `SchedulerSound` | `SlotAccounting`, `OneWorkerEach`, `QueueSound`, `WorkConserving`, `AdmissionBound` |
| | `StoreSound` | `WorkIsPending`, `QuotaRespected`, `RequestsKept` |
| | `EvictionSpares`, `LifecycleSpec` | eviction leaves work in hand alone; refinement |
| `publication` | `IssuedServable` | catalogs of unexpired results are there |
| | `SequencesSound` | `SequenceNamesSource`, `SequenceFollowsTime` |
| `processes` | `ReturnsQuiet` | no process outlives a supervised pour |
| | `OutputJudged` | `JudgedOutputIsWhole`, `GroupEnded` |
| | `GeneratorExcludes` | `PinnedWhileInUse`, `NothingAfterClose` |
| | `StagingAtomic` | `PouredIsVerified`, `PublishedIsWhole`, `AllOrNothing` |
| | `CacheSound` | `OneBuilderPerKey`, `LocksCounted`, `ReturnedIsRecorded` |
| | `ResolvedIsBound` | what the client accepts is signed, current and its own |
| | `RotationServed` | `OverlapIsServed`, `PollsPaced` |
| | `PendingServed` | a polled operation is decided |
| | `CallsReturn` | `CancelledPourEnds`, `RunTerminates`, `NoLateWrite`, `CallReturns`, `CloseReturns`, `GenerateReturns`, `StagingEnds`, `BuildReturns`, `ResolveReturns` |
| `catalogs` | `DocumentsKeepMeaning` | `MeaningIsUnique`, `InstallableOnEveryTag`, `LinuxRuntimeNeedsKept`, `PlatformViewKept`, `BareIsStable` |
| | `ClosureSound` | `ClosureIsEvaluated`, `GeneratedIsPublishable` |
| | `SidesAgree` | `FrontendAgrees`, `SelectionAgreesUnlessRenamed`, `AloneAgreesUnlessPrebuilt` |
| | `EveryRoundIngests` | discovery makes progress |
| `stores` | `KeptIsWhole` | `EntriesWhole`, `ReportedHolds`, `StoredIsClean`, `EvidenceNamesItsBottle`, `ReturnedKeeps`, `FailedLeavesNothing` |
| | `StoresKeep` | `NeverReplaced`, `OpenedIsExpected`, `OthersKept`, `FailedRunLeavesNothing` |
| | `FetchedIsDeclared` | `DialsArePublic`, `DeliveredIsDeclared`, `EvidenceAccepted`, `WaivedMeansAbsent` |
| | `TokensShared` | `TokensInScope`, `RejectedOnlyIfRefused` |
| | `IngestedIsHonest` | `IngestedIsOneBuild`, `SourceReproduces`, `EvidenceIsHonest` |
| | `SnapshotSound` | `LoadedIsCaptured`, `MembersInWindow`, `DigestVouches`, `SnapshotRecordable` |
| | `RecordSound` | `RecordIsClosure`, `MinimumsMet`, `ImageIsOneBuild`, `PathFindsRoots` |
| | `HonestAccepted` | `ProbedIsFetched`, `HonestIngested`, `HonestCaptured`, `HonestBuilds` |
| `installer` | `PrefixSound` | `KegsHold`, `NoForeignAlias`, `GlobalLinksOwned`, `NoStrayExecutable` |
| | `GeneratedSound` | `NpmFromBottle`, `LoadersFromBottles`, `SharedDataSound` |
| | `LookupSound` | `AgreesWithFileSystem`, `ResolvedIsFinal` |
| | `LoaderCacheRead` | `AcceptsTheGrammar`, `BlocksKeepEveryLine`, `FieldsAreTheLine` |
| | `ReceiptSafe` | `ReceiptIsWhole`, `NoTemporaryLeft` |
| | `BuildDelivers` | `FinishedHoldsTheResolution`, `HonestRefusedLast` |
| | `InstallKeeps` | `NamesKeepMeaning`, `LookupShrinks`, `EditsNotOverwritten`, `PouredFromItsBottle` |
| `runtime` | `ShipsWhole` | `NeededLinksShip`, `ParentsShip`, `BookedToItsPackage` |
| | `VerifierAgrees` | the verifier accepts what the scanner planned |
| | `PublishedSound` | `OutputIsWhole`, `EvidenceBound` |
| | `GivesTheRest` | the descendant index, call by call |
| | `PruneAccounts` | `PartitionsSource`, `CommitsWholeTrees`, `NeverRefused`, `ChainsLeadOn` |
| | `RulesAgree` | `RecordedIsAccepted`, `OneOwner` |

The bounds are the smallest that let the interesting cases meet. In `service`
there are more requests than admissions and places and more admissions than
slots, so the limits refuse some, eviction happens while others run, and a queue
exists while workers finish; goroutine names exceed the concurrency limit, so
the limit is enforced by the slots and not by the names. In `publication` three
generations suffice for a result, its refresh and a third completion that
collects, the clock passes a lifetime, and a source can change and change back.
Three processes are a child, a descendant and one that is born while the others
are killed. Two callers and two closers let a writer wait behind a reader while
another reader arrives. The client's generation times are one that fits the
deadline and one beyond the horizon; a slow answer is longer than the rest of the
deadline; and the lifetime of a result is shorter than the refresh interval, so that
a result can expire before its refresh is due.
In `installer` the bottles include files that relocation or the formula rewrites
and a loader below a directory of its own; three bottles have longer evidence than
the others: `prepare-v2` refuses one of them, `install-one-v2` another, and the third
makes only the sum too long. Two repositories that exchange scopes are what it takes for a cached
token to be the right one of the wrong repository. In `installer` the pairs of
an install order are one Formula for each generated tree and one that comes
after it, since the later pour is the one that could undo the earlier. The
byte paths include names that sort between a directory and its contents.

Symmetry is over identifiers that the code only compares, in `service` and
`publication`; `processes`, which checks liveness, uses none. Deadlock is checked
in `service`, where a service can always be stopped and started. The others end:
a call returns, an install finishes, or the bounds on time and generations are
used up. That they end in the right place is a property of its own wherever
something waits (`CallsReturn`, `PendingServed`, `EveryRoundIngests`).

Fairness, all in `processes`: the Go scheduler runs a runnable goroutine, and a
generator returns because its context has a deadline (`WF` of the workers, of
`Generate`, of `Close`); a supervisor restarts a stopped process (`Start`);
`catalogclient` polls while an operation is pending (`PollPending`). The timers
of the supervisors run out: the step's context ends, and the two-second deadline
of the reaping loop passes however often the loop goes round (`SF` of
`AfterDeadline`); the supervisor's own steps are weakly fair, and no process of a
pour or of a command is assumed to do anything. Time passes while a client
sleeps. In the cache a builder that can go on does, and `Acquire` is strongly fair: a `sync.Mutex` is handed to a waiter that
has waited for a millisecond. No fairness is assumed of POST, of expiry, of
publishers or of calls succeeding.

### What the violated runs found

`resume_limit`. `New` "resumes pending operations" (`service.go:98-99`), and
`resumePending` fails when more operations are pending on disk than
`MaxPendingGenerations` (`service.go:1015`). The admission check counts
generations that run or wait, not operations that are pending on disk. A handler
let in before `Close` stores a pending operation that `startLocked` does not start
and that therefore uses up no admission, and so does a refresh between
`finishOperation` and `generationDone`. The instance has `MaxPending = 1`, and TLC
reaches a stopped service with two pending operations, which `New` rejects.

`runtime_execbits`. The verifier is to "mirror the scanner's fixed point"
(`assemble.go:756`), but it compares whether any execute bit is set, where the
scanner compares the exact bits. The `runtime` run shows that the verifier accepts
the scanner's plan for the other trees of the instance for which the scanner makes
a plan that keeps the target of every link to an optional tool (it also accepts a
link to one that is left out, `scan.go:1192`, which the verifier refuses,
`assemble.go:890`; `VerifierAgrees` does not speak of such plans).

`tap_kegonly`. `convertFormula` writes a variation with `KegOnly` and without
`OverridesKegOnly` for a keg-only Formula whose dependencies alone differ by
architecture, and `validateFormula` then refuses the whole tap.

`generation_recipe`. The recipe digest of a derived bottle covers `published_at`,
a placeholder at generation time that publication replaces, while the
materializer recomputes the digest from the replaced value.

`referrer_evidence`. `FetchSigstoreBundleReferrer` selects the descriptors with an
`artifactType` and validates them with a function that refuses an `artifactType`.

Some boundaries are stated by conjuncts that hold and are worth knowing.
`HonestIngested`: an honest bottle with a receipt that lists no runtime
dependencies is never ingested, since `catalogDependencies` makes an empty slice
of them and `catalogBottleTab` nil (`artifact.go:224-228`). `HonestRefusedLast`: a V2
build whose every step stayed within the bounds of its evidence may be refused by
`finalize-v2` for the sum, after every bottle was poured.
`GeneratedIsPublishable`: what `Generate` returns may exceed the limits on nodes
of all targets and on sizes, which only the signer applies. `ReportedHolds`: a
`Put` that finds an entry does not make it durable.
`SelectionAgreesUnlessRenamed`: the resolver and the artifact builder agree on
what may be a prebuilt archive, except that a prebuilt Formula requested under
another name is authorised and then refused. `AloneAgreesUnlessPrebuilt`:
resolving every root alone finds what the joint resolution found, except that a
root which needs another, prebuilt root is refused alone. `SnapshotRecordable`:
the V2 record refuses a snapshot only when both metadata documents are dated
after the time it was fetched, which the allowed clock skew makes possible.

## Proofs

`CatalogServiceProofs` proves, for any finite set of requests and goroutine
names, any positive limits and any number of faults and stops:

| theorem | statement |
|---|---|
| `TypeCorrect` | `Spec => []TypeOK` |
| `SchedulerCorrect` | `Spec => []SchedulerSound`: one slot per worker, one worker per operation, queue and map agree, no operation waits beside a free slot, admission limit |
| `StoreCorrect` | `Spec => []StoreSound`: what runs or waits is pending on disk, quota, every operation has its request |
| `ImplementsLifecycle` | `Spec => LifecycleSpec` |
| `OutcomeOnce`, `EvictionCorrect` | the action properties `OutcomeReplacesPending` and `EvictionSpares` |

None of these invariants is inductive alone. The inductive invariant `Inv` is
`TypeOK /\ SchedulerInv /\ StoreInv /\ DownForgets`, for these reasons:

- the slot count is preserved when a worker leaves only because `active` names
  exactly the busy goroutines, each once (`OneWorkerEach`), which in turn needs
  that a queued operation is not active (`QueueSound`);
- the quota is preserved by a failing or succeeding POST because eviction leaves
  at most `MaxStored - 1` files or the quota check refuses;
- eviction keeps `WorkIsPending` because what is evicted is not active, and what
  is queued is pending and has no entry in `terminalErrors`;
- `generationDone` drops nothing from the queue because queued operations have no
  entry in `terminalErrors`, so its head is always launchable;
- `New` restores the scheduler's part only because a process that is down has no
  workers (`DownForgets`), and the admission limit because `resumePending`
  refuses a store with more pending operations.

The refinement needs one more invariant, `InHandUndecided`: an operation that is
queued or has a worker yet to record its outcome has no entry in
`terminalErrors`. With it every action maps to one step of the lifecycle or to
a stutter.

Assumptions on the constants: `IdsAssumption`, `GoroutinesAssumption` (finite
sets, so that `Cardinality` makes sense), `LimitsAssumption` (positive limits, as
`New` enforces), `BoundsAssumption`. TLC evaluates them in the runs.

`CatalogPublicationProofs`, for any lifetime, refresh period, taps and sources
and any number of operations, faults and crashes:

| theorem | statement |
|---|---|
| `TypeCorrect` | `Spec => []TypeOK` |
| `ResultsServable` | `Spec => []IssuedServable` |
| `SequencesCorrect` | `Spec => []SequencesSound`: a number names one source, and never falls |

The inductive invariant adds to them who holds what at each point of a
publication (`StageShape`), that a file is no older than the publication of its
document (`FilesTimed`), that files of unexpired results and of a publication
under way exist (`Kept`), that the sequence file has the highest number with its
source (`Numbered`), and that nothing was published after the time the holder of
`publishMu` has read (`Timely`). The collection spares a file because it is
younger than the lifetime of any result that can refer to it, not because a
recorded operation does. Assumptions: `NamesAssumption`, `TapsAssumption`,
`TimesAssumption`, `PublicationBounds`.

`ArtifactCacheProofs`, for any finite number of goroutines and locks and any
keys and artifacts:

| theorem | statement |
|---|---|
| `TypeCorrect` | `Spec => []TypeOK` |
| `CacheCorrect` | `Spec => []CacheSound`: one builder per key, exact reference counts, every returned artifact on record |
| `RecordsImmutable` | `Spec => RecordImmutable` |

Exclusion rests on the map: a builder between `Register` and `Unregister` has in
hand the lock the map has for its key (`Holding`), a lock belongs to one key
(`OneKeyPerLock`), and the count is the number of references (`Counted`), so the
entry is deleted only when no other builder has the lock in hand. From exclusion
follows that a record found absent is still absent at the rename (`Recording`).
Assumptions: `BuildersAssumption`, `NoneAssumption`.

The five modules below prove theorems about components they take in with
`INSTANCE`, with the constants left open. `MCProcesses`, `MCStores` and
`MCInstaller` extend them and give the constants values, so TLC checks the
instances, and the properties, that the theorems are about. What a theorem needs
of the constants is an operator of the component's module and a hypothesis of the
theorem; the `MC` modules assume it (`InstancesSound`, `RecordsSound`), so that TLC
evaluates it in the runs.

`ProcessProofs`, for any set of processes, of callers, of closers and of Formulae:

| theorem | statement |
|---|---|
| `SupervisorQuiet` | `Spec => []ReturnsQuiet /\ NoLateWrite` of `ProcessTree` |
| `JudgedOutput` | `Spec => []OutputJudged` of `CommandGroup` |
| `GeneratorExclusion` | `Spec => []GeneratorExcludes` of `CommandGenerator` |
| `StagedWhole` | `Spec => []StagingAtomic` of `FormulaStaging` |

The supervisor returns when a scan of the process table shows it no descendant.
That nothing is left then is an argument about trees, and `Rooted` is what it
takes: every process of the pour that has not been reaped has the supervisor or
a live process for its parent, and no non-empty set of them is closed under
`parent`. A subreaper keeps both when processes die, since it inherits the
orphans; and when the supervisor sees no child, the whole set would be closed.
`NoLateWrite` follows because only a live process writes. For a command,
`Collected` says that once the group was killed nothing of it is alive or joins
it, `Accounted` that until the limit is hit what was emitted is kept or in the
pipe, `Reaped` what `Wait` knows when it returns no error. For the generator,
the readers of the mutex are exactly the goroutines between `RLock` and
`RUnlock`. For the staged tree, `Entries` says what stands under the public and
the temporary name at every phase and `Undone` what a rollback has put back.
`ProcsAssumption` says that the installer is a process of its pour and neither
the supervisor nor init is; `GoroutinesDiffer` that a goroutine does not both
call and close.

`StoreProofs`, for any calls, digests, documents and clocks and any number of
crashes and damaged files:

| theorem | statement |
|---|---|
| `StoreKeeps` | `Spec => []KeptIsWhole /\ NeverReplaced /\ OpenedIsExpected` of `ArtifactStore` |
| `OutputsKept` | `Spec => []KeptIsWhole /\ OthersKept` of `FetchFiles` |
| `LoadsCaptured` | `Spec => []SnapshotSound /\ FailedRunLeavesNothing` of `MetadataBundle` |
| `KeptWhole`, `KeptStays` | the properties `KeptIsWhole` and `StoresKeep` of the run, for the components together |

In the store every call that is about to link holds a temporary file that was
checked and synced (`CallsStand`), so every entry, in the directory and on the
disk, was synced before it had its name and has the bytes of its name unless the
disk was damaged (`EntriesStand`); that is why a power failure between link and
directory sync can lose an entry but not tear one. What is promised follows the
calls that returned: one that linked or found the entry sees it in the directory,
and a directory sync makes durable whatever was reported before it. For the two output files,
`BottleHeld` and `EvidenceHeld` follow who made what from the link to the
withdrawal, so evidence never stands beside another call's bottle. In the
snapshot, the writer's files are whole and in order and a digest file exists only
over a whole bundle (`DirStands`); a reader has only documents that were released
together or fetched within the allowed age and skew (`ReaderStands`).
`ArgumentsTyped` and `MakersDiffer` only tell values apart; `ClockSound` says that
ages, skews and floors are natural numbers.

`ClientProofs`, for any keys, taps, policies, times and number of rotations and of
wrong answers:

| theorem | statement |
|---|---|
| `ResolvesBound` | `Spec => []ResolvedIsBound` of `CatalogClient` |
| `ServesRotation` | `Spec => []RotationServed`: `OverlapIsServed` and `PollsPaced` |

`ClientBound` says what has been verified in each phase of `Resolve`, whatever the
service answers, and gives the first theorem. The second is a bound on time. A
round is the longest generation and the longest pause together. `Generating`,
`Waiting` and `Given` say that the operation is ready within one round for each
rotation so far, that a client wakes up before what it waits for can have
expired, and that it has its result within `rotations + 1` rounds; `InTime`
concludes that `Resolve` fails only if so many rounds reach the deadline. TLC
checks this for one rotation and a few durations; the theorem is for all.
`ConfigurationSound` is what the code enforces: a policy has every key it accepts
and distinct identifiers (`catalogkeys/policy.go:93-146`), and pauses, the refresh
interval and the lifetime are positive (`client.go:287-290`). No code compares the
refresh interval, the lifetime and the pause with one another: that the first two
are longer than a pause is a hypothesis of `OverlapIsServed` itself, without which
a client may find each result expired when it wakes.

`InstallProofs`, for any resolutions, bottles, edits and faults:

| theorem | statement |
|---|---|
| `ReceiptReplacedSafely` | `Spec => []ReceiptSafe /\ EditsNotOverwritten` of `ReceiptNormalize` |
| `BuildsTheResolution` | `Spec => []BuildDelivers /\ PouredFromItsBottle` of `MaterializeV2` |

For the receipt, `ReceiptInv` says which temporary file exists at every phase
and that the rename comes right after the comparison. For the V2 build,
`PreparedStands` keeps what `prepare-v2` checked true of the bottles until the
last step, which mounts them read-only, and `Progress` says that the Cellar has
the first racks of the install order, each from its own bottle; both across
failures and restarts at any step. That an honest build is refused only at its
end needs the converse for every check on the way (`HonestRun`): the sizes `fetch`
sums up, the digests, the evidence and the racks are those of the resolution; and
`RefusedLast` says that what `finalize-v2` refuses then is the sum of the evidence
or the verdict of the runtime assembly, over a Cellar that is complete.
`RecordsValid` is what `ValidateV2` accepts (`resolution/v2.go:756-795`):
identifiers are unique and the install order has each node once, after its
dependencies.

`IngestProofs`, for any servers, answers, indexes, scopes and repositories and any
number of changes, pushes and revocations:

| theorem | statement |
|---|---|
| `TokensStayShared` | `Spec => []TokensShared` of `RegistryAuth` |
| `IngestsHonestly` | `Spec => []IngestedIsHonest` of `DescriptorChain` |
| `FetchesDeclared` | `Spec => []FetchedIsDeclared` of `BottleFetch` |

The registry client gives up with a 401 only after three attempts. `Excused`
counts: a GET that was refused n times had at least n - 1 scopes or tokens changed
under it, and one that was disturbed less often than refused carries a token the
registry would accept now; hence a GET that is finally refused was disturbed
twice. `RegistrySound` asks for `Attempts >= 3`, and the code has 3
(`oci/client.go:366`). The chain: what was checked at each stage stays true of what
is held (`ChainInv`), since everything below the index is read by digest, whatever
is pushed meanwhile. The fetch: hosts met by the redirect loop are counted and
begin with the declared one (`LoopStands`), and the hosts a probe met are the only
ones a later download may meet (`HostsSigned`), however the servers change in
between. `WebSound` says that every place a redirect names has a server and a host,
`TargetSound` that no platform is called "all".

### Only model-checked

- All liveness (`CallsReturn` but for `NoLateWrite`, `PendingServed`,
  `EveryRoundIngests`): liveness under fairness is outside the prover.
- What recursive definitions compute, which would need an induction over data:
  `DocumentsKeepMeaning`, `ClosureSound` and `SidesAgree` (`FormulaCatalogs`,
  `ClosureResolver`), `RecordSound` (`FrontendBuild`), `PrefixSound`,
  `GeneratedSound`, `LookupSound`, `LoaderCacheRead`, `NamesKeepMeaning` and
  `LookupShrinks` (`PrefixInstall` and the modules below it), and `ShipsWhole`,
  `VerifierAgrees`, `PublishedSound`, `GivesTheRest`, `RulesAgree` (`RuntimeScan`,
  `RuntimeAssemble`, `DescendantIndex`, `RuleNormalize`).
- `HonestAccepted`, whose conjunct `HonestBuilds` is about `FrontendBuild`, and
  `PruneAccounts`: no proof has been written.

The five violated properties are refuted.

## Plan

What can be proved next without recursion: `ProbedIsFetched`, `HonestIngested` and
`HonestCaptured`, the conjuncts of `HonestAccepted` in the components of
`IngestProofs` and `StoreProofs`; and `PartitionsSource` of `PruneEvidence`.

What can be modelled next: the operation store of the service under power
failure, beneath `CatalogService`; `cachedTapExtractor`; the V1 materialization
chain; the Windows variants of the supervisors.

## Not modelled

Byte-level decoding without concurrency (archives, ELF, JSON, JWS), version and
identifier syntax, configuration decoding and release manifests. Power failure
is modelled for the artifact store only; elsewhere a crash loses the process,
not the page cache. Corrupted or foreign files in the service's state directory.
Signatures and digests are taken as injective names. HTTP parsing, response
formatting and logging. Modification times of operation files are a strict
order, although equal ones are possible on a coarse file system. A request file
without an operation, which a failed save leaves behind, stays until the same
request comes again; the model has it and no property forbids it. The test
runner's checks of an image, `runtimecheck` and the snapshot proxy read and
compare and keep no state.
