----------------------------- MODULE MCProcesses -----------------------------
(***************************************************************************)
(* What waits for something else, on small instances: the installer        *)
(* supervisor with its pour (T), a captured command (C), the pinned        *)
(* generator (G), the catalog service's workers (S), its client (P), the   *)
(* staging of Formula files (F) and the ingestion cache (extended).  They  *)
(* share no state, so each behaviour moves one of them while the others    *)
(* are at rest in a state from which they owe nothing.                     *)
(***************************************************************************)
EXTENDS ArtifactCache, ProcessProofs, ClientProofs

CONSTANTS a, b, w1, w2, NoJob    \* operations and workers of the service

VARIABLES part,
          disk, older, requests, life, active, job, phase, slots, queue, queued,
          terminal, faults, stops

S == INSTANCE CatalogService
       WITH Ids <- {a, b}, Goroutines <- {w1, w2}, MaxConcurrent <- 1, MaxPending <- 2,
            MaxStored <- 2, MaxFaults <- 1, MaxStops <- 1

\* Releases before, during and after a rotation of the signing key.
Release(required, overlap, unknown, floor) ==
    [required |-> required, overlap |-> overlap, keys |-> {required} \cup overlap,
     unknown |-> unknown, floor |-> floor]

MCSigningKeys == <<"k1", "k2">>
MCTaps == <<"t", "u">>
MCPolicies == {Release("k1", {}, FALSE, 1), Release("k1", {"k2"}, FALSE, 1),
               Release("k2", {}, TRUE, 2), Release("k2", {"k1"}, TRUE, 1)}
MCShard == [libpng |-> "lib", libtiff |-> "lib", zlib |-> "z"]

\* What the theorems about the components assume of these constants.
ASSUME InstancesSound == T!ProcsAssumption /\ G!GoroutinesDiffer /\ P!ConfigurationSound

tree == <<st, parent, inGroup, exit, pour, cancelled, pids, code, run, writes>>
command == <<kind, alive, unborn, group, holders, emitted, pipe, kept, exceeded, copyErr,
             cmdExit, ctx, wait, waitErr, killed, outcome>>
generator == <<pinned, at, calls, readers, writer, closed, once>>
service == <<disk, older, requests, life, active, job, phase, slots, queue, queued,
             terminal, faults, stops>>
protocol == <<now, server, client, misses>>
formulae == <<source, private, verified, tapParent, tap, staging, rollback>>
cache == vars

\* A pour that was never started, a command that has returned, a generator
\* that was closed, a service without work, a Resolve and a staging that failed,
\* a cache nobody uses.
TreeRests ==
    /\ st = [p \in Procs |-> "gone"] /\ parent = [p \in Procs |-> "init"]
    /\ inGroup = [p \in Procs |-> FALSE]
    /\ exit = "zero" /\ pour = "returned" /\ cancelled = FALSE /\ pids = {} /\ code = 0
    /\ run = "ok" /\ writes = 1

CommandRests ==
    /\ kind = "step" /\ alive = {} /\ unborn = {} /\ group = {} /\ holders = {}
    /\ emitted = 0 /\ pipe = 0 /\ kept = 0 /\ exceeded = FALSE /\ copyErr = FALSE
    /\ cmdExit = "zero" /\ ctx = "done" /\ wait = "collected" /\ waitErr = "none"
    /\ killed = TRUE /\ outcome = "output"

GeneratorRests ==
    /\ pinned = FALSE /\ calls = [t \in Callers |-> 2]
    /\ at = [t \in Callers \cup Closers |-> IF t \in Closers THEN "returned" ELSE "idle"]
    /\ readers = {} /\ writer = FALSE /\ closed = TRUE /\ once = "done"

ProtocolRests ==
    /\ now = Started /\ misses = 1
    /\ server = [signer |-> 1, op |-> "none", ready |-> 0, longest |-> 0,
                 result |-> NoValue, sequence |-> 1, rotations |-> 0]
    /\ client = [pc |-> "failed", policy |-> Release("k1", {}, FALSE, 1), wake |-> 0,
                 result |-> NoValue, got |-> <<>>, polls |-> 0, verified |-> 0]

FormulaeRest ==
    /\ source = [f \in Formulae |-> "bad"] /\ private = [f \in Formulae |-> "none"]
    /\ verified = {} /\ tapParent = F!Original
    /\ tap = [n \in {"staging", "Formula"} |-> F!NoTree]
    /\ staging = "failed" /\ rollback = "none"

ProcessesInit ==
    /\ part \in {"pour", "command", "generator", "service", "protocol", "staging", "cache"}
    /\ Init /\ S!Init
    /\ IF part = "pour" THEN T!Init ELSE TreeRests
    /\ IF part = "command" THEN C!Init ELSE CommandRests
    /\ IF part = "generator" THEN G!Init ELSE GeneratorRests
    /\ IF part = "protocol" THEN P!Init ELSE ProtocolRests
    /\ IF part = "staging" THEN F!Init ELSE FormulaeRest

ProcessesNext ==
    /\ UNCHANGED part
    /\ \/ /\ part = "pour" /\ T!Next
          /\ UNCHANGED <<command, generator, service, protocol, formulae, cache>>
       \/ /\ part = "command" /\ C!Next
          /\ UNCHANGED <<tree, generator, service, protocol, formulae, cache>>
       \/ /\ part = "generator" /\ G!Next
          /\ UNCHANGED <<tree, command, service, protocol, formulae, cache>>
       \/ /\ part = "service" /\ S!Next
          /\ UNCHANGED <<tree, command, generator, protocol, formulae, cache>>
       \/ /\ part = "protocol" /\ P!Next
          /\ UNCHANGED <<tree, command, generator, service, formulae, cache>>
       \/ /\ part = "staging" /\ F!Next
          /\ UNCHANGED <<tree, command, generator, service, protocol, cache>>
       \/ /\ part = "cache" /\ Next
          /\ UNCHANGED <<tree, command, generator, service, protocol, formulae>>

ProcessesSpec ==
    /\ ProcessesInit
    /\ [][ProcessesNext]_<<part, tree, command, generator, service, protocol, formulae, cache>>
    /\ T!Fairness /\ C!Fairness /\ G!Fairness /\ S!Fairness /\ P!Fairness /\ F!Fairness
    /\ Fairness

(* A pending operation that clients poll is decided in the end, also when   *)
(* it was refreshed between finishOperation and generationDone.             *)
PendingServed == S!PendingServed

(* Everything that waits for something else returns: a cancelled pour and   *)
(* every other one, the captured command although its output pipe stays     *)
(* open, Close and Generate, the staging with its rollback, a build behind  *)
(* a key lock and Resolve; and when a pour's run returned without error     *)
(* nothing of it writes any more.                                           *)
CallsReturn ==
    /\ T!CancelledPourEnds /\ T!RunTerminates /\ T!NoLateWrite
    /\ C!CallReturns
    /\ G!CloseReturns /\ G!GenerateReturns
    /\ F!StagingEnds
    /\ BuildReturns
    /\ P!ResolveReturns
==============================================================================
