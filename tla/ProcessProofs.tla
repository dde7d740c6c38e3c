--------------------------- MODULE ProcessProofs ----------------------------
(***************************************************************************)
(* The processes and transactions the materializer and the catalog         *)
(* service start, for every value of their constants: the installer's      *)
(* process tree (ProcessTree), a captured command (CommandGroup), the      *)
(* pinned generator executable (CommandGenerator) and the staged Formula   *)
(* tree (FormulaStaging). Each part has its instance, its inductive        *)
(* invariant, the lemmas on single steps, the property and the theorem.    *)
(* MCProcesses model-checks the same instances.                            *)
(***************************************************************************)
EXTENDS Integers, FiniteSets, TLAPS

CONSTANTS Procs, Child, MaxWrites, Leader, Limit, MaxEmit, Callers, Closers, MaxCalls,
  Formulae, Shard

VARIABLES
  st, parent, inGroup, exit, pour, cancelled, pids, code, run, writes,
  kind, alive, unborn, group, holders, emitted, pipe, kept, exceeded, copyErr,
  cmdExit, ctx, wait, waitErr, killed, outcome,
  pinned, at, calls, readers, writer, closed, once,
  source, private, verified, tapParent, tap, staging, rollback

(* The installer supervisor. *)
T == INSTANCE ProcessTree WITH pc <- pour

(* A process that was started and has not been reaped.                       *)
Alive == {p \in Procs : st[p] \in {"live", "zombie"}}

TreeType ==
  /\ st \in [Procs -> {"unborn", "live", "zombie", "gone"}]
  /\ parent \in [Procs -> Procs \cup {T!Supervisor, T!InitProc}]

(* While the supervisor is up, every such process hangs below it: its parent *)
(* is live or the supervisor, and a chain of parents ends (no set of them is *)
(* closed under parent).                                                     *)
Rooted ==
  /\ \A p \in Alive : parent[p] = T!Supervisor \/ parent[p] \in T!Live
  /\ \A A \in SUBSET Alive : A # {} => \E p \in A : parent[p] \notin A

(* The inductive invariant behind ReturnsQuiet.                              *)
TreeInv ==
  /\ TreeType
  /\ T!SupervisorUp => Rooted
  /\ T!ReturnsQuiet
  /\ run = "ok" => pour = "returned" /\ code = 0

(* The installer alone, a child of the supervisor, is rooted.                *)
LEMMA TreeInit == T!ProcsAssumption /\ T!Init => TreeInv
  <1> SUFFICES ASSUME T!ProcsAssumption, T!Init PROVE TreeInv
    OBVIOUS
  <1> USE DEF T!ProcsAssumption, T!Init, T!Supervisor, T!InitProc
  <1>1. TreeType
    BY DEF TreeType
  <1>2. Rooted
    BY DEF Rooted, Alive
  <1> QED
    BY <1>1, <1>2 DEF TreeInv, T!ReturnsQuiet

(* A kill turns processes into zombies; their children go to the subreaper.  *)
LEMMA EndKeepsRooted ==
  ASSUME T!ProcsAssumption, TreeType, Rooted, NEW S, T!End(S, T!Supervisor)
  PROVE  TreeType' /\ Rooted'
  <1> USE DEF T!ProcsAssumption, T!Supervisor, T!InitProc
  <1>1. TreeType'
    BY DEF T!End, TreeType
  <1>2. Alive' = Alive
    BY DEF T!End, Alive, T!Live, TreeType
  <1>3. ASSUME NEW p \in Alive' PROVE parent'[p] = T!Supervisor \/ parent'[p] \in T!Live'
    BY <1>2, <1>3 DEF T!End, Alive, T!Live, TreeType, Rooted
  <1>4. ASSUME NEW A \in SUBSET Alive', A # {} PROVE \E p \in A : parent'[p] \notin A
    <2>1. PICK p \in A : parent[p] \notin A
      BY <1>2, <1>4 DEF Rooted
    <2>2. p \in Procs /\ T!Supervisor \notin A
      BY DEF Alive
    <2> QED
      BY <2>1, <2>2 DEF T!End
  <1> QED
    BY <1>1, <1>3, <1>4 DEF Rooted

(* Reaping takes a zombie, which has no children, out of the tree.           *)
LEMMA ReapKeepsRooted ==
  ASSUME T!ProcsAssumption, TreeType, Rooted, NEW z \in Procs, st[z] = "zombie",
         st' = [st EXCEPT ![z] = "gone"], parent' = parent
  PROVE  TreeType' /\ Rooted'
  <1> USE DEF T!ProcsAssumption, T!Supervisor, T!InitProc
  <1>1. TreeType'
    BY DEF TreeType
  <1>2. Alive' \subseteq Alive
    BY DEF Alive, TreeType
  <1>3. ASSUME NEW p \in Alive' PROVE parent'[p] = T!Supervisor \/ parent'[p] \in T!Live'
    BY <1>2, <1>3 DEF Alive, T!Live, TreeType, Rooted
  <1>4. ASSUME NEW A \in SUBSET Alive', A # {} PROVE \E p \in A : parent'[p] \notin A
    BY <1>2, <1>4 DEF Rooted
  <1> QED
    BY <1>1, <1>3, <1>4 DEF Rooted

(* A new process hangs below the live one that forked it.                    *)
LEMMA ForkKeepsRooted ==
  ASSUME T!ProcsAssumption, TreeType, Rooted, NEW p \in Procs, NEW c \in Procs, T!Fork(p, c)
  PROVE  TreeType' /\ Rooted'
  <1> USE DEF T!ProcsAssumption, T!Supervisor, T!InitProc
  <1>1. TreeType'
    BY DEF TreeType, T!Fork
  <1>2. Alive' = Alive \cup {c} /\ p \in Alive /\ c \notin Alive /\ p # c
    BY DEF Alive, TreeType, T!Fork
  <1>3. ASSUME NEW q \in Alive' PROVE parent'[q] = T!Supervisor \/ parent'[q] \in T!Live'
    BY <1>2, <1>3 DEF Alive, T!Live, TreeType, Rooted, T!Fork
  <1>4. ASSUME NEW A \in SUBSET Alive', A # {} PROVE \E q \in A : parent'[q] \notin A
    <2>1. CASE c \notin A
      BY <1>2, <1>4, <2>1 DEF Rooted, T!Fork
    <2>2. CASE c \in A /\ p \notin A
      BY <2>2 DEF T!Fork, TreeType
    <2>3. CASE c \in A /\ p \in A
      <3>1. A \ {c} \in SUBSET Alive /\ A \ {c} # {}
        BY <1>2, <2>3
      <3>2. PICK q \in A \ {c} : parent[q] \notin A \ {c}
        BY <3>1 DEF Rooted
      <3>3. parent[q] # c
        BY <1>2, <3>1 DEF Rooted, Alive, T!Live
      <3> QED
        BY <3>2, <3>3 DEF T!Fork
    <2> QED
      BY <2>1, <2>2, <2>3
  <1> QED
    BY <1>1, <1>3, <1>4 DEF Rooted

(* The children of a process that exits go to the subreaper.                 *)
LEMMA ExitKeepsRooted ==
  ASSUME T!ProcsAssumption, TreeType, Rooted, T!SupervisorUp, NEW p \in Procs, T!Exit(p)
  PROVE  TreeType' /\ Rooted'
  <1> USE DEF T!ProcsAssumption, T!Supervisor, T!InitProc
  <1>1. TreeType'
    BY DEF TreeType, T!Exit, T!Reaper
  <1>2. Alive' = Alive
    BY DEF Alive, TreeType, T!Exit
  <1>3. ASSUME NEW q \in Alive' PROVE parent'[q] = T!Supervisor \/ parent'[q] \in T!Live'
    BY <1>2, <1>3 DEF Alive, T!Live, TreeType, Rooted, T!Exit, T!Reaper
  <1>4. ASSUME NEW A \in SUBSET Alive', A # {} PROVE \E q \in A : parent'[q] \notin A
    <2>1. PICK q \in A : parent[q] \notin A
      BY <1>2, <1>4 DEF Rooted
    <2>2. q \in Procs /\ T!Supervisor \notin A
      BY DEF Alive
    <2> QED
      BY <2>1, <2>2 DEF T!Exit, T!Reaper
  <1> QED
    BY <1>1, <1>3, <1>4 DEF Rooted

(* What NoChildLeft relies on: a rooted tree whose root has no child is      *)
(* empty, so ECHILD from wait4 means that nothing of the pour is left.       *)
LEMMA NoChildMeansQuiet ==
  ASSUME T!ProcsAssumption, TreeType, Rooted, T!Children = {}
  PROVE  \A p \in Procs : st[p] \in {"unborn", "gone"}
  <1>1. Alive = {}
    <2> SUFFICES ASSUME Alive # {} PROVE FALSE
      OBVIOUS
    <2>1. PICK p \in Alive : parent[p] \notin Alive
      BY DEF Rooted
    <2>2. parent[p] = T!Supervisor
      BY <2>1 DEF Rooted, Alive, T!Live
    <2> QED
      BY <2>2 DEF T!Children, Alive
  <1> QED
    BY <1>1 DEF Alive, TreeType

(* From then on nothing can be started or written.                           *)
LEMMA QuietStays ==
  ASSUME T!ProcsAssumption, TreeType, \A p \in Procs : st[p] \in {"unborn", "gone"},
         [T!Next]_T!vars
  PROVE  st' = st /\ writes' = writes
  <1> USE DEF T!ProcsAssumption
  <1>1. \A p \in Procs : ~T!Exit(p) /\ ~T!ReapOwn(p) /\ ~T!Write(p) /\ ~T!Reap(p)
    BY DEF T!Exit, T!ReapOwn, T!Write, T!Reap
  <1>2. \A p, c \in Procs : ~T!Fork(p, c)
    BY DEF T!Fork
  <1>3. ~T!ChildDone /\ ~T!AwaitChild
    BY DEF T!ChildDone, T!AwaitChild
  <1>4. ASSUME NEW S, NEW r, T!End(S, r) PROVE st' = st
    BY <1>4 DEF T!End, T!Live, TreeType
  <1>5. ASSUME NEW c, T!Return(c) PROVE st' = st
    BY <1>4, <1>5 DEF T!Return
  <1>6. CASE T!Supervise
    <2>1. T!Supervise => writes' = writes
      BY DEF T!Supervise, T!ChildDone, T!Cancelled, T!AwaitChild, T!QuiesceKillGroup, T!Reap,
         T!NoChildLeft, T!Scan, T!ScanFails, T!KillScanned, T!BeforeDeadline, T!AfterDeadline,
         T!Return
    <2>2. T!Supervise => st' = st
      BY <1>1, <1>3, <1>4, <1>5 DEF T!Supervise, T!Cancelled, T!QuiesceKillGroup,
         T!NoChildLeft, T!Scan, T!ScanFails, T!KillScanned, T!BeforeDeadline, T!AfterDeadline,
         T!treeVars
    <2> QED
      BY <1>6, <2>1, <2>2
  <1>7. CASE \E p \in Procs : T!LeaveGroup(p)
    BY <1>7 DEF T!LeaveGroup
  <1>8. CASE T!StepTimeout \/ T!RunReturns \/ T!MaterializerDies
    BY <1>8 DEF T!StepTimeout, T!RunReturns, T!MaterializerDies, T!treeVars
  <1>9. CASE T!WaitDelayExpired
    BY <1>4, <1>9 DEF T!WaitDelayExpired
  <1> QED
    BY <1>1, <1>2, <1>6, <1>7, <1>8, <1>9 DEF T!Next, T!vars

(* Every step of the pour, of the supervisor and of the materializer keeps   *)
(* the invariant.                                                            *)
LEMMA TreeStep ==
  ASSUME T!ProcsAssumption, TreeInv, [T!Next]_T!vars
  PROVE  TreeInv'
  <1> USE DEF T!ProcsAssumption
  <1>1. TreeType'
    <2>1. ASSUME NEW S, NEW r \in {T!Supervisor, T!InitProc}, T!End(S, r) PROVE TreeType'
      BY <2>1 DEF T!End, TreeInv, TreeType
    <2>2. ASSUME NEW c, T!Return(c) PROVE TreeType'
      BY <2>1, <2>2 DEF T!Return
    <2>3. CASE T!Supervise
      BY <2>1, <2>2, <2>3
      DEF T!Supervise, T!ChildDone, T!Cancelled, T!AwaitChild, T!QuiesceKillGroup, T!Reap,
         T!NoChildLeft, T!Scan, T!ScanFails, T!KillScanned, T!BeforeDeadline, T!AfterDeadline,
         T!treeVars, TreeInv, TreeType
    <2>4. CASE T!WaitDelayExpired
      BY <2>1, <2>4 DEF T!WaitDelayExpired
    <2> QED
      BY <2>3, <2>4
      DEF T!Next, T!vars, T!Fork, T!LeaveGroup, T!Exit, T!ReapOwn, T!Write, T!Reaper,
         T!StepTimeout, T!RunReturns, T!MaterializerDies, T!treeVars, TreeInv, TreeType
  <1>2. ASSUME T!SupervisorUp' PROVE Rooted'
    <2>1. T!SupervisorUp
      BY <1>2
      DEF T!SupervisorUp, T!Next, T!vars, T!supVars, T!Fork, T!LeaveGroup, T!Exit, T!ReapOwn,
          T!Write,
         T!Supervise, T!ChildDone, T!Cancelled, T!AwaitChild, T!QuiesceKillGroup, T!Reap,
         T!NoChildLeft, T!Scan, T!ScanFails, T!KillScanned, T!BeforeDeadline, T!AfterDeadline,
         T!Return,
         T!StepTimeout, T!WaitDelayExpired, T!RunReturns, T!MaterializerDies
    <2>2. TreeType /\ Rooted
      BY <2>1 DEF TreeInv
    <2>3. ASSUME st' = st, parent' = parent PROVE Rooted'
      BY <2>2, <2>3 DEF Rooted, Alive, T!Live
    <2>4. ASSUME NEW z \in Procs, st[z] = "zombie", st' = [st EXCEPT ![z] = "gone"],
                 parent' = parent
          PROVE  Rooted'
      BY <2>2, <2>4, ReapKeepsRooted
    <2>5. ASSUME NEW S, T!End(S, T!Supervisor) PROVE Rooted'
      BY <2>2, <2>5, EndKeepsRooted
    <2>6. ASSUME NEW c, T!Return(c) PROVE FALSE
      BY <1>2, <2>6 DEF T!Return, T!SupervisorUp
    <2>7. CASE T!Supervise
      <3>1. CASE T!ChildDone \/ T!AwaitChild \/ \E p \in Procs : T!Reap(p)
        BY <2>4, <3>1 DEF T!ChildDone, T!AwaitChild, T!Reap
      <3>2. CASE T!Cancelled \/ T!QuiesceKillGroup \/ T!KillScanned
        BY <2>5, <3>2 DEF T!Cancelled, T!QuiesceKillGroup, T!KillScanned
      <3>3. CASE T!Scan \/ T!BeforeDeadline
        BY <2>3, <3>3 DEF T!Scan, T!BeforeDeadline, T!treeVars
      <3>4. CASE T!NoChildLeft \/ T!ScanFails \/ T!AfterDeadline
        BY <2>6, <3>4 DEF T!NoChildLeft, T!ScanFails, T!AfterDeadline
      <3> QED
        BY <2>7, <3>1, <3>2, <3>3, <3>4 DEF T!Supervise
    <2>8. CASE \E p, c \in Procs : T!Fork(p, c)
      BY <2>2, <2>8, ForkKeepsRooted
    <2>9. CASE \E p \in Procs : T!Exit(p)
      BY <2>1, <2>2, <2>9, ExitKeepsRooted
    <2>10. CASE \E p \in Procs : T!ReapOwn(p)
      BY <2>4, <2>10 DEF T!ReapOwn
    <2>11. CASE \/ \E p \in Procs : T!LeaveGroup(p) \/ T!Write(p)
                \/ T!StepTimeout \/ T!RunReturns \/ T!MaterializerDies \/ UNCHANGED T!vars
      BY <2>3, <2>11
      DEF T!LeaveGroup, T!Write, T!StepTimeout, T!RunReturns, T!MaterializerDies, T!treeVars,
          T!vars
    <2>12. CASE T!WaitDelayExpired
      BY <1>2, <2>12 DEF T!WaitDelayExpired, T!SupervisorUp
    <2> QED
      BY <2>7, <2>8, <2>9, <2>10, <2>11, <2>12 DEF T!Next
  <1>3. T!ReturnsQuiet'
    <2> SUFFICES ASSUME pour' = "returned", code' # 125
                 PROVE  \A p \in Procs : st'[p] \in {"unborn", "gone"}
      BY DEF T!ReturnsQuiet
    <2>1. CASE pour = "returned" /\ code = code'
      BY <2>1, QuietStays DEF TreeInv, T!ReturnsQuiet
    <2>2. CASE T!NoChildLeft
      <3>1. \A p \in Procs : st[p] \in {"unborn", "gone"}
        BY <2>2, NoChildMeansQuiet DEF T!NoChildLeft, TreeInv, T!SupervisorUp
      <3> QED
        BY <3>1, QuietStays DEF TreeInv
    <2> QED
      BY <2>1, <2>2
      DEF T!Next, T!vars, T!supVars, T!Fork, T!LeaveGroup, T!Exit, T!ReapOwn, T!Write,
         T!Supervise, T!ChildDone, T!Cancelled, T!AwaitChild, T!QuiesceKillGroup, T!Reap,
         T!Scan, T!ScanFails, T!KillScanned, T!BeforeDeadline, T!AfterDeadline, T!Return,
         T!StepTimeout, T!WaitDelayExpired, T!RunReturns, T!MaterializerDies
  <1>4. run' = "ok" => pour' = "returned" /\ code' = 0
    BY DEF TreeInv, T!SupervisorUp, T!Next, T!vars, T!supVars, T!Fork, T!LeaveGroup, T!Exit,
       T!ReapOwn, T!Write,
         T!Supervise, T!ChildDone, T!Cancelled, T!AwaitChild, T!QuiesceKillGroup, T!Reap,
         T!NoChildLeft,
         T!Scan, T!ScanFails, T!KillScanned, T!BeforeDeadline, T!AfterDeadline, T!Return,
         T!StepTimeout, T!WaitDelayExpired, T!RunReturns, T!MaterializerDies
  <1> QED
    BY <1>1, <1>2, <1>3, <1>4 DEF TreeInv

(* A pour that has returned with any code but 125 left no process behind    *)
(* (SuperviseMaterializerProcess).                                          *)
ReturnsQuiet == T!ReturnsQuiet

(* runInstallerSupervisor returns with a code other than 125 only when no    *)
(* process of the pour is left, whatever forks, leaves the group, exits or   *)
(* is killed meanwhile, for any number of processes; and once the run        *)
(* returned without error nothing of it writes to the prefix.                *)
THEOREM SupervisorQuiet ==
  ASSUME T!ProcsAssumption
  PROVE  T!Spec => []ReturnsQuiet /\ T!NoLateWrite
  <1>1. T!Init => TreeInv
    BY TreeInit
  <1>2. TreeInv /\ [T!Next]_T!vars => TreeInv'
    BY TreeStep
  <1>3. TreeInv => ReturnsQuiet
    BY DEF TreeInv, ReturnsQuiet
  <1>4. TreeInv /\ [T!Next]_T!vars => [run = "ok" => writes' = writes]_T!vars
    BY QuietStays DEF TreeInv, T!ReturnsQuiet
  <1> QED
    BY <1>1, <1>2, <1>3, <1>4, PTL DEF T!Spec, T!NoLateWrite

-----------------------------------------------------------------------------
(* A captured command. *)
C == INSTANCE CommandGroup WITH exit <- cmdExit

CommandType ==
  /\ kind \in {"step", "generator"}
  /\ emitted \in Nat /\ pipe \in Nat /\ kept \in Nat
  /\ exceeded \in BOOLEAN /\ killed \in BOOLEAN /\ copyErr \in BOOLEAN
  /\ ctx \in {"live", "done"}
  /\ wait \in {"child", "output", "returned", "collected"}
  /\ cmdExit \in {"none", "zero", "nonzero"}
  /\ holders \subseteq alive /\ unborn \cap (alive \cup group) = {} /\ Leader \notin unborn

(* Whoever killed the group found it complete: nothing joins it afterwards.  *)
Collected == wait = "collected" \/ killed => alive \cap group = {}

(* Until the limit is hit, what was emitted is kept or still in the pipe.    *)
Accounted == ~exceeded => emitted = kept + pipe

(* What Wait knows of the leader and of the pipe when it returns no error.   *)
Reaped ==
  /\ cmdExit = "none" <=> Leader \in alive
  /\ wait # "child" => Leader \notin alive
  /\ wait # "child" /\ waitErr = "none" => cmdExit = "zero"
  /\ wait \in {"returned", "collected"} /\ waitErr = "none" => pipe = 0 /\ holders = {}

(* An outcome exists only after the group was collected.                     *)
Judged ==
  /\ outcome # "none" => wait = "collected"
  /\ outcome = "output" => waitErr = "none" /\ ~exceeded

(* The inductive invariant behind OutputJudged.                              *)
CommandInv == CommandType /\ Collected /\ Accounted /\ Reaped /\ Judged

(* A command that was just started.                                          *)
LEMMA CommandInit == C!Init => CommandInv
  <1> SUFFICES ASSUME C!Init PROVE CommandInv
    OBVIOUS
  <1>1. CommandType
    BY DEF C!Init, CommandType
  <1>2. exceeded = FALSE /\ killed = FALSE /\ wait = "child" /\ outcome = "none"
    BY DEF C!Init
  <1>3. Collected /\ Judged
    BY <1>2 DEF Collected, Judged
  <1>4. Accounted
    BY DEF C!Init, Accounted
  <1>5. Reaped
    BY DEF C!Init, Reaped
  <1> QED
    BY <1>1, <1>3, <1>4, <1>5 DEF CommandInv

(* A kill of the group ends its members and nobody else.                     *)
LEMMA KillEmptiesGroup ==
  ASSUME CommandInv, C!Kill(group)
  PROVE  /\ holders' \subseteq alive' /\ unborn' \cap (alive' \cup group') = {}
         /\ Leader \notin unborn'
         /\ alive' \cap group' = {}
         /\ cmdExit' \in {"none", "zero", "nonzero"}
         /\ cmdExit' = "none" <=> Leader \in alive'
         /\ Leader \notin alive => cmdExit' = cmdExit /\ Leader \notin alive'
         /\ holders = {} => holders' = {}
  BY DEF C!Kill, CommandInv, CommandType, Reaped

(* Every step of the processes, the copier, the context and the caller keeps *)
(* the invariant.                                                            *)
LEMMA CommandStep ==
  ASSUME CommandInv, [C!Next]_C!vars
  PROVE  CommandInv'
  <1> USE DEF CommandInv, CommandType, Collected, Accounted, Reaped, Judged
  <1>1. ASSUME NEW p \in Procs, NEW c \in Procs, C!Fork(p, c) PROVE CommandInv'
    BY <1>1 DEF C!Fork, C!outVars
  <1>2. ASSUME NEW p \in Procs, C!LeaveGroup(p) PROVE CommandInv'
    BY <1>2 DEF C!LeaveGroup, C!outVars
  <1>3. ASSUME NEW p \in Procs, C!CloseOutput(p) PROVE CommandInv'
    BY <1>3 DEF C!CloseOutput, C!outVars
  <1>4. ASSUME NEW p \in Procs, C!Emit(p) PROVE CommandInv'
    BY <1>4 DEF C!Emit, C!procVars
  <1>5. ASSUME NEW p \in Procs, C!Exit(p) PROVE CommandInv'
    BY <1>5 DEF C!Exit, C!outVars
  <1>6. CASE C!ContextEnds
    BY <1>6 DEF C!ContextEnds, C!outVars, C!procVars
  <1>7. CASE C!Copy
    <2>1. CASE /\ kept < Limit /\ kept' = kept + 1
               /\ UNCHANGED <<C!procVars, exceeded, copyErr, killed>>
      BY <1>7, <2>1 DEF C!Copy, C!procVars
    <2>2. CASE /\ kind = "step" /\ exceeded' = TRUE
               /\ UNCHANGED <<C!procVars, kept, copyErr, killed>>
      BY <1>7, <2>2 DEF C!Copy, C!procVars
    <2>3. CASE /\ kind = "generator" /\ exceeded' = TRUE /\ copyErr' = TRUE
               /\ killed' = TRUE /\ kept' = kept
               /\ IF killed THEN UNCHANGED C!procVars ELSE C!Kill(group)
      <3>1. CASE killed
        BY <1>7, <2>3, <3>1 DEF C!Copy, C!procVars
      <3>2. CASE ~killed
        BY <1>7, <2>3, <3>2, KillEmptiesGroup DEF C!Copy
      <3> QED
        BY <3>1, <3>2
    <2> QED
      BY <1>7, <2>1, <2>2, <2>3 DEF C!Copy
  <1>8. CASE C!CancelKill
    BY <1>8, KillEmptiesGroup DEF C!CancelKill, C!outVars
  <1>9. CASE C!ReapLeader
    BY <1>9 DEF C!ReapLeader, C!outVars, C!procVars
  <1>10. CASE C!WaitReturns
    BY <1>10 DEF C!WaitReturns, C!outVars, C!procVars
  <1>11. CASE C!WaitDelayExpires
    BY <1>11 DEF C!WaitDelayExpires, C!outVars, C!procVars
  <1>12. CASE C!CollectGroup
    BY <1>12, KillEmptiesGroup DEF C!CollectGroup, C!outVars, C!procVars
  <1>13. CASE C!Finish
    BY <1>13 DEF C!Finish, C!Verdict, C!outVars, C!procVars
  <1>14. CASE UNCHANGED C!vars
    BY <1>14 DEF C!vars, C!outVars, C!procVars
  <1> QED
    BY <1>1, <1>2, <1>3, <1>4, <1>5, <1>6, <1>7, <1>8, <1>9, <1>10, <1>11, <1>12, <1>13,
       <1>14 DEF C!Next

(* The output a test step or a generated document is judged by is all the   *)
(* command wrote, and its process group is gone by then (runCommand and     *)
(* captureCommand).                                                         *)
OutputJudged == C!OutputJudged

(* runCommand and captureCommand judge all the output of a command or none   *)
(* of it, after its process group is gone: for every output limit and any    *)
(* number of processes that inherit the pipe or leave the group.             *)
THEOREM JudgedOutput == C!Spec => []OutputJudged
  <1>1. C!Init => CommandInv
    BY CommandInit
  <1>2. CommandInv /\ [C!Next]_C!vars => CommandInv'
    BY CommandStep
  <1>3. CommandInv => OutputJudged
    BY DEF CommandInv, CommandType, Collected, Accounted, Reaped, Judged, OutputJudged,
       C!OutputJudged, C!JudgedOutputIsWhole, C!GroupEnded
  <1> QED
    BY <1>1, <1>2, <1>3, PTL DEF C!Spec

-----------------------------------------------------------------------------
(* The pinned generator. *)
G == INSTANCE CommandGenerator WITH pc <- at

(* The inductive invariant behind GeneratorExcludes: the readers are the     *)
(* goroutines between RLock and RUnlock, a closed generator has no user past *)
(* its check, and an open one still has its executable.                      *)
GeneratorInv ==
  /\ at \in [Callers \cup Closers -> {"idle", "rlock", "check", "start", "running", "missing",
                                      "lock", "remove", "unlock", "returned"}]
  /\ \A t \in Callers : at[t] \in {"idle", "rlock", "check", "start", "running", "missing"}
  /\ pinned \in BOOLEAN /\ closed \in BOOLEAN
  /\ readers = {t \in Callers : at[t] \in {"check", "start", "running", "missing"}}
  /\ \A t \in Closers : at[t] \in {"remove", "unlock", "returned"} => closed
  /\ closed => \A t \in Callers : at[t] \notin {"start", "running", "missing"}
  /\ pinned \/ closed
  /\ once = "done" => closed

(* NewCommandGenerator returned.                                             *)
LEMMA GeneratorInit == G!GoroutinesDiffer /\ G!Init => GeneratorInv
  BY DEF G!Init, GeneratorInv, G!GoroutinesDiffer

(* Every step of Generate and of Close keeps the invariant.                  *)
LEMMA GeneratorStep ==
  ASSUME G!GoroutinesDiffer, GeneratorInv, [G!Next]_G!vars
  PROVE  GeneratorInv'
  <1> USE DEF G!GoroutinesDiffer, GeneratorInv, G!Go
  <1>1. ASSUME NEW t \in Callers, G!Call(t) PROVE GeneratorInv'
    BY <1>1 DEF G!Call
  <1>2. ASSUME NEW t \in Callers, G!RLock(t) PROVE GeneratorInv'
    BY <1>2 DEF G!RLock
  <1>3. ASSUME NEW t \in Callers, G!Refuse(t) PROVE GeneratorInv'
    BY <1>3 DEF G!Refuse
  <1>4. ASSUME NEW t \in Callers, G!PassCheck(t) PROVE GeneratorInv'
    BY <1>4 DEF G!PassCheck
  <1>5. ASSUME NEW t \in Callers, G!Start(t) PROVE GeneratorInv'
    BY <1>5 DEF G!Start
  <1>6. ASSUME NEW t \in Callers, G!Return(t) PROVE GeneratorInv'
    BY <1>6 DEF G!Return
  <1>7. ASSUME NEW t \in Closers, G!EnterOnce(t) PROVE GeneratorInv'
    BY <1>7 DEF G!EnterOnce
  <1>8. ASSUME NEW t \in Closers, G!WaitOnce(t) PROVE GeneratorInv'
    BY <1>8 DEF G!WaitOnce
  <1>9. ASSUME NEW t \in Closers, G!Lock(t) PROVE GeneratorInv'
    BY <1>9 DEF G!Lock
  <1>10. ASSUME NEW t \in Closers, G!Remove(t) PROVE GeneratorInv'
    BY <1>10 DEF G!Remove
  <1>11. ASSUME NEW t \in Closers, G!Unlock(t) PROVE GeneratorInv'
    BY <1>11 DEF G!Unlock
  <1>12. CASE UNCHANGED G!vars
    BY <1>12 DEF G!vars
  <1> QED
    BY <1>1, <1>2, <1>3, <1>4, <1>5, <1>6, <1>7, <1>8, <1>9, <1>10, <1>11, <1>12
    DEF G!Next, G!GenerateStep, G!CloseStep

(* Close removes the pinned generator only when no Generate uses it, and    *)
(* once Close has returned none starts (CommandGenerator).                  *)
GeneratorExcludes == G!GeneratorExcludes

(* CommandGenerator.Close removes the pinned executable only when no         *)
(* Generate runs it, and after Close returned none starts: for any number of *)
(* goroutines.                                                               *)
THEOREM GeneratorExclusion ==
  ASSUME G!GoroutinesDiffer
  PROVE  G!Spec => []GeneratorExcludes
  <1>1. G!Init => GeneratorInv
    BY GeneratorInit
  <1>2. GeneratorInv /\ [G!Next]_G!vars => GeneratorInv'
    BY GeneratorStep
  <1>3. GeneratorInv => GeneratorExcludes
    BY DEF GeneratorInv, GeneratorExcludes, G!GeneratorExcludes, G!PinnedWhileInUse,
       G!NothingAfterClose
  <1> QED
    BY <1>1, <1>2, <1>3, PTL DEF G!Spec

-----------------------------------------------------------------------------
(* The staged Formula tree. *)
F == INSTANCE FormulaStaging WITH parent <- tapParent, phase <- staging

(* The two names the transaction uses below the tap directory.               *)
Names == {"staging", "Formula"}
Empty == tap["staging"] = F!NoTree /\ tap["Formula"] = F!NoTree

StagingType ==
  /\ private \in [Formulae -> {"none", "good", "bad"}]
  /\ source \in [Formulae -> {"good", "bad"}]
  /\ verified \subseteq Formulae
  /\ tap = [n \in Names |-> tap[n]]
  /\ staging \in F!TransactionPhases \cup
       {"bottles", "committed", "undo", "undo-unnamed", "undo-remove", "undo-sync",
        "undo-seal", "failed"}

(* What stands under them at every phase: the public name holds the whole    *)
(* tree or nothing until a rollback removes it.                              *)
Entries ==
  /\ staging \in {"bottles", "writable", "mkdir"} => Empty
  /\ staging \in {"files", "seal", "verify", "publish"} => tap["Formula"] = F!NoTree
  /\ staging = "publish" => tap["staging"] = F!WholeTree
  /\ tap["Formula"] # F!NoTree /\ staging \notin {"undo-sync", "undo-seal", "failed"} =>
       tap["Formula"] = F!WholeTree
  /\ staging \in {"sync", "recheck", "committed"} =>
       tap["staging"] = F!NoTree
  /\ staging = "committed" => tap["Formula"] = F!WholeTree /\ tapParent.mode = "sealed"
  /\ staging \in {"undo", "undo-remove"} => tap["staging"] = F!NoTree \/ tap["Formula"] = F!NoTree

(* A rollback none of whose calls failed has put everything back.            *)
Undone ==
  /\ staging = "bottles" => tapParent = F!Original
  /\ staging = "undo-unnamed" => rollback = "failed"
  /\ staging \in {"undo-sync", "undo-seal"} /\ rollback # "failed" => Empty
  /\ staging = "failed" /\ rollback # "failed" => Empty /\ tapParent = F!Original

(* The inductive invariant behind StagingAtomic.                             *)
StagingInv == StagingType /\ F!PouredIsVerified /\ Entries /\ Undone

(* Bottles in the source directory, nothing staged.                          *)
LEMMA StagingInit == F!Init => StagingInv
  <1> SUFFICES ASSUME F!Init PROVE StagingInv
    OBVIOUS
  <1> USE DEF F!Init
  <1>1. StagingType
    BY DEF StagingType, Names
  <1>2. Empty /\ staging = "bottles" /\ tapParent = F!Original /\ verified = {}
    BY DEF Empty
  <1> QED
    BY <1>1, <1>2 DEF StagingInv, Entries, Undone, Empty, F!PouredIsVerified

(* A bottle changes at its source, is copied or is verified: only the        *)
(* private copy that was verified counts.                                    *)
LEMMA BottlesStep ==
  ASSUME StagingInv, NEW f \in Formulae,
         (\E v \in {"good", "bad"} : F!SourceChanges(f, v)) \/ F!CopyBottle(f) \/ F!VerifyBottle(f)
  PROVE  StagingInv'
  <1> USE DEF StagingInv
  <1>1. StagingType'
    BY DEF StagingType, F!SourceChanges, F!CopyBottle, F!VerifyBottle
  <1>2. F!PouredIsVerified'
    BY DEF StagingType, F!SourceChanges, F!CopyBottle, F!VerifyBottle, F!PouredIsVerified
  <1>3. Entries' /\ Undone'
    BY DEF Entries, Undone, Empty, F!SourceChanges, F!CopyBottle, F!VerifyBottle
  <1> QED
    BY <1>1, <1>2, <1>3

(* What a change of the private name leaves alone.                           *)
LEMMA TreeChanges ==
  ASSUME StagingType, NEW t, tap' = [tap EXCEPT !["staging"] = t]
  PROVE  /\ tap'["staging"] = t /\ tap'["Formula"] = tap["Formula"]
         /\ tap' = [n \in Names |-> tap'[n]]
  BY DEF StagingType, Names

(* Checking the inputs, opening the tap directory for writing, creating the  *)
(* staging directory, and the failure of any of them.                        *)
LEMMA PrepareStep ==
  ASSUME StagingInv,
         F!CheckInputs \/ F!StepFails \/ F!MakeWritable \/ F!CreateStaging \/ F!CreateStagingLeft
  PROVE  StagingInv'
  <1> USE DEF StagingInv, F!Input
  <1>1. F!PouredIsVerified'
    BY DEF F!CheckInputs, F!StepFails, F!MakeWritable, F!CreateStaging, F!CreateStagingLeft,
       F!PouredIsVerified
  <1>2. CASE F!CheckInputs \/ F!StepFails \/ F!MakeWritable
    <2>1. StagingType'
      BY <1>2
      DEF StagingType, F!CheckInputs, F!StepFails, F!MakeWritable, F!TransactionPhases, F!Then
    <2>2. Entries' /\ Undone'
      BY <1>2
      DEF Entries, Undone, Empty, F!CheckInputs, F!StepFails, F!MakeWritable,
          F!TransactionPhases, F!Then
    <2> QED
      BY <1>1, <2>1, <2>2
  <1>3. CASE F!CreateStaging \/ F!CreateStagingLeft
    <2>1. tap'["Formula"] = F!NoTree
      BY <1>3, TreeChanges DEF F!CreateStaging, F!CreateStagingLeft, Entries, Empty
    <2>2. StagingType'
      BY <1>3, TreeChanges
      DEF StagingType, F!CreateStaging, F!CreateStagingLeft, F!TransactionPhases
    <2>3. Entries' /\ Undone'
      BY <1>3, <2>1 DEF Entries, Undone, Empty, F!CreateStaging, F!CreateStagingLeft
    <2> QED
      BY <1>1, <2>2, <2>3
  <1> QED
    BY <1>2, <1>3

(* Writing, sealing and verifying the staged tree.                           *)
LEMMA FillStep ==
  ASSUME StagingInv,
         \/ \E f \in Formulae : F!StageFile(f) \/ F!StageFilePartly(f)
         \/ F!AllStaged
         \/ \E s \in F!Shards : F!SealShard(s)
         \/ F!SealRoot
         \/ F!VerifyTree
  PROVE  StagingInv'
  <1> USE DEF StagingInv, F!Input
  <1>1. /\ UNCHANGED <<source, private, verified, tapParent, rollback>>
        /\ staging \in {"files", "seal", "verify"}
    BY DEF F!StageFile, F!StageFilePartly, F!AllStaged, F!SealShard, F!SealRoot, F!VerifyTree
  <1>2. tap' = [n \in Names |-> tap'[n]] /\ tap'["Formula"] = F!NoTree
    BY DEF F!StageFile, F!StageFilePartly, F!AllStaged, F!SealShard, F!SealRoot, F!VerifyTree,
       StagingType, Names, Entries
  <1>3. staging' \in {"files", "seal", "verify", "publish", "undo"}
        /\ (staging' = "publish" => tap'["staging"] = F!WholeTree)
    BY DEF F!StageFile, F!StageFilePartly, F!AllStaged, F!SealShard, F!SealRoot, F!VerifyTree,
       F!Then
  <1>4. StagingType'
    BY <1>1, <1>2, <1>3 DEF StagingType, F!TransactionPhases
  <1>5. F!PouredIsVerified' /\ Entries' /\ Undone'
    BY <1>1, <1>2, <1>3 DEF F!PouredIsVerified, Entries, Undone, Empty
  <1> QED
    BY <1>4, <1>5

(* The rename to the public name and what follows it.                        *)
LEMMA PublishStep ==
  ASSUME StagingInv, F!Publish \/ F!SyncAndSealParent \/ F!Recheck
  PROVE  StagingInv'
  <1> USE DEF StagingInv, F!Input
  <1>1. F!PouredIsVerified'
    BY DEF F!PouredIsVerified, F!Publish, F!SyncAndSealParent, F!Recheck
  <1>2. CASE F!Publish
    <2>1. /\ tap' = [n \in Names |-> tap'[n]] /\ tap'["staging"] = F!NoTree
          /\ tap'["Formula"] = F!WholeTree
      BY <1>2 DEF F!Publish, StagingType, Names, Entries
    <2>2. StagingType'
      BY <1>2, <2>1 DEF StagingType, F!Publish, F!Then, F!TransactionPhases
    <2>3. Entries' /\ Undone'
      BY <1>2, <2>1 DEF Entries, Undone, Empty, F!Publish, F!Then
    <2> QED
      BY <1>1, <2>2, <2>3
  <1>3. CASE F!SyncAndSealParent \/ F!Recheck
    <2>1. /\ staging \in {"sync", "recheck"} /\ staging' \in {"recheck", "committed", "undo"}
          /\ tap' = tap
          /\ staging' = "committed" => tap["Formula"] = F!WholeTree /\ tapParent'.mode = "sealed"
      BY <1>3 DEF F!SyncAndSealParent, F!Recheck, F!Then
    <2>2. StagingType'
      BY <1>3, <2>1 DEF StagingType, F!SyncAndSealParent, F!Recheck, F!TransactionPhases
    <2>3. Entries' /\ Undone'
      BY <2>1 DEF Entries, Undone, Empty
    <2> QED
      BY <1>1, <2>2, <2>3
  <1> QED
    BY <1>2, <1>3

(* The rollback, whichever of its calls fail.                                *)
LEMMA UndoStep ==
  ASSUME StagingInv, F!UndoWritable \/ F!UndoRemove \/ F!UndoSync \/ F!UndoSeal
  PROVE  StagingInv'
  <1> USE DEF StagingInv, F!Input
  <1>1. F!PouredIsVerified'
    BY DEF F!PouredIsVerified, F!UndoWritable, F!UndoRemove, F!UndoSync, F!UndoSeal
  <1>2. CASE F!UndoWritable \/ F!UndoSync \/ F!UndoSeal
    <2>1. StagingType'
      BY <1>2 DEF StagingType, F!UndoWritable, F!UndoSync, F!UndoSeal
    <2>2. Entries' /\ Undone'
      BY <1>2
      DEF Entries, Undone, Empty, F!UndoWritable, F!UndoSync, F!UndoSeal, F!UndoFailure,
          F!UndoSuccess
    <2> QED
      BY <1>1, <2>1, <2>2
  <1>3. CASE F!UndoRemove
    <2> DEFINE n == IF tap["staging"] # F!NoTree THEN "staging" ELSE "Formula"
    <2>1. /\ tap' = [m \in Names |-> tap'[m]]
          /\ rollback' # "failed" => tap' = [tap EXCEPT ![n] = F!NoTree]
      <3>1. n \in Names /\ tap = [m \in Names |-> tap[m]]
        BY DEF Names, StagingType
      <3>2. CASE tap' = [tap EXCEPT ![n] = F!NoTree]
        BY <3>1, <3>2
      <3>3. CASE rollback' = "failed" /\ \E left \in SUBSET tap[n].files :
                   tap' = [tap EXCEPT ![n].files = left, ![n].sealed = FALSE]
        BY <3>1, <3>3
      <3> QED
        BY <1>3, <3>2, <3>3 DEF F!UndoRemove, F!UndoFailure
    <2>2. rollback' # "failed" => Empty'
      <3>1. tap["staging"] = F!NoTree \/ tap["Formula"] = F!NoTree
        BY <1>3 DEF F!UndoRemove, Entries
      <3>2. tap = [m \in Names |-> tap[m]] /\ "staging" \in Names /\ "Formula" \in Names
        BY DEF Names, StagingType
      <3> QED
        BY <2>1, <3>1, <3>2 DEF Empty
    <2>3. StagingType'
      BY <1>3, <2>1 DEF StagingType, F!UndoRemove
    <2>4. Entries' /\ Undone'
      BY <1>3, <2>2 DEF Entries, Undone, F!UndoRemove
    <2> QED
      BY <1>1, <2>3, <2>4
  <1> QED
    BY <1>2, <1>3

(* Every step keeps the invariant.                                           *)
LEMMA StagingStep == StagingInv /\ [F!Next]_F!vars => StagingInv'
  <1>1. ASSUME StagingInv, UNCHANGED F!vars PROVE StagingInv'
    BY <1>1 DEF F!vars, StagingInv, StagingType, Names, F!PouredIsVerified, Entries, Undone, Empty
  <1> QED
    BY <1>1, BottlesStep, PrepareStep, FillStep, PublishStep, UndoStep DEF F!Next

(* The Formula tree Homebrew reads holds verified bottles' Formulae only,   *)
(* is whole whenever it has its name, and is there sealed or not at all     *)
(* when staging ends, whichever call failed (formula_tap_unix.go).          *)
StagingAtomic == F!StagingAtomic

(* The Formula tree is published whole and of verified bottles or not at     *)
(* all, and a staging that ended is either committed and sealed or undone,   *)
(* for every set of Formulae and shards (formula_tap_unix.go).               *)
THEOREM StagedWhole == F!Spec => []StagingAtomic
  <1>1. StagingInv => StagingAtomic
    BY DEF StagingInv, Entries, Undone, Empty, StagingAtomic, F!StagingAtomic, F!PublishedIsWhole,
       F!AllOrNothing, F!TransactionPhases
  <1> QED
    BY <1>1, StagingInit, StagingStep, PTL DEF F!Spec
=============================================================================
