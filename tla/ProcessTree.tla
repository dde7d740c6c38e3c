----------------------------- MODULE ProcessTree -----------------------------
(***************************************************************************)
(* The installer supervisor: the materializer runs each Homebrew pour      *)
(* under a copy of itself that becomes a child subreaper, starts the       *)
(* installer in a process group of its own and, once the installer exits   *)
(* or is cancelled, kills and reaps every process the pour left behind     *)
(* before it returns.  The processes of the pour fork, leave the group,    *)
(* exit and write to the prefix at any time.                               *)
(***************************************************************************)
EXTENDS Integers, FiniteSets

CONSTANTS
    Procs,      \* process identifiers the pour may use
    Child,      \* the installer itself, the supervisor's direct child
    MaxWrites   \* bound on the writes to the prefix

Supervisor == "supervisor"
InitProc == "init"

VARIABLES
    st,         \* st[p]: "unborn", "live", "zombie" or "gone" (reaped)
    parent,     \* parent[p]: another process, the supervisor or init
    inGroup,    \* inGroup[p]: p is still in the installer's process group
    exit,       \* how the installer ended: "none", "zero", "nonzero"
    pc,         \* where runInstallerSupervisor is
    cancelled,  \* its local of that name
    pids,       \* the descendants its last scan of /proc found
    code,       \* its exit code once it has returned
    run,        \* the materializer: "running", "stopping", "ok", "failed", "dead"
    writes      \* number of changes made to the prefix

(* The installer is one of the processes of its pour, and neither the       *)
(* supervisor nor init is.                                                  *)
ProcsAssumption == Child \in Procs /\ Supervisor \notin Procs /\ InitProc \notin Procs

vars == <<st, parent, inGroup, exit, pc, cancelled, pids, code, run, writes>>
supVars == <<pc, cancelled, pids, code>>
treeVars == <<st, parent, inGroup, exit>>

Live == {p \in Procs : st[p] = "live"}
SupervisorUp == pc \notin {"returned", "killed"}

(* The process tree below the supervisor as descendantPIDs rebuilds it from *)
(* the parent fields of /proc.                                              *)
Descendants ==
    LET Grow(S) == S \cup {p \in Procs : st[p] \in {"live", "zombie"} /\ parent[p] \in S \cup {Supervisor}}
        Reach[n \in 0 .. Cardinality(Procs)] == IF n = 0 THEN {} ELSE Grow(Reach[n - 1])
    IN  Reach[Cardinality(Procs)]

(* The kernel ends the live processes of S: each stays a zombie until it is *)
(* reaped, and the children of the dead go to the subreaper, or to init     *)
(* once the supervisor is gone.                                             *)
End(S, reaper) ==
    LET dead == S \cap Live
    IN  /\ st' = [p \in Procs |-> IF p \in dead THEN "zombie" ELSE st[p]]
        /\ parent' = [p \in Procs |->
                        IF /\ parent[p] \in dead \cup {x \in {Supervisor} : reaper = InitProc}
                           /\ st[p] # "unborn"
                        THEN reaper ELSE parent[p]]
        /\ exit' = IF Child \in dead /\ exit = "none" THEN "nonzero" ELSE exit
        /\ UNCHANGED inGroup

KillGroup == {p \in Procs : inGroup[p]}

(* Mutant: PR_SET_CHILD_SUBREAPER is not set. *)
ReaperInit == InitProc

Reaper == IF SupervisorUp THEN Supervisor ELSE InitProc

Init ==
    /\ st = [p \in Procs |-> IF p = Child THEN "live" ELSE "unborn"]
    /\ parent = [p \in Procs |-> Supervisor]
    /\ inGroup = [p \in Procs |-> TRUE]
    /\ exit = "none"
    /\ pc = "select" /\ cancelled = FALSE /\ pids = {} /\ code = 0
    /\ run = "running"
    /\ writes = 0

-----------------------------------------------------------------------------
(* The pour's own processes. *)

Fork(p, c) ==
    /\ st[p] = "live" /\ st[c] = "unborn"
    /\ st' = [st EXCEPT ![c] = "live"]
    /\ parent' = [parent EXCEPT ![c] = p]
    /\ inGroup' = [inGroup EXCEPT ![c] = inGroup[p]]
    /\ UNCHANGED <<exit, supVars, run, writes>>

(* A process other than the group leader may start a session of its own. *)
LeaveGroup(p) ==
    /\ p # Child /\ st[p] = "live" /\ inGroup[p]
    /\ inGroup' = [inGroup EXCEPT ![p] = FALSE]
    /\ UNCHANGED <<st, parent, exit, supVars, run, writes>>

Exit(p) ==
    /\ st[p] = "live"
    /\ st' = [st EXCEPT ![p] = "zombie"]
    /\ parent' = [q \in Procs |-> IF parent[q] = p /\ st[q] # "unborn" THEN Reaper ELSE parent[q]]
    /\ \E e \in {"zero", "nonzero"} : exit' = IF p = Child THEN e ELSE exit
    /\ UNCHANGED <<inGroup, supVars, run, writes>>

(* A process reaps its own child; init reaps what it inherits. *)
ReapOwn(p) ==
    /\ st[p] = "zombie"
    /\ parent[p] = InitProc \/ parent[p] \in Live
    /\ st' = [st EXCEPT ![p] = "gone"]
    /\ UNCHANGED <<parent, inGroup, exit, supVars, run, writes>>

Write(p) ==
    /\ st[p] = "live" /\ writes < MaxWrites
    /\ writes' = writes + 1
    /\ UNCHANGED <<treeVars, supVars, run>>

-----------------------------------------------------------------------------
(* runInstallerSupervisor. *)

(* The select: the installer exited by itself and child.Wait reaped it ... *)
ChildDone ==
    /\ pc = "select" /\ st[Child] = "zombie"
    /\ st' = [st EXCEPT ![Child] = "gone"]
    /\ pc' = "quiesce"
    /\ UNCHANGED <<parent, inGroup, exit, cancelled, pids, code, run, writes>>

(* ... or SIGTERM arrived or the materializer's end of the pipe closed. *)
Cancelled ==
    /\ pc = "select" /\ run \in {"stopping", "dead"}
    /\ End(KillGroup, Supervisor)
    /\ cancelled' = TRUE /\ pc' = "await"
    /\ UNCHANGED <<pids, code, run, writes>>

AwaitChild ==
    /\ pc = "await" /\ st[Child] = "zombie"
    /\ st' = [st EXCEPT ![Child] = "gone"]
    /\ pc' = "quiesce"
    /\ UNCHANGED <<parent, inGroup, exit, cancelled, pids, code, run, writes>>

(* os.Exit: the supervisor ends, and with it its claim on orphans; the      *)
(* installer is dead by then, so its Pdeathsig has nothing to kill.         *)
Return(c) ==
    /\ pc' = "returned" /\ code' = c
    /\ End({}, InitProc)
    /\ UNCHANGED <<cancelled, pids, run, writes>>

QuiesceKillGroup ==
    /\ pc = "quiesce"
    /\ End(KillGroup, Supervisor)
    /\ pc' = "reap"
    /\ UNCHANGED <<cancelled, pids, code, run, writes>>

(* wait4(-1, WNOHANG) reaps one zombie child ... *)
Reap(p) ==
    /\ pc = "reap" /\ st[p] = "zombie" /\ parent[p] = Supervisor
    /\ st' = [st EXCEPT ![p] = "gone"]
    /\ UNCHANGED <<parent, inGroup, exit, supVars, run, writes>>

Children == {p \in Procs : st[p] \in {"live", "zombie"} /\ parent[p] = Supervisor}

(* ... fails with ECHILD when the supervisor has no child left, and the     *)
(* supervisor returns 124 after a cancellation and the installer's code     *)
(* otherwise ...                                                            *)
NoChildLeft ==
    /\ pc = "reap" /\ Children = {}
    /\ Return(IF cancelled THEN 124 ELSE IF exit = "zero" THEN 0 ELSE 1)

(* ... and otherwise finds only live children: the supervisor scans /proc,  *)
(* kills what it found and looks at the clock.                              *)
Scan ==
    /\ pc = "reap" /\ Children # {} /\ \A p \in Children : st[p] = "live"
    /\ pids' = Descendants
    /\ pc' = "kill"
    /\ UNCHANGED <<treeVars, cancelled, code, run, writes>>

ScanFails ==
    /\ pc = "reap" /\ Children # {} /\ \A p \in Children : st[p] = "live"
    /\ Return(125)

KillScanned ==
    /\ pc = "kill"
    /\ End(pids, Supervisor)
    /\ pc' = "deadline"
    /\ UNCHANGED <<cancelled, pids, code, run, writes>>

BeforeDeadline ==
    /\ pc = "deadline"
    /\ pc' = "reap"
    /\ UNCHANGED <<treeVars, cancelled, pids, code, run, writes>>

AfterDeadline ==
    /\ pc = "deadline"
    /\ Return(125)

-----------------------------------------------------------------------------
(* OSRunner.Run in the materializer. *)

(* The step's context ends and exec.Cmd sends the supervisor SIGTERM. *)
StepTimeout ==
    /\ run = "running" /\ SupervisorUp
    /\ run' = "stopping"
    /\ UNCHANGED <<treeVars, supVars, writes>>

(* After WaitDelay exec.Cmd kills the supervisor: its direct child gets     *)
(* SIGKILL through Pdeathsig, the rest goes to init.                        *)
WaitDelayExpired ==
    /\ run = "stopping" /\ SupervisorUp
    /\ End({Child}, InitProc)
    /\ pc' = "killed" /\ run' = "failed"
    /\ UNCHANGED <<cancelled, pids, code, writes>>

RunReturns ==
    /\ run \in {"running", "stopping"} /\ pc = "returned"
    /\ run' = IF code = 0 /\ run = "running" THEN "ok" ELSE "failed"
    /\ UNCHANGED <<treeVars, supVars, writes>>

(* The materializer itself dies: the supervisor sees its pipe close. *)
MaterializerDies ==
    /\ run \in {"running", "stopping"}
    /\ run' = "dead"
    /\ UNCHANGED <<treeVars, supVars, writes>>

Supervise ==
    \/ ChildDone \/ Cancelled \/ AwaitChild \/ QuiesceKillGroup
    \/ \E p \in Procs : Reap(p)
    \/ NoChildLeft \/ Scan \/ ScanFails \/ KillScanned \/ BeforeDeadline \/ AfterDeadline

Next ==
    \/ \E p, c \in Procs : Fork(p, c)
    \/ \E p \in Procs : LeaveGroup(p)
    \/ \E p \in Procs : Exit(p)
    \/ \E p \in Procs : ReapOwn(p)
    \/ \E p \in Procs : Write(p)
    \/ Supervise
    \/ StepTimeout \/ WaitDelayExpired \/ RunReturns \/ MaterializerDies

(* Fairness: the supervisor and the materializer keep running, the step     *)
(* timeout and the two-second deadline pass, whatever the pour's processes  *)
(* do; those are under no obligation.                                       *)
Fairness ==
    /\ WF_vars(ChildDone) /\ WF_vars(Cancelled) /\ WF_vars(AwaitChild)
    /\ WF_vars(QuiesceKillGroup) /\ WF_vars(\E p \in Procs : Reap(p))
    /\ WF_vars(NoChildLeft) /\ WF_vars(Scan) /\ WF_vars(KillScanned)
    /\ SF_vars(AfterDeadline) /\ WF_vars(BeforeDeadline)
    /\ WF_vars(StepTimeout) /\ WF_vars(RunReturns)

Spec == Init /\ [][Next]_vars
FairSpec == Spec /\ Fairness

-----------------------------------------------------------------------------
(* The comment in v2_install.go is true: when the supervisor returns any    *)
(* code but 125, no process of the pour is left, however it forked, left    *)
(* its group or was orphaned.                                               *)
ReturnsQuiet ==
    pc = "returned" /\ code # 125 => \A p \in Procs : st[p] \in {"unborn", "gone"}

(* Once OSRunner.Run has returned nil nothing of the pour writes to the     *)
(* prefix any more: the snapshot taken next is the pour's final state.      *)
NoLateWrite ==
    [][run = "ok" => writes' = writes]_vars

(* A pour whose materializer died, or whose step timed out, is not left     *)
(* running: the supervisor ends, and unless its deadline passed or it was   *)
(* itself killed the whole tree is gone.                                    *)
CancelledPourEnds ==
    (run = "dead" /\ SupervisorUp) ~> ~SupervisorUp

(* OSRunner.Run always returns: no behaviour of the pour keeps it waiting.  *)
RunTerminates ==
    <>(run \in {"ok", "failed", "dead"})
=============================================================================
