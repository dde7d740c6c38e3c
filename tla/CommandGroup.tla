----------------------------- MODULE CommandGroup -----------------------------
(***************************************************************************)
(* One external command in a process group of its own whose output is      *)
(* captured up to a limit: a step of the image test runner (runStep) or    *)
(* the catalog service's generator (CommandGenerator.Generate).  Unlike    *)
(* the installer supervisor neither is a subreaper: they kill the group,   *)
(* and a process that left it survives.                                    *)
(***************************************************************************)
EXTENDS Naturals, FiniteSets

CONSTANTS
    Procs,      \* process identifiers
    Leader,     \* the command itself, leader of the group
    Limit,      \* maxOutput: how much output is kept
    MaxEmit     \* bound on what the processes write

VARIABLES
    kind,       \* "step" or "generator"
    alive,      \* the live processes
    unborn,     \* identifiers not used yet
    group,      \* processes in the command's group
    holders,    \* live processes with the output pipe open
    emitted,    \* units of output written so far
    pipe,       \* units written and not yet copied
    kept,       \* units in the capture buffer
    exceeded,   \* the capture buffer's flag
    copyErr,    \* the copying goroutine stopped with an error
    exit,       \* the command's exit: "none", "zero", "nonzero"
    ctx,        \* "live" or "done"
    wait,       \* exec.Cmd.Wait: "child", "output", "returned", "collected"
    waitErr,    \* its error: "none", "exit", "copy", "delay", "context"
    killed,     \* killOnce has run (generator)
    outcome     \* "none" until the call returns, then what it returns

procVars == <<alive, unborn, group, holders, exit>>
outVars == <<emitted, pipe, kept, exceeded, copyErr>>
vars == <<kind, procVars, outVars, ctx, wait, waitErr, killed, outcome>>

(* SIGKILL to the live processes of S. *)
Kill(S) ==
    /\ alive' = alive \ S
    /\ holders' = holders \ S
    /\ exit' = IF Leader \in alive \cap S THEN "nonzero" ELSE exit
    /\ UNCHANGED <<unborn, group>>

Init ==
    /\ kind \in {"step", "generator"}
    /\ alive = {Leader} /\ unborn = Procs \ {Leader} /\ group = {Leader} /\ holders = {Leader}
    /\ emitted = 0 /\ pipe = 0 /\ kept = 0 /\ exceeded = FALSE /\ copyErr = FALSE
    /\ exit = "none" /\ ctx = "live" /\ wait = "child" /\ waitErr = "none"
    /\ killed = FALSE /\ outcome = "none"

-----------------------------------------------------------------------------
(* The command's processes. *)

Fork(p, c) ==
    /\ p \in alive /\ c \in unborn
    /\ alive' = alive \cup {c} /\ unborn' = unborn \ {c}
    /\ group' = IF p \in group THEN group \cup {c} ELSE group
    /\ holders' = IF p \in holders THEN holders \cup {c} ELSE holders
    /\ UNCHANGED <<kind, exit, outVars, ctx, wait, waitErr, killed, outcome>>

LeaveGroup(p) ==
    /\ p \in (alive \cap group) \ {Leader}
    /\ group' = group \ {p}
    /\ UNCHANGED <<kind, alive, unborn, holders, exit, outVars, ctx, wait, waitErr, killed, outcome>>

CloseOutput(p) ==
    /\ p \in holders
    /\ holders' = holders \ {p}
    /\ UNCHANGED <<kind, alive, unborn, group, exit, outVars, ctx, wait, waitErr, killed, outcome>>

Emit(p) ==
    /\ p \in holders /\ emitted < MaxEmit
    /\ wait \in {"child", "output"}
    /\ emitted' = emitted + 1 /\ pipe' = pipe + 1
    /\ UNCHANGED <<kind, procVars, kept, exceeded, copyErr, ctx, wait, waitErr, killed, outcome>>

Exit(p) ==
    /\ p \in alive
    /\ alive' = alive \ {p} /\ holders' = holders \ {p}
    /\ \E e \in {"zero", "nonzero"} : exit' = IF p = Leader THEN e ELSE exit
    /\ UNCHANGED <<kind, unborn, group, outVars, ctx, wait, waitErr, killed, outcome>>

ContextEnds ==
    /\ ctx = "live" /\ outcome = "none"
    /\ ctx' = "done"
    /\ UNCHANGED <<kind, procVars, outVars, wait, waitErr, killed, outcome>>

-----------------------------------------------------------------------------
(* exec.Cmd and the capture buffers. *)

(* boundedCapture.Write keeps what fits and swallows the rest; the          *)
(* generator's boundedCommandBuffer.Write kills the group the first time    *)
(* and fails, which stops the copying.                                      *)
Copy ==
    /\ pipe > 0 /\ ~copyErr /\ wait \in {"child", "output"}
    /\ pipe' = pipe - 1
    /\ \/ /\ kept < Limit
          /\ kept' = kept + 1
          /\ UNCHANGED <<procVars, exceeded, copyErr, killed>>
       \/ /\ kept >= Limit /\ kind = "step"
          /\ exceeded' = TRUE
          /\ UNCHANGED <<procVars, kept, copyErr, killed>>
       \/ /\ kept >= Limit /\ kind = "generator"
          /\ exceeded' = TRUE /\ copyErr' = TRUE
          /\ IF killed THEN UNCHANGED procVars ELSE Kill(group)
          /\ killed' = TRUE
          /\ UNCHANGED kept
    /\ UNCHANGED <<kind, emitted, ctx, wait, waitErr, outcome>>

(* The end of the context kills the group: exec.Cmd through Cancel, for a   *)
(* command not yet reaped, Generate's select through kill.                  *)
CancelKill ==
    /\ ctx = "done"
    /\ \/ kind = "step" /\ wait = "child" /\ UNCHANGED killed
       \/ kind = "generator" /\ wait \in {"child", "output"} /\ ~killed /\ killed' = TRUE
    /\ Kill(group)
    /\ waitErr' = IF kind = "step" THEN "context" ELSE waitErr
    /\ UNCHANGED <<kind, outVars, ctx, wait, outcome>>

ReapLeader ==
    /\ wait = "child" /\ Leader \notin alive
    /\ wait' = "output"
    /\ waitErr' = IF exit = "nonzero" /\ waitErr = "none" THEN "exit" ELSE waitErr
    /\ UNCHANGED <<kind, procVars, outVars, ctx, killed, outcome>>

(* Wait returns when the copying has seen the end of the output ... *)
WaitReturns ==
    /\ wait = "output"
    /\ copyErr \/ (pipe = 0 /\ holders = {})
    /\ wait' = "returned"
    /\ waitErr' = IF copyErr /\ waitErr = "none" THEN "copy" ELSE waitErr
    /\ UNCHANGED <<kind, procVars, outVars, ctx, killed, outcome>>

(* Mutants: an expired delay is not an error; there is no WaitDelay. *)
WaitDelaySilent ==
    /\ wait = "output"
    /\ wait' = "returned"
    /\ UNCHANGED <<kind, procVars, outVars, ctx, waitErr, killed, outcome>>

(* ... or when WaitDelay has passed since the command ended. *)
WaitDelayExpires ==
    /\ wait = "output"
    /\ wait' = "returned"
    /\ waitErr' = IF waitErr = "none" THEN "delay" ELSE waitErr
    /\ UNCHANGED <<kind, procVars, outVars, ctx, killed, outcome>>

(* terminateCommandGroup after cmd.Run, kill after waitResult. *)
CollectGroup ==
    /\ wait = "returned"
    /\ wait' = "collected"
    /\ killed' = (kind = "generator")
    /\ IF killed THEN UNCHANGED procVars ELSE Kill(group)
    /\ UNCHANGED <<kind, outVars, ctx, waitErr, outcome>>

(* What the call returns: runStep looks at the error of Run first, Generate *)
(* at its context and at its limits.                                        *)
Verdict ==
    CASE kind = "generator" /\ ctx = "done" -> "context"
      [] kind = "generator" /\ ctx = "live" /\ exceeded -> "limit"
      [] kind = "generator" /\ ctx = "live" /\ ~exceeded /\ waitErr # "none" -> "failure"
      [] kind = "step" /\ waitErr # "none" -> IF ctx = "done" THEN "context" ELSE "failure"
      [] kind = "step" /\ waitErr = "none" /\ exceeded -> "limit"
      [] OTHER -> "output"

Finish ==
    /\ wait = "collected" /\ outcome = "none"
    /\ outcome' = Verdict
    /\ UNCHANGED <<kind, procVars, outVars, ctx, wait, waitErr, killed>>

Next ==
    \/ \E p, c \in Procs : Fork(p, c)
    \/ \E p \in Procs : LeaveGroup(p)
    \/ \E p \in Procs : CloseOutput(p)
    \/ \E p \in Procs : Emit(p)
    \/ \E p \in Procs : Exit(p)
    \/ ContextEnds
    \/ Copy \/ CancelKill \/ ReapLeader \/ WaitReturns \/ WaitDelayExpires
    \/ CollectGroup \/ Finish

(* Fairness: the context's deadline, WaitDelay and the caller's own steps;  *)
(* the command's processes may do nothing for ever.                         *)
Fairness ==
    /\ WF_vars(ContextEnds) /\ WF_vars(CancelKill) /\ WF_vars(ReapLeader)
    /\ WF_vars(WaitDelayExpires) /\ WF_vars(CollectGroup) /\ WF_vars(Finish)

Spec == Init /\ [][Next]_vars
FairSpec == Spec /\ Fairness

-----------------------------------------------------------------------------
(* Output that is judged, by a step's checks or by DecodeGeneratedSet, is   *)
(* the whole output of every process that had it open, escaped ones too:    *)
(* none of it was dropped at the limit or left in the pipe, and no process  *)
(* can add to it.                                                           *)
JudgedOutputIsWhole ==
    outcome = "output" => kept = emitted /\ holders = {} /\ exit = "zero"

(* However the call ended, no process of the command's group outlives it:   *)
(* the next step of the test does not run beside what the last one left.    *)
GroupEnded ==
    outcome # "none" => alive \cap group = {}

(* The output a test step or a generated document is judged by is all the   *)
(* command wrote, and its process group is gone by then.                    *)
OutputJudged == JudgedOutputIsWhole /\ GroupEnded

(* A command that ignores its deadline, or an escaped process that keeps    *)
(* the output open for ever, does not keep the caller waiting.              *)
CallReturns ==
    <>(outcome # "none")
=============================================================================
