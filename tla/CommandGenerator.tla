--------------------------- MODULE CommandGenerator ---------------------------
(***************************************************************************)
(* The catalog service's external generator: NewCommandGenerator has       *)
(* copied the operator's executable into a private directory, concurrent   *)
(* Generate calls run that copy under the read side of a RWMutex, and      *)
(* Close takes the write side, once, to remove it.  What happens inside a  *)
(* running command is CommandGroup's subject.                              *)
(***************************************************************************)
EXTENDS Naturals, FiniteSets

CONSTANTS
    Callers,    \* goroutines that call Generate
    Closers,    \* goroutines that call Close
    MaxCalls    \* bound on the Generate calls of one goroutine

VARIABLES
    pinned,     \* the private executable exists
    pc,         \* pc[t]: where goroutine t is
    calls,      \* calls[t]: Generate calls t has started
    readers,    \* goroutines that hold mu for reading
    writer,     \* a goroutine has called mu.Lock and not yet mu.Unlock
    closed,     \* g.closed
    once        \* closeOnce: "idle", "running", "done"

GoroutinesDiffer == Callers \cap Closers = {}

vars == <<pinned, pc, calls, readers, writer, closed, once>>

(* NewCommandGenerator returned: the copy was written, synced and closed. *)
Init ==
    /\ pinned = TRUE
    /\ pc = [t \in Callers \cup Closers |-> "idle"]
    /\ calls = [t \in Callers |-> 0]
    /\ readers = {} /\ writer = FALSE /\ closed = FALSE /\ once = "idle"

Go(t, from, to) == pc[t] = from /\ pc' = [pc EXCEPT ![t] = to]

-----------------------------------------------------------------------------
(* Generate: the request is canonical, otherwise it returns before mu. *)

Call(t) ==
    /\ Go(t, "idle", "rlock") /\ calls[t] < MaxCalls
    /\ calls' = [calls EXCEPT ![t] = @ + 1]
    /\ UNCHANGED <<pinned, readers, writer, closed, once>>

(* RLock: a waiting writer keeps new readers out. *)
RLock(t) ==
    /\ Go(t, "rlock", "check") /\ ~writer
    /\ readers' = readers \cup {t}
    /\ UNCHANGED <<pinned, calls, writer, closed, once>>

Refuse(t) ==
    /\ Go(t, "check", "idle") /\ closed
    /\ readers' = readers \ {t}
    /\ UNCHANGED <<pinned, calls, writer, closed, once>>

(* Mutant: the lock is released once closed was read. *)
PassCheckUnlocked(t) ==
    /\ Go(t, "check", "start") /\ ~closed
    /\ readers' = readers \ {t}
    /\ UNCHANGED <<pinned, calls, writer, closed, once>>

PassCheck(t) ==
    /\ Go(t, "check", "start") /\ ~closed
    /\ UNCHANGED <<pinned, calls, readers, writer, closed, once>>

(* command.Start executes the pinned copy. *)
Start(t) ==
    /\ Go(t, "start", IF pinned THEN "running" ELSE "missing")
    /\ UNCHANGED <<pinned, calls, readers, writer, closed, once>>

(* Mutant: an error path forgets the read lock. *)
ReturnLocked(t) ==
    /\ pc[t] \in {"running", "missing"} /\ pc' = [pc EXCEPT ![t] = "idle"]
    /\ UNCHANGED <<pinned, calls, readers, writer, closed, once>>

(* The command ended, one way or another, and Generate returns. *)
Return(t) ==
    /\ pc[t] \in {"running", "missing"} /\ pc' = [pc EXCEPT ![t] = "idle"]
    /\ readers' = readers \ {t}
    /\ UNCHANGED <<pinned, calls, writer, closed, once>>

-----------------------------------------------------------------------------
(* Close. *)

EnterOnce(t) ==
    /\ Go(t, "idle", "lock") /\ once = "idle"
    /\ once' = "running" /\ writer' = TRUE
    /\ UNCHANGED <<pinned, calls, readers, closed>>

(* sync.Once keeps the other callers until the first has finished. *)
WaitOnce(t) ==
    /\ Go(t, "idle", "returned") /\ once = "done"
    /\ UNCHANGED <<pinned, calls, readers, writer, closed, once>>

Lock(t) ==
    /\ Go(t, "lock", "remove") /\ readers = {}
    /\ closed' = TRUE
    /\ UNCHANGED <<pinned, calls, readers, writer, once>>

(* os.RemoveAll may fail half-way; closeErr keeps the error. *)
Remove(t) ==
    /\ Go(t, "remove", "unlock")
    /\ pinned' = FALSE
    /\ UNCHANGED <<calls, readers, writer, closed, once>>

Unlock(t) ==
    /\ Go(t, "unlock", "returned")
    /\ writer' = FALSE /\ once' = "done"
    /\ UNCHANGED <<pinned, calls, readers, closed>>

GenerateStep(t) == RLock(t) \/ Refuse(t) \/ PassCheck(t) \/ Start(t) \/ Return(t)
CloseStep(t) == WaitOnce(t) \/ Lock(t) \/ Remove(t) \/ Unlock(t)

Next ==
    \/ \E t \in Callers : Call(t) \/ GenerateStep(t)
    \/ \E t \in Closers : EnterOnce(t) \/ CloseStep(t)

(* Every started call goes on: CommandGroup's CallReturns is what makes     *)
(* Return fair.                                                             *)
Fairness ==
    /\ \A t \in Callers : WF_vars(GenerateStep(t))
    /\ \A t \in Closers : WF_vars(CloseStep(t))

Spec == Init /\ [][Next]_vars /\ Fairness

-----------------------------------------------------------------------------
(* A Generate call that saw the generator open runs the pinned executable:  *)
(* Close never removes it between that look and the end of the command.     *)
PinnedWhileInUse ==
    \A t \in Callers : pc[t] \in {"start", "running", "missing"} => pinned

(* "Close waits for in-flight Generate calls": when any Close has returned  *)
(* nothing runs and nothing will run again.                                 *)
NothingAfterClose ==
    (\E t \in Closers : pc[t] = "returned") =>
        \A t \in Callers : pc[t] \in {"idle", "rlock", "check"}

(* Close removes the pinned generator only when no Generate uses it, and    *)
(* once Close has returned none starts.                                     *)
GeneratorExcludes == PinnedWhileInUse /\ NothingAfterClose

(* Close comes back: while it waits for the calls under way it is not       *)
(* overtaken for ever by new ones.                                          *)
CloseReturns ==
    \A t \in Closers : pc[t] = "lock" ~> pc[t] = "returned"

(* Every Generate call comes back: one that arrives while Close waits is    *)
(* refused in the end, not stuck behind it.                                 *)
GenerateReturns ==
    \A t \in Callers : pc[t] = "rlock" ~> pc[t] = "idle"
=============================================================================
