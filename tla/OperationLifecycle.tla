------------------------- MODULE OperationLifecycle -------------------------
(***************************************************************************)
(* What the catalog service promises about an operation: it becomes        *)
(* pending when its request is accepted, a pending operation is decided    *)
(* once, and only operations that are decided, or whose outcome could not  *)
(* be recorded, are ever forgotten.  The queue, the workers, the limits,   *)
(* shutdown and restart do not show.                                       *)
(***************************************************************************)
CONSTANT Ids

VARIABLES
  status,     \* the status a client is told, "absent" for 404
  unrecorded  \* operations answered with 500: the outcome was not persisted

vars == <<status, unrecorded>>

Decided == {"completed", "stale", "failed"}

Init ==
  /\ status = [id \in Ids |-> "absent"]
  /\ unrecorded = {}

Forgettable == {id \in Ids : status[id] \in Decided \/ id \in unrecorded}

(* Operations are forgotten, and perhaps one is accepted in their place.   *)
Forget(gone, accepted) ==
  /\ gone \subseteq Forgettable
  /\ \A id \in accepted : status[id] = "absent"
  /\ status' = [id \in Ids |-> IF id \in accepted THEN "pending"
                               ELSE IF id \in gone THEN "absent"
                               ELSE status[id]]
  /\ \E cleared \in SUBSET gone : unrecorded' = unrecorded \ cleared

(* A failed or outdated operation becomes pending again. *)
Renew(id) ==
  /\ status[id] \in {"failed", "stale"}
  /\ status' = [status EXCEPT ![id] = "pending"]
  /\ UNCHANGED unrecorded

(* A pending operation is decided; recording that may fail, before or      *)
(* after it takes effect. *)
Decide(id, outcome) ==
  /\ status[id] = "pending"
  /\ status' = [status EXCEPT ![id] = outcome]
  /\ unrecorded' \in {unrecorded, unrecorded \cup {id}}

(* Results go out of date. *)
Age(gone) ==
  /\ \A id \in gone : status[id] = "completed"
  /\ status' = [id \in Ids |-> IF id \in gone THEN "stale" ELSE status[id]]
  /\ UNCHANGED unrecorded

(* A restarted service no longer knows which outcomes were not recorded.   *)
Restart ==
  /\ unrecorded' = {}
  /\ UNCHANGED status

Next ==
  \/ \E gone \in SUBSET Ids, accepted \in {{}} \cup {{id} : id \in Ids} :
       Forget(gone, accepted)
  \/ \E id \in Ids : Renew(id)
  \/ \E id \in Ids, outcome \in Decided \cup {"pending"} : Decide(id, outcome)
  \/ \E gone \in SUBSET Ids : Age(gone)
  \/ Restart

Spec == Init /\ [][Next]_vars
=============================================================================
