---------------------------- MODULE SnapshotLookup ----------------------------
(***************************************************************************)
(* resolveSnapshotPath turn by turn, in any snapshot of a prefix, against  *)
(* what a file system answers.                                             *)
(***************************************************************************)
EXTENDS SnapshotPath, FiniteSets, TLC

CONSTANTS
    Names,      \* component names
    Targets     \* symlink targets

VARIABLES
    snap,       \* the snapshot
    query,      \* the path looked up
    loop        \* the state of the loop

vars == <<snap, query, loop>>

Entries == {[type |-> "directory"], [type |-> "regular"]}
              \cup {[type |-> "symlink", link |-> t] : t \in Targets}

(* The snapshots the walk of a prefix can produce: an entry below the top   *)
(* level has a real directory above it.                                     *)
Snapshots ==
    LET top == {<<n>> : n \in Names}
        Below(f) == {<<d[1], n>> : d \in {d \in DOMAIN f : f[d].type = "directory"}, n \in Names}
        root == [x \in {<<>>} |-> [type |-> "directory"]]
    IN  UNION {UNION {{root @@ f @@ g : g \in [d -> Entries]} : d \in {e \in SUBSET Below(f) : Cardinality(e) <= 1}}
                 : f \in UNION {[d -> Entries] : d \in SUBSET top}}

Queries == {<<n>> : n \in Names} \cup {<<n, m>> : n, m \in Names}

Init ==
    /\ snap \in Snapshots
    /\ query \in Queries
    /\ loop = Lookup(query)

Next ==
    /\ loop.outcome = "walking"
    /\ loop' = Iterate(snap, loop)
    /\ UNCHANGED <<snap, query>>

Spec == Init /\ [][Next]_vars

-----------------------------------------------------------------------------
(* The reference: to look up a path, look up its parent, which must be a    *)
(* directory, then follow the last component.  "used" counts the links      *)
(* followed; a lookup that needs more than the budget has no answer.        *)
NoPath == [ok |-> FALSE, path |-> <<>>, used |-> 0]

RECURSIVE Walk(_, _, _)
(* The canonical path that parts lead to from the canonical directory dir.  *)
Walk(dir, parts, budget) ==
    IF parts = <<>> THEN [ok |-> TRUE, path |-> dir, used |-> 0]
    ELSE LET up == Walk(dir, ParentOf(parts), budget)
             c == Last(parts)
             here == Append(up.path, c)
         IN  IF ~up.ok THEN NoPath
             ELSE IF up.path \notin DOMAIN snap THEN NoPath
             ELSE IF snap[up.path].type # "directory" THEN NoPath
             ELSE IF IsDots(c) THEN up
             ELSE IF c = ".." THEN (IF up.path = <<>> THEN NoPath ELSE [up EXCEPT !.path = ParentOf(@)])
             ELSE IF here \notin DOMAIN snap THEN NoPath
             ELSE IF snap[here].type # "symlink" THEN [up EXCEPT !.path = here]
             ELSE IF up.used >= budget THEN NoPath
             ELSE LET link == snap[here].link
                      in == ~link.abs \/ IsPrefix(Prefix, link.parts)
                      down == Walk(IF link.abs THEN <<>> ELSE up.path,
                                   IF link.abs THEN SubSeq(link.parts, Len(Prefix) + 1, Len(link.parts)) ELSE link.parts,
                                   budget - up.used - 1)
                  IN  IF in /\ down.ok
                      THEN [ok |-> TRUE, path |-> down.path, used |-> up.used + 1 + down.used]
                      ELSE NoPath

-----------------------------------------------------------------------------
(* resolveSnapshotPath answers what the file system would: the same final   *)
(* path, and an error exactly when a component is missing, a file is used   *)
(* as a directory, the path leaves the prefix or links are too many.        *)
AgreesWithFileSystem ==
    LET ref == Walk(<<>>, query, MaxLinks)
    IN  /\ loop.outcome = "ok" => ref.ok /\ ref.path = loop.stack
        /\ loop.outcome = "error" => ~ref.ok

(* A resolved path is never itself a symlink: what a containment rule       *)
(* learns about it cannot be changed by a link behind it.                   *)
ResolvedIsFinal ==
    loop.outcome = "ok" => snap[loop.stack].type # "symlink" /\ Resolve(snap, loop.stack).path = loop.stack

(* Every lookup ends, also among links that point at each other: a turn    *)
(* ends it, spends one of the MaxLinks links or shortens the queue.         *)
LookupShrinks ==
    [][\/ loop'.outcome # "walking"
       \/ loop'.steps = loop.steps + 1 /\ loop'.steps <= MaxLinks
       \/ loop'.steps = loop.steps /\ Len(loop'.queue) < Len(loop.queue)]_vars
=============================================================================
