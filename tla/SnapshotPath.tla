----------------------------- MODULE SnapshotPath -----------------------------
(***************************************************************************)
(* Path resolution inside a snapshot of the Homebrew prefix.  Containment  *)
(* of an install rests on what resolveSnapshotPath answers, so the module  *)
(* has its loop, one iteration at a time, and checks it against the        *)
(* file-system rule it stands for: a path is looked up from the right, by  *)
(* resolving its parent and then following the last component.             *)
(*                                                                         *)
(* A path is a sequence of components relative to the prefix; <<>> is the  *)
(* prefix itself.  A snapshot is a function on the paths that exist, whose *)
(* entries have a type and, for symlinks, a target [abs, parts].           *)
(***************************************************************************)
EXTENDS Naturals, Sequences, SequencesExt

CONSTANTS
    Prefix,     \* the components of the absolute prefix
    MaxLinks    \* symlink expansions before the lookup is given up (64)

IsDots(c) == c \in {"", "."}
Within(p, root) == IsPrefix(root, p)
ParentOf(p) == SubSeq(p, 1, Len(p) - 1)

(* snapshotTargetMustBeDirectory: a trailing slash, or a last component     *)
(* that is "." or "..".                                                     *)
MustBeDirectory(parts) ==
    \/ parts # <<>> /\ Last(parts) = ""
    \/ LET named == SelectSeq(parts, LAMBDA c : c # "")
       IN  named # <<>> /\ Last(named) \in {".", ".."}

(* absoluteSnapshotTarget: the components below the prefix, or none. *)
AbsoluteTarget(parts) ==
    LET named == SelectSeq(parts, LAMBDA c : ~IsDots(c))
    IN  IF IsPrefix(Prefix, named)
        THEN [ok |-> TRUE, parts |-> SubSeq(named, Len(Prefix) + 1, Len(named))]
        ELSE [ok |-> FALSE, parts |-> <<>>]

-----------------------------------------------------------------------------
(* resolveSnapshotPath. *)

Lookup(p) ==
    [queue |-> p, stack |-> <<>>, steps |-> 0, mustDir |-> FALSE, outcome |-> "walking"]

Fail(st) == [st EXCEPT !.outcome = "error"]

(* A symlink on top of the stack is replaced by its target's components. *)
FollowLink(st, link, rest) ==
    LET target == AbsoluteTarget(link.parts)
        base == ParentOf(st.stack)
        must == MustBeDirectory(link.parts) /\ rest = <<>>
        next == [st EXCEPT !.steps = @ + 1, !.mustDir = @ \/ must]
    IN  IF st.steps + 1 > MaxLinks THEN Fail(st)
        ELSE IF ~link.abs THEN [next EXCEPT !.stack = base, !.queue = link.parts \o rest]
        ELSE IF target.ok THEN [next EXCEPT !.stack = <<>>, !.queue = target.parts \o rest]
        ELSE Fail(st)

StepComponent(snap, st, c, rest) ==
    LET here == Append(st.stack, c)
    IN  IF here \notin DOMAIN snap THEN Fail(st)
        ELSE IF snap[here].type = "symlink"
             THEN FollowLink([st EXCEPT !.stack = here], snap[here].link, rest)
        ELSE IF rest # <<>> /\ snap[here].type # "directory" THEN Fail(st)
        ELSE [st EXCEPT !.stack = here, !.queue = rest]

(* Mutant: ".." at the prefix stays there. *)
StepUpAtRoot(st, rest) ==
    [st EXCEPT !.stack = IF @ = <<>> THEN @ ELSE ParentOf(@), !.queue = rest]

StepUp(st, rest) ==
    IF st.stack = <<>> THEN Fail(st)
    ELSE [st EXCEPT !.stack = ParentOf(@), !.queue = rest]

StepEnd(snap, st) ==
    IF st.stack \notin DOMAIN snap THEN Fail(st)
    ELSE IF st.mustDir /\ snap[st.stack].type # "directory" THEN Fail(st)
    ELSE [st EXCEPT !.outcome = "ok"]

(* One turn of the loop. *)
Iterate(snap, st) ==
    IF st.queue = <<>> THEN StepEnd(snap, st)
    ELSE LET c == Head(st.queue)
             rest == Tail(st.queue)
         IN  IF IsDots(c) THEN [st EXCEPT !.queue = rest]
             ELSE IF c = ".." THEN StepUp(st, rest)
             ELSE StepComponent(snap, st, c, rest)

RECURSIVE Drive(_, _)
Drive(snap, st) == IF st.outcome = "walking" THEN Drive(snap, Iterate(snap, st)) ELSE st

(* The resolved path, in a record that says whether there is one. *)
Resolve(snap, p) ==
    LET end == Drive(snap, Lookup(p))
    IN  [ok |-> end.outcome = "ok", path |-> end.stack]

ResolvesTo(snap, p, q) == LET r == Resolve(snap, p) IN r.ok /\ r.path = q
ResolvesWithin(snap, p, root) == LET r == Resolve(snap, p) IN r.ok /\ Within(r.path, root)

(* path.Clean of a relative path: "." and "" go, ".." takes its parent. *)
Clean(parts) ==
    FoldLeft(LAMBDA acc, c :
                IF IsDots(c) THEN acc
                ELSE IF c = ".." /\ acc # <<>> /\ Last(acc) # ".." THEN ParentOf(acc)
                ELSE Append(acc, c),
             <<>>, parts)

(* directSnapshotSymlinkTarget: where the link itself points, unresolved. *)
DirectTarget(snap, p) ==
    LET link == snap[p].link
        clean == Clean(ParentOf(p) \o link.parts)
    IN  IF p \notin DOMAIN snap THEN [ok |-> FALSE, path |-> <<>>]
        ELSE IF snap[p].type # "symlink" THEN [ok |-> FALSE, path |-> <<>>]
        ELSE IF link.abs
             THEN [ok |-> AbsoluteTarget(link.parts).ok, path |-> AbsoluteTarget(link.parts).parts]
        ELSE [ok |-> clean = <<>> \/ Head(clean) # "..", path |-> clean]

PointsAt(snap, p, q) == LET d == DirectTarget(snap, p) IN d.ok /\ d.path = q
=============================================================================
