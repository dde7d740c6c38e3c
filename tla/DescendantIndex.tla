--------------------------- MODULE DescendantIndex ---------------------------
(***************************************************************************)
(* descendantPathIndex: hands out, for one directory after another, the    *)
(* indexed paths below it, each path at most once however the directories  *)
(* overlap.  A path is its bytes, because the index finds a subtree as an  *)
(* interval of the byte order: "/" is 47 and "0", right after it, is 48.   *)
(***************************************************************************)
EXTENDS ByteOrder, FiniteSets

CONSTANTS Universe,  \* the paths that may be indexed
          Calls      \* how many directories are asked for

VARIABLES paths,     \* the index: paths in byte order
          next,      \* position -> a position at or after it, itself when not handed out
          ranges,    \* directory -> its interval, once computed
          root,      \* the directory asked for, <<>> between calls
          from,      \* the position the next search starts at
          given,     \* everything handed out before this call
          out,       \* handed out in this call
          calls

vars == <<paths, next, ranges, root, from, given, out, calls>>

(* slices.BinarySearch: the first position not below x. *)
Search(x) == Cardinality({i \in DOMAIN paths : Less(paths[i], x)}) + 1

Init ==
    /\ \E s \in SUBSET Universe : paths = SortedPaths(s)
    /\ next = [i \in 1..(Len(paths) + 1) |-> i]
    /\ ranges = <<>> /\ root = <<>> /\ from = 1 /\ given = {} /\ out = {} /\ calls = 0

(* Mutant: the interval runs to the end of the names that start like root. *)
RangeOfNamePrefix(r) == [start |-> Search(r \o <<Slash>>), end |-> Search(r \o <<127>>)]

Range(r) == [start |-> Search(r \o <<Slash>>), end |-> Search(r \o <<Zero>>)]

Ask(r) ==
    /\ root = <<>> /\ calls < Calls
    /\ ranges' = [x \in DOMAIN ranges \cup {r} |-> IF x \in DOMAIN ranges THEN ranges[x] ELSE Range(r)]
    /\ root' = r /\ from' = ranges'[r].start
    /\ given' = given \cup out /\ out' = {}
    /\ calls' = calls + 1
    /\ UNCHANGED <<paths, next>>

(* nextUnconsumed: the representative of a position, and the chain to it    *)
(* shortened.                                                               *)
RECURSIVE Representative(_, _)
Representative(n, i) == IF n[i] = i THEN i ELSE Representative(n, n[i])
RECURSIVE Chain(_, _)
Chain(n, i) == IF n[i] = i THEN {} ELSE {i} \cup Chain(n, n[i])

Compressed(n, i) == [j \in DOMAIN n |-> IF j \in Chain(n, i) THEN Representative(n, i) ELSE n[j]]

Deliver ==
    /\ root # <<>>
    /\ LET at == Representative(next, from)
           n == Compressed(next, from)
       IN  IF at < ranges[root].end
           THEN /\ next' = [Compressed(n, at + 1) EXCEPT ![at] = Representative(n, at + 1)]
                /\ out' = out \cup {paths[at]}
                /\ from' = at
                /\ UNCHANGED <<paths, ranges, root, given, calls>>
           ELSE /\ next' = n
                /\ root' = <<>> /\ from' = 1
                /\ UNCHANGED <<paths, ranges, given, out, calls>>

Next == (\E r \in Universe : Ask(r)) \/ Deliver
Spec == Init /\ [][Next]_vars

-----------------------------------------------------------------------------
(* A finished call has handed out exactly the indexed paths below its       *)
(* directory that no earlier call handed out: neighbours in byte order such *)
(* as "a-" and "a0" are never taken for children of "a".                    *)
GivesTheRest ==
    [][root # <<>> /\ root' = <<>> =>
         out = {paths[i] : i \in {i \in DOMAIN paths : Below(paths[i], root)}} \ given]_vars

(* A path is handed out once, and every shortened chain still leads to the  *)
(* first position that was not handed out.                                  *)
ChainsLeadOn ==
    \A i \in DOMAIN next :
        LET free == {j \in DOMAIN next : j >= i /\ (j \in DOMAIN paths => paths[j] \notin given \cup out)}
        IN  Representative(next, i) \in free /\ \A j \in free : Representative(next, i) <= j
===============================================================================
