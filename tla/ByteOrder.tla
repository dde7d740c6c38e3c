------------------------------ MODULE ByteOrder ------------------------------
(* Paths as their bytes, in the order of strings.Compare: "-" (45) sorts     *)
(* before "/" (47), so a sibling may sort between a directory and its tree.  *)
EXTENDS Integers, Sequences

Slash == 47
Zero == 48

RECURSIVE Less(_, _)
Less(p, q) ==
    /\ q # <<>>
    /\ \/ p = <<>>
       \/ p # <<>> /\ Head(p) < Head(q)
       \/ p # <<>> /\ Head(p) = Head(q) /\ Less(Tail(p), Tail(q))

RECURSIVE SortedPaths(_)
SortedPaths(s) ==
    IF s = {} THEN <<>>
    ELSE LET p == CHOOSE p \in s : \A q \in s \ {p} : Less(p, q) IN <<p>> \o SortedPaths(s \ {p})

Below(p, r) == Len(p) > Len(r) + 1 /\ SubSeq(p, 1, Len(r) + 1) = r \o <<Slash>>

IsWithin(p, r) == p = r \/ Below(p, r)
===============================================================================
