---------------------------- MODULE RuleNormalize ----------------------------
(***************************************************************************)
(* The runtime allowlist: its path rules are brought to one form, checked  *)
(* for overlaps and digested.  The digest is put into the resolution       *)
(* record when it is written (PolicyDigest) and compared when the runtime  *)
(* is assembled (normalizeOptions), from options that may list and spell   *)
(* the same rules in another way.  A path is a sequence of numbered names, *)
(* compared in the order of the names; DotDot is "..".  The rules are the  *)
(* ones below var, with the profile: those below etc take the same way,    *)
(* and they, the owner rules, the other prefixes an option may name and    *)
(* the roots of Python's own tests are left out.                           *)
(***************************************************************************)
EXTENDS Integers, Sequences, FiniteSets, SequencesExt

CONSTANTS VarRoot,      \* the name "var"
          Packages,     \* the packages of the resolution
          RuleLists,    \* lists of rules the options may start with
          Forms,        \* ways to spell a path: "absolute", "rooted", "bare", "dotted"
          Profile,      \* MinimalV1RuntimePruneRules, a sorted list
          MaxRules

VARIABLES rules,        \* Allowlist.Var, as the options spell it
          profileRules, \* Allowlist.PruningRules
          writable,     \* record.Runtime.WritablePaths
          recorded      \* record.PruningPolicyDigest

vars == <<rules, profileRules, writable, recorded>>

DotDot == 0
NoPath == <<>>
Refused == [ok |-> FALSE, rules |-> <<>>, profile |-> <<>>]

(* path.Clean on names: a ".." takes the name before it away.               *)
RECURSIVE CleanNames(_, _)
CleanNames(done, s) ==
    IF s = <<>> THEN done
    ELSE IF Head(s) = DotDot /\ done # <<>> /\ Last(done) # DotDot THEN CleanNames(Front(done), Tail(s))
    ELSE CleanNames(Append(done, Head(s)), Tail(s))

(* What a rule's text says: the names after the install prefix and whether  *)
(* that prefix was there.                                                   *)
Spelled(path, form) ==
    [absolute |-> form = "absolute",
     names |-> CASE form = "bare" /\ Len(path) > 1 -> Tail(path)
                 [] form = "dotted" -> <<VarRoot, 9, DotDot>> \o Tail(path)
                 [] OTHER -> path]

Mentions(names) == names # <<>> /\ Head(names) = VarRoot

NormalizeRulePath(text) ==
    IF text.names = <<>> THEN NoPath
    ELSE LET clean == CleanNames(<<>>, IF text.absolute \/ Mentions(text.names) THEN text.names
                                        ELSE <<VarRoot>> \o text.names)
         IN  IF clean = <<>> \/ Head(clean) = DotDot THEN NoPath ELSE clean

IsWithinPath(p, r) == IsPrefix(r, p)

Normal(rule) == [path |-> NormalizeRulePath(rule.text), package |-> rule.package,
                 writable |-> rule.writable, required |-> rule.required]

RuleOK(rule) ==
    LET p == NormalizeRulePath(rule.text)
    IN  Mentions(p) /\ rule.package \in Packages

(* Only the first of equal rules is kept.                                   *)
Deduplicated(list) ==
    LET first == {i \in DOMAIN list : \A j \in 1..(i - 1) : Normal(list[j]) # Normal(list[i])}
    IN  [k \in 1..Cardinality(first) |->
            Normal(list[CHOOSE i \in first : Cardinality({j \in first : j <= i}) = k])]

Conflicts(list) == \E i, j \in DOMAIN list : Normal(list[i]).path = Normal(list[j]).path /\ Normal(list[i]) # Normal(list[j])

RECURSIVE LessNames(_, _)
LessNames(p, q) ==
    /\ q # <<>>
    /\ \/ p = <<>>
       \/ p # <<>> /\ Head(p) < Head(q)
       \/ p # <<>> /\ Head(p) = Head(q) /\ LessNames(Tail(p), Tail(q))

(* sortRules: equal paths are equal rules by now, so the path decides.      *)
SortRules(list) ==
    [k \in DOMAIN list |->
        list[CHOOSE i \in DOMAIN list :
            Cardinality({j \in DOMAIN list : LessNames(list[j].path, list[i].path) \/ (list[j].path = list[i].path /\ j < i)}) = k - 1]]

Overlaps(list) ==
    \E i, j \in DOMAIN list :
        /\ i < j /\ IsWithinPath(list[j].path, list[i].path)
        /\ list[i].package # list[j].package \/ list[i].writable # list[j].writable

NormalizeRules(list) ==
    IF (\E i \in DOMAIN list : ~RuleOK(list[i])) \/ Conflicts(list) THEN Refused
    ELSE LET sorted == SortRules(Deduplicated(list)) IN IF Overlaps(sorted) THEN Refused ELSE [ok |-> TRUE, rules |-> sorted, profile |-> <<>>]

(* The profile's list must be the profile's rules, in any order.            *)
NormalizeProfile(list) ==
    LET sorted == SortSeq(list, <) IN IF sorted = Profile THEN sorted ELSE <<>>

Digest(list, profile) ==
    LET r == NormalizeRules(list) p == NormalizeProfile(profile)
    IN  IF ~r.ok \/ p = <<>> THEN Refused ELSE [r EXCEPT !.profile = p]

(* Mutant: the digest is taken of the rules in the order they are listed.   *)
PolicyDigestAsListed(list, profile) ==
    LET own == Digest(list, profile) IN IF own.ok THEN [own EXCEPT !.rules = Deduplicated(list)] ELSE own

PolicyDigest(list, profile) == Digest(list, profile)

(* normalizeOptions accepts when the rules are well-formed, the writable    *)
(* ones are the record's writable paths, and the record's digest agrees.    *)
NormalizeOptions(list, profile, paths, digest) ==
    LET own == Digest(list, profile)
        approved == {r.path : r \in {r \in ToSet(own.rules) : r.writable}}
    IN  own.ok /\ paths = approved /\ own = digest

(* The record: its writable paths are those of the rules it was made from.  *)
WritablePaths(list) == {Normal(list[i]).path : i \in {i \in DOMAIN list : list[i].writable}}

Init ==
    /\ rules \in RuleLists
    /\ profileRules = Profile
    /\ recorded = PolicyDigest(rules, profileRules)
    /\ writable = WritablePaths(rules)

(* The options are written again: same rules, other order, other spelling.  *)
Swap(i) ==
    /\ i + 1 \in DOMAIN rules
    /\ rules' = [rules EXCEPT ![i] = rules[i + 1], ![i + 1] = rules[i]]
    /\ UNCHANGED <<profileRules, writable, recorded>>

Repeat(i) ==
    /\ Len(rules) < MaxRules
    /\ rules' = Append(rules, rules[i])
    /\ UNCHANGED <<profileRules, writable, recorded>>

Respell(i, form) ==
    /\ Mentions(rules[i].path)
    /\ rules' = [rules EXCEPT ![i].text = Spelled(rules[i].path, form)]
    /\ UNCHANGED <<profileRules, writable, recorded>>

SwapProfile ==
    /\ profileRules' = Reverse(profileRules)
    /\ UNCHANGED <<rules, writable, recorded>>

Next == (\E i \in DOMAIN rules : Swap(i) \/ Repeat(i) \/ (\E form \in Forms : Respell(i, form))) \/ SwapProfile

Spec == Init /\ [][Next]_vars

-----------------------------------------------------------------------------
(* A record written with PolicyDigest is accepted by the assembly however   *)
(* the options list, repeat or spell the same rules afterwards, and a       *)
(* refused policy stays refused: the digest depends on the rules' meaning.  *)
RecordedIsAccepted == recorded.ok = NormalizeOptions(rules, profileRules, writable, recorded)

(* In an accepted policy a path has one owner: all rules that contain it    *)
(* name one package and agree on writing, so the longest match, whichever   *)
(* rule it is, decides nothing but the "required" flag.                     *)
OneOwner ==
    NormalizeOptions(rules, profileRules, writable, recorded) =>
        \A i, j \in DOMAIN rules :
            LET inside(a, b) == SubSeq(rules[a].path, 1, Len(rules[b].path)) = rules[b].path
            IN  Len(rules[i].path) >= Len(rules[j].path) /\ inside(i, j)
                  => rules[i].package = rules[j].package /\ rules[i].writable = rules[j].writable
===============================================================================
