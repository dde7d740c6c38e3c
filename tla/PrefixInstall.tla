---------------------------- MODULE PrefixInstall ----------------------------
(***************************************************************************)
(* Install: the materializer's loop over the install order.  Each turn     *)
(* checks the prefix, lets Homebrew pour one verified bottle, normalises   *)
(* its receipt and accepts the result only if the pour stayed contained    *)
(* (KegContainment) and the keg matches its inventory.  What a pour does   *)
(* to the prefix is the environment's choice: Pour(fs, n) is any set of    *)
(* prefixes, the honest result among them.                                 *)
(***************************************************************************)
EXTENDS KegContainment

CONSTANTS
    InstallOrders,  \* the install orders a resolution record may hold
    BasePrefix,     \* the prefix of the runtime base
    BaseLoader,     \* target of its lib/ld.so link
    Pour(_, _)      \* the prefixes a pour of n may leave (external)

VARIABLES
    fs,         \* the prefix
    before,     \* the snapshot taken before the pour
    index,      \* formulae installed so far
    phase       \* "ready", "pouring", "poured", "normalized", "failed", "complete"

vars == <<order, fs, before, index, phase>>

Current == order[index + 1]
Installed == {order[i] : i \in 1 .. index}

(* snapshotContext fails on special files and on setuid or setgid bits. *)
SnapshotOK(snap) ==
    \A p \in DOMAIN snap : snap[p].type # "special" /\ "setid" \notin snap[p].mode

(* validateNoPrefixBrewEnv *)
BrewEnvOK(snap) ==
    LET d == <<"etc", "homebrew">>
    IN  d \in DOMAIN snap => snap[d].type = "directory" /\ Append(d, "brew.env") \notin DOMAIN snap

(* A path of the sealed repository: nobody but root can change it. *)
Sealed(snap, p, type) ==
    /\ Has(snap, p, type)
    /\ snap[p].mode \cap {"ow", "gw"} = {}
    /\ snap[p].owner = "root"

(* validateProtectedHomebrewRepository: the repository is sealed and the    *)
(* logical brew path leads to it.  The directories on the way to the tap    *)
(* are one, and so are the launchers.                                       *)
RepositoryOK(snap) ==
    /\ Has(snap, <<>>, "directory") /\ snap[<<>>].owner = "root" /\ "gw" \notin snap[<<>>].mode
    /\ \A p \in {<<"Homebrew">>, <<".dalec-homebrew">>, <<"Homebrew", "Formula">>} : Sealed(snap, p, "directory")
    /\ Sealed(snap, <<"Homebrew", "brew">>, "regular") /\ "x" \in snap[<<"Homebrew", "brew">>].mode
    /\ LET logical == <<".dalec-homebrew", "brew">>
       IN  /\ Has(snap, logical, "symlink") /\ snap[logical].owner = "root"
           /\ snap[logical].link = [abs |-> FALSE, parts |-> <<"..", "Homebrew", "brew">>]
           /\ ResolvesTo(snap, logical, <<"Homebrew", "brew">>)

Init ==
    /\ order \in InstallOrders
    /\ fs = BasePrefix
    /\ before = <<>>
    /\ index = 0
    /\ phase = "ready"

Fails ==
    /\ phase' = "failed"
    /\ UNCHANGED <<fs, before, index>>

(* The checks before a pour; the last one looks the loader cache up for     *)
(* classify to compare with.                                                *)
PreinstallChecks(n) ==
    /\ BrewEnvOK(fs) /\ RepositoryOK(fs) /\ SnapshotOK(fs)
    /\ PreinstallOK(fs, BaseLoader)
    /\ ExternalTargetsOK(n, fs)
    /\ LoadersCache \in DOMAIN fs => fs[LoadersCache].type = "regular" /\ fs[LoadersCache].links = 1

Preinstall ==
    /\ phase = "ready" /\ index < Len(order)
    /\ IF PreinstallChecks(Current)
       THEN before' = fs /\ phase' = "pouring" /\ UNCHANGED <<fs, index>>
       ELSE Fails

PourReturns ==
    /\ phase = "pouring"
    /\ fs' \in Pour(fs, Current)
    /\ phase' = "poured"
    /\ UNCHANGED <<before, index>>

PourFails ==
    /\ phase = "pouring"
    /\ Fails

(* normalizeInstalledReceipt replaces the receipt brew wrote by its         *)
(* deterministic form, in place.                                            *)
ReceiptPath == InKeg(Current, Receipt)
ReceiptReadable ==
    /\ Has(fs, ReceiptPath, "regular") /\ fs[ReceiptPath].links = 1
    /\ fs[ReceiptPath].digest \in {"raw-receipt", "receipt"}

Normalize ==
    /\ phase = "poured"
    /\ IF RepositoryOK(fs) /\ BrewEnvOK(fs) /\ ReceiptReadable
       THEN /\ fs' = [fs EXCEPT ![ReceiptPath].digest = "receipt", ![ReceiptPath].inode = ReceiptPath]
            /\ phase' = "normalized"
            /\ UNCHANGED <<before, index>>
       ELSE Fails

(* The prefix still changes 25 ms after the snapshot, or the step times out. *)
Unstable ==
    /\ phase = "normalized"
    /\ Fails

AcceptChecks(n) ==
    /\ SnapshotOK(fs)
    /\ Contained(n, before, fs)
    /\ Reconciled(n, fs)
    /\ InstalledExactly(fs, Installed \cup {n})

Accept ==
    /\ phase = "normalized"
    /\ IF AcceptChecks(Current)
       THEN index' = index + 1 /\ phase' = "ready" /\ UNCHANGED <<fs, before>>
       ELSE Fails

(* verifyClosure *)
Complete ==
    /\ phase = "ready" /\ index = Len(order)
    /\ phase' = IF InstalledExactly(fs, Closure) THEN "complete" ELSE "failed"
    /\ UNCHANGED <<fs, before, index>>

Next ==
    /\ Preinstall \/ PourReturns \/ PourFails \/ Normalize \/ Unstable \/ Accept \/ Complete
    /\ UNCHANGED order

Spec == Init /\ [][Next]_vars

-----------------------------------------------------------------------------
Accepted == phase \in {"ready", "complete"}

(* Every keg installed so far, not only the last one, still holds what its  *)
(* verified bottle declares: no later pour changed a file, its mode or its  *)
(* hard links, or added one.                                                *)
KegsHold ==
    Accepted => \A n \in Installed :
        /\ \A e \in n.inventory :
              LET p == InKeg(n, e.path)
              IN  /\ p \in DOMAIN fs
                  /\ e.type \in {"regular", "hardlink"} /\ ~MayChange(n, e) => fs[p].digest = e.digest
                  /\ e.type # "symlink" => ("x" \in fs[p].mode) = ("x" \in e.mode)
                  /\ e.type # "symlink" => ("gw" \in fs[p].mode => "gw" \in e.mode)
        /\ \A p \in DOMAIN fs : Within(p, Keg(n)) /\ fs[p].type # "directory" =>
              \/ p = InKeg(n, Receipt)
              \/ n.name = "glibc" /\ Within(p, LocaleRoot(n))
              \/ \E e \in n.inventory : p = InKeg(n, e.path)

(* A file of an installed keg shares its inode with no path outside the     *)
(* hard-link group its bottle declared: no writable alias of it exists.     *)
NoForeignAlias ==
    Accepted => \A n \in Installed : \A e \in n.inventory :
        e.type \in {"regular", "hardlink"} =>
            \A q \in DOMAIN fs :
                fs[q].type = "regular" /\ fs[q].inode = fs[InKeg(n, e.path)].inode => q \in HardlinkGroup(n, e)

(* The links a lookup passes, its last component included. *)
RECURSIVE Passed(_, _)
Passed(snap, st) ==
    IF st.outcome # "walking" THEN {} ELSE {Append(st.stack, c) : c \in {Head(st.queue \o <<"">>)}} \cup Passed(snap, Iterate(snap, st))
ThroughPackageState(snap, p) == \E q \in Passed(snap, Lookup(p)) : IsPackageState(q)

(* Every link in the global trees leads into a keg of the closure, into the *)
(* npm copy or to the shared CA file, also after later pours; only          *)
(* Homebrew's own state directory, which each pour may rewrite, can break a *)
(* link that was laid through it.                                           *)
GlobalLinksOwned ==
    Accepted => \A p \in DOMAIN fs :
        InGlobal(p) /\ fs[p].type = "symlink" /\ p \notin DOMAIN BasePrefix /\ ~ThroughPackageState(fs, p) =>
            LET r == Resolve(fs, p)
            IN  /\ r.ok
                /\ \/ \E n \in Installed : Within(r.path, Keg(n))
                   \/ Within(r.path, NpmRoot) \/ r.path = SharedCA

(* Nothing executable appears in the global trees or in Homebrew's state    *)
(* beside the kegs and the npm copy.                                        *)
NoStrayExecutable ==
    Accepted => \A p \in DOMAIN fs :
        fs[p].type = "regular" /\ "x" \in fs[p].mode /\ (InGlobal(p) \/ IsPackageState(p)) =>
            p \in DOMAIN BasePrefix \/ Within(p, NpmRoot)

(* A file that the bottle of n declares at p of its keg: with the bottle's  *)
(* bytes unless relocation or the formula may rewrite it, and with no       *)
(* permission to execute, or for others to write, that the bottle withheld. *)
FromBottle(n, p, entry) ==
    \E e \in InventoryAt(n, p) :
        /\ e.type \in {"regular", "hardlink"}
        /\ MayChange(n, e) \/ e.digest = entry.digest
        /\ entry.mode \ e.mode \subseteq {"ow"}

(* Once Node is installed, and after every later pour, each file of the     *)
(* global npm copy but its npmrc equals the keg's file it was copied from,  *)
(* which is a file of the verified bottle, relocated or not.                *)
NpmFromBottle ==
    Accepted => \A n \in Installed : "generated-node-npm" \in n.rules =>
        \A p \in DOMAIN fs : Within(p, NpmRoot) /\ fs[p].type = "regular" /\ p # Npmrc =>
            LET src == NpmSource \o Below(p, NpmRoot)
            IN  /\ Has(fs, InKeg(n, src), "regular")
                /\ fs[p].digest = fs[InKeg(n, src)].digest /\ fs[p].mode = fs[InKeg(n, src)].mode
                /\ FromBottle(n, src, fs[p])

(* Every module the accepted loader cache registers leads to a loader that  *)
(* the verified bottle of an installed formula declares (or to glibc's      *)
(* generated data, which reconciliation does not compare), others cannot    *)
(* write it, and no loader link is left unregistered.                       *)
LoadersFromBottles ==
    Accepted /\ LoadersCache \in DOMAIN fs =>
        /\ Registered(fs) = LoaderLinks(fs)
        /\ \A m \in Registered(fs) :
              LET r == Resolve(fs, m)
              IN  /\ r.ok /\ r.path[Len(r.path)] = m[Len(m)] /\ "gw" \notin fs[r.path].mode
                  /\ \E n \in Installed :
                        /\ Within(r.path, Keg(n))
                        /\ \/ FromBottle(n, Below(r.path, Keg(n)), fs[r.path])
                           \/ r.path \in LocalePaths(n, fs)

(* The data that kegs share stays as it was accepted: the MIME database     *)
(* holds only outputs of update-mime-database beside its verified source,   *)
(* and every certifi link reaches a protected CA file.                      *)
SharedDataSound ==
    Accepted =>
        /\ \A p \in DOMAIN fs : Within(p, MimeRoot) /\ fs[p].type # "directory" =>
              \/ p = MimeSource /\ \E n \in Installed : MatchesBottle(n, fs, p)
              \/ MimeOutputPath(p) /\ PlainData(fs[p])
        /\ \A n \in Installed : \A e \in n.inventory : e.external = SharedCA =>
              ResolvesTo(fs, InKeg(n, e.path), SharedCA) /\ PlainData(fs[SharedCA])

(* The names that reach a file before the pour: every path, and every path  *)
(* below a link to a directory.                                             *)
NamesOf(snap) ==
    LET links == {g \in DOMAIN snap : snap[g].type = "symlink" /\ Resolve(snap, g).ok}
        Through(g) == LET d == Resolve(snap, g).path
                      IN  {g \o Below(c, d) : c \in {c \in DOMAIN snap : Within(c, d)}}
    IN  DOMAIN snap \cup UNION {Through(g) : g \in links}

(* An accepted install does not change what any name already reached: a     *)
(* path that led to a file before leads to the same file, unchanged, after, *)
(* also where a shared directory was expanded.  Exceptions are Homebrew's   *)
(* state, the runtime loader link and the regenerated loader cache.         *)
NamesKeepMeaning ==
    [][index' = index + 1 =>
         \A p \in NamesOf(before) :
            LET r == Resolve(before, p)
            IN  \/ p \in {LoaderLink, LoadersCache} \/ ThroughPackageState(before, p)
                \/ ~r.ok \/ before[r.path].type = "directory"
                \/ /\ ResolvesTo(fs, p, r.path)
                   /\ fs[r.path].digest = before[r.path].digest
                   /\ fs[r.path].mode = before[r.path].mode]_vars
=============================================================================
