--------------------------- MODULE MetadataBundle ---------------------------
(***************************************************************************)
(* Homebrew's signed metadata, from the two endpoints that serve it to the *)
(* build that uses it.  The formula and the migration document are         *)
(* published, dated and fetched one after the other.  The release captures *)
(* the pair once, writes it to a directory of three files and binds the    *)
(* manifest's digest; a release-bound frontend later loads the pair from a *)
(* directory its caller supplies, and any other frontend fetches it.  Each *)
(* member has a signed date or, without one, the date of the response.     *)
(* Times are small numbers and every bound is a constant.                  *)
(***************************************************************************)
EXTENDS Naturals, FiniteSets

CONSTANTS MaxAge, Skew, \* the freshness policy's two bounds
          Floors,       \* rollback floors a caller may set, 0 for none
          Stamps,       \* how documents are dated: [signed, header], where
                        \* signed is None or how far ahead the signer's clock is
          MaxNow, MaxGen, MaxCaptures,
          None

VARIABLES now,
          served,   \* what each endpoint answers: a document and a Last-Modified
          writer,   \* the process that captures the pair and writes it
          dir,      \* its output directory and the digest file beside it
          released, \* the bundles released so far
          reader    \* one frontend invocation

vars == <<now, served, writer, dir, released, reader>>

(* Bounds, floors and clocks that are ahead are natural numbers.           *)
ClockSound ==
  /\ MaxAge \in Nat /\ Skew \in Nat /\ Floors \subseteq Nat
  /\ \A stamp \in Stamps : stamp.signed # None => stamp.signed \in Nat

Kinds == {"formula", "migrations"}
Files == Kinds \cup {"manifest", "digest"}

Idle == [stage |-> "idle", got |-> [k \in Kinds |-> None], bundle |-> None,
         step |-> 0, captures |-> 0]

NoDir == [there |-> FALSE, files |-> [f \in Files |-> None], torn |-> {}]

Init ==
  /\ now = 2
  /\ served = [k \in Kinds |-> [data |-> [kind |-> k, gen |-> 1, date |-> None,
                                          genuine |-> TRUE], at |-> 2]]
  /\ writer = Idle /\ dir = NoDir /\ released = {}
  /\ reader = [stage |-> "idle", got |-> [k \in Kinds |-> None], floor |-> 0,
               bound |-> None, context |-> None, snapshot |-> None]

-----------------------------------------------------------------------------
(* Freshness and snapshots. *)

\* A response: the served document, or one damaged on its way.
Answers(k) == {served[k], [served[k] EXCEPT !.data.genuine = FALSE]}

chooseGeneratedAt(s) == IF s.data.date # None THEN s.data.date ELSE s.at

ValidateGeneratedAt(d, t, floor) ==
  /\ d # None
  /\ d <= t + Skew
  /\ d >= floor
  /\ d + MaxAge >= t

MembersFresh(f, m, t, floor) ==
  \A s \in {f, m} : ValidateGeneratedAt(chooseGeneratedAt(s), t, floor)

\* Mutant: the pair is dated by its newer member.
SnapshotDateNewest(f, m) ==
  LET fd == chooseGeneratedAt(f)
      md == chooseGeneratedAt(m)
  IN  IF md > fd THEN md ELSE fd

SnapshotDate(f, m) ==
  LET fd == chooseGeneratedAt(f)
      md == chooseGeneratedAt(m)
  IN  IF md < fd THEN md ELSE fd

\* The snapshot, or None when either member is refused.
LoadSnapshot(f, m, t, floor) ==
  IF f.data.genuine /\ m.data.genuine /\ MembersFresh(f, m, t, floor)
  THEN [formula |-> f.data, migrations |-> m.data,
        dates |-> [formula |-> chooseGeneratedAt(f),
                   migrations |-> chooseGeneratedAt(m)],
        generatedAt |-> SnapshotDate(f, m), fetchedAt |-> t]
  ELSE None

-----------------------------------------------------------------------------
(* The bundle.  A digest stands for the very content it is the digest of.  *)

\* Documents of two generations may well have one size.
Size(data) == 1 + (data.gen \div 3)

bundleDocument(s) ==
  [at |-> chooseGeneratedAt(s), size |-> Size(s.data), digest |-> s.data]

CanonicalManifest(got) == [k \in Kinds |-> bundleDocument(got[k])]

validateBundleManifest(manifest) == \A k \in Kinds : manifest[k].at # None

validateBundleContent(member, data) ==
  member.size = Size(data) /\ member.digest = data

LoadBundleBytes(manifest, formula, migrations, t, floor) ==
  IF /\ validateBundleManifest(manifest)
     /\ validateBundleContent(manifest.formula, formula)
     /\ validateBundleContent(manifest.migrations, migrations)
  THEN LoadSnapshot([data |-> formula, at |-> manifest.formula.at],
                    [data |-> migrations, at |-> manifest.migrations.at], t, floor)
  ELSE None

-----------------------------------------------------------------------------
(* The capturing process.  It shares with the frontend only the released   *)
(* bundles and the endpoints, so the frontend's steps follow its own.      *)

CaptureFormula ==
  /\ writer.stage = "idle" /\ writer.captures < MaxCaptures
  /\ reader.stage = "idle"
  /\ \E s \in Answers("formula") :
       writer' = [writer EXCEPT !.stage = "migrations", !.got["formula"] = s,
                                !.captures = @ + 1]
  /\ UNCHANGED <<now, served, dir, released, reader>>

CaptureMigrations ==
  /\ writer.stage = "migrations"
  /\ \E s \in Answers("migrations") :
       writer' = [writer EXCEPT !.stage = "load", !.got["migrations"] = s]
  /\ UNCHANGED <<now, served, dir, released, reader>>

CaptureBundle ==
  /\ writer.stage = "load"
  /\ LET got == writer.got
         snapshot == LoadSnapshot(got["formula"], got["migrations"], now, 0)
         manifest == CanonicalManifest(got)
     IN  IF snapshot # None /\ validateBundleManifest(manifest)
         THEN writer' = [Idle EXCEPT !.stage = "mkdir", !.captures = writer.captures,
                           !.bundle = [manifest |-> manifest,
                                       formula |-> got["formula"].data,
                                       migrations |-> got["migrations"].data,
                                       snapshot |-> snapshot]]
         ELSE writer' = [writer EXCEPT !.stage = "refused"]
  /\ UNCHANGED <<now, served, dir, released, reader>>

\* An output directory that exists is never reused.
Mkdir ==
  /\ writer.stage = "mkdir"
  /\ IF dir.there
     THEN writer' = [writer EXCEPT !.stage = "failed"] /\ UNCHANGED dir
     ELSE /\ writer' = [writer EXCEPT !.stage = "write", !.step = 1]
          /\ dir' = [dir EXCEPT !.there = TRUE]
  /\ UNCHANGED <<now, served, released, reader>>

WriteOrder == <<"formula", "migrations", "manifest", "digest">>

Content(file) ==
  CASE file \in Kinds -> writer.bundle[file]
    [] OTHER -> writer.bundle.manifest

\* Exclusive creation: a file that is there already fails the write.
WriteFile ==
  /\ writer.stage = "write"
  /\ LET file == WriteOrder[writer.step]
     IN  /\ dir.files[file] = None
         /\ dir' = [dir EXCEPT !.files[file] = Content(file)]
  /\ writer' = IF writer.step = 4 THEN [writer EXCEPT !.stage = "done"]
                                  ELSE [writer EXCEPT !.step = @ + 1]
  /\ UNCHANGED <<now, served, released, reader>>

Cleanup == NoDir

\* A failed write removes what the run created, last first, then the
\* directory; that these removals succeed is assumed.
WriteFails ==
  /\ writer.stage = "write"
  /\ writer' = [writer EXCEPT !.stage = "failed"]
  /\ dir' = Cleanup
  /\ UNCHANGED <<now, served, released, reader>>

\* The process is killed; the file being written may be left torn.
Kill ==
  /\ writer.stage \in {"mkdir", "write"}
  /\ writer' = [writer EXCEPT !.stage = "killed"]
  /\ \/ UNCHANGED dir
     \/ /\ writer.stage = "write"
        /\ LET file == WriteOrder[writer.step]
           IN  dir' = [dir EXCEPT !.files[file] = Content(file), !.torn = {file}]
  /\ UNCHANGED <<now, served, released, reader>>

\* The release job reads the digest a successful run wrote and binds it.
Release ==
  /\ writer.stage = "done" /\ dir.files["digest"] # None
  /\ released' = released \cup {writer.bundle}
  /\ writer' = [Idle EXCEPT !.captures = writer.captures]
  /\ dir' = NoDir
  /\ UNCHANGED <<now, served, reader>>

\* The job is run again, in a fresh workspace or over what is left there.
Again ==
  /\ writer.stage \in {"refused", "failed", "killed"}
  /\ writer' = [Idle EXCEPT !.captures = writer.captures]
  /\ dir' \in {dir, NoDir}
  /\ UNCHANGED <<now, served, released, reader>>

-----------------------------------------------------------------------------
(* The frontend. *)

Start ==
  /\ reader.stage = "idle" /\ writer.stage = "idle"
  /\ \E floor \in Floors, b \in released \cup {None} :
       reader' = [reader EXCEPT !.floor = floor, !.bound = b,
                    !.stage = IF b = None THEN "formula" ELSE "bundle"]
  /\ UNCHANGED <<now, served, writer, dir, released>>

FetchFormula ==
  /\ reader.stage = "formula"
  /\ \E s \in Answers("formula") :
       reader' = [reader EXCEPT !.stage = "migrations", !.got["formula"] = s]
  /\ UNCHANGED <<now, served, writer, dir, released>>

FetchMigrations ==
  /\ reader.stage = "migrations"
  /\ \E s \in Answers("migrations") :
       reader' = [reader EXCEPT !.stage = "load", !.got["migrations"] = s]
  /\ UNCHANGED <<now, served, writer, dir, released>>

Loaded(snapshot) ==
  [reader EXCEPT !.snapshot = snapshot, !.got = [k \in Kinds |-> None],
                 !.stage = IF snapshot = None THEN "refused" ELSE "loaded"]

LoadFetched ==
  /\ reader.stage = "load"
  /\ reader' = Loaded(LoadSnapshot(reader.got["formula"], reader.got["migrations"],
                                   now, reader.floor))
  /\ UNCHANGED <<now, served, writer, dir, released>>

\* The caller's directory may hold files of different releases; the manifest
\* must be the one the release binds.
LoadBundle ==
  /\ reader.stage = "bundle"
  /\ \E a, b, c \in released :
       LET context == [manifest |-> a.manifest, formula |-> b.formula,
                       migrations |-> c.migrations]
           snapshot == IF context.manifest = reader.bound.manifest
                       THEN LoadBundleBytes(context.manifest, context.formula,
                                            context.migrations, now, reader.floor)
                       ELSE None
       IN  reader' = [Loaded(snapshot) EXCEPT !.context = context]
  /\ UNCHANGED <<now, served, writer, dir, released>>

\* The dates a V2 record must have: the core source's sequence is its date.
RecordTimesOK(snapshot, resolvedAt, floor) ==
  /\ snapshot.fetchedAt >= snapshot.generatedAt
  /\ resolvedAt >= snapshot.fetchedAt
  /\ floor <= snapshot.generatedAt

Resolve ==
  /\ reader.stage = "loaded"
  /\ reader' = [reader EXCEPT !.stage =
                  IF RecordTimesOK(reader.snapshot, now, reader.floor)
                  THEN "resolved" ELSE "unresolved"]
  /\ UNCHANGED <<now, served, writer, dir, released>>

-----------------------------------------------------------------------------
(* The publisher and the clock. *)

\* A document is published with or without a signed date and a Last-Modified,
\* by a clock that may be ahead.
Publish(k) ==
  /\ served[k].data.gen < MaxGen
  /\ \E stamp \in Stamps :
       served' = [served EXCEPT ![k] =
                    [data |-> [kind |-> k, gen |-> @.data.gen + 1, genuine |-> TRUE,
                               date |-> IF stamp.signed = None THEN None
                                        ELSE now + stamp.signed],
                     at |-> IF stamp.header THEN now ELSE None]]
  /\ UNCHANGED <<now, writer, dir, released, reader>>

Tick ==
  /\ now < MaxNow
  /\ now' = now + 1
  /\ UNCHANGED <<served, writer, dir, released, reader>>

Next ==
  \/ CaptureFormula \/ CaptureMigrations \/ CaptureBundle \/ Mkdir \/ WriteFile
  \/ WriteFails \/ Kill \/ Release \/ Again
  \/ Start \/ FetchFormula \/ FetchMigrations \/ LoadFetched \/ LoadBundle \/ Resolve
  \/ \E k \in Kinds : Publish(k)
  \/ Tick

Spec == Init /\ [][Next]_vars

-----------------------------------------------------------------------------
(* Properties. *)

(* A frontend that loads the bundle its release binds gets the very snapshot *)
(* the release captured, dates included, however the caller put the          *)
(* directory together.                                                       *)
LoadedIsCaptured ==
  reader.snapshot # None /\ reader.bound # None =>
    /\ reader.snapshot.formula = reader.bound.snapshot.formula
    /\ reader.snapshot.migrations = reader.bound.snapshot.migrations
    /\ reader.snapshot.dates = reader.bound.snapshot.dates

(* Neither member of a snapshot in use was older than the rollback floor or  *)
(* the maximum age when it was loaded, and a signed date is never replaced   *)
(* by the transport's.                                                       *)
MembersInWindow ==
  reader.snapshot # None =>
    LET s == reader.snapshot
    IN  \A k \in Kinds :
          /\ s.dates[k] >= reader.floor
          /\ s.dates[k] + MaxAge >= s.fetchedAt
          /\ s[k].date # None => s.dates[k] = s[k].date

(* A capture of two genuine documents that have a date each, signed or of    *)
(* the response, and are not stale is not refused: the clocks of the         *)
(* publishers are ahead by at most the tolerated skew.  Nor is a released   *)
(* bundle by a frontend that is given its own three files, while fresh.      *)
HonestCaptured ==
  LET Dated(s) == IF s.data.date # None THEN s.data.date ELSE s.at
      Good(k) == /\ writer.got[k].data.genuine
                 /\ Dated(writer.got[k]) # None
                 /\ Dated(writer.got[k]) + MaxAge >= now
  IN  /\ writer.stage = "refused" => ~(Good("formula") /\ Good("migrations"))
      /\ reader.stage = "refused" /\ reader.context # None /\ reader.floor = 0
           => \/ reader.context.manifest # reader.bound.manifest
              \/ \E k \in Kinds : \/ reader.context[k] # reader.bound[k]
                                  \/ reader.bound.snapshot.dates[k] + MaxAge < now

(* The digest file is there only beside the whole bundle it is the digest    *)
(* of: a release job that finds it may bind it, whatever killed the run.     *)
DigestVouches ==
  dir.files["digest"] # None =>
    /\ dir.there /\ dir.torn \subseteq {"digest"}
    /\ dir.files["manifest"] = dir.files["digest"]
    /\ \A k \in Kinds : dir.files[k] = dir.files["digest"][k].digest

(* A run that reports a failed write, and no failed removal, has left        *)
(* nothing where it wrote.                                                   *)
FailedRunLeavesNothing ==
  [][writer.stage = "write" /\ writer'.stage = "failed" => dir' = NoDir]_vars

(* A snapshot whose older member is not dated after it was fetched has dates *)
(* the V2 record accepts.                                                    *)
SnapshotRecordable ==
  reader.stage = "unresolved" =>
    \A k \in Kinds : reader.snapshot.dates[k] > reader.snapshot.fetchedAt

(* What a frontend loads is what was captured, in its window, vouched for   *)
(* by a digest that was written last, and can be recorded.                  *)
SnapshotSound ==
  LoadedIsCaptured /\ MembersInWindow /\ DigestVouches /\ SnapshotRecordable
=============================================================================
