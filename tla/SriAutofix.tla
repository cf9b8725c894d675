----------------------------- MODULE SriAutofix -----------------------------
(***************************************************************************)
(* check_sri_versions (internal/sri).  A check scans the pages for the CDN *)
(* packages they use, reads the theme's version file and the site's hash   *)
(* file, asks the registry for the latest versions, and reports.  With     *)
(* auto_fix it then rewrites both files in place, rebuilds the site, puts  *)
(* the old contents back when a write or the build fails, and checks once  *)
(* more.  Nothing locks the files: checks interleave, os.WriteFile empties *)
(* a file before it fills it, and the process may crash anywhere.          *)
(***************************************************************************)
EXTENDS Naturals

CONSTANTS Checkers, Packages,
          Versions,          \* pairs <<major, minor>>
          Setups,            \* sites and what may happen to them: see SetupOf
          None               \* a page that does not use the package

Switches == {"outages", "writesFail", "buildsFail", "rebuilds"}

(* installed: package |-> version the site starts with.  latest: versions the *)
(* registry may name at the start.  clients: the checkers that are used.      *)
(* happens: the faults that occur.  crashes, releases: bounds.                *)
SetupOf(site) ==
    [installed : {site.installed}, latest : SUBSET Versions, happens : SUBSET Switches,
     clients : SUBSET Checkers, crashes : Nat, releases : Nat]

ASSUME SriAssumption ==
    /\ Versions \subseteq Nat \X Nat
    /\ \A s \in Setups : /\ s \in SetupOf(s)
                          /\ DOMAIN s.installed \subseteq Packages
                          /\ s.installed \in [DOMAIN s.installed -> Versions]

VARIABLES
    setup,    \* the site, and what may happen to it
    cdn,      \* the version file: package |-> version; empty when truncated
    sri,      \* the hash file: <<package, version>> |-> hash, or empty
    public,   \* the built pages: the version of each package they load
    latest,   \* what the registry names as latest
    run,      \* each check's place and local variables
    crashes, releases  \* counters of the bounds

bounds == <<setup, crashes, releases>>
vars == <<cdn, sri, public, latest, run, bounds>>

Urls   == Packages \X Versions
Hashes == {"good", "bad"}   \* "good": the hash of what the CDN serves there
Empty  == <<>>
PCs    == {"idle", "readCdn", "readSri", "origCdn", "origSri", "fetch", "cdn",
           "sri", "build", "undoCdn", "undoSri", "rescan", "done"}

Idle == [pc |-> "idle", autofix |-> FALSE, post |-> FALSE,
         active |-> [p \in Packages |-> None], seenCdn |-> Empty, seenSri |-> Empty,
         cands |-> {}, origCdn |-> Empty, origSri |-> Empty,
         open |-> FALSE, undoBoth |-> FALSE, fixed |-> FALSE,
         other |-> FALSE, alarm |-> FALSE]

Installed  == setup.installed
Happens(f) == f \in setup.happens

Init ==
    /\ setup \in Setups
    /\ cdn = Installed
    /\ public = [p \in Packages |-> IF p \in DOMAIN Installed THEN Installed[p] ELSE None]
    /\ sri \in [{<<p, Installed[p]>> : p \in DOMAIN Installed} -> Hashes]
    /\ latest \in [DOMAIN Installed -> setup.latest]
    /\ run = [c \in Checkers |-> Idle]
    /\ crashes = 0 /\ releases = 0

-----------------------------------------------------------------------------
(* Versions *)

Older(v, w) == v[1] < w[1] \/ (v[1] = w[1] /\ v[2] < w[2])

\* Mutant of SameMajor: every newer version will do.
AnyMajor(v, w) == TRUE

SameMajor(v, w) == v[1] = w[1]

\* Mutant of Outdated: a version ahead of the registry is "fixed" as well.
Differs(v, w) == v # w

Outdated(v, w) == Older(v, w)

(* Evaluation.  r is a check's record, down the packages whose requests fail. *)

Used(r) == {p \in DOMAIN r.seenCdn : r.active[p] # None}

Behind(r, down) == {p \in Used(r) \ down : Outdated(r.seenCdn[p], latest[p])}

Candidates(r, down) ==
    {[pkg |-> p, old |-> r.seenCdn[p], new |-> latest[p]] :
        p \in {p \in Behind(r, down) : SameMajor(r.seenCdn[p], latest[p])}}

MajorOutdated(r, down) ==
    \E p \in Behind(r, down) : ~SameMajor(r.seenCdn[p], latest[p])

HashMismatch(r, down) ==
    \E u \in DOMAIN r.seenSri : u[1] \notin down /\ r.seenSri[u] # "good"

FetchFails(r, down) ==
    down \cap (Used(r) \cup {u[1] : u \in DOMAIN r.seenSri}) # {}

\* Mutant of MissingEntry: only a package without any entry is missed.
MissingPackage(r) ==
    \E p \in Packages : /\ r.active[p] # None
                        /\ \A u \in DOMAIN r.seenSri : u[1] # p

MissingEntry(r) ==
    \E p \in Packages : r.active[p] # None /\ <<p, r.active[p]>> \notin DOMAIN r.seenSri

Outages == IF Happens("outages") THEN SUBSET Packages ELSE {{}}

(* What the autofix writes *)

NewVersion(r, p, v) ==
    LET hits == {k \in r.cands : k.pkg = p /\ k.old = v}
    IN  IF hits = {} THEN v ELSE (CHOOSE k \in hits : TRUE).new

FixedCdn(r) == [p \in DOMAIN r.origCdn |-> NewVersion(r, p, r.origCdn[p])]

\* The candidates' addresses come from the hashes the check had read, the rest
\* from the contents it read again.
Matched(r) == {u \in DOMAIN r.seenSri : NewVersion(r, u[1], u[2]) # u[2]}

FixedSri(r) ==
    LET moved == {<<u[1], NewVersion(r, u[1], u[2])>> : u \in Matched(r)}
    IN  [u \in moved \cup (DOMAIN r.origSri \ Matched(r)) |->
            IF u \in moved THEN "good" ELSE r.origSri[u]]

-----------------------------------------------------------------------------
(* The check *)

Go(c, r) == run' = [run EXCEPT ![c] = r]

\* scanRoots: the version of each package the built pages load.
ScanRoots == public

\* Check: autofix stands for auto_fix requested and not a dry run.
Start(c) ==
    /\ c \in setup.clients /\ run[c].pc \in {"idle", "done"}
    /\ \E autofix \in BOOLEAN :
         Go(c, [Idle EXCEPT !.pc = "readCdn", !.autofix = autofix, !.active = ScanRoots])
    /\ UNCHANGED <<cdn, sri, public, latest, bounds>>

Rescan(c) ==
    /\ run[c].pc = "rescan"
    /\ Go(c, [run[c] EXCEPT !.pc = "readCdn", !.active = ScanRoots, !.post = TRUE])
    /\ UNCHANGED <<cdn, sri, public, latest, bounds>>

ReadCdn(c) ==
    /\ run[c].pc = "readCdn"
    /\ Go(c, [run[c] EXCEPT !.pc = "readSri", !.seenCdn = cdn])
    /\ UNCHANGED <<cdn, sri, public, latest, bounds>>

\* parseSRIConfig: a file that was emptied has no entries.
SriEntries == sri

\* The last read, both evaluations and the report built on them.
FirstReport(c) ==
    /\ run[c].pc = "readSri" /\ ~run[c].post
    /\ \E down \in Outages :
         LET r == [run[c] EXCEPT !.seenSri = SriEntries]
             cands == Candidates(r, down)
         IN  Go(c, [r EXCEPT
                 !.pc = IF r.autofix /\ cands # {} THEN "origCdn" ELSE "done",
                 !.cands = cands,
                 !.alarm = MajorOutdated(r, down) \/ HashMismatch(r, down),
                 !.other = FetchFails(r, down) \/ MissingEntry(r)])
    /\ UNCHANGED <<cdn, sri, public, latest, bounds>>

\* The second report replaces the first one's alarms and adds to its warnings.
SecondReport(c) ==
    /\ run[c].pc = "readSri" /\ run[c].post
    /\ \E down \in Outages :
         LET r == [run[c] EXCEPT !.seenSri = SriEntries]
         IN  Go(c, [r EXCEPT
                 !.pc = "done",
                 !.alarm = MajorOutdated(r, down) \/ HashMismatch(r, down),
                 !.other = @ \/ FetchFails(r, down) \/ MissingEntry(r)])
    /\ UNCHANGED <<cdn, sri, public, latest, bounds>>

ReadOriginalCdn(c) ==
    /\ run[c].pc = "origCdn"
    /\ Go(c, [run[c] EXCEPT !.pc = "origSri", !.origCdn = cdn])
    /\ UNCHANGED <<cdn, sri, public, latest, bounds>>

ReadOriginalSri(c) ==
    /\ run[c].pc = "origSri"
    /\ Go(c, [run[c] EXCEPT !.pc = "fetch", !.origSri = sri])
    /\ UNCHANGED <<cdn, sri, public, latest, bounds>>

\* The new hashes are fetched before anything is written.
Fetch(c) ==
    /\ run[c].pc = "fetch"
    /\ \/ Go(c, [run[c] EXCEPT !.pc = "cdn"])
       \/ /\ Happens("outages") /\ Matched(run[c]) # {}
          /\ Go(c, [run[c] EXCEPT !.pc = "rescan", !.other = TRUE])
    /\ UNCHANGED <<cdn, sri, public, latest, bounds>>

(* os.WriteFile: open with truncation, then write.  The four writes differ in *)
(* their file, their contents and in what follows.                            *)

WritesCdn(r) == r.pc \in {"cdn", "undoCdn"}
WritesSri(r) == r.pc \in {"sri", "undoSri"}

Put(r, versions, hashes) ==
    /\ cdn' = IF WritesCdn(r) THEN versions ELSE cdn
    /\ sri' = IF WritesSri(r) THEN hashes ELSE sri

\* Mutant of Undone: the second file is never put back.
UndoesOne(r) == [r EXCEPT !.pc = "rescan"]

Undone(r) == [r EXCEPT !.pc = IF @ = "undoCdn" /\ r.undoBoth THEN "undoSri" ELSE "rescan"]

Written(r) ==
    CASE r.pc = "cdn" -> [r EXCEPT !.pc = "sri"]
      [] r.pc = "sri" -> [r EXCEPT !.pc = "build"]
      [] OTHER        -> Undone(r)

NotWritten(r) ==
    CASE r.pc = "cdn" -> [r EXCEPT !.pc = "rescan", !.other = TRUE]
      [] r.pc = "sri" -> [r EXCEPT !.pc = "undoCdn", !.other = TRUE]
      [] OTHER        -> Undone(r)

Truncate(c) ==
    LET r == run[c] IN
    /\ WritesCdn(r) \/ WritesSri(r)
    /\ ~r.open
    /\ Put(r, Empty, Empty)
    /\ Go(c, [r EXCEPT !.open = TRUE])
    /\ UNCHANGED <<public, latest, bounds>>

CannotOpen(c) ==
    LET r == run[c] IN
    /\ Happens("writesFail")
    /\ WritesCdn(r) \/ WritesSri(r)
    /\ ~r.open
    /\ Go(c, NotWritten(r))
    /\ UNCHANGED <<cdn, sri, public, latest, bounds>>

Fill(c) ==
    LET r == run[c] IN
    /\ r.open
    /\ IF r.pc \in {"cdn", "sri"} THEN Put(r, FixedCdn(r), FixedSri(r))
                                  ELSE Put(r, r.origCdn, r.origSri)
    /\ Go(c, Written([r EXCEPT !.open = FALSE]))
    /\ UNCHANGED <<public, latest, bounds>>

CannotFill(c) ==
    LET r == run[c] IN
    /\ Happens("writesFail")
    /\ r.open
    /\ Go(c, NotWritten([r EXCEPT !.open = FALSE]))
    /\ UNCHANGED <<cdn, sri, public, latest, bounds>>

(* Hugo renders the pages from the version file. *)

Rendered == [p \in Packages |-> IF p \in DOMAIN cdn THEN cdn[p] ELSE None]

\* The hooks that follow a successful build touch none of these files.
Build(c) ==
    /\ run[c].pc = "build"
    /\ \/ /\ public' = Rendered
          /\ Go(c, [run[c] EXCEPT !.pc = "rescan", !.fixed = TRUE])
       \/ /\ Happens("buildsFail")
          /\ Go(c, [run[c] EXCEPT !.pc = "undoCdn", !.undoBoth = TRUE, !.other = TRUE])
          /\ UNCHANGED public
    /\ UNCHANGED <<cdn, sri, latest, bounds>>

\* The client cancels: the report is dropped, and nothing has been written yet.
Cancel(c) ==
    /\ run[c].pc \in {"readCdn", "readSri"} /\ ~run[c].post
    /\ Go(c, Idle)
    /\ UNCHANGED <<cdn, sri, public, latest, bounds>>

-----------------------------------------------------------------------------
(* The rest of the world *)

\* build_site, called by someone else.
BuildSite ==
    /\ Happens("rebuilds")
    /\ public' = Rendered
    /\ UNCHANGED <<cdn, sri, latest, run, bounds>>

Release ==
    /\ releases < setup.releases
    /\ releases' = releases + 1
    /\ \E p \in DOMAIN latest, v \in Versions : latest' = [latest EXCEPT ![p] = v]
    /\ UNCHANGED <<cdn, sri, public, run, setup, crashes>>

Crash ==
    /\ crashes < setup.crashes
    /\ crashes' = crashes + 1
    /\ run' = [c \in Checkers |-> Idle]
    /\ UNCHANGED <<cdn, sri, public, latest, setup, releases>>

Step(c) ==
    \/ Start(c) \/ Rescan(c) \/ ReadCdn(c) \/ FirstReport(c) \/ SecondReport(c)
    \/ ReadOriginalCdn(c) \/ ReadOriginalSri(c) \/ Fetch(c)
    \/ Truncate(c) \/ CannotOpen(c) \/ Fill(c) \/ CannotFill(c)
    \/ Build(c) \/ Cancel(c)

Next == (\E c \in Checkers : Step(c)) \/ BuildSite \/ Release \/ Crash

Spec == Init /\ [][Next]_vars

-----------------------------------------------------------------------------
(* Properties *)

VersionFiles == UNION {[q -> Versions] : q \in SUBSET Packages}

IsHashFile(f) == DOMAIN f \subseteq Urls /\ \A u \in DOMAIN f : f[u] \in Hashes

\* Type invariant.  A candidate moves a package forward, whatever the registry
\* calls latest (evaluateVersions).
TypeOK ==
    /\ setup \in Setups
    /\ cdn \in VersionFiles /\ IsHashFile(sri)
    /\ public \in [Packages -> Versions \cup {None}]
    /\ latest \in [DOMAIN Installed -> Versions]
    /\ crashes \in 0..setup.crashes /\ releases \in 0..setup.releases
    /\ \A c \in Checkers :
         LET r == run[c] IN
         /\ r.pc \in PCs
         /\ {r.autofix, r.post, r.open, r.undoBoth, r.fixed, r.other, r.alarm}
                \subseteq BOOLEAN
         /\ r.active \in [Packages -> Versions \cup {None}]
         /\ {r.seenCdn, r.origCdn} \subseteq VersionFiles
         /\ IsHashFile(r.seenSri) /\ IsHashFile(r.origSri)
         /\ \A k \in r.cands : k.pkg \in Packages /\ Older(k.old, k.new)

\* Whatever interleaves or fails, no package of the site ever leaves
\* the major version it was installed with: a major update is left to a manual
\* review (evaluateVersions, service.go:243-252).
MajorIsKept ==
    /\ \A p \in DOMAIN cdn : cdn[p][1] = Installed[p][1]
    /\ \A p \in Packages : public[p] # None => public[p][1] = Installed[p][1]

OneAtATime == \E c \in Checkers : setup.clients = {c}

ReportsOk(r) == r.pc = "done" /\ ~r.alarm /\ ~r.other

\* When a check that runs alone reports OK, each package that the pages it scanned load has an
\* entry in the hash file with the hash of what the CDN serves, even after an
\* earlier check crashed half-way (evaluateSRI, the second report).
OkMeansCovered ==
    OneAtATime => \A c \in Checkers : ReportsOk(run[c]) =>
        \A p \in Packages :
            LET v == run[c].active[p]
            IN  v # None => <<p, v>> \in DOMAIN sri /\ sri[<<p, v>>] = "good"

Tried(r) == r.pc = "done" /\ r.autofix /\ r.post

\* "restore on failure" (docs/PHASE2_STAGING_MODEL.md:136): an autofix that is
\* not applied leaves both files as it found them.
RestoredOnFailure ==
    \A c \in Checkers : Tried(run[c]) /\ ~run[c].fixed =>
        cdn = run[c].origCdn /\ sri = run[c].origSri

\* The test of the autofix asserts that an applied fix is in the version file
\* (internal/sri/service_test.go:203 "jsdelivr.yml not updated").
AppliedIsOnDisk ==
    \A c \in Checkers : Tried(run[c]) /\ run[c].fixed =>
        \A k \in run[c].cands : k.pkg \in DOMAIN cdn /\ ~Older(cdn[k.pkg], k.new)

(* The refinement: while a check has files half-written or may still undo     *)
(* them, the site's files are the ones it read before it wrote.               *)

Unsettled == {c \in Checkers : run[c].pc \in {"cdn", "sri", "build", "undoCdn", "undoSri"}}

SettledCdn == IF Unsettled = {} THEN cdn ELSE run[CHOOSE c \in Unsettled : TRUE].origCdn
SettledSri == IF Unsettled = {} THEN sri ELSE run[CHOOSE c \in Unsettled : TRUE].origSri

Contract == INSTANCE SriContract WITH cdn <- SettledCdn, sri <- SettledSri

Sheltered == OneAtATime /\ ~Happens("writesFail")

\* With one check at a time and writes that succeed, an autofix is atomic: the
\* build failing or an address missing rolls both files back.  Only a crash in
\* the middle of a fix shows.
ImplementsContract ==
    Contract!Init /\ [][Sheltered => Contract!Fix \/ Crash]_<<SettledCdn, SettledSri>>
=============================================================================
