-------------------------- MODULE SriAutofixProofs --------------------------
(* Proofs about SriAutofix, for any number of checks at a time, any sites,  *)
(* versions, outages, failing writes and builds, releases and crashes.     *)
EXTENDS SriAutofix, TLAPS

(* Whatever a check carries about versions is of the majors the site was    *)
(* installed with: what it has read, what it may put back, and what it has *)
(* chosen to write.  The files alone do not say so, for a rollback writes  *)
(* what was read long ago.                                                 *)
KeptFiles == {f \in VersionFiles :
                 /\ DOMAIN f \subseteq DOMAIN Installed
                 /\ \A p \in DOMAIN f : f[p][1] = Installed[p][1]}

KeptPages == {g \in [Packages -> Versions \cup {None}] :
                 \A p \in Packages : g[p] # None =>
                     p \in DOMAIN Installed /\ g[p][1] = Installed[p][1]}

HashFiles == UNION {[q -> Hashes] : q \in SUBSET Urls}

Moves == {k \in [pkg : DOMAIN Installed, old : Versions, new : Versions] :
             Older(k.old, k.new) /\ k.new[1] = Installed[k.pkg][1]}

Runs == [pc : PCs, autofix : BOOLEAN, post : BOOLEAN,
         active : [Packages -> Versions \cup {None}],
         seenCdn : KeptFiles, seenSri : HashFiles, cands : SUBSET Moves,
         origCdn : KeptFiles, origSri : HashFiles,
         open : BOOLEAN, undoBoth : BOOLEAN, fixed : BOOLEAN,
         other : BOOLEAN, alarm : BOOLEAN]

Inv == /\ setup \in Setups
       /\ cdn \in KeptFiles /\ sri \in HashFiles /\ public \in KeptPages
       /\ latest \in [DOMAIN Installed -> Versions]
       /\ run \in [Checkers -> Runs]
       /\ crashes \in 0..setup.crashes /\ releases \in 0..setup.releases

-----------------------------------------------------------------------------
LEMMA FileFacts ==
    /\ \A f \in KeptFiles : /\ f = [p \in DOMAIN f |-> f[p]]
                            /\ DOMAIN f \subseteq Packages \cap DOMAIN Installed
                            /\ \A p \in DOMAIN f : /\ f[p] \in Versions
                                                   /\ f[p][1] = Installed[p][1]
    /\ \A f \in HashFiles : /\ f = [u \in DOMAIN f |-> f[u]]
                            /\ DOMAIN f \subseteq Urls
                            /\ \A u \in DOMAIN f : f[u] \in Hashes
BY DEF KeptFiles, VersionFiles, HashFiles

LEMMA EmptyFiles == Empty \in KeptFiles /\ Empty \in HashFiles
<1>1. DOMAIN Empty = {}
    BY DEF Empty
<1>2. Empty \in [{} -> Versions] /\ Empty \in [{} -> Hashes]
    BY DEF Empty
<1>. QED
    BY <1>1, <1>2 DEF KeptFiles, VersionFiles, HashFiles

LEMMA SetupFacts ==
    ASSUME setup \in Setups
    PROVE  /\ DOMAIN Installed \subseteq Packages
           /\ Installed \in [DOMAIN Installed -> Versions]
           /\ setup.latest \subseteq Versions
           /\ setup.crashes \in Nat /\ setup.releases \in Nat
BY SriAssumption DEF Installed, SetupOf

LEMMA IdleRun == Idle \in Runs
BY EmptyFiles DEF Idle, Runs, PCs

(* A candidate moves a package within its major version.                    *)
LEMMA CandidatesKept ==
    ASSUME NEW r \in Runs, NEW down, latest \in [DOMAIN Installed -> Versions]
    PROVE  Candidates(r, down) \subseteq Moves
<1> SUFFICES ASSUME NEW p \in Behind(r, down), SameMajor(r.seenCdn[p], latest[p])
             PROVE  [pkg |-> p, old |-> r.seenCdn[p], new |-> latest[p]] \in Moves
    BY DEF Candidates
<1>1. r.seenCdn \in KeptFiles
    BY DEF Runs
<1>2. p \in DOMAIN r.seenCdn /\ Older(r.seenCdn[p], latest[p])
    BY DEF Behind, Used, Outdated
<1>3. /\ p \in DOMAIN Installed /\ r.seenCdn[p] \in Versions
      /\ r.seenCdn[p][1] = Installed[p][1]
    BY <1>1, <1>2, FileFacts
<1>4. latest[p] \in Versions /\ latest[p][1] = Installed[p][1]
    BY <1>3 DEF SameMajor
<1>. QED
    BY <1>2, <1>3, <1>4 DEF Moves

(* applyAutoFix leaves a version alone or puts the candidate's in its place. *)
LEMMA NewVersionKept ==
    ASSUME NEW r \in Runs, NEW p, NEW v \in Versions
    PROVE  /\ NewVersion(r, p, v) \in Versions
           /\ p \in DOMAIN Installed /\ v[1] = Installed[p][1] =>
                NewVersion(r, p, v)[1] = Installed[p][1]
<1> DEFINE hits == {k \in r.cands : k.pkg = p /\ k.old = v}
           hit  == CHOOSE k \in hits : TRUE
<1>1. CASE hits = {}
    BY <1>1 DEF NewVersion
<1>2. CASE hits # {}
  <2>1. hit \in hits
    BY <1>2
  <2>2. hit \in Moves /\ hit.pkg = p
    BY <2>1 DEF Runs
  <2>3. hit.new \in Versions /\ hit.new[1] = Installed[p][1]
    BY <2>2 DEF Moves
  <2>4. NewVersion(r, p, v) = hit.new
    BY <1>2 DEF NewVersion
  <2>. QED
    BY <2>3, <2>4
<1>. QED
    BY <1>1, <1>2

LEMMA FixedFiles ==
    ASSUME NEW r \in Runs
    PROVE  FixedCdn(r) \in KeptFiles /\ FixedSri(r) \in HashFiles
<1>1. FixedCdn(r) \in KeptFiles
  <2> DEFINE f == r.origCdn
  <2>1. f \in KeptFiles
    BY DEF Runs
  <2>2. /\ DOMAIN f \subseteq Packages /\ DOMAIN f \subseteq DOMAIN Installed
        /\ \A p \in DOMAIN f : f[p] \in Versions /\ f[p][1] = Installed[p][1]
    BY <2>1, FileFacts
  <2>3. \A p \in DOMAIN f : /\ NewVersion(r, p, f[p]) \in Versions
                             /\ NewVersion(r, p, f[p])[1] = Installed[p][1]
    BY <2>2, NewVersionKept
  <2>4. /\ DOMAIN FixedCdn(r) = DOMAIN f
        /\ FixedCdn(r) \in [DOMAIN f -> Versions]
        /\ \A p \in DOMAIN f : FixedCdn(r)[p] = NewVersion(r, p, f[p])
    BY <2>3 DEF FixedCdn
  <2>5. FixedCdn(r) \in VersionFiles
    BY <2>2, <2>4 DEF VersionFiles
  <2>. QED
    BY <2>2, <2>3, <2>4, <2>5 DEF KeptFiles
<1>2. FixedSri(r) \in HashFiles
  <2> DEFINE moved == {<<u[1], NewVersion(r, u[1], u[2])>> : u \in Matched(r)}
             rest  == DOMAIN r.origSri \ Matched(r)
  <2>1. r.origSri \in HashFiles /\ r.seenSri \in HashFiles
    BY DEF Runs
  <2>2. /\ rest \subseteq Urls /\ Matched(r) \subseteq Urls
        /\ \A u \in rest : r.origSri[u] \in Hashes
    BY <2>1, FileFacts DEF Matched
  <2>3. moved \subseteq Urls
    BY <2>2, NewVersionKept DEF Urls
  <2>4. FixedSri(r) = [u \in moved \cup rest |-> IF u \in moved THEN "good" ELSE r.origSri[u]]
    BY DEF FixedSri
  <2>5. FixedSri(r) \in [moved \cup rest -> Hashes]
    BY <2>2, <2>4 DEF Hashes
  <2>. QED
    BY <2>2, <2>3, <2>5 DEF HashFiles
<1>. QED
    BY <1>1, <1>2

LEMMA RenderedKept == ASSUME cdn \in KeptFiles PROVE Rendered \in KeptPages
BY FileFacts DEF Rendered, KeptPages

-----------------------------------------------------------------------------
LEMMA InvInit == Init => Inv
<1> SUFFICES ASSUME Init PROVE Inv
    OBVIOUS
<1>1. setup \in Setups
    BY DEF Init
<1>2. /\ cdn \in KeptFiles /\ latest \in [DOMAIN Installed -> Versions]
      /\ crashes \in 0..setup.crashes /\ releases \in 0..setup.releases
    BY <1>1, SetupFacts DEF Init, KeptFiles, VersionFiles
<1>3. public \in KeptPages
    BY <1>1, SetupFacts DEF Init, KeptPages
<1>4. sri \in HashFiles
  <2> DEFINE urls == {<<p, Installed[p]>> : p \in DOMAIN Installed}
  <2>1. urls \subseteq Urls
    BY <1>1, SetupFacts DEF Urls
  <2>2. sri \in [urls -> Hashes]
    BY DEF Init
  <2>. QED
    BY <2>1, <2>2 DEF HashFiles
<1>5. run \in [Checkers -> Runs]
    BY IdleRun DEF Init
<1>. QED
    BY <1>1, <1>2, <1>3, <1>4, <1>5 DEF Inv

(* A step that leaves the files alone and moves one check.                  *)
LEMMA Moved ==
    ASSUME Inv, NEW c \in Checkers, NEW r \in Runs, Go(c, r),
           UNCHANGED <<cdn, sri, public, latest, bounds>>
    PROVE  Inv'
BY DEF Inv, Go, bounds, KeptFiles, KeptPages, Moves, Runs, Installed

(* A step that rewrites the files and moves one check.                      *)
LEMMA Wrote ==
    ASSUME Inv, NEW c \in Checkers, NEW r \in Runs, Go(c, r),
           cdn' \in KeptFiles, sri' \in HashFiles,
           UNCHANGED <<public, latest, bounds>>
    PROVE  Inv'
BY DEF Inv, Go, bounds, KeptFiles, KeptPages, Moves, Runs, Installed

(* What follows a write changes a check's place and its warning only.       *)
LEMMA AfterWrite ==
    ASSUME NEW r \in Runs
    PROVE  Written(r) \in Runs /\ NotWritten(r) \in Runs
<1>1. Undone(r) \in Runs
    BY DEF Undone, Runs, PCs
<1>2. Written(r) \in Runs
  <2>1. CASE r.pc = "cdn"
    BY <2>1 DEF Written, Runs, PCs
  <2>2. CASE r.pc = "sri"
    BY <2>2 DEF Written, Runs, PCs
  <2>3. CASE r.pc \notin {"cdn", "sri"}
    BY <1>1, <2>3 DEF Written
  <2>. QED
    BY <2>1, <2>2, <2>3
<1>3. NotWritten(r) \in Runs
  <2>1. CASE r.pc = "cdn"
    BY <2>1 DEF NotWritten, Runs, PCs
  <2>2. CASE r.pc = "sri"
    BY <2>2 DEF NotWritten, Runs, PCs
  <2>3. CASE r.pc \notin {"cdn", "sri"}
    BY <1>1, <2>3 DEF NotWritten
  <2>. QED
    BY <2>1, <2>2, <2>3
<1>. QED
    BY <1>2, <1>3

LEMMA InvStep == Inv /\ [Next]_vars => Inv'
<1> SUFFICES ASSUME Inv, [Next]_vars PROVE Inv'
    OBVIOUS
<1>0. \A c \in Checkers : run[c] \in Runs
    BY DEF Inv
<1>1. ASSUME NEW c \in Checkers, Start(c) PROVE Inv'
  <2>1. public \in [Packages -> Versions \cup {None}]
    BY DEF Inv, KeptPages
  <2>2. \A autofix \in BOOLEAN :
            [Idle EXCEPT !.pc = "readCdn", !.autofix = autofix, !.active = public] \in Runs
    BY <2>1, IdleRun DEF Runs, PCs
  <2>. QED
    BY <1>1, <2>2, Moved DEF Start, ScanRoots
<1>2. ASSUME NEW c \in Checkers, Rescan(c) PROVE Inv'
  <2>1. public \in [Packages -> Versions \cup {None}]
    BY DEF Inv, KeptPages
  <2>2. [run[c] EXCEPT !.pc = "readCdn", !.active = public, !.post = TRUE] \in Runs
    BY <1>0, <2>1, ZenonT(60) DEF Runs, PCs
  <2>. QED
    BY <1>2, <2>2, Moved DEF Rescan, ScanRoots
<1>3. ASSUME NEW c \in Checkers, ReadCdn(c) PROVE Inv'
  <2>1. [run[c] EXCEPT !.pc = "readSri", !.seenCdn = cdn] \in Runs
    BY <1>0, ZenonT(60) DEF Inv, Runs, PCs
  <2>. QED
    BY <1>3, <2>1, Moved DEF ReadCdn
<1>4. ASSUME NEW c \in Checkers, FirstReport(c) PROVE Inv'
  <2> DEFINE r == [run[c] EXCEPT !.seenSri = SriEntries]
  <2>1. r \in Runs /\ latest \in [DOMAIN Installed -> Versions]
    BY <1>0 DEF Inv, Runs, SriEntries
  <2>2. PICK down \in Outages :
            Go(c, [r EXCEPT
                !.pc = IF r.autofix /\ Candidates(r, down) # {} THEN "origCdn" ELSE "done",
                !.cands = Candidates(r, down),
                !.alarm = MajorOutdated(r, down) \/ HashMismatch(r, down),
                !.other = FetchFails(r, down) \/ MissingEntry(r)])
    BY <1>4 DEF FirstReport
  <2>3. Candidates(r, down) \in SUBSET Moves
    BY <2>1, CandidatesKept
  <2>4. /\ (MajorOutdated(r, down) \/ HashMismatch(r, down)) \in BOOLEAN
        /\ (FetchFails(r, down) \/ MissingEntry(r)) \in BOOLEAN
    OBVIOUS
  <2>5. [r EXCEPT
            !.pc = IF r.autofix /\ Candidates(r, down) # {} THEN "origCdn" ELSE "done",
            !.cands = Candidates(r, down),
            !.alarm = MajorOutdated(r, down) \/ HashMismatch(r, down),
            !.other = FetchFails(r, down) \/ MissingEntry(r)] \in Runs
    <3> DEFINE place == IF r.autofix /\ Candidates(r, down) # {} THEN "origCdn" ELSE "done"
    <3>1. place \in PCs
      BY DEF PCs
    <3> HIDE DEF r, place
    <3>. QED
      BY <2>1, <2>3, <2>4, <3>1, ZenonT(60) DEF Runs, place
  <2>. QED
    BY <1>4, <2>2, <2>5, Moved DEF FirstReport
<1>5. ASSUME NEW c \in Checkers, SecondReport(c) PROVE Inv'
  <2> DEFINE r == [run[c] EXCEPT !.seenSri = SriEntries]
  <2>1. r \in Runs
    BY <1>0 DEF Inv, Runs, SriEntries
  <2>2. PICK down \in Outages :
            Go(c, [r EXCEPT
                !.pc = "done",
                !.alarm = MajorOutdated(r, down) \/ HashMismatch(r, down),
                !.other = @ \/ FetchFails(r, down) \/ MissingEntry(r)])
    BY <1>5 DEF SecondReport
  <2>3. /\ (MajorOutdated(r, down) \/ HashMismatch(r, down)) \in BOOLEAN
        /\ (r.other \/ FetchFails(r, down) \/ MissingEntry(r)) \in BOOLEAN
    OBVIOUS
  <2>4. [r EXCEPT
            !.pc = "done",
            !.alarm = MajorOutdated(r, down) \/ HashMismatch(r, down),
            !.other = @ \/ FetchFails(r, down) \/ MissingEntry(r)] \in Runs
    <3> HIDE DEF r
    <3>. QED
      BY <2>1, <2>3 DEF Runs, PCs
  <2>. QED
    BY <1>5, <2>2, <2>4, Moved DEF SecondReport
<1>6. ASSUME NEW c \in Checkers, ReadOriginalCdn(c) PROVE Inv'
  <2>1. [run[c] EXCEPT !.pc = "origSri", !.origCdn = cdn] \in Runs
    BY <1>0, ZenonT(60) DEF Inv, Runs, PCs
  <2>. QED
    BY <1>6, <2>1, Moved DEF ReadOriginalCdn
<1>7. ASSUME NEW c \in Checkers, ReadOriginalSri(c) PROVE Inv'
  <2>1. [run[c] EXCEPT !.pc = "fetch", !.origSri = sri] \in Runs
    BY <1>0, ZenonT(60) DEF Inv, Runs, PCs
  <2>. QED
    BY <1>7, <2>1, Moved DEF ReadOriginalSri
<1>8. ASSUME NEW c \in Checkers, Fetch(c) PROVE Inv'
  <2>1. /\ [run[c] EXCEPT !.pc = "cdn"] \in Runs
        /\ [run[c] EXCEPT !.pc = "rescan", !.other = TRUE] \in Runs
    BY <1>0, ZenonT(60) DEF Runs, PCs
  <2>. QED
    BY <1>8, <2>1, Moved DEF Fetch
<1>9. ASSUME NEW c \in Checkers, Truncate(c) PROVE Inv'
  <2>1. [run[c] EXCEPT !.open = TRUE] \in Runs
    BY <1>0 DEF Runs
  <2>2. cdn' \in KeptFiles /\ sri' \in HashFiles
    BY <1>9, EmptyFiles DEF Truncate, Put, Inv
  <2>. QED
    BY <1>9, <2>1, <2>2, Wrote DEF Truncate
<1>10. ASSUME NEW c \in Checkers, CannotOpen(c) PROVE Inv'
  BY <1>0, <1>10, AfterWrite, Moved DEF CannotOpen
<1>11. ASSUME NEW c \in Checkers, Fill(c) PROVE Inv'
  <2>1. run[c] \in Runs /\ [run[c] EXCEPT !.open = FALSE] \in Runs
    BY <1>0 DEF Runs
  <2>2. Written([run[c] EXCEPT !.open = FALSE]) \in Runs
    BY <2>1, AfterWrite
  <2>3. run[c].origCdn \in KeptFiles /\ run[c].origSri \in HashFiles
    BY <2>1 DEF Runs
  <2>4. cdn' \in KeptFiles /\ sri' \in HashFiles
    BY <1>11, <2>1, <2>3, FixedFiles DEF Fill, Put, Inv
  <2>. QED
    BY <1>11, <2>2, <2>4, Wrote DEF Fill
<1>12. ASSUME NEW c \in Checkers, CannotFill(c) PROVE Inv'
  <2>1. [run[c] EXCEPT !.open = FALSE] \in Runs
    BY <1>0 DEF Runs
  <2>. QED
    BY <1>12, <2>1, AfterWrite, Moved DEF CannotFill
<1>13. ASSUME NEW c \in Checkers, Build(c) PROVE Inv'
  <2>1. /\ [run[c] EXCEPT !.pc = "rescan", !.fixed = TRUE] \in Runs
        /\ [run[c] EXCEPT !.pc = "undoCdn", !.undoBoth = TRUE, !.other = TRUE] \in Runs
    BY <1>0, ZenonT(60) DEF Runs, PCs
  <2>2. public' \in KeptPages
    BY <1>13, RenderedKept DEF Build, Inv
  <2>3. run' \in [Checkers -> Runs]
    BY <1>13, <2>1 DEF Build, Go, Inv
  <2>. QED
    BY <1>13, <2>2, <2>3 DEF Build, Inv, bounds, KeptFiles, KeptPages, Moves, Runs, Installed
<1>14. ASSUME NEW c \in Checkers, Cancel(c) PROVE Inv'
  BY <1>14, IdleRun, Moved DEF Cancel
<1>15. ASSUME BuildSite PROVE Inv'
  <2>1. public' \in KeptPages
    BY <1>15, RenderedKept DEF BuildSite, Inv
  <2>. QED
    BY <1>15, <2>1 DEF BuildSite, Inv, bounds, KeptFiles, KeptPages, Moves, Runs, Installed
<1>16. ASSUME Release PROVE Inv'
  <2>1. latest' \in [DOMAIN Installed -> Versions] /\ releases' \in 0..setup.releases
    BY <1>16, SetupFacts DEF Release, Inv
  <2>. QED
    BY <1>16, <2>1 DEF Release, Inv, KeptFiles, KeptPages, Moves, Runs, Installed
<1>17. ASSUME Crash PROVE Inv'
  <2>1. run' \in [Checkers -> Runs] /\ crashes' \in 0..setup.crashes
    BY <1>17, IdleRun, SetupFacts DEF Crash, Inv
  <2>. QED
    BY <1>17, <2>1 DEF Crash, Inv, KeptFiles, KeptPages, Moves, Runs, Installed
<1>18. ASSUME UNCHANGED vars PROVE Inv'
  BY <1>18 DEF vars, bounds, Inv, KeptFiles, KeptPages, Moves, Runs, Installed
<1>. QED
  BY <1>1, <1>2, <1>3, <1>4, <1>5, <1>6, <1>7, <1>8, <1>9, <1>10, <1>11, <1>12,
     <1>13, <1>14, <1>15, <1>16, <1>17, <1>18 DEF Next, Step

LEMMA Invariance == Spec => []Inv
BY InvInit, InvStep, PTL DEF Spec

(* Type correctness, the stated one: it follows from the invariant above.   *)
THEOREM TypeCorrect == Spec => []TypeOK
<1>1. Inv => TypeOK
  <2> SUFFICES ASSUME Inv PROVE TypeOK
    OBVIOUS
  <2>1. \A f \in HashFiles : IsHashFile(f)
    BY FileFacts DEF IsHashFile
  <2>2. KeptFiles \subseteq VersionFiles
    BY DEF KeptFiles
  <2>3. ASSUME NEW c \in Checkers
        PROVE  LET r == run[c] IN
               /\ r.pc \in PCs
               /\ {r.autofix, r.post, r.open, r.undoBoth, r.fixed, r.other, r.alarm}
                      \subseteq BOOLEAN
               /\ r.active \in [Packages -> Versions \cup {None}]
               /\ {r.seenCdn, r.origCdn} \subseteq VersionFiles
               /\ IsHashFile(r.seenSri) /\ IsHashFile(r.origSri)
               /\ \A k \in r.cands : k.pkg \in Packages /\ Older(k.old, k.new)
    <3>1. run[c] \in Runs
      BY DEF Inv
    <3>2. \A k \in run[c].cands : k.pkg \in Packages /\ Older(k.old, k.new)
      BY <3>1, SetupFacts DEF Inv, Runs, Moves
    <3>. QED
      BY <2>1, <2>2, <3>1, <3>2 DEF Runs
  <2>. QED
    BY <2>1, <2>2, <2>3 DEF Inv, TypeOK, KeptPages
<1>. QED
  BY <1>1, Invariance, PTL

(* No package ever leaves the major version the site was installed with, in *)
(* the version file or in the built pages, however many checks interleave,  *)
(* wherever they fail, are cancelled or crash, and whatever the registry    *)
(* publishes (evaluateVersions, applyAutoFix and its rollback).             *)
THEOREM MajorIsKeptHolds == Spec => []MajorIsKept
<1>1. Inv => MajorIsKept
  BY FileFacts DEF Inv, MajorIsKept, KeptPages
<1>. QED
  BY <1>1, Invariance, PTL

-----------------------------------------------------------------------------
(* One check at a time.                                                     *)

OthersIdle == \A d \in Checkers \ setup.clients : run[d] = Idle

LEMMA IdleRests == Idle.pc = "idle" /\ ~Idle.open
BY DEF Idle

(* An idle check does nothing but start, and only a client starts one.      *)
LEMMA OnlyClientsStep ==
    ASSUME OthersIdle, NEW c \in Checkers, Step(c)
    PROVE  c \in setup.clients
<1> SUFFICES ASSUME c \notin setup.clients PROVE FALSE
    OBVIOUS
<1>1. run[c].pc = "idle" /\ ~run[c].open
    BY IdleRests DEF OthersIdle
<1>2. ~(WritesCdn(run[c]) \/ WritesSri(run[c]))
    BY <1>1 DEF WritesCdn, WritesSri
<1>3. ~Start(c)
    BY DEF Start
<1>4. ~(Rescan(c) \/ ReadCdn(c) \/ FirstReport(c) \/ SecondReport(c) \/ ReadOriginalCdn(c)
          \/ ReadOriginalSri(c) \/ Fetch(c) \/ Build(c) \/ Cancel(c))
    BY <1>1 DEF Rescan, ReadCdn, FirstReport, SecondReport, ReadOriginalCdn,
                ReadOriginalSri, Fetch, Build, Cancel
<1>5. ~(Truncate(c) \/ CannotOpen(c) \/ Fill(c) \/ CannotFill(c))
    BY <1>1, <1>2 DEF Truncate, CannotOpen, Fill, CannotFill
<1>. QED
    BY <1>3, <1>4, <1>5 DEF Step

(* A step of a check is a step of its record.                               *)
LEMMA StepMovesOne ==
    ASSUME Inv, NEW c \in Checkers, Step(c)
    PROVE  /\ UNCHANGED setup
           /\ \A d \in Checkers \ {c} : run'[d] = run[d]
<1>1. UNCHANGED setup
    BY DEF Step, Start, Rescan, ReadCdn, FirstReport, SecondReport, ReadOriginalCdn,
           ReadOriginalSri, Fetch, Truncate, CannotOpen, Fill, CannotFill, Build, Cancel, bounds
<1>2. \E r : Go(c, r)
    BY Zenon
       DEF Step, Start, Rescan, ReadCdn, FirstReport, SecondReport, ReadOriginalCdn,
           ReadOriginalSri, Fetch, Truncate, CannotOpen, Fill, CannotFill, Build, Cancel
<1>. QED
    BY <1>1, <1>2 DEF Go, Inv

LEMMA OthersIdleStep == Inv /\ OthersIdle /\ [Next]_vars => OthersIdle'
<1> SUFFICES ASSUME Inv, OthersIdle, [Next]_vars PROVE OthersIdle'
    OBVIOUS
<1>1. ASSUME NEW c \in Checkers, Step(c) PROVE OthersIdle'
    BY <1>1, OnlyClientsStep, StepMovesOne DEF OthersIdle
<1>2. ASSUME BuildSite \/ Release \/ Crash \/ UNCHANGED vars PROVE OthersIdle'
    BY <1>2 DEF BuildSite, Release, Crash, vars, bounds, OthersIdle
<1>. QED
    BY <1>1, <1>2 DEF Next

-----------------------------------------------------------------------------
(* The pages a check has scanned have their entries in the hash file.       *)
Covered(pages, hashes) ==
    \A p \in Packages : LET v == pages[p] IN
        v # None => <<p, v>> \in DOMAIN hashes /\ hashes[<<p, v>>] = "good"

(* What a report without alarm and warning has seen.                        *)
LEMMA ReportCovers ==
    ASSUME NEW r \in Runs, NEW down,
           ~HashMismatch(r, down), ~FetchFails(r, down), ~MissingEntry(r)
    PROVE  Covered(r.active, r.seenSri)
<1> SUFFICES ASSUME NEW p \in Packages, r.active[p] # None
             PROVE  /\ <<p, r.active[p]>> \in DOMAIN r.seenSri
                    /\ r.seenSri[<<p, r.active[p]>>] = "good"
    BY DEF Covered
<1> DEFINE u == <<p, r.active[p]>>
<1>1. u \in DOMAIN r.seenSri
    BY DEF MissingEntry
<1>2. u[1] \notin down
    BY <1>1 DEF FetchFails
<1>. QED
    BY <1>1, <1>2 DEF HashMismatch

CoveredInv == \A c \in Checkers : ReportsOk(run[c]) => Covered(run[c].active, sri)

LEMMA PlaceAfterWrite ==
    ASSUME NEW r \in Runs
    PROVE  Written(r).pc # "done" /\ NotWritten(r).pc # "done"
<1>1. Undone(r).pc \in {"undoSri", "rescan"}
    BY DEF Undone, Runs
<1>2. Written(r).pc \in {"sri", "build", Undone(r).pc}
    BY DEF Written, Runs
<1>3. NotWritten(r).pc \in {"rescan", "undoCdn", Undone(r).pc}
    BY DEF NotWritten, Runs
<1>. QED
    BY <1>1, <1>2, <1>3

LEMMA CoveredStep ==
    Inv /\ OthersIdle /\ OneAtATime /\ CoveredInv /\ [Next]_vars => CoveredInv'
<1> SUFFICES ASSUME Inv, OthersIdle, OneAtATime, CoveredInv, [Next]_vars
             PROVE  CoveredInv'
    OBVIOUS
<1>1. ASSUME NEW c \in Checkers, Step(c) PROVE CoveredInv'
  <2>1. \A d \in Checkers \ {c} : run'[d] = run[d] /\ run[d] = Idle
    BY <1>1, OnlyClientsStep, StepMovesOne DEF OthersIdle, OneAtATime
  <2>2. \A d \in Checkers \ {c} : ~ReportsOk(run'[d])
    BY <2>1, IdleRests DEF ReportsOk
  <2>3. run[c] \in Runs /\ run \in [Checkers -> Runs]
    BY DEF Inv
  <2> SUFFICES ASSUME ReportsOk(run'[c]) PROVE Covered(run'[c].active, sri')
    BY <2>2 DEF CoveredInv
  <2>4. run'[c].pc = "done" /\ ~run'[c].alarm /\ ~run'[c].other
    BY DEF ReportsOk
  <2>5. CASE FirstReport(c) \/ SecondReport(c)
    <3> DEFINE r == [run[c] EXCEPT !.seenSri = SriEntries]
    <3>1. r \in Runs /\ r.seenSri = sri /\ r.active = run[c].active
      BY <2>3 DEF Inv, Runs, SriEntries
    <3>2. PICK down \in Outages :
              /\ run'[c].active = r.active
              /\ run'[c].alarm = (MajorOutdated(r, down) \/ HashMismatch(r, down))
              /\ run'[c].other = (FetchFails(r, down) \/ MissingEntry(r))
                 \/ run'[c].other = (r.other \/ FetchFails(r, down) \/ MissingEntry(r))
      <4>1. CASE FirstReport(c)
        <5>1. PICK down \in Outages : run' = [run EXCEPT ![c] = [r EXCEPT
                !.pc = IF r.autofix /\ Candidates(r, down) # {} THEN "origCdn" ELSE "done",
                !.cands = Candidates(r, down),
                !.alarm = MajorOutdated(r, down) \/ HashMismatch(r, down),
                !.other = FetchFails(r, down) \/ MissingEntry(r)]]
          BY <4>1 DEF FirstReport, Go
        <5> HIDE DEF r
        <5>. QED
          BY <2>3, <3>1, <5>1, ZenonT(60) DEF Runs
      <4>2. CASE SecondReport(c)
        <5>1. PICK down \in Outages : run' = [run EXCEPT ![c] = [r EXCEPT
                !.pc = "done",
                !.alarm = MajorOutdated(r, down) \/ HashMismatch(r, down),
                !.other = @ \/ FetchFails(r, down) \/ MissingEntry(r)]]
          BY <4>2 DEF SecondReport, Go
        <5> HIDE DEF r
        <5>. QED
          BY <2>3, <3>1, <5>1, ZenonT(60) DEF Runs
      <4>. QED
        BY <2>5, <4>1, <4>2
    <3>3. Covered(r.active, r.seenSri)
      BY <2>4, <3>1, <3>2, ReportCovers
    <3>4. sri' = sri
      BY <2>5 DEF FirstReport, SecondReport
    <3>. QED
      BY <3>1, <3>2, <3>3, <3>4
  <2>6. CASE Start(c) \/ Rescan(c) \/ ReadCdn(c) \/ ReadOriginalCdn(c) \/ ReadOriginalSri(c)
                \/ Fetch(c) \/ Build(c) \/ Cancel(c)
    <3>1. Start(c) => run'[c].pc # "done"
      BY <2>3 DEF Start, Go, Idle
    <3>2. Rescan(c) => run'[c].pc # "done"
      BY <2>3 DEF Rescan, Go, Runs
    <3>3. ReadCdn(c) => run'[c].pc # "done"
      BY <2>3 DEF ReadCdn, Go, Runs
    <3>4. ReadOriginalCdn(c) => run'[c].pc # "done"
      BY <2>3 DEF ReadOriginalCdn, Go, Runs
    <3>5. ReadOriginalSri(c) => run'[c].pc # "done"
      BY <2>3 DEF ReadOriginalSri, Go, Runs
    <3>6. Fetch(c) => run'[c].pc # "done"
      BY <2>3 DEF Fetch, Go, Runs
    <3>7. Build(c) => run'[c].pc # "done"
      BY <2>3 DEF Build, Go, Runs
    <3>8. Cancel(c) => run'[c].pc # "done"
      BY <2>3 DEF Cancel, Go, Idle
    <3>. QED
      BY <2>4, <2>6, <3>1, <3>2, <3>3, <3>4, <3>5, <3>6, <3>7, <3>8
  <2>7. CASE Truncate(c) \/ CannotOpen(c) \/ Fill(c) \/ CannotFill(c)
    <3>1. Truncate(c) => run'[c].pc # "done"
      BY <2>3 DEF Truncate, Go, WritesCdn, WritesSri, Runs
    <3>2. CannotOpen(c) => run'[c].pc # "done"
      BY <2>3, PlaceAfterWrite DEF CannotOpen, Go
    <3>3. [run[c] EXCEPT !.open = FALSE] \in Runs
      BY <2>3 DEF Runs
    <3>4. Fill(c) \/ CannotFill(c) => run'[c].pc # "done"
      BY <2>3, <3>3, PlaceAfterWrite DEF Fill, CannotFill, Go
    <3>. QED
      BY <2>4, <2>7, <3>1, <3>2, <3>4
  <2>. QED
    BY <1>1, <2>5, <2>6, <2>7 DEF Step
<1>2. ASSUME BuildSite \/ Release \/ Crash \/ UNCHANGED vars PROVE CoveredInv'
    BY <1>2, IdleRests DEF BuildSite, Release, Crash, vars, CoveredInv, ReportsOk
<1>. QED
    BY <1>1, <1>2 DEF Next

(* When a check that runs alone reports OK, each package of the pages it    *)
(* scanned has its entry in the hash file, with the right hash, also after *)
(* earlier checks that failed, were cancelled or crashed half-way.          *)
THEOREM OkMeansCoveredHolds == Spec => []OkMeansCovered
<1> DEFINE CInv == OneAtATime => CoveredInv
<1>1. Init => OthersIdle /\ CInv
    BY IdleRests DEF Init, OthersIdle, CoveredInv, ReportsOk
<1>2. Inv /\ OthersIdle /\ CInv /\ [Next]_vars => OthersIdle' /\ CInv'
  <2> SUFFICES ASSUME Inv, OthersIdle, CInv, [Next]_vars PROVE OthersIdle' /\ CInv'
    OBVIOUS
  <2>1. setup' = setup
    BY StepMovesOne DEF Next, BuildSite, Release, Crash, vars, bounds
  <2>. QED
    BY <2>1, OthersIdleStep, CoveredStep DEF OneAtATime
<1>3. CInv => OkMeansCovered
    BY DEF CoveredInv, Covered, OkMeansCovered
<1>. QED
    BY <1>1, <1>2, <1>3, Invariance, PTL DEF Spec

-----------------------------------------------------------------------------
(* Refinement: where a lone check is in its fix, and what the files then    *)
(* hold, while every write succeeds.                                       *)

HasCandidates(r) ==
    /\ r.cands # {}
    /\ \A k \in r.cands : /\ k.pkg \in DOMAIN r.seenCdn /\ k.old = r.seenCdn[k.pkg]
                          /\ SameMajor(k.old, k.new)
    /\ \A k, l \in r.cands : k.pkg = l.pkg => k = l

Fixing == {"origCdn", "origSri", "fetch", "cdn", "sri", "build"}

AsRead(r, versions, hashes) ==
    /\ r.open => WritesCdn(r) \/ WritesSri(r)
    /\ r.pc = "readSri" /\ ~r.post => r.seenCdn = versions
    /\ r.pc \in Fixing => HasCandidates(r)
    /\ r.pc \in {"origCdn", "origSri", "fetch"} => r.seenCdn = versions /\ r.seenSri = hashes
    /\ r.pc \in {"origSri", "fetch"} => r.origCdn = versions
    /\ r.pc = "fetch" => r.origSri = hashes
    /\ r.pc \in {"cdn", "sri", "build"} => r.origCdn = r.seenCdn /\ r.origSri = r.seenSri
    /\ r.pc = "cdn" => hashes = r.origSri /\ (r.open \/ versions = r.origCdn)
    /\ r.pc \in {"sri", "build"} => versions = FixedCdn(r)
    /\ r.pc = "build" => hashes = FixedSri(r)
    /\ r.pc = "undoCdn" => r.undoBoth
    /\ r.pc = "undoSri" => versions = r.origCdn

ReadInv == Sheltered => \A c \in Checkers : AsRead(run[c], cdn, sri)

LEMMA IdleAsRead ==
    ASSUME NEW versions, NEW hashes
    PROVE  AsRead(Idle, versions, hashes)
BY IdleRests DEF AsRead, Fixing

(* At most one candidate for a package, and it is newer than what was read. *)
LEMMA CandidatesOfRead ==
    ASSUME NEW r \in Runs, NEW down, Candidates(r, down) # {}
    PROVE  HasCandidates([r EXCEPT !.cands = Candidates(r, down)])
BY DEF HasCandidates, Candidates, Behind, Used, Runs

(* What a fix writes depends on the candidates and on what was read.        *)
LEMMA FixesAlike ==
    ASSUME NEW r, NEW q, q.cands = r.cands, q.origCdn = r.origCdn, q.origSri = r.origSri,
           q.seenSri = r.seenSri
    PROVE  FixedCdn(q) = FixedCdn(r) /\ FixedSri(q) = FixedSri(r)
<1>1. \A p, v : NewVersion(q, p, v) = NewVersion(r, p, v)
    BY DEF NewVersion
<1>2. Matched(q) = Matched(r)
    BY <1>1 DEF Matched
<1>. QED
    BY <1>1, <1>2 DEF FixedCdn, FixedSri

(* The step of a lone check.                                                *)
LEMMA LoneStep ==
    ASSUME Inv, OthersIdle, OneAtATime, NEW c \in Checkers, Step(c),
           AsRead(run'[c], cdn', sri')
    PROVE  ReadInv'
<1>1. \A d \in Checkers \ {c} : run'[d] = Idle
    BY OnlyClientsStep, StepMovesOne DEF OthersIdle, OneAtATime
<1>. QED
    BY <1>1, IdleAsRead DEF ReadInv

LEMMA ReadStep == Inv /\ OthersIdle /\ ReadInv /\ [Next]_vars => ReadInv'
<1> SUFFICES ASSUME Inv, OthersIdle, ReadInv, [Next]_vars PROVE ReadInv'
    OBVIOUS
<1>0. setup' = setup
    BY StepMovesOne DEF Next, BuildSite, Release, Crash, vars, bounds
<1>1. CASE ~Sheltered
    BY <1>0, <1>1 DEF ReadInv, Sheltered, OneAtATime, Happens
<1>2. CASE Sheltered
  <2>1. ASSUME NEW c \in Checkers, Step(c) PROVE ReadInv'
    <3>0. run[c] \in Runs /\ run \in [Checkers -> Runs] /\ AsRead(run[c], cdn, sri)
      BY <1>2 DEF Inv, ReadInv
    <3> DEFINE r == run[c]
    <3> SUFFICES AsRead(run'[c], cdn', sri')
      BY <1>2, <2>1, LoneStep DEF Sheltered
    <3>1. CASE Start(c)
      <4>1. run'[c].pc = "readCdn" /\ run'[c].open = FALSE
        BY <3>0, <3>1 DEF Start, Go, Idle
      <4>. QED
        BY <4>1 DEF AsRead, Fixing
    <3>2. CASE Rescan(c)
      <4>1. run'[c].pc = "readCdn" /\ run'[c].open = r.open /\ r.pc = "rescan"
        BY <3>0, <3>2 DEF Rescan, Go, Runs
      <4>. QED
        BY <3>0, <4>1 DEF AsRead, Fixing, WritesCdn, WritesSri
    <3>3. CASE ReadCdn(c)
      <4>1. /\ run'[c].pc = "readSri" /\ run'[c].open = r.open /\ r.pc = "readCdn"
            /\ run'[c].seenCdn = cdn /\ cdn' = cdn
        BY <3>0, <3>3 DEF ReadCdn, Go, Runs
      <4>. QED
        BY <3>0, <4>1 DEF AsRead, Fixing, WritesCdn, WritesSri
    <3>4. CASE FirstReport(c)
      <4> DEFINE q == [r EXCEPT !.seenSri = sri]
      <4>1. q \in Runs /\ q.seenSri = sri /\ q.seenCdn = cdn /\ q.open = FALSE
        BY <3>0, <3>4 DEF FirstReport, Inv, Runs, AsRead, WritesCdn, WritesSri
      <4>2. PICK down \in Outages : run'[c] = [q EXCEPT
                !.pc = IF q.autofix /\ Candidates(q, down) # {} THEN "origCdn" ELSE "done",
                !.cands = Candidates(q, down),
                !.alarm = MajorOutdated(q, down) \/ HashMismatch(q, down),
                !.other = FetchFails(q, down) \/ MissingEntry(q)]
        BY <3>0, <3>4 DEF FirstReport, Go, SriEntries
      <4> HIDE DEF q
      <4>3. /\ run'[c].pc = IF q.autofix /\ Candidates(q, down) # {} THEN "origCdn" ELSE "done"
            /\ run'[c].cands = Candidates(q, down) /\ run'[c].open = FALSE
            /\ run'[c].seenCdn = cdn /\ run'[c].seenSri = sri
        BY <4>1, <4>2 DEF Runs
      <4>4. Candidates(q, down) # {} => HasCandidates(run'[c])
        BY <4>1, <4>3, CandidatesOfRead DEF HasCandidates, Runs
      <4>5. UNCHANGED <<cdn, sri>>
        BY <3>4 DEF FirstReport
      <4>. QED
        BY <4>3, <4>4, <4>5 DEF AsRead, Fixing
    <3>5. CASE SecondReport(c)
      <4>1. run'[c].pc = "done" /\ run'[c].open = r.open /\ r.pc = "readSri"
        BY <3>0, <3>5 DEF SecondReport, Go, Runs
      <4>. QED
        BY <3>0, <4>1 DEF AsRead, Fixing, WritesCdn, WritesSri
    <3>6. CASE ReadOriginalCdn(c)
      <4>1. /\ run'[c] = [r EXCEPT !.pc = "origSri", !.origCdn = cdn]
            /\ r.pc = "origCdn" /\ UNCHANGED <<cdn, sri>>
        BY <3>0, <3>6 DEF ReadOriginalCdn, Go
      <4>. QED
        BY <3>0, <4>1 DEF AsRead, Fixing, WritesCdn, WritesSri, HasCandidates, Runs
    <3>7. CASE ReadOriginalSri(c)
      <4>1. /\ run'[c] = [r EXCEPT !.pc = "fetch", !.origSri = sri]
            /\ r.pc = "origSri" /\ UNCHANGED <<cdn, sri>>
        BY <3>0, <3>7 DEF ReadOriginalSri, Go
      <4>. QED
        BY <3>0, <4>1 DEF AsRead, Fixing, WritesCdn, WritesSri, HasCandidates, Runs
    <3>8. CASE Fetch(c)
      <4>1. /\ run'[c] \in {[r EXCEPT !.pc = "cdn"], [r EXCEPT !.pc = "rescan", !.other = TRUE]}
            /\ r.pc = "fetch" /\ UNCHANGED <<cdn, sri>>
        BY <3>0, <3>8 DEF Fetch, Go
      <4>. QED
        BY <3>0, <4>1 DEF AsRead, Fixing, WritesCdn, WritesSri, HasCandidates, Runs
    <3>9. CASE Truncate(c)
      <4>1. /\ run'[c] = [r EXCEPT !.open = TRUE]
            /\ WritesCdn(r) \/ WritesSri(r)
            /\ WritesCdn(r) => sri' = sri
            /\ WritesSri(r) => cdn' = cdn
        BY <3>0, <3>9 DEF Truncate, Go, Put, WritesCdn, WritesSri
      <4>2. FixedCdn(run'[c]) = FixedCdn(r)
        BY <3>0, <4>1, FixesAlike DEF Runs
      <4>. QED
        BY <3>0, <4>1, <4>2 DEF AsRead, Fixing, WritesCdn, WritesSri, HasCandidates, Runs
    <3>10. CASE CannotOpen(c) \/ CannotFill(c)
      BY <1>2, <3>10 DEF Sheltered, CannotOpen, CannotFill
    <3>11. CASE Fill(c)
      <4> DEFINE s == [r EXCEPT !.open = FALSE]
      <4>1. /\ run'[c] = Written(s) /\ r.open
            /\ IF r.pc \in {"cdn", "sri"} THEN Put(r, FixedCdn(r), FixedSri(r))
                                          ELSE Put(r, r.origCdn, r.origSri)
        BY <3>0, <3>11 DEF Fill, Go
      <4>2. r.pc \in {"cdn", "sri", "undoCdn", "undoSri"}
        BY <3>0, <4>1 DEF AsRead, WritesCdn, WritesSri
      <4>3. CASE r.pc = "cdn"
        <5>1. run'[c] = [s EXCEPT !.pc = "sri"] /\ cdn' = FixedCdn(r) /\ sri' = sri
          BY <3>0, <4>1, <4>3 DEF Written, Put, WritesCdn, WritesSri, Runs
        <5>2. FixedCdn(run'[c]) = FixedCdn(r)
          BY <3>0, <5>1, FixesAlike DEF Runs
        <5>. QED
          BY <3>0, <4>3, <5>1, <5>2 DEF AsRead, Fixing, WritesCdn, WritesSri, HasCandidates, Runs
      <4>4. CASE r.pc = "sri"
        <5>1. run'[c] = [s EXCEPT !.pc = "build"] /\ sri' = FixedSri(r) /\ cdn' = cdn
          BY <3>0, <4>1, <4>4 DEF Written, Put, WritesCdn, WritesSri, Runs
        <5>2. FixedCdn(run'[c]) = FixedCdn(r) /\ FixedSri(run'[c]) = FixedSri(r)
          BY <3>0, <5>1, FixesAlike DEF Runs
        <5>. QED
          BY <3>0, <4>4, <5>1, <5>2 DEF AsRead, Fixing, WritesCdn, WritesSri, HasCandidates, Runs
      <4>5. CASE r.pc = "undoCdn"
        <5>1. run'[c] = [s EXCEPT !.pc = "undoSri"] /\ cdn' = r.origCdn
          BY <3>0, <4>1, <4>5 DEF Written, Undone, Put, WritesCdn, WritesSri, Runs, AsRead
        <5>. QED
          BY <3>0, <5>1 DEF AsRead, Fixing, WritesCdn, WritesSri, Runs
      <4>6. CASE r.pc = "undoSri"
        <5>1. run'[c] = [s EXCEPT !.pc = "rescan"]
          BY <3>0, <4>1, <4>6 DEF Written, Undone, Put, WritesCdn, WritesSri, Runs
        <5>. QED
          BY <3>0, <5>1 DEF AsRead, Fixing, Runs
      <4>. QED
        BY <4>2, <4>3, <4>4, <4>5, <4>6
    <3>12. CASE Build(c)
      <4>1. /\ \/ run'[c] = [r EXCEPT !.pc = "rescan", !.fixed = TRUE]
               \/ run'[c] = [r EXCEPT !.pc = "undoCdn", !.undoBoth = TRUE, !.other = TRUE]
            /\ r.pc = "build"
        BY <3>0, <3>12 DEF Build, Go
      <4>. QED
        BY <3>0, <4>1 DEF AsRead, Fixing, WritesCdn, WritesSri, Runs
    <3>13. CASE Cancel(c)
      <4>1. run'[c] = Idle
        BY <3>0, <3>13 DEF Cancel, Go
      <4>. QED
        BY <4>1, IdleAsRead
    <3>. QED
      BY <2>1, <3>1, <3>2, <3>3, <3>4, <3>5, <3>6, <3>7, <3>8, <3>9, <3>10, <3>11, <3>12,
         <3>13 DEF Step
  <2>2. ASSUME BuildSite \/ Release \/ Crash \/ UNCHANGED vars PROVE ReadInv'
    BY <1>0, <1>2, <2>2, IdleAsRead
       DEF BuildSite, Release, Crash, vars, ReadInv, Sheltered, OneAtATime, Happens
  <2>. QED
    BY <2>1, <2>2 DEF Next
<1>. QED
    BY <1>1, <1>2

(* What the refinement mapping shows when one check runs alone.             *)
Busy == {"cdn", "sri", "build", "undoCdn", "undoSri"}

FilesOf(r, versions, hashes) ==
    IF r.pc \in Busy THEN <<r.origCdn, r.origSri>> ELSE <<versions, hashes>>

LEMMA Mapping ==
    ASSUME OthersIdle, NEW c \in Checkers, setup.clients = {c}
    PROVE  <<SettledCdn, SettledSri>> = FilesOf(run[c], cdn, sri)
<1>1. \A d \in Checkers \ {c} : run[d].pc \notin Busy
    BY IdleRests DEF OthersIdle, Busy
<1>2. CASE run[c].pc \in Busy
  <2>1. Unsettled = {c}
    BY <1>1, <1>2 DEF Unsettled, Busy
  <2>2. (CHOOSE d \in Unsettled : TRUE) = c
    BY <2>1
  <2>. QED
    BY <1>2, <2>1, <2>2 DEF SettledCdn, SettledSri, FilesOf
<1>3. CASE run[c].pc \notin Busy
  <2>1. Unsettled = {}
    BY <1>1, <1>3 DEF Unsettled, Busy
  <2>. QED
    BY <1>3, <2>1 DEF SettledCdn, SettledSri, FilesOf
<1>. QED
    BY <1>2, <1>3

(* A version that has a candidate is replaced by it, any other stays.       *)
LEMMA NewVersionIs ==
    ASSUME NEW r \in Runs, HasCandidates(r), NEW p, NEW v
    PROVE  /\ \A k \in r.cands : k.pkg = p /\ k.old = v => NewVersion(r, p, v) = k.new
           /\ (\A k \in r.cands : ~(k.pkg = p /\ k.old = v)) => NewVersion(r, p, v) = v
<1> DEFINE hits == {k \in r.cands : k.pkg = p /\ k.old = v}
<1>1. ASSUME NEW k \in r.cands, k.pkg = p, k.old = v PROVE NewVersion(r, p, v) = k.new
  <2>1. hits = {k}
    BY <1>1 DEF HasCandidates
  <2>2. (CHOOSE l \in hits : TRUE) = k
    BY <2>1
  <2> HIDE DEF hits
  <2>. QED
    BY <2>1, <2>2 DEF NewVersion, hits
<1>2. ASSUME \A k \in r.cands : ~(k.pkg = p /\ k.old = v) PROVE NewVersion(r, p, v) = v
    BY <1>2 DEF NewVersion
<1>. QED
    BY <1>1, <1>2

(* The files as the fix writes them are one step of the contract.           *)
LEMMA FixIsAtomic ==
    ASSUME setup \in Setups, NEW r \in Runs, HasCandidates(r),
           r.origCdn = r.seenCdn, r.origSri = r.seenSri,
           SettledCdn = r.origCdn, SettledSri = r.origSri,
           SettledCdn' = FixedCdn(r), SettledSri' = FixedSri(r)
    PROVE  Contract!Fix
<1> DEFINE f == r.origCdn
           h == r.origSri
           moved == {k.pkg : k \in r.cands}
           of(p) == CHOOSE k \in r.cands : k.pkg = p
           to == [p \in moved |-> of(p).new]
<1>1. /\ f \in KeptFiles /\ h \in HashFiles /\ r.cands \subseteq Moves
    BY DEF Runs
<1>2. \A k \in r.cands : /\ k.pkg \in DOMAIN f /\ k.old = f[k.pkg] /\ k.new \in Versions
                         /\ Older(k.old, k.new) /\ SameMajor(k.old, k.new)
    BY <1>1 DEF HasCandidates, Moves
<1>3. \A k \in r.cands : of(k.pkg) = k
    BY DEF HasCandidates
<1>4. \A p \in moved : of(p) \in r.cands /\ of(p).pkg = p
    BY <1>3
<1> HIDE DEF of
<1>5. moved \in (SUBSET DOMAIN f) \ {{}} /\ to \in [moved -> Versions]
    BY <1>2, <1>4 DEF HasCandidates
<1>6. \A p \in moved : Contract!Upgrade(f[p], to[p])
  <2> SUFFICES ASSUME NEW p \in moved PROVE Contract!Upgrade(f[p], to[p])
    OBVIOUS
  <2>1. /\ to[p] = of(p).new /\ f[p] = of(p).old
        /\ Older(of(p).old, of(p).new) /\ SameMajor(of(p).old, of(p).new)
        /\ of(p).new \in Versions /\ f[p] \in Versions
    BY <1>1, <1>2, <1>4, FileFacts
  <2>. QED
    BY <2>1, SriAssumption DEF Older, SameMajor, Contract!Upgrade
<1>7. \A p, v : NewVersion(r, p, v) = IF p \in moved /\ v = f[p] THEN to[p] ELSE v
  <2> SUFFICES ASSUME NEW p, NEW v
               PROVE  NewVersion(r, p, v) = IF p \in moved /\ v = f[p] THEN to[p] ELSE v
    OBVIOUS
  <2>1. CASE p \in moved /\ v = f[p]
    BY <2>1, <1>2, <1>4, NewVersionIs
  <2>2. CASE ~(p \in moved /\ v = f[p])
    BY <2>2, <1>2, NewVersionIs
  <2>. QED
    BY <2>1, <2>2
<1> HIDE DEF moved, to
<1>8. FixedCdn(r) = [p \in DOMAIN f |-> IF p \in moved THEN to[p] ELSE f[p]]
  <2>1. \A p \in DOMAIN f : NewVersion(r, p, f[p]) = IF p \in moved THEN to[p] ELSE f[p]
    BY <1>7
  <2>. QED
    BY <2>1 DEF FixedCdn
<1>9. FixedSri(r) = Contract!Moved(to)
  <2> DEFINE stale == {u \in DOMAIN h : u[1] \in DOMAIN to /\ u[2] = f[u[1]]}
             fresh == {<<u[1], to[u[1]]>> : u \in stale}
  <2>1. \A p \in moved : to[p] # f[p]
    <3> SUFFICES ASSUME NEW p \in moved PROVE to[p] # f[p]
      OBVIOUS
    <3>1. f[p] \in Versions
      BY <1>1, <1>5, FileFacts
    <3>2. f[p][2] \in Nat
      BY <3>1, SriAssumption
    <3>. QED
      BY <3>2, <1>6 DEF Contract!Upgrade
  <2>2. Matched(r) = stale
    <3>1. \A u : NewVersion(r, u[1], u[2]) # u[2] <=> u[1] \in moved /\ u[2] = f[u[1]]
      BY <1>7, <2>1
    <3>2. DOMAIN to = moved
      BY <1>5
    <3>. QED
      BY <3>1, <3>2 DEF Matched
  <2>3. \A u \in stale : NewVersion(r, u[1], u[2]) = to[u[1]]
    BY <1>5, <1>7
  <2>4. {<<u[1], NewVersion(r, u[1], u[2])>> : u \in Matched(r)} = fresh
    BY <2>2, <2>3
  <2>5. FixedSri(r) = [u \in fresh \cup (DOMAIN h \ stale) |-> IF u \in fresh THEN "good" ELSE h[u]]
    BY <2>2, <2>4, Zenon DEF FixedSri
  <2>6. Contract!Moved(to)
          = [u \in fresh \cup (DOMAIN h \ stale) |-> IF u \in fresh THEN "good" ELSE h[u]]
    BY Zenon DEF Contract!Moved
  <2>. QED
    BY <2>5, <2>6
<1>. QED
    BY <1>5, <1>6, <1>8, <1>9 DEF Contract!Fix

(* Every step of a lone check is a step of the contract or none, but for a   *)
(* crash.                                                                  *)
LEMMA ContractStep ==
    ASSUME Inv, OthersIdle, ReadInv, Inv', OthersIdle', Sheltered, [Next]_vars
    PROVE  Contract!Fix \/ Crash \/ UNCHANGED <<SettledCdn, SettledSri>>
<1> PICK c \in Checkers : setup.clients = {c}
    BY DEF Sheltered, OneAtATime
<1>0. setup' = setup
    BY StepMovesOne DEF Next, BuildSite, Release, Crash, vars, bounds
<1> DEFINE r == run[c]
<1>1. /\ <<SettledCdn, SettledSri>> = FilesOf(r, cdn, sri)
      /\ <<SettledCdn, SettledSri>>' = FilesOf(run'[c], cdn', sri')
  <2>1. (OthersIdle /\ c \in Checkers /\ setup.clients = {c}
            => <<SettledCdn, SettledSri>> = FilesOf(run[c], cdn, sri))'
    BY Mapping, PTL
  <2>. QED
    BY <2>1, <1>0, Mapping
<1>2. r \in Runs /\ run \in [Checkers -> Runs] /\ AsRead(r, cdn, sri)
    BY DEF Inv, ReadInv
<1>3. ASSUME run'[c].pc \in Busy <=> r.pc \in Busy,
             r.pc \in Busy => run'[c].origCdn = r.origCdn /\ run'[c].origSri = r.origSri,
             r.pc \notin Busy => UNCHANGED <<cdn, sri>>
      PROVE  UNCHANGED <<SettledCdn, SettledSri>>
    BY <1>1, <1>3 DEF FilesOf
<1>4. ASSUME NEW d \in Checkers, Step(d) PROVE d = c
    BY <1>4, OnlyClientsStep
<1>5. CASE Start(c) \/ Cancel(c)
  <2>1. \/ run'[c].pc = "readCdn"
        \/ run'[c] = Idle
    <3>1. CASE Start(c)
      BY <1>2, <3>1 DEF Start, Go, Idle
    <3>2. CASE Cancel(c)
      BY <1>2, <3>2 DEF Cancel, Go
    <3>. QED
      BY <1>5, <3>1, <3>2
  <2>2. r.pc \notin Busy /\ UNCHANGED <<cdn, sri>>
    BY <1>5 DEF Start, Cancel, Busy
  <2>. QED
    BY <1>3, <2>1, <2>2, IdleRests DEF Busy
<1>6. CASE Rescan(c) \/ ReadCdn(c) \/ ReadOriginalCdn(c) \/ ReadOriginalSri(c)
  <2>1. run'[c].pc \in {"readCdn", "readSri", "origSri", "fetch"}
    <3>1. CASE Rescan(c)
      BY <1>2, <3>1 DEF Rescan, Go, Runs
    <3>2. CASE ReadCdn(c)
      BY <1>2, <3>2 DEF ReadCdn, Go, Runs
    <3>3. CASE ReadOriginalCdn(c)
      BY <1>2, <3>3 DEF ReadOriginalCdn, Go, Runs
    <3>4. CASE ReadOriginalSri(c)
      BY <1>2, <3>4 DEF ReadOriginalSri, Go, Runs
    <3>. QED
      BY <1>6, <3>1, <3>2, <3>3, <3>4
  <2>2. r.pc \notin Busy /\ UNCHANGED <<cdn, sri>>
    BY <1>6 DEF Rescan, ReadCdn, ReadOriginalCdn, ReadOriginalSri, Busy
  <2>. QED
    BY <1>3, <2>1, <2>2 DEF Busy
<1>7. CASE FirstReport(c) \/ SecondReport(c)
  <2>1. run'[c].pc \in {"origCdn", "done"}
    <3>1. CASE FirstReport(c)
      BY <1>2, <3>1 DEF FirstReport, Go, Runs
    <3>2. CASE SecondReport(c)
      BY <1>2, <3>2 DEF SecondReport, Go, Runs
    <3>. QED
      BY <1>7, <3>1, <3>2
  <2>2. r.pc \notin Busy /\ UNCHANGED <<cdn, sri>>
    BY <1>7 DEF FirstReport, SecondReport, Busy
  <2>. QED
    BY <1>3, <2>1, <2>2 DEF Busy
<1>8. CASE Fetch(c)
  <2>1. /\ \/ run'[c] = [r EXCEPT !.pc = "cdn"]
           \/ run'[c] = [r EXCEPT !.pc = "rescan", !.other = TRUE]
        /\ r.pc = "fetch" /\ UNCHANGED <<cdn, sri>>
    BY <1>2, <1>8 DEF Fetch, Go
  <2>2. r.origCdn = cdn /\ r.origSri = sri
    BY <1>2, <2>1 DEF AsRead
  <2>. QED
    BY <1>1, <1>2, <2>1, <2>2 DEF FilesOf, Busy, Runs
<1>9. CASE Truncate(c)
  <2>1. run'[c] = [r EXCEPT !.open = TRUE] /\ r.pc \in Busy
    BY <1>2, <1>9 DEF Truncate, Go, WritesCdn, WritesSri, Busy
  <2>. QED
    BY <1>2, <1>3, <2>1 DEF Runs
<1>10. CASE CannotOpen(c) \/ CannotFill(c)
    BY <1>10 DEF CannotOpen, CannotFill, Sheltered
<1>11. CASE Fill(c)
  <2> DEFINE s == [r EXCEPT !.open = FALSE]
  <2>1. /\ run'[c] = Written(s) /\ r.open
        /\ IF r.pc \in {"cdn", "sri"} THEN Put(r, FixedCdn(r), FixedSri(r))
                                      ELSE Put(r, r.origCdn, r.origSri)
    BY <1>2, <1>11 DEF Fill, Go
  <2>2. r.pc \in {"cdn", "sri", "undoCdn", "undoSri"}
    BY <1>2, <2>1 DEF AsRead, WritesCdn, WritesSri
  <2>3. CASE r.pc # "undoSri"
    <3>1. run'[c] \in {[s EXCEPT !.pc = q] : q \in {"sri", "build", "undoSri"}}
      BY <1>2, <2>1, <2>2, <2>3 DEF Written, Undone, Runs, AsRead
    <3>. QED
      BY <1>2, <1>3, <2>2, <3>1 DEF Busy, Runs
  <2>4. CASE r.pc = "undoSri"
    <3>1. run'[c] = [s EXCEPT !.pc = "rescan"] /\ cdn' = cdn /\ sri' = r.origSri
      BY <1>2, <2>1, <2>4 DEF Written, Undone, Put, WritesCdn, WritesSri, Runs
    <3>2. cdn = r.origCdn
      BY <1>2, <2>4 DEF AsRead
    <3>. QED
      BY <1>1, <1>2, <2>4, <3>1, <3>2 DEF FilesOf, Busy, Runs
  <2>. QED
    BY <2>3, <2>4
<1>12. CASE Build(c)
  <2>1. CASE run'[c] = [r EXCEPT !.pc = "rescan", !.fixed = TRUE]
    <3>1. run'[c].pc = "rescan" /\ r.pc = "build" /\ UNCHANGED <<cdn, sri>>
      BY <1>2, <1>12, <2>1 DEF Build, Runs
    <3>2. /\ SettledCdn = r.origCdn /\ SettledSri = r.origSri
          /\ SettledCdn' = cdn /\ SettledSri' = sri
      BY <1>1, <3>1 DEF FilesOf, Busy
    <3>3. /\ HasCandidates(r) /\ r.origCdn = r.seenCdn /\ r.origSri = r.seenSri
          /\ cdn = FixedCdn(r) /\ sri = FixedSri(r)
      BY <1>2, <3>1 DEF AsRead, Fixing
    <3>. QED
      BY <1>2, <3>2, <3>3, FixIsAtomic DEF Inv
  <2>2. CASE run'[c] = [r EXCEPT !.pc = "undoCdn", !.undoBoth = TRUE, !.other = TRUE]
    BY <1>2, <1>3, <1>12, <2>2 DEF Build, Busy, Runs
  <2>. QED
    BY <1>2, <1>12, <2>1, <2>2 DEF Build, Go
<1>13. CASE BuildSite \/ Release \/ UNCHANGED vars
    BY <1>3, <1>13 DEF BuildSite, Release, vars
<1>. QED
    BY <1>4, <1>5, <1>6, <1>7, <1>8, <1>9, <1>10, <1>11, <1>12, <1>13 DEF Next, Step

(* With one check at a time and writes that succeed an autofix is atomic:   *)
(* both files change together, to newer versions of the same major and     *)
(* their hashes, or a failed build or a missing address puts both back.     *)
(* Only a crash in the middle of a fix shows.                               *)
THEOREM ImplementsContractHolds == Spec => ImplementsContract
<1>1. Init => Contract!Init
  <2> SUFFICES ASSUME Init PROVE Contract!Init
    OBVIOUS
  <2>1. Unsettled = {}
    BY IdleRests DEF Init, Unsettled
  <2>2. SettledCdn = cdn /\ SettledSri = sri
    BY <2>1 DEF SettledCdn, SettledSri
  <2>3. cdn \in KeptFiles /\ sri \in HashFiles
    BY InvInit DEF Inv
  <2>. QED
    BY <2>2, <2>3, FileFacts DEF Contract!Init, Urls
<1>2. Init => OthersIdle /\ ReadInv
    BY IdleRests, IdleAsRead DEF Init, OthersIdle, ReadInv
<1>3. Inv /\ Inv' /\ OthersIdle /\ OthersIdle' /\ ReadInv /\ [Next]_vars =>
          [Sheltered => Contract!Fix \/ Crash]_<<SettledCdn, SettledSri>>
    BY ContractStep
<1>. QED
    BY <1>1, <1>2, <1>3, Invariance, OthersIdleStep, ReadStep, PTL
    DEF Spec, ImplementsContract

=============================================================================
