---------------------------- MODULE FeaturedImage ----------------------------
(***************************************************************************)
(* generate_featured_image (internal/tools/parity_tools.go) beside other   *)
(* calls on the same page.  It looks for the languages of the page, writes *)
(* the picture in place under static/images, names it in the frontmatter   *)
(* of one language after the other, or builds the site when no route is    *)
(* given.  Nothing locks the picture or the pages, every step may fail,    *)
(* only some failures remove the picture, and the process may crash.       *)
(*                                                                         *)
(* A page is what its featuredImage field names.  update_page and          *)
(* delete_page are reduced to the reads and writes PageStore shows in full. *)
(***************************************************************************)
EXTENDS Naturals, FiniteSets, Sequences, SequencesExt

CONSTANTS Callers, Slugs,
          Mixes,      \* what the callers ask of which site: see MixOf
          Origin,     \* who made the pictures found at the start
          Absent,     \* no file
          NoImage,    \* a page without a featuredImage
          Empty,      \* a picture that was opened and not yet written
          Broken      \* a picture that is cut off or of two callers

Names == {"fr", "en", "plain"}     \* index.fr.md, index.en.md, index.md
Tools == {"generate_featured_image", "update_page", "delete_page"}

(* asks: each caller's [tool, lang, slug, routed, valid]; lang "plain" is no *)
(* language.  found: the pages at the start.  shown: the slugs that have a   *)
(* picture and that the pages found name.                                    *)
MixOf(asks) == [asks : {asks}, found : SUBSET Names, shown : SUBSET Slugs]

ASSUME FeaturedAssumption ==
    /\ Origin \notin Callers
    /\ {Absent, Empty, Broken} \cap (Callers \cup {Origin}) = {}
    /\ Absent # Empty /\ Absent # Broken /\ Empty # Broken
    /\ {Absent, NoImage} \cap Slugs = {} /\ Absent # NoImage
    /\ \A m \in Mixes :
         /\ m \in MixOf(m.asks) /\ Cardinality(m.shown) <= 1
         /\ m.asks \in [Callers -> [tool : Tools, lang : Names, slug : Slugs,
                                   routed : BOOLEAN, valid : BOOLEAN]]

VARIABLES
    mix,       \* what the callers ask
    image,     \* the picture under each slug: its maker, Empty, Broken, Absent
    detached,  \* calls whose open picture was removed
    page,      \* what each page's featuredImage names, or Absent
    pc, status,
    langs,     \* languages found by each call
    todo,      \* languages that each call has still to update
    target, read, \* the page an update has found, and what it read there
    since,     \* (history) calls that ran with each call or began after it
    drawn      \* (history) calls that have written their picture

fileVars  == <<image, detached, page>>
localVars == <<langs, todo, target, read>>
vars == <<mix, fileVars, pc, status, localVars, since, drawn>>

Makers == Callers \cup {Origin}
PCs == {"idle", "fr", "en", "plain", "open", "write", "stat", "find", "put", "build",
        "cleanup", "end"}

Ask(c)     == mix.asks[c]
Slug(c)    == Ask(c).slug
Running(c) == pc[c] \notin {"idle", "end"}

Init ==
    /\ mix \in Mixes
    /\ image = [s \in Slugs |-> IF s \in mix.shown THEN Origin ELSE Absent]
    /\ \E named \in IF mix.shown = {} THEN {NoImage} ELSE mix.shown :
           page = [n \in Names |-> IF n \in mix.found THEN named ELSE Absent]
    /\ detached = {}
    /\ pc = [c \in Callers |-> "idle"] /\ status = [c \in Callers |-> "none"]
    /\ langs = [c \in Callers |-> {}] /\ todo = [c \in Callers |-> <<>>]
    /\ target = [c \in Callers |-> "plain"] /\ read = [c \in Callers |-> NoImage]
    /\ since = [c \in Callers |-> {}] /\ drawn = {}

-----------------------------------------------------------------------------
(* Helpers *)

Goto(c, place) == pc' = [pc EXCEPT ![c] = place] /\ UNCHANGED status

End(c, how) == /\ pc' = [pc EXCEPT ![c] = "end"]
               /\ status' = [status EXCEPT ![c] = how]

(* findPage: the page in its language, or else index.md.                   *)
Found(n) == IF page[n] # Absent THEN {n} ELSE {m \in {"plain"} : page[m] # Absent}

\* Mutant of Matches: the page that was found may be in no language.
MatchesAny(n, found) == TRUE

(* Only a page whose file is named for the language counts.                *)
Matches(n, found) == found = n

Begins(c) == since' = [d \in Callers |->
    IF d = c THEN {e \in Callers : Running(e)}
    ELSE IF pc[d] = "idle" THEN since[d] ELSE since[d] \cup {c}]

-----------------------------------------------------------------------------
(* generate_featured_image: the checks, and whether there is a route.      *)
Generate(c) ==
    /\ pc[c] = "idle" /\ Ask(c).tool = "generate_featured_image"
    /\ IF ~Ask(c).valid THEN End(c, "error")
       ELSE Goto(c, IF Ask(c).routed THEN "fr" ELSE "open")
    /\ Begins(c)
    /\ UNCHANGED <<mix, fileVars, localVars, drawn>>

\* Mutant of AfterLookUp: index.md is looked for as well.
PlainAsWell(n, found) == IF n = "fr" THEN "en" ELSE "plain"

(* Only without any language will index.md do.                             *)
AfterLookUp(n, found) == IF n = "fr" THEN "en" ELSE IF found = {} THEN "plain" ELSE "open"

Learn(c, n) == /\ langs' = [langs EXCEPT ![c] = @ \cup {n}]
               /\ todo'  = [todo EXCEPT ![c] = Append(@, n)]

(* featuredImageTargetLangs: Get for fr, then for en; what is not found, or *)
(* cannot be read, is passed over.                                         *)
LookUpLang(c) ==
    LET n == pc[c] IN
    /\ n \in {"fr", "en"}
    /\ \/ /\ \E found \in Found(n) : Matches(n, found)
          /\ Learn(c, n)
       \/ UNCHANGED <<langs, todo>>
    /\ Goto(c, AfterLookUp(n, langs'[c]))
    /\ UNCHANGED <<mix, fileVars, target, read, since, drawn>>

LookUpPlain(c) ==
    /\ pc[c] = "plain"
    /\ \/ page["plain"] # Absent /\ Learn(c, "plain") /\ Goto(c, "open")
       \/ End(c, "error") /\ UNCHANGED <<langs, todo>>
    /\ UNCHANGED <<mix, fileVars, target, read, since, drawn>>

(* MkdirAll, and os.WriteFile's open, which empties the file.              *)
Truncate(c) ==
    /\ pc[c] = "open"
    /\ \/ image' = [image EXCEPT ![Slug(c)] = Empty] /\ Goto(c, "write")
       \/ End(c, "error") /\ UNCHANGED image
    /\ UNCHANGED <<mix, detached, page, localVars, since, drawn>>

(* Over the picture of another call the shorter one leaves the other's rest. *)
Filled(c) == IF image[Slug(c)] = Empty THEN {c} ELSE {c, Broken}

(* os.WriteFile's write.  One that fails may leave a part, and ends the call *)
(* before there is anything to clean up.                                   *)
Render(c) ==
    /\ pc[c] = "write"
    /\ IF c \in detached THEN UNCHANGED image
       ELSE \E picture \in Filled(c) : image' = [image EXCEPT ![Slug(c)] = picture]
    /\ drawn' = drawn \cup {c}
    /\ Goto(c, "stat")
    /\ UNCHANGED <<mix, detached, page, localVars, since>>

CannotRender(c) ==
    /\ pc[c] = "write"
    /\ \/ UNCHANGED image
       \/ c \notin detached /\ image' = [image EXCEPT ![Slug(c)] = Broken]
    /\ End(c, "error")
    /\ UNCHANGED <<mix, detached, page, localVars, since, drawn>>

(* os.Stat; from here an error in err removes the picture.                 *)
Stat(c) ==
    /\ pc[c] = "stat"
    /\ Goto(c, IF image[Slug(c)] = Absent THEN "cleanup"
               ELSE IF langs[c] # {} THEN "find" ELSE "build")
    /\ UNCHANGED <<mix, fileVars, localVars, since, drawn>>

-----------------------------------------------------------------------------
\* Mutant of UpdateFails: the error of an update is cleaned up after.
UpdateCleansUp(c) == IF Ask(c).tool = "generate_featured_image" THEN Goto(c, "cleanup")
                     ELSE End(c, "error")

(* updateErr is not err, which is what the deferred cleanup looks at.      *)
UpdateFails(c) == End(c, "error")

\* The page that the call is about now.
Wanted(c) == IF Ask(c).tool = "generate_featured_image" THEN Head(todo[c]) ELSE Ask(c).lang

(* PageMutations.Update and Delete begin with Get, in full in PageStore.   *)
Change(c) ==
    /\ pc[c] = "idle" /\ Ask(c).tool # "generate_featured_image"
    /\ IF Ask(c).valid THEN Goto(c, "find") ELSE End(c, "error")
    /\ Begins(c)
    /\ UNCHANGED <<mix, fileVars, localVars, drawn>>

Find(c) ==
    /\ pc[c] = "find"
    /\ \/ \E found \in Found(Wanted(c)) :
             /\ target' = [target EXCEPT ![c] = found]
             /\ read' = [read EXCEPT ![c] = page[found]]
             /\ Goto(c, "put")
       \/ UpdateFails(c) /\ UNCHANGED <<target, read>>
    /\ UNCHANGED <<mix, fileVars, langs, todo, since, drawn>>

(* The rename that shows the new page, or the unlink.  An update_page that  *)
(* does not name the field carries along what it has read.                 *)
NewPage(c) ==
    CASE Ask(c).tool = "generate_featured_image" -> Slug(c)
      [] Ask(c).tool = "update_page"             -> read[c]
      [] OTHER                                   -> Absent

Put(c) ==
    /\ pc[c] = "put"
    /\ Ask(c).tool = "delete_page" => page[target[c]] # Absent
    /\ page' = [page EXCEPT ![target[c]] = NewPage(c)]
    /\ IF Ask(c).tool = "generate_featured_image"
       THEN /\ todo' = [todo EXCEPT ![c] = Tail(@)]
            /\ IF Tail(todo[c]) = <<>> THEN End(c, "ok") ELSE Goto(c, "find")
       ELSE End(c, "ok") /\ UNCHANGED todo
    /\ UNCHANGED <<mix, image, detached, langs, target, read, since, drawn>>

CannotPut(c) ==
    /\ pc[c] = "put"
    /\ UpdateFails(c)
    /\ UNCHANGED <<mix, fileVars, localVars, since, drawn>>

-----------------------------------------------------------------------------
\* Mutant of BuildFails: the error is one of the block's own.
BuildKeeps(c) == End(c, "error")

(* The error goes into err, so the deferred cleanup acts on it.            *)
BuildFails(c) == Goto(c, "cleanup")

Build(c) ==
    /\ pc[c] = "build"
    /\ End(c, "ok") \/ BuildFails(c)
    /\ UNCHANGED <<mix, fileVars, localVars, since, drawn>>

(* The deferred os.Remove, whoever made the picture.                       *)
CleanUp(c) ==
    /\ pc[c] = "cleanup"
    /\ image' = [image EXCEPT ![Slug(c)] = Absent]
    /\ detached' = detached \cup {d \in Callers : pc[d] = "write" /\ Slug(d) = Slug(c)}
    /\ End(c, "error")
    /\ UNCHANGED <<mix, page, localVars, since, drawn>>

(* The process dies; what was written stays.                               *)
Crash ==
    /\ \E c \in Callers : Running(c)
    /\ pc' = [c \in Callers |-> IF Running(c) THEN "end" ELSE pc[c]]
    /\ status' = [c \in Callers |-> IF Running(c) THEN "lost" ELSE status[c]]
    /\ UNCHANGED <<mix, fileVars, localVars, since, drawn>>

Step(c) == \/ Generate(c) \/ LookUpLang(c) \/ LookUpPlain(c)
           \/ Truncate(c) \/ Render(c) \/ CannotRender(c) \/ Stat(c)
           \/ Change(c) \/ Find(c) \/ Put(c) \/ CannotPut(c)
           \/ Build(c) \/ CleanUp(c)

Quiet == (\A c \in Callers : pc[c] = "end") /\ UNCHANGED vars

Next == (\E c \in Callers : Step(c)) \/ Crash \/ Quiet

Spec == Init /\ [][Next]_vars

-----------------------------------------------------------------------------
(* Properties *)

(* Types; a call looks for index.md only when it found no language.        *)
TypeOK ==
    /\ mix \in Mixes
    /\ image \in [Slugs -> Makers \cup {Absent, Empty, Broken}]
    /\ page \in [Names -> Slugs \cup {Absent, NoImage}]
    /\ detached \subseteq Callers /\ drawn \subseteq Callers
    /\ pc \in [Callers -> PCs]
    /\ status \in [Callers -> {"none", "ok", "error", "lost"}]
    /\ target \in [Callers -> Names] /\ read \in [Callers -> Slugs \cup {NoImage}]
    /\ since \in [Callers -> SUBSET Callers]
    /\ \A c \in Callers :
         /\ langs[c] \in (SUBSET {"fr", "en"}) \cup {{"plain"}}
         /\ ToSet(todo[c]) \subseteq langs[c]

(* Calls whose failed build takes the picture under a slug away.           *)
Removers(s) == {c \in drawn : Slug(c) = s /\ ~Ask(c).routed /\ status[c] = "error"}

(* generateFeaturedImage: a page never names a picture that is not there,   *)
(* whichever updates fail and whatever is lost in a crash, unless a call    *)
(* without a route, whose build failed, has removed it under that slug.     *)
NamedImageExists ==
    \A n \in Names : page[n] \in Slugs =>
        image[page[n]] # Absent \/ Removers(page[n]) # {}

Generated(c) == Ask(c).tool = "generate_featured_image" /\ status[c] = "ok"

(* LangsUpdated and public_url: when a call has succeeded, and no other ran *)
(* with it or began after it, its picture is whole and each language it     *)
(* reports is a page of that language that names it, whatever calls that    *)
(* failed or were lost had left before.                                     *)
OkMeansUpdated ==
    \A c \in Callers : Generated(c) /\ since[c] = {} =>
        /\ image[Slug(c)] = c
        /\ \A n \in langs[c] : page[n] = Slug(c)
        /\ Ask(c).routed => langs[c] # {}

(* The deferred cleanup: a call without a route whose build has failed      *)
(* leaves no picture of its own.                                            *)
FailedBuildIsUndone ==
    \A c \in drawn : status[c] = "error" /\ ~Ask(c).routed => image[Slug(c)] # c
=============================================================================
