------------------------- MODULE FeaturedImageProofs -------------------------
(* Proofs about FeaturedImage, for any number of callers, slugs and sites,  *)
(* any failures and a crash at any moment.                                 *)
EXTENDS FeaturedImage, TLAPS

Pictures == Makers \cup {Absent, Empty, Broken}

Types ==
    /\ mix \in Mixes
    /\ image \in [Slugs -> Pictures]
    /\ page \in [Names -> Slugs \cup {Absent, NoImage}]
    /\ detached \subseteq Callers /\ drawn \subseteq Callers
    /\ pc \in [Callers -> PCs]
    /\ status \in [Callers -> {"none", "ok", "error", "lost"}]
    /\ langs \in [Callers -> SUBSET Names] /\ todo \in [Callers -> Seq(Names)]
    /\ target \in [Callers -> Names] /\ read \in [Callers -> Slugs \cup {NoImage}]
    /\ since \in [Callers -> SUBSET Callers]

Generates(c) == Ask(c).tool = "generate_featured_image"

(* Where a call is tells what it has found and done.                        *)
Place(c) ==
    /\ status[c] = "none" <=> pc[c] # "end"
    /\ pc[c] \in {"fr", "en", "plain", "open", "write", "stat", "build", "cleanup"}
         => Generates(c)
    /\ pc[c] \in {"idle", "fr", "plain"} => langs[c] = {} /\ todo[c] = <<>>
    /\ pc[c] = "en" => langs[c] \subseteq {"fr"}
    /\ langs[c] \in (SUBSET {"fr", "en"}) \cup {{"plain"}}
    /\ ToSet(todo[c]) \subseteq langs[c]
    /\ pc[c] \in {"fr", "en", "plain", "open", "write", "stat"} => langs[c] = ToSet(todo[c])
    /\ Generates(c) /\ pc[c] \in {"stat", "find", "put", "build", "cleanup"} => c \in drawn
    /\ c \in drawn => Generates(c) /\ pc[c] \notin {"idle", "fr", "en", "plain", "open", "write"}
    /\ c \in detached => pc[c] \notin {"idle", "fr", "en", "plain", "open"}
    /\ Generates(c) /\ ~Ask(c).routed =>
         langs[c] = {} /\ pc[c] \notin {"fr", "en", "plain", "find", "put"}
    /\ Generates(c) /\ Ask(c).routed /\ pc[c] \in {"open", "write", "stat"} => langs[c] # {}
    /\ Generates(c) /\ pc[c] \in {"find", "put"} => todo[c] # <<>>
    /\ Generates(c) /\ Ask(c).routed => pc[c] # "build"
    /\ Generates(c) /\ Ask(c).routed /\ status[c] = "ok" => langs[c] # {}

(* A slug that had a picture at the start, or has been given one.           *)
Known(s) == s \in mix.shown \/ \E c \in drawn : Slug(c) = s

(* Only the cleanup after a failed build takes a picture away for good: any *)
(* other call that removes one has found it gone.                          *)
Removed == \A s \in Slugs : image[s] = Absent /\ Known(s) => Removers(s) # {}

PagesKnown == \A n \in Names : page[n] \in Slugs => Known(page[n])

Picture(c) ==
    /\ pc[c] = "write" /\ c \notin detached => image[Slug(c)] # Absent
    /\ c \in detached => Removers(Slug(c)) # {}
    /\ pc[c] = "cleanup" /\ Ask(c).routed => Removers(Slug(c)) # {}
    /\ c \in drawn /\ status[c] = "error" /\ ~Ask(c).routed => image[Slug(c)] # c
    /\ read[c] \in Slugs => Known(read[c])

(* A call that no other ran with, or began after.                           *)
Solo(c) == since[c] = {} /\ pc[c] # "idle" => \A d \in Callers \ {c} : ~Running(d)

Undisturbed(c) ==
    Generates(c) /\ since[c] = {} /\ pc[c] # "idle" /\ status[c] \in {"none", "ok"} =>
        /\ pc[c] = "write" => image[Slug(c)] = Empty /\ c \notin detached
        /\ pc[c] \in {"stat", "find", "put", "build"} \/ status[c] = "ok" => image[Slug(c)] = c
        /\ \A n \in langs[c] : page[n] # Absent
        /\ \A n \in langs[c] \ ToSet(todo[c]) : page[n] = Slug(c)
        /\ pc[c] = "put" => target[c] = Head(todo[c])
        /\ status[c] = "ok" => ToSet(todo[c]) = {}

Inv == /\ Types /\ Removed /\ PagesKnown
       /\ \A c \in Callers : Place(c) /\ Picture(c) /\ Solo(c) /\ Undisturbed(c)

-----------------------------------------------------------------------------
LEMMA MixFacts ==
    ASSUME mix \in Mixes
    PROVE  /\ mix.shown \subseteq Slugs /\ mix.found \subseteq Names
           /\ \A c \in Callers : /\ Slug(c) \in Slugs /\ Ask(c).routed \in BOOLEAN
                                 /\ Ask(c).valid \in BOOLEAN /\ Ask(c).tool \in Tools
                                 /\ Ask(c).lang \in Names
BY FeaturedAssumption DEF MixOf, Slug, Ask

LEMMA Constants ==
    /\ Absent \notin Callers /\ Empty \notin Callers /\ Broken \notin Callers
    /\ Origin \notin Callers /\ Absent # Origin /\ Absent # Empty /\ Absent # Broken
    /\ Absent \notin Slugs /\ NoImage \notin Slugs /\ Absent # NoImage
BY FeaturedAssumption

LEMMA NoneToDo == ToSet(<<>>) = {} /\ <<>> \in Seq(Names)
BY DEF ToSet

LEMMA AppendFacts ==
    ASSUME NEW s \in Seq(Names), NEW n \in Names
    PROVE  Append(s, n) \in Seq(Names) /\ ToSet(Append(s, n)) = ToSet(s) \cup {n}
<1>1. /\ Append(s, n) \in Seq(Names) /\ Len(Append(s, n)) = Len(s) + 1 /\ Len(s) \in Nat
      /\ DOMAIN s = 1 .. Len(s) /\ DOMAIN Append(s, n) = 1 .. Len(s) + 1
      /\ \A i \in 1 .. Len(s) : Append(s, n)[i] = s[i]
      /\ Append(s, n)[Len(s) + 1] = n
    OBVIOUS
<1>2. ToSet(Append(s, n)) \subseteq ToSet(s) \cup {n}
    BY <1>1 DEF ToSet
<1>3. ToSet(s) \cup {n} \subseteq ToSet(Append(s, n))
    BY <1>1 DEF ToSet
<1>. QED
    BY <1>1, <1>2, <1>3

LEMMA TailFacts ==
    ASSUME NEW s \in Seq(Names), s # <<>>
    PROVE  /\ Head(s) \in Names /\ Tail(s) \in Seq(Names)
           /\ ToSet(s) = ToSet(Tail(s)) \cup {Head(s)}
<1>1. /\ Head(s) = s[1] /\ Tail(s) \in Seq(Names) /\ Len(s) \in Nat /\ Len(s) >= 1
      /\ Len(Tail(s)) = Len(s) - 1
      /\ DOMAIN s = 1 .. Len(s) /\ DOMAIN Tail(s) = 1 .. Len(s) - 1
      /\ \A i \in 1 .. Len(s) - 1 : Tail(s)[i] = s[i + 1]
      /\ s[1] \in Names
    OBVIOUS
<1>2. ToSet(s) \subseteq ToSet(Tail(s)) \cup {Head(s)}
  <2> SUFFICES ASSUME NEW i \in 1 .. Len(s) PROVE s[i] \in ToSet(Tail(s)) \cup {Head(s)}
      BY <1>1 DEF ToSet
  <2>1. CASE i = 1
      BY <1>1, <2>1
  <2>2. CASE i # 1
    <3>1. i - 1 \in 1 .. Len(s) - 1 /\ Tail(s)[i - 1] = s[i]
        BY <1>1, <2>2
    <3>. QED
        BY <1>1, <3>1 DEF ToSet
  <2>. QED
      BY <2>1, <2>2
<1>3. ToSet(Tail(s)) \cup {Head(s)} \subseteq ToSet(s)
    BY <1>1 DEF ToSet
<1>. QED
    BY <1>1, <1>2, <1>3

LEMMA InvInit == Init => Inv
<1> SUFFICES ASSUME Init PROVE Inv
    OBVIOUS
<1>1. PICK named \in IF mix.shown = {} THEN {NoImage} ELSE mix.shown :
          page = [n \in Names |-> IF n \in mix.found THEN named ELSE Absent]
    BY DEF Init
<1>2. mix \in Mixes
    BY DEF Init
<1>3. named \in Slugs \cup {NoImage} /\ (named \in Slugs => named \in mix.shown)
    BY <1>1, <1>2, MixFacts, Constants
<1>4. image \in [Slugs -> Pictures] /\ page \in [Names -> Slugs \cup {Absent, NoImage}]
    BY <1>1, <1>3 DEF Init, Pictures, Makers
<1>5. Types
    BY <1>2, <1>4, NoneToDo DEF Init, Types, PCs, Names
<1>6. Removed /\ PagesKnown
    BY <1>1, <1>2, <1>3, MixFacts, Constants DEF Init, Removed, PagesKnown, Known
<1>7. ASSUME NEW c \in Callers PROVE Place(c) /\ Picture(c) /\ Solo(c) /\ Undisturbed(c)
    BY <1>2, <1>7, NoneToDo, MixFacts, Constants
    DEF Init, Place, Picture, Solo, Undisturbed, Generates
<1>. QED
    BY <1>5, <1>6, <1>7 DEF Inv

-----------------------------------------------------------------------------
(* Steps of one call.                                                       *)
OthersStay(c) ==
    \A d \in Callers \ {c} :
        /\ pc'[d] = pc[d] /\ status'[d] = status[d] /\ langs'[d] = langs[d]
        /\ todo'[d] = todo[d] /\ target'[d] = target[d] /\ read'[d] = read[d]
        /\ d \in drawn' <=> d \in drawn

LEMMA RemoversGrow ==
    ASSUME Inv, NEW c \in Callers, mix' = mix, OthersStay(c), pc[c] # "end",
           drawn \subseteq drawn', NEW s \in Slugs
    PROVE  /\ Removers(s) \subseteq Removers(s)'
           /\ Known(s) => Known(s)'
<1>1. ASSUME NEW d \in Removers(s) PROVE d \in Removers(s)'
  <2>1. d \in Callers /\ d # c
      BY DEF Inv, Types, Removers, Place
  <2>. QED
      BY <2>1 DEF Removers, OthersStay, Slug, Ask
<1>2. Known(s) => Known(s)'
    BY DEF Known, Slug, Ask
<1>. QED
    BY <1>1, <1>2

(* What a running call does is not done to a call that runs alone.          *)
LEMMA Others ==
    ASSUME Inv, NEW c \in Callers, Running(c), mix' = mix, since' = since, OthersStay(c),
           \A e \in Callers : e \in detached' \ detached => pc[e] = "write",
           NEW d \in Callers \ {c}
    PROVE  Place(d)' /\ Solo(d)' /\ Undisturbed(d)'
<1>1. Place(d) /\ (since[d] = {} => pc[d] = "idle")
    BY DEF Inv, Solo
<1>2. Place(d)'
    BY <1>1 DEF Place, OthersStay, Generates, Ask
<1>3. Solo(d)' /\ Undisturbed(d)'
    BY <1>1 DEF OthersStay, Solo, Undisturbed
<1>. QED
    BY <1>2, <1>3

LEMMA PictureStays ==
    ASSUME Inv, NEW c \in Callers, pc[c] # "end", mix' = mix, OthersStay(c),
           drawn \subseteq drawn', detached' = detached, NEW d \in Callers \ {c},
           image[Slug(d)] # Absent => image'[Slug(d)] # Absent,
           image'[Slug(d)] = d => image[Slug(d)] = d
    PROVE  Picture(d)'
<1>1. Picture(d) /\ Slug(d) \in Slugs /\ Slug(d)' = Slug(d) /\ Ask(d)' = Ask(d)
    BY MixFacts DEF Inv, Types, Slug, Ask
<1>2. Removers(Slug(d)) \subseteq Removers(Slug(d))'
    BY <1>1, RemoversGrow
<1>3. ASSUME read[d] \in Slugs, Known(read[d]) PROVE Known(read[d])'
  <2>1. \A s \in Slugs : Known(s) => Known(s)'
      BY RemoversGrow
  <2>2. read'[d] = read[d]
      BY DEF OthersStay
  <2>. QED
      BY <1>3, <2>1, <2>2 DEF Known, Slug, Ask
<1>. QED
    BY <1>1, <1>2, <1>3 DEF Picture, OthersStay

LEMMA Moved ==
    ASSUME Inv, NEW c \in Callers, Running(c), mix' = mix, since' = since, OthersStay(c),
           \A e \in Callers : e \in detached' \ detached => pc[e] = "write",
           Types', Removed', PagesKnown', Place(c)', Undisturbed(c)',
           \A d \in Callers : Picture(d)'
    PROVE  Inv'
<1>1. Solo(c)'
    BY DEF Inv, Solo, OthersStay, Running
<1>2. \A d \in Callers \ {c} : Place(d)' /\ Solo(d)' /\ Undisturbed(d)'
    BY Others
<1>. QED
    BY <1>1, <1>2 DEF Inv

(* The same for a step that leaves the files alone.                         *)
LEMMA MovedOnly ==
    ASSUME Inv, NEW c \in Callers, Running(c), OthersStay(c),
           UNCHANGED <<mix, since, drawn>>, UNCHANGED <<image, detached, page>>,
           Types', Place(c)', Undisturbed(c)', Picture(c)'
    PROVE  Inv'
<1>1. pc[c] # "end" /\ mix \in Mixes
    BY DEF Running, Inv, Types
<1>2. Removed'
  <2> SUFFICES ASSUME NEW s \in Slugs, image'[s] = Absent, Known(s)' PROVE Removers(s)' # {}
      BY DEF Removed
  <2>1. Known(s)
      BY DEF Known, Slug, Ask
  <2>2. Removers(s) # {}
      BY <2>1 DEF Inv, Removed
  <2>. QED
      BY <1>1, <2>2, RemoversGrow
<1>3. PagesKnown'
    BY DEF Inv, PagesKnown, Known, Slug, Ask
<1>4. ASSUME NEW d \in Callers PROVE Picture(d)'
  <2>1. CASE d = c
      BY <2>1
  <2>2. CASE d # c
      BY <1>1, <2>2, PictureStays
  <2>. QED
      BY <2>1, <2>2
<1>. QED
    BY <1>2, <1>3, <1>4, Moved

(* The same for a step that shows a page.                                   *)
LEMMA Shown ==
    ASSUME Inv, NEW c \in Callers, Running(c), OthersStay(c),
           UNCHANGED <<mix, since, drawn>>, UNCHANGED <<image, detached>>,
           NEW new, new \in Slugs => Known(new),
           \A n \in Names : page'[n] = IF n = target[c] THEN new ELSE page[n],
           Types', Place(c)', Undisturbed(c)', Picture(c)'
    PROVE  Inv'
<1>1. pc[c] # "end" /\ mix \in Mixes
    BY DEF Running, Inv, Types
<1>2. Removed'
  <2> SUFFICES ASSUME NEW s \in Slugs, image'[s] = Absent, Known(s)' PROVE Removers(s)' # {}
      BY DEF Removed
  <2>1. Known(s)
      BY DEF Known, Slug, Ask
  <2>2. Removers(s) # {}
      BY <2>1 DEF Inv, Removed
  <2>. QED
      BY <1>1, <2>2, RemoversGrow
<1>3. PagesKnown'
  <2> SUFFICES ASSUME NEW n \in Names, page'[n] \in Slugs PROVE Known(page[n])'
      BY DEF PagesKnown
  <2>1. Known(page'[n])
      BY DEF Inv, PagesKnown
  <2>. QED
      BY <2>1 DEF Known, Slug, Ask
<1>4. ASSUME NEW d \in Callers PROVE Picture(d)'
  <2>1. CASE d = c
      BY <2>1
  <2>2. CASE d # c
      BY <1>1, <2>2, PictureStays
  <2>. QED
      BY <2>1, <2>2
<1>. QED
    BY <1>2, <1>3, <1>4, Moved

LEMMA BeginStep ==
    ASSUME Inv, NEW c \in Callers, Generate(c) \/ Change(c)
    PROVE  Inv'
<1>1. /\ pc[c] = "idle" /\ Begins(c) /\ UNCHANGED <<mix, fileVars, localVars, drawn>>
      /\ pc'[c] \in {"fr", "open", "find", "end"} /\ pc' \in [Callers -> PCs]
      /\ status' \in [Callers -> {"none", "ok", "error", "lost"}]
      /\ \A d \in Callers \ {c} : pc'[d] = pc[d] /\ status'[d] = status[d]
      /\ IF pc'[c] = "end" THEN status'[c] = "error" ELSE status'[c] = status[c]
      /\ pc'[c] \in {"fr", "open"} => Generates(c) /\ (pc'[c] = "fr" <=> Ask(c).routed)
      /\ pc'[c] = "find" => ~Generates(c)
    BY ZenonT(60) DEF Inv, Types, Generate, Change, Goto, End, PCs, Generates
<1>2. UNCHANGED <<image, detached, page>> /\ UNCHANGED <<langs, todo, target, read>>
    BY <1>1 DEF fileVars, localVars
<1>3. mix \in Mixes /\ Types'
    BY <1>1, <1>2 DEF Inv, Types, Begins
<1>4. OthersStay(c)
    BY <1>1, <1>2 DEF OthersStay
<1>5. Removed' /\ PagesKnown'
  <2>1. ASSUME NEW s \in Slugs, image'[s] = Absent, Known(s)' PROVE Removers(s)' # {}
    <3>1. Removers(s) # {}
        BY <1>1, <1>2, <2>1 DEF Inv, Removed, Known, Slug, Ask
    <3>. QED
        BY <1>1, <1>4, <3>1, RemoversGrow
  <2>. QED
      BY <1>1, <1>2, <2>1 DEF Inv, Removed, PagesKnown, Known, Slug, Ask
<1>6. ASSUME NEW d \in Callers PROVE Picture(d)'
  <2>1. CASE d = c
    <3>1. Picture(c) /\ c \notin drawn /\ c \notin detached
        BY <1>1 DEF Inv, Place
    <3>. QED
        BY <1>1, <1>2, <2>1, <3>1 DEF Picture, Known, Slug, Ask
  <2>2. CASE d # c
      BY <1>1, <1>2, <1>4, <2>2, PictureStays
  <2>. QED
      BY <2>1, <2>2
<1>7. ASSUME NEW d \in Callers PROVE Place(d)'
  <2>1. CASE d = c
    <3>1. Place(c) /\ Ask(c)' = Ask(c) /\ ToSet(<<>>) = {} /\ Ask(c).routed \in BOOLEAN
        BY <1>1, <1>3, NoneToDo, MixFacts DEF Inv, Ask
    <3>2. langs'[c] = {} /\ todo'[c] = <<>> /\ c \notin drawn' /\ c \notin detached
        BY <1>1, <1>2, <3>1 DEF Place
    <3>. QED
        BY <1>1, <1>2, <2>1, <3>1, <3>2 DEF Place, Generates
  <2>2. CASE d # c
      BY <1>1, <1>2, <2>2 DEF Inv, Place, Generates, Ask
  <2>. QED
      BY <2>1, <2>2
<1>8. ASSUME NEW d \in Callers PROVE Solo(d)' /\ Undisturbed(d)'
  <2>1. CASE d = c
    <3>1. since'[c] = {e \in Callers : Running(e)}
        BY <1>1 DEF Begins
    <3>2. Solo(c)'
        BY <1>1, <3>1 DEF Solo, Running
    <3>3. langs'[c] = {} /\ status[c] = "none" /\ Generates(c)' = Generates(c)
        BY <1>1, <1>2 DEF Inv, Place, Generates, Ask
    <3>4. Undisturbed(c)'
        BY <1>1, <3>3 DEF Undisturbed
    <3>. QED
        BY <2>1, <3>2, <3>4
  <2>2. CASE d # c
    <3>1. since'[d] = IF pc[d] = "idle" THEN since[d] ELSE since[d] \cup {c}
        BY <1>1, <2>2 DEF Begins
    <3>2. since'[d] = {} => pc'[d] = "idle"
        BY <1>1, <2>2, <3>1
    <3>. QED
        BY <3>2 DEF Solo, Undisturbed
  <2>. QED
      BY <2>1, <2>2
<1>. QED
    BY <1>3, <1>5, <1>6, <1>7, <1>8 DEF Inv

LEMMA LookUpLangStep == ASSUME Inv, NEW c \in Callers, LookUpLang(c) PROVE Inv'
<1> DEFINE n == pc[c]
<1>1. /\ Types /\ Place(c) /\ Picture(c) /\ Undisturbed(c) /\ n \in {"fr", "en"}
      /\ Generates(c) /\ Ask(c)' = Ask(c) /\ Slug(c)' = Slug(c)
    BY DEF Inv, Place, LookUpLang, Ask, Slug
<1>2. /\ UNCHANGED <<mix, since, drawn>> /\ UNCHANGED <<image, detached, page>>
      /\ UNCHANGED <<target, read, status>> /\ Running(c)
    BY <1>1 DEF LookUpLang, fileVars, Goto, Running
<1>3. n \in Names /\ langs[c] \in SUBSET Names /\ todo[c] \in Seq(Names)
    BY <1>1 DEF Names, Types
<1>4. Append(todo[c], n) \in Seq(Names) /\ ToSet(Append(todo[c], n)) = ToSet(todo[c]) \cup {n}
    BY <1>3, AppendFacts
<1>5. \/ /\ page[n] # Absent /\ Learn(c, n)
         /\ langs'[c] = langs[c] \cup {n} /\ todo'[c] = Append(todo[c], n)
      \/ UNCHANGED <<langs, todo>>
    BY <1>1 DEF LookUpLang, Found, Matches, Learn, Types
<1>6. /\ langs' \in [Callers -> SUBSET Names] /\ todo' \in [Callers -> Seq(Names)]
      /\ \A d \in Callers \ {c} : langs'[d] = langs[d] /\ todo'[d] = todo[d]
  <2>1. CASE Learn(c, n)
    <3>1. langs[c] \cup {n} \in SUBSET Names
        BY <1>3
    <3>. QED
        BY <1>1, <1>4, <2>1, <3>1 DEF Types, Learn
  <2>2. CASE UNCHANGED <<langs, todo>>
      BY <1>1, <2>2 DEF Types
  <2>. QED
      BY <1>5, <2>1, <2>2
<1>7. /\ pc' \in [Callers -> PCs] /\ \A d \in Callers \ {c} : pc'[d] = pc[d]
      /\ pc'[c] = IF n = "fr" THEN "en" ELSE IF langs'[c] = {} THEN "plain" ELSE "open"
    BY <1>1 DEF LookUpLang, Goto, AfterLookUp, Types, PCs
<1>8. Types' /\ OthersStay(c)
    BY <1>1, <1>2, <1>6, <1>7 DEF Types, OthersStay
<1>9. langs[c] \subseteq {"fr"} /\ langs[c] = ToSet(todo[c]) /\ status[c] = "none"
      /\ Ask(c).routed /\ c \notin drawn /\ c \notin detached
      /\ (n = "fr" => langs[c] = {})
    BY <1>1, MixFacts DEF Types, Place
<1>10. langs'[c] \subseteq {"fr", "en"} /\ langs'[c] = ToSet(todo'[c])
       /\ (n = "fr" => langs'[c] \subseteq {"fr"})
       /\ (langs'[c] = {} => todo'[c] = <<>>)
  <2>1. CASE langs'[c] = langs[c] \cup {n} /\ todo'[c] = Append(todo[c], n)
      BY <1>1, <1>4, <1>9, <2>1
  <2>2. CASE UNCHANGED <<langs, todo>>
    <3>1. todo[c] # <<>> => langs[c] # {}
        BY <1>3, <1>9, TailFacts
    <3>. QED
        BY <1>1, <1>9, <2>2, <3>1
  <2>. QED
      BY <1>5, <2>1, <2>2
<1>11. Place(c)'
  <2>1. Generates(c)'
      BY <1>1 DEF Generates
  <2>. QED
      BY <1>1, <1>2, <1>7, <1>9, <1>10, <2>1 DEF Place
<1>12. Undisturbed(c)'
  <2> SUFFICES ASSUME since[c] = {}
               PROVE  /\ \A m \in langs'[c] : page[m] # Absent
                      /\ \A m \in langs'[c] \ ToSet(todo'[c]) : page[m] = Slug(c)
      BY <1>1, <1>2, <1>7, <1>9 DEF Undisturbed
  <2>1. \A m \in langs[c] : page[m] # Absent
      BY <1>1, <1>9 DEF Undisturbed
  <2>. QED
      BY <1>5, <1>10, <2>1
<1>13. Picture(c)'
    BY <1>1, <1>2, <1>7, <1>9 DEF Picture, Known, Slug, Ask
<1>. QED
    BY <1>2, <1>8, <1>11, <1>12, <1>13, MovedOnly

LEMMA LookUpPlainStep == ASSUME Inv, NEW c \in Callers, LookUpPlain(c) PROVE Inv'
<1>1. /\ Types /\ Place(c) /\ Picture(c) /\ pc[c] = "plain"
      /\ Generates(c) /\ Ask(c)' = Ask(c) /\ Slug(c)' = Slug(c)
      /\ Ask(c).routed \in BOOLEAN
    BY MixFacts DEF Inv, Types, Place, LookUpPlain, Ask, Slug
<1>2. /\ UNCHANGED <<mix, since, drawn>> /\ UNCHANGED <<image, detached, page>>
      /\ UNCHANGED <<target, read>> /\ Running(c)
    BY <1>1 DEF LookUpPlain, fileVars, Running
<1>3. /\ langs[c] = {} /\ todo[c] = <<>> /\ c \notin drawn /\ c \notin detached
      /\ status[c] = "none" /\ Ask(c).routed
    BY <1>1 DEF Place
<1>4. /\ Append(<<>>, "plain") \in Seq(Names) /\ ToSet(Append(<<>>, "plain")) = {"plain"}
      /\ "plain" \in Names
    BY NoneToDo, AppendFacts DEF Names
<1>5. \/ /\ page["plain"] # Absent /\ langs'[c] = {"plain"} /\ todo'[c] = Append(<<>>, "plain")
         /\ pc'[c] = "open" /\ status'[c] = "none"
      \/ UNCHANGED <<langs, todo>> /\ pc'[c] = "end" /\ status'[c] = "error"
    BY <1>1, <1>3 DEF LookUpPlain, Learn, Goto, End, Types
<1>6. Types' /\ OthersStay(c)
  <2>1. CASE Learn(c, "plain") /\ Goto(c, "open")
    <3>1. Append(todo[c], "plain") \in Seq(Names) /\ langs[c] \cup {"plain"} \in SUBSET Names
        BY <1>3, <1>4
    <3>. QED
        BY <1>1, <1>2, <2>1, <3>1 DEF Types, PCs, Learn, Goto, OthersStay
  <2>2. CASE End(c, "error") /\ UNCHANGED <<langs, todo>>
      BY <1>1, <1>2, <2>2 DEF Types, PCs, End, OthersStay
  <2>. QED
      BY <2>1, <2>2 DEF LookUpPlain
<1>7. Generates(c)' /\ ToSet(<<>>) = {}
    BY <1>1, NoneToDo DEF Generates
<1>8. Place(c)'
  <2>1. CASE pc'[c] = "open"
    <3>1. /\ status'[c] = "none" /\ langs'[c] = {"plain"} /\ ToSet(todo[c])' = {"plain"}
          /\ c \notin drawn' /\ c \notin detached' /\ Ask(c)'.routed /\ langs'[c] # {}
        BY <1>1, <1>2, <1>3, <1>4, <1>5, <2>1
    <3>2. ToSet(todo[c])' \subseteq langs'[c]
        BY <3>1
    <3>3. langs'[c] \in (SUBSET {"fr", "en"}) \cup {{"plain"}}
        BY <3>1
    <3>4. ToSet(todo[c])' = langs'[c]
        BY <3>1
    <3>. QED
        BY <1>7, <2>1, <3>1, <3>2, <3>3, <3>4 DEF Place
  <2>2. CASE pc'[c] = "end"
      BY <1>1, <1>2, <1>3, <1>5, <1>7, <2>2 DEF Place
  <2>. QED
      BY <1>5, <2>1, <2>2
<1>9. Undisturbed(c)'
    BY <1>1, <1>2, <1>3, <1>4, <1>5, <1>7 DEF Undisturbed
<1>10. Picture(c)'
    BY <1>1, <1>2, <1>3, <1>5 DEF Picture, Known, Slug, Ask
<1>. QED
    BY <1>2, <1>6, <1>8, <1>9, <1>10, MovedOnly

LEMMA StatStep == ASSUME Inv, NEW c \in Callers, Stat(c) PROVE Inv'
<1>1. /\ Types /\ Place(c) /\ Picture(c) /\ Undisturbed(c) /\ pc[c] = "stat"
      /\ Ask(c)' = Ask(c) /\ Slug(c)' = Slug(c) /\ Slug(c) \in Slugs
      /\ Ask(c).routed \in BOOLEAN /\ c \in drawn /\ Generates(c)
    BY MixFacts DEF Inv, Types, Place, Stat, Ask, Slug
<1>2. /\ UNCHANGED <<mix, since, drawn>> /\ UNCHANGED <<image, detached, page>>
      /\ UNCHANGED <<langs, todo, target, read, status>> /\ Running(c)
    BY <1>1 DEF Stat, fileVars, localVars, Goto, Running
<1>3. /\ pc'[c] = IF image[Slug(c)] = Absent THEN "cleanup"
                  ELSE IF langs[c] # {} THEN "find" ELSE "build"
      /\ pc' \in [Callers -> PCs] /\ \A d \in Callers \ {c} : pc'[d] = pc[d]
    BY <1>1 DEF Stat, Goto, Types, PCs
<1>4. Types' /\ OthersStay(c)
    BY <1>1, <1>2, <1>3 DEF Types, OthersStay
<1>5. Generates(c)' /\ ToSet(<<>>) = {}
    BY <1>1, NoneToDo DEF Generates
<1>6. Place(c)'
    BY <1>1, <1>2, <1>3, <1>5 DEF Place
<1>7. Undisturbed(c)'
  <2>1. since[c] = {} => image[Slug(c)] = c /\ status[c] = "none"
      BY <1>1 DEF Undisturbed, Place
  <2>2. since[c] = {} => pc'[c] \in {"find", "build"}
      BY <1>3, <2>1, Constants
  <2>. QED
      BY <1>1, <1>2, <2>1, <2>2 DEF Undisturbed, Generates
<1>8. Picture(c)'
  <2>1. Known(Slug(c)) /\ (image[Slug(c)] = Absent => Removers(Slug(c)) # {})
      BY <1>1 DEF Known, Inv, Removed
  <2>2. Removers(Slug(c)) \subseteq Removers(Slug(c))'
      BY <1>1, <1>2, <1>4, RemoversGrow DEF Running
  <2>3. status[c] = "none"
      BY <1>1 DEF Place
  <2>. QED
      BY <1>1, <1>2, <1>3, <2>1, <2>2, <2>3 DEF Picture, Known, Slug, Ask
<1>. QED
    BY <1>2, <1>4, <1>6, <1>7, <1>8, MovedOnly

LEMMA FindStep == ASSUME Inv, NEW c \in Callers, Find(c) PROVE Inv'
<1>1. /\ Types /\ Place(c) /\ Picture(c) /\ Undisturbed(c) /\ pc[c] = "find"
      /\ Ask(c)' = Ask(c) /\ Slug(c)' = Slug(c) /\ Ask(c).routed \in BOOLEAN
      /\ status[c] = "none"
    BY MixFacts DEF Inv, Types, Place, Find, Ask, Slug
<1>2. /\ UNCHANGED <<mix, since, drawn>> /\ UNCHANGED <<image, detached, page>>
      /\ UNCHANGED <<langs, todo>> /\ Running(c)
    BY <1>1 DEF Find, fileVars, Running
<1>3. Generates(c)' = Generates(c)
    BY <1>1 DEF Generates
<1>4. CASE \E found \in Found(Wanted(c)) :
             /\ target' = [target EXCEPT ![c] = found]
             /\ read' = [read EXCEPT ![c] = page[found]]
             /\ Goto(c, "put")
  <2>1. PICK found \in Found(Wanted(c)) :
             /\ target' = [target EXCEPT ![c] = found]
             /\ read' = [read EXCEPT ![c] = page[found]]
             /\ Goto(c, "put")
      BY <1>4
  <2>2. /\ Wanted(c) \in Names
        /\ Generates(c) => /\ Wanted(c) = Head(todo[c]) /\ Head(todo[c]) \in langs[c]
    <3>1. CASE Generates(c)
      <4>1. todo[c] \in Seq(Names) /\ todo[c] # <<>> /\ ToSet(todo[c]) \subseteq langs[c]
          BY <1>1, <3>1 DEF Place, Types
      <4>. QED
          BY <3>1, <4>1, TailFacts DEF Wanted, Generates
    <3>2. CASE ~Generates(c)
        BY <1>1, <3>2, MixFacts DEF Wanted, Generates, Types
    <3>. QED
        BY <3>1, <3>2
  <2>3. /\ found \in Names /\ page[found] # Absent
        /\ page[Wanted(c)] # Absent => found = Wanted(c)
      BY <2>1, <2>2 DEF Found, Names
  <2>4. page[found] \in Slugs \cup {NoImage}
      BY <1>1, <2>3 DEF Types
  <2>5. /\ pc'[c] = "put" /\ status' = status /\ target'[c] = found /\ read'[c] = page[found]
        /\ Types' /\ OthersStay(c)
      BY <1>1, <1>2, <2>1, <2>3, <2>4 DEF Types, PCs, Goto, OthersStay
  <2>6. Place(c)'
      BY <1>1, <1>2, <1>3, <2>5 DEF Place
  <2>7. Undisturbed(c)'
      BY <1>1, <1>2, <1>3, <2>2, <2>3, <2>5 DEF Undisturbed
  <2>8. Picture(c)'
    <3>1. page[found] \in Slugs => Known(page[found])
        BY <2>3 DEF Inv, PagesKnown
    <3>2. c \notin detached \/ Removers(Slug(c)) # {}
        BY <1>1 DEF Picture
    <3>3. Removers(Slug(c)) \subseteq Removers(Slug(c))'
        BY <1>1, <1>2, <2>5, RemoversGrow, MixFacts DEF Running, Types
    <3>. QED
        BY <1>1, <1>2, <2>5, <3>1, <3>2, <3>3 DEF Picture, Known, Slug, Ask
  <2>. QED
      BY <1>2, <2>5, <2>6, <2>7, <2>8, MovedOnly
<1>5. CASE UpdateFails(c) /\ UNCHANGED <<target, read>>
  <2>1. /\ pc'[c] = "end" /\ status'[c] = "error" /\ Types' /\ OthersStay(c)
      BY <1>1, <1>2, <1>5 DEF Types, PCs, UpdateFails, End, OthersStay
  <2>2. Place(c)' /\ Undisturbed(c)'
      BY <1>1, <1>2, <1>3, <2>1 DEF Place, Undisturbed
  <2>3. Picture(c)'
    <3>1. c \in drawn => Ask(c).routed
        BY <1>1 DEF Place
    <3>2. Removers(Slug(c)) \subseteq Removers(Slug(c))'
        BY <1>1, <1>2, <2>1, RemoversGrow, MixFacts DEF Running, Types
    <3>. QED
        BY <1>1, <1>2, <1>5, <2>1, <3>1, <3>2 DEF Picture, Known, Slug, Ask
  <2>. QED
      BY <1>2, <2>1, <2>2, <2>3, MovedOnly
<1>. QED
    BY <1>4, <1>5 DEF Find

(* A running call ends without touching the files.                          *)
LEMMA Ends ==
    ASSUME Inv, NEW c \in Callers, Running(c), NEW how \in {"ok", "error"}, End(c, how),
           UNCHANGED <<mix, since, drawn>>, UNCHANGED <<image, detached, page>>,
           UNCHANGED <<langs, todo, target, read>>,
           how = "ok" => pc[c] = "build",
           how = "error" => pc[c] \in {"open", "write", "put"}
    PROVE  Inv'
<1>1. /\ Types /\ Place(c) /\ Picture(c) /\ Undisturbed(c)
      /\ Ask(c)' = Ask(c) /\ Slug(c)' = Slug(c) /\ Ask(c).routed \in BOOLEAN
      /\ Generates(c)' = Generates(c) /\ Slug(c) \in Slugs
    BY MixFacts DEF Inv, Types, Ask, Slug, Generates
<1>2. pc'[c] = "end" /\ status'[c] = how /\ Types' /\ OthersStay(c)
    BY <1>1 DEF Types, PCs, End, OthersStay
<1>3. Place(c)'
  <2>1. how = "ok" => Generates(c) /\ ~Ask(c).routed /\ langs[c] = {}
      BY <1>1 DEF Place
  <2>. QED
      BY <1>1, <1>2, <2>1 DEF Place
<1>4. Undisturbed(c)'
  <2>1. how = "ok" => langs[c] = {} /\ ToSet(todo[c]) = {} /\ status[c] = "none"
      BY <1>1 DEF Place
  <2>. QED
      BY <1>1, <1>2, <2>1 DEF Undisturbed
<1>5. Picture(c)'
  <2>1. how = "error" => (c \in drawn => Ask(c).routed)
      BY <1>1 DEF Place
  <2>2. Removers(Slug(c)) \subseteq Removers(Slug(c))'
      BY <1>1, <1>2, RemoversGrow DEF Running
  <2>. QED
      BY <1>1, <1>2, <2>1, <2>2 DEF Picture, Known, Slug, Ask
<1>. QED
    BY <1>2, <1>3, <1>4, <1>5, MovedOnly

LEMMA CannotPutStep == ASSUME Inv, NEW c \in Callers, CannotPut(c) PROVE Inv'
<1>1. End(c, "error") /\ pc[c] = "put" /\ Running(c)
    BY DEF CannotPut, UpdateFails, Running
<1>. QED
    BY <1>1, Ends DEF CannotPut, fileVars, localVars

LEMMA BuildStep == ASSUME Inv, NEW c \in Callers, Build(c) PROVE Inv'
<1>1. pc[c] = "build" /\ Running(c)
    BY DEF Build, Running
<1>2. CASE End(c, "ok")
    BY <1>1, <1>2, Ends DEF Build, fileVars, localVars
<1>3. CASE BuildFails(c)
  <2>1. /\ Types /\ Place(c) /\ Picture(c) /\ Undisturbed(c)
        /\ Ask(c)' = Ask(c) /\ Slug(c)' = Slug(c) /\ Ask(c).routed \in BOOLEAN
        /\ Generates(c)' = Generates(c) /\ Slug(c) \in Slugs
      BY MixFacts DEF Inv, Types, Build, Ask, Slug, Generates
  <2>2. /\ UNCHANGED <<mix, since, drawn>> /\ UNCHANGED <<image, detached, page>>
        /\ UNCHANGED <<langs, todo, target, read, status>>
      BY <1>3 DEF Build, BuildFails, Goto, fileVars, localVars
  <2>3. pc'[c] = "cleanup" /\ Types' /\ OthersStay(c)
      BY <1>3, <2>1, <2>2 DEF Types, PCs, BuildFails, Goto, OthersStay
  <2>4. Generates(c) /\ ~Ask(c).routed /\ c \in drawn /\ status[c] = "none"
      BY <1>1, <2>1 DEF Place
  <2>5. Place(c)'
      BY <1>1, <2>1, <2>2, <2>3, <2>4 DEF Place
  <2>6. Undisturbed(c)'
      BY <1>1, <2>1, <2>2, <2>3, <2>4 DEF Undisturbed
  <2>7. Picture(c)'
    <3>1. Removers(Slug(c)) \subseteq Removers(Slug(c))'
        BY <1>1, <2>1, <2>2, <2>3, RemoversGrow
    <3>. QED
        BY <1>1, <2>1, <2>2, <2>3, <2>4, <3>1 DEF Picture, Known, Slug, Ask
  <2>. QED
      BY <1>1, <2>2, <2>3, <2>5, <2>6, <2>7, MovedOnly
<1>. QED
    BY <1>2, <1>3 DEF Build

LEMMA TruncateStep == ASSUME Inv, NEW c \in Callers, Truncate(c) PROVE Inv'
<1>1. pc[c] = "open" /\ Running(c)
    BY DEF Truncate, Running
<1>2. CASE End(c, "error") /\ UNCHANGED image
    BY <1>1, <1>2, Ends DEF Truncate, localVars
<1>3. CASE image' = [image EXCEPT ![Slug(c)] = Empty] /\ Goto(c, "write")
  <2>1. /\ Types /\ Place(c) /\ Picture(c) /\ Undisturbed(c)
        /\ Ask(c)' = Ask(c) /\ Slug(c)' = Slug(c) /\ Ask(c).routed \in BOOLEAN
        /\ Generates(c)' = Generates(c) /\ Slug(c) \in Slugs
      BY MixFacts DEF Inv, Types, Truncate, Ask, Slug, Generates
  <2>2. /\ UNCHANGED <<mix, since, drawn>> /\ UNCHANGED <<detached, page>>
        /\ UNCHANGED <<langs, todo, target, read, status>>
      BY <1>3 DEF Truncate, Goto, localVars
  <2>3. /\ \A s \in Slugs : image'[s] = IF s = Slug(c) THEN Empty ELSE image[s]
        /\ image' \in [Slugs -> Pictures]
      BY <1>3, <2>1 DEF Types, Pictures
  <2>4. pc'[c] = "write" /\ Types' /\ OthersStay(c)
      BY <1>3, <2>1, <2>2, <2>3 DEF Types, PCs, Goto, OthersStay
  <2>5. Removed'
    <3> SUFFICES ASSUME NEW s \in Slugs, image'[s] = Absent, Known(s)'
                 PROVE  Removers(s)' # {}
        BY DEF Removed
    <3>1. image[s] = Absent /\ Known(s)
        BY <2>2, <2>3, Constants DEF Known, Slug, Ask
    <3>2. Removers(s) # {}
        BY <3>1 DEF Inv, Removed
    <3>. QED
        BY <1>1, <2>2, <2>4, <3>2, RemoversGrow
  <2>6. PagesKnown'
      BY <2>2 DEF Inv, PagesKnown, Known, Slug, Ask
  <2>7. Place(c)' /\ Undisturbed(c)'
    <3>1. Place(c)'
        BY <1>1, <2>1, <2>2, <2>4 DEF Place
    <3>2. c \notin detached /\ status[c] = "none"
        BY <1>1, <2>1 DEF Place
    <3>3. Undisturbed(c)'
        BY <1>1, <2>1, <2>2, <2>3, <2>4, <3>2 DEF Undisturbed
    <3>. QED
        BY <3>1, <3>3
  <2>8. ASSUME NEW d \in Callers PROVE Picture(d)'
    <3>1. CASE d = c
      <4>1. c \notin detached /\ status[c] = "none" /\ image'[Slug(c)] # Absent
          BY <1>1, <2>1, <2>3, Constants DEF Place
      <4>. QED
          BY <2>1, <2>2, <2>4, <3>1, <4>1 DEF Picture, Known, Slug, Ask
    <3>2. CASE d # c
      <4>1. Slug(d) \in Slugs /\ d # Empty
          BY <2>1, MixFacts, Constants DEF Types
      <4>. QED
          BY <1>1, <2>2, <2>3, <2>4, <3>2, <4>1, PictureStays, Constants
    <3>. QED
        BY <3>1, <3>2
  <2>. QED
      BY <1>1, <2>2, <2>4, <2>5, <2>6, <2>7, <2>8, Moved
<1>. QED
    BY <1>2, <1>3 DEF Truncate

LEMMA RenderStep == ASSUME Inv, NEW c \in Callers, Render(c) PROVE Inv'
<1>1. /\ Types /\ Place(c) /\ Picture(c) /\ Undisturbed(c)
      /\ Ask(c)' = Ask(c) /\ Slug(c)' = Slug(c) /\ Ask(c).routed \in BOOLEAN
      /\ Generates(c)' = Generates(c) /\ Slug(c) \in Slugs
      /\ pc[c] = "write" /\ Running(c)
    BY MixFacts DEF Inv, Types, Render, Ask, Slug, Generates, Running
<1>2. /\ UNCHANGED <<mix, since>> /\ UNCHANGED <<detached, page>>
      /\ UNCHANGED <<langs, todo, target, read, status>> /\ drawn' = drawn \cup {c}
    BY DEF Render, Goto, localVars
<1>3. /\ c \in detached => image' = image
      /\ c \notin detached => \E picture \in {c, Broken} :
           /\ image' = [image EXCEPT ![Slug(c)] = picture]
           /\ image[Slug(c)] = Empty => picture = c
    BY DEF Render, Filled
<1>4. /\ image' \in [Slugs -> Pictures]
      /\ \A s \in Slugs \ {Slug(c)} : image'[s] = image[s]
      /\ c \in detached => image'[Slug(c)] = image[Slug(c)]
      /\ c \notin detached => /\ image'[Slug(c)] \in {c, Broken}
                              /\ image[Slug(c)] = Empty => image'[Slug(c)] = c
    BY <1>1, <1>3, SMTT(30) DEF Types, Pictures, Makers
<1>5. pc'[c] = "stat" /\ Types' /\ OthersStay(c)
    BY <1>1, <1>2, <1>4 DEF Render, Types, PCs, Goto, OthersStay
<1>6. /\ Generates(c) /\ status[c] = "none"
      /\ \A s \in Slugs : Removers(s) \subseteq Removers(s)' /\ (Known(s) => Known(s)')
    BY <1>1, <1>2, <1>5, RemoversGrow DEF Place
<1>7. Removed'
  <2> SUFFICES ASSUME NEW s \in Slugs, image'[s] = Absent, Known(s)' PROVE Removers(s)' # {}
      BY DEF Removed
  <2>1. CASE s = Slug(c)
    <3>1. c \in detached
        BY <1>4, <2>1, Constants
    <3>2. Removers(s) # {}
        BY <1>1, <2>1, <3>1 DEF Picture
    <3>. QED
        BY <1>6, <3>2
  <2>2. CASE s # Slug(c)
    <3>1. image[s] = Absent /\ Known(s)
        BY <1>2, <1>4, <2>2 DEF Known, Slug, Ask
    <3>2. Removers(s) # {}
        BY <3>1 DEF Inv, Removed
    <3>. QED
        BY <1>6, <3>2
  <2>. QED
      BY <2>1, <2>2
<1>8. PagesKnown'
  <2> SUFFICES ASSUME NEW n \in Names, page'[n] \in Slugs PROVE Known(page[n])'
      BY DEF PagesKnown
  <2>1. Known(page[n]) /\ page'[n] = page[n]
      BY <1>2 DEF Inv, PagesKnown
  <2>2. \A s \in Slugs : Known(s) => Known(s)'
      BY <1>6
  <2>. QED
      BY <2>1, <2>2 DEF Known, Slug, Ask
<1>9. Place(c)'
    BY <1>1, <1>2, <1>5, <1>6 DEF Place
<1>10. Undisturbed(c)'
  <2>1. since[c] = {} => image'[Slug(c)] = c
      BY <1>1, <1>4, <1>6 DEF Undisturbed
  <2>. QED
      BY <1>1, <1>2, <1>5, <1>6, <2>1 DEF Undisturbed
<1>11. ASSUME NEW d \in Callers PROVE Picture(d)'
  <2>1. CASE d = c
    <3>1. read'[c] = read[c] /\ (read[c] \in Slugs => Known(read[c]))
          /\ \A s \in Slugs : Known(s) => Known(s)'
        BY <1>1, <1>2, <1>6 DEF Picture
    <3>2. c \in detached => Removers(Slug(c))' # {}
        BY <1>1, <1>6 DEF Picture
    <3>. QED
        BY <1>1, <1>2, <1>5, <1>6, <2>1, <3>1, <3>2 DEF Picture, Known, Slug, Ask
  <2>2. CASE d # c
    <3>1. /\ Slug(d) \in Slugs /\ pc[c] # "end" /\ d # Broken /\ Absent # c
      BY <1>1, MixFacts, Constants DEF Types
    <3>2. /\ image[Slug(d)] # Absent => image'[Slug(d)] # Absent
          /\ image'[Slug(d)] = d => image[Slug(d)] = d
        BY <1>4, <2>2, <3>1, Constants
    <3>. QED
        BY <1>2, <1>5, <2>2, <3>1, <3>2, PictureStays
  <2>. QED
      BY <2>1, <2>2
<1>. QED
    BY <1>1, <1>2, <1>5, <1>7, <1>8, <1>9, <1>10, <1>11, Moved

LEMMA CannotRenderStep == ASSUME Inv, NEW c \in Callers, CannotRender(c) PROVE Inv'
<1>1. pc[c] = "write" /\ Running(c) /\ End(c, "error")
    BY DEF CannotRender, Running
<1>2. CASE UNCHANGED image
    BY <1>1, <1>2, Ends DEF CannotRender, localVars
<1>3. CASE c \notin detached /\ image' = [image EXCEPT ![Slug(c)] = Broken]
  <2>1. /\ Types /\ Place(c) /\ Picture(c) /\ Undisturbed(c)
        /\ Ask(c)' = Ask(c) /\ Slug(c)' = Slug(c) /\ Ask(c).routed \in BOOLEAN
        /\ Generates(c)' = Generates(c) /\ Slug(c) \in Slugs
      BY MixFacts DEF Inv, Types, CannotRender, Ask, Slug, Generates
  <2>2. /\ UNCHANGED <<mix, since, drawn>> /\ UNCHANGED <<detached, page>>
        /\ UNCHANGED <<langs, todo, target, read>>
      BY DEF CannotRender, localVars
  <2>3. /\ \A s \in Slugs : image'[s] = IF s = Slug(c) THEN Broken ELSE image[s]
        /\ image' \in [Slugs -> Pictures]
      BY <1>3, <2>1 DEF Types, Pictures
  <2>4. pc'[c] = "end" /\ status'[c] = "error" /\ Types' /\ OthersStay(c)
      BY <1>1, <2>1, <2>2, <2>3 DEF Types, PCs, End, OthersStay
  <2>5. Removed'
    <3> SUFFICES ASSUME NEW s \in Slugs, image'[s] = Absent, Known(s)'
                 PROVE  Removers(s)' # {}
        BY DEF Removed
    <3>1. image[s] = Absent /\ Known(s)
        BY <2>2, <2>3, Constants DEF Known, Slug, Ask
    <3>2. Removers(s) # {}
        BY <3>1 DEF Inv, Removed
    <3>. QED
        BY <1>1, <2>2, <2>4, <3>2, RemoversGrow
  <2>6. PagesKnown'
      BY <2>2 DEF Inv, PagesKnown, Known, Slug, Ask
  <2>7. Place(c)' /\ Undisturbed(c)' /\ c \notin drawn
      BY <1>1, <2>1, <2>2, <2>4 DEF Place, Undisturbed
  <2>8. ASSUME NEW d \in Callers PROVE Picture(d)'
    <3>1. CASE d = c
        BY <1>3, <2>1, <2>2, <2>4, <2>7, <3>1 DEF Picture, Known, Slug, Ask
    <3>2. CASE d # c
      <4>1. Slug(d) \in Slugs /\ d # Broken
          BY <2>1, MixFacts, Constants DEF Types
      <4>. QED
          BY <1>1, <2>2, <2>3, <2>4, <3>2, <4>1, PictureStays, Constants
    <3>. QED
        BY <3>1, <3>2
  <2>. QED
      BY <1>1, <2>2, <2>4, <2>5, <2>6, <2>7, <2>8, Moved
<1>. QED
    BY <1>2, <1>3 DEF CannotRender

LEMMA PutStep == ASSUME Inv, NEW c \in Callers, Put(c) PROVE Inv'
<1>1. /\ Types /\ Place(c) /\ Picture(c) /\ Undisturbed(c) /\ PagesKnown
      /\ Ask(c)' = Ask(c) /\ Slug(c)' = Slug(c) /\ Ask(c).routed \in BOOLEAN
      /\ Generates(c)' = Generates(c) /\ Slug(c) \in Slugs
      /\ pc[c] = "put" /\ Running(c) /\ status[c] = "none"
    BY MixFacts DEF Inv, Types, Place, Put, Ask, Slug, Generates, Running
<1>2. /\ UNCHANGED <<mix, since, drawn>> /\ UNCHANGED <<image, detached>>
      /\ UNCHANGED <<langs, target, read>>
    BY DEF Put
<1>3. /\ NewPage(c) \in Slugs \cup {Absent, NoImage}
      /\ NewPage(c) \in Slugs => Known(NewPage(c))
      /\ Generates(c) => NewPage(c) = Slug(c)
  <2>1. CASE Generates(c)
    <3>1. NewPage(c) = Slug(c) /\ c \in drawn
        BY <1>1, <2>1 DEF NewPage, Generates, Place
    <3>. QED
        BY <1>1, <3>1 DEF Known
  <2>2. CASE Ask(c).tool = "update_page"
    <3>1. NewPage(c) = read[c] /\ ~Generates(c)
        BY <2>2 DEF NewPage, Generates
    <3>. QED
        BY <1>1, <3>1 DEF Picture, Types
  <2>3. CASE Ask(c).tool \notin {"generate_featured_image", "update_page"}
      BY <2>3, Constants DEF NewPage, Generates
  <2>. QED
      BY <2>1, <2>2, <2>3 DEF Generates
<1>4. /\ \A n \in Names : page'[n] = IF n = target[c] THEN NewPage(c) ELSE page[n]
      /\ page' \in [Names -> Slugs \cup {Absent, NoImage}]
      /\ target[c] \in Names
    BY <1>1, <1>3 DEF Put, Types
<1>5. CASE Generates(c)
  <2>1. /\ todo' = [todo EXCEPT ![c] = Tail(todo[c])]
        /\ IF Tail(todo[c]) = <<>> THEN End(c, "ok") ELSE Goto(c, "find")
      BY <1>1, <1>5 DEF Put, Generates, Types
  <2>2. /\ todo[c] \in Seq(Names) /\ todo[c] # <<>> /\ ToSet(todo[c]) \subseteq langs[c]
        /\ c \in drawn /\ Ask(c).routed
      BY <1>1, <1>5 DEF Types, Place
  <2>3. /\ Head(todo[c]) \in Names /\ Tail(todo[c]) \in Seq(Names)
        /\ ToSet(todo[c]) = ToSet(Tail(todo[c])) \cup {Head(todo[c])}
      BY <2>2, TailFacts
  <2>4. /\ \/ Tail(todo[c]) = <<>> /\ pc'[c] = "end" /\ status'[c] = "ok"
           \/ Tail(todo[c]) # <<>> /\ pc'[c] = "find" /\ status'[c] = "none"
        /\ pc' \in [Callers -> PCs] /\ status' \in [Callers -> {"none", "ok", "error", "lost"}]
        /\ \A d \in Callers \ {c} : pc'[d] = pc[d] /\ status'[d] = status[d]
      BY <1>1, <2>1 DEF End, Goto, Types, PCs
  <2>5. /\ todo' \in [Callers -> Seq(Names)] /\ todo'[c] = Tail(todo[c])
        /\ \A d \in Callers \ {c} : todo'[d] = todo[d]
      BY <1>1, <2>1, <2>3 DEF Types
  <2>6. Types' /\ OthersStay(c)
      BY <1>1, <1>2, <1>4, <2>4, <2>5 DEF Types, OthersStay
  <2>7. Place(c)'
    <3>1. ToSet(todo[c])' \subseteq langs'[c] /\ langs'[c] # {}
        BY <1>2, <2>2, <2>3, <2>5
    <3>. QED
        BY <1>1, <1>2, <1>5, <2>2, <2>4, <2>5, <3>1 DEF Place
  <2>8. Undisturbed(c)'
    <3> SUFFICES ASSUME since[c] = {}
                 PROVE  /\ image[Slug(c)] = c
                        /\ \A n \in langs[c] : page'[n] # Absent
                        /\ \A n \in langs[c] \ ToSet(Tail(todo[c])) : page'[n] = Slug(c)
                        /\ status'[c] = "ok" => ToSet(Tail(todo[c])) = {}
        BY <1>1, <1>2, <2>4, <2>5 DEF Undisturbed
    <3>1. /\ image[Slug(c)] = c /\ target[c] = Head(todo[c])
          /\ \A n \in langs[c] : page[n] # Absent
          /\ \A n \in langs[c] \ ToSet(todo[c]) : page[n] = Slug(c)
        BY <1>1, <1>5 DEF Undisturbed
    <3>2. NewPage(c) = Slug(c) /\ Slug(c) # Absent /\ langs[c] \subseteq Names
        BY <1>1, <1>3, <1>5, Constants DEF Types
    <3>3. status'[c] = "ok" => ToSet(Tail(todo[c])) = {}
        BY <2>4, NoneToDo
    <3>. QED
        BY <1>4, <2>3, <3>1, <3>2, <3>3
  <2>9. Picture(c)'
    <3>1. c \in detached => Removers(Slug(c)) # {}
        BY <1>1 DEF Picture
    <3>2. Removers(Slug(c)) \subseteq Removers(Slug(c))'
        BY <1>1, <1>2, <2>6, RemoversGrow
    <3>. QED
        BY <1>1, <1>2, <2>2, <2>4, <3>1, <3>2 DEF Picture, Known, Slug, Ask
  <2>. QED
      BY <1>1, <1>2, <1>3, <1>4, <2>6, <2>7, <2>8, <2>9, Shown
<1>6. CASE ~Generates(c)
  <2>1. End(c, "ok") /\ UNCHANGED todo
      BY <1>6 DEF Put, Generates
  <2>2. pc'[c] = "end" /\ status'[c] = "ok" /\ Types' /\ OthersStay(c)
      BY <1>1, <1>2, <1>4, <2>1 DEF Types, PCs, End, OthersStay
  <2>3. Place(c)' /\ Undisturbed(c)'
      BY <1>1, <1>2, <1>6, <2>1, <2>2 DEF Place, Undisturbed
  <2>4. Picture(c)'
    <3>1. c \in detached => Removers(Slug(c)) # {}
        BY <1>1 DEF Picture
    <3>2. Removers(Slug(c)) \subseteq Removers(Slug(c))'
        BY <1>1, <1>2, <2>2, RemoversGrow
    <3>. QED
        BY <1>1, <1>2, <2>2, <3>1, <3>2 DEF Picture, Known, Slug, Ask
  <2>. QED
      BY <1>1, <1>2, <1>3, <1>4, <2>2, <2>3, <2>4, Shown
<1>. QED
    BY <1>5, <1>6

LEMMA CleanUpStep == ASSUME Inv, NEW c \in Callers, CleanUp(c) PROVE Inv'
<1>1. /\ Types /\ Place(c) /\ Picture(c)
      /\ Ask(c)' = Ask(c) /\ Slug(c)' = Slug(c) /\ Ask(c).routed \in BOOLEAN
      /\ Generates(c)' = Generates(c) /\ Slug(c) \in Slugs
      /\ pc[c] = "cleanup" /\ Running(c)
    BY MixFacts DEF Inv, Types, CleanUp, Ask, Slug, Generates, Running
<1>2. /\ UNCHANGED <<mix, since, drawn>> /\ UNCHANGED page
      /\ UNCHANGED <<langs, todo, target, read>>
      /\ detached' = detached \cup {d \in Callers : pc[d] = "write" /\ Slug(d) = Slug(c)}
    BY DEF CleanUp, localVars
<1>3. /\ \A s \in Slugs : image'[s] = IF s = Slug(c) THEN Absent ELSE image[s]
      /\ image' \in [Slugs -> Pictures]
    BY <1>1 DEF CleanUp, Types, Pictures
<1>4. pc'[c] = "end" /\ status'[c] = "error" /\ Types' /\ OthersStay(c)
    BY <1>1, <1>2, <1>3 DEF CleanUp, End, Types, PCs, OthersStay
<1>5. /\ Generates(c) /\ c \in drawn
      /\ \A s \in Slugs : Removers(s) \subseteq Removers(s)' /\ (Known(s) => Known(s)')
    BY <1>1, <1>2, <1>4, RemoversGrow DEF Place
<1>6. ASSUME NEW s \in Slugs, s = Slug(c) PROVE Removers(s)' # {}
  <2>1. CASE Ask(c).routed
    <3>1. Removers(s) # {}
        BY <1>1, <1>6, <2>1 DEF Picture
    <3>. QED
        BY <1>5, <3>1
  <2>2. CASE ~Ask(c).routed
      BY <1>1, <1>2, <1>4, <1>5, <1>6, <2>2 DEF Removers, Slug, Ask
  <2>. QED
      BY <2>1, <2>2
<1>7. Removed'
  <2> SUFFICES ASSUME NEW s \in Slugs, image'[s] = Absent, Known(s)', s # Slug(c)
               PROVE  Removers(s)' # {}
      BY <1>6 DEF Removed
  <2>1. image[s] = Absent /\ Known(s)
      BY <1>2, <1>3 DEF Known, Slug, Ask
  <2>2. Removers(s) # {}
      BY <2>1 DEF Inv, Removed
  <2>. QED
      BY <1>5, <2>2
<1>8. PagesKnown'
    BY <1>2 DEF Inv, PagesKnown, Known, Slug, Ask
<1>9. Place(c)' /\ Undisturbed(c)'
  <2>1. c \notin detached' \ detached
      BY <1>1, <1>2
  <2>. QED
      BY <1>1, <1>2, <1>4, <1>5, <2>1 DEF Place, Undisturbed
<1>10. ASSUME NEW d \in Callers PROVE Picture(d)'
  <2>1. /\ Picture(d) /\ Slug(d) \in Slugs /\ Slug(d)' = Slug(d) /\ Ask(d)' = Ask(d)
        /\ d # Absent /\ (read[d] \in Slugs => Known(read[d])) /\ read'[d] = read[d]
      BY <1>1, <1>2, MixFacts, Constants DEF Inv, Types, Picture, Slug, Ask
  <2>2. read'[d] \in Slugs => Known(read[d])'
      BY <1>2, <2>1 DEF Known, Slug, Ask
  <2>3. (d = c) \/ (pc'[d] = pc[d] /\ status'[d] = status[d])
      BY <1>4 DEF OthersStay
  <2>4. \A s \in Slugs : s = Slug(d) /\ (s = Slug(c) \/ Removers(s) # {})
                            => Removers(Slug(d))' # {}
      BY <1>5, <1>6, <2>1
  <2>5. /\ pc'[d] = "write" /\ d \notin detached' => image'[Slug(d)] # Absent
        /\ d \in detached' => Slug(d) = Slug(c) \/ Removers(Slug(d)) # {}
        /\ pc'[d] = "cleanup" /\ Ask(d).routed => Removers(Slug(d)) # {}
      BY <1>2, <1>3, <1>4, <2>1, <2>3 DEF Picture
  <2>6. d \in drawn /\ status'[d] = "error" /\ ~Ask(d).routed => image'[Slug(d)] # d
      BY <1>3, <1>4, <2>1, <2>3 DEF Picture
  <2>. QED
      BY <1>2, <2>1, <2>2, <2>4, <2>5, <2>6 DEF Picture
<1>. QED
    BY <1>1, <1>2, <1>4, <1>7, <1>8, <1>9, <1>10, Moved

LEMMA CrashStep == ASSUME Inv, Crash PROVE Inv'
<1>1. /\ Types /\ UNCHANGED <<mix, since, drawn>> /\ UNCHANGED <<image, detached, page>>
      /\ UNCHANGED <<langs, todo, target, read>>
    BY DEF Inv, Crash, fileVars, localVars
<1>2. /\ pc' \in [Callers -> PCs] /\ status' \in [Callers -> {"none", "ok", "error", "lost"}]
      /\ \A c \in Callers : \/ pc'[c] = "end" /\ status'[c] = "lost" /\ Running(c)
                            \/ pc'[c] = pc[c] /\ status'[c] = status[c] /\ ~Running(c)
    BY <1>1 DEF Crash, Types, PCs
<1>3. Types'
    BY <1>1, <1>2 DEF Types
<1>4. ASSUME NEW c \in Callers PROVE /\ Ask(c)' = Ask(c) /\ Slug(c)' = Slug(c)
                                     /\ Generates(c)' = Generates(c)
    BY <1>1 DEF Ask, Slug, Generates
<1>5. ASSUME NEW s PROVE Removers(s) \subseteq Removers(s)' /\ (Known(s)' <=> Known(s))
  <2>1. ASSUME NEW d \in Removers(s) PROVE d \in Removers(s)'
    <3>1. d \in Callers /\ Place(d) /\ status[d] = "error"
        BY DEF Inv, Types, Removers
    <3>2. ~Running(d)
        BY <3>1 DEF Place, Running
    <3>. QED
        BY <1>1, <1>2, <1>4, <3>1, <3>2 DEF Removers
  <2>. QED
      BY <1>1, <2>1 DEF Known, Slug, Ask
<1>6. Removed' /\ PagesKnown'
  <2>1. ASSUME NEW s \in Slugs, image'[s] = Absent, Known(s)' PROVE Removers(s)' # {}
    <3>1. Removers(s) # {}
        BY <1>1, <1>5, <2>1 DEF Inv, Removed
    <3>. QED
        BY <1>5, <3>1
  <2>. QED
      BY <1>1, <2>1 DEF Inv, Removed, PagesKnown, Known, Slug, Ask
<1>7. ASSUME NEW c \in Callers PROVE Place(c)' /\ Solo(c)' /\ Undisturbed(c)'
  <2>1. Place(c) /\ Undisturbed(c) /\ Slug(c) \in Slugs
      BY <1>1, MixFacts DEF Inv, Types
  <2>2. Place(c)'
    <3>1. CASE pc'[c] = "end" /\ status'[c] = "lost" /\ Running(c)
        BY <1>1, <1>4, <2>1, <3>1 DEF Place, Running
    <3>2. CASE pc'[c] = pc[c] /\ status'[c] = status[c]
        BY <1>1, <1>4, <2>1, <3>2 DEF Place
    <3>. QED
        BY <1>2, <3>1, <3>2
  <2>3. Solo(c)'
      BY <1>2 DEF Solo, Running
  <2>4. Undisturbed(c)'
      BY <1>1, <1>2, <1>4, <2>1 DEF Undisturbed
  <2>. QED
      BY <2>2, <2>3, <2>4
<1>8. ASSUME NEW c \in Callers PROVE Picture(c)'
  <2>1. /\ Picture(c) /\ Slug(c)' = Slug(c) /\ Ask(c)' = Ask(c) /\ Slug(c) \in Slugs
        /\ read'[c] = read[c]
      BY <1>1, <1>4, MixFacts DEF Inv, Types
  <2>2. Removers(Slug(c)) \subseteq Removers(Slug(c))'
      BY <1>5, <2>1
  <2>3. Known(read[c]) => Known(read[c])'
      BY <1>1, <2>1 DEF Known, Slug, Ask
  <2>. QED
      BY <1>1, <1>2, <2>1, <2>2, <2>3 DEF Picture
<1>. QED
    BY <1>3, <1>6, <1>7, <1>8 DEF Inv

LEMMA InvStep == ASSUME Inv, [Next]_vars PROVE Inv'
<1>1. CASE UNCHANGED vars
  <2>1. Types' /\ Removed' /\ PagesKnown'
      BY <1>1 DEF vars, fileVars, localVars, Inv, Types, Removed, PagesKnown, Removers, Known,
                  Slug, Ask
  <2>2. ASSUME NEW c \in Callers PROVE Place(c)' /\ Solo(c)' /\ Undisturbed(c)'
      BY <1>1 DEF vars, fileVars, localVars, Inv, Place, Solo, Undisturbed, Generates,
                  Running, Slug, Ask
  <2>3. ASSUME NEW c \in Callers PROVE Picture(c)'
      BY <1>1 DEF vars, fileVars, localVars, Inv, Picture, Removers, Known, Slug, Ask
  <2>. QED
      BY <2>1, <2>2, <2>3 DEF Inv
<1>2. CASE \E c \in Callers : Step(c)
    BY <1>2, BeginStep, LookUpLangStep, LookUpPlainStep, TruncateStep, RenderStep,
       CannotRenderStep, StatStep, FindStep, PutStep, CannotPutStep, BuildStep, CleanUpStep
    DEF Step
<1>3. CASE Crash
    BY <1>3, CrashStep
<1>. QED
    BY <1>1, <1>2, <1>3 DEF Next, Quiet

LEMMA Invariance == Spec => []Inv
<1>. QED
    BY InvInit, InvStep, PTL DEF Spec

(* The values stay in their types, and a call looks for index.md only when  *)
(* it has found no language (featuredImageTargetLangs), at any interleaving. *)
THEOREM TypeCorrect == Spec => []TypeOK
<1>1. Inv => TypeOK
  <2> SUFFICES ASSUME Inv PROVE TypeOK
      OBVIOUS
  <2>1. \A c \in Callers : /\ langs[c] \in (SUBSET {"fr", "en"}) \cup {{"plain"}}
                           /\ ToSet(todo[c]) \subseteq langs[c]
      BY DEF Inv, Place
  <2>. QED
      BY <2>1 DEF Inv, Types, TypeOK, Pictures
<1>. QED
    BY <1>1, Invariance, PTL

(* generateFeaturedImage: a page never names a picture that is not there,   *)
(* unless the cleanup of a failed build took it away.                      *)
THEOREM NamedImageExistsHolds == Spec => []NamedImageExists
<1>1. Inv => NamedImageExists
    BY DEF Inv, PagesKnown, Removed, NamedImageExists
<1>. QED
    BY <1>1, Invariance, PTL

(* LangsUpdated and public_url: a call that succeeds with no other beside   *)
(* or after it has its whole picture in each page it reports.              *)
THEOREM OkMeansUpdatedHolds == Spec => []OkMeansUpdated
<1>1. Inv => OkMeansUpdated
  <2> SUFFICES ASSUME Inv, NEW c \in Callers, Generated(c), since[c] = {}
               PROVE  /\ image[Slug(c)] = c
                      /\ \A n \in langs[c] : page[n] = Slug(c)
                      /\ Ask(c).routed => langs[c] # {}
      BY DEF OkMeansUpdated
  <2>1. Place(c) /\ Undisturbed(c) /\ Generates(c) /\ status[c] = "ok"
      BY DEF Inv, Generated, Generates
  <2>2. pc[c] # "idle"
      BY <2>1 DEF Place
  <2>3. /\ image[Slug(c)] = c /\ ToSet(todo[c]) = {}
        /\ \A n \in langs[c] \ ToSet(todo[c]) : page[n] = Slug(c)
      BY <2>1, <2>2 DEF Undisturbed
  <2>. QED
      BY <2>1, <2>3 DEF Place
<1>. QED
    BY <1>1, Invariance, PTL

(* The deferred cleanup: a call whose build has failed leaves no picture of  *)
(* its own, whatever was drawn and removed beside it.                      *)
THEOREM FailedBuildIsUndoneHolds == Spec => []FailedBuildIsUndone
<1>1. Inv => FailedBuildIsUndone
    BY DEF Inv, Types, Picture, FailedBuildIsUndone
<1>. QED
    BY <1>1, Invariance, PTL
=============================================================================
