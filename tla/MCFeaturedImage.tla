--------------------------- MODULE MCFeaturedImage ---------------------------
(* Three calls of FeaturedImage on one page in up to three files.               *)
EXTENDS FeaturedImage, TLC

CONSTANTS c1, c2, c3, s1, s2

Call(tool, lang, slug, routed) ==
    [tool |-> tool, lang |-> lang, slug |-> slug, routed |-> routed, valid |-> TRUE]

Picture(slug) == Call("generate_featured_image", "plain", slug, TRUE)
Loose(slug)   == Call("generate_featured_image", "plain", slug, FALSE)
Edit(lang)    == Call("update_page", lang, s1, TRUE)
Gone(lang)    == Call("delete_page", lang, s1, TRUE)
Invalid(call) == [call EXCEPT !.valid = FALSE]

\* Two pictures under one slug while a language of the page is deleted.
SameSlug == c1 :> Picture(s1) @@ c2 :> Picture(s1) @@ c3 :> Gone("fr")

\* A picture without a route under the slug of the page, a new one, an edit.
NoRoute == c1 :> Loose(s1) @@ c2 :> Picture(s1) @@ c3 :> Edit("en")

\* Two slugs for one page, and a request that is refused.
TwoSlugs == c1 :> Picture(s1) @@ c2 :> Picture(s2) @@ c3 :> Invalid(Loose(s1))

Bundles == {{"fr", "en"}, {"en", "plain"}, {"plain"}}

AllMixes == [asks : {SameSlug, NoRoute, TwoSlugs}, found : Bundles, shown : {{}, {s1}}]
=============================================================================
