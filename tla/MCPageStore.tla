---------------------------- MODULE MCPageStore -----------------------------
(* Up to four calls of PageStore on one page and one asset.                     *)
EXTENDS PageStore, TLC

CONSTANTS c1, c2, c3, c4

Ask(tool, lang, sets, drops) ==
    [tool |-> tool, lang |-> lang, sets |-> sets, drops |-> drops, valid |-> TRUE]
Invalid(ask) == [ask EXCEPT !.valid = FALSE]

Title == Ask("update_page", "fr", {"title"}, {})
Body  == Ask("update_page", "fr", {"body"}, {})
Strip == Ask("update_page", "fr", {"title"}, {"body"})
Fresh == Ask("create_page", "fr", {}, {})
Gone  == Ask("delete_page", "fr", {}, {})
Logo  == Ask("upload_asset", "plain", {}, {})

\* The page is created, changed and deleted, and an asset comes in; two creators
\* of the page race with a delete; three updates; an update, the same delete
\* twice and a request that is refused.
FourTools == c1 :> Fresh @@ c2 :> Body @@ c3 :> Gone @@ c4 :> Logo
Creators  == c1 :> Fresh @@ c2 :> Fresh @@ c3 :> Gone @@ c4 :> Title
Updates   == c1 :> Strip @@ c2 :> Body @@ c3 :> Title @@ c4 :> Invalid(Title)
Removal   == c1 :> Body @@ c2 :> Gone @@ c3 :> Gone @@ c4 :> Invalid(Fresh)

AllMixes == {FourTools, Creators, Updates, Removal}

\* The page in its language beside index.md, or only index.md.
PageFound == {{"fr", "plain"}, {"plain"}}
=============================================================================
