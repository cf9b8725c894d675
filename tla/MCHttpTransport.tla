--------------------------- MODULE MCHttpTransport ---------------------------
(* Small instances of HttpTransport: readers of each kind, faulty requests, a   *)
(* tool that may hang, edits between chunks.                                    *)
EXTENDS HttpTransport, TLC

CONSTANTS c1, c2

Post(what, size) ==
    [path |-> "/mcp", post |-> TRUE, json |-> TRUE, token |-> TRUE, fits |-> TRUE,
     what |-> what, size |-> size]

Char(id, width) == [k \in 1..width |-> [id |-> id + k, before |-> k - 1, after |-> width - k]]

\* A three-byte character between narrow ones, and a byte that is no character.
Text == Char(10, 1) \o Char(20, 3) \o Char(30, 1)
Stray == Char(10, 1) \o <<[id |-> 40, before |-> 0, after |-> 9]>> \o Char(30, 1)
Rows(n) == [i \in 1..n |-> [id |-> i, before |-> 0, after |-> 0]]

Site(ask1, ask2, streaming, editions) ==
    [asks |-> c1 :> ask1 @@ c2 :> ask2, streaming |-> streaming, editions |-> editions]

\* A page is read beside a tool that may hang; with the default size and by two.
Steady == {Site(Post("get_page_chunk", 3), Post("mutation", 0), FALSE, <<Text>>),
           Site(Post("get_page_chunk", 0), Post("get_asset_chunk", 2), TRUE, <<Text>>),
           Site(Post("list_pages", 0), Post("list_assets", 9), FALSE, <<Rows(5)>>),
           Site(Post("list_pages", 2), Post("list_assets", 0), FALSE, <<Rows(5)>>)}

\* Chunks smaller than a character, a text that is not UTF-8, and an edit.
Unsteady == {Site(Post("get_page_chunk", 2), Post("initialize", 0), FALSE, <<Text>>),
             Site(Post("get_page_chunk", 3), Post("get_asset_chunk", 2), FALSE, <<Stray>>),
             Site(Post("get_page_chunk", 3), Post("mutation", 0), FALSE,
                  <<Text, Char(50, 3) \o Char(60, 1)>>)}

Faulty == {[Post("mutation", 0) EXCEPT !.post = FALSE],
           [Post("mutation", 0) EXCEPT !.json = FALSE],
           [Post("mutation", 0) EXCEPT !.token = FALSE],
           [Post("mutation", 0) EXCEPT !.fits = FALSE],
           [Post("mutation", 0) EXCEPT !.path = "elsewhere"], Post("garbage", 0)}

Events == {[r EXCEPT !.path = "/mcp/events"] :
              r \in Faulty \cup {Post("initialize", 0), Post("mutation", 0)}}

Requests == {Site(r, Post("initialize", 0), FALSE, <<Text>>) : r \in Faulty}
            \cup {Site(r, Post("mutation", 0), TRUE, <<Text>>) : r \in Events}
            \cup {Site(r, Post("mutation", 0), FALSE, <<Text>>) : r \in Events}

AnySetup == Steady \cup Unsteady \cup Requests
=============================================================================
