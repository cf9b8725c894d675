------------------------------- MODULE Chunks -------------------------------
(***************************************************************************)
(* How list_pages, list_assets, get_page_chunk and get_asset_chunk cut a   *)
(* window out of what they list or read (internal/hugo/pages,              *)
(* internal/hugo/assets): a cursor, a size, the next cursor.               *)
(*                                                                         *)
(* Content is a sequence of elements: the bytes of a text or of an asset,  *)
(* or the rows of a listing.  An element knows how many bytes of its       *)
(* character come before it and after it, none for a row.                  *)
(***************************************************************************)
EXTENDS Integers, Sequences

CONSTANTS DefaultChunk,    \* 64 << 10
          DefaultResults,  \* 100
          MostResults      \* 500

ASSUME ChunksAssumption ==
    /\ DefaultChunk \in Nat \ {0}
    /\ DefaultResults \in Nat \ {0} /\ MostResults \in Nat \ {0}
    /\ DefaultResults <= MostResults

Kinds == {"get_page_chunk", "get_asset_chunk", "list_pages", "list_assets"}

Element == [id : Nat, before : Nat, after : Nat]

Least(a, b)    == IF a < b THEN a ELSE b
Greatest(a, b) == IF a < b THEN b ELSE a

(* The size a request asks for, once the defaults and the cap are applied.  *)
Size(kind, content, asked) ==
    CASE kind = "list_pages"  -> IF asked <= 0 THEN Len(content) ELSE asked
      [] kind = "list_assets" -> IF asked <= 0 THEN DefaultResults
                                 ELSE Least(asked, MostResults)
      [] OTHER                -> IF asked <= 0 THEN DefaultChunk ELSE asked

Offset(content, cursor) == Least(cursor, Len(content))

(* utf8.Valid of the bytes from offset + 1 to end: no character is cut.    *)
Valid(content, offset, end) ==
    \A i \in offset + 1 .. end : /\ i - content[i].before > offset
                                 /\ i + content[i].after <= end

\* Mutant of Trimmed: a chunk ends wherever its size says.
Untrimmed(content, offset, end) == end

(* The loop that takes bytes off the end until what is left is valid.      *)
Trimmed(content, offset, end) ==
    CHOOSE e \in offset .. end :
        /\ Valid(content, offset, e)
        /\ \A f \in e + 1 .. end : ~Valid(content, offset, f)

End(kind, content, cursor, asked) ==
    LET offset == Offset(content, cursor)
        end    == Least(offset + Size(kind, content, asked), Len(content))
    IN  IF kind = "get_page_chunk" THEN Trimmed(content, offset, end) ELSE end

\* Mutant of IsLast: the end has to be passed.
IsLastStrict(content, end) == end > Len(content)

IsLast(content, end) == end >= Len(content)

\* What the JSON encoder makes of a byte that is not part of a character.
Replacement == 0

(* The answer's elements.  Pages go into a JSON string, where bytes of a    *)
(* character that was cut are replaced; assets are encoded in base64.      *)
Body(kind, content, offset, end) ==
    [i \in 1 .. end - offset |->
        LET b == content[offset + i]
        IN  IF kind = "get_page_chunk"
               /\ (i <= b.before \/ offset + i + b.after > end)
            THEN Replacement ELSE b.id]

\* Mutant of NextCursor: the size is added to the cursor that was sent.
CursorPlusSize(kind, content, cursor, asked) == cursor + Size(kind, content, asked)

NextCursor(kind, content, cursor, asked) == End(kind, content, cursor, asked)

Whole(content) == [i \in DOMAIN content |-> content[i].id]
=============================================================================
