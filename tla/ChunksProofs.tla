---------------------------- MODULE ChunksProofs ----------------------------
(* What the windows of Chunks guarantee for every content, cursor and size. *)
EXTENDS Chunks, SequenceTheorems, WellFoundedInduction, TLAPS

(* A bounded set of numbers that is not empty has a greatest element.       *)
LEMMA GreatestElement ==
    ASSUME NEW a \in Nat, NEW b \in Nat, NEW S \in SUBSET (a .. b), S # {}
    PROVE  \E x \in S : \A y \in S : y <= x
<1> DEFINE T == {b - x : x \in S}
<1>1. T \subseteq Nat /\ T # {}
    OBVIOUS
<1>2. PICK t \in T : \A u \in T : ~(<<u, t>> \in OpToRel(<, Nat))
    BY <1>1, NatLessThanWellFounded, WFMin
<1>3. \A u \in T : ~(u < t)
    BY <1>1, <1>2 DEF OpToRel
<1>4. PICK x \in S : t = b - x
    OBVIOUS
<1>5. \A y \in S : y <= x
  <2> TAKE y \in S
  <2>1. b - y \in T /\ x \in Int /\ y \in Int
      OBVIOUS
  <2> HIDE DEF T
  <2>. QED
      BY <1>3, <1>4, <2>1
<1>. QED
    BY <1>5

(* The loop that takes bytes off the end stops: an empty window cuts nothing. *)
LEMMA TrimmedFacts ==
    ASSUME NEW content, NEW offset \in Nat, NEW end \in Nat, offset <= end
    PROVE  LET e == Trimmed(content, offset, end)
           IN  /\ e \in offset .. end
               /\ Valid(content, offset, e)
               /\ \A f \in e + 1 .. end : ~Valid(content, offset, f)
<1> DEFINE S == {e \in offset .. end : Valid(content, offset, e)}
<1>1. offset \in S
    BY DEF Valid
<1>2. PICK x \in S : \A y \in S : y <= x
    BY <1>1, GreatestElement
<1>3. \A f \in x + 1 .. end : ~Valid(content, offset, f)
  <2> TAKE f \in x + 1 .. end
  <2>1. f \in offset .. end /\ ~(f <= x)
      BY <1>2
  <2>. QED
      BY <1>2, <2>1
<1>. QED
    BY <1>2, <1>3 DEF Trimmed

LEMMA SizeType ==
    ASSUME ChunksAssumption, NEW kind \in Kinds, NEW content \in Seq(Element),
           NEW asked \in Int
    PROVE  Size(kind, content, asked) \in Nat
<1>1. Len(content) \in Nat
    BY LenProperties
<1>2. CASE kind = "list_pages"
    BY <1>1, <1>2 DEF Size
<1>3. CASE kind = "list_assets"
    BY <1>3 DEF Size, Least, ChunksAssumption
<1>4. CASE kind \in {"get_page_chunk", "get_asset_chunk"}
    BY <1>4 DEF Size, ChunksAssumption
<1>. QED
    BY <1>2, <1>3, <1>4 DEF Kinds

(* A window begins at its cursor, or at the end, and ends within the content. *)
LEMMA WindowFacts ==
    ASSUME ChunksAssumption, NEW kind \in Kinds, NEW content \in Seq(Element),
           NEW cursor \in Nat, NEW asked \in Int
    PROVE  LET offset == Offset(content, cursor)
               end    == End(kind, content, cursor, asked)
           IN  /\ Len(content) \in Nat
               /\ offset \in 0 .. Len(content)
               /\ cursor <= Len(content) => offset = cursor
               /\ cursor > Len(content) => offset = Len(content)
               /\ end \in offset .. Len(content)
               /\ kind = "get_page_chunk" => Valid(content, offset, end)
<1> DEFINE offset == Offset(content, cursor)
           size   == Size(kind, content, asked)
           most   == Least(offset + size, Len(content))
<1>1. Len(content) \in Nat
    BY LenProperties
<1>2. /\ offset \in 0 .. Len(content)
      /\ cursor <= Len(content) => offset = cursor
      /\ cursor > Len(content) => offset = Len(content)
    BY <1>1 DEF Offset, Least
<1>3. size \in Nat
    BY SizeType
<1> HIDE DEF offset, size
<1>4. most \in offset .. Len(content)
    BY <1>1, <1>2, <1>3 DEF Least
<1> HIDE DEF most
<1>5. End(kind, content, cursor, asked)
        = IF kind = "get_page_chunk" THEN Trimmed(content, offset, most) ELSE most
    BY DEF End, most, size, offset
<1>6. CASE kind = "get_page_chunk"
  <2>1. offset \in Nat /\ most \in Nat /\ offset <= most
      BY <1>1, <1>2, <1>4
  <2>2. /\ Trimmed(content, offset, most) \in offset .. most
        /\ Valid(content, offset, Trimmed(content, offset, most))
      BY <2>1, TrimmedFacts
  <2>. QED
      BY <1>1, <1>2, <1>4, <1>5, <1>6, <2>2 DEF offset
<1>7. CASE kind # "get_page_chunk"
    BY <1>1, <1>2, <1>4, <1>5, <1>7 DEF offset
<1>. QED
    BY <1>6, <1>7

LEMMA WholeFacts ==
    ASSUME NEW content \in Seq(Element)
    PROVE  /\ Whole(content) \in Seq(Nat) /\ Len(Whole(content)) = Len(content)
           /\ \A i \in 1 .. Len(content) : Whole(content)[i] = content[i].id
<1>1. /\ Len(content) \in Nat /\ DOMAIN content = 1 .. Len(content)
      /\ \A i \in 1 .. Len(content) : content[i] \in Element
    BY LenProperties, ElementOfSeq
<1>. QED
    BY <1>1 DEF Whole, Element

(* Nothing that a window holds is replaced, and a page's never cuts a       *)
(* character: what it holds is a stretch of the content.                    *)
LEMMA BodyIsStretch ==
    ASSUME NEW kind, NEW content \in Seq(Element), NEW offset \in 0 .. Len(content),
           NEW end \in offset .. Len(content),
           kind = "get_page_chunk" => Valid(content, offset, end)
    PROVE  /\ Body(kind, content, offset, end) \in Seq(Nat)
           /\ Body(kind, content, offset, end) = SubSeq(Whole(content), offset + 1, end)
<1> DEFINE body == Body(kind, content, offset, end)
           part == SubSeq(Whole(content), offset + 1, end)
<1>1. /\ Len(content) \in Nat /\ DOMAIN content = 1 .. Len(content)
      /\ \A i \in 1 .. Len(content) : content[i] \in Element
    BY LenProperties, ElementOfSeq
<1>3. \A i \in 1 .. Len(content) : Whole(content)[i] = content[i].id
    BY WholeFacts
<1>4. offset \in Int /\ end \in Int /\ end - offset \in Nat
    BY <1>1
<1>5. ASSUME NEW i \in 1 .. end - offset PROVE body[i] = content[offset + i].id
  <2>1. offset + i \in 1 .. Len(content) /\ offset + i \in offset + 1 .. end /\ i \in Int
      BY <1>1, <1>4
  <2>2. content[offset + i].before \in Nat /\ content[offset + i].after \in Nat
      BY <1>1, <2>1 DEF Element
  <2>3. kind = "get_page_chunk" =>
            ~(i <= content[offset + i].before \/ offset + i + content[offset + i].after > end)
      BY <1>4, <2>1, <2>2, SMTT(30) DEF Valid
  <2>. QED
      BY <2>3 DEF Body
<1>6. part \in Seq(Nat) /\ Len(part) = end - offset
      /\ \A i \in 1 .. end - offset : part[i] = Whole(content)[offset + i]
  <2>1. \A i \in offset + 1 .. end : Whole(content)[i] \in Nat
    <3> TAKE i \in offset + 1 .. end
    <3>1. i \in 1 .. Len(content)
        BY <1>1, <1>4
    <3>2. content[i] \in Element
        BY <1>1, <3>1
    <3>3. Whole(content)[i] = content[i].id
        BY <1>3, <3>1
    <3>. QED
        BY <3>2, <3>3 DEF Element
  <2>2. offset + 1 \in Int
      BY <1>4
  <2> DEFINE whole == Whole(content)
  <2> HIDE DEF whole
  <2>3. /\ SubSeq(whole, offset + 1, end) \in Seq(Nat)
        /\ Len(SubSeq(whole, offset + 1, end))
             = IF offset + 1 <= end THEN end - (offset + 1) + 1 ELSE 0
        /\ \A i \in 1 .. end - (offset + 1) + 1 :
             SubSeq(whole, offset + 1, end)[i] = whole[offset + 1 + i - 1]
      BY <1>4, <2>1, <2>2, SubSeqProperties DEF whole
  <2>4. end - (offset + 1) + 1 = end - offset
      BY <1>4
  <2>5. \A i \in 1 .. end - offset : offset + 1 + i - 1 = offset + i
      BY <1>4
  <2>. QED
      BY <1>4, <2>3, <2>4, <2>5 DEF whole
<1>7. \A i \in 1 .. end - offset : body[i] \in Nat
  <2> TAKE i \in 1 .. end - offset
  <2>1. offset + i \in 1 .. Len(content)
      BY <1>1, <1>4
  <2>. QED
      BY <1>1, <1>5, <2>1 DEF Element
<1>8. body \in Seq(Nat) /\ Len(body) = end - offset
  <2>1. DOMAIN body = 1 .. end - offset /\ body = [i \in 1 .. end - offset |-> body[i]]
      BY DEF Body
  <2> HIDE DEF body
  <2>. QED
      BY <1>4, <1>7, <2>1
<1>9. \A i \in 1 .. end - offset : body[i] = part[i]
  <2> TAKE i \in 1 .. end - offset
  <2>1. offset + i \in 1 .. Len(content)
      BY <1>1, <1>4
  <2>. QED
      BY <1>3, <1>5, <1>6, <2>1
<1>10. body = part
  <2> HIDE DEF body, part
  <2>. QED
      BY <1>6, <1>8, <1>9, SeqEqual
<1>. QED
    BY <1>8, <1>10

-----------------------------------------------------------------------------
(* Each byte of a text knows its place within its character.                *)
IsText(content) ==
    \A i \in DOMAIN content :
        /\ \A j \in 1 .. content[i].after :
             /\ i + j \in DOMAIN content
             /\ content[i + j].before = content[i].before + j
             /\ content[i + j].after = content[i].after - j
        /\ \A j \in 1 .. content[i].before :
             /\ i - j \in DOMAIN content
             /\ content[i - j].after = content[i].after + j

(* The cursor is at the end of the content or where a character begins.     *)
AtBoundary(content, cursor) ==
    cursor < Len(content) => content[cursor + 1].before = 0

(* get_page_chunk: from the beginning of a character a chunk that has room  *)
(* for this character moves the cursor on, to the beginning of another one  *)
(* or to the end.  So a reader who follows next_cursor never gets stuck,    *)
(* whatever the text and however many bytes its characters have.            *)
THEOREM ChunkMovesOn ==
    ASSUME ChunksAssumption, NEW content \in Seq(Element), IsText(content),
           NEW cursor \in Nat, NEW asked \in Int,
           cursor < Len(content), AtBoundary(content, cursor),
           content[cursor + 1].after < Size("get_page_chunk", content, asked)
    PROVE  LET next == NextCursor("get_page_chunk", content, cursor, asked)
           IN  next > cursor /\ next <= Len(content) /\ AtBoundary(content, next)
<1> DEFINE kind  == "get_page_chunk"
           size  == Size(kind, content, asked)
           end   == End(kind, content, cursor, asked)
           most  == Least(cursor + size, Len(content))
           width == content[cursor + 1].after + 1
<1>1. /\ Len(content) \in Nat /\ DOMAIN content = 1 .. Len(content)
      /\ \A i \in 1 .. Len(content) : /\ content[i].before \in Nat
                                      /\ content[i].after \in Nat
  <2>1. /\ Len(content) \in Nat /\ DOMAIN content = 1 .. Len(content)
        /\ \A i \in 1 .. Len(content) : content[i] \in Element
      BY LenProperties, ElementOfSeq
  <2>. QED
      BY <2>1 DEF Element
<1>2. size \in Nat /\ kind \in Kinds
    BY SizeType DEF Kinds
<1>3. Offset(content, cursor) = cursor
    BY <1>1 DEF Offset, Least
<1>4. end \in cursor .. Len(content) /\ Valid(content, cursor, end)
    BY <1>2, <1>3, WindowFacts
<1>5. width \in Nat /\ width >= 1 /\ cursor + 1 \in 1 .. Len(content)
    BY <1>1
<1>6. cursor + width <= Len(content)
  <2>1. CASE width = 1
      BY <1>1, <1>5, <2>1
  <2>2. CASE width > 1
    <3>1. width - 1 \in 1 .. content[cursor + 1].after
        BY <1>1, <1>5, <2>2
    <3>2. \A j \in 1 .. content[cursor + 1].after : cursor + 1 + j \in DOMAIN content
        BY <1>1, <1>5 DEF IsText
    <3>. QED
        BY <1>1, <1>5, <3>1, <3>2
  <2>. QED
      BY <1>5, <2>1, <2>2
<1>7. cursor + width \in cursor + 1 .. most
    BY <1>1, <1>2, <1>5, <1>6 DEF Least
<1>8. Valid(content, cursor, cursor + width)
  <2> SUFFICES ASSUME NEW i \in cursor + 1 .. cursor + width
               PROVE  i - content[i].before > cursor /\ i + content[i].after <= cursor + width
      BY DEF Valid
  <2>1. CASE i = cursor + 1
      BY <1>1, <1>5, <2>1 DEF AtBoundary
  <2>2. CASE i # cursor + 1
    <3> DEFINE j == i - (cursor + 1)
    <3>1. j \in 1 .. content[cursor + 1].after /\ i = cursor + 1 + j
        BY <1>1, <1>5, <2>2
    <3>2. \A k \in 1 .. content[cursor + 1].after :
              /\ content[cursor + 1 + k].before = content[cursor + 1].before + k
              /\ content[cursor + 1 + k].after = content[cursor + 1].after - k
        BY <1>1, <1>5 DEF IsText
    <3>3. content[cursor + 1].before = 0
        BY DEF AtBoundary
    <3> HIDE DEF j
    <3>4. content[i].before = j /\ content[i].after = content[cursor + 1].after - j
        BY <3>1, <3>2, <3>3
    <3>5. content[cursor + 1].after \in Nat /\ width = content[cursor + 1].after + 1
          /\ j \in Nat
        BY <1>1, <1>5, <3>1
    <3>. QED
        BY <3>1, <3>4, <3>5
  <2>. QED
      BY <2>1, <2>2
<1>9. end >= cursor + width
  <2>1. end = Trimmed(content, cursor, most)
      BY <1>3 DEF End
  <2>2. most \in Nat /\ cursor <= most
      BY <1>1, <1>2 DEF Least
  <2>3. \A f \in end + 1 .. most : ~Valid(content, cursor, f)
      BY <2>1, <2>2, TrimmedFacts
  <2> HIDE DEF end, most, width
  <2>. QED
      BY <1>1, <1>4, <1>5, <1>7, <1>8, <2>2, <2>3
<1>10. AtBoundary(content, end)
  <2> SUFFICES ASSUME end < Len(content), content[end + 1].before # 0 PROVE FALSE
      BY DEF AtBoundary
  <2> HIDE DEF end
  <2>1. end \in 1 .. Len(content) /\ end \in cursor + 1 .. end /\ end + 1 \in 1 .. Len(content)
      BY <1>1, <1>4, <1>5, <1>9
  <2>2. content[end].after = 0
      BY <1>1, <1>4, <2>1 DEF Valid
  <2>3. 1 \in 1 .. content[end + 1].before /\ end + 1 - 1 = end
      BY <1>1, <2>1
  <2>4. content[end + 1 - 1].after = content[end + 1].after + 1
      BY <1>1, <2>1, <2>3, SMTT(30) DEF IsText
  <2>. QED
      BY <1>1, <2>1, <2>2, <2>3, <2>4
<1>. QED
    BY <1>1, <1>4, <1>5, <1>9, <1>10 DEF NextCursor
=============================================================================
