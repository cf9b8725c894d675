------------------------- MODULE HttpTransportProofs -------------------------
(* Proofs about HttpTransport, for any number of clients, any requests,     *)
(* contents and edits, any chunk size, and any number of signals, restarts *)
(* and lost answers.                                                       *)
EXTENDS HttpTransport, ChunksProofs

Replies == [body : Seq(Nat), next : Nat, last : BOOLEAN]
Refusals == {400, 401, 404, 405, 413, 415}

Types ==
    /\ setup \in Setups /\ edition \in DOMAIN setup.editions
    /\ proc \in {"starting", "serving", "stopping", "exited"}
    /\ signal \in BOOLEAN /\ exit \in -1 .. 1 /\ cut \subseteq Clients
    /\ shutdown \in {"no", "waiting", "done", "late"}
    /\ conn \in [Clients -> Conns]
    /\ status \in [Clients -> {0, 200} \cup Refusals]
    /\ executed \in [Clients -> 0..1]
    /\ reply \in [Clients -> Replies]
    /\ cursor \in [Clients -> Nat]
    /\ got \in [Clients -> Seq(Nat)]
    /\ since \in [Clients -> DOMAIN setup.editions]
    /\ stops \in 0..MaxStops /\ losses \in 0..MaxLosses

(* How far the request has come fixes how often the tool has run, and a     *)
(* client that is not done has had no answer but those to earlier chunks.  *)
Told(c) ==
    /\ conn[c] \in {"sent", "open", "handling"} => executed[c] = 0
    /\ conn[c] = "ready" => executed[c] = 1
    /\ conn[c] \in {"handling", "ready"} => ~Local(Ask(c))
    /\ conn[c] # "ended" => status[c] \in IF Reader(c) THEN {0, 200} ELSE {0}
    /\ conn[c] = "ended" =>
         /\ status[c] \in Refusals => executed[c] = 0
         /\ status[c] = 200 => executed[c] = IF Local(Ask(c)) THEN 0 ELSE 1

(* A reader stands at its cursor: it has what comes before it, and an       *)
(* answer that is ready continues from there.  That holds of the edition    *)
(* it began to read, as long as that one is the current one; a cursor of 0  *)
(* means that it begins anew.                                              *)
Reads(c) ==
    /\ since[c] <= edition
    /\ conn[c] # "ended" /\ cursor[c] = 0 => got[c] = <<>>
    /\ conn[c] = "ready" /\ reply[c].next = 0 /\ ~reply[c].last =>
         cursor[c] = 0 /\ reply[c].body = <<>>
    /\ since[c] = edition =>
         /\ cursor[c] <= Len(Content)
         /\ got[c] = SubSeq(Whole(Content), 1, cursor[c])
         /\ conn[c] = "ready" =>
              /\ reply[c].next \in cursor[c] .. Len(Content)
              /\ reply[c].body = SubSeq(Whole(Content), cursor[c] + 1, reply[c].next)
              /\ reply[c].last => reply[c].next = Len(Content)
         /\ conn[c] = "ended" /\ status[c] = 200 => cursor[c] = Len(Content)

(* Shutdown is done only when no handler was left, and none came after.     *)
Drained == /\ shutdown = "done" => \A c \in Clients : ~Active(c)
           /\ exit = 0 => cut = {}

Bounded(c) == \E e \in DOMAIN setup.editions : reply[c].next \in 0 .. Len(setup.editions[e])

Inv == /\ Types /\ Drained
       /\ \A c \in Clients : Told(c) /\ Bounded(c) /\ (Reader(c) => Reads(c))

-----------------------------------------------------------------------------
LEMMA ContentFacts ==
    ASSUME Types
    PROVE  /\ Content \in Seq(Element) /\ Len(Content) \in Nat
           /\ edition \in Nat /\ Len(setup.editions) \in Nat
           /\ DOMAIN setup.editions = 1 .. Len(setup.editions)
           /\ Whole(Content) \in Seq(Nat) /\ Len(Whole(Content)) = Len(Content)
           /\ \A c \in Clients : Ask(c) \in Request
<1>1. setup.editions \in Seq(Seq(Element)) /\ setup.asks \in [Clients -> Request]
    BY TransportAssumption DEF Types
<1>2. DOMAIN setup.editions = 1 .. Len(setup.editions) /\ Len(setup.editions) \in Nat
    BY <1>1, LenProperties
<1>3. edition \in 1 .. Len(setup.editions)
    BY <1>2 DEF Types
<1>4. Content \in Seq(Element)
    BY <1>1, <1>3, ElementOfSeq DEF Content
<1>5. Len(Content) \in Nat
    BY <1>4, LenProperties
<1>6. Whole(Content) \in Seq(Nat) /\ Len(Whole(Content)) = Len(Content)
  BY <1>4, WholeFacts
<1>. QED
    BY <1>1, <1>2, <1>3, <1>4, <1>5, <1>6 DEF Ask

LEMMA GateValues == \A r : Gate(r) \in Refusals \cup {Pass}
<1> TAKE r
<1>1. McpGate(r) \in Refusals \cup {Pass}
    BY DEF McpGate, Refusals
<1>2. EventsGate(r) \in Refusals \cup {Pass}
    BY DEF EventsGate, Refusals
<1>. QED
    BY <1>1, <1>2 DEF Gate, Refusals

(* A reader's first place.                                                  *)
LEMMA BlankRead == ASSUME NEW s \in Seq(Nat) PROVE SubSeq(s, 1, 0) = <<>>
BY SubSeqEmpty

LEMMA InvInit == Init => Inv
<1> SUFFICES ASSUME Init PROVE Inv
    OBVIOUS
<1>1. setup.editions \in Seq(Seq(Element)) \ {<<>>}
    BY TransportAssumption DEF Init
<1>2. Len(setup.editions) \in Nat \ {0} /\ DOMAIN setup.editions = 1 .. Len(setup.editions)
    BY <1>1, EmptySeq, LenProperties
<1>3. 1 \in DOMAIN setup.editions
    BY <1>2
<1>4. Nothing \in Replies /\ <<>> \in Seq(Nat)
    BY EmptySeq DEF Nothing, Replies
<1>5. Types
  <2>1. /\ setup \in Setups /\ edition \in DOMAIN setup.editions
      BY <1>3 DEF Init
  <2>5. exit \in -1 .. 1
      BY DEF Init
  <2>6. /\ proc \in {"starting", "serving", "stopping", "exited"}
        /\ signal \in BOOLEAN /\ cut \subseteq Clients
        /\ shutdown \in {"no", "waiting", "done", "late"}
      BY DEF Init
  <2>4. /\ conn \in [Clients -> Conns] /\ executed \in [Clients -> 0..1]
        /\ status \in [Clients -> {0, 200} \cup Refusals]
      BY DEF Init, Conns
  <2>2. /\ reply \in [Clients -> Replies] /\ cursor \in [Clients -> Nat]
        /\ got \in [Clients -> Seq(Nat)] /\ since \in [Clients -> DOMAIN setup.editions]
      BY <1>3, <1>4 DEF Init
  <2>3. stops \in 0..MaxStops /\ losses \in 0..MaxLosses
      BY TransportAssumption DEF Init
  <2>. QED
      BY <2>1, <2>2, <2>3, <2>4, <2>5, <2>6 DEF Types
<1>6. Drained
    BY DEF Init, Drained, Active
<1>7. ASSUME NEW c \in Clients PROVE Told(c) /\ Bounded(c) /\ Reads(c)
  <2>1. SubSeq(Whole(Content), 1, 0) = <<>> /\ Len(Content) \in Nat
      BY <1>5, ContentFacts, BlankRead
  <2>2. Told(c)
      BY DEF Init, Told, Refusals
  <2>3. 0 \in 0 .. Len(setup.editions[edition]) /\ edition \in DOMAIN setup.editions
      BY <1>3, <2>1 DEF Init, Content
  <2>4. Bounded(c)
      BY <2>3 DEF Init, Bounded, Nothing
  <2>5. Reads(c)
      BY <2>1 DEF Init, Reads, Nothing
  <2>. QED
      BY <2>2, <2>4, <2>5
<1>. QED
    BY <1>5, <1>6, <1>7 DEF Inv

(* What is said of a client depends on its own variables and the content.   *)
LEMMA Untouched ==
    ASSUME Inv, NEW d \in Clients, UNCHANGED <<setup, edition>>,
           conn'[d] = conn[d], status'[d] = status[d], executed'[d] = executed[d],
           reply'[d] = reply[d], cursor'[d] = cursor[d], got'[d] = got[d],
           since'[d] = since[d]
    PROVE  Told(d)' /\ Bounded(d)' /\ (Reader(d) => Reads(d))'
<1>1. Told(d) /\ Bounded(d) /\ (Reader(d) => Reads(d))
    BY DEF Inv
<1>2. Told(d)'
    BY <1>1 DEF Told, Local, Reader, Ask
<1>3. Bounded(d)'
    BY <1>1 DEF Bounded
<1>4. (Reader(d) => Reads(d))'
    BY <1>1 DEF Reads, Reader, Ask, Content
<1>. QED
    BY <1>2, <1>3, <1>4

(* A step of one client.                                                    *)
OthersStay(c) ==
    \A d \in Clients \ {c} :
        /\ conn'[d] = conn[d] /\ status'[d] = status[d] /\ executed'[d] = executed[d]
        /\ reply'[d] = reply[d] /\ cursor'[d] = cursor[d] /\ got'[d] = got[d]
        /\ since'[d] = since[d]

LEMMA ClientMoved ==
    ASSUME Inv, NEW c \in Clients, UNCHANGED <<setup, edition, procVars>>,
           Types', OthersStay(c), Active(c)' => Active(c) \/ shutdown = "no",
           Told(c)', Bounded(c)', (Reader(c) => Reads(c))'
    PROVE  Inv'
<1>1. Drained'
    BY DEF Inv, Drained, OthersStay, Active, procVars
<1>2. ASSUME NEW d \in Clients PROVE Told(d)' /\ Bounded(d)' /\ (Reader(d) => Reads(d))'
  <2>1. CASE d = c
      BY <2>1
  <2>2. CASE d # c
      BY <2>2, Untouched DEF OthersStay
  <2>. QED
      BY <2>1, <2>2
<1>. QED
    BY <1>1, <1>2 DEF Inv

(* A client that is sent away, or tries again, with what it has got.        *)
LEMMA SetBack ==
    ASSUME Inv, NEW c \in Clients, Types', UNCHANGED <<setup, edition>>,
           conn'[c] = Unanswered(c), conn[c] \in {"sent", "open", "handling", "ready"},
           status'[c] = status[c], executed'[c] = executed[c], reply'[c] = reply[c],
           cursor'[c] = cursor[c], got'[c] = got[c], since'[c] = since[c]
    PROVE  Told(c)' /\ Bounded(c)' /\ (Reader(c) => Reads(c))'
<1>1. Told(c) /\ Bounded(c) /\ (Reader(c) => Reads(c))
    BY DEF Inv
<1>2. Reader(c)' = Reader(c) /\ Ask(c)' = Ask(c) /\ Content' = Content
    BY DEF Reader, Ask, Content
<1>3. conn'[c] = IF Reader(c) THEN "idle" ELSE "ended"
    BY DEF Unanswered
<1>4. Told(c)'
    BY <1>1, <1>2, <1>3 DEF Told, Refusals
<1>5. Bounded(c)'
    BY <1>1 DEF Bounded
<1>6. (Reader(c) => Reads(c))'
    BY <1>1, <1>2, <1>3 DEF Reads
<1>. QED
    BY <1>4, <1>5, <1>6

-----------------------------------------------------------------------------
LEMMA SendStep == ASSUME Inv, NEW c \in Clients, Send(c) PROVE Inv'
<1>1. Told(c) /\ Bounded(c) /\ (Reader(c) => Reads(c))
    BY DEF Inv
<1>2. Types' /\ OthersStay(c)
    BY DEF Inv, Types, Send, Goto, Conns, OthersStay, procVars, bounds
<1>3. conn[c] = "idle" /\ conn'[c] = "sent" /\ executed'[c] = 0
    BY DEF Inv, Types, Send, Goto
<1>4. Told(c)'
    BY <1>1, <1>3 DEF Send, Told, Local, Reader, Ask
<1>5. Bounded(c)'
    BY <1>1 DEF Send, Bounded
<1>6. (Reader(c) => Reads(c))'
    BY <1>1, <1>3 DEF Send, Reads, Reader, Ask, Content
<1>. QED
    BY <1>2, <1>3, <1>4, <1>5, <1>6, ClientMoved DEF Send, Active

LEMMA AcceptStep == ASSUME Inv, NEW c \in Clients, Accept(c) PROVE Inv'
<1>1. Told(c) /\ Bounded(c) /\ (Reader(c) => Reads(c))
    BY DEF Inv
<1>2. Types' /\ OthersStay(c)
    BY DEF Inv, Types, Accept, Goto, Conns, Unanswered, OthersStay, procVars, bounds
<1>3. conn[c] = "sent"
    BY DEF Accept
<1>4. CASE proc = "serving" /\ shutdown = "no"
  <2>1. conn'[c] = "open"
      BY <1>4 DEF Inv, Types, Accept, Goto
  <2>2. Told(c)'
      BY <1>1, <1>3, <2>1 DEF Accept, Told, Local, Reader, Ask
  <2>3. Bounded(c)'
      BY <1>1 DEF Accept, Bounded
  <2>4. (Reader(c) => Reads(c))'
      BY <1>1, <1>3, <2>1 DEF Accept, Reads, Reader, Ask, Content
  <2>. QED
      BY <1>2, <1>4, <2>2, <2>3, <2>4, ClientMoved DEF Accept
<1>5. CASE ~(proc = "serving" /\ shutdown = "no")
  <2>1. conn'[c] = Unanswered(c)
      BY <1>5 DEF Inv, Types, Accept, Goto
  <2>2. Told(c)' /\ Bounded(c)' /\ (Reader(c) => Reads(c))'
      BY <1>2, <1>3, <2>1, SetBack DEF Accept
  <2>3. ~Active(c)'
      BY <2>1 DEF Active, Unanswered
  <2>. QED
      BY <1>2, <2>2, <2>3, ClientMoved DEF Accept
<1>. QED
    BY <1>4, <1>5

(* An answer to a request whose tool has not run.                           *)
LEMMA Answered ==
    ASSUME Inv, NEW c \in Clients, Types', UNCHANGED <<setup, edition, procVars>>,
           OthersStay(c), conn[c] = "open", conn'[c] = "ended",
           status'[c] \in Refusals \/ (status'[c] = 200 /\ Local(Ask(c))),
           UNCHANGED <<executed, reply, cursor, got, since>>
    PROVE  Inv'
<1>1. Told(c) /\ Bounded(c) /\ (Reader(c) => Reads(c))
    BY DEF Inv
<1>2. Local(Ask(c)) => ~Reader(c)
    BY DEF Local, Reader, Kinds
<1>3. Told(c)'
    BY <1>1 DEF Told, Local, Reader, Ask, Refusals
<1>4. Bounded(c)'
    BY <1>1 DEF Bounded
<1>5. (Reader(c) => Reads(c))'
    BY <1>1, <1>2 DEF Reads, Reader, Ask, Content, Refusals
<1>. QED
    BY <1>3, <1>4, <1>5, ClientMoved DEF Active

LEMMA RefuseStep == ASSUME Inv, NEW c \in Clients, Refuse(c) PROVE Inv'
<1>1. PICK code \in Refusals \cup {200} : Answer(c, code) /\ (code = 200 => Local(Ask(c)))
    BY GateValues DEF Refuse, AnswerLocally, Refusals
<1>2. /\ conn[c] = "open" /\ conn'[c] = "ended" /\ status'[c] = code
      /\ UNCHANGED <<setup, edition, procVars>>
      /\ UNCHANGED <<executed, reply, cursor, got, since>>
    BY <1>1 DEF Inv, Types, Refuse, AnswerLocally, Answer, Goto
<1>3. Types' /\ OthersStay(c)
    BY <1>1, <1>2 DEF Inv, Types, Refuse, Answer, Goto, Conns, OthersStay, procVars, bounds
<1>. QED
  <2>1. status'[c] \in Refusals \/ (status'[c] = 200 /\ Local(Ask(c)))
      BY <1>1, <1>2
  <2>. QED
      BY <1>2, <1>3, <2>1, Answered

LEMMA UnreadableStep == ASSUME Inv, NEW c \in Clients, Unreadable(c) PROVE Inv'
<1>1. /\ conn[c] = "open" /\ conn'[c] = "ended" /\ status'[c] = 400
      /\ UNCHANGED <<setup, edition, procVars>>
      /\ UNCHANGED <<executed, reply, cursor, got, since>>
    BY DEF Inv, Types, Unreadable, Answer, Goto
<1>2. losses' \in 0 .. MaxLosses
    BY TransportAssumption DEF Inv, Types, Unreadable
<1>3. Types' /\ OthersStay(c)
    BY <1>1, <1>2 DEF Inv, Types, Unreadable, Answer, Goto, Conns, OthersStay, Refusals, procVars
<1>. QED
  <2>1. status'[c] \in Refusals \/ (status'[c] = 200 /\ Local(Ask(c)))
      BY <1>1 DEF Refusals
  <2>. QED
      BY <1>1, <1>3, <2>1, Answered

LEMMA ForwardStep == ASSUME Inv, NEW c \in Clients, Forward(c) PROVE Inv'
<1>1. Told(c) /\ Bounded(c) /\ (Reader(c) => Reads(c))
    BY DEF Inv
<1>2. Types' /\ OthersStay(c)
    BY DEF Inv, Types, Forward, Goto, Conns, OthersStay, procVars, bounds
<1>3. conn[c] = "open" /\ conn'[c] = "handling" /\ ~Local(Ask(c))
    BY DEF Inv, Types, Forward, Goto
<1>4. Told(c)'
    BY <1>1, <1>3 DEF Forward, Told, Local, Reader, Ask
<1>5. Bounded(c)'
    BY <1>1 DEF Forward, Bounded
<1>6. (Reader(c) => Reads(c))'
    BY <1>1, <1>3 DEF Forward, Reads, Reader, Ask, Content
<1>. QED
    BY <1>2, <1>3, <1>4, <1>5, <1>6, ClientMoved DEF Forward, Active

LEMMA LoseStep == ASSUME Inv, NEW c \in Clients, Lose(c) PROVE Inv'
<1>1. conn[c] \in {"open", "ready"} /\ conn'[c] = Unanswered(c)
    BY DEF Inv, Types, Lose, Goto
<1>2. losses' \in 0 .. MaxLosses
    BY TransportAssumption DEF Inv, Types, Lose
<1>3. Types' /\ OthersStay(c)
    BY <1>2 DEF Inv, Types, Lose, Goto, Conns, Unanswered, OthersStay, procVars
<1>4. Told(c)' /\ Bounded(c)' /\ (Reader(c) => Reads(c))'
    BY <1>1, <1>3, SetBack DEF Lose
<1>5. ~Active(c)'
    BY <1>1 DEF Active, Unanswered
<1>. QED
    BY <1>3, <1>4, <1>5, ClientMoved DEF Lose

(* What a tool that reads returns from the edition on disk.                 *)
LEMMA WindowOf ==
    ASSUME Types, NEW c \in Clients, Reader(c)
    PROVE  /\ Window(c) \in Replies
           /\ Window(c).next \in 0 .. Len(Content)
           /\ Window(c).next = 0 /\ ~Window(c).last => cursor[c] = 0 /\ Window(c).body = <<>>
           /\ cursor[c] <= Len(Content) =>
                /\ Window(c).next \in cursor[c] .. Len(Content)
                /\ Window(c).body = SubSeq(Whole(Content), cursor[c] + 1, Window(c).next)
                /\ Window(c).last => Window(c).next = Len(Content)
<1> DEFINE kind   == Ask(c).what
           size   == Ask(c).size
           offset == Offset(Content, cursor[c])
           end    == End(kind, Content, cursor[c], size)
           body   == Body(kind, Content, offset, end)
<1>1. /\ Content \in Seq(Element) /\ Len(Content) \in Nat
      /\ kind \in Kinds /\ size \in Int /\ cursor[c] \in Nat
    BY ContentFacts DEF Types, Request, Reader
<1>2. Window(c) = [body |-> body, next |-> end, last |-> IsLast(Content, end)]
    BY DEF Window, NextCursor
<1>3. /\ offset \in 0 .. Len(Content)
      /\ cursor[c] <= Len(Content) => offset = cursor[c]
      /\ cursor[c] > Len(Content) => offset = Len(Content)
      /\ end \in offset .. Len(Content)
      /\ kind = "get_page_chunk" => Valid(Content, offset, end)
    BY <1>1, ChunksAssumption, WindowFacts
<1> HIDE DEF kind, size, offset, end
<1>4. body \in Seq(Nat) /\ body = SubSeq(Whole(Content), offset + 1, end)
    BY <1>1, <1>3, BodyIsStretch
<1> HIDE DEF body
<1>5. IsLast(Content, end) \in BOOLEAN /\ (IsLast(Content, end) <=> end >= Len(Content))
    BY DEF IsLast
<1>6. Window(c) \in Replies /\ Window(c).next \in 0 .. Len(Content)
    BY <1>1, <1>2, <1>3, <1>4, <1>5 DEF Replies
<1>7. ASSUME Window(c).next = 0, ~Window(c).last PROVE cursor[c] = 0 /\ Window(c).body = <<>>
  <2>1. end = 0 /\ Len(Content) > 0
      BY <1>1, <1>2, <1>5, <1>7
  <2>2. offset = 0 /\ cursor[c] = 0
      BY <1>1, <1>3, <2>1
  <2>3. body = <<>>
      BY <1>4, <2>1, <2>2, SubSeqEmpty
  <2>. QED
      BY <1>2, <2>2, <2>3
<1>8. ASSUME cursor[c] <= Len(Content)
      PROVE  /\ Window(c).next \in cursor[c] .. Len(Content)
             /\ Window(c).body = SubSeq(Whole(Content), cursor[c] + 1, Window(c).next)
             /\ Window(c).last => Window(c).next = Len(Content)
  <2>1. offset = cursor[c]
      BY <1>3, <1>8
  <2>2. Window(c).next = end /\ Window(c).body = body
        /\ Window(c).last = IsLast(Content, end)
      BY <1>2
  <2>3. IsLast(Content, end) => end = Len(Content)
      BY <1>1, <1>3, <1>5
  <2>. QED
      BY <1>3, <1>4, <2>1, <2>2, <2>3
<1>. QED
    BY <1>6, <1>7, <1>8

LEMMA HandleStep == ASSUME Inv, NEW c \in Clients, Handle(c) PROVE Inv'
<1>1. Told(c) /\ Bounded(c) /\ (Reader(c) => Reads(c)) /\ Types
    BY DEF Inv
<1>2. /\ conn[c] = "handling" /\ conn'[c] = "ready" /\ executed[c] = 0 /\ executed'[c] = 1
      /\ status'[c] = status[c] /\ cursor'[c] = cursor[c] /\ got'[c] = got[c]
      /\ UNCHANGED <<setup, edition>>
    BY <1>1 DEF Types, Handle, Goto, Told
<1>3. Told(c)'
    BY <1>1, <1>2 DEF Told, Local, Reader, Ask
<1>4. CASE Reader(c)
  <2>1. /\ reply' = [reply EXCEPT ![c] = Window(c)]
        /\ since' = [since EXCEPT ![c] = IF cursor[c] = 0 THEN edition ELSE @]
      BY <1>4 DEF Handle
  <2>2. /\ reply'[c] = Window(c)
        /\ since'[c] = IF cursor[c] = 0 THEN edition ELSE since[c]
      BY <1>1, <2>1 DEF Types
  <2>3. Window(c) \in Replies
      BY <1>1, <1>4, WindowOf
  <2>4. /\ reply' \in [Clients -> Replies] /\ since' \in [Clients -> DOMAIN setup.editions]
        /\ \A d \in Clients \ {c} : reply'[d] = reply[d] /\ since'[d] = since[d]
      BY <1>1, <2>1, <2>3 DEF Types
  <2>5. Types' /\ OthersStay(c)
      BY <1>1, <1>2, <2>4 DEF Types, Handle, Goto, Conns, OthersStay, procVars, bounds
  <2>6. Bounded(c)'
      BY <1>1, <1>2, <1>4, <2>2, WindowOf DEF Bounded, Types, Content
  <2>7. Reads(c)'
    <3>1. Content' = Content /\ Len(Content) \in Nat /\ Whole(Content) \in Seq(Nat)
          /\ edition \in Nat /\ cursor[c] \in Nat
        BY <1>1, <1>2, ContentFacts DEF Content, Types
    <3>2. since'[c] <= edition'
        BY <1>1, <1>2, <1>4, <2>2, <3>1 DEF Reads
    <3>3. conn'[c] # "ended" /\ cursor'[c] = 0 => got'[c] = <<>>
        BY <1>1, <1>2, <1>4 DEF Reads
    <3>4. reply'[c].next = 0 /\ ~reply'[c].last => cursor'[c] = 0 /\ reply'[c].body = <<>>
        BY <1>1, <1>2, <1>4, <2>2, WindowOf
    <3>5. ASSUME since'[c] = edition'
          PROVE  cursor[c] <= Len(Content) /\ got[c] = SubSeq(Whole(Content), 1, cursor[c])
      <4>1. CASE cursor[c] = 0
        <5>1. got[c] = <<>> /\ cursor[c] <= Len(Content)
            BY <1>1, <1>2, <1>4, <3>1, <4>1 DEF Reads
        <5>2. SubSeq(Whole(Content), 1, 0) = <<>>
            BY <3>1, BlankRead
        <5>. QED
            BY <4>1, <5>1, <5>2
      <4>2. CASE cursor[c] # 0
          BY <1>1, <1>2, <1>4, <2>2, <3>5, <4>2 DEF Reads
      <4>. QED
          BY <4>1, <4>2
    <3>6. ASSUME since'[c] = edition'
          PROVE  /\ reply'[c].next \in cursor'[c] .. Len(Content)
                 /\ reply'[c].body
                      = SubSeq(Whole(Content), cursor'[c] + 1, reply'[c].next)
                 /\ reply'[c].last => reply'[c].next = Len(Content)
        BY <1>1, <1>2, <1>4, <2>2, <3>5, <3>6, WindowOf
    <3>. QED
        BY <1>2, <3>1, <3>2, <3>3, <3>4, <3>5, <3>6 DEF Reads
  <2>. QED
      BY <1>2, <1>3, <2>5, <2>6, <2>7, ClientMoved DEF Handle, Active
<1>5. CASE ~Reader(c)
  <2>1. UNCHANGED <<reply, since>>
      BY <1>5 DEF Handle
  <2>2. Types' /\ OthersStay(c)
      BY <1>1, <1>2, <2>1 DEF Types, Handle, Goto, Conns, OthersStay, procVars, bounds
  <2>3. Bounded(c)' /\ ~Reader(c)'
      BY <1>1, <1>2, <1>5, <2>1 DEF Bounded, Reader, Ask
  <2>. QED
      BY <1>2, <1>3, <2>2, <2>3, ClientMoved DEF Handle, Active
<1>. QED
    BY <1>4, <1>5

(* What a reader has and what continues it make what comes before the next  *)
(* cursor.                                                                  *)
LEMMA Continued ==
    ASSUME NEW whole \in Seq(Nat), NEW n \in 0 .. Len(whole), NEW m \in n .. Len(whole)
    PROVE  SubSeq(whole, 1, n) \o SubSeq(whole, n + 1, m) = SubSeq(whole, 1, m)
<1>1. Len(whole) \in Nat
    BY LenProperties
<1>2. /\ 1 \in 1 .. Len(whole) + 1 /\ n \in 1 - 1 .. Len(whole)
    BY <1>1
<1>. QED
    BY <1>2, ConcatAdjacentSubSeq

LEMMA RespondStep == ASSUME Inv, NEW c \in Clients, Respond(c) PROVE Inv'
<1>1. Told(c) /\ Bounded(c) /\ (Reader(c) => Reads(c)) /\ Types
    BY DEF Inv
<1>2. /\ conn[c] = "ready" /\ status'[c] = 200 /\ executed'[c] = executed[c]
      /\ reply'[c] = reply[c] /\ since'[c] = since[c]
      /\ conn'[c] \in {"idle", "ended"} /\ (~Reader(c) => conn'[c] = "ended")
      /\ UNCHANGED <<setup, edition>>
    BY <1>1 DEF Types, Respond, Goto
<1>3. Told(c)'
    BY <1>1, <1>2 DEF Told, Local, Reader, Ask, Refusals
<1>4. Bounded(c)' /\ ~Active(c)'
    BY <1>1, <1>2 DEF Bounded, Active
<1>5. CASE Reader(c)
  <2>1. /\ got' = [got EXCEPT ![c] = @ \o reply[c].body]
        /\ cursor' = [cursor EXCEPT ![c] = reply[c].next]
        /\ conn'[c] = IF reply[c].last THEN "ended" ELSE "idle"
      BY <1>1, <1>5 DEF Types, Respond, Goto
  <2>2. reply[c] \in Replies /\ got[c] \in Seq(Nat) /\ cursor[c] \in Nat
      BY <1>1 DEF Types
  <2>3. reply[c].body \in Seq(Nat) /\ reply[c].next \in Nat
      BY <2>2 DEF Replies
  <2>4. got[c] \o reply[c].body \in Seq(Nat)
      BY <2>2, <2>3, ConcatProperties
  <2>5. /\ got'[c] = got[c] \o reply[c].body /\ cursor'[c] = reply[c].next
        /\ got' \in [Clients -> Seq(Nat)] /\ cursor' \in [Clients -> Nat]
        /\ \A d \in Clients \ {c} : got'[d] = got[d] /\ cursor'[d] = cursor[d]
      BY <1>1, <2>1, <2>3, <2>4 DEF Types
  <2>6. Types' /\ OthersStay(c)
      BY <1>1, <1>5, <2>5 DEF Types, Respond, Goto, Conns, OthersStay, procVars, bounds
  <2>7. Reads(c)'
    <3>1. /\ Content' = Content /\ Len(Content) \in Nat /\ Whole(Content) \in Seq(Nat)
          /\ Len(Whole(Content)) = Len(Content)
        BY <1>1, <1>2, ContentFacts DEF Content
    <3>2. ASSUME conn'[c] # "ended", cursor'[c] = 0 PROVE got'[c] = <<>>
      <4>1. cursor[c] = 0 /\ reply[c].body = <<>> /\ got[c] = <<>>
          BY <1>1, <1>2, <1>5, <2>1, <2>5, <3>2 DEF Reads
      <4>. QED
          BY <2>5, <4>1, EmptySeq, ConcatEmptySeq
    <3>3. ASSUME since[c] = edition
          PROVE  /\ cursor'[c] <= Len(Content)
                 /\ got'[c] = SubSeq(Whole(Content), 1, cursor'[c])
                 /\ conn'[c] = "ended" => cursor'[c] = Len(Content)
      <4>1. /\ cursor[c] <= Len(Content)
            /\ got[c] = SubSeq(Whole(Content), 1, cursor[c])
            /\ reply[c].next \in cursor[c] .. Len(Content)
            /\ reply[c].body = SubSeq(Whole(Content), cursor[c] + 1, reply[c].next)
            /\ reply[c].last => reply[c].next = Len(Content)
          BY <1>1, <1>2, <1>5, <3>3 DEF Reads
      <4>2. cursor[c] \in 0 .. Len(Whole(Content))
            /\ reply[c].next \in cursor[c] .. Len(Whole(Content))
          BY <2>2, <3>1, <4>1
      <4>3. got[c] \o reply[c].body = SubSeq(Whole(Content), 1, reply[c].next)
          BY <3>1, <4>1, <4>2, Continued
      <4>. QED
        <5>1. cursor'[c] <= Len(Content)
            BY <2>2, <2>5, <3>1, <4>1
        <5>2. got'[c] = SubSeq(Whole(Content), 1, cursor'[c])
            BY <2>5, <4>3
        <5>3. conn'[c] = "ended" => reply[c].last
            BY <2>1
        <5>. QED
            BY <2>5, <4>1, <5>1, <5>2, <5>3
    <3>4. since'[c] <= edition' /\ conn'[c] # "ready"
        BY <1>1, <1>2, <1>5 DEF Reads
    <3>. QED
        BY <1>2, <3>1, <3>2, <3>3, <3>4 DEF Reads
  <2>. QED
      BY <1>2, <1>3, <1>4, <2>6, <2>7, ClientMoved DEF Respond
<1>6. CASE ~Reader(c)
  <2>1. UNCHANGED <<got, cursor>> /\ Types' /\ OthersStay(c)
      BY <1>1, <1>6 DEF Types, Respond, Goto, Conns, OthersStay, procVars, bounds
  <2>2. ~Reader(c)'
      BY <1>2, <1>6 DEF Reader, Ask
  <2>. QED
      BY <1>2, <1>3, <1>4, <2>1, <2>2, ClientMoved DEF Respond
<1>. QED
    BY <1>5, <1>6

-----------------------------------------------------------------------------
LEMMA EditStep == ASSUME Inv, Edit PROVE Inv'
<1>1. /\ Types /\ edition \in 1 .. Len(setup.editions) /\ edition \in Nat
      /\ Len(setup.editions) \in Nat /\ DOMAIN setup.editions = 1 .. Len(setup.editions)
    BY ContentFacts DEF Inv, Types
<1>2. edition' = edition + 1 /\ edition' \in DOMAIN setup.editions
    BY <1>1 DEF Edit
<1>3. Types'
    BY <1>1, <1>2 DEF Types, Edit, procVars, clientVars, bounds
<1>4. Drained'
    BY DEF Inv, Drained, Active, Edit, procVars, clientVars
<1>5. ASSUME NEW c \in Clients PROVE Told(c)' /\ Bounded(c)' /\ (Reader(c) => Reads(c))'
  <2>1. Told(c) /\ Bounded(c) /\ (Reader(c) => Reads(c)) /\ since[c] \in Nat
      BY <1>1 DEF Inv, Types
  <2>2. Told(c)'
      BY <2>1 DEF Edit, clientVars, Told, Local, Reader, Ask
  <2>3. Bounded(c)'
      BY <2>1 DEF Edit, clientVars, Bounded
  <2>4. Reader(c)' = Reader(c)
      BY DEF Edit, Reader, Ask
  <2>5. ASSUME Reader(c) PROVE Reads(c)'
    <3>1. since'[c] = since[c] /\ since[c] <= edition /\ since'[c] # edition'
        BY <1>1, <1>2, <2>1, <2>5 DEF Edit, clientVars, Reads
    <3>. QED
        BY <1>1, <1>2, <2>1, <2>5, <3>1 DEF Edit, clientVars, Reads
  <2>. QED
      BY <2>2, <2>3, <2>4, <2>5
<1>. QED
    BY <1>3, <1>4, <1>5 DEF Inv

(* The process moves; the clients stay as they are.                         *)
LEMMA ProcessMoved ==
    ASSUME Inv, UNCHANGED <<setup, edition, clientVars>>, Types', Drained'
    PROVE  Inv'
BY Untouched DEF Inv, clientVars

LEMMA RunStep == ASSUME Inv, Run PROVE Inv'
<1>1. CASE Listen
    BY <1>1, ProcessMoved DEF Listen, Inv, Types, Drained, Active, clientVars, bounds
<1>2. CASE BeginShutdown
    BY <1>2, ProcessMoved DEF BeginShutdown, Inv, Types, Drained, Active, clientVars, bounds
<1>3. CASE ServeReturns
    BY <1>3, ProcessMoved DEF ServeReturns, Inv, Types, Drained, Active, clientVars, bounds
<1>4. CASE Quiesce
    BY <1>4, ProcessMoved DEF Quiesce, Inv, Types, Drained, Active, clientVars, bounds
<1>5. CASE GiveUp
    BY <1>5, ProcessMoved DEF GiveUp, Inv, Types, Drained, Active, clientVars, bounds
<1>6. CASE Exit
  <2>1. Types /\ Drained /\ \A c \in Clients : Told(c) /\ Bounded(c) /\ (Reader(c) => Reads(c))
      BY DEF Inv
  <2>2. conn' = [c \in Clients |-> IF Active(c) THEN Unanswered(c) ELSE conn[c]]
        /\ UNCHANGED <<setup, edition, signal, shutdown, status, executed, reply, cursor,
                       got, since, bounds>>
      BY <1>6 DEF Exit
  <2>3. conn' \in [Clients -> Conns]
      BY <2>1, <2>2 DEF Types, Conns, Unanswered
  <2>4. exit' \in -1 .. 1 /\ cut' \subseteq Clients /\ proc' = "exited"
      BY <1>6 DEF Exit
  <2>5. Types'
      BY <2>1, <2>2, <2>3, <2>4 DEF Types, bounds
  <2>6. Drained'
    <3>1. ASSUME shutdown = "done", NEW c \in Clients PROVE ~Active(c)'
        BY <2>1, <2>2, <3>1 DEF Drained, Active
    <3>2. ASSUME exit' = 0 PROVE cut' = {}
        BY <1>6, <2>1, <3>2 DEF Exit, Awaited, Drained
    <3>. QED
        BY <2>2, <3>1, <3>2 DEF Drained
  <2>7. ASSUME NEW c \in Clients PROVE Told(c)' /\ Bounded(c)' /\ (Reader(c) => Reads(c))'
    <3>1. CASE Active(c)
      <4>1. conn'[c] = Unanswered(c) /\ conn[c] \in {"open", "handling", "ready"}
          BY <2>2, <3>1 DEF Active
      <4>. QED
          BY <2>2, <2>5, <4>1, SetBack
    <3>2. CASE ~Active(c)
      <4>1. conn'[c] = conn[c]
          BY <2>2, <3>2
      <4>. QED
          BY <2>2, <4>1, Untouched
    <3>. QED
        BY <3>1, <3>2
  <2>. QED
      BY <2>5, <2>6, <2>7 DEF Inv
<1>. QED
    BY <1>1, <1>2, <1>3, <1>4, <1>5, <1>6 DEF Run

LEMMA InvStep == Inv /\ [Next]_vars => Inv'
<1> SUFFICES ASSUME Inv, [Next]_vars PROVE Inv'
    OBVIOUS
<1>1. ASSUME NEW c \in Clients, Work(c) \/ Handle(c) \/ Lose(c) \/ Unreadable(c) PROVE Inv'
    BY <1>1, SendStep, AcceptStep, RefuseStep, ForwardStep, RespondStep, HandleStep,
       LoseStep, UnreadableStep DEF Work
<1>2. CASE Edit
    BY <1>2, EditStep
<1>3. CASE Run
    BY <1>3, RunStep
<1>4. CASE ListenFails
  <2>1. stops' \in 0 .. MaxStops
      BY <1>4, TransportAssumption DEF ListenFails, Inv, Types
  <2>2. exit' = 1 /\ exit' \in -1 .. 1 /\ cut' = {}
      BY <1>4 DEF ListenFails
  <2>. QED
      BY <1>4, <2>1, <2>2, ProcessMoved
      DEF ListenFails, Inv, Types, Drained, Active, clientVars
<1>5. CASE Signal
  <2>1. stops' \in 0 .. MaxStops
      BY <1>5, TransportAssumption DEF Signal, Inv, Types
  <2>. QED
      BY <1>5, <2>1, ProcessMoved DEF Signal, Inv, Types, Drained, Active, clientVars
<1>6. CASE Restart
    BY <1>6, ProcessMoved DEF Restart, Inv, Types, Drained, Active, clientVars, bounds
<1>7. CASE UNCHANGED vars
    BY <1>7, ProcessMoved
    DEF vars, Inv, Types, Drained, Active, procVars, clientVars, bounds
<1>. QED
    BY <1>1, <1>2, <1>3, <1>4, <1>5, <1>6, <1>7 DEF Next, Quiet

LEMMA Invariance == Spec => []Inv
BY InvInit, InvStep, PTL DEF Spec

-----------------------------------------------------------------------------
(* Type correctness; the next cursor lies within the content it was made for. *)
THEOREM TypeCorrect == Spec => []TypeOK
<1>1. Inv => TypeOK
    BY DEF Inv, Types, Bounded, TypeOK, Refusals
<1>. QED
    BY <1>1, Invariance, PTL

(* Readers that follow next_cursor put the content together as it is, byte  *)
(* for byte, however the answers are lost or repeated, the process is      *)
(* restarted and the chunks are sized, as long as nobody edits it (GetChunk *)
(* and List of pages and assets).                                          *)
THEOREM ReadIsFaithfulHolds == Spec => []ReadIsFaithful
<1>1. Inv => ReadIsFaithful
  <2> SUFFICES ASSUME Inv, NEW c \in Clients, Reader(c), since[c] = edition
               PROVE  /\ Len(got[c]) <= Len(Content)
                      /\ got[c] = SubSeq(Whole(Content), 1, Len(got[c]))
                      /\ conn[c] = "ended" /\ status[c] = 200 => got[c] = Whole(Content)
      BY DEF ReadIsFaithful
  <2> DEFINE whole == Whole(Content)
  <2>1. /\ Len(Content) \in Nat /\ whole \in Seq(Nat) /\ Len(whole) = Len(Content)
        /\ cursor[c] \in Nat
      BY ContentFacts DEF Inv, Types
  <2>2. /\ cursor[c] <= Len(Content) /\ got[c] = SubSeq(whole, 1, cursor[c])
        /\ conn[c] = "ended" /\ status[c] = 200 => cursor[c] = Len(Content)
      BY DEF Inv, Reads
  <2> HIDE DEF whole
  <2>3. \A i \in 1 .. cursor[c] : whole[i] \in Nat
      BY <2>1, <2>2, ElementOfSeq
  <2>4. Len(SubSeq(whole, 1, cursor[c]))
          = IF 1 <= cursor[c] THEN cursor[c] - 1 + 1 ELSE 0
      BY <2>1, <2>3, SubSeqProperties
  <2>5. Len(got[c]) = cursor[c]
      BY <2>1, <2>2, <2>4
  <2>6. SubSeq(whole, 1, Len(whole)) = whole
      BY <2>1, SubSeqFull
  <2>. QED
      BY <2>1, <2>2, <2>5, <2>6 DEF whole
<1>. QED
    BY <1>1, Invariance, PTL

(* A client that is refused, or answered before the SDK, has run no tool,   *)
(* and 200 means that its tool has run once (newHTTPHandler).              *)
THEOREM StatusTellsExecutionHolds == Spec => []StatusTellsExecution
<1>1. Inv => StatusTellsExecution
    BY DEF Inv, Told, StatusTellsExecution, Refusals
<1>. QED
    BY <1>1, Invariance, PTL

(* A process that ends with status 0 has cut no request off (RunHTTP).      *)
THEOREM CleanExitCutsNothingHolds == Spec => []CleanExitCutsNothing
<1>1. Inv => CleanExitCutsNothing
    BY DEF Inv, Drained, CleanExitCutsNothing
<1>. QED
    BY <1>1, Invariance, PTL
=============================================================================
