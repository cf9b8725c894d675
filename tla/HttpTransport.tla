---------------------------- MODULE HttpTransport ----------------------------
(***************************************************************************)
(* hugo-mcp-go as an HTTP service (internal/server, cmd/hugo-mcp-go): the  *)
(* gates in front of the MCP SDK, the answers given locally, and the end   *)
(* of the process, together with clients that read content chunk by chunk. *)
(* Requests run at the same time, the service keeps nothing between them,  *)
(* answers may be lost, content may be edited, a tool may hang, and the    *)
(* process is stopped by a signal and started again by its supervisor.     *)
(***************************************************************************)
EXTENDS Chunks, FiniteSets

CONSTANTS Clients,
          Setups,     \* what the clients ask, and how the service is set up
          MaxStops,   \* bound: signals and failures to listen
          MaxLosses   \* bound: answers lost while the process runs

Paths  == {"/mcp", "/mcp/events", "elsewhere"}
Whats  == Kinds \cup {"initialize", "mutation", "garbage"}

(* A request as its gates see it: post, json, token and fits say whether    *)
(* the method is POST, the content type JSON, the token the right one and  *)
(* the body within HUGO_MCP_MAX_REQUEST_BYTES.  size: chunk_bytes, limit or *)
(* max_results.                                                            *)
Request == [path : Paths, post : BOOLEAN, json : BOOLEAN, token : BOOLEAN,
            fits : BOOLEAN, what : Whats, size : Int]

(* editions: the content at the start, and what edits make of it.          *)
ASSUME TransportAssumption ==
    /\ MaxStops \in Nat /\ MaxLosses \in Nat
    /\ \A s \in Setups : /\ s.asks \in [Clients -> Request]
                          /\ s.streaming \in BOOLEAN
                          /\ s.editions \in Seq(Seq(Element)) \ {<<>>}

VARIABLES
    setup,
    edition,   \* which of setup.editions is on disk
    proc,      \* the main goroutine of the process
    signal,    \* the context of NotifyContext is done
    shutdown,  \* the goroutine that calls Shutdown
    exit,      \* the status the last process ended with, -1 while none has
    cut,       \* (history) clients whose request that end cut off
    conn,      \* each client's connection
    status,    \* the status of the last answer, 0 for none
    executed,  \* (history) times a tool has run for the current request
    reply,     \* what the tool has returned: [body, next, last]
    cursor,    \* the cursor of each reader's next request
    got,       \* the elements each reader has put together
    since,     \* (history) the edition each reader began to read
    stops, losses

procVars   == <<proc, signal, shutdown, exit, cut>>
clientVars == <<conn, status, executed, reply, cursor, got, since>>
bounds     == <<stops, losses>>
vars == <<setup, edition, procVars, clientVars, bounds>>

(* "open": the request has arrived; "handling": a tool runs; "ready": it has *)
(* returned; "ended": the client is done.                                  *)
Conns     == {"idle", "sent", "open", "handling", "ready", "ended"}
Active(c) == conn[c] \in {"open", "handling", "ready"}

Ask(c)    == setup.asks[c]
Reader(c) == Ask(c).what \in Kinds
Content   == setup.editions[edition]

Nothing == [body |-> <<>>, next |-> 0, last |-> FALSE]

Init ==
    /\ setup \in Setups
    /\ edition = 1
    /\ proc = "starting" /\ signal = FALSE /\ shutdown = "no"
    /\ exit = -1 /\ cut = {}
    /\ conn = [c \in Clients |-> "idle"] /\ status = [c \in Clients |-> 0]
    /\ executed = [c \in Clients |-> 0] /\ reply = [c \in Clients |-> Nothing]
    /\ cursor = [c \in Clients |-> 0] /\ got = [c \in Clients |-> <<>>]
    /\ since = [c \in Clients |-> 1]
    /\ stops = 0 /\ losses = 0

-----------------------------------------------------------------------------
(* The gates, in the order of the handler.                                 *)

Pass == 0

McpGate(r) == CASE ~r.post  -> 405
                [] ~r.json  -> 415
                [] ~r.token -> 401
                [] ~r.fits  -> 413
                [] OTHER    -> Pass

EventsGate(r) == CASE ~setup.streaming  -> 404
                   [] ~r.token          -> 401
                   [] r.post /\ ~r.fits -> 413
                   [] OTHER             -> Pass

Gate(r) == CASE r.path = "/mcp"        -> McpGate(r)
             [] r.path = "/mcp/events" -> EventsGate(r)
             [] OTHER                  -> 404

\* initialize is answered here on /mcp, and by the SDK on /mcp/events.
Local(r) == r.path = "/mcp" /\ r.what = "initialize"

\* The SDK refuses what is no request, and GET, for it keeps no sessions.
SdkRefuses(r) == r.what = "garbage" \/ ~r.post

-----------------------------------------------------------------------------
(* Requests *)

Goto(c, place) == conn' = [conn EXCEPT ![c] = place]

Answer(c, code) == status' = [status EXCEPT ![c] = code] /\ Goto(c, "ended")

\* Mutant of AnswerLocally: the handler goes on after its answer.
AnswerAndGoOn(c) == Answer(c, 200) /\ executed' = [executed EXCEPT ![c] = @ + 1]

AnswerLocally(c) == Answer(c, 200) /\ UNCHANGED executed

\* A reader asks again when it gets no answer, any other client gives up.
Unanswered(c) == IF Reader(c) THEN "idle" ELSE "ended"

Send(c) ==
    /\ conn[c] = "idle" /\ proc = "serving"
    /\ Goto(c, "sent")
    /\ executed' = [executed EXCEPT ![c] = 0]
    /\ UNCHANGED <<setup, edition, procVars, status, reply, cursor, got, since, bounds>>

(* A connection that is not accepted when Shutdown closes the listener is  *)
(* reset.                                                                  *)
Accept(c) ==
    /\ conn[c] = "sent"
    /\ IF proc = "serving" /\ shutdown = "no" THEN Goto(c, "open")
       ELSE Goto(c, Unanswered(c))
    /\ UNCHANGED <<setup, edition, procVars, status, executed, reply, cursor, got,
                   since, bounds>>

Refuse(c) ==
    /\ conn[c] = "open"
    /\ \/ Gate(Ask(c)) # Pass /\ Answer(c, Gate(Ask(c))) /\ UNCHANGED executed
       \/ Gate(Ask(c)) = Pass /\ Local(Ask(c)) /\ AnswerLocally(c)
       \/ /\ Gate(Ask(c)) = Pass /\ SdkRefuses(Ask(c))
          /\ Answer(c, IF Ask(c).post THEN 400 ELSE 405) /\ UNCHANGED executed
    /\ UNCHANGED <<setup, edition, procVars, reply, cursor, got, since, bounds>>

Forward(c) ==
    /\ conn[c] = "open"
    /\ Gate(Ask(c)) = Pass /\ ~Local(Ask(c)) /\ ~SdkRefuses(Ask(c))
    /\ Goto(c, "handling")
    /\ UNCHANGED <<setup, edition, procVars, status, executed, reply, cursor, got,
                   since, bounds>>

Window(c) ==
    LET kind   == Ask(c).what
        size   == Ask(c).size
        offset == Offset(Content, cursor[c])
        end    == End(kind, Content, cursor[c], size)
    IN  [body |-> Body(kind, Content, offset, end),
         next |-> NextCursor(kind, Content, cursor[c], size),
         last |-> IsLast(Content, end)]

(* The tool runs.  One that reads takes one edition of the file.           *)
Handle(c) ==
    /\ conn[c] = "handling"
    /\ executed' = [executed EXCEPT ![c] = @ + 1]
    /\ IF Reader(c)
       THEN /\ reply' = [reply EXCEPT ![c] = Window(c)]
            /\ since' = [since EXCEPT ![c] = IF cursor[c] = 0 THEN edition ELSE @]
       ELSE UNCHANGED <<reply, since>>
    /\ Goto(c, "ready")
    /\ UNCHANGED <<setup, edition, procVars, status, cursor, got, bounds>>

(* The answer arrives, and a reader follows its next_cursor.               *)
Respond(c) ==
    /\ conn[c] = "ready"
    /\ status' = [status EXCEPT ![c] = 200]
    /\ IF Reader(c)
       THEN /\ got' = [got EXCEPT ![c] = @ \o reply[c].body]
            /\ cursor' = [cursor EXCEPT ![c] = reply[c].next]
            /\ Goto(c, IF reply[c].last THEN "ended" ELSE "idle")
       ELSE Goto(c, "ended") /\ UNCHANGED <<got, cursor>>
    /\ UNCHANGED <<setup, edition, procVars, executed, reply, since, bounds>>

(* The request or the answer takes longer than ReadTimeout or WriteTimeout, *)
(* or the client gives up.                                                 *)
Lose(c) ==
    /\ losses < MaxLosses
    /\ losses' = losses + 1
    /\ conn[c] \in {"open", "ready"}
    /\ Goto(c, Unanswered(c))
    /\ UNCHANGED <<setup, edition, procVars, status, executed, reply, cursor, got,
                   since, stops>>

(* The body stops coming until ReadTimeout, and the handler says so.        *)
Unreadable(c) ==
    /\ losses < MaxLosses
    /\ losses' = losses + 1
    /\ conn[c] = "open" /\ Ask(c).post /\ Gate(Ask(c)) \in {Pass, 413}
    /\ Answer(c, 400)
    /\ UNCHANGED <<setup, edition, procVars, executed, reply, cursor, got, since, stops>>

Edit ==
    /\ edition < Len(setup.editions)
    /\ edition' = edition + 1
    /\ UNCHANGED <<setup, procVars, clientVars, bounds>>

-----------------------------------------------------------------------------
(* The process *)

Listen ==
    /\ proc = "starting" /\ shutdown = "no"
    /\ proc' = "serving"
    /\ UNCHANGED <<setup, edition, signal, shutdown, exit, cut, clientVars, bounds>>

ListenFails ==
    /\ proc = "starting" /\ shutdown = "no"
    /\ stops < MaxStops
    /\ stops' = stops + 1
    /\ proc' = "exited" /\ exit' = 1 /\ cut' = {}
    /\ UNCHANGED <<setup, edition, signal, shutdown, clientVars, losses>>

Signal ==
    /\ proc # "exited" /\ ~signal
    /\ stops < MaxStops
    /\ stops' = stops + 1
    /\ signal' = TRUE
    /\ UNCHANGED <<setup, edition, proc, shutdown, exit, cut, clientVars, losses>>

BeginShutdown ==
    /\ proc \in {"starting", "serving"} /\ signal /\ shutdown = "no"
    /\ shutdown' = "waiting"
    /\ UNCHANGED <<setup, edition, proc, signal, exit, cut, clientVars, bounds>>

\* ListenAndServe returns ErrServerClosed, also when it has not begun yet.
ServeReturns ==
    /\ proc \in {"starting", "serving"} /\ shutdown # "no"
    /\ proc' = "stopping"
    /\ UNCHANGED <<setup, edition, signal, shutdown, exit, cut, clientVars, bounds>>

Quiesce ==
    /\ shutdown = "waiting" /\ \A c \in Clients : ~Active(c)
    /\ shutdown' = "done"
    /\ UNCHANGED <<setup, edition, proc, signal, exit, cut, clientVars, bounds>>

\* Mutant of Overdue: Shutdown is given no deadline.
NeverOverdue == FALSE

Overdue == \E c \in Clients : Active(c)

\* The five seconds pass while a handler is still at work.
GiveUp ==
    /\ shutdown = "waiting" /\ Overdue
    /\ shutdown' = "late"
    /\ UNCHANGED <<setup, edition, proc, signal, exit, cut, clientVars, bounds>>

\* Mutant of Awaited: RunHTTP returns as soon as ListenAndServe does.
NotAwaited == TRUE

\* <-done
Awaited == shutdown \in {"done", "late"}

(* RunHTTP returns what Shutdown returned, and main ends with it; handlers  *)
(* that still run are cut off.                                             *)
Exit ==
    /\ proc = "stopping" /\ Awaited
    /\ proc' = "exited"
    /\ exit' = IF shutdown = "late" THEN 1 ELSE 0
    /\ cut' = {c \in Clients : Active(c)}
    /\ conn' = [c \in Clients |-> IF Active(c) THEN Unanswered(c) ELSE conn[c]]
    /\ UNCHANGED <<setup, edition, signal, shutdown, status, executed, reply, cursor,
                   got, since, bounds>>

\* The supervisor starts the process again.
Restart ==
    /\ proc = "exited"
    /\ proc' = "starting" /\ signal' = FALSE /\ shutdown' = "no"
    /\ UNCHANGED <<setup, edition, exit, cut, clientVars, bounds>>

-----------------------------------------------------------------------------
Work(c) == \/ Send(c) \/ Accept(c) \/ Refuse(c) \/ Forward(c) \/ Respond(c)
           \/ Reader(c) /\ Handle(c)

Run == \/ Listen \/ BeginShutdown \/ ServeReturns \/ Quiesce \/ GiveUp \/ Exit

Quiet == (\A c \in Clients : conn[c] = "ended") /\ UNCHANGED vars

Next == \/ \E c \in Clients : Work(c) \/ Handle(c) \/ Lose(c) \/ Unreadable(c)
        \/ Edit \/ Run \/ ListenFails \/ Signal \/ Restart \/ Quiet

Spec == Init /\ [][Next]_vars

(* Goroutines run, tools that only read return, the deadline of Shutdown    *)
(* passes, the supervisor restarts, and readers go on.  A tool that writes *)
(* may take for ever.                                                      *)
FairSpec == Spec /\ WF_vars(Run) /\ WF_vars(Restart) /\ \A c \in Clients : WF_vars(Work(c))

-----------------------------------------------------------------------------
(* Properties *)

(* Types; no reader is sent beyond the end of what it has read from.       *)
TypeOK ==
    /\ setup \in Setups /\ edition \in DOMAIN setup.editions
    /\ proc \in {"starting", "serving", "stopping", "exited"}
    /\ signal \in BOOLEAN /\ exit \in -1 .. 1 /\ cut \subseteq Clients
    /\ shutdown \in {"no", "waiting", "done", "late"}
    /\ conn \in [Clients -> Conns]
    /\ status \in [Clients -> {0, 200, 400, 401, 404, 405, 413, 415}]
    /\ executed \in [Clients -> 0..1]
    /\ since \in [Clients -> DOMAIN setup.editions]
    /\ stops \in 0..MaxStops /\ losses \in 0..MaxLosses
    /\ \A c \in Clients : \E e \in DOMAIN setup.editions :
         reply[c].next \in 0..Len(setup.editions[e])

(* The cursors of get_page_chunk, get_asset_chunk, list_pages, list_assets: *)
(* what a reader has put together from any number of answers, lost ones,    *)
(* repeated ones and restarts between them, is what the content began with *)
(* when it began to read, character by character, and all of it once it is *)
(* told that it has the last one, unless the content was edited meanwhile. *)
ReadIsFaithful ==
    \A c \in Clients : Reader(c) /\ since[c] = edition =>
        /\ Len(got[c]) <= Len(Content)
        /\ got[c] = SubSeq(Whole(Content), 1, Len(got[c]))
        /\ conn[c] = "ended" /\ status[c] = 200 => got[c] = Whole(Content)

(* The handler: what is refused or answered here has run no tool, and an    *)
(* answer 200 to anything else means that the tool has run once.           *)
StatusTellsExecution ==
    \A c \in Clients : conn[c] = "ended" =>
        /\ status[c] \in {400, 401, 404, 405, 413, 415} => executed[c] = 0
        /\ status[c] = 200 => executed[c] = IF Local(Ask(c)) THEN 0 ELSE 1

(* RunHTTP waits for Shutdown: a process that ends with status 0 has        *)
(* answered every request it had accepted.                                 *)
CleanExitCutsNothing == exit = 0 => cut = {}

(* NotifyContext, the deadline of Shutdown: a signal ends the process,      *)
(* whether it listens yet or not and whatever its handlers do.             *)
SignalEndsProcess == signal ~> proc = "exited"

(* Nothing is edited, and a chunk has room for the widest character.        *)
Readable(c) ==
    /\ Reader(c) /\ Gate(Ask(c)) = Pass /\ ~SdkRefuses(Ask(c))
    /\ Len(setup.editions) = 1
    /\ Valid(Content, 0, Len(Content))
    /\ \A i \in DOMAIN Content :
         Content[i].before + Content[i].after < Size(Ask(c).what, Content, Ask(c).size)

(* A reader comes to the last chunk although the process is stopped and     *)
(* restarted and answers are lost in between.                              *)
ReadingEnds == \A c \in Clients : Readable(c) ~> conn[c] = "ended"
=============================================================================
