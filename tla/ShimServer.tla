----------------------------- MODULE ShimServer -----------------------------
(***************************************************************************)
(* The shim's HTTP side, internal/shim/server.go, and its main program,    *)
(* cmd/hugo-mcp-shim/main.go.  Handlers pass the gates of serveHTTP in     *)
(* order, hold one of the queue's slots while they talk to the child, and  *)
(* translate what the child returns into a status.  The child is taken at  *)
(* its word: ShimContract, which ShimChild implements.  The main goroutine *)
(* publishes s.server, listens and exits when the listener closes; the     *)
(* signal goroutine closes the child and then the server it finds.         *)
(***************************************************************************)
EXTENDS Naturals, FiniteSets

CONSTANTS Requests,
          Shapes,     \* what a client may send: [faults, kind]
          QueueCap,   \* cap(s.queue)
          NotSent     \* no status written yet

Faults == {"path", "method", "contentType", "auth", "size", "json"}

\* resources/list and prompts/list are "discovery"; a "call" has an id, a
\* "notification" has none; the two forms of notifications/initialized.
Kinds == {"initialize", "discovery", "initialized", "initializedWithId",
          "call", "notification"}

ASSUME ServerAssumption ==
    /\ QueueCap \in Nat \ {0}
    /\ Shapes \subseteq [faults : SUBSET Faults, kind : Kinds]
    /\ NotSent \notin Nat

VARIABLES
    pc,          \* where each handler is in serveHTTP
    status,      \* the HTTP status it wrote
    body,        \* what it wrote: "none", "fixed", "error", "-32601", "backend"
    queue,       \* len(s.queue)
    call,        \* ShimContract's view of each child call
    executions,
    backend,     \* what the backend answers: "result", "error", "unsupported"
    shape,       \* what each client sends
    listener,    \* "unset", "set" (s.server published), "listening", "closed"
    signaller,   \* "waiting", "signalled", "childClosed", then "shutdown" and
                 \* "done", or "noServer" when Close found s.server unset
    main         \* "running", "exited"

handlerVars   == <<pc, status, body, queue, backend, shape>>
lifecycleVars == <<listener, signaller, main>>
vars == <<handlerVars, call, executions, lifecycleVars>>

Child == INSTANCE ShimContract WITH status <- call

PCs == {"idle", "gates", "read", "dispatch", "bootstrap", "send", "done"}
Holding == {"read", "dispatch", "bootstrap", "send"}

TypeOK ==
    /\ pc \in [Requests -> PCs]
    /\ status \in [Requests -> {NotSent, 200, 202, 400, 401, 404, 405, 413, 415,
                                429, 502, 503, 504}]
    /\ body \in [Requests -> {"none", "fixed", "error", "-32601", "backend"}]
    /\ queue \in 0..QueueCap
    /\ call \in [Requests -> {"idle", "submitted", "answered", "failed"}]
    /\ executions \in [Requests -> Nat]
    /\ shape \in [Requests -> Shapes]
    /\ backend \in [Requests -> {"result", "error", "unsupported"}]
    /\ listener \in {"unset", "set", "listening", "closed"}
    /\ signaller \in {"waiting", "signalled", "childClosed", "shutdown", "done",
                     "noServer"}
    /\ main \in {"running", "exited"}

Init ==
    /\ pc = [r \in Requests |-> "idle"]
    /\ status = [r \in Requests |-> NotSent]
    /\ body = [r \in Requests |-> "none"]
    /\ queue = 0
    /\ backend = [r \in Requests |-> "result"]
    /\ shape \in [Requests -> Shapes]
    /\ Child!Init
    /\ listener = "unset" /\ signaller = "waiting" /\ main = "running"

-----------------------------------------------------------------------------
(* The checks before a slot is taken, and those made while holding one, in  *)
(* the order of serveHTTP.                                                 *)
OuterGates == <<"path", "method", "contentType", "auth">>
InnerGates == <<"size", "json">>

StatusOf(fault) ==
    CASE fault = "path" -> 404 [] fault = "method" -> 405
      [] fault = "contentType" -> 415 [] fault = "auth" -> 401
      [] fault = "size" -> 413 [] fault = "json" -> 400

Passes(r, gates) == \A i \in DOMAIN gates : gates[i] \notin shape[r].faults

\* The first gate, in order, that the request does not pass.
StopsAt(r, gates, i) == /\ gates[i] \in shape[r].faults
                        /\ \A j \in 1 .. i - 1 : gates[j] \notin shape[r].faults

Reply(r, code, what) ==
    /\ pc' = [pc EXCEPT ![r] = "done"]
    /\ status' = [status EXCEPT ![r] = code]
    /\ body' = [body EXCEPT ![r] = what]

Arrive(r) ==
    /\ main = "running" /\ listener = "listening" /\ pc[r] = "idle"
    /\ pc' = [pc EXCEPT ![r] = "gates"]
    /\ UNCHANGED <<status, body, queue, backend, shape, call, executions, lifecycleVars>>

RefuseOuter(r) ==
    /\ main = "running" /\ pc[r] = "gates"
    /\ \E i \in DOMAIN OuterGates :
           StopsAt(r, OuterGates, i) /\ Reply(r, StatusOf(OuterGates[i]), "error")
    /\ UNCHANGED <<queue, backend, shape, call, executions, lifecycleVars>>

\* Mutant of Admitted: one handler too many.
AdmitsOneMore == queue <= QueueCap

Admitted == queue < QueueCap

Acquire(r) ==
    /\ main = "running" /\ pc[r] = "gates" /\ Passes(r, OuterGates)
    /\ IF Admitted
       THEN /\ queue' = queue + 1
            /\ pc' = [pc EXCEPT ![r] = "read"]
            /\ UNCHANGED <<status, body>>
       ELSE Reply(r, 429, "error") /\ UNCHANGED queue
    /\ UNCHANGED <<backend, shape, call, executions, lifecycleVars>>

\* Mutant of Release: the deferred release is skipped.
KeepSlot == queue' = queue

\* release: the deferred receive runs when serveHTTP returns.
Release == queue' = IF queue = 0 THEN 0 ELSE queue - 1

RefuseInner(r) ==
    /\ main = "running" /\ pc[r] = "read"
    /\ \E i \in DOMAIN InnerGates :
           StopsAt(r, InnerGates, i) /\ Reply(r, StatusOf(InnerGates[i]), "error")
    /\ Release
    /\ UNCHANGED <<backend, shape, call, executions, lifecycleVars>>

Decode(r) ==
    /\ main = "running" /\ pc[r] = "read" /\ Passes(r, InnerGates)
    /\ pc' = [pc EXCEPT ![r] = "dispatch"]
    /\ UNCHANGED <<status, body, queue, backend, shape, call, executions, lifecycleVars>>

-----------------------------------------------------------------------------
(* Methods the shim answers by itself, whatever the state of the child.    *)
AnswerLocally(r) ==
    /\ main = "running" /\ pc[r] = "dispatch"
    /\ \/ shape[r].kind = "initialize" /\ Reply(r, 200, "fixed")
       \/ shape[r].kind = "discovery" /\ Reply(r, 200, "-32601")
       \/ shape[r].kind = "initialized" /\ Reply(r, 202, "none")
       \/ shape[r].kind = "initializedWithId" /\ Reply(r, 200, "error")
    /\ Release
    /\ UNCHANGED <<backend, shape, call, executions, lifecycleVars>>

Forwarded(r) == shape[r].kind \in {"call", "notification"}

Forward(r) ==
    /\ main = "running" /\ pc[r] = "dispatch" /\ Forwarded(r)
    /\ pc' = [pc EXCEPT ![r] = "bootstrap"]
    /\ UNCHANGED <<status, body, queue, backend, shape, call, executions, lifecycleVars>>

Bootstrapped(r) ==
    /\ main = "running" /\ pc[r] = "bootstrap"
    /\ Child!Submit(r)
    /\ pc' = [pc EXCEPT ![r] = "send"]
    /\ UNCHANGED <<status, body, queue, backend, shape, lifecycleVars>>

ChildErrors == {"deadline", "canceled", "unavailable", "stopped", "writeErr",
                "startErr"}

\* Mutant of Translate: a child that is down is reported as overload.
TranslatesToOverload(err) == IF err = "deadline" THEN 504 ELSE 429

(* translateChildStatus; no error of the child says "overloaded".          *)
Translate(err) == CASE err = "deadline" -> 504
                    [] err \in {"unavailable", "stopped"} -> 503
                    [] OTHER -> 502

(* Bootstrap or Send returned an error.                                    *)
ChildFails(r) ==
    /\ main = "running"
    /\ \/ pc[r] = "bootstrap" /\ UNCHANGED <<call, executions>>
       \/ pc[r] = "send" /\ Child!GiveUp(r)
    /\ \E err \in ChildErrors : Reply(r, Translate(err), "error")
    /\ Release
    /\ UNCHANGED <<backend, shape, lifecycleVars>>

(* The backend process, which may outlive the interest of its caller.      *)
BackendExecutes(r) ==
    /\ main = "running" /\ pc[r] \in {"send", "done"}
    /\ \E what \in {"result", "error", "unsupported"} :
           backend' = [backend EXCEPT ![r] = what]
    /\ Child!Execute(r)
    /\ UNCHANGED <<pc, status, body, queue, shape, lifecycleVars>>

\* Mutant of Answered: Send returns before the backend has answered.
AnsweredEarly(r) == call' = [call EXCEPT ![r] = "answered"] /\ UNCHANGED executions

Answered(r) == Child!Answer(r)

(* rewriteUnsupportedMethod turns the SDK's code 0 errors about unknown     *)
(* methods into -32601 and leaves every other response alone.              *)
Rewritten(r) == IF backend[r] = "unsupported" THEN "-32601" ELSE "backend"

(* Send returned a response.                                               *)
ChildAnswers(r) ==
    /\ main = "running" /\ pc[r] = "send" /\ shape[r].kind = "call"
    /\ Answered(r)
    /\ Reply(r, 200, Rewritten(r))
    /\ Release
    /\ UNCHANGED <<backend, shape, lifecycleVars>>

(* A forwarded notification has been written; Send returns no response,    *)
(* and no response is not valid JSON.                                      *)
NotificationSent(r) ==
    /\ main = "running" /\ pc[r] = "send" /\ shape[r].kind = "notification"
    /\ Child!GiveUp(r)
    /\ Reply(r, 502, "error")
    /\ Release
    /\ UNCHANGED <<backend, shape, lifecycleVars>>

-----------------------------------------------------------------------------
(* ListenAndServe in the main goroutine.                                   *)
PublishServer ==
    /\ main = "running" /\ listener = "unset"
    /\ listener' = "set"
    /\ UNCHANGED <<handlerVars, call, executions, signaller, main>>

\* net/http refuses to listen once Shutdown has been called.
Listen ==
    /\ main = "running" /\ listener = "set"
    /\ listener' = IF signaller \in {"shutdown", "done"} THEN "closed" ELSE "listening"
    /\ UNCHANGED <<handlerVars, call, executions, signaller, main>>

(* ListenAndServe returned ErrServerClosed: run returns, the process ends   *)
(* with every goroutine that is still running.                             *)
Exit ==
    /\ main = "running" /\ listener = "closed"
    /\ main' = "exited"
    /\ UNCHANGED <<handlerVars, call, executions, listener, signaller>>

(* The goroutine that waits for SIGTERM, then Server.Close.                *)
Signal ==
    /\ main = "running" /\ signaller = "waiting"
    /\ signaller' = "signalled"
    /\ UNCHANGED <<handlerVars, call, executions, listener, main>>

CloseChild ==
    /\ main = "running" /\ signaller = "signalled"
    /\ signaller' = "childClosed"
    /\ UNCHANGED <<handlerVars, call, executions, listener, main>>

\* Mutant of ServerFound: Close looks at s.server before it is published.
NoServerFound == FALSE

ServerFound == listener # "unset"

CloseServer ==
    /\ main = "running" /\ signaller = "childClosed"
    /\ IF ServerFound
       THEN /\ signaller' = "shutdown"
            /\ listener' = IF listener = "listening" THEN "closed" ELSE listener
       ELSE signaller' = "noServer" /\ UNCHANGED listener
    /\ UNCHANGED <<handlerVars, call, executions, main>>

(* Shutdown waits for the open connections, Close returns.                 *)
ShutdownDone ==
    /\ main = "running" /\ signaller = "shutdown"
    /\ \A r \in Requests : pc[r] \in {"idle", "done"}
    /\ signaller' = "done"
    /\ UNCHANGED <<handlerVars, call, executions, listener, main>>

-----------------------------------------------------------------------------
HandlerStep(r) ==
    \/ RefuseOuter(r) \/ Acquire(r) \/ RefuseInner(r) \/ Decode(r)
    \/ AnswerLocally(r) \/ Forward(r) \/ Bootstrapped(r) \/ ChildFails(r)
    \/ ChildAnswers(r) \/ NotificationSent(r)

Lifecycle == \/ PublishServer \/ Listen \/ Exit
             \/ CloseChild \/ CloseServer \/ ShutdownDone

(* The process has ended, or listens for clients the model does not have.  *)
Idle == /\ main = "exited" \/ (listener = "listening" /\ signaller = "noServer")
        /\ UNCHANGED vars

Next == \/ \E r \in Requests : Arrive(r) \/ HandlerStep(r) \/ BackendExecutes(r)
        \/ Lifecycle \/ Signal \/ Idle

Spec == Init /\ [][Next]_vars

(* Goroutines run; ShimChild's EveryRequestReturns lets every child call end. *)
FairSpec == /\ Spec
            /\ \A r \in Requests : WF_vars(HandlerStep(r))
            /\ WF_vars(PublishServer \/ Listen \/ Exit)
            /\ WF_vars(CloseChild \/ CloseServer \/ ShutdownDone)

-----------------------------------------------------------------------------
(* Properties *)

(* acquire, release: a slot is taken exactly while a handler is between the *)
(* two, on every path out of serveHTTP, so slots neither leak nor exceed    *)
(* the capacity.                                                           *)
SlotsMatchHolders == queue = Cardinality({r \in Requests : pc[r] \in Holding})

(* serveHTTP: a request refused with a 4xx status has not been executed and *)
(* never will be.                                                          *)
RefusedIsNotExecuted ==
    \A r \in Requests : status[r] \in 400..499 => executions[r] = 0

(* serveHTTP: a 200 to a forwarded call carries the backend's answer to its *)
(* one execution.                                                          *)
SuccessIsExecutedOnce ==
    \A r \in Requests : shape[r].kind = "call" /\ status[r] = 200 =>
        /\ executions[r] = 1
        /\ body[r] = "-32601" <=> backend[r] = "unsupported"

(* main: once the server listens, a signal ends the process.               *)
SignalEndsProcess ==
    (listener = "listening" /\ signaller = "signalled") ~> main = "exited"

(* What the documents say and the code does not do.                        *)

(* SHIM_DESIGN.md:101, notifications without id are a supported case.      *)
NotificationIsAccepted ==
    \A r \in Requests : shape[r].kind = "notification" /\ executions[r] = 1
        => status[r] # 502

(* SHIM_STAGING_RUNTIME_REPORT.md:32, "a normal stop now deactivates       *)
(* successfully": every signal ends the process.                           *)
StopDeactivates == signaller = "signalled" ~> main = "exited"
=============================================================================
