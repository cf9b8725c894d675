----------------------------- MODULE ShimChild -----------------------------
(***************************************************************************)
(* rawChild of internal/shim/child.go: the one backend process the shim    *)
(* keeps behind its HTTP listener.  Handler goroutines (one per request)   *)
(* share the process: they start it, perform the MCP handshake, write      *)
(* requests to its stdin and wait on a channel per JSON-RPC id.  For every *)
(* process a read loop demultiplexes its stdout and a wait loop reports    *)
(* its exit.  Close runs concurrently with all of them.                    *)
(*                                                                         *)
(* A goroutine step is the code between two points where another           *)
(* goroutine can act: a lock section of c.mu, the acquisition of writeMu,  *)
(* a pipe write, a channel receive, a timer.                               *)
(***************************************************************************)
EXTENDS Naturals, FiniteSets

CONSTANTS Requests,     \* handler goroutines, one per HTTP request
          IdOf,         \* the JSON-RPC id each client chose
          NullId,       \* the id null: the shim substitutes "shim-N"
          NoId,         \* no id at all: a notification
          HandshakeId,  \* the id 1 of the shim's own initialize request
          None,         \* no channel, no holder, no answer
          Nil,          \* the nil sent on a channel when the process died
          MaxProc,      \* bound: processes ever started
          MaxAttempts,  \* DefaultRestartMaxRetries
          PipeCap,      \* messages the stdin pipe holds before a write blocks
          MayClose      \* bound: whether Close is ever called

Procs == 1..MaxProc

\* nextSyntheticID never repeats, so the synthetic id of a request is its own.
CallKey(r) == IF IdOf[r] = NullId THEN <<"shim", r>> ELSE IdOf[r]

\* Mutant of Key: null ids all become the fixed id 1 of the handshake.
FixedKey(r, m) ==
    IF m = "init" \/ IdOf[r] = NullId THEN HandshakeId ELSE CallKey(r)

Key(r, m) == IF m = "init" THEN HandshakeId ELSE CallKey(r)

Keys == {HandshakeId} \cup {CallKey(r) : r \in Requests}

MsgKinds == {"init", "note", "call"}

\* initialize, and a forwarded call that has an id, wait for a response.
ExpectsResponse(r, m) == m = "init" \/ (m = "call" /\ IdOf[r] # NoId)

\* A response: the request it answers and the process it came from.
Bodies == [from : Requests, msg : MsgKinds, by : Procs]

WireMsgs == [to : Procs, from : Requests, msg : MsgKinds,
             at : {"pipe", "work", "out"}]

ASSUME ConstantsAssumption ==
    /\ DOMAIN IdOf = Requests
    /\ MaxProc \in Nat \ {0}
    /\ MaxAttempts \in Nat \ {0}
    /\ PipeCap \in Nat \ {0}
    /\ MayClose \in BOOLEAN
    /\ None \notin Requests
    /\ None # Nil
    /\ {None, Nil} \cap Bodies = {}
    /\ HandshakeId \notin {NullId, NoId}

VARIABLES
    alive, starting, bootstrapped, generation, \* rawChild fields of that name
    cmd,        \* c.cmd with c.stdin and c.stdout: the latest process, 0 if none
    pending,    \* c.pending: the request whose channel is registered for a key
    writeMu,    \* the request holding writeMu
    closer,     \* progress of Close: "open", "marked" (c.stop set), "closed"
    closing,    \* the process Close found in c.cmd
    proc,       \* life of each process
    waitl,      \* its wait loop
    readl,      \* its read loop
    wire,       \* the messages in its stdin pipe, in its hands, in its stdout
    pc, stage, msg, sink, attempt, ctx, inbox, outcome, answer,
                \* of each handler goroutine
    executions, greeted, called
                \* history: how often the backend answered each call; processes
                \* that were sent notifications/initialized; that were sent a call

rawVars   == <<alive, starting, bootstrapped, generation, cmd, pending, writeMu>>
closeVars == <<closer, closing>>
procVars  == <<proc, waitl, readl>>
goVars    == <<pc, stage, msg, sink, attempt, ctx, inbox, outcome, answer>>
history   == <<executions, greeted, called>>
vars      == <<rawVars, closeVars, procVars, wire, goVars, history>>

stop == closer # "open"

PCs == {"idle", "ensure", "waiting", "woken", "spawn", "spawned", "backoff",
        "publish", "boot", "register", "lock", "write", "await", "bootDone",
        "done"}
SpawnPCs == {"spawn", "spawned", "backoff", "publish"}
Outcomes == {"none", "response", "sent", "deadline", "unavailable", "stopped",
             "writeErr", "startErr"}

FlagsOK == alive \in BOOLEAN /\ starting \in BOOLEAN /\ bootstrapped \in BOOLEAN

DataOK ==
    /\ generation \in Nat
    /\ cmd \in 0..MaxProc
    /\ pending \in [Keys -> Requests \cup {None}]
    /\ writeMu \in Requests \cup {None}
    /\ closer \in {"open", "marked", "closed"}
    /\ closing \in 0..MaxProc
    /\ proc \in [Procs -> {"unborn", "running", "killed", "shut", "exited"}]
    /\ waitl \in [Procs -> {"wait", "reaped", "done"}]
    /\ readl \in [Procs -> {"reading", "ended"}]
    /\ wire \subseteq WireMsgs
    /\ pc \in [Requests -> PCs]
    /\ stage \in [Requests -> 1..3]
    /\ msg \in [Requests -> MsgKinds]
    /\ sink \in [Requests -> 0..MaxProc]
    /\ attempt \in [Requests -> 0..MaxAttempts]
    /\ ctx \in [Requests -> {"live", "done"}]
    /\ inbox \in [Requests -> Bodies \cup {None, Nil}]
    /\ outcome \in [Requests -> Outcomes]
    /\ answer \in [Requests -> Bodies \cup {None}]
    /\ executions \in [Requests -> Nat]
    /\ greeted \subseteq Procs
    /\ called \subseteq Procs

TypeOK == FlagsOK /\ DataOK

Init ==
    /\ alive = FALSE /\ starting = FALSE /\ bootstrapped = FALSE
    /\ generation = 0
    /\ cmd = 0
    /\ pending = [k \in Keys |-> None]
    /\ writeMu = None
    /\ closer = "open" /\ closing = 0
    /\ proc = [p \in Procs |-> "unborn"]
    /\ waitl = [p \in Procs |-> "wait"]
    /\ readl = [p \in Procs |-> "reading"]
    /\ wire = {}
    /\ pc = [r \in Requests |-> "idle"]
    /\ stage = [r \in Requests |-> 1]
    /\ msg = [r \in Requests |-> "init"]
    /\ sink = [r \in Requests |-> 0]
    /\ attempt = [r \in Requests |-> 0]
    /\ ctx = [r \in Requests |-> "live"]
    /\ inbox = [r \in Requests |-> None]
    /\ outcome = [r \in Requests |-> "none"]
    /\ answer = [r \in Requests |-> None]
    /\ executions = [r \in Requests |-> 0]
    /\ greeted = {} /\ called = {}

-----------------------------------------------------------------------------
(* Mutant of Awoken: the state changes without a Broadcast.                *)
StillAsleep(pcs) == pcs

(* cond.Broadcast: every goroutine waiting in ensure re-examines its loop. *)
Awoken(pcs) == [r \in Requests |-> IF pcs[r] = "waiting" THEN "woken" ELSE pcs[r]]

(* A handler returns from Bootstrap or Send; its local variables are gone. *)
Return(r, pcs, result) ==
    /\ pc' = [pcs EXCEPT ![r] = "done"]
    /\ outcome' = [outcome EXCEPT ![r] = result]
    /\ stage' = [stage EXCEPT ![r] = 1]
    /\ msg' = [msg EXCEPT ![r] = "init"]
    /\ attempt' = [attempt EXCEPT ![r] = 0]
    /\ inbox' = [inbox EXCEPT ![r] = None]

(* ensure returned nil: serveHTTP's Bootstrap is stage 1, Send's own ensure is *)
(* stage 2, and the Bootstrap that Send calls is stage 3.                  *)
AfterEnsure(r) == IF stage[r] = 2 THEN "ensure" ELSE "boot"
StageAfterEnsure(r) == IF stage[r] = 2 THEN 3 ELSE stage[r]

(* Bootstrap returned nil: serveHTTP goes on to Send, Send to its sendRaw. *)
AfterBootstrap(r) ==
    /\ pc' = [pc EXCEPT ![r] = IF stage[r] = 1 THEN "ensure" ELSE "register"]
    /\ stage' = [stage EXCEPT ![r] = IF stage[r] = 1 THEN 2 ELSE 3]

Arrive(r) ==
    /\ pc[r] = "idle"
    /\ pc' = [pc EXCEPT ![r] = "ensure"]
    /\ UNCHANGED <<rawVars, closeVars, procVars, wire, stage, msg, sink, attempt,
                   ctx, inbox, outcome, answer, history>>

(* The request context expires (RequestTimeoutMS, or the client went away). *)
Deadline(r) ==
    /\ pc[r] \notin {"idle", "done"} /\ ctx[r] = "live"
    /\ ctx' = [ctx EXCEPT ![r] = "done"]
    /\ UNCHANGED <<rawVars, closeVars, procVars, wire, pc, stage, msg, sink,
                   attempt, inbox, outcome, answer, history>>

-----------------------------------------------------------------------------
(* ensure *)

EnsureAlive(r) ==
    /\ pc[r] \in {"ensure", "woken"} /\ alive
    /\ pc' = [pc EXCEPT ![r] = AfterEnsure(r)]
    /\ stage' = [stage EXCEPT ![r] = StageAfterEnsure(r)]
    /\ UNCHANGED <<rawVars, closeVars, procVars, wire, msg, sink, attempt, ctx,
                   inbox, outcome, answer, history>>

EnsureWait(r) ==
    /\ pc[r] \in {"ensure", "woken"} /\ ~alive /\ starting /\ ~stop
    /\ pc' = [pc EXCEPT ![r] = "waiting"]
    /\ UNCHANGED <<rawVars, closeVars, procVars, wire, stage, msg, sink, attempt,
                   ctx, inbox, outcome, answer, history>>

(* The loop ended without a child: Close ran, or the starter failed.       *)
EnsureGiveUp(r) ==
    /\ ~alive
    /\ \/ pc[r] \in {"ensure", "woken"} /\ starting /\ stop
       \/ pc[r] = "woken" /\ ~starting
    /\ Return(r, pc, IF stop THEN "stopped" ELSE "unavailable")
    /\ UNCHANGED <<rawVars, closeVars, procVars, wire, sink, ctx, answer, history>>

(* Mutant of BecomesStarter: c.starting is not consulted.                  *)
StartsRegardless(r) == pc[r] = "ensure" /\ ~alive

BecomesStarter(r) == pc[r] = "ensure" /\ ~alive /\ ~starting

(* Nobody is starting a child: become the starter.  c.stop is not consulted. *)
EnsureStart(r) ==
    /\ BecomesStarter(r)
    /\ starting' = TRUE
    /\ attempt' = [attempt EXCEPT ![r] = 0]
    /\ pc' = [pc EXCEPT ![r] = "spawn"]
    /\ UNCHANGED <<alive, bootstrapped, generation, cmd, pending, writeMu,
                   closeVars, procVars, wire, stage, msg, sink, ctx, inbox,
                   outcome, answer, history>>

(* spawn: the process runs, its loops start, c.cmd is the new process.     *)
Spawn(r) ==
    /\ pc[r] = "spawn" /\ cmd < MaxProc
    /\ cmd' = cmd + 1
    /\ proc' = [proc EXCEPT ![cmd + 1] = "running"]
    /\ pc' = [pc EXCEPT ![r] = "spawned"]
    /\ UNCHANGED <<alive, starting, bootstrapped, generation, pending, writeMu,
                   closeVars, waitl, readl, wire, stage, msg, sink, attempt, ctx,
                   inbox, outcome, answer, history>>

SpawnFails(r) ==
    /\ pc[r] = "spawn"
    /\ attempt' = [attempt EXCEPT ![r] = @ + 1]
    /\ pc' = [pc EXCEPT ![r] = "backoff"]
    /\ UNCHANGED <<rawVars, closeVars, procVars, wire, stage, msg, sink, ctx,
                   inbox, outcome, answer, history>>

(* Mutant of Cancelled: spawn forgets to cancel the command.               *)
NotCancelled(p) == proc

(* cancel(): exec.CommandContext signals the process.                      *)
Cancelled(p) == [proc EXCEPT ![p] = IF @ = "running" THEN "killed" ELSE @]

(* The end of spawn: a starter whose context expired kills what it started. *)
SpawnCheck(r) ==
    /\ pc[r] = "spawned"
    /\ \/ /\ ctx[r] = "done"
          /\ proc' = Cancelled(cmd)
          /\ attempt' = [attempt EXCEPT ![r] = @ + 1]
          /\ pc' = [pc EXCEPT ![r] = "backoff"]
       \/ /\ ctx[r] = "live"
          /\ pc' = [pc EXCEPT ![r] = "publish"]
          /\ UNCHANGED <<proc, attempt>>
    /\ UNCHANGED <<rawVars, closeVars, waitl, readl, wire, stage, msg, sink, ctx,
                   inbox, outcome, answer, history>>

(* Mutant of Retry: one attempt too many.                                  *)
RetryOnceMore(r) ==
    /\ pc[r] = "backoff" /\ ctx[r] = "live" /\ attempt[r] <= MaxAttempts
    /\ pc' = [pc EXCEPT ![r] = "spawn"]
    /\ UNCHANGED <<rawVars, closeVars, procVars, wire, stage, msg, sink, attempt,
                   ctx, inbox, outcome, answer, history>>

(* spawnWithBackoff between two attempts: the delay passes and attempts are left. *)
Retry(r) ==
    /\ pc[r] = "backoff" /\ ctx[r] = "live" /\ attempt[r] < MaxAttempts
    /\ pc' = [pc EXCEPT ![r] = "spawn"]
    /\ UNCHANGED <<rawVars, closeVars, procVars, wire, stage, msg, sink, attempt,
                   ctx, inbox, outcome, answer, history>>

(* spawnWithBackoff failed: ensure records it and wakes the waiters.       *)
StartFailed(r) ==
    /\ pc[r] = "backoff" /\ (ctx[r] = "done" \/ attempt[r] = MaxAttempts)
    /\ starting' = FALSE
    /\ Return(r, Awoken(pc), IF ctx[r] = "done" THEN "deadline" ELSE "startErr")
    /\ UNCHANGED <<alive, bootstrapped, generation, cmd, pending, writeMu,
                   closeVars, procVars, wire, sink, ctx, answer, history>>

(* spawnWithBackoff succeeded: ensure declares the child alive.  Whether its *)
(* wait loop has already reported its exit is not consulted.               *)
Publish(r) ==
    /\ pc[r] = "publish"
    /\ starting' = FALSE
    /\ alive' = TRUE
    /\ generation' = generation + 1
    /\ pc' = [Awoken(pc) EXCEPT ![r] = AfterEnsure(r)]
    /\ stage' = [stage EXCEPT ![r] = StageAfterEnsure(r)]
    /\ UNCHANGED <<bootstrapped, cmd, pending, writeMu, closeVars, procVars, wire,
                   msg, sink, attempt, ctx, inbox, outcome, answer, history>>

-----------------------------------------------------------------------------
(* Bootstrap and sendRaw *)

\* Mutant of BootCheck: bootstrapped is set when the handshake begins.
EagerBootCheck(r) ==
    /\ pc[r] = "boot"
    /\ bootstrapped' = TRUE
    /\ IF bootstrapped
       THEN AfterBootstrap(r) /\ msg' = [msg EXCEPT ![r] = "call"]
       ELSE /\ pc' = [pc EXCEPT ![r] = "register"]
            /\ UNCHANGED <<msg, stage>>
    /\ UNCHANGED <<alive, starting, generation, cmd, pending, writeMu, closeVars,
                   procVars, wire, sink, attempt, ctx, inbox, outcome, answer,
                   history>>

BootCheck(r) ==
    /\ pc[r] = "boot"
    /\ \/ /\ bootstrapped
          /\ AfterBootstrap(r)
          /\ msg' = [msg EXCEPT ![r] = "call"]
       \/ /\ ~bootstrapped
          /\ pc' = [pc EXCEPT ![r] = "register"]
          /\ msg' = [msg EXCEPT ![r] = "init"]
          /\ UNCHANGED stage
    /\ UNCHANGED <<rawVars, closeVars, procVars, wire, sink, attempt, ctx, inbox,
                   outcome, answer, history>>

BootDone(r) ==
    /\ pc[r] = "bootDone"
    /\ bootstrapped' = TRUE
    /\ AfterBootstrap(r)
    /\ msg' = [msg EXCEPT ![r] = "call"]
    /\ UNCHANGED <<alive, starting, generation, cmd, pending, writeMu, closeVars,
                   procVars, wire, sink, attempt, ctx, inbox, outcome, answer,
                   history>>

(* sendRaw's first lock section: a message that expects a response puts a  *)
(* new channel under its key, whoever was registered there before.         *)
Register(r) ==
    /\ pc[r] = "register" /\ (ExpectsResponse(r, msg[r]) => alive)
    /\ pc' = [pc EXCEPT ![r] = "lock"]
    /\ sink' = [sink EXCEPT ![r] = cmd]
    /\ IF ExpectsResponse(r, msg[r])
       THEN /\ pending' = [pending EXCEPT ![Key(r, msg[r])] = r]
            /\ inbox' = [inbox EXCEPT ![r] = None]
       ELSE UNCHANGED <<pending, inbox>>
    /\ UNCHANGED <<alive, starting, bootstrapped, generation, cmd, writeMu,
                   closeVars, procVars, wire, stage, msg, attempt, ctx, outcome,
                   answer, history>>

RegisterRefused(r) ==
    /\ pc[r] = "register" /\ ExpectsResponse(r, msg[r]) /\ ~alive
    /\ Return(r, pc, "unavailable")
    /\ UNCHANGED <<rawVars, closeVars, procVars, wire, sink, ctx, answer, history>>

LockWriter(r) ==
    /\ pc[r] = "lock" /\ writeMu = None
    /\ writeMu' = r
    /\ pc' = [pc EXCEPT ![r] = "write"]
    /\ UNCHANGED <<alive, starting, bootstrapped, generation, cmd, pending,
                   closeVars, procVars, wire, stage, msg, sink, attempt, ctx,
                   inbox, outcome, answer, history>>

InPipe(p) == {w \in wire : w.to = p /\ w.at = "pipe"}

(* stdin.Write: blocks while the pipe is full, whatever the context says.  *)
Write(r) ==
    LET p == sink[r] IN
    /\ pc[r] = "write"
    /\ proc[p] \in {"running", "killed"} /\ Cardinality(InPipe(p)) < PipeCap
    /\ wire' = wire \cup {[to |-> p, from |-> r, msg |-> msg[r], at |-> "pipe"]}
    /\ writeMu' = None
    /\ greeted' = IF msg[r] = "note" THEN greeted \cup {p} ELSE greeted
    /\ called' = IF msg[r] = "call" THEN called \cup {p} ELSE called
    /\ IF msg[r] = "call" /\ IdOf[r] = NoId
       THEN Return(r, pc, "sent")
       ELSE /\ pc' = [pc EXCEPT ![r] = IF msg[r] = "note" THEN "bootDone" ELSE "await"]
            /\ UNCHANGED <<stage, msg, attempt, inbox, outcome>>
    /\ UNCHANGED <<alive, starting, bootstrapped, generation, cmd, pending,
                   closeVars, procVars, sink, ctx, answer, executions>>

(* Mutant of Forget: the entry stays in the map.                           *)
KeepEntry(r) == pending

(* delete(c.pending, key)                                                  *)
Forget(r) == [pending EXCEPT ![Key(r, msg[r])] = None]

(* The pipe is broken or closed; the entry under the key is removed.       *)
WriteFails(r) ==
    /\ pc[r] = "write" /\ proc[sink[r]] \in {"shut", "exited"}
    /\ writeMu' = None
    /\ pending' = IF ExpectsResponse(r, msg[r])
                  THEN Forget(r) ELSE pending
    /\ Return(r, pc, "writeErr")
    /\ UNCHANGED <<alive, starting, bootstrapped, generation, cmd, closeVars,
                   procVars, wire, sink, ctx, answer, history>>

(* The select of sendRaw, one disjunct per case.                           *)
Receive(r) ==
    /\ pc[r] = "await" /\ inbox[r] \in Bodies
    /\ \/ /\ msg[r] = "init"
          /\ msg' = [msg EXCEPT ![r] = "note"]
          /\ pc' = [pc EXCEPT ![r] = "register"]
          /\ UNCHANGED <<stage, attempt, inbox, outcome, answer>>
       \/ /\ msg[r] = "call"
          /\ answer' = [answer EXCEPT ![r] = inbox[r]]
          /\ Return(r, pc, "response")
    /\ UNCHANGED <<rawVars, closeVars, procVars, wire, sink, ctx, history>>

\* Mutant of ReceiveNil: the call is retried on a new child.
RetryAfterNil(r) ==
    /\ pc[r] = "await" /\ inbox[r] = Nil
    /\ pc' = [pc EXCEPT ![r] = "ensure"]
    /\ UNCHANGED <<rawVars, closeVars, procVars, wire, stage, msg, sink, attempt,
                   ctx, inbox, outcome, answer, history>>

ReceiveNil(r) ==
    /\ pc[r] = "await" /\ inbox[r] = Nil
    /\ Return(r, pc, "unavailable")
    /\ UNCHANGED <<rawVars, closeVars, procVars, wire, sink, ctx, answer, history>>

\* Mutant of TimeOut: sendRaw waits for the response only.
NeverTimesOut(r) == FALSE

TimeOut(r) ==
    /\ pc[r] = "await" /\ ctx[r] = "done"
    /\ pending' = Forget(r)
    /\ Return(r, pc, "deadline")
    /\ UNCHANGED <<alive, starting, bootstrapped, generation, cmd, writeMu,
                   closeVars, procVars, wire, sink, ctx, answer, history>>

-----------------------------------------------------------------------------
(* The backend process (external: any MCP server over stdio)               *)

(* It takes a message from its stdin; a notification has no answer.        *)
BackendReads(p) ==
    \E w \in InPipe(p) :
        /\ proc[p] \in {"running", "killed"}
        /\ wire' = (wire \ {w}) \cup
                   (IF ExpectsResponse(w.from, w.msg) THEN {[w EXCEPT !.at = "work"]}
                                                      ELSE {})
        /\ UNCHANGED <<rawVars, closeVars, procVars, goVars, history>>

(* It answers the requests it holds, in any order.                         *)
BackendAnswers(p) ==
    \E w \in wire :
        /\ w.to = p /\ w.at = "work" /\ proc[p] \in {"running", "killed"}
        /\ wire' = (wire \ {w}) \cup {[w EXCEPT !.at = "out"]}
        /\ executions' = [executions EXCEPT ![w.from] = IF w.msg = "call" THEN @ + 1 ELSE @]
        /\ UNCHANGED <<rawVars, closeVars, procVars, goVars, greeted, called>>

(* It exits, on its own or killed; what it had not written is lost.        *)
BackendExits(p) ==
    /\ proc[p] \in {"running", "killed", "shut"}
    /\ proc' = [proc EXCEPT ![p] = "exited"]
    /\ wire' = {w \in wire : w.to = p => w.at = "out"}
    /\ UNCHANGED <<rawVars, closeVars, waitl, readl, goVars, history>>

-----------------------------------------------------------------------------
(* readLoop and waitLoop *)

(* readLoop hands a response to the channel registered under its id, if any. *)
Deliver(p) ==
    \E w \in wire :
        LET k == Key(w.from, w.msg) IN
        /\ readl[p] = "reading" /\ w.to = p /\ w.at = "out"
        /\ wire' = wire \ {w}
        /\ pending' = [pending EXCEPT ![k] = None]
        /\ inbox' = IF pending[k] = None THEN inbox
                    ELSE [inbox EXCEPT ![pending[k]] = [from |-> w.from, msg |-> w.msg, by |-> p]]
        /\ UNCHANGED <<alive, starting, bootstrapped, generation, cmd, writeMu,
                       closeVars, procVars, pc, stage, msg, sink, attempt, ctx,
                       outcome, answer, history>>

ReadEOF(p) ==
    /\ readl[p] = "reading" /\ proc[p] = "exited" /\ waitl[p] = "wait"
    /\ \A w \in wire : w.to # p
    /\ readl' = [readl EXCEPT ![p] = "ended"]
    /\ UNCHANGED <<rawVars, closeVars, proc, waitl, wire, goVars, history>>

(* Mutants of Drain: the map is emptied without telling anyone; it is kept. *)
DrainSilently == pending' = [k \in Keys |-> None] /\ UNCHANGED inbox
DrainNothing == UNCHANGED <<pending, inbox>>

(* Every registered channel gets nil and is closed; the map is emptied.    *)
Drain ==
    /\ pending' = [k \in Keys |-> None]
    /\ inbox' = [r \in Requests |-> IF \E k \in Keys : pending[k] = r
                                    THEN Nil ELSE inbox[r]]

(* cmd.Wait has closed the parent's pipe ends, so the next read fails:     *)
(* failRead, unless another process has taken over.                        *)
ReadFails(p) ==
    /\ readl[p] = "reading" /\ waitl[p] # "wait"
    /\ readl' = [readl EXCEPT ![p] = "ended"]
    /\ wire' = {w \in wire : w.to # p}
    /\ IF cmd = p
       THEN alive' = FALSE /\ Drain /\ pc' = Awoken(pc)
       ELSE UNCHANGED <<alive, pending, inbox, pc>>
    /\ UNCHANGED <<starting, bootstrapped, generation, cmd, writeMu, closeVars,
                   proc, waitl, stage, msg, sink, attempt, ctx, outcome, answer,
                   history>>

(* cmd.Wait returns ... *)
Reap(p) ==
    /\ proc[p] = "exited" /\ waitl[p] = "wait"
    /\ waitl' = [waitl EXCEPT ![p] = "reaped"]
    /\ UNCHANGED <<rawVars, closeVars, proc, readl, wire, goVars, history>>

(* ... and then waitLoop takes the lock and reports the exit.              *)
ReportExit(p) ==
    /\ waitl[p] = "reaped"
    /\ waitl' = [waitl EXCEPT ![p] = "done"]
    /\ IF cmd = p
       THEN alive' = FALSE /\ Drain /\ pc' = Awoken(pc)
       ELSE UNCHANGED <<alive, pending, inbox, pc>>
    /\ UNCHANGED <<starting, bootstrapped, generation, cmd, writeMu, closeVars,
                   proc, readl, wire, stage, msg, sink, attempt, ctx, outcome,
                   answer, history>>

-----------------------------------------------------------------------------
(* Close: the lock section, then what follows it.                          *)

CloseMark ==
    /\ MayClose /\ closer = "open"
    /\ closer' = "marked"
    /\ closing' = cmd
    /\ UNCHANGED <<rawVars, procVars, wire, goVars, history>>

CloseKill ==
    /\ closer = "marked"
    /\ closer' = "closed"
    /\ pc' = Awoken(pc)
    /\ proc' = IF closing # 0 /\ proc[closing] # "exited"
               THEN [proc EXCEPT ![closing] = "shut"] ELSE proc
    /\ UNCHANGED <<rawVars, closing, waitl, readl, wire, stage, msg, sink, attempt,
                   ctx, inbox, outcome, answer, history>>

-----------------------------------------------------------------------------
(* The steps a handler takes by itself once it has been called.            *)
HandlerStep(r) ==
    \/ EnsureAlive(r) \/ EnsureWait(r) \/ EnsureGiveUp(r) \/ EnsureStart(r)
    \/ Spawn(r) \/ SpawnFails(r) \/ SpawnCheck(r) \/ Retry(r)
    \/ StartFailed(r) \/ Publish(r)
    \/ BootCheck(r) \/ BootDone(r) \/ Register(r) \/ RegisterRefused(r)
    \/ LockWriter(r) \/ Write(r) \/ WriteFails(r)
    \/ Receive(r) \/ ReceiveNil(r) \/ TimeOut(r)

LoopStep(p) == Deliver(p) \/ ReadEOF(p) \/ ReadFails(p) \/ Reap(p) \/ ReportExit(p)

BackendStep(p) == BackendReads(p) \/ BackendAnswers(p) \/ BackendExits(p)

(* Every handler has returned; the shim idles.                             *)
Idle == (\A r \in Requests : pc[r] = "done") /\ UNCHANGED vars

Next ==
    \/ \E r \in Requests : Arrive(r) \/ Deadline(r) \/ HandlerStep(r)
    \/ \E p \in Procs : LoopStep(p) \/ BackendStep(p)
    \/ CloseMark \/ CloseKill
    \/ Idle

Spec == Init /\ [][Next]_vars

(* Goroutines run, contexts expire, a signalled process dies.  Nothing is  *)
(* assumed of a healthy backend.                                           *)
SchedulerFairness ==
    /\ \A r \in Requests : WF_vars(HandlerStep(r)) /\ WF_vars(Deadline(r))
    /\ \A p \in Procs : /\ WF_vars(Deliver(p) \/ ReadEOF(p) \/ ReadFails(p))
                        /\ WF_vars(Reap(p) \/ ReportExit(p))
                        /\ WF_vars(proc[p] \in {"killed", "shut"} /\ BackendExits(p))
    /\ WF_vars(CloseKill)

UnresponsiveSpec == Spec /\ SchedulerFairness

(* The backend also keeps reading its stdin, as the MCP server loop does.  *)
FairSpec == UnresponsiveSpec /\ \A p \in Procs : WF_vars(BackendReads(p))

-----------------------------------------------------------------------------
(* Properties *)

(* The id under which r's call is registered belongs to r alone.           *)
Private(r) == /\ CallKey(r) # HandshakeId
              /\ \A q \in Requests \ {r} : CallKey(q) # CallKey(r)

InSendRaw(r) == pc[r] \in {"lock", "write", "await"} /\ ExpectsResponse(r, msg[r])

(* sendRaw, readLoop: a client whose id no one else uses only ever gets the *)
(* answer to its own call, whatever restarts, timeouts and drains happened  *)
(* in between.                                                             *)
OwnAnswer ==
    \A r \in Requests : Private(r) /\ outcome[r] = "response" =>
        answer[r].from = r /\ answer[r].msg = "call" /\ answer[r].by = sink[r]

(* sendRaw: from registration on, a call that has neither an answer nor the *)
(* nil of a dead child is still registered, so that one can reach it: no    *)
(* other goroutine's delete, overwrite or drain can orphan it.             *)
CallStaysRegistered ==
    \A r \in Requests :
        Private(r) /\ InSendRaw(r) /\ msg[r] = "call" /\ inbox[r] = None
            => pending[CallKey(r)] = r

(* c.pending holds only channels whose sender is still inside sendRaw and   *)
(* that have not been sent to: the map does not leak entries after a        *)
(* timeout or a failed write, and no channel is sent to and closed twice.  *)
PendingIsLive ==
    \A k \in Keys : pending[k] # None =>
        LET r == pending[k] IN
        InSendRaw(r) /\ Key(r, msg[r]) = k /\ inbox[r] = None

(* ensure: c.starting is a lock; one goroutine at a time starts a child.   *)
SingleStarter ==
    /\ starting <=> \E r \in Requests : pc[r] \in SpawnPCs
    /\ \A q, r \in Requests : pc[q] \in SpawnPCs /\ pc[r] \in SpawnPCs => q = r

(* ensure: whoever sleeps on the condition variable will be broadcast to:   *)
(* a start is under way, its outcome not yet published and Close not done. *)
NoLostWakeup ==
    \A r \in Requests : pc[r] = "waiting" =>
        starting /\ ~alive /\ closer # "closed"

(* spawn, waitLoop: a process other than the current one has at least been  *)
(* signalled: restarts never leave two backends serving the same site.     *)
OneServingBackend == \A p \in Procs : proc[p] = "running" => p = cmd

(* waitLoop: once the exit of a child has been reported, no call written to *)
(* it is still waiting without an answer.                                  *)
NoWaitOnReportedChild ==
    \A r \in Requests :
        Private(r) /\ InSendRaw(r) /\ pc[r] = "await" /\ msg[r] = "call"
            /\ waitl[sink[r]] = "done" => inbox[r] # None

(* Bootstrap: no call reaches a backend before some backend was initialized. *)
HandshakeFirst == called # {} => greeted # {}

(* serveHTTP: every request gets an answer, provided the backend reads.    *)
EveryRequestReturns == \A r \in Requests : pc[r] # "idle" ~> pc[r] = "done"

(* Send implements ShimContract when the clients' ids are private: a call is *)
(* never repeated on a restarted child, and never answered unless executed. *)
Status(r) == CASE pc[r] = "idle" -> "idle"
               [] outcome[r] = "response" -> "answered"
               [] pc[r] = "done" /\ outcome[r] # "response" -> "failed"
               [] OTHER -> "submitted"

Contract == INSTANCE ShimContract WITH
                status <- [r \in Requests |-> Status(r)], executions <- executions

ImplementsContract == Contract!Spec

(* What the design document says and the code does not do.                 *)

(* SHIM_DESIGN.md:59, "after restart, the shim repeats the MCP             *)
(* initialization handshake": no child gets a call it was not greeted for. *)
HandshakePerChild == called \subseteq greeted

(* SHIM_DESIGN.md:52, "all requests in flight are tied to the active child  *)
(* generation": an answer comes from the process the request went to.      *)
AnswerFromOwnGeneration ==
    \A r \in Requests : outcome[r] = "response" => answer[r].by = sink[r]

(* SHIM_DESIGN.md:91, "shim waits for the matching child response".        *)
MatchingResponse ==
    \A r \in Requests : outcome[r] = "response" => answer[r].from = r

(* SHIM_DESIGN.md:132, "one reader goroutine demultiplexes child stdout     *)
(* responses back to pending HTTP requests": who waits is registered.      *)
EveryWaiterIsRegistered ==
    \A r \in Requests : InSendRaw(r) /\ inbox[r] = None
        => pending[Key(r, msg[r])] = r

(* SHIM_DESIGN.md:63, "restart the child on unexpected exit": an exit that  *)
(* both loops are through with has been noticed.                           *)
ExitIsNoticed ==
    ~(alive /\ proc[cmd] = "exited" /\ waitl[cmd] = "done" /\ readl[cmd] = "ended")

(* SHIM_DESIGN.md:154, "timeout at the HTTP layer returns 504".            *)
TimeoutReturns == \A r \in Requests : ctx[r] = "done" ~> pc[r] = "done"
=============================================================================
