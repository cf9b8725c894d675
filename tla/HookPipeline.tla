---------------------------- MODULE HookPipeline ----------------------------
(***************************************************************************)
(* The post-build hooks of internal/hooks and the tools that drive them.   *)
(* A tool call walks over the providers in order: it inserts a job into    *)
(* the SQLite store, then talks to the provider's HTTP endpoint within a   *)
(* bounded number of attempts, and counts and audits a failure.  Calls     *)
(* interleave; a call may be cancelled by its client at any moment, an     *)
(* insert may fail (its error is dropped), a request may be executed and   *)
(* still be reported as failed, and the process may crash.                 *)
(***************************************************************************)
EXTENDS Naturals, Integers, FiniteSets, Sequences, SequencesExt

CONSTANTS Callers,
          Providers,         \* p.providers, in order
          Setups,            \* what is asked of the hooks, and how they are
                             \* configured: see SetupOf
          Blank,             \* a URL that is empty once trimmed
          Malformed          \* URLs without a scheme or a host

DefaultHooksMaxRetries == 5

(* picks: how many job ids a retry_hook_jobs call names; with none it picks *)
(* the jobs whose status is "failed".                                      *)
Tools == {"mutation", "run_post_build_hooks", "retry_hook_jobs"}

(* calls: [tool, action, urls, picks] of each caller.  enabled: providers    *)
(* with their *_ENABLED setting on.  batch: providers that send all URLs in *)
(* one request.  maxRetries: LoadConfigFromEnv accepts no less than one.     *)
SetupOf(calls) ==
    [calls : calls, enabled : SUBSET ToSet(Providers), batch : SUBSET ToSet(Providers),
     dryRun : BOOLEAN, postBuild : BOOLEAN, maxRetries : Nat \ {0}]

ASSUME HookAssumption ==
    /\ Providers \in Seq(STRING) \ {<<>>} /\ IsInjective(Providers)
    /\ \A s \in Setups : /\ s \in SetupOf({s.calls})
                          /\ \A c \in Callers : /\ s.calls[c].tool \in Tools
                                                 /\ s.calls[c].picks \in Nat

VARIABLES
    setup,      \* the calls of this run and the configuration of the process
    jobs,       \* rows of hook_jobs, in order of creation
    audit,      \* rows of hook_audit: [by, provider]
    received,   \* what the endpoints have executed: [by, provider, action, urls]
    pc, local,  \* each call's place and local variables
    summary,    \* each call's HookSummary: [result, failed]
    cancelled,  \* calls whose context is done
    outcome,    \* (history) how the run behind each job ended
    mine,       \* (history) the job of the provider a call is at, 0 if none
    unstored    \* (history) <<call, provider>> whose insert failed

storeVars == <<jobs, audit, outcome, unstored>>
callVars  == <<pc, local, summary, mine>>
vars == <<setup, storeVars, received, callVars, cancelled>>

Calls       == setup.calls
Enabled     == setup.enabled
Batch       == setup.batch
HooksDryRun == setup.dryRun
PostBuildHooksEnabled == setup.postBuild
HooksMaxRetries       == setup.maxRetries

Results  == {"none", "ok", "dry_run"}
PCs      == {"idle", "event", "enqueue", "run", "attempt", "failed", "done", "lost"}
NoResult == [result |-> [p \in ToSet(Providers) |-> "none"], failed |-> 0]
Unset    == [todo |-> <<>>, at |-> 1, unit |-> 1, attempts |-> 0, lastErr |-> FALSE]

Init ==
    /\ setup \in Setups
    /\ jobs = <<>> /\ audit = {} /\ received = {}
    /\ pc = [c \in Callers |-> "idle"]
    /\ local = [c \in Callers |-> Unset]
    /\ summary = [c \in Callers |-> NoResult]
    /\ cancelled = {}
    /\ outcome = <<>> /\ mine = [c \in Callers |-> 0] /\ unstored = {}

-----------------------------------------------------------------------------
(* Helpers *)

MaxRetries == IF HooksMaxRetries <= 0 THEN DefaultHooksMaxRetries ELSE HooksMaxRetries

Dedupe(urls) ==
    FoldLeft(LAMBDA kept, u : IF u = Blank \/ u \in ToSet(kept) THEN kept
                              ELSE Append(kept, u),
             <<>>, urls)

Event(c)    == Head(local[c].todo)
Urls(c)     == Dedupe(Event(c).urls)
Provider(c) == Providers[local[c].at]

(* What one HTTP request of a provider carries: all URLs, or one each.     *)
Units(c) == IF Provider(c) \in Batch THEN <<ToSet(Urls(c))>>
            ELSE [i \in DOMAIN Urls(c) |-> {Urls(c)[i]}]

Goto(c, place) == pc' = [pc EXCEPT ![c] = place]

\* Mutant of LastProvider: the loop runs one turn too many.
OneTooMany(c) == local[c].at > Len(Providers)

LastProvider(c) == local[c].at >= Len(Providers)

(* The loop over p.providers in Process, and over jobIDs around it.         *)
NextProvider(c) ==
    IF LastProvider(c)
    THEN /\ Goto(c, "event")
         /\ local' = [local EXCEPT ![c].at = 1, ![c].todo = Tail(@)]
    ELSE /\ Goto(c, "enqueue")
         /\ local' = [local EXCEPT ![c].at = @ + 1]

-----------------------------------------------------------------------------
\* buildHookSummary: nothing to do for a mutation without a URL.
Skipped(c) == Calls[c].tool = "mutation" /\ Dedupe(Calls[c].urls) = <<>>

(* A mutation tool that has succeeded, or run_post_build_hooks.            *)
StartProcess(c) ==
    /\ pc[c] = "idle" /\ Calls[c].tool # "retry_hook_jobs"
    /\ Goto(c, "event")
    /\ local' = [local EXCEPT ![c].todo =
           IF Skipped(c) THEN <<>>
           ELSE <<[id |-> 0, action |-> Calls[c].action, urls |-> Calls[c].urls]>>]
    /\ UNCHANGED <<setup, storeVars, received, summary, mine, cancelled>>

\* The rows in order of creation, each with its id.
ListJobs == [i \in DOMAIN jobs |-> [id |-> i, action |-> jobs[i].action,
                                    urls |-> jobs[i].urls, status |-> jobs[i].status]]

EventOf(job) == [id |-> job.id, action |-> job.action, urls |-> job.urls]

(* retry_hook_jobs reads the jobs once and works on that snapshot; ListJobs *)
(* fails when the call is cancelled.                                       *)
StartRetry(c) ==
    /\ pc[c] = "idle" /\ Calls[c].tool = "retry_hook_jobs"
    /\ IF c \in cancelled THEN Goto(c, "done") /\ UNCHANGED local
       ELSE /\ Goto(c, "event")
            /\ \E ids \in SUBSET DOMAIN ListJobs :
                 /\ IF Calls[c].picks = 0
                    THEN ids = {i \in DOMAIN ListJobs : ListJobs[i].status = "failed"}
                    ELSE Cardinality(ids) <= Calls[c].picks
                 /\ LET order == SetToSortSeq(ids, <)
                    IN local' = [local EXCEPT ![c].todo =
                                   [i \in DOMAIN order |-> EventOf(ListJobs[order[i]])]]
    /\ UNCHANGED <<setup, storeVars, received, summary, mine, cancelled>>

\* An update fails when the call is cancelled, and its error is dropped.
SetJobStatus(c, id, to) ==
    jobs' = IF c \in cancelled THEN jobs ELSE [jobs EXCEPT ![id].status = to]

(* Process begins; a retry first sets the job's status.                    *)
BeginEvent(c) ==
    /\ pc[c] = "event" /\ local[c].todo # <<>>
    /\ Goto(c, "enqueue")
    /\ summary' = [summary EXCEPT ![c] = NoResult]
    /\ LET id == Event(c).id
       IN IF id = 0 THEN UNCHANGED jobs ELSE SetJobStatus(c, id, "pending")
    /\ UNCHANGED <<setup, audit, outcome, unstored, received, local, mine, cancelled>>

Finish(c) ==
    /\ pc[c] = "event" /\ local[c].todo = <<>>
    /\ Goto(c, "done")
    /\ UNCHANGED <<setup, storeVars, received, local, summary, mine, cancelled>>

Job(c) == [provider |-> Provider(c), action |-> Event(c).action, urls |-> Urls(c),
           status |-> "pending"]

\* Mutant of Insert: the row is written when the run is over.
InsertsLater(c) ==
    /\ mine' = [mine EXCEPT ![c] = 0]
    /\ UNCHANGED <<jobs, outcome, unstored>>

Insert(c) ==
    \/ /\ c \notin cancelled
       /\ jobs' = Append(jobs, Job(c)) /\ outcome' = Append(outcome, "none")
       /\ mine' = [mine EXCEPT ![c] = Len(jobs) + 1]
       /\ UNCHANGED unstored
    \/ /\ unstored' = unstored \cup {<<c, Provider(c)>>}
       /\ mine' = [mine EXCEPT ![c] = 0]
       /\ UNCHANGED <<jobs, outcome>>

EnqueueJob(c) ==
    /\ pc[c] = "enqueue"
    /\ IF Urls(c) # <<>> THEN Insert(c)
       ELSE mine' = [mine EXCEPT ![c] = 0] /\ UNCHANGED <<jobs, outcome, unstored>>
    /\ IF PostBuildHooksEnabled THEN Goto(c, "run") /\ UNCHANGED local
       ELSE NextProvider(c)
    /\ UNCHANGED <<setup, audit, received, summary, cancelled>>

-----------------------------------------------------------------------------
Invalid(urls) == ToSet(urls) \cap Malformed # {}

(* The checks of PurgeURLs, Publish and Submit before the first request.   *)
Rejected(c) ==
    \/ c \in cancelled
    \/ Urls(c) = <<>>
    \/ Invalid(Urls(c))
    \/ Provider(c) # "cloudflare" /\ Event(c).action \notin {"URL_UPDATED", "URL_DELETED"}

Live(p) == p \in Enabled /\ ~HooksDryRun

Settle(c, how) == IF mine[c] = 0 THEN UNCHANGED outcome
                  ELSE outcome' = [outcome EXCEPT ![mine[c]] = how]

Succeed(c, how) ==
    /\ summary' = [summary EXCEPT ![c].result[Provider(c)] = how]
    /\ Settle(c, how)
    /\ NextProvider(c)

(* With the checks passed the secret is loaded, and for Google a token is  *)
(* fetched; either may fail.                                               *)
BeginRun(c) ==
    /\ pc[c] = "run"
    /\ \/ /\ Rejected(c) \/ Live(Provider(c))
          /\ Goto(c, "failed") /\ UNCHANGED <<local, summary, outcome>>
       \/ /\ ~Rejected(c) /\ ~Live(Provider(c))
          /\ Succeed(c, "dry_run")
       \/ /\ ~Rejected(c) /\ Live(Provider(c))
          /\ Goto(c, "attempt")
          /\ local' = [local EXCEPT ![c].unit = 1, ![c].attempts = 0,
                                    ![c].lastErr = FALSE]
          /\ UNCHANGED <<summary, outcome>>
    /\ UNCHANGED <<setup, jobs, audit, unstored, received, mine, cancelled>>

\* Mutant of Counted: an attempt that failed in transport is not counted.
NotCounted(c) == local[c].attempts

Counted(c) == local[c].attempts + 1

Send(c) == received' = received \cup
    {[by |-> c, provider |-> Provider(c), action |-> Event(c).action,
      urls |-> Units(c)[local[c].unit]]}

\* Mutant of LastError: a request that failed in transport leaves no error.
NoLastError(ok) == FALSE

LastError(ok) == ~ok

(* One turn of the retry loop: a request is executed and acknowledged,     *)
(* executed without acknowledgement, or not executed.                      *)
Attempt(c) ==
    /\ pc[c] = "attempt"
    /\ local[c].unit \in DOMAIN Units(c) /\ local[c].attempts < MaxRetries
    /\ \E ok \in BOOLEAN :
         /\ ok => c \notin cancelled
         /\ \/ Send(c)
            \/ ~ok /\ UNCHANGED received
         /\ local' = [local EXCEPT ![c].attempts = Counted(c), ![c].lastErr = LastError(ok),
                                   ![c].unit = IF ok THEN @ + 1 ELSE @]
    /\ UNCHANGED <<setup, storeVars, pc, summary, mine, cancelled>>

(* The attempts are used up, or every unit was sent.  The budget is shared *)
(* by all units: those after the one that used it up are passed over.      *)
EndRun(c) ==
    /\ pc[c] = "attempt"
    /\ local[c].unit \notin DOMAIN Units(c) \/ local[c].attempts >= MaxRetries
    /\ IF local[c].lastErr THEN Goto(c, "failed") /\ UNCHANGED <<local, summary, outcome>>
       ELSE Succeed(c, "ok")
    /\ UNCHANGED <<setup, jobs, audit, unstored, received, mine, cancelled>>

\* Mutant of CountFailure: a failed run does not reach the summary.
FailureIsDropped(c) == UNCHANGED summary

CountFailure(c) == summary' = [summary EXCEPT ![c].failed = @ + 1]

\* The insert may fail, and does when the call is cancelled.
RecordAudit(c) ==
    \/ c \notin cancelled /\ audit' = audit \cup {[by |-> c, provider |-> Provider(c)]}
    \/ UNCHANGED audit

(* Process counts the failure and audits it; the job is left as it is.     *)
RecordFailure(c) ==
    /\ pc[c] = "failed"
    /\ CountFailure(c)
    /\ Settle(c, "failed")
    /\ RecordAudit(c)
    /\ NextProvider(c)
    /\ UNCHANGED <<setup, jobs, unstored, received, mine, cancelled>>

-----------------------------------------------------------------------------
(* The client goes away, or its deadline passes.                           *)
Cancel(c) ==
    /\ pc[c] \notin {"done", "lost"} /\ c \notin cancelled
    /\ cancelled' = cancelled \cup {c}
    /\ UNCHANGED <<setup, storeVars, received, callVars>>

(* The process dies and is started again on the same database.             *)
Crash ==
    /\ \E c \in Callers : pc[c] \notin {"idle", "done", "lost"}
    /\ pc' = [c \in Callers |-> IF pc[c] \in {"idle", "done"} THEN pc[c] ELSE "lost"]
    /\ UNCHANGED <<setup, storeVars, received, local, summary, mine, cancelled>>

Step(c) == \/ StartProcess(c) \/ StartRetry(c) \/ BeginEvent(c) \/ Finish(c)
           \/ EnqueueJob(c) \/ BeginRun(c) \/ Attempt(c) \/ EndRun(c)
           \/ RecordFailure(c)

Quiet == (\A c \in Callers : pc[c] \in {"done", "lost"}) /\ UNCHANGED vars

Next == (\E c \in Callers : Step(c) \/ Cancel(c)) \/ Crash \/ Quiet

Spec == Init /\ [][Next]_vars

(* Goroutines run; the HTTP clients have a timeout, so requests return.    *)
FairSpec == Spec /\ \A c \in Callers : WF_vars(Step(c))

-----------------------------------------------------------------------------
(* Properties *)

(* Types of the variables; a run never exceeds its attempts (maxRetries).  *)
TypeOK ==
    /\ setup \in Setups
    /\ \A i \in DOMAIN jobs : jobs[i].provider \in ToSet(Providers)
                              /\ jobs[i].status \in {"pending", "failed"}
    /\ outcome \in Seq({"none", "ok", "dry_run", "failed"}) /\ Len(outcome) = Len(jobs)
    /\ \A d \in received : d.by \in Callers /\ d.provider \in ToSet(Providers)
    /\ \A a \in audit : a.by \in Callers /\ a.provider \in ToSet(Providers)
    /\ pc \in [Callers -> PCs]
    /\ \A c \in Callers :
         /\ local[c].at \in 1..Len(Providers)
         /\ local[c].attempts \in 0..MaxRetries
         /\ mine[c] \in 0..Len(jobs)
         /\ summary[c].failed \in 0..Len(Providers)
    /\ cancelled \subseteq Callers

\* What the store knows of a request an endpoint has executed.
Recorded(d) == \E i \in DOMAIN jobs : /\ jobs[i].provider = d.provider
                                      /\ jobs[i].action = d.action
                                      /\ d.urls \subseteq ToSet(jobs[i].urls)

(* Process: the job is in the store before its provider is contacted, so   *)
(* whatever an endpoint executed can be found there after a crash or a     *)
(* cancelled call, unless that insert failed.                              *)
ContactIsRecorded ==
    \A d \in received : Recorded(d) \/ <<d.by, d.provider>> \in unstored

Settled(c) == pc[c] = "done" /\ Calls[c].tool # "retry_hook_jobs"

Delivered(c, p) == UNION {d.urls : d \in {x \in received : x.by = c /\ x.provider = p}}

(* The clients' "ok": every URL of the event has reached the endpoint, for *)
(* a provider that sends them in one request and for a single URL.         *)
BatchOkMeansDelivered ==
    \A c \in Callers, p \in ToSet(Providers) :
        /\ Settled(c) /\ summary[c].result[p] = "ok"
        /\ p \in Batch \/ DOMAIN Dedupe(Calls[c].urls) = {1}
        => ToSet(Dedupe(Calls[c].urls)) \subseteq Delivered(c, p)

(* Process: in the summary of a finished call the failed jobs are exactly  *)
(* the providers without a result, and only those are audited.             *)
FailuresAreAccounted ==
    \A c \in Callers : Settled(c) /\ PostBuildHooksEnabled /\ ~Skipped(c) =>
        /\ summary[c].failed
             = Cardinality({p \in ToSet(Providers) : summary[c].result[p] = "none"})
        /\ \A a \in audit : a.by = c => summary[c].result[a.provider] = "none"

(* run_post_build_hooks, retry_hook_jobs, the mutation tools: every call   *)
(* ends, whatever the endpoints do, unless the process dies first.         *)
EveryCallEnds == \A c \in Callers : pc[c] # "idle" ~> pc[c] \in {"done", "lost"}

(* What the documents say and the code does not do.                        *)

(* POST_BUILD_HOOKS.md:8, "notify Google Indexing": a call that reports    *)
(* "ok" has notified it of every URL, however many there are.              *)
OkMeansDelivered ==
    \A c \in Callers, p \in ToSet(Providers) :
        Settled(c) /\ summary[c].result[p] = "ok" =>
            ToSet(Dedupe(Calls[c].urls)) \subseteq Delivered(c, p)

(* hooks_admin.go:82, "Retry failed hook jobs.": a job whose run           *)
(* has failed is listed as failed, which is what retry_hook_jobs picks.    *)
FailedRunIsListed ==
    (\A c \in Callers : pc[c] \in {"idle", "done", "lost"}) =>
        \A i \in DOMAIN jobs : outcome[i] = "failed" => jobs[i].status = "failed"
=============================================================================
