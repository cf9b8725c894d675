------------------------- MODULE HookPipelineProofs -------------------------
(* Proofs about HookPipeline, for any number of callers and providers, any  *)
(* configuration, and any failures, cancellations and crash.               *)
EXTENDS HookPipeline, FiniteSetTheorems, SequenceTheorems, TLAPS

Most == Len(Providers)
Busy == {"enqueue", "run", "attempt", "failed"}

Row(j) == [provider |-> j.provider, action |-> j.action, urls |-> j.urls,
           status |-> j.status]

Types ==
    /\ setup \in Setups
    /\ \E R : jobs \in Seq(R)
    /\ \A i \in 1..Len(jobs) : /\ jobs[i] = Row(jobs[i])
                               /\ jobs[i].provider \in ToSet(Providers)
                               /\ jobs[i].status \in {"pending", "failed"}
    /\ outcome \in Seq({"none", "ok", "dry_run", "failed"}) /\ Len(outcome) = Len(jobs)
    /\ \A d \in received : d.by \in Callers /\ d.provider \in ToSet(Providers)
    /\ \A a \in audit : a.by \in Callers /\ a.provider \in ToSet(Providers)
    /\ pc \in [Callers -> PCs]
    /\ local = [c \in Callers |-> local[c]]
    /\ summary \in [Callers -> [result : [ToSet(Providers) -> Results], failed : Nat]]
    /\ mine \in [Callers -> Nat]
    /\ cancelled \subseteq Callers

(* A call counts one failure at most for each provider it has passed.       *)
Own(c) ==
    /\ local[c] = [todo |-> local[c].todo, at |-> local[c].at, unit |-> local[c].unit,
                   attempts |-> local[c].attempts, lastErr |-> local[c].lastErr]
    /\ local[c].at \in 1..Most /\ local[c].attempts \in 0..MaxRetries
    /\ mine[c] <= Len(jobs)
    /\ pc[c] \in {"idle", "event"} => local[c].at = 1
    /\ summary[c].failed <= IF pc[c] \in Busy THEN local[c].at - 1 ELSE Most

(* Before its provider is contacted a call's job is in the store, or the    *)
(* insert has failed.                                                      *)
Stored(c) ==
    /\ pc[c] \in {"run", "attempt"} =>
         IF mine[c] = 0 THEN Urls(c) = <<>> \/ <<c, Provider(c)>> \in unstored
         ELSE /\ jobs[mine[c]].provider = Provider(c)
              /\ jobs[mine[c]].action = Event(c).action
              /\ jobs[mine[c]].urls = Urls(c)
    /\ pc[c] = "attempt" => Urls(c) # <<>>

(* The failures among the first k providers.                                *)
Upto(k)       == {Providers[i] : i \in 1..k}
Missing(c, k) == {p \in Upto(k) : summary[c].result[p] = "none"}

Passed(c, k) ==
    /\ \A i \in 1..Most : i > k => summary[c].result[Providers[i]] = "none"
    /\ IsFiniteSet(Missing(c, k)) /\ Cardinality(Missing(c, k)) = summary[c].failed
    /\ \A a \in audit : a.by = c => a.provider \in Missing(c, k)

Accounted(c) ==
    Calls[c].tool # "retry_hook_jobs" =>
        /\ pc[c] = "idle" => \A a \in audit : a.by # c
        /\ pc[c] = "event" /\ local[c].todo # <<>> =>
             (\A a \in audit : a.by # c) /\ Tail(local[c].todo) = <<>>
        /\ pc[c] \in Busy =>
             /\ Tail(local[c].todo) = <<>>
             /\ PostBuildHooksEnabled => Passed(c, local[c].at - 1)
        /\ (pc[c] = "event" /\ local[c].todo = <<>>) \/ pc[c] = "done" =>
             (PostBuildHooksEnabled /\ ~Skipped(c) => Passed(c, Most))

Inv == /\ Types /\ ContactIsRecorded
       /\ \A c \in Callers : Own(c) /\ Stored(c) /\ Accounted(c)

-----------------------------------------------------------------------------
LEMMA ProviderFacts ==
    /\ Most \in Nat \ {0} /\ DOMAIN Providers = 1..Most
    /\ ToSet(Providers) = Upto(Most)
    /\ \A i \in 1..Most : Providers[i] \in ToSet(Providers)
    /\ \A i, j \in 1..Most : Providers[i] = Providers[j] => i = j
<1>1. Providers \in Seq(STRING) /\ Providers # <<>> /\ IsInjective(Providers)
    BY HookAssumption
<1>2. Most \in Nat \ {0} /\ DOMAIN Providers = 1..Most
    BY <1>1 DEF Most
<1>. QED
    BY <1>1, <1>2 DEF ToSet, Upto, IsInjective

LEMMA SetupFacts ==
    ASSUME setup \in Setups
    PROVE  /\ MaxRetries = HooksMaxRetries /\ MaxRetries \in Nat \ {0}
           /\ \A c \in Callers : Calls[c].tool \in Tools
<1>1. setup \in SetupOf({setup.calls}) /\ \A c \in Callers : setup.calls[c].tool \in Tools
    BY HookAssumption
<1>2. HooksMaxRetries \in Nat \ {0}
    BY <1>1 DEF SetupOf, HooksMaxRetries
<1>. QED
    BY <1>1, <1>2 DEF MaxRetries, Calls

LEMMA JobsAreRows == ASSUME Types PROVE Len(jobs) \in Nat /\ DOMAIN jobs = 1..Len(jobs)
BY DEF Types

LEMMA FunctionIsSeq ==
    ASSUME NEW n \in Nat, NEW S, NEW t \in [1..n -> S]
    PROVE  t \in Seq(S) /\ Len(t) = n
<1>1. t \in Seq(S)
    OBVIOUS
<1>. QED
    BY <1>1, LenProperties

LEMMA InvInit == Init => Inv
<1> SUFFICES ASSUME Init PROVE Inv
    OBVIOUS
<1> USE DEF Init
<1>1. jobs = <<>> /\ Len(jobs) = 0 /\ jobs \in Seq({})
      /\ outcome \in Seq({"none", "ok", "dry_run", "failed"}) /\ Len(outcome) = 0
    OBVIOUS
<1>2. Types
    BY <1>1 DEF Types, NoResult, Results, PCs
<1>3. ASSUME NEW c \in Callers PROVE Own(c)
    BY <1>1, ProviderFacts, SetupFacts DEF Own, NoResult, Unset, Busy
<1>4. ASSUME NEW c \in Callers PROVE Stored(c) /\ Accounted(c)
    BY DEF Stored, Accounted, Busy
<1>. QED
    BY <1>2, <1>3, <1>4 DEF Inv, ContactIsRecorded

-----------------------------------------------------------------------------
(* Rows are added, and only their status changes.                           *)
RowsStay ==
    /\ Len(jobs') \in Nat /\ Len(jobs) <= Len(jobs')
    /\ \A i \in 1..Len(jobs) : /\ jobs'[i].provider = jobs[i].provider
                               /\ jobs'[i].action = jobs[i].action
                               /\ jobs'[i].urls = jobs[i].urls

OthersStay(c) ==
    \A d \in Callers \ {c} : /\ pc'[d] = pc[d] /\ local'[d] = local[d]
                             /\ summary'[d] = summary[d] /\ mine'[d] = mine[d]

LEMMA Others ==
    ASSUME Inv, NEW c \in Callers, setup' = setup, RowsStay, OthersStay(c),
           unstored \subseteq unstored', \A a \in audit' \ audit : a.by = c,
           audit \subseteq audit', NEW d \in Callers \ {c}
    PROVE  Own(d)' /\ Stored(d)' /\ Accounted(d)'
<1>1. /\ Types /\ Own(d) /\ Stored(d) /\ Accounted(d) /\ mine[d] \in Nat
      /\ pc'[d] = pc[d] /\ local'[d] = local[d] /\ summary'[d] = summary[d]
      /\ mine'[d] = mine[d]
    BY DEF Inv, Types, OthersStay
<1>2. Own(d)'
    BY <1>1 DEF Own, RowsStay, MaxRetries, HooksMaxRetries, Types
<1>3. Event(d)' = Event(d) /\ Urls(d)' = Urls(d) /\ Provider(d)' = Provider(d)
    BY <1>1 DEF Event, Urls, Provider
<1>4. Stored(d)'
    BY <1>1, <1>3 DEF Stored, Own, RowsStay
<1>5. Accounted(d)'
  <2>1. \A k : Passed(d, k) => Passed(d, k)'
    <3> SUFFICES ASSUME NEW k, Passed(d, k) PROVE Passed(d, k)'
        OBVIOUS
    <3>1. Missing(d, k)' = Missing(d, k)
        BY <1>1 DEF Missing
    <3>. QED
        BY <1>1, <3>1 DEF Passed
  <2>2. Skipped(d)' = Skipped(d) /\ PostBuildHooksEnabled' = PostBuildHooksEnabled
        /\ Calls' = Calls
      BY DEF Skipped, PostBuildHooksEnabled, Calls
  <2>3. (\A a \in audit : a.by # d) => \A a \in audit' : a.by # d
      OBVIOUS
  <2>4. Passed(d, local[d].at - 1) => Passed(d, local[d].at - 1)'
    <3>1. Missing(d, local[d].at - 1)' = Missing(d, local[d].at - 1)
        BY <1>1 DEF Missing, Upto
    <3>. QED
        BY <1>1, <3>1 DEF Passed
  <2>5. Passed(d, Most) => Passed(d, Most)'
      BY <2>1 DEF Most
  <2>. QED
      BY <1>1, <2>2, <2>3, <2>4, <2>5 DEF Accounted
<1>. QED
    BY <1>2, <1>4, <1>5

(* Whatever was recorded stays recorded.                                    *)
LEMMA StaysRecorded ==
    ASSUME Inv, RowsStay, unstored \subseteq unstored', received' = received,
           DOMAIN jobs' = 1..Len(jobs')
    PROVE  ContactIsRecorded'
<1> SUFFICES ASSUME NEW d \in received, Recorded(d)
             PROVE  Recorded(d)'
    BY DEF Inv, ContactIsRecorded
<1>1. DOMAIN jobs = 1..Len(jobs) /\ Len(jobs) \in Nat
    BY JobsAreRows DEF Inv
<1>. QED
    BY <1>1 DEF Recorded, RowsStay

(* The step of one call that sends nothing.                                 *)
LEMMA Moved ==
    ASSUME Inv, NEW c \in Callers, setup' = setup, RowsStay, OthersStay(c),
           unstored \subseteq unstored', \A a \in audit' \ audit : a.by = c,
           audit \subseteq audit', received' = received,
           Types', Own(c)', Stored(c)', Accounted(c)'
    PROVE  Inv'
<1>1. \A d \in Callers \ {c} : Own(d)' /\ Stored(d)' /\ Accounted(d)'
    BY Others
<1>2. ContactIsRecorded'
  <2>1. DOMAIN jobs' = 1..Len(jobs')
      BY DEF Types
  <2>. QED
      BY <2>1, StaysRecorded
<1>. QED
    BY <1>1, <1>2 DEF Inv

LEMMA RowsUnchanged == ASSUME Inv, UNCHANGED jobs PROVE RowsStay
BY DEF Inv, Types, RowsStay

(* What a call puts into its local variables.                               *)
NewLocal(c, r) == /\ local' = [d \in Callers |-> local'[d]]
                  /\ local'[c] = r
                  /\ \A d \in Callers \ {c} : local'[d] = local[d]

LEMMA TodoOnly ==
    ASSUME Types, NEW c \in Callers, Own(c), NEW todo,
           local' = [local EXCEPT ![c].todo = todo]
    PROVE  NewLocal(c, [todo |-> todo, at |-> local[c].at, unit |-> local[c].unit,
                        attempts |-> local[c].attempts, lastErr |-> local[c].lastErr])
BY DEF Types, Own, NewLocal

LEMMA StartStep ==
    ASSUME Inv, NEW c \in Callers, StartProcess(c) \/ StartRetry(c)
    PROVE  Inv'
<1>1. /\ Types /\ Own(c) /\ Accounted(c) /\ pc[c] = "idle" /\ Calls' = Calls
      /\ UNCHANGED <<setup, jobs, audit, outcome, unstored>>
      /\ UNCHANGED <<received, summary, mine, cancelled>>
    BY DEF Inv, StartProcess, StartRetry, storeVars, Calls
<1>2. /\ pc' \in [Callers -> PCs] /\ pc'[c] \in {"event", "done"}
      /\ \A d \in Callers \ {c} : pc'[d] = pc[d]
      /\ pc'[c] = "done" => Calls[c].tool = "retry_hook_jobs"
    BY <1>1 DEF StartProcess, StartRetry, Goto, Types, PCs
<1>3. PICK todo : NewLocal(c, [todo |-> todo, at |-> local[c].at, unit |-> local[c].unit,
                               attempts |-> local[c].attempts, lastErr |-> local[c].lastErr])
  <2>1. CASE local' = local
      BY <1>1, <2>1 DEF Types, Own, NewLocal
  <2>2. ASSUME NEW todo, local' = [local EXCEPT ![c].todo = todo]
        PROVE  \E t : NewLocal(c, [todo |-> t, at |-> local[c].at, unit |-> local[c].unit,
                                   attempts |-> local[c].attempts, lastErr |-> local[c].lastErr])
      BY <1>1, <2>2, TodoOnly
  <2>. QED
      BY <2>1, <2>2 DEF StartProcess, StartRetry
<1>4. Calls[c].tool # "retry_hook_jobs" =>
          IF Skipped(c) THEN local'[c].todo = <<>>
          ELSE local'[c].todo # <<>> /\ Tail(local'[c].todo) = <<>>
  <2> SUFFICES ASSUME StartProcess(c)
               PROVE  IF Skipped(c) THEN local'[c].todo = <<>>
                      ELSE local'[c].todo # <<>> /\ Tail(local'[c].todo) = <<>>
      BY DEF StartRetry
  <2> DEFINE e == [id |-> 0, action |-> Calls[c].action, urls |-> Calls[c].urls]
  <2>1. local' = [local EXCEPT ![c].todo = IF Skipped(c) THEN <<>> ELSE <<e>>]
      BY DEF StartProcess
  <2>. HIDE DEF e
  <2>2. local'[c].todo = IF Skipped(c) THEN <<>> ELSE <<e>>
      BY <1>1, <2>1 DEF Types, Own
  <2>3. <<e>> # <<>> /\ Tail(<<e>>) = <<>>
      OBVIOUS
  <2>. QED
      BY <2>2, <2>3
<1>5. Types' /\ OthersStay(c)
    BY <1>1, <1>2, <1>3 DEF Types, NewLocal, OthersStay
<1>6. Own(c)'
    BY <1>1, <1>2, <1>3, SetupFacts, ProviderFacts
    DEF Own, NewLocal, Types, Busy, MaxRetries, HooksMaxRetries
<1>7. Stored(c)'
    BY <1>2 DEF Stored
<1>8. Accounted(c)'
  <2>1. Skipped(c)' = Skipped(c)
      BY <1>1 DEF Skipped
  <2>2. Calls[c].tool # "retry_hook_jobs" => \A a \in audit : a.by # c
      BY <1>1 DEF Accounted
  <2>. QED
      BY <1>1, <1>2, <1>4, <2>1, <2>2 DEF Accounted, Busy
<1>. QED
    BY <1>1, <1>5, <1>6, <1>7, <1>8, RowsUnchanged, Moved

(* No row is added, and only the status of rows may change.                 *)
RowsKept ==
    /\ Len(jobs') = Len(jobs) /\ \E R : jobs' \in Seq(R)
    /\ \A i \in 1..Len(jobs) : /\ jobs'[i] = Row(jobs'[i])
                               /\ jobs'[i].provider = jobs[i].provider
                               /\ jobs'[i].action = jobs[i].action
                               /\ jobs'[i].urls = jobs[i].urls
                               /\ jobs'[i].status \in {"pending", "failed"}

LEMMA StatusOnly ==
    ASSUME Types, NEW id, jobs' = [jobs EXCEPT ![id].status = "pending"]
    PROVE  RowsKept
<1> DEFINE x == [jobs[id] EXCEPT !.status = "pending"]
<1>1. PICK R : jobs \in Seq(R) /\ x \in R
  <2>1. PICK Q : jobs \in Seq(Q)
      BY DEF Types
  <2>2. jobs \in Seq(Q \cup {x})
      BY <2>1
  <2>. QED
      BY <2>2
<1>2. /\ Len(jobs') = Len(jobs) /\ \E S : jobs' \in Seq(S)
      /\ \A i \in 1..Len(jobs) : jobs'[i] = IF i = id THEN x ELSE jobs[i]
  <2>1. jobs' = [jobs EXCEPT ![id] = x]
      OBVIOUS
  <2>. HIDE DEF x
  <2>2. Len(jobs) \in Nat /\ jobs \in [1..Len(jobs) -> R]
      BY <1>1, LenProperties
  <2>3. /\ jobs' \in [1..Len(jobs) -> R]
        /\ \A i \in 1..Len(jobs) : jobs'[i] = IF i = id THEN x ELSE jobs[i]
      BY <1>1, <2>1, <2>2
  <2>4. jobs' \in Seq(R) /\ Len(jobs') = Len(jobs)
      BY <2>2, <2>3, FunctionIsSeq
  <2>. QED
      BY <2>3, <2>4
<1>3. ASSUME NEW i \in 1..Len(jobs)
      PROVE  /\ jobs'[i] = Row(jobs'[i])
             /\ jobs'[i].provider = jobs[i].provider
             /\ jobs'[i].action = jobs[i].action
             /\ jobs'[i].urls = jobs[i].urls
             /\ jobs'[i].status \in {"pending", "failed"}
  <2>1. jobs[i] = Row(jobs[i]) /\ jobs[i].status \in {"pending", "failed"}
      BY DEF Types
  <2>2. CASE i = id
      BY <1>2, <2>1, <2>2 DEF Row, x
  <2>3. CASE i # id
      BY <1>2, <2>1, <2>3
  <2>. QED
      BY <2>2, <2>3
<1>. QED
    BY <1>2, <1>3 DEF RowsKept

LEMMA BeginEventStep == ASSUME Inv, NEW c \in Callers, BeginEvent(c) PROVE Inv'
<1>1. /\ Types /\ Own(c) /\ Accounted(c) /\ pc[c] = "event" /\ local[c].todo # <<>>
      /\ UNCHANGED <<setup, audit, outcome, unstored>>
      /\ UNCHANGED <<received, local, mine, cancelled>> /\ Calls' = Calls
      /\ summary' = [summary EXCEPT ![c] = NoResult]
    BY DEF Inv, BeginEvent, Calls
<1>2. /\ pc' \in [Callers -> PCs] /\ pc'[c] = "enqueue"
      /\ \A d \in Callers \ {c} : pc'[d] = pc[d] /\ summary'[d] = summary[d]
      /\ summary'[c] = NoResult
      /\ summary' \in [Callers -> [result : [ToSet(Providers) -> Results], failed : Nat]]
    BY <1>1 DEF BeginEvent, Goto, Types, PCs, NoResult, Results
<1>3. RowsKept
  <2>1. CASE jobs' = jobs
      BY <1>1, <2>1 DEF Types, RowsKept
  <2>2. ASSUME NEW id, jobs' = [jobs EXCEPT ![id].status = "pending"] PROVE RowsKept
      BY <1>1, <2>2, StatusOnly
  <2>. QED
      BY <2>1, <2>2 DEF BeginEvent, SetJobStatus
<1>4. Types' /\ OthersStay(c) /\ RowsStay
  <2>1. RowsStay
      BY <1>1, <1>3, JobsAreRows DEF RowsStay, RowsKept
  <2>2. \A i \in 1..Len(jobs') : /\ jobs'[i] = Row(jobs'[i])
                                 /\ jobs'[i].provider \in ToSet(Providers)
                                 /\ jobs'[i].status \in {"pending", "failed"}
      BY <1>1, <1>3 DEF Types, RowsKept
  <2>3. Types'
      BY <1>1, <1>2, <1>3, <2>2 DEF Types, RowsKept, Row
  <2>4. OthersStay(c)
      BY <1>1, <1>2 DEF OthersStay
  <2>. QED
      BY <2>1, <2>3, <2>4
<1>5. Own(c)'
  <2>1. local[c].at \in 1..Most /\ summary'[c].failed = 0
      BY <1>1, <1>2 DEF Own, NoResult
  <2>. QED
      BY <1>1, <1>2, <1>3, <2>1, ProviderFacts DEF Own, RowsKept, Busy, MaxRetries, HooksMaxRetries
<1>6. Stored(c)'
    BY <1>2 DEF Stored
<1>7. Accounted(c)'
  <2>1. local[c].at - 1 = 0 /\ Upto(0) = {}
      BY <1>1 DEF Own, Upto
  <2>2. ASSUME Calls[c].tool # "retry_hook_jobs" PROVE Passed(c, 0)'
    <3>1. \A a \in audit : a.by # c
        BY <1>1, <2>2 DEF Accounted
    <3>2. Missing(c, 0)' = {} /\ \A i \in 1..Most : summary'[c].result[Providers[i]] = "none"
        BY <1>2, <2>1, ProviderFacts DEF Missing, Upto, NoResult
    <3>3. summary'[c].failed = 0
        BY <1>2 DEF NoResult
    <3>. QED
        BY <1>1, <3>1, <3>2, <3>3, FS_EmptySet DEF Passed
  <2>3. Calls[c].tool # "retry_hook_jobs" => Tail(local[c].todo) = <<>>
      BY <1>1 DEF Accounted
  <2>4. (local[c].at - 1)' = 0
      BY <1>1, <2>1
  <2>. QED
      BY <1>1, <1>2, <2>2, <2>3, <2>4 DEF Accounted, Busy
<1>. QED
    BY <1>1, <1>4, <1>5, <1>6, <1>7, Moved

LEMMA FinishStep == ASSUME Inv, NEW c \in Callers, Finish(c) PROVE Inv'
<1>1. /\ Types /\ Own(c) /\ Accounted(c) /\ pc[c] = "event" /\ local[c].todo = <<>>
      /\ UNCHANGED <<setup, jobs, audit, outcome, unstored>>
      /\ UNCHANGED <<received, local, summary, mine, cancelled>>
      /\ pc' \in [Callers -> PCs] /\ pc'[c] = "done"
      /\ \A d \in Callers \ {c} : pc'[d] = pc[d]
    BY DEF Inv, Finish, storeVars, Goto, Types, PCs
<1>2. Types' /\ OthersStay(c)
    BY <1>1 DEF Types, OthersStay
<1>3. Own(c)' /\ Stored(c)'
    BY <1>1 DEF Own, Stored, Busy, MaxRetries, HooksMaxRetries
<1>4. Accounted(c)'
  <2>1. Skipped(c)' = Skipped(c) /\ Calls' = Calls /\ Most' = Most
        /\ PostBuildHooksEnabled' = PostBuildHooksEnabled
      BY <1>1 DEF Skipped, Calls, Most, PostBuildHooksEnabled
  <2>2. Passed(c, Most)' = Passed(c, Most)
      BY <1>1 DEF Passed, Missing, Most
  <2>. QED
      BY <1>1, <2>1, <2>2 DEF Accounted, Busy
<1>. QED
    BY <1>1, <1>2, <1>3, <1>4, RowsUnchanged, Moved

-----------------------------------------------------------------------------
(* The loop over the providers goes on, with this call's variables changed. *)
LEMMA Turn ==
    ASSUME Inv, NEW c \in Callers, NextProvider(c), pc[c] \in Busy, setup' = setup,
           \A d \in Callers \ {c} : summary'[d] = summary[d] /\ mine'[d] = mine[d],
           summary'[c].failed \in Nat, summary'[c].failed <= local[c].at,
           Len(jobs) <= Len(jobs'), Len(jobs') \in Nat,
           mine'[c] \in Nat, mine'[c] <= Len(jobs'),
           NEW k, k = local[c].at,
           Calls[c].tool # "retry_hook_jobs" /\ PostBuildHooksEnabled => Passed(c, k)'
    PROVE  /\ pc' \in [Callers -> PCs] /\ local' = [d \in Callers |-> local'[d]]
           /\ OthersStay(c) /\ Own(c)' /\ Stored(c)' /\ Accounted(c)'
<1>1. Types /\ Own(c) /\ Accounted(c) /\ k \in 1..Most /\ Most \in Nat
    BY ProviderFacts DEF Inv, Own
<1>2. /\ pc' \in [Callers -> PCs] /\ local' = [d \in Callers |-> local'[d]]
      /\ \A d \in Callers \ {c} : pc'[d] = pc[d] /\ local'[d] = local[d]
      /\ pc'[c] = IF k = Most THEN "event" ELSE "enqueue"
      /\ local'[c] = [todo |-> IF k = Most THEN Tail(local[c].todo) ELSE local[c].todo,
                      at |-> IF k = Most THEN 1 ELSE k + 1, unit |-> local[c].unit,
                      attempts |-> local[c].attempts, lastErr |-> local[c].lastErr]
  <2>1. LastProvider(c) <=> k = Most
      BY <1>1 DEF LastProvider, Most
  <2>2. CASE k = Most
    <3>1. /\ pc' = [pc EXCEPT ![c] = "event"]
          /\ local' = [local EXCEPT ![c].at = 1, ![c].todo = Tail(@)]
        BY <2>1, <2>2 DEF NextProvider, Goto
    <3>. QED
        BY <1>1, <2>2, <3>1 DEF Types, Own, PCs
  <2>3. CASE k # Most
    <3>1. /\ pc' = [pc EXCEPT ![c] = "enqueue"]
          /\ local' = [local EXCEPT ![c].at = @ + 1]
        BY <2>1, <2>3 DEF NextProvider, Goto
    <3>. QED
        BY <1>1, <2>3, <3>1 DEF Types, Own, PCs
  <2>. QED
      BY <2>2, <2>3
<1>4. OthersStay(c)
    BY <1>2 DEF OthersStay
<1>5. Own(c)'
  <2>1. pc'[c] \in Busy <=> k # Most
      BY <1>2 DEF Busy
  <2>. QED
      BY <1>1, <1>2, <2>1 DEF Own, MaxRetries, HooksMaxRetries
<1>6. Stored(c)'
    BY <1>2 DEF Stored
<1>7. Accounted(c)'
  <2> SUFFICES ASSUME Calls[c].tool # "retry_hook_jobs" PROVE Accounted(c)'
      BY DEF Accounted, Calls
  <2>1. Tail(local[c].todo) = <<>> /\ PostBuildHooksEnabled' = PostBuildHooksEnabled
        /\ Calls' = Calls
      BY <1>1 DEF Accounted, PostBuildHooksEnabled, Calls
  <2>2. CASE k = Most
    <3>1. pc'[c] = "event" /\ local'[c].todo = <<>>
        BY <1>2, <2>1, <2>2
    <3>2. PostBuildHooksEnabled => Passed(c, Most)'
        BY <2>2 DEF Passed, Missing, Most
    <3>. QED
        BY <2>1, <3>1, <3>2 DEF Accounted, Busy
  <2>3. CASE k # Most
    <3>1. pc'[c] = "enqueue" /\ local'[c].todo = local[c].todo /\ local'[c].at - 1 = k
        BY <1>1, <1>2, <2>3
    <3>2. PostBuildHooksEnabled => Passed(c, local[c].at - 1)'
        BY <3>1 DEF Passed, Missing
    <3>. QED
        BY <2>1, <3>1, <3>2 DEF Accounted, Busy
  <2>. QED
      BY <2>2, <2>3
<1>. QED
    BY <1>2, <1>4, <1>5, <1>6, <1>7

(* The rows of the store, and what is known of how their runs ended.        *)
Rows ==
    /\ \E R : jobs \in Seq(R)
    /\ \A i \in 1..Len(jobs) : /\ jobs[i] = Row(jobs[i])
                               /\ jobs[i].provider \in ToSet(Providers)
                               /\ jobs[i].status \in {"pending", "failed"}
    /\ outcome \in Seq({"none", "ok", "dry_run", "failed"}) /\ Len(outcome) = Len(jobs)

(* The job of the provider a call is at, or why there is none.              *)
Kept(c) ==
    IF mine[c] = 0 THEN Urls(c) = <<>> \/ <<c, Provider(c)>> \in unstored
    ELSE /\ jobs[mine[c]].provider = Provider(c)
         /\ jobs[mine[c]].action = Event(c).action
         /\ jobs[mine[c]].urls = Urls(c)

LEMMA Inserted ==
    ASSUME Types, NEW c \in Callers, Own(c), pc[c] = "enqueue",
           IF Urls(c) # <<>> THEN Insert(c)
           ELSE mine' = [mine EXCEPT ![c] = 0] /\ UNCHANGED <<jobs, outcome, unstored>>
    PROVE  /\ Rows' /\ RowsStay /\ unstored \subseteq unstored'
           /\ mine' \in [Callers -> Nat] /\ mine'[c] <= Len(jobs')
           /\ \A d \in Callers \ {c} : mine'[d] = mine[d]
           /\ local' = local /\ UNCHANGED setup => Kept(c)'
<1>1. Len(jobs) \in Nat /\ Provider(c) \in ToSet(Providers)
    BY ProviderFacts DEF Types, Own, Provider
<1>2. CASE UNCHANGED <<jobs, outcome>> /\ mine' = [mine EXCEPT ![c] = 0]
           /\ unstored \subseteq unstored'
           /\ (Urls(c) = <<>> \/ <<c, Provider(c)>> \in unstored')
  <2>1. Rows' /\ RowsStay
      BY <1>1, <1>2 DEF Types, Rows, RowsStay
  <2>2. mine' \in [Callers -> Nat] /\ mine'[c] = 0
        /\ \A d \in Callers \ {c} : mine'[d] = mine[d]
      BY <1>2 DEF Types
  <2>3. local' = local /\ UNCHANGED setup => Kept(c)'
      BY <1>2, <2>2 DEF Kept, Urls, Event, Provider
  <2>. QED
      BY <1>1, <1>2, <2>1, <2>2, <2>3
<1>3. CASE /\ jobs' = Append(jobs, Job(c)) /\ outcome' = Append(outcome, "none")
           /\ mine' = [mine EXCEPT ![c] = Len(jobs) + 1]
           /\ UNCHANGED unstored
  <2>1. /\ \E Q : jobs' \in Seq(Q)
        /\ Len(jobs') = Len(jobs) + 1
        /\ \A i \in 1..Len(jobs) : jobs'[i] = jobs[i]
        /\ jobs'[Len(jobs) + 1] = Job(c)
    <3>1. PICK R : jobs \in Seq(R) /\ Job(c) \in R
      <4>1. PICK Q : jobs \in Seq(Q)
          BY DEF Types
      <4>2. jobs \in Seq(Q \cup {Job(c)})
          BY <4>1
      <4>. QED
          BY <4>2
    <3>2. jobs' = Append(jobs, Job(c))
        BY <1>3
    <3>3. jobs' \in Seq(R) /\ Len(jobs') = Len(jobs) + 1 /\ jobs'[Len(jobs) + 1] = Job(c)
          /\ \A i \in 1..Len(jobs) : jobs'[i] = jobs[i]
        BY <1>1, <3>1, <3>2
    <3>. QED
        BY <3>3
  <2>2. outcome' \in Seq({"none", "ok", "dry_run", "failed"}) /\ Len(outcome') = Len(jobs')
      BY <1>3, <2>1 DEF Types
  <2>3. Job(c) = Row(Job(c)) /\ Job(c).provider = Provider(c) /\ Job(c).status = "pending"
        /\ Job(c).action = Event(c).action /\ Job(c).urls = Urls(c)
      BY DEF Job, Row
  <2>4. ASSUME NEW i \in 1..Len(jobs')
        PROVE  /\ jobs'[i] = Row(jobs'[i])
               /\ jobs'[i].provider \in ToSet(Providers)
               /\ jobs'[i].status \in {"pending", "failed"}
    <3>1. CASE i = Len(jobs) + 1
        BY <1>1, <2>1, <2>3, <3>1
    <3>2. CASE i # Len(jobs) + 1
      <4>1. i \in 1..Len(jobs)
          BY <1>1, <2>1, <3>2
      <4>. QED
          BY <2>1, <4>1 DEF Types
    <3>. QED
        BY <3>1, <3>2
  <2>5. Rows'
      BY <2>1, <2>2, <2>4 DEF Rows, Row
  <2>6. RowsStay
      BY <1>1, <2>1 DEF RowsStay
  <2>7. mine' \in [Callers -> Nat] /\ mine'[c] = Len(jobs) + 1
        /\ \A d \in Callers \ {c} : mine'[d] = mine[d]
      BY <1>1, <1>3 DEF Types
  <2>8. ASSUME local' = local, UNCHANGED setup PROVE Kept(c)'
    <3>1. Urls(c)' = Urls(c) /\ Event(c)' = Event(c) /\ Provider(c)' = Provider(c)
        BY <2>8 DEF Urls, Event, Provider
    <3>. QED
        BY <1>1, <2>1, <2>3, <2>7, <3>1 DEF Kept
  <2>. QED
      BY <1>1, <1>3, <2>1, <2>5, <2>6, <2>7, <2>8
<1>. QED
    BY <1>2, <1>3 DEF Insert

LEMMA EnqueueJobStep == ASSUME Inv, NEW c \in Callers, EnqueueJob(c) PROVE Inv'
<1>1. /\ Types /\ Own(c) /\ Accounted(c) /\ pc[c] = "enqueue" /\ pc[c] \in Busy
      /\ UNCHANGED <<setup, audit, received, summary, cancelled>> /\ Calls' = Calls
    BY DEF Inv, EnqueueJob, Calls, Busy
<1>2. /\ Rows' /\ RowsStay /\ unstored \subseteq unstored'
      /\ mine' \in [Callers -> Nat] /\ mine'[c] <= Len(jobs')
      /\ \A d \in Callers \ {c} : mine'[d] = mine[d]
      /\ local' = local /\ UNCHANGED setup => Kept(c)'
  <2>1. IF Urls(c) # <<>> THEN Insert(c)
        ELSE mine' = [mine EXCEPT ![c] = 0] /\ UNCHANGED <<jobs, outcome, unstored>>
      BY DEF EnqueueJob
  <2>. QED
      BY <1>1, <2>1, Inserted
<1>3. /\ pc' \in [Callers -> PCs] /\ local' = [d \in Callers |-> local'[d]]
      /\ OthersStay(c) /\ Own(c)' /\ Stored(c)' /\ Accounted(c)'
  <2>1. CASE PostBuildHooksEnabled
    <3>1. /\ pc' \in [Callers -> PCs] /\ pc'[c] = "run" /\ local' = local
          /\ \A d \in Callers \ {c} : pc'[d] = pc[d]
        BY <1>1, <2>1 DEF EnqueueJob, Goto, Types, PCs
    <3>2. OthersStay(c) /\ local' = [d \in Callers |-> local'[d]]
        BY <1>1, <1>2, <3>1 DEF OthersStay, Types
    <3>3. Own(c)'
        BY <1>1, <1>2, <3>1 DEF Own, Busy, MaxRetries, HooksMaxRetries
    <3>4. Stored(c)'
        BY <1>1, <1>2, <3>1 DEF Stored, Kept
    <3>5. Accounted(c)'
      <4>1. Passed(c, local[c].at - 1) => Passed(c, local[c].at - 1)'
          BY <1>1, <3>1 DEF Passed, Missing
      <4>. QED
          BY <1>1, <3>1, <4>1, <2>1 DEF Accounted, Busy, PostBuildHooksEnabled
    <3>. QED
        BY <3>1, <3>2, <3>3, <3>4, <3>5
  <2>2. CASE ~PostBuildHooksEnabled
    <3>1. NextProvider(c)
        BY <2>2 DEF EnqueueJob
    <3>2. summary'[c].failed \in Nat /\ summary'[c].failed <= local[c].at
        BY <1>1, ProviderFacts DEF Types, Own
    <3>3. mine'[c] \in Nat /\ Len(jobs) <= Len(jobs') /\ Len(jobs') \in Nat
        BY <1>2 DEF RowsStay
    <3>4. setup' = setup
          /\ \A d \in Callers \ {c} : summary'[d] = summary[d] /\ mine'[d] = mine[d]
        BY <1>1, <1>2
    <3>. QED
        BY <1>1, <1>2, <2>2, <3>1, <3>2, <3>3, <3>4, Turn
  <2>. QED
      BY <2>1, <2>2
<1>4. Types'
    BY <1>1, <1>2, <1>3 DEF Types, Rows
<1>. QED
    BY <1>1, <1>2, <1>3, <1>4, Moved

-----------------------------------------------------------------------------
(* A provider that gave a result is not missing, one that failed is.        *)
LEMMA PassOk ==
    ASSUME Types, NEW c \in Callers, NEW k \in 1..Most, Passed(c, k - 1),
           UNCHANGED audit, summary'[c].failed = summary[c].failed,
           summary'[c].result[Providers[k]] # "none",
           \A p \in ToSet(Providers) \ {Providers[k]} :
               summary'[c].result[p] = summary[c].result[p]
    PROVE  Passed(c, k)'
<1>1. /\ Providers[k] \in ToSet(Providers) /\ Most \in Nat
      /\ \A i \in 1..Most : Providers[i] \in ToSet(Providers)
                           /\ (Providers[i] = Providers[k] => i = k)
    BY ProviderFacts
<1>2. Missing(c, k)' = Missing(c, k - 1)
    BY <1>1 DEF Missing, Upto, Passed
<1>3. \A i \in 1..Most : i > k => summary'[c].result[Providers[i]] = "none"
    BY <1>1 DEF Passed
<1>. QED
    BY <1>2, <1>3 DEF Passed

LEMMA PassFail ==
    ASSUME Types, NEW c \in Callers, NEW k \in 1..Most, Passed(c, k - 1),
           audit' \subseteq audit \cup {[by |-> c, provider |-> Providers[k]]},
           summary' = [summary EXCEPT ![c].failed = @ + 1]
    PROVE  Passed(c, k)'
<1>1. Most \in Nat /\ \A i \in 1..Most : Providers[i] = Providers[k] => i = k
    BY ProviderFacts
<1>2. summary'[c].failed = summary[c].failed + 1 /\ summary'[c].result = summary[c].result
    BY DEF Types
<1>3. Missing(c, k)' = Missing(c, k - 1) \cup {Providers[k]}
  <2>1. summary[c].result[Providers[k]] = "none"
      BY <1>1 DEF Passed
  <2>2. Upto(k) = Upto(k - 1) \cup {Providers[k]}
      BY <1>1 DEF Upto
  <2>. QED
      BY <1>2, <2>1, <2>2 DEF Missing
<1>4. Providers[k] \notin Missing(c, k - 1)
    BY <1>1 DEF Missing, Upto
<1>5. /\ IsFiniteSet(Missing(c, k)')
      /\ Cardinality(Missing(c, k)') = Cardinality(Missing(c, k - 1)) + 1
    BY <1>3, <1>4, FS_AddElement DEF Passed
<1>6. \A i \in 1..Most : i > k => summary'[c].result[Providers[i]] = "none"
    BY <1>1, <1>2 DEF Passed
<1>7. \A a \in audit' : a.by = c => a.provider \in Missing(c, k)'
    BY <1>3 DEF Passed
<1>. QED
    BY <1>2, <1>5, <1>6, <1>7 DEF Passed

LEMMA OutcomeTyped ==
    ASSUME Types, NEW c \in Callers, NEW how \in {"ok", "dry_run", "failed"}, Settle(c, how)
    PROVE  /\ outcome' \in Seq({"none", "ok", "dry_run", "failed"})
           /\ Len(outcome') = Len(jobs)
<1>1. outcome' = outcome \/ outcome' = [outcome EXCEPT ![mine[c]] = how]
    BY DEF Settle
<1> DEFINE T == {"none", "ok", "dry_run", "failed"}
<1>2. Len(jobs) \in Nat /\ outcome \in [1..Len(jobs) -> T]
    BY JobsAreRows, LenProperties DEF Types
<1>3. outcome' \in [1..Len(jobs) -> T]
    BY <1>1, <1>2
<1>. HIDE DEF T
<1>4. outcome' \in Seq(T) /\ Len(outcome') = Len(jobs)
    BY <1>2, <1>3, FunctionIsSeq
<1>. QED
    BY <1>4 DEF T

LEMMA SucceedStep ==
    ASSUME Inv, NEW c \in Callers, NEW how \in {"ok", "dry_run"}, Succeed(c, how),
           pc[c] \in Busy,
           UNCHANGED <<setup, jobs, audit, unstored, received, mine, cancelled>>
    PROVE  Inv'
<1> DEFINE k == local[c].at
<1>1. /\ Types /\ Own(c) /\ Accounted(c) /\ k \in 1..Most /\ Provider(c) = Providers[k]
      /\ summary' = [summary EXCEPT ![c].result[Provider(c)] = how]
      /\ NextProvider(c) /\ Settle(c, how)
    BY DEF Inv, Own, Provider, Succeed
<1>2. /\ summary' \in [Callers -> [result : [ToSet(Providers) -> Results], failed : Nat]]
      /\ summary'[c].failed = summary[c].failed
      /\ summary'[c].result = [summary[c].result EXCEPT ![Provider(c)] = how]
      /\ summary[c].result \in [ToSet(Providers) -> Results]
      /\ \A d \in Callers \ {c} : summary'[d] = summary[d]
  <2>1. Provider(c) \in ToSet(Providers) /\ how \in Results
      BY <1>1, ProviderFacts DEF Results
  <2> DEFINE S == [result : [ToSet(Providers) -> Results], failed : Nat]
             r == [summary[c] EXCEPT !.result[Provider(c)] = how]
  <2>2. summary \in [Callers -> S]
      BY <1>1 DEF Types
  <2>3. /\ r \in S /\ r.failed = summary[c].failed
        /\ summary[c].result \in [ToSet(Providers) -> Results]
        /\ r.result = [summary[c].result EXCEPT ![Provider(c)] = how]
      BY <2>1, <2>2
  <2>4. summary' = [summary EXCEPT ![c] = r]
      BY <1>1
  <2>. HIDE DEF S, r
  <2>5. /\ summary' \in [Callers -> S] /\ summary'[c] = r
        /\ \A d \in Callers \ {c} : summary'[d] = summary[d]
      BY <2>2, <2>3, <2>4
  <2>. QED
      BY <2>3, <2>5 DEF S
<1>3. /\ pc' \in [Callers -> PCs] /\ local' = [d \in Callers |-> local'[d]]
      /\ OthersStay(c) /\ Own(c)' /\ Stored(c)' /\ Accounted(c)'
  <2>1. PICK n \in 1..Most : n = k
      BY <1>1
  <2>2. Calls[c].tool # "retry_hook_jobs" /\ PostBuildHooksEnabled => Passed(c, n)'
    <3> SUFFICES ASSUME Calls[c].tool # "retry_hook_jobs", PostBuildHooksEnabled
                 PROVE  Passed(c, n)'
        OBVIOUS
    <3>1. Passed(c, n - 1)
      <4>1. Passed(c, local[c].at - 1)
          BY <1>1 DEF Accounted
      <4>. QED
          BY <2>1, <4>1
    <3>2. /\ summary'[c].result[Providers[n]] # "none"
          /\ \A p \in ToSet(Providers) \ {Providers[n]} :
                 summary'[c].result[p] = summary[c].result[p]
        BY <1>1, <1>2, <2>1, ProviderFacts
    <3>. QED
        BY <1>1, <1>2, <3>1, <3>2, PassOk
  <2>3. summary'[c].failed \in Nat /\ summary'[c].failed <= local[c].at
      BY <1>1, <1>2, ProviderFacts DEF Types, Own
  <2>4. /\ Len(jobs) <= Len(jobs') /\ Len(jobs') \in Nat
        /\ mine'[c] \in Nat /\ mine'[c] <= Len(jobs')
      BY <1>1 DEF Types, Own
  <2>5. setup' = setup
        /\ \A d \in Callers \ {c} : summary'[d] = summary[d] /\ mine'[d] = mine[d]
      BY <1>2
  <2>. QED
      BY <1>1, <2>1, <2>2, <2>3, <2>4, <2>5, Turn
<1>4. Types'
  <2>1. /\ outcome' \in Seq({"none", "ok", "dry_run", "failed"})
        /\ Len(outcome') = Len(jobs)
      BY <1>1, OutcomeTyped
  <2>. QED
      BY <1>1, <1>2, <1>3, <2>1 DEF Types, Row
<1>. QED
    BY <1>3, <1>4, RowsUnchanged, Moved

(* The run of one provider fails, or goes over to its requests.             *)
LEMMA RunStep ==
    ASSUME Inv, NEW c \in Callers, pc[c] \in Busy, NEW place \in {"attempt", "failed"},
           Goto(c, place),
           UNCHANGED <<setup, jobs, audit, unstored, received, mine, cancelled>>,
           UNCHANGED <<summary, outcome>>,
           NewLocal(c, [todo |-> local[c].todo, at |-> local[c].at,
                        unit |-> local'[c].unit, attempts |-> local'[c].attempts,
                        lastErr |-> local'[c].lastErr]),
           local'[c].attempts \in 0..MaxRetries,
           place = "attempt" => Urls(c) # <<>> /\ pc[c] = "run"
    PROVE  Inv'
<1>1. /\ Types /\ Own(c) /\ Stored(c) /\ Accounted(c) /\ Calls' = Calls
      /\ pc' \in [Callers -> PCs] /\ pc'[c] = place /\ pc'[c] \in Busy
      /\ \A d \in Callers \ {c} : pc'[d] = pc[d]
    BY DEF Inv, Types, Goto, PCs, Calls, Busy
<1>2. Types' /\ OthersStay(c)
    BY <1>1 DEF Types, OthersStay, NewLocal
<1>3. /\ local'[c].todo = local[c].todo /\ local'[c].at = local[c].at
      /\ Event(c)' = Event(c) /\ Urls(c)' = Urls(c) /\ Provider(c)' = Provider(c)
    BY DEF NewLocal, Event, Urls, Provider
<1>4. Own(c)'
    BY <1>1, <1>3 DEF Own, NewLocal, Busy, MaxRetries, HooksMaxRetries
<1>5. Stored(c)'
    BY <1>1, <1>3 DEF Stored
<1>6. Accounted(c)'
  <2>1. Passed(c, local[c].at - 1) => Passed(c, local[c].at - 1)'
      BY <1>3 DEF Passed, Missing
  <2>. QED
      BY <1>1, <1>3, <2>1 DEF Accounted, Busy, PostBuildHooksEnabled
<1>. QED
    BY <1>2, <1>4, <1>5, <1>6, RowsUnchanged, Moved

LEMMA SameLocal ==
    ASSUME Types, NEW c \in Callers, Own(c), UNCHANGED local
    PROVE  NewLocal(c, [todo |-> local[c].todo, at |-> local[c].at,
                        unit |-> local'[c].unit, attempts |-> local'[c].attempts,
                        lastErr |-> local'[c].lastErr])
BY DEF Types, Own, NewLocal

LEMMA BeginRunStep == ASSUME Inv, NEW c \in Callers, BeginRun(c) PROVE Inv'
<1>1. /\ Types /\ Own(c) /\ pc[c] = "run" /\ pc[c] \in Busy
      /\ UNCHANGED <<setup, jobs, audit, unstored, received, mine, cancelled>>
    BY DEF Inv, BeginRun, Busy
<1>2. CASE Goto(c, "failed") /\ UNCHANGED <<local, summary, outcome>>
  <2>1. local'[c].attempts \in 0..MaxRetries
      BY <1>1, <1>2 DEF Own
  <2>. QED
      BY <1>1, <1>2, <2>1, SameLocal, RunStep
<1>3. CASE Succeed(c, "dry_run")
    BY <1>1, <1>3, SucceedStep
<1>4. CASE /\ ~Rejected(c) /\ Goto(c, "attempt") /\ UNCHANGED <<summary, outcome>>
           /\ local' = [local EXCEPT ![c].unit = 1, ![c].attempts = 0,
                                    ![c].lastErr = FALSE]
  <2>1. Urls(c) # <<>>
      BY <1>4 DEF Rejected
  <2>2. /\ NewLocal(c, [todo |-> local[c].todo, at |-> local[c].at, unit |-> 1,
                        attempts |-> 0, lastErr |-> FALSE])
      BY <1>1, <1>4 DEF Types, Own, NewLocal
  <2>3. 0 \in 0..MaxRetries
      BY <1>1, SetupFacts DEF Types
  <2>4. /\ local'[c].unit = 1 /\ local'[c].attempts = 0 /\ local'[c].lastErr = FALSE
      BY <2>2 DEF NewLocal
  <2>. QED
      BY <1>1, <1>4, <2>1, <2>2, <2>3, <2>4, RunStep
<1>. QED
    BY <1>2, <1>3, <1>4 DEF BeginRun

LEMMA EndRunStep == ASSUME Inv, NEW c \in Callers, EndRun(c) PROVE Inv'
<1>1. /\ Types /\ Own(c) /\ pc[c] = "attempt" /\ pc[c] \in Busy
      /\ UNCHANGED <<setup, jobs, audit, unstored, received, mine, cancelled>>
    BY DEF Inv, EndRun, Busy
<1>2. CASE Goto(c, "failed") /\ UNCHANGED <<local, summary, outcome>>
  <2>1. local'[c].attempts \in 0..MaxRetries
      BY <1>1, <1>2 DEF Own
  <2>. QED
      BY <1>1, <1>2, <2>1, SameLocal, RunStep
<1>3. CASE Succeed(c, "ok")
    BY <1>1, <1>3, SucceedStep
<1>. QED
    BY <1>2, <1>3 DEF EndRun

(* A request carries some of the job's URLs.                                *)
LEMMA AttemptStep == ASSUME Inv, NEW c \in Callers, Attempt(c) PROVE Inv'
<1>1. /\ Types /\ Own(c) /\ Stored(c) /\ Accounted(c) /\ pc[c] = "attempt"
      /\ local[c].unit \in DOMAIN Units(c) /\ local[c].attempts < MaxRetries
      /\ UNCHANGED <<setup, jobs, audit, outcome, unstored>>
      /\ UNCHANGED <<pc, summary, mine, cancelled>>
      /\ Send(c) \/ UNCHANGED received
    BY DEF Inv, Attempt, storeVars
<1>2. MaxRetries \in Nat
    BY <1>1, SetupFacts DEF Types
<1>3. /\ local' = [d \in Callers |-> local'[d]]
      /\ \A d \in Callers \ {c} : local'[d] = local[d]
      /\ local'[c] = [todo |-> local[c].todo, at |-> local[c].at,
                      unit |-> local'[c].unit, attempts |-> local[c].attempts + 1,
                      lastErr |-> local'[c].lastErr]
  <2>1. PICK ok : local' = [local EXCEPT ![c].attempts = Counted(c),
                                         ![c].lastErr = LastError(ok),
                                         ![c].unit = IF ok THEN @ + 1 ELSE @]
      BY DEF Attempt
  <2> DEFINE e == LastError(ok)
             u == IF ok THEN local[c].unit + 1 ELSE local[c].unit
  <2>2. local' = [local EXCEPT ![c] = [[[@ EXCEPT !.attempts = Counted(c)]
                                          EXCEPT !.lastErr = e] EXCEPT !.unit = u]]
      BY <2>1
  <2>. HIDE DEF e, u
  <2>. QED
      BY <1>1, <2>2 DEF Types, Own, Counted
<1>4. /\ Event(c)' = Event(c) /\ Urls(c)' = Urls(c) /\ Provider(c)' = Provider(c)
      /\ local'[c].at = local[c].at /\ local'[c].todo = local[c].todo
    BY <1>1, <1>3 DEF Event, Urls, Provider
<1>5. RowsStay /\ OthersStay(c)
    BY <1>1, <1>3, RowsUnchanged DEF OthersStay, Inv
<1>6. Own(c)'
    BY <1>1, <1>2, <1>3 DEF Own, Busy, MaxRetries, HooksMaxRetries
<1>7. Stored(c)'
    BY <1>1, <1>4 DEF Stored
<1>8. Accounted(c)'
  <2>1. Passed(c, local[c].at - 1) => Passed(c, local[c].at - 1)'
      BY <1>1, <1>4 DEF Passed, Missing
  <2>. QED
      BY <1>1, <1>4, <2>1 DEF Accounted, Busy, PostBuildHooksEnabled, Calls
<1>9. ASSUME NEW d \in received' \ received
      PROVE  /\ d.by = c /\ d.provider = Provider(c) /\ d.action = Event(c).action
             /\ d.urls = Units(c)[local[c].unit]
    BY <1>1 DEF Send
<1>10. Types'
  <2>1. Provider(c) \in ToSet(Providers)
      BY <1>1, ProviderFacts DEF Own, Provider
  <2>2. \A d \in received' : d.by \in Callers /\ d.provider \in ToSet(Providers)
      BY <1>1, <1>9, <2>1 DEF Types
  <2>. QED
      BY <1>1, <1>3, <2>2 DEF Types
<1>11. Units(c)[local[c].unit] \subseteq ToSet(Urls(c))
  <2>1. CASE Provider(c) \in Batch
      BY <1>1, <2>1 DEF Units
  <2>2. CASE Provider(c) \notin Batch
    <3>1. Units(c) = [i \in DOMAIN Urls(c) |-> {Urls(c)[i]}]
        BY <2>2 DEF Units
    <3>. QED
        BY <1>1, <3>1 DEF ToSet
  <2>. QED
      BY <2>1, <2>2
<1>12. ContactIsRecorded'
  <2> SUFFICES ASSUME NEW d \in received'
               PROVE  Recorded(d)' \/ <<d.by, d.provider>> \in unstored
      BY <1>1 DEF ContactIsRecorded
  <2>1. CASE d \in received
      BY <1>1, <2>1 DEF Inv, ContactIsRecorded, Recorded
  <2>2. CASE d \notin received
    <3>1. CASE mine[c] = 0
        BY <1>1, <1>9, <2>2, <3>1 DEF Stored
    <3>2. CASE mine[c] # 0
      <4>1. mine[c] \in DOMAIN jobs
          BY <1>1, <3>2, JobsAreRows DEF Types, Own
      <4>2. /\ jobs[mine[c]].provider = d.provider
            /\ jobs[mine[c]].action = d.action
            /\ d.urls \subseteq ToSet(jobs[mine[c]].urls)
          BY <1>1, <1>9, <1>11, <2>2, <3>2 DEF Stored
      <4>. QED
          BY <1>1, <4>1, <4>2 DEF Recorded
    <3>. QED
        BY <3>1, <3>2
  <2>. QED
      BY <2>1, <2>2
<1>13. \A d \in Callers \ {c} : Own(d)' /\ Stored(d)' /\ Accounted(d)'
    BY <1>1, <1>5, Others
<1>. QED
    BY <1>6, <1>7, <1>8, <1>10, <1>12, <1>13 DEF Inv

LEMMA RecordFailureStep == ASSUME Inv, NEW c \in Callers, RecordFailure(c) PROVE Inv'
<1>1. /\ Types /\ Own(c) /\ Accounted(c) /\ pc[c] = "failed" /\ pc[c] \in Busy
      /\ UNCHANGED <<setup, jobs, unstored, received, mine, cancelled>>
      /\ summary' = [summary EXCEPT ![c].failed = @ + 1]
      /\ audit' \subseteq audit \cup {[by |-> c, provider |-> Provider(c)]}
      /\ audit \subseteq audit' /\ NextProvider(c) /\ Settle(c, "failed")
    BY DEF Inv, RecordFailure, CountFailure, RecordAudit, Busy
<1>2. PICK n \in 1..Most : n = local[c].at
    BY <1>1 DEF Own
<1>3. Provider(c) = Providers[n] /\ Provider(c) \in ToSet(Providers) /\ n \in Nat
    BY <1>2, ProviderFacts DEF Provider
<1>4. /\ summary' \in [Callers -> [result : [ToSet(Providers) -> Results], failed : Nat]]
      /\ summary'[c].failed = summary[c].failed + 1
      /\ \A d \in Callers \ {c} : summary'[d] = summary[d]
  <2> DEFINE R == [ToSet(Providers) -> Results]
             S == [result : R, failed : Nat]
             r == [summary[c] EXCEPT !.failed = @ + 1]
  <2>1. summary \in [Callers -> S]
      BY <1>1 DEF Types
  <2>. HIDE DEF R
  <2>2. r \in S /\ r.failed = summary[c].failed + 1
      BY <2>1
  <2>3. summary' = [summary EXCEPT ![c] = r]
      BY <1>1
  <2>. HIDE DEF S, r
  <2>4. /\ summary' \in [Callers -> S] /\ summary'[c] = r
        /\ \A d \in Callers \ {c} : summary'[d] = summary[d]
      BY <2>1, <2>2, <2>3
  <2>. QED
      BY <2>2, <2>4 DEF S, R
<1>5. /\ pc' \in [Callers -> PCs] /\ local' = [d \in Callers |-> local'[d]]
      /\ OthersStay(c) /\ Own(c)' /\ Stored(c)' /\ Accounted(c)'
  <2>1. Calls[c].tool # "retry_hook_jobs" /\ PostBuildHooksEnabled => Passed(c, n)'
    <3> SUFFICES ASSUME Calls[c].tool # "retry_hook_jobs", PostBuildHooksEnabled
                 PROVE  Passed(c, n)'
        OBVIOUS
    <3>1. Passed(c, n - 1)
      <4>1. Passed(c, local[c].at - 1)
          BY <1>1 DEF Accounted
      <4>. QED
          BY <1>2, <4>1
    <3>2. audit' \subseteq audit \cup {[by |-> c, provider |-> Providers[n]]}
        BY <1>1, <1>3
    <3>. QED
        BY <1>1, <3>1, <3>2, PassFail
  <2>2. summary'[c].failed \in Nat /\ summary'[c].failed <= local[c].at
      BY <1>1, <1>2, <1>4 DEF Types, Own
  <2>3. /\ Len(jobs) <= Len(jobs') /\ Len(jobs') \in Nat
        /\ mine'[c] \in Nat /\ mine'[c] <= Len(jobs')
      BY <1>1 DEF Types, Own
  <2>4. setup' = setup
        /\ \A d \in Callers \ {c} : summary'[d] = summary[d] /\ mine'[d] = mine[d]
      BY <1>1, <1>4
  <2>. QED
      BY <1>1, <1>2, <2>1, <2>2, <2>3, <2>4, Turn
<1>6. Types'
  <2>1. /\ outcome' \in Seq({"none", "ok", "dry_run", "failed"})
        /\ Len(outcome') = Len(jobs)
      BY <1>1, OutcomeTyped
  <2>2. \A a \in audit' : a.by \in Callers /\ a.provider \in ToSet(Providers)
      BY <1>1, <1>3 DEF Types
  <2>. QED
      BY <1>1, <1>4, <1>5, <2>1, <2>2 DEF Types, Row
<1>7. RowsStay /\ \A a \in audit' \ audit : a.by = c
    BY <1>1, RowsUnchanged
<1>. QED
    BY <1>1, <1>5, <1>6, <1>7, Moved

LEMMA CancelStep == ASSUME Inv, NEW c \in Callers, Cancel(c) PROVE Inv'
<1>1. /\ UNCHANGED <<setup, jobs, audit, outcome, unstored, received>>
      /\ UNCHANGED <<pc, local, summary, mine>>
      /\ cancelled' = cancelled \cup {c}
    BY DEF Cancel, storeVars, callVars
<1>2. Types' /\ ContactIsRecorded'
    BY <1>1 DEF Inv, Types, Row, ContactIsRecorded, Recorded
<1>3. ASSUME NEW d \in Callers PROVE Own(d)' /\ Stored(d)' /\ Accounted(d)'
  <2>1. Own(d) /\ Stored(d) /\ Accounted(d)
      BY DEF Inv
  <2>2. Own(d)'
      BY <1>1, <2>1 DEF Own, MaxRetries, HooksMaxRetries
  <2>3. Stored(d)'
      BY <1>1, <2>1 DEF Stored, Urls, Event, Provider
  <2>4. Accounted(d)' = Accounted(d)
      BY <1>1 DEF Accounted, Passed, Missing, Skipped, Calls, PostBuildHooksEnabled, Most
  <2>. QED
      BY <2>1, <2>2, <2>3, <2>4
<1>. QED
    BY <1>2, <1>3 DEF Inv

LEMMA CrashStep == ASSUME Inv, Crash PROVE Inv'
<1>1. /\ UNCHANGED <<setup, jobs, audit, outcome, unstored, received>>
      /\ UNCHANGED <<local, summary, mine, cancelled>>
      /\ pc' = [c \in Callers |-> IF pc[c] \in {"idle", "done"} THEN pc[c] ELSE "lost"]
    BY DEF Crash, storeVars
<1>2. Types' /\ ContactIsRecorded'
    BY <1>1 DEF Inv, Types, Row, ContactIsRecorded, Recorded, PCs
<1>3. ASSUME NEW d \in Callers PROVE Own(d)' /\ Stored(d)' /\ Accounted(d)'
  <2>1. /\ Own(d) /\ Stored(d) /\ Accounted(d)
        /\ pc'[d] = IF pc[d] \in {"idle", "done"} THEN pc[d] ELSE "lost"
        /\ Types
      BY <1>1 DEF Inv
  <2>2. Own(d)'
    <3>1. pc'[d] \notin Busy /\ (pc'[d] = "idle" => pc[d] = "idle") /\ pc'[d] # "event"
        BY <2>1 DEF Busy
    <3>2. summary[d].failed <= Most
        BY <2>1, ProviderFacts DEF Own, Types
    <3>. QED
        BY <1>1, <2>1, <3>1, <3>2 DEF Own, MaxRetries, HooksMaxRetries
  <2>3. Stored(d)'
      BY <2>1 DEF Stored
  <2>4. Accounted(d)'
    <3>1. Passed(d, Most)' = Passed(d, Most) /\ Skipped(d)' = Skipped(d) /\ Calls' = Calls
          /\ PostBuildHooksEnabled' = PostBuildHooksEnabled
        BY <1>1 DEF Passed, Missing, Skipped, Calls, PostBuildHooksEnabled, Most
    <3>. QED
        BY <1>1, <2>1, <3>1 DEF Accounted, Busy
  <2>. QED
      BY <2>2, <2>3, <2>4
<1>. QED
    BY <1>2, <1>3 DEF Inv

LEMMA InvStep == ASSUME Inv, [Next]_vars PROVE Inv'
<1>1. ASSUME NEW c \in Callers, Step(c) PROVE Inv'
    BY <1>1, StartStep, BeginEventStep, FinishStep, EnqueueJobStep, BeginRunStep,
       AttemptStep, EndRunStep, RecordFailureStep DEF Step
<1>2. ASSUME NEW c \in Callers, Cancel(c) PROVE Inv'
    BY <1>2, CancelStep
<1>3. CASE Crash
    BY <1>3, CrashStep
<1>4. CASE UNCHANGED vars
  <2>1. /\ UNCHANGED <<setup, jobs, audit, outcome, unstored, received>>
        /\ UNCHANGED <<pc, local, summary, mine, cancelled>>
      BY <1>4 DEF vars, storeVars, callVars
  <2>2. Types' /\ ContactIsRecorded'
      BY <2>1 DEF Inv, Types, Row, ContactIsRecorded, Recorded
  <2>3. ASSUME NEW d \in Callers PROVE Own(d)' /\ Stored(d)' /\ Accounted(d)'
    <3>1. Own(d) /\ Stored(d) /\ Accounted(d)
        BY DEF Inv
    <3>2. Own(d)'
        BY <2>1, <3>1 DEF Own, MaxRetries, HooksMaxRetries
    <3>3. Stored(d)'
        BY <2>1, <3>1 DEF Stored, Urls, Event, Provider
    <3>4. Accounted(d)' = Accounted(d)
        BY <2>1 DEF Accounted, Passed, Missing, Skipped, Calls, PostBuildHooksEnabled, Most
    <3>. QED
        BY <3>1, <3>2, <3>3, <3>4
  <2>. QED
      BY <2>2, <2>3 DEF Inv
<1>. QED
    BY <1>1, <1>2, <1>3, <1>4 DEF Next, Quiet

LEMMA Invariance == Spec => []Inv
<1>1. Init => Inv
    BY InvInit
<1>2. Inv /\ [Next]_vars => Inv'
    BY InvStep
<1>. QED
    BY <1>1, <1>2, PTL DEF Spec

-----------------------------------------------------------------------------
(* The variables of HookPipeline keep their types: no run exceeds its       *)
(* attempts, and no summary counts more failures than there are providers.  *)
THEOREM TypeCorrect == Spec => []TypeOK
<1>1. Inv => TypeOK
  <2> SUFFICES ASSUME Inv PROVE TypeOK
      OBVIOUS
  <2>1. /\ Types /\ DOMAIN jobs = 1..Len(jobs) /\ Len(jobs) \in Nat
        /\ Most \in Nat /\ Most = Len(Providers)
      BY JobsAreRows, ProviderFacts DEF Inv, Most
  <2>2. ASSUME NEW c \in Callers
        PROVE  /\ local[c].at \in 1..Len(Providers) /\ local[c].attempts \in 0..MaxRetries
               /\ mine[c] \in 0..Len(jobs) /\ summary[c].failed \in 0..Len(Providers)
    <3>1. Own(c) /\ summary[c].failed \in Nat /\ mine[c] \in Nat
        BY <2>1 DEF Inv, Types
    <3>. QED
        BY <2>1, <3>1 DEF Own
  <2>. QED
      BY <2>1, <2>2 DEF TypeOK, Types
<1>. QED
    BY <1>1, Invariance, PTL

(* Process inserts the job before the provider's client is called: whatever *)
(* an endpoint executed is in the store unless that insert failed.          *)
THEOREM ContactIsRecordedHolds == Spec => []ContactIsRecorded
<1>1. Inv => ContactIsRecorded
    BY DEF Inv
<1>. QED
    BY <1>1, Invariance, PTL

(* Process counts a failure for each provider without a result and audits   *)
(* no other, however calls interleave and whatever fails.                   *)
THEOREM FailuresAreAccountedHolds == Spec => []FailuresAreAccounted
<1>1. Inv => FailuresAreAccounted
  <2> SUFFICES ASSUME Inv, NEW c \in Callers, Settled(c), PostBuildHooksEnabled, ~Skipped(c)
               PROVE  /\ summary[c].failed
                            = Cardinality({p \in ToSet(Providers) : summary[c].result[p] = "none"})
                      /\ \A a \in audit : a.by = c => summary[c].result[a.provider] = "none"
      BY DEF FailuresAreAccounted
  <2>1. Passed(c, Most)
      BY DEF Inv, Accounted, Settled
  <2>2. Missing(c, Most) = {p \in ToSet(Providers) : summary[c].result[p] = "none"}
      BY ProviderFacts DEF Missing
  <2>. QED
      BY <2>1, <2>2 DEF Passed, Missing
<1>. QED
    BY <1>1, Invariance, PTL
-----------------------------------------------------------------------------
(* What an "ok" is worth, when one request carries all URLs of the event.   *)
OneRequest(c, p) == p \in Batch \/ DOMAIN Dedupe(Calls[c].urls) = {1}
Whole(c, p)      == ToSet(Dedupe(Calls[c].urls)) \subseteq Delivered(c, p)

OkIsWhole(c) ==
    \A p \in ToSet(Providers) :
        OneRequest(c, p) /\ summary[c].result[p] = "ok" => Whole(c, p)

(* The retry loop is past its request only when that request was answered,  *)
(* and it has no error left only when it is past it.                        *)
Answered(c) ==
    Calls[c].tool # "retry_hook_jobs" =>
        /\ pc[c] \in Busy \/ (pc[c] = "event" /\ local[c].todo # <<>>) =>
             Event(c).urls = Calls[c].urls
        /\ pc[c] = "attempt" =>
             /\ local[c].unit \in Nat \ {0}
             /\ local[c].attempts > 0 /\ ~local[c].lastErr => local[c].unit > 1
             /\ OneRequest(c, Provider(c)) /\ local[c].unit > 1 => Whole(c, Provider(c))
        /\ OkIsWhole(c)

AllAnswered == \A c \in Callers : Answered(c)

(* What the step of one call leaves alone.                                  *)
Growing == setup' = setup /\ received \subseteq received'

Apart(c) ==
    /\ Growing
    /\ \A d \in Callers \ {c} : /\ pc'[d] = pc[d] /\ local'[d] = local[d]
                                /\ summary'[d] = summary[d]

LEMMA WholeStays ==
    ASSUME setup' = setup, received \subseteq received', NEW c, NEW p, Whole(c, p)
    PROVE  Whole(c, p)'
<1>1. Delivered(c, p) \subseteq Delivered(c, p)'
    BY DEF Delivered
<1>2. (Dedupe(Calls[c].urls))' = Dedupe(Calls[c].urls)
    BY DEF Calls
<1>. QED
    BY <1>1, <1>2 DEF Whole

LEMMA OneRequestStays ==
    ASSUME setup' = setup, NEW c, NEW p
    PROVE  OneRequest(c, p)' = OneRequest(c, p)
<1>1. Batch' = Batch /\ (Dedupe(Calls[c].urls))' = Dedupe(Calls[c].urls)
    BY DEF Batch, Calls
<1>. QED
    BY <1>1 DEF OneRequest

LEMMA OkStays ==
    ASSUME setup' = setup, received \subseteq received', NEW c \in Callers, OkIsWhole(c),
           summary'[c].result = summary[c].result
    PROVE  OkIsWhole(c)'
BY WholeStays, OneRequestStays DEF OkIsWhole

(* A call that stays where it is, ends, or goes on with a run of its event. *)
Same(c) ==
    /\ local'[c] = local[c] /\ summary'[c] = summary[c]
    /\ \/ pc'[c] = pc[c]
       \/ pc'[c] \in {"done", "lost"}
       \/ pc[c] \in Busy /\ pc'[c] \in Busy \ {"attempt"}

LEMMA SameAnswered ==
    ASSUME Growing, NEW c \in Callers, Answered(c), Same(c)
    PROVE  Answered(c)'
<1>1. /\ Event(c)' = Event(c) /\ Provider(c)' = Provider(c) /\ Calls' = Calls
    BY DEF Event, Provider, Calls, Same, Growing
<1>2. OkIsWhole(c) => OkIsWhole(c)'
    BY OkStays DEF Growing, Same
<1>3. OneRequest(c, Provider(c))' = OneRequest(c, Provider(c))
    BY <1>1, OneRequestStays DEF Growing
<1>4. Whole(c, Provider(c)) => Whole(c, Provider(c))'
    BY <1>1, WholeStays DEF Growing
<1>. QED
    BY <1>1, <1>2, <1>3, <1>4 DEF Answered, Busy, Same

LEMMA OthersAnswered ==
    ASSUME AllAnswered, NEW c \in Callers, Apart(c), Answered(c)'
    PROVE  AllAnswered'
<1>1. ASSUME NEW d \in Callers \ {c} PROVE Answered(d)'
  <2>1. Answered(d)
      BY DEF AllAnswered
  <2>2. Growing /\ Same(d)
      BY DEF Apart, Same
  <2>. QED
      BY <2>1, <2>2, SameAnswered
<1>. QED
    BY <1>1 DEF AllAnswered

LEMMA SameStep ==
    ASSUME AllAnswered, NEW c \in Callers, Apart(c), Same(c) PROVE AllAnswered'
<1>1. Growing /\ Answered(c)
    BY DEF Apart, AllAnswered
<1>. QED
    BY <1>1, SameAnswered, OthersAnswered

(* The event's loop over the providers goes on, or is over.                 *)
LEMMA TurnAnswered ==
    ASSUME Inv, NEW c \in Callers, Answered(c), NextProvider(c), pc[c] \in Busy,
           setup' = setup, received \subseteq received',
           Calls[c].tool # "retry_hook_jobs" => OkIsWhole(c)',
           \A d \in Callers \ {c} : summary'[d] = summary[d]
    PROVE  Answered(c)' /\ Apart(c)
<1>1. Types /\ Own(c) /\ Accounted(c) /\ Calls' = Calls
    BY DEF Inv, Calls
<1>2. /\ \A d \in Callers \ {c} : pc'[d] = pc[d] /\ local'[d] = local[d]
      /\ \/ pc'[c] = "event" /\ local'[c].todo = Tail(local[c].todo)
         \/ pc'[c] = "enqueue" /\ local'[c].todo = local[c].todo
  <2>1. CASE LastProvider(c)
    <3>1. /\ pc' = [pc EXCEPT ![c] = "event"]
          /\ local' = [local EXCEPT ![c].at = 1, ![c].todo = Tail(@)]
        BY <2>1 DEF NextProvider, Goto
    <3>. QED
        BY <1>1, <3>1 DEF Types, Own
  <2>2. CASE ~LastProvider(c)
    <3>1. /\ pc' = [pc EXCEPT ![c] = "enqueue"] /\ local' = [local EXCEPT ![c].at = @ + 1]
        BY <2>2 DEF NextProvider, Goto
    <3>. QED
        BY <1>1, <3>1 DEF Types, Own
  <2>. QED
      BY <2>1, <2>2
<1>3. Apart(c)
    BY <1>2 DEF Apart, Growing
<1>4. Answered(c)'
  <2> SUFFICES ASSUME Calls[c].tool # "retry_hook_jobs" PROVE Answered(c)'
      BY <1>1 DEF Answered
  <2>1. Tail(local[c].todo) = <<>> /\ Event(c).urls = Calls[c].urls
      BY <1>1 DEF Accounted, Answered
  <2>2. CASE pc'[c] = "event" /\ local'[c].todo = <<>>
      BY <2>2 DEF Answered, Busy
  <2>3. CASE pc'[c] = "enqueue" /\ local'[c].todo = local[c].todo
    <3>1. Event(c)' = Event(c)
        BY <2>3 DEF Event
    <3>. QED
        BY <1>1, <2>1, <2>3, <3>1 DEF Answered
  <2>. QED
      BY <1>2, <2>1, <2>2, <2>3
<1>. QED
    BY <1>3, <1>4

LEMMA StartAnswered ==
    ASSUME Inv, AllAnswered, NEW c \in Callers, StartProcess(c) \/ StartRetry(c)
    PROVE  AllAnswered'
<1>1. /\ Types /\ Own(c) /\ Answered(c) /\ Calls' = Calls
      /\ UNCHANGED <<setup, received, summary>>
    BY DEF Inv, AllAnswered, StartProcess, StartRetry, Calls
<1>2. Apart(c)
  <2>1. /\ \A d \in Callers \ {c} : pc'[d] = pc[d]
        /\ \A d \in Callers \ {c} : local'[d] = local[d]
      BY <1>1 DEF StartProcess, StartRetry, Goto, Types
  <2>. QED
      BY <1>1, <2>1 DEF Apart, Growing
<1>3. Answered(c)'
  <2> SUFFICES ASSUME Calls[c].tool # "retry_hook_jobs" PROVE Answered(c)'
      BY <1>1 DEF Answered
  <2> DEFINE e == [id |-> 0, action |-> Calls[c].action, urls |-> Calls[c].urls]
  <2>1. /\ pc'[c] = "event"
        /\ local' = [local EXCEPT ![c].todo = IF Skipped(c) THEN <<>> ELSE <<e>>]
      BY <1>1 DEF StartProcess, StartRetry, Goto, Types
  <2>2. e.urls = Calls[c].urls
      OBVIOUS
  <2>. HIDE DEF e
  <2>3. local'[c].todo = <<>> \/ Head(local'[c].todo) = e
      BY <1>1, <2>1 DEF Types, Own
  <2>4. local'[c].todo # <<>> => Event(c)'.urls = Calls[c].urls
      BY <2>2, <2>3 DEF Event
  <2>5. OkIsWhole(c)'
      BY <1>1, OkStays DEF Answered
  <2>. QED
      BY <1>1, <2>1, <2>4, <2>5 DEF Answered, Busy
<1>. QED
    BY <1>2, <1>3, OthersAnswered

LEMMA BeginEventAnswered ==
    ASSUME Inv, AllAnswered, NEW c \in Callers, BeginEvent(c) PROVE AllAnswered'
<1>1. /\ Types /\ Answered(c) /\ Calls' = Calls /\ Event(c)' = Event(c)
      /\ UNCHANGED <<setup, received, local>>
      /\ pc[c] = "event" /\ local[c].todo # <<>>
      /\ pc' = [pc EXCEPT ![c] = "enqueue"]
      /\ summary' = [summary EXCEPT ![c] = NoResult]
    BY DEF Inv, AllAnswered, BeginEvent, Goto, Calls, Event
<1>2. Apart(c) /\ pc'[c] = "enqueue" /\ summary'[c] = NoResult
    BY <1>1 DEF Apart, Growing, Types
<1>3. OkIsWhole(c)'
    BY <1>2 DEF OkIsWhole, NoResult
<1>4. Answered(c)'
    BY <1>1, <1>2, <1>3 DEF Answered
<1>. QED
    BY <1>2, <1>4, OthersAnswered

LEMMA EnqueueAnswered ==
    ASSUME Inv, AllAnswered, NEW c \in Callers, EnqueueJob(c) PROVE AllAnswered'
<1>1. /\ Types /\ Answered(c) /\ pc[c] = "enqueue" /\ pc[c] \in Busy
      /\ UNCHANGED <<setup, received, summary>>
    BY DEF Inv, AllAnswered, EnqueueJob, Busy
<1>2. CASE Goto(c, "run") /\ UNCHANGED local
  <2>1. Apart(c) /\ pc'[c] = "run"
      BY <1>1, <1>2 DEF Apart, Growing, Goto, Types
  <2>2. Same(c)
      BY <1>1, <1>2, <2>1 DEF Same, Busy
  <2>. QED
      BY <2>1, <2>2, SameStep
<1>3. CASE NextProvider(c)
  <2>1. Calls[c].tool # "retry_hook_jobs" => OkIsWhole(c)'
      BY <1>1, OkStays DEF Answered
  <2>2. Answered(c)' /\ Apart(c)
      BY <1>1, <1>3, <2>1, TurnAnswered
  <2>. QED
      BY <2>2, OthersAnswered
<1>. QED
    BY <1>2, <1>3 DEF EnqueueJob

(* A provider succeeds: with "ok", its endpoint has every URL.              *)
LEMMA SucceedAnswered ==
    ASSUME Inv, AllAnswered, NEW c \in Callers, NEW how \in {"ok", "dry_run"},
           Succeed(c, how), pc[c] \in Busy, UNCHANGED <<setup, received>>,
           /\ Calls[c].tool # "retry_hook_jobs" /\ how = "ok"
           /\ OneRequest(c, Provider(c))
           => Whole(c, Provider(c))
    PROVE  AllAnswered'
<1>1. /\ Types /\ Answered(c) /\ NextProvider(c)
      /\ summary' = [summary EXCEPT ![c].result[Provider(c)] = how]
    BY DEF Inv, AllAnswered, Succeed
<1>2. /\ summary[c].result \in [ToSet(Providers) -> Results]
      /\ summary'[c].result = [summary[c].result EXCEPT ![Provider(c)] = how]
      /\ \A d \in Callers \ {c} : summary'[d] = summary[d]
  <2> DEFINE r == [summary[c] EXCEPT !.result[Provider(c)] = how]
  <2>1. /\ summary[c] \in [result : [ToSet(Providers) -> Results], failed : Nat]
        /\ summary \in [Callers -> [result : [ToSet(Providers) -> Results], failed : Nat]]
      BY <1>1 DEF Types
  <2>2. r.result = [summary[c].result EXCEPT ![Provider(c)] = how]
      BY <2>1
  <2>3. summary' = [summary EXCEPT ![c] = r]
      BY <1>1
  <2>. HIDE DEF r
  <2>4. summary'[c] = r /\ \A d \in Callers \ {c} : summary'[d] = summary[d]
      BY <2>1, <2>3
  <2>. QED
      BY <2>1, <2>2, <2>4
<1>3. ASSUME Calls[c].tool # "retry_hook_jobs" PROVE OkIsWhole(c)'
  <2> SUFFICES ASSUME NEW p \in ToSet(Providers), OneRequest(c, p),
                      summary'[c].result[p] = "ok"
               PROVE  Whole(c, p)'
      BY OneRequestStays DEF OkIsWhole
  <2>1. Whole(c, p)
    <3>1. CASE p = Provider(c)
        BY <1>2, <1>3, <3>1
    <3>2. CASE p # Provider(c)
        BY <1>1, <1>2, <1>3, <3>2 DEF Answered, OkIsWhole
    <3>. QED
        BY <3>1, <3>2
  <2>. QED
      BY <2>1, WholeStays
<1>4. Answered(c)' /\ Apart(c)
    BY <1>1, <1>2, <1>3, TurnAnswered
<1>. QED
    BY <1>4, OthersAnswered

LEMMA BeginRunAnswered ==
    ASSUME Inv, AllAnswered, NEW c \in Callers, BeginRun(c) PROVE AllAnswered'
<1>1. /\ Types /\ Own(c) /\ Answered(c) /\ pc[c] = "run" /\ pc[c] \in Busy
      /\ UNCHANGED <<setup, received>> /\ Calls' = Calls
    BY DEF Inv, AllAnswered, BeginRun, Busy, Calls
<1>2. CASE Goto(c, "failed") /\ UNCHANGED <<local, summary, outcome>>
  <2>1. Apart(c) /\ pc'[c] = "failed"
      BY <1>1, <1>2 DEF Apart, Growing, Goto, Types
  <2>2. Same(c)
      BY <1>1, <1>2, <2>1 DEF Same, Busy
  <2>. QED
      BY <2>1, <2>2, SameStep
<1>3. CASE Succeed(c, "dry_run")
    BY <1>1, <1>3, SucceedAnswered
<1>4. CASE /\ Goto(c, "attempt") /\ UNCHANGED <<summary, outcome>>
           /\ local' = [local EXCEPT ![c].unit = 1, ![c].attempts = 0,
                                    ![c].lastErr = FALSE]
  <2>1. /\ pc'[c] = "attempt" /\ Apart(c) /\ local'[c].todo = local[c].todo
        /\ local'[c].unit = 1 /\ local'[c].attempts = 0
      BY <1>1, <1>4 DEF Apart, Growing, Goto, Types, Own
  <2>2. Event(c)' = Event(c)
      BY <2>1 DEF Event
  <2>3. OkIsWhole(c) => OkIsWhole(c)'
      BY <1>1, <1>4, OkStays
  <2>4. Answered(c)'
      BY <1>1, <2>1, <2>2, <2>3 DEF Answered
  <2>. QED
      BY <2>1, <2>4, OthersAnswered
<1>. QED
    BY <1>2, <1>3, <1>4 DEF BeginRun

(* The one request of a run is its first unit.                              *)
LEMMA FirstUnit ==
    ASSUME NEW c \in Callers, Event(c).urls = Calls[c].urls, OneRequest(c, Provider(c))
    PROVE  DOMAIN Units(c) = {1} /\ Units(c)[1] = ToSet(Dedupe(Calls[c].urls))
<1>1. Urls(c) = Dedupe(Calls[c].urls)
    BY DEF Urls
<1>2. CASE Provider(c) \in Batch
    BY <1>1, <1>2 DEF Units
<1>3. CASE Provider(c) \notin Batch
  <2>1. DOMAIN Urls(c) = {1} /\ Units(c) = [i \in DOMAIN Urls(c) |-> {Urls(c)[i]}]
      BY <1>1, <1>3 DEF OneRequest, Units
  <2>2. ToSet(Urls(c)) = {Urls(c)[1]}
      BY <2>1 DEF ToSet
  <2>. QED
      BY <1>1, <2>1, <2>2
<1>. QED
    BY <1>2, <1>3

LEMMA AttemptAnswered ==
    ASSUME Inv, AllAnswered, NEW c \in Callers, Attempt(c) PROVE AllAnswered'
<1>1. /\ Types /\ Own(c) /\ Answered(c) /\ pc[c] = "attempt" /\ pc[c] \in Busy
      /\ local[c].unit \in DOMAIN Units(c)
      /\ UNCHANGED <<setup, pc, summary>> /\ Calls' = Calls
    BY DEF Inv, AllAnswered, Attempt, Calls, Busy
<1>2. PICK ok \in BOOLEAN :
        /\ Send(c) \/ (~ok /\ UNCHANGED received)
        /\ local' = [local EXCEPT ![c].attempts = Counted(c), ![c].lastErr = LastError(ok),
                                  ![c].unit = IF ok THEN @ + 1 ELSE @]
    BY DEF Attempt
<1>3. received \subseteq received'
    BY <1>2 DEF Send
<1>4. /\ \A d \in Callers \ {c} : local'[d] = local[d]
      /\ local'[c].todo = local[c].todo /\ local'[c].at = local[c].at
      /\ local'[c].lastErr = ~ok
      /\ local'[c].unit = IF ok THEN local[c].unit + 1 ELSE local[c].unit
  <2> DEFINE e == LastError(ok)
             u == IF ok THEN local[c].unit + 1 ELSE local[c].unit
             r == [[[local[c] EXCEPT !.attempts = Counted(c)]
                       EXCEPT !.lastErr = e] EXCEPT !.unit = u]
  <2>1. local' = [local EXCEPT ![c] = r]
      BY <1>2
  <2>2. e = ~ok
      BY DEF LastError
  <2>. HIDE DEF e, u
  <2>3. /\ r.todo = local[c].todo /\ r.at = local[c].at /\ r.lastErr = e /\ r.unit = u
      BY <1>1 DEF Own
  <2>. HIDE DEF r
  <2>4. local'[c] = r /\ \A d \in Callers \ {c} : local'[d] = local[d]
      BY <1>1, <2>1 DEF Types
  <2>. QED
      BY <2>2, <2>3, <2>4 DEF u
<1>5. Apart(c)
    BY <1>1, <1>3, <1>4 DEF Apart, Growing
<1>6. Answered(c)'
  <2> SUFFICES ASSUME Calls[c].tool # "retry_hook_jobs" PROVE Answered(c)'
      BY <1>1 DEF Answered
  <2>1. /\ Event(c).urls = Calls[c].urls /\ local[c].unit \in Nat \ {0} /\ OkIsWhole(c)
        /\ OneRequest(c, Provider(c)) /\ local[c].unit > 1 => Whole(c, Provider(c))
      BY <1>1 DEF Answered
  <2>2. Event(c)' = Event(c) /\ Provider(c)' = Provider(c)
      BY <1>4 DEF Event, Provider
  <2>3. OkIsWhole(c)'
      BY <1>1, <1>3, <2>1, OkStays
  <2>4. /\ local'[c].unit \in Nat \ {0}
        /\ ~local'[c].lastErr => local'[c].unit > 1
    <3>1. CASE ok
        BY <1>4, <2>1, <3>1
    <3>2. CASE ~ok
        BY <1>4, <2>1, <3>2
    <3>. QED
        BY <3>1, <3>2
  <2>5. ASSUME OneRequest(c, Provider(c)), local'[c].unit > 1
        PROVE  Whole(c, Provider(c))'
    <3>1. local[c].unit = 1
        BY <1>1, <2>1, <2>5, FirstUnit
    <3>2. Send(c)
        BY <1>2, <1>4, <2>5, <3>1
    <3> DEFINE q == [by |-> c, provider |-> Provider(c), action |-> Event(c).action,
                     urls |-> ToSet(Dedupe(Calls[c].urls))]
    <3>3. q \in received'
        BY <2>1, <2>5, <3>1, <3>2, FirstUnit DEF Send
    <3>4. q.by = c /\ q.provider = Provider(c) /\ q.urls = ToSet(Dedupe(Calls[c].urls))
        OBVIOUS
    <3>. HIDE DEF q
    <3>5. ToSet(Dedupe(Calls[c].urls)) \subseteq
            UNION {d.urls : d \in {x \in received' : x.by = c /\ x.provider = Provider(c)}}
        BY <3>3, <3>4
    <3>. QED
        BY <1>1, <2>2, <3>5 DEF Whole, Delivered
  <2>6. OneRequest(c, Provider(c))' = OneRequest(c, Provider(c))
      BY <1>1, <2>2, OneRequestStays
  <2>. QED
      BY <1>1, <2>1, <2>2, <2>3, <2>4, <2>5, <2>6 DEF Answered
<1>. QED
    BY <1>5, <1>6, OthersAnswered

(* The loop ends without an error only past its last answered request.      *)
LEMMA EndRunAnswered ==
    ASSUME Inv, AllAnswered, NEW c \in Callers, EndRun(c) PROVE AllAnswered'
<1>1. /\ Types /\ Own(c) /\ Answered(c) /\ pc[c] = "attempt" /\ pc[c] \in Busy
      /\ local[c].unit \notin DOMAIN Units(c) \/ local[c].attempts >= MaxRetries
      /\ UNCHANGED <<setup, received>>
    BY DEF Inv, AllAnswered, EndRun, Busy
<1>2. CASE Goto(c, "failed") /\ UNCHANGED <<local, summary, outcome>>
  <2>1. Apart(c) /\ pc'[c] = "failed"
      BY <1>1, <1>2 DEF Apart, Growing, Goto, Types
  <2>2. Same(c)
      BY <1>1, <1>2, <2>1 DEF Same, Busy
  <2>. QED
      BY <2>1, <2>2, SameStep
<1>3. CASE ~local[c].lastErr /\ Succeed(c, "ok")
  <2>1. ASSUME Calls[c].tool # "retry_hook_jobs", OneRequest(c, Provider(c))
        PROVE  Whole(c, Provider(c))
    <3>1. local[c].unit \in Nat \ {0} /\ Event(c).urls = Calls[c].urls
        BY <1>1, <2>1 DEF Answered
    <3>2. CASE local[c].unit \notin DOMAIN Units(c)
      <4>1. local[c].unit > 1
          BY <2>1, <3>1, <3>2, FirstUnit
      <4>. QED
          BY <1>1, <2>1, <4>1 DEF Answered
    <3>3. CASE local[c].attempts >= MaxRetries
      <4>1. local[c].attempts > 0
          BY <1>1, <3>3, SetupFacts DEF Types, Own
      <4>. QED
          BY <1>1, <1>3, <2>1, <4>1 DEF Answered
    <3>. QED
        BY <1>1, <3>2, <3>3
  <2>. QED
      BY <1>1, <1>3, <2>1, SucceedAnswered
<1>. QED
    BY <1>2, <1>3 DEF EndRun

LEMMA RecordFailureAnswered ==
    ASSUME Inv, AllAnswered, NEW c \in Callers, RecordFailure(c) PROVE AllAnswered'
<1>1. /\ Types /\ Answered(c) /\ pc[c] \in Busy /\ UNCHANGED <<setup, received>>
      /\ summary' = [summary EXCEPT ![c].failed = @ + 1] /\ NextProvider(c)
    BY DEF Inv, AllAnswered, RecordFailure, CountFailure, Busy
<1>2. /\ summary'[c].result = summary[c].result
      /\ \A d \in Callers \ {c} : summary'[d] = summary[d]
    BY <1>1 DEF Types
<1>3. Calls[c].tool # "retry_hook_jobs" => OkIsWhole(c)'
    BY <1>1, <1>2, OkStays DEF Answered
<1>4. Answered(c)' /\ Apart(c)
    BY <1>1, <1>2, <1>3, TurnAnswered
<1>. QED
    BY <1>4, OthersAnswered

LEMMA EachAnswered ==
    ASSUME AllAnswered, UNCHANGED <<setup, received, local, summary>>,
           \A c \in Callers : pc'[c] = pc[c] \/ pc'[c] = "lost"
    PROVE  AllAnswered'
<1>1. ASSUME NEW c \in Callers PROVE Answered(c)'
  <2>1. Growing /\ Same(c)
      BY DEF Growing, Same
  <2>2. Answered(c)
      BY DEF AllAnswered
  <2>. QED
      BY <2>1, <2>2, SameAnswered
<1>. QED
    BY <1>1 DEF AllAnswered

LEMMA AnsweredStep == ASSUME Inv, AllAnswered, [Next]_vars PROVE AllAnswered'
<1>1. ASSUME NEW c \in Callers, Finish(c) PROVE AllAnswered'
  <2>1. /\ Apart(c) /\ pc'[c] = "done" /\ UNCHANGED <<local, summary>>
      BY <1>1 DEF Inv, Types, Finish, Goto, Apart, Growing
  <2>2. Same(c)
      BY <2>1 DEF Same
  <2>. QED
      BY <2>1, <2>2, SameStep
<1>2. ASSUME NEW c \in Callers, Cancel(c) PROVE AllAnswered'
  <2>1. UNCHANGED <<setup, received, pc, local, summary>>
      BY <1>2 DEF Cancel, callVars
  <2>. QED
      BY <2>1, EachAnswered
<1>3. CASE Crash
  <2>1. /\ UNCHANGED <<setup, received, local, summary>>
        /\ \A c \in Callers : pc'[c] = pc[c] \/ pc'[c] = "lost"
      BY <1>3 DEF Crash
  <2>. QED
      BY <2>1, EachAnswered
<1>4. CASE UNCHANGED vars
  <2>1. UNCHANGED <<setup, received, pc, local, summary>>
      BY <1>4 DEF vars, callVars
  <2>. QED
      BY <2>1, EachAnswered
<1>5. ASSUME NEW c \in Callers, Step(c) PROVE AllAnswered'
    BY <1>1, <1>5, StartAnswered, BeginEventAnswered, EnqueueAnswered, BeginRunAnswered,
       AttemptAnswered, EndRunAnswered, RecordFailureAnswered DEF Step
<1>. QED
    BY <1>2, <1>3, <1>4, <1>5 DEF Next, Quiet

(* Process and the retry loops of the clients: a result "ok" of a finished  *)
(* call means that its endpoint has every URL, when one request carries     *)
(* them all, however calls interleave and whatever fails before.            *)
THEOREM BatchOkMeansDeliveredHolds == Spec => []BatchOkMeansDelivered
<1>1. Init => AllAnswered
  <2> SUFFICES ASSUME Init, NEW c \in Callers PROVE Answered(c)
      BY DEF AllAnswered
  <2>. QED
      BY DEF Init, Answered, OkIsWhole, NoResult, Busy
<1>2. Inv /\ AllAnswered /\ [Next]_vars => AllAnswered'
    BY AnsweredStep
<1>3. AllAnswered => BatchOkMeansDelivered
    BY DEF AllAnswered, Answered, OkIsWhole, OneRequest, Whole, Settled,
           BatchOkMeansDelivered
<1>. QED
    BY <1>1, <1>2, <1>3, Invariance, PTL DEF Spec

-----------------------------------------------------------------------------
(* What a run of an event has still to do.                                  *)
Place == [enqueue |-> 1, run |-> 2, attempt |-> 3, failed |-> 4]

(* The call is at a later provider, or further on with this one, or has one *)
(* attempt less; or it has done with the event.                            *)
Nearer(c) ==
    \/ local'[c].at > local[c].at
    \/ /\ local'[c].at = local[c].at
       /\ \/ Place[pc'[c]] > Place[pc[c]]
          \/ pc'[c] = pc[c] /\ local'[c].attempts > local[c].attempts

EventDone(c) == pc'[c] = "event" /\ local'[c].todo = Tail(local[c].todo)

Onward(c) == \/ EventDone(c)
             \/ pc'[c] \in Busy /\ local'[c].todo = local[c].todo /\ Nearer(c)

(* Process and the retry loops: each step of a call inside an event brings  *)
(* it nearer to the event's end.  As TypeOK bounds the provider and the     *)
(* attempts, no failure, timeout or cancellation makes an event go on for   *)
(* ever: what EveryCallEnds needs besides fairness.                        *)
RunsAreBounded == [][\A c \in Callers : Step(c) /\ pc[c] \in Busy => Onward(c)]_vars

LEMMA TurnIsOnward ==
    ASSUME Inv, NEW c \in Callers, NextProvider(c) PROVE Onward(c)
<1>1. Types /\ Own(c)
    BY DEF Inv
<1>2. local[c].at \in Nat
    BY <1>1, ProviderFacts DEF Own
<1>3. CASE LastProvider(c)
  <2>1. /\ pc' = [pc EXCEPT ![c] = "event"]
        /\ local' = [local EXCEPT ![c].at = 1, ![c].todo = Tail(@)]
      BY <1>3 DEF NextProvider, Goto
  <2>. QED
      BY <1>1, <2>1 DEF Types, Own, Onward, EventDone
<1>4. CASE ~LastProvider(c)
  <2>1. /\ pc' = [pc EXCEPT ![c] = "enqueue"] /\ local' = [local EXCEPT ![c].at = @ + 1]
      BY <1>4 DEF NextProvider, Goto
  <2>2. /\ pc'[c] = "enqueue" /\ local'[c].todo = local[c].todo
        /\ local'[c].at = local[c].at + 1
      BY <1>1, <2>1 DEF Types, Own
  <2>. QED
      BY <1>2, <2>2 DEF Onward, Nearer, Busy
<1>. QED
    BY <1>3, <1>4

LEMMA FurtherIsOnward ==
    ASSUME NEW c \in Callers, pc[c] \in Busy, pc'[c] \in Busy, Place[pc'[c]] > Place[pc[c]],
           local'[c].todo = local[c].todo, local'[c].at = local[c].at
    PROVE  Onward(c)
BY DEF Onward, Nearer

LEMMA AttemptIsOnward ==
    ASSUME Inv, NEW c \in Callers, Attempt(c) PROVE Onward(c)
<1>1. Types /\ Own(c) /\ pc[c] = "attempt" /\ pc' = pc /\ local[c].attempts \in Nat
    BY SetupFacts DEF Inv, Attempt, Own, Types
<1>2. PICK ok \in BOOLEAN :
        local' = [local EXCEPT ![c].attempts = Counted(c), ![c].lastErr = LastError(ok),
                               ![c].unit = IF ok THEN @ + 1 ELSE @]
    BY DEF Attempt
<1> DEFINE e == LastError(ok)
           u == IF ok THEN local[c].unit + 1 ELSE local[c].unit
           r == [[[local[c] EXCEPT !.attempts = Counted(c)]
                     EXCEPT !.lastErr = e] EXCEPT !.unit = u]
<1>3. local' = [local EXCEPT ![c] = r]
    BY <1>2
<1>. HIDE DEF e, u
<1>4. /\ r.todo = local[c].todo /\ r.at = local[c].at
      /\ r.attempts = local[c].attempts + 1
    BY <1>1 DEF Own, Counted
<1>. HIDE DEF r
<1>5. local'[c] = r
    BY <1>1, <1>3 DEF Types
<1>. QED
    BY <1>1, <1>4, <1>5 DEF Onward, Nearer, Busy

LEMMA StepIsOnward ==
    ASSUME Inv, NEW c \in Callers, Step(c), pc[c] \in Busy PROVE Onward(c)
<1>1. Types /\ Own(c)
    BY DEF Inv
<1>2. CASE EnqueueJob(c)
  <2>1. CASE Goto(c, "run") /\ UNCHANGED local
    <3>1. pc[c] = "enqueue" /\ pc'[c] = "run"
        BY <1>1, <1>2, <2>1 DEF EnqueueJob, Goto, Types
    <3>. QED
        BY <2>1, <3>1, FurtherIsOnward DEF Busy, Place
  <2>2. CASE NextProvider(c)
      BY <2>2, TurnIsOnward
  <2>. QED
      BY <1>2, <2>1, <2>2 DEF EnqueueJob
<1>3. CASE BeginRun(c)
  <2>1. CASE Goto(c, "failed") /\ UNCHANGED local
    <3>1. pc[c] = "run" /\ pc'[c] = "failed"
        BY <1>1, <1>3, <2>1 DEF BeginRun, Goto, Types
    <3>. QED
        BY <2>1, <3>1, FurtherIsOnward DEF Busy, Place
  <2>2. CASE NextProvider(c)
      BY <2>2, TurnIsOnward
  <2>3. CASE /\ Goto(c, "attempt")
             /\ local' = [local EXCEPT ![c].unit = 1, ![c].attempts = 0,
                                       ![c].lastErr = FALSE]
    <3>1. pc[c] = "run" /\ pc'[c] = "attempt"
        BY <1>1, <1>3, <2>3 DEF BeginRun, Goto, Types
    <3>2. local'[c].todo = local[c].todo /\ local'[c].at = local[c].at
        BY <1>1, <2>3 DEF Types, Own
    <3>. QED
        BY <3>1, <3>2, FurtherIsOnward DEF Busy, Place
  <2>. QED
      BY <1>3, <2>1, <2>2, <2>3 DEF BeginRun, Succeed
<1>4. CASE EndRun(c)
  <2>1. CASE Goto(c, "failed") /\ UNCHANGED local
    <3>1. pc[c] = "attempt" /\ pc'[c] = "failed"
        BY <1>1, <1>4, <2>1 DEF EndRun, Goto, Types
    <3>. QED
        BY <2>1, <3>1, FurtherIsOnward DEF Busy, Place
  <2>2. CASE NextProvider(c)
      BY <2>2, TurnIsOnward
  <2>. QED
      BY <1>4, <2>1, <2>2 DEF EndRun, Succeed
<1>5. CASE RecordFailure(c)
    BY <1>5, TurnIsOnward DEF RecordFailure
<1>6. CASE Attempt(c)
    BY <1>6, AttemptIsOnward
<1>7. ~(StartProcess(c) \/ StartRetry(c) \/ BeginEvent(c) \/ Finish(c))
    BY DEF StartProcess, StartRetry, BeginEvent, Finish, Busy
<1>. QED
    BY <1>2, <1>3, <1>4, <1>5, <1>6, <1>7 DEF Step

(* No event goes on for ever, whatever the providers, the store and the     *)
(* client do: each step of Process and of the retry loops is an advance.   *)
THEOREM RunsAreBoundedHolds == Spec => RunsAreBounded
<1>1. Inv => \A c \in Callers : Step(c) /\ pc[c] \in Busy => Onward(c)
    BY StepIsOnward
<1>. QED
    BY <1>1, Invariance, PTL DEF RunsAreBounded
=============================================================================
