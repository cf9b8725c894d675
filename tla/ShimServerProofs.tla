-------------------------- MODULE ShimServerProofs --------------------------
(* Proofs about ShimServer, for any number of requests and of slots.       *)
EXTENDS ShimServer, FiniteSetTheorems, TLAPS

Holders == {r \in Requests : pc[r] \in Holding}

(* Slots are counted, also where there may be no end of requests.          *)
SlotsCounted == IsFiniteSet(Holders) /\ queue = Cardinality(Holders)

(* What a request has come to, beside its place in serveHTTP: it is not     *)
(* given to the child before it has passed every gate, a 4xx status is     *)
(* written before that, and the child answers once it has executed it.     *)
Progress(r) ==
    /\ executions[r] \in {0, 1}
    /\ call[r] = "idle" => executions[r] = 0
    /\ call[r] = "answered" => executions[r] = 1
    /\ pc[r] \in {"idle", "gates", "read", "dispatch", "bootstrap"} => call[r] = "idle"
    /\ pc[r] # "done" => status[r] = NotSent
    /\ status[r] \in 400..499 => call[r] = "idle"
    /\ shape[r].kind = "call" /\ status[r] = 200 =>
         /\ call[r] = "answered"
         /\ body[r] = "-32601" <=> backend[r] = "unsupported"

InOrder == \A r \in Requests : Progress(r)

-----------------------------------------------------------------------------
(* The status of a gate is one of the 4xx.                                 *)
LEMMA GateStatus ==
    /\ \A i \in DOMAIN OuterGates : StatusOf(OuterGates[i]) \in {404, 405, 415, 401}
    /\ \A i \in DOMAIN InnerGates : StatusOf(InnerGates[i]) \in {413, 400}
<1>1. DOMAIN OuterGates = 1..4 /\ DOMAIN InnerGates = 1..2
    BY DEF OuterGates, InnerGates
<1>2. \A i \in 1..4 : i = 1 \/ i = 2 \/ i = 3 \/ i = 4
    OBVIOUS
<1>3. \A i \in 1..2 : i = 1 \/ i = 2
    OBVIOUS
<1>4. \A i \in 1..4 : StatusOf(OuterGates[i]) \in {404, 405, 415, 401}
    BY <1>2 DEF OuterGates, StatusOf
<1>5. \A i \in 1..2 : StatusOf(InnerGates[i]) \in {413, 400}
    BY <1>3 DEF InnerGates, StatusOf
<1>. QED
    BY <1>1, <1>4, <1>5

LEMMA ChildStatus == \A err \in ChildErrors : Translate(err) \in {502, 503, 504}
BY DEF Translate, ChildErrors

(* Type correctness: no handler leaves the queue beyond its capacity.      *)
LEMMA TypeStep == TypeOK /\ [Next]_vars => TypeOK'
<1> SUFFICES ASSUME TypeOK, [Next]_vars PROVE TypeOK'
    OBVIOUS
<1> USE ServerAssumption, GateStatus, ChildStatus
    DEF TypeOK, PCs, handlerVars, lifecycleVars, Reply
<1>1. ASSUME NEW r \in Requests, Arrive(r) PROVE TypeOK'
    BY <1>1 DEF Arrive
<1>2. ASSUME NEW r \in Requests, RefuseOuter(r) PROVE TypeOK'
    BY <1>2 DEF RefuseOuter
<1>3. ASSUME NEW r \in Requests, Acquire(r) PROVE TypeOK'
    BY <1>3 DEF Acquire, Admitted
<1>4. ASSUME NEW r \in Requests, RefuseInner(r) PROVE TypeOK'
    BY <1>4 DEF RefuseInner, Release
<1>5. ASSUME NEW r \in Requests, Decode(r) PROVE TypeOK'
    BY <1>5 DEF Decode
<1>6. ASSUME NEW r \in Requests, AnswerLocally(r) PROVE TypeOK'
  <2>1. \E code \in {200, 202}, what \in {"none", "fixed", "error", "-32601"} :
            /\ pc' = [pc EXCEPT ![r] = "done"]
            /\ status' = [status EXCEPT ![r] = code]
            /\ body' = [body EXCEPT ![r] = what]
    BY <1>6 DEF AnswerLocally
  <2>2. queue' \in 0..QueueCap
    BY <1>6 DEF AnswerLocally, Release
  <2>3. UNCHANGED <<backend, shape, call, executions, lifecycleVars>>
    BY <1>6 DEF AnswerLocally
  <2>. QED
    BY <2>1, <2>2, <2>3
<1>7. ASSUME NEW r \in Requests, Forward(r) PROVE TypeOK'
    BY <1>7 DEF Forward
<1>8. ASSUME NEW r \in Requests, Bootstrapped(r) PROVE TypeOK'
    BY <1>8 DEF Bootstrapped, Child!Submit
<1>9. ASSUME NEW r \in Requests, ChildFails(r) PROVE TypeOK'
    BY <1>9 DEF ChildFails, Child!GiveUp, Release
<1>10. ASSUME NEW r \in Requests, ChildAnswers(r) PROVE TypeOK'
    BY <1>10 DEF ChildAnswers, Answered, Child!Answer, Rewritten, Release
<1>11. ASSUME NEW r \in Requests, NotificationSent(r) PROVE TypeOK'
    BY <1>11 DEF NotificationSent, Child!GiveUp, Release
<1>12. ASSUME NEW r \in Requests, BackendExecutes(r) PROVE TypeOK'
    BY <1>12 DEF BackendExecutes, Child!Execute
<1>13. CASE Lifecycle
    BY <1>13 DEF Lifecycle, PublishServer, Listen, Exit, CloseChild, CloseServer,
                 ServerFound, ShutdownDone
<1>14. CASE Signal
    BY <1>14 DEF Signal
<1>15. CASE Idle \/ UNCHANGED vars
    BY <1>15 DEF Idle, vars
<1>. QED
    BY <1>1, <1>2, <1>3, <1>4, <1>5, <1>6, <1>7, <1>8, <1>9, <1>10, <1>11, <1>12,
       <1>13, <1>14, <1>15 DEF Next, HandlerStep

LEMMA TypeInit == Init => TypeOK
BY ServerAssumption DEF Init, TypeOK, PCs, Child!Init

(* Every variable of the HTTP side keeps its type, so that no more than     *)
(* QueueCap handlers hold a slot and no status is one the code does not    *)
(* write.                                                                  *)
THEOREM TypeCorrect == Spec => []TypeOK
BY TypeInit, TypeStep, PTL DEF Spec
-----------------------------------------------------------------------------
(* Taking a slot and giving it back, as the set of holders sees it.         *)
LEMMA SlotTaken ==
    ASSUME SlotsCounted, NEW r \in Requests, r \notin Holders,
           Holders' = Holders \cup {r}, queue' = queue + 1
    PROVE  SlotsCounted'
BY FS_AddElement DEF SlotsCounted

LEMMA SlotReleased ==
    ASSUME SlotsCounted, NEW r \in Requests, r \in Holders,
           Holders' = Holders \ {r}, Release
    PROVE  SlotsCounted'
<1>1. /\ IsFiniteSet(Holders \ {r})
      /\ Cardinality(Holders \ {r}) = Cardinality(Holders) - 1
    BY FS_RemoveElement DEF SlotsCounted
<1>2. Cardinality(Holders) # 0
    BY FS_EmptySet DEF SlotsCounted
<1>. QED
    BY <1>1, <1>2 DEF SlotsCounted, Release

LEMMA SlotsStep == TypeOK /\ SlotsCounted /\ [Next]_vars => SlotsCounted'
<1> SUFFICES ASSUME TypeOK, SlotsCounted, [Next]_vars PROVE SlotsCounted'
    OBVIOUS
<1>1. ASSUME Holders' = Holders, queue' = queue PROVE SlotsCounted'
    BY <1>1 DEF SlotsCounted
<1>2. ASSUME NEW r \in Requests, pc[r] \in Holding, Release,
             pc' = [pc EXCEPT ![r] = "done"]
      PROVE  SlotsCounted'
  <2>1. r \in Holders /\ Holders' = Holders \ {r}
    BY <1>2 DEF TypeOK, Holders, Holding
  <2>. QED
    BY <1>2, <2>1, SlotReleased
<1>3. ASSUME NEW r \in Requests, Acquire(r) PROVE SlotsCounted'
  <2>1. CASE Admitted
    <3>1. /\ r \notin Holders
          /\ Holders' = Holders \cup {r}
          /\ queue' = queue + 1
      BY <1>3, <2>1 DEF Acquire, TypeOK, Holders, Holding
    <3>. QED
      BY <3>1, SlotTaken
  <2>2. CASE ~Admitted
    BY <1>1, <1>3, <2>2 DEF Acquire, Reply, TypeOK, Holders, Holding
  <2>. QED
    BY <2>1, <2>2
<1>4. ASSUME NEW r \in Requests, Arrive(r) PROVE SlotsCounted'
    BY <1>1, <1>4 DEF Arrive, TypeOK, Holders, Holding
<1>5. ASSUME NEW r \in Requests, RefuseOuter(r) PROVE SlotsCounted'
    BY <1>1, <1>5 DEF RefuseOuter, Reply, TypeOK, Holders, Holding
<1>6. ASSUME NEW r \in Requests, RefuseInner(r) PROVE SlotsCounted'
    BY <1>2, <1>6 DEF RefuseInner, Reply, Holding
<1>7. ASSUME NEW r \in Requests, Decode(r) PROVE SlotsCounted'
    BY <1>1, <1>7 DEF Decode, TypeOK, Holders, Holding
<1>8. ASSUME NEW r \in Requests, AnswerLocally(r) PROVE SlotsCounted'
  <2>1. pc[r] \in Holding /\ Release /\ pc' = [pc EXCEPT ![r] = "done"]
    BY <1>8 DEF AnswerLocally, Reply, Holding
  <2>. QED
    BY <1>2, <2>1
<1>9. ASSUME NEW r \in Requests, Forward(r) PROVE SlotsCounted'
    BY <1>1, <1>9 DEF Forward, TypeOK, Holders, Holding
<1>10. ASSUME NEW r \in Requests, Bootstrapped(r) PROVE SlotsCounted'
    BY <1>1, <1>10 DEF Bootstrapped, TypeOK, Holders, Holding
<1>11. ASSUME NEW r \in Requests, ChildFails(r) PROVE SlotsCounted'
    BY <1>2, <1>11 DEF ChildFails, Reply, Holding
<1>12. ASSUME NEW r \in Requests, ChildAnswers(r) PROVE SlotsCounted'
    BY <1>2, <1>12 DEF ChildAnswers, Reply, Holding
<1>13. ASSUME NEW r \in Requests, NotificationSent(r) PROVE SlotsCounted'
    BY <1>2, <1>13 DEF NotificationSent, Reply, Holding
<1>14. ASSUME NEW r \in Requests, BackendExecutes(r) PROVE SlotsCounted'
    BY <1>1, <1>14 DEF BackendExecutes, Holders
<1>15. CASE Lifecycle \/ Signal \/ Idle \/ UNCHANGED vars
    BY <1>1, <1>15 DEF Lifecycle, PublishServer, Listen, Exit, CloseChild, CloseServer,
                       ShutdownDone, Signal, Idle, vars, handlerVars, Holders
<1>. QED
    BY <1>3, <1>4, <1>5, <1>6, <1>7, <1>8, <1>9, <1>10, <1>11, <1>12, <1>13, <1>14,
       <1>15 DEF Next, HandlerStep

LEMMA SlotsInit == Init => SlotsCounted
<1> SUFFICES ASSUME Init PROVE SlotsCounted
    OBVIOUS
<1>1. Holders = {}
    BY DEF Init, Holders, Holding
<1>. QED
    BY <1>1, FS_EmptySet DEF Init, SlotsCounted

(* acquire and release: slots neither leak nor are taken twice, on any path *)
(* out of serveHTTP and for any number of requests.                        *)
THEOREM SlotsMatchHoldersHolds == Spec => []SlotsMatchHolders
<1>1. SlotsCounted => SlotsMatchHolders
    BY DEF SlotsCounted, SlotsMatchHolders, Holders
<1>. QED
    BY <1>1, TypeInit, TypeStep, SlotsInit, SlotsStep, PTL DEF Spec

-----------------------------------------------------------------------------
(* A request whose variables a step leaves alone stays where it was.        *)
LEMMA Untouched ==
    ASSUME NEW r, Progress(r),
           pc'[r] = pc[r], status'[r] = status[r], call'[r] = call[r],
           body'[r] = body[r], executions'[r] = executions[r],
           backend'[r] = backend[r], shape' = shape
    PROVE  Progress(r)'
BY DEF Progress

(* A handler that returns without having gone to the child.                 *)
LEMMA Refused ==
    ASSUME TypeOK, NEW r \in Requests, Progress(r), call[r] = "idle",
           NEW code, NEW what, Reply(r, code, what),
           shape[r].kind = "call" => code # 200,
           UNCHANGED <<call, executions, backend, shape>>
    PROVE  Progress(r)'
BY DEF Progress, Reply, TypeOK

(* One that returns after the child, with a status that is no refusal.      *)
LEMMA Returned ==
    ASSUME TypeOK, NEW r \in Requests, Progress(r), pc[r] # "done",
           NEW code \in {502, 503, 504}, NEW what, Reply(r, code, what),
           UNCHANGED <<executions, shape>>,
           call'[r] # "answered", call'[r] = "idle" => call[r] = "idle"
    PROVE  Progress(r)'
BY DEF Progress, Reply, TypeOK

LEMMA OrderStep == TypeOK /\ InOrder /\ [Next]_vars => InOrder'
<1> SUFFICES ASSUME TypeOK, InOrder, [Next]_vars, NEW s \in Requests
             PROVE  Progress(s)'
    BY DEF InOrder
<1> USE ServerAssumption
<1>0. Progress(s)
    BY DEF InOrder
<1>1. ASSUME NEW r \in Requests, Arrive(r) PROVE Progress(s)'
    BY <1>0, <1>1 DEF Arrive, Progress, TypeOK
<1>2. ASSUME NEW r \in Requests, RefuseOuter(r) PROVE Progress(s)'
  <2>1. PICK i \in DOMAIN OuterGates : Reply(r, StatusOf(OuterGates[i]), "error")
    BY <1>2 DEF RefuseOuter
  <2>2. StatusOf(OuterGates[i]) # 200
    BY GateStatus
  <2>3. pc[r] = "gates" /\ UNCHANGED <<call, executions, backend, shape>>
    BY <1>2 DEF RefuseOuter
  <2>4. CASE s = r
    BY <1>0, <2>1, <2>2, <2>3, <2>4, Refused DEF Progress
  <2>5. CASE s # r
    BY <1>0, <2>1, <2>3, <2>5, Untouched DEF Reply, TypeOK
  <2>. QED
    BY <2>4, <2>5
<1>3. ASSUME NEW r \in Requests, Acquire(r) PROVE Progress(s)'
    BY <1>0, <1>3 DEF Acquire, Reply, Progress, TypeOK
<1>4. ASSUME NEW r \in Requests, RefuseInner(r) PROVE Progress(s)'
  <2>1. PICK i \in DOMAIN InnerGates : Reply(r, StatusOf(InnerGates[i]), "error")
    BY <1>4 DEF RefuseInner
  <2>2. StatusOf(InnerGates[i]) # 200
    BY GateStatus
  <2>3. pc[r] = "read" /\ UNCHANGED <<call, executions, backend, shape>>
    BY <1>4 DEF RefuseInner
  <2>4. CASE s = r
    BY <1>0, <2>1, <2>2, <2>3, <2>4, Refused DEF Progress
  <2>5. CASE s # r
    BY <1>0, <2>1, <2>3, <2>5, Untouched DEF Reply, TypeOK
  <2>. QED
    BY <2>4, <2>5
<1>5. ASSUME NEW r \in Requests, Decode(r) PROVE Progress(s)'
    BY <1>0, <1>5 DEF Decode, Progress, TypeOK
<1>6. ASSUME NEW r \in Requests, AnswerLocally(r) PROVE Progress(s)'
  <2>1. PICK code \in {200, 202}, what \in {"none", "fixed", "error", "-32601"} :
            Reply(r, code, what)
    BY <1>6 DEF AnswerLocally
  <2>2. shape[r].kind # "call" /\ pc[r] = "dispatch"
        /\ UNCHANGED <<call, executions, backend, shape>>
    BY <1>6 DEF AnswerLocally
  <2>3. CASE s = r
    BY <1>0, <2>1, <2>2, <2>3, Refused DEF Progress
  <2>4. CASE s # r
    BY <1>0, <2>1, <2>2, <2>4, Untouched DEF Reply, TypeOK
  <2>. QED
    BY <2>3, <2>4
<1>7. ASSUME NEW r \in Requests, Forward(r) PROVE Progress(s)'
    BY <1>0, <1>7 DEF Forward, Progress, TypeOK
<1>8. ASSUME NEW r \in Requests, Bootstrapped(r) PROVE Progress(s)'
    BY <1>0, <1>8 DEF Bootstrapped, Child!Submit, Progress, TypeOK
<1>9. ASSUME NEW r \in Requests, ChildFails(r) PROVE Progress(s)'
  <2>1. PICK err \in ChildErrors : Reply(r, Translate(err), "error")
    BY <1>9 DEF ChildFails
  <2>2. Translate(err) \in {502, 503, 504}
    BY ChildStatus
  <2>3. /\ pc[r] # "done" /\ UNCHANGED <<executions, backend, shape>>
        /\ call' = call \/ Child!GiveUp(r)
    BY <1>9 DEF ChildFails, Child!GiveUp
  <2>4. call'[r] # "answered" /\ (call'[r] = "idle" => call[r] = "idle")
    BY <1>0, <1>9 DEF ChildFails, Child!GiveUp, InOrder, Progress, TypeOK
  <2>5. CASE s = r
    BY <1>0, <2>1, <2>2, <2>3, <2>4, <2>5, Returned
  <2>6. CASE s # r
    BY <1>0, <2>1, <2>3, <2>6, Untouched DEF Reply, TypeOK, Child!GiveUp
  <2>. QED
    BY <2>5, <2>6
<1>10. ASSUME NEW r \in Requests, ChildAnswers(r) PROVE Progress(s)'
  <2>1. CASE s = r
    BY <1>0, <1>10, <2>1 DEF ChildAnswers, Answered, Child!Answer, Rewritten, Reply,
                             Progress, TypeOK
  <2>2. CASE s # r
    BY <1>0, <1>10, <2>2, Untouched DEF ChildAnswers, Answered, Child!Answer, Reply,
                                        TypeOK
  <2>. QED
    BY <2>1, <2>2
<1>11. ASSUME NEW r \in Requests, NotificationSent(r) PROVE Progress(s)'
  <2>1. CASE s = r
    BY <1>0, <1>11, <2>1, Returned DEF NotificationSent, Child!GiveUp, TypeOK
  <2>2. CASE s # r
    BY <1>0, <1>11, <2>2, Untouched DEF NotificationSent, Child!GiveUp, Reply, TypeOK
  <2>. QED
    BY <2>1, <2>2
<1>12. ASSUME NEW r \in Requests, BackendExecutes(r) PROVE Progress(s)'
    BY <1>0, <1>12 DEF BackendExecutes, Child!Execute, Progress, TypeOK
<1>13. CASE Lifecycle \/ Signal \/ Idle \/ UNCHANGED vars
    BY <1>0, <1>13, Untouched
       DEF Lifecycle, PublishServer, Listen, Exit, CloseChild, CloseServer,
           ShutdownDone, Signal, Idle, vars, handlerVars
<1>. QED
    BY <1>1, <1>2, <1>3, <1>4, <1>5, <1>6, <1>7, <1>8, <1>9, <1>10, <1>11, <1>12,
       <1>13 DEF Next, HandlerStep

LEMMA OrderInit == Init => InOrder
BY ServerAssumption DEF Init, InOrder, Progress, Child!Init

LEMMA OrderHolds == Spec => []InOrder
BY TypeInit, TypeStep, OrderInit, OrderStep, PTL DEF Spec

(* serveHTTP: what was refused with a 4xx status has not been executed, and *)
(* never will be, whatever the child and the backend do.                   *)
THEOREM RefusedIsNotExecutedHolds == Spec => []RefusedIsNotExecuted
<1>1. InOrder => RefusedIsNotExecuted
    BY DEF InOrder, Progress, RefusedIsNotExecuted
<1>. QED
    BY <1>1, OrderHolds, PTL

(* serveHTTP: a call answered with 200 has been executed once, and carries  *)
(* what the backend answered.                                              *)
THEOREM SuccessIsExecutedOnceHolds == Spec => []SuccessIsExecutedOnce
<1>1. InOrder => SuccessIsExecutedOnce
    BY DEF InOrder, Progress, SuccessIsExecutedOnce
<1>. QED
    BY <1>1, OrderHolds, PTL
=============================================================================
