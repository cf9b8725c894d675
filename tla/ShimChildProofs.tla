-------------------------- MODULE ShimChildProofs --------------------------
(* Proofs about ShimChild, for any number of requests, processes, start    *)
(* attempts and any ids.                                                   *)
EXTENDS ShimChild, TLAPS

(* Facts TypeOK needs to be inductive: a start attempt is only made while   *)
(* attempts are left, and a handler past ensure has a process to talk to.  *)
AttemptsLeft ==
    \A r \in Requests : pc[r] \in {"spawn", "spawned"} => attempt[r] < MaxAttempts

ProcessKnown ==
    /\ alive => cmd # 0
    /\ \A r \in Requests :
        /\ pc[r] \in {"spawned", "publish", "boot", "register", "lock", "write",
                      "await", "bootDone"} => cmd # 0
        /\ pc[r] \in {"lock", "write", "await"} => sink[r] # 0

TypeInv == TypeOK /\ AttemptsLeft /\ ProcessKnown

LEMMA KeyInKeys == \A r \in Requests, m \in MsgKinds : Key(r, m) \in Keys
BY DEF Key, Keys

LEMMA TypeInit == Init => TypeInv
<1> SUFFICES ASSUME Init PROVE TypeInv
    OBVIOUS
<1>1. FlagsOK
    BY Zenon DEF Init, FlagsOK
<1>2. DataOK
    BY ConstantsAssumption DEF Init, DataOK, PCs, MsgKinds, Outcomes
<1>3. AttemptsLeft /\ ProcessKnown
    BY DEF Init, AttemptsLeft, ProcessKnown
<1>. QED
    BY <1>1, <1>2, <1>3 DEF TypeInv, TypeOK

LEMMA TypeStep == TypeInv /\ [Next]_vars => TypeInv'
<1> SUFFICES ASSUME TypeInv, [Next]_vars PROVE TypeInv'
    OBVIOUS
<1> USE ConstantsAssumption, KeyInKeys
    DEF TypeInv, TypeOK, FlagsOK, DataOK, AttemptsLeft, ProcessKnown, PCs,
        MsgKinds, Outcomes, rawVars, closeVars, procVars, goVars, history, stop
<1>1. ASSUME NEW r \in Requests, Arrive(r) PROVE TypeInv'
  <2>1. FlagsOK'
    BY <1>1, Zenon DEF Arrive
  <2>2. DataOK'
    BY <1>1 DEF Arrive
  <2>3. AttemptsLeft'
    BY <1>1 DEF Arrive
  <2>4. ProcessKnown'
    BY <1>1 DEF Arrive
  <2>. QED
    BY <2>1, <2>2, <2>3, <2>4
<1>2. ASSUME NEW r \in Requests, Deadline(r) PROVE TypeInv'
  <2>1. FlagsOK'
    BY <1>2, Zenon DEF Deadline
  <2>2. DataOK'
    BY <1>2 DEF Deadline
  <2>3. AttemptsLeft'
    BY <1>2 DEF Deadline
  <2>4. ProcessKnown'
    BY <1>2 DEF Deadline
  <2>. QED
    BY <2>1, <2>2, <2>3, <2>4
<1>3. ASSUME NEW r \in Requests, EnsureAlive(r) PROVE TypeInv'
  <2>1. FlagsOK'
    BY <1>3, Zenon DEF EnsureAlive
  <2>2. DataOK'
    BY <1>3 DEF EnsureAlive, AfterEnsure, StageAfterEnsure
  <2>3. AttemptsLeft'
    BY <1>3 DEF EnsureAlive, AfterEnsure, StageAfterEnsure
  <2>4. ProcessKnown'
    BY <1>3 DEF EnsureAlive, AfterEnsure, StageAfterEnsure
  <2>. QED
    BY <2>1, <2>2, <2>3, <2>4
<1>4. ASSUME NEW r \in Requests, EnsureWait(r) PROVE TypeInv'
  <2>1. FlagsOK'
    BY <1>4, Zenon DEF EnsureWait
  <2>2. DataOK'
    BY <1>4 DEF EnsureWait
  <2>3. AttemptsLeft'
    BY <1>4 DEF EnsureWait
  <2>4. ProcessKnown'
    BY <1>4 DEF EnsureWait
  <2>. QED
    BY <2>1, <2>2, <2>3, <2>4
<1>5. ASSUME NEW r \in Requests, EnsureGiveUp(r) PROVE TypeInv'
  <2>1. FlagsOK'
    BY <1>5, Zenon DEF EnsureGiveUp
  <2>2. DataOK'
    BY <1>5 DEF EnsureGiveUp, Return
  <2>3. AttemptsLeft'
    BY <1>5 DEF EnsureGiveUp, Return
  <2>4. ProcessKnown'
    BY <1>5 DEF EnsureGiveUp, Return
  <2>. QED
    BY <2>1, <2>2, <2>3, <2>4
<1>6. ASSUME NEW r \in Requests, EnsureStart(r) PROVE TypeInv'
  <2>1. FlagsOK'
    BY <1>6, Zenon DEF EnsureStart
  <2>2. DataOK'
    BY <1>6 DEF EnsureStart, BecomesStarter
  <2>3. AttemptsLeft'
    BY <1>6 DEF EnsureStart, BecomesStarter
  <2>4. ProcessKnown'
    BY <1>6 DEF EnsureStart, BecomesStarter
  <2>. QED
    BY <2>1, <2>2, <2>3, <2>4
<1>7. ASSUME NEW r \in Requests, Spawn(r) PROVE TypeInv'
  <2>1. FlagsOK'
    BY <1>7, Zenon DEF Spawn
  <2>2. DataOK'
    BY <1>7 DEF Spawn, Procs
  <2>3. AttemptsLeft'
    BY <1>7 DEF Spawn
  <2>4. ProcessKnown'
    BY <1>7 DEF Spawn
  <2>. QED
    BY <2>1, <2>2, <2>3, <2>4
<1>8. ASSUME NEW r \in Requests, SpawnFails(r) PROVE TypeInv'
  <2>1. FlagsOK'
    BY <1>8, Zenon DEF SpawnFails
  <2>2. DataOK'
    BY <1>8 DEF SpawnFails
  <2>3. AttemptsLeft'
    BY <1>8 DEF SpawnFails
  <2>4. ProcessKnown'
    BY <1>8 DEF SpawnFails
  <2>. QED
    BY <2>1, <2>2, <2>3, <2>4
<1>9. ASSUME NEW r \in Requests, SpawnCheck(r) PROVE TypeInv'
  <2>1. FlagsOK'
    BY <1>9, Zenon DEF SpawnCheck
  <2>2. DataOK'
    BY <1>9 DEF SpawnCheck, Cancelled
  <2>3. AttemptsLeft'
    BY <1>9 DEF SpawnCheck, Cancelled
  <2>4. ProcessKnown'
    BY <1>9 DEF SpawnCheck, Cancelled
  <2>. QED
    BY <2>1, <2>2, <2>3, <2>4
<1>10. ASSUME NEW r \in Requests, Retry(r) PROVE TypeInv'
  <2>1. FlagsOK'
    BY <1>10, Zenon DEF Retry
  <2>2. DataOK'
    BY <1>10 DEF Retry
  <2>3. AttemptsLeft'
    BY <1>10 DEF Retry
  <2>4. ProcessKnown'
    BY <1>10 DEF Retry
  <2>. QED
    BY <2>1, <2>2, <2>3, <2>4
<1>11. ASSUME NEW r \in Requests, StartFailed(r) PROVE TypeInv'
  <2>1. FlagsOK'
    BY <1>11, Zenon DEF StartFailed
  <2>2. DataOK'
    BY <1>11 DEF StartFailed, Return, Awoken
  <2>3. AttemptsLeft'
    BY <1>11 DEF StartFailed, Return, Awoken
  <2>4. ProcessKnown'
    BY <1>11 DEF StartFailed, Return, Awoken
  <2>. QED
    BY <2>1, <2>2, <2>3, <2>4
<1>12. ASSUME NEW r \in Requests, Publish(r) PROVE TypeInv'
  <2>1. FlagsOK'
    BY <1>12, Zenon DEF Publish
  <2>2. DataOK'
    BY <1>12 DEF Publish, Awoken, AfterEnsure, StageAfterEnsure
  <2>3. AttemptsLeft'
    BY <1>12 DEF Publish, Awoken, AfterEnsure, StageAfterEnsure
  <2>4. ProcessKnown'
    BY <1>12 DEF Publish, Awoken, AfterEnsure, StageAfterEnsure
  <2>. QED
    BY <2>1, <2>2, <2>3, <2>4
<1>13. ASSUME NEW r \in Requests, BootCheck(r) PROVE TypeInv'
  <2>1. FlagsOK'
    BY <1>13, Zenon DEF BootCheck
  <2>2. DataOK'
    BY <1>13 DEF BootCheck, AfterBootstrap
  <2>3. AttemptsLeft'
    BY <1>13 DEF BootCheck, AfterBootstrap
  <2>4. ProcessKnown'
    BY <1>13 DEF BootCheck, AfterBootstrap
  <2>. QED
    BY <2>1, <2>2, <2>3, <2>4
<1>14. ASSUME NEW r \in Requests, BootDone(r) PROVE TypeInv'
  <2>1. FlagsOK'
    BY <1>14, Zenon DEF BootDone
  <2>2. DataOK'
    BY <1>14 DEF BootDone, AfterBootstrap
  <2>3. AttemptsLeft'
    BY <1>14 DEF BootDone, AfterBootstrap
  <2>4. ProcessKnown'
    BY <1>14 DEF BootDone, AfterBootstrap
  <2>. QED
    BY <2>1, <2>2, <2>3, <2>4
<1>15. ASSUME NEW r \in Requests, Register(r) PROVE TypeInv'
  <2>1. FlagsOK'
    BY <1>15, Zenon DEF Register
  <2>2. DataOK'
    BY <1>15 DEF Register, ExpectsResponse
  <2>3. AttemptsLeft'
    BY <1>15 DEF Register, ExpectsResponse
  <2>4. ProcessKnown'
    BY <1>15 DEF Register, ExpectsResponse
  <2>. QED
    BY <2>1, <2>2, <2>3, <2>4
<1>16. ASSUME NEW r \in Requests, RegisterRefused(r) PROVE TypeInv'
  <2>1. FlagsOK'
    BY <1>16, Zenon DEF RegisterRefused
  <2>2. DataOK'
    BY <1>16 DEF RegisterRefused, Return
  <2>3. AttemptsLeft'
    BY <1>16 DEF RegisterRefused, Return
  <2>4. ProcessKnown'
    BY <1>16 DEF RegisterRefused, Return
  <2>. QED
    BY <2>1, <2>2, <2>3, <2>4
<1>17. ASSUME NEW r \in Requests, LockWriter(r) PROVE TypeInv'
  <2>1. FlagsOK'
    BY <1>17, Zenon DEF LockWriter
  <2>2. DataOK'
    BY <1>17 DEF LockWriter
  <2>3. AttemptsLeft'
    BY <1>17 DEF LockWriter
  <2>4. ProcessKnown'
    BY <1>17 DEF LockWriter
  <2>. QED
    BY <2>1, <2>2, <2>3, <2>4
<1>18. ASSUME NEW r \in Requests, Write(r) PROVE TypeInv'
  <2>1. FlagsOK'
    BY <1>18, Zenon DEF Write
  <2>p. sink[r] \in Procs
    BY <1>18 DEF Write, Procs
  <2>w. wire' \subseteq WireMsgs
    BY <1>18, <2>p DEF Write, WireMsgs
  <2>2. DataOK'
    BY <1>18, <2>p, <2>w DEF Write, Return
  <2>3. AttemptsLeft'
    BY <1>18 DEF Write, Return, WireMsgs, ExpectsResponse
  <2>4. ProcessKnown'
    BY <1>18 DEF Write, Return, WireMsgs, ExpectsResponse
  <2>. QED
    BY <2>1, <2>2, <2>3, <2>4
<1>19. ASSUME NEW r \in Requests, WriteFails(r) PROVE TypeInv'
  <2>1. FlagsOK'
    BY <1>19, Zenon DEF WriteFails
  <2>2. DataOK'
    BY <1>19 DEF WriteFails, Return, Forget
  <2>3. AttemptsLeft'
    BY <1>19 DEF WriteFails, Return, Forget
  <2>4. ProcessKnown'
    BY <1>19 DEF WriteFails, Return, Forget
  <2>. QED
    BY <2>1, <2>2, <2>3, <2>4
<1>20. ASSUME NEW r \in Requests, Receive(r) PROVE TypeInv'
  <2>1. FlagsOK'
    BY <1>20, Zenon DEF Receive
  <2>2. DataOK'
    BY <1>20, SMTT(30) DEF Receive, Return
  <2>3. AttemptsLeft'
    BY <1>20 DEF Receive, Return
  <2>4. ProcessKnown'
    BY <1>20 DEF Receive, Return
  <2>. QED
    BY <2>1, <2>2, <2>3, <2>4
<1>21. ASSUME NEW r \in Requests, ReceiveNil(r) PROVE TypeInv'
  <2>1. FlagsOK'
    BY <1>21, Zenon DEF ReceiveNil
  <2>2. DataOK'
    BY <1>21 DEF ReceiveNil, Return
  <2>3. AttemptsLeft'
    BY <1>21 DEF ReceiveNil, Return
  <2>4. ProcessKnown'
    BY <1>21 DEF ReceiveNil, Return
  <2>. QED
    BY <2>1, <2>2, <2>3, <2>4
<1>22. ASSUME NEW r \in Requests, TimeOut(r) PROVE TypeInv'
  <2>1. FlagsOK'
    BY <1>22, Zenon DEF TimeOut
  <2>2. DataOK'
    BY <1>22 DEF TimeOut, Return, Forget
  <2>3. AttemptsLeft'
    BY <1>22 DEF TimeOut, Return, Forget
  <2>4. ProcessKnown'
    BY <1>22 DEF TimeOut, Return, Forget
  <2>. QED
    BY <2>1, <2>2, <2>3, <2>4
<1>23. ASSUME NEW p \in Procs, BackendReads(p) PROVE TypeInv'
  <2>1. FlagsOK'
    BY <1>23, Zenon DEF BackendReads
  <2>2. DataOK'
    BY <1>23 DEF BackendReads, InPipe, WireMsgs
  <2>3. AttemptsLeft'
    BY <1>23 DEF BackendReads, InPipe, WireMsgs
  <2>4. ProcessKnown'
    BY <1>23 DEF BackendReads, InPipe, WireMsgs
  <2>. QED
    BY <2>1, <2>2, <2>3, <2>4
<1>24. ASSUME NEW p \in Procs, BackendAnswers(p) PROVE TypeInv'
  <2>1. FlagsOK'
    BY <1>24, Zenon DEF BackendAnswers
  <2>2. DataOK'
    BY <1>24 DEF BackendAnswers, WireMsgs
  <2>3. AttemptsLeft'
    BY <1>24 DEF BackendAnswers, WireMsgs
  <2>4. ProcessKnown'
    BY <1>24 DEF BackendAnswers, WireMsgs
  <2>. QED
    BY <2>1, <2>2, <2>3, <2>4
<1>25. ASSUME NEW p \in Procs, BackendExits(p) PROVE TypeInv'
  <2>1. FlagsOK'
    BY <1>25, Zenon DEF BackendExits
  <2>2. DataOK'
    BY <1>25 DEF BackendExits
  <2>3. AttemptsLeft'
    BY <1>25 DEF BackendExits
  <2>4. ProcessKnown'
    BY <1>25 DEF BackendExits
  <2>. QED
    BY <2>1, <2>2, <2>3, <2>4
<1>26. ASSUME NEW p \in Procs, Deliver(p) PROVE TypeInv'
  <2>1. FlagsOK'
    BY <1>26, Zenon DEF Deliver
  <2>2. DataOK'
    BY <1>26 DEF Deliver, WireMsgs, Bodies
  <2>3. AttemptsLeft'
    BY <1>26 DEF Deliver, WireMsgs, Bodies
  <2>4. ProcessKnown'
    BY <1>26 DEF Deliver, WireMsgs, Bodies
  <2>. QED
    BY <2>1, <2>2, <2>3, <2>4
<1>27. ASSUME NEW p \in Procs, ReadEOF(p) PROVE TypeInv'
  <2>1. FlagsOK'
    BY <1>27, Zenon DEF ReadEOF
  <2>2. DataOK'
    BY <1>27 DEF ReadEOF
  <2>3. AttemptsLeft'
    BY <1>27 DEF ReadEOF
  <2>4. ProcessKnown'
    BY <1>27 DEF ReadEOF
  <2>. QED
    BY <2>1, <2>2, <2>3, <2>4
<1>28. ASSUME NEW p \in Procs, ReadFails(p) PROVE TypeInv'
  <2>1. FlagsOK'
    BY <1>28, Zenon DEF ReadFails
  <2>2. DataOK'
    BY <1>28 DEF ReadFails, Drain, Awoken
  <2>3. AttemptsLeft'
    BY <1>28 DEF ReadFails, Drain, Awoken
  <2>4. ProcessKnown'
    BY <1>28 DEF ReadFails, Drain, Awoken
  <2>. QED
    BY <2>1, <2>2, <2>3, <2>4
<1>29. ASSUME NEW p \in Procs, Reap(p) PROVE TypeInv'
  <2>1. FlagsOK'
    BY <1>29, Zenon DEF Reap
  <2>2. DataOK'
    BY <1>29 DEF Reap
  <2>3. AttemptsLeft'
    BY <1>29 DEF Reap
  <2>4. ProcessKnown'
    BY <1>29 DEF Reap
  <2>. QED
    BY <2>1, <2>2, <2>3, <2>4
<1>30. ASSUME NEW p \in Procs, ReportExit(p) PROVE TypeInv'
  <2>1. FlagsOK'
    BY <1>30, Zenon DEF ReportExit
  <2>2. DataOK'
    BY <1>30 DEF ReportExit, Drain, Awoken
  <2>3. AttemptsLeft'
    BY <1>30 DEF ReportExit, Drain, Awoken
  <2>4. ProcessKnown'
    BY <1>30 DEF ReportExit, Drain, Awoken
  <2>. QED
    BY <2>1, <2>2, <2>3, <2>4
<1>31. CASE CloseMark
  <2>1. FlagsOK'
    BY <1>31, Zenon DEF CloseMark
  <2>2. DataOK' /\ AttemptsLeft' /\ ProcessKnown'
    BY <1>31 DEF CloseMark
  <2>. QED
    BY <2>1, <2>2
<1>32. CASE CloseKill
  <2>1. FlagsOK'
    BY <1>32, Zenon DEF CloseKill, Awoken
  <2>2. DataOK' /\ AttemptsLeft' /\ ProcessKnown'
    BY <1>32 DEF CloseKill, Awoken
  <2>. QED
    BY <2>1, <2>2
<1>33. CASE UNCHANGED vars
  <2>1. FlagsOK'
    BY <1>33, Zenon DEF vars
  <2>2. DataOK' /\ AttemptsLeft' /\ ProcessKnown'
    BY <1>33 DEF vars
  <2>. QED
    BY <2>1, <2>2
<1>. QED
    BY <1>1, <1>2, <1>3, <1>4, <1>5, <1>6, <1>7, <1>8, <1>9, <1>10, <1>11, <1>12, <1>13, <1>14, <1>15, <1>16, <1>17, <1>18, <1>19, <1>20, <1>21, <1>22, <1>23, <1>24, <1>25, <1>26, <1>27, <1>28, <1>29, <1>30, <1>31, <1>32, <1>33
    DEF Next, HandlerStep, LoopStep, BackendStep, Idle

(* Every variable keeps its type, start attempts stay within the limit and  *)
(* no message is addressed to a process that was never started.            *)
THEOREM TypeCorrect == Spec => []TypeOK
<1>1. TypeInv => TypeOK
    BY DEF TypeInv
<1>. QED
    BY <1>1, TypeInit, TypeStep, PTL DEF Spec

-----------------------------------------------------------------------------
(* The inductive invariant behind OwnAnswer, PendingIsLive and             *)
(* CallStaysRegistered.                                                    *)

AwaitExpects == \A r \in Requests : pc[r] = "await" => ExpectsResponse(r, msg[r])

(* A notification never gets past the stdin pipe.                          *)
OutExpects == \A w \in wire : w.at # "pipe" => ExpectsResponse(w.from, w.msg)

(* A call is on the wire only while its sender waits for it or has left,   *)
(* and it is where the sender put it.                                      *)
CallOnWire ==
    \A w \in wire : w.msg = "call" =>
        /\ w.to = sink[w.from]
        /\ pc[w.from] = "done" \/ (pc[w.from] = "await" /\ msg[w.from] = "call")

(* OwnAnswer, one step before sendRaw returns.                             *)
InboxIsOwn ==
    \A r \in Requests :
        Private(r) /\ InSendRaw(r) /\ msg[r] = "call" /\ inbox[r] \in Bodies
            => inbox[r] = [from |-> r, msg |-> "call", by |-> sink[r]]

ResponseMeansDone == \A r \in Requests : outcome[r] = "response" => pc[r] = "done"

IInv == /\ AwaitExpects /\ OutExpects /\ CallOnWire /\ InboxIsOwn
        /\ ResponseMeansDone /\ PendingIsLive /\ CallStaysRegistered /\ OwnAnswer

LEMMA SafetyInit == Init => IInv
BY ConstantsAssumption
   DEF Init, IInv, AwaitExpects, OutExpects, CallOnWire, InboxIsOwn, InSendRaw,
       ResponseMeansDone, PendingIsLive, CallStaysRegistered, OwnAnswer

(* Consequences of the types and of Private, as the steps below need them.  *)
LEMMA WireTyped ==
    ASSUME TypeOK, NEW w \in wire
    PROVE  w.from \in Requests /\ w.to \in Procs /\ w.msg \in MsgKinds
BY DEF TypeOK, DataOK, WireMsgs

LEMMA PrivateKey ==
    ASSUME NEW r \in Requests, Private(r), NEW q \in Requests, NEW m \in MsgKinds,
           Key(q, m) = CallKey(r)
    PROVE  q = r /\ m # "init"
BY DEF Private, Key

LEMMA SafetyStep == TypeInv /\ IInv /\ [Next]_vars => IInv'
<1> SUFFICES ASSUME TypeInv, IInv, [Next]_vars PROVE IInv'
    OBVIOUS
<1> USE ConstantsAssumption, KeyInKeys
    DEF TypeInv, TypeOK, DataOK, PCs, MsgKinds, IInv, AwaitExpects, OutExpects,
        CallOnWire, InboxIsOwn, InSendRaw, ResponseMeansDone, PendingIsLive,
        CallStaysRegistered, OwnAnswer, rawVars, closeVars, procVars, goVars,
        history
<1>1. ASSUME NEW r \in Requests, Arrive(r) PROVE IInv'
    BY <1>1 DEF Arrive
<1>2. ASSUME NEW r \in Requests, Deadline(r) PROVE IInv'
    BY <1>2 DEF Deadline
<1>3. ASSUME NEW r \in Requests, EnsureAlive(r) PROVE IInv'
    BY <1>3 DEF EnsureAlive, AfterEnsure, StageAfterEnsure
<1>4. ASSUME NEW r \in Requests, EnsureWait(r) PROVE IInv'
    BY <1>4 DEF EnsureWait
<1>5. ASSUME NEW r \in Requests, EnsureGiveUp(r) PROVE IInv'
    BY <1>5 DEF EnsureGiveUp, Return
<1>6. ASSUME NEW r \in Requests, EnsureStart(r) PROVE IInv'
    BY <1>6 DEF EnsureStart, BecomesStarter
<1>7. ASSUME NEW r \in Requests, Spawn(r) PROVE IInv'
    BY <1>7 DEF Spawn
<1>8. ASSUME NEW r \in Requests, SpawnFails(r) PROVE IInv'
    BY <1>8 DEF SpawnFails
<1>9. ASSUME NEW r \in Requests, SpawnCheck(r) PROVE IInv'
  <2>1. CallOnWire'
    BY <1>9, WireTyped DEF SpawnCheck, Cancelled
  <2>2. AwaitExpects' /\ OutExpects' /\ InboxIsOwn' /\ ResponseMeansDone'
    BY <1>9 DEF SpawnCheck, Cancelled
  <2>3. PendingIsLive' /\ CallStaysRegistered' /\ OwnAnswer'
    BY <1>9 DEF SpawnCheck, Cancelled
  <2>. QED
    BY <2>1, <2>2, <2>3
<1>10. ASSUME NEW r \in Requests, Retry(r) PROVE IInv'
    BY <1>10 DEF Retry
<1>11. ASSUME NEW r \in Requests, StartFailed(r) PROVE IInv'
  <2>1. CallOnWire'
    BY <1>11, WireTyped DEF StartFailed, Return, Awoken
  <2>2. AwaitExpects' /\ OutExpects' /\ InboxIsOwn' /\ ResponseMeansDone'
    BY <1>11 DEF StartFailed, Return, Awoken
  <2>3. PendingIsLive' /\ CallStaysRegistered' /\ OwnAnswer'
    BY <1>11 DEF StartFailed, Return, Awoken
  <2>. QED
    BY <2>1, <2>2, <2>3
<1>12. ASSUME NEW r \in Requests, Publish(r) PROVE IInv'
  <2>1. CallOnWire'
    BY <1>12, WireTyped DEF Publish, Awoken, AfterEnsure, StageAfterEnsure
  <2>2. AwaitExpects' /\ OutExpects' /\ InboxIsOwn' /\ ResponseMeansDone'
    BY <1>12 DEF Publish, Awoken, AfterEnsure, StageAfterEnsure
  <2>3. PendingIsLive'
    BY <1>12 DEF Publish, Awoken, AfterEnsure, StageAfterEnsure
  <2>4. CallStaysRegistered' /\ OwnAnswer'
    BY <1>12 DEF Publish, Awoken, AfterEnsure, StageAfterEnsure
  <2>. QED
    BY <2>1, <2>2, <2>3, <2>4
<1>13. ASSUME NEW r \in Requests, BootCheck(r) PROVE IInv'
  <2>1. CallOnWire'
    BY <1>13, WireTyped DEF BootCheck, AfterBootstrap
  <2>2. AwaitExpects' /\ OutExpects' /\ InboxIsOwn' /\ ResponseMeansDone'
    BY <1>13 DEF BootCheck, AfterBootstrap
  <2>3. PendingIsLive' /\ CallStaysRegistered' /\ OwnAnswer'
    BY <1>13 DEF BootCheck, AfterBootstrap
  <2>. QED
    BY <2>1, <2>2, <2>3
<1>14. ASSUME NEW r \in Requests, BootDone(r) PROVE IInv'
    BY <1>14 DEF BootDone, AfterBootstrap
<1>15. ASSUME NEW r \in Requests, Register(r) PROVE IInv'
  <2>1. CallStaysRegistered'
    <3> SUFFICES ASSUME NEW q \in Requests,
                        (Private(q) /\ InSendRaw(q) /\ msg[q] = "call"
                            /\ inbox[q] = None)'
                 PROVE  (pending[CallKey(q)] = q)'
        BY DEF CallStaysRegistered
    <3>1. CASE q = r
        BY <1>15, <3>1 DEF Register, ExpectsResponse, Key, Private
    <3>2. CASE q # r
      <4>1. Key(r, msg[r]) # CallKey(q)
        BY <3>2, PrivateKey DEF Private
      <4>2. CallKey(q) \in Keys
        BY DEF Keys
      <4>. QED
        BY <1>15, <3>2, <4>1, <4>2 DEF Register, ExpectsResponse, Private
    <3>. QED
        BY <3>1, <3>2
  <2>2. AwaitExpects' /\ OutExpects' /\ CallOnWire' /\ InboxIsOwn'
    BY <1>15 DEF Register, ExpectsResponse
  <2>3. ResponseMeansDone' /\ PendingIsLive' /\ OwnAnswer'
    BY <1>15 DEF Register, ExpectsResponse
  <2>. QED
    BY <2>1, <2>2, <2>3
<1>16. ASSUME NEW r \in Requests, RegisterRefused(r) PROVE IInv'
    BY <1>16 DEF RegisterRefused, Return
<1>17. ASSUME NEW r \in Requests, LockWriter(r) PROVE IInv'
    BY <1>17 DEF LockWriter
<1>18. ASSUME NEW r \in Requests, Write(r) PROVE IInv'
    BY <1>18, SMTT(30) DEF Write, Return, WireMsgs, ExpectsResponse
<1>19. ASSUME NEW r \in Requests, WriteFails(r) PROVE IInv'
  <2>1. CallStaysRegistered'
    <3> SUFFICES ASSUME NEW q \in Requests,
                        (Private(q) /\ InSendRaw(q) /\ msg[q] = "call"
                            /\ inbox[q] = None)'
                 PROVE  (pending[CallKey(q)] = q)'
        BY DEF CallStaysRegistered
    <3>1. CASE q = r
        BY <1>19, <3>1 DEF WriteFails, Return, Forget, Key, Private
    <3>2. CASE q # r
      <4>1. Key(r, msg[r]) # CallKey(q)
        BY <3>2, PrivateKey DEF Private
      <4>. QED
        BY <1>19, <3>2, <4>1 DEF WriteFails, Return, Forget, Private
    <3>. QED
        BY <3>1, <3>2
  <2>2. AwaitExpects' /\ OutExpects' /\ CallOnWire' /\ InboxIsOwn'
    BY <1>19 DEF WriteFails, Return, Forget
  <2>3. ResponseMeansDone' /\ PendingIsLive' /\ OwnAnswer'
    BY <1>19 DEF WriteFails, Return, Forget
  <2>. QED
    BY <2>1, <2>2, <2>3
<1>20. ASSUME NEW r \in Requests, Receive(r) PROVE IInv'
  <2>1. CallOnWire'
    BY <1>20, WireTyped DEF Receive, Return
  <2>2. AwaitExpects' /\ OutExpects' /\ InboxIsOwn' /\ ResponseMeansDone'
    BY <1>20 DEF Receive, Return
  <2>3. PendingIsLive' /\ CallStaysRegistered' /\ OwnAnswer'
    BY <1>20 DEF Receive, Return
  <2>. QED
    BY <2>1, <2>2, <2>3
<1>21. ASSUME NEW r \in Requests, ReceiveNil(r) PROVE IInv'
    BY <1>21 DEF ReceiveNil, Return
<1>22. ASSUME NEW r \in Requests, TimeOut(r) PROVE IInv'
  <2>1. CallStaysRegistered'
    <3> SUFFICES ASSUME NEW q \in Requests,
                        (Private(q) /\ InSendRaw(q) /\ msg[q] = "call"
                            /\ inbox[q] = None)'
                 PROVE  (pending[CallKey(q)] = q)'
        BY DEF CallStaysRegistered
    <3>1. CASE q = r
        BY <1>22, <3>1 DEF TimeOut, Return, Forget, Key, Private
    <3>2. CASE q # r
      <4>1. Key(r, msg[r]) # CallKey(q)
        BY <3>2, PrivateKey DEF Private
      <4>. QED
        BY <1>22, <3>2, <4>1 DEF TimeOut, Return, Forget, Private
    <3>. QED
        BY <3>1, <3>2
  <2>2. AwaitExpects' /\ OutExpects' /\ CallOnWire' /\ InboxIsOwn'
    BY <1>22 DEF TimeOut, Return, Forget
  <2>3. ResponseMeansDone' /\ PendingIsLive' /\ OwnAnswer'
    BY <1>22 DEF TimeOut, Return, Forget
  <2>. QED
    BY <2>1, <2>2, <2>3
<1>23. ASSUME NEW p \in Procs, BackendReads(p) PROVE IInv'
    BY <1>23 DEF BackendReads, InPipe, WireMsgs
<1>24. ASSUME NEW p \in Procs, BackendAnswers(p) PROVE IInv'
  <2>1. CallOnWire' /\ OutExpects'
    BY <1>24, WireTyped DEF BackendAnswers, WireMsgs
  <2>2. AwaitExpects' /\ InboxIsOwn' /\ ResponseMeansDone'
    BY <1>24 DEF BackendAnswers, WireMsgs, Private
  <2>3. PendingIsLive' /\ CallStaysRegistered' /\ OwnAnswer'
    BY <1>24 DEF BackendAnswers, WireMsgs, Private
  <2>. QED
    BY <2>1, <2>2, <2>3
<1>25. ASSUME NEW p \in Procs, BackendExits(p) PROVE IInv'
    BY <1>25 DEF BackendExits
<1>26. ASSUME NEW p \in Procs, Deliver(p) PROVE IInv'
  <2>1. InboxIsOwn'
    <3>1. PICK w \in wire :
             /\ w.to = p /\ w.at = "out"
             /\ inbox' = IF pending[Key(w.from, w.msg)] = None THEN inbox
                         ELSE [inbox EXCEPT ![pending[Key(w.from, w.msg)]] =
                                  [from |-> w.from, msg |-> w.msg, by |-> p]]
        BY ONLY <1>26, Zenon DEF Deliver
    <3>2. UNCHANGED <<pc, msg, sink>>
        BY <1>26 DEF Deliver
    <3> DEFINE k == Key(w.from, w.msg)
    <3> SUFFICES ASSUME NEW q \in Requests,
                        (Private(q) /\ InSendRaw(q) /\ msg[q] = "call"
                            /\ inbox[q] \in Bodies)'
                 PROVE  (inbox[q] = [from |-> q, msg |-> "call", by |-> sink[q]])'
        BY DEF InboxIsOwn
    <3>3. k \in Keys /\ w.from \in Requests /\ w.msg \in MsgKinds
        BY WireTyped
    <3>4. CASE pending[k] # q
        BY <3>1, <3>2, <3>3, <3>4 DEF Private
    <3>5. CASE pending[k] = q
      <4>1. Key(q, msg[q]) = k /\ msg[q] = "call"
        BY <3>2, <3>3, <3>5
      <4>2. k = CallKey(q)
        BY <4>1 DEF Key
      <4>3. w.from = q /\ w.msg # "init"
        BY <3>3, <4>2, PrivateKey DEF Private
      <4>4. w.msg = "call"
        BY <3>1, <3>3, <4>3 DEF ExpectsResponse
      <4>. QED
        BY <3>1, <3>2, <3>3, <3>5, <4>3, <4>4
    <3>. QED
        BY <3>4, <3>5
  <2>2. AwaitExpects' /\ OutExpects' /\ CallOnWire' /\ ResponseMeansDone'
    BY <1>26 DEF Deliver, WireMsgs, Bodies
  <2>3. PendingIsLive' /\ CallStaysRegistered' /\ OwnAnswer'
    BY <1>26 DEF Deliver, WireMsgs, Bodies
  <2>. QED
    BY <2>1, <2>2, <2>3
<1>27. ASSUME NEW p \in Procs, ReadEOF(p) PROVE IInv'
    BY <1>27 DEF ReadEOF
<1>28. ASSUME NEW p \in Procs, ReadFails(p) PROVE IInv'
  <2>1. CallOnWire'
    BY <1>28, WireTyped DEF ReadFails, Drain, Awoken
  <2>2. CallStaysRegistered'
    <3>1. \A q \in Requests : CallKey(q) \in Keys
        BY DEF Keys
    <3>. QED
        BY <1>28, <3>1 DEF ReadFails, Drain, Awoken
  <2>3. AwaitExpects' /\ OutExpects' /\ InboxIsOwn' /\ ResponseMeansDone'
    BY <1>28 DEF ReadFails, Drain, Awoken
  <2>4. PendingIsLive' /\ OwnAnswer'
    BY <1>28 DEF ReadFails, Drain, Awoken
  <2>. QED
    BY <2>1, <2>2, <2>3, <2>4
<1>29. ASSUME NEW p \in Procs, Reap(p) PROVE IInv'
    BY <1>29 DEF Reap
<1>30. ASSUME NEW p \in Procs, ReportExit(p) PROVE IInv'
  <2>1. CallOnWire'
    BY <1>30, WireTyped DEF ReportExit, Drain, Awoken
  <2>2. CallStaysRegistered'
    <3>1. \A q \in Requests : CallKey(q) \in Keys
        BY DEF Keys
    <3>. QED
        BY <1>30, <3>1 DEF ReportExit, Drain, Awoken
  <2>3. AwaitExpects' /\ OutExpects' /\ InboxIsOwn' /\ ResponseMeansDone'
    BY <1>30 DEF ReportExit, Drain, Awoken
  <2>4. PendingIsLive' /\ OwnAnswer'
    BY <1>30 DEF ReportExit, Drain, Awoken
  <2>. QED
    BY <2>1, <2>2, <2>3, <2>4
<1>31. CASE CloseMark
    BY <1>31 DEF CloseMark
<1>32. CASE CloseKill
  <2>1. CallOnWire'
    BY <1>32, WireTyped DEF CloseKill, Awoken
  <2>2. AwaitExpects' /\ OutExpects' /\ InboxIsOwn' /\ ResponseMeansDone'
    BY <1>32 DEF CloseKill, Awoken
  <2>3. PendingIsLive' /\ CallStaysRegistered' /\ OwnAnswer'
    BY <1>32 DEF CloseKill, Awoken
  <2>. QED
    BY <2>1, <2>2, <2>3
<1>33. CASE UNCHANGED vars
    BY <1>33 DEF vars
<1>. QED
    BY <1>1, <1>2, <1>3, <1>4, <1>5, <1>6, <1>7, <1>8, <1>9, <1>10, <1>11, <1>12, <1>13, <1>14, <1>15, <1>16, <1>17, <1>18, <1>19, <1>20, <1>21, <1>22, <1>23, <1>24, <1>25, <1>26, <1>27, <1>28, <1>29, <1>30, <1>31, <1>32, <1>33
    DEF Next, HandlerStep, LoopStep, BackendStep, Idle

(* TypeInv and IInv together are inductive.                                *)
LEMMA Inductive == Spec => [](TypeInv /\ IInv)
<1>. QED
    BY TypeInit, TypeStep, SafetyInit, SafetyStep, PTL DEF Spec

(* sendRaw, readLoop: a client with an id of its own never gets another     *)
(* call's answer, nor one from a child its call was not written to.        *)
THEOREM OwnAnswerHolds == Spec => []OwnAnswer
<1>1. IInv => OwnAnswer
    BY DEF IInv
<1>. QED
    BY <1>1, Inductive, PTL

(* sendRaw: such a call can be answered, or told of the child's death, for  *)
(* as long as it waits.                                                    *)
THEOREM CallStaysRegisteredHolds == Spec => []CallStaysRegistered
<1>1. IInv => CallStaysRegistered
    BY DEF IInv
<1>. QED
    BY <1>1, Inductive, PTL

(* c.pending: whatever ids the clients choose, no entry outlives its sender *)
(* and no channel is sent to twice.                                        *)
THEOREM PendingIsLiveHolds == Spec => []PendingIsLive
<1>1. IInv => PendingIsLive
    BY DEF IInv
<1>. QED
    BY <1>1, Inductive, PTL

LEMMA SingleStarterStep == TypeInv /\ SingleStarter /\ [Next]_vars => SingleStarter'
<1> SUFFICES ASSUME TypeInv, SingleStarter, [Next]_vars PROVE SingleStarter'
  OBVIOUS
<1> USE DEF TypeInv, TypeOK, DataOK, SingleStarter, SpawnPCs, rawVars, goVars
<1>1. ASSUME NEW r \in Requests, Arrive(r) \/ Deadline(r) PROVE SingleStarter'
  BY <1>1 DEF Arrive, Deadline
<1>2. ASSUME NEW r \in Requests, EnsureAlive(r) \/ EnsureWait(r) \/ EnsureGiveUp(r)
      PROVE SingleStarter'
  BY <1>2 DEF EnsureAlive, AfterEnsure, EnsureWait, EnsureGiveUp, Return
<1>3. ASSUME NEW r \in Requests, EnsureStart(r) PROVE SingleStarter'
  BY <1>3 DEF EnsureStart, BecomesStarter
<1>4. ASSUME NEW r \in Requests,
             Spawn(r) \/ SpawnFails(r) \/ SpawnCheck(r) \/ Retry(r)
      PROVE SingleStarter'
  BY <1>4 DEF Spawn, SpawnFails, SpawnCheck, Retry
<1>5. ASSUME NEW r \in Requests, StartFailed(r) PROVE SingleStarter'
  BY <1>5 DEF StartFailed, Return, Awoken
<1>6. ASSUME NEW r \in Requests, Publish(r) PROVE SingleStarter'
  BY <1>6 DEF Publish, Awoken, AfterEnsure
<1>7. ASSUME NEW r \in Requests, BootCheck(r) \/ BootDone(r) PROVE SingleStarter'
  BY <1>7 DEF BootCheck, BootDone, AfterBootstrap
<1>8. ASSUME NEW r \in Requests,
             Register(r) \/ RegisterRefused(r) \/ LockWriter(r)
      PROVE SingleStarter'
  BY <1>8 DEF Register, RegisterRefused, LockWriter, Return
<1>9. ASSUME NEW r \in Requests, Write(r) \/ WriteFails(r) PROVE SingleStarter'
  BY <1>9 DEF Write, WriteFails, Return
<1>10. ASSUME NEW r \in Requests, Receive(r) \/ ReceiveNil(r) \/ TimeOut(r)
       PROVE SingleStarter'
  BY <1>10 DEF Receive, ReceiveNil, TimeOut, Return
<1>11. ASSUME NEW p \in Procs, BackendStep(p) PROVE SingleStarter'
  BY <1>11 DEF BackendStep, BackendReads, BackendAnswers, BackendExits
<1>12. ASSUME NEW p \in Procs, Deliver(p) \/ ReadEOF(p) \/ Reap(p)
       PROVE SingleStarter'
  <2>1. UNCHANGED <<starting, pc>>
      BY <1>12, Zenon DEF Deliver, ReadEOF, Reap
  <2>. QED
      BY <2>1
<1>13. ASSUME NEW p \in Procs, ReadFails(p) \/ ReportExit(p) PROVE SingleStarter'
  BY <1>13 DEF ReadFails, ReportExit, Awoken
<1>14. CASE CloseMark \/ CloseKill
  BY <1>14 DEF CloseMark, CloseKill, Awoken
<1>15. CASE UNCHANGED vars
  BY <1>15 DEF vars
<1>. QED
  BY <1>1, <1>2, <1>3, <1>4, <1>5, <1>6, <1>7, <1>8, <1>9, <1>10, <1>11,
     <1>12, <1>13, <1>14, <1>15 DEF Next, HandlerStep, LoopStep, Idle

(* ensure: at most one goroutine starts a child.                           *)
THEOREM SingleStarterHolds == Spec => []SingleStarter
<1>1. Init => SingleStarter
    BY DEF Init, SingleStarter, SpawnPCs
<1>. QED
    BY <1>1, SingleStarterStep, Inductive, PTL DEF Spec

-----------------------------------------------------------------------------
(* The life of the processes: what ensure may rely on when it finds the    *)
(* child not alive, and what a waiter may.                                 *)

(* Numbers that were not given out name no process, and a process whose    *)
(* wait has returned has exited.                                           *)
Lives ==
    /\ closing <= cmd
    /\ \A p \in Procs : p > cmd => proc[p] = "unborn"
    /\ \A p \in Procs : waitl[p] # "wait" => proc[p] = "exited"

StartsDead == starting => ~alive

(* A child that runs is alive to the bridge or in its starter's hands: no  *)
(* path through ensure, spawn and the two loops forgets one.               *)
Watched ==
    cmd # 0 /\ proc[cmd] = "running" =>
        alive \/ \E r \in Requests : pc[r] \in {"spawned", "publish"}

LifeInv == Lives /\ StartsDead /\ Watched /\ OneServingBackend /\ NoLostWakeup

LEMMA LifeInit == Init => LifeInv
BY DEF Init, LifeInv, Lives, StartsDead, Watched, OneServingBackend, NoLostWakeup

(* A step that starts, ends and reports nothing, and sends nobody to sleep. *)
LEMMA LifeFrame ==
    ASSUME LifeInv, UNCHANGED <<alive, starting, cmd, closer, closing, proc, waitl>>,
           \A q \in Requests : /\ pc[q] \in {"spawned", "publish"} => pc'[q] = pc[q]
                               /\ pc'[q] = "waiting" => pc[q] = "waiting"
    PROVE  LifeInv'
BY DEF LifeInv, Lives, StartsDead, Watched, OneServingBackend, NoLostWakeup

LEMMA LifeStep == TypeInv /\ SingleStarter /\ LifeInv /\ [Next]_vars => LifeInv'
<1> SUFFICES ASSUME TypeInv, SingleStarter, LifeInv, [Next]_vars PROVE LifeInv'
    OBVIOUS
<1> USE ConstantsAssumption
    DEF TypeInv, TypeOK, DataOK, Procs, rawVars, closeVars, procVars, goVars, history
<1>1. ASSUME NEW r \in Requests, Arrive(r) \/ Deadline(r) \/ EnsureAlive(r)
      PROVE  LifeInv'
    BY <1>1, LifeFrame DEF Arrive, Deadline, EnsureAlive, AfterEnsure
<1>2. ASSUME NEW r \in Requests, EnsureWait(r) PROVE LifeInv'
    BY <1>2 DEF EnsureWait, stop, LifeInv, Lives, StartsDead, Watched,
                OneServingBackend, NoLostWakeup
<1>3. ASSUME NEW r \in Requests, EnsureGiveUp(r) PROVE LifeInv'
    BY <1>3, LifeFrame DEF EnsureGiveUp, Return
<1>4. ASSUME NEW r \in Requests, EnsureStart(r) PROVE LifeInv'
  <2>1. ~alive /\ starting' /\ UNCHANGED <<alive, cmd, closer, closing, proc, waitl>>
    BY <1>4 DEF EnsureStart, BecomesStarter
  <2>2. /\ pc[r] = "ensure" /\ pc'[r] = "spawn"
        /\ \A q \in Requests \ {r} : pc'[q] = pc[q]
    BY <1>4 DEF EnsureStart, BecomesStarter
  <2>. QED
    BY <2>1, <2>2 DEF LifeInv, Lives, StartsDead, Watched, OneServingBackend,
                      NoLostWakeup
<1>5. ASSUME NEW r \in Requests, Spawn(r) PROVE LifeInv'
  <2>1. /\ pc[r] = "spawn" /\ cmd < MaxProc /\ cmd' = cmd + 1
        /\ proc' = [proc EXCEPT ![cmd + 1] = "running"]
        /\ pc' = [pc EXCEPT ![r] = "spawned"]
        /\ UNCHANGED <<alive, starting, closer, closing, waitl>>
    BY <1>5 DEF Spawn
  <2>2. starting /\ ~alive /\ \A q \in Requests : pc[q] \notin {"spawned", "publish"}
    BY <2>1 DEF SingleStarter, SpawnPCs, LifeInv, StartsDead
  <2>3. \A p \in Procs : proc[p] # "running"
    BY <2>2 DEF LifeInv, Watched, OneServingBackend
  <2>4. Lives' /\ OneServingBackend'
    BY <2>1, <2>3 DEF LifeInv, Lives, OneServingBackend
  <2>5. StartsDead' /\ Watched' /\ NoLostWakeup'
    BY <2>1 DEF LifeInv, StartsDead, Watched, NoLostWakeup
  <2>. QED
    BY <2>4, <2>5 DEF LifeInv
<1>6. ASSUME NEW r \in Requests, SpawnFails(r) \/ Retry(r) PROVE LifeInv'
    BY <1>6, LifeFrame DEF SpawnFails, Retry
<1>7. ASSUME NEW r \in Requests, SpawnCheck(r) PROVE LifeInv'
  <2>1. CASE ctx[r] = "live"
    <3>1. /\ pc[r] = "spawned" /\ pc' = [pc EXCEPT ![r] = "publish"]
          /\ UNCHANGED <<alive, starting, cmd, closer, closing, proc, waitl>>
      BY <1>7, <2>1 DEF SpawnCheck
    <3>. QED
      BY <3>1 DEF LifeInv, Lives, StartsDead, Watched, OneServingBackend, NoLostWakeup
  <2>2. CASE ctx[r] = "done"
    <3>1. /\ pc[r] = "spawned" /\ pc' = [pc EXCEPT ![r] = "backoff"]
          /\ proc' = Cancelled(cmd) /\ cmd \in Procs
          /\ UNCHANGED <<alive, starting, cmd, closer, closing, waitl>>
      BY <1>7, <2>2 DEF SpawnCheck, ProcessKnown
    <3>2. proc'[cmd] # "running" /\ \A p \in Procs : proc'[p] \in {proc[p], "killed"}
      BY <3>1 DEF Cancelled
    <3>3. \A p \in Procs : /\ p # cmd => proc'[p] = proc[p]
                           /\ proc[p] \in {"unborn", "exited"} => proc'[p] = proc[p]
      BY <3>1 DEF Cancelled
    <3>4. OneServingBackend'
      BY <3>1, <3>2, <3>3 DEF LifeInv, OneServingBackend
    <3>6. Lives'
      BY <3>1, <3>3 DEF LifeInv, Lives
    <3>5. StartsDead' /\ Watched' /\ NoLostWakeup'
      BY <3>1, <3>2 DEF LifeInv, StartsDead, Watched, NoLostWakeup
    <3>. QED
      BY <3>4, <3>5, <3>6 DEF LifeInv
  <2>. QED
    BY <1>7, <2>1, <2>2 DEF SpawnCheck
<1>8. ASSUME NEW r \in Requests, StartFailed(r) PROVE LifeInv'
    BY <1>8 DEF StartFailed, Return, Awoken, LifeInv, Lives, StartsDead, Watched,
                OneServingBackend, NoLostWakeup
<1>9. ASSUME NEW r \in Requests, Publish(r) PROVE LifeInv'
    BY <1>9 DEF Publish, Awoken, AfterEnsure, LifeInv, Lives, StartsDead, Watched,
                OneServingBackend, NoLostWakeup
<1>10. ASSUME NEW r \in Requests, BootCheck(r) \/ BootDone(r) PROVE LifeInv'
    BY <1>10, LifeFrame DEF BootCheck, BootDone, AfterBootstrap
<1>11. ASSUME NEW r \in Requests, Register(r) \/ RegisterRefused(r) \/ LockWriter(r)
       PROVE  LifeInv'
    BY <1>11, LifeFrame DEF Register, RegisterRefused, LockWriter, Return
<1>12. ASSUME NEW r \in Requests, Write(r) \/ WriteFails(r) PROVE LifeInv'
    BY <1>12, LifeFrame DEF Write, WriteFails, Return
<1>13. ASSUME NEW r \in Requests, Receive(r) \/ ReceiveNil(r) \/ TimeOut(r)
       PROVE  LifeInv'
    BY <1>13, LifeFrame DEF Receive, ReceiveNil, TimeOut, Return
<1>14. ASSUME NEW p \in Procs, BackendReads(p) \/ BackendAnswers(p) PROVE LifeInv'
    BY <1>14, LifeFrame DEF BackendReads, BackendAnswers
<1>15. ASSUME NEW p \in Procs, BackendExits(p) PROVE LifeInv'
    BY <1>15 DEF BackendExits, LifeInv, Lives, StartsDead, Watched,
                 OneServingBackend, NoLostWakeup
<1>16. ASSUME NEW p \in Procs, Deliver(p) \/ ReadEOF(p) PROVE LifeInv'
  <2>1. UNCHANGED <<alive, starting, cmd, closer, closing, proc, waitl, pc>>
    BY <1>16, Zenon DEF Deliver, ReadEOF
  <2>. QED
    BY <2>1, LifeFrame
<1>17. ASSUME NEW p \in Procs, Reap(p) PROVE LifeInv'
    BY <1>17 DEF Reap, LifeInv, Lives, StartsDead, Watched, OneServingBackend,
                 NoLostWakeup
<1>18. ASSUME NEW p \in Procs, ReadFails(p) \/ ReportExit(p) PROVE LifeInv'
  <2>1. /\ UNCHANGED <<starting, cmd, closer, closing, proc>>
        /\ waitl[p] # "wait" /\ waitl' \in {waitl, [waitl EXCEPT ![p] = "done"]}
    BY <1>18 DEF ReadFails, ReportExit
  <2>2. IF cmd = p THEN ~alive' /\ pc' = Awoken(pc) ELSE UNCHANGED <<alive, pc>>
    BY <1>18 DEF ReadFails, ReportExit
  <2>3. Lives' /\ OneServingBackend' /\ StartsDead'
    BY <2>1, <2>2 DEF LifeInv, Lives, OneServingBackend, StartsDead
  <2>4. Watched' /\ NoLostWakeup'
    BY <2>1, <2>2 DEF Awoken, LifeInv, Lives, Watched, NoLostWakeup
  <2>. QED
    BY <2>3, <2>4 DEF LifeInv
<1>19. CASE CloseMark
    BY <1>19 DEF CloseMark, LifeInv, Lives, StartsDead, Watched, OneServingBackend,
                 NoLostWakeup
<1>20. CASE CloseKill
  <2>1. /\ UNCHANGED <<alive, starting, cmd, closing, waitl>>
        /\ pc' = Awoken(pc)
        /\ proc' = IF closing # 0 /\ proc[closing] # "exited"
                   THEN [proc EXCEPT ![closing] = "shut"] ELSE proc
    BY <1>20 DEF CloseKill
  <2>2. \A p \in Procs : /\ p > cmd => proc'[p] = proc[p]
                         /\ proc[p] = "exited" => proc'[p] = "exited"
                         /\ proc'[p] = "running" => proc[p] = "running"
    BY <2>1 DEF LifeInv, Lives
  <2>. QED
    BY <2>1, <2>2 DEF Awoken, LifeInv, Lives, StartsDead, Watched, OneServingBackend,
                      NoLostWakeup
<1>21. CASE UNCHANGED vars
    BY <1>21, LifeFrame DEF vars
<1>. QED
    BY <1>1, <1>2, <1>3, <1>4, <1>5, <1>6, <1>7, <1>8, <1>9, <1>10, <1>11, <1>12,
       <1>13, <1>14, <1>15, <1>16, <1>17, <1>18, <1>19, <1>20, <1>21
    DEF Next, HandlerStep, LoopStep, BackendStep, Idle

LEMMA LifeHolds == Spec => [](TypeInv /\ IInv /\ SingleStarter /\ LifeInv)
BY Inductive, SingleStarterHolds, LifeInit, LifeStep, PTL DEF Spec

(* ensure, spawn, Close: no restart leaves a second backend at work on the  *)
(* site; whichever child is not the current one has been killed, shut or   *)
(* has exited.                                                             *)
THEOREM OneServingBackendHolds == Spec => []OneServingBackend
<1>1. LifeInv => OneServingBackend
    BY DEF LifeInv
<1>. QED
    BY <1>1, LifeHolds, PTL

(* ensure: a goroutine sleeps on the condition variable only while a start *)
(* is under way whose end, or Close, will broadcast.                       *)
THEOREM NoLostWakeupHolds == Spec => []NoLostWakeup
<1>1. LifeInv => NoLostWakeup
    BY DEF LifeInv
<1>. QED
    BY <1>1, LifeHolds, PTL

-----------------------------------------------------------------------------
(* A call in sendRaw that has been told nothing yet.                        *)
Waits(r) == Private(r) /\ InSendRaw(r) /\ msg[r] = "call" /\ inbox[r] = None

(* It went to the child that is still the current one, and that child's    *)
(* exit has not been reported: the report drains the map it is in.         *)
OnCurrentChild ==
    \A r \in Requests : Waits(r) =>
        /\ alive /\ sink[r] = cmd
        /\ pc[r] = "await" => waitl[cmd] # "done"

LEMMA CurrentFrame ==
    ASSUME OnCurrentChild, UNCHANGED <<alive, cmd, waitl>>,
           \A q \in Requests : Waits(q)' =>
               /\ Waits(q) /\ sink'[q] = sink[q]
               /\ pc'[q] = "await" => pc[q] = "await"
    PROVE  OnCurrentChild'
BY DEF OnCurrentChild

(* Who reports the exit of the current child leaves nobody waiting.         *)
LEMMA DrainedNoWaits ==
    ASSUME TypeInv, CallStaysRegistered, Drain, UNCHANGED msg, pc' = Awoken(pc),
           NEW q \in Requests
    PROVE  ~Waits(q)'
<1> SUFFICES ASSUME Waits(q)' PROVE FALSE
    OBVIOUS
<1>1. Private(q) /\ InSendRaw(q) /\ msg[q] = "call"
    BY DEF Waits, InSendRaw, Awoken, Private, TypeInv, TypeOK, DataOK
<1>2. CallKey(q) \in Keys
    BY DEF Keys
<1>3. CASE inbox[q] = None
  <2>1. pending[CallKey(q)] = q
    BY <1>1, <1>3 DEF CallStaysRegistered
  <2>. QED
    BY <1>2, <2>1, ConstantsAssumption DEF Drain, Waits
<1>4. CASE inbox[q] # None
    BY <1>4, ConstantsAssumption DEF Drain, Waits
<1>. QED
    BY <1>3, <1>4

LEMMA CurrentStep ==
    TypeInv /\ IInv /\ SingleStarter /\ LifeInv /\ OnCurrentChild /\ [Next]_vars
        => OnCurrentChild'
<1> SUFFICES ASSUME TypeInv, IInv, SingleStarter, LifeInv, OnCurrentChild, [Next]_vars
             PROVE  OnCurrentChild'
    OBVIOUS
<1> USE ConstantsAssumption
    DEF TypeInv, TypeOK, DataOK, rawVars, closeVars, procVars, goVars, history
<1>1. ASSUME NEW r \in Requests,
             Arrive(r) \/ Deadline(r) \/ EnsureAlive(r) \/ EnsureWait(r) \/ EnsureGiveUp(r)
      PROVE  OnCurrentChild'
    BY <1>1, CurrentFrame
       DEF Arrive, Deadline, EnsureAlive, AfterEnsure, EnsureWait, EnsureGiveUp, Return,
           Waits, InSendRaw, Private
<1>2. ASSUME NEW r \in Requests, EnsureStart(r) \/ SpawnFails(r) \/ SpawnCheck(r) \/ Retry(r)
      PROVE  OnCurrentChild'
    BY <1>2, CurrentFrame
       DEF EnsureStart, BecomesStarter, SpawnFails, SpawnCheck, Retry, Waits, InSendRaw,
           Private
<1>3. ASSUME NEW r \in Requests, Spawn(r) PROVE OnCurrentChild'
  <2>1. ~alive
    BY <1>3 DEF Spawn, SingleStarter, SpawnPCs, LifeInv, StartsDead
  <2>2. \A q \in Requests : ~Waits(q)
    BY <2>1 DEF OnCurrentChild
  <2>3. \A q \in Requests : ~Waits(q)'
    BY <1>3, <2>2 DEF Spawn, Waits, InSendRaw, Private
  <2>. QED
    BY <2>3 DEF OnCurrentChild
<1>4. ASSUME NEW r \in Requests, StartFailed(r) PROVE OnCurrentChild'
    BY <1>4, CurrentFrame DEF StartFailed, Return, Awoken, Waits, InSendRaw, Private
<1>5. ASSUME NEW r \in Requests, Publish(r) PROVE OnCurrentChild'
  <2>1. alive' /\ UNCHANGED <<cmd, waitl, sink, msg, inbox>>
    BY <1>5 DEF Publish
  <2>2. \A q \in Requests : Waits(q)' => Waits(q) /\ pc'[q] = pc[q]
    BY <1>5 DEF Publish, Awoken, AfterEnsure, Waits, InSendRaw, Private
  <2>. QED
    BY <2>1, <2>2 DEF OnCurrentChild
<1>6. ASSUME NEW r \in Requests, BootCheck(r) \/ BootDone(r) PROVE OnCurrentChild'
    BY <1>6, CurrentFrame DEF BootCheck, BootDone, AfterBootstrap, Waits, InSendRaw, Private
<1>7. ASSUME NEW r \in Requests, Register(r) PROVE OnCurrentChild'
  <2>1. /\ UNCHANGED <<alive, cmd, waitl, msg>>
        /\ pc' = [pc EXCEPT ![r] = "lock"] /\ sink' = [sink EXCEPT ![r] = cmd]
        /\ ExpectsResponse(r, msg[r]) => alive
        /\ \A q \in Requests \ {r} : inbox'[q] = inbox[q]
    BY <1>7 DEF Register
  <2>2. \A q \in Requests \ {r} : Waits(q)' => Waits(q) /\ pc'[q] = pc[q] /\ sink'[q] = sink[q]
    BY <2>1 DEF Waits, InSendRaw, Private
  <2>3. Waits(r)' => ExpectsResponse(r, msg[r])
    BY <2>1 DEF Waits, InSendRaw, ExpectsResponse
  <2>. QED
    BY <2>1, <2>2, <2>3 DEF OnCurrentChild
<1>8. ASSUME NEW r \in Requests, RegisterRefused(r) \/ LockWriter(r) \/ WriteFails(r)
      PROVE  OnCurrentChild'
    BY <1>8, CurrentFrame
       DEF RegisterRefused, LockWriter, WriteFails, Return, Waits, InSendRaw, Private,
           ExpectsResponse
<1>9. ASSUME NEW r \in Requests, Write(r) PROVE OnCurrentChild'
  <2>1. /\ UNCHANGED <<alive, cmd, waitl, sink>> /\ pc[r] = "write"
        /\ proc[sink[r]] \in {"running", "killed"}
        /\ pc'[r] \in {"done", "bootDone", "await"}
        /\ pc'[r] = "await" => UNCHANGED <<msg, inbox>>
        /\ \A q \in Requests \ {r} : pc'[q] = pc[q] /\ msg'[q] = msg[q] /\ inbox'[q] = inbox[q]
    BY <1>9 DEF Write, Return
  <2>2. \A q \in Requests \ {r} : Waits(q)' => Waits(q)
    BY <2>1 DEF Waits, InSendRaw, Private, ExpectsResponse
  <2>3. Waits(r)' => Waits(r)
    BY <2>1 DEF Waits, InSendRaw, Private, ExpectsResponse
  <2>4. waitl[sink[r]] # "done"
    <3>1. sink[r] \in Procs
      BY <2>1 DEF Procs, IInv, ProcessKnown
    <3>. QED
      BY <2>1, <3>1 DEF LifeInv, Lives
  <2>. QED
    BY <2>1, <2>2, <2>3, <2>4 DEF OnCurrentChild
<1>10. ASSUME NEW r \in Requests, Receive(r) \/ ReceiveNil(r) \/ TimeOut(r)
       PROVE  OnCurrentChild'
    BY <1>10, CurrentFrame
       DEF Receive, ReceiveNil, TimeOut, Return, Waits, InSendRaw, Private, ExpectsResponse
<1>11. ASSUME NEW p \in Procs, BackendStep(p) PROVE OnCurrentChild'
    BY <1>11, CurrentFrame
       DEF BackendStep, BackendReads, BackendAnswers, BackendExits, Waits, InSendRaw, Private,
           ExpectsResponse
<1>12. ASSUME NEW p \in Procs, Deliver(p) PROVE OnCurrentChild'
  <2>1. UNCHANGED <<alive, cmd, waitl, pc, msg, sink>>
    BY <1>12, Zenon DEF Deliver, procVars
  <2>2. \A q \in Requests : inbox'[q] = None => inbox[q] = None
    BY <1>12, WireTyped DEF Deliver, Bodies
  <2>3. \A q \in Requests : Waits(q)' => Waits(q)
    BY <2>1, <2>2 DEF Waits, InSendRaw, Private, ExpectsResponse
  <2>. QED
    BY <2>1, <2>3, CurrentFrame
<1>13. ASSUME NEW p \in Procs, ReadEOF(p) PROVE OnCurrentChild'
    BY <1>13, CurrentFrame DEF ReadEOF, Waits, InSendRaw, Private, ExpectsResponse
<1>14. ASSUME NEW p \in Procs, Reap(p) PROVE OnCurrentChild'
  <2>1. UNCHANGED <<alive, cmd, pc, msg, sink, inbox>>
    BY <1>14 DEF Reap
  <2>2. waitl'[cmd] = "done" => waitl[cmd] = "done"
    BY <1>14 DEF Reap
  <2>3. \A q \in Requests : Waits(q)' => Waits(q)
    BY <2>1 DEF Waits, InSendRaw, Private, ExpectsResponse
  <2>. QED
    BY <2>1, <2>2, <2>3 DEF OnCurrentChild
<1>15. ASSUME NEW p \in Procs, ReadFails(p) \/ ReportExit(p) PROVE OnCurrentChild'
  <2>1. UNCHANGED <<cmd, msg, sink>> /\ \A k \in Procs \ {p} : waitl'[k] = waitl[k]
    BY <1>15 DEF ReadFails, ReportExit
  <2>2. CASE cmd = p
    <3>1. Drain /\ pc' = Awoken(pc)
      BY <1>15, <2>2 DEF ReadFails, ReportExit
    <3>2. \A q \in Requests : ~Waits(q)'
      BY <2>1, <3>1, DrainedNoWaits DEF IInv
    <3>. QED
      BY <3>2 DEF OnCurrentChild
  <2>3. CASE cmd # p
    <3>1. UNCHANGED <<alive, inbox, pc>>
      BY <1>15, <2>3 DEF ReadFails, ReportExit
    <3>2. \A q \in Requests : Waits(q)' => Waits(q)
      BY <2>1, <3>1 DEF Waits, InSendRaw, Private, ExpectsResponse
    <3>3. \A q \in Requests : Waits(q) => cmd \in Procs
      BY DEF OnCurrentChild, ProcessKnown, Procs
    <3>. QED
      BY <2>1, <2>3, <3>1, <3>2, <3>3 DEF OnCurrentChild
  <2>. QED
    BY <2>2, <2>3
<1>16. CASE CloseMark \/ CloseKill
    BY <1>16, CurrentFrame
       DEF CloseMark, CloseKill, Awoken, Waits, InSendRaw, Private, ExpectsResponse
<1>17. CASE UNCHANGED vars
    BY <1>17, CurrentFrame DEF vars, Waits, InSendRaw, Private, ExpectsResponse
<1>. QED
    BY <1>1, <1>2, <1>3, <1>4, <1>5, <1>6, <1>7, <1>8, <1>9, <1>10, <1>11, <1>12,
       <1>13, <1>14, <1>15, <1>16, <1>17 DEF Next, HandlerStep, LoopStep, Idle

(* waitLoop, failRead: when the exit of a child is reported, every call     *)
(* that was written to it has its answer or the nil that ends its wait,    *)
(* also when a restart, a drain by the other loop or a registration falls  *)
(* in between.                                                             *)
THEOREM NoWaitOnReportedChildHolds == Spec => []NoWaitOnReportedChild
<1>1. Init => OnCurrentChild
    BY DEF Init, OnCurrentChild, Waits, InSendRaw
<1>2. OnCurrentChild => NoWaitOnReportedChild
    BY DEF OnCurrentChild, Waits, NoWaitOnReportedChild
<1>. QED
    BY <1>1, <1>2, LifeHolds, CurrentStep, PTL DEF Spec

-----------------------------------------------------------------------------
(* Who has bootstrapped, or is about to say so, or goes on to a call, knows *)
(* of a process that was greeted.                                          *)
Greeted ==
    /\ bootstrapped => greeted # {}
    /\ \A r \in Requests : pc[r] = "bootDone" \/ msg[r] = "call" => greeted # {}

LEMMA GreetedStep ==
    TypeInv /\ Greeted /\ HandshakeFirst /\ [Next]_vars => (Greeted /\ HandshakeFirst)'
<1> SUFFICES ASSUME TypeInv, Greeted, HandshakeFirst, [Next]_vars
             PROVE  Greeted' /\ HandshakeFirst'
    OBVIOUS
<1> USE DEF TypeInv, TypeOK, DataOK, Greeted, HandshakeFirst, rawVars, closeVars, procVars,
            goVars, history
<1>1. ASSUME UNCHANGED <<bootstrapped, greeted, called>>,
             \A q \in Requests : /\ pc'[q] = "bootDone" => pc[q] = "bootDone"
                                 /\ msg'[q] = "call" => msg[q] = "call"
      PROVE  Greeted' /\ HandshakeFirst'
    BY <1>1
<1>2. ASSUME NEW r \in Requests,
             Arrive(r) \/ Deadline(r) \/ EnsureAlive(r) \/ EnsureWait(r) \/ EnsureGiveUp(r)
      PROVE  Greeted' /\ HandshakeFirst'
    BY <1>1, <1>2 DEF Arrive, Deadline, EnsureAlive, AfterEnsure, EnsureWait, EnsureGiveUp, Return
<1>3. ASSUME NEW r \in Requests,
             EnsureStart(r) \/ Spawn(r) \/ SpawnFails(r) \/ SpawnCheck(r) \/ Retry(r)
      PROVE  Greeted' /\ HandshakeFirst'
    BY <1>1, <1>3 DEF EnsureStart, BecomesStarter, Spawn, SpawnFails, SpawnCheck, Retry
<1>4. ASSUME NEW r \in Requests, StartFailed(r) \/ Publish(r)
      PROVE  Greeted' /\ HandshakeFirst'
    BY <1>1, <1>4 DEF StartFailed, Publish, Return, Awoken, AfterEnsure
<1>5. ASSUME NEW r \in Requests, BootCheck(r) \/ BootDone(r)
      PROVE  Greeted' /\ HandshakeFirst'
    BY <1>5 DEF BootCheck, BootDone, AfterBootstrap
<1>6. ASSUME NEW r \in Requests,
             Register(r) \/ RegisterRefused(r) \/ LockWriter(r) \/ WriteFails(r)
      PROVE  Greeted' /\ HandshakeFirst'
    BY <1>1, <1>6 DEF Register, RegisterRefused, LockWriter, WriteFails, Return
<1>7. ASSUME NEW r \in Requests, Write(r) PROVE Greeted' /\ HandshakeFirst'
    BY <1>7 DEF Write, Return
<1>8. ASSUME NEW r \in Requests, Receive(r) \/ ReceiveNil(r) \/ TimeOut(r)
      PROVE  Greeted' /\ HandshakeFirst'
    BY <1>1, <1>8 DEF Receive, ReceiveNil, TimeOut, Return
<1>9. ASSUME NEW p \in Procs, LoopStep(p) \/ BackendStep(p)
      PROVE  Greeted' /\ HandshakeFirst'
  <2>1. UNCHANGED <<bootstrapped, greeted, called, msg>> /\ pc' \in {pc, Awoken(pc)}
    BY <1>9, Zenon
       DEF LoopStep, BackendStep, Deliver, ReadEOF, ReadFails, Reap, ReportExit,
           BackendReads, BackendAnswers, BackendExits
  <2>. QED
    BY <1>1, <2>1 DEF Awoken
<1>10. CASE CloseMark \/ CloseKill
    BY <1>1, <1>10 DEF CloseMark, CloseKill, Awoken
<1>11. CASE UNCHANGED vars
    BY <1>1, <1>11 DEF vars
<1>. QED
    BY <1>2, <1>3, <1>4, <1>5, <1>6, <1>7, <1>8, <1>9, <1>10, <1>11
       DEF Next, HandlerStep, Idle

(* Bootstrap: no call is written to a backend before a handshake has been   *)
(* completed with one, whoever performs it and however often it fails.     *)
THEOREM HandshakeFirstHolds == Spec => []HandshakeFirst
<1>1. Init => Greeted /\ HandshakeFirst
    BY DEF Init, Greeted, HandshakeFirst
<1>. QED
    BY <1>1, Inductive, GreetedStep, PTL DEF Spec
-----------------------------------------------------------------------------
(* Refinement: what the handlers know of their calls and how often the      *)
(* backends executed them behave as ShimContract says.                     *)

Calls(w) == w.msg = "call"

(* A handler writes its call once.                                         *)
OneOnWire ==
    \A v, w \in wire : Calls(v) /\ Calls(w) /\ v.from = w.from => v = w

ExecutedWhenOut ==
    \A w \in wire : Calls(w) => executions[w.from] = IF w.at = "out" THEN 1 ELSE 0

(* A call is executed at most once, and only after it was written.          *)
ExecutedOnce ==
    \A r \in Requests : executions[r] # 0 =>
        /\ executions[r] = 1
        /\ pc[r] = "done" \/ (pc[r] = "await" /\ msg[r] = "call")

AnswerExecuted ==
    \A r \in Requests : inbox[r] \in Bodies /\ inbox[r].msg = "call"
        => executions[inbox[r].from] = 1

ResponseExecuted ==
    \A r \in Requests : outcome[r] = "response" /\ Private(r) => executions[r] = 1

ExecInv == /\ OneOnWire /\ ExecutedWhenOut /\ ExecutedOnce /\ AnswerExecuted
           /\ ResponseExecuted

LEMMA ExecFrame ==
    ASSUME TypeInv, ExecInv, UNCHANGED executions, wire' \subseteq wire,
           \A q \in Requests :
               /\ pc[q] = "done" => pc'[q] = "done"
               /\ pc[q] = "await" /\ msg[q] = "call" =>
                      pc'[q] = "done" \/ (pc'[q] = "await" /\ msg'[q] = "call")
               /\ inbox'[q] \in {inbox[q], None, Nil}
               /\ outcome'[q] = "response" =>
                      outcome[q] = "response" \/ (Private(q) => executions[q] = 1)
    PROVE  ExecInv'
<1>1. OneOnWire' /\ ExecutedWhenOut'
    BY DEF ExecInv, OneOnWire, ExecutedWhenOut, Calls
<1>2. ExecutedOnce'
    BY DEF ExecInv, ExecutedOnce
<1>3. AnswerExecuted'
    BY ConstantsAssumption DEF ExecInv, AnswerExecuted
<1>4. ResponseExecuted'
    BY DEF ExecInv, ResponseExecuted, Private
<1>. QED
    BY <1>1, <1>2, <1>3, <1>4 DEF ExecInv

(* A message that moves on along the wire.                                 *)
LEMMA OneMoves ==
    ASSUME OneOnWire, NEW w \in wire, NEW y, y.from = w.from, y.msg = w.msg,
           wire' \subseteq (wire \ {w}) \cup {y}
    PROVE  OneOnWire'
BY DEF OneOnWire, Calls

LEMMA ExecStep == TypeInv /\ IInv /\ ExecInv /\ [Next]_vars => ExecInv'
<1> SUFFICES ASSUME TypeInv, IInv, ExecInv, [Next]_vars PROVE ExecInv'
    OBVIOUS
<1> USE DEF TypeInv, TypeOK, DataOK, rawVars, closeVars, procVars, goVars, history
<1>1. ASSUME NEW r \in Requests,
             Arrive(r) \/ Deadline(r) \/ EnsureAlive(r) \/ EnsureWait(r) \/ EnsureGiveUp(r)
      PROVE  ExecInv'
    BY <1>1, ExecFrame
       DEF Arrive, Deadline, EnsureAlive, AfterEnsure, EnsureWait, EnsureGiveUp, Return
<1>2. ASSUME NEW r \in Requests,
             EnsureStart(r) \/ Spawn(r) \/ SpawnFails(r) \/ SpawnCheck(r) \/ Retry(r)
      PROVE  ExecInv'
    BY <1>2, ExecFrame
       DEF EnsureStart, BecomesStarter, Spawn, SpawnFails, SpawnCheck, Retry
<1>3. ASSUME NEW r \in Requests, StartFailed(r) \/ Publish(r) PROVE ExecInv'
    BY <1>3, ExecFrame DEF StartFailed, Publish, Return, Awoken, AfterEnsure
<1>4. ASSUME NEW r \in Requests,
             BootCheck(r) \/ BootDone(r) \/ Register(r) \/ RegisterRefused(r) \/ LockWriter(r)
      PROVE  ExecInv'
    BY <1>4, ExecFrame
       DEF BootCheck, BootDone, AfterBootstrap, Register, RegisterRefused, LockWriter, Return
<1>5. ASSUME NEW r \in Requests, Write(r) PROVE ExecInv'
  <2> DEFINE new == [to |-> sink[r], from |-> r, msg |-> msg[r], at |-> "pipe"]
  <2>1. /\ wire' = wire \cup {new} /\ UNCHANGED executions
        /\ pc[r] = "write"
        /\ \A q \in Requests \ {r} : /\ pc'[q] = pc[q] /\ msg'[q] = msg[q]
                                     /\ inbox'[q] = inbox[q]
        /\ inbox'[r] \in {inbox[r], None}
        /\ \A q \in Requests : outcome'[q] = "response" => outcome[q] = "response"
    BY <1>5 DEF Write, Return
  <2>2. executions[r] = 0 /\ \A w \in wire : Calls(w) => w.from # r
    BY <2>1 DEF IInv, CallOnWire, ExecInv, ExecutedOnce, Calls
  <2>3. OneOnWire' /\ ExecutedWhenOut'
    BY <2>1, <2>2 DEF ExecInv, OneOnWire, ExecutedWhenOut, Calls
  <2>4. ExecutedOnce'
    BY <2>1, <2>2 DEF ExecInv, ExecutedOnce
  <2>5. AnswerExecuted' /\ ResponseExecuted'
    BY <2>1, ConstantsAssumption
       DEF ExecInv, AnswerExecuted, ResponseExecuted, Private
  <2>. QED
    BY <2>3, <2>4, <2>5 DEF ExecInv
<1>6. ASSUME NEW r \in Requests,
             WriteFails(r) \/ Receive(r) \/ ReceiveNil(r) \/ TimeOut(r)
      PROVE  ExecInv'
  <2>1. Receive(r) /\ msg[r] = "call" /\ Private(r) => executions[r] = 1
    <3> SUFFICES ASSUME Receive(r), msg[r] = "call", Private(r) PROVE executions[r] = 1
        OBVIOUS
    <3>1. inbox[r] \in Bodies /\ inbox[r].from = r /\ inbox[r].msg = "call"
      BY DEF Receive, IInv, InboxIsOwn, AwaitExpects, InSendRaw
    <3>. QED
      BY <3>1 DEF ExecInv, AnswerExecuted
  <2>. QED
    BY <1>6, <2>1, ExecFrame DEF WriteFails, Receive, ReceiveNil, TimeOut, Return
<1>7. ASSUME NEW p \in Procs, BackendReads(p) PROVE ExecInv'
  <2> PICK w \in InPipe(p) :
          /\ wire' = (wire \ {w}) \cup
                     (IF ExpectsResponse(w.from, w.msg) THEN {[w EXCEPT !.at = "work"]}
                                                        ELSE {})
          /\ UNCHANGED <<executions, pc, msg, inbox, outcome>>
    BY <1>7 DEF BackendReads
  <2> DEFINE y == [w EXCEPT !.at = "work"]
  <2>1. w \in wire /\ w.at = "pipe"
    BY DEF InPipe
  <2>2. y.from = w.from /\ y.msg = w.msg /\ y.at = "work"
    BY <2>1 DEF WireMsgs
  <2>3. wire' \subseteq (wire \ {w}) \cup {y}
    OBVIOUS
  <2> HIDE DEF y
  <2>4. OneOnWire'
    BY <2>1, <2>2, <2>3, OneMoves DEF ExecInv
  <2>5. ExecutedWhenOut'
    BY <2>1, <2>2, <2>3 DEF ExecInv, ExecutedWhenOut, Calls
  <2>6. ExecutedOnce' /\ AnswerExecuted' /\ ResponseExecuted'
    BY DEF ExecInv, ExecutedOnce, AnswerExecuted, ResponseExecuted, Private
  <2>. QED
    BY <2>4, <2>5, <2>6 DEF ExecInv
<1>8. ASSUME NEW p \in Procs, BackendAnswers(p) PROVE ExecInv'
  <2> PICK w \in wire :
          /\ w.at = "work"
          /\ wire' = (wire \ {w}) \cup {[w EXCEPT !.at = "out"]}
          /\ executions' = [executions EXCEPT ![w.from] =
                                IF w.msg = "call" THEN @ + 1 ELSE @]
          /\ UNCHANGED <<pc, msg, inbox, outcome>>
    BY <1>8 DEF BackendAnswers
  <2> DEFINE y == [w EXCEPT !.at = "out"]
  <2>1. /\ y.from = w.from /\ y.msg = w.msg /\ y.at = "out"
        /\ w.from \in Requests
    BY DEF WireMsgs
  <2>2. wire' \subseteq (wire \ {w}) \cup {y}
    OBVIOUS
  <2> HIDE DEF y
  <2>3. OneOnWire'
    BY <2>1, <2>2, OneMoves DEF ExecInv
  <2>4. CASE Calls(w)
    <3>1. /\ executions[w.from] = 0 /\ executions'[w.from] = 1
          /\ \A q \in Requests \ {w.from} : executions'[q] = executions[q]
      BY <2>1, <2>4 DEF ExecInv, ExecutedWhenOut, Calls
    <3>2. \A v \in wire : Calls(v) /\ v.from = w.from => v = w
      BY <2>4 DEF ExecInv, OneOnWire
    <3>3. ExecutedWhenOut'
      BY <2>1, <2>2, <2>4, <3>1, <3>2 DEF ExecInv, ExecutedWhenOut, Calls, WireMsgs
    <3>4. ExecutedOnce'
      BY <2>4, <3>1 DEF IInv, CallOnWire, ExecInv, ExecutedOnce, Calls
    <3>5. AnswerExecuted' /\ ResponseExecuted'
      BY <3>1 DEF ExecInv, AnswerExecuted, Bodies, ResponseExecuted, Private
    <3>. QED
      BY <2>3, <3>3, <3>4, <3>5 DEF ExecInv
  <2>5. CASE ~Calls(w)
    <3>1. executions' = executions
      BY <2>1, <2>5 DEF Calls
    <3>2. ExecutedWhenOut'
      BY <2>1, <2>2, <2>5, <3>1 DEF ExecInv, ExecutedWhenOut, Calls
    <3>3. ExecutedOnce' /\ AnswerExecuted' /\ ResponseExecuted'
      BY <3>1 DEF ExecInv, ExecutedOnce, AnswerExecuted, ResponseExecuted, Private
    <3>. QED
      BY <2>3, <3>2, <3>3 DEF ExecInv
  <2>. QED
    BY <2>4, <2>5
<1>9. ASSUME NEW p \in Procs, BackendExits(p) \/ ReadEOF(p) \/ Reap(p) PROVE ExecInv'
    BY <1>9, ExecFrame DEF BackendExits, ReadEOF, Reap
<1>10. ASSUME NEW p \in Procs, Deliver(p) PROVE ExecInv'
  <2> PICK w \in wire :
          /\ w.at = "out" /\ wire' = wire \ {w}
          /\ \A q \in Requests :
                 inbox'[q] \in {inbox[q], [from |-> w.from, msg |-> w.msg, by |-> p]}
          /\ UNCHANGED <<executions, pc, msg, outcome>>
    BY <1>10 DEF Deliver
  <2>1. OneOnWire' /\ ExecutedWhenOut' /\ ExecutedOnce' /\ ResponseExecuted'
    BY DEF ExecInv, OneOnWire, ExecutedWhenOut, ExecutedOnce, ResponseExecuted, Private,
           Calls
  <2>2. w.msg = "call" => executions[w.from] = 1
    BY DEF ExecInv, ExecutedWhenOut, Calls
  <2>3. AnswerExecuted'
    BY <2>2 DEF ExecInv, AnswerExecuted
  <2>. QED
    BY <2>1, <2>3 DEF ExecInv
<1>11. ASSUME NEW p \in Procs, ReadFails(p) \/ ReportExit(p) PROVE ExecInv'
  <2>1. /\ UNCHANGED <<executions, msg, outcome>> /\ wire' \subseteq wire
        /\ pc' \in {pc, Awoken(pc)}
        /\ inbox' = inbox \/ Drain
    BY <1>11 DEF ReadFails, ReportExit
  <2>2. \A q \in Requests : inbox'[q] \in {inbox[q], Nil}
    BY <2>1 DEF Drain
  <2>. QED
    BY <2>1, <2>2, ExecFrame DEF Awoken
<1>12. CASE CloseMark \/ CloseKill
    BY <1>12, ExecFrame DEF CloseMark, CloseKill, Awoken
<1>13. CASE UNCHANGED vars
    BY <1>13, ExecFrame DEF vars
<1>. QED
    BY <1>1, <1>2, <1>3, <1>4, <1>5, <1>6, <1>7, <1>8, <1>9, <1>10, <1>11, <1>12,
       <1>13 DEF Next, HandlerStep, LoopStep, BackendStep, Idle

(* What a step may change without the contract seeing it.                   *)
LEMMA ContractFrame ==
    ASSUME UNCHANGED <<executions, outcome>>,
           \A q \in Requests : /\ pc'[q] = "idle" <=> pc[q] = "idle"
                               /\ pc'[q] = "done" <=> pc[q] = "done"
    PROVE  UNCHANGED Contract!vars
<1>1. \A q \in Requests : Status(q)' = Status(q)
    BY DEF Status
<1>. QED
    BY <1>1 DEF Contract!vars

(* Every return but that of a response is the contract's GiveUp.            *)
LEMMA ContractGiveUp ==
    ASSUME TypeInv, IInv, NEW r \in Requests, pc[r] \notin {"idle", "done"},
           NEW how, how # "response", NEW pcs \in {pc, Awoken(pc)}, Return(r, pcs, how),
           UNCHANGED executions
    PROVE  Contract!GiveUp(r)
<1> USE DEF TypeInv, TypeOK, DataOK
<1>1. Status(r) = "submitted" /\ Status(r)' = "failed"
    BY DEF Status, Return, IInv, ResponseMeansDone, Awoken
<1>2. \A q \in Requests \ {r} : Status(q)' = Status(q)
    BY DEF Status, Return, Awoken
<1>. QED
    BY <1>1, <1>2 DEF Contract!GiveUp

LEMMA ContractStep ==
    ASSUME \A r \in Requests : IdOf[r] # NoId => Private(r),
           TypeInv, IInv, ExecInv, [Next]_vars
    PROVE  [Contract!Next]_Contract!vars
<1> USE DEF TypeInv, TypeOK, DataOK, rawVars, closeVars, procVars, goVars, history
<1>1. ASSUME NEW r \in Requests, Arrive(r) PROVE Contract!Submit(r)
  <2>1. Status(r) = "idle" /\ Status(r)' = "submitted"
    BY <1>1 DEF Arrive, Status, IInv, ResponseMeansDone
  <2>2. \A q \in Requests \ {r} : Status(q)' = Status(q)
    BY <1>1 DEF Arrive, Status
  <2>. QED
    BY <1>1, <2>1, <2>2 DEF Arrive, Contract!Submit
<1>2. ASSUME NEW r \in Requests,
             Deadline(r) \/ EnsureAlive(r) \/ EnsureWait(r) \/ EnsureStart(r)
      PROVE  UNCHANGED Contract!vars
    BY <1>2, ContractFrame
       DEF Deadline, EnsureAlive, AfterEnsure, EnsureWait, EnsureStart, BecomesStarter
<1>3. ASSUME NEW r \in Requests,
             Spawn(r) \/ SpawnFails(r) \/ SpawnCheck(r) \/ Retry(r) \/ Publish(r)
      PROVE  UNCHANGED Contract!vars
    BY <1>3, ContractFrame
       DEF Spawn, SpawnFails, SpawnCheck, Retry, Publish, Awoken, AfterEnsure
<1>4. ASSUME NEW r \in Requests,
             BootCheck(r) \/ BootDone(r) \/ Register(r) \/ LockWriter(r)
      PROVE  UNCHANGED Contract!vars
    BY <1>4, ContractFrame DEF BootCheck, BootDone, AfterBootstrap, Register, LockWriter
<1>5. ASSUME NEW r \in Requests,
             EnsureGiveUp(r) \/ RegisterRefused(r) \/ WriteFails(r) \/ ReceiveNil(r)
                \/ TimeOut(r) \/ StartFailed(r)
      PROVE  Contract!GiveUp(r)
  <2>1. /\ pc[r] \notin {"idle", "done"} /\ UNCHANGED executions
        /\ \E how \in Outcomes \ {"response"}, pcs \in {pc, Awoken(pc)} : Return(r, pcs, how)
    BY <1>5 DEF EnsureGiveUp, RegisterRefused, WriteFails, ReceiveNil, TimeOut, StartFailed,
                Outcomes
  <2>. QED
    BY <2>1, ContractGiveUp
<1>6. ASSUME NEW r \in Requests, Write(r)
      PROVE  Contract!GiveUp(r) \/ UNCHANGED Contract!vars
  <2>1. CASE msg[r] = "call" /\ IdOf[r] = NoId
    <3>1. pc[r] = "write" /\ UNCHANGED executions /\ Return(r, pc, "sent")
      BY <1>6, <2>1 DEF Write
    <3>. QED
      BY <3>1, ContractGiveUp
  <2>2. CASE ~(msg[r] = "call" /\ IdOf[r] = NoId)
    BY <1>6, <2>2, ContractFrame DEF Write
  <2>. QED
    BY <2>1, <2>2
<1>7. ASSUME NEW r \in Requests, Receive(r)
      PROVE  Contract!Answer(r) \/ UNCHANGED Contract!vars
  <2>1. CASE msg[r] = "init"
    BY <1>7, <2>1, ContractFrame DEF Receive
  <2>2. CASE msg[r] = "call"
    <3>1. pc[r] = "await" /\ inbox[r] \in Bodies /\ Return(r, pc, "response")
          /\ UNCHANGED executions
      BY <1>7, <2>2 DEF Receive
    <3>2. Private(r)
      BY <2>2, <3>1 DEF IInv, AwaitExpects, ExpectsResponse
    <3>3. inbox[r].from = r /\ inbox[r].msg = "call"
      BY <2>2, <3>1, <3>2 DEF IInv, InboxIsOwn, AwaitExpects, InSendRaw
    <3>4. executions[r] = 1
      BY <3>1, <3>3 DEF ExecInv, AnswerExecuted
    <3>5. Status(r) = "submitted" /\ Status(r)' = "answered"
      BY <3>1 DEF Return, Status, IInv, ResponseMeansDone
    <3>6. \A q \in Requests \ {r} : Status(q)' = Status(q)
      BY <3>1 DEF Return, Status
    <3>. QED
      BY <3>1, <3>4, <3>5, <3>6 DEF Contract!Answer
  <2>. QED
    BY <1>7, <2>1, <2>2 DEF Receive
<1>8. ASSUME NEW p \in Procs, LoopStep(p) \/ BackendReads(p) \/ BackendExits(p)
      PROVE  UNCHANGED Contract!vars
  <2>1. UNCHANGED <<executions, outcome>> /\ pc' \in {pc, Awoken(pc)}
    BY <1>8, Zenon
       DEF LoopStep, Deliver, ReadEOF, ReadFails, Reap, ReportExit, BackendReads, BackendExits
  <2>. QED
    BY <2>1, ContractFrame DEF Awoken
<1>9. ASSUME NEW p \in Procs, BackendAnswers(p)
      PROVE  (\E r \in Requests : Contract!Execute(r)) \/ UNCHANGED Contract!vars
  <2> PICK w \in wire :
          /\ w.at = "work"
          /\ executions' = [executions EXCEPT ![w.from] =
                                IF w.msg = "call" THEN @ + 1 ELSE @]
          /\ UNCHANGED <<pc, outcome>>
    BY <1>9 DEF BackendAnswers
  <2>1. w.from \in Requests /\ \A q \in Requests : Status(q)' = Status(q)
    BY DEF WireMsgs, Status
  <2>2. CASE w.msg = "call"
    <3>0. executions[w.from] = 0
      BY <2>1, <2>2 DEF ExecInv, ExecutedWhenOut, Calls
    <3>1. executions' = [executions EXCEPT ![w.from] = 1]
      BY <2>1, <2>2, <3>0
    <3>2. pc[w.from] \in {"done", "await"}
      BY <2>2 DEF IInv, CallOnWire
    <3>3. outcome[w.from] # "response"
      BY <2>1, <2>2, <3>0 DEF IInv, OutExpects, ExpectsResponse, ExecInv, ResponseExecuted
    <3>4. Status(w.from) \in {"submitted", "failed"}
      BY <3>2, <3>3 DEF Status
    <3>. QED
      BY <2>1, <3>0, <3>1, <3>4 DEF Contract!Execute
  <2>3. CASE w.msg # "call"
    <3>1. executions' = executions
      BY <2>1, <2>3
    <3>. QED
      BY <2>1, <3>1 DEF Contract!vars
  <2>. QED
    BY <2>2, <2>3
<1>10. CASE CloseMark \/ CloseKill
    BY <1>10, ContractFrame DEF CloseMark, CloseKill, Awoken
<1>11. CASE UNCHANGED vars
    BY <1>11, ContractFrame DEF vars
<1>. QED
    BY <1>1, <1>2, <1>3, <1>4, <1>5, <1>6, <1>7, <1>8, <1>9, <1>10, <1>11
    DEF Next, HandlerStep, BackendStep, Idle, Contract!Next

(* Send implements ShimContract when the clients' ids are private: a call   *)
(* is never repeated on a restarted child, nor answered before a backend    *)
(* executed it, whatever exits, drains, restarts and timeouts do to it.     *)
THEOREM ImplementsContractHolds ==
    ASSUME \A r \in Requests : IdOf[r] # NoId => Private(r)
    PROVE  Spec => ImplementsContract
<1>1. Init => Contract!Init
  <2>1. Init => \A r \in Requests : Status(r) = "idle"
    BY DEF Init, Status
  <2>. QED
    BY <2>1 DEF Init, Contract!Init
<1>2. Init => ExecInv
    BY ConstantsAssumption
       DEF Init, ExecInv, OneOnWire, ExecutedWhenOut, ExecutedOnce, AnswerExecuted,
           ResponseExecuted
<1>3. TypeInv /\ IInv /\ ExecInv /\ [Next]_vars => [Contract!Next]_Contract!vars
    BY ContractStep
<1>. QED
    BY <1>1, <1>2, <1>3, Inductive, ExecStep, PTL
    DEF Spec, ImplementsContract, Contract!Spec

=============================================================================
