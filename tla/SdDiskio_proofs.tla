-------------------------- MODULE SdDiskio_proofs --------------------------
(***************************************************************************)
(* Proofs about SdDiskio, for every queue length, time-out and tick width. *)
(***************************************************************************)
EXTENDS SdDiskio, SequenceTheorems, TLAPS

\* Without a queue there are no messages, and nobody polls.
NoQueueInv == ~hasQueue => queue = <<>> /\ pc # "poll"

\* Inside a call `call` is what was asked for.
CallInv == pc # "idle" => call \in Transfers

\* Until a call gave up on a running transfer: a message or a running transfer
\* belongs to the call that waits for it, and nobody else sees one.
CleanInv ==
  clean =>
    /\ pc # "get" => queue = <<>> /\ hal \notin Transfers
    /\ pc = "get" => /\ Len(queue) + InFlight <= 1
                     /\ \A i \in 1 .. Len(queue) : queue[i] = Cplt(call)
                     /\ hal \in Transfers => hal = call

IInv == /\ TypeOK /\ NoQueueInv /\ CallInv
        /\ QueueNeverOverflows /\ CleanInv /\ OkMeansTransferred

----------------------------------------------------------------------------
(* Facts about one-message steps of the queue.                             *)

\* Taking the head off a non-empty queue of messages.
LEMMA TakeFacts ==
  ASSUME NEW q \in Seq(Messages), q # <<>>
  PROVE  /\ Tail(q) \in Seq(Messages) /\ Len(Tail(q)) = Len(q) - 1
         /\ Len(q) \in Nat \ {0} /\ Head(q) = q[1]
  <1>1. Len(q) \in Nat \ {0}
    BY EmptySeq
  <1>2. QED
    BY <1>1, HeadTailProperties

\* Putting a message at the end.
LEMMA PutFacts ==
  ASSUME NEW q \in Seq(Messages), NEW m \in Messages
  PROVE  /\ Append(q, m) \in Seq(Messages) /\ Len(Append(q, m)) = Len(q) + 1
         /\ \A i \in 1 .. Len(q) + 1 : Append(q, m)[i] = IF i <= Len(q) THEN q[i] ELSE m
  BY AppendProperties

\* The empty queue is the one of length 0.
LEMMA EmptyFacts ==
  ASSUME NEW q \in Seq(Messages)
  PROVE  /\ Len(q) \in Nat
         /\ q = <<>> <=> Len(q) = 0
  BY EmptySeq, LenProperties

LEMMA CpltType == ASSUME NEW t \in Transfers PROVE Cplt(t) \in Messages
  BY DEF Cplt, Messages

\* The deadline of the poll loop is a value of the tick counter.
LEMMA DeadlineType ==
  ASSUME tick \in 0 .. TickMod - 1
  PROVE  /\ (tick + SdTimeout) % TickMod \in 0 .. TickMod - 1
         /\ (tick + 1) % TickMod \in 0 .. TickMod - 1
  BY SdAssumption

----------------------------------------------------------------------------
LEMMA InitInv == Init => IInv
  <1> SUFFICES ASSUME Init PROVE IInv
    OBVIOUS
  <1>1. TypeOK
    <2>1. linked \in BOOLEAN /\ is_initialized \in BOOLEAN /\ mounted \in BOOLEAN
          /\ hasQueue \in BOOLEAN /\ fault \in BOOLEAN /\ clean \in BOOLEAN
      BY DEF Init
    <2>2. queue \in Seq(Messages)
      BY EmptySeq DEF Init
    <2>3. /\ remaining \in 0 .. SdTimeout /\ polled \in 0 .. SdTimeout
          /\ timer \in 0 .. TickMod - 1 /\ tick \in 0 .. TickMod - 1
          /\ pollStart \in 0 .. TickMod - 1
      BY SdAssumption DEF Init
    <2>4. QED
      BY <2>1, <2>2, <2>3 DEF Init, TypeOK
  <1>2. NoQueueInv /\ CallInv /\ QueueNeverOverflows /\ CleanInv /\ OkMeansTransferred
    BY DEF Init, NoQueueInv, CallInv, QueueNeverOverflows, CleanInv,
           OkMeansTransferred, InFlight, Transfers
  <1>3. QED
    BY <1>1, <1>2 DEF IInv

----------------------------------------------------------------------------
(* Every step keeps the types.                                             *)
LEMMA TypeStep == TypeOK /\ [Next]_vars => TypeOK'
  <1> SUFFICES ASSUME TypeOK, [Next]_vars PROVE TypeOK'
    OBVIOUS
  <1> USE DEF vars, diskVars, queueVars, timeVars, hwVars
  <1>1. CASE LinkDriver
    BY <1>1 DEF LinkDriver, TypeOK
  <1>2. CASE UnLinkDriver
    <2>1. linked' \in BOOLEAN
      BY <1>2 DEF UnLinkDriver
    <2>2. QED
      BY <1>2, <2>1 DEF UnLinkDriver, TypeOK
  <1>3. CASE InitializeAgain
    BY <1>3 DEF InitializeAgain, TypeOK
  <1>4. CASE InitializeFails
    BY <1>4 DEF InitializeFails, TypeOK
  <1>5. CASE InitializeNotReady
    BY <1>5 DEF InitializeNotReady, TypeOK
  <1>6. CASE InitializeReady
    <2>1. <<>> \in Seq(Messages)
      BY EmptySeq
    <2>2. QED
      BY <1>6, <2>1 DEF InitializeReady, TypeOK
  <1>7. CASE DiskStatus
    BY <1>7 DEF DiskStatus, TypeOK
  <1>8. CASE IoctlSync
    BY <1>8 DEF IoctlSync, TypeOK
  <1>9. ASSUME NEW t \in Transfers, TransferRefused(t) PROVE TypeOK'
    BY <1>9 DEF TransferRefused, TypeOK
  <1>10. ASSUME NEW t \in Transfers, TransferStart(t) PROVE TypeOK'
    BY <1>10, SdAssumption DEF TransferStart, StartDma, TypeOK
  <1>11. CASE GetWithoutQueue
    BY <1>11, SdAssumption DEF GetWithoutQueue, Return, TypeOK
  <1>12. CASE GetExpected
    BY <1>12, TakeFacts, DeadlineType, SdAssumption
       DEF GetExpected, TakeExpected, HasMessage, EnterPoll, TypeOK
  <1>13. CASE GetOther
    BY <1>13, TakeFacts, SdAssumption DEF GetOther, HasMessage, Return, TypeOK
  <1>14. CASE GetTimeout
    BY <1>14, SdAssumption DEF GetTimeout, Return, TypeOK
  <1>15. CASE PollReady
    BY <1>15, SdAssumption DEF PollReady, LeavePoll, Return, TypeOK
  <1>16. CASE PollExpire
    BY <1>16, SdAssumption DEF PollExpire, LeavePoll, Return, TypeOK
  <1>17. CASE CpltCallback
    <2>1. Append(queue, Cplt(hal)) \in Seq(Messages)
      BY <1>17, PutFacts, CpltType DEF CpltCallback, TypeOK
    <2>2. queue' \in Seq(Messages) /\ fault' \in BOOLEAN /\ hal' = "READY"
      BY <1>17, <2>1 DEF CpltCallback, TypeOK
    <2>3. QED
      BY <1>17, <2>2 DEF CpltCallback, TypeOK
  <1>18. CASE TransferError
    BY <1>18 DEF TransferError, TypeOK
  <1>19. CASE CardSettles
    BY <1>19 DEF CardSettles, TypeOK
  <1>20. CASE Tick
    BY <1>20, DeadlineType, SdAssumption DEF Tick, TypeOK
  <1>21. CASE UNCHANGED vars
    BY <1>21 DEF TypeOK
  <1>22. QED
    BY <1>1, <1>2, <1>3, <1>4, <1>5, <1>6, <1>7, <1>8, <1>9, <1>10, <1>11, <1>12,
       <1>13, <1>14, <1>15, <1>16, <1>17, <1>18, <1>19, <1>20, <1>21
       DEF Next, Thread, Halted

\* TypeOK holds in every reachable state: the driver's locals, its queue and the
\* tick arithmetic stay within the ranges the code declares.
THEOREM TypeCorrect == Spec => []TypeOK
  <1>1. Init => TypeOK
    BY InitInv DEF IInv
  <1>2. QED
    BY <1>1, TypeStep, PTL DEF Spec

----------------------------------------------------------------------------
(* The invariants.                                                         *)

\* Steps that leave the queue, the peripheral and the calling thread alone.
LEMMA QuietStep ==
  ASSUME IInv, UNCHANGED <<hasQueue, queue, pc, hal, card>>,
         call' = call \/ (pc = "idle" /\ call' \notin Transfers) \/ (pc = "idle" /\ res' # "RES_OK"),
         res' = res \/ call' \notin Transfers \/ res' # "RES_OK",
         clean' = clean,
         pc # "idle" => call' = call
  PROVE  /\ NoQueueInv' /\ CallInv' /\ QueueNeverOverflows'
         /\ CleanInv' /\ OkMeansTransferred'
  <1>1. NoQueueInv' /\ CallInv' /\ QueueNeverOverflows'
    BY DEF IInv, NoQueueInv, CallInv, QueueNeverOverflows, InFlight
  <1>2. CleanInv'
    BY DEF IInv, CleanInv, InFlight, Cplt
  <1>3. OkMeansTransferred'
    BY DEF IInv, OkMeansTransferred, CleanInv, Transfers
  <1>4. QED
    BY <1>1, <1>2, <1>3

LEMMA InvStep == IInv /\ [Next]_vars => IInv'
  <1> SUFFICES ASSUME IInv, [Next]_vars
               PROVE  /\ NoQueueInv' /\ CallInv' /\ QueueNeverOverflows'
                      /\ CleanInv' /\ OkMeansTransferred'
    BY TypeStep DEF IInv
  <1> DEFINE Goal == /\ NoQueueInv' /\ CallInv' /\ QueueNeverOverflows'
                     /\ CleanInv' /\ OkMeansTransferred'
  <1> USE DEF vars, diskVars, queueVars, timeVars, hwVars
  <1>0. /\ TypeOK /\ Len(queue) \in Nat /\ (queue = <<>> <=> Len(queue) = 0)
        /\ Len(<<>>) = 0
    BY EmptyFacts, EmptySeq DEF IInv, TypeOK
  <1>1. CASE LinkDriver
    BY <1>1, QuietStep DEF LinkDriver
  <1>2. CASE UnLinkDriver
    BY <1>2, QuietStep DEF UnLinkDriver
  <1>3. CASE InitializeAgain
    BY <1>3, QuietStep DEF InitializeAgain, CanCall, Transfers
  <1>4. CASE InitializeFails
    BY <1>4, <1>0 DEF InitializeFails, CanCall, Transfers, IInv, NoQueueInv, CallInv,
          QueueNeverOverflows, InFlight, CleanInv, OkMeansTransferred
  <1>5. CASE InitializeNotReady
    BY <1>5, <1>0 DEF InitializeNotReady, CanCall, Transfers, IInv, NoQueueInv, CallInv,
          QueueNeverOverflows, InFlight, CleanInv, OkMeansTransferred
  <1>6. CASE InitializeReady
    BY <1>6, <1>0 DEF InitializeReady, CanCall, Transfers, IInv, NoQueueInv, CallInv,
          QueueNeverOverflows, InFlight, CleanInv, OkMeansTransferred
  <1>7. CASE DiskStatus
    BY <1>7, QuietStep DEF DiskStatus, CanCall, Transfers
  <1>8. CASE IoctlSync
    BY <1>8, QuietStep DEF IoctlSync, CanCall, Transfers
  <1>9. ASSUME NEW t \in Transfers, TransferRefused(t) PROVE Goal
    BY <1>9, QuietStep DEF TransferRefused, CanCall
  <1>10. ASSUME NEW t \in Transfers, TransferStart(t) PROVE Goal
    BY <1>10, <1>0 DEF TransferStart, StartDma, CanCall, Transfers, IInv, NoQueueInv,
          CallInv, QueueNeverOverflows, InFlight, CleanInv, OkMeansTransferred
  <1>11. CASE GetWithoutQueue
    <2>1. clean' => clean /\ hal \notin Transfers
      BY <1>11 DEF GetWithoutQueue
    <2>2. QED
      BY <1>11, <1>0, <2>1 DEF GetWithoutQueue, Return, Transfers, IInv, NoQueueInv,
          CallInv, QueueNeverOverflows, InFlight, CleanInv, OkMeansTransferred
  <1>12. CASE GetExpected
    <2>1. Len(Tail(queue)) = Len(queue) - 1 /\ Tail(queue) \in Seq(Messages)
      BY <1>0, <1>12, TakeFacts DEF GetExpected, TakeExpected, HasMessage, TypeOK
    <2>2. Tail(queue) = <<>> <=> Len(Tail(queue)) = 0
      BY <2>1, EmptyFacts
    <2>3. QED
      BY <1>12, <1>0, <2>1, <2>2 DEF GetExpected, TakeExpected, HasMessage, EnterPoll,
            Transfers, IInv, NoQueueInv, CallInv, QueueNeverOverflows, InFlight,
            CleanInv, OkMeansTransferred
  <1>13. CASE GetOther
    <2>1. /\ Len(Tail(queue)) = Len(queue) - 1 /\ Tail(queue) \in Seq(Messages)
          /\ Head(queue) = queue[1] /\ Len(queue) >= 1
      BY <1>0, <1>13, TakeFacts DEF GetOther, HasMessage, TypeOK
    <2>2. ASSUME clean PROVE FALSE
      <3>1. \A i \in 1 .. Len(queue) : queue[i] = Cplt(call)
        BY <1>13, <2>2 DEF GetOther, HasMessage, IInv, CleanInv
      <3>2. 1 \in 1 .. Len(queue)
        BY <2>1, <1>0
      <3>3. QED
        BY <3>1, <3>2, <2>1, <1>13 DEF GetOther
    <2>3. ~clean'
      BY <1>13, <2>2 DEF GetOther
    <2>4. QED
      BY <1>13, <1>0, <2>1, <2>3 DEF GetOther, HasMessage, Return, Transfers, IInv,
            NoQueueInv, CallInv, QueueNeverOverflows, InFlight, CleanInv,
            OkMeansTransferred
  <1>14. CASE GetTimeout
    <2>1. clean' => clean /\ hal \notin Transfers
      BY <1>14 DEF GetTimeout
    <2>2. QED
      BY <1>14, <1>0, <2>1 DEF GetTimeout, Return, Transfers, IInv, NoQueueInv,
            CallInv, QueueNeverOverflows, InFlight, CleanInv, OkMeansTransferred
  <1>15. CASE PollReady
    BY <1>15, <1>0 DEF PollReady, LeavePoll, Return, Transfers, IInv, NoQueueInv,
          CallInv, QueueNeverOverflows, InFlight, CleanInv, OkMeansTransferred
  <1>16. CASE PollExpire
    BY <1>16, <1>0 DEF PollExpire, LeavePoll, Return, Transfers, IInv, NoQueueInv,
          CallInv, QueueNeverOverflows, InFlight, CleanInv, OkMeansTransferred
  <1>17. CASE CpltCallback
    <2>1. Cplt(hal) \in Messages /\ hal \in Transfers /\ hal' = "READY"
      BY <1>17, CpltType DEF CpltCallback
    <2> DEFINE q == Append(queue, Cplt(hal))
    <2>2. Len(q) = Len(queue) + 1
          /\ \A i \in 1 .. Len(queue) + 1 : q[i] = IF i <= Len(queue) THEN queue[i] ELSE Cplt(hal)
      BY <2>1, <1>0, PutFacts DEF TypeOK
    <2>3. queue' = queue \/ (queue' = q /\ hasQueue)
      BY <1>17 DEF CpltCallback
    <2>4. NoQueueInv' /\ CallInv'
      BY <1>17, <2>3 DEF CpltCallback, IInv, NoQueueInv, CallInv
    <2>5. QueueNeverOverflows'
      BY <1>17, <2>1, <2>2, <2>3, <1>0
         DEF CpltCallback, IInv, QueueNeverOverflows, InFlight, Transfers
    <2>6. OkMeansTransferred'
      BY <1>17, <2>1 DEF CpltCallback, IInv, OkMeansTransferred
    <2>7. CleanInv'
      <3> SUFFICES ASSUME clean' PROVE CleanInv!2'
        BY DEF CleanInv
      <3> QED
        BY <1>17, <2>1, <2>2, <2>3, <1>0
           DEF CpltCallback, IInv, CleanInv, InFlight, Transfers
    <2>8. QED
      BY <2>4, <2>5, <2>6, <2>7
  <1>18. CASE TransferError
    BY <1>18, <1>0 DEF TransferError, Transfers, IInv, NoQueueInv,
          CallInv, QueueNeverOverflows, InFlight, CleanInv, OkMeansTransferred
  <1>19. CASE CardSettles
    BY <1>19, <1>0 DEF CardSettles, Transfers, IInv, NoQueueInv,
          CallInv, QueueNeverOverflows, InFlight, CleanInv, OkMeansTransferred
  <1>20. CASE Tick
    BY <1>20, QuietStep DEF Tick
  <1>21. CASE UNCHANGED vars
    BY <1>21, QuietStep
  <1>22. QED
    BY <1>1, <1>2, <1>3, <1>4, <1>5, <1>6, <1>7, <1>8, <1>9, <1>10, <1>11, <1>12,
       <1>13, <1>14, <1>15, <1>16, <1>17, <1>18, <1>19, <1>20, <1>21
       DEF Next, Thread, Halted

LEMMA Invariance == Spec => []IInv
  BY InitInv, InvStep, PTL DEF Spec

\* The put of the completion interrupt, whose result nobody looks at, always finds
\* room: whatever the queue length (at least 2) and however many calls time out.
THEOREM QueueBounded == Spec => []QueueNeverOverflows
  BY Invariance, PTL DEF IInv

\* As long as no call gave up on a running transfer, RES_OK from SD_read or SD_write
\* means that the transfer this call started has ended.
THEOREM OkIsOwnTransfer == Spec => []OkMeansTransferred
  BY Invariance, PTL DEF IInv

----------------------------------------------------------------------------
(* The poll loop and the tick counter.                                     *)

\* A sum of two values of the tick counter wraps at most once.
LEMMA ModCases ==
  ASSUME NEW M \in Nat \ {0}, NEW a \in 0 .. M - 1, NEW b \in 0 .. M - 1
  PROVE  (a + b) % M \in {a + b, a + b - M}
  <1>1. CASE a + b < M
    BY <1>1
  <1>2. CASE a + b >= M
    BY <1>2
  <1>3. QED
    BY <1>1, <1>2

\* In the poll loop `timer` and the tick are pollStart plus what was added to it.
PollInv ==
  pc = "poll" =>
    /\ timer \in {pollStart + SdTimeout, pollStart + SdTimeout - TickMod}
    /\ polled < SdTimeout => tick \in {pollStart + polled, pollStart + polled - TickMod}

LEMMA PollStep == TypeOK /\ PollInv /\ [Next]_vars => PollInv'
  <1> SUFFICES ASSUME TypeOK, PollInv, [Next]_vars, pc' = "poll"
               PROVE  PollInv'
    BY DEF PollInv
  <1> USE DEF vars, timeVars
  <1>1. CASE GetExpected
    <2>1. /\ timer' = (tick + SdTimeout) % TickMod
          /\ pollStart' = tick /\ polled' = 0 /\ tick' = tick
      BY <1>1 DEF GetExpected, TakeExpected, EnterPoll
    <2>2. /\ tick \in 0 .. TickMod - 1 /\ SdTimeout \in 0 .. TickMod - 1
          /\ TickMod \in Nat \ {0}
      BY SdAssumption DEF TypeOK
    <2>3. timer' \in {tick + SdTimeout, tick + SdTimeout - TickMod}
      BY <2>1, <2>2, ModCases
    <2>4. QED
      BY <2>1, <2>2, <2>3 DEF PollInv
  <1>2. CASE Tick
    <2>1. /\ pc = "poll" /\ timer' = timer /\ pollStart' = pollStart
          /\ tick' = (tick + 1) % TickMod
          /\ polled' = IF polled < SdTimeout THEN polled + 1 ELSE polled
      BY <1>2 DEF Tick
    <2>2. /\ tick \in 0 .. TickMod - 1 /\ 1 \in 0 .. TickMod - 1 /\ TickMod \in Nat \ {0}
          /\ pollStart \in 0 .. TickMod - 1 /\ polled \in 0 .. SdTimeout
          /\ SdTimeout \in Nat /\ SdTimeout < TickMod
      BY SdAssumption DEF TypeOK
    <2>3. tick' \in {tick + 1, tick + 1 - TickMod} /\ tick' \in 0 .. TickMod - 1
      BY <2>1, <2>2, ModCases, DeadlineType
    <2>4. ASSUME polled' < SdTimeout
          PROVE  tick' \in {pollStart + polled', pollStart + polled' - TickMod}
      BY <2>1, <2>2, <2>3, <2>4 DEF PollInv
    <2>5. QED
      BY <2>1, <2>4 DEF PollInv
  <1>3. CASE pc = "poll" /\ UNCHANGED timeVars
    BY <1>3 DEF PollInv
  <1>4. QED
    BY <1>1, <1>2, <1>3
       DEF Next, Thread, Halted, LinkDriver, UnLinkDriver, InitializeAgain,
           InitializeFails, InitializeNotReady, InitializeReady, CanCall, DiskStatus,
           IoctlSync, TransferRefused, TransferStart, GetWithoutQueue, GetOther,
           GetTimeout, PollReady, PollExpire, LeavePoll, Return, CpltCallback,
           TransferError, CardSettles

\* The poll loop never gives up early, for any time-out and any width of the tick
\* counter, except when the deadline wrapped: the driver's comparison
\* `timer > osKernelSysTick()` is wrong only then.
THEOREM PollWindowCorrect == Spec => PollWindow
  <1>1. Init => PollInv
    BY DEF Init, PollInv
  <1>2. ASSUME TypeOK, PollInv, [Next]_vars
        PROVE  [pc = "poll" /\ pc' = "idle" /\ res' = "RES_ERROR"
                  => polled >= SdTimeout \/ timer < pollStart]_vars
    <2> SUFFICES ASSUME Next, pc = "poll", pc' = "idle", res' = "RES_ERROR",
                        ~(polled >= SdTimeout), ~(timer < pollStart)
                 PROVE  FALSE
      BY <1>2
    <2>1. ~(timer > tick)
      BY DEF Next, Thread, Halted, vars, LinkDriver, UnLinkDriver, InitializeAgain,
             InitializeFails, InitializeNotReady, InitializeReady, CanCall, DiskStatus,
             IoctlSync, TransferRefused, TransferStart, StartDma, GetWithoutQueue,
             GetExpected, TakeExpected, HasMessage, GetOther, GetTimeout, PollReady,
             PollExpire, LeavePoll, Return, CpltCallback, TransferError, CardSettles, Tick
    <2>2. /\ timer \in {pollStart + SdTimeout, pollStart + SdTimeout - TickMod}
          /\ polled < SdTimeout => tick \in {pollStart + polled, pollStart + polled - TickMod}
      BY <1>2 DEF PollInv
    <2>3. /\ SdTimeout \in Nat /\ TickMod \in Nat /\ SdTimeout < TickMod
          /\ pollStart \in Nat /\ polled \in Nat /\ tick \in Nat /\ timer \in Nat
      BY <1>2, SdAssumption DEF TypeOK
    <2>4. QED
      BY <2>1, <2>2, <2>3
  <1>3. QED
    BY <1>1, <1>2, PollStep, TypeCorrect, PTL DEF Spec, PollWindow

----------------------------------------------------------------------------
(* The driver implements DiskTransfer.                                     *)

\* The state functions DiskTransfer sees.
LEMMA SameView ==
  ASSUME UNCHANGED <<pc, call, res>>,
         pc \in {"idle", "poll"} \/ UNCHANGED <<hal, queue>>
  PROVE  UNCHANGED <<phaseBar, kindBar, resultBar>>
  BY DEF phaseBar, kindBar, resultBar

\* Between calls only the remembered answer can change.
LEMMA IdleView ==
  ASSUME pc = "idle", pc' = "idle",
         resultBar' \in {"NONE", resultBar} \/ resultBar' = "RES_ERROR"
  PROVE  [Promise!Next]_(Promise!tvars)
  <1>1. phaseBar = "none" /\ phaseBar' = "none" /\ kindBar = "none" /\ kindBar' = "none"
    BY DEF phaseBar, kindBar
  <1>2. QED
    BY <1>1 DEF Promise!Next, Promise!Refuse, Promise!Forget, Promise!tvars

\* The call in progress returns an error.
LEMMA ErrorView ==
  ASSUME pc \in {"get", "poll"}, pc' = "idle", call \in Transfers, call' = call,
         res' = "RES_ERROR"
  PROVE  Promise!Next
  <1>1. phaseBar # "none"
    BY DEF phaseBar
  <1>2. phaseBar' = "none" /\ kindBar' = "none" /\ resultBar' = "RES_ERROR"
    BY DEF phaseBar, kindBar, resultBar
  <1>3. Promise!Return("RES_ERROR")
    BY <1>1, <1>2 DEF Promise!Return
  <1>4. QED
    BY <1>3 DEF Promise!Next

LEMMA ViewStep ==
  ASSUME IInv, clean, [Next /\ clean']_vars
  PROVE  [Promise!Next]_(Promise!tvars)
  <1> DEFINE Goal == [Promise!Next]_(Promise!tvars)
  <1> USE DEF vars, diskVars, queueVars, timeVars, hwVars
  <1>0. /\ Len(queue) \in Nat /\ (queue = <<>> <=> Len(queue) = 0)
        /\ queue \in Seq(Messages)
    BY EmptyFacts DEF IInv, TypeOK
  <1>1. ASSUME UNCHANGED <<pc, call, res>>, pc # "get" \/ UNCHANGED <<hal, queue>>
        PROVE  Goal
    BY <1>1, SameView DEF Promise!tvars, IInv, TypeOK
  <1>2. ASSUME pc = "idle", pc' = "idle", call' \notin Transfers PROVE Goal
    BY <1>2, IdleView DEF resultBar
  <1>3. ASSUME NEW t \in Transfers, TransferRefused(t) PROVE Goal
    BY <1>3, IdleView DEF TransferRefused, CanCall, resultBar
  <1>4. ASSUME NEW t \in Transfers, TransferStart(t) PROVE Goal
    <2>1. phaseBar = "none"
      BY <1>4 DEF TransferStart, StartDma, CanCall, phaseBar
    <2>2. phaseBar' = "moving" /\ kindBar' = t /\ resultBar' = "NONE"
      BY <1>4 DEF TransferStart, StartDma, phaseBar, kindBar, resultBar
    <2>3. Promise!Start(t)
      BY <2>1, <2>2 DEF Promise!Start
    <2>4. QED
      BY <2>3 DEF Promise!Next, Promise!Kinds, Transfers
  <1>5. CASE GetWithoutQueue \/ GetOther \/ GetTimeout \/ PollExpire
    BY <1>5, ErrorView
       DEF GetWithoutQueue, GetOther, GetTimeout, PollExpire, LeavePoll, HasMessage,
           Return, IInv, CallInv
  <1>6. CASE GetExpected
    <2>1. /\ pc = "get" /\ hasQueue /\ queue # <<>>
          /\ pc' = "poll" /\ UNCHANGED <<call, res, hal>>
      BY <1>6 DEF GetExpected, TakeExpected, HasMessage, EnterPoll
    <2>2. hal \notin Transfers
      BY <1>0, <2>1 DEF IInv, CleanInv, InFlight
    <2>3. phaseBar = "moved" /\ phaseBar' = "moved"
      BY <2>1, <2>2 DEF phaseBar
    <2>4. UNCHANGED <<kindBar, resultBar>>
      BY <2>1 DEF kindBar, resultBar
    <2>5. QED
      BY <2>3, <2>4 DEF Promise!tvars
  <1>7. CASE PollReady
    <2>1. /\ pc = "poll" /\ pc' = "idle" /\ res' = "RES_OK"
          /\ call' = call /\ call \in Transfers
      BY <1>7 DEF PollReady, LeavePoll, Return, IInv, CallInv
    <2>2. phaseBar = "moved" /\ phaseBar' = "none" /\ kindBar' = "none"
          /\ resultBar' = "RES_OK"
      BY <2>1 DEF phaseBar, kindBar, resultBar
    <2>3. Promise!Return("RES_OK")
      BY <2>2 DEF Promise!Return
    <2>4. QED
      BY <2>3 DEF Promise!Next
  <1>8. ASSUME pc = "get", hal \in Transfers, hal' = "READY", UNCHANGED <<pc, call, res>>
        PROVE  Goal
    <2>1. phaseBar = "moving" /\ phaseBar' \in {"moved", "failed"}
      BY <1>8 DEF phaseBar, Transfers
    <2>2. UNCHANGED <<kindBar, resultBar>>
      BY <1>8 DEF kindBar, resultBar
    <2>3. QED
      BY <2>1, <2>2 DEF Promise!Next, Promise!Complete, Promise!Fail
  <1>9. CASE CpltCallback \/ TransferError
    BY <1>1, <1>8, <1>9 DEF CpltCallback, TransferError
  <1>10. CASE LinkDriver \/ UnLinkDriver \/ CardSettles \/ Tick \/ UNCHANGED vars
    BY <1>1, <1>10 DEF LinkDriver, UnLinkDriver, CardSettles, Tick
  <1>11. CASE InitializeAgain \/ InitializeFails \/ InitializeNotReady
              \/ InitializeReady \/ DiskStatus \/ IoctlSync
    BY <1>2, <1>11 DEF InitializeAgain, InitializeFails, InitializeNotReady,
          InitializeReady, DiskStatus, IoctlSync, CanCall, Transfers
  <1>12. QED
    BY <1>3, <1>4, <1>5, <1>6, <1>7, <1>9, <1>10, <1>11 DEF Next, Thread, Halted

\* A new queue is the only way back to a clean state: no call is in progress.
LEMMA RepairView ==
  ASSUME Next, ~clean, clean'
  PROVE  [Promise!Next]_(Promise!tvars)
  <1>1. InitializeReady
    BY DEF Next, Thread, Halted, vars, LinkDriver, UnLinkDriver, InitializeAgain,
           InitializeFails, InitializeNotReady, CanCall, DiskStatus, IoctlSync,
           TransferRefused, TransferStart, StartDma, GetWithoutQueue, GetExpected,
           TakeExpected, GetOther, GetTimeout, PollReady, PollExpire, LeavePoll,
           CpltCallback, TransferError, CardSettles, Tick
  <1>2. QED
    BY <1>1, IdleView DEF InitializeReady, CanCall, resultBar, Transfers

LEMMA ViewInit == Init => Promise!Init /\ clean
  BY DEF Init, Promise!Init, phaseBar, kindBar, resultBar, Transfers

\* SD_read and SD_write keep the promise of DiskTransfer until a call gives up on a
\* running transfer: they answer RES_OK only after the transfer they started, of the
\* kind they were asked for, moved its data.
THEOREM StepRefinement == Spec => ImplementsDiskTransfer
  <1>1. ASSUME IInv, [Next]_vars
        PROVE  [clean' => Promise!Next \/ UNCHANGED Promise!tvars]_vars
    <2> SUFFICES ASSUME Next, clean' PROVE [Promise!Next]_(Promise!tvars)
      BY <1>1
    <2>1. CASE clean
      BY <1>1, <2>1, ViewStep
    <2>2. CASE ~clean
      BY <1>1, <2>2, RepairView
    <2>3. QED
      BY <2>1, <2>2 DEF IInv, TypeOK
  <1>2. QED
    BY <1>1, ViewInit, Invariance, PTL DEF Spec, ImplementsDiskTransfer

\* In an execution in which no transfer outlives the time-out the driver implements
\* DiskTransfer outright.
THEOREM Refinement == PromptSpec => Promise!Spec
  <1>1. clean /\ [Next /\ clean']_vars => clean'
    BY DEF vars
  <1>2. IInv /\ [Next /\ clean']_vars => IInv'
    BY InvStep
  <1>4. QED
    BY <1>1, <1>2, InitInv, ViewInit, ViewStep, PTL DEF PromptSpec, Promise!Spec
=============================================================================
