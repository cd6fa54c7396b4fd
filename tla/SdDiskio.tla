------------------------------ MODULE SdDiskio ------------------------------
(***************************************************************************)
(* The SD disk layer under FatFs in the RTOS projects: the generic driver  *)
(* table (ff_gen_drv.c), the dispatch functions (diskio.c) and the DMA     *)
(* driver that waits for its completion interrupts on an RTOS message      *)
(* queue (sd_diskio_dma_rtos.c).                                           *)
(*                                                                         *)
(* Actors: the thread that holds the FatFs volume lock (FF_FS_REENTRANT    *)
(* is 1, so one call runs at a time), the SDMMC/DMA interrupt, the card    *)
(* and the kernel tick.  Every caller is a thread, so osKernelRunning() in *)
(* SD_initialize is TRUE.                                                  *)
(***************************************************************************)
EXTENDS Naturals, Sequences

CONSTANTS QueueSize,  \* QUEUE_SIZE, the length of the operation queue
          SdTimeout,  \* SD_TIMEOUT, in ticks
          TickMod     \* the tick counter is a uint32_t: it counts modulo TickMod

ASSUME SdAssumption == /\ QueueSize \in Nat /\ QueueSize >= 2
                       /\ SdTimeout \in Nat \ {0}
                       /\ TickMod \in Nat /\ TickMod > SdTimeout

READ_CPLT_MSG  == 1
WRITE_CPLT_MSG == 2
Messages == {READ_CPLT_MSG, WRITE_CPLT_MSG}

Transfers == {"read", "write"}
Cplt(t) == IF t = "read" THEN READ_CPLT_MSG ELSE WRITE_CPLT_MSG

VARIABLES
  linked,          \* disk.drv[0] # 0
  is_initialized,  \* disk.is_initialized[0]
  mounted,         \* FatFs: the last answer of the drive was not STA_NOINIT
  Stat,            \* the driver's status byte
  hasQueue,        \* SDQueueID # NULL
  queue,           \* the messages in the queue SDQueueID names
  pc,              \* where the calling thread is inside SD_read / SD_write
  call,            \* the call in progress, or the last one
  res,             \* what the last call returned
  remaining,       \* ticks left of the osMessageGet time-out
  timer,           \* the local `timer` of the poll loop
  tick,            \* osKernelSysTick()
  hal,             \* uSdHandle.State: RESET, READY, or BUSY with a transfer
  card,            \* CMD13 answer: "transfer" or "busy"
  fault,           \* the interrupt used a NULL queue: configASSERT stops the system
  clean,           \* history: no call gave up on a running transfer (this queue)
  pollStart,       \* history: the tick at which the poll loop began
  polled           \* history: ticks spent in the poll loop, up to SdTimeout

diskVars == <<linked, is_initialized, mounted>>
queueVars == <<hasQueue, queue>>
timeVars == <<remaining, timer, tick, pollStart, polled>>
hwVars   == <<hal, card, fault>>
vars == <<diskVars, Stat, queueVars, pc, call, res, timeVars, hwVars, clean>>

Init ==
  /\ linked = FALSE /\ is_initialized = FALSE /\ mounted = FALSE
  /\ Stat = "NOINIT"
  /\ hasQueue = FALSE /\ queue = <<>>
  /\ pc = "idle" /\ call = "none" /\ res = "NONE"
  /\ remaining = 0 /\ timer = 0 /\ pollStart = 0 /\ polled = 0
  /\ tick = 0
  /\ hal = "RESET" /\ card = "busy" /\ fault = FALSE
  /\ clean = TRUE

----------------------------------------------------------------------------
(* ff_gen_drv.c: the table of linked drivers.                              *)

\* FATFS_LinkDriver: the volume gets the SD driver and must be initialised.
LinkDriver ==
  /\ ~fault /\ pc = "idle" /\ ~linked
  /\ linked' = TRUE
  /\ is_initialized' = FALSE
  /\ UNCHANGED <<mounted, Stat, queueVars, pc, call, res, timeVars, hwVars, clean>>

\* FATFS_UnLinkDriver: FatFs keeps its volume object, the queue stays.
UnLinkDriver ==
  /\ ~fault /\ pc = "idle" /\ linked
  /\ linked' = FALSE
  /\ UNCHANGED <<is_initialized, mounted, Stat, queueVars, pc, call, res,
                 timeVars, hwVars, clean>>

----------------------------------------------------------------------------
(* disk_initialize and disk_status.                                        *)

\* The thread may enter the driver.
CanCall == ~fault /\ pc = "idle" /\ linked

\* disk_initialize on a volume that was initialised once, with or without
\* success: the driver is not called again and the answer is RES_OK.
InitializeAgain ==
  /\ CanCall /\ is_initialized
  /\ mounted' = TRUE
  /\ call' = "initialize" /\ res' = "RES_OK"
  /\ UNCHANGED <<linked, is_initialized, Stat, queueVars, pc, timeVars, hwVars, clean>>

\* SD_initialize when BSP_SD_Init fails: either no card is detected and the
\* peripheral is left as it is, or the card does not come up.
InitializeFails ==
  /\ CanCall /\ ~is_initialized
  /\ is_initialized' = TRUE
  /\ Stat' = "NOINIT" /\ mounted' = FALSE
  /\ call' = "initialize" /\ res' = "NOINIT"
  /\ hal' \in {hal, "RESET"}
  /\ UNCHANGED <<linked, queueVars, pc, timeVars, card, fault, clean>>

\* SD_initialize when BSP_SD_Init succeeds (it resets both DMA streams) but
\* SD_CheckStatus does not find the card in transfer state: no queue is made.
InitializeNotReady ==
  /\ CanCall /\ ~is_initialized
  /\ is_initialized' = TRUE
  /\ hal' = "READY" /\ card' = "busy"
  /\ Stat' = "NOINIT" /\ mounted' = FALSE
  /\ call' = "initialize" /\ res' = "NOINIT"
  /\ UNCHANGED <<linked, queueVars, pc, timeVars, fault, clean>>

\* SD_initialize with a card in transfer state: a new queue replaces the old
\* one, or NULL does when the heap cannot hold it; the status is good anyway.
InitializeReady ==
  /\ CanCall /\ ~is_initialized
  /\ is_initialized' = TRUE
  /\ hal' = "READY" /\ card' = "transfer"
  /\ Stat' = "OK" /\ mounted' = TRUE
  /\ call' = "initialize" /\ res' = "RES_OK"
  /\ hasQueue' \in BOOLEAN /\ queue' = <<>>
  /\ clean' = TRUE
  /\ UNCHANGED <<linked, pc, timeVars, fault>>

\* disk_status: SD_CheckStatus computes Stat anew from the card's state.
DiskStatus ==
  /\ CanCall /\ mounted
  /\ Stat' = IF hal # "RESET" /\ card = "transfer" THEN "OK" ELSE "NOINIT"
  /\ mounted' = (Stat' = "OK")
  /\ call' = "status" /\ res' = IF mounted' THEN "RES_OK" ELSE "NOINIT"
  /\ UNCHANGED <<linked, is_initialized, queueVars, pc, timeVars, hwVars, clean>>

\* SD_ioctl(CTRL_SYNC): refused on STA_NOINIT, else RES_OK at once.  The other
\* commands only copy the card's geometry and return the same results.
IoctlSync ==
  /\ CanCall /\ mounted
  /\ call' = "sync"
  /\ res' = IF Stat = "NOINIT" THEN "RES_NOTRDY" ELSE "RES_OK"
  /\ UNCHANGED <<diskVars, Stat, queueVars, pc, timeVars, hwVars, clean>>

----------------------------------------------------------------------------
(* SD_read and SD_write.                                                   *)

\* BSP_SD_..Blocks_DMA refuses: the peripheral is busy or the command fails.
TransferRefused(t) ==
  /\ CanCall /\ mounted
  /\ call' = t /\ res' = "RES_ERROR"
  /\ UNCHANGED <<diskVars, Stat, queueVars, pc, timeVars, hwVars, clean>>

\* BSP_SD_..Blocks_DMA starts the transfer.
StartDma(t) ==
  /\ CanCall /\ mounted /\ hal = "READY"
  /\ hal' = t /\ card' = "busy"
  /\ call' = t /\ res' = "NONE"
  /\ UNCHANGED <<diskVars, Stat, queueVars, fault, clean>>

\* timer = osKernelSysTick() + SD_TIMEOUT and the first test of the loop follow.
EnterPoll(deadline) ==
  /\ pc' = "poll" /\ timer' = deadline
  /\ pollStart' = tick /\ polled' = 0 /\ remaining' = 0
  /\ UNCHANGED tick

\* Mutant: the driver polls the card without waiting for the message.
TransferStartNoWait(t) == StartDma(t) /\ EnterPoll((tick + SdTimeout) % TickMod)

\* The thread enters osMessageGet with the time-out.
TransferStart(t) ==
  /\ StartDma(t)
  /\ pc' = "get" /\ remaining' = SdTimeout
  /\ UNCHANGED <<timer, tick, pollStart, polled>>

\* The call ends; its locals are gone.
Return(r) ==
  /\ ~fault
  /\ pc' = "idle" /\ res' = r
  /\ remaining' = 0 /\ timer' = 0 /\ pollStart' = 0 /\ polled' = 0
  /\ UNCHANGED <<diskVars, Stat, hasQueue, call, tick, hwVars>>

\* osMessageGet(NULL, ..) is osErrorParameter.
GetWithoutQueue ==
  /\ pc = "get" /\ ~hasQueue
  /\ Return("RES_ERROR")
  /\ clean' = (clean /\ hal \notin Transfers)
  /\ UNCHANGED queue

HasMessage == pc = "get" /\ hasQueue /\ queue # <<>>

TakeExpected(rest, deadline) ==
  /\ ~fault /\ HasMessage
  /\ Head(queue) = Cplt(call)
  /\ queue' = rest
  /\ EnterPoll(deadline)
  /\ UNCHANGED <<diskVars, Stat, hasQueue, call, res, hwVars, clean>>

\* Mutants: the message stays in the queue; `timer` is wider than the tick counter.
GetExpectedPeek == TakeExpected(queue, (tick + SdTimeout) % TickMod)
GetExpectedWide == TakeExpected(Tail(queue), tick + SdTimeout)

\* The message is the one this call expects.
GetExpected == TakeExpected(Tail(queue), (tick + SdTimeout) % TickMod)

\* Any other message ends the call.
GetOther ==
  /\ HasMessage /\ Head(queue) # Cplt(call)
  /\ queue' = Tail(queue)
  /\ Return("RES_ERROR")
  /\ clean' = (clean /\ hal \notin Transfers)

\* Mutant: osMessageGet(SDQueueID, osWaitForever).
GetTimeoutNever == pc = "get" /\ remaining > SdTimeout /\ UNCHANGED vars

\* osEventTimeout: the kernel gives up only on an empty queue.
GetTimeout ==
  /\ pc = "get" /\ hasQueue /\ queue = <<>>
  /\ remaining = 0
  /\ Return("RES_ERROR")
  /\ clean' = (clean /\ hal \notin Transfers)
  /\ UNCHANGED queue

LeavePoll(r) == pc = "poll" /\ Return(r) /\ UNCHANGED <<queue, clean>>

\* Mutant: the card's state is not asked for.
PollReadyBlind == timer > tick /\ LeavePoll("RES_OK")

\* while (timer > osKernelSysTick()): the card answers "transfer".
PollReady == timer > tick /\ card = "transfer" /\ LeavePoll("RES_OK")

\* Mutant: the loop ends one tick early.
PollExpireEarly == ~(timer > tick + 1) /\ LeavePoll("RES_ERROR")

\* The loop condition is false: the result is still RES_ERROR.
PollExpire == ~(timer > tick) /\ LeavePoll("RES_ERROR")

----------------------------------------------------------------------------
(* Interrupts, the card and time.                                          *)

\* BSP_SD_ReadCpltCallback / BSP_SD_WriteCpltCallback: HAL is READY again and
\* the message is put from the interrupt, where a full queue refuses it.
CpltCallback ==
  /\ ~fault /\ hal \in Transfers
  /\ hal' = "READY"
  /\ IF ~hasQueue
       THEN fault' = TRUE /\ queue' = queue
       ELSE /\ fault' = fault
            /\ queue' = IF Len(queue) < QueueSize THEN Append(queue, Cplt(hal)) ELSE queue
  /\ UNCHANGED <<diskVars, Stat, hasQueue, pc, call, res, timeVars, card, clean>>

\* A transfer error: HAL is READY again and the driver defines no callback.
TransferError ==
  /\ ~fault /\ hal \in Transfers
  /\ hal' = "READY"
  /\ UNCHANGED <<diskVars, Stat, queueVars, pc, call, res, timeVars, card, fault, clean>>

\* The card ends its data or programming phase, before or after the interrupt.
CardSettles ==
  /\ ~fault /\ hal # "RESET" /\ card = "busy"
  /\ card' = "transfer"
  /\ UNCHANGED <<diskVars, Stat, queueVars, pc, call, res, timeVars, hal, fault, clean>>

Tick ==
  /\ ~fault
  /\ tick' = (tick + 1) % TickMod
  /\ remaining' = IF pc = "get" /\ remaining > 0 THEN remaining - 1 ELSE remaining
  /\ polled' = IF pc = "poll" /\ polled < SdTimeout THEN polled + 1 ELSE polled
  /\ UNCHANGED <<diskVars, Stat, queueVars, pc, call, res, timer, pollStart, hwVars, clean>>

\* configASSERT in the interrupt handler loops for ever.
Halted == fault /\ UNCHANGED vars

Thread == GetWithoutQueue \/ GetExpected \/ GetOther \/ GetTimeout \/ PollReady \/ PollExpire

Next ==
  \/ LinkDriver \/ UnLinkDriver
  \/ InitializeAgain \/ InitializeFails \/ InitializeNotReady \/ InitializeReady
  \/ DiskStatus \/ IoctlSync
  \/ \E t \in Transfers : TransferRefused(t) \/ TransferStart(t)
  \/ Thread
  \/ CpltCallback \/ TransferError \/ CardSettles \/ Tick
  \/ Halted

Spec == Init /\ [][Next]_vars

\* The kernel tick never stops, and a thread that can leave the driver is
\* scheduled: weakly fair in osMessageGet, strongly fair in the poll loop,
\* whose body runs in microseconds against a tick of one millisecond.
FairSpec == /\ Spec
            /\ WF_vars(Tick)
            /\ WF_vars(GetWithoutQueue \/ GetExpected \/ GetOther \/ GetTimeout)
            /\ SF_vars(PollReady \/ PollExpire)

\* The environment the time-out was chosen for: no transfer outlives SD_TIMEOUT.
PromptSpec == Init /\ [][Next /\ clean']_vars

----------------------------------------------------------------------------
(* What FatFs is promised: DiskTransfer, with the phase of the transfer read off *)
(* the thread, the peripheral and the queue.                                 *)

phaseBar  == IF pc = "idle" THEN "none"
             ELSE IF pc = "get" /\ hal \in Transfers THEN "moving"
             ELSE IF pc = "poll" \/ queue # <<>> THEN "moved" ELSE "failed"
kindBar   == IF pc = "idle" THEN "none" ELSE call
resultBar == IF call \in Transfers THEN res ELSE "NONE"

Promise == INSTANCE DiskTransfer WITH
             phase <- phaseBar, kind <- kindBar, result <- resultBar

\* As long as no call gave up on a running transfer, SD_read and SD_write are
\* DiskTransfer: every step of the driver is a step of it or none.
ImplementsDiskTransfer ==
  /\ Promise!Init
  /\ [][clean' => Promise!Next \/ UNCHANGED Promise!tvars]_vars

----------------------------------------------------------------------------
(* Correctness.                                                            *)

TypeOK ==
  /\ linked \in BOOLEAN /\ is_initialized \in BOOLEAN /\ mounted \in BOOLEAN
  /\ Stat \in {"NOINIT", "OK"}
  /\ hasQueue \in BOOLEAN /\ queue \in Seq(Messages)
  /\ pc \in {"idle", "get", "poll"}
  /\ call \in Transfers \cup {"none", "initialize", "status", "sync"}
  /\ res \in {"NONE", "NOINIT", "RES_OK", "RES_ERROR", "RES_NOTRDY"}
  /\ remaining \in 0 .. SdTimeout /\ polled \in 0 .. SdTimeout
  /\ timer \in 0 .. TickMod - 1 /\ tick \in 0 .. TickMod - 1 /\ pollStart \in 0 .. TickMod - 1
  /\ hal \in Transfers \cup {"RESET", "READY"}
  /\ card \in {"transfer", "busy"}
  /\ fault \in BOOLEAN /\ clean \in BOOLEAN

InFlight == IF hal \in Transfers THEN 1 ELSE 0

\* However many calls time out on transfers that complete later, the operation
\* queue holds at most two messages, and at most one outside osMessageGet: the
\* put from the interrupt, which nobody checks, is never refused.
QueueNeverOverflows ==
  Len(queue) + InFlight <= IF pc = "get" THEN 2 ELSE 1

\* Unless a call gave up on a running transfer, SD_read, SD_write and CTRL_SYNC that
\* return RES_OK leave no transfer running and no message for the next call: the
\* message a transfer took was its own, and a sync has no write to wait for.
OkMeansTransferred ==
  clean /\ pc = "idle" /\ res = "RES_OK" /\ call \in Transfers \cup {"sync"}
    => hal \notin Transfers /\ queue = <<>> /\ (call \in Transfers => card = "transfer")

\* The poll loop gives up before SD_TIMEOUT ticks only when `timer` wrapped.
PollWindow ==
  [][pc = "poll" /\ pc' = "idle" /\ res' = "RES_ERROR"
       => polled >= SdTimeout \/ timer < pollStart]_vars

\* Every call into the driver returns, whatever interrupts and card do, unless
\* the interrupt handler stopped the system.
CallReturns == pc # "idle" ~> pc = "idle" \/ fault

(* What a comment of the driver says and the code does not do.             *)

\* sd_diskio_dma_rtos.c:208: "block until SDIO IP is ready or a timeout occur": the
\* loop is left with an error only after SD_TIMEOUT ticks.
PollHonoursTimeout ==
  [][pc = "poll" /\ pc' = "idle" /\ res' = "RES_ERROR" => polled >= SdTimeout]_vars
=============================================================================
