----------------------------- MODULE EthernetIf -----------------------------
(***************************************************************************)
(* The Ethernet interface under lwIP (_common/ethernetif.c): the receive   *)
(* interrupt, the task that empties the receive descriptors into the       *)
(* stack's mailbox, low_level_output in the stack's thread, and the DMA    *)
(* engines of the MAC, which share the descriptor rings with them.         *)
(*                                                                         *)
(* The two threads have the same priority, so their steps interleave; none *)
(* runs while the interrupt is handled.  Both take the HAL's handle lock,  *)
(* a flag tested and then set: who finds it set is turned away.            *)
(*                                                                         *)
(* Frames are numbered from 1 as they arrive or are to be sent; 0 is none. *)
(* A frame fits into one descriptor (the buffers hold an MTU).             *)
(***************************************************************************)
EXTENDS Naturals, Sequences

CONSTANTS RxDescs,    \* ETH_RXBUFNB
          TxDescs,    \* ETH_TXBUFNB
          Pbufs,      \* size of lwIP's pbuf pool
          MboxSize,   \* TCPIP_MBOX_SIZE
          MaxFrames,  \* bound: frames that arrive
          MaxOut      \* bound: frames to send

ASSUME EthAssumption ==
  /\ RxDescs \in Nat \ {0} /\ TxDescs \in Nat \ {0}
  /\ Pbufs \in Nat /\ MboxSize \in Nat \ {0}
  /\ MaxFrames \in Nat /\ MaxOut \in Nat

VARIABLES
  rxOwn, rxBuf,     \* receive descriptors: owned by the DMA?  frame in the buffer
  dmaRx, rxDesc,    \* the DMA's next one, heth.RxDesc
  irq, isr,         \* receive flag of the MAC, interrupt being handled
  given,            \* s_xSemaphore
  pc, fs, p,        \* ethernetif_input: where, RxFrameInfos.FSRxDesc, its pbuf's frame
  locked,           \* heth.Lock
  free, held, mbox, \* pbufs in the pool, in use by the stack, in tcpip's mailbox
  txOwn, txBuf,     \* transmit descriptors
  dmaTx, txDesc,    \* the DMA's next one, heth.TxDesc
  sndPc,            \* low_level_output: where
  outcome,          \* its last result, and whether the DMA was given the frame
  arrived, output,  \* number of frames that arrived, that lwIP has output
  last, wire,       \* history: last frame the stack took, that was sent
  cut               \* history: the task went back to sleep with a frame waiting

rxVars   == <<rxOwn, rxBuf, rxDesc>>
lineVars == <<dmaRx, irq, arrived>>
pbufVars == <<free, held, mbox>>
taskVars == <<pc, fs, p, cut>>
txVars   == <<txOwn, txBuf, txDesc, sndPc, outcome, output>>
dmaTxVars == <<dmaTx, wire>>
vars == <<rxVars, lineVars, isr, given, taskVars, locked, pbufVars, txVars, dmaTxVars, last>>

RxRing == 0 .. RxDescs - 1
TxRing == 0 .. TxDescs - 1
NextRx(d) == (d + 1) % RxDescs
NextTx(d) == (d + 1) % TxDescs

\* After low_level_init: all descriptors given to the DMA or free to send, and
\* the semaphore as osSemaphoreCreate leaves it, given.
Init ==
  /\ rxOwn = [d \in RxRing |-> TRUE] /\ rxBuf = [d \in RxRing |-> 0]
  /\ dmaRx = 0 /\ rxDesc = 0 /\ irq = FALSE /\ isr = FALSE /\ given = TRUE
  /\ pc = "wait" /\ fs = 0 /\ p = 0 /\ locked = FALSE
  /\ free = Pbufs /\ held = 0 /\ mbox = <<>>
  /\ txOwn = [d \in TxRing |-> FALSE] /\ txBuf = [d \in TxRing |-> 0]
  /\ dmaTx = 0 /\ txDesc = 0 /\ sndPc = "idle"
  /\ outcome = [result |-> "ERR_OK", handed |-> TRUE]
  /\ arrived = 0 /\ output = 0 /\ last = 0 /\ wire = 0 /\ cut = FALSE

-----------------------------------------------------------------------------
(* The MAC and its interrupt.                                              *)

\* A frame is written to the DMA's next descriptor, or lost when the CPU has it.
FrameArrives ==
  /\ arrived < MaxFrames
  /\ arrived' = arrived + 1
  /\ \/ /\ rxOwn[dmaRx]
        /\ rxOwn' = [rxOwn EXCEPT ![dmaRx] = FALSE]
        /\ rxBuf' = [rxBuf EXCEPT ![dmaRx] = arrived + 1]
        /\ dmaRx' = NextRx(dmaRx)
        /\ irq' = TRUE
     \/ /\ ~rxOwn[dmaRx]
        /\ UNCHANGED <<rxOwn, rxBuf, dmaRx, irq>>
  /\ UNCHANGED <<rxDesc, isr, given, taskVars, locked, pbufVars, txVars, dmaTxVars, last>>

\* However many frames came, one give of the binary semaphore stands for them.
HAL_ETH_RxCpltCallback ==
  /\ irq /\ ~isr
  /\ isr' = TRUE
  /\ irq' = FALSE
  /\ given' = TRUE
  /\ UNCHANGED <<rxVars, dmaRx, arrived, taskVars, locked, pbufVars, txVars, dmaTxVars, last>>

\* HAL_ETH_IRQHandler clears the flag before or, in some versions, after the
\* callback: then a frame that came in between has no interrupt of its own.
IrqReturns ==
  /\ isr
  /\ isr' = FALSE
  /\ irq' \in {irq, FALSE}
  /\ UNCHANGED <<rxVars, dmaRx, arrived, given, taskVars, locked, pbufVars, txVars, dmaTxVars, last>>

FrameLeaves ==
  /\ txOwn[dmaTx]
  /\ txOwn' = [txOwn EXCEPT ![dmaTx] = FALSE]
  /\ dmaTx' = NextTx(dmaTx)
  /\ wire' = txBuf[dmaTx]
  /\ UNCHANGED <<rxVars, lineVars, isr, given, taskVars, locked, pbufVars,
                 txBuf, txDesc, sndPc, outcome, output, last>>

-----------------------------------------------------------------------------
(* ethernetif_input and low_level_input.                                   *)

Wait ==
  /\ pc = "wait" /\ given /\ ~isr
  /\ given' = FALSE
  /\ pc' = "get"
  /\ cut' = FALSE
  /\ UNCHANGED <<rxVars, lineVars, isr, fs, p, locked, pbufVars, txVars, dmaTxVars, last>>

\* low_level_input returned NULL: the do-while loop ends.
Sleep ==
  /\ pc' = "wait"
  /\ cut' = ~rxOwn[rxDesc]

\* HAL_ETH_GetReceivedFrame_IT finds the handle locked, or is about to lock it.
GetTestsLock ==
  /\ pc = "get" /\ ~isr
  /\ \/ locked /\ Sleep
     \/ ~locked /\ pc' = "lock" /\ UNCHANGED cut
  /\ UNCHANGED <<rxVars, lineVars, isr, given, fs, p, locked, pbufVars, txVars, dmaTxVars, last>>

GetLocks ==
  /\ pc = "lock" /\ ~isr
  /\ locked' = TRUE
  /\ pc' = "scan"
  /\ UNCHANGED <<rxVars, lineVars, isr, given, fs, p, cut, pbufVars, txVars, dmaTxVars, last>>

GetFinds ==
  /\ pc = "scan" /\ ~isr
  /\ locked' = FALSE
  /\ \/ /\ rxOwn[rxDesc] /\ Sleep
        /\ UNCHANGED <<fs, rxDesc>>
     \/ /\ ~rxOwn[rxDesc]
        /\ fs' = rxDesc
        /\ rxDesc' = NextRx(rxDesc)
        /\ pc' = "copy"
        /\ UNCHANGED cut
  /\ UNCHANGED <<rxOwn, rxBuf, lineVars, isr, given, p, pbufVars, txVars, dmaTxVars, last>>

(* Mutant: the result of pbuf_alloc is not looked at. *)
CopyUnchecked ==
  /\ pc = "copy" /\ ~isr
  /\ pc' = "release"
  /\ p' = rxBuf[fs] /\ free' = free - 1
  /\ UNCHANGED <<rxVars, lineVars, isr, given, fs, cut, locked, held, mbox, txVars, dmaTxVars, last>>

\* The frame goes into a pbuf, or nowhere when the pool is empty.
Copy ==
  /\ pc = "copy" /\ ~isr
  /\ pc' = "release"
  /\ \/ free > 0 /\ p' = rxBuf[fs] /\ free' = free - 1
     \/ free = 0 /\ p' = 0 /\ UNCHANGED free
  /\ UNCHANGED <<rxVars, lineVars, isr, given, fs, cut, locked, held, mbox, txVars, dmaTxVars, last>>

(* Mutant: heth.RxDesc is released, not the frame's descriptor. *)
ReleaseNext ==
  /\ pc = "release" /\ ~isr
  /\ pc' = "input"
  /\ rxOwn' = [rxOwn EXCEPT ![rxDesc] = TRUE]
  /\ UNCHANGED <<rxBuf, rxDesc, lineVars, isr, given, fs, p, cut, locked, pbufVars, txVars, dmaTxVars, last>>

\* The descriptor is given back to the DMA.
Release ==
  /\ pc = "release" /\ ~isr
  /\ pc' = "input"
  /\ rxOwn' = [rxOwn EXCEPT ![fs] = TRUE]
  /\ UNCHANGED <<rxBuf, rxDesc, lineVars, isr, given, fs, p, cut, locked, pbufVars, txVars, dmaTxVars, last>>

(* Mutant: the pbuf the mailbox refused is not freed. *)
PostedOrForgotten ==
  /\ mbox' = IF Len(mbox) < MboxSize THEN Append(mbox, p) ELSE mbox
  /\ UNCHANGED free

\* netif->input is tcpip_input: the pbuf is posted to the mailbox, or freed when
\* that is full.
Posted ==
  \/ /\ Len(mbox) < MboxSize
     /\ mbox' = Append(mbox, p)
     /\ UNCHANGED free
  \/ /\ Len(mbox) = MboxSize
     /\ free' = free + 1
     /\ UNCHANGED mbox

(* Mutant: one frame for each semaphore. *)
InputOnce ==
  /\ pc = "input" /\ ~isr
  /\ p' = 0
  /\ IF p = 0 THEN UNCHANGED <<free, mbox>> ELSE Posted
  /\ pc' = "wait"
  /\ UNCHANGED <<rxVars, lineVars, isr, given, fs, cut, locked, held, txVars, dmaTxVars, last>>

(* Mutant: the loop ends when the mailbox is full. *)
InputUntilFull ==
  /\ pc = "input" /\ ~isr
  /\ p' = 0
  /\ IF p = 0 THEN UNCHANGED <<free, mbox>> ELSE Posted
  /\ pc' = IF p # 0 /\ Len(mbox) < MboxSize THEN "get" ELSE "wait"
  /\ UNCHANGED <<rxVars, lineVars, isr, given, fs, cut, locked, held, txVars, dmaTxVars, last>>

\* while (p != NULL)
Input ==
  /\ pc = "input" /\ ~isr
  /\ p' = 0
  /\ \/ p # 0 /\ Posted /\ pc' = "get" /\ UNCHANGED cut
     \/ p = 0 /\ Sleep /\ UNCHANGED <<free, mbox>>
  /\ UNCHANGED <<rxVars, lineVars, isr, given, fs, locked, held, txVars, dmaTxVars, last>>

InputTask == Wait \/ GetTestsLock \/ GetLocks \/ GetFinds \/ Copy \/ Release \/ Input

-----------------------------------------------------------------------------
(* The stack's thread: it takes frames, frees them, and outputs its own.   *)

StackTakes ==
  /\ mbox # <<>> /\ ~isr
  /\ last' = Head(mbox)
  /\ mbox' = Tail(mbox)
  /\ held' = held + 1
  /\ UNCHANGED <<rxVars, lineVars, isr, given, taskVars, locked, free, txVars, dmaTxVars>>

StackFrees ==
  /\ held > 0 /\ ~isr
  /\ held' = held - 1
  /\ free' = free + 1
  /\ UNCHANGED <<rxVars, lineVars, isr, given, taskVars, locked, mbox, txVars, dmaTxVars, last>>

Returns(result, handed) ==
  /\ sndPc' = "idle"
  /\ outcome' = [result |-> result, handed |-> handed]

(* Mutant: OWN is not looked at before the copy. *)
OutputUnchecked ==
  /\ sndPc = "idle" /\ ~isr
  /\ output < MaxOut
  /\ output' = output + 1
  /\ txBuf' = [txBuf EXCEPT ![txDesc] = output + 1]
  /\ sndPc' = "test"
  /\ UNCHANGED <<txOwn, txDesc, outcome, rxVars, lineVars, isr, given, taskVars, locked, pbufVars, dmaTxVars, last>>

\* low_level_output: the frame is copied into the descriptor's buffer, unless
\* the DMA still has it.
LowLevelOutput ==
  /\ sndPc = "idle" /\ ~isr
  /\ output < MaxOut
  /\ output' = output + 1
  /\ \/ txOwn[txDesc] /\ Returns("ERR_USE", FALSE) /\ UNCHANGED txBuf
     \/ /\ ~txOwn[txDesc]
        /\ txBuf' = [txBuf EXCEPT ![txDesc] = output + 1]
        /\ sndPc' = "test"
        /\ UNCHANGED outcome
  /\ UNCHANGED <<txOwn, txDesc, rxVars, lineVars, isr, given, taskVars, locked, pbufVars, dmaTxVars, last>>

\* HAL_ETH_TransmitFrame, whose result low_level_output ignores.
TransmitTestsLock ==
  /\ sndPc = "test" /\ ~isr
  /\ \/ locked /\ Returns("ERR_OK", FALSE)
     \/ ~locked /\ sndPc' = "lock" /\ UNCHANGED outcome
  /\ UNCHANGED <<txOwn, txBuf, txDesc, output, rxVars, lineVars, isr, given, taskVars, locked, pbufVars, dmaTxVars, last>>

TransmitLocks ==
  /\ sndPc = "lock" /\ ~isr
  /\ locked' = TRUE
  /\ sndPc' = "send"
  /\ UNCHANGED <<txOwn, txBuf, txDesc, outcome, output, rxVars, lineVars, isr, given, taskVars, pbufVars, dmaTxVars, last>>

TransmitHandsOver ==
  /\ sndPc = "send" /\ ~isr
  /\ locked' = FALSE
  /\ \/ txOwn[txDesc] /\ Returns("ERR_OK", FALSE) /\ UNCHANGED <<txOwn, txDesc>>
     \/ /\ ~txOwn[txDesc]
        /\ txOwn' = [txOwn EXCEPT ![txDesc] = TRUE]
        /\ txDesc' = NextTx(txDesc)
        /\ Returns("ERR_OK", TRUE)
  /\ UNCHANGED <<txBuf, output, rxVars, lineVars, isr, given, taskVars, pbufVars, dmaTxVars, last>>

Output == LowLevelOutput \/ TransmitTestsLock \/ TransmitLocks \/ TransmitHandsOver

Next ==
  \/ FrameArrives \/ HAL_ETH_RxCpltCallback \/ IrqReturns \/ FrameLeaves
  \/ InputTask
  \/ StackTakes \/ StackFrees \/ Output

Spec == Init /\ [][Next]_vars

\* Interrupts are served and return, and the input task is scheduled.
FairSpec ==
  /\ Spec
  /\ WF_vars(HAL_ETH_RxCpltCallback) /\ WF_vars(IrqReturns)
  /\ WF_vars(InputTask)

-----------------------------------------------------------------------------
(* Properties.                                                             *)

TypeOK ==
  /\ rxOwn \in [RxRing -> BOOLEAN] /\ rxBuf \in [RxRing -> 0 .. MaxFrames]
  /\ dmaRx \in RxRing /\ rxDesc \in RxRing /\ fs \in RxRing
  /\ irq \in BOOLEAN /\ isr \in BOOLEAN /\ given \in BOOLEAN /\ locked \in BOOLEAN
  /\ pc \in {"wait", "get", "lock", "scan", "copy", "release", "input"}
  /\ p \in 0 .. MaxFrames
  /\ free \in 0 .. Pbufs /\ held \in 0 .. Pbufs
  /\ mbox \in Seq(0 .. MaxFrames) /\ Len(mbox) <= MboxSize
  /\ txOwn \in [TxRing -> BOOLEAN] /\ txBuf \in [TxRing -> 0 .. MaxOut]
  /\ dmaTx \in TxRing /\ txDesc \in TxRing
  /\ sndPc \in {"idle", "test", "lock", "send"}
  /\ outcome \in [result : {"ERR_OK", "ERR_USE"}, handed : BOOLEAN]
  /\ arrived \in 0 .. MaxFrames /\ output \in 0 .. MaxOut
  /\ last \in 0 .. MaxFrames /\ wire \in 0 .. MaxOut
  /\ cut \in BOOLEAN

\* Every pbuf is in the pool, in the task's hand, in the mailbox or with the
\* stack: a frame the full mailbox refuses is freed, exactly once.
PbufsKept == free + (IF p = 0 THEN 0 ELSE 1) + Len(mbox) + held = Pbufs

\* How many steps round a ring of n descriptors lead from a to d.
Ahead(a, d, n) == (d + n - a) % n

\* The task has not copied the frame of descriptor d.
Left(d) == ~rxOwn[d] /\ ~(pc \in {"copy", "release"} /\ d = fs)

InHand == IF pc = "copy" THEN <<rxBuf[fs]>> ELSE IF p # 0 THEN <<p>> ELSE <<>>

Increasing(s) == \A i, j \in DOMAIN s : i < j => s[i] < s[j]

\* The stack gets each received frame at most once and in the order of arrival:
\* what it took, the mailbox and the frame in the task's hand increase, and the
\* frames left in the ring follow them and increase from rxDesc on, so no buffer
\* is copied while the DMA writes the next frame into it and no descriptor is
\* read twice.
ReceivedInOrder ==
  LET taken == <<last>> \o mbox \o InHand
  IN  /\ Increasing(taken)
      /\ \A d \in RxRing : Left(d) =>
           /\ \A i \in DOMAIN taken : taken[i] < rxBuf[d]
           /\ \A e \in RxRing :
                Left(e) /\ Ahead(rxDesc, d, RxDescs) < Ahead(rxDesc, e, RxDescs)
                  => rxBuf[d] < rxBuf[e]

\* The DMA sends each frame at most once, in the order of output, and its
\* buffer is not overwritten while it does.
SentInOrder ==
  \A d \in TxRing : txOwn[d] =>
    /\ wire < txBuf[d]
    /\ \A e \in TxRing :
         txOwn[e] /\ Ahead(dmaTx, d, TxDescs) < Ahead(dmaTx, e, TxDescs)
           => txBuf[d] < txBuf[e]

\* A single semaphore stands for any number of frames: the task never sleeps
\* with a frame in its next descriptor and no wake-up to come, unless it was
\* turned away by the lock or found no pbuf (then the next frame wakes it).
NotForgotten ==
  pc = "wait" /\ ~given /\ ~irq /\ ~rxOwn[rxDesc] => cut

\* A frame in the ring is taken out, unless the loop was cut short.
FrameServed ==
  \A d \in RxRing : (~rxOwn[d] ~> (rxOwn[d] \/ cut))

\* "@return ERR_OK if the packet could be sent, an err_t value if the packet
\* couldn't be sent" (ethernetif.c:178): of a frame answered with ERR_OK the DMA
\* was told.
OkMeansHanded == outcome.result = "ERR_OK" => outcome.handed

=============================================================================
