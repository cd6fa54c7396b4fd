------------------------------ MODULE ModbusRtu ------------------------------
(***************************************************************************)
(* The Modbus RTU slave: eMBPoll (mb.c), the receive and transmit state    *)
(* machines (rtu/mbrtu.c), the one-slot event queue, the T3.5 timer and    *)
(* the UART of the port, and the task that polls them (app_modbus.c).      *)
(*                                                                         *)
(* Interrupts come between any two steps of the task, except inside its    *)
(* critical sections; interrupts do not nest.  Requests and replies share  *)
(* one buffer, into which the frame pointer of eMBPoll points.             *)
(*                                                                         *)
(* A frame of Size bytes is an address, the PDU and, as one byte, the CRC. *)
(* Byte i of frame f is <<"req", f, i>>, of the reply to it <<"rep", f, i>>.*)
(***************************************************************************)
EXTENDS Naturals, FiniteSets

CONSTANTS Own,         \* frames with this slave's address
          Broadcast,   \* frames for every slave
          Foreign,     \* requests to other slaves, and their replies
          Size,        \* bytes of a frame
          BufSize,     \* MB_SER_PDU_SIZE_MAX
          MaxFrames,   \* bound: how many frames the line carries
          None

Frames == Own \cup Broadcast \cup Foreign

ASSUME ModbusAssumption ==
  /\ Own \cap Broadcast = {} /\ Foreign \cap (Own \cup Broadcast) = {}
  /\ Size \in Nat /\ Size >= 3 /\ BufSize \in Nat /\ BufSize >= Size
  /\ MaxFrames \in Nat
  /\ None \notin Frames

VARIABLES
  eRcvState, eSndState, \* the two state machines
  ucRTUBuf,             \* the shared buffer
  usRcvBufferPos,       \* bytes received into it
  sndCur, sndCount,     \* pucSndBufferCur, usSndBufferCount
  rxOn, txOn, rdr,      \* UART: RXNE and TXE interrupts enabled, unread byte
  timerOn,              \* T3.5 timer runs
  slot,                 \* xEventInQueue and eQueuedEvent
  pc, eEvent,           \* the task: where in eMBPoll, its event
  rcvOwn, usLength,     \* ucRcvAddress is not the broadcast one; the PDU's length
  fresh,                \* the timer runs since before the task's osDelay began
  line,                 \* the frame on the line and its next byte
  sent,                 \* frames the line has carried
  pending,              \* history: while patient, the request for this slave that is not done
  ran,                  \* history: it was executed
  patient,              \* history: nothing came while a request was pending
  torn                  \* history: an event came between two statements of EventGet

uartVars == <<rxOn, txOn, rdr>>
sndVars  == <<eSndState, sndCur, sndCount>>
taskVars == <<pc, eEvent, rcvOwn, usLength>>
lineVars == <<line, sent>>
histVars == <<pending, ran, patient, torn>>
vars == <<eRcvState, ucRTUBuf, usRcvBufferPos, timerOn, slot, fresh,
          uartVars, sndVars, taskVars, lineVars, histVars>>

Positions == 1 .. BufSize
Bytes == {"req", "rep"} \X Frames \X (1 .. Size)

Empty == [full |-> FALSE, event |-> "EV_READY"]

\* eMBInit and eMBEnable have run.
Init ==
  /\ eRcvState = "RX_INIT" /\ eSndState = "TX_IDLE"
  /\ ucRTUBuf = [i \in Positions |-> None] /\ usRcvBufferPos = 0
  /\ sndCur = 1 /\ sndCount = 0
  /\ rxOn = TRUE /\ txOn = FALSE /\ rdr = None
  /\ timerOn = TRUE /\ slot = Empty
  /\ pc = "poll" /\ eEvent = "EV_READY" /\ rcvOwn = FALSE /\ usLength = 0
  /\ fresh = FALSE
  /\ line = None /\ sent = 0
  /\ pending = None /\ ran = FALSE /\ patient = TRUE /\ torn = FALSE

\* xMBPortEventPost: the slot is overwritten.
Posted(event) == [full |-> TRUE, event |-> event]

----------------------------------------------------------------------------
(* The line: external.                                                     *)

\* Byte i of f is on the line.  It is lost to noise, or when the last one is unread.
Carries(f, i) ==
  /\ rdr' \in IF rdr = None THEN {None, <<"req", f, i>>} ELSE {rdr}
  /\ line' = IF i = Size THEN None ELSE <<f, i + 1>>
  /\ patient' = (patient /\ pending = None)
  /\ pending' = None /\ ran' = FALSE
  /\ UNCHANGED <<eRcvState, ucRTUBuf, usRcvBufferPos, timerOn, slot, fresh, rxOn, txOn,
                 torn, sndVars, taskVars>>

\* A master, or another slave, begins a frame; it may do so before an answer came.
FrameBegins(f) == line = None /\ sent < MaxFrames /\ sent' = sent + 1 /\ Carries(f, 1)

FrameGoesOn == line # None /\ Carries(line[1], line[2]) /\ UNCHANGED sent

----------------------------------------------------------------------------
(* Interrupts.                                                             *)

ForUs == Own \cup Broadcast

\* The n bytes in buf pass the length and the CRC check: they are those of frame f.
Holds(buf, n, f) ==
  /\ n = Size
  /\ \E kind \in {"req", "rep"} : \A i \in 1 .. Size : buf[i] = <<kind, f, i>>

\* MODBUS_UART_IRQHandler looks at TXE, which is set whenever it is enabled, first.
CanReceive == rxOn /\ ~txOn /\ rdr # None

\* Mutant: the bound is off by one.
RoomOffByOne == usRcvBufferPos <= BufSize

Room == usRcvBufferPos < BufSize

\* xMBRTUReceiveFSM
ReceiveByte ==
  /\ CanReceive
  /\ \/ /\ eRcvState = "RX_IDLE"
        /\ ucRTUBuf' = [ucRTUBuf EXCEPT ![1] = rdr] /\ usRcvBufferPos' = 1
        /\ eRcvState' = "RX_RCV"
     \/ /\ eRcvState = "RX_RCV" /\ Room
        /\ ucRTUBuf' = [ucRTUBuf EXCEPT ![usRcvBufferPos + 1] = rdr]
        /\ usRcvBufferPos' = usRcvBufferPos + 1
        /\ UNCHANGED eRcvState
     \/ /\ eRcvState = "RX_RCV" /\ ~Room
        /\ eRcvState' = "RX_ERROR"
        /\ UNCHANGED <<ucRTUBuf, usRcvBufferPos>>
     \/ /\ eRcvState \in {"RX_INIT", "RX_ERROR"}
        /\ UNCHANGED <<eRcvState, ucRTUBuf, usRcvBufferPos>>
  /\ rdr' = None /\ timerOn' = TRUE /\ fresh' = FALSE
  /\ patient' = (patient /\ pending = None)
  /\ pending' = IF patient' /\ eRcvState' = "RX_RCV"
                   /\ \E f \in ForUs : Holds(ucRTUBuf', usRcvBufferPos', f)
                   THEN rdr[2] ELSE None
  /\ ran' = FALSE
  /\ UNCHANGED <<slot, rxOn, txOn, sndVars, taskVars, lineVars, torn>>

\* xMBRTUTransmitFSM, a byte to send.
TransmitByte ==
  /\ txOn /\ eSndState = "TX_XMIT" /\ sndCount # 0
  /\ sndCur' = sndCur + 1 /\ sndCount' = sndCount - 1
  /\ UNCHANGED <<eRcvState, eSndState, ucRTUBuf, usRcvBufferPos, timerOn, slot, fresh,
                 uartVars, taskVars, lineVars, histVars>>

\* xMBRTUTransmitFSM, all sent: the master has its reply.
TransmitDone ==
  /\ txOn /\ (eSndState = "TX_IDLE" \/ sndCount = 0)
  /\ slot' = IF eSndState = "TX_XMIT" THEN Posted("EV_FRAME_SENT") ELSE slot
  /\ eSndState' = "TX_IDLE" /\ rxOn' = TRUE /\ txOn' = FALSE
  /\ torn' = (torn \/ pc = "EventGet")
  /\ pending' = None /\ ran' = FALSE
  /\ UNCHANGED <<eRcvState, ucRTUBuf, usRcvBufferPos, timerOn, fresh, rdr,
                 sndCur, sndCount, taskVars, lineVars, patient>>

\* Mutant: the receiver does not go back to idle behind a frame.
TimerExpiredStays ==
  /\ timerOn
  /\ slot' = CASE eRcvState = "RX_INIT" -> Posted("EV_READY")
               [] eRcvState = "RX_RCV"  -> Posted("EV_FRAME_RECEIVED")
               [] OTHER                 -> slot
  /\ eRcvState' = IF eRcvState = "RX_RCV" THEN eRcvState ELSE "RX_IDLE"
  /\ timerOn' = FALSE /\ fresh' = FALSE
  /\ torn' = (torn \/ (pc = "EventGet" /\ eRcvState # "RX_ERROR"))
  /\ UNCHANGED <<ucRTUBuf, usRcvBufferPos, uartVars, sndVars, taskVars, lineVars,
                 pending, ran, patient>>

\* xMBRTUTimerT35Expired
TimerExpired ==
  /\ timerOn
  /\ slot' = CASE eRcvState = "RX_INIT" -> Posted("EV_READY")
               [] eRcvState = "RX_RCV"  -> Posted("EV_FRAME_RECEIVED")
               [] OTHER                 -> slot
  /\ eRcvState' = "RX_IDLE" /\ timerOn' = FALSE /\ fresh' = FALSE
  /\ torn' = (torn \/ (pc = "EventGet" /\ eRcvState # "RX_ERROR"))
  /\ UNCHANGED <<ucRTUBuf, usRcvBufferPos, uartVars, sndVars, taskVars, lineVars,
                 pending, ran, patient>>

----------------------------------------------------------------------------
(* The task: eMBPoll, then osDelay(20).                                    *)

\* eMBPoll returns.  The delay is longer than T3.5, so a timer that runs now expires in it
\* unless a byte comes.  A poll that finds no event changes nothing.
Returns == pc' = "poll" /\ fresh' = timerOn

isrVars == <<eRcvState, usRcvBufferPos, timerOn>>

\* Mutant: the event is posted without clearing the slot, and comes again.
EventClearKeeps ==
  /\ pc = "EventGet"
  /\ IF eEvent \in {"EV_READY", "EV_FRAME_SENT"}
       THEN Returns ELSE pc' = eEvent /\ UNCHANGED fresh
  /\ UNCHANGED <<isrVars, ucRTUBuf, slot, eEvent, rcvOwn, usLength,
                 uartVars, sndVars, lineVars, histVars>>

\* xMBPortEventGet takes the event ...
EventGet ==
  /\ pc = "poll" /\ ~fresh /\ slot.full
  /\ eEvent' = slot.event /\ pc' = "EventGet"
  /\ UNCHANGED <<isrVars, ucRTUBuf, slot, fresh, rcvOwn, usLength,
                 uartVars, sndVars, lineVars, histVars>>

\* ... and clears the slot.  EV_READY and EV_FRAME_SENT need nothing more.
EventClear ==
  /\ pc = "EventGet"
  /\ slot' = [slot EXCEPT !.full = FALSE]
  /\ IF eEvent \in {"EV_READY", "EV_FRAME_SENT"}
       THEN Returns ELSE pc' = eEvent /\ UNCHANGED fresh
  /\ UNCHANGED <<isrVars, ucRTUBuf, eEvent, rcvOwn, usLength,
                 uartVars, sndVars, lineVars, histVars>>

\* eMBRTUReceive, a critical section: the buffer is checked as it is now.
FrameReceive ==
  /\ pc = "EV_FRAME_RECEIVED"
  /\ IF \E f \in Frames : Holds(ucRTUBuf, usRcvBufferPos, f)
       THEN LET f == CHOOSE g \in Frames : Holds(ucRTUBuf, usRcvBufferPos, g)
            IN /\ rcvOwn' = (f \notin Broadcast) /\ usLength' = usRcvBufferPos - 2
               /\ IF f \in ForUs THEN pc' = "EventPost" /\ UNCHANGED fresh ELSE Returns
       ELSE Returns /\ UNCHANGED <<rcvOwn, usLength>>
  /\ UNCHANGED <<isrVars, ucRTUBuf, slot, eEvent, uartVars, sndVars, lineVars, histVars>>

\* xMBPortEventPost(EV_EXECUTE): a frame that came meanwhile is overwritten.
ExecutePost ==
  /\ pc = "EventPost"
  /\ slot' = Posted("EV_EXECUTE")
  /\ Returns
  /\ UNCHANGED <<isrVars, ucRTUBuf, eEvent, rcvOwn, usLength,
                 uartVars, sndVars, lineVars, histVars>>

\* The function handler: it takes the PDU that is in the buffer now and puts the
\* reply in its place.
Execute ==
  /\ pc = "EV_EXECUTE"
  /\ ucRTUBuf' = [i \in Positions |->
       IF i \in 2 .. usLength + 1 THEN <<"rep", ucRTUBuf[2][2], i>> ELSE ucRTUBuf[i]]
  /\ IF rcvOwn THEN pc' = "send" /\ UNCHANGED <<fresh, pending>> ELSE Returns /\ pending' = None
  /\ ran' = (rcvOwn /\ pending # None)
  /\ UNCHANGED <<isrVars, slot, eEvent, rcvOwn, usLength,
                 uartVars, sndVars, lineVars, patient, torn>>

\* Mutant: the receiver is not switched off, nor asked whether it is idle.
SendFullDuplex ==
  /\ pc = "send"
  /\ ucRTUBuf' = [ucRTUBuf EXCEPT ![1] = <<"rep", ucRTUBuf[2][2], 1>>,
                                  ![usLength + 2] = <<"rep", ucRTUBuf[2][2], usLength + 2>>]
  /\ sndCur' = 1 /\ sndCount' = usLength + 2
  /\ eSndState' = "TX_XMIT" /\ txOn' = TRUE
  /\ Returns
  /\ UNCHANGED <<isrVars, slot, rxOn, rdr, eEvent, rcvOwn, usLength, lineVars, histVars>>

\* Mutant: the buffer pointer starts at the PDU, behind the address.
SendFromPdu ==
  /\ pc = "send" /\ eRcvState = "RX_IDLE"
  /\ ucRTUBuf' = [ucRTUBuf EXCEPT ![1] = <<"rep", ucRTUBuf[2][2], 1>>,
                                  ![usLength + 2] = <<"rep", ucRTUBuf[2][2], usLength + 2>>]
  /\ sndCur' = 2 /\ sndCount' = usLength + 2
  /\ eSndState' = "TX_XMIT" /\ rxOn' = FALSE /\ txOn' = TRUE
  /\ Returns
  /\ UNCHANGED <<isrVars, slot, rdr, eEvent, rcvOwn, usLength, lineVars, histVars>>

\* eMBRTUSend, a critical section.
Send ==
  /\ pc = "send" /\ eRcvState = "RX_IDLE"
  /\ ucRTUBuf' = [ucRTUBuf EXCEPT ![1] = <<"rep", ucRTUBuf[2][2], 1>>,
                                  ![usLength + 2] = <<"rep", ucRTUBuf[2][2], usLength + 2>>]
  /\ sndCur' = 1 /\ sndCount' = usLength + 2
  /\ eSndState' = "TX_XMIT" /\ rxOn' = FALSE /\ txOn' = TRUE
  /\ Returns
  /\ UNCHANGED <<isrVars, slot, rdr, eEvent, rcvOwn, usLength, lineVars, histVars>>

\* The receiver is busy: MB_EIO, which eMBPoll drops.
SendAborts ==
  /\ pc = "send" /\ eRcvState # "RX_IDLE"
  /\ Returns
  /\ UNCHANGED <<isrVars, ucRTUBuf, slot, eEvent, rcvOwn, usLength,
                 uartVars, sndVars, lineVars, histVars>>

----------------------------------------------------------------------------
Interrupt == ReceiveByte \/ TransmitByte \/ TransmitDone \/ TimerExpired

Task == \/ EventGet \/ EventClear \/ FrameReceive \/ ExecutePost
        \/ Execute \/ Send \/ SendAborts

Next == (\E f \in Frames : FrameBegins(f)) \/ FrameGoesOn \/ Interrupt \/ Task

Spec == Init /\ [][Next]_vars

\* Interrupts are served, and the task, of high priority, runs.
FairSpec ==
  Spec /\ WF_vars(ReceiveByte) /\ WF_vars(TransmitByte \/ TransmitDone)
       /\ WF_vars(TimerExpired) /\ WF_vars(Task)

----------------------------------------------------------------------------
(* Correctness.                                                            *)

TypeOK ==
  /\ eRcvState \in {"RX_INIT", "RX_IDLE", "RX_RCV", "RX_ERROR"}
  /\ eSndState \in {"TX_IDLE", "TX_XMIT"}
  /\ ucRTUBuf \in [Positions -> Bytes \cup {None}] /\ usRcvBufferPos \in 0 .. BufSize
  /\ sndCur \in 1 .. Size + 1 /\ sndCount \in 0 .. Size
  /\ rxOn \in BOOLEAN /\ txOn \in BOOLEAN /\ rdr \in Bytes \cup {None}
  /\ timerOn \in BOOLEAN /\ fresh \in BOOLEAN
  /\ slot \in [full : BOOLEAN, event : {"EV_READY", "EV_FRAME_RECEIVED", "EV_EXECUTE", "EV_FRAME_SENT"}]
  /\ eEvent \in {"EV_READY", "EV_FRAME_RECEIVED", "EV_EXECUTE", "EV_FRAME_SENT"}
  /\ pc \in {"poll", "EventGet", "EV_FRAME_RECEIVED", "EventPost", "EV_EXECUTE", "send"}
  /\ rcvOwn \in BOOLEAN /\ usLength \in 0 .. Size - 2
  /\ line \in (Frames \X (1 .. Size)) \cup {None} /\ sent \in 0 .. MaxFrames
  /\ pending \in ForUs \cup {None}
  /\ ran \in BOOLEAN /\ patient \in BOOLEAN /\ torn \in BOOLEAN

\* The assertions of the three interrupt handlers, whatever is on the line: no byte is
\* received during a transmission, nothing is transmitted during a reception, and the
\* timer runs only while a frame, or the silence after the start, is awaited.
AssertsHold ==
  /\ CanReceive => eSndState = "TX_IDLE"
  /\ txOn => eRcvState = "RX_IDLE"
  /\ timerOn => eRcvState # "RX_IDLE"

\* With a master that waits for its answer, what is executed is the request that was
\* addressed to this slave, whole, and no request is executed twice.
RequestExecutedOnce ==
  pc = "EV_EXECUTE" /\ patient
    => /\ pending # None /\ ~ran
       /\ rcvOwn = (pending \in Own) /\ usLength = Size - 2
       /\ \A i \in 1 .. Size : ucRTUBuf[i] = <<"req", pending, i>>

\* With such a master, what is still to leave is the rest of the reply to its request,
\* although the next events are handled while it leaves.
ReplyIntact ==
  eSndState = "TX_XMIT" /\ patient
    => /\ ran /\ sndCur + sndCount = Size + 1
       /\ \A i \in sndCur .. Size : ucRTUBuf[i] = <<"rep", pending, i>>

\* With such a master, every request is executed and answered, unless its event came
\* between two statements of xMBPortEventGet.
RequestServed ==
  pending # None ~> pending = None \/ ~patient \/ torn

\* A request that is executed was addressed to this slave ("Check if the frame is for
\* us. If not ignore the frame.").
OnlyForUsExecuted ==
  pc = "EV_EXECUTE" => \A i \in 2 .. usLength + 1 : ucRTUBuf[i][2] \in ForUs
=============================================================================
