--------------------------- MODULE ModbusRtu_proofs ---------------------------
(***************************************************************************)
(* The assertions of the Modbus interrupt handlers hold whatever the line  *)
(* carries, and a master that waits for its answers has each of its        *)
(* requests executed once and answered whole, for frames and buffers of    *)
(* every size.                                                             *)
(***************************************************************************)
EXTENDS ModbusRtu, TLAPS

\* The transmitter and the receiver are never switched on together, a transmission has
\* an idle receiver, and the timer belongs to a receiver that is not idle.
Exclusive ==
  /\ eSndState = IF txOn THEN "TX_XMIT" ELSE "TX_IDLE"
  /\ txOn => ~rxOn /\ eRcvState = "RX_IDLE"
  /\ timerOn => eRcvState # "RX_IDLE"

LEMMA ExclusiveInit == Init => Exclusive
  BY DEF Init, Exclusive

\* A byte is received only while the transmitter is off, and leaves the idle state.
LEMMA ExclusiveReceive == Exclusive /\ ReceiveByte => Exclusive'
  <1> SUFFICES ASSUME Exclusive, ReceiveByte PROVE Exclusive'
    OBVIOUS
  <1>1. ~txOn /\ UNCHANGED <<txOn, eSndState>>
    BY DEF ReceiveByte, CanReceive, sndVars
  <1>2. eRcvState' # "RX_IDLE"
    BY DEF ReceiveByte
  <1>3. QED
    BY <1>1, <1>2 DEF Exclusive

\* The timer runs only in states in which nothing is transmitted.
LEMMA ExclusiveTimer == Exclusive /\ TimerExpired => Exclusive'
  <1> SUFFICES ASSUME Exclusive, TimerExpired PROVE Exclusive'
    OBVIOUS
  <1>1. ~txOn /\ UNCHANGED <<txOn, eSndState>>
    BY DEF TimerExpired, Exclusive, uartVars, sndVars
  <1>2. ~timerOn'
    BY DEF TimerExpired
  <1>3. QED
    BY <1>1, <1>2 DEF Exclusive

LEMMA ExclusiveTransmit == Exclusive /\ (TransmitByte \/ TransmitDone) => Exclusive'
  BY DEF Exclusive, TransmitByte, TransmitDone, uartVars

\* eMBRTUSend begins from an idle receiver, whose timer is therefore off.
LEMMA ExclusiveSend == Exclusive /\ Send => Exclusive'
  BY DEF Exclusive, Send, isrVars

\* Every other step of the task, and of the line, leaves the interrupt handlers' state.
LEMMA ExclusiveOthers ==
  ASSUME Exclusive,
         \/ \E f \in Frames : FrameBegins(f)
         \/ FrameGoesOn \/ EventGet \/ EventClear \/ FrameReceive
         \/ ExecutePost \/ Execute \/ SendAborts \/ UNCHANGED vars
  PROVE  Exclusive'
  <1>1. UNCHANGED <<eRcvState, eSndState, rxOn, txOn, timerOn>>
    BY DEF FrameBegins, FrameGoesOn, Carries, EventGet, EventClear, FrameReceive,
           ExecutePost, Execute, SendAborts, vars, isrVars, uartVars, sndVars
  <1>2. QED
    BY <1>1 DEF Exclusive

LEMMA ExclusiveNext == Exclusive /\ [Next]_vars => Exclusive'
  BY ExclusiveReceive, ExclusiveTimer, ExclusiveTransmit, ExclusiveSend, ExclusiveOthers
     DEF Next, Interrupt, Task

\* Neither the receive nor the transmit nor the timer interrupt meets the other state
\* machine in a state its assertion excludes.
THEOREM Assertions == Spec => []AssertsHold
  <1>1. Exclusive => AssertsHold
    BY DEF Exclusive, AssertsHold, CanReceive
  <1>2. QED
    BY <1>1, ExclusiveInit, ExclusiveNext, PTL DEF Spec

-----------------------------------------------------------------------------
(* Type correctness.  The handler and eMBRTUSend take the frame's name from *)
(* the buffer, so it must hold a frame whenever an EV_EXECUTE is about.     *)

Filled == \A i \in 1 .. Size : ucRTUBuf[i] \in Bytes

TypeInv ==
  /\ TypeOK
  /\ sndCur + sndCount <= Size + 1
  /\ rdr # None => rdr[1] = "req"
  /\ slot.event = "EV_EXECUTE" \/ eEvent = "EV_EXECUTE" \/ pc \in {"EventPost", "send"} => Filled
  /\ pc \in {"EV_FRAME_RECEIVED", "EV_EXECUTE"} => pc = eEvent
  /\ timerOn <=> eRcvState # "RX_IDLE"
  /\ fresh => timerOn /\ pc = "poll"

-----------------------------------------------------------------------------
(* The way of one request through the slave, while the master waits.       *)

\* An EV_EXECUTE is posted, or just taken, or handled.
ExecutePosted == slot.full /\ slot.event = "EV_EXECUTE"
ExecuteTaken  == pc = "EventGet" /\ eEvent = "EV_EXECUTE"

\* The same for EV_FRAME_RECEIVED.
FrameAbout ==
  \/ slot.full /\ slot.event = "EV_FRAME_RECEIVED"
  \/ pc = "EventGet" /\ eEvent = "EV_FRAME_RECEIVED"
  \/ pc = "EV_FRAME_RECEIVED"

Whole(kind, f) == \A i \in 1 .. Size : ucRTUBuf[i] = <<kind, f, i>>

\* Nothing is asked of the slave: what is in the buffer is not taken for a request.
Quiet ==
  /\ ~ran /\ eSndState = "TX_IDLE"
  /\ pc \in {"poll", "EventGet", "EV_FRAME_RECEIVED"}
  /\ ~ExecutePosted /\ ~ExecuteTaken
  /\ FrameAbout \/ eRcvState = "RX_RCV"
       => ~ \E f \in ForUs : Holds(ucRTUBuf, usRcvBufferPos, f)

\* The request is in the buffer.  An event of an earlier frame may make the task look
\* at it before T3.5 is over; the EV_EXECUTE of that look is still overwritten.
Asked ==
  /\ ~ran /\ eSndState = "TX_IDLE" /\ pc # "send"
  /\ eRcvState \in {"RX_RCV", "RX_IDLE"}
  /\ Whole("req", pending) /\ usRcvBufferPos = Size
  /\ ExecutePosted \/ ExecuteTaken \/ pc \in {"EventPost", "EV_EXECUTE"}
       => rcvOwn = (pending \in Own) /\ usLength = Size - 2
  /\ ExecutePosted => ExecuteTaken \/ (pc = "poll" /\ (timerOn => fresh))
  /\ ExecuteTaken \/ pc = "EV_EXECUTE" => ~timerOn
  /\ pc = "EV_EXECUTE" => ~slot.full

\* It was executed: the reply is about to leave, or leaves, and no event is left that
\* could execute it again.
Answered ==
  /\ ran /\ eRcvState = "RX_IDLE" /\ ~slot.full
  /\ \/ /\ pc = "send" /\ eSndState = "TX_IDLE" /\ usLength = Size - 2
        /\ \A i \in 2 .. Size - 1 : ucRTUBuf[i] = <<"rep", pending, i>>
     \/ /\ pc = "poll" /\ eSndState = "TX_XMIT" /\ sndCur + sndCount = Size + 1
        /\ Whole("rep", pending)

Course == patient => IF pending = None THEN Quiet ELSE Asked \/ Answered

RequestInv == Exclusive /\ TypeInv /\ Course

-----------------------------------------------------------------------------
LEMMA TypeInvInit == Init => TypeInv
  <1> SUFFICES ASSUME Init PROVE TypeInv
    OBVIOUS
  <1>2. slot \in [full : BOOLEAN, event : {"EV_READY", "EV_FRAME_RECEIVED", "EV_EXECUTE",
                                        "EV_FRAME_SENT"}] /\ slot.event = "EV_READY"
    BY DEF Init, Empty
  <1>3. ucRTUBuf \in [Positions -> Bytes \cup {None}]
    BY DEF Init
  <1>4. /\ usRcvBufferPos \in 0 .. BufSize /\ sndCur \in 1 .. Size + 1 /\ sndCount \in 0 .. Size
        /\ usLength \in 0 .. Size - 2 /\ sent \in 0 .. MaxFrames
        /\ sndCur + sndCount <= Size + 1
    BY ModbusAssumption DEF Init
  <1>5. QED
    BY <1>2, <1>3, <1>4 DEF Init, TypeInv, TypeOK

\* A frame that passes the length and the CRC check fills the buffer.
LEMMA HeldIsFilled ==
  ASSUME NEW f \in Frames, Holds(ucRTUBuf, usRcvBufferPos, f)
  PROVE  Filled
  BY DEF Holds, Filled, Bytes

\* It is one frame only.
LEMMA HeldOnce ==
  ASSUME NEW buf, NEW n, NEW f, NEW g, Holds(buf, n, f), Holds(buf, n, g)
  PROVE  f = g
  <1>1. PICK k : \A i \in 1 .. Size : buf[i] = <<k, f, i>>
    BY DEF Holds
  <1>2. PICK l : \A i \in 1 .. Size : buf[i] = <<l, g, i>>
    BY DEF Holds
  <1>3. 1 \in 1 .. Size
    BY ModbusAssumption
  <1>4. <<k, f, 1>> = <<l, g, 1>>
    BY <1>1, <1>2, <1>3
  <1>5. QED
    BY <1>4

LEMMA TypeLine ==
  ASSUME TypeInv, NEW f \in Frames, NEW i \in 1 .. Size, Carries(f, i),
         sent' \in 0 .. MaxFrames
  PROVE  TypeInv'
  <1> USE DEF TypeInv, TypeOK
  <1>1. UNCHANGED <<eRcvState, ucRTUBuf, usRcvBufferPos, timerOn, slot, fresh, rxOn, txOn,
                    torn, eSndState, sndCur, sndCount, pc, eEvent, rcvOwn, usLength>>
    BY DEF Carries, sndVars, taskVars
  <1>2. rdr' \in Bytes \cup {None} /\ (rdr' # None => rdr'[1] = "req")
    BY DEF Carries, Bytes
  <1>3. line' \in (Frames \X (1 .. Size)) \cup {None}
    BY ModbusAssumption DEF Carries
  <1>4. pending' \in ForUs \cup {None} /\ ran' \in BOOLEAN /\ patient' \in BOOLEAN
    BY DEF Carries
  <1>5. Filled' <=> Filled
    BY <1>1 DEF Filled
  <1>6. QED
    BY <1>1, <1>2, <1>3, <1>4, <1>5

LEMMA TypeReceive == TypeInv /\ ReceiveByte => TypeInv'
  <1> SUFFICES ASSUME TypeInv, ReceiveByte PROVE TypeInv'
    OBVIOUS
  <1> USE DEF TypeInv, TypeOK
  <1>1. UNCHANGED <<slot, rxOn, txOn, eSndState, sndCur, sndCount, pc, eEvent, rcvOwn,
                    usLength, line, sent, torn>>
    BY DEF ReceiveByte, sndVars, taskVars, lineVars
  <1>2. rdr \in Bytes /\ rdr' = None /\ timerOn' = TRUE /\ fresh' = FALSE
    BY DEF ReceiveByte, CanReceive
  <1>3. /\ ucRTUBuf' \in [Positions -> Bytes \cup {None}]
        /\ \A i \in Positions : ucRTUBuf[i] \in Bytes => ucRTUBuf'[i] \in Bytes
    BY <1>2 DEF ReceiveByte
  <1>4. usRcvBufferPos' \in 0 .. BufSize
    BY ModbusAssumption DEF ReceiveByte, Room
  <1>5. eRcvState' \in {"RX_INIT", "RX_RCV", "RX_ERROR"}
    BY DEF ReceiveByte
  <1>6. patient' \in BOOLEAN /\ ran' \in BOOLEAN
    BY DEF ReceiveByte
  <1>7. pending' \in ForUs \cup {None}
    <2>1. ASSUME pending' # None PROVE pending' = rdr[2] /\ rdr[2] \in ForUs
      <3>1. PICK f \in ForUs : Holds(ucRTUBuf', usRcvBufferPos', f)
        BY <2>1 DEF ReceiveByte
      <3>2. usRcvBufferPos' = Size /\ eRcvState' = "RX_RCV" /\ pending' = rdr[2]
        BY <2>1, <3>1 DEF ReceiveByte, Holds
      <3>3. ucRTUBuf'[Size] = rdr
        BY <3>2, ModbusAssumption DEF ReceiveByte, Room, Positions
      <3>4. rdr[2] = f
        BY <3>1, <3>3, ModbusAssumption DEF Holds
      <3>5. QED
        BY <3>2, <3>4
    <2>2. QED
      BY <2>1
  <1>8. Filled => Filled'
    BY <1>3, ModbusAssumption DEF Filled, Positions
  <1>9. TypeOK'
    <2>1. timerOn' \in BOOLEAN /\ fresh' \in BOOLEAN /\ rdr' \in Bytes \cup {None}
      BY <1>2
    <2>2. UNCHANGED <<rxOn, txOn, rcvOwn, torn>>
      BY <1>1
    <2>3. rxOn' \in BOOLEAN /\ txOn' \in BOOLEAN /\ rcvOwn' \in BOOLEAN /\ torn' \in BOOLEAN
      BY <2>2
    <2>4. QED
      BY <1>1, <1>3, <1>4, <1>5, <1>6, <1>7, <2>1, <2>3
  <1>10. timerOn' <=> eRcvState' # "RX_IDLE"
    BY <1>2, <1>5
  <1>11. QED
    BY <1>1, <1>2, <1>8, <1>9, <1>10

LEMMA TypeInterrupt ==
  TypeInv /\ (TransmitByte \/ TransmitDone \/ TimerExpired) => TypeInv'
  <1> SUFFICES ASSUME TypeInv PROVE TransmitByte \/ TransmitDone \/ TimerExpired => TypeInv'
    OBVIOUS
  <1> USE DEF TypeInv, TypeOK
  <1>1. CASE TransmitByte
    <2>1. UNCHANGED Filled
      BY <1>1 DEF TransmitByte, Filled
    <2>2. sndCur' \in 1 .. Size + 1 /\ sndCount' \in 0 .. Size
          /\ sndCur' + sndCount' <= Size + 1
      BY <1>1, ModbusAssumption DEF TransmitByte
    <2>3. QED
      BY <1>1, <2>1, <2>2 DEF TransmitByte, uartVars, taskVars, lineVars, histVars
  <1>2. CASE TransmitDone
    <2>1. UNCHANGED Filled
      BY <1>2 DEF TransmitDone, Filled
    <2>2. torn' \in BOOLEAN
      BY <1>2 DEF TransmitDone
    <2>3. slot' \in {slot, Posted("EV_FRAME_SENT")}
      BY <1>2 DEF TransmitDone
    <2>4. QED
      BY <1>2, <2>1, <2>2, <2>3 DEF TransmitDone, Posted, taskVars, lineVars
  <1>3. CASE TimerExpired
    <2>1. UNCHANGED Filled
      BY <1>3 DEF TimerExpired, Filled
    <2>2. torn' \in BOOLEAN
      BY <1>3 DEF TimerExpired
    <2>3. slot' \in {slot, Posted("EV_READY"), Posted("EV_FRAME_RECEIVED")}
      BY <1>3 DEF TimerExpired
    <2>4. QED
      BY <1>3, <2>1, <2>2, <2>3 DEF TimerExpired, Posted, uartVars, sndVars, taskVars, lineVars
  <1>4. QED
    BY <1>1, <1>2, <1>3

LEMMA TypeEvents ==
  TypeInv /\ (EventGet \/ EventClear \/ FrameReceive \/ ExecutePost \/ SendAborts) => TypeInv'
  <1> SUFFICES ASSUME TypeInv,
                      EventGet \/ EventClear \/ FrameReceive \/ ExecutePost \/ SendAborts
               PROVE  TypeInv'
    OBVIOUS
  <1> USE DEF TypeInv, TypeOK
  <1>1. UNCHANGED <<eRcvState, usRcvBufferPos, timerOn, ucRTUBuf, rxOn, txOn, rdr, eSndState,
                    sndCur, sndCount, line, sent, pending, ran, patient, torn>>
    BY DEF EventGet, EventClear, FrameReceive, ExecutePost, SendAborts, isrVars, uartVars,
           sndVars, lineVars, histVars
  <1>2. Filled' <=> Filled
    BY <1>1 DEF Filled
  <1>3. CASE EventGet
    BY <1>1, <1>2, <1>3 DEF EventGet
  <1>4. CASE EventClear
    <2>1. slot'.event = slot.event /\ slot' \in [full : BOOLEAN, event : {"EV_READY",
            "EV_FRAME_RECEIVED", "EV_EXECUTE", "EV_FRAME_SENT"}]
      BY <1>4 DEF EventClear
    <2>2. UNCHANGED <<eEvent, rcvOwn, usLength>>
      BY <1>4 DEF EventClear
    <2>3. CASE eEvent \in {"EV_READY", "EV_FRAME_SENT"}
      BY <1>1, <1>2, <1>4, <2>1, <2>2, <2>3 DEF EventClear, Returns
    <2>4. CASE eEvent \notin {"EV_READY", "EV_FRAME_SENT"}
      BY <1>1, <1>2, <1>4, <2>1, <2>2, <2>4 DEF EventClear
    <2>5. QED
      BY <2>3, <2>4
  <1>5. CASE FrameReceive
    <2>1. UNCHANGED <<slot, eEvent>> /\ pc = "EV_FRAME_RECEIVED"
      BY <1>5 DEF FrameReceive
    <2>2. CASE \E f \in Frames : Holds(ucRTUBuf, usRcvBufferPos, f)
      <3>1. Filled /\ usRcvBufferPos = Size
        BY <2>2, HeldIsFilled DEF Holds
      <3>2. rcvOwn' \in BOOLEAN /\ usLength' \in 0 .. Size - 2
        <4>1. rcvOwn' \in BOOLEAN /\ usLength' = usRcvBufferPos - 2
          BY <1>5, <2>2 DEF FrameReceive
        <4>2. QED
          BY <3>1, <4>1, ModbusAssumption
      <3>3. (pc' = "EventPost" /\ fresh' = fresh) \/ Returns
        BY <1>5, <2>2 DEF FrameReceive
      <3>4. QED
        BY <1>1, <1>2, <2>1, <3>1, <3>2, <3>3 DEF Returns
    <2>3. CASE ~ \E f \in Frames : Holds(ucRTUBuf, usRcvBufferPos, f)
      BY <1>1, <1>2, <1>5, <2>1, <2>3 DEF FrameReceive, Returns
    <2>4. QED
      BY <2>2, <2>3
  <1>6. CASE ExecutePost
    BY <1>1, <1>2, <1>6 DEF ExecutePost, Returns, Posted
  <1>7. CASE SendAborts
    BY <1>1, <1>2, <1>7 DEF SendAborts, Returns
  <1>8. QED
    BY <1>3, <1>4, <1>5, <1>6, <1>7

\* Of a filled buffer, byte 2 names the frame: the reply is one to that frame.
LEMMA TypeExecute == TypeInv /\ (Execute \/ Send) => TypeInv'
  <1> SUFFICES ASSUME TypeInv, Execute \/ Send PROVE TypeInv'
    OBVIOUS
  <1> USE DEF TypeInv, TypeOK
  <1>1. Filled /\ 2 \in 1 .. Size
    BY ModbusAssumption DEF Execute, Send
  <1>2. ucRTUBuf[2][2] \in Frames
    BY <1>1 DEF Filled, Bytes
  <1>3. \A i \in 1 .. Size : <<"rep", ucRTUBuf[2][2], i>> \in Bytes
    BY <1>2 DEF Bytes
  <1>4. UNCHANGED <<eRcvState, usRcvBufferPos, timerOn, slot, rdr, eEvent, rcvOwn, usLength,
                    line, sent, patient, torn>>
    BY DEF Execute, Send, isrVars, uartVars, lineVars, histVars
  <1>5. CASE Execute
    <2>1. /\ ucRTUBuf' \in [Positions -> Bytes \cup {None}]
          /\ \A i \in Positions : ucRTUBuf[i] \in Bytes => ucRTUBuf'[i] \in Bytes
      BY <1>3, <1>5, ModbusAssumption DEF Execute, Positions
    <2>2. Filled'
      BY <1>1, <2>1, ModbusAssumption DEF Filled, Positions
    <2>3. pc' \in {"send", "poll"} /\ (fresh' => timerOn' /\ pc' = "poll") /\ fresh' \in BOOLEAN
      BY <1>4, <1>5 DEF Execute, Returns
    <2>4. pending' \in ForUs \cup {None} /\ ran' \in BOOLEAN
      BY <1>5 DEF Execute
    <2>5. UNCHANGED <<rxOn, txOn, eSndState, sndCur, sndCount>>
      BY <1>5 DEF Execute, uartVars, sndVars
    <2>6. QED
      BY <1>4, <2>1, <2>2, <2>3, <2>4, <2>5
  <1>6. CASE Send
    <2>1. /\ ucRTUBuf' \in [Positions -> Bytes \cup {None}]
          /\ \A i \in Positions : ucRTUBuf[i] \in Bytes => ucRTUBuf'[i] \in Bytes
      <3>1. usLength + 2 \in 1 .. Size /\ 1 \in 1 .. Size
        BY ModbusAssumption
      <3>2. PICK x \in Bytes, y \in Bytes :
              ucRTUBuf' = [ucRTUBuf EXCEPT ![1] = x, ![usLength + 2] = y]
        BY <1>3, <1>6, <3>1 DEF Send
      <3>3. QED
        BY <3>2
    <2>2. Filled'
      BY <1>1, <2>1, ModbusAssumption DEF Filled, Positions
    <2>3. sndCur' = 1 /\ sndCount' \in 0 .. Size
      BY <1>6, ModbusAssumption DEF Send
    <2>4. sndCur' + sndCount' <= Size + 1 /\ sndCur' \in 1 .. Size + 1
      BY <2>3, ModbusAssumption
    <2>5. UNCHANGED <<pending, ran>> /\ fresh' = timerOn /\ pc' = "poll"
      BY <1>6 DEF Send, Returns, histVars
    <2>6. eSndState' = "TX_XMIT" /\ rxOn' \in BOOLEAN /\ txOn' \in BOOLEAN
      BY <1>6 DEF Send
    <2>7. QED
      BY <1>4, <2>1, <2>2, <2>3, <2>4, <2>5, <2>6
  <1>7. QED
    BY <1>5, <1>6

LEMMA TypeInvNext == TypeInv /\ [Next]_vars => TypeInv'
  <1> SUFFICES ASSUME TypeInv, [Next]_vars PROVE TypeInv'
    OBVIOUS
  <1>1. ASSUME NEW f \in Frames, FrameBegins(f) PROVE TypeInv'
    <2>1. sent' \in 0 .. MaxFrames /\ 1 \in 1 .. Size
      BY <1>1, ModbusAssumption DEF FrameBegins, TypeInv, TypeOK
    <2>2. QED
      BY <1>1, <2>1, TypeLine DEF FrameBegins
  <1>2. CASE FrameGoesOn
    <2>1. line[1] \in Frames /\ line[2] \in 1 .. Size /\ sent' \in 0 .. MaxFrames
      BY <1>2 DEF FrameGoesOn, TypeInv, TypeOK
    <2>2. QED
      BY <1>2, <2>1, TypeLine DEF FrameGoesOn
  <1>3. CASE UNCHANGED vars
    <2>1. UNCHANGED Filled
      BY <1>3 DEF vars, Filled
    <2>2. QED
      BY <1>3, <2>1 DEF vars, TypeInv, TypeOK, uartVars, sndVars, taskVars, lineVars, histVars
  <1>4. QED
    BY <1>1, <1>2, <1>3, TypeReceive, TypeInterrupt, TypeEvents, TypeExecute
       DEF Next, Interrupt, Task

-----------------------------------------------------------------------------
(* Course is kept, an action at a time.                                    *)

CourseNow == IF pending = None THEN Quiet ELSE Asked \/ Answered

LEMMA CourseInit == Init => Course
  BY DEF Init, Course, Quiet, ExecutePosted, ExecuteTaken, FrameAbout, Empty

\* A master that waits is silent while its request is pending.
LEMMA CourseLine ==
  ASSUME RequestInv, patient', NEW f, NEW i, Carries(f, i)
  PROVE  CourseNow'
  <1>1. pending = None /\ pending' = None /\ ~ran' /\ Quiet
    BY DEF RequestInv, Course, Carries
  <1>2. UNCHANGED <<eRcvState, ucRTUBuf, usRcvBufferPos, slot, eSndState, pc, eEvent>>
    BY DEF Carries, sndVars, taskVars
  <1>3. QED
    BY <1>1, <1>2 DEF CourseNow, Quiet, ExecutePosted, ExecuteTaken, FrameAbout, Holds

\* The byte that completes a frame is the last of the frame it completes.
LEMMA LastByte ==
  ASSUME RequestInv, ReceiveByte, NEW f \in Frames,
         Holds(ucRTUBuf', usRcvBufferPos', f), eRcvState' = "RX_RCV"
  PROVE  rdr[2] = f /\ usRcvBufferPos' = Size /\ Whole("req", f)'
  <1> USE DEF RequestInv, TypeInv, TypeOK
  <1>1. usRcvBufferPos' = Size /\ Size \in 1 .. Size
    BY ModbusAssumption DEF Holds
  <1>2. ucRTUBuf'[Size] = rdr /\ rdr # None /\ rdr \in Bytes
    BY <1>1, ModbusAssumption DEF ReceiveByte, CanReceive, Room, Positions
  <1>3. PICK kind : \A i \in 1 .. Size : ucRTUBuf'[i] = <<kind, f, i>>
    BY DEF Holds
  <1>4. rdr = <<kind, f, Size>> /\ rdr[1] = "req"
    BY <1>1, <1>2, <1>3
  <1>5. kind = "req" /\ rdr[2] = f
    BY <1>4
  <1>6. QED
    BY <1>1, <1>3, <1>5 DEF Whole

LEMMA CourseReceive ==
  ASSUME RequestInv, patient', ReceiveByte
  PROVE  CourseNow'
  <1>1. patient /\ pending = None /\ Quiet
    BY DEF RequestInv, Course, ReceiveByte
  <1>2. UNCHANGED <<slot, eSndState, pc, eEvent>> /\ ~ran' /\ timerOn'
    BY DEF ReceiveByte, sndVars, taskVars
  <1>3. rdr[2] \in Frames
    BY DEF RequestInv, TypeInv, TypeOK, ReceiveByte, CanReceive, Bytes
  <1>4. CASE eRcvState' = "RX_RCV" /\ \E f \in ForUs : Holds(ucRTUBuf', usRcvBufferPos', f)
    <2>1. PICK f \in ForUs : Holds(ucRTUBuf', usRcvBufferPos', f)
      BY <1>4
    <2>2. pending' = rdr[2]
      BY <1>4, <2>1 DEF ReceiveByte
    <2>3. pending' = f /\ usRcvBufferPos' = Size /\ Whole("req", f)'
      BY <1>4, <2>1, <2>2, LastByte DEF ForUs, Frames
    <2>4. pending' # None
      BY <1>3, <2>2, ModbusAssumption
    <2>5. Whole("req", pending)'
      BY <2>3 DEF Whole
    <2>6. Asked'
      BY <1>1, <1>2, <1>4, <2>3, <2>5 DEF Asked, Quiet, ExecutePosted, ExecuteTaken
    <2>7. QED
      BY <2>4, <2>6 DEF CourseNow
  <1>5. CASE ~(eRcvState' = "RX_RCV" /\ \E f \in ForUs : Holds(ucRTUBuf', usRcvBufferPos', f))
    <2>1. pending' = None
      BY <1>5 DEF ReceiveByte
    <2>2. eRcvState' # "RX_RCV" => UNCHANGED <<ucRTUBuf, usRcvBufferPos>>
      BY DEF ReceiveByte
    <2>3. FrameAbout' <=> FrameAbout
      BY <1>2 DEF FrameAbout
    <2>4. FrameAbout' \/ eRcvState' = "RX_RCV"
            => ~ \E f \in ForUs : Holds(ucRTUBuf', usRcvBufferPos', f)
      BY <1>1, <1>5, <2>2, <2>3 DEF Quiet
    <2>5. QED
      BY <1>1, <1>2, <2>1, <2>4 DEF CourseNow, Quiet, ExecutePosted, ExecuteTaken
  <1>6. QED
    BY <1>4, <1>5

\* Only a reply is transmitted.
LEMMA CourseTransmit ==
  ASSUME RequestInv, patient', TransmitByte \/ TransmitDone
  PROVE  CourseNow'
  <1>1. patient /\ txOn /\ eSndState = "TX_XMIT"
    BY DEF RequestInv, Exclusive, TransmitByte, TransmitDone, histVars
  <1>2. pending # None /\ Answered /\ pc = "poll"
    BY <1>1 DEF RequestInv, Course, Quiet, Asked, Answered
  <1>3. CASE TransmitByte
    <2>1. UNCHANGED <<eRcvState, eSndState, ucRTUBuf, slot, pc, usLength, pending, ran>>
      BY <1>3 DEF TransmitByte, taskVars, histVars
    <2>2. sndCur' + sndCount' = sndCur + sndCount
      BY <1>3, ModbusAssumption DEF TransmitByte, RequestInv, TypeInv, TypeOK
    <2>3. QED
      BY <1>1, <1>2, <2>1, <2>2 DEF CourseNow, Answered, Whole
  <1>4. CASE TransmitDone
    <2>1. pending' = None /\ ~ran' /\ eSndState' = "TX_IDLE" /\ slot' = Posted("EV_FRAME_SENT")
      BY <1>1, <1>4 DEF TransmitDone
    <2>2. UNCHANGED <<eRcvState, pc>>
      BY <1>4 DEF TransmitDone, taskVars
    <2>3. QED
      BY <1>2, <2>1, <2>2
         DEF CourseNow, Quiet, Answered, Posted, ExecutePosted, ExecuteTaken, FrameAbout
  <1>5. QED
    BY <1>3, <1>4

\* An EV_EXECUTE from before the end of the request's T3.5 is overwritten.
LEMMA CourseTimer ==
  ASSUME RequestInv, patient', TimerExpired
  PROVE  CourseNow'
  <1>1. patient /\ timerOn /\ eRcvState # "RX_IDLE"
    BY DEF TimerExpired, RequestInv, TypeInv
  <1>2. UNCHANGED <<ucRTUBuf, usRcvBufferPos, eSndState, pc, eEvent, rcvOwn, usLength,
                    pending, ran>>
        /\ eRcvState' = "RX_IDLE" /\ ~timerOn' /\ ~fresh'
    BY DEF TimerExpired, sndVars, taskVars
  <1>3. CASE pending = None
    <2>1. Quiet
      BY <1>1, <1>3 DEF RequestInv, Course
    <2>2. eRcvState = "RX_RCV" \/ slot' = slot \/ slot' = Posted("EV_READY")
      BY DEF TimerExpired
    <2>3. eRcvState = "RX_RCV" => slot' = Posted("EV_FRAME_RECEIVED")
      BY DEF TimerExpired
    <2>4. FrameAbout' => FrameAbout \/ eRcvState = "RX_RCV"
      BY <1>2, <2>2 DEF FrameAbout, Posted
    <2>5. ~ExecutePosted' /\ ~ExecuteTaken'
      BY <1>2, <2>1, <2>2, <2>3 DEF Quiet, ExecutePosted, ExecuteTaken, Posted
    <2>6. QED
      BY <1>2, <1>3, <2>1, <2>4, <2>5 DEF CourseNow, Quiet
  <1>4. CASE pending # None
    <2>1. Asked /\ eRcvState = "RX_RCV"
      BY <1>1, <1>4 DEF RequestInv, Course, Asked, Answered
    <2>2. slot' = Posted("EV_FRAME_RECEIVED")
      BY <2>1 DEF TimerExpired
    <2>3. ~ExecutePosted' /\ ~ExecuteTaken' /\ pc' # "EV_EXECUTE"
      BY <1>1, <1>2, <2>1, <2>2 DEF Asked, ExecutePosted, ExecuteTaken, Posted
    <2>4. Asked'
      BY <1>2, <2>1, <2>3 DEF Asked, Whole
    <2>5. QED
      BY <1>2, <1>4, <2>4 DEF CourseNow
  <1>5. QED
    BY <1>3, <1>4

\* The poll finds an EV_EXECUTE only when no timer runs that would overwrite it.
LEMMA CourseEvent ==
  ASSUME RequestInv, patient', EventGet \/ EventClear \/ ExecutePost
  PROVE  CourseNow'
  <1> USE DEF RequestInv, TypeInv, TypeOK, Course, CourseNow
  <1>1. UNCHANGED <<eRcvState, usRcvBufferPos, timerOn, ucRTUBuf, rcvOwn, usLength, eSndState,
                    pending, ran, patient>>
    BY DEF EventGet, EventClear, ExecutePost, isrVars, sndVars, histVars
  <1>2. CASE EventGet
    <2>1. /\ pc = "poll" /\ ~fresh /\ slot.full /\ slot' = slot
          /\ eEvent' = slot.event /\ pc' = "EventGet" /\ fresh' = fresh
      BY <1>2 DEF EventGet
    <2>2. CASE pending = None
      <3>1. Quiet'
        BY <1>1, <2>1, <2>2 DEF Quiet, ExecutePosted, ExecuteTaken, FrameAbout
      <3>2. QED
        BY <1>1, <2>2, <3>1
    <2>3. CASE pending # None
      <3>1. Asked'
        BY <1>1, <2>1, <2>3 DEF Asked, Answered, Whole, ExecutePosted, ExecuteTaken
      <3>2. QED
        BY <1>1, <2>3, <3>1
    <2>4. QED
      BY <2>2, <2>3
  <1>3. CASE EventClear
    <2>1. /\ pc = "EventGet" /\ ~slot'.full /\ eEvent' = eEvent
          /\ (pc' = "poll" \/ (pc' = eEvent /\ pc' \in {"EV_FRAME_RECEIVED", "EV_EXECUTE"}))
      BY <1>3 DEF EventClear, Returns
    <2>2. CASE pending = None
      <3>1. Quiet'
        BY <1>1, <2>1, <2>2 DEF Quiet, ExecutePosted, ExecuteTaken, FrameAbout
      <3>2. QED
        BY <1>1, <2>2, <3>1
    <2>3. CASE pending # None
      <3>1. Asked'
        BY <1>1, <2>1, <2>3 DEF Asked, Answered, Whole, ExecutePosted, ExecuteTaken
      <3>2. QED
        BY <1>1, <2>3, <3>1
    <2>4. QED
      BY <2>2, <2>3
  <1>4. CASE ExecutePost
    <2>1. /\ pc = "EventPost" /\ slot' = Posted("EV_EXECUTE")
          /\ pc' = "poll" /\ fresh' = timerOn
      BY <1>4 DEF ExecutePost, Returns
    <2>2. pending # None /\ Asked
      BY <1>1, <2>1 DEF Quiet, Answered
    <2>3. Asked'
      BY <1>1, <2>1, <2>2 DEF Asked, Whole, ExecutePosted, ExecuteTaken, Posted
    <2>4. QED
      BY <1>1, <2>2, <2>3
  <1>5. QED
    BY <1>2, <1>3, <1>4

\* What the receive function finds in the buffer is the pending request, if anything.
LEMMA CourseFrame ==
  ASSUME RequestInv, patient', FrameReceive
  PROVE  CourseNow'
  <1> USE DEF RequestInv, TypeInv, TypeOK, Course, CourseNow
  <1>1. UNCHANGED <<eRcvState, usRcvBufferPos, timerOn, ucRTUBuf, slot, eEvent, eSndState,
                    pending, ran, patient>> /\ pc = "EV_FRAME_RECEIVED"
    BY DEF FrameReceive, isrVars, sndVars, histVars
  <1>2. CASE pending = None
    <2>1. ~ \E f \in ForUs : Holds(ucRTUBuf, usRcvBufferPos, f)
      BY <1>1, <1>2 DEF Quiet, FrameAbout
    <2>2. pc' = "poll"
      <3>1. CASE \E f \in Frames : Holds(ucRTUBuf, usRcvBufferPos, f)
        <4> DEFINE g == CHOOSE h \in Frames : Holds(ucRTUBuf, usRcvBufferPos, h)
        <4>1. g \notin ForUs
          BY <2>1, <3>1
        <4>2. QED
          BY <3>1, <4>1 DEF FrameReceive, Returns
      <3>2. CASE ~ \E f \in Frames : Holds(ucRTUBuf, usRcvBufferPos, f)
        BY <3>2 DEF FrameReceive, Returns
      <3>3. QED
        BY <3>1, <3>2
    <2>3. Quiet'
      BY <1>1, <1>2, <2>1, <2>2 DEF Quiet, ExecutePosted, ExecuteTaken, FrameAbout, Holds
    <2>4. QED
      BY <1>1, <1>2, <2>3
  <1>3. CASE pending # None
    <2>1. Asked /\ pending \in ForUs
      BY <1>1, <1>3 DEF Answered
    <2>2. Holds(ucRTUBuf, usRcvBufferPos, pending) /\ pending \in Frames
      BY <2>1 DEF Asked, Whole, Holds, ForUs, Frames
    <2> DEFINE g == CHOOSE h \in Frames : Holds(ucRTUBuf, usRcvBufferPos, h)
    <2>3. Holds(ucRTUBuf, usRcvBufferPos, g)
      BY <2>2
    <2>4. g = pending
      BY <2>2, <2>3, HeldOnce
    <2>5. \E f \in Frames : Holds(ucRTUBuf, usRcvBufferPos, f)
      BY <2>2
    <2>6. rcvOwn' = (g \notin Broadcast) /\ usLength' = usRcvBufferPos - 2
      BY <2>5 DEF FrameReceive
    <2>7. pc' = "EventPost"
      BY <2>1, <2>4, <2>5 DEF FrameReceive
    <2> HIDE DEF g
    <2>8. rcvOwn' = (pending \in Own)
      <3>1. pending \notin Broadcast <=> pending \in Own
        BY <2>1, ModbusAssumption DEF ForUs
      <3>2. QED
        BY <2>4, <2>6, <3>1
    <2>9. usLength' = Size - 2
      BY <2>1, <2>6 DEF Asked
    <2>10. ~ExecutePosted' /\ ~ExecuteTaken'
      BY <1>1, <2>1, <2>7 DEF Asked, ExecutePosted, ExecuteTaken
    <2>11. Asked'
      <3>1. rcvOwn' = (pending' \in Own)
        BY <1>1, <2>8
      <3>2. Whole("req", pending)'
        BY <1>1, <2>1 DEF Asked, Whole
      <3>3. QED
        BY <1>1, <2>1, <2>7, <2>9, <2>10, <3>1, <3>2 DEF Asked
    <2>12. QED
      BY <1>1, <1>3, <2>11
  <1>4. QED
    BY <1>2, <1>3

\* The handler puts the reply where the request was.
LEMMA CourseExecute ==
  ASSUME RequestInv, patient', Execute
  PROVE  CourseNow'
  <1> USE DEF RequestInv, TypeInv, TypeOK, Course, CourseNow
  <1>1. UNCHANGED <<eRcvState, timerOn, slot, usLength, eSndState, patient>> /\ pc = "EV_EXECUTE"
    BY DEF Execute, isrVars, sndVars
  <1>2. pending # None /\ Asked
    BY <1>1 DEF Quiet, Answered
  <1>3. rcvOwn = (pending \in Own) /\ usLength = Size - 2 /\ ~slot.full /\ eRcvState = "RX_IDLE"
    BY <1>1, <1>2 DEF Asked
  <1>4. \A i \in 2 .. Size - 1 : ucRTUBuf'[i] = <<"rep", pending, i>>
    <2>1. ucRTUBuf[2][2] = pending
      BY <1>2, ModbusAssumption DEF Asked, Whole
    <2>2. \A i \in 2 .. Size - 1 : i \in Positions /\ i \in 2 .. usLength + 1
      BY <1>3, ModbusAssumption DEF Positions
    <2>3. QED
      BY <2>1, <2>2 DEF Execute
  <1>5. CASE rcvOwn
    <2>1. pc' = "send" /\ pending' = pending /\ ran'
      BY <1>2, <1>5 DEF Execute
    <2>2. eSndState' = "TX_IDLE"
      BY <1>1, <1>2 DEF Asked
    <2>3. Answered'
      BY <1>1, <1>3, <1>4, <2>1, <2>2 DEF Answered
    <2>4. QED
      BY <1>2, <2>1, <2>3
  <1>6. CASE ~rcvOwn
    <2>1. pc' = "poll" /\ pending' = None /\ ~ran'
      BY <1>6 DEF Execute, Returns
    <2>2. Quiet'
      BY <1>1, <1>2, <1>3, <2>1 DEF Quiet, Asked, ExecutePosted, ExecuteTaken, FrameAbout
    <2>3. QED
      BY <2>1, <2>2
  <1>7. QED
    BY <1>5, <1>6

\* The receiver is idle: the reply is completed and sent, and is not given up.
LEMMA CourseSend ==
  ASSUME RequestInv, patient', Send \/ SendAborts
  PROVE  CourseNow'
  <1> USE DEF RequestInv, TypeInv, TypeOK, Course, CourseNow
  <1>1. UNCHANGED <<eRcvState, slot, pending, ran, patient>> /\ pc = "send"
    BY DEF Send, SendAborts, isrVars, histVars
  <1>2. pending # None /\ Answered
    BY <1>1 DEF Quiet, Asked
  <1>3. Send /\ usLength = Size - 2 /\ \A i \in 2 .. Size - 1 : ucRTUBuf[i] = <<"rep", pending, i>>
    BY <1>1, <1>2 DEF Answered, SendAborts
  <1>4. ucRTUBuf[2][2] = pending
    BY <1>3, ModbusAssumption
  <1>5. Whole("rep", pending)'
    <2>1. ucRTUBuf' = [ucRTUBuf EXCEPT ![1] = <<"rep", pending, 1>>, ![Size] = <<"rep", pending, Size>>]
      <3>1. usLength + 2 = Size
        BY <1>3, ModbusAssumption
      <3>2. QED
        BY <1>3, <1>4, <3>1 DEF Send
    <2>2. \A i \in 1 .. Size : i \in Positions /\ (i = 1 \/ i = Size \/ i \in 2 .. Size - 1)
      BY ModbusAssumption DEF Positions
    <2>3. \A i \in 1 .. Size : ucRTUBuf'[i] = <<"rep", pending, i>>
      BY <1>3, <2>1, <2>2
    <2>4. QED
      BY <1>1, <2>3 DEF Whole
  <1>6. sndCur' + sndCount' = Size + 1 /\ pc' = "poll" /\ eSndState' = "TX_XMIT"
    BY <1>3, ModbusAssumption DEF Send, Returns
  <1>7. Answered'
    BY <1>1, <1>2, <1>5, <1>6 DEF Answered, Whole
  <1>8. QED
    BY <1>1, <1>2, <1>7

LEMMA CourseNext == RequestInv /\ [Next]_vars => Course'
  <1> SUFFICES ASSUME RequestInv, [Next]_vars, patient' PROVE CourseNow'
    BY DEF Course, CourseNow
  <1>1. CASE UNCHANGED vars
    <2>1. UNCHANGED <<eRcvState, eSndState, ucRTUBuf, usRcvBufferPos, timerOn, slot, pc, eEvent,
                      rcvOwn, usLength, fresh, sndCur, sndCount, pending, ran, patient>>
      BY <1>1 DEF vars, sndVars, taskVars, histVars
    <2>2. CourseNow
      BY <2>1 DEF RequestInv, Course, CourseNow
    <2>3. UNCHANGED <<Quiet, Asked, Answered>>
      BY <2>1 DEF Quiet, Asked, Answered, Whole, Holds, ExecutePosted, ExecuteTaken, FrameAbout
    <2>4. QED
      BY <2>1, <2>2, <2>3 DEF CourseNow
  <1>2. QED
    BY <1>1, CourseLine, CourseReceive, CourseTransmit, CourseTimer, CourseEvent, CourseFrame,
       CourseExecute, CourseSend
       DEF Next, Interrupt, Task, FrameBegins, FrameGoesOn

LEMMA RequestInvAlways == Spec => []RequestInv
  <1>1. Init => RequestInv
    BY ExclusiveInit, TypeInvInit, CourseInit DEF RequestInv
  <1>2. RequestInv /\ [Next]_vars => RequestInv'
    BY ExclusiveNext, TypeInvNext, CourseNext DEF RequestInv
  <1>3. QED
    BY <1>1, <1>2, PTL DEF Spec

\* Every variable of the slave keeps its type: in particular what is to be sent never
\* reaches beyond the frame, and the reply's name is always that of a frame.
THEOREM SlaveTyped == Spec => []TypeOK
  <1>1. RequestInv => TypeOK
    BY DEF RequestInv, TypeInv
  <1>2. QED
    BY <1>1, RequestInvAlways, PTL

\* With a master that waits for its answer, only the request addressed to this slave is
\* executed, whole and once, whatever frames of others and whatever lost bytes come before.
THEOREM ExecutedOnce == Spec => []RequestExecutedOnce
  <1>1. RequestInv => RequestExecutedOnce
    <2> SUFFICES ASSUME RequestInv, pc = "EV_EXECUTE", patient
                 PROVE  /\ pending # None /\ ~ran
                        /\ rcvOwn = (pending \in Own) /\ usLength = Size - 2
                        /\ Whole("req", pending)
      BY DEF RequestExecutedOnce, Whole
    <2>1. QED
      BY DEF RequestInv, Course, Quiet, Asked, Answered
  <1>2. QED
    BY <1>1, RequestInvAlways, PTL

\* With such a master, what is still to leave is the rest of the reply to its request.
THEOREM ReplyLeavesWhole == Spec => []ReplyIntact
  <1>1. RequestInv => ReplyIntact
    <2> SUFFICES ASSUME RequestInv, eSndState = "TX_XMIT", patient
                 PROVE  /\ ran /\ sndCur + sndCount = Size + 1
                        /\ \A i \in sndCur .. Size : ucRTUBuf[i] = <<"rep", pending, i>>
      BY DEF ReplyIntact
    <2>1. Answered /\ pc = "poll"
      BY DEF RequestInv, Course, Quiet, Asked, Answered
    <2>2. \A i \in sndCur .. Size : i \in 1 .. Size
      BY ModbusAssumption DEF RequestInv, TypeInv, TypeOK
    <2>3. QED
      BY <2>1, <2>2 DEF Answered, Whole
  <1>2. QED
    BY <1>1, RequestInvAlways, PTL
=============================================================================
