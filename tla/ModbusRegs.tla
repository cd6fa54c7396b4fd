---------------------------- MODULE ModbusRegs -----------------------------
(***************************************************************************)
(* The slave executes a request: eMBPoll's dispatch (mb.c), the functions  *)
(* for holding registers (mbfuncholding.c) and the application's callback  *)
(* (app_modbus.c), one register after the other, down to the copy of a     *)
(* write into the real-time clock.  A request is given by its fields; the  *)
(* words are what the frame buffer holds behind them, which is what was    *)
(* sent and then what earlier frames left.  The other functions' callbacks *)
(* know no register.                                                       *)
(***************************************************************************)
EXTENDS Integers, Sequences

CONSTANTS
    BYTE,               \* 256
    REG_HOLDING_NREGS,  \* 40
    READ_MAX, WRITE_MAX, READWRITE_MAX, \* limits of the counts: 125, 120, 121
    ClockFields,        \* date and time: 7
    RegRequests         \* the requests of a master

ASSUME RegsAssumption ==
    /\ BYTE \in Nat \ {0} /\ REG_HOLDING_NREGS \in Nat \ {0}
    /\ REG_HOLDING_NREGS < BYTE * BYTE
    /\ READ_MAX \in Nat /\ WRITE_MAX \in Nat /\ READWRITE_MAX \in Nat
    /\ ClockFields \in Nat
    /\ \A r \in RegRequests :
         /\ r.function \in {0, 3, 6, 16, 23}     \* 0: one without a handler
         /\ r.fits \in BOOLEAN       \* the length suits the function
         /\ r.broadcast \in BOOLEAN
         /\ r.address \in Nat /\ r.count \in Nat /\ r.byteCount \in Nat
         /\ r.readAddress \in Nat /\ r.readCount \in Nat
         /\ r.address < BYTE * BYTE /\ r.readAddress < BYTE * BYTE
         /\ r.words \in Seq(Nat) /\ Len(r.words) > 0
         /\ WRITE_MAX <= Len(r.words) /\ READWRITE_MAX <= Len(r.words)

VARIABLES
    usRegHoldingBuf,
    rtc,          \* date and time as set
    rtcStart,     \* history: the register the last write began at
    mbStep,       \* where the slave stands
    mbRequest,    \* the frame at hand
    iRegIndex, usNRegs, \* the callback's index and count
    valuesRead,   \* what it has put into the frame
    mbReply       \* the reply to it

mbVars == <<usRegHoldingBuf, rtc, rtcStart, mbStep, mbRequest, iRegIndex, usNRegs,
            valuesRead, mbReply>>

NoReply == [kind |-> "none", values |-> <<>>]

MbInit ==
    /\ usRegHoldingBuf = [k \in 0 .. REG_HOLDING_NREGS - 1 |-> 0]
    /\ rtc = [f \in 0 .. ClockFields - 1 |-> 0]
    /\ rtcStart = REG_HOLDING_NREGS
    /\ mbStep = "idle" /\ mbRequest \in RegRequests
    /\ iRegIndex = 0 /\ usNRegs = 0 /\ valuesRead = <<>>
    /\ mbReply = NoReply

-----------------------------------------------------------------------------
(* The fields as the functions take them.                                  *)

(* Bytes are put together to 16 bits, and addresses count from 1.          *)
RegAddress(wire) == (wire + 1) % (BYTE * BYTE)

(* usRegCount is assigned its low byte, not or-ed (mbfuncholding.c:186).   *)
ReadCount(count) == count % BYTE

KnowsRegisters(wire, n) ==
    /\ RegAddress(wire) >= 1
    /\ RegAddress(wire) + n <= 1 + REG_HOLDING_NREGS

WriteCount(r) == IF r.function = 6 THEN 1 ELSE r.count

(* What a handler finds before it calls the callback, "none" when it calls it. *)
(* A combined request that is too short is no error: it is sent back.      *)
Verdict(r) ==
    CASE r.function = 0  -> "illegal"
      [] r.function = 3  -> IF r.fits /\ ReadCount(r.count) \in 1 .. READ_MAX
                            THEN "none" ELSE "illegalValue"
      [] r.function = 6  -> IF r.fits THEN "none" ELSE "illegalValue"
      [] r.function = 16 -> IF /\ r.fits
                               /\ r.count \in 1 .. WRITE_MAX
                               /\ r.byteCount = (2 * r.count) % BYTE
                            THEN "none" ELSE "illegalValue"
      [] r.function = 23 -> IF ~r.fits THEN "echo"
                            ELSE IF /\ r.readCount \in 1 .. READ_MAX
                                    /\ r.count \in 1 .. READWRITE_MAX
                                    /\ r.byteCount = 2 * r.count
                            THEN "none" ELSE "illegalValue"

-----------------------------------------------------------------------------
Receive ==
    /\ mbStep = "idle"
    /\ mbRequest' \in RegRequests
    /\ mbStep' = "execute"
    /\ mbReply' = NoReply
    /\ UNCHANGED <<usRegHoldingBuf, rtc, rtcStart, iRegIndex, usNRegs, valuesRead>>

(* The exception or the response is sent, unless the request was broadcast. *)
Respond(kind, values) ==
    /\ mbStep' = "idle"
    /\ mbReply' = IF mbRequest.broadcast THEN NoReply
                  ELSE [kind |-> kind, values |-> values]
    /\ iRegIndex' = 0 /\ usNRegs' = 0 /\ valuesRead' = <<>>
    /\ UNCHANGED mbRequest

ReadsFrom(wire, n) ==
    /\ mbStep' = "read"
    /\ iRegIndex' = RegAddress(wire) - 1
    /\ usNRegs' = n
    /\ valuesRead' = <<>>
    /\ UNCHANGED <<mbRequest, mbReply>>

Rejected ==
    /\ mbStep = "execute" /\ Verdict(mbRequest) # "none"
    /\ Respond(Verdict(mbRequest), <<>>)
    /\ UNCHANGED <<usRegHoldingBuf, rtc, rtcStart>>

(* eMBFuncReadHoldingRegister calls back.                                  *)
Reads ==
    LET n == ReadCount(mbRequest.count) IN
    /\ mbStep = "execute" /\ Verdict(mbRequest) = "none" /\ mbRequest.function = 3
    /\ IF KnowsRegisters(mbRequest.address, n)
         THEN ReadsFrom(mbRequest.address, n)
         ELSE Respond("illegalAddress", <<>>)
    /\ UNCHANGED <<usRegHoldingBuf, rtc, rtcStart>>

(* The three functions that write call back.                               *)
Writes ==
    LET n == WriteCount(mbRequest) IN
    /\ mbStep = "execute" /\ Verdict(mbRequest) = "none" /\ mbRequest.function # 3
    /\ IF KnowsRegisters(mbRequest.address, n)
         THEN /\ mbStep' = "write"
              /\ iRegIndex' = RegAddress(mbRequest.address) - 1
              /\ usNRegs' = n
              /\ UNCHANGED <<mbRequest, valuesRead, mbReply>>
         ELSE Respond("illegalAddress", <<>>)
    /\ UNCHANGED <<usRegHoldingBuf, rtc, rtcStart>>

WriteStart == RegAddress(mbRequest.address) - 1

WriteRegister ==
    /\ mbStep = "write" /\ usNRegs > 0
    /\ usRegHoldingBuf' = [usRegHoldingBuf EXCEPT
                             ![iRegIndex] = mbRequest.words[iRegIndex - WriteStart + 1]]
    /\ iRegIndex' = iRegIndex + 1
    /\ usNRegs' = usNRegs - 1
    /\ UNCHANGED <<rtc, rtcStart, mbStep, mbRequest, valuesRead, mbReply>>

(* Seven registers from start on become date and time; what lies behind the *)
(* last register may be anything.                                          *)
SetClock(start) ==
    /\ rtcStart' = start
    /\ rtc' \in [0 .. ClockFields - 1 -> 0 .. BYTE - 1]
    /\ \A f \in 0 .. ClockFields - 1 :
         start + f < REG_HOLDING_NREGS => rtc'[f] = usRegHoldingBuf[start + f] % BYTE

(* Mutant: the clock is set from where the loop has ended.                 *)
WrittenElsewhere ==
    /\ mbStep = "write" /\ usNRegs = 0
    /\ SetClock(iRegIndex)
    /\ IF mbRequest.function = 23
         THEN IF KnowsRegisters(mbRequest.readAddress, mbRequest.readCount)
              THEN ReadsFrom(mbRequest.readAddress, mbRequest.readCount)
              ELSE Respond("illegalAddress", <<>>)
         ELSE Respond("written", <<>>)
    /\ UNCHANGED usRegHoldingBuf

(* A write is confirmed, or goes on with the read of a combined request.   *)
AllWritten ==
    /\ mbStep = "write" /\ usNRegs = 0
    /\ SetClock(WriteStart)
    /\ IF mbRequest.function = 23
         THEN IF KnowsRegisters(mbRequest.readAddress, mbRequest.readCount)
              THEN ReadsFrom(mbRequest.readAddress, mbRequest.readCount)
              ELSE Respond("illegalAddress", <<>>)
         ELSE Respond("written", <<>>)
    /\ UNCHANGED usRegHoldingBuf

ReadRegister ==
    /\ mbStep = "read" /\ usNRegs > 0
    /\ valuesRead' = Append(valuesRead, usRegHoldingBuf[iRegIndex])
    /\ iRegIndex' = iRegIndex + 1
    /\ usNRegs' = usNRegs - 1
    /\ UNCHANGED <<usRegHoldingBuf, rtc, rtcStart, mbStep, mbRequest, mbReply>>

AllRead ==
    /\ mbStep = "read" /\ usNRegs = 0
    /\ Respond("values", valuesRead)
    /\ UNCHANGED <<usRegHoldingBuf, rtc, rtcStart>>

MbNext ==
    \/ Receive
    \/ Rejected \/ Reads \/ Writes
    \/ WriteRegister \/ AllWritten \/ ReadRegister \/ AllRead

MbSpec == MbInit /\ [][MbNext]_mbVars

-----------------------------------------------------------------------------
MbTypeOK ==
    /\ usRegHoldingBuf \in [0 .. REG_HOLDING_NREGS - 1 -> Nat]
    /\ rtc \in [0 .. ClockFields - 1 -> Nat]
    /\ rtcStart \in 0 .. REG_HOLDING_NREGS
    /\ mbStep \in {"idle", "execute", "write", "read"}
    /\ mbRequest \in RegRequests
    /\ iRegIndex \in 0 .. REG_HOLDING_NREGS
    /\ usNRegs \in 0 .. REG_HOLDING_NREGS
    /\ valuesRead \in Seq(Nat)

(* The registers once the write at hand has run to its end.                *)
Pledged ==
    [k \in 0 .. REG_HOLDING_NREGS - 1 |->
        IF mbStep = "write" /\ k \in iRegIndex .. iRegIndex + usNRegs - 1
        THEN mbRequest.words[k - WriteStart + 1]
        ELSE usRegHoldingBuf[k]]

Unset == -1

ClockShown ==
    LET start == IF mbStep = "write" THEN WriteStart ELSE rtcStart
    IN  [f \in 0 .. ClockFields - 1 |->
           IF start + f >= REG_HOLDING_NREGS THEN Unset
           ELSE IF mbStep = "write" THEN Pledged[start + f] % BYTE
           ELSE rtc[f]]

Wanted(r) ==
    [refusal |-> Verdict(r),
     write   |-> IF r.function = 3 \/ Verdict(r) # "none" THEN <<>>
                 ELSE SubSeq(r.words, 1, WriteCount(r)),
     at      |-> IF RegAddress(r.address) = 0 THEN REG_HOLDING_NREGS
                 ELSE RegAddress(r.address) - 1,
     read    |-> CASE r.function = 3  -> ReadCount(r.count)
                   [] r.function = 23 -> r.readCount
                   [] OTHER -> 0,
     from    |-> LET wire == IF r.function = 3 THEN r.address ELSE r.readAddress
                 IN  IF RegAddress(wire) = 0 THEN REG_HOLDING_NREGS
                     ELSE RegAddress(wire) - 1,
     silent  |-> r.broadcast]

StageShown ==
    CASE mbStep = "idle"    -> "idle"
      [] mbStep = "execute" -> "asked"
      [] mbStep = "write"   -> "written"
      [] mbStep = "read"    -> IF mbRequest.function = 3 THEN "asked" ELSE "written"

File == INSTANCE RegisterFile WITH
    N <- REG_HOLDING_NREGS, Fields <- ClockFields, Base <- BYTE, Unknown <- Unset,
    registers <- Pledged, clock <- ClockShown, request <- Wanted(mbRequest),
    stage <- StageShown, reply <- mbReply

(* The callback's loops over single registers and the copy into the clock  *)
(* (app_modbus.c:83-135) are a register file to the master: writes are all *)
(* or nothing, what is read is what was written, and the clock holds the   *)
(* seven registers from the start of the last write, wherever that was.    *)
ImplementsRegisterFile == File!Spec
=============================================================================
