------------------------- MODULE ModbusRegs_proofs -------------------------
(***************************************************************************)
(* The callback's loops implement a register file, whatever the number of  *)
(* registers, the limits and the requests.  The invariant says how far a   *)
(* loop has come and what is behind it.                                    *)
(***************************************************************************)
EXTENDS ModbusRegs, TLAPS

Underway ==
    /\ mbStep = "write" =>
         /\ Verdict(mbRequest) = "none" /\ mbRequest.function # 3
         /\ KnowsRegisters(mbRequest.address, WriteCount(mbRequest))
         /\ WriteStart <= iRegIndex
         /\ iRegIndex + usNRegs = WriteStart + WriteCount(mbRequest)
    /\ mbStep = "read" =>
         LET w == Wanted(mbRequest)
         IN  /\ Verdict(mbRequest) = "none" /\ mbRequest.function \in {3, 23}
             /\ w.from + w.read <= REG_HOLDING_NREGS
             /\ iRegIndex = w.from + Len(valuesRead)
             /\ usNRegs = w.read - Len(valuesRead)
             /\ \A i \in 1 .. Len(valuesRead) :
                  valuesRead[i] = usRegHoldingBuf[w.from + i - 1]

RegsInv == MbTypeOK /\ Underway

-----------------------------------------------------------------------------
(* What the fields of a request are known to be.                           *)
LEMMA RequestFields ==
    ASSUME NEW r \in RegRequests
    PROVE  /\ r.function \in {0, 3, 6, 16, 23}
           /\ r.address \in Nat /\ r.count \in Nat
           /\ r.readAddress \in Nat /\ r.readCount \in Nat
           /\ r.words \in Seq(Nat) /\ Len(r.words) \in Nat /\ Len(r.words) > 0
           /\ WRITE_MAX <= Len(r.words) /\ READWRITE_MAX <= Len(r.words)
BY RegsAssumption DEF RegsAssumption

LEMMA OneFurther ==
    ASSUME NEW from \in Nat, NEW read \in Nat, NEW done \in Nat
    PROVE  /\ from + done + 1 = from + (done + 1)
           /\ read - done - 1 = read - (done + 1)
OBVIOUS

LEMMA WordIsNat ==
    ASSUME NEW s \in Seq(Nat), NEW k \in 1 .. Len(s)
    PROVE  s[k] \in Nat
OBVIOUS

LEMMA Constants ==
    /\ BYTE \in Nat /\ BYTE > 0 /\ REG_HOLDING_NREGS \in Nat /\ REG_HOLDING_NREGS > 0
    /\ READ_MAX \in Nat /\ WRITE_MAX \in Nat /\ READWRITE_MAX \in Nat
    /\ ClockFields \in Nat
BY RegsAssumption DEF RegsAssumption

LEMMA AddressIsNat ==
    ASSUME NEW wire \in Nat
    PROVE  RegAddress(wire) \in Nat
<1> DEFINE b == BYTE * BYTE
<1>1. b \in Nat /\ b > 0
  BY Constants
<1> HIDE DEF b
<1>2. (wire + 1) % b \in Nat
  BY <1>1
<1> QED BY <1>2 DEF RegAddress, b

(* The callback's two tests are that the registers from start on exist.    *)
LEMMA KnownIsInside ==
    ASSUME NEW wire \in Nat, NEW n \in Nat, n > 0
    PROVE  LET at == IF RegAddress(wire) = 0 THEN REG_HOLDING_NREGS
                     ELSE RegAddress(wire) - 1
           IN  /\ at \in Nat
               /\ KnowsRegisters(wire, n) <=> at + n <= REG_HOLDING_NREGS
               /\ KnowsRegisters(wire, n) => at = RegAddress(wire) - 1
BY AddressIsNat, Constants DEF KnowsRegisters

LEMMA KnownInRange ==
    ASSUME NEW wire \in Nat, NEW n \in Nat, KnowsRegisters(wire, n)
    PROVE  /\ RegAddress(wire) - 1 \in 0 .. REG_HOLDING_NREGS /\ n \in 0 .. REG_HOLDING_NREGS
           /\ (RegAddress(wire) - 1) + n <= REG_HOLDING_NREGS
<1> DEFINE a == RegAddress(wire)
<1>1. a \in Nat
  BY AddressIsNat
<1>2. a >= 1 /\ a + n <= 1 + REG_HOLDING_NREGS
  BY DEF KnowsRegisters
<1> HIDE DEF a
<1>3. /\ a - 1 \in 0 .. REG_HOLDING_NREGS /\ n \in 0 .. REG_HOLDING_NREGS
      /\ (a - 1) + n <= REG_HOLDING_NREGS
  BY <1>1, <1>2, Constants
<1> QED BY <1>3 DEF a

LEMMA NumbersAreNat ==
    ASSUME NEW r \in RegRequests
    PROVE  /\ ReadCount(r.count) \in Nat /\ WriteCount(r) \in Nat /\ r.readCount \in Nat
           /\ RegAddress(r.address) \in Nat /\ RegAddress(r.readAddress) \in Nat
           /\ Wanted(r).from \in Nat /\ Wanted(r).at \in Nat /\ Wanted(r).read \in Nat
<1>1. /\ r.address \in Nat /\ r.count \in Nat
      /\ r.readAddress \in Nat /\ r.readCount \in Nat
  BY RequestFields
<1>2. ReadCount(r.count) \in Nat
  BY <1>1, Constants DEF ReadCount
<1>3. WriteCount(r) \in Nat
  BY <1>1 DEF WriteCount
<1>4. RegAddress(r.address) \in Nat /\ RegAddress(r.readAddress) \in Nat
  BY <1>1, AddressIsNat
<1>5. \/ Wanted(r).read = ReadCount(r.count)
      \/ Wanted(r).read = r.readCount \/ Wanted(r).read = 0
  BY DEF Wanted
<1>6. Wanted(r).from \in Nat /\ Wanted(r).at \in Nat
  BY <1>4, Constants DEF Wanted
<1> QED BY <1>1, <1>2, <1>3, <1>4, <1>5, <1>6

(* A request to write, in the words of the abstraction.                    *)
LEMMA WantedToWrite ==
    ASSUME NEW r \in RegRequests, Verdict(r) = "none", r.function # 3
    PROVE  /\ r.function \in {6, 16, 23}
           /\ WriteCount(r) \in 1 .. Len(r.words)
           /\ Wanted(r).refusal = "none" /\ Wanted(r).silent = r.broadcast
           /\ Wanted(r).write = SubSeq(r.words, 1, WriteCount(r))
           /\ Len(Wanted(r).write) = WriteCount(r)
           /\ \A i \in 1 .. WriteCount(r) : Wanted(r).write[i] = r.words[i]
           /\ Wanted(r).at \in Nat
           /\ KnowsRegisters(r.address, WriteCount(r)) <=>
                Wanted(r).at + WriteCount(r) <= REG_HOLDING_NREGS
           /\ KnowsRegisters(r.address, WriteCount(r)) =>
                Wanted(r).at = RegAddress(r.address) - 1
           /\ r.function # 23 => Wanted(r).read = 0
<1>0. /\ r.function \in {0, 3, 6, 16, 23}
      /\ r.address \in Nat /\ r.count \in Nat
      /\ r.readAddress \in Nat /\ r.readCount \in Nat
      /\ Len(r.words) \in Nat /\ Len(r.words) > 0
      /\ WRITE_MAX <= Len(r.words) /\ READWRITE_MAX <= Len(r.words)
  BY RequestFields
<1>1. r.function \in {6, 16, 23}
  BY <1>0 DEF Verdict
<1>2. WriteCount(r) \in 1 .. Len(r.words)
  <2>1. CASE r.function = 6
    BY <2>1, <1>0 DEF WriteCount
  <2>2. CASE r.function = 16
    <3>1. r.count \in 1 .. WRITE_MAX
      BY <2>2 DEF Verdict
    <3> QED BY <3>1, <2>2, <1>0, Constants DEF WriteCount
  <2>3. CASE r.function = 23
    <3>1. r.count \in 1 .. READWRITE_MAX
      BY <2>3 DEF Verdict
    <3> QED BY <3>1, <2>3, <1>0, Constants DEF WriteCount
  <2> QED BY <1>1, <2>1, <2>2, <2>3
<1>3. /\ Wanted(r).refusal = "none" /\ Wanted(r).silent = r.broadcast
      /\ Wanted(r).write = SubSeq(r.words, 1, WriteCount(r))
      /\ r.function # 23 => Wanted(r).read = 0
  BY DEF Wanted
<1>4. /\ Len(SubSeq(r.words, 1, WriteCount(r))) = WriteCount(r)
      /\ \A i \in 1 .. WriteCount(r) : SubSeq(r.words, 1, WriteCount(r))[i] = r.words[i]
  BY <1>2, RequestFields
<1>5. /\ Wanted(r).at \in Nat
      /\ KnowsRegisters(r.address, WriteCount(r)) <=>
           Wanted(r).at + WriteCount(r) <= REG_HOLDING_NREGS
      /\ KnowsRegisters(r.address, WriteCount(r)) =>
           Wanted(r).at = RegAddress(r.address) - 1
  <2>1. WriteCount(r) \in Nat /\ WriteCount(r) > 0 /\ r.address \in Nat
    BY <1>0, <1>2
  <2>2. Wanted(r).at = IF RegAddress(r.address) = 0 THEN REG_HOLDING_NREGS
                       ELSE RegAddress(r.address) - 1
    BY DEF Wanted
  <2> QED BY <2>1, <2>2, KnownIsInside
<1> QED BY <1>1, <1>2, <1>3, <1>4, <1>5

(* A request to read, or the read of a combined one.                       *)
LEMMA WantedToRead ==
    ASSUME NEW r \in RegRequests, Verdict(r) = "none", r.function \in {3, 23},
           NEW wire, NEW n,
           \/ r.function = 3 /\ wire = r.address /\ n = ReadCount(r.count)
           \/ r.function = 23 /\ wire = r.readAddress /\ n = r.readCount
    PROVE  /\ n \in Nat /\ n > 0 /\ Wanted(r).read = n
           /\ Wanted(r).from \in Nat
           /\ Wanted(r).refusal = "none" /\ Wanted(r).silent = r.broadcast
           /\ r.function = 3 => Wanted(r).write = <<>>
           /\ KnowsRegisters(wire, n) <=> Wanted(r).from + n <= REG_HOLDING_NREGS
           /\ KnowsRegisters(wire, n) => Wanted(r).from = RegAddress(wire) - 1
<1>0. /\ r.function \in {0, 3, 6, 16, 23}
      /\ r.address \in Nat /\ r.count \in Nat
      /\ r.readAddress \in Nat /\ r.readCount \in Nat
      /\ Len(r.words) \in Nat /\ Len(r.words) > 0
      /\ WRITE_MAX <= Len(r.words) /\ READWRITE_MAX <= Len(r.words)
  BY RequestFields
<1>1. n \in Nat /\ n > 0 /\ wire \in Nat
  <2>1. CASE r.function = 3
    <3>1. ReadCount(r.count) \in 1 .. READ_MAX
      BY <2>1 DEF Verdict
    <3> QED BY <2>1, <3>1, <1>0, Constants
  <2>2. CASE r.function = 23
    <3>1. r.readCount \in 1 .. READ_MAX
      BY <2>2 DEF Verdict
    <3> QED BY <2>2, <3>1, <1>0, Constants
  <2> QED BY <2>1, <2>2
<1>2. /\ Wanted(r).read = n
      /\ Wanted(r).refusal = "none" /\ Wanted(r).silent = r.broadcast
      /\ r.function = 3 => Wanted(r).write = <<>>
  BY DEF Wanted
<1>3. Wanted(r).from = IF RegAddress(wire) = 0 THEN REG_HOLDING_NREGS
                       ELSE RegAddress(wire) - 1
  BY DEF Wanted
<1> QED BY <1>1, <1>2, <1>3, KnownIsInside

-----------------------------------------------------------------------------
LEMMA MbTypeHolds ==
    ASSUME RegsInv, MbNext PROVE MbTypeOK'
<1> USE DEF RegsInv, MbTypeOK
<1>0. REG_HOLDING_NREGS \in Nat /\ REG_HOLDING_NREGS > 0 /\ ClockFields \in Nat
  BY Constants
<1>n. /\ ReadCount(mbRequest.count) \in Nat /\ WriteCount(mbRequest) \in Nat
      /\ RegAddress(mbRequest.address) \in Nat
      /\ mbRequest.readCount \in Nat /\ RegAddress(mbRequest.readAddress) \in Nat
      /\ mbRequest.address \in Nat /\ mbRequest.readAddress \in Nat
  BY NumbersAreNat, RequestFields
<1>1. CASE Receive
  BY <1>1 DEF Receive
<1>2. CASE Rejected
  BY <1>2, <1>0 DEF Rejected, Respond
<1>3. CASE Reads
  <2>1. CASE ~KnowsRegisters(mbRequest.address, ReadCount(mbRequest.count))
    BY <1>3, <2>1, <1>0 DEF Reads, Respond
  <2>2. CASE KnowsRegisters(mbRequest.address, ReadCount(mbRequest.count))
    <3>1. ReadsFrom(mbRequest.address, ReadCount(mbRequest.count))
          /\ UNCHANGED <<usRegHoldingBuf, rtc, rtcStart>>
      BY <1>3, <2>2 DEF Reads
    <3>2. /\ RegAddress(mbRequest.address) - 1 \in 0 .. REG_HOLDING_NREGS
          /\ ReadCount(mbRequest.count) \in 0 .. REG_HOLDING_NREGS
      BY <1>n, <2>2, KnownInRange
    <3> QED BY <3>1, <3>2 DEF ReadsFrom
  <2> QED BY <2>1, <2>2
<1>4. CASE Writes
  <2>1. CASE ~KnowsRegisters(mbRequest.address, WriteCount(mbRequest))
    BY <1>4, <2>1, <1>0 DEF Writes, Respond
  <2>2. CASE KnowsRegisters(mbRequest.address, WriteCount(mbRequest))
    <3>1. /\ RegAddress(mbRequest.address) - 1 \in 0 .. REG_HOLDING_NREGS
          /\ WriteCount(mbRequest) \in 0 .. REG_HOLDING_NREGS
      BY <1>n, <2>2, KnownInRange
    <3> QED BY <1>4, <3>1, <2>2 DEF Writes
  <2> QED BY <2>1, <2>2
<1>5. CASE WriteRegister
  <2>1. /\ mbRequest \in RegRequests /\ Verdict(mbRequest) = "none"
        /\ mbRequest.function # 3 /\ WriteStart <= iRegIndex
        /\ KnowsRegisters(mbRequest.address, WriteCount(mbRequest))
        /\ iRegIndex + usNRegs = WriteStart + WriteCount(mbRequest) /\ usNRegs > 0
    BY <1>5 DEF WriteRegister, Underway
  <2>2. /\ WriteCount(mbRequest) \in 1 .. Len(mbRequest.words)
        /\ WriteStart + WriteCount(mbRequest) <= REG_HOLDING_NREGS /\ WriteStart \in Nat
        /\ mbRequest.words \in Seq(Nat) /\ Len(mbRequest.words) \in Nat
    <3>1. WriteCount(mbRequest) \in 1 .. Len(mbRequest.words)
      BY <2>1, WantedToWrite
    <3>2. /\ WriteStart \in 0 .. REG_HOLDING_NREGS
          /\ WriteStart + WriteCount(mbRequest) <= REG_HOLDING_NREGS
      BY <2>1, <1>n, KnownInRange DEF WriteStart
    <3>3. mbRequest.words \in Seq(Nat) /\ Len(mbRequest.words) \in Nat
      BY <2>1, RequestFields
    <3> QED BY <3>1, <3>2, <3>3
  <2>3. iRegIndex - WriteStart + 1 \in 1 .. Len(mbRequest.words)
    BY <2>1, <2>2
  <2>4. mbRequest.words[iRegIndex - WriteStart + 1] \in Nat
    BY ONLY <2>2, <2>3, WordIsNat
  <2>5. iRegIndex + 1 \in 0 .. REG_HOLDING_NREGS /\ usNRegs - 1 \in 0 .. REG_HOLDING_NREGS
    BY <2>1, <2>2, <1>0
  <2> QED BY <1>5, <2>4, <2>5 DEF WriteRegister
<1>6. CASE AllWritten
  <2>1. rtc' \in [0 .. ClockFields - 1 -> Nat] /\ rtcStart' \in 0 .. REG_HOLDING_NREGS
    <3>0. mbStep = "write"
      BY <1>6 DEF AllWritten
    <3>1. WriteStart \in 0 .. REG_HOLDING_NREGS
      <4>1. KnowsRegisters(mbRequest.address, WriteCount(mbRequest))
        BY <3>0 DEF Underway
      <4> QED BY <4>1, <1>n, KnownInRange DEF WriteStart
    <3>2. rtc' \in [0 .. ClockFields - 1 -> 0 .. BYTE - 1] /\ rtcStart' = WriteStart
      BY <1>6 DEF AllWritten, SetClock
    <3> QED BY <3>1, <3>2, Constants
  <2>f. UNCHANGED usRegHoldingBuf
    BY <1>6 DEF AllWritten
  <2>2. CASE Respond("written", <<>>) \/ Respond("illegalAddress", <<>>)
    <3>1. /\ mbStep' = "idle" /\ UNCHANGED mbRequest
          /\ iRegIndex' = 0 /\ usNRegs' = 0 /\ valuesRead' = <<>>
      BY <2>2 DEF Respond
    <3> QED BY <3>1, <2>f, <2>1, <1>0
  <2>3. CASE /\ mbRequest.function = 23
             /\ KnowsRegisters(mbRequest.readAddress, mbRequest.readCount)
             /\ ReadsFrom(mbRequest.readAddress, mbRequest.readCount)
    <3>1. /\ RegAddress(mbRequest.readAddress) - 1 \in 0 .. REG_HOLDING_NREGS
          /\ mbRequest.readCount \in 0 .. REG_HOLDING_NREGS
      <4>1. KnowsRegisters(mbRequest.readAddress, mbRequest.readCount)
        BY <2>3
      <4> QED BY <1>n, <4>1, KnownInRange
    <3>2. ReadsFrom(mbRequest.readAddress, mbRequest.readCount)
      BY <2>3
    <3> QED BY <2>f, <2>1, <3>1, <3>2 DEF ReadsFrom
  <2> QED BY <1>6, <2>2, <2>3 DEF AllWritten
<1>7. CASE ReadRegister
  <2>1. iRegIndex < REG_HOLDING_NREGS
    <3>1. Wanted(mbRequest).from \in Nat /\ Wanted(mbRequest).read \in Nat
      BY NumbersAreNat
    <3> QED BY <1>7, <1>0, <3>1 DEF ReadRegister, Underway
  <2>2. usRegHoldingBuf[iRegIndex] \in Nat
    BY <2>1, <1>0
  <2> QED BY <1>7, <2>1, <2>2, <1>0 DEF ReadRegister
<1>8. CASE AllRead
  BY <1>8, <1>0 DEF AllRead, Respond
<1> QED BY <1>1, <1>2, <1>3, <1>4, <1>5, <1>6, <1>7, <1>8 DEF MbNext

-----------------------------------------------------------------------------
(* A handler that starts to read stands before the first register.         *)
LEMMA ReadBegins ==
    ASSUME RegsInv, NEW wire, NEW n, ReadsFrom(wire, n), KnowsRegisters(wire, n),
           Verdict(mbRequest) = "none",
           \/ mbRequest.function = 3 /\ wire = mbRequest.address
                /\ n = ReadCount(mbRequest.count)
           \/ mbRequest.function = 23 /\ wire = mbRequest.readAddress
                /\ n = mbRequest.readCount
    PROVE  Underway'
<1>1. mbRequest \in RegRequests
  BY DEF RegsInv, MbTypeOK
<1>2. /\ n \in Nat /\ Wanted(mbRequest).read = n
      /\ Wanted(mbRequest).from \in Nat
      /\ Wanted(mbRequest).from = RegAddress(wire) - 1
      /\ Wanted(mbRequest).from + n <= REG_HOLDING_NREGS
  BY <1>1, WantedToRead
<1>3. /\ mbStep' = "read" /\ iRegIndex' = RegAddress(wire) - 1 /\ usNRegs' = n
      /\ valuesRead' = <<>> /\ mbRequest' = mbRequest
  BY DEF ReadsFrom
<1>4. Len(valuesRead') = 0
  BY <1>3
<1> QED BY <1>2, <1>3, <1>4 DEF Underway

LEMMA UnderwayHolds ==
    ASSUME RegsInv, MbNext PROVE Underway'
<1>0. /\ mbRequest \in RegRequests /\ REG_HOLDING_NREGS \in Nat /\ usNRegs \in Nat
      /\ iRegIndex \in Nat /\ valuesRead \in Seq(Nat) /\ Underway
  BY Constants DEF RegsInv, MbTypeOK
<1>n. /\ ReadCount(mbRequest.count) \in Nat /\ WriteCount(mbRequest) \in Nat
      /\ RegAddress(mbRequest.address) \in Nat
      /\ Wanted(mbRequest).from \in Nat /\ Wanted(mbRequest).read \in Nat
  BY <1>0, NumbersAreNat
<1>1. CASE Receive
  BY <1>1 DEF Receive, Underway
<1>2. CASE Rejected
  BY <1>2 DEF Rejected, Respond, Underway
<1>3. CASE Reads
  <2>1. CASE ~KnowsRegisters(mbRequest.address, ReadCount(mbRequest.count))
    BY <1>3, <2>1 DEF Reads, Respond, Underway
  <2>2. CASE KnowsRegisters(mbRequest.address, ReadCount(mbRequest.count))
    BY <1>3, <2>2, ReadBegins DEF Reads
  <2> QED BY <2>1, <2>2
<1>4. CASE Writes
  <2>1. CASE ~KnowsRegisters(mbRequest.address, WriteCount(mbRequest))
    BY <1>4, <2>1 DEF Writes, Respond, Underway
  <2>2. CASE KnowsRegisters(mbRequest.address, WriteCount(mbRequest))
    <3>1. /\ mbStep' = "write" /\ mbRequest' = mbRequest
          /\ iRegIndex' = WriteStart /\ usNRegs' = WriteCount(mbRequest)
          /\ Verdict(mbRequest) = "none" /\ mbRequest.function # 3
      BY <1>4, <2>2 DEF Writes, WriteStart
    <3>2. WriteStart' = WriteStart /\ WriteStart \in Int
      BY <3>1, <1>n DEF WriteStart
    <3> QED BY <3>1, <3>2, <2>2, <1>n DEF Underway
  <2> QED BY <2>1, <2>2
<1>5. CASE WriteRegister
  <2>1. /\ mbStep = "write" /\ mbStep' = mbStep /\ mbRequest' = mbRequest
        /\ iRegIndex' = iRegIndex + 1 /\ usNRegs' = usNRegs - 1
    BY <1>5 DEF WriteRegister
  <2>2. WriteStart' = WriteStart /\ WriteStart \in Int
    BY <2>1, <1>n DEF WriteStart
  <2> QED BY <2>1, <2>2, <1>0, <1>n DEF Underway
<1>6. CASE AllWritten
  <2>1. CASE Respond("written", <<>>) \/ Respond("illegalAddress", <<>>)
    BY <2>1 DEF Respond, Underway
  <2>2. CASE /\ mbRequest.function = 23
             /\ KnowsRegisters(mbRequest.readAddress, mbRequest.readCount)
             /\ ReadsFrom(mbRequest.readAddress, mbRequest.readCount)
    <3>1. Verdict(mbRequest) = "none"
      BY <1>6, <1>0 DEF AllWritten, Underway
    <3> QED BY <2>2, <3>1, ReadBegins
  <2> QED BY <1>6, <2>1, <2>2 DEF AllWritten
<1>7. CASE ReadRegister
  <2>1. /\ mbStep = "read" /\ mbStep' = mbStep /\ mbRequest' = mbRequest /\ usNRegs > 0
        /\ iRegIndex' = iRegIndex + 1 /\ usNRegs' = usNRegs - 1
        /\ usRegHoldingBuf' = usRegHoldingBuf
        /\ valuesRead' = Append(valuesRead, usRegHoldingBuf[iRegIndex])
    BY <1>7 DEF ReadRegister
  <2> DEFINE w == Wanted(mbRequest)
  <2>2. /\ Verdict(mbRequest) = "none" /\ mbRequest.function \in {3, 23}
        /\ w.from + w.read <= REG_HOLDING_NREGS
        /\ iRegIndex = w.from + Len(valuesRead)
        /\ usNRegs = w.read - Len(valuesRead)
        /\ \A i \in 1 .. Len(valuesRead) :
             valuesRead[i] = usRegHoldingBuf[w.from + i - 1]
    BY <2>1, <1>0 DEF Underway
  <2>3. w' = w
    BY <2>1
  <2>4. /\ w.from \in Nat /\ w.read \in Nat /\ Len(valuesRead) \in Nat
    BY <1>0, <1>n
  <2> HIDE DEF w
  <2>5. Len(valuesRead') = Len(valuesRead) + 1
    BY <2>1, <1>0
  <2>6. \A i \in 1 .. Len(valuesRead') :
           valuesRead'[i] = usRegHoldingBuf'[w.from + i - 1]
    <3> SUFFICES ASSUME NEW i \in 1 .. Len(valuesRead) + 1
                 PROVE  valuesRead'[i] = usRegHoldingBuf[w.from + i - 1]
      BY <2>1, <2>5
    <3>1. CASE i = Len(valuesRead) + 1
      <4>1. valuesRead'[i] = usRegHoldingBuf[iRegIndex]
        BY <3>1, <2>1, <1>0
      <4>2. iRegIndex = w.from + i - 1
        BY <3>1, <2>2, <2>4
      <4> QED BY <4>1, <4>2
    <3>2. CASE i # Len(valuesRead) + 1
      <4>1. i \in 1 .. Len(valuesRead)
        BY <3>2, <2>4
      <4>2. valuesRead'[i] = valuesRead[i]
        BY <4>1, <2>1, <1>0
      <4> QED BY <4>1, <4>2, <2>2
    <3> QED BY <3>1, <3>2
  <2>7. /\ iRegIndex' = w.from + Len(valuesRead')
        /\ usNRegs' = w.read - Len(valuesRead')
    <3>1. /\ iRegIndex' = w.from + Len(valuesRead) + 1
          /\ usNRegs' = w.read - Len(valuesRead) - 1
      BY <2>1, <2>2
    <3>2. /\ iRegIndex' = w.from + (Len(valuesRead) + 1)
          /\ usNRegs' = w.read - (Len(valuesRead) + 1)
      BY ONLY <3>1, <2>4, OneFurther
    <3>3. Len(valuesRead') = Len(valuesRead) + 1
      BY <2>5
    <3> QED BY ONLY <3>2, <3>3
  <2>8. /\ Verdict(mbRequest') = "none" /\ mbRequest'.function \in {3, 23}
        /\ mbStep' = "read"
    BY <2>1, <2>2
  <2>9. w' = Wanted(mbRequest')
    BY DEF w
  <2> QED BY <2>2, <2>3, <2>6, <2>7, <2>8, <2>9 DEF Underway
<1>8. CASE AllRead
  BY <1>8 DEF AllRead, Respond, Underway
<1> QED BY <1>1, <1>2, <1>3, <1>4, <1>5, <1>6, <1>7, <1>8 DEF MbNext

LEMMA RegsInvariant == MbSpec => []RegsInv
<1>1. MbInit => RegsInv
  <2> SUFFICES ASSUME MbInit PROVE RegsInv
    OBVIOUS
  <2>1. REG_HOLDING_NREGS \in Nat /\ ClockFields \in Nat
    BY Constants
  <2>2. MbTypeOK
    BY <2>1 DEF MbInit, MbTypeOK
  <2>3. Underway
    BY DEF MbInit, Underway
  <2> QED BY <2>2, <2>3 DEF RegsInv
<1>2. RegsInv /\ [MbNext]_mbVars => RegsInv'
  <2> SUFFICES ASSUME RegsInv, [MbNext]_mbVars PROVE RegsInv'
    OBVIOUS
  <2>1. CASE MbNext
    BY <2>1, MbTypeHolds, UnderwayHolds DEF RegsInv
  <2>2. CASE UNCHANGED mbVars
    <3>1. MbTypeOK'
      BY <2>2 DEF mbVars, RegsInv, MbTypeOK
    <3>2. Underway'
      BY <2>2 DEF mbVars, RegsInv, Underway, WriteStart
    <3> QED BY <3>1, <3>2 DEF RegsInv
  <2> QED BY <2>1, <2>2
<1> QED BY <1>1, <1>2, PTL DEF MbSpec

-----------------------------------------------------------------------------
(* The states between the beginning and the end of a loop.                 *)
LEMMA NothingPledged ==
    ASSUME RegsInv, mbStep # "write"
    PROVE  Pledged = usRegHoldingBuf
BY DEF RegsInv, MbTypeOK, Pledged

(* Only what is shown of the state matters to the abstraction.             *)
LEMMA ShownUnchanged ==
    ASSUME RegsInv, RegsInv', mbStep # "write", mbStep' # "write",
           UNCHANGED <<usRegHoldingBuf, rtc, rtcStart>>
    PROVE  Pledged' = Pledged /\ ClockShown' = ClockShown
BY DEF Pledged, ClockShown

LEMMA RefinesInit == MbInit => File!Init
<1> SUFFICES ASSUME MbInit PROVE File!Init
  OBVIOUS
<1>1. Pledged = [k \in 0 .. REG_HOLDING_NREGS - 1 |-> 0]
  BY DEF MbInit, Pledged
<1>2. ClockShown = [f \in 0 .. ClockFields - 1 |-> Unset]
  <2>1. \A f \in 0 .. ClockFields - 1 : REG_HOLDING_NREGS + f >= REG_HOLDING_NREGS
    BY Constants
  <2> QED BY <2>1 DEF MbInit, ClockShown
<1>3. StageShown = "idle" /\ mbReply = NoReply
  BY DEF MbInit, StageShown
<1> QED BY <1>1, <1>2, <1>3 DEF File!Init, NoReply

LEMMA ReceiveAsks ==
    ASSUME RegsInv, RegsInv', Receive PROVE File!Ask
<1>1. Pledged' = Pledged /\ ClockShown' = ClockShown
  BY ShownUnchanged DEF Receive
<1>2. StageShown = "idle" /\ StageShown' = "asked"
  BY DEF Receive, StageShown
<1>3. mbReply' = NoReply
  BY DEF Receive
<1> QED BY <1>1, <1>2, <1>3 DEF File!Ask, NoReply

(* A response that leaves what is shown alone is an answer.                *)
LEMMA ResponseShown ==
    ASSUME NEW kind, NEW values, Respond(kind, values),
           Pledged' = Pledged, ClockShown' = ClockShown
    PROVE  File!Answer(kind, values)
<1>1. mbStep' = "idle" /\ mbRequest' = mbRequest
  BY DEF Respond
<1>2. StageShown' = "idle"
  BY <1>1 DEF StageShown
<1>3. Wanted(mbRequest)' = Wanted(mbRequest)
  BY <1>1
<1>4. Wanted(mbRequest).silent = mbRequest.broadcast
  BY DEF Wanted
<1>5. mbReply' = IF Wanted(mbRequest).silent THEN [kind |-> "none", values |-> <<>>]
                 ELSE [kind |-> kind, values |-> values]
  BY <1>4 DEF Respond, NoReply
<1> QED BY <1>2, <1>3, <1>5 DEF File!Answer

LEMMA ResponseAnswers ==
    ASSUME RegsInv, RegsInv', NEW kind, NEW values, Respond(kind, values),
           mbStep # "write", UNCHANGED <<usRegHoldingBuf, rtc, rtcStart>>
    PROVE  File!Answer(kind, values)
<1>1. mbStep' # "write"
  BY DEF Respond
<1> QED BY <1>1, ShownUnchanged, ResponseShown

LEMMA RejectedRefuses ==
    ASSUME RegsInv, RegsInv', Rejected PROVE File!Refuse
<1>1. /\ mbStep = "execute" /\ Verdict(mbRequest) # "none"
      /\ Respond(Verdict(mbRequest), <<>>)
      /\ UNCHANGED <<usRegHoldingBuf, rtc, rtcStart>>
  BY DEF Rejected
<1>2. Wanted(mbRequest).refusal = Verdict(mbRequest)
  BY DEF Wanted
<1>3. File!Answer(Verdict(mbRequest), <<>>)
  BY <1>1, ResponseAnswers
<1>4. StageShown = "asked"
  BY <1>1 DEF StageShown
<1> QED BY <1>1, <1>2, <1>3, <1>4 DEF File!Refuse

(* The beginning of a read changes nothing the master could see.           *)
LEMMA ReadsReports ==
    ASSUME RegsInv, RegsInv', Reads PROVE File!Report \/ UNCHANGED File!rvars
<1> DEFINE n == ReadCount(mbRequest.count)
<1>1. /\ mbStep = "execute" /\ Verdict(mbRequest) = "none" /\ mbRequest.function = 3
      /\ UNCHANGED <<usRegHoldingBuf, rtc, rtcStart>>
  BY DEF Reads
<1>2. /\ n \in Nat /\ n > 0 /\ Wanted(mbRequest).read = n
      /\ Wanted(mbRequest).refusal = "none" /\ Wanted(mbRequest).write = <<>>
      /\ KnowsRegisters(mbRequest.address, n) <=>
           Wanted(mbRequest).from + n <= REG_HOLDING_NREGS
  BY <1>1, WantedToRead DEF RegsInv, MbTypeOK
<1>3. StageShown = "asked"
  BY <1>1 DEF StageShown
<1>4. CASE ~KnowsRegisters(mbRequest.address, n)
  <2>1. Respond("illegalAddress", <<>>)
    BY <1>4 DEF Reads
  <2>2. File!Answer("illegalAddress", <<>>)
    BY <2>1, <1>1, ResponseAnswers
  <2> QED BY <2>2, <1>2, <1>3, <1>4 DEF File!Report, File!Inside
<1>5. CASE KnowsRegisters(mbRequest.address, n)
  <2>1. ReadsFrom(mbRequest.address, n)
    BY <1>5 DEF Reads
  <2>2. mbStep' = "read" /\ mbRequest' = mbRequest /\ mbReply' = mbReply
    BY <2>1 DEF ReadsFrom
  <2>3. Pledged' = Pledged /\ ClockShown' = ClockShown
    BY <2>2, <1>1, ShownUnchanged
  <2>4. StageShown' = "asked"
    BY <2>2, <1>1 DEF StageShown
  <2> QED BY <2>2, <2>3, <2>4, <1>3 DEF File!rvars
<1> QED BY <1>4, <1>5

LEMMA ReadRegisterStutters ==
    ASSUME RegsInv, RegsInv', ReadRegister PROVE UNCHANGED File!rvars
<1>1. /\ mbStep = "read" /\ mbStep' = "read" /\ mbRequest' = mbRequest
      /\ mbReply' = mbReply /\ UNCHANGED <<usRegHoldingBuf, rtc, rtcStart>>
  BY DEF ReadRegister
<1>2. Pledged' = Pledged /\ ClockShown' = ClockShown
  BY <1>1, ShownUnchanged
<1>3. StageShown' = StageShown
  BY <1>1 DEF StageShown
<1> QED BY <1>1, <1>2, <1>3 DEF File!rvars

LEMMA AllReadReports ==
    ASSUME RegsInv, RegsInv', AllRead PROVE File!Report
<1> DEFINE w == Wanted(mbRequest)
<1>1. /\ mbStep = "read" /\ usNRegs = 0 /\ Respond("values", valuesRead)
      /\ UNCHANGED <<usRegHoldingBuf, rtc, rtcStart>>
  BY DEF AllRead
<1>2. /\ mbRequest \in RegRequests /\ Verdict(mbRequest) = "none"
      /\ mbRequest.function \in {3, 23}
      /\ w.from + w.read <= REG_HOLDING_NREGS
      /\ usNRegs = w.read - Len(valuesRead) /\ valuesRead \in Seq(Nat)
      /\ \A i \in 1 .. Len(valuesRead) :
           valuesRead[i] = usRegHoldingBuf[w.from + i - 1]
  BY <1>1 DEF RegsInv, MbTypeOK, Underway
<1>3. /\ w.read \in Nat /\ w.read > 0 /\ w.refusal = "none"
      /\ mbRequest.function = 3 => w.write = <<>>
  BY <1>2, WantedToRead
<1> HIDE DEF w
<1>4. Len(valuesRead) = w.read
  BY <1>1, <1>2, <1>3
<1>5. Pledged = usRegHoldingBuf
  BY <1>1, NothingPledged
<1>6. valuesRead = [i \in 1 .. w.read |-> Pledged[w.from + i - 1]]
  <2>1. valuesRead = [i \in 1 .. Len(valuesRead) |-> valuesRead[i]]
    BY <1>2
  <2> QED BY <2>1, <1>2, <1>4, <1>5
<1>7. File!Answer("values", File!Values(w.from, w.read))
  BY <1>1, <1>6, ResponseAnswers DEF File!Values
<1>8. \/ StageShown = "written"
      \/ StageShown = "asked" /\ w.write = <<>>
  BY <1>1, <1>2, <1>3 DEF StageShown
<1> QED BY <1>2, <1>3, <1>7, <1>8 DEF File!Report, File!Inside, w

(* The first step of the callback's loop is the whole write.               *)
LEMMA WritesCommits ==
    ASSUME RegsInv, RegsInv', Writes PROVE File!Commit \/ File!RefuseWrite
<1> DEFINE w == Wanted(mbRequest)
           n == WriteCount(mbRequest)
<1>1. /\ mbStep = "execute" /\ Verdict(mbRequest) = "none" /\ mbRequest.function # 3
      /\ UNCHANGED <<usRegHoldingBuf, rtc, rtcStart>> /\ mbRequest \in RegRequests
  BY DEF Writes, RegsInv, MbTypeOK
<1>2. /\ n \in 1 .. Len(mbRequest.words) /\ w.refusal = "none"
      /\ Len(w.write) = n /\ w.write = SubSeq(mbRequest.words, 1, n)
      /\ \A i \in 1 .. n : w.write[i] = mbRequest.words[i]
      /\ w.at \in Nat
      /\ KnowsRegisters(mbRequest.address, n) <=> w.at + n <= REG_HOLDING_NREGS
      /\ KnowsRegisters(mbRequest.address, n) => w.at = WriteStart
  BY <1>1, WantedToWrite DEF WriteStart
<1>3. n \in Nat /\ n > 0
  BY <1>2, <1>1, RequestFields
<1>4. w.write # <<>>
  BY <1>2, <1>3
<1>5. StageShown = "asked"
  BY <1>1 DEF StageShown
<1>6. CASE ~KnowsRegisters(mbRequest.address, n)
  <2>1. Respond("illegalAddress", <<>>)
    BY <1>6 DEF Writes
  <2>2. File!Answer("illegalAddress", <<>>)
    BY <2>1, <1>1, ResponseAnswers
  <2> QED BY <2>2, <1>2, <1>4, <1>5, <1>6 DEF File!RefuseWrite, File!Inside
<1>7. CASE KnowsRegisters(mbRequest.address, n)
  <2>1. /\ mbStep' = "write" /\ mbRequest' = mbRequest /\ mbReply' = mbReply
        /\ iRegIndex' = WriteStart /\ usNRegs' = n
    BY <1>7 DEF Writes, WriteStart
  <2>2. WriteStart' = WriteStart /\ WriteStart = w.at
    BY <2>1, <1>2, <1>7 DEF WriteStart
  <2>3. Pledged = usRegHoldingBuf
    BY <1>1, NothingPledged
  <2> HIDE DEF w, n
  <2>4. Pledged' = File!Overwritten(Pledged, w.at, w.write)
    <3>1. \A k \in 0 .. REG_HOLDING_NREGS - 1 :
            k \in w.at .. w.at + n - 1 => k - w.at + 1 \in 1 .. n
      BY <1>2, <1>3
    <3>2. Pledged' = [k \in 0 .. REG_HOLDING_NREGS - 1 |->
                        IF k \in w.at .. w.at + n - 1
                        THEN mbRequest.words[k - w.at + 1] ELSE usRegHoldingBuf[k]]
      BY <2>1, <2>2, <1>1 DEF Pledged
    <3>3. File!Overwritten(Pledged, w.at, w.write)
            = [k \in 0 .. REG_HOLDING_NREGS - 1 |->
                 IF k \in w.at .. w.at + n - 1
                 THEN w.write[k - w.at + 1] ELSE usRegHoldingBuf[k]]
      BY <2>3, <1>2 DEF File!Overwritten
    <3>4. \A k \in 0 .. REG_HOLDING_NREGS - 1 : k \in w.at .. w.at + n - 1 =>
            w.write[k - w.at + 1] = mbRequest.words[k - w.at + 1]
      BY <3>1, <1>2
    <3> QED BY <3>2, <3>3, <3>4
  <2>5. ClockShown' = File!Window(Pledged', w.at)
    <3>1. ClockShown' = [f \in 0 .. ClockFields - 1 |->
                           IF w.at + f >= REG_HOLDING_NREGS THEN Unset
                           ELSE Pledged'[w.at + f] % BYTE]
      BY <2>1, <2>2 DEF ClockShown
    <3>2. \A f \in 0 .. ClockFields - 1 :
            w.at + f >= REG_HOLDING_NREGS <=> ~(w.at + f < REG_HOLDING_NREGS)
      BY <1>2, Constants
    <3> QED BY <3>1, <3>2 DEF File!Window
  <2>6. StageShown' = "written"
    BY <2>1 DEF StageShown
  <2>7. w' = w
    BY <2>1 DEF w
  <2> QED BY <1>2, <1>4, <1>5, <1>7, <2>1, <2>4, <2>5, <2>6, <2>7
          DEF File!Commit, File!Inside, w
<1> QED BY <1>6, <1>7

LEMMA WriteRegisterStutters ==
    ASSUME RegsInv, RegsInv', WriteRegister PROVE UNCHANGED File!rvars
<1>1. /\ mbStep = "write" /\ mbStep' = "write" /\ mbRequest' = mbRequest
      /\ mbReply' = mbReply /\ UNCHANGED <<rtc, rtcStart>> /\ usNRegs > 0
      /\ iRegIndex' = iRegIndex + 1 /\ usNRegs' = usNRegs - 1
      /\ usRegHoldingBuf' = [usRegHoldingBuf EXCEPT
                               ![iRegIndex] = mbRequest.words[iRegIndex - WriteStart + 1]]
  BY DEF WriteRegister
<1>2. WriteStart' = WriteStart
  BY <1>1 DEF WriteStart
<1>3. /\ usRegHoldingBuf \in [0 .. REG_HOLDING_NREGS - 1 -> Nat]
      /\ iRegIndex \in Nat /\ usNRegs \in Nat
  BY Constants DEF RegsInv, MbTypeOK
<1>4. Pledged' = Pledged
  <2>1. Pledged' = [k \in 0 .. REG_HOLDING_NREGS - 1 |->
                      IF k \in iRegIndex + 1 .. iRegIndex + usNRegs - 1
                      THEN mbRequest.words[k - WriteStart + 1]
                      ELSE usRegHoldingBuf'[k]]
    <3>1. iRegIndex + 1 + (usNRegs - 1) - 1 = iRegIndex + usNRegs - 1
      BY <1>3
    <3> QED BY <1>1, <1>2, <3>1 DEF Pledged
  <2>2. Pledged = [k \in 0 .. REG_HOLDING_NREGS - 1 |->
                     IF k \in iRegIndex .. iRegIndex + usNRegs - 1
                     THEN mbRequest.words[k - WriteStart + 1]
                     ELSE usRegHoldingBuf[k]]
    BY <1>1 DEF Pledged
  <2>3. ASSUME NEW k \in 0 .. REG_HOLDING_NREGS - 1
        PROVE  Pledged'[k] = Pledged[k]
    <3>1. CASE k = iRegIndex
      <4>1. /\ k \in iRegIndex .. iRegIndex + usNRegs - 1
            /\ k \notin iRegIndex + 1 .. iRegIndex + usNRegs - 1
        BY <3>1, <1>1, <1>3
      <4>2. usRegHoldingBuf'[k] = mbRequest.words[k - WriteStart + 1]
        BY <3>1, <1>1, <1>3
      <4> QED BY <4>1, <4>2, <2>1, <2>2
    <3>2. CASE k # iRegIndex
      <4>1. k \in iRegIndex .. iRegIndex + usNRegs - 1
              <=> k \in iRegIndex + 1 .. iRegIndex + usNRegs - 1
        BY <3>2, <1>1, <1>3
      <4>2. usRegHoldingBuf'[k] = usRegHoldingBuf[k]
        BY <3>2, <1>1, <1>3
      <4> QED BY <4>1, <4>2, <2>1, <2>2
    <3> QED BY <3>1, <3>2
  <2> QED BY <2>1, <2>2, <2>3
<1>5. ClockShown' = ClockShown /\ StageShown' = StageShown
  BY <1>1, <1>2, <1>4 DEF ClockShown, StageShown
<1> QED BY <1>1, <1>4, <1>5 DEF File!rvars

(* The end of the loop shows what its beginning has pledged.               *)
LEMMA AllWrittenConfirms ==
    ASSUME RegsInv, RegsInv', AllWritten
    PROVE  File!Confirm \/ File!Report \/ UNCHANGED File!rvars
<1> DEFINE w == Wanted(mbRequest)
<1>1. /\ mbStep = "write" /\ usNRegs = 0 /\ SetClock(WriteStart)
      /\ UNCHANGED usRegHoldingBuf
  BY DEF AllWritten
<1>2. /\ mbRequest \in RegRequests /\ Verdict(mbRequest) = "none"
      /\ mbRequest.function # 3 /\ iRegIndex \in Nat
      /\ usRegHoldingBuf \in [0 .. REG_HOLDING_NREGS - 1 -> Nat]
  BY <1>1, Constants DEF RegsInv, MbTypeOK, Underway
<1>3. /\ w.refusal = "none" /\ mbRequest.function \in {6, 16, 23}
      /\ mbRequest.function # 23 => w.read = 0
  BY <1>2, WantedToWrite
<1>4. StageShown = "written"
  BY <1>1 DEF StageShown
<1>5. mbStep' \in {"idle", "read"} /\ mbRequest' = mbRequest
  BY DEF AllWritten, Respond, ReadsFrom
<1>6. Pledged = usRegHoldingBuf /\ Pledged' = usRegHoldingBuf
  <2>1. \A k \in 0 .. REG_HOLDING_NREGS - 1 :
          k \notin iRegIndex .. iRegIndex + usNRegs - 1
    BY <1>1, <1>2
  <2>2. usRegHoldingBuf = [k \in 0 .. REG_HOLDING_NREGS - 1 |-> usRegHoldingBuf[k]]
    BY <1>2
  <2>3. Pledged = usRegHoldingBuf
    BY <2>1, <2>2 DEF Pledged
  <2>4. Pledged' = usRegHoldingBuf
    BY <2>2, <1>1, <1>5 DEF Pledged
  <2> QED BY <2>3, <2>4
<1>7. ClockShown' = ClockShown
  <2>1. ClockShown = [f \in 0 .. ClockFields - 1 |->
                        IF WriteStart + f >= REG_HOLDING_NREGS THEN Unset
                        ELSE usRegHoldingBuf[WriteStart + f] % BYTE]
    BY <1>1, <1>6 DEF ClockShown
  <2>2. ClockShown' = [f \in 0 .. ClockFields - 1 |->
                         IF WriteStart + f >= REG_HOLDING_NREGS THEN Unset
                         ELSE rtc'[f]]
    BY <1>1, <1>5 DEF ClockShown, SetClock
  <2>3. WriteStart \in Int
    BY <1>2, NumbersAreNat DEF WriteStart
  <2>4. \A f \in 0 .. ClockFields - 1 : ~(WriteStart + f >= REG_HOLDING_NREGS) =>
          rtc'[f] = usRegHoldingBuf[WriteStart + f] % BYTE
    BY <2>3, <1>1, Constants DEF SetClock
  <2> QED BY <2>1, <2>2, <2>4
<1>8. CASE mbRequest.function # 23
  <2>1. Respond("written", <<>>)
    BY <1>8 DEF AllWritten
  <2>2. File!Answer("written", <<>>)
    BY <2>1, <1>6, <1>7, ResponseShown
  <2> QED BY <2>2, <1>3, <1>4, <1>8 DEF File!Confirm
<1>9. CASE mbRequest.function = 23
  <2>1. /\ w.read \in Nat /\ w.read > 0
        /\ KnowsRegisters(mbRequest.readAddress, mbRequest.readCount) <=>
             w.from + w.read <= REG_HOLDING_NREGS
    BY <1>2, <1>9, WantedToRead
  <2>2. CASE ~KnowsRegisters(mbRequest.readAddress, mbRequest.readCount)
    <3>1. Respond("illegalAddress", <<>>)
      BY <1>9, <2>2 DEF AllWritten
    <3>2. File!Answer("illegalAddress", <<>>)
      BY <3>1, <1>6, <1>7, ResponseShown
    <3> QED BY <3>2, <2>1, <2>2, <1>3, <1>4 DEF File!Report, File!Inside
  <2>3. CASE KnowsRegisters(mbRequest.readAddress, mbRequest.readCount)
    <3>1. mbStep' = "read" /\ mbReply' = mbReply
      BY <1>9, <2>3 DEF AllWritten, ReadsFrom
    <3>2. StageShown' = "written"
      BY <3>1, <1>5, <1>9 DEF StageShown
    <3> QED BY <3>1, <3>2, <1>4, <1>5, <1>6, <1>7 DEF File!rvars
  <2> QED BY <2>2, <2>3
<1> QED BY <1>8, <1>9

-----------------------------------------------------------------------------
(* For every request of every master, and any number of registers: the     *)
(* handlers and the callback's loops are steps of a register file.         *)
THEOREM HandlersAreARegisterFile == MbSpec => ImplementsRegisterFile
<1>1. RegsInv /\ RegsInv' /\ [MbNext]_mbVars => [File!Next]_(File!rvars)
  <2> SUFFICES ASSUME RegsInv, RegsInv', [MbNext]_mbVars
               PROVE  File!Next \/ UNCHANGED File!rvars
    OBVIOUS
  <2>1. CASE Receive
    BY <2>1, ReceiveAsks DEF File!Next
  <2>2. CASE Rejected
    BY <2>2, RejectedRefuses DEF File!Next
  <2>3. CASE Reads
    BY <2>3, ReadsReports DEF File!Next
  <2>4. CASE Writes
    BY <2>4, WritesCommits DEF File!Next
  <2>5. CASE WriteRegister
    BY <2>5, WriteRegisterStutters
  <2>6. CASE AllWritten
    BY <2>6, AllWrittenConfirms DEF File!Next
  <2>7. CASE ReadRegister
    BY <2>7, ReadRegisterStutters
  <2>8. CASE AllRead
    BY <2>8, AllReadReports DEF File!Next
  <2>9. CASE UNCHANGED mbVars
    BY <2>9 DEF mbVars, File!rvars, Pledged, ClockShown, StageShown, WriteStart
  <2> QED BY <2>1, <2>2, <2>3, <2>4, <2>5, <2>6, <2>7, <2>8, <2>9 DEF MbNext
<1> QED BY <1>1, RefinesInit, RegsInvariant, PTL
        DEF MbSpec, ImplementsRegisterFile, File!Spec
=============================================================================
