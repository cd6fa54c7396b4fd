----------------------------- MODULE Board_proofs -----------------------------
(***************************************************************************)
(* Theorems about the board's smaller parts, for every value of their      *)
(* constants: about the run-time clock, the serial console and the damage  *)
(* analyser, each for its own specification, and that the board that runs  *)
(* them beside the others keeps the types of all.  The slide show and the  *)
(* registers, whose proofs are longer, have modules of their own.          *)
(***************************************************************************)
EXTENDS Board, SlideShow_proofs, ModbusRegs_proofs, SequenceTheorems, TLAPS

-----------------------------------------------------------------------------
(* The run-time clock: ReadingIsTime for every period of the counter, any  *)
(* length of run and any periods that other parts give TIM2.               *)

Periods == ulInterruptCount * ulReloadCount
Copied  == ulSlowCount * ulReloadCount
Pending == IF UIF THEN ulReloadCount ELSE 0

(* The counter, the counted wraps and the pending one make up the time.        *)
Clock == now = CNT + Periods + Pending

(* What the first reading and the copy of the count know of the call's begin.  *)
(* With the interrupt masked a pending wrap stays pending until the return.    *)
Halfway ==
    /\ ulCounts0 < ulReloadCount
    /\ reader # "idle" => begun <= now
    /\ reader = "slow" => begun + CNT <= now + ulCounts0
    /\ reader = "count" =>
         /\ Copied <= Periods
         /\ begun - ulCounts0 <= Copied + ulReloadCount
         /\ ~(masked /\ UIF) => begun - ulCounts0 <= Copied

TimeInv == HrTypeOK /\ (Own => Clock /\ Halfway /\ ReadingIsTime)

LEMMA OneMore == \A n, r \in Nat : (n + 1) * r = n * r + r /\ n * r \in Nat
OBVIOUS

LEMMA Later ==
    \A b, c, d, n, e \in Nat : d <= c + 1 /\ b + c <= n + e => b + d <= (n + 1) + e
OBVIOUS

LEMMA Sizes ==
    ASSUME HrTypeOK
    PROVE  Periods \in Nat /\ Copied \in Nat /\ Pending \in Nat /\ ulReloadCount \in Nat
BY OneMore, HrTimeAssumption DEF HrTypeOK, Periods, Copied, Pending

LEMMA TypesStep == HrTypeOK /\ [HrNext]_hrVars => HrTypeOK'
<1> SUFFICES ASSUME HrTypeOK, [HrNext]_hrVars PROVE HrTypeOK'
  OBVIOUS
<1> USE HrTimeAssumption DEF HrTypeOK
<1>1. CASE Count
  <2>1. UIF' \in BOOLEAN
    BY <1>1 DEF Count, Wraps
  <2>2. CNT' \in 0 .. period' - 1 /\ now' \in Nat
    BY <1>1 DEF Count, Wraps
  <2>3. UNCHANGED <<period, others, masked, missed, reader, ulCounts0, ulInterruptCount,
                    ulSlowCount, reading, begun>>
    BY <1>1 DEF Count
  <2>4. masked' \in BOOLEAN /\ missed' \in BOOLEAN
    BY <2>3
  <2> QED BY <2>1, <2>2, <2>3, <2>4
<1>2. CASE TIM2_IRQHandler
  <2>1. UIF' \in BOOLEAN /\ masked' \in BOOLEAN /\ missed' \in BOOLEAN
    BY <1>2 DEF TIM2_IRQHandler
  <2>2. UNCHANGED <<CNT, period, others, reader, ulCounts0, ulSlowCount, reading, now, begun>>
    BY <1>2 DEF TIM2_IRQHandler
  <2>3. ulInterruptCount' \in Nat
    BY <1>2 DEF TIM2_IRQHandler
  <2> QED BY <2>1, <2>2, <2>3
<1>3. CASE SetMask
  BY <1>3 DEF SetMask
<1>4. CASE GetTime
  BY <1>4 DEF GetTime
<1>5. CASE ReadSlowCount
  BY <1>5 DEF ReadSlowCount
<1>6. CASE ReadCountAgain
  <2>1. ulSlowCount * ulReloadCount + CNT \in Nat
    BY Sizes DEF Copied
  <2> QED BY <1>6, <2>1 DEF ReadCountAgain, Returned
<1>7. CASE ReadFirstAgain
  BY <1>7 DEF ReadFirstAgain
<1>8. CASE UNCHANGED hrVars
  BY <1>8 DEF hrVars
<1>9. ASSUME NEW p \in others, ProgramTIM2(p) PROVE HrTypeOK'
  <2>1. p \in OtherPeriods /\ p \in Nat /\ p > 0 /\ others' \subseteq OtherPeriods
    BY <1>9 DEF ProgramTIM2
  <2>2. /\ period' = p /\ CNT' \in 0 .. p - 1
    BY <1>9, <2>1 DEF ProgramTIM2
  <2>3. UIF' \in BOOLEAN /\ masked' \in BOOLEAN /\ missed' \in BOOLEAN
    BY <1>9 DEF ProgramTIM2
  <2>4. UNCHANGED <<reader, ulCounts0, ulInterruptCount, ulSlowCount, reading, now, begun>>
    BY <1>9 DEF ProgramTIM2
  <2> QED BY <2>1, <2>2, <2>3, <2>4
<1> QED BY <1>1, <1>2, <1>3, <1>4, <1>5, <1>6, <1>7, <1>8, <1>9 DEF HrNext

(* Once another part has taken TIM2, it is the clock's no more.             *)
LEMMA StaysTaken ==
    ASSUME HrTypeOK, [HrNext]_hrVars, Own'
    PROVE  Own /\ period = ulReloadCount /\ \A p \in others : ~ProgramTIM2(p)
<1>1. \A p \in others : ~ProgramTIM2(p)
  BY HrTimeAssumption DEF ProgramTIM2, Own, HrTypeOK
<1>2. period' = period
  BY <1>1 DEF HrNext, Count, TIM2_IRQHandler, SetMask, GetTime, ReadSlowCount, ReadCountAgain,
        ReadFirstAgain, hrVars
<1> QED BY <1>1, <1>2 DEF Own

LEMMA TimeStep == TimeInv /\ [HrNext]_hrVars /\ Own' => Clock' /\ Halfway' /\ ReadingIsTime'
<1> SUFFICES ASSUME TimeInv, [HrNext]_hrVars, Own'
             PROVE  Clock' /\ Halfway' /\ ReadingIsTime'
  OBVIOUS
<1>a. Own /\ period = ulReloadCount /\ \A p \in others : ~ProgramTIM2(p)
  BY StaysTaken DEF TimeInv
<1>b. HrTypeOK /\ Clock /\ Halfway /\ ReadingIsTime /\ CNT \in 0 .. ulReloadCount - 1
  BY <1>a DEF TimeInv, HrTypeOK
<1> USE <1>a, <1>b, HrTimeAssumption DEF Clock, Halfway, ReadingIsTime, HrTypeOK
<1>0. Periods \in Nat /\ Copied \in Nat /\ Pending \in Nat
  BY Sizes
<1>1. CASE Count
  <2>1. Periods' = Periods /\ Copied' = Copied
    BY <1>1 DEF Count, Periods, Copied
  <2>0. now' = now + 1
    BY <1>1 DEF Count
  <2>2. UNCHANGED <<masked, reader, ulCounts0, reading, begun, missed>>
    BY <1>1 DEF Count
  <2>3. now = CNT + Periods + Pending /\ CNT \in Nat /\ now \in Nat
    OBVIOUS
  <2>4. UIF => UIF'
    BY <1>1 DEF Count
  <2>5. Clock'
    <3>1. CASE Wraps
      <4>1. UIF' /\ ~UIF /\ CNT' = 0 /\ CNT = ulReloadCount - 1
        BY <1>1, <3>1 DEF Count, Wraps
      <4>2. Pending = 0 /\ Pending' = ulReloadCount
        BY <4>1 DEF Pending
      <4> HIDE DEF Clock, Halfway, ReadingIsTime, HrTypeOK
      <4> QED BY <1>0, <2>0, <2>1, <2>3, <4>1, <4>2 DEF Clock
    <3>2. CASE ~Wraps
      <4>1. (UIF' <=> UIF) /\ CNT' = CNT + 1
        BY <1>1, <3>2 DEF Count
      <4>2. Pending' = Pending
        BY <4>1 DEF Pending
      <4> HIDE DEF Clock, Halfway, ReadingIsTime, HrTypeOK
      <4> QED BY <1>0, <2>0, <2>1, <2>3, <4>1, <4>2 DEF Clock
    <3> QED BY <3>1, <3>2
  <2>6. Halfway'
    <3>1. (masked' <=> masked) /\ (~(masked /\ UIF') => ~(masked /\ UIF))
      BY <2>2, <2>4
    <3>2. begun \in Nat /\ now \in Nat /\ CNT \in Nat /\ ulCounts0 \in Nat
      OBVIOUS
    <3>3. reader' # "idle" => begun' <= now'
      BY <2>0, <2>2, <3>2
    <3>4. ASSUME reader' = "slow" PROVE begun' + CNT' <= now' + ulCounts0'
      <4>1. CNT' \in Nat /\ CNT' <= CNT + 1
        BY <1>1 DEF Count, Wraps
      <4>2. begun + CNT <= now + ulCounts0
        BY <2>2, <3>4
      <4>3. begun' = begun /\ ulCounts0' = ulCounts0
        BY <2>2
      <4>4. begun + CNT' <= (now + 1) + ulCounts0
        BY <3>2, <4>1, <4>2, Later
      <4> QED BY <2>0, <4>3, <4>4
    <3>5. reader' = "count" =>
            /\ Copied' <= Periods'
            /\ begun' - ulCounts0' <= Copied' + ulReloadCount
      BY <2>1, <2>2
    <3>6. reader' = "count" /\ ~(masked' /\ UIF') => begun' - ulCounts0' <= Copied'
      BY <2>1, <2>2, <3>1
    <3>7. ulCounts0' < ulReloadCount
      BY <2>2
    <3> QED BY <3>3, <3>4, <3>5, <3>6, <3>7
  <2>7. ReadingIsTime'
    BY <2>0, <2>2
  <2> QED BY <2>5, <2>6, <2>7
<1>2. CASE TIM2_IRQHandler
  <2>1. Periods' = Periods + ulReloadCount /\ Copied' = Copied
    BY <1>2, OneMore DEF TIM2_IRQHandler, Periods, Copied
  <2> QED BY <1>0, <1>2, <2>1 DEF TIM2_IRQHandler, Pending
<1>3. CASE SetMask
  <2>1. Periods' = Periods /\ Copied' = Copied
    BY <1>3 DEF SetMask, Periods, Copied
  <2> QED BY <1>0, <1>3, <2>1 DEF SetMask, Pending
<1>4. CASE GetTime
  <2>1. Periods' = Periods /\ Copied' = Copied
    BY <1>4 DEF GetTime, Periods, Copied
  <2> QED BY <1>0, <1>4, <2>1 DEF GetTime, Pending
<1>5. CASE ReadSlowCount
  <2>1. Periods' = Periods /\ Copied' = Periods
    BY <1>5 DEF ReadSlowCount, Periods, Copied
  <2> QED BY <1>0, <1>5, <2>1 DEF ReadSlowCount, Runs, Pending
<1>6. CASE ReadCountAgain
  <2>1. Periods' = Periods /\ Copied' = Copied
    BY <1>6 DEF ReadCountAgain, Periods, Copied
  <2>2. CASE CNT >= ulCounts0
    <3>1. reading' = Copied + CNT
      BY <1>6, <2>2 DEF ReadCountAgain, Returned, Copied
    <3> QED BY <1>0, <1>6, <2>1, <2>2, <3>1 DEF ReadCountAgain, Returned, Runs, Pending
  <2>3. CASE ~(CNT >= ulCounts0)
    BY <1>0, <1>6, <2>1, <2>3 DEF ReadCountAgain, Pending
  <2> QED BY <2>2, <2>3
<1>7. CASE ReadFirstAgain
  <2>1. Periods' = Periods /\ Copied' = Copied
    BY <1>7 DEF ReadFirstAgain, Periods, Copied
  <2> QED BY <1>0, <1>7, <2>1 DEF ReadFirstAgain, Pending
<1>8. CASE UNCHANGED hrVars
  <2>1. Periods' = Periods /\ Copied' = Copied
    BY <1>8 DEF hrVars, Periods, Copied
  <2> QED BY <1>0, <1>8, <2>1 DEF hrVars, Pending
<1> QED BY <1>1, <1>2, <1>3, <1>4, <1>5, <1>6, <1>7, <1>8, <1>a DEF HrNext

LEMMA TimeInitially == HrInit => TimeInv
<1> SUFFICES ASSUME HrInit PROVE TimeInv
  OBVIOUS
<1>1. Periods = 0 /\ Pending = 0 /\ ulReloadCount > 0
  BY HrTimeAssumption DEF HrInit, Periods, Pending
<1>2. HrTypeOK
  <2>1. UIF \in BOOLEAN /\ masked \in BOOLEAN /\ missed \in BOOLEAN
        /\ others \subseteq OtherPeriods
    BY DEF HrInit
  <2> QED BY <2>1, HrTimeAssumption DEF HrInit, HrTypeOK
<1>3. Clock /\ Halfway
  BY <1>1 DEF HrInit, Clock, Halfway
<1>4. ~missed /\ begun = 0 /\ reading = 0 /\ now = 0
  BY DEF HrInit
<1>5. ReadingIsTime
  BY <1>4 DEF ReadingIsTime
<1> QED BY <1>2, <1>3, <1>5 DEF TimeInv

(* ullGetHighResolutionTime reads the time without a lock (hr_gettime.c:52-76),*)
(* for every reload count, as long as no other part programs TIM2.             *)
THEOREM ClockReadsTime == HrSpec => []ReadingIsTime
<1>1. TimeInv /\ [HrNext]_hrVars => TimeInv'
  BY TypesStep, TimeStep DEF TimeInv
<1>2. TimeInv => ReadingIsTime
  BY DEF TimeInv, ReadingIsTime
<1> QED BY <1>1, <1>2, TimeInitially, PTL DEF HrSpec

-----------------------------------------------------------------------------
(* The serial console: OutputLossIsLate for any number of writers, keys and *)
(* expired waits.  What is conserved is a debt: the texts refused so far,   *)
(* and the ends of transmission still to come or given too early, are paid  *)
(* for by the waits that expired.  It needs the mutual exclusion of the     *)
(* putters, which the welcome message alone may break.                      *)

Kinds ==
    /\ stage \in [Threads -> Stages]
    /\ step \in [Threads -> {"put", "locked", "wait"}]
    /\ xTxSemaphore \in {0, 1}
    /\ late \in Nat /\ dropped \in Nat

(* Who puts a text on the port holds the mutex, but for the welcome message.   *)
PutterHolds ==
    /\ \A t \in Threads : step[t] # "put" => Puts(t)
    /\ \A t \in Threads : Puts(t) /\ stage[t] # "welcome" => xTxMutex = t
    /\ \A w \in Writers : stage[w] # "welcome"

OneInside == \A t, u \in Threads : step[t] # "put" /\ step[u] # "put" => t = u

Waiting == \E t \in Threads : step[t] = "wait"
Busy    == IF sending = "none" THEN 0 ELSE 1
Waits   == IF Waiting THEN 1 ELSE 0

Debt ==
    /\ IsLocked => sending = "none"
    /\ Waiting => Busy = 1 \/ xTxSemaphore = 1
    /\ dropped + Busy + xTxSemaphore - Waits <= late

PortInv == ~unguarded => OneInside /\ Debt /\ (garbled => late > 0)

LateInv == Kinds /\ PutterHolds /\ PortInv

-----------------------------------------------------------------------------
(* The port idle but for the change of stages: nothing is owed to anybody.     *)
LEMMA PortKept ==
    ASSUME PortInv, UNCHANGED <<uartPort, step, garbled>>
    PROVE  PortInv'
BY DEF PortInv, OneInside, Debt, IsLocked, Waiting, Busy, Waits, uartPort

(* The end of a wait pays the debt it leaves.                                  *)
LEMMA WaitPays ==
    ASSUME Kinds, PortInv, NEW t \in Threads, WaitEnds(t),
           garbled' => garbled \/ sending # "none"
    PROVE  PortInv'
<1> SUFFICES ASSUME ~unguarded'
             PROVE  OneInside' /\ Debt' /\ (garbled' => late' > 0)
  BY DEF PortInv
<1>1. ~unguarded /\ OneInside /\ Debt /\ (garbled => late > 0)
  BY DEF WaitEnds, PortInv
<1>2. /\ step[t] = "wait" /\ Waiting /\ Waits = 1
      /\ step' = [step EXCEPT ![t] = "put"]
      /\ sending' = sending /\ dropped' = dropped
  BY DEF WaitEnds, Waiting, Waits
<1>3. \A u \in Threads : step'[u] = "put"
  BY <1>1, <1>2 DEF OneInside, Kinds
<1>4. OneInside' /\ ~Waiting' /\ ~IsLocked'
  BY <1>3 DEF OneInside, Waiting, IsLocked
<1>5. Waits' = 0 /\ Busy' = Busy /\ Busy \in {0, 1}
  BY <1>2, <1>4 DEF Waits, Busy
<1>6. /\ late' \in Nat /\ xTxSemaphore' = 0
      /\ late' = late + 1 - xTxSemaphore
  BY DEF WaitEnds, Kinds
<1>7. dropped + Busy + xTxSemaphore - 1 <= late
  BY <1>1, <1>2 DEF Debt
<1>8. dropped' + Busy' <= late'
  BY <1>2, <1>5, <1>6, <1>7 DEF Kinds
<1>9. Debt'
  <2>1. dropped' \in Nat /\ Busy' \in {0, 1}
    BY <1>2, <1>5 DEF Kinds
  <2>2. dropped' + Busy' + xTxSemaphore' - Waits' <= late'
    BY <1>5, <1>6, <1>8, <2>1
  <2> QED
    BY <1>4, <2>2 DEF Debt
<1>10. ASSUME garbled' PROVE late' > 0
  <2>1. CASE garbled
    <3>1. late > 0 /\ late' >= late /\ late' \in Nat /\ late \in Nat
      BY <1>1, <2>1 DEF WaitEnds, Kinds
    <3> QED
      BY <3>1
  <2>2. CASE sending # "none"
    <3>1. Busy' = 1 /\ dropped' \in Nat
      BY <1>2, <1>5, <2>2 DEF Busy, Kinds
    <3> QED
      BY <1>5, <1>6, <1>8, <3>1
  <2> QED
    BY <1>10, <2>1, <2>2
<1> QED
  BY <1>4, <1>9, <1>10

-----------------------------------------------------------------------------
(* A text is handed to the HAL, or refused: a debt paid with a text.           *)
LEMMA TransmitPays ==
    ASSUME Kinds, PutterHolds, PortInv, NEW t \in Threads, Transmit(t)
    PROVE  PortInv'
<1> SUFFICES ASSUME ~unguarded'
             PROVE  OneInside' /\ Debt' /\ (garbled' => late' > 0)
  BY DEF PortInv
<1>1. ~unguarded /\ OneInside /\ Debt /\ (garbled => late > 0)
  BY DEF Transmit, PortInv
<1>2. \A u \in Threads : step[u] # "put" => u = t
  BY DEF Transmit, PutterHolds, Threads
<1>3. \A u \in Threads : step[u] = "put"
  BY <1>2 DEF Transmit
<1>4. ~IsLocked /\ ~Waiting /\ Waits = 0
  BY <1>3 DEF IsLocked, Waiting, Waits
<1>5. /\ \A u \in Threads : u # t => step'[u] = "put"
      /\ Busy' = Busy /\ Busy \in {0, 1}
      /\ UNCHANGED <<xTxSemaphore, sending, late, garbled>>
  BY <1>3 DEF Transmit, Kinds, Busy
<1>6. OneInside'
  BY <1>5 DEF OneInside
<1>7. dropped + Busy + xTxSemaphore <= late
  BY <1>1, <1>4, <1>5 DEF Debt, Kinds
<1>8. CASE sending # "none"
  <2>1. step'[t] = "wait" /\ dropped' = dropped + 1 /\ Busy' = 1
    BY <1>8, <1>5 DEF Transmit, Kinds, Busy
  <2>2. ~IsLocked' /\ Waits' = 1
    BY <1>5, <2>1 DEF IsLocked, Waits, Waiting
  <2>3. dropped' + Busy' + xTxSemaphore' - Waits' <= late'
    BY <1>5, <1>7, <2>1, <2>2 DEF Kinds
  <2> QED
    BY <1>1, <1>5, <1>6, <2>1, <2>2, <2>3 DEF Debt
<1>9. CASE sending = "none"
  <2>1. step'[t] = "locked" /\ dropped' = dropped
    BY <1>4, <1>9 DEF Transmit, Kinds
  <2>2. ~Waiting' /\ Waits' = 0
    BY <1>5, <2>1 DEF Waits, Waiting
  <2>3. dropped' + Busy' + xTxSemaphore' - Waits' <= late'
    BY <1>5, <1>7, <2>1, <2>2 DEF Kinds
  <2> QED
    BY <1>1, <1>5, <1>6, <1>9, <2>2, <2>3 DEF Debt
<1> QED
  BY <1>8, <1>9

LEMMA StartOwes ==
    ASSUME Kinds, PortInv, NEW t \in Threads, TransmitStarts(t), Puts(t)
    PROVE  PortInv'
<1> SUFFICES ASSUME ~unguarded'
             PROVE  OneInside' /\ Debt' /\ (garbled' => late' > 0)
  BY DEF PortInv
<1>1. ~unguarded /\ OneInside /\ Debt /\ (garbled => late > 0)
  BY DEF TransmitStarts, PortInv
<1>2. \A u \in Threads : u # t => step[u] = "put"
  BY <1>1 DEF OneInside, TransmitStarts
<1>3. /\ \A u \in Threads : u # t => step'[u] = "put"
      /\ step'[t] = "wait" /\ step[t] = "locked"
      /\ sending' # "none"
      /\ UNCHANGED <<xTxSemaphore, late, dropped, garbled>>
  BY <1>2 DEF TransmitStarts, Kinds, Puts, PutStages
<1>4. OneInside' /\ ~IsLocked'
  BY <1>3 DEF OneInside, IsLocked
<1>5. Waits' = 1 /\ Busy' = 1
  BY <1>3 DEF Waits, Waiting, Busy
<1>6. Waits = 0 /\ Busy = 0
  BY <1>1, <1>2, <1>3 DEF Waits, Waiting, Busy, Debt, IsLocked
<1>7. dropped' + Busy' + xTxSemaphore' - Waits' <= late'
  BY <1>1, <1>3, <1>5, <1>6 DEF Debt, Kinds
<1> QED
  BY <1>1, <1>3, <1>4, <1>5, <1>7 DEF Debt

LEMMA TxCpltPays ==
    ASSUME Kinds, PortInv, TxCpltCallback
    PROVE  PortInv'
<1> SUFFICES ASSUME ~unguarded'
             PROVE  OneInside' /\ Debt' /\ (garbled' => late' > 0)
  BY DEF PortInv
<1>1. ~unguarded /\ OneInside /\ Debt /\ (garbled => late > 0)
  BY DEF TxCpltCallback, PortInv
<1>2. /\ UNCHANGED <<step, late, dropped, garbled>>
      /\ sending' = "none" /\ xTxSemaphore' = 1
      /\ Busy = 1 /\ Busy' = 0
  BY DEF TxCpltCallback, Busy
<1>3. Waits' = Waits /\ OneInside' /\ Waits \in {0, 1}
  BY <1>1, <1>2 DEF Waits, Waiting, OneInside
<1>4. dropped' + Busy' + xTxSemaphore' - Waits' <= late'
  BY <1>1, <1>2, <1>3 DEF Debt, Kinds
<1> QED
  BY <1>1, <1>2, <1>3, <1>4 DEF Debt

-----------------------------------------------------------------------------
(* The mutex.                                                                  *)
LEMMA KindsStep == Kinds /\ [UartNext]_uartVars => Kinds'
<1> SUFFICES ASSUME Kinds, [UartNext]_uartVars PROVE Kinds'
  OBVIOUS
<1> USE DEF Kinds, Stages, PutStages, Threads, uartReceive, uartPort, uartLine
<1>1. ASSUME NEW key \in Keys, RxCpltCallback(key) PROVE Kinds'
  BY <1>1 DEF RxCpltCallback
<1>2. CASE ErrorCallback
  BY <1>2 DEF ErrorCallback
<1>3. CASE TxCpltCallback
  BY <1>3 DEF TxCpltCallback
<1>4. ASSUME NEW t \in Threads, Transmit(t) \/ TransmitStarts(t) PROVE Kinds'
  <2>1. CASE Transmit(t)
    BY <1>4, <2>1 DEF Transmit
  <2>2. CASE TransmitStarts(t)
    BY <1>4, <2>2 DEF TransmitStarts
  <2> QED BY <1>4, <2>1, <2>2
<1>5. ASSUME NEW w \in Writers, Writer(w) PROVE Kinds'
  <2>1. CASE OutputString(w)
    BY <1>5, <2>1 DEF OutputString
  <2>2. CASE OutputLocks(w)
    BY <1>5, <2>2 DEF OutputLocks
  <2>3. CASE Written(w)
    BY <1>5, <2>3 DEF Written, WaitEnds
  <2> QED BY <1>5, <2>1, <2>2, <2>3 DEF Writer
<1>6. CASE ConsoleTask
  <2>1. CASE ReadKey \/ ConsoleLocks
    BY <2>1 DEF ReadKey, ConsoleLocks, To
  <2>2. CASE Welcomed \/ MutexGiven
    BY <2>2 DEF Welcomed, MutexGiven, WaitEnds, To
  <2>3. CASE EditLine \/ NewLine
    BY <2>3 DEF EditLine, NewLine, WaitEnds, To
  <2>4. CASE ProcessCommand \/ MoreOutput
    BY <2>4 DEF ProcessCommand, MoreOutput, WaitEnds, To
  <2>5. CASE CommandEnds
    BY <2>5 DEF CommandEnds, WaitEnds, To
  <2> QED BY <1>6, <2>1, <2>2, <2>3, <2>4, <2>5 DEF ConsoleTask
<1>7. CASE UNCHANGED uartVars
  BY <1>7 DEF uartVars
<1> QED BY <1>1, <1>2, <1>3, <1>4, <1>5, <1>6, <1>7 DEF UartNext

LEMMA HolderStep == Kinds /\ PutterHolds /\ [UartNext]_uartVars => PutterHolds'
<1> SUFFICES ASSUME Kinds, PutterHolds, [UartNext]_uartVars PROVE PutterHolds'
  OBVIOUS
<1> USE UartAssumption DEF Kinds, PutterHolds, Puts, Stages, PutStages, Threads, uartReceive,
                           uartPort, uartLine
<1>1. ASSUME NEW key \in Keys, RxCpltCallback(key) PROVE PutterHolds'
  BY <1>1 DEF RxCpltCallback
<1>2. CASE ErrorCallback
  BY <1>2 DEF ErrorCallback
<1>3. CASE TxCpltCallback
  BY <1>3 DEF TxCpltCallback
<1>4. ASSUME NEW t \in Threads, Transmit(t) \/ TransmitStarts(t) PROVE PutterHolds'
  <2>1. CASE Transmit(t)
    BY <1>4, <2>1 DEF Transmit
  <2>2. CASE TransmitStarts(t)
    BY <1>4, <2>2 DEF TransmitStarts
  <2> QED BY <1>4, <2>1, <2>2
<1>5. ASSUME NEW w \in Writers, Writer(w) PROVE PutterHolds'
  <2>1. CASE OutputString(w)
    BY <1>5, <2>1 DEF OutputString
  <2>2. CASE OutputLocks(w)
    BY <1>5, <2>2 DEF OutputLocks
  <2>3. CASE Written(w)
    BY <1>5, <2>3 DEF Written, WaitEnds
  <2> QED BY <1>5, <2>1, <2>2, <2>3 DEF Writer
<1>6. CASE ConsoleTask
  <2>1. CASE ReadKey
    BY <2>1 DEF ReadKey, To
  <2>2. CASE ConsoleLocks
    BY <2>2 DEF ConsoleLocks, To
  <2>3. CASE Welcomed
    BY <2>3 DEF Welcomed, WaitEnds, To
  <2>4. CASE MutexGiven
    BY <2>4 DEF MutexGiven, WaitEnds, To
  <2>5. CASE EditLine
    BY <2>5 DEF EditLine, WaitEnds, To
  <2>6. CASE NewLine
    BY <2>6 DEF NewLine, WaitEnds, To
  <2>7. CASE ProcessCommand
    BY <2>7 DEF ProcessCommand, WaitEnds, To
  <2>8. CASE MoreOutput
    BY <2>8 DEF MoreOutput, WaitEnds, To
  <2>9. CASE CommandEnds
    BY <2>9 DEF CommandEnds, WaitEnds, To
  <2> QED BY <1>6, <2>1, <2>2, <2>3, <2>4, <2>5, <2>6, <2>7, <2>8, <2>9 DEF ConsoleTask
<1>7. CASE UNCHANGED uartVars
  BY <1>7 DEF uartVars
<1> QED BY <1>1, <1>2, <1>3, <1>4, <1>5, <1>6, <1>7 DEF UartNext

LEMMA PortStep == LateInv /\ [UartNext]_uartVars => PortInv'
<1> SUFFICES ASSUME LateInv, [UartNext]_uartVars PROVE PortInv'
  OBVIOUS
<1> USE DEF LateInv
<1>1. ASSUME NEW key \in Keys, RxCpltCallback(key) PROVE PortInv'
  BY <1>1, PortKept DEF RxCpltCallback
<1>2. CASE ErrorCallback
  BY <1>2, PortKept DEF ErrorCallback
<1>3. CASE TxCpltCallback
  BY <1>3, TxCpltPays
<1>4. ASSUME NEW t \in Threads, Transmit(t) \/ TransmitStarts(t) PROVE PortInv'
  <2>1. CASE Transmit(t)
    BY <1>4, <2>1, TransmitPays
  <2>2. CASE TransmitStarts(t)
    <3>1. Puts(t)
      BY <1>4, <2>2 DEF TransmitStarts, PutterHolds
    <3> QED BY <1>4, <2>2, <3>1, StartOwes
  <2> QED BY <1>4, <2>1, <2>2
<1>5. ASSUME NEW w \in Writers, Writer(w) PROVE PortInv'
  <2>1. CASE OutputString(w) \/ OutputLocks(w)
    BY <1>5, <2>1, PortKept DEF OutputString, OutputLocks
  <2>2. CASE Written(w)
    <3>1. garbled' => garbled \/ sending # "none"
      BY <2>2 DEF Written, Left
    <3> QED BY <1>5, <2>2, <3>1, WaitPays DEF Written, Threads
  <2> QED BY <1>5, <2>1, <2>2 DEF Writer
<1>6. CASE ConsoleTask
  <2>1. CASE ReadKey \/ ConsoleLocks
    BY <2>1, PortKept DEF ReadKey, ConsoleLocks
  <2>2. CASE ~(ReadKey \/ ConsoleLocks)
    <3>1. WaitEnds(Console)
      BY <1>6, <2>2 DEF ConsoleTask, Welcomed, MutexGiven, EditLine, NewLine,
                        ProcessCommand, MoreOutput, CommandEnds
    <3>2. garbled' => garbled \/ sending # "none"
      BY <1>6, <2>2 DEF ConsoleTask, Welcomed, MutexGiven, EditLine, NewLine,
                        ProcessCommand, MoreOutput, CommandEnds, Left
    <3> QED BY <3>1, <3>2, WaitPays DEF Threads
  <2> QED BY <2>1, <2>2
<1>7. CASE UNCHANGED uartVars
  BY <1>7, PortKept DEF uartVars
<1> QED BY <1>1, <1>2, <1>3, <1>4, <1>5, <1>6, <1>7 DEF UartNext

-----------------------------------------------------------------------------
LEMMA LateInitially == UartInit => LateInv
<1> SUFFICES ASSUME UartInit PROVE LateInv
  OBVIOUS
<1>1. Kinds
  BY DEF UartInit, Kinds, Stages, PutStages
<1>2. PutterHolds
  BY UartAssumption DEF UartInit, PutterHolds, Puts, PutStages, Threads
<1>3. \A t \in Threads : step[t] = "put"
  BY DEF UartInit
<1>4. ~IsLocked /\ ~Waiting /\ OneInside
  BY <1>3 DEF IsLocked, Waiting, OneInside
<1>5. Busy = 0 /\ Waits = 0
  BY <1>4 DEF UartInit, Busy, Waits
<1>6. PortInv
  BY <1>4, <1>5 DEF UartInit, PortInv, Debt
<1> QED BY <1>1, <1>2, <1>6 DEF LateInv

LEMMA LossWithinLate == LateInv => OutputLossIsLate
<1> SUFFICES ASSUME LateInv, ~unguarded PROVE dropped <= late /\ (garbled => late > 0)
  BY DEF OutputLossIsLate
<1>1. Debt /\ (garbled => late > 0)
  BY DEF LateInv, PortInv
<1>2. Busy + xTxSemaphore - Waits >= 0
  BY <1>1 DEF Debt, Busy, Waits, LateInv, Kinds
<1>3. Busy \in {0, 1} /\ Waits \in {0, 1}
  BY DEF Busy, Waits
<1>4. dropped <= late
  BY <1>1, <1>2, <1>3 DEF Debt, LateInv, Kinds
<1> QED BY <1>1, <1>4

(* However many threads write and however often their waits expire, the port   *)
(* loses no more texts than waits expired, and no buffer changes under the     *)
(* transmitter before one did (CLIconsole_UART.c:229-239).                     *)
THEOREM LossIsPaid == UartSpec => []OutputLossIsLate
<1>1. LateInv /\ [UartNext]_uartVars => LateInv'
  BY KindsStep, HolderStep, PortStep DEF LateInv
<1> QED BY <1>1, LateInitially, LossWithinLate, PTL DEF UartSpec

-----------------------------------------------------------------------------
(* CommandIsTyped for any limit of the line and the queue.  The queue holds *)
(* the keys typed last, and the console's line, last line and commands are  *)
(* what the keys it has taken spell, until a key or a line's end is lost.   *)

Meanings == [line : Seq(Printable), last : Seq(Printable), done : Seq(Seq(Printable))]

ReceiveTypes ==
    /\ xRxedChars \in Seq(Keys) /\ Len(xRxedChars) <= cmdQUEUE_LENGTH
    /\ receiving \in BOOLEAN /\ typed \in Seq(Keys) /\ spelt \in Seq(Meanings)
    /\ astray \in BOOLEAN

LineTypes ==
    /\ cRxedChar \in Keys
    /\ cInputString \in Seq(Printable) /\ Len(cInputString) <= cmdMAX_INPUT_SIZE
    /\ cLastInputString \in Seq(Printable)
    /\ Len(cLastInputString) <= cmdMAX_INPUT_SIZE
    /\ executed \in Seq(Seq(Printable)) /\ overrun \in BOOLEAN

PortTypes ==
    /\ xTxMutex \in Threads \union {"free"}
    /\ sending \in PutStages \union {"none"}
    /\ garbled \in BOOLEAN /\ unguarded \in BOOLEAN /\ writes \in Nat

Queued ==
    ~astray => \A i \in 1 .. Len(xRxedChars) :
                 xRxedChars[i] = typed[Len(typed) - Len(xRxedChars) + i]

Spelling ==
    /\ Len(xRxedChars) <= Len(typed)
    /\ Len(spelt) = Len(typed) + 1
    /\ \A i \in 1 .. Len(typed) : spelt[i + 1] = Meaning(spelt[i], typed[i])

Taken == Len(typed) - Len(xRxedChars)

Shows(m) == executed = m.done /\ cInputString = m.line /\ cLastInputString = m.last

InStep ==
    ~astray /\ ~overrun =>
        /\ stage[Console] \in {"welcome", "read", "end"} => Shows(spelt[Taken + 1])
        /\ stage[Console] \in {"lock", "echo", "newline"} =>
             Taken > 0 /\ cRxedChar = typed[Taken] /\ Shows(spelt[Taken])
        /\ stage[Console] = "newline" => cRxedChar = "cr"
        /\ stage[Console] = "output" =>
             /\ executed = spelt[Taken + 1].done
             /\ cInputString = spelt[Taken + 1].last /\ spelt[Taken + 1].line = <<>>

ConsoleTypes == Kinds /\ ReceiveTypes /\ LineTypes /\ PortTypes

ConsoleInv == ConsoleTypes /\ Queued /\ Spelling /\ InStep

-----------------------------------------------------------------------------
(* Sequences.                                                               *)
LEMMA Fronted ==
    ASSUME NEW S, NEW s \in Seq(S), s # <<>>
    PROVE  Front(s) \in Seq(S) /\ Len(Front(s)) = Len(s) - 1
<1>1. PICK n \in Nat : n + 1 = Len(s)
  OBVIOUS
<1>2. \A i \in 1 .. n : s[i] \in S
  BY <1>1
<1>3. /\ SubSeq(s, 1, n) \in Seq(S)
      /\ Len(SubSeq(s, 1, n)) = IF 1 <= n THEN n - 1 + 1 ELSE 0
  BY <1>2, SubSeqProperties
<1>4. Len(SubSeq(s, 1, n)) = n
  BY <1>3
<1>5. Front(s) = SubSeq(s, 1, n)
  BY <1>1 DEF Front
<1> QED BY <1>1, <1>3, <1>4, <1>5

LEMMA EditedTypes ==
    ASSUME NEW key \in Keys, key # "cr", NEW line \in Seq(Printable)
    PROVE  /\ Edited(key, line) \in Seq(Printable)
           /\ Len(line) <= cmdMAX_INPUT_SIZE => Len(Edited(key, line)) <= cmdMAX_INPUT_SIZE
<1>1. Len(line) \in Nat /\ cmdMAX_INPUT_SIZE \in Nat
  BY UartAssumption
<1>2. Append(line, key) \in Seq(Printable) \/ key \notin Printable
  OBVIOUS
<1>3. line # <<>> => Front(line) \in Seq(Printable) /\ Len(Front(line)) = Len(line) - 1
  BY Fronted
<1>4. Len(Append(line, key)) = Len(line) + 1
  OBVIOUS
<1>5. Edited(key, line) \in {line, Front(line), Append(line, key)}
  BY DEF Edited, Keys
<1>6. /\ Edited(key, line) = Append(line, key) \/ Edited(key, line) = line
         \/ (line # <<>> /\ Edited(key, line) = Front(line))
  BY DEF Edited, Keys
<1> QED BY <1>1, <1>2, <1>3, <1>4, <1>5, <1>6 DEF Edited, Keys

LEMMA MeaningTypes ==
    ASSUME NEW m \in Meanings, NEW key \in Keys
    PROVE  Meaning(m, key) \in Meanings
<1>1. CASE key = "cr"
  <2>1. Append(m.done, m.line) \in Seq(Seq(Printable)) /\ Append(m.done, m.last) \in Seq(Seq(Printable))
    BY DEF Meanings
  <2>2. <<>> \in Seq(Printable)
    OBVIOUS
  <2> QED BY <1>1, <2>1, <2>2 DEF Meaning, Meanings
<1>2. CASE key # "cr"
  BY <1>2, EditedTypes DEF Meaning, Meanings
<1> QED BY <1>1, <1>2

LEMMA LimitsAreNat ==
    /\ cmdQUEUE_LENGTH \in Nat /\ cmdMAX_INPUT_SIZE \in Nat
    /\ "free" \notin Threads /\ Console \in Threads /\ Console \notin Writers
BY UartAssumption DEF Threads

LEMMA ReceiveTypesStep ==
    ReceiveTypes /\ Spelling /\ [UartNext]_uartVars => ReceiveTypes'
<1> SUFFICES ASSUME ReceiveTypes, Spelling, [UartNext]_uartVars PROVE ReceiveTypes'
  OBVIOUS
<1>1. ASSUME NEW key \in Keys, RxCpltCallback(key) PROVE ReceiveTypes'
  <2>1. typed' \in Seq(Keys)
    BY <1>1 DEF RxCpltCallback, ReceiveTypes
  <2>2. spelt' \in Seq(Meanings)
    <3>1. PICK n \in Nat : n = Len(typed) /\ Len(spelt) = n + 1
      BY DEF ReceiveTypes, Spelling
    <3>2. Last(spelt) \in Meanings
      BY <3>1 DEF ReceiveTypes, Last
    <3>3. Meaning(Last(spelt), key) \in Meanings
      BY <3>2, MeaningTypes
    <3> QED BY <1>1, <3>3 DEF RxCpltCallback, ReceiveTypes
  <2>3. xRxedChars' \in Seq(Keys) /\ Len(xRxedChars') <= cmdQUEUE_LENGTH
    <3>1. CASE xRxedChars' = Append(xRxedChars, key) /\ Len(xRxedChars) < cmdQUEUE_LENGTH
      BY <3>1, LimitsAreNat DEF ReceiveTypes
    <3>2. CASE xRxedChars' = xRxedChars
      BY <3>2 DEF ReceiveTypes
    <3> QED BY <1>1, <3>1, <3>2 DEF RxCpltCallback
  <2>4. receiving' \in BOOLEAN /\ astray' \in BOOLEAN
    BY <1>1, Zenon DEF RxCpltCallback, ReceiveTypes
  <2> QED BY <2>1, <2>2, <2>3, <2>4 DEF ReceiveTypes
<1>2. CASE ErrorCallback
  BY <1>2 DEF ErrorCallback, ReceiveTypes
<1>3. CASE ReadKey
  <2>1. xRxedChars' = Tail(xRxedChars) /\ xRxedChars # <<>>
    BY <1>3 DEF ReadKey
  <2>2. xRxedChars' \in Seq(Keys) /\ Len(xRxedChars') <= cmdQUEUE_LENGTH
    BY <2>1, LimitsAreNat DEF ReceiveTypes
  <2> QED BY <1>3, <2>2 DEF ReadKey, ReceiveTypes
<1>4. CASE ConsoleLocks
  BY <1>4 DEF ConsoleLocks, ReceiveTypes
<1>5. CASE UNCHANGED uartReceive
  BY <1>5 DEF uartReceive, ReceiveTypes
<1>6. ASSUME NEW t \in Threads, Transmit(t) \/ TransmitStarts(t) PROVE UNCHANGED uartReceive
  BY <1>6 DEF Transmit, TransmitStarts
<1>7. ASSUME NEW w \in Writers, Writer(w) PROVE UNCHANGED uartReceive
  BY <1>7 DEF Writer, OutputString, OutputLocks, Written
<1>8. CASE TxCpltCallback \/ UNCHANGED uartVars
  <2>1. UNCHANGED uartReceive
    BY <1>8 DEF TxCpltCallback, uartVars
  <2> QED BY <1>5, <2>1
<1>9. CASE ConsoleTask
  <2>1. ReadKey \/ ConsoleLocks \/ UNCHANGED uartReceive
    BY <1>9 DEF ConsoleTask, Welcomed, MutexGiven, EditLine, NewLine, ProcessCommand,
                MoreOutput, CommandEnds
  <2> QED BY <1>3, <1>4, <1>5, <2>1
<1> QED BY <1>1, <1>2, <1>5, <1>6, <1>7, <1>8, <1>9 DEF UartNext

(* What changes of the line in each step.                                   *)
LEMMA LineTypesStep == LineTypes /\ ReceiveTypes /\ [UartNext]_uartVars => LineTypes'
<1> SUFFICES ASSUME LineTypes, ReceiveTypes, [UartNext]_uartVars PROVE LineTypes'
  OBVIOUS
<1>1. CASE ReadKey
  <2>1. cRxedChar' \in Keys
    BY <1>1 DEF ReadKey, ReceiveTypes
  <2>2. UNCHANGED <<cInputString, cLastInputString, executed, overrun>>
    BY <1>1 DEF ReadKey
  <2> QED BY <2>1, <2>2 DEF LineTypes
<1>2. CASE EditLine
  <2>1. /\ cInputString' \in Seq(Printable) /\ Len(cInputString') <= cmdMAX_INPUT_SIZE
        /\ UNCHANGED <<cRxedChar, cLastInputString, executed, overrun>>
    BY <1>2, EditedTypes DEF EditLine, LineTypes
  <2> QED BY <2>1 DEF LineTypes
<1>3. CASE ProcessCommand
  <2>1. /\ Line \in Seq(Printable) /\ Len(Line) <= cmdMAX_INPUT_SIZE
        /\ cInputString \o cLastInputString \in Seq(Printable)
    BY DEF Line, LineTypes
  <2>2. PICK done \in Seq(Printable) : executed' = Append(executed, done)
    BY <1>3, <2>1, Zenon DEF ProcessCommand
  <2>3. executed' \in Seq(Seq(Printable))
    BY <2>2 DEF LineTypes
  <2>4. overrun' \in BOOLEAN
    BY <1>3, Zenon DEF ProcessCommand, LineTypes
  <2>5. cInputString' = Line /\ UNCHANGED <<cRxedChar, cLastInputString>>
    BY <1>3 DEF ProcessCommand
  <2> QED BY <2>1, <2>3, <2>4, <2>5 DEF LineTypes
<1>4. CASE CommandEnds
  <2>1. /\ cLastInputString' = cInputString /\ cInputString' = <<>>
        /\ UNCHANGED <<cRxedChar, executed, overrun>>
    BY <1>4 DEF CommandEnds
  <2>2. <<>> \in Seq(Printable) /\ Len(<<>>) = 0
    OBVIOUS
  <2> QED BY <2>1, <2>2, LimitsAreNat DEF LineTypes
<1>5. CASE UNCHANGED uartLine
  BY <1>5 DEF uartLine, LineTypes
<1>6. ASSUME NEW t \in Threads, Transmit(t) \/ TransmitStarts(t) PROVE UNCHANGED uartLine
  BY <1>6 DEF Transmit, TransmitStarts
<1>7. ASSUME NEW w \in Writers, Writer(w) PROVE UNCHANGED uartLine
  BY <1>7 DEF Writer, OutputString, OutputLocks, Written
<1>8. ASSUME NEW key \in Keys, RxCpltCallback(key) PROVE UNCHANGED uartLine
  BY <1>8 DEF RxCpltCallback
<1>9. CASE TxCpltCallback \/ ErrorCallback \/ UNCHANGED uartVars
  <2>1. UNCHANGED uartLine
    BY <1>9 DEF TxCpltCallback, ErrorCallback, uartVars
  <2> QED BY <1>5, <2>1
<1>10. CASE ConsoleTask
  <2>1. ReadKey \/ EditLine \/ ProcessCommand \/ CommandEnds \/ UNCHANGED uartLine
    BY <1>10 DEF ConsoleTask, Welcomed, MutexGiven, ConsoleLocks, NewLine, MoreOutput
  <2> QED BY <1>1, <1>2, <1>3, <1>4, <1>5, <2>1
<1> QED BY <1>5, <1>6, <1>7, <1>8, <1>9, <1>10 DEF UartNext

LEMMA LeftBoolean ==
    ASSUME garbled \in BOOLEAN, NEW text, Left(text)
    PROVE  garbled' \in BOOLEAN
BY Zenon DEF Left

LEMMA PortTypesStep ==
    Kinds /\ PutterHolds /\ PortTypes /\ [UartNext]_uartVars => PortTypes'
<1> SUFFICES ASSUME Kinds, PutterHolds, PortTypes, [UartNext]_uartVars PROVE PortTypes'
  OBVIOUS
<1> USE DEF uartPort
<1>0. garbled \in BOOLEAN /\ unguarded \in BOOLEAN /\ writes \in Nat
  BY DEF PortTypes
<1>1. ASSUME NEW key \in Keys, RxCpltCallback(key) PROVE PortTypes'
  BY <1>1 DEF RxCpltCallback, PortTypes
<1>2. CASE ErrorCallback \/ TxCpltCallback \/ UNCHANGED uartVars
  BY <1>2 DEF ErrorCallback, TxCpltCallback, uartVars, PortTypes
<1>3. ASSUME NEW t \in Threads, Transmit(t) \/ TransmitStarts(t) PROVE PortTypes'
  <2>1. CASE Transmit(t)
    <3>1. unguarded' \in BOOLEAN
      BY <1>0, <2>1, Zenon DEF Transmit
    <3>2. UNCHANGED <<xTxMutex, sending, garbled, writes>>
      BY <2>1 DEF Transmit
    <3> QED BY <3>1, <3>2 DEF PortTypes
  <2>2. CASE TransmitStarts(t)
    <3>1. sending' \in PutStages \union {"none"}
      BY <1>3, <2>2 DEF TransmitStarts, PutterHolds, Puts
    <3> QED BY <2>2, <3>1 DEF TransmitStarts, PortTypes
  <2> QED BY <1>3, <2>1, <2>2
<1>4. ASSUME NEW w \in Writers, Writer(w) PROVE PortTypes'
  <2>1. CASE OutputString(w) \/ OutputLocks(w)
    BY <1>4, <2>1 DEF OutputString, OutputLocks, PortTypes, Threads
  <2>2. CASE Written(w)
    <3>1. garbled' \in BOOLEAN
      BY <1>0, <2>2, LeftBoolean DEF Written
    <3>2. UNCHANGED <<sending, unguarded, writes>> /\ xTxMutex' = "free"
      BY <2>2 DEF Written, WaitEnds
    <3> QED BY <3>1, <3>2 DEF PortTypes
  <2> QED BY <1>4, <2>1, <2>2 DEF Writer
<1>5. CASE ConsoleTask
  <2>1. CASE ReadKey \/ ConsoleLocks
    BY <2>1 DEF ReadKey, ConsoleLocks, PortTypes, Threads
  <2>2. CASE ~(ReadKey \/ ConsoleLocks)
    <3>1. garbled' \in BOOLEAN
      BY <1>0, <1>5, <2>2, LeftBoolean DEF ConsoleTask, Welcomed, EditLine, NewLine,
            ProcessCommand, MoreOutput, CommandEnds, MutexGiven
    <3>2. /\ UNCHANGED <<sending, unguarded, writes>>
          /\ xTxMutex' \in {xTxMutex, "free"}
      BY <1>5, <2>2 DEF ConsoleTask, Welcomed, EditLine, NewLine,
            ProcessCommand, MoreOutput, CommandEnds, MutexGiven, WaitEnds
    <3> QED BY <3>1, <3>2 DEF PortTypes
  <2> QED BY <2>1, <2>2
<1> QED BY <1>1, <1>2, <1>3, <1>4, <1>5 DEF UartNext

LEMMA KeyQueued ==
    ASSUME ReceiveTypes, Spelling, NEW key \in Keys, RxCpltCallback(key)
    PROVE  /\ Spelling'
           /\ Queued => Queued'
           /\ ~astray' => /\ ~astray /\ Taken' = Taken /\ Taken \in Nat
                          /\ \A i \in 1 .. Taken + 1 : spelt'[i] = spelt[i]
                          /\ \A i \in 1 .. Taken : typed'[i] = typed[i]
<1>1. /\ typed' = Append(typed, key)
      /\ spelt' = Append(spelt, Meaning(Last(spelt), key))
      /\ \/ xRxedChars' = Append(xRxedChars, key) /\ astray' = astray
         \/ xRxedChars' = xRxedChars /\ astray'
  BY DEF RxCpltCallback
<1>2. /\ typed \in Seq(Keys) /\ xRxedChars \in Seq(Keys) /\ spelt \in Seq(Meanings)
      /\ Len(xRxedChars) <= Len(typed) /\ Len(spelt) = Len(typed) + 1
  BY DEF ReceiveTypes, Spelling
<1>3. PICK n \in Nat, q \in Nat : n = Len(typed) /\ q = Len(xRxedChars)
  BY <1>2
<1>4. PICK m : m = Meaning(Last(spelt), key)
  OBVIOUS
<1>5. /\ Len(typed') = n + 1 /\ Len(spelt') = n + 2
      /\ Len(spelt) = n + 1 /\ q <= n
  BY <1>1, <1>2, <1>3
<1>6. /\ \A i \in 1 .. n : typed'[i] = typed[i]
      /\ typed'[n + 1] = key
      /\ \A i \in 1 .. n + 1 : spelt'[i] = spelt[i]
      /\ spelt'[n + 2] = m /\ m = Meaning(spelt[n + 1], key)
  BY <1>1, <1>2, <1>3, <1>4 DEF Last
<1>7. Len(xRxedChars') \in {q, q + 1} /\ Len(xRxedChars') <= Len(typed')
  BY <1>1, <1>2, <1>3, <1>5
<1>8. Spelling'
  <2>1. ASSUME NEW i \in 1 .. n + 1 PROVE spelt'[i + 1] = Meaning(spelt'[i], typed'[i])
    <3>1. CASE i = n + 1
      BY <1>6, <3>1
    <3>2. CASE i # n + 1
      <4>1. i \in 1 .. n /\ i + 1 \in 1 .. n + 1
        BY <3>2
      <4>2. spelt[i + 1] = Meaning(spelt[i], typed[i])
        BY <1>3, <4>1 DEF Spelling
      <4> QED BY <1>6, <4>1, <4>2
    <3> QED BY <3>1, <3>2
  <2> QED BY <1>5, <1>7, <2>1 DEF Spelling
<1>9. ASSUME ~astray' PROVE ~astray /\ Len(xRxedChars') = q + 1
  BY <1>1, <1>2, <1>3, <1>9
<1>10. ASSUME Queued PROVE Queued'
  <2> SUFFICES ASSUME ~astray', NEW i \in 1 .. q + 1
               PROVE  xRxedChars'[i] = typed'[(n + 1) - (q + 1) + i]
    BY <1>5, <1>9 DEF Queued
  <2>1. xRxedChars' = Append(xRxedChars, key) /\ ~astray
    BY <1>1, <1>9
  <2>2. CASE i = q + 1
    <3>1. xRxedChars'[i] = key
      BY <1>2, <1>3, <2>1, <2>2
    <3>2. (n + 1) - (q + 1) + i = n + 1
      BY <2>2
    <3> QED BY <1>6, <3>1, <3>2
  <2>3. CASE i # q + 1
    <3>1. i \in 1 .. q /\ n - q + i \in 1 .. n /\ (n + 1) - (q + 1) + i = n - q + i
      BY <1>5, <2>3
    <3>2. xRxedChars'[i] = xRxedChars[i]
      BY <1>2, <1>3, <2>1, <3>1
    <3>3. xRxedChars[i] = typed[n - q + i]
      BY <1>3, <1>10, <2>1, <3>1 DEF Queued
    <3> QED BY <1>6, <3>1, <3>2, <3>3
  <2> QED BY <2>2, <2>3
<1>11. ASSUME ~astray'
       PROVE  /\ ~astray /\ Taken' = Taken /\ Taken \in Nat
              /\ \A i \in 1 .. Taken + 1 : spelt'[i] = spelt[i]
              /\ \A i \in 1 .. Taken : typed'[i] = typed[i]
  <2>1. Taken = n - q /\ Taken' = (n + 1) - (q + 1)
    BY <1>3, <1>5, <1>9, <1>11 DEF Taken
  <2>2. Taken' = Taken /\ Taken \in 0 .. n
    BY <1>5, <2>1
  <2> QED BY <1>6, <1>9, <1>11, <2>2
<1> QED BY <1>8, <1>10, <1>11

LEMMA KeyTaken ==
    ASSUME ReceiveTypes, Spelling, ReadKey
    PROVE  /\ Spelling'
           /\ Queued => Queued'
           /\ Taken \in Nat /\ Taken' = Taken + 1 /\ UNCHANGED <<typed, spelt, astray>>
           /\ Queued /\ ~astray => cRxedChar' = typed[Taken + 1]
<1>1. /\ xRxedChars # <<>> /\ xRxedChars' = Tail(xRxedChars)
      /\ cRxedChar' = Head(xRxedChars) /\ UNCHANGED <<typed, spelt, astray>>
  BY DEF ReadKey
<1>2. /\ typed \in Seq(Keys) /\ xRxedChars \in Seq(Keys)
      /\ Len(xRxedChars) <= Len(typed)
  BY DEF ReceiveTypes, Spelling
<1>3. PICK n \in Nat, q \in Nat : n = Len(typed) /\ q + 1 = Len(xRxedChars)
  BY <1>1, <1>2
<1>4. /\ Len(xRxedChars') = q /\ q + 1 <= n
      /\ \A i \in 1 .. q : xRxedChars'[i] = xRxedChars[i + 1]
      /\ cRxedChar' = xRxedChars[1]
  BY <1>1, <1>2, <1>3
<1>5. Spelling'
  BY <1>1, <1>3, <1>4 DEF Spelling
<1>6. Taken = n - (q + 1) /\ Taken' = n - q
  BY <1>1, <1>3, <1>4 DEF Taken
<1>7. ASSUME Queued, ~astray
      PROVE  \A i \in 1 .. q + 1 : xRxedChars[i] = typed[n - (q + 1) + i]
  BY <1>3, <1>7 DEF Queued
<1>8. ASSUME Queued PROVE Queued'
  <2> SUFFICES ASSUME ~astray, NEW i \in 1 .. q
               PROVE  xRxedChars'[i] = typed[n - q + i]
    BY <1>1, <1>3, <1>4 DEF Queued
  <2>1. i + 1 \in 1 .. q + 1 /\ n - (q + 1) + (i + 1) = n - q + i
    OBVIOUS
  <2> QED BY <1>4, <1>7, <1>8, <2>1
<1>9. ASSUME Queued, ~astray PROVE cRxedChar' = typed[Taken + 1]
  <2>1. 1 \in 1 .. q + 1
    OBVIOUS
  <2> QED BY <1>4, <1>6, <1>7, <1>9, <2>1
<1> QED BY <1>1, <1>4, <1>5, <1>6, <1>8, <1>9

(* What the key in hand adds to what the keys before it meant.              *)
LEMMA NextMeaning ==
    ASSUME ReceiveTypes, Spelling, Taken > 0
    PROVE  /\ Taken \in Nat /\ Taken \in 1 .. Len(typed)
           /\ spelt[Taken] \in Meanings
           /\ spelt[Taken + 1] = Meaning(spelt[Taken], typed[Taken])
<1>1. PICK n \in Nat, q \in Nat : n = Len(typed) /\ q = Len(xRxedChars) /\ q <= n
                                  /\ Len(spelt) = n + 1
  BY DEF ReceiveTypes, Spelling
<1>2. Taken \in 1 .. n
  BY <1>1 DEF Taken
<1> QED BY <1>1, <1>2 DEF Spelling, ReceiveTypes

LEMMA QueueStep ==
    ReceiveTypes /\ Spelling /\ [UartNext]_uartVars => Spelling' /\ (Queued => Queued')
<1> SUFFICES ASSUME ReceiveTypes, Spelling, [UartNext]_uartVars
             PROVE  Spelling' /\ (Queued => Queued')
  OBVIOUS
<1>1. ASSUME NEW key \in Keys, RxCpltCallback(key) PROVE Spelling' /\ (Queued => Queued')
  BY <1>1, KeyQueued
<1>2. CASE ReadKey
  BY <1>2, KeyTaken
<1>3. CASE UNCHANGED <<xRxedChars, typed, spelt>> /\ (astray => astray')
  BY <1>3 DEF Spelling, Queued
<1>4. ASSUME NEW t \in Threads, Transmit(t) \/ TransmitStarts(t)
      PROVE  UNCHANGED <<xRxedChars, typed, spelt, astray>>
  BY <1>4 DEF Transmit, TransmitStarts, uartReceive
<1>5. ASSUME NEW w \in Writers, Writer(w) PROVE UNCHANGED <<xRxedChars, typed, spelt, astray>>
  BY <1>5 DEF Writer, OutputString, OutputLocks, Written, uartReceive
<1>6. CASE TxCpltCallback \/ ErrorCallback \/ UNCHANGED uartVars
  <2>1. UNCHANGED <<xRxedChars, typed, spelt, astray>>
    BY <1>6 DEF TxCpltCallback, ErrorCallback, uartVars, uartReceive
  <2> QED BY <1>3, <2>1
<1>7. CASE ConsoleTask
  <2>1. ReadKey \/ (UNCHANGED <<xRxedChars, typed, spelt>> /\ (astray => astray'))
    BY <1>7 DEF ConsoleTask, Welcomed, ConsoleLocks, EditLine, NewLine, ProcessCommand,
            MoreOutput, CommandEnds, MutexGiven, uartReceive
  <2> QED BY <1>2, <1>3, <2>1
<1> QED BY <1>1, <1>3, <1>4, <1>5, <1>6, <1>7 DEF UartNext

(* The line is what the keys spell, key by key.                             *)
LEMMA LineStep == ConsoleInv /\ [UartNext]_uartVars => InStep'
<1> SUFFICES ASSUME ConsoleInv, [UartNext]_uartVars PROVE InStep'
  OBVIOUS
<1>0. /\ ReceiveTypes /\ LineTypes /\ Kinds /\ Queued /\ Spelling /\ InStep
      /\ stage \in [Threads -> Stages] /\ Console \in Threads
  BY LimitsAreNat DEF ConsoleInv, ConsoleTypes, Kinds
<1>1. ASSUME NEW key \in Keys, RxCpltCallback(key) PROVE InStep'
  <2>1. UNCHANGED <<stage, uartLine>>
    BY <1>1 DEF RxCpltCallback
  <2> SUFFICES ASSUME ~astray', ~overrun PROVE InStep'
    BY <2>1 DEF InStep, uartLine
  <2>2. /\ ~astray /\ Taken' = Taken /\ Taken \in Nat
        /\ \A i \in 1 .. Taken + 1 : spelt'[i] = spelt[i]
        /\ \A i \in 1 .. Taken : typed'[i] = typed[i]
    BY <1>0, <1>1, KeyQueued
  <2>3. /\ spelt'[Taken' + 1] = spelt[Taken + 1]
        /\ Taken > 0 => spelt'[Taken'] = spelt[Taken] /\ typed'[Taken'] = typed[Taken]
    BY <2>2
  <2>4. /\ Shows(spelt[Taken + 1]) => Shows(spelt[Taken + 1])'
        /\ Taken > 0 /\ Shows(spelt[Taken]) => Shows(spelt[Taken])'
    BY <2>1, <2>3 DEF Shows, uartLine
  <2> QED BY <1>0, <2>1, <2>2, <2>3, <2>4 DEF InStep, uartLine
<1>2. CASE ReadKey
  <2>1. /\ stage[Console] = "read" /\ stage'[Console] = "lock"
        /\ UNCHANGED <<cInputString, cLastInputString, executed, overrun>>
    BY <1>0, <1>2 DEF ReadKey, To
  <2> SUFFICES ASSUME ~astray', ~overrun PROVE InStep'
    BY <2>1 DEF InStep
  <2>2. /\ Taken \in Nat /\ Taken' = Taken + 1 /\ UNCHANGED <<typed, spelt, astray>>
        /\ cRxedChar' = typed[Taken + 1]
    BY <1>0, <1>2, KeyTaken
  <2>3. Shows(spelt[Taken + 1])
    BY <1>0, <2>1, <2>2 DEF InStep
  <2>4. Shows(spelt[Taken])'
    BY <2>1, <2>2, <2>3 DEF Shows
  <2> QED BY <2>1, <2>2, <2>4 DEF InStep
<1>3. ASSUME UNCHANGED <<stage, uartLine, xRxedChars, typed, spelt, astray>> PROVE InStep'
  <2>1. Taken' = Taken
    BY <1>3 DEF Taken
  <2> QED BY <1>0, <1>3, <2>1 DEF InStep, uartLine, Shows
<1>4. CASE ConsoleLocks
  <2> SUFFICES ASSUME ~astray', ~overrun PROVE InStep'
    BY <1>4 DEF InStep, ConsoleLocks, uartLine
  <2>1. /\ stage[Console] = "lock" /\ stage'[Console] = "echo" /\ ~astray
        /\ UNCHANGED <<uartLine, xRxedChars, typed, spelt>>
    BY <1>0, <1>4 DEF ConsoleLocks, To
  <2>2. Taken' = Taken
    BY <2>1 DEF Taken
  <2> QED BY <1>0, <2>1, <2>2 DEF InStep, uartLine, Shows
<1>5. ASSUME NEW t \in Threads, Transmit(t) \/ TransmitStarts(t)
      PROVE  UNCHANGED <<stage, uartLine, xRxedChars, typed, spelt, astray>>
  BY <1>5 DEF Transmit, TransmitStarts, uartReceive
<1>6. ASSUME NEW w \in Writers, Writer(w) PROVE InStep'
  <2>1. /\ stage'[Console] = stage[Console]
        /\ UNCHANGED <<uartLine, xRxedChars, typed, spelt, astray>>
    BY <1>0, <1>6, LimitsAreNat DEF Writer, OutputString, OutputLocks, Written, uartReceive
  <2>2. Taken' = Taken
    BY <2>1 DEF Taken
  <2> QED BY <1>0, <2>1, <2>2 DEF InStep, uartLine, Shows
<1>7. CASE TxCpltCallback \/ ErrorCallback \/ UNCHANGED uartVars
  <2>1. UNCHANGED <<stage, uartLine, xRxedChars, typed, spelt, astray>>
    BY <1>7 DEF TxCpltCallback, ErrorCallback, uartVars, uartReceive
  <2> QED BY <1>3, <2>1
<1>8. CASE ConsoleTask
  <2>0. ASSUME UNCHANGED uartReceive PROVE Taken' = Taken /\ UNCHANGED <<typed, spelt, astray>>
    BY <2>0 DEF uartReceive, Taken
  <2>1. CASE Welcomed \/ MoreOutput \/ MutexGiven
    <3>1. /\ UNCHANGED <<uartReceive, uartLine>>
          /\ \/ stage[Console] \in {"welcome", "end"} /\ stage'[Console] = "read"
             \/ stage[Console] = "output" /\ stage'[Console] = "output"
      BY <1>0, <2>1 DEF Welcomed, MoreOutput, MutexGiven, To
    <3> QED BY <1>0, <2>0, <3>1 DEF InStep, uartLine, Shows
  <2>2. CASE EditLine
    <3>1. /\ UNCHANGED <<uartReceive, cRxedChar, cLastInputString, executed, overrun>>
          /\ stage[Console] = "echo" /\ stage'[Console] = "read" /\ cRxedChar # "cr"
          /\ cInputString' = Edited(cRxedChar, cInputString)
      BY <1>0, <2>2 DEF EditLine, To
    <3> SUFFICES ASSUME ~astray, ~overrun PROVE InStep'
      BY <2>0, <3>1 DEF InStep
    <3>2. Taken > 0 /\ cRxedChar = typed[Taken] /\ Shows(spelt[Taken])
      BY <1>0, <3>1 DEF InStep
    <3>3. spelt[Taken] \in Meanings /\ spelt[Taken + 1] = Meaning(spelt[Taken], cRxedChar)
      BY <1>0, <3>2, NextMeaning
    <3>4. Shows(spelt[Taken + 1])'
      BY <2>0, <3>1, <3>2, <3>3 DEF Shows, Meaning, Meanings
    <3> QED BY <3>1, <3>4 DEF InStep
  <2>3. CASE NewLine
    <3>1. /\ UNCHANGED <<uartReceive, uartLine>> /\ cRxedChar = "cr"
          /\ stage[Console] = "echo" /\ stage'[Console] = "newline"
      BY <1>0, <2>3 DEF NewLine, To
    <3> QED BY <1>0, <2>0, <3>1 DEF InStep, uartLine, Shows
  <2>4. CASE ProcessCommand
    <3>1. /\ UNCHANGED <<uartReceive, cRxedChar, cLastInputString>>
          /\ stage[Console] = "newline" /\ stage'[Console] = "output"
          /\ cInputString' = Line
          /\ overrun' = (overrun \/ Len(cInputString) = cmdMAX_INPUT_SIZE)
          /\ executed' = Append(executed, Line) \/ Len(cInputString) = cmdMAX_INPUT_SIZE
      BY <1>0, <2>4 DEF ProcessCommand, To
    <3> SUFFICES ASSUME ~astray, ~overrun, executed' = Append(executed, Line) PROVE InStep'
      BY <2>0, <3>1 DEF InStep
    <3>2. Taken > 0 /\ typed[Taken] = "cr" /\ Shows(spelt[Taken])
      BY <1>0, <3>1 DEF InStep
    <3>3. spelt[Taken + 1] = Meaning(spelt[Taken], "cr")
      BY <1>0, <3>2, NextMeaning
    <3>4. /\ spelt[Taken + 1].line = <<>> /\ spelt[Taken + 1].last = Line
          /\ spelt[Taken + 1].done = Append(executed, Line)
      BY <3>2, <3>3 DEF Shows, Meaning, Line
    <3> QED BY <2>0, <3>1, <3>4 DEF InStep
  <2>5. CASE CommandEnds
    <3>1. /\ UNCHANGED <<uartReceive, executed, overrun>>
          /\ stage[Console] = "output" /\ stage'[Console] \in {"end", "fault"}
          /\ cLastInputString' = cInputString /\ cInputString' = <<>>
      BY <1>0, <2>5 DEF CommandEnds, To
    <3> QED BY <1>0, <2>0, <3>1 DEF InStep, Shows
  <2> QED BY <1>2, <1>4, <1>8, <2>1, <2>2, <2>3, <2>4, <2>5 DEF ConsoleTask
<1> QED BY <1>1, <1>3, <1>5, <1>6, <1>7, <1>8 DEF UartNext

LEMMA ConsoleInitially == UartInit => ConsoleInv /\ LateInv
<1> SUFFICES ASSUME UartInit PROVE ConsoleInv /\ LateInv
  OBVIOUS
<1>1. LateInv
  BY LateInitially
<1>2. ReceiveTypes
  <2>1. Nothing \in Meanings
    BY DEF Nothing, Meanings
  <2>2. spelt \in Seq(Meanings) /\ xRxedChars \in Seq(Keys) /\ typed \in Seq(Keys)
    BY <2>1 DEF UartInit
  <2>3. Len(xRxedChars) <= cmdQUEUE_LENGTH
    BY LimitsAreNat DEF UartInit
  <2>4. receiving \in BOOLEAN /\ astray \in BOOLEAN
    BY Zenon DEF UartInit
  <2> QED BY <2>2, <2>3, <2>4 DEF ReceiveTypes
<1>3. LineTypes
  <2>1. cInputString \in Seq(Printable) /\ cLastInputString \in Seq(Printable)
    BY DEF UartInit
  <2>2. Len(cInputString) <= cmdMAX_INPUT_SIZE /\ Len(cLastInputString) <= cmdMAX_INPUT_SIZE
    BY LimitsAreNat DEF UartInit
  <2>3. executed \in Seq(Seq(Printable)) /\ cRxedChar \in Keys
    BY DEF UartInit, Keys
  <2>4. overrun \in BOOLEAN
    BY Zenon DEF UartInit
  <2> QED BY <2>1, <2>2, <2>3, <2>4 DEF LineTypes
<1>4. PortTypes
  BY DEF UartInit, PortTypes
<1>5. Queued /\ Spelling
  BY DEF UartInit, Queued, Spelling
<1>6. InStep
  <2>1. Taken + 1 = 1 /\ spelt[1] = Nothing
    BY DEF UartInit, Taken
  <2>2. stage[Console] = "welcome"
    BY LimitsAreNat DEF UartInit
  <2>3. Shows(spelt[Taken + 1])
    BY <2>1 DEF UartInit, Shows, Nothing
  <2> QED BY <2>2, <2>3 DEF InStep
<1> QED BY <1>1, <1>2, <1>3, <1>4, <1>5, <1>6 DEF ConsoleInv, ConsoleTypes, LateInv

LEMMA ConsoleStep ==
    ConsoleInv /\ LateInv /\ [UartNext]_uartVars => ConsoleInv' /\ LateInv'
BY KindsStep, HolderStep, PortStep, ReceiveTypesStep, LineTypesStep, PortTypesStep, QueueStep,
   LineStep DEF ConsoleInv, ConsoleTypes, LateInv

LEMMA LinesAsSpelt == ConsoleInv => CommandIsTyped
<1> SUFFICES ASSUME ConsoleInv, stage[Console] = "read", ~astray, ~overrun
             PROVE  executed = spelt[1 + Len(typed) - Len(xRxedChars)].done
  BY DEF CommandIsTyped
<1>1. 1 + Len(typed) - Len(xRxedChars) = Taken + 1
  BY DEF ConsoleInv, ConsoleTypes, ReceiveTypes, Taken
<1> QED BY <1>1 DEF ConsoleInv, InStep, Shows

(* For any keys, typed at any moment, and any limits: the console executes  *)
(* the lines that the keys it has read spell, unless a key was lost or a    *)
(* line filled its buffer (CLIconsole_UART.c:80-152).                       *)
THEOREM LinesExecutedAsTyped == UartSpec => []CommandIsTyped
BY ConsoleInitially, ConsoleStep, LinesAsSpelt, PTL DEF UartSpec

-----------------------------------------------------------------------------
(* The damage analyser: NoFalseAlarm for any number of channels and samples *)
(* in a window.  While no sample was out of range the task only waits or    *)
(* averages; it averages only once the buffer is full of samples; and every *)
(* sum it holds lies between as many samples at the limits.                 *)

Filled == adcSem \/ adcStep = "mean"

(* What the buffer held before the start has been overwritten by the time   *)
(* the first window is done.                                                *)
Sampled == \A k \in 0 .. Size - 1 : k < dmaAt \/ Filled => ~Damaged(adcBuf[k])

(* The sums of a window of which adcAt samples have been added.             *)
Averaged ==
    LET n == adcAt \div ADC_WINDOW  i == adcAt % ADC_WINDOW
    IN  \A c \in 0 .. CHANNELS - 1 :
          /\ c < n => ~Damaged(adcBufMean[c])
          /\ c = n => i * TooLow <= adcBufMean[c] /\ adcBufMean[c] <= i * (TooHigh - 1)
          /\ c > n => adcBufMean[c] = 0

Undamaged ==
    ~outOfRange => /\ adcStep \in {"wait", "mean"}
                   /\ Sampled
                   /\ adcStep = "mean" => Averaged

MonitorInv == DamageTypeOK /\ Undamaged

LEMMA SizeOfBuffer == Size \in Nat /\ Size > 0 /\ Size = CHANNELS * ADC_WINDOW
BY DamageAssumption DEF Size

LEMMA Divided ==
    ASSUME NEW w \in Nat, w > 0, NEW a \in Nat
    PROVE  /\ a \div w \in Nat /\ a % w \in 0 .. w - 1
           /\ a = w * (a \div w) + (a % w)
OBVIOUS

(* The quotient and the remainder are what they seem.                       *)
LEMMA Quotient ==
    ASSUME NEW w \in Nat, w > 0, NEW n \in Nat, NEW i \in 0 .. w - 1
    PROVE  (w * n + i) \div w = n /\ (w * n + i) % w = i
OBVIOUS

LEMMA Product ==
    /\ \A a, b, c \in Nat : a <= b => c * a <= c * b /\ a * c <= b * c
    /\ \A a, b \in Nat : a * b \in Nat /\ a * b = b * a
    /\ \A a, b \in Int : (a + 1) * b = a * b + b /\ b * (a + 1) = b * a + b
OBVIOUS

(* The sample at hand is in the buffer; the next is of the same channel     *)
(* unless this was the channel's last.                                      *)
LEMMA SampleInBuffer ==
    ASSUME NEW at \in Nat, at < Size
    PROVE  LET n == at \div ADC_WINDOW  i == at % ADC_WINDOW
           IN  /\ n \in 0 .. CHANNELS - 1 /\ i \in 0 .. ADC_WINDOW - 1
               /\ CHANNELS * i + n \in 0 .. Size - 1
               /\ i # ADC_WINDOW - 1 => /\ (at + 1) \div ADC_WINDOW = n
                                        /\ (at + 1) % ADC_WINDOW = i + 1
               /\ i = ADC_WINDOW - 1 => /\ (at + 1) \div ADC_WINDOW = n + 1
                                        /\ (at + 1) % ADC_WINDOW = 0
<1> DEFINE n == at \div ADC_WINDOW  i == at % ADC_WINDOW
<1>1. PICK w \in Nat, c \in Nat : w = ADC_WINDOW /\ c = CHANNELS /\ w > 0 /\ c > 0
  BY DamageAssumption
<1>2. n \in Nat /\ i \in 0 .. w - 1 /\ at = w * n + i
  BY <1>1, Divided
<1>3. Size = c * w
  BY <1>1, SizeOfBuffer
<1> HIDE DEF n, i
<1>4. n < c
  <2> SUFFICES ASSUME c <= n PROVE FALSE
    BY <1>1, <1>2
  <2>1. w * c <= w * n /\ w * c = c * w
    BY <1>1, <1>2, Product
  <2>2. w * n \in Nat /\ c * w \in Nat
    BY <1>1, <1>2, Product
  <2> QED BY <1>2, <1>3, <2>1, <2>2
<1>5. c * i + n \in 0 .. Size - 1
  <2>1. c * i <= c * (w - 1) /\ c * i \in Nat /\ c * w \in Nat /\ c * (w - 1) \in Nat
    BY <1>1, <1>2, Product
  <2>2. c * ((w - 1) + 1) = c * (w - 1) + c /\ (w - 1) + 1 = w
    BY <1>1, Product
  <2> QED BY <1>1, <1>2, <1>3, <1>4, <2>1, <2>2
<1>6. ASSUME i # w - 1 PROVE (at + 1) \div w = n /\ (at + 1) % w = i + 1
  <2>1. PICK j \in 0 .. w - 1 : j = i + 1
    BY <1>1, <1>2, <1>6
  <2>2. at + 1 = w * n + j
    BY <1>1, <1>2, <2>1, Product
  <2>3. (w * n + j) \div w = n /\ (w * n + j) % w = j
    BY <1>1, <1>2, Quotient
  <2> QED BY <2>1, <2>2, <2>3
<1>7. ASSUME i = w - 1 PROVE (at + 1) \div w = n + 1 /\ (at + 1) % w = 0
  <2>1. w * (n + 1) = w * n + w /\ w * n \in Nat
    BY <1>1, <1>2, Product
  <2>2. at + 1 = w * (n + 1) + 0
    BY <1>1, <1>2, <1>7, <2>1
  <2> QED BY <1>1, <1>2, <2>2, Quotient
<1> QED BY <1>1, <1>2, <1>4, <1>5, <1>6, <1>7 DEF n, i

LEMMA WindowsInSize ==
    Size \div ADC_WINDOW = CHANNELS /\ 0 \div ADC_WINDOW = 0 /\ 0 % ADC_WINDOW = 0
<1>1. PICK w \in Nat, c \in Nat : w = ADC_WINDOW /\ c = CHANNELS /\ w > 0 /\ c > 0
  BY DamageAssumption
<1>2. Size = w * c + 0 /\ 0 = w * 0 + 0
  BY <1>1, SizeOfBuffer, Product
<1> QED BY <1>1, <1>2, Quotient

(* The mean of samples that are in range is in range.                       *)
LEMMA MeanInRange ==
    ASSUME NEW w \in Nat, w > 0, NEW sum \in Nat,
           w * TooLow <= sum, sum <= w * (TooHigh - 1)
    PROVE  sum \div w \in Nat /\ ~Damaged(sum \div w)
<1> DEFINE m == sum \div w
<1>1. m \in Nat /\ sum % w \in 0 .. w - 1 /\ sum = w * m + (sum % w)
  BY Divided
<1>2. TooLow \in Nat /\ TooHigh \in Nat
  BY DamageAssumption
<1>3. w * m \in Nat /\ w * m <= sum /\ sum < w * m + w
  BY <1>1, Product
<1> HIDE DEF m
<1>4. TooLow <= m
  <2> SUFFICES ASSUME m + 1 <= TooLow PROVE FALSE
    BY <1>1, <1>2
  <2>1. /\ w * (m + 1) <= w * TooLow /\ w * (m + 1) = w * m + w
        /\ w * TooLow \in Nat
    BY <1>1, <1>2, Product
  <2> QED BY <1>3, <2>1
<1>5. m <= TooHigh - 1
  <2> SUFFICES ASSUME TooHigh <= m PROVE FALSE
    BY <1>1, <1>2
  <2>1. w * TooHigh <= w * m
    BY <1>1, <1>2, Product
  <2>2. w * ((TooHigh - 1) + 1) = w * (TooHigh - 1) + w /\ (TooHigh - 1) + 1 = TooHigh
    BY <1>2, Product
  <2>3. w * (TooHigh - 1) \in Int /\ w * TooHigh \in Nat
    BY <1>2, Product
  <2> QED BY <1>3, <2>1, <2>2, <2>3
<1> QED BY <1>1, <1>2, <1>4, <1>5 DEF m, Damaged

LEMMA Judged ==
    /\ \A v : Damaged(v) \in BOOLEAN
    /\ DamageTypeOK <=>
         /\ adcBuf \in [0 .. Size - 1 -> Nat] /\ dmaAt \in 0 .. Size - 1
         /\ adcStep \in {"wait", "mean", "format", "view", "delay", "pause", "halted"}
         /\ adcAt \in 0 .. Size /\ adcBufMean \in [0 .. CHANNELS - 1 -> Nat]
         /\ strToView \in {"none", "torn", "whole"}
         /\ viewStep \in {"wait", "test", "call", "writing", "dangling", "hung", "fault"}
         /\ TelNetConn \in {"null", "live", "deleted"}
         /\ telnetStep \in {"loop", "accept", "call", "writing", "serve"}
         /\ client \in {"none", "reading", "stalled", "gone"}
         /\ adcSem \in BOOLEAN /\ viewSem \in BOOLEAN /\ viewStarted \in BOOLEAN
         /\ outOfRange \in BOOLEAN /\ intact \in BOOLEAN
         /\ unseen \in BOOLEAN /\ failed \in BOOLEAN
BY Zenon DEF DamageTypeOK, Damaged

(* What a sample adds to its channel's sum.                                 *)
LEMMA SumIsNat ==
    ASSUME DamageTypeOK, AddSample
    PROVE  /\ adcAt < Size /\ adcAt' = adcAt + 1 /\ adcStep = "mean"
           /\ adcBufMean' \in [0 .. CHANNELS - 1 -> Nat]
<1> DEFINE n == adcAt \div ADC_WINDOW  i == adcAt % ADC_WINDOW
           sum == adcBufMean[n] + adcBuf[CHANNELS * i + n]
<1>1. /\ adcAt < Size /\ adcAt' = adcAt + 1 /\ adcStep = "mean"
      /\ adcBufMean' = [adcBufMean EXCEPT
                          ![n] = IF i = ADC_WINDOW - 1 THEN sum \div ADC_WINDOW ELSE sum]
  BY DEF AddSample
<1>2. adcAt \in Nat
  BY SizeOfBuffer DEF DamageTypeOK
<1>3. n \in 0 .. CHANNELS - 1 /\ CHANNELS * i + n \in 0 .. Size - 1
  BY <1>1, <1>2, SampleInBuffer
<1>4. sum \in Nat
  BY <1>3 DEF DamageTypeOK
<1> HIDE DEF sum, n, i
<1>5. sum \div ADC_WINDOW \in Nat
  BY <1>4, DamageAssumption, Divided
<1> QED BY <1>1, <1>3, <1>4, <1>5 DEF DamageTypeOK

LEMMA MonitorTypes == DamageTypeOK /\ [DamageNext]_damageVars => DamageTypeOK'
<1> SUFFICES ASSUME DamageTypeOK, [DamageNext]_damageVars PROVE DamageTypeOK'
  OBVIOUS
<1> USE DEF adcVars, viewVars, telnetVars
<1>0. /\ adcBuf \in [0 .. Size - 1 -> Nat] /\ dmaAt \in 0 .. Size - 1
      /\ adcAt \in 0 .. Size /\ adcBufMean \in [0 .. CHANNELS - 1 -> Nat]
      /\ adcSem \in BOOLEAN /\ viewSem \in BOOLEAN /\ viewStarted \in BOOLEAN
      /\ outOfRange \in BOOLEAN /\ intact \in BOOLEAN
      /\ unseen \in BOOLEAN /\ failed \in BOOLEAN
  BY Judged
<1>1. ASSUME NEW v \in Levels, Convert(v) PROVE DamageTypeOK'
  <2>1. v \in Nat /\ Size \in Nat /\ Size > 0
    BY SizeOfBuffer, DamageAssumption
  <2>2. adcBuf' \in [0 .. Size - 1 -> Nat]
    BY <1>0, <1>1, <2>1 DEF Convert
  <2>3. dmaAt' \in 0 .. Size - 1
    BY <1>0, <1>1, <2>1 DEF Convert
  <2>4. adcSem' \in BOOLEAN /\ outOfRange' \in BOOLEAN
    BY <1>0, <1>1, Zenon DEF Convert
  <2>5. UNCHANGED <<adcStep, adcAt, adcBufMean, viewVars, telnetVars, viewStarted>>
    BY <1>1 DEF Convert
  <2> QED BY <2>2, <2>3, <2>4, <2>5 DEF DamageTypeOK
<1>2. CASE WindowDone
  <2>1. adcBufMean' \in [0 .. CHANNELS - 1 -> Nat] /\ adcAt' \in 0 .. Size
    BY <1>2, SizeOfBuffer DEF WindowDone
  <2> QED BY <1>2, <2>1 DEF WindowDone, DamageTypeOK
<1>3. CASE AddSample
  <2>1. adcAt' \in 0 .. Size /\ adcBufMean' \in [0 .. CHANNELS - 1 -> Nat]
    BY <1>0, <1>3, SumIsNat, SizeOfBuffer
  <2> QED BY <1>3, <2>1 DEF AddSample, DamageTypeOK
<1>4. CASE Judge
  <2>1. adcBufMean' \in [0 .. CHANNELS - 1 -> Nat] /\ adcAt' \in 0 .. Size
    BY <1>4, SizeOfBuffer DEF Judge
  <2>2. adcStep' \in {"format", "wait"} /\ strToView' \in {"torn", strToView}
    BY <1>4 DEF Judge
  <2>3. intact' \in BOOLEAN
    BY <1>0, <1>4, Zenon DEF Judge
  <2>4. UNCHANGED <<adcBuf, dmaAt, adcSem, outOfRange, viewSem, viewStep, unseen, failed,
                    telnetVars, viewStarted>>
    BY <1>4 DEF Judge
  <2> QED BY <2>1, <2>2, <2>3, <2>4 DEF DamageTypeOK
<1>5. CASE StringCatAndView
  <2>1. viewSem' \in BOOLEAN /\ unseen' \in BOOLEAN /\ failed' \in BOOLEAN
    BY <1>0, <1>5, Zenon DEF StringCatAndView
  <2> QED BY <1>5, <2>1 DEF StringCatAndView, DamageTypeOK
<1>6. CASE Pause \/ GoOn
  BY <1>6 DEF Pause, GoOn, DamageTypeOK
<1>7. CASE TextReady \/ ConnTested
  BY <1>7 DEF TextReady, ConnTested, viewAlone, DamageTypeOK
<1>8. CASE CallWrite \/ WriteText \/ WriteFails \/ WriteDangles
  <2>1. unseen' \in BOOLEAN /\ intact' \in BOOLEAN /\ failed' \in BOOLEAN
    BY <1>0, <1>8, Zenon DEF CallWrite, WriteText, WriteFails, WriteDangles, viewAlone
  <2>2. viewStep' \in {"wait", "writing", "dangling", "hung", "fault"}
    BY <1>8 DEF CallWrite, WriteText, WriteFails, WriteDangles
  <2>3. UNCHANGED <<adcVars, strToView, viewSem, telnetVars, viewStarted>>
    BY <1>8 DEF CallWrite, WriteText, WriteFails, WriteDangles, viewAlone
  <2> QED BY <2>1, <2>2, <2>3 DEF DamageTypeOK
<1>9. CASE TelnetTask
  <2>1. CASE Listen \/ Command \/ CallAnswer \/ WriteAnswer
    BY <2>1 DEF Listen, Command, CallAnswer, WriteAnswer, DamageTypeOK
  <2>2. CASE Accept
    BY <2>2 DEF Accept, DamageTypeOK
  <2>3. CASE CloseDelete
    BY <2>3 DEF CloseDelete, DamageTypeOK
  <2> QED BY <1>9, <2>1, <2>2, <2>3 DEF TelnetTask
<1>10. CASE ClientTurns
  BY <1>10 DEF ClientTurns, DamageTypeOK
<1>11. CASE UNCHANGED damageVars
  BY <1>11 DEF damageVars, DamageTypeOK
<1> QED BY <1>1, <1>2, <1>3, <1>4, <1>5, <1>6, <1>7, <1>8, <1>9, <1>10, <1>11
        DEF DamageNext, AdcTask, ViewTask

(* One more sample of a channel, or the last, which makes the sum a mean.   *)
LEMMA SumsStayInRange ==
    ASSUME DamageTypeOK, Sampled, Averaged, AddSample
    PROVE  Averaged'
<1> DEFINE n == adcAt \div ADC_WINDOW  i == adcAt % ADC_WINDOW
           sum == adcBufMean[n] + adcBuf[CHANNELS * i + n]
           m == (adcAt + 1) \div ADC_WINDOW  j == (adcAt + 1) % ADC_WINDOW
<1>1. /\ adcAt < Size /\ adcAt' = adcAt + 1 /\ adcStep = "mean"
      /\ adcBufMean' = [adcBufMean EXCEPT
                          ![n] = IF i = ADC_WINDOW - 1 THEN sum \div ADC_WINDOW ELSE sum]
  BY DEF AddSample
<1>2. adcAt \in Nat
  BY SizeOfBuffer DEF DamageTypeOK
<1>3. /\ n \in 0 .. CHANNELS - 1 /\ i \in 0 .. ADC_WINDOW - 1
      /\ CHANNELS * i + n \in 0 .. Size - 1
      /\ i # ADC_WINDOW - 1 => m = n /\ j = i + 1
      /\ i = ADC_WINDOW - 1 => m = n + 1 /\ j = 0
  BY <1>1, <1>2, SampleInBuffer
<1>4. \A c \in 0 .. CHANNELS - 1 :
        /\ adcBufMean[c] \in Nat
        /\ c < n => ~Damaged(adcBufMean[c])
        /\ c = n => i * TooLow <= adcBufMean[c] /\ adcBufMean[c] <= i * (TooHigh - 1)
        /\ c > n => adcBufMean[c] = 0
  BY DEF DamageTypeOK, Averaged
<1>5. /\ adcBuf[CHANNELS * i + n] \in Nat
      /\ ~Damaged(adcBuf[CHANNELS * i + n])
  BY <1>1, <1>3 DEF DamageTypeOK, Sampled, Filled
<1>6. /\ \A c \in 0 .. CHANNELS - 1 : c # n => adcBufMean'[c] = adcBufMean[c]
      /\ adcBufMean'[n] = IF i = ADC_WINDOW - 1 THEN sum \div ADC_WINDOW ELSE sum
  BY <1>1, <1>3 DEF DamageTypeOK
<1>7. /\ sum \in Nat
      /\ (i + 1) * TooLow <= sum /\ sum <= (i + 1) * (TooHigh - 1)
  <2>1. PICK a \in Nat, b \in Nat : a = adcBufMean[n] /\ b = adcBuf[CHANNELS * i + n]
    BY <1>3, <1>4, <1>5
  <2>2. i * TooLow <= a /\ a <= i * (TooHigh - 1) /\ TooLow <= b /\ b <= TooHigh - 1
    BY <1>3, <1>4, <1>5, <2>1, DamageAssumption DEF Damaged
  <2>3. /\ (i + 1) * TooLow = i * TooLow + TooLow
        /\ (i + 1) * (TooHigh - 1) = i * (TooHigh - 1) + (TooHigh - 1)
        /\ i * TooLow \in Int /\ i * (TooHigh - 1) \in Int
    BY <1>3, DamageAssumption, Product
  <2>4. sum = a + b /\ TooLow \in Nat /\ TooHigh \in Nat
    BY <2>1, DamageAssumption
  <2> QED BY <2>2, <2>3, <2>4
<1> HIDE DEF sum
<1>8. CASE i = ADC_WINDOW - 1
  <2>1. ~Damaged(sum \div ADC_WINDOW)
    <3>1. PICK w \in Nat : w = ADC_WINDOW /\ w > 0 /\ i + 1 = w
      BY <1>3, <1>8, DamageAssumption
    <3> QED BY <1>7, <3>1, MeanInRange
  <2>2. ~Damaged(adcBufMean'[n]) /\ m = n + 1 /\ j = 0
    BY <1>3, <1>6, <1>8, <2>1
  <2>3. ASSUME NEW c \in 0 .. CHANNELS - 1
        PROVE  /\ c < m => ~Damaged(adcBufMean'[c])
               /\ c = m => j * TooLow <= adcBufMean'[c] /\ adcBufMean'[c] <= j * (TooHigh - 1)
               /\ c > m => adcBufMean'[c] = 0
    <3> HIDE DEF n, m, j, i
    <3>1. CASE c <= n
      BY <1>3, <1>4, <1>6, <2>2, <3>1
    <3>2. CASE c > n
      <4>1. adcBufMean'[c] = 0 /\ ~(c < m)
        BY <1>3, <1>4, <1>6, <2>2, <3>2
      <4>2. j * TooLow = 0 /\ j * (TooHigh - 1) = 0
        BY <2>2, DamageAssumption
      <4> QED BY <4>1, <4>2
    <3> QED BY <1>3, <3>1, <3>2
  <2> QED BY <1>1, <2>3 DEF Averaged
<1>9. CASE i # ADC_WINDOW - 1
  <2>1. adcBufMean'[n] = sum /\ m = n /\ j = i + 1
    BY <1>3, <1>6, <1>9
  <2>2. ASSUME NEW c \in 0 .. CHANNELS - 1
        PROVE  /\ c < m => ~Damaged(adcBufMean'[c])
               /\ c = m => j * TooLow <= adcBufMean'[c] /\ adcBufMean'[c] <= j * (TooHigh - 1)
               /\ c > m => adcBufMean'[c] = 0
    <3> HIDE DEF n, m, j, i
    <3>1. CASE c = n
      BY <1>3, <1>7, <2>1, <3>1
    <3>2. CASE c # n
      BY <1>3, <1>4, <1>6, <2>1, <3>2
    <3> QED BY <3>1, <3>2
  <2> QED BY <1>1, <2>2 DEF Averaged
<1> QED BY <1>8, <1>9

LEMMA MonitorStep == MonitorInv /\ [DamageNext]_damageVars => Undamaged'
<1> SUFFICES ASSUME MonitorInv, [DamageNext]_damageVars, ~outOfRange'
             PROVE  adcStep' \in {"wait", "mean"} /\ Sampled' /\ (adcStep' = "mean" => Averaged')
  BY DEF Undamaged
<1> USE DEF adcVars, viewVars, telnetVars
<1>0. DamageTypeOK
  BY DEF MonitorInv
<1>1. ~outOfRange
  BY Zenon DEF damageVars, DamageNext, Convert, AdcTask, WindowDone, AddSample, Judge,
        StringCatAndView, Pause, GoOn, ViewTask, TextReady, ConnTested, CallWrite, WriteText,
        WriteFails, WriteDangles, viewAlone, TelnetTask, Listen, Accept, Command, CallAnswer,
        WriteAnswer, CloseDelete, ClientTurns
<1>2. adcStep \in {"wait", "mean"} /\ Sampled /\ (adcStep = "mean" => Averaged)
  BY <1>1 DEF MonitorInv, Undamaged
<1>3. ASSUME UNCHANGED <<adcBuf, dmaAt, adcSem, adcStep, adcAt, adcBufMean>>
      PROVE  adcStep' \in {"wait", "mean"} /\ Sampled' /\ (adcStep' = "mean" => Averaged')
  BY <1>2, <1>3 DEF Sampled, Filled, Averaged
<1>4. ASSUME NEW v \in Levels, Convert(v)
      PROVE  adcStep' \in {"wait", "mean"} /\ Sampled' /\ (adcStep' = "mean" => Averaged')
  <2>1. ~Damaged(v) /\ UNCHANGED <<adcStep, adcAt, adcBufMean>>
    BY <1>4, Zenon DEF Convert
  <2>2. Averaged' <=> Averaged
    BY <2>1 DEF Averaged
  <2>3. /\ dmaAt \in 0 .. Size - 1 /\ adcBuf' = [adcBuf EXCEPT ![dmaAt] = v]
        /\ dmaAt' = (dmaAt + 1) % Size
        /\ adcSem' = (adcSem \/ dmaAt = Size - 1)
    BY <1>0, <1>4 DEF Convert, DamageTypeOK
  <2>4. \/ dmaAt = Size - 1 /\ adcSem'
        \/ dmaAt' = dmaAt + 1 /\ (Filled' => Filled)
    <3>1. dmaAt # Size - 1 => dmaAt' = dmaAt + 1
      BY <2>3, SizeOfBuffer
    <3> QED BY <2>1, <2>3, <3>1, Zenon DEF Filled
  <2>5. ASSUME NEW k \in 0 .. Size - 1, k < dmaAt' \/ Filled' PROVE ~Damaged(adcBuf'[k])
    <3>1. CASE k = dmaAt
      BY <1>0, <2>1, <2>3, <3>1 DEF DamageTypeOK
    <3>2. CASE k # dmaAt
      <4>1. adcBuf'[k] = adcBuf[k]
        BY <1>0, <2>3, <3>2 DEF DamageTypeOK
      <4>2. k < dmaAt \/ Filled
        BY <2>3, <2>4, <2>5, <3>2, SizeOfBuffer
      <4> QED BY <1>2, <4>1, <4>2 DEF Sampled
    <3> QED BY <3>1, <3>2
  <2> QED BY <1>2, <2>1, <2>2, <2>5 DEF Sampled
<1>5. CASE WindowDone
  <2>1. adcStep' = "mean" /\ Filled /\ UNCHANGED <<adcBuf, dmaAt>>
    BY <1>5 DEF WindowDone, Filled
  <2>2. Sampled'
    BY <1>2, <2>1 DEF Sampled
  <2>3. Averaged'
    <3>1. /\ adcAt' = 0 /\ \A c \in 0 .. CHANNELS - 1 : adcBufMean'[c] = 0
      BY <1>5 DEF WindowDone
    <3>2. 0 * TooLow = 0 /\ (TooHigh - 1) \in Int /\ 0 * (TooHigh - 1) = 0
      BY DamageAssumption
    <3> QED BY <3>1, <3>2, WindowsInSize, DamageAssumption DEF Averaged
  <2> QED BY <2>1, <2>2, <2>3
<1>6. CASE AddSample
  <2>1. Averaged'
    BY <1>0, <1>2, <1>6, SumsStayInRange DEF AddSample
  <2>2. UNCHANGED <<adcBuf, dmaAt, adcSem, adcStep>>
    BY <1>6 DEF AddSample
  <2> QED BY <1>2, <2>1, <2>2 DEF Sampled, Filled
<1>7. CASE Judge
  <2>1. Averaged /\ adcAt = Size /\ adcStep = "mean"
    BY <1>2, <1>7 DEF Judge
  <2>2. ~AnyDamage
    BY <2>1, WindowsInSize, DamageAssumption DEF Averaged, AnyDamage
  <2>3. adcStep' = "wait" /\ UNCHANGED <<adcBuf, dmaAt, adcSem>>
    BY <1>7, <2>2 DEF Judge
  <2>4. Filled
    BY <2>1 DEF Filled
  <2> QED BY <1>2, <2>3, <2>4 DEF Sampled
<1>8. CASE StringCatAndView \/ Pause \/ GoOn
  BY <1>2, <1>8 DEF StringCatAndView, Pause, GoOn
<1>9. CASE ViewTask \/ TelnetTask \/ ClientTurns \/ UNCHANGED damageVars
  <2>1. UNCHANGED <<adcBuf, dmaAt, adcSem, adcStep, adcAt, adcBufMean>>
    BY <1>9, Zenon DEF ViewTask, TextReady, ConnTested, CallWrite, WriteText, WriteFails,
          WriteDangles, viewAlone, TelnetTask, Listen, Accept, Command, CallAnswer,
          WriteAnswer, CloseDelete, ClientTurns, damageVars
  <2> QED BY <1>3, <2>1
<1> QED BY <1>4, <1>5, <1>6, <1>7, <1>8, <1>9 DEF DamageNext, AdcTask

LEMMA MonitorInitially == DamageInit => MonitorInv
<1> SUFFICES ASSUME DamageInit PROVE MonitorInv
  OBVIOUS
<1>1. adcBuf \in [0 .. Size - 1 -> Nat] /\ adcBufMean \in [0 .. CHANNELS - 1 -> Nat]
  BY DEF DamageInit
<1>2. DamageTypeOK
  <2>1. dmaAt \in 0 .. Size - 1 /\ adcAt \in 0 .. Size
    BY SizeOfBuffer DEF DamageInit
  <2>2. /\ adcSem \in BOOLEAN /\ viewSem \in BOOLEAN /\ viewStarted \in BOOLEAN
        /\ outOfRange \in BOOLEAN /\ intact \in BOOLEAN
        /\ unseen \in BOOLEAN /\ failed \in BOOLEAN
    BY Zenon DEF DamageInit
  <2> QED BY <1>1, <2>1, <2>2 DEF DamageInit, DamageTypeOK
<1>3. Undamaged
  BY DEF DamageInit, Undamaged, Sampled, Filled
<1> QED BY <1>2, <1>3 DEF MonitorInv

LEMMA NoAlarmYet == MonitorInv => NoFalseAlarm
BY DEF MonitorInv, Undamaged, NoFalseAlarm

(* Whatever the DMA overwrites while the task averages, and whatever the   *)
(* buffer held at the start: no damage is shown before a sample was out of *)
(* range (app_adc.c:76, :98-103, :135-137).                                *)
THEOREM AlarmHasCause == DamageSpec => []NoFalseAlarm
<1>1. MonitorInv /\ [DamageNext]_damageVars => MonitorInv'
  BY MonitorTypes, MonitorStep DEF MonitorInv
<1> QED BY <1>1, MonitorInitially, NoAlarmYet, PTL DEF DamageSpec

-----------------------------------------------------------------------------
(* The board: every step of it is a step of the part observed and a stutter *)
(* of every other.                                                          *)

LEMMA StepOfParts ==
    [BoardNext]_boardVars =>
        /\ [HrNext]_hrVars /\ [UartNext]_uartVars /\ [ShowNext]_showVars
        /\ [MbNext]_mbVars /\ [DamageNext]_damageVars /\ observed' = observed
<1> SUFFICES ASSUME [BoardNext]_boardVars
             PROVE  /\ [HrNext]_hrVars /\ [UartNext]_uartVars /\ [ShowNext]_showVars
                    /\ [MbNext]_mbVars /\ [DamageNext]_damageVars /\ observed' = observed
  OBVIOUS
<1> QED BY DEF BoardNext, OnlyShow, OnlyDamage, boardVars, partVars

LEMMA BoardBegins == BoardInit => /\ TimeInv /\ LateInv /\ ConsoleInv /\ ShowInv /\ MonitorInv
                                  /\ MbInit /\ observed \in Parts
BY TimeInitially, ConsoleInitially, ShowInitially, MonitorInitially DEF BoardInit

LEMMA ShowTyped == ShowInv => ShowTypeOK
<1> SUFFICES ASSUME ShowInv PROVE ShowTypeOK
  OBVIOUS
<1>1. dma2d # Idle => dma2d.to \in {0, 1} /\ dma2d.name \in Names
  BY DEF ShowInv, Places, HandOver, Quiet, Running, Finished
<1> QED BY <1>1 DEF ShowInv, Places, ShowTypeOK

LEMMA UartTyped == ConsoleInv => UartTypeOK
BY Zenon DEF ConsoleInv, ConsoleTypes, Kinds, ReceiveTypes, LineTypes, PortTypes, UartTypeOK,
             Meanings

LEMMA Parted ==
    BoardSpec => /\ [](TimeInv /\ LateInv /\ ConsoleInv /\ ShowInv /\ MonitorInv)
                 /\ [](observed \in Parts) /\ MbSpec
<1>1. TimeInv /\ [HrNext]_hrVars => TimeInv'
  BY TypesStep, TimeStep DEF TimeInv
<1>2. MonitorInv /\ [DamageNext]_damageVars => MonitorInv'
  BY MonitorTypes, MonitorStep DEF MonitorInv
<1>3. observed \in Parts /\ observed' = observed => (observed \in Parts)'
  OBVIOUS
<1> QED BY <1>1, <1>2, <1>3, BoardBegins, StepOfParts, ConsoleStep, ShowStep, PTL
        DEF BoardSpec, MbSpec

(* The state of every part keeps its type, whichever part is observed.      *)
THEOREM BoardTyped == BoardSpec => []TypeOK
<1>1. /\ TimeInv => HrTypeOK
      /\ MonitorInv => DamageTypeOK
      /\ RegsInv => MbTypeOK
  BY DEF TimeInv, MonitorInv, RegsInv
<1>2. TimeInv /\ ConsoleInv /\ ShowInv /\ MonitorInv /\ observed \in Parts /\ RegsInv
        => TypeOK
  BY <1>1, ShowTyped, UartTyped DEF TypeOK
<1> QED BY <1>2, Parted, RegsInvariant, PTL

=============================================================================
