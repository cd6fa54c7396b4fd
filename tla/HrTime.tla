------------------------------- MODULE HrTime -------------------------------
(***************************************************************************)
(* The high-resolution clock of the run-time statistics, hr_gettime.c: a   *)
(* hardware counter that wraps, an interrupt that counts the wraps, and a  *)
(* function that reads both without a lock.  It is called by tasks and by  *)
(* the kernel's context switch, which runs with this interrupt masked      *)
(* (priority configLIBRARY_MAX_SYSCALL_INTERRUPT_PRIORITY + 1).  The       *)
(* counter is TIM2, which other parts of a program take for themselves.    *)
(***************************************************************************)
EXTENDS Integers

CONSTANTS
    ulReloadCount,  \* counts in a period of TIM2 (10 000 000 in the code)
    OtherPeriods,   \* the periods that other parts give TIM2
    MaxTime         \* bound of the model: counts of the timer

ASSUME HrTimeAssumption ==
    /\ ulReloadCount \in Nat \ {0} /\ MaxTime \in Nat
    /\ OtherPeriods \subseteq Nat \ {0} /\ ulReloadCount \notin OtherPeriods

VARIABLES
    CNT,              \* the counter register of TIM2
    period,           \* counts from one wrap of TIM2 to the next
    others,           \* periods that parts of the program are still to give it
    UIF,              \* its update flag: the interrupt is pending
    ulInterruptCount, \* wraps counted by the interrupt
    masked,           \* the kernel's interrupt mask covers TIM2
    reader,           \* where ullGetHighResolutionTime stands
    ulCounts0,        \* its first reading of CNT
    ulSlowCount,      \* its copy of ulInterruptCount
    reading,          \* what it last returned
    now,              \* counts of the timer since its start
    begun,            \* history: when the last call began
    missed            \* history: the last call returned while a wrap was pending

hrVars == <<CNT, period, others, UIF, ulInterruptCount, masked, reader, ulCounts0, ulSlowCount,
            reading, now, begun, missed>>

(* Mutant: the flag is not cleared before the interrupt is enabled. *)
HrInitFlagged ==
    /\ CNT = 0 /\ period = ulReloadCount /\ others \in SUBSET OtherPeriods
    /\ UIF = TRUE /\ ulInterruptCount = 0
    /\ masked = FALSE
    /\ reader = "idle"
    /\ ulCounts0 = 0 /\ ulSlowCount = 0 /\ reading = 0
    /\ now = 0 /\ begun = 0 /\ missed = FALSE

(* vStartHighResolutionTimer has cleared the flag that programming the     *)
(* timer raises.  Any of the other parts may follow.                       *)
HrInit ==
    /\ CNT = 0 /\ period = ulReloadCount /\ others \in SUBSET OtherPeriods
    /\ UIF = FALSE /\ ulInterruptCount = 0
    /\ masked = FALSE
    /\ reader = "idle"
    /\ ulCounts0 = 0 /\ ulSlowCount = 0 /\ reading = 0
    /\ now = 0 /\ begun = 0 /\ missed = FALSE

-----------------------------------------------------------------------------
(* The hardware.                                                           *)

Wraps == CNT = period - 1

Own == period = ulReloadCount

(* No wrap is left pending for a whole period of ten seconds. *)
Count ==
    /\ now < MaxTime
    /\ Wraps /\ Own => ~UIF
    /\ now' = now + 1
    /\ CNT' = IF Wraps THEN 0 ELSE CNT + 1
    /\ UIF' = (UIF \/ Wraps)
    /\ UNCHANGED <<period, others, ulInterruptCount, masked, reader, ulCounts0,
                   ulSlowCount, reading, begun, missed>>

(* TimeMeasureInit of the slide show and MX_TIM2_Init of the analyser      *)
(* program the timer again, each once: the counter begins anew with their  *)
(* period, and the update that loads it raises the flag.                   *)
ProgramTIM2(p) ==
    /\ ~masked
    /\ p \in others
    /\ others' = others \ {p}
    /\ period' = p
    /\ CNT' = 0 /\ UIF' = TRUE
    /\ UNCHANGED <<ulInterruptCount, masked, reader, ulCounts0, ulSlowCount,
                   reading, now, begun, missed>>

TIM2_IRQHandler ==
    /\ UIF /\ ~masked
    /\ UIF' = FALSE
    /\ ulInterruptCount' = ulInterruptCount + 1
    /\ UNCHANGED <<CNT, period, others, masked, reader, ulCounts0, ulSlowCount,
                   reading, now, begun, missed>>

(* The kernel enters and leaves a section in which the interrupt waits.    *)
(* The context switch makes its whole call inside one.                     *)
SetMask ==
    /\ reader = "idle"
    /\ masked' = ~masked
    /\ UNCHANGED <<CNT, period, others, UIF, ulInterruptCount, reader, ulCounts0,
                   ulSlowCount, reading, now, begun, missed>>

-----------------------------------------------------------------------------
(* ullGetHighResolutionTime, one access to shared state in each step.  An  *)
(* interrupt that is not masked is taken before the caller's next step.    *)

Runs == UIF => masked

GetTime ==
    /\ Runs
    /\ reader = "idle"
    /\ reader' = "slow"
    /\ begun' = now
    /\ ulCounts0' = CNT
    /\ UNCHANGED <<CNT, period, others, UIF, ulInterruptCount, masked, ulSlowCount,
                   reading, now, missed>>

ReadSlowCount ==
    /\ Runs
    /\ reader = "slow"
    /\ reader' = "count"
    /\ ulSlowCount' = ulInterruptCount
    /\ UNCHANGED <<CNT, period, others, UIF, ulInterruptCount, masked, ulCounts0,
                   reading, now, begun, missed>>

Returned(count) ==
    /\ reader' = "idle"
    /\ reading' = ulSlowCount * ulReloadCount + count
    /\ missed' = UIF
    /\ UNCHANGED ulCounts0

(* The loop's test: TIM2_IRQHandler() has not occurred in between. *)
ReadCountAgain ==
    /\ Runs
    /\ reader = "count"
    /\ IF CNT >= ulCounts0
         THEN Returned(CNT)
         ELSE reader' = "first" /\ UNCHANGED <<ulCounts0, reading, missed>>
    /\ UNCHANGED <<CNT, period, others, UIF, ulInterruptCount, masked, ulSlowCount,
                   now, begun>>

ReadFirstAgain ==
    /\ Runs
    /\ reader = "first"
    /\ reader' = "slow"
    /\ ulCounts0' = CNT
    /\ UNCHANGED <<CNT, period, others, UIF, ulInterruptCount, masked, ulSlowCount,
                   reading, now, begun, missed>>

HrNext ==
    \/ Count \/ TIM2_IRQHandler \/ SetMask
    \/ \E p \in others : ProgramTIM2(p)
    \/ GetTime \/ ReadSlowCount \/ ReadCountAgain \/ ReadFirstAgain

HrSpec == HrInit /\ [][HrNext]_hrVars

-----------------------------------------------------------------------------
HrTypeOK ==
    /\ period \in OtherPeriods \union {ulReloadCount} /\ others \subseteq OtherPeriods
    /\ CNT \in 0 .. period - 1
    /\ UIF \in BOOLEAN /\ masked \in BOOLEAN /\ missed \in BOOLEAN
    /\ reader \in {"idle", "slow", "count", "first"}
    /\ ulCounts0 \in Nat
    /\ ulInterruptCount \in Nat /\ ulSlowCount \in Nat /\ reading \in Nat
    /\ now \in Nat /\ begun \in Nat

(* As long as TIM2 is the clock's own: what ullGetHighResolutionTime       *)
(* returned lies between the moment of the call and now, however long it   *)
(* was interrupted between its three reads and however often the counter   *)
(* wrapped meanwhile: time never goes back.  The exception is a call with  *)
(* the interrupt masked that meets a pending wrap: the loop of             *)
(* hr_gettime.c:61-70 cannot see that one, and the result is behind by no  *)
(* more than one period.                                                   *)
ReadingIsTime ==
    reader = "idle" /\ Own =>
        IF missed
          THEN begun - ulReloadCount <= reading /\ reading <= now - ulReloadCount
          ELSE begun <= reading /\ reading <= now

=============================================================================
