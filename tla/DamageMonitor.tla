--------------------------- MODULE DamageMonitor ---------------------------
(***************************************************************************)
(* The damage analyser: the converter's circular DMA fills adcBuf while    *)
(* the ADC task (app_adc.c) averages it; a mean out of range is put into   *)
(* words for the STR_VIEW task (app_viewString.c), which writes them to    *)
(* the Telnet connection that the CLI_TCP task (CLIconsole_TCP.c) accepts, *)
(* answers on and deletes.  No lock guards adcBuf, strToView, TelNetConn   *)
(* or the connection, on which lwIP allows one write at a time.            *)
(***************************************************************************)
EXTENDS Integers

CONSTANTS
    ADC_WINDOW,     \* samples of a channel in the buffer: 1000
    CHANNELS,       \* 6
    TooLow, TooHigh,\* damage: below 100, from 4000 on
    Levels          \* what a sample may be

ASSUME DamageAssumption ==
    /\ ADC_WINDOW \in Nat \ {0} /\ CHANNELS \in Nat \ {0}
    /\ TooLow \in Nat /\ TooHigh \in Nat /\ Levels \subseteq Nat

VARIABLES
    adcBuf, dmaAt,  \* the buffer, and where the DMA writes next
    adcSem,         \* xBinSem_ADCdone
    adcStep, adcAt, adcBufMean, \* the ADC task, its sample, its sums
    strToView,      \* "none", "torn" while it is formatted, "whole"
    viewStarted,    \* whether the program starts STR_VIEW
    viewSem, viewStep, \* xBinSem_viewString and the task
    TelNetConn,     \* "null", "live", "deleted"
    telnetStep, client, \* CLI_TCP, and the client at the other end
    outOfRange,     \* history: a sample was out of range
    intact,         \* history: the text that STR_VIEW writes was whole throughout
    unseen,         \* history: a text is ready that its client was not sent
    failed          \* history: a write failed since the last text was announced

adcVars  == <<adcBuf, dmaAt, adcSem, adcStep, adcAt, adcBufMean, outOfRange>>
viewVars == <<strToView, viewSem, viewStep, intact, unseen, failed>>
telnetVars == <<TelNetConn, telnetStep, client>>
damageVars == <<adcVars, viewVars, telnetVars, viewStarted>>

Damaged(v) == v >= TooHigh \/ v < TooLow

Size == ADC_WINDOW * CHANNELS

(* osThreadSuspendAll: no task but the ADC task runs.                      *)
Suspended == adcStep = "pause"

(* Releasing a semaphore that was never created ends in configASSERT,      *)
(* which spins with the interrupts off; so does a fault.                   *)
Halted == adcStep = "halted" \/ viewStep = "fault"

-----------------------------------------------------------------------------
(* Mutant: the new semaphore, which can be taken, is not taken (:137).     *)
DamageInitGiven ==
    /\ adcBuf = [k \in 0 .. Size - 1 |-> IF k = 0 THEN 1 ELSE 0]
    /\ dmaAt = 0 /\ adcSem = TRUE /\ adcStep = "wait" /\ adcAt = 0
    /\ adcBufMean = [n \in 0 .. CHANNELS - 1 |-> 0]
    /\ strToView = "none" /\ viewStarted \in BOOLEAN
    /\ viewSem = FALSE /\ viewStep = "wait"
    /\ TelNetConn = "null" /\ telnetStep = "accept" /\ client = "none"
    /\ outOfRange = FALSE /\ intact = FALSE /\ unseen = FALSE /\ failed = FALSE

DamageInit ==
    /\ adcBuf = [k \in 0 .. Size - 1 |-> IF k = 0 THEN 1 ELSE 0]
    /\ dmaAt = 0 /\ adcSem = FALSE /\ adcStep = "wait" /\ adcAt = 0
    /\ adcBufMean = [n \in 0 .. CHANNELS - 1 |-> 0]
    /\ strToView = "none" /\ viewStarted \in BOOLEAN
    /\ viewSem = FALSE /\ viewStep = "wait"
    /\ TelNetConn = "null" /\ telnetStep = "accept" /\ client = "none"
    /\ outOfRange = FALSE /\ intact = FALSE /\ unseen = FALSE /\ failed = FALSE

(* One conversion; the last of a window releases the semaphore.            *)
Convert(v) ==
    /\ ~Halted
    /\ adcBuf' = [adcBuf EXCEPT ![dmaAt] = v]
    /\ dmaAt' = (dmaAt + 1) % Size
    /\ adcSem' = (adcSem \/ dmaAt = Size - 1)
    /\ outOfRange' = (outOfRange \/ Damaged(v))
    /\ UNCHANGED <<adcStep, adcAt, adcBufMean, viewVars, telnetVars, viewStarted>>

-----------------------------------------------------------------------------
(* The ADC task.                                                           *)
WindowDone ==
    /\ adcStep = "wait" /\ adcSem
    /\ adcSem' = FALSE
    /\ adcStep' = "mean" /\ adcAt' = 0
    /\ adcBufMean' = [n \in 0 .. CHANNELS - 1 |-> 0]
    /\ UNCHANGED <<adcBuf, dmaAt, outOfRange, viewVars, telnetVars, viewStarted>>

(* One sample of one channel, as the DMA has left it by now.               *)
AddSample ==
    LET n == adcAt \div ADC_WINDOW
        i == adcAt % ADC_WINDOW
        sum == adcBufMean[n] + adcBuf[CHANNELS * i + n]
    IN  /\ adcStep = "mean" /\ adcAt < Size
        /\ adcBufMean' = [adcBufMean EXCEPT
                            ![n] = IF i = ADC_WINDOW - 1 THEN sum \div ADC_WINDOW ELSE sum]
        /\ adcAt' = adcAt + 1
        /\ UNCHANGED <<adcBuf, dmaAt, adcSem, adcStep, outOfRange, viewVars,
                       telnetVars, viewStarted>>

AnyDamage == \E n \in 0 .. CHANNELS - 1 : Damaged(adcBufMean[n])

(* Damage: the text is formatted where STR_VIEW may just be reading it.    *)
Judge ==
    /\ adcStep = "mean" /\ adcAt = Size
    /\ IF AnyDamage THEN adcStep' = "format" /\ strToView' = "torn" /\ intact' = FALSE
                    ELSE adcStep' = "wait" /\ UNCHANGED <<strToView, intact>>
    /\ adcAt' = 0
    /\ adcBufMean' = [n \in 0 .. CHANNELS - 1 |-> 0]
    /\ UNCHANGED <<adcBuf, dmaAt, adcSem, outOfRange, viewSem, viewStep, unseen,
                   failed, telnetVars, viewStarted>>

(* Mutant: the semaphore is released before the text is ready.             *)
ReleaseAndStringCat ==
    /\ \/ /\ adcStep = "format"
          /\ viewSem' = viewStarted
          /\ adcStep' = IF viewStarted THEN "view" ELSE "halted"
          /\ failed' = FALSE
          /\ UNCHANGED <<strToView, unseen>>
       \/ /\ adcStep = "view"
          /\ strToView' = "whole" /\ unseen' = TRUE
          /\ adcStep' = "delay"
          /\ UNCHANGED <<viewSem, failed>>
    /\ UNCHANGED <<adcBuf, dmaAt, adcSem, adcAt, adcBufMean, outOfRange,
                   viewStep, intact, telnetVars, viewStarted>>

(* The text is completed, then its semaphore is released.                  *)
StringCatAndView ==
    /\ \/ /\ adcStep = "format"
          /\ strToView' = "whole" /\ unseen' = TRUE
          /\ adcStep' = "view"
          /\ UNCHANGED <<viewSem, failed>>
       \/ /\ adcStep = "view"
          /\ viewSem' = viewStarted
          /\ adcStep' = IF viewStarted THEN "delay" ELSE "halted"
          /\ failed' = FALSE
          /\ UNCHANGED <<strToView, unseen>>
    /\ UNCHANGED <<adcBuf, dmaAt, adcSem, adcAt, adcBufMean, outOfRange,
                   viewStep, intact, telnetVars, viewStarted>>

(* STR_VIEW can go on: it is not waiting for its semaphore or the client.  *)
ViewReady ==
    /\ viewStep # "hung"
    /\ viewStep = "wait" => viewSem
    /\ viewStep = "writing" => client # "stalled"

(* osDelay(100) is longer than what a task of the same priority has to do; *)
(* then nobody else runs for 3.3 s.                                        *)
Pause ==
    /\ adcStep = "delay" /\ ~ViewReady
    /\ adcStep' = "pause"
    /\ UNCHANGED <<adcBuf, dmaAt, adcSem, adcAt, adcBufMean, outOfRange,
                   viewVars, telnetVars, viewStarted>>

GoOn ==
    /\ adcStep = "pause"
    /\ adcStep' = "wait"
    /\ UNCHANGED <<adcBuf, dmaAt, adcSem, adcAt, adcBufMean, outOfRange,
                   viewVars, telnetVars, viewStarted>>

AdcTask ==
    /\ ~Halted
    /\ \/ WindowDone \/ AddSample \/ Judge
       \/ StringCatAndView \/ Pause \/ GoOn

-----------------------------------------------------------------------------
(* STR_VIEW: TelNetConn is tested, and read again for the write.           *)
ViewRuns == viewStarted /\ ~Suspended /\ ~Halted

viewAlone == <<adcVars, strToView, unseen, telnetVars, viewStarted>>

TextReady ==
    /\ ViewRuns /\ viewStep = "wait" /\ viewSem
    /\ viewSem' = FALSE
    /\ viewStep' = "test"
    /\ UNCHANGED <<viewAlone, intact, failed>>

ConnTested ==
    /\ ViewRuns /\ viewStep = "test"
    /\ viewStep' = IF TelNetConn = "null" THEN "wait" ELSE "call"
    /\ UNCHANGED <<viewAlone, viewSem, intact, failed>>

(* lwIP refuses a null connection, and a second write on a live one while  *)
(* CLI_TCP's is under way.                                                 *)
CallWrite ==
    /\ ViewRuns /\ viewStep = "call"
    /\ intact' = (strToView = "whole")
    /\ \/ /\ TelNetConn = "deleted"
          /\ viewStep' = "dangling" /\ UNCHANGED failed
       \/ /\ TelNetConn = "live" /\ telnetStep # "writing"
          /\ viewStep' = "writing" /\ UNCHANGED failed
       \/ /\ TelNetConn = "null" \/ (TelNetConn = "live" /\ telnetStep = "writing")
          /\ viewStep' = "wait" /\ failed' = TRUE
    /\ UNCHANGED <<viewAlone, viewSem>>

(* A client that takes nothing holds the write up.                         *)
WriteText ==
    /\ ViewRuns /\ viewStep = "writing" /\ client # "stalled"
    /\ viewStep' = "wait"
    /\ unseen' = (unseen /\ ~(client = "reading" /\ intact))
    /\ UNCHANGED <<adcVars, strToView, viewSem, intact, failed, telnetVars, viewStarted>>

(* A write may fail for want of memory or of the network; nobody looks.    *)
WriteFails ==
    /\ ViewRuns /\ viewStep = "writing"
    /\ viewStep' = "wait"
    /\ failed' = TRUE
    /\ UNCHANGED <<viewAlone, viewSem, intact>>

(* A write on a deleted connection uses memory that is free: it returns,   *)
(* waits for ever on what is no semaphore, or stops the board.             *)
WriteDangles ==
    /\ ViewRuns /\ viewStep = "dangling"
    /\ viewStep' \in {"wait", "hung", "fault"}
    /\ failed' = TRUE
    /\ UNCHANGED <<viewAlone, viewSem, intact>>

ViewTask ==
    TextReady \/ ConnTested \/ CallWrite \/ WriteText \/ WriteFails \/ WriteDangles

-----------------------------------------------------------------------------
(* CLI_TCP: netconn_accept clears the pointer it is given and fills it     *)
(* when a client has come; the deleted connection is not cleared.          *)
TelnetRuns == ~Suspended /\ ~Halted

Listen ==
    /\ TelnetRuns /\ telnetStep = "loop"
    /\ TelNetConn' = "null"
    /\ telnetStep' = "accept"
    /\ UNCHANGED <<adcVars, viewVars, client, viewStarted>>

(* The welcome message follows.                                            *)
Accept ==
    /\ TelnetRuns /\ telnetStep = "accept" /\ client # "none"
    /\ TelNetConn' = "live"
    /\ telnetStep' = "call"
    /\ unseen' = FALSE
    /\ UNCHANGED <<adcVars, strToView, viewSem, viewStep, intact, failed, client,
                   viewStarted>>

(* A line has come; the answer is one write or several.                    *)
Command ==
    /\ TelnetRuns /\ telnetStep = "serve" /\ client # "none"
    /\ telnetStep' = "call"
    /\ UNCHANGED <<adcVars, viewVars, TelNetConn, client, viewStarted>>

(* What STR_VIEW's write under way makes lwIP refuse is not sent.          *)
CallAnswer ==
    /\ TelnetRuns /\ telnetStep = "call"
    /\ telnetStep' = IF viewStep = "writing" THEN "serve" ELSE "writing"
    /\ UNCHANGED <<adcVars, viewVars, TelNetConn, client, viewStarted>>

WriteAnswer ==
    /\ TelnetRuns /\ telnetStep = "writing" /\ client # "stalled"
    /\ telnetStep' \in {"call", "serve"}
    /\ UNCHANGED <<adcVars, viewVars, TelNetConn, client, viewStarted>>

(* The connection is deleted though STR_VIEW may be writing on it.         *)
CloseDelete ==
    /\ TelnetRuns /\ telnetStep = "serve" /\ client = "gone"
    /\ TelNetConn' = "deleted"
    /\ telnetStep' = "loop"
    /\ client' = "none"
    /\ viewStep' = IF viewStep = "writing" THEN "dangling" ELSE viewStep
    /\ UNCHANGED <<adcVars, strToView, viewSem, intact, unseen, failed, viewStarted>>

TelnetTask == Listen \/ Accept \/ Command \/ CallAnswer \/ WriteAnswer \/ CloseDelete

(* The client comes, stops and goes on reading, and leaves.                *)
ClientTurns ==
    /\ ~Halted
    /\ \/ client = "none" /\ client' = "reading"
       \/ client = "reading" /\ client' \in {"stalled", "gone"}
       \/ client = "stalled" /\ client' \in {"reading", "gone"}
    /\ UNCHANGED <<adcVars, viewVars, TelNetConn, telnetStep, viewStarted>>

DamageNext ==
    \/ \E v \in Levels : Convert(v)
    \/ AdcTask \/ ViewTask \/ TelnetTask \/ ClientTurns

-----------------------------------------------------------------------------
DamageTypeOK ==
    /\ adcBuf \in [0 .. Size - 1 -> Nat] /\ dmaAt \in 0 .. Size - 1
    /\ adcStep \in {"wait", "mean", "format", "view", "delay", "pause", "halted"}
    /\ adcAt \in 0 .. Size /\ adcBufMean \in [0 .. CHANNELS - 1 -> Nat]
    /\ strToView \in {"none", "torn", "whole"}
    /\ viewStep \in {"wait", "test", "call", "writing", "dangling", "hung", "fault"}
    /\ TelNetConn \in {"null", "live", "deleted"}
    /\ telnetStep \in {"loop", "accept", "call", "writing", "serve"}
    /\ client \in {"none", "reading", "stalled", "gone"}
    /\ {adcSem, viewSem, viewStarted, outOfRange, intact, unseen, failed} \subseteq BOOLEAN

(* However the DMA overtakes the averaging, damage is shown only after a   *)
(* sample was out of range: what the buffer held before the first window   *)
(* is never judged (app_adc.c:76, :98-103, :135-137).                      *)
NoFalseAlarm ==
    adcStep \in {"format", "view", "delay", "pause", "halted"} => outOfRange

(* A text that is ready reaches, whole, the client that was connected by   *)
(* then and reads, whatever STR_VIEW was doing when it was formatted, and  *)
(* though one semaphore stands for many texts (app_viewString.c:47-64,     *)
(* :100-109).  It does not when a write of STR_VIEW fails, whose result is *)
(* ignored (:60): lwIP refuses it while CLI_TCP writes on the connection,  *)
(* or it used a deleted one, which may also stop STR_VIEW or the board.  A *)
(* program that does not start STR_VIEW never sends a text.                *)
TextArrives ==
    (viewStarted /\ unseen /\ TelNetConn = "live" /\ client = "reading")
        ~> (~unseen \/ failed \/ client # "reading" \/ viewStep \in {"hung", "fault"})

DamageFairness ==
    WF_damageVars(AdcTask) /\ WF_damageVars(ViewTask)

DamageSpec == DamageInit /\ [][DamageNext]_damageVars /\ DamageFairness
=============================================================================
