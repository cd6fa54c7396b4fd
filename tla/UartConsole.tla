---------------------------- MODULE UartConsole ----------------------------
(***************************************************************************)
(* The command console on the serial port, CLIconsole_UART.c: the receive  *)
(* interrupt queues characters, a task edits and executes the line, and    *)
(* everything that is put on the port is started in the HAL and then       *)
(* waited for, for a limited time.  Other tasks write through              *)
(* vOutputString and vOutputChar.  The model begins when the port is       *)
(* initialised.  Texts are named by the place that sends them.             *)
(***************************************************************************)
EXTENDS Integers, SequencesExt, FiniteSets

CONSTANTS
    Console,      \* the console's task
    Writers,      \* the tasks that call vOutputString or vOutputChar
    Printable,    \* characters from ' ' to '~'
    cmdQUEUE_LENGTH, cmdMAX_INPUT_SIZE,
    MaxKeys, MaxWrites, MaxLate \* bounds: keys typed, messages, waits expired

Keys == Printable \union {"cr", "bs"}
Threads == {Console} \union Writers

ASSUME UartAssumption ==
    /\ Console \notin Writers /\ "free" \notin Threads
    /\ cmdQUEUE_LENGTH \in Nat /\ cmdMAX_INPUT_SIZE \in Nat
    /\ MaxKeys \in Nat /\ MaxWrites \in Nat /\ MaxLate \in Nat

VARIABLES
    xRxedChars,       \* the queue of received characters
    receiving,        \* HAL_UART_Receive_IT waits for a character
    xTxMutex,         \* the thread that holds it, or "free"
    xTxSemaphore,     \* 1: given
    sending,          \* the text the port is sending, or "none"
    stage,            \* per thread: what it waits for or puts on the port
    step,             \* per thread, of a put: "put", "locked" (in the HAL), "wait"
    cRxedChar,        \* the character in the console's hand
    cInputString,     \* its first ucInputIndex characters
    cLastInputString,
    typed, executed,  \* histories: keys pressed, lines executed
    spelt,            \* history: what the keys mean, before the first and after each
    astray,           \* history: a key never reached the line
    overrun,          \* history: a line filled its buffer to the last byte
    late,             \* history: waits for the semaphore that expired
    dropped,          \* history: texts that the HAL turned away
    garbled,          \* history: a buffer was reused while it was being sent
    unguarded,        \* history: a thread wrote into the welcome message's wait
    writes            \* messages begun

uartLine    == <<cRxedChar, cInputString, cLastInputString, executed, overrun>>
uartReceive == <<xRxedChars, receiving, typed, spelt, astray>>
uartPort    == <<xTxSemaphore, sending, late, dropped, unguarded>>
uartVars    == <<uartReceive, xTxMutex, uartPort, stage, step, uartLine, garbled, writes>>

PutStages == {"welcome", "echo", "newline", "output", "end", "message"}
Stages == PutStages \union {"read", "lock", "idle", "fault"}
Puts(t) == stage[t] \in PutStages
IsLocked == \E t \in Threads : step[t] = "locked"

(* Mutant: the line has no limit. *)
EditedOn(key, line) ==
    CASE key = "bs"       -> IF line = <<>> THEN line ELSE Front(line)
      [] key \in Printable -> Append(line, key)

Edited(key, line) ==
    CASE key = "bs"       -> IF line = <<>> THEN line ELSE Front(line)
      [] key \in Printable -> IF Len(line) < cmdMAX_INPUT_SIZE
                              THEN Append(line, key) ELSE line

(* What the keys mean, one after the other: the line they have spelt so    *)
(* far, the last one and all that are done.  It is what the task is        *)
(* compared with.                                                          *)
Nothing == [line |-> <<>>, last |-> <<>>, done |-> <<>>]

Meaning(m, key) ==
    IF key = "cr"
      THEN LET line == IF m.line = <<>> THEN m.last ELSE m.line
           IN  [line |-> <<>>, last |-> line, done |-> Append(m.done, line)]
      ELSE [m EXCEPT !.line = Edited(key, m.line)]

UartInit ==
    /\ xRxedChars = <<>> /\ receiving = TRUE
    /\ xTxMutex = "free" /\ xTxSemaphore = 0 /\ sending = "none"
    /\ stage = [t \in Threads |-> IF t = Console THEN "welcome" ELSE "idle"]
    /\ step = [t \in Threads |-> "put"]
    /\ cRxedChar = "cr" /\ cInputString = <<>> /\ cLastInputString = <<>>
    /\ typed = <<>> /\ spelt = <<Nothing>> /\ executed = <<>> /\ astray = FALSE /\ overrun = FALSE
    /\ late = 0 /\ dropped = 0 /\ garbled = FALSE /\ unguarded = FALSE
    /\ writes = 0

-----------------------------------------------------------------------------
(* The receiver.  The interrupt re-arms it through the HAL, which refuses  *)
(* while a thread is inside HAL_UART_Transmit_IT; the result is ignored.   *)
RxCpltCallback(key) ==
    /\ Len(typed) < MaxKeys
    /\ typed' = Append(typed, key)
    /\ spelt' = Append(spelt, Meaning(Last(spelt), key))
    /\ IF receiving /\ Len(xRxedChars) < cmdQUEUE_LENGTH
         THEN xRxedChars' = Append(xRxedChars, key) /\ UNCHANGED astray
         ELSE astray' = TRUE /\ UNCHANGED xRxedChars
    /\ receiving' = (receiving /\ ~IsLocked)
    /\ UNCHANGED <<xTxMutex, uartPort, stage, step, uartLine, garbled, writes>>

(* HAL_UART_ErrorCallback does nothing: nobody listens any more.           *)
ErrorCallback ==
    /\ receiving
    /\ receiving' = FALSE
    /\ UNCHANGED <<xRxedChars, typed, spelt, astray, xTxMutex, uartPort, stage, step,
                   uartLine, garbled, writes>>

(* The last byte has left; the interrupt gives the semaphore.              *)
TxCpltCallback ==
    /\ sending # "none"
    /\ sending' = "none"
    /\ xTxSemaphore' = 1
    /\ UNCHANGED <<late, dropped, unguarded, uartReceive, xTxMutex, stage, step,
                   uartLine, garbled, writes>>

-----------------------------------------------------------------------------
(* vSerialPutString and xSerialPutChar: start the transmission, ignore the *)
(* HAL's refusal, wait for the semaphore.                                  *)
Transmit(t) ==
    /\ Puts(t) /\ step[t] = "put"
    /\ IF sending # "none" \/ IsLocked
         THEN step' = [step EXCEPT ![t] = "wait"] /\ dropped' = dropped + 1
         ELSE step' = [step EXCEPT ![t] = "locked"] /\ UNCHANGED dropped
    /\ unguarded' = \/ unguarded
                    \/ stage[Console] = "welcome" /\ \E w \in Writers : Puts(w)
    /\ UNCHANGED <<xTxSemaphore, sending, late, uartReceive, xTxMutex, stage,
                   uartLine, garbled, writes>>

TransmitStarts(t) ==
    /\ step[t] = "locked"
    /\ step' = [step EXCEPT ![t] = "wait"]
    /\ sending' = stage[t]
    /\ UNCHANGED <<xTxSemaphore, late, dropped, unguarded, uartReceive, xTxMutex,
                   stage, uartLine, garbled, writes>>

(* xSemaphoreTake: 44 ms for a text, of which the longest takes 44.4 ms on *)
(* the wire; for a character one tick, which may be any part of a tick.    *)
WaitEnds(t) ==
    /\ Puts(t) /\ step[t] = "wait"
    /\ \/ /\ xTxSemaphore = 1
          /\ xTxSemaphore' = 0 /\ UNCHANGED late
       \/ /\ xTxSemaphore = 0 /\ late < MaxLate
          /\ late' = late + 1 /\ UNCHANGED xTxSemaphore
    /\ step' = [step EXCEPT ![t] = "put"]
    /\ UNCHANGED <<sending, dropped, unguarded>>

(* The text has been left to its owner, who may change it.                 *)
Left(text) == garbled' = (garbled \/ sending = text)

-----------------------------------------------------------------------------
(* vOutputString and vOutputChar.  A mutex that does not come in time      *)
(* drops the message.                                                      *)
OutputString(w) ==
    /\ stage[w] = "idle" /\ writes < MaxWrites
    /\ stage' = [stage EXCEPT ![w] = "lock"]
    /\ writes' = writes + 1
    /\ UNCHANGED <<uartReceive, xTxMutex, uartPort, step, uartLine, garbled>>

(* Mutant: does not take the mutex. *)
OutputLocksNot(w) ==
    /\ stage[w] = "lock"
    /\ stage' = [stage EXCEPT ![w] = "message"]
    /\ UNCHANGED <<xTxMutex, uartReceive, uartPort, step, uartLine, garbled, writes>>

OutputLocks(w) ==
    /\ stage[w] = "lock"
    /\ \/ /\ xTxMutex = "free"
          /\ xTxMutex' = w
          /\ stage' = [stage EXCEPT ![w] = "message"]
       \/ /\ xTxMutex # "free"
          /\ stage' = [stage EXCEPT ![w] = "idle"]
          /\ UNCHANGED xTxMutex
    /\ UNCHANGED <<uartReceive, uartPort, step, uartLine, garbled, writes>>

(* The mutex is given back.                                                *)
Written(w) ==
    /\ stage[w] = "message"
    /\ WaitEnds(w)
    /\ xTxMutex' = "free"
    /\ stage' = [stage EXCEPT ![w] = "idle"]
    /\ Left("message")
    /\ UNCHANGED <<uartReceive, uartLine, writes>>

Writer(w) == OutputString(w) \/ OutputLocks(w) \/ Written(w)

-----------------------------------------------------------------------------
(* prvUARTCommandConsoleTask.                                              *)
To(s) == stage' = [stage EXCEPT ![Console] = s]

(* The welcome message is sent without the mutex.                          *)
Welcomed ==
    /\ stage[Console] = "welcome"
    /\ WaitEnds(Console)
    /\ To("read")
    /\ UNCHANGED <<uartReceive, xTxMutex, uartLine, garbled, writes>>

ReadKey ==
    /\ stage[Console] = "read" /\ xRxedChars # <<>>
    /\ cRxedChar' = Head(xRxedChars)
    /\ xRxedChars' = Tail(xRxedChars)
    /\ To("lock")
    /\ UNCHANGED <<receiving, typed, spelt, astray, xTxMutex, uartPort, step, cInputString,
                   cLastInputString, executed, overrun, garbled, writes>>

(* A mutex that does not come within 300 ms drops the character.           *)
ConsoleLocks ==
    /\ stage[Console] = "lock"
    /\ \/ /\ xTxMutex = "free"
          /\ xTxMutex' = Console
          /\ To("echo")
          /\ UNCHANGED astray
       \/ /\ xTxMutex # "free"
          /\ To("read")
          /\ astray' = TRUE
          /\ UNCHANGED xTxMutex
    /\ UNCHANGED <<xRxedChars, receiving, typed, spelt, uartPort, step, uartLine, garbled,
                   writes>>

EditLine ==
    /\ stage[Console] = "echo" /\ cRxedChar # "cr"
    /\ WaitEnds(Console)
    /\ Left("echo")
    /\ cInputString' = Edited(cRxedChar, cInputString)
    /\ xTxMutex' = "free"
    /\ To("read")
    /\ UNCHANGED <<uartReceive, cRxedChar, cLastInputString, executed, overrun, writes>>

NewLine ==
    /\ stage[Console] = "echo" /\ cRxedChar = "cr"
    /\ WaitEnds(Console)
    /\ Left("echo")
    /\ To("newline")
    /\ UNCHANGED <<uartReceive, xTxMutex, uartLine, writes>>

(* Mutant: an empty line is executed as it is. *)
LineTyped == cInputString

Line == IF cInputString = <<>> THEN cLastInputString ELSE cInputString

(* FreeRTOS_CLIProcessCommand writes its one output buffer.  A line of     *)
(* cmdMAX_INPUT_SIZE characters has no end: what follows it in memory is   *)
(* executed too when that is the last command.                             *)
ProcessCommand ==
    /\ stage[Console] = "newline"
    /\ WaitEnds(Console)
    /\ Left("output")
    /\ cInputString' = Line
    /\ overrun' = (overrun \/ Len(cInputString) = cmdMAX_INPUT_SIZE)
    /\ \/ executed' = Append(executed, Line)
       \/ /\ Len(cInputString) = cmdMAX_INPUT_SIZE
          /\ executed' = Append(executed, cInputString \o cLastInputString)
    /\ To("output")
    /\ UNCHANGED <<uartReceive, xTxMutex, cRxedChar, cLastInputString, writes>>

(* pdTRUE: the command has more to say.                                    *)
MoreOutput ==
    /\ stage[Console] = "output"
    /\ WaitEnds(Console)
    /\ Left("output")
    /\ UNCHANGED <<uartReceive, xTxMutex, stage, uartLine, writes>>

(* The strcpy of a line without end may run over itself until it faults.   *)
CommandEnds ==
    /\ stage[Console] = "output"
    /\ WaitEnds(Console)
    /\ IF Len(cInputString) = cmdMAX_INPUT_SIZE
         THEN To("end") \/ To("fault")
         ELSE To("end")
    /\ cLastInputString' = cInputString
    /\ cInputString' = <<>>
    /\ UNCHANGED <<uartReceive, xTxMutex, cRxedChar, executed, overrun, garbled, writes>>

MutexGiven ==
    /\ stage[Console] = "end"
    /\ WaitEnds(Console)
    /\ xTxMutex' = "free"
    /\ To("read")
    /\ UNCHANGED <<uartReceive, uartLine, garbled, writes>>

ConsoleTask ==
    \/ Welcomed \/ ReadKey \/ ConsoleLocks \/ EditLine \/ NewLine
    \/ ProcessCommand \/ MoreOutput \/ CommandEnds \/ MutexGiven

UartNext ==
    \/ \E key \in Keys : RxCpltCallback(key)
    \/ ErrorCallback \/ TxCpltCallback
    \/ \E t \in Threads : Transmit(t) \/ TransmitStarts(t)
    \/ \E w \in Writers : Writer(w)
    \/ ConsoleTask

UartSpec == UartInit /\ [][UartNext]_uartVars

-----------------------------------------------------------------------------
UartTypeOK ==
    /\ xRxedChars \in Seq(Keys) /\ Len(xRxedChars) <= cmdQUEUE_LENGTH
    /\ receiving \in BOOLEAN
    /\ xTxMutex \in Threads \union {"free"} /\ xTxSemaphore \in {0, 1}
    /\ sending \in PutStages \union {"none"}
    /\ stage \in [Threads -> Stages]
    /\ step \in [Threads -> {"put", "locked", "wait"}]
    /\ cRxedChar \in Keys
    /\ cInputString \in Seq(Printable) /\ Len(cInputString) <= cmdMAX_INPUT_SIZE
    /\ cLastInputString \in Seq(Printable)
    /\ typed \in Seq(Keys) /\ executed \in Seq(Seq(Printable))
    /\ spelt \in Seq([line : Seq(Printable), last : Seq(Printable),
                      done : Seq(Seq(Printable))])
    /\ {astray, overrun, garbled, unguarded} \subseteq BOOLEAN
    /\ late \in Nat /\ dropped \in Nat /\ writes \in Nat

(* The HAL turns away no more texts (HAL_UART_Transmit_IT's result is      *)
(* ignored, CLIconsole_UART.c:230, :236) than waits for the semaphore have *)
(* expired, and no buffer is reused under the transmitter before one has.  *)
(* A wait that expires leaves its own end behind as a semaphore that is    *)
(* given too early, and that is paid back by one lost text, never more.    *)
(* The welcome message, sent without the mutex (:76), is the exception     *)
(* when another thread writes at that moment.                              *)
OutputLossIsLate ==
    ~unguarded => dropped <= late /\ (garbled => late > 0)

(* Whenever the task reads the next character (CLIconsole_UART.c:80), it   *)
(* has executed exactly the lines that the keys before it spell, in order, *)
(* however late or mangled its output: unless the queue, the mutex or the  *)
(* receiver lost a key, or a line filled its buffer to the last byte.      *)
CommandIsTyped ==
    stage[Console] = "read" /\ ~astray /\ ~overrun =>
        executed = spelt[1 + Len(typed) - Len(xRxedChars)].done

=============================================================================
