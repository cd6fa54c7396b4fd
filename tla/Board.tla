------------------------------- MODULE Board -------------------------------
(***************************************************************************)
(* The boards' smaller parts: the run-time clock, the serial console, the  *)
(* slide show, the Modbus slave's registers and the damage analyser.       *)
(* Programs run some of them together.  They then share the processor: no  *)
(* part says how fast a task or an interrupt of it is.  The clock, the     *)
(* show and the analyser share TIM2: that the other two program it is a    *)
(* step of the clock's (ProgramTIM2), and they themselves convert and draw *)
(* at any moment, whatever its period.  What else they share is data that  *)
(* no part's model holds: the clock's date in the analyser's text, the     *)
(* picture under its alarm, the commands' output buffer.  So the variables *)
(* are disjoint, and the part chosen at the start is watched while the     *)
(* others stand still: the states to explore are a sum, not a product.     *)
(***************************************************************************)
EXTENDS HrTime, UartConsole, SlideShow, ModbusRegs, DamageMonitor

VARIABLE observed

partVars == <<hrVars, uartVars, showVars, mbVars, damageVars>>
boardVars == <<partVars, observed>>

Parts == {"clock", "console", "show", "registers", "damage"}

(* What does not matter of the parts that stand still is fixed.            *)
BoardInit ==
    /\ observed \in Parts
    /\ HrInit /\ UartInit /\ ShowInit /\ MbInit /\ DamageInit
    /\ observed # "clock" => others = {}
    /\ observed # "show" => behind = Elsewhere
    /\ observed # "registers" => mbRequest = CHOOSE r \in RegRequests : TRUE
    /\ observed # "damage" => viewStarted

OnlyShow ==
    /\ observed = "show"
    /\ UNCHANGED <<hrVars, uartVars, mbVars, damageVars, observed>>

OnlyDamage ==
    /\ observed = "damage"
    /\ UNCHANGED <<hrVars, uartVars, showVars, mbVars, observed>>

(* One part moves; what another does to it is among its own steps.         *)
BoardNext ==
    \/ /\ observed = "clock" /\ HrNext
       /\ UNCHANGED <<uartVars, showVars, mbVars, damageVars, observed>>
    \/ /\ observed = "console" /\ UartNext
       /\ UNCHANGED <<hrVars, showVars, mbVars, damageVars, observed>>
    \/ /\ observed = "registers" /\ MbNext
       /\ UNCHANGED <<hrVars, uartVars, showVars, damageVars, observed>>
    \/ OnlyShow /\ ShowNext
    \/ OnlyDamage /\ DamageNext

(* The fairness the parts assume of their tasks, for the part observed.    *)
BoardFairness ==
    /\ WF_boardVars(OnlyShow /\ ShowTask)
    /\ WF_boardVars(OnlyShow /\ TransferComplete)
    /\ WF_boardVars(OnlyDamage /\ AdcTask)
    /\ WF_boardVars(OnlyDamage /\ ViewTask)

BoardSpec == BoardInit /\ [][BoardNext]_boardVars /\ BoardFairness

-----------------------------------------------------------------------------
(* Type correctness of every part's state.                                 *)
TypeOK ==
    /\ observed \in Parts
    /\ HrTypeOK /\ UartTypeOK /\ ShowTypeOK /\ MbTypeOK /\ DamageTypeOK

(* The slide show, when the board runs one, goes on for ever               *)
(* (app_slideshow.c:93-181).                                               *)
ShowGoesOn == (observed = "show") => KeepsShowing
=============================================================================
