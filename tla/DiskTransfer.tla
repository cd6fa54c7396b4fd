---------------------------- MODULE DiskTransfer ----------------------------
(***************************************************************************)
(* What a disk driver promises FatFs about one read or write at a time:    *)
(* the call starts a transfer of the kind it asked for, and answers RES_OK *)
(* only after that very transfer moved its data.                           *)
(***************************************************************************)
VARIABLES phase,   \* the transfer of the call in progress
          kind,    \* "none", or what the call asked for
          result   \* the answer of the last read or write

tvars == <<phase, kind, result>>

Kinds == {"read", "write"}

Init == phase = "none" /\ kind = "none" /\ result = "NONE"

\* The driver accepts a call and starts its transfer, or refuses it at once.
Start(k) == /\ phase = "none"
            /\ phase' = "moving" /\ kind' = k /\ result' = "NONE"

Refuse == /\ phase = "none"
          /\ result' = "RES_ERROR"
          /\ UNCHANGED <<phase, kind>>

\* The hardware ends the transfer, well or not.
Complete == phase = "moving" /\ phase' = "moved"  /\ UNCHANGED <<kind, result>>
Fail     == phase = "moving" /\ phase' = "failed" /\ UNCHANGED <<kind, result>>

\* Success needs the data; an error may be answered at any time.
Return(r) == /\ phase # "none"
             /\ r = "RES_OK" => phase = "moved"
             /\ phase' = "none" /\ kind' = "none" /\ result' = r

\* A call of another sort comes in between: the answer is forgotten.
Forget == phase = "none" /\ result' = "NONE" /\ UNCHANGED <<phase, kind>>

Next == \/ \E k \in Kinds : Start(k)
        \/ Refuse \/ Complete \/ Fail \/ Forget
        \/ \E r \in {"RES_OK", "RES_ERROR"} : Return(r)

Spec == Init /\ [][Next]_tvars
=============================================================================
