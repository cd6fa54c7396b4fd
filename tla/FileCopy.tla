------------------------------ MODULE FileCopy ------------------------------
(***************************************************************************)
(* What an upload promises its client: the file grows block by block, the  *)
(* client is told of no more blocks than were copied, and the copy is kept *)
(* once it is complete, in a step of its own behind all the others: the    *)
(* client may know of the last block before.                               *)
(***************************************************************************)
EXTENDS Naturals

CONSTANT N  \* blocks of the file

VARIABLES copied,  \* blocks copied so far
          told,    \* blocks the client knows to be copied
          kept     \* whether the directory entry covers the copy

cvars == <<copied, told, kept>>

Init == copied = 0 /\ told = 0 /\ kept = FALSE

Copy == /\ copied < N
        /\ copied' = copied + 1
        /\ UNCHANGED <<told, kept>>

Tell == /\ told' \in told + 1 .. copied
        /\ UNCHANGED <<copied, kept>>

Finish == copied = N /\ kept' = TRUE /\ UNCHANGED <<copied, told>>

Next == Copy \/ Tell \/ Finish

Spec == Init /\ [][Next]_cvars
=============================================================================
