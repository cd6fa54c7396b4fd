---------------------------- MODULE RegisterFile ----------------------------
(***************************************************************************)
(* What the slave promises a master about its holding registers: a request *)
(* writes all of its registers or none, what a reply reads is what was     *)
(* last written, and a refused request leaves the registers alone, unless  *)
(* only the second half of a combined one is refused.  A write also sets   *)
(* the clock, from as many registers as there are fields.                  *)
(***************************************************************************)
EXTENDS Integers, Sequences

CONSTANTS
    N,        \* registers, numbered from 0
    Fields,   \* fields of the clock
    Base,     \* values of a field
    Unknown   \* a field that no register stands for

VARIABLES
    registers, clock,
    request,  \* [refusal, write, at, read, from, silent]
    stage,    \* "idle", "asked", "written"
    reply     \* [kind, values]

rvars == <<registers, clock, request, stage, reply>>

Inside(at, n) == at + n <= N

Overwritten(regs, at, values) ==
    [k \in 0 .. N - 1 |-> IF k \in at .. at + Len(values) - 1
                          THEN values[k - at + 1] ELSE regs[k]]

Window(regs, at) ==
    [f \in 0 .. Fields - 1 |-> IF at + f < N THEN regs[at + f] % Base ELSE Unknown]

Values(from, n) == [i \in 1 .. n |-> registers[from + i - 1]]

Init ==
    /\ registers = [k \in 0 .. N - 1 |-> 0]
    /\ clock = [f \in 0 .. Fields - 1 |-> Unknown]
    /\ stage = "idle"
    /\ reply = [kind |-> "none", values |-> <<>>]

(* A request: what is wrong with it or "none", the values to write, how many to *)
(* read (0: none), and whether it was sent to everybody.                   *)
Ask ==
    /\ stage = "idle"
    /\ stage' = "asked"
    /\ reply' = [kind |-> "none", values |-> <<>>]
    /\ UNCHANGED <<registers, clock>>

Commit ==
    /\ stage = "asked" /\ request.refusal = "none" /\ request.write # <<>>
    /\ Inside(request.at, Len(request.write))
    /\ registers' = Overwritten(registers, request.at, request.write)
    /\ clock' = Window(registers', request.at)
    /\ stage' = "written"
    /\ UNCHANGED <<request, reply>>

Answer(kind, values) ==
    /\ stage' = "idle"
    /\ reply' = IF request.silent THEN [kind |-> "none", values |-> <<>>]
                ELSE [kind |-> kind, values |-> values]
    /\ UNCHANGED <<registers, clock, request>>

Refuse ==
    /\ stage = "asked" /\ request.refusal # "none"
    /\ Answer(request.refusal, <<>>)

RefuseWrite ==
    /\ stage = "asked" /\ request.refusal = "none" /\ request.write # <<>>
    /\ ~Inside(request.at, Len(request.write))
    /\ Answer("illegalAddress", <<>>)

Confirm ==
    /\ stage = "written" /\ request.read = 0
    /\ Answer("written", <<>>)

Report ==
    /\ request.refusal = "none" /\ request.read > 0
    /\ \/ stage = "written"
       \/ stage = "asked" /\ request.write = <<>>
    /\ IF Inside(request.from, request.read)
         THEN Answer("values", Values(request.from, request.read))
         ELSE Answer("illegalAddress", <<>>)

Next == Ask \/ Commit \/ Refuse \/ RefuseWrite \/ Confirm \/ Report

Spec == Init /\ [][Next]_rvars
=============================================================================
