----------------------------- MODULE TftpServer -----------------------------
(***************************************************************************)
(* The TFTP server of lwip_TFTP (tftpserver.c, tftputils.c).  lwIP runs    *)
(* without an operating system: one callback handles one datagram, and no  *)
(* two callbacks overlap.  The network and the clients do not wait for it: *)
(* an upload's last acknowledgement leaves before its file is closed, so   *)
(* that callback takes two steps.                                          *)
(*                                                                         *)
(* Every transfer has a UDP pcb on a port of its own, but all transfers    *)
(* share one FIL for reading, one for writing and one volume, and every    *)
(* request and every clean-up mounts or unmounts that volume, which        *)
(* invalidates both files (FatFs compares mount ids).                      *)
(*                                                                         *)
(* A file is the sequence of its 512-byte blocks: <<c, i>> is block i of   *)
(* the file that client c reads or writes.  The last one is shorter.       *)
(***************************************************************************)
EXTENDS Naturals, FiniteSets, Sequences

CONSTANTS Clients,      \* the remote address and port of each transfer
          NBlocks,      \* DATA packets a file is sent in
          LastLen,      \* what the last of them carries: "part" or "empty"
          BlockMod,     \* 2^16: block numbers travel as u16_t
          MaxPort,      \* bound: how many ephemeral ports are ever bound
          MaxPcb,       \* MEMP_NUM_UDP_PCB, less the one on port 69
          Keep          \* the packets the network may deliver twice

ASSUME TftpAssumption ==
  /\ NBlocks \in Nat \ {0} /\ BlockMod \in Nat \ {0}
  /\ LastLen \in {"part", "empty"}
  /\ MaxPort \in Nat /\ MaxPcb \in Nat
  /\ Clients # {}

Ports == 1 .. MaxPort

VARIABLES
  pcb,      \* the pcb on each port: its callback and its tftp_connection_args
  nextPort, \* the next ephemeral port of udp_bind(.., 0)
  file_SD,  \* the file being read: valid, whose it is, blocks read
  file_CR,  \* the file being written: valid, whose it is, blocks written
  disk,     \* what the directory entry of each client's file covers
  healthy,  \* whether the card and the heap do all they are asked for
  net       \* datagrams under way

serverVars == <<pcb, nextPort, file_SD, file_CR, disk>>

NoPcb == [use |-> "free", block |-> 0, len |-> "full"]

ServerInit ==
  /\ pcb = [p \in Ports |-> NoPcb]
  /\ nextPort = 1
  /\ file_SD = [ok |-> FALSE, owner |-> CHOOSE c \in Clients : TRUE, read |-> 0]
  /\ file_CR = [ok |-> FALSE, owner |-> CHOOSE c \in Clients : TRUE, written |-> <<>>]
  /\ disk = [c \in Clients |-> <<>>]

----------------------------------------------------------------------------
(* Datagrams.                                                              *)

Datagram(to, op, c, p, b, len, i) ==
  [to |-> to, op |-> op, client |-> c, port |-> p,
   block |-> b % BlockMod, len |-> len, data |-> <<c, i>>]

Ack(c, p, b)     == Datagram("client", "ACK", c, p, b, "empty", 0)
Error(c, p)      == Datagram("client", "ERROR", c, p, 0, "part", 0)

\* One datagram leaves the network, unless it is duplicated; replies enter it.
Deliver(m, replies) ==
  /\ m \in net
  /\ \E kept \in IF m.op \in Keep THEN {{}, {m}} ELSE {{}} :
       net' = (net \ {m}) \cup kept \cup replies

----------------------------------------------------------------------------
(* FatFs, as the server uses it.                                           *)

\* Whether one call succeeds: while the card or the heap is not healthy it may fail.
Good == IF healthy THEN {TRUE} ELSE BOOLEAN

Invalid(f) == [f EXCEPT !.ok = FALSE]

\* The length of block i of a file, and of what f_read finds behind its end.
LenOf(i) == IF i < NBlocks THEN "full" ELSE IF i = NBlocks THEN LastLen ELSE "empty"

\* f_read of 512 bytes: the result code is not looked at, only the length.
Read(f, good) ==
  IF f.ok /\ good
    THEN [file |-> [f EXCEPT !.read = @ + 1], len |-> LenOf(f.read + 1),
          data |-> <<f.owner, f.read + 1>>]
    ELSE [file |-> f, len |-> "empty", data |-> <<f.owner, 0>>]

\* f_close of file_CR writes the directory entry, if the file is still valid.
Closed(good) ==
  IF file_CR.ok /\ good THEN [disk EXCEPT ![file_CR.owner] = file_CR.written] ELSE disk

----------------------------------------------------------------------------
(* process_tftp_request, on port 69.                                       *)

IsRequest(m, op) == m.to = "server" /\ m.op = op /\ m.port = 0

HasPcb == Cardinality({p \in Ports : pcb[p].use # "free"}) < MaxPcb

\* udp_new and udp_bind; the bound MaxPort ends the model, not the server.
TakesPort == HasPcb /\ nextPort \in Ports /\ nextPort' = nextPort + 1

\* udp_new finds no pcb: the request is dropped.
RequestDropped(m) ==
  /\ IsRequest(m, "RRQ") \/ IsRequest(m, "WRQ")
  /\ ~HasPcb
  /\ Deliver(m, {})
  /\ UNCHANGED serverVars

\* f_opendir fails behind f_mount: the pcb stays bound without a callback.
RequestStranded(m) ==
  /\ IsRequest(m, "RRQ") \/ IsRequest(m, "WRQ")
  /\ ~healthy /\ TakesPort
  /\ pcb' = [pcb EXCEPT ![nextPort].use = "bare"]
  /\ file_SD' = Invalid(file_SD) /\ file_CR' = Invalid(file_CR)
  /\ Deliver(m, {})
  /\ UNCHANGED disk

\* f_open or mem_malloc fails: an error goes out and the pcb is removed.  For a
\* write request f_open may have emptied the file before mem_malloc failed.
RequestRefused(m) ==
  /\ IsRequest(m, "RRQ") \/ IsRequest(m, "WRQ")
  /\ ~healthy /\ TakesPort
  /\ file_SD' = Invalid(file_SD) /\ file_CR' = Invalid(file_CR)
  /\ disk' \in IF m.op = "WRQ" THEN {disk, [disk EXCEPT ![m.client] = <<>>]} ELSE {disk}
  /\ Deliver(m, {Error(m.client, nextPort)})
  /\ UNCHANGED pcb

\* The DATA packet of tftp_send_next_block.
NextBlock(c, p, b, r) ==
  [Datagram("client", "DATA", c, p, b, r.len, 0) EXCEPT !.data = r.data]

\* tftp_process_read: the file is opened at its start and block 1 goes out.
ReadStart(m) ==
  /\ IsRequest(m, "RRQ") /\ TakesPort
  /\ \E good \in Good :
       LET r == Read([ok |-> TRUE, owner |-> m.client, read |-> 0], good)
       IN /\ file_SD' = r.file
          /\ pcb' = [pcb EXCEPT ![nextPort] = [use |-> "read", block |-> 1, len |-> r.len]]
          /\ Deliver(m, {NextBlock(m.client, nextPort, 1, r)})
  /\ file_CR' = Invalid(file_CR)
  /\ UNCHANGED disk

\* Mutant: args->block starts at 1, as for a read.
WriteStartAtOne(m) ==
  /\ IsRequest(m, "WRQ") /\ TakesPort
  /\ file_CR' = [ok |-> TRUE, owner |-> m.client, written |-> <<>>]
  /\ disk' = [disk EXCEPT ![m.client] = <<>>]
  /\ pcb' = [pcb EXCEPT ![nextPort] = [use |-> "write", block |-> 1, len |-> "full"]]
  /\ Deliver(m, {Ack(m.client, nextPort, 0)})
  /\ file_SD' = Invalid(file_SD)

\* tftp_process_write: the file is emptied and ACK 0 goes out.
WriteStart(m) ==
  /\ IsRequest(m, "WRQ") /\ TakesPort
  /\ file_CR' = [ok |-> TRUE, owner |-> m.client, written |-> <<>>]
  /\ disk' = [disk EXCEPT ![m.client] = <<>>]
  /\ pcb' = [pcb EXCEPT ![nextPort] = [use |-> "write", block |-> 0, len |-> "full"]]
  /\ Deliver(m, {Ack(m.client, nextPort, 0)})
  /\ file_SD' = Invalid(file_SD)

----------------------------------------------------------------------------
(* rrq_recv_callback, on the port of a read transfer.                      *)

For(m, use) == m.to = "server" /\ m.port \in Ports /\ pcb[m.port].use = use

\* tftp_is_correct_ack compares an int with a u16_t.
CorrectAck(m) == m.op = "ACK" /\ m.block = pcb[m.port].block

BlockAfter(m) == IF CorrectAck(m) THEN pcb[m.port].block + 1 ELSE pcb[m.port].block

\* Mutant: the callback reads ahead and drops the block it read.
RrqNextReadsTwice(m) ==
  /\ For(m, "read") /\ pcb[m.port].len = "full"
  /\ LET r == Read(Read(file_SD, TRUE).file, TRUE)
     IN /\ file_SD' = r.file
        /\ pcb' = [pcb EXCEPT ![m.port].block = BlockAfter(m), ![m.port].len = r.len]
        /\ Deliver(m, {NextBlock(m.client, m.port, BlockAfter(m), r)})
  /\ UNCHANGED <<nextPort, file_CR, disk>>

\* The last block sent was a full one: read and send another.
RrqNext(m) ==
  /\ For(m, "read") /\ pcb[m.port].len = "full"
  /\ \E good \in Good :
       LET r == Read(file_SD, good)
       IN /\ file_SD' = r.file
          /\ pcb' = [pcb EXCEPT ![m.port].block = BlockAfter(m), ![m.port].len = r.len]
          /\ Deliver(m, {NextBlock(m.client, m.port, BlockAfter(m), r)})
  /\ UNCHANGED <<nextPort, file_CR, disk>>

\* Mutant: tftp_cleanup_rd without udp_remove.
RrqEndKeepsPcb(m) ==
  /\ For(m, "read") /\ pcb[m.port].len # "full"
  /\ file_SD' = Invalid(file_SD) /\ file_CR' = Invalid(file_CR)
  /\ Deliver(m, {})
  /\ UNCHANGED <<pcb, nextPort, disk>>

\* The last block sent was short: tftp_cleanup_rd, whatever packet came.  The code
\* goes on to use the freed args and pcb: f_read on the closed file yields nothing
\* and the packet leaves or not, as the freed pcb allows.
RrqEnd(m) ==
  /\ For(m, "read") /\ pcb[m.port].len # "full"
  /\ pcb' = [pcb EXCEPT ![m.port] = NoPcb]
  /\ file_SD' = Invalid(file_SD) /\ file_CR' = Invalid(file_CR)
  /\ \E stray \in {{}, {Datagram("client", "DATA", m.client, m.port, BlockAfter(m), "empty", 0)}} :
       Deliver(m, stray)
  /\ UNCHANGED <<nextPort, disk>>

----------------------------------------------------------------------------
(* wrq_recv_callback, on the port of a write transfer.                     *)

\* Mutant: blocks the server already has are taken for new ones.
ExpectedOrOlder(m) == m.block <= pcb[m.port].block + 1

\* tftp_extract_block(..) == args->block + 1: the opcode is not looked at.
Expected(m) == m.block = pcb[m.port].block + 1
HasData(m)  == m.len # "empty"

\* The packet counts, and one shorter than the maximum ends the transfer: once the
\* acknowledgement is away (Deliver) the callback has its clean-up left to do.
EndOrGoOn(m, block, written) ==
  /\ pcb' = [pcb EXCEPT ![m.port].block = block,
                        ![m.port].use = IF m.len = "full" THEN "write" ELSE "closing"]
  /\ file_CR' = [file_CR EXCEPT !.written = written]
  /\ UNCHANGED <<file_SD, disk>>

\* The expected block, written to file_CR in full.
WrqStore(m) ==
  /\ For(m, "write") /\ Expected(m) /\ HasData(m) /\ file_CR.ok
  /\ EndOrGoOn(m, pcb[m.port].block + 1, Append(file_CR.written, m.data))
  /\ Deliver(m, {Ack(m.client, m.port, pcb[m.port].block + 1)})
  /\ UNCHANGED nextPort

\* Mutant: a failed f_write does not end the transfer.
WrqFailGoesOn(m) ==
  /\ For(m, "write") /\ Expected(m) /\ HasData(m)
  /\ ~file_CR.ok \/ ~healthy
  /\ EndOrGoOn(m, pcb[m.port].block + 1, file_CR.written)
  /\ Deliver(m, {Ack(m.client, m.port, pcb[m.port].block + 1)})
  /\ UNCHANGED nextPort

\* f_write fails: the error goes out and tftp_cleanup_wr runs, and then the code
\* goes on as after a success, with the freed args and pcb (the ACK may leave).
WrqFail(m) ==
  /\ For(m, "write") /\ Expected(m) /\ HasData(m)
  /\ ~file_CR.ok \/ ~healthy
  /\ pcb' = [pcb EXCEPT ![m.port] = NoPcb]
  /\ \E good \in Good : disk' = Closed(good)
  /\ file_SD' = Invalid(file_SD) /\ file_CR' = Invalid(file_CR)
  /\ \E stray \in {{}, {Ack(m.client, m.port, pcb[m.port].block + 1)}} :
       Deliver(m, {Error(m.client, m.port)} \cup stray)
  /\ UNCHANGED nextPort

\* The expected block without data: the file's length is a multiple of 512.
WrqEmpty(m) ==
  /\ For(m, "write") /\ Expected(m) /\ ~HasData(m)
  /\ EndOrGoOn(m, pcb[m.port].block + 1, file_CR.written)
  /\ Deliver(m, {Ack(m.client, m.port, pcb[m.port].block + 1)})
  /\ UNCHANGED nextPort

WrqAnswer(m, block, acked) ==
  /\ For(m, "write") /\ ~Expected(m)
  /\ EndOrGoOn(m, block, file_CR.written)
  /\ Deliver(m, {Ack(m.client, m.port, acked)})
  /\ UNCHANGED nextPort

\* Mutants: the counter steps back; the next block is acknowledged; no answer.
WrqOtherStepBack(m) == WrqAnswer(m, pcb[m.port].block - 1, pcb[m.port].block)
WrqOtherAcksNext(m) == WrqAnswer(m, pcb[m.port].block, pcb[m.port].block + 1)
WrqOtherSilent(m) ==
  For(m, "write") /\ ~Expected(m) /\ Deliver(m, {}) /\ UNCHANGED serverVars

\* Any other packet is answered with the last ACK, and ends the transfer if short.
WrqOther(m) == WrqAnswer(m, pcb[m.port].block, pcb[m.port].block)

\* Mutant: the volume is unmounted before the file is closed.
CleanupWrUnmountFirst(p) ==
  /\ pcb[p].use = "closing"
  /\ pcb' = [pcb EXCEPT ![p] = NoPcb]
  /\ file_SD' = Invalid(file_SD) /\ file_CR' = Invalid(file_CR)
  /\ UNCHANGED <<disk, nextPort, net>>

\* tftp_cleanup_wr, behind the last acknowledgement: nobody hears of a failed f_close.
CleanupWr(p) ==
  /\ pcb[p].use = "closing"
  /\ pcb' = [pcb EXCEPT ![p] = NoPcb]
  /\ \E good \in Good : disk' = Closed(good)
  /\ file_SD' = Invalid(file_SD) /\ file_CR' = Invalid(file_CR)
  /\ UNCHANGED <<nextPort, net>>

----------------------------------------------------------------------------
\* No callback is registered for the port: lwIP drops the datagram.
Unclaimed(m) ==
  /\ m.to = "server" /\ m.port \in Ports /\ pcb[m.port].use \in {"free", "bare"}
  /\ Deliver(m, {})
  /\ UNCHANGED serverVars

\* The next callback begins when the one before has returned.
Handle(m) ==
  /\ \A p \in Ports : pcb[p].use # "closing"
  /\ \/ RequestDropped(m) \/ RequestStranded(m) \/ RequestRefused(m)
     \/ ReadStart(m) \/ WriteStart(m)
     \/ RrqNext(m) \/ RrqEnd(m)
     \/ WrqStore(m) \/ WrqFail(m) \/ WrqEmpty(m) \/ WrqOther(m)
     \/ Unclaimed(m)
=============================================================================
