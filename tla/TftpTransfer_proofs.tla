-------------------------- MODULE TftpTransfer_proofs --------------------------
(***************************************************************************)
(* Theorems about TFTP transfers, for any number of clients, blocks and    *)
(* ports, and whatever the network does.                                   *)
(***************************************************************************)
EXTENDS TftpTransfer, TLAPS

-----------------------------------------------------------------------------
(* Block numbers, datagrams and the network.                               *)

LEMMA BlockNumber ==
  ASSUME NEW n \in Nat
  PROVE  n % BlockMod \in 0 .. BlockMod - 1 /\ (n < BlockMod => n % BlockMod = n)
  BY TftpAssumption

LEMMA DatagramTyped ==
  ASSUME NEW to \in {"server", "client"}, NEW op \in {"RRQ", "WRQ", "DATA", "ACK", "ERROR"},
         NEW c \in Clients, NEW p \in 0 .. MaxPort, NEW b \in Nat,
         NEW len \in {"full", "part", "empty"}, NEW i \in Nat
  PROVE  Datagram(to, op, c, p, b, len, i) \in Datagrams
  BY BlockNumber DEF Datagram, Datagrams

LEMMA Delivered ==
  ASSUME NEW m, NEW replies, Deliver(m, replies)
  PROVE  /\ m \in net /\ replies \subseteq net' /\ net' \subseteq net \cup replies
         /\ net \ {m} \subseteq net'
         /\ m.op \notin Keep => net' \subseteq (net \ {m}) \cup replies
  BY DEF Deliver

LEMMA LenOfTyped == \A i : LenOf(i) \in {"full", "part", "empty"}
  BY TftpAssumption DEF LenOf

LEMMA ReadTyped ==
  ASSUME NEW f \in [ok : BOOLEAN, owner : Clients, read : Nat], NEW good
  PROVE  /\ Read(f, good).file \in [ok : BOOLEAN, owner : Clients, read : Nat]
         /\ Read(f, good).len \in {"full", "part", "empty"}
         /\ Read(f, good).data \in Clients \X Nat
  <1>1. f.owner \in Clients /\ f.read \in Nat
    OBVIOUS
  <1>2. CASE f.ok /\ good
    <2>1. Read(f, good) = [file |-> [f EXCEPT !.read = @ + 1], len |-> LenOf(f.read + 1),
                           data |-> <<f.owner, f.read + 1>>]
      BY <1>2 DEF Read
    <2>2. QED
      BY <1>1, <2>1, LenOfTyped
  <1>3. CASE ~(f.ok /\ good)
    <2>1. Read(f, good) = [file |-> f, len |-> "empty", data |-> <<f.owner, 0>>]
      BY <1>3 DEF Read
    <2>2. QED
      BY <1>1, <2>1
  <1>4. QED
    BY <1>2, <1>3

-----------------------------------------------------------------------------
(* Type correctness.                                                       *)

Pcbs    == [use : {"free", "bare", "read", "write", "closing"}, block : Nat,
            len : {"full", "part", "empty"}]
ReadFil == [ok : BOOLEAN, owner : Clients, read : Nat]
CrFil   == [ok : BOOLEAN, owner : Clients, written : Seq(Clients \X Nat)]
Blocks  == Seq(Clients \X Nat)
States  == [phase : {"idle", "req", "run", "done", "failed"},
            port : 0 .. MaxPort, block : Nat, got : Blocks]

\* What the server keeps has its type.
ServerTyped ==
  /\ pcb \in [Ports -> Pcbs] /\ nextPort \in 1 .. MaxPort + 1
  /\ file_SD \in ReadFil /\ file_CR \in CrFil
  /\ disk \in [Clients -> Blocks]

LEMMA TypeInit == Init => TypeOK
  <1> SUFFICES ASSUME Init PROVE TypeOK
    OBVIOUS
  <1>1. NoPcb \in Pcbs
    BY DEF NoPcb, Pcbs
  <1>2. (CHOOSE c \in Clients : TRUE) \in Clients
    BY TftpAssumption
  <1>3. <<>> \in Blocks
    BY DEF Blocks
  <1>4. pcb \in [Ports -> Pcbs] /\ nextPort \in 1 .. MaxPort + 1
    BY <1>1, TftpAssumption DEF Init, ServerInit
  <1>5. file_SD \in ReadFil /\ file_CR \in CrFil
    BY <1>2, <1>3 DEF Init, ServerInit, ReadFil, CrFil, Blocks
  <1>6. disk \in [Clients -> Blocks] /\ client \in [Clients -> States]
    BY <1>3, TftpAssumption DEF Init, ServerInit, States
  <1>7. peer \in [Ports -> Clients]
    BY <1>2 DEF Init
  <1>8. QED
    BY <1>4, <1>5, <1>6, <1>7 DEF TypeOK, Init, Pcbs, ReadFil, CrFil, Blocks, States

LEMMA Invalidated ==
  ASSUME TypeOK
  PROVE  Invalid(file_SD) \in ReadFil /\ Invalid(file_CR) \in CrFil
  BY DEF TypeOK, Invalid, ReadFil, CrFil

LEMMA TypeOfMessage ==
  ASSUME TypeOK, NEW m \in net
  PROVE  /\ m \in Datagrams /\ m.client \in Clients /\ m.port \in 0 .. MaxPort
         /\ m.block \in Nat /\ m.block < BlockMod
         /\ m.len \in {"full", "part", "empty"} /\ m.data \in Clients \X Nat
         /\ m.to \in {"server", "client"} /\ m.op \in {"RRQ", "WRQ", "DATA", "ACK", "ERROR"}
  <1>1. m \in Datagrams
    BY DEF TypeOK
  <1>2. QED
    BY <1>1, TftpAssumption DEF Datagrams

LEMMA AckTyped ==
  ASSUME NEW c \in Clients, NEW p \in 0 .. MaxPort, NEW b \in Nat
  PROVE  Ack(c, p, b) \in Datagrams /\ Error(c, p) \in Datagrams
  BY DatagramTyped DEF Ack, Error

LEMMA NextBlockTyped ==
  ASSUME NEW c \in Clients, NEW p \in 0 .. MaxPort, NEW b \in Nat, NEW r,
         r.len \in {"full", "part", "empty"}, r.data \in Clients \X Nat
  PROVE  NextBlock(c, p, b, r) \in Datagrams
  <1>1. Datagram("client", "DATA", c, p, b, r.len, 0) \in Datagrams
    BY DatagramTyped
  <1>2. QED
    BY <1>1 DEF NextBlock, Datagrams

LEMMA ServerIsTyped == TypeOK => ServerTyped /\ net \subseteq Datagrams
  BY DEF TypeOK, ServerTyped, Pcbs, ReadFil, CrFil, Blocks

LEMMA PortBounds ==
  \A p \in Ports : p \in 0 .. MaxPort /\ p \in Nat \ {0} /\ p + 1 \in 1 .. MaxPort + 1
  BY TftpAssumption DEF Ports

\* Requests: every one that is taken binds the next port.
LEMMA TypeRequests ==
  ASSUME TypeOK, NEW m \in net,
         RequestDropped(m) \/ RequestStranded(m) \/ RequestRefused(m) \/ WriteStart(m)
  PROVE  ServerTyped' /\ net' \subseteq Datagrams
  <1>0. /\ m.client \in Clients /\ net \subseteq Datagrams /\ ServerTyped
        /\ (nextPort \in Ports => nextPort \in 0 .. MaxPort /\ nextPort + 1 \in 1 .. MaxPort + 1)
    BY TypeOfMessage, ServerIsTyped, PortBounds
  <1>1. CASE RequestDropped(m)
    BY <1>0, <1>1, Delivered DEF RequestDropped, serverVars, ServerTyped
  <1>2. CASE RequestStranded(m)
    <2>1. pcb' \in [Ports -> Pcbs]
      BY <1>0, <1>2 DEF RequestStranded, ServerTyped, Pcbs
    <2>2. QED
      BY <1>0, <1>2, <2>1, Invalidated, Delivered DEF RequestStranded, TakesPort, ServerTyped
  <1>3. CASE RequestRefused(m)
    <2>1. disk' \in [Clients -> Blocks]
      <3>1. <<>> \in Blocks
        BY DEF Blocks
      <3>2. disk' = disk \/ disk' = [disk EXCEPT ![m.client] = <<>>]
        BY <1>3 DEF RequestRefused
      <3>3. QED
        BY <1>0, <3>1, <3>2 DEF ServerTyped
    <2>2. nextPort \in 0 .. MaxPort /\ nextPort' \in 1 .. MaxPort + 1
      BY <1>0, <1>3 DEF RequestRefused, TakesPort
    <2>3. Error(m.client, nextPort) \in Datagrams
      BY <1>0, <2>2, AckTyped, 0 \in Nat
    <2>4. QED
      BY <1>0, <1>3, <2>1, <2>2, <2>3, Invalidated, Delivered DEF RequestRefused, ServerTyped
  <1>4. CASE WriteStart(m)
    <2>1. <<>> \in Blocks
      BY DEF Blocks
    <2>2. file_CR' \in CrFil /\ disk' \in [Clients -> Blocks]
      BY <1>0, <1>4, <2>1 DEF WriteStart, CrFil, Blocks, ServerTyped
    <2>3. nextPort \in 0 .. MaxPort /\ nextPort' \in 1 .. MaxPort + 1
      BY <1>0, <1>4 DEF WriteStart, TakesPort
    <2>4. Ack(m.client, nextPort, 0) \in Datagrams
      BY <1>0, <2>3, AckTyped, 0 \in Nat
    <2>5. pcb' \in [Ports -> Pcbs]
      BY <1>0, <1>4 DEF WriteStart, ServerTyped, Pcbs
    <2>6. QED
      BY <1>0, <1>4, <2>2, <2>3, <2>4, <2>5, Invalidated, Delivered DEF WriteStart, ServerTyped
  <1>5. QED
    BY <1>1, <1>2, <1>3, <1>4

LEMMA TypeRead ==
  ASSUME TypeOK, NEW m \in net, ReadStart(m) \/ RrqNext(m) \/ RrqEnd(m)
  PROVE  ServerTyped' /\ net' \subseteq Datagrams
  <1>0. /\ m.client \in Clients /\ net \subseteq Datagrams /\ ServerTyped
        /\ (nextPort \in Ports => nextPort \in 0 .. MaxPort /\ nextPort + 1 \in 1 .. MaxPort + 1)
        /\ m.port \in 0 .. MaxPort
    BY TypeOfMessage, ServerIsTyped, PortBounds
  <1>1. ASSUME m.port \in Ports PROVE pcb[m.port] \in Pcbs /\ BlockAfter(m) \in Nat
    BY <1>0, <1>1 DEF ServerTyped, Pcbs, BlockAfter
  <1>2. CASE ReadStart(m)
    <2> DEFINE f == [ok |-> TRUE, owner |-> m.client, read |-> 0]
    <2>1. f \in ReadFil
      BY <1>0 DEF ReadFil
    <2>2. PICK good \in Good :
            LET r == Read(f, good)
            IN /\ file_SD' = r.file
               /\ pcb' = [pcb EXCEPT ![nextPort] = [use |-> "read", block |-> 1, len |-> r.len]]
               /\ Deliver(m, {NextBlock(m.client, nextPort, 1, r)})
      BY <1>2 DEF ReadStart
    <2> DEFINE r == Read(f, good)
    <2>3. r.file \in ReadFil /\ r.len \in {"full", "part", "empty"} /\ r.data \in Clients \X Nat
      BY <2>1, ReadTyped DEF ReadFil
    <2> HIDE DEF f
    <2>4. /\ file_SD' = r.file
          /\ pcb' = [pcb EXCEPT ![nextPort] = [use |-> "read", block |-> 1, len |-> r.len]]
          /\ Deliver(m, {NextBlock(m.client, nextPort, 1, r)})
      BY <2>2
    <2> HIDE DEF r
    <2>5. nextPort \in 0 .. MaxPort /\ nextPort' \in 1 .. MaxPort + 1
      BY <1>0, <1>2 DEF ReadStart, TakesPort
    <2>6. NextBlock(m.client, nextPort, 1, r) \in Datagrams
      BY <1>0, <2>3, <2>5, NextBlockTyped
    <2>7. pcb' \in [Ports -> Pcbs]
      BY <1>0, <2>3, <2>4 DEF ServerTyped, Pcbs
    <2>8. QED
      BY <1>0, <1>2, <2>3, <2>4, <2>5, <2>6, <2>7, Invalidated, Delivered DEF ReadStart, ServerTyped
  <1>3. CASE RrqNext(m)
    <2>1. PICK good \in Good :
            LET r == Read(file_SD, good)
            IN /\ file_SD' = r.file
               /\ pcb' = [pcb EXCEPT ![m.port].block = BlockAfter(m), ![m.port].len = r.len]
               /\ Deliver(m, {NextBlock(m.client, m.port, BlockAfter(m), r)})
      BY <1>3 DEF RrqNext
    <2> DEFINE r == Read(file_SD, good)
    <2>2. r.file \in ReadFil /\ r.len \in {"full", "part", "empty"} /\ r.data \in Clients \X Nat
      BY <1>0, ReadTyped DEF ReadFil, ServerTyped
    <2>3. /\ file_SD' = r.file
          /\ pcb' = [pcb EXCEPT ![m.port].block = BlockAfter(m), ![m.port].len = r.len]
          /\ Deliver(m, {NextBlock(m.client, m.port, BlockAfter(m), r)})
      BY <2>1
    <2> HIDE DEF r
    <2>4. m.port \in Ports
      BY <1>3 DEF RrqNext, For
    <2>5. NextBlock(m.client, m.port, BlockAfter(m), r) \in Datagrams
      BY <1>0, <1>1, <2>2, <2>4, NextBlockTyped
    <2>6. pcb' \in [Ports -> Pcbs]
      BY <1>0, <1>1, <2>2, <2>3, <2>4 DEF ServerTyped, Pcbs
    <2>7. QED
      BY <1>0, <1>3, <2>2, <2>3, <2>5, <2>6, Delivered DEF RrqNext, ServerTyped
  <1>4. CASE RrqEnd(m)
    <2>1. m.port \in Ports
      BY <1>4 DEF RrqEnd, For
    <2>2. pcb' \in [Ports -> Pcbs]
      BY <1>0, <1>4 DEF RrqEnd, ServerTyped, Pcbs, NoPcb
    <2>3. Datagram("client", "DATA", m.client, m.port, BlockAfter(m), "empty", 0) \in Datagrams
      BY <1>0, <1>1, <2>1, DatagramTyped
    <2>4. net' \subseteq Datagrams
      BY <1>0, <1>4, <2>3, Delivered DEF RrqEnd
    <2>5. QED
      BY <1>0, <1>4, <2>2, <2>4, Invalidated DEF RrqEnd, ServerTyped
  <1>5. QED
    BY <1>2, <1>3, <1>4

LEMMA TypeWrite ==
  ASSUME TypeOK, NEW m \in net,
         WrqStore(m) \/ WrqFail(m) \/ WrqEmpty(m) \/ WrqOther(m) \/ Unclaimed(m)
  PROVE  ServerTyped' /\ net' \subseteq Datagrams
  <1>0. /\ m.client \in Clients /\ net \subseteq Datagrams /\ ServerTyped
        /\ m.port \in 0 .. MaxPort /\ m.data \in Clients \X Nat
    BY TypeOfMessage, ServerIsTyped, PortBounds
  <1>1. ASSUME m.port \in Ports
        PROVE  /\ pcb[m.port] \in Pcbs /\ pcb[m.port].block \in Nat /\ pcb[m.port].block + 1 \in Nat
    BY <1>0, <1>1 DEF ServerTyped, Pcbs
  <1>2. /\ file_CR.written \in Blocks /\ file_CR.owner \in Clients
        /\ Append(file_CR.written, m.data) \in Blocks
    BY <1>0 DEF ServerTyped, CrFil, Blocks
  <1>3. ASSUME m.port \in Ports, NEW b \in Nat, NEW w \in Blocks, EndOrGoOn(m, b, w),
               nextPort' = nextPort
        PROVE  ServerTyped'
    <2>2. pcb' \in [Ports -> Pcbs]
      BY <1>0, <1>3 DEF EndOrGoOn, ServerTyped, Pcbs
    <2>3. file_CR' \in CrFil
      BY <1>0, <1>3 DEF EndOrGoOn, ServerTyped, CrFil, Blocks
    <2>4. QED
      BY <1>0, <1>3, <2>2, <2>3 DEF EndOrGoOn, ServerTyped
  <1>4. CASE WrqStore(m)
    <2>1. m.port \in Ports
      BY <1>4 DEF WrqStore, For
    <2>2. ServerTyped'
      BY <1>1, <1>2, <1>3, <1>4, <2>1 DEF WrqStore
    <2>3. Ack(m.client, m.port, pcb[m.port].block + 1) \in Datagrams
      BY <1>0, <1>1, <2>1, AckTyped
    <2>4. QED
      BY <1>0, <1>4, <2>2, <2>3, Delivered DEF WrqStore
  <1>5. CASE WrqFail(m)
    <2>1. m.port \in Ports
      BY <1>5 DEF WrqFail, For
    <2>2. pcb' \in [Ports -> Pcbs]
      BY <1>0, <1>5 DEF WrqFail, ServerTyped, Pcbs, NoPcb
    <2>3. disk' \in [Clients -> Blocks]
      <3>1. disk' = disk \/ disk' = [disk EXCEPT ![file_CR.owner] = file_CR.written]
        BY <1>5 DEF WrqFail, Closed
      <3>2. QED
        BY <1>0, <1>2, <3>1 DEF ServerTyped
    <2>4. Ack(m.client, m.port, pcb[m.port].block + 1) \in Datagrams /\ Error(m.client, m.port) \in Datagrams
      BY <1>0, <1>1, <2>1, AckTyped
    <2>5. net' \subseteq Datagrams
      <3>1. PICK stray \in {{}, {Ack(m.client, m.port, pcb[m.port].block + 1)}} :
              Deliver(m, {Error(m.client, m.port)} \cup stray)
        BY <1>5 DEF WrqFail
      <3>2. QED
        BY <1>0, <2>4, <3>1, Delivered
    <2>6. QED
      BY <1>0, <1>5, <2>2, <2>3, <2>5, Invalidated DEF WrqFail, ServerTyped
  <1>6. CASE WrqEmpty(m)
    <2>1. m.port \in Ports
      BY <1>6 DEF WrqEmpty, For
    <2>2. ServerTyped'
      BY <1>1, <1>2, <1>3, <1>6, <2>1 DEF WrqEmpty
    <2>3. Ack(m.client, m.port, pcb[m.port].block + 1) \in Datagrams
      BY <1>0, <1>1, <2>1, AckTyped
    <2>4. QED
      BY <1>0, <1>6, <2>2, <2>3, Delivered DEF WrqEmpty
  <1>7. CASE WrqOther(m)
    <2>1. m.port \in Ports
      BY <1>7 DEF WrqOther, WrqAnswer, For
    <2>2. ServerTyped'
      BY <1>1, <1>2, <1>3, <1>7, <2>1 DEF WrqOther, WrqAnswer
    <2>3. Ack(m.client, m.port, pcb[m.port].block) \in Datagrams
      BY <1>0, <1>1, <2>1, AckTyped
    <2>4. QED
      BY <1>0, <1>7, <2>2, <2>3, Delivered DEF WrqOther, WrqAnswer
  <1>8. CASE Unclaimed(m)
    BY <1>0, <1>8, Delivered DEF Unclaimed, serverVars, ServerTyped
  <1>9. QED
    BY <1>4, <1>5, <1>6, <1>7, <1>8

LEMMA TypeCleanup ==
  ASSUME TypeOK, NEW p \in Ports, CleanupStep(p)
  PROVE  ServerTyped' /\ net' \subseteq Datagrams /\ harmed' \subseteq Clients
  <1>0. /\ net \subseteq Datagrams /\ ServerTyped /\ harmed \subseteq Clients
        /\ peer[p] \in Clients
    BY ServerIsTyped DEF TypeOK
  <1>1. pcb' \in [Ports -> Pcbs]
    BY <1>0 DEF CleanupStep, CleanupWr, ServerTyped, Pcbs, NoPcb
  <1>2. disk' \in [Clients -> Blocks]
    <2>1. disk' = disk \/ disk' = [disk EXCEPT ![file_CR.owner] = file_CR.written]
      BY DEF CleanupStep, CleanupWr, Closed
    <2>2. file_CR.written \in Blocks
      BY <1>0 DEF ServerTyped, CrFil, Blocks
    <2>3. QED
      BY <1>0, <2>1, <2>2 DEF ServerTyped
  <1>3. harmed' \subseteq Clients
    BY <1>0 DEF CleanupStep, Harm, CutOff
  <1>4. QED
    BY <1>0, <1>1, <1>2, <1>3, Invalidated DEF CleanupStep, CleanupWr, ServerTyped

\* Whose request bound a port, and who had to share.
LEMMA TypeHistory ==
  ASSUME TypeOK, TypeOK => ServerTyped', NEW m \in net, ServerStep(m)
  PROVE  /\ harmed' \subseteq Clients /\ peer' \in [Ports -> Clients] /\ shared' \subseteq Clients
  <1>1. m.client \in Clients
    BY TypeOfMessage
  <1>2. harmed' \subseteq Clients
    BY <1>1 DEF TypeOK, ServerStep, Harm, CutOff
  <1>3. peer' \in [Ports -> Clients]
    BY <1>1 DEF TypeOK, ServerStep
  <1>4. Sharing' \subseteq Clients
    BY <1>3 DEF Sharing
  <1>5. QED
    BY <1>2, <1>3, <1>4 DEF TypeOK, ServerStep

LEMMA ClientIsTyped ==
  ASSUME TypeOK, NEW c \in Clients
  PROVE  /\ client \in [Clients -> States] /\ client[c] \in States
         /\ client[c].phase \in {"idle", "req", "run", "done", "failed"}
         /\ client[c].port \in 0 .. MaxPort /\ client[c].block \in Nat /\ client[c].got \in Blocks
         /\ Awaited(c) \in Nat
  <1>1. client \in [Clients -> States]
    BY DEF TypeOK, States, Blocks
  <1>2. client[c] \in States
    BY <1>1
  <1>3. QED
    BY <1>1, <1>2 DEF States, Awaited

LEMMA PendingTyped ==
  ASSUME TypeOK, NEW c \in Clients
  PROVE  Pending(c) \in Datagrams /\ Request(c) \in Datagrams
  <1>1. Request(c) \in Datagrams
    BY DatagramTyped, TftpAssumption DEF Request
  <1>2. client[c].port \in 0 .. MaxPort /\ client[c].block \in Nat /\ client[c].block + 1 \in Nat
    BY ClientIsTyped
  <1>3. Datagram("server", "ACK", c, client[c].port, client[c].block, "empty", 0) \in Datagrams
    BY <1>2, DatagramTyped
  <1>4. Datagram("server", "DATA", c, client[c].port, client[c].block + 1,
                 LenOf(client[c].block + 1), client[c].block + 1) \in Datagrams
    BY <1>2, LenOfTyped, DatagramTyped
  <1>5. QED
    BY <1>1, <1>3, <1>4 DEF Pending

LEMMA TypeClients ==
  ASSUME TypeOK,
         \/ \E m \in net : ClientStep(m) \/ Lose(m)
         \/ \E c \in Clients : Start(c) \/ Timeout(c) \/ Abort(c)
  PROVE  client' \in [Clients -> States] /\ net' \subseteq Datagrams
  <1>0. client \in [Clients -> States] /\ net \subseteq Datagrams
    BY DEF TypeOK, States, Blocks
  <1>1. ASSUME NEW m \in net, ClientStep(m) PROVE client' \in [Clients -> States] /\ net' \subseteq Datagrams
    <2> DEFINE c == m.client  b == Awaited(m.client)
    <2>1. /\ c \in Clients /\ b \in Nat /\ b + 1 \in Nat /\ m.port \in 0 .. MaxPort
          /\ m.data \in Clients \X Nat /\ client[c].got \in Blocks
      BY TypeOfMessage, ClientIsTyped
    <2> HIDE DEF c, b
    <2>2. CASE ClientData(m)
      <3>1. Append(client[c].got, m.data) \in Blocks
        BY <2>1 DEF Blocks
      <3>2. PICK g \in Blocks, ph \in {"run", "done"} :
              client' = [client EXCEPT ![c] = [phase |-> ph, port |-> m.port, block |-> b, got |-> g]]
        BY <2>1, <2>2, <3>1 DEF ClientData, c, b
      <3>3. [phase |-> ph, port |-> m.port, block |-> b, got |-> g] \in States
        BY <2>1 DEF States
      <3>4. Datagram("server", "ACK", c, m.port, b, "empty", 0) \in Datagrams
        BY <2>1, DatagramTyped
      <3>5. net' \subseteq Datagrams
        BY <1>0, <2>2, <3>4, Delivered DEF ClientData, c, b
      <3>6. QED
        BY <1>0, <3>2, <3>3, <3>5
    <2>3. CASE ClientAck(m)
      <3>1. client' \in [Clients -> States]
        <4>1. PICK ph \in {"run", "done"} :
                client' = [client EXCEPT ![c] = [@ EXCEPT !.phase = ph, !.port = m.port, !.block = b]]
          BY <2>1, <2>3 DEF ClientAck, c, b
        <4>2. QED
          BY <1>0, <2>1, <4>1 DEF States
      <3>2. Datagram("server", "DATA", c, m.port, b + 1, LenOf(b + 1), b + 1) \in Datagrams
        BY <2>1, DatagramTyped, LenOfTyped
      <3>3. net' \subseteq Datagrams
        <4>1. PICK R \in {{}, {Datagram("server", "DATA", c, m.port, b + 1, LenOf(b + 1), b + 1)}} :
                Deliver(m, R)
          BY <2>3 DEF ClientAck, c, b
        <4>2. QED
          BY <1>0, <3>2, <4>1, Delivered
      <3>4. QED
        BY <3>1, <3>3
    <2>4. CASE ClientError(m)
      <3>1. client' = [client EXCEPT ![c].phase = "failed"]
        BY <2>4 DEF ClientError, c
      <3>2. client' \in [Clients -> States]
        BY <1>0, <2>1, <3>1 DEF States
      <3>3. QED
        BY <1>0, <2>4, <3>2, Delivered DEF ClientError
    <2>5. CASE ClientIgnores(m)
      BY <1>0, <2>5, Delivered DEF ClientIgnores
    <2>6. QED
      BY <1>1, <2>2, <2>3, <2>4, <2>5 DEF ClientStep
  <1>2. ASSUME NEW m \in net, Lose(m) PROVE client' \in [Clients -> States] /\ net' \subseteq Datagrams
    BY <1>0, <1>2 DEF Lose
  <1>3. ASSUME NEW c \in Clients, Start(c) PROVE client' \in [Clients -> States] /\ net' \subseteq Datagrams
    BY <1>0, <1>3, PendingTyped DEF Start, States
  <1>4. ASSUME NEW c \in Clients, Timeout(c) PROVE client' \in [Clients -> States] /\ net' \subseteq Datagrams
    BY <1>0, <1>4, PendingTyped DEF Timeout
  <1>5. ASSUME NEW c \in Clients, Abort(c) PROVE client' \in [Clients -> States] /\ net' \subseteq Datagrams
    <2>1. \A code \in AbortCodes :
            Datagram("server", "ERROR", c, client[c].port, code, "part", 0) \in Datagrams
      BY ClientIsTyped, DatagramTyped, TransferAssumption
    <2>2. QED
      BY <1>0, <1>5, <2>1 DEF Abort, States
  <1>6. QED
    BY <1>1, <1>2, <1>3, <1>4, <1>5

\* What clients and the network do leaves the server alone.
LEMMA ClientsLeave ==
  /\ \A m : ClientStep(m) \/ Lose(m) => UNCHANGED <<serverVars, healthy, history>>
  /\ \A c : Start(c) \/ Timeout(c) \/ Abort(c) => UNCHANGED <<serverVars, healthy, history>>
  /\ HealthChanges => UNCHANGED <<serverVars, net, client, history>>
  /\ UNCHANGED vars => UNCHANGED <<serverVars, net, client, history>>
  <1>1. ASSUME NEW m, ClientStep(m) \/ Lose(m) PROVE UNCHANGED <<serverVars, healthy, history>>
    BY <1>1 DEF ClientStep, ClientData, ClientAck, ClientError, ClientIgnores, Lose
  <1>2. ASSUME NEW c, Start(c) \/ Timeout(c) \/ Abort(c) PROVE UNCHANGED <<serverVars, healthy, history>>
    BY <1>2 DEF Start, Timeout, Abort
  <1>3. ASSUME HealthChanges PROVE UNCHANGED <<serverVars, net, client, history>>
    BY <1>3 DEF HealthChanges
  <1>4. ASSUME UNCHANGED vars PROVE UNCHANGED <<serverVars, net, client, history>>
    BY <1>4 DEF vars
  <1>5. QED
    BY <1>1, <1>2, <1>3, <1>4

LEMMA TypeNext == TypeOK /\ [Next]_vars => TypeOK'
  <1> SUFFICES ASSUME TypeOK, [Next]_vars PROVE TypeOK'
    OBVIOUS
  <1>0. /\ ServerTyped /\ net \subseteq Datagrams /\ client \in [Clients -> States]
        /\ healthy \in BOOLEAN /\ harmed \subseteq Clients
        /\ peer \in [Ports -> Clients] /\ shared \subseteq Clients
    BY ServerIsTyped DEF TypeOK, States, Blocks
  <1>1. ASSUME ServerTyped', net' \subseteq Datagrams, client' \in [Clients -> States],
               healthy' \in BOOLEAN, harmed' \subseteq Clients,
               peer' \in [Ports -> Clients], shared' \subseteq Clients
        PROVE  TypeOK'
    BY <1>1 DEF TypeOK, ServerTyped, States, Pcbs, ReadFil, CrFil, Blocks
  <1>2. UNCHANGED serverVars => ServerTyped'
    BY <1>0 DEF serverVars, ServerTyped
  <1>3. ASSUME NEW m \in net, ServerStep(m) PROVE TypeOK'
    <2>1. ServerTyped' /\ net' \subseteq Datagrams
      BY <1>3, TypeRequests, TypeRead, TypeWrite DEF ServerStep, Handle
    <2>2. harmed' \subseteq Clients /\ peer' \in [Ports -> Clients] /\ shared' \subseteq Clients
      BY <1>3, <2>1, TypeHistory
    <2>3. QED
      BY <1>0, <1>1, <1>3, <2>1, <2>2 DEF ServerStep
  <1>4. CASE HealthChanges
    BY <1>0, <1>1, <1>2, <1>4 DEF HealthChanges, history
  <1>5. CASE \/ \E m \in net : ClientStep(m) \/ Lose(m)
             \/ \E c \in Clients : Start(c) \/ Timeout(c) \/ Abort(c)
    <2>1. UNCHANGED <<serverVars, healthy, history>>
      BY <1>5, ClientsLeave
    <2>2. QED
      BY <1>0, <1>1, <1>2, <1>5, <2>1, TypeClients DEF history
  <1>6. ASSUME NEW p \in Ports, CleanupStep(p) PROVE TypeOK'
    <2>1. ServerTyped' /\ net' \subseteq Datagrams /\ harmed' \subseteq Clients
      BY <1>6, TypeCleanup
    <2>2. QED
      BY <1>0, <1>1, <1>6, <2>1 DEF CleanupStep
  <1>7. CASE UNCHANGED vars
    BY <1>0, <1>1, <1>2, <1>7 DEF vars, history
  <1>8. QED
    BY <1>3, <1>4, <1>5, <1>6, <1>7 DEF Next

\* Whatever the network loses, repeats and delays, and whatever fails, server, clients
\* and network keep their types; in particular a block number always fits its 16 bits.
THEOREM TransferTyped == Spec => []TypeOK
  BY TypeInit, TypeNext, PTL DEF Spec

-----------------------------------------------------------------------------
(* Who sends what, and on which port.  This needs no assumption: a request *)
(* gets a port of its own, and an answer goes where the request came from. *)

Up == Clients \ Readers

Role(m) ==
  /\ m.op \in {"RRQ", "WRQ"} => m = Request(m.client)
  /\ m.op = "RRQ" => m.client \in Readers
  /\ m.op = "WRQ" => m.client \in Up
  /\ m.to = "server" =>
       m.op \in IF m.client \in Readers THEN {"RRQ", "ACK"} ELSE {"WRQ", "DATA", "ERROR"}
  /\ m.to = "client" =>
       m.op \in IF m.client \in Readers THEN {"DATA", "ERROR"} ELSE {"ACK", "ERROR"}

Roles == \A m \in net : Role(m)

\* Client c takes p for its server's port, or will, or a packet of its transfer names it.
Uses(c, p) == client[c].port = p \/ \E m \in net : m.client = c /\ m.port = p

PortsKept ==
  /\ \A p \in Ports : p >= nextPort => pcb[p].use = "free"
  /\ \A c \in Clients, p \in Ports : Uses(c, p) =>
       /\ p < nextPort
       /\ pcb[p].use \in {"write", "closing"} => c \in Up
       /\ pcb[p].use = "read" => c \in Readers
       /\ pcb[p].use \in {"read", "write", "closing"} => peer[p] = c
       /\ \A d \in Clients : Uses(d, p) => d = c

\* Who a pcb is open for, and that those whose pcbs are alike are known to share.
PeersKept ==
  /\ \A p \in Ports :
       /\ pcb[p].use \in {"write", "closing"} => peer[p] \in Up
       /\ pcb[p].use = "read" => peer[p] \in Readers
  /\ \A p, q \in Ports : p # q /\ pcb[p].use = pcb[q].use /\ pcb[p].use \in {"read", "write"}
       => peer[p] \in shared

RouteInv == TypeOK /\ Roles /\ PortsKept /\ PeersKept

LEMMA RouteInit == Init => Roles /\ PortsKept /\ PeersKept
  <1> SUFFICES ASSUME Init PROVE Roles /\ PortsKept /\ PeersKept
    OBVIOUS
  <1>1. \A p \in Ports : pcb[p].use = "free"
    BY DEF Init, ServerInit, NoPcb
  <1>2. \A c \in Clients, p \in Ports : ~Uses(c, p)
    BY PortBounds DEF Init, Uses
  <1>3. QED
    BY <1>1, <1>2 DEF Init, Roles, PortsKept, PeersKept

\* What the packets of the program say.
LEMMA PacketRoles ==
  ASSUME NEW c \in Clients, NEW p, NEW b, NEW len, NEW i, NEW r
  PROVE  /\ c \in Up => Role(Ack(c, p, b)) /\ Role(Datagram("server", "DATA", c, p, b, len, i))
                        /\ Role(Datagram("server", "ERROR", c, p, b, len, i))
         /\ c \in Readers => Role(NextBlock(c, p, b, r)) /\ Role(Datagram("server", "ACK", c, p, b, len, i))
                             /\ Role(Datagram("client", "DATA", c, p, b, len, i))
         /\ Role(Error(c, p)) /\ Role(Request(c))
  <1>1. c \in Up => Role(Ack(c, p, b)) /\ Role(Datagram("server", "DATA", c, p, b, len, i))
                    /\ Role(Datagram("server", "ERROR", c, p, b, len, i))
    BY DEF Role, Ack, Datagram, Up
  <1>2. c \in Readers => Role(NextBlock(c, p, b, r)) /\ Role(Datagram("server", "ACK", c, p, b, len, i))
                         /\ Role(Datagram("client", "DATA", c, p, b, len, i))
    BY DEF Role, NextBlock, Datagram, Up
  <1>3. Role(Error(c, p)) /\ Role(Request(c))
    BY DEF Role, Error, Request, Datagram, Up
  <1>4. QED
    BY <1>1, <1>2, <1>3

\* n is an answer to client c on port p.
Answers(n, c, p) == n.client = c /\ n.port = p /\ n.to = "client" /\ Role(n)

LEMMA AnswerOf ==
  ASSUME NEW c \in Clients, NEW p, NEW b, NEW r
  PROVE  /\ c \in Up => Answers(Ack(c, p, b), c, p)
         /\ c \in Readers => Answers(NextBlock(c, p, b, r), c, p)
                             /\ Answers(Datagram("client", "DATA", c, p, b, "empty", 0), c, p)
         /\ Answers(Error(c, p), c, p)
  BY PacketRoles DEF Answers, Ack, NextBlock, Error, Datagram

\* A pcb keeps its callback, or comes nearer to its end.
Left(p) ==
  pcb'[p].use \in {pcb[p].use, "free"} \/ (pcb[p].use = "write" /\ pcb'[p].use = "closing")

\* The handler of a packet on a transfer's port answers on that port ...
OnPort(m) ==
  /\ nextPort' = nextPort
  /\ \A p \in Ports : Left(p)
  /\ \A n \in net' : n \in net \/ Answers(n, m.client, m.port)

\* ... and that of a request on the next one.
OnNewPort(m) ==
  /\ nextPort \in Ports /\ nextPort' = nextPort + 1
  /\ \A p \in Ports \ {nextPort} : pcb'[p] = pcb[p]
  /\ pcb'[nextPort].use # "closing"
  /\ pcb'[nextPort].use = "write" => m.client \in Up
  /\ pcb'[nextPort].use = "read" => m.client \in Readers
  /\ \A n \in net' : n \in net \/ Answers(n, m.client, nextPort)

LEMMA RouteFacts ==
  ASSUME RouteInv, NEW m \in net
  PROVE  /\ m.client \in Clients /\ Role(m) /\ pcb \in [Ports -> Pcbs] /\ Uses(m.client, m.port)
         /\ (nextPort \in Ports => pcb[nextPort].use = "free")
         /\ (m.client \in Readers <=> m.client \notin Up)
  <1>1. m.client \in Clients /\ Role(m) /\ Uses(m.client, m.port)
    BY TypeOfMessage DEF RouteInv, Roles, Uses
  <1>2. pcb \in [Ports -> Pcbs]
    BY DEF RouteInv, TypeOK, Pcbs
  <1>3. nextPort \in Ports => pcb[nextPort].use = "free"
    BY PortBounds DEF RouteInv, PortsKept
  <1>4. m.client \in Readers <=> m.client \notin Up
    BY <1>1 DEF Up
  <1>5. QED
    BY <1>1, <1>2, <1>3, <1>4

LEMMA Routed ==
  ASSUME RouteInv, NEW m \in net, Handle(m)
  PROVE  OnPort(m) \/ OnNewPort(m)
  <1>0. /\ m.client \in Clients /\ Role(m) /\ pcb \in [Ports -> Pcbs]
        /\ (nextPort \in Ports => pcb[nextPort].use = "free")
        /\ Uses(m.client, m.port)
    BY RouteFacts
  <1>1. ASSUME NEW R, Deliver(m, R), \A n \in R : Answers(n, m.client, m.port),
               nextPort' = nextPort, \A p \in Ports : Left(p)
        PROVE  OnPort(m)
    BY <1>1, Delivered DEF OnPort
  <1>2. ASSUME NEW R, Deliver(m, R), \A n \in R : Answers(n, m.client, nextPort), TakesPort,
               \A p \in Ports \ {nextPort} : pcb'[p] = pcb[p], pcb'[nextPort].use # "closing",
               pcb'[nextPort].use = "write" => m.client \in Up,
               pcb'[nextPort].use = "read" => m.client \in Readers
        PROVE  OnNewPort(m)
    BY <1>2, Delivered DEF OnNewPort, TakesPort
  <1>3. CASE RequestDropped(m) \/ Unclaimed(m)
    BY <1>1, <1>3 DEF RequestDropped, Unclaimed, serverVars, Left
  <1>4. CASE RequestStranded(m)
    <2>1. pcb'[nextPort].use = "bare" /\ \A p \in Ports \ {nextPort} : pcb'[p] = pcb[p]
      BY <1>0, <1>4 DEF RequestStranded, TakesPort, Pcbs
    <2>2. QED
      BY <1>2, <1>4, <2>1 DEF RequestStranded
  <1>5. CASE RequestRefused(m)
    <2>1. \A n \in {Error(m.client, nextPort)} : Answers(n, m.client, nextPort)
      BY <1>0, AnswerOf
    <2>2. nextPort \in Ports
      BY <1>5 DEF RequestRefused, TakesPort
    <2>3. QED
      BY <1>0, <1>2, <1>5, <2>1, <2>2 DEF RequestRefused
  <1>6. CASE ReadStart(m)
    <2>1. m.client \in Readers
      BY <1>0, <1>6 DEF ReadStart, IsRequest, Role
    <2>2. PICK r :
            /\ pcb' = [pcb EXCEPT ![nextPort] = [use |-> "read", block |-> 1, len |-> r.len]]
            /\ Deliver(m, {NextBlock(m.client, nextPort, 1, r)})
      BY <1>6 DEF ReadStart
    <2>3. pcb'[nextPort].use = "read" /\ \A p \in Ports \ {nextPort} : pcb'[p] = pcb[p]
      BY <1>0, <1>6, <2>2 DEF ReadStart, TakesPort
    <2>4. QED
      BY <1>0, <1>2, <1>6, <2>1, <2>2, <2>3, AnswerOf DEF ReadStart
  <1>7. CASE WriteStart(m)
    <2>1. m.client \in Up
      BY <1>0, <1>7 DEF WriteStart, IsRequest, Role
    <2>2. pcb'[nextPort].use = "write" /\ \A p \in Ports \ {nextPort} : pcb'[p] = pcb[p]
      BY <1>0, <1>7 DEF WriteStart, TakesPort
    <2>3. \A n \in {Ack(m.client, nextPort, 0)} : Answers(n, m.client, nextPort)
      BY <1>0, <2>1, AnswerOf
    <2>4. TakesPort /\ Deliver(m, {Ack(m.client, nextPort, 0)})
      BY <1>7 DEF WriteStart
    <2>5. OnNewPort(m)
      BY <1>2, <2>1, <2>2, <2>3, <2>4
    <2>6. QED
      BY <2>5
  <1>8. CASE RrqNext(m)
    <2>1. m.port \in Ports /\ m.client \in Readers
      BY <1>0, <1>8 DEF RrqNext, For, RouteInv, PortsKept
    <2>2. PICK r :
            /\ pcb' = [pcb EXCEPT ![m.port].block = BlockAfter(m), ![m.port].len = r.len]
            /\ Deliver(m, {NextBlock(m.client, m.port, BlockAfter(m), r)})
      BY <1>8 DEF RrqNext
    <2>3. \A p \in Ports : pcb'[p].use = pcb[p].use
      BY <1>0, <2>1, <2>2 DEF Pcbs
    <2>4. \A n \in {NextBlock(m.client, m.port, BlockAfter(m), r)} : Answers(n, m.client, m.port)
      BY <1>0, <2>1, AnswerOf
    <2>5. nextPort' = nextPort
      BY <1>8 DEF RrqNext
    <2>6. Deliver(m, {NextBlock(m.client, m.port, BlockAfter(m), r)})
      BY <2>2
    <2>7. OnPort(m)
      BY <1>1, <2>3, <2>4, <2>5, <2>6 DEF Left
    <2>8. QED
      BY <2>7
  <1>9. CASE RrqEnd(m)
    <2>1. m.port \in Ports /\ m.client \in Readers
      BY <1>0, <1>9 DEF RrqEnd, For, RouteInv, PortsKept
    <2>2. PICK stray \in {{}, {Datagram("client", "DATA", m.client, m.port, BlockAfter(m), "empty", 0)}} :
            Deliver(m, stray)
      BY <1>9 DEF RrqEnd
    <2>3. \A p \in Ports : Left(p)
      BY <1>0, <1>9, <2>1 DEF RrqEnd, NoPcb, Pcbs, Left
    <2>4. \A n \in stray : Answers(n, m.client, m.port)
      BY <1>0, <2>1, <2>2, AnswerOf
    <2>5. QED
      BY <1>1, <1>9, <2>2, <2>3, <2>4 DEF RrqEnd
  <1>10. CASE WrqStore(m) \/ WrqEmpty(m) \/ WrqOther(m)
    <2>1. m.port \in Ports /\ m.client \in Up
      BY <1>0, <1>10 DEF WrqStore, WrqEmpty, WrqOther, WrqAnswer, For, RouteInv, PortsKept
    <2>2. PICK b, b2, w : EndOrGoOn(m, b, w) /\ Deliver(m, {Ack(m.client, m.port, b2)}) /\ nextPort' = nextPort
      BY <1>10 DEF WrqStore, WrqEmpty, WrqOther, WrqAnswer
    <2>3. \A p \in Ports : Left(p)
      <3>1. pcb[m.port].use = "write"
        BY <1>10 DEF WrqStore, WrqEmpty, WrqOther, WrqAnswer, For
      <3>2. pcb' = [pcb EXCEPT ![m.port].block = b,
                               ![m.port].use = IF m.len = "full" THEN "write" ELSE "closing"]
        BY <2>2 DEF EndOrGoOn
      <3>3. \A p \in Ports \ {m.port} : pcb'[p] = pcb[p]
        BY <1>0, <3>2
      <3>4. pcb'[m.port].use \in {"write", "closing"}
        BY <1>0, <2>1, <3>2 DEF Pcbs
      <3>5. QED
        BY <3>1, <3>3, <3>4 DEF Left
    <2>4. \A n \in {Ack(m.client, m.port, b2)} : Answers(n, m.client, m.port)
      BY <1>0, <2>1, AnswerOf
    <2>5. OnPort(m)
      BY <1>1, <2>2, <2>3, <2>4
    <2>6. QED
      BY <2>5
  <1>11. CASE WrqFail(m)
    <2>1. m.port \in Ports /\ m.client \in Up
      BY <1>0, <1>11 DEF WrqFail, For, RouteInv, PortsKept
    <2>2. PICK stray \in {{}, {Ack(m.client, m.port, pcb[m.port].block + 1)}} :
            Deliver(m, {Error(m.client, m.port)} \cup stray)
      BY <1>11 DEF WrqFail
    <2>3. \A p \in Ports : Left(p)
      BY <1>0, <1>11, <2>1 DEF WrqFail, NoPcb, Pcbs, Left
    <2>4. \A n \in {Error(m.client, m.port)} \cup stray : Answers(n, m.client, m.port)
      BY <1>0, <2>1, <2>2, AnswerOf
    <2>5. QED
      BY <1>1, <1>11, <2>2, <2>3, <2>4 DEF WrqFail
  <1>12. QED
    BY <1>3, <1>4, <1>5, <1>6, <1>7, <1>8, <1>9, <1>10, <1>11 DEF Handle

LEMMA RouteServer ==
  ASSUME RouteInv, TypeOK', NEW m \in net, ServerStep(m)
  PROVE  Roles' /\ PortsKept' /\ PeersKept'
  <1>1. OnPort(m) \/ OnNewPort(m)
    BY Routed DEF ServerStep
  <1>2. client' = client
    BY DEF ServerStep
  <1>3. m.client \in Clients /\ Uses(m.client, m.port)
    BY TypeOfMessage DEF RouteInv, Uses
  <1>4. Roles'
    BY <1>1 DEF OnPort, OnNewPort, Answers, RouteInv, Roles
  <1>5. \A p, q \in Ports : p # q /\ pcb'[p].use = pcb'[q].use /\ pcb'[p].use \in {"read", "write"}
          => peer'[p] \in shared'
    <2>1. \A p, q \in Ports : p # q /\ pcb'[p].use = pcb'[q].use /\ pcb'[p].use \in {"read", "write"}
            => peer'[p] \in Sharing'
      BY DEF Sharing
    <2>2. QED
      BY <2>1 DEF ServerStep
  <1>6. CASE OnPort(m)
    <2>1. \A c \in Clients, p \in Ports : Uses(c, p)' => Uses(c, p)
      BY <1>2, <1>3, <1>6 DEF OnPort, Answers, Uses
    <2>2. peer' = peer
      BY <1>6 DEF OnPort, ServerStep
    <2>3. \A p \in Ports : p >= nextPort' => pcb'[p].use = "free"
      BY <1>6 DEF OnPort, Left, RouteInv, PortsKept
    <2>4. \A c \in Clients, p \in Ports : Uses(c, p)' =>
            /\ p < nextPort'
            /\ pcb'[p].use \in {"write", "closing"} => c \in Up
            /\ pcb'[p].use = "read" => c \in Readers
            /\ pcb'[p].use \in {"read", "write", "closing"} => peer'[p] = c
            /\ \A d \in Clients : Uses(d, p)' => d = c
      BY <1>6, <2>1, <2>2 DEF OnPort, Left, RouteInv, PortsKept
    <2>5. PortsKept'
      BY <2>3, <2>4 DEF PortsKept
    <2>6. PeersKept'
      BY <1>5, <1>6, <2>2 DEF OnPort, Left, RouteInv, PeersKept
    <2>7. QED
      BY <1>4, <2>5, <2>6
  <1>7. CASE OnNewPort(m)
    <2>1. \A c \in Clients, p \in Ports : Uses(c, p)' => Uses(c, p) \/ (c = m.client /\ p = nextPort)
      BY <1>2, <1>7 DEF OnNewPort, Answers, Uses
    <2>2. nextPort \in Nat /\ (\A p \in Ports : p \in Nat) /\ nextPort \in Ports
      BY <1>7, PortBounds DEF OnNewPort
    <2>3. \A c \in Clients, p \in Ports : Uses(c, p) => p < nextPort /\ p # nextPort
      BY <2>2 DEF RouteInv, PortsKept
    <2>4. \A p \in Ports : p >= nextPort' => pcb'[p].use = "free"
      <3>1. \A p \in Ports : p >= nextPort + 1 => p # nextPort /\ p >= nextPort
        BY <2>2
      <3>2. QED
        BY <1>7, <3>1 DEF OnNewPort, RouteInv, PortsKept
    <2>5. peer' = [peer EXCEPT ![nextPort] = m.client]
      <3>1. nextPort' # nextPort
        BY <1>7, <2>2 DEF OnNewPort
      <3>2. QED
        BY <3>1 DEF ServerStep
    <2>6. peer'[nextPort] = m.client /\ \A p \in Ports \ {nextPort} : peer'[p] = peer[p]
      BY <2>2, <2>5 DEF RouteInv, TypeOK
    <2>7. ASSUME NEW c \in Clients, NEW p \in Ports, Uses(c, p)'
          PROVE  /\ p < nextPort'
                 /\ pcb'[p].use \in {"write", "closing"} => c \in Up
                 /\ pcb'[p].use = "read" => c \in Readers
                 /\ pcb'[p].use \in {"read", "write", "closing"} => peer'[p] = c
                 /\ \A d \in Clients : Uses(d, p)' => d = c
      <3>1. CASE p = nextPort
        <4>1. c = m.client /\ p < nextPort' /\ \A d \in Clients : Uses(d, p)' => d = c
          BY <1>7, <2>1, <2>2, <2>3, <2>7, <3>1 DEF OnNewPort
        <4>2. QED
          BY <1>7, <2>6, <3>1, <4>1 DEF OnNewPort
      <3>2. CASE p # nextPort
        <4>1. Uses(c, p) /\ pcb'[p] = pcb[p] /\ peer'[p] = peer[p]
          BY <1>7, <2>1, <2>6, <2>7, <3>2 DEF OnNewPort
        <4>2. \A d \in Clients : Uses(d, p)' => Uses(d, p)
          BY <2>1, <3>2
        <4>3. p < nextPort'
          BY <1>7, <2>2, <2>3, <4>1 DEF OnNewPort
        <4>4. QED
          BY <4>1, <4>2, <4>3 DEF RouteInv, PortsKept
      <3>3. QED
        BY <3>1, <3>2
    <2>8. PortsKept'
      BY <2>4, <2>7 DEF PortsKept
    <2>9. PeersKept'
      BY <1>5, <1>7, <2>6 DEF OnNewPort, RouteInv, PeersKept
    <2>10. QED
      BY <1>4, <2>8, <2>9
  <1>8. QED
    BY <1>1, <1>6, <1>7

\* The clean-up frees a port and leaves the network alone.
LEMMA RouteCleanup ==
  ASSUME RouteInv, NEW p \in Ports, CleanupStep(p)
  PROVE  Roles' /\ PortsKept' /\ PeersKept'
  <1>1. UNCHANGED <<nextPort, net, client, peer, shared>>
    BY DEF CleanupStep, CleanupWr
  <1>2. \A q \in Ports : pcb'[q] = pcb[q] \/ pcb'[q].use = "free"
    BY DEF CleanupStep, CleanupWr, NoPcb, RouteInv, TypeOK
  <1>3. Roles'
    BY <1>1 DEF RouteInv, Roles
  <1>4. PortsKept'
    BY <1>1, <1>2 DEF RouteInv, PortsKept, Uses
  <1>5. PeersKept'
    BY <1>1, <1>2 DEF RouteInv, PeersKept
  <1>6. QED
    BY <1>3, <1>4, <1>5

\* A client speaks only of the port it was answered on.
LEMMA RouteOf ==
  ASSUME RouteInv, UNCHANGED <<pcb, nextPort, peer, shared>>, NEW c \in Clients,
         \A n \in net' : n \in net \/ (n.client = c /\ Role(n) /\ (n.port \in Ports => Uses(c, n.port))),
         \A d \in Clients : client'[d].port = client[d].port \/ (d = c /\ Uses(c, client'[d].port))
  PROVE  Roles' /\ PortsKept' /\ PeersKept'
  <1>1. Roles'
    BY DEF RouteInv, Roles
  <1>2. \A d \in Clients, p \in Ports : Uses(d, p)' => Uses(d, p)
    BY DEF Uses
  <1>3. PortsKept'
    BY <1>2 DEF RouteInv, PortsKept
  <1>4. PeersKept'
    BY DEF RouteInv, PeersKept
  <1>5. QED
    BY <1>1, <1>3, <1>4

LEMMA RouteClients ==
  ASSUME RouteInv,
         \/ \E m \in net : ClientStep(m) \/ Lose(m)
         \/ \E c \in Clients : Start(c) \/ Timeout(c) \/ Abort(c)
  PROVE  Roles' /\ PortsKept' /\ PeersKept'
  <1>0. client \in [Clients -> States]
    BY DEF RouteInv, TypeOK, States, Blocks
  <1>1. ASSUME NEW m \in net, ClientStep(m) PROVE Roles' /\ PortsKept' /\ PeersKept'
    <2> DEFINE c == m.client  b == Awaited(m.client)
    <2>0. UNCHANGED <<pcb, nextPort, peer, shared>>
      BY <1>1, ClientsLeave DEF serverVars, history
    <2>1. c \in Clients /\ Uses(c, m.port) /\ Role(m)
      BY TypeOfMessage DEF RouteInv, Roles, Uses
    <2> HIDE DEF c, b
    <2>2. CASE ClientData(m)
      <3> DEFINE a == Datagram("server", "ACK", c, m.port, b, "empty", 0)
      <3>1. c \in Readers
        BY <2>1, <2>2 DEF ClientData, ForClient, Role, c
      <3>2. Role(a) /\ a.client = c /\ a.port = m.port
        BY <2>1, <3>1, PacketRoles DEF Datagram
      <3>3. Deliver(m, {a})
        BY <2>2 DEF ClientData, c, b
      <3> HIDE DEF a
      <3>4. \A n \in net' : n \in net \/ (n.client = c /\ Role(n) /\ (n.port \in Ports => Uses(c, n.port)))
        BY <2>1, <3>2, <3>3, Delivered
      <3>5. \A d \in Clients : client'[d].port = client[d].port \/ (d = c /\ Uses(c, client'[d].port))
        BY <1>0, <2>1, <2>2 DEF ClientData, c
      <3>6. QED
        BY <2>0, <2>1, <3>4, <3>5, RouteOf
    <2>3. CASE ClientAck(m)
      <3> DEFINE a == Datagram("server", "DATA", c, m.port, b + 1, LenOf(b + 1), b + 1)
      <3>1. c \in Up
        BY <2>1, <2>3 DEF ClientAck, ForClient, Role, Up, c
      <3>2. Role(a) /\ a.client = c /\ a.port = m.port
        BY <2>1, <3>1, PacketRoles DEF Datagram
      <3>3. Deliver(m, {}) \/ Deliver(m, {a})
        BY <2>3 DEF ClientAck, c, b
      <3> HIDE DEF a
      <3>4. \A n \in net' : n \in net \/ (n.client = c /\ Role(n) /\ (n.port \in Ports => Uses(c, n.port)))
        BY <2>1, <3>2, <3>3, Delivered
      <3>5. \A d \in Clients : client'[d].port = client[d].port \/ (d = c /\ Uses(c, client'[d].port))
        <4>1. client' = [client EXCEPT ![c] = [@ EXCEPT !.phase = client'[c].phase, !.port = m.port, !.block = b]]
          BY <1>0, <2>1, <2>3 DEF ClientAck, c, b, States
        <4>2. client[c] \in States
          BY <1>0, <2>1
        <4>3. client'[c].port = m.port
          BY <1>0, <2>1, <2>3, <4>2 DEF ClientAck, c, b, States
        <4>4. \A d \in Clients : d # c => client'[d] = client[d]
          BY <1>0, <2>1, <4>1
        <4>5. QED
          BY <2>1, <4>3, <4>4
      <3>6. QED
        BY <2>0, <2>1, <3>4, <3>5, RouteOf
    <2>4. CASE ClientError(m) \/ ClientIgnores(m)
      <3>1. net' \subseteq net
        BY <2>4, Delivered DEF ClientError, ClientIgnores
      <3>2. \A d \in Clients : client'[d].port = client[d].port
        BY <1>0, <2>1, <2>4 DEF ClientError, ClientIgnores, States, c
      <3>3. QED
        BY <2>0, <2>1, <3>1, <3>2, RouteOf
    <2>5. QED
      BY <1>1, <2>2, <2>3, <2>4 DEF ClientStep
  <1>2. ASSUME NEW m \in net, Lose(m) PROVE Roles' /\ PortsKept' /\ PeersKept'
    <2>1. UNCHANGED <<pcb, nextPort, peer, shared, client>> /\ net' \subseteq net /\ m.client \in Clients
      BY <1>2, ClientsLeave, TypeOfMessage DEF Lose, serverVars, history, RouteInv
    <2>2. QED
      BY <2>1, RouteOf
  <1>3. ASSUME NEW c \in Clients, Start(c) \/ Timeout(c) \/ Abort(c) PROVE Roles' /\ PortsKept' /\ PeersKept'
    <2>1. UNCHANGED <<pcb, nextPort, peer, shared>>
      BY <1>3, ClientsLeave DEF serverVars, history
    <2>2. \A d \in Clients : client'[d].port = client[d].port
      BY <1>0, <1>3 DEF Start, Timeout, Abort, States
    <2>3. PICK a : net' = net \cup {a} /\ a.client = c /\ Role(a)
                   /\ (a.port \in Ports => a.port = client[c].port)
      <3>1. Request(c).client = c /\ Request(c).port \notin Ports /\ Role(Request(c))
        BY PacketRoles, PortBounds DEF Request, Datagram
      <3>2. CASE Start(c)
        BY <3>1, <3>2 DEF Start
      <3>3. CASE Timeout(c)
        <4>1. Role(Pending(c)) /\ Pending(c).client = c
              /\ (Pending(c).port \in Ports => Pending(c).port = client[c].port)
          <5>1. CASE client[c].phase = "req"
            BY <3>1, <5>1 DEF Pending
          <5>2. CASE client[c].phase # "req" /\ client[c].phase = "run" /\ c \in Readers
            BY <5>2, PacketRoles DEF Pending, Datagram
          <5>3. CASE client[c].phase # "req" /\ ~(client[c].phase = "run" /\ c \in Readers)
            <6>1. c \in Up
              BY <3>3, <5>3 DEF Timeout, Up
            <6>2. QED
              BY <5>3, <6>1, PacketRoles DEF Pending, Datagram
          <5>4. QED
            BY <5>1, <5>2, <5>3
        <4>2. QED
          BY <3>3, <4>1 DEF Timeout
      <3>4. CASE Abort(c)
        <4>1. PICK code \in AbortCodes :
                net' = net \cup {Datagram("server", "ERROR", c, client[c].port, code, "part", 0)}
          BY <3>4 DEF Abort
        <4>2. c \in Up
          BY <3>4 DEF Abort, Up
        <4> DEFINE a == Datagram("server", "ERROR", c, client[c].port, code, "part", 0)
        <4>3. a.client = c /\ Role(a) /\ a.port = client[c].port
          BY <4>2, PacketRoles DEF Datagram
        <4> HIDE DEF a
        <4>4. net' = net \cup {a}
          BY <4>1 DEF a
        <4>5. QED
          BY <4>3, <4>4
      <3>5. QED
        BY <1>3, <3>2, <3>3, <3>4
    <2>4. \A n \in net' : n \in net \/ (n.client = c /\ Role(n) /\ (n.port \in Ports => Uses(c, n.port)))
      BY <2>3 DEF Uses
    <2>5. QED
      BY <2>1, <2>2, <2>4, RouteOf
  <1>4. QED
    BY <1>1, <1>2, <1>3

LEMMA RouteNext == RouteInv /\ [Next]_vars => RouteInv'
  <1> SUFFICES ASSUME RouteInv, [Next]_vars PROVE RouteInv'
    OBVIOUS
  <1>1. TypeOK'
    BY TypeNext DEF RouteInv
  <1>2. ASSUME UNCHANGED <<pcb, nextPort, net, client, peer, shared>>
        PROVE  Roles' /\ PortsKept' /\ PeersKept'
    BY <1>2 DEF RouteInv, Roles, PortsKept, PeersKept, Uses
  <1>3. CASE HealthChanges \/ UNCHANGED vars
    <2>1. UNCHANGED <<pcb, nextPort, net, client, peer, shared>>
      BY <1>3, ClientsLeave DEF serverVars, history
    <2>2. QED
      BY <1>1, <1>2, <2>1 DEF RouteInv
  <1>4. CASE ~(HealthChanges \/ UNCHANGED vars)
    <2>1. Roles' /\ PortsKept' /\ PeersKept'
      BY <1>1, <1>4, RouteServer, RouteCleanup, RouteClients DEF Next
    <2>2. QED
      BY <1>1, <2>1 DEF RouteInv
  <1>5. QED
    BY <1>3, <1>4

\* A handler touches the pcb of the packet's port, or that of the next one.
LEMMA TouchesOnePort ==
  ASSUME RouteInv, NEW m \in net, Handle(m), NEW p \in Ports, p # m.port, p # nextPort
  PROVE  pcb'[p] = pcb[p]
  <1>0. pcb \in [Ports -> Pcbs]
    BY RouteFacts
  <1>1. CASE RequestDropped(m) \/ Unclaimed(m) \/ RequestRefused(m)
    BY <1>1 DEF RequestDropped, Unclaimed, RequestRefused, serverVars
  <1>2. CASE RequestStranded(m) \/ WriteStart(m)
    BY <1>0, <1>2 DEF RequestStranded, WriteStart
  <1>3. CASE ReadStart(m)
    <2>1. PICK x : pcb' = [pcb EXCEPT ![nextPort] = x]
      BY <1>3 DEF ReadStart
    <2>2. QED
      BY <1>0, <2>1
  <1>4. CASE RrqNext(m)
    <2>1. PICK x, y : pcb' = [pcb EXCEPT ![m.port].block = x, ![m.port].len = y]
      BY <1>4 DEF RrqNext
    <2>2. QED
      BY <1>0, <2>1
  <1>5. CASE RrqEnd(m) \/ WrqFail(m)
    BY <1>0, <1>5 DEF RrqEnd, WrqFail
  <1>6. CASE WrqStore(m) \/ WrqEmpty(m) \/ WrqOther(m)
    <2>1. PICK b, w : EndOrGoOn(m, b, w)
      BY <1>6 DEF WrqStore, WrqEmpty, WrqOther, WrqAnswer
    <2>2. QED
      BY <1>0, <2>1 DEF EndOrGoOn
  <1>7. QED
    BY <1>1, <1>2, <1>3, <1>4, <1>5, <1>6 DEF Handle

\* Every packet that is handled is for the server, and no other leaves the network.
LEMMA PacketsStay ==
  ASSUME NEW m, Handle(m)
  PROVE  m.to = "server" /\ net \ {m} \subseteq net'
  <1>1. m.to = "server"
    BY DEF Handle, RequestDropped, RequestStranded, RequestRefused, ReadStart, WriteStart, RrqNext, RrqEnd,
           WrqStore, WrqFail, WrqEmpty, WrqOther, WrqAnswer, Unclaimed, IsRequest, For
  <1>2. \E R : Deliver(m, R)
    BY DEF Handle, RequestDropped, RequestStranded, RequestRefused, ReadStart, WriteStart, RrqNext, RrqEnd,
           WrqStore, WrqFail, WrqEmpty, WrqOther, WrqAnswer, Unclaimed
  <1>3. QED
    BY <1>1, <1>2, Delivered

\* The handlers that write to the open file, and those that leave files and entries alone
\* but may invalidate the open file.
OnFile(m) == WrqStore(m) \/ WrqFail(m) \/ WrqEmpty(m) \/ WrqOther(m)

LeavesFiles == disk' = disk /\ file_CR' \in {file_CR, Invalid(file_CR)}

LEMMA FileCases ==
  ASSUME RouteInv, NEW m \in net, Handle(m)
  PROVE  /\ \/ LeavesFiles
            \/ RequestRefused(m)
            \/ WriteStart(m) /\ m.client \in Up
            \/ OnFile(m) /\ m.port \in Ports /\ pcb[m.port].use = "write"
                         /\ m.client \in Up /\ peer[m.port] = m.client
         /\ m.op = "WRQ" => m.client \in Up
  <1>0. m.client \in Clients /\ Role(m) /\ Uses(m.client, m.port)
    BY RouteFacts
  <1>1. m.op = "WRQ" => m.client \in Up
    BY <1>0 DEF Role
  <1>2. CASE RequestDropped(m) \/ Unclaimed(m)
    BY <1>1, <1>2 DEF RequestDropped, Unclaimed, serverVars, LeavesFiles
  <1>3. CASE RequestStranded(m) \/ ReadStart(m) \/ RrqNext(m) \/ RrqEnd(m)
    BY <1>1, <1>3 DEF RequestStranded, ReadStart, RrqNext, RrqEnd, LeavesFiles
  <1>4. CASE RequestRefused(m) \/ WriteStart(m)
    BY <1>1, <1>4 DEF WriteStart, IsRequest
  <1>5. CASE OnFile(m)
    <2>1. m.port \in Ports /\ pcb[m.port].use = "write"
      BY <1>5 DEF OnFile, WrqStore, WrqFail, WrqEmpty, WrqOther, WrqAnswer, For
    <2>2. m.client \in Up /\ peer[m.port] = m.client
      BY <1>0, <2>1 DEF RouteInv, PortsKept
    <2>3. QED
      BY <1>1, <1>5, <2>1, <2>2
  <1>6. QED
    BY <1>2, <1>3, <1>4, <1>5 DEF Handle, OnFile

\* Only a write request opens a pcb for writing.
LEMMA WritersStay ==
  ASSUME RouteInv, NEW m \in net, Handle(m), ~WriteStart(m),
         NEW q \in Ports, pcb'[q].use \in {"write", "closing"}
  PROVE  pcb[q].use = "write"
  <1>0. pcb \in [Ports -> Pcbs] /\ pcb[q].use # "closing"
    BY RouteFacts DEF Handle
  <1>1. CASE OnPort(m)
    BY <1>0, <1>1 DEF OnPort, Left
  <1>2. CASE OnNewPort(m)
    <2>1. nextPort \in Ports /\ nextPort' # nextPort
      BY <1>2, PortBounds DEF OnNewPort
    <2>2. RequestStranded(m) \/ RequestRefused(m) \/ ReadStart(m)
      BY <2>1 DEF Handle, RequestDropped, RrqNext, RrqEnd, WrqStore, WrqFail, WrqEmpty,
                  WrqOther, WrqAnswer, Unclaimed, serverVars
    <2>3. CASE q # nextPort
      BY <1>0, <1>2, <2>3 DEF OnNewPort
    <2>4. CASE q = nextPort
      <3>1. pcb[q].use = "free"
        BY <2>1, <2>4, RouteFacts
      <3>2. ~RequestRefused(m)
        BY <3>1 DEF RequestRefused
      <3>3. ~RequestStranded(m)
        BY <1>0, <2>1, <2>4 DEF RequestStranded, Pcbs
      <3>4. ~ReadStart(m)
        <4>1. ASSUME ReadStart(m) PROVE FALSE
          <5>1. PICK x, y : pcb' = [pcb EXCEPT ![nextPort] = [use |-> "read", block |-> x, len |-> y]]
            BY <4>1 DEF ReadStart
          <5>2. QED
            BY <1>0, <2>1, <2>4, <5>1
        <4>2. QED
          BY <4>1
      <3>5. QED
        BY <2>2, <3>2, <3>3, <3>4
    <2>5. QED
      BY <2>3, <2>4
  <1>3. QED
    BY <1>1, <1>2, Routed

-----------------------------------------------------------------------------
(* Uploads that have the file to themselves, beside any number of others.  *)

\* Block numbers do not wrap.
Numbered == NBlocks < BlockMod

\* No ERROR packet is taken for a block, although the opcode is not looked at.
Harmless == \A code \in AbortCodes : code % BlockMod = 0

Mine(u) == file_CR.ok /\ file_CR.owner = u

\* Uploading clients count their blocks, and downloading ones store nothing.
CountKept ==
  /\ \A u \in Up :
       /\ client[u].phase \in {"idle", "req"} => client[u].block = 0
       /\ client[u].phase = "run" => client[u].block < NBlocks
  /\ \A c \in Readers : disk[c] = <<>> /\ ~Mine(c)

\* A client that takes a packet speaks for itself.
LEMMA ClientAnswers ==
  ASSUME NEW m, ClientData(m) \/ ClientAck(m) \/ ClientError(m)
  PROVE  \E R : Deliver(m, R) /\ \A n \in R : n.client = m.client
  <1>1. CASE ClientData(m)
    <2> DEFINE a == Datagram("server", "ACK", m.client, m.port, Awaited(m.client), "empty", 0)
    <2>1. a.client = m.client
      BY DEF Datagram
    <2>2. Deliver(m, {a})
      BY <1>1 DEF ClientData
    <2> HIDE DEF a
    <2>3. QED
      BY <2>1, <2>2
  <1>2. CASE ClientAck(m)
    <2> DEFINE a == Datagram("server", "DATA", m.client, m.port, Awaited(m.client) + 1,
                             LenOf(Awaited(m.client) + 1), Awaited(m.client) + 1)
    <2>1. a.client = m.client
      BY DEF Datagram
    <2>2. Deliver(m, {}) \/ Deliver(m, {a})
      BY <1>2 DEF ClientAck
    <2> HIDE DEF a
    <2>3. QED
      BY <2>1, <2>2
  <1>3. CASE ClientError(m)
    BY <1>3 DEF ClientError
  <1>4. QED
    BY <1>1, <1>2, <1>3

LEMMA OnlyOneClient ==
  ASSUME client \in [Clients -> States], NEW m, NEW d \in Clients, d # m.client,
         ClientData(m) \/ ClientAck(m) \/ ClientError(m)
  PROVE  client'[d] = client[d]
  BY DEF ClientData, ClientAck, ClientError

LEMMA UploaderTyped ==
  ASSUME RouteInv, NEW u \in Up
  PROVE  /\ u \in Clients /\ u \notin Readers /\ client \in [Clients -> States]
         /\ client[u] \in States /\ client[u].block \in Nat /\ Awaited(u) \in Nat
         /\ Request(u).op = "WRQ" /\ Request(u).to = "server" /\ Request(u).client = u
  <1>1. u \in Clients /\ u \notin Readers
    BY DEF Up
  <1>2. Request(u).op = "WRQ" /\ Request(u).to = "server" /\ Request(u).client = u
    BY <1>1 DEF Request, Datagram
  <1>3. QED
    BY <1>1, <1>2, ClientIsTyped DEF RouteInv

\* What an acknowledgement makes of its client.
LEMMA AckNoted ==
  ASSUME RouteInv, CountKept, NEW m \in net, ClientAck(m)
  PROVE  /\ m.client \in Up /\ m.to = "client" /\ m.op = "ACK" /\ client[m.client].phase \in {"req", "run"}
         /\ \E b \in Nat :
              /\ b = Awaited(m.client) /\ b <= NBlocks /\ m.block = b % BlockMod
              /\ b = client[m.client].block + 1 \/ (b = 0 /\ client[m.client].block = 0)
              /\ client'[m.client].block = b /\ client'[m.client].port = m.port
              /\ client'[m.client].phase = IF b = NBlocks THEN "done" ELSE "run"
              /\ b # NBlocks => b + 1 \in 1 .. NBlocks
  <1>1. m.to = "client" /\ m.op = "ACK" /\ client[m.client].phase \in {"req", "run"}
        /\ m.block = Awaited(m.client) % BlockMod
    BY DEF ClientAck, ForClient
  <1>2. m.client \in Clients /\ Role(m)
    BY RouteFacts
  <1>3. PICK u \in Up : u = m.client
    BY <1>1, <1>2 DEF Role, Up
  <1>4. PICK b \in Nat : b = Awaited(u)
    BY UploaderTyped
  <1>5. b = client[u].block + 1 \/ (b = 0 /\ client[u].block = 0)
    BY <1>1, <1>3, <1>4 DEF Awaited, Up, CountKept
  <1>6. b <= NBlocks
    BY <1>1, <1>3, <1>4, UploaderTyped, TftpAssumption DEF Awaited, Up, CountKept
  <1>7. client'[u].block = b /\ client'[u].port = m.port
        /\ client'[u].phase = IF b = NBlocks THEN "done" ELSE "run"
    BY <1>3, <1>4, UploaderTyped DEF ClientAck, States
  <1>8. b # NBlocks => b + 1 \in 1 .. NBlocks
    BY <1>6, TftpAssumption
  <1>9. QED
    BY <1>1, <1>3, <1>4, <1>5, <1>6, <1>7, <1>8

LEMMA CountClients ==
  ASSUME RouteInv, CountKept, NEW u \in Up,
         \/ \E m \in net : ClientStep(m) \/ Lose(m)
         \/ \E c \in Clients : Start(c) \/ Timeout(c) \/ Abort(c)
  PROVE  /\ client'[u].phase \in {"idle", "req"} => client'[u].block = 0
         /\ client'[u].phase = "run" => client'[u].block < NBlocks
  <1>0. /\ u \in Clients /\ u \notin Readers /\ client \in [Clients -> States] /\ client[u] \in States
        /\ (client[u].phase \in {"idle", "req"} => client[u].block = 0)
        /\ (client[u].phase = "run" => client[u].block < NBlocks)
    BY UploaderTyped DEF CountKept
  <1>1. CASE client'[u] = client[u]
    BY <1>0, <1>1
  <1>2. ASSUME NEW m \in net, m.client = u, ClientAck(m)
        PROVE  /\ client'[u].phase \in {"idle", "req"} => client'[u].block = 0
               /\ client'[u].phase = "run" => client'[u].block < NBlocks
    <2>1. PICK b \in Nat :
            /\ b <= NBlocks /\ client'[u].block = b
            /\ client'[u].phase = IF b = NBlocks THEN "done" ELSE "run"
      BY <1>2, AckNoted
    <2>2. QED
      BY <2>1, TftpAssumption
  <1>3. ASSUME NEW m \in net, m.client = u, ClientError(m)
        PROVE  client'[u].phase = "failed"
    BY <1>0, <1>3 DEF ClientError, States
  <1>4. ASSUME NEW m \in net, m.client = u PROVE ~ClientData(m)
    BY <1>0, <1>4, RouteFacts DEF ClientData, ForClient, Role
  <1>5. ASSUME NEW m \in net, ClientStep(m) \/ Lose(m), client'[u] # client[u]
        PROVE  m.client = u /\ (ClientAck(m) \/ ClientError(m))
    <2>1. m.client # u => ~ClientData(m) /\ ~ClientAck(m) /\ ~ClientError(m)
      BY <1>0, <1>5, OnlyOneClient
    <2>2. QED
      BY <1>4, <1>5, <2>1 DEF ClientStep, ClientIgnores, Lose
  <1>6. ASSUME NEW c \in Clients, Start(c) \/ Timeout(c) \/ Abort(c)
        PROVE  /\ client'[u].phase \in {"idle", "req"} => client'[u].block = 0
               /\ client'[u].phase = "run" => client'[u].block < NBlocks
    BY <1>0, <1>6 DEF Start, Timeout, Abort, States
  <1>7. QED
    BY <1>1, <1>2, <1>3, <1>5, <1>6

\* The directory entry that closing the file changes is that of its owner.
LEMMA ClosedIsOwners ==
  ASSUME TypeOK, NEW c \in Clients, NEW good, disk' = Closed(good), disk'[c] # disk[c]
  PROVE  Mine(c) /\ good /\ disk'[c] = file_CR.written
  BY DEF Closed, Mine, TypeOK

LEMMA CountServer ==
  ASSUME RouteInv, CountKept, (\E m \in net : ServerStep(m)) \/ (\E p \in Ports : CleanupStep(p)),
         NEW c \in Readers
  PROVE  disk'[c] = <<>> /\ ~Mine(c)'
  <1>0. /\ c \in Clients /\ c \notin Up /\ disk[c] = <<>> /\ ~Mine(c) /\ TypeOK
        /\ file_CR \in CrFil /\ disk \in [Clients -> Blocks]
    BY TransferAssumption DEF Up, CountKept, RouteInv, TypeOK, CrFil, Blocks
  <1>1. ASSUME \E good \in Good : disk' = Closed(good) PROVE disk'[c] = <<>>
    BY <1>0, <1>1, ClosedIsOwners
  <1>2. ~Invalid(file_CR).ok
    BY <1>0 DEF Invalid, CrFil
  <1>3. ASSUME NEW p \in Ports, CleanupStep(p) PROVE disk'[c] = <<>> /\ ~Mine(c)'
    BY <1>1, <1>2, <1>3 DEF CleanupStep, CleanupWr, Mine
  <1>4. ASSUME NEW m \in net, ServerStep(m) PROVE disk'[c] = <<>> /\ ~Mine(c)'
    <2>0. Handle(m)
      BY <1>4 DEF ServerStep
    <2>1. CASE LeavesFiles
      BY <1>0, <1>2, <2>1 DEF LeavesFiles, Mine
    <2>2. CASE RequestRefused(m)
      BY <1>0, <1>2, <2>0, <2>2, FileCases DEF RequestRefused, Mine
    <2>3. CASE WriteStart(m) /\ m.client \in Up
      BY <1>0, <2>3 DEF WriteStart, Mine
    <2>4. CASE WrqFail(m)
      BY <1>1, <1>2, <2>4 DEF WrqFail, Mine
    <2>5. CASE WrqStore(m) \/ WrqEmpty(m) \/ WrqOther(m)
      <3>1. PICK b, w : EndOrGoOn(m, b, w)
        BY <2>5 DEF WrqStore, WrqEmpty, WrqOther, WrqAnswer
      <3>2. disk' = disk /\ file_CR'.ok = file_CR.ok /\ file_CR'.owner = file_CR.owner
        BY <1>0, <3>1 DEF EndOrGoOn, CrFil
      <3>3. QED
        BY <1>0, <3>2 DEF Mine
    <2>6. QED
      BY <2>0, <2>1, <2>2, <2>3, <2>4, <2>5, FileCases DEF OnFile
  <1>5. QED
    BY <1>3, <1>4

LEMMA CountNext ==
  ASSUME RouteInv, CountKept, [Next]_vars
  PROVE  CountKept'
  <1>1. CASE \/ \E m \in net : ClientStep(m) \/ Lose(m)
             \/ \E c \in Clients : Start(c) \/ Timeout(c) \/ Abort(c)
    <2>1. disk' = disk /\ file_CR' = file_CR
      BY <1>1, ClientsLeave DEF serverVars
    <2>2. QED
      BY <1>1, <2>1, CountClients DEF CountKept, Mine
  <1>2. CASE (\E m \in net : ServerStep(m)) \/ (\E p \in Ports : CleanupStep(p))
    <2>1. client' = client
      BY <1>2 DEF ServerStep, CleanupStep
    <2>2. QED
      BY <1>2, <2>1, CountServer DEF CountKept
  <1>3. CASE HealthChanges \/ UNCHANGED vars
    <2>1. UNCHANGED <<client, disk, file_CR>>
      BY <1>3, ClientsLeave DEF serverVars
    <2>2. QED
      BY <2>1 DEF CountKept, Mine
  <1>4. QED
    BY <1>1, <1>2, <1>3 DEF Next

LEMMA ContentFacts ==
  ASSUME NEW c
  PROVE  /\ Len(Content(c)) = IF LastLen = "empty" THEN NBlocks - 1 ELSE NBlocks
         /\ Len(Content(c)) \in Nat /\ Len(Content(c)) <= NBlocks /\ NBlocks <= Len(Content(c)) + 1
         /\ \A i \in 1 .. Len(Content(c)) : Content(c)[i] = <<c, i>>
         /\ c \in Clients => Content(c) \in Blocks
         /\ Content(c) \in Seq({<<c, i>> : i \in Nat})
  <1> DEFINE n == IF LastLen = "empty" THEN NBlocks - 1 ELSE NBlocks
  <1>1. n \in Nat /\ n <= NBlocks /\ NBlocks <= n + 1
    BY TftpAssumption
  <1> HIDE DEF n
  <1>2. Content(c) = [i \in 1 .. n |-> <<c, i>>]
    BY DEF Content, n
  <1>3. \A i \in 1 .. n : i \in Nat
    BY <1>1
  <1>4. Content(c) \in Seq({<<c, i>> : i \in Nat})
    BY <1>1, <1>2, <1>3
  <1>5. Len(Content(c)) = n
    BY <1>1, <1>2
  <1>6. c \in Clients => Content(c) \in Blocks
    BY <1>1, <1>2, <1>3 DEF Blocks
  <1>7. QED
    BY <1>1, <1>2, <1>4, <1>5, <1>6 DEF n

LEMMA PrefixEmpty == ASSUME NEW c PROVE Prefix(<<>>, Content(c))
  BY ContentFacts DEF Prefix

LEMMA PrefixAppend ==
  ASSUME NEW c \in Clients, NEW w \in Blocks, Prefix(w, Content(c)), Len(w) + 1 <= Len(Content(c)),
         NEW x, x = <<c, Len(w) + 1>>
  PROVE  Prefix(Append(w, x), Content(c)) /\ Len(Append(w, x)) = Len(w) + 1
  <1>1. Len(w) \in Nat /\ Len(Content(c)) \in Nat
    BY ContentFacts DEF Blocks
  <1>2. Len(Append(w, x)) = Len(w) + 1
    BY DEF Blocks
  <1>3. \A i \in 1 .. Len(w) : Append(w, x)[i] = w[i]
    BY DEF Blocks
  <1>4. Append(w, x)[Len(w) + 1] = x
    BY DEF Blocks
  <1>5. Content(c)[Len(w) + 1] = x
    <2>1. Len(w) + 1 \in 1 .. Len(Content(c))
      BY <1>1
    <2>2. QED
      BY <2>1, ContentFacts
  <1>6. \A i \in 1 .. Len(w) + 1 : Append(w, x)[i] = Content(c)[i]
    <2>1. TAKE i \in 1 .. Len(w) + 1
    <2>2. i \in 1 .. Len(w) \/ i = Len(w) + 1
      BY <1>1
    <2>3. QED
      BY <1>3, <1>4, <1>5, <2>2 DEF Prefix
  <1>7. QED
    BY <1>2, <1>6 DEF Prefix

LEMMA PrefixWhole ==
  ASSUME NEW c \in Clients, NEW w \in Blocks, Prefix(w, Content(c)), Len(w) = Len(Content(c))
  PROVE  w = Content(c)
  <1>1. Content(c) \in Blocks
    BY ContentFacts
  <1>2. \A i \in 1 .. Len(w) : w[i] = Content(c)[i]
    BY DEF Prefix
  <1>3. QED
    BY <1>1, <1>2, SMTT(60) DEF Blocks

\* What the uploading client sends behind its request.
UpPacket(m) ==
  \/ m.op = "ERROR" /\ m.block = 0 /\ Harmless
  \/ /\ m.op = "DATA" /\ m.block \in 1 .. NBlocks
     /\ m.len = LenOf(m.block) /\ m.data = <<m.client, m.block>>

\* A pcb that writes for client u, or is about to close the file, and the only such pcb.
Holds(p, u) == p \in Ports /\ pcb[p].use \in {"write", "closing"} /\ peer[p] = u
Sole(p)     == \A q \in Ports : pcb[q].use \in {"write", "closing"} => q = p

\* The upload shared the file, or its client gave up with what may be taken for a block.
Excused(u) == u \in shared \/ (client[u].phase = "failed" /\ ~Harmless)

\* The open file holds the blocks that the transfer has counted, and nobody else writes.
FileKept(u) ==
  /\ \A m \in net : m.to = "server" /\ m.client = u /\ m.op # "WRQ" => UpPacket(m)
  /\ \A p \in Ports : Holds(p, u) => Sole(p) /\ file_CR.owner = u
  /\ \A p \in Ports : Holds(p, u) /\ pcb[p].use = "write" =>
       pcb[p].block < NBlocks /\ (file_CR.ok => Len(file_CR.written) = pcb[p].block)
  /\ Mine(u) => /\ \E p \in Ports : Holds(p, u)
                /\ Prefix(file_CR.written, Content(u)) /\ disk[u] = <<>>
  /\ Prefix(disk[u], Content(u))

UploadInv == RouteInv /\ CountKept /\ \A u \in Up : Excused(u) \/ FileKept(u)

LEMMA UploadInit == Init => CountKept /\ \A u \in Up : FileKept(u)
  <1> SUFFICES ASSUME Init PROVE CountKept /\ \A u \in Up : FileKept(u)
    OBVIOUS
  <1>1. \A p \in Ports : pcb[p].use = "free"
    BY DEF Init, ServerInit, NoPcb
  <1>2. /\ ~file_CR.ok /\ net = {} /\ \A c \in Clients : disk[c] = <<>>
        /\ \A c \in Clients : client[c].phase = "idle" /\ client[c].block = 0
    BY DEF Init, ServerInit
  <1>3. CountKept
    BY <1>2, TransferAssumption DEF CountKept, Mine, Up
  <1>4. ASSUME NEW u \in Up PROVE FileKept(u)
    <2>1. \A p \in Ports : ~Holds(p, u)
      BY <1>1 DEF Holds
    <2>2. Prefix(disk[u], Content(u))
      BY <1>2, PrefixEmpty DEF Up
    <2>3. QED
      BY <1>2, <2>1, <2>2 DEF FileKept, Mine
  <1>5. QED
    BY <1>3, <1>4

\* What excuses an upload stays.
LEMMA ExcuseLasts ==
  ASSUME RouteInv, [Next]_vars, NEW u \in Up
  PROVE  Excused(u) => Excused(u)'
  <1>0. u \in Clients /\ client \in [Clients -> States]
    BY UploaderTyped
  <1>1. shared \subseteq shared'
    <2>1. shared' = shared \/ \E m \in net : ServerStep(m)
      BY ClientsLeave DEF Next, CleanupStep, history
    <2>2. QED
      BY <2>1 DEF ServerStep
  <1>2. ASSUME client[u].phase = "failed" PROVE client'[u].phase = "failed"
    <2>1. ASSUME NEW m \in net, ClientStep(m) \/ Lose(m) PROVE client'[u].phase = "failed"
      <3>1. CASE m.client = u
        BY <1>0, <1>2, <2>1, <3>1 DEF ClientStep, ClientData, ClientAck, ClientError, ClientIgnores, ForClient, Lose
      <3>2. CASE m.client # u
        BY <1>0, <1>2, <2>1, <3>2, OnlyOneClient DEF ClientStep, ClientIgnores, Lose
      <3>3. QED
        BY <3>1, <3>2
    <2>2. ASSUME NEW c \in Clients, Start(c) \/ Timeout(c) \/ Abort(c) PROVE client'[u].phase = "failed"
      BY <1>0, <1>2, <2>2 DEF Start, Timeout, Abort, States
    <2>3. (\E m \in net : ServerStep(m)) \/ (\E p \in Ports : CleanupStep(p)) => client' = client
      BY DEF ServerStep, CleanupStep
    <2>4. HealthChanges \/ UNCHANGED vars => client' = client
      BY ClientsLeave
    <2>5. QED
      BY <1>2, <2>1, <2>2, <2>3, <2>4 DEF Next
  <1>3. QED
    BY <1>1, <1>2 DEF Excused

-----------------------------------------------------------------------------
(* Steps that have nothing to do with an upload, except that they may take *)
(* its file away.                                                          *)

Apart(u) ==
  /\ disk'[u] = disk[u] /\ client'[u] = client[u]
  /\ \A p \in Ports : Holds(p, u) \/ Holds(p, u)' => pcb'[p] = pcb[p] /\ peer'[p] = peer[p]
  /\ Mine(u)' => Mine(u) /\ file_CR' = file_CR
  /\ Mine(u) => Mine(u)' \/ u \in harmed'
  /\ (\E p \in Ports : Holds(p, u)) =>
       /\ file_CR'.owner = u
       /\ \A q \in Ports : pcb'[q].use \in {"write", "closing"} => pcb[q].use \in {"write", "closing"}
  /\ \A n \in net' : n.client = u => n \in net
  /\ harmed \subseteq harmed'

LEMMA ApartHolds ==
  ASSUME NEW u, Apart(u), NEW p \in Ports
  PROVE  Holds(p, u) <=> Holds(p, u)'
  BY DEF Apart, Holds

LEMMA ApartKeeps ==
  ASSUME NEW u, FileKept(u), Apart(u)
  PROVE  FileKept(u)'
  <1>1. \A m \in net' : m.to = "server" /\ m.client = u /\ m.op # "WRQ" => UpPacket(m)
    BY DEF FileKept, Apart
  <1>2. ASSUME NEW p \in Ports, Holds(p, u)'
        PROVE  /\ Holds(p, u) /\ Sole(p)' /\ file_CR'.owner = u /\ pcb'[p] = pcb[p]
               /\ file_CR'.ok => file_CR.ok /\ file_CR' = file_CR
    <2>1. Holds(p, u) /\ pcb'[p] = pcb[p]
      BY <1>2, ApartHolds DEF Apart
    <2>2. Sole(p) /\ file_CR'.owner = u
      BY <2>1 DEF FileKept, Apart
    <2>3. Sole(p)'
      BY <2>1, <2>2 DEF Sole, Apart
    <2>4. file_CR'.ok => Mine(u)'
      BY <2>2 DEF Mine
    <2>5. QED
      BY <2>1, <2>2, <2>3, <2>4 DEF Apart, Mine
  <1>3. ASSUME NEW p \in Ports, Holds(p, u)', pcb'[p].use = "write"
        PROVE  pcb'[p].block < NBlocks /\ (file_CR'.ok => Len(file_CR'.written) = pcb'[p].block)
    BY <1>2, <1>3 DEF FileKept
  <1>4. ASSUME Mine(u)'
        PROVE  /\ \E p \in Ports : Holds(p, u)'
               /\ Prefix(file_CR'.written, Content(u)) /\ disk'[u] = <<>>
    <2>1. Mine(u) /\ file_CR' = file_CR /\ disk'[u] = disk[u]
      BY <1>4 DEF Apart
    <2>2. PICK p \in Ports : Holds(p, u)
      BY <2>1 DEF FileKept
    <2>3. QED
      BY <2>1, <2>2, ApartHolds DEF FileKept
  <1>5. Prefix(disk'[u], Content(u))
    BY DEF FileKept, Apart
  <1>6. Content(u)' = Content(u)
    BY DEF Content
  <1>7. QED
    BY <1>1, <1>2, <1>3, <1>4, <1>5, <1>6 DEF FileKept, UpPacket, Prefix

\* Where a handler leaves pcbs and peers alone, and for whom it opens one.
LEMMA PeersOf ==
  ASSUME RouteInv, NEW m \in net, ServerStep(m), NEW p \in Ports
  PROVE  /\ p # m.port /\ p # nextPort => pcb'[p] = pcb[p]
         /\ p # nextPort \/ nextPort' = nextPort => peer'[p] = peer[p]
         /\ p = nextPort /\ nextPort' # nextPort => peer'[p] = m.client
         /\ p = m.port /\ pcb[p].use \in {"read", "write", "closing"} => peer[p] = m.client
         /\ p = nextPort => pcb[p].use = "free"
  <1>0. m.client \in Clients /\ Uses(m.client, m.port) /\ peer \in [Ports -> Clients]
    BY RouteFacts DEF RouteInv, TypeOK
  <1>1. p # m.port /\ p # nextPort => pcb'[p] = pcb[p]
    BY TouchesOnePort DEF ServerStep
  <1>2. p # nextPort \/ nextPort' = nextPort => peer'[p] = peer[p]
    BY <1>0 DEF ServerStep
  <1>3. p = nextPort /\ nextPort' # nextPort => peer'[p] = m.client
    BY <1>0 DEF ServerStep
  <1>4. p = m.port /\ pcb[p].use \in {"read", "write", "closing"} => peer[p] = m.client
    BY <1>0 DEF RouteInv, PortsKept
  <1>5. p = nextPort => pcb[p].use = "free"
    BY RouteFacts
  <1>6. QED
    BY <1>1, <1>2, <1>3, <1>4, <1>5

LEMMA ApartServer ==
  ASSUME RouteInv, RouteInv', NEW u \in Up, FileKept(u), u \notin shared',
         NEW m \in net, ServerStep(m), m.client # u \/ RequestDropped(m) \/ Unclaimed(m)
  PROVE  Apart(u)
  <1>0. /\ u \in Clients /\ m.client \in Clients /\ client' = client /\ harmed \subseteq harmed' /\ Handle(m)
        /\ pcb \in [Ports -> Pcbs] /\ file_CR \in CrFil /\ disk \in [Clients -> Blocks]
    <2>1. client' = client /\ harmed \subseteq harmed' /\ Handle(m)
      BY DEF ServerStep, Harm
    <2>2. u \in Clients /\ m.client \in Clients
      BY RouteFacts, UploaderTyped
    <2>3. pcb \in [Ports -> Pcbs] /\ file_CR \in CrFil /\ disk \in [Clients -> Blocks]
      BY ServerIsTyped DEF RouteInv, ServerTyped
    <2>4. QED
      BY <2>1, <2>2, <2>3
  <1>1. CASE RequestDropped(m) \/ Unclaimed(m)
    <2>1. UNCHANGED <<pcb, nextPort, file_CR, disk>> /\ net' \subseteq net
      BY <1>1, Delivered DEF RequestDropped, Unclaimed, serverVars
    <2>2. peer' = peer
      BY <2>1 DEF ServerStep
    <2>3. \A p \in Ports : Holds(p, u) => file_CR'.owner = u
      BY <2>1 DEF FileKept
    <2>4. QED
      BY <1>0, <2>1, <2>2, <2>3 DEF Apart, Mine
  <1>2. CASE m.client # u
    <2>1. \A n \in net' : n.client = u => n \in net
      BY <1>0, <1>2, Routed DEF OnPort, OnNewPort, Answers
    <2>2. ASSUME NEW p \in Ports, Holds(p, u) \/ Holds(p, u)'
          PROVE  /\ pcb'[p] = pcb[p] /\ peer'[p] = peer[p] /\ Holds(p, u)
                 /\ pcb[p].use = "write" /\ p # m.port /\ p # nextPort
      <3>1. CASE p = nextPort
        <4>1. Holds(p, u)'
          BY <2>2, <3>1, PeersOf DEF Holds
        <4>2. nextPort' # nextPort
          <5>1. pcb[p].use = "free"
            BY <3>1, PeersOf
          <5>2. OnPort(m) => pcb'[p].use = "free"
            BY <5>1 DEF OnPort, Left
          <5>3. OnNewPort(m)
            BY <1>0, <4>1, <5>2, Routed DEF Holds
          <5>4. QED
            BY <5>3, PortBounds DEF OnNewPort
        <4>3. QED
          BY <1>2, <3>1, <4>1, <4>2, PeersOf DEF Holds
      <3>2. CASE p # nextPort /\ p = m.port
        <4>1. pcb'[p].use \in {"write", "closing"} => pcb[p].use \in {"write", "closing"}
          BY <1>0, <3>2, Routed DEF OnPort, OnNewPort, Left
        <4>2. pcb[p].use \in {"write", "closing"} /\ peer'[p] = peer[p]
          BY <2>2, <3>2, <4>1, PeersOf DEF Holds
        <4>3. QED
          BY <1>2, <2>2, <3>2, <4>2, PeersOf DEF Holds
      <3>3. CASE p # nextPort /\ p # m.port
        <4>1. pcb'[p] = pcb[p] /\ peer'[p] = peer[p]
          BY <3>3, PeersOf
        <4>2. Holds(p, u)
          BY <2>2, <4>1 DEF Holds
        <4>3. QED
          BY <1>0, <3>3, <4>1, <4>2 DEF Holds, Handle
      <3>4. QED
        BY <3>1, <3>2, <3>3
    <2>3. ASSUME NEW p \in Ports, Holds(p, u)
          PROVE  ~WriteStart(m) /\ ~OnFile(m)
      <3>1. pcb'[p] = pcb[p] /\ peer'[p] = u /\ pcb[p].use = "write" /\ p # m.port /\ p # nextPort
        BY <2>2, <2>3 DEF Holds
      <3>2. ~WriteStart(m)
        <4>1. ASSUME WriteStart(m) PROVE FALSE
          <5>1. nextPort \in Ports /\ pcb'[nextPort].use = "write"
            BY <1>0, <4>1 DEF WriteStart, TakesPort
          <5>2. peer'[p] \in shared'
            BY <3>1, <5>1 DEF RouteInv, PeersKept
          <5>3. QED
            BY <3>1, <5>2
        <4>2. QED
          BY <4>1
      <3>3. Sole(p)
        BY <2>3 DEF FileKept
      <3>4. ~OnFile(m)
        BY <3>1, <3>3 DEF Sole, OnFile, WrqStore, WrqFail, WrqEmpty, WrqOther, WrqAnswer, For
      <3>5. QED
        BY <3>2, <3>4
    <2>4. Mine(u) => ~WriteStart(m) /\ ~OnFile(m)
      BY <2>3 DEF FileKept
    <2>5. LeavesFiles \/ RequestRefused(m) \/ WriteStart(m) \/ OnFile(m)
      BY <1>0, FileCases
    <2>6. ~Invalid(file_CR).ok /\ Invalid(file_CR).owner = file_CR.owner
      BY <1>0 DEF Invalid, CrFil
    <2>7. disk'[u] = disk[u]
      <3>1. CASE Mine(u)
        BY <1>0, <1>2, <2>4, <2>5, <3>1 DEF LeavesFiles, RequestRefused
      <3>2. CASE ~Mine(u)
        <4>1. (\E good \in Good : disk' = Closed(good)) => disk'[u] = disk[u]
          BY <1>0, <3>2, ClosedIsOwners DEF RouteInv
        <4>2. WrqStore(m) \/ WrqEmpty(m) \/ WrqOther(m) => disk' = disk
          BY DEF WrqStore, WrqEmpty, WrqOther, WrqAnswer, EndOrGoOn
        <4>3. QED
          BY <1>0, <1>2, <2>5, <4>1, <4>2 DEF LeavesFiles, RequestRefused, WriteStart, OnFile, WrqFail
      <3>3. QED
        BY <3>1, <3>2
    <2>8. Mine(u)' => Mine(u) /\ file_CR' = file_CR
      <3>1. CASE Mine(u)
        BY <2>4, <2>5, <2>6, <3>1 DEF LeavesFiles, RequestRefused, Mine
      <3>2. CASE ~Mine(u)
        <4>1. WriteStart(m) => ~Mine(u)'
          BY <1>2 DEF WriteStart, Mine
        <4>2. ASSUME WrqStore(m) \/ WrqEmpty(m) \/ WrqOther(m) PROVE ~Mine(u)'
          <5>1. PICK b, w : EndOrGoOn(m, b, w)
            BY <4>2 DEF WrqStore, WrqEmpty, WrqOther, WrqAnswer
          <5>2. file_CR'.ok = file_CR.ok /\ file_CR'.owner = file_CR.owner
            BY <1>0, <5>1 DEF EndOrGoOn, CrFil
          <5>3. QED
            BY <3>2, <5>2 DEF Mine
        <4>3. QED
          BY <2>5, <2>6, <3>2, <4>1, <4>2 DEF LeavesFiles, RequestRefused, OnFile, WrqFail, Mine
      <3>3. QED
        BY <3>1, <3>2
    <2>9. Mine(u) => Mine(u)' \/ u \in harmed'
      <3>1. Mine(u) /\ ~Mine(u)' => u \in CutOff(m.client)
        BY <1>0, <1>2 DEF Mine, CutOff
      <3>2. QED
        BY <3>1 DEF ServerStep, Harm
    <2>10. (\E p \in Ports : Holds(p, u)) =>
             /\ file_CR'.owner = u
             /\ \A q \in Ports : pcb'[q].use \in {"write", "closing"} => pcb[q].use \in {"write", "closing"}
      <3> SUFFICES ASSUME NEW p \in Ports, Holds(p, u)
                   PROVE  /\ file_CR'.owner = u
                          /\ \A q \in Ports : pcb'[q].use \in {"write", "closing"}
                               => pcb[q].use \in {"write", "closing"}
        OBVIOUS
      <3>1. file_CR.owner = u /\ ~WriteStart(m) /\ ~OnFile(m)
        BY <2>3 DEF FileKept
      <3>2. file_CR'.owner = u
        BY <2>5, <2>6, <3>1 DEF LeavesFiles, RequestRefused
      <3>3. QED
        BY <1>0, <3>1, <3>2, WritersStay
    <2>11. QED
      BY <1>0, <2>1, <2>2, <2>7, <2>8, <2>9, <2>10 DEF Apart
  <1>3. QED
    BY <1>1, <1>2

LEMMA OtherClients ==
  ASSUME client \in [Clients -> States], NEW c \in Clients,
         \/ \E m \in net : m.client # c /\ ClientStep(m)
         \/ \E d \in Clients : d # c /\ (Start(d) \/ Timeout(d) \/ Abort(d))
  PROVE  /\ client'[c] = client[c]
         /\ \A n \in net' : n.client = c => n \in net
         /\ \A n \in net : n.client = c => n \in net'
  <1>1. ASSUME NEW m \in net, m.client # c, ClientIgnores(m)
        PROVE  /\ client'[c] = client[c] /\ \A n \in net' : n.client = c => n \in net
               /\ \A n \in net : n.client = c => n \in net'
    BY <1>1, Delivered DEF ClientIgnores
  <1>2. ASSUME NEW m \in net, m.client # c, ClientData(m) \/ ClientAck(m) \/ ClientError(m)
        PROVE  /\ client'[c] = client[c] /\ \A n \in net' : n.client = c => n \in net
               /\ \A n \in net : n.client = c => n \in net'
    <2>1. client'[c] = client[c]
      BY <1>2, OnlyOneClient
    <2>2. PICK R : Deliver(m, R) /\ \A n \in R : n.client = m.client
      BY <1>2, ClientAnswers
    <2>3. QED
      BY <1>2, <2>1, <2>2, Delivered
  <1>3. ASSUME NEW d \in Clients, d # c, Start(d) \/ Timeout(d) \/ Abort(d)
        PROVE  /\ client'[c] = client[c] /\ \A n \in net' : n.client = c => n \in net
               /\ \A n \in net : n.client = c => n \in net'
    <2>1. client'[c] = client[c]
      BY <1>3 DEF Start, Timeout, Abort
    <2>2. Request(d).client = d /\ Pending(d).client = d
      BY DEF Request, Pending, Datagram
    <2>3. PICK a : net' = net \cup {a} /\ a.client = d
      <3>1. ASSUME Abort(d) PROVE \E a : net' = net \cup {a} /\ a.client = d
        <4>1. PICK a, code : net' = net \cup {a} /\ a = Datagram("server", "ERROR", d, client[d].port, code, "part", 0)
          BY <3>1 DEF Abort
        <4>2. QED
          BY <4>1 DEF Datagram
      <3>2. QED
        BY <1>3, <2>2, <3>1 DEF Start, Timeout
    <2>4. QED
      BY <1>3, <2>1, <2>3
  <1>4. QED
    BY <1>1, <1>2, <1>3 DEF ClientStep

-----------------------------------------------------------------------------
(* The upload's port.                                                      *)

\* What does not concern client c, or only takes one of its packets away.
Elsewhere(c) ==
  \/ \E m \in net : Lose(m) \/ ClientIgnores(m) \/ (m.client # c /\ ClientStep(m))
  \/ \E d \in Clients : d # c /\ (Start(d) \/ Timeout(d) \/ Abort(d))
  \/ HealthChanges
  \/ UNCHANGED vars

LEMMA ElsewhereStays ==
  ASSUME client \in [Clients -> States], NEW c \in Clients, Elsewhere(c)
  PROVE  /\ client'[c] = client[c] /\ UNCHANGED <<serverVars, history>>
         /\ \A n \in net' : n.client = c => n \in net
  <1>1. ASSUME NEW m \in net, Lose(m) \/ ClientIgnores(m)
        PROVE  /\ client'[c] = client[c] /\ UNCHANGED <<serverVars, history>>
               /\ \A n \in net' : n.client = c => n \in net
    <2>1. client' = client /\ net' \subseteq net
      BY <1>1, Delivered DEF Lose, ClientIgnores
    <2>2. ClientStep(m) \/ Lose(m)
      BY <1>1 DEF ClientStep
    <2>3. UNCHANGED <<serverVars, history>>
      BY <2>2, ClientsLeave
    <2>4. QED
      BY <2>1, <2>3
  <1>2. CASE HealthChanges \/ UNCHANGED vars
    <2>1. UNCHANGED <<serverVars, net, client, history>>
      BY <1>2, ClientsLeave
    <2>2. QED
      BY <2>1
  <1>3. CASE \/ \E m \in net : m.client # c /\ ClientStep(m)
             \/ \E d \in Clients : d # c /\ (Start(d) \/ Timeout(d) \/ Abort(d))
    <2>1. UNCHANGED <<serverVars, history>>
      BY <1>3, ClientsLeave
    <2>2. client'[c] = client[c] /\ \A n \in net' : n.client = c => n \in net
      BY <1>3, OtherClients
    <2>3. QED
      BY <2>1, <2>2
  <1>4. QED
    BY <1>1, <1>2, <1>3 DEF Elsewhere

\* Nothing happens to the upload when others move or packets go, ...
LEMMA ApartQuiet ==
  ASSUME RouteInv, NEW u \in Up, FileKept(u), Elsewhere(u)
  PROVE  Apart(u)
  <1>1. /\ client'[u] = client[u] /\ UNCHANGED <<pcb, file_CR, disk, peer, harmed>>
        /\ \A n \in net' : n.client = u => n \in net
    BY UploaderTyped, ElsewhereStays DEF serverVars, history
  <1>2. \A p \in Ports : Holds(p, u) => file_CR.owner = u
    BY DEF FileKept
  <1>3. QED
    BY <1>1, <1>2 DEF Apart, Mine

\* ... nor when the server cleans up behind another one.
LEMMA ApartCleanup ==
  ASSUME RouteInv, NEW u \in Up, FileKept(u), NEW p \in Ports, CleanupStep(p), peer[p] # u
  PROVE  Apart(u)
  <1>0. /\ u \in Clients /\ UNCHANGED <<client, net, peer>> /\ pcb[p].use = "closing"
        /\ pcb' = [pcb EXCEPT ![p] = NoPcb] /\ pcb \in [Ports -> Pcbs]
        /\ ~file_CR'.ok /\ \E good \in Good : disk' = Closed(good)
    <2>1. pcb \in [Ports -> Pcbs] /\ file_CR \in CrFil
      BY ServerIsTyped DEF RouteInv, ServerTyped
    <2>2. ~Invalid(file_CR).ok
      BY <2>1 DEF Invalid, CrFil
    <2>3. u \in Clients
      BY UploaderTyped
    <2>4. QED
      BY <2>1, <2>2, <2>3 DEF CleanupStep, CleanupWr
  <1>1. \A q \in Ports : ~Holds(q, u)
    BY <1>0 DEF FileKept, Sole, Holds
  <1>2. ~Mine(u) /\ ~Mine(u)'
    BY <1>0, <1>1 DEF FileKept, Mine
  <1>3. disk'[u] = disk[u]
    BY <1>0, <1>2, ClosedIsOwners DEF RouteInv
  <1>4. \A q \in Ports : ~Holds(q, u)'
    BY <1>0, <1>1 DEF Holds, NoPcb, Pcbs
  <1>5. harmed \subseteq harmed'
    BY DEF CleanupStep, Harm
  <1>6. QED
    BY <1>0, <1>1, <1>2, <1>3, <1>4, <1>5 DEF Apart

-----------------------------------------------------------------------------
(* The server's steps for the uploader itself.                             *)

\* Answers leave what the client sends.
LEMMA OwnPackets ==
  ASSUME RouteInv, NEW u \in Up, FileKept(u), NEW m \in net, Handle(m)
  PROVE  \A n \in net' : n.to = "server" /\ n.client = u /\ n.op # "WRQ" => UpPacket(n)'
  <1>1. \A n \in net' : n \in net \/ n.to = "client"
    BY Routed DEF OnPort, OnNewPort, Answers
  <1>2. QED
    BY <1>1 DEF FileKept, UpPacket

\* A packet on the upload's port.
LEMMA OnWritePort ==
  ASSUME RouteInv, NEW m \in net, m.client \in Up, FileKept(m.client), For(m, "write")
  PROVE  /\ m.client \in Clients /\ UpPacket(m) /\ m.port \in Ports
         /\ Holds(m.port, m.client) /\ Sole(m.port)
         /\ pcb \in [Ports -> Pcbs] /\ pcb[m.port].block \in Nat /\ pcb[m.port].block < NBlocks
         /\ file_CR \in CrFil /\ file_CR.written \in Blocks /\ disk \in [Clients -> Blocks]
         /\ file_CR.owner = m.client
         /\ file_CR.ok => /\ Len(file_CR.written) = pcb[m.port].block
                          /\ Prefix(file_CR.written, Content(m.client)) /\ disk[m.client] = <<>>
         /\ Prefix(disk[m.client], Content(m.client))
  <1>1. m.port \in Ports /\ pcb[m.port].use = "write" /\ m.to = "server"
    BY DEF For
  <1>2. m.client \in Clients /\ Role(m) /\ pcb \in [Ports -> Pcbs] /\ Uses(m.client, m.port)
    BY RouteFacts
  <1>3. Holds(m.port, m.client)
    BY <1>1, <1>2 DEF RouteInv, PortsKept, Holds
  <1>4. m.op # "WRQ"
    <2>1. m.op = "WRQ" => m.port = 0
      BY <1>2 DEF Role, Request, Datagram
    <2>2. QED
      BY <1>1, <2>1, PortBounds
  <1>5. UpPacket(m)
    BY <1>1, <1>4 DEF FileKept
  <1>6. /\ Sole(m.port) /\ file_CR.owner = m.client /\ pcb[m.port].block < NBlocks
        /\ file_CR.ok => Len(file_CR.written) = pcb[m.port].block
        /\ Prefix(disk[m.client], Content(m.client))
    BY <1>1, <1>3 DEF FileKept
  <1>7. file_CR.ok => Prefix(file_CR.written, Content(m.client)) /\ disk[m.client] = <<>>
    BY <1>6 DEF FileKept, Mine
  <1>8. file_CR \in CrFil /\ file_CR.written \in Blocks /\ disk \in [Clients -> Blocks]
        /\ pcb[m.port].block \in Nat
    BY <1>1, <1>2, ServerIsTyped DEF RouteInv, ServerTyped, CrFil, Blocks, Pcbs
  <1>9. QED
    BY <1>1, <1>2, <1>3, <1>5, <1>6, <1>7, <1>8

\* Where nobody writes for the upload it has what its directory entry covers.
LEMMA NoneHolds ==
  ASSUME NEW u \in Up, \A p \in Ports : ~Holds(p, u)', ~Mine(u)',
         \A n \in net' : n.to = "server" /\ n.client = u /\ n.op # "WRQ" => UpPacket(n)',
         Prefix(disk'[u], Content(u))
  PROVE  FileKept(u)'
  <1>1. Content(u)' = Content(u)
    BY DEF Content
  <1>2. QED
    BY <1>1 DEF FileKept, Prefix

\* A packet leaves w written, and the transfer's end where it was or one step nearer.
LEMMA Written ==
  ASSUME RouteInv, NEW m \in net, m.client \in Up, FileKept(m.client), For(m, "write"), Handle(m),
         peer' = peer,
         NEW b \in Nat, m.len = "full" => b < NBlocks, NEW w \in Blocks, EndOrGoOn(m, b, w),
         file_CR.ok => (m.len = "full" => Len(w) = b) /\ Prefix(w, Content(m.client))
  PROVE  /\ FileKept(m.client)'
         /\ file_CR'.ok = file_CR.ok /\ file_CR'.owner = m.client /\ file_CR'.written = w /\ disk' = disk
         /\ Holds(m.port, m.client)' /\ (m.len # "full" => pcb'[m.port].use = "closing")
         /\ file_CR.ok => Stored(m.client)' = w
  <1> DEFINE u == m.client
  <1>0. /\ u \in Clients /\ m.port \in Ports /\ Holds(m.port, u) /\ Sole(m.port)
        /\ pcb \in [Ports -> Pcbs] /\ file_CR \in CrFil /\ file_CR.owner = u
        /\ (file_CR.ok => disk[u] = <<>>) /\ Prefix(disk[u], Content(u))
    BY OnWritePort
  <1>1. /\ pcb' = [pcb EXCEPT ![m.port].block = b,
                              ![m.port].use = IF m.len = "full" THEN "write" ELSE "closing"]
        /\ file_CR' = [file_CR EXCEPT !.written = w] /\ disk' = disk
    BY DEF EndOrGoOn
  <1>2. /\ pcb'[m.port].block = b /\ pcb'[m.port].use = IF m.len = "full" THEN "write" ELSE "closing"
        /\ \A p \in Ports \ {m.port} : pcb'[p] = pcb[p]
    BY <1>0, <1>1 DEF Pcbs
  <1>3. file_CR'.ok = file_CR.ok /\ file_CR'.owner = u /\ file_CR'.written = w
    BY <1>0, <1>1 DEF CrFil
  <1>4. \A p \in Ports : pcb'[p].use \in {"write", "closing"} => p = m.port
    BY <1>0, <1>2 DEF Sole
  <1>5. Holds(m.port, u)' /\ Sole(m.port)' /\ \A p \in Ports : Holds(p, u)' => p = m.port
    BY <1>0, <1>2, <1>4 DEF Holds, Sole
  <1>6. \A n \in net' : n.to = "server" /\ n.client = u /\ n.op # "WRQ" => UpPacket(n)'
    BY OwnPackets
  <1>7. Content(u)' = Content(u)
    BY DEF Content
  <1>8. FileKept(u)'
    <2>1. \A p \in Ports : Holds(p, u)' => Sole(p)' /\ file_CR'.owner = u
      BY <1>3, <1>5
    <2>2. \A p \in Ports : Holds(p, u)' /\ pcb'[p].use = "write" =>
            pcb'[p].block < NBlocks /\ (file_CR'.ok => Len(file_CR'.written) = pcb'[p].block)
      BY <1>2, <1>3, <1>5
    <2>3. Mine(u)' => /\ \E p \in Ports : Holds(p, u)'
                      /\ Prefix(file_CR'.written, Content(u)) /\ disk'[u] = <<>>
      BY <1>0, <1>1, <1>3, <1>5 DEF Mine
    <2>4. Prefix(disk'[u], Content(u))
      BY <1>0, <1>1
    <2>5. QED
      BY <1>6, <1>7, <2>1, <2>2, <2>3, <2>4 DEF FileKept, Prefix
  <1>9. file_CR.ok => Stored(u)' = w
    BY <1>3 DEF Stored
  <1>10. QED
    BY <1>1, <1>2, <1>3, <1>5, <1>8, <1>9


\* What a packet with data, the expected one, leaves in the file.
LEMMA BlockStored ==
  ASSUME RouteInv, NEW m \in net, m.client \in Up, FileKept(m.client), For(m, "write"),
         Expected(m), HasData(m), file_CR.ok,
         NEW b \in Nat, b = pcb[m.port].block, NEW w, w = Append(file_CR.written, m.data)
  PROVE  /\ b + 1 <= Len(Content(m.client))
         /\ (m.len # "full" => b + 1 = NBlocks /\ Len(Content(m.client)) = NBlocks)
         /\ (m.len = "full" => b + 1 < NBlocks)
         /\ w \in Blocks /\ Prefix(w, Content(m.client)) /\ Len(w) = b + 1
  <1> DEFINE u == m.client
  <1>1. /\ u \in Clients /\ UpPacket(m) /\ b \in Nat /\ b < NBlocks
        /\ file_CR.written \in Blocks /\ Len(file_CR.written) = b /\ Prefix(file_CR.written, Content(u))
    BY OnWritePort
  <1>2. m.block = b + 1 /\ m.len = LenOf(b + 1) /\ m.data = <<u, b + 1>>
    BY <1>1 DEF UpPacket, Expected
  <1>3. b + 1 <= Len(Content(u)) /\ (m.len # "full" => b + 1 = NBlocks /\ Len(Content(u)) = NBlocks)
    <2>1. /\ Len(Content(u)) = IF LastLen = "empty" THEN NBlocks - 1 ELSE NBlocks
          /\ NBlocks \in Nat /\ b + 1 <= NBlocks
      <3>1. Len(Content(u)) = IF LastLen = "empty" THEN NBlocks - 1 ELSE NBlocks
        BY ContentFacts
      <3>2. NBlocks \in Nat /\ b + 1 <= NBlocks
        BY <1>1, TftpAssumption
      <3>3. QED
        BY <3>1, <3>2
    <2>2. CASE b + 1 = NBlocks
      <3>1. LastLen # "empty"
        BY <1>2, <2>2, TftpAssumption DEF HasData, LenOf
      <3>2. QED
        BY <2>1, <2>2, <3>1
    <2>3. CASE b + 1 # NBlocks
      <3>1. b + 1 < NBlocks
        BY <1>1, <2>1, <2>3
      <3>2. m.len = "full" /\ b + 1 <= Len(Content(u))
        BY <1>2, <2>1, <3>1 DEF LenOf
      <3>3. QED
        BY <3>2
    <2>4. QED
      BY <2>2, <2>3
  <1>4. m.len = "full" => b + 1 < NBlocks
    BY <1>2, TftpAssumption DEF LenOf
  <1>5. w \in Blocks /\ Prefix(w, Content(u)) /\ Len(w) = b + 1
    <2>1. m.data \in Clients \X Nat
      BY <1>1, <1>2
    <2>2. w \in Blocks
      BY <1>1, <2>1 DEF Blocks
    <2>3. QED
      BY <1>1, <1>2, <1>3, <2>2, PrefixAppend
  <1>6. QED
    BY <1>3, <1>4, <1>5

\* What has to be written before block b may be acknowledged.
Covers(w, u, b) == Len(w) >= IF b < Len(Content(u)) THEN b ELSE Len(Content(u))

\* The packet is answered with the block b counted, behind which w is in the file.
Counted(m, b, w) ==
  /\ Deliver(m, {Ack(m.client, m.port, b)})
  /\ FileKept(m.client)' /\ Holds(m.port, m.client)'
  /\ file_CR'.ok = file_CR.ok /\ file_CR'.owner = m.client /\ file_CR'.written = w /\ disk' = disk
  /\ file_CR.ok => /\ Stored(m.client)' = w /\ Covers(w, m.client, b)
                   /\ Len(w) \in {Len(file_CR.written), Len(file_CR.written) + 1}
                   /\ b = NBlocks => BeingClosed(m.client)'

LEMMA BlockCounted ==
  ASSUME RouteInv, NEW m \in net, m.client \in Up, FileKept(m.client), ServerStep(m), WrqStore(m)
  PROVE  \E b \in 0 .. NBlocks, w \in Blocks : Counted(m, b, w)
  <1> DEFINE u == m.client  w == Append(file_CR.written, m.data)
  <1>0. /\ For(m, "write") /\ Expected(m) /\ HasData(m) /\ file_CR.ok /\ Handle(m)
        /\ nextPort' = nextPort /\ peer' = peer
    BY DEF WrqStore, ServerStep
  <1>1. PICK b \in Nat : b = pcb[m.port].block
    BY <1>0, OnWritePort
  <1>2. EndOrGoOn(m, b + 1, w) /\ Deliver(m, {Ack(u, m.port, b + 1)})
    BY <1>1 DEF WrqStore
  <1>3. /\ b + 1 <= Len(Content(u)) /\ (m.len # "full" => b + 1 = NBlocks /\ Len(Content(u)) = NBlocks)
        /\ (m.len = "full" => b + 1 < NBlocks)
        /\ w \in Blocks /\ Prefix(w, Content(u)) /\ Len(w) = b + 1
    BY <1>0, <1>1, BlockStored
  <1>4. /\ b < NBlocks /\ file_CR.written \in Blocks /\ Len(file_CR.written) = b /\ u \in Clients
        /\ m.port \in Ports
    BY <1>0, <1>1, OnWritePort
  <1> HIDE DEF w
  <1>5. /\ FileKept(u)' /\ Holds(m.port, u)' /\ (m.len # "full" => pcb'[m.port].use = "closing")
        /\ file_CR'.ok = file_CR.ok /\ file_CR'.owner = u /\ file_CR'.written = w /\ disk' = disk
        /\ Stored(u)' = w
    <2>1. b + 1 \in Nat
      OBVIOUS
    <2>2. QED
      BY <1>0, <1>2, <1>3, <2>1, Written
  <1>6. ASSUME b + 1 = NBlocks PROVE BeingClosed(u)'
    <2>1. m.len # "full" /\ Len(w) = Len(Content(u))
      BY <1>3, <1>6
    <2>2. w = Content(u)
      BY <1>3, <1>4, <2>1, PrefixWhole
    <2>3. file_CR' = [ok |-> TRUE, owner |-> u, written |-> w]
      <3>1. file_CR \in CrFil /\ file_CR' = [file_CR EXCEPT !.written = w] /\ file_CR.owner = u
        BY <1>0, <1>2, OnWritePort DEF EndOrGoOn
      <3>2. file_CR = [ok |-> file_CR.ok, owner |-> file_CR.owner, written |-> file_CR.written]
        BY <3>1 DEF CrFil
      <3>3. file_CR.ok = TRUE
        BY <1>0, <3>1, Zenon DEF CrFil
      <3>4. QED
        BY <3>1, <3>2, <3>3
    <2>4. Content(u)' = Content(u)
      BY DEF Content
    <2>5. QED
      BY <1>4, <1>5, <2>1, <2>2, <2>3, <2>4 DEF BeingClosed, Holds
  <1>7. Len(w) = Len(file_CR.written) + 1 /\ Covers(w, u, b + 1) /\ b + 1 \in 0 .. NBlocks
    BY <1>3, <1>4, TftpAssumption DEF Covers
  <1>8. Counted(m, b + 1, w)
    BY <1>2, <1>5, <1>6, <1>7 DEF Counted
  <1>9. QED
    BY <1>3, <1>7, <1>8

\* The empty packet that ends a file of full blocks.
LEMMA EmptyCounted ==
  ASSUME RouteInv, NEW m \in net, m.client \in Up, FileKept(m.client), ServerStep(m), WrqEmpty(m)
  PROVE  \E b \in 0 .. NBlocks, w \in Blocks : Counted(m, b, w)
  <1> DEFINE u == m.client  w == file_CR.written
  <1>0. /\ For(m, "write") /\ Expected(m) /\ m.len = "empty" /\ Handle(m)
        /\ nextPort' = nextPort /\ peer' = peer
    BY DEF WrqEmpty, HasData, ServerStep
  <1>1. PICK b \in Nat : b = pcb[m.port].block
    BY <1>0, OnWritePort
  <1>2. EndOrGoOn(m, b + 1, w) /\ Deliver(m, {Ack(u, m.port, b + 1)})
    BY <1>1 DEF WrqEmpty
  <1>3. /\ b < NBlocks /\ UpPacket(m) /\ u \in Clients /\ w \in Blocks /\ m.port \in Ports
        /\ (file_CR.ok => Len(w) = b /\ Prefix(w, Content(u)))
        /\ file_CR \in CrFil /\ file_CR.owner = u
    BY <1>0, <1>1, OnWritePort
  <1>4. b + 1 = NBlocks /\ LastLen = "empty"
    <2>1. m.block = b + 1 /\ LenOf(b + 1) = "empty"
      BY <1>0, <1>1, <1>3 DEF UpPacket, Expected
    <2>2. QED
      BY <1>3, <2>1, TftpAssumption DEF LenOf
  <1>5. Len(Content(u)) = b
    <2>1. Len(Content(u)) = NBlocks - 1
      BY <1>4, ContentFacts
    <2>2. QED
      BY <1>4, <2>1, TftpAssumption
  <1> HIDE DEF w
  <1>6. /\ FileKept(u)' /\ Holds(m.port, u)' /\ pcb'[m.port].use = "closing"
        /\ file_CR'.ok = file_CR.ok /\ file_CR'.owner = u /\ file_CR'.written = w /\ disk' = disk
        /\ (file_CR.ok => Stored(u)' = w)
    <2>1. b + 1 \in Nat
      OBVIOUS
    <2>2. QED
      BY <1>0, <1>2, <1>3, <2>1, Written
  <1>7. ASSUME file_CR.ok PROVE BeingClosed(u)'
    <2>1. w = Content(u)
      BY <1>3, <1>5, <1>7, PrefixWhole
    <2>2. file_CR' = [ok |-> TRUE, owner |-> u, written |-> w]
      <3>1. file_CR' = [file_CR EXCEPT !.written = w]
        BY <1>2 DEF EndOrGoOn
      <3>2. file_CR = [ok |-> file_CR.ok, owner |-> file_CR.owner, written |-> file_CR.written]
        BY <1>3 DEF CrFil
      <3>3. file_CR.ok = TRUE
        BY <1>3, <1>7, Zenon DEF CrFil
      <3>4. QED
        BY <1>3, <3>1, <3>2, <3>3
    <2>3. Content(u)' = Content(u)
      BY DEF Content
    <2>4. QED
      BY <1>3, <1>6, <2>1, <2>2, <2>3 DEF BeingClosed, Holds
  <1>8. /\ file_CR.ok => Len(w) = Len(file_CR.written) /\ Covers(w, u, b + 1)
        /\ b + 1 \in 0 .. NBlocks
    <2>1. Len(w) \in Nat /\ w = file_CR.written
      BY <1>3 DEF w, Blocks
    <2>2. QED
      BY <1>3, <1>4, <1>5, <2>1 DEF Covers
  <1>9. Counted(m, b + 1, w)
    BY <1>2, <1>6, <1>7, <1>8 DEF Counted
  <1>10. QED
    BY <1>3, <1>8, <1>9

\* A packet that is not the expected one is answered with the last acknowledgement.
LEMMA OtherCounted ==
  ASSUME RouteInv, NEW m \in net, m.client \in Up, FileKept(m.client), ServerStep(m), WrqOther(m)
  PROVE  \E b \in 0 .. NBlocks, w \in Blocks : Counted(m, b, w)
  <1> DEFINE u == m.client  w == file_CR.written
  <1>0. For(m, "write") /\ Handle(m) /\ nextPort' = nextPort /\ peer' = peer
    BY DEF WrqOther, WrqAnswer, ServerStep
  <1>1. PICK b \in Nat : b = pcb[m.port].block
    BY <1>0, OnWritePort
  <1>2. EndOrGoOn(m, b, w) /\ Deliver(m, {Ack(u, m.port, b)})
    BY <1>1 DEF WrqOther, WrqAnswer
  <1>3. /\ b < NBlocks /\ u \in Clients /\ w \in Blocks
        /\ (file_CR.ok => Len(w) = b /\ Prefix(w, Content(u)))
    BY <1>0, <1>1, OnWritePort
  <1> HIDE DEF w
  <1>4. /\ FileKept(u)' /\ Holds(m.port, u)'
        /\ file_CR'.ok = file_CR.ok /\ file_CR'.owner = u /\ file_CR'.written = w /\ disk' = disk
        /\ (file_CR.ok => Stored(u)' = w)
    BY <1>0, <1>2, <1>3, Written
  <1>5. /\ file_CR.ok => Len(w) = Len(file_CR.written) /\ Covers(w, u, b)
        /\ b \in 0 .. NBlocks /\ b # NBlocks
    <2>1. Len(w) \in Nat /\ w = file_CR.written /\ Len(Content(u)) \in Nat
      BY <1>3, ContentFacts DEF w, Blocks
    <2>2. QED
      BY <1>3, <2>1, TftpAssumption DEF Covers
  <1>6. Counted(m, b, w)
    BY <1>2, <1>4, <1>5 DEF Counted
  <1>7. QED
    BY <1>3, <1>5, <1>6


\* A write that fails ends the upload, and the entry covers what was written, or not.
LEMMA FailKeeps ==
  ASSUME RouteInv, NEW m \in net, m.client \in Up, FileKept(m.client), ServerStep(m), WrqFail(m)
  PROVE  FileKept(m.client)' /\ \A p \in Ports : ~Holds(p, m.client)'
  <1> DEFINE u == m.client
  <1>0. For(m, "write") /\ Handle(m) /\ nextPort' = nextPort /\ peer' = peer
    BY DEF WrqFail, ServerStep
  <1>1. /\ u \in Clients /\ m.port \in Ports /\ Sole(m.port) /\ pcb \in [Ports -> Pcbs] /\ file_CR \in CrFil
        /\ (file_CR.ok => Prefix(file_CR.written, Content(u))) /\ Prefix(disk[u], Content(u))
    BY <1>0, OnWritePort
  <1>2. pcb' = [pcb EXCEPT ![m.port] = NoPcb] /\ ~file_CR'.ok /\ \E good \in Good : disk' = Closed(good)
    BY <1>1 DEF WrqFail, Invalid, CrFil
  <1>3. \A p \in Ports : ~Holds(p, u)'
    BY <1>1, <1>2 DEF Holds, Sole, NoPcb
  <1>4. Prefix(disk'[u], Content(u))
    BY <1>1, <1>2, ClosedIsOwners DEF RouteInv, Mine
  <1>5. ~Mine(u)'
    BY <1>2 DEF Mine
  <1>6. \A n \in net' : n.to = "server" /\ n.client = u /\ n.op # "WRQ" => UpPacket(n)'
    BY <1>0, OwnPackets
  <1>7. FileKept(u)'
    BY <1>3, <1>4, <1>5, <1>6, NoneHolds
  <1>8. QED
    BY <1>3, <1>7

\* A request that fails takes every file away, and may have emptied this one's entry.
LEMMA RefusalKeeps ==
  ASSUME RouteInv, NEW m \in net, m.client \in Up, FileKept(m.client), ServerStep(m),
         RequestStranded(m) \/ RequestRefused(m)
  PROVE  FileKept(m.client)'
  <1> DEFINE u == m.client
  <1>0. /\ u \in Clients /\ pcb \in [Ports -> Pcbs] /\ file_CR \in CrFil /\ disk \in [Clients -> Blocks]
        /\ Handle(m) /\ nextPort \in Ports /\ pcb[nextPort].use = "free" /\ Prefix(disk[u], Content(u))
    <2>1. u \in Clients /\ pcb \in [Ports -> Pcbs] /\ (nextPort \in Ports => pcb[nextPort].use = "free")
      BY RouteFacts
    <2>2. file_CR \in CrFil /\ disk \in [Clients -> Blocks]
      BY ServerIsTyped DEF RouteInv, ServerTyped
    <2>3. Handle(m) /\ nextPort \in Ports
      BY DEF ServerStep, RequestStranded, RequestRefused, TakesPort
    <2>4. QED
      BY <2>1, <2>2, <2>3 DEF FileKept
  <1>1. ~file_CR'.ok /\ file_CR'.owner = file_CR.owner
    BY <1>0 DEF RequestStranded, RequestRefused, Invalid, CrFil
  <1>2. /\ pcb'[nextPort].use \notin {"write", "closing"}
        /\ \A p \in Ports \ {nextPort} : pcb'[p] = pcb[p] /\ peer'[p] = peer[p]
    <2>1. CASE RequestStranded(m)
      <3>1. pcb' = [pcb EXCEPT ![nextPort].use = "bare"]
        BY <2>1 DEF RequestStranded
      <3>2. QED
        BY <1>0, <3>1, PeersOf DEF Pcbs
    <2>2. CASE RequestRefused(m)
      <3>1. pcb' = pcb
        BY <2>2 DEF RequestRefused
      <3>2. QED
        BY <1>0, <3>1, PeersOf
    <2>3. QED
      BY <2>1, <2>2
  <1>3. ASSUME NEW p \in Ports, Holds(p, u)'
        PROVE  Holds(p, u) /\ pcb'[p] = pcb[p] /\ Sole(p)' /\ file_CR'.owner = u
    <2>1. p # nextPort
      BY <1>2, <1>3 DEF Holds
    <2>2. Holds(p, u) /\ pcb'[p] = pcb[p]
      BY <1>2, <1>3, <2>1 DEF Holds
    <2>3. Sole(p) /\ file_CR.owner = u
      BY <2>2 DEF FileKept
    <2>4. Sole(p)'
      BY <1>2, <2>3 DEF Sole
    <2>5. QED
      BY <1>1, <2>2, <2>3, <2>4
  <1>4. Prefix(disk'[u], Content(u))
    <2>1. disk' = disk \/ disk' = [disk EXCEPT ![u] = <<>>]
      BY DEF RequestStranded, RequestRefused
    <2>2. disk'[u] = disk[u] \/ disk'[u] = <<>>
      BY <1>0, <2>1
    <2>3. QED
      BY <1>0, <2>2, PrefixEmpty
  <1>5. \A n \in net' : n.to = "server" /\ n.client = u /\ n.op # "WRQ" => UpPacket(n)'
    BY <1>0, OwnPackets
  <1>6. \A p \in Ports : Holds(p, u)' /\ pcb'[p].use = "write" =>
          pcb'[p].block < NBlocks /\ (file_CR'.ok => Len(file_CR'.written) = pcb'[p].block)
    BY <1>1, <1>3 DEF FileKept
  <1>7. ~Mine(u)' /\ Content(u)' = Content(u)
    BY <1>1 DEF Mine, Content
  <1>8. QED
    BY <1>3, <1>4, <1>5, <1>6, <1>7 DEF FileKept, Prefix

\* A write request that is taken opens an empty file, and the only pcb that writes.
LEMMA StartKeeps ==
  ASSUME RouteInv, RouteInv', NEW m \in net, m.client \in Up, FileKept(m.client), m.client \notin shared',
         ServerStep(m), WriteStart(m)
  PROVE  /\ FileKept(m.client)' /\ Mine(m.client)' /\ disk'[m.client] = <<>> /\ Stored(m.client)' = <<>>
         /\ Deliver(m, {Ack(m.client, nextPort, 0)})
         /\ \A p \in Ports : Holds(p, m.client)' <=> p = nextPort
         /\ nextPort \in Ports /\ pcb'[nextPort].use = "write"
  <1> DEFINE u == m.client
  <1>0. /\ u \in Clients /\ pcb \in [Ports -> Pcbs] /\ disk \in [Clients -> Blocks]
        /\ Handle(m) /\ nextPort \in Ports /\ nextPort' # nextPort
    <2>1. u \in Clients /\ pcb \in [Ports -> Pcbs]
      BY RouteFacts
    <2>2. disk \in [Clients -> Blocks]
      BY ServerIsTyped DEF RouteInv, ServerTyped
    <2>3. Handle(m) /\ nextPort \in Ports /\ nextPort' = nextPort + 1
      BY DEF ServerStep, WriteStart, TakesPort
    <2>4. QED
      BY <2>1, <2>2, <2>3, PortBounds
  <1>1. /\ file_CR' = [ok |-> TRUE, owner |-> u, written |-> <<>>] /\ disk' = [disk EXCEPT ![u] = <<>>]
        /\ pcb' = [pcb EXCEPT ![nextPort] = [use |-> "write", block |-> 0, len |-> "full"]]
    BY DEF WriteStart
  <1>2. /\ pcb'[nextPort].use = "write" /\ pcb'[nextPort].block = 0 /\ peer'[nextPort] = u
        /\ \A p \in Ports \ {nextPort} : pcb'[p] = pcb[p]
    BY <1>0, <1>1, PeersOf
  <1>3. \A p \in Ports : pcb'[p].use \in {"write", "closing"} => p = nextPort
    <2>1. ASSUME NEW p \in Ports, p # nextPort, pcb'[p].use \in {"write", "closing"} PROVE FALSE
      <3>1. pcb'[p].use = "write"
        BY <1>0, <1>2, <2>1 DEF Handle
      <3>2. peer'[nextPort] \in shared'
        BY <1>0, <1>2, <2>1, <3>1 DEF RouteInv, PeersKept
      <3>3. QED
        BY <1>2, <3>2
    <2>2. QED
      BY <2>1
  <1>4. \A p \in Ports : Holds(p, u)' <=> p = nextPort
    BY <1>0, <1>2, <1>3 DEF Holds
  <1>5. \A p \in Ports : p = nextPort => Sole(p)'
    BY <1>3 DEF Sole
  <1>6. Mine(u)' /\ Stored(u)' = <<>> /\ disk'[u] = <<>>
    BY <1>0, <1>1 DEF Mine, Stored
  <1>7. Prefix(<<>>, Content(u)) /\ 0 < NBlocks /\ Len(<<>>) = 0
    BY PrefixEmpty, TftpAssumption
  <1>8. \A n \in net' : n.to = "server" /\ n.client = u /\ n.op # "WRQ" => UpPacket(n)'
    BY <1>0, OwnPackets
  <1>9. Content(u)' = Content(u)
    BY DEF Content
  <1>10. FileKept(u)'
    <2>1. \A p \in Ports : Holds(p, u)' => Sole(p)' /\ file_CR'.owner = u
      BY <1>1, <1>4, <1>5
    <2>2. \A p \in Ports : Holds(p, u)' /\ pcb'[p].use = "write" =>
            pcb'[p].block < NBlocks /\ (file_CR'.ok => Len(file_CR'.written) = pcb'[p].block)
      BY <1>1, <1>2, <1>4, <1>7
    <2>3. /\ \E p \in Ports : Holds(p, u)'
          /\ Prefix(file_CR'.written, Content(u)) /\ disk'[u] = <<>>
      BY <1>0, <1>1, <1>4, <1>6, <1>7
    <2>4. Prefix(disk'[u], Content(u))
      BY <1>6, <1>7
    <2>5. QED
      BY <1>8, <1>9, <2>1, <2>2, <2>3, <2>4 DEF FileKept, Prefix
  <1>11. Deliver(m, {Ack(u, nextPort, 0)})
    BY DEF WriteStart
  <1>12. QED
    BY <1>0, <1>2, <1>4, <1>6, <1>10, <1>11

\* The clean-up leaves the whole of what was written in the directory, or nothing.
LEMMA CleanupKeeps ==
  ASSUME RouteInv, NEW u \in Up, FileKept(u), NEW p \in Ports, CleanupStep(p), peer[p] = u
  PROVE  /\ FileKept(u)' /\ ~Mine(u)' /\ \A q \in Ports : ~Holds(q, u)'
         /\ disk'[u] = disk[u] \/ (Mine(u) /\ disk'[u] = file_CR.written)
         /\ healthy /\ Mine(u) => disk'[u] = file_CR.written
  <1>0. /\ u \in Clients /\ net' = net /\ peer' = peer /\ Holds(p, u) /\ Sole(p)
        /\ pcb' = [pcb EXCEPT ![p] = NoPcb] /\ pcb \in [Ports -> Pcbs]
        /\ file_CR \in CrFil /\ disk \in [Clients -> Blocks]
    <2>1. net' = net /\ peer' = peer /\ Holds(p, u) /\ pcb' = [pcb EXCEPT ![p] = NoPcb]
      BY DEF CleanupStep, CleanupWr, Holds
    <2>2. Sole(p)
      BY <2>1 DEF FileKept
    <2>3. pcb \in [Ports -> Pcbs] /\ file_CR \in CrFil /\ disk \in [Clients -> Blocks]
      BY ServerIsTyped DEF RouteInv, ServerTyped
    <2>4. QED
      BY <2>1, <2>2, <2>3, UploaderTyped
  <1>1. PICK good \in Good : disk' = Closed(good)
    BY DEF CleanupStep, CleanupWr
  <1>2. ~Mine(u)'
    BY <1>0 DEF CleanupStep, CleanupWr, Invalid, CrFil, Mine
  <1>3. \A q \in Ports : ~Holds(q, u)'
    BY <1>0 DEF Holds, Sole, NoPcb
  <1>4. disk'[u] = disk[u] \/ (Mine(u) /\ disk'[u] = file_CR.written)
    BY <1>0, <1>1, ClosedIsOwners DEF RouteInv
  <1>5. healthy /\ Mine(u) => disk'[u] = file_CR.written
    BY <1>0, <1>1 DEF Good, Closed, Mine
  <1>6. Prefix(disk'[u], Content(u))
    BY <1>4 DEF FileKept
  <1>7. \A n \in net' : n.to = "server" /\ n.client = u /\ n.op # "WRQ" => UpPacket(n)'
    BY <1>0 DEF FileKept, UpPacket
  <1>8. FileKept(u)'
    BY <1>2, <1>3, <1>6, <1>7, NoneHolds
  <1>9. QED
    BY <1>2, <1>3, <1>4, <1>5, <1>8


\* What the server does with a packet of an uploading client.
LEMMA UpHandles ==
  ASSUME RouteInv, NEW m \in net, m.client \in Up, Handle(m)
  PROVE  \/ RequestDropped(m) \/ Unclaimed(m) \/ RequestStranded(m) \/ RequestRefused(m)
         \/ WriteStart(m) \/ WrqStore(m) \/ WrqFail(m) \/ WrqEmpty(m) \/ WrqOther(m)
  <1>1. m.client \in Clients /\ m.client \notin Readers /\ Role(m) /\ Uses(m.client, m.port)
    BY RouteFacts DEF Up
  <1>2. m.op # "RRQ" /\ ~For(m, "read")
    BY <1>1 DEF Role, For, RouteInv, PortsKept
  <1>3. ~ReadStart(m) /\ ~RrqNext(m) /\ ~RrqEnd(m)
    BY <1>2 DEF ReadStart, IsRequest, RrqNext, RrqEnd
  <1>4. QED
    BY <1>3 DEF Handle

-----------------------------------------------------------------------------
(* The uploader's own steps.                                               *)

\* What client c does: it takes a packet, or moves by itself.
Moves(c) ==
  \/ \E m \in net : m.client = c /\ (ClientData(m) \/ ClientAck(m) \/ ClientError(m))
  \/ Start(c) \/ Timeout(c) \/ Abort(c)

LEMMA StepCases ==
  ASSUME RouteInv, [Next]_vars, NEW c \in Clients
  PROVE  \/ Elsewhere(c) \/ Moves(c)
         \/ \E m \in net : ServerStep(m)
         \/ \E p \in Ports : CleanupStep(p)
  BY DEF Next, Elsewhere, Moves, ClientStep

LEMMA UploadPackets ==
  ASSUME Numbered, NEW u \in Up, NEW p
  PROVE  /\ \A i \in 1 .. NBlocks : UpPacket(Datagram("server", "DATA", u, p, i, LenOf(i), i))
         /\ Harmless => \A code \in AbortCodes : UpPacket(Datagram("server", "ERROR", u, p, code, "part", 0))
  <1>1. ASSUME NEW i \in 1 .. NBlocks PROVE i % BlockMod = i
    BY TftpAssumption, BlockNumber DEF Numbered
  <1>2. QED
    BY <1>1 DEF Datagram, UpPacket, Harmless

\* The uploader sends nothing but its request, its blocks and, giving up, its error.
LEMMA UploaderSends ==
  ASSUME Numbered, RouteInv, CountKept, NEW u \in Up, Moves(u)
  PROVE  /\ UNCHANGED <<serverVars, history>>
         /\ \/ client'[u].phase = "failed" /\ ~Harmless
            \/ \A n \in net' : n \in net \/ n = Request(u) \/ (n.to = "server" /\ UpPacket(n))
  <1>0. /\ u \in Clients /\ u \notin Readers /\ client \in [Clients -> States] /\ client[u] \in States
        /\ client[u].block \in Nat
    BY UploaderTyped
  <1>1. ASSUME NEW m \in net, m.client = u, ClientData(m) \/ ClientAck(m) \/ ClientError(m)
        PROVE  \A n \in net' : n \in net \/ (n.to = "server" /\ UpPacket(n))
    <2>1. CASE ClientData(m)
      BY <1>0, <1>1, <2>1, RouteFacts DEF ClientData, ForClient, Role
    <2>2. CASE ClientError(m)
      BY <2>2, Delivered DEF ClientError
    <2>3. CASE ClientAck(m)
      <3>1. PICK b \in Nat : b = Awaited(u) /\ (b # NBlocks => b + 1 \in 1 .. NBlocks)
        BY <1>1, <2>3, AckNoted
      <3>2. CASE b = NBlocks
        BY <1>1, <2>3, <3>1, <3>2, Delivered DEF ClientAck
      <3>3. CASE b # NBlocks
        <4> DEFINE a == Datagram("server", "DATA", u, m.port, b + 1, LenOf(b + 1), b + 1)
        <4>1. a.to = "server" /\ UpPacket(a)
          BY <3>1, <3>3, UploadPackets DEF Datagram
        <4>2. Deliver(m, {a})
          BY <1>1, <2>3, <3>1, <3>3 DEF ClientAck
        <4> HIDE DEF a
        <4>3. QED
          BY <4>1, <4>2, Delivered
      <3>4. QED
        BY <3>2, <3>3
    <2>4. QED
      BY <1>1, <2>1, <2>2, <2>3
  <1>2. ASSUME Start(u) PROVE \A n \in net' : n \in net \/ n = Request(u)
    BY <1>2 DEF Start
  <1>3. ASSUME Timeout(u)
        PROVE  \A n \in net' : n \in net \/ n = Request(u) \/ (n.to = "server" /\ UpPacket(n))
    <2>1. CASE client[u].phase = "req"
      BY <1>3, <2>1 DEF Timeout, Pending
    <2>2. CASE client[u].phase = "run"
      <3> DEFINE b == client[u].block
                 a == Datagram("server", "DATA", u, client[u].port, b + 1, LenOf(b + 1), b + 1)
      <3>1. b + 1 \in 1 .. NBlocks
        BY <1>0, <2>2, TftpAssumption DEF CountKept
      <3>2. a.to = "server" /\ UpPacket(a)
        BY <3>1, UploadPackets DEF Datagram
      <3>3. Pending(u) = a
        BY <1>0, <2>2 DEF Pending
      <3> HIDE DEF a
      <3>4. QED
        BY <1>3, <3>2, <3>3 DEF Timeout
    <2>3. QED
      BY <1>3, <2>1, <2>2 DEF Timeout
  <1>4. ASSUME Abort(u)
        PROVE  \/ client'[u].phase = "failed" /\ ~Harmless
               \/ \A n \in net' : n \in net \/ (n.to = "server" /\ UpPacket(n))
    <2>1. client'[u].phase = "failed"
      BY <1>0, <1>4 DEF Abort, States
    <2>2. PICK code \in AbortCodes :
            net' = net \cup {Datagram("server", "ERROR", u, client[u].port, code, "part", 0)}
      BY <1>4 DEF Abort
    <2> DEFINE a == Datagram("server", "ERROR", u, client[u].port, code, "part", 0)
    <2>3. Harmless => a.to = "server" /\ UpPacket(a)
      BY UploadPackets DEF Datagram
    <2> HIDE DEF a
    <2>4. net' = net \cup {a}
      BY <2>2 DEF a
    <2>5. QED
      BY <2>1, <2>3, <2>4
  <1>5. UNCHANGED <<serverVars, history>>
    <2>1. (\E m \in net : ClientStep(m)) \/ Start(u) \/ Timeout(u) \/ Abort(u)
      BY DEF Moves, ClientStep
    <2>2. QED
      BY <2>1, ClientsLeave
  <1>6. QED
    BY <1>1, <1>2, <1>3, <1>4, <1>5 DEF Moves

LEMMA UploaderKeeps ==
  ASSUME Numbered, RouteInv, CountKept, NEW u \in Up, FileKept(u), ~Excused(u)', Moves(u)
  PROVE  FileKept(u)'
  <1>1. UNCHANGED <<pcb, file_CR, disk, peer>>
    BY UploaderSends DEF serverVars, history
  <1>2. \A n \in net' : n \in net \/ n = Request(u) \/ (n.to = "server" /\ UpPacket(n))
    BY UploaderSends DEF Excused, Harmless
  <1>3. Request(u).op = "WRQ"
    BY UploaderTyped
  <1>4. \A n \in net' : n.to = "server" /\ n.client = u /\ n.op # "WRQ" => UpPacket(n)'
    BY <1>2, <1>3 DEF FileKept, UpPacket
  <1>5. Content(u)' = Content(u)
    BY DEF Content
  <1>6. \A p \in Ports : (Holds(p, u)' <=> Holds(p, u)) /\ (Sole(p)' <=> Sole(p))
    BY <1>1 DEF Holds, Sole
  <1>7. QED
    BY <1>1, <1>4, <1>5, <1>6 DEF FileKept, Mine, Prefix

-----------------------------------------------------------------------------
(* The theorem about what is stored.                                       *)

\* A step is the upload's own, or leaves what it has.
LEMMA OwnOrApart ==
  ASSUME RouteInv, RouteInv', [Next]_vars, NEW u \in Up, FileKept(u), u \notin shared'
  PROVE  \/ Apart(u) \/ Moves(u)
         \/ \E p \in Ports : CleanupStep(p) /\ peer[p] = u
         \/ \E m \in net : /\ ServerStep(m) /\ m.client = u
                           /\ \/ RequestStranded(m) \/ RequestRefused(m) \/ WriteStart(m)
                              \/ WrqStore(m) \/ WrqFail(m) \/ WrqEmpty(m) \/ WrqOther(m)
  <1>1. CASE Elsewhere(u)
    BY <1>1, ApartQuiet
  <1>2. ASSUME NEW p \in Ports, CleanupStep(p), peer[p] # u PROVE Apart(u)
    BY <1>2, ApartCleanup
  <1>3. ASSUME NEW m \in net, ServerStep(m), m.client # u \/ RequestDropped(m) \/ Unclaimed(m)
        PROVE  Apart(u)
    BY <1>3, ApartServer
  <1>4. ASSUME NEW m \in net, ServerStep(m), m.client = u
        PROVE  \/ RequestDropped(m) \/ Unclaimed(m) \/ RequestStranded(m) \/ RequestRefused(m)
               \/ WriteStart(m) \/ WrqStore(m) \/ WrqFail(m) \/ WrqEmpty(m) \/ WrqOther(m)
    BY <1>4, UpHandles DEF ServerStep
  <1>5. u \in Clients
    BY DEF Up
  <1>6. QED
    BY <1>1, <1>2, <1>3, <1>4, <1>5, StepCases

LEMMA UploadNext == Numbered /\ UploadInv /\ [Next]_vars => UploadInv'
  <1> SUFFICES ASSUME Numbered, UploadInv, [Next]_vars PROVE UploadInv'
    OBVIOUS
  <1>1. RouteInv /\ RouteInv' /\ CountKept /\ CountKept'
    BY RouteNext, CountNext DEF UploadInv
  <1>2. ASSUME NEW u \in Up, ~Excused(u)' PROVE FileKept(u)'
    <2>1. FileKept(u) /\ u \notin shared'
      BY <1>1, <1>2, ExcuseLasts DEF UploadInv, Excused
    <2>2. CASE Apart(u)
      BY <2>1, <2>2, ApartKeeps
    <2>3. CASE Moves(u)
      BY <1>1, <1>2, <2>1, <2>3, UploaderKeeps
    <2>4. ASSUME NEW p \in Ports, CleanupStep(p), peer[p] = u PROVE FileKept(u)'
      BY <1>1, <2>1, <2>4, CleanupKeeps
    <2>5. ASSUME NEW m \in net, ServerStep(m), m.client = u,
                 \/ RequestStranded(m) \/ RequestRefused(m) \/ WriteStart(m)
                 \/ WrqStore(m) \/ WrqFail(m) \/ WrqEmpty(m) \/ WrqOther(m)
          PROVE  FileKept(u)'
      <3>1. m.client \in Up /\ FileKept(m.client) /\ m.client \notin shared'
        BY <2>1, <2>5
      <3>2. FileKept(m.client)'
        BY <1>1, <2>5, <3>1, RefusalKeeps, StartKeeps, FailKeeps, BlockCounted, EmptyCounted, OtherCounted
           DEF Counted
      <3>3. FileKept(m.client)' = FileKept(u)'
        BY <2>5
      <3>4. QED
        BY <3>2, <3>3
    <2>6. QED
      BY <1>1, <2>1, <2>2, <2>3, <2>4, <2>5, OwnOrApart
  <1>3. QED
    BY <1>1, <1>2 DEF UploadInv

LEMMA UploadAlways == ASSUME Numbered PROVE Spec => []UploadInv
  <1>1. Init => UploadInv
    BY TypeInit, RouteInit, UploadInit DEF UploadInv, RouteInv
  <1>2. UploadInv /\ [Next]_vars => UploadInv'
    BY UploadNext
  <1>3. QED
    BY <1>1, <1>2, PTL DEF Spec

\* A file that one upload has to itself never holds a hole, a repetition or a foreign
\* block, whatever is lost, repeated or late, whatever fails, and whatever runs beside it.
THEOREM StoredInOrder == ASSUME Numbered PROVE Spec => []StoredIsPrefix
  <1>1. UploadInv => StoredIsPrefix
    <2> SUFFICES ASSUME UploadInv, NEW c \in Clients \ shared, client[c].phase # "failed"
                 PROVE  Prefix(Stored(c), Content(c)) /\ Prefix(disk[c], Content(c))
      BY DEF StoredIsPrefix
    <2>1. CASE c \in Readers
      BY <2>1, PrefixEmpty DEF UploadInv, CountKept, Stored, Mine
    <2>2. CASE c \notin Readers
      <3>1. FileKept(c)
        BY <2>2 DEF UploadInv, Up, Excused
      <3>2. QED
        BY <3>1 DEF FileKept, Stored, Mine
    <2>3. QED
      BY <2>1, <2>2
  <1>2. QED
    BY <1>1, UploadAlways, PTL


-----------------------------------------------------------------------------
(* What an uploading client was told is stored.                            *)

\* An upload is asked for once: no write request is repeated, by client or network.
OneRequest == Numbered /\ "WRQ" \notin Keep \cup Repeat

\* Before its request is taken nothing else of the upload is under way, and no pcb is its own.
Asks(u) ==
  /\ client[u].phase = "idle" => \A n \in net : n.client # u
  /\ Request(u) \in net => client[u].phase = "req" /\ \A n \in net : n.client = u => n = Request(u)
  /\ client[u].phase = "idle" \/ Request(u) \in net => \A p \in Ports : ~Holds(p, u)

\* The upload is in the directory, or about to be.
Complete(u) ==
  BeingClosed(u) \/ (disk[u] = Content(u) /\ ~Mine(u) /\ \A p \in Ports : ~Holds(p, u))

\* The client knows of no block that the server has not stored.
Acked(u) ==
  /\ \A p \in Ports : Holds(p, u) => file_CR.ok
  /\ \A n \in net : n.to = "client" /\ n.op = "ACK" /\ n.client = u =>
       Covers(Stored(u), u, n.block) /\ (n.block = NBlocks => Complete(u))
  /\ Covers(Stored(u), u, client[u].block)
  /\ client[u].phase = "done" => Complete(u)

DoneInv ==
  UploadInv /\ \A u \in Up : Asks(u) /\ (Excused(u) \/ u \in harmed \/ Acked(u))

LEMMA DoneInit == Init => \A u \in Up : Asks(u) /\ Acked(u)
  <1> SUFFICES ASSUME Init, NEW u \in Up PROVE Asks(u) /\ Acked(u)
    OBVIOUS
  <1>1. u \in Clients /\ \A p \in Ports : pcb[p].use = "free"
    BY DEF Init, ServerInit, NoPcb, Up
  <1>2. net = {} /\ client[u].phase = "idle" /\ client[u].block = 0 /\ Stored(u) = <<>>
    BY <1>1 DEF Init, ServerInit, Stored
  <1>3. Covers(Stored(u), u, client[u].block)
    BY <1>2, ContentFacts DEF Covers
  <1>4. QED
    BY <1>1, <1>2, <1>3 DEF Asks, Acked, Holds

\* No step for somebody else gives the upload a pcb.
LEMMA HoldsStays ==
  ASSUME RouteInv, NEW u \in Up,
         \/ \E m \in net : ServerStep(m) /\ m.client # u
         \/ \E p \in Ports : CleanupStep(p)
         \/ UNCHANGED <<serverVars, history>>,
         NEW q \in Ports, Holds(q, u)'
  PROVE  Holds(q, u)
  <1>1. CASE UNCHANGED <<serverVars, history>>
    BY <1>1 DEF Holds, serverVars, history
  <1>2. ASSUME NEW p \in Ports, CleanupStep(p) PROVE Holds(q, u)
    BY <1>2 DEF Holds, CleanupStep, CleanupWr, NoPcb, RouteInv, TypeOK
  <1>3. ASSUME NEW m \in net, ServerStep(m), m.client # u PROVE Holds(q, u)
    <2>1. OnPort(m) \/ OnNewPort(m)
      BY <1>3, Routed DEF ServerStep
    <2>2. CASE OnPort(m)
      <3>1. peer' = peer /\ Left(q)
        BY <1>3, <2>2 DEF OnPort, ServerStep
      <3>2. QED
        BY <3>1 DEF Holds, Left
    <2>3. CASE OnNewPort(m)
      <3>1. q # nextPort
        <4>1. nextPort' # nextPort
          BY <2>3, PortBounds DEF OnNewPort
        <4>2. QED
          BY <1>3, <4>1, PeersOf DEF Holds
      <3>2. pcb'[q] = pcb[q] /\ peer'[q] = peer[q]
        BY <1>3, <2>3, <3>1, PeersOf DEF OnNewPort
      <3>3. QED
        BY <3>2 DEF Holds
    <2>4. QED
      BY <2>1, <2>2, <2>3
  <1>4. QED
    BY <1>1, <1>2, <1>3

LEMMA AsksNext ==
  ASSUME OneRequest, RouteInv, CountKept, [Next]_vars, NEW u \in Up, Asks(u)
  PROVE  Asks(u)'
  <1>0. /\ u \in Clients /\ u \notin Readers /\ client \in [Clients -> States] /\ client[u] \in States
        /\ Request(u).op = "WRQ" /\ Request(u).to = "server" /\ Request(u).client = u
        /\ Request(u)' = Request(u)
    BY UploaderTyped DEF Request
  <1>1. CASE Elsewhere(u)
    <2>1. client'[u] = client[u] /\ UNCHANGED <<serverVars, history>>
          /\ \A n \in net' : n.client = u => n \in net
      BY <1>0, <1>1, ElsewhereStays
    <2>2. \A p \in Ports : Holds(p, u)' => Holds(p, u)
      BY <2>1, HoldsStays
    <2>3. QED
      BY <1>0, <2>1, <2>2 DEF Asks
  <1>2. ASSUME NEW p \in Ports, CleanupStep(p) PROVE Asks(u)'
    <2>1. client' = client /\ net' = net
      BY <1>2 DEF CleanupStep, CleanupWr
    <2>2. \A q \in Ports : Holds(q, u)' => Holds(q, u)
      BY <1>2, HoldsStays
    <2>3. QED
      BY <1>0, <2>1, <2>2 DEF Asks
  <1>3. ASSUME NEW m \in net, ServerStep(m), m.client # u PROVE Asks(u)'
    <2>1. client' = client /\ \A n \in net' : n.client = u => n \in net
      BY <1>3, Routed DEF ServerStep, OnPort, OnNewPort, Answers
    <2>2. \A q \in Ports : Holds(q, u)' => Holds(q, u)
      BY <1>3, HoldsStays
    <2>3. QED
      BY <1>0, <2>1, <2>2 DEF Asks
  <1>4. ASSUME NEW m \in net, ServerStep(m), m.client = u PROVE Asks(u)'
    <2>1. client' = client /\ Handle(m) /\ client[u].phase # "idle"
      BY <1>4 DEF ServerStep, Asks
    <2>2. Request(u) \notin net'
      <3>1. \A n \in net' : n \in net \/ n.to = "client"
        BY <2>1, Routed DEF OnPort, OnNewPort, Answers
      <3>2. CASE m = Request(u)
        <4>1. m.op \notin Keep
          BY <1>0, <3>2 DEF OneRequest
        <4>2. PICK R \in {{}, {Error(u, nextPort)}, {Ack(u, nextPort, 0)}} : Deliver(m, R)
          <5>1. ~For(m, "write")
            BY <1>0, <3>2, PortBounds DEF For, Request, Datagram
          <5>2. RequestDropped(m) \/ Unclaimed(m) \/ RequestStranded(m) \/ RequestRefused(m) \/ WriteStart(m)
            BY <1>4, <2>1, <5>1, UpHandles DEF WrqStore, WrqFail, WrqEmpty, WrqOther, WrqAnswer
          <5>3. QED
            BY <1>4, <5>2 DEF RequestDropped, Unclaimed, RequestStranded, RequestRefused, WriteStart
        <4>3. m \notin R
          BY <1>0, <3>2, <4>2 DEF Ack, Error, Datagram
        <4>4. QED
          BY <3>2, <4>1, <4>2, <4>3, Delivered
      <3>3. CASE m # Request(u)
        <4>1. Request(u) \notin net
          BY <1>4, <3>3 DEF Asks
        <4>2. QED
          BY <1>0, <3>1, <4>1
      <3>4. QED
        BY <3>2, <3>3
    <2>3. QED
      BY <1>0, <2>1, <2>2 DEF Asks
  <1>5. CASE Moves(u)
    <2>1. \A p \in Ports : Holds(p, u)' => Holds(p, u)
      BY <1>5, UploaderSends, HoldsStays DEF OneRequest
    <2>2. CASE Start(u)
      <3>1. client[u].phase = "idle" /\ client'[u].phase = "req" /\ net' = net \cup {Request(u)}
        BY <1>0, <2>2 DEF Start, States
      <3>2. QED
        BY <1>0, <2>1, <3>1 DEF Asks
    <2>3. CASE ~Start(u)
      <3>1. Request(u) \notin net /\ client'[u].phase # "idle"
        <4>1. ASSUME NEW m \in net, m.client = u, ClientData(m) \/ ClientAck(m) \/ ClientError(m)
              PROVE  Request(u) \notin net /\ client'[u].phase # "idle"
          <5>1. m.to = "client"
            BY <4>1 DEF ClientData, ClientAck, ClientError, ForClient
          <5>2. ClientData(m) \/ ClientAck(m) => client'[u].phase \in {"run", "done"}
            <6>1. ASSUME ClientAck(m) PROVE client'[u].phase \in {"run", "done"}
              BY <4>1, <6>1, AckNoted
            <6>2. ~ClientData(m)
              BY <1>0, <4>1, RouteFacts DEF ClientData, ForClient, Role
            <6>3. QED
              BY <6>1, <6>2
          <5>3. ClientError(m) => client'[u].phase = "failed"
            BY <1>0, <4>1 DEF ClientError, States
          <5>4. QED
            BY <1>0, <4>1, <5>1, <5>2, <5>3 DEF Asks
        <4>2. CASE Timeout(u)
          <5>1. client[u].phase = "run" /\ client' = client
            BY <1>0, <4>2 DEF Timeout, Pending, OneRequest
          <5>2. QED
            BY <5>1 DEF Asks
        <4>3. CASE Abort(u)
          <5>1. client[u].phase = "run" /\ client'[u].phase = "failed"
            BY <1>0, <4>3 DEF Abort, States
          <5>2. QED
            BY <5>1 DEF Asks
        <4>4. QED
          BY <1>5, <2>3, <4>1, <4>2, <4>3 DEF Moves
      <3>2. Request(u) \notin net'
        <4>1. PICK R : net' \subseteq net \cup R /\ Request(u) \notin R
          <5>1. ASSUME NEW m \in net, m.client = u, ClientData(m) \/ ClientAck(m) \/ ClientError(m)
                PROVE  \E R : net' \subseteq net \cup R /\ Request(u) \notin R
            <6>1. \E R : Deliver(m, R) /\ \A n \in R : n.op \in {"ACK", "DATA"}
              BY <5>1 DEF ClientData, ClientAck, ClientError, Datagram
            <6>2. QED
              BY <1>0, <6>1, Delivered
          <5>2. CASE Timeout(u)
            <6>1. Pending(u).op # "WRQ" /\ net' = net \cup {Pending(u)}
              BY <5>2 DEF Timeout, OneRequest
            <6>2. net' \subseteq net \cup {Pending(u)} /\ Request(u) \notin {Pending(u)}
              BY <1>0, <6>1
            <6>3. QED
              BY <6>2
          <5>3. CASE Abort(u)
            <6>1. PICK code \in AbortCodes :
                    net' = net \cup {Datagram("server", "ERROR", u, client[u].port, code, "part", 0)}
              BY <5>3 DEF Abort
            <6> DEFINE a == Datagram("server", "ERROR", u, client[u].port, code, "part", 0)
            <6>2. a.op = "ERROR"
              BY DEF Datagram
            <6> HIDE DEF a
            <6>3. net' \subseteq net \cup {a} /\ Request(u) \notin {a}
              BY <1>0, <6>1, <6>2 DEF a
            <6>4. QED
              BY <6>3
          <5>4. QED
            BY <1>5, <2>3, <5>1, <5>2, <5>3 DEF Moves
        <4>2. QED
          BY <3>1, <4>1
      <3>3. QED
        BY <1>0, <3>1, <3>2 DEF Asks
    <2>4. QED
      BY <2>2, <2>3
  <1>6. QED
    BY <1>0, <1>1, <1>2, <1>3, <1>4, <1>5, StepCases


\* What was covered stays covered when the stored part grows.
LEMMA CoversMore ==
  ASSUME NEW v, NEW w, Len(v) \in Nat, Len(w) \in Nat, Len(w) >= Len(v), NEW u, NEW b \in Nat, Covers(v, u, b)
  PROVE  Covers(w, u, b)
  BY ContentFacts DEF Covers

LEMMA StoredTyped ==
  ASSUME RouteInv, NEW u \in Clients
  PROVE  Stored(u) \in Blocks /\ Len(Stored(u)) \in Nat
  BY ServerIsTyped DEF RouteInv, ServerTyped, Stored, CrFil, Blocks

\* Neither what is stored nor what the client was told changes.
LEMMA AckedStays ==
  ASSUME NEW u \in Up, Acked(u), Stored(u)' = Stored(u),
         client'[u].block = client[u].block,
         client'[u].phase = "done" => client[u].phase = "done",
         \A n \in net' : n.client = u /\ n.to = "client" => n \in net,
         \A p \in Ports : Holds(p, u)' => file_CR'.ok,
         Complete(u) => Complete(u)'
  PROVE  Acked(u)'
  <1>1. \A w, b : Covers(w, u, b)' <=> Covers(w, u, b)
    BY DEF Covers, Content
  <1>2. ASSUME NEW b, Covers(Stored(u), u, b) PROVE Covers(Stored(u), u, b)'
    BY <1>2 DEF Covers, Content
  <1>3. Covers(Stored(u), u, client[u].block)'
    BY <1>2 DEF Acked, Covers, Content
  <1>4. QED
    BY <1>2, <1>3 DEF Acked

LEMMA AckedApart ==
  ASSUME RouteInv, NEW u \in Up, FileKept(u), Apart(u), u \notin harmed', Acked(u)
  PROVE  Acked(u)'
  <1>1. Mine(u)' <=> Mine(u)
    BY DEF Apart
  <1>2. Mine(u) => file_CR' = file_CR
    BY <1>1 DEF Apart
  <1>3. Stored(u)' = Stored(u)
    BY <1>1, <1>2 DEF Apart, Stored, Mine
  <1>4. \A p \in Ports : (Holds(p, u)' <=> Holds(p, u)) /\ (Holds(p, u) => Mine(u))
    BY ApartHolds DEF FileKept, Acked, Mine
  <1>5. Content(u)' = Content(u)
    BY DEF Content
  <1>6. Complete(u) => Complete(u)'
    <2>1. ASSUME BeingClosed(u) PROVE BeingClosed(u)'
      <3>1. Mine(u)
        BY <2>1 DEF BeingClosed, Mine
      <3>2. file_CR' = [ok |-> TRUE, owner |-> u, written |-> Content(u)]
        BY <1>2, <2>1, <3>1 DEF BeingClosed
      <3>3. PICK p \in Ports : pcb[p].use = "closing" /\ peer[p] = u
        BY <2>1 DEF BeingClosed
      <3>4. pcb'[p].use = "closing" /\ peer'[p] = u
        BY <3>3 DEF Apart, Holds
      <3>5. QED
        BY <1>5, <3>2, <3>4 DEF BeingClosed
    <2>2. ASSUME disk[u] = Content(u) /\ ~Mine(u) /\ \A p \in Ports : ~Holds(p, u) PROVE Complete(u)'
      BY <1>1, <1>4, <1>5, <2>2 DEF Complete, Apart
    <2>3. QED
      BY <2>1, <2>2 DEF Complete
  <1>7. client'[u] = client[u] /\ \A n \in net' : n.client = u => n \in net
    BY DEF Apart
  <1>8. \A p \in Ports : Holds(p, u)' => file_CR'.ok
    BY <1>1, <1>4 DEF Mine
  <1>9. QED
    BY <1>3, <1>6, <1>7, <1>8, AckedStays

LEMMA AckedCleanup ==
  ASSUME RouteInv, NEW u \in Up, FileKept(u), NEW p \in Ports, CleanupStep(p), peer[p] = u,
         u \notin harmed', Acked(u)
  PROVE  Acked(u)'
  <1>1. healthy /\ client' = client /\ net' = net
    BY DEF CleanupStep, CleanupWr, Harm
  <1>2. Holds(p, u)
    BY DEF CleanupStep, CleanupWr, Holds
  <1>3. Mine(u)
    BY <1>2 DEF FileKept, Acked, Mine
  <1>4. ~Mine(u)' /\ (\A q \in Ports : ~Holds(q, u)') /\ disk'[u] = file_CR.written
    BY <1>1, <1>3, CleanupKeeps
  <1>5. Stored(u)' = Stored(u)
    BY <1>3, <1>4 DEF Stored, Mine
  <1>6. Complete(u) => Complete(u)'
    <2>1. Content(u)' = Content(u)
      BY DEF Content
    <2>2. QED
      BY <1>2, <1>4, <2>1 DEF Complete, BeingClosed
  <1>7. QED
    BY <1>1, <1>4, <1>5, <1>6, AckedStays

\* The request goes out of the network, so that its answer is all there is.
LEMMA AckedStart ==
  ASSUME RouteInv, RouteInv', CountKept, NEW m \in net, m.client \in Up, FileKept(m.client),
         m.client \notin shared', ServerStep(m), WriteStart(m), Asks(m.client)
  PROVE  Acked(m.client)'
  <1> DEFINE u == m.client
  <1>1. m = Request(u) /\ client' = client
    BY RouteFacts DEF WriteStart, IsRequest, Role, ServerStep
  <1>2. client[u].phase = "req" /\ client[u].block = 0 /\ \A n \in net : n.client = u => n = m
    BY <1>1 DEF Asks, CountKept
  <1>3. /\ Mine(u)' /\ Stored(u)' = <<>> /\ Deliver(m, {Ack(u, nextPort, 0)})
        /\ \A p \in Ports : Holds(p, u)' <=> p = nextPort
    BY StartKeeps
  <1>4. \A n \in net' : n.client = u /\ n.to = "client" => n = Ack(u, nextPort, 0)
    <2>1. m.to = "server"
      BY DEF WriteStart, IsRequest
    <2>2. QED
      BY <1>2, <1>3, <2>1, Delivered
  <1>5. Ack(u, nextPort, 0).block = 0
    BY BlockNumber, TftpAssumption DEF Ack, Datagram
  <1>6. Covers(<<>>, u, 0)' /\ 0 # NBlocks
    BY ContentFacts, TftpAssumption DEF Covers, Content
  <1>7. ASSUME NEW n \in net', n.to = "client", n.client = u
        PROVE  Covers(Stored(u), u, n.block)' /\ n.block # NBlocks
    <2>1. n.block = 0
      BY <1>4, <1>5, <1>7
    <2>2. QED
      BY <1>3, <1>6, <2>1 DEF Covers
  <1>8. Covers(Stored(u), u, client[u].block)'
    BY <1>1, <1>2, <1>3, <1>6 DEF Covers
  <1>9. file_CR'.ok /\ client'[u].phase # "done"
    BY <1>1, <1>2, <1>3 DEF Mine
  <1>10. QED
    BY <1>7, <1>8, <1>9 DEF Acked

LEMMA AckedCounted ==
  ASSUME OneRequest, RouteInv, NEW m \in net, m.client \in Up, FileKept(m.client), ServerStep(m),
         For(m, "write"), Acked(m.client), NEW b \in 0 .. NBlocks, NEW w \in Blocks, Counted(m, b, w)
  PROVE  Acked(m.client)'
  <1> DEFINE u == m.client
  <1>1. /\ u \in Clients /\ m.port \in Ports /\ Holds(m.port, u) /\ Sole(m.port) /\ pcb[m.port].use = "write"
        /\ file_CR.written \in Blocks /\ file_CR.owner = u /\ client' = client
    BY OnWritePort DEF For, ServerStep
  <1>2. file_CR.ok /\ Stored(u) = file_CR.written
    BY <1>1 DEF Acked, Stored
  <1>3. /\ Stored(u)' = w /\ Len(w) >= Len(file_CR.written) /\ Covers(w, u, b)
        /\ (b = NBlocks => BeingClosed(u)') /\ file_CR'.ok /\ Deliver(m, {Ack(u, m.port, b)})
    <2>1. Len(file_CR.written) \in Nat
      BY <1>1 DEF Blocks
    <2>2. QED
      BY <1>2, <2>1 DEF Counted
  <1>4. ~Complete(u)
    <2>1. ~BeingClosed(u)
      BY <1>1 DEF BeingClosed, Sole
    <2>2. QED
      BY <1>1, <2>1 DEF Complete
  <1>5. Len(w) \in Nat /\ Len(file_CR.written) \in Nat
    BY <1>1 DEF Blocks
  <1>6. ASSUME NEW x \in Nat, Covers(Stored(u), u, x) PROVE Covers(w, u, x)
    BY <1>2, <1>3, <1>5, <1>6, CoversMore
  <1>7. b \in Nat /\ Ack(u, m.port, b).block = b
    BY BlockNumber, TftpAssumption DEF Ack, Datagram, OneRequest, Numbered
  <1>8. ASSUME NEW n \in net', n.to = "client", n.op = "ACK", n.client = u
        PROVE  Covers(w, u, n.block) /\ (n.block = NBlocks => Complete(u)')
    <2>1. CASE n \in net
      <3>1. Covers(Stored(u), u, n.block) /\ n.block # NBlocks /\ n.block \in Nat
        BY <1>4, <1>8, <2>1, TypeOfMessage DEF Acked, RouteInv
      <3>2. QED
        BY <1>6, <3>1
    <2>2. CASE n = Ack(u, m.port, b)
      <3>1. n.block = b
        BY <1>7, <2>2
      <3>2. QED
        BY <1>3, <3>1 DEF Complete
    <2>3. QED
      BY <1>3, <2>1, <2>2, Delivered
  <1>9. Covers(w, u, client[u].block) /\ client[u].phase # "done"
    <2>1. client[u].block \in Nat
      BY ClientIsTyped DEF RouteInv, Up
    <2>2. QED
      BY <1>4, <1>6, <2>1 DEF Acked
  <1>10. ASSUME NEW x, Covers(w, u, x) PROVE Covers(Stored(u), u, x)'
    BY <1>3, <1>10 DEF Covers, Content
  <1>11. Covers(Stored(u), u, client[u].block)'
    BY <1>1, <1>3, <1>9 DEF Covers, Content
  <1>12. QED
    BY <1>1, <1>3, <1>8, <1>9, <1>10, <1>11 DEF Acked

LEMMA AckedMoves ==
  ASSUME OneRequest, RouteInv, CountKept, NEW u \in Up, FileKept(u), Moves(u), ~Excused(u)', Acked(u)
  PROVE  Acked(u)'
  <1>0. /\ u \in Clients /\ u \notin Readers /\ client \in [Clients -> States] /\ client[u] \in States
        /\ Request(u).to = "server"
    BY UploaderTyped
  <1>1. UNCHANGED <<pcb, file_CR, disk, peer>>
    BY UploaderSends DEF serverVars, history, OneRequest
  <1>2. \A n \in net' : n.client = u /\ n.to = "client" => n \in net
    BY <1>0, UploaderSends DEF Excused, Harmless, OneRequest
  <1>3. Stored(u)' = Stored(u) /\ \A p \in Ports : Holds(p, u)' => file_CR'.ok
    BY <1>1 DEF Stored, Acked, Holds
  <1>4. Complete(u) => Complete(u)'
    BY <1>1 DEF Complete, BeingClosed, Holds, Mine, Content
  <1>5. ASSUME client'[u].block = client[u].block, client'[u].phase = "done" => client[u].phase = "done"
        PROVE  Acked(u)'
    BY <1>2, <1>3, <1>4, <1>5, AckedStays
  <1>6. ASSUME NEW m \in net, m.client = u, ClientAck(m) PROVE Acked(u)'
    <2>1. PICK b \in Nat :
            /\ b <= NBlocks /\ m.block = b % BlockMod /\ client'[u].block = b
            /\ client'[u].phase = IF b = NBlocks THEN "done" ELSE "run"
      BY <1>6, AckNoted
    <2>2. m.block = b /\ m.to = "client" /\ m.op = "ACK"
      BY <1>6, <2>1, BlockNumber, TftpAssumption DEF OneRequest, Numbered, ClientAck, ForClient
    <2>3. Covers(Stored(u), u, b) /\ (b = NBlocks => Complete(u))
      BY <1>6, <2>2 DEF Acked
    <2>4. ASSUME NEW x, Covers(Stored(u), u, x) PROVE Covers(Stored(u), u, x)'
      BY <1>3, <2>4 DEF Covers, Content
    <2>5. Covers(Stored(u), u, client[u].block)'
      BY <1>3, <2>1, <2>3 DEF Covers, Content
    <2>6. client'[u].phase = "done" => Complete(u)'
      BY <1>4, <2>1, <2>3
    <2>7. \A n \in net' : n.to = "client" /\ n.op = "ACK" /\ n.client = u =>
            Covers(Stored(u), u, n.block)' /\ (n.block = NBlocks => Complete(u)')
      BY <1>2, <1>4, <2>4 DEF Acked
    <2>8. QED
      BY <1>3, <2>5, <2>6, <2>7 DEF Acked
  <1>7. ASSUME NEW m \in net, m.client = u, ClientError(m) PROVE Acked(u)'
    <2>1. client'[u].block = client[u].block /\ client'[u].phase = "failed"
      BY <1>0, <1>7 DEF ClientError, States
    <2>2. QED
      BY <1>5, <2>1
  <1>8. ASSUME NEW m \in net, m.client = u PROVE ~ClientData(m)
    BY <1>0, <1>8, RouteFacts DEF ClientData, ForClient, Role
  <1>9. CASE Start(u) \/ Timeout(u) \/ Abort(u)
    <2>1. client'[u].block = client[u].block
          /\ (client'[u].phase = client[u].phase \/ client'[u].phase \in {"req", "failed"})
      BY <1>0, <1>9 DEF Start, Timeout, Abort, States
    <2>2. QED
      BY <1>5, <2>1
  <1>10. QED
    BY <1>6, <1>7, <1>8, <1>9 DEF Moves

LEMMA DoneNext == OneRequest /\ DoneInv /\ [Next]_vars => DoneInv'
  <1> SUFFICES ASSUME OneRequest, DoneInv, [Next]_vars PROVE DoneInv'
    OBVIOUS
  <1>1. /\ UploadInv /\ UploadInv' /\ RouteInv /\ RouteInv' /\ CountKept
    BY UploadNext DEF DoneInv, UploadInv, OneRequest
  <1>2. \A u \in Up : Asks(u)'
    BY <1>1, AsksNext DEF DoneInv
  <1>3. harmed \subseteq harmed'
    <2>1. harmed' = harmed \/ (\E m \in net : ServerStep(m)) \/ \E p \in Ports : CleanupStep(p)
      BY ClientsLeave DEF Next, history
    <2>2. QED
      BY <2>1 DEF ServerStep, CleanupStep, Harm
  <1>4. ASSUME NEW u \in Up, ~Excused(u)', u \notin harmed' PROVE Acked(u)'
    <2>1. ~Excused(u) /\ FileKept(u) /\ u \notin shared' /\ Acked(u) /\ Asks(u)
      BY <1>1, <1>3, <1>4, ExcuseLasts DEF UploadInv, DoneInv, Excused
    <2>2. CASE Apart(u)
      BY <1>1, <1>4, <2>1, <2>2, AckedApart
    <2>3. CASE Moves(u)
      BY <1>1, <1>4, <2>1, <2>3, AckedMoves
    <2>4. ASSUME NEW p \in Ports, CleanupStep(p), peer[p] = u PROVE Acked(u)'
      BY <1>1, <1>4, <2>1, <2>4, AckedCleanup
    <2>5. ASSUME NEW m \in net, ServerStep(m), m.client = u,
                 \/ RequestStranded(m) \/ RequestRefused(m) \/ WriteStart(m)
                 \/ WrqStore(m) \/ WrqFail(m) \/ WrqEmpty(m) \/ WrqOther(m)
          PROVE  Acked(u)'
      <3>1. m.client \in Up /\ FileKept(m.client) /\ m.client \notin shared' /\ Acked(m.client)
            /\ Asks(m.client) /\ healthy
        <4>1. healthy
          BY <1>4, <2>5 DEF ServerStep, Harm
        <4>2. QED
          BY <2>1, <2>5, <4>1
      <3>2. ~RequestStranded(m) /\ ~RequestRefused(m)
        BY <3>1 DEF RequestStranded, RequestRefused
      <3>3. For(m, "write") => file_CR.ok
        BY <1>1, <3>1, OnWritePort DEF Acked
      <3>4. ~WrqFail(m)
        BY <3>1, <3>3 DEF WrqFail
      <3>5. Acked(m.client)'
        <4>1. CASE WriteStart(m)
          BY <1>1, <2>5, <3>1, <4>1, AckedStart
        <4>2. CASE WrqStore(m) \/ WrqEmpty(m) \/ WrqOther(m)
          <5>1. For(m, "write")
            BY <4>2 DEF WrqStore, WrqEmpty, WrqOther, WrqAnswer
          <5>2. PICK b \in 0 .. NBlocks, w \in Blocks : Counted(m, b, w)
            BY <1>1, <2>5, <3>1, <4>2, BlockCounted, EmptyCounted, OtherCounted
          <5>3. QED
            BY <1>1, <2>5, <3>1, <5>1, <5>2, AckedCounted
        <4>3. QED
          BY <2>5, <3>2, <3>4, <4>1, <4>2
      <3>6. Acked(m.client)' = Acked(u)'
        BY <2>5
      <3>7. QED
        BY <3>5, <3>6
    <2>6. QED
      BY <1>1, <2>1, <2>2, <2>3, <2>4, <2>5, OwnOrApart
  <1>5. QED
    BY <1>1, <1>2, <1>4 DEF DoneInv

LEMMA DoneAlways == ASSUME OneRequest PROVE Spec => []DoneInv
  <1>1. Init => DoneInv
    BY TypeInit, RouteInit, UploadInit, DoneInit DEF DoneInv, UploadInv, RouteInv
  <1>2. DoneInv /\ [Next]_vars => DoneInv'
    BY DoneNext
  <1>3. QED
    BY <1>1, <1>2, PTL DEF Spec

\* No last acknowledgement leaves ahead of a close that is yet to keep the file: a client
\* that is done has its file in the directory or in the hands of the callback, unless a
\* failure or another transfer got in its way.
THEOREM DoneIsStored == ASSUME OneRequest PROVE Spec => []UploadDoneMeansStored
  <1>1. DoneInv => UploadDoneMeansStored
    BY DEF DoneInv, Acked, Complete, UploadDoneMeansStored, Up, Excused
  <1>2. QED
    BY <1>1, DoneAlways, PTL


-----------------------------------------------------------------------------
(* One upload and nothing beside it, with a card and a heap that work.     *)

Alone ==
  /\ OneRequest /\ Harmless /\ MayFail = FALSE
  /\ Readers = {} /\ \A c, d \in Clients : c = d

\* Nothing gets in the way of the upload, and before it begins its file is empty.
Calm ==
  /\ healthy = TRUE /\ harmed = {} /\ shared = {}
  /\ \A u \in Up : client[u].phase = "idle" \/ Request(u) \in net => disk[u] = <<>>

CalmInv == DoneInv /\ Calm

LEMMA CalmInit == Init => Calm
  BY DEF Init, ServerInit, Calm, Up

LEMMA CalmFacts ==
  ASSUME Alone, CalmInv, NEW u \in Up
  PROVE  /\ UploadInv /\ RouteInv /\ CountKept /\ FileKept(u) /\ Asks(u) /\ Acked(u)
         /\ u \in Clients /\ \A c \in Clients : c = u
  BY DEF Alone, CalmInv, Calm, DoneInv, UploadInv, Excused, Up

\* The only uploader has one pcb, so that it shares no file with itself.
LEMMA NoneShares ==
  ASSUME Alone, CalmInv, RouteInv', NEW m \in net, ServerStep(m)
  PROVE  Sharing' = {}
  <1> SUFFICES ASSUME NEW o \in Ports, NEW q \in Ports, o # q,
                      pcb'[o].use \in {"read", "write"}, pcb'[q].use = pcb'[o].use
               PROVE  FALSE
    BY DEF Sharing
  <1>1. pcb'[o].use = "write" /\ pcb'[q].use = "write"
    BY DEF RouteInv, PeersKept, Alone
  <1>2. PICK u \in Up : u = m.client
    BY RouteFacts DEF CalmInv, DoneInv, UploadInv, Alone, Up
  <1>3. /\ RouteInv /\ FileKept(u) /\ Asks(u) /\ u \in Clients /\ (\A c \in Clients : c = u) /\ Handle(m)
    BY <1>2, CalmFacts DEF ServerStep
  <1>4. \A p \in Ports : peer[p] = u
    BY <1>3 DEF RouteInv, TypeOK
  <1>5. CASE WriteStart(m)
    <2>1. \A p \in Ports : ~Holds(p, u)
      <3>1. m = Request(u)
        BY <1>2, <1>3, <1>5, RouteFacts DEF WriteStart, IsRequest, Role
      <3>2. QED
        BY <1>3, <3>1 DEF Asks
    <2>2. \A p \in Ports \ {nextPort} : pcb'[p] = pcb[p]
      BY <1>5 DEF WriteStart, CalmInv, DoneInv, UploadInv, RouteInv, TypeOK
    <2>3. \A p \in Ports \ {nextPort} : pcb'[p].use # "write"
      BY <1>4, <2>1, <2>2 DEF Holds
    <2>4. QED
      BY <1>1, <2>3
  <1>6. CASE ~WriteStart(m)
    <2>1. pcb[o].use = "write" /\ pcb[q].use = "write"
      BY <1>1, <1>3, <1>6, WritersStay
    <2>2. QED
      BY <1>3, <1>4, <2>1 DEF FileKept, Sole, Holds
  <1>7. QED
    BY <1>5, <1>6

\* The steps of the only uploader: none fails.
LEMMA CalmCases ==
  ASSUME Alone, CalmInv, RouteInv', NEW u \in Up, u \notin shared', [Next]_vars
  PROVE  \/ Apart(u) \/ Moves(u)
         \/ \E p \in Ports : CleanupStep(p) /\ peer[p] = u
         \/ \E m \in net : /\ ServerStep(m) /\ m.client = u
                           /\ \/ WriteStart(m)
                              \/ For(m, "write") /\ \E b \in 0 .. NBlocks, w \in Blocks : Counted(m, b, w)
  <1>0. RouteInv /\ CountKept /\ FileKept(u) /\ Acked(u) /\ healthy
    BY CalmFacts DEF CalmInv, Calm
  <1>1. ASSUME NEW m \in net, ServerStep(m), m.client = u,
               \/ RequestStranded(m) \/ RequestRefused(m)
               \/ WrqStore(m) \/ WrqFail(m) \/ WrqEmpty(m) \/ WrqOther(m)
        PROVE  For(m, "write") /\ \E b \in 0 .. NBlocks, w \in Blocks : Counted(m, b, w)
    <2>1. m.client \in Up /\ FileKept(m.client) /\ Acked(m.client)
      BY <1>0, <1>1
    <2>2. ~RequestStranded(m) /\ ~RequestRefused(m)
      BY <1>0 DEF RequestStranded, RequestRefused
    <2>3. For(m, "write")
      BY <1>1, <2>2 DEF WrqStore, WrqFail, WrqEmpty, WrqOther, WrqAnswer
    <2>4. file_CR.ok
      BY <1>0, <2>1, <2>3, OnWritePort DEF Acked
    <2>5. ~WrqFail(m)
      BY <1>0, <2>4 DEF WrqFail
    <2>6. QED
      BY <1>0, <1>1, <2>1, <2>2, <2>3, <2>5, BlockCounted, EmptyCounted, OtherCounted
  <1>2. QED
    BY <1>0, <1>1, OwnOrApart

LEMMA CalmNext ==
  ASSUME Alone, CalmInv, DoneInv', [Next]_vars
  PROVE  Calm'
  <1>0. /\ RouteInv /\ RouteInv' /\ healthy = TRUE /\ harmed = {} /\ shared = {} /\ ~HealthChanges
        /\ \A c, d \in Clients : c = d
    BY DEF CalmInv, Calm, DoneInv, UploadInv, Alone, HealthChanges
  <1>1. healthy' = TRUE /\ harmed' = {} /\ shared' = {}
    <2>1. ASSUME NEW m \in net, ServerStep(m) PROVE healthy' = TRUE /\ harmed' = {} /\ shared' = {}
      <3>1. CutOff(m.client) = {}
        BY <1>0, RouteFacts DEF CutOff
      <3>2. QED
        BY <1>0, <2>1, <3>1, NoneShares DEF ServerStep, Harm
    <2>2. ASSUME NEW p \in Ports, CleanupStep(p) PROVE healthy' = TRUE /\ harmed' = {} /\ shared' = {}
      <3>1. CutOff(peer[p]) = {}
        BY <1>0 DEF CutOff, RouteInv, TypeOK
      <3>2. QED
        BY <1>0, <2>2, <3>1 DEF CleanupStep, Harm
    <2>3. CASE \/ \E m \in net : ClientStep(m) \/ Lose(m)
               \/ \E c \in Clients : Start(c) \/ Timeout(c) \/ Abort(c)
      BY <1>0, <2>3, ClientsLeave DEF history
    <2>4. UNCHANGED vars => UNCHANGED <<healthy, history>>
      BY DEF vars
    <2>5. QED
      BY <1>0, <2>1, <2>2, <2>3, <2>4 DEF Next, history
  <1>2. ASSUME NEW u \in Up, client'[u].phase = "idle" \/ Request(u)' \in net'
        PROVE  disk'[u] = <<>>
    <2>0. /\ FileKept(u) /\ Asks(u) /\ Asks(u)' /\ Request(u)' = Request(u) /\ CountKept
          /\ u \in Clients /\ client \in [Clients -> States] /\ client[u] \in States
          /\ Request(u).op = "WRQ" /\ Request(u).to = "server"
      BY CalmFacts, UploaderTyped DEF DoneInv, Request
    <2>1. ASSUME client'[u] = client[u], \A n \in net' : n \in net \/ n.to = "client",
                 disk'[u] \in {disk[u], <<>>}
          PROVE  disk'[u] = <<>>
      BY <1>2, <2>0, <2>1 DEF CalmInv, Calm
    <2>2. CASE Apart(u)
      <3>1. client'[u] = client[u] /\ disk'[u] = disk[u]
        BY <2>2 DEF Apart
      <3>2. Request(u) \in net' => Request(u) \in net
        BY <2>2, UploaderTyped, <1>0 DEF Apart
      <3>3. QED
        BY <1>2, <2>0, <3>1, <3>2 DEF CalmInv, Calm
    <2>3. CASE Moves(u)
      <3>1. client[u].phase = "idle"
        <4>1. client'[u].phase \in {"idle", "req"}
          BY <1>2, <2>0 DEF Asks
        <4>2. ~Timeout(u) /\ ~Abort(u)
          BY <2>0, <4>1 DEF Timeout, Abort, Pending, Alone, OneRequest, States
        <4>3. ASSUME NEW m \in net, m.client = u PROVE ~ClientData(m) /\ ~ClientAck(m) /\ ~ClientError(m)
          <5>1. ~ClientData(m)
            BY <1>0, <2>0, <4>3, RouteFacts DEF ClientData, ForClient, Role, Up
          <5>2. ~ClientAck(m)
            BY <1>0, <2>0, <4>1, <4>3, AckNoted
          <5>3. ~ClientError(m)
            BY <2>0, <4>1, <4>3 DEF ClientError, States
          <5>4. QED
            BY <5>1, <5>2, <5>3
        <4>4. QED
          BY <2>3, <4>2, <4>3 DEF Moves, Start
      <3>2. disk' = disk
        BY <1>0, <2>0, <2>3, UploaderSends DEF serverVars, Alone, OneRequest
      <3>3. QED
        BY <3>1, <3>2 DEF CalmInv, Calm
    <2>4. ASSUME NEW p \in Ports, CleanupStep(p), peer[p] = u PROVE disk'[u] = <<>>
      <3>1. Holds(p, u) /\ net' = net /\ client' = client
        BY <2>4 DEF Holds, CleanupStep, CleanupWr
      <3>2. QED
        BY <1>2, <2>0, <3>1 DEF Asks
    <2>5. ASSUME NEW m \in net, ServerStep(m), m.client = u,
                 WriteStart(m) \/ \E b, w : Counted(m, b, w)
          PROVE  disk'[u] = <<>>
      <3>1. client' = client /\ \A n \in net' : n \in net \/ n.to = "client"
        BY <1>0, <2>5, Routed DEF ServerStep, OnPort, OnNewPort, Answers
      <3>2. disk'[u] \in {disk[u], <<>>}
        <4>1. CASE WriteStart(m)
          BY <1>0, <2>0, <2>5, <4>1 DEF WriteStart, RouteInv, TypeOK
        <4>2. CASE ~WriteStart(m)
          BY <2>5, <4>2 DEF Counted
        <4>3. QED
          BY <4>1, <4>2
      <3>3. QED
        BY <2>1, <3>1, <3>2
    <2>6. QED
      BY <1>0, <1>1, <2>2, <2>3, <2>4, <2>5, CalmCases
  <1>3. QED
    BY <1>1, <1>2 DEF Calm

LEMMA CalmAlways == ASSUME Alone PROVE Spec => []CalmInv
  <1>1. OneRequest
    BY DEF Alone
  <1>2. CalmInv /\ DoneInv' /\ [Next]_vars => CalmInv'
    BY CalmNext DEF CalmInv
  <1>3. Init /\ DoneInv => CalmInv
    BY CalmInit DEF CalmInv
  <1>4. QED
    BY <1>1, <1>2, <1>3, DoneAlways, PTL DEF Spec

\* No acknowledgement is under way for a block the server has not written, however often
\* packets are lost and sent again.
THEOREM AckedIsStored == ASSUME Alone PROVE Spec => []AckImpliesStored
  <1>1. CalmInv => AckImpliesStored
    <2> SUFFICES ASSUME CalmInv, NEW m \in net, m.to = "client", m.op = "ACK"
                 PROVE  Len(Stored(m.client)) >= IF m.block < Len(Content(m.client))
                                                   THEN m.block ELSE Len(Content(m.client))
      BY DEF AckImpliesStored
    <2>1. PICK u \in Up : u = m.client
      BY RouteFacts DEF CalmInv, DoneInv, UploadInv, Alone, Up
    <2>2. Covers(Stored(u), u, m.block)
      BY <2>1, CalmFacts DEF Acked
    <2>3. QED
      BY <2>1, <2>2 DEF Covers
  <1>2. QED
    BY <1>1, CalmAlways, PTL

-----------------------------------------------------------------------------
(* The upload implements FileCopy.                                         *)

\* The file is not empty: an upload of an empty file is complete before it began.
LongEnough == NBlocks > 1 \/ LastLen = "part"

LEMMA SomeContent == ASSUME LongEnough, NEW c PROVE Len(Content(c)) \in Nat \ {0} /\ <<>> # Content(c)
  <1>1. Len(Content(c)) = IF LastLen = "empty" THEN NBlocks - 1 ELSE NBlocks
    BY ContentFacts
  <1>2. Len(Content(c)) \in Nat \ {0}
    <2>1. CASE LastLen = "empty"
      BY <1>1, <2>1, TftpAssumption DEF LongEnough
    <2>2. CASE LastLen # "empty"
      BY <1>1, <2>2, TftpAssumption
    <2>3. QED
      BY <2>1, <2>2
  <1>3. QED
    BY <1>2

CopyStep(u) == Copy(u)!Next \/ UNCHANGED Copy(u)!cvars

LEMMA CopyStutters ==
  ASSUME NEW u, Len(Stored(u))' = Len(Stored(u)), client'[u].block = client[u].block,
         (disk[u] = Content(u))' = (disk[u] = Content(u))
  PROVE  CopyStep(u)
  <1>1. Len(Content(u))' = Len(Content(u))
    BY DEF Content
  <1>2. QED
    BY <1>1 DEF CopyStep, Copy!cvars

\* Storing a block is Copy; an acknowledgement repeated leaves the copy as it is.
LEMMA CopyOfPacket ==
  ASSUME Alone, LongEnough, CalmInv, NEW u \in Up, NEW m \in net, ServerStep(m), m.client = u,
         For(m, "write"), NEW b \in 0 .. NBlocks, NEW w \in Blocks, Counted(m, b, w)
  PROVE  CopyStep(u)
  <1>1. m.client \in Up /\ FileKept(m.client) /\ Acked(m.client) /\ RouteInv /\ client' = client
    BY CalmFacts DEF ServerStep
  <1>2. /\ Holds(m.port, u) /\ m.port \in Ports /\ file_CR.owner = u /\ file_CR.written \in Blocks
        /\ (file_CR.ok => disk[u] = <<>>)
    BY <1>1, OnWritePort
  <1>3. file_CR.ok /\ Stored(u) = file_CR.written
    BY <1>1, <1>2 DEF Acked, Stored
  <1>4. /\ FileKept(u)' /\ Mine(u)' /\ file_CR'.written = w /\ disk' = disk /\ Stored(u)' = w
        /\ Len(w) \in {Len(Stored(u)), Len(Stored(u)) + 1}
    <2>1. FileKept(m.client)' = FileKept(u)' /\ Stored(m.client)' = Stored(u)'
      OBVIOUS
    <2>2. QED
      BY <1>3, <2>1 DEF Counted, Mine
  <1>5. Len(w) <= Len(Content(u))
    <2>1. Prefix(file_CR'.written, Content(u)')
      BY <1>4 DEF FileKept, Prefix
    <2>2. QED
      BY <1>4, <2>1 DEF Prefix, Content
  <1>6. (disk[u] = Content(u))' = (disk[u] = Content(u)) /\ Len(Content(u))' = Len(Content(u))
    BY <1>4 DEF Content
  <1>7. Len(Stored(u)) \in Nat /\ Len(w) \in Nat /\ Len(Content(u)) \in Nat
    BY <1>2, <1>3, SomeContent DEF Blocks
  <1>8. CASE Len(w) = Len(Stored(u))
    BY <1>1, <1>4, <1>6, <1>8, CopyStutters
  <1>9. CASE Len(w) = Len(Stored(u)) + 1
    <2>1. Len(Stored(u)) < Len(Content(u)) /\ Len(Stored(u))' = Len(Stored(u)) + 1
      BY <1>4, <1>5, <1>7, <1>9
    <2>2. Copy(u)!Copy
      BY <1>1, <1>6, <2>1 DEF Copy!Copy
    <2>3. QED
      BY <2>2 DEF CopyStep, Copy!Next
  <1>10. QED
    BY <1>4, <1>8, <1>9

\* The clean-up behind the last block is Finish, if nothing was missing.
LEMMA CopyOfCleanup ==
  ASSUME Alone, LongEnough, CalmInv, NEW u \in Up, NEW p \in Ports, CleanupStep(p), peer[p] = u
  PROVE  CopyStep(u)
  <1>1. RouteInv /\ FileKept(u) /\ client' = client /\ healthy
    BY CalmFacts DEF CleanupStep, CalmInv, Calm
  <1>2. /\ ~Mine(u)' /\ (disk'[u] = disk[u] \/ (Mine(u) /\ disk'[u] = file_CR.written))
        /\ (Mine(u) => disk'[u] = file_CR.written)
    BY <1>1, CleanupKeeps
  <1>3. Stored(u)' = Stored(u)
    BY <1>2 DEF Stored, Mine
  <1>4. Content(u)' = Content(u) /\ <<>> # Content(u)
    BY SomeContent DEF Content
  <1>5. CASE disk'[u] = disk[u]
    BY <1>1, <1>3, <1>4, <1>5, CopyStutters
  <1>6. CASE Mine(u) /\ disk'[u] = file_CR.written
    <2>1. disk[u] = <<>> /\ Stored(u) = file_CR.written
      BY <1>1, <1>6 DEF FileKept, Stored, Mine
    <2>2. CASE file_CR.written = Content(u)
      <3>1. Copy(u)!Finish
        BY <1>1, <1>3, <1>4, <1>6, <2>1, <2>2 DEF Copy!Finish
      <3>2. QED
        BY <3>1 DEF CopyStep, Copy!Next
    <2>3. CASE file_CR.written # Content(u)
      <3>1. (disk[u] = Content(u))' = (disk[u] = Content(u))
        BY <1>4, <1>6, <2>1, <2>3
      <3>2. QED
        BY <1>1, <1>3, <3>1, CopyStutters
    <2>4. QED
      BY <2>2, <2>3
  <1>7. QED
    BY <1>2, <1>5, <1>6

\* Before the request is taken there is nothing that it could empty.
LEMMA CopyOfStart ==
  ASSUME Alone, CalmInv, NEW u \in Up, NEW m \in net, ServerStep(m), m.client = u, WriteStart(m)
  PROVE  CopyStep(u)
  <1>1. /\ RouteInv /\ FileKept(u) /\ Asks(u) /\ u \in Clients /\ client' = client
        /\ disk \in [Clients -> Blocks]
    BY CalmFacts, ServerIsTyped DEF ServerStep, RouteInv, ServerTyped
  <1>2. m = Request(u)
    BY <1>1, RouteFacts DEF WriteStart, IsRequest, Role
  <1>3. disk[u] = <<>> /\ \A p \in Ports : ~Holds(p, u)
    BY <1>1, <1>2 DEF Asks, CalmInv, Calm
  <1>4. Stored(u) = <<>>
    BY <1>1, <1>3 DEF FileKept, Mine, Stored
  <1>5. disk'[u] = <<>> /\ file_CR'.written = <<>>
    BY <1>1 DEF WriteStart
  <1>6. Stored(u)' = <<>>
    BY <1>5 DEF Stored
  <1>7. (disk[u] = Content(u))' = (disk[u] = Content(u))
    BY <1>3, <1>5 DEF Content
  <1>8. QED
    BY <1>1, <1>4, <1>6, <1>7, CopyStutters

\* The awaited acknowledgement is Tell; nothing else that the client does shows.
LEMMA CopyOfClient ==
  ASSUME Alone, CalmInv, NEW u \in Up, Moves(u)
  PROVE  CopyStep(u)
  <1>0. /\ RouteInv /\ CountKept /\ FileKept(u) /\ Acked(u) /\ u \notin Readers
        /\ client \in [Clients -> States] /\ client[u] \in States /\ client[u].block \in Nat
        /\ UNCHANGED serverVars
    <2>1. RouteInv /\ CountKept /\ FileKept(u) /\ Acked(u)
      BY CalmFacts
    <2>2. UNCHANGED serverVars
      BY <2>1, UploaderSends DEF Alone, OneRequest
    <2>3. QED
      BY <2>1, <2>2, UploaderTyped
  <1>1. Stored(u)' = Stored(u) /\ (disk[u] = Content(u))' = (disk[u] = Content(u))
    BY <1>0 DEF serverVars, Stored, Content
  <1>2. CASE client'[u].block = client[u].block
    BY <1>1, <1>2, CopyStutters
  <1>3. CASE client'[u].block # client[u].block
    <2>1. PICK m \in net : m.client = u /\ ClientAck(m)
      <3>1. ~Start(u) /\ ~Timeout(u) /\ ~Abort(u)
        BY <1>0, <1>3 DEF Start, Timeout, Abort, States
      <3>2. ASSUME NEW m \in net, m.client = u PROVE ~ClientError(m) /\ ~ClientData(m)
        <4>1. ~ClientError(m)
          BY <1>0, <1>3, <3>2 DEF ClientError, States
        <4>2. ~ClientData(m)
          BY <1>0, <3>2, RouteFacts DEF ClientData, ForClient, Role
        <4>3. QED
          BY <4>1, <4>2
      <3>3. QED
        BY <3>1, <3>2 DEF Moves
    <2>2. PICK b \in Nat :
            /\ m.block = b % BlockMod /\ b <= NBlocks /\ client'[u].block = b
            /\ b = client[u].block + 1 \/ (b = 0 /\ client[u].block = 0)
      BY <1>0, <2>1, AckNoted
    <2>3. b = client[u].block + 1
      BY <1>3, <2>2
    <2>4. m.block = b /\ m.to = "client" /\ m.op = "ACK"
      BY <2>1, <2>2, BlockNumber, TftpAssumption DEF Alone, OneRequest, Numbered, ClientAck, ForClient
    <2>5. Covers(Stored(u), u, b)
      BY <1>0, <2>1, <2>4 DEF Acked
    <2>6. PICK n \in Nat : n = Len(Content(u)) /\ Len(Content(u))' = n
      BY ContentFacts DEF Content
    <2>7. PICK k \in Nat : k = Len(Stored(u))
      <3>1. Stored(u) \in Blocks
        BY <1>0, UploaderTyped, StoredTyped
      <3>2. QED
        BY <3>1 DEF Blocks
    <2>8. k >= IF b < n THEN b ELSE n
      BY <2>5, <2>6, <2>7 DEF Covers
    <2>9. CASE client[u].block < n
      <3>1. (IF b < n THEN b ELSE n) \in client[u].block + 1 .. k
        BY <1>0, <2>3, <2>8, <2>9
      <3>2. Copy(u)!Tell
        BY <1>1, <2>2, <2>6, <2>7, <2>9, <3>1 DEF Copy!Tell
      <3>3. QED
        BY <3>2 DEF CopyStep, Copy!Next
    <2>10. CASE ~(client[u].block < n)
      <3>1. ~(b < n)
        BY <1>0, <2>3, <2>10
      <3>2. UNCHANGED Copy(u)!cvars
        BY <1>1, <2>2, <2>6, <2>10, <3>1 DEF Copy!cvars
      <3>3. QED
        BY <3>2 DEF CopyStep
    <2>11. QED
      BY <2>9, <2>10
  <1>4. QED
    BY <1>2, <1>3

LEMMA CopyOfOthers ==
  ASSUME NEW u \in Up, Apart(u), u \notin harmed'
  PROVE  CopyStep(u)
  <1>1. disk'[u] = disk[u] /\ client'[u] = client[u] /\ (Mine(u)' <=> Mine(u))
        /\ (Mine(u) => file_CR' = file_CR)
    BY DEF Apart
  <1>2. Stored(u)' = Stored(u)
    BY <1>1 DEF Stored, Mine
  <1>3. (disk[u] = Content(u))' = (disk[u] = Content(u))
    BY <1>1 DEF Content
  <1>4. QED
    BY <1>1, <1>2, <1>3, CopyStutters

\* An upload implements FileCopy: the file grows block by block, the client is told of no
\* more than is stored, and what was copied is kept by a step behind the last of them.
THEOREM UploadCopies == ASSUME Alone, LongEnough PROVE Spec => UploadIsCopy
  <1>1. ASSUME Init PROVE \A c \in Clients \ Readers : Copy(c)!Init
    <2> SUFFICES ASSUME NEW c \in Clients PROVE Copy(c)!Init
      OBVIOUS
    <2>1. Stored(c) = <<>> /\ disk[c] = <<>> /\ client[c].block = 0
      BY <1>1 DEF Init, ServerInit, Stored
    <2>2. Len(Content(c)) \in Nat \ {0} /\ <<>> # Content(c)
      BY SomeContent
    <2>3. QED
      BY <2>1, <2>2 DEF Copy!Init
  <1>2. ASSUME CalmInv, CalmInv', [Next]_vars
        PROVE  \A c \in Clients \ Readers : Copy(c)!Next \/ UNCHANGED Copy(c)!cvars
    <2> SUFFICES ASSUME NEW u \in Up PROVE CopyStep(u)
      BY DEF Up, CopyStep
    <2>1. u \notin shared' /\ u \notin harmed' /\ RouteInv'
      BY <1>2 DEF CalmInv, Calm, DoneInv, UploadInv
    <2>2. QED
      BY <1>2, <2>1, CalmCases, CopyOfOthers, CopyOfClient, CopyOfCleanup, CopyOfStart, CopyOfPacket
  <1>3. Spec => [][\A c \in Clients \ Readers : Copy(c)!Next \/ UNCHANGED Copy(c)!cvars]_vars
    BY <1>2, CalmAlways, PTL DEF Spec
  <1>4. QED
    BY <1>1, <1>3 DEF Spec, UploadIsCopy

-----------------------------------------------------------------------------
(* Downloads that have the file to themselves, beside any number of        *)
(* others.  Requests and acknowledgements are not repeated: the server     *)
(* reads on at every packet, also at one it has seen.                      *)

AskedOnce ==
  /\ NBlocks < BlockMod
  /\ "RRQ" \notin Keep \cup Repeat
  /\ "ACK" \notin Keep \cup Repeat

Active(c) == client[c].phase \in {"req", "run"}

\* The pcb at port p reads for client c.
Reads(p, c) == p \in Ports /\ pcb[p].use = "read" /\ peer[p] = c

\* The open file is that of client c, and i blocks of it are read; it is open unless a
\* failure or another transfer got in the way.
Opened(c, i) ==
  /\ file_SD.ok => file_SD.owner = c /\ file_SD.read = i
  /\ c \notin harmed => file_SD.ok

\* The block that client c waits for is the last one its transfer sent, and the next
\* move is the client's.
Sent(c) ==
  \A m \in net : Active(c) /\ m.client = c /\ m.op = "DATA" =>
    /\ m.block <= client[c].block + 1
    /\ m.block = client[c].block + 1 =>
         /\ m.port \in Ports /\ pcb[m.port].use = "read"
         /\ pcb[m.port].block = m.block /\ pcb[m.port].len = m.len
         /\ client[c].phase = "run" => m.port = client[c].port
         /\ m.len # "empty" \/ c \notin harmed => m.len = LenOf(m.block)
         /\ m.len # "empty" => m.data = <<c, m.block>>
         /\ m.len = "full" => Opened(c, m.block)
         /\ \A n \in net : n.client = c => n.to = "client"

\* What client c acknowledges is the last block its transfer sent, and more follows if
\* the client thinks so.
AckOut(c) ==
  \A m \in net : m.client = c /\ m.op = "ACK" =>
    /\ m = Datagram("server", "ACK", c, client[c].port, client[c].block, "empty", 0)
    /\ m.block = client[c].block /\ client[c].phase \in {"run", "done"}
    /\ m.port \in Ports /\ pcb[m.port].use = "read" /\ pcb[m.port].block = m.block
    /\ pcb[m.port].len = "full" <=> client[c].phase = "run"
    /\ client[c].phase = "run" => Opened(c, m.block)

\* What client c has got.
Got(c) ==
  /\ client[c].phase \in {"idle", "req", "run"} =>
       Len(client[c].got) = client[c].block /\ client[c].block < NBlocks
  /\ client[c].phase \in {"idle", "req"} => client[c].block = 0
  /\ Prefix(client[c].got, Content(c))
  /\ client[c].phase = "done" /\ c \notin harmed => client[c].got = Content(c)

\* The request comes first, and an error is the answer to it.
Opening(c) ==
  /\ client[c].phase = "idle" => \A m \in net : m.client # c
  /\ Request(c) \in net =>
       client[c].phase = "req" /\ \A m \in net : m.client = c => m = Request(c)
  /\ \A m \in net : m.client = c /\ m.op = "ERROR" =>
       client[c].phase \in {"req", "failed"} /\ \A n \in net : n.client = c => n.op = "ERROR"

DownloadKept(c) == Sent(c) /\ AckOut(c) /\ Got(c) /\ Opening(c)
Reading(c) == RouteInv /\ c \in Readers /\ DownloadKept(c)

DownloadInv == RouteInv /\ \A c \in Readers : c \in shared \/ DownloadKept(c)

LEMMA ReaderFacts ==
  ASSUME RouteInv, NEW c \in Readers
  PROVE  /\ c \in Clients /\ c \notin Up /\ client \in [Clients -> States] /\ client[c] \in States
         /\ client[c].block \in Nat /\ client[c].got \in Blocks /\ client[c].port \in 0 .. MaxPort
         /\ Request(c).op = "RRQ" /\ Request(c).to = "server" /\ Request(c).client = c
         /\ pcb \in [Ports -> Pcbs] /\ file_SD \in ReadFil
  <1>1. c \in Clients /\ c \notin Up
    BY TransferAssumption DEF Up
  <1>2. Request(c).op = "RRQ" /\ Request(c).to = "server" /\ Request(c).client = c
    BY DEF Request, Datagram
  <1>3. pcb \in [Ports -> Pcbs] /\ file_SD \in ReadFil
    BY DEF RouteInv, TypeOK, Pcbs, ReadFil
  <1>4. QED
    BY <1>1, <1>2, <1>3, ClientIsTyped DEF RouteInv

LEMMA DownloadInit == Init => \A c \in Readers : DownloadKept(c)
  <1> SUFFICES ASSUME Init PROVE \A c \in Readers : DownloadKept(c)
    OBVIOUS
  <1>1. /\ net = {}
        /\ client = [c \in Clients |-> [phase |-> "idle", port |-> 0, block |-> 0, got |-> <<>>]]
    BY DEF Init
  <1>2. ASSUME NEW c \in Readers
        PROVE  client[c].phase = "idle" /\ client[c].block = 0 /\ client[c].got = <<>>
    BY <1>1, TransferAssumption
  <1>3. ASSUME NEW c \in Readers PROVE Got(c)
    BY <1>2, PrefixEmpty, TftpAssumption DEF Got
  <1>4. QED
    BY <1>1, <1>3 DEF DownloadKept, Sent, AckOut, Opening

\* A step that has nothing to do with client c, except that it may take its file away.
Beside(c) ==
  /\ client'[c] = client[c]
  /\ \A n \in net' : n.client = c => n \in net
  /\ \A p \in Ports : Uses(c, p) => pcb'[p] = pcb[p]
  /\ harmed \subseteq harmed'
  /\ \/ file_SD' = file_SD
     \/ \A p \in Ports : ~Reads(p, c)
     \/ ~file_SD'.ok /\ (file_SD.ok /\ file_SD.owner = c => c \in harmed')

LEMMA BesideKeeps ==
  ASSUME RouteInv, NEW c \in Readers, DownloadKept(c), Beside(c)
  PROVE  DownloadKept(c)'
  <1>1. ASSUME NEW m \in net, m.client = c, m.port \in Ports, pcb[m.port].use = "read",
               NEW i, Opened(c, i)
        PROVE  Opened(c, i)'
    <2>1. Reads(m.port, c)
      BY <1>1, TransferAssumption DEF Reads, Uses, RouteInv, PortsKept
    <2>2. QED
      BY <1>1, <2>1 DEF Beside, Opened
  <1>2. Active(c)' = Active(c)
    BY DEF Beside, Active
  <1>3. ASSUME NEW m \in net', m.client = c
        PROVE  m \in net /\ (m.port \in Ports => pcb'[m.port] = pcb[m.port])
    BY <1>3 DEF Beside, Uses
  <1>4. Sent(c)'
    <2> SUFFICES ASSUME NEW m \in net', Active(c), m.client = c, m.op = "DATA"
        PROVE  /\ m.block <= client'[c].block + 1
               /\ m.block = client'[c].block + 1 =>
                    /\ m.port \in Ports /\ pcb'[m.port].use = "read"
                    /\ pcb'[m.port].block = m.block /\ pcb'[m.port].len = m.len
                    /\ client'[c].phase = "run" => m.port = client'[c].port
                    /\ m.len # "empty" \/ c \notin harmed' => m.len = LenOf(m.block)
                    /\ m.len # "empty" => m.data = <<c, m.block>>
                    /\ m.len = "full" => Opened(c, m.block)'
                    /\ \A n \in net' : n.client = c => n.to = "client"
      BY <1>2 DEF Sent
    <2>1. m \in net /\ (m.port \in Ports => pcb'[m.port] = pcb[m.port])
      BY <1>3
    <2>2. client'[c] = client[c] /\ harmed \subseteq harmed' /\ \A n \in net' : n.client = c => n \in net
      BY DEF Beside
    <2>3. /\ m.block <= client[c].block + 1
          /\ m.block = client[c].block + 1 =>
               /\ m.port \in Ports /\ pcb[m.port].use = "read"
               /\ pcb[m.port].block = m.block /\ pcb[m.port].len = m.len
               /\ client[c].phase = "run" => m.port = client[c].port
               /\ m.len # "empty" \/ c \notin harmed => m.len = LenOf(m.block)
               /\ m.len # "empty" => m.data = <<c, m.block>>
               /\ m.len = "full" => Opened(c, m.block)
               /\ \A n \in net : n.client = c => n.to = "client"
      BY <2>1 DEF DownloadKept, Sent
    <2>4. m.port \in Ports /\ pcb[m.port].use = "read" /\ Opened(c, m.block) => Opened(c, m.block)'
      BY <1>1, <2>1
    <2>5. QED
      BY <2>1, <2>2, <2>3, <2>4
  <1>5. AckOut(c)'
    <2> SUFFICES ASSUME NEW m \in net', m.client = c, m.op = "ACK"
        PROVE  /\ m = Datagram("server", "ACK", c, client'[c].port, client'[c].block, "empty", 0)
               /\ m.block = client'[c].block /\ client'[c].phase \in {"run", "done"}
               /\ m.port \in Ports /\ pcb'[m.port].use = "read" /\ pcb'[m.port].block = m.block
               /\ pcb'[m.port].len = "full" <=> client'[c].phase = "run"
               /\ client'[c].phase = "run" => Opened(c, m.block)'
      BY DEF AckOut, Datagram
    <2>1. m \in net /\ (m.port \in Ports => pcb'[m.port] = pcb[m.port]) /\ client'[c] = client[c]
      BY <1>3 DEF Beside
    <2>2. /\ m = Datagram("server", "ACK", c, client[c].port, client[c].block, "empty", 0)
          /\ m.block = client[c].block /\ client[c].phase \in {"run", "done"}
          /\ m.port \in Ports /\ pcb[m.port].use = "read" /\ pcb[m.port].block = m.block
          /\ pcb[m.port].len = "full" <=> client[c].phase = "run"
          /\ client[c].phase = "run" => Opened(c, m.block)
      BY <2>1 DEF DownloadKept, AckOut
    <2>3. client[c].phase = "run" => Opened(c, m.block)'
      BY <1>1, <2>1, <2>2
    <2>4. QED
      BY <2>1, <2>2, <2>3
  <1>6. Got(c)'
    <2>1. client'[c] = client[c] /\ harmed \subseteq harmed' /\ Content(c)' = Content(c)
      BY DEF Beside, Content
    <2>2. QED
      BY <2>1 DEF DownloadKept, Got, Prefix
  <1>7. Opening(c)'
    <2>1. Request(c)' = Request(c) /\ Request(c).client = c
      BY DEF Request, Datagram
    <2>2. QED
      BY <2>1 DEF DownloadKept, Opening, Beside
  <1>8. QED
    BY <1>4, <1>5, <1>6, <1>7 DEF DownloadKept

-----------------------------------------------------------------------------
(* Steps that client c has no part in.                                     *)

\* A packet on a read transfer's port is its client's acknowledgement.
LEMMA OnReadPort ==
  ASSUME NEW m \in net, Reading(m.client), For(m, "read")
  PROVE  /\ m.client \in Readers /\ m.to = "server" /\ m.op = "ACK" /\ m.port \in Ports
         /\ m = Datagram("server", "ACK", m.client, client[m.client].port, client[m.client].block, "empty", 0)
         /\ m.block = client[m.client].block /\ client[m.client].phase \in {"run", "done"}
         /\ pcb[m.port].use = "read" /\ pcb[m.port].block = m.block
         /\ pcb[m.port].len = "full" <=> client[m.client].phase = "run"
         /\ client[m.client].phase = "run" => Opened(m.client, m.block)
         /\ CorrectAck(m) /\ BlockAfter(m) = m.block + 1
  <1>1. m.to = "server" /\ m.port \in Ports /\ pcb[m.port].use = "read" /\ Role(m) /\ m.client \in Readers
    BY RouteFacts DEF Reading, RouteInv, PortsKept, For
  <1>2. m.op # "RRQ"
    <2>1. m.op = "RRQ" => m.port = 0
      BY <1>1 DEF Role, Request, Datagram
    <2>2. QED
      BY <1>1, <2>1, PortBounds
  <1>3. m.op = "ACK"
    BY <1>1, <1>2 DEF Role
  <1>4. AckOut(m.client)
    BY <1>1 DEF Reading, DownloadKept
  <1>5. m.block = pcb[m.port].block
    BY <1>1, <1>3, <1>4 DEF AckOut
  <1>6. CorrectAck(m) /\ BlockAfter(m) = m.block + 1
    BY <1>3, <1>5 DEF CorrectAck, BlockAfter
  <1>7. QED
    BY <1>1, <1>3, <1>4, <1>6 DEF AckOut

\* A read request is taken while its client waits for the answer.
LEMMA OnReadRequest ==
  ASSUME NEW m \in net, Reading(m.client), IsRequest(m, "RRQ") \/ IsRequest(m, "WRQ")
  PROVE  /\ m.op = "RRQ" /\ m = Request(m.client) /\ client[m.client].phase = "req"
         /\ client[m.client].block = 0 /\ \A n \in net : n.client = m.client => n = m
  <1>1. Role(m)
    BY RouteFacts DEF Reading
  <1>2. m.op = "RRQ" /\ m = Request(m.client)
    BY <1>1 DEF Reading, IsRequest, Role, Up
  <1>3. QED
    BY <1>2 DEF Reading, DownloadKept, Opening, Got

\* What a handler does to the file that is read, and whom it reads for.
LEMMA ReadFileCases ==
  ASSUME RouteInv, NEW m \in net, Handle(m)
  PROVE  \/ file_SD' \in {file_SD, Invalid(file_SD)}
         \/ /\ ReadStart(m) /\ nextPort \in Ports /\ nextPort' # nextPort
            /\ pcb'[nextPort].use = "read" /\ nextPort # m.port
         \/ /\ RrqNext(m) /\ m.port \in Ports /\ pcb[m.port].use = "read" /\ pcb'[m.port].use = "read"
            /\ nextPort' = nextPort
  <1>0. /\ pcb \in [Ports -> Pcbs] /\ m.client \in Clients /\ Uses(m.client, m.port)
        /\ nextPort \in Nat /\ (nextPort' = nextPort + 1 => nextPort' # nextPort)
    <2>1. nextPort \in Nat
      BY ServerIsTyped DEF RouteInv, ServerTyped
    <2>2. QED
      BY <2>1, RouteFacts
  <1>1. CASE RequestDropped(m) \/ Unclaimed(m)
    BY <1>1 DEF RequestDropped, Unclaimed, serverVars
  <1>2. CASE RequestStranded(m) \/ RequestRefused(m) \/ WriteStart(m) \/ RrqEnd(m) \/ WrqFail(m)
    BY <1>2 DEF RequestStranded, RequestRefused, WriteStart, RrqEnd, WrqFail
  <1>3. CASE WrqStore(m) \/ WrqEmpty(m) \/ WrqOther(m)
    <2>1. PICK b, w : EndOrGoOn(m, b, w)
      BY <1>3 DEF WrqStore, WrqEmpty, WrqOther, WrqAnswer
    <2>2. QED
      BY <2>1 DEF EndOrGoOn
  <1>4. CASE ReadStart(m)
    <2>1. nextPort \in Ports /\ nextPort' = nextPort + 1 /\ m.port = 0
      BY <1>4 DEF ReadStart, TakesPort, IsRequest
    <2>2. PICK x, y : pcb' = [pcb EXCEPT ![nextPort] = [use |-> "read", block |-> x, len |-> y]]
      BY <1>4 DEF ReadStart
    <2>3. pcb'[nextPort].use = "read"
      BY <1>0, <2>1, <2>2
    <2>4. nextPort # m.port
      BY <2>1, PortBounds
    <2>5. QED
      BY <1>0, <1>4, <2>1, <2>3, <2>4
  <1>5. CASE RrqNext(m)
    <2>1. m.port \in Ports /\ pcb[m.port].use = "read" /\ nextPort' = nextPort
      BY <1>5 DEF RrqNext, For
    <2>2. PICK x, y : pcb' = [pcb EXCEPT ![m.port].block = x, ![m.port].len = y]
      BY <1>5 DEF RrqNext
    <2>3. pcb'[m.port].use = "read"
      BY <1>0, <2>1, <2>2 DEF Pcbs
    <2>4. QED
      BY <1>5, <2>1, <2>3
  <1>6. QED
    BY <1>1, <1>2, <1>3, <1>4, <1>5 DEF Handle

\* A reader's packet that finds another one reading makes the two share.
LEMMA ServerBeside ==
  ASSUME RouteInv, RouteInv', NEW m \in net, ServerStep(m), NEW c \in Readers, c # m.client, c \notin shared'
  PROVE  Beside(c)
  <1>0. c \in Clients /\ m.client \in Clients /\ Uses(m.client, m.port) /\ Handle(m)
        /\ client' = client /\ harmed \subseteq harmed' /\ CutOff(m.client) \subseteq harmed'
    BY ReaderFacts, RouteFacts DEF ServerStep, Harm
  <1>1. \A n \in net' : n.client = c => n \in net
    BY <1>0, Routed DEF OnPort, OnNewPort, Answers
  <1>2. \A p \in Ports : Uses(c, p) => pcb'[p] = pcb[p]
    <2>1. \A p \in Ports : Uses(c, p) => p # m.port /\ p # nextPort
      BY <1>0, PortBounds DEF RouteInv, PortsKept
    <2>2. QED
      BY <1>0, <2>1, TouchesOnePort
  <1>3. ASSUME file_SD.ok, file_SD.owner = c, ~file_SD'.ok PROVE c \in harmed'
    <2>1. c \in CutOff(m.client)
      BY <1>0, <1>3 DEF CutOff
    <2>2. QED
      BY <1>0, <2>1
  <1>4. ~Invalid(file_SD).ok
    BY DEF Invalid, RouteInv, TypeOK
  <1>5. ASSUME NEW p \in Ports, Reads(p, c), file_SD' \notin {file_SD, Invalid(file_SD)} PROVE FALSE
    <2>1. p # m.port /\ p # nextPort
      BY <1>5, PeersOf DEF Reads
    <2>2. pcb'[p].use = "read" /\ peer'[p] = c
      BY <1>5, <2>1, PeersOf DEF Reads
    <2>3. \E q \in Ports \ {p} : pcb'[q].use = "read"
      BY <1>0, <1>5, <2>1, ReadFileCases
    <2>4. c \in shared'
      BY <2>2, <2>3 DEF RouteInv, PeersKept
    <2>5. QED
      BY <2>4
  <1>6. QED
    BY <1>0, <1>1, <1>2, <1>3, <1>4, <1>5 DEF Beside

LEMMA CleanupBeside ==
  ASSUME RouteInv, NEW p \in Ports, CleanupStep(p), NEW c \in Readers
  PROVE  Beside(c)
  <1>0. /\ c \in Clients /\ UNCHANGED <<client, net>> /\ pcb[p].use = "closing"
        /\ pcb' = [pcb EXCEPT ![p] = NoPcb] /\ pcb \in [Ports -> Pcbs]
        /\ file_SD' = Invalid(file_SD) /\ file_SD \in ReadFil
        /\ harmed \subseteq harmed' /\ CutOff(peer[p]) \subseteq harmed'
    BY ReaderFacts DEF CleanupStep, CleanupWr, Harm
  <1>1. peer[p] # c /\ ~Uses(c, p)
    BY <1>0, ReaderFacts DEF RouteInv, PeersKept, PortsKept
  <1>2. \A q \in Ports : Uses(c, q) => pcb'[q] = pcb[q]
    BY <1>0, <1>1
  <1>3. ~file_SD'.ok
    BY <1>0 DEF Invalid, ReadFil
  <1>4. file_SD.ok /\ file_SD.owner = c => c \in harmed'
    <2>1. file_SD.ok /\ file_SD.owner = c => c \in CutOff(peer[p])
      BY <1>0, <1>1, <1>3 DEF CutOff
    <2>2. QED
      BY <1>0, <2>1
  <1>5. QED
    BY <1>0, <1>2, <1>3, <1>4 DEF Beside

LEMMA ElsewhereBeside ==
  ASSUME RouteInv, NEW c \in Readers, Elsewhere(c)
  PROVE  Beside(c)
  <1>1. /\ client'[c] = client[c] /\ UNCHANGED <<pcb, file_SD, harmed>>
        /\ \A n \in net' : n.client = c => n \in net
    BY ReaderFacts, ElsewhereStays DEF serverVars, history
  <1>2. QED
    BY <1>1 DEF Beside

-----------------------------------------------------------------------------
(* The server's steps for the downloading client.                          *)

\* Got only concerns the client, unless it is finished.
LEMMA GotStays ==
  ASSUME NEW c, Got(c), client' = client, harmed \subseteq harmed'
  PROVE  Got(c)'
  <1>1. Content(c)' = Content(c)
    BY DEF Content
  <1>2. QED
    BY <1>1 DEF Got, Prefix

\* The request is gone when it has been taken, and what follows is the answer.
LEMMA ReadRequestTaken ==
  ASSUME AskedOnce, NEW m \in net, Reading(m.client),
         IsRequest(m, "RRQ") \/ IsRequest(m, "WRQ"),
         NEW R, Deliver(m, R), \A n \in R : n.to = "client"
  PROVE  \A n \in net' : n.client = m.client => n \in R /\ n # Request(m.client)
  <1>1. m.op = "RRQ" /\ m = Request(m.client) /\ \A n \in net : n.client = m.client => n = m
    BY OnReadRequest
  <1>2. net' \subseteq (net \ {m}) \cup R
    BY <1>1, Delivered DEF AskedOnce
  <1>3. Request(m.client).to = "server"
    BY DEF Request, Datagram
  <1>4. QED
    BY <1>1, <1>2, <1>3

LEMMA ReadRefused ==
  ASSUME AskedOnce, NEW m \in net, ServerStep(m), Reading(m.client),
         RequestStranded(m) \/ RequestRefused(m)
  PROVE  DownloadKept(m.client)'
  <1>0. PICK c \in Readers : c = m.client /\ DownloadKept(c)
    BY DEF Reading
  <1>1. PICK R \in {{}, {Error(c, nextPort)}} : Deliver(m, R)
    BY <1>0 DEF RequestStranded, RequestRefused
  <1>2. \A n \in R : n.to = "client" /\ n.op = "ERROR"
    BY <1>1 DEF Error, Datagram
  <1>3. \A n \in net' : n.client = c => n.op = "ERROR" /\ n # Request(c)
    BY <1>0, <1>1, <1>2, ReadRequestTaken DEF RequestStranded, RequestRefused
  <1>4. client' = client /\ client[c].phase = "req" /\ harmed \subseteq harmed'
    BY <1>0, OnReadRequest DEF ServerStep, Harm, RequestStranded, RequestRefused
  <1>5. Request(c)' = Request(c) /\ Request(c).client = c
    BY DEF Request, Datagram
  <1>6. Got(c)'
    BY <1>0, <1>4, GotStays DEF DownloadKept
  <1>7. Sent(c)' /\ AckOut(c)'
    BY <1>3 DEF Sent, AckOut
  <1>8. Opening(c)'
    BY <1>3, <1>4, <1>5 DEF Opening
  <1>9. QED
    BY <1>0, <1>6, <1>7, <1>8 DEF DownloadKept

\* What f_read yields for client c behind block i, and what that leaves.
LEMMA ReadOn ==
  ASSUME NEW f \in ReadFil, NEW c, NEW i \in Nat, f.ok => f.owner = c /\ f.read = i, NEW good
  PROVE  /\ Read(f, good).len # "empty" => Read(f, good).len = LenOf(i + 1) /\ Read(f, good).data = <<c, i + 1>>
         /\ f.ok /\ good => Read(f, good).len = LenOf(i + 1)
         /\ Read(f, good).file.ok = f.ok
         /\ Read(f, good).len = "full" => Read(f, good).file.owner = c /\ Read(f, good).file.read = i + 1
  <1>1. CASE f.ok /\ good
    <2>1. Read(f, good) = [file |-> [f EXCEPT !.read = @ + 1], len |-> LenOf(i + 1), data |-> <<c, i + 1>>]
      BY <1>1 DEF Read
    <2>2. PICK g : g = [f EXCEPT !.read = @ + 1]
      OBVIOUS
    <2>3. g.ok = f.ok /\ g.owner = c /\ g.read = i + 1
      BY <1>1, <2>2 DEF ReadFil
    <2>4. Read(f, good).len = LenOf(i + 1) /\ Read(f, good).data = <<c, i + 1>> /\ Read(f, good).file = g
      BY <2>1, <2>2
    <2>5. QED
      BY <1>1, <2>3, <2>4
  <1>2. CASE ~(f.ok /\ good)
    <2>1. Read(f, good) = [file |-> f, len |-> "empty", data |-> <<f.owner, 0>>]
      BY <1>2 DEF Read
    <2>2. QED
      BY <1>2, <2>1
  <1>3. QED
    BY <1>1, <1>2

\* Block i + 1 is on its way to a client that has i blocks.
LEMMA BlockSent ==
  ASSUME AskedOnce, NEW c \in Readers, client' = client, harmed \subseteq harmed',
         NEW i \in Nat, client[c].block = i, i < NBlocks, NEW p \in Ports, NEW r,
         client[c].phase = "run" => client[c].port = p,
         pcb'[p].use = "read", pcb'[p].block = i + 1, pcb'[p].len = r.len,
         r.len # "empty" \/ c \notin harmed' => r.len = LenOf(i + 1),
         r.len # "empty" => r.data = <<c, i + 1>>,
         r.len = "full" => Opened(c, i + 1)',
         \A n \in net' : n.client = c =>
           \/ n = NextBlock(c, p, i + 1, r)
           \/ n.to = "client" /\ n.op \in {"DATA", "ERROR"} /\ (n.op = "DATA" => n.block \in 0 .. i)
  PROVE  Sent(c)' /\ AckOut(c)'
  <1>1. i + 1 < BlockMod /\ i + 1 \in Nat
    BY TftpAssumption DEF AskedOnce
  <1>2. PICK a : a = NextBlock(c, p, i + 1, r)
    OBVIOUS
  <1>3. a.op = "DATA" /\ a.to = "client" /\ a.port = p /\ a.block = i + 1 /\ a.len = r.len /\ a.data = r.data
    BY <1>1, <1>2, BlockNumber DEF NextBlock, Datagram
  <1>4. \A n \in net' : n.client = c => n.to = "client" /\ n.op # "ACK"
    BY <1>2, <1>3
  <1>5. AckOut(c)'
    BY <1>4 DEF AckOut
  <1>6. ASSUME NEW m \in net', m.client = c, m.op = "DATA"
        PROVE  /\ m.block <= client'[c].block + 1
               /\ m.block = client'[c].block + 1 =>
                    /\ m.port \in Ports /\ pcb'[m.port].use = "read"
                    /\ pcb'[m.port].block = m.block /\ pcb'[m.port].len = m.len
                    /\ client'[c].phase = "run" => m.port = client'[c].port
                    /\ m.len # "empty" \/ c \notin harmed' => m.len = LenOf(m.block)
                    /\ m.len # "empty" => m.data = <<c, m.block>>
                    /\ m.len = "full" => Opened(c, m.block)'
                    /\ \A n \in net' : n.client = c => n.to = "client"
    <2>1. CASE m = a
      <3>1. m.block = i + 1 /\ m.len = r.len /\ m.port = p /\ m.data = r.data
        BY <1>3, <2>1
      <3>2. m.len = "full" => Opened(c, m.block)'
        BY <3>1 DEF Opened
      <3>3. QED
        BY <1>4, <3>1, <3>2
    <2>2. CASE m # a
      <3>1. m.block \in 0 .. i
        BY <1>2, <1>6, <2>2
      <3>2. QED
        BY <3>1
    <2>3. QED
      BY <2>1, <2>2
  <1>7. QED
    BY <1>5, <1>6 DEF Sent

LEMMA ReadStarted ==
  ASSUME AskedOnce, NEW m \in net, Reading(m.client), ServerStep(m), ReadStart(m)
  PROVE  DownloadKept(m.client)'
  <1>0. PICK c \in Readers : c = m.client /\ DownloadKept(c)
    BY RouteFacts DEF Reading, ReadStart, IsRequest, Role
  <1>1. /\ client' = client /\ harmed \subseteq harmed' /\ (c \notin harmed' => healthy)
        /\ client[c].phase = "req" /\ client[c].block = 0 /\ 0 < NBlocks
        /\ c \in Clients /\ nextPort \in Ports /\ pcb \in [Ports -> Pcbs]
    BY <1>0, OnReadRequest, ReaderFacts, TftpAssumption DEF ServerStep, Harm, ReadStart, TakesPort, Reading
  <1>2. PICK f : f = [ok |-> TRUE, owner |-> c, read |-> 0]
    OBVIOUS
  <1>3. f \in ReadFil /\ f.ok /\ f.owner = c /\ f.read = 0
    BY <1>1, <1>2 DEF ReadFil
  <1>4. PICK good \in Good :
          /\ file_SD' = Read(f, good).file
          /\ pcb' = [pcb EXCEPT ![nextPort] = [use |-> "read", block |-> 1, len |-> Read(f, good).len]]
          /\ Deliver(m, {NextBlock(c, nextPort, 1, Read(f, good))})
    BY <1>0, <1>2 DEF ReadStart
  <1>5. c \notin harmed' => good
    BY <1>1, <1>4 DEF Good
  <1>6. PICK r : r = Read(f, good)
    OBVIOUS
  <1>7. /\ r.len # "empty" \/ c \notin harmed' => r.len = LenOf(0 + 1)
        /\ r.len # "empty" => r.data = <<c, 0 + 1>>
        /\ file_SD'.ok /\ (r.len = "full" => file_SD'.owner = c /\ file_SD'.read = 1)
    BY <1>3, <1>4, <1>5, <1>6, ReadOn, 0 \in Nat DEF ReadFil
  <1>8. r.len = "full" => Opened(c, 0 + 1)'
    BY <1>7 DEF Opened
  <1>9. pcb'[nextPort].use = "read" /\ pcb'[nextPort].block = 0 + 1 /\ pcb'[nextPort].len = r.len
    BY <1>1, <1>4, <1>6
  <1>10. NextBlock(c, nextPort, 1, r).to = "client" /\ NextBlock(c, nextPort, 1, r).op = "DATA"
    BY DEF NextBlock, Datagram
  <1>11. \A n \in net' : n.client = c => n = NextBlock(c, nextPort, 0 + 1, r) /\ n # Request(c)
    <2>1. Deliver(m, {NextBlock(c, nextPort, 1, r)}) /\ IsRequest(m, "RRQ")
      BY <1>4, <1>6 DEF ReadStart
    <2>2. PICK a : a = NextBlock(c, nextPort, 1, r)
      OBVIOUS
    <2>3. \A n \in net' : n.client = c => n \in {a} /\ n # Request(c)
      BY <1>0, <1>10, <2>1, <2>2, ReadRequestTaken
    <2>4. QED
      BY <2>2, <2>3
  <1>12. Sent(c)' /\ AckOut(c)'
    BY <1>1, <1>7, <1>8, <1>9, <1>11, BlockSent, 0 \in Nat
  <1>13. Got(c)'
    BY <1>0, <1>1, GotStays DEF DownloadKept
  <1>14. Opening(c)'
    <2>1. Request(c)' = Request(c) /\ Request(c).client = c
      BY DEF Request, Datagram
    <2>2. \A n \in net' : n.client = c => n.op = "DATA" /\ n # Request(c)
      BY <1>10, <1>11
    <2>3. QED
      BY <1>1, <2>1, <2>2 DEF Opening
  <1>15. QED
    BY <1>0, <1>12, <1>13, <1>14 DEF DownloadKept

\* An acknowledgement on its port is the only packet that its client has on the way to
\* the server.
LEMMA AckTaken ==
  ASSUME AskedOnce, NEW m \in net, Reading(m.client), For(m, "read"),
         NEW R, Deliver(m, R), \A n \in R : n.to = "client" /\ n.op = "DATA"
  PROVE  /\ \A n \in net' : n.client = m.client => n.to = "client" /\ n.op \in {"DATA", "ERROR"}
         /\ Request(m.client) \notin net'
         /\ \A n \in net' : n.client = m.client /\ n.op = "ERROR" => n \in net
  <1>0. PICK c \in Readers : c = m.client /\ DownloadKept(c)
    BY OnReadPort DEF Reading
  <1>1. m.op = "ACK" /\ m = Datagram("server", "ACK", c, client[c].port, client[c].block, "empty", 0)
    BY <1>0, OnReadPort
  <1>2. net' \subseteq (net \ {m}) \cup R
    BY <1>1, Delivered DEF AskedOnce
  <1>3. \A n \in net : n.client = c /\ n.op = "ACK" => n = m
    <2>1. AckOut(c)
      BY <1>0 DEF DownloadKept
    <2>2. \A n \in net : n.client = c /\ n.op = "ACK" =>
            n = Datagram("server", "ACK", c, client[c].port, client[c].block, "empty", 0)
      BY <2>1 DEF AckOut
    <2>3. QED
      BY <1>1, <2>2
  <1>4. Request(c) \notin net /\ Request(c).to = "server"
    BY <1>0, <1>1 DEF Reading, DownloadKept, Opening, Request, Datagram
  <1>5. ASSUME NEW n \in net, n.client = c, n # m PROVE n.to = "client" /\ n.op \in {"DATA", "ERROR"}
    <2>1. Role(n) /\ n.to \in {"server", "client"} /\ c \in Readers /\ c \notin Up
      BY <1>5, RouteFacts, TypeOfMessage, ReaderFacts DEF Reading, RouteInv
    <2>2. n.op # "RRQ"
      BY <1>4, <1>5, <2>1 DEF Role
    <2>3. n.op # "ACK"
      BY <1>3, <1>5
    <2>4. QED
      BY <1>5, <2>1, <2>2, <2>3 DEF Role
  <1>6. QED
    BY <1>0, <1>2, <1>4, <1>5

\* The next block is read and sent while its client waits for it.
LEMMA ReadGoesOn ==
  ASSUME AskedOnce, NEW m \in net, Reading(m.client), ServerStep(m), RrqNext(m)
  PROVE  DownloadKept(m.client)'
  <1>a. For(m, "read") /\ pcb[m.port].len = "full"
    BY DEF RrqNext
  <1>0. PICK c \in Readers : c = m.client /\ DownloadKept(c)
    BY <1>a, OnReadPort DEF Reading
  <1>1. PICK i \in Nat : i = client[c].block
    BY ReaderFacts DEF Reading
  <1>2. /\ m.op = "ACK" /\ m.to = "server" /\ m.block = i /\ m.port \in Ports
        /\ client[c].phase = "run" /\ Opened(c, i) /\ BlockAfter(m) = i + 1
        /\ pcb[m.port].use = "read" /\ client[c].port = m.port
    <2>1. /\ m.op = "ACK" /\ m.to = "server" /\ m.block = i /\ m.port \in Ports
          /\ client[c].phase = "run" /\ Opened(c, i) /\ BlockAfter(m) = i + 1 /\ pcb[m.port].use = "read"
          /\ m = Datagram("server", "ACK", c, client[c].port, client[c].block, "empty", 0)
      BY <1>a, <1>0, <1>1, OnReadPort
    <2>2. client[c].port = m.port
      BY <2>1 DEF Datagram
    <2>3. QED
      BY <2>1, <2>2
  <1>3. /\ client' = client /\ harmed \subseteq harmed' /\ (c \notin harmed' => healthy)
        /\ c \in Clients /\ pcb \in [Ports -> Pcbs] /\ file_SD \in ReadFil
    BY <1>0, ReaderFacts DEF ServerStep, Harm, Reading
  <1>4. i < NBlocks /\ Got(c) /\ Sent(c) /\ Opening(c)
    BY <1>0, <1>1, <1>2 DEF DownloadKept, Got
  <1>5. PICK good \in Good :
          /\ file_SD' = Read(file_SD, good).file
          /\ pcb' = [pcb EXCEPT ![m.port].block = BlockAfter(m), ![m.port].len = Read(file_SD, good).len]
          /\ Deliver(m, {NextBlock(c, m.port, i + 1, Read(file_SD, good))})
    BY <1>0, <1>2 DEF RrqNext
  <1>6. PICK r : r = Read(file_SD, good)
    OBVIOUS
  <1>7. c \notin harmed' => file_SD.ok /\ good
    BY <1>2, <1>3, <1>5 DEF Good, Opened
  <1>8. /\ r.len # "empty" => r.len = LenOf(i + 1) /\ r.data = <<c, i + 1>>
        /\ file_SD.ok /\ good => r.len = LenOf(i + 1)
        /\ file_SD'.ok = file_SD.ok
        /\ r.len = "full" => file_SD'.owner = c /\ file_SD'.read = i + 1
    <2>1. file_SD.ok => file_SD.owner = c /\ file_SD.read = i
      BY <1>2 DEF Opened
    <2>2. /\ Read(file_SD, good).len # "empty" =>
               Read(file_SD, good).len = LenOf(i + 1) /\ Read(file_SD, good).data = <<c, i + 1>>
          /\ file_SD.ok /\ good => Read(file_SD, good).len = LenOf(i + 1)
          /\ Read(file_SD, good).file.ok = file_SD.ok
          /\ Read(file_SD, good).len = "full" =>
               Read(file_SD, good).file.owner = c /\ Read(file_SD, good).file.read = i + 1
      BY <1>3, <2>1, ReadOn
    <2>3. QED
      BY <1>5, <1>6, <2>2
  <1>9. r.len = "full" => Opened(c, i + 1)'
    BY <1>7, <1>8 DEF Opened
  <1>10. pcb'[m.port].use = "read" /\ pcb'[m.port].block = i + 1 /\ pcb'[m.port].len = r.len
    BY <1>2, <1>3, <1>5, <1>6 DEF Pcbs
  <1>11. PICK a : a = NextBlock(c, m.port, i + 1, r)
    OBVIOUS
  <1>12. a.to = "client" /\ a.op = "DATA" /\ Deliver(m, {a})
    BY <1>5, <1>6, <1>11 DEF NextBlock, Datagram
  <1>13. /\ \A n \in net' : n.client = c => n.to = "client" /\ n.op \in {"DATA", "ERROR"}
         /\ Request(c) \notin net' /\ \A n \in net' : n.client = c /\ n.op = "ERROR" => n \in net
    BY <1>0, <1>a, <1>12, AckTaken
  <1>14. ASSUME NEW n \in net, n.client = c, n.op = "DATA" PROVE n.block \in 0 .. i
    <2>1. n.block <= i + 1 /\ n.block # i + 1
      BY <1>0, <1>1, <1>2, <1>4, <1>14 DEF Sent, Active
    <2>2. n.block \in Nat
      BY TypeOfMessage DEF Reading, RouteInv
    <2>3. QED
      BY <2>1, <2>2
  <1>15. \A n \in net' : n.client = c =>
           \/ n = NextBlock(c, m.port, i + 1, r)
           \/ n.to = "client" /\ n.op \in {"DATA", "ERROR"} /\ (n.op = "DATA" => n.block \in 0 .. i)
    BY <1>11, <1>12, <1>13, <1>14, Delivered
  <1>16. Sent(c)' /\ AckOut(c)'
    BY <1>1, <1>2, <1>3, <1>4, <1>7, <1>8, <1>9, <1>10, <1>15, BlockSent
  <1>17. Got(c)'
    BY <1>3, <1>4, GotStays
  <1>18. Opening(c)'
    <2>1. \A n \in net : n.client = c => n.op # "ERROR"
      BY <1>0, <1>2, <1>4 DEF Opening
    <2>2. Request(c)' = Request(c)
      BY DEF Request, Datagram
    <2>3. QED
      BY <1>2, <1>3, <1>13, <2>1, <2>2 DEF Opening
  <1>19. QED
    BY <1>0, <1>16, <1>17, <1>18 DEF DownloadKept

LEMMA ReadEnds ==
  ASSUME AskedOnce, NEW m \in net, Reading(m.client), ServerStep(m), RrqEnd(m)
  PROVE  DownloadKept(m.client)'
  <1>a. For(m, "read") /\ pcb[m.port].len # "full"
    BY DEF RrqEnd
  <1>0. PICK c \in Readers : c = m.client /\ DownloadKept(c)
    BY <1>a, OnReadPort DEF Reading
  <1>1. m.op = "ACK" /\ client[c].phase = "done" /\ client' = client /\ harmed \subseteq harmed'
    BY <1>a, <1>0, OnReadPort DEF ServerStep, Harm
  <1>2. Got(c) /\ Opening(c)
    BY <1>0 DEF DownloadKept
  <1>3. PICK R \in {{}, {Datagram("client", "DATA", c, m.port, BlockAfter(m), "empty", 0)}} : Deliver(m, R)
    BY <1>0 DEF RrqEnd
  <1>4. \A n \in R : n.to = "client" /\ n.op = "DATA"
    BY <1>3 DEF Datagram
  <1>5. /\ \A n \in net' : n.client = c => n.to = "client" /\ n.op \in {"DATA", "ERROR"}
        /\ Request(c) \notin net' /\ \A n \in net' : n.client = c /\ n.op = "ERROR" => n \in net
    BY <1>0, <1>a, <1>3, <1>4, AckTaken
  <1>6. Sent(c)' /\ AckOut(c)'
    BY <1>1, <1>5 DEF Sent, AckOut, Active
  <1>7. Got(c)'
    BY <1>1, <1>2, GotStays
  <1>8. Opening(c)'
    <2>1. \A n \in net : n.client = c => n.op # "ERROR"
      BY <1>0, <1>1, <1>2 DEF Opening
    <2>2. Request(c)' = Request(c)
      BY DEF Request, Datagram
    <2>3. QED
      BY <1>1, <1>5, <2>1, <2>2 DEF Opening
  <1>9. QED
    BY <1>0, <1>6, <1>7, <1>8 DEF DownloadKept

-----------------------------------------------------------------------------
(* The downloading client's steps.                                         *)

\* A block that is the awaited one makes the file one block longer, or is its end.
LEMMA GotBlock ==
  ASSUME AskedOnce, NEW c \in Clients, NEW g \in Blocks, NEW i \in Nat, i < NBlocks, Len(g) = i,
         Prefix(g, Content(c)), NEW len \in {"full", "part", "empty"}, NEW d,
         len # "empty" => len = LenOf(i + 1) /\ d = <<c, i + 1>>,
         NEW h \in Blocks, len = "empty" => h = g, len # "empty" => h = Append(g, d)
  PROVE  /\ Prefix(h, Content(c))
         /\ len = "full" => i + 1 < NBlocks /\ Len(h) = i + 1
         /\ len # "full" /\ len = LenOf(i + 1) => h = Content(c)
  <1>1. /\ Len(Content(c)) = IF LastLen = "empty" THEN NBlocks - 1 ELSE NBlocks
        /\ NBlocks \in Nat /\ LastLen \in {"part", "empty"}
    BY ContentFacts, TftpAssumption
  <1>2. CASE len = "empty"
    <2>1. h = g
      BY <1>2
    <2>2. ASSUME len = LenOf(i + 1) PROVE h = Content(c)
      <3>1. i + 1 = NBlocks /\ LastLen = "empty"
        BY <1>1, <1>2, <2>2 DEF LenOf
      <3>2. Len(g) = Len(Content(c))
        BY <1>1, <3>1
      <3>3. QED
        BY <2>1, <3>2, PrefixWhole
    <2>3. QED
      BY <1>2, <2>1, <2>2
  <1>3. CASE len # "empty"
    <2>1. len = LenOf(i + 1) /\ d = <<c, i + 1>> /\ h = Append(g, d)
      BY <1>3
    <2>2. (len = "full" /\ i + 1 < NBlocks) \/ (len # "full" /\ i + 1 = NBlocks /\ LastLen = "part")
      BY <1>1, <1>3, <2>1 DEF LenOf
    <2>3. i + 1 <= Len(Content(c)) /\ (len # "full" => i + 1 = Len(Content(c)))
      BY <1>1, <2>2
    <2>4. Prefix(h, Content(c)) /\ Len(h) = i + 1
      BY <2>1, <2>3, PrefixAppend
    <2>5. h \in Blocks
      BY <2>1 DEF Blocks
    <2>6. len # "full" => h = Content(c)
      BY <2>3, <2>4, <2>5, PrefixWhole
    <2>7. QED
      BY <2>2, <2>4, <2>6
  <1>4. QED
    BY <1>2, <1>3

LEMMA ReaderTakes ==
  ASSUME AskedOnce, NEW m \in net, Reading(m.client), ClientData(m)
  PROVE  DownloadKept(m.client)'
  <1>0. PICK c \in Readers : c = m.client /\ DownloadKept(c)
    BY DEF Reading
  <1>1. PICK i \in Nat : i = client[c].block
    BY ReaderFacts DEF Reading
  <1>2. /\ m.to = "client" /\ m.op = "DATA" /\ Active(c) /\ m.block = (i + 1) % BlockMod
        /\ client[c].phase \in {"req", "run"} /\ Awaited(c) = i + 1
    BY <1>0, <1>1 DEF ClientData, ForClient, Active, Awaited
  <1>3. /\ Sent(c) /\ AckOut(c) /\ Got(c) /\ Opening(c)
        /\ i < NBlocks /\ Len(client[c].got) = i /\ Prefix(client[c].got, Content(c))
    BY <1>0, <1>1, <1>2 DEF DownloadKept, Got
  <1>4. m.block = i + 1 /\ i + 1 \in Nat /\ i + 1 < BlockMod
    <2>1. NBlocks < BlockMod /\ NBlocks \in Nat /\ BlockMod \in Nat
      BY TftpAssumption DEF AskedOnce
    <2>2. i + 1 \in 0 .. NBlocks
      BY <1>3, <2>1
    <2>3. (i + 1) % BlockMod = i + 1 /\ i + 1 < BlockMod
      BY <2>1, <2>2, BlockNumber
    <2>4. QED
      BY <1>2, <2>3
  <1>5. /\ m.port \in Ports /\ pcb[m.port].use = "read"
        /\ pcb[m.port].block = i + 1 /\ pcb[m.port].len = m.len
        /\ m.len # "empty" \/ c \notin harmed => m.len = LenOf(i + 1)
        /\ m.len # "empty" => m.data = <<c, i + 1>>
        /\ m.len = "full" => Opened(c, i + 1)
        /\ \A n \in net : n.client = c => n.to = "client"
    BY <1>0, <1>1, <1>2, <1>3, <1>4 DEF Sent
  <1>6. /\ c \in Clients /\ client \in [Clients -> States] /\ client[c].got \in Blocks
        /\ m.len \in {"full", "part", "empty"}
    BY ReaderFacts, TypeOfMessage DEF Reading, RouteInv
  <1>7. PICK h : h = IF m.len = "empty" THEN client[c].got ELSE Append(client[c].got, m.data)
    OBVIOUS
  <1>8. /\ Prefix(h, Content(c))
        /\ m.len = "full" => i + 1 < NBlocks /\ Len(h) = i + 1
        /\ m.len # "full" /\ m.len = LenOf(i + 1) => h = Content(c)
    <2>1. PICK g, len, d :
            /\ g \in Blocks /\ len \in {"full", "part", "empty"}
            /\ g = client[c].got /\ len = m.len /\ d = m.data
      BY <1>6
    <2>2. Len(g) = i /\ Prefix(g, Content(c)) /\ (len # "empty" => len = LenOf(i + 1) /\ d = <<c, i + 1>>)
          /\ (len = "empty" => h = g) /\ (len # "empty" => h = Append(g, d))
      BY <1>3, <1>5, <1>7, <2>1
    <2>a. h \in Blocks /\ d \in Clients \X Nat
      <3>1. m.data \in Clients \X Nat
        BY TypeOfMessage DEF Reading, RouteInv
      <3>2. QED
        BY <1>6, <1>7, <2>1, <3>1 DEF Blocks
    <2>b. g \in Blocks /\ len \in {"full", "part", "empty"}
      BY <2>1
    <2>3. /\ Prefix(h, Content(c))
          /\ len = "full" => i + 1 < NBlocks /\ Len(h) = i + 1
          /\ len # "full" /\ len = LenOf(i + 1) => h = Content(c)
      BY <1>3, <1>6, <2>2, <2>a, <2>b, GotBlock
    <2>4. QED
      BY <2>1, <2>3
  <1>9. /\ client'[c].phase = IF m.len = "full" THEN "run" ELSE "done"
        /\ client'[c].port = m.port /\ client'[c].block = i + 1 /\ client'[c].got = h
        /\ UNCHANGED <<pcb, file_SD, harmed>>
    BY <1>0, <1>2, <1>6, <1>7 DEF ClientData, serverVars, history
  <1>10. PICK a : a = Datagram("server", "ACK", c, m.port, i + 1, "empty", 0)
    OBVIOUS
  <1>11. /\ a.to = "server" /\ a.op = "ACK" /\ a.port = m.port /\ a.block = i + 1
         /\ \A n \in net' : n \in net \/ n = a
    <2>1. Deliver(m, {a})
      BY <1>0, <1>2, <1>10 DEF ClientData
    <2>2. a.to = "server" /\ a.op = "ACK" /\ a.port = m.port /\ a.block = i + 1
      BY <1>4, <1>10, BlockNumber DEF Datagram
    <2>3. QED
      BY <2>1, <2>2, Delivered
  <1>12. Opened(c, i + 1) => Opened(c, i + 1)'
    BY <1>9 DEF Opened
  <1>13. \A n \in net' : n.client = c => n = a \/ (n \in net /\ n.to = "client")
    BY <1>5, <1>11
  <1>14. Sent(c)'
    <2>1. ASSUME NEW n \in net', n.client = c, n.op = "DATA" PROVE n.block \in Nat /\ n.block <= i + 1
      <3>1. n \in net
        BY <1>11, <2>1
      <3>2. QED
        BY <1>1, <1>2, <1>3, <2>1, <3>1, TypeOfMessage DEF Sent, Reading, RouteInv
    <2>2. \A n \in net' : n.client = c /\ n.op = "DATA" => n.block <= i + 1 + 1 /\ n.block # i + 1 + 1
      BY <2>1
    <2>3. QED
      BY <1>9, <2>2 DEF Sent
  <1>15. AckOut(c)'
    <2>1. ASSUME NEW n \in net', n.client = c, n.op = "ACK" PROVE n = a
      <3>1. n \in net => n.to = "server"
        <4>1. n \in net => Role(n) /\ c \notin Up
          BY ReaderFacts, RouteFacts DEF Reading
        <4>2. QED
          BY <2>1, <4>1, <1>3 DEF AckOut, Datagram
      <3>2. QED
        BY <1>13, <2>1, <3>1
    <2>2. /\ a = Datagram("server", "ACK", c, client'[c].port, client'[c].block, "empty", 0)
          /\ a.block = client'[c].block /\ client'[c].phase \in {"run", "done"}
          /\ a.port \in Ports /\ pcb'[a.port].use = "read" /\ pcb'[a.port].block = a.block
          /\ pcb'[a.port].len = "full" <=> client'[c].phase = "run"
      BY <1>5, <1>9, <1>10, <1>11
    <2>3. client'[c].phase = "run" => Opened(c, a.block)'
      <3>1. client'[c].phase = "run" => Opened(c, i + 1)'
        BY <1>5, <1>9, <1>12
      <3>2. QED
        BY <1>11, <3>1 DEF Opened
    <2>4. QED
      BY <2>1, <2>2, <2>3 DEF AckOut, Datagram, Opened
  <1>16. Got(c)'
    <2>1. Content(c)' = Content(c)
      BY DEF Content
    <2>2. client'[c].phase = "done" /\ c \notin harmed' => h = Content(c)
      BY <1>5, <1>8, <1>9
    <2>3. QED
      BY <1>8, <1>9, <2>1, <2>2 DEF Got, Prefix
  <1>17. Opening(c)'
    <2>1. Request(c)' = Request(c) /\ Request(c).to = "server" /\ Request(c).op = "RRQ" /\ Request(c).client = c
      BY DEF Request, Datagram
    <2>2. Request(c) \notin net'
      BY <1>11, <1>13, <2>1
    <2>3. \A n \in net' : n.client = c => n.op # "ERROR"
      BY <1>0, <1>2, <1>3, <1>11 DEF Opening
    <2>4. QED
      BY <1>9, <2>1, <2>2, <2>3 DEF Opening
  <1>18. QED
    BY <1>0, <1>2, <1>14, <1>15, <1>16, <1>17 DEF DownloadKept


LEMMA ReaderTold ==
  ASSUME AskedOnce, NEW m \in net, Reading(m.client), ClientError(m)
  PROVE  DownloadKept(m.client)'
  <1>0. PICK c \in Readers : c = m.client /\ DownloadKept(c)
    BY DEF Reading
  <1>1. /\ Active(c) /\ m.op = "ERROR" /\ Got(c) /\ Opening(c)
        /\ client \in [Clients -> States] /\ c \in Clients /\ client[c] \in States
    BY <1>0, ReaderFacts DEF ClientError, ForClient, Active, Reading, DownloadKept
  <1>2. /\ client'[c].phase = "failed" /\ client'[c].got = client[c].got /\ net' \subseteq net
    BY <1>0, <1>1, Delivered DEF ClientError, States
  <1>3. \A n \in net' : n.client = c => n.op = "ERROR"
    BY <1>0, <1>1, <1>2 DEF Opening
  <1>4. Sent(c)' /\ AckOut(c)'
    BY <1>3 DEF Sent, AckOut
  <1>5. Got(c)'
    <2>1. Content(c)' = Content(c)
      BY DEF Content
    <2>2. QED
      BY <1>1, <1>2, <2>1 DEF Got, Prefix
  <1>6. Opening(c)'
    <2>1. Request(c)' = Request(c) /\ Request(c).op = "RRQ" /\ Request(c).client = c
      BY ReaderFacts DEF Request, Reading
    <2>2. QED
      BY <1>2, <1>3, <2>1 DEF Opening
  <1>7. QED
    BY <1>0, <1>1, <1>4, <1>5, <1>6 DEF DownloadKept

LEMMA ReaderStarts ==
  ASSUME NEW c, Reading(c), Start(c)
  PROVE  DownloadKept(c)'
  <1>0. /\ client \in [Clients -> States] /\ c \in Clients /\ client[c] \in States
        /\ Request(c).op = "RRQ" /\ Request(c)' = Request(c)
    BY ReaderFacts DEF Reading, Request
  <1>1. /\ client[c].phase = "idle" /\ client' = [client EXCEPT ![c].phase = "req"]
        /\ net' = net \cup {Request(c)} /\ Got(c) /\ Opening(c)
    BY DEF Start, Reading, DownloadKept
  <1>2. client'[c].phase = "req" /\ client'[c].block = client[c].block /\ client'[c].got = client[c].got
    BY <1>0, <1>1 DEF States
  <1>3. \A n \in net' : n.client = c => n = Request(c)
    BY <1>1 DEF Opening
  <1>4. Sent(c)' /\ AckOut(c)'
    BY <1>0, <1>3 DEF Sent, AckOut
  <1>5. Got(c)'
    <2>1. Content(c)' = Content(c)
      BY DEF Content
    <2>2. QED
      BY <1>1, <1>2, <2>1 DEF Got, Prefix
  <1>6. Opening(c)'
    BY <1>0, <1>2, <1>3 DEF Opening
  <1>7. QED
    BY <1>4, <1>5, <1>6 DEF DownloadKept

-----------------------------------------------------------------------------
(* The theorems about downloads.                                           *)

LEMMA DownloadServer ==
  ASSUME AskedOnce, RouteInv, RouteInv', NEW m \in net, ServerStep(m), NEW c \in Readers, c \notin shared',
         DownloadKept(c)
  PROVE  DownloadKept(c)'
  <1>1. CASE c # m.client
    BY <1>1, ServerBeside, BesideKeeps
  <1>2. CASE c = m.client
    <2>0. Reading(m.client) /\ DownloadKept(m.client)' = DownloadKept(c)'
      BY <1>2 DEF Reading
    <2>1. CASE RequestStranded(m) \/ RequestRefused(m)
      BY <2>0, <2>1, ReadRefused
    <2>2. CASE ReadStart(m) \/ RrqNext(m) \/ RrqEnd(m)
      BY <2>0, <2>2, ReadStarted, ReadGoesOn, ReadEnds
    <2>3. CASE RequestDropped(m) \/ Unclaimed(m)
      <3>1. UNCHANGED <<serverVars, client>> /\ harmed \subseteq harmed' /\ net' \subseteq net
        BY <2>3, Delivered DEF RequestDropped, Unclaimed, ServerStep, Harm
      <3>2. Beside(c)
        BY <3>1 DEF Beside, serverVars
      <3>3. QED
        BY <3>2, BesideKeeps
    <2>4. ~WriteStart(m) /\ ~WrqStore(m) /\ ~WrqFail(m) /\ ~WrqEmpty(m) /\ ~WrqOther(m)
      <3>1. m.client \notin Up /\ Role(m) /\ Uses(m.client, m.port) /\ m.client \in Clients
        BY <1>2, ReaderFacts, RouteFacts
      <3>2. m.op # "WRQ" /\ ~For(m, "write")
        BY <3>1 DEF Role, For, RouteInv, PortsKept
      <3>3. QED
        BY <3>2 DEF WriteStart, IsRequest, WrqStore, WrqFail, WrqEmpty, WrqOther, WrqAnswer
    <2>5. QED
      BY <2>1, <2>2, <2>3, <2>4 DEF ServerStep, Handle
  <1>3. QED
    BY <1>1, <1>2

LEMMA DownloadMoves ==
  ASSUME AskedOnce, NEW c, Reading(c), Moves(c)
  PROVE  DownloadKept(c)'
  <1>0. RouteInv /\ c \in Readers /\ c \in Clients /\ c \notin Up /\ Request(c).op = "RRQ"
    BY ReaderFacts DEF Reading
  <1>1. ASSUME NEW m \in net, m.client = c, ClientData(m) \/ ClientAck(m) \/ ClientError(m)
        PROVE  DownloadKept(c)'
    <2>1. ~ClientAck(m)
      BY <1>0, <1>1, RouteFacts DEF ClientAck, ForClient, Role
    <2>2. DownloadKept(m.client)'
      BY <1>1, <2>1, ReaderTakes, ReaderTold
    <2>3. DownloadKept(m.client)' = DownloadKept(c)'
      BY <1>1
    <2>4. QED
      BY <2>2, <2>3
  <1>2. ~Abort(c)
    BY <1>0 DEF Abort
  <1>3. ~Timeout(c)
    <2>1. client[c].phase = "run" => Pending(c).op = "ACK"
      BY <1>0 DEF Pending, Datagram
    <2>2. client[c].phase = "req" => Pending(c).op = "RRQ"
      BY <1>0 DEF Pending
    <2>3. QED
      BY <2>1, <2>2 DEF Timeout, AskedOnce
  <1>4. QED
    BY <1>1, <1>2, <1>3, ReaderStarts DEF Moves

LEMMA DownloadNext == AskedOnce /\ DownloadInv /\ [Next]_vars => DownloadInv'
  <1> SUFFICES ASSUME AskedOnce, DownloadInv, [Next]_vars PROVE DownloadInv'
    OBVIOUS
  <1>1. RouteInv /\ RouteInv'
    BY RouteNext DEF DownloadInv
  <1>2. shared \subseteq shared'
    <2>1. shared' = shared \/ \E m \in net : ServerStep(m)
      BY ClientsLeave DEF Next, CleanupStep, history
    <2>2. QED
      BY <2>1 DEF ServerStep
  <1>3. ASSUME NEW c \in Readers, c \notin shared' PROVE DownloadKept(c)'
    <2>1. DownloadKept(c) /\ Reading(c) /\ c \in Clients
      BY <1>1, <1>2, <1>3, ReaderFacts DEF DownloadInv, Reading
    <2>2. CASE Elsewhere(c)
      BY <1>1, <2>1, <2>2, ElsewhereBeside, BesideKeeps
    <2>3. CASE Moves(c)
      BY <2>1, <2>3, DownloadMoves
    <2>4. ASSUME NEW p \in Ports, CleanupStep(p) PROVE DownloadKept(c)'
      BY <1>1, <2>1, <2>4, CleanupBeside, BesideKeeps
    <2>5. ASSUME NEW m \in net, ServerStep(m) PROVE DownloadKept(c)'
      BY <1>1, <1>3, <2>1, <2>5, DownloadServer
    <2>6. QED
      BY <1>1, <2>1, <2>2, <2>3, <2>4, <2>5, StepCases
  <1>4. QED
    BY <1>1, <1>3 DEF DownloadInv

LEMMA DownloadAlways == ASSUME AskedOnce PROVE Spec => []DownloadInv
  <1>1. Init => DownloadInv
    BY TypeInit, RouteInit, DownloadInit DEF DownloadInv, RouteInv
  <1>2. DownloadInv /\ [Next]_vars => DownloadInv'
    BY DownloadNext
  <1>3. QED
    BY <1>1, <1>2, PTL DEF Spec

\* Transfers overlap on the one volume as they like, any number of them in either direction,
\* and whatever fails: what is stored and received by one that shared its file with none of
\* its own direction is the right file's blocks in their order.
THEOREM TransfersNeverMix == ASSUME Numbered, AskedOnce PROVE Spec => []ContentsIntact
  <1>1. DownloadInv => ReceivedIsPrefix
    BY DEF DownloadInv, DownloadKept, Got, ReceivedIsPrefix
  <1>2. QED
    BY <1>1, StoredInOrder, DownloadAlways, PTL DEF ContentsIntact

\* A downloading client that is finished has the whole file, unless a failure or another
\* transfer got in its way.
THEOREM DoneIsReceived == ASSUME AskedOnce PROVE Spec => []DownloadDoneMeansReceived
  <1>1. DownloadInv => DownloadDoneMeansReceived
    BY DEF DownloadInv, DownloadKept, Got, DownloadDoneMeansReceived
  <1>2. QED
    BY <1>1, DownloadAlways, PTL

-----------------------------------------------------------------------------
(* Ports.  While no datagram is lost, a transfer's pcb is held by a client *)
(* that goes on, or by a datagram under way that will end it, whatever     *)
(* the transfers do to each other's files.                                 *)

\* No request is repeated, by client or network.
RequestsOnce == OneRequest /\ "RRQ" \notin Keep \cup Repeat

\* The upload of u can still end: its packets all go to or from port p, the server's are
\* acknowledgements and not the last, full blocks are not the last, and the client has its
\* first answer coming, goes on, or has said that it gave up.
WriteHeld(u, p) ==
  /\ pcb[p].block < NBlocks
  /\ \A m \in net : m.client = u =>
       /\ m.port = p
       /\ m.to = "client" => m.op = "ACK" /\ m.block # NBlocks
       /\ m.len = "full" => m.block < NBlocks /\ m.op # "ERROR"
  /\ \/ client[u].phase = "req" /\ \E m \in net : m.client = u /\ m.op = "ACK" /\ m.block = 0
     \/ client[u].phase = "run" /\ client[u].port = p
     \/ client[u].phase = "failed" /\ \E m \in net : m.client = u /\ m.op = "ERROR"

\* The download of c can still end: its packets all go to or from port p, the client
\* counts a block as the last one only if the server does, and it has the first block
\* coming, goes on, or has acknowledged the last one.
ReadHeld(c, p) ==
  /\ \A m \in net : m.client = c =>
       /\ m.port = p /\ m.op \in {"DATA", "ACK"}
       /\ m.op = "DATA" /\ m.len # "full" => pcb[p].len # "full"
  /\ \/ /\ client[c].phase = "req" /\ client[c].block = 0
        /\ \A m \in net : m.client = c => m.to = "client"
        /\ \E m \in net : m.client = c /\ m.block = 1
     \/ client[c].phase = "run" /\ client[c].port = p
     \/ /\ client[c].phase = "done" /\ pcb[p].len # "full"
        /\ \E m \in net : m.client = c /\ m.to = "server"

\* Before a download's request is taken nothing else of it is under way.
AsksToRead(c) ==
  /\ client[c].phase = "idle" => \A n \in net : n.client # c
  /\ Request(c) \in net => client[c].phase = "req" /\ \A n \in net : n.client = c => n = Request(c)
  /\ client[c].phase = "idle" \/ Request(c) \in net => \A p \in Ports : ~Reads(p, c)
  /\ client[c].phase \in {"idle", "req"} => client[c].block = 0

WritesHeld == \A p \in Ports : pcb[p].use = "write" => WriteHeld(peer[p], p)
ReadsHeld  == \A p \in Ports : pcb[p].use = "read"  => ReadHeld(peer[p], p)
Strays     == \A p \in Ports : pcb[p].use = "bare"  => harmed # {}

AskInv == RouteInv /\ CountKept /\ (\A u \in Up : Asks(u)) /\ \A c \in Readers : AsksToRead(c)

\* Neither is disturbed by what concerns other clients only.
LEMMA OthersHold ==
  ASSUME NEW c, NEW p, client'[c] = client[c], pcb'[p] = pcb[p],
         \A n \in net' : n.client = c => n \in net, \A n \in net : n.client = c => n \in net'
  PROVE  (WriteHeld(c, p) => WriteHeld(c, p)') /\ (ReadHeld(c, p) => ReadHeld(c, p)')
  <1>1. ASSUME WriteHeld(c, p) PROVE WriteHeld(c, p)'
    BY <1>1 DEF WriteHeld
  <1>2. ASSUME ReadHeld(c, p) PROVE ReadHeld(c, p)'
    BY <1>2 DEF ReadHeld
  <1>3. QED
    BY <1>1, <1>2

\* What the server does for one client leaves the pcbs and packets of the others alone.
LEMMA OtherPorts ==
  ASSUME RouteInv, NEW m \in net, ServerStep(m), NEW p \in Ports,
         pcb[p].use \in {"read", "write"}, p # m.port
  PROVE  /\ pcb'[p] = pcb[p] /\ peer'[p] = peer[p] /\ client' = client
         /\ peer[p] # m.client =>
              /\ \A n \in net' : n.client = peer[p] => n \in net
              /\ \A n \in net : n.client = peer[p] => n \in net'
  <1>1. p # nextPort
    BY PeersOf
  <1>2. pcb'[p] = pcb[p] /\ peer'[p] = peer[p] /\ client' = client
    BY <1>1, PeersOf DEF ServerStep
  <1>3. net \ {m} \subseteq net' /\ \A n \in net' : n \in net \/ n.client = m.client
    BY PacketsStay, Routed DEF ServerStep, OnPort, OnNewPort, Answers
  <1>4. QED
    BY <1>2, <1>3

\* A write request is answered once, and nothing else of the upload is under way.
LEMMA WriteBegins ==
  ASSUME OneRequest, AskInv, NEW m \in net, ServerStep(m), WriteStart(m), NEW p \in Ports, p = nextPort
  PROVE  WriteHeld(m.client, p)'
  <1> DEFINE u == m.client  a == Ack(u, p, 0)
  <1>1. /\ m.op = "WRQ" /\ Deliver(m, {a})
        /\ pcb' = [pcb EXCEPT ![p] = [use |-> "write", block |-> 0, len |-> "full"]]
    BY DEF WriteStart, IsRequest
  <1>2. u \in Up /\ m = Request(u) /\ pcb \in [Ports -> Pcbs] /\ client' = client
    BY <1>1, RouteFacts DEF AskInv, Role, ServerStep
  <1>3. client[u].phase = "req" /\ \A n \in net : n.client = u => n = m
    BY <1>2 DEF AskInv, Asks
  <1>4. a.port = p /\ a.op = "ACK" /\ a.block = 0 /\ a.client = u /\ a.len # "full" /\ a.to = "client"
    BY BlockNumber, TftpAssumption DEF Ack, Datagram
  <1>5. m.op \notin Keep
    BY <1>1 DEF OneRequest
  <1> HIDE DEF a
  <1>6. a \in net' /\ \A n \in net' : n.client = u => n = a
    BY <1>1, <1>3, <1>5, Delivered
  <1>7. pcb'[p].block = 0 /\ NBlocks \in Nat \ {0}
    BY <1>1, <1>2, TftpAssumption
  <1>8. pcb'[p].block < NBlocks /\ a.block # NBlocks
    BY <1>4, <1>7
  <1>9. QED
    BY <1>2, <1>3, <1>4, <1>6, <1>8 DEF WriteHeld

\* A packet on the upload's port: the transfer ends, or goes on with an ACK that is not the last.
LEMMA WriteGoesOn ==
  ASSUME Numbered, RouteInv, NEW m \in net, ServerStep(m), OnFile(m), NEW p \in Ports, p = m.port,
         pcb'[p].use = "write", WriteHeld(m.client, p)
  PROVE  WriteHeld(m.client, p)'
  <1> DEFINE u == m.client
  <1>1. /\ m.to = "server" /\ pcb \in [Ports -> Pcbs] /\ client' = client
        /\ pcb[p].block \in Nat /\ pcb[p].block < NBlocks /\ m.block \in Nat
    <2>1. m.to = "server" /\ client' = client
      BY PacketsStay DEF ServerStep
    <2>2. pcb \in [Ports -> Pcbs] /\ pcb[p].block \in Nat /\ m.block \in Nat
      BY RouteFacts, TypeOfMessage DEF Pcbs, RouteInv, Datagrams
    <2>3. QED
      BY <2>1, <2>2 DEF WriteHeld
  <1>2. ~WrqFail(m)
    BY <1>1 DEF WrqFail, NoPcb
  <1>3. PICK b, w : EndOrGoOn(m, b, w) /\ b \in Nat /\ Deliver(m, {Ack(u, p, b)})
                    /\ (b = pcb[p].block \/ b = m.block)
    <2>1. CASE WrqStore(m) \/ WrqEmpty(m)
      BY <1>1, <2>1 DEF WrqStore, WrqEmpty, Expected
    <2>2. CASE WrqOther(m)
      BY <1>1, <2>2 DEF WrqOther, WrqAnswer
    <2>3. QED
      BY <1>2, <2>1, <2>2 DEF OnFile
  <1>4. m.len = "full" /\ pcb'[p].block = b
    BY <1>1, <1>3 DEF EndOrGoOn, Pcbs
  <1>5. m.block < NBlocks /\ m.op # "ERROR" /\ b < NBlocks
    BY <1>1, <1>3, <1>4 DEF WriteHeld
  <1> DEFINE a == Ack(u, p, b)
  <1>6. a.port = p /\ a.op = "ACK" /\ a.block # NBlocks /\ a.client = u /\ a.len # "full" /\ a.to = "client"
    <2>1. b % BlockMod = b /\ b # NBlocks
      BY <1>3, <1>5, BlockNumber, TftpAssumption DEF Numbered
    <2>2. QED
      BY <2>1 DEF Ack, Datagram
  <1> HIDE DEF a
  <1>7. net' \subseteq net \cup {a} /\ net \ {m} \subseteq net'
    BY <1>3, Delivered DEF a
  <1>8. \A n \in net' : n.client = u =>
          /\ n.port = p
          /\ n.to = "client" => n.op = "ACK" /\ n.block # NBlocks
          /\ n.len = "full" => n.block < NBlocks /\ n.op # "ERROR"
    BY <1>6, <1>7 DEF WriteHeld
  <1>9. \/ client[u].phase = "req" /\ \E n \in net' : n.client = u /\ n.op = "ACK" /\ n.block = 0
        \/ client[u].phase = "run" /\ client[u].port = p
        \/ client[u].phase = "failed" /\ \E n \in net' : n.client = u /\ n.op = "ERROR"
    <2>1. m.op # "ACK"
      <3>1. Role(m) /\ m.client \in Clients
        BY RouteFacts
      <3>2. ~(m.client \in Readers)
        BY <1>1, <3>1, RouteFacts DEF OnFile, WrqStore, WrqFail, WrqEmpty, WrqOther, WrqAnswer, For,
              RouteInv, PortsKept, Up
      <3>3. QED
        BY <1>1, <3>1, <3>2 DEF Role
    <2>2. QED
      BY <1>5, <1>7, <2>1 DEF WriteHeld
  <1>10. QED
    BY <1>1, <1>4, <1>5, <1>8, <1>9 DEF WriteHeld

\* What the server does keeps the uploads' pcbs held.
LEMMA WritesHeldServer ==
  ASSUME OneRequest, AskInv, WritesHeld, NEW m \in net, ServerStep(m)
  PROVE  WritesHeld'
  <1> SUFFICES ASSUME NEW p \in Ports, pcb'[p].use = "write" PROVE WriteHeld(peer[p], p)'
    BY DEF WritesHeld
  <1>0. RouteInv /\ pcb \in [Ports -> Pcbs] /\ Handle(m) /\ peer \in [Ports -> Clients] /\ Numbered
    BY RouteFacts DEF AskInv, ServerStep, RouteInv, TypeOK, OneRequest
  <1>1. CASE pcb[p].use # "write"
    <2>1. OnNewPort(m) /\ p = nextPort /\ nextPort' # nextPort
      BY <1>0, <1>1, Routed, PortBounds DEF OnPort, OnNewPort, Left
    <2>2. WriteStart(m)
      <3>1. RequestStranded(m) \/ RequestRefused(m) \/ ReadStart(m) \/ WriteStart(m)
        BY <1>0, <2>1 DEF Handle, RequestDropped, RrqNext, RrqEnd, WrqStore, WrqFail, WrqEmpty,
                          WrqOther, WrqAnswer, Unclaimed, serverVars
      <3>2. ~RequestStranded(m) /\ ~RequestRefused(m)
        BY <1>0, <1>1, <2>1 DEF RequestStranded, RequestRefused, Pcbs
      <3>3. ~ReadStart(m)
        <4>1. ASSUME ReadStart(m) PROVE FALSE
          <5>1. PICK len : pcb' = [pcb EXCEPT ![nextPort] = [use |-> "read", block |-> 1, len |-> len]]
            BY <4>1 DEF ReadStart
          <5>2. QED
            BY <1>0, <2>1, <5>1
        <4>2. QED
          BY <4>1
      <3>4. QED
        BY <3>1, <3>2, <3>3
    <2>3. peer'[p] = m.client
      BY <1>0, <2>1, PeersOf
    <2>4. PICK u : u = m.client
      OBVIOUS
    <2>5. WriteHeld(u, p)'
      BY <2>1, <2>2, <2>4, WriteBegins
    <2>6. QED
      BY <2>3, <2>4, <2>5 DEF WriteHeld
  <1>2. CASE pcb[p].use = "write" /\ p = m.port
    <2>1. peer[p] = m.client /\ p # nextPort
      BY <1>0, <1>2, PeersOf
    <2>2. peer'[p] = peer[p]
      BY <1>0, <2>1, PeersOf
    <2>3. m.client \in Up
      BY <1>0, <1>2, RouteFacts DEF RouteInv, PortsKept
    <2>4. OnFile(m)
      <3>1. m.port # 0
        BY <1>2, PortBounds
      <3>2. QED
        BY <1>0, <1>2, <2>3, <3>1, UpHandles DEF OnFile, RequestDropped, RequestStranded, RequestRefused,
              WriteStart, IsRequest, Unclaimed
    <2>5. PICK u : u = m.client
      OBVIOUS
    <2>6. WriteHeld(u, p)'
      BY <1>0, <1>2, <2>1, <2>4, <2>5, WriteGoesOn DEF WritesHeld
    <2>7. QED
      BY <2>1, <2>2, <2>5, <2>6 DEF WriteHeld
  <1>3. CASE pcb[p].use = "write" /\ p # m.port
    <2>1. PICK u : u = peer[p]
      OBVIOUS
    <2>2. WriteHeld(u, p)
      BY <1>3, <2>1 DEF WritesHeld
    <2>3. u # m.client
      BY <1>3, <2>2 DEF WriteHeld
    <2>4. WriteHeld(u, p)' /\ peer'[p] = u
      BY <1>0, <1>3, <2>1, <2>2, <2>3, OtherPorts, OthersHold
    <2>5. QED
      BY <2>4 DEF WriteHeld
  <1>4. QED
    BY <1>1, <1>2, <1>3

\* The uploading client takes its answer and goes on with its port.
LEMMA WriteAnswered ==
  ASSUME Numbered, AskInv, NEW u \in Up, NEW p \in Ports, WriteHeld(u, p), pcb' = pcb,
         NEW m \in net, ClientStep(m), m.client = u
  PROVE  WriteHeld(u, p)'
  <1>0. /\ RouteInv /\ CountKept /\ u \in Clients /\ u \notin Readers
        /\ client \in [Clients -> States] /\ client[u] \in States
        /\ (client[u].phase \in {"idle", "req"} => client[u].block = 0)
    BY UploaderTyped DEF AskInv, CountKept
  <1>1. m.to = "client" /\ m.op = "ACK" /\ m.block # NBlocks /\ m.port = p
    BY DEF ClientStep, ClientData, ClientAck, ClientError, ClientIgnores, ForClient, WriteHeld
  <1>2. CASE ClientAck(m)
    <2>1. PICK b \in Nat :
            /\ b = Awaited(u) /\ b <= NBlocks /\ m.block = b % BlockMod
            /\ client'[u].port = m.port /\ client'[u].phase = IF b = NBlocks THEN "done" ELSE "run"
            /\ b # NBlocks => b + 1 \in 1 .. NBlocks
      BY <1>0, <1>2, AckNoted
    <2>2. m.block = b
      BY <2>1, BlockNumber, TftpAssumption DEF Numbered
    <2>3. b # NBlocks /\ b + 1 \in 1 .. NBlocks
      BY <1>1, <2>1, <2>2
    <2> DEFINE a == Datagram("server", "DATA", u, p, b + 1, LenOf(b + 1), b + 1)
    <2>4. Deliver(m, {a})
      BY <1>1, <1>2, <2>1, <2>3 DEF ClientAck
    <2>5. a.port = p /\ a.to = "server" /\ a.op = "DATA" /\ (a.len = "full" => a.block < NBlocks)
      <3>1. (b + 1) % BlockMod = b + 1
        BY <2>3, BlockNumber, TftpAssumption DEF Numbered
      <3>2. LenOf(b + 1) = "full" => b + 1 < NBlocks
        BY <2>3, TftpAssumption DEF LenOf
      <3>3. QED
        BY <3>1, <3>2 DEF Datagram
    <2> HIDE DEF a
    <2>6. \A n \in net' : n \in net \/ n = a
      BY <2>4, Delivered
    <2>7. client'[u].phase = "run" /\ client'[u].port = p
      BY <1>1, <2>1, <2>3
    <2>8. QED
      BY <2>5, <2>6, <2>7 DEF WriteHeld
  <1>3. CASE ClientIgnores(m)
    <2>1. net' \subseteq net /\ net \ {m} \subseteq net' /\ client' = client
      BY <1>3, Delivered DEF ClientIgnores
    <2>2. ~(client[u].phase = "req" /\ m.block = 0)
      <3>1. ASSUME client[u].phase = "req", m.block = 0 PROVE FALSE
        <4>1. Awaited(u) % BlockMod = 0
          BY <1>0, <3>1, BlockNumber, TftpAssumption DEF Awaited
        <4>2. ForClient(m)
          BY <1>1, <3>1, <4>1 DEF ForClient
        <4>3. QED
          BY <1>3, <4>2 DEF ClientIgnores
      <3>2. QED
        BY <3>1
    <2>3. QED
      BY <1>1, <2>1, <2>2 DEF WriteHeld
  <1>4. QED
    BY <1>1, <1>2, <1>3 DEF ClientStep, ClientData, ClientError

\* It sends its packet again, or says that it gives up.
LEMMA WriteRepeated ==
  ASSUME OneRequest, AskInv, NEW u \in Up, NEW p \in Ports, WriteHeld(u, p), pcb' = pcb,
         pcb[p].use = "write", peer[p] = u, Start(u) \/ Timeout(u) \/ Abort(u)
  PROVE  WriteHeld(u, p)'
  <1>0. /\ RouteInv /\ CountKept /\ u \in Clients /\ u \notin Readers /\ client[u].block \in Nat
        /\ client \in [Clients -> States] /\ client[u] \in States /\ Request(u).op = "WRQ"
    BY UploaderTyped DEF AskInv
  <1>1. ~Start(u)
    BY DEF Start, WriteHeld
  <1>2. client[u].phase = "run"
    <2>1. Timeout(u) => client[u].phase # "req"
      BY <1>0 DEF Timeout, Pending, OneRequest
    <2>2. QED
      BY <1>1, <2>1 DEF Timeout, Abort
  <1>3. client[u].port = p
    BY <1>2 DEF WriteHeld
  <1>4. CASE Timeout(u)
    <2> DEFINE b == client[u].block + 1
               a == Datagram("server", "DATA", u, p, b, LenOf(b), b)
    <2>1. Pending(u) = a /\ net' = net \cup {Pending(u)} /\ client' = client
      BY <1>0, <1>2, <1>3, <1>4 DEF Timeout, Pending
    <2>2. a.port = p /\ a.to = "server" /\ a.op = "DATA" /\ (a.len = "full" => a.block < NBlocks)
      <3>1. b \in 1 .. NBlocks
        BY <1>0, <1>2, TftpAssumption DEF CountKept
      <3>2. b % BlockMod = b
        BY <3>1, BlockNumber, TftpAssumption DEF OneRequest, Numbered
      <3>3. LenOf(b) = "full" => b < NBlocks
        BY <3>1, TftpAssumption DEF LenOf
      <3>4. QED
        BY <3>2, <3>3 DEF Datagram
    <2> HIDE DEF a
    <2>3. QED
      BY <1>2, <1>3, <2>1, <2>2 DEF WriteHeld
  <1>5. CASE Abort(u)
    <2>1. PICK code \in AbortCodes :
            net' = net \cup {Datagram("server", "ERROR", u, client[u].port, code, "part", 0)}
      BY <1>5 DEF Abort
    <2> DEFINE a == Datagram("server", "ERROR", u, client[u].port, code, "part", 0)
    <2>2. a.client = u /\ a.port = p /\ a.to = "server" /\ a.op = "ERROR" /\ a.len = "part"
      BY <1>3 DEF Datagram
    <2>3. client'[u].phase = "failed"
      BY <1>0, <1>5 DEF Abort, States
    <2> HIDE DEF a
    <2>4. net' = net \cup {a}
      BY <2>1 DEF a
    <2>5. QED
      BY <2>2, <2>3, <2>4 DEF WriteHeld
  <1>6. QED
    BY <1>1, <1>4, <1>5

-----------------------------------------------------------------------------
(* The downloads' ports.                                                   *)

\* No step for somebody else gives the download a pcb.
LEMMA ReadsStays ==
  ASSUME RouteInv, NEW c \in Readers,
         \/ \E m \in net : ServerStep(m) /\ m.client # c
         \/ \E p \in Ports : CleanupStep(p)
         \/ UNCHANGED <<serverVars, history>>,
         NEW q \in Ports, Reads(q, c)'
  PROVE  Reads(q, c)
  <1>1. CASE UNCHANGED <<serverVars, history>>
    BY <1>1 DEF Reads, serverVars, history
  <1>2. ASSUME NEW p \in Ports, CleanupStep(p) PROVE Reads(q, c)
    BY <1>2 DEF Reads, CleanupStep, CleanupWr, NoPcb, RouteInv, TypeOK
  <1>3. ASSUME NEW m \in net, ServerStep(m), m.client # c PROVE Reads(q, c)
    <2>1. OnPort(m) \/ OnNewPort(m)
      BY <1>3, Routed DEF ServerStep
    <2>2. CASE OnPort(m)
      <3>1. peer' = peer /\ Left(q)
        BY <1>3, <2>2 DEF OnPort, ServerStep
      <3>2. QED
        BY <3>1 DEF Reads, Left
    <2>3. CASE OnNewPort(m)
      <3>1. q # nextPort
        <4>1. nextPort' # nextPort
          BY <2>3, PortBounds DEF OnNewPort
        <4>2. QED
          BY <1>3, <4>1, PeersOf DEF Reads
      <3>2. pcb'[q] = pcb[q] /\ peer'[q] = peer[q]
        BY <1>3, <2>3, <3>1, PeersOf DEF OnNewPort
      <3>3. QED
        BY <3>2 DEF Reads
    <2>4. QED
      BY <2>1, <2>2, <2>3
  <1>4. QED
    BY <1>1, <1>2, <1>3

\* What the server does with a packet of a downloading client.
LEMMA ReadHandles ==
  ASSUME RouteInv, NEW m \in net, m.client \in Readers, Handle(m)
  PROVE  \/ RequestDropped(m) \/ Unclaimed(m) \/ RequestStranded(m) \/ RequestRefused(m)
         \/ ReadStart(m) \/ RrqNext(m) \/ RrqEnd(m)
  <1>1. m.client \in Clients /\ m.client \notin Up /\ Role(m) /\ Uses(m.client, m.port)
    BY RouteFacts DEF Up
  <1>2. m.op # "WRQ" /\ ~For(m, "write")
    BY <1>1 DEF Role, For, RouteInv, PortsKept
  <1>3. ~WriteStart(m) /\ ~OnFile(m)
    BY <1>2 DEF WriteStart, IsRequest, OnFile, WrqStore, WrqFail, WrqEmpty, WrqOther, WrqAnswer
  <1>4. QED
    BY <1>3 DEF Handle, OnFile

\* What a downloading client sends of its own, and what becomes of it.
LEMMA ReaderMoves ==
  ASSUME RequestsOnce, RouteInv, NEW c \in Readers, Moves(c)
  PROVE  /\ UNCHANGED <<serverVars, history>>
         /\ \/ Start(c)
            \/ \E m \in net : m.client = c /\ (ClientData(m) \/ ClientError(m))
            \/ Timeout(c) /\ client[c].phase = "run" /\ client' = client
         /\ ~Start(c) => \A n \in net' : n \in net \/ n.op = "ACK"
  <1>0. /\ c \in Clients /\ Request(c).op = "RRQ" /\ client[c] \in States
    BY ReaderFacts
  <1>1. ASSUME NEW m \in net, m.client = c PROVE ~ClientAck(m)
    BY <1>0, <1>1, RouteFacts DEF ClientAck, ForClient, Role
  <1>2. ~Abort(c)
    BY DEF Abort
  <1>3. Timeout(c) => client[c].phase = "run" /\ client' = client
    BY <1>0 DEF Timeout, Pending, RequestsOnce
  <1>4. UNCHANGED <<serverVars, history>>
    <2>1. (\E m \in net : ClientStep(m)) \/ Start(c) \/ Timeout(c) \/ Abort(c)
      BY DEF Moves, ClientStep
    <2>2. QED
      BY <2>1, ClientsLeave
  <1>5. ASSUME Timeout(c) PROVE \A n \in net' : n \in net \/ n.op = "ACK"
    <2>1. Pending(c).op = "ACK" /\ net' = net \cup {Pending(c)}
      BY <1>3, <1>5 DEF Timeout, Pending, Datagram
    <2>2. QED
      BY <2>1
  <1>6. ASSUME NEW m \in net, m.client = c, ClientData(m) \/ ClientError(m)
        PROVE  \A n \in net' : n \in net \/ n.op = "ACK"
    <2>1. CASE ClientData(m)
      <3>1. PICK a : Deliver(m, {a}) /\ a.op = "ACK"
        <4> DEFINE a == Datagram("server", "ACK", c, m.port, Awaited(c), "empty", 0)
        <4>1. a.op = "ACK"
          BY DEF Datagram
        <4>2. Deliver(m, {a})
          BY <1>6, <2>1 DEF ClientData
        <4> HIDE DEF a
        <4>3. QED
          BY <4>1, <4>2
      <3>2. QED
        BY <3>1, Delivered
    <2>2. CASE ClientError(m)
      BY <2>2, Delivered DEF ClientError
    <2>3. QED
      BY <1>6, <2>1, <2>2
  <1>7. (\E m \in net : m.client = c /\ (ClientData(m) \/ ClientError(m))) \/ Start(c) \/ Timeout(c)
    BY <1>1, <1>2 DEF Moves
  <1>8. ~Start(c) => \A n \in net' : n \in net \/ n.op = "ACK"
    BY <1>5, <1>6, <1>7
  <1>9. QED
    BY <1>3, <1>4, <1>7, <1>8

LEMMA AsksToReadNext ==
  ASSUME RequestsOnce, RouteInv, [Next]_vars, NEW c \in Readers, AsksToRead(c)
  PROVE  AsksToRead(c)'
  <1>0. /\ c \in Clients /\ client \in [Clients -> States] /\ client[c] \in States
        /\ Request(c).op = "RRQ" /\ Request(c).to = "server" /\ Request(c).client = c
        /\ Request(c)' = Request(c)
    BY ReaderFacts DEF Request
  <1>1. CASE Elsewhere(c)
    <2>1. client'[c] = client[c] /\ UNCHANGED <<serverVars, history>>
          /\ \A n \in net' : n.client = c => n \in net
      BY <1>0, <1>1, ElsewhereStays
    <2>2. \A p \in Ports : Reads(p, c)' => Reads(p, c)
      BY <2>1, ReadsStays
    <2>3. QED
      BY <1>0, <2>1, <2>2 DEF AsksToRead
  <1>2. ASSUME NEW p \in Ports, CleanupStep(p) PROVE AsksToRead(c)'
    <2>1. client' = client /\ net' = net
      BY <1>2 DEF CleanupStep, CleanupWr
    <2>2. \A q \in Ports : Reads(q, c)' => Reads(q, c)
      BY <1>2, ReadsStays
    <2>3. QED
      BY <1>0, <2>1, <2>2 DEF AsksToRead
  <1>3. ASSUME NEW m \in net, ServerStep(m), m.client # c PROVE AsksToRead(c)'
    <2>1. client' = client /\ \A n \in net' : n.client = c => n \in net
      BY <1>3, Routed DEF ServerStep, OnPort, OnNewPort, Answers
    <2>2. \A q \in Ports : Reads(q, c)' => Reads(q, c)
      BY <1>3, ReadsStays
    <2>3. QED
      BY <1>0, <2>1, <2>2 DEF AsksToRead
  <1>4. ASSUME NEW m \in net, ServerStep(m), m.client = c PROVE AsksToRead(c)'
    <2>1. client' = client /\ Handle(m) /\ client[c].phase # "idle"
      BY <1>4 DEF ServerStep, AsksToRead
    <2>2. Request(c) \notin net'
      <3>1. \A n \in net' : n \in net \/ n.to = "client"
        BY <2>1, Routed DEF OnPort, OnNewPort, Answers
      <3>2. CASE m = Request(c)
        <4>1. m.op \notin Keep
          BY <1>0, <3>2 DEF RequestsOnce
        <4>2. PICK R : Deliver(m, R) /\ \A n \in R : n.to = "client"
          <5>2. ~For(m, "read")
            BY <1>0, <3>2, PortBounds DEF For, Request, Datagram
          <5>3. RequestDropped(m) \/ Unclaimed(m) \/ RequestStranded(m) \/ RequestRefused(m) \/ ReadStart(m)
            BY <1>4, <2>1, <5>2, ReadHandles DEF RrqNext, RrqEnd
          <5>4. CASE ReadStart(m)
            <6>1. PICK r : Deliver(m, {NextBlock(c, nextPort, 1, r)})
              BY <1>4, <5>4 DEF ReadStart
            <6>2. NextBlock(c, nextPort, 1, r).to = "client"
              BY DEF NextBlock, Datagram
            <6>3. QED
              BY <6>1, <6>2
          <5>5. CASE ~ReadStart(m)
            <6>1. Deliver(m, {}) \/ Deliver(m, {Error(c, nextPort)})
              BY <1>4, <5>3, <5>5 DEF RequestDropped, Unclaimed, RequestStranded, RequestRefused
            <6>2. Error(c, nextPort).to = "client"
              BY DEF Error, Datagram
            <6>3. QED
              BY <6>1, <6>2
          <5>6. QED
            BY <5>4, <5>5
        <4>3. m \notin R
          BY <1>0, <3>2, <4>2
        <4>4. QED
          BY <3>2, <4>1, <4>2, <4>3, Delivered
      <3>3. CASE m # Request(c)
        <4>1. Request(c) \notin net
          BY <1>4, <3>3 DEF AsksToRead
        <4>2. QED
          BY <1>0, <3>1, <4>1
      <3>4. QED
        BY <3>2, <3>3
    <2>3. QED
      BY <1>0, <2>1, <2>2 DEF AsksToRead
  <1>5. CASE Moves(c)
    <2>0. UNCHANGED <<serverVars, history>>
      BY <1>5, ReaderMoves
    <2>1. \A p \in Ports : Reads(p, c)' => Reads(p, c)
      BY <2>0, ReadsStays
    <2>2. CASE Start(c)
      <3>1. /\ client[c].phase = "idle" /\ client'[c].phase = "req" /\ client'[c].block = client[c].block
            /\ net' = net \cup {Request(c)}
        BY <1>0, <2>2 DEF Start, States
      <3>2. QED
        BY <1>0, <2>1, <3>1 DEF AsksToRead
    <2>3. CASE ~Start(c)
      <3>1. Request(c) \notin net /\ client'[c].phase \notin {"idle", "req"}
        <4>1. ASSUME NEW m \in net, m.client = c, ClientData(m) \/ ClientError(m)
              PROVE  Request(c) \notin net /\ client'[c].phase \in {"run", "done", "failed"}
          <5>1. m.to = "client"
            BY <4>1 DEF ClientData, ClientError, ForClient
          <5>2. client'[c].phase \in {"run", "done", "failed"}
            BY <1>0, <4>1 DEF ClientData, ClientError, States
          <5>3. QED
            BY <1>0, <4>1, <5>1, <5>2 DEF AsksToRead
        <4>2. CASE client[c].phase = "run" /\ client' = client
          BY <4>2 DEF AsksToRead
        <4>3. QED
          BY <1>5, <2>3, <4>1, <4>2, ReaderMoves
      <3>2. Request(c) \notin net'
        BY <1>0, <1>5, <2>3, <3>1, ReaderMoves
      <3>3. QED
        BY <1>0, <3>1, <3>2 DEF AsksToRead
    <2>4. QED
      BY <2>2, <2>3
  <1>6. QED
    BY <1>0, <1>1, <1>2, <1>3, <1>4, <1>5, StepCases

\* Block 1 is the answer to a request that was made once.
LEMMA ReadBegins ==
  ASSUME RequestsOnce, AskInv, NEW m \in net, ServerStep(m), ReadStart(m), NEW p \in Ports, p = nextPort
  PROVE  ReadHeld(m.client, p)'
  <1> DEFINE c == m.client
  <1>1. m.op = "RRQ" /\ \E r : Deliver(m, {NextBlock(c, p, 1, r)})
                               /\ pcb' = [pcb EXCEPT ![p] = [use |-> "read", block |-> 1, len |-> r.len]]
    <2>1. IsRequest(m, "RRQ")
      BY DEF ReadStart
    <2>2. QED
      BY <2>1 DEF ReadStart, IsRequest
  <1>2. PICK r : Deliver(m, {NextBlock(c, p, 1, r)})
                 /\ pcb' = [pcb EXCEPT ![p] = [use |-> "read", block |-> 1, len |-> r.len]]
    BY <1>1
  <1>3. c \in Readers /\ m = Request(c) /\ pcb \in [Ports -> Pcbs] /\ client' = client
    BY <1>1, RouteFacts DEF AskInv, Role, ServerStep
  <1>4. client[c].phase = "req" /\ client[c].block = 0 /\ \A n \in net : n.client = c => n = m
    BY <1>3 DEF AskInv, AsksToRead
  <1> DEFINE a == NextBlock(c, p, 1, r)
  <1>5. a.port = p /\ a.op = "DATA" /\ a.block = 1 /\ a.client = c /\ a.len = r.len /\ a.to = "client"
    <2>1. 1 % BlockMod = 1
      BY BlockNumber, TftpAssumption DEF RequestsOnce, OneRequest, Numbered
    <2>2. QED
      BY <2>1 DEF NextBlock, Datagram
  <1>6. m.op \notin Keep
    BY <1>1 DEF RequestsOnce
  <1> HIDE DEF a
  <1>7. a \in net' /\ \A n \in net' : n.client = c => n = a
    BY <1>2, <1>4, <1>6, Delivered DEF a
  <1>8. pcb'[p].len = r.len
    BY <1>2, <1>3
  <1>9. QED
    BY <1>3, <1>4, <1>5, <1>7, <1>8 DEF ReadHeld

\* The server reads on only for a client that goes on, and what it sends last it knows.
LEMMA ReadGoesOnHeld ==
  ASSUME RouteInv, NEW m \in net, ServerStep(m), RrqNext(m), NEW p \in Ports, p = m.port,
         ReadHeld(m.client, p)
  PROVE  ReadHeld(m.client, p)'
  <1> DEFINE c == m.client
  <1>1. /\ m.to = "server" /\ pcb \in [Ports -> Pcbs] /\ client' = client /\ pcb[p].len = "full"
    BY PacketsStay, RouteFacts DEF ServerStep, RrqNext
  <1>2. client[c].phase = "run" /\ client[c].port = p
    BY <1>1 DEF ReadHeld
  <1>3. PICK a, r : /\ Deliver(m, {a}) /\ a = NextBlock(c, p, BlockAfter(m), r)
                    /\ pcb' = [pcb EXCEPT ![p].block = BlockAfter(m), ![p].len = r.len]
    BY DEF RrqNext
  <1>4. a.port = p /\ a.op = "DATA" /\ a.len = r.len
    BY <1>3 DEF NextBlock, Datagram
  <1>5. pcb'[p].len = r.len
    BY <1>1, <1>3 DEF Pcbs
  <1>6. \A n \in net' : n \in net \/ n = a
    BY <1>3, Delivered
  <1>7. \A n \in net : n.client = c => n.port = p /\ n.op \in {"DATA", "ACK"} /\ (n.op = "DATA" => n.len = "full")
    BY <1>1 DEF ReadHeld
  <1>8. \A n \in net' : n.client = c => /\ n.port = p /\ n.op \in {"DATA", "ACK"}
                                        /\ n.op = "DATA" /\ n.len # "full" => pcb'[p].len # "full"
    BY <1>4, <1>5, <1>6, <1>7
  <1>9. QED
    BY <1>1, <1>2, <1>8 DEF ReadHeld

\* What the server does keeps the downloads' pcbs held.
LEMMA ReadsHeldServer ==
  ASSUME RequestsOnce, AskInv, ReadsHeld, NEW m \in net, ServerStep(m)
  PROVE  ReadsHeld'
  <1> SUFFICES ASSUME NEW p \in Ports, pcb'[p].use = "read" PROVE ReadHeld(peer[p], p)'
    BY DEF ReadsHeld
  <1>0. RouteInv /\ pcb \in [Ports -> Pcbs] /\ Handle(m) /\ peer \in [Ports -> Clients]
    BY RouteFacts DEF AskInv, ServerStep, RouteInv, TypeOK
  <1>1. CASE pcb[p].use # "read"
    <2>1. OnNewPort(m) /\ p = nextPort /\ nextPort' # nextPort
      BY <1>0, <1>1, Routed, PortBounds DEF OnPort, OnNewPort, Left
    <2>2. ReadStart(m)
      <3>1. RequestStranded(m) \/ RequestRefused(m) \/ ReadStart(m) \/ WriteStart(m)
        BY <1>0, <2>1 DEF Handle, RequestDropped, RrqNext, RrqEnd, WrqStore, WrqFail, WrqEmpty,
                          WrqOther, WrqAnswer, Unclaimed, serverVars
      <3>2. ~RequestStranded(m) /\ ~RequestRefused(m) /\ ~WriteStart(m)
        BY <1>0, <1>1, <2>1 DEF RequestStranded, RequestRefused, WriteStart, Pcbs
      <3>3. QED
        BY <3>1, <3>2
    <2>3. peer'[p] = m.client
      BY <1>0, <2>1, PeersOf
    <2>4. PICK c : c = m.client
      OBVIOUS
    <2>5. ReadHeld(c, p)'
      BY <2>1, <2>2, <2>4, ReadBegins
    <2>6. QED
      BY <2>3, <2>4, <2>5 DEF ReadHeld
  <1>2. CASE pcb[p].use = "read" /\ p = m.port
    <2>1. peer[p] = m.client /\ p # nextPort
      BY <1>0, <1>2, PeersOf
    <2>2. peer'[p] = peer[p]
      BY <1>0, <2>1, PeersOf
    <2>3. m.client \in Readers
      BY <1>0, <1>2, RouteFacts DEF RouteInv, PortsKept
    <2>4. RrqNext(m)
      <3>1. m.port # 0
        BY <1>2, PortBounds
      <3>2. ~RrqEnd(m)
        BY <1>0, <1>2 DEF RrqEnd, NoPcb
      <3>3. QED
        BY <1>0, <1>2, <2>3, <3>1, <3>2, ReadHandles DEF RequestDropped, RequestStranded, RequestRefused,
              ReadStart, IsRequest, Unclaimed
    <2>5. PICK c : c = m.client
      OBVIOUS
    <2>6. ReadHeld(c, p)'
      BY <1>0, <1>2, <2>1, <2>4, <2>5, ReadGoesOnHeld DEF ReadsHeld
    <2>7. QED
      BY <2>1, <2>2, <2>5, <2>6 DEF ReadHeld
  <1>3. CASE pcb[p].use = "read" /\ p # m.port
    <2>1. PICK c : c = peer[p]
      OBVIOUS
    <2>2. ReadHeld(c, p)
      BY <1>3, <2>1 DEF ReadsHeld
    <2>3. c # m.client
      BY <1>3, <2>2 DEF ReadHeld
    <2>4. ReadHeld(c, p)' /\ peer'[p] = c
      BY <1>0, <1>3, <2>1, <2>2, <2>3, OtherPorts, OthersHold
    <2>5. QED
      BY <2>4 DEF ReadHeld
  <1>4. QED
    BY <1>1, <1>2, <1>3

\* The downloading client acknowledges a block on the port it came from.
LEMMA ReadAnswered ==
  ASSUME RequestsOnce, AskInv, NEW c \in Readers, NEW p \in Ports, ReadHeld(c, p), pcb' = pcb,
         NEW m \in net, ClientStep(m), m.client = c
  PROVE  ReadHeld(c, p)'
  <1>0. /\ RouteInv /\ c \in Clients /\ client \in [Clients -> States] /\ client[c] \in States
        /\ Role(m)
    BY ReaderFacts, RouteFacts DEF AskInv
  <1>1. m.to = "client" /\ m.op = "DATA" /\ m.port = p /\ (m.len # "full" => pcb[p].len # "full")
    BY <1>0 DEF ClientStep, ClientData, ClientAck, ClientError, ClientIgnores, ForClient, ReadHeld, Role
  <1>2. CASE ClientData(m)
    <2> DEFINE a == Datagram("server", "ACK", c, p, Awaited(c), "empty", 0)
    <2>1. Deliver(m, {a})
      BY <1>1, <1>2 DEF ClientData
    <2>2. a.port = p /\ a.to = "server" /\ a.op = "ACK" /\ a.client = c
      BY DEF Datagram
    <2> HIDE DEF a
    <2>3. a \in net' /\ \A n \in net' : n \in net \/ n = a
      BY <2>1, Delivered
    <2>4. client'[c].port = p /\ client'[c].phase = IF m.len = "full" THEN "run" ELSE "done"
      BY <1>0, <1>1, <1>2 DEF ClientData
    <2>5. QED
      BY <1>1, <2>2, <2>3, <2>4 DEF ReadHeld
  <1>3. CASE ClientIgnores(m)
    <2>1. net' \subseteq net /\ net \ {m} \subseteq net' /\ client' = client
      BY <1>3, Delivered DEF ClientIgnores
    <2>2. ~(client[c].phase = "req" /\ client[c].block = 0 /\ m.block = 1)
      <3>1. ASSUME client[c].phase = "req", client[c].block = 0, m.block = 1 PROVE FALSE
        <4>1. Awaited(c) % BlockMod = 1
          BY <3>1, BlockNumber, TftpAssumption DEF Awaited, RequestsOnce, OneRequest, Numbered
        <4>2. ForClient(m)
          BY <1>0, <1>1, <3>1, <4>1 DEF ForClient
        <4>3. QED
          BY <1>3, <4>2 DEF ClientIgnores
      <3>2. QED
        BY <3>1
    <2>3. QED
      BY <1>1, <2>1, <2>2 DEF ReadHeld
  <1>4. QED
    BY <1>1, <1>2, <1>3 DEF ClientStep, ClientAck, ClientError

\* It asks once, and may acknowledge again.
LEMMA ReadRepeated ==
  ASSUME RequestsOnce, AskInv, NEW c \in Readers, NEW p \in Ports, ReadHeld(c, p), pcb' = pcb,
         Start(c) \/ Timeout(c) \/ Abort(c)
  PROVE  ReadHeld(c, p)'
  <1>1. ~Start(c) /\ ~Abort(c)
    BY DEF Start, Abort, ReadHeld
  <1>2. Timeout(c) /\ client[c].phase = "run" /\ client' = client
    <2>1. Request(c).op = "RRQ"
      BY ReaderFacts DEF AskInv
    <2>2. QED
      BY <1>1, <2>1 DEF Timeout, Pending, RequestsOnce
  <1>3. client[c].port = p
    BY <1>2 DEF ReadHeld
  <1>4. Pending(c).port = p /\ Pending(c).op = "ACK" /\ net' = net \cup {Pending(c)}
    BY <1>2, <1>3 DEF Timeout, Pending, Datagram
  <1>5. QED
    BY <1>2, <1>3, <1>4 DEF ReadHeld

-----------------------------------------------------------------------------
(* The theorem about ports.                                                *)

LEMMA StrandedIsHarm ==
  ASSUME RouteInv, Strays, NEW m \in net, ServerStep(m)
  PROVE  Strays'
  <1> SUFFICES ASSUME NEW p \in Ports, pcb'[p].use = "bare" PROVE harmed' # {}
    BY DEF Strays
  <1>0. pcb \in [Ports -> Pcbs] /\ harmed \subseteq harmed'
    BY RouteFacts DEF ServerStep, Harm
  <1>1. CASE pcb[p].use = "bare"
    BY <1>0, <1>1 DEF Strays
  <1>2. CASE pcb[p].use # "bare"
    <2>1. nextPort \in Ports /\ p = nextPort /\ nextPort' = nextPort + 1
      BY <1>2, Routed DEF ServerStep, OnPort, OnNewPort, Left
    <2>2. nextPort' # nextPort
      BY <2>1, PortBounds
    <2>3. RequestStranded(m) \/ RequestRefused(m) \/ ReadStart(m) \/ WriteStart(m)
      BY <2>2 DEF ServerStep, Handle, RequestDropped, RrqNext, RrqEnd, WrqStore, WrqFail, WrqEmpty,
                  WrqOther, WrqAnswer, Unclaimed, serverVars
    <2>4. ~RequestRefused(m) /\ ~WriteStart(m)
      BY <1>0, <1>2, <2>1 DEF RequestRefused, WriteStart
    <2>5. ~ReadStart(m)
      <3>1. ASSUME ReadStart(m) PROVE FALSE
        <4>1. PICK len : pcb' = [pcb EXCEPT ![nextPort] = [use |-> "read", block |-> 1, len |-> len]]
          BY <3>1 DEF ReadStart
        <4>2. QED
          BY <1>0, <2>1, <4>1
      <3>2. QED
        BY <3>1
    <2>6. m.client \in harmed'
      BY <2>3, <2>4, <2>5 DEF RequestStranded, ServerStep, Harm
    <2>7. QED
      BY <2>6
  <1>3. QED
    BY <1>1, <1>2

PortsInv == AskInv /\ WritesHeld /\ ReadsHeld /\ Strays

LEMMA PortsInit == Init => PortsInv
  <1> SUFFICES ASSUME Init PROVE PortsInv
    OBVIOUS
  <1>1. \A p \in Ports : pcb[p].use = "free"
    BY DEF Init, ServerInit, NoPcb
  <1>2. net = {} /\ \A c \in Clients : client[c].block = 0
    BY DEF Init
  <1>3. \A c \in Readers : AsksToRead(c)
    BY <1>1, <1>2, TransferAssumption DEF AsksToRead, Reads
  <1>4. WritesHeld /\ ReadsHeld /\ Strays
    BY <1>1 DEF WritesHeld, ReadsHeld, Strays
  <1>5. QED
    BY <1>3, <1>4, TypeInit, RouteInit, UploadInit, DoneInit DEF PortsInv, AskInv, RouteInv

LEMMA PortsHeldNext ==
  ASSUME RequestsOnce, ~Lossy, PortsInv, [Next]_vars
  PROVE  WritesHeld' /\ ReadsHeld' /\ Strays'
  <1>0. /\ RouteInv /\ AskInv /\ OneRequest /\ Numbered /\ client \in [Clients -> States] /\ peer \in [Ports -> Clients]
        /\ pcb \in [Ports -> Pcbs]
        /\ \A p \in Ports : /\ pcb[p].use = "write" => peer[p] \in Up /\ WriteHeld(peer[p], p)
                            /\ pcb[p].use = "read" => peer[p] \in Readers /\ ReadHeld(peer[p], p)
        /\ \A p \in Ports : peer[p] \in Clients
    <2>1. RouteInv /\ AskInv /\ OneRequest /\ Numbered
      BY DEF PortsInv, AskInv, RequestsOnce, OneRequest
    <2>2. client \in [Clients -> States] /\ peer \in [Ports -> Clients] /\ pcb \in [Ports -> Pcbs]
      BY <2>1 DEF RouteInv, TypeOK, Pcbs, States, Blocks
    <2>3. QED
      BY <2>1, <2>2 DEF RouteInv, PeersKept, PortsInv, WritesHeld, ReadsHeld
  <1>1. ASSUME NEW m \in net, ServerStep(m) PROVE WritesHeld' /\ ReadsHeld' /\ Strays'
    BY <1>0, <1>1, WritesHeldServer, ReadsHeldServer, StrandedIsHarm DEF PortsInv
  <1>2. ASSUME UNCHANGED <<serverVars, history>>,
               \A p \in Ports, u \in Up : pcb[p].use = "write" /\ peer[p] = u /\ WriteHeld(u, p) => WriteHeld(u, p)',
               \A p \in Ports, c \in Readers : pcb[p].use = "read" /\ peer[p] = c /\ ReadHeld(c, p) => ReadHeld(c, p)'
        PROVE  WritesHeld' /\ ReadsHeld' /\ Strays'
    <2>1. pcb' = pcb /\ peer' = peer /\ harmed' = harmed
      BY <1>2 DEF serverVars, history
    <2>2. ASSUME NEW p \in Ports, pcb[p].use = "write" PROVE WriteHeld(peer[p], p)'
      <3>1. PICK u \in Up : u = peer[p]
        BY <1>0, <2>2
      <3>2. WriteHeld(u, p)' /\ peer'[p] = u
        BY <1>0, <1>2, <2>1, <2>2, <3>1
      <3>3. QED
        BY <3>2 DEF WriteHeld
    <2>3. ASSUME NEW p \in Ports, pcb[p].use = "read" PROVE ReadHeld(peer[p], p)'
      <3>1. PICK c \in Readers : c = peer[p]
        BY <1>0, <2>3
      <3>2. ReadHeld(c, p)' /\ peer'[p] = c
        BY <1>0, <1>2, <2>1, <2>3, <3>1
      <3>3. QED
        BY <3>2 DEF ReadHeld
    <2>4. QED
      BY <2>1, <2>2, <2>3 DEF WritesHeld, ReadsHeld, Strays, PortsInv
  <1>3. ASSUME NEW m \in net, ClientStep(m) PROVE WritesHeld' /\ ReadsHeld' /\ Strays'
    <2>1. UNCHANGED <<serverVars, history>> /\ pcb' = pcb
      BY <1>3, ClientsLeave DEF serverVars
    <2>2. ASSUME NEW p \in Ports, NEW u \in Up, WriteHeld(u, p) PROVE WriteHeld(u, p)'
      <3>1. CASE m.client = u
        BY <1>0, <1>3, <2>1, <2>2, <3>1, WriteAnswered
      <3>2. CASE m.client # u
        BY <1>0, <1>3, <2>1, <2>2, <3>2, OtherClients, OthersHold, UploaderTyped
      <3>3. QED
        BY <3>1, <3>2
    <2>3. ASSUME NEW p \in Ports, NEW c \in Readers, ReadHeld(c, p) PROVE ReadHeld(c, p)'
      <3>1. CASE m.client = c
        BY <1>0, <1>3, <2>1, <2>3, <3>1, ReadAnswered
      <3>2. CASE m.client # c
        BY <1>0, <1>3, <2>1, <2>3, <3>2, OtherClients, OthersHold, ReaderFacts
      <3>3. QED
        BY <3>1, <3>2
    <2>4. QED
      BY <1>2, <2>1, <2>2, <2>3
  <1>4. ASSUME NEW d \in Clients, Start(d) \/ Timeout(d) \/ Abort(d) PROVE WritesHeld' /\ ReadsHeld' /\ Strays'
    <2>1. UNCHANGED <<serverVars, history>> /\ pcb' = pcb
      BY <1>4, ClientsLeave DEF serverVars
    <2>2. ASSUME NEW p \in Ports, NEW u \in Up, pcb[p].use = "write", peer[p] = u, WriteHeld(u, p)
          PROVE  WriteHeld(u, p)'
      <3>1. CASE d = u
        BY <1>0, <1>4, <2>1, <2>2, <3>1, WriteRepeated
      <3>2. CASE d # u
        BY <1>0, <1>4, <2>1, <2>2, <3>2, OtherClients, OthersHold, UploaderTyped
      <3>3. QED
        BY <3>1, <3>2
    <2>3. ASSUME NEW p \in Ports, NEW c \in Readers, ReadHeld(c, p) PROVE ReadHeld(c, p)'
      <3>1. CASE d = c
        BY <1>0, <1>4, <2>1, <2>3, <3>1, ReadRepeated
      <3>2. CASE d # c
        BY <1>0, <1>4, <2>1, <2>3, <3>2, OtherClients, OthersHold, ReaderFacts
      <3>3. QED
        BY <3>1, <3>2
    <2>4. QED
      BY <1>2, <2>1, <2>2, <2>3
  <1>5. CASE HealthChanges \/ UNCHANGED vars
    <2>1. UNCHANGED <<serverVars, history, client, net>>
      BY <1>5, ClientsLeave
    <2>2. UNCHANGED <<pcb, peer, harmed, client, net>>
      BY <2>1 DEF serverVars, history
    <2>3. QED
      BY <2>2 DEF PortsInv, WritesHeld, ReadsHeld, Strays, WriteHeld, ReadHeld
  <1>6. ASSUME NEW q \in Ports, CleanupStep(q) PROVE WritesHeld' /\ ReadsHeld' /\ Strays'
    <2>1. /\ pcb[q].use = "closing" /\ pcb' = [pcb EXCEPT ![q] = NoPcb]
          /\ UNCHANGED <<net, client, peer>> /\ harmed \subseteq harmed'
      BY <1>6 DEF CleanupStep, CleanupWr, Harm
    <2>2. \A p \in Ports : pcb'[p].use # "free" => pcb'[p] = pcb[p]
      BY <1>0, <2>1 DEF NoPcb
    <2>3. ASSUME NEW p \in Ports, pcb'[p].use = "write" PROVE WriteHeld(peer[p], p)'
      <3>1. PICK u \in Up : u = peer[p] /\ WriteHeld(u, p)
        BY <1>0, <2>2, <2>3
      <3>2. WriteHeld(u, p)' /\ peer'[p] = u
        BY <2>1, <2>2, <2>3, <3>1, OthersHold
      <3>3. QED
        BY <3>2 DEF WriteHeld
    <2>4. ASSUME NEW p \in Ports, pcb'[p].use = "read" PROVE ReadHeld(peer[p], p)'
      <3>1. PICK c \in Readers : c = peer[p] /\ ReadHeld(c, p)
        BY <1>0, <2>2, <2>4
      <3>2. ReadHeld(c, p)' /\ peer'[p] = c
        BY <2>1, <2>2, <2>4, <3>1, OthersHold
      <3>3. QED
        BY <3>2 DEF ReadHeld
    <2>5. Strays'
      BY <2>1, <2>2 DEF PortsInv, Strays
    <2>6. QED
      BY <2>3, <2>4, <2>5 DEF WritesHeld, ReadsHeld
  <1>7. ASSUME NEW m \in net, Lose(m) PROVE FALSE
    BY <1>7 DEF Lose
  <1>8. QED
    BY <1>1, <1>3, <1>4, <1>5, <1>6, <1>7 DEF Next

LEMMA AskNext == RequestsOnce /\ AskInv /\ [Next]_vars => AskInv'
  <1> SUFFICES ASSUME RequestsOnce, AskInv, [Next]_vars PROVE AskInv'
    OBVIOUS
  <1>1. RouteInv' /\ CountKept'
    BY RouteNext, CountNext DEF AskInv
  <1>2. \A u \in Up : Asks(u)'
    BY AsksNext DEF AskInv, RequestsOnce
  <1>3. \A c \in Readers : AsksToRead(c)'
    BY AsksToReadNext DEF AskInv
  <1>4. QED
    BY <1>1, <1>2, <1>3 DEF AskInv, Up

\* When nothing is lost and no request repeated, every port comes back, also from transfers
\* that share a file or cut each other off: with no datagram under way, no client in a
\* transfer and no callback at work, a pcb is left only by a request that stopped where its
\* directory could not be opened (tftpserver.c:576, :597).
THEOREM PortsComeBack == ASSUME RequestsOnce, ~Lossy PROVE Spec => []PortsReturned
  <1>1. PortsInv /\ [Next]_vars => PortsInv'
    BY PortsHeldNext, AskNext DEF PortsInv
  <1>2. PortsInv => PortsReturned
    <2> SUFFICES ASSUME PortsInv, Quiet, NEW p \in Ports
        PROVE  pcb[p].use = "free" \/ (pcb[p].use = "bare" /\ harmed # {})
      BY DEF PortsReturned
    <2>1. pcb[p].use \in {"free", "bare", "read", "write", "closing"} /\ peer[p] \in Clients
      BY DEF PortsInv, AskInv, RouteInv, TypeOK
    <2>2. pcb[p].use # "write"
      BY <2>1 DEF PortsInv, WritesHeld, WriteHeld, Quiet
    <2>3. pcb[p].use # "read"
      BY <2>1 DEF PortsInv, ReadsHeld, ReadHeld, Quiet
    <2>4. QED
      BY <2>1, <2>2, <2>3 DEF PortsInv, Strays, Quiet
  <1>3. QED
    BY <1>1, <1>2, PortsInit, PTL DEF Spec
=============================================================================
