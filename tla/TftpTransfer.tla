---------------------------- MODULE TftpTransfer ----------------------------
(***************************************************************************)
(* The TFTP server with its clients and a network between them that loses, *)
(* delays, reorders and duplicates datagrams as far as the constants say.  *)
(* A client follows RFC 1350: it keeps one block under way, takes the port *)
(* of the first answer as the server's transfer id, ignores other ports    *)
(* and ignores acknowledgements it has seen.                               *)
(***************************************************************************)
EXTENDS TftpServer

CONSTANTS Readers,    \* the clients that download; the others upload
          Repeat,     \* what clients send again after a time-out: "RRQ", "WRQ", "DATA", "ACK"
          Lossy,      \* whether the network loses datagrams
          AbortCodes, \* the error codes with which an uploading client may give up
          MayFail,    \* whether the card and the heap may fail
          Recover     \* bound: whether they may do all they are asked for again

ASSUME TransferAssumption ==
  /\ Readers \subseteq Clients /\ Lossy \in BOOLEAN /\ MayFail \in BOOLEAN /\ Recover \in BOOLEAN
  /\ AbortCodes \subseteq Nat

VARIABLES
  client,  \* per client: phase, server port, last block got or acknowledged, data got
  peer,    \* history: whose request bound each port (to_ip and to_port of its args)
  harmed,  \* history: the clients a failure or another transfer got in the way of
  shared   \* history: the clients that had to share file_SD or file_CR

history == <<peer, harmed, shared>>
vars == <<serverVars, healthy, net, client, history>>

Content(c) ==
  [i \in 1 .. (IF LastLen = "empty" THEN NBlocks - 1 ELSE NBlocks) |-> <<c, i>>]

Init ==
  /\ ServerInit
  /\ net = {}
  /\ peer = [p \in Ports |-> CHOOSE c \in Clients : TRUE]
  /\ healthy = TRUE /\ harmed = {} /\ shared = {}
  /\ client = [c \in Clients |-> [phase |-> "idle", port |-> 0, block |-> 0, got |-> <<>>]]

----------------------------------------------------------------------------
(* Clients: external, after RFC 1350.                                      *)

Request(c) == Datagram("server", IF c \in Readers THEN "RRQ" ELSE "WRQ", c, 0, 0, "part", 0)

\* The packet a client waits behind.
Pending(c) ==
  CASE client[c].phase = "req" -> Request(c)
    [] client[c].phase = "run" /\ c \in Readers ->
         Datagram("server", "ACK", c, client[c].port, client[c].block, "empty", 0)
    [] OTHER ->
         LET i == client[c].block + 1
         IN Datagram("server", "DATA", c, client[c].port, i, LenOf(i), i)

\* Clients know nothing of each other: any of them may start at any time.
Start(c) ==
  /\ client[c].phase = "idle"
  /\ client' = [client EXCEPT ![c].phase = "req"]
  /\ net' = net \cup {Request(c)}
  /\ UNCHANGED <<serverVars, healthy, history>>

Timeout(c) ==
  /\ client[c].phase \in {"req", "run"}
  /\ Pending(c).op \in Repeat
  /\ net' = net \cup {Pending(c)}
  /\ UNCHANGED <<serverVars, healthy, client, history>>

\* The block number the client waits for.
Awaited(c) == IF c \in Readers \/ client[c].phase = "run" THEN client[c].block + 1 ELSE 0

ForClient(m) ==
  LET c == m.client
  IN /\ m.to = "client"
     /\ client[c].phase = "req" \/ (client[c].phase = "run" /\ m.port = client[c].port)
     /\ m.op = "ERROR" \/ m.block = Awaited(c) % BlockMod

\* The next block arrives: it is kept and acknowledged.
ClientData(m) ==
  LET c == m.client  b == Awaited(c)
  IN /\ ForClient(m) /\ m.op = "DATA"
     /\ client' = [client EXCEPT ![c] =
          [phase |-> IF m.len = "full" THEN "run" ELSE "done", port |-> m.port, block |-> b,
           got |-> IF m.len = "empty" THEN @.got ELSE Append(@.got, m.data)]]
     /\ Deliver(m, {Datagram("server", "ACK", c, m.port, b, "empty", 0)})
     /\ UNCHANGED <<serverVars, healthy, history>>

\* The awaited acknowledgement: the next block is sent, unless that was the last.
ClientAck(m) ==
  LET c == m.client  b == Awaited(c)
  IN /\ ForClient(m) /\ m.op = "ACK"
     /\ client' = [client EXCEPT ![c] =
          [@ EXCEPT !.phase = IF b = NBlocks THEN "done" ELSE "run",
                    !.port = m.port, !.block = b]]
     /\ Deliver(m, IF b = NBlocks THEN {}
                   ELSE {Datagram("server", "DATA", c, m.port, b + 1, LenOf(b + 1), b + 1)})
     /\ UNCHANGED <<serverVars, healthy, history>>

ClientError(m) ==
  /\ ForClient(m) /\ m.op = "ERROR"
  /\ client' = [client EXCEPT ![m.client].phase = "failed"]
  /\ Deliver(m, {})
  /\ UNCHANGED <<serverVars, healthy, history>>

\* A packet the client does not wait for.
ClientIgnores(m) ==
  /\ m.to = "client" /\ ~ForClient(m)
  /\ Deliver(m, {})
  /\ UNCHANGED <<serverVars, healthy, client, history>>

\* An uploading client gives up and says so.
Abort(c) ==
  /\ c \notin Readers /\ client[c].phase = "run"
  /\ client' = [client EXCEPT ![c].phase = "failed"]
  /\ \E code \in AbortCodes :
       net' = net \cup {Datagram("server", "ERROR", c, client[c].port, code, "part", 0)}
  /\ UNCHANGED <<serverVars, healthy, history>>

Lose(m) ==
  /\ Lossy /\ m \in net
  /\ net' = net \ {m}
  /\ UNCHANGED <<serverVars, healthy, client, history>>

ClientStep(m) == ClientData(m) \/ ClientAck(m) \/ ClientError(m) \/ ClientIgnores(m)

\* The transfers of others that a step taken for client c cuts off from their file.
CutOff(c) ==
  {d \in Clients \ {c} :
     \/ file_SD.ok /\ file_SD.owner = d /\ ~(file_SD'.ok /\ file_SD'.owner = d)
     \/ file_CR.ok /\ file_CR.owner = d /\ ~(file_CR'.ok /\ file_CR'.owner = d)}

Harm(c) == harmed' = harmed \cup CutOff(c) \cup IF healthy THEN {} ELSE {c}

\* The clients of two pcbs that read, or of two that write: both use the one FIL.
Sharing ==
  {peer[o] : o \in {q \in Ports : /\ pcb[q].use \in {"read", "write"}
                                 /\ \E r \in Ports \ {q} : pcb[r].use = pcb[q].use}}

ServerStep(m) ==
  /\ Handle(m)
  /\ peer' = IF nextPort' = nextPort THEN peer ELSE [peer EXCEPT ![nextPort] = m.client]
  /\ Harm(m.client)
  /\ shared' = shared \cup Sharing'
  /\ UNCHANGED <<client, healthy>>

CleanupStep(p) ==
  /\ CleanupWr(p)
  /\ Harm(peer[p])
  /\ UNCHANGED <<client, healthy, peer, shared>>

HealthChanges ==
  /\ MayFail /\ (healthy \/ Recover)
  /\ healthy' = ~healthy
  /\ UNCHANGED <<serverVars, net, client, history>>

Next ==
  \/ \E m \in net : ServerStep(m) \/ ClientStep(m) \/ Lose(m)
  \/ \E p \in Ports : CleanupStep(p)
  \/ HealthChanges
  \/ \E c \in Clients : Start(c) \/ Timeout(c) \/ Abort(c)

Spec == Init /\ [][Next]_vars

\* A datagram that is sent again and again arrives at last, whatever its block number,
\* clients do send again what stays unanswered, and a callback runs to its end.
Takes(to, c, b) ==
  \E m \in net : /\ m.to = to /\ m.client = c /\ m.block = b
                 /\ IF to = "server" THEN ServerStep(m) ELSE ClientStep(m)

FairSpec ==
  /\ Spec
  /\ \A p \in Ports : WF_vars(CleanupStep(p))
  /\ \A c \in Clients :
       /\ WF_vars(Timeout(c))
       /\ \A to \in {"server", "client"}, b \in 0 .. BlockMod - 1 : SF_vars(Takes(to, c, b))

----------------------------------------------------------------------------
(* Correctness.                                                            *)

Datagrams ==
  [to : {"server", "client"}, op : {"RRQ", "WRQ", "DATA", "ACK", "ERROR"},
   client : Clients, port : 0 .. MaxPort, block : 0 .. BlockMod - 1,
   len : {"full", "part", "empty"}, data : Clients \X Nat]

TypeOK ==
  /\ pcb \in [Ports -> [use : {"free", "bare", "read", "write", "closing"}, block : Nat,
                        len : {"full", "part", "empty"}]]
  /\ nextPort \in 1 .. MaxPort + 1
  /\ file_SD \in [ok : BOOLEAN, owner : Clients, read : Nat]
  /\ file_CR \in [ok : BOOLEAN, owner : Clients, written : Seq(Clients \X Nat)]
  /\ disk \in [Clients -> Seq(Clients \X Nat)]
  /\ net \subseteq Datagrams
  /\ healthy \in BOOLEAN /\ harmed \subseteq Clients
  /\ peer \in [Ports -> Clients] /\ shared \subseteq Clients
  /\ client \in [Clients -> [phase : {"idle", "req", "run", "done", "failed"},
                             port : 0 .. MaxPort, block : Nat, got : Seq(Clients \X Nat)]]

Prefix(s, t) == Len(s) <= Len(t) /\ \A i \in 1 .. Len(s) : s[i] = t[i]

\* What is stored of an upload: the open file, or what its directory entry covers.
Stored(c) == IF file_CR.ok /\ file_CR.owner = c THEN file_CR.written ELSE disk[c]

\* Blocks lost, repeated or late leave no hole, no repetition and no foreign block in a
\* file that one upload has to itself; an uploader that gives up may leave the bytes of
\* its ERROR packet behind, for the callback does not look at the opcode (:389, :407).
StoredIsPrefix ==
  \A c \in Clients \ shared :
    client[c].phase # "failed" => Prefix(Stored(c), Content(c)) /\ Prefix(disk[c], Content(c))

\* No acknowledgement is under way for a block the server has not written.
AckImpliesStored ==
  \A m \in net : m.to = "client" /\ m.op = "ACK"
    => Len(Stored(m.client)) >= IF m.block < Len(Content(m.client))
                                  THEN m.block ELSE Len(Content(m.client))

\* The whole upload of c is in the file that the callback is about to close.
BeingClosed(c) ==
  /\ file_CR = [ok |-> TRUE, owner |-> c, written |-> Content(c)]
  /\ \E p \in Ports : pcb[p].use = "closing" /\ peer[p] = c

\* When the uploading client is finished, the directory entry covers the whole file or the
\* server is about to close it: unless a failure or another transfer got in its way, no
\* last acknowledgement (:409) leaves without the close behind it (:417) keeping the file.
UploadDoneMeansStored ==
  \A c \in Clients \ (Readers \cup harmed \cup shared) :
    client[c].phase = "done" => disk[c] = Content(c) \/ BeingClosed(c)

\* A download that has the file to itself holds nothing but its blocks in their order.
ReceivedIsPrefix == \A c \in Readers \ shared : Prefix(client[c].got, Content(c))

\* Transfers that overlap on the one volume (tftpserver.c:571, :591) cut each other off but
\* do not mix: what is stored and received consists of the right file's blocks in their
\* order.  Two uploads at once, or two downloads, do mix, as they share file_CR or file_SD
\* (:78): all that is claimed of them is that the damage stays with those that shared.
ContentsIntact == StoredIsPrefix /\ ReceivedIsPrefix

\* When the downloading client is finished it has the whole file, unless a failure or
\* another transfer got in its way.
DownloadDoneMeansReceived ==
  \A c \in Readers \ (harmed \cup shared) : client[c].phase = "done" => client[c].got = Content(c)

\* An upload that began reaches the card although datagrams are lost and repeated.
UploadStored ==
  \A c \in Clients \ Readers :
    client[c].phase = "run" /\ client[c].block < NBlocks ~> disk[c] = Content(c)

\* A port is given back once no transfer runs, nothing is under way and the callbacks have
\* returned, whatever the transfers did to each other; only a failed request leaves a pcb.
Quiet ==
  /\ net = {} /\ \A c \in Clients : client[c].phase # "run"
  /\ \A p \in Ports : pcb[p].use # "closing"

PortsReturned ==
  Quiet => \A p \in Ports : pcb[p].use = "free" \/ (pcb[p].use = "bare" /\ harmed # {})

\* Every upload is a FileCopy.
Copy(c) == INSTANCE FileCopy WITH
             N <- Len(Content(c)),
             copied <- Len(Stored(c)),
             told <- IF client[c].block < Len(Content(c)) THEN client[c].block ELSE Len(Content(c)),
             kept <- disk[c] = Content(c)

UploadIsCopy ==
  /\ \A c \in Clients \ Readers : Copy(c)!Init
  /\ [][\A c \in Clients \ Readers : Copy(c)!Next \/ UNCHANGED Copy(c)!cvars]_vars
=============================================================================
