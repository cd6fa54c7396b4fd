-------------------------- MODULE EthernetIf_proofs --------------------------
(***************************************************************************)
(* Theorems about EthernetIf, for rings, pools and mailboxes of any size.  *)
(***************************************************************************)
EXTENDS EthernetIf, SequenceTheorems, TLAPS

-----------------------------------------------------------------------------
(* No frame is forgotten.                                                  *)

\* While the handler runs the semaphore is still given: no task has run since.
\* That is why a flag cleared after the callback loses nothing.
HandlerGave == isr => given

Woken == HandlerGave /\ NotForgotten

\* Every step keeps it: by cases on the step.
LEMMA WokenStep == Woken /\ [Next]_vars => Woken'
<1> SUFFICES ASSUME Woken, [Next]_vars PROVE Woken'
  OBVIOUS
<1> USE DEF Woken, HandlerGave, NotForgotten, rxVars, lineVars, taskVars
<1>1. CASE FrameArrives
  BY <1>1 DEF FrameArrives
<1>2. CASE HAL_ETH_RxCpltCallback
  BY <1>2 DEF HAL_ETH_RxCpltCallback
<1>3. CASE IrqReturns
  BY <1>3 DEF IrqReturns
<1>4. CASE FrameLeaves
  BY <1>4 DEF FrameLeaves
<1>5. CASE InputTask
  <2>1. CASE Wait
    BY <2>1 DEF Wait
  <2>2. CASE GetTestsLock
    BY <2>2 DEF GetTestsLock, Sleep
  <2>3. CASE GetLocks
    BY <2>3 DEF GetLocks
  <2>4. CASE GetFinds
    BY <2>4 DEF GetFinds, Sleep
  <2>5. CASE Copy
    BY <2>5 DEF Copy
  <2>6. CASE Release
    BY <2>6 DEF Release
  <2>7. CASE Input
    BY <2>7 DEF Input, Sleep
  <2> QED BY <1>5, <2>1, <2>2, <2>3, <2>4, <2>5, <2>6, <2>7 DEF InputTask
<1>6. CASE StackTakes
  BY <1>6 DEF StackTakes
<1>7. CASE StackFrees
  BY <1>7 DEF StackFrees
<1>8. CASE Output
  <2>1. UNCHANGED <<irq, isr, given, pc, rxOwn, rxDesc, cut>>
    BY <1>8 DEF Output, LowLevelOutput, TransmitTestsLock, TransmitLocks, TransmitHandsOver
  <2> QED BY <2>1
<1>9. CASE UNCHANGED vars
  BY <1>9 DEF vars
<1> QED BY <1>1, <1>2, <1>3, <1>4, <1>5, <1>6, <1>7, <1>8, <1>9 DEF Next

\* The task never sleeps over a frame without a wake-up to come, unless the loop
\* was cut short by the lock or an empty pool (ethernetif.c:347-360).
THEOREM NoFrameForgotten == Spec => []NotForgotten
<1>1. Init => Woken
  BY DEF Init, Woken, HandlerGave, NotForgotten
<1>2. Woken /\ [Next]_vars => Woken'
  BY WokenStep
<1>3. Woken => NotForgotten
  BY DEF Woken
<1> QED BY <1>1, <1>2, <1>3, PTL DEF Spec

-----------------------------------------------------------------------------
(* Pbufs are conserved.                                                    *)

\* Who owns which receive descriptor; the task's are filled.
Descriptors ==
  /\ rxOwn \in [RxRing -> BOOLEAN] /\ rxBuf \in [RxRing -> Nat]
  /\ rxDesc \in RxRing /\ dmaRx \in RxRing /\ fs \in RxRing
  /\ arrived \in Nat
  /\ \A d \in RxRing : rxOwn[d] \/ rxBuf[d] # 0
  /\ pc = "copy" => rxBuf[fs] # 0

\* The counts PbufsKept adds up; the task holds no pbuf where it copies one.
Counts ==
  /\ p \in Nat /\ free \in Nat /\ held \in Nat
  /\ mbox \in Seq(Nat) /\ Len(mbox) <= MboxSize
  /\ pc \notin {"release", "input"} => p = 0

Pool == Descriptors /\ Counts /\ PbufsKept

\* Stepping round the ring stays in it.
LEMMA NextRxInRing == \A d \in RxRing : NextRx(d) \in RxRing
  BY EthAssumption DEF RxRing, NextRx

\* Setting one entry of a table of truth values.
LEMMA OwnUpdate ==
  ASSUME NEW S, NEW f \in [S -> BOOLEAN], NEW g, NEW d \in S, NEW b \in BOOLEAN,
         g = [f EXCEPT ![d] = b]
  PROVE  /\ g \in [S -> BOOLEAN]
         /\ \A e \in S : e # d => (g[e] <=> f[e])
         /\ g[d] <=> b
  BY Zenon

\* Only an arrival, the scan and the release touch the receive ring.
LEMMA DescriptorsStep == Pool /\ [Next]_vars => Descriptors'
<1> SUFFICES ASSUME Pool, [Next]_vars PROVE Descriptors'
  OBVIOUS
<1> Descriptors
  BY DEF Pool
<1> USE NextRxInRing
<1>1. CASE FrameArrives
  <2>1. CASE ~rxOwn[dmaRx]
    BY <1>1, <2>1 DEF FrameArrives, Descriptors, taskVars
  <2>2. CASE rxOwn[dmaRx]
    <3>1. /\ UNCHANGED <<rxDesc, pc, fs>>
          /\ rxOwn' = [rxOwn EXCEPT ![dmaRx] = FALSE]
          /\ rxBuf' = [rxBuf EXCEPT ![dmaRx] = arrived + 1]
          /\ dmaRx' = NextRx(dmaRx) /\ arrived' = arrived + 1
      BY <1>1, <2>2 DEF FrameArrives, taskVars
    <3>2. rxOwn' \in [RxRing -> BOOLEAN] /\ \A e \in RxRing : e # dmaRx => (rxOwn'[e] <=> rxOwn[e])
      BY <3>1, OwnUpdate, Zenon DEF Descriptors
    <3>3. /\ rxBuf' \in [RxRing -> Nat] /\ arrived' \in Nat /\ rxBuf'[dmaRx] # 0
          /\ \A e \in RxRing : e # dmaRx => rxBuf'[e] = rxBuf[e]
      BY <3>1 DEF Descriptors
    <3> QED BY <3>1, <3>2, <3>3, Zenon DEF Descriptors
  <2> QED BY <2>1, <2>2
<1>2. CASE GetFinds
  <2>1. UNCHANGED <<rxOwn, rxBuf, dmaRx, arrived>>
    BY <1>2 DEF GetFinds, lineVars
  <2>2. CASE rxOwn[rxDesc] /\ Sleep /\ UNCHANGED <<fs, rxDesc>>
    BY <2>1, <2>2 DEF Descriptors, Sleep
  <2>3. CASE ~rxOwn[rxDesc] /\ fs' = rxDesc /\ rxDesc' = NextRx(rxDesc) /\ pc' = "copy"
    BY <2>1, <2>3, Zenon DEF Descriptors
  <2> QED BY <1>2, <2>2, <2>3 DEF GetFinds
<1>3. CASE Release
  <2>1. /\ UNCHANGED <<rxBuf, rxDesc, dmaRx, arrived, fs>>
        /\ pc' = "input" /\ rxOwn' = [rxOwn EXCEPT ![fs] = TRUE]
    BY <1>3 DEF Release, lineVars
  <2>2. /\ rxOwn' \in [RxRing -> BOOLEAN] /\ rxOwn'[fs]
        /\ \A e \in RxRing : e # fs => (rxOwn'[e] <=> rxOwn[e])
    BY <2>1, OwnUpdate, Zenon DEF Descriptors
  <2> QED BY <2>1, <2>2, Zenon DEF Descriptors
<1>4. CASE /\ UNCHANGED <<rxOwn, rxBuf, rxDesc, dmaRx, arrived, fs>>
           /\ pc' # "copy" \/ pc' = pc
  BY <1>4 DEF Descriptors
<1> QED
  BY <1>1, <1>2, <1>3, <1>4
  DEF Next, InputTask, Output, HAL_ETH_RxCpltCallback, IrqReturns, FrameLeaves, Wait, GetTestsLock,
      GetLocks, Sleep, Copy, Input, StackTakes, StackFrees, LowLevelOutput, TransmitTestsLock,
      TransmitLocks, TransmitHandsOver, vars, rxVars, lineVars, taskVars

\* Steps that leave the pbufs alone.
LEMMA PoolStutter ==
  ASSUME Counts, PbufsKept, UNCHANGED <<free, held, mbox, p>>,
         pc' \notin {"release", "input"} => pc \notin {"release", "input"}
  PROVE  Counts' /\ PbufsKept'
  BY DEF Counts, PbufsKept

\* Only copying, posting, taking and freeing move a pbuf, one at a time.
LEMMA CountsStep == Pool /\ [Next]_vars => Counts' /\ PbufsKept'
<1> SUFFICES ASSUME Pool, [Next]_vars PROVE Counts' /\ PbufsKept'
  OBVIOUS
<1> Counts /\ PbufsKept
  BY DEF Pool
<1>1. CASE Copy
  <2>1. UNCHANGED <<held, mbox>> /\ p = 0 /\ pc' = "release" /\ rxBuf[fs] \in Nat /\ rxBuf[fs] # 0
    BY <1>1 DEF Copy, Counts, Pool, Descriptors
  <2>2. CASE free > 0 /\ p' = rxBuf[fs] /\ free' = free - 1
    BY <2>1, <2>2 DEF Counts, PbufsKept
  <2>3. CASE p' = 0 /\ UNCHANGED free
    BY <2>1, <2>3 DEF Counts, PbufsKept
  <2> QED BY <1>1, <2>2, <2>3 DEF Copy
<1>2. CASE Input
  <2>1. UNCHANGED held /\ p' = 0
    BY <1>2 DEF Input
  <2>2. CASE p # 0 /\ Posted
    <3>1. CASE Len(mbox) < MboxSize /\ mbox' = Append(mbox, p) /\ UNCHANGED free
      BY <2>1, <2>2, <3>1, EthAssumption DEF Counts, PbufsKept
    <3>2. CASE free' = free + 1 /\ UNCHANGED mbox
      BY <2>1, <2>2, <3>2 DEF Counts, PbufsKept
    <3> QED BY <2>2, <3>1, <3>2 DEF Posted
  <2>3. CASE p = 0 /\ UNCHANGED <<free, mbox>>
    BY <2>1, <2>3 DEF Counts, PbufsKept
  <2> QED BY <1>2, <2>2, <2>3 DEF Input
<1>3. CASE StackTakes
  <2>1. /\ UNCHANGED <<free, p, pc>> /\ mbox # <<>>
        /\ mbox' = Tail(mbox) /\ held' = held + 1
    BY <1>3 DEF StackTakes, taskVars
  <2>2. mbox' \in Seq(Nat) /\ Len(mbox') = Len(mbox) - 1 /\ Len(mbox) \in Nat
    BY <2>1, HeadTailProperties, LenProperties DEF Counts
  <2>3. Len(mbox') <= MboxSize
    BY <2>2, EthAssumption DEF Counts
  <2>4. held' \in Nat /\ Len(mbox') + held' = Len(mbox) + held
    BY <2>1, <2>2 DEF Counts
  <2>5. Counts'
    BY <2>1, <2>2, <2>3, <2>4 DEF Counts
  <2>6. PbufsKept'
    <3>1. p' = p /\ free' = free
      BY <2>1
    <3> DEFINE n == Len(mbox)
               m == Len(mbox')
    <3>2. m = n - 1 /\ n \in Nat /\ held' = held + 1 /\ held \in Nat /\ free \in Nat
      BY <2>1, <2>2 DEF Counts
    <3>3. free + (IF p = 0 THEN 0 ELSE 1) + n + held = Pbufs
      BY DEF PbufsKept
    <3>4. free + (IF p = 0 THEN 0 ELSE 1) + m + held' = Pbufs
      <4> HIDE DEF n, m
      <4> QED BY <3>2, <3>3
    <3> QED BY <3>1, <3>4 DEF PbufsKept
  <2> QED BY <2>5, <2>6
<1>4. CASE StackFrees
  BY <1>4 DEF StackFrees, taskVars, Counts, PbufsKept
<1>5. CASE /\ UNCHANGED <<free, held, mbox, p>>
           /\ pc' \notin {"release", "input"} => pc \notin {"release", "input"}
  BY <1>5, PoolStutter
<1> QED
  BY <1>1, <1>2, <1>3, <1>4, <1>5
  DEF Next, InputTask, Output, FrameArrives, HAL_ETH_RxCpltCallback, IrqReturns, FrameLeaves, Wait,
      GetTestsLock, GetLocks, GetFinds, Sleep, Release, LowLevelOutput, TransmitTestsLock,
      TransmitLocks, TransmitHandsOver, vars, taskVars, pbufVars

LEMMA PoolInitially == Init => Pool
<1> SUFFICES ASSUME Init PROVE Pool
  OBVIOUS
<1>1. Descriptors
  BY EthAssumption DEF Init, Descriptors, RxRing
<1>2. Counts /\ PbufsKept
  BY EthAssumption, EmptySeq DEF Init, Counts, PbufsKept
<1> QED BY <1>1, <1>2 DEF Pool

\* No pbuf is leaked or freed twice, whoever holds it (ethernetif.c:283, :353-357).
THEOREM PbufsConserved == Spec => []PbufsKept
<1>1. Init => Pool
  BY PoolInitially
<1>2. Pool /\ [Next]_vars => Pool'
  BY DescriptorsStep, CountsStep DEF Pool
<1>3. Pool => PbufsKept
  BY DEF Pool
<1> QED BY <1>1, <1>2, <1>3, PTL DEF Spec

-----------------------------------------------------------------------------
(* A ring of n descriptors as a queue: the filled ones follow one another  *)
(* from the oldest, a, to before the next to fill, h, and what is in their *)
(* buffers increases.  Both rings of the interface are such a queue.       *)

Segment(F, a, h, n) ==
  \/ F = {d \in 0 .. n - 1 : Ahead(a, d, n) < Ahead(a, h, n)}
  \/ a = h /\ F = 0 .. n - 1

Ordered(F, buf, a, n) ==
  \A d, e \in F : Ahead(a, d, n) < Ahead(a, e, n) => buf[d] < buf[e]

Queue(F, buf, a, h, n) == Segment(F, a, h, n) /\ Ordered(F, buf, a, n)

\* Without the remainders: the way round the ring, and the next descriptor.
LEMMA Steps ==
  ASSUME NEW n \in Nat \ {0}, NEW a \in 0 .. n - 1, NEW d \in 0 .. n - 1
  PROVE  /\ (d + 1) % n = IF d = n - 1 THEN 0 ELSE d + 1
         /\ Ahead(a, d, n) = IF d >= a THEN d - a ELSE d + n - a
<1>1. (d + 1) % n = IF d = n - 1 THEN 0 ELSE d + 1
  OBVIOUS
<1>2. CASE d >= a
  <2>1. d + n - a = (d - a) + n /\ d - a \in 0 .. n - 1
    BY <1>2
  <2>2. ((d - a) + n) % n = d - a
    BY <2>1
  <2> QED BY <1>1, <1>2, <2>1, <2>2 DEF Ahead
<1>3. CASE d < a
  <2>1. d + n - a \in 0 .. n - 1
    BY <1>3
  <2>2. (d + n - a) % n = d + n - a
    BY <2>1
  <2> QED BY <1>1, <1>3, <2>2 DEF Ahead
<1> QED BY <1>2, <1>3

\* What a step of the oldest, or of another descriptor, does to the way.
LEMMA Round ==
  ASSUME NEW n \in Nat \ {0}, NEW a \in 0 .. n - 1, NEW d \in 0 .. n - 1
  PROVE  /\ (d + 1) % n \in 0 .. n - 1
         /\ Ahead(a, d, n) \in 0 .. n - 1
         /\ Ahead(a, d, n) = 0 <=> d = a
         /\ d # a => Ahead((a + 1) % n, d, n) = Ahead(a, d, n) - 1
         /\ Ahead((a + 1) % n, a, n) = n - 1
         /\ Ahead(a, d, n) = n - 1 => (d + 1) % n = a
         /\ Ahead(a, d, n) # n - 1 => Ahead(a, (d + 1) % n, n) = Ahead(a, d, n) + 1
<1>1. (a + 1) % n \in 0 .. n - 1 /\ (d + 1) % n \in 0 .. n - 1
  BY Steps
<1>2. /\ (d + 1) % n = IF d = n - 1 THEN 0 ELSE d + 1
      /\ (a + 1) % n = IF a = n - 1 THEN 0 ELSE a + 1
      /\ Ahead(a, d, n) = IF d >= a THEN d - a ELSE d + n - a
  BY Steps
<1>3. PICK x \in 0 .. n - 1, y \in 0 .. n - 1 : x = (a + 1) % n /\ y = (d + 1) % n
  BY <1>1
<1>4. /\ Ahead(x, d, n) = IF d >= x THEN d - x ELSE d + n - x
      /\ Ahead(x, a, n) = IF a >= x THEN a - x ELSE a + n - x
      /\ Ahead(a, y, n) = IF y >= a THEN y - a ELSE y + n - a
  BY Steps
<1> QED BY <1>2, <1>3, <1>4

LEMMA SameWay ==
  ASSUME NEW n \in Nat \ {0}, NEW a \in 0 .. n - 1, NEW d \in 0 .. n - 1, NEW e \in 0 .. n - 1,
         Ahead(a, d, n) = Ahead(a, e, n)
  PROVE  d = e
<1>1. (IF d >= a THEN d - a ELSE d + n - a) = (IF e >= a THEN e - a ELSE e + n - a)
  BY Steps
<1> QED BY <1>1

\* A ring nobody has filled.
LEMMA EmptyQueue ==
  ASSUME NEW n \in Nat \ {0}, NEW buf
  PROVE  Queue({}, buf, 0, 0, n)
<1>1. ASSUME NEW d \in 0 .. n - 1
      PROVE  ~(Ahead(0, d, n) < Ahead(0, 0, n))
  <2>1. 0 \in 0 .. n - 1
    OBVIOUS
  <2>2. Ahead(0, 0, n) = 0 /\ Ahead(0, d, n) \in 0 .. n - 1
    BY <2>1, Round
  <2> QED BY <2>2
<1>2. {} = {d \in 0 .. n - 1 : Ahead(0, d, n) < Ahead(0, 0, n)}
  BY <1>1
<1> QED BY <1>2 DEF Queue, Segment, Ordered

\* Filling the next descriptor with something larger.
LEMMA QueueAdd ==
  ASSUME NEW n \in Nat \ {0}, NEW a \in 0 .. n - 1, NEW h \in 0 .. n - 1,
         NEW F \in SUBSET (0 .. n - 1), NEW buf, NEW new,
         Queue(F, buf, a, h, n), h \notin F,
         \A d \in F : new[d] = buf[d] /\ buf[d] < new[h]
  PROVE  Queue(F \cup {h}, new, a, (h + 1) % n, n)
<1>1. F = {d \in 0 .. n - 1 : Ahead(a, d, n) < Ahead(a, h, n)}
  BY DEF Queue, Segment
<1>2. \A d \in 0 .. n - 1 : Ahead(a, d, n) \in 0 .. n - 1
  BY Round
<1>3. Ordered(F \cup {h}, new, a, n)
  <2> SUFFICES ASSUME NEW d \in F \cup {h}, NEW e \in F \cup {h},
                      Ahead(a, d, n) < Ahead(a, e, n)
               PROVE  new[d] < new[e]
    BY DEF Ordered
  <2>1. d # h
    BY <1>1, <1>2
  <2>2. CASE e = h
    BY <2>1, <2>2
  <2>3. CASE e # h
    <3>1. buf[d] < buf[e]
      BY <2>1, <2>3 DEF Queue, Ordered
    <3> QED BY <2>1, <2>3, <3>1
  <2> QED BY <2>2, <2>3
<1>4. CASE Ahead(a, h, n) = n - 1
  <2>1. (h + 1) % n = a
    BY <1>4, Round
  <2>2. \A d \in 0 .. n - 1 : d # h => Ahead(a, d, n) < n - 1
    BY <1>2, <1>4, SameWay
  <2>3. F \cup {h} = 0 .. n - 1
    BY <1>1, <1>4, <2>2
  <2> QED BY <1>3, <2>1, <2>3 DEF Queue, Segment
<1>5. CASE Ahead(a, h, n) # n - 1
  <2>1. Ahead(a, (h + 1) % n, n) = Ahead(a, h, n) + 1
    BY <1>5, Round
  <2>2. \A d \in 0 .. n - 1 :
          Ahead(a, d, n) < Ahead(a, h, n) + 1 <=> Ahead(a, d, n) < Ahead(a, h, n) \/ d = h
    BY <1>2, SameWay
  <2>3. F \cup {h} = {d \in 0 .. n - 1 : Ahead(a, d, n) < Ahead(a, (h + 1) % n, n)}
    BY <1>1, <2>1, <2>2
  <2> QED BY <1>3, <2>3 DEF Queue, Segment
<1> QED BY <1>4, <1>5

\* Emptying the oldest descriptor.
LEMMA QueueRemove ==
  ASSUME NEW n \in Nat \ {0}, NEW a \in 0 .. n - 1, NEW h \in 0 .. n - 1,
         NEW F \in SUBSET (0 .. n - 1), NEW buf,
         Queue(F, buf, a, h, n), a \in F
  PROVE  /\ Queue(F \ {a}, buf, (a + 1) % n, h, n)
         /\ \A d \in F \ {a} : buf[a] < buf[d]
<1>1. /\ \A d \in 0 .. n - 1 : Ahead(a, d, n) \in 0 .. n - 1 /\ (Ahead(a, d, n) = 0 <=> d = a)
      /\ \A d \in 0 .. n - 1 : d # a => Ahead((a + 1) % n, d, n) = Ahead(a, d, n) - 1
      /\ Ahead((a + 1) % n, a, n) = n - 1
  <2>1. Ahead((a + 1) % n, a, n) = n - 1
    BY Round
  <2>2. ASSUME NEW d \in 0 .. n - 1
        PROVE  /\ Ahead(a, d, n) \in 0 .. n - 1 /\ (Ahead(a, d, n) = 0 <=> d = a)
               /\ d # a => Ahead((a + 1) % n, d, n) = Ahead(a, d, n) - 1
    <3>1. Ahead(a, d, n) \in 0 .. n - 1
      BY Round
    <3>2. Ahead(a, d, n) = 0 <=> d = a
      BY Round
    <3>3. d # a => Ahead((a + 1) % n, d, n) = Ahead(a, d, n) - 1
      BY Round
    <3> QED BY <3>1, <3>2, <3>3
  <2> QED BY <2>1, <2>2
<1>2. Ordered(F \ {a}, buf, (a + 1) % n, n)
  BY <1>1 DEF Queue, Ordered
<1>3. \A d \in F \ {a} : buf[a] < buf[d]
  BY <1>1 DEF Queue, Ordered
<1>4. CASE a = h /\ F = 0 .. n - 1
  <2>1. Ahead((a + 1) % n, h, n) = n - 1
    BY <1>1, <1>4
  <2>2. \A d \in 0 .. n - 1 : d # a <=> Ahead((a + 1) % n, d, n) < n - 1
    BY <1>1
  <2>3. F \ {a} = {d \in 0 .. n - 1 : Ahead((a + 1) % n, d, n) < Ahead((a + 1) % n, h, n)}
    BY <1>4, <2>1, <2>2
  <2> QED BY <1>2, <1>3, <2>3 DEF Queue, Segment
<1>5. CASE F = {d \in 0 .. n - 1 : Ahead(a, d, n) < Ahead(a, h, n)}
  <2>1. h # a
    BY <1>1, <1>5
  <2>2. F \ {a} = {d \in 0 .. n - 1 : Ahead((a + 1) % n, d, n) < Ahead((a + 1) % n, h, n)}
    BY <1>1, <1>5, <2>1
  <2> QED BY <1>2, <1>3, <2>2 DEF Queue, Segment
<1> QED BY <1>4, <1>5 DEF Queue, Segment

-----------------------------------------------------------------------------
(* Reception in order.                                                     *)

RxFilled == {d \in RxRing : ~rxOwn[d]}

\* The oldest filled descriptor: the task's while it copies and gives back.
Oldest == IF pc \in {"copy", "release"} THEN fs ELSE rxDesc

RxOrder ==
  /\ Queue(RxFilled, rxBuf, Oldest, dmaRx, RxDescs)
  /\ pc \in {"copy", "release"} => rxDesc = NextRx(fs) /\ fs \in RxFilled
  /\ \A d \in RxFilled : rxBuf[d] <= arrived

LEMMA RxOrderStep == Pool /\ RxOrder /\ [Next]_vars => RxOrder'
<1> SUFFICES ASSUME Pool, RxOrder, [Next]_vars PROVE RxOrder'
  OBVIOUS
<1>0. /\ rxOwn \in [RxRing -> BOOLEAN] /\ rxBuf \in [RxRing -> Nat] /\ arrived \in Nat
      /\ dmaRx \in RxRing /\ rxDesc \in RxRing /\ fs \in RxRing /\ Oldest \in RxRing
      /\ RxDescs \in Nat \ {0} /\ RxFilled \in SUBSET RxRing
  BY EthAssumption DEF Pool, Descriptors, Oldest, RxFilled
<1>1. CASE FrameArrives
  <2>1. CASE ~rxOwn[dmaRx]
    BY <1>0, <1>1, <2>1 DEF FrameArrives, RxOrder, Oldest, RxFilled, taskVars
  <2>2. CASE rxOwn[dmaRx]
    <3>1. /\ rxOwn' = [rxOwn EXCEPT ![dmaRx] = FALSE]
          /\ rxBuf' = [rxBuf EXCEPT ![dmaRx] = arrived + 1]
          /\ dmaRx' = NextRx(dmaRx) /\ arrived' = arrived + 1
          /\ UNCHANGED <<pc, fs, rxDesc>>
      BY <1>1, <2>2 DEF FrameArrives, taskVars
    <3>2. Oldest' = Oldest /\ dmaRx \notin RxFilled
      BY <2>2, <3>1 DEF Oldest, RxFilled
    <3>3. RxFilled' = RxFilled \cup {dmaRx}
      <4>1. /\ rxOwn' \in [RxRing -> BOOLEAN] /\ ~rxOwn'[dmaRx]
            /\ \A e \in RxRing : e # dmaRx => (rxOwn'[e] <=> rxOwn[e])
        BY <1>0, <3>1, OwnUpdate, Zenon
      <4> QED BY <1>0, <4>1, Zenon DEF RxFilled
    <3>4. /\ rxBuf'[dmaRx] = arrived + 1
          /\ \A d \in RxFilled : rxBuf'[d] = rxBuf[d] /\ rxBuf[d] < rxBuf'[dmaRx]
      BY <1>0, <3>1, <3>2 DEF RxOrder
    <3>5. Queue(RxFilled', rxBuf', Oldest', dmaRx', RxDescs)
      <4>1. PICK new, F : new = rxBuf' /\ F = RxFilled
        OBVIOUS
      <4>2. Queue(F \cup {dmaRx}, new, Oldest, (dmaRx + 1) % RxDescs, RxDescs)
        <5>1. Queue(F, rxBuf, Oldest, dmaRx, RxDescs) /\ dmaRx \notin F
          BY <3>2, <4>1 DEF RxOrder
        <5>2. \A d \in F : new[d] = rxBuf[d] /\ rxBuf[d] < new[dmaRx]
          BY <3>4, <4>1
        <5> QED BY <1>0, <4>1, <5>1, <5>2, QueueAdd DEF RxRing
      <4> QED BY <3>1, <3>2, <3>3, <4>1, <4>2 DEF NextRx
    <3>6. \A d \in RxFilled' : rxBuf'[d] <= arrived'
      BY <1>0, <3>1, <3>3, <3>4 DEF RxOrder
    <3> QED BY <3>1, <3>3, <3>5, <3>6 DEF RxOrder
  <2> QED BY <2>1, <2>2
<1>2. CASE GetFinds
  <2>1. UNCHANGED <<rxOwn, rxBuf, dmaRx, arrived>> /\ pc = "scan"
    BY <1>2 DEF GetFinds, lineVars
  <2>2. CASE rxOwn[rxDesc] /\ Sleep /\ UNCHANGED <<fs, rxDesc>>
    BY <2>1, <2>2 DEF RxOrder, Oldest, RxFilled, Sleep
  <2>3. CASE ~rxOwn[rxDesc] /\ fs' = rxDesc /\ rxDesc' = NextRx(rxDesc) /\ pc' = "copy"
    <3>1. Oldest' = Oldest /\ RxFilled' = RxFilled /\ fs' \in RxFilled
      BY <1>0, <2>1, <2>3 DEF Oldest, RxFilled
    <3> QED BY <2>1, <2>3, <3>1 DEF RxOrder
  <2> QED BY <1>2, <2>2, <2>3 DEF GetFinds
<1>3. CASE Release
  <2>1. /\ UNCHANGED <<rxBuf, rxDesc, dmaRx, arrived, fs>>
        /\ pc = "release" /\ pc' = "input" /\ rxOwn' = [rxOwn EXCEPT ![fs] = TRUE]
    BY <1>3 DEF Release, lineVars
  <2>2. Oldest = fs /\ Oldest' = NextRx(fs) /\ fs \in RxFilled
    BY <2>1 DEF Oldest, RxOrder
  <2>3. RxFilled' = RxFilled \ {fs}
    <3>1. /\ rxOwn' \in [RxRing -> BOOLEAN] /\ rxOwn'[fs]
          /\ \A e \in RxRing : e # fs => (rxOwn'[e] <=> rxOwn[e])
      BY <1>0, <2>1, OwnUpdate, Zenon
    <3> QED BY <1>0, <3>1, Zenon DEF RxFilled
  <2>4. Queue(RxFilled \ {fs}, rxBuf, NextRx(fs), dmaRx, RxDescs)
    <3>1. Queue(RxFilled, rxBuf, fs, dmaRx, RxDescs)
      BY <2>2 DEF RxOrder
    <3> QED BY <1>0, <2>2, <3>1, QueueRemove DEF RxRing, NextRx
  <2>5. Queue(RxFilled', rxBuf', Oldest', dmaRx', RxDescs)
    BY <2>1, <2>2, <2>3, <2>4
  <2>6. \A d \in RxFilled' : rxBuf'[d] <= arrived'
    BY <2>1, <2>3 DEF RxOrder
  <2> QED BY <2>1, <2>5, <2>6 DEF RxOrder
<1>4. CASE /\ UNCHANGED <<rxOwn, rxBuf, rxDesc, dmaRx, arrived, fs>>
           /\ pc' \in {"copy", "release"} <=> pc \in {"copy", "release"}
  <2>1. Oldest' = Oldest /\ RxFilled' = RxFilled
    BY <1>4 DEF Oldest, RxFilled
  <2> QED BY <1>4, <2>1 DEF RxOrder
<1> QED
  BY <1>1, <1>2, <1>3, <1>4
  DEF Next, InputTask, Output, HAL_ETH_RxCpltCallback, IrqReturns, FrameLeaves, Wait, GetTestsLock,
      GetLocks, Sleep, Copy, Input, StackTakes, StackFrees, LowLevelOutput, TransmitTestsLock,
      TransmitLocks, TransmitHandsOver, vars, rxVars, lineVars, taskVars

\* A frame comes after what the stack took and what waits in the mailbox.
After(x) == last < x /\ \A i \in 1 .. Len(mbox) : mbox[i] < x

Delivered ==
  /\ last \in Nat /\ last <= arrived
  /\ \A i \in 1 .. Len(mbox) : last < mbox[i] /\ mbox[i] <= arrived
  /\ \A i, j \in 1 .. Len(mbox) : i < j => mbox[i] < mbox[j]
  /\ p # 0 => After(p) /\ p <= arrived
  /\ \A d \in RxFilled :
       (pc = "release" /\ d = fs) \/ (After(rxBuf[d]) /\ p < rxBuf[d])

RxInv == Pool /\ RxOrder /\ Delivered

LEMMA DeliveredStep == RxInv /\ [Next]_vars => Delivered'
<1> SUFFICES ASSUME RxInv, [Next]_vars PROVE Delivered'
  OBVIOUS
<1>0. /\ rxOwn \in [RxRing -> BOOLEAN] /\ rxBuf \in [RxRing -> Nat] /\ arrived \in Nat
      /\ dmaRx \in RxRing /\ fs \in RxRing /\ rxDesc \in RxRing
      /\ p \in Nat /\ mbox \in Seq(Nat) /\ Len(mbox) \in Nat /\ last \in Nat
      /\ pc \notin {"release", "input"} => p = 0
      /\ RxFilled \in SUBSET RxRing
  BY LenProperties DEF RxInv, Pool, Descriptors, Counts, RxFilled, Delivered
<1>b. \A i \in 1 .. Len(mbox) : mbox[i] \in Nat
  BY <1>0, ElementOfSeq
<1>c. \A i \in 1 .. Len(mbox) : mbox[i] <= arrived
  BY DEF RxInv, Delivered
<1>d. \A x \in Nat : x <= arrived => x < arrived + 1 /\ x <= arrived + 1
  BY <1>0
<1>1. CASE FrameArrives
  <2>0. UNCHANGED <<pc, fs, p, mbox, last>>
    BY <1>1 DEF FrameArrives, taskVars, pbufVars
  <2>1. CASE ~rxOwn[dmaRx]
    <3>1. UNCHANGED <<rxOwn, rxBuf>> /\ arrived' = arrived + 1
      BY <1>1, <2>1 DEF FrameArrives
    <3>2. RxFilled' = RxFilled
      BY <3>1 DEF RxFilled
    <3>3. last <= arrived + 1 /\ (p <= arrived => p <= arrived + 1)
      BY <1>0, <1>d DEF RxInv, Delivered
    <3>4. \A i \in 1 .. Len(mbox) : mbox[i] <= arrived + 1
      BY <1>b, <1>c, <1>d
    <3> QED BY <2>0, <3>1, <3>2, <3>3, <3>4 DEF RxInv, Delivered, After
  <2>2. CASE rxOwn[dmaRx]
    <3>1. /\ rxOwn' = [rxOwn EXCEPT ![dmaRx] = FALSE]
          /\ rxBuf' = [rxBuf EXCEPT ![dmaRx] = arrived + 1]
          /\ arrived' = arrived + 1
      BY <1>1, <2>2 DEF FrameArrives
    <3>2. \A d \in RxFilled' : d \in RxFilled \/ d = dmaRx
      <4>1. \A e \in RxRing : e # dmaRx => (rxOwn'[e] <=> rxOwn[e])
        BY <1>0, <3>1, OwnUpdate, Zenon
      <4> QED BY <1>0, <4>1, Zenon DEF RxFilled
    <3>3. /\ rxBuf'[dmaRx] = arrived + 1 /\ dmaRx \notin RxFilled
          /\ \A d \in RxFilled : rxBuf'[d] = rxBuf[d]
      BY <1>0, <2>2, <3>1 DEF RxFilled
    <3>4. \A i \in 1 .. Len(mbox) : mbox[i] < arrived + 1
      BY <1>b, <1>c, <1>d
    <3>5. After(arrived + 1) /\ p < arrived + 1
      BY <1>0, <3>4 DEF RxInv, Delivered, After
    <3>6. \A d \in RxFilled' :
            (pc = "release" /\ d = fs) \/ (After(rxBuf'[d]) /\ p < rxBuf'[d])
      BY <3>2, <3>3, <3>5 DEF RxInv, Delivered
    <3>7. \A i \in 1 .. Len(mbox) : mbox[i] <= arrived + 1
      BY <1>b, <1>c, <1>d
    <3> QED BY <1>0, <2>0, <3>1, <3>6, <3>7 DEF RxInv, Delivered, After
  <2> QED BY <2>1, <2>2
<1>2. CASE Copy
  <2>1. /\ UNCHANGED <<rxOwn, rxBuf, fs, mbox, last, arrived>>
        /\ pc = "copy" /\ pc' = "release" /\ p' \in {rxBuf[fs], 0} /\ p = 0
    BY <1>0, <1>2 DEF Copy, rxVars, lineVars
  <2>2. fs \in RxFilled /\ RxFilled' = RxFilled
    BY <2>1 DEF RxInv, RxOrder, RxFilled
  <2>3. \A d \in RxFilled \ {fs} : rxBuf[fs] < rxBuf[d]
    <3>1. Queue(RxFilled, rxBuf, fs, dmaRx, RxDescs)
      BY <2>1 DEF RxInv, RxOrder, Oldest
    <3> QED BY <1>0, <2>2, <3>1, QueueRemove, EthAssumption DEF RxRing
  <2>4. After(rxBuf[fs]) /\ rxBuf[fs] <= arrived
    BY <2>1, <2>2 DEF RxInv, RxOrder, Delivered
  <2>5. \A d \in RxFilled : d = fs \/ (After(rxBuf[d]) /\ p' < rxBuf[d])
    BY <2>1, <2>2, <2>3 DEF RxInv, Delivered
  <2>6. p' # 0 => After(p') /\ p' <= arrived
    BY <2>1, <2>4
  <2> QED BY <2>1, <2>2, <2>5, <2>6 DEF RxInv, Delivered, After
<1>3. CASE Release
  <2>1. /\ UNCHANGED <<rxBuf, fs, p, mbox, last, arrived>>
        /\ pc = "release" /\ pc' = "input" /\ rxOwn' = [rxOwn EXCEPT ![fs] = TRUE]
    BY <1>3 DEF Release, lineVars, pbufVars
  <2>2. \A d \in RxFilled' : d \in RxFilled /\ d # fs
    <3>1. rxOwn'[fs] /\ \A e \in RxRing : e # fs => (rxOwn'[e] <=> rxOwn[e])
      BY <1>0, <2>1, OwnUpdate, Zenon
    <3> QED BY <1>0, <3>1, Zenon DEF RxFilled
  <2> QED BY <2>1, <2>2 DEF RxInv, Delivered, After
<1>4. CASE Input
  <2>1. /\ UNCHANGED <<rxOwn, rxBuf, fs, last, arrived>>
        /\ pc = "input" /\ pc' \in {"get", "wait"} /\ p' = 0
    BY <1>4 DEF Input, Sleep, rxVars, lineVars
  <2>2. RxFilled' = RxFilled
    BY <2>1 DEF RxFilled
  <2>3. CASE UNCHANGED mbox
    BY <1>0, <2>1, <2>2, <2>3 DEF RxInv, Delivered, After
  <2>4. CASE p # 0 /\ mbox' = Append(mbox, p)
    <3>1. /\ Len(mbox') = Len(mbox) + 1 /\ mbox'[Len(mbox) + 1] = p
          /\ \A i \in 1 .. Len(mbox) : mbox'[i] = mbox[i]
      BY <1>0, <2>4, AppendProperties
    <3>2. After(p) /\ p <= arrived
      BY <2>4 DEF RxInv, Delivered
    <3>6. \A i \in 1 .. Len(mbox') : i \in 1 .. Len(mbox) \/ i = Len(mbox) + 1
      BY <1>0, <3>1
    <3>3. \A i \in 1 .. Len(mbox') : last < mbox'[i] /\ mbox'[i] <= arrived
      BY <3>1, <3>2, <3>6 DEF RxInv, Delivered, After
    <3>4. ASSUME NEW i \in 1 .. Len(mbox'), NEW j \in 1 .. Len(mbox'), i < j
          PROVE  mbox'[i] < mbox'[j]
      <4>1. i \in 1 .. Len(mbox) /\ mbox'[i] = mbox[i]
        BY <1>0, <3>1, <3>4, <3>6
      <4>2. CASE j \in 1 .. Len(mbox)
        BY <3>1, <3>4, <4>1, <4>2 DEF RxInv, Delivered
      <4>3. CASE j = Len(mbox) + 1
        BY <3>1, <3>2, <4>1, <4>3 DEF After
      <4> QED BY <3>6, <4>2, <4>3
    <3>5. ASSUME NEW d \in RxFilled
          PROVE  last < rxBuf[d] /\ 0 < rxBuf[d] /\ \A i \in 1 .. Len(mbox') : mbox'[i] < rxBuf[d]
      <4>1. After(rxBuf[d]) /\ p < rxBuf[d] /\ rxBuf[d] \in Nat
        BY <1>0, <2>1 DEF RxInv, Delivered
      <4>2. last < rxBuf[d] /\ 0 < rxBuf[d]
        BY <1>0, <4>1 DEF After
      <4> QED BY <3>1, <3>6, <4>1, <4>2 DEF After
    <3> QED BY <1>0, <2>1, <2>2, <3>3, <3>4, <3>5 DEF Delivered, After, RxInv
  <2> QED BY <1>4, <2>3, <2>4 DEF Input, Posted
<1>5. CASE StackTakes
  <2>1. /\ UNCHANGED <<rxOwn, rxBuf, fs, pc, p, arrived>>
        /\ mbox # <<>> /\ last' = Head(mbox) /\ mbox' = Tail(mbox)
    BY <1>5 DEF StackTakes, rxVars, lineVars, taskVars
  <2>2. /\ Len(mbox) >= 1 /\ last' = mbox[1] /\ Len(mbox') = Len(mbox) - 1
        /\ \A i \in 1 .. Len(mbox') : mbox'[i] = mbox[i + 1]
    BY <1>0, <2>1, HeadTailProperties, EmptySeq
  <2>3. RxFilled' = RxFilled /\ last' \in Nat
    BY <1>0, <2>1, <2>2, ElementOfSeq DEF RxFilled
  <2>4. \A i \in 1 .. Len(mbox') : i + 1 \in 1 .. Len(mbox) /\ 1 < i + 1 /\ 1 \in 1 .. Len(mbox)
    BY <1>0, <2>2
  <2>5. \A i \in 1 .. Len(mbox') : last' < mbox'[i] /\ mbox'[i] <= arrived
    BY <2>2, <2>4 DEF RxInv, Delivered
  <2>6. ASSUME NEW i \in 1 .. Len(mbox'), NEW j \in 1 .. Len(mbox'), i < j
        PROVE  mbox'[i] < mbox'[j]
    <3>1. i + 1 \in 1 .. Len(mbox) /\ j + 1 \in 1 .. Len(mbox)
      BY <2>4
    <3>3. i + 1 < j + 1
      <4>1. i \in Nat /\ j \in Nat
        BY <1>0, <2>2
      <4> QED BY <2>6, <4>1
    <3>2. mbox'[i] = mbox[i + 1] /\ mbox'[j] = mbox[j + 1]
      BY <2>2
    <3> QED BY <3>1, <3>2, <3>3 DEF RxInv, Delivered
  <2>7. last' <= arrived
    BY <1>0, <2>2 DEF RxInv, Delivered
  <2>8. ASSUME NEW x \in Nat, After(x)
        PROVE  last' < x /\ \A i \in 1 .. Len(mbox') : mbox'[i] < x
    <3>1. \A i \in 1 .. Len(mbox) : mbox[i] < x
      BY <2>8 DEF After
    <3>2. 1 \in 1 .. Len(mbox)
      BY <1>0, <2>2
    <3> QED BY <2>2, <2>4, <3>1, <3>2
  <2>9. \A d \in RxFilled : rxBuf[d] \in Nat
    BY <1>0
  <2> QED BY <1>0, <2>1, <2>3, <2>5, <2>6, <2>7, <2>8, <2>9 DEF RxInv, Delivered, After
<1>6. CASE /\ UNCHANGED <<rxOwn, rxBuf, fs, p, mbox, last, arrived>>
           /\ pc # "release"
  BY <1>6 DEF RxInv, Delivered, After, RxFilled
<1>7. CASE UNCHANGED <<rxOwn, rxBuf, fs, p, mbox, last, arrived, pc>>
  BY <1>7 DEF RxInv, Delivered, After, RxFilled
<1>8. CASE GetFinds /\ ~rxOwn[rxDesc]
  <2>1. /\ UNCHANGED <<rxOwn, rxBuf, p, mbox, last, arrived>>
        /\ pc = "scan"
    BY <1>8 DEF GetFinds, rxVars, lineVars, pbufVars
  <2> QED BY <2>1 DEF RxInv, Delivered, After, RxFilled
<1> QED
  BY <1>1, <1>2, <1>3, <1>4, <1>5, <1>6, <1>7, <1>8
  DEF Next, InputTask, Output, HAL_ETH_RxCpltCallback, IrqReturns, FrameLeaves, Wait, GetTestsLock,
      GetLocks, GetFinds, Sleep, StackFrees, LowLevelOutput, TransmitTestsLock,
      TransmitLocks, TransmitHandsOver, vars, rxVars, lineVars, taskVars, pbufVars

\* All numbers of a sequence are below x.
Below(s, x) == \A i \in DOMAIN s : s[i] < x

\* Appending something larger.
LEMMA Follow ==
  ASSUME NEW s \in Seq(Nat), NEW x \in Nat, Increasing(s), Below(s, x)
  PROVE  /\ s \o <<x>> \in Seq(Nat) /\ Increasing(s \o <<x>>)
         /\ \A y \in Nat : Below(s, y) /\ x < y => Below(s \o <<x>>, y)
<1>1. <<x>> \in Seq(Nat) /\ Len(<<x>>) = 1 /\ <<x>>[1] = x
  OBVIOUS
<1>2. PICK t : t = s \o <<x>>
  OBVIOUS
<1>3. /\ t \in Seq(Nat) /\ Len(t) = Len(s) + 1 /\ Len(s) \in Nat
      /\ DOMAIN t = 1 .. Len(t) /\ DOMAIN s = 1 .. Len(s)
  BY <1>1, <1>2, ConcatProperties, LenProperties
<1>4. \A i \in DOMAIN t : (i \in DOMAIN s /\ t[i] = s[i]) \/ (i = Len(s) + 1 /\ t[i] = x)
  BY <1>1, <1>2, <1>3, ConcatProperties
<1>5. ASSUME NEW i \in DOMAIN t, NEW j \in DOMAIN t, i < j PROVE t[i] < t[j]
  <2>a. DOMAIN t = 1 .. Len(s) + 1 /\ Len(s) \in Nat
    BY <1>3
  <2>0. PICK n \in Nat : n = Len(s) /\ DOMAIN t = 1 .. n + 1
    BY <2>a
  <2>1. i \in DOMAIN s /\ t[i] = s[i]
    <3>1. i # n + 1
      BY <1>5, <2>0
    <3> QED BY <1>4, <2>0, <3>1
  <2> QED BY <1>4, <1>5, <2>1 DEF Increasing, Below
<1>6. \A y \in Nat : Below(s, y) /\ x < y => Below(t, y)
  BY <1>4 DEF Below
<1>7. Increasing(t)
  BY <1>5 DEF Increasing
<1> QED BY <1>2, <1>3, <1>6, <1>7

LEMMA FirstOnes ==
  ASSUME RxInv
  PROVE  /\ <<last>> \o mbox \in Seq(Nat) /\ Increasing(<<last>> \o mbox)
         /\ \A x \in Nat : After(x) => Below(<<last>> \o mbox, x)
<1>1. mbox \in Seq(Nat) /\ last \in Nat /\ Len(mbox) \in Nat
  BY LenProperties DEF RxInv, Pool, Counts, Delivered
<1>2. <<last>> \in Seq(Nat) /\ Len(<<last>>) = 1 /\ <<last>>[1] = last
  BY <1>1
<1>3. PICK t : t = <<last>> \o mbox
  OBVIOUS
<1>4. t \in Seq(Nat) /\ Len(t) = Len(mbox) + 1 /\ DOMAIN t = 1 .. Len(t)
  BY <1>1, <1>2, <1>3, ConcatProperties, LenProperties
<1>5. t[1] = last /\ \A i \in 2 .. Len(mbox) + 1 : t[i] = mbox[i - 1]
  BY <1>1, <1>2, <1>3, ConcatProperties
<1>6. \A i \in DOMAIN t : i = 1 \/ (i \in 2 .. Len(mbox) + 1 /\ i - 1 \in 1 .. Len(mbox))
  <2>1. PICK n \in Nat : n = Len(mbox) /\ DOMAIN t = 1 .. n + 1
    BY <1>1, <1>4
  <2> QED BY <2>1
<1>7. Increasing(t)
  <2> SUFFICES ASSUME NEW i \in DOMAIN t, NEW j \in DOMAIN t, i < j PROVE t[i] < t[j]
    BY DEF Increasing
  <2>1. i \in Nat /\ j \in Nat
    <3>1. PICK n \in Nat : DOMAIN t = 1 .. n
      BY <1>1, <1>4
    <3> QED BY <3>1
  <2>2. j \in 2 .. Len(mbox) + 1 /\ j - 1 \in 1 .. Len(mbox) /\ t[j] = mbox[j - 1]
    BY <1>4, <1>5, <1>6, <2>1
  <2>3. CASE i = 1
    BY <1>5, <2>2, <2>3 DEF RxInv, Delivered
  <2>4. CASE i \in 2 .. Len(mbox) + 1 /\ i - 1 \in 1 .. Len(mbox)
    <3>1. t[i] = mbox[i - 1] /\ i - 1 < j - 1
      BY <1>5, <2>1, <2>4
    <3> QED BY <2>2, <2>4, <3>1 DEF RxInv, Delivered
  <2> QED BY <1>6, <2>3, <2>4
<1>8. \A x \in Nat : After(x) => Below(t, x)
  BY <1>5, <1>6 DEF After, Below
<1> QED BY <1>3, <1>4, <1>7, <1>8

\* However many frames come while the task copies and the stack takes them, the
\* stack gets each at most once and in the order of arrival, and no descriptor is
\* filled again before it was read (ethernetif.c:274-338, :347-360).
THEOREM FramesInOrder == Spec => []ReceivedInOrder
<1>1. Init => RxInv
  <2> SUFFICES ASSUME Init PROVE RxInv
    OBVIOUS
  <2>1. Pool
    BY PoolInitially
  <2>2. RxFilled = {} /\ Oldest = 0 /\ dmaRx = 0
    BY DEF Init, RxFilled, Oldest
  <2>4. Queue({}, rxBuf, 0, 0, RxDescs)
    BY EmptyQueue, EthAssumption
  <2>5. RxOrder
    BY <2>2, <2>4 DEF Init, RxOrder
  <2>6. Delivered
    BY <2>2, EmptySeq DEF Init, Delivered
  <2> QED BY <2>1, <2>5, <2>6 DEF RxInv
<1>2. RxInv /\ [Next]_vars => RxInv'
  BY DescriptorsStep, CountsStep, RxOrderStep, DeliveredStep DEF RxInv, Pool
<1>3. RxInv => ReceivedInOrder
  <2> SUFFICES ASSUME RxInv PROVE ReceivedInOrder
    OBVIOUS
  <2>1. PICK first : first = <<last>> \o mbox
    OBVIOUS
  <2>2. /\ first \in Seq(Nat) /\ Increasing(first)
        /\ \A x \in Nat : After(x) => Below(first, x)
    BY <2>1, FirstOnes
  <2>3. /\ rxBuf \in [RxRing -> Nat] /\ rxDesc \in RxRing /\ fs \in RxRing /\ dmaRx \in RxRing
        /\ RxFilled \in SUBSET RxRing /\ p \in Nat
        /\ pc \notin {"release", "input"} => p = 0
    BY DEF RxInv, Pool, Descriptors, Counts, RxFilled
  <2>4. ASSUME NEW d \in RxRing, Left(d)
        PROVE  d \in RxFilled /\ After(rxBuf[d]) /\ p < rxBuf[d]
    BY <2>4 DEF Left, RxFilled, RxInv, Delivered
  <2>5. ASSUME NEW d \in RxRing, Left(d), NEW e \in RxRing, Left(e),
               Ahead(rxDesc, d, RxDescs) < Ahead(rxDesc, e, RxDescs)
        PROVE  rxBuf[d] < rxBuf[e]
    <3>1. Queue(RxFilled, rxBuf, Oldest, dmaRx, RxDescs)
      BY DEF RxInv, RxOrder
    <3>2. CASE pc \notin {"copy", "release"}
      BY <2>5, <3>1, <3>2 DEF Oldest, Queue, Ordered, Left, RxFilled
    <3>3. CASE pc \in {"copy", "release"}
      <4>1. Oldest = fs /\ rxDesc = (fs + 1) % RxDescs /\ fs \in RxFilled
        BY <3>3 DEF Oldest, RxInv, RxOrder, NextRx
      <4>2. Queue(RxFilled \ {fs}, rxBuf, rxDesc, dmaRx, RxDescs)
        BY <2>3, <3>1, <4>1, QueueRemove, EthAssumption DEF RxRing
      <4>3. d \in RxFilled \ {fs} /\ e \in RxFilled \ {fs}
        BY <2>5, <3>3 DEF Left, RxFilled
      <4> QED BY <2>5, <4>2, <4>3 DEF Queue, Ordered
    <3> QED BY <3>2, <3>3
  <2>6. CASE pc = "copy"
    <3>1. PICK x \in Nat : x = rxBuf[fs]
      BY <2>3
    <3>2. InHand = <<x>> /\ fs \in RxFilled
      BY <2>6, <3>1 DEF InHand, RxInv, RxOrder
    <3>3. After(x) /\ Below(first, x)
      BY <2>2, <2>6, <3>1, <3>2 DEF RxInv, Delivered
    <3>4. ASSUME NEW d \in RxRing, Left(d) PROVE x < rxBuf[d]
      <4>1. Queue(RxFilled, rxBuf, fs, dmaRx, RxDescs)
        BY <2>6 DEF Oldest, RxInv, RxOrder
      <4>2. d \in RxFilled \ {fs}
        BY <2>6, <3>4 DEF Left, RxFilled
      <4> QED BY <2>3, <3>1, <3>2, <4>1, <4>2, QueueRemove, EthAssumption DEF RxRing
    <3>5. /\ Increasing(first \o <<x>>)
          /\ \A y \in Nat : Below(first, y) /\ x < y => Below(first \o <<x>>, y)
      BY <2>2, <3>3, Follow
    <3>6. \A d \in RxRing : Left(d) => Below(first \o <<x>>, rxBuf[d])
      BY <2>2, <2>3, <2>4, <3>4, <3>5
    <3> QED BY <2>1, <2>5, <3>2, <3>5, <3>6 DEF ReceivedInOrder, Below
  <2>7. CASE pc # "copy" /\ p # 0
    <3>1. InHand = <<p>> /\ After(p) /\ Below(first, p)
      BY <2>2, <2>3, <2>7 DEF InHand, RxInv, Delivered
    <3>2. /\ Increasing(first \o <<p>>)
          /\ \A y \in Nat : Below(first, y) /\ p < y => Below(first \o <<p>>, y)
      BY <2>2, <2>3, <3>1, Follow
    <3>3. \A d \in RxRing : Left(d) => Below(first \o <<p>>, rxBuf[d])
      BY <2>2, <2>3, <2>4, <3>2
    <3> QED BY <2>1, <2>5, <3>1, <3>2, <3>3 DEF ReceivedInOrder, Below
  <2>8. CASE pc # "copy" /\ p = 0
    <3>1. InHand = <<>> /\ first \o <<>> = first
      BY <2>2, <2>8, ConcatEmptySeq DEF InHand
    <3>2. \A d \in RxRing : Left(d) => Below(first, rxBuf[d])
      BY <2>2, <2>3, <2>4
    <3> QED BY <2>1, <2>2, <2>5, <3>1, <3>2 DEF ReceivedInOrder, Below
  <2> QED BY <2>6, <2>7, <2>8
<1> QED BY <1>1, <1>2, <1>3, PTL DEF Spec

-----------------------------------------------------------------------------
(* Transmission in order.                                                  *)

TxFilled == {d \in TxRing : txOwn[d]}

TxTypes ==
  /\ txOwn \in [TxRing -> BOOLEAN] /\ txBuf \in [TxRing -> Nat]
  /\ dmaTx \in TxRing /\ txDesc \in TxRing
  /\ output \in Nat /\ wire \in Nat

\* While a frame is being handed over its buffer is the only one that changes, and
\* it is not the DMA's.
TxOrder ==
  /\ Queue(TxFilled, txBuf, dmaTx, txDesc, TxDescs)
  /\ \A d \in TxFilled : wire < txBuf[d] /\ txBuf[d] <= output
  /\ wire <= output
  /\ sndPc # "idle" =>
       /\ txDesc \notin TxFilled /\ txBuf[txDesc] = output
       /\ wire < output /\ \A d \in TxFilled : txBuf[d] < output

TxInv == TxTypes /\ TxOrder

LEMMA NextTxInRing == \A d \in TxRing : NextTx(d) \in TxRing
  BY EthAssumption DEF TxRing, NextTx

\* Nothing of the transmit side moves but the sender's place.
LEMMA TxStutter ==
  ASSUME TxInv, UNCHANGED <<txOwn, txBuf, dmaTx, txDesc, output, wire>>,
         sndPc' = "idle" \/ sndPc # "idle"
  PROVE  TxInv'
<1>1. TxFilled' = TxFilled
  BY DEF TxFilled
<1> QED BY <1>1 DEF TxInv, TxTypes, TxOrder

LEMMA TxInitially == Init => TxInv
<1> SUFFICES ASSUME Init PROVE TxInv
  OBVIOUS
<1>1. TxTypes
  BY EthAssumption DEF Init, TxTypes, TxRing
<1>2. TxFilled = {} /\ dmaTx = 0 /\ txDesc = 0 /\ wire = 0 /\ output = 0 /\ sndPc = "idle"
  BY DEF Init, TxFilled
<1>4. Queue({}, txBuf, 0, 0, TxDescs)
  BY EmptyQueue, EthAssumption
<1> QED BY <1>1, <1>2, <1>4 DEF TxInv, TxOrder

LEMMA TxStep == TxInv /\ [Next]_vars => TxInv'
<1> SUFFICES ASSUME TxInv, [Next]_vars PROVE TxInv'
  OBVIOUS
<1>0. /\ txOwn \in [TxRing -> BOOLEAN] /\ txBuf \in [TxRing -> Nat]
      /\ dmaTx \in TxRing /\ txDesc \in TxRing /\ output \in Nat /\ wire \in Nat
      /\ TxDescs \in Nat \ {0} /\ TxFilled \in SUBSET TxRing
  BY EthAssumption DEF TxInv, TxTypes, TxFilled
<1>1. CASE FrameLeaves
  <2>1. /\ txOwn[dmaTx] /\ txOwn' = [txOwn EXCEPT ![dmaTx] = FALSE]
        /\ dmaTx' = NextTx(dmaTx) /\ wire' = txBuf[dmaTx]
        /\ UNCHANGED <<txBuf, txDesc, sndPc, output>>
    BY <1>1 DEF FrameLeaves
  <2>2. /\ txOwn' \in [TxRing -> BOOLEAN] /\ ~txOwn'[dmaTx]
        /\ \A e \in TxRing : e # dmaTx => (txOwn'[e] <=> txOwn[e])
    BY <1>0, <2>1, OwnUpdate, Zenon
  <2>3. TxFilled' = TxFilled \ {dmaTx}
    BY <1>0, <2>2, Zenon DEF TxFilled
  <2>4. dmaTx \in TxFilled
    BY <1>0, <2>1 DEF TxFilled
  <2>5. /\ Queue(TxFilled \ {dmaTx}, txBuf, NextTx(dmaTx), txDesc, TxDescs)
        /\ \A d \in TxFilled \ {dmaTx} : txBuf[dmaTx] < txBuf[d]
    <3>1. Queue(TxFilled, txBuf, dmaTx, txDesc, TxDescs)
      BY DEF TxInv, TxOrder
    <3> QED BY <1>0, <2>4, <3>1, QueueRemove DEF TxRing, NextTx
  <2>6. Queue(TxFilled', txBuf', dmaTx', txDesc', TxDescs)
    BY <2>1, <2>3, <2>5
  <2>7. TxTypes'
    BY <1>0, <2>1, <2>2, NextTxInRing DEF TxTypes
  <2>8. /\ \A d \in TxFilled' : wire' < txBuf'[d] /\ txBuf'[d] <= output'
        /\ wire' <= output'
    BY <2>1, <2>3, <2>4, <2>5 DEF TxInv, TxOrder
  <2>9. sndPc' # "idle" =>
          /\ txDesc' \notin TxFilled' /\ txBuf'[txDesc'] = output'
          /\ wire' < output' /\ \A d \in TxFilled' : txBuf'[d] < output'
    BY <2>1, <2>3, <2>4 DEF TxInv, TxOrder
  <2> QED BY <2>6, <2>7, <2>8, <2>9 DEF TxInv, TxOrder
<1>2. CASE LowLevelOutput
  <2>0. UNCHANGED <<txOwn, txDesc, dmaTx, wire>> /\ output' = output + 1
        /\ sndPc = "idle" /\ TxFilled' = TxFilled
    BY <1>2 DEF LowLevelOutput, dmaTxVars, TxFilled
  <2>1. CASE Returns("ERR_USE", FALSE) /\ UNCHANGED txBuf
    <3>1. \A d \in TxFilled : txBuf[d] <= output + 1
      BY <1>0 DEF TxInv, TxOrder
    <3>2. wire <= output + 1
      BY <1>0 DEF TxInv, TxOrder
    <3>3. sndPc' = "idle"
      BY <2>1 DEF Returns
    <3> QED BY <1>0, <2>0, <2>1, <3>1, <3>2, <3>3 DEF TxInv, TxTypes, TxOrder
  <2>2. CASE ~txOwn[txDesc] /\ txBuf' = [txBuf EXCEPT ![txDesc] = output + 1] /\ sndPc' = "test"
    <3>1. txDesc \notin TxFilled
      BY <2>2 DEF TxFilled
    <3>2. /\ txBuf' \in [TxRing -> Nat] /\ txBuf'[txDesc] = output + 1
          /\ \A d \in TxFilled : txBuf'[d] = txBuf[d]
      BY <1>0, <2>2, <3>1
    <3>3. \A d \in TxFilled : txBuf[d] < output + 1
      BY <1>0 DEF TxInv, TxOrder
    <3>4. wire < output + 1
      BY <1>0 DEF TxInv, TxOrder
    <3>5. Queue(TxFilled, txBuf', dmaTx, txDesc, TxDescs)
      BY <3>2 DEF TxInv, TxOrder, Queue, Ordered
    <3>6. Queue(TxFilled', txBuf', dmaTx', txDesc', TxDescs)
      BY <2>0, <3>5
    <3>7. TxTypes'
      BY <1>0, <2>0, <3>2 DEF TxTypes
    <3>8. \A d \in TxFilled : wire < txBuf[d]
      BY DEF TxInv, TxOrder
    <3> QED BY <1>0, <2>0, <3>1, <3>2, <3>3, <3>4, <3>6, <3>7, <3>8 DEF TxInv, TxOrder
  <2> QED BY <1>2, <2>1, <2>2 DEF LowLevelOutput
<1>3. CASE TransmitHandsOver
  <2>0. UNCHANGED <<txBuf, output, dmaTx, wire>> /\ sndPc = "send"
    BY <1>3 DEF TransmitHandsOver, dmaTxVars
  <2>1. CASE Returns("ERR_OK", FALSE) /\ UNCHANGED <<txOwn, txDesc>>
    BY <2>0, <2>1, TxStutter DEF Returns
  <2>2. CASE /\ txOwn' = [txOwn EXCEPT ![txDesc] = TRUE] /\ txDesc' = NextTx(txDesc)
             /\ Returns("ERR_OK", TRUE)
    <3>1. /\ txOwn' \in [TxRing -> BOOLEAN] /\ txOwn'[txDesc]
          /\ \A e \in TxRing : e # txDesc => (txOwn'[e] <=> txOwn[e])
      BY <1>0, <2>2, OwnUpdate, Zenon
    <3>2. TxFilled' = TxFilled \cup {txDesc}
      BY <1>0, <3>1, Zenon DEF TxFilled
    <3>3. /\ txDesc \notin TxFilled /\ txBuf[txDesc] = output /\ wire < output
          /\ \A d \in TxFilled : txBuf[d] < output
      BY <2>0 DEF TxInv, TxOrder
    <3>4. Queue(TxFilled \cup {txDesc}, txBuf, dmaTx, NextTx(txDesc), TxDescs)
      <4>1. Queue(TxFilled, txBuf, dmaTx, txDesc, TxDescs)
        BY DEF TxInv, TxOrder
      <4> QED BY <1>0, <3>3, <4>1, QueueAdd DEF TxRing, NextTx
    <3>5. Queue(TxFilled', txBuf', dmaTx', txDesc', TxDescs)
      BY <2>0, <2>2, <3>2, <3>4
    <3>6. TxTypes' /\ sndPc' = "idle"
      BY <1>0, <2>0, <2>2, <3>1, NextTxInRing DEF TxTypes, Returns
    <3>7. \A d \in TxFilled' : wire' < txBuf'[d] /\ txBuf'[d] <= output'
      BY <1>0, <2>0, <3>2, <3>3 DEF TxInv, TxOrder
    <3>8. wire' <= output'
      BY <1>0, <2>0, <3>3
    <3> QED BY <3>5, <3>6, <3>7, <3>8 DEF TxInv, TxOrder
  <2> QED BY <1>3, <2>1, <2>2 DEF TransmitHandsOver
<1>4. CASE TransmitTestsLock \/ TransmitLocks
  BY <1>4, TxStutter DEF TransmitTestsLock, TransmitLocks, Returns, dmaTxVars
<1>5. CASE UNCHANGED <<txOwn, txBuf, dmaTx, txDesc, output, wire, sndPc>>
  BY <1>5, TxStutter
<1> QED
  BY <1>1, <1>2, <1>3, <1>4, <1>5
  DEF Next, InputTask, Output, FrameArrives, HAL_ETH_RxCpltCallback, IrqReturns, Wait,
      GetTestsLock, GetLocks, GetFinds, Copy, Release, Input, StackTakes, StackFrees, vars,
      txVars, dmaTxVars

\* The DMA sends each frame at most once and in the order of output, whatever the
\* lock turned away, and never one whose buffer changed under it
\* (ethernetif.c:186-251).
THEOREM SentAsOutput == Spec => []SentInOrder
<1>1. Init => TxInv
  BY TxInitially
<1>2. TxInv /\ [Next]_vars => TxInv'
  BY TxStep
<1>3. TxInv => SentInOrder
  BY DEF TxInv, TxOrder, Queue, Ordered, TxFilled, SentInOrder
<1> QED BY <1>1, <1>2, <1>3, PTL DEF Spec

-----------------------------------------------------------------------------
(* Types.                                                                  *)

\* The bounds of what arrives, is held and is sent; the rest of TypeOK.
RxBounds ==
  /\ rxBuf \in [RxRing -> 0 .. MaxFrames] /\ p \in 0 .. MaxFrames
  /\ mbox \in Seq(0 .. MaxFrames) /\ last \in 0 .. MaxFrames /\ arrived \in 0 .. MaxFrames

TxBounds ==
  /\ txBuf \in [TxRing -> 0 .. MaxOut] /\ output \in 0 .. MaxOut /\ wire \in 0 .. MaxOut

Places ==
  /\ pc \in {"wait", "get", "lock", "scan", "copy", "release", "input"}
  /\ sndPc \in {"idle", "test", "lock", "send"}
  /\ outcome \in [result : {"ERR_OK", "ERR_USE"}, handed : BOOLEAN]

Flags ==
  /\ irq \in BOOLEAN /\ isr \in BOOLEAN /\ given \in BOOLEAN
  /\ locked \in BOOLEAN /\ cut \in BOOLEAN

LEMMA RxBoundsStep == Pool /\ RxBounds /\ [Next]_vars => RxBounds'
<1> SUFFICES ASSUME Pool, RxBounds, [Next]_vars PROVE RxBounds'
  OBVIOUS
<1> USE EthAssumption DEF RxBounds
<1>1. CASE FrameArrives
  <2>1. arrived + 1 \in 0 .. MaxFrames
    BY <1>1 DEF FrameArrives
  <2>2. rxBuf' \in [RxRing -> 0 .. MaxFrames]
    BY <1>1, <2>1 DEF FrameArrives
  <2> QED BY <1>1, <2>1, <2>2 DEF FrameArrives, taskVars, pbufVars
<1>2. CASE Copy
  <2>1. rxBuf[fs] \in 0 .. MaxFrames
    BY DEF Pool, Descriptors
  <2> QED BY <1>2, <2>1 DEF Copy, rxVars, lineVars
<1>3. CASE Input
  <2>1. p' = 0 /\ UNCHANGED <<rxBuf, last, arrived>>
    BY <1>3 DEF Input, rxVars, lineVars
  <2>2. mbox' = mbox \/ mbox' = Append(mbox, p)
    BY <1>3 DEF Input, Posted
  <2>3. mbox' \in Seq(0 .. MaxFrames)
    BY <2>2, AppendProperties
  <2> QED BY <2>1, <2>3
<1>4. CASE StackTakes
  <2>1. Head(mbox) \in 0 .. MaxFrames /\ Tail(mbox) \in Seq(0 .. MaxFrames)
    BY <1>4, HeadTailProperties DEF StackTakes
  <2> QED BY <1>4, <2>1 DEF StackTakes, rxVars, lineVars, taskVars
<1>5. CASE UNCHANGED <<rxBuf, p, mbox, last, arrived>>
  BY <1>5
<1> QED
  BY <1>1, <1>2, <1>3, <1>4, <1>5
  DEF Next, InputTask, Output, HAL_ETH_RxCpltCallback, IrqReturns, FrameLeaves, Wait, GetTestsLock,
      GetLocks, GetFinds, Release, StackFrees, LowLevelOutput, TransmitTestsLock,
      TransmitLocks, TransmitHandsOver, vars, rxVars, lineVars, taskVars, pbufVars

LEMMA TxBoundsStep == TxInv /\ TxBounds /\ [Next]_vars => TxBounds'
<1> SUFFICES ASSUME TxInv, TxBounds, [Next]_vars PROVE TxBounds'
  OBVIOUS
<1> USE EthAssumption DEF TxBounds
<1>1. CASE FrameLeaves
  <2>1. txBuf[dmaTx] \in 0 .. MaxOut
    BY DEF TxInv, TxTypes
  <2> QED BY <1>1, <2>1 DEF FrameLeaves
<1>2. CASE LowLevelOutput
  <2>1. output + 1 \in 0 .. MaxOut
    BY <1>2 DEF LowLevelOutput
  <2>2. txBuf' \in [TxRing -> 0 .. MaxOut]
    BY <1>2, <2>1 DEF LowLevelOutput
  <2> QED BY <1>2, <2>1, <2>2 DEF LowLevelOutput, dmaTxVars
<1>3. CASE UNCHANGED <<txBuf, output, wire>>
  BY <1>3
<1> QED
  BY <1>1, <1>2, <1>3
  DEF Next, InputTask, Output, FrameArrives, HAL_ETH_RxCpltCallback, IrqReturns, Wait,
      GetTestsLock, GetLocks, GetFinds, Copy, Release, Input, StackTakes, StackFrees,
      TransmitTestsLock, TransmitLocks, TransmitHandsOver, vars, txVars, dmaTxVars

LEMMA PlacesStep == Places /\ [Next]_vars => Places'
<1> SUFFICES ASSUME Places, [Next]_vars PROVE Places'
  OBVIOUS
<1> USE DEF Places, Returns, Sleep, taskVars, txVars
<1>1. CASE InputTask
  BY <1>1 DEF InputTask, Wait, GetTestsLock, GetLocks, GetFinds, Copy, Release, Input
<1>2. CASE Output
  <2>1. UNCHANGED pc
    BY <1>2 DEF Output, LowLevelOutput, TransmitTestsLock, TransmitLocks, TransmitHandsOver
  <2>2. \/ UNCHANGED outcome /\ sndPc' \in {"test", "lock", "send"}
        \/ \E result \in {"ERR_OK", "ERR_USE"}, handed \in BOOLEAN : Returns(result, handed)
    BY <1>2 DEF Output, LowLevelOutput, TransmitTestsLock, TransmitLocks, TransmitHandsOver
  <2>3. sndPc' \in {"idle", "test", "lock", "send"}
        /\ outcome' \in [result : {"ERR_OK", "ERR_USE"}, handed : BOOLEAN]
    BY <2>2
  <2> QED BY <2>1, <2>3
<1>3. CASE UNCHANGED <<pc, sndPc, outcome>>
  BY <1>3
<1> QED
  BY <1>1, <1>2, <1>3
  DEF Next, FrameArrives, HAL_ETH_RxCpltCallback, IrqReturns, FrameLeaves, StackTakes,
      StackFrees, vars

LEMMA FlagsStep == Flags /\ [Next]_vars => Flags'
<1> SUFFICES ASSUME Flags, [Next]_vars PROVE Flags'
  OBVIOUS
<1> USE DEF Flags, lineVars, taskVars
<1>1. CASE FrameArrives \/ HAL_ETH_RxCpltCallback \/ IrqReturns \/ FrameLeaves
  BY <1>1, Zenon DEF FrameArrives, HAL_ETH_RxCpltCallback, IrqReturns, FrameLeaves
<1>2. CASE InputTask
  BY <1>2, Zenon DEF InputTask, Wait, GetTestsLock, GetLocks, GetFinds, Copy, Release, Input, Sleep
<1>3. CASE StackTakes \/ StackFrees
  BY <1>3, Zenon DEF StackTakes, StackFrees
<1>4. CASE Output
  BY <1>4, Zenon DEF Output, LowLevelOutput, TransmitTestsLock, TransmitLocks, TransmitHandsOver
<1>5. CASE UNCHANGED vars
  BY <1>5, Zenon DEF vars
<1> QED BY <1>1, <1>2, <1>3, <1>4, <1>5 DEF Next

\* Types and limits of all of the interface's state: no ring index, mailbox or pool
\* count leaves its range, for every size of the rings, the pool and the mailbox.
THEOREM InterfaceTyped == Spec => []TypeOK
<1> DEFINE Typed == Pool /\ RxBounds /\ TxInv /\ TxBounds /\ Places /\ Flags
<1>1. Init => Typed
  <2> SUFFICES ASSUME Init PROVE Typed
    OBVIOUS
  <2>1. Pool
    BY PoolInitially
  <2>2. RxBounds
    BY EthAssumption, EmptySeq DEF Init, RxBounds
  <2>3. TxInv
    BY TxInitially
  <2>4. TxBounds /\ Places
    BY EthAssumption DEF Init, TxBounds, Places
  <2>5. Flags
    BY DEF Init, Flags
  <2> QED BY <2>1, <2>2, <2>3, <2>4, <2>5
<1>2. Typed /\ [Next]_vars => Typed'
  BY DescriptorsStep, CountsStep, RxBoundsStep, TxStep, TxBoundsStep, PlacesStep, FlagsStep
  DEF Pool
<1>3. Typed => TypeOK
  <2> SUFFICES ASSUME Typed PROVE TypeOK
    OBVIOUS
  <2>1. free \in 0 .. Pbufs /\ held \in 0 .. Pbufs
    <3>1. PICK n \in Nat : n = Len(mbox)
      BY LenProperties DEF Pool, Counts
    <3>2. free \in Nat /\ held \in Nat /\ free + (IF p = 0 THEN 0 ELSE 1) + n + held = Pbufs
      BY <3>1 DEF Pool, Counts, PbufsKept
    <3> QED BY <3>2, EthAssumption
  <2>2. Len(mbox) <= MboxSize
    BY DEF Pool, Counts
  <2> QED BY <2>1, <2>2 DEF TypeOK, Pool, Descriptors, RxBounds, TxInv, TxTypes, TxBounds, Places,
                            Flags
<1> QED
  <2> HIDE DEF Typed
  <2> QED BY <1>1, <1>2, <1>3, PTL DEF Spec
=============================================================================
