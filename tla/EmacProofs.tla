----------------------------- MODULE EmacProofs -----------------------------
(***************************************************************************)
(* Proofs about the descriptor rings, for rings of every size and every    *)
(* number of frames: the receive ring implements FrameQueue, and what the  *)
(* transmit ring puts on the wire is in the order of sending.              *)
(***************************************************************************)
EXTENDS Emac, SequenceTheorems, TLAPS

\* Both ring indices stay inside the ring when they are advanced.
LEMMA AdvanceType ==
  ASSUME NEW n \in Nat, n > 1, NEW i \in 0..(n - 1)
  PROVE  Advance(i, n) \in 0..(n - 1)
BY DEF Advance

\* The distance of the indices is less than the size, and zero only if they meet.
LEMMA UsedRange ==
  ASSUME NEW n \in Nat, n > 1, NEW c \in 0..(n - 1), NEW p \in 0..(n - 1)
  PROVE  /\ Used(c, p, n) \in 0..(n - 1)
         /\ Used(c, p, n) = 0 <=> c = p
BY DEF Used

\* Producing into a ring that is not full lengthens it by the slot at produce.
LEMMA UsedProduce ==
  ASSUME NEW n \in Nat, n > 1, NEW c \in 0..(n - 1), NEW p \in 0..(n - 1),
         Advance(p, n) # c
  PROVE  /\ Used(c, Advance(p, n), n) = Used(c, p, n) + 1
         /\ Used(c, p, n) < n - 1
         /\ Ahead(c, Used(c, p, n), n) = p
         /\ \A i \in 0..(n - 1) :
              i < Used(c, p, n) => Ahead(c, i, n) \in 0..(n - 1) /\ Ahead(c, i, n) # p
BY DEF Used, Advance, Ahead

\* Consuming from a ring that is not empty shortens it by the slot at consume.
LEMMA UsedConsume ==
  ASSUME NEW n \in Nat, n > 1, NEW c \in 0..(n - 1), NEW p \in 0..(n - 1), c # p
  PROVE  /\ Used(Advance(c, n), p, n) = Used(c, p, n) - 1
         /\ Ahead(c, 0, n) = c
         /\ \A i \in 0..(n - 1) :
              i + 1 < n => Ahead(Advance(c, n), i, n) = Ahead(c, i + 1, n)
BY DEF Used, Advance, Ahead

\* EMAC_GetBufferSts says "empty" exactly when the indices meet.
LEMMA StsEmpty ==
  ASSUME NEW c, NEW p, NEW n
  PROVE  EMAC_GetBufferSts(c, p, n) = "empty" <=> c = p
BY DEF EMAC_GetBufferSts

-----------------------------------------------------------------------------
\* The indices, slots and counters keep their types in every step.
LEMMA TypePreserved ==
  ASSUME TypeOK, [Next]_vars
  PROVE  TypeOK'
<1> USE RingAssumption
<1>1. CASE HwReceive
  <2>1. arrived' \in 0..MaxFrames /\ arrived + 1 \in 0..MaxFrames
    BY <1>1 DEF HwReceive, TypeOK
  <2>2. rxProduce' \in 0..(NumRx - 1)
    BY <1>1, AdvanceType DEF HwReceive, TypeOK
  <2>3. rxRing' \in [0..(NumRx - 1) -> RxSlot]
    <3>1. CASE UNCHANGED rxRing
      BY <3>1 DEF TypeOK
    <3>2. CASE ~UNCHANGED rxRing
      <4>1. PICK bad \in BOOLEAN :
              rxRing' = [rxRing EXCEPT
                           ![rxProduce] = [frame |-> arrived + 1, bad |-> bad]]
        BY <1>1, <3>2 DEF HwReceive
      <4>2. [frame |-> arrived + 1, bad |-> bad] \in RxSlot
        BY <2>1 DEF RxSlot
      <4> QED BY <4>1, <4>2 DEF TypeOK
    <3> QED BY <3>1, <3>2
  <2> QED BY <1>1, <2>1, <2>2, <2>3 DEF HwReceive, txVars, TypeOK
<1>2. CASE ethernetif_input
  <2>1. rxConsume' \in 0..(NumRx - 1)
    BY <1>2, AdvanceType DEF ethernetif_input, EMAC_ReceivePBuf, TypeOK
  <2>2. rxRing[rxConsume].frame \in 0..MaxFrames
    BY DEF TypeOK, RxSlot
  <2>3. input' \in Seq(0..MaxFrames)
    <3>1. input \in Seq(0..MaxFrames)
      BY DEF TypeOK
    <3>2. Append(input, rxRing[rxConsume].frame) \in Seq(0..MaxFrames)
      BY <2>2, <3>1, AppendProperties
    <3> QED BY <1>2, <3>1, <3>2 DEF ethernetif_input
  <2> QED BY <1>2, <2>1, <2>3 DEF ethernetif_input, txVars, TypeOK
<1>3. CASE low_level_output
  <2>1. sent' \in 0..MaxFrames /\ sent + 1 \in 0..MaxFrames
    BY <1>3 DEF low_level_output, TypeOK
  <2>2. txProduce' \in 0..(NumTx - 1)
    BY <1>3, AdvanceType DEF low_level_output, TypeOK
  <2>3. txRing' \in [0..(NumTx - 1) -> 0..MaxFrames]
    BY <1>3, <2>1 DEF low_level_output, TypeOK
  <2>4. txDma' \in {"idle", "frame", "torn"}
    BY <1>3 DEF low_level_output, TypeOK
  <2> QED BY <1>3, <2>1, <2>2, <2>3, <2>4 DEF low_level_output, rxVars, TypeOK
<1>4. CASE HwFetch
  BY <1>4 DEF HwFetch, rxVars, TypeOK
<1>5. CASE HwSent
  <2>1. txConsume' \in 0..(NumTx - 1)
    BY <1>5, AdvanceType DEF HwSent, TypeOK
  <2>2. wire' \in Seq(0..MaxFrames)
    <3>1. (IF txDma = "frame" THEN txRing[txConsume] ELSE Torn) \in 0..MaxFrames
      BY RingAssumption DEF TypeOK, Torn
    <3> QED BY <1>5, <3>1, AppendProperties DEF HwSent, TypeOK
  <2>3. txDma' \in {"idle", "frame", "torn"}
    BY <1>5 DEF HwSent
  <2> QED BY <1>5, <2>1, <2>2, <2>3 DEF HwSent, rxVars, TypeOK
<1>6. CASE UNCHANGED vars
  BY <1>6 DEF vars, rxVars, txVars, TypeOK
<1> QED BY <1>1, <1>2, <1>3, <1>4, <1>5, <1>6 DEF Next

\* The state after EMAC_Init has the right types.
LEMMA TypeInit == ASSUME Init PROVE TypeOK
<1>1. 0 \in 0..(NumRx - 1) /\ 0 \in 0..(NumTx - 1) /\ 0 \in 0..MaxFrames
  BY RingAssumption
<1>2. [frame |-> 0, bad |-> FALSE] \in RxSlot
  BY <1>1 DEF RxSlot
<1>3. <<>> \in Seq(0..MaxFrames)
  OBVIOUS
<1> QED BY <1>1, <1>2, <1>3 DEF Init, TypeOK

\* TypeOK is an invariant: whatever the DMA and the program do, and however often
\* the transmit ring is lapped, no index leaves its ring.
THEOREM TypeCorrect == Spec => []TypeOK
BY TypeInit, TypePreserved, PTL DEF Spec

-----------------------------------------------------------------------------
(* The receive ring implements the queue.                                  *)

\* RxQueue is a sequence of slots, one for each place between the indices.
RxQueueShape ==
  /\ RxUsed \in 0..(NumRx - 1)
  /\ RxQueue \in Seq(RxSlot)
  /\ Len(RxQueue) = RxUsed

\* The shape of the queue follows from the types of ring and indices.
LEMMA RxQueueSeq == TypeOK => RxQueueShape
<1> SUFFICES ASSUME TypeOK PROVE RxQueueShape
  OBVIOUS
<1>1. RxUsed \in 0..(NumRx - 1)
  BY RingAssumption, UsedRange DEF TypeOK, RxUsed
<1>2. \A i \in 1..RxUsed : Ahead(rxConsume, i - 1, NumRx) \in 0..(NumRx - 1)
  BY <1>1, RingAssumption DEF TypeOK, Ahead
<1>3. \A i \in 1..RxUsed : rxRing[Ahead(rxConsume, i - 1, NumRx)] \in RxSlot
  BY <1>2 DEF TypeOK
<1>4. RxUsed \in Nat
  BY <1>1, RingAssumption
<1> QED BY <1>1, <1>3, <1>4 DEF RxQueue, RxQueueShape

\* A frame the controller stores is appended to the queue, which had room for it.
LEMMA RxStore ==
  ASSUME TypeOK, TypeOK', UNCHANGED rxConsume,
         Advance(rxProduce, NumRx) # rxConsume,
         rxProduce' = Advance(rxProduce, NumRx),
         NEW slot \in RxSlot, rxRing' = [rxRing EXCEPT ![rxProduce] = slot]
  PROVE  /\ Len(RxQueue) < NumRx - 1
         /\ RxQueue' = Append(RxQueue, slot)
<1>1. /\ RxUsed' = RxUsed + 1
      /\ RxUsed < NumRx - 1
      /\ Ahead(rxConsume, RxUsed, NumRx) = rxProduce
      /\ \A i \in 0..(NumRx - 1) : i < RxUsed =>
           /\ Ahead(rxConsume, i, NumRx) \in 0..(NumRx - 1)
           /\ Ahead(rxConsume, i, NumRx) # rxProduce
  BY UsedProduce, RingAssumption DEF TypeOK, RxUsed
<1>2. /\ RxUsed \in 0..(NumRx - 1) /\ RxQueue \in Seq(RxSlot) /\ Len(RxQueue) = RxUsed
      /\ RxQueue' \in Seq(RxSlot) /\ Len(RxQueue') = RxUsed'
  <2>1. TypeOK' => RxQueueShape'
    BY RxQueueSeq, PTL
  <2> QED BY <2>1, RxQueueSeq DEF RxQueueShape
<1>3. /\ Append(RxQueue, slot) \in Seq(RxSlot)
      /\ Len(Append(RxQueue, slot)) = RxUsed + 1
      /\ \A i \in 1..RxUsed : Append(RxQueue, slot)[i] = RxQueue[i]
      /\ Append(RxQueue, slot)[RxUsed + 1] = slot
  BY <1>2, AppendProperties
<1>4. \A i \in 1..RxUsed : RxQueue'[i] = RxQueue[i]
  <2>1. TAKE i \in 1..RxUsed
  <2>2. i \in 1..RxUsed' /\ i - 1 \in 0..(NumRx - 1) /\ i - 1 < RxUsed
    BY <1>1, <1>2, RingAssumption
  <2>3. /\ Ahead(rxConsume, i - 1, NumRx) \in 0..(NumRx - 1)
        /\ Ahead(rxConsume, i - 1, NumRx) # rxProduce
    BY <1>1, <2>2
  <2>4. rxRing'[Ahead(rxConsume, i - 1, NumRx)] = rxRing[Ahead(rxConsume, i - 1, NumRx)]
    BY <2>3 DEF TypeOK
  <2> QED BY <2>2, <2>4 DEF RxQueue
<1>5. RxQueue'[RxUsed + 1] = slot
  <2>1. RxUsed + 1 \in 1..RxUsed' /\ (RxUsed + 1) - 1 = RxUsed
    BY <1>1, <1>2
  <2>2. rxRing'[rxProduce] = slot
    BY DEF TypeOK
  <2> QED BY <1>1, <2>1, <2>2 DEF RxQueue
<1>6. \A i \in 1..Len(RxQueue') : RxQueue'[i] = Append(RxQueue, slot)[i]
  BY <1>1, <1>2, <1>3, <1>4, <1>5
<1> QED BY <1>1, <1>2, <1>3, <1>6, SeqEqual

\* Releasing the slot at the consume index takes the head off the queue.
LEMMA RxRelease ==
  ASSUME TypeOK, TypeOK', UNCHANGED <<rxRing, rxProduce>>,
         rxConsume # rxProduce, rxConsume' = Advance(rxConsume, NumRx)
  PROVE  /\ RxQueue # <<>>
         /\ Head(RxQueue) = rxRing[rxConsume]
         /\ RxQueue' = Tail(RxQueue)
<1>1. /\ RxUsed' = RxUsed - 1
      /\ Ahead(rxConsume, 0, NumRx) = rxConsume
      /\ \A i \in 0..(NumRx - 1) : i + 1 < NumRx =>
           Ahead(rxConsume', i, NumRx) = Ahead(rxConsume, i + 1, NumRx)
  BY UsedConsume, RingAssumption DEF TypeOK, RxUsed
<1>2. /\ RxUsed \in 0..(NumRx - 1) /\ RxQueue \in Seq(RxSlot) /\ Len(RxQueue) = RxUsed
      /\ RxQueue' \in Seq(RxSlot) /\ Len(RxQueue') = RxUsed'
      /\ RxUsed' \in 0..(NumRx - 1)
  <2>1. TypeOK' => RxQueueShape'
    BY RxQueueSeq, PTL
  <2> QED BY <2>1, RxQueueSeq DEF RxQueueShape
<1>3. RxUsed \in 1..(NumRx - 1)
  BY <1>1, <1>2
<1>4. RxQueue # <<>>
  BY <1>2, <1>3, RingAssumption
<1>5. Head(RxQueue) = RxQueue[1]
  BY <1>2, <1>4
<1>6. RxQueue[1] = rxRing[rxConsume]
  BY <1>1, <1>3 DEF RxQueue
<1>7. /\ Tail(RxQueue) \in Seq(RxSlot)
      /\ Len(Tail(RxQueue)) = RxUsed - 1
      /\ \A i \in 1..(RxUsed - 1) : Tail(RxQueue)[i] = RxQueue[i + 1]
  BY <1>2, <1>4, HeadTailProperties
<1>8. \A i \in 1..(RxUsed - 1) : RxQueue'[i] = RxQueue[i + 1]
  <2>1. TAKE i \in 1..(RxUsed - 1)
  <2>2. /\ i \in 1..RxUsed' /\ i + 1 \in 1..RxUsed /\ (i + 1) - 1 = (i - 1) + 1
        /\ i - 1 \in 0..(NumRx - 1) /\ (i - 1) + 1 < NumRx
    BY <1>1, <1>3, RingAssumption
  <2>3. Ahead(rxConsume', i - 1, NumRx) = Ahead(rxConsume, (i + 1) - 1, NumRx)
    BY <1>1, <2>2
  <2> QED BY <2>2, <2>3 DEF RxQueue
<1>9. \A i \in 1..Len(RxQueue') : RxQueue'[i] = Tail(RxQueue)[i]
  BY <1>1, <1>2, <1>7, <1>8
<1> QED BY <1>1, <1>2, <1>4, <1>5, <1>6, <1>7, <1>9, SeqEqual

\* EMAC_Init leaves an empty queue.
LEMMA ReceiverInit == ASSUME Init PROVE Receiver!Init
<1>1. RxUsed = 0
  BY DEF Init, RxUsed, Used
<1>2. RxQueue = <<>>
  BY <1>1, TypeInit, RxQueueSeq, EmptySeq DEF RxQueueShape
<1> QED BY <1>2 DEF Init, Receiver!Init

\* Every step of driver and controller is a step of the queue, or none.
LEMMA ReceiverStep ==
  ASSUME TypeOK, TypeOK', [Next]_vars
  PROVE  [Receiver!Next]_(Receiver!vars)
<1>1. CASE HwReceive
  <2>1. CASE UNCHANGED <<rxRing, rxProduce>>
    <3>1. UNCHANGED RxQueue
      BY <1>1, <2>1 DEF HwReceive, RxQueue, RxUsed
    <3> QED BY <1>1, <3>1 DEF HwReceive, Receiver!Next, Receiver!Arrive
  <2>2. CASE ~UNCHANGED <<rxRing, rxProduce>>
    <3>1. PICK bad \in BOOLEAN :
            rxRing' = [rxRing EXCEPT
                         ![rxProduce] = [frame |-> arrived + 1, bad |-> bad]]
      BY <1>1, <2>2 DEF HwReceive
    <3>2. [frame |-> arrived + 1, bad |-> bad] \in RxSlot
      <4>1. arrived + 1 \in 0..MaxFrames
        BY <1>1, RingAssumption DEF HwReceive, TypeOK
      <4> QED BY <4>1 DEF RxSlot
    <3>3. /\ Len(RxQueue) < NumRx - 1
          /\ RxQueue' = Append(RxQueue, [frame |-> arrived + 1, bad |-> bad])
      BY <1>1, <2>2, <3>1, <3>2, RxStore DEF HwReceive
    <3> QED BY <1>1, <3>3 DEF HwReceive, Receiver!Next, Receiver!Arrive
  <2> QED BY <2>1, <2>2
<1>2. CASE ethernetif_input
  <2>1. rxConsume # rxProduce
    BY <1>2, StsEmpty DEF ethernetif_input, EMAC_ReceivePBuf
  <2>2. /\ RxQueue # <<>>
        /\ Head(RxQueue) = rxRing[rxConsume]
        /\ RxQueue' = Tail(RxQueue)
    BY <1>2, <2>1, RxRelease DEF ethernetif_input, EMAC_ReceivePBuf
  <2> QED BY <1>2, <2>2
          DEF ethernetif_input, EMAC_ReceivePBuf,
              Receiver!Next, Receiver!Deliver, Receiver!Discard
<1>3. CASE UNCHANGED rxVars
  <2>1. UNCHANGED RxQueue
    BY <1>3 DEF rxVars, RxQueue, RxUsed
  <2> QED BY <1>3, <2>1 DEF rxVars, Receiver!vars
<1> QED BY <1>1, <1>2, <1>3
        DEF Next, vars, low_level_output, HwFetch, HwSent

\* The receive ring implements the bounded queue of FrameQueue, for every ring size.
THEOREM ReceiverImplementsQueue == Spec => ReceiverIsQueue
<1>1. Init => Receiver!Init
  BY ReceiverInit
<1>2. TypeOK /\ TypeOK' /\ [Next]_vars => [Receiver!Next]_(Receiver!vars)
  BY ReceiverStep
<1> QED BY <1>1, <1>2, TypeCorrect, PTL DEF Spec, ReceiverIsQueue, Receiver!Spec

-----------------------------------------------------------------------------
(* The transmit ring.                                                      *)

\* The frames the DMA has still to read or to finish: a full lap of the ring
\* when the program caught up with a frame that is being sent.
TxOpen == IF txConsume = txProduce THEN NumTx ELSE TxUsed

\* The inductive invariant: the slots behind the produce index hold the last
\* frames, and the wire is older than the slots that are still to be read.
TxInv ==
  /\ TypeOK
  /\ \A k \in 1..NumTx :
       k <= sent => txRing[Behind(txProduce, k, NumTx)] = sent + 1 - k
  /\ TxUsed <= sent
  /\ \A i \in 1..Len(wire) : wire[i] < sent + 1 - TxUsed
  /\ txDma # "idle" =>
       /\ TxOpen <= sent
       /\ \A i \in 1..Len(wire) : wire[i] < sent + 1 - TxOpen
  /\ WireInOrder

\* Producing moves every slot one place further behind the index.
LEMMA BehindProduce ==
  ASSUME NEW n \in Nat, n > 1, NEW p \in 0..(n - 1)
  PROVE  /\ Behind(Advance(p, n), 1, n) = p
         /\ \A k \in 2..n : /\ Behind(Advance(p, n), k, n) = Behind(p, k - 1, n)
                            /\ Behind(p, k - 1, n) \in 0..(n - 1)
                            /\ Behind(p, k - 1, n) # p
BY DEF Behind, Advance

\* The consume index is as many places behind the produce index as slots are used.
LEMMA BehindConsume ==
  ASSUME NEW n \in Nat, n > 1, NEW c \in 0..(n - 1), NEW p \in 0..(n - 1)
  PROVE  /\ c # p => /\ Behind(p, Used(c, p, n), n) = c
                     /\ Used(Advance(c, n), p, n) = Used(c, p, n) - 1
         /\ c = p => /\ Behind(p, n, n) = c
                     /\ Used(Advance(c, n), p, n) = n - 1
BY DEF Behind, Used, Advance

\* Producing into a full ring makes it look empty; otherwise it adds one slot.
LEMMA UsedLap ==
  ASSUME NEW n \in Nat, n > 1, NEW c \in 0..(n - 1), NEW p \in 0..(n - 1)
  PROVE  /\ Advance(p, n) # c => Used(c, Advance(p, n), n) = Used(c, p, n) + 1
         /\ Advance(p, n) = c => /\ Used(c, Advance(p, n), n) = 0
                                 /\ Used(c, p, n) = n - 1
                                 /\ c # p
BY DEF Used, Advance

\* What the types say about the variables of the transmit ring.
LEMMA TxTypes ==
  ASSUME TypeOK
  PROVE  /\ txProduce \in 0..(NumTx - 1) /\ txConsume \in 0..(NumTx - 1)
         /\ sent \in Nat /\ txRing \in [0..(NumTx - 1) -> 0..MaxFrames]
         /\ wire \in Seq(0..MaxFrames)
         /\ \A i \in 1..Len(wire) : wire[i] \in Nat
<1>1. wire \in Seq(0..MaxFrames) /\ sent \in 0..MaxFrames
  BY DEF TypeOK
<1>2. \A i \in 1..Len(wire) : wire[i] \in 0..MaxFrames
  BY <1>1, ElementOfSeq
<1>3. 0..MaxFrames \subseteq Nat
  BY RingAssumption
<1> QED BY <1>1, <1>2, <1>3 DEF TypeOK

\* The invariant survives low_level_output, also when it laps the controller.
LEMMA TxSend ==
  ASSUME TxInv, TypeOK', low_level_output
  PROVE  TxInv'
<1> USE RingAssumption
<1>1. /\ txProduce \in 0..(NumTx - 1) /\ txConsume \in 0..(NumTx - 1)
      /\ sent \in Nat /\ txRing \in [0..(NumTx - 1) -> 0..MaxFrames]
      /\ txProduce' = Advance(txProduce, NumTx) /\ UNCHANGED <<txConsume, wire>>
      /\ sent' = sent + 1 /\ txRing' = [txRing EXCEPT ![txProduce] = sent + 1]
      /\ wire \in Seq(0..MaxFrames)
  <2>1. TypeOK
    BY DEF TxInv
  <2> QED BY <2>1, TxTypes DEF low_level_output
<1>2. TxUsed \in 0..(NumTx - 1)
  BY <1>1, UsedRange DEF TxUsed
<1>3. ASSUME NEW k \in 1..NumTx, k <= sent'
      PROVE  txRing'[Behind(txProduce', k, NumTx)] = sent' + 1 - k
  <2>1. CASE k = 1
    <3>1. Behind(txProduce', k, NumTx) = txProduce
      BY <1>1, <2>1, BehindProduce
    <3> QED BY <1>1, <2>1, <3>1
  <2>2. CASE k # 1
    <3>1. k \in 2..NumTx /\ k - 1 \in 1..NumTx /\ k - 1 <= sent
      BY <1>1, <1>3, <2>2
    <3>2. /\ Behind(txProduce', k, NumTx) = Behind(txProduce, k - 1, NumTx)
          /\ Behind(txProduce, k - 1, NumTx) \in 0..(NumTx - 1)
          /\ Behind(txProduce, k - 1, NumTx) # txProduce
      BY <1>1, <3>1, BehindProduce
    <3>3. txRing[Behind(txProduce, k - 1, NumTx)] = sent + 1 - (k - 1)
      BY <3>1 DEF TxInv
    <3>4. txRing'[Behind(txProduce', k, NumTx)] = sent + 1 - (k - 1)
      BY <1>1, <3>2, <3>3
    <3> QED BY <1>1, <3>4
  <2> QED BY <2>1, <2>2
<1>4. /\ txProduce' # txConsume => TxUsed' = TxUsed + 1
      /\ txProduce' = txConsume => /\ TxUsed' = 0 /\ TxUsed = NumTx - 1
                                   /\ txConsume # txProduce
  BY <1>1, UsedLap DEF TxUsed
<1>5. TxUsed <= sent /\ \A i \in 1..Len(wire) : wire[i] < sent + 1 - TxUsed
  BY DEF TxInv
<1>6. \A i \in 1..Len(wire) : wire[i] \in Nat
  BY <1>1
<1>7. TxUsed' <= sent' /\ \A i \in 1..Len(wire) : wire[i] < sent' + 1 - TxUsed'
  <2>1. sent' = sent + 1 /\ sent \in Nat /\ TxUsed \in Nat /\ TxUsed' <= TxUsed + 1
        /\ TxUsed' \in Nat
    BY <1>1, <1>2, <1>4
  <2>2. ASSUME NEW i \in 1..Len(wire)
        PROVE  wire[i] < sent' + 1 - TxUsed'
    <3>1. wire[i] \in Nat /\ wire[i] < sent + 1 - TxUsed
      BY <1>5, <1>6
    <3> QED BY <2>1, <3>1
  <2> QED BY <1>5, <2>1, <2>2
<1>8. TxOpen' <= sent' /\ \A i \in 1..Len(wire) : wire[i] < sent' + 1 - TxOpen'
  <2>1. CASE txProduce' = txConsume
    <3>1. TxOpen' = NumTx /\ TxUsed = NumTx - 1
      BY <1>1, <1>4, <2>1 DEF TxOpen
    <3> QED BY <1>1, <1>5, <1>6, <3>1
  <2>2. CASE txProduce' # txConsume
    <3>1. TxOpen' = TxUsed'
      BY <1>1, <2>2 DEF TxOpen
    <3> QED BY <1>7, <3>1
  <2> QED BY <2>1, <2>2
<1>9. WireInOrder'
  BY <1>1 DEF TxInv, WireInOrder
<1> QED BY <1>1, <1>3, <1>7, <1>8, <1>9 DEF TxInv

\* The invariant survives the end of a transmission, torn or not.
LEMMA TxDone ==
  ASSUME TxInv, TypeOK', HwSent
  PROVE  TxInv'
<1> USE RingAssumption
<1> DEFINE out == IF txDma = "frame" THEN txRing[txConsume] ELSE Torn
<1>1. /\ txProduce \in 0..(NumTx - 1) /\ txConsume \in 0..(NumTx - 1)
      /\ sent \in Nat /\ txRing \in [0..(NumTx - 1) -> 0..MaxFrames]
      /\ wire \in Seq(0..MaxFrames)
      /\ txConsume' = Advance(txConsume, NumTx)
      /\ UNCHANGED <<txProduce, txRing, sent>> /\ txDma # "idle" /\ txDma' = "idle"
      /\ wire' = Append(wire, out)
  <2>1. TypeOK
    BY DEF TxInv
  <2> QED BY <2>1, TxTypes DEF HwSent
<1>2. out \in 0..MaxFrames
  BY <1>1 DEF Torn
<1>3. TxOpen \in 1..NumTx
  <2>1. /\ TxUsed \in 0..(NumTx - 1)
        /\ TxUsed = 0 <=> txConsume = txProduce
    BY <1>1, UsedRange DEF TxUsed
  <2> QED BY <2>1 DEF TxOpen
<1>4. Behind(txProduce, TxOpen, NumTx) = txConsume /\ TxUsed' = TxOpen - 1
  BY <1>1, BehindConsume DEF TxOpen, TxUsed
<1>5. TxOpen <= sent /\ \A i \in 1..Len(wire) : wire[i] < sent + 1 - TxOpen
  BY <1>1 DEF TxInv
<1>6. txRing[txConsume] = sent + 1 - TxOpen
  BY <1>3, <1>4, <1>5 DEF TxInv
<1>7. out = Torn \/ out = sent + 1 - TxOpen
  BY <1>6
<1> HIDE DEF out
<1>8. /\ Len(wire') = Len(wire) + 1 /\ Len(wire) \in Nat
      /\ \A i \in 1..Len(wire) : wire'[i] = wire[i] /\ wire[i] \in Nat
      /\ wire'[Len(wire) + 1] = out
  BY <1>1, <1>2, AppendProperties
<1>9. \A i \in 1..Len(wire') : wire'[i] < sent + 1 - TxUsed'
  <2>0. sent \in Nat /\ TxOpen \in Nat /\ TxUsed' = TxOpen - 1 /\ TxOpen <= sent
    BY <1>1, <1>3, <1>4, <1>5
  <2>1. TAKE i \in 1..Len(wire')
  <2>2. CASE i \in 1..Len(wire)
    <3>1. wire'[i] < sent + 1 - TxOpen
      BY <1>5, <1>8, <2>2
    <3>2. wire'[i] \in Nat
      BY <1>8, <2>2
    <3> QED BY <2>0, <3>1, <3>2
  <2>3. CASE i = Len(wire) + 1
    <3>1. wire'[i] = out
      BY <1>8, <2>3
    <3> QED BY <1>7, <2>0, <3>1 DEF Torn
  <2> QED BY <1>8, <2>2, <2>3
<1>10. WireInOrder'
  <2>1. SUFFICES ASSUME NEW i \in 1..Len(wire'), NEW j \in 1..Len(wire'),
                        i < j, wire'[i] # Torn, wire'[j] # Torn
                 PROVE  wire'[i] < wire'[j]
    BY DEF WireInOrder
  <2>2. i \in 1..Len(wire)
    BY <1>8, <2>1
  <2>3. CASE j \in 1..Len(wire)
    BY <1>8, <2>1, <2>2, <2>3 DEF TxInv, WireInOrder
  <2>4. CASE j = Len(wire) + 1
    <3>1. wire'[j] = sent + 1 - TxOpen
      BY <1>7, <1>8, <2>1, <2>4
    <3>2. wire'[i] < sent + 1 - TxOpen
      BY <1>5, <1>8, <2>2
    <3> QED BY <3>1, <3>2
  <2> QED BY <1>8, <2>3, <2>4
<1>11. TxUsed' <= sent
  BY <1>1, <1>3, <1>4, <1>5
<1>12. \A k \in 1..NumTx :
         k <= sent' => txRing'[Behind(txProduce', k, NumTx)] = sent' + 1 - k
  BY <1>1 DEF TxInv
<1> QED BY <1>1, <1>9, <1>10, <1>11, <1>12 DEF TxInv

\* The controller only starts on a frame while the indices differ.
LEMMA TxFetch ==
  ASSUME TxInv, TypeOK', HwFetch
  PROVE  TxInv'
<1>1. TxOpen = TxUsed
  BY DEF HwFetch, TxOpen
<1>2. UNCHANGED <<txRing, txProduce, txConsume, sent, wire, TxOpen, TxUsed, WireInOrder>>
  BY DEF HwFetch, TxOpen, TxUsed, WireInOrder
<1> QED BY <1>1, <1>2 DEF TxInv

\* TxInv is inductive.
LEMMA TxInvariant == Spec => []TxInv
<1>1. Init => TxInv
  <2> SUFFICES ASSUME Init PROVE TxInv
    OBVIOUS
  <2>1. TxUsed = 0 /\ Len(wire) = 0 /\ sent = 0 /\ txDma = "idle"
    BY DEF Init, TxUsed, Used
  <2> QED BY <2>1, TypeInit DEF TxInv, WireInOrder
<1>2. TxInv /\ [Next]_vars => TxInv'
  <2> SUFFICES ASSUME TxInv, [Next]_vars PROVE TxInv'
    OBVIOUS
  <2>1. TypeOK'
    BY TypePreserved DEF TxInv
  <2>2. CASE UNCHANGED txVars
    <3>1. UNCHANGED <<txRing, txProduce, txConsume, txDma, sent, wire,
                      TxOpen, TxUsed, WireInOrder>>
      BY <2>2 DEF txVars, TxOpen, TxUsed, WireInOrder
    <3> QED BY <2>1, <3>1 DEF TxInv
  <2> QED BY <2>1, <2>2, TxSend, TxDone, TxFetch
          DEF Next, vars, HwReceive, ethernetif_input
<1> QED BY <1>1, <1>2, PTL DEF Spec

\* Whatever the program and the controller do, laps included, frames leave the
\* controller in the order of sending and none of them twice.
THEOREM WireIsOrdered == Spec => []WireInOrder
<1>1. TxInv => WireInOrder
  BY DEF TxInv
<1> QED BY <1>1, TxInvariant, PTL

\* The slots the controller will read next hold the frames sent last.
THEOREM TxRingIsFresh == Spec => []TxRingFresh
<1>1. TxInv => TxRingFresh
  <2> SUFFICES ASSUME TxInv, NEW k \in 1..TxUsed
               PROVE  /\ txRing[Behind(txProduce, k, NumTx)] = sent + 1 - k
                      /\ \A i \in 1..Len(wire) : wire[i] < sent + 1 - k
    BY DEF TxRingFresh
  <2>1. TxUsed \in 0..(NumTx - 1) /\ sent \in Nat
    BY UsedRange, RingAssumption DEF TxInv, TypeOK, TxUsed
  <2>2. k \in 1..NumTx /\ k <= sent
    BY <2>1, RingAssumption DEF TxInv
  <2>3. \A i \in 1..Len(wire) : wire[i] \in Int
    BY TxTypes DEF TxInv
  <2> QED BY <2>1, <2>2, <2>3 DEF TxInv
<1> QED BY <1>1, TxInvariant, PTL
=============================================================================
