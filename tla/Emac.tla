-------------------------------- MODULE Emac --------------------------------
(***************************************************************************)
(* The descriptor rings of the Ethernet controller, as lpc_emac.c and      *)
(* ethernetif.c use them: the receive ring, filled by the controller's DMA *)
(* and polled by the main loop, and the transmit ring, filled by the main  *)
(* loop and emptied by the DMA.  The DMA is hardware and runs at any point *)
(* between two steps of the program, interrupts disabled or not.           *)
(*                                                                         *)
(* A frame is its number: the n-th frame to arrive, the n-th frame the     *)
(* stack handed to low_level_output.  Descriptor, status word and buffer   *)
(* of a slot are one value.                                                *)
(***************************************************************************)
EXTENDS Naturals, Sequences

CONSTANTS
  NumRx,                     \* EMAC_NUM_RX_FRAG
  NumTx,                     \* EMAC_NUM_TX_FRAG
  MaxFrames                  \* bound on the frames that arrive and are sent

ASSUME RingAssumption == /\ NumRx \in Nat /\ NumRx > 1
                         /\ NumTx \in Nat /\ NumTx > 1
                         /\ MaxFrames \in Nat

VARIABLES
  rxRing,                    \* RX slots: frame number (0: never written), error bits
  rxProduce,                 \* RxProduceIndex, written by the DMA
  rxConsume,                 \* RxConsumeIndex, written by the program
  arrived,                   \* frames seen on the wire so far
  input,                     \* frames passed to netif->input, in order
  txRing,                    \* TX slots: frame number
  txProduce,                 \* TxProduceIndex, written by the program
  txConsume,                 \* TxConsumeIndex, written by the DMA
  txDma,                     \* what the DMA does with slot txConsume
  sent,                      \* frames handed to low_level_output so far
  wire                       \* frames that left the controller, in order

rxVars == <<rxRing, rxProduce, rxConsume, arrived, input>>
txVars == <<txRing, txProduce, txConsume, txDma, sent, wire>>
vars == <<rxVars, txVars>>

-----------------------------------------------------------------------------
(* Ring arithmetic: the code compares and resets, it never divides.        *)

\* Variant: the index is compared before it is incremented.
AdvanceLate(idx, n) == IF idx = n THEN 0 ELSE idx + 1

\* EMAC_UpdateRxConsumeIndex and EMAC_UpdateTxProduceIndex
Advance(idx, n) == IF idx + 1 = n THEN 0 ELSE idx + 1

\* Variant: the ring counts as empty when the produce index is next to reach consume.
StsFullIsEmpty(consume, produce, n) ==
  IF consume = produce \/ consume = Advance(produce, n) THEN "empty" ELSE "partial"

\* EMAC_GetBufferSts
EMAC_GetBufferSts(consume, produce, n) ==
  IF consume = produce THEN "empty"
  ELSE IF (consume = 0 /\ produce = n - 1) \/ consume = produce + 1 THEN "full"
  ELSE "partial"

\* Number of slots from the consume to the produce index.
Used(consume, produce, n) ==
  IF produce >= consume THEN produce - consume ELSE produce + n - consume

\* The slot i places after the consume index, and k places before produce.
Ahead(consume, i, n) == IF consume + i < n THEN consume + i ELSE consume + i - n
Behind(produce, k, n) == IF produce >= k THEN produce - k ELSE produce + n - k

-----------------------------------------------------------------------------
RxSlot == [frame : 0..MaxFrames, bad : BOOLEAN]

\* A frame of the wire whose buffer was rewritten while the DMA read it.
Torn == 0

\* EMAC_Init: rx_descr_init, tx_descr_init and the reset of the controller.
Init ==
  /\ rxRing = [i \in 0..(NumRx - 1) |-> [frame |-> 0, bad |-> FALSE]]
  /\ rxProduce = 0 /\ rxConsume = 0
  /\ arrived = 0 /\ input = <<>>
  /\ txRing = [i \in 0..(NumTx - 1) |-> 0]
  /\ txProduce = 0 /\ txConsume = 0
  /\ txDma = "idle"
  /\ sent = 0 /\ wire = <<>>

-----------------------------------------------------------------------------
(* Receiving.                                                              *)

\* The controller stores a frame and its status, or has no descriptor left.
HwReceive ==
  /\ arrived < MaxFrames
  /\ arrived' = arrived + 1
  /\ \/ /\ Advance(rxProduce, NumRx) = rxConsume
        /\ UNCHANGED <<rxRing, rxProduce>>
     \/ /\ Advance(rxProduce, NumRx) # rxConsume
        /\ \E bad \in BOOLEAN :
             rxRing' = [rxRing EXCEPT
                          ![rxProduce] = [frame |-> arrived + 1, bad |-> bad]]
        /\ rxProduce' = Advance(rxProduce, NumRx)
  /\ UNCHANGED <<rxConsume, input, txVars>>

\* EMAC_ReceivePBuf takes the frame out of the ring: a frame with an error
\* bit of EMAC_RINFO_ERR_MASK is not released, and the next poll finds it again.
EMAC_ReceivePBuf ==
  /\ EMAC_GetBufferSts(rxConsume, rxProduce, NumRx) # "empty"
  /\ ~rxRing[rxConsume].bad
  /\ rxConsume' = Advance(rxConsume, NumRx)

\* Variant: the slot is released before it is copied.
InputAfterRelease ==
  /\ EMAC_ReceivePBuf
  /\ input' \in {input, Append(input, rxRing[Advance(rxConsume, NumRx)].frame)}
  /\ UNCHANGED <<rxRing, rxProduce, arrived, txVars>>

\* poll_network -> ethernetif_input.  The frame is dropped when pbuf_alloc
\* fails, when it is neither IP nor ARP and when the stack refuses it.
ethernetif_input ==
  /\ EMAC_ReceivePBuf
  /\ input' \in {input, Append(input, rxRing[rxConsume].frame)}
  /\ UNCHANGED <<rxRing, rxProduce, arrived, txVars>>

-----------------------------------------------------------------------------
(* Sending.                                                                *)

\* Variant: EMAC_UpdateTxProduceIndex is called as well, the index moves twice.
SendAdvancesTwice ==
  /\ sent < MaxFrames
  /\ sent' = sent + 1
  /\ txRing' = [txRing EXCEPT ![txProduce] = sent + 1]
  /\ txDma' = IF txDma = "frame" /\ txProduce = txConsume THEN "torn" ELSE txDma
  /\ txProduce' = Advance(Advance(txProduce, NumTx), NumTx)
  /\ UNCHANGED <<txConsume, wire, rxVars>>

\* Variant: the index is advanced first and the frame copied to the slot it names.
SendToNextSlot ==
  /\ sent < MaxFrames
  /\ sent' = sent + 1
  /\ txProduce' = Advance(txProduce, NumTx)
  /\ txRing' = [txRing EXCEPT ![txProduce'] = sent + 1]
  /\ txDma' = IF txDma = "frame" /\ txProduce' = txConsume THEN "torn" ELSE txDma
  /\ UNCHANGED <<txConsume, wire, rxVars>>

\* low_level_output -> EMAC_SendPBuf: slot TxProduceIndex is written, whatever
\* is in it, and the index advanced; nothing asks whether the ring is full.
low_level_output ==
  /\ sent < MaxFrames
  /\ sent' = sent + 1
  /\ txRing' = [txRing EXCEPT ![txProduce] = sent + 1]
  /\ txDma' = IF txDma = "frame" /\ txProduce = txConsume THEN "torn" ELSE txDma
  /\ txProduce' = Advance(txProduce, NumTx)
  /\ UNCHANGED <<txConsume, wire, rxVars>>

\* The controller starts on the next descriptor while the indices differ.
HwFetch ==
  /\ txDma = "idle"
  /\ txConsume # txProduce
  /\ txDma' = "frame"
  /\ UNCHANGED <<txRing, txProduce, txConsume, sent, wire, rxVars>>

\* The frame has left the controller.
HwSent ==
  /\ txDma # "idle"
  /\ wire' = Append(wire, IF txDma = "frame" THEN txRing[txConsume] ELSE Torn)
  /\ txConsume' = Advance(txConsume, NumTx)
  /\ txDma' = "idle"
  /\ UNCHANGED <<txRing, txProduce, sent, rxVars>>

-----------------------------------------------------------------------------
Next == HwReceive \/ ethernetif_input \/ low_level_output \/ HwFetch \/ HwSent

Spec == Init /\ [][Next]_vars

\* The main loop polls for ever; the controller works on while it has frames.
FairSpec == Spec /\ WF_vars(ethernetif_input) /\ WF_vars(HwFetch) /\ WF_vars(HwSent)

-----------------------------------------------------------------------------
(* Properties.                                                             *)

\* Types: the indices stay inside their rings, the counters inside the bound.
TypeOK ==
  /\ rxRing \in [0..(NumRx - 1) -> RxSlot]
  /\ rxProduce \in 0..(NumRx - 1) /\ rxConsume \in 0..(NumRx - 1)
  /\ arrived \in 0..MaxFrames
  /\ input \in Seq(0..MaxFrames)
  /\ txRing \in [0..(NumTx - 1) -> 0..MaxFrames]
  /\ txProduce \in 0..(NumTx - 1) /\ txConsume \in 0..(NumTx - 1)
  /\ txDma \in {"idle", "frame", "torn"}
  /\ sent \in 0..MaxFrames
  /\ wire \in Seq(0..MaxFrames)

\* What waits in the receive ring, oldest frame first.
RxUsed == Used(rxConsume, rxProduce, NumRx)
RxQueue == [i \in 1..RxUsed |-> rxRing[Ahead(rxConsume, i - 1, NumRx)]]

Receiver == INSTANCE FrameQueue WITH
              Capacity <- NumRx - 1, queue <- RxQueue, arrived <- arrived, input <- input

\* The receive ring is a first-in first-out queue: two indices moved by two
\* parties that never lock, and yet no frame is overwritten before it is read,
\* read twice, read out of order or read although it is damaged.
ReceiverIsQueue == Receiver!Spec

\* While no damaged frame arrives, the polling of the main loop empties the
\* receive ring: no frame stays, although the interrupt tells the loop nothing.
Waiting(f) == \E i \in 1..RxUsed : RxQueue[i].frame = f
CleanFramesRead ==
  [](\A i \in 0..(NumRx - 1) : ~rxRing[i].bad)
    => \A f \in 1..MaxFrames : Waiting(f) ~> ~Waiting(f)

\* Every intact frame that is in the ring leaves it: "move received packet into
\* a new pbuf" (ethernetif.c), "Release frame from EMAC buffer" (lpc_emac.c).
FramesRead ==
  \A f \in 1..MaxFrames :
    (\E i \in 1..RxUsed : RxQueue[i].frame = f /\ ~RxQueue[i].bad) ~> ~Waiting(f)

TxUsed == Used(txConsume, txProduce, NumTx)

\* The frames on the wire are in the order the stack sent them, none of them
\* twice: even when EMAC_SendPBuf laps the controller, what is lost is the older
\* frames, and no stale buffer is sent again.
WireInOrder ==
  \A i, j \in 1..Len(wire) :
    i < j /\ wire[i] # Torn /\ wire[j] # Torn => wire[i] < wire[j]

\* What is left in the transmit ring is newer than everything on the wire, and
\* it is exactly the frames sent last: the slots the DMA will read next hold no
\* frame of an earlier lap.
TxRingFresh ==
  \A k \in 1..TxUsed :
    /\ txRing[Behind(txProduce, k, NumTx)] = sent + 1 - k
    /\ \A i \in 1..Len(wire) : wire[i] < sent + 1 - k
=============================================================================
