----------------------------- MODULE FrameQueue -----------------------------
(***************************************************************************)
(* What the receive path of the Ethernet driver promises to the stack: a   *)
(* bounded first-in first-out queue of frames.  A frame that arrives when  *)
(* the queue is full is lost, a frame may be discarded instead of being    *)
(* delivered, and no frame is invented, duplicated, reordered or delivered *)
(* although it arrived damaged.                                            *)
(***************************************************************************)
EXTENDS Naturals, Sequences

CONSTANT Capacity            \* frames the queue can hold

VARIABLES
  queue,                     \* frames received and not read yet
  arrived,                   \* number of frames seen on the wire
  input                      \* numbers of the frames passed to the stack

vars == <<queue, arrived, input>>

Init ==
  /\ queue = <<>>
  /\ arrived = 0
  /\ input = <<>>

Arrive ==
  /\ arrived' = arrived + 1
  /\ UNCHANGED input
  /\ \/ UNCHANGED queue
     \/ /\ Len(queue) < Capacity
        /\ \E bad \in BOOLEAN :
             queue' = Append(queue, [frame |-> arrived + 1, bad |-> bad])

Deliver ==
  /\ queue # <<>>
  /\ ~Head(queue).bad
  /\ input' = Append(input, Head(queue).frame)
  /\ queue' = Tail(queue)
  /\ UNCHANGED arrived

Discard ==
  /\ queue # <<>>
  /\ queue' = Tail(queue)
  /\ UNCHANGED <<arrived, input>>

Next == Arrive \/ Deliver \/ Discard

Spec == Init /\ [][Next]_vars
=============================================================================
