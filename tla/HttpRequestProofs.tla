------------------------- MODULE HttpRequestProofs -------------------------
(* The request and response state machine of HttpCore: what a context is   *)
(* like at every point of HttpRequestProc and between two callbacks.       *)
(*                                                                         *)
(* Fit says what the code may rely on at each label of the running         *)
(* callback, Settled what it leaves behind when it returns.  Control puts  *)
(* them together for all contexts, Cleaned follows the contexts nobody     *)
(* uses; both are inductive on top of the types and queues of Inv.         *)
(* Nothing in them is limited to the time before the first restart.        *)
(* Ordered, the order of the input, is, for the sake of Ownership.         *)
EXTENDS HttpCoreProofs, FiniteSetTheorems

USE DEF IDLE, HEADER_RECEIVING, HEADER_DONE, BODY_RECEIVING, BODY_DONE, SENDING_HEADER,
        SENDING_BODY, REQUEST_END, STAGE_END, NoTime

(* Without a request line there is no handler; a finished response has one *)
(* that reads content.                                                     *)
Handled(x) ==
    /\ x.request = "none" => x.handler = "none" /\ x.stage = 0
    /\ x.stage = STAGE_END => x.handler \in HasReadContent

(* The context waits for a request, or for more of one.                    *)
Receives(x) ==
    /\ x.state \in {IDLE, HEADER_RECEIVING, BODY_RECEIVING} /\ x.result = 0
    /\ x.state = BODY_RECEIVING => x.request # "none" /\ ~x.sending /\ x.bytesLeft = 0
(* The context sends a response.                                           *)
Sends(x) ==
    /\ x.state \in {SENDING_HEADER, SENDING_BODY} /\ x.result # 0
    /\ x.sending /\ x.sendAge # NoTime
Examined(x) == x.state = HEADER_RECEIVING => x.queue = << >> /\ ~HasLine(x.rx)
Settled(x)  == (Receives(x) /\ Examined(x)) \/ Sends(x)
(* A peer that closed its side may only be waiting for its answer.         *)
Awaited(x)  == x.state < BODY_DONE => ~x.peerClosing
(* A request is complete or its header is, and no response was started.    *)
Fresh(x)    == x.result = 0 /\ x.request # "none" /\ ~x.sending /\ x.bytesLeft = 0

(* What holds of the context at a label; connected is _pcb # NULL.         *)
Fit(label, x, connected) ==
    /\ label = "loop" => Receives(x) \/ Sends(x)
    /\ label = "unlink" => Receives(x) /\ (x.rx = << >> => x.offset = Len(x.queue))
    /\ label = "lines" => Receives(x) /\ x.state = HEADER_RECEIVING
    /\ label = "headers" => x.state = HEADER_DONE /\ Fresh(x)
    /\ label = "body" => x.state = BODY_RECEIVING /\ Receives(x)
    /\ label = "done" => x.state = BODY_DONE /\ Fresh(x)
    /\ label = "response" =>
         /\ x.state \in {BODY_DONE, SENDING_HEADER, SENDING_BODY} /\ x.result # 0
         /\ x.sending => x.state # BODY_DONE /\ x.sendAge # NoTime
         /\ ~x.sending => x.bytesLeft = 0
    /\ label = "content" =>
         /\ x.state \in {SENDING_HEADER, SENDING_BODY, REQUEST_END} /\ x.result # 0
         /\ x.sending /\ x.sendAge # NoTime
    /\ label = "end" => x.result = -500 \/ Settled(x) \/ x.state = REQUEST_END
    /\ label \in {"cancel", "close"} =>
         x.result = -500 \/ (Settled(x) /\ (connected => Awaited(x)))

(* The part of the invariant about one context.                            *)
Ready(x, connected) == Settled(x) /\ x.result # -500 /\ (connected => Awaited(x))
Timed(x, connected) == Handled(x) /\ (connected => x.recvAge # NoTime)
Control ==
    \A c \in Ctx :
        /\ Timed(ctx[c], pcb[c] # NoPcb)
        /\ frame # NoFrame /\ frame.c = c => Fit(frame.pc, ctx[c], pcb[c] # NoPcb)
        /\ frame = NoFrame \/ frame.c # c => Ready(ctx[c], pcb[c] # NoPcb)

-----------------------------------------------------------------------------
(* What the invariant says about the context of the running callback.      *)
LEMMA RunningFacts ==
    ASSUME Typed, Control, frame # NoFrame
    PROVE  /\ frame \in Frame /\ frame.c \in Ctx /\ ctx \in [Ctx -> Context]
           /\ Good(ctx[frame.c]) /\ ctx[frame.c] \in Context
           /\ Timed(ctx[frame.c], pcb[frame.c] # NoPcb)
           /\ Fit(frame.pc, ctx[frame.c], pcb[frame.c] # NoPcb)
<1>1. frame \in Frame /\ frame.c \in Ctx /\ Good(ctx[frame.c]) BY FrameFacts
<1>2. ctx \in [Ctx -> Context] BY DEF Typed, TypeOK
<1> QED BY <1>1, <1>2 DEF Control

(* A goto stays in the callback.                                           *)
LEMMA GotoFacts ==
    ASSUME frame \in Frame, NEW label \in Labels, Goto(label)
    PROVE  frame' # NoFrame /\ frame'.c = frame.c /\ frame'.pc = label
<1>1. frame' \in Frame BY DEF Goto, Frame
<1>2. frame'.c = frame.c /\ frame'.pc = label BY DEF Goto, Frame
<1> QED BY <1>1, <1>2, FrameAssumption

(* A step of the callback changes its own context only.                    *)
LEMMA Moves ==
    ASSUME Typed, Control, frame # NoFrame, pcb' = pcb, NEW y,
           ctx' = [ctx EXCEPT ![frame.c] = y], frame' # NoFrame, frame'.c = frame.c,
           Timed(y, pcb[frame.c] # NoPcb), Fit(frame'.pc, y, pcb[frame.c] # NoPcb)
    PROVE  Control'
<1>0. frame.c \in Ctx /\ ctx \in [Ctx -> Context] BY RunningFacts
<1>1. ASSUME NEW c \in Ctx
      PROVE  /\ Timed(ctx'[c], pcb'[c] # NoPcb)
             /\ frame'.c = c => Fit(frame'.pc, ctx'[c], pcb'[c] # NoPcb)
             /\ frame'.c # c => Ready(ctx'[c], pcb'[c] # NoPcb)
  <2>1. CASE c = frame.c
    <3>1. ctx'[c] = y BY <2>1, <1>0
    <3> QED BY <2>1, <3>1
  <2>2. CASE c # frame.c
    <3>1. ctx'[c] = ctx[c] BY <2>2, <1>0
    <3> QED BY <2>2, <3>1 DEF Control
  <2> QED BY <2>1, <2>2
<1> QED BY <1>1 DEF Control

(* A step of the callback that changes no context.                         *)
LEMMA Stays ==
    ASSUME Typed, Control, frame # NoFrame, pcb' = pcb, ctx' = ctx,
           frame' # NoFrame, frame'.c = frame.c,
           Fit(frame'.pc, ctx[frame.c], pcb[frame.c] # NoPcb)
    PROVE  Control'
<1>1. ctx' = [ctx EXCEPT ![frame.c] = ctx[frame.c]] BY RunningFacts
<1>2. Timed(ctx[frame.c], pcb[frame.c] # NoPcb) BY RunningFacts
<1> QED BY <1>1, <1>2, Moves

-----------------------------------------------------------------------------
(* The receiving half of HttpRequestProc.                                  *)

(* Dequeue leaves an empty buffer only if the queue has nothing left.      *)
LEMMA DequeueRest ==
    ASSUME NEW x, Good(x)
    PROVE  Dequeue(x).rx = << >> => Dequeue(x).offset = Len(Dequeue(x).queue)
<1> DEFINE n == IF x.queue = << >> THEN 0 ELSE Least(MaxReqBuf - Len(x.rx), Len(x.queue) - x.offset)
           s == SubSeq(x.queue, x.offset + 1, x.offset + n)
<1>0. x \in Context BY DEF Good
<1>1. /\ x.rx \in Seq(Tokens) /\ x.queue \in Seq(Tokens) /\ x.offset \in Nat
      /\ x.offset <= Len(x.queue) /\ Len(x.rx) <= MaxReqBuf
  BY GoodFacts DEF QueueOK
<1>2. Dequeue(x).rx = x.rx \o s /\ Dequeue(x).offset = x.offset + n /\ Dequeue(x).queue = x.queue
  BY <1>0 DEF Dequeue, Context
<1>3. SUFFICES ASSUME x.rx \o s = << >> PROVE x.offset + n = Len(x.queue)
  BY <1>2
<1>4. CASE x.queue = << >> BY <1>1, <1>4
<1>5. CASE x.queue # << >>
  <2>1. /\ n \in Nat /\ n <= Len(x.queue) - x.offset
        /\ n = MaxReqBuf - Len(x.rx) \/ n = Len(x.queue) - x.offset
    BY <1>1, <1>5, SizesAssumption DEF Least
  <2> HIDE DEF n
  <2>2. s \in Seq(Tokens) /\ Len(s) = n BY <1>1, <2>1
  <2> HIDE DEF s
  <2>3. ASSUME NEW t \in Seq(Tokens), NEW u \in Seq(Tokens)
        PROVE  Len(t \o u) = Len(t) + Len(u) /\ Len(t) \in Nat
    OBVIOUS
  <2>4. Len(x.rx \o s) = Len(x.rx) + n BY <1>1, <2>2, <2>3
  <2>5. Len(x.rx \o s) = 0 BY <1>3
  <2>6. Len(x.rx) \in Nat BY <1>1, <2>3
  <2> QED BY <2>1, <2>4, <2>5, <2>6, <1>1, SizesAssumption
<1> QED BY <1>4, <1>5

(* The head of the loop: what can be copied is copied, so an empty buffer  *)
(* means an exhausted queue.                                               *)
LEMMA LoopHeadControl ==
    ASSUME Typed, Control, LoopHead
    PROVE  Control'
<1> DEFINE x == ctx[frame.c]
           y == Dequeue(x)
<1>0. /\ frame \in Frame /\ frame.pc = "loop" /\ frame # NoFrame /\ x \in Context /\ Good(x)
      /\ Timed(x, pcb[frame.c] # NoPcb)
      /\ Receives(x) \/ Sends(x)
  BY RunningFacts DEF LoopHead, At, Fit
<1>1. pcb' = pcb BY DEF LoopHead, Pool
<1>2. CASE x.state < BODY_DONE
  <2>1. ctx' = [ctx EXCEPT ![frame.c] = y] /\ Goto("unlink") BY <1>2 DEF LoopHead
  <2>2. frame' # NoFrame /\ frame'.c = frame.c /\ frame'.pc = "unlink"
    BY <1>0, <2>1, GotoFacts, LabelFacts
  <2>3. Receives(x) BY <1>0, <1>2 DEF Sends
  <2>4. /\ y.state = x.state /\ y.result = x.result /\ y.request = x.request
        /\ y.sending = x.sending /\ y.bytesLeft = x.bytesLeft /\ y.recvAge = x.recvAge
        /\ y.handler = x.handler /\ y.stage = x.stage /\ y.queue = x.queue
    BY <1>0 DEF Dequeue, Context
  <2>5. y.rx = << >> => y.offset = Len(y.queue) BY <1>0, DequeueRest
  <2> HIDE DEF y
  <2>6. Fit("unlink", y, pcb[frame.c] # NoPcb) BY <2>3, <2>4, <2>5 DEF Fit, Receives
  <2>7. Timed(y, pcb[frame.c] # NoPcb) BY <1>0, <2>4 DEF Timed, Handled
  <2> QED BY <1>0, <1>1, <2>1, <2>2, <2>6, <2>7, Moves
<1>3. CASE ~ (x.state < BODY_DONE)
  <2>1. ctx' = ctx /\ Goto("response") BY <1>3 DEF LoopHead
  <2>2. frame' # NoFrame /\ frame'.c = frame.c /\ frame'.pc = "response"
    BY <1>0, <2>1, GotoFacts, LabelFacts
  <2>3. Sends(x) BY <1>0, <1>3 DEF Receives
  <2>4. Fit("response", x, pcb[frame.c] # NoPcb) BY <2>3 DEF Fit, Sends
  <2> QED BY <1>0, <1>1, <2>1, <2>2, <2>4, Stays
<1> QED BY <1>2, <1>3

(* A copied pbuf leaves the queue: what was exhausted stays exhausted.     *)
LEMMA UnlinkPbufControl ==
    ASSUME Typed, Control, UnlinkPbuf
    PROVE  Control'
<1> DEFINE x == ctx[frame.c]
           k == Head(x.ends)
           y == [x EXCEPT !.queue = DropFirst(@, k),
                          !.ends = [i \in 1 .. Len(@) - 1 |-> @[i + 1] - k],
                          !.offset = @ - k]
<1>0. /\ frame \in Frame /\ frame.c \in Ctx /\ frame.pc = "unlink" /\ frame # NoFrame
      /\ x \in Context /\ Good(x) /\ ctx \in [Ctx -> Context]
      /\ Timed(x, pcb[frame.c] # NoPcb) /\ Receives(x)
      /\ x.rx = << >> => x.offset = Len(x.queue)
  BY RunningFacts DEF UnlinkPbuf, At, Fit
<1>1. pcb' = pcb /\ frame' = frame /\ PbufCopied(x) BY DEF UnlinkPbuf, Pool
<1>2. ctx' = [ctx EXCEPT ![frame.c] = y] BY <1>0 DEF UnlinkPbuf
<1>3. k \in Nat /\ Len(y.queue) = Len(x.queue) - k BY <1>0, <1>1, UnlinkGood
<1>4. y.offset = x.offset - k BY <1>0 DEF Context
<1>5. /\ y.state = x.state /\ y.result = x.result /\ y.request = x.request
      /\ y.sending = x.sending /\ y.bytesLeft = x.bytesLeft /\ y.recvAge = x.recvAge
      /\ y.handler = x.handler /\ y.stage = x.stage /\ y.rx = x.rx
  BY <1>0 DEF Context
<1> HIDE DEF y, k
<1>6. Fit("unlink", y, pcb[frame.c] # NoPcb) BY <1>0, <1>3, <1>4, <1>5 DEF Fit, Receives
<1>7. Timed(y, pcb[frame.c] # NoPcb) BY <1>0, <1>5 DEF Timed, Handled
<1> QED BY <1>0, <1>1, <1>2, <1>6, <1>7, Moves

(* The loop ends on an empty buffer, and then the queue is empty too.      *)
LEMMA StartRequestControl ==
    ASSUME Typed, Control, StartRequest
    PROVE  Control'
<1> DEFINE x == ctx[frame.c]
           l == IF x.rx = << >> THEN "end"
                ELSE IF x.state \in {IDLE, HEADER_RECEIVING} THEN "lines" ELSE "body"
<1>0. /\ frame \in Frame /\ frame.c \in Ctx /\ frame.pc = "unlink" /\ frame # NoFrame
      /\ x \in Context /\ Good(x) /\ ctx \in [Ctx -> Context]
      /\ Timed(x, pcb[frame.c] # NoPcb) /\ Receives(x)
      /\ x.rx = << >> => x.offset = Len(x.queue)
  BY RunningFacts DEF StartRequest, At, Fit
<1>1. pcb' = pcb /\ ~PbufCopied(x) BY DEF StartRequest, Pool
<1>2. frame' # NoFrame /\ frame'.c = frame.c /\ frame'.pc = l
  <2>1. frame' = [frame EXCEPT !.parsed = FALSE, !.pc = l] BY DEF StartRequest
  <2>2. l \in Labels BY LabelFacts
  <2> HIDE DEF l
  <2>3. frame' \in Frame /\ frame'.c = frame.c /\ frame'.pc = l BY <1>0, <2>1, <2>2 DEF Frame
  <2> QED BY <2>3, FrameAssumption
<1>3. CASE x.state = IDLE /\ x.rx # << >>
  <2> DEFINE y == [x EXCEPT !.state = HEADER_RECEIVING, !.recvAge = 0, !.sendAge = NoTime]
  <2>1. ctx' = [ctx EXCEPT ![frame.c] = y]
    <3>1. ctx' = [ctx EXCEPT ![frame.c].state = HEADER_RECEIVING,
                             ![frame.c].recvAge = 0, ![frame.c].sendAge = NoTime]
      BY <1>3 DEF StartRequest
    <3> QED BY <3>1, <1>0
  <2>2. l = "lines" BY <1>3
  <2>3. /\ y.state = HEADER_RECEIVING /\ y.result = x.result /\ y.request = x.request
        /\ y.recvAge = 0 /\ y.handler = x.handler /\ y.stage = x.stage
    BY <1>0 DEF Context
  <2> HIDE DEF y, l
  <2>4. Fit("lines", y, pcb[frame.c] # NoPcb) BY <1>0, <2>3 DEF Fit, Receives
  <2>5. Timed(y, pcb[frame.c] # NoPcb) BY <1>0, <2>3 DEF Timed, Handled
  <2> QED BY <1>0, <1>1, <1>2, <2>1, <2>2, <2>4, <2>5, Moves
<1>4. CASE ~ (x.state = IDLE /\ x.rx # << >>)
  <2>1. ctx' = ctx BY <1>4 DEF StartRequest
  <2>2. CASE x.rx = << >>
    <3>1. l = "end" BY <2>2
    <3>2. x.queue = << >>
      <4>1. SUFFICES ASSUME x.queue # << >> PROVE FALSE OBVIOUS
      <4>2. x.ends \in Seq(Nat) /\ x.queue \in Seq(Tokens) /\ QueueOK(x.queue, x.ends, x.offset)
        BY <1>0, GoodFacts
      <4>3. Len(x.queue) \in Nat /\ Len(x.queue) > 0 BY <4>1, <4>2
      <4>4. Len(x.ends) > 0 BY <4>2, <4>3 DEF QueueOK, EndsOK
      <4>5. x.ends[1] <= x.ends[Len(x.ends)]
        <5>1. CASE Len(x.ends) = 1 BY <5>1, <4>2
        <5>2. CASE Len(x.ends) > 1
          <6>1. 1 \in 1 .. Len(x.ends) /\ Len(x.ends) \in 1 .. Len(x.ends) /\ 1 < Len(x.ends)
            BY <5>2, <4>2
          <6>2. x.ends[1] \in Nat /\ x.ends[Len(x.ends)] \in Nat BY <6>1, <4>2
          <6>3. x.ends[1] < x.ends[Len(x.ends)] BY <6>1, <4>2 DEF QueueOK, EndsOK
          <6> QED BY <6>2, <6>3
        <5> QED BY <5>1, <5>2, <4>2, <4>4
      <4>6. x.ends[Len(x.ends)] = Len(x.queue) BY <4>2, <4>4 DEF QueueOK, EndsOK
      <4>7. Head(x.ends) <= x.offset BY <1>0, <2>2, <4>2, <4>5, <4>6
      <4> QED BY <1>1, <4>1, <4>7 DEF PbufCopied
    <3>3. ~HasLine(x.rx) BY <2>2 DEF HasLine
    <3>4. Fit("end", x, pcb[frame.c] # NoPcb) BY <1>0, <3>2, <3>3 DEF Fit, Settled, Examined
    <3> HIDE DEF l
    <3> QED BY <1>0, <1>1, <1>2, <2>1, <3>1, <3>4, Stays
  <2>3. CASE x.rx # << >>
    <3>1. \/ x.state = HEADER_RECEIVING /\ l = "lines"
          \/ x.state = BODY_RECEIVING /\ l = "body"
      BY <1>0, <1>4, <2>3 DEF Receives
    <3> HIDE DEF l
    <3>2. Fit(l, x, pcb[frame.c] # NoPcb) BY <1>0, <3>1 DEF Fit
    <3> QED BY <1>0, <1>1, <1>2, <2>1, <3>2, Stays
  <2> QED BY <2>2, <2>3
<1> QED BY <1>3, <1>4

(* A parsed line fixes method and handler, or refines a known request.     *)
LEMMA ParseLineControl ==
    ASSUME Typed, Control, ParseLine
    PROVE  Control'
<1> DEFINE x == ctx[frame.c]
           i == FirstEol(x.rx)
           t == x.rx[1]
           h == HeaderLine(x, t)
           y == [h EXCEPT !.rx = DropFirst(@, i)]
<1>0. /\ frame \in Frame /\ frame.pc = "lines" /\ frame # NoFrame
      /\ x \in Context /\ ctx \in [Ctx -> Context] /\ frame.c \in Ctx
      /\ Timed(x, pcb[frame.c] # NoPcb) /\ Receives(x) /\ x.state = HEADER_RECEIVING
  BY RunningFacts DEF ParseLine, At, Fit
<1>1. pcb' = pcb BY DEF ParseLine, Pool
<1>2. CASE x.request = "none" /\ t \notin DOMAIN Requests
  <2>1. ctx' = [ctx EXCEPT ![frame.c] = [x EXCEPT !.result = -500]] /\ Goto("end")
    BY <1>0, <1>2 DEF ParseLine
  <2>2. frame' # NoFrame /\ frame'.c = frame.c /\ frame'.pc = "end"
    BY <1>0, <2>1, GotoFacts, LabelFacts
  <2> DEFINE z == [x EXCEPT !.result = -500]
  <2>3. /\ z.result = -500 /\ z.request = x.request /\ z.handler = x.handler
        /\ z.stage = x.stage /\ z.recvAge = x.recvAge
    BY <1>0 DEF Context
  <2>4. ctx' = [ctx EXCEPT ![frame.c] = z] BY <2>1
  <2> HIDE DEF z
  <2>5. Fit("end", z, pcb[frame.c] # NoPcb) BY <2>3 DEF Fit
  <2>6. Timed(z, pcb[frame.c] # NoPcb) BY <1>0, <2>3 DEF Timed, Handled
  <2> QED BY <1>0, <1>1, <2>2, <2>4, <2>5, <2>6, Moves
<1>3. CASE ~ (x.request = "none" /\ t \notin DOMAIN Requests)
  <2>1. ctx' = [ctx EXCEPT ![frame.c] = y] /\ frame' = [frame EXCEPT !.parsed = TRUE]
    BY <1>3 DEF ParseLine
  <2>2. frame' # NoFrame /\ frame'.c = frame.c /\ frame'.pc = "lines"
    <3>1. frame' \in Frame /\ frame'.c = frame.c /\ frame'.pc = "lines" BY <1>0, <2>1 DEF Frame
    <3> QED BY <3>1, FrameAssumption
  <2>3. /\ h.state = x.state /\ h.result = x.result /\ h.recvAge = x.recvAge /\ h.stage = x.stage
        /\ DOMAIN h = DOMAIN x /\ h = [f \in DOMAIN h |-> h[f]]
        /\ x.request = "none" => h.request = t
        /\ x.request # "none" => h.request = x.request /\ h.handler = x.handler
    <3>1. CASE x.request = "none" BY <1>0, <3>1 DEF HeaderLine, Context
    <3>2. CASE x.request # "none" /\ t = "length" BY <1>0, <3>2 DEF HeaderLine, Context
    <3>3. CASE x.request # "none" /\ t = "keepalive" BY <1>0, <3>3 DEF HeaderLine, Context
    <3>4. CASE x.request # "none" /\ t = "close" BY <1>0, <3>4 DEF HeaderLine, Context
    <3>5. CASE x.request # "none" /\ t \notin {"length", "keepalive", "close"}
      BY <1>0, <3>5 DEF HeaderLine, Context
    <3> QED BY <3>1, <3>2, <3>3, <3>4, <3>5
  <2>4. x.request = "none" => t # "none" BY <1>3 DEF Requests
  <2>5. /\ y.state = h.state /\ y.result = h.result /\ y.recvAge = h.recvAge /\ y.stage = h.stage
        /\ y.request = h.request /\ y.handler = h.handler
    <3>1. y = [h EXCEPT !["rx"] = DropFirst(h.rx, i)] OBVIOUS
    <3>2. \A f \in DOMAIN h : f # "rx" => y[f] = h[f] BY <3>1, <2>3
    <3>3. {"state", "result", "recvAge", "stage", "request", "handler"} \subseteq DOMAIN h
      BY <1>0, <2>3 DEF Context
    <3> HIDE DEF y, h
    <3> QED BY <3>2, <3>3
  <2> HIDE DEF y, h, t
  <2>6. Fit("lines", y, pcb[frame.c] # NoPcb) BY <1>0, <2>3, <2>5 DEF Fit, Receives
  <2>7. Timed(y, pcb[frame.c] # NoPcb)
    <3>1. CASE x.request = "none" BY <3>1, <1>0, <2>3, <2>4, <2>5 DEF Timed, Handled
    <3>2. CASE x.request # "none" BY <3>2, <1>0, <2>3, <2>5 DEF Timed, Handled
    <3> QED BY <3>1, <3>2
  <2> QED BY <1>0, <1>1, <2>1, <2>2, <2>6, <2>7, Moves
<1> QED BY <1>2, <1>3

(* The empty line clears what the previous response left.                  *)
LEMMA ParseEmptyLineControl ==
    ASSUME Typed, Control, ParseEmptyLine
    PROVE  Control'
<1> DEFINE x == ctx[frame.c]
           r == IF x.request = "none" THEN -500 ELSE x.result
           y == [x EXCEPT !.state = HEADER_DONE, !.rx = DropFirst(@, 1),
                          !.sending = FALSE, !.due = 0, !.stage = 0, !.bytesLeft = 0,
                          !.result = r]
           l == IF x.request = "none" THEN "end" ELSE "headers"
<1>0. /\ frame \in Frame /\ frame.pc = "lines" /\ frame # NoFrame
      /\ x \in Context
      /\ Timed(x, pcb[frame.c] # NoPcb) /\ Receives(x)
  BY RunningFacts DEF ParseEmptyLine, At, Fit
<1>1. pcb' = pcb BY DEF ParseEmptyLine, Pool
<1>2. ctx' = [ctx EXCEPT ![frame.c] = y] /\ Goto(l)
  <2>1. y = [x EXCEPT !.state = HEADER_DONE, !.rx = DropFirst(@, 1),
                      !.sending = FALSE, !.due = 0, !.stage = 0, !.bytesLeft = 0,
                      !.result = IF x.request = "none" THEN -500 ELSE @]
    BY <1>0 DEF Context
  <2> QED BY <2>1 DEF ParseEmptyLine
<1>3. l \in Labels BY LabelFacts
<1>4. /\ y.state = HEADER_DONE /\ y.sending = FALSE /\ y.stage = 0 /\ y.bytesLeft = 0
      /\ y.result = r /\ y.request = x.request /\ y.handler = x.handler /\ y.recvAge = x.recvAge
  BY <1>0 DEF Context
<1> HIDE DEF y
<1>5. Fit(l, y, pcb[frame.c] # NoPcb) BY <1>0, <1>4 DEF Fit, Fresh, Receives
<1>6. Timed(y, pcb[frame.c] # NoPcb) BY <1>0, <1>4 DEF Timed, Handled
<1> HIDE DEF l
<1>7. frame' # NoFrame /\ frame'.c = frame.c /\ frame'.pc = l BY <1>0, <1>2, <1>3, GotoFacts
<1> QED BY <1>0, <1>1, <1>2, <1>5, <1>6, <1>7, Moves

(* Dropping a prefix of a buffer without a line leaves none.               *)
LEMMA DropLine ==
    ASSUME NEW s \in Seq(Tokens), NEW n \in Nat, ~HasLine(s)
    PROVE  ~HasLine(DropFirst(s, n))
<1>1. SUFFICES ASSUME NEW i \in 1 .. Len(DropFirst(s, n)), DropFirst(s, n)[i] = "eol"
               PROVE  FALSE
  BY DEF HasLine
<1>2. n < Len(s) /\ Len(DropFirst(s, n)) = Len(s) - n
  <2>1. Len(s) \in Nat OBVIOUS
  <2>2. n >= Len(s) => DropFirst(s, n) = << >> BY DropFirstFacts
  <2>3. n < Len(s) BY <1>1, <2>1, <2>2
  <2> QED BY <2>1, <2>3, DropFirstFacts
<1>3. n + i \in 1 .. Len(s) /\ DropFirst(s, n)[i] = s[n + i] BY <1>1, <1>2 DEF DropFirst
<1> QED BY <1>1, <1>3 DEF HasLine

(* A header that is not complete waits with everything examined.           *)
LEMMA LinesExhaustedControl ==
    ASSUME Typed, Control, LinesExhausted
    PROVE  Control'
<1> DEFINE x == ctx[frame.c]
           n == IF ~frame.parsed /\ Len(x.rx) >= MaxReqBuf THEN Len(x.rx) \div 2 ELSE 0
           y == [x EXCEPT !.rx = DropFirst(@, n)]
           z == [y EXCEPT !.result = -500]
           l == IF x.queue # << >> THEN "loop" ELSE "end"
<1>0. /\ frame \in Frame /\ frame.pc = "lines" /\ frame # NoFrame
      /\ x \in Context /\ x.rx \in Seq(Tokens)
      /\ Timed(x, pcb[frame.c] # NoPcb) /\ Receives(x) /\ x.state = HEADER_RECEIVING
  BY RunningFacts, GoodFacts DEF LinesExhausted, At, Fit
<1>1. pcb' = pcb /\ ~HasLine(x.rx) BY DEF LinesExhausted, Pool
<1>2. n \in Nat
  <2>1. Len(x.rx) \in Nat BY <1>0
  <2>2. \A m \in Nat : m \div 2 \in Nat OBVIOUS
  <2>3. Len(x.rx) \div 2 \in Nat BY <2>1, <2>2
  <2> QED BY <2>3
<1>3. \/ ctx' = [ctx EXCEPT ![frame.c] = z] /\ Goto("end")
      \/ ctx' = [ctx EXCEPT ![frame.c] = y] /\ Goto(l)
  BY DEF LinesExhausted
<1> HIDE DEF n
<1>4. /\ y.rx = DropFirst(x.rx, n) /\ y.state = x.state /\ y.result = x.result
      /\ y.queue = x.queue /\ y.recvAge = x.recvAge
      /\ y.request = x.request /\ y.handler = x.handler /\ y.stage = x.stage
  BY <1>0 DEF Context
<1>5. /\ z.result = -500 /\ z.recvAge = x.recvAge
      /\ z.request = x.request /\ z.handler = x.handler /\ z.stage = x.stage
  BY <1>0 DEF Context
<1> HIDE DEF y, z
<1>6. CASE ctx' = [ctx EXCEPT ![frame.c] = z] /\ Goto("end")
  <2>1. frame' # NoFrame /\ frame'.c = frame.c /\ frame'.pc = "end"
    BY <1>0, <1>6, GotoFacts, LabelFacts
  <2>2. Fit("end", z, pcb[frame.c] # NoPcb) BY <1>5 DEF Fit
  <2>3. Timed(z, pcb[frame.c] # NoPcb) BY <1>0, <1>5 DEF Timed, Handled
  <2> QED BY <1>0, <1>1, <1>6, <2>1, <2>2, <2>3, Moves
<1>7. CASE ctx' = [ctx EXCEPT ![frame.c] = y] /\ Goto(l)
  <2>1. ~HasLine(y.rx) BY <1>0, <1>1, <1>2, <1>4, DropLine
  <2>2. Receives(y) BY <1>0, <1>4 DEF Receives
  <2>3. x.queue = << >> => Settled(y) BY <2>1, <2>2, <1>4 DEF Settled, Examined
  <2>4. Fit(l, y, pcb[frame.c] # NoPcb) BY <2>2, <2>3 DEF Fit
  <2>5. Timed(y, pcb[frame.c] # NoPcb) BY <1>0, <1>4 DEF Timed, Handled
  <2>6. l \in Labels BY LabelFacts
  <2> HIDE DEF l
  <2>7. frame' # NoFrame /\ frame'.c = frame.c /\ frame'.pc = l
    BY <1>0, <1>7, <2>6, GotoFacts
  <2> QED BY <1>0, <1>1, <1>7, <2>4, <2>5, <2>7, Moves
<1> QED BY <1>3, <1>6, <1>7

(* The verdict on the headers: an error or a redirection is answered, a    *)
(* request goes on with result 0.                                          *)
LEMMA AfterHeadersControl ==
    ASSUME Typed, Control, NEW session \in BOOLEAN, NEW started \in BOOLEAN,
           AfterHeaders(session, started)
    PROVE  Control'
<1> DEFINE x == ctx[frame.c]
           result == HeadersResult(x, session, started)
           body == x.contentLength > 0
           s == IF result < 0 THEN SENDING_HEADER ELSE IF body THEN BODY_RECEIVING ELSE BODY_DONE
           a == IF body THEN x.sendAge ELSE 0
           y == [x EXCEPT !.result = result, !.state = s, !.sendAge = a]
           l == IF result < 0 THEN "response" ELSE IF body THEN "body" ELSE "done"
<1>0. /\ frame \in Frame /\ frame.pc = "headers" /\ frame # NoFrame
      /\ x \in Context
      /\ Timed(x, pcb[frame.c] # NoPcb) /\ Fresh(x)
  BY RunningFacts DEF AfterHeaders, At, Fit
<1>1. pcb' = pcb BY DEF AfterHeaders, Pool
<1>2. ctx' = [ctx EXCEPT ![frame.c] = y] /\ Goto(l)
  <2>1. y = [x EXCEPT !.result = result, !.state = s, !.sendAge = IF body THEN @ ELSE 0]
    BY <1>0 DEF Context
  <2> QED BY <2>1 DEF AfterHeaders
<1>3. l \in Labels BY LabelFacts
<1>4. result \in {0, CODE_REDIRECT, -404, -500} BY DEF HeadersResult
<1>5. result = 0 \/ result < 0 BY <1>4 DEF CODE_REDIRECT
<1>6. /\ y.state = s /\ y.result = result /\ y.sending = x.sending /\ y.bytesLeft = x.bytesLeft
      /\ y.request = x.request /\ y.handler = x.handler /\ y.stage = x.stage
      /\ y.recvAge = x.recvAge
  BY <1>0 DEF Context
<1> HIDE DEF y, result, body
<1>7. Fit(l, y, pcb[frame.c] # NoPcb)
  <2>1. CASE result < 0 BY <2>1, <1>0, <1>6 DEF Fit, Fresh
  <2>2. CASE result = 0 /\ body BY <2>2, <1>0, <1>6 DEF Fit, Fresh, Receives
  <2>3. CASE result = 0 /\ ~body BY <2>3, <1>0, <1>6 DEF Fit, Fresh
  <2> QED BY <2>1, <2>2, <2>3, <1>5
<1>8. Timed(y, pcb[frame.c] # NoPcb) BY <1>0, <1>6 DEF Timed, Handled
<1> HIDE DEF l
<1>9. frame' # NoFrame /\ frame'.c = frame.c /\ frame'.pc = l BY <1>0, <1>2, <1>3, GotoFacts
<1> QED BY <1>0, <1>1, <1>2, <1>7, <1>8, <1>9, Moves

(* A part of the body: the request stays open until all of it was taken.   *)
LEMMA ReceiveBodyControl ==
    ASSUME Typed, Control, NEW n \in 0 .. MaxReqBuf, ReceiveBody(n)
    PROVE  Control'
<1> DEFINE x == ctx[frame.c]
           a == IF x.handler = "auth" THEN x.recvAge ELSE 0
           y == [x EXCEPT !.contentReceived = @ + n, !.rx = DropFirst(@, n), !.recvAge = a]
           z == [y EXCEPT !.state = BODY_DONE, !.sendAge = 0]
           complete == y.contentReceived >= x.contentLength
           l == IF complete THEN "done" ELSE IF x.queue # << >> THEN "loop" ELSE "end"
<1>0. /\ frame \in Frame /\ frame.pc = "body" /\ frame # NoFrame
      /\ x \in Context
      /\ Timed(x, pcb[frame.c] # NoPcb) /\ Receives(x) /\ x.state = BODY_RECEIVING
  BY RunningFacts DEF ReceiveBody, At, Fit
<1>1. pcb' = pcb BY DEF ReceiveBody, Pool
<1>2. \/ ctx' = ctx /\ Goto("end")
      \/ ctx' = [ctx EXCEPT ![frame.c] = IF complete THEN z ELSE y] /\ Goto(l)
  <2>1. y = [x EXCEPT !.contentReceived = @ + n, !.rx = DropFirst(@, n),
                      !.recvAge = IF x.handler = "auth" THEN @ ELSE 0]
    BY <1>0 DEF Context
  <2> QED BY <2>1 DEF ReceiveBody
<1>3. /\ y.state = x.state /\ y.result = x.result /\ y.sending = x.sending
      /\ y.bytesLeft = x.bytesLeft /\ y.request = x.request /\ y.handler = x.handler
      /\ y.stage = x.stage /\ y.recvAge = a
  BY <1>0 DEF Context
<1>4. /\ z.state = BODY_DONE /\ z.result = x.result /\ z.sending = x.sending
      /\ z.bytesLeft = x.bytesLeft /\ z.request = x.request /\ z.handler = x.handler
      /\ z.stage = x.stage /\ z.recvAge = a
  BY <1>0 DEF Context
<1> HIDE DEF y, z, complete
<1>5. Timed(y, pcb[frame.c] # NoPcb) /\ Timed(z, pcb[frame.c] # NoPcb)
  BY <1>0, <1>3, <1>4 DEF Timed, Handled
<1>6. CASE ctx' = ctx /\ Goto("end")
  <2>1. Fit("end", x, pcb[frame.c] # NoPcb) BY <1>0 DEF Fit, Settled, Examined
  <2>2. frame' # NoFrame /\ frame'.c = frame.c /\ frame'.pc = "end"
    BY <1>0, <1>6, GotoFacts, LabelFacts
  <2> QED BY <1>0, <1>1, <1>6, <2>1, <2>2, Stays
<1>7. CASE ctx' = [ctx EXCEPT ![frame.c] = IF complete THEN z ELSE y] /\ Goto(l)
  <2>1. l \in Labels BY LabelFacts
  <2>2. frame' # NoFrame /\ frame'.c = frame.c /\ frame'.pc = l
    <3> HIDE DEF l
    <3> QED BY <1>0, <1>7, <2>1, GotoFacts
  <2>3. CASE complete
    <3>1. Fit("done", z, pcb[frame.c] # NoPcb) BY <1>0, <1>4 DEF Fit, Fresh, Receives
    <3> QED BY <1>0, <1>1, <1>5, <1>7, <2>2, <2>3, <3>1, Moves
  <2>4. CASE ~complete
    <3>1. Receives(y) /\ Examined(y) BY <1>0, <1>3 DEF Receives, Examined
    <3>2. Fit(l, y, pcb[frame.c] # NoPcb) BY <3>1, <2>4 DEF Fit, Settled
    <3> HIDE DEF l
    <3> QED BY <1>0, <1>1, <1>5, <1>7, <2>2, <2>4, <3>2, Moves
  <2> QED BY <2>3, <2>4
<1> QED BY <1>2, <1>6, <1>7

(* Every handler leaves a result that is not 0.                            *)
LEMMA RequestReceivedControl ==
    ASSUME Typed, Control, NEW result \in Results, RequestReceived(result)
    PROVE  Control'
<1> DEFINE x == ctx[frame.c]
           y == [x EXCEPT !.result = result]
<1>0. /\ frame \in Frame /\ frame.pc = "done" /\ frame # NoFrame
      /\ x \in Context /\ frame.c \in Ctx /\ ctx \in [Ctx -> Context]
      /\ Timed(x, pcb[frame.c] # NoPcb) /\ Fresh(x) /\ x.state = BODY_DONE
  BY RunningFacts DEF RequestReceived, At, Fit
<1>1. pcb' = pcb /\ Goto("response") BY DEF RequestReceived, Pool
<1>2. ctx' = [ctx EXCEPT ![frame.c] = y] BY <1>0 DEF RequestReceived
<1>3. result # 0
  <2>1. x.request \in DOMAIN Requests BY <1>0 DEF Context, Asked, Fresh
  <2>2. \A t \in DOMAIN Requests : 0 \notin Requests[t].res
    BY DEF Requests, Request, CODE_OK, CODE_REDIRECT
  <2> QED BY <2>1, <2>2 DEF RequestReceived
<1>4. /\ y.state = x.state /\ y.result = result /\ y.sending = x.sending
      /\ y.bytesLeft = x.bytesLeft /\ y.request = x.request /\ y.handler = x.handler
      /\ y.stage = x.stage /\ y.recvAge = x.recvAge
  BY <1>0 DEF Context
<1> HIDE DEF y
<1>5. Fit("response", y, pcb[frame.c] # NoPcb) BY <1>0, <1>3, <1>4 DEF Fit, Fresh
<1>6. Timed(y, pcb[frame.c] # NoPcb) BY <1>0, <1>4 DEF Timed, Handled
<1>7. frame' # NoFrame /\ frame'.c = frame.c /\ frame'.pc = "response"
  BY <1>0, <1>1, GotoFacts, LabelFacts
<1> QED BY <1>0, <1>1, <1>2, <1>5, <1>6, <1>7, Moves

-----------------------------------------------------------------------------
(* The sending half: HttpResponseProc and CGI_LoadContentToSend.           *)

(* A write keeps the send timer running, a failed one ends the request.    *)
LEMMA SendControl ==
    ASSUME Typed, Control, frame # NoFrame, pcb' = pcb, NEW x \in Context, NEW ok \in BOOLEAN,
           NEW label \in {"content", "end"}, sendBuffered(frame.c, x, ok, label),
           Timed(x, pcb[frame.c] # NoPcb), x.state \in {SENDING_HEADER, SENDING_BODY},
           x.result # 0, x.sendAge # NoTime, ok => x.sending
    PROVE  Control'
<1>0. frame \in Frame BY RunningFacts
<1>1. CASE /\ ok
           /\ ctx' = [ctx EXCEPT ![frame.c] = Written(frame.c, x)]
           /\ Goto(label)
  <2> DEFINE y == Written(frame.c, x)
  <2>1. /\ y.state = x.state /\ y.result = x.result /\ y.sending = x.sending
        /\ y.request = x.request /\ y.handler = x.handler /\ y.stage = x.stage
        /\ y.recvAge = x.recvAge /\ y.sendAge \in {0, x.sendAge}
    BY DEF Written, Context
  <2> HIDE DEF y
  <2>2. Sends(y) BY <1>1, <2>1 DEF Sends
  <2>3. Fit(label, y, pcb[frame.c] # NoPcb) BY <2>2 DEF Fit, Sends, Settled
  <2>4. Timed(y, pcb[frame.c] # NoPcb) BY <2>1 DEF Timed, Handled
  <2>5. label \in Labels BY LabelFacts
  <2>6. frame' # NoFrame /\ frame'.c = frame.c /\ frame'.pc = label
    BY <1>0, <1>1, <2>5, GotoFacts
  <2>7. ctx' = [ctx EXCEPT ![frame.c] = y] BY <1>1 DEF y
  <2> QED BY <2>3, <2>4, <2>6, <2>7, Moves
<1>2. CASE /\ ctx'   = [ctx EXCEPT ![frame.c] = [x EXCEPT !.state = REQUEST_END, !.result = -500]]
           /\ frame' = [frame EXCEPT !.pc = "end", !.failed = TRUE]
  <2> DEFINE y == [x EXCEPT !.state = REQUEST_END, !.result = -500]
  <2>1. /\ y.state = REQUEST_END /\ y.result = -500
        /\ y.request = x.request /\ y.handler = x.handler /\ y.stage = x.stage
        /\ y.recvAge = x.recvAge
    BY DEF Context
  <2>2. ctx' = [ctx EXCEPT ![frame.c] = y] BY <1>2
  <2> HIDE DEF y
  <2>3. Fit("end", y, pcb[frame.c] # NoPcb) BY <2>1 DEF Fit
  <2>4. Timed(y, pcb[frame.c] # NoPcb) BY <2>1 DEF Timed, Handled
  <2>5. frame' # NoFrame /\ frame'.c = frame.c /\ frame'.pc = "end"
    <3>1. frame' \in Frame /\ frame'.c = frame.c /\ frame'.pc = "end"
      BY <1>0, <1>2, LabelFacts DEF Frame
    <3> QED BY <3>1, FrameAssumption
  <2> QED BY <2>2, <2>3, <2>4, <2>5, Moves
<1> QED BY <1>1, <1>2 DEF sendBuffered

(* The unsent rest of a block belongs to a response that was started.      *)
LEMMA SendRemainingControl ==
    ASSUME Typed, Control, NEW ok \in BOOLEAN, SendRemaining(ok)
    PROVE  Control'
<1> DEFINE x == ctx[frame.c]
<1>0. /\ frame # NoFrame /\ x \in Context /\ Timed(x, pcb[frame.c] # NoPcb)
      /\ Fit("response", x, pcb[frame.c] # NoPcb)
  BY RunningFacts DEF SendRemaining, At
<1>1. pcb' = pcb /\ x.bytesLeft > 0 /\ sendBuffered(frame.c, x, ok, "end")
  BY DEF SendRemaining, Pool, HasRemaining
<1>2. x.sending
  <2>1. ~x.sending => x.bytesLeft = 0 BY <1>0 DEF Fit
  <2> QED BY <1>1, <2>1
<1>3. x.state \in {SENDING_HEADER, SENDING_BODY} /\ x.result # 0 /\ x.sendAge # NoTime
  BY <1>0, <1>2 DEF Fit
<1> QED BY <1>0, <1>1, <1>2, <1>3, SendControl

(* The header starts the response.                                         *)
LEMMA SendHeaderControl ==
    ASSUME Typed, Control, NEW ok \in BOOLEAN, SendHeader(ok)
    PROVE  Control'
<1> DEFINE x == ctx[frame.c]
           s == IF x.result = CODE_REDIRECT THEN SENDING_BODY ELSE SENDING_HEADER
           y == [x EXCEPT !.stage = 0, !.sendAge = 0, !.bytesLeft = HeaderLen,
                          !.sending = ok, !.state = s]
<1>0. /\ frame # NoFrame /\ Good(x) /\ x \in Context /\ Timed(x, pcb[frame.c] # NoPcb)
      /\ Fit("response", x, pcb[frame.c] # NoPcb)
  BY RunningFacts DEF SendHeader, At
<1>1. pcb' = pcb /\ sendBuffered(frame.c, y, ok, "content") BY DEF SendHeader, Pool
<1>2. s \in States BY Constants
<1>3. Keeps(y, x) BY <1>0, <1>2, ResponseKeeps
<1>4. y \in Context BY <1>3 DEF Keeps, Good
<1>5. /\ y.state = s /\ y.result = x.result /\ y.sending = ok
      /\ y.request = x.request /\ y.handler = x.handler /\ y.stage = 0
      /\ y.recvAge = x.recvAge /\ y.sendAge = 0
  BY <1>0 DEF Context
<1> HIDE DEF y
<1>6. Timed(y, pcb[frame.c] # NoPcb) BY <1>0, <1>5 DEF Timed, Handled
<1>7. y.state \in {SENDING_HEADER, SENDING_BODY} /\ y.result # 0 /\ y.sendAge # NoTime
  BY <1>0, <1>5 DEF Fit
<1> QED BY <1>0, <1>1, <1>4, <1>5, <1>6, <1>7, SendControl

(* An acknowledgement moves the response to its body, or ends an error.    *)
LEMMA HeaderSentControl ==
    ASSUME Typed, Control, HeaderSent
    PROVE  Control'
<1> DEFINE x == ctx[frame.c]
           s == IF x.result < 0 THEN REQUEST_END ELSE SENDING_BODY
           y == [x EXCEPT !.state = s]
<1>0. /\ frame \in Frame /\ frame.c \in Ctx /\ frame # NoFrame /\ x \in Context
      /\ ctx \in [Ctx -> Context] /\ Timed(x, pcb[frame.c] # NoPcb)
      /\ Fit("response", x, pcb[frame.c] # NoPcb)
  BY RunningFacts DEF HeaderSent, At
<1>1. pcb' = pcb /\ x.sending /\ Goto("content") BY DEF HeaderSent, Pool
<1>2. frame' # NoFrame /\ frame'.c = frame.c /\ frame'.pc = "content"
  BY <1>0, <1>1, GotoFacts, LabelFacts
<1>3. ctx' = ctx \/ ctx' = [ctx EXCEPT ![frame.c] = y] BY <1>0 DEF HeaderSent
<1>4. x.state \in {SENDING_HEADER, SENDING_BODY} /\ x.result # 0 /\ x.sendAge # NoTime
  BY <1>0, <1>1 DEF Fit
<1>5. /\ y.state = s /\ y.result = x.result /\ y.sending = x.sending
      /\ y.request = x.request /\ y.handler = x.handler /\ y.stage = x.stage
      /\ y.recvAge = x.recvAge /\ y.sendAge = x.sendAge
  BY <1>0 DEF Context
<1> HIDE DEF y
<1>6. Fit("content", x, pcb[frame.c] # NoPcb) BY <1>1, <1>4 DEF Fit
<1>7. Fit("content", y, pcb[frame.c] # NoPcb) BY <1>1, <1>4, <1>5 DEF Fit
<1>8. Timed(y, pcb[frame.c] # NoPcb) BY <1>0, <1>5 DEF Timed, Handled
<1> QED BY <1>0, <1>1, <1>2, <1>3, <1>6, <1>7, <1>8, Moves, Stays

(* Nothing to load: the response waits, or it is complete.                 *)
LEMMA NoContentControl ==
    ASSUME Typed, Control, NoContent
    PROVE  Control'
<1> DEFINE x == ctx[frame.c]
           y == [x EXCEPT !.state = REQUEST_END]
<1>0. /\ frame \in Frame /\ frame.c \in Ctx /\ frame # NoFrame /\ x \in Context
      /\ ctx \in [Ctx -> Context] /\ Timed(x, pcb[frame.c] # NoPcb)
      /\ Fit("content", x, pcb[frame.c] # NoPcb)
  BY RunningFacts DEF NoContent, At
<1>1. pcb' = pcb /\ Goto("end") BY DEF NoContent, Pool
<1>2. frame' # NoFrame /\ frame'.c = frame.c /\ frame'.pc = "end"
  BY <1>0, <1>1, GotoFacts, LabelFacts
<1>3. ctx' = ctx \/ ctx' = [ctx EXCEPT ![frame.c] = y] BY <1>0 DEF NoContent
<1>4. x.state = REQUEST_END \/ Sends(x) BY <1>0 DEF Fit, Sends
<1>5. /\ y.state = REQUEST_END /\ y.recvAge = x.recvAge
      /\ y.request = x.request /\ y.handler = x.handler /\ y.stage = x.stage
  BY <1>0 DEF Context
<1> HIDE DEF y
<1>6. Fit("end", x, pcb[frame.c] # NoPcb) BY <1>4 DEF Fit, Settled
<1>7. Fit("end", y, pcb[frame.c] # NoPcb) BY <1>5 DEF Fit
<1>8. Timed(y, pcb[frame.c] # NoPcb) BY <1>0, <1>5 DEF Timed, Handled
<1> QED BY <1>0, <1>1, <1>2, <1>3, <1>6, <1>7, <1>8, Moves, Stays

(* ReadContent leaves a result and, at its end, a handler that has it.     *)
LEMMA LoadContentControl ==
    ASSUME Typed, Control, NEW out \in [n : -1 .. 1, stage : Stages, result : Results],
           NEW ok \in BOOLEAN, LoadContent(out, ok)
    PROVE  Control'
<1> DEFINE x == ctx[frame.c]
           y == [x EXCEPT !.stage = out.stage, !.result = out.result]
           v == [y EXCEPT !.bytesLeft = @ + out.n]
           z == [y EXCEPT !.state = REQUEST_END]
<1>0. /\ frame \in Frame /\ frame.c \in Ctx /\ frame # NoFrame /\ x \in Context /\ Good(x)
      /\ ctx \in [Ctx -> Context] /\ Timed(x, pcb[frame.c] # NoPcb)
      /\ Fit("content", x, pcb[frame.c] # NoPcb)
  BY RunningFacts DEF LoadContent, At
<1>1. /\ pcb' = pcb /\ x.state = SENDING_BODY /\ x.handler \in HasReadContent
      /\ out \in ReadContent(x)
      /\ IF out.n > 0 THEN sendBuffered(frame.c, v, ok, "end")
         ELSE /\ ctx' = [ctx EXCEPT ![frame.c] = IF out.n < 0 THEN z ELSE y]
              /\ Goto("end")
  BY DEF LoadContent, Pool
<1>2. x.sending /\ x.sendAge # NoTime /\ x.result # 0 BY <1>0 DEF Fit
<1>3. out.result \in {x.result, -500} BY <1>1 DEF ReadContent
<1>4. out.result # 0 BY <1>2, <1>3
<1>5. out.n \in -1 .. 1 /\ out.stage \in Stages /\ out.result \in Results OBVIOUS
<1>6. /\ y.state = x.state /\ y.result = out.result /\ y.sending = x.sending
      /\ y.request = x.request /\ y.handler = x.handler /\ y.stage = out.stage
      /\ y.recvAge = x.recvAge /\ y.sendAge = x.sendAge
  BY <1>0 DEF Context
<1>7. /\ v.state = x.state /\ v.result = out.result /\ v.sending = x.sending
      /\ v.request = x.request /\ v.handler = x.handler /\ v.stage = out.stage
      /\ v.recvAge = x.recvAge /\ v.sendAge = x.sendAge
  BY <1>0 DEF Context
<1>8. /\ z.state = REQUEST_END /\ z.recvAge = x.recvAge
      /\ z.request = x.request /\ z.handler = x.handler /\ z.stage = out.stage
  BY <1>0 DEF Context
<1>9. x.request # "none"
  <2>1. "none" \notin HasReadContent BY DEF HasReadContent
  <2> QED BY <1>0, <1>1, <2>1 DEF Timed, Handled
<1>10. CASE out.n > 0
  <2>1. Keeps(y, x) BY <1>0, <1>5, StageKeeps
  <2>2. out.n \in Nat BY <1>5, <1>10
  <2>3. Keeps(v, y) BY <2>1, <2>2, BytesKeeps DEF Keeps
  <2>4. v \in Context BY <2>3 DEF Keeps, Good
  <2> HIDE DEF v, y
  <2>5. Timed(v, pcb[frame.c] # NoPcb) BY <1>0, <1>1, <1>7, <1>9 DEF Timed, Handled
  <2>6. v.state \in {SENDING_HEADER, SENDING_BODY} /\ v.result # 0 /\ v.sendAge # NoTime
        /\ v.sending
    BY <1>1, <1>2, <1>4, <1>7
  <2>7. sendBuffered(frame.c, v, ok, "end") BY <1>1, <1>10
  <2> QED BY <1>0, <1>1, <2>4, <2>5, <2>6, <2>7, SendControl
<1>11. CASE ~ (out.n > 0)
  <2> HIDE DEF y, z
  <2>1. ctx' = [ctx EXCEPT ![frame.c] = IF out.n < 0 THEN z ELSE y] /\ Goto("end")
    BY <1>1, <1>11
  <2>2. frame' # NoFrame /\ frame'.c = frame.c /\ frame'.pc = "end"
    BY <1>0, <2>1, GotoFacts, LabelFacts
  <2>3. Sends(y) BY <1>1, <1>2, <1>4, <1>6 DEF Sends
  <2>4. Fit("end", y, pcb[frame.c] # NoPcb) BY <2>3 DEF Fit, Settled
  <2>5. Fit("end", z, pcb[frame.c] # NoPcb) BY <1>8 DEF Fit
  <2>6. Timed(y, pcb[frame.c] # NoPcb) BY <1>0, <1>1, <1>6, <1>9 DEF Timed, Handled
  <2>7. Timed(z, pcb[frame.c] # NoPcb) BY <1>0, <1>1, <1>8, <1>9 DEF Timed, Handled
  <2>8. CASE out.n < 0 BY <2>8, <1>0, <1>1, <2>1, <2>2, <2>5, <2>7, Moves
  <2>9. CASE ~ (out.n < 0) BY <2>9, <1>0, <1>1, <2>1, <2>2, <2>4, <2>6, Moves
  <2> QED BY <2>8, <2>9
<1> QED BY <1>10, <1>11

-----------------------------------------------------------------------------
(* The end of HttpRequestProc and of the callback.                         *)

(* A finished request on a connection that is kept starts over.            *)
LEMMA KeepAfterRequestControl ==
    ASSUME Typed, Control, KeepAfterRequest
    PROVE  Control'
<1> DEFINE x == ctx[frame.c]
           y == ResetHttpContext(x)
<1>0. frame \in Frame /\ frame.c \in Ctx /\ frame # NoFrame /\ x \in Context
  BY RunningFacts DEF KeepAfterRequest, At
<1>1. /\ pcb' = pcb /\ Goto("cancel") /\ ~x.peerClosing /\ ctx' = [ctx EXCEPT ![frame.c] = y]
  BY DEF KeepAfterRequest, Pool
<1>2. frame' # NoFrame /\ frame'.c = frame.c /\ frame'.pc = "cancel"
  BY <1>0, <1>1, GotoFacts, LabelFacts
<1>3. /\ y.state = IDLE /\ y.result = 0 /\ y.request = "none" /\ y.handler = "none"
      /\ y.stage = 0 /\ y.recvAge = 0 /\ y.peerClosing = x.peerClosing
  BY <1>0 DEF ResetHttpContext, Context
<1> HIDE DEF y
<1>4. Settled(y) /\ Awaited(y) BY <1>1, <1>3 DEF Settled, Receives, Examined, Awaited
<1>5. Fit("cancel", y, pcb[frame.c] # NoPcb) BY <1>4 DEF Fit
<1>6. Timed(y, pcb[frame.c] # NoPcb) BY <1>3 DEF Timed, Handled
<1> QED BY <1>0, <1>1, <1>2, <1>5, <1>6, Moves

(* An unfinished request of a peer that closed is given up.                *)
LEMMA LeaveRequestControl ==
    ASSUME Typed, Control, LeaveRequest
    PROVE  Control'
<1> DEFINE x == ctx[frame.c]
           y == [x EXCEPT !.result = -500]
           given == x.state < BODY_DONE /\ x.peerClosing
<1>0. /\ frame \in Frame /\ frame.c \in Ctx /\ frame # NoFrame /\ x \in Context
      /\ ctx \in [Ctx -> Context] /\ Timed(x, pcb[frame.c] # NoPcb)
      /\ Fit("end", x, pcb[frame.c] # NoPcb)
  BY RunningFacts DEF LeaveRequest, At
<1>1. pcb' = pcb /\ Goto("cancel") /\ x.state # REQUEST_END BY DEF LeaveRequest, Pool
<1>2. frame' # NoFrame /\ frame'.c = frame.c /\ frame'.pc = "cancel"
  BY <1>0, <1>1, GotoFacts, LabelFacts
<1>3. CASE given
  <2>1. ctx' = [ctx EXCEPT ![frame.c] = y] BY <1>3 DEF LeaveRequest
  <2>2. /\ y.result = -500 /\ y.request = x.request /\ y.handler = x.handler
        /\ y.stage = x.stage /\ y.recvAge = x.recvAge
    BY <1>0 DEF Context
  <2> HIDE DEF y
  <2>3. Fit("cancel", y, pcb[frame.c] # NoPcb) BY <2>2 DEF Fit
  <2>4. Timed(y, pcb[frame.c] # NoPcb) BY <1>0, <2>2 DEF Timed, Handled
  <2> QED BY <1>0, <1>1, <1>2, <2>1, <2>3, <2>4, Moves
<1>4. CASE ~given
  <2>1. ctx' = ctx BY <1>4 DEF LeaveRequest
  <2>2. x.result = -500 \/ Settled(x) BY <1>0, <1>1 DEF Fit
  <2>3. Fit("cancel", x, pcb[frame.c] # NoPcb) BY <1>4, <2>2 DEF Fit, Awaited
  <2> QED BY <1>0, <1>1, <1>2, <2>1, <2>3, Stays
<1> QED BY <1>3, <1>4

(* CGI_Cancel changes nothing, and a callback returns only when there is   *)
(* nothing to abort.                                                       *)
LEMMA ReturnControl ==
    ASSUME Typed, Control, CancelIfFailed \/ Return
    PROVE  Control'
<1> DEFINE x == ctx[frame.c]
<1>0. /\ frame \in Frame /\ frame.c \in Ctx /\ frame # NoFrame /\ x \in Context
      /\ Timed(x, pcb[frame.c] # NoPcb) /\ Fit(frame.pc, x, pcb[frame.c] # NoPcb)
  BY RunningFacts DEF CancelIfFailed, Return, At
<1>1. pcb' = pcb /\ ctx' = ctx BY DEF CancelIfFailed, Return, Pool
<1>2. CASE CancelIfFailed
  <2> DEFINE failed == IF frame.caller = "recv" THEN x.result <= -400 ELSE x.result < 0
  <2>1. frame' = [frame EXCEPT !.pc = "close", !.cancelled = failed]
    BY <1>2 DEF CancelIfFailed
  <2>2. failed \in BOOLEAN
    <3>1. CASE frame.caller = "recv" BY <3>1
    <3>2. CASE frame.caller # "recv" BY <3>2
    <3> QED BY <3>1, <3>2
  <2> HIDE DEF failed
  <2>3. frame' # NoFrame /\ frame'.c = frame.c /\ frame'.pc = "close"
    <3>1. frame' \in Frame /\ frame'.c = frame.c /\ frame'.pc = "close"
      BY <1>0, <2>1, <2>2, LabelFacts DEF Frame
    <3> QED BY <3>1, FrameAssumption
  <2>4. frame.pc = "cancel" BY <1>2 DEF CancelIfFailed, At
  <2>5. Fit("close", x, pcb[frame.c] # NoPcb) BY <1>0, <2>4 DEF Fit
  <2> QED BY <1>0, <1>1, <2>3, <2>5, Stays
<1>3. CASE Return
  <2>1. frame' = NoFrame /\ frame.pc = "close" /\ x.result > -500 BY <1>3 DEF Return, At
  <2>2. Ready(x, pcb[frame.c] # NoPcb) BY <1>0, <2>1 DEF Fit, Ready
  <2>3. ASSUME NEW c \in Ctx
        PROVE  Timed(ctx[c], pcb[c] # NoPcb) /\ Ready(ctx[c], pcb[c] # NoPcb)
    <3>1. CASE c = frame.c BY <3>1, <1>0, <2>2
    <3>2. CASE c # frame.c BY <3>2 DEF Control
    <3> QED BY <3>1, <3>2
  <2> QED BY <1>1, <2>1, <2>3 DEF Control
<1> QED BY <1>2, <1>3

(* FreeHttpContext leaves nothing behind.                                  *)
Clean(x) ==
    /\ x.queue = << >> /\ x.rx = << >> /\ x.offset = 0
    /\ x.state = IDLE /\ x.handler = "none" /\ x.result = 0
    /\ x.bytesLeft = 0 /\ ~x.keepalive

(* A freed context is clean, and fits every place a callback can end in.   *)
LEMMA FreeFacts ==
    ASSUME NEW x \in Context
    PROVE  LET y == FreeHttpContext(x)
           IN  /\ Clean(y) /\ Timed(y, FALSE) /\ Ready(y, FALSE) /\ Fit("cancel", y, FALSE)
<1> DEFINE y == FreeHttpContext(x)
<1>1. /\ y.queue = << >> /\ y.rx = << >> /\ y.offset = 0 /\ y.state = IDLE
      /\ y.handler = "none" /\ y.result = 0 /\ y.bytesLeft = 0 /\ y.keepalive = FALSE
      /\ y.request = "none" /\ y.stage = 0
  BY DEF FreeHttpContext, Context
<1> HIDE DEF y
<1>2. Settled(y) BY <1>1 DEF Settled, Receives, Examined
<1>3. Clean(y) BY <1>1 DEF Clean
<1>4. Timed(y, FALSE) BY <1>1 DEF Timed, Handled
<1>5. Ready(y, FALSE) BY <1>1, <1>2 DEF Ready
<1>6. Fit("cancel", y, FALSE) BY <1>2 DEF Fit
<1>7. Clean(y) /\ Timed(y, FALSE) /\ Ready(y, FALSE) /\ Fit("cancel", y, FALSE)
  BY <1>3, <1>4, <1>5, <1>6
<1> QED BY <1>7 DEF y

(* What CloseHttpContext does to the contexts.                             *)
LEMMA CloseFacts ==
    ASSUME Typed, NEW c \in Ctx, NEW lk, NEW closed \in BOOLEAN, CloseHttpContext(c, lk, closed)
    PROVE  /\ pcb'[c] = NoPcb
           /\ Clean(ctx'[c]) /\ Timed(ctx'[c], FALSE) /\ Ready(ctx'[c], FALSE)
           /\ Fit("cancel", ctx'[c], FALSE)
           /\ \A d \in Ctx : d # c => pcb'[d] = pcb[d] /\ ctx'[d] = ctx[d]
<1> DEFINE x == IF pcb[c] # NoPcb /\ closed THEN [ctx[c] EXCEPT !.peerClosing = FALSE] ELSE ctx[c]
<1>0. pcb \in [Ctx -> Pcbs \cup {NoPcb}] /\ ctx \in [Ctx -> Context] BY DEF Typed, TypeOK
<1>1. pcb' = [pcb EXCEPT ![c] = NoPcb] /\ ctx' = [ctx EXCEPT ![c] = FreeHttpContext(x)]
  BY DEF CloseHttpContext
<1>2. x \in Context
  <2>1. PICK b \in BOOLEAN : b = FALSE OBVIOUS
  <2> DEFINE y == [ctx[c] EXCEPT !.peerClosing = b]
  <2>2. ctx[c] \in Context BY <1>0
  <2>3. y \in Context BY <2>2 DEF Context
  <2>4. [ctx[c] EXCEPT !.peerClosing = FALSE] = y BY <2>1
  <2> HIDE DEF y
  <2>5. x = y \/ x = ctx[c] BY <2>4
  <2> HIDE DEF x
  <2> QED BY <2>2, <2>3, <2>5
<1> HIDE DEF x
<1>3. ctx'[c] = FreeHttpContext(x) BY <1>0, <1>1
<1> QED BY <1>0, <1>1, <1>2, <1>3, FreeFacts

(* A closed context is settled, inside a callback and after it.            *)
LEMMA CloseControl ==
    ASSUME Typed, Control, NEW c \in Ctx, NEW lk, NEW closed \in BOOLEAN,
           CloseHttpContext(c, lk, closed), frame = NoFrame \/ frame.c = c,
           frame' = NoFrame \/ (frame' # NoFrame /\ frame'.c = c /\ frame'.pc = "cancel")
    PROVE  Control'
<1>1. ASSUME NEW d \in Ctx
      PROVE  /\ Timed(ctx'[d], pcb'[d] # NoPcb)
             /\ frame' # NoFrame /\ frame'.c = d => Fit(frame'.pc, ctx'[d], pcb'[d] # NoPcb)
             /\ frame' = NoFrame \/ frame'.c # d => Ready(ctx'[d], pcb'[d] # NoPcb)
  <2>1. CASE d = c
    <3>1. (pcb'[d] # NoPcb) = FALSE BY <2>1, CloseFacts
    <3>2. Timed(ctx'[d], FALSE) /\ Ready(ctx'[d], FALSE) /\ Fit("cancel", ctx'[d], FALSE)
      BY <2>1, CloseFacts
    <3> QED BY <3>1, <3>2
  <2>2. CASE d # c
    <3>1. pcb'[d] = pcb[d] /\ ctx'[d] = ctx[d] BY <2>2, CloseFacts
    <3>2. Timed(ctx[d], pcb[d] # NoPcb) /\ Ready(ctx[d], pcb[d] # NoPcb) BY <2>2 DEF Control
    <3> QED BY <2>2, <3>1, <3>2
  <2> QED BY <2>1, <2>2
<1> QED BY <1>1 DEF Control

(* The five places that close a context.                                   *)
LEMMA CloseStepsControl ==
    ASSUME Typed, Control, NEW closed \in BOOLEAN,
           \/ \E p \in Pcbs : OnPeerCloseIdle(p, closed) \/ OnHttpPollTimeout(p, closed)
           \/ CloseAfterRequest(closed)
           \/ CloseIfAborted(closed)
    PROVE  Control'
<1>1. CASE \E p \in Pcbs : OnPeerCloseIdle(p, closed) \/ OnHttpPollTimeout(p, closed)
  <2>1. PICK p \in Pcbs : OnPeerCloseIdle(p, closed) \/ OnHttpPollTimeout(p, closed) BY <1>1
  <2>2. frame = NoFrame /\ frame' = NoFrame /\ arg[p] \in Ctx
    BY <2>1 DEF OnPeerCloseIdle, OnHttpPollTimeout, Typed, TypeOK
  <2>3. PICK lk : CloseHttpContext(arg[p], lk, closed)
    BY <2>1 DEF OnPeerCloseIdle, OnHttpPollTimeout
  <2> QED BY <2>2, <2>3, CloseControl
<1>2. CASE CloseAfterRequest(closed)
  <2>1. frame # NoFrame /\ frame.c \in Ctx /\ frame \in Frame
    BY <1>2, RunningFacts DEF CloseAfterRequest, At
  <2>2. frame' # NoFrame /\ frame'.c = frame.c /\ frame'.pc = "cancel"
    BY <1>2, <2>1, GotoFacts, LabelFacts DEF CloseAfterRequest
  <2>3. CloseHttpContext(frame.c, link, closed) BY <1>2 DEF CloseAfterRequest
  <2> QED BY <2>1, <2>2, <2>3, CloseControl
<1>3. CASE CloseIfAborted(closed)
  <2>1. frame # NoFrame /\ frame.c \in Ctx BY <1>3, RunningFacts DEF CloseIfAborted, At
  <2>2. frame' = NoFrame /\ CloseHttpContext(frame.c, link, closed) BY <1>3 DEF CloseIfAborted
  <2> QED BY <2>1, <2>2, CloseControl
<1> QED BY <1>1, <1>2, <1>3

-----------------------------------------------------------------------------
(* The events.                                                             *)

(* A callback starts on a context that is settled.                         *)
LEMMA EnterControl ==
    ASSUME Typed, Control, frame = NoFrame, pcb' = pcb, NEW c \in Ctx, NEW caller \in Callers,
           Enter(c, caller), NEW y, ctx' = [ctx EXCEPT ![c] = y],
           y.state = ctx[c].state, y.result = ctx[c].result, y.request = ctx[c].request,
           y.handler = ctx[c].handler, y.stage = ctx[c].stage, y.sending = ctx[c].sending,
           y.bytesLeft = ctx[c].bytesLeft, y.sendAge = ctx[c].sendAge,
           y.recvAge \in {0, ctx[c].recvAge}
    PROVE  Control'
<1>0. ctx \in [Ctx -> Context] BY DEF Typed, TypeOK
<1>1. frame' # NoFrame /\ frame'.c = c /\ frame'.pc = "loop"
  <2>1. frame' \in Frame /\ frame'.c = c /\ frame'.pc = "loop" BY LabelFacts DEF Enter, Frame
  <2> QED BY <2>1, FrameAssumption
<1>2. Timed(ctx[c], pcb[c] # NoPcb) /\ Settled(ctx[c]) BY DEF Control, Ready
<1>3. Timed(y, pcb[c] # NoPcb) BY <1>2 DEF Timed, Handled
<1>4. Receives(y) \/ Sends(y) BY <1>2 DEF Settled, Receives, Sends
<1>5. Fit("loop", y, pcb[c] # NoPcb) BY <1>4 DEF Fit
<1>6. ASSUME NEW d \in Ctx
      PROVE  /\ Timed(ctx'[d], pcb'[d] # NoPcb)
             /\ frame'.c = d => Fit(frame'.pc, ctx'[d], pcb'[d] # NoPcb)
             /\ frame'.c # d => Ready(ctx'[d], pcb'[d] # NoPcb)
  <2>1. CASE d = c
    <3>1. ctx'[d] = y BY <2>1, <1>0
    <3> QED BY <2>1, <3>1, <1>1, <1>3, <1>5
  <2>2. CASE d # c
    <3>1. ctx'[d] = ctx[d] BY <2>2, <1>0
    <3> QED BY <2>2, <3>1, <1>1 DEF Control
  <2> QED BY <2>1, <2>2
<1> QED BY <1>1, <1>6 DEF Control

(* Data, a FIN, a poll or an acknowledgement starts a callback.            *)
LEMMA CallbackControl ==
    ASSUME Typed, Control, NEW p \in Pcbs,
           \/ \E w \in Payloads : OnHttpReceive(p, w)
           \/ OnPeerClose(p)
           \/ OnHttpPoll(p)
           \/ \E n \in 1 .. SndBuf : OnHttpSent(p, n)
    PROVE  Control'
<1> DEFINE c == arg[p]
           x == ctx[c]
<1>0. /\ frame = NoFrame /\ pcb' = pcb /\ c \in Ctx /\ x \in Context /\ ctx \in [Ctx -> Context]
  BY DEF OnHttpReceive, OnPeerClose, OnHttpPoll, OnHttpSent, Pool, Typed, TypeOK
<1>1. CASE \E w \in Payloads : OnHttpReceive(p, w)
  <2>1. PICK w \in Payloads : OnHttpReceive(p, w) BY <1>1
  <2> DEFINE v == [x EXCEPT !.recvAge = 0]
             y == StoreReceived(v, w)
  <2>2. ctx' = [ctx EXCEPT ![c] = y] /\ Enter(c, "recv") BY <2>1 DEF OnHttpReceive
  <2>3. PICK a \in Ages : a = 0 BY Constants
  <2>4. v \in Context
    <3>1. [x EXCEPT !.recvAge = a] \in Context BY <1>0 DEF Context
    <3> QED BY <2>3, <3>1
  <2>5. /\ v.state = x.state /\ v.result = x.result /\ v.request = x.request
        /\ v.handler = x.handler /\ v.stage = x.stage /\ v.sending = x.sending
        /\ v.bytesLeft = x.bytesLeft /\ v.sendAge = x.sendAge /\ v.recvAge = 0
    BY <1>0 DEF Context
  <2> HIDE DEF v
  <2>6. /\ y.state = v.state /\ y.result = v.result /\ y.request = v.request
        /\ y.handler = v.handler /\ y.stage = v.stage /\ y.sending = v.sending
        /\ y.bytesLeft = v.bytesLeft /\ y.sendAge = v.sendAge /\ y.recvAge = v.recvAge
    BY <2>4 DEF StoreReceived, Context
  <2> HIDE DEF y
  <2>7. y.recvAge \in {0, x.recvAge} BY <2>5, <2>6
  <2>8. "recv" \in Callers BY DEF Callers
  <2> QED BY <1>0, <2>2, <2>5, <2>6, <2>7, <2>8, EnterControl
<1>2. CASE OnPeerClose(p)
  <2> DEFINE y == [x EXCEPT !.recvAge = 0, !.peerClosing = TRUE]
  <2>1. ctx' = [ctx EXCEPT ![c] = y] BY <1>0, <1>2 DEF OnPeerClose
  <2>2. Enter(c, "recv") /\ "recv" \in Callers BY <1>2 DEF OnPeerClose, Callers
  <2>3. /\ y.state = x.state /\ y.result = x.result /\ y.request = x.request
        /\ y.handler = x.handler /\ y.stage = x.stage /\ y.sending = x.sending
        /\ y.bytesLeft = x.bytesLeft /\ y.sendAge = x.sendAge /\ y.recvAge \in {0, x.recvAge}
    BY <1>0 DEF Context
  <2> HIDE DEF y
  <2> QED BY <1>0, <2>1, <2>2, <2>3, EnterControl
<1>3. CASE OnHttpPoll(p)
  <2>1. ctx' = [ctx EXCEPT ![c] = x] BY <1>0, <1>3 DEF OnHttpPoll
  <2>2. Enter(c, "poll") /\ "poll" \in Callers BY <1>3 DEF OnHttpPoll, Callers
  <2> QED BY <1>0, <2>1, <2>2, EnterControl
<1>4. CASE \E n \in 1 .. SndBuf : OnHttpSent(p, n)
  <2>1. PICK n \in 1 .. SndBuf : OnHttpSent(p, n) BY <1>4
  <2> DEFINE y == [x EXCEPT !.due = @ - n]
  <2>2. ctx' = [ctx EXCEPT ![c] = y] BY <1>0, <2>1 DEF OnHttpSent
  <2>3. Enter(c, "sent") /\ "sent" \in Callers BY <2>1 DEF OnHttpSent, Callers
  <2>4. /\ y.state = x.state /\ y.result = x.result /\ y.request = x.request
        /\ y.handler = x.handler /\ y.stage = x.stage /\ y.sending = x.sending
        /\ y.bytesLeft = x.bytesLeft /\ y.sendAge = x.sendAge /\ y.recvAge \in {0, x.recvAge}
    BY <1>0 DEF Context
  <2> HIDE DEF y
  <2> QED BY <1>0, <2>2, <2>3, <2>4, EnterControl
<1> QED BY <1>1, <1>2, <1>3, <1>4

(* What OnHttpAccept writes into the slot: nothing of its last user.       *)
LEMMA AcceptFacts ==
    ASSUME Typed, NEW p \in Pcbs, NEW a \in Addrs, OnHttpAccept(p, a)
    PROVE  LET c == GetHttpContext(a)
           IN  /\ c \in Ctx /\ pcb[c] = NoPcb
               /\ Timed(ctx'[c], TRUE) /\ Ready(ctx'[c], TRUE) /\ ctx'[c].ip = a
               /\ \A d \in Ctx : d # c => pcb'[d] = pcb[d] /\ ctx'[d] = ctx[d]
<1> DEFINE c == GetHttpContext(a)
           x == [ctx[c] EXCEPT !.queue = << >>, !.ends = << >>, !.offset = 0, !.peerClosing = FALSE]
           y == [ResetHttpContext(x) EXCEPT !.ip = a]
<1>0. pcb \in [Ctx -> Pcbs \cup {NoPcb}] /\ ctx \in [Ctx -> Context] BY DEF Typed, TypeOK
<1>1. c # NoCtx /\ pcb' = [pcb EXCEPT ![c] = p] /\ ctx' = [ctx EXCEPT ![c] = y]
  BY DEF OnHttpAccept
<1>2. c \in Ctx /\ pcb[c] = NoPcb BY <1>1, FreeSlot
<1>3. /\ y.state = IDLE /\ y.result = 0 /\ y.request = "none" /\ y.handler = "none"
      /\ y.stage = 0 /\ y.recvAge = 0 /\ y.peerClosing = FALSE /\ y.ip = a
  <2>1. ctx[c] \in Context BY <1>0, <1>2
  <2> QED BY <2>1 DEF ResetHttpContext, Context
<1> HIDE DEF y
<1>4. Settled(y) /\ Awaited(y) BY <1>3 DEF Settled, Receives, Examined, Awaited
<1>5. Timed(y, TRUE) /\ Ready(y, TRUE) BY <1>3, <1>4 DEF Timed, Handled, Ready
<1> HIDE DEF c
<1>6. ctx'[c] = y /\ \A d \in Ctx : d # c => pcb'[d] = pcb[d] /\ ctx'[d] = ctx[d]
  BY <1>0, <1>1, <1>2
<1>7. /\ c \in Ctx /\ pcb[c] = NoPcb
      /\ Timed(ctx'[c], TRUE) /\ Ready(ctx'[c], TRUE) /\ ctx'[c].ip = a
      /\ \A d \in Ctx : d # c => pcb'[d] = pcb[d] /\ ctx'[d] = ctx[d]
  BY <1>2, <1>3, <1>5, <1>6
<1> QED BY <1>7 DEF c

(* Between callbacks, contexts that are ready stay so if every one of them *)
(* is either left alone or made ready.                                     *)
LEMMA IdleControl ==
    ASSUME frame' = NoFrame,
           \A d \in Ctx : Timed(ctx'[d], pcb'[d] # NoPcb) /\ Ready(ctx'[d], pcb'[d] # NoPcb)
    PROVE  Control'
BY DEF Control

(* A new connection finds its context waiting for a request.               *)
LEMMA OnHttpAcceptControl ==
    ASSUME Typed, Control, NEW p \in Pcbs, NEW a \in Addrs, OnHttpAccept(p, a)
    PROVE  Control'
<1> DEFINE c == GetHttpContext(a)
<1>0. frame = NoFrame /\ frame' = NoFrame BY DEF OnHttpAccept
<1>1. /\ c \in Ctx /\ Timed(ctx'[c], TRUE) /\ Ready(ctx'[c], TRUE)
      /\ \A d \in Ctx : d # c => pcb'[d] = pcb[d] /\ ctx'[d] = ctx[d]
  BY AcceptFacts
<1> HIDE DEF c
<1>2. ASSUME NEW d \in Ctx
      PROVE  Timed(ctx'[d], pcb'[d] # NoPcb) /\ Ready(ctx'[d], pcb'[d] # NoPcb)
  <2>1. CASE d = c BY <2>1, <1>1 DEF Timed, Ready
  <2>2. CASE d # c BY <2>2, <1>0, <1>1 DEF Control
  <2> QED BY <2>1, <2>2
<1> QED BY <1>0, <1>2, IdleControl

(* A reset connection frees its context.                                   *)
LEMMA OnHttpErrorControl ==
    ASSUME Typed, Control, NEW p \in Pcbs, OnHttpError(p)
    PROVE  Control'
<1> DEFINE c == arg[p]
           z == FreeHttpContext(ctx[c])
<1>0. /\ frame = NoFrame /\ frame' = NoFrame /\ arg[p] \in Ctx \cup {NoCtx}
      /\ pcb \in [Ctx -> Pcbs \cup {NoPcb}] /\ ctx \in [Ctx -> Context]
  BY DEF OnHttpError, Typed, TypeOK
<1>1. \A d \in Ctx : Timed(ctx[d], pcb[d] # NoPcb) /\ Ready(ctx[d], pcb[d] # NoPcb)
  BY <1>0 DEF Control
<1>2. CASE c = NoCtx
  <2>1. pcb' = pcb /\ ctx' = ctx BY <1>2 DEF OnHttpError
  <2> QED BY <1>0, <1>1, <2>1, IdleControl
<1>3. CASE c # NoCtx
  <2>1. c \in Ctx /\ pcb' = [pcb EXCEPT ![c] = NoPcb] /\ ctx' = [ctx EXCEPT ![c] = z]
    BY <1>0, <1>3 DEF OnHttpError
  <2>2. Timed(z, FALSE) /\ Ready(z, FALSE) BY <1>0, <2>1, FreeFacts
  <2> HIDE DEF z, c
  <2>3. ASSUME NEW d \in Ctx
        PROVE  Timed(ctx'[d], pcb'[d] # NoPcb) /\ Ready(ctx'[d], pcb'[d] # NoPcb)
    <3>1. CASE d = c
      <4>1. ctx'[d] = z /\ (pcb'[d] # NoPcb) = FALSE BY <3>1, <1>0, <2>1
      <4> QED BY <4>1, <2>2
    <3>2. CASE d # c
      <4>1. ctx'[d] = ctx[d] /\ pcb'[d] = pcb[d] BY <3>2, <1>0, <2>1
      <4> QED BY <4>1, <1>1
    <3> QED BY <3>1, <3>2
  <2> QED BY <1>0, <2>3, IdleControl
<1> QED BY <1>2, <1>3

(* HttpdStop frees every context.                                          *)
LEMMA StopControl ==
    ASSUME Typed, HttpdStop
    PROVE  Control' /\ \A c \in Ctx : Clean(ctx'[c])
<1>0. /\ frame' = NoFrame /\ ctx \in [Ctx -> Context] /\ pcb' = [c \in Ctx |-> NoPcb]
      /\ ctx' = [c \in Ctx |-> FreeHttpContext(ctx[c])]
  BY DEF HttpdStop, Typed, TypeOK
<1>1. ASSUME NEW d \in Ctx
      PROVE  /\ Timed(ctx'[d], pcb'[d] # NoPcb) /\ Ready(ctx'[d], pcb'[d] # NoPcb)
             /\ Clean(ctx'[d])
  <2>1. ctx'[d] = FreeHttpContext(ctx[d]) /\ (pcb'[d] # NoPcb) = FALSE /\ ctx[d] \in Context
    BY <1>0
  <2>2. Timed(ctx'[d], FALSE) /\ Ready(ctx'[d], FALSE) /\ Clean(ctx'[d]) BY <2>1, FreeFacts
  <2> QED BY <2>1, <2>2
<1> QED BY <1>0, <1>1, IdleControl

(* Time starts no timer and stops none.                                    *)
LEMMA TickFacts ==
    ASSUME Typed, Tick, NEW c \in Ctx, NEW connected \in BOOLEAN
    PROVE  /\ Timed(ctx[c], connected) => Timed(ctx'[c], connected)
           /\ Ready(ctx[c], connected) => Ready(ctx'[c], connected)
           /\ Clean(ctx[c]) => Clean(ctx'[c])
           /\ ctx'[c].ip = ctx[c].ip
<1> DEFINE x == ctx[c]
           y == [x EXCEPT !.recvAge = Older(@), !.sendAge = Older(@)]
<1>0. x \in Context /\ ctx' = [d \in Ctx |-> [ctx[d] EXCEPT !.recvAge = Older(@),
                                                            !.sendAge = Older(@)]]
  BY DEF Tick, Typed, TypeOK
<1>1. ctx'[c] = y BY <1>0
<1>2. ASSUME NEW t \in Ages PROVE t # NoTime => Older(t) # NoTime
  BY SizesAssumption DEF Older, Ages, Least
<1>3. x.recvAge \in Ages /\ x.sendAge \in Ages BY <1>0 DEF Context
<1>4. /\ y.state = x.state /\ y.result = x.result /\ y.request = x.request
      /\ y.handler = x.handler /\ y.stage = x.stage /\ y.sending = x.sending
      /\ y.bytesLeft = x.bytesLeft /\ y.peerClosing = x.peerClosing
      /\ y.queue = x.queue /\ y.rx = x.rx /\ y.offset = x.offset /\ y.keepalive = x.keepalive
      /\ y.ip = x.ip
      /\ y.recvAge = Older(x.recvAge) /\ y.sendAge = Older(x.sendAge)
  BY <1>0 DEF Context
<1>5. (x.recvAge # NoTime => y.recvAge # NoTime) /\ (x.sendAge # NoTime => y.sendAge # NoTime)
  BY <1>2, <1>3, <1>4
<1> HIDE DEF x, y
<1>6. Timed(x, connected) => Timed(y, connected) BY <1>4, <1>5 DEF Timed, Handled
<1>7. Ready(x, connected) => Ready(y, connected)
  BY <1>4, <1>5 DEF Ready, Settled, Receives, Examined, Sends, Awaited
<1>8. Clean(x) => Clean(y) BY <1>4 DEF Clean
<1> QED BY <1>1, <1>4, <1>6, <1>7, <1>8 DEF x

(* The events that move no context keep Control.                           *)
LEMMA QuietEventsControl ==
    ASSUME Typed, Control,
           (\E p \in Pcbs : OnHttpPollDetached(p)) \/ HttpdInit \/ Tick \/ UNCHANGED vars
    PROVE  Control'
<1>1. CASE Tick
  <2>0. frame = NoFrame /\ frame' = NoFrame /\ pcb' = pcb BY <1>1 DEF Tick, Pool
  <2>1. ASSUME NEW d \in Ctx
        PROVE  Timed(ctx'[d], pcb'[d] # NoPcb) /\ Ready(ctx'[d], pcb'[d] # NoPcb)
    <3>1. Timed(ctx[d], pcb[d] # NoPcb) /\ Ready(ctx[d], pcb[d] # NoPcb) BY <2>0 DEF Control
    <3>2. (pcb[d] # NoPcb) \in BOOLEAN OBVIOUS
    <3> QED BY <1>1, <2>0, <3>1, <3>2, TickFacts
  <2> QED BY <2>0, <2>1, IdleControl
<1>2. CASE (\E p \in Pcbs : OnHttpPollDetached(p)) \/ HttpdInit \/ UNCHANGED vars
  <2>1. frame' = frame /\ pcb' = pcb /\ ctx' = ctx
    BY <1>2 DEF OnHttpPollDetached, HttpdInit, vars
  <2> QED BY <2>1 DEF Control
<1> QED BY <1>1, <1>2

-----------------------------------------------------------------------------
(* Contexts that no connection uses.                                       *)

Unused(c) == pcb[c] = NoPcb /\ \A p \in Pcbs : arg[p] # c

(* A connected context is named by its connection, before and after a      *)
(* restart; an unused one is clean; HttpRequestProc works on a used one.   *)
Cleaned ==
    /\ \A c \in Ctx : pcb[c] # NoPcb => open[pcb[c]] /\ arg[pcb[c]] = c
    /\ \A p \in Pcbs : arg[p] # NoCtx => open[p]
    /\ \A c \in Ctx : Unused(c) => Clean(ctx[c])
    /\ frame # NoFrame /\ frame.pc \notin {"cancel", "close"} => ~Unused(frame.c)

(* The steps of a callback that leave the pool alone.                      *)
Working ==
    \/ LoopHead \/ UnlinkPbuf \/ StartRequest \/ ParseLine \/ ParseEmptyLine \/ LinesExhausted
    \/ \E session, started \in BOOLEAN : AfterHeaders(session, started)
    \/ \E n \in 0 .. MaxReqBuf : ReceiveBody(n)
    \/ \E result \in Results : RequestReceived(result)
    \/ \E ok \in BOOLEAN : SendRemaining(ok)
    \/ \E ok \in BOOLEAN : SendHeader(ok)
    \/ HeaderSent \/ NoContent
    \/ \E out \in [n : -1 .. 1, stage : Stages, result : Results], ok \in BOOLEAN :
          LoadContent(out, ok)
    \/ KeepAfterRequest \/ LeaveRequest

(* What such a step may touch: its own context, and not the address.       *)
Local == /\ frame' # NoFrame /\ frame'.c = frame.c
         /\ \A d \in Ctx : d # frame.c => ctx'[d] = ctx[d]
         /\ ctx'[frame.c].ip = ctx[frame.c].ip

(* The tokens of each connection that the parser has not consumed, after n *)
(* more of the running callback's connection were.                         *)
StreamsAfter(n) ==
    \A p \in Pcbs : link'[p].stream = IF p = pcb[frame.c] THEN DropFirst(link[p].stream, n)
                                     ELSE link[p].stream
StreamsSame == \A p \in Pcbs : link'[p].stream = link[p].stream

(* The context and its connection lose the same tokens at their front.     *)
Reads == \E n \in Nat : /\ Pending(ctx'[frame.c]) = DropFirst(Pending(ctx[frame.c]), n)
                       /\ StreamsAfter(n)

(* A step that consumes nothing.                                           *)
SameInput(y, x) == /\ y.ip = x.ip /\ y.rx = x.rx
                   /\ y.queue = x.queue /\ y.offset = x.offset
LEMMA ReadsNothing ==
    ASSUME Typed, frame # NoFrame, Pending(ctx'[frame.c]) = Pending(ctx[frame.c]), StreamsSame
    PROVE  Reads
<1>1. Good(ctx[frame.c]) BY FrameFacts
<1>2. Pending(ctx'[frame.c]) = DropFirst(Pending(ctx[frame.c]), 0)
  BY <1>1, PendingParts, DropNothing
<1>3. StreamsAfter(0)
  <2>1. ASSUME NEW p \in Pcbs PROVE link'[p].stream = DropFirst(link[p].stream, 0)
    <3>1. link[p].stream \in Seq(Tokens) BY DEF Typed, TypeOK, Link
    <3> QED BY <3>1, DropNothing DEF StreamsSame
  <2> QED BY <2>1 DEF StreamsAfter, StreamsSame
<1> QED BY <1>2, <1>3 DEF Reads

(* Replacing the context of the callback by one with the same input.       *)
LEMMA PutLocal ==
    ASSUME Typed, frame # NoFrame, frame' # NoFrame, frame'.c = frame.c, NEW y,
           ctx' = [ctx EXCEPT ![frame.c] = y], SameInput(y, ctx[frame.c]), StreamsSame
    PROVE  Local /\ Reads
<1>1. frame.c \in Ctx BY FrameFacts
<1>2. ctx \in [Ctx -> Context] BY DEF Typed, TypeOK
<1>3. ctx'[frame.c] = y /\ \A d \in Ctx : d # frame.c => ctx'[d] = ctx[d] BY <1>1, <1>2
<1>4. Local BY <1>3 DEF Local, SameInput
<1>5. Pending(ctx'[frame.c]) = Pending(ctx[frame.c]) BY <1>3 DEF Pending, SameInput
<1> QED BY <1>4, <1>5, ReadsNothing

(* Leaving every context alone.                                            *)
LEMMA SameLocal ==
    ASSUME Typed, frame # NoFrame, frame' # NoFrame, frame'.c = frame.c, ctx' = ctx, StreamsSame
    PROVE  Local /\ Reads
BY ReadsNothing DEF Local

(* Consuming n tokens of the buffer.                                       *)
LEMMA ReadsSome ==
    ASSUME Typed, frame # NoFrame, frame' # NoFrame, frame'.c = frame.c, NEW y,
           ctx' = [ctx EXCEPT ![frame.c] = y], y.ip = ctx[frame.c].ip,
           NEW n \in Nat, n <= Len(ctx[frame.c].rx), y.rx = DropFirst(ctx[frame.c].rx, n),
           y.queue = ctx[frame.c].queue, y.offset = ctx[frame.c].offset,
           link' = Consumed(frame.c, n)
    PROVE  Local /\ Reads
<1>1. frame.c \in Ctx /\ Good(ctx[frame.c]) BY FrameFacts
<1>2. /\ ctx \in [Ctx -> Context] /\ link \in [Pcbs -> Link]
      /\ pcb \in [Ctx -> Pcbs \cup {NoPcb}]
  BY DEF Typed, TypeOK
<1>3. ctx'[frame.c] = y /\ \A d \in Ctx : d # frame.c => ctx'[d] = ctx[d] BY <1>1, <1>2
<1>4. Local BY <1>3 DEF Local
<1>5. Pending(ctx'[frame.c]) = DropFirst(Pending(ctx[frame.c]), n)
  BY <1>1, <1>3, ConsumePending
<1>6. StreamsAfter(n)
  <2>1. CASE pcb[frame.c] = NoPcb BY <2>1, NullAssumption DEF Consumed, StreamsAfter
  <2>2. CASE pcb[frame.c] # NoPcb
    <3> DEFINE q == pcb[frame.c]
    <3>1. q \in Pcbs /\ link' = [link EXCEPT ![q].stream = DropFirst(@, n)]
      BY <2>2, <1>1, <1>2 DEF Consumed
    <3> HIDE DEF q
    <3>2. link'[q].stream = DropFirst(link[q].stream, n) BY <3>1, <1>2 DEF Link
    <3>3. \A p \in Pcbs : p # q => link'[p] = link[p] BY <3>1, <1>2
    <3> QED BY <3>2, <3>3 DEF StreamsAfter, q
  <2> QED BY <2>1, <2>2
<1> QED BY <1>4, <1>5, <1>6 DEF Reads

(* A write changes what is unsent and the send timer.                      *)
LEMMA SendLocal ==
    ASSUME Typed, frame # NoFrame, NEW x \in Context, NEW ok \in BOOLEAN,
           NEW label \in {"content", "end"}, sendBuffered(frame.c, x, ok, label),
           SameInput(x, ctx[frame.c])
    PROVE  Local /\ Reads
<1>0. frame \in Frame /\ frame.c \in Ctx /\ Good(ctx[frame.c]) BY FrameFacts
<1>s. ASSUME link' = InFlight(frame.c, x) PROVE StreamsSame
  <2> DEFINE q == pcb[frame.c]
             n == ToWrite(frame.c, x)
  <2>1. link \in [Pcbs -> Link] BY DEF Typed, TypeOK
  <2>2. link' = link \/ link' = [link EXCEPT ![q].unacked = @ + n] BY <1>s DEF InFlight
  <2> HIDE DEF q, n
  <2>3. ASSUME NEW p \in Pcbs PROVE link'[p].stream = link[p].stream
    <3>1. link[p] \in Link BY <2>1
    <3>2. CASE p = q /\ link' = [link EXCEPT ![q].unacked = @ + n]
      <4>1. link'[p] = [link[p] EXCEPT !.unacked = link[p].unacked + n] BY <2>1, <3>2
      <4> QED BY <3>1, <4>1 DEF Link
    <3>3. CASE p # q \/ link' = link BY <2>1, <2>2, <3>3
    <3> QED BY <2>2, <3>2, <3>3
  <2> QED BY <2>3 DEF StreamsSame
<1>1. CASE /\ ctx' = [ctx EXCEPT ![frame.c] = Written(frame.c, x)] /\ Goto(label)
           /\ link' = InFlight(frame.c, x)
  <2>1. label \in Labels BY LabelFacts
  <2>2. frame' # NoFrame /\ frame'.c = frame.c BY <1>0, <1>1, <2>1, GotoFacts
  <2>3. SameInput(Written(frame.c, x), x) BY DEF Written, Context, SameInput
  <2>4. SameInput(Written(frame.c, x), ctx[frame.c]) BY <2>3 DEF SameInput
  <2>5. StreamsSame BY <1>1, <1>s
  <2> QED BY <1>1, <2>2, <2>4, <2>5, PutLocal
<1>2. CASE /\ ctx'   = [ctx EXCEPT ![frame.c] = [x EXCEPT !.state = REQUEST_END, !.result = -500]]
           /\ frame' = [frame EXCEPT !.pc = "end", !.failed = TRUE]
           /\ UNCHANGED link
  <2> DEFINE z == [x EXCEPT !.state = REQUEST_END, !.result = -500]
  <2>1. frame' \in Frame /\ frame'.c = frame.c BY <1>0, <1>2, LabelFacts DEF Frame
  <2>2. SameInput(z, x) BY DEF Context, SameInput
  <2>3. SameInput(z, ctx[frame.c]) BY <2>2 DEF SameInput
  <2>4. StreamsSame BY <1>2 DEF StreamsSame
  <2> HIDE DEF z
  <2>5. ctx' = [ctx EXCEPT ![frame.c] = z] BY <1>2 DEF z
  <2> QED BY <2>1, <2>3, <2>4, <2>5, FrameAssumption, PutLocal
<1> QED BY <1>1, <1>2 DEF sendBuffered

(* The receiving half works on the callback's context, and keeps or        *)
(* consumes what it holds in the order it came.                            *)
LEMMA ReceivingLocal ==
    ASSUME Typed,
           \/ LoopHead \/ UnlinkPbuf \/ ParseLine \/ ParseEmptyLine \/ LinesExhausted
           \/ \E n \in 0 .. MaxReqBuf : ReceiveBody(n)
    PROVE  Local /\ Reads
<1> DEFINE x == ctx[frame.c]
<1>0. frame # NoFrame /\ frame \in Frame /\ frame.c \in Ctx /\ Good(x)
  BY FrameFacts DEF LoopHead, UnlinkPbuf, ParseLine, ParseEmptyLine, LinesExhausted,
                    ReceiveBody, At
<1>t. /\ ctx \in [Ctx -> Context] /\ x \in Context /\ link \in [Pcbs -> Link]
      /\ pcb \in [Ctx -> Pcbs \cup {NoPcb}] /\ x.rx \in Seq(Tokens) /\ Len(x.rx) \in Nat
  BY <1>0, PendingParts DEF Typed, TypeOK
<1>g. ASSUME NEW label \in Labels, Goto(label) PROVE frame' # NoFrame /\ frame'.c = frame.c
  BY <1>0, <1>g, GotoFacts
<1>p. ASSUME NEW y, ctx' = [ctx EXCEPT ![frame.c] = y], y.ip = x.ip, Pending(y) = Pending(x),
             frame' # NoFrame, frame'.c = frame.c, StreamsSame
      PROVE  Local /\ Reads
  <2>1. ctx'[frame.c] = y /\ \A d \in Ctx : d # frame.c => ctx'[d] = ctx[d]
    BY <1>0, <1>t, <1>p
  <2>2. Local BY <1>p, <2>1 DEF Local
  <2> QED BY <1>0, <1>p, <2>1, <2>2, ReadsNothing
<1>1. CASE LoopHead
  <2>1. frame' # NoFrame /\ frame'.c = frame.c BY <1>1, <1>g, LabelFacts DEF LoopHead
  <2>2. Dequeue(x).ip = x.ip BY <1>t DEF Dequeue, Context
  <2>3. ctx' = ctx \/ ctx' = [ctx EXCEPT ![frame.c] = Dequeue(x)] BY <1>1 DEF LoopHead
  <2>4. Pending(Dequeue(x)) = Pending(x) BY <1>0, DequeuePending
  <2>5. StreamsSame BY <1>1 DEF LoopHead, StreamsSame
  <2>6. CASE ctx' = ctx BY <1>0, <2>1, <2>5, <2>6, SameLocal
  <2>7. CASE ctx' = [ctx EXCEPT ![frame.c] = Dequeue(x)] BY <1>p, <2>1, <2>2, <2>4, <2>5, <2>7
  <2> QED BY <2>3, <2>6, <2>7
<1>2. CASE UnlinkPbuf
  <2> DEFINE k == Head(x.ends)
             y == [x EXCEPT !.queue = DropFirst(@, Head(x.ends)),
                            !.ends = [i \in 1 .. Len(@) - 1 |-> @[i + 1] - Head(x.ends)],
                            !.offset = @ - Head(x.ends)]
  <2>1. frame' = frame /\ ctx' = [ctx EXCEPT ![frame.c] = y] BY <1>t, <1>0, <1>2 DEF UnlinkPbuf
  <2>2. /\ y.ip = x.ip /\ y.rx = x.rx /\ y.queue = DropFirst(x.queue, Head(x.ends))
        /\ y.offset = x.offset - Head(x.ends)
    BY <1>t DEF Context
  <2>3. PbufCopied(x) /\ link' = Recved(frame.c, k) BY <1>2 DEF UnlinkPbuf
  <2> HIDE DEF y, k
  <2>4. Pending(y) = Pending(x) BY <1>0, <2>2, <2>3, UnlinkPending
  <2>5. StreamsSame
    <3>1. CASE pcb[frame.c] = NoPcb BY <3>1, <2>3 DEF Recved, StreamsSame
    <3>2. CASE pcb[frame.c] # NoPcb
      <4> DEFINE q == pcb[frame.c]
      <4>1. q \in Pcbs /\ link' = [link EXCEPT ![q].unread = @ - k]
        BY <1>0, <1>t, <3>2, <2>3 DEF Recved
      <4> HIDE DEF q
      <4>2. link'[q].stream = link[q].stream BY <1>t, <4>1 DEF Link
      <4>3. \A p \in Pcbs : p # q => link'[p] = link[p] BY <1>t, <4>1
      <4> QED BY <4>2, <4>3 DEF StreamsSame
    <3> QED BY <3>1, <3>2
  <2> QED BY <1>0, <1>p, <2>1, <2>2, <2>4, <2>5
<1>4. CASE ParseLine
  <2> DEFINE h == HeaderLine(x, x.rx[1])
             n == FirstEol(x.rx)
             y == [h EXCEPT !.rx = DropFirst(@, n)]
             z == [x EXCEPT !.result = -500]
  <2>1. \/ ctx' = [ctx EXCEPT ![frame.c] = z] /\ Goto("end") /\ UNCHANGED link
        \/ /\ ctx' = [ctx EXCEPT ![frame.c] = y] /\ frame' = [frame EXCEPT !.parsed = TRUE]
           /\ link' = Consumed(frame.c, n)
    BY <1>t, <1>0, <1>4 DEF ParseLine
  <2>2. SameInput(z, x) BY <1>t DEF Context, SameInput
  <2>3. SameInput(h, x) /\ {"ip", "rx", "queue", "offset"} \subseteq DOMAIN h
    <3> DEFINE t == x.rx[1]
    <3>1. CASE x.request = "none" BY <1>t, <3>1 DEF HeaderLine, Context, SameInput
    <3>2. CASE x.request # "none" /\ t = "length"
      BY <1>t, <3>2 DEF HeaderLine, Context, SameInput
    <3>3. CASE x.request # "none" /\ t = "keepalive"
      BY <1>t, <3>3 DEF HeaderLine, Context, SameInput
    <3>4. CASE x.request # "none" /\ t = "close"
      BY <1>t, <3>4 DEF HeaderLine, Context, SameInput
    <3>5. CASE x.request # "none" /\ t \notin {"length", "keepalive", "close"}
      BY <1>t, <3>5 DEF HeaderLine, Context, SameInput
    <3> QED BY <3>1, <3>2, <3>3, <3>4, <3>5
  <2> HIDE DEF h
  <2>4. n \in Nat /\ n <= Len(x.rx)
    <3>1. HasLine(x.rx) BY <1>4 DEF ParseLine
    <3> QED BY <1>t, <3>1, FirstLine
  <2> HIDE DEF n
  <2>5. y.ip = x.ip /\ y.rx = DropFirst(x.rx, n) /\ y.queue = x.queue /\ y.offset = x.offset
    BY <2>3 DEF SameInput
  <2> HIDE DEF y, z
  <2>6. CASE ctx' = [ctx EXCEPT ![frame.c] = z] /\ Goto("end") /\ UNCHANGED link
    <3>1. frame' # NoFrame /\ frame'.c = frame.c BY <2>6, <1>g, LabelFacts
    <3>2. StreamsSame BY <2>6 DEF StreamsSame
    <3> QED BY <1>0, <2>2, <2>6, <3>1, <3>2, PutLocal
  <2>7. CASE /\ ctx' = [ctx EXCEPT ![frame.c] = y] /\ frame' = [frame EXCEPT !.parsed = TRUE]
             /\ link' = Consumed(frame.c, n)
    <3>1. frame' \in Frame /\ frame'.c = frame.c BY <1>0, <2>7 DEF Frame
    <3> QED BY <1>0, <2>4, <2>5, <2>7, <3>1, FrameAssumption, ReadsSome
  <2> QED BY <2>1, <2>6, <2>7
<1>5. CASE ParseEmptyLine
  <2> DEFINE y == [x EXCEPT !.state = HEADER_DONE, !.rx = DropFirst(@, 1),
                            !.sending = FALSE, !.due = 0, !.stage = 0, !.bytesLeft = 0,
                            !.result = IF x.request = "none" THEN -500 ELSE @]
  <2>1. /\ ctx' = [ctx EXCEPT ![frame.c] = y] /\ link' = Consumed(frame.c, 1)
        /\ HasLine(x.rx) /\ FirstEol(x.rx) = 1
    BY <1>5 DEF ParseEmptyLine
  <2>2. y.ip = x.ip /\ y.rx = DropFirst(x.rx, 1) /\ y.queue = x.queue /\ y.offset = x.offset
    BY <1>t DEF Context
  <2> HIDE DEF y
  <2>3. 1 \in Nat /\ 1 <= Len(x.rx) BY <1>t, <2>1, FirstLine
  <2>4. frame' # NoFrame /\ frame'.c = frame.c
    <3>1. (IF x.request = "none" THEN "end" ELSE "headers") \in Labels BY LabelFacts
    <3> QED BY <3>1, <1>5, <1>g DEF ParseEmptyLine
  <2> QED BY <1>0, <2>1, <2>2, <2>3, <2>4, ReadsSome
<1>6. CASE LinesExhausted
  <2> DEFINE n == IF ~frame.parsed /\ Len(x.rx) >= MaxReqBuf THEN Len(x.rx) \div 2 ELSE 0
             y == [x EXCEPT !.rx = DropFirst(@, n)]
             z == [y EXCEPT !.result = -500]
             l == IF x.queue # << >> THEN "loop" ELSE "end"
  <2>1. /\ \/ ctx' = [ctx EXCEPT ![frame.c] = z] /\ Goto("end")
           \/ ctx' = [ctx EXCEPT ![frame.c] = y] /\ Goto(l)
        /\ link' = Consumed(frame.c, n)
    BY <1>6 DEF LinesExhausted
  <2>2. n \in Nat /\ n <= Len(x.rx)
    <3> DEFINE m == Len(x.rx)
               h == m \div 2
    <3>1. m \in Nat BY <1>t
    <3>2. n = 0 \/ n = h BY Zenon
    <3> HIDE DEF m, n
    <3>3. h \in Nat /\ h <= m BY <3>1
    <3> HIDE DEF h
    <3>4. n \in Nat /\ n <= m BY <3>1, <3>2, <3>3
    <3> QED BY <3>4 DEF m
  <2> HIDE DEF n
  <2>3. /\ y.ip = x.ip /\ y.rx = DropFirst(x.rx, n) /\ y.queue = x.queue /\ y.offset = x.offset
        /\ z.ip = x.ip /\ z.rx = DropFirst(x.rx, n) /\ z.queue = x.queue /\ z.offset = x.offset
    BY <1>t DEF Context
  <2>4. l \in Labels BY LabelFacts
  <2> HIDE DEF y, z, l
  <2>5. frame' # NoFrame /\ frame'.c = frame.c BY <2>1, <2>4, <1>g, LabelFacts
  <2>6. PICK v \in {y, z} : ctx' = [ctx EXCEPT ![frame.c] = v] BY <2>1
  <2>7. v.ip = x.ip /\ v.rx = DropFirst(x.rx, n) /\ v.queue = x.queue /\ v.offset = x.offset
    BY <2>3
  <2> QED BY <1>0, <2>1, <2>2, <2>5, <2>6, <2>7, ReadsSome
<1>7. ASSUME NEW n \in 0 .. MaxReqBuf, ReceiveBody(n) PROVE Local /\ Reads
  <2> DEFINE y == [x EXCEPT !.contentReceived = @ + n, !.rx = DropFirst(@, n),
                            !.recvAge = IF x.handler = "auth" THEN @ ELSE 0]
             z == [y EXCEPT !.state = BODY_DONE, !.sendAge = 0]
             complete == y.contentReceived >= x.contentLength
             l == IF complete THEN "done" ELSE IF x.queue # << >> THEN "loop" ELSE "end"
  <2>1. /\ \/ n = 0 /\ ctx' = ctx /\ Goto("end")
           \/ ctx' = [ctx EXCEPT ![frame.c] = IF complete THEN z ELSE y] /\ Goto(l)
        /\ link' = Consumed(frame.c, n) /\ n \in ContentReceived(x)
    BY <1>7 DEF ReceiveBody
  <2>2. n \in Nat /\ n <= Len(x.rx)
    <3>1. n \in Nat BY SizesAssumption
    <3>2. x.contentLength \in Int /\ x.contentReceived \in Nat BY <1>t DEF Context
    <3>3. Least(x.contentLength - x.contentReceived, Len(x.rx)) <= Len(x.rx)
      BY <1>t, <3>2 DEF Least
    <3>4. n \in {0, Len(x.rx), Least(x.contentLength - x.contentReceived, Len(x.rx))}
      BY <2>1 DEF ContentReceived
    <3> QED BY <1>t, <3>1, <3>3, <3>4
  <2>3. l \in Labels BY LabelFacts
  <2>4. /\ y.ip = x.ip /\ y.rx = DropFirst(x.rx, n) /\ y.queue = x.queue /\ y.offset = x.offset
        /\ z.ip = x.ip /\ z.rx = DropFirst(x.rx, n) /\ z.queue = x.queue /\ z.offset = x.offset
    BY <1>t DEF Context
  <2> DEFINE v == IF complete THEN z ELSE y
  <2>5. v.ip = x.ip /\ v.rx = DropFirst(x.rx, n) /\ v.queue = x.queue /\ v.offset = x.offset
    <3> HIDE DEF complete, y, z
    <3> QED BY <2>4
  <2>6. \/ n = 0 /\ ctx' = [ctx EXCEPT ![frame.c] = x] /\ Goto("end")
        \/ ctx' = [ctx EXCEPT ![frame.c] = v] /\ Goto(l)
    <3> HIDE DEF complete, y, z, l
    <3>1. ctx = [ctx EXCEPT ![frame.c] = x] BY <1>0, <1>t
    <3> QED BY <2>1, <3>1
  <2> HIDE DEF complete, y, z, l, v
  <2>7. frame' # NoFrame /\ frame'.c = frame.c BY <1>g, <2>1, <2>3, LabelFacts
  <2>8. CASE n = 0 /\ ctx' = [ctx EXCEPT ![frame.c] = x]
    <3>1. x.rx = DropFirst(x.rx, n) BY <1>t, <2>8, DropNothing
    <3> QED BY <1>0, <2>1, <2>2, <2>7, <2>8, <3>1, ReadsSome
  <2>9. CASE ctx' = [ctx EXCEPT ![frame.c] = v]
    BY <1>0, <2>1, <2>2, <2>5, <2>7, <2>9, ReadsSome
  <2> QED BY <2>6, <2>8, <2>9
<1> QED BY <1>1, <1>2, <1>4, <1>5, <1>6, <1>7

(* The handlers and the response do too, and consume nothing.              *)
LEMMA AnsweringLocal ==
    ASSUME Typed,
           \/ \E session, started \in BOOLEAN : AfterHeaders(session, started)
           \/ StartRequest
           \/ \E result \in Results : RequestReceived(result)
           \/ HeaderSent \/ NoContent \/ KeepAfterRequest \/ LeaveRequest
    PROVE  Local /\ Reads
<1> DEFINE x == ctx[frame.c]
<1>0. frame # NoFrame /\ frame \in Frame /\ frame.c \in Ctx
  BY FrameFacts DEF AfterHeaders, StartRequest, RequestReceived, HeaderSent, NoContent,
                    KeepAfterRequest, LeaveRequest, At
<1>t. ctx \in [Ctx -> Context] /\ x \in Context BY <1>0 DEF Typed, TypeOK
<1>s. StreamsSame
  BY DEF AfterHeaders, StartRequest, RequestReceived, HeaderSent, NoContent, KeepAfterRequest,
         LeaveRequest, StreamsSame
<1>g. ASSUME NEW label \in Labels, Goto(label) PROVE frame' # NoFrame /\ frame'.c = frame.c
  BY <1>0, <1>g, GotoFacts
<1>1. ASSUME NEW session \in BOOLEAN, NEW started \in BOOLEAN, AfterHeaders(session, started)
      PROVE  Local /\ Reads
  <2> DEFINE r == HeadersResult(x, session, started)
             body == x.contentLength > 0
             y == [x EXCEPT !.result = r,
                            !.state = IF r < 0 THEN SENDING_HEADER
                                      ELSE IF body THEN BODY_RECEIVING ELSE BODY_DONE,
                            !.sendAge = IF body THEN @ ELSE 0]
             l == IF r < 0 THEN "response" ELSE IF body THEN "body" ELSE "done"
  <2>1. ctx' = [ctx EXCEPT ![frame.c] = y] /\ Goto(l) BY <1>1 DEF AfterHeaders
  <2>2. l \in Labels BY LabelFacts
  <2> HIDE DEF r, body
  <2>3. SameInput(y, x) BY <1>t DEF Context, SameInput
  <2> HIDE DEF y, l
  <2> QED BY <1>0, <1>s, <1>g, <2>1, <2>2, <2>3, PutLocal
<1>2. CASE StartRequest
  <2> DEFINE y == [x EXCEPT !.state = HEADER_RECEIVING, !.recvAge = 0, !.sendAge = NoTime]
             l == IF x.rx = << >> THEN "end"
                  ELSE IF x.state \in {IDLE, HEADER_RECEIVING} THEN "lines" ELSE "body"
  <2>1. ctx' = ctx \/ ctx' = [ctx EXCEPT ![frame.c] = y] BY <1>t, <1>0, <1>2 DEF StartRequest
  <2>2. l \in Labels /\ frame' = [frame EXCEPT !.parsed = FALSE, !.pc = l]
    BY <1>2, LabelFacts DEF StartRequest
  <2>3. SameInput(y, x) BY <1>t DEF Context, SameInput
  <2> HIDE DEF y, l
  <2>4. frame' \in Frame /\ frame'.c = frame.c BY <1>0, <2>2 DEF Frame
  <2> QED BY <1>0, <1>s, <2>1, <2>3, <2>4, FrameAssumption, PutLocal, SameLocal
<1>3. ASSUME NEW result \in Results, RequestReceived(result) PROVE Local /\ Reads
  <2> DEFINE y == [x EXCEPT !.result = result]
  <2>1. ctx' = [ctx EXCEPT ![frame.c] = y] BY <1>0, <1>t, <1>3 DEF RequestReceived
  <2>2. frame' # NoFrame /\ frame'.c = frame.c BY <1>g, <1>3, LabelFacts DEF RequestReceived
  <2>3. SameInput(y, x) BY <1>t DEF Context, SameInput
  <2> HIDE DEF y
  <2> QED BY <1>0, <1>s, <2>1, <2>2, <2>3, PutLocal
<1>4. CASE HeaderSent \/ NoContent
  <2>1. PICK s : ctx' = ctx \/ ctx' = [ctx EXCEPT ![frame.c] = [x EXCEPT !.state = s]]
    <3>1. ASSUME HeaderSent
          PROVE  \/ ctx' = ctx
                 \/ ctx' = [ctx EXCEPT ![frame.c] = [x EXCEPT !.state =
                              IF x.result < 0 THEN REQUEST_END ELSE SENDING_BODY]]
      BY <1>0, <1>t, <3>1 DEF HeaderSent
    <3>2. ASSUME NoContent
          PROVE  \/ ctx' = ctx
                 \/ ctx' = [ctx EXCEPT ![frame.c] = [x EXCEPT !.state = REQUEST_END]]
      BY <1>0, <1>t, <3>2 DEF NoContent
    <3> QED BY <1>4, <3>1, <3>2
  <2>2. frame' # NoFrame /\ frame'.c = frame.c
    BY <1>g, <1>4, LabelFacts DEF HeaderSent, NoContent
  <2> DEFINE y == [x EXCEPT !.state = s]
  <2>3. SameInput(y, x) BY <1>t DEF Context, SameInput
  <2>4. ctx' = ctx \/ ctx' = [ctx EXCEPT ![frame.c] = y] BY <2>1
  <2> HIDE DEF y
  <2> QED BY <1>0, <1>s, <2>2, <2>3, <2>4, PutLocal, SameLocal
<1>5. CASE KeepAfterRequest
  <2>1. ctx' = [ctx EXCEPT ![frame.c] = ResetHttpContext(x)] BY <1>5 DEF KeepAfterRequest
  <2>2. frame' # NoFrame /\ frame'.c = frame.c BY <1>g, <1>5, LabelFacts DEF KeepAfterRequest
  <2>3. SameInput(ResetHttpContext(x), x) BY <1>t DEF ResetHttpContext, Context, SameInput
  <2> QED BY <1>0, <1>s, <2>1, <2>2, <2>3, PutLocal
<1>6. CASE LeaveRequest
  <2> DEFINE y == [x EXCEPT !.result = -500]
  <2>1. ctx' = ctx \/ ctx' = [ctx EXCEPT ![frame.c] = y] BY <1>0, <1>t, <1>6 DEF LeaveRequest
  <2>2. frame' # NoFrame /\ frame'.c = frame.c BY <1>g, <1>6, LabelFacts DEF LeaveRequest
  <2>3. SameInput(y, x) BY <1>t DEF Context, SameInput
  <2> HIDE DEF y
  <2> QED BY <1>0, <1>s, <2>1, <2>2, <2>3, PutLocal, SameLocal
<1> QED BY <1>1, <1>2, <1>3, <1>4, <1>5, <1>6

(* And the three places that write.                                        *)
LEMMA WritingLocal ==
    ASSUME Typed, NEW ok \in BOOLEAN,
           \/ SendRemaining(ok) \/ SendHeader(ok)
           \/ \E out \in [n : -1 .. 1, stage : Stages, result : Results] : LoadContent(out, ok)
    PROVE  Local /\ Reads
<1> DEFINE x == ctx[frame.c]
<1>0. frame # NoFrame /\ frame \in Frame /\ frame.c \in Ctx /\ Good(x)
  BY FrameFacts DEF SendRemaining, SendHeader, LoadContent, At
<1>t. ctx \in [Ctx -> Context] /\ x \in Context BY <1>0 DEF Typed, TypeOK
<1>1. CASE SendRemaining(ok)
  <2>1. sendBuffered(frame.c, x, ok, "end") BY <1>1 DEF SendRemaining
  <2>2. SameInput(x, x) BY DEF SameInput
  <2> QED BY <1>0, <1>t, <2>1, <2>2, SendLocal
<1>2. CASE SendHeader(ok)
  <2> DEFINE s == IF x.result = CODE_REDIRECT THEN SENDING_BODY ELSE SENDING_HEADER
             y == [x EXCEPT !.stage = 0, !.sendAge = 0, !.bytesLeft = HeaderLen,
                            !.sending = ok, !.state = s]
  <2>1. sendBuffered(frame.c, y, ok, "content") BY <1>2 DEF SendHeader
  <2>2. s \in States BY Constants
  <2>3. y \in Context BY <1>0, <2>2, ResponseKeeps DEF Keeps, Good
  <2>4. SameInput(y, x) BY <1>t DEF Context, SameInput
  <2> HIDE DEF y
  <2> QED BY <1>0, <2>1, <2>3, <2>4, SendLocal
<1>3. ASSUME NEW out \in [n : -1 .. 1, stage : Stages, result : Results], LoadContent(out, ok)
      PROVE  Local /\ Reads
  <2> DEFINE y == [x EXCEPT !.stage = out.stage, !.result = out.result]
             v == [y EXCEPT !.bytesLeft = @ + out.n]
             z == [y EXCEPT !.state = REQUEST_END]
  <2>1. IF out.n > 0 THEN sendBuffered(frame.c, v, ok, "end")
        ELSE /\ ctx' = [ctx EXCEPT ![frame.c] = IF out.n < 0 THEN z ELSE y] /\ Goto("end")
             /\ UNCHANGED link
    BY <1>3 DEF LoadContent
  <2>2. out.n \in -1 .. 1 /\ out.stage \in Stages /\ out.result \in Results OBVIOUS
  <2>3. Keeps(y, x) BY <1>0, <2>2, StageKeeps
  <2>4. SameInput(v, x) /\ SameInput(y, x) /\ SameInput(z, x)
    BY <1>t DEF Context, SameInput
  <2>5. CASE out.n > 0
    <3>1. Keeps(v, y)
      <4> HIDE DEF y
      <4>1. out.n \in Nat BY <2>2, <2>5
      <4> QED BY <2>3, <4>1, BytesKeeps DEF Keeps
    <3>2. v \in Context BY <3>1 DEF Keeps, Good
    <3> HIDE DEF v
    <3> QED BY <1>0, <2>1, <2>4, <2>5, <3>2, SendLocal
  <2>6. CASE ~ (out.n > 0)
    <3> DEFINE u == IF out.n < 0 THEN z ELSE y
    <3>1. ctx' = [ctx EXCEPT ![frame.c] = u] /\ Goto("end") /\ UNCHANGED link
      BY <2>1, <2>6
    <3>2. SameInput(u, x) BY <2>4
    <3> HIDE DEF u
    <3>3. frame' # NoFrame /\ frame'.c = frame.c BY <1>0, <3>1, GotoFacts, LabelFacts
    <3>4. StreamsSame BY <3>1 DEF StreamsSame
    <3> QED BY <1>0, <3>1, <3>2, <3>3, <3>4, PutLocal
  <2> QED BY <2>5, <2>6
<1> QED BY <1>1, <1>2, <1>3

(* Every working step is local, reads in order and leaves the pool alone.  *)
LEMMA WorkingLocal ==
    ASSUME Typed, Working
    PROVE  /\ Local /\ Reads /\ UNCHANGED Pool
           /\ frame # NoFrame /\ frame.pc \notin {"cancel", "close"}
<1>1. Local /\ Reads BY ReceivingLocal, AnsweringLocal, WritingLocal DEF Working
<1>2. UNCHANGED Pool
  BY DEF Working, LoopHead, UnlinkPbuf, StartRequest, ParseLine, ParseEmptyLine, LinesExhausted,
         AfterHeaders, ReceiveBody, RequestReceived, SendRemaining, SendHeader, HeaderSent,
         NoContent, LoadContent, KeepAfterRequest, LeaveRequest
<1>3. frame # NoFrame /\ frame.pc \notin {"cancel", "close"}
  BY DEF Working, LoopHead, UnlinkPbuf, StartRequest, ParseLine, ParseEmptyLine, LinesExhausted,
         AfterHeaders, ReceiveBody, RequestReceived, SendRemaining, SendHeader, HeaderSent,
         NoContent, LoadContent, KeepAfterRequest, LeaveRequest, At
<1> QED BY <1>1, <1>2, <1>3

(* Work on a used context, or on one that is about to be left, keeps       *)
(* unused contexts clean.                                                  *)
LEMMA WorkingCleaned ==
    ASSUME Typed, Cleaned, Working
    PROVE  Cleaned'
<1>1. /\ Local /\ UNCHANGED Pool /\ frame # NoFrame /\ frame.pc \notin {"cancel", "close"}
  BY WorkingLocal
<1>2. ~Unused(frame.c) BY <1>1 DEF Cleaned
<1>3. \A c : Unused(c)' <=> Unused(c) BY <1>1 DEF Unused, Pool
<1>4. \A c \in Ctx : Unused(c) => Clean(ctx'[c])
  <2>1. ASSUME NEW c \in Ctx, Unused(c) PROVE Clean(ctx'[c])
    <3>1. c # frame.c BY <1>2, <2>1
    <3>2. ctx'[c] = ctx[c] BY <1>1, <3>1 DEF Local
    <3> QED BY <2>1, <3>2 DEF Cleaned
  <2> QED BY <2>1
<1>5. frame' # NoFrame => ~Unused(frame'.c) BY <1>1, <1>2 DEF Local
<1> QED BY <1>1, <1>3, <1>4, <1>5 DEF Cleaned, Pool

(* The steps that change neither the pool nor a context.                   *)
LEMMA StillCleaned ==
    ASSUME Typed, Cleaned, UNCHANGED <<open, arg, pcb>>,
           \A c \in Ctx : Clean(ctx[c]) => Clean(ctx'[c]),
           \/ frame' = NoFrame \/ frame' = frame
           \/ frame' # NoFrame /\ frame'.pc \in {"cancel", "close"}
    PROVE  Cleaned'
<1>1. \A c : Unused(c)' <=> Unused(c) BY DEF Unused
<1>2. \A c \in Ctx : Unused(c) => Clean(ctx'[c]) BY DEF Cleaned
<1>3. frame' # NoFrame /\ frame'.pc \notin {"cancel", "close"} => ~Unused(frame'.c)
  BY DEF Cleaned
<1> QED BY <1>1, <1>2, <1>3 DEF Cleaned

(* CGI_Cancel, the return, a restart of listening and the clock.           *)
LEMMA QuietStepsCleaned ==
    ASSUME Typed, Cleaned, CancelIfFailed \/ Return \/ HttpdInit \/ Tick \/ UNCHANGED vars
    PROVE  Cleaned'
<1>1. CASE CancelIfFailed
  <2>1. frame \in Frame BY <1>1, FrameFacts DEF CancelIfFailed, At
  <2>2. PICK b : frame' = [frame EXCEPT !.pc = "close", !.cancelled = b]
    BY <1>1 DEF CancelIfFailed
  <2>3. frame'.pc = "close" BY <2>1, <2>2 DEF Frame
  <2>4. UNCHANGED <<open, arg, pcb, ctx>> BY <1>1 DEF CancelIfFailed, Pool
  <2> QED BY <2>3, <2>4, StillCleaned
<1>2. CASE Return BY <1>2, StillCleaned DEF Return, Pool
<1>3. CASE HttpdInit BY <1>3, StillCleaned DEF HttpdInit
<1>4. CASE Tick
  <2>1. UNCHANGED <<open, arg, pcb>> /\ frame' = frame BY <1>4 DEF Tick, Pool
  <2>2. \A c \in Ctx : Clean(ctx[c]) => Clean(ctx'[c]) BY <1>4, TickFacts
  <2> QED BY <2>1, <2>2, StillCleaned
<1>5. CASE UNCHANGED vars BY <1>5, StillCleaned DEF vars
<1> QED BY <1>1, <1>2, <1>3, <1>4, <1>5

(* A callback runs on the context its connection names.                    *)
LEMMA CallbackCleaned ==
    ASSUME Typed, Cleaned, NEW p \in Pcbs,
           \/ \E w \in Payloads : OnHttpReceive(p, w)
           \/ OnPeerClose(p)
           \/ OnHttpPoll(p)
           \/ \E n \in 1 .. SndBuf : OnHttpSent(p, n)
    PROVE  Cleaned'
<1> DEFINE c == arg[p]
<1>1. /\ c \in Ctx /\ UNCHANGED Pool
      /\ \E caller : Enter(c, caller)
      /\ ctx \in [Ctx -> Context]
  BY DEF OnHttpReceive, OnPeerClose, OnHttpPoll, OnHttpSent, Typed, TypeOK
<1>2. \A d \in Ctx : d # c => ctx'[d] = ctx[d]
  BY <1>1 DEF OnHttpReceive, OnPeerClose, OnHttpPoll, OnHttpSent
<1>3. frame'.c = c BY <1>1 DEF Enter
<1>4. ~Unused(c) BY DEF Unused
<1>5. \A d : Unused(d)' <=> Unused(d) BY <1>1 DEF Unused, Pool
<1>6. \A d \in Ctx : Unused(d) => Clean(ctx'[d])
  <2>1. ASSUME NEW d \in Ctx, Unused(d) PROVE Clean(ctx'[d])
    <3>1. ctx'[d] = ctx[d] BY <1>2, <1>4, <2>1
    <3> QED BY <2>1, <3>1 DEF Cleaned
  <2> QED BY <2>1
<1> HIDE DEF c
<1> QED BY <1>1, <1>3, <1>4, <1>5, <1>6 DEF Cleaned, Pool

(* A closed context is clean; the connection it had named no other.        *)
LEMMA CloseCleaned ==
    ASSUME Typed, Cleaned, NEW c \in Ctx, NEW lk, NEW closed \in BOOLEAN,
           CloseHttpContext(c, lk, closed),
           frame' = NoFrame \/ (frame' # NoFrame /\ frame'.pc = "cancel")
    PROVE  Cleaned'
<1> DEFINE p == pcb[c]
<1>0. /\ pcb \in [Ctx -> Pcbs \cup {NoPcb}] /\ arg \in [Pcbs -> Ctx \cup {NoCtx}]
      /\ open \in [Pcbs -> BOOLEAN]
  BY DEF Typed, TypeOK
<1>1. /\ pcb'[c] = NoPcb /\ Clean(ctx'[c])
      /\ \A d \in Ctx : d # c => pcb'[d] = pcb[d] /\ ctx'[d] = ctx[d]
  BY CloseFacts
<1>2. p = NoPcb => open' = open /\ arg' = arg BY DEF CloseHttpContext
<1>3. p # NoPcb => arg' = [arg EXCEPT ![p] = NoCtx] /\ open' = [open EXCEPT ![p] = ~closed]
  BY DEF CloseHttpContext
<1>4. p # NoPcb => p \in Pcbs /\ arg[p] = c BY <1>0 DEF Cleaned
<1> HIDE DEF p
<1>5. \A q \in Pcbs : q # p => arg'[q] = arg[q] /\ open'[q] = open[q]
  BY <1>0, <1>2, <1>3, <1>4
<1>6. p # NoPcb => arg'[p] = NoCtx BY <1>0, <1>3, <1>4
<1>7. ASSUME NEW d \in Ctx, pcb'[d] # NoPcb PROVE open'[pcb'[d]] /\ arg'[pcb'[d]] = d
  <2>1. d # c /\ pcb'[d] = pcb[d] BY <1>1, <1>7
  <2>2. pcb[d] \in Pcbs /\ open[pcb[d]] /\ arg[pcb[d]] = d BY <1>0, <1>7, <2>1 DEF Cleaned
  <2>3. pcb[d] # p
    <3>1. CASE p = NoPcb BY <3>1, <2>2, NullAssumption
    <3>2. CASE p # NoPcb BY <3>2, <1>4, <2>1, <2>2
    <3> QED BY <3>1, <3>2
  <2> QED BY <1>5, <2>1, <2>2, <2>3
<1>8. ASSUME NEW q \in Pcbs, arg'[q] # NoCtx PROVE open'[q]
  <2>1. q # p
    <3>1. CASE p = NoPcb BY <3>1, NullAssumption
    <3>2. CASE p # NoPcb BY <3>2, <1>6, <1>8
    <3> QED BY <3>1, <3>2
  <2> QED BY <1>5, <1>8, <2>1 DEF Cleaned
<1>9. ASSUME NEW d \in Ctx, Unused(d)' PROVE Clean(ctx'[d])
  <2>1. CASE d = c BY <2>1, <1>1
  <2>2. CASE d # c
    <3>1. pcb[d] = NoPcb /\ ctx'[d] = ctx[d] BY <2>2, <1>1, <1>9 DEF Unused
    <3>2. ASSUME NEW q \in Pcbs PROVE arg[q] # d
      <4>1. CASE q = p
        <5>1. p # NoPcb BY <4>1, NullAssumption
        <5> QED BY <4>1, <5>1, <1>4, <2>2
      <4>2. CASE q # p
        <5>1. arg'[q] # d BY <1>9 DEF Unused
        <5> QED BY <4>2, <5>1, <1>5
      <4> QED BY <4>1, <4>2
    <3>3. Unused(d) BY <3>1, <3>2 DEF Unused
    <3> QED BY <3>1, <3>3 DEF Cleaned
  <2> QED BY <2>1, <2>2
<1> QED BY <1>7, <1>8, <1>9 DEF Cleaned

(* The five places that close a context.                                   *)
LEMMA CloseStepsCleaned ==
    ASSUME Typed, Cleaned, NEW closed \in BOOLEAN,
           \/ \E p \in Pcbs : OnPeerCloseIdle(p, closed) \/ OnHttpPollTimeout(p, closed)
           \/ CloseAfterRequest(closed)
           \/ CloseIfAborted(closed)
    PROVE  Cleaned'
<1>1. CASE \E p \in Pcbs : OnPeerCloseIdle(p, closed) \/ OnHttpPollTimeout(p, closed)
  <2>1. PICK p \in Pcbs : OnPeerCloseIdle(p, closed) \/ OnHttpPollTimeout(p, closed) BY <1>1
  <2>2. frame' = NoFrame /\ arg[p] \in Ctx
    BY <2>1 DEF OnPeerCloseIdle, OnHttpPollTimeout, Typed, TypeOK
  <2>3. PICK lk : CloseHttpContext(arg[p], lk, closed)
    BY <2>1 DEF OnPeerCloseIdle, OnHttpPollTimeout
  <2> QED BY <2>2, <2>3, CloseCleaned
<1>2. CASE CloseAfterRequest(closed)
  <2>1. frame \in Frame /\ frame.c \in Ctx BY <1>2, FrameFacts DEF CloseAfterRequest, At
  <2>2. frame' # NoFrame /\ frame'.pc = "cancel"
    BY <1>2, <2>1, GotoFacts, LabelFacts DEF CloseAfterRequest
  <2>3. CloseHttpContext(frame.c, link, closed) BY <1>2 DEF CloseAfterRequest
  <2> QED BY <2>1, <2>2, <2>3, CloseCleaned
<1>3. CASE CloseIfAborted(closed)
  <2>1. frame.c \in Ctx BY <1>3, FrameFacts DEF CloseIfAborted, At
  <2>2. frame' = NoFrame /\ CloseHttpContext(frame.c, link, closed) BY <1>3 DEF CloseIfAborted
  <2> QED BY <2>1, <2>2, CloseCleaned
<1> QED BY <1>1, <1>2, <1>3

(* The slot of a new connection is used from now on, no other one changes. *)
LEMMA OnHttpAcceptCleaned ==
    ASSUME Typed, Cleaned, NEW p \in Pcbs, NEW a \in Addrs, OnHttpAccept(p, a)
    PROVE  Cleaned'
<1> DEFINE c == GetHttpContext(a)
<1>0. /\ pcb \in [Ctx -> Pcbs \cup {NoPcb}] /\ arg \in [Pcbs -> Ctx \cup {NoCtx}]
      /\ open \in [Pcbs -> BOOLEAN]
  BY DEF Typed, TypeOK
<1>1. /\ c \in Ctx /\ pcb[c] = NoPcb
      /\ \A d \in Ctx : d # c => pcb'[d] = pcb[d] /\ ctx'[d] = ctx[d]
  BY AcceptFacts
<1>2. /\ ~open[p] /\ frame' = NoFrame /\ pcb' = [pcb EXCEPT ![c] = p]
      /\ arg' = [arg EXCEPT ![p] = c] /\ open' = [open EXCEPT ![p] = TRUE]
  BY DEF OnHttpAccept
<1> HIDE DEF c
<1>3. arg'[p] = c /\ open'[p] /\ pcb'[c] = p BY <1>0, <1>1, <1>2
<1>4. \A q \in Pcbs : q # p => arg'[q] = arg[q] /\ open'[q] = open[q] BY <1>0, <1>2
<1>5. ASSUME NEW d \in Ctx, pcb'[d] # NoPcb PROVE open'[pcb'[d]] /\ arg'[pcb'[d]] = d
  <2>1. CASE d = c BY <2>1, <1>3
  <2>2. CASE d # c
    <3>1. pcb'[d] = pcb[d] BY <2>2, <1>1
    <3>2. pcb[d] \in Pcbs /\ open[pcb[d]] /\ arg[pcb[d]] = d
      BY <1>0, <1>5, <3>1 DEF Cleaned
    <3>3. pcb[d] # p BY <1>2, <3>2
    <3> QED BY <1>4, <3>1, <3>2, <3>3
  <2> QED BY <2>1, <2>2
<1>6. ASSUME NEW q \in Pcbs, arg'[q] # NoCtx PROVE open'[q]
  BY <1>3, <1>4, <1>6 DEF Cleaned
<1>7. ASSUME NEW d \in Ctx, Unused(d)' PROVE Clean(ctx'[d])
  <2>1. d # c BY <1>3, <1>7 DEF Unused
  <2>2. pcb[d] = NoPcb /\ ctx'[d] = ctx[d] BY <2>1, <1>1, <1>7 DEF Unused
  <2>3. ASSUME NEW q \in Pcbs PROVE arg[q] # d
    <3>1. CASE q = p
      <4>1. arg[p] = NoCtx BY <1>2 DEF Cleaned
      <4> QED BY <3>1, <4>1, NullAssumption
    <3>2. CASE q # p BY <3>2, <1>4, <1>7 DEF Unused
    <3> QED BY <3>1, <3>2
  <2> QED BY <2>2, <2>3 DEF Cleaned, Unused
<1> QED BY <1>2, <1>5, <1>6, <1>7 DEF Cleaned

(* A reset connection leaves its context clean.                            *)
LEMMA OnHttpErrorCleaned ==
    ASSUME Typed, Cleaned, NEW p \in Pcbs, OnHttpError(p)
    PROVE  Cleaned'
<1> DEFINE c == arg[p]
           z == FreeHttpContext(ctx[c])
<1>0. /\ pcb \in [Ctx -> Pcbs \cup {NoPcb}] /\ arg \in [Pcbs -> Ctx \cup {NoCtx}]
      /\ open \in [Pcbs -> BOOLEAN] /\ ctx \in [Ctx -> Context]
      /\ frame' = NoFrame
  BY DEF OnHttpError, Typed, TypeOK
<1>1. arg' = [arg EXCEPT ![p] = NoCtx] /\ open' = [open EXCEPT ![p] = FALSE]
  BY DEF OnHttpError
<1>2. c = NoCtx => pcb' = pcb /\ ctx' = ctx BY DEF OnHttpError
<1>3. c # NoCtx => pcb' = [pcb EXCEPT ![c] = NoPcb] /\ ctx' = [ctx EXCEPT ![c] = z]
  BY DEF OnHttpError
<1>4. c # NoCtx => c \in Ctx /\ Clean(z) BY <1>0, FreeFacts
<1> HIDE DEF z
<1>5. \A q \in Pcbs : q # p => arg'[q] = arg[q] /\ open'[q] = open[q] BY <1>0, <1>1
<1>6. ASSUME NEW d \in Ctx, d # c PROVE pcb'[d] = pcb[d] /\ ctx'[d] = ctx[d]
  <2> HIDE DEF c
  <2>1. CASE c = NoCtx BY <2>1, <1>2
  <2>2. CASE c # NoCtx BY <2>2, <1>0, <1>3, <1>4, <1>6
  <2> QED BY <2>1, <2>2
<1>7. ASSUME NEW d \in Ctx, d = c PROVE pcb'[d] = NoPcb /\ Clean(ctx'[d])
  <2>1. c # NoCtx BY <1>7, NullAssumption
  <2> HIDE DEF c
  <2> QED BY <2>1, <1>0, <1>3, <1>4, <1>7
<1>8. ASSUME NEW d \in Ctx, pcb'[d] # NoPcb PROVE open'[pcb'[d]] /\ arg'[pcb'[d]] = d
  <2>1. d # c /\ pcb'[d] = pcb[d] BY <1>6, <1>7, <1>8
  <2>2. pcb[d] \in Pcbs /\ open[pcb[d]] /\ arg[pcb[d]] = d BY <1>0, <1>8, <2>1 DEF Cleaned
  <2>3. pcb[d] # p BY <2>1, <2>2
  <2> QED BY <1>5, <2>1, <2>2, <2>3
<1>9. ASSUME NEW q \in Pcbs, arg'[q] # NoCtx PROVE open'[q]
  <2>1. q # p BY <1>0, <1>1, <1>9
  <2> QED BY <1>5, <1>9, <2>1 DEF Cleaned
<1>10. ASSUME NEW d \in Ctx, Unused(d)' PROVE Clean(ctx'[d])
  <2>1. CASE d = c BY <2>1, <1>7
  <2>2. CASE d # c
    <3>1. pcb[d] = NoPcb /\ ctx'[d] = ctx[d] BY <2>2, <1>6, <1>10 DEF Unused
    <3>2. ASSUME NEW q \in Pcbs PROVE arg[q] # d
      <4>1. CASE q = p BY <4>1, <2>2
      <4>2. CASE q # p BY <4>2, <1>5, <1>10 DEF Unused
      <4> QED BY <4>1, <4>2
    <3> QED BY <3>1, <3>2 DEF Cleaned, Unused
  <2> QED BY <2>1, <2>2
<1> QED BY <1>0, <1>8, <1>9, <1>10 DEF Cleaned

(* HttpdStop cleans all contexts; a connection without one just goes.      *)
LEMMA StopCleaned ==
    ASSUME Typed, Cleaned, HttpdStop \/ \E p \in Pcbs : OnHttpPollDetached(p)
    PROVE  Cleaned'
<1>1. CASE HttpdStop
  <2>1. \A c \in Ctx : Clean(ctx'[c]) BY <1>1, StopControl
  <2>2. UNCHANGED <<open, arg, frame>> /\ frame = NoFrame /\ \A c \in Ctx : pcb'[c] = NoPcb
    BY <1>1 DEF HttpdStop
  <2> QED BY <2>1, <2>2 DEF Cleaned
<1>2. CASE \E p \in Pcbs : OnHttpPollDetached(p)
  <2>1. PICK p \in Pcbs : OnHttpPollDetached(p) BY <1>2
  <2>2. /\ UNCHANGED <<arg, pcb, ctx, frame>> /\ frame = NoFrame /\ arg[p] = NoCtx
        /\ open' = [open EXCEPT ![p] = FALSE] /\ open \in [Pcbs -> BOOLEAN]
        /\ pcb \in [Ctx -> Pcbs \cup {NoPcb}]
    BY <2>1 DEF OnHttpPollDetached, Typed, TypeOK
  <2>3. \A q \in Pcbs : q # p => open'[q] = open[q] BY <2>2
  <2>4. ASSUME NEW c \in Ctx, pcb[c] # NoPcb PROVE open'[pcb[c]] /\ arg[pcb[c]] = c
    <3>1. pcb[c] \in Pcbs /\ open[pcb[c]] /\ arg[pcb[c]] = c BY <2>2, <2>4 DEF Cleaned
    <3>2. pcb[c] # p BY <2>2, <3>1, NullAssumption
    <3> QED BY <2>3, <3>1, <3>2
  <2>5. ASSUME NEW q \in Pcbs, arg[q] # NoCtx PROVE open'[q]
    BY <2>2, <2>3, <2>5 DEF Cleaned
  <2>6. \A c : Unused(c)' <=> Unused(c) BY <2>2 DEF Unused
  <2> QED BY <2>2, <2>4, <2>5, <2>6 DEF Cleaned
<1> QED BY <1>1, <1>2

-----------------------------------------------------------------------------
(* The limit per address.                                                  *)

(* Every step but OnHttpAccept keeps the connection and the address of     *)
(* each context that stays connected.                                      *)
Retained == \A d \in Ctx : pcb'[d] # NoPcb => pcb'[d] = pcb[d] /\ ctx'[d].ip = ctx[d].ip

(* The steps of a callback retain.                                         *)
LEMMA StepRetained ==
    ASSUME Typed, Step
    PROVE  Retained
<1>1. CASE Working
  <2>1. Local /\ UNCHANGED Pool BY <1>1, WorkingLocal
  <2> QED BY <2>1 DEF Local, Pool, Retained
<1>2. CASE CancelIfFailed \/ Return BY <1>2 DEF CancelIfFailed, Return, Pool, Retained
<1>3. CASE \E closed \in BOOLEAN : CloseAfterRequest(closed) \/ CloseIfAborted(closed)
  <2>1. PICK closed \in BOOLEAN : CloseHttpContext(frame.c, link, closed) /\ frame # NoFrame
    BY <1>3 DEF CloseAfterRequest, CloseIfAborted, At
  <2>2. frame.c \in Ctx BY <2>1, FrameFacts
  <2>3. /\ pcb'[frame.c] = NoPcb
        /\ \A d \in Ctx : d # frame.c => pcb'[d] = pcb[d] /\ ctx'[d] = ctx[d]
    BY <2>1, <2>2, CloseFacts
  <2> QED BY <2>3 DEF Retained
<1> QED BY <1>1, <1>2, <1>3 DEF Step, Working

(* The events other than OnHttpAccept retain.                              *)
LEMMA EventRetained ==
    ASSUME Typed, Event, ~ \E p \in Pcbs, a \in Addrs : OnHttpAccept(p, a)
    PROVE  Retained
<1>t. ctx \in [Ctx -> Context] /\ pcb \in [Ctx -> Pcbs \cup {NoPcb}]
      /\ arg \in [Pcbs -> Ctx \cup {NoCtx}]
  BY DEF Typed, TypeOK
<1>p. ASSUME NEW c \in Ctx, NEW y, pcb' = pcb, ctx' = [ctx EXCEPT ![c] = y], y.ip = ctx[c].ip
      PROVE  Retained
  BY <1>t, <1>p DEF Retained
<1>1. ASSUME NEW p \in Pcbs, NEW w \in Payloads, OnHttpReceive(p, w) PROVE Retained
  <2> DEFINE c == arg[p]
             v == [ctx[c] EXCEPT !.recvAge = 0]
             y == StoreReceived(v, w)
  <2>1. c \in Ctx /\ pcb' = pcb /\ ctx' = [ctx EXCEPT ![c] = y]
    BY <1>t, <1>1 DEF OnHttpReceive, Pool
  <2>2. ctx[c] \in Context BY <1>t, <2>1
  <2>3. PICK a \in Ages : a = 0 BY Constants
  <2>4. v \in Context /\ v.ip = ctx[c].ip
    <3>1. [ctx[c] EXCEPT !.recvAge = a] \in Context BY <2>2 DEF Context
    <3>2. v.ip = ctx[c].ip BY <2>2 DEF Context
    <3> QED BY <2>3, <3>1, <3>2
  <2> HIDE DEF v
  <2>5. y.ip = v.ip BY <2>4 DEF StoreReceived, Context
  <2> HIDE DEF y, c
  <2> QED BY <1>p, <2>1, <2>4, <2>5
<1>2. ASSUME NEW p \in Pcbs, OnPeerClose(p) PROVE Retained
  <2> DEFINE c == arg[p]
             y == [ctx[c] EXCEPT !.recvAge = 0, !.peerClosing = TRUE]
  <2>1. c \in Ctx BY <1>t, <1>2 DEF OnPeerClose
  <2>2. pcb' = pcb /\ ctx' = [ctx EXCEPT ![c] = y]
    BY <1>t, <1>2, <2>1 DEF OnPeerClose, Pool
  <2>3. ctx[c] \in Context BY <1>t, <2>1
  <2>4. y.ip = ctx[c].ip BY <2>3 DEF Context
  <2> HIDE DEF y, c
  <2> QED BY <1>p, <2>1, <2>2, <2>4
<1>3. ASSUME NEW p \in Pcbs, NEW closed \in BOOLEAN,
             OnPeerCloseIdle(p, closed) \/ OnHttpPollTimeout(p, closed)
      PROVE  Retained
  <2>1. arg[p] \in Ctx BY <1>t, <1>3 DEF OnPeerCloseIdle, OnHttpPollTimeout
  <2>2. PICK lk : CloseHttpContext(arg[p], lk, closed)
    BY <1>3 DEF OnPeerCloseIdle, OnHttpPollTimeout
  <2>3. /\ pcb'[arg[p]] = NoPcb
        /\ \A d \in Ctx : d # arg[p] => pcb'[d] = pcb[d] /\ ctx'[d] = ctx[d]
    BY <2>1, <2>2, CloseFacts
  <2> QED BY <2>3 DEF Retained
<1>4. ASSUME NEW p \in Pcbs, OnHttpPoll(p) \/ OnHttpPollDetached(p) PROVE Retained
  BY <1>4 DEF OnHttpPoll, OnHttpPollDetached, Pool, Retained
<1>5. ASSUME NEW p \in Pcbs, NEW n \in 1 .. SndBuf, OnHttpSent(p, n) PROVE Retained
  <2> DEFINE c == arg[p]
             y == [ctx[c] EXCEPT !.due = @ - n]
  <2>1. c \in Ctx BY <1>t, <1>5 DEF OnHttpSent
  <2>2. pcb' = pcb /\ ctx' = [ctx EXCEPT ![c] = y]
    BY <1>t, <1>5, <2>1 DEF OnHttpSent, Pool
  <2>3. ctx[c] \in Context BY <1>t, <2>1
  <2>4. y.ip = ctx[c].ip BY <2>3 DEF Context
  <2> HIDE DEF y, c
  <2> QED BY <1>p, <2>1, <2>2, <2>4
<1>6. ASSUME NEW p \in Pcbs, OnHttpError(p) PROVE Retained
  <2>1. CASE arg[p] = NoCtx BY <1>6, <2>1 DEF OnHttpError, Retained
  <2>2. CASE arg[p] # NoCtx
    <3>1. arg[p] \in Ctx BY <1>t, <2>2
    <3>2. PICK z : pcb' = [pcb EXCEPT ![arg[p]] = NoPcb] /\ ctx' = [ctx EXCEPT ![arg[p]] = z]
      BY <1>6, <2>2 DEF OnHttpError
    <3> QED BY <1>t, <3>1, <3>2 DEF Retained
  <2> QED BY <2>1, <2>2
<1>7. CASE HttpdStop BY <1>7 DEF HttpdStop, Retained
<1>8. CASE HttpdInit BY <1>8 DEF HttpdInit, Retained
<1>9. CASE Tick
  <2>1. pcb' = pcb BY <1>9 DEF Tick, Pool
  <2>2. \A d \in Ctx : ctx'[d].ip = ctx[d].ip BY <1>9, TickFacts
  <2> QED BY <2>1, <2>2 DEF Retained
<1> QED BY <1>1, <1>2, <1>3, <1>4, <1>5, <1>6, <1>7, <1>8, <1>9 DEF Event

(* The contexts a connection from address b owns, and how many.            *)
Owned(b) == {c \in Ctx : pcb[c] # NoPcb /\ ctx[c].ip = b}
Limited  == MaxConnPerIp > 0 => \A a \in Addrs : Cardinality(Owned(a)) <= MaxConnPerIp

(* Sets of contexts are finite.                                            *)
LEMMA FinitePool ==
    ASSUME NEW S \in SUBSET Ctx
    PROVE  IsFiniteSet(S) /\ Cardinality(S) \in Nat
<1>1. 0 \in Int /\ MaxConnections - 1 \in Int BY SizesAssumption
<1>2. IsFiniteSet(Ctx) BY <1>1, FS_Interval DEF Ctx
<1>3. IsFiniteSet(S) BY <1>2, FS_Subset
<1> QED BY <1>3, FS_CardinalityType

(* A step that retains gives no address another context.                   *)
LEMMA RetainedLimited ==
    ASSUME Limited, Retained
    PROVE  Limited'
<1>1. ASSUME NEW a \in Addrs, MaxConnPerIp > 0 PROVE Cardinality(Owned(a)') <= MaxConnPerIp
  <2>1. Owned(a)' \subseteq Owned(a) BY DEF Owned, Retained
  <2>2. Owned(a) \in SUBSET Ctx /\ Owned(a)' \in SUBSET Ctx BY DEF Owned
  <2>3. IsFiniteSet(Owned(a)) /\ Cardinality(Owned(a)) \in Nat BY <2>2, FinitePool
  <2>4. Cardinality(Owned(a)') \in Nat BY <2>2, FinitePool
  <2>5. Cardinality(Owned(a)') <= Cardinality(Owned(a)) BY <2>1, <2>3, FS_Subset
  <2>6. Cardinality(Owned(a)) <= MaxConnPerIp BY <1>1 DEF Limited
  <2> QED BY <2>3, <2>4, <2>5, <2>6, SizesAssumption
<1> QED BY <1>1 DEF Limited

(* GetHttpContext counts before it gives a slot away.                      *)
LEMMA AcceptLimited ==
    ASSUME Typed, Limited, NEW p \in Pcbs, NEW a \in Addrs, OnHttpAccept(p, a)
    PROVE  Limited'
<1> DEFINE c == GetHttpContext(a)
<1>1. /\ c \in Ctx /\ pcb[c] = NoPcb /\ ctx'[c].ip = a
      /\ \A d \in Ctx : d # c => pcb'[d] = pcb[d] /\ ctx'[d] = ctx[d]
  BY AcceptFacts
<1>2. c # NoCtx BY DEF OnHttpAccept
<1>3. MaxConnPerIp > 0 => ~(Cardinality(Owned(a)) >= MaxConnPerIp)
  BY <1>2 DEF GetHttpContext, Owned
<1> HIDE DEF c
<1>4. ASSUME NEW b \in Addrs, MaxConnPerIp > 0 PROVE Cardinality(Owned(b)') <= MaxConnPerIp
  <2>0. Owned(b) \in SUBSET Ctx /\ Owned(b)' \in SUBSET Ctx BY DEF Owned
  <2>1. /\ IsFiniteSet(Owned(b)) /\ Cardinality(Owned(b)) \in Nat
        /\ Cardinality(Owned(b)') \in Nat
    BY <2>0, FinitePool
  <2>2. Cardinality(Owned(b)) <= MaxConnPerIp BY <1>4 DEF Limited
  <2>3. CASE b = a
    <3>1. Owned(b)' \subseteq Owned(b) \cup {c}
      <4>1. ASSUME NEW d \in Owned(b)' PROVE d \in Owned(b) \cup {c}
        <5>1. d \in Ctx /\ pcb'[d] # NoPcb /\ ctx'[d].ip = b BY <4>1 DEF Owned
        <5> QED BY <5>1, <1>1 DEF Owned
      <4> QED BY <4>1
    <3>2. c \notin Owned(b) BY <1>1 DEF Owned
    <3>3. /\ IsFiniteSet(Owned(b) \cup {c})
          /\ Cardinality(Owned(b) \cup {c}) = Cardinality(Owned(b)) + 1
      BY <2>1, <3>2, FS_AddElement
    <3>4. Cardinality(Owned(b)') <= Cardinality(Owned(b) \cup {c}) BY <3>1, <3>3, FS_Subset
    <3>5. ~(Cardinality(Owned(b)) >= MaxConnPerIp) BY <1>3, <1>4, <2>3
    <3> QED BY <2>1, <3>3, <3>4, <3>5, SizesAssumption
  <2>4. CASE b # a
    <3>1. Owned(b)' \subseteq Owned(b)
      <4>1. ASSUME NEW d \in Owned(b)' PROVE d \in Owned(b)
        <5>1. d \in Ctx /\ pcb'[d] # NoPcb /\ ctx'[d].ip = b BY <4>1 DEF Owned
        <5>2. d # c BY <5>1, <1>1, <2>4
        <5> QED BY <5>1, <5>2, <1>1 DEF Owned
      <4> QED BY <4>1
    <3>2. Cardinality(Owned(b)') <= Cardinality(Owned(b)) BY <2>1, <3>1, FS_Subset
    <3> QED BY <2>1, <2>2, <3>2, SizesAssumption
  <2> QED BY <2>3, <2>4
<1> QED BY <1>4 DEF Limited

-----------------------------------------------------------------------------
(* The order of the input.                                                 *)

(* What the peer sent and the parser has not consumed is what the context  *)
(* holds.                                                                  *)
InOrder(c) == pcb[c] # NoPcb => link[pcb[c]].stream = Pending(ctx[c])
Ordered    == restarts = 0 => \A c \in Ctx : InOrder(c)

(* Different contexts have different connections.                          *)
LEMMA Distinct ==
    ASSUME Typed, Cleaned, NEW c \in Ctx, NEW d \in Ctx, d # c, pcb[d] # NoPcb
    PROVE  pcb[d] \in Pcbs /\ pcb[d] # pcb[c]
<1>1. pcb[d] \in Pcbs /\ arg[pcb[d]] = d BY DEF Cleaned, Typed, TypeOK
<1>2. pcb[c] # NoPcb => arg[pcb[c]] = c BY DEF Cleaned
<1> QED BY <1>1, <1>2

(* A step that changes one context and the stream of its connection.       *)
LEMMA OneOrdered ==
    ASSUME Typed, Cleaned, Ordered, restarts' = restarts, NEW c \in Ctx,
           \A d \in Ctx : d # c => pcb'[d] = pcb[d] /\ ctx'[d] = ctx[d],
           \A p \in Pcbs : p # pcb[c] => link'[p].stream = link[p].stream,
           restarts = 0 /\ pcb'[c] # NoPcb => link'[pcb'[c]].stream = Pending(ctx'[c])
    PROVE  Ordered'
<1> SUFFICES ASSUME restarts = 0, NEW d \in Ctx PROVE InOrder(d)'
  BY DEF Ordered
<1>1. CASE d = c BY <1>1 DEF InOrder
<1>2. CASE d # c
  <2>1. pcb'[d] = pcb[d] /\ ctx'[d] = ctx[d] BY <1>2
  <2>2. Pending(ctx'[d]) = Pending(ctx[d]) BY <2>1
  <2>3. pcb[d] # NoPcb => link'[pcb[d]].stream = link[pcb[d]].stream BY <1>2, Distinct
  <2> QED BY <2>1, <2>2, <2>3 DEF Ordered, InOrder
<1> QED BY <1>1, <1>2

(* A step that moves no input at all.                                      *)
LEMMA SameOrdered ==
    ASSUME Typed, Ordered, restarts' = restarts,
           \A d \in Ctx : pcb'[d] = pcb[d] /\ Pending(ctx'[d]) = Pending(ctx[d]), StreamsSame
    PROVE  Ordered'
<1> SUFFICES ASSUME restarts = 0, NEW d \in Ctx, pcb[d] # NoPcb
             PROVE  link'[pcb[d]].stream = Pending(ctx'[d])
  BY DEF Ordered, InOrder
<1>1. pcb[d] \in Pcbs BY DEF Typed, TypeOK
<1> QED BY <1>1 DEF Ordered, InOrder, StreamsSame

(* The steps of HttpRequestProc take input from the front only.            *)
LEMMA WorkingOrdered ==
    ASSUME Typed, Cleaned, Ordered, Working
    PROVE  Ordered'
<1> DEFINE c == frame.c
<1>1. Local /\ Reads /\ UNCHANGED Pool /\ frame # NoFrame BY WorkingLocal
<1>2. PICK n \in Nat : Pending(ctx'[c]) = DropFirst(Pending(ctx[c]), n) /\ StreamsAfter(n)
  BY <1>1 DEF Reads
<1>3. c \in Ctx BY <1>1, FrameFacts
<1>4. restarts' = restarts /\ pcb' = pcb BY <1>1 DEF Pool
<1>5. \A p \in Pcbs : p # pcb[c] => link'[p].stream = link[p].stream
  BY <1>2 DEF StreamsAfter
<1>6. restarts = 0 /\ pcb'[c] # NoPcb => link'[pcb'[c]].stream = Pending(ctx'[c])
  <2> SUFFICES ASSUME restarts = 0, pcb[c] # NoPcb PROVE link'[pcb[c]].stream = Pending(ctx'[c])
    BY <1>4
  <2>1. pcb[c] \in Pcbs BY <1>3 DEF Typed, TypeOK
  <2>2. link'[pcb[c]].stream = DropFirst(link[pcb[c]].stream, n)
    BY <1>2, <2>1 DEF StreamsAfter
  <2>3. link[pcb[c]].stream = Pending(ctx[c]) BY <1>3 DEF Ordered, InOrder
  <2> QED BY <1>2, <2>2, <2>3
<1>7. \A d \in Ctx : d # c => pcb'[d] = pcb[d] /\ ctx'[d] = ctx[d]
  BY <1>1, <1>4 DEF Local
<1> HIDE DEF c
<1> QED BY <1>3, <1>4, <1>5, <1>6, <1>7, OneOrdered

(* A closed connection takes its input with it.                            *)
LEMMA CloseOrdered ==
    ASSUME Typed, Cleaned, Ordered, NEW c \in Ctx, NEW lk \in [Pcbs -> Link],
           NEW closed \in BOOLEAN, CloseHttpContext(c, lk, closed),
           \A p \in Pcbs : lk[p].stream = link[p].stream
    PROVE  Ordered'
<1>1. /\ pcb'[c] = NoPcb
      /\ \A d \in Ctx : d # c => pcb'[d] = pcb[d] /\ ctx'[d] = ctx[d]
  BY CloseFacts
<1>2. restarts' = restarts BY DEF CloseHttpContext
<1>3. link' = lk \/ link' = [lk EXCEPT ![pcb[c]] = Unlinked] BY DEF CloseHttpContext
<1>4. \A p \in Pcbs : p # pcb[c] => link'[p] = lk[p] BY <1>3
<1> QED BY <1>1, <1>2, <1>4, OneOrdered

LEMMA CloseStepsOrdered ==
    ASSUME Typed, Cleaned, Ordered, NEW closed \in BOOLEAN,
           \/ \E p \in Pcbs : OnPeerCloseIdle(p, closed) \/ OnHttpPollTimeout(p, closed)
           \/ CloseAfterRequest(closed)
           \/ CloseIfAborted(closed)
    PROVE  Ordered'
<1>t. link \in [Pcbs -> Link] /\ arg \in [Pcbs -> Ctx \cup {NoCtx}] BY DEF Typed, TypeOK
<1>1. ASSUME NEW p \in Pcbs, OnPeerCloseIdle(p, closed) PROVE Ordered'
  <2>1. PICK b \in BOOLEAN : b = TRUE OBVIOUS
  <2> DEFINE l == [link[p] EXCEPT !.fin = b]
             lk == [link EXCEPT ![p] = l]
  <2>2. arg[p] \in Ctx /\ CloseHttpContext(arg[p], [link EXCEPT ![p].fin = TRUE], closed)
    BY <1>1, <1>t DEF OnPeerCloseIdle
  <2>3. [link EXCEPT ![p].fin = TRUE] = lk BY <1>t, <2>1
  <2>4. link[p] \in Link BY <1>t
  <2>5. l \in Link /\ l.stream = link[p].stream BY <2>4 DEF Link
  <2> HIDE DEF l
  <2>6. lk \in [Pcbs -> Link] /\ \A q \in Pcbs : lk[q].stream = link[q].stream
    BY <1>t, <2>5
  <2> HIDE DEF lk
  <2>7. CloseHttpContext(arg[p], lk, closed) BY <2>2, <2>3
  <2> QED BY <2>2, <2>6, <2>7, CloseOrdered
<1>2. ASSUME NEW p \in Pcbs, OnHttpPollTimeout(p, closed) PROVE Ordered'
  <2>1. arg[p] \in Ctx /\ CloseHttpContext(arg[p], link, closed)
    BY <1>2, <1>t DEF OnHttpPollTimeout
  <2> QED BY <1>t, <2>1, CloseOrdered
<1>3. CASE CloseAfterRequest(closed) \/ CloseIfAborted(closed)
  <2>1. frame # NoFrame /\ CloseHttpContext(frame.c, link, closed)
    BY <1>3 DEF CloseAfterRequest, CloseIfAborted, At
  <2>2. frame.c \in Ctx BY <2>1, FrameFacts
  <2> QED BY <1>t, <2>1, <2>2, CloseOrdered
<1> QED BY <1>1, <1>2, <1>3

(* A new connection starts with an empty buffer: nothing of the last one   *)
(* is taken for its input.                                                 *)
LEMMA AcceptOrdered ==
    ASSUME Typed, Ownership, Cleaned, Ordered, NEW p \in Pcbs, NEW a \in Addrs, OnHttpAccept(p, a)
    PROVE  Ordered'
<1> DEFINE c == GetHttpContext(a)
           x == [ctx[c] EXCEPT !.queue = << >>, !.ends = << >>, !.offset = 0, !.peerClosing = FALSE]
           y == [ResetHttpContext(x) EXCEPT !.ip = a]
<1>0. /\ pcb \in [Ctx -> Pcbs \cup {NoPcb}] /\ ctx \in [Ctx -> Context]
      /\ link \in [Pcbs -> Link] /\ arg \in [Pcbs -> Ctx \cup {NoCtx}]
  BY DEF Typed, TypeOK
<1>1. /\ c \in Ctx /\ pcb[c] = NoPcb
      /\ \A d \in Ctx : d # c => pcb'[d] = pcb[d] /\ ctx'[d] = ctx[d]
  BY AcceptFacts
<1>2. /\ pcb' = [pcb EXCEPT ![c] = p] /\ ctx' = [ctx EXCEPT ![c] = y] /\ ~open[p]
      /\ link' = [link EXCEPT ![p] = NewLink(a)] /\ restarts' = restarts
  BY DEF OnHttpAccept
<1>3. y.rx = ctx[c].rx /\ y.queue = << >> /\ y.offset = 0
  <2>1. ctx[c] \in Context BY <1>0, <1>1
  <2> QED BY <2>1 DEF ResetHttpContext, Context
<1> HIDE DEF y, c
<1> SUFFICES ASSUME restarts = 0, NEW d \in Ctx PROVE InOrder(d)'
  BY <1>2 DEF Ordered
<1>4. CASE d = c
  <2>1. ctx'[c] = y /\ pcb'[c] = p /\ link'[p].stream = << >>
    BY <1>0, <1>1, <1>2 DEF NewLink
  <2>2. \A q \in Pcbs : arg[q] # c
    <3>1. ASSUME NEW q \in Pcbs, arg[q] = c PROVE FALSE
      <4>1. c # NoCtx BY <1>1, NullAssumption
      <4>2. pcb[c] = q BY <3>1, <4>1 DEF Ownership
      <4> QED BY <1>1, <4>2, NullAssumption
    <3> QED BY <3>1
  <2>3. ctx[c].rx = << >> BY <1>1, <2>2 DEF Cleaned, Unused, Clean
  <2>4. Pending(y) = << >>
    <3>1. << >> \in Seq(Tokens) OBVIOUS
    <3>2. DropFirst(<< >>, 0) = << >> BY <3>1, DropNothing
    <3>3. << >> \o << >> = << >> BY <3>1, ConcatEmptySeq
    <3>4. y.rx = << >> /\ y.queue = << >> /\ y.offset = 0 BY <1>3, <2>3
    <3> QED BY <3>2, <3>3, <3>4 DEF Pending
  <2> QED BY <1>4, <2>1, <2>4 DEF InOrder
<1>5. CASE d # c
  <2>1. pcb'[d] = pcb[d] /\ ctx'[d] = ctx[d] BY <1>5, <1>1
  <2>2. CASE pcb[d] = NoPcb BY <2>1, <2>2 DEF InOrder
  <2>3. CASE pcb[d] # NoPcb
    <3>1. pcb[d] \in Pcbs /\ open[pcb[d]] BY <1>0, <2>3 DEF Cleaned
    <3>2. pcb[d] # p BY <1>2, <3>1
    <3>3. link'[pcb[d]] = link[pcb[d]] BY <1>0, <1>2, <3>1, <3>2
    <3>4. link[pcb[d]].stream = Pending(ctx[d]) BY <2>3 DEF Ordered, InOrder
    <3> QED BY <2>1, <3>3, <3>4 DEF InOrder
  <2> QED BY <2>2, <2>3
<1> QED BY <1>4, <1>5

(* Received data goes to the end of both.                                  *)
LEMMA ReceiveOrdered ==
    ASSUME Typed, Ownership, Cleaned, Ordered, NEW p \in Pcbs, NEW w \in Payloads,
           OnHttpReceive(p, w)
    PROVE  Ordered'
<1> DEFINE c == arg[p]
           y == StoreReceived([ctx[c] EXCEPT !.recvAge = 0], w)
           u == IF y.queue = << >> THEN link[p].unread ELSE link[p].unread + Len(w)
           l == [link[p] EXCEPT !.budget = @ - 1, !.stream = @ \o w, !.unread = u]
<1>0. /\ c \in Ctx /\ Good(ctx[c]) /\ link \in [Pcbs -> Link] /\ link[p] \in Link
      /\ ctx \in [Ctx -> Context]
  BY DEF OnHttpReceive, Typed, TypeOK
<1>1. w \in Seq(Tokens) BY PayloadsAssumption
<1>2. Pending(y) = Pending(ctx[c]) \o w BY <1>0, <1>1, ReceivePending
<1>3. /\ ctx' = [ctx EXCEPT ![c] = y] /\ link' = [link EXCEPT ![p] = l]
      /\ restarts' = restarts /\ pcb' = pcb
  BY <1>0 DEF OnHttpReceive, Link, Pool
<1> HIDE DEF u
<1>4. l.stream = link[p].stream \o w BY <1>0 DEF Link
<1>5. arg[p] # NoCtx BY DEF OnHttpReceive
<1> HIDE DEF y, l
<1>6. ctx'[c] = y /\ \A d \in Ctx : d # c => pcb'[d] = pcb[d] /\ ctx'[d] = ctx[d]
  BY <1>0, <1>3
<1>7. link'[p] = l /\ \A q \in Pcbs : q # p => link'[q] = link[q] BY <1>0, <1>3
<1> SUFFICES ASSUME restarts = 0 PROVE Ordered'
  BY <1>3 DEF Ordered
<1>8. pcb[c] = p BY <1>5 DEF Ownership
<1>9. link'[pcb'[c]].stream = Pending(ctx'[c])
  <2>1. p # NoPcb BY NullAssumption
  <2>2. link[p].stream = Pending(ctx[c]) BY <1>0, <1>8, <2>1 DEF Ordered, InOrder
  <2>3. link'[p].stream = Pending(ctx'[c]) BY <1>2, <1>4, <1>6, <1>7, <2>2
  <2> QED BY <1>3, <1>8, <2>3
<1>10. \A q \in Pcbs : q # pcb[c] => link'[q].stream = link[q].stream BY <1>7, <1>8
<1> HIDE DEF c
<1> QED BY <1>0, <1>3, <1>6, <1>9, <1>10, OneOrdered

(* The events that move no input.                                          *)
LEMMA QuietOrdered ==
    ASSUME Typed, Cleaned, Ordered,
           \/ \E p \in Pcbs : \/ OnPeerClose(p) \/ OnHttpPoll(p) \/ OnHttpPollDetached(p)
                              \/ \E n \in 1 .. SndBuf : OnHttpSent(p, n)
           \/ HttpdInit \/ Tick \/ CancelIfFailed \/ Return \/ UNCHANGED vars
    PROVE  Ordered'
<1>t. ctx \in [Ctx -> Context] /\ link \in [Pcbs -> Link] /\ arg \in [Pcbs -> Ctx \cup {NoCtx}]
  BY DEF Typed, TypeOK
<1>p. ASSUME NEW c \in Ctx, NEW y, ctx' = [ctx EXCEPT ![c] = y], SameInput(y, ctx[c]),
             pcb' = pcb, restarts' = restarts, StreamsSame
      PROVE  Ordered'
  <2>1. ASSUME NEW d \in Ctx PROVE Pending(ctx'[d]) = Pending(ctx[d])
    <3>1. CASE d = c
      <4>1. ctx'[d] = y BY <3>1, <1>t, <1>p
      <4> QED BY <3>1, <4>1, <1>p DEF SameInput, Pending
    <3>2. CASE d # c
      <4>1. ctx'[d] = ctx[d] BY <3>2, <1>t, <1>p
      <4> QED BY <4>1
    <3> QED BY <3>1, <3>2
  <2> QED BY <1>p, <2>1, SameOrdered
<1>l. ASSUME NEW p \in Pcbs, NEW l, link' = [link EXCEPT ![p] = l], l.stream = link[p].stream
      PROVE  StreamsSame
  BY <1>t, <1>l DEF StreamsSame
<1>1. ASSUME NEW p \in Pcbs, OnPeerClose(p) PROVE Ordered'
  <2> DEFINE c == arg[p]
             y == [ctx[c] EXCEPT !.recvAge = 0, !.peerClosing = TRUE]
             l == [link[p] EXCEPT !.fin = TRUE]
  <2>1. c \in Ctx BY <1>t, <1>1 DEF OnPeerClose
  <2>2. /\ ctx' = [ctx EXCEPT ![c] = y] /\ link' = [link EXCEPT ![p] = l]
        /\ pcb' = pcb /\ restarts' = restarts
    BY <1>t, <1>1, <2>1 DEF OnPeerClose, Pool
  <2>3. ctx[c] \in Context /\ link[p] \in Link BY <1>t, <2>1
  <2>4. SameInput(y, ctx[c]) BY <2>3 DEF Context, SameInput
  <2>5. l.stream = link[p].stream BY <2>3 DEF Link
  <2> HIDE DEF y, l, c
  <2> QED BY <1>p, <1>l, <2>1, <2>2, <2>4, <2>5
<1>2. ASSUME NEW p \in Pcbs, NEW n \in 1 .. SndBuf, OnHttpSent(p, n) PROVE Ordered'
  <2> DEFINE c == arg[p]
             y == [ctx[c] EXCEPT !.due = @ - n]
             l == [link[p] EXCEPT !.unacked = @ - n]
  <2>1. c \in Ctx BY <1>t, <1>2 DEF OnHttpSent
  <2>2. /\ ctx' = [ctx EXCEPT ![c] = y] /\ link' = [link EXCEPT ![p] = l]
        /\ pcb' = pcb /\ restarts' = restarts
    BY <1>t, <1>2, <2>1 DEF OnHttpSent, Pool
  <2>3. ctx[c] \in Context /\ link[p] \in Link BY <1>t, <2>1
  <2>4. SameInput(y, ctx[c]) BY <2>3 DEF Context, SameInput
  <2>5. l.stream = link[p].stream BY <2>3 DEF Link
  <2> HIDE DEF y, l, c
  <2> QED BY <1>p, <1>l, <2>1, <2>2, <2>4, <2>5
<1>3. CASE \/ \E p \in Pcbs : OnHttpPoll(p) \/ OnHttpPollDetached(p)
           \/ HttpdInit \/ CancelIfFailed \/ Return \/ UNCHANGED vars
  <2>1. UNCHANGED <<ctx, link, pcb, restarts>>
    BY <1>3 DEF OnHttpPoll, OnHttpPollDetached, HttpdInit, CancelIfFailed, Return, vars, Pool
  <2> QED BY <2>1, SameOrdered DEF StreamsSame
<1>4. CASE Tick
  <2>1. ASSUME NEW d \in Ctx PROVE Pending(ctx'[d]) = Pending(ctx[d])
    <3> DEFINE a == Older(ctx[d].recvAge)
               b == Older(ctx[d].sendAge)
               y == [ctx[d] EXCEPT !.recvAge = a, !.sendAge = b]
    <3>1. ctx'[d] = y BY <1>4 DEF Tick
    <3>2. ctx[d] \in Context BY <1>t
    <3> HIDE DEF a, b
    <3>3. SameInput(y, ctx[d]) BY <3>2 DEF Context, SameInput
    <3> HIDE DEF y
    <3> QED BY <3>1, <3>3 DEF SameInput, Pending
  <2>2. pcb' = pcb /\ restarts' = restarts /\ StreamsSame BY <1>4 DEF Tick, Pool, StreamsSame
  <2> QED BY <2>1, <2>2, SameOrdered
<1> QED BY <1>1, <1>2, <1>3, <1>4

(* A reset connection takes its input with it, and main() the whole pool.  *)
LEMMA LostOrdered ==
    ASSUME Typed, Ownership, Cleaned, Ordered, HttpdStop \/ \E p \in Pcbs : OnHttpError(p)
    PROVE  Ordered'
<1>t. /\ ctx \in [Ctx -> Context] /\ link \in [Pcbs -> Link]
      /\ arg \in [Pcbs -> Ctx \cup {NoCtx}] /\ pcb \in [Ctx -> Pcbs \cup {NoPcb}]
      /\ restarts \in Nat
  BY SizesAssumption DEF Typed, TypeOK
<1>1. CASE HttpdStop
  <2>1. restarts' # 0 BY <1>1, <1>t DEF HttpdStop
  <2> QED BY <2>1 DEF Ordered
<1>2. ASSUME NEW p \in Pcbs, OnHttpError(p) PROVE Ordered'
  <2>1. restarts' = restarts /\ link' = [link EXCEPT ![p] = Unlinked] BY <1>2 DEF OnHttpError
  <2>2. \A q \in Pcbs : q # p => link'[q] = link[q] BY <1>t, <2>1
  <2>3. CASE arg[p] = NoCtx
    <3>1. pcb' = pcb /\ ctx' = ctx BY <1>2, <2>3 DEF OnHttpError
    <3> SUFFICES ASSUME restarts = 0, NEW d \in Ctx, pcb[d] # NoPcb
                 PROVE  link'[pcb[d]].stream = Pending(ctx'[d])
      BY <2>1, <3>1 DEF Ordered, InOrder
    <3>2. pcb[d] \in Pcbs /\ arg[pcb[d]] = d BY <1>t DEF Cleaned
    <3>3. pcb[d] # p BY <2>3, <3>2, NullAssumption
    <3>4. link[pcb[d]].stream = Pending(ctx[d]) BY DEF Ordered, InOrder
    <3> QED BY <2>2, <3>1, <3>2, <3>3, <3>4
  <2>4. CASE arg[p] # NoCtx
    <3> DEFINE c == arg[p]
    <3>1. c \in Ctx BY <1>t, <2>4
    <3>2. pcb' = [pcb EXCEPT ![c] = NoPcb] /\ ctx' = [ctx EXCEPT ![c] = FreeHttpContext(@)]
      BY <1>2, <2>4 DEF OnHttpError
    <3>3. pcb'[c] = NoPcb /\ \A d \in Ctx : d # c => pcb'[d] = pcb[d] /\ ctx'[d] = ctx[d]
      BY <1>t, <3>1, <3>2
    <3> SUFFICES ASSUME restarts = 0 PROVE Ordered'
      BY <2>1 DEF Ordered
    <3>5. pcb[c] = p BY <2>4 DEF Ownership
    <3>6. \A q \in Pcbs : q # pcb[c] => link'[q].stream = link[q].stream BY <2>2, <3>5
    <3> HIDE DEF c
    <3> QED BY <2>1, <3>1, <3>3, <3>6, OneOrdered
  <2> QED BY <2>3, <2>4
<1> QED BY <1>1, <1>2

(* Every step keeps the order.                                             *)
LEMMA NextOrdered ==
    ASSUME Typed, Ownership, Cleaned, Ordered, [Next]_vars
    PROVE  Ordered'
<1>1. CASE Working BY <1>1, WorkingOrdered
<1>2. CASE \E closed \in BOOLEAN :
              \/ \E p \in Pcbs : OnPeerCloseIdle(p, closed) \/ OnHttpPollTimeout(p, closed)
              \/ CloseAfterRequest(closed)
              \/ CloseIfAborted(closed)
  BY <1>2, CloseStepsOrdered
<1>3. CASE \E p \in Pcbs, a \in Addrs : OnHttpAccept(p, a) BY <1>3, AcceptOrdered
<1>4. CASE \E p \in Pcbs, w \in Payloads : OnHttpReceive(p, w) BY <1>4, ReceiveOrdered
<1>5. CASE HttpdStop \/ \E p \in Pcbs : OnHttpError(p) BY <1>5, LostOrdered
<1>6. CASE \/ \E p \in Pcbs : \/ OnPeerClose(p) \/ OnHttpPoll(p) \/ OnHttpPollDetached(p)
                              \/ \E n \in 1 .. SndBuf : OnHttpSent(p, n)
           \/ HttpdInit \/ Tick \/ CancelIfFailed \/ Return \/ UNCHANGED vars
  BY <1>6, QuietOrdered
<1> QED BY <1>1, <1>2, <1>3, <1>4, <1>5, <1>6 DEF Next, Step, Event, Working

-----------------------------------------------------------------------------
(* The invariant, put together.                                            *)

Lifecycle == Control /\ Cleaned /\ Limited

(* SetupHttpContext leaves every context idle and unused.                  *)
LEMMA InitLifecycle == Init => Lifecycle
<1> SUFFICES ASSUME Init PROVE Lifecycle OBVIOUS
<1>1. /\ frame = NoFrame
      /\ \A c \in Ctx : /\ pcb[c] = NoPcb /\ ctx[c].state = IDLE /\ ctx[c].request = "none"
                        /\ ctx[c].handler = "none" /\ ctx[c].result = 0 /\ ctx[c].stage = 0
                        /\ ctx[c].queue = << >> /\ ctx[c].rx = << >> /\ ctx[c].offset = 0
                        /\ ctx[c].bytesLeft = 0 /\ ~ctx[c].keepalive
      /\ \A p \in Pcbs : arg[p] = NoCtx
  BY DEF Init
<1>2. ASSUME NEW c \in Ctx
      PROVE  Timed(ctx[c], pcb[c] # NoPcb) /\ Ready(ctx[c], pcb[c] # NoPcb) /\ Clean(ctx[c])
  <2>1. Settled(ctx[c]) BY <1>1 DEF Settled, Receives, Examined
  <2> QED BY <1>1, <2>1 DEF Timed, Handled, Ready, Clean
<1>3. Control BY <1>1, <1>2 DEF Control
<1>4. Cleaned BY <1>1, <1>2 DEF Cleaned
<1>5. Limited
  <2>1. ASSUME NEW a \in Addrs, MaxConnPerIp > 0 PROVE Cardinality(Owned(a)) <= MaxConnPerIp
    <3>1. Owned(a) = {} BY <1>1 DEF Owned
    <3>2. Cardinality(Owned(a)) = 0 BY <3>1, FS_EmptySet
    <3> QED BY <3>2, SizesAssumption
  <2> QED BY <2>1 DEF Limited
<1> QED BY <1>3, <1>4, <1>5 DEF Lifecycle

(* Every step of a callback preserves the invariant.                       *)
LEMMA StepLifecycle ==
    ASSUME Typed, Lifecycle, Step
    PROVE  Lifecycle'
<1>0. Control /\ Cleaned /\ Limited BY DEF Lifecycle
<1>1. Limited' BY <1>0, StepRetained, RetainedLimited
<1>2. CASE Working
  <2>1. Cleaned' BY <1>0, <1>2, WorkingCleaned
  <2>2. CASE LoopHead \/ UnlinkPbuf \/ StartRequest
    BY <2>2, <1>0, <1>1, <2>1, LoopHeadControl, UnlinkPbufControl, StartRequestControl DEF Lifecycle
  <2>3. CASE ParseLine \/ ParseEmptyLine \/ LinesExhausted
    BY <2>3, <1>0, <1>1, <2>1, ParseLineControl, ParseEmptyLineControl, LinesExhaustedControl
    DEF Lifecycle
  <2>4. CASE \E session, started \in BOOLEAN : AfterHeaders(session, started)
    BY <2>4, <1>0, <1>1, <2>1, AfterHeadersControl DEF Lifecycle
  <2>5. CASE \E n \in 0 .. MaxReqBuf : ReceiveBody(n)
    BY <2>5, <1>0, <1>1, <2>1, ReceiveBodyControl DEF Lifecycle
  <2>6. CASE \E result \in Results : RequestReceived(result)
    BY <2>6, <1>0, <1>1, <2>1, RequestReceivedControl DEF Lifecycle
  <2>7. CASE \E ok \in BOOLEAN : SendRemaining(ok)
    BY <2>7, <1>0, <1>1, <2>1, SendRemainingControl DEF Lifecycle
  <2>8. CASE \E ok \in BOOLEAN : SendHeader(ok)
    BY <2>8, <1>0, <1>1, <2>1, SendHeaderControl DEF Lifecycle
  <2>9. CASE HeaderSent \/ NoContent
    BY <2>9, <1>0, <1>1, <2>1, HeaderSentControl, NoContentControl DEF Lifecycle
  <2>10. CASE \E out \in [n : -1 .. 1, stage : Stages, result : Results], ok \in BOOLEAN :
                LoadContent(out, ok)
    BY <2>10, <1>0, <1>1, <2>1, LoadContentControl DEF Lifecycle
  <2>11. CASE KeepAfterRequest \/ LeaveRequest
    BY <2>11, <1>0, <1>1, <2>1, KeepAfterRequestControl, LeaveRequestControl DEF Lifecycle
  <2> QED BY <1>2, <2>2, <2>3, <2>4, <2>5, <2>6, <2>7, <2>8, <2>9, <2>10, <2>11 DEF Working
<1>3. CASE \E closed \in BOOLEAN : CloseAfterRequest(closed) \/ CloseIfAborted(closed)
  BY <1>3, <1>0, <1>1, CloseStepsControl, CloseStepsCleaned DEF Lifecycle
<1>4. CASE CancelIfFailed \/ Return
  BY <1>4, <1>0, <1>1, ReturnControl, QuietStepsCleaned DEF Lifecycle
<1> QED BY <1>2, <1>3, <1>4 DEF Step, Working

(* Every event of the stack, the clock or main() preserves the invariant.  *)
LEMMA EventLifecycle ==
    ASSUME Typed, Lifecycle, Event
    PROVE  Lifecycle'
<1>0. Control /\ Cleaned /\ Limited BY DEF Lifecycle
<1>1. CASE \E p \in Pcbs, a \in Addrs : OnHttpAccept(p, a)
  BY <1>1, <1>0, OnHttpAcceptControl, OnHttpAcceptCleaned, AcceptLimited DEF Lifecycle
<1>2. CASE ~ \E p \in Pcbs, a \in Addrs : OnHttpAccept(p, a)
  <2>1. Limited' BY <1>0, <1>2, EventRetained, RetainedLimited
  <2>2. CASE \E p \in Pcbs : \/ \E w \in Payloads : OnHttpReceive(p, w)
                             \/ OnPeerClose(p)
                             \/ OnHttpPoll(p)
                             \/ \E n \in 1 .. SndBuf : OnHttpSent(p, n)
    BY <2>2, <1>0, <2>1, CallbackControl, CallbackCleaned DEF Lifecycle
  <2>3. CASE \E p \in Pcbs, closed \in BOOLEAN :
                OnPeerCloseIdle(p, closed) \/ OnHttpPollTimeout(p, closed)
    BY <2>3, <1>0, <2>1, CloseStepsControl, CloseStepsCleaned DEF Lifecycle
  <2>4. CASE \E p \in Pcbs : OnHttpError(p)
    BY <2>4, <1>0, <2>1, OnHttpErrorControl, OnHttpErrorCleaned DEF Lifecycle
  <2>5. CASE HttpdStop BY <2>5, <1>0, <2>1, StopControl, StopCleaned DEF Lifecycle
  <2>6. CASE \E p \in Pcbs : OnHttpPollDetached(p)
    BY <2>6, <1>0, <2>1, QuietEventsControl, StopCleaned DEF Lifecycle
  <2>7. CASE HttpdInit \/ Tick
    BY <2>7, <1>0, <2>1, QuietEventsControl, QuietStepsCleaned DEF Lifecycle
  <2> QED BY <1>2, <2>2, <2>3, <2>4, <2>5, <2>6, <2>7 DEF Event
<1> QED BY <1>1, <1>2

(* Nothing changes, nothing breaks.                                        *)
LEMMA StutterLifecycle ==
    ASSUME Typed, Lifecycle, UNCHANGED vars
    PROVE  Lifecycle'
<1>1. Retained BY DEF vars, Retained
<1> QED BY <1>1, QuietEventsControl, QuietStepsCleaned, RetainedLimited DEF Lifecycle

(* In every reachable state, restarts included, each context is what its   *)
(* place in HttpRequestProc, or the return of the last callback, says.     *)
THEOREM LifecycleHolds == Spec => []Lifecycle
<1>1. Init => Lifecycle BY InitLifecycle
<1>2. Inv /\ Lifecycle /\ [Next]_vars => Lifecycle'
  BY StepLifecycle, EventLifecycle, StutterLifecycle DEF Next, Inv
<1> QED BY <1>1, <1>2, Invariance, PTL DEF Spec

(* When CGI_LoadContentToSend looks at the callbacks of the handler after  *)
(* the last block, there is a handler, whatever ended the request.         *)
THEOREM StageHasHandlerHolds == Spec => []StageHasHandler
<1>1. Lifecycle => StageHasHandler BY DEF Lifecycle, Control, Timed, Handled, StageHasHandler
<1> QED BY <1>1, LifecycleHolds, PTL

(* What a callback leaves behind waits for an event.                       *)
LEMMA SettledWaits ==
    ASSUME NEW x \in Context, Settled(x), x.result # -500, Awaited(x), x.recvAge # NoTime
    PROVE  Waiting(x)
<1>1. x.result \in Results BY DEF Context
<1>2. x.result > -500 BY <1>1 DEF Results, CODE_OK, CODE_REDIRECT
<1>3. CASE Receives(x)
  <2>1. x.state \in {IDLE, HEADER_RECEIVING, BODY_RECEIVING} /\ x.result = 0
    BY <1>3 DEF Receives
  <2>2. x.state < BODY_DONE /\ ~(x.state > BODY_DONE) BY <2>1
  <2>3. ~x.peerClosing BY <2>2 DEF Awaited
  <2> QED BY <1>2, <2>1, <2>2, <2>3, Zenon DEF Waiting
<1>4. CASE Sends(x)
  <2>1. x.state \in {SENDING_HEADER, SENDING_BODY} /\ x.result # 0 BY <1>4 DEF Sends
  <2>2. x.sending /\ x.sendAge # NoTime BY <1>4, Zenon DEF Sends
  <2>3. ~(x.state < BODY_DONE) BY <2>1
  <2> QED BY <1>2, <2>1, <2>2, <2>3, Zenon DEF Waiting
<1> QED BY <1>3, <1>4 DEF Settled

(* A callback returns with the context of every connection waiting for an  *)
(* event that comes: its abort is done, the timer of its state runs, and a *)
(* peer that closed is only kept to be answered (HttpRequestProc,          *)
(* OnHttpReceive, OnHttpSent, OnHttpPoll).                                 *)
THEOREM BetweenCallbacksHolds == Spec => []BetweenCallbacks
<1>1. Inv /\ Lifecycle => BetweenCallbacks
  <2> SUFFICES ASSUME Typed, Control, frame = NoFrame, NEW c \in Ctx, pcb[c] # NoPcb
               PROVE  Waiting(ctx[c])
    BY DEF Inv, Lifecycle, BetweenCallbacks
  <2>1. Settled(ctx[c]) /\ ctx[c].result # -500 /\ Awaited(ctx[c]) /\ ctx[c].recvAge # NoTime
    BY DEF Control, Ready, Timed
  <2>2. ctx[c] \in Context BY DEF Typed, TypeOK
  <2> QED BY <2>1, <2>2, SettledWaits
<1> QED BY <1>1, Invariance, LifecycleHolds, PTL

(* No callback leaves a complete header line or a queued pbuf unexamined   *)
(* while it waits for the rest of the header (HttpRequestProc): with no    *)
(* more data from the peer, nobody would come back to it.                  *)
THEOREM InputIsExamined == Spec => []InputExamined
<1>1. Lifecycle => InputExamined
  <2> SUFFICES ASSUME Control, frame = NoFrame, NEW c \in Ctx, ctx[c].state = HEADER_RECEIVING
               PROVE  ctx[c].queue = << >> /\ ~HasLine(ctx[c].rx)
    BY DEF Lifecycle, InputExamined
  <2>1. Settled(ctx[c]) BY DEF Control, Ready
  <2> QED BY <2>1 DEF Settled, Examined, Sends
<1> QED BY <1>1, LifecycleHolds, PTL

(* A context that no connection uses holds nothing of its last one, after  *)
(* every way a connection can end (CloseHttpContext, OnHttpError,          *)
(* HttpdStop).                                                             *)
THEOREM FreeContextsAreClean == Spec => []FreeContextClean
<1>1. Lifecycle => FreeContextClean
  BY DEF Lifecycle, Cleaned, Unused, Clean, FreeContextClean
<1> QED BY <1>1, LifecycleHolds, PTL

(* No address owns more than MAX_CONN_PER_IP contexts: what GetHttpContext *)
(* counts at an accept stays true until the next one.                      *)
THEOREM PerIpLimitHolds == Spec => []PerIpLimit
<1>1. Lifecycle => PerIpLimit BY DEF Lifecycle, Limited, Owned, PerIpLimit
<1> QED BY <1>1, LifecycleHolds, PTL

(* The request buffer and the uncopied rest of the queue are, in order and *)
(* without a gap, what the peer of the connection sent and the parser has  *)
(* not consumed, over every way OnHttpReceive keeps data, HttpRequestProc  *)
(* copies and frees it, and a context passes to its next connection.       *)
THEOREM StreamIsInOrder == Spec => []StreamOrder
<1>1. Init => Ordered BY DEF Init, Ordered, InOrder
<1>2. Inv /\ Lifecycle /\ Ordered /\ [Next]_vars => Ordered'
  BY NextOrdered DEF Inv, Lifecycle
<1>3. Ordered => StreamOrder BY DEF Ordered, InOrder, Pending, StreamOrder
<1> QED BY <1>1, <1>2, <1>3, Invariance, LifecycleHolds, PTL DEF Spec
=============================================================================
