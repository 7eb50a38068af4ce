------------------------ MODULE HttpConnectionProofs ------------------------
(* HttpCore implements Connections: every step of a callback is a step of  *)
(* the one connection it works for, or is not seen by any.                 *)
(*                                                                         *)
(* The steps of HttpRequestProc are looked at one by one, as changes of    *)
(* one context (Stepped).  Ownership and Cleaned then say that there is    *)
(* one connection that this context belongs to, and that the others see    *)
(* nothing (Others).  Closings is the only invariant that is added.        *)
EXTENDS HttpRequestProofs

USE DEF IDLE, HEADER_RECEIVING, HEADER_DONE, BODY_RECEIVING, BODY_DONE, SENDING_HEADER,
        SENDING_BODY, REQUEST_END, STAGE_END, NoTime

(* How the context of a running callback may change in the eyes of its     *)
(* peer.                                                                   *)
Stepped(x, y) ==
    /\ ShownAs(y) = ShownAs(x) \/ Server!Serves(ShownAs(x), ShownAs(y))
    /\ y.peerClosing = x.peerClosing
    /\ y.state = IDLE => x.state = IDLE \/ ~x.peerClosing

-----------------------------------------------------------------------------
(* One context.                                                            *)

(* The four phases.                                                        *)
LEMMA Phases ==
    /\ Phase(IDLE) = "idle" /\ Phase(HEADER_RECEIVING) = "header"
    /\ Phase(HEADER_DONE) = "body" /\ Phase(BODY_RECEIVING) = "body" /\ Phase(BODY_DONE) = "body"
    /\ Phase(SENDING_HEADER) = "response" /\ Phase(SENDING_BODY) = "response"
    /\ Phase(REQUEST_END) = "response"
BY DEF Phase

(* Only an idle context is in the phase idle.                              *)
LEMMA PhaseType ==
    \A s : /\ Phase(s) \in {"idle", "header", "body", "response"}
           /\ Phase(s) = "idle" <=> s = IDLE
BY DEF Phase

(* Address and closing are not changed by HttpRequestProc.                 *)
LEMMA SameSender ==
    ASSUME NEW x, NEW y, y.ip = x.ip, y.peerClosing = x.peerClosing
    PROVE  /\ ShownAs(y) = [ShownAs(x) EXCEPT !.phase = Phase(y.state), !.input = Pending(y)]
           /\ Phase(y.state) = Phase(x.state) =>
                 ShownAs(y) = [ShownAs(x) EXCEPT !.input = Pending(y)]
<1> DEFINE a == Phase(x.state)
           e == Phase(y.state)
           i == Pending(x)
           j == Pending(y)
           b == x.ip
           f == x.peerClosing
           c == [phase |-> a, addr |-> b, input |-> i, fin |-> f]
           d == [phase |-> e, addr |-> b, input |-> j, fin |-> f]
           g == [c EXCEPT !.phase = e, !.input = j]
           h == [c EXCEPT !.input = j]
<1>1. ShownAs(x) = c /\ ShownAs(y) = d BY DEF ShownAs
<1> HIDE DEF a, e, i, j, b, f
<1>2. g = [k \in {"phase", "addr", "input", "fin"} |->
             IF k = "phase" THEN e ELSE IF k = "input" THEN j ELSE c[k]]
  OBVIOUS
<1>3. g = d BY <1>2
<1>4. h = [phase |-> a, addr |-> b, input |-> j, fin |-> f] OBVIOUS
<1>5. e = a => h = d BY <1>4
<1> HIDE DEF c, d
<1> QED BY <1>1, <1>3, <1>5 DEF a, e, j

(* Nothing is seen of a step that keeps input and phase.                   *)
LEMMA KeepsPhase ==
    ASSUME NEW x, NEW y, y.ip = x.ip, y.peerClosing = x.peerClosing, Pending(y) = Pending(x),
           Phase(y.state) = Phase(x.state)
    PROVE  Stepped(x, y)
<1>1. ShownAs(y) = ShownAs(x) BY DEF ShownAs
<1>2. y.state = IDLE => x.state = IDLE BY PhaseType
<1> QED BY <1>1, <1>2 DEF Stepped

(* A step from one phase to the next.                                      *)
LEMMA ChangesPhase ==
    ASSUME NEW x, NEW y, y.ip = x.ip, y.peerClosing = x.peerClosing, Pending(y) = Pending(x),
           \/ /\ Phase(x.state) = "idle" /\ ~x.peerClosing /\ Pending(x) # << >>
              /\ Phase(y.state) = "header"
           \/ Phase(x.state) = "body" /\ Phase(y.state) = "response"
           \/ Phase(x.state) = "response" /\ ~x.peerClosing /\ Phase(y.state) = "idle"
    PROVE  Stepped(x, y)
<1> DEFINE c == ShownAs(x)
           d == ShownAs(y)
<1>1. /\ c.phase = Phase(x.state) /\ c.fin = x.peerClosing /\ c.input = Pending(x)
      /\ d = [c EXCEPT !.phase = Phase(y.state)]
  BY DEF ShownAs
<1> HIDE DEF c, d
<1>2. Server!Begins(c, d) \/ Server!Answers(c, d) \/ Server!IsKept(c, d)
  BY <1>1 DEF Server!Begins, Server!Answers, Server!IsKept
<1>3. Server!Serves(c, d) BY <1>2 DEF Server!Serves
<1>4. y.state = IDLE => x.state = IDLE \/ ~x.peerClosing BY PhaseType
<1> QED BY <1>3, <1>4 DEF Stepped, c, d

(* The parser takes from the front of what the peer has sent.              *)
LEMMA TakesInput ==
    ASSUME NEW x, Good(x), NEW y, y.ip = x.ip, y.peerClosing = x.peerClosing,
           NEW n \in 1 .. Len(x.rx), y.rx = DropFirst(x.rx, n),
           y.queue = x.queue, y.offset = x.offset,
           \/ /\ Phase(x.state) = "header" /\ Phase(y.state) = "header"
              /\ \A i \in 1 .. n - 1 : x.rx[i] # "eol"
           \/ /\ Phase(x.state) = "header" /\ Phase(y.state) = "body"
              /\ n = 1 /\ x.rx[1] = "eol"
           \/ Phase(x.state) = "body" /\ Phase(y.state) = "body"
    PROVE  Stepped(x, y)
<1> DEFINE c == ShownAs(x)
           d == ShownAs(y)
           s == Pending(x)
           rest == DropFirst(x.queue, x.offset)
<1>1. /\ x.rx \in Seq(Tokens) /\ rest \in Seq(Tokens) /\ s \in Seq(Tokens)
      /\ Len(x.rx) \in Nat /\ s = x.rx \o rest
  BY PendingParts DEF Pending
<1>2. n \in Nat /\ n <= Len(x.rx) /\ \A i \in 1 .. n - 1 : i \in 1 .. n BY <1>1
<1>p. Pending(y) = DropFirst(s, n) BY <1>2, ConsumePending
<1>3. n \in 1 .. Len(s) /\ \A i \in 1 .. n : s[i] = x.rx[i]
  <2> HIDE DEF s, rest
  <2>1. Len(s) = Len(x.rx) + Len(rest) /\ \A i \in 1 .. Len(x.rx) : s[i] = x.rx[i]
    BY <1>1, ConcatProperties
  <2>2. Len(rest) \in Nat BY <1>1, LenProperties
  <2> QED BY <1>1, <2>1, <2>2
<1>d. Pending(y) = Server!Drop(s, n) BY <1>p DEF Server!Drop, DropFirst
<1>e. /\ d = [c EXCEPT !.phase = Phase(y.state), !.input = Pending(y)]
      /\ Phase(y.state) = Phase(x.state) => d = [c EXCEPT !.input = Pending(y)]
  BY SameSender
<1>f. c.phase = Phase(x.state) /\ c.input = s BY DEF ShownAs
<1>5. s # << >> BY <1>1, <1>3
<1> HIDE DEF c, d, s
<1>4. /\ c.phase = Phase(x.state) /\ c.input = s
      /\ d = [c EXCEPT !.phase = Phase(y.state), !.input = Server!Drop(s, n)]
  BY <1>d, <1>e, <1>f
<1>6. Phase(y.state) = Phase(x.state) => d = [c EXCEPT !.input = Server!Drop(s, n)]
  BY <1>d, <1>e
<1>i. y.state # IDLE BY PhaseType
<1>7. CASE /\ Phase(x.state) = "header" /\ Phase(y.state) = "header"
           /\ \A i \in 1 .. n - 1 : x.rx[i] # "eol"
  <2>1. \A i \in 1 .. n - 1 : s[i] # "eol" BY <1>2, <1>3, <1>7
  <2>2. Server!ReadsLine(c, d) BY <1>3, <1>4, <1>6, <1>7, <2>1 DEF Server!ReadsLine
  <2> QED BY <1>i, <2>2 DEF Server!Serves, Stepped, c, d
<1>8. CASE Phase(x.state) = "header" /\ Phase(y.state) = "body" /\ n = 1 /\ x.rx[1] = "eol"
  <2>1. s[1] = "eol" BY <1>3, <1>8
  <2>2. Server!EndsHeader(c, d) BY <1>4, <1>5, <1>8, <2>1 DEF Server!EndsHeader
  <2> QED BY <1>i, <2>2 DEF Server!Serves, Stepped, c, d
<1>9. CASE Phase(x.state) = "body" /\ Phase(y.state) = "body"
  <2>1. Server!ReadsBody(c, d) BY <1>3, <1>4, <1>6, <1>9 DEF Server!ReadsBody
  <2> QED BY <1>i, <2>1 DEF Server!Serves, Stepped, c, d
<1> QED BY <1>7, <1>8, <1>9

(* Nothing is seen of a step that keeps the buffers and the phase.         *)
LEMMA Unseen ==
    ASSUME NEW x, NEW y, SameInput(y, x), y.peerClosing = x.peerClosing,
           Phase(y.state) = Phase(x.state)
    PROVE  Stepped(x, y)
<1>1. Pending(y) = Pending(x) /\ y.ip = x.ip BY DEF SameInput, Pending
<1> QED BY <1>1, KeepsPhase

(* A request is answered once its header is complete.                      *)
LEMMA Responds ==
    ASSUME NEW x, NEW y, SameInput(y, x), y.peerClosing = x.peerClosing,
           Phase(x.state) \in {"body", "response"}, Phase(y.state) = "response"
    PROVE  Stepped(x, y)
<1>1. Pending(y) = Pending(x) /\ y.ip = x.ip BY DEF SameInput, Pending
<1> QED BY <1>1, KeepsPhase, ChangesPhase

-----------------------------------------------------------------------------
(* The steps of HttpRequestProc.                                           *)

Steps == Stepped(ctx[frame.c], ctx'[frame.c])

(* A step that replaces the context of the callback, and one that does not.*)
LEMMA PutSteps ==
    ASSUME Typed, frame # NoFrame, NEW y, ctx' = [ctx EXCEPT ![frame.c] = y],
           Stepped(ctx[frame.c], y)
    PROVE  Steps
<1>1. frame.c \in Ctx /\ ctx \in [Ctx -> Context] BY FrameFacts DEF Typed, TypeOK
<1>2. ctx'[frame.c] = y BY <1>1
<1> QED BY <1>2 DEF Steps

(* A step that leaves the contexts alone.                                  *)
LEMMA SameSteps ==
    ASSUME ctx' = ctx
    PROVE  Steps
<1>1. Stepped(ctx[frame.c], ctx[frame.c]) BY KeepsPhase
<1> QED BY <1>1 DEF Steps

(* Copying and unlinking move what has arrived, and the first byte starts  *)
(* a request.                                                              *)
LEMMA QueueSteps ==
    ASSUME Typed, Control, LoopHead \/ UnlinkPbuf \/ StartRequest,
           ctx[frame.c].state = IDLE => ~ctx[frame.c].peerClosing
    PROVE  Steps
<1> DEFINE x == ctx[frame.c]
<1>0. frame # NoFrame BY DEF LoopHead, UnlinkPbuf, StartRequest, At
<1>t. Good(x) /\ x \in Context /\ frame.c \in Ctx /\ ctx \in [Ctx -> Context] BY <1>0, RunningFacts
<1>1. CASE LoopHead
  <2>1. ctx' = ctx \/ ctx' = [ctx EXCEPT ![frame.c] = Dequeue(x)] BY <1>1 DEF LoopHead
  <2>2. /\ Dequeue(x).ip = x.ip /\ Dequeue(x).peerClosing = x.peerClosing
        /\ Dequeue(x).state = x.state
    BY <1>t DEF Dequeue, Context
  <2>3. Pending(Dequeue(x)) = Pending(x) BY <1>t, DequeuePending
  <2>4. Stepped(x, Dequeue(x)) BY <2>2, <2>3, KeepsPhase
  <2> QED BY <1>0, <2>1, <2>4, PutSteps, SameSteps
<1>2. CASE UnlinkPbuf
  <2> DEFINE k == Head(x.ends)
             y == [x EXCEPT !.queue = DropFirst(@, Head(x.ends)),
                            !.ends = [i \in 1 .. Len(@) - 1 |-> @[i + 1] - Head(x.ends)],
                            !.offset = @ - Head(x.ends)]
  <2>1. ctx' = [ctx EXCEPT ![frame.c] = y] /\ PbufCopied(x) BY <1>t, <1>0, <1>2 DEF UnlinkPbuf
  <2>2. /\ y.ip = x.ip /\ y.rx = x.rx /\ y.queue = DropFirst(x.queue, Head(x.ends))
        /\ y.offset = x.offset - Head(x.ends) /\ y.peerClosing = x.peerClosing
        /\ y.state = x.state
    BY <1>t DEF Context
  <2> HIDE DEF y, k
  <2>3. Pending(y) = Pending(x) BY <1>t, <2>1, <2>2, UnlinkPending
  <2>4. Stepped(x, y) BY <2>2, <2>3, KeepsPhase
  <2> QED BY <1>0, <2>1, <2>4, PutSteps
<1>3. CASE StartRequest
  <2> DEFINE y == [x EXCEPT !.state = HEADER_RECEIVING, !.recvAge = 0, !.sendAge = NoTime]
  <2>1. \/ ctx' = ctx
        \/ ctx' = [ctx EXCEPT ![frame.c] = y] /\ x.state = IDLE /\ x.rx # << >>
    BY <1>t, <1>0, <1>3 DEF StartRequest
  <2>2. SameInput(y, x) /\ y.peerClosing = x.peerClosing /\ y.state = HEADER_RECEIVING
    BY <1>t DEF Context, SameInput
  <2> HIDE DEF y
  <2>3. ASSUME x.state = IDLE, x.rx # << >> PROVE Stepped(x, y)
    <3> DEFINE d == DropFirst(x.queue, x.offset)
    <3>1. x.rx \in Seq(Tokens) /\ d \in Seq(Tokens) BY <1>t, PendingParts
    <3> HIDE DEF d
    <3>2. x.rx \o d # << >>
      <4>1. Len(x.rx \o d) = Len(x.rx) + Len(d) BY <3>1, ConcatProperties
      <4>2. Len(x.rx) \in Nat /\ Len(d) \in Nat /\ Len(x.rx) > 0 BY <2>3, <3>1
      <4>3. Len(x.rx \o d) # 0 BY <4>1, <4>2
      <4> QED BY <4>3
    <3>3. Pending(x) # << >> BY <3>2 DEF Pending, d
    <3>4. Pending(y) = Pending(x) /\ y.ip = x.ip BY <2>2 DEF SameInput, Pending
    <3>5. Phase(x.state) = "idle" /\ Phase(y.state) = "header" BY <2>2, <2>3, Phases
    <3> QED BY <2>2, <2>3, <3>3, <3>4, <3>5, ChangesPhase
  <2> QED BY <1>0, <2>1, <2>3, PutSteps, SameSteps
<1> QED BY <1>1, <1>2, <1>3

(* The parser goes line by line, and no further than the empty line.       *)
LEMMA ParseSteps ==
    ASSUME Typed, Control, ParseLine \/ ParseEmptyLine \/ LinesExhausted
    PROVE  Steps
<1> DEFINE x == ctx[frame.c]
<1>0. frame # NoFrame /\ frame.pc = "lines" BY DEF ParseLine, ParseEmptyLine, LinesExhausted, At
<1>t. /\ Good(x) /\ x \in Context /\ frame.c \in Ctx /\ ctx \in [Ctx -> Context]
      /\ x.rx \in Seq(Tokens) /\ Len(x.rx) \in Nat
  BY <1>0, RunningFacts, PendingParts
<1>h. Phase(x.state) = "header" BY <1>0, RunningFacts, Phases DEF Fit
<1>1. CASE ParseLine
  <2> DEFINE h == HeaderLine(x, x.rx[1])
             n == FirstEol(x.rx)
             y == [h EXCEPT !.rx = DropFirst(@, n)]
             z == [x EXCEPT !.result = -500]
  <2>1. ctx' = [ctx EXCEPT ![frame.c] = z] \/ ctx' = [ctx EXCEPT ![frame.c] = y]
    BY <1>t, <1>0, <1>1 DEF ParseLine
  <2>2. SameInput(z, x) /\ z.peerClosing = x.peerClosing /\ z.state = x.state
    BY <1>t DEF Context, SameInput
  <2>3. /\ SameInput(h, x) /\ h.peerClosing = x.peerClosing /\ h.state = x.state
        /\ {"ip", "rx", "queue", "offset", "peerClosing", "state"} \subseteq DOMAIN h
    <3> DEFINE t == x.rx[1]
    <3>1. CASE x.request = "none" BY <1>t, <3>1 DEF HeaderLine, Context, SameInput
    <3>2. CASE x.request # "none" /\ t = "length"
      BY <1>t, <3>2 DEF HeaderLine, Context, SameInput
    <3>3. CASE x.request # "none" /\ t = "keepalive"
      BY <1>t, <3>3 DEF HeaderLine, Context, SameInput
    <3>4. CASE x.request # "none" /\ t = "close"
      BY <1>t, <3>4 DEF HeaderLine, Context, SameInput
    <3>5. CASE x.request # "none" /\ t \notin {"length", "keepalive", "close"}
      BY <1>t, <3>5 DEF HeaderLine, Context, SameInput
    <3> QED BY <3>1, <3>2, <3>3, <3>4, <3>5
  <2> HIDE DEF h
  <2>4. /\ n \in 1 .. Len(x.rx) /\ \A i \in 1 .. n - 1 : x.rx[i] # "eol"
    <3>1. HasLine(x.rx) BY <1>1 DEF ParseLine
    <3> QED BY <1>t, <3>1, FirstLine
  <2> HIDE DEF n
  <2>5. /\ y.ip = x.ip /\ y.rx = DropFirst(x.rx, n) /\ y.queue = x.queue /\ y.offset = x.offset
        /\ y.peerClosing = x.peerClosing /\ y.state = x.state
    BY <2>3 DEF SameInput
  <2> HIDE DEF y, z
  <2>6. Stepped(x, z) BY <2>2, Unseen
  <2>7. Phase(y.state) = "header" BY <1>h, <2>5
  <2>8. Stepped(x, y) BY <1>t, <1>h, <2>4, <2>5, <2>7, TakesInput
  <2> QED BY <1>0, <2>1, <2>6, <2>8, PutSteps
<1>2. CASE ParseEmptyLine
  <2> DEFINE y == [x EXCEPT !.state = HEADER_DONE, !.rx = DropFirst(@, 1),
                            !.sending = FALSE, !.due = 0, !.stage = 0, !.bytesLeft = 0,
                            !.result = IF x.request = "none" THEN -500 ELSE @]
  <2>1. /\ ctx' = [ctx EXCEPT ![frame.c] = y] /\ HasLine(x.rx) /\ FirstEol(x.rx) = 1
    BY <1>2 DEF ParseEmptyLine
  <2>2. /\ y.ip = x.ip /\ y.rx = DropFirst(x.rx, 1) /\ y.queue = x.queue /\ y.offset = x.offset
        /\ y.peerClosing = x.peerClosing /\ y.state = HEADER_DONE
    BY <1>t DEF Context
  <2> HIDE DEF y
  <2>3. 1 \in 1 .. Len(x.rx) /\ x.rx[1] = "eol" BY <1>t, <2>1, FirstLine
  <2>4. Phase(y.state) = "body" BY <2>2, Phases
  <2>5. Stepped(x, y) BY <1>t, <1>h, <2>2, <2>3, <2>4, TakesInput
  <2> QED BY <1>0, <2>1, <2>5, PutSteps
<1>3. CASE LinesExhausted
  <2> DEFINE n == IF ~frame.parsed /\ Len(x.rx) >= MaxReqBuf THEN Len(x.rx) \div 2 ELSE 0
             y == [x EXCEPT !.rx = DropFirst(@, n)]
             z == [y EXCEPT !.result = -500]
  <2>1. ctx' = [ctx EXCEPT ![frame.c] = z] \/ ctx' = [ctx EXCEPT ![frame.c] = y]
    BY <1>3 DEF LinesExhausted
  <2>2. n \in Nat /\ n <= Len(x.rx)
    <3> DEFINE m == Len(x.rx)
               h == m \div 2
    <3>1. m \in Nat BY <1>t
    <3>2. n = 0 \/ n = h BY Zenon
    <3> HIDE DEF m, n
    <3>3. h \in Nat /\ h <= m BY <3>1
    <3> HIDE DEF h
    <3>4. n \in Nat /\ n <= m BY <3>1, <3>2, <3>3
    <3> QED BY <3>4 DEF m
  <2> HIDE DEF n
  <2>3. /\ y.ip = x.ip /\ y.rx = DropFirst(x.rx, n) /\ y.queue = x.queue /\ y.offset = x.offset
        /\ y.peerClosing = x.peerClosing /\ y.state = x.state
        /\ z.ip = x.ip /\ z.rx = DropFirst(x.rx, n) /\ z.queue = x.queue /\ z.offset = x.offset
        /\ z.peerClosing = x.peerClosing /\ z.state = x.state
    BY <1>t DEF Context
  <2> HIDE DEF y, z
  <2>4. \A i \in 1 .. n - 1 : x.rx[i] # "eol"
    <3>1. ~HasLine(x.rx) BY <1>3 DEF LinesExhausted
    <3>2. \A i \in 1 .. n - 1 : i \in 1 .. Len(x.rx) BY <1>t, <2>2
    <3> QED BY <3>1, <3>2 DEF HasLine
  <2>5. ASSUME NEW v \in {y, z} PROVE Stepped(x, v)
    <3>1. /\ v.ip = x.ip /\ v.rx = DropFirst(x.rx, n) /\ v.queue = x.queue
          /\ v.offset = x.offset /\ v.peerClosing = x.peerClosing /\ v.state = x.state
      BY <2>3
    <3>2. CASE n = 0
      <4>1. v.rx = x.rx BY <1>t, <3>1, <3>2, DropNothing
      <4>2. SameInput(v, x) BY <3>1, <4>1 DEF SameInput
      <4> QED BY <3>1, <4>2, Unseen
    <3>3. CASE n # 0
      <4>1. n \in 1 .. Len(x.rx) BY <1>t, <2>2, <3>3
      <4>2. Phase(v.state) = "header" BY <1>h, <3>1
      <4> QED BY <1>t, <1>h, <2>4, <3>1, <4>1, <4>2, TakesInput
    <3> QED BY <3>2, <3>3
  <2> QED BY <1>0, <2>1, <2>5, PutSteps
<1> QED BY <1>1, <1>2, <1>3

(* A body is read while there is one to be read.                           *)
LEMMA BodySteps ==
    ASSUME Typed, Control, NEW n \in 0 .. MaxReqBuf, ReceiveBody(n)
    PROVE  Steps
<1> DEFINE x == ctx[frame.c]
<1>0. frame # NoFrame /\ frame.pc = "body" BY DEF ReceiveBody, At
<1>t. /\ Good(x) /\ x \in Context /\ frame.c \in Ctx /\ ctx \in [Ctx -> Context]
      /\ x.rx \in Seq(Tokens) /\ Len(x.rx) \in Nat
  BY <1>0, RunningFacts, PendingParts
<1>b. x.state = BODY_RECEIVING BY <1>0, RunningFacts DEF Fit
<1> DEFINE y == [x EXCEPT !.contentReceived = @ + n, !.rx = DropFirst(@, n),
                          !.recvAge = IF x.handler = "auth" THEN @ ELSE 0]
           z == [y EXCEPT !.state = BODY_DONE, !.sendAge = 0]
<1>1. /\ \/ ctx' = ctx
         \/ n # 0 /\ (ctx' = [ctx EXCEPT ![frame.c] = z] \/ ctx' = [ctx EXCEPT ![frame.c] = y])
      /\ n \in ContentReceived(x)
  BY DEF ReceiveBody
<1>2. n \in Nat /\ n <= Len(x.rx)
  <2>1. n \in Nat BY SizesAssumption
  <2>2. x.contentLength \in Int /\ x.contentReceived \in Nat BY <1>t DEF Context
  <2>3. Least(x.contentLength - x.contentReceived, Len(x.rx)) <= Len(x.rx)
    BY <1>t, <2>2 DEF Least
  <2>4. n \in {0, Len(x.rx), Least(x.contentLength - x.contentReceived, Len(x.rx))}
    BY <1>1 DEF ContentReceived
  <2> QED BY <1>t, <2>1, <2>3, <2>4
<1>3. /\ y.ip = x.ip /\ y.rx = DropFirst(x.rx, n) /\ y.queue = x.queue /\ y.offset = x.offset
      /\ y.peerClosing = x.peerClosing /\ y.state = x.state
      /\ z.ip = x.ip /\ z.rx = DropFirst(x.rx, n) /\ z.queue = x.queue /\ z.offset = x.offset
      /\ z.peerClosing = x.peerClosing /\ z.state = BODY_DONE
  BY <1>t DEF Context
<1> HIDE DEF y, z
<1>4. Phase(x.state) = "body" /\ Phase(y.state) = "body" /\ Phase(z.state) = "body"
  BY <1>b, <1>3, Phases
<1>5. ASSUME NEW v \in {y, z}, n # 0 PROVE Stepped(x, v)
  <2>1. n \in 1 .. Len(x.rx) BY <1>t, <1>2, <1>5
  <2>2. /\ v.ip = x.ip /\ v.rx = DropFirst(x.rx, n) /\ v.queue = x.queue
        /\ v.offset = x.offset /\ v.peerClosing = x.peerClosing /\ Phase(v.state) = "body"
    BY <1>3, <1>4
  <2> QED BY <1>t, <1>4, <2>1, <2>2, TakesInput
<1> QED BY <1>0, <1>1, <1>5, PutSteps, SameSteps

(* The header is judged, the handler decides, the response begins and      *)
(* ends; the next request begins behind it.                                *)
LEMMA AnswerSteps ==
    ASSUME Typed, Control,
           \/ \E session, started \in BOOLEAN : AfterHeaders(session, started)
           \/ \E result \in Results : RequestReceived(result)
           \/ HeaderSent \/ NoContent \/ KeepAfterRequest \/ LeaveRequest
    PROVE  Steps
<1> DEFINE x == ctx[frame.c]
<1>0. frame # NoFrame
  BY DEF AfterHeaders, RequestReceived, HeaderSent, NoContent, KeepAfterRequest, LeaveRequest, At
<1>t. /\ x \in Context /\ frame.c \in Ctx /\ ctx \in [Ctx -> Context]
      /\ Fit(frame.pc, x, pcb[frame.c] # NoPcb)
  BY <1>0, RunningFacts
<1>1. ASSUME NEW session \in BOOLEAN, NEW started \in BOOLEAN, AfterHeaders(session, started)
      PROVE  Steps
  <2> DEFINE r == HeadersResult(x, session, started)
             body == x.contentLength > 0
             s == IF r < 0 THEN SENDING_HEADER ELSE IF body THEN BODY_RECEIVING ELSE BODY_DONE
             y == [x EXCEPT !.result = r, !.state = s, !.sendAge = IF body THEN @ ELSE 0]
  <2>1. ctx' = [ctx EXCEPT ![frame.c] = y] /\ frame.pc = "headers" BY <1>1 DEF AfterHeaders, At
  <2>2. Phase(x.state) = "body" BY <1>t, <2>1, Phases DEF Fit
  <2>3. s \in {SENDING_HEADER, BODY_RECEIVING, BODY_DONE} OBVIOUS
  <2> HIDE DEF r, body, s
  <2>4. SameInput(y, x) /\ y.peerClosing = x.peerClosing /\ y.state = s
    BY <1>t DEF Context, SameInput
  <2>5. Phase(s) \in {"body", "response"} BY <2>3, Phases
  <2> HIDE DEF y
  <2>6. Stepped(x, y) BY <2>2, <2>4, <2>5, Unseen, Responds
  <2> QED BY <1>0, <2>1, <2>6, PutSteps
<1>2. ASSUME NEW result \in Results, RequestReceived(result) PROVE Steps
  <2> DEFINE y == [x EXCEPT !.result = result]
  <2>1. ctx' = [ctx EXCEPT ![frame.c] = y] BY <1>0, <1>t, <1>2 DEF RequestReceived
  <2>2. SameInput(y, x) /\ y.peerClosing = x.peerClosing /\ y.state = x.state
    BY <1>t DEF Context, SameInput
  <2> HIDE DEF y
  <2>3. Stepped(x, y) BY <2>2, Unseen
  <2> QED BY <1>0, <2>1, <2>3, PutSteps
<1>3. CASE HeaderSent \/ NoContent
  <2>1. PICK s \in {REQUEST_END, SENDING_BODY} :
           ctx' = ctx \/ ctx' = [ctx EXCEPT ![frame.c] = [x EXCEPT !.state = s]]
    <3>1. ASSUME HeaderSent
          PROVE  \/ ctx' = ctx
                 \/ ctx' = [ctx EXCEPT ![frame.c] = [x EXCEPT !.state =
                              IF x.result < 0 THEN REQUEST_END ELSE SENDING_BODY]]
      BY <1>0, <1>t, <3>1 DEF HeaderSent
    <3>2. ASSUME NoContent
          PROVE  \/ ctx' = ctx
                 \/ ctx' = [ctx EXCEPT ![frame.c] = [x EXCEPT !.state = REQUEST_END]]
      BY <1>0, <1>t, <3>2 DEF NoContent
    <3> QED BY <1>3, <3>1, <3>2
  <2> DEFINE y == [x EXCEPT !.state = s]
  <2>2. SameInput(y, x) /\ y.peerClosing = x.peerClosing /\ y.state = s
    BY <1>t DEF Context, SameInput
  <2>3. Phase(s) = "response" BY Phases
  <2>4. Phase(x.state) \in {"body", "response"}
    <3>1. CASE HeaderSent
      <4>1. frame.pc = "response" BY <3>1 DEF HeaderSent, At
      <4> QED BY <1>t, <4>1, Phases DEF Fit
    <3>2. CASE NoContent
      <4>1. frame.pc = "content" BY <3>2 DEF NoContent, At
      <4> QED BY <1>t, <4>1, Phases DEF Fit
    <3> QED BY <1>3, <3>1, <3>2
  <2>5. ctx' = ctx \/ ctx' = [ctx EXCEPT ![frame.c] = y] BY <2>1
  <2> HIDE DEF y
  <2>6. Stepped(x, y) BY <2>2, <2>3, <2>4, Responds
  <2> QED BY <1>0, <2>5, <2>6, PutSteps, SameSteps
<1>4. CASE KeepAfterRequest
  <2> DEFINE y == ResetHttpContext(x)
  <2>1. ctx' = [ctx EXCEPT ![frame.c] = y] /\ x.state = REQUEST_END /\ ~x.peerClosing
    BY <1>4 DEF KeepAfterRequest
  <2>2. SameInput(y, x) /\ y.peerClosing = x.peerClosing /\ y.state = IDLE
    BY <1>t DEF ResetHttpContext, Context, SameInput
  <2> HIDE DEF y
  <2>3. Pending(y) = Pending(x) /\ y.ip = x.ip BY <2>2 DEF SameInput, Pending
  <2>4. Stepped(x, y) BY <2>1, <2>2, <2>3, Phases, ChangesPhase
  <2> QED BY <1>0, <2>1, <2>4, PutSteps
<1>5. CASE LeaveRequest
  <2> DEFINE y == [x EXCEPT !.result = -500]
  <2>1. ctx' = ctx \/ ctx' = [ctx EXCEPT ![frame.c] = y] BY <1>0, <1>t, <1>5 DEF LeaveRequest
  <2>2. SameInput(y, x) /\ y.peerClosing = x.peerClosing /\ y.state = x.state
    BY <1>t DEF Context, SameInput
  <2> HIDE DEF y
  <2>3. Stepped(x, y) BY <2>2, Unseen
  <2> QED BY <1>0, <2>1, <2>3, PutSteps, SameSteps
<1> QED BY <1>1, <1>2, <1>3, <1>4, <1>5

(* A write belongs to the response.                                        *)
LEMMA WriteSteps ==
    ASSUME Typed, frame # NoFrame, NEW y \in Context, NEW ok \in BOOLEAN, NEW label,
           sendBuffered(frame.c, y, ok, label), SameInput(y, ctx[frame.c]),
           y.peerClosing = ctx[frame.c].peerClosing, Phase(y.state) = "response",
           Phase(ctx[frame.c].state) \in {"body", "response"}
    PROVE  Steps
<1> DEFINE w == Written(frame.c, y)
           z == [y EXCEPT !.state = REQUEST_END, !.result = -500]
<1>1. ctx' = [ctx EXCEPT ![frame.c] = w] \/ ctx' = [ctx EXCEPT ![frame.c] = z]
  BY DEF sendBuffered
<1>2. /\ SameInput(w, y) /\ w.peerClosing = y.peerClosing /\ w.state = y.state
      /\ SameInput(z, y) /\ z.peerClosing = y.peerClosing /\ z.state = REQUEST_END
  BY DEF Written, Context, SameInput
<1> HIDE DEF w, z
<1>3. ASSUME NEW v \in {w, z} PROVE Stepped(ctx[frame.c], v)
  <2>1. SameInput(v, y) /\ v.peerClosing = y.peerClosing BY <1>2
  <2>2. SameInput(v, ctx[frame.c]) BY <2>1 DEF SameInput
  <2>3. Phase(v.state) = "response" BY <1>2, Phases
  <2> QED BY <2>1, <2>2, <2>3, Responds
<1> QED BY <1>1, <1>3, PutSteps

(* The three places that write.                                            *)
LEMMA ResponseSteps ==
    ASSUME Typed, Control, NEW ok \in BOOLEAN,
           \/ SendRemaining(ok) \/ SendHeader(ok)
           \/ \E out \in [n : -1 .. 1, stage : Stages, result : Results] : LoadContent(out, ok)
    PROVE  Steps
<1> DEFINE x == ctx[frame.c]
<1>0. frame # NoFrame BY DEF SendRemaining, SendHeader, LoadContent, At
<1>t. /\ Good(x) /\ x \in Context /\ frame.c \in Ctx /\ ctx \in [Ctx -> Context]
      /\ Fit(frame.pc, x, pcb[frame.c] # NoPcb)
  BY <1>0, RunningFacts
<1>1. CASE SendRemaining(ok)
  <2>1. sendBuffered(frame.c, x, ok, "end") /\ x.bytesLeft > 0 /\ frame.pc = "response"
    BY <1>1 DEF SendRemaining, HasRemaining, At
  <2>2. x.bytesLeft # 0 BY <2>1
  <2>3. x.state \in {SENDING_HEADER, SENDING_BODY} BY <1>t, <2>1, <2>2, Zenon DEF Fit
  <2>4. Phase(x.state) = "response" BY <2>3, Phases
  <2>5. SameInput(x, x) BY DEF SameInput
  <2> QED BY <1>0, <1>t, <2>1, <2>4, <2>5, WriteSteps
<1>2. CASE SendHeader(ok)
  <2> DEFINE s == IF x.result = CODE_REDIRECT THEN SENDING_BODY ELSE SENDING_HEADER
             y == [x EXCEPT !.stage = 0, !.sendAge = 0, !.bytesLeft = HeaderLen,
                            !.sending = ok, !.state = s]
  <2>1. sendBuffered(frame.c, y, ok, "content") /\ frame.pc = "response"
    BY <1>2 DEF SendHeader, At
  <2>2. s \in States /\ Phase(s) = "response" BY Constants, Phases
  <2>3. y \in Context BY <1>t, <2>2, ResponseKeeps DEF Keeps, Good
  <2> HIDE DEF s
  <2>4. SameInput(y, x) /\ y.peerClosing = x.peerClosing /\ y.state = s
    BY <1>t DEF Context, SameInput
  <2>5. Phase(x.state) \in {"body", "response"} BY <1>t, <2>1, Phases DEF Fit
  <2> HIDE DEF y
  <2> QED BY <1>0, <2>1, <2>2, <2>3, <2>4, <2>5, WriteSteps
<1>3. ASSUME NEW out \in [n : -1 .. 1, stage : Stages, result : Results], LoadContent(out, ok)
      PROVE  Steps
  <2> DEFINE y == [x EXCEPT !.stage = out.stage, !.result = out.result]
             v == [y EXCEPT !.bytesLeft = @ + out.n]
             z == [y EXCEPT !.state = REQUEST_END]
  <2>1. /\ IF out.n > 0 THEN sendBuffered(frame.c, v, ok, "end")
           ELSE ctx' = [ctx EXCEPT ![frame.c] = IF out.n < 0 THEN z ELSE y]
        /\ x.state = SENDING_BODY
    BY <1>3 DEF LoadContent
  <2>2. out.n \in -1 .. 1 /\ out.stage \in Stages /\ out.result \in Results OBVIOUS
  <2>3. Keeps(y, x) BY <1>t, <2>2, StageKeeps
  <2>4. /\ SameInput(v, x) /\ v.peerClosing = x.peerClosing /\ v.state = x.state
        /\ SameInput(y, x) /\ y.peerClosing = x.peerClosing /\ y.state = x.state
        /\ SameInput(z, x) /\ z.peerClosing = x.peerClosing /\ z.state = REQUEST_END
    BY <1>t DEF Context, SameInput
  <2>5. Phase(x.state) = "response" BY <2>1, Phases
  <2>6. CASE out.n > 0
    <3>1. Keeps(v, y)
      <4> HIDE DEF y
      <4>1. out.n \in Nat BY <2>2, <2>6
      <4> QED BY <2>3, <4>1, BytesKeeps DEF Keeps
    <3>2. v \in Context BY <3>1 DEF Keeps, Good
    <3> HIDE DEF v
    <3> QED BY <1>0, <2>1, <2>4, <2>5, <2>6, <3>2, WriteSteps
  <2>7. CASE ~ (out.n > 0)
    <3> HIDE DEF y, z
    <3>1. ctx' = [ctx EXCEPT ![frame.c] = y] \/ ctx' = [ctx EXCEPT ![frame.c] = z]
      BY <2>1, <2>7
    <3>2. Stepped(x, y) BY <2>4, Unseen
    <3>3. Stepped(x, z) BY <2>4, <2>5, Phases, Unseen
    <3> QED BY <1>0, <3>1, <3>2, <3>3, PutSteps
  <2> QED BY <2>6, <2>7
<1> QED BY <1>1, <1>2, <1>3

(* Every step of HttpRequestProc is one of its connection.                 *)
LEMMA WorkingSteps ==
    ASSUME Typed, Control, Working,
           ctx[frame.c].state = IDLE => ~ctx[frame.c].peerClosing
    PROVE  Steps
<1>1. CASE LoopHead \/ UnlinkPbuf \/ StartRequest BY <1>1, QueueSteps
<1>2. CASE ParseLine \/ ParseEmptyLine \/ LinesExhausted BY <1>2, ParseSteps
<1>3. CASE \E n \in 0 .. MaxReqBuf : ReceiveBody(n) BY <1>3, BodySteps
<1>4. CASE \/ \E session, started \in BOOLEAN : AfterHeaders(session, started)
           \/ \E result \in Results : RequestReceived(result)
           \/ HeaderSent \/ NoContent \/ KeepAfterRequest \/ LeaveRequest
  BY <1>4, AnswerSteps
<1>5. CASE \/ \E ok \in BOOLEAN : SendRemaining(ok) \/ SendHeader(ok)
           \/ \E out \in [n : -1 .. 1, stage : Stages, result : Results], ok \in BOOLEAN :
                 LoadContent(out, ok)
  BY <1>5, ResponseSteps
<1> QED BY <1>1, <1>2, <1>3, <1>4, <1>5 DEF Working

-----------------------------------------------------------------------------
(* Who has closed.                                                         *)

(* A peer that a context knows to have closed its side has, and it is not  *)
(* waited for: the server does not begin a request for it.                 *)
Closing(c) ==
    pcb[c] # NoPcb => /\ ctx[c].peerClosing => link[pcb[c]].fin
                      /\ ctx[c].state = IDLE => ~ctx[c].peerClosing
Closings == restarts = 0 => \A c \in Ctx : Closing(c)

FinsSame == \A p \in Pcbs : link'[p].fin = link[p].fin

(* No step of HttpRequestProc closes a peer's side.                        *)
LEMMA WorkingFins ==
    ASSUME Typed, Working
    PROVE  FinsSame
<1>t. link \in [Pcbs -> Link] BY DEF Typed, TypeOK
<1>1. ASSUME NEW q, NEW v, link' = [link EXCEPT ![q].unread = v] PROVE FinsSame
  BY <1>t, <1>1 DEF Link, FinsSame
<1>2. ASSUME NEW q, NEW v, link' = [link EXCEPT ![q].stream = v] PROVE FinsSame
  BY <1>t, <1>2 DEF Link, FinsSame
<1>3. ASSUME NEW q, NEW v, link' = [link EXCEPT ![q].unacked = v] PROVE FinsSame
  BY <1>t, <1>3 DEF Link, FinsSame
<1>4. ASSUME link' = link PROVE FinsSame BY <1>4 DEF FinsSame
<1>5. ASSUME NEW n, link' = Recved(frame.c, n) PROVE FinsSame
  <2>1. link' = link \/ \E v : link' = [link EXCEPT ![pcb[frame.c]].unread = v]
    BY <1>5 DEF Recved
  <2> QED BY <1>1, <1>4, <2>1
<1>6. ASSUME NEW n, link' = Consumed(frame.c, n) PROVE FinsSame
  <2>1. link' = link \/ \E v : link' = [link EXCEPT ![pcb[frame.c]].stream = v]
    BY <1>6 DEF Consumed
  <2> QED BY <1>2, <1>4, <2>1
<1>7. ASSUME NEW x, NEW ok, NEW label, sendBuffered(frame.c, x, ok, label) PROVE FinsSame
  <2>1. link' = link \/ link' = InFlight(frame.c, x) BY <1>7 DEF sendBuffered
  <2>2. link' = link \/ \E v : link' = [link EXCEPT ![pcb[frame.c]].unacked = v]
    BY <2>1 DEF InFlight
  <2> QED BY <1>3, <1>4, <2>2
<1>8. CASE UnlinkPbuf BY <1>8, <1>5 DEF UnlinkPbuf
<1>9. CASE ParseLine BY <1>9, <1>4, <1>6 DEF ParseLine
<1>10. CASE ParseEmptyLine \/ LinesExhausted BY <1>10, <1>6 DEF ParseEmptyLine, LinesExhausted
<1>11. CASE \E n \in 0 .. MaxReqBuf : ReceiveBody(n) BY <1>11, <1>6 DEF ReceiveBody
<1>12. CASE \E ok \in BOOLEAN : SendRemaining(ok) \/ SendHeader(ok)
  BY <1>12, <1>7 DEF SendRemaining, SendHeader
<1>13. CASE \E out \in [n : -1 .. 1, stage : Stages, result : Results], ok \in BOOLEAN :
               LoadContent(out, ok)
  BY <1>13, <1>4, <1>7 DEF LoadContent
<1>14. CASE \/ LoopHead \/ StartRequest
            \/ \E session, started \in BOOLEAN : AfterHeaders(session, started)
            \/ \E result \in Results : RequestReceived(result)
            \/ HeaderSent \/ NoContent \/ KeepAfterRequest \/ LeaveRequest
  BY <1>14, <1>4 DEF LoopHead, StartRequest, AfterHeaders, RequestReceived, HeaderSent, NoContent,
                     KeepAfterRequest, LeaveRequest
<1> QED BY <1>8, <1>9, <1>10, <1>11, <1>12, <1>13, <1>14 DEF Working

(* One context changes, and no more than its connection with it.           *)
LEMMA OneClosing ==
    ASSUME Typed, Cleaned, Closings, restarts' = restarts, NEW c \in Ctx,
           restarts = 0 => Closing(c)',
           \A d \in Ctx : d # c => pcb'[d] = pcb[d] /\ ctx'[d] = ctx[d],
           \A p \in Pcbs : p # pcb[c] => link'[p].fin = link[p].fin
    PROVE  Closings'
<1> SUFFICES ASSUME restarts = 0, NEW d \in Ctx PROVE Closing(d)'
  BY DEF Closings
<1>1. CASE d = c BY <1>1
<1>2. CASE d # c
  <2>1. pcb'[d] = pcb[d] /\ ctx'[d] = ctx[d] BY <1>2
  <2>2. CASE pcb[d] # NoPcb
    <3>1. pcb[d] \in Pcbs /\ pcb[d] # pcb[c] BY <1>2, <2>2, Distinct DEF Typed, TypeOK
    <3>2. link'[pcb[d]].fin = link[pcb[d]].fin BY <3>1
    <3>3. Closing(d) BY DEF Closings
    <3> QED BY <2>1, <2>2, <3>2, <3>3 DEF Closing
  <2>3. CASE pcb[d] = NoPcb BY <2>1, <2>3 DEF Closing
  <2> QED BY <2>2, <2>3
<1> QED BY <1>1, <1>2

(* Nobody closes, and no context comes to wait for a request.              *)
LEMMA SameClosings ==
    ASSUME Typed, Closings, restarts' = restarts, pcb' = pcb, FinsSame,
           \A d \in Ctx : /\ ctx'[d].peerClosing = ctx[d].peerClosing
                          /\ ctx'[d].state = IDLE => ctx[d].state = IDLE \/ ~ctx[d].peerClosing
    PROVE  Closings'
<1> SUFFICES ASSUME restarts = 0, NEW d \in Ctx, pcb[d] # NoPcb PROVE Closing(d)'
  BY DEF Closings, Closing
<1>1. pcb[d] \in Pcbs BY DEF Typed, TypeOK
<1>2. Closing(d) BY DEF Closings
<1> QED BY <1>1, <1>2 DEF Closing, FinsSame

-----------------------------------------------------------------------------
(* What the peers see of a step.                                           *)

Serving == [Server!Next]_Shown

(* A connection that is not served, in both vocabularies.                  *)
LEMMA UnservedFacts ==
    /\ Server!None = Unserved("none") /\ Server!Closing = Unserved("closing")
    /\ Server!None.phase = "none" /\ Server!Closing.phase = "closing"
<1>2. ASSUME NEW e PROVE [Server!Fresh(NoPcb) EXCEPT !.phase = e] = Unserved(e)
  <2>1. PICK a, i, f : a = "idle" /\ i = << >> /\ f = FALSE OBVIOUS
  <2>2. Server!Fresh(NoPcb) = [phase |-> a, addr |-> NoPcb, input |-> i, fin |-> f]
    BY <2>1, Zenon DEF Server!Fresh
  <2>3. Unserved(e) = [phase |-> e, addr |-> NoPcb, input |-> i, fin |-> f]
    BY <2>1, Zenon DEF Unserved
  <2> QED BY <2>2, <2>3
<1>3. Server!None = Unserved("none") BY <1>2, Zenon DEF Server!None
<1>4. Server!Closing = Unserved("closing") BY <1>2, Zenon DEF Server!Closing
<1>5. \A e : Unserved(e).phase = e BY DEF Unserved
<1> QED BY <1>3, <1>4, <1>5

(* What is shown of a connection, before the first restart.                *)
LEMMA ShownCases ==
    ASSUME restarts = 0, NEW p \in Pcbs
    PROVE  /\ ~open[p] => Shown[p] = Server!None
           /\ open[p] /\ arg[p] = NoCtx => Shown[p] = Server!Closing
           /\ open[p] /\ arg[p] # NoCtx => Shown[p] = ShownAs(ctx[arg[p]])
<1>1. ~(restarts > 0) OBVIOUS
<1> QED BY <1>1, UnservedFacts DEF Shown

(* The same, after a step.                                                 *)
LEMMA ShownCasesAfter ==
    ASSUME restarts' = 0, NEW p \in Pcbs
    PROVE  /\ ~open'[p] => Shown'[p] = Server!None
           /\ open'[p] /\ arg'[p] = NoCtx => Shown'[p] = Server!Closing
           /\ open'[p] /\ arg'[p] # NoCtx => Shown'[p] = ShownAs(ctx'[arg'[p]])
<1>1. ~(restarts' > 0) OBVIOUS
<1> QED BY <1>1, UnservedFacts DEF Shown

(* The phases of what is shown.                                            *)
LEMMA ShownPhases ==
    \A x : /\ ShownAs(x).phase = Phase(x.state) /\ ShownAs(x).addr = x.ip
           /\ ShownAs(x).fin = x.peerClosing
           /\ ShownAs(x).phase \in {"idle", "header", "body", "response"}
BY PhaseType DEF ShownAs

(* Nothing is seen, or one connection moves on.                            *)
LEMMA OneServed ==
    ASSUME NEW p \in Pcbs, \A q \in Pcbs : q # p => Shown'[q] = Shown[q],
           Shown'[p] = Shown[p] \/ Server!Serves(Shown[p], Shown'[p])
    PROVE  Serving
<1>1. CASE Shown'[p] = Shown[p]
  <2>1. \A q \in Pcbs : Shown'[q] = Shown[q] BY <1>1
  <2>2. Shown' = Shown BY <2>1 DEF Shown
  <2> QED BY <2>2 DEF Serving
<1>2. CASE Server!Serves(Shown[p], Shown'[p])
  <2>1. Server!Only(p) BY DEF Server!Only
  <2> QED BY <1>2, <2>1 DEF Serving, Server!Next, Server!Serve
<1> QED BY <1>1, <1>2

(* The other connections see nothing: theirs are neither closed nor tied   *)
(* to another context, and their contexts look the same.                   *)
Others(p) ==
    \A q \in Pcbs : q # p =>
        /\ open'[q] = open[q] /\ arg'[q] = arg[q]
        /\ arg[q] # NoCtx => ShownAs(ctx'[arg[q]]) = ShownAs(ctx[arg[q]])

(* What is shown of them is the same.                                      *)
LEMMA OthersSame ==
    ASSUME restarts = 0, restarts' = 0, NEW p, Others(p)
    PROVE  \A q \in Pcbs : q # p => Shown'[q] = Shown[q]
<1> SUFFICES ASSUME NEW q \in Pcbs, q # p PROVE Shown'[q] = Shown[q]
  OBVIOUS
<1>1. /\ open'[q] = open[q] /\ arg'[q] = arg[q]
      /\ arg[q] # NoCtx => ShownAs(ctx'[arg[q]]) = ShownAs(ctx[arg[q]])
  BY DEF Others
<1>2. CASE ~open[q] BY <1>1, <1>2, ShownCases, ShownCasesAfter
<1>3. CASE open[q] /\ arg[q] = NoCtx BY <1>1, <1>3, ShownCases, ShownCasesAfter
<1>4. CASE open[q] /\ arg[q] # NoCtx
  <2>1. Shown[q] = ShownAs(ctx[arg[q]]) BY <1>4, ShownCases
  <2>2. Shown'[q] = ShownAs(ctx'[arg'[q]]) BY <1>1, <1>4, ShownCasesAfter
  <2> QED BY <1>1, <1>4, <2>1, <2>2, Zenon
<1> QED BY <1>2, <1>3, <1>4

(* A connection that keeps its context.                                    *)
LEMMA StaysServed ==
    ASSUME restarts = 0, restarts' = 0, NEW p \in Pcbs, Others(p), open[p], open'[p],
           arg[p] # NoCtx, arg'[p] = arg[p],
           \/ ShownAs(ctx'[arg[p]]) = ShownAs(ctx[arg[p]])
           \/ Server!Serves(ShownAs(ctx[arg[p]]), ShownAs(ctx'[arg[p]]))
    PROVE  Serving
<1>1. Shown[p] = ShownAs(ctx[arg[p]]) BY ShownCases
<1>2. Shown'[p] = ShownAs(ctx'[arg[p]])
  <2>1. Shown'[p] = ShownAs(ctx'[arg'[p]]) BY ShownCasesAfter
  <2> QED BY <2>1, Zenon
<1>3. Shown'[p] = Shown[p] \/ Server!Serves(Shown[p], Shown'[p]) BY <1>1, <1>2, Zenon
<1> QED BY <1>3, OthersSame, OneServed

(* A connection that loses its context, or that is closed.                 *)
LEMMA EndsServed ==
    ASSUME restarts = 0, restarts' = 0, NEW p \in Pcbs, Others(p), open[p],
           ~open'[p] \/ arg'[p] = NoCtx
    PROVE  Serving
<1> DEFINE c == Shown[p]
           d == Shown'[p]
<1>1. c = Server!Closing \/ c.phase \in {"idle", "header", "body", "response"}
  BY ShownCases, ShownPhases
<1>2. d = Server!None \/ d = Server!Closing BY ShownCasesAfter
<1>3. c.phase # "none" BY <1>1, UnservedFacts
<1>4. c = Server!Closing \/ c.phase \notin {"none", "closing"} BY <1>1
<1> HIDE DEF c, d
<1>5. d = c \/ Server!Ends(c, d) BY <1>2, <1>3, <1>4 DEF Server!Ends
<1>6. d = c \/ Server!Serves(c, d) BY <1>5 DEF Server!Serves
<1> QED BY <1>6, OthersSame, OneServed DEF c, d

(* A step that no connection sees.                                         *)
LEMMA NotSeen ==
    ASSUME restarts = 0, restarts' = 0, open' = open, arg' = arg,
           \A q \in Pcbs : arg[q] # NoCtx => ShownAs(ctx'[arg[q]]) = ShownAs(ctx[arg[q]])
    PROVE  Serving
<1>1. Others(NoPcb) BY DEF Others
<1>2. \A q \in Pcbs : q # NoPcb BY NullAssumption
<1>3. \A q \in Pcbs : Shown'[q] = Shown[q] BY <1>1, <1>2, OthersSame
<1>4. Shown' = Shown BY <1>3 DEF Shown
<1> QED BY <1>4 DEF Serving

(* Nothing is promised after a restart.                                    *)
LEMMA AfterRestart ==
    ASSUME restarts' > 0
    PROVE  Serving
<1>1. Shown' = [p \in Pcbs |-> Server!None] BY UnservedFacts DEF Shown
<1>2. Server!Stop BY <1>1 DEF Server!Stop
<1> QED BY <1>2 DEF Serving, Server!Next

(* A server that was restarted once stays so.                              *)
LEMMA Restarted ==
    ASSUME Typed, restarts' = restarts \/ restarts' > 0, restarts # 0
    PROVE  Serving /\ Closings'
<1>1. restarts' > 0 BY SizesAssumption DEF Typed, TypeOK
<1>2. restarts' # 0 BY <1>1
<1>3. Closings' BY <1>2 DEF Closings
<1> QED BY <1>1, <1>3, AfterRestart

-----------------------------------------------------------------------------
(* The steps and the events.                                               *)

(* A connection and the one context that serves it.                        *)
LEMMA ServedBy ==
    ASSUME Typed, Ownership, restarts = 0, NEW p \in Pcbs, arg[p] # NoCtx
    PROVE  /\ arg[p] \in Ctx /\ pcb[arg[p]] = p /\ p # NoPcb /\ open[p]
           /\ \A q \in Pcbs : q # p => arg[q] # arg[p]
<1>1. arg[p] \in Ctx BY DEF Typed, TypeOK
<1>2. \A q \in Pcbs : arg[q] # NoCtx => open[q] /\ pcb[arg[q]] = q BY DEF Ownership
<1> QED BY <1>1, <1>2, NullAssumption

(* HttpRequestProc serves the connection of the callback, and no other.    *)
LEMMA WorkingServes ==
    ASSUME Typed, Ownership, Control, Cleaned, Closings, Working
    PROVE  Serving /\ Closings'
<1> DEFINE c == frame.c
<1>1. /\ Local /\ UNCHANGED Pool /\ frame # NoFrame /\ frame.pc \notin {"cancel", "close"}
  BY WorkingLocal
<1>2. c \in Ctx BY <1>1, FrameFacts
<1>3. UNCHANGED <<open, arg, pcb, restarts>> BY <1>1 DEF Pool
<1>4. CASE restarts # 0 BY <1>3, <1>4, Restarted
<1>5. CASE restarts = 0
  <2>1. PICK p \in Pcbs : arg[p] = c
    <3>1. ~Unused(c) BY <1>1 DEF Cleaned
    <3>2. pcb[c] # NoPcb => pcb[c] \in Pcbs /\ arg[pcb[c]] = c
      BY <1>2, <1>5 DEF Ownership, Typed, TypeOK
    <3> QED BY <3>1, <3>2 DEF Unused
  <2>2. arg[p] # NoCtx BY <1>2, <2>1, NullAssumption
  <2>3. pcb[c] = p /\ p # NoPcb /\ open[p] /\ \A q \in Pcbs : q # p => arg[q] # c
    BY <1>5, <2>1, <2>2, ServedBy
  <2>4. Closing(c) BY <1>2, <1>5 DEF Closings
  <2>5. Stepped(ctx[c], ctx'[c]) BY <2>3, <2>4, WorkingSteps DEF Closing, Steps
  <2>6. \A d \in Ctx : d # c => ctx'[d] = ctx[d] BY <1>1 DEF Local
  <2>7. Others(p)
    <3> SUFFICES ASSUME NEW q \in Pcbs, q # p, arg[q] # NoCtx
                 PROVE  ShownAs(ctx'[arg[q]]) = ShownAs(ctx[arg[q]])
      BY <1>3 DEF Others
    <3>1. arg[q] \in Ctx /\ arg[q] # c BY <2>3 DEF Typed, TypeOK
    <3>2. ctx'[arg[q]] = ctx[arg[q]] BY <2>6, <3>1
    <3> QED BY <3>2
  <2>8. Serving
    <3>1. \/ ShownAs(ctx'[arg[p]]) = ShownAs(ctx[arg[p]])
          \/ Server!Serves(ShownAs(ctx[arg[p]]), ShownAs(ctx'[arg[p]]))
      BY <2>1, <2>5, Zenon DEF Stepped
    <3>2. open'[p] /\ arg'[p] = arg[p] /\ restarts' = 0 BY <1>3, <1>5, <2>3
    <3> QED BY <1>5, <2>2, <2>3, <2>7, <3>1, <3>2, StaysServed
  <2>9. Closings'
    <3>1. ASSUME NEW d \in Ctx
          PROVE  /\ ctx'[d].peerClosing = ctx[d].peerClosing
                 /\ ctx'[d].state = IDLE => ctx[d].state = IDLE \/ ~ctx[d].peerClosing
      <4>1. CASE d = c BY <2>5, <4>1, Zenon DEF Stepped
      <4>2. CASE d # c BY <2>6, <4>2
      <4> QED BY <4>1, <4>2
    <3> QED BY <1>3, <3>1, WorkingFins, SameClosings
  <2> QED BY <2>8, <2>9
<1> QED BY <1>4, <1>5

(* A closed connection is gone, or waits for OnHttpPoll.                   *)
LEMMA CloseServes ==
    ASSUME Typed, Ownership, Cleaned, Closings, NEW c \in Ctx, NEW lk, NEW closed \in BOOLEAN,
           CloseHttpContext(c, lk, closed), DOMAIN lk = Pcbs,
           restarts = 0 => \A p \in Pcbs : p # pcb[c] => lk[p].fin = link[p].fin
    PROVE  Serving /\ Closings'
<1>t. /\ open \in [Pcbs -> BOOLEAN] /\ arg \in [Pcbs -> Ctx \cup {NoCtx}]
      /\ pcb \in [Ctx -> Pcbs \cup {NoPcb}]
  BY DEF Typed, TypeOK
<1>1. /\ pcb'[c] = NoPcb
      /\ \A d \in Ctx : d # c => pcb'[d] = pcb[d] /\ ctx'[d] = ctx[d]
  BY CloseFacts
<1>2. restarts' = restarts BY DEF CloseHttpContext
<1>3. CASE restarts # 0 BY <1>2, <1>3, Restarted
<1>4. CASE restarts = 0
  <2>1. Closings'
    <3>1. link' = lk \/ link' = [lk EXCEPT ![pcb[c]] = Unlinked] BY DEF CloseHttpContext
    <3>2. \A p \in Pcbs : p # pcb[c] => link'[p] = lk[p] BY <3>1
    <3>3. Closing(c)' BY <1>1 DEF Closing
    <3>4. \A p \in Pcbs : p # pcb[c] => link'[p].fin = link[p].fin BY <1>4, <3>2
    <3> QED BY <1>1, <1>2, <3>3, <3>4, OneClosing
  <2>2. CASE pcb[c] # NoPcb
    <3> DEFINE p == pcb[c]
    <3>1. /\ arg' = [arg EXCEPT ![p] = NoCtx] /\ open' = [open EXCEPT ![p] = ~closed]
      BY <2>2 DEF CloseHttpContext
    <3>2. p \in Pcbs /\ arg[p] = c BY <1>t, <1>4, <2>2 DEF Ownership
    <3>3. arg[p] # NoCtx BY <3>2, NullAssumption
    <3>4. open[p] /\ \A q \in Pcbs : q # p => arg[q] # c
      BY <1>4, <3>2, <3>3, ServedBy
    <3> HIDE DEF p
    <3>5. Others(p)
      <4> SUFFICES ASSUME NEW q \in Pcbs, q # p
                   PROVE  /\ open'[q] = open[q] /\ arg'[q] = arg[q]
                          /\ arg[q] # NoCtx => ShownAs(ctx'[arg[q]]) = ShownAs(ctx[arg[q]])
        BY DEF Others
      <4>1. open'[q] = open[q] /\ arg'[q] = arg[q] BY <1>t, <3>1
      <4>2. arg[q] # NoCtx => arg[q] \in Ctx /\ arg[q] # c BY <1>t, <3>4
      <4>3. arg[q] # NoCtx => ctx'[arg[q]] = ctx[arg[q]] BY <1>1, <4>2
      <4> QED BY <4>1, <4>3
    <3>6. arg'[p] = NoCtx BY <1>t, <3>1, <3>2
    <3>7. Serving BY <1>2, <1>4, <3>2, <3>4, <3>5, <3>6, EndsServed
    <3> QED BY <2>1, <3>7
  <2>3. CASE pcb[c] = NoPcb
    <3>1. open' = open /\ arg' = arg BY <2>3 DEF CloseHttpContext
    <3>2. ASSUME NEW q \in Pcbs, arg[q] # NoCtx
          PROVE  ShownAs(ctx'[arg[q]]) = ShownAs(ctx[arg[q]])
      <4>1. arg[q] \in Ctx /\ arg[q] # c BY <1>4, <2>3, <3>2, ServedBy
      <4>2. ctx'[arg[q]] = ctx[arg[q]] BY <1>1, <4>1
      <4> QED BY <4>2
    <3>3. Serving BY <1>2, <1>4, <3>1, <3>2, NotSeen
    <3> QED BY <2>1, <3>3
  <2> QED BY <2>2, <2>3
<1> QED BY <1>3, <1>4

(* The five places that close a connection.                                *)
LEMMA CloseStepsServe ==
    ASSUME Typed, Ownership, Cleaned, Closings, NEW closed \in BOOLEAN,
           \/ \E p \in Pcbs : OnPeerCloseIdle(p, closed) \/ OnHttpPollTimeout(p, closed)
           \/ CloseAfterRequest(closed)
           \/ CloseIfAborted(closed)
    PROVE  Serving /\ Closings'
<1>t. link \in [Pcbs -> Link] /\ arg \in [Pcbs -> Ctx \cup {NoCtx}] BY DEF Typed, TypeOK
<1>1. ASSUME NEW p \in Pcbs, OnPeerCloseIdle(p, closed) PROVE Serving /\ Closings'
  <2> DEFINE lk == [link EXCEPT ![p].fin = TRUE]
  <2>1. arg[p] \in Ctx /\ arg[p] # NoCtx /\ CloseHttpContext(arg[p], lk, closed)
    BY <1>1, <1>t DEF OnPeerCloseIdle
  <2>2. DOMAIN lk = Pcbs /\ \A q \in Pcbs : q # p => lk[q].fin = link[q].fin BY <1>t
  <2>3. restarts = 0 => pcb[arg[p]] = p BY <2>1, ServedBy
  <2> HIDE DEF lk
  <2>4. restarts = 0 => \A q \in Pcbs : q # pcb[arg[p]] => lk[q].fin = link[q].fin
    BY <2>2, <2>3
  <2> QED BY <2>1, <2>2, <2>4, CloseServes
<1>2. ASSUME NEW p \in Pcbs, OnHttpPollTimeout(p, closed) PROVE Serving /\ Closings'
  <2>1. arg[p] \in Ctx /\ CloseHttpContext(arg[p], link, closed)
    BY <1>2, <1>t DEF OnHttpPollTimeout
  <2> QED BY <1>t, <2>1, CloseServes
<1>3. CASE CloseAfterRequest(closed) \/ CloseIfAborted(closed)
  <2>1. frame # NoFrame /\ CloseHttpContext(frame.c, link, closed)
    BY <1>3 DEF CloseAfterRequest, CloseIfAborted, At
  <2>2. frame.c \in Ctx BY <2>1, FrameFacts
  <2> QED BY <1>t, <2>1, <2>2, CloseServes
<1> QED BY <1>1, <1>2, <1>3

(* A context that looks the same to its peer.                              *)
LooksSame(y, x) == SameInput(y, x) /\ y.state = x.state /\ y.peerClosing = x.peerClosing

(* It is shown the same.                                                   *)
LEMMA LooksShown ==
    ASSUME NEW x, NEW y, LooksSame(y, x)
    PROVE  ShownAs(y) = ShownAs(x)
<1>1. Pending(y) = Pending(x) BY DEF LooksSame, SameInput, Pending
<1> QED BY <1>1 DEF LooksSame, SameInput, ShownAs

(* The steps that no peer sees.                                            *)
LEMMA LooksServe ==
    ASSUME Typed, Closings, UNCHANGED <<open, arg, pcb, restarts>>, FinsSame,
           \A d \in Ctx : LooksSame(ctx'[d], ctx[d])
    PROVE  Serving /\ Closings'
<1>1. CASE restarts # 0 BY <1>1, Restarted
<1>2. CASE restarts = 0
  <2>1. ASSUME NEW q \in Pcbs, arg[q] # NoCtx PROVE ShownAs(ctx'[arg[q]]) = ShownAs(ctx[arg[q]])
    <3>1. arg[q] \in Ctx BY <2>1 DEF Typed, TypeOK
    <3> QED BY <3>1, LooksShown
  <2>2. Serving BY <1>2, <2>1, NotSeen
  <2>3. ASSUME NEW d \in Ctx
        PROVE  ctx'[d].peerClosing = ctx[d].peerClosing /\ ctx'[d].state = ctx[d].state
    BY DEF LooksSame
  <2>4. Closings' BY <2>3, SameClosings
  <2> QED BY <2>2, <2>4
<1> QED BY <1>1, <1>2

(* Acknowledgements, polls, the clock, the ends of callbacks.              *)
LEMMA QuietServes ==
    ASSUME Typed, Closings,
           \/ \E p \in Pcbs : OnHttpPoll(p) \/ \E n \in 1 .. SndBuf : OnHttpSent(p, n)
           \/ HttpdInit \/ Tick \/ CancelIfFailed \/ Return \/ UNCHANGED vars
    PROVE  Serving /\ Closings'
<1>t. ctx \in [Ctx -> Context] /\ link \in [Pcbs -> Link] /\ arg \in [Pcbs -> Ctx \cup {NoCtx}]
  BY DEF Typed, TypeOK
<1>1. ASSUME NEW p \in Pcbs, NEW n \in 1 .. SndBuf, OnHttpSent(p, n) PROVE Serving /\ Closings'
  <2> DEFINE c == arg[p]
             y == [ctx[c] EXCEPT !.due = @ - n]
             l == [link[p] EXCEPT !.unacked = @ - n]
  <2>1. c \in Ctx BY <1>t, <1>1 DEF OnHttpSent
  <2>2. /\ ctx' = [ctx EXCEPT ![c] = y] /\ link' = [link EXCEPT ![p] = l]
        /\ UNCHANGED <<open, arg, pcb, restarts>>
    BY <1>t, <1>1, <2>1 DEF OnHttpSent, Pool
  <2>3. ctx[c] \in Context /\ link[p] \in Link BY <1>t, <2>1
  <2>4. LooksSame(y, ctx[c]) BY <2>3 DEF Context, SameInput, LooksSame
  <2>5. l.fin = link[p].fin BY <2>3 DEF Link
  <2> HIDE DEF y, l, c
  <2>6. FinsSame BY <1>t, <2>2, <2>5 DEF FinsSame
  <2>7. ASSUME NEW d \in Ctx PROVE LooksSame(ctx'[d], ctx[d])
    <3>1. CASE d = c
      <4>1. ctx'[d] = y BY <3>1, <1>t, <2>2
      <4> QED BY <3>1, <4>1, <2>4, Zenon
    <3>2. CASE d # c
      <4>1. ctx'[d] = ctx[d] BY <3>2, <1>t, <2>2
      <4> QED BY <4>1 DEF LooksSame, SameInput
    <3> QED BY <3>1, <3>2
  <2> QED BY <2>2, <2>6, <2>7, LooksServe
<1>2. CASE \/ \E p \in Pcbs : OnHttpPoll(p)
           \/ HttpdInit \/ CancelIfFailed \/ Return \/ UNCHANGED vars
  <2>1. UNCHANGED <<open, arg, ctx, link, pcb, restarts>>
    BY <1>2 DEF OnHttpPoll, HttpdInit, CancelIfFailed, Return, vars, Pool
  <2>2. FinsSame BY <2>1 DEF FinsSame
  <2>3. \A d \in Ctx : LooksSame(ctx'[d], ctx[d]) BY <2>1 DEF LooksSame, SameInput
  <2> QED BY <2>1, <2>2, <2>3, LooksServe
<1>3. CASE Tick
  <2>1. ASSUME NEW d \in Ctx PROVE LooksSame(ctx'[d], ctx[d])
    <3> DEFINE a == Older(ctx[d].recvAge)
               b == Older(ctx[d].sendAge)
               y == [ctx[d] EXCEPT !.recvAge = a, !.sendAge = b]
    <3>1. ctx'[d] = y BY <1>3 DEF Tick
    <3>2. ctx[d] \in Context BY <1>t
    <3> HIDE DEF a, b
    <3>3. LooksSame(y, ctx[d]) BY <3>2 DEF Context, SameInput, LooksSame
    <3> HIDE DEF y
    <3> QED BY <3>1, <3>3, Zenon
  <2>2. UNCHANGED <<open, arg, pcb, restarts>> /\ FinsSame BY <1>3 DEF Tick, Pool, FinsSame
  <2> QED BY <2>1, <2>2, LooksServe
<1> QED BY <1>1, <1>2, <1>3

(* Other contexts are not touched, so other connections see nothing.       *)
LEMMA OneContext ==
    ASSUME Typed, Ownership, restarts = 0, NEW p \in Pcbs, arg[p] # NoCtx,
           UNCHANGED <<open, arg>>, \A d \in Ctx : d # arg[p] => ctx'[d] = ctx[d]
    PROVE  Others(p)
<1> SUFFICES ASSUME NEW q \in Pcbs, q # p, arg[q] # NoCtx
             PROVE  ShownAs(ctx'[arg[q]]) = ShownAs(ctx[arg[q]])
  BY DEF Others
<1>1. arg[q] \in Ctx /\ arg[q] # arg[p] BY ServedBy
<1>2. ctx'[arg[q]] = ctx[arg[q]] BY <1>1
<1> QED BY <1>2

(* What StoreReceived leaves alone.                                        *)
LEMMA StoreSender ==
    ASSUME NEW x \in Context, NEW w
    PROVE  LET y == StoreReceived([x EXCEPT !.recvAge = 0], w)
           IN  y.ip = x.ip /\ y.peerClosing = x.peerClosing /\ y.state = x.state
<1> DEFINE z == [x EXCEPT !.recvAge = 0]
<1>1. /\ z.ip = x.ip /\ z.peerClosing = x.peerClosing /\ z.state = x.state
      /\ {"ip", "peerClosing", "state"} \subseteq DOMAIN z
  BY DEF Context
<1> HIDE DEF z
<1>2. StoreReceived(z, w).ip = z.ip BY <1>1 DEF StoreReceived
<1>3. StoreReceived(z, w).peerClosing = z.peerClosing BY <1>1 DEF StoreReceived
<1>4. StoreReceived(z, w).state = z.state BY <1>1 DEF StoreReceived
<1> QED BY <1>1, <1>2, <1>3, <1>4 DEF z

(* Data arrives on one connection.                                         *)
LEMMA ReceiveServes ==
    ASSUME Typed, Ownership, Closings, NEW p \in Pcbs, NEW w \in Payloads, OnHttpReceive(p, w)
    PROVE  Serving /\ Closings'
<1> DEFINE c == arg[p]
           x == ctx[c]
           y == StoreReceived([x EXCEPT !.recvAge = 0], w)
           u == IF y.queue = << >> THEN link[p].unread ELSE link[p].unread + Len(w)
           l == [link[p] EXCEPT !.budget = @ - 1, !.stream = @ \o w, !.unread = u]
<1>0. /\ c \in Ctx /\ Good(x) /\ x \in Context /\ link \in [Pcbs -> Link] /\ link[p] \in Link
      /\ ctx \in [Ctx -> Context]
  BY DEF OnHttpReceive, Typed, TypeOK
<1>1. Pending(y) = Pending(x) \o w
  <2>1. w \in Seq(Tokens) BY PayloadsAssumption
  <2> QED BY <1>0, <2>1, ReceivePending
<1>2. y.ip = x.ip /\ y.peerClosing = x.peerClosing /\ y.state = x.state BY <1>0, StoreSender
<1>3. /\ ctx' = [ctx EXCEPT ![c] = y] /\ link' = [link EXCEPT ![p] = l]
      /\ UNCHANGED <<open, arg, pcb, restarts>> /\ arg[p] # NoCtx /\ ~link[p].fin
  BY <1>0 DEF OnHttpReceive, Link, Pool
<1> HIDE DEF u
<1>4. l.fin = link[p].fin BY <1>0 DEF Link
<1> HIDE DEF y, l
<1>5. ctx'[c] = y /\ \A d \in Ctx : d # c => ctx'[d] = ctx[d] BY <1>0, <1>3
<1>6. FinsSame BY <1>0, <1>3, <1>4 DEF FinsSame
<1>7. CASE restarts # 0 BY <1>3, <1>7, Restarted
<1>8. CASE restarts = 0
  <2>1. pcb[c] = p /\ p # NoPcb /\ open[p] BY <1>3, <1>8, ServedBy
  <2>2. ~x.peerClosing BY <1>0, <1>3, <1>8, <2>1 DEF Closings, Closing
  <2>3. Server!Serves(ShownAs(x), ShownAs(y))
    <3> DEFINE s == ShownAs(x)
               d == ShownAs(y)
    <3>1. d = [s EXCEPT !.input = Pending(y)] BY <1>2, SameSender
    <3>2. s.input = Pending(x) BY DEF ShownAs
    <3>3. s.phase \in {"idle", "header", "body", "response"} /\ ~s.fin BY <2>2, ShownPhases
    <3> HIDE DEF s, d, x
    <3>4. d = [s EXCEPT !.input = @ \o w] BY <1>1, <3>1, <3>2
    <3>5. Server!Arrives(s, d) BY <3>3, <3>4 DEF Server!Arrives
    <3> QED BY <3>5 DEF Server!Serves, s, d
  <2>4. Others(p) BY <1>3, <1>5, <1>8, OneContext
  <2>5. Server!Serves(ShownAs(ctx[arg[p]]), ShownAs(ctx'[arg[p]])) BY <1>5, <2>3
  <2>6. open'[p] /\ arg'[p] = arg[p] /\ restarts' = 0 BY <1>3, <1>8, <2>1
  <2>7. Serving BY <1>3, <1>8, <2>1, <2>4, <2>5, <2>6, StaysServed
  <2>8. ASSUME NEW d \in Ctx
        PROVE  ctx'[d].peerClosing = ctx[d].peerClosing /\ ctx'[d].state = ctx[d].state
    BY <1>2, <1>5
  <2>9. Closings' BY <1>3, <1>6, <2>8, SameClosings
  <2> QED BY <2>7, <2>9
<1> QED BY <1>7, <1>8

(* The peer of a connection that is not idle closes its side.              *)
LEMMA PeerCloseServes ==
    ASSUME Typed, Ownership, Cleaned, Closings, NEW p \in Pcbs, OnPeerClose(p)
    PROVE  Serving /\ Closings'
<1>c. PICK c \in Ctx : c = arg[p] BY DEF OnPeerClose, Typed, TypeOK
<1> DEFINE x == ctx[c]
           y == [x EXCEPT !.recvAge = 0, !.peerClosing = TRUE]
           l == [link[p] EXCEPT !.fin = TRUE]
<1>0. /\ c \in Ctx /\ x \in Context /\ link \in [Pcbs -> Link] /\ link[p] \in Link
      /\ ctx \in [Ctx -> Context]
  BY DEF OnPeerClose, Typed, TypeOK
<1>1. /\ ctx' = [ctx EXCEPT ![c] = y] /\ link' = [link EXCEPT ![p] = l]
      /\ UNCHANGED <<open, arg, pcb, restarts>> /\ arg[p] # NoCtx /\ ~link[p].fin
      /\ x.state # IDLE
  BY <1>0, <1>c DEF OnPeerClose, Pool
<1>2. SameInput(y, x) /\ y.state = x.state /\ y.peerClosing = TRUE
  BY <1>0 DEF Context, SameInput
<1>3. l.fin = TRUE BY <1>0 DEF Link
<1>4. ShownAs(y) = [ShownAs(x) EXCEPT !.fin = TRUE]
  <2>1. Pending(y) = Pending(x) /\ y.ip = x.ip BY <1>2 DEF SameInput, Pending
  <2> HIDE DEF x, y
  <2>2. PICK h, a, i, f, g : /\ h = Phase(x.state) /\ a = x.ip /\ i = Pending(x)
                            /\ f = x.peerClosing /\ g = TRUE
    OBVIOUS
  <2>3. ShownAs(y) = [phase |-> h, addr |-> a, input |-> i, fin |-> g]
    BY <1>2, <2>1, <2>2, Zenon DEF ShownAs
  <2>4. ShownAs(x) = [phase |-> h, addr |-> a, input |-> i, fin |-> f]
    BY <2>2, Zenon DEF ShownAs
  <2>5. [ShownAs(x) EXCEPT !.fin = g] = [phase |-> h, addr |-> a, input |-> i, fin |-> g]
    BY <2>4
  <2> QED BY <2>2, <2>3, <2>5
<1> HIDE DEF y, l
<1>5. ctx'[c] = y /\ \A d \in Ctx : d # c => pcb'[d] = pcb[d] /\ ctx'[d] = ctx[d]
  BY <1>0, <1>1
<1>6. link'[p] = l /\ \A q \in Pcbs : q # p => link'[q] = link[q] BY <1>0, <1>1
<1>7. CASE restarts # 0 BY <1>1, <1>7, Restarted
<1>8. CASE restarts = 0
  <2>1. pcb[c] = p /\ p # NoPcb /\ open[p] BY <1>1, <1>8, <1>c, ServedBy
  <2>2. ~x.peerClosing BY <1>0, <1>1, <1>8, <2>1 DEF Closings, Closing
  <2>3. Server!Serves(ShownAs(x), ShownAs(y))
    <3> DEFINE s == ShownAs(x)
               d == ShownAs(y)
    <3>1. s.phase \in {"header", "body", "response"} /\ ~s.fin
      BY <1>1, <2>2, ShownPhases, PhaseType
    <3>2. d = [s EXCEPT !.fin = TRUE] BY <1>4
    <3> HIDE DEF s, d
    <3>3. Server!PeerCloses(s, d) BY <3>1, <3>2 DEF Server!PeerCloses
    <3> QED BY <3>3 DEF Server!Serves, s, d
  <2>4. Others(p) BY <1>1, <1>5, <1>8, <1>c, OneContext
  <2>5. Server!Serves(ShownAs(ctx[arg[p]]), ShownAs(ctx'[arg[p]])) BY <1>5, <1>c, <2>3
  <2>6. open'[p] /\ arg'[p] = arg[p] /\ restarts' = 0 BY <1>1, <1>8, <2>1
  <2>7. Serving BY <1>1, <1>8, <2>1, <2>4, <2>5, <2>6, StaysServed
  <2>8. Closing(c)' BY <1>1, <1>2, <1>3, <1>5, <1>6, <2>1 DEF Closing
  <2>9. \A q \in Pcbs : q # pcb[c] => link'[q].fin = link[q].fin BY <1>6, <2>1
  <2>10. Closings' BY <1>0, <1>1, <1>5, <2>8, <2>9, OneClosing
  <2> QED BY <2>7, <2>10
<1> QED BY <1>7, <1>8

(* The stack gives a connection up, or closes one that waited for it.      *)
LEMMA LostServes ==
    ASSUME Typed, Ownership, Cleaned, Closings, NEW p \in Pcbs,
           OnHttpError(p) \/ OnHttpPollDetached(p)
    PROVE  Serving /\ Closings'
<1>t. /\ ctx \in [Ctx -> Context] /\ link \in [Pcbs -> Link] /\ open \in [Pcbs -> BOOLEAN]
      /\ arg \in [Pcbs -> Ctx \cup {NoCtx}] /\ pcb \in [Ctx -> Pcbs \cup {NoPcb}]
  BY DEF Typed, TypeOK
<1>1. restarts' = restarts /\ open' = [open EXCEPT ![p] = FALSE] /\ open[p]
  BY DEF OnHttpError, OnHttpPollDetached
<1>2. CASE restarts # 0 BY <1>1, <1>2, Restarted
<1>3. CASE restarts = 0
  <2>0. ~open'[p] /\ \A q \in Pcbs : q # p => open'[q] = open[q] BY <1>t, <1>1
  <2>1. CASE arg[p] = NoCtx
    <3>1. pcb' = pcb /\ ctx' = ctx BY <2>1 DEF OnHttpError, OnHttpPollDetached
    <3>2. /\ \A q \in Pcbs : q # p => arg'[q] = arg[q]
          /\ \A q \in Pcbs : q # p => link'[q] = link[q]
      BY <1>t DEF OnHttpError, OnHttpPollDetached
    <3>3. Others(p) BY <2>0, <3>1, <3>2 DEF Others
    <3>4. Serving BY <1>1, <1>3, <2>0, <3>3, EndsServed
    <3>5. Closings'
      <4> SUFFICES ASSUME NEW d \in Ctx, pcb[d] # NoPcb PROVE Closing(d)'
        BY <3>1 DEF Closings, Closing
      <4>1. pcb[d] \in Pcbs /\ arg[pcb[d]] = d BY <1>t DEF Cleaned
      <4>2. pcb[d] # p BY <2>1, <4>1, NullAssumption
      <4>3. link'[pcb[d]] = link[pcb[d]] BY <3>2, <4>1, <4>2
      <4>4. Closing(d) BY <1>3 DEF Closings
      <4> QED BY <3>1, <4>3, <4>4 DEF Closing
    <3> QED BY <3>4, <3>5
  <2>2. CASE arg[p] # NoCtx
    <3>c. PICK c \in Ctx : c = arg[p] BY <1>t, <2>2
    <3>1. OnHttpError(p) BY <2>2 DEF OnHttpPollDetached
    <3>2. /\ pcb' = [pcb EXCEPT ![c] = NoPcb] /\ ctx' = [ctx EXCEPT ![c] = FreeHttpContext(@)]
          /\ arg' = [arg EXCEPT ![p] = NoCtx] /\ link' = [link EXCEPT ![p] = Unlinked]
      BY <2>2, <3>1, <3>c DEF OnHttpError
    <3>3. c \in Ctx /\ pcb[c] = p /\ \A q \in Pcbs : q # p => arg[q] # c
      BY <1>3, <2>2, <3>c, ServedBy
    <3>4. pcb'[c] = NoPcb /\ \A d \in Ctx : d # c => pcb'[d] = pcb[d] /\ ctx'[d] = ctx[d]
      BY <1>t, <3>2, <3>3
    <3>5. /\ \A q \in Pcbs : q # p => arg'[q] = arg[q]
          /\ \A q \in Pcbs : q # p => link'[q] = link[q]
      BY <1>t, <3>2
    <3>6. Others(p)
      <4> SUFFICES ASSUME NEW q \in Pcbs, q # p, arg[q] # NoCtx
                   PROVE  ShownAs(ctx'[arg[q]]) = ShownAs(ctx[arg[q]])
        BY <2>0, <3>5 DEF Others
      <4>1. arg[q] \in Ctx /\ arg[q] # c BY <1>t, <3>3
      <4>2. ctx'[arg[q]] = ctx[arg[q]] BY <3>4, <4>1
      <4> QED BY <4>2
    <3>7. Serving BY <1>1, <1>3, <2>0, <3>6, EndsServed
    <3>8. Closing(c)' BY <3>4 DEF Closing
    <3>9. \A q \in Pcbs : q # pcb[c] => link'[q].fin = link[q].fin BY <3>3, <3>5
    <3>10. Closings' BY <1>1, <3>3, <3>4, <3>8, <3>9, OneClosing
    <3> QED BY <3>7, <3>10
  <2> QED BY <2>1, <2>2
<1> QED BY <1>2, <1>3

(* main() stops the server.                                                *)
LEMMA StopServes ==
    ASSUME Typed, HttpdStop
    PROVE  Serving /\ Closings'
<1>1. restarts' > 0 BY SizesAssumption DEF HttpdStop, Typed, TypeOK
<1>2. restarts' # 0 BY <1>1
<1>3. Closings' BY <1>2 DEF Closings
<1> QED BY <1>1, <1>3, AfterRestart

(* Connections with contexts of their own are not more than the contexts.  *)
LEMMA Injected ==
    ASSUME NEW S, NEW T \in SUBSET Ctx, \A q \in S : arg[q] \in T,
           \A q, r \in S : arg[q] = arg[r] => q = r
    PROVE  Cardinality(S) \in Nat /\ Cardinality(S) <= Cardinality(T)
<1> DEFINE f == [q \in S |-> arg[q]]
<1>1. f \in Injection(S, T) BY DEF Injection, IsInjective
<1>2. IsFiniteSet(T) BY FinitePool
<1> HIDE DEF f
<1>3. IsFiniteSet(S) /\ Cardinality(S) <= Cardinality(T) BY <1>1, <1>2, FS_Injection
<1> QED BY <1>3, FS_CardinalityType

(* Both modules count in the same way.                                     *)
LEMMA SameCardinality == \A S : Server!Cardinality(S) = Cardinality(S)
BY Zenon DEF Cardinality, Server!Cardinality

(* What GetHttpContext counts bounds the connections that are served.      *)
LEMMA ServedLimits ==
    ASSUME Typed, Ownership, restarts = 0, NEW c \in Ctx, pcb[c] = NoPcb
    PROVE  /\ Cardinality(Server!Served) < MaxConnections
           /\ \A a : /\ Cardinality(Server!From(a)) \in Nat
                     /\ Cardinality(Server!From(a)) <= Cardinality(Owned(a))
<1> DEFINE S == Server!Served
           T == Ctx \ {c}
<1>1. ASSUME NEW q \in S
      PROVE  /\ q \in Pcbs /\ arg[q] \in Ctx /\ pcb[arg[q]] = q /\ arg[q] # c
             /\ Shown[q] = ShownAs(ctx[arg[q]])
  <2>1. q \in Pcbs /\ Shown[q].phase \in {"idle", "header", "body", "response"}
    BY DEF Server!Served
  <2>2. Shown[q].phase # "none" /\ Shown[q].phase # "closing" BY <2>1
  <2>3. open[q] /\ arg[q] # NoCtx BY <2>1, <2>2, ShownCases, UnservedFacts
  <2>4. arg[q] \in Ctx /\ pcb[arg[q]] = q /\ q # NoPcb BY <2>1, <2>3, ServedBy
  <2> QED BY <2>1, <2>3, <2>4, ShownCases
<1>2. \A q, r \in S : arg[q] = arg[r] => q = r
  <2> HIDE DEF S
  <2> QED BY <1>1
<1>3. Cardinality(S) < MaxConnections
  <2> HIDE DEF S
  <2>1. Cardinality(S) \in Nat /\ Cardinality(S) <= Cardinality(T) BY <1>1, <1>2, Injected
  <2>2. 0 \in Int /\ MaxConnections - 1 \in Int /\ 0 <= MaxConnections - 1 BY SizesAssumption
  <2>3. IsFiniteSet(Ctx) /\ Cardinality(Ctx) = (MaxConnections - 1) - 0 + 1
    BY <2>2, FS_Interval DEF Ctx
  <2>4. Cardinality(T) = Cardinality(Ctx) - 1 BY <2>3, FS_RemoveElement
  <2>5. Cardinality(T) = MaxConnections - 1 BY <2>3, <2>4, SizesAssumption
  <2> QED BY <2>1, <2>5, SizesAssumption
<1>4. ASSUME NEW a
      PROVE  /\ Cardinality(Server!From(a)) \in Nat
             /\ Cardinality(Server!From(a)) <= Cardinality(Owned(a))
  <2> DEFINE F == Server!From(a)
  <2>1. ASSUME NEW q \in F PROVE q \in S /\ arg[q] \in Owned(a)
    <3>1. q \in S /\ Shown[q].addr = a BY DEF Server!From
    <3>2. ctx[arg[q]].ip = a BY <1>1, <3>1, ShownPhases
    <3>3. arg[q] \in Ctx /\ pcb[arg[q]] = q /\ q # NoPcb BY <1>1, <3>1, NullAssumption
    <3> QED BY <3>1, <3>2, <3>3 DEF Owned
  <2>2. Owned(a) \in SUBSET Ctx BY DEF Owned
  <2> HIDE DEF S, F
  <2>3. \A q, r \in F : arg[q] = arg[r] => q = r BY <1>2, <2>1
  <2>4. Cardinality(F) \in Nat /\ Cardinality(F) <= Cardinality(Owned(a))
    BY <2>1, <2>2, <2>3, Injected
  <2> QED BY <2>4 DEF F
<1> QED BY <1>3, <1>4

(* A new connection starts afresh, within the limits.                      *)
LEMMA AcceptServes ==
    ASSUME Typed, Ownership, Cleaned, Closings, NEW p \in Pcbs, NEW a \in Addrs, OnHttpAccept(p, a)
    PROVE  Serving /\ Closings'
<1>c. PICK c : c = GetHttpContext(a) OBVIOUS
<1> DEFINE x == [ctx[c] EXCEPT !.queue = << >>, !.ends = << >>, !.offset = 0, !.peerClosing = FALSE]
           y == [ResetHttpContext(x) EXCEPT !.ip = a]
<1>0. /\ pcb \in [Ctx -> Pcbs \cup {NoPcb}] /\ ctx \in [Ctx -> Context]
      /\ link \in [Pcbs -> Link] /\ arg \in [Pcbs -> Ctx \cup {NoCtx}]
      /\ open \in [Pcbs -> BOOLEAN]
  BY DEF Typed, TypeOK
<1>1. /\ c \in Ctx /\ pcb[c] = NoPcb
      /\ \A d \in Ctx : d # c => pcb'[d] = pcb[d] /\ ctx'[d] = ctx[d]
  BY <1>c, AcceptFacts
<1>2. /\ pcb' = [pcb EXCEPT ![c] = p] /\ ctx' = [ctx EXCEPT ![c] = y] /\ ~open[p]
      /\ link' = [link EXCEPT ![p] = NewLink(a)] /\ restarts' = restarts
      /\ open' = [open EXCEPT ![p] = TRUE] /\ arg' = [arg EXCEPT ![p] = c] /\ c # NoCtx
  BY <1>c DEF OnHttpAccept
<1>3. /\ y.rx = ctx[c].rx /\ y.queue = << >> /\ y.offset = 0
      /\ y.state = IDLE /\ y.peerClosing = FALSE /\ y.ip = a
  <2>1. ctx[c] \in Context BY <1>0, <1>1
  <2> QED BY <2>1 DEF ResetHttpContext, Context
<1>l. MaxConnPerIp > 0 => ~(Cardinality(Owned(a)) >= MaxConnPerIp)
  BY <1>c, <1>2 DEF GetHttpContext, Owned
<1> HIDE DEF y
<1>4. CASE restarts # 0 BY <1>2, <1>4, Restarted
<1>5. CASE restarts = 0
  <2>1. \A q \in Pcbs : arg[q] # c BY <1>1, <1>2, <1>5, ServedBy
  <2>2. Others(p)
    <3> SUFFICES ASSUME NEW q \in Pcbs, q # p
                 PROVE  /\ open'[q] = open[q] /\ arg'[q] = arg[q]
                        /\ arg[q] # NoCtx => ShownAs(ctx'[arg[q]]) = ShownAs(ctx[arg[q]])
      BY DEF Others
    <3>1. open'[q] = open[q] /\ arg'[q] = arg[q] BY <1>0, <1>2
    <3>2. arg[q] # NoCtx => arg[q] \in Ctx /\ arg[q] # c BY <1>0, <2>1
    <3>3. arg[q] # NoCtx => ctx'[arg[q]] = ctx[arg[q]] BY <1>1, <3>2
    <3> QED BY <3>1, <3>3
  <2>3. Shown'[p] = Server!Fresh(a)
    <3>1. open'[p] /\ arg'[p] = c /\ ctx'[c] = y BY <1>0, <1>1, <1>2
    <3>2. Shown'[p] = ShownAs(y) BY <1>2, <1>5, <3>1, ShownCasesAfter
    <3>3. ctx[c].rx = << >> BY <1>1, <2>1 DEF Cleaned, Unused, Clean
    <3>4. Pending(y) = << >>
      <4>1. << >> \in Seq(Tokens) OBVIOUS
      <4>2. DropFirst(<< >>, 0) = << >> BY <4>1, DropNothing
      <4>3. << >> \o << >> = << >> BY <4>1, ConcatEmptySeq
      <4> QED BY <1>3, <3>3, <4>2, <4>3 DEF Pending
    <3> QED BY <1>3, <3>2, <3>4, Phases, Zenon DEF ShownAs, Server!Fresh
  <2>4. Shown[p] = Server!None BY <1>2, <1>5, ShownCases
  <2>5. /\ Cardinality(Server!Served) < MaxConnections
        /\ Cardinality(Server!From(a)) \in Nat
        /\ Cardinality(Server!From(a)) <= Cardinality(Owned(a))
    BY <1>1, <1>5, ServedLimits
  <2>6. MaxConnPerIp > 0 => Cardinality(Server!From(a)) < MaxConnPerIp
    <3>1. Owned(a) \in SUBSET Ctx BY DEF Owned
    <3>2. Cardinality(Owned(a)) \in Nat BY <3>1, FinitePool
    <3> QED BY <1>l, <2>5, <3>2, SizesAssumption
  <2>7. Server!Only(p) BY <1>2, <1>5, <2>2, OthersSame DEF Server!Only
  <2>8. Server!Accept(p, a) BY <2>3, <2>4, <2>5, <2>6, <2>7, SameCardinality DEF Server!Accept
  <2>9. Serving BY <2>8 DEF Serving, Server!Next
  <2>10. ASSUME NEW d \in Ctx PROVE Closing(d)'
    <3>1. CASE d = c
      <4>1. ctx'[d] = y BY <1>0, <1>1, <1>2, <3>1
      <4> QED BY <1>3, <4>1 DEF Closing
    <3>2. CASE d # c
      <4>1. pcb'[d] = pcb[d] /\ ctx'[d] = ctx[d] BY <1>1, <3>2
      <4>2. CASE pcb[d] = NoPcb BY <4>1, <4>2 DEF Closing
      <4>3. CASE pcb[d] # NoPcb
        <5>1. pcb[d] \in Pcbs /\ open[pcb[d]] BY <1>0, <4>3 DEF Cleaned
        <5>2. pcb[d] # p BY <1>2, <5>1
        <5>3. link'[pcb[d]] = link[pcb[d]] BY <1>0, <1>2, <5>1, <5>2
        <5>4. Closing(d) BY <1>5 DEF Closings
        <5> QED BY <4>1, <5>3, <5>4 DEF Closing
      <4> QED BY <4>2, <4>3
    <3> QED BY <3>1, <3>2
  <2>11. Closings' BY <2>10 DEF Closings
  <2> QED BY <2>9, <2>11
<1> QED BY <1>4, <1>5

(* Every step of the server is one that its peers expect.                  *)
LEMMA NextServes ==
    ASSUME Typed, Ownership, Control, Cleaned, Closings, [Next]_vars
    PROVE  Serving /\ Closings'
<1>1. CASE Working BY <1>1, WorkingServes
<1>2. CASE \E closed \in BOOLEAN :
              \/ \E p \in Pcbs : OnPeerCloseIdle(p, closed) \/ OnHttpPollTimeout(p, closed)
              \/ CloseAfterRequest(closed)
              \/ CloseIfAborted(closed)
  BY <1>2, CloseStepsServe
<1>3. CASE \E p \in Pcbs, a \in Addrs : OnHttpAccept(p, a) BY <1>3, AcceptServes
<1>4. CASE \E p \in Pcbs, w \in Payloads : OnHttpReceive(p, w) BY <1>4, ReceiveServes
<1>5. CASE \E p \in Pcbs : OnPeerClose(p) BY <1>5, PeerCloseServes
<1>6. CASE \E p \in Pcbs : OnHttpError(p) \/ OnHttpPollDetached(p) BY <1>6, LostServes
<1>7. CASE HttpdStop BY <1>7, StopServes
<1>8. CASE \/ \E p \in Pcbs : OnHttpPoll(p) \/ \E n \in 1 .. SndBuf : OnHttpSent(p, n)
           \/ HttpdInit \/ Tick \/ CancelIfFailed \/ Return \/ UNCHANGED vars
  BY <1>8, QuietServes
<1> QED BY <1>1, <1>2, <1>3, <1>4, <1>5, <1>6, <1>7, <1>8 DEF Next, Step, Event, Working

(* HttpCore implements Connections: until main() restarts the server, what *)
(* every peer sees is a connection that is served by itself, one request   *)
(* after the other, each read up to its end and then answered, and the     *)
(* next one only begun if the peer has not closed (HttpRequestProc and all *)
(* callbacks of lwIP), within the limits of GetHttpContext.                *)
THEOREM ServerServesConnections == Spec => ServesConnections
<1>1. Init => Server!Init /\ Closings
  <2> SUFFICES ASSUME Init PROVE Server!Init /\ Closings
    OBVIOUS
  <2>1. restarts = 0 /\ \A p \in Pcbs : ~open[p] BY DEF Init
  <2>2. \A p \in Pcbs : Shown[p] = Server!None BY <2>1, ShownCases
  <2>3. Shown = [p \in Pcbs |-> Server!None] BY <2>2 DEF Shown
  <2>4. Server!Init BY <2>3 DEF Server!Init
  <2>5. \A c \in Ctx : pcb[c] = NoPcb BY DEF Init
  <2> QED BY <2>4, <2>5 DEF Closings, Closing
<1>2. Inv /\ Lifecycle /\ Closings /\ [Next]_vars => Closings' /\ [Server!Next]_Shown
  BY NextServes DEF Inv, Lifecycle, Serving
<1> QED BY <1>1, <1>2, Invariance, LifecycleHolds, PTL DEF Spec, ServesConnections, Server!Spec

=============================================================================
