--------------------------- MODULE HttpCoreProofs ---------------------------
(* Theorems about HttpCore, for every pool size, buffer size, window and   *)
(* set of payloads that its assumptions allow.                             *)
(*                                                                         *)
(* Inv is the inductive invariant.  Ownership and WindowConserved need     *)
(* each other: a pbuf is credited to the connection its context names, so  *)
(* a context shared by two connections would lose window.  Both need the   *)
(* queue's boundaries (Good) to know how much a freed pbuf is worth.       *)
(* Steps that touch neither the pool nor the queues are Quiet; one lemma   *)
(* shows that quiet steps keep Inv, one lemma per such action shows that   *)
(* it is quiet, and the other actions are proved one by one.               *)
(*                                                                         *)
(* The first half is about one request context, of any content: what each  *)
(* assignment of HttpCore to a g_httpContext entry does to its queue of    *)
(* received pbufs and to the input that the parser has not consumed.       *)
EXTENDS HttpCore, WellFoundedInduction, SequenceTheorems, TLAPS

-----------------------------------------------------------------------------
(* What every context satisfies at every step: its fields are typed, the   *)
(* buffer is within its size, and the ends of the queued pbufs are         *)
(* strictly increasing positions of the queue, the last one its end.       *)
EndsOK(e, n) ==
    /\ Len(e) = 0 <=> n = 0
    /\ Len(e) > 0 => e[Len(e)] = n
    /\ \A i \in 1 .. Len(e) : e[i] > 0
    /\ \A i, j \in 1 .. Len(e) : i < j => e[i] < e[j]
QueueOK(q, e, o) == o <= Len(q) /\ EndsOK(e, Len(q))

Good(x) ==
    /\ x \in Context
    /\ Len(x.rx) <= MaxReqBuf
    /\ QueueOK(x.queue, x.ends, x.offset)

-----------------------------------------------------------------------------
(* Sequences and numbers.                                                  *)

(* The lesser of two naturals is one of them and exceeds neither.          *)
LEMMA LeastFacts ==
    ASSUME NEW m \in Int, NEW n \in Int
    PROVE  Least(m, n) \in {m, n} /\ Least(m, n) <= m /\ Least(m, n) <= n
BY DEF Least

(* Dropping the first n elements leaves a sequence n shorter, or the empty *)
(* one (the memmove of http_core.c's buffer handling).                     *)
LEMMA DropFirstFacts ==
    ASSUME NEW S, NEW s \in Seq(S), NEW n \in Nat
    PROVE  /\ DropFirst(s, n) \in Seq(S)
           /\ n <= Len(s) => Len(DropFirst(s, n)) = Len(s) - n
           /\ Len(DropFirst(s, n)) <= Len(s)
           /\ n >= Len(s) => DropFirst(s, n) = << >>
BY DEF DropFirst

(* A context without pbufs has a well-formed queue.                        *)
LEMMA EmptyQueue ==
    ASSUME NEW S
    PROVE  << >> \in Seq(S) /\ Len(<< >>) = 0 /\ QueueOK(<< >>, << >>, 0)
BY DEF QueueOK, EndsOK

(* A pbuf of m tokens is chained to a queue of n tokens (pbuf_cat in       *)
(* OnHttpReceive): the boundaries stay well formed.                        *)
LEMMA AppendEnds ==
    ASSUME NEW e \in Seq(Nat), NEW n \in Nat, NEW m \in Nat, EndsOK(e, n), m > 0
    PROVE  Append(e, n + m) \in Seq(Nat) /\ EndsOK(Append(e, n + m), n + m)
<1> DEFINE f == Append(e, n + m)
<1>1. f \in Seq(Nat) /\ Len(f) = Len(e) + 1 /\ f[Len(e) + 1] = n + m OBVIOUS
<1>2. \A i \in 1 .. Len(e) : f[i] = e[i] OBVIOUS
<1>3. Len(e) \in Nat OBVIOUS
<1>4. \A i \in 1 .. Len(e) : e[i] \in Nat OBVIOUS
<1> HIDE DEF f
<1>5. ASSUME NEW i \in 1 .. Len(f) PROVE f[i] > 0
  <2>1. CASE i = Len(e) + 1 BY <2>1, <1>1
  <2>2. CASE i \in 1 .. Len(e) BY <2>2, <1>2, <1>4 DEF EndsOK
  <2> QED BY <2>1, <2>2, <1>1, <1>3
<1>6. ASSUME NEW i \in 1 .. Len(e) PROVE e[i] <= n
  <2>1. Len(e) \in 1 .. Len(e) /\ e[Len(e)] = n BY <1>3 DEF EndsOK
  <2>2. i < Len(e) => e[i] < e[Len(e)] BY <2>1 DEF EndsOK
  <2> QED BY <2>1, <2>2, <1>3, <1>4
<1>7. ASSUME NEW i \in 1 .. Len(f), NEW j \in 1 .. Len(f), i < j PROVE f[i] < f[j]
  <2>0. i \in 1 .. Len(e) BY <1>7, <1>1, <1>3
  <2>1. CASE j = Len(e) + 1
    <3>1. f[j] = n + m BY <2>1, <1>1
    <3>2. f[i] = e[i] /\ e[i] \in Nat /\ e[i] <= n BY <2>0, <1>2, <1>4, <1>6
    <3> QED BY <3>1, <3>2
  <2>2. CASE j \in 1 .. Len(e)
    <3>1. e[i] < e[j] BY <2>0, <2>2, <1>7 DEF EndsOK
    <3> QED BY <3>1, <2>0, <2>2, <1>2
  <2> QED BY <2>1, <2>2, <1>1, <1>3
<1>8. Len(f) > 0 /\ n + m > 0 BY <1>1, <1>3
<1>9. EndsOK(f, n + m) BY <1>1, <1>3, <1>5, <1>7, <1>8 DEF EndsOK
<1> QED BY <1>1, <1>9 DEF f

(* The first pbuf, of k tokens, is unlinked from a queue of n tokens       *)
(* (HttpRequestProc, pbuf_dechain): the boundaries that remain, shifted,   *)
(* are well formed.                                                        *)
LEMMA UnlinkEnds ==
    ASSUME NEW e \in Seq(Nat), NEW n \in Nat, EndsOK(e, n), Len(e) > 0
    PROVE  LET k == e[1]
               f == [i \in 1 .. Len(e) - 1 |-> e[i + 1] - k]
           IN  f \in Seq(Nat) /\ k \in Nat /\ k > 0 /\ k <= n /\ EndsOK(f, n - k)
<1> DEFINE k == e[1]
           f == [i \in 1 .. Len(e) - 1 |-> e[i + 1] - k]
<1>3. Len(e) \in Nat /\ 1 \in 1 .. Len(e) /\ Len(e) - 1 \in Nat OBVIOUS
<1>4. \A i \in 1 .. Len(e) : e[i] \in Nat OBVIOUS
<1>5. k \in Nat /\ k > 0 BY <1>3, <1>4 DEF EndsOK
<1> HIDE DEF k
<1>1. ASSUME NEW i \in 1 .. Len(e) - 1
      PROVE e[i + 1] - k \in Nat /\ e[i + 1] - k > 0 /\ i + 1 \in 1 .. Len(e)
  <2>1. i + 1 \in 1 .. Len(e) /\ 1 < i + 1 BY <1>3
  <2>2. k < e[i + 1] BY <2>1, <1>3 DEF EndsOK, k
  <2> QED BY <2>1, <2>2, <1>4, <1>5
<1>2. f \in Seq(Nat) /\ Len(f) = Len(e) - 1 /\ \A i \in 1 .. Len(e) - 1 : f[i] = e[i + 1] - k
  <2>1. f \in Seq(Nat) BY <1>1, <1>3
  <2>2. Len(f) = Len(e) - 1 BY <1>3, <2>1
  <2>3. \A i \in 1 .. Len(e) - 1 : f[i] = e[i + 1] - k OBVIOUS
  <2> QED BY <2>1, <2>2, <2>3
<1> HIDE DEF f
<1>6. k <= n
  <2>1. e[Len(e)] = n BY DEF EndsOK
  <2>2. CASE Len(e) = 1 BY <2>1, <2>2 DEF k
  <2>3. CASE Len(e) # 1
    <3>0. \A m \in Nat : m # 1 /\ 1 \in 1 .. m => 1 < m /\ m \in 1 .. m OBVIOUS
    <3>1. 1 < Len(e) /\ Len(e) \in 1 .. Len(e)
      <4> HIDE DEF k
      <4> QED BY <2>3, <1>3, <3>0
    <3>2. k < e[Len(e)] BY <3>1, <1>3 DEF EndsOK, k
    <3> QED BY <3>2, <2>1, <1>5
  <2> QED BY <2>2, <2>3
<1>7. ASSUME NEW i \in 1 .. Len(f), NEW j \in 1 .. Len(f), i < j PROVE f[i] < f[j]
  <2>0. i + 1 \in 1 .. Len(e) /\ j + 1 \in 1 .. Len(e) /\ i + 1 < j + 1 BY <1>7, <1>2, <1>3
  <2>1. e[i + 1] < e[j + 1] BY <2>0 DEF EndsOK
  <2>2. f[i] = e[i + 1] - k /\ f[j] = e[j + 1] - k BY <1>2
  <2>3. \A a, b, c \in Nat : a < b => a - c < b - c OBVIOUS
  <2>4. e[i + 1] \in Nat /\ e[j + 1] \in Nat BY <2>0, <1>4
  <2>5. e[i + 1] - k < e[j + 1] - k BY <2>1, <2>3, <2>4, <1>5
  <2> QED BY <2>2, <2>5
<1>8. Len(f) > 0 => f[Len(f)] = n - k
  <2>1. Len(f) > 0 => f[Len(f)] = e[Len(e)] - k BY <1>2, <1>3
  <2> QED BY <2>1 DEF EndsOK
<1>9. Len(f) = 0 <=> n - k = 0
  <2>1. Len(f) = 0 => k = n
    <3>1. Len(f) = 0 => Len(e) = 1 BY <1>2, <1>3
    <3> QED BY <3>1 DEF EndsOK, k
  <2>2. Len(f) > 0 => k < n
    <3>1. Len(f) > 0 => 1 < Len(e) BY <1>2, <1>3
    <3>2. Len(f) > 0 => e[1] < e[Len(e)] BY <3>1, <1>3 DEF EndsOK
    <3> QED BY <3>2 DEF EndsOK, k
  <2> QED BY <2>1, <2>2, <1>2, <1>3, <1>5
<1>10. \A i \in 1 .. Len(f) : f[i] > 0 BY <1>1, <1>2
<1>11. EndsOK(f, n - k) BY <1>7, <1>8, <1>9, <1>10 DEF EndsOK
<1> QED BY <1>2, <1>5, <1>6, <1>11 DEF f, k

(* A nonempty set of numbers has a least element: the slot that            *)
(* GetHttpContext chooses exists.                                          *)
LEMMA LeastElement ==
    ASSUME NEW T \in SUBSET Nat, T # {}
    PROVE  \E x \in T : \A y \in T : x <= y
<1> DEFINE R == OpToRel(<, Nat)
<1>1. IsWellFoundedOn(R, Nat) BY NatLessThanWellFounded
<1>2. ASSUME NEW x \in Nat, NEW y \in Nat, x < y PROVE <<x, y>> \in R
  BY <1>2 DEF OpToRel
<1> HIDE DEF R
<1>3. PICK x \in T : \A y \in T : ~ (<<y, x>> \in R)
  BY <1>1, WFMin
<1>4. ASSUME NEW y \in T PROVE x <= y
  <2>1. ~ (<<y, x>> \in R) BY <1>3
  <2>2. ~ (y < x) BY <2>1, <1>2
  <2> QED BY <2>2
<1> QED BY <1>4

(* The first end of line is a position of the buffer, and none is before.  *)
LEMMA FirstLine ==
    ASSUME NEW s \in Seq(Tokens), HasLine(s)
    PROVE  /\ FirstEol(s) \in 1 .. Len(s) /\ FirstEol(s) \in Nat
           /\ s[FirstEol(s)] = "eol" /\ \A k \in 1 .. FirstEol(s) - 1 : s[k] # "eol"
<1> DEFINE T == {j \in 1 .. Len(s) : s[j] = "eol"}
<1>1. T \in SUBSET Nat /\ T # {} BY DEF HasLine
<1>2. PICK j \in T : \A k \in T : j <= k BY <1>1, LeastElement
<1>3. \A k \in 1 .. j - 1 : s[k] # "eol"
  <2>1. TAKE k \in 1 .. j - 1
  <2>2. k \in 1 .. Len(s) /\ ~ (j <= k) BY <1>2
  <2> QED BY <2>2, <1>2
<1>4. /\ FirstEol(s) \in 1 .. Len(s) /\ s[FirstEol(s)] = "eol"
      /\ \A k \in 1 .. FirstEol(s) - 1 : s[k] # "eol"
  BY <1>2, <1>3 DEF FirstEol
<1> QED BY <1>4

(* Every request token that GetCgiHandler resolves names a handler of the  *)
(* table.                                                                  *)
LEMMA HandlersOfRequests ==
    ASSUME NEW t \in DOMAIN Requests
    PROVE  Requests[t].handler \in Handlers
BY DEF Request, Requests, Handlers, HasReadContent

(* The constants that updates of a context use are in its fields' ranges.  *)
LEMMA Constants ==
    /\ IDLE \in States /\ HEADER_RECEIVING \in States /\ HEADER_DONE \in States
    /\ BODY_RECEIVING \in States /\ BODY_DONE \in States /\ SENDING_HEADER \in States
    /\ SENDING_BODY \in States /\ REQUEST_END \in States
    /\ {0, -500, -404, CODE_REDIRECT} \subseteq Results
    /\ "none" \in Handlers /\ "none" \in Asked
    /\ 0 \in Stages
    /\ NoTime \in Ages /\ 0 \in Ages
    /\ -1 \in Int /\ 0 \in Int /\ 0 \in Nat /\ FALSE \in BOOLEAN /\ TRUE \in BOOLEAN
    /\ BodyLen \in Int
BY SizesAssumption DEF States, IDLE, HEADER_RECEIVING, HEADER_DONE, BODY_RECEIVING, BODY_DONE,
   SENDING_HEADER, SENDING_BODY, REQUEST_END, Results, CODE_REDIRECT, Handlers, Stages, Ages, Asked

-----------------------------------------------------------------------------
(* The updates of a context keep it Good.  Where an update assigns         *)
(* literals, the leaf that types the record names them by variables.       *)

(* FreeHttpContext leaves a well-formed context with nothing queued.       *)
LEMMA FreeGood ==
    ASSUME NEW x, Good(x)
    PROVE  Good(FreeHttpContext(x)) /\ FreeHttpContext(x).queue = << >>
<1>0. x \in Context BY DEF Good
<1>1. PICK st \in States, rq \in Asked, h \in Handlers, cl \in Int, cr \in Nat, ka \in BOOLEAN,
           rs \in Results, sd \in BOOLEAN, sg \in Stages, bl \in Nat, du \in Int, sa \in Ages,
           q \in Seq(Tokens), e \in Seq(Nat), o \in Nat, r \in Seq(Tokens) :
       /\ st = IDLE /\ rq = "none" /\ h = "none" /\ cl = -1 /\ cr = 0 /\ ka = FALSE
       /\ rs = 0 /\ sd = FALSE /\ sg = 0 /\ bl = 0 /\ du = 0 /\ sa = NoTime
       /\ q = << >> /\ e = << >> /\ o = 0 /\ r = << >>
  BY EmptyQueue, Constants
<1>2. [x EXCEPT !.queue = q, !.ends = e, !.offset = o, !.rx = r,
                !.state = st, !.request = rq, !.handler = h, !.contentLength = cl,
                !.contentReceived = cr, !.keepalive = ka, !.result = rs, !.sending = sd,
                !.stage = sg, !.bytesLeft = bl, !.due = du, !.sendAge = sa] \in Context
  BY <1>0 DEF Context
<1>3. FreeHttpContext(x) \in Context
  BY <1>1, <1>2 DEF FreeHttpContext
<1>4. /\ FreeHttpContext(x).queue = << >> /\ FreeHttpContext(x).ends = << >>
      /\ FreeHttpContext(x).offset = 0 /\ FreeHttpContext(x).rx = << >>
  BY <1>0 DEF FreeHttpContext, Context
<1> QED BY <1>3, <1>4, EmptyQueue, SizesAssumption DEF Good

(* ResetHttpContext leaves a well-formed context, its queue and buffer     *)
(* untouched.                                                              *)
LEMMA ResetGood ==
    ASSUME NEW x, Good(x)
    PROVE  Good(ResetHttpContext(x)) /\ ResetHttpContext(x).queue = x.queue
<1>0. x \in Context BY DEF Good
<1>1. PICK st \in States, rq \in Asked, h \in Handlers, cl \in Int, cr \in Nat, ka \in BOOLEAN,
           rs \in Results, sd \in BOOLEAN, sg \in Stages, bl \in Nat, du \in Int, sa \in Ages,
           ra \in Ages :
       /\ st = IDLE /\ rq = "none" /\ h = "none" /\ cl = -1 /\ cr = 0 /\ ka = FALSE
       /\ rs = 0 /\ sd = FALSE /\ sg = 0 /\ bl = 0 /\ du = 0 /\ sa = NoTime /\ ra = 0
  BY Constants
<1>2. [x EXCEPT !.state = st, !.recvAge = ra, !.request = rq, !.handler = h, !.contentLength = cl,
                !.contentReceived = cr, !.keepalive = ka, !.result = rs, !.sending = sd,
                !.stage = sg, !.bytesLeft = bl, !.due = du, !.sendAge = sa] \in Context
  BY <1>0 DEF Context
<1>3. ResetHttpContext(x) \in Context
  BY <1>1, <1>2 DEF ResetHttpContext
<1>4. /\ ResetHttpContext(x).queue = x.queue /\ ResetHttpContext(x).ends = x.ends
      /\ ResetHttpContext(x).offset = x.offset /\ ResetHttpContext(x).rx = x.rx
  BY <1>0 DEF ResetHttpContext, Context
<1> QED BY <1>3, <1>4 DEF Good

(* What a well-formed context's fields are.                                *)
LEMMA GoodFacts ==
    ASSUME NEW x, Good(x)
    PROVE  /\ x \in Context /\ x.rx \in Seq(Tokens) /\ x.queue \in Seq(Tokens)
           /\ x.ends \in Seq(Nat) /\ x.offset \in Nat
           /\ Len(x.rx) <= MaxReqBuf /\ QueueOK(x.queue, x.ends, x.offset)
BY DEF Good, Context

(* Only fields outside the buffer and the queue change.                    *)
LEMMA SameBuffers ==
    ASSUME NEW x, Good(x), NEW y \in Context, y.rx = x.rx, y.queue = x.queue,
           y.ends = x.ends, y.offset = x.offset
    PROVE  Good(y)
BY DEF Good

(* The context OnHttpAccept fills in is well formed.                       *)
LEMMA AcceptGood ==
    ASSUME NEW x, Good(x), NEW a \in Addrs
    PROVE  LET y == [x EXCEPT !.queue = << >>, !.ends = << >>, !.offset = 0, !.peerClosing = FALSE]
               z == [ResetHttpContext(y) EXCEPT !.ip = a]
           IN  Good(z) /\ z.queue = << >> 
<1> DEFINE y == [x EXCEPT !.queue = << >>, !.ends = << >>, !.offset = 0, !.peerClosing = FALSE]
<1>0. x \in Context BY DEF Good
<1>1. PICK q \in Seq(Tokens), e \in Seq(Nat), o \in Nat, f \in BOOLEAN :
         q = << >> /\ e = << >> /\ o = 0 /\ f = FALSE
  BY EmptyQueue
<1>2. [x EXCEPT !.queue = q, !.ends = e, !.offset = o, !.peerClosing = f] \in Context
  BY <1>0 DEF Context
<1>3. y \in Context BY <1>1, <1>2
<1>4. y.queue = << >> /\ y.ends = << >> /\ y.offset = 0 /\ y.rx = x.rx
  BY <1>0 DEF Context
<1>5. Good(y) BY <1>3, <1>4, EmptyQueue DEF Good
<1> HIDE DEF y
<1> DEFINE r == ResetHttpContext(y)
<1>6. Good(r) /\ r.queue = << >> BY <1>5, <1>4, ResetGood
<1> HIDE DEF r
<1>7. r \in Context BY <1>6 DEF Good
<1>8. [r EXCEPT !.ip = a] \in Context BY <1>7 DEF Context, Addresses
<1>9. /\ [r EXCEPT !.ip = a].rx = r.rx /\ [r EXCEPT !.ip = a].queue = r.queue
      /\ [r EXCEPT !.ip = a].ends = r.ends /\ [r EXCEPT !.ip = a].offset = r.offset
  BY <1>7 DEF Context
<1>10. Good([r EXCEPT !.ip = a]) BY <1>6, <1>8, <1>9, SameBuffers
<1> QED BY <1>6, <1>9, <1>10 DEF y, r

(* Queueing a pbuf in OnHttpReceive keeps the context well formed.         *)
LEMMA ReceiveGood ==
    ASSUME NEW x, Good(x), NEW w \in Seq(Tokens), w # << >>
    PROVE  LET y == StoreReceived([x EXCEPT !.recvAge = 0], w)
           IN  /\ Good(y)
               /\ Len(y.queue) = Len(x.queue) + (IF y.queue = << >> THEN 0 ELSE Len(w))
<1>0. x \in Context BY DEF Good
<1>1. PICK n \in Ages : n = 0 BY Constants
<1> DEFINE z == [x EXCEPT !.recvAge = n]
<1>2. z = [x EXCEPT !.recvAge = 0] BY <1>1
<1>3. /\ z \in Context /\ z.rx = x.rx /\ z.queue = x.queue /\ z.ends = x.ends /\ z.offset = x.offset
  BY <1>0 DEF Context
<1>3a. z \in Context BY <1>3
<1> HIDE DEF z
<1>4. Good(z) BY <1>3, SameBuffers
<1>f. /\ z.rx \in Seq(Tokens) /\ z.queue \in Seq(Tokens)
      /\ z.ends \in Seq(Nat) /\ z.offset \in Nat
      /\ Len(z.rx) <= MaxReqBuf /\ QueueOK(z.queue, z.ends, z.offset)
  BY <1>4, GoodFacts
<1>5. Len(w) \in Nat /\ Len(w) > 0 OBVIOUS
<1>6. CASE z.queue # << >>
  <2> DEFINE q == z.queue \o w
             e == Append(z.ends, Len(z.queue) + Len(w))
  <2>1. q \in Seq(Tokens) /\ Len(q) = Len(z.queue) + Len(w) BY <1>f
  <2>2. Len(z.queue) \in Nat /\ EndsOK(z.ends, Len(z.queue)) /\ z.offset <= Len(z.queue)
    BY <1>f DEF QueueOK
  <2>3. e \in Seq(Nat) /\ EndsOK(e, Len(z.queue) + Len(w))
    BY <2>2, <1>5, <1>f, AppendEnds
  <2>4. QueueOK(q, e, z.offset)
    <3> HIDE DEF q, e
    <3>1. z.offset <= Len(z.queue) + Len(w) BY <2>2, <1>5, <1>f
    <3> QED BY <3>1, <2>1, <2>3 DEF QueueOK
  <2> DEFINE y == [z EXCEPT !.queue = q, !.ends = e]
  <2>5. Good(y) /\ y.queue = q
    <3> HIDE DEF q, e
    <3>1. y \in Context BY <1>3a, <2>1, <2>3 DEF Context
    <3>2. y.rx = z.rx /\ y.queue = q /\ y.ends = e /\ y.offset = z.offset
      BY <1>3a DEF Context
    <3> QED BY <3>1, <3>2, <2>4, <1>f DEF Good
  <2>6. y = StoreReceived(z, w)
    <3>1. [z EXCEPT !.queue = @ \o w, !.ends = Append(@, Len(z.queue) + Len(w))] = y
      BY <1>3 DEF Context
    <3> QED BY <3>1, <1>6 DEF StoreReceived
  <2>7. y.queue # << >>
    <3> HIDE DEF y, q
    <3> QED BY <2>1, <2>5, <1>5, <1>f
  <2> HIDE DEF y, q
  <2> QED BY <2>1, <2>5, <2>6, <2>7, <1>2, <1>3
<1>7. CASE z.queue = << >> /\ Len(w) > MaxReqBuf - Len(z.rx)
  <2> DEFINE e == <<Len(w)>>
             y == [z EXCEPT !.queue = w, !.ends = e]
  <2>1. e \in Seq(Nat) /\ Len(e) = 1 /\ e[1] = Len(w) BY <1>5
  <2>2. z.offset <= Len(w) BY <1>f, <1>5, <1>7 DEF QueueOK
  <2>3. EndsOK(e, Len(w))
    <3> HIDE DEF e
    <3> QED BY <2>1, <1>5 DEF EndsOK
  <2>4. QueueOK(w, e, z.offset) BY <2>2, <2>3 DEF QueueOK
  <2>5. Good(y) /\ y.queue = w
    <3> HIDE DEF e
    <3>1. y \in Context BY <1>3a, <2>1 DEF Context
    <3>2. y.rx = z.rx /\ y.queue = w /\ y.ends = e /\ y.offset = z.offset
      BY <1>3a DEF Context
    <3> QED BY <3>1, <3>2, <2>4, <1>f DEF Good
  <2>6. y = StoreReceived(z, w) BY <1>7 DEF StoreReceived
  <2> HIDE DEF y
  <2> QED BY <2>5, <2>6, <1>2, <1>3, <1>7
<1>8. CASE z.queue = << >> /\ ~ (Len(w) > MaxReqBuf - Len(z.rx))
  <2> DEFINE r == z.rx \o w
             y == [z EXCEPT !.rx = r]
  <2>1. r \in Seq(Tokens) /\ Len(r) = Len(z.rx) + Len(w)
    BY <1>f
  <2>2. Len(r) <= MaxReqBuf
    <3> HIDE DEF r
    <3> QED BY <2>1, <1>5, <1>8, <1>f, SizesAssumption
  <2>3. Good(y) /\ y.queue = z.queue
    <3> HIDE DEF r
    <3>1. y \in Context BY <1>3a, <2>1 DEF Context
    <3>2. y.rx = r /\ y.queue = z.queue /\ y.ends = z.ends /\ y.offset = z.offset
      BY <1>3a DEF Context
    <3> QED BY <3>1, <3>2, <2>2, <1>f DEF Good
  <2>4. y = StoreReceived(z, w) BY <1>8, <1>3 DEF StoreReceived, Context
  <2> HIDE DEF y
  <2> QED BY <2>3, <2>4, <1>2, <1>3, <1>8
<1> QED BY <1>6, <1>7, <1>8

(* Copying from the first pbuf into the request buffer keeps the context   *)
(* well formed, whatever the room left.                                    *)
LEMMA DequeueGood ==
    ASSUME NEW x, Good(x)
    PROVE  Good(Dequeue(x)) /\ Dequeue(x).queue = x.queue
<1> DEFINE n == IF x.queue = << >> THEN 0 ELSE Least(MaxReqBuf - Len(x.rx), Len(x.queue) - x.offset)
           s == SubSeq(x.queue, x.offset + 1, x.offset + n)
           r == x.rx \o s
           o == x.offset + n
<1>0. x \in Context BY DEF Good
<1>f. /\ x.rx \in Seq(Tokens) /\ x.queue \in Seq(Tokens)
      /\ x.ends \in Seq(Nat) /\ x.offset \in Nat
      /\ Len(x.rx) <= MaxReqBuf /\ QueueOK(x.queue, x.ends, x.offset)
  BY GoodFacts
<1>1. /\ n \in Nat /\ n <= MaxReqBuf - Len(x.rx) /\ x.offset + n <= Len(x.queue)
  <2>1. x.offset <= Len(x.queue) BY <1>f DEF QueueOK
  <2> QED BY <2>1, <1>f, SizesAssumption DEF Least
<1> HIDE DEF n
<1>2. s \in Seq(Tokens) /\ Len(s) = n BY <1>1, <1>f
<1> HIDE DEF s
<1>3. r \in Seq(Tokens) /\ Len(r) = Len(x.rx) + n
  <2>1. ASSUME NEW t \in Seq(Tokens), NEW u \in Seq(Tokens)
        PROVE  t \o u \in Seq(Tokens) /\ Len(t \o u) = Len(t) + Len(u)
    OBVIOUS
  <2> QED BY <2>1, <1>2, <1>f
<1>4. o \in Nat BY <1>1, <1>f
<1> HIDE DEF r
<1>5. Len(r) <= MaxReqBuf BY <1>1, <1>3, <1>f, SizesAssumption
<1> DEFINE y == [x EXCEPT !.rx = r, !.offset = o]
<1>6. Good(y) /\ y.queue = x.queue
  <2>1. o <= Len(x.queue) BY <1>1
  <2> HIDE DEF o
  <2>2. y \in Context BY <1>0, <1>3, <1>4 DEF Context
  <2>3. y.rx = r /\ y.queue = x.queue /\ y.ends = x.ends /\ y.offset = o
    BY <1>0 DEF Context
  <2> QED BY <2>1, <2>2, <2>3, <1>5, <1>f DEF Good, QueueOK
<1>7. y = Dequeue(x) BY <1>0 DEF Dequeue, Context, r, s, n
<1> HIDE DEF y
<1> QED BY <1>6, <1>7

(* Freeing the first pbuf once it is copied keeps the context well formed. *)
LEMMA UnlinkGood ==
    ASSUME NEW x, Good(x), PbufCopied(x)
    PROVE  LET k == Head(x.ends)
               y == [x EXCEPT !.queue = DropFirst(@, k),
                              !.ends = [i \in 1 .. Len(@) - 1 |-> @[i + 1] - k],
                              !.offset = @ - k]
           IN  Good(y) /\ k \in Nat /\ Len(y.queue) = Len(x.queue) - k
<1> DEFINE k == Head(x.ends)
           q == DropFirst(x.queue, k)
           e == [i \in 1 .. Len(x.ends) - 1 |-> x.ends[i + 1] - k]
           o == x.offset - k
           y == [x EXCEPT !.queue = q, !.ends = e, !.offset = o]
<1>0. x \in Context BY DEF Good
<1>f. /\ x.queue \in Seq(Tokens) /\ x.ends \in Seq(Nat) /\ x.offset \in Nat
      /\ x.offset <= Len(x.queue) /\ EndsOK(x.ends, Len(x.queue)) /\ Len(x.queue) \in Nat
  BY GoodFacts DEF QueueOK
<1>1. x.queue # << >> /\ k <= x.offset
  BY DEF PbufCopied
<1>2. Len(x.ends) > 0 /\ k = x.ends[1]
  <2>1. Len(x.queue) # 0 BY <1>1, <1>f
  <2>2. Len(x.ends) # 0 BY <2>1 DEF EndsOK, QueueOK, Good
  <2> QED BY <2>2, <1>f
<1>3. e \in Seq(Nat) /\ k \in Nat /\ k <= Len(x.queue) /\ EndsOK(e, Len(x.queue) - k)
  BY <1>2, <1>f, UnlinkEnds
<1> HIDE DEF k, e
<1>4. q \in Seq(Tokens) /\ Len(q) = Len(x.queue) - k
  BY <1>3, <1>f DEF DropFirst
<1> HIDE DEF q
<1>5. o \in Nat /\ o <= Len(x.queue) - k BY <1>1, <1>3, <1>f
<1> HIDE DEF o
<1>6. QueueOK(q, e, o) BY <1>3, <1>4, <1>5 DEF QueueOK
<1>7. Good(y) /\ y.queue = q
  <2>1. y \in Context BY <1>0, <1>3, <1>4, <1>5 DEF Context
  <2>2. y.rx = x.rx /\ y.queue = q /\ y.ends = e /\ y.offset = o
    BY <1>0 DEF Context
  <2> QED BY <2>1, <2>2, <1>6 DEF Good
<1>8. y = [x EXCEPT !.queue = DropFirst(@, k),
                    !.ends = [i \in 1 .. Len(@) - 1 |-> @[i + 1] - k],
                    !.offset = @ - k]
  BY <1>0 DEF Context, q, e, o
<1> HIDE DEF y
<1> QED BY <1>3, <1>4, <1>7, <1>8 DEF k

(* A context after a step that leaves its queue alone.                     *)
Keeps(y, x) == Good(y) /\ y.queue = x.queue

(* The passing of time leaves a context's queue and buffer alone.          *)
LEMMA TickKeeps ==
    ASSUME NEW x, Good(x)
    PROVE  Keeps([x EXCEPT !.recvAge = Older(@), !.sendAge = Older(@)], x)
<1>0. x \in Context BY DEF Good
<1>1. \A t \in Ages : Older(t) \in Ages
  BY SizesAssumption DEF Older, Ages, NoTime, Least
<1>2. x.recvAge \in Ages /\ x.sendAge \in Ages BY <1>0 DEF Context
<1> DEFINE a == Older(x.recvAge)
           b == Older(x.sendAge)
           y == [x EXCEPT !.recvAge = a, !.sendAge = b]
<1>3. a \in Ages /\ b \in Ages BY <1>1, <1>2
<1> HIDE DEF a, b
<1>4. y \in Context BY <1>0, <1>3 DEF Context
<1>5. y.rx = x.rx /\ y.queue = x.queue /\ y.ends = x.ends /\ y.offset = x.offset
  BY <1>0 DEF Context
<1>6. Good(y) BY <1>4, <1>5, SameBuffers
<1> QED BY <1>5, <1>6, <1>0 DEF Keeps, Context, a, b

(* Noting that the peer closed leaves a context's queue and buffer alone.  *)
LEMMA PeerCloseKeeps ==
    ASSUME NEW x, Good(x)
    PROVE  Keeps([x EXCEPT !.recvAge = 0, !.peerClosing = TRUE], x)
<1>0. x \in Context BY DEF Good
<1>1. PICK t \in Ages, b \in BOOLEAN : t = 0 /\ b = TRUE BY Constants
<1> DEFINE y == [x EXCEPT !.recvAge = t, !.peerClosing = b]
<1>2. y \in Context BY <1>0 DEF Context
<1>3. y.rx = x.rx /\ y.queue = x.queue /\ y.ends = x.ends /\ y.offset = x.offset
  BY <1>0 DEF Context
<1> HIDE DEF y
<1>4. Good(y) BY <1>2, <1>3, SameBuffers
<1> QED BY <1>1, <1>3, <1>4 DEF Keeps, y

(* Counting an acknowledgement in OnHttpSent leaves a context's queue and  *)
(* buffer alone.                                                           *)
LEMMA DueKeeps ==
    ASSUME NEW x, Good(x), NEW n \in Int
    PROVE  Keeps([x EXCEPT !.due = @ - n], x)
<1>0. x \in Context BY DEF Good
<1> DEFINE d == x.due - n
           y == [x EXCEPT !.due = d]
<1>1. d \in Int BY <1>0 DEF Context
<1> HIDE DEF d
<1>2. y \in Context BY <1>0, <1>1 DEF Context
<1>3. y.rx = x.rx /\ y.queue = x.queue /\ y.ends = x.ends /\ y.offset = x.offset
  BY <1>0 DEF Context
<1>4. y = [x EXCEPT !.due = @ - n] BY <1>0 DEF d, Context
<1> HIDE DEF y
<1>5. Good(y) BY <1>2, <1>3, SameBuffers
<1> QED BY <1>3, <1>4, <1>5 DEF Keeps

(* Taking up a request keeps the context well formed.                      *)
LEMMA StartKeeps ==
    ASSUME NEW x, Good(x)
    PROVE  Keeps([x EXCEPT !.state = HEADER_RECEIVING, !.recvAge = 0, !.sendAge = NoTime], x)
<1>0. x \in Context BY DEF Good
<1>1. PICK t \in Ages, s \in States, u \in Ages : t = 0 /\ s = HEADER_RECEIVING /\ u = NoTime
  BY Constants
<1> DEFINE y == [x EXCEPT !.state = s, !.recvAge = t, !.sendAge = u]
<1>2. y \in Context BY <1>0 DEF Context
<1>3. y.rx = x.rx /\ y.queue = x.queue /\ y.ends = x.ends /\ y.offset = x.offset
  BY <1>0 DEF Context
<1> HIDE DEF y
<1>4. Good(y) BY <1>2, <1>3, SameBuffers
<1> QED BY <1>1, <1>3, <1>4 DEF Keeps, y

(* Setting ctxResponse's result keeps the context well formed.             *)
LEMMA ResultKeeps ==
    ASSUME NEW x, Good(x), NEW r \in Results
    PROVE  Keeps([x EXCEPT !.result = r], x)
<1>0. x \in Context BY DEF Good
<1> DEFINE y == [x EXCEPT !.result = r]
<1>2. y \in Context BY <1>0 DEF Context
<1>3. y.rx = x.rx /\ y.queue = x.queue /\ y.ends = x.ends /\ y.offset = x.offset
  BY <1>0 DEF Context
<1> HIDE DEF y
<1>4. Good(y) BY <1>2, <1>3, SameBuffers
<1> QED BY <1>3, <1>4 DEF Keeps, y

(* Moving to another state of http_core.h keeps the context well formed.   *)
LEMMA StateKeeps ==
    ASSUME NEW x, Good(x), NEW s \in States
    PROVE  Keeps([x EXCEPT !.state = s], x)
<1>0. x \in Context BY DEF Good
<1> DEFINE y == [x EXCEPT !.state = s]
<1>2. y \in Context BY <1>0 DEF Context
<1>3. y.rx = x.rx /\ y.queue = x.queue /\ y.ends = x.ends /\ y.offset = x.offset
  BY <1>0 DEF Context
<1> HIDE DEF y
<1>4. Good(y) BY <1>2, <1>3, SameBuffers
<1> QED BY <1>3, <1>4 DEF Keeps, y

(* Moving to another state with a result keeps the context well formed.    *)
LEMMA StateResultKeeps ==
    ASSUME NEW x, Good(x), NEW s \in States, NEW r \in Results
    PROVE  Keeps([x EXCEPT !.state = s, !.result = r], x)
<1>0. x \in Context BY DEF Good
<1> DEFINE y == [x EXCEPT !.state = s, !.result = r]
<1>1. y \in Context BY <1>0 DEF Context
<1>2. y.rx = x.rx /\ y.queue = x.queue /\ y.ends = x.ends /\ y.offset = x.offset
  BY <1>0 DEF Context
<1> HIDE DEF y
<1>3. Good(y) BY <1>1, <1>2, SameBuffers
<1> QED BY <1>2, <1>3 DEF Keeps, y

(* The outcome of the headers keeps the context well formed.               *)
LEMMA HeadersKeeps ==
    ASSUME NEW x, Good(x), NEW s \in States, NEW r \in Results, NEW a \in Ages
    PROVE  Keeps([x EXCEPT !.result = r, !.state = s, !.sendAge = a], x)
<1>0. x \in Context BY DEF Good
<1> DEFINE y == [x EXCEPT !.result = r, !.state = s, !.sendAge = a]
<1>1. y \in Context BY <1>0 DEF Context
<1>2. y.rx = x.rx /\ y.queue = x.queue /\ y.ends = x.ends /\ y.offset = x.offset
  BY <1>0 DEF Context
<1> HIDE DEF y
<1>3. Good(y) BY <1>1, <1>2, SameBuffers
<1> QED BY <1>2, <1>3 DEF Keeps, y

(* The buffer shrinks by the tokens a parser step used.                    *)
LEMMA DropKeeps ==
    ASSUME NEW x, Good(x), NEW n \in Nat
    PROVE  Keeps([x EXCEPT !.rx = DropFirst(@, n)], x)
<1>0. x \in Context BY DEF Good
<1>1. x.rx \in Seq(Tokens) /\ Len(x.rx) \in Nat BY <1>0 DEF Context
<1> DEFINE r == DropFirst(x.rx, n)
           y == [x EXCEPT !.rx = r]
<1>2. r \in Seq(Tokens) /\ Len(r) <= Len(x.rx) BY <1>1, DropFirstFacts
<1>3. Len(r) \in Nat BY <1>2
<1> HIDE DEF r
<1>4. y \in Context BY <1>0, <1>2 DEF Context
<1>5. y.rx = r /\ y.queue = x.queue /\ y.ends = x.ends /\ y.offset = x.offset
  BY <1>0 DEF Context
<1>6. y = [x EXCEPT !.rx = DropFirst(@, n)] BY <1>0 DEF r, Context
<1> HIDE DEF y
<1>7. Good(y) BY <1>1, <1>2, <1>3, <1>4, <1>5, SizesAssumption DEF Good
<1> QED BY <1>5, <1>6, <1>7 DEF Keeps

(* Applying one header line and dropping it keeps the context well formed. *)
LEMMA HeaderLineKeeps ==
    ASSUME NEW x, Good(x), NEW t \in Tokens, x.request = "none" => t \in DOMAIN Requests
    PROVE  Keeps(HeaderLine(x, t), x)
<1>0. x \in Context BY DEF Good
<1>1. CASE x.request = "none"
  <2>1. t \in Asked /\ Requests[t].handler \in Handlers
    BY <1>1, HandlersOfRequests DEF Asked
  <2> DEFINE h == Requests[t].handler
             y == [x EXCEPT !.request = t, !.handler = h]
  <2>2. h \in Handlers BY <2>1
  <2> HIDE DEF h
  <2>3. y \in Context BY <1>0, <2>1, <2>2 DEF Context
  <2>4. y.rx = x.rx /\ y.queue = x.queue /\ y.ends = x.ends /\ y.offset = x.offset
    BY <1>0 DEF Context
  <2>5. HeaderLine(x, t) = y BY <1>1 DEF HeaderLine, h
  <2> HIDE DEF y
  <2>6. Good(y) BY <2>3, <2>4, SameBuffers
  <2> QED BY <2>4, <2>5, <2>6 DEF Keeps
<1>2. CASE x.request # "none" /\ t = "length"
  <2>1. PICK l \in Int, n \in Nat : l = BodyLen /\ n = 0 BY Constants
  <2> DEFINE y == [x EXCEPT !.contentLength = l, !.contentReceived = n]
  <2>3. y \in Context BY <1>0 DEF Context
  <2>4. y.rx = x.rx /\ y.queue = x.queue /\ y.ends = x.ends /\ y.offset = x.offset
    BY <1>0 DEF Context
  <2>5. HeaderLine(x, t) = y BY <1>2, <2>1 DEF HeaderLine
  <2> HIDE DEF y
  <2>6. Good(y) BY <2>3, <2>4, SameBuffers
  <2> QED BY <2>4, <2>5, <2>6 DEF Keeps
<1>3. CASE x.request # "none" /\ t \in {"keepalive", "close"}
  <2>1. PICK b \in BOOLEAN : b = (t = "keepalive") OBVIOUS
  <2> DEFINE y == [x EXCEPT !.keepalive = b]
  <2>3. y \in Context BY <1>0 DEF Context
  <2>4. y.rx = x.rx /\ y.queue = x.queue /\ y.ends = x.ends /\ y.offset = x.offset
    BY <1>0 DEF Context
  <2>5. HeaderLine(x, t) = y BY <1>3, <2>1 DEF HeaderLine
  <2> HIDE DEF y
  <2>6. Good(y) BY <2>3, <2>4, SameBuffers
  <2> QED BY <2>4, <2>5, <2>6 DEF Keeps
<1>4. CASE x.request # "none" /\ t \notin {"length", "keepalive", "close"}
  <2>1. HeaderLine(x, t) = x BY <1>4 DEF HeaderLine
  <2> QED BY <2>1 DEF Keeps
<1> QED BY <1>1, <1>2, <1>3, <1>4

(* Dropping the empty line that ends the headers keeps the context well    *)
(* formed.                                                                 *)
LEMMA EmptyLineKeeps ==
    ASSUME NEW x, Good(x)
    PROVE  Keeps([x EXCEPT !.state = HEADER_DONE, !.rx = DropFirst(@, 1),
                           !.sending = FALSE, !.due = 0, !.stage = 0, !.bytesLeft = 0,
                           !.result = IF x.request = "none" THEN -500 ELSE @], x)
<1>0. x \in Context BY DEF Good
<1>1. x.result \in Results BY <1>0 DEF Context
<1>2. DropFirst(x.rx, 1) \in Seq(Tokens) /\ Len(DropFirst(x.rx, 1)) <= MaxReqBuf
  <2>1. x.rx \in Seq(Tokens) /\ Len(x.rx) <= MaxReqBuf BY GoodFacts
  <2>2. DropFirst(x.rx, 1) \in Seq(Tokens) /\ Len(DropFirst(x.rx, 1)) <= Len(x.rx)
    BY <2>1, DropFirstFacts
  <2>3. Len(DropFirst(x.rx, 1)) \in Nat /\ Len(x.rx) \in Nat BY <2>1, <2>2
  <2> QED BY <2>1, <2>2, <2>3, SizesAssumption
<1>3. PICK s \in States, q \in Seq(Tokens), f \in BOOLEAN, d \in Int, g \in Stages, l \in Nat,
           r \in Results :
         /\ s = HEADER_DONE /\ q = DropFirst(x.rx, 1) /\ f = FALSE /\ d = 0 /\ g = 0 /\ l = 0
         /\ r = IF x.request = "none" THEN -500 ELSE x.result
  <2>1. \E r \in Results : r = IF x.request = "none" THEN -500 ELSE x.result BY <1>1, Constants
  <2>2. \E q \in Seq(Tokens) : q = DropFirst(x.rx, 1) BY <1>2
  <2>3. /\ HEADER_DONE \in States /\ FALSE \in BOOLEAN /\ 0 \in Int /\ 0 \in Stages /\ 0 \in Nat
    BY Constants
  <2> QED BY <2>1, <2>2, <2>3
<1> DEFINE y == [x EXCEPT !.state = s, !.rx = q, !.sending = f, !.due = d, !.stage = g,
                          !.bytesLeft = l, !.result = r]
<1>4. y = [x EXCEPT !.state = HEADER_DONE, !.rx = DropFirst(@, 1),
                    !.sending = FALSE, !.due = 0, !.stage = 0, !.bytesLeft = 0,
                    !.result = IF x.request = "none" THEN -500 ELSE @]
  BY <1>3
<1>5. y \in Context BY <1>0 DEF Context
<1>6. y.rx = q /\ y.queue = x.queue /\ y.ends = x.ends /\ y.offset = x.offset
  BY <1>0 DEF Context
<1> HIDE DEF y
<1>7. Good(y) BY <1>2, <1>3, <1>5, <1>6 DEF Good
<1> QED BY <1>4, <1>6, <1>7 DEF Keeps

(* Handing body bytes to a handler keeps the context well formed.          *)
LEMMA BodyKeeps ==
    ASSUME NEW x, Good(x), NEW n \in Nat, NEW a \in Ages
    PROVE  Keeps([x EXCEPT !.contentReceived = @ + n, !.rx = DropFirst(@, n), !.recvAge = a], x)
<1>0. x \in Context BY DEF Good
<1> DEFINE v == [x EXCEPT !.rx = DropFirst(@, n)]
           m == x.contentReceived + n
           y == [v EXCEPT !.contentReceived = m, !.recvAge = a]
<1>1. m \in Nat BY <1>0 DEF Context
<1>2. Keeps(v, x) BY DropKeeps
<1>3. v \in Context BY <1>2 DEF Keeps, Good
<1>4. y = [x EXCEPT !.contentReceived = @ + n, !.rx = DropFirst(@, n), !.recvAge = a]
  BY <1>0 DEF Context
<1> HIDE DEF v, m
<1>6. y \in Context BY <1>1, <1>3 DEF Context
<1>7. y.rx = v.rx /\ y.queue = v.queue /\ y.ends = v.ends /\ y.offset = v.offset
  BY <1>3 DEF Context
<1> HIDE DEF y
<1>8. Good(y) BY <1>2, <1>6, <1>7, SameBuffers DEF Keeps
<1> QED BY <1>2, <1>4, <1>7, <1>8 DEF Keeps

(* Having received the whole body keeps the context well formed.           *)
LEMMA DoneKeeps ==
    ASSUME NEW x, Good(x), NEW s \in States
    PROVE  Keeps([x EXCEPT !.state = s, !.sendAge = 0], x)
<1>0. x \in Context BY DEF Good
<1>1. PICK t \in Ages : t = 0 BY Constants
<1> DEFINE y == [x EXCEPT !.state = s, !.sendAge = t]
<1>2. y \in Context BY <1>0 DEF Context
<1>3. y.rx = x.rx /\ y.queue = x.queue /\ y.ends = x.ends /\ y.offset = x.offset
  BY <1>0 DEF Context
<1> HIDE DEF y
<1>4. Good(y) BY <1>2, <1>3, SameBuffers
<1> QED BY <1>1, <1>3, <1>4 DEF Keeps, y

(* Fixing the header of the response keeps the context well formed.        *)
LEMMA ResponseKeeps ==
    ASSUME NEW x, Good(x), NEW ok \in BOOLEAN, NEW s \in States
    PROVE  Keeps([x EXCEPT !.stage = 0, !.sendAge = 0, !.bytesLeft = HeaderLen,
                           !.sending = ok, !.state = s], x)
<1>0. x \in Context BY DEF Good
<1>1. PICK g \in Stages, t \in Ages, l \in Nat : g = 0 /\ t = 0 /\ l = HeaderLen
  BY Constants, SizesAssumption
<1> DEFINE y == [x EXCEPT !.stage = g, !.sendAge = t, !.bytesLeft = l, !.sending = ok, !.state = s]
<1>2. y \in Context BY <1>0 DEF Context
<1>3. y.rx = x.rx /\ y.queue = x.queue /\ y.ends = x.ends /\ y.offset = x.offset
  BY <1>0 DEF Context
<1> HIDE DEF y
<1>4. Good(y) BY <1>2, <1>3, SameBuffers
<1> QED BY <1>1, <1>3, <1>4 DEF Keeps, y

(* A handler's progress through its response keeps the context well        *)
(* formed.                                                                 *)
LEMMA StageKeeps ==
    ASSUME NEW x, Good(x), NEW g \in Stages, NEW r \in Results
    PROVE  Keeps([x EXCEPT !.stage = g, !.result = r], x)
<1>0. x \in Context BY DEF Good
<1> DEFINE y == [x EXCEPT !.stage = g, !.result = r]
<1>2. y \in Context BY <1>0 DEF Context
<1>3. y.rx = x.rx /\ y.queue = x.queue /\ y.ends = x.ends /\ y.offset = x.offset
  BY <1>0 DEF Context
<1> HIDE DEF y
<1>4. Good(y) BY <1>2, <1>3, SameBuffers
<1> QED BY <1>3, <1>4 DEF Keeps, y

(* Counting bytes left to send keeps the context well formed.              *)
LEMMA BytesKeeps ==
    ASSUME NEW x, Good(x), NEW n \in Nat
    PROVE  Keeps([x EXCEPT !.bytesLeft = @ + n], x)
<1>0. x \in Context BY DEF Good
<1> DEFINE d == x.bytesLeft + n
           y == [x EXCEPT !.bytesLeft = d]
<1>1. d \in Nat BY <1>0 DEF Context
<1> HIDE DEF d
<1>2. y \in Context BY <1>0, <1>1 DEF Context
<1>3. y.rx = x.rx /\ y.queue = x.queue /\ y.ends = x.ends /\ y.offset = x.offset
  BY <1>0 DEF Context
<1>4. y = [x EXCEPT !.bytesLeft = @ + n] BY <1>0 DEF d, Context
<1> HIDE DEF y
<1>5. Good(y) BY <1>2, <1>3, SameBuffers
<1> QED BY <1>3, <1>4, <1>5 DEF Keeps

-----------------------------------------------------------------------------
(* What a context has received and not consumed.                           *)

(* The elements that are left after the first n.                           *)
LEMMA DropElements ==
    ASSUME NEW s \in Seq(Tokens), NEW n \in Nat, n <= Len(s)
    PROVE  /\ DropFirst(s, n) \in Seq(Tokens) /\ Len(DropFirst(s, n)) = Len(s) - n
           /\ \A i \in 1 .. Len(s) - n : DropFirst(s, n)[i] = s[n + i]
<1>1. DropFirst(s, n) \in Seq(Tokens) /\ Len(DropFirst(s, n)) = Len(s) - n
  BY DropFirstFacts
<1>2. Len(s) \in Nat BY LenProperties
<1>3. \A i \in n + 1 .. Len(s) : s[i] \in Tokens
  <2>1. \A i \in n + 1 .. Len(s) : i \in 1 .. Len(s) BY <1>2
  <2> QED BY <2>1, ElementOfSeq
<1>4. \A i \in 1 .. Len(s) - (n + 1) + 1 : SubSeq(s, n + 1, Len(s))[i] = s[(n + 1) + i - 1]
  BY <1>2, <1>3, SubSeqProperties
<1>5. ASSUME NEW i \in 1 .. Len(s) - n PROVE DropFirst(s, n)[i] = s[n + i]
  <2>1. i \in 1 .. Len(s) - (n + 1) + 1 /\ (n + 1) + i - 1 = n + i BY <1>2
  <2> QED BY <1>4, <2>1 DEF DropFirst
<1> QED BY <1>1, <1>5

(* Dropping nothing.                                                       *)
LEMMA DropNothing ==
    ASSUME NEW s \in Seq(Tokens)
    PROVE  DropFirst(s, 0) = s
BY SubSeqFull DEF DropFirst

(* Dropping from a concatenation, within its first part.                   *)
LEMMA DropOfConcat ==
    ASSUME NEW s \in Seq(Tokens), NEW t \in Seq(Tokens), NEW n \in Nat, n <= Len(s)
    PROVE  DropFirst(s \o t, n) = DropFirst(s, n) \o t
<1> DEFINE st == s \o t
           d == DropFirst(s, n)
           u == DropFirst(st, n)
           v == d \o t
<1>1. Len(s) \in Nat /\ Len(t) \in Nat BY LenProperties
<1>2. st \in Seq(Tokens) /\ Len(st) = Len(s) + Len(t) BY ConcatProperties
<1>3. \A i \in 1 .. Len(s) + Len(t) : st[i] = IF i <= Len(s) THEN s[i] ELSE t[i - Len(s)]
  BY ConcatProperties
<1>4. /\ d \in Seq(Tokens) /\ Len(d) = Len(s) - n
      /\ \A i \in 1 .. Len(s) - n : d[i] = s[n + i]
  BY DropElements
<1> HIDE DEF st
<1>5. /\ u \in Seq(Tokens) /\ Len(u) = Len(st) - n
      /\ \A i \in 1 .. Len(st) - n : u[i] = st[n + i]
  <2>1. n <= Len(st) BY <1>1, <1>2
  <2> QED BY <1>2, <2>1, DropElements
<1> HIDE DEF d, u
<1>6. v \in Seq(Tokens) /\ Len(v) = Len(d) + Len(t) BY <1>4, ConcatProperties
<1>7. \A i \in 1 .. Len(d) + Len(t) : v[i] = IF i <= Len(d) THEN d[i] ELSE t[i - Len(d)]
  BY <1>4, ConcatProperties
<1> HIDE DEF v
<1>8. Len(u) = Len(v) BY <1>1, <1>2, <1>4, <1>5, <1>6
<1>9. ASSUME NEW i \in 1 .. Len(u) PROVE u[i] = v[i]
  <2>1. u[i] = st[n + i] BY <1>5, <1>9
  <2>2. n + i \in 1 .. Len(s) + Len(t) /\ i \in 1 .. Len(d) + Len(t)
    BY <1>1, <1>2, <1>4, <1>5
  <2>3. st[n + i] = IF n + i <= Len(s) THEN s[n + i] ELSE t[n + i - Len(s)]
    BY <1>3, <2>2
  <2>4. v[i] = IF i <= Len(d) THEN d[i] ELSE t[i - Len(d)] BY <1>7, <2>2
  <2>5. CASE i <= Len(d)
    <3>1. n + i <= Len(s) /\ i \in 1 .. Len(s) - n BY <2>5, <1>1, <1>4
    <3> QED BY <3>1, <2>1, <2>3, <2>4, <2>5, <1>4
  <2>6. CASE ~(i <= Len(d))
    <3>1. ~(n + i <= Len(s)) /\ n + i - Len(s) = i - Len(d) BY <2>6, <1>1, <1>4
    <3> QED BY <3>1, <2>1, <2>3, <2>4, <2>6
  <2> QED BY <2>5, <2>6
<1>10. u = v BY <1>5, <1>6, <1>8, <1>9, SeqEqual
<1> QED BY <1>10 DEF u, v, st, d

(* Dropping in two goes.                                                   *)
LEMMA DropTwice ==
    ASSUME NEW s \in Seq(Tokens), NEW k \in Nat, NEW n \in Nat, k <= n, n <= Len(s)
    PROVE  DropFirst(DropFirst(s, k), n - k) = DropFirst(s, n)
<1> DEFINE d == DropFirst(s, k)
           u == DropFirst(d, n - k)
           v == DropFirst(s, n)
<1>1. Len(s) \in Nat /\ n - k \in Nat BY LenProperties
<1>2. /\ d \in Seq(Tokens) /\ Len(d) = Len(s) - k
      /\ \A i \in 1 .. Len(s) - k : d[i] = s[k + i]
  <2>1. k <= Len(s) BY <1>1
  <2> QED BY <2>1, DropElements
<1>3. /\ v \in Seq(Tokens) /\ Len(v) = Len(s) - n
      /\ \A i \in 1 .. Len(s) - n : v[i] = s[n + i]
  BY DropElements
<1> HIDE DEF d
<1>4. /\ u \in Seq(Tokens) /\ Len(u) = Len(d) - (n - k)
      /\ \A i \in 1 .. Len(d) - (n - k) : u[i] = d[n - k + i]
  <2>1. n - k <= Len(d) BY <1>1, <1>2
  <2> QED BY <1>1, <1>2, <2>1, DropElements
<1> HIDE DEF u, v
<1>5. Len(u) = Len(v) BY <1>1, <1>2, <1>3, <1>4
<1>6. ASSUME NEW i \in 1 .. Len(u) PROVE u[i] = v[i]
  <2>1. /\ i \in 1 .. Len(d) - (n - k) /\ i \in 1 .. Len(s) - n
        /\ n - k + i \in 1 .. Len(s) - k /\ k + (n - k + i) = n + i
    BY <1>1, <1>2, <1>3, <1>4
  <2>2. u[i] = d[n - k + i] BY <1>4, <2>1
  <2>3. d[n - k + i] = s[k + (n - k + i)] BY <1>2, <2>1
  <2>4. v[i] = s[n + i] BY <1>3, <2>1
  <2> QED BY <2>1, <2>2, <2>3, <2>4
<1>7. u = v BY <1>3, <1>4, <1>5, <1>6, SeqEqual
<1> QED BY <1>7 DEF u, v, d

(* The parts of what a context holds.                                      *)
LEMMA PendingParts ==
    ASSUME NEW x, Good(x)
    PROVE  /\ x.rx \in Seq(Tokens) /\ x.queue \in Seq(Tokens) /\ x.offset \in Nat
           /\ x.offset <= Len(x.queue) /\ Len(x.rx) \in Nat /\ Len(x.queue) \in Nat
           /\ DropFirst(x.queue, x.offset) \in Seq(Tokens) /\ Pending(x) \in Seq(Tokens)
<1>1. /\ x.rx \in Seq(Tokens) /\ x.queue \in Seq(Tokens) /\ x.offset \in Nat
      /\ x.offset <= Len(x.queue)
  BY GoodFacts DEF QueueOK
<1>2. DropFirst(x.queue, x.offset) \in Seq(Tokens) BY <1>1, DropFirstFacts
<1>3. Pending(x) \in Seq(Tokens) BY <1>1, <1>2, ConcatProperties DEF Pending
<1>4. Len(x.rx) \in Nat /\ Len(x.queue) \in Nat BY <1>1, LenProperties
<1> QED BY <1>1, <1>2, <1>3, <1>4

(* Concatenation is associative, for streams of tokens.                    *)
LEMMA ConcatTokens ==
    \A r, t, u \in Seq(Tokens) : (r \o t) \o u = r \o (t \o u)
<1>1. ASSUME NEW r \in Seq(Tokens), NEW t \in Seq(Tokens), NEW u \in Seq(Tokens)
      PROVE  (r \o t) \o u = r \o (t \o u)
  BY ConcatAssociative, SMTT(60)
<1> QED BY <1>1, Zenon

(* Copying from the queue into the buffer moves the boundary between the   *)
(* two, not a byte.                                                        *)
LEMMA DequeuePending ==
    ASSUME NEW x, Good(x)
    PROVE  Pending(Dequeue(x)) = Pending(x)
<1> DEFINE n == IF x.queue = << >> THEN 0 ELSE Least(MaxReqBuf - Len(x.rx), Len(x.queue) - x.offset)
           q == x.queue
           o == x.offset
           s == SubSeq(q, o + 1, o + n)
<1>1. /\ x.rx \in Seq(Tokens) /\ q \in Seq(Tokens) /\ o \in Nat /\ o <= Len(q)
      /\ Len(x.rx) \in Nat /\ Len(q) \in Nat /\ Len(x.rx) <= MaxReqBuf
  BY PendingParts DEF Good
<1>2. n \in Nat /\ o + n <= Len(q) BY <1>1, SizesAssumption DEF Least
<1>3. /\ Dequeue(x).rx = x.rx \o s /\ Dequeue(x).offset = o + n /\ Dequeue(x).queue = q
  BY DEF Dequeue, Good, Context
<1> HIDE DEF n
<1>4. Pending(Dequeue(x)) = (x.rx \o s) \o DropFirst(q, o + n) BY <1>3 DEF Pending
<1> HIDE DEF q, o
<1>5. s \o DropFirst(q, o + n) = DropFirst(q, o)
  <2>1. o + 1 \in 1 .. Len(q) + 1 /\ o + n \in (o + 1) - 1 .. Len(q) /\ Len(q) \in o + n .. Len(q)
    BY <1>1, <1>2
  <2> QED BY <1>1, <2>1, ConcatAdjacentSubSeq DEF DropFirst
<1>6. s \in Seq(Tokens) BY <1>1, <1>2
<1>7. DropFirst(q, o + n) \in Seq(Tokens)
  <2>1. o + n \in Nat BY <1>1, <1>2
  <2> QED BY <1>1, <2>1, DropFirstFacts
<1> HIDE DEF s
<1>8. (x.rx \o s) \o DropFirst(q, o + n) = x.rx \o (s \o DropFirst(q, o + n))
  BY <1>1, <1>6, <1>7, ConcatTokens, Zenon
<1> QED BY <1>4, <1>5, <1>8 DEF Pending, q, o

(* Freeing a pbuf that was copied loses nothing.                           *)
LEMMA UnlinkPending ==
    ASSUME NEW x, Good(x), PbufCopied(x), NEW y, y.rx = x.rx,
           y.queue = DropFirst(x.queue, Head(x.ends)), y.offset = x.offset - Head(x.ends)
    PROVE  Pending(y) = Pending(x)
<1> DEFINE k == Head(x.ends)
<1>1. k \in Nat BY UnlinkGood
<1>2. k <= x.offset BY DEF PbufCopied
<1> HIDE DEF k
<1>3. DropFirst(DropFirst(x.queue, k), x.offset - k) = DropFirst(x.queue, x.offset)
  BY <1>1, <1>2, PendingParts, DropTwice
<1> QED BY <1>3 DEF Pending, k

(* The parser takes from the front.                                        *)
LEMMA ConsumePending ==
    ASSUME NEW x, Good(x), NEW n \in Nat, n <= Len(x.rx), NEW y, y.rx = DropFirst(x.rx, n),
           y.queue = x.queue, y.offset = x.offset
    PROVE  Pending(y) = DropFirst(Pending(x), n)
<1> DEFINE d == DropFirst(x.queue, x.offset)
<1>1. x.rx \in Seq(Tokens) /\ d \in Seq(Tokens) BY PendingParts
<1>2. Pending(x) = x.rx \o d /\ Pending(y) = DropFirst(x.rx, n) \o d BY DEF Pending
<1> HIDE DEF d
<1>3. DropFirst(x.rx \o d, n) = DropFirst(x.rx, n) \o d BY <1>1, DropOfConcat
<1> QED BY <1>2, <1>3

(* Received data is added at the end, wherever it is kept.                 *)
LEMMA ReceivePending ==
    ASSUME NEW x, Good(x), NEW w \in Seq(Tokens)
    PROVE  Pending(StoreReceived([x EXCEPT !.recvAge = 0], w)) = Pending(x) \o w
<1> DEFINE z == [x EXCEPT !.recvAge = 0]
           y == StoreReceived(z, w)
           d == DropFirst(x.queue, x.offset)
<1>1. /\ x.rx \in Seq(Tokens) /\ x.queue \in Seq(Tokens) /\ x.offset \in Nat
      /\ x.offset <= Len(x.queue) /\ d \in Seq(Tokens)
  BY PendingParts
<1>2. z.rx = x.rx /\ z.queue = x.queue /\ z.offset = x.offset /\ DOMAIN z = DOMAIN x
  BY DEF Good, Context
<1>3. {"rx", "queue", "ends", "offset"} \subseteq DOMAIN z BY <1>2 DEF Good, Context
<1> HIDE DEF z
<1>4. CASE x.queue # << >>
  <2>1. y.rx = x.rx /\ y.queue = x.queue \o w /\ y.offset = x.offset
    BY <1>2, <1>3, <1>4 DEF StoreReceived
  <2>2. DropFirst(x.queue \o w, x.offset) = d \o w BY <1>1, DropOfConcat
  <2> HIDE DEF y, d
  <2>3. x.rx \o (d \o w) = (x.rx \o d) \o w
    BY <1>1, ConcatTokens, Zenon
  <2> QED BY <2>1, <2>2, <2>3 DEF Pending, y, d, z
<1>5. CASE x.queue = << >>
  <2>1. x.offset = 0 BY <1>1, <1>5
  <2>2. d = << >> BY <2>1, <1>1, <1>5, DropNothing
  <2>3. Pending(x) \o w = x.rx \o w BY <1>1, <2>2, ConcatEmptySeq DEF Pending
  <2>4. CASE Len(w) > MaxReqBuf - Len(z.rx)
    <3>1. y.rx = x.rx /\ y.queue = w /\ y.offset = 0
      BY <1>2, <1>3, <1>5, <2>1, <2>4 DEF StoreReceived
    <3> HIDE DEF y
    <3>2. Pending(y) = x.rx \o w BY <3>1, DropNothing DEF Pending
    <3> QED BY <2>3, <3>2 DEF y, z
  <2>5. CASE ~(Len(w) > MaxReqBuf - Len(z.rx))
    <3>1. y.rx = x.rx \o w /\ y.queue = x.queue /\ y.offset = x.offset
      BY <1>2, <1>3, <1>5, <2>5 DEF StoreReceived
    <3> HIDE DEF y
    <3>2. Pending(y) = (x.rx \o w) \o d BY <3>1 DEF Pending
    <3>3. x.rx \o w \in Seq(Tokens) BY <1>1, ConcatProperties
    <3>4. (x.rx \o w) \o d = x.rx \o w BY <2>2, <3>3, ConcatEmptySeq
    <3> QED BY <2>3, <3>2, <3>4 DEF y, z
  <2> QED BY <2>4, <2>5
<1> QED BY <1>4, <1>5

-----------------------------------------------------------------------------
(* The invariant.                                                          *)

Typed == TypeOK /\ \A c \in Ctx : Good(ctx[c])

(* The inductive invariant.                                                *)
Inv == Typed /\ Ownership /\ WindowConserved

LinksQuiet == /\ link' \in [Pcbs -> Link]
              /\ \A p \in Pcbs : link'[p].unread = link[p].unread
ContextsQuiet == /\ ctx' \in [Ctx -> Context]
                 /\ \A c \in Ctx : Keeps(ctx'[c], ctx[c])
FrameTyped == frame' \in Frame \cup {NoFrame}

Quiet == LinksQuiet /\ ContextsQuiet /\ FrameTyped /\ UNCHANGED Pool

(* A quiet step, one that moves no context between connections and nothing *)
(* between a queue and a window, preserves the invariant.                  *)
LEMMA QuietInv ==
    ASSUME Inv, Quiet
    PROVE  Inv'
<1>1. TypeOK'
  BY DEF Inv, Typed, TypeOK, Quiet, LinksQuiet, ContextsQuiet, FrameTyped, Pool
<1>2. \A c \in Ctx : Good(ctx'[c])
  BY DEF Quiet, ContextsQuiet, Keeps
<1>3. Ownership'
  BY DEF Inv, Ownership, Quiet, Pool
<1>4. WindowConserved'
  <2>1. SUFFICES ASSUME restarts = 0, NEW c \in Ctx, pcb[c] # NoPcb
                 PROVE  link'[pcb[c]].unread = Len(ctx'[c].queue)
    BY DEF WindowConserved, Quiet, Pool
  <2>2. pcb[c] \in Pcbs BY <2>1 DEF Inv, Typed, TypeOK
  <2>3. link[pcb[c]].unread = Len(ctx[c].queue) BY <2>1 DEF Inv, WindowConserved
  <2>4. link'[pcb[c]].unread = link[pcb[c]].unread BY <2>2 DEF Quiet, LinksQuiet
  <2>5. ctx'[c].queue = ctx[c].queue BY DEF Quiet, ContextsQuiet, Keeps
  <2> QED BY <2>3, <2>4, <2>5
<1> QED BY <1>1, <1>2, <1>3, <1>4 DEF Inv, Typed

(* Replacing one context by a well-formed one with the same queue.         *)
LEMMA PutContext ==
    ASSUME Typed, NEW c \in Ctx, NEW y, Keeps(y, ctx[c]), ctx' = [ctx EXCEPT ![c] = y]
    PROVE  ContextsQuiet
<1>1. ctx \in [Ctx -> Context] BY DEF Typed, TypeOK
<1>2. y \in Context BY DEF Keeps, Good
<1>3. ctx' \in [Ctx -> Context] BY <1>1, <1>2
<1>4. ASSUME NEW d \in Ctx PROVE Keeps(ctx'[d], ctx[d])
  <2>1. CASE d = c BY <2>1, <1>1
  <2>2. CASE d # c
    <3>1. ctx'[d] = ctx[d] BY <2>2, <1>1
    <3> QED BY <3>1 DEF Keeps, Typed
  <2> QED BY <2>1, <2>2
<1> QED BY <1>3, <1>4 DEF ContextsQuiet

(* Leaving every context alone is quiet.                                   *)
LEMMA SameContexts ==
    ASSUME Typed, ctx' = ctx
    PROVE  ContextsQuiet
BY DEF Typed, TypeOK, ContextsQuiet, Keeps

(* Replacing one connection by one with the same unread count.             *)
LEMMA PutLink ==
    ASSUME Typed, NEW p \in Pcbs, NEW l \in Link, l.unread = link[p].unread,
           link' = [link EXCEPT ![p] = l]
    PROVE  LinksQuiet
<1>1. link \in [Pcbs -> Link] BY DEF Typed, TypeOK
<1>2. \A q \in Pcbs : link'[q] = IF q = p THEN l ELSE link[q] BY <1>1
<1>3. link' \in [Pcbs -> Link] BY <1>1
<1> QED BY <1>2, <1>3 DEF LinksQuiet

(* Leaving every connection alone is quiet.                                *)
LEMMA SameLinks ==
    ASSUME Typed, link' = link
    PROVE  LinksQuiet
BY DEF Typed, TypeOK, LinksQuiet

(* Consuming bytes from the request buffer (the memmove after a line or a  *)
(* body) touches no queue and no connection.                               *)
LEMMA ConsumedQuiet ==
    ASSUME Typed, NEW c \in Ctx, NEW n \in Nat, link' = Consumed(c, n)
    PROVE  LinksQuiet
<1>1. CASE pcb[c] = NoPcb BY <1>1, SameLinks DEF Consumed
<1>2. CASE pcb[c] # NoPcb
  <2> DEFINE p == pcb[c]
             s == DropFirst(link[p].stream, n)
             l == [link[p] EXCEPT !.stream = s]
  <2>1. p \in Pcbs BY <1>2 DEF Typed, TypeOK
  <2>2. link[p] \in Link BY <2>1 DEF Typed, TypeOK
  <2>3. s \in Seq(Tokens)
    <3>1. link[p].stream \in Seq(Tokens) BY <2>2 DEF Link
    <3> QED BY <3>1, DropFirstFacts
  <2>4. link' = [link EXCEPT ![p] = l] BY <1>2, <2>1, <2>2 DEF Consumed, Link, Typed, TypeOK
  <2> HIDE DEF p, s
  <2>5. l \in Link BY <2>2, <2>3 DEF Link
  <2>6. l.unread = link[p].unread BY <2>2 DEF Link
  <2> HIDE DEF l
  <2> QED BY <2>1, <2>4, <2>5, <2>6, PutLink
<1> QED BY <1>1, <1>2

(* An activation record names a context and a caller.                      *)
LEMMA FrameFacts ==
    ASSUME Typed, frame # NoFrame
    PROVE  frame \in Frame /\ frame.c \in Ctx /\ frame.caller \in Callers /\ Good(ctx[frame.c])
<1>1. frame \in Frame BY DEF Typed, TypeOK
<1> QED BY <1>1 DEF Frame, Typed

(* Entering HttpRequestProc makes an activation record.                    *)
LEMMA EnterTyped ==
    ASSUME NEW c \in Ctx, NEW caller \in Callers, Enter(c, caller)
    PROVE  FrameTyped
BY DEF Enter, FrameTyped, Frame, Labels

(* Going on to another label keeps the activation record well formed.      *)
LEMMA GotoTyped ==
    ASSUME Typed, frame # NoFrame, NEW label \in Labels, Goto(label)
    PROVE  FrameTyped
<1>1. frame \in Frame BY FrameFacts
<1> QED BY <1>1 DEF Goto, FrameTyped, Frame

(* At a label, a callback is running on a context of the pool.             *)
LEMMA LabelFacts ==
    {"loop", "unlink", "lines", "headers", "body", "done", "response", "content", "end", "cancel",
     "close"} \subseteq Labels
BY DEF Labels

(* One write of response data; the pool is not looked at.                  *)
LEMMA SendQuiet ==
    ASSUME Typed, frame # NoFrame, NEW x, Keeps(x, ctx[frame.c]), NEW ok,
           NEW label \in Labels, sendBuffered(frame.c, x, ok, label)
    PROVE  LinksQuiet /\ ContextsQuiet /\ FrameTyped
<1> DEFINE c == frame.c
           n == ToWrite(c, x)
<1>0. frame \in Frame /\ c \in Ctx /\ Good(ctx[c]) BY FrameFacts
<1>1. Good(x) BY DEF Keeps
<1>2. x \in Context BY <1>1 DEF Good
<1>3. x.bytesLeft \in Nat /\ x.due \in Int /\ x.sendAge \in Ages BY <1>2 DEF Context
<1>4. pcb[c] # NoPcb => pcb[c] \in Pcbs /\ link[pcb[c]] \in Link
  BY <1>0 DEF Typed, TypeOK
<1>5. pcb[c] # NoPcb => link[pcb[c]].unacked \in 0 .. SndBuf
  BY <1>4 DEF Link
<1>6. Sndbuf(c) \in Nat /\ (pcb[c] # NoPcb => link[pcb[c]].unacked + Sndbuf(c) = SndBuf)
  BY <1>5, SizesAssumption DEF Sndbuf
<1>7. n \in Nat /\ n <= Sndbuf(c) /\ n <= x.bytesLeft
  BY <1>3, <1>6 DEF ToWrite, Least
<1>8. n > 0 => pcb[c] # NoPcb
  BY <1>7, <1>6 DEF Sndbuf
<1> HIDE DEF n, c
<1>9. CASE /\ ok
           /\ ctx'  = [ctx EXCEPT ![c] = Written(c, x)]
           /\ link' = InFlight(c, x)
           /\ Goto(label)
  <2>1. FrameTyped BY <1>9, GotoTyped
  <2>2. Keeps(Written(c, x), ctx[c])
    <3> DEFINE b == x.bytesLeft - n
               d == x.due + n
               a == IF n > 0 THEN 0 ELSE x.sendAge
               y == [x EXCEPT !.bytesLeft = b, !.due = d, !.sendAge = a]
    <3>1. b \in Nat /\ d \in Int BY <1>3, <1>7
    <3>2. a \in Ages BY <1>3, Constants
    <3>3. y = Written(c, x) BY <1>2 DEF Written, Context, n
    <3> HIDE DEF b, d, a
    <3>4. y \in Context BY <1>2, <3>1, <3>2 DEF Context
    <3>5. y.rx = x.rx /\ y.queue = x.queue /\ y.ends = x.ends /\ y.offset = x.offset
      BY <1>2 DEF Context
    <3> HIDE DEF y
    <3>6. Good(y) BY <1>1, <3>4, <3>5, SameBuffers
    <3> QED BY <3>3, <3>5, <3>6 DEF Keeps, c
  <2>3. ContextsQuiet BY <1>0, <1>9, <2>2, PutContext
  <2>4. LinksQuiet
    <3>1. CASE n = 0 BY <1>9, <3>1, SameLinks DEF InFlight, n
    <3>2. CASE n # 0
      <4> DEFINE p == pcb[c]
                 u == link[p].unacked + n
                 l == [link[p] EXCEPT !.unacked = u]
      <4>1. p \in Pcbs /\ link[p] \in Link BY <3>2, <1>7, <1>8, <1>4
      <4>2. u \in 0 .. SndBuf BY <3>2, <1>5, <1>6, <1>7, <1>8, SizesAssumption
      <4>3. link' = [link EXCEPT ![p] = l] BY <1>9, <3>2, <4>1 DEF InFlight, n, Link, Typed, TypeOK
      <4> HIDE DEF p, u
      <4>4. l \in Link BY <4>1, <4>2 DEF Link
      <4>5. l.unread = link[p].unread BY <4>1 DEF Link
      <4> HIDE DEF l
      <4> QED BY <4>1, <4>3, <4>4, <4>5, PutLink
    <3> QED BY <3>1, <3>2
  <2> QED BY <2>1, <2>3, <2>4
<1>10. CASE /\ ctx'   = [ctx EXCEPT ![c] = [x EXCEPT !.state = REQUEST_END, !.result = -500]]
            /\ frame' = [frame EXCEPT !.pc = "end", !.failed = TRUE]
            /\ UNCHANGED link
  <2>1. FrameTyped
    <3>1. "end" \in Labels /\ TRUE \in BOOLEAN BY LabelFacts
    <3>2. frame' \in Frame BY <1>0, <1>10, <3>1 DEF Frame
    <3> QED BY <3>2 DEF FrameTyped
  <2>2. Keeps([x EXCEPT !.state = REQUEST_END, !.result = -500], x)
    <3>1. PICK s \in States, r \in Results : s = REQUEST_END /\ r = -500 BY Constants
    <3>2. Keeps([x EXCEPT !.state = s, !.result = r], x) BY <1>1, StateResultKeeps
    <3> QED BY <3>1, <3>2
  <2>3. Keeps([x EXCEPT !.state = REQUEST_END, !.result = -500], ctx[c])
    BY <2>2 DEF Keeps, c
  <2>4. ContextsQuiet BY <1>0, <1>10, <2>3, PutContext
  <2> QED BY <2>1, <2>4, <1>10, SameLinks
<1> QED BY <1>9, <1>10 DEF sendBuffered, c, n

(* The head of HttpRequestProc's loop, which copies queued bytes, is       *)
(* quiet.                                                                  *)
LEMMA LoopHeadQuiet ==
    ASSUME Typed, LoopHead
    PROVE  Quiet
<1>0. frame # NoFrame /\ frame.c \in Ctx /\ Good(ctx[frame.c]) BY FrameFacts DEF LoopHead, At
<1>1. LinksQuiet BY SameLinks DEF LoopHead
<1>2. FrameTyped BY <1>0, GotoTyped, LabelFacts DEF LoopHead
<1>3. ContextsQuiet
  <2>1. CASE ctx' = ctx BY <2>1, SameContexts
  <2>2. CASE ctx' = [ctx EXCEPT ![frame.c] = Dequeue(@)]
    <3>1. Keeps(Dequeue(ctx[frame.c]), ctx[frame.c]) BY <1>0, DequeueGood DEF Keeps
    <3>2. ctx' = [ctx EXCEPT ![frame.c] = Dequeue(ctx[frame.c])] BY <2>2
    <3> QED BY <3>1, <3>2, <1>0, PutContext
  <2> QED BY <2>1, <2>2 DEF LoopHead
<1> QED BY <1>1, <1>2, <1>3 DEF Quiet, LoopHead

(* Leaving IDLE for a new request is quiet.                                *)
LEMMA StartRequestQuiet ==
    ASSUME Typed, StartRequest
    PROVE  Quiet
<1>0. frame \in Frame /\ frame.c \in Ctx /\ Good(ctx[frame.c]) /\ ctx \in [Ctx -> Context]
  BY FrameFacts DEF StartRequest, At, Typed, TypeOK
<1>1. LinksQuiet BY SameLinks DEF StartRequest
<1>2. FrameTyped BY <1>0 DEF StartRequest, FrameTyped, Frame, Labels
<1>3. ContextsQuiet
  <2>1. CASE ctx' = ctx BY <2>1, SameContexts
  <2>2. CASE ctx' = [ctx EXCEPT ![frame.c].state = HEADER_RECEIVING,
                                ![frame.c].recvAge = 0, ![frame.c].sendAge = NoTime]
    <3>1. Keeps([ctx[frame.c] EXCEPT !.state = HEADER_RECEIVING, !.recvAge = 0, !.sendAge = NoTime],
                ctx[frame.c])
      BY <1>0, StartKeeps
    <3>2. ctx' = [ctx EXCEPT ![frame.c] =
                    [ctx[frame.c] EXCEPT !.state = HEADER_RECEIVING, !.recvAge = 0,
                            !.sendAge = NoTime]]
      BY <2>2, <1>0
    <3> QED BY <3>1, <3>2, <1>0, PutContext
  <2> QED BY <2>1, <2>2 DEF StartRequest
<1> QED BY <1>1, <1>2, <1>3 DEF Quiet, StartRequest

(* Parsing one header line is quiet.                                       *)
LEMMA ParseLineQuiet ==
    ASSUME Typed, ParseLine
    PROVE  Quiet
<1> DEFINE x == ctx[frame.c]
           i == FirstEol(x.rx)
           t == x.rx[1]
<1>0. frame \in Frame /\ frame.c \in Ctx /\ Good(x) /\ frame # NoFrame /\ ctx \in [Ctx -> Context]
  BY FrameFacts DEF ParseLine, At, Typed, TypeOK
<1>1. CASE /\ ctx' = [ctx EXCEPT ![frame.c].result = -500]
           /\ UNCHANGED link
           /\ Goto("end")
  <2>1. Keeps([x EXCEPT !.result = -500], x) BY <1>0, ResultKeeps, Constants
  <2>2. ctx' = [ctx EXCEPT ![frame.c] = [x EXCEPT !.result = -500]] BY <1>1, <1>0
  <2>3. ContextsQuiet BY <1>0, <2>1, <2>2, PutContext
  <2>4. FrameTyped BY <1>0, <1>1, GotoTyped, LabelFacts
  <2> QED BY <2>3, <2>4, <1>1, SameLinks DEF Quiet, ParseLine
<1>2. CASE /\ ~ (x.request = "none" /\ t \notin DOMAIN Requests)
           /\ ctx'   = [ctx EXCEPT ![frame.c] = [HeaderLine(x, t) EXCEPT !.rx = DropFirst(@, i)]]
           /\ link'  = Consumed(frame.c, i)
           /\ frame' = [frame EXCEPT !.parsed = TRUE]
           /\ HasLine(x.rx)
  <2>1. x.rx \in Seq(Tokens) BY <1>0, GoodFacts
  <2>2. i \in 1 .. Len(x.rx) BY <1>2, <2>1, FirstLine
  <2>3. i \in Nat /\ t \in Tokens
    <3>1. 1 \in 1 .. Len(x.rx) BY <2>1, <2>2
    <3> QED BY <2>1, <2>2, <3>1
  <2> DEFINE h == HeaderLine(x, t)
  <2>4. Keeps(h, x) BY <1>0, <1>2, <2>3, HeaderLineKeeps
  <2>5. Keeps([h EXCEPT !.rx = DropFirst(@, i)], h) BY <2>3, <2>4, DropKeeps DEF Keeps
  <2>6. Keeps([h EXCEPT !.rx = DropFirst(@, i)], x) BY <2>4, <2>5 DEF Keeps
  <2>7. ContextsQuiet BY <1>0, <1>2, <2>6, PutContext
  <2>8. FrameTyped BY <1>0, <1>2 DEF FrameTyped, Frame
  <2>9. LinksQuiet BY <1>0, <1>2, <2>3, ConsumedQuiet
  <2> QED BY <2>7, <2>8, <2>9 DEF Quiet, ParseLine
<1> QED BY <1>1, <1>2 DEF ParseLine

(* The empty line after the headers is quiet.                              *)
LEMMA ParseEmptyLineQuiet ==
    ASSUME Typed, ParseEmptyLine
    PROVE  Quiet
<1> DEFINE x == ctx[frame.c]
           y == [x EXCEPT !.state = HEADER_DONE, !.rx = DropFirst(@, 1),
                          !.sending = FALSE, !.due = 0, !.stage = 0, !.bytesLeft = 0,
                          !.result = IF x.request = "none" THEN -500 ELSE @]
<1>0. frame # NoFrame /\ frame.c \in Ctx /\ Good(x)
  BY FrameFacts DEF ParseEmptyLine, At
<1>1. Keeps(y, x) BY <1>0, EmptyLineKeeps
<1>2. ctx' = [ctx EXCEPT ![frame.c] = y] BY DEF ParseEmptyLine
<1> HIDE DEF y
<1>3. ContextsQuiet BY <1>0, <1>1, <1>2, PutContext
<1>4. LinksQuiet BY <1>0, ConsumedQuiet DEF ParseEmptyLine
<1>5. FrameTyped
  <2>1. (IF x.request = "none" THEN "end" ELSE "headers") \in Labels BY LabelFacts
  <2> QED BY <2>1, <1>0, GotoTyped DEF ParseEmptyLine
<1> QED BY <1>3, <1>4, <1>5 DEF Quiet, ParseEmptyLine

(* Running out of complete lines is quiet.                                 *)
LEMMA LinesExhaustedQuiet ==
    ASSUME Typed, LinesExhausted
    PROVE  Quiet
<1> DEFINE x == ctx[frame.c]
           n == IF ~frame.parsed /\ Len(x.rx) >= MaxReqBuf THEN Len(x.rx) \div 2 ELSE 0
           y == [x EXCEPT !.rx = DropFirst(@, n)]
<1>0. frame # NoFrame /\ frame.c \in Ctx /\ Good(x)
  BY FrameFacts DEF LinesExhausted, At
<1>1. n \in Nat
  <2>1. Len(x.rx) \in Nat BY <1>0, GoodFacts
  <2>2. \A m \in Nat : m \div 2 \in Nat OBVIOUS
  <2>3. Len(x.rx) \div 2 \in Nat BY <2>1, <2>2
  <2> QED BY <2>3
<1>2. link' = Consumed(frame.c, n) BY DEF LinesExhausted
<1>3. \/ ctx' = [ctx EXCEPT ![frame.c] = [y EXCEPT !.result = -500]] /\ Goto("end")
      \/ /\ ctx' = [ctx EXCEPT ![frame.c] = y]
         /\ Goto(IF x.queue # << >> THEN "loop" ELSE "end")
  BY DEF LinesExhausted
<1> HIDE DEF n
<1>4. Keeps(y, x) BY <1>0, <1>1, DropKeeps
<1> HIDE DEF y
<1>5. Keeps([y EXCEPT !.result = -500], y) BY <1>4, ResultKeeps, Constants DEF Keeps
<1>6. Keeps([y EXCEPT !.result = -500], x) BY <1>4, <1>5 DEF Keeps
<1>7. ContextsQuiet BY <1>0, <1>3, <1>4, <1>6, PutContext
<1>8. LinksQuiet BY <1>0, <1>1, <1>2, ConsumedQuiet
<1>9. FrameTyped
  <2>1. (IF x.queue # << >> THEN "loop" ELSE "end") \in Labels BY LabelFacts
  <2> QED BY <2>1, <1>0, <1>3, GotoTyped, LabelFacts
<1> QED BY <1>7, <1>8, <1>9 DEF Quiet, LinesExhausted

(* The handler's verdict on the headers is quiet.                          *)
LEMMA AfterHeadersQuiet ==
    ASSUME Typed, NEW session \in BOOLEAN, NEW started \in BOOLEAN, AfterHeaders(session, started)
    PROVE  Quiet
<1> DEFINE x == ctx[frame.c]
           result == HeadersResult(x, session, started)
           body == x.contentLength > 0
           s == IF result < 0 THEN SENDING_HEADER ELSE IF body THEN BODY_RECEIVING ELSE BODY_DONE
           a == IF body THEN x.sendAge ELSE 0
           y == [x EXCEPT !.result = result, !.state = s, !.sendAge = a]
<1>0. frame # NoFrame /\ frame.c \in Ctx /\ Good(x) /\ x \in Context
  BY FrameFacts DEF AfterHeaders, At, Good
<1>1. result \in Results BY DEF HeadersResult, Results, CODE_REDIRECT
<1>2. s \in States BY Constants
<1>3. a \in Ages
  <2>1. x.sendAge \in Ages BY <1>0 DEF Context
  <2> QED BY <2>1, Constants
<1>4. ctx' = [ctx EXCEPT ![frame.c] = y]
  <2>1. [x EXCEPT !.result = result, !.state = s, !.sendAge = IF body THEN @ ELSE 0] = y
    BY <1>0 DEF Context
  <2> QED BY <2>1 DEF AfterHeaders
<1>5. Goto(IF result < 0 THEN "response" ELSE IF body THEN "body" ELSE "done")
  BY DEF AfterHeaders
<1> HIDE DEF result, s, a
<1>6. Keeps(y, x) BY <1>0, <1>1, <1>2, <1>3, HeadersKeeps
<1> HIDE DEF y
<1>7. ContextsQuiet BY <1>0, <1>4, <1>6, PutContext
<1>8. FrameTyped
  <2>1. (IF result < 0 THEN "response" ELSE IF body THEN "body" ELSE "done") \in Labels
    BY LabelFacts
  <2> QED BY <2>1, <1>0, <1>5, GotoTyped
<1> QED BY <1>7, <1>8, SameLinks DEF Quiet, AfterHeaders

(* Handing over a part of the body is quiet.                               *)
LEMMA ReceiveBodyQuiet ==
    ASSUME Typed, NEW n \in 0 .. MaxReqBuf, ReceiveBody(n)
    PROVE  Quiet
<1> DEFINE x == ctx[frame.c]
           a == IF x.handler = "auth" THEN x.recvAge ELSE 0
           y == [x EXCEPT !.contentReceived = @ + n, !.rx = DropFirst(@, n), !.recvAge = a]
           z == [y EXCEPT !.state = BODY_DONE, !.sendAge = 0]
           complete == y.contentReceived >= x.contentLength
<1>0. frame # NoFrame /\ frame.c \in Ctx /\ Good(x) /\ x \in Context /\ n \in Nat
  BY FrameFacts, SizesAssumption DEF ReceiveBody, At, Good
<1>1. a \in Ages
  <2>1. x.recvAge \in Ages BY <1>0 DEF Context
  <2> QED BY <2>1, Constants
<1>2. y = [x EXCEPT !.contentReceived = @ + n, !.rx = DropFirst(@, n),
                    !.recvAge = IF x.handler = "auth" THEN @ ELSE 0]
  BY <1>0 DEF Context
<1>3. \/ UNCHANGED ctx /\ Goto("end")
      \/ /\ ctx' = [ctx EXCEPT ![frame.c] = IF complete THEN z ELSE y]
         /\ Goto(IF complete THEN "done" ELSE IF x.queue # << >> THEN "loop" ELSE "end")
  BY <1>2 DEF ReceiveBody
<1> HIDE DEF a
<1>4. Keeps(y, x) BY <1>0, <1>1, BodyKeeps
<1> HIDE DEF y
<1>5. Keeps(z, y) BY <1>4, DoneKeeps, Constants DEF Keeps
<1>6. Keeps(z, x) BY <1>4, <1>5 DEF Keeps
<1> HIDE DEF z
<1>7. ContextsQuiet
  <2>1. Keeps(IF complete THEN z ELSE y, x) BY <1>4, <1>6
  <2> HIDE DEF complete
  <2> QED BY <1>0, <1>3, <2>1, PutContext, SameContexts
<1>8. FrameTyped
  <2>1. (IF complete THEN "done" ELSE IF x.queue # << >> THEN "loop" ELSE "end") \in Labels
    BY LabelFacts
  <2> HIDE DEF complete
  <2> QED BY <2>1, <1>0, <1>3, GotoTyped, LabelFacts
<1>9. LinksQuiet BY <1>0, ConsumedQuiet DEF ReceiveBody
<1> QED BY <1>7, <1>8, <1>9 DEF Quiet, ReceiveBody

(* The handler's verdict on the whole request is quiet.                    *)
LEMMA RequestReceivedQuiet ==
    ASSUME Typed, NEW result \in Results, RequestReceived(result)
    PROVE  Quiet
<1> DEFINE x == ctx[frame.c]
           y == [x EXCEPT !.result = result]
<1>0. frame # NoFrame /\ frame.c \in Ctx /\ Good(x)
  BY FrameFacts DEF RequestReceived, At
<1>1. Keeps(y, x) BY <1>0, ResultKeeps
<1>2. ctx' = [ctx EXCEPT ![frame.c] = y] BY DEF RequestReceived
<1>3. ContextsQuiet BY <1>0, <1>1, <1>2, PutContext
<1>4. FrameTyped BY <1>0, GotoTyped, LabelFacts DEF RequestReceived
<1> QED BY <1>3, <1>4, SameLinks DEF Quiet, RequestReceived

(* Resending what tcp_write could not take is quiet.                       *)
LEMMA SendRemainingQuiet ==
    ASSUME Typed, NEW ok \in BOOLEAN, SendRemaining(ok)
    PROVE  Quiet
<1>0. frame # NoFrame /\ frame.c \in Ctx /\ Good(ctx[frame.c])
  BY FrameFacts DEF SendRemaining, At
<1>1. Keeps(ctx[frame.c], ctx[frame.c]) BY <1>0 DEF Keeps
<1>2. sendBuffered(frame.c, ctx[frame.c], ok, "end") BY DEF SendRemaining
<1> QED BY <1>0, <1>1, <1>2, SendQuiet, LabelFacts DEF Quiet, SendRemaining

(* Sending the response header is quiet.                                   *)
LEMMA SendHeaderQuiet ==
    ASSUME Typed, NEW ok \in BOOLEAN, SendHeader(ok)
    PROVE  Quiet
<1> DEFINE x == ctx[frame.c]
           s == IF x.result = CODE_REDIRECT THEN SENDING_BODY ELSE SENDING_HEADER
           y == [x EXCEPT !.stage = 0, !.sendAge = 0, !.bytesLeft = HeaderLen,
                          !.sending = ok, !.state = s]
<1>0. frame # NoFrame /\ frame.c \in Ctx /\ Good(x)
  BY FrameFacts DEF SendHeader, At
<1>1. s \in States BY Constants
<1>2. sendBuffered(frame.c, y, ok, "content") BY DEF SendHeader
<1> HIDE DEF s
<1>3. Keeps(y, x) BY <1>0, <1>1, ResponseKeeps
<1> HIDE DEF y
<1> QED BY <1>0, <1>2, <1>3, SendQuiet, LabelFacts DEF Quiet, SendHeader

(* Passing from header to body is quiet.                                   *)
LEMMA HeaderSentQuiet ==
    ASSUME Typed, HeaderSent
    PROVE  Quiet
<1> DEFINE x == ctx[frame.c]
           s == IF x.result < 0 THEN REQUEST_END ELSE SENDING_BODY
<1>0. frame # NoFrame /\ frame.c \in Ctx /\ Good(x) /\ ctx \in [Ctx -> Context]
  BY FrameFacts DEF HeaderSent, At, Typed, TypeOK
<1>1. s \in States BY Constants
<1>2. ctx' = ctx \/ ctx' = [ctx EXCEPT ![frame.c] = [x EXCEPT !.state = s]]
  BY <1>0 DEF HeaderSent
<1> HIDE DEF s
<1>3. Keeps([x EXCEPT !.state = s], x) BY <1>0, <1>1, StateKeeps
<1>4. ContextsQuiet BY <1>0, <1>2, <1>3, PutContext, SameContexts
<1>5. FrameTyped BY <1>0, GotoTyped, LabelFacts DEF HeaderSent
<1> QED BY <1>4, <1>5, SameLinks DEF Quiet, HeaderSent

(* A response without body is quiet.                                       *)
LEMMA NoContentQuiet ==
    ASSUME Typed, NoContent
    PROVE  Quiet
<1> DEFINE x == ctx[frame.c]
<1>0. frame # NoFrame /\ frame.c \in Ctx /\ Good(x) /\ ctx \in [Ctx -> Context]
  BY FrameFacts DEF NoContent, At, Typed, TypeOK
<1>2. ctx' = ctx \/ ctx' = [ctx EXCEPT ![frame.c] = [x EXCEPT !.state = REQUEST_END]]
  BY <1>0 DEF NoContent
<1>3. Keeps([x EXCEPT !.state = REQUEST_END], x) BY <1>0, StateKeeps, Constants
<1>4. ContextsQuiet BY <1>0, <1>2, <1>3, PutContext, SameContexts
<1>5. FrameTyped BY <1>0, GotoTyped, LabelFacts DEF NoContent
<1> QED BY <1>4, <1>5, SameLinks DEF Quiet, NoContent

(* Loading and sending body content is quiet.                              *)
LEMMA LoadContentQuiet ==
    ASSUME Typed, NEW out \in [n : -1 .. 1, stage : Stages, result : Results],
           NEW ok \in BOOLEAN, LoadContent(out, ok)
    PROVE  Quiet
<1> DEFINE x == ctx[frame.c]
           y == [x EXCEPT !.stage = out.stage, !.result = out.result]
           z == [y EXCEPT !.bytesLeft = @ + out.n]
           e == [y EXCEPT !.state = REQUEST_END]
<1>0. frame # NoFrame /\ frame.c \in Ctx /\ Good(x)
  BY FrameFacts DEF LoadContent, At
<1>1. IF out.n > 0 THEN sendBuffered(frame.c, z, ok, "end")
      ELSE /\ ctx' = [ctx EXCEPT ![frame.c] = IF out.n < 0 THEN e ELSE y]
           /\ Goto("end")
           /\ UNCHANGED link
  BY DEF LoadContent
<1>2. Keeps(y, x) BY <1>0, StageKeeps
<1> HIDE DEF y
<1>3. out.n > 0 => Keeps(z, y) BY <1>2, BytesKeeps DEF Keeps
<1>4. out.n > 0 => Keeps(z, x) BY <1>2, <1>3 DEF Keeps
<1>5. Keeps(e, y) BY <1>2, StateKeeps, Constants DEF Keeps
<1>6. Keeps(e, x) BY <1>2, <1>5 DEF Keeps
<1> HIDE DEF z, e
<1>7. LinksQuiet /\ ContextsQuiet /\ FrameTyped
  <2>1. CASE out.n > 0 BY <2>1, <1>0, <1>1, <1>4, SendQuiet, LabelFacts
  <2>2. CASE ~ (out.n > 0)
    <3>1. Keeps(IF out.n < 0 THEN e ELSE y, x) BY <1>2, <1>6
    <3>2. ContextsQuiet BY <2>2, <1>0, <1>1, <3>1, PutContext
    <3>3. FrameTyped BY <2>2, <1>0, <1>1, GotoTyped, LabelFacts
    <3> QED BY <2>2, <1>1, <3>2, <3>3, SameLinks
  <2> QED BY <2>1, <2>2
<1> QED BY <1>7 DEF Quiet, LoadContent

(* Resetting a kept-alive context is quiet.                                *)
LEMMA KeepAfterRequestQuiet ==
    ASSUME Typed, KeepAfterRequest
    PROVE  Quiet
<1> DEFINE x == ctx[frame.c]
<1>0. frame # NoFrame /\ frame.c \in Ctx /\ Good(x)
  BY FrameFacts DEF KeepAfterRequest, At
<1>1. Keeps(ResetHttpContext(x), x) BY <1>0, ResetGood DEF Keeps
<1>2. ctx' = [ctx EXCEPT ![frame.c] = ResetHttpContext(x)] BY DEF KeepAfterRequest
<1>3. ContextsQuiet BY <1>0, <1>1, <1>2, PutContext
<1>4. FrameTyped BY <1>0, GotoTyped, LabelFacts DEF KeepAfterRequest
<1> QED BY <1>3, <1>4, SameLinks DEF Quiet, KeepAfterRequest

(* Leaving HttpRequestProc is quiet.                                       *)
LEMMA LeaveRequestQuiet ==
    ASSUME Typed, LeaveRequest
    PROVE  Quiet
<1> DEFINE x == ctx[frame.c]
<1>0. frame # NoFrame /\ frame.c \in Ctx /\ Good(x) /\ ctx \in [Ctx -> Context]
  BY FrameFacts DEF LeaveRequest, At, Typed, TypeOK
<1>2. ctx' = ctx \/ ctx' = [ctx EXCEPT ![frame.c] = [x EXCEPT !.result = -500]]
  BY <1>0 DEF LeaveRequest
<1>3. Keeps([x EXCEPT !.result = -500], x) BY <1>0, ResultKeeps, Constants
<1>4. ContextsQuiet BY <1>0, <1>2, <1>3, PutContext, SameContexts
<1>5. FrameTyped BY <1>0, GotoTyped, LabelFacts DEF LeaveRequest
<1> QED BY <1>4, <1>5, SameLinks DEF Quiet, LeaveRequest

(* The callbacks' epilogues are quiet.                                     *)
LEMMA CancelQuiet ==
    ASSUME Typed, CancelIfFailed \/ Return
    PROVE  Quiet
<1>1. CASE CancelIfFailed
  <2> DEFINE b == IF frame.caller = "recv" THEN ctx[frame.c].result <= -400
                  ELSE ctx[frame.c].result < 0
  <2>1. frame \in Frame BY <1>1, FrameFacts DEF CancelIfFailed, At
  <2>2. frame' = [frame EXCEPT !.pc = "close", !.cancelled = b] BY <1>1 DEF CancelIfFailed
  <2>3. b \in BOOLEAN
    <3>1. ctx[frame.c].result \in Results
      BY <2>1 DEF Frame, Typed, TypeOK, Context
    <3>2. ctx[frame.c].result \in Int BY <3>1 DEF Results, CODE_OK, CODE_REDIRECT
    <3>3. \A r \in Int : (r <= -400) \in BOOLEAN /\ (r < 0) \in BOOLEAN OBVIOUS
    <3> QED BY <3>2, <3>3
  <2> HIDE DEF b
  <2>4. frame' \in Frame
    <3>1. "close" \in Labels BY LabelFacts
    <3> QED BY <2>1, <2>2, <2>3, <3>1 DEF Frame
  <2>5. FrameTyped BY <2>4 DEF FrameTyped
  <2> QED BY <1>1, <2>5, SameLinks, SameContexts DEF Quiet, CancelIfFailed
<1>2. CASE Return
  <2>1. FrameTyped BY <1>2 DEF Return, FrameTyped
  <2> QED BY <1>2, <2>1, SameLinks, SameContexts DEF Quiet, Return
<1> QED BY <1>1, <1>2

(* Time passing is quiet.                                                  *)
LEMMA TickQuiet ==
    ASSUME Typed, Tick
    PROVE  Quiet
<1>1. ctx' = [c \in Ctx |-> [ctx[c] EXCEPT !.recvAge = Older(@), !.sendAge = Older(@)]]
  BY DEF Tick
<1>2. ASSUME NEW c \in Ctx PROVE Keeps(ctx'[c], ctx[c])
  <2>1. Keeps([ctx[c] EXCEPT !.recvAge = Older(@), !.sendAge = Older(@)], ctx[c])
    BY TickKeeps DEF Typed
  <2> QED BY <1>1, <2>1
<1>3. ctx' \in [Ctx -> Context]
  <2>1. \A c \in Ctx : ctx'[c] \in Context BY <1>2 DEF Keeps, Good
  <2>2. ctx' = [c \in Ctx |-> ctx'[c]] BY <1>1
  <2> QED BY <2>1, <2>2
<1>4. ContextsQuiet BY <1>2, <1>3 DEF ContextsQuiet
<1>5. FrameTyped BY DEF Tick, FrameTyped
<1> QED BY <1>4, <1>5, SameLinks DEF Quiet, Tick

(* A poll that enters HttpRequestProc is quiet.                            *)
LEMMA OnHttpPollQuiet ==
    ASSUME Typed, NEW p \in Pcbs, OnHttpPoll(p)
    PROVE  Quiet
<1>1. arg[p] \in Ctx BY DEF OnHttpPoll, Typed, TypeOK
<1>2. FrameTyped BY <1>1, EnterTyped DEF OnHttpPoll, Callers
<1> QED BY <1>2, SameLinks, SameContexts DEF Quiet, OnHttpPoll

(* A FIN noted for a busy connection is quiet.                             *)
LEMMA OnPeerCloseQuiet ==
    ASSUME Typed, NEW p \in Pcbs, OnPeerClose(p)
    PROVE  Quiet
<1> DEFINE c == arg[p]
<1>1. c \in Ctx /\ Good(ctx[c]) /\ link[p] \in Link /\ ctx \in [Ctx -> Context]
  BY DEF OnPeerClose, Typed, TypeOK
<1>2. FrameTyped BY <1>1, EnterTyped DEF OnPeerClose, Callers
<1>3. Keeps([ctx[c] EXCEPT !.recvAge = 0, !.peerClosing = TRUE], ctx[c])
  BY <1>1, PeerCloseKeeps
<1>4. ctx' = [ctx EXCEPT ![c] = [ctx[c] EXCEPT !.recvAge = 0, !.peerClosing = TRUE]]
  BY <1>1 DEF OnPeerClose
<1>5. ContextsQuiet BY <1>1, <1>3, <1>4, PutContext
<1>6. LinksQuiet
  <2> DEFINE l == [link[p] EXCEPT !.fin = TRUE]
  <2>1. l \in Link /\ l.unread = link[p].unread
    <3>1. PICK b \in BOOLEAN : b = TRUE OBVIOUS
    <3>2. [link[p] EXCEPT !.fin = b] \in Link BY <1>1 DEF Link
    <3> QED BY <1>1, <3>1, <3>2 DEF Link
  <2>2. link' = [link EXCEPT ![p] = l] BY DEF OnPeerClose
  <2> HIDE DEF l
  <2> QED BY <2>1, <2>2, PutLink
<1> QED BY <1>2, <1>5, <1>6 DEF Quiet, OnPeerClose

(* An acknowledgement is quiet.                                            *)
LEMMA OnHttpSentQuiet ==
    ASSUME Typed, NEW p \in Pcbs, NEW n \in 1 .. SndBuf, OnHttpSent(p, n)
    PROVE  Quiet
<1> DEFINE c == arg[p]
<1>1. c \in Ctx /\ Good(ctx[c]) /\ link[p] \in Link /\ ctx \in [Ctx -> Context] /\ n \in Int
  BY SizesAssumption DEF OnHttpSent, Typed, TypeOK
<1>2. FrameTyped BY <1>1, EnterTyped DEF OnHttpSent, Callers
<1>3. Keeps([ctx[c] EXCEPT !.due = @ - n], ctx[c]) BY <1>1, DueKeeps
<1>4. ctx' = [ctx EXCEPT ![c] = [ctx[c] EXCEPT !.due = @ - n]]
  BY <1>1 DEF OnHttpSent
<1>5. ContextsQuiet BY <1>1, <1>3, <1>4, PutContext
<1>6. LinksQuiet
  <2> DEFINE u == link[p].unacked - n
             l == [link[p] EXCEPT !.unacked = u]
  <2>1. u \in 0 .. SndBuf
    <3>1. link[p].unacked \in 0 .. SndBuf BY <1>1 DEF Link
    <3> QED BY <3>1, <1>1, SizesAssumption DEF OnHttpSent
  <2>2. link' = [link EXCEPT ![p] = l] BY <1>1 DEF OnHttpSent
  <2> HIDE DEF u
  <2>3. l \in Link /\ l.unread = link[p].unread BY <1>1, <2>1 DEF Link
  <2> HIDE DEF l
  <2> QED BY <2>2, <2>3, PutLink
<1> QED BY <1>2, <1>5, <1>6 DEF Quiet, OnHttpSent
(* Steps that change the pool.                                             *)

(* A new connection is a well-formed one.                                  *)
LEMMA NewLinkTyped ==
    ASSUME NEW a \in Addresses
    PROVE  NewLink(a) \in Link /\ NewLink(a).unread = 0
<1>1. << >> \in Seq(Tokens) BY EmptyQueue
<1>2. 0 \in 0 .. SndBuf /\ (IF a = NoPcb THEN 0 ELSE MaxDeliveries) \in 0 .. MaxDeliveries
  BY SizesAssumption
<1> QED BY <1>1, <1>2 DEF NewLink, Link

(* CloseHttpContext on a connection and its context: whether altcp_close   *)
(* succeeds or is retried from the poll callback, the pool and the windows *)
(* stay consistent.                                                        *)
LEMMA CloseInv ==
    ASSUME Inv, NEW c \in Ctx, NEW lk \in [Pcbs -> Link], NEW closed \in BOOLEAN,
           \A q \in Pcbs : lk[q].unread = link[q].unread,
           CloseHttpContext(c, lk, closed), FrameTyped
    PROVE  Inv'
<1> DEFINE p == pcb[c]
           x == IF p # NoPcb /\ closed THEN [ctx[c] EXCEPT !.peerClosing = FALSE] ELSE ctx[c]
<1>0. /\ pcb \in [Ctx -> Pcbs \cup {NoPcb}] /\ arg \in [Pcbs -> Ctx \cup {NoCtx}]
      /\ open \in [Pcbs -> BOOLEAN] /\ polling \in [Pcbs -> BOOLEAN]
      /\ ctx \in [Ctx -> Context] /\ Good(ctx[c])
  BY DEF Inv, Typed, TypeOK
<1>1. /\ pcb' = [pcb EXCEPT ![c] = NoPcb]
      /\ ctx' = [ctx EXCEPT ![c] = FreeHttpContext(x)]
      /\ listening' = listening /\ restarts' = restarts
  BY DEF CloseHttpContext
<1>2. p = NoPcb => link' = lk /\ open' = open /\ arg' = arg /\ polling' = polling
  BY DEF CloseHttpContext
<1>3. p # NoPcb => /\ arg'     = [arg EXCEPT ![p] = NoCtx]
                   /\ open'    = [open EXCEPT ![p] = ~closed]
                   /\ polling' = [polling EXCEPT ![p] = ~closed]
                   /\ link'    = [lk EXCEPT ![p] = Unlinked]
  BY DEF CloseHttpContext
<1>4. Good(x)
  <2>1. PICK b \in BOOLEAN : b = FALSE OBVIOUS
  <2> DEFINE y == [ctx[c] EXCEPT !.peerClosing = b]
  <2>0. ctx[c] \in Context BY <1>0
  <2>2. y \in Context BY <2>0 DEF Context
  <2>3. y.rx = ctx[c].rx /\ y.queue = ctx[c].queue
       /\ y.ends = ctx[c].ends /\ y.offset = ctx[c].offset
    BY <2>0 DEF Context
  <2>4. [ctx[c] EXCEPT !.peerClosing = FALSE] = y BY <2>1
  <2> HIDE DEF y
  <2>5. Good(y) BY <1>0, <2>2, <2>3, SameBuffers
  <2>6. x = y \/ x = ctx[c] BY <2>4
  <2> QED BY <1>0, <2>5, <2>6
<1> HIDE DEF x
<1>5. Good(FreeHttpContext(x)) BY <1>4, FreeGood
<1> DEFINE z == FreeHttpContext(x)
<1> HIDE DEF z
<1>6. ctx' = [ctx EXCEPT ![c] = z] /\ Good(z) /\ z \in Context
  BY <1>1, <1>5 DEF z, Good
<1>7. ctx' \in [Ctx -> Context] /\ \A d \in Ctx : Good(ctx'[d])
  BY <1>0, <1>6 DEF Inv, Typed
<1>8. Unlinked \in Link BY NewLinkTyped DEF Unlinked, Addresses
<1>9. p # NoPcb => p \in Pcbs BY <1>0
<1>10. TypeOK'
  <2>1. listening' \in BOOLEAN /\ restarts' \in 0 .. MaxRestarts BY <1>1 DEF Inv, Typed, TypeOK
  <2>2. pcb' \in [Ctx -> Pcbs \cup {NoPcb}] BY <1>0, <1>1
  <2>3. CASE p = NoPcb BY <2>1, <2>2, <2>3, <1>0, <1>2, <1>7 DEF TypeOK, FrameTyped
  <2>4. CASE p # NoPcb
    <3>1. arg' \in [Pcbs -> Ctx \cup {NoCtx}] /\ link' \in [Pcbs -> Link]
      BY <2>4, <1>0, <1>3, <1>8
    <3>2. open' \in [Pcbs -> BOOLEAN] /\ polling' \in [Pcbs -> BOOLEAN]
      BY <2>4, <1>0, <1>3
    <3> QED BY <2>1, <2>2, <3>1, <3>2, <1>7 DEF TypeOK, FrameTyped
  <2> QED BY <2>3, <2>4
<1>11. ASSUME restarts' = 0
       PROVE  /\ \A q \in Pcbs : arg[q] # NoCtx => open[q] /\ pcb[arg[q]] = q
              /\ \A d \in Ctx : pcb[d] # NoPcb => arg[pcb[d]] = d
              /\ \A q \in Pcbs : open[q] => polling[q]
              /\ \A d \in Ctx : pcb[d] # NoPcb => link[pcb[d]].unread = Len(ctx[d].queue)
  BY <1>1, <1>11 DEF Inv, Ownership, WindowConserved
<1>12. Ownership'
  <2> SUFFICES ASSUME restarts' = 0
               PROVE  /\ \A q \in Pcbs : arg'[q] # NoCtx => open'[q] /\ pcb'[arg'[q]] = q
                      /\ \A d \in Ctx : pcb'[d] # NoPcb => arg'[pcb'[d]] = d
                      /\ \A q \in Pcbs : open'[q] => polling'[q]
    BY DEF Ownership
  <2>1. CASE p = NoPcb BY <2>1, <1>0, <1>1, <1>2, <1>11
  <2>2. CASE p # NoPcb
    <3>0. p \in Pcbs /\ arg[p] = c BY <2>2, <1>9, <1>11
    <3>1. ASSUME NEW q \in Pcbs, arg'[q] # NoCtx PROVE open'[q] /\ pcb'[arg'[q]] = q
      <4>1. q # p BY <2>2, <3>0, <3>1, <1>0, <1>3
      <4>2. arg'[q] = arg[q] /\ open'[q] = open[q] BY <4>1, <2>2, <1>0, <1>3
      <4>3. arg[q] \in Ctx /\ open[q] /\ pcb[arg[q]] = q BY <4>2, <3>1, <1>0, <1>11
      <4>4. arg[q] # c BY <4>1, <4>3
      <4> QED BY <4>2, <4>3, <4>4, <1>0, <1>1
    <3>2. ASSUME NEW d \in Ctx, pcb'[d] # NoPcb PROVE arg'[pcb'[d]] = d
      <4>1. d # c /\ pcb'[d] = pcb[d] BY <3>2, <1>0, <1>1
      <4>2. pcb[d] \in Pcbs /\ arg[pcb[d]] = d BY <4>1, <3>2, <1>0, <1>11
      <4>3. pcb[d] # p BY <4>1, <4>2, <3>0
      <4> QED BY <4>1, <4>2, <4>3, <2>2, <1>0, <1>3
    <3>3. ASSUME NEW q \in Pcbs, open'[q] PROVE polling'[q]
      BY <3>0, <3>3, <2>2, <1>0, <1>3, <1>11
    <3> QED BY <3>1, <3>2, <3>3
  <2> QED BY <2>1, <2>2
<1>13. WindowConserved'
  <2> SUFFICES ASSUME restarts' = 0, NEW d \in Ctx, pcb'[d] # NoPcb
               PROVE  link'[pcb'[d]].unread = Len(ctx'[d].queue)
    BY DEF WindowConserved
  <2>1. d # c /\ pcb'[d] = pcb[d] BY <1>0, <1>1
  <2>2. ctx'[d] = ctx[d] BY <2>1, <1>0, <1>6
  <2>3. pcb[d] \in Pcbs /\ arg[pcb[d]] = d /\ link[pcb[d]].unread = Len(ctx[d].queue)
    BY <2>1, <1>0, <1>11
  <2>4. CASE p = NoPcb BY <2>1, <2>2, <2>3, <2>4, <1>2
  <2>5. CASE p # NoPcb
    <3>1. pcb[d] # p BY <2>1, <2>3, <2>5, <1>11
    <3>2. link'[pcb[d]] = lk[pcb[d]] BY <3>1, <2>3, <2>5, <1>3
    <3> QED BY <3>2, <2>1, <2>2, <2>3
  <2> QED BY <2>4, <2>5
<1> QED BY <1>7, <1>10, <1>12, <1>13 DEF Inv, Typed

(* CloseHttpContext when the connection itself does not change.            *)
LEMMA CloseSameLinkInv ==
    ASSUME Inv, NEW c \in Ctx, NEW closed \in BOOLEAN, CloseHttpContext(c, link, closed), FrameTyped
    PROVE  Inv'
<1>1. link \in [Pcbs -> Link] BY DEF Inv, Typed, TypeOK
<1> QED BY <1>1, CloseInv

(* A FIN on an idle connection closes it at once.                          *)
LEMMA OnPeerCloseIdleInv ==
    ASSUME Inv, NEW p \in Pcbs, NEW closed \in BOOLEAN, OnPeerCloseIdle(p, closed)
    PROVE  Inv'
<1>1. link \in [Pcbs -> Link] /\ arg[p] \in Ctx /\ link[p] \in Link
  BY DEF OnPeerCloseIdle, Inv, Typed, TypeOK
<1> DEFINE lk == [link EXCEPT ![p].fin = TRUE]
<1>2. PICK b \in BOOLEAN : b = TRUE OBVIOUS
<1>3. [link[p] EXCEPT !.fin = b] \in Link /\ [link[p] EXCEPT !.fin = b].unread = link[p].unread
  BY <1>1 DEF Link
<1>4. lk = [link EXCEPT ![p] = [link[p] EXCEPT !.fin = b]] BY <1>1, <1>2
<1>5. lk \in [Pcbs -> Link] /\ \A q \in Pcbs : lk[q].unread = link[q].unread
  <2> HIDE DEF lk
  <2>1. lk \in [Pcbs -> Link] BY <1>1, <1>3, <1>4
  <2>2. ASSUME NEW q \in Pcbs PROVE lk[q].unread = link[q].unread
    <3>1. CASE q = p BY <3>1, <1>1, <1>3, <1>4
    <3>2. CASE q # p BY <3>2, <1>1, <1>4
    <3> QED BY <3>1, <3>2
  <2> QED BY <2>1, <2>2
<1>6. FrameTyped BY DEF OnPeerCloseIdle, FrameTyped, Inv, Typed, TypeOK
<1>7. CloseHttpContext(arg[p], lk, closed) BY DEF OnPeerCloseIdle
<1> HIDE DEF lk
<1> QED BY <1>1, <1>5, <1>6, <1>7, CloseInv

(* The close after a response and the close after a timeout.               *)
LEMMA CloseStepsInv ==
    ASSUME Inv, NEW closed \in BOOLEAN,
           \/ \E p \in Pcbs : OnHttpPollTimeout(p, closed)
           \/ CloseAfterRequest(closed)
           \/ CloseIfAborted(closed)
    PROVE  Inv'
<1>0. Typed BY DEF Inv
<1>1. CASE \E p \in Pcbs : OnHttpPollTimeout(p, closed)
  <2>1. PICK p \in Pcbs : OnHttpPollTimeout(p, closed) BY <1>1
  <2>2. arg[p] \in Ctx BY <1>0, <2>1 DEF OnHttpPollTimeout, Typed, TypeOK
  <2>3. FrameTyped BY <1>0, <2>1 DEF OnHttpPollTimeout, FrameTyped, Typed, TypeOK
  <2> QED BY <2>1, <2>2, <2>3, CloseSameLinkInv DEF OnHttpPollTimeout
<1>2. CASE CloseAfterRequest(closed)
  <2>1. frame # NoFrame /\ frame.c \in Ctx BY <1>0, <1>2, FrameFacts DEF CloseAfterRequest, At
  <2>2. FrameTyped BY <1>0, <1>2, <2>1, GotoTyped, LabelFacts DEF CloseAfterRequest
  <2> QED BY <1>2, <2>1, <2>2, CloseSameLinkInv DEF CloseAfterRequest
<1>3. CASE CloseIfAborted(closed)
  <2>1. frame # NoFrame /\ frame.c \in Ctx BY <1>0, <1>3, FrameFacts DEF CloseIfAborted, At
  <2>2. FrameTyped BY <1>3 DEF CloseIfAborted, FrameTyped
  <2> QED BY <1>3, <2>1, <2>2, CloseSameLinkInv DEF CloseIfAborted
<1> QED BY <1>1, <1>2, <1>3

(* One context's queue and the window of its connection change together.   *)
LEMMA WindowStepInv ==
    ASSUME Inv, UNCHANGED Pool, FrameTyped, NEW c \in Ctx, NEW y, Good(y),
           ctx' = [ctx EXCEPT ![c] = y], link' \in [Pcbs -> Link],
           restarts = 0 =>
               \A q \in Pcbs : link'[q].unread =
                   link[q].unread + (IF q = pcb[c] THEN Len(y.queue) - Len(ctx[c].queue) ELSE 0)
    PROVE  Inv'
<1>0. /\ ctx \in [Ctx -> Context] /\ pcb \in [Ctx -> Pcbs \cup {NoPcb}] /\ link \in [Pcbs -> Link]
      /\ pcb' = pcb /\ restarts' = restarts /\ arg' = arg
  BY DEF Inv, Typed, TypeOK, Pool
<1>1. y \in Context BY DEF Good
<1>2. ctx' \in [Ctx -> Context] /\ \A d \in Ctx : Good(ctx'[d])
  BY <1>0, <1>1 DEF Inv, Typed
<1>3. TypeOK' BY <1>2 DEF TypeOK, FrameTyped, Pool, Inv, Typed
<1>4. Ownership' BY DEF Inv, Ownership, Pool
<1>5. WindowConserved'
  <2> SUFFICES ASSUME restarts = 0, NEW d \in Ctx, pcb[d] # NoPcb
               PROVE  link'[pcb[d]].unread = Len(ctx'[d].queue)
    BY <1>0 DEF WindowConserved
  <2>1. pcb[d] \in Pcbs /\ arg[pcb[d]] = d /\ link[pcb[d]].unread = Len(ctx[d].queue)
    BY <1>0 DEF Inv, Ownership, WindowConserved
  <2>2. Len(ctx[d].queue) \in Nat
    <3>1. ctx[d].queue \in Seq(Tokens) BY <1>0 DEF Context
    <3> QED BY <3>1
  <2>3. CASE d = c
    <3>1. ctx'[d] = y BY <2>3, <1>0
    <3>2. Len(y.queue) \in Nat
      <4>1. y.queue \in Seq(Tokens) BY <1>1 DEF Context
      <4> QED BY <4>1
    <3>3. link'[pcb[d]].unread = link[pcb[d]].unread + (Len(y.queue) - Len(ctx[d].queue))
      BY <2>1, <2>3
    <3> QED BY <3>1, <3>2, <3>3, <2>1, <2>2
  <2>4. CASE d # c
    <3>1. ctx'[d] = ctx[d] BY <2>4, <1>0
    <3>2. pcb[d] # pcb[c] BY <2>1, <2>4, <1>0 DEF Inv, Ownership
    <3>3. link'[pcb[d]].unread = link[pcb[d]].unread + 0 BY <2>1, <3>2
    <3> QED BY <3>1, <3>3, <2>1, <2>2
  <2> QED BY <2>3, <2>4
<1> QED BY <1>2, <1>3, <1>4, <1>5 DEF Inv, Typed

(* Received data adds as much to the queue as to the window's debt.        *)
LEMMA OnHttpReceiveInv ==
    ASSUME Inv, NEW p \in Pcbs, NEW w \in Payloads, OnHttpReceive(p, w)
    PROVE  Inv'
<1> DEFINE c == arg[p]
           y == StoreReceived([ctx[c] EXCEPT !.recvAge = 0], w)
           u == IF y.queue = << >> THEN link[p].unread ELSE link[p].unread + Len(w)
           b == link[p].budget - 1
           s == link[p].stream \o w
           l == [link[p] EXCEPT !.budget = b, !.stream = s, !.unread = u]
<1>0. /\ c \in Ctx /\ Good(ctx[c]) /\ link \in [Pcbs -> Link] /\ link[p] \in Link
      /\ ctx \in [Ctx -> Context]
  BY DEF OnHttpReceive, Inv, Typed, TypeOK
<1>1. w \in Seq(Tokens) /\ w # << >> /\ Len(w) \in Nat BY PayloadsAssumption
<1>2. Good(y) /\ Len(y.queue) = Len(ctx[c].queue) + (IF y.queue = << >> THEN 0 ELSE Len(w))
  BY <1>0, <1>1, ReceiveGood
<1>3. Len(ctx[c].queue) \in Nat
  <2>1. ctx[c].queue \in Seq(Tokens) BY <1>0, GoodFacts
  <2> QED BY <2>1
<1>4. ctx' = [ctx EXCEPT ![c] = y]
  BY <1>0 DEF OnHttpReceive
<1>5. link' = [link EXCEPT ![p] = l]
  BY <1>0 DEF OnHttpReceive, Link
<1>6. u \in Int /\ b \in 0 .. MaxDeliveries /\ s \in Seq(Tokens)
  <2>1. link[p].unread \in Int /\ link[p].budget \in 0 .. MaxDeliveries
       /\ link[p].stream \in Seq(Tokens)
    BY <1>0 DEF Link
  <2>2. link[p].budget > 0 BY DEF OnHttpReceive
  <2>3. s \in Seq(Tokens) BY <1>1, <2>1
  <2>4. u \in Int
    <3> HIDE DEF y
    <3> QED BY <1>1, <2>1
  <2>5. b \in 0 .. MaxDeliveries BY <2>1, <2>2, SizesAssumption
  <2> QED BY <2>3, <2>4, <2>5
<1>7. UNCHANGED Pool BY DEF OnHttpReceive
<1>8. FrameTyped BY <1>0, EnterTyped DEF OnHttpReceive, Callers
<1>9. restarts = 0 => pcb[c] = p BY <1>0, NullAssumption DEF Inv, Ownership
<1>10. u = link[p].unread + (Len(y.queue) - Len(ctx[c].queue))
  <2>1. link[p].unread \in Int BY <1>0 DEF Link
  <2> HIDE DEF y
  <2> QED BY <2>1, <1>1, <1>2, <1>3
<1> HIDE DEF u, b, s, y
<1>11. l \in Link /\ l.unread = u BY <1>0, <1>6 DEF Link
<1> HIDE DEF l
<1>12. link' \in [Pcbs -> Link] BY <1>0, <1>5, <1>11
<1>13. restarts = 0 =>
         \A q \in Pcbs : link'[q].unread =
             link[q].unread + (IF q = pcb[c] THEN Len(y.queue) - Len(ctx[c].queue) ELSE 0)
  <2> SUFFICES ASSUME restarts = 0, NEW q \in Pcbs
               PROVE  link'[q].unread = link[q].unread
                        + (IF q = pcb[c] THEN Len(y.queue) - Len(ctx[c].queue) ELSE 0)
    OBVIOUS
  <2>1. CASE q = p BY <2>1, <1>0, <1>5, <1>9, <1>10, <1>11
  <2>2. CASE q # p
    <3>1. link'[q] = link[q] /\ q # pcb[c] BY <2>2, <1>0, <1>5, <1>9
    <3>2. link[q].unread \in Int BY <1>0 DEF Link
    <3> QED BY <3>1, <3>2
  <2> QED BY <2>1, <2>2
<1> HIDE DEF c
<1> QED BY <1>0, <1>2, <1>4, <1>7, <1>8, <1>12, <1>13, WindowStepInv

(* Freeing a pbuf returns as much window as it takes off the queue.        *)
LEMMA UnlinkPbufInv ==
    ASSUME Inv, UnlinkPbuf
    PROVE  Inv'
<1> DEFINE c == frame.c
           x == ctx[c]
           k == Head(x.ends)
           y == [x EXCEPT !.queue = DropFirst(@, k),
                          !.ends = [i \in 1 .. Len(@) - 1 |-> @[i + 1] - k],
                          !.offset = @ - k]
<1>0. /\ frame # NoFrame /\ c \in Ctx /\ Good(x) /\ ctx \in [Ctx -> Context]
      /\ link \in [Pcbs -> Link] /\ pcb \in [Ctx -> Pcbs \cup {NoPcb}]
  BY FrameFacts DEF UnlinkPbuf, At, Inv, Typed, TypeOK
<1>1. PbufCopied(x) BY DEF UnlinkPbuf
<1>2. Good(y) /\ k \in Nat /\ Len(y.queue) = Len(x.queue) - k
  BY <1>0, <1>1, UnlinkGood
<1>3. ctx' = [ctx EXCEPT ![c] = y]
  BY <1>0 DEF UnlinkPbuf
<1>4. link' = Recved(c, k) BY DEF UnlinkPbuf
<1>5. UNCHANGED Pool BY DEF UnlinkPbuf
<1>6. FrameTyped BY DEF UnlinkPbuf, FrameTyped, Inv, Typed, TypeOK
<1>7. Len(x.queue) \in Nat
  <2>1. x.queue \in Seq(Tokens) BY <1>0, GoodFacts
  <2> QED BY <2>1
<1> HIDE DEF y, k
<1>8. /\ link' \in [Pcbs -> Link]
      /\ \A q \in Pcbs : link'[q].unread =
             link[q].unread + (IF q = pcb[c] THEN Len(y.queue) - Len(x.queue) ELSE 0)
  <2>1. \A q \in Pcbs : link[q].unread \in Int /\ link[q] \in Link BY <1>0 DEF Link
  <2>2. CASE pcb[c] = NoPcb
    <3>1. link' = link BY <2>2, <1>4 DEF Recved
    <3>2. \A q \in Pcbs : q # pcb[c] BY <2>2, NullAssumption
    <3>3. \A u \in Int : u = u + 0 OBVIOUS
    <3> QED BY <3>1, <3>2, <3>3, <2>1, <1>0
  <2>3. CASE pcb[c] # NoPcb
    <3> DEFINE p == pcb[c]
               u == link[p].unread - k
               l == [link[p] EXCEPT !.unread = u]
    <3>1. p \in Pcbs BY <2>3, <1>0
    <3>2. u \in Int /\ link[p] \in Link BY <2>1, <3>1, <1>2
    <3>3. link' = [link EXCEPT ![p] = l] BY <2>3, <3>1, <1>0, <1>4 DEF Recved
    <3>4. u = link[p].unread + (Len(y.queue) - Len(x.queue)) BY <2>1, <3>1, <1>2, <1>7
    <3> HIDE DEF u
    <3>5. l \in Link /\ l.unread = u BY <3>2 DEF Link
    <3> HIDE DEF l
    <3>6. link' \in [Pcbs -> Link]
      <4> HIDE DEF p
      <4> QED BY <1>0, <3>1, <3>3, <3>5
    <3>7. ASSUME NEW q \in Pcbs
          PROVE  link'[q].unread = link[q].unread
                      + (IF q = p THEN Len(y.queue) - Len(x.queue) ELSE 0)
      <4>1. CASE q = p BY <4>1, <1>0, <3>3, <3>4, <3>5
      <4>2. CASE q # p
        <5>1. link'[q] = link[q] BY <4>2, <1>0, <3>3
        <5> QED BY <4>2, <5>1, <2>1
      <4> QED BY <4>1, <4>2
    <3> QED BY <3>6, <3>7
  <2> QED BY <2>2, <2>3
<1> QED BY <1>0, <1>2, <1>3, <1>5, <1>6, <1>8, WindowStepInv

(* The slot GetHttpContext returns has no connection.                      *)
LEMMA FreeSlot ==
    ASSUME NEW a, GetHttpContext(a) # NoCtx
    PROVE  GetHttpContext(a) \in Ctx /\ pcb[GetHttpContext(a)] = NoPcb
<1> DEFINE unused == {c \in Ctx : pcb[c] = NoPcb}
<1>1. unused # {} /\ GetHttpContext(a) = CHOOSE c \in unused : \A d \in unused : c <= d
  BY DEF GetHttpContext
<1>2. unused \in SUBSET Nat BY SizesAssumption DEF Ctx
<1>3. \E c \in unused : \A d \in unused : c <= d
  <2> HIDE DEF unused
  <2> QED BY <1>1, <1>2, LeastElement
<1>4. GetHttpContext(a) \in unused BY <1>1, <1>3
<1> QED BY <1>4

(* Accepting a connection ties one free connection to one free slot.       *)
LEMMA OnHttpAcceptInv ==
    ASSUME Inv, NEW p \in Pcbs, NEW a \in Addrs, OnHttpAccept(p, a)
    PROVE  Inv'
<1> DEFINE c == GetHttpContext(a)
           x == [ctx[c] EXCEPT !.queue = << >>, !.ends = << >>, !.offset = 0, !.peerClosing = FALSE]
           z == [ResetHttpContext(x) EXCEPT !.ip = a]
<1>0. /\ pcb \in [Ctx -> Pcbs \cup {NoPcb}] /\ arg \in [Pcbs -> Ctx \cup {NoCtx}]
      /\ open \in [Pcbs -> BOOLEAN] /\ polling \in [Pcbs -> BOOLEAN]
      /\ ctx \in [Ctx -> Context] /\ link \in [Pcbs -> Link]
  BY DEF Inv, Typed, TypeOK
<1>1. c # NoCtx BY DEF OnHttpAccept
<1>2. c \in Ctx /\ pcb[c] = NoPcb BY <1>1, FreeSlot
<1>3. /\ ctx' = [ctx EXCEPT ![c] = z]
      /\ pcb' = [pcb EXCEPT ![c] = p]
      /\ arg' = [arg EXCEPT ![p] = c]
      /\ open' = [open EXCEPT ![p] = TRUE]
      /\ polling' = [polling EXCEPT ![p] = TRUE]
      /\ link' = [link EXCEPT ![p] = NewLink(a)]
      /\ UNCHANGED <<listening, restarts, frame>>
      /\ ~open[p]
  BY DEF OnHttpAccept
<1>4. Good(z) /\ z.queue = << >>
  <2>1. Good(ctx[c]) BY <1>2 DEF Inv, Typed
  <2> QED BY <2>1, AcceptGood
<1>5. z \in Context BY <1>4 DEF Good
<1> HIDE DEF z, c
<1>6. NewLink(a) \in Link /\ NewLink(a).unread = 0 BY NewLinkTyped DEF Addresses
<1>7. TypeOK'
  <2>1. ctx' \in [Ctx -> Context] /\ pcb' \in [Ctx -> Pcbs \cup {NoPcb}]
        /\ arg' \in [Pcbs -> Ctx \cup {NoCtx}]
    BY <1>0, <1>2, <1>3, <1>5
  <2>2. open' \in [Pcbs -> BOOLEAN] /\ polling' \in [Pcbs -> BOOLEAN] BY <1>0, <1>3
  <2>3. link' \in [Pcbs -> Link] BY <1>0, <1>3, <1>6
  <2>4. listening' \in BOOLEAN /\ restarts' \in 0 .. MaxRestarts /\ frame' \in Frame \cup {NoFrame}
    BY <1>3 DEF Inv, Typed, TypeOK
  <2> QED BY <2>1, <2>2, <2>3, <2>4 DEF TypeOK
<1>8. \A d \in Ctx : Good(ctx'[d]) BY <1>0, <1>2, <1>3, <1>4 DEF Inv, Typed
<1>9. ASSUME restarts' = 0
      PROVE  /\ \A q \in Pcbs : arg[q] # NoCtx => open[q] /\ pcb[arg[q]] = q
             /\ \A d \in Ctx : pcb[d] # NoPcb => arg[pcb[d]] = d
             /\ \A q \in Pcbs : open[q] => polling[q]
             /\ \A d \in Ctx : pcb[d] # NoPcb => link[pcb[d]].unread = Len(ctx[d].queue)
  BY <1>3, <1>9 DEF Inv, Ownership, WindowConserved
<1>10. Ownership'
  <2> SUFFICES ASSUME restarts' = 0
               PROVE  /\ \A q \in Pcbs : arg'[q] # NoCtx => open'[q] /\ pcb'[arg'[q]] = q
                      /\ \A d \in Ctx : pcb'[d] # NoPcb => arg'[pcb'[d]] = d
                      /\ \A q \in Pcbs : open'[q] => polling'[q]
    BY DEF Ownership
  <2>0. arg[p] = NoCtx BY <1>3, <1>9
  <2>1. ASSUME NEW q \in Pcbs, arg'[q] # NoCtx PROVE open'[q] /\ pcb'[arg'[q]] = q
    <3>1. CASE q = p BY <3>1, <1>0, <1>2, <1>3
    <3>2. CASE q # p
      <4>1. arg'[q] = arg[q] /\ open'[q] = open[q] BY <3>2, <1>0, <1>3
      <4>2. arg[q] \in Ctx /\ open[q] /\ pcb[arg[q]] = q BY <4>1, <2>1, <1>0, <1>9
      <4>3. arg[q] # c BY <4>2, <1>2, NullAssumption
      <4> QED BY <4>1, <4>2, <4>3, <1>0, <1>3
    <3> QED BY <3>1, <3>2
  <2>2. ASSUME NEW d \in Ctx, pcb'[d] # NoPcb PROVE arg'[pcb'[d]] = d
    <3>1. CASE d = c BY <3>1, <1>0, <1>2, <1>3
    <3>2. CASE d # c
      <4>1. pcb'[d] = pcb[d] BY <3>2, <1>0, <1>3
      <4>2. pcb[d] \in Pcbs /\ arg[pcb[d]] = d BY <4>1, <2>2, <1>0, <1>9
      <4>3. pcb[d] # p BY <4>2, <2>0, NullAssumption
      <4> QED BY <4>1, <4>2, <4>3, <1>0, <1>3
    <3> QED BY <3>1, <3>2
  <2>3. ASSUME NEW q \in Pcbs, open'[q] PROVE polling'[q]
    BY <2>3, <1>0, <1>3, <1>9
  <2> QED BY <2>1, <2>2, <2>3
<1>11. WindowConserved'
  <2> SUFFICES ASSUME restarts' = 0, NEW d \in Ctx, pcb'[d] # NoPcb
               PROVE  link'[pcb'[d]].unread = Len(ctx'[d].queue)
    BY DEF WindowConserved
  <2>0. arg[p] = NoCtx BY <1>3, <1>9
  <2>1. CASE d = c
    <3>1. pcb'[d] = p /\ ctx'[d] = z /\ link'[p] = NewLink(a) BY <2>1, <1>0, <1>2, <1>3
    <3>2. Len(z.queue) = 0 BY <1>4, EmptyQueue
    <3> QED BY <3>1, <3>2, <1>6
  <2>2. CASE d # c
    <3>1. pcb'[d] = pcb[d] /\ ctx'[d] = ctx[d] BY <2>2, <1>0, <1>3
    <3>2. pcb[d] \in Pcbs /\ arg[pcb[d]] = d /\ link[pcb[d]].unread = Len(ctx[d].queue)
      BY <3>1, <1>0, <1>9
    <3>3. pcb[d] # p BY <3>2, <2>0, NullAssumption
    <3>4. link'[pcb[d]] = link[pcb[d]] BY <3>2, <3>3, <1>0, <1>3
    <3> QED BY <3>1, <3>2, <3>4
  <2> QED BY <2>1, <2>2
<1> QED BY <1>7, <1>8, <1>10, <1>11 DEF Inv, Typed

(* A connection that is named by no context disappears.                    *)
LEMMA OnHttpPollDetachedInv ==
    ASSUME Inv, NEW p \in Pcbs, OnHttpPollDetached(p)
    PROVE  Inv'
<1>0. /\ open \in [Pcbs -> BOOLEAN] /\ polling \in [Pcbs -> BOOLEAN] /\ arg[p] = NoCtx
      /\ open' = [open EXCEPT ![p] = FALSE] /\ polling' = [polling EXCEPT ![p] = FALSE]
      /\ UNCHANGED <<arg, link, listening, restarts, pcb, ctx, frame>>
  BY DEF OnHttpPollDetached, Inv, Typed, TypeOK
<1>1. open' \in [Pcbs -> BOOLEAN] /\ polling' \in [Pcbs -> BOOLEAN] BY <1>0
<1>2. TypeOK' BY <1>0, <1>1 DEF Inv, Typed, TypeOK
<1>3. \A c \in Ctx : Good(ctx'[c]) BY <1>0 DEF Inv, Typed
<1>4. Ownership' BY <1>0 DEF Inv, Ownership
<1>5. WindowConserved' BY <1>0 DEF Inv, WindowConserved
<1> QED BY <1>2, <1>3, <1>4, <1>5 DEF Inv, Typed

(* A reset connection gives its context up in the same callback.           *)
LEMMA OnHttpErrorInv ==
    ASSUME Inv, NEW p \in Pcbs, OnHttpError(p)
    PROVE  Inv'
<1> DEFINE c == arg[p]
           z == FreeHttpContext(ctx[c])
<1>0. /\ pcb \in [Ctx -> Pcbs \cup {NoPcb}] /\ arg \in [Pcbs -> Ctx \cup {NoCtx}]
      /\ open \in [Pcbs -> BOOLEAN] /\ polling \in [Pcbs -> BOOLEAN]
      /\ ctx \in [Ctx -> Context] /\ link \in [Pcbs -> Link]
  BY DEF Inv, Typed, TypeOK
<1>1. /\ open' = [open EXCEPT ![p] = FALSE] /\ polling' = [polling EXCEPT ![p] = FALSE]
      /\ arg' = [arg EXCEPT ![p] = NoCtx] /\ link' = [link EXCEPT ![p] = Unlinked]
      /\ UNCHANGED <<listening, restarts, frame>>
  BY DEF OnHttpError
<1>2. c = NoCtx => pcb' = pcb /\ ctx' = ctx BY DEF OnHttpError
<1>3. c # NoCtx => pcb' = [pcb EXCEPT ![c] = NoPcb] /\ ctx' = [ctx EXCEPT ![c] = z]
  BY DEF OnHttpError
<1>4. c # NoCtx => c \in Ctx /\ Good(z) /\ z \in Context
  BY <1>0, FreeGood DEF Inv, Typed, Good
<1> HIDE DEF z
<1>5. Unlinked \in Link BY NewLinkTyped DEF Unlinked, Addresses
<1>6. ctx' \in [Ctx -> Context] /\ pcb' \in [Ctx -> Pcbs \cup {NoPcb}]
  BY <1>0, <1>2, <1>3, <1>4
<1>7. \A d \in Ctx : Good(ctx'[d]) BY <1>0, <1>2, <1>3, <1>4 DEF Inv, Typed
<1>8. TypeOK'
  <2>1. open' \in [Pcbs -> BOOLEAN] /\ polling' \in [Pcbs -> BOOLEAN] BY <1>0, <1>1
  <2>2. arg' \in [Pcbs -> Ctx \cup {NoCtx}] /\ link' \in [Pcbs -> Link] BY <1>0, <1>1, <1>5
  <2>3. listening' \in BOOLEAN /\ restarts' \in 0 .. MaxRestarts /\ frame' \in Frame \cup {NoFrame}
    BY <1>1 DEF Inv, Typed, TypeOK
  <2> QED BY <2>1, <2>2, <2>3, <1>6 DEF TypeOK
<1>9. ASSUME restarts' = 0
      PROVE  /\ \A q \in Pcbs : arg[q] # NoCtx => open[q] /\ pcb[arg[q]] = q
             /\ \A d \in Ctx : pcb[d] # NoPcb => arg[pcb[d]] = d
             /\ \A q \in Pcbs : open[q] => polling[q]
             /\ \A d \in Ctx : pcb[d] # NoPcb => link[pcb[d]].unread = Len(ctx[d].queue)
  BY <1>1, <1>9 DEF Inv, Ownership, WindowConserved
<1>10. ASSUME restarts' = 0, NEW d \in Ctx, pcb'[d] # NoPcb
       PROVE  pcb'[d] = pcb[d] /\ ctx'[d] = ctx[d] /\ pcb[d] \in Pcbs \ {p} /\ arg[pcb[d]] = d
  <2>1. d # c
    <3>1. CASE c = NoCtx BY <3>1, NullAssumption
    <3>2. CASE c # NoCtx BY <3>2, <1>0, <1>3, <1>4, <1>10
    <3> QED BY <3>1, <3>2
  <2>2. pcb'[d] = pcb[d] /\ ctx'[d] = ctx[d]
    <3>1. CASE c = NoCtx BY <3>1, <1>2
    <3>2. CASE c # NoCtx BY <3>2, <2>1, <1>0, <1>3, <1>4
    <3> QED BY <3>1, <3>2
  <2>3. pcb[d] \in Pcbs /\ arg[pcb[d]] = d BY <2>2, <1>0, <1>9, <1>10
  <2> QED BY <2>1, <2>2, <2>3
<1>11. Ownership'
  <2> SUFFICES ASSUME restarts' = 0
               PROVE  /\ \A q \in Pcbs : arg'[q] # NoCtx => open'[q] /\ pcb'[arg'[q]] = q
                      /\ \A d \in Ctx : pcb'[d] # NoPcb => arg'[pcb'[d]] = d
                      /\ \A q \in Pcbs : open'[q] => polling'[q]
    BY DEF Ownership
  <2>1. ASSUME NEW q \in Pcbs, arg'[q] # NoCtx PROVE open'[q] /\ pcb'[arg'[q]] = q
    <3>1. q # p /\ arg'[q] = arg[q] /\ open'[q] = open[q] BY <2>1, <1>0, <1>1
    <3>2. arg[q] \in Ctx /\ open[q] /\ pcb[arg[q]] = q BY <3>1, <2>1, <1>0, <1>9
    <3>3. pcb'[arg[q]] = pcb[arg[q]]
      <4>1. CASE c = NoCtx BY <4>1, <1>2
      <4>2. CASE c # NoCtx
        <5>1. pcb[c] = p BY <4>2, <1>9
        <5>2. arg[q] # c BY <5>1, <3>1, <3>2
        <5> QED BY <4>2, <5>2, <3>2, <1>0, <1>3
      <4> QED BY <4>1, <4>2
    <3> QED BY <3>1, <3>2, <3>3
  <2>2. ASSUME NEW d \in Ctx, pcb'[d] # NoPcb PROVE arg'[pcb'[d]] = d
    <3>1. pcb'[d] = pcb[d] /\ pcb[d] \in Pcbs \ {p} /\ arg[pcb[d]] = d BY <2>2, <1>10
    <3> QED BY <3>1, <1>0, <1>1
  <2>3. ASSUME NEW q \in Pcbs, open'[q] PROVE polling'[q]
    BY <2>3, <1>0, <1>1, <1>9
  <2> QED BY <2>1, <2>2, <2>3
<1>12. WindowConserved'
  <2> SUFFICES ASSUME restarts' = 0, NEW d \in Ctx, pcb'[d] # NoPcb
               PROVE  link'[pcb'[d]].unread = Len(ctx'[d].queue)
    BY DEF WindowConserved
  <2>1. pcb'[d] = pcb[d] /\ ctx'[d] = ctx[d] /\ pcb[d] \in Pcbs \ {p} BY <1>10
  <2>2. link'[pcb[d]] = link[pcb[d]] BY <2>1, <1>0, <1>1
  <2>3. link[pcb[d]].unread = Len(ctx[d].queue) BY <2>1, <1>9
  <2> QED BY <2>1, <2>2, <2>3
<1> QED BY <1>7, <1>8, <1>11, <1>12 DEF Inv, Typed

(* HttpdStop and HttpdInit: the ownership and the window are claimed only  *)
(* up to the first restart.                                                *)
LEMMA RestartInv ==
    ASSUME Inv, HttpdStop \/ HttpdInit
    PROVE  Inv'
<1>0. restarts \in 0 .. MaxRestarts /\ ctx \in [Ctx -> Context] BY DEF Inv, Typed, TypeOK
<1>1. CASE HttpdStop
  <2>1. restarts' = restarts + 1 /\ restarts < MaxRestarts BY <1>1 DEF HttpdStop
  <2>2. restarts' \in 0 .. MaxRestarts /\ restarts' # 0 BY <2>1, <1>0, SizesAssumption
  <2>3. ctx' = [c \in Ctx |-> FreeHttpContext(ctx[c])] BY <1>1 DEF HttpdStop
  <2>4. \A c \in Ctx : Good(ctx'[c]) BY <2>3, FreeGood DEF Inv, Typed
  <2>5. ctx' \in [Ctx -> Context]
    <3>1. \A c \in Ctx : FreeHttpContext(ctx[c]) \in Context BY <2>3, <2>4 DEF Good
    <3> QED BY <2>3, <3>1
  <2>6. pcb' \in [Ctx -> Pcbs \cup {NoPcb}] BY <1>1 DEF HttpdStop
  <2>7. TypeOK' BY <1>1, <2>2, <2>5, <2>6 DEF TypeOK, HttpdStop, Inv, Typed
  <2>8. Ownership' BY <2>2 DEF Ownership
  <2>9. WindowConserved' BY <2>2 DEF WindowConserved
  <2> QED BY <2>4, <2>7, <2>8, <2>9 DEF Inv, Typed
<1>2. CASE HttpdInit
  <2>1. TypeOK' BY <1>2 DEF TypeOK, HttpdInit, Inv, Typed
  <2>2. \A c \in Ctx : Good(ctx'[c])
    <3>1. ctx' = ctx BY <1>2 DEF HttpdInit
    <3> QED BY <3>1 DEF Inv, Typed
  <2>3. Ownership' BY <1>2 DEF HttpdInit, Inv, Ownership
  <2>4. WindowConserved' BY <1>2 DEF HttpdInit, Inv, WindowConserved
  <2> QED BY <2>1, <2>2, <2>3, <2>4 DEF Inv, Typed
<1> QED BY <1>1, <1>2

(* SetupHttpContext establishes the invariant.                             *)
LEMMA InitInv == Init => Inv
<1> SUFFICES ASSUME Init PROVE Inv OBVIOUS
<1>1. PICK s \in States, rq \in Asked, h \in Handlers, l \in Int, n \in Nat, r \in Results,
           f \in BOOLEAN,
           g \in Stages, d \in Int, t \in Ages, x \in Seq(Tokens),
           q \in Seq(Tokens), e \in Seq(Nat), a \in Addresses :
         /\ s = IDLE /\ rq = "none" /\ h = "none" /\ l = 0 /\ n = 0 /\ r = 0 /\ f = FALSE
         /\ g = 0 /\ d = 0 /\ t = NoTime /\ x = << >> /\ q = << >> /\ e = << >> /\ a = NoPcb
  BY Constants, EmptyQueue DEF Addresses
<1> DEFINE y == [ip |-> a, state |-> s, request |-> rq, handler |-> h,
                 keepalive |-> f, contentLength |-> l, contentReceived |-> n,
                 result |-> r, peerClosing |-> f, sending |-> f, stage |-> g,
                 bytesLeft |-> n, due |-> d, recvAge |-> t, sendAge |-> t,
                 rx |-> x, queue |-> q, ends |-> e, offset |-> n]
<1>2. y \in Context BY DEF Context
<1>3. y.rx = << >> /\ y.queue = << >> /\ y.ends = << >> /\ y.offset = 0 BY <1>1
<1>4. ctx = [c \in Ctx |-> y] BY <1>1 DEF Init
<1> HIDE DEF y
<1>5. Good(y) BY <1>2, <1>3, EmptyQueue, SizesAssumption DEF Good
<1>11. PICK z \in Context : ctx = [c \in Ctx |-> z] /\ Good(z) BY <1>2, <1>4, <1>5
<1>6. ctx \in [Ctx -> Context] /\ \A c \in Ctx : Good(ctx[c])
  <2>1. ctx \in [Ctx -> Context] BY <1>11
  <2>2. \A c \in Ctx : ctx[c] = z BY <1>11
  <2>3. \A c \in Ctx : Good(ctx[c]) BY <1>11, <2>2
  <2> QED BY <2>1, <2>3
<1>7. Unlinked \in Link BY NewLinkTyped DEF Unlinked, Addresses
<1>8. TypeOK
  <2>1. open \in [Pcbs -> BOOLEAN] /\ polling \in [Pcbs -> BOOLEAN] BY DEF Init
  <2>2. arg \in [Pcbs -> Ctx \cup {NoCtx}] /\ pcb \in [Ctx -> Pcbs \cup {NoPcb}] BY DEF Init
  <2>3. link = [p \in Pcbs |-> Unlinked] BY DEF Init
  <2>4. link \in [Pcbs -> Link] BY <1>7, <2>3
  <2>5. listening \in BOOLEAN /\ frame \in Frame \cup {NoFrame} BY DEF Init
  <2>6. restarts = 0 /\ 0 \in 0 .. MaxRestarts BY SizesAssumption DEF Init
  <2> QED BY <1>6, <2>1, <2>2, <2>4, <2>5, <2>6 DEF TypeOK
<1>9. Ownership BY DEF Init, Ownership
<1>10. WindowConserved BY DEF Init, WindowConserved
<1> QED BY <1>6, <1>8, <1>9, <1>10 DEF Inv, Typed

(* Every step of a running callback preserves the invariant.               *)
LEMMA StepInv ==
    ASSUME Inv, Step
    PROVE  Inv'
<1>0. Typed BY DEF Inv
<1>1. CASE LoopHead BY <1>1, <1>0, LoopHeadQuiet, QuietInv
<1>2. CASE UnlinkPbuf BY <1>2, UnlinkPbufInv
<1>3. CASE StartRequest BY <1>3, <1>0, StartRequestQuiet, QuietInv
<1>4. CASE ParseLine BY <1>4, <1>0, ParseLineQuiet, QuietInv
<1>5. CASE ParseEmptyLine BY <1>5, <1>0, ParseEmptyLineQuiet, QuietInv
<1>6. CASE LinesExhausted BY <1>6, <1>0, LinesExhaustedQuiet, QuietInv
<1>7. CASE \E session, started \in BOOLEAN : AfterHeaders(session, started)
  BY <1>7, <1>0, AfterHeadersQuiet, QuietInv
<1>8. CASE \E n \in 0 .. MaxReqBuf : ReceiveBody(n) BY <1>8, <1>0, ReceiveBodyQuiet, QuietInv
<1>9. CASE \E result \in Results : RequestReceived(result)
  BY <1>9, <1>0, RequestReceivedQuiet, QuietInv
<1>10. CASE \E ok \in BOOLEAN : SendRemaining(ok) BY <1>10, <1>0, SendRemainingQuiet, QuietInv
<1>11. CASE \E ok \in BOOLEAN : SendHeader(ok) BY <1>11, <1>0, SendHeaderQuiet, QuietInv
<1>12. CASE HeaderSent BY <1>12, <1>0, HeaderSentQuiet, QuietInv
<1>13. CASE NoContent BY <1>13, <1>0, NoContentQuiet, QuietInv
<1>14. CASE \E out \in [n : -1 .. 1, stage : Stages, result : Results], ok \in BOOLEAN :
              LoadContent(out, ok)
  BY <1>14, <1>0, LoadContentQuiet, QuietInv
<1>15. CASE \E closed \in BOOLEAN : CloseAfterRequest(closed) BY <1>15, CloseStepsInv
<1>16. CASE KeepAfterRequest BY <1>16, <1>0, KeepAfterRequestQuiet, QuietInv
<1>17. CASE LeaveRequest BY <1>17, <1>0, LeaveRequestQuiet, QuietInv
<1>18. CASE CancelIfFailed \/ Return BY <1>18, <1>0, CancelQuiet, QuietInv
<1>19. CASE \E closed \in BOOLEAN : CloseIfAborted(closed) BY <1>19, CloseStepsInv
<1> QED BY <1>1, <1>2, <1>3, <1>4, <1>5, <1>6, <1>7, <1>8, <1>9, <1>10, <1>11, <1>12, <1>13,
           <1>14, <1>15, <1>16, <1>17, <1>18, <1>19 DEF Step

(* Every event of the stack or the clock preserves the invariant.          *)
LEMMA EventInv ==
    ASSUME Inv, Event
    PROVE  Inv'
<1>0. Typed BY DEF Inv
<1>1. CASE \E p \in Pcbs, a \in Addrs : OnHttpAccept(p, a) BY <1>1, OnHttpAcceptInv
<1>2. CASE \E p \in Pcbs, w \in Payloads : OnHttpReceive(p, w) BY <1>2, OnHttpReceiveInv
<1>3. CASE \E p \in Pcbs : OnPeerClose(p) BY <1>3, <1>0, OnPeerCloseQuiet, QuietInv
<1>4. CASE \E p \in Pcbs, closed \in BOOLEAN : OnPeerCloseIdle(p, closed)
  BY <1>4, OnPeerCloseIdleInv
<1>5. CASE \E p \in Pcbs : OnHttpPoll(p) BY <1>5, <1>0, OnHttpPollQuiet, QuietInv
<1>6. CASE \E p \in Pcbs, closed \in BOOLEAN : OnHttpPollTimeout(p, closed)
  BY <1>6, CloseStepsInv
<1>7. CASE \E p \in Pcbs : OnHttpPollDetached(p) BY <1>7, OnHttpPollDetachedInv
<1>8. CASE \E p \in Pcbs, n \in 1 .. SndBuf : OnHttpSent(p, n)
  BY <1>8, <1>0, OnHttpSentQuiet, QuietInv
<1>9. CASE \E p \in Pcbs : OnHttpError(p) BY <1>9, OnHttpErrorInv
<1>10. CASE HttpdStop \/ HttpdInit BY <1>10, RestartInv
<1>11. CASE Tick BY <1>11, <1>0, TickQuiet, QuietInv
<1> QED BY <1>1, <1>2, <1>3, <1>4, <1>5, <1>6, <1>7, <1>8, <1>9, <1>10, <1>11 DEF Event

(* Nothing changes, nothing breaks.                                        *)
LEMMA StutterInv ==
    ASSUME Inv, UNCHANGED vars
    PROVE  Inv'
BY DEF vars, Inv, Typed, TypeOK, Ownership, WindowConserved

(* In every reachable state the types hold, every context's buffer and     *)
(* queue are well formed, contexts and connections name each other, and    *)
(* each window owes exactly what is queued.                                *)
THEOREM Invariance == Spec => []Inv
<1>1. Init => Inv BY InitInv
<1>2. Inv /\ [Next]_vars => Inv' BY StepInv, EventInv, StutterInv DEF Next
<1> QED BY <1>1, <1>2, PTL DEF Spec

(* Every variable keeps its type, for all sizes of the pool and the        *)
(* buffers (SetupHttpContext and every callback).                          *)
THEOREM TypeCorrect == Spec => []TypeOK
<1>1. Inv => TypeOK BY DEF Inv, Typed
<1> QED BY <1>1, Invariance, PTL

(* Until the first restart, a connection's callback argument and a         *)
(* context's pcb name each other and every open connection is polled: no   *)
(* callback runs on a context that belongs to another connection           *)
(* (OnHttpAccept, CloseHttpContext, OnHttpError).                          *)
THEOREM OwnershipHolds == Spec => []Ownership
<1>1. Inv => Ownership BY DEF Inv
<1> QED BY <1>1, Invariance, PTL

(* Until the first restart, the receive window each connection is owed is  *)
(* what its context still holds queued: altcp_recved is called once for    *)
(* every byte, for every way pbufs are cut (HttpRequestProc,               *)
(* OnHttpReceive).                                                         *)
THEOREM WindowIsConserved == Spec => []WindowConserved
<1>1. Inv => WindowConserved BY DEF Inv
<1> QED BY <1>1, Invariance, PTL

(* The copies out of the pbuf queue never overrun the request buffer       *)
(* (HttpRequestProc, MAX_REQ_BUF_SIZE).                                    *)
THEOREM BufferIsBounded == Spec => []BufferBound
<1>1. Inv => BufferBound BY DEF Inv, Typed, Good, BufferBound
<1> QED BY <1>1, Invariance, PTL
=============================================================================
