------------------------------ MODULE HttpCore ------------------------------
(***************************************************************************)
(* The HTTP server core of httpd/http_core.c with the dispatch layer of    *)
(* httpd/http_cgi.c: the pool of request contexts, the lwIP connections    *)
(* (pcbs) that carry a context as their callback argument, and the request *)
(* and response state machine that every callback runs.                    *)
(*                                                                         *)
(* Everything runs on one thread (NO_SYS = 1): lwIP calls back from        *)
(* poll_network(), so a callback is never interrupted by another one.  A   *)
(* callback is a sequence of steps here because HttpRequestProc() is a     *)
(* loop; the variable frame is its activation record, and no other event   *)
(* happens while frame is not NoFrame.                                     *)
(*                                                                         *)
(* Bytes are abstracted to tokens.  A request line starts with a token of  *)
(* DOMAIN Requests, a header line with "keepalive", "close" or "length",   *)
(* "eol" is CR LF, and "x" is any other byte, of a line or of a body.      *)
(***************************************************************************)
EXTENDS Integers, Sequences, FiniteSets

CONSTANTS
    Pcbs,            \* the connections lwIP can hold at a time
    Addrs,           \* remote IP addresses
    MaxConnections,  \* MAX_CONNECTIONS, the size of g_httpContext
    MaxConnPerIp,    \* MAX_CONN_PER_IP; 0 is "not limited"
    MaxReqBuf,       \* MAX_REQ_BUF_SIZE, in tokens
    RcvWnd,          \* TCP_WND, in tokens
    SndBuf,          \* TCP_SND_BUF, in blocks of response data
    HeaderLen,       \* blocks of a response header
    BodyLen,         \* the value of every Content-Length header, in tokens
    Timeout,         \* TO_RECV = TO_SENT, in ticks of the model
    Payloads,        \* the data a peer may put in one pbuf: sequences of tokens
    MaxDeliveries,   \* bound: pbufs a peer sends on one connection
    MaxBlocks,       \* bound: blocks of one response body
    MaxRestarts,     \* bound: HttpdStop/HttpdInit cycles of main()
    NoPcb, NoCtx, NoFrame   \* NULL, three times

ASSUME SizesAssumption ==
    /\ MaxConnections \in Nat \ {0} /\ MaxConnPerIp \in Nat
    /\ MaxReqBuf \in Nat \ {0, 1}   /\ RcvWnd \in Nat
    /\ SndBuf \in Nat \ {0}         /\ HeaderLen \in Nat \ {0}
    /\ BodyLen \in Nat \ {0}        /\ Timeout \in Nat
    /\ MaxDeliveries \in Nat        /\ MaxBlocks \in Nat
    /\ MaxRestarts \in Nat

Ctx == 0 .. MaxConnections - 1

ASSUME NullAssumption ==
    /\ NoPcb \notin Pcbs
    /\ NoCtx \notin Ctx

-----------------------------------------------------------------------------
(* HTTP_STATE_* of http_core.h, in the order the comparisons rely on.      *)
IDLE             == 0
HEADER_RECEIVING == 1
HEADER_DONE      == 2
BODY_RECEIVING   == 7
BODY_DONE        == 8
SENDING_HEADER   == 9
SENDING_BODY     == 10
REQUEST_END      == 11
States == {IDLE, HEADER_RECEIVING, HEADER_DONE, BODY_RECEIVING, BODY_DONE,
           SENDING_HEADER, SENDING_BODY, REQUEST_END}

CODE_OK       == 200
CODE_REDIRECT == -307
Results == {0, CODE_OK, CODE_REDIRECT, -304, -401, -404, -500}

STAGE_END == -1   \* 0xFFFFFFFF: the last block was produced
NoTime    == -1   \* a tick count of 0: "not started", never times out

(* The requests of the model: method, handler that CGI_SetCgiHandler finds *)
(* for the path, whether SessionTypes() asks a session for the extension,  *)
(* and the results OnRequestReceived may leave in _result (0 becomes 200). *)
Request(method, handler, page, res) ==
    [method |-> method, handler |-> handler, page |-> page, res |-> res]
Requests ==
    [GetPage    |-> Request("GET", "webapp", TRUE, {CODE_OK, -304, -404}),
     GetImage   |-> Request("GET", "webapp", FALSE, {CODE_OK, -304, -404}),
     GetLogin   |-> Request("GET", "auth", TRUE, {CODE_OK, -304, -404}),
     GetCheck   |-> Request("GET", "auth", TRUE, {CODE_OK, -401}),
     GetLogout  |-> Request("GET", "auth", TRUE, {CODE_REDIRECT}),
     PostLogin  |-> Request("POST", "auth", TRUE, {CODE_REDIRECT}),
     GetForm    |-> Request("GET", "form", TRUE, {CODE_OK, -404}),
     PostForm   |-> Request("POST", "form", TRUE, {CODE_OK, -404}),
     GetFiles   |-> Request("GET", "files", TRUE, {CODE_OK}),
     PostUpload |-> Request("POST", "upload", TRUE, {CODE_OK}),
     GetXml     |-> Request("GET", "ssdp", TRUE, {CODE_OK}),
     GetUnknown |-> Request("GET", "none", TRUE, {}),
     GetIcon    |-> Request("GET", "none", FALSE, {}),
     PostIcon   |-> Request("POST", "none", FALSE, {})]

(* The registered handlers (CGI_SetupMapping, and the callback tables of   *)
(* cgi/): the options the core looks at and which callbacks are not NULL.  *)
AuthRequired == {"form", "files", "upload", "webapp"}
GetEnabled   == {"ssdp", "auth", "form", "files", "webapp"}
PostEnabled  == {"auth", "form", "upload"}
HasReadContent == {"ssdp", "auth", "form", "files", "webapp"}
UsesWebRead    == {"auth", "form", "webapp"}    \* ReadContent = WEB_ReadContent
Handlers == {"none", "upload"} \cup HasReadContent

Tokens == DOMAIN Requests \cup {"keepalive", "close", "length", "eol", "x"}

ASSUME PayloadsAssumption == Payloads \subseteq Seq(Tokens) \ {<< >>}

-----------------------------------------------------------------------------
VARIABLES
    \* the stack's side of a connection
    open,      \* the pcb is allocated and usable by the application
    arg,       \* altcp_arg: the context passed to every callback, or NoCtx;
               \*   the recv, sent and err callbacks are set and cleared with it
    polling,   \* OnHttpPoll is registered
    link,      \* what TCP still owes: see Link
    \* the server
    listening, \* the listening pcb exists
    restarts,  \* HttpdStop calls so far
    pcb,       \* g_httpContext[c]._pcb
    ctx,       \* the other fields of g_httpContext[c]: see Context
    frame      \* the callback being executed: see Frame

vars == <<open, arg, polling, link, listening, restarts, pcb, ctx, frame>>

Addresses == Addrs \cup {NoPcb}

(* remote: the peer's address; unacked: blocks written, not acknowledged;  *)
(* unread: tokens delivered, window not moved (altcp_recved) yet; fin: the *)
(* peer closed its side; budget: pbufs it may still send; stream: tokens   *)
(* delivered that the request parser has not consumed (history variable).  *)
Link == [remote: Addresses, unacked: 0 .. SndBuf, unread: Int,
         fin: BOOLEAN, budget: 0 .. MaxDeliveries, stream: Seq(Tokens)]

NewLink(a) == [remote |-> a, unacked |-> 0, unread |-> 0, fin |-> FALSE,
               budget |-> IF a = NoPcb THEN 0 ELSE MaxDeliveries, stream |-> << >>]
Unlinked == NewLink(NoPcb)

Asked     == DOMAIN Requests \cup {"none"}
Stages    == {STAGE_END} \cup 0 .. MaxBlocks
Ages      == {NoTime} \cup 0 .. Timeout + 1

(* rx is http_request_buffer up to request_length; queue the bytes of the  *)
(* pbuf chain _reqBufList, ends where each of its pbufs ends, offset is    *)
(* _bufOffset.  due = _total2Send - _totalSent.  recvAge and sendAge are   *)
(* the ticks since _tLastReceived and _tLastSent.                          *)
Context == [ip: Addresses, state: States, request: Asked,
            handler: Handlers, keepalive: BOOLEAN, contentLength: Int,
            contentReceived: Nat, result: Results, peerClosing: BOOLEAN,
            sending: BOOLEAN, stage: Stages, bytesLeft: Nat, due: Int,
            recvAge: Ages, sendAge: Ages,
            rx: Seq(Tokens), queue: Seq(Tokens), ends: Seq(Nat), offset: Nat]

Callers == {"recv", "poll", "sent"}
Labels  == {"loop", "unlink", "lines", "headers", "body", "done", "response", "content",
            "end", "cancel", "close"}
(* parsed: a line was consumed in this pass (nLinePos > 0); failed:        *)
(* altcp_write failed; cancelled: CGI_Cancel was called.                   *)
Frame == [c: Ctx, caller: Callers, pc: Labels, parsed: BOOLEAN,
          failed: BOOLEAN, cancelled: BOOLEAN]

ASSUME FrameAssumption == NoFrame \notin Frame

Init ==
    /\ open    = [p \in Pcbs |-> FALSE]
    /\ arg     = [p \in Pcbs |-> NoCtx]
    /\ polling = [p \in Pcbs |-> FALSE]
    /\ link    = [p \in Pcbs |-> Unlinked]
    /\ listening = TRUE
    /\ restarts  = 0
    /\ pcb   = [c \in Ctx |-> NoPcb]
    /\ ctx   = [c \in Ctx |->
                  [ip |-> NoPcb, state |-> IDLE, request |-> "none", handler |-> "none",
                   keepalive |-> FALSE, contentLength |-> 0, contentReceived |-> 0,
                   result |-> 0, peerClosing |-> FALSE, sending |-> FALSE, stage |-> 0,
                   bytesLeft |-> 0, due |-> 0, recvAge |-> NoTime, sendAge |-> NoTime,
                   rx |-> << >>, queue |-> << >>, ends |-> << >>, offset |-> 0]]
    /\ frame = NoFrame

-----------------------------------------------------------------------------
Least(m, n) == IF m <= n THEN m ELSE n
DropFirst(s, n) == SubSeq(s, n + 1, Len(s))

(* A callback on context c enters HttpRequestProc.                         *)
Enter(c, caller) ==
    frame' = [c |-> c, caller |-> caller, pc |-> "loop", parsed |-> FALSE,
              failed |-> FALSE, cancelled |-> FALSE]
At(label)   == frame # NoFrame /\ frame.pc = label
Goto(label) == frame' = [frame EXCEPT !.pc = label]

Pool == <<open, arg, polling, listening, restarts, pcb>>

(* Variant: ctxResponse survives into the next request.                    *)
ResetKeepsResponse(x) ==
    [x EXCEPT !.state = IDLE, !.recvAge = 0, !.request = "none", !.handler = "none",
              !.contentLength = -1, !.contentReceived = 0, !.keepalive = FALSE,
              !.result = 0]

(* Field assignments of ResetHttpContext: the request buffer and the pbuf  *)
(* queue survive, they may hold the next pipelined request.                *)
ResetHttpContext(x) ==
    [x EXCEPT !.state = IDLE, !.recvAge = 0, !.request = "none", !.handler = "none",
              !.contentLength = -1, !.contentReceived = 0, !.keepalive = FALSE,
              !.result = 0, !.sending = FALSE, !.stage = 0, !.bytesLeft = 0,
              !.due = 0, !.sendAge = NoTime]

(* Variant: the request buffer is not emptied (request_length kept).       *)
FreeKeepsBuffer(x) ==
    [x EXCEPT !.queue = << >>, !.ends = << >>, !.offset = 0,
              !.state = IDLE, !.request = "none", !.handler = "none",
              !.contentLength = -1, !.contentReceived = 0, !.keepalive = FALSE,
              !.result = 0, !.sending = FALSE, !.stage = 0, !.bytesLeft = 0,
              !.due = 0, !.sendAge = NoTime]
(* Variant: the pbuf queue is forgotten.                                   *)
FreeKeepsQueue(x) ==
    [x EXCEPT !.rx = << >>,
              !.state = IDLE, !.request = "none", !.handler = "none",
              !.contentLength = -1, !.contentReceived = 0, !.keepalive = FALSE,
              !.result = 0, !.sending = FALSE, !.stage = 0, !.bytesLeft = 0,
              !.due = 0, !.sendAge = NoTime]

(* Field assignments of FreeHttpContext, _pcb = NULL excepted.             *)
FreeHttpContext(x) ==
    [x EXCEPT !.queue = << >>, !.ends = << >>, !.offset = 0, !.rx = << >>,
              !.state = IDLE, !.request = "none", !.handler = "none",
              !.contentLength = -1, !.contentReceived = 0, !.keepalive = FALSE,
              !.result = 0, !.sending = FALSE, !.stage = 0, !.bytesLeft = 0,
              !.due = 0, !.sendAge = NoTime]

(* Variant: a failed altcp_close does not register OnHttpPoll again.       *)
CloseWithoutRetry(c, lk, closed) ==
    LET p == pcb[c]
    IN  /\ IF p = NoPcb
           THEN link' = lk /\ UNCHANGED <<open, arg, polling>>
           ELSE /\ arg'     = [arg EXCEPT ![p] = NoCtx]
                /\ open'    = [open EXCEPT ![p] = ~closed]
                /\ polling' = [polling EXCEPT ![p] = FALSE]
                /\ link'    = [lk EXCEPT ![p] = Unlinked]
        /\ pcb' = [pcb EXCEPT ![c] = NoPcb]
        /\ ctx' = [ctx EXCEPT ![c] = FreeHttpContext(@)]
        /\ UNCHANGED <<listening, restarts>>

(* The callbacks are cleared first; altcp_close may fail, and then the pcb *)
(* lives on without a context and OnHttpPoll tries again.  lk is the value *)
(* of link the event has left.                                             *)
CloseHttpContext(c, lk, closed) ==
    LET p == pcb[c]
        x == IF p # NoPcb /\ closed THEN [ctx[c] EXCEPT !.peerClosing = FALSE] ELSE ctx[c]
    IN  /\ IF p = NoPcb
           THEN link' = lk /\ UNCHANGED <<open, arg, polling>>
           ELSE /\ arg'     = [arg EXCEPT ![p] = NoCtx]
                /\ open'    = [open EXCEPT ![p] = ~closed]
                /\ polling' = [polling EXCEPT ![p] = ~closed]
                /\ link'    = [lk EXCEPT ![p] = Unlinked]
        /\ pcb' = [pcb EXCEPT ![c] = NoPcb]
        /\ ctx' = [ctx EXCEPT ![c] = FreeHttpContext(x)]
        /\ UNCHANGED <<listening, restarts>>

(* Variant: the limit is compared one too late.                            *)
GetHttpContextOffByOne(a) ==
    LET sameIp == {c \in Ctx : pcb[c] # NoPcb /\ ctx[c].ip = a}
        unused == {c \in Ctx : pcb[c] = NoPcb}
    IN  IF (MaxConnPerIp > 0 /\ Cardinality(sameIp) > MaxConnPerIp) \/ unused = {}
        THEN NoCtx
        ELSE CHOOSE c \in unused : \A d \in unused : c <= d

(* The slot for a connection from address a, or NoCtx.                     *)
GetHttpContext(a) ==
    LET sameIp == {c \in Ctx : pcb[c] # NoPcb /\ ctx[c].ip = a}
        unused == {c \in Ctx : pcb[c] = NoPcb}
    IN  IF (MaxConnPerIp > 0 /\ Cardinality(sameIp) >= MaxConnPerIp) \/ unused = {}
        THEN NoCtx
        ELSE CHOOSE c \in unused : \A d \in unused : c <= d

(* A new connection.  When GetHttpContext finds no slot the pcb is closed  *)
(* or aborted at once: nothing changes, and the step is a stuttering one.  *)
OnHttpAccept(p, a) ==
    /\ frame = NoFrame /\ listening /\ ~open[p]
    /\ LET c == GetHttpContext(a)
           x == [ctx[c] EXCEPT !.queue = << >>, !.ends = << >>, !.offset = 0,
                               !.peerClosing = FALSE]
       IN  /\ c # NoCtx
           /\ ctx' = [ctx EXCEPT ![c] = [ResetHttpContext(x) EXCEPT !.ip = a]]
           /\ pcb' = [pcb EXCEPT ![c] = p]
           /\ arg' = [arg EXCEPT ![p] = c]
    /\ open'    = [open EXCEPT ![p] = TRUE]
    /\ polling' = [polling EXCEPT ![p] = TRUE]
    /\ link'    = [link EXCEPT ![p] = NewLink(a)]
    /\ UNCHANGED <<listening, restarts, frame>>

(* Variant: what fits is copied even when older data is still queued.      *)
StoreOutOfOrder(x, w) ==
    IF Len(w) <= MaxReqBuf - Len(x.rx)
    THEN [x EXCEPT !.rx = @ \o w]
    ELSE [x EXCEPT !.queue = @ \o w, !.ends = Append(@, Len(x.queue) + Len(w))]

(* The context after data w was put into the buffer or the queue.          *)
StoreReceived(x, w) ==
    IF x.queue # << >>
    THEN [x EXCEPT !.queue = @ \o w, !.ends = Append(@, Len(x.queue) + Len(w))]
    ELSE IF Len(w) > MaxReqBuf - Len(x.rx)
    THEN [x EXCEPT !.queue = w, !.ends = <<Len(w)>>]
    ELSE [x EXCEPT !.rx = @ \o w]

(* The stack delivers a pbuf with data w.  The window moves at once when   *)
(* the data was copied, and only when the pbuf is unlinked otherwise.      *)
OnHttpReceive(p, w) ==
    /\ frame = NoFrame /\ open[p] /\ arg[p] # NoCtx
    /\ ~link[p].fin /\ link[p].budget > 0 /\ link[p].unread + Len(w) <= RcvWnd
    /\ LET c == arg[p]
           x == StoreReceived([ctx[c] EXCEPT !.recvAge = 0], w)
       IN  /\ ctx'  = [ctx EXCEPT ![c] = x]
           /\ link' = [link EXCEPT ![p].budget = @ - 1, ![p].stream = @ \o w,
                          ![p].unread = IF x.queue = << >> THEN @ ELSE @ + Len(w)]
           /\ Enter(c, "recv")
    /\ UNCHANGED Pool

(* The peer closed its side: OnHttpReceive with a NULL pbuf.               *)
OnPeerClose(p) ==
    /\ frame = NoFrame /\ open[p] /\ arg[p] # NoCtx /\ ~link[p].fin
    /\ ctx[arg[p]].state # IDLE
    /\ ctx'  = [ctx EXCEPT ![arg[p]].recvAge = 0, ![arg[p]].peerClosing = TRUE]
    /\ link' = [link EXCEPT ![p].fin = TRUE]
    /\ Enter(arg[p], "recv")
    /\ UNCHANGED Pool

OnPeerCloseIdle(p, closed) ==
    /\ frame = NoFrame /\ open[p] /\ arg[p] # NoCtx /\ ~link[p].fin
    /\ ctx[arg[p]].state = IDLE
    /\ CloseHttpContext(arg[p], [link EXCEPT ![p].fin = TRUE], closed)
    /\ UNCHANGED frame

(* Variant: the send timer is used as soon as the header is complete.      *)
TimeoutByHeader(x) ==
    IF x.state < BODY_RECEIVING THEN x.recvAge > Timeout ELSE x.sendAge > Timeout

IsContextTimeout(x) ==
    IF x.state < BODY_DONE THEN x.recvAge > Timeout ELSE x.sendAge > Timeout

OnHttpPoll(p) ==
    /\ frame = NoFrame /\ open[p] /\ polling[p] /\ arg[p] # NoCtx
    /\ ~IsContextTimeout(ctx[arg[p]])
    /\ Enter(arg[p], "poll")
    /\ UNCHANGED <<Pool, link, ctx>>

OnHttpPollTimeout(p, closed) ==
    /\ frame = NoFrame /\ open[p] /\ polling[p] /\ arg[p] # NoCtx
    /\ IsContextTimeout(ctx[arg[p]])
    /\ CloseHttpContext(arg[p], link, closed)
    /\ UNCHANGED frame

(* The poll after a failed altcp_close: close again, or abort.             *)
OnHttpPollDetached(p) ==
    /\ frame = NoFrame /\ open[p] /\ polling[p] /\ arg[p] = NoCtx
    /\ open'    = [open EXCEPT ![p] = FALSE]
    /\ polling' = [polling EXCEPT ![p] = FALSE]
    /\ UNCHANGED <<arg, link, listening, restarts, pcb, ctx, frame>>

(* The peer acknowledges n blocks.                                         *)
OnHttpSent(p, n) ==
    /\ frame = NoFrame /\ open[p] /\ arg[p] # NoCtx /\ n <= link[p].unacked
    /\ link' = [link EXCEPT ![p].unacked = @ - n]
    /\ ctx'  = [ctx EXCEPT ![arg[p]].due = @ - n]
    /\ Enter(arg[p], "sent")
    /\ UNCHANGED Pool

(* Variant: the context keeps the freed pcb.                               *)
OnHttpErrorKeepsPcb(p) ==
    /\ frame = NoFrame /\ open[p]
    /\ open'    = [open EXCEPT ![p] = FALSE]
    /\ polling' = [polling EXCEPT ![p] = FALSE]
    /\ arg'     = [arg EXCEPT ![p] = NoCtx]
    /\ link'    = [link EXCEPT ![p] = Unlinked]
    /\ ctx' = IF arg[p] = NoCtx THEN ctx ELSE [ctx EXCEPT ![arg[p]] = FreeHttpContext(@)]
    /\ UNCHANGED <<listening, restarts, pcb, frame>>

(* A reset, or the stack gave the connection up: the pcb is already freed. *)
OnHttpError(p) ==
    /\ frame = NoFrame /\ open[p]
    /\ open'    = [open EXCEPT ![p] = FALSE]
    /\ polling' = [polling EXCEPT ![p] = FALSE]
    /\ arg'     = [arg EXCEPT ![p] = NoCtx]
    /\ link'    = [link EXCEPT ![p] = Unlinked]
    /\ IF arg[p] = NoCtx
       THEN UNCHANGED <<pcb, ctx>>
       ELSE /\ pcb' = [pcb EXCEPT ![arg[p]] = NoPcb]
            /\ ctx' = [ctx EXCEPT ![arg[p]] = FreeHttpContext(@)]
    /\ UNCHANGED <<listening, restarts, frame>>

(* main() leaves its service loop: every context is freed, the connections *)
(* keep their callbacks (tcp_kill_all only reaches those in TIME-WAIT).    *)
HttpdStop ==
    /\ frame = NoFrame /\ listening /\ restarts < MaxRestarts
    /\ listening' = FALSE
    /\ restarts'  = restarts + 1
    /\ pcb' = [c \in Ctx |-> NoPcb]
    /\ ctx' = [c \in Ctx |-> FreeHttpContext(ctx[c])]
    /\ UNCHANGED <<open, arg, polling, link, frame>>

HttpdInit ==
    /\ frame = NoFrame /\ ~listening
    /\ listening' = TRUE
    /\ UNCHANGED <<open, arg, polling, link, restarts, pcb, ctx, frame>>

(* Time passes (one tick is a fraction of the 60 s timeouts).              *)
Older(t) == IF t = NoTime THEN t ELSE Least(t + 1, Timeout + 1)
Tick ==
    /\ frame = NoFrame
    /\ ctx' = [c \in Ctx |-> [ctx[c] EXCEPT !.recvAge = Older(@), !.sendAge = Older(@)]]
    /\ UNCHANGED <<Pool, link, frame>>

-----------------------------------------------------------------------------
(* HttpRequestProc(context, caller), the receiving half: the loop over     *)
(* what the queue and the buffer hold while the request is incomplete.     *)

(* Variant: the space left in the buffer is not looked at.                 *)
DequeueAll(x) ==
    [x EXCEPT !.rx = @ \o DropFirst(x.queue, x.offset), !.offset = Len(x.queue)]

(* while (_state < BODY_DONE): copy what fits from the queue.              *)
Dequeue(x) ==
    LET n == IF x.queue = << >> THEN 0
             ELSE Least(MaxReqBuf - Len(x.rx), Len(x.queue) - x.offset)
    IN  [x EXCEPT !.rx = @ \o SubSeq(x.queue, x.offset + 1, x.offset + n),
                  !.offset = @ + n]

LoopHead ==
    /\ At("loop")
    /\ IF ctx[frame.c].state < BODY_DONE
       THEN /\ ctx' = [ctx EXCEPT ![frame.c] = Dequeue(@)]
            /\ Goto("unlink")
       ELSE /\ ctx' = ctx
            /\ Goto("response")
    /\ UNCHANGED <<Pool, link>>

(* Variant: the window is not moved for an unlinked pbuf.                  *)
RecvedNothing(c, n) == link

(* altcp_recved(context->_pcb, n), and the parser's progress by n tokens.  *)
Recved(c, n)   == IF pcb[c] = NoPcb THEN link ELSE [link EXCEPT ![pcb[c]].unread = @ - n]
Consumed(c, n) == IF pcb[c] = NoPcb THEN link
                  ELSE [link EXCEPT ![pcb[c]].stream = DropFirst(@, n)]

(* Free the pbufs that were copied completely and move the window.         *)
PbufCopied(x) == x.queue # << >> /\ x.offset >= Head(x.ends)
UnlinkPbuf ==
    /\ At("unlink")
    /\ LET x == ctx[frame.c]
           k == Head(x.ends)
       IN  /\ PbufCopied(x)
           /\ ctx'  = [ctx EXCEPT ![frame.c].queue = DropFirst(@, k),
                                  ![frame.c].ends = [i \in 1 .. Len(@) - 1 |-> @[i + 1] - k],
                                  ![frame.c].offset = @ - k]
           /\ link' = Recved(frame.c, k)
    /\ UNCHANGED <<Pool, frame>>

(* An empty buffer ends the loop; the first byte starts a request.         *)
StartRequest ==
    /\ At("unlink")
    /\ LET x == ctx[frame.c]
       IN  /\ ~PbufCopied(x)
           /\ IF x.state = IDLE /\ x.rx # << >>
              THEN ctx' = [ctx EXCEPT ![frame.c].state = HEADER_RECEIVING,
                                      ![frame.c].recvAge = 0, ![frame.c].sendAge = NoTime]
              ELSE UNCHANGED ctx
           /\ frame' = [frame EXCEPT !.parsed = FALSE,
                            !.pc = IF x.rx = << >> THEN "end"
                                   ELSE IF x.state \in {IDLE, HEADER_RECEIVING} THEN "lines"
                                   ELSE "body"]
    /\ UNCHANGED <<Pool, link>>

HasLine(s)  == \E i \in 1 .. Len(s) : s[i] = "eol"
FirstEol(s) == CHOOSE i \in 1 .. Len(s) : s[i] = "eol" /\ \A j \in 1 .. i - 1 : s[j] # "eol"

(* What one complete line does: the request line fixes method and handler, *)
(* a header line that is not known is ignored.                             *)
HeaderLine(x, t) ==
    CASE x.request = "none" ->
           [x EXCEPT !.request = t, !.handler = Requests[t].handler]
      [] x.request # "none" /\ t = "length" ->
           [x EXCEPT !.contentLength = BodyLen, !.contentReceived = 0]
      [] x.request # "none" /\ t = "keepalive" -> [x EXCEPT !.keepalive = TRUE]
      [] x.request # "none" /\ t = "close"     -> [x EXCEPT !.keepalive = FALSE]
      [] OTHER -> x

ParseLine ==
    /\ At("lines")
    /\ LET x == ctx[frame.c]
           i == FirstEol(x.rx)
           t == x.rx[1]
       IN  /\ HasLine(x.rx) /\ i > 1
           /\ IF x.request = "none" /\ t \notin DOMAIN Requests
              THEN /\ ctx' = [ctx EXCEPT ![frame.c].result = -500]
                   /\ UNCHANGED link
                   /\ Goto("end")
              ELSE /\ ctx'   = [ctx EXCEPT ![frame.c] =
                                  [HeaderLine(x, t) EXCEPT !.rx = DropFirst(@, i)]]
                   /\ link'  = Consumed(frame.c, i)
                   /\ frame' = [frame EXCEPT !.parsed = TRUE]
    /\ UNCHANGED Pool

(* The empty line ends the header and clears the response state.           *)
ParseEmptyLine ==
    /\ At("lines")
    /\ LET x == ctx[frame.c]
       IN  /\ HasLine(x.rx) /\ FirstEol(x.rx) = 1
           /\ ctx' = [ctx EXCEPT ![frame.c] =
                        [x EXCEPT !.state = HEADER_DONE, !.rx = DropFirst(@, 1),
                                  !.sending = FALSE, !.due = 0, !.stage = 0, !.bytesLeft = 0,
                                  !.result = IF x.request = "none" THEN -500 ELSE @]]
           /\ link' = Consumed(frame.c, 1)
           /\ Goto(IF x.request = "none" THEN "end" ELSE "headers")
    /\ UNCHANGED Pool

(* Variant: a full buffer is neither halved nor rejected.                  *)
LinesExhaustedForever ==
    /\ At("lines")
    /\ ~HasLine(ctx[frame.c].rx)
    /\ Goto(IF ctx[frame.c].queue # << >> THEN "loop" ELSE "end")
    /\ UNCHANGED <<Pool, link, ctx>>
(* Variant: the queue is left for the next callback.                       *)
LinesExhaustedOnce ==
    /\ At("lines")
    /\ ~HasLine(ctx[frame.c].rx)
    /\ Goto("end")
    /\ UNCHANGED <<Pool, link, ctx>>

(* No complete line is left.  A buffer full of one unfinished line loses   *)
(* its first half; a buffer that is still full aborts the request.         *)
LinesExhausted ==
    /\ At("lines")
    /\ LET x == ctx[frame.c]
           n == IF ~frame.parsed /\ Len(x.rx) >= MaxReqBuf THEN Len(x.rx) \div 2 ELSE 0
           y == [x EXCEPT !.rx = DropFirst(@, n)]
       IN  /\ ~HasLine(x.rx)
           /\ link' = Consumed(frame.c, n)
           /\ IF Len(y.rx) >= MaxReqBuf
              THEN ctx' = [ctx EXCEPT ![frame.c] = [y EXCEPT !.result = -500]] /\ Goto("end")
              ELSE /\ ctx' = [ctx EXCEPT ![frame.c] = y]
                   /\ Goto(IF x.queue # << >> THEN "loop" ELSE "end")
    /\ UNCHANGED Pool

(* The result after GetSession, the authorization check and                *)
(* CGI_HeadersReceived: session says whether the request has a session     *)
(* from its own address, started whether an upload could open its file.    *)
HeadersResult(x, session, started) ==
    LET r == Requests[x.request]
        enabled == IF r.method = "GET" THEN GetEnabled ELSE PostEnabled
    IN  CASE ~session /\ r.page /\ x.handler \in AuthRequired -> CODE_REDIRECT
          [] (session \/ ~r.page \/ x.handler \notin AuthRequired) /\ x.handler \in enabled ->
                IF x.handler = "upload" /\ ~started THEN -500 ELSE 0
          [] OTHER -> IF r.page /\ x.handler = "none" THEN CODE_REDIRECT
                      ELSE IF r.method = "GET" THEN -404 ELSE -500

AfterHeaders(session, started) ==
    /\ At("headers")
    /\ LET x == ctx[frame.c]
           result == HeadersResult(x, session, started)
           body == x.contentLength > 0
       IN  /\ ctx' = [ctx EXCEPT ![frame.c] =
                        [x EXCEPT !.result = result,
                                  !.state = IF result < 0 THEN SENDING_HEADER
                                            ELSE IF body THEN BODY_RECEIVING ELSE BODY_DONE,
                                  !.sendAge = IF body THEN @ ELSE 0]]
           /\ Goto(IF result < 0 THEN "response" ELSE IF body THEN "body" ELSE "done")
    /\ UNCHANGED <<Pool, link>>

(* How many tokens OnContentReceived may take: the login handler takes     *)
(* whatever is buffered, a form stops when a field fills its buffer, and   *)
(* the handlers without the callback take none.                            *)
ContentReceived(x) ==
    LET rest == Least(x.contentLength - x.contentReceived, Len(x.rx))
    IN  CASE x.handler = "auth"   -> {Len(x.rx)}
          [] x.handler = "form"   -> {0, rest}
          [] x.handler = "upload" -> {rest}
          [] OTHER -> {0}

ReceiveBody(n) ==
    /\ At("body")
    /\ LET x == ctx[frame.c]
           y == [x EXCEPT !.contentReceived = @ + n, !.rx = DropFirst(@, n),
                          !.recvAge = IF x.handler = "auth" THEN @ ELSE 0]
           complete == y.contentReceived >= x.contentLength
       IN  /\ n \in ContentReceived(x)
           /\ IF n = 0
              THEN UNCHANGED ctx /\ Goto("end")
              ELSE /\ ctx' = [ctx EXCEPT ![frame.c] =
                                IF complete THEN [y EXCEPT !.state = BODY_DONE, !.sendAge = 0]
                                ELSE y]
                   /\ Goto(IF complete THEN "done"
                           ELSE IF x.queue # << >> THEN "loop" ELSE "end")
           /\ link' = Consumed(frame.c, n)
    /\ UNCHANGED Pool

(* CGI_RequestReceived: the handler decides on the result.                 *)
RequestReceived(result) ==
    /\ At("done")
    /\ result \in Requests[ctx[frame.c].request].res
    /\ ctx' = [ctx EXCEPT ![frame.c].result = result]
    /\ Goto("response")
    /\ UNCHANGED <<Pool, link>>

-----------------------------------------------------------------------------
(* HttpResponseProc(context, caller) and CGI_LoadContentToSend.            *)

Sndbuf(c)     == IF pcb[c] = NoPcb THEN 0 ELSE SndBuf - link[pcb[c]].unacked
(* Variant: altcp_sndbuf is not consulted.                                 *)
ToWriteAll(c, x) == x.bytesLeft

ToWrite(c, x) == Least(x.bytesLeft, Sndbuf(c))

(* sendBuffered: one altcp_write of what the send buffer of TCP can take.  *)
(* It may fail only if there is something to write.                        *)
Written(c, x) ==
    LET n == ToWrite(c, x)
    IN  [x EXCEPT !.bytesLeft = @ - n, !.due = @ + n, !.sendAge = IF n > 0 THEN 0 ELSE @]
InFlight(c, x) ==
    LET n == ToWrite(c, x)
    IN  IF n = 0 THEN link ELSE [link EXCEPT ![pcb[c]].unacked = @ + n]
sendBuffered(c, x, ok, label) ==
    \/ /\ ok
       /\ ctx'  = [ctx EXCEPT ![c] = Written(c, x)]
       /\ link' = InFlight(c, x)
       /\ Goto(label)
    \/ /\ ~ok /\ ToWrite(c, x) > 0
       /\ ctx'   = [ctx EXCEPT ![c] = [x EXCEPT !.state = REQUEST_END, !.result = -500]]
       /\ frame' = [frame EXCEPT !.pc = "end", !.failed = TRUE]
       /\ UNCHANGED link

HasRemaining(c) ==
    /\ ctx[c].bytesLeft > 0
    /\ ctx[c].stage = STAGE_END \/ ctx[c].bytesLeft >= Sndbuf(c)

SendRemaining(ok) ==
    /\ At("response") /\ HasRemaining(frame.c)
    /\ sendBuffered(frame.c, ctx[frame.c], ok, "end")
    /\ UNCHANGED Pool

SendHeader(ok) ==
    /\ At("response") /\ ~HasRemaining(frame.c) /\ ~ctx[frame.c].sending
    /\ LET x == ctx[frame.c]
       IN  sendBuffered(frame.c,
               [x EXCEPT !.stage = 0, !.sendAge = 0, !.bytesLeft = HeaderLen,
                         !.sending = ok,
                         !.state = IF x.result = CODE_REDIRECT THEN SENDING_BODY
                                   ELSE SENDING_HEADER],
               ok, "content")
    /\ UNCHANGED Pool

(* Some acknowledgement arrived: take it for the header's.                 *)
HeaderSent ==
    /\ At("response") /\ ~HasRemaining(frame.c) /\ ctx[frame.c].sending
    /\ LET x == ctx[frame.c]
       IN  IF x.state = SENDING_HEADER /\ frame.caller = "sent"
           THEN ctx' = [ctx EXCEPT ![frame.c].state =
                          IF x.result < 0 THEN REQUEST_END ELSE SENDING_BODY]
           ELSE UNCHANGED ctx
    /\ Goto("content")
    /\ UNCHANGED <<Pool, link>>

(* What ReadContent may return: n blocks (-1: no more), the next stage and *)
(* the result (-500 when WEB_fread fails).                                 *)
ReadContent(x) ==
    LET next == {STAGE_END} \cup (IF x.stage < MaxBlocks THEN {x.stage + 1} ELSE {})
        Out(ns, ss) == [n : ns, stage : ss, result : {x.result}]
        dry == x.bytesLeft > 0    \* the header's rest leaves no room
    IN  CASE x.handler \in UsesWebRead /\ x.result = CODE_REDIRECT -> Out({-1}, {STAGE_END})
          [] x.handler \in UsesWebRead /\ x.result # CODE_REDIRECT ->
                Out({-1}, {STAGE_END}) \cup Out({0, 1}, next)
                    \cup {[n |-> 0, stage |-> x.stage, result |-> -500]}
          [] x.handler = "files" -> Out({1}, next) \cup (IF dry THEN Out({-1}, {x.stage}) ELSE {})
          [] x.handler = "ssdp"  -> Out({1}, next) \cup (IF dry THEN Out({0}, {x.stage}) ELSE {})
          [] OTHER -> {}

(* Nothing to load: not in the body, the last block is on its way, all is  *)
(* acknowledged, or the handler has no content.                            *)
AllSent(x) == x.stage = STAGE_END /\ frame.caller = "sent" /\ x.due <= 0
NoContent ==
    /\ At("content")
    /\ LET x == ctx[frame.c]
       IN  /\ x.state # SENDING_BODY \/ x.stage = STAGE_END \/ x.handler \notin HasReadContent
           /\ IF x.state = SENDING_BODY /\ (AllSent(x) \/ x.handler \notin HasReadContent)
              THEN ctx' = [ctx EXCEPT ![frame.c].state = REQUEST_END]
              ELSE UNCHANGED ctx
    /\ Goto("end")
    /\ UNCHANGED <<Pool, link>>

LoadContent(out, ok) ==
    /\ At("content")
    /\ LET x == ctx[frame.c]
           y == [x EXCEPT !.stage = out.stage, !.result = out.result]
       IN  /\ x.state = SENDING_BODY /\ x.stage # STAGE_END /\ x.handler \in HasReadContent
           /\ out \in ReadContent(x)
           /\ IF out.n > 0
              THEN sendBuffered(frame.c, [y EXCEPT !.bytesLeft = @ + out.n], ok, "end")
              ELSE /\ ok
                   /\ ctx' = [ctx EXCEPT ![frame.c] =
                                IF out.n < 0 THEN [y EXCEPT !.state = REQUEST_END] ELSE y]
                   /\ Goto("end")
                   /\ UNCHANGED link
    /\ UNCHANGED Pool

-----------------------------------------------------------------------------
(* The end of HttpRequestProc and of the callback that called it.          *)

CloseAfterRequest(closed) ==
    /\ At("end") /\ ctx[frame.c].state = REQUEST_END
    /\ ctx[frame.c].peerClosing \/ ~ctx[frame.c].keepalive
    /\ CloseHttpContext(frame.c, link, closed)
    /\ Goto("cancel")

(* Variant: the FIN that came during the request is not looked at.         *)
KeepClosedPeer ==
    /\ At("end") /\ ctx[frame.c].state = REQUEST_END /\ ctx[frame.c].keepalive
    /\ ctx' = [ctx EXCEPT ![frame.c] = ResetHttpContext(@)]
    /\ Goto("cancel")
    /\ UNCHANGED <<Pool, link>>

KeepAfterRequest ==
    /\ At("end") /\ ctx[frame.c].state = REQUEST_END
    /\ ~ctx[frame.c].peerClosing /\ ctx[frame.c].keepalive
    /\ ctx' = [ctx EXCEPT ![frame.c] = ResetHttpContext(@)]
    /\ Goto("cancel")
    /\ UNCHANGED <<Pool, link>>

(* Variant: an incomplete request of a peer that closed is kept.           *)
LeaveRequestOpen ==
    /\ At("end") /\ ctx[frame.c].state # REQUEST_END
    /\ Goto("cancel")
    /\ UNCHANGED <<Pool, link, ctx>>

(* The request or the response is not finished yet.                        *)
LeaveRequest ==
    /\ At("end") /\ ctx[frame.c].state # REQUEST_END
    /\ ctx' = IF ctx[frame.c].state < BODY_DONE /\ ctx[frame.c].peerClosing
              THEN [ctx EXCEPT ![frame.c].result = -500] ELSE ctx
    /\ Goto("cancel")
    /\ UNCHANGED <<Pool, link>>

(* CGI_Cancel, with the threshold of each callback.                        *)
CancelIfFailed ==
    /\ At("cancel")
    /\ frame' = [frame EXCEPT !.pc = "close", !.cancelled =
                   IF frame.caller = "recv" THEN ctx[frame.c].result <= -400
                   ELSE ctx[frame.c].result < 0]
    /\ UNCHANGED <<Pool, link, ctx>>

CloseIfAborted(closed) ==
    /\ At("close") /\ ctx[frame.c].result <= -500
    /\ CloseHttpContext(frame.c, link, closed)
    /\ frame' = NoFrame

Return ==
    /\ At("close") /\ ctx[frame.c].result > -500
    /\ frame' = NoFrame
    /\ UNCHANGED <<Pool, link, ctx>>

-----------------------------------------------------------------------------
(* The events that the stack, the peers, the clock and main() cause.       *)
Event ==
    \/ \E p \in Pcbs, a \in Addrs : OnHttpAccept(p, a)
    \/ \E p \in Pcbs, w \in Payloads : OnHttpReceive(p, w)
    \/ \E p \in Pcbs : OnPeerClose(p)
    \/ \E p \in Pcbs, closed \in BOOLEAN : OnPeerCloseIdle(p, closed)
    \/ \E p \in Pcbs : OnHttpPoll(p)
    \/ \E p \in Pcbs, closed \in BOOLEAN : OnHttpPollTimeout(p, closed)
    \/ \E p \in Pcbs : OnHttpPollDetached(p)
    \/ \E p \in Pcbs, n \in 1 .. SndBuf : OnHttpSent(p, n)
    \/ \E p \in Pcbs : OnHttpError(p)
    \/ HttpdStop
    \/ HttpdInit
    \/ Tick

(* The next step of the running callback.                                  *)
Step ==
    \/ LoopHead
    \/ UnlinkPbuf
    \/ StartRequest
    \/ ParseLine
    \/ ParseEmptyLine
    \/ LinesExhausted
    \/ \E session, started \in BOOLEAN : AfterHeaders(session, started)
    \/ \E n \in 0 .. MaxReqBuf : ReceiveBody(n)
    \/ \E result \in Results : RequestReceived(result)
    \/ \E ok \in BOOLEAN : SendRemaining(ok)
    \/ \E ok \in BOOLEAN : SendHeader(ok)
    \/ HeaderSent
    \/ NoContent
    \/ \E out \in [n : -1 .. 1, stage : Stages, result : Results],
          ok \in BOOLEAN : LoadContent(out, ok)
    \/ \E closed \in BOOLEAN : CloseAfterRequest(closed)
    \/ KeepAfterRequest
    \/ LeaveRequest
    \/ CancelIfFailed
    \/ \E closed \in BOOLEAN : CloseIfAborted(closed)
    \/ Return

Next == Event \/ Step

Spec == Init /\ [][Next]_vars

-----------------------------------------------------------------------------
(* Properties.                                                             *)

(* Every variable stays within its declared range.                         *)
TypeOK ==
    /\ open \in [Pcbs -> BOOLEAN] /\ polling \in [Pcbs -> BOOLEAN]
    /\ arg \in [Pcbs -> Ctx \cup {NoCtx}]
    /\ link \in [Pcbs -> Link]
    /\ listening \in BOOLEAN /\ restarts \in 0 .. MaxRestarts
    /\ pcb \in [Ctx -> Pcbs \cup {NoPcb}]
    /\ ctx \in [Ctx -> Context]
    /\ frame \in Frame \cup {NoFrame}

(* A connection's callback argument and the context's _pcb name each other *)
(* (OnHttpAccept, CloseHttpContext, OnHttpError), a pcb that is gone is    *)
(* named by no context, and an open pcb without a context still has        *)
(* OnHttpPoll to finish it.  Stated for the time before main() restarts    *)
(* the server for the first time.                                          *)
Ownership ==
    restarts = 0 =>
        /\ \A p \in Pcbs : arg[p] # NoCtx => open[p] /\ pcb[arg[p]] = p
        /\ \A c \in Ctx : pcb[c] # NoPcb => arg[pcb[c]] = c
        /\ \A p \in Pcbs : open[p] => polling[p]

(* A context that no connection uses holds no pbufs, no buffered input, no *)
(* handler and no response: the next OnHttpAccept starts from nothing, and *)
(* no callback ends with a half-freed context.                             *)
FreeContextClean ==
    \A c \in Ctx : pcb[c] = NoPcb /\ (\A p \in Pcbs : arg[p] # c) =>
        /\ ctx[c].queue = << >> /\ ctx[c].rx = << >> /\ ctx[c].offset = 0
        /\ ctx[c].state = IDLE /\ ctx[c].handler = "none" /\ ctx[c].result = 0
        /\ ctx[c].bytesLeft = 0 /\ ~ctx[c].keepalive

(* The receive window is given back exactly for the pbufs that left the    *)
(* queue (altcp_recved in OnHttpReceive and HttpRequestProc): what TCP     *)
(* waits for is what the queue holds.                                      *)
WindowConserved ==
    restarts = 0 =>
        \A c \in Ctx : pcb[c] # NoPcb => link[pcb[c]].unread = Len(ctx[c].queue)

(* What has arrived and is not parsed: buffer and uncopied rest of queue.  *)
Pending(x) == x.rx \o DropFirst(x.queue, x.offset)

(* The request buffer followed by the uncopied rest of the queue is what   *)
(* the peer sent and the parser has not consumed: no byte is lost, doubled *)
(* or reordered by the copy, enqueue and dequeue paths.                    *)
StreamOrder ==
    restarts = 0 =>
        \A c \in Ctx : pcb[c] # NoPcb => link[pcb[c]].stream = Pending(ctx[c])

(* http_request_buffer is never filled beyond MAX_REQ_BUF_SIZE.            *)
BufferBound == \A c \in Ctx : Len(ctx[c].rx) <= MaxReqBuf

(* No address ever owns more than MAX_CONN_PER_IP contexts.                *)
PerIpLimit ==
    MaxConnPerIp > 0 =>
        \A a \in Addrs :
            Cardinality({c \in Ctx : pcb[c] # NoPcb /\ ctx[c].ip = a}) <= MaxConnPerIp

(* Once the last block is produced there is a handler whose OnAllSent      *)
(* CGI_LoadContentToSend may look at.                                      *)
StageHasHandler ==
    \A c \in Ctx : ctx[c].stage = STAGE_END => ctx[c].handler \in HasReadContent

(* Between callbacks a connected context is in a state that waits for an   *)
(* event, its abort has been carried out, the timer that guards the state  *)
(* runs, and a request whose peer has closed is only kept to be answered.  *)
Waiting(x) ==
    /\ x.state \in {IDLE, HEADER_RECEIVING, BODY_RECEIVING, SENDING_HEADER, SENDING_BODY}
    /\ x.result > -500
    /\ x.state < BODY_DONE => x.result = 0 /\ x.recvAge # NoTime /\ ~x.peerClosing
    /\ x.state > BODY_DONE => x.result # 0 /\ x.sendAge # NoTime /\ x.sending
BetweenCallbacks ==
    restarts = 0 /\ frame = NoFrame => \A c \in Ctx : pcb[c] # NoPcb => Waiting(ctx[c])

(* A header that is being received waits for data only: no complete line   *)
(* and no queued pbuf is left unexamined when the callback returns.        *)
InputExamined ==
    frame = NoFrame =>
        \A c \in Ctx : ctx[c].state = HEADER_RECEIVING =>
                          ctx[c].queue = << >> /\ ~HasLine(ctx[c].rx)

(* A response ends with "All response sent" (http_core.c:1597), that is    *)
(* without a failed write, only when the send buffer is empty.             *)
AllResponseSent ==
    [][frame # NoFrame /\ frame.pc = "end" /\ frame'.pc = "cancel" =>
         LET x == ctx[frame.c]
         IN  x.state = REQUEST_END /\ ~frame.failed => x.bytesLeft = 0]_vars

(* What the peers see.  Until main() restarts the server for the first     *)
(* time, a connection with a context is in the phase of its state; one     *)
(* without a context only waits for OnHttpPoll to close it.                *)
Phase(state) ==
    CASE state = IDLE -> "idle"
      [] state = HEADER_RECEIVING -> "header"
      [] state \in {HEADER_DONE, BODY_RECEIVING, BODY_DONE} -> "body"
      [] OTHER -> "response"

ShownAs(x) ==
    [phase |-> Phase(x.state), addr |-> x.ip, input |-> Pending(x), fin |-> x.peerClosing]
Unserved(phase) == [phase |-> phase, addr |-> NoPcb, input |-> << >>, fin |-> FALSE]

Shown ==
    [p \in Pcbs |-> IF restarts > 0 \/ ~open[p] THEN Unserved("none")
                    ELSE IF arg[p] = NoCtx THEN Unserved("closing")
                    ELSE ShownAs(ctx[arg[p]])]

Server == INSTANCE Connections WITH
              conn <- Shown, Arrivals <- Payloads, NoAddr <- NoPcb

(* Each connection is served by itself, one request after the other, as    *)
(* module Connections has it: no step reads a request while another one is *)
(* answered, passes over the end of a line, begins a request of a peer     *)
(* that has closed, exceeds a limit, or touches two connections.           *)
ServesConnections == Server!Spec

(* Ownership, with restarts of the server: HttpdStop leaves no connection  *)
(* behind whose callbacks would act on a freed or reused context.          *)
OwnershipAcrossRestart ==
    \A p \in Pcbs : arg[p] # NoCtx => open[p] /\ pcb[arg[p]] = p

-----------------------------------------------------------------------------
(* Liveness.  A running callback runs on; lwIP's slow timer, driven by     *)
(* poll_network() in every round of the main loop, polls every connection  *)
(* again and again; SysTick advances the clock.                            *)
PollTimer(p) ==
    \/ OnHttpPoll(p)
    \/ \E closed \in BOOLEAN : OnHttpPollTimeout(p, closed)
    \/ OnHttpPollDetached(p)
Fairness == WF_vars(Step) /\ SF_vars(Tick) /\ \A p \in Pcbs : SF_vars(PollTimer(p))

LiveSpec == Spec /\ Fairness

(* The parsing loop of HttpRequestProc ends, whatever is in the queue: no  *)
(* callback keeps the only thread of the system.                           *)
CallbackReturns == frame # NoFrame ~> frame = NoFrame

(* A connection whose peer falls silent, in any state of a request or a    *)
(* response, is given up by the timeouts and its pcb is closed, the retry  *)
(* of a failed altcp_close included.                                       *)
EveryConnectionEnds == \A p \in Pcbs : open[p] ~> ~open[p] \/ restarts > 0
=============================================================================
