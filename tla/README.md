# A TLA+ development of LambdaIOT

LambdaIOT is the firmware of a small device (NXP LPC4078, no operating system)
that serves web pages, forms, file listings and uploads over lwIP. This
directory models the parts of it that carry its own logic: the HTTP server, the
files and pages it serves, its login sessions, the settings of the device with the
loop of `main()` around them, and the Ethernet driver under the stack. TLC checks the
models on small instances; TLAPS proves the main safety properties for every value of
the constants.

Paths below are relative to `src/LambdaIOT/`. The build modelled is the one the
sources select: `ENABLE_HTTPS` 0 (`lwip-port/lpc407x/lwipopts.h:6`),
`LOCAL_FILE_SYSTEM` undefined, `FAKE_FS` 1, `DATE_HEADER` 1, `MAX_CONNECTIONS` 4,
`MAX_REQ_BUF_SIZE` 128, `MAX_SEND_BUF_SIZE` 256, `MAX_SESSIONS` 5, `MAX_FILES` 32.

## 1. The system and its parts

Everything the program does runs on one thread: `main()` calls `poll_network()` in
a loop, which reads frames from the Ethernet controller and runs lwIP's timers;
lwIP calls back into the HTTP server; the server calls the handler of the request.
No callback is ever interrupted by another one. What runs concurrently with the
program is the DMA of the Ethernet controller, the SysTick interrupt (a counter),
and everybody at the other end of a connection. The hard behaviours are therefore
not data races but *sequences*: what may happen between two callbacks of the same
request, and what other requests do in between to state they share.

| Part | State | Operations | Hard behaviour | What must hold |
|---|---|---|---|---|
| HTTP core, `httpd/http_core.c` | pool of 4 contexts, each with its connection, parser state, request buffer, pbuf queue, send buffer, timers | accept, receive, sent, poll, error callbacks; `HttpRequestProc`, `HttpResponseProc`; stop and start of the server | FIN, reset, timeout, failing `altcp_write` and `altcp_close` in every state; pipelining; a request cut into pbufs anywhere; requests longer than the buffer | contexts and connections name each other; no byte of the stream is lost, doubled or reordered; the TCP window is given back exactly; every callback returns; every silent connection ends |
| CGI dispatch, `httpd/http_cgi.c` | handler and options of the request | routing, option checks, loading content, end of response, cancel | reads context state that the core may have reset | a response ends when it is sent; a handler is told when it is not |
| Files and handlers, `httpd/http_fs.c`, `http_web.c`, `cgi/cgi_files.c`, `cgi/cgi_upload.c` | table of 32 open files; per request one or two handles to it | open, read, close of pages, listings and uploads | handles outlive slots, early returns, two owners of one slot | a handle in use belongs to its context; every slot is given back |
| Ethernet driver, `drivers/source/lpc_emac.c`, `lwip-port/.../ethernetif.c` | two descriptor rings, each with a produce and a consume index | DMA stores and sends frames, the program polls and sends | two unlocked parties; full and empty rings; damaged frames | the rings are queues; the receiver never stops |
| Sessions, `httpd/http_session.c`, `cgi/cgi_auth.c` | 5 sessions (token, address, two times); a session pointer in each context | login, cookie check, logout, timeout, clear | dangling pointers from contexts, timeouts, tokens made from the clock | a session serves the user who opened it and expires |
| Main loop, `app/main.c`, `lwip-port/.../lwip_api.c` | address ready or not, listening connections | wait for an address, start, serve, stop | the address is reported at every DHCP bind and renewal, and withdrawn by a change of the configuration, at any time | the service comes back; nothing survives a restart that should not |
| Device configuration, `lwip-port/.../port_device.c` | working copy and one shared editing copy | load, set fields, apply | several browsers edit one copy | an applied configuration is one that a user entered |
| SSI, `http_web.c`, `cgi/cgi_ssi.c` | position in the page, cache of a cut tag | scan, replace | tags cut by block ends | output equals the page with its tags replaced |
| Discovery, `httpd/ssdp.c` | one pending answer, advertisement timer | search, answer, advertise, stop | timers across stop and start | one answer per search; silence after stop |

How they interact: the main loop drives the driver and lwIP; lwIP calls the core;
the core calls the dispatch layer, which calls a handler; page, listing and upload
handlers share the table of open files; the core asks the sessions whether a request
is authorized; a form changes the device configuration, which may make the main loop
restart everything. The other parts (logging, text utilities, PHY, board support,
boot, vendor drivers, the vendored lwIP and mbedTLS, the generated web root) carry
no protocol of their own; `PROJECT.json` lists them with the reason they are left
out.

## 2. Modules

| Module | What it is |
|---|---|
| `HttpCore` | the HTTP core with the dispatch layer |
| `MCHttpCore` | payloads and symmetry for TLC; five configurations |
| `Connections` | abstract: connections that are each served by themselves, one request after the other |
| `HttpCoreProofs` | lemmas about one context (buffers, queue boundaries, field updates); the invariant of the pool, the queues and the windows of `HttpCore`, and the theorems that follow |
| `HttpRequestProofs` | the invariant of the request and response state machine of `HttpCore`, and the theorems that follow |
| `HttpConnectionProofs` | the refinement of `Connections` by `HttpCore` |
| `WebFiles` | the table of open files and the handlers that use it |
| `MCWebFiles` | instance for TLC; three configurations |
| `WebFilesProofs` | the inductive invariant of `WebFiles` and its theorems |
| `Sessions` | the login sessions, what contexts keep of them, and the check of the main loop |
| `MCSessions` | instance for TLC; one configuration |
| `SessionsProofs` | the inductive invariant of `Sessions` and its theorems |
| `Device` | the settings, the form that edits them, DHCP, and `main()` |
| `DeviceProofs` | the inductive invariant of `Device` and its theorems |
| `FormPage` | the page that answers a form, composed with `Device` |
| `MCFormPage` | pages and tags for TLC; one configuration, for both modules |
| `FormPageProofs` | that a page is rendered as its file says, keeps to its room and is terminated, and what it leaves of `Device` |
| `FrameQueue` | abstract: a bounded FIFO that may lose or discard frames |
| `Emac` | the descriptor rings and the DMA |
| `MCEmac` | instance for TLC; two configurations |
| `EmacProofs` | the refinement of `FrameQueue` and the theorems on the transmit ring |

In every module an operator whose comment begins with "Variant:" is a plausible
slip in the operator below it (a dropped guard, a missing reset, an off-by-one).
Nothing refers to it; it documents which mistake the properties would notice, and
`PROJECT.json` lists it as a mutant with the property that it violates.

### 2.1 HttpCore

*State.* `pcb` and `ctx` are `g_httpContext`; `open`, `arg`, `polling` and `link`
are what lwIP keeps per connection: whether the pcb is alive, its callback argument,
whether `OnHttpPoll` is registered, and what TCP still owes (unacknowledged blocks,
window not given back). `link.stream` is a history variable: what has been delivered
and not consumed by the parser. `frame` is the activation record of the callback that
is running: `HttpRequestProc` is a loop, each pass of which is a few steps, and while
`frame` is not `NoFrame` no event can happen. That is the whole scheduling of a
program with one thread.

*Events.* One action per callback of `http_core.c` and reason to call it:
`OnHttpAccept`, `OnHttpReceive` (data), `OnPeerClose` and `OnPeerCloseIdle` (FIN, the
latter closes at once), `OnHttpPoll`, `OnHttpPollTimeout`, `OnHttpPollDetached` (the
retry of a close that failed), `OnHttpSent`, `OnHttpError`; `HttpdStop` and `HttpdInit`
of `main()`; and `Tick`. Whatever the environment decides (when an acknowledgement
comes and how much it covers, whether `altcp_write` or `altcp_close` fails, whether the
request has a session, what a handler answers) is nondeterministic.

*Steps.* `LoopHead`, `UnlinkPbuf`, `StartRequest`, `ParseLine`, `ParseEmptyLine`,
`LinesExhausted`, `AfterHeaders`, `ReceiveBody` and `RequestReceived` are the receiving
half of `HttpRequestProc`; `SendRemaining`, `SendHeader`, `HeaderSent`, `NoContent` and
`LoadContent` are `HttpResponseProc` with `CGI_LoadContentToSend`;
`CloseAfterRequest`, `KeepAfterRequest`, `LeaveRequest`, `CancelIfFailed`,
`CloseIfAborted` and `Return` are the end of `HttpRequestProc` and of its caller.

*Data.* Bytes are tokens. A request line is one token (a field of `Requests`: method,
handler, whether the extension needs a session, possible results) and an `eol`; a
header line is `keepalive`, `close` or `length`; any other byte is `x`. The buffer and
the pbuf queue are sequences of tokens, so every way of cutting a request into pbufs is
a way of cutting a sequence. Response data is counted in blocks.

*What it implements.* `Connections` is what a peer may rely on. A connection has a phase
(none, idle, header, body, response, closing), an input that has not been read, and
whether the peer has closed its side. It promises that the header is read line by line, the
empty line ends it, nothing is read while a request is answered, the next request begins
behind the answer with what has arrived in the meantime, none begins for a peer that
has closed, no step touches two connections, and the limits are kept when one is accepted.
`HttpCore` is shown to implement it under the mapping `conn <- Shown`: a connection
with a context has the phase of the context's state (`Phase`) and the input of its buffer and
queue (`Pending`); one without a context is closing. `Connections` abstracts from contexts,
callbacks, timers, windows, the cut into pbufs and where data is kept, and it allows a
connection to end at any time, because the timeouts and the stack may end it. After the first
restart it promises nothing (section 5), and the mapping shows no connections.

### 2.2 WebFiles

The contexts again, but only what a callback does to `g_FileOpened`: one action is one
callback (or one block or entry of one), and between two of them the callbacks of every
other context may run. A slot has the file it is open on, its read position and, as a
history variable, the context that opened it. A context may hold a slot twice: in
`fp` (inside the response memory that every reset clears) and in `fileHandle` (which
resets and frees close). `struck` is a history variable: some callback has closed, moved
or read a slot that another context had opened. The upload does that in the code (see
section 5), so the safety properties are stated until it happens: as long as no stale handle
has struck, no sequence of callbacks breaks them. A page request with or without authorization opens its file, and every early return
is an alternative of `WEB_RequestReceived`.

### 2.3 Emac and FrameQueue

`Emac` has one action per access of the program (`ethernetif_input` with
`EMAC_ReceivePBuf`, `low_level_output` with `EMAC_SendPBuf`) and three for the DMA, which
may act between any two of them, interrupts disabled or not: `HwReceive`, `HwFetch`,
`HwSent`. A frame is its number. Index arithmetic is the code's: compare and reset, no
division. The controller does not overwrite a descriptor that has not been consumed.
A buffer that the program writes while the DMA reads it is sent as `Torn`.
`FrameQueue` is what the receiver promises; `Emac` is shown to implement it under the
mapping `queue <- RxQueue`, the slots from the consume to the produce index.

### 2.4 Sessions

`sessions` is `g_httpSessions`; a slot whose token is 0 is empty. A context keeps
`session`, the slot its last request named: no reset, free or accept clears the pointer
(`http_core.c:259`, `:359`), while timeouts, logouts and logins of others empty and
refill the slot. A browser is what it remembers: the `cookie` it sends, and as history
whether that login is still good (`active`) and its last use. `coming` is the cookies of
accepted logins that have not reached their browser.

One action is one callback, or one step of `main()`. Those of requests say what has come
when the callback returns: `RequestLineReceived` and `PartReceived`, data that ends before
the headers do, or inside a body; `PageReceived`, `LogoutReceived`, `LoginHeaders`,
`LoginRefused`, `LoginAccepted`. Each of them has a `caller`. `HttpRequestProc` is called by
three callbacks, which differ in what they do to the session: `OnHttpReceive` notes behind it
that the session of the context was received for (`http_core.c:652`), unless it has closed
the connection (`fail`); `OnHttpSent` notes before it that the session of the *last*
request was sent for (`:731`); `OnHttpPoll` does neither (`:683`-`:699`). Data is there for
the latter two only if it has come behind the last request, in the phase `queued`
(`HasData`): a response that ends leaves the context `idle`, `queued` or closed, and so may
a request whose response has ended when the callback returns. `Before` and `After` are these
differences. `OnHttpSent` is an acknowledgement during a response, `OnHttpSentLate` one behind
it, `ResponseEnds` a poll that ends it, `ConnectionLost` whatever ends a connection;
`CookieReceived` is the answer to a login arriving; `Poll`, an iteration of the main loop
that checks the sessions; `Tick`; `Start` and `Stop` of the service.

Which slot a request finds is decided by the token alone; the address is compared
afterwards (`http_core.c:1250`). The token of a session is the tick count of its login,
so two logins in one tick share a token; `clash` records it, and the properties are
stated up to there. A tick is the time between two checks of the main loop
(100 ms) in one respect, and the resolution of the times in the other.

A login is *used* when `OnHttpReceive` parses a page that comes with its cookie, and when
`OnHttpSent` is called for such a page while it is being sent. A page that another callback
has parsed is not yet a use: the code does not note it before the first acknowledgement, and
the check of the main loop may come in between (section 5). Three simplifications: the
browser forgets the cookie when its logout is parsed, not when the answer comes; of the
cookies that a browser had before, it sends again those that still name a session (the
others are as none); and what is on its way to a browser when the service stops is lost.

### 2.5 Device

`work` and `temp` are `g_WorkConfig` and `g_TempConfig` of `port_device.c`. There is one
copy for editing, for all connections: `FormGet` loads it; `FormPost` does *not*;
`FormReceived` is a call of `WEB_OnFormReceived` that completes some fields of the body, and
sets them; `FormEnd` is the call at the end of the body, which sets the fields that are left,
the last of them without a separator, and applies the copy. A call that completes no field
only fills the buffer, and is a stutter.

Fields are parsed in place, and a setter is given the text up to the first zero
(`http_web.c:26`-`:67`). That is the value, if the separator behind it was turned into
the zero; it is more than the value in two cases. `URLDecode` shortens what it decodes and
leaves its last bytes where they were (`utils.c:302`): the fields in `escaped`. And the last
field ends where the received bytes end, which is a zero only if nothing was ever stored
there: `parsed` says that earlier calls have set fields, whose bytes are still in the buffer
behind the unfinished one (`TailAtEnd`). What the setter makes of more than the value is one
of the texts in `Behind` (the value itself is always one of them: the bytes may be
overwritten, or be too many for the setting); for DHCP, 0 may become 1, and 1 stays 1
(`Unsure`); addresses are not read at all. So a form whose last field is an address, like the
one in `webroot` while DHCP is off, or `DEV_DHCP=1`, like the same form while it is on, does
not suffer from the second case.

The settings are `dhcp`, the address, and `text`, which stands for all that are only shown.
`Bind` is a bind or renewal of lwIP's DHCP client, `Start` and `Stop` are the two loops of
`main()`. Two history variables of each form: `want`, what the settings should be when it is
applied, as long as no other connection has touched the copy, and `tail`, the fields of
which the value was last read with bytes behind it that may change it. `AppliedAsPosted` says
of every undisturbed form that nothing else can go wrong with it: what it applies is what it
posted, but for the fields in `tail`, which become what the setter makes of the value and
the bytes behind it.

### 2.6 FormPage

`FormPage` adds to `Device` the page that one connection is sent as the answer, as
`WEB_ReadContent` makes it: a call fills a cache from the file (`Fill`), copies characters
(`CopyChar`), recognises the start of a tag and returns (`TagFound`), collects its name
(`NameChar`) and replaces it by the running setting (`TagReplaced`). A call ends when the
room for the chunk is full, at a tag, or at the end of the file; then `CGI_LoadContentToSend`
frames what it has produced, and between two calls anything of `Device` may happen.
The file is a sequence of characters and the marks of a tag are sequences of characters,
because the property is about where the cache cuts them.

## 3. Runs

| Run | Question | Instance and why it is enough |
|---|---|---|
| `request` | does the request machine ever lose its place, its input, its buffer accounting or its connection? does it serve its peers as `Connections` has it? | 1 context, 2 connections, 3 pbufs out of 5 payloads, buffer of 4 tokens, window 10, send buffer 3, header 2 blocks, body of 2 tokens. The payloads make pipelined, split, oversized, unroutable and incomplete requests; the buffer is shorter than a request, so queueing, partial copies and halving all happen; the header plus content exceeds the send buffer, so leftovers happen; a second connection reuses the context |
| `pool` | do contexts and connections stay paired when slots are taken over, with a limit per address? | 2 contexts, 3 connections, 2 addresses, limit 1: full pool, refused addresses, failing closes and re-accepts, also as `Connections` has them |
| `live` | does every callback return and every connection end? is a context clean after any end, a restart included? | 1 connection, oversized lines, one restart |
| `restart` | (violated) is ownership kept across a restart? | 2 connections, 1 restart |
| `lost` | (violated) is "All response sent" only reached when it is? | header of 2 blocks, send buffer of 2 |
| `files` | is a handle in use ever closed, moved or taken by someone else? which slots stay open? | 3 contexts for 2 slots, so that the table is exhausted while others hold it; pages of 1 and 2 blocks (end in the first block, and not), a listing of 2 entries |
| `leak` | (violated) is every slot given back? | 2 contexts, 2 slots |
| `stale` | (violated) does no callback touch another's slot? | 2 contexts, 2 slots |
| `sessions` | does a session serve the browser that opened it, as long as it is used and no longer? | 2 browsers, 3 ticks, `Timeout` 1, 2 logins, behaviours up to a shared tick: a session of the first tick expires in the third, its slot is taken by the second login, and contexts still point at it. 2 contexts and 2 slots, of which either one context alone serves requests that come one by one (`OneContext`: two logins at once, a slot that empties in front of another), or only the first slot is used and one context at a time is inside a request (`OneSlot`: pipelined requests, two connections that share a slot or keep a stale pointer at it). 322,709 states |
| `form` | is a form applied as it was posted? is the page that answers it the file with its tags replaced? does the service come back? | 2 connections, 2 texts (one empty, one longer than the smaller room, which may also come out of the empty one with bytes behind it), 1 lease, 1 field in a call, so that every body of several fields comes in several calls; cache of 4 characters, rooms of 4 and 7, margin 1, and 3 pages with marks of two characters at the beginning, next to each other, behind their own first characters and in the last characters: the cache cuts a mark at every position, a value fits a room or does not. 545,397 states |
| `rings` | are the rings queues, whatever the DMA does when? | rings of 3 (2 usable), 5 frames: both indices wrap, both rings fill, the transmit ring is lapped |
| `wedge` | (violated) does every intact frame leave the ring? | the same |

Deadlock is checked in the `HttpCore` and `WebFiles` runs (some event is always
possible). The `Emac` runs stop when all frames of the bound have been handled. `sessions`
stops at a clash (`SpecToClash`: nothing is claimed behind it), and `form` is not asked
whether it stops, because its liveness properties say more.

Bounds, all constants: `MaxDeliveries` pbufs per connection, `MaxBlocks` per response,
`MaxRestarts`, `Timeout` of `HttpCore` (after which ages stop counting), `MaxFrames`,
`MaxTick`, `MaxLogins`, `MaxPerCall` of `Device` (the fields that one call may set),
and `OneContext`, `OneSlot` of `MCSessions`. `DirLen`, `PageLen`, `Pages`, `Rooms` and the other constants of
`FormPage`, and `Timeout` of `Sessions` are data, not bounds. Symmetry is used on connections, addresses, browsers
and contexts in runs that check safety properties only, all of them symmetric, and never
together with liveness. In `pool` the
contexts themselves are not symmetric, because `GetHttpContext` takes the lowest one.

### Fairness

- `HttpCore`, `LiveSpec`. `WF(Step)`: a running callback continues, there is nothing
  else on the processor. `SF(Tick)`: SysTick fires for ever; it is strong because `Tick`
  is disabled while a callback runs in the model. `SF(PollTimer(p))`: the main loop calls
  `poll_network()` for ever and lwIP's slow timer polls every connection with a poll
  callback; strong for the same reason. Nothing is assumed of peers: they may stop sending
  and acknowledging at any time.
- `Emac`, `FairSpec`. `WF(ethernetif_input)`: the main loop polls in every round.
  `WF(HwFetch)`, `WF(HwSent)`: the controller works while its indices differ. Nothing makes
  frames arrive.
- `Device`, `MainFairness`. `WF(Bind)`: `poll_network()` runs the timers of DHCP in both loops
  of `main()`, and leases are finite, so that another bind or renewal comes; an infinite lease
  would break `ServiceReturns`. `WF(Start)`, `WF(Stop)`: `main()` never blocks.
- `FormPage`, `PageSpec`. The same, and `WF` of the page's own steps: a call runs to its
  end, and acknowledgements or the poll of the connection bring the next call while the
  connection lives.
- `WebFiles` and `Sessions` have safety properties only; `IdleSessionsEnd` says as an invariant
  what the check of the main loop owes in each tick.

## 4. Properties that hold

| Property | Says |
|---|---|
| `HttpCore!Ownership` | argument of a connection and `_pcb` of a context name each other; a connection without a context is still polled, so its close is retried |
| `FreeContextClean` | a context without a connection has no queue, input, handler or response left |
| `WindowConserved` | the window owed to TCP is what the context has queued |
| `StreamOrder` | buffer and queue are what the peer sent and the parser has not consumed |
| `BufferBound` | the request buffer is not overrun |
| `StageHasHandler` | the last block has a handler whose `OnAllSent` may be read |
| `BetweenCallbacks` | a context that waits is in a state that waits for something, with its timer running and its abort carried out |
| `InputExamined` | no complete line waits unexamined while the header is being received |
| `PerIpLimit` | the limit per address holds |
| `ServesConnections` | `HttpCore` implements `Connections`, across kept-alive requests and pipelining |
| `CallbackReturns`, `EveryConnectionEnds` | liveness: no callback loops for ever; a silent peer is given up, a failed close retried until it succeeds |
| `WebFiles!HandlesOwned` | a handle in use names a slot that this context opened |
| `ReadsItsPage` | a response reads the page it was asked for, from where it stopped |
| `OnlyUnreadPagesLeak` | whatever ends a request, only directories and unread pages stay open |
| `Sessions!CookieOpensOwn` | the cookie of a browser never opens the session of another one, whichever slots are used again |
| `StaysLoggedIn` | a browser keeps its login until it logs out or the service restarts, as long as pages of it are parsed by `OnHttpReceive`, or acknowledged while they are sent, no further apart than the timeout |
| `IdleSessionsEnd` | a session that nothing was received or sent for longer than the timeout does not survive the next check, in whatever slot |
| `Device!AppliedAsPosted` | a form that nobody disturbs changes the settings it posts to what it posts, and no other, over all its calls; only an escaped value, or a last one behind fields of earlier calls, may become what the bytes behind it make of it |
| `StartsWithAddress` | the service starts with the address of the interface, whatever a form has left in the settings |
| `ServiceReturns` | liveness: a service that is down comes up again |
| `FormPage!PageTypeOK` | the cache and the room of a chunk are never left |
| `Rendered` | wherever rooms and cache cut the file, the page sent is the file with its tags replaced |
| `Terminated` | a page that has ended has its terminating chunk |
| `PageEnds` | liveness: a page comes to its end, or its connection does |
| `Emac!ReceiverIsQueue` | the receive ring implements `FrameQueue` |
| `WireInOrder`, `TxRingFresh` | even when lapped, the transmit ring never repeats or reorders a frame |
| `CleanFramesRead` | without damaged frames the receive ring is emptied |

`Ownership`, `WindowConserved`, `StreamOrder`, `BetweenCallbacks` and `ServesConnections` are
stated for the time before the first restart of the server, because a restart breaks them (section 5).

## 5. What the code does not keep

Each of these is a run that TLC finds violated; `PROJECT.json` has the lines.

- `restart`: `HttpdStop` frees the contexts of open connections and leaves their callbacks
  registered; after `HttpdInit` they act on a freed context or on a stranger's.
- `lost`: any acknowledgement counts as that of the header; a response can be declared
  complete with bytes still in the send buffer.
- `leak`: a page answered with 304 on a kept-alive connection, and a listing that ends
  early, leave their slot of `g_FileOpened` open for ever.
- `stale`: a completed upload keeps its closed handle and closes it again at the end of the
  request, when the slot may be another connection's.
- `wedge`: a frame with an error bit is never released from the receive ring; the receiver
  stays deaf behind it.

Read in the code while modelling, and not stated as a run:

- When `altcp_write` fails the request ends and resets its context, so that the callback
  sees a result of 0 and does not call `CGI_Cancel`; `Upload_OnCancel` is never told
  (`http_core.c:1548`, `:638`).
- A setter of a form may be given more than the value. `URLDecode` does not terminate what it
  has shortened, and `ExtractFormData` ignores the length that it returns
  (`utils.c:302`-`:333`, `http_web.c:49`-`:50`), so that an escaped value keeps its last bytes:
  `a%20b` is set as `a b0b`. And an unfinished field is moved to the front of `_sendBuffer` with
  the bytes of the fields before it still behind it (`http_web.c:104`-`:108`); the last field,
  which has no separator, is taken as a C string (`:58`-`:63`), so that `color=red&fon` and then
  `t=b` set the font to `bred`. The receive buffer is 128 bytes, so that forms are cut often.
  "apply the new values" (`cgi_form.c:54`) is then not true of them. `AppliedAsPosted` says that
  these are the only two ways; without its `tail` it is false.
- Only `OnHttpReceive` notes that a session was received for (`http_core.c:652`). A request
  that has come behind another one is parsed by `OnHttpPoll` (`:683`) or `OnHttpSent` (`:736`).
  Behind a session check, which keeps nothing alive, or behind a request with no session, such a page is
  found and allowed, but the times of its session stay as they are until its first
  acknowledgement: near the timeout, the check of the main loop ends a session that has just
  been used. Counted from their parsing, these pages refute `StaysLoggedIn`. No comment or
  test says which requests count, so that it is not listed as a finding.
- A session that nothing was ever sent for has `sendElapsed` 0 and never expires
  (`http_session.c:163`-`:179`): a login whose answer was never acknowledged keeps its slot.
  `IdleSessionsEnd` is about the others.
- The headers of a POST do not load the shared copy. With DHCP on, the page disables the
  address fields, so a form posts no address, and `AppyConfig` writes back the one that the
  copy has from the last GET, 0.0.0.0 if there was none (`port_device.c:275`); the next
  bind or renewal corrects it. A form that is given up leaves its fields in the copy, and
  the next POST applies them.
- A change of DHCP logs that the stack will restart, and clears `g_ipIsReady`, but nothing
  restarts: the service stays down until the next renewal calls `OnDhcpFinished`
  (`port_device.c:285`-`:290`). An address that is entered is not parsed; the setters store 0.
- Behind the end of the file the rest of the cache is sent as it is, although the comment
  at `http_web.c:283` says "then parse data in cache": a tag in the last `MAX_TAG_LEN`
  characters is not replaced, and a file that ends in an empty tag gets no terminating
  chunk. `TagsClear` is the condition, and the files in `webroot` meet it. A page whose
  settings change between two of its chunks shows some from before and some from after.

## 6. Theorems

All proofs use only the modules' named assumptions on constants: sizes are natural
numbers (positive where the code divides or indexes by them), the null values are not
elements of the sets they complete, payloads, pages and marks are sequences. No finiteness
is assumed of connections, contexts, browsers, texts or pages.

**HttpCore** (`HttpCoreProofs`). `Inv == Typed /\ Ownership /\ WindowConserved`, where
`Typed` is `TypeOK` with `Good` for every context: the buffer is within its bound, the
boundaries of the queue are increasing and end where the queue ends, the offset lies
within it. The conjuncts need each other: a freed pbuf is credited to the connection
that its context names, so window accounting needs ownership (a context that two
connections used would lose window), and how much is credited is the distance between two
boundaries, so it needs `Good`; and the type of `frame` guarantees that a running callback
has a context. Most actions touch neither the pool nor a queue and are `Quiet`: `QuietInv`
shows once that quiet steps keep `Inv`, one lemma per action shows that it is quiet. The
others (accept, receive, unlink, the four ways to close, error, restart) are proved one by
one. Theorems: `TypeCorrect`, `OwnershipHolds`, `WindowIsConserved`, `BufferIsBounded`.

`HttpRequestProofs` builds on `Inv` and adds `Lifecycle == Control /\ Cleaned /\ Limited`,
none of which needs the restriction to the time before a restart. `Control` is what makes
the loop of `HttpRequestProc` correct: `Fit` says for each label what may be relied on there
(behind the loop head an empty buffer means an exhausted queue, behind the headers no response
has been started, in the response the timer of the sender runs), `Ready` what a callback
leaves behind. Neither is inductive alone: that a callback leaves no line unexamined, for
example, rests on `DequeueRest` (all that fits is copied) and on the label `unlink` (a queue
that is exhausted is freed). `Cleaned` needs that a connection names its context, in the form
that survives a restart: every connected context is named by its open connection, but not the
reverse. `Limited` needs only that no step but an accept changes the address of a connected
context (`Retained`). `StreamOrder` then follows from what each step does to `Pending`, the
buffer with the uncopied rest of the queue: copying and freeing leave it as it is
(`DequeuePending`, `UnlinkPending`), the parser takes from its front (`ConsumePending`), a
pbuf is added at its end wherever it is kept (`ReceivePending`), and every step of
`HttpRequestProc` does one of these to the context and to its connection alike (`Reads`).
It needs `Ownership`, that no two contexts share a connection, and `Cleaned`, that a context
starts a connection with an empty buffer, although `OnHttpAccept` does not empty it.
Theorems: `LifecycleHolds`, `StageHasHandlerHolds`, `BetweenCallbacksHolds`,
`InputIsExamined`, `FreeContextsAreClean`, `PerIpLimitHolds`, `StreamIsInOrder`.

`HttpConnectionProofs` shows that `HttpCore` implements `Connections`, step by step. For the
steps of `HttpRequestProc` the question is about one context before and after (`Stepped`):
they show nothing (`KeepsPhase`), take something from the front of the input (`TakesInput`,
where `FirstLine` bounds what a step of the parser takes, and that is not past the end of a
line) or go from one phase to the next (`ChangesPhase`). In which phase a step may be taken
is what `Control` knows for each label. That nobody else sees it is `Ownership`: no two
connections have the same context, and `Cleaned` says that a running callback has a connection.
The limits at an accept follow by counting: the served connections map injectively to
the contexts other than the free one (`ServedLimits`), and those of an address to the
contexts that `GetHttpContext` has counted. One more invariant is needed, `Closings`: a
context that takes its peer for closed is right, so that no data comes after it, and it is
not idle, so that no request begins for that peer. Theorem: `ServerServesConnections`.

**WebFiles** (`WebFilesProofs`). `Inv` strengthens the properties to a per-context
predicate `Good(d, r, sl)`: which of its handles are set in which phase, that each of them
names a slot this context has opened, on the right file, at the right position, and that
a page holds the same slot in both of its handles. The argument is a frame argument: an
action of one context changes only slots that are free or its own, and `Good` of another
context depends only on slots that context owns. `CloseTouches`, `OpenTouches` and
`ReaddirTouches` bound what an action changes, `Frame` and `StepIsEnough` turn that into
preservation for all others. `LeakInv` adds `Kept`: a slot is unread or some context holds
it, and the two endings that close nothing (an unmodified page, a listing cut short) have
their slot on a page at its start or on a directory; `SavingIsEnough` is the frame argument
for it. Theorems: `TypeCorrect`, `HandlesAreOwned`, `ReadsThePage`, `OnlyUnreadPagesLeakHolds`.

**Sessions** (`SessionsProofs`). `Inv` adds to the types four parts. `Shape`: without the
service there are no connections and no sessions. `Past`: times are over, and every token
that a slot or a browser has, or that is on its way to one, is older than a tick in which
nobody has logged in. So a new token is held by nobody, and `Owned` follows: a token is that
of one slot, and of one browser, which has it or will get it (`Holder`), and which is the one
that logged in. `Kept` says more than `StaysLoggedIn`: not only is there a slot with the
token, one of its two times is no earlier than the last use; hence the check, which wants both
to be over, spares it, and only a request with its token can end it. Callbacks are
compared by what they may do to the slots: notes of the times change no token and take no
time back (`Touched`), for every caller and whatever slot the context points at
(`CallerTouches`); a page under way whose acknowledgement counts as a use names a slot
with the token of its browser, so that `SessionSent` is for that slot. Theorems:
`TypeCorrect`, `CookiesOpenTheirOwn`, `LoginsLast`, `AbandonedSessionsEnd`.

**Device** (`DeviceProofs`). Both arguments are about who writes the settings when.
`Undisturbed`: after each of its calls, the copy holds what an undisturbed form wants, as its
values were seen (`Holding`), since everybody else who writes the copy makes the form
disturbed. `SeenFields` says field by field what a setter may see, and `SetWanted` that
setting a field replaces what was seen of it before: a value that was changed by the bytes behind
it is right again when the field is posted once more. `StartsWithAddress` is inductive with the part of `TypeOK` that
there is no form without the service: only forms put an old address back.
`FormsApplyWhatTheyPost` proves the action property, by showing first that no other action
looks like the end of a form. Theorems: `TypeCorrect`, `ServiceStartsWithAddress`,
`FormsApplyWhatTheyPost`.

**FormPage** (`FormPageProofs`). `Bounded` adds to `PageTypeOK` that nothing is produced
between two calls. The arithmetic is that of the rooms: a character is appended only when the
room was not full, a value takes at most what is left after the margin, and the last cache
fits because a room is not smaller than a cache. The proof shows that this holds for every
file, cache and room that `FormPageAssumption` allows, and `PagesLeaveDevice` that the
composed system keeps what `Device` promises.

`CopyInv` is what the copy keeps to from call to call: cache and text are the file from the
place that is reached; inside a tag, the name is what the file has since its start, and no
end of a tag is among it; and what was sent and produced, with the rendering of the file from
the place that is reached (of the tag, inside one), is the rendering of the whole file
(`Follows`). `Rendered` is the case in which nothing is left. The rendering is a recursive
function of the place, so that its equation has to be proved before it can be used:
`BackInduction` derives induction from the end of a file to its beginning from the least
element of a set of naturals (`LeastElement`), and `RenderingExists` shows with it that a
function with this equation exists. One lemma per action then moves the boundary between
produced and not produced (`Regroup`): a character of text moves it by one, a tag by its
length against its value. The equation at a tag needs that it has an end, and the end of the
file that none reaches into the rest of the cache, which is sent as it is (`RestIsPlain`);
both are what `TagsClear` says. `PageIsTerminated` rests on the same fact: a call that empties
a clear file has produced something, so that the terminating chunk comes behind it. Theorems:
`PageIsRendered`, `PageIsTerminated`, `PageStaysInRoom`, `PagesLeaveDevice`.

**Emac** (`EmacProofs`). `ReceiverImplementsQueue` is a refinement proof: with the lemmas on
ring arithmetic (`UsedProduce`, `UsedConsume`), storing a frame is an append to `RxQueue`
and releasing a slot is taking its head. `TxInv` says more than `TxRingFresh`:
the whole ring behind the produce index, not only the part the indices call used, holds the
frames sent last, and while the DMA reads a slot everything on the wire is older than what
that slot holds. Both are needed because a lap makes the ring read as empty or short while
the DMA is still at work. Theorems: `TypeCorrect`, `ReceiverImplementsQueue`,
`WireIsOrdered`, `TxRingIsFresh`.

**Only model-checked**: liveness (`CallbackReturns`, `EveryConnectionEnds`,
`CleanFramesRead`, `ServiceReturns`, `PageEnds`), since TLAPS does not reason about fairness
and ENABLED here. Every invariant and every action property that a run checks is proved.

## 7. Not modelled

- Chunked request bodies (states 3 to 6 of `http_core.c`), `Expect` and `Range`.
  No browser sends a chunked body; the code reads the length of a chunk as a decimal
  number, and hands the data behind it to the handler with the size that the buffer had
  before the length was taken out (`http_core.c:1297`-`:1324`), so that only chunks that arrive
  whole are received; what happens otherwise depends on the memory in front of the buffer.
- The text of lines, paths, headers and cookies. Routing is the table `Requests`;
  `If-Modified-Since` is an alternative of the handlers (304). What a name or a password is
  compared with is an alternative of the login.
- TLS: this build has `ENABLE_HTTPS` 0, although the repository's `README.md` announces it.
- In `FormPage`, tags that are never closed and names longer than their buffer, which the
  code does not bound; rooms smaller than the cache or the margin (`FormPageAssumption`); an
  empty file, which gets no terminating chunk. The pages of `webroot` have none of these.
- In `Device`, that DHCP fails to start at boot; tags with an argument; the color, which has a
  setter and no input; bodies that are not a sequence of names and values, escaped names, and values
  that decode to a separator.
- Discovery (`ssdp.c`), the log broadcast, PHY and link, board support, boot and pins: each is
  a timer or a table on its own, without a protocol with the other parts.
- lwIP and mbedTLS, except as the environment of `HttpCore`; together with the vendor's drivers
  they are more than 95 % of the lines of the repository.

## 8. What could come next

1. **Chunked bodies** in `HttpCore`, once the code receives them.
2. **Composition** of `Sessions` with `HttpCore`: at present each of them leaves to the other
   what it does not look at (`HttpCore` chooses whether a request has a session, `Sessions`
   when a callback comes).
3. **Discovery**: one answer per search, and silence after the service has stopped.
