------------------------------ MODULE Sessions ------------------------------
(***************************************************************************)
(* The login sessions: the slots of http_session.c, the login and logout   *)
(* of cgi_auth.c, what the callbacks of http_core.c do to the session that *)
(* a context points at, and the main loop that expires sessions and clears *)
(* them when the service restarts.                                         *)
(*                                                                         *)
(* A context points at the slot its last request named: neither the end of *)
(* the request nor the next connection clears the pointer, while timeouts, *)
(* logouts and logins of others empty and refill the slot.  A request that *)
(* has come behind another one is parsed by a later callback, which may be  *)
(* a poll or an acknowledgement; only OnHttpReceive notes that the session  *)
(* was received for.  One action is one callback, or one step of the main   *)
(* loop.                                                                   *)
(*                                                                         *)
(* Time is the tick count, from 1: a tick of 0 stands for "never" in the   *)
(* code, which stores 1 for it.  A token is the tick of its login.         *)
(***************************************************************************)
EXTENDS Integers

CONSTANTS
  Contexts,      \* the context pool
  Users,         \* the browsers, each at an address of its own
  NumSessions,   \* MAX_SESSIONS
  Timeout,       \* GetSessionTimeout(); 0 is "no timeout"
  MaxTick,       \* bound: where the clock of the model stops
  MaxLogins,     \* bound: sessions that are created
  NULL

Slots == 1..NumSessions

ASSUME SessionsAssumption ==
  /\ NumSessions \in Nat
  /\ Timeout \in Nat
  /\ MaxTick \in Nat
  /\ MaxLogins \in Nat
  /\ NULL \notin Slots \cup Contexts \cup Users

VARIABLES
  now,           \* LWIP_GetTickCount()
  sessions,      \* g_httpSessions
  ctx,           \* the contexts
  serving,       \* main() is in its second loop, between HttpdInit and HttpdStop
  polled,        \* tLastPollTick is now: the sessions were checked in this tick
  users,         \* the cookie a browser sends; history: logged in, and its last use
  coming,        \* the cookies of logins on their way to each browser
  taken,         \* history: there was a login in this tick
  logins,        \* sessions created, for the bound
  clash          \* history: two logins have shared a tick

vars == <<now, sessions, ctx, serving, polled, users, coming, taken, logins, clash>>

Ticks == Nat \ {0}

\* A slot; its token is 0 when it is empty.
Session == [token : Nat, ip : Users \cup {NULL}, received : Nat, sent : Nat]
Empty == [token |-> 0, ip |-> NULL, received |-> 0, sent |-> 0]

(* queued: idle, and data of the next request has come behind the last one. *)
(* sending: the response is under way; one that ends before it is           *)
(* acknowledged, like every redirect, is not seen in this phase.            *)
Phases == {"closed", "idle", "queued", "body", "sending"}
Context == [phase : Phases, user : Users \cup {NULL},
            session : Slots \cup {NULL}, checkAlive : BOOLEAN]
Closed == [phase |-> "closed", user |-> NULL, session |-> NULL, checkAlive |-> FALSE]
Ended == {"idle", "queued", "closed"}

\* A browser; active: the cookie is of a login that was not ended since.
User == [cookie : Nat, active : BOOLEAN, lastUse : Nat]
Stranger == [cookie |-> 0, active |-> FALSE, lastUse |-> 0]

Init ==
  /\ now = 1
  /\ sessions = [s \in Slots |-> Empty]
  /\ ctx = [c \in Contexts |-> Closed]
  /\ serving = FALSE
  /\ polled = FALSE
  /\ users = [u \in Users |-> Stranger]
  /\ coming = [u \in Users |-> {}]
  /\ taken = FALSE
  /\ logins = 0
  /\ clash = FALSE

-----------------------------------------------------------------------------
(* http_session.c.                                                         *)

Lowest(S) == IF S = {} THEN NULL ELSE CHOOSE s \in S : \A t \in S : s <= t

\* The first live slot with the token of the request.
GetSession(ss, token) == IF token = 0 THEN NULL ELSE Lowest({s \in Slots : ss[s].token = token})

\* The slot SessionCreate takes.
FreeSlot(ss) == Lowest({s \in Slots : ss[s].token = 0})

\* Variant: the token counts seconds, not ticks.
CoarseSession(u) == [token |-> (now + 1) \div 2, ip |-> u, received |-> now, sent |-> 0]

NewSession(u) == [token |-> now, ip |-> u, received |-> now, sent |-> 0]

\* Variant: only the token is cleared.
SessionTokenKill(ss, s) == IF s = NULL THEN ss ELSE [ss EXCEPT ![s].token = 0]

SessionKill(ss, s) == IF s = NULL THEN ss ELSE [ss EXCEPT ![s] = Empty]

\* SessionReceived and SessionSent: an empty slot stays empty.
Live(ss, s) == s # NULL /\ ss[s].token # 0
SessionReceived(ss, s) == IF Live(ss, s) THEN [ss EXCEPT ![s].received = now] ELSE ss
SessionSent(ss, s) == IF Live(ss, s) THEN [ss EXCEPT ![s].sent = now] ELSE ss

\* What has never happened happened just now.
Elapsed(t) == IF t = 0 THEN 0 ELSE now - t

\* Variant: one of the times is over.
ExpiredEither(e) ==
  /\ e.token # 0
  /\ Timeout > 0
  /\ Elapsed(e.received) > Timeout \/ Elapsed(e.sent) > Timeout

\* Both times are over.
Expired(e) ==
  /\ e.token # 0
  /\ Timeout > 0
  /\ Elapsed(e.received) > Timeout
  /\ Elapsed(e.sent) > Timeout

-----------------------------------------------------------------------------
(* The callbacks of a connection.                                          *)

\* OnHttpReceive and OnHttpSent leave the times alone after a session check.
Received(ss, x) == IF x.checkAlive THEN ss ELSE SessionReceived(ss, x.session)
Sent(ss, x) == IF x.checkAlive THEN ss ELSE SessionSent(ss, x.session)

\* What a callback does before and after HttpRequestProc; fail is OnHttpReceive when the
\* request or its response fails, so that it closes the connection and returns.
Callers == {"recv", "fail", "poll", "sent"}
Before(caller, c) == IF caller = "sent" THEN Sent(sessions, ctx[c]) ELSE sessions

\* Variant: OnHttpReceive does not note the session either.
AfterAny(caller, ss, x) == ss

After(caller, ss, x) == IF caller = "recv" THEN Received(ss, x) ELSE ss

\* OnHttpPoll and OnHttpSent bring no data.
HasData(caller, c) ==
  \/ caller \in {"recv", "fail"} /\ ctx[c].phase = "idle"
  \/ ctx[c].phase = "queued"

\* A context that moves on; a closed one has no connection.
Moved(x, p) == [x EXCEPT !.phase = p, !.user = IF p = "closed" THEN NULL ELSE @]

\* OnHttpAccept: the context keeps the pointer of its last connection.
OnHttpAccept(c, u) ==
  /\ serving
  /\ ctx[c].phase = "closed"
  /\ ctx' = [ctx EXCEPT ![c].phase = "idle", ![c].user = u]
  /\ UNCHANGED <<now, sessions, serving, polled, users, coming, taken, logins, clash>>

\* The data ends behind the request line: it decides _checkAlive, and the times of
\* the session of an earlier request are set.  The headers will set both again.
RequestLineReceived(caller, c, check) ==
  LET x == [ctx[c] EXCEPT !.checkAlive = check]
  IN /\ HasData(caller, c)
     /\ ctx' = [ctx EXCEPT ![c] = Moved(x, IF caller = "fail" THEN "closed" ELSE "idle")]
     /\ sessions' = After(caller, Before(caller, c), x)
     /\ UNCHANGED <<now, serving, polled, users, coming, taken, logins, clash>>

\* Data that ends before the end of a line, or inside a body; or that comes during a
\* response, or a FIN does.
PartReceived(c) ==
  /\ ctx[c].phase # "closed"
  /\ sessions' = Received(sessions, ctx[c])
  /\ ctx' = [ctx EXCEPT ![c].phase = IF @ = "queued" THEN "idle" ELSE @]
  /\ UNCHANGED <<now, serving, polled, users, coming, taken, logins, clash>>

\* The cookies with which a browser may have sent a request: none, the one it has, or one
\* it had before; of those, that still name a session.
Known(u) ==
  {0, users[u].cookie}
    \cup ({sessions[s].token : s \in {r \in Slots : sessions[r].ip = u}} \ coming[u])

\* The context at the end of the headers, with GetSession.
Presented(c, token, check) ==
  [ctx[c] EXCEPT !.session = GetSession(sessions, token), !.checkAlive = check]

\* u uses its login: not a session check, and the session is the one of its cookie.
Uses(u, x) ==
  /\ users[u].active /\ ~x.checkAlive /\ x.session # NULL
  /\ sessions[x.session].token = users[u].cookie /\ sessions[x.session].ip = u

\* A page of /app, or the answer to a session check.  A page is a use of the login here
\* if OnHttpReceive has parsed it, which sets the time of the session.
PageReceived(caller, c, token, check, p) ==
  LET x == Presented(c, token, check)
      u == x.user
  IN /\ HasData(caller, c)
     /\ ctx' = [ctx EXCEPT ![c] = Moved(x, p)]
     /\ sessions' = After(caller, Before(caller, c), x)
     /\ users' = IF caller = "recv" /\ Uses(u, x)
                 THEN [users EXCEPT ![u].lastUse = now] ELSE users
     /\ UNCHANGED <<now, serving, polled, coming, taken, logins, clash>>

\* Auth_OnRequestReceived of WEB_LOGOUT_PAGE, which also erases the cookie.
LogoutReceived(caller, c, token, p) ==
  LET x == Presented(c, token, FALSE)
      u == x.user
  IN /\ HasData(caller, c)
     /\ ctx' = [ctx EXCEPT ![c] = Moved(x, p)]
     /\ sessions' = After(caller, SessionKill(Before(caller, c), x.session), x)
     /\ users' = [users EXCEPT ![u] = Stranger]
     /\ UNCHANGED <<now, serving, polled, coming, taken, logins, clash>>

\* The headers of a login, whose body is still to come.
LoginHeaders(caller, c, token) ==
  LET x == [Presented(c, token, FALSE) EXCEPT !.phase = "body"]
  IN /\ HasData(caller, c)
     /\ ctx' = [ctx EXCEPT ![c] = x]
     /\ sessions' = After(caller, Before(caller, c), x)
     /\ UNCHANGED <<now, serving, polled, users, coming, taken, logins, clash>>

\* The end of a login comes with its headers, or in the body with new data.
LoginEnds(caller, c) ==
  \/ HasData(caller, c)
  \/ ctx[c].phase = "body" /\ caller \in {"recv", "fail"}

\* AuthCheck refuses the name, after the headers or together with them.
LoginRefused(caller, c, token, p) ==
  LET x == IF ctx[c].phase = "body" THEN ctx[c] ELSE Presented(c, token, FALSE)
  IN /\ LoginEnds(caller, c)
     /\ ctx' = [ctx EXCEPT ![c] = Moved(x, p)]
     /\ sessions' = After(caller, Before(caller, c), x)
     /\ UNCHANGED <<now, serving, polled, users, coming, taken, logins, clash>>

\* AuthCheck accepts the name: SessionCreate, which may find no slot.
LoginAccepted(caller, c, p) ==
  LET slot == FreeSlot(sessions)
      u == ctx[c].user
      x == [ctx[c] EXCEPT !.checkAlive = FALSE, !.session = slot]
  IN /\ LoginEnds(caller, c)
     /\ ctx' = [ctx EXCEPT ![c] = Moved(x, p)]
     /\ IF slot = NULL
        THEN sessions' = Before(caller, c) /\ UNCHANGED <<coming, taken, logins, clash>>
        ELSE /\ sessions' = [Before(caller, c) EXCEPT ![slot] = NewSession(u)]
             /\ coming' = [coming EXCEPT ![u] = @ \cup {now}]
             /\ logins < MaxLogins
             /\ logins' = logins + 1
             /\ taken' = TRUE
             /\ clash' = (clash \/ taken)
     /\ UNCHANGED <<now, serving, polled, users>>

\* The browser has the header of the answer to its login.
CookieReceived(u, token) ==
  /\ token \in coming[u]
  /\ coming' = [coming EXCEPT ![u] = @ \ {token}]
  /\ users' = [users EXCEPT ![u] = [cookie |-> token, active |-> TRUE, lastUse |-> token]]
  /\ UNCHANGED <<now, sessions, ctx, serving, polled, taken, logins, clash>>

\* OnHttpSent without data behind: more is to be sent, or the response ends.  Every
\* acknowledgement of a page that is under way is a use of the login, as it sets the
\* time that the session was sent for.
OnHttpSent(c, p) ==
  LET x == ctx[c]
  IN /\ x.phase = "sending"
     /\ sessions' = Sent(sessions, x)
     /\ users' = IF Uses(x.user, x) THEN [users EXCEPT ![x.user].lastUse = now] ELSE users
     /\ ctx' = [ctx EXCEPT ![c] = Moved(x, p)]
     /\ UNCHANGED <<now, serving, polled, coming, taken, logins, clash>>

\* OnHttpSent of a response that has ended before.
OnHttpSentLate(c) ==
  /\ ctx[c].phase \in {"idle", "queued", "body"}
  /\ sessions' = Sent(sessions, ctx[c])
  /\ UNCHANGED <<now, ctx, serving, polled, users, coming, taken, logins, clash>>

\* OnHttpPoll, or OnHttpReceive with what PartReceived notes, finds the end of a response.
ResponseEnds(c, p) ==
  /\ ctx[c].phase = "sending"
  /\ ctx' = [ctx EXCEPT ![c] = Moved(@, p)]
  /\ UNCHANGED <<now, sessions, serving, polled, users, coming, taken, logins, clash>>

\* OnHttpError, or a timeout, an end or an error that closes the connection.
ConnectionLost(c) ==
  /\ ctx[c].phase # "closed"
  /\ ctx' = [ctx EXCEPT ![c] = Moved(@, "closed")]
  /\ UNCHANGED <<now, sessions, serving, polled, users, coming, taken, logins, clash>>

-----------------------------------------------------------------------------
(* main().                                                                 *)

\* Variant: the loop starts at the second slot.
SessionCheckFromSecond(ss) ==
  [s \in Slots |-> IF s > 1 /\ Expired(ss[s]) THEN Empty ELSE ss[s]]

\* Every slot is looked at.
SessionCheck(ss) == [s \in Slots |-> IF Expired(ss[s]) THEN Empty ELSE ss[s]]

\* An iteration of the serving loop in a new tick, which is 100 ms of the clock.
Poll ==
  /\ serving /\ ~polled
  /\ polled' = TRUE
  /\ sessions' = SessionCheck(sessions)
  /\ UNCHANGED <<now, ctx, serving, users, coming, taken, logins, clash>>

Tick ==
  /\ now < MaxTick
  /\ now' = now + 1
  /\ taken' = FALSE
  /\ polled' = FALSE
  /\ UNCHANGED <<sessions, ctx, serving, users, coming, logins, clash>>

\* g_ipIsReady is set: HttpdInit.
Start ==
  /\ ~serving
  /\ serving' = TRUE
  /\ UNCHANGED <<now, sessions, ctx, polled, users, coming, taken, logins, clash>>

\* g_ipIsReady is cleared: HttpdStop frees the contexts, SessionClearAll.  What is on
\* its way to a browser is left out from here on.
Stop ==
  /\ serving
  /\ serving' = FALSE
  /\ ctx' = [c \in Contexts |-> Moved(ctx[c], "closed")]
  /\ sessions' = [s \in Slots |-> Empty]
  /\ users' = [u \in Users |-> [users[u] EXCEPT !.active = FALSE, !.lastUse = 0]]
  /\ coming' = [u \in Users |-> {}]
  /\ UNCHANGED <<now, polled, taken, logins, clash>>

\* A request, or its beginning; the response may have ended when the callback returns.
RequestNext(caller, c) ==
  /\ ctx[c].phase \in {"idle", "queued", "body"}
  /\ \/ \E check \in BOOLEAN : RequestLineReceived(caller, c, check)
     \/ \E p \in Ended : (caller = "fail" => p = "closed") /\ LoginAccepted(caller, c, p)
     \/ \E token \in Known(ctx[c].user) :
          \/ LoginHeaders(caller, c, token)
          \/ \E p \in Ended \cup {"sending"} :
               /\ caller = "fail" => p = "closed"
               /\ \/ \E check \in BOOLEAN : PageReceived(caller, c, token, check, p)
                  \/ p \in Ended /\ LogoutReceived(caller, c, token, p)
                  \/ p \in Ended /\ LoginRefused(caller, c, token, p)

Next ==
  \/ \E c \in Contexts :
       \/ \E u \in Users : OnHttpAccept(c, u)
       \/ \E caller \in Callers : RequestNext(caller, c)
       \/ PartReceived(c)
       \/ \E p \in Ended \cup {"sending"} : OnHttpSent(c, p)
       \/ \E p \in Ended : ResponseEnds(c, p)
       \/ OnHttpSentLate(c)
       \/ ConnectionLost(c)
  \/ \E u \in Users : \E token \in coming[u] : CookieReceived(u, token)
  \/ Poll
  \/ Tick
  \/ Start
  \/ Stop

Spec == Init /\ [][Next]_vars

-----------------------------------------------------------------------------
(* What the code promises.                                                 *)

\* Types: a context that has a connection knows whose it is, and an empty slot
\* remembers nothing of its last session.
TypeOK ==
  /\ now \in Ticks
  /\ sessions \in [Slots -> Session]
  /\ \A s \in Slots : sessions[s].token = 0 => sessions[s] = Empty
  /\ ctx \in [Contexts -> Context]
  /\ \A c \in Contexts : ctx[c].phase = "closed" <=> ctx[c].user = NULL
  /\ serving \in BOOLEAN
  /\ polled \in BOOLEAN
  /\ users \in [Users -> User]
  /\ coming \in [Users -> SUBSET Ticks]
  /\ taken \in BOOLEAN
  /\ logins \in 0..MaxLogins
  /\ clash \in BOOLEAN

\* The cookie of a browser never opens the session of another one, also not when
\* the slot of an expired or closed session is used again; unless two logins
\* have shared a tick, and with it a token.
CookieOpensOwn ==
  \A u \in Users : LET s == GetSession(sessions, users[u].cookie)
                   IN ~clash /\ s # NULL => sessions[s].ip = u

\* A browser that has logged in finds its session at every request, until it logs
\* out, the service restarts, or for the time of GetSessionTimeout() no page of it is
\* parsed by OnHttpReceive and none that is under way is acknowledged: whatever other
\* browsers, stale pointers of contexts and the check of the main loop do to the
\* slots in between.  A page that OnHttpPoll or OnHttpSent has parsed, behind the
\* response before it, counts from its first acknowledgement only.
StaysLoggedIn ==
  \A u \in Users :
    LET s == GetSession(sessions, users[u].cookie)
    IN ~clash /\ users[u].active /\ now - users[u].lastUse <= Timeout
         => s # NULL /\ sessions[s].ip = u

\* A session over which a response went out, and that nothing was received or
\* sent for since longer than the timeout.
LeftAlone(s) ==
  /\ Timeout > 0 /\ sessions[s].token # 0 /\ sessions[s].sent # 0
  /\ now - sessions[s].received > Timeout /\ now - sessions[s].sent > Timeout

\* Once the main loop has checked the sessions of a tick none is left alone, in
\* whatever slot, also behind empty ones; so the slots that abandoned logins have
\* taken come back.
IdleSessionsEnd == serving /\ polled => \A s \in Slots : ~LeftAlone(s)
=============================================================================
