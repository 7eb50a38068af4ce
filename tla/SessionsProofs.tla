--------------------------- MODULE SessionsProofs ---------------------------
(***************************************************************************)
(* Proofs about Sessions: a browser that has logged in keeps its session   *)
(* for as long as it uses it, whatever the others do, and a cookie opens   *)
(* nobody else's session, unless two logins shared a tick.                 *)
(*                                                                         *)
(* The argument is about tokens.  A new token is the tick, which no slot   *)
(* and no browser has yet unless there was a login in this tick (Past); so *)
(* a token is held by one slot, and by one browser, which has it or will   *)
(* get it (Owned).  Only the holder of a token can end its session by a    *)
(* logout, and the check of the main loop spares it while one of its times *)
(* is within the timeout (Kept).                                           *)
(***************************************************************************)
EXTENDS Sessions, WellFoundedInduction, TLAPS

\* While the service is down there are no connections and no sessions.
Shape ==
  ~serving => /\ \A c \in Contexts : ctx[c].phase = "closed"
              /\ \A s \in Slots : sessions[s] = Empty

\* Times are over, and tokens are older than a tick without a login.
Old(t) == t <= now /\ (~taken => t < now)
Past ==
  /\ \A s \in Slots : /\ Old(sessions[s].token)
                      /\ sessions[s].received <= now /\ sessions[s].sent <= now
                      /\ sessions[s].token # 0 => sessions[s].received > 0
  /\ \A u \in Users : /\ Old(users[u].cookie) /\ users[u].lastUse <= now
                      /\ \A t \in coming[u] : Old(t)

\* Who holds a token: a browser holds the one it has, and those on their way to it.
Holder(us, cm, u, t) == us[u].cookie = t \/ t \in cm[u]

Owned(ss, us, cm) ==
  /\ \A s, r \in Slots : ss[s].token # 0 /\ ss[r].token = ss[s].token => r = s
  /\ \A s \in Slots, u \in Users :
       ss[s].token # 0 /\ Holder(us, cm, u, ss[s].token) => ss[s].ip = u
  /\ \A u, v \in Users, t \in Ticks : Holder(us, cm, u, t) /\ Holder(us, cm, v, t) => u = v
  /\ \A u \in Users : us[u].cookie \notin cm[u]

\* Slot s is the session of token t, of u, and was received or sent for at tick a or later.
Holds(ss, s, t, u, a) ==
  ss[s].token = t /\ ss[s].ip = u /\ (a <= ss[s].received \/ a <= ss[s].sent)

\* Tick t is not longer ago than the timeout.
Recent(n, t) == n - t <= Timeout

Kept(ss, us, cm, n) ==
  \A u \in Users :
    /\ us[u].active /\ Recent(n, us[u].lastUse)
         => us[u].cookie # 0 /\ \E s \in Slots : Holds(ss, s, us[u].cookie, u, us[u].lastUse)
    /\ \A t \in cm[u] : Recent(n, t) => \E s \in Slots : Holds(ss, s, t, u, t)

Inv == /\ TypeOK
       /\ Shape
       /\ Past
       /\ ~clash => Owned(sessions, users, coming) /\ Kept(sessions, users, coming, now)
       /\ IdleSessionsEnd

-----------------------------------------------------------------------------
(* Slots.                                                                  *)

\* Lowest finds a member of a set of slots that has one.
LEMMA LowestIsMember ==
  ASSUME NEW S \in SUBSET Slots, S # {}
  PROVE  Lowest(S) \in S
<1> DEFINE less == {ss \in Nat \X Nat : ss[1] < ss[2]}
<1>1. S \subseteq Nat
  BY SessionsAssumption DEF Slots
<1>2. IsWellFoundedOn(less, Nat)
  BY NatLessThanWellFounded DEF OpToRel
<1> HIDE DEF less
<1>3. PICK s \in S : \A t \in S : ~(<<t, s>> \in less)
  BY <1>1, <1>2, WFMin
<1>4. ASSUME NEW t \in S PROVE s <= t
  <2>1. s \in Nat /\ t \in Nat /\ <<t, s>> \notin less
    BY <1>1, <1>3
  <2>2. ~(t < s)
    BY <2>1 DEF less
  <2> QED BY <2>1, <2>2
<1> QED BY <1>4 DEF Lowest

\* GetSession names a slot with the token, or none has it.
LEMMA GetSessionFinds ==
  ASSUME NEW ss \in [Slots -> Session], NEW t \in Nat
  PROVE  LET s == GetSession(ss, t)
         IN  /\ s \in Slots \cup {NULL}
             /\ s # NULL => ss[s].token = t /\ t # 0
             /\ (\E r \in Slots : ss[r].token = t) /\ t # 0 => s # NULL
<1> DEFINE S == {s \in Slots : ss[s].token = t}
<1>1. NULL \notin Slots
  BY SessionsAssumption
<1>2. S # {} => Lowest(S) \in S
  BY LowestIsMember
<1>3. S = {} => Lowest(S) = NULL
  BY DEF Lowest
<1> QED BY <1>1, <1>2, <1>3 DEF GetSession

\* SessionCreate takes an empty slot.
LEMMA FreeSlotIsEmpty ==
  ASSUME NEW ss \in [Slots -> Session]
  PROVE  LET s == FreeSlot(ss)
         IN  s \in Slots \cup {NULL} /\ (s # NULL => ss[s].token = 0)
<1> DEFINE S == {s \in Slots : ss[s].token = 0}
<1>2. S # {} => Lowest(S) \in S
  BY LowestIsMember
<1>3. S = {} => Lowest(S) = NULL
  BY DEF Lowest
<1> QED BY <1>2, <1>3 DEF FreeSlot
\* From slot d to slot e nothing happened but SessionReceived and SessionSent.
TouchedSlot(d, e) ==
  /\ e.token = d.token /\ e.ip = d.ip
  /\ e.received \in {d.received, now}
  /\ e.sent \in {d.sent, now}
  /\ d.token = 0 => e = d
Touched(ss, tt) == \A r \in Slots : TouchedSlot(ss[r], tt[r])

LEMMA TimesTouch ==
  ASSUME NEW ss \in [Slots -> Session], NEW x \in Context, now \in Ticks
  PROVE  /\ Received(ss, x) \in [Slots -> Session] /\ Touched(ss, Received(ss, x))
         /\ Sent(ss, x) \in [Slots -> Session] /\ Touched(ss, Sent(ss, x))
         /\ ~x.checkAlive /\ x.session # NULL /\ ss[x.session].token # 0
              => /\ Received(ss, x)[x.session].received = now
                 /\ Sent(ss, x)[x.session].sent = now
<1> DEFINE s == x.session
           rr == [ss[s] EXCEPT !.received = now]
           rs == [ss[s] EXCEPT !.sent = now]
<1>1. x.checkAlive \in BOOLEAN /\ s \in Slots \cup {NULL} /\ now \in Nat
  BY DEF Context, Ticks
<1>2. ASSUME Live(ss, s)
      PROVE  /\ SessionReceived(ss, s) \in [Slots -> Session] /\ Touched(ss, SessionReceived(ss, s))
             /\ SessionSent(ss, s) \in [Slots -> Session] /\ Touched(ss, SessionSent(ss, s))
             /\ SessionReceived(ss, s)[s].received = now /\ SessionSent(ss, s)[s].sent = now
  <2>1. s \in Slots /\ ss[s].token # 0
    BY <1>1, <1>2 DEF Live
  <2>2. /\ SessionReceived(ss, s) = [ss EXCEPT ![s] = rr]
        /\ SessionSent(ss, s) = [ss EXCEPT ![s] = rs]
    BY <1>2 DEF SessionReceived, SessionSent
  <2>3. ss[s] \in Session
    BY <2>1
  <2>4. /\ rr \in Session /\ rr.token = ss[s].token /\ rr.ip = ss[s].ip
        /\ rr.received = now /\ rr.sent = ss[s].sent
    BY <1>1, <2>3 DEF Session
  <2>5. /\ rs \in Session /\ rs.token = ss[s].token /\ rs.ip = ss[s].ip
        /\ rs.received = ss[s].received /\ rs.sent = now
    BY <1>1, <2>3 DEF Session
  <2> HIDE DEF rr, rs, s
  <2> QED BY <2>1, <2>2, <2>4, <2>5 DEF Touched, TouchedSlot
<1>3. ASSUME ~Live(ss, s)
      PROVE  SessionReceived(ss, s) = ss /\ SessionSent(ss, s) = ss
  BY <1>3 DEF SessionReceived, SessionSent
<1>4. Touched(ss, ss)
  BY DEF Touched, TouchedSlot
<1>5. s # NULL /\ ss[s].token # 0 => Live(ss, s)
  BY DEF Live
<1> QED BY <1>1, <1>2, <1>3, <1>4, <1>5 DEF Received, Sent

LEMMA TouchedTwice ==
  ASSUME NEW ss, NEW tt, NEW vv, Touched(ss, tt), Touched(tt, vv)
  PROVE  Touched(ss, vv)
<1> SUFFICES ASSUME NEW r \in Slots PROVE TouchedSlot(ss[r], vv[r])
  BY DEF Touched
<1>1. TouchedSlot(ss[r], tt[r]) /\ TouchedSlot(tt[r], vv[r])
  BY DEF Touched
<1> QED BY <1>1 DEF TouchedSlot

\* What a callback does to the times around HttpRequestProc.
LEMMA CallerTouches ==
  ASSUME sessions \in [Slots -> Session], ctx \in [Contexts -> Context], now \in Ticks,
         NEW c \in Contexts, NEW x \in Context, NEW caller, NEW ss \in [Slots -> Session]
  PROVE  /\ Before(caller, c) \in [Slots -> Session] /\ Touched(sessions, Before(caller, c))
         /\ After(caller, ss, x) \in [Slots -> Session] /\ Touched(ss, After(caller, ss, x))
<1>1. Touched(sessions, sessions) /\ Touched(ss, ss)
  BY DEF Touched, TouchedSlot
<1>2. ctx[c] \in Context
  OBVIOUS
<1> QED BY <1>1, <1>2, TimesTouch DEF Before, After

-----------------------------------------------------------------------------
(* How the parts of the invariant survive a step.                          *)

\* Who holds what stays true when sessions and cookies only go away.
LEMMA OwnedLess ==
  ASSUME NEW ss \in [Slots -> Session], NEW tt \in [Slots -> Session],
         NEW us \in [Users -> User], NEW vs \in [Users -> User],
         NEW cm \in [Users -> SUBSET Ticks], NEW dm \in [Users -> SUBSET Ticks],
         Owned(ss, us, cm),
         \A s \in Slots : tt[s].token # 0 => tt[s].token = ss[s].token /\ tt[s].ip = ss[s].ip,
         \A u \in Users : /\ dm[u] \subseteq cm[u]
                          /\ vs[u].cookie # 0 => vs[u].cookie = us[u].cookie
  PROVE  Owned(tt, vs, dm)
<1>0. \A u \in Users : dm[u] \subseteq Ticks /\ vs[u].cookie \in Nat
  BY DEF User
<1>1. \A u \in Users, t \in Ticks : Holder(vs, dm, u, t) => Holder(us, cm, u, t)
  <2> TAKE u \in Users, t \in Ticks
  <2>1. t # 0
    BY DEF Ticks
  <2>2. dm[u] \subseteq cm[u] /\ (vs[u].cookie # 0 => vs[u].cookie = us[u].cookie)
    OBVIOUS
  <2> QED BY <2>1, <2>2 DEF Holder
<1>2. \A s \in Slots : tt[s].token \in Nat
  BY DEF Session
<1>3. \A s, r \in Slots : tt[s].token # 0 /\ tt[r].token = tt[s].token => r = s
  BY <1>2 DEF Owned
<1>4. \A s \in Slots, u \in Users :
        tt[s].token # 0 /\ Holder(vs, dm, u, tt[s].token) => tt[s].ip = u
  <2> TAKE s \in Slots, u \in Users
  <2> HAVE tt[s].token # 0 /\ Holder(vs, dm, u, tt[s].token)
  <2>1. tt[s].token \in Ticks /\ tt[s].token = ss[s].token /\ tt[s].ip = ss[s].ip
    BY <1>2 DEF Ticks
  <2>2. Holder(us, cm, u, ss[s].token)
    BY <1>1, <2>1
  <2> QED BY <2>1, <2>2 DEF Owned, Ticks
<1>5. \A u, v \in Users, t \in Ticks : Holder(vs, dm, u, t) /\ Holder(vs, dm, v, t) => u = v
  BY <1>1 DEF Owned
<1>6. \A u \in Users : vs[u].cookie \notin dm[u]
  <2> TAKE u \in Users
  <2>1. 0 \notin dm[u]
    BY <1>0 DEF Ticks
  <2>2. us[u].cookie \notin cm[u]
    BY DEF Owned
  <2>3. dm[u] \subseteq cm[u] /\ (vs[u].cookie # 0 => vs[u].cookie = us[u].cookie)
    OBVIOUS
  <2> QED BY <2>1, <2>2, <2>3
<1> QED BY <1>3, <1>4, <1>5, <1>6 DEF Owned

\* A slot that still holds the session of a token, with times that are no earlier.
LEMMA HoldsOn ==
  ASSUME NEW ss \in [Slots -> Session], NEW tt \in [Slots -> Session], NEW s \in Slots,
         tt[s].token = ss[s].token, tt[s].ip = ss[s].ip,
         ss[s].received <= tt[s].received, ss[s].sent <= tt[s].sent,
         NEW t, NEW u, NEW a \in Nat, Holds(ss, s, t, u, a)
  PROVE  Holds(tt, s, t, u, a)
<1>1. /\ ss[s].received \in Nat /\ tt[s].received \in Nat
      /\ ss[s].sent \in Nat /\ tt[s].sent \in Nat
  BY DEF Session
<1>2. ss[s].token = t /\ ss[s].ip = u /\ (a <= ss[s].received \/ a <= ss[s].sent)
  BY DEF Holds
<1>3. a <= tt[s].received \/ a <= tt[s].sent
  BY <1>1, <1>2
<1> QED BY <1>2, <1>3 DEF Holds

\* No login in use or on its way loses its session when the time goes on, times are
\* set, or other sessions end; what a browser uses now holds by assumption.
LEMMA KeptLess ==
  ASSUME NEW ss \in [Slots -> Session], NEW tt \in [Slots -> Session],
         NEW us \in [Users -> User], NEW vs \in [Users -> User],
         NEW cm \in [Users -> SUBSET Ticks], NEW dm \in [Users -> SUBSET Ticks],
         NEW n \in Nat, NEW m \in Nat, n <= m,
         Kept(ss, us, cm, n),
         \A s \in Slots :
           \/ /\ tt[s].token = ss[s].token /\ tt[s].ip = ss[s].ip
              /\ ss[s].received <= tt[s].received /\ ss[s].sent <= tt[s].sent
           \/ \A u \in Users : /\ vs[u].active => ss[s].token # us[u].cookie
                               /\ ss[s].token \notin cm[u],
         \A u \in Users : dm[u] \subseteq cm[u],
         \A u \in Users : vs[u].active =>
           \/ /\ us[u].active
              /\ vs[u].cookie = us[u].cookie /\ vs[u].lastUse = us[u].lastUse
           \/ /\ vs[u].cookie # 0
              /\ \E s \in Slots : Holds(tt, s, vs[u].cookie, u, vs[u].lastUse)
  PROVE  Kept(tt, vs, dm, m)
<1>0. Timeout \in Nat
  BY SessionsAssumption
<1>1. \A t \in Nat : Recent(m, t) => Recent(n, t)
  BY <1>0 DEF Recent
<1>2. ASSUME NEW u \in Users, vs[u].active, Recent(m, vs[u].lastUse)
      PROVE  vs[u].cookie # 0 /\ \E s \in Slots : Holds(tt, s, vs[u].cookie, u, vs[u].lastUse)
  <2>0. us[u].lastUse \in Nat
    BY DEF User
  <2>1. CASE /\ us[u].active
             /\ vs[u].cookie = us[u].cookie /\ vs[u].lastUse = us[u].lastUse
    <3>1. us[u].cookie # 0
      BY <1>1, <1>2, <2>0, <2>1 DEF Kept
    <3>2. PICK s \in Slots : Holds(ss, s, us[u].cookie, u, us[u].lastUse)
      BY <1>1, <1>2, <2>0, <2>1 DEF Kept
    <3>3. ss[s].token = us[u].cookie
      BY <3>2 DEF Holds
    <3>4. /\ tt[s].token = ss[s].token /\ tt[s].ip = ss[s].ip
          /\ ss[s].received <= tt[s].received /\ ss[s].sent <= tt[s].sent
      BY <1>2, <3>3
    <3>5. Holds(tt, s, us[u].cookie, u, us[u].lastUse)
      BY <2>0, <3>2, <3>4, HoldsOn
    <3> QED BY <2>1, <3>1, <3>5
  <2> QED BY <1>2, <2>1
<1>3. ASSUME NEW u \in Users, NEW t \in dm[u], Recent(m, t)
      PROVE  \E s \in Slots : Holds(tt, s, t, u, t)
  <2>1. t \in cm[u] /\ t \in Nat
    BY DEF Ticks
  <2>2. PICK s \in Slots : Holds(ss, s, t, u, t)
    BY <1>1, <1>3, <2>1 DEF Kept
  <2>3. ss[s].token = t
    BY <2>2 DEF Holds
  <2>4. /\ tt[s].token = ss[s].token /\ tt[s].ip = ss[s].ip
        /\ ss[s].received <= tt[s].received /\ ss[s].sent <= tt[s].sent
    BY <2>1, <2>3
  <2> QED BY <2>1, <2>2, <2>4, HoldsOn
<1> QED BY <1>2, <1>3 DEF Kept

\* What holds of every slot after a callback, if it is empty or its times were set.
LEMMA SlotsAfter ==
  ASSUME TypeOK, Past, IdleSessionsEnd, NEW s \in Slots, NEW e \in Session,
         TouchedSlot(sessions[s], e) \/ e = Empty
  PROVE  /\ e.token = 0 => e = Empty
         /\ Old(e.token) /\ e.received <= now /\ e.sent <= now
         /\ e.token # 0 => e.received > 0
         /\ serving /\ polled =>
              ~(/\ Timeout > 0 /\ e.token # 0 /\ e.sent # 0
                /\ now - e.received > Timeout /\ now - e.sent > Timeout)
<1>1. /\ sessions[s] \in Session /\ now \in Nat /\ now > 0
      /\ sessions[s].token = 0 => sessions[s] = Empty
  BY DEF TypeOK, Ticks
<1>2. /\ Old(sessions[s].token) /\ sessions[s].received <= now /\ sessions[s].sent <= now
      /\ sessions[s].token # 0 => sessions[s].received > 0
  BY DEF Past
<1>3. serving /\ polled => ~LeftAlone(s)
  BY DEF IdleSessionsEnd
<1>4. /\ sessions[s].received \in Nat /\ sessions[s].sent \in Nat /\ Timeout \in Nat
  BY <1>1, SessionsAssumption DEF Session
<1>5. CASE e = Empty
  <2>1. e.token = 0 /\ e.received = 0 /\ e.sent = 0
    BY <1>5 DEF Empty
  <2> QED BY <1>1, <1>5, <2>1 DEF Old
<1>6. CASE TouchedSlot(sessions[s], e)
  BY <1>1, <1>2, <1>3, <1>4, <1>6 DEF LeftAlone, TouchedSlot
<1> QED BY <1>5, <1>6

\* A callback that sets times, moves contexts on and may note the use of a login; the
\* sessions that it ends are of logins that are over.
LEMMA QuietStep ==
  ASSUME Inv, serving,
         sessions' \in [Slots -> Session], ctx' \in [Contexts -> Context],
         users' \in [Users -> User],
         \A r \in Slots :
           \/ TouchedSlot(sessions[r], sessions'[r])
           \/ /\ sessions'[r] = Empty
              /\ ~clash => \A u \in Users :
                   /\ users'[u].active => sessions[r].token # users[u].cookie
                   /\ sessions[r].token \notin coming[u],
         \A d \in Contexts : ctx'[d].phase = "closed" <=> ctx'[d].user = NULL,
         \A u \in Users :
           /\ users'[u].cookie = users[u].cookie \/ users'[u].cookie = 0
           /\ users'[u].lastUse <= now
           /\ users'[u].active =>
                /\ users[u].active /\ users'[u].cookie = users[u].cookie
                /\ \/ users'[u].lastUse = users[u].lastUse
                   \/ /\ users'[u].cookie # 0
                      /\ \E s \in Slots :
                           Holds(sessions', s, users'[u].cookie, u, users'[u].lastUse),
         UNCHANGED <<now, serving, polled, coming, taken, logins, clash>>
  PROVE  Inv'
<1>0. /\ now \in Nat /\ now > 0 /\ sessions \in [Slots -> Session] /\ users \in [Users -> User]
      /\ ctx \in [Contexts -> Context] /\ coming \in [Users -> SUBSET Ticks]
  BY DEF Inv, TypeOK, Ticks
<1>1. \A s \in Slots :
        /\ sessions'[s].token = 0 => sessions'[s] = Empty
        /\ Old(sessions'[s].token) /\ sessions'[s].received <= now /\ sessions'[s].sent <= now
        /\ sessions'[s].token # 0 => sessions'[s].received > 0
        /\ serving /\ polled =>
             ~(/\ Timeout > 0 /\ sessions'[s].token # 0 /\ sessions'[s].sent # 0
               /\ now - sessions'[s].received > Timeout /\ now - sessions'[s].sent > Timeout)
  <2> TAKE s \in Slots
  <2>1. sessions'[s] \in Session /\ (TouchedSlot(sessions[s], sessions'[s]) \/ sessions'[s] = Empty)
    OBVIOUS
  <2> QED BY <2>1, SlotsAfter DEF Inv
<1>2. TypeOK'
  BY <1>1 DEF Inv, TypeOK, Empty
<1>3. Shape'
  BY DEF Shape
<1>4. Past'
  <2>1. \A u \in Users : Old(users'[u].cookie)
    <3> TAKE u \in Users
    <3>1. Old(users[u].cookie) /\ Old(0)
      BY <1>0 DEF Inv, Past, Old
    <3> QED BY <3>1
  <2>2. \A u \in Users : \A t \in coming[u] : Old(t)
    BY DEF Inv, Past
  <2> QED BY <1>1, <2>1, <2>2 DEF Past, Old
<1>5. IdleSessionsEnd'
  BY <1>1 DEF IdleSessionsEnd, LeftAlone
<1>6. ASSUME ~clash
      PROVE  Owned(sessions', users', coming) /\ Kept(sessions', users', coming, now)
  <2>1. Owned(sessions, users, coming) /\ Kept(sessions, users, coming, now)
    BY <1>6 DEF Inv
  <2>2. \A s \in Slots : sessions'[s].token # 0 => /\ sessions'[s].token = sessions[s].token
                                                  /\ sessions'[s].ip = sessions[s].ip
    BY DEF TouchedSlot, Empty
  <2>3. Owned(sessions', users', coming)
    BY <1>0, <2>1, <2>2, OwnedLess
  <2>4. \A s \in Slots :
          \/ /\ sessions'[s].token = sessions[s].token /\ sessions'[s].ip = sessions[s].ip
             /\ sessions[s].received <= sessions'[s].received
             /\ sessions[s].sent <= sessions'[s].sent
          \/ \A u \in Users : /\ users'[u].active => sessions[s].token # users[u].cookie
                              /\ sessions[s].token \notin coming[u]
    <3> TAKE s \in Slots
    <3>1. CASE TouchedSlot(sessions[s], sessions'[s])
      <4>1. /\ sessions[s] \in Session /\ sessions[s].received <= now /\ sessions[s].sent <= now
        BY <1>0 DEF Inv, Past
      <4> QED BY <1>0, <3>1, <4>1 DEF TouchedSlot, Session
    <3>2. CASE ~TouchedSlot(sessions[s], sessions'[s])
      BY <1>6, <3>2
    <3> QED BY <3>1, <3>2
  <2>5. \A u \in Users : users'[u].active =>
          \/ /\ users[u].active
             /\ users'[u].cookie = users[u].cookie /\ users'[u].lastUse = users[u].lastUse
          \/ /\ users'[u].cookie # 0
             /\ \E s \in Slots : Holds(sessions', s, users'[u].cookie, u, users'[u].lastUse)
    OBVIOUS
  <2>6. now <= now /\ \A u \in Users : coming[u] \subseteq coming[u]
    BY <1>0
  <2>7. Kept(sessions', users', coming, now)
    BY <1>0, <2>1, <2>4, <2>5, <2>6, KeptLess, SMTT(60)
  <2> QED BY <2>3, <2>7
<1> QED BY <1>2, <1>3, <1>4, <1>5, <1>6 DEF Inv

-----------------------------------------------------------------------------
(* The callbacks.                                                          *)

\* What a context is when a callback begins.
LEMMA AtCallback ==
  ASSUME Inv, NEW c \in Contexts
  PROVE  /\ ctx \in [Contexts -> Context] /\ ctx[c] \in Context
         /\ sessions \in [Slots -> Session] /\ users \in [Users -> User]
         /\ now \in Nat /\ now > 0 /\ now \in Ticks
         /\ ctx[c].phase # "closed" => serving /\ ctx[c].user \in Users
         /\ NULL \notin Users
         /\ \A u \in Users : users[u].lastUse <= now
  BY SessionsAssumption DEF Inv, TypeOK, Shape, Past, Context, Ticks

\* Which data there is says that the connection is open.
LEMMA DataIsOfConnection ==
  ASSUME NEW c \in Contexts, NEW caller, HasData(caller, c) \/ LoginEnds(caller, c)
  PROVE  ctx[c].phase # "closed"
  BY DEF HasData, LoginEnds

\* The cookies that come with a request are numbers.
LEMMA KnownIsNat ==
  ASSUME Inv, NEW u \in Users, NEW token \in Known(u)
  PROVE  token \in Nat
<1>1. users[u].cookie \in Nat /\ \A s \in Slots : sessions[s].token \in Nat
  BY DEF Inv, TypeOK, User, Session
<1> QED BY <1>1 DEF Known

\* The context at the end of the headers.
LEMMA PresentedContext ==
  ASSUME Inv, NEW c \in Contexts, NEW token \in Nat, NEW check \in BOOLEAN
  PROVE  LET x == Presented(c, token, check)
         IN  /\ x \in Context /\ x.phase = ctx[c].phase /\ x.user = ctx[c].user
             /\ x.session = GetSession(sessions, token) /\ x.checkAlive = check
<1> DEFINE s == GetSession(sessions, token)
<1>1. ctx[c] \in Context /\ sessions \in [Slots -> Session]
  BY AtCallback
<1>2. s \in Slots \cup {NULL}
  BY <1>1, GetSessionFinds
<1> HIDE DEF s
<1> QED BY <1>1, <1>2 DEF Presented, Context, s

LEMMA MovedContext ==
  ASSUME Inv, NEW x \in Context, x.user \in Users, NEW p \in Phases
  PROVE  /\ Moved(x, p) \in Context
         /\ Moved(x, p).phase = "closed" <=> Moved(x, p).user = NULL
<1>1. NULL \notin Users
  BY SessionsAssumption
<1> QED BY <1>1 DEF Moved, Context

\* A callback that ends with context x and with times set, and no more.
LEMMA TimesStep ==
  ASSUME Inv, serving, NEW c \in Contexts, NEW x \in Context,
         x.phase = "closed" <=> x.user = NULL, ctx' = [ctx EXCEPT ![c] = x],
         sessions' \in [Slots -> Session], Touched(sessions, sessions'),
         UNCHANGED <<now, serving, polled, users, coming, taken, logins, clash>>
  PROVE  Inv'
<1>1. ctx' \in [Contexts -> Context] /\ users' \in [Users -> User]
  BY AtCallback
<1>2. \A d \in Contexts : ctx'[d].phase = "closed" <=> ctx'[d].user = NULL
  <2>1. \A d \in Contexts : ctx[d].phase = "closed" <=> ctx[d].user = NULL
    BY DEF Inv, TypeOK
  <2>2. ctx \in [Contexts -> Context]
    BY AtCallback
  <2> QED BY <2>1, <2>2
<1>3. \A r \in Slots : TouchedSlot(sessions[r], sessions'[r])
  BY DEF Touched
<1>4. \A u \in Users : users'[u].cookie = users[u].cookie /\ users'[u].lastUse <= now
                       /\ users'[u].active = users[u].active /\ users'[u].lastUse = users[u].lastUse
  BY AtCallback
<1> QED BY <1>1, <1>2, <1>3, <1>4, QuietStep

LEMMA AcceptStep ==
  ASSUME Inv, NEW c \in Contexts, NEW u \in Users, OnHttpAccept(c, u)
  PROVE  Inv'
<1> DEFINE x == [ctx[c] EXCEPT !.phase = "idle", !.user = u]
<1>1. ctx[c] \in Context /\ ctx \in [Contexts -> Context] /\ NULL \notin Users
      /\ sessions \in [Slots -> Session]
  BY AtCallback
<1>2. x \in Context /\ x.phase = "idle" /\ x.user = u
  BY <1>1 DEF Context, Phases
<1>3. /\ serving /\ ctx' = [ctx EXCEPT ![c] = x] /\ sessions' = sessions
      /\ UNCHANGED <<now, serving, polled, users, coming, taken, logins, clash>>
  BY <1>1 DEF OnHttpAccept
<1>4. Touched(sessions, sessions)
  BY DEF Touched, TouchedSlot
<1> HIDE DEF x
<1> QED BY <1>1, <1>2, <1>3, <1>4, TimesStep

LEMMA RequestLineStep ==
  ASSUME Inv, NEW c \in Contexts, NEW caller, NEW check \in BOOLEAN,
         RequestLineReceived(caller, c, check)
  PROVE  Inv'
<1> DEFINE y == [ctx[c] EXCEPT !.checkAlive = check]
           p == IF caller = "fail" THEN "closed" ELSE "idle"
<1>1. /\ ctx' = [ctx EXCEPT ![c] = Moved(y, p)] /\ HasData(caller, c)
      /\ sessions' = After(caller, Before(caller, c), y)
      /\ UNCHANGED <<now, serving, polled, users, coming, taken, logins, clash>>
  BY DEF RequestLineReceived
<1>2. /\ serving /\ ctx[c].user \in Users /\ ctx[c] \in Context /\ ctx \in [Contexts -> Context]
      /\ sessions \in [Slots -> Session] /\ now \in Ticks
  BY <1>1, AtCallback, DataIsOfConnection
<1>3. y \in Context /\ y.user \in Users /\ p \in Phases
  BY <1>2 DEF Context, Phases
<1> HIDE DEF y, p
<1>4. Moved(y, p) \in Context /\ (Moved(y, p).phase = "closed" <=> Moved(y, p).user = NULL)
  BY <1>3, MovedContext
<1>5. sessions' \in [Slots -> Session] /\ Touched(sessions, sessions')
  BY <1>1, <1>2, <1>3, CallerTouches, TouchedTwice
<1> QED BY <1>1, <1>2, <1>4, <1>5, TimesStep

LEMMA PartStep ==
  ASSUME Inv, NEW c \in Contexts, PartReceived(c)
  PROVE  Inv'
<1> DEFINE p == IF ctx[c].phase = "queued" THEN "idle" ELSE ctx[c].phase
           x == [ctx[c] EXCEPT !.phase = p]
<1>1. /\ serving /\ ctx[c].user \in Users /\ ctx[c] \in Context /\ ctx \in [Contexts -> Context]
      /\ sessions \in [Slots -> Session] /\ now \in Ticks /\ NULL \notin Users
  BY AtCallback DEF PartReceived
<1>2. p \in Phases /\ p # "closed"
  BY <1>1 DEF PartReceived, Context, Phases
<1> HIDE DEF p
<1>3. x \in Context /\ x.phase # "closed" /\ x.user # NULL
  BY <1>1, <1>2 DEF Context
<1>4. /\ ctx' = [ctx EXCEPT ![c] = x] /\ sessions' = Received(sessions, ctx[c])
      /\ UNCHANGED <<now, serving, polled, users, coming, taken, logins, clash>>
  BY <1>1 DEF PartReceived, p
<1>5. sessions' \in [Slots -> Session] /\ Touched(sessions, sessions')
  BY <1>1, <1>4, TimesTouch
<1> HIDE DEF x
<1> QED BY <1>1, <1>3, <1>4, <1>5, TimesStep

LEMMA LoginHeadersStep ==
  ASSUME Inv, NEW c \in Contexts, NEW caller, NEW token \in Known(ctx[c].user),
         LoginHeaders(caller, c, token)
  PROVE  Inv'
<1> DEFINE y == Presented(c, token, FALSE)
           x == [y EXCEPT !.phase = "body"]
<1>1. /\ ctx' = [ctx EXCEPT ![c] = x] /\ HasData(caller, c)
      /\ sessions' = After(caller, Before(caller, c), x)
      /\ UNCHANGED <<now, serving, polled, users, coming, taken, logins, clash>>
  BY DEF LoginHeaders
<1>2. /\ serving /\ ctx[c].user \in Users /\ ctx \in [Contexts -> Context]
      /\ sessions \in [Slots -> Session] /\ now \in Ticks /\ NULL \notin Users
  BY <1>1, AtCallback, DataIsOfConnection
<1>3. y \in Context /\ y.user \in Users
  BY <1>2, KnownIsNat, PresentedContext
<1> HIDE DEF y
<1>4. x \in Context /\ x.phase = "body" /\ x.user \in Users
  BY <1>3 DEF Context, Phases
<1> HIDE DEF x
<1>5. sessions' \in [Slots -> Session] /\ Touched(sessions, sessions')
  BY <1>1, <1>2, <1>4, CallerTouches, TouchedTwice
<1> QED BY <1>1, <1>2, <1>4, <1>5, TimesStep

LEMMA LoginRefusedStep ==
  ASSUME Inv, NEW c \in Contexts, NEW caller, NEW token \in Known(ctx[c].user), NEW p \in Ended,
         LoginRefused(caller, c, token, p)
  PROVE  Inv'
<1> DEFINE x == IF ctx[c].phase = "body" THEN ctx[c] ELSE Presented(c, token, FALSE)
<1>1. /\ ctx' = [ctx EXCEPT ![c] = Moved(x, p)] /\ LoginEnds(caller, c)
      /\ sessions' = After(caller, Before(caller, c), x)
      /\ UNCHANGED <<now, serving, polled, users, coming, taken, logins, clash>>
  BY DEF LoginRefused
<1>2. /\ serving /\ ctx[c].user \in Users /\ ctx \in [Contexts -> Context] /\ ctx[c] \in Context
      /\ sessions \in [Slots -> Session] /\ now \in Ticks
  BY <1>1, AtCallback, DataIsOfConnection
<1>3. x \in Context /\ x.user \in Users /\ p \in Phases
  BY <1>2, KnownIsNat, PresentedContext DEF Ended, Phases
<1> HIDE DEF x
<1>4. Moved(x, p) \in Context /\ (Moved(x, p).phase = "closed" <=> Moved(x, p).user = NULL)
  BY <1>3, MovedContext
<1>5. sessions' \in [Slots -> Session] /\ Touched(sessions, sessions')
  BY <1>1, <1>2, <1>3, CallerTouches, TouchedTwice
<1> QED BY <1>1, <1>2, <1>4, <1>5, TimesStep

\* Late acknowledgements and ends of a response or of a connection.
LEMMA EndsStep ==
  ASSUME Inv, NEW c \in Contexts,
         OnHttpSentLate(c) \/ ConnectionLost(c) \/ \E p \in Ended : ResponseEnds(c, p)
  PROVE  Inv'
<1>1. /\ serving /\ ctx[c].user \in Users /\ ctx \in [Contexts -> Context] /\ ctx[c] \in Context
      /\ sessions \in [Slots -> Session] /\ now \in Ticks /\ NULL \notin Users
      /\ ctx[c].phase # "closed"
  BY AtCallback DEF OnHttpSentLate, ConnectionLost, ResponseEnds
<1>2. CASE OnHttpSentLate(c)
  <2>1. /\ ctx' = [ctx EXCEPT ![c] = ctx[c]] /\ sessions' = Sent(sessions, ctx[c])
        /\ UNCHANGED <<now, serving, polled, users, coming, taken, logins, clash>>
    BY <1>1, <1>2 DEF OnHttpSentLate
  <2>2. sessions' \in [Slots -> Session] /\ Touched(sessions, sessions')
    BY <1>1, <2>1, TimesTouch
  <2>3. ctx[c].phase = "closed" <=> ctx[c].user = NULL
    BY <1>1
  <2> QED BY <1>1, <2>1, <2>2, <2>3, TimesStep
<1>3. CASE ConnectionLost(c) \/ \E p \in Ended : ResponseEnds(c, p)
  <2>1. PICK p \in Ended :
          /\ ctx' = [ctx EXCEPT ![c] = Moved(ctx[c], p)] /\ sessions' = sessions
          /\ UNCHANGED <<now, serving, polled, users, coming, taken, logins, clash>>
    BY <1>1, <1>3 DEF ConnectionLost, ResponseEnds, Ended
  <2>2. /\ Moved(ctx[c], p) \in Context
        /\ Moved(ctx[c], p).phase = "closed" <=> Moved(ctx[c], p).user = NULL
    BY <1>1, MovedContext DEF Ended, Phases
  <2>3. Touched(sessions, sessions)
    BY DEF Touched, TouchedSlot
  <2> QED BY <1>1, <2>1, <2>2, <2>3, TimesStep
<1> QED BY <1>2, <1>3

\* A callback that sets times and may note that u uses its login, whose session it
\* has just received or sent for.
LEMMA UseStep ==
  ASSUME Inv, serving, NEW c \in Contexts, NEW x \in Context,
         x.phase = "closed" <=> x.user = NULL, ctx' = [ctx EXCEPT ![c] = x],
         sessions' \in [Slots -> Session], Touched(sessions, sessions'),
         NEW u \in Users, NEW used \in BOOLEAN,
         users' = IF used THEN [users EXCEPT ![u].lastUse = now] ELSE users,
         used => /\ users[u].cookie # 0
                 /\ \E s \in Slots : Holds(sessions', s, users[u].cookie, u, now),
         UNCHANGED <<now, serving, polled, coming, taken, logins, clash>>
  PROVE  Inv'
<1>1. /\ users \in [Users -> User] /\ now \in Nat /\ \A v \in Users : users[v].lastUse <= now
      /\ ctx \in [Contexts -> Context]
  BY AtCallback
<1>2. CASE ~used
  <2>1. users' = users
    BY <1>2
  <2> QED BY <2>1, TimesStep
<1>3. CASE used
  <2> DEFINE y == [users[u] EXCEPT !.lastUse = now]
  <2>1. /\ y \in User /\ y.cookie = users[u].cookie /\ y.active = users[u].active
        /\ y.lastUse = now
    BY <1>1 DEF User
  <2>2. users' = [users EXCEPT ![u] = y]
    BY <1>1, <1>3
  <2> HIDE DEF y
  <2>3. users' \in [Users -> User] /\ users'[u] = y /\ \A v \in Users : v # u => users'[v] = users[v]
    BY <1>1, <2>1, <2>2
  <2>4. \A v \in Users :
          /\ users'[v].cookie = users[v].cookie /\ users'[v].lastUse <= now
          /\ users'[v].active =>
               /\ users[v].active
               /\ \/ users'[v].lastUse = users[v].lastUse
                  \/ /\ users'[v].cookie # 0
                     /\ \E s \in Slots : Holds(sessions', s, users'[v].cookie, v, users'[v].lastUse)
    <3> TAKE v \in Users
    <3>1. CASE v = u
      <4>1. users'[v] = y /\ now <= now
        BY <1>1, <2>3, <3>1
      <4> QED BY <1>3, <2>1, <3>1, <4>1
    <3>2. CASE v # u
      <4>1. users'[v] = users[v]
        BY <2>3, <3>2
      <4> QED BY <1>1, <4>1
    <3> QED BY <3>1, <3>2
  <2>5. \A d \in Contexts : ctx'[d].phase = "closed" <=> ctx'[d].user = NULL
    <3>1. \A d \in Contexts : ctx[d].phase = "closed" <=> ctx[d].user = NULL
      BY DEF Inv, TypeOK
    <3> QED BY <1>1, <3>1
  <2>6. \A r \in Slots : TouchedSlot(sessions[r], sessions'[r])
    BY DEF Touched
  <2>7. ctx' \in [Contexts -> Context]
    BY <1>1
  <2> QED BY <2>3, <2>4, <2>5, <2>6, <2>7, QuietStep
<1> QED BY <1>2, <1>3

LEMMA PageStep ==
  ASSUME Inv, NEW c \in Contexts, NEW caller, NEW token \in Known(ctx[c].user),
         NEW check \in BOOLEAN, NEW p \in Ended \cup {"sending"},
         PageReceived(caller, c, token, check, p)
  PROVE  Inv'
<1> DEFINE x == Presented(c, token, check)
           u == ctx[c].user
           used == caller = "recv" /\ Uses(u, x)
<1>1. /\ HasData(caller, c) /\ ctx' = [ctx EXCEPT ![c] = Moved(x, p)]
      /\ sessions' = After(caller, Before(caller, c), x)
      /\ users' = IF caller = "recv" /\ Uses(x.user, x)
                  THEN [users EXCEPT ![x.user].lastUse = now] ELSE users
      /\ UNCHANGED <<now, serving, polled, coming, taken, logins, clash>>
  BY DEF PageReceived
<1>2. /\ serving /\ u \in Users /\ ctx \in [Contexts -> Context]
      /\ sessions \in [Slots -> Session] /\ now \in Ticks /\ now \in Nat /\ NULL \notin Users
  BY <1>1, AtCallback, DataIsOfConnection
<1>3. token \in Nat
  BY <1>2, KnownIsNat
<1>4. x \in Context /\ x.user = u /\ x.session = GetSession(sessions, token)
  BY <1>3, PresentedContext
<1> HIDE DEF x
<1>5. Moved(x, p) \in Context /\ (Moved(x, p).phase = "closed" <=> Moved(x, p).user = NULL)
  BY <1>2, <1>4, MovedContext DEF Ended, Phases
<1>6. sessions' \in [Slots -> Session] /\ Touched(sessions, sessions')
  BY <1>1, <1>2, <1>4, CallerTouches, TouchedTwice
<1>7. used => /\ users[u].cookie # 0
              /\ \E s \in Slots : Holds(sessions', s, users[u].cookie, u, now)
  <2> SUFFICES ASSUME used
               PROVE  /\ users[u].cookie # 0
                      /\ \E s \in Slots : Holds(sessions', s, users[u].cookie, u, now)
    OBVIOUS
  <2>1. /\ ~x.checkAlive /\ x.session # NULL /\ sessions[x.session].ip = u
        /\ sessions[x.session].token = users[u].cookie
    BY DEF Uses
  <2>2. x.session \in Slots /\ users[u].cookie # 0
    BY <1>2, <1>3, <1>4, <2>1, GetSessionFinds
  <2>3. sessions' = Received(sessions, x)
    BY <1>1 DEF After, Before
  <2>4. sessions'[x.session].received = now
    BY <1>2, <1>4, <2>1, <2>2, <2>3, TimesTouch
  <2>5. TouchedSlot(sessions[x.session], sessions'[x.session]) /\ now <= now
    BY <1>2, <1>6, <2>2 DEF Touched
  <2>6. Holds(sessions', x.session, users[u].cookie, u, now)
    BY <2>1, <2>4, <2>5 DEF Holds, TouchedSlot
  <2> QED BY <2>2, <2>6
<1>8. used \in BOOLEAN /\ users' = IF used THEN [users EXCEPT ![u].lastUse = now] ELSE users
  <2>1. used \in BOOLEAN
    BY DEF Uses
  <2>2. users' = IF caller = "recv" /\ Uses(u, x)
                 THEN [users EXCEPT ![u].lastUse = now] ELSE users
    BY <1>1, <1>4
  <2> QED BY <2>1, <2>2
<1> HIDE DEF used, u
<1> QED BY <1>1, <1>2, <1>5, <1>6, <1>7, <1>8, UseStep

LEMMA OnHttpSentStep ==
  ASSUME Inv, NEW c \in Contexts, NEW p \in Ended \cup {"sending"}, OnHttpSent(c, p)
  PROVE  Inv'
<1> DEFINE x == ctx[c]
           u == x.user
           used == Uses(u, x)
<1>1. /\ ctx' = [ctx EXCEPT ![c] = Moved(x, p)] /\ sessions' = Sent(sessions, x)
      /\ users' = IF used THEN [users EXCEPT ![u].lastUse = now] ELSE users
      /\ UNCHANGED <<now, serving, polled, coming, taken, logins, clash>>
  BY DEF OnHttpSent
<1>2. /\ serving /\ u \in Users /\ x \in Context /\ ctx \in [Contexts -> Context]
      /\ sessions \in [Slots -> Session] /\ now \in Ticks /\ now \in Nat /\ NULL \notin Users
  BY AtCallback DEF OnHttpSent
<1>3. x.session \in Slots \cup {NULL} /\ used \in BOOLEAN
  BY <1>2 DEF Context, Uses
<1> HIDE DEF x
<1>4. Moved(x, p) \in Context /\ (Moved(x, p).phase = "closed" <=> Moved(x, p).user = NULL)
  BY <1>2, MovedContext DEF Ended, Phases
<1>5. sessions' \in [Slots -> Session] /\ Touched(sessions, sessions')
  BY <1>1, <1>2, TimesTouch
<1>6. used => /\ users[u].cookie # 0
              /\ \E s \in Slots : Holds(sessions', s, users[u].cookie, u, now)
  <2> SUFFICES ASSUME used
               PROVE  /\ users[u].cookie # 0
                      /\ \E s \in Slots : Holds(sessions', s, users[u].cookie, u, now)
    OBVIOUS
  <2>1. /\ ~x.checkAlive /\ x.session \in Slots /\ x.session # NULL
        /\ sessions[x.session].ip = u /\ sessions[x.session].token = users[u].cookie
    BY <1>3 DEF Uses
  <2>2. users[u].cookie # 0
    <3>1. sessions[x.session].token = 0 => sessions[x.session] = Empty
      BY <2>1 DEF Inv, TypeOK
    <3> QED BY <1>2, <2>1, <3>1 DEF Empty
  <2>3. sessions'[x.session].sent = now
    BY <1>1, <1>2, <2>1, <2>2, TimesTouch
  <2>4. TouchedSlot(sessions[x.session], sessions'[x.session]) /\ now <= now
    BY <1>2, <1>5, <2>1 DEF Touched
  <2>5. Holds(sessions', x.session, users[u].cookie, u, now)
    BY <2>1, <2>3, <2>4 DEF Holds, TouchedSlot
  <2> QED BY <2>1, <2>2, <2>5
<1> HIDE DEF used, u
<1> QED BY <1>1, <1>2, <1>3, <1>4, <1>5, <1>6, UseStep

\* A cookie that comes with a request is of no other browser, and not on its way.
LEMMA KnownIsOwn ==
  ASSUME Inv, ~clash, NEW u \in Users, NEW token \in Known(u), token # 0, NEW v \in Users
  PROVE  /\ token = users[v].cookie => v = u
         /\ token \notin coming[v]
<1>1. Owned(sessions, users, coming)
  BY DEF Inv
<1>2. token \in Ticks
  BY KnownIsNat DEF Ticks
<1>3. ASSUME Holder(users, coming, v, token) PROVE v = u /\ token \notin coming[v]
  <2>1. CASE token = users[u].cookie
    <3>1. Holder(users, coming, u, token) /\ token \notin coming[u]
      BY <1>1, <2>1 DEF Owned, Holder
    <3>2. v = u
      BY <1>1, <1>2, <1>3, <3>1 DEF Owned
    <3> QED BY <3>1, <3>2
  <2>2. CASE token # users[u].cookie
    <3>1. PICK s \in Slots : sessions[s].ip = u /\ sessions[s].token = token /\ token \notin coming[u]
      BY <2>2 DEF Known
    <3>2. v = u
      BY <1>1, <1>3, <3>1 DEF Owned
    <3> QED BY <3>1, <3>2
  <2> QED BY <2>1, <2>2
<1> QED BY <1>3 DEF Holder

\* A logout ends the session of the cookie that came with it.
LEMMA LogoutStep ==
  ASSUME Inv, NEW c \in Contexts, NEW caller, NEW token \in Known(ctx[c].user), NEW p \in Ended,
         LogoutReceived(caller, c, token, p)
  PROVE  Inv'
<1> DEFINE x == Presented(c, token, FALSE)
           u == ctx[c].user
           s == x.session
           ss == Before(caller, c)
           tt == SessionKill(ss, s)
<1>1. /\ HasData(caller, c) /\ ctx' = [ctx EXCEPT ![c] = Moved(x, p)]
      /\ sessions' = After(caller, tt, x)
      /\ users' = [users EXCEPT ![x.user] = Stranger]
      /\ UNCHANGED <<now, serving, polled, coming, taken, logins, clash>>
  BY DEF LogoutReceived
<1>2. /\ serving /\ u \in Users /\ ctx \in [Contexts -> Context] /\ users \in [Users -> User]
      /\ sessions \in [Slots -> Session] /\ now \in Ticks /\ now \in Nat /\ NULL \notin Users
      /\ \A v \in Users : users[v].lastUse <= now
  BY <1>1, AtCallback, DataIsOfConnection
<1>3. token \in Nat
  BY <1>2, KnownIsNat
<1>4. x \in Context /\ x.user = u /\ s = GetSession(sessions, token)
  BY <1>3, PresentedContext
<1> HIDE DEF x
<1>5. s \in Slots \cup {NULL} /\ (s # NULL => sessions[s].token = token /\ token # 0)
  <2> HIDE DEF s
  <2> QED BY <1>2, <1>3, <1>4, GetSessionFinds
<1>6. Moved(x, p) \in Context /\ (Moved(x, p).phase = "closed" <=> Moved(x, p).user = NULL)
  BY <1>2, <1>4, MovedContext DEF Ended, Phases
<1>7. ss \in [Slots -> Session] /\ Touched(sessions, ss)
  BY <1>2, <1>4, CallerTouches
<1> HIDE DEF ss, s
<1>8. /\ tt \in [Slots -> Session]
      /\ \A r \in Slots : tt[r] = IF s # NULL /\ r = s THEN Empty ELSE ss[r]
  <2>1. Empty \in Session
    BY DEF Empty, Session
  <2> QED BY <1>5, <1>7, <2>1 DEF SessionKill
<1> HIDE DEF tt
<1>9. sessions' \in [Slots -> Session] /\ Touched(tt, sessions')
  BY <1>1, <1>2, <1>4, <1>8, CallerTouches
<1>10. \A r \in Slots : \/ TouchedSlot(sessions[r], sessions'[r])
                        \/ s # NULL /\ r = s /\ sessions'[r] = Empty
  <2> TAKE r \in Slots
  <2>1. TouchedSlot(sessions[r], ss[r]) /\ TouchedSlot(tt[r], sessions'[r])
    BY <1>7, <1>9 DEF Touched
  <2>2. CASE s # NULL /\ r = s
    <3>1. tt[r] = Empty /\ tt[r].token = 0
      BY <1>8, <2>2 DEF Empty
    <3> QED BY <2>1, <2>2, <3>1 DEF TouchedSlot
  <2>3. CASE ~(s # NULL /\ r = s)
    <3>1. tt[r] = ss[r]
      BY <1>8, <2>3
    <3>2. TouchedSlot(sessions[r], ss[r]) /\ TouchedSlot(ss[r], sessions'[r])
      BY <2>1, <3>1
    <3> QED BY <3>2 DEF TouchedSlot
  <2> QED BY <2>2, <2>3
<1>11. /\ users' = [users EXCEPT ![u] = Stranger]
       /\ Stranger \in User /\ Stranger.cookie = 0 /\ ~Stranger.active /\ Stranger.lastUse = 0
  BY <1>1, <1>4 DEF Stranger, User
<1>12. /\ users' \in [Users -> User] /\ users'[u] = Stranger
       /\ \A v \in Users : v # u => users'[v] = users[v]
  BY <1>2, <1>11
<1> HIDE DEF u
<1>13. \A v \in Users :
         /\ users'[v].cookie = users[v].cookie \/ users'[v].cookie = 0
         /\ users'[v].lastUse <= now
         /\ users'[v].active => /\ v # u /\ users[v].active /\ users'[v].cookie = users[v].cookie
                                /\ users'[v].lastUse = users[v].lastUse
  <2> TAKE v \in Users
  <2>1. CASE v = u
    BY <1>2, <1>11, <1>12, <2>1
  <2>2. CASE v # u
    BY <1>2, <1>12, <2>2
  <2> QED BY <2>1, <2>2
<1>14. \A r \in Slots :
         \/ TouchedSlot(sessions[r], sessions'[r])
         \/ /\ sessions'[r] = Empty
            /\ ~clash => \A v \in Users :
                 /\ users'[v].active => sessions[r].token # users[v].cookie
                 /\ sessions[r].token \notin coming[v]
  <2> SUFFICES ASSUME NEW r \in Slots, s # NULL, r = s, ~clash, NEW v \in Users
               PROVE  /\ users'[v].active => sessions[r].token # users[v].cookie
                      /\ sessions[r].token \notin coming[v]
    BY <1>10
  <2>1. sessions[r].token = token /\ token # 0
    BY <1>5
  <2>2. token \in Known(u)
    BY DEF u
  <2>3. (token = users[v].cookie => v = u) /\ token \notin coming[v]
    BY <1>2, <2>1, <2>2, KnownIsOwn
  <2> QED BY <1>13, <2>1, <2>3
<1>15. ctx' \in [Contexts -> Context] /\ \A d \in Contexts : ctx'[d].phase = "closed" <=> ctx'[d].user = NULL
  <2>1. \A d \in Contexts : ctx[d].phase = "closed" <=> ctx[d].user = NULL
    BY DEF Inv, TypeOK
  <2> QED BY <1>1, <1>2, <1>6, <2>1
<1> QED BY <1>1, <1>2, <1>9, <1>12, <1>13, <1>14, <1>15, QuietStep

\* A login whose token nobody holds yet.
LEMMA LoginStep ==
  ASSUME Inv, NEW c \in Contexts, NEW caller, NEW p \in Ended, LoginAccepted(caller, c, p)
  PROVE  Inv'
<1> DEFINE u == ctx[c].user
           slot == FreeSlot(sessions)
           ss == Before(caller, c)
           new == NewSession(u)
           x == [ctx[c] EXCEPT !.checkAlive = FALSE, !.session = slot]
<1>1. /\ LoginEnds(caller, c) /\ ctx' = [ctx EXCEPT ![c] = Moved(x, p)]
      /\ slot = NULL => sessions' = ss /\ UNCHANGED <<coming, taken, logins, clash>>
      /\ slot # NULL => /\ sessions' = [ss EXCEPT ![slot] = new]
                        /\ coming' = [coming EXCEPT ![u] = @ \cup {now}]
                        /\ logins < MaxLogins /\ logins' = logins + 1
                        /\ taken' = TRUE /\ clash' = (clash \/ taken)
      /\ UNCHANGED <<now, serving, polled, users>>
  BY DEF LoginAccepted
<1>2. /\ serving /\ u \in Users /\ ctx \in [Contexts -> Context] /\ ctx[c] \in Context
      /\ users \in [Users -> User] /\ sessions \in [Slots -> Session]
      /\ now \in Nat /\ now > 0 /\ now \in Ticks
  BY <1>1, AtCallback, DataIsOfConnection
<1>3. slot \in Slots \cup {NULL} /\ (slot # NULL => sessions[slot].token = 0)
  BY <1>2, FreeSlotIsEmpty
<1>4. /\ new \in Session /\ new.token = now /\ new.ip = u /\ new.received = now /\ new.sent = 0
  BY <1>2 DEF NewSession, Session
<1> HIDE DEF slot, new
<1>5. x \in Context /\ x.user = u
  BY <1>2, <1>3 DEF Context
<1> HIDE DEF x
<1>6. Moved(x, p) \in Context /\ (Moved(x, p).phase = "closed" <=> Moved(x, p).user = NULL)
  BY <1>2, <1>5, MovedContext DEF Ended, Phases
<1>7. ss \in [Slots -> Session] /\ Touched(sessions, ss)
  BY <1>2, CallerTouches
<1> HIDE DEF ss, u
<1>8. CASE slot = NULL
  BY <1>1, <1>2, <1>6, <1>7, <1>8, TimesStep
<1>9. CASE slot # NULL
  <2>1. /\ slot \in Slots /\ sessions[slot].token = 0
        /\ sessions' \in [Slots -> Session] /\ sessions'[slot] = new
        /\ \A r \in Slots : r # slot => sessions'[r] = ss[r]
    BY <1>1, <1>3, <1>4, <1>7, <1>9
  <2>2. /\ coming' = [coming EXCEPT ![u] = @ \cup {now}]
        /\ logins < MaxLogins /\ logins' = logins + 1
        /\ taken' = TRUE /\ clash' = (clash \/ taken)
        /\ UNCHANGED <<now, serving, polled, users>>
    BY <1>1, <1>9
  <2>3. coming \in [Users -> SUBSET Ticks]
    BY DEF Inv, TypeOK
  <2>4. /\ coming' \in [Users -> SUBSET Ticks] /\ coming'[u] = coming[u] \cup {now}
        /\ \A v \in Users : v # u => coming'[v] = coming[v]
    BY <1>2, <2>2, <2>3
  <2>5. \A r \in Slots :
          /\ sessions'[r].token = 0 => sessions'[r] = Empty
          /\ sessions'[r].token <= now /\ sessions'[r].received <= now /\ sessions'[r].sent <= now
          /\ sessions'[r].token # 0 => sessions'[r].received > 0
          /\ serving /\ polled =>
               ~(/\ Timeout > 0 /\ sessions'[r].token # 0 /\ sessions'[r].sent # 0
                 /\ now - sessions'[r].received > Timeout /\ now - sessions'[r].sent > Timeout)
    <3> TAKE r \in Slots
    <3>1. CASE r = slot
      BY <1>2, <1>4, <2>1, <3>1
    <3>2. CASE r # slot
      <4>1. sessions'[r] = ss[r] /\ ss[r] \in Session /\ TouchedSlot(sessions[r], ss[r])
        BY <1>7, <2>1, <3>2 DEF Touched
      <4> QED BY <4>1, SlotsAfter DEF Inv, Old
    <3> QED BY <3>1, <3>2
  <2>6. TypeOK'
    <3>1. logins' \in 0..MaxLogins
      BY <2>2, SessionsAssumption DEF Inv, TypeOK
    <3>2. ctx' \in [Contexts -> Context]
          /\ \A d \in Contexts : ctx'[d].phase = "closed" <=> ctx'[d].user = NULL
      <4>1. \A d \in Contexts : ctx[d].phase = "closed" <=> ctx[d].user = NULL
        BY DEF Inv, TypeOK
      <4> QED BY <1>1, <1>2, <1>6, <4>1
    <3> QED BY <2>1, <2>2, <2>4, <2>5, <3>1, <3>2 DEF Inv, TypeOK
  <2>7. Shape' /\ IdleSessionsEnd'
    BY <1>2, <2>2, <2>5 DEF Shape, IdleSessionsEnd, LeftAlone
  <2>8. Past'
    <3>1. \A v \in Users : users[v].cookie <= now /\ users[v].lastUse <= now
      BY DEF Inv, Past, Old
    <3>2. \A v \in Users : \A t \in coming'[v] : t <= now
      <4> TAKE v \in Users
      <4> TAKE t \in coming'[v]
      <4>1. CASE t \in coming[v]
        BY <4>1 DEF Inv, Past, Old
      <4>2. CASE t \notin coming[v]
        <5>1. t = now
          BY <2>4, <4>2
        <5> QED BY <1>2, <5>1
      <4> QED BY <4>1, <4>2
    <3> QED BY <2>2, <2>5, <3>1, <3>2 DEF Past, Old
  <2>9. ASSUME ~clash'
        PROVE  Owned(sessions', users, coming') /\ Kept(sessions', users, coming', now)
    <3>1. ~clash /\ ~taken /\ Owned(sessions, users, coming) /\ Kept(sessions, users, coming, now)
      BY <2>2, <2>9 DEF Inv
    <3>2. /\ \A r \in Slots : sessions[r].token \in Nat /\ sessions[r].token < now
          /\ \A v \in Users : /\ users[v].cookie \in Nat /\ users[v].cookie < now
                              /\ users[v].lastUse \in Nat
          /\ \A v \in Users : \A t \in coming[v] : t \in Nat /\ t # 0 /\ t < now
      BY <1>2, <2>3, <3>1 DEF Inv, Past, Old, Session, User, Ticks
    <3>3. \A r \in Slots : /\ ss[r].token = sessions[r].token /\ ss[r].ip = sessions[r].ip
                           /\ sessions[r].received <= ss[r].received
                           /\ sessions[r].sent <= ss[r].sent
      <4> TAKE r \in Slots
      <4>1. /\ sessions[r] \in Session /\ sessions[r].received <= now /\ sessions[r].sent <= now
            /\ TouchedSlot(sessions[r], ss[r])
        BY <1>2, <1>7 DEF Inv, Past, Touched
      <4> QED BY <1>2, <4>1 DEF TouchedSlot, Session
    <3>4. \A v \in Users : \A t : t # now => (Holder(users, coming', v, t) <=> Holder(users, coming, v, t))
      <4> TAKE v \in Users
      <4> TAKE t
      <4> HAVE t # now
      <4>1. t \in coming'[v] <=> t \in coming[v]
        BY <2>4
      <4> QED BY <4>1 DEF Holder
    <3>5. \A v \in Users : Holder(users, coming', v, now) <=> v = u
      <4> TAKE v \in Users
      <4>1. users[v].cookie # now /\ now \notin coming[v]
        BY <1>2, <3>2
      <4>2. now \in coming'[v] <=> v = u
        BY <2>4, <4>1
      <4> QED BY <4>1, <4>2 DEF Holder
    <3>6. Owned(sessions', users, coming')
      <4>1. \A s, r \in Slots :
              sessions'[s].token # 0 /\ sessions'[r].token = sessions'[s].token => r = s
        <5> TAKE s, r \in Slots
        <5>1. CASE s # slot /\ r # slot
          BY <2>1, <3>1, <3>3, <5>1 DEF Owned
        <5>2. CASE s = slot /\ r # slot
          BY <1>2, <1>4, <2>1, <3>2, <3>3, <5>2
        <5>3. CASE s # slot /\ r = slot
          BY <1>2, <1>4, <2>1, <3>2, <3>3, <5>3
        <5> QED BY <5>1, <5>2, <5>3
      <4>2. \A s \in Slots, v \in Users :
              sessions'[s].token # 0 /\ Holder(users, coming', v, sessions'[s].token)
                => sessions'[s].ip = v
        <5> TAKE s \in Slots, v \in Users
        <5>1. CASE s # slot
          <6>1. /\ sessions'[s].token = sessions[s].token /\ sessions'[s].ip = sessions[s].ip
                /\ sessions[s].token # now
            BY <1>2, <2>1, <3>2, <3>3, <5>1
          <6> QED BY <3>1, <3>4, <6>1 DEF Owned
        <5>2. CASE s = slot
          BY <1>4, <2>1, <3>5, <5>2
        <5> QED BY <5>1, <5>2
      <4>3. \A v, w \in Users, t \in Ticks :
              Holder(users, coming', v, t) /\ Holder(users, coming', w, t) => v = w
        <5> TAKE v, w \in Users, t \in Ticks
        <5>1. CASE t = now
          BY <3>5, <5>1
        <5>2. CASE t # now
          BY <3>1, <3>4, <5>2 DEF Owned
        <5> QED BY <5>1, <5>2
      <4>4. \A v \in Users : users[v].cookie \notin coming'[v]
        <5> TAKE v \in Users
        <5>1. users[v].cookie # now /\ users[v].cookie \notin coming[v]
          BY <1>2, <3>1, <3>2 DEF Owned
        <5> QED BY <2>4, <5>1
      <4> QED BY <4>1, <4>2, <4>3, <4>4 DEF Owned
    <3>7. \A r \in Slots, t \in Nat, v \in Users, a \in Nat :
            t # 0 /\ Holds(sessions, r, t, v, a) => Holds(sessions', r, t, v, a)
      <4> TAKE r \in Slots, t \in Nat, v \in Users, a \in Nat
      <4> HAVE t # 0 /\ Holds(sessions, r, t, v, a)
      <4>1. Holds(ss, r, t, v, a)
        BY <1>2, <1>7, <3>3, HoldsOn
      <4>2. r # slot
        BY <2>1 DEF Holds
      <4> QED BY <2>1, <4>1, <4>2 DEF Holds
    <3>8. ASSUME NEW v \in Users, users[v].active, Recent(now, users[v].lastUse)
          PROVE  /\ users[v].cookie # 0
                 /\ \E r \in Slots : Holds(sessions', r, users[v].cookie, v, users[v].lastUse)
      <4>1. /\ users[v].cookie # 0
            /\ \E r \in Slots : Holds(sessions, r, users[v].cookie, v, users[v].lastUse)
        BY <3>1, <3>8 DEF Kept
      <4>2. users[v].cookie \in Nat /\ users[v].lastUse \in Nat
        BY <3>2
      <4> QED BY <3>7, <4>1, <4>2
    <3>9. ASSUME NEW v \in Users, NEW t \in coming'[v], Recent(now, t)
          PROVE  \E r \in Slots : Holds(sessions', r, t, v, t)
      <4>1. CASE t \in coming[v]
        <5>1. t \in Nat /\ t # 0
          BY <3>2, <4>1
        <5>2. \E r \in Slots : Holds(sessions, r, t, v, t)
          BY <3>1, <3>9, <4>1 DEF Kept
        <5> QED BY <3>7, <5>1, <5>2
      <4>2. CASE t \notin coming[v]
        <5>1. t = now /\ v = u
          BY <2>4, <4>2
        <5>2. Holds(sessions', slot, now, u, now)
          BY <1>2, <1>4, <2>1 DEF Holds
        <5> QED BY <2>1, <5>1, <5>2
      <4> QED BY <4>1, <4>2
    <3> QED BY <3>6, <3>8, <3>9 DEF Kept
  <2> QED BY <2>2, <2>6, <2>7, <2>8, <2>9 DEF Inv
<1> QED BY <1>8, <1>9

\* The cookie of a login arrives: the browser holds the same tokens as before, but for
\* the one it had.
LEMMA CookieStep ==
  ASSUME Inv, NEW u \in Users, NEW token \in coming[u], CookieReceived(u, token)
  PROVE  Inv'
<1> DEFINE new == [cookie |-> token, active |-> TRUE, lastUse |-> token]
<1>1. /\ users \in [Users -> User] /\ coming \in [Users -> SUBSET Ticks] /\ now \in Nat
      /\ sessions \in [Slots -> Session]
  BY DEF Inv, TypeOK, Ticks
<1>2. token \in Nat /\ token # 0 /\ Old(token)
  BY <1>1 DEF Inv, Past, Ticks
<1>3. /\ users' = [users EXCEPT ![u] = new] /\ coming' = [coming EXCEPT ![u] = @ \ {token}]
      /\ UNCHANGED <<now, sessions, ctx, serving, polled, taken, logins, clash>>
  BY DEF CookieReceived
<1>4. new \in User /\ new.cookie = token /\ new.active /\ new.lastUse = token
  BY <1>2 DEF User
<1> HIDE DEF new
<1>5. /\ users' \in [Users -> User] /\ users'[u] = new
      /\ \A v \in Users : v # u => users'[v] = users[v]
  BY <1>1, <1>3, <1>4
<1>6. /\ coming' \in [Users -> SUBSET Ticks] /\ coming'[u] = coming[u] \ {token}
      /\ \A v \in Users : v # u => coming'[v] = coming[v]
  BY <1>1, <1>3
<1>7. TypeOK' /\ Shape' /\ IdleSessionsEnd'
  BY <1>3, <1>5, <1>6 DEF Inv, TypeOK, Shape, IdleSessionsEnd, LeftAlone
<1>8. Past'
  <2>1. token <= now
    BY <1>2 DEF Old
  <2>2. \A v \in Users : /\ Old(users'[v].cookie) /\ users'[v].lastUse <= now
                         /\ \A t \in coming'[v] : Old(t)
    <3> TAKE v \in Users
    <3>1. /\ Old(users[v].cookie) /\ users[v].lastUse <= now
          /\ \A t \in coming[v] : Old(t)
      BY DEF Inv, Past
    <3>2. CASE v = u
      BY <1>2, <1>4, <1>5, <1>6, <2>1, <3>1, <3>2
    <3>3. CASE v # u
      BY <1>5, <1>6, <3>1, <3>3
    <3> QED BY <3>2, <3>3
  <2>3. \A s \in Slots : /\ Old(sessions[s].token)
                         /\ sessions[s].received <= now /\ sessions[s].sent <= now
                         /\ sessions[s].token # 0 => sessions[s].received > 0
    BY DEF Inv, Past
  <2> QED BY <1>3, <2>2, <2>3 DEF Past, Old
<1>9. ASSUME ~clash
      PROVE  Owned(sessions, users', coming') /\ Kept(sessions, users', coming', now)
  <2>1. Owned(sessions, users, coming) /\ Kept(sessions, users, coming, now)
    BY <1>9 DEF Inv
  <2>2. \A v \in Users : \A t : Holder(users', coming', v, t) => Holder(users, coming, v, t)
    <3> TAKE v \in Users
    <3> TAKE t
    <3> HAVE Holder(users', coming', v, t)
    <3>1. CASE v = u
      BY <1>4, <1>5, <1>6, <3>1 DEF Holder
    <3>2. CASE v # u
      BY <1>5, <1>6, <3>2 DEF Holder
    <3> QED BY <3>1, <3>2
  <2>3. \A v \in Users : users'[v].cookie \notin coming'[v]
    <3> TAKE v \in Users
    <3>1. CASE v = u
      BY <1>4, <1>5, <1>6, <3>1
    <3>2. CASE v # u
      BY <1>5, <1>6, <2>1, <3>2 DEF Owned
    <3> QED BY <3>1, <3>2
  <2>4. Owned(sessions, users', coming')
    BY <2>1, <2>2, <2>3 DEF Owned
  <2>5. \A v \in Users : coming'[v] \subseteq coming[v]
    BY <1>6
  <2>6. ASSUME NEW v \in Users
        PROVE  /\ users'[v].active /\ Recent(now, users'[v].lastUse)
                    => /\ users'[v].cookie # 0
                       /\ \E s \in Slots : Holds(sessions, s, users'[v].cookie, v, users'[v].lastUse)
               /\ \A t \in coming'[v] : Recent(now, t) => \E s \in Slots : Holds(sessions, s, t, v, t)
    <3>1. CASE v = u
      <4>1. Recent(now, token) => \E s \in Slots : Holds(sessions, s, token, u, token)
        BY <2>1 DEF Kept
      <4>2. users'[v].cookie = token /\ users'[v].lastUse = token
        BY <1>4, <1>5, <3>1
      <4> QED BY <1>2, <2>1, <2>5, <3>1, <4>1, <4>2 DEF Kept
    <3>2. CASE v # u
      <4>1. users'[v] = users[v] /\ coming'[v] = coming[v]
        BY <1>5, <1>6, <3>2
      <4> QED BY <2>1, <4>1 DEF Kept
    <3> QED BY <3>1, <3>2
  <2> QED BY <2>4, <2>6 DEF Kept
<1> QED BY <1>3, <1>7, <1>8, <1>9 DEF Inv

-----------------------------------------------------------------------------
(* The main loop.                                                          *)

\* The check ends no session that was received or sent for within the timeout.
LEMMA PollStep ==
  ASSUME Inv, Poll
  PROVE  Inv'
<1>1. /\ serving /\ polled' = TRUE /\ sessions' = SessionCheck(sessions)
      /\ UNCHANGED <<now, ctx, serving, users, coming, taken, logins, clash>>
  BY DEF Poll
<1>2. /\ sessions \in [Slots -> Session] /\ users \in [Users -> User]
      /\ coming \in [Users -> SUBSET Ticks]
      /\ now \in Nat /\ now > 0 /\ Timeout \in Nat
  BY SessionsAssumption DEF Inv, TypeOK, Ticks
<1>3. \A s \in Slots : sessions'[s] = IF Expired(sessions[s]) THEN Empty ELSE sessions[s]
  BY <1>1 DEF SessionCheck
<1>4. sessions' \in [Slots -> Session]
  <2>1. Empty \in Session
    BY DEF Empty, Session
  <2>2. \A s \in Slots : (IF Expired(sessions[s]) THEN Empty ELSE sessions[s]) \in Session
    BY <1>2, <2>1
  <2> QED BY <1>1, <2>2 DEF SessionCheck
<1>5. \A s \in Slots :
        /\ sessions[s].token = 0 => sessions[s] = Empty
        /\ Old(sessions[s].token) /\ sessions[s].received <= now /\ sessions[s].sent <= now
        /\ sessions[s].token # 0 => sessions[s].received > 0
        /\ sessions[s].received \in Nat /\ sessions[s].sent \in Nat /\ sessions[s].token \in Nat
  BY <1>2 DEF Inv, TypeOK, Past, Session
<1>6. TypeOK'
  <2>1. \A s \in Slots : sessions'[s].token = 0 => sessions'[s] = Empty
    BY <1>3, <1>5
  <2> QED BY <1>1, <1>4, <2>1 DEF Inv, TypeOK
<1>7. Shape'
  BY <1>1 DEF Inv, Shape
<1>8. Past'
  <2>1. \A s \in Slots : /\ Old(sessions'[s].token)
                         /\ sessions'[s].received <= now /\ sessions'[s].sent <= now
                         /\ sessions'[s].token # 0 => sessions'[s].received > 0
    BY <1>2, <1>3, <1>5 DEF Old, Empty
  <2> QED BY <1>1, <2>1 DEF Inv, Past, Old
<1>9. IdleSessionsEnd'
  <2> SUFFICES ASSUME NEW s \in Slots, LeftAlone(s)' PROVE FALSE
    BY DEF IdleSessionsEnd
  <2>1. /\ Timeout > 0 /\ sessions'[s].token # 0 /\ sessions'[s].sent # 0
        /\ now - sessions'[s].received > Timeout /\ now - sessions'[s].sent > Timeout
    BY <1>1 DEF LeftAlone
  <2>2. sessions'[s] = sessions[s] /\ ~Expired(sessions[s])
    BY <1>3, <2>1 DEF Empty
  <2> QED BY <1>2, <1>5, <2>1, <2>2 DEF Expired, Elapsed
<1>10. ASSUME ~clash
       PROVE  Owned(sessions', users, coming) /\ Kept(sessions', users, coming, now)
  <2>1. Owned(sessions, users, coming) /\ Kept(sessions, users, coming, now)
    BY <1>10 DEF Inv
  <2>2. \A s \in Slots : sessions'[s].token # 0 => /\ sessions'[s].token = sessions[s].token
                                                   /\ sessions'[s].ip = sessions[s].ip
    BY <1>3, <1>5 DEF Empty
  <2>3. Owned(sessions', users, coming)
    BY <1>2, <1>4, <2>1, <2>2, OwnedLess
  <2>4. \A s \in Slots, t \in Nat, v \in Users, a \in Nat :
          t # 0 /\ Holds(sessions, s, t, v, a) /\ Recent(now, a) => Holds(sessions', s, t, v, a)
    <3> TAKE s \in Slots, t \in Nat, v \in Users, a \in Nat
    <3> HAVE t # 0 /\ Holds(sessions, s, t, v, a) /\ Recent(now, a)
    <3>1. /\ sessions[s].token # 0 /\ now - a <= Timeout
          /\ a <= sessions[s].received \/ a <= sessions[s].sent
      BY DEF Holds, Recent
    <3>2. ~Expired(sessions[s])
      BY <1>2, <1>5, <3>1 DEF Expired, Elapsed
    <3> QED BY <1>3, <3>2 DEF Holds
  <2>5. ASSUME NEW v \in Users, users[v].active, Recent(now, users[v].lastUse)
        PROVE  /\ users[v].cookie # 0
               /\ \E s \in Slots : Holds(sessions', s, users[v].cookie, v, users[v].lastUse)
    <3>1. users[v].cookie \in Nat /\ users[v].lastUse \in Nat
      BY <1>2 DEF User
    <3>2. /\ users[v].cookie # 0
          /\ \E s \in Slots : Holds(sessions, s, users[v].cookie, v, users[v].lastUse)
      BY <2>1, <2>5 DEF Kept
    <3> QED BY <2>4, <2>5, <3>1, <3>2
  <2>6. ASSUME NEW v \in Users, NEW t \in coming[v], Recent(now, t)
        PROVE  \E s \in Slots : Holds(sessions', s, t, v, t)
    <3>1. t \in Nat /\ t # 0
      BY <1>2 DEF Ticks
    <3>2. \E s \in Slots : Holds(sessions, s, t, v, t)
      BY <2>1, <2>6 DEF Kept
    <3> QED BY <2>4, <2>6, <3>1, <3>2
  <2> QED BY <2>3, <2>5, <2>6 DEF Kept
<1> QED BY <1>1, <1>6, <1>7, <1>8, <1>9, <1>10 DEF Inv

LEMMA TickStep ==
  ASSUME Inv, Tick
  PROVE  Inv'
<1>1. /\ now' = now + 1 /\ taken' = FALSE /\ polled' = FALSE
      /\ UNCHANGED <<sessions, ctx, serving, users, coming, logins, clash>>
  BY DEF Tick
<1>2. /\ sessions \in [Slots -> Session] /\ users \in [Users -> User]
      /\ coming \in [Users -> SUBSET Ticks] /\ now \in Nat /\ now > 0
  BY DEF Inv, TypeOK, Ticks
<1>3. TypeOK'
  <2>1. now' \in Ticks
    <3>1. now' = now + 1
      BY <1>1
    <3> QED BY <1>2, <3>1 DEF Ticks
  <2>2. /\ polled' \in BOOLEAN /\ taken' \in BOOLEAN
        /\ sessions' = sessions /\ ctx' = ctx /\ serving' = serving /\ users' = users
        /\ coming' = coming /\ logins' = logins /\ clash' = clash
    BY <1>1
  <2>3. TypeOK
    BY DEF Inv
  <2> QED BY <2>1, <2>2, <2>3 DEF TypeOK
<1>4. Shape' /\ IdleSessionsEnd'
  BY <1>1 DEF Inv, Shape, IdleSessionsEnd
<1>5. Past'
  <2>1. \A s \in Slots : /\ sessions[s].token < now + 1
                         /\ sessions[s].received <= now + 1 /\ sessions[s].sent <= now + 1
                         /\ sessions[s].token # 0 => sessions[s].received > 0
    BY <1>2 DEF Inv, Past, Old, Session
  <2>2. \A v \in Users : /\ users[v].cookie < now + 1 /\ users[v].lastUse <= now + 1
                         /\ \A t \in coming[v] : t < now + 1
    BY <1>2 DEF Inv, Past, Old, User, Ticks
  <2>3. \A n \in Int : n < now + 1 => n <= now + 1
    BY <1>2
  <2> QED BY <1>1, <1>2, <2>1, <2>2, <2>3 DEF Past, Old, Session, User, Ticks
<1>6. ASSUME ~clash
      PROVE  Owned(sessions, users, coming) /\ Kept(sessions, users, coming, now + 1)
  <2>1. Owned(sessions, users, coming) /\ Kept(sessions, users, coming, now)
    BY <1>6 DEF Inv
  <2>2. /\ now + 1 \in Nat /\ now <= now + 1
        /\ \A s \in Slots : /\ sessions[s].received <= sessions[s].received
                            /\ sessions[s].sent <= sessions[s].sent
    BY <1>2 DEF Session
  <2>3. Kept(sessions, users, coming, now + 1)
    BY <1>2, <2>1, <2>2, KeptLess, SMTT(60)
  <2> QED BY <2>1, <2>3
<1> QED BY <1>1, <1>3, <1>4, <1>5, <1>6 DEF Inv

LEMMA StartStep ==
  ASSUME Inv, Start
  PROVE  Inv'
<1>1. /\ ~serving /\ serving' = TRUE
      /\ UNCHANGED <<now, sessions, ctx, polled, users, coming, taken, logins, clash>>
  BY DEF Start
<1>2. \A s \in Slots : sessions[s].token = 0
  BY <1>1 DEF Inv, Shape, Empty
<1>3. TypeOK' /\ Shape'
  BY <1>1 DEF Inv, TypeOK, Shape
<1>4. Past'
  BY <1>1 DEF Inv, Past, Old
<1>5. IdleSessionsEnd'
  BY <1>1, <1>2 DEF IdleSessionsEnd, LeftAlone
<1> QED BY <1>1, <1>3, <1>4, <1>5 DEF Inv

LEMMA StopStep ==
  ASSUME Inv, Stop
  PROVE  Inv'
<1> DEFINE out(x) == [x EXCEPT !.active = FALSE, !.lastUse = 0]
<1>1. /\ serving' = FALSE
      /\ ctx' = [c \in Contexts |-> Moved(ctx[c], "closed")]
      /\ sessions' = [s \in Slots |-> Empty]
      /\ users' = [u \in Users |-> out(users[u])]
      /\ coming' = [u \in Users |-> {}]
      /\ UNCHANGED <<now, polled, taken, logins, clash>>
  BY DEF Stop
<1>2. /\ users \in [Users -> User] /\ ctx \in [Contexts -> Context] /\ now \in Nat /\ now > 0
      /\ coming \in [Users -> SUBSET Ticks] /\ sessions \in [Slots -> Session]
  BY DEF Inv, TypeOK, Ticks
<1>3. \A x \in Context : /\ Moved(x, "closed") \in Context /\ Moved(x, "closed").phase = "closed"
                         /\ Moved(x, "closed").user = NULL
  BY DEF Context, Phases, Moved
<1>4. \A x \in User : /\ out(x) \in User /\ ~out(x).active /\ out(x).lastUse = 0
                      /\ out(x).cookie = x.cookie
  BY DEF User
<1> HIDE DEF out
<1>5. /\ ctx' \in [Contexts -> Context]
      /\ \A c \in Contexts : ctx'[c].phase = "closed" /\ ctx'[c].user = NULL
  BY <1>1, <1>2, <1>3
<1>6. /\ users' \in [Users -> User]
      /\ \A u \in Users : /\ ~users'[u].active /\ users'[u].lastUse = 0
                          /\ users'[u].cookie = users[u].cookie
  BY <1>1, <1>2, <1>4
<1>7. /\ sessions' \in [Slots -> Session] /\ \A s \in Slots : sessions'[s] = Empty
      /\ \A s \in Slots : /\ sessions'[s].token = 0 /\ sessions'[s].received = 0
                          /\ sessions'[s].sent = 0
  BY <1>1 DEF Empty, Session
<1>8. coming' \in [Users -> SUBSET Ticks] /\ \A u \in Users : coming'[u] = {}
  BY <1>1
<1>9. TypeOK' /\ Shape'
  BY <1>1, <1>5, <1>6, <1>7, <1>8 DEF Inv, TypeOK, Shape
<1>10. Past'
  <2>1. Old(0) /\ 0 <= now
    BY <1>2 DEF Old
  <2>2. \A u \in Users : Old(users[u].cookie)
    BY DEF Inv, Past
  <2> QED BY <1>1, <1>6, <1>7, <1>8, <2>1, <2>2 DEF Past, Old
<1>11. IdleSessionsEnd'
  BY <1>1 DEF IdleSessionsEnd
<1>12. ASSUME ~clash
       PROVE  Owned(sessions', users', coming') /\ Kept(sessions', users', coming', now)
  <2>1. Owned(sessions, users, coming)
    BY <1>12 DEF Inv
  <2>2. Owned(sessions', users', coming')
    <3>1. \A u \in Users : /\ coming'[u] \subseteq coming[u]
                           /\ users'[u].cookie # 0 => users'[u].cookie = users[u].cookie
      BY <1>6, <1>8
    <3>2. \A s \in Slots : sessions'[s].token # 0 => /\ sessions'[s].token = sessions[s].token
                                                     /\ sessions'[s].ip = sessions[s].ip
      BY <1>7
    <3>3. /\ sessions' \in [Slots -> Session] /\ users' \in [Users -> User]
          /\ coming' \in [Users -> SUBSET Ticks]
      BY <1>6, <1>7, <1>8
    <3> QED BY <1>2, <2>1, <3>1, <3>2, <3>3, OwnedLess
  <2> QED BY <1>6, <1>8, <2>2 DEF Kept
<1> QED BY <1>1, <1>9, <1>10, <1>11, <1>12 DEF Inv

-----------------------------------------------------------------------------
(* The theorems.                                                           *)

LEMMA InitInv ==
  ASSUME Init
  PROVE  Inv
<1> USE DEF Init
<1>1. TypeOK /\ Shape
  <2>1. Empty \in Session /\ Empty.token = 0
    BY DEF Empty, Session
  <2>2. Closed \in Context /\ Closed.phase = "closed" /\ Closed.user = NULL
    BY DEF Closed, Context, Phases
  <2>3. Stranger \in User
    BY DEF Stranger, User
  <2>4. now \in Ticks /\ logins \in 0..MaxLogins
    BY SessionsAssumption DEF Ticks
  <2> QED BY <2>1, <2>2, <2>3, <2>4 DEF TypeOK, Shape
<1>2. Past
  BY DEF Past, Old, Empty, Stranger
<1>3. Owned(sessions, users, coming)
  BY DEF Owned, Holder, Empty, Stranger, Ticks
<1>4. Kept(sessions, users, coming, now)
  BY DEF Kept, Stranger
<1>5. IdleSessionsEnd
  BY DEF IdleSessionsEnd
<1> QED BY <1>1, <1>2, <1>3, <1>4, <1>5 DEF Inv

LEMMA RequestStep ==
  ASSUME Inv, NEW c \in Contexts, NEW caller \in Callers, RequestNext(caller, c)
  PROVE  Inv'
<1>1. CASE \/ \E check \in BOOLEAN : RequestLineReceived(caller, c, check)
           \/ \E p \in Ended : LoginAccepted(caller, c, p)
  BY <1>1, RequestLineStep, LoginStep
<1>2. CASE \E token \in Known(ctx[c].user) :
             \/ LoginHeaders(caller, c, token)
             \/ \E p \in Ended : LogoutReceived(caller, c, token, p) \/ LoginRefused(caller, c, token, p)
  BY <1>2, LoginHeadersStep, LogoutStep, LoginRefusedStep
<1>3. CASE \E token \in Known(ctx[c].user), p \in Ended \cup {"sending"}, check \in BOOLEAN :
             PageReceived(caller, c, token, check, p)
  BY <1>3, PageStep
<1> QED BY <1>1, <1>2, <1>3 DEF RequestNext

LEMMA NextInv ==
  ASSUME Inv, [Next]_vars
  PROVE  Inv'
<1>1. CASE \E c \in Contexts :
             \/ \E u \in Users : OnHttpAccept(c, u)
             \/ \E caller \in Callers : RequestNext(caller, c)
             \/ PartReceived(c)
             \/ \E p \in Ended \cup {"sending"} : OnHttpSent(c, p)
             \/ \E p \in Ended : ResponseEnds(c, p)
             \/ OnHttpSentLate(c)
             \/ ConnectionLost(c)
  BY <1>1, AcceptStep, RequestStep, PartStep, OnHttpSentStep, EndsStep
<1>2. CASE \E u \in Users : \E token \in coming[u] : CookieReceived(u, token)
  BY <1>2, CookieStep
<1>3. CASE Poll \/ Tick \/ Start \/ Stop
  BY <1>3, PollStep, TickStep, StartStep, StopStep
<1>4. CASE UNCHANGED vars
  <2>1. UNCHANGED <<now, sessions, ctx, serving, polled, users, coming, taken, logins, clash>>
    BY <1>4 DEF vars
  <2> QED BY <2>1 DEF Inv, TypeOK, Shape, Past, Old, IdleSessionsEnd, LeftAlone
<1> QED BY <1>1, <1>2, <1>3, <1>4 DEF Next

\* The invariant holds in every state.
THEOREM SpecInv == Spec => []Inv
<1>1. Init => Inv
  BY InitInv
<1>2. Inv /\ [Next]_vars => Inv'
  BY NextInv
<1> QED BY <1>1, <1>2, PTL DEF Spec

\* Whatever callbacks and main loop do to them, slots, contexts and cookies keep
\* their types, and an empty slot is empty in all its fields.
THEOREM TypeCorrect == Spec => []TypeOK
<1>1. Inv => TypeOK
  BY DEF Inv
<1> QED BY <1>1, SpecInv, PTL

\* GetSession gives a browser no session of another one, unless two logins have
\* shared a tick.
THEOREM CookiesOpenTheirOwn == Spec => []CookieOpensOwn
<1>1. ASSUME Inv PROVE CookieOpensOwn
  <2> SUFFICES ASSUME NEW u \in Users, ~clash, GetSession(sessions, users[u].cookie) # NULL
               PROVE  sessions[GetSession(sessions, users[u].cookie)].ip = u
    BY DEF CookieOpensOwn
  <2> DEFINE s == GetSession(sessions, users[u].cookie)
  <2>1. sessions \in [Slots -> Session] /\ users[u].cookie \in Nat
    BY <1>1 DEF Inv, TypeOK, User
  <2>2. s \in Slots /\ sessions[s].token = users[u].cookie /\ users[u].cookie # 0
    BY <2>1, GetSessionFinds
  <2>3. Owned(sessions, users, coming)
    BY <1>1 DEF Inv
  <2> HIDE DEF s
  <2>4. sessions[s].ip = u
    BY <2>2, <2>3 DEF Owned, Holder
  <2> QED BY <2>4 DEF s
<1> QED BY <1>1, SpecInv, PTL

\* The session of a login outlives every request of others, every reuse of a slot
\* and every check of the main loop for as long as OnHttpReceive takes pages of its
\* browser, or OnHttpSent acknowledgements of them, no further apart than the timeout.
THEOREM LoginsLast == Spec => []StaysLoggedIn
<1>1. ASSUME Inv PROVE StaysLoggedIn
  <2> SUFFICES ASSUME NEW u \in Users, ~clash, users[u].active, now - users[u].lastUse <= Timeout
               PROVE  LET s == GetSession(sessions, users[u].cookie)
                      IN  s # NULL /\ sessions[s].ip = u
    BY DEF StaysLoggedIn
  <2> DEFINE s == GetSession(sessions, users[u].cookie)
  <2>1. sessions \in [Slots -> Session] /\ users[u].cookie \in Nat
    BY <1>1 DEF Inv, TypeOK, User
  <2>2. Owned(sessions, users, coming) /\ Kept(sessions, users, coming, now)
    BY <1>1 DEF Inv
  <2>3. users[u].cookie # 0 /\ \E r \in Slots : sessions[r].token = users[u].cookie
    BY <2>2 DEF Kept, Recent, Holds
  <2>4. s \in Slots /\ sessions[s].token = users[u].cookie /\ s # NULL
    BY <2>1, <2>3, GetSessionFinds
  <2> HIDE DEF s
  <2>5. sessions[s].ip = u
    BY <2>2, <2>3, <2>4 DEF Owned, Holder
  <2> QED BY <2>4, <2>5 DEF s
<1> QED BY <1>1, SpecInv, PTL

\* No slot is left alone behind a check of the main loop.
THEOREM AbandonedSessionsEnd == Spec => []IdleSessionsEnd
<1>1. Inv => IdleSessionsEnd
  BY DEF Inv
<1> QED BY <1>1, SpecInv, PTL
=============================================================================
