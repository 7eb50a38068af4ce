------------------------------- MODULE Device -------------------------------
(***************************************************************************)
(* The settings of the device: the running copy and the copy for editing   *)
(* of port_device.c, the form of cgi_form.c that edits the one and applies *)
(* it to the other, the address that DHCP brings, and main(), which stops  *)
(* and starts the service with g_ipIsReady.                                *)
(*                                                                         *)
(* All connections edit one copy: fields are set as they arrive, and what  *)
(* is applied at the end of a form is whatever the copy holds then.  A     *)
(* field is read in place in the buffer of its connection, which holds     *)
(* more than the field.                                                    *)
(* Everything runs inside poll_network(), which both loops of main() call  *)
(* while their condition holds; a call takes one frame, and then runs the  *)
(* timers, with the polls of all connections.                              *)
(***************************************************************************)
EXTENDS Integers, FiniteSets

CONSTANTS
  Contexts,      \* the context pool
  Texts,         \* values of the settings that are only shown
  NoText,        \* what they are at start
  Behind,        \* what a text may become with other bytes behind it
  Leases,        \* addresses that DHCP may bring
  NoAddress,     \* 0.0.0.0
  MaxPerCall,    \* bound: fields that one call of WEB_OnFormReceived sets
  NULL

Settings == [dhcp : BOOLEAN, text : Texts]

ASSUME DeviceAssumption ==
  /\ NoText \in Texts /\ NoAddress \notin Leases /\ NULL \notin Settings
  /\ Behind \in [Texts -> SUBSET Texts] /\ \A t \in Texts : t \in Behind[t]
  /\ MaxPerCall \in Nat

VARIABLES
  serving,       \* main() is in its second loop, between HttpdInit and HttpdStop
  ipReady,       \* g_ipIsReady
  lease,         \* the address of main_netif
  work,          \* g_WorkConfig
  temp,          \* g_TempConfig
  form           \* what each context does with the form

deviceVars == <<serving, ipReady, lease, work, temp, form>>

(* text stands for location, color, date, font, log and session timeout.   *)
Config == [dhcp : BOOLEAN, text : Texts, ip : Leases \cup {NoAddress}]
Fields == {"dhcp", "text", "ip"}

(* parsed: an earlier call has set fields, whose bytes are still in the     *)
(* buffer, behind the unfinished one.                                        *)
(* History: want is the settings as they were when the form began, with the *)
(* fields it has posted since; NULL if the copy did not hold them then, or   *)
(* somebody else has touched it since.  tail: of the fields it wants, those  *)
(* whose value was last read with bytes behind it that may change it.        *)
Form == [phase : {"none", "posting", "page"}, parsed : BOOLEAN,
         want : Settings \cup {NULL}, tail : SUBSET {"dhcp", "text"}]
NoForm == [phase |-> "none", parsed |-> FALSE, want |-> NULL, tail |-> {}]

\* InitDevInfo: DHCP is on, and LwipInit has started it.
Init ==
  /\ serving = FALSE
  /\ ipReady = FALSE
  /\ lease = NoAddress
  /\ work = [dhcp |-> TRUE, text |-> NoText, ip |-> NoAddress]
  /\ temp = work
  /\ form = [c \in Contexts |-> NoForm]

-----------------------------------------------------------------------------
(* port_device.c.                                                          *)

\* The condition of the loop that main() is in still holds, so that it takes a frame.
Polling == serving = ipReady

\* The setters of the fields in set; an address is not parsed.
Set(config, set, v) ==
  [dhcp |-> IF "dhcp" \in set THEN v.dhcp ELSE config.dhcp,
   text |-> IF "text" \in set THEN v.text ELSE config.text,
   ip   |-> IF "ip" \in set THEN NoAddress ELSE config.ip]

SettingsOf(config) == [dhcp |-> config.dhcp, text |-> config.text]

(* What a call of WEB_OnFormReceived sets: the fields in set, to the values  *)
(* in v; those in escaped were decoded in place, which leaves their last     *)
(* bytes behind them.  Any values stand for the fields that are not in set. *)
Calls == {p \in [set : SUBSET Fields, v : Settings, escaped : SUBSET {"dhcp", "text"}] :
            /\ p.set # {} /\ Cardinality(p.set) <= MaxPerCall /\ p.escaped \subseteq p.set
            /\ "dhcp" \notin p.set => p.v.dhcp
            /\ "text" \notin p.set => p.v.text = NoText}

\* Of the fields in tail, which have bytes behind them, those whose setter may see
\* another value: 0 for DHCP may become 1, but 1 is taken as it is.
Unsure(v, tail) == {f \in {"dhcp", "text"} \cap tail : f = "dhcp" => ~v.dhcp}

\* What the setters may see of the values v.
Seen(v, tail) ==
  [dhcp : IF "dhcp" \in Unsure(v, tail) THEN BOOLEAN ELSE {v.dhcp},
   text : IF "text" \in Unsure(v, tail) THEN Behind[v.text] ELSE {v.text}]

\* History: the fields in set were posted; the addresses are not what a form decides.
Want(want, set, v) ==
  IF want = NULL THEN NULL
  ELSE [dhcp |-> IF "dhcp" \in set THEN v.dhcp ELSE want.dhcp,
        text |-> IF "text" \in set THEN v.text ELSE want.text]

\* The form after such a call.
Posted(x, p, tail) ==
  [x EXCEPT !.parsed = TRUE, !.want = Want(@, p.set, p.v),
            !.tail = IF x.want = NULL THEN {} ELSE (@ \ p.set) \cup Unsure(p.v, tail)]

\* History: a step of c with the copy disturbs the forms of the others.
Disturbed(c, x) ==
  [d \in Contexts |-> IF d = c THEN x ELSE [form[d] EXCEPT !.want = NULL, !.tail = {}]]

\* AppyConfig, with the copy after the last field.
AppyConfig(copy) ==
  /\ work' = copy
  /\ ipReady' = (ipReady /\ work.dhcp = copy.dhcp)

-----------------------------------------------------------------------------
(* The form.                                                               *)

\* LoadConfig4Edit at the headers of a GET; the page follows.
FormGet(c) ==
  /\ serving
  /\ form[c].phase = "none"
  /\ temp' = work
  /\ form' = Disturbed(c, [NoForm EXCEPT !.phase = "page"])
  /\ UNCHANGED <<serving, ipReady, lease, work>>

\* The headers of a POST leave the copy as it is, and clear the buffer.
FormPost(c) ==
  /\ serving
  /\ form[c].phase = "none"
  /\ form' = [form EXCEPT ![c] = [NoForm EXCEPT !.phase = "posting",
                 !.want = IF SettingsOf(temp) = SettingsOf(work) THEN SettingsOf(work) ELSE NULL]]
  /\ UNCHANGED <<serving, ipReady, lease, work, temp>>

\* Variant: the separator behind a value is not replaced by a zero.
FormReceivedOpen(c, p) ==
  /\ serving
  /\ form[c].phase = "posting"
  /\ \E seen \in Seen(p.v, p.set) : temp' = Set(temp, p.set, seen)
  /\ form' = Disturbed(c, Posted(form[c], p, p.escaped))
  /\ UNCHANGED <<serving, ipReady, lease, work>>

\* WEB_OnFormReceived before the end of the body: some fields have their separator
\* now.  A call that completes none only fills the buffer.
FormReceived(c, p) ==
  /\ serving
  /\ form[c].phase = "posting"
  /\ \E seen \in Seen(p.v, p.escaped) : temp' = Set(temp, p.set, seen)
  /\ form' = Disturbed(c, Posted(form[c], p, p.escaped))
  /\ UNCHANGED <<serving, ipReady, lease, work>>

\* Form_OnRequestReceived, with what the copy holds at the end of the body.
Apply(c, copy, x) ==
  /\ serving
  /\ form[c].phase = "posting"
  /\ temp' = copy
  /\ AppyConfig(copy)
  /\ form' = Disturbed(c, [x EXCEPT !.phase = "page", !.parsed = FALSE])
  /\ UNCHANGED <<serving, lease>>

\* What has bytes behind it in the call that ends the body: the last field has no
\* separator, and goes on to the first zero in the buffer.
TailAtEnd(c, p, last) == p.escaped \cup (IF form[c].parsed THEN {last} ELSE {})

\* WEB_OnFormReceived at the end of the body, which applies in the same callback; a
\* body may also be empty.
FormEnd(c) ==
  \/ ~form[c].parsed /\ Apply(c, temp, form[c])
  \/ \E p \in Calls : \E last \in p.set : \E seen \in Seen(p.v, TailAtEnd(c, p, last)) :
       Apply(c, Set(temp, p.set, seen), Posted(form[c], p, TailAtEnd(c, p, last)))

\* The response is sent, or the connection of a form or a page is lost: what it
\* has set stays in the copy.
FormLeft(c) ==
  /\ serving
  /\ form[c].phase # "none"
  /\ form' = [form EXCEPT ![c] = NoForm]
  /\ UNCHANGED <<serving, ipReady, lease, work, temp>>

-----------------------------------------------------------------------------
(* DHCP and main().                                                        *)

\* Variant: the lease only reaches the settings while DHCP is on in them.
BindIfEnabled(a) ==
  /\ Polling
  /\ lease' = a
  /\ work' = IF work.dhcp THEN [work EXCEPT !.ip = a] ELSE work
  /\ ipReady' = (work.dhcp \/ ipReady)
  /\ UNCHANGED <<serving, temp, form>>

\* Variant: without DHCP the settings keep their address.
BindUnlessStatic(a) ==
  /\ Polling
  /\ lease' = a
  /\ work' = IF work.dhcp THEN [work EXCEPT !.ip = a] ELSE work
  /\ ipReady' = TRUE
  /\ UNCHANGED <<serving, temp, form>>

\* dhcp_bind of the first lease or of a renewal, which goes on whatever the
\* settings say: OnDhcpFinished.
Bind(a) ==
  /\ Polling
  /\ lease' = a
  /\ work' = [work EXCEPT !.ip = a]
  /\ ipReady' = TRUE
  /\ UNCHANGED <<serving, temp, form>>

\* HttpdInit.
Start ==
  /\ ~serving /\ ipReady
  /\ serving' = TRUE
  /\ UNCHANGED <<ipReady, lease, work, temp, form>>

\* Variant: the connections are not ended.
StopListening ==
  /\ serving /\ ~ipReady
  /\ serving' = FALSE
  /\ UNCHANGED <<ipReady, lease, work, temp, form>>

\* HttpdStop ends all connections.
Stop ==
  /\ serving /\ ~ipReady
  /\ serving' = FALSE
  /\ form' = [c \in Contexts |-> NoForm]
  /\ UNCHANGED <<ipReady, lease, work, temp>>

FormNext(c) ==
  \/ FormGet(c)
  \/ FormPost(c)
  \/ \E p \in Calls : FormReceived(c, p)
  \/ FormEnd(c)
  \/ FormLeft(c)

MainNext ==
  \/ \E a \in Leases : Bind(a)
  \/ Start
  \/ Stop

Next == (\E c \in Contexts : FormNext(c)) \/ MainNext

(* Leases are finite, so that renewals go on; main() never blocks.         *)
MainFairness == WF_deviceVars(\E a \in Leases : Bind(a)) /\ WF_deviceVars(Start) /\ WF_deviceVars(Stop)

Spec == Init /\ [][Next]_deviceVars /\ MainFairness

-----------------------------------------------------------------------------
(* What the code promises.                                                 *)

\* Types: a form is only open while the service is there.
TypeOK ==
  /\ serving \in BOOLEAN
  /\ ipReady \in BOOLEAN
  /\ lease \in Leases \cup {NoAddress}
  /\ work \in Config
  /\ temp \in Config
  /\ form \in [Contexts -> Form]
  /\ \A c \in Contexts : ~serving => form[c] = NoForm

\* Form_OnRequestReceived in this step.
Applies(c) == form[c].phase = "posting" /\ form'[c].phase = "page"

\* A form that began with a fresh copy, and during which nobody else loaded, set
\* or applied the shared copy, changes the settings it posts and no other setting, over
\* all the calls that its body is split into: to what it posts, but for values that
\* bytes behind them can change.  Those become what the setter makes of the value and
\* these bytes, if it was escaped when it was last posted, or came last in a body with
\* fields in earlier calls.
AppliedAsPosted ==
  [][\A c \in Contexts : Applies(c) /\ form[c].want # NULL =>
       SettingsOf(work') \in Seen(form'[c].want, form'[c].tail)]_deviceVars

\* The service starts with the address of the interface: what a form has left in
\* the settings before, or a lease has brought since, does not stay.
StartsWithAddress == ~serving /\ ipReady => work.ip = lease /\ lease # NoAddress

\* A service that is down comes up again, also after a form has turned DHCP off:
\* nothing restarts the stack, but the lease is renewed.
ServiceReturns == ~serving ~> serving
=============================================================================
