---------------------------- MODULE DeviceProofs ----------------------------
(***************************************************************************)
(* Proofs about Device: what a form applies, and with which address the    *)
(* service starts.                                                         *)
(*                                                                         *)
(* Both arguments are about who writes the settings when.  The copy holds  *)
(* what an undisturbed form wants after each call that receives a part of  *)
(* its body, or what the bytes behind a value have made of it, for those   *)
(* that were last read with bytes behind them (Undisturbed).               *)
(* Only forms can put an old address back into the settings, and forms     *)
(* need the service; so once it is down, an address that makes g_ipIsReady *)
(* true is the address of the interface.                                   *)
(***************************************************************************)
EXTENDS Device, TLAPS

\* A form that knows what it wants finds it in the copy, as its values were seen.
Holding(x, copy) ==
  x.phase = "posting" /\ x.want # NULL => SettingsOf(copy) \in Seen(x.want, x.tail)
Undisturbed == \A c \in Contexts : Holding(form[c], temp)

Inv == TypeOK /\ Undisturbed /\ StartsWithAddress

-----------------------------------------------------------------------------
(* The operators.                                                          *)

\* The fields of a call.
LEMMA CallType ==
  ASSUME NEW p \in Calls
  PROVE  p.set \in SUBSET Fields /\ p.v \in Settings /\ p.escaped \in SUBSET {"dhcp", "text"}
BY DEF Calls

\* The setters leave a configuration.
LEMMA SetType ==
  ASSUME NEW config \in Config, NEW set, NEW v \in Settings
  PROVE  Set(config, set, v) \in Config
BY DEF Set, Config, Settings

\* What the setters may see of the values, field by field.
LEMMA SeenFields ==
  ASSUME NEW v \in Settings, NEW tail, NEW d, NEW w
  PROVE  [dhcp |-> d, text |-> w] \in Seen(v, tail) <=>
           /\ d = v.dhcp \/ ("dhcp" \in tail /\ ~v.dhcp /\ d \in BOOLEAN)
           /\ w = v.text \/ ("text" \in tail /\ w \in Behind[v.text])
<1>1. v.dhcp \in BOOLEAN /\ v.text \in Texts /\ v.text \in Behind[v.text]
  BY DeviceAssumption DEF Settings
<1>2. /\ "dhcp" \in Unsure(v, tail) <=> "dhcp" \in tail /\ ~v.dhcp
      /\ "text" \in Unsure(v, tail) <=> "text" \in tail
  BY DEF Unsure
<1> DEFINE D == IF "dhcp" \in Unsure(v, tail) THEN BOOLEAN ELSE {v.dhcp}
           T == IF "text" \in Unsure(v, tail) THEN Behind[v.text] ELSE {v.text}
<1>3. [dhcp |-> d, text |-> w] \in [dhcp : D, text : T] <=> d \in D /\ w \in T
  <2> HIDE DEF D, T
  <2> QED OBVIOUS
<1>4. d \in D <=> d = v.dhcp \/ ("dhcp" \in tail /\ ~v.dhcp /\ d \in BOOLEAN)
  BY <1>1, <1>2
<1>5. w \in T <=> w = v.text \/ ("text" \in tail /\ w \in Behind[v.text])
  BY <1>1, <1>2
<1> QED BY <1>3, <1>4, <1>5 DEF Seen

\* What the setters see is a dhcp and a text.
LEMMA SeenRecord ==
  ASSUME NEW v, NEW tail, NEW seen \in Seen(v, tail)
  PROVE  seen = [dhcp |-> seen.dhcp, text |-> seen.text]
BY DEF Seen

\* What the setters see are settings.
LEMMA SeenType ==
  ASSUME NEW v \in Settings, NEW tail, NEW seen \in Seen(v, tail)
  PROVE  seen \in Settings
<1>1. v.dhcp \in BOOLEAN /\ v.text \in Texts /\ Behind[v.text] \in SUBSET Texts
  BY DeviceAssumption DEF Settings
<1>2. seen = [dhcp |-> seen.dhcp, text |-> seen.text]
  BY SeenRecord
<1>3. /\ seen.dhcp = v.dhcp \/ seen.dhcp \in BOOLEAN
      /\ seen.text = v.text \/ seen.text \in Behind[v.text]
  BY <1>2, SeenFields
<1>4. seen.dhcp \in BOOLEAN /\ seen.text \in Texts
  BY <1>1, <1>3
<1> QED BY <1>2, <1>4 DEF Settings

\* What is wanted stays known, or unknown.
LEMMA WantType ==
  ASSUME NEW want \in Settings \cup {NULL}, NEW set, NEW v \in Settings
  PROVE  /\ Want(want, set, v) \in Settings \cup {NULL}
         /\ want # NULL => Want(want, set, v) # NULL
<1>1. want # NULL => Want(want, set, v) \in Settings
  BY DEF Want, Settings
<1>2. want = NULL => Want(want, set, v) = NULL
  BY DEF Want
<1> QED BY <1>1, <1>2, DeviceAssumption

\* The setters do to the copy what the form wants, as they see it.
LEMMA SetWanted ==
  ASSUME NEW config \in Config, NEW set, NEW v \in Settings, NEW want \in Settings,
         NEW old, SettingsOf(config) \in Seen(want, old),
         NEW tail, NEW seen \in Seen(v, tail)
  PROVE  SettingsOf(Set(config, set, seen))
           \in Seen(Want(want, set, v), (old \ set) \cup Unsure(v, tail))
<1> DEFINE d == IF "dhcp" \in set THEN seen.dhcp ELSE config.dhcp
           w == IF "text" \in set THEN seen.text ELSE config.text
           y == [dhcp |-> IF "dhcp" \in set THEN v.dhcp ELSE want.dhcp,
                 text |-> IF "text" \in set THEN v.text ELSE want.text]
           new == (old \ set) \cup Unsure(v, tail)
<1>1. want # NULL
  BY DeviceAssumption
<1>2. Want(want, set, v) = y /\ y \in Settings
  BY <1>1 DEF Want, Settings
<1>3. SettingsOf(Set(config, set, seen)) = [dhcp |-> d, text |-> w]
  BY DEF SettingsOf, Set
<1>4. seen = [dhcp |-> seen.dhcp, text |-> seen.text]
  BY SeenRecord
<1>5. /\ seen.dhcp = v.dhcp \/ ("dhcp" \in tail /\ ~v.dhcp /\ seen.dhcp \in BOOLEAN)
      /\ seen.text = v.text \/ ("text" \in tail /\ seen.text \in Behind[v.text])
  BY <1>4, SeenFields
<1>6. /\ config.dhcp = want.dhcp \/ ("dhcp" \in old /\ ~want.dhcp /\ config.dhcp \in BOOLEAN)
      /\ config.text = want.text \/ ("text" \in old /\ config.text \in Behind[want.text])
  BY SeenFields DEF SettingsOf
<1>7. /\ "dhcp" \in Unsure(v, tail) <=> "dhcp" \in tail /\ ~v.dhcp
      /\ "text" \in Unsure(v, tail) <=> "text" \in tail
  BY DEF Unsure
<1>8. d = y.dhcp \/ ("dhcp" \in new /\ ~y.dhcp /\ d \in BOOLEAN)
  BY <1>5, <1>6, <1>7
<1>9. w = y.text \/ ("text" \in new /\ w \in Behind[y.text])
  BY <1>5, <1>6, <1>7
<1> HIDE DEF d, w, y, new
<1>10. [dhcp |-> d, text |-> w] \in Seen(y, new)
  BY <1>2, <1>8, <1>9, SeenFields
<1> QED BY <1>2, <1>3, <1>10 DEF new

\* The form after a call that has set fields.
LEMMA PostedForm ==
  ASSUME NEW x \in Form, NEW p \in Calls, NEW tail
  PROVE  /\ Posted(x, p, tail) \in Form
         /\ Posted(x, p, tail).phase = x.phase
         /\ Posted(x, p, tail).want = Want(x.want, p.set, p.v)
         /\ x.want # NULL => Posted(x, p, tail).tail = (x.tail \ p.set) \cup Unsure(p.v, tail)
<1> DEFINE want == Want(x.want, p.set, p.v)
           t == IF x.want = NULL THEN {} ELSE (x.tail \ p.set) \cup Unsure(p.v, tail)
<1>1. x.want \in Settings \cup {NULL} /\ p.v \in Settings
  BY CallType DEF Form
<1>2. want \in Settings \cup {NULL}
  BY <1>1, WantType
<1>3. t \in SUBSET {"dhcp", "text"}
  BY DEF Form, Unsure
<1>4. Posted(x, p, tail) = [x EXCEPT !.parsed = TRUE, !.want = want, !.tail = t]
  BY DEF Posted, Form
<1> HIDE DEF want, t
<1>5. /\ Posted(x, p, tail) \in Form
      /\ Posted(x, p, tail).phase = x.phase
      /\ Posted(x, p, tail).want = want
      /\ Posted(x, p, tail).tail = t
  BY <1>2, <1>3, <1>4 DEF Form
<1> QED BY <1>5 DEF want, t

\* What the setters leave of a form that finds in the copy what it wants.
LEMMA SetHolds ==
  ASSUME NEW x \in Form, NEW p \in Calls, NEW tail, NEW seen \in Seen(p.v, tail),
         NEW copy \in Config, x.want # NULL => SettingsOf(copy) \in Seen(x.want, x.tail),
         Posted(x, p, tail).want # NULL
  PROVE  SettingsOf(Set(copy, p.set, seen))
           \in Seen(Posted(x, p, tail).want, Posted(x, p, tail).tail)
<1>1. x.want \in Settings \cup {NULL} /\ p.v \in Settings
  BY CallType DEF Form
<1>2. Posted(x, p, tail).want = Want(x.want, p.set, p.v)
  BY PostedForm
<1>3. x.want # NULL
  BY <1>2 DEF Want
<1>4. Posted(x, p, tail).tail = (x.tail \ p.set) \cup Unsure(p.v, tail)
  BY <1>3, PostedForm
<1>5. SettingsOf(Set(copy, p.set, seen))
        \in Seen(Want(x.want, p.set, p.v), (x.tail \ p.set) \cup Unsure(p.v, tail))
  BY <1>1, <1>3, SetWanted
<1> QED BY <1>2, <1>4, <1>5

\* The settings of a configuration.
LEMMA SettingsType == ASSUME NEW config \in Config PROVE SettingsOf(config) \in Settings
BY DEF SettingsOf, Settings, Config

\* What a step of c with the copy leaves of the forms.
LEMMA DisturbedForms ==
  ASSUME TypeOK, NEW c \in Contexts, NEW x \in Form
  PROVE  /\ Disturbed(c, x) \in [Contexts -> Form]
         /\ Disturbed(c, x)[c] = x
         /\ \A d \in Contexts \ {c} : /\ Disturbed(c, x)[d].phase = form[d].phase
                                      /\ Disturbed(c, x)[d].want = NULL
BY DEF TypeOK, Form, Disturbed

-----------------------------------------------------------------------------
(* The invariant.                                                          *)

\* The state after the initialisation.
LEMMA InvInit == Init => Inv
<1> SUFFICES ASSUME Init PROVE Inv
  OBVIOUS
<1>1. NoForm \in Form /\ NoForm.phase = "none"
  BY DEF NoForm, Form
<1>2. work \in Config
  BY DeviceAssumption DEF Init, Config
<1>3. TypeOK
  BY <1>1, <1>2 DEF Init, TypeOK
<1>4. Undisturbed
  BY <1>1 DEF Init, Undisturbed, Holding
<1>5. StartsWithAddress
  BY DEF Init, StartsWithAddress
<1> QED BY <1>3, <1>4, <1>5 DEF Inv

\* A step of a form that leaves copy, and x of the form.
LEMMA CopyWritten ==
  ASSUME Inv, NEW c \in Contexts, serving, serving' = serving, lease' = lease,
         NEW copy \in Config, temp' = copy, work' \in Config, ipReady' \in BOOLEAN,
         NEW x \in Form, form' = Disturbed(c, x), Holding(x, copy)
  PROVE  Inv'
<1>1. TypeOK
  BY DEF Inv
<1>2. /\ form' \in [Contexts -> Form] /\ form'[c] = x
      /\ \A d \in Contexts \ {c} : form'[d].want = NULL
  BY <1>1, DisturbedForms
<1>3. TypeOK'
  BY <1>1, <1>2 DEF TypeOK
<1>4. Undisturbed'
  BY <1>2 DEF Undisturbed, Holding
<1>5. StartsWithAddress'
  BY DEF StartsWithAddress
<1> QED BY <1>3, <1>4, <1>5 DEF Inv

\* The form that an end leaves.
LEMMA EndedForm ==
  ASSUME NEW x \in Form
  PROVE  LET y == [x EXCEPT !.phase = "page", !.parsed = FALSE]
         IN  y \in Form /\ y.phase = "page" /\ y.want = x.want /\ y.tail = x.tail
BY DEF Form

\* The end of a form, whatever was set last.
LEMMA ApplyKeeps ==
  ASSUME Inv, NEW c \in Contexts, NEW copy \in Config, NEW x \in Form, Apply(c, copy, x)
  PROVE  Inv'
<1> DEFINE y == [x EXCEPT !.phase = "page", !.parsed = FALSE]
<1>1. y \in Form /\ y.phase = "page"
  BY EndedForm
<1>2. /\ serving /\ serving' = serving /\ lease' = lease /\ temp' = copy /\ work' = copy
      /\ form' = Disturbed(c, y)
  BY DEF Apply, AppyConfig
<1>3. ipReady' \in BOOLEAN
  BY DEF Apply, AppyConfig, Inv, TypeOK
<1> HIDE DEF y
<1>4. Holding(y, copy)
  BY <1>1 DEF Holding
<1> QED BY <1>1, <1>2, <1>3, <1>4, CopyWritten

\* The steps of a form.
LEMMA FormKeeps ==
  ASSUME Inv, NEW c \in Contexts, FormNext(c)
  PROVE  Inv'
<1>1. TypeOK
  BY DEF Inv
<1>2. CASE FormGet(c)
  <2> DEFINE x == [NoForm EXCEPT !.phase = "page"]
  <2>1. x \in Form /\ x.phase = "page"
    BY DEF Form, NoForm
  <2>2. /\ serving /\ serving' = serving /\ lease' = lease /\ temp' = work /\ work' = work
        /\ ipReady' = ipReady /\ form' = Disturbed(c, x)
    BY <1>2 DEF FormGet
  <2>3. work \in Config /\ ipReady \in BOOLEAN
    BY <1>1 DEF TypeOK
  <2> HIDE DEF x
  <2>4. Holding(x, work)
    BY <2>1 DEF Holding
  <2> QED BY <2>1, <2>2, <2>3, <2>4, CopyWritten
<1>3. CASE FormPost(c)
  <2> DEFINE same == SettingsOf(temp) = SettingsOf(work)
             x == [NoForm EXCEPT !.phase = "posting", !.want = IF same THEN SettingsOf(work) ELSE NULL]
  <2>0. /\ x.phase = "posting" /\ x.want = (IF same THEN SettingsOf(work) ELSE NULL)
        /\ x.tail = {} /\ form' = [form EXCEPT ![c] = x] /\ serving /\ UNCHANGED <<serving, ipReady, lease, work, temp>>
    BY <1>3 DEF FormPost, NoForm
  <2>4. x \in Form
    <3>1. (IF same THEN SettingsOf(work) ELSE NULL) \in Settings \cup {NULL}
      BY <1>1, SettingsType DEF TypeOK
    <3> HIDE DEF same
    <3> QED BY <3>1 DEF Form, NoForm
  <2> HIDE DEF x
  <2>1. TypeOK'
    BY <1>1, <2>0, <2>4 DEF TypeOK
  <2>2. Undisturbed'
    <3>1. Holding(x, temp)
      <4>1. SettingsOf(work) \in Settings
        BY <1>1, SettingsType DEF TypeOK
      <4>2. SettingsOf(work) \in Seen(SettingsOf(work), {})
        BY <4>1, SeenFields DEF SettingsOf
      <4> QED BY <2>0, <4>2 DEF Holding
    <3>2. \A d \in Contexts : form'[d] = x \/ form'[d] = form[d]
      BY <1>1, <2>0 DEF TypeOK
    <3>3. Undisturbed /\ temp' = temp
      BY <2>0 DEF Inv
    <3> QED BY <3>1, <3>2, <3>3 DEF Undisturbed, Holding
  <2>3. StartsWithAddress'
    BY <1>3 DEF StartsWithAddress, FormPost
  <2> QED BY <2>1, <2>2, <2>3 DEF Inv
<1>4. ASSUME NEW p \in Calls, FormReceived(c, p)
      PROVE  Inv'
  <2> DEFINE x == Posted(form[c], p, p.escaped)
  <2>1. form[c] \in Form /\ temp \in Config /\ work \in Config /\ ipReady \in BOOLEAN
    BY <1>1 DEF TypeOK
  <2>2. PICK seen \in Seen(p.v, p.escaped) :
          /\ serving /\ serving' = serving /\ lease' = lease /\ temp' = Set(temp, p.set, seen)
          /\ work' = work /\ ipReady' = ipReady /\ form' = Disturbed(c, x)
          /\ form[c].phase = "posting"
    BY <1>4 DEF FormReceived
  <2>3. seen \in Settings
    BY CallType, SeenType
  <2>4. Set(temp, p.set, seen) \in Config
    BY <2>1, <2>3, SetType
  <2>5. x \in Form
    BY <2>1, PostedForm
  <2>6. form[c].want # NULL => SettingsOf(temp) \in Seen(form[c].want, form[c].tail)
    BY <2>2 DEF Inv, Undisturbed, Holding
  <2>7. Holding(x, Set(temp, p.set, seen))
    BY <2>1, <2>6, SetHolds DEF Holding
  <2> HIDE DEF x
  <2> QED BY <2>1, <2>2, <2>4, <2>5, <2>7, CopyWritten
<1>5. CASE FormEnd(c)
  <2>1. temp \in Config /\ form[c] \in Form
    BY <1>1 DEF TypeOK
  <2>2. CASE Apply(c, temp, form[c])
    BY <2>1, <2>2, ApplyKeeps
  <2>3. ASSUME NEW p \in Calls, NEW tail, NEW seen \in Seen(p.v, tail),
               Apply(c, Set(temp, p.set, seen), Posted(form[c], p, tail))
        PROVE  Inv'
    <3>1. seen \in Settings
      BY CallType, SeenType
    <3>2. Set(temp, p.set, seen) \in Config
      BY <2>1, <3>1, SetType
    <3>3. Posted(form[c], p, tail) \in Form
      BY <2>1, PostedForm
    <3> QED BY <2>3, <3>2, <3>3, ApplyKeeps
  <2> QED BY <1>5, <2>2, <2>3 DEF FormEnd
<1>6. CASE FormLeft(c)
  <2>1. TypeOK'
    BY <1>1, <1>6 DEF TypeOK, FormLeft, Form, NoForm
  <2>2. Undisturbed'
    BY <1>1, <1>6 DEF Inv, TypeOK, Undisturbed, Holding, FormLeft, NoForm
  <2>3. StartsWithAddress'
    BY <1>6 DEF StartsWithAddress, FormLeft
  <2> QED BY <2>1, <2>2, <2>3 DEF Inv
<1> QED BY <1>2, <1>3, <1>4, <1>5, <1>6 DEF FormNext

\* The steps of DHCP and main().
LEMMA MainKeeps ==
  ASSUME Inv, MainNext
  PROVE  Inv'
<1>1. ASSUME NEW a \in Leases, Bind(a)
      PROVE  Inv'
  <2>1. TypeOK'
    BY <1>1 DEF Inv, TypeOK, Bind, Config
  <2>2. SettingsOf(work') = SettingsOf(work) /\ work'.ip = a
    BY <1>1 DEF Inv, TypeOK, Bind, Config, SettingsOf
  <2>3. Undisturbed'
    BY <1>1 DEF Inv, Undisturbed, Holding, Bind
  <2>4. StartsWithAddress'
    BY <1>1, <2>2, DeviceAssumption DEF StartsWithAddress, Bind
  <2> QED BY <2>1, <2>3, <2>4 DEF Inv
<1>2. CASE Start
  BY <1>2 DEF Inv, TypeOK, Undisturbed, Holding, StartsWithAddress, Start
<1>3. CASE Stop
  BY <1>3 DEF Inv, TypeOK, Undisturbed, Holding, StartsWithAddress, Stop, Form, NoForm
<1> QED BY <1>1, <1>2, <1>3 DEF MainNext

\* The invariant is inductive.
LEMMA InvNext == Inv /\ [Next]_deviceVars => Inv'
<1> SUFFICES ASSUME Inv, [Next]_deviceVars PROVE Inv'
  OBVIOUS
<1>1. CASE UNCHANGED deviceVars
  BY <1>1 DEF Inv, TypeOK, Undisturbed, Holding, StartsWithAddress, deviceVars
<1> QED BY <1>1, FormKeeps, MainKeeps DEF Next

\* Together.
THEOREM SpecInv == Spec => []Inv
BY InvInit, InvNext, PTL DEF Spec

\* Types; a form of a connection does not outlive the service.
THEOREM TypeCorrect == Spec => []TypeOK
<1>1. Inv => TypeOK
  BY DEF Inv
<1> QED BY <1>1, SpecInv, PTL

\* The service starts with the address of the interface, whatever a form has put
\* into the settings before it went down.
THEOREM ServiceStartsWithAddress == Spec => []StartsWithAddress
<1>1. Inv => StartsWithAddress
  BY DEF Inv
<1> QED BY <1>1, SpecInv, PTL

-----------------------------------------------------------------------------
(* What a form applies.                                                    *)

\* A form ends in no step but its last.
LEMMA OnlyEndApplies ==
  ASSUME TypeOK, Next, NEW c \in Contexts, Applies(c)
  PROVE  FormEnd(c)
<1>1. ASSUME NEW d \in Contexts, FormGet(d) PROVE FALSE
  <2> DEFINE x == [NoForm EXCEPT !.phase = "page"]
  <2>1. x \in Form
    BY DEF Form, NoForm
  <2>2. form' = Disturbed(d, x) /\ form[d].phase = "none"
    BY <1>1 DEF FormGet
  <2> HIDE DEF x
  <2>3. CASE d = c
    BY <2>2, <2>3 DEF Applies
  <2>4. CASE d # c
    BY <2>1, <2>2, <2>4, DisturbedForms DEF Applies
  <2> QED BY <2>3, <2>4
<1>2. ASSUME NEW d \in Contexts, FormPost(d) PROVE FALSE
  BY <1>2 DEF FormPost, Applies, TypeOK
<1>3. ASSUME NEW d \in Contexts, NEW p \in Calls, FormReceived(d, p)
      PROVE  FALSE
  <2> DEFINE x == Posted(form[d], p, p.escaped)
  <2>1. x \in Form /\ x.phase = form[d].phase
    BY PostedForm DEF TypeOK
  <2>2. form' = Disturbed(d, x)
    BY <1>3 DEF FormReceived
  <2> HIDE DEF x
  <2>3. \A e \in Contexts : form'[e].phase = form[e].phase
    <3> TAKE e \in Contexts
    <3>1. CASE e = d
      BY <2>1, <2>2, <3>1, DisturbedForms
    <3>2. CASE e # d
      <4>1. Disturbed(d, x)[e].phase = form[e].phase
        BY <2>1, <3>2, DisturbedForms
      <4> QED BY <2>2, <4>1
    <3> QED BY <3>1, <3>2
  <2> QED BY <2>3 DEF Applies
<1>4. ASSUME NEW d \in Contexts, NEW copy, NEW x \in Form, Apply(d, copy, x)
      PROVE  d = c
  <2> DEFINE y == [x EXCEPT !.phase = "page", !.parsed = FALSE]
  <2>1. y \in Form
    BY EndedForm
  <2>2. form' = Disturbed(d, y)
    BY <1>4 DEF Apply
  <2> HIDE DEF y
  <2> QED BY <2>1, <2>2, DisturbedForms DEF Applies
<1>5. ASSUME NEW d \in Contexts, FormEnd(d) PROVE d = c
  <2>1. form[d] \in Form
    BY DEF TypeOK
  <2> QED BY <1>4, <1>5, <2>1, PostedForm DEF FormEnd
<1>6. ASSUME NEW d \in Contexts, FormLeft(d) PROVE FALSE
  BY <1>6 DEF FormLeft, Applies, TypeOK, NoForm
<1>7. ASSUME MainNext PROVE FALSE
  BY <1>7 DEF MainNext, Bind, Start, Stop, Applies, NoForm
<1> QED BY <1>1, <1>2, <1>3, <1>5, <1>6, <1>7 DEF Next, FormNext

\* The settings that an end applies.
LEMMA EndApplies ==
  ASSUME Inv, NEW c \in Contexts, form[c].want # NULL, FormEnd(c)
  PROVE  SettingsOf(work') \in Seen(form'[c].want, form'[c].tail)
<1>1. temp \in Config /\ form[c] \in Form /\ TypeOK
  BY DEF Inv, TypeOK
<1>2. form[c].phase = "posting"
  BY DEF FormEnd, Apply
<1>3. form[c].want # NULL => SettingsOf(temp) \in Seen(form[c].want, form[c].tail)
  BY <1>2 DEF Inv, Undisturbed, Holding
<1>4. ASSUME NEW copy, NEW x \in Form, Apply(c, copy, x)
      PROVE  work' = copy /\ form'[c].want = x.want /\ form'[c].tail = x.tail
  <2> DEFINE y == [x EXCEPT !.phase = "page", !.parsed = FALSE]
  <2>1. y \in Form /\ y.want = x.want /\ y.tail = x.tail
    BY EndedForm
  <2>2. form' = Disturbed(c, y) /\ work' = copy
    BY <1>4 DEF Apply, AppyConfig
  <2> HIDE DEF y
  <2>3. form'[c] = y
    BY <1>1, <2>1, <2>2, DisturbedForms
  <2> QED BY <2>1, <2>2, <2>3
<1>5. CASE Apply(c, temp, form[c])
  BY <1>1, <1>3, <1>4, <1>5
<1>6. ASSUME NEW p \in Calls, NEW tail, NEW seen \in Seen(p.v, tail),
             Apply(c, Set(temp, p.set, seen), Posted(form[c], p, tail))
      PROVE  SettingsOf(work') \in Seen(form'[c].want, form'[c].tail)
  <2> DEFINE x == Posted(form[c], p, tail)
  <2>1. x \in Form /\ x.want = Want(form[c].want, p.set, p.v)
    BY <1>1, PostedForm
  <2>2. work' = Set(temp, p.set, seen) /\ form'[c].want = x.want /\ form'[c].tail = x.tail
    <3> HIDE DEF x
    <3> QED BY <1>4, <1>6, <2>1 DEF x
  <2>3. x.want # NULL
    BY <1>1, <2>1, CallType, WantType DEF Form
  <2>4. SettingsOf(Set(temp, p.set, seen)) \in Seen(x.want, x.tail)
    BY <1>1, <1>3, <2>3, SetHolds
  <2> QED BY <2>2, <2>4
<1> QED BY <1>5, <1>6 DEF FormEnd

\* A form that nobody disturbed changes what it posts, and nothing else, over however
\* many calls its body is split; and a value ends up different from what was posted
\* only by the bytes behind it in the buffer, when it was escaped or came last.
THEOREM FormsApplyWhatTheyPost == Spec => AppliedAsPosted
<1>1. ASSUME Inv, [Next]_deviceVars
      PROVE  [\A c \in Contexts : Applies(c) /\ form[c].want # NULL =>
                SettingsOf(work') \in Seen(form'[c].want, form'[c].tail)]_deviceVars
  <2>1. CASE UNCHANGED deviceVars
    BY <2>1
  <2>2. CASE Next
    <3> SUFFICES ASSUME NEW c \in Contexts, Applies(c), form[c].want # NULL
                 PROVE  SettingsOf(work') \in Seen(form'[c].want, form'[c].tail)
      OBVIOUS
    <3>1. FormEnd(c)
      BY <1>1, <2>2, OnlyEndApplies DEF Inv
    <3> QED BY <1>1, <3>1, EndApplies
  <2> QED BY <1>1, <2>1, <2>2
<1> QED BY <1>1, SpecInv, PTL DEF Spec, AppliedAsPosted
=============================================================================
