--------------------------- MODULE FormPageProofs ---------------------------
(***************************************************************************)
(* Proofs about FormPage: for every file, cache and size of the chunks,    *)
(* the page that is copied through the cache never leaves the cache or the *)
(* room of a chunk, is the file with its tags replaced, and is terminated; *)
(* and what Device promises holds while pages are sent.                    *)
(*                                                                         *)
(* What the page is compared with is a recursive function on the places of *)
(* the file.  Its equation is proved from the end of the file backwards;   *)
(* then Follows says of every state that what is sent, with the rendering  *)
(* from the place that is reached, is the rendering of the file.           *)
(***************************************************************************)
EXTENDS FormPage, DeviceProofs, SequenceTheorems, WellFoundedInduction

\* The types of what PageTypeOK bounds.
PageRecord ==
  [open : BOOLEAN, busy : BOOLEAN, text : Seq(Chars), cache : Seq(Chars), inTag : BOOLEAN,
   name : Seq(Chars), room : Nat, out : Seq(Chars), end : BOOLEAN, file : Seq(Chars),
   sent : Seq(Chars), last : BOOLEAN, shown : Settings \cup {NULL}, same : BOOLEAN, cut : BOOLEAN]

\* The part of PageTypeOK that is about one page; between two calls nothing is produced.
Bounded(p) ==
  /\ Len(p.cache) <= CacheLen
  /\ Len(p.out) <= p.room
  /\ p.busy => p.open /\ ~p.end
  /\ p.end => p.text = <<>> /\ p.cache = <<>>
  /\ ~p.busy => p.out = <<>>

PageInv ==
  Inv /\ page \in PageRecord /\ Bounded(page) /\ (page.open <=> form[Reader].phase = "page")

-----------------------------------------------------------------------------
(* Sequences.                                                              *)

\* What is left behind the first n.
LEMMA DropType ==
  ASSUME NEW S, NEW s \in Seq(S), NEW n \in Nat
  PROVE  /\ Drop(s, n) \in Seq(S)
         /\ Len(Drop(s, n)) <= Len(s)
         /\ n <= Len(s) => Len(Drop(s, n)) = Len(s) - n
<1>1. Len(s) \in Nat
  BY LenProperties
<1>2. \A i \in n + 1..Len(s) : s[i] \in S
  BY <1>1, ElementOfSeq
<1>3. /\ SubSeq(s, n + 1, Len(s)) \in Seq(S)
      /\ Len(SubSeq(s, n + 1, Len(s))) = IF n + 1 <= Len(s) THEN Len(s) - (n + 1) + 1 ELSE 0
  BY <1>1, <1>2, SubSeqProperties
<1> QED BY <1>1, <1>3 DEF Drop

\* The first n of a sequence, none if n is not positive.
LEMMA TakeType ==
  ASSUME NEW S, NEW s \in Seq(S), NEW n \in Int, n <= Len(s)
  PROVE  /\ SubSeq(s, 1, n) \in Seq(S)
         /\ Len(SubSeq(s, 1, n)) = IF n >= 0 THEN n ELSE 0
<1>1. Len(s) \in Nat
  BY LenProperties
<1>2. \A i \in 1..n : s[i] \in S
  BY <1>1, ElementOfSeq
<1> QED BY <1>1, <1>2, SubSeqProperties

\* A character more.
LEMMA AppendType ==
  ASSUME NEW S, NEW s \in Seq(S), NEW e \in S
  PROVE  Append(s, e) \in Seq(S) /\ Len(Append(s, e)) = Len(s) + 1
OBVIOUS

\* The smaller of two numbers.
LEMMA SmallerType ==
  ASSUME NEW m \in Int, NEW n \in Int
  PROVE  Smaller(m, n) \in {m, n} /\ Smaller(m, n) <= m /\ Smaller(m, n) <= n
BY DEF Smaller

\* A value is text.
LEMMA ValueType ==
  ASSUME NEW config \in Config, NEW name
  PROVE  Value(name, config) \in Seq(Chars)
<1>1. /\ "0" \in Chars /\ "1" \in Chars
      /\ config.text \in Seq(Chars)
  BY FormPageAssumption DEF Config
<1>2. <<"1">> \in Seq(Chars) /\ <<"0">> \in Seq(Chars) /\ <<>> \in Seq(Chars)
  BY <1>1
<1> QED BY <1>1, <1>2 DEF Value

-----------------------------------------------------------------------------
(* The steps of a call.                                                    *)

\* A call that returns.
LEMMA ReturnedKeeps ==
  ASSUME NEW p \in PageRecord, Len(p.cache) <= CacheLen
  PROVE  /\ Returned(p) \in PageRecord
         /\ Bounded(Returned(p))
         /\ Returned(p).open = p.open
<1> DEFINE q == Returned(p)
           end == p.text = <<>> /\ p.cache = <<>>
           last == end /\ p.out # <<>>
<1>1. /\ p.sent \in Seq(Chars) /\ p.out \in Seq(Chars)
      /\ p.sent \o p.out \in Seq(Chars)
  BY ConcatProperties DEF PageRecord
<1>2. <<>> \in Seq(Chars) /\ Len(<<>>) = 0
  OBVIOUS
<1>3. q = [p EXCEPT !.busy = FALSE, !.out = <<>>, !.room = 0, !.end = end,
                    !.sent = @ \o p.out, !.last = last]
  BY DEF Returned
<1>4. end \in BOOLEAN /\ last \in BOOLEAN
  OBVIOUS
<1>5. end => p.text = <<>> /\ p.cache = <<>>
  OBVIOUS
<1> HIDE DEF q, end, last
<1>6. q \in PageRecord
  BY <1>1, <1>2, <1>3, <1>4 DEF PageRecord
<1>7. /\ q.cache = p.cache /\ q.text = p.text /\ q.open = p.open
      /\ q.busy = FALSE /\ q.out = <<>> /\ q.room = 0
  BY <1>3 DEF PageRecord
<1>8. q.end = end
  BY <1>3 DEF PageRecord
<1>9. Bounded(q)
  BY <1>2, <1>7, <1>8, <1>5 DEF Bounded
<1> QED BY <1>6, <1>7, <1>9 DEF q

\* A step of the page leaves the cache and the room of the chunk alone.
LEMMA PageNextKeeps ==
  ASSUME FormPageAssumption, page \in PageRecord, Bounded(page), work \in Config, PageNext
  PROVE  page' \in PageRecord /\ Bounded(page') /\ page'.open = page.open
<1>1. /\ page.text \in Seq(Chars) /\ page.cache \in Seq(Chars) /\ page.out \in Seq(Chars)
      /\ page.name \in Seq(Chars) /\ page.room \in Nat
      /\ Len(page.cache) \in Nat /\ Len(page.text) \in Nat /\ Len(page.out) \in Nat
  BY LenProperties DEF PageRecord
<1>2. CacheLen \in Nat /\ Margin \in Nat /\ Len(TagStart) \in Nat /\ Len(TagEnd) \in Nat
  BY LenProperties DEF FormPageAssumption
<1>3. /\ <<>> \in Seq(Chars) /\ Len(<<>>) = 0
  OBVIOUS
<1>4. ASSUME NEW room \in Rooms, ReadContent(room)
      PROVE  page' \in PageRecord /\ Bounded(page') /\ page'.open = page.open
  <2>1. CASE page.text # <<>>
    <3>1. page' = [page EXCEPT !.busy = TRUE, !.room = room]
      BY <1>4, <2>1 DEF ReadContent
    <3>2. room \in Nat /\ room >= CacheLen
      BY DEF FormPageAssumption
    <3>3. page' \in PageRecord
      BY <3>1, <3>2 DEF PageRecord
    <3>4. /\ page'.cache = page.cache /\ page'.out = page.out /\ page'.room = room
          /\ page'.open = page.open /\ page'.end = page.end /\ page'.text = page.text
      BY <3>1 DEF PageRecord
    <3>5. page.out = <<>> /\ ~page.busy /\ page.open /\ ~page.end
      BY <1>4 DEF ReadContent, Bounded
    <3>6. Len(page.out) <= room
      BY <1>3, <3>2, <3>5
    <3>7. page'.busy
      BY <3>1 DEF PageRecord
    <3>8. Len(page.cache) <= CacheLen
      BY DEF Bounded
    <3>9. Bounded(page')
      BY <3>4, <3>5, <3>6, <3>7, <3>8 DEF Bounded
    <3> QED BY <3>3, <3>4, <3>9
  <2>2. CASE page.text = <<>>
    <3> DEFINE p == [page EXCEPT !.out = page.cache, !.cache = <<>>]
    <3>1. p \in PageRecord /\ p.cache = <<>> /\ p.open = page.open
      BY <1>1, <1>3 DEF PageRecord
    <3>2. page' = Returned(p)
      BY <1>4, <2>2 DEF ReadContent
    <3> HIDE DEF p
    <3>3. Len(p.cache) <= CacheLen
      BY <1>2, <1>3, <3>1
    <3> QED BY <3>1, <3>2, <3>3, ReturnedKeeps
  <2> QED BY <2>1, <2>2
<1>5. CASE Fill
  <2>1. CASE page.text = <<>>
    BY <1>5, <2>1, ReturnedKeeps DEF Fill, Bounded
  <2>2. CASE page.text # <<>>
    <3> DEFINE n == Smaller(Len(page.text), CacheLen - Len(page.cache))
               more == page.cache \o SubSeq(page.text, 1, n)
               rest == Drop(page.text, n)
    <3>1. Len(page.cache) <= CacheLen
      BY DEF Bounded
    <3>2. n \in Nat /\ n <= Len(page.text) /\ n <= CacheLen - Len(page.cache)
      <4>1. CacheLen - Len(page.cache) \in Nat
        BY <1>1, <1>2, <3>1
      <4>2. Len(page.text) \in Int /\ CacheLen - Len(page.cache) \in Int
        BY <1>1, <4>1
      <4>3. /\ n \in {Len(page.text), CacheLen - Len(page.cache)}
            /\ n <= Len(page.text) /\ n <= CacheLen - Len(page.cache)
        BY <4>2, SmallerType
      <4> QED BY <1>1, <4>1, <4>3
    <3>3. page' = [page EXCEPT !.cache = more, !.text = rest]
      BY <1>5, <2>2 DEF Fill
    <3> HIDE DEF n
    <3>4. SubSeq(page.text, 1, n) \in Seq(Chars) /\ Len(SubSeq(page.text, 1, n)) = n
      BY <1>1, <3>2, TakeType
    <3>5. more \in Seq(Chars) /\ Len(more) = Len(page.cache) + n
      BY <1>1, <3>4, ConcatProperties
    <3>6. rest \in Seq(Chars)
      BY <1>1, <3>2, DropType
    <3> HIDE DEF more, rest
    <3>7. page' \in PageRecord
      BY <3>3, <3>5, <3>6 DEF PageRecord
    <3>8. /\ page'.cache = more /\ page'.out = page.out /\ page'.room = page.room
          /\ page'.open = page.open /\ page'.end = page.end /\ page'.busy = page.busy
      BY <3>3 DEF PageRecord
    <3>9. Len(more) <= CacheLen
      BY <1>1, <1>2, <3>2, <3>5
    <3>10. page.busy
      BY <1>5 DEF Fill
    <3> QED BY <3>7, <3>8, <3>9, <3>10 DEF Bounded
  <2> QED BY <2>1, <2>2
<1>6. CASE CopyChar
  <2> DEFINE p == [page EXCEPT !.out = Append(@, Head(page.cache)), !.cache = Tail(@)]
  <2>1. page.cache # <<>> /\ page.busy
    BY <1>6 DEF CopyChar, Scanning
  <2>2. /\ Head(page.cache) \in Chars /\ Tail(page.cache) \in Seq(Chars)
        /\ Len(Tail(page.cache)) = Len(page.cache) - 1
    BY <1>1, <2>1, HeadTailProperties
  <2>3. Append(page.out, Head(page.cache)) \in Seq(Chars)
    BY <1>1, <2>2, AppendType
  <2>4. p \in PageRecord
    BY <2>2, <2>3 DEF PageRecord
  <2>5. /\ p.open = page.open /\ p.cache = Tail(page.cache) /\ p.room = page.room
        /\ p.busy = page.busy /\ p.end = page.end /\ p.text = page.text
    BY DEF PageRecord
  <2>6. page' = IF Len(p.out) >= p.room THEN Returned(p) ELSE p
    BY <1>6 DEF CopyChar
  <2> HIDE DEF p
  <2>7. Len(p.cache) <= CacheLen
    BY <1>1, <1>2, <2>2, <2>5 DEF Bounded
  <2>8. Len(p.out) \in Nat /\ p.room \in Nat
    BY <2>4, LenProperties DEF PageRecord
  <2>9. CASE Len(p.out) >= p.room
    BY <2>4, <2>5, <2>6, <2>7, <2>9, ReturnedKeeps
  <2>10. CASE ~(Len(p.out) >= p.room)
    <3>1. page' = p /\ Len(p.out) <= p.room
      BY <2>6, <2>8, <2>10
    <3> QED BY <2>1, <2>4, <2>5, <2>7, <3>1 DEF Bounded
  <2> QED BY <2>9, <2>10
<1>7. CASE TagFound
  <2> DEFINE p == [page EXCEPT !.inTag = TRUE, !.cache = Drop(@, Len(TagStart))]
  <2>1. /\ Drop(page.cache, Len(TagStart)) \in Seq(Chars)
        /\ Len(Drop(page.cache, Len(TagStart))) <= Len(page.cache)
    BY <1>1, <1>2, DropType
  <2>2. p \in PageRecord /\ p.open = page.open /\ p.cache = Drop(page.cache, Len(TagStart))
    BY <2>1 DEF PageRecord
  <2>3. page' = Returned(p)
    BY <1>7 DEF TagFound
  <2> HIDE DEF p
  <2>4. Len(p.cache) <= CacheLen
    <3>1. Len(p.cache) \in Nat
      BY <2>2, LenProperties DEF PageRecord
    <3> QED BY <1>1, <1>2, <2>1, <2>2, <3>1 DEF Bounded
  <2> QED BY <2>2, <2>3, <2>4, ReturnedKeeps
<1>8. CASE NameChar
  <2>1. page.cache # <<>> /\ page.busy
    BY <1>8 DEF NameChar, Scanning
  <2>2. /\ Head(page.cache) \in Chars /\ Tail(page.cache) \in Seq(Chars)
        /\ Len(Tail(page.cache)) = Len(page.cache) - 1
    BY <1>1, <2>1, HeadTailProperties
  <2>3. Append(page.name, Head(page.cache)) \in Seq(Chars)
    BY <1>1, <2>2, AppendType
  <2>4. page' = [page EXCEPT !.name = Append(@, Head(page.cache)), !.cache = Tail(@)]
    BY <1>8 DEF NameChar
  <2>5. page' \in PageRecord
    BY <2>2, <2>3, <2>4 DEF PageRecord
  <2>6. /\ page'.open = page.open /\ page'.cache = Tail(page.cache) /\ page'.room = page.room
        /\ page'.busy = page.busy /\ page'.end = page.end /\ page'.out = page.out
    BY <2>4 DEF PageRecord
  <2>7. Len(Tail(page.cache)) <= CacheLen
    BY <1>1, <1>2, <2>2 DEF Bounded
  <2> QED BY <2>1, <2>5, <2>6, <2>7 DEF Bounded
<1>9. CASE TagReplaced
  <2> DEFINE v == Value(page.name, work)
             n == Smaller(Len(v), page.room - Len(page.out) - Margin)
             out == page.out \o SubSeq(v, 1, n)
             rest == Drop(page.cache, Len(TagEnd))
  <2>1. v \in Seq(Chars) /\ Len(v) \in Nat
    BY ValueType, LenProperties
  <2>2. page' = [page EXCEPT !.out = out, !.cache = rest, !.inTag = FALSE, !.name = <<>>,
                             !.cut = @ \/ n < Len(v)]
    BY <1>9 DEF TagReplaced
  <2> HIDE DEF v
  <2>3. n \in Int /\ n <= Len(v) /\ n <= page.room - Len(page.out) - Margin
    <3>1. page.room - Len(page.out) - Margin \in Int
      BY <1>1, <1>2
    <3> QED BY <2>1, <3>1, SmallerType
  <2> HIDE DEF n
  <2>4. SubSeq(v, 1, n) \in Seq(Chars) /\ Len(SubSeq(v, 1, n)) = IF n >= 0 THEN n ELSE 0
    BY <2>1, <2>3, TakeType
  <2>5. out \in Seq(Chars) /\ Len(out) = Len(page.out) + (IF n >= 0 THEN n ELSE 0)
    BY <1>1, <2>4, ConcatProperties
  <2>6. rest \in Seq(Chars) /\ Len(rest) <= Len(page.cache) /\ Len(rest) \in Nat
    BY <1>1, <1>2, DropType, LenProperties
  <2> HIDE DEF out, rest
  <2>7. page' \in PageRecord
    BY <1>3, <2>2, <2>5, <2>6 DEF PageRecord
  <2>8. /\ page'.open = page.open /\ page'.cache = rest /\ page'.room = page.room
        /\ page'.busy = page.busy /\ page'.end = page.end /\ page'.out = out
    BY <2>2 DEF PageRecord
  <2>9. Len(page.out) <= page.room /\ Len(page.cache) <= CacheLen
    BY DEF Bounded
  <2>10. Len(out) <= page.room
    <3>1. CASE n >= 0
      BY <1>1, <1>2, <2>3, <2>5, <2>9, <3>1
    <3>2. CASE ~(n >= 0)
      BY <1>1, <2>5, <2>9, <3>2
    <3> QED BY <3>1, <3>2
  <2>11. Len(rest) <= CacheLen
    BY <1>1, <1>2, <2>6, <2>9
  <2>12. page.busy
    BY <1>9 DEF TagReplaced, Scanning
  <2> QED BY <2>7, <2>8, <2>10, <2>11, <2>12 DEF Bounded
<1> QED BY <1>4, <1>5, <1>6, <1>7, <1>8, <1>9 DEF PageNext

-----------------------------------------------------------------------------
(* The invariant.                                                          *)

\* The page that is opened, and no page.
LEMMA OpenedType ==
  ASSUME FormPageAssumption, NEW file \in Pages, SettingsOf(work') \in Settings
  PROVE  /\ NoPage \in PageRecord /\ Bounded(NoPage) /\ ~NoPage.open
         /\ Opened(file) \in PageRecord /\ Bounded(Opened(file)) /\ Opened(file).open
<1>1. <<>> \in Seq(Chars) /\ Len(<<>>) = 0 /\ file \in Seq(Chars) /\ CacheLen \in Nat
  BY DEF FormPageAssumption
<1>2. NoPage \in PageRecord
  BY <1>1 DEF NoPage, PageRecord
<1>3. Bounded(NoPage)
  BY <1>1 DEF NoPage, Bounded
<1>4. Opened(file) \in PageRecord
  BY <1>1 DEF NoPage, Opened, PageRecord
<1>5. Bounded(Opened(file)) /\ Opened(file).open
  BY <1>1 DEF NoPage, Opened, Bounded
<1> QED BY <1>2, <1>3, <1>4, <1>5 DEF NoPage

\* The state after the initialisation.
LEMMA PageInvInit == PageInit => PageInv
<1> SUFFICES ASSUME PageInit PROVE PageInv
  OBVIOUS
<1>1. Inv
  BY InvInit DEF PageInit
<1>2. <<>> \in Seq(Chars) /\ Len(<<>>) = 0 /\ CacheLen \in Nat
  BY FormPageAssumption
<1>3. page \in PageRecord
  BY <1>2 DEF PageInit, NoPage, PageRecord
<1>4. Bounded(page) /\ ~page.open
  BY <1>2 DEF PageInit, NoPage, Bounded
<1>5. form[Reader].phase # "page"
  BY FormPageAssumption DEF PageInit, Init, NoForm
<1> QED BY <1>1, <1>3, <1>4, <1>5 DEF PageInv

\* What the forms, DHCP and main() do to the page.
LEMMA FollowsKeeps ==
  ASSUME FormPageAssumption, page \in PageRecord, Bounded(page), SettingsOf(work') \in Settings,
         PageFollows
  PROVE  /\ page' \in PageRecord /\ Bounded(page')
         /\ page'.open <=> form'[Reader].phase = "page"
<1>1. CASE form'[Reader].phase # "page"
  <2>1. <<>> \in Seq(Chars) /\ Len(<<>>) = 0 /\ CacheLen \in Nat
    BY DEF FormPageAssumption
  <2>2. page' = NoPage
    BY <1>1 DEF PageFollows
  <2>3. page' \in PageRecord /\ ~page'.open
    BY <2>1, <2>2 DEF NoPage, PageRecord
  <2>4. Bounded(page')
    BY <2>1, <2>2 DEF NoPage, Bounded
  <2> QED BY <1>1, <2>3, <2>4
<1>2. CASE form'[Reader].phase = "page" /\ page.open
  <2> DEFINE same == page.same /\ SettingsOf(work') = page.shown
  <2>1. page' = [page EXCEPT !.same = same]
    BY <1>2 DEF PageFollows, PageRecord
  <2>2. same \in BOOLEAN
    BY DEF PageRecord
  <2> HIDE DEF same
  <2>3. page' \in PageRecord
    BY <2>1, <2>2 DEF PageRecord
  <2>4. /\ page'.cache = page.cache /\ page'.out = page.out /\ page'.room = page.room
        /\ page'.open = page.open /\ page'.end = page.end /\ page'.text = page.text
        /\ page'.busy = page.busy
    BY <2>1 DEF PageRecord
  <2>5. Bounded(page')
    BY <2>4 DEF Bounded
  <2> QED BY <1>2, <2>3, <2>4, <2>5
<1>3. CASE form'[Reader].phase = "page" /\ ~page.open
  <2>1. PICK f \in Pages : page' = Opened(f)
    BY <1>3 DEF PageFollows
  <2> QED BY <1>3, <2>1, OpenedType
<1> QED BY <1>1, <1>2, <1>3

\* The invariant is inductive.
LEMMA PageInvNext == PageInv /\ [FormPageNext]_vars => PageInv'
<1> SUFFICES ASSUME PageInv, [FormPageNext]_vars PROVE PageInv'
  OBVIOUS
<1>1. /\ Inv /\ TypeOK /\ work \in Config
      /\ page \in PageRecord /\ Bounded(page) /\ (page.open <=> form[Reader].phase = "page")
  BY DEF PageInv, Inv, TypeOK
<1>2. CASE UNCHANGED vars
  <2>1. UNCHANGED deviceVars /\ page' = page
    BY <1>2 DEF vars, deviceVars
  <2>2. Inv'
    BY <1>1, <2>1, InvNext
  <2>3. form' = form
    BY <2>1 DEF deviceVars
  <2>4. Bounded(page') /\ page' \in PageRecord
    BY <1>1, <2>1
  <2> QED BY <1>1, <2>1, <2>2, <2>3, <2>4 DEF PageInv, Bounded
<1>3. CASE PageNext /\ UNCHANGED deviceVars
  <2>1. page' \in PageRecord /\ Bounded(page') /\ page'.open = page.open
    BY <1>1, <1>3, PageNextKeeps, FormPageAssumption
  <2>2. Inv'
    BY <1>1, <1>3, InvNext
  <2>3. form' = form
    BY <1>3 DEF deviceVars
  <2> QED BY <1>1, <2>1, <2>2, <2>3 DEF PageInv, Bounded
<1>4. CASE ~page.busy /\ Next /\ PageFollows
  <2>1. Inv'
    BY <1>1, <1>4, InvNext
  <2>2. work' \in Config
    BY <2>1 DEF Inv, TypeOK
  <2>3. SettingsOf(work') \in Settings
    BY <2>2, SettingsType
  <2>4. /\ page' \in PageRecord /\ Bounded(page')
        /\ page'.open <=> form'[Reader].phase = "page"
    BY <1>1, <1>4, <2>3, FollowsKeeps, FormPageAssumption
  <2> QED BY <2>1, <2>4 DEF PageInv, Bounded
<1> QED BY <1>2, <1>3, <1>4 DEF FormPageNext

\* Together.
THEOREM PageSpecInv == PageSpec => []PageInv
BY PageInvInit, PageInvNext, PTL DEF PageSpec

\* The copy of a page stays in its cache and in the room of the chunk, for every
\* file, every length of the values, and every room that is not below the cache.
THEOREM PageStaysInRoom == PageSpec => []PageTypeOK
<1>1. PageInv => PageTypeOK
  BY DEF PageInv, Bounded, PageTypeOK
<1> QED BY <1>1, PageSpecInv, PTL

\* While pages are sent the device does what it promises without them.
THEOREM PagesLeaveDevice == PageSpec => []TypeOK /\ []StartsWithAddress /\ AppliedAsPosted
<1>1. PageInv => TypeOK /\ StartsWithAddress
  BY DEF PageInv, Inv
<1>2. ASSUME PageInv, [FormPageNext]_vars
      PROVE  [\A c \in Contexts : Applies(c) /\ form[c].want # NULL =>
                SettingsOf(work') \in Seen(form'[c].want, form'[c].tail)]_deviceVars
  <2>1. CASE UNCHANGED deviceVars
    BY <2>1
  <2>2. CASE Next
    <3> SUFFICES ASSUME NEW c \in Contexts, Applies(c), form[c].want # NULL
                 PROVE  SettingsOf(work') \in Seen(form'[c].want, form'[c].tail)
      OBVIOUS
    <3>1. FormEnd(c)
      BY <1>2, <2>2, OnlyEndApplies DEF PageInv, Inv
    <3> QED BY <1>2, <3>1, EndApplies DEF PageInv
  <2>3. UNCHANGED vars => UNCHANGED deviceVars
    BY DEF vars, deviceVars
  <2> QED BY <1>2, <2>1, <2>2, <2>3 DEF FormPageNext
<1> QED BY <1>1, <1>2, PageSpecInv, PTL DEF PageSpec, AppliedAsPosted

-----------------------------------------------------------------------------
(* What has been sent.                                                     *)

\* The place of the file that the cache begins behind, and the place up to which the
\* file is sent: inside a tag, that of the tag.
Done(p) == Len(p.file) - Len(p.text) - Len(p.cache)
Begun(p) == IF p.inTag THEN Done(p) + 1 - Len(p.name) - Len(TagStart) ELSE Done(p) + 1

\* A tag ends at place k.
EndHere(t, k) == IsPrefix(TagEnd, Drop(t, k - 1))

\* The cache and the text are what the file has there.
Placed(p) ==
  /\ Done(p) >= 0
  /\ \A k \in 1..Len(p.cache) : p.cache[k] = p.file[Done(p) + k]
  /\ \A k \in 1..Len(p.text) : p.text[k] = p.file[Done(p) + Len(p.cache) + k]

\* Inside a tag the name is what the file has behind its start, and no end is among it.
Named(p) ==
  IF p.inTag
  THEN /\ Begun(p) >= 1 /\ StartsAt(p.file, Begun(p))
       /\ \A k \in 1..Len(p.name) : p.name[k] = p.file[Begun(p) + Len(TagStart) - 1 + k]
       /\ \A k \in Begun(p) + Len(TagStart)..Done(p) : ~EndHere(p.file, k)
  ELSE p.name = <<>>

\* What is sent, with the rendering of what is not, is the rendering of the file.
SentSoFar(p) ==
  IF p.end THEN p.sent = Rendering(p.file, p.shown)
  ELSE (p.sent \o p.out) \o RenderingFrom(p.file, p.shown)[Begun(p)]
         = Rendering(p.file, p.shown)

\* What a page that is open satisfies.  A call that has emptied the file has something
\* to send, so that it ends the chunks.
Follows(p) ==
  /\ ~p.end => Placed(p) /\ Named(p)
  /\ ~p.busy /\ p.text = <<>> /\ p.cache = <<>> => p.end
  /\ TagsClear(p.file) =>
       /\ p.end => p.last
       /\ p.busy /\ p.text = <<>> /\ p.cache = <<>> => p.out # <<>>
       /\ p.same /\ ~p.cut => SentSoFar(p)

\* The settings are those of the opening until they change.
ShownNow == page.same => page.shown = SettingsOf(work)

\* A page that is open follows its file; one that is closed has not ended.
CopyInv == IF page.open THEN Follows(page) /\ ShownNow ELSE ~page.end

-----------------------------------------------------------------------------
(* Numbers and sequences, place by place.                                  *)

\* Every set of natural numbers that is not empty has a least element.
LEMMA LeastElement ==
  ASSUME NEW T, T \subseteq Nat, T # {}
  PROVE  \E x \in T : \A y \in T : x <= y
<1> DEFINE R == OpToRel(<, Nat)
<1>1. IsWellFoundedOn(R, Nat)
  BY NatLessThanWellFounded
<1>2. \A x, y \in Nat : <<x, y>> \in R <=> x < y
  BY DEF OpToRel
<1> HIDE DEF R
<1>3. PICK x \in T : \A y \in T : ~(<<y, x>> \in R)
  BY <1>1, WFMin
<1>4. ASSUME NEW y \in T PROVE x <= y
  <2>1. x \in Nat /\ y \in Nat
    OBVIOUS
  <2>2. ~(y < x)
    BY <1>2, <1>3, <2>1
  <2> QED BY <2>1, <2>2
<1> QED BY <1>4

\* What is left behind the first n, character by character.
LEMMA DropElements ==
  ASSUME NEW S, NEW s \in Seq(S), NEW n \in 0..Len(s)
  PROVE  /\ Drop(s, n) \in Seq(S)
         /\ Len(Drop(s, n)) = Len(s) - n
         /\ \A k \in 1..Len(s) - n : Drop(s, n)[k] = s[n + k]
<1>1. Len(s) \in Nat
  BY LenProperties
<1>2. \A i \in n + 1..Len(s) : s[i] \in S
  BY <1>1, ElementOfSeq
<1>3. \A k \in 1..Len(s) - (n + 1) + 1 : SubSeq(s, n + 1, Len(s))[k] = s[n + 1 + k - 1]
  BY <1>1, <1>2, SubSeqProperties
<1>4. \A k \in 1..Len(s) - n : k \in 1..Len(s) - (n + 1) + 1 /\ n + 1 + k - 1 = n + k
  BY <1>1
<1>5. \A k \in 1..Len(s) - n : SubSeq(s, n + 1, Len(s))[k] = s[n + k]
  BY <1>3, <1>4
<1>6. Drop(s, n) \in Seq(S) /\ Len(Drop(s, n)) = Len(s) - n
  BY <1>1, DropType
<1> QED BY <1>5, <1>6 DEF Drop

\* One sequence begins another, character by character.
LEMMA PrefixElements ==
  ASSUME NEW S, NEW p \in Seq(S), NEW s \in Seq(S)
  PROVE  IsPrefix(p, s) <=> Len(p) <= Len(s) /\ \A k \in 1..Len(p) : p[k] = s[k]
<1>1. Len(p) \in Nat /\ Len(s) \in Nat
  BY LenProperties
<1>2. SubSeq(p, 1, Len(p)) = p
  BY SubSeqFull
<1>3. ASSUME Len(p) <= Len(s)
      PROVE  p = SubSeq(s, 1, Len(p)) <=> \A k \in 1..Len(p) : p[k] = s[k]
  <2> DEFINE t == SubSeq(s, 1, Len(p))
  <2>1. \A i \in 1..Len(p) : s[i] \in S
    BY <1>1, <1>3, ElementOfSeq
  <2>2. t \in Seq(S) /\ Len(t) = Len(p)
    BY <1>1, <1>3, TakeType
  <2>3. \A k \in 1..Len(p) - 1 + 1 : t[k] = s[1 + k - 1]
    BY <1>1, <2>1, SubSeqProperties
  <2>4. \A k \in 1..Len(p) : t[k] = s[k]
    BY <1>1, <2>3
  <2> HIDE DEF t
  <2>5. (\A k \in 1..Len(p) : p[k] = t[k]) => p = t
    BY <2>2, SeqEqual
  <2> QED BY <2>4, <2>5 DEF t
<1> QED BY <1>2, <1>3 DEF IsPrefix

\* A prefix at a place of a sequence.
LEMMA PrefixAt ==
  ASSUME NEW S, NEW p \in Seq(S), NEW s \in Seq(S), NEW n \in 0..Len(s)
  PROVE  IsPrefix(p, Drop(s, n)) <=>
           Len(p) <= Len(s) - n /\ \A k \in 1..Len(p) : p[k] = s[n + k]
<1>1. Len(p) \in Nat /\ Len(s) \in Nat
  BY LenProperties
<1>2. /\ Drop(s, n) \in Seq(S) /\ Len(Drop(s, n)) = Len(s) - n
      /\ \A k \in 1..Len(s) - n : Drop(s, n)[k] = s[n + k]
  BY DropElements
<1> DEFINE d == Drop(s, n)
<1>3. IsPrefix(p, d) <=> Len(p) <= Len(d) /\ \A k \in 1..Len(p) : p[k] = d[k]
  <2>1. d \in Seq(S)
    BY <1>2
  <2> HIDE DEF d
  <2> QED BY <2>1, PrefixElements, SMTT(60)
<1>4. Len(d) = Len(s) - n /\ \A k \in 1..Len(s) - n : d[k] = s[n + k]
  BY <1>2
<1> HIDE DEF d
<1>5. Len(p) <= Len(s) - n => \A k \in 1..Len(p) : k \in 1..Len(s) - n
  BY <1>1
<1>6. IsPrefix(p, d) <=> Len(p) <= Len(s) - n /\ \A k \in 1..Len(p) : p[k] = s[n + k]
  BY <1>3, <1>4, <1>5
<1> QED BY <1>6 DEF d

\* The lengths.
LEMMA Lengths ==
  /\ CacheLen \in Nat /\ Margin \in Nat
  /\ TagStart \in Seq(Chars) /\ Len(TagStart) \in Nat /\ Len(TagStart) > 0
  /\ TagEnd \in Seq(Chars) /\ Len(TagEnd) \in Nat /\ Len(TagEnd) > 0
  /\ Len(TagStart) <= CacheLen /\ Len(TagEnd) <= CacheLen
<1>1. /\ TagStart \in Seq(Chars) /\ TagStart # <<>> /\ TagEnd \in Seq(Chars) /\ TagEnd # <<>>
      /\ CacheLen \in Nat /\ Margin \in Nat /\ Len(TagStart) <= CacheLen /\ Len(TagEnd) <= CacheLen
  <2>1. CacheLen >= Len(TagStart) /\ CacheLen >= Len(TagEnd)
    BY FormPageAssumption
  <2>2. Len(TagStart) \in Nat /\ Len(TagEnd) \in Nat
    BY FormPageAssumption, LenProperties
  <2> QED BY <2>1, <2>2, FormPageAssumption
<1>2. Len(TagStart) \in Nat \ {0} /\ Len(TagEnd) \in Nat \ {0}
  BY <1>1, EmptySeq
<1> QED BY <1>1, <1>2

\* Induction from the end of a sequence to its first place, for a set of places.
LEMMA BackInduction ==
  ASSUME NEW L \in Nat, NEW T,
         \A k \in 1..L + 1 : (\A j \in k + 1..L + 1 : j \in T) => k \in T
  PROVE  \A k \in 1..L + 1 : k \in T
<1> DEFINE B == {n \in Nat : n <= L /\ L + 1 - n \notin T}
<1>1. ASSUME B # {} PROVE FALSE
  <2>1. PICK n \in B : \A m \in B : n <= m
    <3>1. B \subseteq Nat
      OBVIOUS
    <3> HIDE DEF B
    <3> QED BY <1>1, <3>1, LeastElement
  <2>2. n \in Nat /\ n <= L /\ L + 1 - n \in 1..L + 1 /\ L + 1 - n \notin T
    OBVIOUS
  <2>3. ASSUME NEW j \in (L + 1 - n) + 1..L + 1, j \notin T PROVE FALSE
    <3>1. L + 1 - j \in Nat /\ L + 1 - j <= L /\ L + 1 - (L + 1 - j) = j /\ L + 1 - j < n
      BY <2>2
    <3>2. L + 1 - j \in B
      BY <2>3, <3>1
    <3>3. n <= L + 1 - j
      BY <2>1, <3>2
    <3> QED BY <2>2, <3>1, <3>3
  <2> QED BY <2>2, <2>3
<1>2. ASSUME NEW k \in 1..L + 1 PROVE k \in T
  <2>1. L + 1 - k \in Nat /\ L + 1 - k <= L /\ L + 1 - (L + 1 - k) = k
    OBVIOUS
  <2>2. L + 1 - k \notin B
    <3> HIDE DEF B
    <3> QED BY <1>1
  <2> QED BY <2>1, <2>2
<1> QED BY <1>2

\* A value is text.
LEMMA ValueIsText ==
  ASSUME NEW config, config.text \in Seq(Chars), NEW name
  PROVE  Value(name, config) \in Seq(Chars)
<1>1. "0" \in Chars /\ "1" \in Chars
  BY FormPageAssumption
<1>2. <<"1">> \in Seq(Chars) /\ <<"0">> \in Seq(Chars) /\ <<>> \in Seq(Chars)
  BY <1>1
<1> QED BY <1>2 DEF Value

\* Where a tag starts in a clear file there is a first end for it, before the last cache;
\* and it is the only place that has no end before it.
LEMMA TagIsClosed ==
  ASSUME NEW t \in Seq(Chars), TagsClear(t), NEW i \in 1..Len(t), StartsAt(t, i)
  PROVE  /\ EndsAt(t, i) \in i + Len(TagStart)..Len(t) - CacheLen - Len(TagEnd) + 1
         /\ \A j \in i + Len(TagStart)..Len(t) :
              EndHere(t, j) /\ (\A k \in i + Len(TagStart)..j - 1 : ~EndHere(t, k))
                => j = EndsAt(t, i)
         /\ EndHere(t, EndsAt(t, i))
         /\ \A k \in i + Len(TagStart)..EndsAt(t, i) - 1 : ~EndHere(t, k)
<1> DEFINE b == i + Len(TagStart)
           z == Len(t) - CacheLen - Len(TagEnd) + 1
           T == {j \in b..Len(t) : EndHere(t, j)}
           First(j) == EndHere(t, j) /\ \A k \in b..j - 1 : ~EndHere(t, k)
<1>1. Len(t) \in Nat /\ b \in Nat /\ z \in Int /\ z <= Len(t)
  BY Lengths, LenProperties
<1>2. EndsAt(t, i) = CHOOSE j \in b..Len(t) : First(j)
  BY DEF EndsAt, EndHere
<1>3. PICK w \in b..z : EndHere(t, w)
  BY DEF TagsClear, EndHere
<1> HIDE DEF b, z
<1>4. T \subseteq Nat /\ w \in T
  BY <1>1, <1>3
<1>5. PICK e \in T : \A y \in T : e <= y
  <2> HIDE DEF T
  <2> QED BY <1>4, LeastElement
<1>6. e \in b..Len(t) /\ e <= w /\ EndHere(t, e)
  BY <1>4, <1>5
<1>7. \A k \in b..e - 1 : ~EndHere(t, k)
  <2>1. ASSUME NEW k \in b..e - 1, EndHere(t, k) PROVE FALSE
    <3>1. k \in b..Len(t) /\ k < e
      BY <1>1, <1>6
    <3>2. k \in T
      BY <2>1, <3>1
    <3>3. e <= k
      BY <1>5, <3>2
    <3> QED BY <1>1, <1>6, <3>1, <3>3
  <2> QED BY <2>1
<1>8. First(e)
  BY <1>6, <1>7
<1>9. ASSUME NEW j \in b..Len(t), First(j) PROVE j = e
  <2>1. j \in T
    BY <1>9
  <2>2. e <= j
    BY <1>5, <2>1
  <2>3. ~(e < j)
    <3>1. e < j => e \in b..j - 1
      BY <1>1, <1>6
    <3> QED BY <1>6, <1>9, <3>1
  <2> QED BY <1>1, <1>6, <2>2, <2>3
<1>10. EndsAt(t, i) = e
  <2> HIDE DEF First
  <2> QED BY <1>2, <1>6, <1>8, <1>9
<1>11. e \in b..z
  BY <1>1, <1>3, <1>6
<1> QED BY <1>6, <1>7, <1>9, <1>10, <1>11 DEF b, z

\* The places that the rendering at place i depends on are behind it.
LEMMA RenderedAtLocal ==
  ASSUME NEW t \in Seq(Chars), TagsClear(t), NEW config, config.text \in Seq(Chars)
  PROVE  \A i \in 1..Len(t) + 1 : \A f, g :
           (\A j \in i + 1..Len(t) + 1 : f[j] \in Seq(Chars) /\ g[j] = f[j]) =>
              /\ RenderedAt(g, t, config, i) = RenderedAt(f, t, config, i)
              /\ RenderedAt(f, t, config, i) \in Seq(Chars)
<1> SUFFICES ASSUME NEW i \in 1..Len(t) + 1, NEW f, NEW g,
                    \A j \in i + 1..Len(t) + 1 : f[j] \in Seq(Chars) /\ g[j] = f[j]
             PROVE  /\ RenderedAt(g, t, config, i) = RenderedAt(f, t, config, i)
                    /\ RenderedAt(f, t, config, i) \in Seq(Chars)
  OBVIOUS
<1>1. Len(t) \in Nat
  BY LenProperties
<1>2. CASE i > Len(t)
  BY <1>2 DEF RenderedAt
<1>3. CASE i <= Len(t) /\ StartsAt(t, i)
  <2> DEFINE e == EndsAt(t, i) + Len(TagEnd)
             v == Value(SubSeq(t, i + Len(TagStart), EndsAt(t, i) - 1), config)
  <2>1. e \in i + 1..Len(t) + 1
    <3>1. i \in 1..Len(t)
      BY <1>1, <1>3
    <3>2. EndsAt(t, i) \in i + Len(TagStart)..Len(t) - CacheLen - Len(TagEnd) + 1
      BY <1>3, <3>1, TagIsClosed
    <3> QED BY <1>1, <3>1, <3>2, Lengths
  <2>2. v \in Seq(Chars)
    BY ValueIsText
  <2>3. ~(i > Len(t))
    BY <1>1, <1>3
  <2>4. /\ RenderedAt(f, t, config, i) = v \o f[e]
        /\ RenderedAt(g, t, config, i) = v \o g[e]
    BY <1>3, <2>3 DEF RenderedAt
  <2> HIDE DEF e, v
  <2>5. f[e] \in Seq(Chars) /\ g[e] = f[e]
    BY <2>1
  <2> QED BY <2>2, <2>4, <2>5, ConcatProperties
<1>4. CASE i <= Len(t) /\ ~StartsAt(t, i)
  <2>1. ~(i > Len(t)) /\ i + 1 \in i + 1..Len(t) + 1 /\ i \in 1..Len(t)
    BY <1>1, <1>4
  <2>2. /\ RenderedAt(f, t, config, i) = <<t[i]>> \o f[i + 1]
        /\ RenderedAt(g, t, config, i) = <<t[i]>> \o g[i + 1]
    BY <1>4, <2>1 DEF RenderedAt
  <2>3. <<t[i]>> \in Seq(Chars)
    BY <2>1, ElementOfSeq
  <2>4. f[i + 1] \in Seq(Chars) /\ g[i + 1] = f[i + 1]
    BY <2>1
  <2> QED BY <2>2, <2>3, <2>4, ConcatProperties
<1> QED BY <1>1, <1>2, <1>3, <1>4

\* Hence the recursion defines something, and only one thing.
LEMMA RenderingExists ==
  ASSUME NEW t \in Seq(Chars), TagsClear(t), NEW config, config.text \in Seq(Chars)
  PROVE  \E f \in [1..Len(t) + 1 -> Seq(Chars)] :
           \A i \in 1..Len(t) + 1 : f[i] = RenderedAt(f, t, config, i)
<1> DEFINE L == Len(t)
           Solves(f, m) == \A i \in m..L + 1 : f[i] = RenderedAt(f, t, config, i)
           Ok(m) == \E f \in [m..L + 1 -> Seq(Chars)] : Solves(f, m)
           T == {m \in 1..L + 1 : Ok(m)}
<1>0. \A i \in 1..L + 1 : \A f, g :
        (\A j \in i + 1..L + 1 : f[j] \in Seq(Chars) /\ g[j] = f[j]) =>
           /\ RenderedAt(g, t, config, i) = RenderedAt(f, t, config, i)
           /\ RenderedAt(f, t, config, i) \in Seq(Chars)
  BY RenderedAtLocal
<1>1. L \in Nat
  BY LenProperties
<1> HIDE DEF L
<1>2. Ok(L + 1)
  <2> DEFINE f == [i \in L + 1..L + 1 |-> <<>>]
  <2>1. f \in [L + 1..L + 1 -> Seq(Chars)]
    OBVIOUS
  <2>2. ASSUME NEW i \in L + 1..L + 1 PROVE f[i] = RenderedAt(f, t, config, i)
    <3>1. i > Len(t)
      BY <1>1 DEF L
    <3>2. f[i] = <<>>
      OBVIOUS
    <3> HIDE DEF f
    <3> QED BY <3>1, <3>2 DEF RenderedAt
  <2>3. Solves(f, L + 1)
    BY <2>2
  <2> HIDE DEF f, Solves
  <2> QED BY <2>1, <2>3
<1>3. ASSUME NEW k \in 1..L, Ok(k + 1) PROVE Ok(k)
  <2> DEFINE m == k + 1
  <2>1. PICK f \in [m..L + 1 -> Seq(Chars)] : Solves(f, m)
    BY <1>3
  <2>2. m \in Nat /\ k \in Nat /\ m = k + 1 /\ k >= 1 /\ k <= L
    BY <1>1, <1>3
  <2> HIDE DEF m
  <2> DEFINE g == [i \in k..L + 1 |-> IF i = k THEN RenderedAt(f, t, config, k) ELSE f[i]]
  <2>3. \A i \in m..L + 1 : i \in k..L + 1 /\ i # k /\ f[i] \in Seq(Chars)
    BY <1>1, <2>2
  <2>4. \A i \in m..L + 1 : g[i] = f[i]
    BY <2>3
  <2>5. ASSUME NEW i \in k..L + 1
        PROVE  /\ RenderedAt(g, t, config, i) = RenderedAt(f, t, config, i)
               /\ RenderedAt(f, t, config, i) \in Seq(Chars)
    <3>1. i \in 1..L + 1 /\ \A j \in i + 1..L + 1 : j \in m..L + 1
      BY <1>1, <2>2
    <3> HIDE DEF g
    <3>2. \A j \in i + 1..L + 1 : f[j] \in Seq(Chars) /\ g[j] = f[j]
      BY <2>3, <2>4, <3>1
    <3> QED BY <1>0, <3>1, <3>2
  <2>6. g[k] = RenderedAt(f, t, config, k) /\ k \in k..L + 1
    BY <1>1, <2>2
  <2>7. \A i \in k..L + 1 : i = k \/ i \in m..L + 1
    BY <1>1, <2>2
  <2>8. g \in [k..L + 1 -> Seq(Chars)]
    <3>1. ASSUME NEW i \in k..L + 1 PROVE g[i] \in Seq(Chars)
      <4>1. i = k => g[i] = RenderedAt(f, t, config, k)
        BY <2>6
      <4> HIDE DEF g
      <4> QED BY <2>3, <2>4, <2>5, <2>7, <4>1
    <3>2. g = [i \in k..L + 1 |-> g[i]]
      OBVIOUS
    <3> HIDE DEF g
    <3> QED BY <3>1, <3>2
  <2> HIDE DEF g
  <2>9. ASSUME NEW i \in k..L + 1 PROVE g[i] = RenderedAt(g, t, config, i)
    <3>1. CASE i = k
      BY <2>5, <2>6, <3>1
    <3>2. CASE i \in m..L + 1
      BY <2>1, <2>4, <2>5, <3>2
    <3> QED BY <2>7, <3>1, <3>2
  <2> QED BY <2>8, <2>9
<1>4. \A k \in 1..L + 1 : k \in T
  <2>1. ASSUME NEW k \in 1..L + 1, \A j \in k + 1..L + 1 : j \in T PROVE k \in T
    <3> HIDE DEF Ok
    <3>1. CASE k = L + 1
      BY <1>2, <3>1
    <3>2. CASE k # L + 1
      <4>1. k \in 1..L /\ k + 1 \in k + 1..L + 1
        BY <1>1, <3>2
      <4>2. Ok(k + 1)
        BY <2>1, <4>1
      <4> QED BY <1>3, <4>1, <4>2
    <3> QED BY <3>1, <3>2
  <2> HIDE DEF T
  <2> QED BY <1>1, <2>1, BackInduction
<1>5. Ok(1)
  <2>1. 1 \in 1..L + 1
    BY <1>1
  <2> HIDE DEF Ok
  <2> QED BY <1>4, <2>1
<1> QED BY <1>5 DEF L

\* The equation of the rendering.
LEMMA RenderingEquation ==
  ASSUME NEW t \in Seq(Chars), TagsClear(t), NEW config, config.text \in Seq(Chars)
  PROVE  \A i \in 1..Len(t) + 1 :
           /\ RenderingFrom(t, config)[i] = RenderedAt(RenderingFrom(t, config), t, config, i)
           /\ RenderingFrom(t, config)[i] \in Seq(Chars)
<1> DEFINE f == RenderingFrom(t, config)
           L == Len(t)
           Eq(g) == g = [i \in 1..L + 1 |-> RenderedAt(g, t, config, i)]
<1>0. \A i \in 1..L + 1 : \A h, g :
        (\A j \in i + 1..L + 1 : h[j] \in Seq(Chars) /\ g[j] = h[j]) =>
           /\ RenderedAt(g, t, config, i) = RenderedAt(h, t, config, i)
           /\ RenderedAt(h, t, config, i) \in Seq(Chars)
  BY RenderedAtLocal
<1>1. f = CHOOSE g : Eq(g)
  BY DEF RenderingFrom
<1>2. PICK g \in [1..L + 1 -> Seq(Chars)] :
        \A i \in 1..L + 1 : g[i] = RenderedAt(g, t, config, i)
  BY RenderingExists
<1>3. Eq(g)
  BY <1>2
<1>4. Eq(f)
  <2> HIDE DEF Eq, f
  <2> QED BY <1>1, <1>3
<1>5. \A i \in 1..L + 1 : f[i] = RenderedAt(f, t, config, i)
  <2> HIDE DEF f
  <2> QED BY <1>4
<1> HIDE DEF f
<1> DEFINE T == {i \in 1..L + 1 : f[i] = g[i]}
<1>6. \A k \in 1..L + 1 : k \in T
  <2>1. ASSUME NEW k \in 1..L + 1, \A j \in k + 1..L + 1 : j \in T PROVE k \in T
    <3>1. \A j \in k + 1..L + 1 : g[j] \in Seq(Chars) /\ f[j] = g[j]
      BY <2>1
    <3>2. RenderedAt(f, t, config, k) = RenderedAt(g, t, config, k)
      BY <1>0, <3>1
    <3> QED BY <1>2, <1>5, <3>2
  <2>2. L \in Nat
    BY LenProperties
  <2> HIDE DEF T, L
  <2> QED BY <2>1, <2>2, BackInduction
<1>7. \A i \in 1..L + 1 : f[i] = g[i] /\ g[i] \in Seq(Chars)
  BY <1>6
<1> QED BY <1>5, <1>7 DEF f

\* The rendering, step by step: at the end, at a character, and at a tag.
LEMMA RenderingSteps ==
  ASSUME NEW t \in Seq(Chars), TagsClear(t), NEW config, config.text \in Seq(Chars)
  PROVE  /\ RenderingFrom(t, config)[Len(t) + 1] = <<>>
         /\ \A i \in 1..Len(t) : ~StartsAt(t, i) =>
              RenderingFrom(t, config)[i] = <<t[i]>> \o RenderingFrom(t, config)[i + 1]
         /\ \A i \in 1..Len(t) : \A j \in i + Len(TagStart)..Len(t) :
              /\ StartsAt(t, i) /\ EndHere(t, j)
              /\ \A k \in i + Len(TagStart)..j - 1 : ~EndHere(t, k)
              => RenderingFrom(t, config)[i]
                   = Value(SubSeq(t, i + Len(TagStart), j - 1), config)
                       \o RenderingFrom(t, config)[j + Len(TagEnd)]
<1> DEFINE f == RenderingFrom(t, config)
<1>1. Len(t) \in Nat
  BY LenProperties
<1>2. \A i \in 1..Len(t) + 1 : f[i] = RenderedAt(f, t, config, i)
  BY RenderingEquation
<1> HIDE DEF f
<1>3. f[Len(t) + 1] = <<>>
  <2>1. Len(t) + 1 \in 1..Len(t) + 1 /\ Len(t) + 1 > Len(t)
    BY <1>1
  <2> QED BY <1>2, <2>1 DEF RenderedAt
<1>4. ASSUME NEW i \in 1..Len(t), ~StartsAt(t, i) PROVE f[i] = <<t[i]>> \o f[i + 1]
  <2>1. i \in 1..Len(t) + 1 /\ ~(i > Len(t))
    BY <1>1
  <2> QED BY <1>2, <1>4, <2>1 DEF RenderedAt
<1>5. ASSUME NEW i \in 1..Len(t), NEW j \in i + Len(TagStart)..Len(t), StartsAt(t, i),
             EndHere(t, j), \A k \in i + Len(TagStart)..j - 1 : ~EndHere(t, k)
      PROVE  f[i] = Value(SubSeq(t, i + Len(TagStart), j - 1), config) \o f[j + Len(TagEnd)]
  <2>1. i \in 1..Len(t) + 1 /\ ~(i > Len(t))
    BY <1>1
  <2>2. j = EndsAt(t, i)
    BY <1>5, TagIsClosed
  <2>3. f[i] = Value(SubSeq(t, i + Len(TagStart), EndsAt(t, i) - 1), config)
                 \o f[EndsAt(t, i) + Len(TagEnd)]
    BY <1>2, <1>5, <2>1 DEF RenderedAt
  <2> QED BY <2>2, <2>3
<1> QED BY <1>3, <1>4, <1>5 DEF f

\* Where no tag starts any more, the rendering is the rest of the file.
LEMMA PlainRest ==
  ASSUME NEW t \in Seq(Chars), TagsClear(t), NEW config, config.text \in Seq(Chars),
         NEW c \in 0..Len(t), \A i \in c + 1..Len(t) : ~StartsAt(t, i)
  PROVE  RenderingFrom(t, config)[c + 1] = Drop(t, c)
<1> DEFINE f == RenderingFrom(t, config)
           L == Len(t)
           T == {i \in 1..L + 1 : i > c => f[i] = Drop(t, i - 1)}
<1>1. L \in Nat
  BY LenProperties
<1>2. f[L + 1] = <<>> /\ \A i \in 1..L : ~StartsAt(t, i) => f[i] = <<t[i]>> \o f[i + 1]
  BY RenderingSteps
<1> HIDE DEF f
<1>3. ASSUME NEW k \in 1..L + 1, \A j \in k + 1..L + 1 : j \in T PROVE k \in T
  <2> SUFFICES ASSUME k > c PROVE f[k] = Drop(t, k - 1)
    OBVIOUS
  <2>1. CASE k = L + 1
    <3>1. Drop(t, k - 1) = <<>>
      BY <1>1, <2>1, SubSeqEmpty DEF Drop
    <3> QED BY <1>2, <2>1, <3>1
  <2>2. CASE k # L + 1
    <3>1. k \in 1..L /\ k + 1 \in k + 1..L + 1 /\ k + 1 > c /\ k \in c + 1..L /\ k + 1 - 1 = k
      BY <1>1, <2>2
    <3>2. f[k + 1] = Drop(t, k)
      BY <1>3, <3>1
    <3>3. f[k] = <<t[k]>> \o Drop(t, k)
      BY <1>2, <3>1, <3>2
    <3>4. L \in k..L /\ k - 1 + 1 = k
      BY <1>1, <3>1
    <3>5. SubSeq(t, k, L) = <<t[k]>> \o SubSeq(t, k + 1, L)
      BY <3>1, <3>4, SubSeqRecursiveFirst
    <3> QED BY <3>3, <3>4, <3>5 DEF Drop
  <2> QED BY <2>1, <2>2
<1>4. \A k \in 1..L + 1 : k \in T
  <2> HIDE DEF T, L
  <2> QED BY <1>1, <1>3, BackInduction
<1>5. c + 1 \in 1..L + 1 /\ c + 1 > c /\ c + 1 - 1 = c
  BY <1>1
<1> QED BY <1>4, <1>5 DEF f

\* c goes over from the rest d to b, what the call has produced behind a, what was sent.
Regrouped(a, b, c, d) == (a \o b) \o (c \o d) = (a \o (b \o c)) \o d

\* Concatenation does not depend on the grouping.
LEMMA Regroup ==
  ASSUME NEW a \in Seq(Chars), NEW b \in Seq(Chars), NEW c \in Seq(Chars), NEW d \in Seq(Chars)
  PROVE  Regrouped(a, b, c, d)
<1> DEFINE ab == a \o b
           bc == b \o c
           cd == c \o d
<1>1. ab \in Seq(Chars) /\ bc \in Seq(Chars)
  BY ConcatProperties
<1>2. \A x, y, z \in Seq(Chars) : (x \o y) \o z = x \o (y \o z)
  <2> TAKE x, y, z \in Seq(Chars)
  <2> QED BY ConcatAssociative, SMTT(60)
<1>3. ab \o c = a \o bc
  BY <1>2
<1>4. (ab \o c) \o d = ab \o cd
  <2>1. (ab \o c) \o d = ab \o (c \o d)
    <3> HIDE DEF ab
    <3> QED BY <1>1, <1>2
  <2> QED BY <2>1
<1> HIDE DEF ab, bc, cd
<1>5. ab \o cd = (a \o bc) \o d
  BY <1>3, <1>4
<1> QED BY <1>5 DEF ab, bc, cd, Regrouped

-----------------------------------------------------------------------------
(* The place in the file.                                                  *)

\* The types of the parts of a page, and of its place.
LEMMA PlaceType ==
  ASSUME NEW p \in PageRecord
  PROVE  /\ p.file \in Seq(Chars) /\ p.text \in Seq(Chars) /\ p.cache \in Seq(Chars)
         /\ p.name \in Seq(Chars) /\ p.out \in Seq(Chars) /\ p.sent \in Seq(Chars)
         /\ Len(p.file) \in Nat /\ Len(p.text) \in Nat /\ Len(p.cache) \in Nat
         /\ Len(p.name) \in Nat /\ Done(p) \in Int /\ Begun(p) \in Int
         /\ Done(p) + Len(p.cache) + Len(p.text) = Len(p.file)
<1>1. /\ p.file \in Seq(Chars) /\ p.text \in Seq(Chars) /\ p.cache \in Seq(Chars)
      /\ p.name \in Seq(Chars) /\ p.out \in Seq(Chars) /\ p.sent \in Seq(Chars)
  BY DEF PageRecord
<1>2. /\ Len(p.file) \in Nat /\ Len(p.text) \in Nat /\ Len(p.cache) \in Nat
      /\ Len(p.name) \in Nat
  BY <1>1, LenProperties
<1> QED BY <1>1, <1>2, Lengths DEF Done, Begun

\* The first n characters of the cache are taken.
LEMMA Advance ==
  ASSUME NEW p \in PageRecord, NEW q \in PageRecord, Placed(p), NEW n \in 0..Len(p.cache),
         q.cache = Drop(p.cache, n), q.text = p.text, q.file = p.file
  PROVE  Done(q) = Done(p) + n /\ Placed(q)
<1>1. /\ Len(p.cache) \in Nat /\ Len(p.text) \in Nat /\ Len(p.file) \in Nat /\ Done(p) \in Int
      /\ p.cache \in Seq(Chars)
  BY PlaceType
<1>2. /\ Len(q.cache) = Len(p.cache) - n
      /\ \A k \in 1..Len(p.cache) - n : q.cache[k] = p.cache[n + k]
  BY <1>1, DropElements
<1>3. Done(q) = Done(p) + n
  BY <1>1, <1>2 DEF Done
<1>4. Done(p) >= 0 /\ Done(q) >= 0
  BY <1>1, <1>3 DEF Placed
<1>5. ASSUME NEW k \in 1..Len(q.cache) PROVE q.cache[k] = q.file[Done(q) + k]
  <2>1. k \in 1..Len(p.cache) - n /\ n + k \in 1..Len(p.cache)
    BY <1>1, <1>2
  <2>2. p.cache[n + k] = p.file[Done(p) + (n + k)]
    BY <2>1 DEF Placed
  <2>3. Done(p) + (n + k) = Done(q) + k
    BY <1>1, <1>3, <2>1
  <2> QED BY <1>2, <2>1, <2>2, <2>3
<1>6. ASSUME NEW k \in 1..Len(q.text) PROVE q.text[k] = q.file[Done(q) + Len(q.cache) + k]
  <2>1. Done(q) + Len(q.cache) = Done(p) + Len(p.cache)
    BY <1>1, <1>2, <1>3
  <2> QED BY <2>1 DEF Placed
<1> QED BY <1>3, <1>4, <1>5, <1>6 DEF Placed

\* A cache that is not too short tells whether a mark is at its place of the file.
LEMMA CacheTells ==
  ASSUME page \in PageRecord, Placed(page), page.cache # <<>>,
         NEW m \in Seq(Chars), Len(m) > 0, ~Incomplete(m)
  PROVE  /\ Done(page) \in 0..Len(page.file) - 1
         /\ Begins(m) <=> IsPrefix(m, Drop(page.file, Done(page)))
         /\ Begins(m) => Len(m) \in 0..Len(page.cache)
<1> DEFINE c == page.cache
           t == page.file
           n == Done(page)
<1>1. /\ t \in Seq(Chars) /\ c \in Seq(Chars) /\ n \in Int
      /\ Len(t) \in Nat /\ Len(c) \in Nat /\ Len(page.text) \in Nat /\ Len(m) \in Nat
      /\ n + Len(c) + Len(page.text) = Len(t)
  BY PlaceType, LenProperties
<1>2. n >= 0 /\ \A k \in 1..Len(c) : c[k] = t[n + k]
  BY DEF Placed
<1>3. Len(c) > 0
  BY <1>1, EmptySeq
<1>4. n \in 0..Len(t) - 1 /\ n \in 0..Len(t) /\ Len(c) <= Len(t) - n
  BY <1>1, <1>2, <1>3
<1>5. Begins(m) <=> Len(m) <= Len(c) /\ \A k \in 1..Len(m) : m[k] = c[k]
  BY <1>1, PrefixElements DEF Begins
<1>6. IsPrefix(m, Drop(t, n)) <=> Len(m) <= Len(t) - n /\ \A k \in 1..Len(m) : m[k] = t[n + k]
  BY <1>1, <1>4, PrefixAt
<1>7. CASE Len(m) <= Len(c)
  <2>1. \A k \in 1..Len(m) : k \in 1..Len(c)
    BY <1>1, <1>7
  <2>2. Len(m) <= Len(t) - n
    BY <1>1, <1>4, <1>7
  <2>3. (\A k \in 1..Len(m) : m[k] = t[n + k]) <=> \A k \in 1..Len(m) : m[k] = c[k]
    BY <1>2, <2>1
  <2>4. Begins(m) <=> \A k \in 1..Len(m) : m[k] = c[k]
    BY <1>5, <1>7
  <2>5. IsPrefix(m, Drop(t, n)) <=> \A k \in 1..Len(m) : m[k] = t[n + k]
    BY <1>6, <2>2
  <2>6. Begins(m) <=> IsPrefix(m, Drop(t, n))
    BY <2>3, <2>4, <2>5
  <2>7. Len(m) \in 0..Len(c)
    BY <1>1, <1>7
  <2> QED BY <1>4, <2>6, <2>7
<1>8. CASE ~(Len(m) <= Len(c))
  <2>1. c[1] # m[1]
    <3>1. Head(c) = c[1] /\ Head(m) = m[1]
      OBVIOUS
    <3>2. Len(c) < Len(m)
      BY <1>1, <1>8
    <3> QED BY <3>1, <3>2 DEF Incomplete
  <2>2. 1 \in 1..Len(c) /\ 1 \in 1..Len(m)
    BY <1>1, <1>3
  <2>3. c[1] = t[n + 1]
    BY <1>2, <2>2
  <2> QED BY <1>4, <1>5, <1>6, <1>8, <2>1, <2>2, <2>3
<1> QED BY <1>7, <1>8

\* Behind the end of a clear file no tag is open, and none starts in the rest.
LEMMA RestIsPlain ==
  ASSUME NEW p \in PageRecord, Placed(p), Named(p), TagsClear(p.file), p.text = <<>>,
         Len(p.cache) <= CacheLen
  PROVE  /\ ~p.inTag
         /\ Done(p) \in 0..Len(p.file)
         /\ \A i \in Done(p) + 1..Len(p.file) : ~StartsAt(p.file, i)
<1> DEFINE t == p.file
<1>1. /\ t \in Seq(Chars) /\ Len(t) \in Nat /\ Len(p.cache) \in Nat /\ Len(p.text) = 0
      /\ Done(p) \in Int /\ Done(p) + Len(p.cache) + Len(p.text) = Len(t)
      /\ Begun(p) \in Int /\ Len(p.name) \in Nat
  BY PlaceType
<1>2. Done(p) \in 0..Len(t) /\ Done(p) >= Len(t) - CacheLen
  BY <1>1, Lengths DEF Placed
<1>3. ASSUME NEW i \in 1..Len(t), StartsAt(t, i)
      PROVE  \E j \in i + Len(TagStart)..Done(p) : EndHere(t, j)
  <2>1. PICK j \in i + Len(TagStart)..Len(t) - CacheLen - Len(TagEnd) + 1 : EndHere(t, j)
    BY <1>3 DEF TagsClear, EndHere
  <2>2. j \in i + Len(TagStart)..Done(p)
    BY <1>1, <1>2, <2>1, Lengths
  <2> QED BY <2>1, <2>2
<1>4. ASSUME NEW i \in Done(p) + 1..Len(t), StartsAt(t, i) PROVE FALSE
  <2>1. i \in 1..Len(t)
    BY <1>1, <1>2
  <2>2. PICK j \in i + Len(TagStart)..Done(p) : EndHere(t, j)
    BY <1>3, <1>4, <2>1
  <2> QED BY <1>1, <1>2, <2>2, Lengths
<1>5. ASSUME p.inTag PROVE FALSE
  <2>1. Begun(p) = Done(p) + 1 - Len(p.name) - Len(TagStart)
    BY <1>5 DEF Begun
  <2>2. Begun(p) >= 1 /\ StartsAt(t, Begun(p))
    BY <1>5 DEF Named
  <2>3. Begun(p) \in 1..Len(t)
    BY <1>1, <1>2, <2>1, <2>2, Lengths
  <2>4. \A k \in Begun(p) + Len(TagStart)..Done(p) : ~EndHere(t, k)
    BY <1>5 DEF Named
  <2> QED BY <1>3, <2>2, <2>3, <2>4
<1> QED BY <1>2, <1>4, <1>5

\* The settings that a page is rendered by have a text.
ShownText(p) == p.same => p.shown.text \in Seq(Chars)

\* A call that returns.
LEMMA ReturnedFollows ==
  ASSUME NEW p \in PageRecord, Len(p.cache) <= CacheLen, Follows(p), p.busy, ~p.end, ShownText(p)
  PROVE  Follows(Returned(p))
<1> DEFINE q == Returned(p)
           atEnd == p.text = <<>> /\ p.cache = <<>>
<1>1. /\ q.text = p.text /\ q.cache = p.cache /\ q.file = p.file /\ q.name = p.name
      /\ q.inTag = p.inTag /\ q.same = p.same /\ q.cut = p.cut /\ q.shown = p.shown
      /\ q.out = <<>> /\ q.busy = FALSE /\ q.sent = p.sent \o p.out
  BY DEF Returned, PageRecord
<1>2. (q.end <=> atEnd) /\ (q.last <=> atEnd /\ p.out # <<>>)
  BY DEF Returned, PageRecord
<1> HIDE DEF q
<1>3. Placed(p) /\ Named(p)
  BY DEF Follows
<1>4. Done(q) = Done(p) /\ Begun(q) = Begun(p)
  BY <1>1 DEF Done, Begun
<1>5. Placed(q) /\ Named(q)
  BY <1>1, <1>3, <1>4 DEF Placed, Named
<1>6. ~q.busy /\ q.text = <<>> /\ q.cache = <<>> => q.end
  BY <1>1, <1>2
<1>7. ASSUME TagsClear(q.file)
      PROVE  /\ q.end => q.last
             /\ q.busy /\ q.text = <<>> /\ q.cache = <<>> => q.out # <<>>
             /\ q.same /\ ~q.cut => SentSoFar(q)
  <2>1. q.end => q.last
    BY <1>1, <1>2, <1>7 DEF Follows
  <2>2. ASSUME q.same, ~q.cut PROVE SentSoFar(q)
    <3>1. TagsClear(p.file) /\ p.same /\ ~p.cut
      BY <1>1, <1>7, <2>2
    <3>2. SentSoFar(p)
      BY <3>1 DEF Follows
    <3>3. (p.sent \o p.out) \o RenderingFrom(p.file, p.shown)[Begun(p)]
            = Rendering(p.file, p.shown)
      BY <3>2 DEF SentSoFar
    <3>4. p.sent \o p.out \in Seq(Chars)
      BY PlaceType, ConcatProperties
    <3>5. CASE ~q.end
      <4>1. (p.sent \o p.out) \o <<>> = p.sent \o p.out
        BY <3>4, ConcatEmptySeq
      <4> QED BY <1>1, <1>4, <3>3, <3>5, <4>1 DEF SentSoFar
    <3>6. CASE q.end
      <4>1. p.text = <<>> /\ p.cache = <<>>
        BY <1>2, <3>6
      <4>2. ~p.inTag
        BY <1>3, <3>1, <4>1, RestIsPlain
      <4>3. Begun(p) = Len(p.file) + 1
        BY <4>1, <4>2, PlaceType DEF Begun
      <4>4. RenderingFrom(p.file, p.shown)[Begun(p)] = <<>>
        <5>1. p.file \in Seq(Chars) /\ p.shown.text \in Seq(Chars)
          BY <3>1, PlaceType DEF ShownText
        <5>2. RenderingFrom(p.file, p.shown)[Len(p.file) + 1] = <<>>
          BY <3>1, <5>1, RenderingSteps
        <5> QED BY <4>3, <5>2
      <4>5. (p.sent \o p.out) \o <<>> = p.sent \o p.out
        BY <3>4, ConcatEmptySeq
      <4> QED BY <1>1, <3>3, <3>6, <4>4, <4>5 DEF SentSoFar
    <3> QED BY <3>5, <3>6
  <2> QED BY <1>1, <2>1, <2>2
<1> QED BY <1>5, <1>6, <1>7 DEF Follows, q

\* A new call: it has something to read, or the rest of the cache to send.
LEMMA ReadFollows ==
  ASSUME page \in PageRecord, Bounded(page), Follows(page), ShownText(page),
         NEW room, ReadContent(room)
  PROVE  Follows(page')
<1>1. page.open /\ ~page.busy /\ ~page.end
  BY DEF ReadContent
<1>2. Placed(page) /\ Named(page) /\ page.out = <<>> /\ Len(page.cache) <= CacheLen
  BY <1>1 DEF Follows, Bounded
<1>3. CASE page.text # <<>>
  <2> DEFINE q == [page EXCEPT !.busy = TRUE, !.room = room]
  <2>1. page' = q
    BY <1>3 DEF ReadContent
  <2>2. /\ q.text = page.text /\ q.cache = page.cache /\ q.file = page.file /\ q.name = page.name
        /\ q.inTag = page.inTag /\ q.same = page.same /\ q.cut = page.cut /\ q.shown = page.shown
        /\ q.out = page.out /\ q.busy = TRUE /\ q.sent = page.sent /\ q.end = page.end
    BY DEF PageRecord
  <2> HIDE DEF q
  <2>3. Done(q) = Done(page) /\ Begun(q) = Begun(page)
    BY <2>2 DEF Done, Begun
  <2>4. Placed(q) /\ Named(q)
    BY <1>2, <2>2, <2>3 DEF Placed, Named
  <2>5. SentSoFar(page) => SentSoFar(q)
    BY <1>1, <2>2, <2>3 DEF SentSoFar
  <2>6. Follows(q)
    BY <1>1, <1>3, <2>2, <2>4, <2>5 DEF Follows
  <2> QED BY <2>1, <2>6
<1>4. CASE page.text = <<>>
  <2> DEFINE r == [page EXCEPT !.out = page.cache, !.cache = <<>>]
             q == Returned(r)
  <2>1. page' = q
    BY <1>4 DEF ReadContent
  <2>2. page.cache # <<>>
    BY <1>1, <1>4 DEF Follows
  <2>3. /\ r.text = <<>> /\ r.cache = <<>> /\ r.out = page.cache /\ r.sent = page.sent
        /\ r.file = page.file /\ r.same = page.same /\ r.cut = page.cut /\ r.shown = page.shown
        /\ r \in PageRecord
    BY <1>4, PlaceType DEF PageRecord
  <2> HIDE DEF r
  <2>4. /\ q.end = TRUE /\ q.last = TRUE /\ q.busy = FALSE /\ q.sent = page.sent \o page.cache
        /\ q.file = page.file /\ q.same = page.same /\ q.cut = page.cut /\ q.shown = page.shown
    BY <2>2, <2>3 DEF Returned, PageRecord
  <2> HIDE DEF q
  <2>5. ASSUME TagsClear(page.file), page.same, ~page.cut PROVE SentSoFar(q)
    <3> DEFINE t == page.file
               f == RenderingFrom(t, page.shown)
    <3>1. ~page.inTag /\ Done(page) \in 0..Len(t)
          /\ \A i \in Done(page) + 1..Len(t) : ~StartsAt(t, i)
      BY <1>2, <1>4, <2>5, RestIsPlain
    <3>2. Begun(page) = Done(page) + 1
      BY <3>1 DEF Begun
    <3>3. (page.sent \o page.out) \o f[Begun(page)] = Rendering(t, page.shown)
      BY <1>1, <2>5 DEF Follows, SentSoFar
    <3>4. t \in Seq(Chars) /\ page.sent \in Seq(Chars) /\ page.cache \in Seq(Chars)
      BY PlaceType
    <3>5. f[Done(page) + 1] = Drop(t, Done(page))
      BY <2>5, <3>1, <3>4, PlainRest DEF ShownText
    <3>6. Drop(t, Done(page)) = page.cache
      <4>1. /\ Drop(t, Done(page)) \in Seq(Chars)
            /\ Len(Drop(t, Done(page))) = Len(t) - Done(page)
            /\ \A k \in 1..Len(t) - Done(page) : Drop(t, Done(page))[k] = t[Done(page) + k]
        BY <3>1, <3>4, DropElements
      <4>2. Len(t) - Done(page) = Len(page.cache)
        BY <1>4, PlaceType
      <4>3. \A k \in 1..Len(page.cache) : page.cache[k] = t[Done(page) + k]
        BY <1>2 DEF Placed
      <4> DEFINE d == Drop(t, Done(page))
      <4>4. d \in Seq(Chars) /\ Len(d) = Len(page.cache)
        BY <4>1, <4>2
      <4>5. \A k \in 1..Len(d) : d[k] = page.cache[k]
        BY <4>1, <4>2, <4>3, <4>4
      <4> HIDE DEF d
      <4>6. d = page.cache
        BY <3>4, <4>4, <4>5, SeqEqual
      <4> QED BY <4>6 DEF d
    <3>7. page.sent \o page.out = page.sent
      BY <1>2, <3>4, ConcatEmptySeq
    <3>8. page.sent \o page.cache = Rendering(t, page.shown)
      BY <3>2, <3>3, <3>5, <3>6, <3>7
    <3> QED BY <2>4, <3>8 DEF SentSoFar
  <2>6. Follows(q)
    BY <2>4, <2>5 DEF Follows
  <2> QED BY <2>1, <2>6
<1> QED BY <1>3, <1>4

\* The cache is filled from the file, or a call returns at its end.
LEMMA FillFollows ==
  ASSUME page \in PageRecord, Bounded(page), Follows(page), ShownText(page), Fill
  PROVE  Follows(page')
<1>1. page.busy /\ ~page.end /\ Len(page.cache) <= CacheLen /\ Placed(page) /\ Named(page)
  BY DEF Fill, Bounded, Follows
<1>2. CASE page.text = <<>>
  BY <1>1, <1>2, ReturnedFollows DEF Fill
<1>3. CASE page.text # <<>>
  <2> DEFINE n == Smaller(Len(page.text), CacheLen - Len(page.cache))
             more == SubSeq(page.text, 1, n)
             q == [page EXCEPT !.cache = @ \o more, !.text = Drop(@, n)]
  <2>1. page' = q
    BY <1>3 DEF Fill
  <2>2. /\ page.text \in Seq(Chars) /\ page.cache \in Seq(Chars)
        /\ Len(page.text) \in Nat /\ Len(page.cache) \in Nat /\ Done(page) \in Int
        /\ Done(page) + Len(page.cache) + Len(page.text) = Len(page.file)
    BY PlaceType
  <2>3. n \in 0..Len(page.text)
    <3>1. CacheLen - Len(page.cache) \in Nat
      BY <1>1, <2>2, Lengths
    <3>2. n \in {Len(page.text), CacheLen - Len(page.cache)} /\ n <= Len(page.text)
      BY <2>2, <3>1, SmallerType
    <3> QED BY <2>2, <3>1, <3>2
  <2>4. n = Len(page.text) => n > 0
    BY <1>3, <2>2, EmptySeq
  <2> HIDE DEF n
  <2>5. more \in Seq(Chars) /\ Len(more) = n /\ \A k \in 1..n : more[k] = page.text[k]
    <3>1. more \in Seq(Chars) /\ Len(more) = n
      BY <2>2, <2>3, TakeType
    <3>2. \A k \in 1..n : page.text[k] \in Chars
      BY <2>2, <2>3, ElementOfSeq
    <3>3. \A k \in 1..n - 1 + 1 : more[k] = page.text[1 + k - 1]
      BY <2>3, <3>2, SubSeqProperties
    <3> QED BY <2>3, <3>1, <3>3
  <2>6. /\ q.text = Drop(page.text, n) /\ q.cache = page.cache \o more
        /\ q.file = page.file /\ q.name = page.name
        /\ q.inTag = page.inTag /\ q.same = page.same /\ q.cut = page.cut /\ q.shown = page.shown
        /\ q.out = page.out /\ q.busy = page.busy /\ q.sent = page.sent /\ q.end = page.end
    BY DEF PageRecord
  <2> HIDE DEF q, more
  <2>7. /\ Len(q.text) = Len(page.text) - n
        /\ \A k \in 1..Len(page.text) - n : q.text[k] = page.text[n + k]
    <3>1. /\ Len(Drop(page.text, n)) = Len(page.text) - n
          /\ \A k \in 1..Len(page.text) - n : Drop(page.text, n)[k] = page.text[n + k]
      BY <2>2, <2>3, DropElements
    <3> QED BY <2>6, <3>1
  <2>8. /\ Len(q.cache) = Len(page.cache) + n
        /\ \A k \in 1..Len(page.cache) + n :
             q.cache[k] = IF k <= Len(page.cache) THEN page.cache[k] ELSE more[k - Len(page.cache)]
    <3>1. /\ Len(page.cache \o more) = Len(page.cache) + Len(more)
          /\ \A k \in 1..Len(page.cache) + Len(more) :
               (page.cache \o more)[k] = IF k <= Len(page.cache) THEN page.cache[k]
                                         ELSE more[k - Len(page.cache)]
      <4>1. page.cache \in Seq(Chars) /\ more \in Seq(Chars)
        BY <2>2, <2>5
      <4> QED BY <4>1, ConcatProperties, Zenon
    <3>2. /\ Len(page.cache \o more) = Len(page.cache) + n
          /\ \A k \in 1..Len(page.cache) + n :
               (page.cache \o more)[k] = IF k <= Len(page.cache) THEN page.cache[k]
                                         ELSE more[k - Len(page.cache)]
      BY <2>5, <3>1, Zenon
    <3> QED BY <2>6, <3>2, Zenon
  <2>9. Done(q) = Done(page) /\ Begun(q) = Begun(page)
    <3>1. Len(q.text) = Len(page.text) - n /\ Len(q.cache) = Len(page.cache) + n /\ n \in Int
      BY <2>3, <2>7, <2>8
    <3>2. Done(q) = Done(page)
      <4>1. Len(page.file) \in Nat /\ q.file = page.file
        BY <2>6, PlaceType
      <4> QED BY <2>2, <3>1, <4>1 DEF Done
    <3> QED BY <2>6, <3>2 DEF Begun
  <2>10. ASSUME NEW k \in 1..Len(q.cache) PROVE q.cache[k] = q.file[Done(q) + k]
    <3>1. CASE k <= Len(page.cache)
      <4>1. k \in 1..Len(page.cache) /\ q.cache[k] = page.cache[k]
        BY <2>2, <2>3, <2>8, <3>1
      <4> QED BY <1>1, <2>6, <2>9, <4>1 DEF Placed
    <3>2. CASE ~(k <= Len(page.cache))
      <4>1. k - Len(page.cache) \in 1..n /\ k - Len(page.cache) \in 1..Len(page.text)
        BY <2>2, <2>3, <2>8, <3>2
      <4>2. q.cache[k] = page.text[k - Len(page.cache)]
        BY <2>3, <2>5, <2>8, <3>2, <4>1
      <4>3. page.text[k - Len(page.cache)]
              = page.file[Done(page) + Len(page.cache) + (k - Len(page.cache))]
        BY <1>1, <4>1 DEF Placed
      <4>4. Done(page) + Len(page.cache) + (k - Len(page.cache)) = Done(q) + k
        BY <2>2, <2>3, <2>8, <2>9
      <4> QED BY <2>6, <4>2, <4>3, <4>4
    <3> QED BY <3>1, <3>2
  <2>11. ASSUME NEW k \in 1..Len(q.text) PROVE q.text[k] = q.file[Done(q) + Len(q.cache) + k]
    <3>1. k \in 1..Len(page.text) - n /\ n + k \in 1..Len(page.text)
      BY <2>2, <2>3, <2>7
    <3>2. page.text[n + k] = page.file[Done(page) + Len(page.cache) + (n + k)]
      BY <1>1, <3>1 DEF Placed
    <3>3. Done(page) + Len(page.cache) + (n + k) = Done(q) + Len(q.cache) + k
      BY <2>2, <2>3, <2>8, <2>9, <3>1
    <3> QED BY <2>6, <2>7, <3>1, <3>2, <3>3
  <2>12. Placed(q) /\ Named(q)
    BY <1>1, <2>6, <2>9, <2>10, <2>11 DEF Placed, Named
  <2>13. ~(q.text = <<>> /\ q.cache = <<>>)
    <3>1. q.text = <<>> /\ q.cache = <<>> => Len(q.text) = 0 /\ Len(q.cache) = 0
      BY EmptySeq
    <3> QED BY <2>2, <2>3, <2>4, <2>7, <2>8, <3>1
  <2>14. SentSoFar(page) => SentSoFar(q)
    BY <2>6, <2>9 DEF SentSoFar
  <2>15. Follows(q)
    BY <1>1, <2>6, <2>12, <2>13, <2>14 DEF Follows
  <2> QED BY <2>1, <2>15
<1> QED BY <1>2, <1>3

\* Without the first character.
LEMMA TailIsDrop ==
  ASSUME NEW S, NEW s \in Seq(S), s # <<>>
  PROVE  Tail(s) = Drop(s, 1) /\ Head(s) = s[1] /\ 1 \in 0..Len(s)
<1>1. Len(s) \in Nat /\ Len(s) > 0
  BY EmptySeq, LenProperties
<1>2. Tail(s) = SubSeq(s, 2, Len(s))
  BY TailIsSubSeq
<1>3. Head(s) = s[1]
  OBVIOUS
<1> QED BY <1>1, <1>2, <1>3 DEF Drop

\* What a step that takes from the cache has to show.
LEMMA StepFollows ==
  ASSUME page \in PageRecord, NEW q, page.busy, ~page.end, Bounded(page),
         q.busy = page.busy, q.end = page.end, q.file = page.file, q.text = page.text,
         q.same = page.same, q.shown = page.shown,
         Placed(q), Named(q), q.cut = FALSE => page.cut = FALSE,
         TagsClear(page.file) /\ q.text = <<>> /\ q.cache = <<>> => q.out # <<>>,
         TagsClear(page.file) /\ page.same /\ ~q.cut => SentSoFar(q)
  PROVE  Follows(q)
BY DEF Follows

\* A character of the page.
LEMMA CopyCharFollows ==
  ASSUME page \in PageRecord, Bounded(page), Follows(page), ShownText(page), CopyChar
  PROVE  Follows(page')
<1> DEFINE h == Head(page.cache)
           q == [page EXCEPT !.out = Append(@, h), !.cache = Tail(@)]
<1>1. /\ page.busy /\ page.cache # <<>> /\ ~page.inTag /\ ~Begins(TagStart)
      /\ ~Incomplete(TagStart)
      /\ page' = IF Len(q.out) >= q.room THEN Returned(q) ELSE q
  BY DEF CopyChar, Scanning, Pattern
<1>2. ~page.end /\ Len(page.cache) <= CacheLen /\ Placed(page) /\ Named(page)
  BY <1>1 DEF Bounded, Follows
<1>3. /\ page.cache \in Seq(Chars) /\ page.out \in Seq(Chars) /\ page.sent \in Seq(Chars)
      /\ page.file \in Seq(Chars) /\ Len(page.cache) \in Nat /\ Done(page) \in Int
      /\ Len(page.file) \in Nat
  BY PlaceType
<1>4. Tail(page.cache) = Drop(page.cache, 1) /\ h = page.cache[1] /\ 1 \in 0..Len(page.cache)
  BY <1>1, <1>3, TailIsDrop
<1>5. /\ h \in Chars /\ Tail(page.cache) \in Seq(Chars)
      /\ Len(Tail(page.cache)) = Len(page.cache) - 1
  BY <1>1, <1>3, HeadTailProperties
<1>6. /\ Append(page.out, h) \in Seq(Chars) /\ Append(page.out, h) = page.out \o <<h>>
      /\ Append(page.out, h) # <<>>
  BY <1>3, <1>5, AppendProperties, AppendIsConcat
<1>7. q \in PageRecord
  BY <1>5, <1>6 DEF PageRecord
<1>8. /\ q.text = page.text /\ q.cache = Drop(page.cache, 1) /\ q.file = page.file
      /\ q.name = page.name /\ q.inTag = page.inTag /\ q.same = page.same /\ q.cut = page.cut
      /\ q.shown = page.shown /\ q.out = page.out \o <<h>> /\ q.busy = page.busy
      /\ q.sent = page.sent /\ q.end = page.end
  BY <1>4, <1>6 DEF PageRecord
<1>9. q.out # <<>> /\ Len(q.cache) <= CacheLen
  <2>1. q.out = Append(page.out, h) /\ Len(q.cache) = Len(page.cache) - 1
    BY <1>4, <1>5, <1>6, <1>8
  <2> QED BY <1>2, <1>3, <1>6, <2>1, Lengths
<1> HIDE DEF q
<1>10. Done(q) = Done(page) + 1 /\ Placed(q)
  BY <1>2, <1>4, <1>7, <1>8, Advance
<1>11. Named(q)
  BY <1>1, <1>2, <1>8 DEF Named
<1>12. ASSUME TagsClear(page.file), page.same, ~q.cut PROVE SentSoFar(q)
  <2> DEFINE t == page.file
             f == RenderingFrom(t, page.shown)
             n == Done(page)
  <2>1. n \in 0..Len(t) - 1 /\ ~IsPrefix(TagStart, Drop(t, n))
    BY <1>1, <1>2, CacheTells, Lengths
  <2>2. n + 1 \in 1..Len(t) /\ n + 1 - 1 = n /\ n + 2 \in 1..Len(t) + 1 /\ n + 1 + 1 = n + 2
    BY <1>3, <2>1
  <2>3. ~StartsAt(t, n + 1)
    BY <2>1, <2>2 DEF StartsAt
  <2>4. page.shown.text \in Seq(Chars)
    BY <1>12 DEF ShownText
  <2>5. f[n + 1] = <<t[n + 1]>> \o f[n + 2]
    <3>1. \A i \in 1..Len(t) : ~StartsAt(t, i) => f[i] = <<t[i]>> \o f[i + 1]
      BY <1>3, <1>12, <2>4, RenderingSteps
    <3> HIDE DEF f
    <3>2. f[n + 1] = <<t[n + 1]>> \o f[n + 1 + 1]
      BY <2>2, <2>3, <3>1
    <3> QED BY <2>2, <3>2
  <2>6. f[n + 2] \in Seq(Chars)
    BY <1>3, <1>12, <2>2, <2>4, RenderingEquation
  <2>7. t[n + 1] = h
    <3>1. 1 \in 1..Len(page.cache)
      BY <1>3, <1>4
    <3> QED BY <1>2, <1>4, <3>1 DEF Placed
  <2>8. Begun(page) = n + 1 /\ Begun(q) = n + 2
    BY <1>1, <1>3, <1>8, <1>10 DEF Begun
  <2>9. (page.sent \o page.out) \o f[Begun(page)] = Rendering(t, page.shown)
    BY <1>2, <1>8, <1>12 DEF Follows, SentSoFar
  <2> HIDE DEF f, n, t
  <2>10. (page.sent \o page.out) \o (<<h>> \o f[n + 2])
           = (page.sent \o (page.out \o <<h>>)) \o f[n + 2]
    <3>1. page.sent \in Seq(Chars) /\ page.out \in Seq(Chars) /\ <<h>> \in Seq(Chars)
      BY <1>3, <1>5
    <3>2. f[n + 2] \in Seq(Chars)
      BY <2>6
    <3>3. Regrouped(page.sent, page.out, <<h>>, f[n + 2])
      BY <3>1, <3>2, Regroup
    <3> QED BY <3>3 DEF Regrouped
  <2>11. (q.sent \o q.out) \o f[Begun(q)] = Rendering(t, page.shown)
    BY <1>8, <2>5, <2>7, <2>8, <2>9, <2>10
  <2> QED BY <1>2, <1>8, <2>11 DEF SentSoFar, f, t
<1>13. Follows(q)
  BY <1>1, <1>2, <1>8, <1>9, <1>10, <1>11, <1>12, StepFollows
<1>14. ShownText(q)
  BY <1>8 DEF ShownText
<1> QED BY <1>1, <1>2, <1>7, <1>8, <1>9, <1>13, <1>14, ReturnedFollows

\* The start of a tag.
LEMMA TagFoundFollows ==
  ASSUME page \in PageRecord, Bounded(page), Follows(page), ShownText(page), TagFound
  PROVE  Follows(page')
<1> DEFINE q == [page EXCEPT !.inTag = TRUE, !.cache = Drop(@, Len(TagStart))]
           n == Done(page)
           t == page.file
<1>1. /\ page.busy /\ page.cache # <<>> /\ ~page.inTag /\ Begins(TagStart)
      /\ ~Incomplete(TagStart) /\ page' = Returned(q)
  BY DEF TagFound, Scanning, Pattern
<1>2. ~page.end /\ Len(page.cache) <= CacheLen /\ Placed(page) /\ Named(page)
  BY <1>1 DEF Bounded, Follows
<1>3. /\ page.cache \in Seq(Chars) /\ page.file \in Seq(Chars) /\ n \in Int
      /\ Len(page.cache) \in Nat /\ Len(t) \in Nat
  BY PlaceType
<1>4. /\ n \in 0..Len(t) - 1 /\ IsPrefix(TagStart, Drop(t, n))
      /\ Len(TagStart) \in 0..Len(page.cache)
  BY <1>1, <1>2, CacheTells, Lengths
<1>5. /\ Drop(page.cache, Len(TagStart)) \in Seq(Chars)
      /\ Len(Drop(page.cache, Len(TagStart))) = Len(page.cache) - Len(TagStart)
  BY <1>3, <1>4, DropElements
<1>6. q \in PageRecord
  BY <1>5 DEF PageRecord
<1>7. /\ q.text = page.text /\ q.cache = Drop(page.cache, Len(TagStart)) /\ q.file = page.file
      /\ q.name = page.name /\ q.inTag = TRUE /\ q.same = page.same /\ q.cut = page.cut
      /\ q.shown = page.shown /\ q.out = page.out /\ q.busy = page.busy
      /\ q.sent = page.sent /\ q.end = page.end
  BY DEF PageRecord
<1>8. Len(q.cache) <= CacheLen
  <2>1. Len(q.cache) = Len(page.cache) - Len(TagStart) /\ Len(TagStart) \in Nat /\ CacheLen \in Nat
    BY <1>5, <1>7, Lengths
  <2> QED BY <1>2, <1>3, <2>1
<1> HIDE DEF q
<1>9. Done(q) = n + Len(TagStart) /\ Placed(q)
  BY <1>2, <1>4, <1>6, <1>7, Advance
<1>10. page.name = <<>> /\ Len(page.name) = 0
  BY <1>1, <1>2 DEF Named
<1>11. Begun(q) = n + 1 /\ Begun(page) = n + 1 /\ n + 1 - 1 = n
  <2>1. Len(TagStart) \in Nat
    BY Lengths
  <2> QED BY <1>1, <1>3, <1>7, <1>9, <1>10, <2>1 DEF Begun
<1>12. Named(q)
  <2>1. StartsAt(t, n + 1)
    BY <1>4, <1>11 DEF StartsAt
  <2>2. n + 1 >= 1
    BY <1>3, <1>4
  <2>3. Len(q.name) = 0
    BY <1>7, <1>10
  <2>4. Begun(q) + Len(TagStart) > Done(q) /\ Done(q) \in Int /\ Begun(q) \in Int
        /\ Len(TagStart) \in Nat
    BY <1>3, <1>9, <1>11, Lengths
  <2>5. \A k \in Begun(q) + Len(TagStart)..Done(q) : FALSE
    BY <2>4
  <2> QED BY <1>7, <1>11, <2>1, <2>2, <2>3, <2>5 DEF Named
<1>13. ASSUME TagsClear(t), q.text = <<>> PROVE FALSE
  BY <1>6, <1>7, <1>8, <1>9, <1>12, <1>13, RestIsPlain
<1>14. ASSUME TagsClear(t), page.same, ~q.cut PROVE SentSoFar(q)
  <2>1. SentSoFar(page)
    BY <1>7, <1>14 DEF Follows
  <2> QED BY <1>2, <1>7, <1>11, <2>1 DEF SentSoFar
<1>15. Follows(q)
  BY <1>1, <1>2, <1>7, <1>9, <1>12, <1>13, <1>14, StepFollows
<1>16. ShownText(q)
  BY <1>7 DEF ShownText
<1> QED BY <1>1, <1>2, <1>6, <1>7, <1>8, <1>15, <1>16, ReturnedFollows

\* A character of a name.
LEMMA NameCharFollows ==
  ASSUME page \in PageRecord, Bounded(page), Follows(page), NameChar
  PROVE  Follows(page')
<1> DEFINE h == Head(page.cache)
           q == [page EXCEPT !.name = Append(@, h), !.cache = Tail(@)]
           n == Done(page)
           t == page.file
<1>1. /\ page.busy /\ page.cache # <<>> /\ page.inTag /\ ~Begins(TagEnd)
      /\ ~Incomplete(TagEnd) /\ page' = q
  BY DEF NameChar, Scanning, Pattern
<1>2. ~page.end /\ Len(page.cache) <= CacheLen /\ Placed(page) /\ Named(page)
  BY <1>1 DEF Bounded, Follows
<1>3. /\ page.cache \in Seq(Chars) /\ page.name \in Seq(Chars) /\ Len(page.name) \in Nat
      /\ Len(page.cache) \in Nat /\ n \in Int /\ Len(t) \in Nat
  BY PlaceType
<1>4. Tail(page.cache) = Drop(page.cache, 1) /\ h = page.cache[1] /\ 1 \in 0..Len(page.cache)
  BY <1>1, <1>3, TailIsDrop
<1>5. /\ h \in Chars /\ Tail(page.cache) \in Seq(Chars)
      /\ Len(Tail(page.cache)) = Len(page.cache) - 1
  BY <1>1, <1>3, HeadTailProperties
<1>6. /\ Append(page.name, h) \in Seq(Chars) /\ Len(Append(page.name, h)) = Len(page.name) + 1
      /\ \A k \in 1..Len(page.name) : Append(page.name, h)[k] = page.name[k]
      /\ Append(page.name, h)[Len(page.name) + 1] = h
  BY <1>3, <1>5, AppendProperties
<1>7. q \in PageRecord
  BY <1>5, <1>6 DEF PageRecord
<1>8. /\ q.text = page.text /\ q.cache = Drop(page.cache, 1) /\ q.file = page.file
      /\ q.name = Append(page.name, h) /\ q.inTag = TRUE /\ q.same = page.same
      /\ q.cut = page.cut /\ q.shown = page.shown /\ q.out = page.out /\ q.busy = page.busy
      /\ q.sent = page.sent /\ q.end = page.end
  BY <1>1, <1>4 DEF PageRecord
<1>9. Len(q.cache) <= CacheLen
  <2>1. Len(q.cache) = Len(page.cache) - 1 /\ CacheLen \in Nat
    BY <1>4, <1>5, <1>8, Lengths
  <2> QED BY <1>2, <1>3, <2>1
<1> HIDE DEF q
<1>10. Done(q) = n + 1 /\ Placed(q)
  BY <1>2, <1>4, <1>7, <1>8, Advance
<1>11. /\ Begun(page) = n + 1 - Len(page.name) - Len(TagStart)
       /\ Begun(q) = Begun(page) /\ Begun(page) \in Int /\ Len(TagStart) \in Nat
  <2>1. Len(TagStart) \in Nat /\ Len(q.name) = Len(page.name) + 1
    BY <1>6, <1>8, Lengths
  <2>2. /\ Begun(page) = n + 1 - Len(page.name) - Len(TagStart)
        /\ Begun(q) = Done(q) + 1 - Len(q.name) - Len(TagStart)
    BY <1>1, <1>8 DEF Begun
  <2>3. Done(q) = n + 1
    BY <1>10
  <2> HIDE DEF n
  <2>4. n \in Int /\ Len(page.name) \in Nat
    BY <1>3 DEF n
  <2>5. \A a, b, c \in Int : /\ (a + 1) + 1 - (b + 1) - c = a + 1 - b - c
                             /\ a + 1 - b - c \in Int
    OBVIOUS
  <2>6. Begun(q) = (n + 1) + 1 - (Len(page.name) + 1) - Len(TagStart)
    BY <2>1, <2>2, <2>3, Zenon
  <2>7. n \in Int /\ Len(page.name) \in Int /\ Len(TagStart) \in Int
    BY <2>1, <2>4
  <2>8. (n + 1) + 1 - (Len(page.name) + 1) - Len(TagStart) = n + 1 - Len(page.name) - Len(TagStart)
    BY <2>5, <2>7, Zenon
  <2>9. Begun(q) = n + 1 - Len(page.name) - Len(TagStart)
    BY <2>6, <2>8, Zenon
  <2>10. Begun(q) = Begun(page)
    BY <2>2, <2>9, Zenon
  <2>11. n + 1 - Len(page.name) - Len(TagStart) \in Int
    BY <2>5, <2>7, Zenon
  <2>12. Begun(page) \in Int
    BY <2>11, <2>2, Zenon
  <2> QED BY <2>1, <2>2, <2>10, <2>12, Zenon
<1>12. n \in 0..Len(t) - 1 /\ ~IsPrefix(TagEnd, Drop(t, n))
  BY <1>1, <1>2, CacheTells, Lengths
<1>13. Named(q)
  <2> DEFINE b == Begun(page)
  <2>1. /\ b >= 1 /\ StartsAt(t, b)
        /\ \A k \in 1..Len(page.name) : page.name[k] = t[b + Len(TagStart) - 1 + k]
        /\ \A k \in b + Len(TagStart)..n : ~EndHere(t, k)
    BY <1>1, <1>2 DEF Named
  <2>2. \A k \in b + Len(TagStart)..n + 1 : ~EndHere(t, k)
    <3>1. ~EndHere(t, n + 1)
      <4>1. n + 1 - 1 = n
        BY <1>3
      <4> QED BY <1>12, <4>1 DEF EndHere
    <3>2. \A k \in b + Len(TagStart)..n + 1 : k = n + 1 \/ k \in b + Len(TagStart)..n
      BY <1>3, <1>11
    <3> HIDE DEF b, t, n
    <3> QED BY <2>1, <3>1, <3>2
  <2>3. ASSUME NEW k \in 1..Len(q.name) PROVE q.name[k] = t[b + Len(TagStart) - 1 + k]
    <3>1. CASE k \in 1..Len(page.name)
      BY <1>6, <1>8, <2>1, <3>1
    <3>2. CASE k = Len(page.name) + 1
      <4>1. b + Len(TagStart) - 1 + k = n + 1
        BY <1>3, <1>11, <3>2
      <4>2. t[n + 1] = h
        <5>1. 1 \in 1..Len(page.cache)
          BY <1>3, <1>4
        <5> QED BY <1>2, <1>4, <5>1 DEF Placed
      <4> QED BY <1>6, <1>8, <3>2, <4>1, <4>2
    <3>3. k \in 1..Len(page.name) \/ k = Len(page.name) + 1
      BY <1>3, <1>6, <1>8
    <3> QED BY <3>1, <3>2, <3>3
  <2> HIDE DEF b, n, t
  <2>4. Begun(q) = b /\ Done(q) = n + 1 /\ q.file = t
    BY <1>8, <1>10, <1>11 DEF b, n, t
  <2> QED BY <1>8, <2>1, <2>2, <2>3, <2>4 DEF Named
<1>14. ASSUME TagsClear(t), q.text = <<>> PROVE FALSE
  BY <1>7, <1>8, <1>9, <1>10, <1>13, <1>14, RestIsPlain
<1>15. ASSUME TagsClear(t), page.same, ~q.cut PROVE SentSoFar(q)
  <2>1. SentSoFar(page)
    BY <1>8, <1>15 DEF Follows
  <2> QED BY <1>2, <1>8, <1>11, <2>1 DEF SentSoFar
<1>16. Follows(q)
  BY <1>1, <1>2, <1>8, <1>10, <1>13, <1>14, <1>15, StepFollows
<1> QED BY <1>1, <1>16

\* A tag is replaced: the name is what the file has between its marks, and the value is
\* that of the settings at the opening, if they are still the same.
LEMMA TagReplacedFollows ==
  ASSUME page \in PageRecord, Bounded(page), Follows(page), ShownText(page), ShownNow,
         work \in Config, TagReplaced
  PROVE  Follows(page')
<1> DEFINE v == Value(page.name, work)
           m == Smaller(Len(v), page.room - Len(page.out) - Margin)
           x == SubSeq(v, 1, m)
           cut == page.cut \/ m < Len(v)
           q == [page EXCEPT !.out = @ \o x, !.cache = Drop(@, Len(TagEnd)),
                             !.inTag = FALSE, !.name = <<>>, !.cut = cut]
           n == Done(page)
           t == page.file
<1>1. /\ page.busy /\ page.cache # <<>> /\ page.inTag /\ Begins(TagEnd)
      /\ ~Incomplete(TagEnd) /\ page' = q
  BY DEF TagReplaced, Scanning, Pattern
<1>2. ~page.end /\ Len(page.cache) <= CacheLen /\ Placed(page) /\ Named(page)
  BY <1>1 DEF Bounded, Follows
<1>3. /\ page.cache \in Seq(Chars) /\ page.name \in Seq(Chars) /\ Len(page.name) \in Nat
      /\ Len(page.cache) \in Nat /\ n \in Int /\ Len(t) \in Nat /\ t \in Seq(Chars)
      /\ page.out \in Seq(Chars) /\ page.sent \in Seq(Chars)
  BY PlaceType
<1>4. v \in Seq(Chars) /\ Len(v) \in Nat
  BY ValueType, LenProperties
<1>5. m \in Int /\ m <= Len(v)
  <2>1. page.room - Len(page.out) - Margin \in Int
    BY <1>3, LenProperties, Lengths DEF PageRecord
  <2> HIDE DEF v
  <2> QED BY <1>4, <2>1, SmallerType
<1> HIDE DEF v, m
<1>6. x \in Seq(Chars) /\ (~(m < Len(v)) => x = v)
  <2>1. x \in Seq(Chars)
    BY <1>4, <1>5, TakeType
  <2>2. ~(m < Len(v)) => m = Len(v)
    BY <1>4, <1>5
  <2> QED BY <1>4, <2>1, <2>2, SubSeqFull
<1> HIDE DEF x
<1>7. page.out \o x \in Seq(Chars)
  BY <1>3, <1>6, ConcatProperties
<1>8. /\ n \in 0..Len(t) - 1 /\ IsPrefix(TagEnd, Drop(t, n))
      /\ Len(TagEnd) \in 0..Len(page.cache)
  BY <1>1, <1>2, CacheTells, Lengths
<1>9. Drop(page.cache, Len(TagEnd)) \in Seq(Chars)
  BY <1>3, <1>8, DropElements
<1>10. q \in PageRecord
  <2>1. cut \in BOOLEAN /\ <<>> \in Seq(Chars)
    BY DEF PageRecord
  <2> HIDE DEF cut
  <2> QED BY <1>7, <1>9, <2>1 DEF PageRecord
<1>11. /\ q.text = page.text /\ q.cache = Drop(page.cache, Len(TagEnd)) /\ q.file = page.file
       /\ q.name = <<>> /\ q.inTag = FALSE /\ q.same = page.same
       /\ q.shown = page.shown /\ q.out = page.out \o x /\ q.busy = page.busy
       /\ q.sent = page.sent /\ q.end = page.end /\ q.cut = cut
  <2> HIDE DEF cut
  <2> QED BY DEF PageRecord
<1>12. ~q.cut => ~page.cut /\ x = v
  BY <1>6, <1>11
<1> HIDE DEF q, cut
<1>13. Done(q) = n + Len(TagEnd) /\ Placed(q)
  BY <1>2, <1>8, <1>10, <1>11, Advance
<1>14. Named(q) /\ Begun(q) = n + Len(TagEnd) + 1
  BY <1>11, <1>13 DEF Named, Begun
<1>15. ASSUME TagsClear(t), q.text = <<>> PROVE FALSE
  BY <1>1, <1>2, <1>11, <1>15, RestIsPlain
<1>16. ASSUME TagsClear(t), page.same, ~q.cut PROVE SentSoFar(q)
  <2> DEFINE f == RenderingFrom(t, page.shown)
             b == Begun(page)
             j == n + 1
  <2>1. page.shown.text \in Seq(Chars) /\ page.shown = SettingsOf(work)
    BY <1>16 DEF ShownText, ShownNow
  <2>2. /\ b >= 1 /\ StartsAt(t, b)
        /\ \A k \in 1..Len(page.name) : page.name[k] = t[b + Len(TagStart) - 1 + k]
        /\ \A k \in b + Len(TagStart)..n : ~EndHere(t, k)
    BY <1>1, <1>2 DEF Named
  <2>3. /\ b = n + 1 - Len(page.name) - Len(TagStart) /\ b \in Int
        /\ Len(TagStart) \in Nat /\ Len(TagStart) > 0
    BY <1>1, PlaceType, Lengths DEF Begun
  <2>4. EndHere(t, j)
    <3>1. j - 1 = n
      BY <1>3
    <3> QED BY <1>8, <3>1 DEF EndHere
  <2>5. RenderingFrom(t, page.shown)[Begun(q)] \in Seq(Chars)
    <3>1. n + Len(TagEnd) + 1 \in 1..Len(t) + 1
      <4>1. /\ Done(q) + Len(q.cache) + Len(q.text) = Len(t)
            /\ Len(q.cache) \in Nat /\ Len(q.text) \in Nat
        BY <1>10, <1>11, PlaceType
      <4>2. Len(TagEnd) \in Nat
        BY Lengths
      <4>3. Done(q) \in Int /\ Done(q) >= 0 /\ Done(q) <= Len(t) /\ Len(t) \in Nat
        <5>1. n \in Int /\ n >= 0 /\ Len(t) \in Nat
          BY <1>3, <1>8
        <5> HIDE DEF n, t
        <5>2. Done(q) \in Int /\ Done(q) >= 0
          BY <1>13, <4>2, <5>1
        <5> QED BY <4>1, <5>1, <5>2
      <4>4. Done(q) + 1 \in 1..Len(t) + 1
        <5> HIDE DEF n, t
        <5> QED BY <4>3
      <4> QED BY <1>13, <4>4, Zenon
    <3> QED BY <1>3, <1>14, <1>16, <2>1, <3>1, RenderingEquation
  <2> HIDE DEF f, b, n, t
  <2>6. /\ b \in 1..Len(t) /\ j \in b + Len(TagStart)..Len(t) /\ j - 1 = n
        /\ j + Len(TagEnd) = n + Len(TagEnd) + 1
    <3>1. n \in Int /\ n >= 0 /\ n <= Len(t) - 1 /\ Len(t) \in Nat /\ Len(page.name) \in Nat
      BY <1>3, <1>8 DEF n, t
    <3>j. j = n + 1
      OBVIOUS
    <3> HIDE DEF j
    <3>2. Len(TagEnd) \in Nat
      BY Lengths
    <3>3. b \in Int /\ b >= 1 /\ b = n + 1 - Len(page.name) - Len(TagStart) /\ Len(TagStart) \in Nat
      BY <2>2, <2>3
    <3> DEFINE k == Len(page.name)
               l == Len(t)
               s == Len(TagStart)
               e == Len(TagEnd)
    <3>4. /\ n \in Int /\ n <= l - 1 /\ l \in Nat /\ k \in Nat /\ s \in Nat /\ e \in Nat
          /\ b \in Int /\ b >= 1 /\ b = n + 1 - k - s
      BY <3>1, <3>2, <3>3
    <3> HIDE DEF k, l, s, e
    <3>5. b \in 1..l
      BY <3>4
    <3>6. j \in b + s..l
      BY <3>4, <3>j
    <3>7. j - 1 = n /\ j + e = n + e + 1
      BY <3>4, <3>j
    <3> QED BY <3>5, <3>6, <3>7 DEF l, s, e
  <2>7. f[b] = Value(SubSeq(t, b + Len(TagStart), j - 1), page.shown) \o f[j + Len(TagEnd)]
    <3>1. t \in Seq(Chars) /\ TagsClear(t)
      BY <1>3, <1>16 DEF t
    <3>2. \A i \in 1..Len(t) : \A k \in i + Len(TagStart)..Len(t) :
            /\ StartsAt(t, i) /\ EndHere(t, k)
            /\ \A l \in i + Len(TagStart)..k - 1 : ~EndHere(t, l)
            => f[i] = Value(SubSeq(t, i + Len(TagStart), k - 1), page.shown) \o f[k + Len(TagEnd)]
      BY <2>1, <3>1, RenderingSteps DEF f
    <3>3. \A l \in b + Len(TagStart)..j - 1 : ~EndHere(t, l)
      BY <2>2, <2>6
    <3> HIDE DEF j
    <3> QED BY <2>2, <2>4, <2>6, <3>2, <3>3
  <2>8. SubSeq(t, b + Len(TagStart), j - 1) = page.name
    <3> DEFINE a == b + Len(TagStart)
               s == SubSeq(t, a, n)
    <3>1. a \in Int /\ a >= 1 /\ n \in Int /\ n <= Len(t) /\ n - a + 1 = Len(page.name)
          /\ Len(t) \in Nat /\ Len(page.name) \in Nat /\ t \in Seq(Chars)
          /\ page.name \in Seq(Chars)
      <4>1. /\ n \in Int /\ n <= Len(t) - 1 /\ Len(t) \in Nat /\ Len(page.name) \in Nat
            /\ t \in Seq(Chars) /\ page.name \in Seq(Chars)
        BY <1>3, <1>8 DEF n, t
      <4>2. b \in Int /\ b >= 1 /\ b = n + 1 - Len(page.name) - Len(TagStart) /\ Len(TagStart) \in Nat
        BY <2>2, <2>3
      <4>3. a \in Int /\ a >= 1
        BY <4>2
      <4>4. n - a + 1 = Len(page.name)
        BY <4>1, <4>2
      <4>5. n <= Len(t)
        BY <4>1
      <4> QED BY <4>1, <4>3, <4>4, <4>5
    <3>2. \A k \in 1..Len(page.name) : page.name[k] = t[a + k - 1]
      <4>1. ASSUME NEW k \in 1..Len(page.name) PROVE b + Len(TagStart) - 1 + k = a + k - 1
        BY <2>3
      <4> QED BY <2>2, <4>1
    <3> HIDE DEF a
    <3>3. \A i \in a..n : t[i] \in Chars
      BY <3>1, ElementOfSeq
    <3>4. /\ s \in Seq(Chars) /\ Len(s) = (IF a <= n THEN n - a + 1 ELSE 0)
          /\ \A k \in 1..n - a + 1 : s[k] = t[a + k - 1]
      BY <3>1, <3>3, SubSeqProperties
    <3> HIDE DEF s
    <3>5. Len(s) = Len(page.name) /\ \A k \in 1..Len(s) : s[k] = page.name[k]
      BY <3>1, <3>2, <3>4
    <3>6. s = page.name
      BY <3>1, <3>4, <3>5, SeqEqual
    <3> QED BY <2>6, <3>6 DEF a, s
  <2>9. Value(page.name, page.shown) = v
    BY <2>1 DEF Value, SettingsOf, v
  <2>10. (page.sent \o page.out) \o f[b] = Rendering(t, page.shown)
    <3>1. SentSoFar(page)
      BY <1>12, <1>16 DEF Follows, t
    <3> QED BY <1>2, <3>1 DEF SentSoFar, f, b, t
  <2>11. f[b] = x \o f[Begun(q)]
    <3>1. j + Len(TagEnd) = Begun(q)
      BY <1>14, <2>6 DEF n
    <3> HIDE DEF j
    <3> QED BY <1>12, <1>16, <2>7, <2>8, <2>9, <3>1
  <2>12. (page.sent \o page.out) \o (x \o f[Begun(q)])
           = (page.sent \o (page.out \o x)) \o f[Begun(q)]
    <3>1. page.sent \in Seq(Chars) /\ page.out \in Seq(Chars) /\ x \in Seq(Chars)
      BY <1>3, <1>6
    <3>2. f[Begun(q)] \in Seq(Chars)
      BY <2>5 DEF f, t
    <3>3. Regrouped(page.sent, page.out, x, f[Begun(q)])
      BY <3>1, <3>2, Regroup
    <3> QED BY <3>3 DEF Regrouped
  <2>13. (q.sent \o q.out) \o f[Begun(q)] = Rendering(t, page.shown)
    BY <1>11, <2>10, <2>11, <2>12, Zenon
  <2> QED BY <1>2, <1>11, <2>13 DEF SentSoFar, f, t
<1>17. q.cut = FALSE => page.cut = FALSE
  BY <1>12 DEF PageRecord
<1>18. Follows(q)
  BY <1>1, <1>2, <1>11, <1>13, <1>14, <1>15, <1>16, <1>17, StepFollows
<1> QED BY <1>1, <1>18

-----------------------------------------------------------------------------
(* The invariant of the copy.                                              *)

\* The page that is opened.
LEMMA OpenedFollows ==
  ASSUME NEW file \in Pages, SettingsOf(work') \in Settings
  PROVE  /\ Follows(Opened(file)) /\ Opened(file).same
         /\ Opened(file).shown = SettingsOf(work')
<1> DEFINE p == Opened(file)
<1>1. file \in Seq(Chars) /\ file # <<>> /\ SettingsOf(work').text \in Seq(Chars)
  BY FormPageAssumption DEF Settings
<1>2. /\ p.text = file /\ p.file = file /\ p.cache = <<>> /\ p.name = <<>> /\ p.sent = <<>>
      /\ p.out = <<>> /\ p.inTag = FALSE /\ p.busy = FALSE /\ p.end = FALSE /\ p.same = TRUE
      /\ p.shown = SettingsOf(work')
  BY DEF Opened, NoPage
<1> HIDE DEF p
<1>3. Len(file) \in Nat /\ Len(<<>>) = 0
  BY <1>1, LenProperties
<1>4. Done(p) = 0 /\ Begun(p) = 1
  <2>1. Len(p.file) = Len(file) /\ Len(p.text) = Len(file) /\ Len(p.cache) = 0
    BY <1>2, <1>3
  <2>2. Done(p) = 0
    BY <1>3, <2>1 DEF Done
  <2> QED BY <1>2, <2>2 DEF Begun
<1>5. Placed(p) /\ Named(p)
  <2>1. \A k \in 1..Len(file) : 0 + 0 + k = k
    BY <1>3
  <2>2. \A k \in 1..0 : FALSE
    OBVIOUS
  <2> QED BY <1>2, <1>3, <1>4, <2>1, <2>2 DEF Placed, Named
<1>6. ASSUME TagsClear(file) PROVE SentSoFar(p)
  <2> DEFINE r == RenderingFrom(file, p.shown)[1]
  <2>1. r \in Seq(Chars)
    <3>1. 1 \in 1..Len(file) + 1
      BY <1>3
    <3> QED BY <1>1, <1>2, <1>6, <3>1, RenderingEquation
  <2> HIDE DEF r
  <2>2. (<<>> \o <<>>) \o r = r
    BY <2>1, ConcatEmptySeq
  <2> QED BY <1>2, <1>4, <2>2 DEF SentSoFar, Rendering, r
<1>7. Follows(p)
  BY <1>1, <1>2, <1>5, <1>6 DEF Follows
<1> QED BY <1>2, <1>7 DEF p

\* The steps of the page.
LEMMA PageNextFollows ==
  ASSUME PageInv, CopyInv, page.open, PageNext, work' = work
  PROVE  Follows(page') /\ ShownNow'
<1>1. page \in PageRecord /\ Bounded(page) /\ work \in Config /\ Follows(page) /\ ShownNow
  BY DEF PageInv, Inv, TypeOK, CopyInv
<1>2. ShownText(page)
  <2>1. \A s \in Texts : s \in Seq(Chars)
    BY FormPageAssumption
  <2>2. SettingsOf(work).text \in Texts
    BY <1>1 DEF Config, SettingsOf
  <2> QED BY <1>1, <2>1, <2>2 DEF ShownNow, ShownText
<1>3. Follows(page')
  BY <1>1, <1>2, ReadFollows, FillFollows, CopyCharFollows, TagFoundFollows, NameCharFollows,
     TagReplacedFollows DEF PageNext
<1>4. page'.same = page.same /\ page'.shown = page.shown
  BY <1>1 DEF PageNext, ReadContent, Fill, CopyChar, TagFound, NameChar, TagReplaced, Returned,
     PageRecord
<1> QED BY <1>1, <1>3, <1>4 DEF ShownNow

\* Between two calls the settings may change.
LEMMA OthersFollow ==
  ASSUME PageInv, CopyInv, PageFollows, SettingsOf(work') \in Settings
  PROVE  IF page'.open THEN Follows(page') /\ ShownNow' ELSE ~page'.end
<1>1. page \in PageRecord
  BY DEF PageInv
<1>2. CASE form'[Reader].phase # "page"
  <2>1. ~page'.open /\ ~page'.end
    BY <1>2 DEF PageFollows, NoPage
  <2> QED BY <2>1
<1>3. CASE form'[Reader].phase = "page" /\ page.open
  <2> DEFINE same == page.same /\ SettingsOf(work') = page.shown
             q == [page EXCEPT !.same = same]
  <2>1. page' = q
    BY <1>3 DEF PageFollows, PageRecord
  <2>2. /\ q.text = page.text /\ q.cache = page.cache /\ q.file = page.file /\ q.name = page.name
        /\ q.inTag = page.inTag /\ q.same = same /\ q.cut = page.cut /\ q.shown = page.shown
        /\ q.out = page.out /\ q.busy = page.busy /\ q.sent = page.sent /\ q.end = page.end
        /\ q.last = page.last
    BY <1>1 DEF PageRecord
  <2> HIDE DEF q
  <2>3. Done(q) = Done(page) /\ Begun(q) = Begun(page)
    BY <2>2 DEF Done, Begun
  <2>4. Placed(page) => Placed(q)
    BY <2>2, <2>3 DEF Placed
  <2>5. Named(page) => Named(q)
    BY <2>2, <2>3 DEF Named
  <2>6. SentSoFar(page) => SentSoFar(q)
    BY <2>2, <2>3 DEF SentSoFar
  <2>7. Follows(page)
    BY <1>3 DEF CopyInv
  <2>8. Follows(q)
    BY <2>2, <2>4, <2>5, <2>6, <2>7 DEF Follows
  <2>9. q.same => q.shown = SettingsOf(work')
    BY <2>2
  <2>10. q.open
    BY <1>1, <1>3 DEF q, PageRecord
  <2> QED BY <2>1, <2>8, <2>9, <2>10 DEF ShownNow
<1>4. CASE form'[Reader].phase = "page" /\ ~page.open
  <2>1. PICK file \in Pages : page' = Opened(file)
    BY <1>4 DEF PageFollows
  <2>2. Opened(file).open
    BY DEF Opened, NoPage
  <2> QED BY <2>1, <2>2, OpenedFollows DEF ShownNow
<1> QED BY <1>2, <1>3, <1>4

\* The copy is correct in every state.
LEMMA CopySpecInv == PageSpec => []CopyInv
<1>1. PageInit => CopyInv
  BY DEF PageInit, CopyInv, NoPage
<1>2. PageInv /\ PageInv' /\ CopyInv /\ [FormPageNext]_vars => CopyInv'
  <2> SUFFICES ASSUME PageInv, PageInv', CopyInv, [FormPageNext]_vars
               PROVE  IF page'.open THEN Follows(page') /\ ShownNow' ELSE ~page'.end
    BY DEF CopyInv
  <2>1. CASE UNCHANGED vars
    <3>1. page' = page /\ work' = work
      BY <2>1 DEF vars
    <3> QED BY <3>1 DEF CopyInv, ShownNow
  <2>2. CASE PageNext /\ UNCHANGED deviceVars
    <3>1. page.open /\ page'.open
      <4>1. page \in PageRecord /\ Bounded(page) /\ work \in Config
        BY DEF PageInv, Inv, TypeOK
      <4>2. page'.open = page.open
        BY <2>2, <4>1, PageNextKeeps, FormPageAssumption
      <4>3. page.open \/ ~page.busy
        BY <4>1 DEF Bounded
      <4>4. page.open \/ page.busy
        BY <2>2 DEF PageNext, ReadContent, Fill, CopyChar, TagFound, NameChar, TagReplaced,
             Scanning
      <4> QED BY <4>2, <4>3, <4>4
    <3>2. work' = work
      BY <2>2 DEF deviceVars
    <3> QED BY <2>2, <3>1, <3>2, PageNextFollows
  <2>3. CASE ~page.busy /\ Next /\ PageFollows
    <3>1. SettingsOf(work') \in Settings
      BY SettingsType DEF PageInv, Inv, TypeOK
    <3> QED BY <2>3, <3>1, OthersFollow
  <2> QED BY <2>1, <2>2, <2>3 DEF FormPageNext
<1> QED BY <1>1, <1>2, PageSpecInv, PTL DEF PageSpec

\* However WEB_ReadContent cuts a file into chunks and a tag into parts of the cache,
\* for every file with clear tags, every room and every cache: a page that has ended is
\* the file with every tag replaced by ReplaceTag's value in the settings of its opening,
\* if they have not changed and no value was too long for its room.
THEOREM PageIsRendered == PageSpec => []Rendered
<1>1. PageInv /\ CopyInv => Rendered
  <2> SUFFICES ASSUME PageInv, CopyInv, page.end, page.same, ~page.cut, TagsClear(page.file)
               PROVE  page.sent = Rendering(page.file, page.shown)
    BY DEF Rendered
  <2>1. Follows(page)
    BY DEF CopyInv
  <2> QED BY <2>1 DEF Follows, SentSoFar
<1> QED BY <1>1, PageSpecInv, CopySpecInv, PTL

\* Whatever the settings do meanwhile, for every such file, room and cache: the call that
\* reaches the end of the file has something to send, and so http_cgi.c puts the
\* terminating chunk behind it.
THEOREM PageIsTerminated == PageSpec => []Terminated
<1>1. PageInv /\ CopyInv => Terminated
  BY DEF CopyInv, Follows, Terminated
<1> QED BY <1>1, PageSpecInv, CopySpecInv, PTL
=============================================================================
