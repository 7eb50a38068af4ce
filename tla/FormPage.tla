------------------------------ MODULE FormPage ------------------------------
(***************************************************************************)
(* The page that answers a form: WEB_ReadContent of http_web.c copies an   *)
(* shtml file through a small cache and replaces the tags in it by the     *)
(* running settings (cgi_ssi.c), and http_cgi.c frames what each call      *)
(* returns as a chunk.                                                     *)
(*                                                                         *)
(* Only the page of Reader is looked at.  A call of WEB_ReadContent is a   *)
(* sequence of steps, and nothing else happens inside it; between two      *)
(* calls the forms of all connections and DHCP go on changing the          *)
(* settings.  A tag may be cut by the cache anywhere.                      *)
(***************************************************************************)
EXTENDS Device, Sequences, SequencesExt

CONSTANTS
  Reader,            \* the context whose page is modelled
  Chars,             \* characters
  Pages,             \* the files
  TagStart, TagEnd,  \* "<!--#" and "-->"
  DhcpTag, TextTag,  \* DEV_DHCP, and a tag of the settings in text
  CacheLen,          \* MAX_TAG_LEN
  Rooms,             \* what the unsent rest leaves for a chunk
  Margin             \* the 50 that ReplaceTag may not use

(* A room is smaller than a cache only behind a long rest that could not   *)
(* be sent; then the code can write behind its buffer.  Nor does it bound  *)
(* a name, but the tags of the pages in webroot are short and closed.      *)
ASSUME FormPageAssumption ==
  /\ Reader \in Contexts
  /\ {"0", "1"} \subseteq Chars /\ Texts \subseteq Seq(Chars)
  /\ Pages \subseteq Seq(Chars) \ {<<>>}
  /\ TagStart \in Seq(Chars) \ {<<>>} /\ TagEnd \in Seq(Chars) \ {<<>>}
  /\ CacheLen \in Nat /\ CacheLen >= Len(TagStart) /\ CacheLen >= Len(TagEnd)
  /\ Margin \in Nat
  /\ \A r \in Rooms : r \in Nat /\ r >= CacheLen /\ r > Margin

VARIABLE page

vars == <<serving, ipReady, lease, work, temp, form, page>>

(* open: there is a page; busy: a call is under way.  text is the file     *)
(* from _dwOperIndex on, inTag is _ssiState 2, out is what the call under  *)
(* way has produced, end is STAGE_END.                                     *)
(* History: file, the whole file; sent and last, the data of the chunks    *)
(* and whether the terminating chunk is behind them; shown, the settings   *)
(* when the page was opened; same, they have not changed since; cut, a     *)
(* value was too long for its room.                                        *)
NoPage == [open |-> FALSE, busy |-> FALSE, text |-> <<>>, cache |-> <<>>, inTag |-> FALSE,
           name |-> <<>>, room |-> 0, out |-> <<>>, end |-> FALSE, file |-> <<>>,
           sent |-> <<>>, last |-> FALSE, shown |-> NULL, same |-> FALSE, cut |-> FALSE]

PageInit == Init /\ page = NoPage

-----------------------------------------------------------------------------
(* WEB_ReadContent and ReplaceTag.                                         *)

Smaller(m, n) == IF m < n THEN m ELSE n
Drop(s, n) == SubSeq(s, n + 1, Len(s))

\* ReplaceTag without its limit: an unknown tag is replaced by nothing.
Value(name, config) ==
  CASE name = DhcpTag -> IF config.dhcp THEN <<"1">> ELSE <<"0">>
    [] name = TextTag -> config.text
    [] OTHER -> <<>>

\* Variant: the terminating chunk is only behind the rest of a cache.
ReturnedWithRest(p) ==
  LET end == p.text = <<>> /\ p.cache = <<>>
  IN [p EXCEPT !.busy = FALSE, !.out = <<>>, !.room = 0, !.end = end,
               !.sent = @ \o p.out, !.last = end /\ ~p.busy]

\* A call returns: the file is at its end with an empty cache; a chunk holds what was
\* produced, if anything, and the terminating one comes behind the last of them.
Returned(p) ==
  LET end == p.text = <<>> /\ p.cache = <<>>
  IN [p EXCEPT !.busy = FALSE, !.out = <<>>, !.room = 0, !.end = end,
               !.sent = @ \o p.out, !.last = end /\ p.out # <<>>]

\* A call, from OnHttpSent or OnHttpPoll; behind the end of the file the rest of the
\* cache is sent as it is.
ReadContent(room) ==
  /\ serving
  /\ page.open /\ ~page.busy /\ ~page.end
  /\ page' = IF page.text # <<>> THEN [page EXCEPT !.busy = TRUE, !.room = room]
             ELSE Returned([page EXCEPT !.out = page.cache, !.cache = <<>>])

\* The cache begins with s.
Begins(s) == IsPrefix(s, page.cache)

\* Variant: a tag is only recognised if the cache holds all of it.
IncompleteNever(s) == FALSE

\* The cache may begin with s, but is too short to tell.
Incomplete(s) == page.cache # <<>> /\ Head(page.cache) = Head(s) /\ Len(page.cache) < Len(s)

Pattern == IF page.inTag THEN TagEnd ELSE TagStart

\* The inner loop has something to look at.
Scanning == page.busy /\ page.cache # <<>> /\ ~Incomplete(Pattern)

\* Otherwise the cache is filled up, or the call returns at the end of the file.
Fill ==
  /\ page.busy /\ ~Scanning
  /\ page' = IF page.text = <<>> THEN Returned(page)
             ELSE LET n == Smaller(Len(page.text), CacheLen - Len(page.cache))
                  IN [page EXCEPT !.cache = @ \o SubSeq(page.text, 1, n),
                                  !.text = Drop(@, n)]

\* Variant: a full room is not noticed.
CopyCharPast ==
  /\ Scanning /\ ~page.inTag /\ ~Begins(TagStart)
  /\ page' = [page EXCEPT !.out = Append(@, Head(page.cache)), !.cache = Tail(@)]

\* A character of the page; the call returns when its room is full.
CopyChar ==
  LET p == [page EXCEPT !.out = Append(@, Head(page.cache)), !.cache = Tail(@)]
  IN /\ Scanning /\ ~page.inTag /\ ~Begins(TagStart)
     /\ page' = IF Len(p.out) >= p.room THEN Returned(p) ELSE p

\* Variant: the start of the tag stays in the cache.
TagFoundStays ==
  /\ Scanning /\ ~page.inTag /\ Begins(TagStart)
  /\ page' = Returned(page)

\* The call returns, so that the value finds an empty room.
TagFound ==
  /\ Scanning /\ ~page.inTag /\ Begins(TagStart)
  /\ page' = Returned([page EXCEPT !.inTag = TRUE, !.cache = Drop(@, Len(TagStart))])

NameChar ==
  /\ Scanning /\ page.inTag /\ ~Begins(TagEnd)
  /\ page' = [page EXCEPT !.name = Append(@, Head(page.cache)), !.cache = Tail(@)]

\* ReplaceTag with the settings of now.
TagReplaced ==
  LET v == Value(page.name, work)
      n == Smaller(Len(v), page.room - Len(page.out) - Margin)
  IN /\ Scanning /\ page.inTag /\ Begins(TagEnd)
     /\ page' = [page EXCEPT !.out = @ \o SubSeq(v, 1, n), !.cache = Drop(@, Len(TagEnd)),
                             !.inTag = FALSE, !.name = <<>>,
                             !.cut = @ \/ n < Len(v)]

PageNext ==
  \/ \E room \in Rooms : ReadContent(room)
  \/ Fill
  \/ CopyChar
  \/ TagFound
  \/ NameChar
  \/ TagReplaced

-----------------------------------------------------------------------------
(* The page, the forms and DHCP.                                           *)

\* WEB_RequestReceived.
Opened(file) == [NoPage EXCEPT !.open = TRUE, !.text = file, !.file = file,
                               !.shown = SettingsOf(work'), !.same = TRUE]

\* What a step of the forms, DHCP or main() means for the page.
PageFollows ==
  IF form'[Reader].phase # "page" THEN page' = NoPage
  ELSE IF page.open THEN page' = [page EXCEPT !.same = @ /\ SettingsOf(work') = page.shown]
  ELSE \E file \in Pages : page' = Opened(file)

FormPageNext ==
  \/ PageNext /\ UNCHANGED deviceVars
  \/ ~page.busy /\ Next /\ PageFollows

(* A call runs to its end, and acknowledgements or polls bring the next    *)
(* one while the connection lives.                                         *)
PageSpec ==
  /\ PageInit /\ [][FormPageNext]_vars
  /\ WF_vars(PageNext /\ UNCHANGED deviceVars)
  /\ WF_vars(~page.busy /\ MainNext /\ PageFollows)

-----------------------------------------------------------------------------
(* What the code promises.                                                 *)

\* The tags of a file: where one starts, and where its end does.
StartsAt(t, i) == IsPrefix(TagStart, Drop(t, i - 1))
EndsAt(t, i) == CHOOSE j \in i + Len(TagStart)..Len(t) :
                  /\ IsPrefix(TagEnd, Drop(t, j - 1))
                  /\ \A k \in i + Len(TagStart)..(j - 1) : ~IsPrefix(TagEnd, Drop(t, k - 1))

\* What the file is replaced by from place i on, if from says it of the later places.
RenderedAt(from, t, config, i) ==
  IF i > Len(t) THEN <<>>
  ELSE IF StartsAt(t, i)
  THEN Value(SubSeq(t, i + Len(TagStart), EndsAt(t, i) - 1), config)
         \o from[EndsAt(t, i) + Len(TagEnd)]
  ELSE <<t[i]>> \o from[i + 1]

RenderingFrom(t, config) ==
  LET from[i \in 1..(Len(t) + 1)] == RenderedAt(from, t, config, i) IN from

\* The file with every tag replaced by its value.
Rendering(t, config) == RenderingFrom(t, config)[1]

\* Every tag is closed, and none reaches into what may be the rest of the cache at the
\* end of the file: as in the pages of webroot.
TagsClear(t) ==
  \A i \in 1..Len(t) : StartsAt(t, i) =>
    \E j \in i + Len(TagStart)..(Len(t) - CacheLen - Len(TagEnd) + 1) :
      IsPrefix(TagEnd, Drop(t, j - 1))

\* Types: the cache and the room of a chunk are never left.
PageTypeOK ==
  /\ page.open <=> form[Reader].phase = "page"
  /\ Len(page.cache) <= CacheLen
  /\ Len(page.out) <= page.room
  /\ page.busy => page.open /\ ~page.end
  /\ page.end => page.text = <<>> /\ page.cache = <<>>

\* However the rooms of the chunks and the cache cut the file, the page that was sent is
\* the file with the tags replaced by the settings, if these did not change meanwhile.
Rendered ==
  page.end /\ page.same /\ ~page.cut /\ TagsClear(page.file)
    => page.sent = Rendering(page.file, page.shown)

\* Whatever happens to the settings, a page that has ended has its terminating chunk,
\* without which a browser waits for more.
Terminated == page.end /\ TagsClear(page.file) => page.last

\* A page comes to its end, or its connection does.
PageEnds == page.open ~> page.end \/ ~page.open
=============================================================================
