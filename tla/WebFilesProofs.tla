--------------------------- MODULE WebFilesProofs ---------------------------
(***************************************************************************)
(* Proofs about WebFiles: until a completed upload closes its stale        *)
(* handle, the handle every context still uses names a slot it has opened  *)
(* itself, and what a page response reads is the page it was asked for.    *)
(*                                                                         *)
(* The invariant looks at one context and the table at a time (Good): a    *)
(* callback of c touches only slots that are free or that c has opened, or *)
(* it is a strike, so what is good for the others stays good (Frame).      *)
(***************************************************************************)
EXTENDS WebFiles, WellFoundedInduction, TLAPS

\* What the fields of a request may be in each phase.
HoldsPage(r) == r.kind \in Pages /\ r.fp \in Slots /\ r.fileHandle = r.fp
Shape(r) ==
  /\ r.phase \in {"closed", "idle"} => r.kind = NULL /\ r.fp = NULL /\ r.fileHandle = NULL
  /\ r.phase = "body" => r.kind = Upload /\ r.fp = NULL /\ r.fileHandle \in Slots
  /\ r.phase = "error" => r.kind \in Pages /\ r.fileHandle = NULL
  /\ r.phase = "header" => \/ HoldsPage(r)
                           \/ r.kind = Dir /\ r.fp = NULL /\ r.fileHandle = NULL
                           \/ r.kind = Upload /\ r.fp = NULL
  /\ r.phase = "content" => \/ HoldsPage(r)
                            \/ r.kind = Dir /\ r.fp \in Slots /\ r.fileHandle = NULL
  /\ r.phase = "last" => \/ HoldsPage(r)
                         \/ r.kind = Dir /\ r.fp = NULL /\ r.fileHandle = NULL
  /\ r.phase \in {"header", "content"} /\ r.kind \in Pages => r.index < PageLen[r.kind]

\* Handle h of context d names a slot that d has opened and nobody closed.
Owns(d, h, sl) == h # NULL => sl[h].file # NoFile /\ sl[h].owner = d

\* Request r of context d and the table fit together.
Good(d, r, sl) ==
  /\ Owns(d, r.fp, sl)
  /\ (r.kind # Upload \/ r.phase = "body") => Owns(d, r.fileHandle, sl)
  /\ r.phase \in {"header", "content"} /\ r.kind \in Pages
       => sl[r.fp].file = r.kind /\ sl[r.fp].pos = r.index

\* From sl to sl2 only slots changed that were free or opened by c.
Touches(c, sl, sl2) ==
  \A s \in Slots : sl2[s] = sl[s] \/ sl[s].file = NoFile \/ sl[s].owner = c

Slot == [file : Pages \cup {NoFile, Dir, Upload}, pos : Nat, owner : Contexts \cup {NULL}]
DirBound(sl) == \A s \in Slots : sl[s].file = Dir => sl[s].pos < DirLen

Typed ==
  /\ slots \in [Slots -> Slot]
  /\ ctx \in [Contexts -> Context]
  /\ struck \in BOOLEAN
  /\ \A d \in Contexts : Shape(ctx[d])

Inv == Typed /\ (~struck => DirBound(slots) /\ \A d \in Contexts : Good(d, ctx[d], slots))

-----------------------------------------------------------------------------
(* The table of open files.                                                *)

\* FirstSlot (WEB_fopen) finds a free slot or none.
LEMMA FirstSlotIsFree ==
  ASSUME NEW sl \in [Slots -> Slot], FirstSlot(sl) # NULL
  PROVE  FirstSlot(sl) \in Slots /\ sl[FirstSlot(sl)].file = NoFile
<1>1. FreeSlots(sl) # {} /\ FreeSlots(sl) \subseteq Nat
  BY FilesAssumption DEF FirstSlot, FreeSlots, Slots
<1> DEFINE less == {ss \in Nat \X Nat : ss[1] < ss[2]}
<1>2. IsWellFoundedOn(less, Nat)
  BY NatLessThanWellFounded DEF OpToRel
<1> HIDE DEF less
<1>3. PICK s \in FreeSlots(sl) : \A t \in FreeSlots(sl) : ~(<<t, s>> \in less)
  BY <1>1, <1>2, WFMin
<1>5. ASSUME NEW t \in FreeSlots(sl) PROVE s <= t
  <2>1. s \in Nat /\ t \in Nat /\ <<t, s>> \notin less
    BY <1>1, <1>3
  <2>2. ~(t < s)
    BY <2>1 DEF less
  <2> QED BY <2>1, <2>2
<1>4. FirstSlot(sl) \in FreeSlots(sl)
  BY <1>1, <1>5 DEF FirstSlot
<1> QED BY <1>4 DEF FreeSlots

\* A table change of c leaves every other context as good as it was.
LEMMA Frame ==
  ASSUME NEW sl \in [Slots -> Slot], NEW sl2 \in [Slots -> Slot],
         NEW c \in Contexts, NEW d \in Contexts, c # d,
         NEW r \in Context, Shape(r), Touches(c, sl, sl2), Good(d, r, sl)
  PROVE  Good(d, r, sl2)
<1>1. ASSUME NEW h \in Slots \cup {NULL}, Owns(d, h, sl)
      PROVE  Owns(d, h, sl2) /\ (h # NULL => sl2[h] = sl[h])
  BY <1>1 DEF Owns, Touches
<1>2. r.fp \in Slots \cup {NULL} /\ r.fileHandle \in Slots \cup {NULL}
  BY DEF Context
<1>3. r.phase \in {"header", "content"} /\ r.kind \in Pages => r.fp # NULL
  BY FilesAssumption DEF Shape, HoldsPage
<1> QED BY <1>1, <1>2, <1>3 DEF Good

\* WEB_fclose of a handle that is not foreign touches only what c has opened.
LEMMA CloseTouches ==
  ASSUME NEW sl \in [Slots -> Slot], NEW c \in Contexts, NEW h \in Slots \cup {NULL}
  PROVE  /\ WEB_fclose(sl, h) \in [Slots -> Slot]
         /\ ~Foreign(sl, h, c) => Touches(c, sl, WEB_fclose(sl, h))
         /\ DirBound(sl) => DirBound(WEB_fclose(sl, h))
<1>1. Free \in Slot /\ Free.file # Dir
  BY FilesAssumption DEF Free, Slot
<1>2. CASE h = NULL
  BY <1>2 DEF WEB_fclose, Touches
<1>3. CASE h # NULL
  <2>1. WEB_fclose(sl, h) = [sl EXCEPT ![h] = Free]
    BY <1>3 DEF WEB_fclose
  <2>2. ~Foreign(sl, h, c) => sl[h].file = NoFile \/ sl[h].owner = c
    BY <1>3 DEF Foreign
  <2> QED BY <1>1, <1>3, <2>1, <2>2 DEF Touches, DirBound
<1> QED BY <1>2, <1>3

\* Opening the first free slot touches no slot that is open.
LEMMA OpenTouches ==
  ASSUME NEW sl \in [Slots -> Slot], NEW c \in Contexts,
         NEW file \in Pages \cup {Dir, Upload}
  PROVE  LET h == FirstSlot(sl)
             sl2 == Opened(sl, h, file, c)
         IN  /\ h \in Slots \cup {NULL}
             /\ sl2 \in [Slots -> Slot]
             /\ Touches(c, sl, sl2)
             /\ DirBound(sl) => DirBound(sl2)
             /\ h # NULL => sl2[h].file = file /\ sl2[h].owner = c /\ sl2[h].pos = 0
<1> DEFINE h == FirstSlot(sl)
           sl2 == Opened(sl, h, file, c)
           new == [file |-> file, pos |-> 0, owner |-> c]
<1>1. CASE h = NULL
  BY <1>1 DEF Opened, Touches
<1>2. CASE h # NULL
  <2>1. h \in Slots /\ sl[h].file = NoFile
    BY <1>2, FirstSlotIsFree
  <2>2. sl2 = [sl EXCEPT ![h] = new]
    BY <1>2 DEF Opened
  <2>3. new \in Slot
    BY DEF Slot
  <2> HIDE DEF h, sl2
  <2>4. sl2 \in [Slots -> Slot] /\ sl2[h] = new /\ \A s \in Slots : s # h => sl2[s] = sl[s]
    BY <2>1, <2>2, <2>3
  <2>5. Touches(c, sl, sl2)
    BY <2>1, <2>4 DEF Touches
  <2>6. DirBound(sl) => DirBound(sl2)
    BY <2>1, <2>4, FilesAssumption DEF DirBound
  <2> QED BY <1>2, <2>1, <2>4, <2>5, <2>6 DEF h, sl2
<1> QED BY <1>1, <1>2

-----------------------------------------------------------------------------
(* The step of one context.                                                *)

\* What a callback of c must do for the invariant to be preserved.
LEMMA StepIsEnough ==
  ASSUME Inv, NEW c \in Contexts, NEW r \in Context, Shape(r),
         NEW sl \in [Slots -> Slot], NEW hit \in BOOLEAN,
         slots' = sl, ctx' = [ctx EXCEPT ![c] = r], struck' = hit,
         ~hit => /\ ~struck
                 /\ Touches(c, slots, sl)
                 /\ DirBound(slots) => DirBound(sl)
                 /\ (DirBound(slots) /\ Good(c, ctx[c], slots)) => Good(c, r, sl)
  PROVE  Inv'
<1>1. Typed'
  BY DEF Inv, Typed
<1>2. ASSUME ~struck' PROVE DirBound(slots') /\ \A d \in Contexts : Good(d, ctx'[d], slots')
  <2>1. /\ ~struck /\ DirBound(slots) /\ Touches(c, slots, sl)
        /\ \A d \in Contexts : Good(d, ctx[d], slots)
    BY <1>2 DEF Inv
  <2>2. DirBound(slots')
    BY <1>2, <2>1
  <2>3. ASSUME NEW d \in Contexts PROVE Good(d, ctx'[d], slots')
    <3>1. CASE d = c
      BY <1>2, <2>1, <3>1 DEF Inv, Typed
    <3>2. CASE d # c
      BY <2>1, <3>2, Frame DEF Inv, Typed
    <3> QED BY <3>1, <3>2
  <2> QED BY <2>2, <2>3
<1>3. (~struck => DirBound(slots) /\ \A d \in Contexts : Good(d, ctx[d], slots))'
  BY <1>2
<1> QED BY <1>1, <1>3 DEF Inv

\* A request without handles is good, whatever the table.
LEMMA IdleIsGood ==
  ASSUME NEW c \in Contexts, NEW sl
  PROVE  /\ Closed \in Context /\ Idle \in Context /\ Shape(Closed) /\ Shape(Idle)
         /\ Good(c, Closed, sl) /\ Good(c, Idle, sl)
BY FilesAssumption DEF Closed, Idle, Context, Phases, Kinds, Shape, Good, Owns

\* Touching twice is touching.
LEMMA TouchesTwice ==
  ASSUME NEW c \in Contexts, NEW s1 \in [Slots -> Slot], NEW s2 \in [Slots -> Slot],
         NEW s3 \in [Slots -> Slot], Touches(c, s1, s2), Touches(c, s2, s3)
  PROVE  Touches(c, s1, s3)
BY DEF Touches

\* The end of a request, from a table the callback has changed already.
LEMMA EndPreserves ==
  ASSUME Inv, NEW c \in Contexts, NEW sl \in [Slots -> Slot], NEW hit \in BOOLEAN,
         ~hit => /\ ~struck
                 /\ Touches(c, slots, sl)
                 /\ DirBound(slots) => DirBound(sl),
         ResetHttpContext(c, sl, hit) \/ FreeHttpContext(c, sl, hit)
  PROVE  Inv'
<1> DEFINE r == ctx[c]
<1>0. r.fp \in Slots \cup {NULL} /\ r.fileHandle \in Slots \cup {NULL}
  BY DEF Inv, Typed, Context
<1> HIDE DEF r
<1>1. CASE ResetHttpContext(c, sl, hit)
  <2> DEFINE sl2 == WEB_fclose(sl, r.fileHandle)
             hit2 == hit \/ Foreign(sl, r.fileHandle, c)
  <2>1. slots' = sl2 /\ ctx' = [ctx EXCEPT ![c] = Idle] /\ struck' = hit2
    BY <1>1 DEF ResetHttpContext, r
  <2>2. sl2 \in [Slots -> Slot] /\ hit2 \in BOOLEAN
    BY <1>0, CloseTouches DEF Foreign
  <2>3. ~hit2 => ~struck /\ Touches(c, slots, sl2) /\ (DirBound(slots) => DirBound(sl2))
    BY <1>0, <2>2, CloseTouches, TouchesTwice DEF Inv, Typed
  <2> HIDE DEF sl2, hit2
  <2> QED BY <2>1, <2>2, <2>3, IdleIsGood, StepIsEnough
<1>2. CASE FreeHttpContext(c, sl, hit)
  <2> DEFINE sl1 == Finished(c, sl)
             sl2 == WEB_fclose(sl1, r.fileHandle)
             hit1 == hit \/ (r.kind \in Pages /\ Foreign(sl, r.fp, c))
             hit2 == hit1 \/ Foreign(sl1, r.fileHandle, c)
  <2>1. slots' = sl2 /\ ctx' = [ctx EXCEPT ![c] = Closed] /\ struck' = hit2
    BY <1>2 DEF FreeHttpContext, r
  <2>2. /\ sl1 \in [Slots -> Slot] /\ hit1 \in BOOLEAN
        /\ ~hit1 => ~struck /\ Touches(c, slots, sl1) /\ (DirBound(slots) => DirBound(sl1))
    <3>1. CASE r.kind \in Pages
      <4>1. sl1 = WEB_fclose(sl, r.fp)
        BY <3>1 DEF Finished, r
      <4> QED BY <1>0, <3>1, <4>1, CloseTouches, TouchesTwice DEF Inv, Typed, Foreign
    <3>2. CASE r.kind \notin Pages
      BY <3>2 DEF Finished, r
    <3> QED BY <3>1, <3>2
  <2> HIDE DEF sl1, hit1
  <2>3. /\ sl2 \in [Slots -> Slot] /\ hit2 \in BOOLEAN
        /\ ~hit2 => ~struck /\ Touches(c, slots, sl2) /\ (DirBound(slots) => DirBound(sl2))
    BY <1>0, <2>2, CloseTouches, TouchesTwice DEF Inv, Typed, Foreign
  <2> HIDE DEF sl2, hit2
  <2> QED BY <2>1, <2>3, IdleIsGood, StepIsEnough
<1> QED BY <1>1, <1>2

-----------------------------------------------------------------------------
(* The invariant is inductive: one lemma per callback.                     *)

\* A new connection.
LEMMA AcceptPreserves ==
  ASSUME Inv, NEW c \in Contexts, OnHttpAccept(c)
  PROVE  Inv'
<1>1. slots' = slots /\ struck' = struck /\ ctx' = [ctx EXCEPT ![c] = Idle]
  BY DEF OnHttpAccept
<1>2. slots \in [Slots -> Slot] /\ struck \in BOOLEAN /\ Touches(c, slots, slots)
  BY DEF Inv, Typed, Touches
<1> QED BY <1>1, <1>2, IdleIsGood, StepIsEnough

\* A request for a page: not found, not modified, or opened and rewound.
LEMMA PagePreserves ==
  ASSUME Inv, NEW c \in Contexts, NEW p \in Pages, WEB_RequestReceived(c, p)
  PROVE  Inv'
<1> DEFINE h == FirstSlot(slots)
           sl == Opened(slots, h, p, c)
           bad == [Idle EXCEPT !.phase = "error", !.kind = p, !.fp = h]
           good == [Idle EXCEPT !.phase = "header", !.kind = p, !.fp = h, !.fileHandle = h]
<1>1. slots \in [Slots -> Slot] /\ struck \in BOOLEAN
  BY DEF Inv, Typed
<1>2. /\ h \in Slots \cup {NULL} /\ sl \in [Slots -> Slot]
      /\ Touches(c, slots, sl) /\ (DirBound(slots) => DirBound(sl))
      /\ h # NULL => sl[h].file = p /\ sl[h].owner = c /\ sl[h].pos = 0
  BY <1>1, OpenTouches
<1>3. slots' = sl /\ struck' = struck
  BY DEF WEB_RequestReceived
<1>4. \/ ctx' = [ctx EXCEPT ![c] = bad]
      \/ h # NULL /\ ctx' = [ctx EXCEPT ![c] = good]
  BY DEF WEB_RequestReceived
<1> HIDE DEF h, sl
<1>5. bad \in Context /\ Shape(bad) /\ Good(c, bad, sl)
  BY <1>2, FilesAssumption DEF Idle, Closed, Context, Phases, Kinds, Shape, HoldsPage, Good, Owns
<1>6. ASSUME h # NULL PROVE good \in Context /\ Shape(good) /\ Good(c, good, sl)
  <2>1. /\ good.phase = "header" /\ good.kind = p /\ good.fp = h /\ good.fileHandle = h
        /\ good.index = 0 /\ h \in Slots /\ 0 < PageLen[p]
    BY <1>2, <1>6, FilesAssumption DEF Idle, Closed
  <2>2. good \in Context
    BY <1>2 DEF Idle, Closed, Context, Phases, Kinds
  <2> HIDE DEF good
  <2>3. Shape(good)
    BY <2>1 DEF Shape, HoldsPage
  <2>4. Good(c, good, sl)
    BY <1>2, <1>6, <2>1, FilesAssumption DEF Good, Owns
  <2> QED BY <2>2, <2>3, <2>4
<1> HIDE DEF bad, good
<1> QED BY <1>1, <1>2, <1>3, <1>4, <1>5, <1>6, StepIsEnough

\* A request for the listing.
LEMMA ListingPreserves ==
  ASSUME Inv, NEW c \in Contexts, Files_OnRequestReceived(c)
  PROVE  Inv'
<1> DEFINE r == [Idle EXCEPT !.phase = "header", !.kind = Dir]
<1>1. slots' = slots /\ struck' = struck /\ ctx' = [ctx EXCEPT ![c] = r]
  BY DEF Files_OnRequestReceived
<1>2. slots \in [Slots -> Slot] /\ struck \in BOOLEAN /\ Touches(c, slots, slots)
  BY DEF Inv, Typed, Touches
<1>3. r \in Context /\ Shape(r) /\ Good(c, r, slots)
  BY FilesAssumption DEF Idle, Closed, Context, Phases, Kinds, Shape, HoldsPage, Good, Owns
<1> HIDE DEF r
<1> QED BY <1>1, <1>2, <1>3, StepIsEnough

\* The headers of an upload.
LEMMA UploadPreserves ==
  ASSUME Inv, NEW c \in Contexts, Upload_Start(c)
  PROVE  Inv'
<1> DEFINE h == FirstSlot(slots)
           sl == Opened(slots, h, Upload, c)
           r == IF h = NULL THEN Closed
                ELSE [Idle EXCEPT !.phase = "body", !.kind = Upload, !.fileHandle = h]
<1>1. slots \in [Slots -> Slot] /\ struck \in BOOLEAN
  BY DEF Inv, Typed
<1>2. /\ h \in Slots \cup {NULL} /\ sl \in [Slots -> Slot]
      /\ Touches(c, slots, sl) /\ (DirBound(slots) => DirBound(sl))
      /\ h # NULL => sl[h].file = Upload /\ sl[h].owner = c /\ sl[h].pos = 0
  BY <1>1, OpenTouches
<1>3. slots' = sl /\ struck' = struck /\ ctx' = [ctx EXCEPT ![c] = r]
  BY DEF Upload_Start
<1> HIDE DEF h, sl
<1>4. r \in Context /\ Shape(r) /\ Good(c, r, sl)
  BY <1>2, FilesAssumption DEF Idle, Closed, Context, Phases, Kinds, Shape, HoldsPage, Good, Owns
<1> HIDE DEF r
<1> QED BY <1>1, <1>2, <1>3, <1>4, StepIsEnough

\* The end of an upload's body: the handle goes stale, and is no longer held.
LEMMA ReceivedPreserves ==
  ASSUME Inv, NEW c \in Contexts, Upload_AllReceived(c)
  PROVE  Inv'
<1> DEFINE h == ctx[c].fileHandle
           sl == WEB_fclose(slots, h)
           hit == struck \/ Foreign(slots, h, c)
           r == [ctx[c] EXCEPT !.phase = "header"]
<1>1. /\ slots \in [Slots -> Slot] /\ struck \in BOOLEAN /\ ctx \in [Contexts -> Context]
      /\ ctx[c] \in Context /\ Shape(ctx[c]) /\ h \in Slots \cup {NULL}
  BY DEF Inv, Typed, Context
<1>2. slots' = sl /\ struck' = hit /\ ctx' = [ctx EXCEPT ![c] = r]
  BY <1>1 DEF Upload_AllReceived
<1>3. r \in Context /\ Shape(r) /\ Good(c, r, sl)
  BY <1>1, FilesAssumption DEF Upload_AllReceived, Context, Phases, Shape, HoldsPage, Good, Owns
<1>4. /\ sl \in [Slots -> Slot] /\ hit \in BOOLEAN
      /\ ~hit => ~struck /\ Touches(c, slots, sl) /\ (DirBound(slots) => DirBound(sl))
  BY <1>1, CloseTouches DEF Foreign
<1> HIDE DEF sl, hit, r
<1> QED BY <1>2, <1>3, <1>4, StepIsEnough

\* A block of a page: read from a slot of its own, or struck.
LEMMA ReadPreserves ==
  ASSUME Inv, NEW c \in Contexts, WEB_ReadContent(c)
  PROVE  Inv'
<1> DEFINE h == ctx[c].fp
           n == Left(h)
           k == ctx[c].kind
           sl == WEB_fread(slots, h, n)
           hit == struck \/ Foreign(slots, h, c)
           index == ctx[c].index + n
           r == [ctx[c] EXCEPT !.index = index,
                               !.phase = IF index >= PageLen[k] THEN "last" ELSE "content"]
<1>1. /\ slots \in [Slots -> Slot] /\ struck \in BOOLEAN /\ ctx \in [Contexts -> Context]
      /\ ctx[c] \in Context /\ Shape(ctx[c]) /\ ctx[c].index \in Nat
  BY DEF Inv, Typed, Context
<1>2. ctx[c].phase \in {"header", "content"} /\ k \in Pages /\ slots[h].file # NoFile
  BY DEF WEB_ReadContent, Sending
<1>3. h \in Slots /\ ctx[c].fileHandle = h /\ ctx[c].index < PageLen[k]
  BY <1>1, <1>2, FilesAssumption DEF Shape, HoldsPage
<1>4. n \in {0, 1} /\ PageLen[k] \in Nat /\ h # NULL
  BY <1>2, <1>3, FilesAssumption DEF Left
<1>5. slots' = sl /\ struck' = hit /\ ctx' = [ctx EXCEPT ![c] = r]
  BY <1>1 DEF WEB_ReadContent
<1>6. slots[h] \in Slot /\ slots[h].pos \in Nat
  BY <1>1, <1>3 DEF Slot
<1>7. /\ sl \in [Slots -> Slot] /\ sl[h].file = slots[h].file /\ sl[h].owner = slots[h].owner
      /\ sl[h].pos = slots[h].pos + n /\ \A s \in Slots : s # h => sl[s] = slots[s]
  <2>1. sl = [slots EXCEPT ![h] = [slots[h] EXCEPT !.pos = slots[h].pos + n]]
    BY <1>1, <1>3 DEF WEB_fread
  <2>2. [slots[h] EXCEPT !.pos = slots[h].pos + n] \in Slot
    BY <1>4, <1>6 DEF Slot
  <2>3. slots[h].pos + n \in Nat
    BY <1>4, <1>6
  <2> QED BY <1>1, <1>3, <1>6, <2>1, <2>2 DEF Slot
<1>8. /\ r.phase = IF index >= PageLen[k] THEN "last" ELSE "content"
      /\ r.kind = k /\ r.fp = h /\ r.fileHandle = h /\ r.index = index /\ index \in Nat
      /\ r \in Context
  <2>1. index \in Nat
    BY <1>1, <1>4
  <2> DEFINE ph == IF index >= PageLen[k] THEN "last" ELSE "content"
  <2>2. ph \in {"last", "content"}
    OBVIOUS
  <2> HIDE DEF index, ph
  <2>3. r = [ctx[c] EXCEPT !.index = index, !.phase = ph]
    BY DEF ph
  <2> HIDE DEF r
  <2>4. r.phase = ph /\ r.kind = k /\ r.fp = h /\ r.fileHandle = h /\ r.index = index
    BY <1>1, <1>3, <2>3 DEF Context
  <2>5. r \in Context
    BY <1>1, <2>1, <2>2, <2>3 DEF Context, Phases
  <2> QED BY <2>1, <2>4, <2>5 DEF ph
<1> HIDE DEF r, sl
<1>9. Shape(r)
  BY <1>2, <1>3, <1>4, <1>8 DEF Shape, HoldsPage
<1>10. ASSUME ~hit, Good(c, ctx[c], slots), DirBound(slots)
       PROVE  Touches(c, slots, sl) /\ DirBound(sl) /\ Good(c, r, sl)
  <2>1. slots[h].owner = c /\ slots[h].file = k /\ slots[h].pos = ctx[c].index
    BY <1>2, <1>3, <1>4, <1>10 DEF Foreign, Good, Owns
  <2>2. Touches(c, slots, sl)
    BY <1>7, <2>1 DEF Touches
  <2>3. DirBound(sl)
    BY <1>2, <1>7, <1>10, <2>1, FilesAssumption DEF DirBound
  <2>4. n = 1
    <3>1. ~(slots[h].pos >= PageLen[slots[h].file])
      BY <1>1, <1>3, <1>4, <2>1
    <3> QED BY <3>1 DEF Left
  <2>5. Good(c, r, sl)
    BY <1>2, <1>4, <1>7, <1>8, <2>1, <2>4 DEF Good, Owns
  <2> QED BY <2>2, <2>3, <2>5
<1>11. hit \in BOOLEAN
  BY <1>1 DEF Foreign
<1>12. ~hit => ~struck
  OBVIOUS
<1>13. ~struck => DirBound(slots) /\ Good(c, ctx[c], slots)
  BY DEF Inv
<1>14. ~hit => Touches(c, slots, sl) /\ DirBound(sl) /\ Good(c, r, sl)
  BY <1>10, <1>12, <1>13
<1> HIDE DEF hit
<1> QED BY <1>5, <1>7, <1>8, <1>9, <1>11, <1>12, <1>14, StepIsEnough

\* The directory is opened, or the table is full.
LEMMA FirstEntryPreserves ==
  ASSUME Inv, NEW c \in Contexts, Files_First(c)
  PROVE  Inv'
<1> DEFINE h == FirstSlot(slots)
           sl == Opened(slots, h, Dir, c)
           ph == IF h = NULL THEN "last" ELSE "content"
           r == [ctx[c] EXCEPT !.fp = h, !.phase = ph]
<1>1. /\ slots \in [Slots -> Slot] /\ struck \in BOOLEAN /\ ctx \in [Contexts -> Context]
      /\ ctx[c] \in Context /\ Shape(ctx[c])
  BY DEF Inv, Typed
<1>2. /\ h \in Slots \cup {NULL} /\ sl \in [Slots -> Slot]
      /\ Touches(c, slots, sl) /\ (DirBound(slots) => DirBound(sl))
      /\ h # NULL => sl[h].file = Dir /\ sl[h].owner = c /\ sl[h].pos = 0
  BY <1>1, OpenTouches
<1>3. slots' = sl /\ struck' = struck /\ ctx' = [ctx EXCEPT ![c] = r]
  BY <1>1 DEF Files_First
<1>4. ctx[c].phase = "header" /\ ctx[c].kind = Dir /\ ctx[c].fileHandle = NULL
  BY <1>1, FilesAssumption DEF Files_First, Shape, HoldsPage
<1> HIDE DEF h, sl
<1>5. r \in Context /\ r.phase = ph /\ r.kind = Dir /\ r.fp = h /\ r.fileHandle = NULL
  BY <1>1, <1>2, <1>4 DEF Context, Phases
<1> HIDE DEF r
<1>6. Shape(r)
  BY <1>2, <1>5, FilesAssumption DEF Shape, HoldsPage
<1>7. Good(c, r, sl)
  BY <1>2, <1>5, FilesAssumption DEF Good, Owns
<1> QED BY <1>1, <1>2, <1>3, <1>5, <1>6, <1>7, StepIsEnough

\* WEB_readdir of a handle that is not foreign touches only what c has opened.
LEMMA ReaddirTouches ==
  ASSUME NEW sl \in [Slots -> Slot], NEW c \in Contexts, NEW h \in Slots
  PROVE  LET sl2 == WEB_readdir(sl, h, c)
         IN  /\ sl2 \in [Slots -> Slot]
             /\ sl2[h] = [file |-> Dir, pos |-> sl[h].pos + 1, owner |-> c]
             /\ ~Foreign(sl, h, c) => Touches(c, sl, sl2)
             /\ DirBound(sl) /\ sl2[h].pos < DirLen => DirBound(sl2)
<1> DEFINE sl2 == WEB_readdir(sl, h, c)
           new == [file |-> Dir, pos |-> sl[h].pos + 1, owner |-> c]
<1>1. new \in Slot
  BY DEF Slot
<1>2. sl2 = [sl EXCEPT ![h] = new]
  BY DEF WEB_readdir
<1> HIDE DEF sl2
<1>3. sl2 \in [Slots -> Slot] /\ sl2[h] = new /\ \A s \in Slots : s # h => sl2[s] = sl[s]
  BY <1>1, <1>2
<1>4. ~Foreign(sl, h, c) => sl[h].file = NoFile \/ sl[h].owner = c
  BY FilesAssumption DEF Foreign
<1>5. ~Foreign(sl, h, c) => Touches(c, sl, sl2)
  BY <1>3, <1>4 DEF Touches
<1> HIDE DEF new
<1>6. DirBound(sl) /\ sl2[h].pos < DirLen => DirBound(sl2)
  BY <1>3 DEF DirBound
<1> QED BY <1>3, <1>5, <1>6 DEF sl2, new

\* An entry of the directory, or its end.
LEMMA NextEntryPreserves ==
  ASSUME Inv, NEW c \in Contexts, Files_Next(c)
  PROVE  Inv'
<1> DEFINE h == ctx[c].fp
           read == WEB_readdir(slots, h, c)
           hit == struck \/ Foreign(slots, h, c)
<1>1. /\ slots \in [Slots -> Slot] /\ struck \in BOOLEAN /\ ctx \in [Contexts -> Context]
      /\ ctx[c] \in Context /\ Shape(ctx[c])
  BY DEF Inv, Typed
<1>2. /\ ctx[c].phase = "content" /\ ctx[c].kind = Dir /\ h \in Slots
      /\ ctx[c].fileHandle = NULL /\ h # NULL
  BY <1>1, FilesAssumption DEF Files_Next, Shape, HoldsPage
<1>3. struck' = hit /\ hit \in BOOLEAN
  BY <1>1 DEF Files_Next, Foreign
<1>4. /\ read \in [Slots -> Slot]
      /\ read[h] = [file |-> Dir, pos |-> slots[h].pos + 1, owner |-> c]
      /\ ~Foreign(slots, h, c) => Touches(c, slots, read)
      /\ DirBound(slots) /\ read[h].pos < DirLen => DirBound(read)
  BY <1>1, <1>2, ReaddirTouches
<1>5. CASE read[h].pos < DirLen /\ slots' = read /\ UNCHANGED ctx
  <2>1. ctx' = [ctx EXCEPT ![c] = ctx[c]]
    BY <1>1, <1>5
  <2>2. read[h].file # NoFile /\ read[h].owner = c
    BY <1>4, FilesAssumption
  <2> HIDE DEF read
  <2>3. Good(c, ctx[c], read)
    BY <1>2, <2>2, FilesAssumption DEF Good, Owns
  <2>4. ~hit => ~struck /\ Touches(c, slots, read) /\ (DirBound(slots) => DirBound(read))
    BY <1>4, <1>5
  <2> HIDE DEF hit, h
  <2> QED BY <1>1, <1>3, <1>4, <1>5, <2>1, <2>3, <2>4, StepIsEnough
<1>6. CASE /\ read[h].pos >= DirLen /\ slots' = WEB_fclose(read, h)
           /\ ctx' = [ctx EXCEPT ![c].fp = NULL, ![c].phase = "last"]
  <2> DEFINE r == [ctx[c] EXCEPT !.fp = NULL, !.phase = "last"]
             sl == WEB_fclose(read, h)
  <2>1. ctx' = [ctx EXCEPT ![c] = r]
    BY <1>1, <1>6
  <2>2. r \in Context /\ Shape(r) /\ Good(c, r, sl)
    BY <1>1, <1>2, FilesAssumption DEF Context, Phases, Shape, HoldsPage, Good, Owns
  <2>3. sl = [slots EXCEPT ![h] = Free] /\ sl = WEB_fclose(slots, h)
    BY <1>1, <1>2 DEF WEB_fclose, WEB_readdir
  <2>4. /\ sl \in [Slots -> Slot]
        /\ ~hit => ~struck /\ Touches(c, slots, sl) /\ (DirBound(slots) => DirBound(sl))
    BY <1>1, <1>2, <2>3, CloseTouches
  <2>5. slots' = sl
    BY <1>6
  <2> HIDE DEF hit, sl, r
  <2> QED BY <1>3, <2>1, <2>2, <2>4, <2>5, StepIsEnough
<1>7. \/ read[h].pos < DirLen /\ slots' = read /\ UNCHANGED ctx
      \/ /\ read[h].pos >= DirLen /\ slots' = WEB_fclose(read, h)
         /\ ctx' = [ctx EXCEPT ![c].fp = NULL, ![c].phase = "last"]
  BY DEF Files_Next
<1> QED BY <1>5, <1>6, <1>7

\* The callbacks that only end a request or free its context.
LEMMA EndingsPreserve ==
  ASSUME Inv, NEW c \in Contexts,
         \/ HeaderSent(c) \/ WEB_ReadFails(c) \/ Files_NoRoom(c)
         \/ WriteFails(c) \/ Abort(c)
  PROVE  Inv'
<1>1. EndRequest(c, slots, struck) \/ FreeHttpContext(c, slots, struck)
  BY DEF HeaderSent, WEB_ReadFails, Files_NoRoom, WriteFails, Abort
<1>2. slots \in [Slots -> Slot] /\ struck \in BOOLEAN /\ Touches(c, slots, slots)
  BY DEF Inv, Typed, Touches
<1> QED BY <1>1, <1>2, EndPreserves DEF EndRequest

\* The last acknowledgement: OnAllSent closes the page, the end closes it again.
LEMMA AllSentPreserves ==
  ASSUME Inv, NEW c \in Contexts, AllSent(c)
  PROVE  Inv'
<1>1. slots \in [Slots -> Slot] /\ struck \in BOOLEAN /\ Touches(c, slots, slots)
  BY DEF Inv, Typed, Touches
<1>2. CASE ctx[c].kind \in Pages
  <2> DEFINE h == ctx[c].fp
             sl == WEB_fclose(slots, h)
             hit == struck \/ Foreign(slots, h, c)
  <2>1. h \in Slots \cup {NULL}
    BY DEF Inv, Typed, Context
  <2>2. EndRequest(c, sl, hit)
    BY <1>2 DEF AllSent
  <2>3. /\ sl \in [Slots -> Slot] /\ hit \in BOOLEAN
        /\ ~hit => ~struck /\ Touches(c, slots, sl) /\ (DirBound(slots) => DirBound(sl))
    BY <1>1, <2>1, CloseTouches DEF Foreign
  <2> HIDE DEF sl, hit
  <2> QED BY <2>2, <2>3, EndPreserves DEF EndRequest
<1>3. CASE ctx[c].kind \notin Pages
  <2>1. EndRequest(c, slots, struck)
    BY <1>3 DEF AllSent
  <2> QED BY <1>1, <2>1, EndPreserves DEF EndRequest
<1> QED BY <1>2, <1>3

\* At the start the table is empty and no context has a request.
LEMMA InitInv == Init => Inv
<1> SUFFICES ASSUME Init PROVE Inv
  OBVIOUS
<1>1. Free \in Slot /\ Free.file # Dir
  BY FilesAssumption DEF Free, Slot
<1>2. slots \in [Slots -> Slot] /\ DirBound(slots)
  BY <1>1 DEF Init, DirBound
<1>3. \A c \in Contexts : ctx[c] \in Context /\ Shape(ctx[c]) /\ Good(c, ctx[c], slots)
  BY IdleIsGood DEF Init
<1>4. ctx \in [Contexts -> Context] /\ struck = FALSE
  BY IdleIsGood DEF Init
<1> QED BY <1>2, <1>3, <1>4 DEF Inv, Typed

\* The invariant holds in every reachable state.
THEOREM Invariance == Spec => []Inv
<1>1. Init => Inv
  BY InitInv
<1>2. Inv /\ [Next]_vars => Inv'
  <2> SUFFICES ASSUME Inv, [Next]_vars PROVE Inv'
    OBVIOUS
  <2>1. CASE UNCHANGED vars
    BY <2>1 DEF vars, Inv, Typed, DirBound
  <2>2. ASSUME NEW c \in Contexts, NEW p \in Pages, WEB_RequestReceived(c, p) PROVE Inv'
    BY <2>2, PagePreserves
  <2>3. ASSUME NEW c \in Contexts,
               \/ OnHttpAccept(c) \/ Files_OnRequestReceived(c)
               \/ Upload_Start(c) \/ Upload_AllReceived(c)
        PROVE Inv'
    BY <2>3, AcceptPreserves, ListingPreserves, UploadPreserves, ReceivedPreserves
  <2>4. ASSUME NEW c \in Contexts,
               WEB_ReadContent(c) \/ Files_First(c) \/ Files_Next(c) \/ AllSent(c)
        PROVE Inv'
    BY <2>4, ReadPreserves, FirstEntryPreserves, NextEntryPreserves, AllSentPreserves
  <2>5. ASSUME NEW c \in Contexts,
               \/ HeaderSent(c) \/ WEB_ReadFails(c) \/ Files_NoRoom(c)
               \/ WriteFails(c) \/ Abort(c)
        PROVE Inv'
    BY <2>5, EndingsPreserve
  <2> QED BY <2>1, <2>2, <2>3, <2>4, <2>5 DEF Next
<1> QED BY <1>1, <1>2, PTL DEF Spec

\* Types: what the fields may hold, and directories stay inside the fake files.
THEOREM TypeCorrect == Spec => []TypeOK
<1>1. Inv => TypeOK
  BY DEF Inv, Typed, TypeOK, Slot, DirBound
<1> QED BY <1>1, Invariance, PTL

\* The handle a context still uses names a slot it has opened and nobody closed.
THEOREM HandlesAreOwned == Spec => []HandlesOwned
<1>1. Inv => HandlesOwned
  BY FilesAssumption DEF Inv, Good, Owns, HandlesOwned, Handles
<1> QED BY <1>1, Invariance, PTL

\* A page response reads the page it was asked for, from where it stopped.
THEOREM ReadsThePage == Spec => []ReadsItsPage
<1>1. Inv => ReadsItsPage
  BY DEF Inv, Good, ReadsItsPage, Sending
<1> QED BY <1>1, Invariance, PTL

-----------------------------------------------------------------------------
(* What stays open.                                                        *)

\* A slot that may be left open: free, a directory, or a page not read yet.
Unread(f) == f.file \in {NoFile, Dir} \/ (f.file \in Pages /\ f.pos = 0)

\* The handles of a request that is r (Handles, for a context that is r).
Holds(r) ==
  {r.fp, IF r.kind = Upload /\ r.phase # "body" THEN NULL ELSE r.fileHandle} \ {NULL}

\* What the slots of the endings without a close are open on.
Known(r, sl) ==
  /\ r.kind = Dir /\ r.fp # NULL => sl[r.fp].file = Dir
  /\ r.phase = "error" /\ r.fp # NULL => sl[r.fp].file = r.kind /\ sl[r.fp].pos = 0

Kept ==
  /\ \A d \in Contexts : Known(ctx[d], slots)
  /\ \A s \in Slots : Unread(slots[s]) \/ \E d \in Contexts : s \in Holds(ctx[d])

\* From request r and table sl to r2 and sl2 no slot is given up that was read.
Saves(r, sl, r2, sl2) ==
  \A s \in Slots : \/ Unread(sl2[s]) \/ s \in Holds(r2)
                   \/ sl2[s] = sl[s] /\ s \notin Holds(r)

LeakInv == Inv /\ (~struck => Kept)

\* What a callback of c must do for no read slot to be lost.
LEMMA SavingIsEnough ==
  ASSUME LeakInv, Inv', NEW c \in Contexts, NEW r,
         ctx' = [ctx EXCEPT ![c] = r],
         ~struck' => /\ ~struck
                     /\ Touches(c, slots, slots')
                     /\ (Kept /\ Good(c, ctx[c], slots))
                          => Known(r, slots') /\ Saves(ctx[c], slots, r, slots')
  PROVE  LeakInv'
<1> SUFFICES ASSUME ~struck' PROVE Kept'
  BY DEF LeakInv
<1>1. /\ ~struck /\ Kept /\ Touches(c, slots, slots')
      /\ \A d \in Contexts : Good(d, ctx[d], slots)
      /\ ctx \in [Contexts -> Context]
      /\ Known(r, slots') /\ Saves(ctx[c], slots, r, slots')
  BY DEF LeakInv, Inv, Typed
<1>2. ctx'[c] = r /\ \A d \in Contexts : d # c => ctx'[d] = ctx[d]
  BY <1>1
<1>3. ASSUME NEW d \in Contexts PROVE Known(ctx'[d], slots')
  <2>1. CASE d = c
    BY <1>1, <1>2, <2>1
  <2>2. CASE d # c
    <3>1. ctx[d].fp \in Slots \cup {NULL} /\ Owns(d, ctx[d].fp, slots) /\ Known(ctx[d], slots)
      BY <1>1 DEF Context, Good, Kept
    <3>2. ctx[d].fp # NULL => slots'[ctx[d].fp] = slots[ctx[d].fp]
      BY <1>1, <2>2, <3>1 DEF Owns, Touches
    <3> QED BY <1>2, <2>2, <3>1, <3>2 DEF Known
  <2> QED BY <2>1, <2>2
<1>4. ASSUME NEW s \in Slots, ~Unread(slots'[s])
      PROVE  \E d \in Contexts : s \in Holds(ctx'[d])
  <2>1. CASE s \in Holds(r)
    BY <1>2, <2>1
  <2>2. CASE s \notin Holds(r)
    <3>1. slots'[s] = slots[s] /\ s \notin Holds(ctx[c])
      BY <1>1, <1>4, <2>2 DEF Saves
    <3>2. PICK d \in Contexts : s \in Holds(ctx[d])
      BY <1>1, <1>4, <3>1 DEF Kept
    <3>3. ctx'[d] = ctx[d]
      BY <1>2, <3>1, <3>2
    <3> QED BY <3>2, <3>3
  <2> QED BY <2>1, <2>2
<1> QED BY <1>3, <1>4 DEF Kept

\* A closed slot may be left.
LEMMA FreeIsUnread == Unread(Free)
BY DEF Free, Unread

\* The end of a request closes the handle of the context, and opens nothing.
LEMMA EndCloses ==
  ASSUME NEW c \in Contexts, ctx[c] \in Context, NEW sl \in [Slots -> Slot], NEW hit \in BOOLEAN,
         ResetHttpContext(c, sl, hit) \/ FreeHttpContext(c, sl, hit)
  PROVE  /\ \E r \in {Idle, Closed} : ctx' = [ctx EXCEPT ![c] = r]
         /\ ~struck' => ~hit /\ Touches(c, sl, slots')
         /\ \A s \in Slots : slots'[s] \in {sl[s], Free}
         /\ ctx[c].fileHandle # NULL => slots'[ctx[c].fileHandle] = Free
<1> DEFINE r == ctx[c]
<1>0. r.fp \in Slots \cup {NULL} /\ r.fileHandle \in Slots \cup {NULL}
  BY DEF Context
<1>1. ASSUME NEW t \in [Slots -> Slot], NEW h \in Slots \cup {NULL}
      PROVE  /\ WEB_fclose(t, h) \in [Slots -> Slot]
             /\ ~Foreign(t, h, c) => Touches(c, t, WEB_fclose(t, h))
             /\ \A s \in Slots : WEB_fclose(t, h)[s] \in {t[s], Free}
             /\ h # NULL => WEB_fclose(t, h)[h] = Free
  BY CloseTouches DEF WEB_fclose
<1> HIDE DEF r
<1>2. CASE ResetHttpContext(c, sl, hit)
  <2>1. /\ slots' = WEB_fclose(sl, r.fileHandle) /\ ctx' = [ctx EXCEPT ![c] = Idle]
        /\ struck' = (hit \/ Foreign(sl, r.fileHandle, c))
    BY <1>2 DEF ResetHttpContext, r
  <2> QED BY <1>0, <1>1, <2>1 DEF r
<1>3. CASE FreeHttpContext(c, sl, hit)
  <2> DEFINE sl1 == Finished(c, sl)
  <2>1. /\ slots' = WEB_fclose(sl1, r.fileHandle) /\ ctx' = [ctx EXCEPT ![c] = Closed]
        /\ struck' = \/ hit
                     \/ r.kind \in Pages /\ Foreign(sl, r.fp, c)
                     \/ Foreign(sl1, r.fileHandle, c)
    BY <1>3 DEF FreeHttpContext, r
  <2>2. /\ sl1 \in [Slots -> Slot]
        /\ (r.kind \in Pages => ~Foreign(sl, r.fp, c)) => Touches(c, sl, sl1)
        /\ \A s \in Slots : sl1[s] \in {sl[s], Free}
    <3>1. CASE r.kind \in Pages
      <4>1. sl1 = WEB_fclose(sl, r.fp)
        BY <3>1 DEF Finished, r
      <4> QED BY <1>0, <1>1, <3>1, <4>1
    <3>2. CASE r.kind \notin Pages
      BY <3>2 DEF Finished, r, Touches
    <3> QED BY <3>1, <3>2
  <2> HIDE DEF sl1
  <2>3. /\ slots' \in [Slots -> Slot]
        /\ ~Foreign(sl1, r.fileHandle, c) => Touches(c, sl1, slots')
        /\ \A s \in Slots : slots'[s] \in {sl1[s], Free}
        /\ r.fileHandle # NULL => slots'[r.fileHandle] = Free
    BY <1>0, <1>1, <2>1, <2>2
  <2>4. ~struck' => ~hit /\ Touches(c, sl, slots')
    BY <2>1, <2>2, <2>3, TouchesTwice
  <2>5. \A s \in Slots : slots'[s] \in {sl[s], Free}
    BY <2>2, <2>3
  <2> QED BY <2>1, <2>3, <2>4, <2>5 DEF r
<1> QED BY <1>2, <1>3

\* A request may end if the handle it does not close is on a slot not read.
LEMMA EndSaves ==
  ASSUME LeakInv, Inv', NEW c \in Contexts, NEW sl \in [Slots -> Slot], NEW hit \in BOOLEAN,
         ~hit => /\ ~struck
                 /\ Touches(c, slots, sl)
                 /\ \A s \in Slots : sl[s] \in {slots[s], Free}
                 /\ (Kept /\ Good(c, ctx[c], slots))
                      => \A s \in Holds(ctx[c]) : s = ctx[c].fileHandle \/ Unread(sl[s]),
         ResetHttpContext(c, sl, hit) \/ FreeHttpContext(c, sl, hit)
  PROVE  LeakInv'
<1>1. ctx[c] \in Context /\ slots \in [Slots -> Slot] /\ Inv
  BY DEF LeakInv, Inv, Typed
<1>2. PICK r \in {Idle, Closed} : ctx' = [ctx EXCEPT ![c] = r]
  BY <1>1, EndCloses
<1>3. /\ ~struck' => ~hit /\ Touches(c, sl, slots')
      /\ \A s \in Slots : slots'[s] \in {sl[s], Free}
      /\ ctx[c].fileHandle # NULL => slots'[ctx[c].fileHandle] = Free
  BY <1>1, EndCloses
<1>4. Known(r, slots')
  BY FilesAssumption DEF Known, Idle, Closed
<1>5. slots' \in [Slots -> Slot]
  BY DEF Inv, Typed
<1>6. ASSUME ~struck' PROVE ~struck /\ Touches(c, slots, slots')
  BY <1>1, <1>3, <1>5, <1>6, TouchesTwice
<1>7. ASSUME ~struck', Kept, Good(c, ctx[c], slots)
      PROVE  Saves(ctx[c], slots, r, slots')
  <2>1. /\ \A s \in Slots : sl[s] \in {slots[s], Free}
        /\ \A s \in Holds(ctx[c]) : s = ctx[c].fileHandle \/ Unread(sl[s])
    BY <1>3, <1>7
  <2>2. ASSUME NEW s \in Slots, ~Unread(slots'[s])
        PROVE  slots'[s] = slots[s] /\ s \notin Holds(ctx[c])
    <3>1. slots'[s] = sl[s] /\ sl[s] = slots[s]
      BY <1>3, <2>1, <2>2, FreeIsUnread
    <3>2. s # ctx[c].fileHandle
      BY <1>3, <2>2, FreeIsUnread, FilesAssumption
    <3> QED BY <2>1, <2>2, <3>1, <3>2
  <2> QED BY <2>2 DEF Saves
<1> QED BY <1>2, <1>4, <1>6, <1>7, SavingIsEnough

\* The endings close what was read: a page in its one slot, an upload in the
\* body; what they leave is a directory or a page answered with 304.
LEMMA EndingsSave ==
  ASSUME LeakInv, Inv', NEW c \in Contexts,
         \/ HeaderSent(c) \/ WEB_ReadFails(c) \/ Files_NoRoom(c)
         \/ WriteFails(c) \/ Abort(c) \/ AllSent(c)
  PROVE  LeakInv'
<1> DEFINE r == ctx[c]
<1>0. /\ slots \in [Slots -> Slot] /\ struck \in BOOLEAN /\ r \in Context /\ Shape(r)
      /\ Touches(c, slots, slots)
  BY DEF LeakInv, Inv, Typed, Touches
<1>1. ASSUME Known(r, slots), NEW s \in Holds(r)
      PROVE  s = r.fileHandle \/ Unread(slots[s])
  <2>1. CASE s = r.fp /\ r.fp # NULL
    <3>1. r.phase \in Phases
      BY <1>0 DEF Context
    <3>2. r.phase # "closed" /\ r.phase # "idle" /\ r.phase # "body"
      BY <1>0, <2>1 DEF Shape
    <3>3. r.phase = "error" \/ r.kind = Dir \/ HoldsPage(r)
      BY <1>0, <2>1, <3>1, <3>2 DEF Shape, Phases
    <3>4. CASE r.phase = "error"
      BY <1>0, <1>1, <2>1, <3>4 DEF Known, Shape, Unread
    <3>5. CASE r.kind = Dir
      BY <1>1, <2>1, <3>5 DEF Known, Unread
    <3>6. CASE HoldsPage(r)
      BY <2>1, <3>6 DEF HoldsPage
    <3> QED BY <3>3, <3>4, <3>5, <3>6
  <2>2. CASE ~ (s = r.fp /\ r.fp # NULL)
    BY <1>1, <2>2 DEF Holds
  <2> QED BY <2>1, <2>2
<1>2. Kept => Known(r, slots)
  BY DEF Kept
<1> HIDE DEF r
<1>3. CASE EndRequest(c, slots, struck) \/ FreeHttpContext(c, slots, struck)
  <2>1. ResetHttpContext(c, slots, struck) \/ FreeHttpContext(c, slots, struck)
    BY <1>3 DEF EndRequest
  <2> QED BY <1>0, <1>1, <1>2, <2>1, EndSaves DEF r
<1>4. CASE AllSent(c) /\ r.kind \in Pages
  <2> DEFINE sl == WEB_fclose(slots, r.fp)
             hit == struck \/ Foreign(slots, r.fp, c)
  <2>1. r.fp \in Slots \cup {NULL}
    BY <1>0 DEF Context
  <2>2. ResetHttpContext(c, sl, hit) \/ FreeHttpContext(c, sl, hit)
    BY <1>4 DEF AllSent, EndRequest, r
  <2>3. /\ sl \in [Slots -> Slot] /\ hit \in BOOLEAN
        /\ ~hit => ~struck /\ Touches(c, slots, sl)
        /\ \A s \in Slots : sl[s] \in {slots[s], Free}
    BY <1>0, <2>1, CloseTouches DEF WEB_fclose, Foreign
  <2>4. ASSUME Kept, NEW s \in Holds(r) PROVE s = r.fileHandle \/ Unread(sl[s])
    <3>1. s \in Slots
      BY <1>0 DEF Holds, Context
    <3> QED BY <1>1, <1>2, <2>3, <2>4, <3>1, FreeIsUnread
  <2> HIDE DEF sl, hit
  <2> QED BY <2>2, <2>3, <2>4, EndSaves DEF r
<1> QED BY <1>3, <1>4 DEF HeaderSent, WEB_ReadFails, Files_NoRoom, WriteFails, Abort, AllSent, r

\* A new connection, and a request for the listing: no slot is involved.
LEMMA QuietSaves ==
  ASSUME LeakInv, Inv', NEW c \in Contexts, OnHttpAccept(c) \/ Files_OnRequestReceived(c)
  PROVE  LeakInv'
<1> DEFINE r == [Idle EXCEPT !.phase = "header", !.kind = Dir]
<1>0. slots \in [Slots -> Slot] /\ ctx[c] \in Context /\ Shape(ctx[c])
  BY DEF LeakInv, Inv, Typed
<1>1. /\ slots' = slots /\ struck' = struck
      /\ ctx' = [ctx EXCEPT ![c] = Idle] \/ ctx' = [ctx EXCEPT ![c] = r]
      /\ ctx[c].phase \in {"closed", "idle"}
  BY DEF OnHttpAccept, Files_OnRequestReceived
<1>2. Holds(ctx[c]) = {} /\ Touches(c, slots, slots)
  BY <1>0, <1>1 DEF Holds, Shape, Touches
<1>3. Known(r, slots) /\ Known(Idle, slots)
  BY FilesAssumption DEF Known, Idle, Closed
<1>4. Saves(ctx[c], slots, r, slots) /\ Saves(ctx[c], slots, Idle, slots)
  BY <1>2 DEF Saves
<1> HIDE DEF r
<1> QED BY <1>1, <1>2, <1>3, <1>4, SavingIsEnough

\* A page that is opened is unread, an upload is held from the start.
LEMMA OpeningSaves ==
  ASSUME LeakInv, Inv', NEW c \in Contexts,
         (\E p \in Pages : WEB_RequestReceived(c, p)) \/ Upload_Start(c)
  PROVE  LeakInv'
<1> DEFINE h == FirstSlot(slots)
<1>0. /\ slots \in [Slots -> Slot] /\ ctx[c] \in Context /\ Shape(ctx[c])
      /\ ctx[c].phase = "idle"
  BY DEF LeakInv, Inv, Typed, WEB_RequestReceived, Upload_Start
<1>1. Holds(ctx[c]) = {}
  BY <1>0 DEF Holds, Shape
<1>2. ASSUME NEW f \in Pages \cup {Dir, Upload}
      PROVE  /\ h \in Slots \cup {NULL} /\ Touches(c, slots, Opened(slots, h, f, c))
             /\ \A s \in Slots : s # h => Opened(slots, h, f, c)[s] = slots[s]
             /\ h # NULL => /\ Opened(slots, h, f, c)[h].file = f
                            /\ Opened(slots, h, f, c)[h].pos = 0
  BY <1>0, OpenTouches DEF Opened
<1> HIDE DEF h
<1>3. ASSUME NEW p \in Pages, WEB_RequestReceived(c, p) PROVE LeakInv'
  <2> DEFINE sl == Opened(slots, h, p, c)
             bad == [Idle EXCEPT !.phase = "error", !.kind = p, !.fp = h]
             good == [Idle EXCEPT !.phase = "header", !.kind = p, !.fp = h, !.fileHandle = h]
  <2>1. /\ slots' = sl /\ struck' = struck
        /\ ctx' = [ctx EXCEPT ![c] = bad] \/ ctx' = [ctx EXCEPT ![c] = good]
    BY <1>3 DEF WEB_RequestReceived, h
  <2>2. Known(bad, sl) /\ Known(good, sl)
    BY <1>2, FilesAssumption DEF Known, Idle, Closed
  <2>3. Touches(c, slots, sl) /\ \A s \in Slots : s = h => Unread(sl[s])
    BY <1>2, FilesAssumption DEF Unread
  <2>4. ASSUME NEW r PROVE Saves(ctx[c], slots, r, sl)
    BY <1>1, <1>2, <2>3 DEF Saves
  <2> HIDE DEF sl, bad, good
  <2> QED BY <2>1, <2>2, <2>3, <2>4, SavingIsEnough
<1>4. CASE Upload_Start(c)
  <2> DEFINE sl == Opened(slots, h, Upload, c)
             r == IF h = NULL THEN Closed
                  ELSE [Idle EXCEPT !.phase = "body", !.kind = Upload, !.fileHandle = h]
  <2>1. slots' = sl /\ struck' = struck /\ ctx' = [ctx EXCEPT ![c] = r]
    BY <1>4 DEF Upload_Start, h
  <2>2. Known(r, sl)
    BY FilesAssumption DEF Known, Idle, Closed
  <2>3. h # NULL => h \in Holds(r)
    BY DEF Holds, Idle, Closed
  <2>4. Touches(c, slots, sl) /\ \A s \in Slots : s # h => sl[s] = slots[s]
    BY <1>2
  <2>5. h \in Slots => h # NULL
    BY FilesAssumption
  <2> HIDE DEF sl, r
  <2>6. Saves(ctx[c], slots, r, sl)
    BY <1>1, <2>3, <2>4, <2>5 DEF Saves
  <2> QED BY <2>1, <2>2, <2>4, <2>6, SavingIsEnough
<1> QED BY <1>3, <1>4

\* The end of an upload's body closes the slot it has written to.
LEMMA ReceivedSaves ==
  ASSUME LeakInv, Inv', NEW c \in Contexts, Upload_AllReceived(c)
  PROVE  LeakInv'
<1> DEFINE h == ctx[c].fileHandle
           r == [ctx[c] EXCEPT !.phase = "header"]
<1>0. /\ slots \in [Slots -> Slot] /\ ctx \in [Contexts -> Context]
      /\ ctx[c] \in Context /\ Shape(ctx[c])
  BY DEF LeakInv, Inv, Typed
<1>1. /\ slots' = WEB_fclose(slots, h) /\ ctx' = [ctx EXCEPT ![c] = r]
      /\ struck' = (struck \/ Foreign(slots, h, c))
  BY <1>0 DEF Upload_AllReceived
<1>2. /\ ctx[c].kind = Upload /\ ctx[c].fp = NULL /\ h \in Slots
      /\ r.kind = Upload /\ r.fp = NULL
  BY <1>0 DEF Upload_AllReceived, Shape, Context
<1>3. /\ slots'[h] = Free /\ \A s \in Slots : s # h => slots'[s] = slots[s]
      /\ ~struck' => ~struck /\ Touches(c, slots, slots')
  BY <1>0, <1>1, <1>2, CloseTouches, FilesAssumption DEF WEB_fclose
<1> HIDE DEF r
<1>4. Known(r, slots')
  BY <1>2, FilesAssumption DEF Known
<1>5. Saves(ctx[c], slots, r, slots')
  BY <1>2, <1>3, FreeIsUnread DEF Saves, Holds
<1> QED BY <1>1, <1>3, <1>4, <1>5, SavingIsEnough

\* A page that is being read stays held.
LEMMA ReadSaves ==
  ASSUME LeakInv, Inv', NEW c \in Contexts, WEB_ReadContent(c)
  PROVE  LeakInv'
<1> DEFINE h == ctx[c].fp
           n == Left(h)
           index == ctx[c].index + n
           ph == IF index >= PageLen[ctx[c].kind] THEN "last" ELSE "content"
           r == [ctx[c] EXCEPT !.index = index, !.phase = ph]
<1>0. /\ slots \in [Slots -> Slot] /\ ctx \in [Contexts -> Context]
      /\ ctx[c] \in Context /\ Shape(ctx[c])
  BY DEF LeakInv, Inv, Typed
<1>1. /\ slots' = WEB_fread(slots, h, n) /\ ctx' = [ctx EXCEPT ![c] = r]
      /\ struck' = (struck \/ Foreign(slots, h, c))
      /\ ctx[c].phase \in {"header", "content"} /\ ctx[c].kind \in Pages
      /\ slots[h].file # NoFile
  BY <1>0 DEF WEB_ReadContent, Sending
<1>2. h \in Slots /\ ctx[c].fileHandle = h /\ h # NULL
  BY <1>0, <1>1, FilesAssumption DEF Shape, HoldsPage
<1>3. \A s \in Slots : s # h => slots'[s] = slots[s]
  BY <1>0, <1>1 DEF WEB_fread
<1>4. ~struck' => ~struck /\ Touches(c, slots, slots')
  BY <1>1, <1>2, <1>3 DEF Foreign, Touches
<1>5. ph \in {"last", "content"}
  OBVIOUS
<1> HIDE DEF index, ph
<1>6. r.phase \in {"last", "content"} /\ r.kind = ctx[c].kind /\ r.fp = h /\ r.fileHandle = h
  BY <1>0, <1>2, <1>5 DEF Context
<1> HIDE DEF r
<1>7. Known(r, slots')
  BY <1>1, <1>6, FilesAssumption DEF Known
<1>8. h \in Holds(r) /\ \A s \in Holds(ctx[c]) : s = h
  BY <1>2, <1>6 DEF Holds
<1>9. Saves(ctx[c], slots, r, slots')
  BY <1>3, <1>8 DEF Saves
<1> QED BY <1>1, <1>4, <1>7, <1>9, SavingIsEnough

\* Directories may be left open.
LEMMA EntriesSave ==
  ASSUME LeakInv, Inv', NEW c \in Contexts, Files_First(c) \/ Files_Next(c)
  PROVE  LeakInv'
<1>0. /\ slots \in [Slots -> Slot] /\ ctx \in [Contexts -> Context]
      /\ ctx[c] \in Context /\ Shape(ctx[c])
  BY DEF LeakInv, Inv, Typed
<1>1. CASE Files_First(c)
  <2> DEFINE h == FirstSlot(slots)
             sl == Opened(slots, h, Dir, c)
             ph == IF h = NULL THEN "last" ELSE "content"
             r == [ctx[c] EXCEPT !.fp = h, !.phase = ph]
  <2>1. slots' = sl /\ struck' = struck /\ ctx' = [ctx EXCEPT ![c] = r]
    BY <1>0, <1>1 DEF Files_First
  <2>2. /\ Touches(c, slots, sl)
        /\ \A s \in Slots : s # h => sl[s] = slots[s]
        /\ h # NULL => sl[h].file = Dir
        /\ h \in Slots \cup {NULL}
    BY <1>0, OpenTouches DEF Opened
  <2>3. /\ ctx[c].fp = NULL /\ ctx[c].fileHandle = NULL /\ ctx[c].kind = Dir
    BY <1>0, <1>1, FilesAssumption DEF Files_First, Shape, HoldsPage
  <2>4. ph \in {"last", "content"}
    OBVIOUS
  <2> HIDE DEF h, sl, ph
  <2>5. r.fp = h /\ r.phase = ph
    BY <1>0 DEF Context
  <2> HIDE DEF r
  <2>6. Known(r, sl)
    BY <2>2, <2>4, <2>5 DEF Known
  <2>7. Holds(ctx[c]) = {}
    BY <2>3 DEF Holds
  <2>8. Saves(ctx[c], slots, r, sl)
    BY <2>2, <2>7, FilesAssumption DEF Saves, Unread
  <2> QED BY <2>1, <2>2, <2>6, <2>8, SavingIsEnough
<1>2. CASE Files_Next(c)
  <2> DEFINE h == ctx[c].fp
             read == WEB_readdir(slots, h, c)
             r == [ctx[c] EXCEPT !.fp = NULL, !.phase = "last"]
  <2>1. ctx[c].kind = Dir /\ ctx[c].phase = "content" /\ h \in Slots /\ ctx[c].fileHandle = NULL
    BY <1>0, <1>2, FilesAssumption DEF Files_Next, Shape, HoldsPage
  <2>2. /\ struck' = (struck \/ Foreign(slots, h, c))
        /\ \/ slots' = read /\ ctx' = ctx
           \/ slots' = WEB_fclose(read, h) /\ ctx' = [ctx EXCEPT ![c] = r]
    BY <1>0, <1>2 DEF Files_Next
  <2>3. /\ h # NULL
        /\ slots'[h].file \in {Dir, NoFile}
        /\ \A s \in Slots : s # h => slots'[s] = slots[s]
    <3>1. read[h].file = Dir /\ \A s \in Slots : s # h => read[s] = slots[s]
      BY <1>0, <2>1 DEF WEB_readdir
    <3>2. read \in [Slots -> Slot] /\ h # NULL
      BY <1>0, <2>1, ReaddirTouches, FilesAssumption
    <3> HIDE DEF read
    <3>3. WEB_fclose(read, h) = [read EXCEPT ![h] = Free]
      BY <3>2 DEF WEB_fclose
    <3>4. /\ WEB_fclose(read, h)[h].file = NoFile
          /\ \A s \in Slots : s # h => WEB_fclose(read, h)[s] = slots[s]
      BY <2>1, <3>1, <3>2, <3>3 DEF Free
    <3>5. CASE slots' = read /\ ctx' = ctx
      BY <3>1, <3>2, <3>5
    <3>6. CASE slots' = WEB_fclose(read, h) /\ ctx' = [ctx EXCEPT ![c] = r]
      BY <3>2, <3>4, <3>6
    <3> QED BY <2>2, <3>5, <3>6
  <2>4. ~struck' => ~struck /\ Touches(c, slots, slots')
    BY <2>1, <2>2, <2>3 DEF Foreign, Touches
  <2>5. \A s \in Holds(ctx[c]) : s = h
    BY <2>1 DEF Holds
  <2>6. ASSUME NEW x PROVE Saves(ctx[c], slots, x, slots')
    <3>1. \A s \in Slots : s = h => Unread(slots'[s])
      BY <2>3 DEF Unread
    <3> QED BY <2>3, <2>5, <3>1 DEF Saves
  <2>7. CASE slots' = read /\ ctx' = ctx
    <3>1. ctx' = [ctx EXCEPT ![c] = ctx[c]]
      BY <1>0, <2>7
    <3>2. Known(ctx[c], slots')
      <4>1. slots'[h].file = Dir
        BY <1>0, <2>1, <2>7 DEF WEB_readdir
      <4> QED BY <2>1, <4>1 DEF Known
    <3> QED BY <2>4, <2>6, <3>1, <3>2, SavingIsEnough
  <2>8. CASE slots' = WEB_fclose(read, h) /\ ctx' = [ctx EXCEPT ![c] = r]
    <3>1. r.fp = NULL /\ r.phase = "last"
      BY <1>0 DEF Context
    <3>2. Known(r, slots')
      BY <3>1 DEF Known
    <3> HIDE DEF r
    <3> QED BY <2>4, <2>6, <2>8, <3>2, SavingIsEnough
  <2> QED BY <2>2, <2>7, <2>8
<1> QED BY <1>1, <1>2

\* Whatever ends a request, the slots it has read from or written to are
\* closed (WEB_fclose in OnAllSent, CGI_Finish, ResetHttpContext and the last
\* byte of an upload): only directories and pages that were not read stay open.
THEOREM OnlyUnreadPagesLeakHolds == Spec => []OnlyUnreadPagesLeak
<1>1. Init => LeakInv
  <2> SUFFICES ASSUME Init, Inv PROVE LeakInv
    BY InitInv
  <2>1. \A d \in Contexts : Known(ctx[d], slots)
    BY FilesAssumption DEF Init, Known, Closed
  <2>2. \A s \in Slots : Unread(slots[s])
    BY FreeIsUnread DEF Init
  <2> QED BY <2>1, <2>2 DEF LeakInv, Kept
<1>2. LeakInv /\ Inv' /\ [Next]_vars => LeakInv'
  <2> SUFFICES ASSUME LeakInv, Inv', [Next]_vars PROVE LeakInv'
    OBVIOUS
  <2>1. CASE UNCHANGED vars
    BY <2>1 DEF vars, LeakInv, Kept
  <2>2. CASE Next
    <3>1. PICK c \in Contexts :
            \/ OnHttpAccept(c)
            \/ \E p \in Pages : WEB_RequestReceived(c, p)
            \/ Files_OnRequestReceived(c) \/ Upload_Start(c) \/ Upload_AllReceived(c)
            \/ HeaderSent(c) \/ WEB_ReadContent(c) \/ WEB_ReadFails(c)
            \/ Files_First(c) \/ Files_Next(c) \/ Files_NoRoom(c)
            \/ AllSent(c) \/ WriteFails(c) \/ Abort(c)
      BY <2>2 DEF Next
    <3> QED BY <3>1, QuietSaves, OpeningSaves, ReceivedSaves, ReadSaves, EntriesSave, EndingsSave
  <2> QED BY <2>1, <2>2
<1>3. LeakInv => OnlyUnreadPagesLeak
  BY DEF LeakInv, Kept, OnlyUnreadPagesLeak, Leaked, Handles, Holds, Unread
<1> QED BY <1>1, <1>2, <1>3, Invariance, PTL DEF Spec
=============================================================================
