------------------------------ MODULE WebFiles ------------------------------
(***************************************************************************)
(* The table of open files, g_FileOpened of http_fs.c, and the request     *)
(* handlers that open, read and close its slots: pages (http_web.c, used   *)
(* by /app, /auth and the form), the directory listing (cgi_files.c) and   *)
(* the upload (cgi_upload.c).  Every context of http_core.c runs one       *)
(* request at a time; the contexts share the table, and between two        *)
(* callbacks of one context the callbacks of all others may run.  One      *)
(* action is what one callback does to the table.                          *)
(*                                                                         *)
(* A context may hold a slot twice: in SSI_Context._fp, inside the memory  *)
(* of the response that every reset clears, and in _fileHandle, which      *)
(* resets and frees close.                                                 *)
(***************************************************************************)
EXTENDS Naturals

CONSTANTS
  Contexts,                  \* the context pool
  NumSlots,                  \* MAX_FILES
  Pages,                     \* the files of the web root
  PageLen,                   \* their lengths, in blocks of one read
  DirLen,                    \* entries of the listing, fakeFiles
  NULL, NoFile, Dir, Upload  \* no handle, and what else pFileInfo may be

Slots == 1..NumSlots

ASSUME FilesAssumption ==
  /\ NumSlots \in Nat
  /\ PageLen \in [Pages -> Nat \ {0}]
  /\ DirLen \in Nat \ {0}
  /\ NULL \notin Slots \cup Contexts \cup Pages \cup {NoFile, Dir, Upload}
  /\ NoFile \notin Pages \cup {Dir, Upload} /\ Dir \notin Pages \cup {Upload} /\ Upload \notin Pages

VARIABLES
  slots,                     \* g_FileOpened: pFileInfo, lReadPos, and who opened it
  ctx,                       \* the request of each context
  struck                     \* history: a handle was closed or moved that another context opened

vars == <<slots, ctx, struck>>

Free == [file |-> NoFile, pos |-> 0, owner |-> NULL]

\* A context without a connection, and one between two requests.
Closed == [phase |-> "closed", kind |-> NULL, fp |-> NULL, fileHandle |-> NULL, index |-> 0]
Idle == [Closed EXCEPT !.phase = "idle"]

Phases == {"closed", "idle", "body", "header", "error", "content", "last"}
Kinds == Pages \cup {Dir, Upload, NULL}
Context == [phase : Phases, kind : Kinds, fp : Slots \cup {NULL},
            fileHandle : Slots \cup {NULL}, index : Nat]

Init ==
  /\ slots = [s \in Slots |-> Free]
  /\ ctx = [c \in Contexts |-> Closed]
  /\ struck = FALSE

-----------------------------------------------------------------------------
(* http_fs.c.                                                              *)

FreeSlots(sl) == {s \in Slots : sl[s].file = NoFile}

\* Variant: the last slot of the table is taken without a look at it.
FirstSlotUnchecked(sl) ==
  CHOOSE s \in Slots : \A t \in FreeSlots(sl) \cup {NumSlots} : s <= t

\* The first slot whose pFileInfo is NULL.
FirstSlot(sl) ==
  IF FreeSlots(sl) = {} THEN NULL
  ELSE CHOOSE s \in FreeSlots(sl) : \A t \in FreeSlots(sl) : s <= t

\* WEB_fopen and WEB_firstdir, once a slot h is found.
Opened(sl, h, file, c) ==
  IF h = NULL THEN sl ELSE [sl EXCEPT ![h] = [file |-> file, pos |-> 0, owner |-> c]]

\* WEB_fclose and WEB_closedir.
WEB_fclose(sl, h) == IF h = NULL THEN sl ELSE [sl EXCEPT ![h] = Free]

\* WEB_readdir: the next entry, whatever the slot held before.
WEB_readdir(sl, h, c) ==
  [sl EXCEPT ![h] = [file |-> Dir, pos |-> sl[h].pos + 1, owner |-> c]]

\* WEB_fread of n blocks.
WEB_fread(sl, h, n) == [sl EXCEPT ![h].pos = @ + n]

\* Handle h of context c names a slot that another context has opened.
Foreign(sl, h, c) == h # NULL /\ sl[h].file # NoFile /\ sl[h].owner # c

-----------------------------------------------------------------------------
(* The end of a request and of a connection.                               *)

\* Variant: the handle of the request is forgotten, not closed.
ResetKeepsFile(c, sl, hit) ==
  /\ slots' = sl
  /\ struck' = hit
  /\ ctx' = [ctx EXCEPT ![c] = Idle]

\* ResetHttpContext: the response, and with it _fp, is cleared and the handle
\* closed.  sl and hit are what the callback has made of slots and struck.
ResetHttpContext(c, sl, hit) ==
  /\ slots' = WEB_fclose(sl, ctx[c].fileHandle)
  /\ struck' = (hit \/ Foreign(sl, ctx[c].fileHandle, c))
  /\ ctx' = [ctx EXCEPT ![c] = Idle]

\* CGI_Finish -> WEB_Finished, of the page handlers only.
Finished(c, sl) == IF ctx[c].kind \in Pages THEN WEB_fclose(sl, ctx[c].fp) ELSE sl

\* FreeHttpContext, of CloseHttpContext and OnHttpError.
FreeHttpContext(c, sl, hit) ==
  LET finished == Finished(c, sl)
  IN /\ slots' = WEB_fclose(finished, ctx[c].fileHandle)
     /\ struck' = \/ hit
                  \/ ctx[c].kind \in Pages /\ Foreign(sl, ctx[c].fp, c)
                  \/ Foreign(finished, ctx[c].fileHandle, c)
     /\ ctx' = [ctx EXCEPT ![c] = Closed]

\* REQUEST_END: reset when the connection is kept alive, else closed.
EndRequest(c, sl, hit) == ResetHttpContext(c, sl, hit) \/ FreeHttpContext(c, sl, hit)

-----------------------------------------------------------------------------
(* The callbacks.                                                          *)

\* OnHttpAccept
OnHttpAccept(c) ==
  /\ ctx[c].phase = "closed"
  /\ ctx' = [ctx EXCEPT ![c] = Idle]
  /\ UNCHANGED <<slots, struck>>

\* Variant: the flag of gzip files is read and the file not rewound.
PageNotRewound(c, p) ==
  LET h == FirstSlot(slots)
  IN /\ ctx[c].phase = "idle"
     /\ h # NULL
     /\ slots' = [slots EXCEPT ![h] = [file |-> p, pos |-> 1, owner |-> c]]
     /\ ctx' = [ctx EXCEPT ![c] = [Idle EXCEPT !.phase = "header", !.kind = p,
                                               !.fp = h, !.fileHandle = h]]
     /\ UNCHANGED struck

\* The headers of a request for a page: WEB_RequestReceived.  No slot is left
\* (404), or the file has not been modified (304), or it will be sent.
WEB_RequestReceived(c, p) ==
  LET h == FirstSlot(slots)
  IN /\ ctx[c].phase = "idle"
     /\ slots' = Opened(slots, h, p, c)
     /\ \/ ctx' = [ctx EXCEPT ![c] = [Idle EXCEPT !.phase = "error", !.kind = p, !.fp = h]]
        \/ /\ h # NULL
           /\ ctx' = [ctx EXCEPT ![c] = [Idle EXCEPT !.phase = "header", !.kind = p,
                                                     !.fp = h, !.fileHandle = h]]
     /\ UNCHANGED struck

\* Files_OnRequestReceived: a directory is opened and closed again at once.
Files_OnRequestReceived(c) ==
  /\ ctx[c].phase = "idle"
  /\ ctx' = [ctx EXCEPT ![c] = [Idle EXCEPT !.phase = "header", !.kind = Dir]]
  /\ UNCHANGED <<slots, struck>>

\* Upload_OnHeadersReceived: Upload_Start, and close on a failure.
Upload_Start(c) ==
  LET h == FirstSlot(slots)
  IN /\ ctx[c].phase = "idle"
     /\ slots' = Opened(slots, h, Upload, c)
     /\ ctx' = [ctx EXCEPT ![c] = IF h = NULL THEN Closed
                                  ELSE [Idle EXCEPT !.phase = "body", !.kind = Upload,
                                                    !.fileHandle = h]]
     /\ UNCHANGED struck

\* The last byte of the body: the file is closed, the handle kept.
Upload_AllReceived(c) ==
  /\ ctx[c].phase = "body"
  /\ slots' = WEB_fclose(slots, ctx[c].fileHandle)
  /\ struck' = (struck \/ Foreign(slots, ctx[c].fileHandle, c))
  /\ ctx' = [ctx EXCEPT ![c].phase = "header"]

\* The header of an error, or of a response without content, is acknowledged.
HeaderSent(c) ==
  /\ \/ ctx[c].phase = "error"
     \/ ctx[c].phase = "header" /\ ctx[c].kind = Upload
  /\ EndRequest(c, slots, struck)

Sending(c) == ctx[c].phase \in {"header", "content"}

\* Pages and their slots: what is left in the file the slot is open on.
Left(s) == IF slots[s].file \in Pages /\ slots[s].pos >= PageLen[slots[s].file] THEN 0 ELSE 1

\* WEB_ReadContent of the next block, by an acknowledgement or a poll.  The end
\* of the file is recognised by the length asked for when it was opened.
WEB_ReadContent(c) ==
  LET h == ctx[c].fp
      index == ctx[c].index + Left(h)
  IN /\ Sending(c) /\ ctx[c].kind \in Pages
     /\ slots[h].file # NoFile
     /\ slots' = WEB_fread(slots, h, Left(h))
     /\ struck' = (struck \/ Foreign(slots, h, c))
     /\ ctx' = [ctx EXCEPT ![c].index = index,
                           ![c].phase = IF index >= PageLen[ctx[c].kind]
                                        THEN "last" ELSE "content"]

\* WEB_fread fails, the slot is closed: result -500 and the callback closes.
WEB_ReadFails(c) ==
  /\ Sending(c) /\ ctx[c].kind \in Pages
  /\ slots[ctx[c].fp].file = NoFile
  /\ FreeHttpContext(c, slots, struck)

\* Files_ReadOneFileInfo at stage 0: the directory is opened.
Files_First(c) ==
  LET h == FirstSlot(slots)
  IN /\ ctx[c].phase = "header" /\ ctx[c].kind = Dir
     /\ slots' = Opened(slots, h, Dir, c)
     /\ ctx' = [ctx EXCEPT ![c].fp = h,
                           ![c].phase = IF h = NULL THEN "last" ELSE "content"]
     /\ UNCHANGED struck

\* Variant: the empty entry behind the last fake file is taken for one more.
Files_NextOffByOne(c) ==
  LET h == ctx[c].fp
      read == WEB_readdir(slots, h, c)
  IN /\ ctx[c].phase = "content" /\ ctx[c].kind = Dir
     /\ struck' = (struck \/ Foreign(slots, h, c))
     /\ \/ /\ read[h].pos <= DirLen
           /\ slots' = read
           /\ UNCHANGED ctx
        \/ /\ read[h].pos > DirLen
           /\ slots' = WEB_fclose(read, h)
           /\ ctx' = [ctx EXCEPT ![c].fp = NULL, ![c].phase = "last"]

\* Files_ReadOneFileInfo at a later stage: the next entry, or the end.
Files_Next(c) ==
  LET h == ctx[c].fp
      read == WEB_readdir(slots, h, c)
  IN /\ ctx[c].phase = "content" /\ ctx[c].kind = Dir
     /\ struck' = (struck \/ Foreign(slots, h, c))
     /\ \/ /\ read[h].pos < DirLen
           /\ slots' = read
           /\ UNCHANGED ctx
        \/ /\ read[h].pos >= DirLen
           /\ slots' = WEB_fclose(read, h)
           /\ ctx' = [ctx EXCEPT ![c].fp = NULL, ![c].phase = "last"]

\* What is left in the send buffer leaves no room for an entry: -1, no content.
Files_NoRoom(c) ==
  /\ Sending(c) /\ ctx[c].kind = Dir
  /\ EndRequest(c, slots, struck)

\* The last bytes are acknowledged: OnAllSent of the handler, then the end.
AllSent(c) ==
  /\ ctx[c].phase = "last"
  /\ IF ctx[c].kind \in Pages
     THEN EndRequest(c, WEB_fclose(slots, ctx[c].fp),
                     struck \/ Foreign(slots, ctx[c].fp, c))
     ELSE EndRequest(c, slots, struck)

\* altcp_write fails: the request ends at once, without OnAllSent.
WriteFails(c) ==
  /\ ctx[c].phase \in {"header", "error", "content", "last"}
  /\ EndRequest(c, slots, struck)

\* OnHttpError, a timeout, a FIN between requests or in the body, HttpdStop.
Abort(c) ==
  /\ ctx[c].phase # "closed"
  /\ FreeHttpContext(c, slots, struck)

-----------------------------------------------------------------------------
Next ==
  \E c \in Contexts :
    \/ OnHttpAccept(c)
    \/ \E p \in Pages : WEB_RequestReceived(c, p)
    \/ Files_OnRequestReceived(c) \/ Upload_Start(c) \/ Upload_AllReceived(c)
    \/ HeaderSent(c) \/ WEB_ReadContent(c) \/ WEB_ReadFails(c)
    \/ Files_First(c) \/ Files_Next(c) \/ Files_NoRoom(c)
    \/ AllSent(c) \/ WriteFails(c) \/ Abort(c)

Spec == Init /\ [][Next]_vars

-----------------------------------------------------------------------------
(* Properties.                                                             *)

\* The handles with which a context will still read, write or close: all but
\* the one of an upload that is complete.
Handles(c) ==
  {ctx[c].fp, IF ctx[c].kind = Upload /\ ctx[c].phase # "body" THEN NULL
              ELSE ctx[c].fileHandle} \ {NULL}

\* Types; read positions stay inside the file or the table of fake files.
TypeOK ==
  /\ slots \in [Slots -> [file : Pages \cup {NoFile, Dir, Upload}, pos : Nat,
                          owner : Contexts \cup {NULL}]]
  /\ ctx \in [Contexts -> Context]
  /\ struck \in BOOLEAN
  /\ ~struck => \A s \in Slots : slots[s].file = Dir => slots[s].pos < DirLen

\* A handle that is still used names a slot this context has opened and nobody
\* has closed: no two contexts ever read, write or close the same slot, until a
\* completed upload closes its stale handle.
HandlesOwned ==
  ~struck => \A c \in Contexts : \A h \in Handles(c) :
               slots[h].file # NoFile /\ slots[h].owner = c

\* What a response sends is the page it was asked for, from where it stopped:
\* the slot is open on that page, at the index the response has reached.
ReadsItsPage ==
  ~struck => \A c \in Contexts :
    Sending(c) /\ ctx[c].kind \in Pages =>
      LET s == slots[ctx[c].fp]
      IN s.file = ctx[c].kind /\ s.pos = ctx[c].index

Leaked(s) == slots[s].file # NoFile /\ \A c \in Contexts : s \notin Handles(c)

\* A slot that content was read from, or written to, is given back whatever ends
\* the request: only directories and pages answered with 304 are ever left open.
OnlyUnreadPagesLeak ==
  ~struck => \A s \in Slots :
    Leaked(s) => \/ slots[s].file = Dir
                 \/ slots[s].file \in Pages /\ slots[s].pos = 0

\* "Called when every request finished" (ResetHttpContext, http_core.c:260): no
\* slot stays open without a request that will close it.
NoSlotLeaked == \A s \in Slots : ~Leaked(s)

\* No callback reads, moves or closes a slot that another context has opened.
NeverStruck == ~struck
=============================================================================
