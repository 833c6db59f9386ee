---------------------------- MODULE CaptureClient ----------------------------
(***************************************************************************)
(* One run of the program screenshot: capture_screen_normal,               *)
(* capture_screen_shm or capture_screen_shm_pixmap of capture.cpp, then    *)
(* XCloseDisplay.  The last two share a System V segment with the X        *)
(* server.  Their requests only go into a queue; the server serves it      *)
(* whenever it likes, and only XSync and requests with a reply wait.       *)
(*                                                                         *)
(* An X error ends the program when it next waits (the default handler of  *)
(* Xlib).  The hooks inside XShmGetImage and XShmCreatePixmap are those of *)
(* GetImageHook; here a lock image is a picture like any other, and the    *)
(* refusal of a pixmap a choice.                                           *)
(***************************************************************************)
EXTENDS Naturals, Sequences

Method == {"-s", "-shm", "-shm-pixmap"}

VARIABLES
  method,          \* the option on the command line
  hasShm,          \* the server has the extension MIT-SHM
  pc,              \* where the client is
  queue,           \* requests the server has not served yet
  error,           \* an X error is on its way to the client
  window,          \* the window is there and can be captured
  segment,         \* the segment: "none", "live" or "removed" (IPC_RMID)
  users,           \* who has attached the segment
  pixmap,          \* the server has the shared pixmap
  image,           \* the XImage: "none", "live" or "freed"
  pixels,          \* what the image shows: "blank" or "picture"
  result           \* what the capture function returns: "none" or as pixels

server == <<queue, error, pixmap>>
memory == <<segment, users>>
fixed  == <<method, hasShm>>
vars   == <<fixed, pc, server, window, memory, image, pixels, result>>

Init ==
  /\ method \in Method
  /\ hasShm \in BOOLEAN
  /\ pc = "start"
  /\ queue = <<>>
  /\ error = FALSE
  /\ window = TRUE
  /\ segment = "none"
  /\ users = {}
  /\ pixmap = FALSE
  /\ image = "none"
  /\ pixels = "blank"
  /\ result = "none"

-----------------------------------------------------------------------------
(* The segment. *)

\* The kernel frees a removed segment when its last user is gone.
Settle(seg, us) ==
  /\ users' = us
  /\ segment' = IF seg = "removed" /\ us = {} THEN "none" ELSE seg

\* The process ends; the server frees what it kept for it.
Exit(how) ==
  /\ pc' = how
  /\ Settle(segment, {})
  /\ queue' = <<>>
  /\ pixmap' = FALSE
  /\ UNCHANGED <<fixed, error, window, image, pixels, result>>

-----------------------------------------------------------------------------
(* The client. *)

\* A step of the client alone.
Local(from, to) ==
  /\ pc = from
  /\ pc' = to
  /\ UNCHANGED <<fixed, server, window>>

\* A request without a reply.
Send(from, request, to) ==
  /\ pc = from
  /\ pc' = to
  /\ queue' = Append(queue, request)
  /\ UNCHANGED <<fixed, error, pixmap, window, memory, image, pixels, result>>

\* Mutant of Wait: the client goes on.
WaitNot(from, to) ==
  /\ pc = from
  /\ Local(from, to) /\ UNCHANGED <<memory, image, pixels, result>>

\* XSync, or the wait for a reply.  An error ends the program.
Wait(from, to) ==
  /\ pc = from
  /\ queue = <<>>
  /\ \/ ~error /\ Local(from, to) /\ UNCHANGED <<memory, image, pixels, result>>
     \/ error /\ Exit("exited")

\* capture_screen_shm_pixmap looks for the extension first.
NoExtension ==
  /\ method = "-shm-pixmap" /\ ~hasShm
  /\ Local("start", "close")
  /\ UNCHANGED <<memory, image, pixels, result>>

\* XGetWindowAttributes, an X error when there is no window any more.
GetAttributes ==
  /\ method = "-shm-pixmap" => hasShm
  /\ \/ window /\ Local("start", "begin") /\ UNCHANGED <<memory, image, pixels, result>>
     \/ pc = "start" /\ ~window /\ Exit("exited")

\* XGetImage: a picture, NULL when memory is short, or an X error.
GetImage ==
  /\ method = "-s"
  /\ \/ /\ window
        /\ Local("begin", "malloc")
        /\ image' = "live" /\ pixels' = "picture"
        /\ UNCHANGED <<memory, result>>
     \/ Local("begin", "close") /\ UNCHANGED <<memory, image, pixels, result>>
     \/ pc = "begin" /\ ~window /\ Exit("exited")

\* XShmCreateImage, or NULL when memory is short.
CreateImage ==
  /\ method # "-s"
  /\ \/ /\ Local("begin", "shmget")
        /\ image' = "live"
        /\ UNCHANGED <<memory, pixels, result>>
     \/ Local("begin", "close") /\ UNCHANGED <<memory, image, pixels, result>>

\* shmget and shmat, whose results nobody looks at: both succeed, or shmat
\* fails and the segment is there with nobody attached, or there is none.
GetSegment ==
  /\ Local("shmget", "attach")
  /\ \/ segment' = "live" /\ users' \in {{"client"}, {}}
     \/ UNCHANGED memory
  /\ UNCHANGED <<image, pixels, result>>

\* Without the extension a request of MIT-SHM is not sent.
SendShm(from, request, to) ==
  \/ hasShm /\ Send(from, request, to)
  \/ ~hasShm /\ Local(from, to) /\ UNCHANGED <<memory, image, pixels, result>>

Attach     == SendShm("attach", "attach", "sync_attach")
\* Mutant of SyncAttach: no XSync.
SyncAttachNot == WaitNot("sync_attach", IF method = "-shm" THEN "get" ELSE "create")

SyncAttach == Wait("sync_attach", IF method = "-shm" THEN "get" ELSE "create")
ShmGetImage == SendShm("get", "get", IF hasShm THEN "reply" ELSE "malloc")
Reply      == Wait("reply", "malloc")

\* Mutant of Refused: returns without giving the segment back.
RefusedReturns ==
  /\ Local("create", "close")
  /\ image' = "freed"
  /\ UNCHANGED <<memory, pixels, result>>

\* XShmCreatePixmap returns None while a window is locked.
Refused ==
  /\ Local("create", "detach")
  /\ image' = "freed"
  /\ UNCHANGED <<memory, pixels, result>>

CreatePixmap == Send("create", "create", "sync_create")
SyncCreate   == Wait("sync_create", "gc")
CreateGC     == Send("gc", "gc", "sync_gc")
SyncGC       == Wait("sync_gc", "copy")
CopyArea     == Send("copy", "copy", "sync_copy")

\* Mutant of SyncCopy: no XSync.
SyncCopyNot == WaitNot("sync_copy", "malloc")

SyncCopy == Wait("sync_copy", "malloc")

\* malloc of the result.  When it fails the image is destroyed here, and in
\* the functions with a segment once more at the end.
Malloc ==
  \/ Local("malloc", "read") /\ UNCHANGED <<memory, image, pixels, result>>
  \/ /\ Local("malloc", IF method = "-s" THEN "close" ELSE "destroy")
     /\ image' = "freed"
     /\ UNCHANGED <<memory, pixels, result>>

\* get_pixel for every pixel; an image without its segment has no memory.
CopyOut ==
  \/ /\ method = "-s" \/ "client" \in users
     /\ Local("read", "destroy")
     /\ result' = pixels
     /\ UNCHANGED <<memory, image, pixels>>
  \/ pc = "read" /\ method # "-s" /\ "client" \notin users /\ Exit("crashed")

\* destroy_image; what freeing it twice does is undefined.
Destroy ==
  \/ /\ Local("destroy", CASE method = "-s"   -> "close"
                           [] method = "-shm" -> "detach"
                           [] OTHER           -> "free_pixmap")
     /\ image' = "freed"
     /\ UNCHANGED <<memory, pixels, result>>
  \/ pc = "destroy" /\ image = "freed" /\ Exit("crashed")

FreePixmap == Send("free_pixmap", "free_pixmap", "detach")
Detach     == SendShm("detach", "detach", "shmdt")

Shmdt ==
  /\ Local("shmdt", "rmid")
  /\ Settle(segment, users \ {"client"})
  /\ UNCHANGED <<image, pixels, result>>

\* shmctl(IPC_RMID).
Rmid ==
  /\ Local("rmid", "close")
  /\ Settle(IF segment = "live" THEN "removed" ELSE segment, users)
  /\ UNCHANGED <<image, pixels, result>>

\* XCloseDisplay waits for the server, too.
Close ==
  /\ pc = "close" /\ queue = <<>>
  /\ IF error THEN Exit("exited") ELSE Exit("closed")

Client ==
  \/ NoExtension \/ GetAttributes \/ GetImage
  \/ CreateImage \/ GetSegment \/ Attach \/ SyncAttach \/ ShmGetImage \/ Reply
  \/ Refused \/ CreatePixmap \/ SyncCreate \/ CreateGC \/ SyncGC \/ CopyArea \/ SyncCopy
  \/ Malloc \/ CopyOut \/ Destroy \/ FreePixmap \/ Detach \/ Shmdt \/ Rmid \/ Close

-----------------------------------------------------------------------------
(* The X server. *)

\* The next request is served, or refused with an error.
Serve(request, granted) ==
  /\ queue # <<>> /\ Head(queue) = request
  /\ queue' = Tail(queue)
  /\ error' = (error \/ ~granted)
  /\ UNCHANGED <<fixed, pc, window, image, result>>

ServeAttach ==
  /\ Serve("attach", segment # "none")
  /\ users' = IF segment = "none" THEN users ELSE users \cup {"server"}
  /\ UNCHANGED <<segment, pixmap, pixels>>

ServeGet ==
  LET granted == "server" \in users /\ window
  IN  /\ Serve("get", granted)
      /\ pixels' = IF granted THEN "picture" ELSE pixels
      /\ UNCHANGED <<memory, pixmap>>

\* The server need not support shared pixmaps; the client does not ask.
ServeCreate ==
  /\ \/ "server" \in users /\ Serve("create", TRUE) /\ pixmap' = TRUE
     \/ Serve("create", FALSE) /\ UNCHANGED pixmap
  /\ UNCHANGED <<memory, pixels>>

ServeGC ==
  /\ Serve("gc", window)
  /\ UNCHANGED <<memory, pixmap, pixels>>

ServeCopy ==
  LET granted == pixmap /\ window
  IN  /\ Serve("copy", granted)
      /\ pixels' = IF granted THEN "picture" ELSE pixels
      /\ UNCHANGED <<memory, pixmap>>

ServeFreePixmap ==
  /\ Serve("free_pixmap", pixmap)
  /\ pixmap' = FALSE
  /\ UNCHANGED <<memory, pixels>>

\* The pixmap, which would keep the segment attached, has been freed before.
ServeDetach ==
  /\ Serve("detach", "server" \in users)
  /\ Settle(segment, users \ {"server"})
  /\ UNCHANGED <<pixmap, pixels>>

\* Some other program closes the window.
CloseWindow ==
  /\ window
  /\ window' = FALSE
  /\ UNCHANGED <<fixed, pc, server, memory, image, pixels, result>>

Server ==
  \/ ServeAttach \/ ServeGet \/ ServeCreate \/ ServeGC \/ ServeCopy
  \/ ServeFreePixmap \/ ServeDetach
  \/ CloseWindow

Next == Client \/ Server

Spec == Init /\ [][Next]_vars

-----------------------------------------------------------------------------
(* Properties. *)

Label ==
  {"start", "begin", "shmget", "attach", "sync_attach", "get", "reply", "create", "sync_create",
   "gc", "sync_gc", "copy", "sync_copy", "malloc", "read", "destroy", "free_pixmap", "detach",
   "shmdt", "rmid", "close", "closed", "exited", "crashed"}

Request == {"attach", "get", "create", "gc", "copy", "free_pixmap", "detach"}

\* Every variable has its type, and the client is never more than two requests
\* ahead of the server.
TypeOK ==
  /\ method \in Method /\ hasShm \in BOOLEAN
  /\ pc \in Label
  /\ queue \in Seq(Request) /\ Len(queue) <= 2
  /\ error \in BOOLEAN /\ pixmap \in BOOLEAN /\ window \in BOOLEAN
  /\ segment \in {"none", "live", "removed"}
  /\ users \subseteq {"client", "server"}
  /\ image \in {"none", "live", "freed"}
  /\ pixels \in {"blank", "picture"}
  /\ result \in {"none", "blank", "picture"}

\* When the client reads the pixels, the server has written them: it neither
\* reads before the server has copied nor after the server has refused to.
PictureArrived == pc = "read" /\ (hasShm \/ method = "-s") => pixels = "picture"

\* The client does not give the segment away before the server has attached it.
AttachedBeforeRemoved ==
  pc \in {"rmid", "close"} => \A i \in 1 .. Len(queue) : queue[i] # "attach"

\* A run that reaches its regular end leaves no segment behind and no image,
\* on every path: segments outlive the processes that made them.
NothingLeft == pc = "closed" => segment = "none" /\ image # "live"
=============================================================================
