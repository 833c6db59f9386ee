---------------------------- MODULE GetImageHook ----------------------------
(***************************************************************************)
(* The X client side of the protection: the patched XGetImage of libX11    *)
(* (GetImage.c) and the patched XShmGetImage and XShmCreatePixmap of       *)
(* libXext (XShm.c), with the administrator who locks windows and changes  *)
(* the lock image meanwhile.                                               *)
(*                                                                         *)
(* The table of locked windows is LockRegistry: one command or one query   *)
(* is one step, which LockImages is checked to implement.  Each library    *)
(* keeps the lock image it loaded from /etc/lock.image, and the number     *)
(* under which it did, in static variables: one copy in each process and   *)
(* library, shared by the threads of the process.                          *)
(*                                                                         *)
(* The file is rewritten in place (png2image), so a reader may find half   *)
(* of it.  Its states are numbered: 0 is no file, an odd number a file     *)
(* that is being written, the even number after it the same file complete. *)
(* An image in memory is known by the state it shows, odd when it is torn, *)
(* and a picture by what the caller sees in it.                            *)
(***************************************************************************)
EXTENDS Integers

CONSTANTS
  Thread,          \* threads of X clients
  Process,         \* X clients
  ProcessOf,       \* ProcessOf[t]: the client thread t runs in
  CallsOf,         \* CallsOf[t]: the calls thread t makes
  AdminCommands,   \* the commands of lock_window in use
  QueryMayFail,    \* isProhibitScreenshot may fail, and then answers zero
  Windows,         \* window ids
  MaxLockImages,   \* MAX_LOCK_IMAGES_SIZE
  IdMod,           \* 2^32, the width of lock_image_id
  MaxVersion       \* bound: the last state of /etc/lock.image, two for each rewrite

ImageCalls == {"XGetImage", "XShmGetImage"}
Call       == ImageCalls \cup {"pixmap"}       \* capture_screen_shm_pixmap
Library    == {"libX11", "libXext"}

ASSUME HookAssumption ==
  /\ ProcessOf \in [Thread -> Process]
  /\ CallsOf \in [Thread -> SUBSET Call]
  /\ QueryMayFail \in BOOLEAN
  /\ MaxLockImages \in Nat \ {0}
  /\ IdMod \in Nat \ {0}
  /\ MaxVersion \in Nat

VARIABLES
  held, used, imageId, answer,   \* the table, see LockRegistry
  file,            \* the state of /etc/lock.image
  announced,       \* the last complete state at the last changed_bg (history)
  image,           \* image[c]: lock_image of copy c: a state, None or Freed
  imageIdCurr,     \* imageIdCurr[c]: lock_image_id_curr of copy c
  pc,              \* pc[t]: where thread t is in its call
  call,            \* call[t]: the call it makes
  header,          \* header[t]: the state of the file whose first part it has read
  picture,         \* picture[t]: what its image shows: a state, or see below
  lockedSince,     \* lockedSince[t]: never unlocked since the pixels were taken (history)
  due,             \* due[t]: announced when the table was asked (history)
  failed,          \* failed[t]: isProhibitScreenshot failed in this call (history)
  loadFailed       \* loadFailed[t]: the file was there and fopen failed in this call (history)

NoAnswer == [count |-> -1, id |-> -1]

Registry == INSTANCE LockRegistry

registry == <<held, used, imageId, answer>>
cache    == <<image, imageIdCurr>>
history  == <<lockedSince, due, failed, loadFailed>>
thread   == <<pc, call, header, picture, history>>
vars     == <<registry, file, announced, cache, thread>>

None  == 0           \* lock_image = NULL
Freed == -1          \* lock_image points to freed memory

BackgroundOnly == 0  \* black, no lock image could be loaded
Real           == -1 \* the screen
NoPicture      == -2

Copy == Process \X Library
CopyOf(t) == <<ProcessOf[t], IF call[t] = "XGetImage" THEN "libX11" ELSE "libXext">>

Init ==
  /\ Registry!Init
  /\ file = 0
  /\ announced = 0
  /\ image = [c \in Copy |-> None]
  /\ imageIdCurr = [c \in Copy |-> 0]
  /\ pc = [t \in Thread |-> "idle"]
  /\ call = [t \in Thread |-> "XGetImage"]
  /\ header = [t \in Thread |-> 0]
  /\ picture = [t \in Thread |-> NoPicture]
  /\ lockedSince = [t \in Thread |-> FALSE]
  /\ due = [t \in Thread |-> 0]
  /\ failed = [t \in Thread |-> FALSE]
  /\ loadFailed = [t \in Thread |-> FALSE]

-----------------------------------------------------------------------------
(* The administrator. *)

LockTable ==
  /\ "lock" \in AdminCommands
  /\ \E w \in Windows : Registry!Register(w)

UnlockTable ==
  /\ "unlock" \in AdminCommands
  /\ \E w \in Windows : Registry!Deregister(w)

ResetTable ==
  /\ "reset" \in AdminCommands
  /\ Registry!Reset

\* Bound: the image number does not wrap.
ChangedBg ==
  /\ "changed_bg" \in AdminCommands
  /\ imageId + 1 < IdMod
  /\ Registry!ChangeImage

Admin ==
  /\ \/ (LockTable \/ UnlockTable \/ ResetTable) /\ UNCHANGED announced
     \/ ChangedBg /\ announced' = file - (file % 2)
  /\ lockedSince' = [t \in Thread |-> lockedSince[t] /\ used' > 0]
  /\ UNCHANGED <<file, cache, pc, call, header, picture, due, failed, loadFailed>>

\* png2image truncates the file and begins to write, or has written it all.
ReplaceImage ==
  /\ file < MaxVersion
  /\ file' = file + 1
  /\ UNCHANGED <<registry, announced, cache, thread>>

-----------------------------------------------------------------------------
(* One call of one thread. *)

Goto(t, label) == pc' = [pc EXCEPT ![t] = label]

Begin(t, c) ==
  /\ pc[t] = "idle"
  /\ c \in CallsOf[t]
  /\ Goto(t, IF c = "pixmap" THEN "pixmap_check" ELSE "capture")
  /\ call' = [call EXCEPT ![t] = c]
  /\ lockedSince' = [lockedSince EXCEPT ![t] = used > 0]
  /\ UNCHANGED <<registry, file, announced, cache, header, picture, due, failed, loadFailed>>

\* The X server copies the pixels into the client: _XGetImage, _XShmGetImage,
\* or XCopyArea into a pixmap that shares the client's memory.
Take(t) ==
  /\ picture' = [picture EXCEPT ![t] = Real]
  /\ lockedSince' = [lockedSince EXCEPT ![t] = used > 0]

\* The request for the pixels comes first; when it fails the call is over.
Capture(t) ==
  /\ pc[t] = "capture"
  /\ \/ Take(t) /\ Goto(t, "check")
     \/ Goto(t, "done") /\ UNCHANGED <<picture, lockedSince>>
  /\ UNCHANGED <<registry, file, announced, cache, call, header, due, failed, loadFailed>>

\* isProhibitScreenshot, with the answer it gives at one instant.
Ask(t, prohibited, allowed) ==
  /\ Registry!Answer(t)
  /\ due' = [due EXCEPT ![t] = announced]
  /\ Goto(t, IF used > 0 THEN prohibited ELSE allowed)
  /\ UNCHANGED failed

AskFails(t, allowed) ==
  /\ QueryMayFail
  /\ failed' = [failed EXCEPT ![t] = TRUE]
  /\ Goto(t, allowed)
  /\ UNCHANGED <<registry, due>>

Check(t) ==
  /\ pc[t] = "check"
  /\ Ask(t, "test", "done") \/ AskFails(t, "done")
  /\ UNCHANGED <<file, announced, cache, call, header, picture, lockedSince, loadFailed>>

\* Mutant of Test: the numbers are compared, whether there is an image or not.
TestNumberOnly(t) ==
  /\ pc[t] = "test"
  /\ LET c == CopyOf(t)
     IN  Goto(t, IF imageIdCurr[c] = answer[t].id THEN "paint"
                 ELSE IF image[c] # None THEN "free"
                 ELSE "load")
  /\ UNCHANGED <<registry, file, announced, cache, call, header, picture, history>>

\* Is the lock image at hand the one the table names?
Test(t) ==
  /\ pc[t] = "test"
  /\ LET c == CopyOf(t)
     IN  Goto(t, IF image[c] = None THEN "load"
                 ELSE IF imageIdCurr[c] # answer[t].id THEN "free"
                 ELSE "paint")
  /\ UNCHANGED <<registry, file, announced, cache, call, header, picture, history>>

Free(t) ==
  /\ pc[t] = "free"
  /\ image' = [image EXCEPT ![CopyOf(t)] = Freed]
  /\ Goto(t, "load")
  /\ UNCHANGED <<registry, file, announced, imageIdCurr, call, header, picture, history>>

\* loadImage cannot open the file: there is none, or fopen fails for another
\* reason.  lock_image becomes NULL, and lock_image_id_curr is set all the same.
NoImage(t) ==
  /\ image' = [image EXCEPT ![CopyOf(t)] = None]
  /\ loadFailed' = [loadFailed EXCEPT ![t] = file # 0]
  /\ Goto(t, "set_id")
  /\ UNCHANGED header

\* loadImage opens the file and reads the first part.
Open(t) ==
  /\ pc[t] = "load"
  /\ \/ NoImage(t)
     \/ /\ file # 0
        /\ header' = [header EXCEPT ![t] = file]
        /\ Goto(t, "read")
        /\ UNCHANGED <<image, loadFailed>>
  /\ UNCHANGED <<registry, file, announced, imageIdCurr, call, picture, lockedSince, due, failed>>

\* The rest is what the file holds by now: parts of two states make a torn image.
Read(t) ==
  /\ pc[t] = "read"
  /\ image' = [image EXCEPT ![CopyOf(t)] =
                  IF header[t] = file THEN file ELSE file - 1 + (file % 2)]
  /\ header' = [header EXCEPT ![t] = 0]
  /\ Goto(t, "set_id")
  /\ UNCHANGED <<registry, file, announced, imageIdCurr, call, picture, history>>

\* Mutant of SetId: counts the changes it has seen.
SetIdCounts(t) ==
  /\ pc[t] = "set_id"
  /\ imageIdCurr' = [imageIdCurr EXCEPT ![CopyOf(t)] = @ + 1]
  /\ Goto(t, "paint")
  /\ UNCHANGED <<registry, file, announced, image, call, header, picture, history>>

SetId(t) ==
  /\ pc[t] = "set_id"
  /\ imageIdCurr' = [imageIdCurr EXCEPT ![CopyOf(t)] = answer[t].id]
  /\ Goto(t, "paint")
  /\ UNCHANGED <<registry, file, announced, image, call, header, picture, history>>

\* Mutant of Paint: without a lock image nothing is painted.
PaintNeedsImage(t) ==
  /\ pc[t] = "paint"
  /\ picture' = [picture EXCEPT ![t] = IF image[CopyOf(t)] = None THEN @ ELSE image[CopyOf(t)]]
  /\ Goto(t, "done")
  /\ UNCHANGED <<registry, file, announced, cache, call, header, history>>

\* Every pixel is overwritten (see LockImagePaint).  What freed memory shows
\* is anything.
Paint(t) ==
  /\ pc[t] = "paint"
  /\ \E v \in 0 .. MaxVersion :
       /\ image[CopyOf(t)] # Freed => v = image[CopyOf(t)]
       /\ picture' = [picture EXCEPT ![t] = v]
  /\ Goto(t, "done")
  /\ UNCHANGED <<registry, file, announced, cache, call, header, history>>

\* Mutant of PixmapCheck: the answer is not looked at.
PixmapCheckIgnored(t) ==
  /\ pc[t] = "pixmap_check"
  /\ Ask(t, "create", "create") \/ AskFails(t, "create")
  /\ UNCHANGED <<file, announced, cache, call, header, picture, lockedSince, loadFailed>>

\* XShmCreatePixmap is refused when a window is locked.
PixmapCheck(t) ==
  /\ pc[t] = "pixmap_check"
  /\ Ask(t, "done", "create") \/ AskFails(t, "create")
  /\ UNCHANGED <<file, announced, cache, call, header, picture, lockedSince, loadFailed>>

\* The pixmap exists; the client copies the window into it, whenever it likes.
CopyArea(t) ==
  /\ pc[t] = "create"
  /\ Take(t)
  /\ Goto(t, "done")
  /\ UNCHANGED <<registry, file, announced, cache, call, header, due, failed, loadFailed>>

Return(t) ==
  /\ pc[t] = "done"
  /\ Goto(t, "idle")
  /\ IF answer[t] = NoAnswer THEN UNCHANGED registry ELSE Registry!Forget(t)
  /\ call' = [call EXCEPT ![t] = "XGetImage"]
  /\ picture' = [picture EXCEPT ![t] = NoPicture]
  /\ lockedSince' = [lockedSince EXCEPT ![t] = FALSE]
  /\ due' = [due EXCEPT ![t] = 0]
  /\ failed' = [failed EXCEPT ![t] = FALSE]
  /\ loadFailed' = [loadFailed EXCEPT ![t] = FALSE]
  /\ UNCHANGED <<file, announced, cache, header>>

Step(t) ==
  \/ \E c \in Call : Begin(t, c)
  \/ Capture(t) \/ Check(t) \/ Test(t) \/ Free(t) \/ Open(t) \/ Read(t) \/ SetId(t) \/ Paint(t)
  \/ PixmapCheck(t) \/ CopyArea(t) \/ Return(t)

Next == Admin \/ ReplaceImage \/ \E t \in Thread : Step(t)

Spec == Init /\ [][Next]_vars

-----------------------------------------------------------------------------
(* Properties. *)

Label == {"idle", "capture", "check", "test", "free", "load", "read", "set_id", "paint",
          "pixmap_check", "create", "done"}

\* Every variable has its type, and the number a library remembers is one the
\* table can hold.
TypeOK ==
  /\ used \in 0 .. MaxLockImages
  /\ imageId \in 0 .. IdMod - 1
  /\ answer \in [Thread -> [count : 0 .. MaxLockImages, id : 0 .. IdMod - 1] \cup {NoAnswer}]
  /\ file \in 0 .. MaxVersion
  /\ announced \in 0 .. file
  /\ image \in [Copy -> Freed .. MaxVersion]
  /\ imageIdCurr \in [Copy -> 0 .. IdMod - 1]
  /\ pc \in [Thread -> Label]
  /\ call \in [Thread -> Call]
  /\ header \in [Thread -> 0 .. MaxVersion]
  /\ picture \in [Thread -> NoPicture .. MaxVersion]
  /\ lockedSince \in [Thread -> BOOLEAN]
  /\ due \in [Thread -> 0 .. MaxVersion]
  /\ failed \in [Thread -> BOOLEAN] /\ loadFailed \in [Thread -> BOOLEAN]

\* A picture that was taken while a window was locked is replaced before the
\* caller sees it, unless the last window was unlocked again before the table
\* was asked: the table is asked after the pixels are taken, never before.
ReplacedWhileLocked ==
  \A t \in Thread :
    pc[t] = "done" /\ call[t] \in ImageCalls /\ lockedSince[t] /\ ~failed[t] => picture[t] # Real

\* No pixmap is created by a call during which some window was always locked.
PixmapRefused ==
  \A t \in Thread : pc[t] = "create" /\ ~failed[t] => ~lockedSince[t]

\* The lock image shown is the one the administrator had announced with
\* changed_bg when the table was asked, or a newer one: neither an older one nor
\* a half-written form of it.  Only in the very call in which fopen failed on the
\* file may the background stand in for it: the number is remembered then as if
\* the image had been loaded, and the next call must load it nevertheless.
ImageFresh ==
  \A t \in Thread :
    pc[t] = "done" /\ picture[t] >= BackgroundOnly =>
      picture[t] >= due[t] \/ (picture[t] = BackgroundOnly /\ loadFailed[t])

\* What the program says and does not keep (see the runs that refute them).

\* Nobody paints with, or frees, a lock image that another thread has freed.
NoUseAfterFree ==
  \A t \in Thread : pc[t] \in {"free", "paint"} => image[CopyOf(t)] # Freed
=============================================================================
