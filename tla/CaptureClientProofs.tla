------------------------ MODULE CaptureClientProofs ------------------------
(***************************************************************************)
(* Proofs about CaptureClient.  The invariant says which requests may be   *)
(* outstanding at each point of the client, and what the client may rely   *)
(* on once it has waited.                                                  *)
(***************************************************************************)
EXTENDS CaptureClient, TLAPS

\* The client has begun to give everything back, and waits no more.
Ending == pc \in {"detach", "shmdt", "rmid", "close"}

\* What the client sends without waiting for it.
LastRequest == {"free_pixmap", "detach"}

\* What may be in the queue: the one request the client waits for, and at the
\* end those it does not wait for.
Outstanding ==
  /\ pc = "sync_attach" => queue \in {<<>>, <<"attach">>}
  /\ pc = "reply"       => queue \in {<<>>, <<"get">>}
  /\ pc = "sync_create" => queue \in {<<>>, <<"create">>}
  /\ pc = "sync_gc"     => queue \in {<<>>, <<"gc">>}
  /\ pc = "sync_copy"   => queue \in {<<>>, <<"copy">>}
  /\ Ending => queue \in Seq(LastRequest) /\ Len(queue) <= (IF pc = "detach" THEN 1 ELSE 2)
  /\ pc \notin {"sync_attach", "reply", "sync_create", "sync_gc", "sync_copy"} /\ ~Ending =>
       queue = <<>>

\* Once the request for the pixels is served without an error, they are there.
Written ==
  /\ pc \in {"reply", "sync_copy"} /\ queue = <<>> /\ ~error => pixels = "picture"
  /\ pc \in {"malloc", "read"} /\ (hasShm \/ method = "-s") => pixels = "picture"
  /\ pc \in {"shmget", "attach", "sync_attach", "get"} => method # "-s"

\* The segment and the image are given back before the display is closed.
GivenBack ==
  /\ segment \in {"none", "live", "removed"}
  /\ segment = "live" => method # "-s" /\ pc \notin {"start", "begin", "shmget", "close", "closed"}
  /\ pc = "closed" => segment = "none"
  /\ image = "live" => pc \notin {"detach", "shmdt", "rmid", "free_pixmap", "close", "closed"}
  /\ pc \in {"start", "begin"} => image = "none"

ClientInv == Outstanding /\ Written /\ GivenBack

LEMMA OneRequest ==
  ASSUME NEW a
  PROVE  Append(<<>>, a) = <<a>> /\ Head(<<a>>) = a /\ Tail(<<a>>) = <<>> /\ <<a>> # <<>>
OBVIOUS

LEMMA LastRequests ==
  ASSUME NEW q \in Seq(LastRequest)
  PROVE  /\ <<>> \in Seq(LastRequest)
         /\ Append(q, "detach") \in Seq(LastRequest) /\ Len(Append(q, "detach")) = Len(q) + 1
         /\ q # <<>> => /\ Head(q) \in LastRequest /\ Tail(q) \in Seq(LastRequest)
                        /\ Len(Tail(q)) = Len(q) - 1
         /\ Len(q) \in Nat
BY DEF LastRequest

LEMMA NoRequests ==
  /\ <<>> \in Seq(LastRequest) /\ Len(<<>>) = 0
  /\ Append(<<>>, "free_pixmap") \in Seq(LastRequest) /\ Len(Append(<<>>, "free_pixmap")) = 1
BY DEF LastRequest

LEMMA ClientInit == Init => ClientInv
BY DEF Init, ClientInv, Outstanding, Ending, Written, GivenBack

\* Leaving the program empties the queue.
LEMMA ExitKeeps ==
  ASSUME ClientInv, NEW how \in {"exited", "crashed", "closed"}, Exit(how),
         how = "closed" => pc = "close"
  PROVE  ClientInv'
<1> USE DEF Exit, Settle, ClientInv, fixed
<1>1. Outstanding'
  BY DEF Outstanding, Ending
<1>2. Written'
  BY DEF Written
<1>3. GivenBack'
  BY DEF GivenBack
<1> QED BY <1>1, <1>2, <1>3

\* The client goes on, without a wait and without an end.
LEMMA ClientGoesOn ==
  ASSUME ClientInv,
         \/ window /\ Local("start", "begin") /\ UNCHANGED <<memory, image, pixels, result>>
         \/ NoExtension \/ CreateImage \/ GetSegment \/ Refused \/ Malloc \/ Shmdt \/ Rmid
  PROVE  ClientInv'
<1> USE DEF ClientInv, Local, fixed, server, memory, Settle
<1>1. Outstanding'
  <2>1. queue' = queue /\ (pc' = "detach" => queue = <<>>) /\ (Ending' => Ending \/ queue = <<>>)
    BY DEF Outstanding, Ending, NoExtension, CreateImage, GetSegment, Refused, Malloc, Shmdt, Rmid
  <2>2. ~Ending' => queue = <<>>
    BY DEF Outstanding, Ending, NoExtension, CreateImage, GetSegment, Refused, Malloc, Shmdt, Rmid
  <2>3. Ending => queue \in Seq(LastRequest) /\ Len(queue) <= 2
    BY LastRequests DEF Outstanding
  <2>4. CASE queue = <<>>
    BY <2>1, <2>4, NoRequests DEF Outstanding, Ending
  <2>5. CASE queue # <<>>
    BY <2>1, <2>2, <2>3, <2>5 DEF Outstanding, Ending
  <2> QED BY <2>4, <2>5
<1>2. Written'
  BY DEF Written, NoExtension, CreateImage, GetSegment, Refused, Malloc, Shmdt, Rmid
<1>3. GivenBack'
  BY DEF Written, GivenBack, NoExtension, CreateImage, GetSegment, Refused, Malloc, Shmdt, Rmid
<1> QED BY <1>1, <1>2, <1>3

\* The steps of the client that may end the program.
LEMMA ClientMayExit ==
  ASSUME ClientInv, GetAttributes \/ GetImage \/ CopyOut \/ Destroy \/ Close
  PROVE  ClientInv'
<1> USE DEF ClientInv, Local, fixed, server, memory
<1>1. CASE \/ Exit("exited")
           \/ Exit("crashed")
           \/ pc = "close" /\ Exit("closed")
  BY <1>1, ExitKeeps
<1>2. CASE GetImage /\ ~Exit("exited")
  <2>1. Outstanding'
    <3>1. queue = <<>> /\ queue' = <<>> /\ ~(pc' = "detach")
      BY <1>2 DEF GetImage, Outstanding, Ending
    <3> QED BY <3>1, NoRequests DEF Outstanding, Ending
  <2>2. Written'
    BY <1>2 DEF GetImage, Written
  <2>3. GivenBack'
    BY <1>2 DEF GetImage, GivenBack
  <2> QED BY <2>1, <2>2, <2>3
<1>3. CASE (CopyOut \/ Destroy) /\ ~Exit("crashed")
  <2>1. Outstanding'
    <3>1. queue = <<>> /\ queue' = <<>>
      BY <1>3 DEF CopyOut, Destroy, Outstanding, Ending
    <3> QED BY <3>1, NoRequests DEF Outstanding, Ending
  <2>2. Written'
    BY <1>3 DEF CopyOut, Destroy, Written
  <2>3. GivenBack'
    BY <1>3 DEF CopyOut, Destroy, GivenBack
  <2> QED BY <2>1, <2>2, <2>3
<1>4. CASE GetAttributes /\ ~Exit("exited")
  BY <1>4, ClientGoesOn DEF GetAttributes
<1> QED
  BY <1>1, <1>2, <1>3, <1>4 DEF Close

\* After a wait nothing is outstanding.
LEMMA ClientWaits ==
  ASSUME ClientInv, SyncAttach \/ Reply \/ SyncCreate \/ SyncGC \/ SyncCopy
  PROVE  ClientInv'
<1> USE DEF ClientInv, Local, fixed, server, memory, SyncAttach, Reply, SyncCreate, SyncGC, SyncCopy, Wait
<1>1. CASE Exit("exited")
  BY <1>1, ExitKeeps
<1>2. CASE ~Exit("exited")
  <2>1. Outstanding'
    BY <1>2 DEF Outstanding, Ending
  <2>2. Written'
    BY <1>2 DEF Written
  <2>3. GivenBack'
    BY <1>2 DEF GivenBack
  <2> QED BY <2>1, <2>2, <2>3
<1> QED BY <1>1, <1>2

\* The client sends a request.
LEMMA ClientSends ==
  ASSUME ClientInv, Attach \/ ShmGetImage \/ CreatePixmap \/ CreateGC \/ CopyArea \/ FreePixmap \/ Detach
  PROVE  ClientInv'
<1> USE DEF ClientInv, Local, fixed, server, memory, Attach, ShmGetImage, CreatePixmap, CreateGC, CopyArea,
            FreePixmap, Detach, SendShm, Send
<1>1. Outstanding'
  <2>1. CASE Attach \/ ShmGetImage \/ CreatePixmap \/ CreateGC \/ CopyArea
    BY <2>1, OneRequest DEF Outstanding, Ending
  <2>2. CASE FreePixmap
    BY <2>2, NoRequests DEF Outstanding, Ending
  <2>3. CASE Detach
    BY <2>3, LastRequests DEF Outstanding, Ending
  <2> QED BY <2>1, <2>2, <2>3
<1>2. Written'
  BY OneRequest DEF Written
<1>3. GivenBack'
  BY DEF GivenBack
<1> QED BY <1>1, <1>2, <1>3

\* The server does not make the client move, and takes one request.
LEMMA ServerStep ==
  ASSUME ClientInv, Server
  PROVE  ClientInv'
<1> USE DEF ClientInv, fixed, server, memory, Server, Serve
<1>1. CASE CloseWindow
  BY <1>1 DEF CloseWindow, Outstanding, Ending, Written, GivenBack
<1>2. CASE ~CloseWindow
  <2>1. queue # <<>> /\ queue' = Tail(queue) /\ UNCHANGED <<pc, method, hasShm, image>>
    BY <1>2 DEF ServeAttach, ServeGet, ServeCreate, ServeGC, ServeCopy, ServeFreePixmap, ServeDetach
  <2>2. Outstanding'
    <3>1. CASE Ending
      BY <2>1, <3>1, LastRequests DEF Outstanding, Ending
    <3>2. CASE ~Ending
      BY <2>1, <3>2, OneRequest DEF Outstanding, Ending
    <3> QED BY <3>1, <3>2
  <2>3. Written'
    BY <1>2, <2>1, OneRequest DEF Outstanding, Ending, Written, ServeAttach, ServeGet,
       ServeCreate, ServeGC, ServeCopy, ServeFreePixmap, ServeDetach
  <2>4. GivenBack'
    BY <1>2, <2>1 DEF GivenBack, Settle, Outstanding, Ending, ServeAttach, ServeGet,
       ServeCreate, ServeGC, ServeCopy, ServeFreePixmap, ServeDetach
  <2> QED BY <2>2, <2>3, <2>4
<1> QED BY <1>1, <1>2

LEMMA ClientInvHolds == Spec => []ClientInv
<1>1. ClientInv /\ Next => ClientInv'
  BY ClientGoesOn, ClientMayExit, ClientWaits, ClientSends, ServerStep DEF Next, Client
<1>2. ClientInv /\ UNCHANGED vars => ClientInv'
  BY DEF ClientInv, Outstanding, Ending, Written, GivenBack, vars, fixed, server, memory
<1> QED BY ClientInit, <1>1, <1>2, PTL DEF Spec

-----------------------------------------------------------------------------
(* The types.  That of the queue follows from Outstanding. *)

OtherTypes ==
  /\ method \in Method /\ hasShm \in BOOLEAN
  /\ pc \in Label
  /\ error \in BOOLEAN /\ pixmap \in BOOLEAN /\ window \in BOOLEAN
  /\ segment \in {"none", "live", "removed"}
  /\ users \subseteq {"client", "server"}
  /\ image \in {"none", "live", "freed"}
  /\ pixels \in {"blank", "picture"}
  /\ result \in {"none", "blank", "picture"}

LEMMA QueueTyped ==
  ASSUME Outstanding
  PROVE  queue \in Seq(Request) /\ Len(queue) <= 2
<1>1. CASE Ending
  <2>1. queue \in Seq(LastRequest) /\ Len(queue) <= 2
    BY <1>1, LastRequests DEF Outstanding
  <2>2. LastRequest \subseteq Request
    BY DEF LastRequest, Request
  <2>3. \A q \in Seq(LastRequest) : q \in Seq(Request)
    BY <2>2
  <2> QED BY <2>1, <2>3
<1>2. CASE ~Ending
  <2>1. \/ queue = <<>>
        \/ \E a \in Request : queue = <<a>>
    BY <1>2 DEF Outstanding, Ending, Request
  <2>2. \A a \in Request : <<a>> \in Seq(Request) /\ Len(<<a>>) <= 2
    OBVIOUS
  <2>3. <<>> \in Seq(Request) /\ Len(<<>>) <= 2
    OBVIOUS
  <2> QED BY Zenon, <2>1, <2>2, <2>3
<1> QED BY <1>1, <1>2

LEMMA ExitTyped ==
  ASSUME OtherTypes, NEW how \in {"exited", "crashed", "closed"}, Exit(how)
  PROVE  OtherTypes'
BY DEF OtherTypes, Exit, Settle, fixed, Label

\* A step without an end of the program.
LEMMA ClientTyped ==
  ASSUME OtherTypes, Client,
         \A how \in {"exited", "crashed", "closed"} : ~Exit(how)
  PROVE  OtherTypes'
<1>1. pc' \in Label
  BY DEF Client, Label, NoExtension, GetAttributes, GetImage, CreateImage, GetSegment, Attach, SyncAttach,
         ShmGetImage, Reply, Refused, CreatePixmap, SyncCreate, CreateGC, SyncGC, CopyArea, SyncCopy,
         Malloc, CopyOut, Destroy, FreePixmap, Detach, Shmdt, Rmid, Close, SendShm, Send, Wait, Local
<1>2. UNCHANGED <<method, hasShm, error, pixmap, window>>
  BY DEF Client, NoExtension, GetAttributes, GetImage, CreateImage, GetSegment, Attach, SyncAttach,
         ShmGetImage, Reply, Refused, CreatePixmap, SyncCreate, CreateGC, SyncGC, CopyArea, SyncCopy,
         Malloc, CopyOut, Destroy, FreePixmap, Detach, Shmdt, Rmid, Close, SendShm, Send, Wait, Local,
         fixed, server
<1>3. segment' \in {segment, "none", "live", "removed"} /\ users' \subseteq users \cup {"client"}
  BY DEF Client, NoExtension, GetAttributes, GetImage, CreateImage, GetSegment, Attach, SyncAttach,
         ShmGetImage, Reply, Refused, CreatePixmap, SyncCreate, CreateGC, SyncGC, CopyArea, SyncCopy,
         Malloc, CopyOut, Destroy, FreePixmap, Detach, Shmdt, Rmid, Close, SendShm, Send, Wait, memory,
         Settle
<1>4. /\ image' \in {image, "live", "freed"}
      /\ pixels' \in {pixels, "picture"}
      /\ result' \in {result, pixels}
  BY DEF Client, NoExtension, GetAttributes, GetImage, CreateImage, GetSegment, Attach, SyncAttach,
         ShmGetImage, Reply, Refused, CreatePixmap, SyncCreate, CreateGC, SyncGC, CopyArea, SyncCopy,
         Malloc, CopyOut, Destroy, FreePixmap, Detach, Shmdt, Rmid, Close, SendShm, Send, Wait
<1> QED BY <1>1, <1>2, <1>3, <1>4 DEF OtherTypes

LEMMA ServerTyped ==
  ASSUME OtherTypes, Server
  PROVE  OtherTypes'
<1>1. UNCHANGED <<method, hasShm, pc, image, result>>
  BY DEF Server, ServeAttach, ServeGet, ServeCreate, ServeGC, ServeCopy, ServeFreePixmap, ServeDetach,
         CloseWindow, Serve, fixed
<1>2. window' \in {window, FALSE} /\ pixmap' \in {pixmap, TRUE, FALSE} /\ pixels' \in {pixels, "picture"}
  BY DEF Server, ServeAttach, ServeGet, ServeCreate, ServeGC, ServeCopy, ServeFreePixmap, ServeDetach,
         CloseWindow, Serve, server
<1>3. error' \in BOOLEAN
  BY DEF Server, ServeAttach, ServeGet, ServeCreate, ServeGC, ServeCopy, ServeFreePixmap, ServeDetach,
         CloseWindow, Serve, server, OtherTypes
<1>4. segment' \in {segment, "none"} /\ users' \subseteq users \cup {"server"}
  BY DEF Server, ServeAttach, ServeGet, ServeCreate, ServeGC, ServeCopy, ServeFreePixmap, ServeDetach,
         CloseWindow, memory, Settle
<1> QED BY <1>1, <1>2, <1>3, <1>4 DEF OtherTypes

\* TypeOK: every variable of a run of screenshot keeps its type, whatever
\* fails, and its queue never holds more than two requests: those the client
\* does not wait for, XFreePixmap and XShmDetach.
THEOREM TypesCorrect == Spec => []TypeOK
<1>1. Init => OtherTypes
  BY DEF Init, OtherTypes, Label
<1>2. OtherTypes /\ [Next]_vars => OtherTypes'
  <2> SUFFICES ASSUME OtherTypes, [Next]_vars PROVE OtherTypes'
    OBVIOUS
  <2>1. CASE \E how \in {"exited", "crashed", "closed"} : Exit(how)
    BY <2>1, ExitTyped
  <2>2. CASE Next /\ \A how \in {"exited", "crashed", "closed"} : ~Exit(how)
    BY <2>2, ClientTyped, ServerTyped DEF Next
  <2>3. CASE UNCHANGED vars
    BY <2>3 DEF vars, fixed, server, memory, OtherTypes
  <2> QED BY <2>1, <2>2, <2>3
<1>3. ClientInv /\ OtherTypes => TypeOK
  BY QueueTyped DEF ClientInv, OtherTypes, TypeOK
<1> QED BY ClientInvHolds, <1>1, <1>2, <1>3, PTL DEF Spec

(***************************************************************************)
(* PictureArrived: whatever the server refuses and whenever it serves, the *)
(* client reads no pixel that has not been written.                        *)
(***************************************************************************)
THEOREM PictureBeforeRead == Spec => []PictureArrived
<1>1. ClientInv => PictureArrived
  BY DEF ClientInv, Written, PictureArrived
<1> QED BY ClientInvHolds, <1>1, PTL

(***************************************************************************)
(* AttachedBeforeRemoved: the XSync after XShmAttach is what makes the     *)
(* removal of the segment safe, on every path to it.                       *)
(***************************************************************************)
THEOREM AttachedFirst == Spec => []AttachedBeforeRemoved
<1>1. ClientInv => AttachedBeforeRemoved
  BY DEF ClientInv, Outstanding, Ending, LastRequest, AttachedBeforeRemoved
<1> QED BY ClientInvHolds, <1>1, PTL

(***************************************************************************)
(* NothingLeft: a run that ends regularly has given the segment and the    *)
(* image back, on every path through the three functions.                  *)
(***************************************************************************)
THEOREM GivenBackAtEnd == Spec => []NothingLeft
<1>1. ClientInv => NothingLeft
  BY DEF ClientInv, GivenBack, NothingLeft
<1> QED BY ClientInvHolds, <1>1, PTL
=============================================================================
