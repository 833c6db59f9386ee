------------------------------ MODULE XlibReply ------------------------------
(***************************************************************************)
(* The core of libX11 that XGetImage and every other call with a reply     *)
(* runs through: the threads of one client send requests, wait for replies *)
(* and events, and hand each other's answers on (xcb_io.c).  The client    *)
(* has called XInitThreads, Xlib owns the event queue, no user lock is     *)
(* taken, and the error handler is the default one, which exits.           *)
(*                                                                         *)
(* A step is what a thread does between two looks at libxcb, which reads   *)
(* the connection under a lock of its own whenever some thread has asked   *)
(* it for something it does not have.  The display is locked from one such *)
(* step to the next except in xcb_wait_for_event, in                       *)
(* xcb_wait_for_reply64 and in ConditionWait.                              *)
(*                                                                         *)
(* Requests are numbered in 64 bits; libxcb gives events and errors with   *)
(* the lower NumberMod of them, which Xlib widens with the last number read.  *)
(***************************************************************************)
EXTENDS Naturals, Sequences, FiniteSets, SequencesExt

CONSTANTS
  Threads,         \* the threads of the client
  NoThread,        \* the display is not locked
  CallsOf,         \* the calls each thread makes
  FirstRequest,    \* how many requests were sent and answered before
  NumberMod,       \* 2^32
  MaxRequests,     \* bound: how many are sent
  MaxEvents        \* bound: how many events the server sends

Call == {"round_trip", "attributes", "next_event", "send"}

ASSUME ClientAssumption ==
  /\ NoThread \notin Threads
  /\ CallsOf \in [Threads -> SUBSET Call]
  /\ FirstRequest \in Nat \ {0} /\ NumberMod \in Nat \ {0}
  /\ MaxRequests \in Nat /\ MaxEvents \in Nat

VARIABLES
  lock,            \* the thread that has the display locked
  request,         \* the number of the last request
  lastRead,        \* last_request_read
  pending,         \* pending_requests: sequence and reply_waiter of each
  nextEvent,       \* next_event: at most one event or error
  eventWaiter,     \* event_waiter
  queue,           \* the event queue of the display
  serial,          \* next_event_serial_num
  filled,          \* requests whose reply an asynchronous handler has copied
  pc,              \* where each thread is
  call,            \* the call it is in
  asleep,          \* the condition variable it waits for, if any
  current,         \* the request it wants the reply of
  req,             \* the request it waits for in libxcb
  response,        \* what libxcb gave it for that one: a reply or not
  since,           \* next_event_serial_num when it began to read events
  fate,            \* the process runs, or why it ended
  sent,            \* requests on their way to the server
  served,          \* the last request the server has served
  wire,            \* what the server has sent and libxcb has not read
  xcbEvents,       \* libxcb: events and errors nobody has asked for yet
  replies,         \* libxcb: requests whose reply nobody has asked for yet
  read, completed, \* libxcb: request_read, request_completed
  emitted,         \* history: how many events the server has sent
  delivered,       \* history: events given to the program
  overtaken,       \* history: poll_for_response took an answer before an earlier event
  answers,         \* history: what the server answered
  returned         \* history: what calls with a reply returned

display == <<request, pending>>
thread  == <<call, current, req, response, since>>
toRead  == <<sent, served, wire>>
xcb     == <<replies, read, completed>>
seen    == <<emitted, delivered, overtaken, answers, returned>>
vars    == <<lock, display, lastRead, nextEvent, eventWaiter, queue, serial, filled, pc,
             asleep, thread, fate, toRead, xcbEvents, xcb, seen>>

Init ==
  /\ lock = NoThread
  /\ request = FirstRequest /\ lastRead = FirstRequest
  /\ pending = <<>> /\ nextEvent = <<>> /\ eventWaiter = FALSE
  /\ queue = <<>> /\ serial = 1 /\ filled = {}
  /\ pc = [t \in Threads |-> "idle"]
  /\ call = [t \in Threads |-> "none"]
  /\ asleep = [t \in Threads |-> "no"]
  /\ current = [t \in Threads |-> 0] /\ req = [t \in Threads |-> 0]
  /\ response = [t \in Threads |-> FALSE]
  /\ since = [t \in Threads |-> 0]
  /\ fate = "running"
  /\ sent = <<>> /\ served = FirstRequest /\ wire = <<>>
  /\ xcbEvents = <<>> /\ replies = {}
  /\ read = FirstRequest /\ completed = FirstRequest
  /\ emitted = 0 /\ delivered = <<>> /\ overtaken = FALSE
  /\ answers = {} /\ returned = {}

Running == fate = "running"

-----------------------------------------------------------------------------
(* The X server. *)

IsError(m) == m.kind \in {"refused", "bad"}

\* Refused is BadAlloc or BadAccess, which _XReply gives back to its caller.
Answers(kind) ==
  CASE kind = "void"       -> {"none", "bad"}
    [] kind = "round_trip" -> {"reply", "refused", "bad"}
    [] OTHER               -> {"reply", "bad"}

Serve ==
  /\ Running
  /\ sent # <<>>
  /\ sent' = Tail(sent)
  /\ served' = Head(sent).seq
  /\ \E a \in Answers(Head(sent).kind) :
       /\ wire' = IF a = "none" THEN wire
                  ELSE Append(wire, [kind |-> a, seq |-> served', id |-> 0])
       /\ answers' = answers \cup {[seq |-> served', kind |-> a, events |-> emitted]}
  /\ UNCHANGED <<lock, display, lastRead, nextEvent, eventWaiter, queue, serial, filled, pc,
                 asleep, thread, fate, xcbEvents, xcb, emitted, delivered, overtaken,
                 returned>>

Emit ==
  /\ Running
  /\ emitted < MaxEvents
  /\ emitted' = emitted + 1
  /\ wire' = Append(wire, [kind |-> "event", seq |-> served, id |-> emitted'])
  /\ UNCHANGED <<lock, display, lastRead, nextEvent, eventWaiter, queue, serial, filled, pc,
                 asleep, thread, fate, sent, served, xcbEvents, xcb, delivered, overtaken,
                 answers, returned>>

-----------------------------------------------------------------------------
(* libxcb. *)

\* xcb_wait_for_reply64 and xcb_poll_for_reply64 have an answer for n: its
\* reply, or that there is no reply (any more).
Ready(n) == n < read \/ n \in replies \/ n = completed

\* Some thread makes libxcb read the connection.
Reading ==
  \E t \in Threads :
    CASE pc[t] = "wait_event" -> xcbEvents = <<>>
      [] pc[t] = "wait_reply" -> ~Ready(req[t])
      [] pc[t] = "poll"       -> nextEvent \o xcbEvents = <<>>
      [] pc[t] = "poll_reply" -> ~Ready(Head(pending).seq)
      [] OTHER                -> FALSE

\* The places of a sequence, in their order: there is one.
InOrder(places) == {s \in SetToSeqs(places) : \A i, j \in DOMAIN s : i < j => s[i] < s[j]}

\* It reads what has arrived of the wire.  Errors are queued with the events.
Read ==
  /\ Running /\ Reading
  /\ \E k \in 1 .. Len(wire) : \E at \in InOrder({i \in 1 .. k : wire[i].kind # "reply"}) :
       LET got    == SubSeq(wire, 1, k)
           newest == Last(got).seq
       IN  /\ wire' = SubSeq(wire, k + 1, Len(wire))
           /\ read' = newest
           /\ completed' =
                IF \E m \in ToSet(got) : IsError(m) /\ m.seq = newest THEN newest
                  ELSE IF newest > read THEN newest - 1 ELSE completed
           /\ replies' = replies \cup {m.seq : m \in {x \in ToSet(got) : x.kind = "reply"}}
           /\ xcbEvents' = xcbEvents \o [i \in DOMAIN at |-> wire[at[i]]]
  /\ UNCHANGED <<lock, display, lastRead, nextEvent, eventWaiter, queue, serial, filled, pc,
                 asleep, thread, fate, sent, served, seen>>

-----------------------------------------------------------------------------
(* Responses. *)

Widen(wide, narrow) ==
  LET new == (wide - (wide % NumberMod)) + (narrow % NumberMod)
  IN  IF new < wide THEN new + NumberMod ELSE new

Coming == nextEvent \o xcbEvents

\* Mutant of Due: errors are taken for events.
DueAnyKind ==
  /\ Coming # <<>>
  /\ pending # <<>> => Widen(lastRead, Head(Coming).seq) <= Head(pending).seq

\* poll_for_event gives its event, or error, to the caller: nothing pending
\* comes before it.
Due ==
  /\ Coming # <<>>
  /\ LET m == Head(Coming)
         n == Widen(lastRead, m.seq)
     IN  pending # <<>> =>
           n < Head(pending).seq \/ (m.kind = "event" /\ n = Head(pending).seq)

\* Mutant of Kept: next_event is filled without a look at what is in it.
KeptOver ==
  /\ nextEvent' = IF xcbEvents = <<>> THEN nextEvent ELSE <<Head(xcbEvents)>>
  /\ xcbEvents' = IF xcbEvents = <<>> THEN <<>> ELSE Tail(xcbEvents)

\* Mutant of Kept: next_event takes all there is.
KeptAll == nextEvent' = Coming /\ xcbEvents' = <<>>

\* Otherwise it keeps it in next_event.
Kept ==
  /\ nextEvent' = IF Coming = <<>> THEN <<>> ELSE <<Head(Coming)>>
  /\ xcbEvents' = IF Coming = <<>> THEN <<>> ELSE Tail(Coming)

\* Mutant of Handled: the handler looks for the wrong one of two requests.
HandledGeometry == {current[t] : t \in {u \in Threads : call[u] = "attributes"}}

\* The replies to XGetWindowAttributes for which a handler is installed.
Handled == {current[t] - 1 : t \in {u \in Threads : call[u] = "attributes"}}

Wake(cv, sleeping) == [t \in Threads |-> IF sleeping[t] = cv THEN "no" ELSE sleeping[t]]

\* ConditionWait.
Sleep(t, cv) == lock' = NoThread /\ asleep' = [asleep EXCEPT ![t] = cv]

Runs(t, at) == Running /\ pc[t] = at /\ asleep[t] = "no" /\ lock \in {t, NoThread}

Goto(t, at) == pc' = [pc EXCEPT ![t] = at]

\* UnlockDisplay at the end of a call; its local variables are gone.
Leave(t) ==
  /\ lock' = NoThread
  /\ Goto(t, "idle")
  /\ call' = [call EXCEPT ![t] = "none"]
  /\ current' = [current EXCEPT ![t] = 0] /\ req' = [req EXCEPT ![t] = 0]
  /\ response' = [response EXCEPT ![t] = FALSE] /\ since' = [since EXCEPT ![t] = 0]

\* The process ends.
End(why) ==
  /\ fate' = why
  /\ UNCHANGED <<lock, display, lastRead, nextEvent, eventWaiter, queue, serial, filled, pc,
                 asleep, thread, toRead, xcbEvents, xcb, seen>>

\* poll_for_event returned an event, and it is queued.
TakeEvent(t) ==
  /\ \/ Runs(t, "poll") \/ Runs(t, "poll_queued")
     \/ Runs(t, "events") /\ ~eventWaiter
  /\ Due
  /\ LET m == Head(Coming)
         n == Widen(lastRead, m.seq)
     IN  IF n > request THEN End("aborted")
         ELSE IF IsError(m) THEN End(m.kind)
         ELSE /\ lastRead' = n
              /\ nextEvent' = <<>> /\ xcbEvents' = Tail(Coming)
              /\ queue' = Append(queue, m.id)
              /\ serial' = serial + 1
              /\ lock' = t
              /\ Goto(t, IF pc[t] = "events" THEN "events" ELSE "poll")
              /\ UNCHANGED <<display, eventWaiter, filled, asleep, thread, fate, toRead, xcb,
                             seen>>

-----------------------------------------------------------------------------
(* poll_for_response, in the loops of _XReadEvents and _XEventsQueued. *)

\* The loop that needs an event is over; what is left takes what there is.
Drains(t) == call[t] = "send" \/ (serial # since[t] /\ queue # <<>>)

PollForReply(t) ==
  /\ Runs(t, "poll") /\ ~Due
  /\ pending # <<>> /\ ~Head(pending).waiter
  /\ Kept
  /\ Goto(t, "poll_reply")
  /\ UNCHANGED <<lock, display, lastRead, eventWaiter, queue, serial, filled, asleep, thread,
                 fate, toRead, xcb, seen>>

\* xcb_poll_for_reply64 knows: a reply goes to the handlers, none ends the wait.
PolledReply(t) ==
  /\ Runs(t, "poll_reply") /\ Ready(Head(pending).seq)
  /\ LET n == Head(pending).seq
     IN  /\ lastRead' = n
         /\ overtaken' = (overtaken \/ \E m \in ToSet(Coming) : m.seq < n)
         /\ replies' = replies \ {n}
         /\ IF n \in replies
            THEN /\ filled' = filled \cup ({n} \cap Handled)
                 /\ Goto(t, IF Drains(t) THEN "poll" ELSE "read")
                 /\ UNCHANGED pending
            ELSE /\ pending' = Tail(pending)
                 /\ Goto(t, "poll")
                 /\ UNCHANGED filled
  /\ UNCHANGED <<lock, request, nextEvent, eventWaiter, queue, serial, asleep, thread, fate,
                 toRead, xcbEvents, read, completed, emitted, delivered, answers, returned>>

PolledNothing(t) ==
  /\ Runs(t, "poll_reply") /\ ~Ready(Head(pending).seq)
  /\ Goto(t, "poll_queued")
  /\ UNCHANGED <<lock, display, lastRead, nextEvent, eventWaiter, queue, serial, filled,
                 asleep, thread, fate, toRead, xcbEvents, xcb, seen>>

\* poll_for_response returned NULL.  The waiter is looked up in the first pending
\* request without a test that there is one.
NoResponse(t) ==
  /\ \/ Runs(t, "poll") /\ (pending # <<>> => Head(pending).waiter)
     \/ Runs(t, "poll_queued")
  /\ ~Due
  /\ IF Drains(t) \/ (pending # <<>> /\ Head(pending).waiter)
     THEN /\ Kept
          /\ IF Drains(t)
             THEN Goto(t, "done") /\ UNCHANGED <<lock, asleep>>
             ELSE Goto(t, "read") /\ Sleep(t, "reply_notify")
          /\ UNCHANGED <<display, lastRead, eventWaiter, queue, serial, filled, thread, fate,
                         toRead, xcb, seen>>
     ELSE End(IF pending = <<>> THEN "crashed" ELSE "io_error")

-----------------------------------------------------------------------------
(* XNextEvent, and XFlush after a request without a reply. *)

\* _XSend notes the requests it flushes only when a handler is installed.
Submit(t, kinds, noted) ==
  /\ request + Len(kinds) <= FirstRequest + MaxRequests
  /\ request' = request + Len(kinds)
  /\ sent' = sent \o [k \in 1 .. Len(kinds) |-> [seq |-> request + k, kind |-> kinds[k]]]
  /\ pending' = pending \o noted
  /\ lock' = t

Begin(t, c) ==
  /\ Running /\ lock = NoThread /\ pc[t] = "idle"
  /\ c \in CallsOf[t]
  /\ call' = [call EXCEPT ![t] = c]

Send(t) ==
  /\ Begin(t, "send")
  /\ Submit(t, <<"void">>,
       IF Handled = {} THEN <<>> ELSE <<[seq |-> request + 1, waiter |-> FALSE]>>)
  /\ Goto(t, IF eventWaiter THEN "done" ELSE "poll")
  /\ UNCHANGED <<lastRead, nextEvent, eventWaiter, queue, serial, filled, asleep, current, req,
                 response, since, fate, served, wire, xcbEvents, xcb, seen>>

NextEvent(t) ==
  /\ Begin(t, "next_event")
  /\ lock' = t
  /\ since' = [since EXCEPT ![t] = serial]
  /\ Goto(t, IF queue = <<>> THEN "read" ELSE "done")
  /\ UNCHANGED <<display, lastRead, nextEvent, eventWaiter, queue, serial, filled, asleep,
                 current, req, response, fate, toRead, xcbEvents, xcb, seen>>

\* The loop of _XReadEvents.
ReadEvents(t) ==
  /\ Runs(t, "read")
  /\ IF Drains(t)
     THEN Goto(t, IF eventWaiter THEN "done" ELSE "poll") /\ lock' = t
          /\ UNCHANGED <<eventWaiter, asleep>>
     ELSE IF eventWaiter
     THEN Sleep(t, "event_notify") /\ UNCHANGED <<eventWaiter, pc>>
     ELSE IF nextEvent = <<>>
     THEN /\ eventWaiter' = TRUE
          /\ lock' = NoThread
          /\ Goto(t, "wait_event")
          /\ UNCHANGED asleep
     ELSE Goto(t, "poll") /\ lock' = t /\ UNCHANGED <<eventWaiter, asleep>>
  /\ UNCHANGED <<display, lastRead, nextEvent, queue, serial, filled, thread, fate, toRead,
                 xcbEvents, xcb, seen>>

\* xcb_wait_for_event returned.
EventArrived(t) ==
  /\ Runs(t, "wait_event") /\ xcbEvents # <<>>
  /\ lock' = t
  /\ eventWaiter' = FALSE
  /\ asleep' = Wake("event_notify", asleep)
  /\ nextEvent' = <<Head(xcbEvents)>> /\ xcbEvents' = Tail(xcbEvents)
  /\ Goto(t, "poll")
  /\ UNCHANGED <<display, lastRead, queue, serial, filled, thread, fate, toRead, xcb, seen>>

Done(t) ==
  /\ Runs(t, "done")
  /\ Leave(t)
  /\ IF call[t] = "next_event"
     THEN queue' = Tail(queue) /\ delivered' = Append(delivered, Head(queue))
     ELSE UNCHANGED <<queue, delivered>>
  /\ UNCHANGED <<display, lastRead, nextEvent, eventWaiter, serial, filled, asleep, fate,
                 toRead, xcbEvents, xcb, emitted, overtaken, answers,
                 returned>>

-----------------------------------------------------------------------------
(* _XReply, for one request or for the two of XGetWindowAttributes. *)

RoundTrip(t) ==
  /\ \/ /\ Begin(t, "round_trip")
        /\ Submit(t, <<"round_trip">>, <<[seq |-> request + 1, waiter |-> TRUE]>>)
     \/ /\ Begin(t, "attributes")
        /\ Submit(t, <<"attributes", "geometry">>,
             <<[seq |-> request + 1, waiter |-> FALSE], [seq |-> request + 2, waiter |-> TRUE]>>)
  /\ current' = [current EXCEPT ![t] = request']
  /\ Goto(t, "reply")
  /\ UNCHANGED <<lastRead, nextEvent, eventWaiter, queue, serial, filled, asleep, req, response,
                 since, fate, served, wire, xcbEvents, xcb, seen>>

\* Mutant of ReplyLoop: the request is not marked as waited for.
ReplyLoopUnmarked(t) ==
  /\ Runs(t, "reply")
  /\ req' = [req EXCEPT ![t] = Head(pending).seq]
  /\ lock' = NoThread
  /\ Goto(t, "wait_reply")
  /\ UNCHANGED <<display, lastRead, nextEvent, eventWaiter, queue, serial, filled, asleep, call,
                 current, response, since, fate, toRead, xcbEvents, xcb, seen>>

\* The head of the loop: the first pending request is waited for by another
\* thread, or by this one from now on.
ReplyLoop(t) ==
  /\ Runs(t, "reply")
  /\ LET head == Head(pending)
     IN  IF head.seq # current[t] /\ head.waiter
         THEN Sleep(t, "reply_notify") /\ UNCHANGED <<pending, req, pc>>
         ELSE /\ pending' = [pending EXCEPT ![1].waiter = TRUE]
              /\ req' = [req EXCEPT ![t] = head.seq]
              /\ lock' = NoThread
              /\ Goto(t, "wait_reply")
              /\ UNCHANGED asleep
  /\ UNCHANGED <<request, lastRead, nextEvent, eventWaiter, queue, serial, filled, call, current,
                 response, since, fate, toRead, xcbEvents, xcb, seen>>

\* xcb_wait_for_reply64 returned.
ReplyArrived(t) ==
  /\ Runs(t, "wait_reply") /\ Ready(req[t])
  /\ response' = [response EXCEPT ![t] = req[t] \in replies]
  /\ replies' = replies \ {req[t]}
  /\ lock' = t
  /\ Goto(t, "events")
  /\ UNCHANGED <<display, lastRead, nextEvent, eventWaiter, queue, serial, filled, asleep, call,
                 current, req, since, fate, toRead, xcbEvents, read, completed, seen>>

\* Another thread is in xcb_wait_for_event and has to go first.
AwaitEventReader(t) ==
  /\ Runs(t, "events") /\ eventWaiter
  /\ Sleep(t, "event_notify")
  /\ UNCHANGED <<display, lastRead, nextEvent, eventWaiter, queue, serial, filled, pc, thread,
                 fate, toRead, xcbEvents, xcb, seen>>

\* The request is off the queue when libxcb has no more replies to it.
Answered(t) ==
  /\ pending' = IF response[t] THEN [pending EXCEPT ![1].waiter = FALSE] ELSE Tail(pending)
  /\ lastRead' = req[t]

\* Mutant of EventsRead: earlier events are left for later.
EventsReadFirst(t) == Runs(t, "events") /\ ~eventWaiter

\* Mutant of EventsRead: the thread that waits for events is not waited for.
EventsReadAlone(t) == Runs(t, "events") /\ ~Due

\* The loops over earlier events are over.
EventsRead(t) == Runs(t, "events") /\ ~eventWaiter /\ ~Due

\* Mutant of Settled: nobody is told.
SettledSilent(t) ==
  /\ EventsRead(t)
  /\ Answered(t)
  /\ UNCHANGED asleep

\* Who waits for reply_notify looks again.
Settled(t) ==
  /\ EventsRead(t)
  /\ Answered(t)
  /\ asleep' = Wake("reply_notify", asleep)

\* The reply was for an asynchronous handler, or there was none.
HandOn(t) ==
  /\ Settled(t) /\ req[t] # current[t]
  /\ Kept
  /\ filled' = filled \cup (IF response[t] THEN {req[t]} \cap Handled ELSE {})
  /\ lock' = t
  /\ Goto(t, "reply")
  /\ UNCHANGED <<request, eventWaiter, queue, serial, thread, fate, toRead, xcb, seen>>

\* Mutant of OwnError: whatever error is in next_event.
OwnErrorAny(t) == Coming # <<>> /\ IsError(Head(Coming))

\* next_event holds the error of the request.
OwnError(t) ==
  Coming # <<>> /\ IsError(Head(Coming)) /\ Widen(req[t], Head(Coming).seq) = req[t]

Return(t, kind) ==
  /\ returned' = returned \cup
       {[seq |-> req[t], kind |-> kind, call |-> call[t], events |-> serial - 1]}
  /\ Leave(t)
  /\ UNCHANGED <<request, eventWaiter, queue, serial, filled, fate, toRead, xcb, emitted,
                 delivered, overtaken, answers>>

ReturnReply(t) ==
  /\ Settled(t) /\ req[t] = current[t]
  /\ response[t] /\ ~OwnError(t)
  /\ Kept
  /\ Return(t, "reply")

ReturnRefused(t) ==
  /\ Settled(t) /\ req[t] = current[t]
  /\ OwnError(t) /\ Head(Coming).kind = "refused"
  /\ nextEvent' = <<>> /\ xcbEvents' = Tail(Coming)
  /\ Return(t, "refused")

ReplyEnds(t) ==
  /\ EventsRead(t) /\ req[t] = current[t]
  /\ IF OwnError(t) THEN Head(Coming).kind = "bad" /\ End("bad")
                    ELSE ~response[t] /\ End("io_error")

-----------------------------------------------------------------------------
Enter(t) == Send(t) \/ NextEvent(t) \/ RoundTrip(t)

Continue(t) ==
  \/ TakeEvent(t) \/ PollForReply(t) \/ PolledReply(t) \/ PolledNothing(t) \/ NoResponse(t)
  \/ ReadEvents(t) \/ EventArrived(t) \/ Done(t)
  \/ ReplyLoop(t) \/ ReplyArrived(t) \/ AwaitEventReader(t)
  \/ HandOn(t) \/ ReturnReply(t) \/ ReturnRefused(t) \/ ReplyEnds(t)

Next ==
  \/ \E t \in Threads : Enter(t) \/ Continue(t)
  \/ Read
  \/ Serve
  \/ Emit

Spec == Init /\ [][Next]_vars

\* The server answers, what it sends is read, and a thread in a call goes on.
FairSpec ==
  /\ Spec
  /\ WF_vars(Serve) /\ WF_vars(Read)
  /\ \A t \in Threads : WF_vars(Continue(t))

-----------------------------------------------------------------------------
(* Properties. *)

Place == {"idle", "reply", "wait_reply", "events", "read", "wait_event", "poll", "poll_reply",
          "poll_queued", "done"}
Message == [kind : {"reply", "refused", "bad", "event"}, seq : Nat, id : 0 .. MaxEvents]

\* Every variable has its type.
TypeOK ==
  /\ lock \in Threads \cup {NoThread}
  /\ {request, lastRead, served, read, completed} \subseteq Nat
  /\ request <= FirstRequest + MaxRequests
  /\ pending \in Seq([seq : Nat, waiter : BOOLEAN])
  /\ nextEvent \in Seq(Message) /\ Len(nextEvent) <= 1
  /\ xcbEvents \in Seq(Message) /\ wire \in Seq(Message)
  /\ sent \in Seq([seq : Nat, kind : {"void", "round_trip", "attributes", "geometry"}])
  /\ eventWaiter \in BOOLEAN
  /\ queue \in Seq(1 .. MaxEvents) /\ delivered \in Seq(1 .. MaxEvents)
  /\ emitted \in 0 .. MaxEvents /\ serial \in 1 .. MaxEvents + 1
  /\ filled \subseteq Nat /\ replies \subseteq Nat
  /\ pc \in [Threads -> Place]
  /\ call \in [Threads -> Call \cup {"none"}]
  /\ asleep \in [Threads -> {"no", "event_notify", "reply_notify"}]
  /\ current \in [Threads -> Nat] /\ req \in [Threads -> Nat] /\ since \in [Threads -> Nat]
  /\ response \in [Threads -> BOOLEAN]
  /\ fate \in {"running", "bad", "refused", "aborted", "io_error", "crashed"}

\* The rules at the head of xcb_io.c: one thread at most waits for events in
\* libxcb and one for a reply, event_waiter says so, and the reply waited for
\* is the first pending one, which no other thread may take or dequeue.
OneReader ==
  /\ \A t, u \in Threads :
       \A at \in {{"wait_event"}, {"wait_reply", "events"}} :
         pc[t] \in at /\ pc[u] \in at => t = u
  /\ Running => (eventWaiter <=> \E t \in Threads : pc[t] = "wait_event")
  /\ \A t \in Threads :
       pc[t] \in {"wait_reply", "events"} =>
         pending # <<>> /\ Head(pending) = [seq |-> req[t], waiter |-> TRUE]

\* What the rules say and the code does not keep: responses are processed in
\* the order of their numbers, so no event or error read from the server is
\* left behind a later answer.  poll_for_response looks for events first and
\* for a reply then, and both may arrive in between.
InSequence == \A m \in ToSet(Coming) : m.seq >= lastRead

\* poll_for_response is the only place where that happens.  Until it does, no
\* assertion about numbers fails (though numbers wrap), and no thread takes the
\* connection for broken or looks for a waiter where no request is pending.
NoFalseAlarm == ~overtaken => InSequence /\ fate \notin {"io_error", "crashed", "aborted"}

\* A refused request is reported to the thread that made it and never to the
\* error handler, whichever thread reads the error.
RefusedComesBack == fate # "refused"

\* No event is lost, repeated or moved on its way through libxcb, next_event
\* and the queue, whichever threads take it along.
EventsInOrder ==
  LET rest == Coming \o wire
      at   == {i \in DOMAIN rest : rest[i].kind = "event"}
  IN  /\ delivered \o queue = [k \in 1 .. serial - 1 |-> k]
      /\ {rest[i].id : i \in at} = serial .. emitted
      /\ \A i, j \in at : i < j => rest[i].id < rest[j].id

\* A call returns what the server answered to its own request.
OwnAnswers == \A r \in returned : \E x \in answers : x.seq = r.seq /\ x.kind = r.kind

\* A call returns after every event sent before its reply has been queued, so
\* XSync leaves none behind, as long as no answer overtakes an event.
EventsBeforeReplies ==
  ~overtaken =>
    \A r \in returned : \A x \in answers : x.seq = r.seq => r.events >= x.events

\* XGetWindowAttributes says success only when the reply to its first request
\* has been copied, by whichever thread, as long as no answer overtakes an
\* event.
AttributesFilled ==
  ~overtaken =>
    \A r \in returned : r.call = "attributes" /\ r.kind = "reply" => r.seq - 1 \in filled

\* A call with a reply returns, unless a thread waits for an event for ever:
\* the call waits for that thread, as a comment in _XReply admits.
ReplyReturns ==
  []<>~eventWaiter =>
    \A t \in Threads :
      pc[t] \in {"reply", "wait_reply", "events"} ~> pc[t] = "idle" \/ ~Running
=============================================================================
