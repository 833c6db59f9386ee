-------------------------- MODULE XlibAnswersProofs --------------------------
(***************************************************************************)
(* Theorems about XlibReply, continued: what the calls with a reply return *)
(* to the program.                                                         *)
(*                                                                         *)
(* Numbers are compared after they have been widened from NumberMod, which *)
(* finds the right one as long as fewer than NumberMod (2^32) requests     *)
(* have been made on the connection.  They may start anywhere, and wrap.   *)
(***************************************************************************)
EXTENDS XlibOrderProofs

\* No two requests of the connection have the same number on the wire.
FewRequests == MaxRequests < NumberMod

\* The invariants of the queue and of the messages.
BaseInv == ReaderInv /\ FlowInv

LEMMA BaseParts ==
  ASSUME BaseInv
  PROVE  /\ ReaderInv /\ PendingSent /\ ThreadsTyped /\ FlowInv
         /\ StreamSlot /\ StreamTyped /\ ServerInv /\ Stream /\ CallInv /\ CountInv
         /\ Numbered /\ Recorded /\ Carried /\ ReadNumbers
  BY DEF BaseInv, ReaderInv, FlowInv, StreamSlot, ServerInv

LEMMA BaseInit == ASSUME Init PROVE BaseInv
  BY ReaderInit, FlowInit, ClientAssumption DEF BaseInv

LEMMA BaseStep == ASSUME BaseInv, [Next]_vars PROVE BaseInv'
  BY ReaderStep, FlowStep, ClientAssumption DEF BaseInv

\* How the numbers lie.
LEMMA Bounds ==
  ASSUME BaseInv
  PROVE  /\ FirstRequest \in Nat /\ MaxRequests \in Nat /\ NumberMod \in Nat \ {0}
         /\ served \in Nat /\ request \in Nat /\ read \in Nat /\ completed \in Nat
         /\ FirstRequest <= completed /\ completed <= read /\ read <= served
         /\ served <= request /\ request <= FirstRequest + MaxRequests
         /\ serial \in Nat /\ emitted \in Nat /\ Len(sent) \in Nat /\ Len(pending) \in Nat
<1>1. FirstRequest \in Nat /\ MaxRequests \in Nat /\ NumberMod \in Nat \ {0} /\ MaxEvents \in Nat
  BY ClientAssumption
<1>2. served \in Nat /\ request \in Nat /\ Len(sent) \in Nat /\ FirstRequest <= served
      /\ request <= FirstRequest + MaxRequests /\ served + Len(sent) = request
  BY BaseParts, LenProperties DEF Numbered, PendingSent
<1>3. read \in FirstRequest .. served /\ completed \in FirstRequest .. read
  BY BaseParts DEF ReadNumbers
<1>4. emitted \in 0 .. MaxEvents /\ serial \in 1 .. emitted + 1
  BY BaseParts DEF Recorded, CountInv
<1>5. Len(pending) \in Nat
  BY BaseParts, Requests
<1>6. served <= request
  BY <1>2
<1>. QED
  BY <1>1, <1>2, <1>3, <1>4, <1>5, <1>6

LEMMA Pendings ==
  ASSUME BaseInv
  PROVE  /\ \A i \in 1 .. Len(pending) :
              pending[i].seq \in Nat /\ FirstRequest < pending[i].seq /\ pending[i].seq <= request
         /\ \A i, j \in 1 .. Len(pending) : i < j => pending[i].seq < pending[j].seq
         /\ \A i \in 1 .. Len(pending) : pending[1].seq <= pending[i].seq
         /\ pending # <<>> => 1 \in 1 .. Len(pending) /\ Head(pending) = pending[1]
<1>1. /\ \A i \in 1 .. Len(pending) :
           pending[i].seq \in Nat /\ FirstRequest < pending[i].seq /\ pending[i].seq <= request
      /\ \A i, j \in 1 .. Len(pending) : i < j => pending[i].seq < pending[j].seq
      /\ Len(pending) \in Nat
  BY BaseParts, Requests DEF PendingSent, Numbered
<1>2. ASSUME NEW i \in 1 .. Len(pending)
      PROVE  pending[1].seq <= pending[i].seq
  <2>1. 1 \in 1 .. Len(pending) /\ (i = 1 \/ 1 < i)
    BY <1>1
  <2>. QED
    BY <1>1, <2>1
<1>3. pending # <<>> => 1 \in 1 .. Len(pending) /\ Head(pending) = pending[1]
  <2>1. pending # <<>> => Len(pending) > 0 /\ Head(pending) = pending[1]
    BY BaseParts, First
  <2>. QED
    BY <1>1, <2>1
<1>. QED
  BY <1>1, <1>2, <1>3

\* A message that was sent no earlier than n is widened from n to its number,
\* and no other message is widened to n.
LEMMA Widened ==
  ASSUME BaseInv, FewRequests, NEW n \in Nat, FirstRequest <= n, n <= request,
         NEW m \in InStream
  PROVE  /\ m.seq \in Nat /\ FirstRequest <= m.seq /\ m.seq <= served
         /\ n <= m.seq => Widen(n, m.seq) = m.seq
         /\ Widen(n, m.seq) = n => m.seq = n
<1>1. m.seq \in FirstRequest .. served
  BY BaseParts DEF Carried
<1>2. m.seq < n + NumberMod /\ n < m.seq + NumberMod
  BY SMTT(30), <1>1, Bounds DEF FewRequests
<1>. QED
  BY SMTT(30), <1>1, <1>2, Bounds, WidenAhead, WidenSame

\* Libxcb stays where it is, or goes on.
LEMMA PastKept ==
  ASSUME BaseInv, [Next]_vars, NEW n \in Nat, Past(n)
  PROVE  Past(n)'
<1>1. CASE UNCHANGED <<wire, read>>
  BY <1>1 DEF Past
<1>2. CASE Read
  <2>1. read <= read' /\ ToSet(wire)' \subseteq ToSet(wire)
    BY <1>2, BaseParts, ReadServer
  <2>2. read \in Nat /\ read' \in Nat
    <3>1. ServerInv'
      BY <1>2, BaseParts, ReadServer
    <3>2. read' \in FirstRequest .. served' /\ served' \in Nat
      BY <3>1 DEF ServerInv, ReadNumbers, Numbered
    <3>. QED
      BY <3>2, Bounds
  <2>. QED
    BY <2>1, <2>2 DEF Past
<1>3. CASE Serve
  <2>1. read' = read /\ \A m \in ToSet(wire)' : m \in ToSet(wire) \/ m.seq = served + 1
    BY <1>3, BaseParts, ServeEffect DEF xcb
  <2>. QED
    BY <2>1, Bounds DEF Past
<1>4. CASE Emit
  <2>1. read' = read /\ \A m \in ToSet(wire)' : m \in ToSet(wire) \/ m.kind = "event"
    BY <1>4, BaseParts, EmitEffect DEF xcb
  <2>. QED
    BY <2>1 DEF Past
<1>5. CASE UNCHANGED vars \/ (\E why : End(why))
  BY <1>1, <1>5 DEF End, vars, toRead, xcb
<1>6. ASSUME NEW t \in Threads, ThreadPasses(t) \/ TookEvent(t) \/ ReturnRefused(t),
             Passes \/ Takes
      PROVE  Past(n)'
  BY <1>1, <1>6, ThreadStepKeeps DEF ThreadKeeps, Passes, Takes
<1>. QED
  BY <1>2, <1>3, <1>4, <1>5, <1>6, BaseParts, Flow

LEMMA ReadyPast ==
  ASSUME BaseInv, NEW n \in Nat, Ready(n)
  PROVE  Past(n)
<1>1. /\ \A m \in ToSet(wire) : m.seq \in Nat /\ read <= m.seq
      /\ Past(completed) /\ \A k \in replies : Past(k)
  BY BaseParts, Bounds DEF ReadNumbers, Carried, InStream
<1>2. CASE n < read
  BY <1>1, <1>2, Bounds DEF Past
<1>3. CASE n \in replies \/ n = completed
  BY <1>1, <1>3
<1>. QED
  BY <1>2, <1>3 DEF Ready

-----------------------------------------------------------------------------
(* What a step of one thread does to its own variables. *)

Locals ==
  /\ response \in [Threads -> BOOLEAN]
  /\ since \in [Threads -> Nat]

StepOf(t) == ThreadPasses(t) \/ TookEvent(t) \/ ReturnRefused(t)

OnlyMine(t) ==
  \A u \in Threads : u # t =>
    /\ pc'[u] = pc[u] /\ call'[u] = call[u] /\ current'[u] = current[u]
    /\ req'[u] = req[u] /\ response'[u] = response[u] /\ since'[u] = since[u]

\* A thread begins to want a reply in RoundTrip and gets it in ReturnReply or
\* ReturnRefused; in between it wants the same one.
WantsSame(t) ==
  /\ Wants(t)' =>
       RoundTrip(t) \/ (Wants(t) /\ current'[t] = current[t] /\ call'[t] = call[t])
  /\ Wants(t) => Wants(t)' \/ ReturnReply(t) \/ ReturnRefused(t)

\* It looks at earlier events with what xcb_wait_for_reply64 has given it.
HasSame(t) ==
  pc'[t] = "events" =>
    ReplyArrived(t) \/ (pc[t] = "events" /\ req'[t] = req[t] /\ response'[t] = response[t])

LEMMA LocalStep ==
  ASSUME BaseInv, Locals, NEW t \in Threads, StepOf(t)
  PROVE  Locals' /\ OnlyMine(t) /\ WantsSame(t) /\ HasSame(t)
<1>1. /\ pc \in [Threads -> Place] /\ call \in [Threads -> Call \cup {"none"}]
      /\ current \in [Threads -> Nat] /\ req \in [Threads -> Nat]
      /\ response \in [Threads -> BOOLEAN] /\ since \in [Threads -> Nat]
      /\ serial \in Nat
  BY BaseParts, Bounds DEF ThreadsTyped, CallInv, Locals
<1>. DEFINE Goal == Locals' /\ OnlyMine(t) /\ WantsSame(t) /\ HasSame(t)
<1>2. ASSUME UNCHANGED <<call, current, req, response, since>>,
             NEW at, pc' = [pc EXCEPT ![t] = at],
             at \in {"reply", "wait_reply", "events"} <=> Wants(t),
             at = "events" => pc[t] = "events"
      PROVE  Goal
  BY <1>1, <1>2 DEF Locals, OnlyMine, WantsSame, HasSame, Wants
<1>3. ASSUME UNCHANGED <<call, current, req, response, since, pc>>
      PROVE  Goal
  BY <1>1, <1>3 DEF Locals, OnlyMine, WantsSame, HasSame, Wants
<1>4. CASE Enter(t)
  <2>1. /\ pc[t] = "idle" /\ \E c \in Call : call' = [call EXCEPT ![t] = c]
        /\ UNCHANGED <<req, response>>
        /\ \/ since' = since
           \/ since' = [since EXCEPT ![t] = serial]
        /\ \/ UNCHANGED current /\ \E at \in {"done", "poll", "read"} : pc' = [pc EXCEPT ![t] = at]
           \/ /\ RoundTrip(t) /\ current' = [current EXCEPT ![t] = request']
              /\ pc' = [pc EXCEPT ![t] = "reply"]
    BY <1>4 DEF Enter, Send, NextEvent, RoundTrip, Begin, Goto, Call
  <2>2. Locals'
    BY <1>1, <2>1 DEF Locals
  <2>3. OnlyMine(t)
    BY <1>1, <2>1 DEF OnlyMine
  <2>. QED
    BY <1>1, <2>1, <2>2, <2>3 DEF WantsSame, HasSame, Wants
<1>5. CASE Done(t) \/ ReturnReply(t) \/ ReturnRefused(t)
  <2>1. (Done(t) /\ pc[t] = "done") \/ ReturnReply(t) \/ ReturnRefused(t)
    BY <1>5 DEF Done, ReturnReply, ReturnRefused, Return, Runs
  <2>2. Leave(t)
    BY <1>5 DEF Done, ReturnReply, ReturnRefused, Return
  <2>3. Locals' /\ OnlyMine(t) /\ pc'[t] = "idle"
    BY <1>1, <2>2 DEF Leave, Goto, Locals, OnlyMine
  <2>. QED
    BY <2>1, <2>3 DEF WantsSame, HasSame, Wants
<1>6. CASE PollForReply(t) \/ PolledReply(t) \/ PolledNothing(t)
  <2>1. /\ UNCHANGED <<call, current, req, response, since>>
        /\ pc[t] \in {"poll", "poll_reply"}
        /\ \E at \in {"read", "poll", "poll_reply", "poll_queued"} : pc' = [pc EXCEPT ![t] = at]
    BY <1>6 DEF PollForReply, PolledReply, PolledNothing, Runs, thread, Goto
  <2>. QED
    BY <1>2, <2>1 DEF Wants
<1>7. CASE NoResponse(t) \/ ReadEvents(t) \/ EventArrived(t)
  <2>1. /\ UNCHANGED <<call, current, req, response, since>>
        /\ pc[t] \in {"poll", "poll_queued", "read", "wait_event"}
        /\ \/ UNCHANGED pc
           \/ \E at \in {"read", "poll", "done", "wait_event"} : pc' = [pc EXCEPT ![t] = at]
    BY <1>7 DEF NoResponse, End, ReadEvents, EventArrived, Runs, thread, Goto
  <2>. QED
    BY <1>2, <1>3, <2>1 DEF Wants
<1>8. CASE ReplyLoop(t) \/ AwaitEventReader(t) \/ HandOn(t)
  <2>1. /\ pc[t] \in {"reply", "events"} /\ UNCHANGED <<call, current, response, since>>
        /\ \/ UNCHANGED <<pc, req>>
           \/ /\ pc' = [pc EXCEPT ![t] = "wait_reply"]
              /\ \E n : req' = [req EXCEPT ![t] = n]
           \/ pc' = [pc EXCEPT ![t] = "reply"] /\ UNCHANGED req
    BY <1>8 DEF ReplyLoop, AwaitEventReader, HandOn, Settled, EventsRead, Runs, thread, Goto
  <2>. QED
    BY <1>1, <2>1 DEF Locals, OnlyMine, WantsSame, HasSame, Wants
<1>9. CASE ReplyArrived(t)
  <2>1. /\ pc[t] = "wait_reply" /\ UNCHANGED <<call, current, req, since>>
        /\ pc' = [pc EXCEPT ![t] = "events"]
        /\ response' = [response EXCEPT ![t] = req[t] \in replies]
    BY <1>9 DEF ReplyArrived, Runs, Goto
  <2>2. Locals'
    BY <1>1, <2>1 DEF Locals
  <2>3. OnlyMine(t)
    BY <1>1, <2>1 DEF OnlyMine
  <2>. QED
    BY <1>1, <1>9, <2>1, <2>2, <2>3 DEF WantsSame, HasSame, Wants
<1>10. CASE TookEvent(t)
  <2>1. /\ UNCHANGED <<call, current, req, response, since>>
        /\ pc[t] \in {"poll", "poll_queued", "events"}
        /\ pc' = [pc EXCEPT ![t] = IF pc[t] = "events" THEN "events" ELSE "poll"]
    BY <1>10 DEF TookEvent, Runs, thread, Goto
  <2>. QED
    BY <1>2, <2>1 DEF Wants
<1>. QED
  BY <1>4, <1>5, <1>6, <1>7, <1>8, <1>9, <1>10 DEF StepOf, ThreadPasses

\* A step of a thread, with what it does to the messages.
Going(t) ==
  \/ ThreadPasses(t) /\ Passes
  \/ (TookEvent(t) \/ ReturnRefused(t)) /\ Takes

\* The steps that no thread does, and the end of the process.
NoStep ==
  /\ UNCHANGED <<lock, request, pending, lastRead, filled, pc, asleep, call, current, req,
                 response, since, overtaken, delivered, queue, serial, returned>>
  /\ \/ UNCHANGED vars
     \/ (\E why : End(why))
     \/ (Read \/ Serve \/ Emit) /\ UNCHANGED fate

LEMMA Steps ==
  ASSUME BaseInv, [Next]_vars
  PROVE  \/ NoStep
         \/ \E t \in Threads : StepOf(t) /\ Going(t)
<1>1. CASE UNCHANGED vars \/ (\E why : End(why))
  BY <1>1 DEF NoStep, vars, End, display, thread, seen
<1>2. CASE Read \/ Serve \/ Emit
  BY <1>2 DEF NoStep, Read, Serve, Emit, display, thread, seen
<1>. QED
  BY <1>1, <1>2, BaseParts, Flow DEF StepOf, Going

LEMMA GoingKeeps ==
  ASSUME BaseInv, NEW t \in Threads, Going(t)
  PROVE  /\ ThreadKeeps
         /\ InStream' \subseteq InStream /\ ToSet(Coming)' \subseteq ToSet(Coming)
         /\ ToSet(wire)' = ToSet(wire)
<1>1. ThreadKeeps /\ (Passes \/ Takes)
  BY ThreadStepKeeps DEF Going
<1>. QED
  BY <1>1, BaseParts, ServerKept

LEMMA LocalsStep ==
  ASSUME BaseInv, Locals, [Next]_vars
  PROVE  Locals'
<1>1. CASE NoStep
  BY <1>1 DEF NoStep, Locals
<1>. QED
  BY <1>1, Steps, LocalStep

-----------------------------------------------------------------------------
(* A call returns the answer to its own request. *)

\* What xcb_wait_for_reply64 has given to a thread: the answer that was sent,
\* once.
Given(n, reply) == Past(n) /\ n \notin replies /\ (reply => AnsweredBy(n, "reply"))

Responses == \A t \in Threads : pc[t] = "events" => Given(req[t], response[t])

\* What is not done by a thread adds to the replies and to the answers.
LEMMA NoStepEffect ==
  ASSUME BaseInv, NoStep
  PROVE  /\ answers \subseteq answers'
         /\ \A n \in replies' : n \in replies
              \/ \E m \in ToSet(wire) : m.kind = "reply" /\ m.seq = n
<1>1. CASE UNCHANGED vars \/ (\E why : End(why))
  BY <1>1 DEF vars, End, xcb, seen
<1>2. CASE Read
  <2>1. answers' = answers /\ \E got \in SUBSET InStream :
          /\ ToSet(wire) = got \cup ToSet(wire)'
          /\ replies' = replies \cup {m.seq : m \in {x \in got : x.kind = "reply"}}
    BY <1>2, BaseParts, ReadServer DEF seen
  <2>. QED
    BY <2>1
<1>3. CASE Serve
  BY <1>3, BaseParts, ServeEffect DEF xcb
<1>4. CASE Emit
  BY <1>4, BaseParts, EmitEffect DEF xcb
<1>. QED
  BY <1>1, <1>2, <1>3, <1>4 DEF NoStep

LEMMA GivenKept ==
  ASSUME BaseInv, NEW n \in Nat, NEW reply, Given(n, reply), [Next]_vars
  PROVE  Given(n, reply)'
<1>1. Past(n)'
  BY PastKept DEF Given
<1>2. CASE NoStep
  <2>1. n \notin replies'
    <3>1. \A m \in ToSet(wire) : m.kind = "reply" => n < m.seq /\ m.seq \in Nat
      BY BaseParts, Bounds DEF Given, Past, Carried, InStream
    <3>. QED
      BY <1>2, <3>1, NoStepEffect DEF Given
  <2>. QED
    BY <1>1, <1>2, <2>1, NoStepEffect DEF Given, AnsweredBy
<1>3. ASSUME NEW t \in Threads, Going(t)
      PROVE  Given(n, reply)'
  BY <1>1, <1>3, GoingKeeps DEF Given, AnsweredBy, ThreadKeeps
<1>. QED
  BY <1>2, <1>3, Steps

LEMMA ResponsesStep ==
  ASSUME BaseInv, Locals, Responses, [Next]_vars
  PROVE  Responses'
<1>. DEFINE Held(u) == pc[u] = "events" /\ req'[u] = req[u] /\ response'[u] = response[u]
<1>1. \A t \in Threads : req[t] \in Nat
  BY BaseParts DEF ThreadsTyped
<1>2. ASSUME NEW n \in Nat, NEW reply, Given(n, reply)
      PROVE  Given(n, reply)'
  BY <1>2, GivenKept
<1>3. ASSUME NEW u \in Threads, Held(u)
      PROVE  Given(req[u], response[u])'
  <2>1. PICK n \in Nat : n = req[u]
    BY <1>1
  <2>2. PICK reply : reply = response[u]
    OBVIOUS
  <2>3. Given(n, reply)
    BY <1>3, <2>1, <2>2 DEF Responses
  <2>4. Given(n, reply)'
    BY <1>2, <2>3
  <2>. QED
    BY <1>3, <2>1, <2>2, <2>4
<1>4. ASSUME NEW t \in Threads, ReplyArrived(t)
      PROVE  Given(req[t], response[t])'
  <2>1. PICK n \in Nat : n = req[t]
    BY <1>1
  <2>2. /\ Ready(n) /\ req' = req
        /\ response' = [response EXCEPT ![t] = n \in replies]
        /\ replies' = replies \ {n} /\ answers' = answers
    BY <1>4, <2>1 DEF ReplyArrived, seen
  <2>3. Past(n)'
    BY <2>2, ReadyPast, PastKept
  <2>4. response'[t] => n \in replies
    BY <2>2 DEF Locals
  <2>5. n \in replies => AnsweredBy(n, "reply")'
    BY <2>2, BaseParts DEF ReadNumbers, AnsweredBy
  <2>. QED
    BY <2>1, <2>2, <2>3, <2>4, <2>5 DEF Given
<1>5. ASSUME NEW u \in Threads, pc'[u] = "events"
      PROVE  Held(u) \/ ReplyArrived(u)
  <2>1. CASE NoStep
    BY <1>5, <2>1 DEF NoStep
  <2>2. ASSUME NEW t \in Threads, StepOf(t)
        PROVE  Held(u) \/ ReplyArrived(u)
    BY <1>5, <2>2, LocalStep DEF OnlyMine, HasSame
  <2>. QED
    BY <2>1, <2>2, Steps
<1>. QED
  BY <1>3, <1>4, <1>5 DEF Responses

\* The thread that is done with its request.
LEMMA WaitsFirst ==
  ASSUME BaseInv, NEW t \in Threads, Waits(t)
  PROVE  /\ 1 \in 1 .. Len(pending) /\ pending # <<>> /\ Head(pending).seq = req[t]
         /\ req[t] = pending[1].seq /\ req[t] \in Nat
         /\ FirstRequest < req[t] /\ req[t] <= request
<1>1. Len(pending) > 0 /\ pending[1] = [seq |-> req[t], waiter |-> TRUE]
  BY BaseParts DEF ReaderInv, Waiting
<1>2. pending # <<>>
  BY <1>1, EmptySeq
<1>. QED
  BY <1>1, <1>2, Pendings

LEMMA ReturnedStep ==
  ASSUME BaseInv, Locals, Responses, OwnAnswers, FewRequests, [Next]_vars
  PROVE  OwnAnswers'
<1>1. answers \subseteq answers'
  BY Steps, NoStepEffect, GoingKeeps DEF ThreadKeeps
<1>2. CASE UNCHANGED returned
  BY <1>1, <1>2 DEF OwnAnswers
<1>3. ASSUME NEW t \in Threads, NEW kind, Return(t, kind), AnsweredBy(req[t], kind)
      PROVE  OwnAnswers'
  <2>1. returned' = returned \cup
          {[seq |-> req[t], kind |-> kind, call |-> call[t], events |-> serial - 1]}
    BY <1>3 DEF Return
  <2>. QED
    BY <1>1, <1>3, <2>1 DEF OwnAnswers, AnsweredBy
<1>4. ASSUME NEW t \in Threads, ReturnReply(t)
      PROVE  OwnAnswers'
  <2>1. pc[t] = "events" /\ response[t] /\ Return(t, "reply")
    BY <1>4 DEF ReturnReply, Settled, EventsRead, Runs
  <2>. QED
    BY <1>3, <2>1 DEF Responses, Given
<1>5. ASSUME NEW t \in Threads, ReturnRefused(t)
      PROVE  OwnAnswers'
  <2>. DEFINE m == Head(Coming)
  <2>1. /\ Waits(t) /\ Coming # <<>> /\ m.kind = "refused" /\ Widen(req[t], m.seq) = req[t]
        /\ Return(t, "refused")
    BY <1>5 DEF ReturnRefused, OwnError, Settled, EventsRead, Runs, Waits
  <2>2. m \in InStream
    BY <2>1, BaseParts, HeadFirst DEF InStream, StreamSlot
  <2>3. m.seq = req[t]
    BY <2>1, <2>2, WaitsFirst, Widened, Bounds
  <2>4. AnsweredBy(m.seq, m.kind)
    BY <2>1, <2>2, BaseParts DEF Carried, AnsweredBy
  <2>. QED
    BY <1>3, <2>1, <2>3, <2>4
<1>6. CASE NoStep
  BY <1>2, <1>6 DEF NoStep
<1>7. ASSUME NEW t \in Threads, StepOf(t), ~ReturnReply(t), ~ReturnRefused(t)
      PROVE  UNCHANGED returned
  <2>1. CASE Enter(t)
    BY <2>1 DEF Enter, Send, NextEvent, RoundTrip, seen
  <2>2. CASE PollForReply(t) \/ PolledReply(t) \/ PolledNothing(t) \/ NoResponse(t)
    BY <2>2 DEF PollForReply, PolledReply, PolledNothing, NoResponse, End, seen
  <2>3. CASE ReadEvents(t) \/ EventArrived(t) \/ ReplyLoop(t) \/ Done(t)
    BY <2>3 DEF ReadEvents, EventArrived, ReplyLoop, Done, seen
  <2>4. CASE ReplyArrived(t) \/ AwaitEventReader(t) \/ HandOn(t) \/ TookEvent(t)
    BY <2>4 DEF ReplyArrived, AwaitEventReader, HandOn, TookEvent, seen
  <2>. QED
    BY <1>7, <2>1, <2>2, <2>3, <2>4 DEF StepOf, ThreadPasses
<1>. QED
  BY <1>2, <1>4, <1>5, <1>6, <1>7, Steps

LEMMA LocalsInit == ASSUME Init PROVE Locals /\ Responses /\ OwnAnswers
  BY DEF Init, Locals, Responses, OwnAnswers

AnswerInv == BaseInv /\ Locals /\ Responses

LEMMA AnswerInit == ASSUME Init PROVE AnswerInv
  BY BaseInit, LocalsInit DEF AnswerInv

LEMMA AnswerStep == ASSUME AnswerInv, [Next]_vars PROVE AnswerInv'
  BY BaseStep, LocalsStep, ResponsesStep DEF AnswerInv

\* What a call with a reply returns is what the server answered to its own
\* request, in whatever order the threads take each other's answers, as long as
\* no more requests are made than there are numbers (xcb_io.c, _XReply).
THEOREM CallsGetTheirOwn ==
  ASSUME FewRequests
  PROVE  Spec => []OwnAnswers
<1>. DEFINE I == AnswerInv /\ OwnAnswers
<1>1. Init => I
  BY AnswerInit, LocalsInit
<1>2. I /\ [Next]_vars => I'
  BY AnswerStep, ReturnedStep, FewRequests DEF AnswerInv
<1>. QED
  BY <1>1, <1>2, PTL DEF Spec

-----------------------------------------------------------------------------
(* The last number that Xlib has read. *)

\* It is not later than any pending request.
LastRead ==
  /\ lastRead \in FirstRequest .. request
  /\ \A i \in 1 .. Len(pending) : lastRead <= pending[i].seq

LEMMA LastReadNone ==
  ASSUME BaseInv, LastRead, UNCHANGED <<lastRead, request>>, NoneNew
  PROVE  LastRead'
  BY DEF LastRead, NoneNew

LEMMA LastReadHead ==
  ASSUME BaseInv, LastRead, pending # <<>>, lastRead' = Head(pending).seq, UNCHANGED request,
         NoneNew
  PROVE  LastRead'
<1>1. lastRead' = pending[1].seq /\ 1 \in 1 .. Len(pending)
  BY Pendings
<1>2. lastRead' \in FirstRequest .. request
  BY <1>1, Pendings, Bounds
<1>3. \A i \in 1 .. Len(pending) : lastRead' <= pending[i].seq
  BY <1>1, Pendings
<1>. QED
  BY <1>2, <1>3 DEF LastRead, NoneNew

LEMMA LastReadSubmitted ==
  ASSUME BaseInv, LastRead, UNCHANGED lastRead, NEW kinds \in Seq(Kind), Submitted(kinds)
  PROVE  LastRead'
<1>1. lastRead \in Nat /\ lastRead <= request /\ Len(kinds) \in Nat
  BY Bounds, LenProperties DEF LastRead
<1>2. lastRead' \in FirstRequest .. request'
  BY SMTT(30), <1>1, Bounds DEF LastRead, Submitted
<1>3. ASSUME NEW i \in 1 .. Len(pending')
      PROVE  lastRead <= pending'[i].seq
  <2>1. CASE i <= Len(pending)
    <3>1. i \in 1 .. Len(pending) /\ pending'[i] = pending[i]
      BY <2>1 DEF Submitted, PendingKept
    <3>. QED
      BY <3>1 DEF LastRead
  <2>2. CASE ~(i <= Len(pending))
    <3>1. pending'[i].seq \in Nat /\ pending'[i].seq > request
      BY <2>2 DEF Submitted
    <3>. QED
      BY SMTT(30), <1>1, <3>1, Bounds
  <2>. QED
    BY <2>1, <2>2
<1>. QED
  BY <1>2, <1>3 DEF LastRead

LEMMA LastReadStep ==
  ASSUME BaseInv, LastRead, [Next]_vars
  PROVE  LastRead'
<1>1. CASE NoStep
  BY <1>1 DEF NoStep, LastRead
<1>2. ASSUME NEW t \in Threads, Enter(t)
      PROVE  LastRead'
  <2>1. UNCHANGED lastRead
    BY <1>2 DEF Enter, Send, NextEvent, RoundTrip
  <2>2. <<"void">> \in Seq(Kind) /\ <<"round_trip">> \in Seq(Kind)
        /\ <<"attributes", "geometry">> \in Seq(Kind)
    BY DEF Kind
  <2>3. CASE UNCHANGED <<request, pending, sent>>
    BY <2>1, <2>3, LastReadNone DEF NoneNew
  <2>. QED
    BY <1>2, <2>1, <2>2, <2>3, BaseParts, EnterSubmits, LastReadSubmitted
<1>3. ASSUME NEW t \in Threads, StepOf(t), ~Enter(t)
      PROVE  LastRead'
  <2>1. NoneNew /\ UNCHANGED request
    BY <1>3, BaseParts, NothingNew, ClientAssumption DEF StepOf
  <2>2. CASE UNCHANGED lastRead
    BY <2>1, <2>2, LastReadNone
  <2>3. CASE PolledReply(t)
    <3>1. pending # <<>>
      BY <2>3, BaseParts, EmptySeq DEF PolledReply, Runs, ReaderInv, Polled
    <3>2. lastRead' = Head(pending).seq
      BY <2>3 DEF PolledReply
    <3>. QED
      BY <2>1, <3>1, <3>2, LastReadHead
  <2>4. CASE HandOn(t) \/ ReturnReply(t) \/ ReturnRefused(t)
    <3>1. Waits(t) /\ lastRead' = req[t]
      BY <2>4 DEF HandOn, ReturnReply, ReturnRefused, Settled, EventsRead, Answered, Runs, Waits
    <3>2. pending # <<>> /\ lastRead' = Head(pending).seq
      BY <3>1, WaitsFirst
    <3>. QED
      BY <2>1, <3>2, LastReadHead
  <2>5. CASE TookEvent(t)
    <3>. DEFINE m == Head(Coming)
    <3>1. /\ Due /\ lastRead' = Widen(lastRead, m.seq) /\ ~(lastRead' > request)
          /\ UNCHANGED <<request, pending>>
      BY <2>5 DEF TookEvent, display
    <3>2. m \in InStream /\ m.seq \in Nat /\ lastRead \in Nat /\ FirstRequest <= lastRead
      <4>1. m \in InStream
        BY <3>1, BaseParts, HeadFirst DEF InStream, StreamSlot, Due
      <4>. QED
        BY SMTT(30), <4>1, BaseParts, Bounds DEF Carried, LastRead
    <3>3. lastRead' \in FirstRequest .. request
      <4>1. Widen(lastRead, m.seq) \in Nat /\ lastRead <= Widen(lastRead, m.seq)
        BY <3>2, WidenGrows
      <4>2. lastRead' \in Nat /\ lastRead <= lastRead' /\ ~(lastRead' > request)
        BY <3>1, <4>1
      <4>. QED
        BY <3>2, <4>2, Bounds
    <3>4. pending # <<>> => lastRead' <= Head(pending).seq
      BY SMTT(30), <3>1, <3>3, Pendings, Bounds DEF Due
    <3>5. ASSUME NEW i \in 1 .. Len(pending)
          PROVE  lastRead' <= pending[i].seq
      <4>1. Len(pending) # 0
        BY Bounds
      <4>2. pending # <<>>
        BY <4>1, EmptySeq
      <4>. QED
        BY SMTT(30), <3>3, <3>4, <4>2, Pendings, Bounds
    <3>. QED
      BY <3>1, <3>3, <3>5 DEF LastRead
  <2>6. CASE NoResponse(t) \/ ReadEvents(t) \/ EventArrived(t) \/ ReplyLoop(t)
    BY <2>2, <2>6 DEF NoResponse, End, ReadEvents, EventArrived, ReplyLoop
  <2>7. CASE Done(t) \/ PollForReply(t) \/ PolledNothing(t) \/ ReplyArrived(t)
             \/ AwaitEventReader(t)
    BY <2>2, <2>7 DEF Done, PollForReply, PolledNothing, ReplyArrived, AwaitEventReader
  <2>. QED
    BY <1>3, <2>3, <2>4, <2>5, <2>6, <2>7 DEF StepOf, ThreadPasses
<1>. QED
  BY <1>1, <1>2, <1>3, Steps

-----------------------------------------------------------------------------
(* Every variable has its type. *)

FateTyped == fate \in {"running", "bad", "refused", "aborted", "io_error", "crashed"}

OthersTyped ==
  /\ lock \in Threads \cup {NoThread} /\ filled \subseteq Nat
  /\ asleep \in [Threads -> {"no", "event_notify", "reply_notify"}]

\* How the process comes to its end.
LEMMA Ends ==
  ASSUME [Next]_vars
  PROVE  \/ UNCHANGED fate
         \/ /\ fate' \in {"io_error", "crashed"}
            /\ \E t \in Threads : NoResponse(t) /\ ~Drains(t)
                                  /\ (pending # <<>> => ~Head(pending).waiter)
         \/ /\ fate' = "io_error"
            /\ \E t \in Threads : EventsRead(t) /\ req[t] = current[t]
                                  /\ ~OwnError(t) /\ ~response[t]
         \/ fate' = "bad"
         \/ fate' = "aborted" /\ Due /\ Widen(lastRead, Head(Coming).seq) > request
         \/ fate' = Head(Coming).kind /\ Due /\ IsError(Head(Coming))
<1>1. CASE UNCHANGED vars \/ Read \/ Serve \/ Emit
  BY <1>1 DEF vars, Read, Serve, Emit
<1>2. ASSUME NEW t \in Threads, Enter(t)
      PROVE  UNCHANGED fate
  BY <1>2 DEF Enter, Send, NextEvent, RoundTrip
<1>3. ASSUME NEW t \in Threads, TakeEvent(t)
      PROVE  \/ UNCHANGED fate
             \/ fate' = "aborted" /\ Due /\ Widen(lastRead, Head(Coming).seq) > request
             \/ fate' = Head(Coming).kind /\ Due /\ IsError(Head(Coming))
  BY <1>3 DEF TakeEvent, End
<1>4. ASSUME NEW t \in Threads, NoResponse(t)
      PROVE  \/ UNCHANGED fate
             \/ fate' \in {"io_error", "crashed"} /\ ~Drains(t) /\ (pending # <<>> => ~Head(pending).waiter)
  BY <1>4 DEF NoResponse, End
<1>5. ASSUME NEW t \in Threads, ReplyEnds(t)
      PROVE  \/ fate' = "bad"
             \/ /\ fate' = "io_error" /\ EventsRead(t) /\ req[t] = current[t]
                /\ ~OwnError(t) /\ ~response[t]
  BY <1>5 DEF ReplyEnds, End
<1>6. ASSUME NEW t \in Threads, Continue(t), ~TakeEvent(t), ~NoResponse(t), ~ReplyEnds(t)
      PROVE  UNCHANGED fate
  <2>1. CASE PollForReply(t) \/ PolledReply(t) \/ PolledNothing(t) \/ ReadEvents(t)
             \/ EventArrived(t) \/ Done(t)
    BY <2>1 DEF PollForReply, PolledReply, PolledNothing, ReadEvents, EventArrived, Done
  <2>2. CASE ReplyLoop(t) \/ ReplyArrived(t) \/ AwaitEventReader(t) \/ HandOn(t)
    BY <2>2 DEF ReplyLoop, ReplyArrived, AwaitEventReader, HandOn
  <2>3. CASE ReturnReply(t) \/ ReturnRefused(t)
    BY <2>3 DEF ReturnReply, ReturnRefused, Return
  <2>. QED
    BY <1>6, <2>1, <2>2, <2>3 DEF Continue
<1>. QED
  BY <1>1, <1>2, <1>3, <1>4, <1>5, <1>6 DEF Next

LEMMA FateStep == ASSUME FateTyped, [Next]_vars PROVE FateTyped'
  BY Ends DEF FateTyped, IsError

\* Who takes the display, and who sleeps.
LEMMA OthersThread ==
  ASSUME BaseInv, OthersTyped, NEW t \in Threads, StepOf(t)
  PROVE  OthersTyped'
<1>. DEFINE Sleeping == {"no", "event_notify", "reply_notify"}
            LockTyped == lock' \in {t, NoThread, lock}
            AsleepTyped == asleep' \in [Threads -> Sleeping]
            FilledTyped == filled' \subseteq Nat
<1>. SUFFICES LockTyped /\ AsleepTyped /\ FilledTyped
  BY DEF OthersTyped
<1>1. ASSUME NEW cv, asleep' \in {asleep, Wake(cv, asleep)}
      PROVE  AsleepTyped
  BY <1>1 DEF OthersTyped, Wake
<1>2. ASSUME NEW cv \in {"event_notify", "reply_notify"}, Sleep(t, cv)
      PROVE  LockTyped /\ AsleepTyped
  BY <1>2 DEF OthersTyped, Sleep
<1>3. asleep \in [Threads -> Sleeping] /\ filled \subseteq Nat
  BY DEF OthersTyped
<1>4. CASE Enter(t) \/ Done(t)
  BY <1>3, <1>4 DEF Enter, Send, NextEvent, RoundTrip, Submit, Done, Leave
<1>5. CASE PollForReply(t) \/ PolledNothing(t) \/ TookEvent(t)
  BY <1>3, <1>5 DEF PollForReply, PolledNothing, TookEvent
<1>6. CASE PolledReply(t)
  <2>1. Head(pending).seq \in Nat
    <3>1. pending # <<>>
      BY <1>6, BaseParts, EmptySeq DEF PolledReply, Runs, ReaderInv, Polled
    <3>. QED
      BY <3>1, Pendings
  <2>2. filled' = filled \/ filled' = filled \cup ({Head(pending).seq} \cap Handled)
    BY <1>6 DEF PolledReply
  <2>3. lock' = lock /\ asleep' = asleep
    BY <1>6 DEF PolledReply
  <2>. QED
    BY <1>3, <2>1, <2>2, <2>3
<1>7. CASE NoResponse(t) \/ ReadEvents(t)
  <2>1. LockTyped /\ AsleepTyped
    BY <1>2, <1>3, <1>7 DEF NoResponse, End, ReadEvents
  <2>2. filled' = filled
    BY <1>7 DEF NoResponse, End, ReadEvents
  <2>. QED
    BY <1>3, <2>1, <2>2
<1>8. CASE EventArrived(t) \/ ReplyArrived(t)
  <2>1. lock' = t /\ filled' = filled /\ asleep' \in {asleep, Wake("event_notify", asleep)}
    BY <1>8 DEF EventArrived, ReplyArrived
  <2>. QED
    BY <1>1, <1>3, <2>1
<1>9. CASE ReplyLoop(t) \/ AwaitEventReader(t)
  <2>1. (\E cv \in {"event_notify", "reply_notify"} : Sleep(t, cv)) \/ UNCHANGED asleep
    BY <1>9 DEF ReplyLoop, AwaitEventReader
  <2>2. (\E cv : Sleep(t, cv)) \/ lock' = NoThread
    BY <1>9 DEF ReplyLoop, AwaitEventReader
  <2>3. LockTyped /\ filled' = filled
    BY <1>9, <2>2 DEF ReplyLoop, AwaitEventReader, Sleep
  <2>. QED
    BY <1>2, <1>3, <2>1, <2>3
<1>10. CASE HandOn(t)
  <2>1. Waits(t) /\ asleep' = Wake("reply_notify", asleep) /\ lock' = t
    BY <1>10 DEF HandOn, Settled, EventsRead, Runs, Waits
  <2>2. filled' = filled \cup (IF response[t] THEN {req[t]} \cap Handled ELSE {})
    BY <1>10 DEF HandOn
  <2>3. req[t] \in Nat
    BY <2>1, WaitsFirst
  <2>4. FilledTyped
    BY <1>3, <2>2, <2>3
  <2>. QED
    BY <1>1, <2>1, <2>4
<1>11. CASE ReturnReply(t) \/ ReturnRefused(t)
  <2>1. lock' = NoThread /\ filled' = filled /\ asleep' = Wake("reply_notify", asleep)
    BY <1>11 DEF ReturnReply, ReturnRefused, Return, Leave, Settled
  <2>. QED
    BY <1>1, <1>3, <2>1
<1>. QED
  BY <1>4, <1>5, <1>6, <1>7, <1>8, <1>9, <1>10, <1>11, Zenon DEF StepOf, ThreadPasses

LEMMA OthersStep ==
  ASSUME BaseInv, OthersTyped, [Next]_vars
  PROVE  OthersTyped'
<1>1. CASE NoStep
  BY <1>1 DEF NoStep, OthersTyped
<1>. QED
  BY <1>1, OthersThread, Steps

TypeInv == AnswerInv /\ LastRead /\ FateTyped /\ OthersTyped

LEMMA TypeInit == ASSUME Init PROVE TypeInv
<1>1. LastRead
  <2>1. FirstRequest \in Nat /\ request = FirstRequest /\ lastRead = FirstRequest /\ pending = <<>>
    BY ClientAssumption DEF Init
  <2>. QED
    BY <2>1 DEF LastRead
<1>2. FateTyped /\ OthersTyped
  BY DEF Init, FateTyped, OthersTyped
<1>. QED
  BY <1>1, <1>2, AnswerInit DEF TypeInv

LEMMA TypeStep == ASSUME TypeInv, [Next]_vars PROVE TypeInv'
  BY AnswerStep, LastReadStep, FateStep, OthersStep DEF TypeInv, AnswerInv

LEMMA TypeInvTypeOK == ASSUME TypeInv PROVE TypeOK
<1>1. BaseInv /\ Locals /\ LastRead /\ FateTyped /\ OthersTyped
  BY DEF TypeInv, AnswerInv
<1>2. {request, lastRead, served, read, completed} \subseteq Nat
      /\ request <= FirstRequest + MaxRequests
  BY <1>1, Bounds DEF LastRead
<1>3. pending \in Seq([seq : Nat, waiter : BOOLEAN])
  BY <1>1, BaseParts DEF PendingSent, Request
<1>4. nextEvent \in Seq(Message) /\ Len(nextEvent) <= 1 /\ xcbEvents \in Seq(Message)
      /\ wire \in Seq(Message)
  BY <1>1, BaseParts DEF StreamTyped
<1>5. sent \in Seq([seq : Nat, kind : {"void", "round_trip", "attributes", "geometry"}])
  BY <1>1, BaseParts DEF Numbered, Kind
<1>6. /\ queue \in Seq(1 .. MaxEvents) /\ delivered \in Seq(1 .. MaxEvents)
      /\ emitted \in 0 .. MaxEvents /\ serial \in 1 .. MaxEvents + 1
  BY <1>1, BaseParts, ClientAssumption DEF CountInv, Recorded
<1>7. replies \subseteq Nat
  BY <1>1, BaseParts DEF ReadNumbers
<1>8. /\ eventWaiter \in BOOLEAN /\ pc \in [Threads -> Place]
      /\ current \in [Threads -> Nat] /\ req \in [Threads -> Nat]
      /\ call \in [Threads -> Call \cup {"none"}]
  BY <1>1, BaseParts DEF ThreadsTyped, CallInv
<1>. QED
  BY <1>1, <1>2, <1>3, <1>4, <1>5, <1>6, <1>7, <1>8
  DEF TypeOK, Locals, OthersTyped, FateTyped

\* Every variable has its type, the history of the model included.
THEOREM TypesCorrect == Spec => []TypeOK
  BY TypeInit, TypeStep, TypeInvTypeOK, PTL DEF Spec

-----------------------------------------------------------------------------
(* A refused request goes back to the thread that made it. *)

\* Some thread wants the reply to request n.
Hoped(n) == \E t \in Threads : Wants(t) /\ current[t] = n

\* A thread hopes for every request that was refused, or may be.
Refusals ==
  /\ \A m \in InStream : m.kind = "refused" => Hoped(m.seq)
  /\ \A i \in 1 .. Len(sent) : sent[i].kind = "round_trip" => Hoped(sent[i].seq)

\* The thread that has gone is not waited for in vain.
LEMMA HopedKept ==
  ASSUME BaseInv, Locals, NEW t \in Threads, StepOf(t), NEW n, Hoped(n),
         (ReturnReply(t) \/ ReturnRefused(t)) /\ req[t] = current[t] => n # req[t]
  PROVE  Hoped(n)'
<1>1. PICK u \in Threads : Wants(u) /\ current[u] = n
  BY DEF Hoped
<1>2. /\ OnlyMine(t) /\ WantsSame(t)
  BY LocalStep
<1>3. CASE u # t
  BY <1>1, <1>2, <1>3 DEF OnlyMine, Wants, Hoped
<1>4. CASE u = t
  <2>1. ~ReturnReply(t) /\ ~ReturnRefused(t)
    BY <1>1, <1>4 DEF ReturnReply, ReturnRefused
  <2>2. Wants(t)'
    BY <1>1, <1>2, <1>4, <2>1 DEF WantsSame
  <2>3. ~RoundTrip(t)
    BY <1>1, <1>4 DEF RoundTrip, Begin, Wants
  <2>. QED
    BY <1>1, <1>2, <1>4, <2>2, <2>3 DEF WantsSame, Hoped
<1>. QED
  BY <1>3, <1>4

\* What a thread has got is neither on its way nor refused.
LEMMA ReturnsAnswered ==
  ASSUME AnswerInv, FewRequests, NEW t \in Threads, Going(t),
         ReturnReply(t) \/ ReturnRefused(t)
  PROVE  /\ \A m \in InStream' : m.kind = "refused" => m.seq # req[t]
         /\ \A i \in 1 .. Len(sent) : sent[i].seq # req[t]
<1>. DEFINE h == Head(Coming)
<1>1. BaseInv /\ Waits(t) /\ pc[t] = "events"
  BY DEF AnswerInv, ReturnReply, ReturnRefused, Settled, EventsRead, Runs, Waits
<1>2. /\ req[t] \in Nat /\ FirstRequest <= req[t] /\ req[t] <= request
      /\ Given(req[t], response[t])
  BY <1>1, WaitsFirst, Bounds DEF AnswerInv, Responses
<1>3. ASSUME NEW i \in 1 .. Len(sent)
      PROVE  sent[i].seq # req[t]
  <2>1. sent[i].seq = served + i
    BY <1>1, BaseParts DEF Numbered
  <2>2. req[t] <= read
    BY <1>2 DEF Given, Past
  <2>. QED
    BY <1>1, <1>2, <2>1, <2>2, Bounds
<1>4. InStream' \subseteq InStream
  BY <1>1, GoingKeeps
<1>5. CASE ReturnReply(t)
  <2>1. AnsweredBy(req[t], "reply")
    BY <1>2, <1>5 DEF Given, ReturnReply
  <2>2. ASSUME NEW m \in InStream, m.kind = "refused"
        PROVE  AnsweredBy(m.seq, "refused")
    BY <1>1, <2>2, BaseParts DEF Carried, AnsweredBy
  <2>3. ~AnsweredBy(req[t], "refused")
    BY <1>1, <2>1, BaseParts DEF Recorded, AnsweredBy
  <2>. QED
    BY <1>3, <1>4, <2>2, <2>3
<1>6. CASE ReturnRefused(t)
  <2>1. /\ Takes \/ Passes
        /\ Coming # <<>> /\ h.kind = "refused" /\ Widen(req[t], h.seq) = req[t]
        /\ nextEvent' = <<>> /\ xcbEvents' = Tail(Coming)
    BY <1>6 DEF Going, ReturnRefused, OwnError
  <2>2. Takes
    BY <1>1, <1>6, BaseParts, ReturnRefusedEffect
  <2>3. h \in ToSet(Coming) /\ \A m \in InStream' : Before(h, m)
    BY <1>1, <2>2, BaseParts, TakesStream
  <2>4. h \in InStream
    BY <2>3 DEF InStream
  <2>5. h.seq = req[t]
    BY <1>1, <1>2, <2>1, <2>4, Widened
  <2>6. ASSUME NEW m \in InStream', m.kind = "refused"
        PROVE  m.seq # req[t]
    <3>1. h.seq < m.seq
      BY <2>1, <2>3, <2>6 DEF Before
    <3>. QED
      BY <1>2, <2>5, <3>1
  <2>. QED
    BY <1>3, <2>6
<1>. QED
  BY <1>5, <1>6

LEMMA Numbering ==
  ASSUME NEW a \in Nat, NEW b \in Nat, NEW i \in 1 .. a + b
  PROVE  i \in 1 .. a \/ \E k \in 1 .. b : i = a + k
<1>1. i \in 1 .. a \/ (i - a \in 1 .. b /\ i = a + (i - a))
  OBVIOUS
<1>. QED
  BY <1>1

LEMMA RefusalsStep ==
  ASSUME AnswerInv, Refusals, FewRequests, [Next]_vars
  PROVE  Refusals'
<1>1. BaseInv /\ Locals
  BY DEF AnswerInv
<1>2. CASE NoStep
  <2>1. \A n : Hoped(n) => Hoped(n)'
    BY <1>2 DEF NoStep, Hoped, Wants
  <2>2. CASE UNCHANGED vars \/ (\E why : End(why))
    BY <2>1, <2>2 DEF vars, End, toRead, Refusals, InStream, Coming
  <2>3. CASE Read
    <3>1. InStream' \subseteq InStream /\ UNCHANGED sent
      BY <1>1, <2>3, BaseParts, ReadServer
    <3>. QED
      BY <2>1, <3>1 DEF Refusals
  <2>4. CASE Serve
    <3>1. /\ sent' = Tail(sent) /\ Len(sent) > 0 /\ sent[1].seq = served + 1
      BY <1>1, <2>4, BaseParts, ServeEffect
    <3>2. \E a \in Answers(sent[1].kind) :
            InStream' = InStream \cup (IF a = "none" THEN {}
                                       ELSE {[kind |-> a, seq |-> served + 1, id |-> 0]})
      BY <1>1, <2>4, BaseParts, ServeEffect
    <3>3. 1 \in 1 .. Len(sent) /\ Len(sent') = Len(sent) - 1
          /\ \A i \in 1 .. Len(sent') : i + 1 \in 1 .. Len(sent) /\ sent'[i] = sent[i + 1]
      <4>1. sent \in Seq([seq : Nat, kind : Kind]) /\ Len(sent) \in Nat
        BY <1>1, BaseParts, Bounds DEF Numbered
      <4>2. sent # <<>>
        BY <3>1, <4>1, EmptySeq
      <4>3. Len(sent') = Len(sent) - 1
            /\ \A i \in 1 .. Len(sent') : sent'[i] = sent[i + 1]
        BY <3>1, <4>1, <4>2, HeadTailProperties
      <4>. QED
        BY <3>1, <4>1, <4>3
    <3>4. \A m \in InStream' : m.kind = "refused" => Hoped(m.seq)
      <4>1. "refused" \in Answers(sent[1].kind) => sent[1].kind = "round_trip"
        BY DEF Answers
      <4>2. sent[1].kind = "round_trip" => Hoped(served + 1)
        BY <3>1, <3>3 DEF Refusals
      <4>. QED
        BY <3>2, <4>1, <4>2 DEF Refusals
    <3>. QED
      BY <2>1, <3>3, <3>4 DEF Refusals
  <2>5. CASE Emit
    <3>1. UNCHANGED sent /\ \E m : m.kind = "event" /\ InStream' = InStream \cup {m}
      BY <1>1, <2>5, BaseParts, EmitEffect
    <3>. QED
      BY <2>1, <3>1 DEF Refusals
  <2>. QED
    BY <1>2, <2>2, <2>3, <2>4, <2>5 DEF NoStep
<1>3. ASSUME NEW t \in Threads, StepOf(t), Going(t)
      PROVE  Refusals'
  <2>1. InStream' \subseteq InStream
    BY <1>1, <1>3, GoingKeeps
  <2>2. ASSUME NEW m \in InStream', m.kind = "refused"
        PROVE  Hoped(m.seq)'
    <3>1. Hoped(m.seq)
      BY <2>1, <2>2 DEF Refusals
    <3>2. ReturnReply(t) \/ ReturnRefused(t) => m.seq # req[t]
      BY <1>3, <2>2, ReturnsAnswered
    <3>. QED
      BY <1>1, <1>3, <3>1, <3>2, HopedKept
  <2>3. ASSUME NEW i \in 1 .. Len(sent), NEW n, sent[i].kind = "round_trip", n = sent[i].seq
        PROVE  Hoped(n)'
    <3>1. Hoped(n)
      BY <2>3 DEF Refusals
    <3>2. ReturnReply(t) \/ ReturnRefused(t) => n # req[t]
      BY <1>3, <2>3, ReturnsAnswered
    <3>. QED
      BY <1>1, <1>3, <3>1, <3>2, HopedKept
  <2>4. ASSUME NEW i \in 1 .. Len(sent'), NEW n, sent'[i].kind = "round_trip",
               n = sent'[i].seq
        PROVE  Hoped(n)'
    <3>1. CASE UNCHANGED sent
      BY <2>3, <2>4, <3>1
    <3>2. ASSUME NEW kinds \in Seq(Kind), Submitted(kinds),
                 NEW k \in 1 .. Len(kinds), i = Len(sent) + k
          PROVE  n = request + k /\ kinds[k] = "round_trip"
      <4>1. sent'[Len(sent) + k] = [seq |-> request + k, kind |-> kinds[k]]
        BY <3>2 DEF Submitted
      <4>2. sent'[i] = [seq |-> request + k, kind |-> kinds[k]]
        BY <3>2, <4>1
      <4>. QED
        BY <2>4, <4>2
    <3>3. ASSUME NEW kinds \in Seq(Kind), Submitted(kinds),
                 \A k \in 1 .. Len(kinds) : kinds[k] # "round_trip"
          PROVE  Hoped(n)'
      <4>1. Len(sent) \in Nat /\ Len(kinds) \in Nat /\ Len(sent') = Len(sent) + Len(kinds)
        BY <1>1, <3>3, Bounds, LenProperties DEF Submitted
      <4>2. i \in 1 .. Len(sent) \/ \E k \in 1 .. Len(kinds) : i = Len(sent) + k
        <5>1. i \in 1 .. Len(sent) + Len(kinds)
          BY <4>1
        <5>. QED
          BY <4>1, <5>1, Numbering
      <4>3. i \in 1 .. Len(sent)
        BY <3>2, <3>3, <4>2
      <4>4. sent'[i] = sent[i]
        BY <3>3, <4>3 DEF Submitted
      <4>. QED
        BY <2>3, <2>4, <4>3, <4>4
    <3>4. CASE /\ RoundTrip(t) /\ Submitted(<<"round_trip">>) /\ request' = request + 1
      <4>1. Len(sent) \in Nat /\ Len(<<"round_trip">>) = 1 /\ Len(sent') = Len(sent) + 1
            /\ <<"round_trip">> \in Seq(Kind)
        BY <1>1, <3>4, Bounds DEF Submitted, Kind
      <4>2. i \in 1 .. Len(sent) \/ i = Len(sent) + 1
        BY <4>1
      <4>3. CASE i \in 1 .. Len(sent)
        <5>1. sent'[i] = sent[i]
          BY <3>4, <4>3 DEF Submitted
        <5>. QED
          BY <2>3, <2>4, <4>3, <5>1
      <4>4. CASE i = Len(sent) + 1
        <5>1. n = request + 1
          <6>1. 1 \in 1 .. Len(<<"round_trip">>)
            BY <4>1
          <6>. QED
            BY <3>2, <3>4, <4>1, <4>4, <6>1
        <5>2. current'[t] = request' /\ pc'[t] = "reply"
          BY <1>1, <3>4, BaseParts DEF RoundTrip, Goto, ThreadsTyped
        <5>. QED
          BY <3>4, <5>1, <5>2 DEF Hoped, Wants
      <4>. QED
        BY <4>2, <4>3, <4>4
    <3>5. CASE Enter(t)
      <4>1. /\ <<"void">> \in Seq(Kind) /\ <<"attributes", "geometry">> \in Seq(Kind)
            /\ \A k \in 1 .. Len(<<"void">>) : <<"void">>[k] # "round_trip"
            /\ \A k \in 1 .. Len(<<"attributes", "geometry">>) :
                 <<"attributes", "geometry">>[k] # "round_trip"
        BY DEF Kind
      <4>. QED
        BY <1>1, <3>1, <3>3, <3>4, <3>5, <4>1, BaseParts, EnterSubmits
    <3>6. CASE ~Enter(t)
      BY <1>1, <1>3, <3>1, <3>6, BaseParts, NothingNew, ClientAssumption DEF StepOf
    <3>. QED
      BY <3>5, <3>6
  <2>. QED
    BY <2>2, <2>4 DEF Refusals
<1>. QED
  BY <1>1, <1>2, <1>3, Steps

LEMMA RefusalsInit == ASSUME Init PROVE Refusals /\ RefusedComesBack
<1>1. ToSet(Coming) = {} /\ ToSet(wire) = {} /\ Len(sent) = 0
  BY DEF Init, Coming, ToSet
<1>. QED
  BY <1>1 DEF Refusals, InStream, RefusedComesBack, Init

\* An error that nobody has asked for is not an error that a thread waits for.
LEMMA RefusedNotDue ==
  ASSUME BaseInv, LastRead, Refusals, FewRequests, Due
  PROVE  Head(Coming).kind # "refused"
<1>. DEFINE h == Head(Coming)
<1>. SUFFICES ASSUME h.kind = "refused" PROVE FALSE
  OBVIOUS
<1>1. Coming # <<>> /\ h \in InStream
  BY BaseParts, HeadFirst DEF InStream, StreamSlot, Due
<1>2. PICK t \in Threads : Wants(t) /\ current[t] = h.seq
  BY <1>1 DEF Refusals, Hoped
<1>3. PICK i \in 1 .. Len(pending) : pending[i] = [seq |-> current[t], waiter |-> TRUE]
  BY <1>2, BaseParts DEF ReaderInv, Wanted
<1>4. pending # <<>>
  <2>1. Len(pending) # 0
    BY <1>3, Bounds
  <2>. QED
    BY <2>1, EmptySeq
<1>5. Head(pending) = pending[1] /\ pending[1].seq <= h.seq /\ pending[1].seq \in Nat
      /\ lastRead <= pending[1].seq
  BY <1>2, <1>3, <1>4, Pendings DEF LastRead
<1>6. lastRead \in Nat /\ FirstRequest <= lastRead /\ lastRead <= request /\ lastRead <= h.seq
      /\ h.seq \in Nat
  <2>1. h.seq \in Nat
    BY SMTT(30), <1>1, BaseParts, Bounds DEF Carried
  <2>2. lastRead \in Nat /\ FirstRequest <= lastRead /\ lastRead <= request
    BY Bounds DEF LastRead
  <2>. QED
    BY <1>5, <2>1, <2>2
<1>7. Widen(lastRead, h.seq) = h.seq
  BY <1>1, <1>6, Widened
<1>. QED
  BY <1>4, <1>5, <1>6, <1>7 DEF Due

\* BadAlloc and BadAccess never reach the error handler, which would end the
\* program: they come back from _XReply in the thread that made the request,
\* whichever thread reads them, as long as no more requests are made than there
\* are numbers.
THEOREM RefusalsComeBack ==
  ASSUME FewRequests
  PROVE  Spec => []RefusedComesBack
<1>. DEFINE I == TypeInv /\ Refusals /\ RefusedComesBack
<1>1. Init => I
  BY TypeInit, RefusalsInit
<1>2. ASSUME I, [Next]_vars
      PROVE  I'
  <2>1. AnswerInv /\ BaseInv /\ LastRead
    BY <1>2 DEF TypeInv, AnswerInv
  <2>2. TypeInv' /\ Refusals'
    BY <1>2, <2>1, TypeStep, RefusalsStep, FewRequests
  <2>3. RefusedComesBack'
    <3>1. Due => Head(Coming).kind # "refused"
      BY <1>2, <2>1, RefusedNotDue, FewRequests
    <3>. QED
      BY <1>2, <3>1, Ends DEF RefusedComesBack
  <2>. QED
    BY <2>2, <2>3
<1>. QED
  BY <1>1, <1>2, PTL DEF Spec

-----------------------------------------------------------------------------
(* As long as no answer has overtaken an event. *)

\* The messages come in the order of their numbers, and Xlib is not ahead of
\* libxcb.
InSeq == ~overtaken => InSequence /\ lastRead <= read

\* While the messages are in order, a number is widened to itself.
LEMMA HeadNumber ==
  ASSUME BaseInv, LastRead, FewRequests, InSequence, Coming # <<>>
  PROVE  /\ Head(Coming) \in ToSet(Coming) /\ Head(Coming) \in InStream
         /\ Head(Coming).seq \in Nat /\ Head(Coming).seq <= read
         /\ Widen(lastRead, Head(Coming).seq) = Head(Coming).seq
         /\ \A m \in InStream : m.seq \in Nat /\ Head(Coming).seq <= m.seq
<1>. DEFINE h == Head(Coming)
<1>1. h \in ToSet(Coming) /\ h \in InStream
  BY BaseParts, HeadFirst DEF InStream, StreamSlot
<1>2. lastRead \in Nat /\ FirstRequest <= lastRead /\ lastRead <= request /\ lastRead <= h.seq
  BY <1>1, Bounds DEF LastRead, InSequence
<1>3. h.seq \in Nat /\ h.seq <= read
  BY <1>1, BaseParts, Bounds DEF Carried, ReadNumbers
<1>4. Widen(lastRead, h.seq) = h.seq
  BY <1>1, <1>2, Widened
<1>5. \A m \in InStream : m.seq \in Nat
  BY BaseParts, Bounds DEF Carried
<1>6. \A m \in InStream : m = h \/ h.seq <= m.seq
  BY BaseParts, HeadFirst DEF StreamSlot, Before
<1>. QED
  BY <1>1, <1>3, <1>4, <1>5, <1>6

\* The thread that has its answer has read all that was sent before.
LEMMA NothingEarlier ==
  ASSUME AnswerInv, LastRead, FewRequests, InSequence, NEW t \in Threads, EventsRead(t)
  PROVE  \A m \in InStream : m.seq \in Nat /\ req[t] <= m.seq
<1>1. BaseInv /\ Waits(t) /\ pc[t] = "events"
  BY DEF AnswerInv, EventsRead, Runs, Waits
<1>2. /\ req[t] \in Nat /\ pending # <<>> /\ Head(pending).seq = req[t]
      /\ req[t] <= read
  BY <1>1, WaitsFirst DEF AnswerInv, Responses, Given, Past
<1>3. ASSUME NEW m \in ToSet(wire)
      PROVE  m.seq \in Nat /\ req[t] <= m.seq
  <2>1. m.seq \in Nat /\ read <= m.seq
    BY <1>1, BaseParts, Bounds DEF Carried, InStream, ReadNumbers
  <2>. QED
    BY <1>1, <1>2, <2>1, Bounds
<1>4. ASSUME NEW m \in ToSet(Coming)
      PROVE  m.seq \in Nat /\ req[t] <= m.seq
  <2>1. Coming # <<>>
    BY <1>4, EmptySeq DEF ToSet
  <2>2. /\ Head(Coming).seq \in Nat /\ Head(Coming).seq <= m.seq /\ m.seq \in Nat
        /\ Widen(lastRead, Head(Coming).seq) = Head(Coming).seq
    BY <1>1, <1>4, <2>1, HeadNumber DEF InStream
  <2>3. ~(Head(Coming).seq < req[t])
    BY <1>2, <2>1, <2>2 DEF EventsRead, Due
  <2>. QED
    BY <1>2, <2>2, <2>3
<1>. QED
  BY <1>3, <1>4 DEF InStream

LEMMA InSeqStep ==
  ASSUME AnswerInv, LastRead, InSeq, FewRequests, [Next]_vars
  PROVE  InSeq'
<1>1. BaseInv
  BY DEF AnswerInv
<1>2. /\ lastRead \in Nat /\ read \in Nat
      /\ \A m \in ToSet(Coming) : m.seq \in Nat
  BY <1>1, BaseParts, Bounds DEF LastRead, Carried, InStream
<1>3. CASE NoStep
  <2>1. UNCHANGED <<lastRead, overtaken>>
    BY <1>3 DEF NoStep
  <2>2. CASE UNCHANGED vars \/ (\E why : End(why))
    BY <2>1, <2>2 DEF vars, End, xcb, InSeq, InSequence, Coming
  <2>3. CASE Serve \/ Emit
    <3>1. UNCHANGED <<Coming, read>>
      BY <1>1, <2>3, BaseParts, ServeEffect, EmitEffect DEF xcb
    <3>. QED
      BY <2>1, <3>1 DEF InSeq, InSequence
  <2>4. CASE Read
    <3>1. read <= read' /\ \A m \in ToSet(Coming)' : m \in ToSet(Coming) \/ m \in ToSet(wire)
      BY <1>1, <2>4, BaseParts, ReadServer
    <3>2. \A m \in ToSet(wire) : m.seq \in Nat /\ read <= m.seq
      BY <1>1, BaseParts, Bounds DEF Carried, InStream, ReadNumbers
    <3>3. read' \in Nat
      <4>1. ServerInv'
        BY <1>1, <2>4, BaseParts, ReadServer
      <4>2. read' \in FirstRequest .. served' /\ served' \in Nat
        BY <4>1 DEF ServerInv, ReadNumbers, Numbered
      <4>. QED
        BY <1>1, <4>2, Bounds
    <3>. QED
      BY <1>2, <2>1, <3>1, <3>2, <3>3 DEF InSeq, InSequence
  <2>. QED
    BY <1>3, <2>2, <2>3, <2>4 DEF NoStep
<1>4. ASSUME NEW t \in Threads, StepOf(t), Going(t)
      PROVE  InSeq'
  <2>1. ToSet(Coming)' \subseteq ToSet(Coming) /\ read' = read
    BY <1>1, <1>4, GoingKeeps DEF ThreadKeeps
  <2>2. ASSUME UNCHANGED <<lastRead, overtaken>> PROVE InSeq'
    BY <2>1, <2>2 DEF InSeq, InSequence
  <2>3. CASE PolledReply(t)
    <3>. DEFINE n == Head(pending).seq
    <3>1. /\ lastRead' = n /\ Ready(n)
          /\ overtaken' = (overtaken \/ \E m \in ToSet(Coming) : m.seq < n)
      BY <2>3 DEF PolledReply
    <3>2. n \in Nat
      <4>1. pending # <<>>
        BY <1>1, <2>3, BaseParts, EmptySeq DEF PolledReply, Runs, ReaderInv, Polled
      <4>. QED
        BY <1>1, <4>1, Pendings
    <3>3. n <= read
      BY <1>1, <3>1, <3>2, ReadyPast DEF Past
    <3>4. ~overtaken' => ~overtaken /\ \A m \in ToSet(Coming) : ~(m.seq < n)
      BY <3>1, Zenon
    <3>. HIDE DEF n
    <3>5. ~overtaken' => \A m \in ToSet(Coming)' : m.seq >= n
      BY <1>2, <2>1, <3>2, <3>4
    <3>. QED
      BY <2>1, <3>1, <3>3, <3>5 DEF InSeq, InSequence
  <2>4. CASE HandOn(t) \/ ReturnReply(t) \/ ReturnRefused(t)
    <3>1. EventsRead(t) /\ lastRead' = req[t] /\ overtaken' = overtaken
      BY <2>4 DEF HandOn, ReturnReply, ReturnRefused, Return, Settled, Answered, seen
    <3>2. req[t] <= read
      BY <3>1 DEF AnswerInv, Responses, Given, Past, EventsRead, Runs
    <3>3. ~overtaken => \A m \in InStream : m.seq \in Nat /\ req[t] <= m.seq
      BY <3>1, NothingEarlier DEF InSeq
    <3>4. req[t] \in Nat
      BY <1>1, BaseParts DEF ThreadsTyped
    <3>5. ~overtaken => \A m \in ToSet(Coming)' : m.seq >= req[t]
      BY <2>1, <3>3, <3>4 DEF InStream
    <3>. QED
      BY <2>1, <3>1, <3>2, <3>5 DEF InSeq, InSequence
  <2>5. CASE TookEvent(t)
    <3>1. /\ lastRead' = Widen(lastRead, Head(Coming).seq) /\ overtaken' = overtaken
          /\ Coming # <<>>
      BY <2>5 DEF TookEvent, Due, seen
    <3>2. ~overtaken => /\ lastRead' = Head(Coming).seq /\ Head(Coming).seq <= read
                        /\ \A m \in ToSet(Coming) : Head(Coming).seq <= m.seq
      BY <1>1, <3>1, HeadNumber DEF InSeq, InStream
    <3>. QED
      BY <2>1, <3>1, <3>2 DEF InSeq, InSequence
  <2>6. CASE NoResponse(t) \/ ReadEvents(t) \/ EventArrived(t) \/ ReplyLoop(t)
    BY <2>2, <2>6 DEF NoResponse, End, ReadEvents, EventArrived, ReplyLoop, seen
  <2>7. CASE Done(t) \/ PollForReply(t) \/ PolledNothing(t) \/ ReplyArrived(t)
             \/ AwaitEventReader(t)
    BY <2>2, <2>7 DEF Done, PollForReply, PolledNothing, ReplyArrived, AwaitEventReader, seen
  <2>8. CASE Enter(t)
    BY <2>2, <2>8 DEF Enter, Send, NextEvent, RoundTrip, seen
  <2>. QED
    BY <1>4, <2>3, <2>4, <2>5, <2>6, <2>7, <2>8 DEF StepOf, ThreadPasses
<1>. QED
  BY <1>1, <1>3, <1>4, Steps

LEMMA OvertakenStays ==
  ASSUME BaseInv, [Next]_vars, ~overtaken'
  PROVE  ~overtaken
<1>1. CASE NoStep
  BY <1>1 DEF NoStep
<1>2. ASSUME NEW t \in Threads, StepOf(t)
      PROVE  ~overtaken
  <2>1. CASE PolledReply(t)
    BY <2>1, Zenon DEF PolledReply
  <2>2. CASE Enter(t) \/ Done(t) \/ PollForReply(t) \/ PolledNothing(t) \/ ReplyArrived(t)
    BY <2>2 DEF Enter, Send, NextEvent, RoundTrip, Done, PollForReply, PolledNothing,
                ReplyArrived, seen
  <2>3. CASE NoResponse(t) \/ ReadEvents(t) \/ EventArrived(t) \/ ReplyLoop(t)
    BY <2>3 DEF NoResponse, End, ReadEvents, EventArrived, ReplyLoop, seen
  <2>4. CASE AwaitEventReader(t) \/ HandOn(t) \/ ReturnReply(t) \/ ReturnRefused(t)
    BY <2>4 DEF AwaitEventReader, HandOn, ReturnReply, ReturnRefused, Return, seen
  <2>5. CASE TookEvent(t)
    BY <2>5 DEF TookEvent, seen
  <2>. QED
    BY <1>2, <2>1, <2>2, <2>3, <2>4, <2>5 DEF StepOf, ThreadPasses
<1>. QED
  BY <1>1, <1>2, Steps

\* What a step adds to the calls that have returned.
LEMMA Returns ==
  ASSUME BaseInv, [Next]_vars
  PROVE  \/ UNCHANGED returned
         \/ \E t \in Threads :
              /\ ReturnReply(t) \/ ReturnRefused(t)
              /\ EventsRead(t) /\ req[t] = current[t]
              /\ \E kind \in {"reply", "refused"} :
                   returned' = returned \cup
                     {[seq |-> req[t], kind |-> kind, call |-> call[t], events |-> serial - 1]}
<1>1. CASE NoStep
  BY <1>1 DEF NoStep
<1>2. ASSUME NEW t \in Threads, StepOf(t)
      PROVE  \/ UNCHANGED returned
             \/ /\ ReturnReply(t) \/ ReturnRefused(t)
                /\ EventsRead(t) /\ req[t] = current[t]
                /\ \E kind \in {"reply", "refused"} :
                     returned' = returned \cup
                       {[seq |-> req[t], kind |-> kind, call |-> call[t], events |-> serial - 1]}
  <2>1. CASE Enter(t) \/ Done(t) \/ PollForReply(t) \/ PolledNothing(t) \/ ReplyArrived(t)
    BY <2>1 DEF Enter, Send, NextEvent, RoundTrip, Done, PollForReply, PolledNothing,
                ReplyArrived, seen
  <2>2. CASE NoResponse(t) \/ ReadEvents(t) \/ EventArrived(t) \/ ReplyLoop(t)
    BY <2>2 DEF NoResponse, End, ReadEvents, EventArrived, ReplyLoop, seen
  <2>3. CASE AwaitEventReader(t) \/ HandOn(t) \/ TookEvent(t) \/ PolledReply(t)
    BY <2>3 DEF AwaitEventReader, HandOn, TookEvent, PolledReply, seen
  <2>4. CASE ReturnReply(t) \/ ReturnRefused(t)
    BY <2>4 DEF ReturnReply, ReturnRefused, Return, Settled
  <2>. QED
    BY <1>2, <2>1, <2>2, <2>3, <2>4 DEF StepOf, ThreadPasses
<1>. QED
  BY <1>1, <1>2, Steps

\* All events that were sent before the answer have been queued.
LEMMA AllQueued ==
  ASSUME AnswerInv, LastRead, FewRequests, InSequence, NEW t \in Threads, EventsRead(t),
         NEW x \in answers, x.seq = req[t]
  PROVE  serial - 1 >= x.events
<1>1. BaseInv
  BY DEF AnswerInv
<1>2. /\ serial \in Nat /\ emitted \in Nat /\ x.events \in 0 .. emitted
      /\ EventIds(InStream) = serial .. emitted
  BY <1>1, BaseParts, Bounds DEF Recorded, CountInv
<1>3. CASE serial <= x.events
  <2>1. serial \in serial .. emitted
    BY <1>2, <1>3
  <2>2. PICK m \in InStream : m.kind = "event" /\ m.id = serial
    BY <1>2, <2>1 DEF EventIds
  <2>3. m.seq < req[t]
    BY <1>1, <1>3, <2>2, BaseParts DEF Carried
  <2>4. m.seq \in Nat /\ req[t] <= m.seq /\ req[t] \in Nat
    BY <1>1, BaseParts, NothingEarlier DEF ThreadsTyped
  <2>. QED
    BY <2>3, <2>4
<1>. QED
  BY <1>2, <1>3

\* The calls that have returned, with the events that had been queued.
LEMMA ReturnedOld ==
  ASSUME BaseInv, BaseInv', OwnAnswers, [Next]_vars, NEW r \in returned,
         NEW x \in answers', x.seq = r.seq
  PROVE  x \in answers
<1>1. PICK y \in answers : y.seq = r.seq
  BY DEF OwnAnswers
<1>2. answers \subseteq answers'
  BY Steps, NoStepEffect, GoingKeeps DEF ThreadKeeps
<1>3. Recorded'
  BY BaseParts DEF BaseInv, FlowInv, ServerInv
<1>4. x = y
  BY <1>1, <1>2, <1>3 DEF Recorded
<1>. QED
  BY <1>1, <1>4

LEMMA BeforeStep ==
  ASSUME AnswerInv, AnswerInv', LastRead, InSeq, OwnAnswers, EventsBeforeReplies, FewRequests,
         [Next]_vars
  PROVE  EventsBeforeReplies'
<1>1. BaseInv /\ BaseInv'
  BY DEF AnswerInv
<1>2. SUFFICES ASSUME ~overtaken', NEW r \in returned', NEW x \in answers', x.seq = r.seq
               PROVE  r.events >= x.events
  BY DEF EventsBeforeReplies
<1>3. ~overtaken /\ InSequence
  BY <1>1, <1>2, OvertakenStays DEF InSeq
<1>4. CASE r \in returned
  <2>1. x \in answers
    BY <1>1, <1>2, <1>4, ReturnedOld
  <2>. QED
    BY <1>2, <1>3, <1>4, <2>1 DEF EventsBeforeReplies
<1>5. CASE r \notin returned
  <2>1. PICK t \in Threads :
          /\ ReturnReply(t) \/ ReturnRefused(t)
          /\ EventsRead(t) /\ r.seq = req[t] /\ r.events = serial - 1
    BY <1>1, <1>2, <1>5, Returns
  <2>2. answers' = answers
    BY <2>1 DEF ReturnReply, ReturnRefused, Return
  <2>. QED
    BY <1>2, <1>3, <2>1, <2>2, AllQueued
<1>. QED
  BY <1>4, <1>5

OrderInv == TypeInv /\ OwnAnswers /\ InSeq

LEMMA OrderInit == ASSUME Init PROVE OrderInv
<1>1. InSeq
  <2>1. ToSet(Coming) = {} /\ lastRead = FirstRequest /\ read = FirstRequest
        /\ FirstRequest \in Nat
    BY ClientAssumption DEF Init, Coming, ToSet
  <2>. QED
    BY <2>1 DEF InSeq, InSequence
<1>. QED
  BY <1>1, TypeInit, LocalsInit DEF OrderInv

LEMMA OrderStep == ASSUME OrderInv, FewRequests, [Next]_vars PROVE OrderInv'
  BY TypeStep, ReturnedStep, InSeqStep DEF OrderInv, TypeInv, AnswerInv

\* XSync, or any other call with a reply, leaves behind no event that was sent
\* before the reply: all of them have been queued when it returns, as long as
\* poll_for_response has not taken an answer before an earlier event and
\* no more requests are made than there are numbers.
THEOREM RepliesComeLast ==
  ASSUME FewRequests
  PROVE  Spec => []EventsBeforeReplies
<1>. DEFINE I == OrderInv /\ EventsBeforeReplies
<1>1. Init => I
  BY OrderInit DEF Init, EventsBeforeReplies
<1>2. I /\ [Next]_vars => I'
  BY OrderStep, BeforeStep, FewRequests DEF OrderInv, TypeInv
<1>. QED
  BY <1>1, <1>2, PTL DEF Spec

-----------------------------------------------------------------------------
(* What becomes of an answer. *)

OnWire(n) == \E m \in ToSet(wire) : m.kind = "reply" /\ m.seq = n
Erred(n) == \E m \in InStream : IsError(m) /\ m.seq = n
Asked(n) == \E i \in 1 .. Len(sent) : sent[i].seq = n /\ sent[i].kind # "void"
Brought(n) == \E t \in Threads : pc[t] = "events" /\ req[t] = n /\ response[t]

\* The server is still to answer request n, or its answer is on its way.
Awaited(n) == Asked(n) \/ OnWire(n) \/ n \in replies \/ Brought(n) \/ Erred(n)

\* Thread t takes the answer to n.
Taken(t, n) ==
  \/ PolledReply(t) /\ Head(pending).seq = n
  \/ (HandOn(t) \/ ReturnReply(t) \/ ReturnRefused(t)) /\ req[t] = n

LEMMA AskedKept ==
  ASSUME BaseInv, NEW n, Asked(n), [Next]_vars
  PROVE  Awaited(n)'
<1>1. PICK i \in 1 .. Len(sent) : sent[i].seq = n /\ sent[i].kind # "void"
  BY DEF Asked
<1>2. CASE UNCHANGED sent
  BY <1>1, <1>2 DEF Asked, Awaited
<1>3. CASE Serve
  <2>1. /\ sent' = Tail(sent) /\ Len(sent) > 0 /\ sent[1].seq = served + 1
    BY <1>3, BaseParts, ServeEffect
  <2>2. PICK a \in Answers(sent[1].kind) :
          /\ InStream' = InStream \cup (IF a = "none" THEN {}
                                        ELSE {[kind |-> a, seq |-> served + 1, id |-> 0]})
          /\ ToSet(wire)' = ToSet(wire) \cup (IF a = "none" THEN {}
                                        ELSE {[kind |-> a, seq |-> served + 1, id |-> 0]})
    BY <1>3, BaseParts, ServeEffect
  <2>3. CASE i = 1
    <3>1. a \in {"reply", "refused", "bad"}
      BY <1>1, <2>3 DEF Answers
    <3>. DEFINE m == [kind |-> a, seq |-> served + 1, id |-> 0]
    <3>2. m \in InStream' /\ m \in ToSet(wire)'
      BY <2>2, <3>1
    <3>3. m.kind = a /\ m.seq = n
      BY <1>1, <2>1, <2>3
    <3>. HIDE DEF m
    <3>4. OnWire(n)' \/ Erred(n)'
      BY <3>1, <3>2, <3>3 DEF OnWire, Erred, IsError
    <3>. QED
      BY <3>4 DEF Awaited
  <2>4. CASE i # 1
    <3>1. sent \in Seq([seq : Nat, kind : Kind]) /\ Len(sent) \in Nat
      BY BaseParts, Bounds DEF Numbered
    <3>2. sent # <<>>
      BY <2>1, <3>1, EmptySeq
    <3>3. /\ Len(sent') = Len(sent) - 1
          /\ \A j \in 1 .. Len(sent') : sent'[j] = sent[j + 1]
      BY <2>1, <3>1, <3>2, HeadTailProperties
    <3>4. i - 1 \in 1 .. Len(sent') /\ (i - 1) + 1 = i
      BY <2>4, <3>1, <3>3
    <3>5. sent'[i - 1] = sent[i]
      BY <3>3, <3>4
    <3>. QED
      BY <1>1, <3>4, <3>5 DEF Asked, Awaited
  <2>. QED
    BY <2>3, <2>4
<1>4. ASSUME NEW kinds \in Seq(Kind), Submitted(kinds)
      PROVE  Awaited(n)'
  <2>1. i \in 1 .. Len(sent') /\ sent'[i] = sent[i]
    <3>1. Len(sent) \in Nat /\ Len(kinds) \in Nat /\ Len(sent') = Len(sent) + Len(kinds)
      BY <1>4, Bounds, LenProperties DEF Submitted
    <3>. QED
      BY <1>4, <3>1 DEF Submitted
  <2>. QED
    BY <1>1, <2>1 DEF Asked, Awaited
<1>5. CASE NoStep /\ ~Serve
  <2>1. UNCHANGED sent
    BY <1>5 DEF NoStep, vars, End, Read, Emit, toRead
  <2>. QED
    BY <1>2, <2>1
<1>6. ASSUME NEW t \in Threads, StepOf(t)
      PROVE  Awaited(n)'
  <2>1. <<"void">> \in Seq(Kind) /\ <<"round_trip">> \in Seq(Kind)
        /\ <<"attributes", "geometry">> \in Seq(Kind)
    BY DEF Kind
  <2>2. CASE Enter(t)
    BY <1>2, <1>4, <2>1, <2>2, BaseParts, EnterSubmits
  <2>3. CASE ~Enter(t)
    BY <1>2, <1>6, <2>3, BaseParts, NothingNew, ClientAssumption DEF StepOf
  <2>. QED
    BY <2>2, <2>3
<1>. QED
  BY <1>3, <1>5, <1>6, Steps

LEMMA OnWireKept ==
  ASSUME BaseInv, NEW n, OnWire(n), [Next]_vars
  PROVE  Awaited(n)'
<1>1. PICK m \in ToSet(wire) : m.kind = "reply" /\ m.seq = n
  BY DEF OnWire
<1>2. CASE m \in ToSet(wire)'
  BY <1>1, <1>2 DEF OnWire, Awaited
<1>3. CASE Read
  <2>1. PICK got \in SUBSET InStream :
          /\ ToSet(wire) = got \cup ToSet(wire)'
          /\ \A x \in got : x.kind = "reply" => x.seq \in replies'
    BY <1>3, BaseParts, ReadServer
  <2>. QED
    BY <1>1, <1>2, <2>1 DEF Awaited
<1>4. CASE Serve \/ Emit
  BY <1>1, <1>2, <1>4, BaseParts, ServeEffect, EmitEffect
<1>5. CASE UNCHANGED vars \/ (\E why : End(why))
  BY <1>1, <1>2, <1>5 DEF vars, End, toRead
<1>6. ASSUME NEW t \in Threads, Going(t)
      PROVE  Awaited(n)'
  BY <1>1, <1>2, <1>6, GoingKeeps
<1>. QED
  BY <1>3, <1>4, <1>5, <1>6, Steps DEF NoStep

LEMMA ErredKept ==
  ASSUME AnswerInv, FewRequests, NEW n, Erred(n), [Next]_vars
  PROVE  Erred(n)' \/ \E t \in Threads : StepOf(t) /\ ReturnRefused(t) /\ req[t] = n
<1>1. PICK m \in InStream : IsError(m) /\ m.seq = n
  BY DEF Erred
<1>2. CASE m \in InStream'
  BY <1>1, <1>2 DEF Erred
<1>3. BaseInv
  BY DEF AnswerInv
<1>4. CASE Read
  <2>1. PICK got \in SUBSET InStream :
          /\ InStream = InStream' \cup got
          /\ \A x \in got : x.kind # "reply" => x \in ToSet(Coming)'
    BY <1>3, <1>4, BaseParts, ReadServer
  <2>2. m \in InStream'
    BY <1>1, <2>1 DEF IsError, InStream
  <2>. QED
    BY <1>2, <2>2
<1>5. CASE Serve \/ Emit
  BY <1>1, <1>2, <1>3, <1>5, BaseParts, ServeEffect, EmitEffect
<1>6. CASE UNCHANGED vars \/ (\E why : End(why))
  BY <1>1, <1>2, <1>6 DEF vars, End, toRead, InStream, Coming
<1>7. ASSUME NEW t \in Threads, StepOf(t), Going(t), m \notin InStream'
      PROVE  ReturnRefused(t) /\ req[t] = n
  <2>1. (TookEvent(t) \/ ReturnRefused(t)) /\ Takes
    <3>1. ~Passes
      BY <1>7, PassesIds
    <3>. QED
      BY <1>7, <3>1 DEF Going
  <2>2. m = Head(Coming)
    BY <1>3, <1>7, <2>1, BaseParts, TakesStream
  <2>3. ReturnRefused(t) /\ Widen(req[t], m.seq) = req[t] /\ Waits(t)
    BY <1>1, <2>1, <2>2
    DEF TookEvent, ReturnRefused, OwnError, Settled, EventsRead, Runs, Waits
  <2>4. req[t] \in Nat /\ FirstRequest <= req[t] /\ req[t] <= request
    BY <1>3, <2>3, WaitsFirst, Bounds
  <2>5. m.seq = req[t]
    BY <1>3, <2>3, <2>4, Widened
  <2>. QED
    BY <1>1, <2>3, <2>5
<1>. QED
  BY <1>2, <1>3, <1>4, <1>5, <1>6, <1>7, Steps DEF NoStep

LEMMA RepliesKept ==
  ASSUME BaseInv, Locals, NEW n, n \in replies, [Next]_vars
  PROVE  Awaited(n)' \/ \E t \in Threads : StepOf(t) /\ Taken(t, n)
<1>1. ASSUME n \in replies' PROVE Awaited(n)'
  BY <1>1 DEF Awaited
<1>2. CASE NoStep
  <2>1. CASE Read
    BY <1>1, <2>1, BaseParts, ReadServer
  <2>2. CASE Serve \/ Emit
    BY <1>1, <2>2, BaseParts, ServeEffect, EmitEffect DEF xcb
  <2>3. CASE UNCHANGED vars \/ (\E why : End(why))
    BY <1>1, <2>3 DEF vars, End, xcb
  <2>. QED
    BY <1>2, <2>1, <2>2, <2>3 DEF NoStep
<1>3. ASSUME NEW t \in Threads, StepOf(t)
      PROVE  Awaited(n)' \/ Taken(t, n)
  <2>1. CASE PolledReply(t)
    <3>1. replies' = replies \ {Head(pending).seq}
      BY <2>1 DEF PolledReply
    <3>. QED
      BY <1>1, <2>1, <3>1 DEF Taken
  <2>2. CASE ReplyArrived(t)
    <3>1. /\ replies' = replies \ {req[t]} /\ req' = req /\ pc' = [pc EXCEPT ![t] = "events"]
          /\ response' = [response EXCEPT ![t] = req[t] \in replies]
      BY <2>2 DEF ReplyArrived, Goto
    <3>2. CASE req[t] = n
      <4>1. pc'[t] = "events" /\ response'[t] /\ req'[t] = n
        BY <3>1, <3>2, BaseParts DEF ThreadsTyped, Locals
      <4>. QED
        BY <4>1 DEF Brought, Awaited
    <3>. QED
      BY <1>1, <3>1, <3>2
  <2>3. CASE Enter(t) \/ Done(t) \/ PollForReply(t) \/ PolledNothing(t) \/ TookEvent(t)
    BY <1>1, <2>3 DEF Enter, Send, NextEvent, RoundTrip, Done, PollForReply, PolledNothing,
                      TookEvent, xcb
  <2>4. CASE NoResponse(t) \/ ReadEvents(t) \/ EventArrived(t) \/ ReplyLoop(t)
    BY <1>1, <2>4 DEF NoResponse, End, ReadEvents, EventArrived, ReplyLoop, xcb
  <2>5. CASE AwaitEventReader(t) \/ HandOn(t) \/ ReturnReply(t) \/ ReturnRefused(t)
    BY <1>1, <2>5 DEF AwaitEventReader, HandOn, ReturnReply, ReturnRefused, Return, xcb
  <2>. QED
    BY <1>3, <2>1, <2>2, <2>3, <2>4, <2>5 DEF StepOf, ThreadPasses
<1>. QED
  BY <1>2, <1>3, Steps

LEMMA BroughtKept ==
  ASSUME BaseInv, Locals, NEW n, Brought(n), [Next]_vars
  PROVE  Awaited(n)' \/ \E t \in Threads : StepOf(t) /\ Taken(t, n)
<1>1. PICK u \in Threads : pc[u] = "events" /\ req[u] = n /\ response[u]
  BY DEF Brought
<1>2. ASSUME pc'[u] = pc[u], req'[u] = req[u], response'[u] = response[u]
      PROVE  Awaited(n)'
  BY <1>1, <1>2 DEF Brought, Awaited
<1>3. CASE NoStep
  BY <1>2, <1>3 DEF NoStep
<1>4. ASSUME NEW t \in Threads, StepOf(t)
      PROVE  Awaited(n)' \/ Taken(t, n)
  <2>1. CASE u # t
    <3>1. OnlyMine(t)
      BY <1>4, LocalStep
    <3>. QED
      BY <1>2, <2>1, <3>1 DEF OnlyMine
  <2>2. CASE u = t
    <3>1. CASE AwaitEventReader(t)
      BY <1>2, <2>2, <3>1 DEF AwaitEventReader, thread
    <3>2. CASE TookEvent(t)
      <4>1. UNCHANGED <<req, response>> /\ pc' = [pc EXCEPT ![t] = "events"]
        BY <1>1, <2>2, <3>2 DEF TookEvent, thread, Goto
      <4>2. pc'[t] = "events"
        BY <4>1, BaseParts DEF ThreadsTyped
      <4>. QED
        BY <1>1, <1>2, <2>2, <4>1, <4>2
    <3>3. CASE HandOn(t) \/ ReturnReply(t) \/ ReturnRefused(t)
      BY <1>1, <2>2, <3>3 DEF Taken
    <3>4. ~Enter(t) /\ ~Done(t) /\ ~PollForReply(t) /\ ~PolledReply(t) /\ ~PolledNothing(t)
          /\ ~NoResponse(t)
      BY <1>1, <2>2 DEF Enter, Send, NextEvent, RoundTrip, Begin, Done, PollForReply,
                        PolledReply, PolledNothing, NoResponse, Runs
    <3>5. ~ReadEvents(t) /\ ~EventArrived(t) /\ ~ReplyLoop(t) /\ ~ReplyArrived(t)
      BY <1>1, <2>2 DEF ReadEvents, EventArrived, ReplyLoop, ReplyArrived, Runs
    <3>. QED
      BY <1>4, <3>1, <3>2, <3>3, <3>4, <3>5 DEF StepOf, ThreadPasses
  <2>. QED
    BY <2>1, <2>2
<1>. QED
  BY <1>3, <1>4, Steps

\* An answer stays awaited until a thread takes it.
LEMMA AwaitedKept ==
  ASSUME AnswerInv, FewRequests, NEW n, Awaited(n), [Next]_vars
  PROVE  Awaited(n)' \/ \E t \in Threads : StepOf(t) /\ Taken(t, n)
<1>1. BaseInv /\ Locals
  BY DEF AnswerInv
<1>2. CASE Asked(n) \/ OnWire(n)
  BY <1>1, <1>2, AskedKept, OnWireKept
<1>3. CASE n \in replies
  BY <1>1, <1>3, RepliesKept
<1>4. CASE Brought(n)
  BY <1>1, <1>4, BroughtKept
<1>5. CASE Erred(n)
  <2>1. Erred(n)' => Awaited(n)'
    BY DEF Awaited
  <2>. QED
    BY <1>5, <2>1, ErredKept DEF Taken
<1>. QED
  BY <1>2, <1>3, <1>4, <1>5 DEF Awaited

\* When libxcb has read the answer and has no reply to give, it was an error,
\* unless a thread has the reply.
LEMMA AwaitedPast ==
  ASSUME BaseInv, NEW n \in Nat, Awaited(n), Past(n), n \notin replies, ~Brought(n)
  PROVE  \E m \in ToSet(Coming) : IsError(m) /\ m.seq = n
<1>1. ~Asked(n)
  <2>1. ASSUME NEW i \in 1 .. Len(sent)
        PROVE  sent[i].seq # n
    <3>1. sent[i].seq = served + i
      BY BaseParts DEF Numbered
    <3>2. n <= read
      BY DEF Past
    <3>. QED
      BY <3>1, <3>2, Bounds
  <2>. QED
    BY <2>1 DEF Asked
<1>2. \A m \in ToSet(wire) : m.kind # "event" => n # m.seq
  <2>1. \A m \in ToSet(wire) : m.seq \in Nat
    BY BaseParts, Bounds DEF Carried, InStream
  <2>. QED
    BY <2>1 DEF Past
<1>3. ~OnWire(n)
  BY <1>2 DEF OnWire
<1>4. PICK m \in InStream : IsError(m) /\ m.seq = n
  BY <1>1, <1>3 DEF Awaited, Erred
<1>. QED
  BY <1>2, <1>4 DEF IsError, InStream

\* A thread that wants a reply gets one.
Owed == \A t \in Threads : Wants(t) => Awaited(current[t])

\* Nobody else takes the answer that a thread wants.
LEMMA TakenOwn ==
  ASSUME BaseInv, NEW t \in Threads, NEW u \in Threads, NEW n \in Nat,
         Wants(t), current[t] = n, Taken(u, n)
  PROVE  u = t /\ (ReturnReply(t) \/ ReturnRefused(t))
<1>1. PICK i \in 1 .. Len(pending) : pending[i] = [seq |-> n, waiter |-> TRUE]
  BY BaseParts DEF ReaderInv, Wanted
<1>2. ~PolledReply(u) \/ Head(pending).seq # n
  <2>1. SUFFICES ASSUME PolledReply(u), Head(pending).seq = n PROVE FALSE
    OBVIOUS
  <2>2. /\ Len(pending) > 0 /\ ~pending[1].waiter
    BY <2>1, BaseParts DEF PolledReply, Runs, ReaderInv, Polled
  <2>3. pending # <<>>
    BY <2>2, EmptySeq
  <2>4. pending[1].seq = n /\ 1 \in 1 .. Len(pending)
    BY <2>1, <2>3, Pendings
  <2>5. ~(1 < i)
    BY <1>1, <2>4, Pendings
  <2>6. i = 1
    BY <2>5, Bounds
  <2>. QED
    BY <1>1, <2>2, <2>6
<1>3. (HandOn(u) \/ ReturnReply(u) \/ ReturnRefused(u)) /\ req[u] = n
  BY <1>2 DEF Taken
<1>4. Waits(u)
  BY <1>3 DEF HandOn, ReturnReply, ReturnRefused, Settled, EventsRead, Runs, Waits
<1>5. u = t
  BY <1>3, <1>4, BaseParts DEF ReaderInv, Waiting
<1>. QED
  BY <1>3, <1>5 DEF HandOn

\* The requests that RoundTrip sends.
LEMMA RoundTripAsks ==
  ASSUME BaseInv, NEW t \in Threads, RoundTrip(t)
  PROVE  /\ current'[t] = request' /\ current' = [current EXCEPT ![t] = request']
         /\ request' \in Nat /\ \A n : n = request' => Asked(n)'
         /\ \/ call'[t] = "round_trip" /\ request' = request + 1
            \/ /\ call'[t] = "attributes" /\ request' = request + 2
               /\ \A n : n = request + 1 => Asked(n)'
               /\ \E i \in 1 .. Len(pending') : pending'[i].seq = request + 1
<1>1. /\ current' = [current EXCEPT ![t] = request'] /\ current'[t] = request' /\ Enter(t)
      /\ pc'[t] = "reply"
  BY BaseParts DEF RoundTrip, Enter, ThreadsTyped, Goto
<1>2. Len(sent) \in Nat /\ request \in Nat
  BY Bounds
<1>3. ~NextEvent(t) /\ ~Send(t)
  <2>1. pc'[t] # "reply" \/ ~NextEvent(t)
    BY BaseParts DEF NextEvent, Goto, ThreadsTyped
  <2>2. pc'[t] # "reply" \/ ~Send(t)
    BY BaseParts DEF Send, Goto, ThreadsTyped
  <2>. QED
    BY <1>1, <2>1, <2>2
<1>4. CASE /\ Submitted(<<"round_trip">>) /\ request' = request + 1
           /\ call' = [call EXCEPT ![t] = "round_trip"]
  <2>1. Len(<<"round_trip">>) = 1 /\ 1 \in 1 .. 1 /\ <<"round_trip">>[1] = "round_trip"
    OBVIOUS
  <2>2. Len(sent') = Len(sent) + 1
        /\ sent'[Len(sent) + 1] = [seq |-> request + 1, kind |-> "round_trip"]
    BY <1>4, <2>1 DEF Submitted
  <2>3. Len(sent) + 1 \in 1 .. Len(sent')
    BY <1>2, <2>2
  <2>4. \A n : n = request + 1 => Asked(n)'
    BY <2>2, <2>3 DEF Asked
  <2>5. call'[t] = "round_trip"
    BY <1>4, BaseParts DEF CallInv
  <2>. QED
    BY <1>1, <1>2, <1>4, <2>4, <2>5
<1>5. CASE /\ Submitted(<<"attributes", "geometry">>) /\ request' = request + 2
           /\ call' = [call EXCEPT ![t] = "attributes"]
           /\ Len(pending) + 1 \in 1 .. Len(pending')
           /\ pending'[Len(pending) + 1].seq = request + 1
  <2>1. /\ Len(<<"attributes", "geometry">>) = 2 /\ 1 \in 1 .. 2 /\ 2 \in 1 .. 2
        /\ <<"attributes", "geometry">>[1] = "attributes"
        /\ <<"attributes", "geometry">>[2] = "geometry"
    OBVIOUS
  <2>2. Len(sent') = Len(sent) + 2
        /\ sent'[Len(sent) + 1] = [seq |-> request + 1, kind |-> "attributes"]
        /\ sent'[Len(sent) + 2] = [seq |-> request + 2, kind |-> "geometry"]
    BY <1>5, <2>1 DEF Submitted
  <2>3. Len(sent) + 1 \in 1 .. Len(sent') /\ Len(sent) + 2 \in 1 .. Len(sent')
    BY <1>2, <2>2
  <2>4. \A n : n = request + 1 \/ n = request + 2 => Asked(n)'
    BY <2>2, <2>3 DEF Asked
  <2>5. call'[t] = "attributes"
    BY <1>5, BaseParts DEF CallInv
  <2>. QED
    BY <1>1, <1>2, <1>5, <2>4, <2>5
<1>. QED
  BY <1>1, <1>3, <1>4, <1>5, BaseParts, EnterSubmits

LEMMA OwedStep ==
  ASSUME AnswerInv, Owed, FewRequests, [Next]_vars
  PROVE  Owed'
<1>1. BaseInv /\ Locals
  BY DEF AnswerInv
<1>2. ASSUME NEW t \in Threads, Wants(t)', Wants(t), current'[t] = current[t]
      PROVE  Awaited(current[t])'
  <2>1. PICK n \in Nat : n = current[t]
    BY <1>1, BaseParts DEF ThreadsTyped
  <2>2. Awaited(n)
    BY <1>2, <2>1 DEF Owed
  <2>3. ASSUME NEW u \in Threads, Taken(u, n)
        PROVE  FALSE
    <3>1. ReturnReply(t) \/ ReturnRefused(t)
      BY <1>1, <1>2, <2>1, <2>3, TakenOwn
    <3>2. pc' = [pc EXCEPT ![t] = "idle"]
      BY <3>1 DEF ReturnReply, ReturnRefused, Return, Leave, Goto
    <3>3. pc'[t] = "idle"
      BY <1>1, <3>2, BaseParts DEF ThreadsTyped
    <3>. QED
      BY <1>2, <3>3 DEF Wants
  <2>4. Awaited(n)'
    BY <2>2, <2>3, AwaitedKept
  <2>. QED
    BY <1>2, <2>1, <2>4
<1>3. ASSUME NEW t \in Threads, RoundTrip(t)
      PROVE  Awaited(current[t])'
  <2>1. PICK n \in Nat : n = request'
    BY <1>1, <1>3, RoundTripAsks
  <2>2. Asked(n)' /\ current'[t] = n
    BY <1>1, <1>3, <2>1, RoundTripAsks
  <2>3. Awaited(n)'
    BY <2>2 DEF Awaited
  <2>. QED
    BY <2>2, <2>3
<1>4. ASSUME NEW t \in Threads, Wants(t)'
      PROVE  RoundTrip(t) \/ (Wants(t) /\ current'[t] = current[t])
  <2>1. CASE NoStep
    BY <1>4, <2>1 DEF NoStep, Wants
  <2>2. ASSUME NEW u \in Threads, StepOf(u)
        PROVE  RoundTrip(t) \/ (Wants(t) /\ current'[t] = current[t])
    BY <1>1, <1>4, <2>2, LocalStep DEF OnlyMine, WantsSame, Wants
  <2>. QED
    BY <1>1, <2>1, <2>2, Steps
<1>. QED
  BY <1>2, <1>3, <1>4 DEF Owed

-----------------------------------------------------------------------------
(* The loops that look for events have an event, or have queued one. *)

Having ==
  /\ \A t \in Threads : since[t] <= serial
  /\ \A t \in Threads : Polls(t) /\ ~Drains(t) => Coming # <<>>
  /\ \A t \in Threads : pc[t] = "poll_queued" /\ ~Drains(t) /\ ~overtaken => Due

\* What libxcb reads goes behind what is there.
LEMMA FirstStays ==
  ASSUME NEW a \in Seq(Message), NEW b \in Seq(Message), a # <<>>
  PROVE  a \o b # <<>> /\ Head(a \o b) = Head(a)
<1>1. /\ a \o b \in Seq(Message) /\ Len(a \o b) = Len(a) + Len(b)
      /\ \A i \in 1 .. Len(a) : (a \o b)[i] = a[i]
  BY ConcatProperties, LenProperties
<1>2. Len(a) \in Nat /\ Len(b) \in Nat /\ Len(a) # 0
  BY LenProperties, EmptySeq
<1>3. 1 \in 1 .. Len(a) /\ Len(a \o b) # 0
  BY <1>1, <1>2
<1>4. a \o b # <<>>
  BY <1>1, <1>3, EmptySeq
<1>. QED
  BY <1>1, <1>3, <1>4

LEMMA ReadBehind ==
  ASSUME BaseInv, Read, Coming # <<>>
  PROVE  Coming' # <<>> /\ Head(Coming)' = Head(Coming)
<1>1. PICK k \in 1 .. Len(wire) :
        \E at \in InOrder({i \in 1 .. k : wire[i].kind # "reply"}) : ReadTo(k, at)
  BY DEF Read, ReadTo
<1>2. PICK at \in InOrder({i \in 1 .. k : wire[i].kind # "reply"}) : ReadTo(k, at)
  BY <1>1
<1>. DEFINE e == [i \in DOMAIN at |-> wire[at[i]]]
<1>3. wire \in Seq(Message) /\ Coming \in Seq(Message) /\ nextEvent \in Seq(Message)
      /\ xcbEvents \in Seq(Message)
  BY BaseParts, ComingTyped DEF StreamTyped, StreamSlot
<1>4. e \in Seq(Message)
  BY SMTT(30), <1>3, ReadParts DEF Parts
<1>5. xcbEvents' = xcbEvents \o e /\ nextEvent' = nextEvent
  BY <1>2 DEF ReadTo, Read
<1>. HIDE DEF e
<1>6. Coming' = nextEvent \o (xcbEvents \o e)
  BY <1>5 DEF Coming
<1>7. nextEvent \o (xcbEvents \o e) = (nextEvent \o xcbEvents) \o e
  <2>1. nextEvent \in Seq(Message) /\ xcbEvents \in Seq(Message) /\ e \in Seq(Message)
    BY <1>3, <1>4
  <2>. QED
    BY SMTT(30), <2>1, ConcatAssociative
<1>8. Coming' = Coming \o e
  BY <1>6, <1>7 DEF Coming
<1>. QED
  BY <1>3, <1>4, <1>8, FirstStays

\* The thread that polls is the only one that moves.
LEMMA PollsAlone ==
  ASSUME BaseInv, Locals, NEW t \in Threads, StepOf(t), NEW u \in Threads, Polls(u)'
  PROVE  u = t
<1>1. SUFFICES ASSUME u # t PROVE FALSE
  OBVIOUS
<1>2. pc'[u] = pc[u]
  BY <1>1, LocalStep DEF OnlyMine
<1>3. lock = u
  BY <1>2, BaseParts DEF ReaderInv, Locked, Polling, Polls
<1>4. lock \notin {t, NoThread}
  BY <1>1, <1>3, ClientAssumption
<1>5. ~Enter(t) /\ ~Done(t) /\ ~PollForReply(t) /\ ~PolledReply(t) /\ ~PolledNothing(t)
      /\ ~NoResponse(t)
  BY <1>4 DEF Enter, Send, NextEvent, RoundTrip, Begin, Done, PollForReply, PolledReply,
              PolledNothing, NoResponse, Runs
<1>6. ~ReadEvents(t) /\ ~EventArrived(t) /\ ~ReplyLoop(t) /\ ~ReplyArrived(t)
      /\ ~AwaitEventReader(t)
  BY <1>4 DEF ReadEvents, EventArrived, ReplyLoop, ReplyArrived, AwaitEventReader, Runs
<1>7. ~HandOn(t) /\ ~ReturnReply(t) /\ ~ReturnRefused(t) /\ ~TookEvent(t)
  BY <1>4 DEF HandOn, ReturnReply, ReturnRefused, Settled, EventsRead, TookEvent, Runs
<1>. QED
  BY <1>5, <1>6, <1>7 DEF StepOf, ThreadPasses

LEMMA SinceStep ==
  ASSUME BaseInv, Locals, \A u \in Threads : since[u] <= serial, NEW t \in Threads, StepOf(t)
  PROVE  \A u \in Threads : since'[u] <= serial'
<1>1. since \in [Threads -> Nat] /\ serial \in Nat
  BY Bounds DEF Locals
<1>2. serial' = serial \/ serial' = serial + 1
  <2>1. CASE Enter(t) \/ Done(t) \/ PollForReply(t) \/ PolledNothing(t) \/ TookEvent(t)
    BY <2>1 DEF Enter, Send, NextEvent, RoundTrip, Done, PollForReply, PolledNothing, TookEvent
  <2>2. CASE NoResponse(t) \/ ReadEvents(t) \/ EventArrived(t) \/ ReplyLoop(t) \/ PolledReply(t)
    BY <2>2 DEF NoResponse, End, ReadEvents, EventArrived, ReplyLoop, PolledReply
  <2>3. CASE ReplyArrived(t) \/ AwaitEventReader(t) \/ HandOn(t) \/ ReturnReply(t)
             \/ ReturnRefused(t)
    BY <2>3 DEF ReplyArrived, AwaitEventReader, HandOn, ReturnReply, ReturnRefused, Return
  <2>. QED
    BY <2>1, <2>2, <2>3 DEF StepOf, ThreadPasses
<1>3. \/ since' = since \/ since' = [since EXCEPT ![t] = serial]
      \/ since' = [since EXCEPT ![t] = 0]
  <2>1. CASE Enter(t) \/ Done(t) \/ PollForReply(t) \/ PolledNothing(t) \/ TookEvent(t)
    BY <2>1 DEF Enter, Send, NextEvent, RoundTrip, Done, Leave, PollForReply, PolledNothing,
                TookEvent, thread
  <2>2. CASE NoResponse(t) \/ ReadEvents(t) \/ EventArrived(t) \/ ReplyLoop(t) \/ PolledReply(t)
    BY <2>2 DEF NoResponse, End, ReadEvents, EventArrived, ReplyLoop, PolledReply, thread
  <2>3. CASE ReplyArrived(t) \/ AwaitEventReader(t) \/ HandOn(t) \/ ReturnReply(t)
             \/ ReturnRefused(t)
    BY <2>3 DEF ReplyArrived, AwaitEventReader, HandOn, ReturnReply, ReturnRefused, Return, Leave,
                thread
  <2>. QED
    BY <2>1, <2>2, <2>3 DEF StepOf, ThreadPasses
<1>. QED
  BY <1>1, <1>2, <1>3

\* A thread begins to poll when there is something, and goes on until it has
\* queued an event.
LEMMA PollMoves ==
  ASSUME BaseInv, Locals, Having, NEW t \in Threads, StepOf(t), Going(t), Polls(t)'
  PROVE  Drains(t)' \/ Coming' # <<>>
<1>1. pc \in [Threads -> Place] /\ call \in [Threads -> Call \cup {"none"}]
  BY BaseParts DEF ThreadsTyped, CallInv
<1>2. Passes \/ TookEvent(t) \/ ReturnRefused(t)
  BY DEF Going
<1>3. ASSUME Polls(t), UNCHANGED <<call, serial, since, queue, Coming>>
      PROVE  Drains(t)' \/ Coming' # <<>>
  BY <1>3 DEF Having, Drains
<1>4. CASE Enter(t)
  <2>1. CASE Send(t)
    <3>1. call'[t] = "send"
      BY <1>1, <2>1 DEF Send, Begin
    <3>. QED
      BY <3>1 DEF Drains
  <2>2. CASE NextEvent(t) \/ RoundTrip(t)
    <3>1. \E at \in {"read", "done", "reply"} : pc' = [pc EXCEPT ![t] = at]
      BY <2>2 DEF NextEvent, RoundTrip, Goto
    <3>. QED
      BY <1>1, <3>1 DEF Polls
  <2>. QED
    BY <1>4, <2>1, <2>2 DEF Enter
<1>5. CASE PollForReply(t) \/ PolledReply(t) \/ PolledNothing(t)
  <2>1. Polls(t) /\ UNCHANGED <<call, serial, since, queue>>
    BY <1>5 DEF PollForReply, PolledReply, PolledNothing, Runs, Polls, thread
  <2>2. ~TookEvent(t) /\ ~ReturnRefused(t)
    <3>1. serial \in Nat
      BY Bounds
    <3>2. ~TookEvent(t)
      BY <2>1, <3>1 DEF TookEvent
    <3>. QED
      BY <2>1, <3>2 DEF ReturnRefused, Settled, EventsRead, Runs, Polls
  <2>. QED
    BY <1>2, <1>3, <2>1, <2>2 DEF Passes
<1>6. CASE NoResponse(t)
  <2>1. Polls(t) /\ UNCHANGED <<call, serial, since, queue>>
    BY <1>6 DEF NoResponse, End, Runs, Polls, thread
  <2>2. ~TookEvent(t) /\ ~ReturnRefused(t)
    BY <1>6, <2>1 DEF NoResponse, TookEvent, ReturnRefused, Settled, EventsRead, Runs, Polls
  <2>. QED
    BY <1>2, <1>3, <2>1, <2>2 DEF Passes
<1>7. CASE ReadEvents(t)
  <2>1. pc[t] = "read" /\ UNCHANGED <<call, serial, since, queue>>
    BY <1>7 DEF ReadEvents, Runs, thread
  <2>2. UNCHANGED Coming
    BY <1>2, <2>1
    DEF TookEvent, ReturnRefused, Settled, EventsRead, Runs, Passes
  <2>3. CASE Drains(t)
    BY <2>1, <2>3 DEF Drains
  <2>4. CASE ~Drains(t)
    <3>1. nextEvent # <<>> \/ \E at \in {"read", "wait_event"} : pc' = [pc EXCEPT ![t] = at]
      BY <1>7, <2>1, <2>4, <1>1 DEF ReadEvents, Goto
    <3>2. nextEvent # <<>>
      BY <1>1, <3>1 DEF Polls
    <3>3. Coming # <<>>
      <4>1. nextEvent \in Seq(Message) /\ xcbEvents \in Seq(Message)
        BY BaseParts DEF StreamTyped
      <4>. QED
        BY <3>2, <4>1, FirstStays DEF Coming
    <3>. QED
      BY <2>2, <3>3
  <2>. QED
    BY <2>3, <2>4
<1>8. CASE EventArrived(t)
  <2>1. nextEvent' = <<Head(xcbEvents)>> /\ xcbEvents' = Tail(xcbEvents) /\ xcbEvents # <<>>
    BY <1>8 DEF EventArrived
  <2>2. Head(xcbEvents) \in Message /\ Tail(xcbEvents) \in Seq(Message)
    BY <2>1, BaseParts, HeadTailProperties DEF StreamTyped
  <2>3. <<Head(xcbEvents)>> \in Seq(Message) /\ <<Head(xcbEvents)>> # <<>>
    BY <2>2
  <2>4. Coming' = <<Head(xcbEvents)>> \o Tail(xcbEvents)
    BY <2>1 DEF Coming
  <2>. QED
    BY <2>2, <2>3, <2>4, FirstStays
<1>9. CASE TookEvent(t)
  <2>1. CASE pc[t] = "events"
    <3>1. pc' = [pc EXCEPT ![t] = "events"]
      BY <1>9, <2>1 DEF TookEvent, Goto
    <3>. QED
      BY <1>1, <3>1 DEF Polls
  <2>2. serial' = serial + 1 /\ since' = since /\ queue' = Append(queue, Head(Coming).id)
    BY <1>9 DEF TookEvent, thread
  <2>3. serial' # since'[t]
    <3>1. since[t] <= serial /\ since[t] \in Nat /\ serial \in Nat
      BY Bounds DEF Having, Locals
    <3>. QED
      BY <2>2, <3>1
  <2>4. queue' # <<>>
    <3>1. queue \in Seq(1 .. MaxEvents) /\ Len(queue) \in Nat
      BY BaseParts, LenProperties DEF CountInv
    <3>2. Len(queue') = Len(queue) + 1
      BY <2>2, <3>1
    <3>3. Len(queue') # 0
      BY <3>1, <3>2
    <3>. QED
      BY <3>3
  <2>. QED
    BY <2>3, <2>4 DEF Drains
<1>10. CASE Done(t) \/ ReplyLoop(t) \/ ReplyArrived(t) \/ AwaitEventReader(t) \/ HandOn(t)
            \/ ReturnReply(t) \/ ReturnRefused(t)
  <2>1. \/ \E at \in {"idle", "wait_reply", "events", "reply"} : pc' = [pc EXCEPT ![t] = at]
        \/ pc' = pc /\ pc[t] \in {"reply", "events"}
    <3>1. CASE Done(t) \/ ReturnReply(t) \/ ReturnRefused(t)
      BY <3>1 DEF Done, ReturnReply, ReturnRefused, Return, Leave, Goto
    <3>2. CASE ReplyLoop(t) \/ ReplyArrived(t) \/ AwaitEventReader(t) \/ HandOn(t)
      BY <3>2 DEF ReplyLoop, ReplyArrived, AwaitEventReader, HandOn, Settled, EventsRead, Goto,
                  Runs
    <3>. QED
      BY <1>10, <3>1, <3>2
  <2>. QED
    BY <1>1, <2>1 DEF Polls
<1>. QED
  BY <1>4, <1>5, <1>6, <1>7, <1>8, <1>9, <1>10 DEF StepOf, ThreadPasses

\* Libxcb has no answer to the first request yet: what there is comes before.
LEMMA NothingPolled ==
  ASSUME BaseInv, LastRead, FewRequests, InSequence, Coming # <<>>,
         pending # <<>>, ~Ready(Head(pending).seq)
  PROVE  Due
<1>. DEFINE h == Head(Coming)
            n == Head(pending).seq
<1>1. /\ h \in ToSet(Coming) /\ h.seq \in Nat /\ h.seq <= read
      /\ Widen(lastRead, h.seq) = h.seq
  BY HeadNumber
<1>2. n \in Nat /\ read <= n /\ n # completed
  BY Pendings, Bounds DEF Ready
<1>3. h.kind # "event" => IsError(h)
  <2>1. h.kind # "reply" /\ h \in Message
    BY <1>1, BaseParts, InStreamTyped DEF Stream, StreamSlot
  <2>. QED
    BY <2>1 DEF Message, IsError
<1>4. h.seq <= n
  BY <1>1, <1>2, Bounds
<1>5. IsError(h) => h.seq <= completed
  BY <1>1, BaseParts DEF ReadNumbers
<1>6. IsError(h) => h.seq < n
  BY <1>1, <1>2, <1>4, <1>5, Bounds
<1>7. h.seq < n \/ (h.kind = "event" /\ h.seq = n)
  BY <1>1, <1>2, <1>3, <1>4, <1>6
<1>. QED
  BY <1>1, <1>7 DEF Due

LEMMA HavingStep ==
  ASSUME AnswerInv, LastRead, InSeq, Having, FewRequests, [Next]_vars
  PROVE  Having'
<1>1. BaseInv /\ Locals
  BY DEF AnswerInv
<1>2. CASE NoStep
  <2>1. UNCHANGED <<pc, call, since, serial, queue, overtaken, pending, lastRead>>
    BY <1>2 DEF NoStep
  <2>2. Coming # <<>> => Coming' # <<>> /\ Head(Coming)' = Head(Coming)
    <3>1. CASE Read
      BY <1>1, <3>1, ReadBehind
    <3>2. CASE Serve \/ Emit
      BY <1>1, <3>2, BaseParts, ServeEffect, EmitEffect
    <3>3. CASE UNCHANGED vars \/ (\E why : End(why))
      BY <3>3 DEF vars, End, Coming
    <3>. QED
      BY <1>2, <3>1, <3>2, <3>3 DEF NoStep
  <2>3. Due => Due'
    BY <2>1, <2>2 DEF Due
  <2>4. \A t \in Threads : (Drains(t)' <=> Drains(t)) /\ (Polls(t)' <=> Polls(t))
    BY <2>1 DEF Drains, Polls
  <2>5. \A t \in Threads : since'[t] <= serial'
    BY <2>1 DEF Having
  <2>6. \A t \in Threads : Polls(t)' /\ ~Drains(t)' => Coming' # <<>>
    BY <2>2, <2>4 DEF Having
  <2>7. \A t \in Threads : pc'[t] = "poll_queued" /\ ~Drains(t)' /\ ~overtaken' => Due'
    BY <2>1, <2>3, <2>4 DEF Having
  <2>. QED
    BY <2>5, <2>6, <2>7 DEF Having
<1>3. ASSUME NEW t \in Threads, StepOf(t), Going(t)
      PROVE  Having'
  <2>1. \A u \in Threads : since'[u] <= serial'
    BY <1>1, <1>3, SinceStep DEF Having
  <2>2. ASSUME NEW u \in Threads, Polls(u)', ~Drains(u)'
        PROVE  Coming' # <<>>
    BY <1>1, <1>3, <2>2, PollsAlone, PollMoves
  <2>3. ASSUME NEW u \in Threads, pc'[u] = "poll_queued", ~Drains(u)', ~overtaken'
        PROVE  Due'
    <3>1. u = t /\ Polls(u)'
      BY <1>1, <1>3, <2>3, PollsAlone DEF Polls
    <3>2. ~overtaken /\ InSequence
      BY <1>1, <2>3, OvertakenStays DEF InSeq
    <3>3. CASE PolledNothing(t)
      <4>1. /\ pc[t] = "poll_reply" /\ ~Ready(Head(pending).seq)
            /\ UNCHANGED <<call, since, serial, queue, pending, lastRead, nextEvent, xcbEvents>>
        BY <3>3 DEF PolledNothing, Runs, thread, display
      <4>2. pending # <<>>
        BY <1>1, <4>1, BaseParts, EmptySeq DEF ReaderInv, Polled
      <4>3. ~Drains(t)
        BY <2>3, <3>1, <4>1 DEF Drains
      <4>4. Coming # <<>>
        BY <4>1, <4>3 DEF Having, Polls
      <4>5. Due
        BY <1>1, <3>2, <4>1, <4>2, <4>4, NothingPolled
      <4>. QED
        BY <4>1, <4>5 DEF Due, Coming
    <3>4. CASE NoResponse(t) /\ pc' = pc
      <4>1. UNCHANGED <<call, since, serial, queue, pending, lastRead>>
        BY <3>4 DEF NoResponse, End, thread, display
      <4>2. ~TookEvent(t) /\ ~ReturnRefused(t)
        BY <3>4, <4>1, <1>1 DEF NoResponse, TookEvent, ReturnRefused, Settled, EventsRead, Runs
      <4>3. UNCHANGED Coming
        BY <1>3, <4>2 DEF Going, Passes
      <4>4. Due
        BY <2>3, <3>1, <3>2, <3>4, <4>1 DEF Having, Drains
      <4>. QED
        BY <4>1, <4>3, <4>4 DEF Due
    <3>5. PolledNothing(t) \/ (NoResponse(t) /\ pc' = pc)
      <4>1. pc'[t] = "poll_queued" /\ pc \in [Threads -> Place]
        BY <1>1, <2>3, <3>1, BaseParts DEF ThreadsTyped
      <4>2. ~(\E at \in Place \ {"poll_queued"} : pc' = [pc EXCEPT ![t] = at])
        BY <4>1
      <4>3. ~Enter(t) /\ ~PollForReply(t) /\ ~PolledReply(t) /\ ~ReplyArrived(t)
        BY <4>2 DEF Enter, Send, NextEvent, RoundTrip, PollForReply, PolledReply, ReplyArrived,
                    Goto, Place
      <4>4. ~Done(t) /\ ~HandOn(t) /\ ~ReturnReply(t) /\ ~ReturnRefused(t) /\ ~TookEvent(t)
        BY <4>2 DEF Done, HandOn, ReturnReply, ReturnRefused, Return, Leave, TookEvent, Goto,
                    Place
      <4>5. ~EventArrived(t) /\ ~ReadEvents(t) /\ ~ReplyLoop(t) /\ ~AwaitEventReader(t)
        BY <4>1, <4>2 DEF EventArrived, ReadEvents, ReplyLoop, AwaitEventReader, Runs, Goto,
                          Place
      <4>6. NoResponse(t) => pc' = pc
        BY <4>2 DEF NoResponse, End, Goto, Place
      <4>. QED
        BY <1>3, <4>3, <4>4, <4>5, <4>6 DEF StepOf, ThreadPasses
    <3>. QED
      BY <3>3, <3>4, <3>5
  <2>. QED
    BY <2>1, <2>2, <2>3 DEF Having
<1>. QED
  BY <1>1, <1>2, <1>3, Steps

\* A loop that needs an event does not find the connection without one.
LEMMA LoopHasEvent ==
  ASSUME BaseInv, Having, ~overtaken, NEW t \in Threads, NoResponse(t), ~Drains(t),
         pending # <<>> => ~Head(pending).waiter
  PROVE  FALSE
<1>1. ~Due /\ pc[t] \in {"poll", "poll_queued"}
      /\ (pc[t] = "poll" => (pending # <<>> => Head(pending).waiter))
  BY DEF NoResponse, Runs
<1>2. pc[t] = "poll"
  BY <1>1 DEF Having
<1>3. pending = <<>> /\ Coming # <<>>
  BY <1>1, <1>2 DEF Having, Polls
<1>. QED
  BY <1>1, <1>3 DEF Due

\* A thread that has no reply finds its error at the head of the queue.
LEMMA ErrorAtHand ==
  ASSUME AnswerInv, LastRead, Owed, FewRequests, InSequence,
         NEW t \in Threads, EventsRead(t), req[t] = current[t], ~response[t]
  PROVE  OwnError(t)
<1>. DEFINE h == Head(Coming)
<1>1. BaseInv /\ Waits(t) /\ Wants(t) /\ pc[t] = "events"
  BY DEF AnswerInv, EventsRead, Runs, Waits, Wants
<1>2. PICK n \in Nat : n = req[t]
  BY <1>1, WaitsFirst
<1>3. /\ FirstRequest <= n /\ n <= request /\ pending # <<>> /\ Head(pending).seq = n
  BY <1>1, <1>2, WaitsFirst, Bounds
<1>4. Past(n) /\ n \notin replies /\ Awaited(n)
  BY <1>1, <1>2 DEF AnswerInv, Responses, Given, Owed
<1>5. ~Brought(n)
  <2>1. ASSUME NEW u \in Threads, pc[u] = "events"
        PROVE  u = t
    BY <1>1, <2>1, BaseParts DEF ReaderInv, Waiting, Waits
  <2>. QED
    BY <2>1 DEF Brought
<1>6. PICK m \in ToSet(Coming) : IsError(m) /\ m.seq = n
  BY <1>1, <1>4, <1>5, AwaitedPast
<1>7. Coming # <<>>
  BY <1>6, EmptySeq DEF ToSet
<1>8. /\ h \in ToSet(Coming) /\ h \in InStream /\ h.seq \in Nat /\ h.seq <= n
      /\ Widen(lastRead, h.seq) = h.seq
  BY <1>1, <1>6, <1>7, HeadNumber DEF InStream
<1>9. n <= h.seq
  BY <1>2, <1>8, NothingEarlier
<1>10. h.seq = n
  BY <1>8, <1>9
<1>11. h.kind # "event" /\ h.kind # "reply" /\ h \in Message
  <2>1. h.kind # "event"
    BY <1>3, <1>7, <1>8, <1>10 DEF EventsRead, Due
  <2>. QED
    BY <1>1, <1>8, <2>1, BaseParts, InStreamTyped DEF Stream, StreamSlot
<1>12. IsError(h)
  BY <1>11 DEF Message, IsError
<1>13. Widen(n, h.seq) = n
  BY <1>1, <1>3, <1>8, <1>9, <1>10, Widened
<1>. QED
  BY <1>2, <1>7, <1>12, <1>13 DEF OwnError

LEMMA NoFalseAlarmStep ==
  ASSUME AnswerInv, LastRead, InSeq, InSeq', Having, Owed, NoFalseAlarm, FewRequests, [Next]_vars
  PROVE  NoFalseAlarm'
<1>1. BaseInv
  BY DEF AnswerInv
<1>. SUFFICES ASSUME ~overtaken' PROVE InSequence' /\ fate' \notin {"io_error", "crashed", "aborted"}
  BY DEF NoFalseAlarm
<1>2. ~overtaken /\ InSequence /\ InSequence' /\ fate \notin {"io_error", "crashed", "aborted"}
  BY <1>1, OvertakenStays DEF InSeq, NoFalseAlarm
<1>3. ASSUME Due PROVE ~(Widen(lastRead, Head(Coming).seq) > request)
  <2>1. /\ Head(Coming).seq <= read /\ Head(Coming).seq \in Nat
        /\ Widen(lastRead, Head(Coming).seq) = Head(Coming).seq
    BY <1>1, <1>2, <1>3, HeadNumber DEF Due
  <2>. QED
    BY <1>1, <2>1, Bounds
<1>4. ~(\E t \in Threads : NoResponse(t) /\ ~Drains(t)
                           /\ (pending # <<>> => ~Head(pending).waiter))
  BY <1>1, <1>2, LoopHasEvent
<1>5. ~(\E t \in Threads : EventsRead(t) /\ req[t] = current[t] /\ ~OwnError(t) /\ ~response[t])
  BY <1>2, ErrorAtHand
<1>. QED
  BY <1>2, <1>3, <1>4, <1>5, Ends DEF IsError

AlarmInv == OrderInv /\ Owed /\ Having

LEMMA AlarmInit == ASSUME Init PROVE AlarmInv
<1>1. \A t \in Threads : pc[t] = "idle" /\ since[t] = 0
  BY DEF Init
<1>2. serial = 1
  BY DEF Init
<1>. QED
  BY <1>1, <1>2, OrderInit DEF AlarmInv, Owed, Having, Wants, Polls

LEMMA AlarmStep == ASSUME AlarmInv, FewRequests, [Next]_vars PROVE AlarmInv'
<1>1. AnswerInv /\ LastRead /\ InSeq
  BY DEF AlarmInv, OrderInv, TypeInv
<1>2. OrderInv' /\ Owed' /\ Having'
  BY <1>1, OrderStep, OwedStep, HavingStep DEF AlarmInv
<1>. QED
  BY <1>2 DEF AlarmInv

\* Until poll_for_response takes an answer before an earlier event, the numbers
\* of what is read never go back, the assertion in poll_for_event about them
\* holds, and neither _XReply nor _XReadEvents takes the connection for broken,
\* as long as no more requests are made than there are numbers.
THEOREM AlarmsAreTrue ==
  ASSUME FewRequests
  PROVE  Spec => []NoFalseAlarm
<1>. DEFINE I == AlarmInv /\ NoFalseAlarm
<1>1. Init => I
  <2>1. ASSUME Init PROVE NoFalseAlarm
    <3>1. InSeq /\ fate = "running"
      BY <2>1, OrderInit DEF OrderInv, Init
    <3>. QED
      BY <3>1 DEF NoFalseAlarm, InSeq
  <2>. QED
    BY <2>1, AlarmInit
<1>2. I /\ [Next]_vars => I'
  <2>1. ASSUME I, [Next]_vars PROVE I'
    <3>1. AnswerInv /\ LastRead /\ InSeq /\ Having /\ Owed /\ NoFalseAlarm
      BY <2>1 DEF AlarmInv, OrderInv, TypeInv
    <3>2. AlarmInv'
      BY <2>1, AlarmStep, FewRequests
    <3>3. InSeq'
      BY <3>2 DEF AlarmInv, OrderInv
    <3>. QED
      BY <2>1, <3>1, <3>2, <3>3, NoFalseAlarmStep, FewRequests
  <2>. QED
    BY <2>1
<1>. QED
  BY <1>1, <1>2, PTL DEF Spec

-----------------------------------------------------------------------------
(* The reply to the first request of XGetWindowAttributes. *)

Pended(n) == \E i \in 1 .. Len(pending) : pending[i].seq = n

\* The reply to n has been copied, or still is to pass by its handler.
CopyOf(n) == n \in filled \/ Erred(n) \/ (Pended(n) /\ Awaited(n))

Copied ==
  \A t \in Threads : Wants(t) /\ call[t] = "attributes" =>
    /\ FirstRequest < current[t] - 1
    /\ \A u \in Threads : Wants(u) => current[u] # current[t] - 1
    /\ CopyOf(current[t] - 1)

LEMMA FilledGrows ==
  ASSUME BaseInv, [Next]_vars
  PROVE  filled \subseteq filled'
<1>1. CASE NoStep
  BY <1>1 DEF NoStep
<1>2. ASSUME NEW t \in Threads, StepOf(t)
      PROVE  filled \subseteq filled'
  <2>1. CASE Enter(t) \/ Done(t) \/ PollForReply(t) \/ PolledNothing(t) \/ TookEvent(t)
    BY <2>1 DEF Enter, Send, NextEvent, RoundTrip, Done, PollForReply, PolledNothing, TookEvent
  <2>2. CASE NoResponse(t) \/ ReadEvents(t) \/ EventArrived(t) \/ ReplyLoop(t) \/ PolledReply(t)
    BY <2>2 DEF NoResponse, End, ReadEvents, EventArrived, ReplyLoop, PolledReply
  <2>3. CASE ReplyArrived(t) \/ AwaitEventReader(t) \/ HandOn(t) \/ ReturnReply(t)
             \/ ReturnRefused(t)
    BY <2>3 DEF ReplyArrived, AwaitEventReader, HandOn, ReturnReply, ReturnRefused, Return
  <2>. QED
    BY <1>2, <2>1, <2>2, <2>3 DEF StepOf, ThreadPasses
<1>. QED
  BY <1>1, <1>2, Steps

\* Only the first request goes away, and only when its answer is taken.
LEMMA PendedKept ==
  ASSUME BaseInv, NEW n \in Nat, Pended(n), [Next]_vars
  PROVE  Pended(n)' \/ \E t \in Threads : StepOf(t) /\ Taken(t, n)
<1>1. PICK i \in 1 .. Len(pending) : pending[i].seq = n
  BY DEF Pended
<1>2. Len(pending) \in Nat /\ PendingSent
  BY Bounds, BaseParts
<1>3. ASSUME UNCHANGED pending PROVE Pended(n)'
  BY <1>1, <1>3 DEF Pended
<1>4. ASSUME NEW b \in BOOLEAN, pending # <<>>, pending' = [pending EXCEPT ![1].waiter = b]
      PROVE  Pended(n)'
  <2>1. /\ Len(pending') = Len(pending)
        /\ pending'[1] = [seq |-> pending[1].seq, waiter |-> b]
        /\ \A j \in 1 .. Len(pending) : j # 1 => pending'[j] = pending[j]
    BY <1>2, <1>4, Mark
  <2>2. pending'[i].seq = pending[i].seq
    BY <2>1
  <2>. QED
    BY <1>1, <2>1, <2>2 DEF Pended
<1>5. ASSUME pending # <<>>, pending' = Tail(pending), pending[1].seq # n
      PROVE  Pended(n)'
  <2>1. /\ Len(pending') = Len(pending) - 1
        /\ \A j \in 1 .. Len(pending) - 1 : pending'[j] = pending[j + 1]
    BY <1>2, <1>5, Dequeue
  <2>2. i - 1 \in 1 .. Len(pending') /\ (i - 1) + 1 = i
    BY <1>1, <1>2, <1>5, <2>1
  <2>3. pending'[i - 1] = pending[i]
    BY <2>1, <2>2
  <2>. QED
    BY <1>1, <2>2, <2>3 DEF Pended
<1>6. ASSUME NEW kinds, Submitted(kinds)
      PROVE  Pended(n)'
  BY SMTT(30), <1>1, <1>6 DEF Submitted, PendingKept, Pended
<1>7. CASE NoStep
  BY <1>3, <1>7 DEF NoStep
<1>8. ASSUME NEW t \in Threads, StepOf(t)
      PROVE  Pended(n)' \/ Taken(t, n)
  <2>1. CASE Enter(t)
    BY <1>3, <1>6, <2>1, BaseParts, EnterSubmits
  <2>2. CASE PolledReply(t)
    <3>1. pending # <<>>
      BY <2>2, BaseParts, EmptySeq DEF PolledReply, Runs, ReaderInv, Polled
    <3>2. Head(pending) = pending[1]
      BY <3>1, Pendings
    <3>3. pending' = pending \/ pending' = Tail(pending)
      BY <2>2 DEF PolledReply
    <3>. QED
      BY <1>3, <1>5, <2>2, <3>1, <3>2, <3>3 DEF Taken
  <2>3. CASE HandOn(t) \/ ReturnReply(t) \/ ReturnRefused(t)
    <3>1. Settled(t)
      BY <2>3 DEF HandOn, ReturnReply, ReturnRefused
    <3>2. HeadSettled(t)
      BY <3>1, BaseParts, SettledHead, ClientAssumption
    <3>3. /\ pending # <<>> /\ pending[1].seq = req[t]
          /\ pending' = Tail(pending) \/ pending' = [pending EXCEPT ![1].waiter = FALSE]
      BY <3>2 DEF HeadSettled
    <3>. QED
      BY <1>4, <1>5, <2>3, <3>3 DEF Taken
  <2>4. CASE ReplyLoop(t)
    <3>1. pending # <<>>
      <4>1. Len(pending) # 0
        BY <1>1, <1>2
      <4>. QED
        BY <4>1, EmptySeq
    <3>2. pending' = pending \/ pending' = [pending EXCEPT ![1].waiter = TRUE]
      BY <2>4 DEF ReplyLoop
    <3>. QED
      BY <1>3, <1>4, <3>1, <3>2
  <2>5. CASE Done(t) \/ PollForReply(t) \/ PolledNothing(t) \/ TookEvent(t) \/ ReplyArrived(t)
    BY <1>3, <2>5 DEF Done, PollForReply, PolledNothing, TookEvent, ReplyArrived, display
  <2>6. CASE NoResponse(t) \/ ReadEvents(t) \/ EventArrived(t) \/ AwaitEventReader(t)
    BY <1>3, <2>6 DEF NoResponse, End, ReadEvents, EventArrived, AwaitEventReader, display
  <2>. QED
    BY <1>8, <2>1, <2>2, <2>3, <2>4, <2>5, <2>6 DEF StepOf, ThreadPasses
<1>. QED
  BY <1>7, <1>8, Steps

LEMMA CopyKept ==
  ASSUME AnswerInv, FewRequests, [Next]_vars, NEW n \in Nat, CopyOf(n), n \in Handled,
         \A u \in Threads : Wants(u) => current[u] # n
  PROVE  CopyOf(n)'
<1>1. BaseInv
  BY DEF AnswerInv
<1>2. ASSUME NEW u \in Threads, ReturnReply(u) \/ ReturnRefused(u), req[u] = n
      PROVE  FALSE
  BY <1>2 DEF ReturnReply, ReturnRefused, Settled, EventsRead, Runs, Wants
<1>3. CASE n \in filled
  BY <1>1, <1>3, FilledGrows DEF CopyOf
<1>4. ASSUME Erred(n) PROVE CopyOf(n)'
  <2>1. Erred(n)'
    BY <1>2, <1>4, ErredKept
  <2>. QED
    BY <2>1 DEF CopyOf
<1>5. ASSUME Awaited(n), Past(n), n \notin replies, ~Brought(n)
      PROVE  CopyOf(n)'
  <2>1. Erred(n)
    BY <1>1, <1>5, AwaitedPast DEF Erred, InStream
  <2>. QED
    BY <1>4, <2>1
<1>6. ASSUME NEW u \in Threads, Taken(u, n), Awaited(n)
      PROVE  CopyOf(n)'
  <2>1. CASE PolledReply(u) /\ Head(pending).seq = n
    <3>1. /\ Ready(n) /\ pc[u] = "poll_reply"
          /\ n \in replies => filled' = filled \cup ({n} \cap Handled)
      BY <2>1 DEF PolledReply, Runs
    <3>2. CASE n \in replies
      BY <3>1, <3>2 DEF CopyOf
    <3>3. CASE n \notin replies
      <4>1. Past(n)
        BY <1>1, <3>1, ReadyPast
      <4>2. ~pending[1].waiter
        BY <1>1, <3>1, BaseParts DEF ReaderInv, Polled
      <4>3. \A v \in Threads : pc[v] # "events"
        <5>1. ASSUME NEW v \in Threads, pc[v] = "events"
              PROVE  pending[1].waiter
          <6>1. pending[1] = [seq |-> req[v], waiter |-> TRUE]
            BY <1>1, <5>1, BaseParts DEF ReaderInv, Waiting, Waits
          <6>. QED
            BY <6>1
        <5>. QED
          BY <4>2, <5>1
      <4>. QED
        BY <1>5, <1>6, <3>3, <4>1, <4>3 DEF Brought
    <3>. QED
      BY <3>2, <3>3
  <2>2. CASE HandOn(u) /\ req[u] = n
    <3>1. /\ pc[u] = "events" /\ Waits(u)
          /\ filled' = filled \cup (IF response[u] THEN {n} \cap Handled ELSE {})
      BY <2>2 DEF HandOn, Settled, EventsRead, Runs, Waits
    <3>2. CASE response[u]
      BY <3>1, <3>2 DEF CopyOf
    <3>3. CASE ~response[u]
      <4>1. Past(n) /\ n \notin replies
        BY <2>2, <3>1 DEF AnswerInv, Responses, Given
      <4>2. \A v \in Threads : pc[v] = "events" => v = u
        BY <1>1, <3>1, BaseParts DEF ReaderInv, Waiting, Waits
      <4>. QED
        BY <1>5, <1>6, <3>3, <4>1, <4>2 DEF Brought
    <3>. QED
      BY <3>2, <3>3
  <2>. QED
    BY <1>2, <1>6, <2>1, <2>2 DEF Taken
<1>7. CASE Pended(n) /\ Awaited(n)
  <2>1. CASE \E u \in Threads : Taken(u, n)
    BY <1>6, <1>7, <2>1
  <2>2. CASE ~(\E u \in Threads : Taken(u, n))
    BY <1>1, <1>7, <2>2, PendedKept, AwaitedKept DEF CopyOf
  <2>. QED
    BY <2>1, <2>2
<1>. QED
  BY <1>3, <1>4, <1>7 DEF CopyOf

LEMMA CopiedStep ==
  ASSUME AnswerInv, Copied, FewRequests, [Next]_vars
  PROVE  Copied'
<1>1. BaseInv /\ Locals
  BY DEF AnswerInv
<1>2. ASSUME NEW t \in Threads, Wants(t)
      PROVE  current[t] \in Nat /\ current[t] <= request
  <2>1. PICK i \in 1 .. Len(pending) : pending[i] = [seq |-> current[t], waiter |-> TRUE]
    BY <1>1, <1>2, BaseParts DEF ReaderInv, Wanted
  <2>. QED
    BY <1>1, <2>1, Pendings
<1>3. ASSUME NEW t \in Threads, Wants(t)'
      PROVE  \/ RoundTrip(t)
             \/ Wants(t) /\ current'[t] = current[t] /\ call'[t] = call[t]
  <2>1. CASE NoStep
    BY <1>3, <2>1 DEF NoStep, Wants
  <2>2. ASSUME NEW u \in Threads, StepOf(u)
        PROVE  \/ RoundTrip(t)
               \/ Wants(t) /\ current'[t] = current[t] /\ call'[t] = call[t]
    BY <1>1, <1>3, <2>2, LocalStep DEF OnlyMine, WantsSame, Wants
  <2>. QED
    BY <1>1, <2>1, <2>2, Steps
<1>4. ASSUME NEW t \in Threads, RoundTrip(t)
      PROVE  /\ current'[t] = request' /\ request \in Nat /\ FirstRequest <= request
             /\ request' = request + 1 \/ request' = request + 2
             /\ call'[t] = "attributes" =>
                  request' = request + 2 /\ \A n : n = request + 1 => CopyOf(n)'
  <2>1. /\ current'[t] = request'
        /\ \/ call'[t] = "round_trip" /\ request' = request + 1
           \/ call'[t] = "attributes" /\ request' = request + 2
    BY <1>1, <1>4, RoundTripAsks
  <2>2. ASSUME call'[t] = "attributes", NEW n, n = request + 1
        PROVE  CopyOf(n)'
    <3>1. Asked(n)' /\ Pended(n)'
      BY <1>1, <1>4, <2>1, <2>2, RoundTripAsks DEF Pended
    <3>. QED
      BY <3>1 DEF CopyOf, Awaited
  <2>. QED
    BY <1>1, <2>1, <2>2, Bounds
<1>5. ASSUME NEW t \in Threads, NEW n, Wants(t)', call'[t] = "attributes", n = current'[t] - 1
      PROVE  /\ FirstRequest < n
             /\ \A u \in Threads : Wants(u)' => current'[u] # n
             /\ CopyOf(n)'
  <2>1. CASE RoundTrip(t)
    <3>1. request' = request + 2 /\ n = request + 1 /\ CopyOf(n)' /\ FirstRequest < n
          /\ request \in Nat /\ current'[t] = request'
      BY SMTT(30), <1>1, <1>4, <1>5, <2>1, Bounds
    <3>2. ASSUME NEW u \in Threads, Wants(u)'
          PROVE  current'[u] # n
      <4>1. CASE RoundTrip(u)
        BY <1>4, <3>1, <4>1
      <4>2. CASE Wants(u) /\ current'[u] = current[u]
        BY <1>2, <3>1, <4>2
      <4>. QED
        BY <1>3, <3>2, <4>1, <4>2
    <3>. QED
      BY <3>1, <3>2
  <2>2. CASE Wants(t) /\ current'[t] = current[t] /\ call'[t] = call[t]
    <3>1. /\ n = current[t] - 1 /\ FirstRequest < n /\ CopyOf(n)
          /\ \A u \in Threads : Wants(u) => current[u] # n
      BY <1>5, <2>2 DEF Copied
    <3>2. n \in Nat /\ n < request
      BY SMTT(30), <1>1, <1>2, <2>2, <3>1, Bounds
    <3>3. n \in Handled
      BY <1>5, <2>2, <3>1 DEF Handled
    <3>4. CopyOf(n)'
      BY <3>1, <3>2, <3>3, CopyKept
    <3>5. ASSUME NEW u \in Threads, Wants(u)'
          PROVE  current'[u] # n
      <4>1. CASE RoundTrip(u)
        BY <1>4, <3>2, <4>1
      <4>2. CASE Wants(u) /\ current'[u] = current[u]
        BY <3>1, <4>2
      <4>. QED
        BY <1>3, <3>5, <4>1, <4>2
    <3>. QED
      BY <3>1, <3>4, <3>5
  <2>. QED
    BY <1>3, <1>5, <2>1, <2>2
<1>6. ASSUME NEW t \in Threads, Wants(t)', call'[t] = "attributes"
      PROVE  /\ FirstRequest < current'[t] - 1
             /\ \A u \in Threads : Wants(u)' => current'[u] # current'[t] - 1
             /\ CopyOf(current[t] - 1)'
  <2>1. PICK n : n = current'[t] - 1
    OBVIOUS
  <2>. QED
    BY <1>5, <1>6, <2>1
<1>. QED
  BY <1>6 DEF Copied

LEMMA FilledStep ==
  ASSUME AnswerInv, LastRead, InSeq, Copied, AttributesFilled, FewRequests, [Next]_vars
  PROVE  AttributesFilled'
<1>1. BaseInv
  BY DEF AnswerInv
<1>2. SUFFICES ASSUME ~overtaken', NEW r \in returned', r.call = "attributes", r.kind = "reply"
               PROVE  r.seq - 1 \in filled'
  BY DEF AttributesFilled
<1>3. ~overtaken /\ InSequence /\ filled \subseteq filled'
  BY <1>1, <1>2, OvertakenStays, FilledGrows DEF InSeq
<1>4. CASE r \in returned
  BY <1>2, <1>3, <1>4 DEF AttributesFilled
<1>5. CASE r \notin returned
  <2>1. PICK t \in Threads :
          /\ EventsRead(t) /\ req[t] = current[t]
          /\ r.seq = req[t] /\ r.call = call[t]
    BY <1>1, <1>2, <1>5, Returns
  <2>2. Wants(t) /\ Waits(t)
    BY <2>1 DEF EventsRead, Runs, Wants, Waits
  <2>3. req[t] \in Nat /\ req[t] = pending[1].seq /\ FirstRequest < req[t] - 1
    BY <1>1, <1>2, <2>1, <2>2, WaitsFirst DEF Copied
  <2>4. PICK n : n = req[t] - 1
    OBVIOUS
  <2>5. CopyOf(n)
    BY <1>2, <2>1, <2>2, <2>4 DEF Copied
  <2>6. ~Erred(n)
    BY <1>3, <2>1, <2>3, <2>4, NothingEarlier DEF Erred
  <2>7. ~Pended(n)
    BY <1>1, <2>3, <2>4, Pendings DEF Pended
  <2>. QED
    BY <1>3, <2>1, <2>4, <2>5, <2>6, <2>7 DEF CopyOf
<1>. QED
  BY <1>4, <1>5

\* When XGetWindowAttributes returns success, the reply to its first request
\* has gone through the handler that copies it, whichever thread took it: no
\* field of the attributes is left unset, as long as no answer has overtaken an
\* event and no more requests are made than there are numbers.
THEOREM AttributesAreFilled ==
  ASSUME FewRequests
  PROVE  Spec => []AttributesFilled
<1>. DEFINE I == OrderInv /\ Copied /\ AttributesFilled
<1>1. Init => I
  BY OrderInit DEF Init, Copied, Wants, AttributesFilled
<1>2. I /\ [Next]_vars => I'
  BY OrderStep, CopiedStep, FilledStep, FewRequests DEF OrderInv, TypeInv
<1>. QED
  BY <1>1, <1>2, PTL DEF Spec
=============================================================================
