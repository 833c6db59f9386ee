--------------------------- MODULE XlibReplyProofs ---------------------------
(***************************************************************************)
(* Theorems about XlibReply, for any number of threads, calls and events.  *)
(***************************************************************************)
EXTENDS XlibReply, SequenceTheorems, TLAPS

Request == [seq : Nat, waiter : BOOLEAN]

\* The pending requests are in the order they were sent in.
PendingSent ==
  /\ request \in Nat
  /\ pending \in Seq(Request)
  /\ \A i \in 1 .. Len(pending) : pending[i].seq <= request
  /\ \A i, j \in 1 .. Len(pending) : i < j => pending[i].seq < pending[j].seq

ThreadsTyped ==
  /\ pc \in [Threads -> Place]
  /\ current \in [Threads -> Nat]
  /\ req \in [Threads -> Nat]
  /\ eventWaiter \in BOOLEAN

Polling == {"poll", "poll_reply", "poll_queued", "done"}

\* In the loops that poll the display stays locked.
Locked == \A t \in Threads : pc[t] \in Polling => lock = t

Wants(t) == pc[t] \in {"reply", "wait_reply", "events"}
Waits(t) == pc[t] \in {"wait_reply", "events"}

\* A request that a thread wants the reply of is pending and marked, and no
\* other thread wants it.
Wanted ==
  /\ \A t \in Threads :
       Wants(t) => \E i \in 1 .. Len(pending) : pending[i] = [seq |-> current[t], waiter |-> TRUE]
  /\ \A t, u \in Threads : Wants(t) /\ Wants(u) /\ current[t] = current[u] => t = u

\* The thread in libxcb waits for the first pending request: its own, or one
\* that no thread wants.
Waiting ==
  \A t \in Threads : Waits(t) =>
    /\ Len(pending) > 0 /\ pending[1] = [seq |-> req[t], waiter |-> TRUE]
    /\ \A u \in Threads : Waits(u) \/ (Wants(u) /\ current[u] = req[t]) => t = u

\* A request that is polled for has no thread waiting for it.
Polled ==
  \A t \in Threads : pc[t] = "poll_reply" => Len(pending) > 0 /\ ~pending[1].waiter

EventReader ==
  /\ eventWaiter <=> \E t \in Threads : pc[t] = "wait_event"
  /\ \A t, u \in Threads : pc[t] = "wait_event" /\ pc[u] = "wait_event" => t = u

ReaderInv ==
  PendingSent /\ ThreadsTyped /\ Locked /\ Wanted /\ Waiting /\ Polled /\ EventReader

-----------------------------------------------------------------------------
(* The pending requests. *)

\* A queue that is not empty has a first request.
LEMMA First ==
  ASSUME PendingSent, pending # <<>>
  PROVE  /\ Len(pending) > 0 /\ Len(pending) \in Nat
         /\ Head(pending) = pending[1] /\ pending[1] \in Request
  BY EmptySeq, HeadTailProperties DEF PendingSent

LEMMA Requests ==
  ASSUME PendingSent
  PROVE  /\ Len(pending) \in Nat /\ pending \in Seq(Request)
         /\ \A i \in 1 .. Len(pending) : pending[i] \in Request /\ pending[i].seq \in Nat
<1>1. Len(pending) \in Nat /\ pending \in Seq(Request)
  BY LenProperties DEF PendingSent
<1>2. \A i \in 1 .. Len(pending) : pending[i] \in Request
  BY <1>1, ElementOfSeq
<1>. QED
  BY <1>1, <1>2 DEF Request

\* Taking the first request off leaves the others, each one place further on.
LEMMA Dequeue ==
  ASSUME PendingSent, pending # <<>>
  PROVE  /\ Tail(pending) \in Seq(Request)
         /\ Len(Tail(pending)) = Len(pending) - 1
         /\ \A i \in 1 .. Len(pending) - 1 : Tail(pending)[i] = pending[i + 1]
  BY HeadTailProperties DEF PendingSent

\* Marking the first request leaves the numbers, and the others, as they are.
LEMMA Mark ==
  ASSUME PendingSent, pending # <<>>, NEW b \in BOOLEAN
  PROVE  /\ [pending EXCEPT ![1].waiter = b] \in Seq(Request)
         /\ Len([pending EXCEPT ![1].waiter = b]) = Len(pending)
         /\ [pending EXCEPT ![1].waiter = b][1] = [seq |-> pending[1].seq, waiter |-> b]
         /\ \A i \in 1 .. Len(pending) :
              i # 1 => [pending EXCEPT ![1].waiter = b][i] = pending[i]
<1>. DEFINE e == [seq |-> pending[1].seq, waiter |-> b]
<1>1. 1 \in 1 .. Len(pending) /\ pending[1] \in Request
  BY First
<1>2. e \in Request
  BY <1>1 DEF Request
<1>3. [pending[1] EXCEPT !.waiter = b] = e
  BY <1>1 DEF Request
<1>4. [pending EXCEPT ![1].waiter = b] = [pending EXCEPT ![1] = e]
  BY <1>3, <1>1
<1>. HIDE DEF e
<1>5. /\ [pending EXCEPT ![1] = e] \in Seq(Request)
      /\ Len([pending EXCEPT ![1] = e]) = Len(pending)
      /\ \A j \in 1 .. Len(pending) :
           [pending EXCEPT ![1] = e][j] = IF j = 1 THEN e ELSE pending[j]
  BY <1>1, <1>2, ExceptSeq DEF PendingSent
<1>. QED
  BY <1>1, <1>4, <1>5 DEF e

-----------------------------------------------------------------------------
(* What a step of one thread leaves as it is. *)

Mine(t, at) == t \in Threads /\ at \in Place /\ pc' = [pc EXCEPT ![t] = at]

\* The queue may get longer, at its end.
PendingKept ==
  /\ Len(pending) \in Nat /\ Len(pending') \in Nat /\ Len(pending) <= Len(pending')
  /\ \A i \in 1 .. Len(pending) : pending'[i] = pending[i]

OthersKeep(t) ==
  /\ current' \in [Threads -> Nat] /\ req' \in [Threads -> Nat]
  /\ \A u \in Threads : u # t => current'[u] = current[u] /\ req'[u] = req[u]

\* Only a thread that has, or takes, the display can be where it is locked.
LEMMA LockedKept ==
  ASSUME ThreadsTyped, Locked, ClientAssumption, NEW t, NEW at, Mine(t, at),
         lock \in {t, NoThread}, at \in Polling => lock' = t
  PROVE  Locked'
<1>1. \A u \in Threads : u # t /\ pc'[u] \in Polling => FALSE
  BY DEF Mine, Locked, ThreadsTyped, ClientAssumption
<1>2. pc'[t] = at
  BY DEF Mine, ThreadsTyped
<1>. QED
  BY <1>1, <1>2 DEF Locked

\* A thread that wants no reply, and does not poll for one afterwards, may move
\* on and send requests.
LEMMA QuietStep ==
  ASSUME ReaderInv, NEW t, NEW at, Mine(t, at), PendingKept, OthersKeep(t),
         pc[t] \notin {"reply", "wait_reply", "events"},
         at \notin {"reply", "wait_reply", "events"},
         at = "poll_reply" => Len(pending) > 0 /\ ~pending[1].waiter
  PROVE  Wanted' /\ Waiting' /\ Polled'
<1>1. \A u \in Threads : pc'[u] = IF u = t THEN at ELSE pc[u]
  BY DEF Mine, ReaderInv, ThreadsTyped
<1>2. \A u \in Threads : (Wants(u)' => u # t /\ Wants(u)) /\ (Waits(u)' => u # t /\ Waits(u))
  BY <1>1 DEF Wants, Waits
<1>3. Wanted'
  <2>1. ASSUME NEW u \in Threads, Wants(u)'
        PROVE  \E i \in 1 .. Len(pending') : pending'[i] = [seq |-> current'[u], waiter |-> TRUE]
    <3>1. PICK i \in 1 .. Len(pending) : pending[i] = [seq |-> current[u], waiter |-> TRUE]
      BY <1>2, <2>1 DEF ReaderInv, Wanted
    <3>2. i \in 1 .. Len(pending') /\ pending'[i] = pending[i]
      BY DEF PendingKept
    <3>3. current'[u] = current[u]
      BY <1>2, <2>1 DEF OthersKeep
    <3>. QED
      BY <3>1, <3>2, <3>3
  <2>2. ASSUME NEW u \in Threads, NEW v \in Threads, Wants(u)', Wants(v)', current'[u] = current'[v]
        PROVE  u = v
    BY <1>2, <2>2 DEF OthersKeep, ReaderInv, Wanted
  <2>. QED
    BY <2>1, <2>2 DEF Wanted
<1>4. Waiting'
  <2>1. ASSUME NEW u \in Threads, Waits(u)'
        PROVE  Len(pending') > 0 /\ pending'[1] = [seq |-> req'[u], waiter |-> TRUE]
    <3>1. Len(pending) > 0 /\ pending[1] = [seq |-> req[u], waiter |-> TRUE]
      BY <1>2, <2>1 DEF ReaderInv, Waiting
    <3>2. Len(pending') > 0 /\ pending'[1] = pending[1]
      BY <3>1 DEF PendingKept
    <3>. QED
      BY <1>2, <2>1, <3>1, <3>2 DEF OthersKeep
  <2>2. ASSUME NEW u \in Threads, Waits(u)', NEW v \in Threads,
               Waits(v)' \/ (Wants(v)' /\ current'[v] = req'[u])
        PROVE  u = v
    BY <1>2, <2>2 DEF OthersKeep, ReaderInv, Waiting
  <2>. QED
    BY <2>1, <2>2 DEF Waiting
<1>5. Polled'
  <2>1. ASSUME NEW u \in Threads, pc'[u] = "poll_reply"
        PROVE  Len(pending) > 0 /\ ~pending[1].waiter
    BY <1>1, <2>1 DEF ReaderInv, Polled
  <2>2. ASSUME NEW u \in Threads, pc'[u] = "poll_reply"
        PROVE  Len(pending') > 0 /\ ~pending'[1].waiter
    BY <2>1, <2>2 DEF PendingKept
  <2>. QED
    BY <2>2 DEF Polled
<1>. QED
  BY <1>3, <1>4, <1>5

\* Only the thread in xcb_wait_for_event is noted, and it leaves no note.
LEMMA EventReaderKept ==
  ASSUME ThreadsTyped, EventReader, NEW t, NEW at, Mine(t, at),
         at # "wait_event", pc[t] # "wait_event", eventWaiter' = eventWaiter
  PROVE  EventReader'
<1>1. \A u \in Threads : pc'[u] = "wait_event" <=> pc[u] = "wait_event"
  BY DEF Mine, ThreadsTyped
<1>. QED
  BY <1>1 DEF EventReader

LEMMA ReaderStutter ==
  ASSUME ReaderInv, UNCHANGED <<lock, request, pending, eventWaiter, pc, current, req>>
  PROVE  ReaderInv'
<1>1. Wanted' /\ Waiting'
  BY Zenon DEF ReaderInv, Wanted, Waiting, Wants, Waits
<1>. QED
  BY <1>1 DEF ReaderInv, PendingSent, ThreadsTyped, Locked, Polled, EventReader

\* A thread goes on to another place, and leaves the requests alone.
LEMMA MoveStep ==
  ASSUME ReaderInv, ClientAssumption, NEW t, NEW at, Mine(t, at),
         UNCHANGED <<request, pending, eventWaiter, current, req>>,
         lock \in {t, NoThread}, at \in Polling => lock' = t,
         {pc[t], at} \cap {"reply", "wait_reply", "events", "wait_event"} = {},
         at = "poll_reply" => Len(pending) > 0 /\ ~pending[1].waiter
  PROVE  ReaderInv'
<1>1. PendingSent' /\ ThreadsTyped'
  BY DEF ReaderInv, PendingSent, ThreadsTyped, Mine
<1>2. PendingKept /\ OthersKeep(t)
  BY LenProperties DEF PendingKept, OthersKeep, ReaderInv, PendingSent, ThreadsTyped
<1>3. Wanted' /\ Waiting' /\ Polled'
  BY <1>2, QuietStep
<1>4. Locked'
  BY LockedKept DEF ReaderInv
<1>5. EventReader'
  BY EventReaderKept DEF ReaderInv
<1>. QED
  BY <1>1, <1>3, <1>4, <1>5 DEF ReaderInv

\* A thread has dealt with an answer to the first pending request, which no
\* other thread wants: it takes it off, or the mark.
LEMMA HeadStep ==
  ASSUME ReaderInv, NEW t, NEW at, Mine(t, at), OthersKeep(t),
         pending # <<>>, UNCHANGED request,
         pending' \in {Tail(pending), [pending EXCEPT ![1].waiter = FALSE]},
         \A u \in Threads : u # t =>
           ~Waits(u) /\ pc[u] # "poll_reply" /\ (Wants(u) => current[u] # pending[1].seq),
         at \notin {"wait_reply", "events", "poll_reply"},
         at = "reply" => Wants(t) /\ current'[t] = current[t] /\ current[t] # pending[1].seq
  PROVE  PendingSent' /\ Wanted' /\ Waiting' /\ Polled'
<1>1. \A u \in Threads : pc'[u] = IF u = t THEN at ELSE pc[u]
  BY DEF Mine, ReaderInv, ThreadsTyped
<1>2. \A u \in Threads : ~Waits(u)' /\ pc'[u] # "poll_reply"
  BY <1>1 DEF Waits
<1>3. \A u \in Threads : Wants(u)' =>
        Wants(u) /\ current'[u] = current[u] /\ current[u] # pending[1].seq
  BY <1>1 DEF Wants, OthersKeep
<1>4. /\ Len(pending) \in Nat /\ pending \in Seq(Request)
      /\ \A i \in 1 .. Len(pending) : pending[i] \in Request /\ pending[i].seq \in Nat
  BY Requests DEF ReaderInv
<1>5. CASE pending' = Tail(pending)
  <2>1. /\ pending' \in Seq(Request) /\ Len(pending') = Len(pending) - 1
        /\ \A i \in 1 .. Len(pending) - 1 : pending'[i] = pending[i + 1]
    BY <1>5, Dequeue DEF ReaderInv
  <2>2. \A i \in 1 .. Len(pending') : i + 1 \in 1 .. Len(pending) /\ pending'[i] = pending[i + 1]
    BY <1>4, <2>1
  <2>3. PendingSent'
    <3>1. \A i \in 1 .. Len(pending') : pending'[i].seq <= request'
      BY <2>2 DEF ReaderInv, PendingSent
    <3>2. ASSUME NEW i \in 1 .. Len(pending'), NEW j \in 1 .. Len(pending'), i < j
          PROVE  pending'[i].seq < pending'[j].seq
      <4>1. i + 1 < j + 1
        BY <3>2, <1>4, <2>1
      <4>. QED
        BY <4>1, <2>2 DEF ReaderInv, PendingSent
    <3>. QED
      BY <2>1, <3>1, <3>2 DEF ReaderInv, PendingSent
  <2>4. ASSUME NEW u \in Threads, Wants(u)'
        PROVE  \E i \in 1 .. Len(pending') : pending'[i] = [seq |-> current'[u], waiter |-> TRUE]
    <3>1. PICK i \in 1 .. Len(pending) : pending[i] = [seq |-> current[u], waiter |-> TRUE]
      BY <1>3, <2>4 DEF ReaderInv, Wanted
    <3>2. i # 1
      BY <1>3, <2>4, <3>1
    <3>3. i - 1 \in 1 .. Len(pending') /\ pending'[i - 1] = pending[i]
      BY SMTT(30), <1>4, <2>1, <3>2
    <3>. QED
      BY <1>3, <2>4, <3>1, <3>3
  <2>. QED
    BY <1>2, <1>3, <2>3, <2>4 DEF ReaderInv, Wanted, Waiting, Polled
<1>6. CASE pending' = [pending EXCEPT ![1].waiter = FALSE]
  <2>1. /\ pending' \in Seq(Request) /\ Len(pending') = Len(pending)
        /\ pending'[1] = [seq |-> pending[1].seq, waiter |-> FALSE]
        /\ \A i \in 1 .. Len(pending) : i # 1 => pending'[i] = pending[i]
    BY <1>6, Mark DEF ReaderInv
  <2>2. \A i \in 1 .. Len(pending) : pending'[i].seq = pending[i].seq
    BY <2>1
  <2>3. PendingSent'
    BY <1>4, <2>1, <2>2 DEF ReaderInv, PendingSent
  <2>4. ASSUME NEW u \in Threads, Wants(u)'
        PROVE  \E i \in 1 .. Len(pending') : pending'[i] = [seq |-> current'[u], waiter |-> TRUE]
    <3>1. PICK i \in 1 .. Len(pending) : pending[i] = [seq |-> current[u], waiter |-> TRUE]
      BY <1>3, <2>4 DEF ReaderInv, Wanted
    <3>2. i # 1
      BY <1>3, <2>4, <3>1
    <3>3. i \in 1 .. Len(pending') /\ pending'[i] = pending[i]
      BY <2>1, <3>2
    <3>. QED
      BY <1>3, <2>4, <3>1, <3>3
  <2>. QED
    BY <1>2, <1>3, <2>3, <2>4 DEF ReaderInv, Wanted, Waiting, Polled
<1>. QED
  BY <1>5, <1>6

\* Requests that are sent are noted at the end of the queue.
LEMMA Noted ==
  ASSUME PendingSent, NEW n \in Nat, NEW noted \in Seq(Request),
         request' = request + n, pending' = pending \o noted,
         \A i \in 1 .. Len(noted) : noted[i].seq > request /\ noted[i].seq <= request + n,
         \A i, j \in 1 .. Len(noted) : i < j => noted[i].seq < noted[j].seq
  PROVE  /\ PendingSent' /\ PendingKept
         /\ Len(noted) \in Nat /\ Len(pending') = Len(pending) + Len(noted)
         /\ \A i \in 1 .. Len(noted) : pending'[Len(pending) + i] = noted[i]
<1>. DEFINE a == Len(pending)
            b == Len(noted)
            p == [i \in 1 .. a |-> pending[i].seq]
            q == [i \in 1 .. b |-> noted[i].seq]
            s == [i \in 1 .. a + b |-> (pending \o noted)[i].seq]
<1>1. /\ a \in Nat /\ pending \in Seq(Request)
      /\ p \in [1 .. a -> Nat]
  BY Requests
<1>2. b \in Nat /\ \A i \in 1 .. b : noted[i] \in Request
  BY LenProperties, ElementOfSeq
<1>3. q \in [1 .. b -> Nat]
  BY <1>2 DEF Request
<1>4. /\ pending \o noted \in Seq(Request) /\ Len(pending \o noted) = a + b
      /\ \A i \in 1 .. a + b :
           (pending \o noted)[i] = IF i <= a THEN pending[i] ELSE noted[i - a]
  BY <1>1, ConcatProperties
<1>5. \A i \in 1 .. a : p[i] = pending[i].seq
  OBVIOUS
<1>6. \A i \in 1 .. b : q[i] = noted[i].seq
  OBVIOUS
<1>7. \A i \in 1 .. a + b : s[i] = (pending \o noted)[i].seq
  OBVIOUS
<1>. HIDE DEF a, b, p, q, s
<1>8. \A i \in 1 .. a + b : s[i] = IF i <= a THEN p[i] ELSE q[i - a]
  <2>1. ASSUME NEW i \in 1 .. a + b, i <= a PROVE s[i] = p[i]
    <3>1. i \in 1 .. a
      BY <1>1, <1>2, <2>1
    <3>. QED
      BY <1>4, <1>5, <1>7, <2>1, <3>1
  <2>2. ASSUME NEW i \in 1 .. a + b, ~(i <= a) PROVE s[i] = q[i - a]
    <3>1. i - a \in 1 .. b
      BY <1>1, <1>2, <2>2
    <3>. QED
      BY <1>4, <1>6, <1>7, <2>2, <3>1
  <2>. QED
    BY <2>1, <2>2
<1>9. request \in Nat /\ request + n \in Nat /\ request <= request + n
  BY DEF PendingSent
<1>10. /\ \A i \in 1 .. a : p[i] <= request
       /\ \A i, j \in 1 .. a : i < j => p[i] < p[j]
  BY <1>5 DEF PendingSent, a
<1>11. /\ \A i \in 1 .. b : request < q[i] /\ q[i] <= request + n
       /\ \A i, j \in 1 .. b : i < j => q[i] < q[j]
  <2>1. \A i \in 1 .. b : q[i] \in Nat
    BY <1>3
  <2>. QED
    BY <1>6, <1>9, <2>1 DEF b
<1>12. /\ \A i \in 1 .. a + b : s[i] <= request + n
       /\ \A i, j \in 1 .. a + b : i < j => s[i] < s[j]
  <2>. DEFINE m == request + n
  <2>1. request \in Nat /\ m \in Nat /\ request <= m
    BY <1>9
  <2>2. \A i \in 1 .. b : request < q[i] /\ q[i] <= m
    BY <1>11
  <2>. HIDE DEF m
  <2>3. ASSUME NEW i \in 1 .. a + b, i <= a
        PROVE  i \in 1 .. a /\ s[i] = p[i] /\ s[i] \in Nat /\ s[i] <= request /\ s[i] <= m
    <3>1. i \in 1 .. a
      BY <1>1, <1>2, <2>3
    <3>. QED
      BY <1>1, <1>8, <1>10, <2>1, <2>3, <3>1
  <2>4. ASSUME NEW i \in 1 .. a + b, ~(i <= a)
        PROVE  /\ i - a \in 1 .. b /\ s[i] = q[i - a]
               /\ s[i] \in Nat /\ request < s[i] /\ s[i] <= m
    <3>1. i - a \in 1 .. b
      BY <1>1, <1>2, <2>4
    <3>. QED
      BY <1>3, <1>8, <2>1, <2>2, <2>4, <3>1
  <2>5. ASSUME NEW i \in 1 .. a + b, NEW j \in 1 .. a + b, i < j
        PROVE  s[i] < s[j]
    <3>1. i \in Nat /\ j \in Nat
      BY <1>1, <1>2
    <3>2. CASE i <= a /\ j <= a
      BY <1>10, <2>3, <2>5, <3>2
    <3>3. CASE i <= a /\ ~(j <= a)
      BY <2>1, <2>3, <2>4, <3>3
    <3>4. CASE ~(i <= a)
      <4>1. ~(j <= a) /\ i - a < j - a
        BY <1>1, <2>5, <3>1, <3>4
      <4>2. /\ i - a \in 1 .. b /\ j - a \in 1 .. b
            /\ s[i] = q[i - a] /\ s[j] = q[j - a]
        BY <2>4, <3>4, <4>1
      <4>. QED
        BY <1>11, <4>1, <4>2
    <3>. QED
      BY <3>2, <3>3, <3>4
  <2>6. \A i \in 1 .. a + b : s[i] <= m
    BY <2>3, <2>4
  <2>. QED
    BY <2>5, <2>6 DEF m
<1>13. PendingSent'
  <2>1. \A i \in 1 .. a + b : pending'[i].seq <= request'
    BY <1>7, <1>12
  <2>2. \A i, j \in 1 .. a + b : i < j => pending'[i].seq < pending'[j].seq
    BY <1>7, <1>12
  <2>3. pending' \in Seq(Request) /\ Len(pending') = a + b /\ request' \in Nat
    BY <1>4, <1>9
  <2>. QED
    BY <2>1, <2>2, <2>3, Zenon DEF PendingSent
<1>14. PendingKept
  <2>1. \A i \in 1 .. a : i \in 1 .. a + b /\ pending'[i] = pending[i]
    BY <1>1, <1>2, <1>4
  <2>. QED
    BY <1>1, <1>2, <1>4, <2>1 DEF PendingKept, a
<1>15. ASSUME NEW i \in 1 .. b PROVE (pending \o noted)[a + i] = noted[i]
  <2>1. a + i \in 1 .. a + b /\ ~(a + i <= a) /\ (a + i) - a = i
    BY <1>1, <1>2
  <2>. QED
    BY <1>4, <2>1
<1>. QED
  BY <1>2, <1>4, <1>13, <1>14, <1>15 DEF a, b

\* The numbers of pending requests differ.
LEMMA Distinct ==
  ASSUME PendingSent, NEW i \in 1 .. Len(pending), NEW j \in 1 .. Len(pending),
         pending[i].seq = pending[j].seq
  PROVE  i = j
  BY Requests DEF PendingSent

-----------------------------------------------------------------------------
(* One lemma for each action. *)

LEMMA EndReader == ASSUME ReaderInv, NEW why, End(why) PROVE ReaderInv'
  BY ReaderStutter DEF End, display, thread

LEMMA TakeEventReader ==
  ASSUME ReaderInv, ClientAssumption, NEW t \in Threads, TakeEvent(t)
  PROVE  ReaderInv'
<1>. DEFINE m == Head(Coming)
            n == Widen(lastRead, m.seq)
<1>1. CASE n > request
  BY <1>1, EndReader DEF TakeEvent
<1>2. CASE ~(n > request) /\ IsError(m)
  BY <1>2, EndReader DEF TakeEvent
<1>3. CASE ~(n > request) /\ ~IsError(m)
  <2>1. /\ UNCHANGED <<request, pending, eventWaiter, current, req>>
        /\ lock' = t
        /\ pc' = [pc EXCEPT ![t] = IF pc[t] = "events" THEN "events" ELSE "poll"]
    BY <1>3 DEF TakeEvent, Goto, display, thread
  <2>2. lock \in {t, NoThread} /\ pc[t] \in {"poll", "poll_queued", "events"}
    BY DEF TakeEvent, Runs
  <2>3. CASE pc[t] = "events"
    <3>1. pc' = pc
      BY <2>1, <2>3 DEF ReaderInv, ThreadsTyped
    <3>2. Locked'
      BY <2>1, <2>2, <2>3, <3>1 DEF ReaderInv, Locked, ClientAssumption
    <3>3. Wanted' /\ Waiting'
      BY <2>1, <3>1, Zenon DEF ReaderInv, Wanted, Waiting, Wants, Waits
    <3>. QED
      BY <2>1, <3>1, <3>2, <3>3
      DEF ReaderInv, PendingSent, ThreadsTyped, Polled, EventReader
  <2>4. CASE pc[t] # "events"
    <3>1. Mine(t, "poll")
      BY <2>1, <2>4 DEF Mine, Place
    <3>. QED
      BY <2>1, <2>2, <2>4, <3>1, MoveStep
  <2>. QED
    BY <2>3, <2>4
<1>. QED
  BY <1>1, <1>2, <1>3

LEMMA PollForReplyReader ==
  ASSUME ReaderInv, ClientAssumption, NEW t \in Threads, PollForReply(t)
  PROVE  ReaderInv'
<1>1. pc[t] = "poll" /\ lock \in {t, NoThread}
  BY DEF PollForReply, Runs
<1>2. lock = t
  BY <1>1 DEF ReaderInv, Locked, Polling
<1>3. Len(pending) > 0 /\ ~pending[1].waiter
  BY First DEF PollForReply, ReaderInv
<1>4. Mine(t, "poll_reply") /\ UNCHANGED <<lock, request, pending, eventWaiter, current, req>>
  BY DEF PollForReply, Goto, Mine, Place, display, thread
<1>. QED
  BY <1>1, <1>2, <1>3, <1>4, MoveStep

LEMMA PolledNothingReader ==
  ASSUME ReaderInv, ClientAssumption, NEW t \in Threads, PolledNothing(t)
  PROVE  ReaderInv'
<1>1. pc[t] = "poll_reply" /\ lock \in {t, NoThread}
  BY DEF PolledNothing, Runs
<1>2. lock = t
  BY <1>1 DEF ReaderInv, Locked, Polling
<1>4. Mine(t, "poll_queued") /\ UNCHANGED <<lock, request, pending, eventWaiter, current, req>>
  BY DEF PolledNothing, Goto, Mine, Place, display, thread
<1>. QED
  BY <1>1, <1>2, <1>4, MoveStep

\* Nobody waits for the request that is taken off: it is not marked.
LEMMA PolledReplyReader ==
  ASSUME ReaderInv, ClientAssumption, NEW t \in Threads, PolledReply(t)
  PROVE  ReaderInv'
<1>. DEFINE n == Head(pending).seq
<1>1. pc[t] = "poll_reply" /\ lock \in {t, NoThread}
  BY DEF PolledReply, Runs
<1>2. lock = t
  BY <1>1 DEF ReaderInv, Locked, Polling
<1>3. UNCHANGED <<lock, request, eventWaiter, current, req>>
  BY DEF PolledReply, thread
<1>4. CASE n \in replies
  <2>1. UNCHANGED pending /\ pc' = [pc EXCEPT ![t] = IF Drains(t) THEN "poll" ELSE "read"]
    BY <1>4 DEF PolledReply, Goto
  <2>2. PICK at \in {"poll", "read"} : pc' = [pc EXCEPT ![t] = at]
    BY <2>1
  <2>3. Mine(t, at)
    BY <2>2 DEF Mine, Place
  <2>. QED
    BY <1>1, <1>2, <1>3, <2>1, <2>2, <2>3, MoveStep
<1>5. CASE n \notin replies
  <2>1. pending' = Tail(pending) /\ Mine(t, "poll")
    BY <1>5 DEF PolledReply, Goto, Mine, Place
  <2>2. Len(pending) > 0 /\ ~pending[1].waiter /\ pending # <<>>
    BY <1>1, EmptySeq DEF ReaderInv, Polled
  <2>3. ASSUME NEW u \in Threads, u # t
        PROVE  ~Waits(u) /\ pc[u] # "poll_reply" /\ (Wants(u) => current[u] # pending[1].seq)
    <3>1. pc[u] # "poll_reply"
      BY <1>2, <2>3 DEF ReaderInv, Locked, Polling
    <3>2. ~Waits(u)
      <4>1. Waits(u) => pending[1] = [seq |-> req[u], waiter |-> TRUE]
        BY DEF ReaderInv, Waiting
      <4>. QED
        BY <2>2, <4>1
    <3>3. ASSUME Wants(u), current[u] = pending[1].seq
          PROVE  FALSE
      <4>1. PICK i \in 1 .. Len(pending) : pending[i] = [seq |-> current[u], waiter |-> TRUE]
        BY <3>3 DEF ReaderInv, Wanted
      <4>2. 1 \in 1 .. Len(pending)
        BY <2>2, First DEF ReaderInv
      <4>3. i = 1
        BY <3>3, <4>1, <4>2, Distinct DEF ReaderInv
      <4>. QED
        BY <2>2, <4>1, <4>3
    <3>. QED
      BY <3>1, <3>2, <3>3
  <2>4. OthersKeep(t)
    BY <1>3 DEF OthersKeep, ReaderInv, ThreadsTyped
  <2>5. PendingSent' /\ Wanted' /\ Waiting' /\ Polled'
    BY <1>3, <2>1, <2>2, <2>3, <2>4, HeadStep
  <2>6. ThreadsTyped'
    BY <1>3, <2>1 DEF ReaderInv, ThreadsTyped, Mine
  <2>7. Locked' /\ EventReader'
    BY <1>1, <1>2, <1>3, <2>1, LockedKept, EventReaderKept DEF ReaderInv
  <2>. QED
    BY <2>5, <2>6, <2>7 DEF ReaderInv
<1>. QED
  BY <1>4, <1>5

\* NoResponse, and NextEvent, go on without a reply to wait for.
LEMMA NoResponseReader ==
  ASSUME ReaderInv, ClientAssumption, NEW t \in Threads, NoResponse(t)
  PROVE  ReaderInv'
<1>1. pc[t] \in {"poll", "poll_queued"} /\ lock \in {t, NoThread}
  BY DEF NoResponse, Runs
<1>2. lock = t
  BY <1>1 DEF ReaderInv, Locked, Polling
<1>3. CASE End("io_error") \/ End("crashed")
  BY <1>3, EndReader
<1>4. CASE ~(End("io_error") \/ End("crashed"))
  <2>1. UNCHANGED <<request, pending, eventWaiter, current, req>>
    BY <1>4 DEF NoResponse, display, thread
  <2>2. (Mine(t, "done") /\ UNCHANGED lock) \/ Mine(t, "read")
    BY <1>4 DEF NoResponse, Goto, Mine, Place
  <2>3. CASE Mine(t, "done") /\ UNCHANGED lock
    BY <1>1, <1>2, <2>1, <2>3, MoveStep
  <2>4. CASE Mine(t, "read")
    BY <1>1, <1>2, <2>1, <2>4, MoveStep DEF Polling
  <2>. QED
    BY <2>2, <2>3, <2>4
<1>. QED
  BY <1>3, <1>4

LEMMA NextEventReader ==
  ASSUME ReaderInv, ClientAssumption, NEW t \in Threads, NextEvent(t)
  PROVE  ReaderInv'
<1>1. UNCHANGED <<request, pending, eventWaiter, current, req>> /\ lock' = t
  BY DEF NextEvent, display
<1>2. pc[t] = "idle" /\ lock = NoThread
  BY DEF NextEvent, Begin
<1>3. PICK at \in {"read", "done"} : pc' = [pc EXCEPT ![t] = at]
  BY DEF NextEvent, Goto
<1>4. Mine(t, at)
  BY <1>3 DEF Mine, Place
<1>. QED
  BY <1>1, <1>2, <1>3, <1>4, MoveStep

LEMMA ReadEventsReader ==
  ASSUME ReaderInv, ClientAssumption, NEW t \in Threads, ReadEvents(t)
  PROVE  ReaderInv'
<1>1. UNCHANGED <<request, pending, current, req>>
  BY DEF ReadEvents, display, thread
<1>2. pc[t] = "read" /\ lock \in {t, NoThread}
  BY DEF ReadEvents, Runs
<1>3. \/ UNCHANGED eventWaiter /\ lock' = t /\ \E at \in {"done", "poll"} : Mine(t, at)
      \/ UNCHANGED <<eventWaiter, pc>> /\ lock' = NoThread
      \/ ~eventWaiter /\ eventWaiter' = TRUE /\ lock' = NoThread /\ Mine(t, "wait_event")
  BY DEF ReadEvents, Goto, Sleep, Mine, Place
<1>4. CASE UNCHANGED eventWaiter /\ lock' = t /\ \E at \in {"done", "poll"} : Mine(t, at)
  BY <1>1, <1>2, <1>4, MoveStep
<1>5. CASE UNCHANGED <<eventWaiter, pc>> /\ lock' = NoThread
  <2>1. \A u \in Threads : pc[u] \notin Polling
    BY <1>2 DEF ReaderInv, Locked, Polling, ClientAssumption
  <2>2. Wanted' /\ Waiting'
    BY <1>1, <1>5, Zenon DEF ReaderInv, Wanted, Waiting, Wants, Waits
  <2>. QED
    BY <1>1, <1>5, <2>1, <2>2
    DEF ReaderInv, PendingSent, ThreadsTyped, Locked, Polled, EventReader
<1>6. CASE ~eventWaiter /\ eventWaiter' = TRUE /\ lock' = NoThread /\ Mine(t, "wait_event")
  <2>1. PendingSent' /\ ThreadsTyped'
    BY <1>1, <1>6 DEF ReaderInv, PendingSent, ThreadsTyped, Mine
  <2>2. PendingKept /\ OthersKeep(t)
    BY <1>1, LenProperties DEF PendingKept, OthersKeep, ReaderInv, PendingSent, ThreadsTyped
  <2>3. Wanted' /\ Waiting' /\ Polled'
    BY <1>2, <1>6, <2>2, QuietStep
  <2>4. Locked'
    BY <1>2, <1>6, LockedKept DEF ReaderInv, Polling
  <2>5. \A u \in Threads : pc'[u] = "wait_event" <=> u = t
    BY <1>6 DEF ReaderInv, EventReader, ThreadsTyped, Mine
  <2>6. EventReader'
    BY <1>6, <2>5 DEF EventReader
  <2>. QED
    BY <2>1, <2>3, <2>4, <2>6 DEF ReaderInv
<1>. QED
  BY <1>3, <1>4, <1>5, <1>6

LEMMA EventArrivedReader ==
  ASSUME ReaderInv, ClientAssumption, NEW t \in Threads, EventArrived(t)
  PROVE  ReaderInv'
<1>1. UNCHANGED <<request, pending, current, req>> /\ lock' = t /\ eventWaiter' = FALSE
  BY DEF EventArrived, display, thread
<1>2. pc[t] = "wait_event" /\ lock \in {t, NoThread}
  BY DEF EventArrived, Runs
<1>3. Mine(t, "poll")
  BY DEF EventArrived, Goto, Mine, Place
<1>4. PendingSent' /\ ThreadsTyped'
  BY <1>1, <1>3 DEF ReaderInv, PendingSent, ThreadsTyped, Mine
<1>5. PendingKept /\ OthersKeep(t)
  BY <1>1, LenProperties DEF PendingKept, OthersKeep, ReaderInv, PendingSent, ThreadsTyped
<1>6. Wanted' /\ Waiting' /\ Polled'
  BY <1>2, <1>3, <1>5, QuietStep
<1>7. Locked'
  BY <1>1, <1>2, <1>3, LockedKept DEF ReaderInv
<1>8. \A u \in Threads : pc'[u] # "wait_event"
  BY <1>2, <1>3 DEF ReaderInv, EventReader, ThreadsTyped, Mine
<1>9. EventReader'
  BY <1>1, <1>8 DEF EventReader
<1>. QED
  BY <1>4, <1>6, <1>7, <1>9 DEF ReaderInv

LEMMA DoneReader ==
  ASSUME ReaderInv, ClientAssumption, NEW t \in Threads, Done(t)
  PROVE  ReaderInv'
<1>1. UNCHANGED <<request, pending, eventWaiter>>
  BY DEF Done, display
<1>2. pc[t] = "done" /\ lock \in {t, NoThread}
  BY DEF Done, Runs
<1>3. Mine(t, "idle")
  BY DEF Done, Leave, Goto, Mine, Place
<1>4. current' = [current EXCEPT ![t] = 0] /\ req' = [req EXCEPT ![t] = 0]
  BY DEF Done, Leave
<1>5. PendingSent' /\ ThreadsTyped'
  BY <1>1, <1>3, <1>4 DEF ReaderInv, PendingSent, ThreadsTyped, Mine
<1>6. PendingKept /\ OthersKeep(t)
  BY <1>1, <1>4, LenProperties
  DEF PendingKept, OthersKeep, ReaderInv, PendingSent, ThreadsTyped
<1>7. Wanted' /\ Waiting' /\ Polled'
  BY <1>2, <1>3, <1>6, QuietStep
<1>8. Locked' /\ EventReader'
  BY <1>1, <1>2, <1>3, LockedKept, EventReaderKept DEF ReaderInv, Polling
<1>. QED
  BY <1>5, <1>7, <1>8 DEF ReaderInv

LEMMA SendReader ==
  ASSUME ReaderInv, ClientAssumption, NEW t \in Threads, Send(t)
  PROVE  ReaderInv'
<1>. DEFINE r == [seq |-> request + 1, waiter |-> FALSE]
<1>1. UNCHANGED <<eventWaiter, current, req>> /\ lock' = t
  BY DEF Send, Submit
<1>2. pc[t] = "idle" /\ lock = NoThread
  BY DEF Send, Begin
<1>3. request \in Nat /\ r \in Request
  BY DEF ReaderInv, PendingSent, Request
<1>4. request' = request + 1
  BY <1>3 DEF Send, Submit
<1>5. PICK noted \in {<<>>, <<r>>} : pending' = pending \o noted
  BY DEF Send, Submit
<1>6. /\ noted \in Seq(Request)
      /\ \A i \in 1 .. Len(noted) : i = 1 /\ noted[i] = r
  <2>1. CASE noted = <<>>
    BY <2>1
  <2>2. CASE noted = <<r>>
    <3>. HIDE DEF r
    <3>1. noted \in Seq(Request) /\ Len(noted) = 1 /\ noted[1] = r
      BY <1>3, <2>2
    <3>. QED
      BY <3>1
  <2>. QED
    BY <2>1, <2>2
<1>7. PendingSent' /\ PendingKept
  <2>1. \A i \in 1 .. Len(noted) : noted[i].seq > request /\ noted[i].seq <= request + 1
    BY <1>3, <1>6
  <2>2. \A i, j \in 1 .. Len(noted) : i < j => noted[i].seq < noted[j].seq
    BY <1>6
  <2>. QED
    BY <1>4, <1>5, <1>6, <2>1, <2>2, Noted DEF ReaderInv
<1>8. PICK at \in {"done", "poll"} : pc' = [pc EXCEPT ![t] = at]
  BY DEF Send, Goto
<1>9. Mine(t, at)
  BY <1>8 DEF Mine, Place
<1>10. ThreadsTyped' /\ OthersKeep(t)
  BY <1>1, <1>9 DEF OthersKeep, ReaderInv, ThreadsTyped, Mine
<1>11. Wanted' /\ Waiting' /\ Polled'
  BY <1>2, <1>7, <1>8, <1>9, <1>10, QuietStep
<1>12. Locked' /\ EventReader'
  BY <1>1, <1>2, <1>8, <1>9, LockedKept, EventReaderKept DEF ReaderInv
<1>. QED
  BY <1>7, <1>10, <1>11, <1>12 DEF ReaderInv

\* The request that the thread will want the reply of is new, and the last.
LEMMA RoundTripReader ==
  ASSUME ReaderInv, ClientAssumption, NEW t \in Threads, RoundTrip(t)
  PROVE  ReaderInv'
<1>. DEFINE last == [seq |-> request', waiter |-> TRUE]
            first == [seq |-> request + 1, waiter |-> FALSE]
<1>1. UNCHANGED <<eventWaiter, req>> /\ lock' = t /\ current' = [current EXCEPT ![t] = request']
  BY DEF RoundTrip, Submit
<1>2. pc[t] = "idle" /\ lock = NoThread
  BY DEF RoundTrip, Begin
<1>3. Mine(t, "reply")
  BY DEF RoundTrip, Goto, Mine, Place
<1>4. /\ request \in Nat /\ Len(pending) \in Nat
      /\ \A i \in 1 .. Len(pending) : pending[i].seq \in Nat /\ pending[i].seq <= request
  BY Requests DEF ReaderInv, PendingSent
<1>5. \/ request' = request + 1 /\ pending' = pending \o <<last>>
      \/ request' = request + 2 /\ pending' = pending \o <<first, last>>
  BY <1>4 DEF RoundTrip, Submit
<1>6. /\ PendingSent' /\ PendingKept
      /\ Len(pending') > Len(pending) /\ pending'[Len(pending')] = last
  <2>1. CASE request' = request + 1 /\ pending' = pending \o <<last>>
    <3>1. last \in Request /\ last.seq = request + 1
      BY <1>4, <2>1 DEF Request
    <3>. HIDE DEF last
    <3>. DEFINE new == <<last>>
    <3>2. new \in Seq(Request) /\ Len(new) = 1 /\ new[1] = last
      BY <3>1
    <3>3. PendingSent /\ pending' = pending \o new
      BY <2>1 DEF ReaderInv
    <3>. HIDE DEF new
    <3>4. \A i \in 1 .. Len(new) : new[i].seq > request /\ new[i].seq <= request + 1
      BY <1>4, <3>1, <3>2
    <3>5. \A i, j \in 1 .. Len(new) : i < j => new[i].seq < new[j].seq
      BY <3>2
    <3>6. /\ PendingSent' /\ PendingKept /\ Len(pending') = Len(pending) + Len(new)
          /\ \A i \in 1 .. Len(new) : pending'[Len(pending) + i] = new[i]
      BY <2>1, <3>2, <3>3, <3>4, <3>5, Noted
    <3>7. Len(pending') = Len(pending) + 1 /\ pending'[Len(pending) + 1] = last
      BY <3>2, <3>6
    <3>. QED
      BY <1>4, <3>6, <3>7
  <2>2. CASE request' = request + 2 /\ pending' = pending \o <<first, last>>
    <3>1. /\ last \in Request /\ last.seq = request + 2
          /\ first \in Request /\ first.seq = request + 1
      BY <1>4, <2>2 DEF Request
    <3>. HIDE DEF last, first
    <3>. DEFINE new == <<first, last>>
    <3>2. new \in Seq(Request) /\ Len(new) = 2 /\ new[1] = first /\ new[2] = last
      BY <3>1
    <3>3. PendingSent /\ pending' = pending \o new
      BY <2>2 DEF ReaderInv
    <3>. HIDE DEF new
    <3>4. \A i \in 1 .. Len(new) : i = 1 \/ i = 2
      BY <3>2
    <3>5. \A i \in 1 .. Len(new) : new[i].seq > request /\ new[i].seq <= request + 2
      BY <1>4, <3>1, <3>2, <3>4
    <3>6. \A i, j \in 1 .. Len(new) : i < j => new[i].seq < new[j].seq
      BY <1>4, <3>1, <3>2, <3>4
    <3>7. /\ PendingSent' /\ PendingKept /\ Len(pending') = Len(pending) + Len(new)
          /\ \A i \in 1 .. Len(new) : pending'[Len(pending) + i] = new[i]
      BY <2>2, <3>2, <3>3, <3>5, <3>6, Noted
    <3>8. Len(pending') = Len(pending) + 2 /\ pending'[Len(pending) + 2] = last
      BY <3>2, <3>7
    <3>. QED
      BY <1>4, <3>7, <3>8
  <2>. QED
    BY <1>5, <2>1, <2>2
<1>7. ThreadsTyped' /\ OthersKeep(t)
  BY <1>1, <1>3, <1>4, <1>5 DEF OthersKeep, ReaderInv, ThreadsTyped, Mine
<1>8. \A u \in Threads : pc'[u] = IF u = t THEN "reply" ELSE pc[u]
  BY <1>3 DEF Mine, ReaderInv, ThreadsTyped
<1>9. current'[t] = request' /\ request < request' /\ request' \in Nat
  BY <1>1, <1>4, <1>5 DEF ReaderInv, ThreadsTyped
<1>10. \A u \in Threads : u # t => (Wants(u)' <=> Wants(u)) /\ (Waits(u)' <=> Waits(u))
  BY <1>8 DEF Wants, Waits
<1>11. ~Waits(t)' /\ ~Waits(t)
  BY <1>2, <1>8 DEF Waits
<1>12. ASSUME NEW u \in Threads, Wants(u)', u # t
       PROVE  \E i \in 1 .. Len(pending) :
                /\ pending[i] = [seq |-> current[u], waiter |-> TRUE]
                /\ current'[u] = current[u] /\ current[u] \in Nat /\ current[u] <= request
  <2>1. PICK i \in 1 .. Len(pending) : pending[i] = [seq |-> current[u], waiter |-> TRUE]
    BY <1>10, <1>12 DEF ReaderInv, Wanted
  <2>. QED
    BY <1>4, <1>7, <1>12, <2>1 DEF OthersKeep
<1>13. Wanted'
  <2>1. ASSUME NEW u \in Threads, Wants(u)'
        PROVE  \E i \in 1 .. Len(pending') : pending'[i] = [seq |-> current'[u], waiter |-> TRUE]
    <3>1. CASE u = t
      <4>1. Len(pending') \in Nat /\ Len(pending') \in 1 .. Len(pending')
        BY <1>4, <1>6 DEF PendingKept
      <4>. QED
        BY <1>6, <1>9, <3>1, <4>1
    <3>2. CASE u # t
      <4>1. PICK i \in 1 .. Len(pending) :
              pending[i] = [seq |-> current[u], waiter |-> TRUE] /\ current'[u] = current[u]
        BY <1>12, <2>1, <3>2
      <4>2. i \in 1 .. Len(pending') /\ pending'[i] = pending[i]
        BY <1>6 DEF PendingKept
      <4>. QED
        BY <4>1, <4>2
    <3>. QED
      BY <3>1, <3>2
  <2>2. \A u \in Threads : Wants(u)' /\ u # t => current'[u] # current'[t]
    <3>. SUFFICES ASSUME NEW u \in Threads, Wants(u)', u # t
                  PROVE  current'[u] # current'[t]
      OBVIOUS
    <3>1. current'[u] \in Nat /\ current'[u] <= request
      BY <1>12
    <3>. QED
      BY <1>4, <1>9, <3>1
  <2>3. \A u, v \in Threads : u # t /\ v # t /\ Wants(u)' /\ Wants(v)'
                                /\ current'[u] = current'[v] => u = v
    BY <1>7, <1>10 DEF ReaderInv, Wanted, OthersKeep
  <2>. QED
    BY <2>1, <2>2, <2>3, Zenon DEF Wanted
<1>14. Waiting'
  <2>1. ASSUME NEW u \in Threads, Waits(u)'
        PROVE  /\ u # t /\ Waits(u) /\ req'[u] = req[u]
               /\ Len(pending') > 0 /\ pending'[1] = [seq |-> req'[u], waiter |-> TRUE]
               /\ req[u] \in Nat /\ req[u] <= request
    <3>1. u # t /\ Waits(u) /\ req'[u] = req[u] /\ req[u] \in Nat
      BY <1>1, <1>10, <1>11, <2>1 DEF ReaderInv, ThreadsTyped
    <3>2. Len(pending) > 0 /\ pending[1] = [seq |-> req[u], waiter |-> TRUE]
      BY <3>1 DEF ReaderInv, Waiting
    <3>3. Len(pending') > 0 /\ pending'[1] = pending[1]
      BY <1>6, <3>2 DEF PendingKept
    <3>4. 1 \in 1 .. Len(pending)
      BY <1>4, <3>2
    <3>. QED
      BY <1>4, <3>1, <3>2, <3>3, <3>4
  <2>2. ASSUME NEW u \in Threads, Waits(u)', NEW v \in Threads,
               Waits(v)' \/ (Wants(v)' /\ current'[v] = req'[u])
        PROVE  u = v
    <3>1. req'[u] # request'
      <4>1. req'[u] = req[u] /\ req[u] \in Nat /\ req[u] <= request
        BY <2>1, <2>2
      <4>. QED
        BY <1>4, <1>9, <4>1
    <3>2. v # t
      BY <1>9, <1>11, <2>2, <3>1
    <3>. QED
      BY <1>7, <1>10, <2>1, <2>2, <3>2 DEF ReaderInv, Waiting, OthersKeep
  <2>. QED
    BY <2>1, <2>2 DEF Waiting
<1>15. Polled'
  <2>1. \A u \in Threads : pc'[u] # "poll_reply"
    BY <1>2, <1>8 DEF ReaderInv, Locked, Polling, ClientAssumption
  <2>. QED
    BY <2>1 DEF Polled
<1>16. Locked' /\ EventReader'
  BY <1>1, <1>2, <1>3, LockedKept, EventReaderKept DEF ReaderInv
<1>. QED
  BY <1>6, <1>7, <1>13, <1>14, <1>15, <1>16 DEF ReaderInv

\* The first pending request has a thread waiting for it, this one for its own.
LEMMA ReplyLoopReader ==
  ASSUME ReaderInv, ClientAssumption, NEW t \in Threads, ReplyLoop(t)
  PROVE  ReaderInv'
<1>1. UNCHANGED <<request, eventWaiter, current>>
  BY DEF ReplyLoop
<1>2. pc[t] = "reply" /\ lock \in {t, NoThread}
  BY DEF ReplyLoop, Runs
<1>3. PICK k \in 1 .. Len(pending) : pending[k] = [seq |-> current[t], waiter |-> TRUE]
  BY <1>2 DEF ReaderInv, Wanted, Wants
<1>4. /\ Len(pending) \in Nat /\ 1 \in 1 .. Len(pending) /\ pending # <<>>
      /\ Head(pending) = pending[1] /\ pending[1] \in Request
  BY <1>3, Requests, First, EmptySeq DEF ReaderInv
<1>5. CASE pending[1].seq # current[t] /\ pending[1].waiter
  <2>1. UNCHANGED <<pending, req, pc>> /\ lock' = NoThread
    BY <1>4, <1>5 DEF ReplyLoop, Sleep
  <2>2. \A u \in Threads : pc[u] \notin Polling
    BY <1>2 DEF ReaderInv, Locked, Polling, ClientAssumption
  <2>3. Wanted' /\ Waiting'
    BY <1>1, <2>1, Zenon DEF ReaderInv, Wanted, Waiting, Wants, Waits
  <2>. QED
    BY <1>1, <2>1, <2>2, <2>3
    DEF ReaderInv, PendingSent, ThreadsTyped, Locked, Polled, EventReader
<1>6. CASE ~(pending[1].seq # current[t] /\ pending[1].waiter)
  <2>1. /\ pending' = [pending EXCEPT ![1].waiter = TRUE]
        /\ req' = [req EXCEPT ![t] = pending[1].seq]
        /\ lock' = NoThread /\ Mine(t, "wait_reply")
    BY <1>4, <1>6 DEF ReplyLoop, Goto, Mine, Place
  <2>2. /\ pending' \in Seq(Request) /\ Len(pending') = Len(pending)
        /\ pending'[1] = [seq |-> pending[1].seq, waiter |-> TRUE]
        /\ \A i \in 1 .. Len(pending) : i # 1 => pending'[i] = pending[i]
    BY <1>4, <2>1, Mark DEF ReaderInv
  <2>3. PendingSent'
    <3>1. \A i \in 1 .. Len(pending) : pending'[i].seq = pending[i].seq
      BY <2>2
    <3>. QED
      BY <1>1, <2>2, <3>1 DEF ReaderInv, PendingSent
  <2>4. ThreadsTyped' /\ req'[t] = pending[1].seq /\ pending[1].seq \in Nat
        /\ \A u \in Threads : u # t => req'[u] = req[u]
    BY <1>1, <1>4, <2>1 DEF ReaderInv, ThreadsTyped, Mine, Request
  <2>5. \A u \in Threads : pc'[u] = IF u = t THEN "wait_reply" ELSE pc[u]
    BY <2>1 DEF ReaderInv, ThreadsTyped, Mine
  <2>6. \A u \in Threads : (Wants(u)' <=> Wants(u)) /\ (Waits(u)' <=> u = t \/ Waits(u))
    BY <1>2, <2>5 DEF Wants, Waits
  <2>7. Wants(t)
    BY <1>2 DEF Wants
  \* Whoever wants the first request is this thread.
  <2>8. \A u \in Threads : Wants(u) /\ current[u] = pending[1].seq => u = t
    <3>. SUFFICES ASSUME NEW u \in Threads, Wants(u), current[u] = pending[1].seq
                  PROVE  u = t
      OBVIOUS
    <3>1. PICK i \in 1 .. Len(pending) : pending[i] = [seq |-> current[u], waiter |-> TRUE]
      BY DEF ReaderInv, Wanted
    <3>2. i = 1
      BY <1>4, <3>1, Distinct DEF ReaderInv
    <3>3. current[t] = pending[1].seq
      BY <1>6, <3>1, <3>2
    <3>. QED
      BY <2>7, <3>3 DEF ReaderInv, Wanted
  \* Nobody else waits: the first request would be theirs and marked.
  <2>9. \A u \in Threads : ~Waits(u)
    <3>. SUFFICES ASSUME NEW u \in Threads, Waits(u) PROVE FALSE
      OBVIOUS
    <3>1. pending[1] = [seq |-> req[u], waiter |-> TRUE]
      BY DEF ReaderInv, Waiting
    <3>2. current[t] = req[u]
      BY <1>6, <3>1
    <3>3. u = t
      BY <2>7, <3>2 DEF ReaderInv, Waiting
    <3>. QED
      BY <1>2, <3>3 DEF Waits
  <2>10. Wanted'
    <3>1. ASSUME NEW u \in Threads, Wants(u)'
          PROVE  \E i \in 1 .. Len(pending') : pending'[i] = [seq |-> current'[u], waiter |-> TRUE]
      <4>1. PICK i \in 1 .. Len(pending) : pending[i] = [seq |-> current[u], waiter |-> TRUE]
        BY <2>6, <3>1 DEF ReaderInv, Wanted
      <4>2. i \in 1 .. Len(pending')
        BY <2>2
      <4>3. CASE i = 1
        <5>1. pending[1].seq = current[u]
          BY <4>1, <4>3
        <5>2. current' = current
          BY <1>1
        <5>. QED
          BY <2>2, <4>2, <4>3, <5>1, <5>2, Zenon
      <4>4. CASE i # 1
        BY <2>2, <4>1, <4>2, <4>4, <1>1
      <4>. QED
        BY <4>3, <4>4
    <3>. QED
      BY <1>1, <2>6, <3>1 DEF ReaderInv, Wanted
  <2>11. Waiting'
    <3>1. \A u \in Threads : Waits(u)' <=> u = t
      BY <2>6, <2>9
    <3>2. Len(pending') > 0 /\ pending'[1] = [seq |-> req'[t], waiter |-> TRUE]
      BY <1>4, <2>2, <2>4
    <3>3. \A u \in Threads : Wants(u)' /\ current'[u] = req'[t] => u = t
      BY <1>1, <2>4, <2>6, <2>8
    <3>. QED
      BY <3>1, <3>2, <3>3 DEF Waiting
  <2>12. Polled'
    <3>1. \A u \in Threads : pc'[u] # "poll_reply"
      BY <1>2, <2>5 DEF ReaderInv, Locked, Polling, ClientAssumption
    <3>. QED
      BY <3>1 DEF Polled
  <2>13. Locked' /\ EventReader'
    BY <1>1, <1>2, <2>1, LockedKept, EventReaderKept DEF ReaderInv, Polling
  <2>. QED
    BY <2>3, <2>4, <2>10, <2>11, <2>12, <2>13 DEF ReaderInv
<1>. QED
  BY <1>5, <1>6

LEMMA ReplyArrivedReader ==
  ASSUME ReaderInv, ClientAssumption, NEW t \in Threads, ReplyArrived(t)
  PROVE  ReaderInv'
<1>1. UNCHANGED <<request, pending, eventWaiter, current, req>> /\ lock' = t
  BY DEF ReplyArrived, display
<1>2. pc[t] = "wait_reply" /\ lock \in {t, NoThread}
  BY DEF ReplyArrived, Runs
<1>3. Mine(t, "events")
  BY DEF ReplyArrived, Goto, Mine, Place
<1>4. PendingSent' /\ ThreadsTyped'
  BY <1>1, <1>3 DEF ReaderInv, PendingSent, ThreadsTyped, Mine
<1>5. \A u \in Threads : pc'[u] = IF u = t THEN "events" ELSE pc[u]
  BY <1>3 DEF ReaderInv, ThreadsTyped, Mine
<1>6. \A u \in Threads : (Wants(u)' <=> Wants(u)) /\ (Waits(u)' <=> Waits(u))
  BY <1>2, <1>5 DEF Wants, Waits
<1>7. Wanted' /\ Waiting'
  BY <1>1, <1>6, Zenon DEF ReaderInv, Wanted, Waiting
<1>8. Polled'
  BY <1>1, <1>5 DEF ReaderInv, Polled
<1>9. Locked' /\ EventReader'
  BY <1>1, <1>2, <1>3, LockedKept, EventReaderKept DEF ReaderInv
<1>. QED
  BY <1>4, <1>7, <1>8, <1>9 DEF ReaderInv

LEMMA AwaitEventReaderReader ==
  ASSUME ReaderInv, ClientAssumption, NEW t \in Threads, AwaitEventReader(t)
  PROVE  ReaderInv'
<1>1. UNCHANGED <<request, pending, eventWaiter, current, req, pc>> /\ lock' = NoThread
  BY DEF AwaitEventReader, Sleep, display, thread
<1>2. pc[t] = "events" /\ lock \in {t, NoThread}
  BY DEF AwaitEventReader, Runs
<1>3. \A u \in Threads : pc[u] \notin Polling
  BY <1>2 DEF ReaderInv, Locked, Polling, ClientAssumption
<1>4. Wanted' /\ Waiting'
  BY <1>1, Zenon DEF ReaderInv, Wanted, Waiting, Wants, Waits
<1>. QED
  BY <1>1, <1>3, <1>4
  DEF ReaderInv, PendingSent, ThreadsTyped, Locked, Polled, EventReader

\* The thread that waited is done with the first request.
HeadSettled(t) ==
  /\ pc[t] = "events" /\ lock \in {t, NoThread}
  /\ pending # <<>> /\ pending[1].seq = req[t]
  /\ pending' \in {Tail(pending), [pending EXCEPT ![1].waiter = FALSE]}
  /\ \A u \in Threads : u # t =>
       ~Waits(u) /\ pc[u] # "poll_reply" /\ (Wants(u) => current[u] # pending[1].seq)

LEMMA SettledHead ==
  ASSUME ReaderInv, ClientAssumption, NEW t \in Threads, Settled(t)
  PROVE  HeadSettled(t)
<1>1. pc[t] = "events" /\ lock \in {t, NoThread} /\ Waits(t)
  BY DEF Settled, EventsRead, Runs, Waits
<1>2. /\ Len(pending) > 0 /\ pending[1] = [seq |-> req[t], waiter |-> TRUE]
      /\ \A u \in Threads : Waits(u) \/ (Wants(u) /\ current[u] = req[t]) => t = u
  BY <1>1 DEF ReaderInv, Waiting
<1>3. \A u \in Threads : u # t => pc[u] # "poll_reply"
  BY <1>1 DEF ReaderInv, Locked, Polling, ClientAssumption
<1>4. pending # <<>>
  BY <1>2, EmptySeq
<1>5. pending[1].seq = req[t]
  BY <1>2
<1>6. pending' \in {Tail(pending), [pending EXCEPT ![1].waiter = FALSE]}
  BY DEF Settled, Answered
<1>. QED
  BY <1>1, <1>2, <1>3, <1>4, <1>5, <1>6 DEF HeadSettled

LEMMA HandOnReader ==
  ASSUME ReaderInv, ClientAssumption, NEW t \in Threads, HandOn(t)
  PROVE  ReaderInv'
<1>1. Settled(t) /\ req[t] # current[t] /\ lock' = t /\ Mine(t, "reply")
  BY DEF HandOn, Goto, Mine, Place
<1>2. UNCHANGED <<request, eventWaiter, current, req>>
  BY DEF HandOn, thread
<1>3. OthersKeep(t)
  BY <1>2 DEF OthersKeep, ReaderInv, ThreadsTyped
<1>4. HeadSettled(t) /\ Wants(t)
  <2>1. HeadSettled(t)
    BY <1>1, SettledHead
  <2>. QED
    BY <2>1 DEF HeadSettled, Wants
<1>5. PendingSent' /\ Wanted' /\ Waiting' /\ Polled'
  BY <1>1, <1>2, <1>3, <1>4, HeadStep DEF HeadSettled
<1>6. ThreadsTyped'
  BY <1>1, <1>2 DEF ReaderInv, ThreadsTyped, Mine
<1>7. Locked' /\ EventReader'
  BY <1>1, <1>2, <1>4, LockedKept, EventReaderKept DEF ReaderInv, HeadSettled
<1>. QED
  BY <1>5, <1>6, <1>7 DEF ReaderInv

LEMMA ReturnReader ==
  ASSUME ReaderInv, ClientAssumption, NEW t \in Threads, ReturnReply(t) \/ ReturnRefused(t)
  PROVE  ReaderInv'
<1>1. Settled(t) /\ \E kind \in {"reply", "refused"} : Return(t, kind)
  BY DEF ReturnReply, ReturnRefused
<1>2. lock' = NoThread /\ Mine(t, "idle")
  BY <1>1 DEF Return, Leave, Goto, Mine, Place
<1>3. UNCHANGED <<request, eventWaiter>>
  BY <1>1 DEF Return
<1>4. current' = [current EXCEPT ![t] = 0] /\ req' = [req EXCEPT ![t] = 0]
  BY <1>1 DEF Return, Leave
<1>5. OthersKeep(t)
  BY <1>4 DEF OthersKeep, ReaderInv, ThreadsTyped
<1>6. HeadSettled(t)
  BY <1>1, SettledHead
<1>7. PendingSent' /\ Wanted' /\ Waiting' /\ Polled'
  BY <1>2, <1>3, <1>5, <1>6, HeadStep DEF HeadSettled
<1>8. ThreadsTyped'
  BY <1>2, <1>3, <1>4 DEF ReaderInv, ThreadsTyped, Mine
<1>9. Locked' /\ EventReader'
  BY <1>2, <1>3, <1>6, LockedKept, EventReaderKept DEF ReaderInv, Polling, HeadSettled
<1>. QED
  BY <1>7, <1>8, <1>9 DEF ReaderInv

-----------------------------------------------------------------------------
LEMMA ReaderInit == ASSUME ClientAssumption, Init PROVE ReaderInv
<1>1. ThreadsTyped
  BY DEF Init, ThreadsTyped, Place
<1>2. PendingSent
  <2>1. pending = <<>> /\ request \in Nat
    BY DEF Init, ClientAssumption
  <2>2. pending \in Seq(Request) /\ Len(pending) = 0
    BY <2>1, EmptySeq
  <2>. QED
    BY <2>1, <2>2 DEF PendingSent
<1>3. \A t \in Threads : pc[t] = "idle"
  BY DEF Init
<1>4. Locked /\ Wanted /\ Waiting /\ Polled
  BY <1>3 DEF Locked, Polling, Wanted, Wants, Waiting, Waits, Polled
<1>5. EventReader
  BY <1>3 DEF Init, EventReader
<1>. QED
  BY <1>1, <1>2, <1>4, <1>5 DEF ReaderInv

LEMMA ReaderStep == ASSUME ReaderInv, ClientAssumption, [Next]_vars PROVE ReaderInv'
<1>1. ASSUME NEW t \in Threads, Enter(t)
      PROVE  ReaderInv'
  BY <1>1, SendReader, NextEventReader, RoundTripReader DEF Enter
<1>2. ASSUME NEW t \in Threads, Continue(t)
      PROVE  ReaderInv'
  <2>1. CASE TakeEvent(t) \/ PollForReply(t) \/ PolledReply(t) \/ PolledNothing(t)
               \/ NoResponse(t) \/ ReadEvents(t) \/ EventArrived(t) \/ Done(t)
    BY <2>1, TakeEventReader, PollForReplyReader, PolledReplyReader, PolledNothingReader,
       NoResponseReader, ReadEventsReader, EventArrivedReader, DoneReader
  <2>2. CASE ReplyLoop(t) \/ ReplyArrived(t) \/ AwaitEventReader(t) \/ HandOn(t)
               \/ ReturnReply(t) \/ ReturnRefused(t)
    BY <2>2, ReplyLoopReader, ReplyArrivedReader, AwaitEventReaderReader, HandOnReader,
       ReturnReader
  <2>3. CASE ReplyEnds(t)
    BY <2>3, EndReader DEF ReplyEnds
  <2>. QED
    BY <1>2, <2>1, <2>2, <2>3 DEF Continue
<1>3. CASE Read \/ Serve \/ Emit
  BY <1>3, ReaderStutter DEF Read, Serve, Emit, display, thread
<1>4. CASE UNCHANGED vars
  BY <1>4, ReaderStutter DEF vars, display, thread
<1>. QED
  BY <1>1, <1>2, <1>3, <1>4 DEF Next

\* The inductive invariant says what OneReader says.
LEMMA ReaderInvOneReader == ASSUME ReaderInv PROVE OneReader
<1>1. ASSUME NEW t \in Threads, NEW u \in Threads,
             NEW at \in {{"wait_event"}, {"wait_reply", "events"}}, pc[t] \in at, pc[u] \in at
      PROVE  t = u
  BY <1>1 DEF ReaderInv, EventReader, Waiting, Waits
<1>2. ASSUME NEW t \in Threads, pc[t] \in {"wait_reply", "events"}
      PROVE  pending # <<>> /\ Head(pending) = [seq |-> req[t], waiter |-> TRUE]
  <2>1. Len(pending) > 0 /\ pending[1] = [seq |-> req[t], waiter |-> TRUE]
    BY <1>2 DEF ReaderInv, Waiting, Waits
  <2>2. pending # <<>>
    BY <2>1, EmptySeq
  <2>. QED
    BY <2>1, <2>2, First DEF ReaderInv
<1>3. eventWaiter <=> \E t \in Threads : pc[t] = "wait_event"
  BY DEF ReaderInv, EventReader
<1>. QED
  BY <1>1, <1>2, <1>3, Zenon DEF OneReader

\* At most one thread waits for events in libxcb, which event_waiter says, and
\* at most one for a reply, that of the first pending request, which stays the
\* first and marked until that thread has dealt with the answer.
THEOREM OneThreadReads == Spec => []OneReader
<1>1. Init => ReaderInv
  BY ReaderInit, ClientAssumption
<1>2. ReaderInv /\ [Next]_vars => ReaderInv'
  BY ReaderStep, ClientAssumption
<1>3. ReaderInv => OneReader
  BY ReaderInvOneReader
<1>. QED
  BY <1>1, <1>2, <1>3, PTL DEF Spec
=============================================================================
