------------------------ MODULE DamageMonitorProofs ------------------------
(***************************************************************************)
(* Proofs about DamageMonitor.  The invariant says which requests may be   *)
(* under way at each point of a round, that what has been damaged between  *)
(* the two XDamageSubtract of a round is noted in late, and that an array  *)
(* just fetched holds the region.                                          *)
(***************************************************************************)
EXTENDS DamageMonitor, FiniteSetTheorems, SequenceTheorems, TLAPS

\* The requests in the queue of the server and in the buffer, by place.
Outstanding ==
  /\ pc = "wait" =>
       \/ queue = <<>> /\ buffer = <<>>
       \/ queue = <<"empty">> /\ buffer = <<>>
       \/ queue = <<>> /\ buffer = <<"empty">>
  /\ pc = "fetch" =>
       \/ queue = <<>> /\ buffer = <<"subtract">>
       \/ queue = <<"empty">> /\ buffer = <<"subtract">>
       \/ queue = <<>> /\ buffer = <<"empty", "subtract">>
  /\ pc = "fetching" =>
       /\ queue \in {<<>>, <<"subtract">>, <<"empty", "subtract">>}
       /\ buffer = <<>>
  /\ pc \in {"rects", "exited", "crashed"} => queue = <<>> /\ buffer = <<>>

LEMMA OneRequest ==
  ASSUME NEW a \in Request
  PROVE  /\ <<a>> \in Seq(Request) /\ Len(<<a>>) = 1
         /\ <<a>> # <<>> /\ Head(<<a>>) = a /\ Tail(<<a>>) = <<>>
         /\ <<>> \o <<a>> = <<a>> /\ <<a>> \o <<>> = <<a>> /\ Append(<<>>, a) = <<a>>
OBVIOUS

LEMMA PairEqual ==
  ASSUME NEW S, NEW s \in Seq(S), NEW t \in Seq(S),
         Len(s) = 2, Len(t) = 2, s[1] = t[1], s[2] = t[2]
  PROVE  s = t
BY SeqEqual

LEMMA TwoRequests ==
  ASSUME NEW a \in Request, NEW b \in Request
  PROVE  /\ <<a, b>> \in Seq(Request) /\ Len(<<a, b>>) = 2
         /\ <<a, b>> # <<>> /\ Head(<<a, b>>) = a /\ Tail(<<a, b>>) = <<b>>
         /\ <<>> \o <<a, b>> = <<a, b>> /\ <<a, b>> \o <<>> = <<a, b>>
         /\ <<a>> \o <<b>> = <<a, b>> /\ Append(<<a>>, b) = <<a, b>>
<1>1. <<a, b>> \in Seq(Request) /\ Len(<<a, b>>) = 2
  OBVIOUS
<1>2. <<a, b>> # <<>> /\ Head(<<a, b>>) = a /\ Tail(<<a, b>>) = <<b>>
  OBVIOUS
<1>3. <<>> \o <<a, b>> = <<a, b>> /\ <<a, b>> \o <<>> = <<a, b>>
  BY <1>1, ConcatEmptySeq
<1>4. <<a>> \o <<b>> = <<a, b>>
  <2>1. <<a>> \o <<b>> \in Seq(Request) /\ Len(<<a>> \o <<b>>) = 2
    OBVIOUS
  <2>2. (<<a>> \o <<b>>)[1] = <<a, b>>[1] /\ (<<a>> \o <<b>>)[2] = <<a, b>>[2]
    OBVIOUS
  <2> QED BY <1>1, <2>1, <2>2, PairEqual
<1>5. Append(<<a>>, b) = <<a, b>>
  <2>1. Append(<<a>>, b) \in Seq(Request) /\ Len(Append(<<a>>, b)) = 2
    OBVIOUS
  <2>2. Append(<<a>>, b)[1] = <<a, b>>[1] /\ Append(<<a>>, b)[2] = <<a, b>>[2]
    OBVIOUS
  <2> QED BY <1>1, <2>1, <2>2, PairEqual
<1> QED BY <1>1, <1>2, <1>3, <1>4, <1>5

-----------------------------------------------------------------------------
(* A fetched array. *)

LEMMA ArrayHoldsRegion ==
  ASSUME NEW S, IsFiniteSet(S), NEW s \in SetToSeqs(S)
  PROVE  s \in Seq(S) /\ Len(s) = Cardinality(S) /\ {s[k] : k \in 1 .. Len(s)} = S
<1> DEFINE n == Cardinality(S)
<1>1. n \in Nat
  BY FS_CardinalityType
<1>2. s \in [1 .. n -> S] /\ \A j, k \in 1 .. n : j # k => s[j] # s[k]
  BY DEF SetToSeqs
<1>3. s \in Injection(1 .. n, S)
  BY <1>2 DEF Injection, IsInjective
<1>4. IsFiniteSet(1 .. n) /\ Cardinality(1 .. n) = n
  BY <1>1, FS_Interval
<1>5. s \in Surjection(1 .. n, S)
  BY <1>3, <1>4, FS_Injection
<1>6. s \in Seq(S) /\ Len(s) = n
  BY <1>1, <1>2
<1> QED BY <1>5, <1>6 DEF Surjection
-----------------------------------------------------------------------------
(* The invariant. *)

\* TypeOK, and where the bounds of events and of the loop index come from.
Types ==
  /\ TypeOK
  /\ events <= changes + Cardinality(Rects)
  /\ Len(area) <= Cardinality(Rects) /\ i <= Len(area) + 1

\* From the first XDamageSubtract of a round to the second, all damage in the
\* server is damage the second one will empty.
Collected ==
  /\ collecting => damage \subseteq late
  /\ Pending("empty") => collecting
  /\ pc = "rects" \/ (pc = "fetching" /\ queue = <<>>) => collecting

DamageInv == Types /\ Outstanding /\ Collected /\ NothingForgotten /\ DamageAnnounced

LEMMA RectsCounted == Cardinality(Rects) \in Nat
BY ScreenAssumption, FS_CardinalityType

\* The sequences that occur.
LEMMA Joins ==
  /\ <<>> \o <<>> = <<>>
  /\ <<>> \o <<"empty">> = <<"empty">> /\ <<"empty">> \o <<>> = <<"empty">>
  /\ <<>> \o <<"subtract">> = <<"subtract">> /\ <<"subtract">> \o <<>> = <<"subtract">>
  /\ <<"empty">> \o <<"subtract">> = <<"empty", "subtract">>
  /\ <<>> \o <<"empty", "subtract">> = <<"empty", "subtract">>
  /\ <<"empty", "subtract">> \o <<>> = <<"empty", "subtract">>
  /\ Append(<<>>, "empty") = <<"empty">> /\ Append(<<>>, "subtract") = <<"subtract">>
  /\ Append(<<"empty">>, "subtract") = <<"empty", "subtract">>
<1>1. "empty" \in Request /\ "subtract" \in Request
  BY DEF Request
<1>2. <<>> \o <<>> = <<>>
  OBVIOUS
<1> QED BY <1>1, <1>2, OneRequest, TwoRequests

LEMMA Lengths ==
  /\ <<>> \in Seq(Request) /\ Len(<<>>) = 0
  /\ <<"empty">> \in Seq(Request) /\ Len(<<"empty">>) = 1
  /\ <<"subtract">> \in Seq(Request) /\ Len(<<"subtract">>) = 1
  /\ <<"empty", "subtract">> \in Seq(Request) /\ Len(<<"empty", "subtract">>) = 2
<1>1. "empty" \in Request /\ "subtract" \in Request
  BY DEF Request
<1>2. <<>> \in Seq(Request) /\ Len(<<>>) = 0
  OBVIOUS
<1> QED BY <1>1, <1>2, OneRequest, TwoRequests

\* What ever waits is a typed sequence, and at most two requests of it.
LEMMA FewRequests ==
  ASSUME NEW q, NEW b,
         \/ q = <<>> /\ b \in {<<>>, <<"empty">>, <<"subtract">>, <<"empty", "subtract">>}
         \/ q = <<"empty">> /\ b \in {<<>>, <<"subtract">>}
         \/ q \in {<<"subtract">>, <<"empty", "subtract">>} /\ b = <<>>
  PROVE  q \in Seq(Request) /\ b \in Seq(Request) /\ Len(q) + Len(b) <= 2
<1>1. q \in {<<>>, <<"empty">>, <<"subtract">>, <<"empty", "subtract">>} /\ q \in Seq(Request)
  BY Zenon, Lengths
<1>2. b \in {<<>>, <<"empty">>, <<"subtract">>, <<"empty", "subtract">>} /\ b \in Seq(Request)
  BY Zenon, Lengths
<1>3. \/ Len(q) = 0 /\ Len(b) \in {0, 1, 2}
      \/ Len(q) = 1 /\ Len(b) \in {0, 1}
      \/ Len(q) = 2 /\ Len(b) = 0
  BY Zenon, Lengths
<1>4. \A m, n : (m = 0 /\ n \in {0, 1, 2}) \/ (m = 1 /\ n \in {0, 1}) \/ (m = 2 /\ n = 0) => m + n <= 2
  OBVIOUS
<1> QED BY Zenon, <1>1, <1>2, <1>3, <1>4

\* What Sent holds at each place.
LEMMA SentCases ==
  ASSUME Outstanding
  PROVE  /\ queue = <<>> /\ buffer = <<>> => Sent = <<>>
         /\ pc = "wait" /\ ~(queue = <<>> /\ buffer = <<>>) => Sent = <<"empty">>
         /\ pc = "fetch" => Sent \in {<<"subtract">>, <<"empty", "subtract">>}
         /\ pc = "fetching" => Sent = queue
BY Joins DEF Outstanding, Sent

\* Is x among the requests of s?
Has(s, x) == \E k \in 1 .. Len(s) : s[k] = x

LEMMA HasCases ==
  /\ \A x : ~Has(<<>>, x)
  /\ Has(<<"empty">>, "empty") /\ ~Has(<<"empty">>, "subtract")
  /\ ~Has(<<"subtract">>, "empty") /\ Has(<<"subtract">>, "subtract")
  /\ Has(<<"empty", "subtract">>, "empty") /\ Has(<<"empty", "subtract">>, "subtract")
<1>1. Has(<<"empty", "subtract">>, "empty") /\ Has(<<"empty", "subtract">>, "subtract")
  <2> DEFINE s == <<"empty", "subtract">>
  <2>1. 1 \in 1 .. Len(s) /\ 2 \in 1 .. Len(s) /\ s[1] = "empty" /\ s[2] = "subtract"
    OBVIOUS
  <2> QED BY <2>1 DEF Has
<1> QED BY <1>1 DEF Has

LEMMA PendingHas ==
  ASSUME NEW x
  PROVE  (Pending(x) <=> Has(Sent, x)) /\ (Pending(x)' <=> Has(Sent', x))
BY DEF Pending, Has

LEMMA MonitorInit == Init => DamageInv
<1> SUFFICES ASSUME Init PROVE DamageInv
  OBVIOUS
<1> USE DEF Init
<1>1. Sent = <<>> /\ ~Pending("empty") /\ ~Pending("subtract")
  BY Joins, HasCases, PendingHas DEF Sent
<1>2. Cardinality(damage) \in Nat /\ Cardinality(damage) <= Cardinality(Rects)
  BY ScreenAssumption, FS_Subset, FS_CardinalityType
<1>3. Types
  <2>1. <<>> \in Seq(Rects) /\ <<>> \in Seq(Request) /\ Len(<<>>) = 0
    OBVIOUS
  <2>2. events \in 0 .. MaxChanges + Cardinality(Rects) /\ events <= changes + Cardinality(Rects)
    BY <1>2, RectsCounted, ScreenAssumption
  <2>3. i \in 1 .. Cardinality(Rects) + 1 /\ Len(area) <= Cardinality(Rects) /\ i <= Len(area) + 1
    BY <2>1, RectsCounted
  <2>4. area \in Seq(Rects) /\ buffer \in Seq(Request) /\ queue \in Seq(Request)
    BY <2>1
  <2>5. Len(queue) + Len(buffer) <= 2
    BY <2>1
  <2>6. changes \in 0 .. MaxChanges
    BY ScreenAssumption
  <2>7. pc \in {"wait", "fetch", "fetching", "rects", "exited", "crashed"} /\ areaState \in {"none", "live", "freed"} /\ collecting \in BOOLEAN
    OBVIOUS
  <2>8. dirty \subseteq Rects /\ damage \subseteq Rects /\ region \subseteq Rects
    OBVIOUS
  <2>9. missed \subseteq Rects /\ misread \subseteq Rects /\ late \subseteq Rects
    OBVIOUS
  <2> QED BY Zenon, <2>4, <2>2, <2>3, <2>5, <2>6, <2>7, <2>8, <2>9 DEF Types, TypeOK
<1>4. Outstanding /\ Collected
  BY <1>1 DEF Outstanding, Collected
<1>5. NothingForgotten
  BY DEF NothingForgotten, Excepted
<1>6. DamageAnnounced
  <2>1. damage # {} => Cardinality(damage) # 0
    BY ScreenAssumption, FS_Subset, FS_EmptySet
  <2> QED BY <2>1, <1>2 DEF DamageAnnounced
<1> QED BY <1>3, <1>4, <1>5, <1>6 DEF DamageInv

LEMMA ChangeKeeps ==
  ASSUME DamageInv, NEW r \in Rects, Change(r)
  PROVE  DamageInv'
<1> USE DEF DamageInv, Change, array
<1>1. Sent' = Sent /\ (Pending("empty")' <=> Pending("empty")) /\ (Pending("subtract")' <=> Pending("subtract"))
  BY PendingHas DEF Sent
<1>2. Types'
  BY SMTT(30), RectsCounted, ScreenAssumption DEF Types, TypeOK
<1>3. Outstanding' /\ Collected'
  BY <1>1 DEF Outstanding, Collected, Types, TypeOK
<1>4. NothingForgotten'
  <2>1. Remaining' = Remaining /\ (Running' <=> Running)
    BY <1>1 DEF Remaining, Running
  <2> QED BY <2>1 DEF NothingForgotten, Excepted
<1>5. DamageAnnounced'
  BY <1>1 DEF DamageAnnounced, Running, Types, TypeOK
<1> QED BY <1>2, <1>3, <1>4, <1>5

LEMMA ServeSubtractKeeps ==
  ASSUME DamageInv, ServeSubtract
  PROVE  DamageInv'
<1> USE DEF DamageInv, ServeSubtract, screen, array
<1>1. pc \in {"fetching", "fetch"} /\ buffer' = buffer /\ pc' = pc
  BY OneRequest, TwoRequests DEF Outstanding, Request, Types, TypeOK
<1>2. queue = <<"subtract">> /\ queue' = <<>> /\ pc = "fetching" /\ buffer = <<>>
  BY <1>1, OneRequest, TwoRequests DEF Outstanding, Request
<1>3. /\ Sent = <<"subtract">> /\ Pending("subtract")
      /\ ~Pending("subtract")' /\ ~Pending("empty")'
  BY <1>1, <1>2, Joins, HasCases, PendingHas DEF Sent
<1>4. Types'
  BY <1>2, OneRequest, ScreenAssumption DEF Types, TypeOK, Request
<1>5. Outstanding' /\ Collected'
  BY <1>1, <1>2, <1>3 DEF Outstanding, Collected
<1>6. NothingForgotten'
  BY <1>1, <1>2, <1>3 DEF NothingForgotten, Excepted, Remaining, Running
<1>7. DamageAnnounced'
  BY DEF DamageAnnounced
<1> QED BY <1>4, <1>5, <1>6, <1>7

LEMMA ServeEmptyKeeps ==
  ASSUME DamageInv, ServeEmpty
  PROVE  DamageInv'
<1> USE DEF DamageInv, ServeEmpty, screen, array
<1>1. \/ queue = <<"empty">> /\ queue' = <<>> /\ pc \in {"wait", "fetch"}
      \/ queue = <<"empty", "subtract">> /\ queue' = <<"subtract">> /\ pc = "fetching"
  BY OneRequest, TwoRequests DEF Outstanding, Request, Types, TypeOK
<1>2. /\ pc = "wait" => buffer = <<>>
      /\ pc = "fetch" => buffer = <<"subtract">>
      /\ pc = "fetching" => buffer = <<>>
  BY <1>1 DEF Outstanding
<1>3. Pending("empty") /\ ~Pending("empty")' /\ (Pending("subtract")' <=> Pending("subtract"))
  <2>1. \/ Sent = <<"empty">> /\ Sent' = <<>>
        \/ Sent = <<"empty", "subtract">> /\ Sent' = <<"subtract">>
    BY <1>1, <1>2, Joins DEF Sent
  <2> QED BY <2>1, HasCases, PendingHas
<1>4. Types'
  <2>1. queue' \in Seq(Request) /\ Len(queue') <= Len(queue)
    BY <1>1 DEF Request
  <2>2. Len(queue') + Len(buffer') <= 2
    <3>1. queue \in Seq(Request) /\ buffer \in Seq(Request) /\ Len(queue) + Len(buffer) <= 2
      BY DEF Types, TypeOK
    <3>2. Len(queue) \in Nat /\ Len(buffer) \in Nat /\ Len(queue') \in Nat /\ buffer' = buffer
      BY <3>1, <2>1, LenProperties
    <3> QED BY <3>1, <3>2, <2>1
  <2> QED BY <2>1, <2>2 DEF Types, TypeOK
<1>5. Outstanding' /\ Collected'
  BY <1>1, <1>2, <1>3 DEF Outstanding, Collected
<1>6. NothingForgotten'
  BY <1>1, <1>2, <1>3 DEF NothingForgotten, Excepted, Remaining, Running, Collected
<1>7. DamageAnnounced'
  BY DEF DamageAnnounced
<1> QED BY <1>4, <1>5, <1>6, <1>7

LEMMA NextEventKeeps ==
  ASSUME DamageInv, NextEvent
  PROVE  DamageInv'
<1> USE DEF DamageInv, NextEvent, screen, array, history
<1>1. \/ queue = <<>> /\ buffer = <<>> /\ buffer' = <<"subtract">>
      \/ queue = <<"empty">> /\ buffer = <<>> /\ buffer' = <<"subtract">>
      \/ queue = <<>> /\ buffer = <<"empty">> /\ buffer' = <<"empty", "subtract">>
  BY Joins DEF Outstanding
<1>2. Pending("subtract")' /\ (Pending("empty")' <=> Pending("empty"))
  <2>1. \/ Sent = <<>> /\ Sent' = <<"subtract">>
        \/ Sent = <<"empty">> /\ Sent' = <<"empty", "subtract">>
    BY <1>1, Joins DEF Sent
  <2> QED BY <2>1, HasCases, PendingHas
<1>3. Types'
  <2>0. queue' = queue
    OBVIOUS
  <2>1. buffer' \in Seq(Request) /\ Len(queue') + Len(buffer') <= 2
    <3> HIDE DEF DamageInv, NextEvent
    <3> QED BY <1>1, <2>0, FewRequests
  <2>2. events' \in 0 .. MaxChanges + Cardinality(Rects) /\ events' <= changes' + Cardinality(Rects)
    BY RectsCounted, ScreenAssumption DEF Types, TypeOK
  <2> QED BY <2>1, <2>2 DEF Types, TypeOK
<1>4. Outstanding' /\ Collected'
  BY <1>1, <1>2 DEF Outstanding, Collected
<1>5. NothingForgotten'
  BY <1>2 DEF NothingForgotten, Excepted, Remaining, Running
<1>6. DamageAnnounced'
  BY <1>2 DEF DamageAnnounced
<1> QED BY <1>3, <1>4, <1>5, <1>6

\* Both flushes, that of XNextEvent and that of XFixesFetchRegion.
LEMMA FlushKeeps ==
  ASSUME DamageInv, NextEventWaits \/ Fetch
  PROVE  DamageInv'
<1> USE DEF DamageInv, screen, array, history
<1>0. /\ queue' = queue \o buffer /\ buffer' = <<>>
      /\ (pc = "wait" /\ pc' = "wait") \/ (pc = "fetch" /\ pc' = "fetching")
      /\ UNCHANGED <<changes, dirty, damage, events, region, area, areaState, i, missed, misread, collecting, late>>
  BY DEF NextEventWaits, Fetch
<1>1. /\ pc = "wait" => queue' \in {<<>>, <<"empty">>}
      /\ pc = "fetch" => queue' \in {<<"subtract">>, <<"empty", "subtract">>}
  BY <1>0, Joins DEF Outstanding
<1>2. Sent' = Sent
  BY <1>0, <1>1, Joins DEF Sent
<1>3. (Pending("subtract")' <=> Pending("subtract")) /\ (Pending("empty")' <=> Pending("empty"))
  BY <1>2, PendingHas
<1>4. Types'
  <2>1. queue' \in Seq(Request) /\ buffer' \in Seq(Request) /\ Len(queue') + Len(buffer') <= 2
    BY <1>0, <1>1, FewRequests
  <2> QED BY <1>0, <2>1 DEF Types, TypeOK
<1>5. Outstanding' /\ Collected'
  BY <1>0, <1>1, <1>3 DEF Outstanding, Collected
<1>6. NothingForgotten'
  <2>1. pc = "fetch" => Pending("subtract")
    <3>1. pc = "fetch" => Sent \in {<<"subtract">>, <<"empty", "subtract">>}
      BY SentCases
    <3> QED BY <3>1, HasCases, PendingHas
  <2> QED BY <1>0, <1>3, <2>1 DEF NothingForgotten, Excepted, Remaining, Running
<1>7. DamageAnnounced'
  BY <1>0, <1>3 DEF DamageAnnounced, Running
<1> QED BY <1>4, <1>5, <1>6, <1>7

LEMMA FetchedKeeps ==
  ASSUME DamageInv, Fetched
  PROVE  DamageInv'
<1> USE DEF DamageInv, Fetched, screen, server, history
<1>1. IsFiniteSet(region) /\ Cardinality(region) <= Cardinality(Rects)
  BY ScreenAssumption, FS_Subset DEF Types, TypeOK
<1>2. area' \in Seq(region) /\ Len(area') = Cardinality(region) /\ {area'[k] : k \in 1 .. Len(area')} = region
  BY <1>1, ArrayHoldsRegion
<1>3. queue = <<>> /\ buffer = <<>> /\ Sent = <<>> /\ Sent' = <<>>
  BY Joins DEF Outstanding, Sent
<1>4. ~Pending("empty") /\ ~Pending("subtract") /\ ~Pending("empty")' /\ ~Pending("subtract")'
  BY <1>3, HasCases, PendingHas
<1>5. Types'
  <2>1. area' \in Seq(Rects)
    BY <1>2 DEF Types, TypeOK
  <2>2. i' \in 1 .. Cardinality(Rects) + 1 /\ i' <= Len(area') + 1 /\ Len(area') <= Cardinality(Rects)
    BY <1>1, <1>2, RectsCounted, FS_CardinalityType
  <2> QED BY <2>1, <2>2 DEF Types, TypeOK
<1>6. Outstanding' /\ Collected'
  BY <1>3, <1>4 DEF Outstanding, Collected
<1>7. NothingForgotten'
  <2>1. Remaining = region /\ Remaining' = region
    BY <1>2, <1>4 DEF Remaining
  <2> QED BY <2>1 DEF NothingForgotten, Excepted, Running
<1>8. DamageAnnounced'
  BY <1>4 DEF DamageAnnounced, Running
<1> QED BY <1>5, <1>6, <1>7, <1>8

\* The second XDamageSubtract goes into an empty buffer, whether there was an
\* array or not.
LEMMA EmptySent ==
  ASSUME Outstanding, pc \in {"fetching", "rects"}, queue = <<>>,
         queue' = queue, buffer' = Append(buffer, "empty"), pc' = "wait"
  PROVE  /\ buffer' = <<"empty">> /\ Outstanding'
         /\ ~Pending("subtract") /\ ~Pending("subtract")' /\ Pending("empty")'
<1>1. buffer = <<>> /\ buffer' = <<"empty">>
  BY Joins DEF Outstanding
<1>2. Sent = <<>> /\ Sent' = <<"empty">>
  BY <1>1, Joins DEF Sent
<1>3. ~Pending("subtract") /\ ~Pending("subtract")' /\ Pending("empty")'
  BY <1>2, HasCases, PendingHas
<1> QED BY <1>1, <1>3 DEF Outstanding

LEMMA FetchFailsKeeps ==
  ASSUME DamageInv, FetchFails
  PROVE  DamageInv'
<1> USE DEF DamageInv, FetchFails, screen, server, array
<1>0. queue = <<>> /\ queue' = <<>>
  OBVIOUS
<1>1. /\ buffer' = <<"empty">> /\ Outstanding'
      /\ ~Pending("subtract") /\ ~Pending("subtract")' /\ Pending("empty")'
  BY <1>0, EmptySent
<1>2. Types'
  <2>1. buffer' \in Seq(Request) /\ Len(queue') + Len(buffer') <= 2
    BY <1>0, <1>1, FewRequests
  <2> QED BY <2>1 DEF Types, TypeOK
<1>3. Collected'
  BY <1>1 DEF Collected
<1>4. NothingForgotten'
  BY <1>1 DEF NothingForgotten, Excepted, Remaining, Running
<1>5. DamageAnnounced'
  BY <1>1 DEF DamageAnnounced
<1> QED BY <1>1, <1>2, <1>3, <1>4, <1>5

LEMMA RoundEndsKeeps ==
  ASSUME DamageInv, RoundEnds
  PROVE  DamageInv'
<1> USE DEF DamageInv, RoundEnds, screen, server, array, history
<1>0. queue = <<>> /\ queue' = <<>>
  BY DEF Outstanding
<1>1. /\ buffer' = <<"empty">> /\ Outstanding'
      /\ ~Pending("subtract") /\ ~Pending("subtract")' /\ Pending("empty")'
  BY <1>0, EmptySent
<1>2. Types'
  <2>1. buffer' \in Seq(Request) /\ Len(queue') + Len(buffer') <= 2
    BY <1>0, <1>1, FewRequests
  <2> QED BY <2>1 DEF Types, TypeOK
<1>3. Collected'
  BY <1>1 DEF Collected
<1>4. NothingForgotten'
  <2>1. Remaining = {}
    BY DEF Remaining, InLoop, Types, TypeOK
  <2> QED BY <2>1 DEF NothingForgotten, Excepted, Running, Remaining
<1>5. DamageAnnounced'
  BY <1>1 DEF DamageAnnounced
<1> QED BY <1>1, <1>2, <1>3, <1>4, <1>5

\* A picture, taken or not, takes the rectangle at i out of what remains.
LEMMA LoopStep ==
  ASSUME Types, pc = "rects", i <= Len(area), area' = area, i' = i + 1, pc' = pc
  PROVE  /\ area[i] \in Rects /\ Remaining \subseteq Remaining' \cup {area[i]}
         /\ i' \in 1 .. Cardinality(Rects) + 1 /\ i' <= Len(area') + 1
<1>1. i \in 1 .. Len(area) /\ area \in Seq(Rects) /\ Len(area) \in Nat
  BY DEF Types, TypeOK
<1>2. \A k \in i .. Len(area) : k = i \/ k \in i' .. Len(area)
  BY <1>1
<1>3. Remaining \subseteq Remaining' \cup {area[i]}
  BY <1>2 DEF Remaining
<1> QED BY <1>1, <1>3, RectsCounted DEF Types

LEMMA PictureKeeps ==
  ASSUME DamageInv, Picture \/ PictureFails
  PROVE  DamageInv'
<1> USE DEF DamageInv, server
<1>1. /\ pc = "rects" /\ i <= Len(area) /\ area' = area /\ i' = i + 1 /\ areaState' = "freed"
      /\ UNCHANGED <<changes, damage, events, queue, region, buffer, pc, collecting, late>>
  BY DEF Picture, PictureFails, InLoop, FreeArea, screen, server
<1>2. /\ area[i] \in Rects /\ Remaining \subseteq Remaining' \cup {area[i]}
      /\ i' \in 1 .. Cardinality(Rects) + 1 /\ i' <= Len(area') + 1
  BY <1>1, LoopStep
<1>3. /\ dirty' \subseteq dirty /\ missed' \subseteq Rects /\ misread' \subseteq Rects
      /\ dirty' \cap (missed \cup misread \cup {area[i]}) \subseteq missed' \cup misread'
  <2>1. CASE Picture
    <3>1. PICK taken \in Named : /\ dirty' = dirty \ taken /\ missed' = missed \ taken
                                /\ misread' = (misread \cup {area[i]}) \ taken
      BY <2>1 DEF Picture
    <3> QED BY <1>2, <3>1 DEF Types, TypeOK
  <2>2. CASE PictureFails
    <3>1. /\ dirty' = dirty
          /\ \/ missed' = missed \cup {area[i]} /\ misread' = misread
             \/ misread' = misread \cup {area[i]} /\ missed' = missed
      BY <2>2 DEF PictureFails, screen
    <3> QED BY <1>2, <3>1 DEF Types, TypeOK
  <2> QED BY <2>1, <2>2
<1>4. Sent' = Sent /\ (Pending("empty")' <=> Pending("empty")) /\ (Pending("subtract")' <=> Pending("subtract"))
  BY <1>1, PendingHas DEF Sent
<1>5. Types'
  BY <1>1, <1>2, <1>3 DEF Types, TypeOK
<1>6. Outstanding' /\ Collected'
  BY <1>1, <1>4 DEF Outstanding, Collected
<1>7. NothingForgotten'
  BY <1>1, <1>2, <1>3 DEF NothingForgotten, Excepted, Running
<1>8. DamageAnnounced'
  BY <1>1, <1>4 DEF DamageAnnounced, Running
<1> QED BY <1>5, <1>6, <1>7, <1>8

\* The end of the program.
LEMMA EndsKeeps ==
  ASSUME DamageInv, Ends("exited") \/ Ends("crashed")
  PROVE  DamageInv'
<1> USE DEF DamageInv, screen, server, array, history
<1>1. /\ pc = "rects" /\ pc' \in {"exited", "crashed"}
      /\ UNCHANGED <<changes, dirty, damage, events, queue, region, buffer,
                     area, areaState, i, missed, misread, collecting, late>>
  BY DEF Ends, InLoop
<1>2. Sent' = Sent /\ (Pending("empty")' <=> Pending("empty")) /\ (Pending("subtract")' <=> Pending("subtract"))
  BY <1>1, PendingHas DEF Sent
<1>3. Types' /\ Outstanding' /\ Collected'
  BY <1>1, <1>2 DEF Types, TypeOK, Outstanding, Collected
<1>4. NothingForgotten' /\ DamageAnnounced'
  BY <1>1 DEF NothingForgotten, Excepted, DamageAnnounced, Running
<1> QED BY <1>3, <1>4

LEMMA StutterKeeps ==
  ASSUME DamageInv, UNCHANGED vars
  PROVE  DamageInv'
<1> USE DEF DamageInv, vars, screen, server, array, history
<1>1. Sent' = Sent /\ (Pending("empty")' <=> Pending("empty")) /\ (Pending("subtract")' <=> Pending("subtract"))
  BY PendingHas DEF Sent
<1>2. Types' /\ Outstanding' /\ Collected'
  BY <1>1 DEF Types, TypeOK, Outstanding, Collected
<1>3. NothingForgotten' /\ DamageAnnounced'
  BY <1>1 DEF NothingForgotten, Excepted, DamageAnnounced, Running, Remaining
<1> QED BY <1>2, <1>3

LEMMA MonitorNext == DamageInv /\ [Next]_vars => DamageInv'
<1> SUFFICES ASSUME DamageInv, [Next]_vars PROVE DamageInv'
  OBVIOUS
<1>1. CASE \E r \in Rects : Change(r)
  BY <1>1, ChangeKeeps
<1>2. CASE Serve
  BY <1>2, ServeSubtractKeeps, ServeEmptyKeeps DEF Serve
<1>3. CASE Client
  BY <1>3, NextEventKeeps, FlushKeeps, FetchedKeeps, FetchFailsKeeps, PictureKeeps, EndsKeeps,
     RoundEndsKeeps DEF Client
<1>4. CASE UNCHANGED vars
  BY <1>4, StutterKeeps
<1> QED BY <1>1, <1>2, <1>3, <1>4 DEF Next

LEMMA MonitorInvariant == Spec => []DamageInv
<1> QED BY MonitorInit, MonitorNext, PTL DEF Spec

-----------------------------------------------------------------------------
(* The theorems. *)

\* Every variable of screen_capture's round keeps its type, at most two
\* requests wait in the buffer and the queue, the loop index stays within the
\* array and one past its end, and the events are never more than the changes
\* of the screen account for, for every set of rectangles.
THEOREM TypesCorrect == Spec => []TypeOK
<1>1. DamageInv => TypeOK
  BY DEF DamageInv, Types
<1> QED BY <1>1, MonitorInvariant, PTL

\* A rectangle that has changed is in the damage of the server, or is one the
\* round has still to come to, for every screen and any number of changes, with
\* four exceptions, each until the rectangle changes again: XGetImage returned
\* NULL for it, XFixesFetchRegion returned NULL for its region, the loop read
\* something else for it out of the freed array, or it changed between the two
\* XDamageSubtract of a round.
THEOREM NoDamageForgotten == Spec => []NothingForgotten
<1>1. DamageInv => NothingForgotten
  BY DEF DamageInv
<1> QED BY <1>1, MonitorInvariant, PTL

\* Damage in the server is announced by an event the monitor has still to
\* take, or is taken by a request it has already made.
THEOREM DamageStaysAnnounced == Spec => []DamageAnnounced
<1>1. DamageInv => DamageAnnounced
  BY DEF DamageInv
<1> QED BY <1>1, MonitorInvariant, PTL
=============================================================================
