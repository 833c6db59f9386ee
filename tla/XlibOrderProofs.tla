--------------------------- MODULE XlibOrderProofs ---------------------------
(***************************************************************************)
(* Theorems about XlibReply, continued: what becomes of the messages of    *)
(* the server, and of the numbers they carry.                              *)
(*                                                                         *)
(* What is on its way lies in Coming (the event in hand and what libxcb    *)
(* keeps) and on the wire, in the order it was sent in (Stream).  FlowInv  *)
(* adds that the events given to the program, those queued for it and      *)
(* those on their way are all there are (CountInv).                        *)
(***************************************************************************)
EXTENDS XlibReplyProofs, FiniteSetTheorems, Integers

-----------------------------------------------------------------------------
(* Numbers. *)

LEMMA ModBound == ASSUME NEW a \in Nat, NEW m \in Nat \ {0} PROVE a % m \in 0 .. m - 1 /\ a % m <= a
  OBVIOUS

LEMMA DivMod ==
  ASSUME NEW a \in Nat, NEW m \in Nat \ {0}
  PROVE  a = m * (a \div m) + (a % m) /\ a \div m \in Int
  OBVIOUS

LEMMA Multiple ==
  ASSUME NEW a \in Int, NEW m \in Nat \ {0}, a * m < m, -m < a * m
  PROVE  a = 0
  OBVIOUS

\* A number is never widened to one before the last that was read.
LEMMA WidenGrows ==
  ASSUME NEW wide \in Nat, NEW narrow \in Nat
  PROVE  Widen(wide, narrow) \in Nat /\ wide <= Widen(wide, narrow)
  BY ModBound, ClientAssumption DEF Widen

\* It is widened to itself when it is less than NumberMod ahead of the last.
LEMMA WidenAhead ==
  ASSUME NEW wide \in Nat, NEW n \in Nat, wide <= n, n < wide + NumberMod
  PROVE  Widen(wide, n) = n
<1>. DEFINE p == n \div NumberMod
            q == wide \div NumberMod
            a == wide % NumberMod
            b == n % NumberMod
<1>1. n = NumberMod * p + b /\ p \in Int /\ wide = NumberMod * q + a /\ q \in Int
  BY DivMod, ClientAssumption
<1>2. a \in 0 .. NumberMod - 1 /\ b \in 0 .. NumberMod - 1 /\ NumberMod \in Nat \ {0}
  BY ModBound, ClientAssumption
<1>3. Widen(wide, n) = IF wide - a + b < wide THEN wide - a + b + NumberMod ELSE wide - a + b
  BY DEF Widen
<1>. HIDE DEF p, q, a, b
<1>4. (p - q) * NumberMod = n - wide - b + a
  BY <1>1, <1>2
<1>5. CASE b < a
  <2>1. (p - q - 1) * NumberMod = n - wide - b + a - NumberMod
    BY <1>4, <1>1, <1>2
  <2>2. p - q - 1 = 0
    BY <2>1, Multiple, <1>1, <1>2, <1>5
  <2>. QED
    BY <1>2, <1>3, <1>5, <2>1, <2>2
<1>6. CASE ~(b < a)
  <2>1. p - q = 0
    BY <1>4, Multiple, <1>1, <1>2, <1>6
  <2>. QED
    BY <1>2, <1>3, <1>4, <1>6, <2>1
<1>. QED
  BY <1>2, <1>5, <1>6

\* Of the numbers less than NumberMod away, only the number itself is widened
\* to it.
LEMMA WidenSame ==
  ASSUME NEW wide \in Nat, NEW n \in Nat, Widen(wide, n) = wide,
         n < wide + NumberMod, wide < n + NumberMod
  PROVE  n = wide
<1>. DEFINE p == n \div NumberMod
            q == wide \div NumberMod
            a == wide % NumberMod
            b == n % NumberMod
<1>1. n = NumberMod * p + b /\ p \in Int /\ wide = NumberMod * q + a /\ q \in Int
  BY DivMod, ClientAssumption
<1>2. a \in 0 .. NumberMod - 1 /\ b \in 0 .. NumberMod - 1 /\ NumberMod \in Nat \ {0}
  BY ModBound, ClientAssumption
<1>3. Widen(wide, n) = IF wide - a + b < wide THEN wide - a + b + NumberMod ELSE wide - a + b
  BY DEF Widen
<1>. HIDE DEF p, q, a, b
<1>4. a = b
  BY <1>2, <1>3
<1>5. (p - q) * NumberMod = n - wide
  BY <1>1, <1>2, <1>4
<1>6. p - q = 0
  BY <1>1, <1>2, <1>5, Multiple
<1>7. n - wide = 0
  BY <1>2, <1>5, <1>6
<1>. QED
  BY <1>7

-----------------------------------------------------------------------------
(* Sequences of messages. *)

\* The places in their order are all of them, each once.
LEMMA InOrderAll ==
  ASSUME NEW n \in Nat, NEW S \in SUBSET (1 .. n), NEW s \in InOrder(S)
  PROVE  /\ s \in Seq(1 .. n)
         /\ \A i \in 1 .. Len(s) : s[i] \in S
         /\ \A x \in S : \E i \in 1 .. Len(s) : s[i] = x
         /\ \A i, j \in 1 .. Len(s) : i < j => s[i] < s[j]
<1>. DEFINE m == Cardinality(S)
<1>1. IsFiniteSet(S) /\ m \in Nat
  <2>1. IsFiniteSet(1 .. n)
    BY FS_Interval
  <2>2. IsFiniteSet(S)
    BY <2>1, FS_Subset
  <2>. QED
    BY <2>2, FS_CardinalityType
<1>2. s \in [1 .. m -> S] /\ \A i, j \in 1 .. m : i # j => s[i] # s[j]
  BY DEF InOrder, SetToSeqs
<1>3. s \in Injection(1 .. m, S)
  BY <1>2 DEF Injection, IsInjective
<1>4. IsFiniteSet(1 .. m) /\ Cardinality(1 .. m) = m
  BY <1>1, FS_Interval
<1>5. s \in Surjection(1 .. m, S)
  BY <1>1, <1>3, <1>4, FS_Injection
<1>. HIDE DEF m
<1>6. s \in [1 .. m -> 1 .. n]
  BY <1>2
<1>7. s \in Seq(1 .. n) /\ Len(s) = m
  BY <1>1, <1>6
<1>. QED
  BY <1>2, <1>5, <1>7 DEF Surjection, InOrder

\* A message is sent before another: its number is not greater, of two events
\* the first has the lower place, and of two answers the lower number.
Before(m, n) ==
  /\ m.seq <= n.seq
  /\ m.kind = "event" /\ n.kind = "event" => m.id < n.id
  /\ m.kind # "event" /\ n.kind # "event" => m.seq < n.seq

Sorted(s) == \A i, j \in 1 .. Len(s) : i < j => Before(s[i], s[j])

AllBefore(s, u) == \A i \in 1 .. Len(s), j \in 1 .. Len(u) : Before(s[i], u[j])

LEMMA TailSorted ==
  ASSUME NEW s \in Seq(Message), s # <<>>, NEW u, Sorted(s), AllBefore(s, u)
  PROVE  /\ Tail(s) \in Seq(Message) /\ Head(s) \in ToSet(s)
         /\ Sorted(Tail(s)) /\ AllBefore(Tail(s), u)
         /\ ToSet(s) = {Head(s)} \cup ToSet(Tail(s))
         /\ \A m \in ToSet(Tail(s)) : Before(Head(s), m)
         /\ \A i \in 1 .. Len(u) : Before(Head(s), u[i])
<1>1. /\ Len(s) \in Nat /\ Len(s) > 0 /\ DOMAIN s = 1 .. Len(s)
      /\ Tail(s) \in Seq(Message) /\ Len(Tail(s)) = Len(s) - 1
      /\ \A i \in 1 .. Len(s) - 1 : Tail(s)[i] = s[i + 1]
      /\ DOMAIN Tail(s) = 1 .. Len(s) - 1
      /\ Head(s) = s[1]
  BY HeadTailProperties, EmptySeq, LenProperties
<1>2. \A i \in 1 .. Len(s) - 1 : i + 1 \in 1 .. Len(s) /\ 1 < i + 1
  BY <1>1
<1>3. Sorted(Tail(s))
  <2>. SUFFICES ASSUME NEW i \in 1 .. Len(s) - 1, NEW j \in 1 .. Len(s) - 1, i < j
                PROVE  Before(s[i + 1], s[j + 1])
    BY <1>1 DEF Sorted
  <2>. QED
    BY <1>1, <1>2 DEF Sorted
<1>4. AllBefore(Tail(s), u)
  BY <1>1, <1>2 DEF AllBefore
<1>5. ToSet(s) = {Head(s)} \cup ToSet(Tail(s))
  <2>1. \A i \in 1 .. Len(s) : i = 1 \/ (i - 1 \in 1 .. Len(s) - 1 /\ Tail(s)[i - 1] = s[i])
    BY <1>1
  <2>2. ToSet(s) \subseteq {Head(s)} \cup ToSet(Tail(s))
    <3>. SUFFICES ASSUME NEW i \in 1 .. Len(s), i # 1
                  PROVE  s[i] \in ToSet(Tail(s))
      BY <1>1 DEF ToSet
    <3>. QED
      BY <1>1, <2>1 DEF ToSet
  <2>3. {Head(s)} \cup ToSet(Tail(s)) \subseteq ToSet(s)
    BY <1>1, <1>2 DEF ToSet
  <2>. QED
    BY <2>2, <2>3
<1>6. \A m \in ToSet(Tail(s)) : Before(Head(s), m)
  BY <1>1, <1>2 DEF ToSet, Sorted
<1>7. \A i \in 1 .. Len(u) : Before(Head(s), u[i])
  BY <1>1 DEF AllBefore
<1>. QED
  BY <1>1, <1>3, <1>4, <1>5, <1>6, <1>7

LEMMA AppendSorted ==
  ASSUME NEW u \in Seq(Message), NEW s \in Seq(Message), NEW m \in Message,
         Sorted(u), AllBefore(s, u), \A x \in ToSet(s) \cup ToSet(u) : Before(x, m)
  PROVE  /\ Append(u, m) \in Seq(Message)
         /\ Sorted(Append(u, m)) /\ AllBefore(s, Append(u, m))
         /\ ToSet(Append(u, m)) = ToSet(u) \cup {m}
<1>1. /\ Len(u) \in Nat /\ DOMAIN u = 1 .. Len(u)
      /\ Append(u, m) \in Seq(Message) /\ Len(Append(u, m)) = Len(u) + 1
      /\ DOMAIN Append(u, m) = 1 .. Len(u) + 1
      /\ \A i \in 1 .. Len(u) : Append(u, m)[i] = u[i]
      /\ Append(u, m)[Len(u) + 1] = m
  BY AppendProperties, LenProperties
<1>2. \A i \in 1 .. Len(u) + 1 : i \in 1 .. Len(u) \/ i = Len(u) + 1
  BY <1>1
<1>3. Len(u) + 1 \in 1 .. Len(u) + 1 /\ \A i \in 1 .. Len(u) : i \in 1 .. Len(u) + 1
  BY <1>1
<1>4. \A i \in 1 .. Len(u) : Before(u[i], m)
  BY <1>1 DEF ToSet
<1>5. \A i \in 1 .. Len(s) : Before(s[i], m)
  BY LenProperties DEF ToSet
<1>6. Sorted(Append(u, m))
  <2>. SUFFICES ASSUME NEW i \in 1 .. Len(u) + 1, NEW j \in 1 .. Len(u) + 1, i < j
                PROVE  Before(Append(u, m)[i], Append(u, m)[j])
    BY <1>1 DEF Sorted
  <2>1. i \in 1 .. Len(u)
    BY <1>1
  <2>. QED
    BY <1>1, <1>2, <1>4, <2>1 DEF Sorted
<1>7. AllBefore(s, Append(u, m))
  BY <1>1, <1>2, <1>5 DEF AllBefore
<1>8. ToSet(Append(u, m)) = ToSet(u) \cup {m}
  BY <1>1, <1>2, <1>3 DEF ToSet
<1>. QED
  BY <1>1, <1>6, <1>7, <1>8

\* What libxcb reads when it reads up to k: g, of which it queues e, and v stays
\* on the wire.
Parts(w, k, at, e, g, v) ==
  /\ e \in Seq(Message) /\ g \in Seq(Message) /\ v \in Seq(Message)
  /\ Len(e) = Len(at) /\ Len(g) = k /\ Len(v) = Len(w) - k
  /\ \A i \in 1 .. Len(at) : at[i] \in 1 .. k /\ e[i] = w[at[i]] /\ e[i].kind # "reply"
  /\ \A i, j \in 1 .. Len(at) : i < j => at[i] < at[j]
  /\ \A x \in 1 .. k : w[x].kind # "reply" => \E i \in 1 .. Len(at) : at[i] = x
  /\ \A i \in 1 .. k : g[i] = w[i]
  /\ \A i \in 1 .. Len(w) - k : v[i] = w[k + i]
  /\ Last(g) = w[k]

LEMMA ReadParts ==
  ASSUME NEW w \in Seq(Message), NEW k \in 1 .. Len(w),
         NEW at \in InOrder({i \in 1 .. k : w[i].kind # "reply"})
  PROVE  Parts(w, k, at, [i \in DOMAIN at |-> w[at[i]]], SubSeq(w, 1, k),
               SubSeq(w, k + 1, Len(w)))
<1>. DEFINE S == {i \in 1 .. k : w[i].kind # "reply"}
            e == [i \in DOMAIN at |-> w[at[i]]]
            g == SubSeq(w, 1, k)
            v == SubSeq(w, k + 1, Len(w))
<1>1. /\ Len(w) \in Nat /\ k \in Nat
      /\ \A i \in 1 .. Len(w) : w[i] \in Message
  BY LenProperties, ElementOfSeq
<1>2. at \in InOrder(S) /\ S \in SUBSET (1 .. k) /\ k \in Nat
  BY <1>1
<1>. HIDE DEF S
<1>3. /\ at \in Seq(1 .. k) /\ \A i \in 1 .. Len(at) : at[i] \in S
      /\ \A x \in S : \E i \in 1 .. Len(at) : at[i] = x
      /\ \A i, j \in 1 .. Len(at) : i < j => at[i] < at[j]
  BY SMTT(30), <1>2, InOrderAll
<1>4. Len(at) \in Nat /\ DOMAIN at = 1 .. Len(at)
  BY <1>3, LenProperties
<1>5. \A i \in 1 .. Len(at) : at[i] \in 1 .. k /\ at[i] \in 1 .. Len(w)
                                /\ w[at[i]].kind # "reply" /\ w[at[i]] \in Message
  BY <1>1, <1>3 DEF S
<1>6. \A x \in 1 .. k : w[x].kind # "reply" => \E i \in 1 .. Len(at) : at[i] = x
  BY <1>3 DEF S
<1>7. e \in Seq(Message) /\ Len(e) = Len(at)
      /\ \A i \in 1 .. Len(at) : e[i] = w[at[i]]
  BY <1>4, <1>5
<1>8. g \in Seq(Message) /\ Len(g) = k /\ \A i \in 1 .. k : g[i] = w[i]
  <2>1. \A i \in 1 .. k : w[i] \in Message
    BY <1>1
  <2>2. /\ g \in Seq(Message) /\ Len(g) = IF 1 <= k THEN k - 1 + 1 ELSE 0
        /\ \A i \in 1 .. k - 1 + 1 : g[i] = w[1 + i - 1]
    BY <1>1, <2>1, SubSeqProperties
  <2>. HIDE DEF g
  <2>. QED
    BY <1>1, <2>2
<1>9. v \in Seq(Message) /\ Len(v) = Len(w) - k /\ \A i \in 1 .. Len(w) - k : v[i] = w[k + i]
  <2>1. \A i \in k + 1 .. Len(w) : w[i] \in Message
    BY <1>1
  <2>2. /\ v \in Seq(Message) /\ Len(v) = IF k + 1 <= Len(w) THEN Len(w) - (k + 1) + 1 ELSE 0
        /\ \A i \in 1 .. Len(w) - (k + 1) + 1 : v[i] = w[(k + 1) + i - 1]
    BY <1>1, <2>1, SubSeqProperties
  <2>. HIDE DEF v
  <2>. QED
    BY <1>1, <2>2
<1>. HIDE DEF e, g, v
<1>10. Last(g) = w[k]
  BY <1>1, <1>8 DEF Last
<1>. QED
  BY <1>3, <1>5, <1>6, <1>7, <1>8, <1>9, <1>10 DEF e, g, v, Parts

\* A queue behind which messages are put that come later stays sorted.
LEMMA ConcatSorted ==
  ASSUME NEW c \in Seq(Message), NEW e \in Seq(Message),
         Sorted(c), Sorted(e), AllBefore(c, e)
  PROVE  /\ c \o e \in Seq(Message) /\ Sorted(c \o e)
         /\ ToSet(c \o e) = ToSet(c) \cup ToSet(e)
<1>1. /\ Len(c) \in Nat /\ DOMAIN c = 1 .. Len(c)
      /\ Len(e) \in Nat /\ DOMAIN e = 1 .. Len(e)
  BY LenProperties
<1>2. /\ c \o e \in Seq(Message) /\ Len(c \o e) = Len(c) + Len(e)
      /\ DOMAIN (c \o e) = 1 .. Len(c) + Len(e)
      /\ \A i \in 1 .. Len(c) + Len(e) : (c \o e)[i] = IF i <= Len(c) THEN c[i] ELSE e[i - Len(c)]
  BY ConcatProperties, LenProperties
<1>3. \A i \in 1 .. Len(c) + Len(e) :
        \/ i \in 1 .. Len(c) /\ (c \o e)[i] = c[i]
        \/ i \notin 1 .. Len(c) /\ i - Len(c) \in 1 .. Len(e) /\ (c \o e)[i] = e[i - Len(c)]
  BY <1>1, <1>2
<1>4. Sorted(c \o e)
  <2>. SUFFICES ASSUME NEW i \in 1 .. Len(c) + Len(e), NEW j \in 1 .. Len(c) + Len(e), i < j
                PROVE  Before((c \o e)[i], (c \o e)[j])
    BY <1>2 DEF Sorted
  <2>1. CASE j \in 1 .. Len(c)
    <3>1. i \in 1 .. Len(c)
      BY <2>1
    <3>. QED
      BY <1>1, <1>3, <2>1, <3>1 DEF Sorted
  <2>2. CASE i \in 1 .. Len(c) /\ j \notin 1 .. Len(c)
    BY <1>3, <2>2 DEF AllBefore
  <2>3. CASE i \notin 1 .. Len(c)
    <3>1. j \notin 1 .. Len(c)
      BY <1>1, <2>3
    <3>2. /\ i - Len(c) \in 1 .. Len(e) /\ (c \o e)[i] = e[i - Len(c)]
          /\ j - Len(c) \in 1 .. Len(e) /\ (c \o e)[j] = e[j - Len(c)]
      BY <1>3, <2>3, <3>1
    <3>3. i - Len(c) < j - Len(c)
      BY <1>1
    <3>. QED
      BY <3>2, <3>3 DEF Sorted
  <2>. QED
    BY <2>1, <2>2, <2>3
<1>5. \A i \in 1 .. Len(c) : i \in 1 .. Len(c) + Len(e) /\ (c \o e)[i] = c[i]
  BY <1>1, <1>2
<1>6. ASSUME NEW i \in 1 .. Len(e)
      PROVE  Len(c) + i \in 1 .. Len(c) + Len(e) /\ (c \o e)[Len(c) + i] = e[i]
  <2>1. /\ Len(c) + i \in 1 .. Len(c) + Len(e) /\ ~(Len(c) + i <= Len(c))
        /\ (Len(c) + i) - Len(c) = i
    BY <1>1
  <2>. QED
    BY <1>2, <2>1
<1>7. ToSet(c \o e) = ToSet(c) \cup ToSet(e)
  <2>1. ToSet(c \o e) = {(c \o e)[i] : i \in 1 .. Len(c) + Len(e)}
    BY <1>2 DEF ToSet
  <2>2. ToSet(c) = {c[i] : i \in 1 .. Len(c)} /\ ToSet(e) = {e[i] : i \in 1 .. Len(e)}
    BY <1>1 DEF ToSet
  <2>3. \A m \in ToSet(c \o e) : m \in ToSet(c) \cup ToSet(e)
    <3>. SUFFICES ASSUME NEW i \in 1 .. Len(c) + Len(e)
                  PROVE  (c \o e)[i] \in ToSet(c) \cup ToSet(e)
      BY <2>1
    <3>. QED
      BY <1>3, <2>2
  <2>4. ToSet(c) \subseteq ToSet(c \o e)
    BY <1>5, <2>1, <2>2
  <2>5. ToSet(e) \subseteq ToSet(c \o e)
    BY <1>6, <2>1, <2>2
  <2>. QED
    BY <2>3, <2>4, <2>5
<1>. QED
  BY <1>2, <1>4, <1>7

\* What libxcb reads stays sorted, and nothing but replies leaves the stream.
LEMMA ReadSorted ==
  ASSUME NEW c \in Seq(Message), NEW w \in Seq(Message), NEW k \in 1 .. Len(w),
         NEW at, NEW e, NEW g, NEW v, Parts(w, k, at, e, g, v),
         Sorted(c), Sorted(w), AllBefore(c, w)
  PROVE  /\ c \o e \in Seq(Message) /\ Sorted(c \o e) /\ Sorted(v) /\ AllBefore(c \o e, v)
         /\ ToSet(c \o e) = ToSet(c) \cup {m \in ToSet(g) : m.kind # "reply"}
         /\ ToSet(w) = ToSet(g) \cup ToSet(v)
         /\ \A m \in ToSet(g) : m = w[k] \/ Before(m, w[k])
         /\ \A m \in ToSet(g), n \in ToSet(v) : Before(m, n)
         /\ w[k] \in ToSet(g) /\ \A m \in ToSet(c) : Before(m, w[k])
<1>. USE DEF Parts
<1>1. /\ Len(w) \in Nat /\ k \in Nat /\ DOMAIN w = 1 .. Len(w) /\ k \in 1 .. Len(w)
      /\ Len(c) \in Nat /\ DOMAIN c = 1 .. Len(c)
      /\ Len(e) \in Nat /\ DOMAIN e = 1 .. Len(e)
      /\ DOMAIN g = 1 .. k /\ DOMAIN v = 1 .. Len(w) - k
  BY LenProperties
<1>2. \A i \in 1 .. Len(e) : at[i] \in 1 .. k /\ at[i] \in 1 .. Len(w) /\ e[i] = w[at[i]]
  BY <1>1
<1>3. \A j \in 1 .. Len(w) - k : k + j \in 1 .. Len(w) /\ k < k + j /\ v[j] = w[k + j]
  BY <1>1
<1>4. Sorted(e)
  <2>1. \A i, j \in 1 .. Len(e) : i < j => at[i] < at[j]
    BY <1>1
  <2>2. \A i, j \in 1 .. Len(w) : i < j => Before(w[i], w[j])
    BY DEF Sorted
  <2>. SUFFICES ASSUME NEW i \in 1 .. Len(e), NEW j \in 1 .. Len(e), i < j
                PROVE  Before(e[i], e[j])
    BY Zenon DEF Sorted
  <2>3. at[i] < at[j] /\ at[i] \in 1 .. Len(w) /\ at[j] \in 1 .. Len(w)
    BY <1>2, <2>1, Zenon
  <2>4. Before(w[at[i]], w[at[j]])
    BY <2>2, <2>3, Zenon
  <2>. QED
    BY <1>2, <2>4, Zenon
<1>5. AllBefore(c, e)
  BY <1>2 DEF AllBefore
<1>6. c \o e \in Seq(Message) /\ Sorted(c \o e) /\ ToSet(c \o e) = ToSet(c) \cup ToSet(e)
  BY <1>4, <1>5, ConcatSorted
<1>7. Sorted(v)
  <2>. SUFFICES ASSUME NEW i \in 1 .. Len(w) - k, NEW j \in 1 .. Len(w) - k, i < j
                PROVE  Before(v[i], v[j])
    BY DEF Sorted
  <2>1. k + i < k + j
    BY <1>1
  <2>. QED
    BY <1>3, <2>1 DEF Sorted
<1>8. AllBefore(c, v)
  BY <1>3 DEF AllBefore
<1>9. AllBefore(e, v)
  <2>. SUFFICES ASSUME NEW i \in 1 .. Len(e), NEW j \in 1 .. Len(w) - k
                PROVE  Before(e[i], v[j])
    BY DEF AllBefore
  <2>1. at[i] < k + j
    BY <1>1, <1>2
  <2>. QED
    BY <1>2, <1>3, <2>1 DEF Sorted
<1>10. AllBefore(c \o e, v)
  <2>1. \A m \in ToSet(c) \cup ToSet(e) : \A j \in 1 .. Len(v) : Before(m, v[j])
    BY <1>1, <1>8, <1>9 DEF AllBefore, ToSet
  <2>2. \A i \in 1 .. Len(c \o e) : (c \o e)[i] \in ToSet(c \o e)
    BY ZenonT(40), <1>6, LenProperties DEF ToSet
  <2>. QED
    BY <1>6, <2>1, <2>2 DEF AllBefore
<1>11. ToSet(g) = {w[i] : i \in 1 .. k}
  <2>1. ToSet(g) = {g[i] : i \in 1 .. k}
    BY <1>1 DEF ToSet
  <2>2. \A i \in 1 .. k : g[i] = w[i]
    BY Zenon
  <2>. HIDE DEF Parts
  <2>. QED
    BY <2>1, <2>2
<1>12. ToSet(e) = {m \in ToSet(g) : m.kind # "reply"}
  <2>1. ToSet(e) = {e[i] : i \in 1 .. Len(e)}
    BY <1>1 DEF ToSet
  <2>2. ASSUME NEW x \in 1 .. k, w[x].kind # "reply"
        PROVE  w[x] \in ToSet(e)
    <3>1. PICK i \in 1 .. Len(e) : at[i] = x
      BY <2>2
    <3>2. e[i] = w[x]
      BY <1>2, <3>1
    <3>. QED
      BY <2>1, <3>2
  <2>3. \A m \in ToSet(e) : m \in ToSet(g) /\ m.kind # "reply"
    BY <1>2, <1>11, <2>1
  <2>4. \A m \in ToSet(g) : m.kind # "reply" => m \in ToSet(e)
    BY <1>11, <2>2
  <2>. QED
    BY <2>3, <2>4
<1>13. ToSet(v) = {w[i] : i \in k + 1 .. Len(w)}
  <2>1. ToSet(v) = {v[i] : i \in 1 .. Len(w) - k}
    BY <1>1 DEF ToSet
  <2>2. ASSUME NEW i \in k + 1 .. Len(w)
        PROVE  w[i] \in ToSet(v)
    <3>1. i - k \in 1 .. Len(w) - k /\ k + (i - k) = i
      BY <1>1
    <3>2. v[i - k] = w[i]
      BY <1>3, <3>1
    <3>. QED
      BY <2>1, <3>1, <3>2
  <2>3. ASSUME NEW j \in 1 .. Len(w) - k
        PROVE  v[j] \in {w[i] : i \in k + 1 .. Len(w)}
    <3>1. k + j \in k + 1 .. Len(w)
      BY <1>1
    <3>2. v[j] = w[k + j]
      BY <1>3, Zenon
    <3>. HIDE DEF Parts
    <3>. QED
      BY <3>1, <3>2
  <2>4. ASSUME NEW m \in ToSet(v)
        PROVE  m \in {w[i] : i \in k + 1 .. Len(w)}
    <3>1. PICK j \in 1 .. Len(w) - k : m = v[j]
      BY <2>1
    <3>. QED
      BY <2>3, <3>1
  <2>. QED
    BY <2>2, <2>4
<1>14. ToSet(w) = ToSet(g) \cup ToSet(v)
  <2>1. 1 .. Len(w) = (1 .. k) \cup (k + 1 .. Len(w))
    BY <1>1
  <2>2. ToSet(w) = {w[i] : i \in 1 .. Len(w)}
    BY <1>1 DEF ToSet
  <2>. QED
    BY <1>11, <1>13, <2>1, <2>2
<1>15. \A m \in ToSet(g) : m = w[k] \/ Before(m, w[k])
  <2>. SUFFICES ASSUME NEW i \in 1 .. k
                PROVE  w[i] = w[k] \/ Before(w[i], w[k])
    BY SMTT(30), <1>11
  <2>1. i = k \/ i < k
    BY <1>1
  <2>2. i \in 1 .. Len(w)
    BY <1>1
  <2>. QED
    BY <1>1, <2>1, <2>2 DEF Sorted
<1>16. \A m \in ToSet(g), n \in ToSet(v) : Before(m, n)
  <2>. SUFFICES ASSUME NEW i \in 1 .. k, NEW j \in k + 1 .. Len(w)
                PROVE  Before(w[i], w[j])
    BY <1>11, <1>13
  <2>1. i \in 1 .. Len(w) /\ j \in 1 .. Len(w) /\ i < j
    BY <1>1
  <2>. QED
    BY <1>1, <2>1 DEF Sorted
<1>17. w[k] \in ToSet(g) /\ \A m \in ToSet(c) : Before(m, w[k])
  <2>1. k \in 1 .. k
    BY <1>1
  <2>2. \A m \in ToSet(c) : Before(m, w[k])
    BY <1>1 DEF ToSet, AllBefore
  <2>. QED
    BY <1>11, <2>1, <2>2
<1>. QED
  BY <1>6, <1>7, <1>10, <1>12, <1>14, <1>15, <1>16, <1>17

-----------------------------------------------------------------------------
(* The queue of events and errors on their way through libxcb. *)

StreamTyped ==
  /\ nextEvent \in Seq(Message) /\ Len(nextEvent) <= 1
  /\ xcbEvents \in Seq(Message) /\ wire \in Seq(Message)

Polls(t) == pc[t] \in {"poll", "poll_reply", "poll_queued"}

\* While a thread is in xcb_wait_for_event, nobody fills next_event.
Slot == eventWaiter => nextEvent = <<>> /\ \A t \in Threads : ~Polls(t)

LEMMA ComingTyped ==
  ASSUME StreamTyped
  PROVE  /\ Coming \in Seq(Message)
         /\ Coming # <<>> => Head(Coming) \in Message /\ Tail(Coming) \in Seq(Message)
<1>1. Coming \in Seq(Message)
  BY ConcatProperties DEF StreamTyped, Coming
<1>. QED
  BY <1>1, HeadTailProperties

\* Keeping the first of the queue in next_event leaves the queue as it is.
LEMMA KeptComing ==
  ASSUME StreamTyped, Kept, UNCHANGED wire
  PROVE  StreamTyped' /\ UNCHANGED Coming
<1>1. CASE Coming = <<>>
  <2>1. nextEvent' = <<>> /\ xcbEvents' = <<>>
    BY <1>1 DEF Kept
  <2>. QED
    BY <1>1, <2>1, EmptySeq DEF StreamTyped, Coming
<1>2. CASE Coming # <<>>
  <2>. DEFINE m == Head(Coming)
              r == Tail(Coming)
  <2>1. m \in Message /\ r \in Seq(Message) /\ Coming \in Seq(Message)
    BY <1>2, ComingTyped
  <2>2. nextEvent' = <<m>> /\ xcbEvents' = r
    BY <1>2 DEF Kept
  <2>3. Coming = <<m>> \o r
    BY <1>2, <2>1
  <2>. HIDE DEF m, r
  <2>4. <<m>> \in Seq(Message) /\ Len(<<m>>) = 1
    BY <2>1
  <2>5. StreamTyped'
    BY <2>1, <2>2, <2>4 DEF StreamTyped
  <2>6. Coming' = nextEvent' \o xcbEvents'
    BY DEF Coming
  <2>. QED
    BY <2>2, <2>3, <2>5, <2>6
<1>. QED
  BY <1>1, <1>2

\* Taking the first one leaves the others.
LEMMA TakenComing ==
  ASSUME StreamTyped, Coming # <<>>, UNCHANGED wire,
         nextEvent' = <<>>, xcbEvents' = Tail(Coming)
  PROVE  StreamTyped' /\ Coming' = Tail(Coming)
<1>1. Tail(Coming) \in Seq(Message)
  BY ComingTyped
<1>2. StreamTyped'
  BY <1>1, EmptySeq DEF StreamTyped
<1>3. Coming' = <<>> \o Tail(Coming)
  BY DEF Coming
<1>. QED
  BY <1>1, <1>2, <1>3, ConcatEmptySeq

\* What xcb_wait_for_event returns was the first: next_event was empty.
LEMMA ArrivedComing ==
  ASSUME StreamTyped, nextEvent = <<>>, xcbEvents # <<>>, UNCHANGED wire,
         nextEvent' = <<Head(xcbEvents)>>, xcbEvents' = Tail(xcbEvents)
  PROVE  StreamTyped' /\ UNCHANGED Coming
<1>1. Coming = xcbEvents
  BY ConcatEmptySeq DEF Coming, StreamTyped
<1>2. Kept
  BY <1>1 DEF Kept
<1>. QED
  BY <1>2, KeptComing

\* Nobody fills next_event who did not before.
SlotQuiet ==
  eventWaiter' => /\ eventWaiter /\ UNCHANGED nextEvent
                  /\ \A t \in Threads : Polls(t)' => Polls(t)

LEMMA SlotKept == ASSUME Slot, SlotQuiet PROVE Slot'
  BY DEF Slot, SlotQuiet

LEMMA SlotMove ==
  ASSUME ReaderInv, Slot, NEW t, NEW at, Mine(t, at),
         eventWaiter' => eventWaiter /\ UNCHANGED nextEvent
                         /\ at \notin {"poll", "poll_reply", "poll_queued"}
  PROVE  Slot'
<1>1. \A u \in Threads : pc'[u] = IF u = t THEN at ELSE pc[u]
  BY DEF Mine, ReaderInv, ThreadsTyped
<1>2. SlotQuiet
  BY <1>1 DEF SlotQuiet, Polls
<1>. QED
  BY <1>2, SlotKept

StreamSlot == StreamTyped /\ Slot

\* A step that leaves the messages where they are.
Passes == StreamSlot' /\ UNCHANGED <<wire, Coming>>

\* A step that takes the first of the queue away.
Takes == StreamSlot' /\ Coming # <<>> /\ Coming' = Tail(Coming) /\ UNCHANGED wire

LEMMA StreamStutter ==
  ASSUME StreamSlot, UNCHANGED <<nextEvent, xcbEvents, wire, eventWaiter, pc>>
  PROVE  Passes
<1>1. StreamTyped' /\ UNCHANGED Coming
  BY DEF StreamSlot, StreamTyped, Coming
<1>2. SlotQuiet
  BY DEF SlotQuiet, Polls
<1>. QED
  BY <1>1, <1>2, SlotKept DEF StreamSlot, Passes

\* A thread moves on, without a look at the queue.
LEMMA StreamMove ==
  ASSUME ReaderInv, StreamSlot, NEW t, NEW at, Mine(t, at),
         UNCHANGED <<nextEvent, xcbEvents, wire>>,
         eventWaiter' => eventWaiter /\ at \notin {"poll", "poll_reply", "poll_queued"}
  PROVE  Passes
<1>1. StreamTyped' /\ UNCHANGED Coming
  BY DEF StreamSlot, StreamTyped, Coming
<1>2. Slot'
  BY SlotMove DEF StreamSlot
<1>. QED
  BY <1>1, <1>2 DEF StreamSlot, Passes

\* A thread that polls moves on: no thread is in xcb_wait_for_event.
LEMMA StreamPolls ==
  ASSUME StreamSlot, NEW t \in Threads, Polls(t)
  PROVE  ~eventWaiter
  BY DEF StreamSlot, Slot

LEMMA KeptMove ==
  ASSUME ReaderInv, StreamSlot, NEW t, NEW at, Mine(t, at), Kept, ~eventWaiter,
         UNCHANGED <<wire, eventWaiter>>
  PROVE  Passes
<1>1. StreamTyped' /\ UNCHANGED Coming
  BY KeptComing DEF StreamSlot
<1>2. Slot'
  BY DEF Slot
<1>. QED
  BY <1>1, <1>2 DEF StreamSlot, Passes

\* The step of a thread that has taken an event.
TookEvent(t) ==
  /\ Runs(t, "poll") \/ Runs(t, "poll_queued") \/ (Runs(t, "events") /\ ~eventWaiter)
  /\ Due
  /\ lastRead' = Widen(lastRead, Head(Coming).seq) /\ ~(lastRead' > request)
  /\ ~IsError(Head(Coming))
  /\ queue' = Append(queue, Head(Coming).id) /\ serial' = serial + 1
  /\ lock' = t
  /\ Goto(t, IF pc[t] = "events" THEN "events" ELSE "poll")
  /\ UNCHANGED <<display, eventWaiter, filled, asleep, thread, fate, toRead, xcb, seen>>

LEMMA TakeEventEffect ==
  ASSUME ReaderInv, StreamSlot, NEW t \in Threads, TakeEvent(t)
  PROVE  \/ End("aborted") /\ Due /\ Widen(lastRead, Head(Coming).seq) > request
         \/ End(Head(Coming).kind) /\ Due /\ IsError(Head(Coming))
         \/ TookEvent(t) /\ Takes
<1>. DEFINE m == Head(Coming)
            n == Widen(lastRead, m.seq)
<1>1. CASE n > request
  BY <1>1 DEF TakeEvent
<1>2. CASE ~(n > request) /\ IsError(m)
  BY <1>2 DEF TakeEvent
<1>3. CASE ~(n > request) /\ ~IsError(m)
  <2>1. TookEvent(t) /\ nextEvent' = <<>> /\ xcbEvents' = Tail(Coming)
    BY <1>3 DEF TakeEvent, TookEvent
  <2>2. pc[t] \in {"poll", "poll_queued"} \/ ~eventWaiter
    BY <2>1 DEF TookEvent, Runs
  <2>3. ~eventWaiter /\ Coming # <<>> /\ UNCHANGED <<wire, eventWaiter>>
    BY <2>1, <2>2, StreamPolls DEF Polls, TookEvent, Due, toRead
  <2>4. StreamTyped' /\ Coming' = Tail(Coming)
    BY <2>1, <2>3, TakenComing DEF StreamSlot
  <2>5. Takes
    BY <2>3, <2>4 DEF Takes, StreamSlot, Slot
  <2>. QED
    BY <2>1, <2>5
<1>. QED
  BY <1>1, <1>2, <1>3

LEMMA PollForReplyEffect ==
  ASSUME ReaderInv, StreamSlot, NEW t \in Threads, PollForReply(t)
  PROVE  Passes
<1>1. ~eventWaiter
  BY StreamPolls DEF PollForReply, Runs, Polls
<1>. QED
  BY <1>1, KeptMove DEF PollForReply, Goto, Mine, Place, toRead

LEMMA PolledReplyEffect ==
  ASSUME ReaderInv, StreamSlot, NEW t \in Threads, PolledReply(t)
  PROVE  Passes
<1>1. ~eventWaiter
  BY StreamPolls DEF PolledReply, Runs, Polls
<1>2. PICK at \in {"poll", "read"} : pc' = [pc EXCEPT ![t] = at]
  BY DEF PolledReply, Goto
<1>3. Mine(t, at)
  BY <1>2 DEF Mine, Place
<1>4. UNCHANGED <<nextEvent, xcbEvents, wire, eventWaiter>>
  BY DEF PolledReply, toRead
<1>. QED
  BY <1>1, <1>3, <1>4, StreamMove

LEMMA PolledNothingEffect ==
  ASSUME ReaderInv, StreamSlot, NEW t \in Threads, PolledNothing(t)
  PROVE  Passes
<1>1. ~eventWaiter
  BY StreamPolls DEF PolledNothing, Runs, Polls
<1>2. Mine(t, "poll_queued") /\ UNCHANGED <<nextEvent, xcbEvents, wire, eventWaiter>>
  BY DEF PolledNothing, Goto, Mine, Place, toRead
<1>. QED
  BY <1>1, <1>2, StreamMove

LEMMA EndEffect == ASSUME StreamSlot, NEW why, End(why) PROVE Passes
  BY StreamStutter DEF End, toRead

LEMMA NoResponseEffect ==
  ASSUME ReaderInv, StreamSlot, NEW t \in Threads, NoResponse(t)
  PROVE  Passes
<1>1. ~eventWaiter
  BY StreamPolls DEF NoResponse, Runs, Polls
<1>2. CASE End("io_error") \/ End("crashed")
  BY <1>2, EndEffect
<1>3. CASE ~(End("io_error") \/ End("crashed"))
  <2>1. Kept /\ UNCHANGED <<wire, eventWaiter>>
    BY <1>3 DEF NoResponse, toRead
  <2>2. PICK at \in {"done", "read"} : pc' = [pc EXCEPT ![t] = at]
    BY <1>3 DEF NoResponse, Goto
  <2>3. Mine(t, at)
    BY <2>2 DEF Mine, Place
  <2>. QED
    BY <1>1, <2>1, <2>3, KeptMove
<1>. QED
  BY <1>2, <1>3

LEMMA EnterEffect ==
  ASSUME ReaderInv, StreamSlot, NEW t \in Threads, Enter(t)
  PROVE  Passes
<1>1. UNCHANGED <<nextEvent, xcbEvents, wire, eventWaiter>>
  BY DEF Enter, Send, NextEvent, RoundTrip, toRead
<1>2. PICK at \in {"done", "poll", "read", "reply"} :
        pc' = [pc EXCEPT ![t] = at] /\ (eventWaiter => at # "poll")
  BY DEF Enter, Send, NextEvent, RoundTrip, Goto
<1>3. Mine(t, at)
  BY <1>2 DEF Mine, Place
<1>. QED
  BY <1>1, <1>2, <1>3, StreamMove

LEMMA ReadEventsEffect ==
  ASSUME ReaderInv, ClientAssumption, StreamSlot, NEW t \in Threads, ReadEvents(t)
  PROVE  Passes
<1>1. UNCHANGED <<nextEvent, xcbEvents, wire>>
  BY DEF ReadEvents, toRead
<1>2. pc[t] = "read" /\ lock \in {t, NoThread}
  BY DEF ReadEvents, Runs
<1>3. \/ UNCHANGED eventWaiter /\ (\E at \in {"done", "poll"} : Mine(t, at)
                                      /\ (eventWaiter => at # "poll"))
      \/ UNCHANGED <<eventWaiter, pc>>
      \/ ~eventWaiter /\ nextEvent = <<>> /\ Mine(t, "wait_event")
  BY DEF ReadEvents, Goto, Sleep, Mine, Place
<1>4. CASE UNCHANGED eventWaiter /\ (\E at \in {"done", "poll"} : Mine(t, at)
                                      /\ (eventWaiter => at # "poll"))
  BY <1>1, <1>4, StreamMove
<1>5. CASE UNCHANGED <<eventWaiter, pc>>
  BY <1>1, <1>5, StreamStutter
<1>6. CASE ~eventWaiter /\ nextEvent = <<>> /\ Mine(t, "wait_event")
  <2>1. StreamTyped' /\ UNCHANGED Coming
    BY <1>1 DEF StreamSlot, StreamTyped, Coming
  <2>2. \A u \in Threads : ~Polls(u)
    BY <1>2 DEF ReaderInv, Locked, Polling, Polls, ClientAssumption
  <2>3. \A u \in Threads : pc'[u] = IF u = t THEN "wait_event" ELSE pc[u]
    BY <1>6 DEF Mine, ReaderInv, ThreadsTyped
  <2>4. Slot'
    BY <1>1, <1>6, <2>2, <2>3 DEF Slot, Polls
  <2>. QED
    BY <1>1, <2>1, <2>4 DEF StreamSlot, Passes
<1>. QED
  BY <1>3, <1>4, <1>5, <1>6

LEMMA EventArrivedEffect ==
  ASSUME ReaderInv, StreamSlot, NEW t \in Threads, EventArrived(t)
  PROVE  Passes
<1>1. eventWaiter
  BY DEF EventArrived, Runs, ReaderInv, EventReader
<1>2. StreamTyped' /\ UNCHANGED Coming /\ UNCHANGED wire
  BY <1>1, ArrivedComing DEF EventArrived, StreamSlot, Slot, toRead
<1>3. ~eventWaiter'
  BY DEF EventArrived
<1>. QED
  BY <1>2, <1>3 DEF StreamSlot, Passes, Slot

LEMMA DoneEffect ==
  ASSUME ReaderInv, StreamSlot, NEW t \in Threads, Done(t)
  PROVE  Passes
<1>1. Mine(t, "idle") /\ UNCHANGED <<nextEvent, xcbEvents, wire, eventWaiter>>
  BY DEF Done, Leave, Goto, Mine, Place, toRead
<1>. QED
  BY <1>1, StreamMove

LEMMA ReplyWaitEffect ==
  ASSUME ReaderInv, StreamSlot, NEW t \in Threads,
         ReplyLoop(t) \/ ReplyArrived(t) \/ AwaitEventReader(t)
  PROVE  Passes
<1>1. UNCHANGED <<nextEvent, xcbEvents, wire, eventWaiter>>
  BY DEF ReplyLoop, ReplyArrived, AwaitEventReader, toRead
<1>2. pc' = pc \/ \E at \in {"wait_reply", "events"} : Mine(t, at)
  BY DEF ReplyLoop, ReplyArrived, AwaitEventReader, Goto, Mine, Place
<1>. QED
  BY <1>1, <1>2, StreamMove, StreamStutter

LEMMA ReplyDoneEffect ==
  ASSUME ReaderInv, StreamSlot, NEW t \in Threads, HandOn(t) \/ ReturnReply(t)
  PROVE  Passes
<1>1. ~eventWaiter /\ Kept
  BY DEF HandOn, ReturnReply, Settled, EventsRead
<1>2. UNCHANGED <<wire, eventWaiter>>
  BY DEF HandOn, ReturnReply, Return, toRead
<1>3. \E at \in {"reply", "idle"} : Mine(t, at)
  BY DEF HandOn, ReturnReply, Return, Leave, Goto, Mine, Place
<1>. QED
  BY <1>1, <1>2, <1>3, KeptMove

LEMMA ReturnRefusedEffect ==
  ASSUME ReaderInv, StreamSlot, NEW t \in Threads, ReturnRefused(t)
  PROVE  Takes
<1>1. ~eventWaiter /\ Coming # <<>>
  BY DEF ReturnRefused, OwnError, Settled, EventsRead
<1>2. UNCHANGED <<wire, eventWaiter>> /\ nextEvent' = <<>> /\ xcbEvents' = Tail(Coming)
  BY DEF ReturnRefused, Return, toRead
<1>3. StreamTyped' /\ Coming' = Tail(Coming)
  BY <1>1, <1>2, TakenComing DEF StreamSlot
<1>. QED
  BY <1>1, <1>2, <1>3 DEF Takes, StreamSlot, Slot

\* The steps of a thread, by what they do to the queue.
ThreadPasses(t) ==
  \/ Enter(t) \/ Done(t) \/ PollForReply(t) \/ PolledReply(t) \/ PolledNothing(t)
  \/ NoResponse(t) \/ ReadEvents(t) \/ EventArrived(t) \/ ReplyLoop(t) \/ ReplyArrived(t)
  \/ AwaitEventReader(t) \/ HandOn(t) \/ ReturnReply(t)

\* A step that leaves the queue alone, one that takes its first event or error
\* away, and the steps that are not a thread's.
LEMMA Flow ==
  ASSUME ReaderInv, StreamSlot, [Next]_vars
  PROVE  \/ UNCHANGED vars /\ Passes
         \/ (\E why : End(why)) /\ Passes
         \/ \E t \in Threads : ThreadPasses(t) /\ Passes
         \/ \E t \in Threads : (TookEvent(t) \/ ReturnRefused(t)) /\ Takes
         \/ Read \/ Serve \/ Emit
<1>1. CASE UNCHANGED vars
  BY <1>1, StreamStutter DEF vars, toRead
<1>2. ASSUME NEW t \in Threads, ThreadPasses(t)
      PROVE  Passes
  BY <1>2, ClientAssumption, EnterEffect, DoneEffect, PollForReplyEffect, PolledReplyEffect,
     PolledNothingEffect, NoResponseEffect, ReadEventsEffect, EventArrivedEffect,
     ReplyWaitEffect, ReplyDoneEffect
  DEF ThreadPasses
<1>3. ASSUME NEW t \in Threads, ReturnRefused(t)
      PROVE  Takes
  BY <1>3, ReturnRefusedEffect
<1>4. ASSUME NEW t \in Threads, TakeEvent(t)
      PROVE  (TookEvent(t) /\ Takes) \/ ((\E why : End(why)) /\ Passes)
  BY <1>4, TakeEventEffect, EndEffect
<1>5. ASSUME NEW t \in Threads, ReplyEnds(t)
      PROVE  (\E why : End(why)) /\ Passes
  BY <1>5, EndEffect DEF ReplyEnds
<1>6. CASE \E t \in Threads : Enter(t) \/ Continue(t)
  <2>1. PICK t \in Threads :
          ThreadPasses(t) \/ ReturnRefused(t) \/ TakeEvent(t) \/ ReplyEnds(t)
    BY <1>6 DEF Continue, ThreadPasses
  <2>. QED
    BY <1>2, <1>3, <1>4, <1>5, <2>1
<1>. QED
  BY <1>1, <1>6 DEF Next

-----------------------------------------------------------------------------
(* What is on its way is in the order it was sent in. *)

Stream ==
  /\ Sorted(Coming) /\ Sorted(wire) /\ AllBefore(Coming, wire)
  /\ \A m \in ToSet(Coming) : m.kind # "reply"

InStream == ToSet(Coming) \cup ToSet(wire)

\* What libxcb makes of the messages it has read, up to the newest.
Digested(got, newest) ==
  /\ newest \in got
  /\ \A m \in got : m = newest \/ Before(m, newest)
  /\ read' = newest.seq
  /\ completed' = IF \E m \in got : IsError(m) /\ m.seq = newest.seq THEN newest.seq
                    ELSE IF newest.seq > read THEN newest.seq - 1 ELSE completed
  /\ replies' = replies \cup {m.seq : m \in {x \in got : x.kind = "reply"}}

\* The choice of what is read.
ReadTo(k, at) ==
  LET got    == SubSeq(wire, 1, k)
      newest == Last(got).seq
  IN  /\ wire' = SubSeq(wire, k + 1, Len(wire))
      /\ read' = newest
      /\ completed' =
           IF \E m \in ToSet(got) : IsError(m) /\ m.seq = newest THEN newest
             ELSE IF newest > read THEN newest - 1 ELSE completed
      /\ replies' = replies \cup {m.seq : m \in {x \in ToSet(got) : x.kind = "reply"}}
      /\ xcbEvents' = xcbEvents \o [i \in DOMAIN at |-> wire[at[i]]]

LEMMA ReadEffect ==
  ASSUME StreamSlot, Stream, Read
  PROVE  /\ StreamSlot' /\ Stream'
         /\ UNCHANGED <<lock, display, lastRead, nextEvent, eventWaiter, queue, serial, filled,
                        pc, asleep, thread, fate, sent, served, seen>>
         /\ \E got \in SUBSET Message, newest \in Message :
              /\ Digested(got, newest)
              /\ ToSet(Coming)' = ToSet(Coming) \cup {m \in got : m.kind # "reply"}
              /\ ToSet(wire) = got \cup ToSet(wire)'
              /\ \A m \in ToSet(Coming) : Before(m, newest)
              /\ \A m \in got, n \in ToSet(wire)' : Before(m, n)
<1>1. UNCHANGED <<lock, display, lastRead, nextEvent, eventWaiter, queue, serial, filled,
                  pc, asleep, thread, fate, sent, served, seen>>
  BY DEF Read
<1>2. PICK k \in 1 .. Len(wire) :
        \E at \in InOrder({i \in 1 .. k : wire[i].kind # "reply"}) :
          ReadTo(k, at)
  BY DEF Read, ReadTo
<1>20. PICK at \in InOrder({i \in 1 .. k : wire[i].kind # "reply"}) : ReadTo(k, at)
  BY <1>2
<1>. DEFINE e == [i \in DOMAIN at |-> wire[at[i]]]
            g == SubSeq(wire, 1, k)
            v == SubSeq(wire, k + 1, Len(wire))
<1>3. wire \in Seq(Message) /\ Coming \in Seq(Message) /\ nextEvent \in Seq(Message)
      /\ xcbEvents \in Seq(Message)
  BY ComingTyped DEF StreamSlot, StreamTyped
<1>4. Parts(wire, k, at, e, g, v)
  BY <1>3, ReadParts
<1>. DEFINE c == Coming
            w == wire
            got == ToSet(g)
            newest == wire[k]
<1>5. /\ wire' = v /\ read' = newest.seq
      /\ completed' = IF \E m \in got : IsError(m) /\ m.seq = newest.seq THEN newest.seq
                        ELSE IF newest.seq > read THEN newest.seq - 1 ELSE completed
      /\ replies' = replies \cup {m.seq : m \in {x \in got : x.kind = "reply"}}
      /\ xcbEvents' = xcbEvents \o e
  BY <1>20, <1>4 DEF ReadTo, Parts
<1>. HIDE DEF e, g, v
<1>6. /\ c \o e \in Seq(Message) /\ Sorted(c \o e) /\ Sorted(v) /\ AllBefore(c \o e, v)
      /\ ToSet(c \o e) = ToSet(c) \cup {m \in ToSet(g) : m.kind # "reply"}
      /\ ToSet(w) = ToSet(g) \cup ToSet(v)
      /\ \A m \in ToSet(g) : m = w[k] \/ Before(m, w[k])
      /\ \A m \in ToSet(g), n \in ToSet(v) : Before(m, n)
      /\ w[k] \in ToSet(g) /\ \A m \in ToSet(c) : Before(m, w[k])
  <2>1. /\ c \in Seq(Message) /\ w \in Seq(Message) /\ k \in 1 .. Len(w)
        /\ Sorted(c) /\ Sorted(w) /\ AllBefore(c, w)
    BY <1>3 DEF Stream
  <2>2. Parts(w, k, at, e, g, v)
    BY <1>4
  <2>. HIDE DEF c, w, got, newest
  <2>. QED
    BY <2>1, <2>2, ReadSorted
<1>7. Coming' = Coming \o e
  <2>1. Coming' = nextEvent \o (xcbEvents \o e)
    BY <1>1, <1>5 DEF Coming
  <2>3. nextEvent \in Seq(Message) /\ xcbEvents \in Seq(Message) /\ e \in Seq(Message)
    BY <1>3, <1>4 DEF Parts
  <2>. HIDE DEF c, w, got, newest
  <2>2. nextEvent \o (xcbEvents \o e) = (nextEvent \o xcbEvents) \o e
    BY SMTT(30), <2>3, ConcatAssociative
  <2>. QED
    BY <2>1, <2>2 DEF Coming
<1>8. StreamTyped'
  BY <1>1, <1>3, <1>4, <1>5, ConcatProperties DEF StreamTyped, StreamSlot, Parts
<1>9. Slot'
  BY <1>1 DEF StreamSlot, Slot, Polls
<1>10. Stream'
  BY <1>5, <1>6, <1>7 DEF Stream
<1>11. got \in SUBSET Message /\ newest \in Message
  <2>1. g \in [1 .. k -> Message]
    BY <1>4, LenProperties DEF Parts
  <2>. QED
    BY <1>3, <2>1, <1>6 DEF ToSet
<1>12. Digested(got, newest)
  BY <1>5, <1>6 DEF Digested
<1>13. /\ ToSet(Coming)' = ToSet(Coming) \cup {m \in got : m.kind # "reply"}
       /\ ToSet(wire) = got \cup ToSet(wire)'
       /\ \A m \in ToSet(Coming) : Before(m, newest)
       /\ \A m \in got, n \in ToSet(wire)' : Before(m, n)
  BY <1>5, <1>6, <1>7
<1>. QED
  BY <1>1, <1>8, <1>9, <1>10, <1>11, <1>12, <1>13 DEF StreamSlot

-----------------------------------------------------------------------------
(* The server: what it answers, and the numbers it sends. *)

Kind == {"void", "round_trip", "attributes", "geometry"}

\* The requests on their way are the last ones.
Numbered ==
  /\ sent \in Seq([seq : Nat, kind : Kind])
  /\ served \in Nat /\ FirstRequest <= served /\ request <= FirstRequest + MaxRequests
  /\ served + Len(sent) = request
  /\ \A i \in 1 .. Len(sent) : sent[i].seq = served + i
  /\ \A i \in 1 .. Len(pending) : FirstRequest < pending[i].seq

\* A request has one answer.
Recorded ==
  /\ emitted \in 0 .. MaxEvents
  /\ \A x \in answers : x.seq \in FirstRequest + 1 .. served /\ x.events \in 0 .. emitted
  /\ \A x, y \in answers : x.seq = y.seq => x = y

\* What is on its way was sent by the server, and an event that was sent before
\* an answer has a lower number.
Carried ==
  /\ \A m \in InStream : m.seq \in FirstRequest .. served
  /\ \A m \in InStream : m.kind = "event" =>
       m.id \in 1 .. emitted /\ \A x \in answers : m.id <= x.events => m.seq < x.seq
  /\ \A m \in InStream : m.kind # "event" =>
       \E x \in answers : x.seq = m.seq /\ x.kind = m.kind

AnsweredBy(n, kind) == \E x \in answers : x.seq = n /\ x.kind = kind

\* Libxcb has read the answer to request n and those before it.
Past(n) == n <= read /\ \A m \in ToSet(wire) : m.kind # "event" => n < m.seq

\* What libxcb has read, and what it makes of it.
ReadNumbers ==
  /\ read \in FirstRequest .. served /\ completed \in FirstRequest .. read
  /\ \A m \in ToSet(Coming) : m.seq <= read /\ (IsError(m) => m.seq <= completed)
  /\ \A m \in ToSet(wire) : read <= m.seq
  /\ Past(completed)
  /\ \A n \in replies : n \in Nat /\ Past(n) /\ AnsweredBy(n, "reply")

ServerInv == Stream /\ Numbered /\ Recorded /\ Carried /\ ReadNumbers

LEMMA InStreamTyped ==
  ASSUME StreamTyped
  PROVE  /\ InStream \subseteq Message
         /\ ToSet(Coming) \subseteq InStream /\ ToSet(wire) \subseteq InStream
<1>1. Coming \in Seq(Message) /\ wire \in Seq(Message)
  BY ComingTyped DEF StreamTyped
<1>2. ToSet(Coming) \subseteq Message
  BY <1>1, LenProperties, ElementOfSeq DEF ToSet
<1>3. ToSet(wire) \subseteq Message
  BY <1>1, LenProperties, ElementOfSeq DEF ToSet
<1>. QED
  BY <1>2, <1>3 DEF InStream

\* The first of the queue comes before all the others.
LEMMA TakesStream ==
  ASSUME StreamSlot, Stream, Takes
  PROVE  /\ Stream' /\ Head(Coming) \in ToSet(Coming)
         /\ ToSet(Coming) = {Head(Coming)} \cup ToSet(Coming)'
         /\ InStream = {Head(Coming)} \cup InStream'
         /\ \A m \in InStream' : Before(Head(Coming), m)
<1>. DEFINE c == Coming
<1>1. c \in Seq(Message) /\ c # <<>> /\ Coming' = Tail(c) /\ wire' = wire
      /\ wire \in Seq(Message) /\ Sorted(c) /\ AllBefore(c, wire)
  BY ComingTyped DEF StreamSlot, StreamTyped, Takes, Stream
<1>. HIDE DEF c
<1>2. /\ Head(c) \in ToSet(c) /\ Sorted(Tail(c)) /\ AllBefore(Tail(c), wire)
      /\ ToSet(c) = {Head(c)} \cup ToSet(Tail(c))
      /\ \A m \in ToSet(Tail(c)) : Before(Head(c), m)
      /\ \A i \in 1 .. Len(wire) : Before(Head(c), wire[i])
  BY <1>1, TailSorted
<1>3. \A m \in ToSet(wire) : Before(Head(c), m)
  BY <1>1, <1>2, LenProperties DEF ToSet
<1>. QED
  BY <1>1, <1>2, <1>3 DEF c, Stream, InStream

\* Whoever is before the first of the queue is before all of it.
LEMMA HeadFirst ==
  ASSUME StreamTyped, Stream, Coming # <<>>
  PROVE  /\ Head(Coming) \in ToSet(Coming)
         /\ \A m \in InStream : m = Head(Coming) \/ Before(Head(Coming), m)
<1>. DEFINE c == Coming
<1>1. c \in Seq(Message) /\ c # <<>> /\ wire \in Seq(Message) /\ Sorted(c) /\ AllBefore(c, wire)
  BY ComingTyped DEF StreamTyped, Stream
<1>. HIDE DEF c
<1>2. /\ Head(c) \in ToSet(c)
      /\ ToSet(c) = {Head(c)} \cup ToSet(Tail(c))
      /\ \A m \in ToSet(Tail(c)) : Before(Head(c), m)
      /\ \A i \in 1 .. Len(wire) : Before(Head(c), wire[i])
  BY <1>1, TailSorted
<1>3. \A m \in ToSet(wire) : Before(Head(c), m)
  BY <1>1, <1>2, LenProperties DEF ToSet
<1>. QED
  BY <1>2, <1>3 DEF c, InStream

\* What no thread does to the connection.
ThreadKeeps ==
  /\ UNCHANGED <<served, read, completed, answers, emitted>>
  /\ replies' \subseteq replies

LEMMA ServerKept ==
  ASSUME StreamSlot, Stream, Recorded, Carried, ReadNumbers, ThreadKeeps, Passes \/ Takes
  PROVE  /\ Stream' /\ Recorded' /\ Carried' /\ ReadNumbers'
         /\ InStream' \subseteq InStream /\ ToSet(Coming)' \subseteq ToSet(Coming)
         /\ ToSet(wire)' = ToSet(wire)
<1>1. Stream' /\ ToSet(Coming)' \subseteq ToSet(Coming) /\ ToSet(wire)' = ToSet(wire)
  <2>1. CASE Passes
    BY <2>1 DEF Passes, Stream
  <2>2. CASE Takes
    BY <2>2, TakesStream DEF Takes
  <2>. QED
    BY <2>1, <2>2
<1>2. InStream' \subseteq InStream
  BY <1>1 DEF InStream
<1>3. Recorded'
  BY DEF ThreadKeeps, Recorded
<1>4. Carried'
  BY <1>2 DEF ThreadKeeps, Carried
<1>5. ReadNumbers'
  BY <1>1 DEF ThreadKeeps, ReadNumbers, Past, AnsweredBy
<1>. QED
  BY <1>1, <1>2, <1>3, <1>4, <1>5

\* A message that the server sends later than all others goes to the end.
LEMMA Sends ==
  ASSUME StreamSlot, Stream, NEW m \in Message, \A x \in InStream : Before(x, m),
         wire' = Append(wire, m), UNCHANGED <<nextEvent, xcbEvents, eventWaiter, pc>>
  PROVE  /\ StreamSlot' /\ Stream' /\ UNCHANGED Coming
         /\ ToSet(wire)' = ToSet(wire) \cup {m} /\ InStream' = InStream \cup {m}
<1>. DEFINE c == Coming
<1>1. c \in Seq(Message) /\ wire \in Seq(Message) /\ Sorted(c) /\ Sorted(wire)
      /\ AllBefore(c, wire) /\ c' = c
  BY ComingTyped DEF StreamSlot, StreamTyped, Stream, Coming
<1>2. \A x \in ToSet(c) \cup ToSet(wire) : Before(x, m)
  BY DEF InStream
<1>. HIDE DEF c
<1>3. /\ Append(wire, m) \in Seq(Message)
      /\ Sorted(Append(wire, m)) /\ AllBefore(c, Append(wire, m))
      /\ ToSet(Append(wire, m)) = ToSet(wire) \cup {m}
  BY <1>1, <1>2, AppendSorted
<1>4. StreamSlot'
  BY <1>3 DEF StreamSlot, StreamTyped, Slot, Polls
<1>. QED
  BY <1>1, <1>3, <1>4 DEF c, Stream, InStream

\* The server answers the next request.
LEMMA ServeEffect ==
  ASSUME StreamSlot, PendingSent, ServerInv, Serve
  PROVE  /\ StreamSlot' /\ ServerInv' /\ UNCHANGED Coming
         /\ UNCHANGED <<lock, display, lastRead, nextEvent, eventWaiter, queue, serial, filled,
                        pc, asleep, thread, fate, xcbEvents, xcb, emitted, delivered,
                        overtaken, returned>>
         /\ sent' = Tail(sent) /\ Len(sent) > 0 /\ sent[1].seq = served + 1
         /\ \E a \in Answers(sent[1].kind) :
              InStream' = InStream \cup (IF a = "none" THEN {}
                                        ELSE {[kind |-> a, seq |-> served + 1, id |-> 0]})
              /\ ToSet(wire)' = ToSet(wire) \cup (IF a = "none" THEN {}
                                        ELSE {[kind |-> a, seq |-> served + 1, id |-> 0]})
         /\ answers \subseteq answers'
<1>1. PICK a \in Answers(Head(sent).kind) :
        /\ wire' = IF a = "none" THEN wire
                   ELSE Append(wire, [kind |-> a, seq |-> served', id |-> 0])
        /\ answers' = answers \cup {[seq |-> served', kind |-> a, events |-> emitted]}
  BY DEF Serve
<1>2. /\ sent # <<>> /\ sent' = Tail(sent) /\ served' = Head(sent).seq
      /\ UNCHANGED <<lock, display, lastRead, nextEvent, eventWaiter, queue, serial, filled,
                     pc, asleep, thread, fate, xcbEvents, xcb, emitted, delivered,
                     overtaken, returned>>
  BY DEF Serve
<1>3. /\ sent \in Seq([seq : Nat, kind : Kind]) /\ Len(sent) \in Nat /\ Len(sent) > 0
      /\ Head(sent) = sent[1] /\ Len(Tail(sent)) = Len(sent) - 1
      /\ Tail(sent) \in Seq([seq : Nat, kind : Kind])
      /\ \A i \in 1 .. Len(sent) - 1 : Tail(sent)[i] = sent[i + 1]
  BY <1>2, HeadTailProperties, EmptySeq, LenProperties DEF ServerInv, Numbered
<1>4. /\ served \in Nat /\ sent[1].seq = served + 1 /\ served' = served + 1
      /\ served' \in Nat /\ FirstRequest \in Nat /\ FirstRequest <= served
  BY <1>2, <1>3, ClientAssumption DEF ServerInv, Numbered
<1>5. a \in {"none", "reply", "refused", "bad"}
  BY <1>1 DEF Answers
<1>. DEFINE m == [kind |-> a, seq |-> served + 1, id |-> 0]
            x == [seq |-> served + 1, kind |-> a, events |-> emitted]
            new == IF a = "none" THEN {} ELSE {m}
<1>6. answers' = answers \cup {x} /\ wire' = IF a = "none" THEN wire ELSE Append(wire, m)
  BY <1>1, <1>4
<1>7. InStream \subseteq Message
  BY InStreamTyped DEF StreamSlot
<1>8. /\ \A n \in InStream : n.seq \in Nat /\ n.seq <= served
      /\ \A n \in InStream : n.kind = "event" => n.id \in Nat /\ n.id <= emitted
      /\ emitted \in Nat /\ emitted \in 0 .. MaxEvents
  BY <1>4, ClientAssumption DEF ServerInv, Carried, Recorded
<1>9. StreamSlot' /\ Stream' /\ UNCHANGED Coming
      /\ ToSet(wire)' = ToSet(wire) \cup new /\ InStream' = InStream \cup new
  <2>1. CASE a = "none"
    <3>1. wire' = wire
      BY <2>1, <1>6
    <3>. QED
      BY <2>1, <3>1, <1>2
      DEF StreamSlot, StreamTyped, Slot, Polls, ServerInv, Stream, Coming, InStream
  <2>2. CASE a # "none"
    <3>1. m \in Message
      BY <2>2, <1>4, <1>5, ClientAssumption DEF Message
    <3>2. \A n \in InStream : Before(n, m)
      BY <1>4, <1>5, <1>8, <2>2 DEF Before
    <3>. QED
      BY <1>2, <1>6, <2>2, <3>1, <3>2, Sends DEF ServerInv
  <2>. QED
    BY <2>1, <2>2
<1>10. Numbered'
  <2>1. /\ request' = request /\ pending' = pending /\ request \in Nat
        /\ served + Len(sent) = request /\ request <= FirstRequest + MaxRequests
        /\ \A i \in 1 .. Len(sent) : sent[i].seq = served + i
        /\ \A i \in 1 .. Len(pending) : FirstRequest < pending[i].seq
    BY <1>2 DEF ServerInv, Numbered, PendingSent, display
  <2>2. \A i \in 1 .. Len(sent) - 1 : Tail(sent)[i].seq = served' + i
    BY SMTT(30), <1>3, <1>4, <2>1
  <2>3. served' + Len(Tail(sent)) = request'
    BY <1>3, <1>4, <2>1
  <2>. QED
    BY <1>2, <1>3, <1>4, <2>1, <2>2, <2>3 DEF Numbered
<1>11. Recorded'
  <2>1. emitted' = emitted
    BY <1>2
  <2>2. \A y \in answers : y.seq \in FirstRequest + 1 .. served /\ y.events \in 0 .. emitted
    BY DEF ServerInv, Recorded
  <2>3. \A y \in answers' : y.seq \in FirstRequest + 1 .. served' /\ y.events \in 0 .. emitted
    BY <1>4, <1>6, <1>8, <2>2
  <2>4. \A y \in answers : y.seq # x.seq
    BY <1>4, <2>2
  <2>5. \A y, z \in answers' : y.seq = z.seq => y = z
    BY <1>6, <2>4 DEF ServerInv, Recorded
  <2>. QED
    BY <1>8, <2>1, <2>3, <2>5 DEF Recorded
<1>12. Carried'
  <2>1. /\ \A n \in InStream : n.seq \in FirstRequest .. served
        /\ \A n \in InStream : n.kind = "event" =>
             n.id \in 1 .. emitted /\ \A y \in answers : n.id <= y.events => n.seq < y.seq
        /\ \A n \in InStream : n.kind # "event" =>
             \E y \in answers : y.seq = n.seq /\ y.kind = n.kind
    BY DEF ServerInv, Carried
  <2>2. \A n \in InStream' : n.seq \in FirstRequest .. served'
    BY <1>4, <1>9, <2>1
  <2>3. \A n \in InStream' : n.kind = "event" => n \in InStream
    BY <1>5, <1>9
  <2>4. \A n \in InStream : n.seq < x.seq
    BY <1>4, <1>8
  <2>5. \A n \in InStream' : n.kind # "event" =>
          \E y \in answers' : y.seq = n.seq /\ y.kind = n.kind
    <3>. SUFFICES ASSUME NEW n \in InStream', n.kind # "event"
                  PROVE  \E y \in answers' : y.seq = n.seq /\ y.kind = n.kind
      OBVIOUS
    <3>1. CASE n \in InStream
      BY <1>6, <2>1, <3>1
    <3>2. CASE n \notin InStream
      <4>1. n = m
        BY <1>9, <3>2
      <4>2. x \in answers' /\ x.seq = n.seq /\ x.kind = n.kind
        BY <1>6, <4>1
      <4>. HIDE DEF x, m
      <4>. QED
        BY <4>2
    <3>. QED
      BY <3>1, <3>2
  <2>6. \A n \in InStream' : n.kind = "event" =>
          n.id \in 1 .. emitted /\ \A y \in answers' : n.id <= y.events => n.seq < y.seq
    BY <1>6, <2>1, <2>3, <2>4
  <2>. QED
    BY <1>2, <2>2, <2>5, <2>6 DEF Carried
<1>13. ReadNumbers'
  <2>1. UNCHANGED <<read, completed, replies, Coming>>
    BY <1>2, <1>9 DEF xcb
  <2>2. /\ read \in FirstRequest .. served /\ completed \in FirstRequest .. read
        /\ \A n \in ToSet(Coming) : n.seq <= read /\ (IsError(n) => n.seq <= completed)
        /\ \A n \in ToSet(wire) : read <= n.seq
        /\ Past(completed)
        /\ \A n \in replies : n \in Nat /\ Past(n) /\ AnsweredBy(n, "reply")
    BY DEF ServerInv, ReadNumbers
  <2>3. \A n \in new : n.seq = served + 1
    OBVIOUS
  <2>4. read \in Nat /\ read <= served /\ read \in FirstRequest .. served'
    BY <1>4, <2>2
  <2>5. ASSUME NEW n \in Nat, Past(n)
        PROVE  Past(n)'
    BY <1>4, <1>9, <2>1, <2>3, <2>4, <2>5 DEF Past
  <2>6. \A n \in ToSet(wire)' : read <= n.seq
    BY <1>4, <1>9, <2>2, <2>3, <2>4
  <2>7. completed \in Nat
    BY <1>4, <2>2
  <2>8. \A n \in replies : AnsweredBy(n, "reply")'
    BY <1>6, <2>2 DEF AnsweredBy
  <2>. QED
    BY <2>1, <2>2, <2>4, <2>5, <2>6, <2>7, <2>8 DEF ReadNumbers
<1>14. ServerInv'
  BY <1>9, <1>10, <1>11, <1>12, <1>13 DEF ServerInv
<1>. QED
  BY <1>1, <1>2, <1>3, <1>4, <1>6, <1>9, <1>14

\* The server sends an event.
LEMMA EmitEffect ==
  ASSUME StreamSlot, PendingSent, ServerInv, Emit
  PROVE  /\ StreamSlot' /\ ServerInv' /\ UNCHANGED Coming
         /\ UNCHANGED <<lock, display, lastRead, nextEvent, eventWaiter, queue, serial, filled,
                        pc, asleep, thread, fate, sent, served, xcbEvents, xcb, delivered,
                        overtaken, answers, returned>>
         /\ emitted' = emitted + 1
         /\ \E m \in Message :
              /\ m.kind = "event" /\ m.seq = served /\ m.id = emitted'
              /\ InStream' = InStream \cup {m} /\ ToSet(wire)' = ToSet(wire) \cup {m}
<1>1. /\ emitted < MaxEvents /\ emitted' = emitted + 1
      /\ wire' = Append(wire, [kind |-> "event", seq |-> served, id |-> emitted'])
      /\ UNCHANGED <<lock, display, lastRead, nextEvent, eventWaiter, queue, serial, filled,
                     pc, asleep, thread, fate, sent, served, xcbEvents, xcb, delivered,
                     overtaken, answers, returned>>
  BY DEF Emit
<1>. DEFINE m == [kind |-> "event", seq |-> served, id |-> emitted + 1]
<1>2. /\ served \in Nat /\ FirstRequest \in Nat /\ FirstRequest <= served
      /\ emitted \in Nat /\ emitted' \in 0 .. MaxEvents /\ MaxEvents \in Nat
  BY <1>1, ClientAssumption DEF ServerInv, Numbered, Recorded
<1>3. m \in Message /\ wire' = Append(wire, m)
  BY <1>1, <1>2 DEF Message
<1>4. /\ \A n \in InStream : n.seq \in Nat /\ n.seq <= served
      /\ \A n \in InStream : n.kind = "event" => n.id \in Nat /\ n.id <= emitted
  BY <1>2 DEF ServerInv, Carried
<1>5. \A n \in InStream : Before(n, m)
  BY <1>2, <1>4 DEF Before
<1>6. StreamSlot' /\ Stream' /\ UNCHANGED Coming
      /\ ToSet(wire)' = ToSet(wire) \cup {m} /\ InStream' = InStream \cup {m}
  <2>. HIDE DEF m
  <2>. QED
    BY <1>1, <1>3, <1>5, Sends DEF ServerInv
<1>7. Numbered'
  BY <1>1 DEF ServerInv, Numbered, display
<1>8. Recorded'
  <2>1. \A x \in answers : x.seq \in FirstRequest + 1 .. served /\ x.events \in 0 .. emitted
    BY DEF ServerInv, Recorded
  <2>2. \A x \in answers : x.events \in 0 .. emitted'
    BY <1>1, <1>2, <2>1
  <2>. QED
    BY <1>1, <1>2, <2>1, <2>2 DEF ServerInv, Recorded
<1>9. Carried'
  <2>1. /\ \A n \in InStream : n.seq \in FirstRequest .. served
        /\ \A n \in InStream : n.kind = "event" =>
             n.id \in 1 .. emitted /\ \A x \in answers : n.id <= x.events => n.seq < x.seq
        /\ \A n \in InStream : n.kind # "event" =>
             \E x \in answers : x.seq = n.seq /\ x.kind = n.kind
    BY DEF ServerInv, Carried
  <2>2. \A x \in answers : x.events \in 0 .. emitted
    BY DEF ServerInv, Recorded
  <2>3. m.seq \in FirstRequest .. served /\ m.id \in 1 .. emitted' /\ m.kind = "event"
    BY <1>1, <1>2
  <2>4. \A x \in answers : ~(m.id <= x.events)
    BY <1>2, <2>2
  <2>5. \A n \in InStream : n.kind = "event" => n.id \in 1 .. emitted'
    BY <1>1, <1>2, <2>1
  <2>. HIDE DEF m
  <2>6. answers' = answers /\ served' = served
    BY <1>1
  <2>7. \A n \in InStream' : n.seq \in FirstRequest .. served'
    BY <1>6, <2>1, <2>3, <2>6
  <2>8. \A n \in InStream' : n.kind = "event" =>
          n.id \in 1 .. emitted' /\ \A x \in answers : n.id <= x.events => n.seq < x.seq
    BY <1>6, <2>1, <2>3, <2>4, <2>5
  <2>9. \A n \in InStream' : n.kind # "event" =>
          \E x \in answers : x.seq = n.seq /\ x.kind = n.kind
    BY <1>6, <2>1, <2>3
  <2>. QED
    BY <2>6, <2>7, <2>8, <2>9 DEF Carried
<1>10. ReadNumbers'
  <2>1. m.kind = "event" /\ m.seq = served
    OBVIOUS
  <2>. HIDE DEF m
  <2>2. UNCHANGED <<read, completed, replies, Coming, answers, served>>
    BY <1>1, <1>6 DEF xcb
  <2>3. read <= served
    BY <1>2 DEF ServerInv, ReadNumbers
  <2>4. ASSUME NEW n, Past(n)
        PROVE  Past(n)'
    BY <1>6, <2>1, <2>2, <2>4 DEF Past
  <2>. QED
    BY <1>6, <2>1, <2>2, <2>3, <2>4 DEF ServerInv, ReadNumbers, AnsweredBy
<1>11. ServerInv'
  BY <1>6, <1>7, <1>8, <1>9, <1>10 DEF ServerInv
<1>12. m.kind = "event" /\ m.seq = served /\ m.id = emitted'
  BY <1>1
<1>. HIDE DEF m
<1>. QED
  BY <1>1, <1>3, <1>6, <1>11, <1>12

\* Libxcb reads: what was on the wire is in the queue or among the replies.
LEMMA ReadServer ==
  ASSUME StreamSlot, PendingSent, ServerInv, Read
  PROVE  /\ StreamSlot' /\ ServerInv'
         /\ UNCHANGED <<lock, display, lastRead, nextEvent, eventWaiter, queue, serial, filled,
                        pc, asleep, thread, fate, sent, served, seen>>
         /\ read <= read'
         /\ \E got \in SUBSET InStream :
              /\ InStream = InStream' \cup got
              /\ \A m \in got : m.kind # "reply" => m \in ToSet(Coming)'
              /\ \A m \in got : m.kind = "reply" => m.seq \in replies'
              /\ ToSet(wire) = got \cup ToSet(wire)'
              /\ ToSet(Coming)' = ToSet(Coming) \cup {m \in got : m.kind # "reply"}
              /\ replies' = replies \cup {m.seq : m \in {x \in got : x.kind = "reply"}}
<1>1. /\ StreamSlot' /\ Stream'
      /\ UNCHANGED <<lock, display, lastRead, nextEvent, eventWaiter, queue, serial, filled,
                     pc, asleep, thread, fate, sent, served, seen>>
  BY ReadEffect DEF ServerInv
<1>2. PICK got \in SUBSET Message, newest \in Message :
        /\ Digested(got, newest)
        /\ ToSet(Coming)' = ToSet(Coming) \cup {m \in got : m.kind # "reply"}
        /\ ToSet(wire) = got \cup ToSet(wire)'
        /\ \A m \in ToSet(Coming) : Before(m, newest)
        /\ \A m \in got, n \in ToSet(wire)' : Before(m, n)
  BY ReadEffect DEF ServerInv
<1>3. /\ got \subseteq InStream /\ InStream = InStream' \cup got
      /\ \A m \in got : m.kind # "reply" => m \in ToSet(Coming)'
  BY <1>2 DEF InStream
<1>4. /\ UNCHANGED <<answers, emitted, served, sent, request, pending>>
      /\ InStream' \subseteq InStream
  BY <1>1, <1>3 DEF seen, display
<1>5. Numbered' /\ Recorded' /\ Carried'
  BY <1>4 DEF ServerInv, Numbered, Recorded, Carried
<1>6. /\ newest \in got /\ read' = newest.seq
      /\ \A m \in got : m = newest \/ Before(m, newest)
      /\ completed' = IF \E m \in got : IsError(m) /\ m.seq = newest.seq THEN newest.seq
                        ELSE IF newest.seq > read THEN newest.seq - 1 ELSE completed
      /\ replies' = replies \cup {m.seq : m \in {x \in got : x.kind = "reply"}}
  BY <1>2 DEF Digested
<1>7. /\ FirstRequest \in Nat /\ served \in Nat /\ FirstRequest <= served
      /\ \A m \in InStream : m.seq \in FirstRequest .. served
      /\ read \in FirstRequest .. served /\ completed \in FirstRequest .. read
      /\ \A m \in ToSet(Coming) : m.seq <= read /\ (IsError(m) => m.seq <= completed)
      /\ \A m \in ToSet(wire) : read <= m.seq
      /\ Past(completed)
      /\ \A n \in replies : n \in Nat /\ Past(n) /\ AnsweredBy(n, "reply")
  BY ClientAssumption DEF ServerInv, Numbered, Carried, ReadNumbers
<1>8. newest.seq \in FirstRequest .. served /\ read <= newest.seq /\ newest \in ToSet(wire)
  BY <1>2, <1>3, <1>6, <1>7
<1>9. \A m \in got : m \in ToSet(wire) /\ m.seq \in Nat /\ m.seq <= newest.seq /\ read <= m.seq
  BY <1>2, <1>3, <1>6, <1>7 DEF Before
<1>10. ASSUME NEW n \in Nat, Past(n)
       PROVE  Past(n)'
  BY <1>2, <1>6, <1>7, <1>8, <1>10 DEF Past
<1>11. ASSUME NEW m \in got, m.kind # "event"
       PROVE  Past(m.seq)'
  BY <1>2, <1>6, <1>9, <1>11 DEF Past, Before
<1>12. ReadNumbers'
  <2>1. read' \in FirstRequest .. served'
    BY <1>4, <1>6, <1>8
  <2>2. \A m \in ToSet(wire)' : read' <= m.seq
    BY <1>2, <1>6 DEF Before
  <2>3. \A n \in replies' : n \in Nat /\ Past(n)' /\ AnsweredBy(n, "reply")'
    <3>. SUFFICES ASSUME NEW n \in replies'
                  PROVE  n \in Nat /\ Past(n)' /\ AnsweredBy(n, "reply")'
      OBVIOUS
    <3>1. CASE n \in replies
      BY <1>4, <1>7, <1>10, <3>1 DEF AnsweredBy
    <3>2. CASE n \notin replies
      <4>1. PICK m \in got : m.kind = "reply" /\ n = m.seq
        BY <1>6, <3>2
      <4>2. \E x \in answers : x.seq = m.seq /\ x.kind = m.kind
        BY <1>3, <4>1 DEF ServerInv, Carried
      <4>. QED
        BY <1>4, <1>9, <1>11, <4>1, <4>2 DEF AnsweredBy
    <3>. QED
      BY <3>1, <3>2
  <2>4. CASE \E m \in got : IsError(m) /\ m.seq = newest.seq
    <3>1. completed' = newest.seq
      BY <1>6, <2>4
    <3>2. Past(completed)'
      BY <1>11, <2>4, <3>1 DEF IsError
    <3>3. \A m \in ToSet(Coming)' : m.seq <= read' /\ (IsError(m) => m.seq <= completed')
      BY <1>2, <1>6, <1>9, <3>1 DEF Before
    <3>. QED
      BY <1>6, <1>8, <2>1, <2>2, <2>3, <3>1, <3>2, <3>3 DEF ReadNumbers
  <2>5. CASE ~(\E m \in got : IsError(m) /\ m.seq = newest.seq) /\ newest.seq > read
    <3>1. completed' = newest.seq - 1
      BY <1>6, <2>5
    <3>2. completed' \in FirstRequest .. read'
      BY <1>6, <1>7, <1>8, <2>5, <3>1
    <3>3. Past(completed)'
      BY <1>6, <1>7, <1>8, <2>2, <2>5, <3>1, <1>3 DEF Past, InStream
    <3>4. ASSUME NEW m \in ToSet(Coming)'
          PROVE  m.seq <= read' /\ (IsError(m) => m.seq <= completed')
      <4>1. CASE m \in ToSet(Coming)
        <5>1. m.seq <= read /\ m.seq \in Nat
          BY <1>7, <4>1 DEF InStream
        <5>. QED
          BY <1>6, <1>7, <1>8, <2>5, <3>1, <5>1
      <4>2. CASE m \in got
        <5>1. IsError(m) => m.seq # newest.seq
          BY <2>5, <4>2
        <5>. QED
          BY <1>6, <1>8, <1>9, <3>1, <4>2, <5>1
      <4>. QED
        BY <1>2, <4>1, <4>2
    <3>. QED
      BY <2>1, <2>2, <2>3, <3>2, <3>3, <3>4 DEF ReadNumbers
  <2>6. CASE ~(\E m \in got : IsError(m) /\ m.seq = newest.seq) /\ ~(newest.seq > read)
    <3>1. completed' = completed /\ read' = read
      BY <1>6, <1>7, <1>8, <2>6
    <3>2. Past(completed)'
      BY <1>7, <1>10, <3>1
    <3>3. ASSUME NEW m \in ToSet(Coming)'
          PROVE  m.seq <= read' /\ (IsError(m) => m.seq <= completed')
      <4>1. CASE m \in ToSet(Coming)
        BY <1>7, <3>1, <4>1
      <4>2. CASE m \in got
        <5>1. m.seq = newest.seq
          BY <1>7, <1>8, <1>9, <2>6, <4>2
        <5>. QED
          BY <1>6, <1>8, <2>6, <4>2, <5>1
      <4>. QED
        BY <1>2, <4>1, <4>2
    <3>. QED
      BY <1>7, <2>1, <2>2, <2>3, <3>1, <3>2, <3>3 DEF ReadNumbers
  <2>. QED
    BY <2>4, <2>5, <2>6
<1>13. ServerInv'
  BY <1>1, <1>5, <1>12 DEF ServerInv
<1>14. read <= read' /\ \A m \in got : m.kind = "reply" => m.seq \in replies'
  BY <1>6, <1>8
<1>. QED
  BY <1>1, <1>2, <1>3, <1>6, <1>13, <1>14

-----------------------------------------------------------------------------
(* The events: no thread loses one or takes it out of its turn. *)

LEMMA ThreadStepKeeps ==
  ASSUME NEW t \in Threads, ThreadPasses(t) \/ TookEvent(t) \/ ReturnRefused(t)
  PROVE  ThreadKeeps
<1>1. CASE Enter(t)
  BY <1>1 DEF Enter, Send, NextEvent, RoundTrip, ThreadKeeps, toRead, xcb, seen
<1>2. CASE Done(t) \/ PollForReply(t) \/ PolledReply(t) \/ PolledNothing(t)
  BY <1>2 DEF Done, PollForReply, PolledReply, PolledNothing, ThreadKeeps, toRead, xcb, seen
<1>3. CASE NoResponse(t) \/ ReadEvents(t) \/ EventArrived(t) \/ ReplyLoop(t)
  BY <1>3 DEF NoResponse, End, ReadEvents, EventArrived, ReplyLoop, ThreadKeeps, toRead, xcb, seen
<1>4. CASE ReplyArrived(t) \/ AwaitEventReader(t) \/ HandOn(t)
  BY <1>4 DEF ReplyArrived, AwaitEventReader, HandOn, ThreadKeeps, toRead, xcb, seen
<1>5. CASE ReturnReply(t) \/ ReturnRefused(t)
  BY <1>5 DEF ReturnReply, ReturnRefused, Return, ThreadKeeps, toRead, xcb
<1>6. CASE TookEvent(t)
  BY <1>6 DEF TookEvent, ThreadKeeps, toRead, xcb, seen
<1>. QED
  BY <1>1, <1>2, <1>3, <1>4, <1>5, <1>6 DEF ThreadPasses

LEMMA EndKeeps ==
  ASSUME NEW why, End(why)
  PROVE  ThreadKeeps
  BY DEF End, ThreadKeeps, toRead, xcb, seen

\* The loops that take events belong to the calls that look for events.
CallInv ==
  /\ call \in [Threads -> Call \cup {"none"}]
  /\ \A t \in Threads :
       pc[t] \in {"read", "wait_event", "poll", "poll_reply", "poll_queued"} =>
         call[t] \in {"send", "next_event"}
  /\ \A t \in Threads :
       pc[t] = "done" => call[t] = "send" \/ (call[t] = "next_event" /\ queue # <<>>)

CallMoves(t, at) ==
  /\ call' \in [Threads -> Call \cup {"none"}]
  /\ \A u \in Threads : u # t => call'[u] = call[u]
  /\ at \in {"read", "wait_event", "poll", "poll_reply", "poll_queued"} =>
       call'[t] \in {"send", "next_event"}
  /\ at = "done" => call'[t] = "send" \/ (call'[t] = "next_event" /\ queue' # <<>>)

\* No other thread is about to return, for it has the display locked.
LEMMA CallStep ==
  ASSUME ThreadsTyped, Locked, CallInv, ClientAssumption, NEW t, NEW at, Mine(t, at),
         lock \in {t, NoThread}, CallMoves(t, at)
  PROVE  CallInv'
<1>1. \A u \in Threads : pc'[u] = IF u = t THEN at ELSE pc[u]
  BY DEF Mine, ThreadsTyped
<1>2. \A u \in Threads : u # t => pc[u] # "done"
  BY DEF Locked, Polling, ClientAssumption
<1>. QED
  BY <1>1, <1>2 DEF CallInv, CallMoves

\* So is a thread that stays where it is.
LEMMA CallStutter ==
  ASSUME CallInv, UNCHANGED <<pc, call, queue>>
  PROVE  CallInv'
  BY DEF CallInv

LEMMA CallThread ==
  ASSUME ReaderInv, ClientAssumption, CallInv, queue \in Seq(1 .. MaxEvents),
         NEW t \in Threads, ThreadPasses(t) \/ TookEvent(t) \/ ReturnRefused(t)
  PROVE  CallInv'
<1>. USE DEF ReaderInv, Mine, Place, Goto
<1>1. ASSUME NEW at, Mine(t, at), Running /\ (lock \in {t, NoThread}), UNCHANGED call,
             at \in {"read", "wait_event", "poll", "poll_reply", "poll_queued", "done"} =>
               call[t] \in {"send", "next_event"},
             at = "done" => call[t] = "send" \/ queue' # <<>>
      PROVE  CallInv'
  <2>1. CallMoves(t, at)
    BY <1>1 DEF CallMoves, CallInv
  <2>. QED
    BY <1>1, <2>1, CallStep
<1>2. CASE Enter(t)
  <2>1. /\ lock = NoThread
        /\ \E c \in {"send", "next_event", "round_trip", "attributes"} :
             call' = [call EXCEPT ![t] = c]
    BY <1>2 DEF Enter, Send, NextEvent, RoundTrip, Begin
  <2>2. PICK at \in {"done", "poll", "read", "reply"} :
          /\ pc' = [pc EXCEPT ![t] = at]
          /\ at \in {"done", "poll", "read"} => call'[t] \in {"send", "next_event"}
          /\ at = "done" => call'[t] = "send" \/ (call'[t] = "next_event" /\ queue # <<>>)
    <3>1. CASE Send(t)
      BY <3>1 DEF Send, Begin, CallInv
    <3>2. CASE NextEvent(t)
      BY <3>2 DEF NextEvent, Begin, CallInv
    <3>3. CASE RoundTrip(t)
      BY <3>3 DEF RoundTrip, Begin, CallInv
    <3>. QED
      BY <1>2, <3>1, <3>2, <3>3 DEF Enter
  <2>3. queue' = queue
    BY <1>2 DEF Enter, Send, NextEvent, RoundTrip
  <2>4. CallMoves(t, at)
    BY <2>1, <2>2, <2>3 DEF CallMoves, CallInv, Call
  <2>. QED
    BY <2>1, <2>2, <2>4, CallStep
<1>3. CASE Done(t) \/ ReturnReply(t) \/ ReturnRefused(t)
  <2>1. /\ lock \in {t, NoThread} /\ pc' = [pc EXCEPT ![t] = "idle"]
        /\ call' = [call EXCEPT ![t] = "none"]
    BY <1>3 DEF Done, ReturnReply, ReturnRefused, Settled, EventsRead, Return, Leave, Runs
  <2>2. CallMoves(t, "idle")
    BY <2>1 DEF CallMoves, CallInv
  <2>. QED
    BY <2>1, <2>2, CallStep
<1>4. CASE PollForReply(t) \/ PolledReply(t) \/ PolledNothing(t)
  <2>1. /\ pc[t] \in {"poll", "poll_reply"} /\ Running /\ lock \in {t, NoThread}
        /\ UNCHANGED call
    BY <1>4 DEF PollForReply, PolledReply, PolledNothing, Runs, thread
  <2>2. \E at \in {"read", "poll", "poll_reply", "poll_queued"} : Mine(t, at)
    BY <1>4 DEF PollForReply, PolledReply, PolledNothing
  <2>3. call[t] \in {"send", "next_event"}
    BY <2>1 DEF CallInv
  <2>. QED
    BY <1>1, <2>1, <2>2, <2>3
<1>5. CASE NoResponse(t) \/ ReadEvents(t)
  <2>1. /\ pc[t] \in {"poll", "poll_queued", "read"} /\ Running /\ lock \in {t, NoThread}
        /\ UNCHANGED <<call, queue>>
    BY <1>5 DEF NoResponse, End, ReadEvents, Runs, thread
  <2>2. call[t] \in {"send", "next_event"}
    BY <2>1 DEF CallInv
  <2>3. \/ UNCHANGED pc
        \/ \E at \in {"read", "poll", "wait_event"} : Mine(t, at)
        \/ Mine(t, "done") /\ Drains(t)
    BY <1>5 DEF NoResponse, End, ReadEvents
  <2>4. CASE UNCHANGED pc
    BY <2>1, <2>4, CallStutter
  <2>5. CASE \E at \in {"read", "poll", "wait_event"} : Mine(t, at)
    BY <1>1, <2>1, <2>2, <2>5
  <2>6. CASE Mine(t, "done") /\ Drains(t)
    BY <1>1, <2>1, <2>2, <2>6 DEF Drains
  <2>. QED
    BY <2>3, <2>4, <2>5, <2>6
<1>6. CASE EventArrived(t)
  <2>1. /\ pc[t] = "wait_event" /\ Running /\ lock \in {t, NoThread} /\ UNCHANGED call
        /\ Mine(t, "poll")
    BY <1>6 DEF EventArrived, Runs, thread
  <2>. QED
    BY <1>1, <2>1 DEF CallInv
<1>7. CASE ReplyLoop(t) \/ ReplyArrived(t) \/ AwaitEventReader(t) \/ HandOn(t)
  <2>1. /\ Running /\ lock \in {t, NoThread} /\ UNCHANGED <<call, queue>>
        /\ UNCHANGED pc \/ \E at \in {"wait_reply", "events", "reply"} : Mine(t, at)
    BY <1>7 DEF ReplyLoop, ReplyArrived, AwaitEventReader, HandOn, Settled, EventsRead, Runs,
                thread
  <2>. QED
    BY <1>1, <2>1, CallStutter
<1>8. CASE TookEvent(t)
  <2>1. /\ Running /\ lock \in {t, NoThread} /\ pc[t] \in {"poll", "poll_queued", "events"}
        /\ UNCHANGED call /\ Mine(t, IF pc[t] = "events" THEN "events" ELSE "poll")
    BY <1>8 DEF TookEvent, Runs, thread
  <2>2. pc[t] # "events" => call[t] \in {"send", "next_event"}
    BY <2>1 DEF CallInv
  <2>. QED
    BY <1>1, <2>1, <2>2
<1>. QED
  BY <1>2, <1>3, <1>4, <1>5, <1>6, <1>7, <1>8 DEF ThreadPasses

Upto(n) == [k \in 1 .. n |-> k]

EventIds(ms) == {m.id : m \in {x \in ms : x.kind = "event"}}

\* The events given to the program, those queued for it and those on their way
\* are all there are, in the order they were sent in.
CountInv ==
  /\ queue \in Seq(1 .. MaxEvents) /\ delivered \in Seq(1 .. MaxEvents)
  /\ serial \in 1 .. emitted + 1
  /\ delivered \o queue = Upto(serial - 1)
  /\ EventIds(InStream) = serial .. emitted

LEMMA QueuedNext ==
  ASSUME NEW S, NEW d \in Seq(S), NEW q \in Seq(S), NEW n \in Nat \ {0}, n \in S,
         d \o q = Upto(n - 1)
  PROVE  d \o Append(q, n) = Upto((n + 1) - 1)
<1>1. /\ Len(d) \in Nat /\ Len(q) \in Nat /\ Append(q, n) \in Seq(S)
      /\ Len(Append(q, n)) = Len(q) + 1
      /\ \A i \in 1 .. Len(q) : Append(q, n)[i] = q[i]
      /\ Append(q, n)[Len(q) + 1] = n
  BY AppendProperties, LenProperties
<1>2. /\ d \o q \in Seq(S) /\ Len(d \o q) = Len(d) + Len(q)
      /\ DOMAIN (d \o q) = 1 .. Len(d) + Len(q)
      /\ \A i \in 1 .. Len(d) + Len(q) : (d \o q)[i] = IF i <= Len(d) THEN d[i] ELSE q[i - Len(d)]
  <2>1. /\ d \o q \in Seq(S) /\ Len(d \o q) = Len(d) + Len(q)
        /\ \A i \in 1 .. Len(d) + Len(q) :
             (d \o q)[i] = IF i <= Len(d) THEN d[i] ELSE q[i - Len(d)]
    BY ConcatProperties
  <2>2. DOMAIN (d \o q) = 1 .. Len(d \o q)
    BY <2>1, LenProperties
  <2>. QED
    BY <2>1, <2>2
<1>3. Len(d) + Len(q) = n - 1
  <2>1. DOMAIN (d \o q) = 1 .. n - 1
    BY DEF Upto
  <2>2. 1 .. Len(d) + Len(q) = 1 .. n - 1
    BY <1>2, <2>1
  <2>. QED
    BY <1>1, <2>2
<1>. DEFINE r == Append(q, n)
<1>4. /\ d \o r \in Seq(S) /\ Len(d \o r) = n
      /\ DOMAIN (d \o r) = 1 .. n
      /\ \A i \in 1 .. n : (d \o r)[i] = IF i <= Len(d) THEN d[i] ELSE r[i - Len(d)]
  <2>1. r \in Seq(S) /\ Len(r) = Len(q) + 1
    BY <1>1
  <2>. HIDE DEF r
  <2>2. /\ d \o r \in Seq(S) /\ Len(d \o r) = Len(d) + Len(r)
        /\ \A i \in 1 .. Len(d) + Len(r) :
             (d \o r)[i] = IF i <= Len(d) THEN d[i] ELSE r[i - Len(d)]
    BY <2>1, ConcatProperties
  <2>3. DOMAIN (d \o r) = 1 .. Len(d \o r)
    BY <2>2, LenProperties
  <2>4. Len(d) + Len(r) = n
    BY <1>1, <1>3, <2>1
  <2>. QED
    BY <2>2, <2>3, <2>4
<1>5. /\ \A i \in 1 .. Len(q) : r[i] = q[i]
      /\ r[Len(q) + 1] = n
  BY <1>1
<1>. HIDE DEF r
<1>6. ASSUME NEW i \in 1 .. n
      PROVE  (d \o r)[i] = i
  <2>1. CASE i <= Len(d)
    <3>1. i \in 1 .. Len(d) + Len(q) /\ i \in 1 .. n - 1
      BY <1>1, <1>3, <2>1
    <3>2. (d \o q)[i] = i
      BY <3>1 DEF Upto
    <3>. QED
      BY <1>2, <1>4, <2>1, <3>1, <3>2
  <2>2. CASE ~(i <= Len(d)) /\ i # n
    <3>1. i \in 1 .. Len(d) + Len(q) /\ i \in 1 .. n - 1 /\ i - Len(d) \in 1 .. Len(q)
      BY <1>1, <1>3, <2>2
    <3>2. (d \o q)[i] = i
      BY <3>1 DEF Upto
    <3>. QED
      BY <1>2, <1>4, <1>5, <2>2, <3>1, <3>2
  <2>3. CASE ~(i <= Len(d)) /\ i = n
    <3>1. i - Len(d) = Len(q) + 1
      BY <1>1, <1>3, <2>3
    <3>. QED
      BY <1>4, <1>5, <2>3, <3>1
  <2>. QED
    BY <2>1, <2>2, <2>3
<1>7. d \o r = [i \in 1 .. n |-> i]
  <2>. DEFINE b == d \o r
  <2>2. b \in Seq(S) /\ Len(b) = n
    BY <1>4
  <2>. HIDE DEF b
  <2>3. b \in [1 .. n -> S]
    BY <2>2, LenProperties
  <2>4. b = [i \in 1 .. n |-> b[i]]
    BY <2>3
  <2>1. d \o r = [i \in 1 .. n |-> (d \o r)[i]]
    BY <2>4 DEF b
  <2>. QED
    BY <1>6, <2>1
<1>8. (n + 1) - 1 = n
  OBVIOUS
<1>. QED
  BY <1>7, <1>8 DEF Upto, r

LEMMA GivenFirst ==
  ASSUME NEW S, NEW d \in Seq(S), NEW q \in Seq(S), q # <<>>
  PROVE  /\ Tail(q) \in Seq(S) /\ Append(d, Head(q)) \in Seq(S)
         /\ Append(d, Head(q)) \o Tail(q) = d \o q
<1>. DEFINE h == Head(q)
            r == Tail(q)
<1>1. h \in S /\ r \in Seq(S) /\ q = <<h>> \o r
  BY HeadTailProperties
<1>. HIDE DEF h, r
<1>2. <<h>> \in Seq(S) /\ Append(d, h) \in Seq(S) /\ Append(d, h) = d \o <<h>>
  BY <1>1, AppendProperties
<1>3. (d \o <<h>>) \o r = d \o (<<h>> \o r)
  BY <1>1, <1>2, ConcatAssociative
<1>. QED
  BY <1>1, <1>2, <1>3 DEF h, r

-----------------------------------------------------------------------------
(* Requests: which are new, and which are still pending. *)

\* Requests of these kinds have been sent.
Submitted(kinds) ==
  /\ request' = request + Len(kinds) /\ request' <= FirstRequest + MaxRequests
  /\ sent' \in Seq([seq : Nat, kind : Kind]) /\ Len(sent') = Len(sent) + Len(kinds)
  /\ \A i \in 1 .. Len(sent) : sent'[i] = sent[i]
  /\ \A k \in 1 .. Len(kinds) : sent'[Len(sent) + k] = [seq |-> request + k, kind |-> kinds[k]]
  /\ PendingKept
  /\ \A i \in 1 .. Len(pending') :
       i <= Len(pending) \/ (pending'[i].seq \in Nat /\ pending'[i].seq > request)

LEMMA SubmitEffect ==
  ASSUME PendingSent, Numbered, NEW t, NEW kinds \in Seq(Kind), NEW noted \in Seq(Request),
         Submit(t, kinds, noted),
         \A i \in 1 .. Len(noted) : noted[i].seq > request /\ noted[i].seq <= request + Len(kinds),
         \A i, j \in 1 .. Len(noted) : i < j => noted[i].seq < noted[j].seq
  PROVE  /\ Submitted(kinds)
         /\ Len(noted) \in Nat /\ Len(pending') = Len(pending) + Len(noted)
         /\ \A i \in 1 .. Len(noted) : pending'[Len(pending) + i] = noted[i]
<1>. DEFINE new == [k \in 1 .. Len(kinds) |-> [seq |-> request + k, kind |-> kinds[k]]]
            R == [seq : Nat, kind : Kind]
<1>1. /\ request + Len(kinds) <= FirstRequest + MaxRequests /\ request' = request + Len(kinds)
      /\ sent' = sent \o new /\ pending' = pending \o noted
  BY DEF Submit
<1>2. /\ Len(kinds) \in Nat /\ request \in Nat /\ \A k \in 1 .. Len(kinds) : kinds[k] \in Kind
  BY LenProperties, ElementOfSeq DEF PendingSent
<1>3. /\ new \in Seq(R) /\ Len(new) = Len(kinds)
      /\ \A k \in 1 .. Len(kinds) : new[k] = [seq |-> request + k, kind |-> kinds[k]]
  <2>1. new \in [1 .. Len(kinds) -> R]
    BY <1>2
  <2>. QED
    BY <1>2, <2>1
<1>. HIDE DEF new
<1>4. /\ sent \in Seq(R) /\ Len(sent) \in Nat
  BY LenProperties DEF Numbered
<1>. HIDE DEF R
<1>5. /\ sent \o new \in Seq(R) /\ Len(sent \o new) = Len(sent) + Len(kinds)
      /\ \A i \in 1 .. Len(sent) + Len(kinds) :
           (sent \o new)[i] = IF i <= Len(sent) THEN sent[i] ELSE new[i - Len(sent)]
  <2>1. sent \in Seq(R) /\ new \in Seq(R)
    BY <1>3, <1>4
  <2>2. /\ sent \o new \in Seq(R) /\ Len(sent \o new) = Len(sent) + Len(new)
        /\ \A i \in 1 .. Len(sent) + Len(new) :
             (sent \o new)[i] = IF i <= Len(sent) THEN sent[i] ELSE new[i - Len(sent)]
    BY <2>1, ConcatProperties
  <2>. QED
    BY <1>3, <2>2
<1>6. /\ sent' \in Seq(R) /\ Len(sent') = Len(sent) + Len(kinds)
      /\ \A i \in 1 .. Len(sent) + Len(kinds) :
           sent'[i] = IF i <= Len(sent) THEN sent[i] ELSE new[i - Len(sent)]
  BY <1>1, <1>5
<1>7. \A i \in 1 .. Len(sent) : sent'[i] = sent[i]
  BY <1>2, <1>4, <1>6
<1>8. ASSUME NEW k \in 1 .. Len(kinds)
      PROVE  sent'[Len(sent) + k] = [seq |-> request + k, kind |-> kinds[k]]
  <2>1. /\ Len(sent) + k \in 1 .. Len(sent) + Len(kinds) /\ ~(Len(sent) + k <= Len(sent))
        /\ (Len(sent) + k) - Len(sent) = k
    BY <1>2, <1>4
  <2>. QED
    BY <1>3, <1>6, <2>1
<1>9. /\ PendingKept /\ Len(noted) \in Nat /\ Len(pending') = Len(pending) + Len(noted)
      /\ \A i \in 1 .. Len(noted) : pending'[Len(pending) + i] = noted[i]
  BY <1>1, <1>2, Noted
<1>10. ASSUME NEW i \in 1 .. Len(pending'), ~(i <= Len(pending))
       PROVE  pending'[i].seq \in Nat /\ pending'[i].seq > request
  <2>1. /\ i - Len(pending) \in 1 .. Len(noted) /\ Len(pending) + (i - Len(pending)) = i
    BY <1>9, <1>10 DEF PendingKept
  <2>2. pending'[i] = noted[i - Len(pending)]
    BY <1>9, <2>1
  <2>3. noted[i - Len(pending)] \in Request
    BY <2>1, ElementOfSeq
  <2>4. noted[i - Len(pending)].seq \in Nat
    BY <2>3 DEF Request
  <2>. QED
    BY <2>1, <2>2, <2>4
<1>. QED
  BY <1>1, <1>6, <1>7, <1>8, <1>9, <1>10 DEF Submitted, R

\* What a call sends when it begins.
LEMMA EnterSubmits ==
  ASSUME ReaderInv, Numbered, NEW t \in Threads, Enter(t)
  PROVE  \/ NextEvent(t) /\ UNCHANGED <<request, pending, sent>>
         \/ Send(t) /\ Submitted(<<"void">>)
         \/ /\ RoundTrip(t) /\ Submitted(<<"round_trip">>)
            /\ call' = [call EXCEPT ![t] = "round_trip"] /\ request' = request + 1
         \/ /\ RoundTrip(t) /\ Submitted(<<"attributes", "geometry">>)
            /\ call' = [call EXCEPT ![t] = "attributes"] /\ request' = request + 2
            /\ Len(pending) + 1 \in 1 .. Len(pending')
            /\ pending'[Len(pending) + 1].seq = request + 1
<1>. DEFINE free(k) == [seq |-> request + k, waiter |-> FALSE]
            kept(k) == [seq |-> request + k, waiter |-> TRUE]
<1>1. PendingSent /\ request \in Nat
  BY DEF ReaderInv, PendingSent
<1>2. /\ free(1) \in Request /\ free(1).seq = request + 1
      /\ kept(1) \in Request /\ kept(1).seq = request + 1
      /\ kept(2) \in Request /\ kept(2).seq = request + 2
  BY <1>1 DEF Request
<1>3. CASE NextEvent(t)
  BY <1>3 DEF NextEvent, display, toRead
<1>4. CASE Send(t)
  <2>1. PICK noted \in {<<>>, <<free(1)>>} : Submit(t, <<"void">>, noted)
    BY <1>4 DEF Send
  <2>. HIDE DEF free
  <2>2. /\ noted \in Seq(Request) /\ \A i \in 1 .. Len(noted) : i = 1 /\ noted[i] = free(1)
    <3>1. CASE noted = <<>>
      BY <3>1
    <3>2. CASE noted = <<free(1)>>
      <4>1. noted \in Seq(Request) /\ Len(noted) = 1 /\ noted[1] = free(1)
        BY <1>2, <3>2
      <4>. QED
        BY <4>1
    <3>. QED
      BY <3>1, <3>2
  <2>. DEFINE kinds == <<"void">>
  <2>3. kinds \in Seq(Kind) /\ Len(kinds) = 1 /\ Submit(t, kinds, noted)
    BY <2>1 DEF Kind
  <2>. HIDE DEF kinds
  <2>4. /\ \A i \in 1 .. Len(noted) : noted[i].seq > request /\ noted[i].seq <= request + Len(kinds)
        /\ \A i, j \in 1 .. Len(noted) : i < j => noted[i].seq < noted[j].seq
    BY <1>1, <1>2, <2>2, <2>3
  <2>5. Submitted(kinds)
    BY <1>1, <2>2, <2>3, <2>4, SubmitEffect
  <2>. QED
    BY <1>4, <2>5 DEF kinds
<1>5. CASE RoundTrip(t)
  <2>1. \/ Submit(t, <<"round_trip">>, <<kept(1)>>) /\ call' = [call EXCEPT ![t] = "round_trip"]
        \/ /\ Submit(t, <<"attributes", "geometry">>, <<free(1), kept(2)>>)
           /\ call' = [call EXCEPT ![t] = "attributes"]
    BY <1>5 DEF RoundTrip, Begin
  <2>. HIDE DEF free, kept
  <2>2. CASE Submit(t, <<"round_trip">>, <<kept(1)>>) /\ call' = [call EXCEPT ![t] = "round_trip"]
    <3>. DEFINE kinds == <<"round_trip">>
                noted == <<kept(1)>>
    <3>1. kinds \in Seq(Kind) /\ Len(kinds) = 1 /\ Submit(t, kinds, noted)
      BY <2>2 DEF Kind
    <3>2. noted \in Seq(Request) /\ Len(noted) = 1 /\ noted[1] = kept(1)
      BY <1>2
    <3>. HIDE DEF kinds, noted
    <3>3. /\ \A i \in 1 .. Len(noted) : noted[i].seq > request /\ noted[i].seq <= request + Len(kinds)
          /\ \A i, j \in 1 .. Len(noted) : i < j => noted[i].seq < noted[j].seq
      BY <1>1, <1>2, <3>1, <3>2
    <3>4. Submitted(kinds)
      BY <1>1, <3>1, <3>2, <3>3, SubmitEffect
    <3>5. request' = request + 1
      BY <3>1, <3>4 DEF Submitted
    <3>. QED
      BY <1>5, <2>2, <3>4, <3>5 DEF kinds
  <2>3. CASE /\ Submit(t, <<"attributes", "geometry">>, <<free(1), kept(2)>>)
             /\ call' = [call EXCEPT ![t] = "attributes"]
    <3>. DEFINE kinds == <<"attributes", "geometry">>
                noted == <<free(1), kept(2)>>
    <3>1. kinds \in Seq(Kind) /\ Len(kinds) = 2 /\ Submit(t, kinds, noted)
      BY <2>3 DEF Kind
    <3>2. /\ noted \in Seq(Request) /\ Len(noted) = 2 /\ noted[1] = free(1)
          /\ noted[2] = kept(2)
      BY <1>2
    <3>. HIDE DEF kinds, noted
    <3>3. \A i \in 1 .. Len(noted) : i = 1 \/ i = 2
      BY <3>2
    <3>4. \A i \in 1 .. Len(noted) : noted[i].seq > request /\ noted[i].seq <= request + Len(kinds)
      BY <1>1, <1>2, <3>1, <3>2, <3>3
    <3>5. \A i, j \in 1 .. Len(noted) : i < j => noted[i].seq < noted[j].seq
      BY <1>1, <1>2, <3>1, <3>2, <3>3
    <3>6. /\ Submitted(kinds) /\ Len(noted) \in Nat /\ Len(pending') = Len(pending) + Len(noted)
          /\ \A i \in 1 .. Len(noted) : pending'[Len(pending) + i] = noted[i]
      BY <1>1, <3>1, <3>2, <3>4, <3>5, SubmitEffect
    <3>7. Len(pending') = Len(pending) + 2 /\ pending'[Len(pending) + 1] = free(1)
      BY <3>2, <3>6
    <3>8. Len(pending) + 1 \in 1 .. Len(pending') /\ request' = request + 2
      BY <1>1, <3>1, <3>6, <3>7, Requests DEF Submitted
    <3>. QED
      BY <1>2, <1>5, <2>3, <3>6, <3>7, <3>8 DEF kinds
  <2>. QED
    BY <2>1, <2>2, <2>3
<1>. QED
  BY <1>3, <1>4, <1>5 DEF Enter

\* No new request is pending.
NoneNew == \A i \in 1 .. Len(pending') : \E j \in 1 .. Len(pending) :
             pending'[i].seq = pending[j].seq

LEMMA HeadNoneNew ==
  ASSUME PendingSent, pending # <<>>, NEW b \in BOOLEAN,
         pending' \in {Tail(pending), [pending EXCEPT ![1].waiter = b]}
  PROVE  NoneNew
<1>1. Len(pending) \in Nat
  BY Requests
<1>2. CASE pending' = Tail(pending)
  <2>1. /\ Len(pending') = Len(pending) - 1
        /\ \A i \in 1 .. Len(pending) - 1 : pending'[i] = pending[i + 1]
    BY <1>2, Dequeue
  <2>2. \A i \in 1 .. Len(pending') : i + 1 \in 1 .. Len(pending) /\ pending'[i] = pending[i + 1]
    BY <1>1, <2>1
  <2>. QED
    BY <2>2 DEF NoneNew
<1>3. CASE pending' = [pending EXCEPT ![1].waiter = b]
  <2>1. /\ Len(pending') = Len(pending)
        /\ pending'[1] = [seq |-> pending[1].seq, waiter |-> b]
        /\ \A i \in 1 .. Len(pending) : i # 1 => pending'[i] = pending[i]
    BY <1>3, Mark
  <2>2. \A i \in 1 .. Len(pending) : pending'[i].seq = pending[i].seq
    BY <2>1
  <2>. QED
    BY <2>1, <2>2 DEF NoneNew
<1>. QED
  BY <1>2, <1>3

\* What a thread does to the requests when it is in a call.
LEMMA NothingNew ==
  ASSUME ReaderInv, ClientAssumption, NEW t \in Threads, ~Enter(t),
         ThreadPasses(t) \/ TookEvent(t) \/ ReturnRefused(t)
  PROVE  NoneNew /\ UNCHANGED <<request, sent>>
<1>1. ASSUME UNCHANGED pending PROVE NoneNew
  BY <1>1 DEF NoneNew
<1>2. CASE Done(t) \/ PollForReply(t) \/ PolledNothing(t) \/ TookEvent(t)
  BY <1>1, <1>2 DEF Done, PollForReply, PolledNothing, TookEvent, display, toRead
<1>3. CASE NoResponse(t) \/ ReadEvents(t) \/ EventArrived(t)
  BY <1>1, <1>3 DEF NoResponse, End, ReadEvents, EventArrived, display, toRead
<1>4. CASE ReplyArrived(t) \/ AwaitEventReader(t)
  BY <1>1, <1>4 DEF ReplyArrived, AwaitEventReader, display, toRead
<1>5. CASE PolledReply(t)
  <2>1. pending # <<>> /\ PendingSent
    BY <1>5, EmptySeq DEF PolledReply, Runs, ReaderInv, Polled
  <2>2. UNCHANGED <<request, sent>> /\ (pending' = pending \/ pending' = Tail(pending))
    BY <1>5 DEF PolledReply, toRead
  <2>. QED
    BY <1>1, <2>1, <2>2, HeadNoneNew
<1>6. CASE ReplyLoop(t)
  <2>1. Wants(t)
    BY <1>6 DEF ReplyLoop, Runs, Wants
  <2>2. pending # <<>> /\ PendingSent
    <3>1. PICK i \in 1 .. Len(pending) : pending[i] = [seq |-> current[t], waiter |-> TRUE]
      BY <2>1 DEF ReaderInv, Wanted
    <3>2. Len(pending) # 0
      BY <3>1, Requests DEF ReaderInv
    <3>. QED
      BY <3>2, EmptySeq DEF ReaderInv
  <2>3. /\ UNCHANGED <<request, sent>>
        /\ pending' = pending \/ pending' = [pending EXCEPT ![1].waiter = TRUE]
    BY <1>6 DEF ReplyLoop, toRead
  <2>. QED
    BY <1>1, <2>2, <2>3, HeadNoneNew
<1>7. CASE HandOn(t) \/ ReturnReply(t) \/ ReturnRefused(t)
  <2>1. Settled(t) /\ UNCHANGED <<request, sent>>
    BY <1>7 DEF HandOn, ReturnReply, ReturnRefused, Return, toRead
  <2>2. HeadSettled(t) /\ PendingSent
    BY <2>1, SettledHead DEF ReaderInv
  <2>3. pending # <<>> /\ pending' \in {Tail(pending), [pending EXCEPT ![1].waiter = FALSE]}
    BY <2>2 DEF HeadSettled
  <2>. QED
    BY <2>1, <2>2, <2>3, HeadNoneNew
<1>. QED
  BY <1>2, <1>3, <1>4, <1>5, <1>6, <1>7 DEF ThreadPasses

LEMMA NumberedThread ==
  ASSUME ReaderInv, ClientAssumption, Numbered, NEW t \in Threads,
         ThreadPasses(t) \/ TookEvent(t) \/ ReturnRefused(t)
  PROVE  Numbered'
<1>1. served' = served
  BY ThreadStepKeeps DEF ThreadKeeps
<1>2. ASSUME NoneNew, UNCHANGED <<request, sent>>
      PROVE  Numbered'
  BY <1>1, <1>2 DEF Numbered, NoneNew
<1>3. ASSUME NEW kinds \in Seq(Kind), Submitted(kinds)
      PROVE  Numbered'
  <2>1. /\ served \in Nat /\ FirstRequest \in Nat /\ FirstRequest <= served
        /\ Len(sent) \in Nat /\ Len(kinds) \in Nat /\ request \in Nat
        /\ served + Len(sent) = request
    BY LenProperties, ClientAssumption DEF Numbered, ReaderInv, PendingSent
  <2>5. \A i \in 1 .. Len(sent) : sent[i].seq = served + i
    BY DEF Numbered
  <2>2. ASSUME NEW i \in 1 .. Len(sent')
        PROVE  sent'[i].seq = served + i
    <3>1. CASE i \in 1 .. Len(sent)
      BY <1>3, <2>5, <3>1 DEF Submitted
    <3>2. CASE ~(i \in 1 .. Len(sent))
      <4>1. /\ i - Len(sent) \in 1 .. Len(kinds) /\ Len(sent) + (i - Len(sent)) = i
        BY <1>3, <2>1, <3>2 DEF Submitted
      <4>2. PICK k \in 1 .. Len(kinds) : Len(sent) + k = i
        BY <4>1
      <4>3. sent'[Len(sent) + k] = [seq |-> request + k, kind |-> kinds[k]]
        BY <1>3 DEF Submitted
      <4>4. sent'[i].seq = request + k
        BY <4>2, <4>3
      <4>5. request + k = served + i
        BY <2>1, <4>2
      <4>. QED
        BY <4>4, <4>5
    <3>. QED
      BY <3>1, <3>2
  <2>3. ASSUME NEW i \in 1 .. Len(pending')
        PROVE  FirstRequest < pending'[i].seq
    <3>1. CASE i <= Len(pending)
      <4>1. i \in 1 .. Len(pending) /\ pending'[i] = pending[i]
        BY <1>3, <3>1 DEF Submitted, PendingKept
      <4>. QED
        BY <4>1 DEF Numbered
    <3>2. CASE ~(i <= Len(pending))
      <4>1. pending'[i].seq > request /\ pending'[i].seq \in Nat
        BY <1>3, <3>2 DEF Submitted
      <4>. QED
        BY <2>1, <4>1
    <3>. QED
      BY <3>1, <3>2
  <2>4. served' + Len(sent') = request'
    <3>1. Len(sent') = Len(sent) + Len(kinds) /\ request' = request + Len(kinds)
      BY <1>3 DEF Submitted
    <3>. QED
      BY <1>1, <2>1, <3>1
  <2>. QED
    BY <1>1, <1>3, <2>1, <2>2, <2>3, <2>4 DEF Submitted, Numbered
<1>4. CASE Enter(t)
  <2>1. <<"void">> \in Seq(Kind) /\ <<"round_trip">> \in Seq(Kind)
        /\ <<"attributes", "geometry">> \in Seq(Kind)
    BY DEF Kind
  <2>2. CASE UNCHANGED <<request, pending, sent>>
    BY <1>2, <2>2 DEF NoneNew
  <2>. QED
    BY <1>3, <1>4, <2>1, <2>2, EnterSubmits
<1>5. CASE ~Enter(t)
  BY <1>2, <1>5, NothingNew
<1>. QED
  BY <1>4, <1>5

-----------------------------------------------------------------------------
(* Every event once, and in order. *)

FlowInv == StreamSlot /\ ServerInv /\ CallInv /\ CountInv

\* The queue of the program is as it was, and so is what the server has sent.
LEMMA CountKept ==
  ASSUME CountInv, UNCHANGED <<queue, delivered, serial, emitted>>,
         EventIds(InStream)' = EventIds(InStream)
  PROVE  CountInv'
  BY DEF CountInv

LEMMA PassesIds ==
  ASSUME Passes
  PROVE  UNCHANGED <<InStream, EventIds(InStream)>>
  BY DEF Passes, InStream

LEMMA CountQuiet ==
  ASSUME CountInv, Passes, NEW t \in Threads, ThreadPasses(t), ~Done(t)
  PROVE  CountInv'
<1>1. UNCHANGED <<queue, delivered, serial, emitted>>
  <2>1. CASE Enter(t)
    BY <2>1 DEF Enter, Send, NextEvent, RoundTrip, seen
  <2>2. CASE PollForReply(t) \/ PolledReply(t) \/ PolledNothing(t) \/ NoResponse(t)
    BY <2>2 DEF PollForReply, PolledReply, PolledNothing, NoResponse, End, seen
  <2>3. CASE ReadEvents(t) \/ EventArrived(t) \/ ReplyLoop(t)
    BY <2>3 DEF ReadEvents, EventArrived, ReplyLoop, seen
  <2>4. CASE ReplyArrived(t) \/ AwaitEventReader(t) \/ HandOn(t) \/ ReturnReply(t)
    BY <2>4 DEF ReplyArrived, AwaitEventReader, HandOn, ReturnReply, Return, seen
  <2>. QED
    BY <2>1, <2>2, <2>3, <2>4 DEF ThreadPasses
<1>. QED
  BY <1>1, PassesIds, CountKept

\* XNextEvent gives the program the first event of its queue.
LEMMA CountDone ==
  ASSUME CountInv, CallInv, Passes, NEW t \in Threads, Done(t)
  PROVE  CountInv'
<1>1. UNCHANGED <<serial, emitted>> /\ pc[t] = "done"
  BY DEF Done, Runs
<1>2. CASE call[t] = "next_event"
  <2>1. queue' = Tail(queue) /\ delivered' = Append(delivered, Head(queue)) /\ queue # <<>>
    BY <1>1, <1>2 DEF Done, CallInv
  <2>2. queue \in Seq(1 .. MaxEvents) /\ delivered \in Seq(1 .. MaxEvents)
    BY DEF CountInv
  <2>3. /\ queue' \in Seq(1 .. MaxEvents) /\ delivered' \in Seq(1 .. MaxEvents)
        /\ delivered' \o queue' = delivered \o queue
    <3>1. /\ Tail(queue) \in Seq(1 .. MaxEvents)
          /\ Append(delivered, Head(queue)) \in Seq(1 .. MaxEvents)
          /\ Append(delivered, Head(queue)) \o Tail(queue) = delivered \o queue
      BY <2>1, <2>2, GivenFirst
    <3>. QED
      BY <2>1, <3>1
  <2>. QED
    BY <1>1, <2>3, PassesIds DEF CountInv
<1>3. CASE call[t] # "next_event"
  <2>1. UNCHANGED <<queue, delivered>>
    BY <1>3 DEF Done
  <2>. QED
    BY <1>1, <2>1, PassesIds, CountKept
<1>. QED
  BY <1>2, <1>3

\* The first event on its way is the next to be queued.
LEMMA CountTook ==
  ASSUME StreamSlot, ServerInv, CountInv, NEW t \in Threads, TookEvent(t), Takes
  PROVE  CountInv'
<1>. DEFINE m == Head(Coming)
<1>1. /\ queue' = Append(queue, m.id) /\ serial' = serial + 1 /\ ~IsError(m)
      /\ UNCHANGED <<delivered, emitted>>
  BY DEF TookEvent, seen
<1>2. /\ m \in ToSet(Coming) /\ InStream = {m} \cup InStream'
      /\ \A n \in InStream' : Before(m, n)
  BY TakesStream DEF ServerInv
<1>3. InStream \subseteq Message /\ m \in Message /\ m.kind # "reply"
  BY <1>2, InStreamTyped DEF StreamSlot, ServerInv, Stream
<1>4. m.kind = "event"
  BY <1>1, <1>3 DEF IsError, Message
<1>. HIDE DEF m
<1>. DEFINE ids == EventIds(InStream)
            later == EventIds(InStream')
<1>5. ids = {m.id} \cup later
  BY <1>2, <1>4 DEF EventIds
<1>6. ASSUME NEW k \in later
      PROVE  m.id < k
  <2>1. PICK n \in InStream' : n.kind = "event" /\ k = n.id
    BY <1>6 DEF EventIds
  <2>. QED
    BY <1>2, <1>4, <2>1 DEF Before
<1>7. /\ ids = serial .. emitted /\ serial \in 1 .. emitted + 1 /\ emitted \in Nat
      /\ emitted <= MaxEvents /\ MaxEvents \in Nat
  BY ClientAssumption DEF CountInv, ServerInv, Recorded
<1>. HIDE DEF ids, later
<1>8. m.id \in serial .. emitted
  BY <1>5, <1>7
<1>9. serial \in ids
  BY <1>7, <1>8
<1>10. m.id = serial
  <2>1. CASE serial \in later
    <3>1. m.id < serial
      BY <1>6, <2>1
    <3>. QED
      BY <1>7, <1>8, <3>1
  <2>. QED
    BY <1>5, <1>9, <2>1
<1>11. later = serial + 1 .. emitted
  <2>1. \A k \in later : k \in serial .. emitted /\ serial < k
    BY <1>5, <1>6, <1>7, <1>10
  <2>2. \A k \in later : k \in serial + 1 .. emitted
    BY <1>7, <2>1
  <2>3. \A k \in serial + 1 .. emitted : k \in ids /\ k # serial
    BY <1>7
  <2>4. \A k \in serial + 1 .. emitted : k \in later
    BY <1>5, <1>10, <2>3
  <2>. QED
    BY <2>2, <2>4
<1>12. EventIds(InStream)' = serial' .. emitted'
  BY <1>1, <1>11 DEF later
<1>13. /\ serial \in Nat \ {0} /\ serial \in 1 .. MaxEvents
      /\ queue \in Seq(1 .. MaxEvents) /\ delivered \in Seq(1 .. MaxEvents)
      /\ delivered \o queue = Upto(serial - 1)
  BY <1>7, <1>8 DEF CountInv
<1>14. queue' = Append(queue, serial)
  BY <1>1, <1>10
<1>15. delivered' \o queue' = Upto(serial' - 1)
  <2>1. delivered \o Append(queue, serial) = Upto((serial + 1) - 1)
    BY <1>13, QueuedNext
  <2>. QED
    BY <1>1, <1>14, <2>1
<1>16. queue' \in Seq(1 .. MaxEvents) /\ delivered' \in Seq(1 .. MaxEvents)
  BY <1>1, <1>13, <1>14, AppendProperties
<1>17. serial' \in 1 .. emitted' + 1
  BY <1>1, <1>7, <1>8
<1>. QED
  BY <1>12, <1>15, <1>16, <1>17 DEF CountInv

LEMMA CountRefused ==
  ASSUME StreamSlot, ServerInv, CountInv, NEW t \in Threads, ReturnRefused(t), Takes
  PROVE  CountInv'
<1>1. UNCHANGED <<queue, delivered, serial, emitted>> /\ Head(Coming).kind = "refused"
  BY DEF ReturnRefused, Return
<1>2. InStream = {Head(Coming)} \cup InStream'
  BY TakesStream DEF ServerInv
<1>3. EventIds(InStream)' = EventIds(InStream)
  BY <1>1, <1>2 DEF EventIds
<1>. QED
  BY <1>1, <1>3, CountKept

LEMMA CountServer ==
  ASSUME StreamSlot, PendingSent, ServerInv, CountInv, Read \/ Serve \/ Emit
  PROVE  CountInv'
<1>1. CASE Read
  <2>1. UNCHANGED <<queue, delivered, serial, emitted>> /\ Stream'
    BY <1>1, ReadServer DEF seen, ServerInv
  <2>2. PICK got \in SUBSET InStream :
          /\ InStream = InStream' \cup got
          /\ \A m \in got : m.kind # "reply" => m \in ToSet(Coming)'
    BY <1>1, ReadServer
  <2>3. \A m \in InStream : m.kind = "event" => m \in InStream'
    BY <2>2 DEF InStream
  <2>4. EventIds(InStream)' = EventIds(InStream)
    BY <2>2, <2>3 DEF EventIds
  <2>. QED
    BY <2>1, <2>4, CountKept
<1>2. CASE Serve
  <2>1. UNCHANGED <<queue, delivered, serial, emitted>>
    BY <1>2, ServeEffect
  <2>2. PICK a \in Answers(sent[1].kind) :
          InStream' = InStream \cup (IF a = "none" THEN {}
                                    ELSE {[kind |-> a, seq |-> served + 1, id |-> 0]})
    BY <1>2, ServeEffect
  <2>3. a # "event"
    BY DEF Answers
  <2>4. EventIds(InStream)' = EventIds(InStream)
    BY <2>2, <2>3 DEF EventIds
  <2>. QED
    BY <2>1, <2>4, CountKept
<1>3. CASE Emit
  <2>1. UNCHANGED <<queue, delivered, serial>> /\ emitted' = emitted + 1
    BY <1>3, EmitEffect DEF seen
  <2>2. PICK m \in Message : m.kind = "event" /\ m.id = emitted' /\ InStream' = InStream \cup {m}
    BY <1>3, EmitEffect
  <2>3. EventIds(InStream') = EventIds(InStream) \cup {emitted + 1}
    BY <2>1, <2>2 DEF EventIds
  <2>4. emitted \in Nat /\ serial \in 1 .. emitted + 1
    BY ClientAssumption DEF CountInv, ServerInv, Recorded
  <2>5. EventIds(InStream') = serial' .. emitted'
    <3>1. (serial .. emitted) \cup {emitted + 1} = serial .. emitted + 1
      BY <2>4
    <3>2. EventIds(InStream) = serial .. emitted
      BY DEF CountInv
    <3>. QED
      BY <2>1, <2>3, <3>1, <3>2
  <2>6. serial' \in 1 .. emitted' + 1
    BY <2>1, <2>4
  <2>. QED
    BY <2>1, <2>5, <2>6 DEF CountInv
<1>. QED
  BY <1>1, <1>2, <1>3

LEMMA FlowInit == ASSUME ClientAssumption, Init PROVE FlowInv
<1>1. /\ nextEvent = <<>> /\ xcbEvents = <<>> /\ wire = <<>> /\ eventWaiter = FALSE
      /\ sent = <<>> /\ pending = <<>> /\ queue = <<>> /\ delivered = <<>>
      /\ request = FirstRequest /\ served = FirstRequest /\ read = FirstRequest
      /\ completed = FirstRequest /\ emitted = 0 /\ serial = 1
      /\ answers = {} /\ replies = {}
      /\ pc = [t \in Threads |-> "idle"] /\ call = [t \in Threads |-> "none"]
  BY DEF Init
<1>2. FirstRequest \in Nat /\ MaxRequests \in Nat /\ MaxEvents \in Nat
  BY DEF ClientAssumption
<1>3. Coming = <<>> /\ Len(<<>>) = 0 /\ ToSet(<<>>) = {}
  <2>1. Coming = <<>>
    BY <1>1 DEF Coming
  <2>2. DOMAIN <<>> = {}
    OBVIOUS
  <2>. QED
    BY <2>1, <2>2 DEF ToSet
<1>4. StreamSlot
  BY <1>1, <1>3, EmptySeq DEF StreamSlot, StreamTyped, Slot
<1>5. InStream = {}
  BY <1>1, <1>3 DEF InStream
<1>6. Stream
  BY <1>1, <1>3 DEF Stream, Sorted, AllBefore
<1>7. Numbered
  BY <1>1, <1>2, <1>3, EmptySeq DEF Numbered
<1>8. Recorded /\ Carried
  BY <1>1, <1>2, <1>5 DEF Recorded, Carried
<1>9. ReadNumbers
  BY <1>1, <1>2, <1>3 DEF ReadNumbers, Past
<1>10. CallInv
  BY <1>1 DEF CallInv
<1>11. CountInv
  <2>1. delivered \o queue = Upto(serial - 1)
    <3>1. delivered \o queue = <<>>
      BY <1>1
    <3>2. 1 .. 0 = {} /\ serial - 1 = 0
      BY <1>1
    <3>3. Upto(0) = <<>>
      BY <3>2 DEF Upto
    <3>. QED
      BY <3>1, <3>2, <3>3
  <2>2. EventIds(InStream) = {} /\ serial .. emitted = {}
    BY <1>1, <1>5 DEF EventIds
  <2>. QED
    BY <1>1, <1>2, <2>1, <2>2, EmptySeq DEF CountInv
<1>. QED
  BY <1>4, <1>6, <1>7, <1>8, <1>9, <1>10, <1>11 DEF FlowInv, ServerInv

LEMMA FlowStep ==
  ASSUME ReaderInv, ClientAssumption, FlowInv, [Next]_vars
  PROVE  FlowInv'
<1>1. StreamSlot /\ Stream /\ ServerInv /\ CallInv /\ CountInv /\ PendingSent
      /\ Recorded /\ Carried /\ ReadNumbers /\ Numbered /\ queue \in Seq(1 .. MaxEvents)
  BY DEF FlowInv, ServerInv, ReaderInv, CountInv
<1>2. CASE UNCHANGED vars /\ Passes
  <2>1. /\ ThreadKeeps
        /\ UNCHANGED <<sent, request, pending, pc, call, queue, delivered, serial, emitted>>
    BY <1>2 DEF vars, ThreadKeeps, toRead, xcb, seen, display, thread
  <2>2. Stream' /\ Recorded' /\ Carried' /\ ReadNumbers' /\ StreamSlot'
    BY <1>1, <1>2, <2>1, ServerKept DEF Passes
  <2>3. Numbered' /\ CallInv' /\ CountInv'
    BY <1>1, <1>2, <2>1, CallStutter, CountKept, PassesIds DEF Numbered, ThreadKeeps
  <2>. QED
    BY <2>2, <2>3 DEF FlowInv, ServerInv
<1>3. CASE (\E why : End(why)) /\ Passes
  <2>1. /\ ThreadKeeps
        /\ UNCHANGED <<sent, request, pending, pc, call, queue, delivered, serial, emitted>>
    BY <1>3, EndKeeps DEF End, toRead, seen, display, thread
  <2>2. Stream' /\ Recorded' /\ Carried' /\ ReadNumbers' /\ StreamSlot'
    BY <1>1, <1>3, <2>1, ServerKept DEF Passes
  <2>3. Numbered' /\ CallInv' /\ CountInv'
    BY <1>1, <1>3, <2>1, CallStutter, CountKept, PassesIds DEF Numbered, ThreadKeeps
  <2>. QED
    BY <2>2, <2>3 DEF FlowInv, ServerInv
<1>4. ASSUME NEW t \in Threads, ThreadPasses(t), Passes
      PROVE  FlowInv'
  <2>1. Stream' /\ Recorded' /\ Carried' /\ ReadNumbers' /\ StreamSlot'
    BY <1>1, <1>4, ServerKept, ThreadStepKeeps DEF Passes
  <2>2. Numbered' /\ CallInv'
    BY <1>1, <1>4, NumberedThread, CallThread
  <2>3. CountInv'
    BY <1>1, <1>4, CountQuiet, CountDone
  <2>. QED
    BY <2>1, <2>2, <2>3 DEF FlowInv, ServerInv
<1>5. ASSUME NEW t \in Threads, TookEvent(t) \/ ReturnRefused(t), Takes
      PROVE  FlowInv'
  <2>1. Stream' /\ Recorded' /\ Carried' /\ ReadNumbers' /\ StreamSlot'
    BY <1>1, <1>5, ServerKept, ThreadStepKeeps DEF Takes
  <2>2. Numbered' /\ CallInv'
    BY <1>1, <1>5, NumberedThread, CallThread
  <2>3. CountInv'
    BY <1>1, <1>5, CountTook, CountRefused
  <2>. QED
    BY <2>1, <2>2, <2>3 DEF FlowInv, ServerInv
<1>6. CASE Read \/ Serve \/ Emit
  <2>1. StreamSlot' /\ ServerInv'
    BY <1>1, <1>6, ReadServer, ServeEffect, EmitEffect
  <2>2. CallInv'
    <3>1. UNCHANGED <<pc, call, queue>>
      BY <1>6 DEF Read, Serve, Emit, thread
    <3>. QED
      BY <1>1, <3>1, CallStutter
  <2>3. CountInv'
    BY <1>1, <1>6, CountServer
  <2>. QED
    BY <2>1, <2>2, <2>3 DEF FlowInv
<1>. QED
  BY <1>1, <1>2, <1>3, <1>4, <1>5, <1>6, Flow

\* The inductive invariant says what EventsInOrder says.
LEMMA FlowInvEventsInOrder == ASSUME FlowInv PROVE EventsInOrder
<1>. DEFINE rest == Coming \o wire
            at == {i \in DOMAIN rest : rest[i].kind = "event"}
<1>1. /\ Coming \in Seq(Message) /\ wire \in Seq(Message)
      /\ Sorted(Coming) /\ Sorted(wire) /\ AllBefore(Coming, wire)
  BY ComingTyped DEF FlowInv, StreamSlot, StreamTyped, ServerInv, Stream
<1>2. rest \in Seq(Message) /\ Sorted(rest) /\ ToSet(rest) = InStream
  BY <1>1, ConcatSorted DEF InStream
<1>. HIDE DEF rest
<1>3. DOMAIN rest = 1 .. Len(rest) /\ ToSet(rest) = {rest[i] : i \in DOMAIN rest}
  BY <1>2, LenProperties DEF ToSet
<1>4. {rest[i].id : i \in at} = EventIds(InStream)
  BY <1>2, <1>3 DEF EventIds
<1>5. \A i, j \in at : i < j => rest[i].id < rest[j].id
  BY <1>2, <1>3 DEF Sorted, Before
<1>. QED
  BY <1>4, <1>5 DEF EventsInOrder, FlowInv, CountInv, Upto, rest

\* Whichever threads take the events along, the program gets each of them once
\* and in the order in which the server sent them.
THEOREM EventsKeepTheirOrder == Spec => []EventsInOrder
<1>1. Init => ReaderInv /\ FlowInv
  BY ReaderInit, FlowInit, ClientAssumption
<1>2. ReaderInv /\ FlowInv /\ [Next]_vars => ReaderInv' /\ FlowInv'
  BY ReaderStep, FlowStep, ClientAssumption
<1>3. FlowInv => EventsInOrder
  BY FlowInvEventsInOrder
<1>. QED
  BY <1>1, <1>2, <1>3, PTL DEF Spec
=============================================================================
