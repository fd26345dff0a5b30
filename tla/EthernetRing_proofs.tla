------------------------ MODULE EthernetRing_proofs ------------------------
(* The descriptor rings implement queues, for rings of every length.        *)
EXTENDS EthernetRing, SequenceTheorems, TLAPS

-----------------------------------------------------------------------------
(* Places on a ring of n slots.                                            *)

LEMMA NextType ==
  ASSUME NEW n \in Nat \ {0}, NEW i \in 0..(n - 1)
  PROVE  NextSlot(i, n) \in 0..(n - 1)
BY DEF NextSlot

LEMMA DistType ==
  ASSUME NEW n \in Nat \ {0}, NEW i \in 0..(n - 1), NEW j \in 0..(n - 1)
  PROVE  /\ Dist(i, j, n) \in 0..(n - 1)
         /\ Dist(i, j, n) = 0 <=> i = j
BY DEF Dist

(* A slot is known by its distance.                                        *)
LEMMA DistInjective ==
  ASSUME NEW n \in Nat \ {0}, NEW h \in 0..(n - 1), NEW i \in 0..(n - 1), NEW j \in 0..(n - 1),
         Dist(h, i, n) = Dist(h, j, n)
  PROVE  i = j
BY DEF Dist

(* The end of a segment moves on: one more, unless the ring is closed.     *)
LEMMA DistNext ==
  ASSUME NEW n \in Nat \ {0}, NEW h \in 0..(n - 1), NEW d \in 0..(n - 1)
  PROVE  /\ NextSlot(d, n) = h <=> Dist(h, d, n) = n - 1
         /\ NextSlot(d, n) # h => Dist(h, NextSlot(d, n), n) = Dist(h, d, n) + 1
BY DEF Dist, NextSlot

(* The head of a segment moves on: one less, and the slot left is last.    *)
LEMMA NextDist ==
  ASSUME NEW n \in Nat \ {0}, NEW h \in 0..(n - 1), NEW i \in 0..(n - 1)
  PROVE  /\ i # h => Dist(NextSlot(h, n), i, n) = Dist(h, i, n) - 1
         /\ Dist(NextSlot(h, n), h, n) = n - 1
BY DEF Dist, NextSlot

LEMMA AtType ==
  ASSUME NEW n \in Nat \ {0}, NEW h \in 0..(n - 1), NEW k \in 0..(n - 1)
  PROVE  At(h, k, n) \in 0..(n - 1) /\ Dist(h, At(h, k, n), n) = k
BY DEF At, Dist

LEMMA AtDist ==
  ASSUME NEW n \in Nat \ {0}, NEW h \in 0..(n - 1), NEW d \in 0..(n - 1)
  PROVE  At(h, Dist(h, d, n), n) = d
BY DEF At, Dist

LEMMA AtNext ==
  ASSUME NEW n \in Nat \ {0}, NEW h \in 0..(n - 1), NEW k \in 0..(n - 2)
  PROVE  At(NextSlot(h, n), k, n) = At(h, k + 1, n)
BY DEF At, NextSlot

-----------------------------------------------------------------------------
(* The frames of a segment, as a sequence.                                 *)

(* The slots of the segment hold frames of S.                              *)
Holds(f, h, c, n, S) == \A k \in 0..(c - 1) : f[At(h, k, n)] \in S

LEMMA ContentType ==
  ASSUME NEW S, NEW n \in Nat \ {0}, NEW f, NEW h, NEW c \in 0..n, Holds(f, h, c, n, S)
  PROVE  /\ Content(f, h, c, n) \in Seq(S)
         /\ Len(Content(f, h, c, n)) = c
         /\ \A k \in 1..c : Content(f, h, c, n)[k] = f[At(h, k - 1, n)]
<1>1. Content(f, h, c, n) \in [1..c -> S]
  <2>1. \A k \in 1..c : k - 1 \in 0..(c - 1)
    OBVIOUS
  <2> QED
    BY <2>1 DEF Content, Holds
<1>2. Content(f, h, c, n) \in Seq(S)
  BY <1>1, SeqDef
<1> QED
  BY <1>1, <1>2 DEF Content

(* Segments with the same frames in them have the same content.            *)
LEMMA ContentSame ==
  ASSUME NEW n, NEW f, NEW g, NEW h, NEW c \in Nat,
         \A k \in 0..(c - 1) : g[At(h, k, n)] = f[At(h, k, n)]
  PROVE  Content(g, h, c, n) = Content(f, h, c, n)
<1>1. \A k \in 1..c : k - 1 \in 0..(c - 1)
  OBVIOUS
<1> QED
  BY <1>1 DEF Content

LEMMA ContentAppend ==
  ASSUME NEW n \in Nat \ {0}, NEW f, NEW h, NEW c \in 0..(n - 1)
  PROVE  Content(f, h, c + 1, n) = Append(Content(f, h, c, n), f[At(h, c, n)])
<1> DEFINE S == {f[At(h, k, n)] : k \in 0..c}
<1>0. Holds(f, h, c + 1, n, S)
  BY DEF Holds
<1> HIDE DEF S
<1> DEFINE s == Content(f, h, c, n)
           t == Content(f, h, c + 1, n)
           e == f[At(h, c, n)]
<1>1. Holds(f, h, c, n, S) /\ e \in S
  BY <1>0 DEF Holds
<1>2. /\ s \in Seq(S) /\ Len(s) = c
      /\ \A k \in 1..c : s[k] = f[At(h, k - 1, n)]
  BY <1>1, ContentType
<1>3. /\ t \in Seq(S) /\ Len(t) = c + 1
      /\ \A k \in 1..(c + 1) : t[k] = f[At(h, k - 1, n)]
  BY <1>0, ContentType, c + 1 \in 0..n
<1> HIDE DEF s, t, e
<1>4. /\ Append(s, e) \in Seq(S) /\ Len(Append(s, e)) = c + 1
      /\ \A k \in 1..c : Append(s, e)[k] = s[k]
      /\ Append(s, e)[c + 1] = e
  BY <1>1, <1>2, AppendProperties
<1>5. \A k \in 1..(c + 1) : t[k] = Append(s, e)[k]
  <2> SUFFICES ASSUME NEW k \in 1..(c + 1) PROVE t[k] = Append(s, e)[k]
    OBVIOUS
  <2>1. CASE k = c + 1
    BY <2>1, <1>3, <1>4 DEF e
  <2>2. CASE k \in 1..c
    <3>1. t[k] = f[At(h, k - 1, n)]
      BY <1>3
    <3>2. s[k] = f[At(h, k - 1, n)] /\ Append(s, e)[k] = s[k]
      BY <2>2, <1>2, <1>4
    <3> QED
      BY <3>1, <3>2
  <2>3. k = c + 1 \/ k \in 1..c
    OBVIOUS
  <2> QED
    BY <2>1, <2>2, <2>3
<1>6. t = Append(s, e)
  BY <1>3, <1>4, <1>5, SeqEqual
<1> QED
  BY <1>6 DEF s, t, e

LEMMA ContentTail ==
  ASSUME NEW n \in Nat \ {0}, NEW f, NEW h \in 0..(n - 1), NEW c \in 1..n
  PROVE  /\ Content(f, h, c, n) # <<>>
         /\ Head(Content(f, h, c, n)) = f[h]
         /\ Tail(Content(f, h, c, n)) = Content(f, NextSlot(h, n), c - 1, n)
<1> DEFINE S == {f[At(h, k, n)] : k \in 0..(c - 1)}
<1>0. Holds(f, h, c, n, S) /\ c \in 0..n
  BY DEF Holds
<1> HIDE DEF S
<1> DEFINE s == Content(f, h, c, n)
           t == Content(f, NextSlot(h, n), c - 1, n)
<1>1. /\ s \in Seq(S) /\ Len(s) = c
      /\ \A k \in 1..c : s[k] = f[At(h, k - 1, n)]
  <2>1. /\ Content(f, h, c, n) \in Seq(S)
        /\ Len(Content(f, h, c, n)) = c
    <3>1. \A d \in 0..n : Holds(f, h, d, n, S) =>
            Content(f, h, d, n) \in Seq(S) /\ Len(Content(f, h, d, n)) = d
      BY ContentType
    <3> QED
      BY <1>0, <3>1
  <2>2. \A k \in 1..c : Content(f, h, c, n)[k] = f[At(h, k - 1, n)]
    BY DEF Content
  <2> QED
    BY <2>1, <2>2
<1>2. \A k \in 0..(c - 2) : At(NextSlot(h, n), k, n) = At(h, k + 1, n)
  BY AtNext
<1>3. Holds(f, NextSlot(h, n), c - 1, n, S)
  BY <1>0, <1>2 DEF Holds
<1>4. /\ t \in Seq(S) /\ Len(t) = c - 1
      /\ \A k \in 1..(c - 1) : t[k] = f[At(NextSlot(h, n), k - 1, n)]
  <2>1. t \in Seq(S) /\ Len(t) = c - 1
    <3>1. \A d \in 0..n : Holds(f, NextSlot(h, n), d, n, S) =>
            Content(f, NextSlot(h, n), d, n) \in Seq(S) /\ Len(Content(f, NextSlot(h, n), d, n)) = d
      BY ContentType
    <3>2. c - 1 \in 0..n
      OBVIOUS
    <3> QED
      BY <1>3, <3>1, <3>2
  <2>2. \A k \in 1..(c - 1) : t[k] = f[At(NextSlot(h, n), k - 1, n)]
    BY DEF Content
  <2> QED
    BY <2>1, <2>2
<1>5. At(h, 0, n) = h
  BY DEF At
<1> HIDE DEF s, t
<1>6. s # <<>> /\ Head(s) = s[1] /\ Tail(s) \in Seq(S) /\ Len(Tail(s)) = c - 1
      /\ \A k \in 1..(c - 1) : Tail(s)[k] = s[k + 1]
  BY <1>1
<1>7. \A k \in 1..(c - 1) : Tail(s)[k] = t[k]
  <2> SUFFICES ASSUME NEW k \in 1..(c - 1) PROVE Tail(s)[k] = t[k]
    OBVIOUS
  <2>1. Tail(s)[k] = s[k + 1] /\ s[k + 1] = f[At(h, k, n)]
    BY <1>1, <1>6
  <2>2. t[k] = f[At(NextSlot(h, n), k - 1, n)] /\ At(NextSlot(h, n), k - 1, n) = At(h, k, n)
    BY <1>2, <1>4, k - 1 \in 0..(c - 2)
  <2> QED
    BY <2>1, <2>2
<1>8. Tail(s) = t
  BY <1>4, <1>6, <1>7, SeqEqual
<1> QED
  BY <1>1, <1>5, <1>6, <1>8 DEF s, t

(* A frame ahead of a sequence.                                            *)
LEMMA Prefixed ==
  ASSUME NEW S, NEW e \in S, NEW s \in Seq(S)
  PROVE  /\ <<e>> \o s \in Seq(S) /\ <<e>> \o s # <<>>
         /\ Len(<<e>> \o s) = Len(s) + 1
         /\ Head(<<e>> \o s) = e /\ Tail(<<e>> \o s) = s
         /\ \A x \in S : Append(<<e>> \o s, x) = <<e>> \o Append(s, x)
  OBVIOUS

-----------------------------------------------------------------------------
(* The set of slots in use, O, of a ring with its head at h and its tail   *)
(* at t: the first so many slots from the head.                            *)
Ring(O, h, t, n) ==
  \A i \in 0..(n - 1) : i \in O <=> Dist(h, i, n) < Count(h, t, h \in O, n)

LEMMA CountCases ==
  ASSUME NEW n \in Nat \ {0}, NEW h \in 0..(n - 1), NEW t \in 0..(n - 1), NEW O
  PROVE  /\ Count(h, t, h \in O, n) \in 0..n
         /\ h # t => Count(h, t, h \in O, n) = Dist(h, t, n)
         /\ h = t /\ h \in O => Count(h, t, h \in O, n) = n
         /\ h = t /\ h \notin O => Count(h, t, h \in O, n) = 0
BY DistType DEF Count

(* A free tail: there is room.  A tail in use: every slot is.              *)
LEMMA RingTail ==
  ASSUME NEW n \in Nat \ {0}, NEW O, NEW h \in 0..(n - 1), NEW t \in 0..(n - 1), Ring(O, h, t, n)
  PROVE  /\ t \notin O => /\ Count(h, t, h \in O, n) \in 0..(n - 1)
                          /\ Count(h, t, h \in O, n) = Dist(h, t, n)
                          /\ At(h, Count(h, t, h \in O, n), n) = t
         /\ t \in O => \A i \in 0..(n - 1) : i \in O
<1> DEFINE c == Count(h, t, h \in O, n)
<1>1. /\ c \in 0..n /\ (h # t => c = Dist(h, t, n))
      /\ (h = t /\ h \in O => c = n) /\ (h = t /\ h \notin O => c = 0)
  BY CountCases
<1>2. \A i \in 0..(n - 1) : i \in O <=> Dist(h, i, n) < c
  BY DEF Ring
<1>3. /\ \A i \in 0..(n - 1) : Dist(h, i, n) \in 0..(n - 1)
      /\ Dist(h, t, n) = 0 <=> h = t
      /\ At(h, Dist(h, t, n), n) = t
  BY DistType, AtDist
<1> HIDE DEF c
<1>4. CASE t \notin O
  <2>1. c = Dist(h, t, n)
    BY <1>1, <1>3, <1>4
  <2> QED
    BY <2>1, <1>3, <1>4 DEF c
<1>5. CASE t \in O
  <2>1. c = n
    BY <1>1, <1>2, <1>3, <1>5
  <2> QED
    BY <2>1, <1>2, <1>3, <1>5
<1> QED
  BY <1>4, <1>5

(* A head in use: something is in the ring.  A free head: nothing is.      *)
LEMMA RingHead ==
  ASSUME NEW n \in Nat \ {0}, NEW O, NEW h \in 0..(n - 1), NEW t \in 0..(n - 1), Ring(O, h, t, n)
  PROVE  h \in O <=> Count(h, t, h \in O, n) \in 1..n
<1>1. Count(h, t, h \in O, n) \in 0..n
  BY CountCases
<1>2. Dist(h, h, n) = 0
  BY DistType
<1> QED
  BY <1>1, <1>2 DEF Ring

LEMMA RingGrows ==
  ASSUME NEW n \in Nat \ {0}, NEW O, NEW h \in 0..(n - 1), NEW t \in 0..(n - 1),
         Ring(O, h, t, n), t \notin O
  PROVE  /\ Count(h, NextSlot(t, n), h \in O \union {t}, n) = Count(h, t, h \in O, n) + 1
         /\ Ring(O \union {t}, h, NextSlot(t, n), n)
<1> DEFINE c == Count(h, t, h \in O, n)
           u == NextSlot(t, n)
           P == O \union {t}
           d == Count(h, u, h \in P, n)
<1>1. c \in 0..(n - 1) /\ c = Dist(h, t, n)
  BY RingTail
<1>2. u \in 0..(n - 1)
  BY NextType
<1>3. /\ (u = h <=> Dist(h, t, n) = n - 1)
      /\ (u # h => Dist(h, u, n) = Dist(h, t, n) + 1)
  BY DistNext
<1>4. /\ h # u => d = Dist(h, u, n)
      /\ h = u /\ h \in P => d = n
  BY <1>2, CountCases
<1>5. \A i \in 0..(n - 1) : /\ i \in O <=> Dist(h, i, n) < c
                            /\ i = t <=> Dist(h, i, n) = c
                            /\ Dist(h, i, n) \in 0..(n - 1)
  <2> TAKE i \in 0..(n - 1)
  <2>1. i \in O <=> Dist(h, i, n) < c
    BY DEF Ring
  <2>2. i = t <=> Dist(h, i, n) = c
    BY <1>1, DistInjective
  <2>3. Dist(h, i, n) \in 0..(n - 1)
    BY DistType
  <2> HIDE DEF c
  <2> QED
    BY <2>1, <2>2, <2>3
<1>6. h = t \/ h \in O
  <2>1. Dist(h, h, n) = 0 /\ (Dist(h, t, n) = 0 <=> h = t)
    BY DistType
  <2> HIDE DEF c
  <2> QED
    BY <2>1, <1>1, <1>5
<1>7. h \in P
  BY <1>6
<1> HIDE DEF c, u, d
<1>8. d = c + 1
  BY <1>1, <1>3, <1>4, <1>7
<1>9. \A i \in 0..(n - 1) : i \in P <=> Dist(h, i, n) < d
  BY <1>1, <1>5, <1>8
<1> QED
  BY <1>8, <1>9 DEF Ring, c, u, d

LEMMA RingShrinks ==
  ASSUME NEW n \in Nat \ {0}, NEW O, NEW h \in 0..(n - 1), NEW t \in 0..(n - 1),
         Ring(O, h, t, n), h \in O
  PROVE  /\ Count(NextSlot(h, n), t, NextSlot(h, n) \in O \ {h}, n) = Count(h, t, h \in O, n) - 1
         /\ Ring(O \ {h}, NextSlot(h, n), t, n)
<1> DEFINE c == Count(h, t, h \in O, n)
           g == NextSlot(h, n)
           P == O \ {h}
           d == Count(g, t, g \in P, n)
<1>1. /\ c \in 1..n /\ (h # t => c = Dist(h, t, n)) /\ (h = t => c = n)
  BY RingHead, CountCases
<1>2. g \in 0..(n - 1)
  BY NextType
<1>3. /\ g # t => d = Dist(g, t, n)
      /\ g = t /\ g \notin P => d = 0
  <2> HIDE DEF g, P
  <2> QED
    BY <1>2, CountCases
<1>4. \A i \in 0..(n - 1) : /\ i \in O <=> Dist(h, i, n) < c
                            /\ i # h => Dist(g, i, n) = Dist(h, i, n) - 1
                            /\ Dist(h, i, n) \in 0..(n - 1)
                            /\ Dist(h, i, n) = 0 <=> h = i
                            /\ Dist(g, i, n) = 0 <=> g = i
  <2> TAKE i \in 0..(n - 1)
  <2>1. i \in O <=> Dist(h, i, n) < c
    BY DEF Ring
  <2>2. i # h => Dist(g, i, n) = Dist(h, i, n) - 1
    BY NextDist
  <2>3. /\ Dist(h, i, n) \in 0..(n - 1)
        /\ Dist(h, i, n) = 0 <=> h = i
        /\ Dist(g, i, n) = 0 <=> g = i
    BY <1>2, DistType
  <2> HIDE DEF c, g
  <2> QED
    BY <2>1, <2>2, <2>3
<1>5. Dist(g, h, n) = n - 1
  BY NextDist
<1> HIDE DEF c, g, d
<1>6. d = c - 1
  <2>1. CASE g # t
    BY <2>1, <1>1, <1>3, <1>4, <1>5
  <2>2. CASE g = t
    <3>1. h = t \/ t \notin O
      BY <2>2, <1>1, <1>4
    <3>2. c = 1
      BY <2>2, <1>1, <1>4, <1>5
    <3> QED
      BY <2>2, <3>1, <3>2, <1>3
  <2> QED
    BY <2>1, <2>2
<1>7. \A i \in 0..(n - 1) : i \in P <=> Dist(g, i, n) < d
  BY <1>1, <1>4, <1>5, <1>6
<1> QED
  BY <1>6, <1>7 DEF Ring, c, g, d

-----------------------------------------------------------------------------
(* A ring in use, O, with frames f is a queue.                             *)

LEMMA RingHolds ==
  ASSUME NEW n \in Nat \ {0}, NEW O, NEW h \in 0..(n - 1), NEW t \in 0..(n - 1), Ring(O, h, t, n),
         NEW S, NEW f, \A i \in O : f[i] \in S
  PROVE  Holds(f, h, Count(h, t, h \in O, n), n, S)
<1> DEFINE c == Count(h, t, h \in O, n)
<1>1. c \in 0..n
  BY CountCases
<1> SUFFICES ASSUME NEW k \in 0..(c - 1) PROVE At(h, k, n) \in O
  BY DEF Holds
<1>2. k \in 0..(n - 1) /\ k < c
  <2> HIDE DEF c
  <2> QED
    BY <1>1
<1>3. At(h, k, n) \in 0..(n - 1) /\ Dist(h, At(h, k, n), n) = k
  BY <1>2, AtType
<1> QED
  BY <1>2, <1>3 DEF Ring

LEMMA QueueSame ==
  ASSUME NEW n \in Nat \ {0}, NEW O, NEW h \in 0..(n - 1), NEW t \in 0..(n - 1), Ring(O, h, t, n),
         NEW f, NEW g, \A i \in O : g[i] = f[i]
  PROVE  QueueOf(g, O, h, t, n) = QueueOf(f, O, h, t, n)
<1> DEFINE c == Count(h, t, h \in O, n)
<1>1. c \in 0..n
  BY CountCases
<1>2. \A k \in 0..(c - 1) : At(h, k, n) \in O
  <2> TAKE k \in 0..(c - 1)
  <2>1. k \in 0..(n - 1) /\ k < c
    <3> HIDE DEF c
    <3> QED
      BY <1>1
  <2>2. At(h, k, n) \in 0..(n - 1) /\ Dist(h, At(h, k, n), n) = k
    BY <2>1, AtType
  <2> QED
    BY <2>1, <2>2 DEF Ring
<1>3. Content(g, h, c, n) = Content(f, h, c, n)
  <2> HIDE DEF c
  <2>1. c \in Nat /\ \A k \in 0..(c - 1) : g[At(h, k, n)] = f[At(h, k, n)]
    BY <1>1, <1>2
  <2> QED
    BY <2>1, ContentSame
<1> QED
  BY <1>3 DEF QueueOf

LEMMA QueueType ==
  ASSUME NEW n \in Nat \ {0}, NEW O, NEW h \in 0..(n - 1), NEW t \in 0..(n - 1), Ring(O, h, t, n),
         NEW S, NEW f, \A i \in O : f[i] \in S
  PROVE  QueueOf(f, O, h, t, n) \in Seq(S)
<1>1. Holds(f, h, Count(h, t, h \in O, n), n, S)
  BY RingHolds
<1>2. Count(h, t, h \in O, n) \in 0..n
  BY CountCases
<1> QED
  BY <1>1, <1>2, ContentType DEF QueueOf

LEMMA QueuePut ==
  ASSUME NEW n \in Nat \ {0}, NEW O, NEW h \in 0..(n - 1), NEW t \in 0..(n - 1), Ring(O, h, t, n),
         t \notin O, NEW f, NEW P, P = O \union {t}
  PROVE  /\ Ring(P, h, NextSlot(t, n), n)
         /\ QueueOf(f, P, h, NextSlot(t, n), n) = Append(QueueOf(f, O, h, t, n), f[t])
         /\ Len(QueueOf(f, O, h, t, n)) < n
<1> DEFINE c == Count(h, t, h \in O, n)
<1>1. c \in 0..(n - 1) /\ At(h, c, n) = t
  BY RingTail
<1>2. /\ Count(h, NextSlot(t, n), h \in P, n) = c + 1
      /\ Ring(P, h, NextSlot(t, n), n)
  BY RingGrows
<1>3. NextSlot(t, n) \in 0..(n - 1)
  BY NextType
<1>5. Content(f, h, c + 1, n) = Append(Content(f, h, c, n), f[t])
  <2> HIDE DEF c
  <2> QED
    BY <1>1, ContentAppend
<1>6. Len(Content(f, h, c, n)) = c
  <2> HIDE DEF c
  <2> QED
    BY <1>1 DEF Content
<1>7. Len(Content(f, h, c, n)) < n
  <2> HIDE DEF c
  <2> QED
    BY <1>1, <1>6
<1> QED
  BY <1>2, <1>5, <1>7 DEF QueueOf

LEMMA QueueGet ==
  ASSUME NEW n \in Nat \ {0}, NEW O, NEW h \in 0..(n - 1), NEW t \in 0..(n - 1), Ring(O, h, t, n),
         h \in O, NEW f, NEW P, P = O \ {h}
  PROVE  /\ Ring(P, NextSlot(h, n), t, n)
         /\ QueueOf(f, O, h, t, n) # <<>>
         /\ Head(QueueOf(f, O, h, t, n)) = f[h]
         /\ Tail(QueueOf(f, O, h, t, n)) = QueueOf(f, P, NextSlot(h, n), t, n)
<1> DEFINE c == Count(h, t, h \in O, n)
<1>1. c \in 1..n
  BY RingHead
<1>2. /\ Count(NextSlot(h, n), t, NextSlot(h, n) \in P, n) = c - 1
      /\ Ring(P, NextSlot(h, n), t, n)
  BY RingShrinks
<1>4. /\ Content(f, h, c, n) # <<>> /\ Head(Content(f, h, c, n)) = f[h]
      /\ Tail(Content(f, h, c, n)) = Content(f, NextSlot(h, n), c - 1, n)
  <2> HIDE DEF c
  <2> QED
    BY <1>1, ContentTail
<1> QED
  BY <1>2, <1>4 DEF QueueOf

-----------------------------------------------------------------------------
LEMMA InitType == Init => TypeOK
<1> SUFFICES ASSUME Init PROVE TypeOK
  OBVIOUS
<1>1. 0 \in RxSlots /\ 0 \in TxSlots /\ 0 \in 0..MaxReplies
  BY RingAssumption DEF RxSlots, TxSlots
<1> QED
  BY <1>1, FrameAssumption DEF Init, TypeOK

LEMMA StoreType ==
  ASSUME TypeOK, NEW f \in Frame, NEW part \in {"whole", "first", "last"}, Store(f, part)
  PROVE  TypeOK'
BY DEF TypeOK, Store, Piece, loop, tx

(* ethernetif.c: every index stays on its ring and every slot holds what   *)
(* was put there.                                                          *)
THEOREM TypeCorrect == Spec => []TypeOK
<1> USE FrameAssumption, RingAssumption
<1>1. Init => TypeOK
  BY InitType
<1>2. TypeOK /\ [Next]_vars => TypeOK'
  <2> SUFFICES ASSUME TypeOK, [Next]_vars PROVE TypeOK'
    OBVIOUS
  <2> USE DEF TypeOK, loop, rx, tx
  <2>1. CASE CheckRxOwn
    BY <2>1 DEF CheckRxOwn, Goto
  <2>2. CASE CopyFrame
    BY <2>2 DEF CopyFrame, Goto
  <2>3. CASE GiveBack
    BY <2>3 DEF GiveBack, Goto
  <2>4. CASE ResumeRx
    BY <2>4, NextType DEF ResumeRx, RxSlots
  <2>5. CASE Input
    BY <2>5 DEF Input, Goto
  <2>6. CASE StackReturns
    BY <2>6 DEF StackReturns, Goto
  <2>7. ASSUME NEW f \in Reply, CheckTxOwn(f) PROVE TypeOK'
    BY <2>7 DEF CheckTxOwn, Goto
  <2>8. CASE Refuse
    BY <2>8 DEF Refuse, Goto
  <2>9. CASE Fill
    BY <2>9 DEF Fill, Goto
  <2>10. CASE HandOver
    BY <2>10 DEF HandOver, Goto
  <2>11. CASE ResumeTx
    BY <2>11, NextType DEF ResumeTx, Goto, TxSlots
  <2>12. ASSUME NEW f \in Frame, DmaStore(f) PROVE TypeOK'
    BY <2>12, StoreType DEF DmaStore
  <2>13. CASE DmaStored
    <3>1. /\ UNCHANGED <<pc, curRx, curTx, loop, tx>> /\ storing' = FALSE
          /\ rxOwned' = rxOwned \ {dmaRx} /\ dmaRx' \in RxSlots
      BY <2>13, NextType DEF DmaStored, RxSlots
    <3>2. rest' \in Frame \union {NoFrame} /\ rxFrame' \in [RxSlots -> Piece \union {NoFrame}]
      BY <2>13 DEF DmaStored, Piece
    <3> QED
      BY <3>1, <3>2
  <2>14. CASE DmaFetch
    BY <2>14 DEF DmaFetch
  <2>15. CASE DmaSuspend
    BY <2>15 DEF DmaSuspend
  <2>16. CASE DmaSent
    BY <2>16, NextType DEF DmaSent, TxSlots
  <2>17. CASE UNCHANGED vars
    BY <2>17 DEF vars
  <2>18. CASE DmaStoreRest
    BY <2>18, StoreType DEF DmaStoreRest
  <2> QED
    BY <2>1, <2>2, <2>3, <2>4, <2>5, <2>6, <2>7, <2>8, <2>9, <2>10, <2>11, <2>12, <2>13, <2>14,
       <2>15, <2>16, <2>17, <2>18 DEF Next, MainLoop, Receive, Transmit, DmaReceive, DmaTransmit
<1> QED
  BY <1>1, <1>2, PTL DEF Spec

-----------------------------------------------------------------------------
(* Reception.                                                              *)

(* The descriptors the DMA has given up are those from the one read next   *)
(* to the one filled next, and the main loop reads one of them.            *)
RxInv ==
  /\ Ring(RxHeld, RxHead, dmaRx, RxN)
  /\ pc \in {"copy", "release"} => curRx \in RxHeld
  /\ p \in Passed \union {NoFrame}
  /\ pc = "release" /\ p # NoFrame => p = rxFrame[curRx]
  /\ pc = "input" => p # NoFrame
  /\ \A i \in RxHeld : rxFrame[i] \in Piece
  /\ storing => dmaRx \notin RxHeld /\ rxFrame[dmaRx] \in Piece

(* What a step that neither fills nor frees a descriptor leaves alone.     *)
RxQuiet ==
  /\ UNCHANGED <<rxOwned, rxFrame, dmaRx, storing, delivered, RxHead>>
  /\ InHand <=> InHand'
  /\ InHand => p' = p

LEMMA RxQuietSteps ==
  ASSUME TypeOK, RxInv
  PROVE  /\ CheckRxOwn \/ CopyFrame \/ ResumeRx \/ StackReturns => RxQuiet
         /\ Transmit \/ DmaTransmit \/ UNCHANGED vars => RxQuiet
<1> USE DEF RxQuiet, RxHead, InHand, loop, rx, tx, Goto
<1>1. CheckRxOwn \/ CopyFrame \/ StackReturns => RxQuiet
  BY DEF CheckRxOwn, CopyFrame, StackReturns
<1>2. ResumeRx => RxQuiet
  BY DEF ResumeRx
<1>3. Transmit => RxQuiet
  BY DEF Transmit, CheckTxOwn, Refuse, Fill, HandOver, ResumeTx
<1>4. DmaTransmit => RxQuiet
  BY DEF DmaTransmit, DmaFetch, DmaSuspend, DmaSent
<1>5. UNCHANGED vars => RxQuiet
  BY DEF vars
<1> QED
  BY <1>1, <1>2, <1>3, <1>4, <1>5

LEMMA RxTypes ==
  ASSUME TypeOK
  PROVE  /\ RxN \in Nat \ {0} /\ RxSlots = 0..(RxN - 1) /\ RxHeld \subseteq RxSlots
         /\ RxHead \in 0..(RxN - 1) /\ curRx \in 0..(RxN - 1) /\ dmaRx \in 0..(RxN - 1)
<1>1. RxN \in Nat \ {0} /\ RxSlots = 0..(RxN - 1) /\ RxHeld \subseteq RxSlots
  BY RingAssumption DEF RxSlots, RxHeld
<1>2. curRx \in 0..(RxN - 1) /\ dmaRx \in 0..(RxN - 1)
  BY DEF TypeOK, RxSlots
<1> QED
  BY <1>1, <1>2, NextType DEF RxHead

(* The ring and its queue after a quiet step.                              *)
LEMMA RxQuietKeeps ==
  ASSUME TypeOK, RxInv, RxQuiet
  PROVE  /\ UNCHANGED <<RxQueue, delivered>>
         /\ Ring(RxHeld, RxHead, dmaRx, RxN)'
         /\ (\A i \in RxHeld : rxFrame[i] \in Piece)'
         /\ (storing => dmaRx \notin RxHeld /\ rxFrame[dmaRx] \in Piece)'
<1>1. RxHeld' = RxHeld
  BY DEF RxQuiet, RxHeld
<1>2. RxRing' = RxRing
  BY <1>1 DEF RxQuiet, RxRing
<1>3. RxQueue' = RxQueue
  BY <1>2 DEF RxQuiet, RxQueue
<1> QED
  BY <1>1, <1>3 DEF RxQuiet, RxInv

LEMMA RxStep ==
  ASSUME TypeOK, RxInv, [Next]_vars
  PROVE  RxInv' /\ [RxSpec!Next]_<<RxQueue, delivered>>
<1> USE FrameAssumption
<1>1. ASSUME RxQuiet,
             (pc \in {"copy", "release"} => curRx \in RxHeld)',
             (p \in Passed \union {NoFrame})',
             (pc = "release" /\ p # NoFrame => p = rxFrame[curRx])',
             (pc = "input" => p # NoFrame)'
      PROVE  RxInv' /\ [RxSpec!Next]_<<RxQueue, delivered>>
  BY <1>1, RxQuietKeeps DEF RxInv
<1>2. CASE CheckRxOwn
  <2>1. RxQuiet
    BY <1>2, RxQuietSteps
  <2>2. curRx' = curRx /\ RxHeld' = RxHeld /\ curRx \in RxHeld
    BY <1>2 DEF CheckRxOwn, rx, RxHeld, TypeOK
  <2> QED
    BY <2>1, <2>2, <1>1, <1>2 DEF CheckRxOwn, Goto, RxInv, loop
<1>3. CASE CopyFrame
  <2>1. RxQuiet
    BY <1>3, RxQuietSteps
  <2>2. curRx' = curRx /\ RxHeld' = RxHeld /\ rxFrame' = rxFrame /\ curRx \in RxHeld
    BY <1>3 DEF CopyFrame, Goto, rx, RxHeld, RxInv
  <2>3. p' \in Passed \union {NoFrame} /\ (p' # NoFrame => p' = rxFrame[curRx])
    BY <2>2, <1>3 DEF CopyFrame, RxInv, Passed
  <2> QED
    BY <2>1, <2>2, <2>3, <1>1, <1>3 DEF CopyFrame, Goto
<1>4. CASE ResumeRx
  <2>1. RxQuiet
    BY <1>4, RxQuietSteps
  <2> QED
    BY <2>1, <1>1, <1>4 DEF ResumeRx, RxInv, loop
<1>5. CASE StackReturns
  <2>1. RxQuiet
    BY <1>5, RxQuietSteps
  <2> QED
    BY <2>1, <1>1, <1>5 DEF StackReturns, Goto, RxInv
<1>6. CASE Transmit
  <2>1. RxQuiet
    BY <1>6, RxQuietSteps
  <2>2. pc' \notin {"copy", "release", "input"} /\ p' = p
    BY <1>6 DEF Transmit, CheckTxOwn, Refuse, Fill, HandOver, ResumeTx, Goto, loop
  <2> QED
    BY <2>1, <2>2, <1>1 DEF RxInv
<1>7. CASE DmaTransmit \/ UNCHANGED vars
  <2>1. RxQuiet
    BY <1>7, RxQuietSteps
  <2>2. pc' = pc /\ p' = p /\ curRx' = curRx /\ rxFrame' = rxFrame /\ RxHeld' = RxHeld
    BY <1>7 DEF DmaTransmit, DmaFetch, DmaSuspend, DmaSent, vars, loop, rx, RxHeld
  <2> QED
    BY <2>1, <2>2, <1>1 DEF RxInv
<1>8. CASE GiveBack
  <2>1. /\ pc = "release" /\ pc' = "resume" /\ rxOwned' = rxOwned \union {curRx}
        /\ UNCHANGED <<curRx, p, delivered, rxFrame, dmaRx, storing>>
    BY <1>8 DEF GiveBack, Goto, loop
  <2>2. RxHead = curRx /\ curRx \in RxHeld
    BY <2>1 DEF RxHead, RxInv
  <2>3. RxHead' = NextSlot(curRx, RxN) /\ RxHeld' = RxHeld \ {curRx}
    BY <2>1 DEF RxHead, RxHeld
  <2>4. Ring(RxHeld, curRx, dmaRx, RxN)
    BY <2>2 DEF RxInv
  <2>5. /\ Ring(RxHeld \ {curRx}, NextSlot(curRx, RxN), dmaRx, RxN)
        /\ RxRing # <<>> /\ Head(RxRing) = rxFrame[curRx]
        /\ Tail(RxRing) = QueueOf(rxFrame, RxHeld \ {curRx}, NextSlot(curRx, RxN), dmaRx, RxN)
    <3>1. RxRing = QueueOf(rxFrame, RxHeld, curRx, dmaRx, RxN)
      BY <2>2 DEF RxRing
    <3>2. RxN \in Nat \ {0} /\ curRx \in 0..(RxN - 1) /\ dmaRx \in 0..(RxN - 1)
      BY RxTypes
    <3>3. /\ Ring(RxHeld \ {curRx}, NextSlot(curRx, RxN), dmaRx, RxN)
          /\ QueueOf(rxFrame, RxHeld, curRx, dmaRx, RxN) # <<>>
          /\ Head(QueueOf(rxFrame, RxHeld, curRx, dmaRx, RxN)) = rxFrame[curRx]
          /\ Tail(QueueOf(rxFrame, RxHeld, curRx, dmaRx, RxN))
               = QueueOf(rxFrame, RxHeld \ {curRx}, NextSlot(curRx, RxN), dmaRx, RxN)
      BY <2>2, <2>4, <3>2, QueueGet
    <3> QED
      BY <3>1, <3>3
  <2>6. RxRing' = Tail(RxRing)
    BY <2>1, <2>3, <2>5 DEF RxRing
  <2>7. RxInv'
    BY <2>1, <2>3, <2>5 DEF RxInv
  <2>8. CASE p = NoFrame
    <3>1. RxQueue = RxRing /\ RxQueue' = Tail(RxRing)
      BY <2>1, <2>6, <2>8 DEF RxQueue, InHand
    <3> QED
      BY <2>1, <2>5, <2>7, <3>1 DEF RxSpec!Next, RxSpec!Discard
  <2>9. CASE p # NoFrame
    <3>1. p = rxFrame[curRx] /\ p \in Piece
      BY <2>1, <2>9 DEF RxInv
    <3>2. RxRing \in Seq(Piece)
      BY <2>2, <2>4, RxTypes, QueueType DEF RxRing, RxInv
    <3>3. RxRing = <<p>> \o Tail(RxRing)
      BY <2>5, <3>1, <3>2
    <3>4. RxQueue = RxRing /\ RxQueue' = <<p>> \o Tail(RxRing)
      BY <2>1, <2>6, <2>9 DEF RxQueue, InHand
    <3> QED
      BY <2>1, <2>7, <3>3, <3>4
  <2> QED
    BY <2>8, <2>9
<1>9. CASE Input
  <2>1. /\ pc = "input" /\ pc' = "stack" /\ delivered' = p /\ p' = NoFrame
        /\ UNCHANGED <<curRx, rxOwned, rxFrame, dmaRx, storing>>
    BY <1>9 DEF Input, Goto, rx
  <2>2. RxHead' = RxHead /\ RxHeld' = RxHeld
    BY <2>1 DEF RxHead, RxHeld
  <2>3. RxRing' = RxRing
    BY <2>1, <2>2 DEF RxRing
  <2>4. RxInv'
    BY <2>1, <2>2 DEF RxInv
  <2>5. p \in Passed /\ p \in Piece
    BY <2>1 DEF RxInv, Passed
  <2>6. RxQueue = <<p>> \o RxRing /\ RxQueue' = RxRing
    BY <2>1, <2>3, <2>5 DEF RxQueue, InHand
  <2>7. RxRing \in Seq(Piece)
    BY RxTypes, QueueType DEF RxRing, RxInv
  <2>8. RxQueue # <<>> /\ Head(RxQueue) = p /\ Tail(RxQueue) = RxRing
    BY <2>5, <2>6, <2>7, Prefixed
  <2> QED
    BY <2>1, <2>4, <2>5, <2>6, <2>8 DEF RxSpec!Next, RxSpec!Get
<1>10. ASSUME NEW f \in Frame, NEW part \in {"whole", "first", "last"}, Store(f, part) PROVE RxInv' /\ [RxSpec!Next]_<<RxQueue, delivered>>
  <2>1. /\ ~storing /\ dmaRx \in rxOwned /\ storing'
        /\ rxFrame' = [rxFrame EXCEPT ![dmaRx] = [frame |-> f, part |-> part]]
        /\ UNCHANGED <<pc, curRx, p, delivered, rxOwned, dmaRx>>
    BY <1>10 DEF Store, loop
  <2>2. RxHead' = RxHead /\ RxHeld' = RxHeld /\ dmaRx \notin RxHeld
    BY <2>1 DEF RxHead, RxHeld
  <2>3. \A i \in RxHeld : rxFrame'[i] = rxFrame[i]
    BY <2>1, <2>2, RxTypes DEF TypeOK
  <2>4. rxFrame'[dmaRx] \in Piece
    BY <2>1 DEF TypeOK, Piece
  <2>5. QueueOf(rxFrame', RxHeld, RxHead, dmaRx, RxN) = RxRing
    BY <2>3, RxTypes, QueueSame DEF RxRing, RxInv
  <2>6. RxQueue' = RxQueue
    BY <2>1, <2>2, <2>5 DEF RxRing, RxQueue, InHand
  <2>7. RxInv'
    BY <2>1, <2>2, <2>3, <2>4 DEF RxInv
  <2> QED
    BY <2>1, <2>6, <2>7
<1>11. CASE DmaStored
  <2>1. /\ storing /\ ~storing' /\ rxOwned' = rxOwned \ {dmaRx}
        /\ dmaRx' = NextSlot(dmaRx, RxN)
        /\ UNCHANGED <<pc, curRx, p, delivered>>
    BY <1>11 DEF DmaStored, loop
  <2>2. dmaRx \notin RxHeld /\ rxFrame[dmaRx] \in Piece /\ dmaRx \in RxSlots
    BY <2>1, RxTypes DEF RxInv
  <2>3. RxHead' = RxHead /\ RxHeld' = RxHeld \union {dmaRx}
    BY <2>1, <2>2 DEF RxHead, RxHeld
  <2>4. /\ \A i \in RxHeld : rxFrame'[i] = rxFrame[i]
        /\ rxFrame'[dmaRx] \in Piece
    BY <1>11, <2>2, RxTypes DEF DmaStored, TypeOK, Piece
  <2>5. QueueOf(rxFrame', RxHeld, RxHead, dmaRx, RxN) = RxRing
    BY <2>4, RxTypes, QueueSame DEF RxRing, RxInv
  <2>6. /\ Ring(RxHeld \union {dmaRx}, RxHead, NextSlot(dmaRx, RxN), RxN)
        /\ QueueOf(rxFrame', RxHeld \union {dmaRx}, RxHead, NextSlot(dmaRx, RxN), RxN)
             = Append(RxRing, rxFrame'[dmaRx])
        /\ Len(RxRing) < RxN
    <3>1. /\ RxN \in Nat \ {0} /\ RxHead \in 0..(RxN - 1) /\ dmaRx \in 0..(RxN - 1)
          /\ Ring(RxHeld, RxHead, dmaRx, RxN)
      BY RxTypes DEF RxInv
    <3>2. /\ Ring(RxHeld \union {dmaRx}, RxHead, NextSlot(dmaRx, RxN), RxN)
          /\ QueueOf(rxFrame', RxHeld \union {dmaRx}, RxHead, NextSlot(dmaRx, RxN), RxN)
               = Append(QueueOf(rxFrame', RxHeld, RxHead, dmaRx, RxN), rxFrame'[dmaRx])
          /\ Len(QueueOf(rxFrame', RxHeld, RxHead, dmaRx, RxN)) < RxN
      BY <2>2, <3>1, QueuePut
    <3> QED
      BY <2>5, <3>2
  <2>7. RxRing' = Append(RxRing, rxFrame'[dmaRx])
    BY <2>1, <2>3, <2>6 DEF RxRing
  <2>8. RxInv'
    <3>1. pc \in {"copy", "release"} => curRx' = curRx /\ rxFrame'[curRx] = rxFrame[curRx]
      BY <2>1, <2>4 DEF RxInv
    <3> QED
      BY <2>1, <2>2, <2>3, <2>4, <2>6, <3>1 DEF RxInv
  <2>9. RxRing \in Seq(Piece)
    BY RxTypes, QueueType DEF RxRing, RxInv
  <2>10. Len(RxQueue) < RxN + 1 /\ RxQueue' = Append(RxQueue, rxFrame'[dmaRx])
    <3>1. InHand' = InHand
      BY <2>1 DEF InHand
    <3>2. CASE ~InHand
      BY <2>6, <2>7, <2>9, <3>1, <3>2, RxTypes DEF RxQueue
    <3>3. CASE InHand
      <4>1. p \in Piece
        BY <3>3 DEF InHand, RxInv, Passed
      <4>2. RxQueue = <<p>> \o RxRing /\ RxQueue' = <<p>> \o Append(RxRing, rxFrame'[dmaRx])
        BY <2>1, <2>7, <3>1, <3>3 DEF RxQueue
      <4> QED
        BY <2>4, <2>6, <2>9, <4>1, <4>2, Prefixed, RxTypes
    <3> QED
      BY <3>2, <3>3
  <2> QED
    BY <2>1, <2>4, <2>8, <2>10 DEF RxSpec!Next, RxSpec!Put
<1>12. CASE DmaReceive
  <2>1. CASE DmaStored
    BY <1>11, <2>1
  <2>2. CASE \E f \in Frame : DmaStore(f)
    BY <1>10, <2>2 DEF DmaStore
  <2>3. CASE DmaStoreRest
    BY <1>10, <2>3 DEF DmaStoreRest, TypeOK
  <2> QED
    BY <2>1, <2>2, <2>3, <1>12 DEF DmaReceive
<1> QED
  BY <1>2, <1>3, <1>4, <1>5, <1>6, <1>7, <1>8, <1>9, <1>12 DEF Next, MainLoop, Receive

LEMMA InitRx == Init => RxInv /\ RxSpec!Init
<1> SUFFICES ASSUME Init PROVE RxInv /\ RxSpec!Init
  OBVIOUS
<1>1. TypeOK
  BY InitType
<1>2. RxHeld = {} /\ RxHead = 0 /\ dmaRx = 0
  BY DEF Init, RxHeld, RxHead
<1>3. Count(RxHead, dmaRx, RxHead \in RxHeld, RxN) = 0
  BY <1>2 DEF Count
<1>4. Ring(RxHeld, RxHead, dmaRx, RxN)
  <2>1. \A i \in 0..(RxN - 1) : i \notin RxHeld /\ Dist(RxHead, i, RxN) \in 0..(RxN - 1)
    BY <1>1, <1>2, RxTypes, DistType
  <2>2. RxN \in Nat
    BY RingAssumption
  <2> QED
    BY <1>3, <2>1, <2>2 DEF Ring
<1>5. RxRing = <<>>
  BY <1>3 DEF RxRing, QueueOf, Content
<1> QED
  BY <1>2, <1>4, <1>5 DEF Init, RxInv, RxSpec!Init, RxQueue, InHand

(* ethernetif_input, low_level_input: the stack gets the buffers the       *)
(* controller filled and marked LS without ES, in order, none twice and    *)
(* none while it is being written; the last part of a long frame is one.   *)
THEOREM Receives == Spec => ReceiveImplements
<1>1. Init => RxInv /\ RxSpec!Init
  BY InitRx
<1>2. TypeOK /\ RxInv /\ [Next]_vars => RxInv' /\ [RxSpec!Next]_<<RxQueue, delivered>>
  BY RxStep
<1> QED
  BY <1>1, <1>2, TypeCorrect, PTL DEF Spec, ReceiveImplements, RxSpec!Spec

-----------------------------------------------------------------------------
(* Transmission.                                                           *)

(* The descriptors the DMA owns are those from the one it is at to the one *)
(* filled next, and the main loop writes to none of them.                  *)
TxInv ==
  /\ Ring(txOwned, dmaTx, TxTail, TxN)
  /\ pc \in {"fill", "own"} => curTx \notin txOwned
  /\ pc = "fill" => reply \in Reply
  /\ pc = "own" => txFrame[curTx] \in Reply
  /\ \A i \in txOwned : txFrame[i] \in Reply
  /\ sending # NoFrame => dmaTx \in txOwned /\ sending = txFrame[dmaTx]

LEMMA TxTypes ==
  ASSUME TypeOK
  PROVE  /\ TxN \in Nat \ {0} /\ TxSlots = 0..(TxN - 1) /\ txOwned \subseteq TxSlots
         /\ TxTail \in 0..(TxN - 1) /\ curTx \in 0..(TxN - 1) /\ dmaTx \in 0..(TxN - 1)
<1>1. TxN \in Nat \ {0} /\ TxSlots = 0..(TxN - 1) /\ txOwned \subseteq TxSlots
  BY RingAssumption DEF TxSlots, TypeOK
<1>2. curTx \in 0..(TxN - 1) /\ dmaTx \in 0..(TxN - 1)
  BY DEF TypeOK, TxSlots
<1> QED
  BY <1>1, <1>2, NextType DEF TxTail

LEMMA TxStep ==
  ASSUME TypeOK, TxInv, [Next]_vars
  PROVE  TxInv' /\ [TxSpec!Next]_<<TxQueue, wire>>
<1> USE FrameAssumption
<1>1. ASSUME UNCHANGED <<txOwned, txFrame, dmaTx, wire, TxTail, sending>>,
             (pc \in {"fill", "own"} => curTx \notin txOwned)',
             (pc = "fill" => reply \in Reply)',
             (pc = "own" => txFrame[curTx] \in Reply)'
      PROVE  TxInv' /\ [TxSpec!Next]_<<TxQueue, wire>>
  BY <1>1 DEF TxInv, TxQueue
<1>2. CASE Receive
  <2>1. pc' \notin {"fill", "own", "poll"} /\ pc # "poll" /\ UNCHANGED <<curTx, tx>>
    BY <1>2 DEF Receive, CheckRxOwn, CopyFrame, GiveBack, ResumeRx, Input, StackReturns, Goto
  <2> QED
    BY <2>1, <1>1 DEF TxTail, tx
<1>3. CASE DmaReceive \/ UNCHANGED vars
  <2>1. UNCHANGED <<pc, curTx, tx, reply>>
    BY <1>3 DEF DmaReceive, DmaStore, DmaStoreRest, Store, DmaStored, vars, loop
  <2> QED
    BY <2>1, <1>1 DEF TxTail, tx, TxInv
<1>4. ASSUME NEW f \in Reply, CheckTxOwn(f) PROVE TxInv' /\ [TxSpec!Next]_<<TxQueue, wire>>
  <2>1. /\ pc = "stack" /\ pc' = "fill" /\ reply' = f /\ curTx \notin txOwned
        /\ UNCHANGED <<curTx, tx>>
    BY <1>4 DEF CheckTxOwn, Goto
  <2> QED
    BY <2>1, <1>1 DEF TxTail, tx
<1>5. CASE Refuse
  <2>1. pc = "stack" /\ pc' = "stack" /\ UNCHANGED <<curTx, tx>>
    BY <1>5 DEF Refuse, Goto
  <2> QED
    BY <2>1, <1>1 DEF TxTail, tx
<1>6. CASE Fill
  <2>1. /\ pc = "fill" /\ pc' = "own" /\ txFrame' = [txFrame EXCEPT ![curTx] = reply]
        /\ UNCHANGED <<curTx, txOwned, dmaTx, wire, sending>>
    BY <1>6 DEF Fill, Goto
  <2>2. curTx \notin txOwned /\ reply \in Reply /\ TxTail' = TxTail
    BY <2>1 DEF TxInv, TxTail
  <2>3. \A i \in txOwned : txFrame'[i] = txFrame[i]
    BY <2>1, <2>2, TxTypes DEF TypeOK
  <2>4. txFrame'[curTx] = reply
    BY <2>1 DEF TypeOK
  <2>5. QueueOf(txFrame', txOwned, dmaTx, TxTail, TxN) = TxQueue
    BY <2>3, TxTypes, QueueSame DEF TxQueue, TxInv
  <2>6. TxQueue' = TxQueue
    BY <2>1, <2>2, <2>5 DEF TxQueue
  <2>7. TxInv'
    BY <2>1, <2>2, <2>3, <2>4 DEF TxInv
  <2> QED
    BY <2>1, <2>6, <2>7
<1>7. CASE HandOver
  <2>1. /\ pc = "own" /\ pc' = "poll" /\ txOwned' = txOwned \union {curTx}
        /\ UNCHANGED <<curTx, txFrame, dmaTx, wire, sending>>
    BY <1>7 DEF HandOver, Goto
  <2>2. TxTail = curTx /\ TxTail' = NextSlot(curTx, TxN)
    BY <2>1 DEF TxTail
  <2>3. curTx \notin txOwned /\ txFrame[curTx] \in Reply /\ Ring(txOwned, dmaTx, curTx, TxN)
    BY <2>1, <2>2 DEF TxInv
  <2>4. TxQueue = QueueOf(txFrame, txOwned, dmaTx, curTx, TxN)
    BY <2>2 DEF TxQueue
  <2>5. /\ Ring(txOwned \union {curTx}, dmaTx, NextSlot(curTx, TxN), TxN)
        /\ QueueOf(txFrame, txOwned \union {curTx}, dmaTx, NextSlot(curTx, TxN), TxN)
             = Append(TxQueue, txFrame[curTx])
        /\ Len(TxQueue) < TxN
    <3>1. TxN \in Nat \ {0} /\ dmaTx \in 0..(TxN - 1) /\ curTx \in 0..(TxN - 1)
      BY TxTypes
    <3>2. /\ Ring(txOwned \union {curTx}, dmaTx, NextSlot(curTx, TxN), TxN)
          /\ QueueOf(txFrame, txOwned \union {curTx}, dmaTx, NextSlot(curTx, TxN), TxN)
               = Append(QueueOf(txFrame, txOwned, dmaTx, curTx, TxN), txFrame[curTx])
          /\ Len(QueueOf(txFrame, txOwned, dmaTx, curTx, TxN)) < TxN
      BY <2>3, <3>1, QueuePut
    <3> QED
      BY <2>4, <3>2
  <2>6. TxQueue' = Append(TxQueue, txFrame[curTx])
    BY <2>1, <2>2, <2>5 DEF TxQueue
  <2>7. TxInv'
    BY <2>1, <2>2, <2>3, <2>5 DEF TxInv
  <2> QED
    BY <2>1, <2>3, <2>5, <2>6, <2>7 DEF TxSpec!Next, TxSpec!Put
<1>8. CASE ResumeTx
  <2>1. /\ pc = "poll" /\ pc' = "stack" /\ curTx' = NextSlot(curTx, TxN)
        /\ UNCHANGED <<txOwned, txFrame, dmaTx, wire, sending>>
    BY <1>8 DEF ResumeTx, Goto
  <2> QED
    BY <2>1, <1>1 DEF TxTail
<1>9. CASE DmaFetch
  <2>1. /\ dmaTx \in txOwned /\ sending' = txFrame[dmaTx]
        /\ UNCHANGED <<pc, curTx, reply, txOwned, txFrame, dmaTx, wire>>
    BY <1>9 DEF DmaFetch, loop
  <2>2. TxTail' = TxTail
    BY <2>1 DEF TxTail
  <2> QED
    BY <2>1, <2>2 DEF TxInv, TxQueue
<1>10. CASE DmaSuspend
  <2>1. UNCHANGED <<pc, curTx, reply, txOwned, txFrame, dmaTx, wire, sending>>
    BY <1>10 DEF DmaSuspend, loop
  <2> QED
    BY <2>1, <1>1 DEF TxTail, TxInv
<1>11. CASE DmaSent
  <2>1. /\ sending # NoFrame /\ sending' = NoFrame /\ wire' = sending
        /\ txOwned' = txOwned \ {dmaTx} /\ dmaTx' = NextSlot(dmaTx, TxN)
        /\ UNCHANGED <<pc, curTx, reply, txFrame>>
    BY <1>11 DEF DmaSent, loop
  <2>2. dmaTx \in txOwned /\ sending = txFrame[dmaTx] /\ sending \in Reply
    BY <2>1 DEF TxInv
  <2>3. TxTail' = TxTail
    BY <2>1 DEF TxTail
  <2>4. /\ Ring(txOwned \ {dmaTx}, NextSlot(dmaTx, TxN), TxTail, TxN)
        /\ TxQueue # <<>> /\ Head(TxQueue) = txFrame[dmaTx]
        /\ Tail(TxQueue) = QueueOf(txFrame, txOwned \ {dmaTx}, NextSlot(dmaTx, TxN), TxTail, TxN)
    <3>1. /\ TxN \in Nat \ {0} /\ dmaTx \in 0..(TxN - 1) /\ TxTail \in 0..(TxN - 1)
          /\ Ring(txOwned, dmaTx, TxTail, TxN)
      BY TxTypes DEF TxInv
    <3>2. /\ Ring(txOwned \ {dmaTx}, NextSlot(dmaTx, TxN), TxTail, TxN)
          /\ QueueOf(txFrame, txOwned, dmaTx, TxTail, TxN) # <<>>
          /\ Head(QueueOf(txFrame, txOwned, dmaTx, TxTail, TxN)) = txFrame[dmaTx]
          /\ Tail(QueueOf(txFrame, txOwned, dmaTx, TxTail, TxN))
               = QueueOf(txFrame, txOwned \ {dmaTx}, NextSlot(dmaTx, TxN), TxTail, TxN)
      BY <2>2, <3>1, QueueGet
    <3> QED
      BY <3>2 DEF TxQueue
  <2>5. TxQueue' = Tail(TxQueue)
    BY <2>1, <2>3, <2>4 DEF TxQueue
  <2>6. TxInv'
    BY <2>1, <2>2, <2>3, <2>4 DEF TxInv
  <2> QED
    BY <2>1, <2>2, <2>4, <2>5, <2>6 DEF TxSpec!Next, TxSpec!Get
<1> QED
  BY <1>2, <1>3, <1>4, <1>5, <1>6, <1>7, <1>8, <1>9, <1>10, <1>11
     DEF Next, MainLoop, Transmit, DmaTransmit

LEMMA InitTx == Init => TxInv /\ TxSpec!Init
<1> SUFFICES ASSUME Init PROVE TxInv /\ TxSpec!Init
  OBVIOUS
<1>1. TypeOK
  BY InitType
<1>2. txOwned = {} /\ TxTail = 0 /\ dmaTx = 0
  BY DEF Init, TxTail
<1>3. Count(dmaTx, TxTail, dmaTx \in txOwned, TxN) = 0
  BY <1>2 DEF Count
<1>4. Ring(txOwned, dmaTx, TxTail, TxN)
  <2>1. \A i \in 0..(TxN - 1) : i \notin txOwned /\ Dist(dmaTx, i, TxN) \in 0..(TxN - 1)
    BY <1>1, <1>2, TxTypes, DistType
  <2>2. TxN \in Nat
    BY RingAssumption
  <2> QED
    BY <1>3, <2>1, <2>2 DEF Ring
<1>5. TxQueue = <<>>
  BY <1>3 DEF TxQueue, QueueOf, Content
<1> QED
  BY <1>2, <1>4, <1>5 DEF Init, TxInv, TxSpec!Init

(* low_level_output: what is accepted is sent, in order, once and as it    *)
(* was handed over.                                                        *)
THEOREM Transmits == Spec => TransmitImplements
<1>1. Init => TxInv /\ TxSpec!Init
  BY InitTx
<1>2. TypeOK /\ TxInv /\ [Next]_vars => TxInv' /\ [TxSpec!Next]_<<TxQueue, wire>>
  BY TxStep
<1> QED
  BY <1>1, <1>2, TypeCorrect, PTL DEF Spec, TransmitImplements, TxSpec!Spec

-----------------------------------------------------------------------------
(* A frame is missed, and a reply refused, only with every descriptor in   *)
(* use: none is left where neither side will look for it.                  *)
THEOREM BlocksOnlyWhenFull == Spec => []OnlyFullBlocks
<1>1. Spec => []RxInv /\ []TxInv
  BY InitRx, InitTx, RxStep, TxStep, TypeCorrect, PTL DEF Spec
<1>2. TypeOK /\ RxInv /\ TxInv => OnlyFullBlocks
  <2> SUFFICES ASSUME TypeOK, RxInv, TxInv PROVE OnlyFullBlocks
    OBVIOUS
  <2>1. ASSUME dmaRx \notin rxOwned PROVE rxOwned = {}
    <3>1. dmaRx \in RxHeld
      BY <2>1, RxTypes DEF RxHeld
    <3>2. \A i \in RxSlots : i \in RxHeld
      BY <3>1, RxTypes, RingTail DEF RxInv
    <3> QED
      BY <3>2 DEF RxHeld, TypeOK
  <2>2. ASSUME curTx \in txOwned, pc # "poll" PROVE txOwned = TxSlots
    <3>1. TxTail = curTx
      BY <2>2 DEF TxTail
    <3>2. \A i \in TxSlots : i \in txOwned
      BY <2>2, <3>1, TxTypes, RingTail DEF TxInv
    <3> QED
      BY <3>2, TxTypes
  <2> QED
    BY <2>1, <2>2 DEF OnlyFullBlocks
<1> QED
  BY <1>1, <1>2, TypeCorrect, PTL

-----------------------------------------------------------------------------
(* Wake-ups.                                                               *)

(* A suspended transmitter has nothing in hand, and finds what it may send *)
(* only if the main loop has given it away a moment ago.                   *)
WakeInv == NoLostWakeup /\ (txIdle => sending = NoFrame)

LEMMA WakeStep ==
  ASSUME TypeOK, TxInv, WakeInv, [Next]_vars
  PROVE  WakeInv'
<1>1. CASE Receive
  <2>1. pc # "poll" /\ UNCHANGED <<txIdle, dmaTx, txOwned, sending>>
    BY <1>1 DEF Receive, CheckRxOwn, CopyFrame, GiveBack, ResumeRx, Input, StackReturns, Goto, tx
  <2> QED
    BY <2>1 DEF WakeInv, NoLostWakeup
<1>2. CASE (\E f \in Reply : CheckTxOwn(f)) \/ Refuse \/ Fill
  <2>1. pc # "poll" /\ UNCHANGED <<txIdle, dmaTx, txOwned, sending>>
    BY <1>2 DEF CheckTxOwn, Refuse, Fill, Goto, tx
  <2> QED
    BY <2>1 DEF WakeInv, NoLostWakeup
<1>3. CASE HandOver
  BY <1>3 DEF WakeInv, NoLostWakeup, HandOver, Goto
<1>4. CASE ResumeTx
  BY <1>4 DEF WakeInv, NoLostWakeup, ResumeTx
<1>5. CASE DmaReceive \/ UNCHANGED vars
  <2>1. UNCHANGED <<pc, txIdle, dmaTx, txOwned, sending>>
    BY <1>5 DEF DmaReceive, DmaStore, DmaStoreRest, Store, DmaStored, tx, vars
  <2> QED
    BY <2>1 DEF WakeInv, NoLostWakeup
<1>6. CASE DmaFetch
  BY <1>6 DEF WakeInv, NoLostWakeup, DmaFetch
<1>7. CASE DmaSuspend
  BY <1>7 DEF WakeInv, NoLostWakeup, DmaSuspend
<1>8. CASE DmaSent
  BY <1>8 DEF WakeInv, NoLostWakeup, DmaSent
<1> QED
  BY <1>1, <1>2, <1>3, <1>4, <1>5, <1>6, <1>7, <1>8
     DEF Next, MainLoop, Transmit, DmaTransmit

(* low_level_output's write to DMATPDR comes after it has handed over the  *)
(* descriptor, so that no suspension outlasts it with a frame waiting.     *)
THEOREM WakesUp == Spec => []NoLostWakeup
<1>1. Init => WakeInv
  BY DEF Init, WakeInv, NoLostWakeup
<1>2. TypeOK /\ TxInv /\ WakeInv /\ [Next]_vars => WakeInv'
  BY WakeStep
<1>3. Spec => []TxInv
  BY InitTx, TxStep, TypeCorrect, PTL DEF Spec
<1> QED
  BY <1>1, <1>2, <1>3, TypeCorrect, PTL DEF Spec, WakeInv
=============================================================================
