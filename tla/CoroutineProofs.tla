--------------------------- MODULE CoroutineProofs ---------------------------
(* Proofs about Coroutines, for any number of coroutines, calls and requests  *)
(* sent together: a coroutine that runs has all its answers, and one that can *)
(* go on is never forgotten.                                                  *)
EXTENDS Coroutines, SequenceTheorems, WellFoundedInduction, TLAPS

ListNames == {"active", "avail", "inactive", "timeout", "free"}

Once(q) == \A i, j \in 1 .. Len(q) : q[i] = q[j] => i = j

-----------------------------------------------------------------------------
(* The inductive invariant. *)

\* The status of a coroutine is the list it is in.
ListsOK(L) ==
  /\ L \in [ListNames -> Seq(Coros)]
  /\ \A l \in ListNames : Once(L[l])
  /\ \A l, m \in ListNames, c \in Coros : Contains(L[l], c) /\ Contains(L[m], c) => l = m

ListsInv ==
  /\ ListsOK(lists) /\ made \in 1 .. PoolSize
  /\ \A l \in ListNames, c \in Coros : Contains(lists[l], c) => c <= made

SchedulerPlaces ==
  {"none", "test", "lock", "asleep", "wake", "active", "avail", "round", "end", "gone"}

\* A coroutine that runs stays in the list it was resumed from.
PlaceInv ==
  /\ current \in Coros \cup {Main}
  /\ current = Main => at \in SchedulerPlaces /\ (at = "avail" => lists.avail # <<>>)
  /\ current # Main => /\ at \in {"running", "sent"}
                       /\ Contains(lists.active, current) \/ Contains(lists.avail, current)

Sent(c) == current = c /\ at = "sent"

\* Answers are expected, and announced, only for a coroutine that waits or is about to, and
\* what a queue says of a coroutine is true.
QueuesInv ==
  /\ selfQ \in Seq(Coros) /\ netQ \in Seq(Coros) /\ timers \in Seq(Coros) /\ Once(timers)
  /\ missing \in [Coros -> Nat]
  /\ \A c \in Coros : missing[c] > 0 => Sent(c) \/ Contains(lists.inactive, c)
  /\ \A c \in Coros : Contains(netQ, c) =>
       missing[c] = 0 /\ (Sent(c) \/ Contains(lists.inactive, c))
  /\ \A c \in Coros : Contains(selfQ, c) => missing[c] = 0 /\ Contains(lists.inactive, c)
  /\ \A c \in Coros : Contains(timers, c) => Contains(lists.timeout, c)

\* Also the answer that comes before the coroutine waits is in the queue.
EarlyInv == terminal \/ \A c \in Coros : Sent(c) /\ missing[c] = 0 => Contains(netQ, c)

CoroInv == ListsInv /\ PlaceInv /\ QueuesInv /\ EarlyInv /\ NoneForgotten
-----------------------------------------------------------------------------
(* Queues and lists. *)

\* push_back(), CoroutineAddTail(): one more, at the end.
LEMMA OneMore ==
  ASSUME NEW S, NEW q \in Seq(S), NEW x \in S
  PROVE  /\ Append(q, x) \in Seq(S)
         /\ \A y : Contains(Append(q, x), y) <=> Contains(q, y) \/ y = x
         /\ Once(q) /\ ~ Contains(q, x) => Once(Append(q, x))
<1> DEFINE r == Append(q, x)
<1>1. /\ r \in Seq(S) /\ Len(r) = Len(q) + 1 /\ r[Len(r)] = x
      /\ \A i \in 1 .. Len(q) : r[i] = q[i]
  BY AppendProperties
<1> HIDE DEF r
<1>2. 1 .. Len(r) = (1 .. Len(q)) \cup {Len(r)}
  BY <1>1
<1>3. \A y : Contains(r, y) <=> Contains(q, y) \/ y = x
  BY <1>1, <1>2 DEF Contains
<1>4. ASSUME Once(q), ~ Contains(q, x)
      PROVE  Once(r)
  BY <1>1, <1>2, <1>4 DEF Once, Contains
<1> QED
  BY <1>1, <1>3, <1>4 DEF r

\* What is behind the one that is removed comes one place nearer.
LEMMA Closes ==
  ASSUME NEW S, NEW q \in Seq(S), NEW k \in 1 .. Len(q)
  PROVE  /\ RemoveAt(q, k) \in Seq(S) /\ Len(RemoveAt(q, k)) = Len(q) - 1
         /\ \A i \in 1 .. k - 1 : RemoveAt(q, k)[i] = q[i]
         /\ \A i \in k .. Len(q) - 1 : RemoveAt(q, k)[i] = q[i + 1]
<1> DEFINE l == SubSeq(q, 1, k - 1)
           r == SubSeq(q, k + 1, Len(q))
           t == RemoveAt(q, k)
<1>1. /\ l \in Seq(S) /\ Len(l) = k - 1 /\ \A i \in 1 .. k - 1 : l[i] = q[i]
  OBVIOUS
<1>2. /\ r \in Seq(S) /\ Len(r) = Len(q) - k /\ \A i \in 1 .. Len(q) - k : r[i] = q[k + 1 + i - 1]
  OBVIOUS
<1>3. t = l \o r
  BY DEF RemoveAt
<1> HIDE DEF l, r, t
<1>4. /\ t \in Seq(S) /\ Len(t) = Len(l) + Len(r)
      /\ \A i \in 1 .. Len(l) + Len(r) : t[i] = IF i <= Len(l) THEN l[i] ELSE r[i - Len(l)]
  <2>1. /\ l \o r \in Seq(S) /\ Len(l \o r) = Len(l) + Len(r)
        /\ \A i \in 1 .. Len(l) + Len(r) : (l \o r)[i] = IF i <= Len(l) THEN l[i] ELSE r[i - Len(l)]
    BY <1>1, <1>2, ConcatProperties
  <2> QED
    BY <1>3, <2>1, Zenon
<1>5. ASSUME NEW i \in 1 .. k - 1
      PROVE  t[i] = q[i]
  <2>1. i \in 1 .. Len(l) + Len(r) /\ i <= Len(l)
    BY <1>1, <1>2
  <2> QED
    BY <1>1, <1>4, <2>1
<1>6. ASSUME NEW i \in k .. Len(q) - 1
      PROVE  t[i] = q[i + 1]
  <2> DEFINE j == i - (k - 1)
  <2>1. /\ j \in 1 .. Len(q) - k /\ k + 1 + j - 1 = i + 1 /\ i \in 1 .. Len(l) + Len(r)
        /\ ~ (i <= Len(l)) /\ i - Len(l) = j
    BY <1>1, <1>2
  <2>2. t[i] = r[j]
    BY <1>4, <2>1
  <2>3. r[j] = q[k + 1 + j - 1]
    BY <1>2, <2>1
  <2> QED
    BY <2>1, <2>2, <2>3
<1>7. t \in Seq(S) /\ Len(t) = Len(q) - 1
  BY <1>1, <1>2, <1>4
<1> QED
  BY <1>5, <1>6, <1>7 DEF t

\* CoroutineDel() takes one out of the list and leaves the others.
LEMMA OneLess ==
  ASSUME NEW S, NEW q \in Seq(S), Once(q), NEW x
  PROVE  /\ Unlinked(q, x) \in Seq(S) /\ Once(Unlinked(q, x))
         /\ \A y : Contains(Unlinked(q, x), y) <=> Contains(q, y) /\ y # x
<1>1. CASE ~ Contains(q, x)
  <2>1. Unlinked(q, x) = q
    BY <1>1 DEF Unlinked
  <2> QED
    BY <1>1, <2>1
<1>2. CASE Contains(q, x)
  <2>1. \E k \in DOMAIN q : q[k] = x
    BY <1>2 DEF Contains
  <2>2. PICK k \in 1 .. Len(q) : q[k] = x /\ k = CHOOSE i \in DOMAIN q : q[i] = x
    BY <2>1
  <2> DEFINE t == RemoveAt(q, k)
  <2>3. Unlinked(q, x) = t
    BY <1>2, <2>2 DEF Unlinked
  <2>4. k \in Nat /\ Len(q) \in Nat
    OBVIOUS
  <2>5. /\ t \in Seq(S) /\ Len(t) = Len(q) - 1
        /\ \A i \in 1 .. k - 1 : t[i] = q[i]
        /\ \A i \in k .. Len(q) - 1 : t[i] = q[i + 1]
    BY Closes
  <2> HIDE DEF t
  <2> DEFINE from(i) == IF i < k THEN i ELSE i + 1
  <2>8. ASSUME NEW i \in 1 .. Len(t)
        PROVE  from(i) \in 1 .. Len(q) /\ from(i) # k /\ t[i] = q[from(i)]
    <3>1. CASE i < k
      BY <2>4, <2>5, <3>1
    <3>2. CASE ~ i < k
      BY <2>4, <2>5, <3>2
    <3> QED
      BY <3>1, <3>2
  <2>9. \A i \in 1 .. Len(q) : i # k => \E j \in 1 .. Len(t) : from(j) = i
    <3> SUFFICES ASSUME NEW i \in 1 .. Len(q), i # k
                 PROVE  \E j \in 1 .. Len(t) : from(j) = i
      OBVIOUS
    <3>1. CASE i < k
      BY <2>4, <2>5, <3>1
    <3>2. CASE i > k
      <4>1. i - 1 \in 1 .. Len(t) /\ from(i - 1) = i
        BY <2>4, <2>5, <3>2
      <4> QED
        BY <4>1
    <3> QED
      BY <3>1, <3>2
  <2>10. \A i, j \in 1 .. Len(t) : from(i) = from(j) => i = j
    BY <2>5
  <2> HIDE DEF from
  <2>11. Once(t)
    BY <2>8, <2>10 DEF Once
  <2>12. ASSUME NEW y PROVE Contains(t, y) <=> Contains(q, y) /\ y # x
    <3>1. ASSUME NEW i \in 1 .. Len(t), t[i] = y
          PROVE  Contains(q, y) /\ y # x
      BY <2>2, <2>8, <3>1 DEF Contains, Once
    <3>2. ASSUME NEW i \in 1 .. Len(q), q[i] = y, y # x
          PROVE  Contains(t, y)
      <4>1. PICK j \in 1 .. Len(t) : from(j) = i
        BY <2>2, <2>9, <3>2
      <4>2. t[j] = y
        BY <2>8, <3>2, <4>1
      <4> QED
        BY <4>2 DEF Contains
    <3> QED
      BY <3>1, <3>2 DEF Contains
  <2> QED
    BY <2>3, <2>5, <2>11, <2>12
<1> QED
  BY <1>1, <1>2

\* One of these lists has the coroutine.
InOne(L, from, c) == \E l \in from : Contains(L[l], c)

\* CoroutineDel() and CoroutineAddTail() leave a coroutine in one list.
LEMMA MovedOne ==
  ASSUME NEW L, ListsOK(L), NEW from \in SUBSET ListNames, NEW to \in ListNames, NEW c \in Coros
  PROVE  LET M == MoveFrom(L, from, to, c)
         IN  /\ ListsOK(M)
             /\ \A l \in ListNames, d \in Coros :
                  Contains(M[l], d) <=> IF d = c /\ InOne(L, from, c) THEN l = to ELSE Contains(L[l], d)
<1> DEFINE M == MoveFrom(L, from, to, c)
<1>1. CASE ~ InOne(L, from, c)
  <2>1. M = L
    BY <1>1 DEF MoveFrom, InOne
  <2> QED
    BY <1>1, <2>1
<1>2. CASE InOne(L, from, c)
  <2>0. /\ L \in [ListNames -> Seq(Coros)]
        /\ \A l \in ListNames : L[l] \in Seq(Coros) /\ Once(L[l])
    BY DEF ListsOK
  <2>1. M = [l \in ListNames |-> IF l = to THEN Append(Unlinked(L[l], c), c) ELSE Unlinked(L[l], c)]
    <3>1. DOMAIN L = ListNames
      BY <2>0
    <3> QED
      BY <1>2, <3>1 DEF MoveFrom, MoveTo, InOne
  <2> HIDE DEF M
  <2>2. ASSUME NEW l \in ListNames
        PROVE  /\ M[l] \in Seq(Coros) /\ Once(M[l])
               /\ \A d : Contains(M[l], d) <=> IF d = c THEN l = to ELSE Contains(L[l], d)
    <3>1. PICK q : q = Unlinked(L[l], c)
      OBVIOUS
    <3>2. /\ q \in Seq(Coros) /\ Once(q)
          /\ \A d : Contains(q, d) <=> Contains(L[l], d) /\ d # c
      BY <2>0, <3>1, OneLess
    <3>3. M[l] = IF l = to THEN Append(q, c) ELSE q
      BY <2>1, <3>1
    <3>4. CASE l = to
      <4>1. M[l] = Append(q, c)
        BY <3>3, <3>4
      <4> QED
        BY <3>2, <3>4, <4>1, OneMore
    <3>5. CASE l # to
      BY <3>2, <3>3, <3>5
    <3> QED
      BY <3>4, <3>5
  <2>3. \A l \in ListNames, d \in Coros :
          Contains(M[l], d) <=> IF d = c THEN l = to ELSE Contains(L[l], d)
    BY <2>2
  <2>4. \A l, m \in ListNames, d \in Coros : Contains(M[l], d) /\ Contains(M[m], d) => l = m
    BY <2>3 DEF ListsOK
  <2>5. M \in [ListNames -> Seq(Coros)]
    BY <2>1, <2>2
  <2> QED
    BY <1>2, <2>2, <2>3, <2>4, <2>5 DEF ListsOK, M
<1> QED
  BY <1>1, <1>2
\* M differs from L in that c is in the list to.
Differs(M, L, to, c) ==
  \A l \in ListNames, d \in Coros :
    Contains(M[l], d) <=> IF d = c THEN l = to ELSE Contains(L[l], d)

\* One that is in one of the lists is then in the other.
LEMMA MovedThere ==
  ASSUME NEW L, ListsOK(L), NEW from \in SUBSET ListNames, NEW to \in ListNames, NEW c \in Coros,
         InOne(L, from, c)
  PROVE  ListsOK(MoveFrom(L, from, to, c)) /\ Differs(MoveFrom(L, from, to, c), L, to, c)
<1>1. PICK M : M = MoveFrom(L, from, to, c)
  OBVIOUS
<1>2. /\ ListsOK(M)
      /\ \A l \in ListNames, d \in Coros :
           Contains(M[l], d) <=> IF d = c /\ InOne(L, from, d) THEN l = to ELSE Contains(L[l], d)
  BY <1>1, MovedOne
<1>3. Differs(M, L, to, c)
  BY <1>2 DEF Differs
<1> QED
  BY <1>1, <1>2, <1>3

\* What the function inside AllMoved is at n, in terms of what it is before.
NextMoved(g, n, L, from, to, q) ==
  IF n = 0 THEN L ELSE MoveFrom(g[n - 1], from, to, q[n])

IsMoved(g, k, L, from, to, q) == g = [n \in 0 .. k |-> NextMoved(g, n, L, from, to, q)]

\* Such a function exists for each beginning of the queue.
LEMMA MovedExists ==
  ASSUME NEW L, NEW from, NEW to, NEW q, NEW m \in Nat
  PROVE  \E g : IsMoved(g, m, L, from, to, q)
<1> DEFINE bad == {k \in Nat : \A g : ~ IsMoved(g, k, L, from, to, q)}
<1>1. bad = {}
  <2> SUFFICES ASSUME bad # {}
               PROVE  FALSE
    OBVIOUS
  <2>1. bad \subseteq Nat
    OBVIOUS
  <2> HIDE DEF bad
  <2>2. PICK k \in bad : \A j \in bad : ~ (<<j, k>> \in OpToRel(<, Nat))
    BY <2>1, NatLessThanWellFounded, WFMin
  <2>3. k \in Nat /\ \A j \in Nat : j < k => j \notin bad
    BY <2>1, <2>2 DEF OpToRel
  <2>4. \A g : ~ IsMoved(g, k, L, from, to, q)
    BY DEF bad
  <2>5. CASE k = 0
    <3> DEFINE g == [n \in 0 .. 0 |-> L]
    <3>1. g = [n \in 0 .. 0 |-> NextMoved(g, n, L, from, to, q)]
      <4>1. \A n \in 0 .. 0 : NextMoved(g, n, L, from, to, q) = L
        BY DEF NextMoved
      <4> QED
        BY <4>1
    <3> HIDE DEF g
    <3> QED
      BY <2>4, <2>5, <3>1 DEF IsMoved
  <2>6. CASE k > 0
    <3>1. k - 1 \in Nat /\ k - 1 < k
      BY <2>3, <2>6
    <3>2. PICK f : IsMoved(f, k - 1, L, from, to, q)
      BY <2>3, <3>1 DEF bad
    <3>3. \A n \in 0 .. k - 1 : f[n] = NextMoved(f, n, L, from, to, q)
      BY <3>2 DEF IsMoved
    <3> DEFINE g == [n \in 0 .. k |-> IF n = k THEN MoveFrom(f[k - 1], from, to, q[k]) ELSE f[n]]
    <3>4. \A n \in 0 .. k - 1 : g[n] = f[n]
      BY <2>3, <2>6
    <3>5. g[k] = MoveFrom(f[k - 1], from, to, q[k]) /\ DOMAIN g = 0 .. k
      BY <2>3
    <3>6. g = [n \in 0 .. k |-> g[n]]
      OBVIOUS
    <3> HIDE DEF g
    <3>7. ASSUME NEW n \in 0 .. k
          PROVE  g[n] = NextMoved(g, n, L, from, to, q)
      <4>1. CASE n = k
        <5>1. k - 1 \in 0 .. k - 1 /\ n # 0
          BY <2>3, <2>6, <4>1
        <5>2. g[n - 1] = f[k - 1]
          BY <3>4, <4>1, <5>1
        <5> QED
          BY <3>5, <4>1, <5>1, <5>2 DEF NextMoved
      <4>2. CASE n # k /\ n # 0
        <5>1. n \in 0 .. k - 1 /\ n - 1 \in 0 .. k - 1
          BY <2>3, <4>2
        <5>2. g[n] = f[n] /\ g[n - 1] = f[n - 1] /\ f[n] = NextMoved(f, n, L, from, to, q)
          BY <3>3, <3>4, <5>1
        <5> QED
          BY <4>2, <5>2 DEF NextMoved
      <4>3. CASE n # k /\ n = 0
        <5>1. n \in 0 .. k - 1
          BY <2>3, <4>3
        <5>2. g[n] = f[n] /\ f[n] = NextMoved(f, n, L, from, to, q)
          BY <3>3, <3>4, <5>1
        <5> QED
          BY <4>3, <5>2 DEF NextMoved
      <4> QED
        BY <4>1, <4>2, <4>3
    <3>8. g = [n \in 0 .. k |-> NextMoved(g, n, L, from, to, q)]
      BY <3>6, <3>7
    <3> QED
      BY <2>4, <3>8 DEF IsMoved
  <2> QED
    BY <2>3, <2>5, <2>6
<1> QED
  BY <1>1

\* The first n of the queue that were in one of the lists are in the list to.
MovedUpto(M, n, L, from, to, q) ==
  /\ ListsOK(M)
  /\ \A l \in ListNames, d \in Coros :
       Contains(M[l], d) <=> IF (\E i \in 1 .. n : q[i] = d) /\ InOne(L, from, d)
                             THEN l = to ELSE Contains(L[l], d)

\* One more of the queue is moved, or stays where it is.
LEMMA MovedNext ==
  ASSUME NEW L, NEW from \in SUBSET ListNames, NEW to \in ListNames \ from, NEW q \in Seq(Coros),
         NEW n \in 1 .. Len(q), NEW M, MovedUpto(M, n - 1, L, from, to, q)
  PROVE  MovedUpto(MoveFrom(M, from, to, q[n]), n, L, from, to, q)
<1>1. PICK c \in Coros : c = q[n]
  OBVIOUS
<1>2. PICK N : N = MoveFrom(M, from, to, c)
  OBVIOUS
<1>3. /\ ListsOK(M)
      /\ \A l \in ListNames, d \in Coros :
           Contains(M[l], d) <=> IF (\E i \in 1 .. n - 1 : q[i] = d) /\ InOne(L, from, d)
                                 THEN l = to ELSE Contains(L[l], d)
  BY DEF MovedUpto
<1>4. /\ ListsOK(N)
      /\ \A l \in ListNames, d \in Coros :
           Contains(N[l], d) <=> IF d = c /\ InOne(M, from, d) THEN l = to ELSE Contains(M[l], d)
  BY <1>2, <1>3, MovedOne
<1>5. \A d \in Coros : (\E i \in 1 .. n : q[i] = d) <=> (\E i \in 1 .. n - 1 : q[i] = d) \/ d = c
  <2>1. 1 .. n = (1 .. n - 1) \cup {n}
    OBVIOUS
  <2> QED
    BY <1>1, <2>1
<1>6. ASSUME NEW d \in Coros
      PROVE  InOne(M, from, d) <=> InOne(L, from, d) /\ ~ \E i \in 1 .. n - 1 : q[i] = d
  BY <1>3 DEF InOne
<1>7. ASSUME NEW l \in ListNames, NEW d \in Coros
      PROVE  Contains(N[l], d) <=> IF (\E i \in 1 .. n : q[i] = d) /\ InOne(L, from, d)
                                   THEN l = to ELSE Contains(L[l], d)
  <2> DEFINE before == \E i \in 1 .. n - 1 : q[i] = d
             upto == \E i \in 1 .. n : q[i] = d
  <2>1. upto <=> before \/ d = c
    BY <1>5
  <2>2. Contains(M[l], d) <=> IF before /\ InOne(L, from, d) THEN l = to ELSE Contains(L[l], d)
    BY <1>3
  <2>3. Contains(N[l], d) <=> IF d = c /\ InOne(M, from, d) THEN l = to ELSE Contains(M[l], d)
    BY <1>4
  <2>4. InOne(M, from, d) <=> InOne(L, from, d) /\ ~ before
    BY <1>6
  <2> HIDE DEF before, upto
  <2>5. Contains(N[l], d) <=> IF upto /\ InOne(L, from, d) THEN l = to ELSE Contains(L[l], d)
    BY <2>1, <2>2, <2>3, <2>4
  <2> QED
    BY <2>5 DEF upto
<1>8. MovedUpto(N, n, L, from, to, q)
  BY <1>4, <1>7 DEF MovedUpto
<1> QED
  BY <1>1, <1>2, <1>8

\* After all of a queue have been moved, those that were in one of the lists are in the other.
LEMMA MovedAll ==
  ASSUME NEW L, ListsOK(L), NEW from \in SUBSET ListNames, NEW to \in ListNames \ from,
         NEW q \in Seq(Coros)
  PROVE  LET M == AllMoved(L, from, to, q)
         IN  /\ ListsOK(M)
             /\ \A l \in ListNames, d \in Coros :
                  Contains(M[l], d) <=> IF Contains(q, d) /\ InOne(L, from, d)
                                        THEN l = to ELSE Contains(L[l], d)
<1> DEFINE moved == CHOOSE g : IsMoved(g, Len(q), L, from, to, q)
<1>0. Len(q) \in Nat
  OBVIOUS
<1>1. IsMoved(moved, Len(q), L, from, to, q)
  BY <1>0, MovedExists
<1>2. AllMoved(L, from, to, q) = moved[Len(q)]
  BY DEF AllMoved, IsMoved, NextMoved
<1> HIDE DEF moved
<1>3. \A n \in 0 .. Len(q) : moved[n] = NextMoved(moved, n, L, from, to, q)
  BY <1>1 DEF IsMoved
<1> DEFINE bad == {n \in 0 .. Len(q) : ~ MovedUpto(moved[n], n, L, from, to, q)}
<1>4. bad = {}
  <2> SUFFICES ASSUME bad # {}
               PROVE  FALSE
    OBVIOUS
  <2>1. bad \subseteq Nat
    BY <1>0
  <2> HIDE DEF bad
  <2>2. PICK n \in bad : \A j \in bad : ~ (<<j, n>> \in OpToRel(<, Nat))
    BY <2>1, NatLessThanWellFounded, WFMin
  <2>3. n \in Nat /\ \A j \in Nat : j < n => j \notin bad
    BY <2>1, <2>2 DEF OpToRel
  <2>4. n \in 0 .. Len(q) /\ ~ MovedUpto(moved[n], n, L, from, to, q)
    BY DEF bad
  <2>5. CASE n = 0
    <3>1. moved[n] = L
      BY <1>3, <2>4, <2>5 DEF NextMoved
    <3>2. MovedUpto(L, n, L, from, to, q)
      BY <2>5 DEF MovedUpto
    <3> QED
      BY <2>4, <3>1, <3>2
  <2>6. CASE n > 0
    <3>1. n - 1 \in 0 .. Len(q) /\ n - 1 \in Nat /\ n - 1 < n /\ n \in 1 .. Len(q)
      BY <1>0, <2>4, <2>6
    <3>2. MovedUpto(moved[n - 1], n - 1, L, from, to, q)
      BY <2>3, <3>1 DEF bad
    <3>3. moved[n] = MoveFrom(moved[n - 1], from, to, q[n])
      BY <1>3, <2>4, <2>6 DEF NextMoved
    <3> QED
      BY <2>4, <3>1, <3>2, <3>3, MovedNext
  <2> QED
    BY <2>3, <2>5, <2>6
<1>5. MovedUpto(moved[Len(q)], Len(q), L, from, to, q)
  BY <1>0, <1>4
<1> QED
  BY <1>2, <1>5 DEF MovedUpto, Contains
\* generateId(): numbers in a row.
LEMMA InARow ==
  ASSUME NEW a \in Nat \ {0}, NEW b \in Nat, a <= b + 1, b <= PoolSize
  PROVE  /\ Interval(a, b) \in Seq(Coros) /\ Once(Interval(a, b)) /\ Len(Interval(a, b)) = b - a + 1
         /\ \A c : Contains(Interval(a, b), c) <=> c \in a .. b
<1> DEFINE q == Interval(a, b)
<1>0. PoolSize \in Nat
  BY CoroutinesAssumption
<1>1. /\ q \in Seq(Coros) /\ Len(q) = b - a + 1
      /\ \A i \in 1 .. b - a + 1 : q[i] = a + i - 1
  BY <1>0 DEF Interval, Coros
<1> HIDE DEF q
<1>2. Once(q)
  BY <1>1 DEF Once
<1>3. ASSUME NEW c
      PROVE  Contains(q, c) <=> c \in a .. b
  <2>1. ASSUME c \in a .. b
        PROVE  Contains(q, c)
    <3>1. c - a + 1 \in 1 .. Len(q) /\ a + (c - a + 1) - 1 = c
      BY <1>1, <2>1
    <3>2. q[c - a + 1] = c
      BY <1>1, <3>1
    <3> QED
      BY <3>1, <3>2 DEF Contains
  <2>2. ASSUME NEW i \in 1 .. Len(q), q[i] = c
        PROVE  c \in a .. b
    BY <1>1, <2>2
  <2> QED
    BY <2>1, <2>2 DEF Contains
<1> QED
  BY <1>1, <1>2, <1>3 DEF q

\* Two queues in one.
LEMMA Joined ==
  ASSUME NEW S, NEW p \in Seq(S), NEW r \in Seq(S)
  PROVE  /\ p \o r \in Seq(S) /\ Len(p \o r) = Len(p) + Len(r)
         /\ \A x : Contains(p \o r, x) <=> Contains(p, x) \/ Contains(r, x)
         /\ Once(p) /\ Once(r) /\ (\A x : ~ (Contains(p, x) /\ Contains(r, x))) => Once(p \o r)
<1> DEFINE q == p \o r
<1>1. /\ q \in Seq(S) /\ Len(q) = Len(p) + Len(r)
      /\ \A i \in 1 .. Len(p) + Len(r) : q[i] = IF i <= Len(p) THEN p[i] ELSE r[i - Len(p)]
  BY ConcatProperties
<1> HIDE DEF q
<1>2. \A i \in 1 .. Len(p) : q[i] = p[i] /\ i \in 1 .. Len(q)
  BY <1>1
<1>3. ASSUME NEW i \in 1 .. Len(r)
      PROVE  q[Len(p) + i] = r[i] /\ Len(p) + i \in 1 .. Len(q)
  <2>1. Len(p) + i \in 1 .. Len(p) + Len(r) /\ ~ (Len(p) + i <= Len(p)) /\ (Len(p) + i) - Len(p) = i
    OBVIOUS
  <2> QED
    BY <1>1, <2>1
<1>4. ASSUME NEW i \in 1 .. Len(q), ~ i \in 1 .. Len(p)
      PROVE  i - Len(p) \in 1 .. Len(r) /\ q[i] = r[i - Len(p)]
  BY <1>1, <1>4
<1>5. ASSUME NEW x PROVE Contains(q, x) <=> Contains(p, x) \/ Contains(r, x)
  <2>1. Contains(p, x) => Contains(q, x)
    BY <1>2 DEF Contains
  <2>2. Contains(r, x) => Contains(q, x)
    BY <1>3 DEF Contains
  <2>3. ASSUME NEW i \in 1 .. Len(q), q[i] = x
        PROVE  Contains(p, x) \/ Contains(r, x)
    BY <1>2, <1>4, <2>3 DEF Contains
  <2> QED
    BY <2>1, <2>2, <2>3 DEF Contains
<1>6. ASSUME Once(p), Once(r), \A x : ~ (Contains(p, x) /\ Contains(r, x))
      PROVE  Once(q)
  <2> SUFFICES ASSUME NEW i \in 1 .. Len(q), NEW j \in 1 .. Len(q), q[i] = q[j]
               PROVE  i = j
    BY DEF Once
  <2>1. CASE i \in 1 .. Len(p) /\ j \in 1 .. Len(p)
    BY <1>2, <1>6, <2>1 DEF Once
  <2>2. CASE i \in 1 .. Len(p) /\ ~ j \in 1 .. Len(p)
    <3>1. q[i] = p[i] /\ q[j] = r[j - Len(p)] /\ j - Len(p) \in 1 .. Len(r)
      BY <1>2, <1>4, <2>2
    <3> QED
      BY <1>6, <2>2, <3>1 DEF Contains
  <2>3. CASE ~ i \in 1 .. Len(p) /\ j \in 1 .. Len(p)
    <3>1. q[j] = p[j] /\ q[i] = r[i - Len(p)] /\ i - Len(p) \in 1 .. Len(r)
      BY <1>2, <1>4, <2>3
    <3> QED
      BY <1>6, <2>3, <3>1 DEF Contains
  <2>4. CASE ~ i \in 1 .. Len(p) /\ ~ j \in 1 .. Len(p)
    <3>1. /\ i - Len(p) \in 1 .. Len(r) /\ j - Len(p) \in 1 .. Len(r)
          /\ r[i - Len(p)] = r[j - Len(p)]
      BY <1>4, <2>4
    <3>2. i - Len(p) = j - Len(p)
      BY <1>6, <3>1 DEF Once
    <3> QED
      BY <3>2
  <2> QED
    BY <2>1, <2>2, <2>3, <2>4
<1> QED
  BY <1>1, <1>5, <1>6 DEF q

\* The first of a queue and the others.
LEMMA FirstAndOthers ==
  ASSUME NEW S, NEW q \in Seq(S), q # << >>
  PROVE  /\ Head(q) \in S /\ Tail(q) \in Seq(S) /\ Contains(q, Head(q))
         /\ Once(q) => /\ Once(Tail(q))
                       /\ \A x : Contains(Tail(q), x) <=> Contains(q, x) /\ x # Head(q)
<1> DEFINE t == Tail(q)
<1>1. /\ Head(q) = q[1] /\ Head(q) \in S /\ Len(q) \in Nat \ {0}
      /\ t \in Seq(S) /\ Len(t) = Len(q) - 1 /\ \A i \in 1 .. Len(t) : t[i] = q[i + 1]
  BY HeadTailProperties, EmptySeq
<1> HIDE DEF t
<1>2. Contains(q, Head(q))
  BY <1>1 DEF Contains
<1>3. ASSUME Once(q)
      PROVE  Once(t) /\ \A x : Contains(t, x) <=> Contains(q, x) /\ x # Head(q)
  <2>0. \A i \in 1 .. Len(t) : i + 1 \in 1 .. Len(q) /\ i + 1 # 1
    BY <1>1
  <2>1. Once(t)
    BY <1>1, <1>3, <2>0 DEF Once
  <2>2. ASSUME NEW x, NEW i \in 1 .. Len(t), t[i] = x
        PROVE  Contains(q, x) /\ x # Head(q)
    <3>1. q[i + 1] = x /\ 1 \in 1 .. Len(q)
      BY <1>1, <2>2
    <3> QED
      BY <1>1, <1>3, <2>0, <3>1 DEF Contains, Once
  <2>3. ASSUME NEW x, NEW i \in 1 .. Len(q), q[i] = x, x # Head(q)
        PROVE  Contains(t, x)
    <3>1. i - 1 \in 1 .. Len(t) /\ (i - 1) + 1 = i
      BY <1>1, <2>3
    <3>2. t[i - 1] = x
      BY <1>1, <2>3, <3>1
    <3> QED
      BY <3>1, <3>2 DEF Contains
  <2> QED
    BY <2>1, <2>2, <2>3 DEF Contains
<1> QED
  BY <1>1, <1>2, <1>3 DEF t

\* The first n and the others.
LEMMA Halves ==
  ASSUME NEW S, NEW q \in Seq(S), Once(q), NEW n \in 0 .. Len(q)
  PROVE  LET l == SubSeq(q, 1, n)
             r == SubSeq(q, n + 1, Len(q))
         IN  /\ l \in Seq(S) /\ r \in Seq(S) /\ Once(r)
             /\ \A x : Contains(q, x) <=> Contains(l, x) \/ Contains(r, x)
             /\ \A x : ~ (Contains(l, x) /\ Contains(r, x))
<1> DEFINE l == SubSeq(q, 1, n)
           r == SubSeq(q, n + 1, Len(q))
<1>1. l \in Seq(S) /\ Len(l) = n /\ \A i \in 1 .. n : l[i] = q[i]
  OBVIOUS
<1>2. r \in Seq(S) /\ Len(r) = Len(q) - n /\ \A i \in 1 .. Len(q) - n : r[i] = q[n + 1 + i - 1]
  OBVIOUS
<1> HIDE DEF l, r
<1>3. ASSUME NEW i \in 1 .. Len(r)
      PROVE  n + i \in 1 .. Len(q) /\ r[i] = q[n + i] /\ ~ n + i \in 1 .. n
  <2>1. n + 1 + i - 1 = n + i /\ i \in 1 .. Len(q) - n
    BY <1>2
  <2> QED
    BY <1>2, <2>1
<1>4. ASSUME NEW i \in 1 .. Len(q), ~ i \in 1 .. n
      PROVE  i - n \in 1 .. Len(r) /\ n + (i - n) = i
  BY <1>2, <1>4
<1>5. \A i \in 1 .. n : i \in 1 .. Len(q)
  OBVIOUS
<1>6. Once(r)
  <2> SUFFICES ASSUME NEW i \in 1 .. Len(r), NEW j \in 1 .. Len(r), r[i] = r[j]
               PROVE  i = j
    BY DEF Once
  <2>1. n + i = n + j
    BY <1>3 DEF Once
  <2> QED
    BY <2>1, <1>2
<1>7. ASSUME NEW x PROVE Contains(q, x) <=> Contains(l, x) \/ Contains(r, x)
  <2>1. Contains(l, x) => Contains(q, x)
    BY <1>1, <1>5 DEF Contains
  <2>2. Contains(r, x) => Contains(q, x)
    BY <1>3 DEF Contains
  <2>3. ASSUME NEW i \in 1 .. Len(q), q[i] = x
        PROVE  Contains(l, x) \/ Contains(r, x)
    <3>1. CASE i \in 1 .. n
      BY <1>1, <2>3, <3>1 DEF Contains
    <3>2. CASE ~ i \in 1 .. n
      <4>1. i - n \in 1 .. Len(r) /\ r[i - n] = q[n + (i - n)] /\ n + (i - n) = i
        BY <1>3, <1>4, <3>2
      <4> QED
        BY <2>3, <4>1 DEF Contains
    <3> QED
      BY <3>1, <3>2
  <2> QED
    BY <2>1, <2>2, <2>3 DEF Contains
<1>8. ASSUME NEW x, Contains(l, x), Contains(r, x) PROVE FALSE
  <2>1. PICK i \in 1 .. n : q[i] = x
    BY <1>1, <1>8 DEF Contains
  <2>2. PICK j \in 1 .. Len(r) : q[n + j] = x
    BY <1>3, <1>8 DEF Contains
  <2> QED
    BY <1>3, <1>5, <2>1, <2>2 DEF Once
<1> QED
  BY <1>1, <1>2, <1>6, <1>7, <1>8 DEF l, r

\* One more, anywhere.
LEMMA OnePutIn ==
  ASSUME NEW S, NEW q \in Seq(S), Once(q), NEW x \in S, ~ Contains(q, x), NEW k \in 1 .. Len(q) + 1
  PROVE  /\ InsertAt(q, k, x) \in Seq(S) /\ Once(InsertAt(q, k, x))
         /\ \A y : Contains(InsertAt(q, k, x), y) <=> Contains(q, y) \/ y = x
<1>1. PICK n \in 0 .. Len(q) : n = k - 1 /\ n + 1 = k
  <2>1. k - 1 \in 0 .. Len(q) /\ (k - 1) + 1 = k
    OBVIOUS
  <2> QED
    BY <2>1
<1>2. PICK l, r : l = SubSeq(q, 1, n) /\ r = SubSeq(q, n + 1, Len(q))
  OBVIOUS
<1>3. /\ l \in Seq(S) /\ r \in Seq(S) /\ Once(r)
      /\ \A y : Contains(q, y) <=> Contains(l, y) \/ Contains(r, y)
      /\ \A y : ~ (Contains(l, y) /\ Contains(r, y))
  BY <1>2, Halves
<1>4. Once(l)
  <2>1. /\ Len(l) = n /\ \A i \in 1 .. n : l[i] = q[i] /\ i \in 1 .. Len(q)
    BY <1>2
  <2> QED
    BY <2>1 DEF Once
<1>5. PICK m : m = Append(l, x)
  OBVIOUS
<1>6. m \in Seq(S) /\ Once(m) /\ \A y : Contains(m, y) <=> Contains(l, y) \/ y = x
  BY <1>3, <1>4, <1>5, OneMore
<1>7. InsertAt(q, k, x) = m \o r
  <2>1. m = l \o <<x>>
    BY <1>3, <1>5, AppendIsConcat
  <2>2. InsertAt(q, k, x) = SubSeq(q, 1, k - 1) \o <<x>> \o SubSeq(q, k, Len(q))
    BY DEF InsertAt
  <2> QED
    BY <1>1, <1>2, <2>1, <2>2, Zenon
<1> QED
  BY <1>3, <1>6, <1>7, Joined
-----------------------------------------------------------------------------
(* The initial states. *)

\* The coroutines handleCoro() starts with are new and the others free.
LEMMA InitCoro == CoroutinesInit => CoroInv
<1> SUFFICES ASSUME CoroutinesInit
             PROVE  CoroInv
  OBVIOUS
<1>1. made \in 1 .. PoolSize /\ FirstCoros \in 1 .. made
  <2>1. PICK n \in 1 .. FirstCoros : /\ FirstCoros \in (n - 1) * Grow + 1 .. n * Grow
                                     /\ made = Least(PoolSize, n * Grow)
    BY DEF CoroutinesInit
  <2>2. PICK k \in Nat : k = n * Grow
    BY <2>1, CoroutinesAssumption
  <2>3. FirstCoros <= k /\ made = Least(PoolSize, k)
    BY <2>1, <2>2
  <2> QED
    BY <2>3, CoroutinesAssumption DEF Least
<1>2. /\ lists = [active |-> <<>>, avail |-> Interval(1, FirstCoros), inactive |-> <<>>,
                  timeout |-> <<>>, free |-> Interval(FirstCoros + 1, made)]
      /\ selfQ = <<>> /\ netQ = <<>> /\ timers = <<>>
      /\ current = Main /\ at = "none"
      /\ missing = [c \in Coros |-> 0]
  BY DEF CoroutinesInit
<1>3. PICK p, q : p = Interval(1, FirstCoros) /\ q = Interval(FirstCoros + 1, made)
  OBVIOUS
<1>4. /\ p \in Seq(Coros) /\ Once(p) /\ q \in Seq(Coros) /\ Once(q)
      /\ \A c : Contains(p, c) <=> c \in 1 .. FirstCoros
      /\ \A c : Contains(q, c) <=> c \in FirstCoros + 1 .. made
  <2>1. /\ 1 \in Nat \ {0} /\ FirstCoros \in Nat /\ 1 <= FirstCoros + 1 /\ FirstCoros <= PoolSize
        /\ FirstCoros + 1 \in Nat \ {0} /\ made \in Nat /\ FirstCoros + 1 <= made + 1 /\ made <= PoolSize
    BY <1>1, CoroutinesAssumption
  <2> QED
    BY <1>3, <2>1, InARow
<1>5. << >> \in Seq(Coros) /\ Once(<< >>) /\ \A c : ~ Contains(<< >>, c)
  BY DEF Once, Contains
<1>6. lists = [l \in ListNames |-> CASE l = "avail" -> p [] l = "free" -> q [] OTHER -> << >>]
  BY <1>2, <1>3 DEF ListNames
<1>7. lists["avail"] = p /\ lists["free"] = q /\ \A l \in ListNames \ {"avail", "free"} : lists[l] = << >>
  BY <1>6 DEF ListNames
<1>8. \A c \in Coros : ~ (Contains(p, c) /\ Contains(q, c))
  BY <1>1, <1>4
<1>9. ListsOK(lists)
  <2>1. \A l \in ListNames : lists[l] \in Seq(Coros) /\ Once(lists[l])
    BY <1>4, <1>5, <1>7
  <2>2. lists \in [ListNames -> Seq(Coros)]
    BY <1>6, <2>1
  <2>3. \A l, m \in ListNames, c \in Coros : Contains(lists[l], c) /\ Contains(lists[m], c) => l = m
    BY <1>5, <1>7, <1>8
  <2> QED
    BY <2>1, <2>2, <2>3 DEF ListsOK
<1>10. ListsInv
  <2>1. \A l \in ListNames, c \in Coros : Contains(lists[l], c) => c <= made
    BY <1>1, <1>4, <1>5, <1>7
  <2> QED
    BY <1>1, <1>9, <2>1 DEF ListsInv
<1>11. PlaceInv
  BY <1>2 DEF PlaceInv, SchedulerPlaces
<1>12. QueuesInv
  BY <1>2, <1>5 DEF QueuesInv
<1>13. EarlyInv
  BY <1>2 DEF EarlyInv, Sent
<1>14. NoneForgotten
  BY <1>2, <1>5 DEF NoneForgotten
<1> QED
  BY <1>10, <1>11, <1>12, <1>13, <1>14 DEF CoroInv

-----------------------------------------------------------------------------
(* The steps of the scheduler. *)

\* Steps that only change where the thread is: it stays in the scheduler.
LEMMA OnlyPlace ==
  ASSUME CoroInv, UNCHANGED <<lists, made, selfQ, netQ, timers, missing, terminal>>,
         current = Main, current' = Main, at' \in SchedulerPlaces,
         at' = "avail" => lists.avail # <<>>,
         at' = "asleep" => at = "asleep" \/ netQ = <<>>,
         at = "asleep" => putting' = putting \/ at' # "asleep"
  PROVE  CoroInv'
<1>0. CoroInv
  OBVIOUS
<1>1. Main \notin Coros
  BY DEF Main, Coros
<1>2. ListsInv'
  BY DEF CoroInv, ListsInv, ListsOK
<1>3. PlaceInv'
  BY DEF PlaceInv
<1>4. \A c \in Coros : ~ Sent(c) /\ ~ Sent(c)'
  BY <1>1 DEF Sent
<1>5. QueuesInv'
  BY <1>4 DEF CoroInv, QueuesInv
<1>6. EarlyInv'
  BY <1>4 DEF EarlyInv
<1>7. NoneForgotten'
  BY DEF CoroInv, NoneForgotten
<1> QED
  BY <1>2, <1>3, <1>5, <1>6, <1>7 DEF CoroInv

\* switchCoro() to a coroutine that is first in its list.
LEMMA Resumed ==
  ASSUME CoroInv, UNCHANGED <<lists, made, selfQ, netQ, timers, missing, terminal>>,
         current = Main, at' = "running",
         \/ lists.active # <<>> /\ current' = Head(lists.active)
         \/ lists.avail # <<>> /\ current' = Head(lists.avail)
  PROVE  CoroInv'
<1>1. Main \notin Coros
  BY DEF Main, Coros
<1>2. ListsInv'
  BY DEF CoroInv, ListsInv, ListsOK
<1>3. lists.active \in Seq(Coros) /\ lists.avail \in Seq(Coros)
  BY DEF CoroInv, ListsInv, ListsOK, ListNames
<1>4. PlaceInv'
  <2>1. current' \in Coros /\ (Contains(lists.active, current') \/ Contains(lists.avail, current'))
    <3>1. CASE lists.active # <<>> /\ current' = Head(lists.active)
      BY <1>3, <3>1, FirstAndOthers
    <3>2. CASE lists.avail # <<>> /\ current' = Head(lists.avail)
      BY <1>3, <3>2, FirstAndOthers
    <3> QED
      BY <3>1, <3>2
  <2> QED
    BY <1>1, <2>1 DEF PlaceInv
<1>5. \A c \in Coros : ~ Sent(c) /\ ~ Sent(c)'
  BY <1>1 DEF Sent
<1>6. QueuesInv'
  BY <1>5 DEF CoroInv, QueuesInv
<1>7. EarlyInv'
  BY <1>5 DEF EarlyInv
<1>8. NoneForgotten'
  BY DEF CoroInv, NoneForgotten
<1> QED
  BY <1>2, <1>4, <1>6, <1>7, <1>8 DEF CoroInv

\* The timers whose time has come, then those that yielded, then those whose answers are
\* there: who is left waits for an answer or has a time.
LEMMA WakeUpStep ==
  ASSUME CoroInv, WakeUp
  PROVE  CoroInv'
<1>0. /\ current = Main /\ at = "wake" /\ at' = "active"
      /\ UNCHANGED <<made, current, missing, putting, terminal>>
  BY DEF WakeUp, Scheduler
<1>1. CASE terminal
  <2>1. UNCHANGED <<lists, selfQ, netQ, timers>>
    BY <1>1 DEF WakeUp
  <2> QED
    BY <1>0, <2>1, OnlyPlace DEF SchedulerPlaces
<1>2. CASE ~ terminal
  <2>0. PICK n \in 0 .. Len(timers) :
          /\ lists' = AllToActive(AllToAvail(AllToActive(lists, SubSeq(timers, 1, n)), selfQ), netQ)
          /\ timers' = SubSeq(timers, n + 1, Len(timers))
          /\ selfQ' = <<>> /\ netQ' = <<>>
    BY <1>2 DEF WakeUp
  <2>1. PICK soon, later : soon = SubSeq(timers, 1, n) /\ later = SubSeq(timers, n + 1, Len(timers))
    OBVIOUS
  <2>2. PICK L, M : L = AllToActive(lists, soon) /\ M = AllToAvail(L, selfQ)
    OBVIOUS
  <2>3. lists' = AllToActive(M, netQ) /\ timers' = later
    BY <2>0, <2>1, <2>2
  <2>4. /\ ListsOK(lists) /\ selfQ \in Seq(Coros) /\ netQ \in Seq(Coros)
        /\ timers \in Seq(Coros) /\ Once(timers)
    BY DEF CoroInv, ListsInv, QueuesInv
  <2>5. /\ soon \in Seq(Coros) /\ later \in Seq(Coros) /\ Once(later)
        /\ \A c : Contains(timers, c) <=> Contains(soon, c) \/ Contains(later, c)
        /\ \A c : ~ (Contains(soon, c) /\ Contains(later, c))
    BY <2>1, <2>4, Halves
  <2>6. /\ Waits \in SUBSET ListNames /\ "active" \in ListNames \ Waits
        /\ {"inactive"} \in SUBSET ListNames /\ "avail" \in ListNames \ {"inactive"}
    BY DEF Waits, ListNames
  <2>7. /\ ListsOK(L)
        /\ \A l \in ListNames, d \in Coros :
             Contains(L[l], d) <=> IF Contains(soon, d) /\ InOne(lists, Waits, d)
                                   THEN l = "active" ELSE Contains(lists[l], d)
    BY <2>2, <2>4, <2>5, <2>6, MovedAll DEF AllToActive
  <2>8. /\ ListsOK(M)
        /\ \A l \in ListNames, d \in Coros :
             Contains(M[l], d) <=> IF Contains(selfQ, d) /\ InOne(L, {"inactive"}, d)
                                   THEN l = "avail" ELSE Contains(L[l], d)
    BY <2>2, <2>4, <2>6, <2>7, MovedAll DEF AllToAvail
  <2> DEFINE N == AllToActive(M, netQ)
  <2>9. /\ ListsOK(N)
        /\ \A l \in ListNames, d \in Coros :
             Contains(N[l], d) <=> IF Contains(netQ, d) /\ InOne(M, Waits, d)
                                   THEN l = "active" ELSE Contains(M[l], d)
    BY <2>4, <2>6, <2>8, MovedAll DEF AllToActive
  <2>10. lists' = N
    BY <2>3
  <2> HIDE DEF N
  <2>11. \A c \in Coros : ~ Sent(c) /\ ~ Sent(c)'
    BY <1>0 DEF Sent, Main, Coros
  <2>12. ASSUME NEW d \in Coros
         PROVE  /\ Contains(N["inactive"], d) <=>
                     Contains(lists["inactive"], d) /\ ~ Contains(netQ, d) /\ ~ Contains(selfQ, d)
                                                    /\ ~ Contains(soon, d)
                /\ Contains(N["timeout"], d) <=>
                     Contains(lists["timeout"], d) /\ ~ Contains(soon, d)
    <3>1. \A l \in ListNames : Contains(lists[l], d) => \A m \in ListNames : Contains(lists[m], d) => l = m
      BY <2>4 DEF ListsOK
    <3>2. /\ Contains(netQ, d) => Contains(lists["inactive"], d)
          /\ Contains(soon, d) => Contains(lists["timeout"], d)
      BY <2>5, <2>11 DEF CoroInv, QueuesInv
    <3>3. /\ "inactive" \in ListNames /\ "timeout" \in ListNames
      BY DEF ListNames
    <3>4. ~ (Contains(lists["inactive"], d) /\ Contains(lists["timeout"], d))
      BY <3>1, <3>3
    <3>5. \A K : /\ InOne(K, {"inactive"}, d) <=> Contains(K["inactive"], d)
                 /\ InOne(K, Waits, d) <=> Contains(K["inactive"], d) \/ Contains(K["timeout"], d)
      BY DEF InOne, Waits
    <3>6. /\ Contains(L["inactive"], d) <=> Contains(lists["inactive"], d) /\ ~ Contains(soon, d)
          /\ Contains(L["timeout"], d) <=> Contains(lists["timeout"], d) /\ ~ Contains(soon, d)
      BY <2>7, <3>2, <3>3, <3>4, <3>5
    <3>7. /\ Contains(M["inactive"], d) <=> Contains(L["inactive"], d) /\ ~ Contains(selfQ, d)
          /\ Contains(M["timeout"], d) <=>
               Contains(L["timeout"], d) /\ ~ (Contains(selfQ, d) /\ Contains(L["inactive"], d))
      BY <2>8, <3>3, <3>5
    <3>8. /\ Contains(N["inactive"], d) <=> Contains(M["inactive"], d) /\ ~ Contains(netQ, d)
          /\ Contains(N["timeout"], d) <=> Contains(M["timeout"], d) /\ ~ Contains(netQ, d)
      BY <2>9, <3>3, <3>5
    <3> QED
      BY <3>2, <3>4, <3>6, <3>7, <3>8
  <2>13. ListsInv'
    <3>1. ASSUME NEW l \in ListNames, NEW c \in Coros, Contains(N[l], c)
          PROVE  c <= made
      <4>1. \A K, from : InOne(K, from, c) => \E k \in from : Contains(K[k], c)
        BY DEF InOne
      <4>2. \E k \in ListNames : Contains(M[k], c)
        BY <2>6, <2>9, <3>1, <4>1
      <4>3. \E k \in ListNames : Contains(L[k], c)
        BY <2>6, <2>8, <4>1, <4>2
      <4>4. \E k \in ListNames : Contains(lists[k], c)
        BY <2>6, <2>7, <4>1, <4>3
      <4> QED
        BY <4>4 DEF CoroInv, ListsInv
    <3> QED
      BY <1>0, <2>9, <2>10, <3>1 DEF CoroInv, ListsInv
  <2>14. PlaceInv'
    BY <1>0 DEF PlaceInv, SchedulerPlaces
  <2>15. \A c : ~ Contains(netQ', c) /\ ~ Contains(selfQ', c)
    BY <2>0 DEF Contains
  <2>16. QueuesInv'
    <3>1. ASSUME NEW c \in Coros, missing[c] > 0
          PROVE  Contains(N["inactive"], c)
      <4>1. Contains(lists["inactive"], c) /\ ~ Contains(netQ, c) /\ ~ Contains(selfQ, c)
        BY <2>11, <3>1 DEF CoroInv, QueuesInv
      <4>2. ~ Contains(soon, c)
        <5>1. Contains(soon, c) => Contains(lists["timeout"], c)
          BY <2>5 DEF CoroInv, QueuesInv
        <5> QED
          BY <2>4, <4>1, <5>1 DEF ListsOK, ListNames
      <4> QED
        BY <2>12, <4>1, <4>2
    <3>2. ASSUME NEW c \in Coros, Contains(later, c)
          PROVE  Contains(N["timeout"], c)
      BY <2>5, <2>12, <3>2 DEF CoroInv, QueuesInv
    <3>3. selfQ' \in Seq(Coros) /\ netQ' \in Seq(Coros)
      BY <2>0
    <3> QED
      BY <1>0, <2>3, <2>5, <2>10, <2>15, <3>1, <3>2, <3>3 DEF CoroInv, QueuesInv
  <2>17. EarlyInv'
    BY <2>11 DEF EarlyInv
  <2>18. NoneForgotten'
    <3>1. ASSUME NEW c \in Coros, Contains(N["inactive"], c)
          PROVE  missing[c] # 0
      BY <1>2, <2>12, <3>1 DEF CoroInv, NoneForgotten
    <3>2. ASSUME NEW c \in Coros, Contains(N["timeout"], c)
          PROVE  Contains(later, c)
      BY <1>2, <2>5, <2>12, <3>2 DEF CoroInv, NoneForgotten
    <3> QED
      BY <1>0, <2>0, <2>3, <2>10, <3>1, <3>2 DEF NoneForgotten
  <2> QED
    BY <2>13, <2>14, <2>16, <2>17, <2>18 DEF CoroInv
<1> QED
  BY <1>1, <1>2

\* The scheduler, wherever it is.
LEMMA SchedulerKeeps ==
  ASSUME CoroInv, Begin \/ SchedulerStep
  PROVE  CoroInv'
<1> USE DEF Scheduler, SchedulerPlaces
<1>1. CASE Begin
  BY <1>1, OnlyPlace DEF Begin
<1>2. CASE Test
  <2>1. at' \in SchedulerPlaces \ {"avail", "asleep"}
    BY <1>2 DEF Test
  <2> QED
    BY <1>2, <2>1, OnlyPlace DEF Test
<1>3. CASE SleepOrNot
  BY <1>3, OnlyPlace DEF SleepOrNot, QueueSeenEmpty
<1>4. CASE WaitOver
  BY <1>4, OnlyPlace DEF WaitOver
<1>5. CASE WakeUp
  BY <1>5, WakeUpStep
<1>6. CASE ResumeActive
  BY <1>6, Resumed DEF ResumeActive
<1>7. CASE ActiveDone
  BY <1>7, OnlyPlace DEF ActiveDone
<1>8. CASE ResumeAvail
  <2>1. lists.avail # <<>>
    BY <1>8 DEF ResumeAvail, CoroInv, PlaceInv
  <2> QED
    BY <1>8, <2>1, Resumed DEF ResumeAvail
<1>9. CASE RoundDone
  <2>1. at' \in SchedulerPlaces \ {"avail", "asleep"}
    BY <1>9 DEF RoundDone
  <2> QED
    BY <1>9, <2>1, OnlyPlace DEF RoundDone
<1>10. CASE Destroy
  BY <1>10, OnlyPlace DEF Destroy
<1> QED
  BY <1>1, <1>2, <1>3, <1>4, <1>5, <1>6, <1>7, <1>8, <1>9, <1>10 DEF SchedulerStep

-----------------------------------------------------------------------------
(* The steps of the coroutine that runs. *)

\* A coroutine that runs, or has just sent, is in no list but that it was resumed from, and
\* one that runs has its answers.
LEMMA RunsFacts ==
  ASSUME CoroInv, current # Main
  PROVE  /\ current \in Coros /\ InOne(lists, Runs, current)
         /\ \A l \in ListNames \ Runs : ~ Contains(lists[l], current)
         /\ at = "running" => /\ missing[current] = 0
                              /\ ~ Contains(netQ, current)
                              /\ \A c \in Coros : ~ Sent(c)
         /\ ~ Contains(selfQ, current) /\ ~ Contains(timers, current)
<1>1. /\ current \in Coros /\ (Contains(lists["active"], current) \/ Contains(lists["avail"], current))
      /\ ListsOK(lists)
  BY DEF CoroInv, PlaceInv, ListsInv
<1>2. InOne(lists, Runs, current)
  BY <1>1 DEF InOne, Runs
<1>3. \A l \in ListNames \ Runs : ~ Contains(lists[l], current)
  BY <1>1 DEF ListsOK, Runs, ListNames
<1>4. ~ Contains(lists["inactive"], current) /\ ~ Contains(lists["timeout"], current)
  BY <1>3 DEF Runs, ListNames
<1>5. ~ Contains(selfQ, current) /\ ~ Contains(timers, current)
  BY <1>1, <1>4 DEF CoroInv, QueuesInv
<1>6. ASSUME at = "running"
      PROVE  /\ missing[current] = 0 /\ ~ Contains(netQ, current)
             /\ \A c \in Coros : ~ Sent(c)
  <2>1. \A c \in Coros : ~ Sent(c)
    BY <1>6 DEF Sent
  <2>2. missing[current] \in Nat /\ ~ (missing[current] > 0) /\ ~ Contains(netQ, current)
    BY <1>1, <1>4, <2>1 DEF CoroInv, QueuesInv
  <2> QED
    BY <2>1, <2>2
<1> QED
  BY <1>1, <1>2, <1>3, <1>5, <1>6

\* It moves itself to another list and switches to the scheduler.
LEMMA GivesUp ==
  ASSUME CoroInv, current # Main, Back, UNCHANGED made,
         NEW from \in SUBSET ListNames, Runs \subseteq from, NEW to \in ListNames \ Runs,
         lists' = MoveFrom(lists, from, to, current)
  PROVE  /\ ListsInv' /\ PlaceInv'
         /\ \A c \in Coros : ~ Sent(c)'
         /\ \A l \in ListNames, d \in Coros :
              Contains(lists'[l], d) <=> IF d = current THEN l = to ELSE Contains(lists[l], d)
<1>1. /\ current \in Coros /\ InOne(lists, from, current)
      /\ ListsOK(lists) /\ made \in 1 .. PoolSize
      /\ \A l \in ListNames, c \in Coros : Contains(lists[l], c) => c <= made
  <2>1. current \in Coros /\ InOne(lists, Runs, current)
    BY RunsFacts
  <2>2. InOne(lists, from, current)
    BY <2>1 DEF InOne
  <2> QED
    BY <2>1, <2>2 DEF CoroInv, ListsInv
<1> DEFINE M == MoveFrom(lists, from, to, current)
<1>2. /\ ListsOK(M)
      /\ \A l \in ListNames, d \in Coros :
           Contains(M[l], d) <=> IF d = current THEN l = to ELSE Contains(lists[l], d)
  <2>1. current \in Coros /\ to \in ListNames /\ ListsOK(lists) /\ InOne(lists, from, current)
    BY <1>1
  <2>2. ListsOK(M) /\ Differs(M, lists, to, current)
    BY <2>1, MovedThere
  <2> HIDE DEF M
  <2> QED
    BY <2>2 DEF Differs
<1>3. lists' = M
  OBVIOUS
<1> HIDE DEF M
<1>4. current <= made
  BY <1>1 DEF InOne
<1>5. ListsInv'
  BY <1>1, <1>2, <1>3, <1>4 DEF ListsInv
<1>6. current' = Main /\ at' \in {"active", "round"}
  BY DEF Back
<1>7. PlaceInv'
  BY <1>6 DEF PlaceInv, SchedulerPlaces
<1>8. \A c \in Coros : ~ Sent(c)'
  BY <1>6 DEF Sent
<1> QED
  BY <1>2, <1>3, <1>5, <1>7, <1>8

\* yield(false): if the answers have come already, the coroutine is in the queue of put().
LEMMA WaitStep ==
  ASSUME CoroInv, Wait
  PROVE  CoroInv'
<1>1. /\ current # Main /\ at = "sent" /\ Back
      /\ lists' = MoveFrom(lists, Runs, "inactive", current)
      /\ UNCHANGED <<made, selfQ, netQ, timers, missing, putting, terminal>>
  BY DEF Wait, MoveToInactive
<1>2. /\ current \in Coros /\ ~ Contains(selfQ, current) /\ ~ Contains(timers, current)
  BY <1>1, RunsFacts
<1>3. Runs \in SUBSET ListNames /\ Runs \subseteq Runs /\ "inactive" \in ListNames \ Runs
  BY DEF Runs, ListNames
<1>4. /\ ListsInv' /\ PlaceInv' /\ (\A c \in Coros : ~ Sent(c)')
      /\ \A l \in ListNames, d \in Coros :
           Contains(lists'[l], d) <=> IF d = current THEN l = "inactive" ELSE Contains(lists[l], d)
  BY <1>1, <1>3, GivesUp
<1>5. \A d \in Coros :
        /\ Contains(lists'["inactive"], d) <=> Contains(lists["inactive"], d) \/ Sent(d)
        /\ d # current => (Contains(lists'["timeout"], d) <=> Contains(lists["timeout"], d))
        /\ ~ Contains(lists'["timeout"], current)
  BY <1>1, <1>2, <1>4 DEF Sent, ListNames
<1>6. QueuesInv'
  BY <1>1, <1>2, <1>4, <1>5 DEF CoroInv, QueuesInv
<1>7. EarlyInv'
  BY <1>4 DEF EarlyInv
<1>8. NoneForgotten'
  BY <1>1, <1>4, <1>5 DEF CoroInv, NoneForgotten, EarlyInv, Back
<1> QED
  BY <1>4, <1>6, <1>7, <1>8 DEF CoroInv

\* yield(true): the coroutine is in its own queue, once.
LEMMA YieldStep ==
  ASSUME CoroInv, YieldSelf
  PROVE  CoroInv'
<1>1. /\ current # Main /\ at = "running" /\ Back
      /\ lists' = MoveFrom(lists, Runs, "inactive", current)
      /\ selfQ' = IF terminal THEN selfQ ELSE Append(selfQ, current)
      /\ UNCHANGED <<made, netQ, timers, missing, putting, terminal>>
  BY DEF YieldSelf, Does, MoveToInactive
<1>2. /\ current \in Coros /\ missing[current] = 0 /\ ~ Contains(netQ, current)
      /\ ~ Contains(selfQ, current) /\ ~ Contains(timers, current)
      /\ \A c \in Coros : ~ Sent(c)
  BY <1>1, RunsFacts
<1>3. Runs \in SUBSET ListNames /\ Runs \subseteq Runs /\ "inactive" \in ListNames \ Runs
  BY DEF Runs, ListNames
<1>4. /\ ListsInv' /\ PlaceInv' /\ (\A c \in Coros : ~ Sent(c)')
      /\ \A l \in ListNames, d \in Coros :
           Contains(lists'[l], d) <=> IF d = current THEN l = "inactive" ELSE Contains(lists[l], d)
  BY <1>1, <1>3, GivesUp
<1>5. \A d \in Coros :
        /\ Contains(lists'["inactive"], d) <=> Contains(lists["inactive"], d) \/ d = current
        /\ d # current => (Contains(lists'["timeout"], d) <=> Contains(lists["timeout"], d))
        /\ ~ Contains(lists'["timeout"], current)
  BY <1>1, <1>2, <1>4 DEF ListNames
<1>6. /\ selfQ' \in Seq(Coros)
      /\ \A c : Contains(selfQ', c) <=> Contains(selfQ, c) \/ (c = current /\ ~ terminal)
  <2>1. selfQ \in Seq(Coros)
    BY DEF CoroInv, QueuesInv
  <2> QED
    BY <1>1, <1>2, <2>1, OneMore
<1>7. QueuesInv'
  BY <1>1, <1>2, <1>4, <1>5, <1>6 DEF CoroInv, QueuesInv
<1>8. EarlyInv'
  BY <1>4 DEF EarlyInv
<1>9. NoneForgotten'
  BY <1>1, <1>4, <1>5, <1>6 DEF CoroInv, NoneForgotten, Back
<1> QED
  BY <1>4, <1>7, <1>8, <1>9 DEF CoroInv

\* sleep(): the coroutine is in the list of sleepers and among the timers.
LEMMA SleepStep ==
  ASSUME CoroInv, Sleep
  PROVE  CoroInv'
<1>1. /\ current # Main /\ at = "running" /\ Back
      /\ lists' = MoveFrom(lists, Runs, "timeout", current)
      /\ UNCHANGED <<made, selfQ, netQ, missing, putting, terminal>>
  BY DEF Sleep, Does, MoveToTimeout
<1>2. /\ current \in Coros /\ missing[current] = 0 /\ ~ Contains(netQ, current)
      /\ ~ Contains(selfQ, current) /\ ~ Contains(timers, current)
      /\ \A c \in Coros : ~ Sent(c)
  BY <1>1, RunsFacts
<1>3. Runs \in SUBSET ListNames /\ Runs \subseteq Runs /\ "timeout" \in ListNames \ Runs
  BY DEF Runs, ListNames
<1>4. /\ ListsInv' /\ PlaceInv' /\ (\A c \in Coros : ~ Sent(c)')
      /\ \A l \in ListNames, d \in Coros :
           Contains(lists'[l], d) <=> IF d = current THEN l = "timeout" ELSE Contains(lists[l], d)
  BY <1>1, <1>3, GivesUp
<1>5. \A d \in Coros :
        /\ Contains(lists'["timeout"], d) <=> Contains(lists["timeout"], d) \/ d = current
        /\ d # current => (Contains(lists'["inactive"], d) <=> Contains(lists["inactive"], d))
        /\ ~ Contains(lists'["inactive"], current)
  BY <1>1, <1>2, <1>4 DEF ListNames
<1>6. /\ timers' \in Seq(Coros) /\ Once(timers')
      /\ \A c : Contains(timers', c) <=> Contains(timers, c) \/ c = current
  <2>1. timers \in Seq(Coros) /\ Once(timers)
    BY DEF CoroInv, QueuesInv
  <2>2. PICK k \in 1 .. Len(timers) + 1 : timers' = InsertAt(timers, k, current)
    BY DEF Sleep
  <2> QED
    BY <1>2, <2>1, <2>2, OnePutIn
<1>7. QueuesInv'
  BY <1>1, <1>2, <1>4, <1>5, <1>6 DEF CoroInv, QueuesInv
<1>8. EarlyInv'
  BY <1>4 DEF EarlyInv
<1>9. NoneForgotten'
  BY <1>1, <1>4, <1>5, <1>6 DEF CoroInv, NoneForgotten, Back
<1> QED
  BY <1>4, <1>7, <1>8, <1>9 DEF CoroInv

\* The number goes back to the free ones; no queue has it.
LEMMA FinishStep ==
  ASSUME CoroInv, Finish
  PROVE  CoroInv'
<1>1. /\ current # Main /\ at = "running" /\ Back
      /\ lists' = MoveFrom(lists, Waits \cup Runs, "free", current)
      /\ UNCHANGED <<made, selfQ, netQ, timers, missing, putting, terminal>>
  BY DEF Finish, MoveToFreeList
<1>2. /\ current \in Coros /\ missing[current] = 0 /\ ~ Contains(netQ, current)
      /\ ~ Contains(selfQ, current) /\ ~ Contains(timers, current)
      /\ \A c \in Coros : ~ Sent(c)
  BY <1>1, RunsFacts
<1>3. /\ Waits \cup Runs \in SUBSET ListNames /\ Runs \subseteq Waits \cup Runs
      /\ "free" \in ListNames \ Runs
  BY DEF Waits, Runs, ListNames
<1>4. /\ ListsInv' /\ PlaceInv' /\ (\A c \in Coros : ~ Sent(c)')
      /\ \A l \in ListNames, d \in Coros :
           Contains(lists'[l], d) <=> IF d = current THEN l = "free" ELSE Contains(lists[l], d)
  BY <1>1, <1>3, GivesUp
<1>5. \A d \in Coros : \A l \in {"inactive", "timeout"} :
        Contains(lists'[l], d) <=> Contains(lists[l], d) /\ d # current
  BY <1>4 DEF ListNames
<1>6. \A d \in Coros :
        /\ Contains(lists'["inactive"], d) <=> Contains(lists["inactive"], d) /\ d # current
        /\ Contains(lists'["timeout"], d) <=> Contains(lists["timeout"], d) /\ d # current
  BY <1>5
<1>7. QueuesInv'
  <2>1. \A c \in Coros : Contains(selfQ, c) \/ Contains(netQ, c) \/ Contains(timers, c) => c # current
    BY <1>2
  <2>2. \A c \in Coros : missing[c] > 0 => c # current
    BY <1>2
  <2> QED
    BY <1>1, <1>2, <1>4, <1>6, <2>1, <2>2 DEF CoroInv, QueuesInv
<1>8. EarlyInv'
  BY <1>4 DEF EarlyInv
<1>9. NoneForgotten'
  BY <1>1, <1>4, <1>6 DEF CoroInv, NoneForgotten, Back
<1> QED
  BY <1>4, <1>7, <1>8, <1>9 DEF CoroInv
\* createCoroutine() takes the first free coroutine, after it has made more if there is none.
LEMMA CreateStep ==
  ASSUME CoroInv, Create
  PROVE  CoroInv'
<1>1. /\ current # Main /\ at = "running"
      /\ UNCHANGED <<selfQ, netQ, timers, current, at, missing, putting, terminal>>
  BY DEF Create, Does
<1>2. /\ ListsOK(lists) /\ made \in 1 .. PoolSize
      /\ \A l \in ListNames, c \in Coros : Contains(lists[l], c) => c <= made
      /\ lists \in [ListNames -> Seq(Coros)]
  BY DEF CoroInv, ListsInv, ListsOK
<1> DEFINE grow == used >= made \/ lists.free = << >>
           more == IF grow THEN Least(PoolSize - made, Grow) ELSE 0
           frees == lists.free \o Interval(made + 1, made + more)
<1>3. more \in Nat /\ made + more \in 1 .. PoolSize /\ (~ grow => more = 0)
  BY <1>2, CoroutinesAssumption DEF Least
<1>4. CASE grow /\ more = 0
  <2>1. UNCHANGED <<lists, made>>
    BY <1>4 DEF Create
  <2> QED
    BY <1>1, <2>1 DEF CoroInv, ListsInv, ListsOK, PlaceInv, QueuesInv, EarlyInv, Sent, NoneForgotten
<1>5. CASE ~ (grow /\ more = 0)
  <2>1. /\ made' = made + more
        /\ lists' = [lists EXCEPT !.free = Tail(frees), !.avail = Append(@, Head(frees))]
    BY <1>5 DEF Create
  <2>2. PICK q, r : q = lists["free"] /\ r = Interval(made + 1, made + more)
    OBVIOUS
  <2>3. /\ q \in Seq(Coros) /\ Once(q) /\ \A c \in Coros : Contains(q, c) => c <= made
    BY <1>2, <2>2 DEF ListsOK, ListNames
  <2>4. /\ r \in Seq(Coros) /\ Once(r) /\ Len(r) = more
        /\ \A c : Contains(r, c) <=> c \in made + 1 .. made + more
    <3>1. /\ made + 1 \in Nat \ {0} /\ made + more \in Nat /\ made + 1 <= (made + more) + 1
          /\ made + more <= PoolSize
      BY <1>2, <1>3, CoroutinesAssumption
    <3>2. /\ Interval(made + 1, made + more) \in Seq(Coros) /\ Once(Interval(made + 1, made + more))
          /\ Len(Interval(made + 1, made + more)) = (made + more) - (made + 1) + 1
          /\ \A c : Contains(Interval(made + 1, made + more), c) <=> c \in made + 1 .. made + more
      BY <3>1, InARow
    <3>3. (made + more) - (made + 1) + 1 = more
      BY <1>2, <1>3
    <3> QED
      BY <2>2, <3>2, <3>3, Zenon
  <2>5. \A c : ~ (Contains(q, c) /\ Contains(r, c))
    <3>1. \A c : Contains(q, c) => c \in Coros
      BY <2>3 DEF Contains
    <3> QED
      BY <1>2, <1>3, <2>3, <2>4, <3>1
  <2>6. PICK p : p = q \o r
    OBVIOUS
  <2>7. /\ p \in Seq(Coros) /\ Once(p) /\ Len(p) = Len(q) + Len(r)
        /\ \A c : Contains(p, c) <=> Contains(q, c) \/ Contains(r, c)
    BY <2>3, <2>4, <2>5, <2>6, Joined
  <2>8. frees = p
    BY <2>2, <2>6
  <2>9. p # << >>
    <3>1. q # << >> \/ more # 0
      BY <1>3, <1>5, <2>2
    <3>2. q # << >> => Len(q) > 0
      BY <2>3, EmptySeq
    <3>3. Len(p) > 0
      BY <1>3, <2>3, <2>4, <2>7, <3>1, <3>2
    <3> QED
      BY <3>3
  <2>10. PICK new : new = Head(p)
    OBVIOUS
  <2>11. /\ new \in Coros /\ Contains(p, new) /\ Tail(p) \in Seq(Coros) /\ Once(Tail(p))
         /\ \A c : Contains(Tail(p), c) <=> Contains(p, c) /\ c # new
    BY <2>7, <2>9, <2>10, FirstAndOthers
  <2>12. lists' = [lists EXCEPT !["free"] = Tail(p), !["avail"] = Append(lists["avail"], new)]
    <3> HIDE DEF frees
    <3> QED
      BY <1>2, <2>1, <2>8, <2>10 DEF ListNames
  <2>13. /\ lists' \in [ListNames -> Seq(Coros)]
         /\ lists'["free"] = Tail(p) /\ lists'["avail"] = Append(lists["avail"], new)
         /\ \A l \in ListNames \ {"free", "avail"} : lists'[l] = lists[l]
    <3>1. lists["avail"] \in Seq(Coros)
      BY <1>2 DEF ListNames
    <3>2. Append(lists["avail"], new) \in Seq(Coros) /\ Tail(p) \in Seq(Coros)
      BY <2>11, <3>1, OneMore
    <3> QED
      BY <1>2, <2>12, <3>2 DEF ListNames
  \* Nobody but the free list has it.
  <2>14. \A l \in ListNames \ {"free"} : ~ Contains(lists[l], new)
    <3>1. CASE Contains(q, new)
      BY <1>2, <2>2, <2>11, <3>1 DEF ListsOK, ListNames
    <3>2. CASE Contains(r, new)
      <4>1. ~ (new <= made)
        BY <1>2, <1>3, <2>4, <3>2
      <4> QED
        BY <1>2, <2>11, <4>1
    <3> QED
      BY <2>7, <2>11, <3>1, <3>2
  <2>15. /\ Once(lists'["avail"])
         /\ \A c : Contains(lists'["avail"], c) <=> Contains(lists["avail"], c) \/ c = new
    <3>1. lists["avail"] \in Seq(Coros) /\ Once(lists["avail"]) /\ ~ Contains(lists["avail"], new)
      BY <1>2, <2>14 DEF ListsOK, ListNames
    <3> QED
      BY <2>11, <2>13, <3>1, OneMore
  <2>16. \A c \in Coros : Contains(lists'["free"], c) =>
           c # new /\ (Contains(lists["free"], c) \/ c \in made + 1 .. made + more)
    BY <2>2, <2>4, <2>7, <2>11, <2>13
  <2>17. \A l \in ListNames, c \in Coros : Contains(lists'[l], c) =>
           \/ l = "avail" /\ c = new
           \/ c # new /\ Contains(lists[l], c)
           \/ l = "free" /\ c # new /\ c \in made + 1 .. made + more
    <3>1. "free" \in ListNames /\ "avail" \in ListNames /\ "free" # "avail"
      BY DEF ListNames
    <3> QED
      BY <2>13, <2>14, <2>15, <2>16, <3>1
  <2>18. ListsOK(lists')
    <3>1. \A l \in ListNames : Once(lists'[l])
      BY <1>2, <2>11, <2>13, <2>15 DEF ListsOK
    <3>2. \A c \in Coros : c \in made + 1 .. made + more => \A l \in ListNames : ~ Contains(lists[l], c)
      BY <1>2, <1>3
    <3>3. \A l, m \in ListNames, c \in Coros :
            Contains(lists'[l], c) /\ Contains(lists'[m], c) => l = m
      BY <1>2, <2>17, <3>2 DEF ListsOK
    <3> QED
      BY <2>13, <3>1, <3>3 DEF ListsOK
  <2>19. ListsInv'
    <3>1. new <= made + more
      <4>1. Contains(q, new) \/ new \in made + 1 .. made + more
        BY <2>4, <2>7, <2>11
      <4> QED
        BY <1>2, <1>3, <2>3, <2>11, <4>1 DEF Coros
    <3>2. \A c \in Coros : c <= made => c <= made + more
      BY <1>2, <1>3, CoroutinesAssumption DEF Coros
    <3>3. \A c \in Coros : c \in made + 1 .. made + more => c <= made + more
      OBVIOUS
    <3> HIDE DEF more
    <3> QED
      BY <1>2, <1>3, <2>1, <2>17, <2>18, <3>1, <3>2, <3>3 DEF ListsInv
  <2>20. lists'["active"] = lists["active"] /\ lists'["inactive"] = lists["inactive"]
         /\ lists'["timeout"] = lists["timeout"]
    BY <2>13 DEF ListNames
  <2>21. PlaceInv'
    BY <1>1, <2>15, <2>20 DEF CoroInv, PlaceInv
  <2>22. QueuesInv'
    BY <1>1, <2>20 DEF CoroInv, QueuesInv, Sent
  <2>23. EarlyInv'
    BY <1>1 DEF CoroInv, EarlyInv, Sent
  <2>24. NoneForgotten'
    BY <1>1, <2>20 DEF CoroInv, NoneForgotten
  <2> QED
    BY <2>19, <2>21, <2>22, <2>23, <2>24 DEF CoroInv
<1> QED
  BY <1>4, <1>5

\* Nobody expects answers of the requests but the coroutine, which has none to come.
LEMMA SendStep ==
  ASSUME CoroInv, NEW n \in Nat \ {0}, Send(n)
  PROVE  CoroInv'
<1>1. /\ current # Main /\ at = "running" /\ at' = "sent"
      /\ missing' = [missing EXCEPT ![current] = n]
      /\ UNCHANGED <<lists, made, selfQ, netQ, timers, current, putting, terminal>>
  BY DEF Send, Does
<1>2. /\ current \in Coros /\ missing[current] = 0 /\ ~ Contains(netQ, current)
      /\ ~ Contains(selfQ, current) /\ ~ Contains(timers, current)
      /\ \A c \in Coros : ~ Sent(c)
      /\ ~ Contains(lists["inactive"], current)
  <2>1. "inactive" \in ListNames \ Runs
    BY DEF ListNames, Runs
  <2> QED
    BY <1>1, <2>1, RunsFacts
<1>3. /\ missing \in [Coros -> Nat] /\ missing' \in [Coros -> Nat] /\ missing'[current] = n
      /\ \A c \in Coros : c # current => missing'[c] = missing[c]
  BY <1>1, <1>2 DEF CoroInv, QueuesInv
<1>4. Sent(current)' /\ \A c \in Coros : c # current => ~ Sent(c)'
  BY <1>1 DEF Sent
<1>5. ListsInv'
  BY <1>1 DEF CoroInv, ListsInv, ListsOK
<1>6. PlaceInv'
  BY <1>1 DEF CoroInv, PlaceInv
<1>7. QueuesInv'
  BY <1>1, <1>2, <1>3, <1>4 DEF CoroInv, QueuesInv
<1>8. EarlyInv'
  BY <1>3, <1>4 DEF EarlyInv
<1>9. NoneForgotten'
  BY <1>1, <1>2, <1>3 DEF CoroInv, NoneForgotten
<1> QED
  BY <1>5, <1>6, <1>7, <1>8, <1>9 DEF CoroInv

-----------------------------------------------------------------------------
(* The steps of other threads. *)

\* The last answer puts the coroutine, whether it waits already or not.
LEMMA PutStep ==
  ASSUME CoroInv, NEW c \in Coros, Put(c)
  PROVE  CoroInv'
<1>1. /\ missing[c] > 0 /\ missing' = [missing EXCEPT ![c] = @ - 1] /\ putting = Main
      /\ UNCHANGED <<lists, made, selfQ, timers, current, at, terminal>>
  BY DEF Put
<1>2. /\ missing \in [Coros -> Nat] /\ missing' \in [Coros -> Nat] /\ missing'[c] = missing[c] - 1
      /\ \A d \in Coros : d # c => missing'[d] = missing[d]
      /\ \A d \in Coros : missing'[d] > 0 => missing[d] > 0
  <2>1. missing \in [Coros -> Nat]
    BY DEF CoroInv, QueuesInv
  <2> QED
    BY <1>1, <2>1
<1>3. \A d \in Coros : Sent(d)' = Sent(d)
  BY <1>1 DEF Sent
<1>4. /\ Sent(c) \/ Contains(lists["inactive"], c)
      /\ ~ Contains(netQ, c) /\ ~ Contains(selfQ, c)
  BY <1>1, <1>2 DEF CoroInv, QueuesInv
<1>5. ListsInv' /\ PlaceInv'
  BY <1>1 DEF CoroInv, ListsInv, ListsOK, PlaceInv
<1>6. CASE missing[c] = 1 /\ ~ terminal
  <2>1. netQ' = Append(netQ, c) /\ putting' = c
    BY <1>6 DEF Put, AllReturned
  <2>2. netQ' \in Seq(Coros) /\ \A d : Contains(netQ', d) <=> Contains(netQ, d) \/ d = c
    <3>1. netQ \in Seq(Coros)
      BY DEF CoroInv, QueuesInv
    <3> QED
      BY <2>1, <3>1, OneMore
  <2>3. missing'[c] = 0 /\ putting' # Main
    BY <1>2, <1>6, <2>1 DEF Main, Coros
  <2>4. QueuesInv'
    BY <1>1, <1>2, <1>3, <1>4, <2>2, <2>3 DEF CoroInv, QueuesInv
  <2>5. EarlyInv'
    BY <1>1, <1>2, <1>3, <2>2 DEF CoroInv, EarlyInv
  <2>6. NoneForgotten'
    BY <1>1, <1>2, <2>2, <2>3 DEF CoroInv, NoneForgotten
  <2> QED
    BY <1>5, <2>4, <2>5, <2>6 DEF CoroInv
<1>7. CASE ~ (missing[c] = 1 /\ ~ terminal)
  <2>1. UNCHANGED <<netQ, putting>>
    BY <1>7 DEF Put, AllReturned
  <2>2. terminal \/ missing'[c] # 0
    BY <1>1, <1>2, <1>7
  <2>3. QueuesInv'
    BY <1>1, <1>2, <1>3, <1>4, <2>1 DEF CoroInv, QueuesInv
  <2>4. EarlyInv'
    BY <1>1, <1>2, <1>3, <2>1, <2>2 DEF CoroInv, EarlyInv
  <2>5. NoneForgotten'
    BY <1>1, <1>2, <2>1, <2>2 DEF CoroInv, NoneForgotten
  <2> QED
    BY <1>5, <2>3, <2>4, <2>5 DEF CoroInv
<1> QED
  BY <1>6, <1>7

\* Whoever has put a coroutine, or ends the scheduler, leaves none asleep.
LEMMA WakenedStep ==
  ASSUME CoroInv, at' = SchedulerWakened,
         UNCHANGED <<lists, made, selfQ, netQ, timers, current, missing>>, terminal => terminal'
  PROVE  CoroInv'
<1>1. /\ \A c \in Coros : Sent(c)' = Sent(c)
      /\ ~ (current' = Main /\ at' = "asleep")
      /\ at' = "avail" => at = "avail"
      /\ current # Main => at' = at
      /\ current = Main => at' \in {at, "wake"}
  BY DEF SchedulerWakened, Sent
<1>2. ListsInv'
  BY DEF CoroInv, ListsInv, ListsOK
<1>3. PlaceInv'
  BY <1>1 DEF CoroInv, PlaceInv, SchedulerPlaces
<1>4. QueuesInv'
  BY <1>1 DEF CoroInv, QueuesInv
<1>5. EarlyInv'
  BY <1>1 DEF CoroInv, EarlyInv
<1>6. NoneForgotten'
  BY <1>1 DEF CoroInv, NoneForgotten
<1> QED
  BY <1>2, <1>3, <1>4, <1>5, <1>6 DEF CoroInv

\* The invariant is inductive.
LEMMA StepCoro == CoroInv /\ [CoroutinesNext]_coVars => CoroInv'
<1> SUFFICES ASSUME CoroInv, [CoroutinesNext]_coVars
             PROVE  CoroInv'
  OBVIOUS
<1>1. CASE Begin \/ SchedulerStep
  BY <1>1, SchedulerKeeps
<1>2. CASE CoroutineStep
  <2>1. Together \in Nat \ {0} /\ 1 \in Nat \ {0}
    BY CoroutinesAssumption
  <2> QED
    BY <1>2, <2>1, CreateStep, SendStep, WaitStep, YieldStep, SleepStep, FinishStep DEF CoroutineStep
<1>3. CASE NetworkStep
  <2>1. CASE PutNotify
    BY <2>1, WakenedStep DEF PutNotify
  <2>2. CASE \E c \in Coros : Put(c)
    BY <2>2, PutStep
  <2> QED
    BY <1>3, <2>1, <2>2 DEF NetworkStep
<1>4. CASE Terminate
  BY <1>4, WakenedStep DEF Terminate
<1>5. CASE UNCHANGED coVars
  BY <1>5 DEF coVars, CoroInv, ListsInv, ListsOK, PlaceInv, QueuesInv, EarlyInv, Sent, NoneForgotten
<1> QED
  BY <1>1, <1>2, <1>3, <1>4, <1>5 DEF CoroutinesNext

-----------------------------------------------------------------------------
(* The theorems. *)

\* It holds always.
LEMMA AlwaysCoro == CoroutinesSpec => []CoroInv
BY InitCoro, StepCoro, PTL DEF CoroutinesSpec

\* The asserts of the scheduler and what switchCoro() relies on: a coroutine that is resumed
\* is the first of a list that is not empty, and each is in one list, the one its status says,
\* and has been made.
CoroutinesKept ==
  /\ ListsInv
  /\ current = Main /\ at = "avail" => lists.avail # <<>>
  /\ current # Main => Contains(lists.active, current) \/ Contains(lists.avail, current)

\* However coroutines are made, wait, sleep, are woken and end, each is in one list, once,
\* and the one that runs in that of those that may.
THEOREM CoroutinesInLists == CoroutinesSpec => []CoroutinesKept
<1>1. CoroInv => CoroutinesKept
  BY DEF CoroInv, PlaceInv, CoroutinesKept
<1> QED
  BY <1>1, AlwaysCoro, PTL

\* A coroutine that runs again after yield(false) or coroWhenAll() has every answer it
\* waited for, whoever had its number before.
THEOREM AnswersOfOwn == CoroutinesSpec => []OwnAnswers
<1>1. CoroInv => OwnAnswers
  BY RunsFacts DEF OwnAnswers
<1> QED
  BY <1>1, AlwaysCoro, PTL

\* A coroutine that can go on is in the queue it is woken from, also when its last answer
\* came before it waited, and the scheduler does not sleep while one has been put.
THEOREM NoCoroutineForgotten == CoroutinesSpec => []NoneForgotten
<1>1. CoroInv => NoneForgotten
  BY DEF CoroInv
<1> QED
  BY <1>1, AlwaysCoro, PTL
===============================================================================
