--------------------------- MODULE SeqManagerProofs ---------------------------
(* Proofs about SeqManager, for any number of numbers: the links always make   *)
(* one list of the free numbers, the assertions of get() hold, and the list    *)
(* implements NumberPool.                                                      *)
EXTENDS SeqManager, Integers, SequenceTheorems, FiniteSetTheorems, WellFoundedInduction, TLAPS

-----------------------------------------------------------------------------
(* Lists. *)

\* L is the list that begins at f and follows the links nx.
Linked(L, f, nx) ==
  /\ f = IF L = << >> THEN End ELSE L[1]
  /\ \A i \in 1 .. Len(L) - 1 : nx[L[i]] = L[i + 1]
  /\ L # << >> => nx[L[Len(L)]] = End

Once(L) == \A i, j \in 1 .. Len(L) : L[i] = L[j] => i = j

\* What the function inside ListFrom is at n, in terms of what it is before.
Follow(g, n, f, nx) ==
  IF n = 0 THEN << >>
  ELSE LET c == g[n - 1]
           i == IF c = << >> THEN f ELSE nx[c[Len(c)]]
       IN  IF i = End \/ Len(c) < n - 1 THEN c ELSE Append(c, i)

Upto(L, n) == IF n <= Len(L) THEN SubSeq(L, 1, n) ELSE L

\* Following a list gives one number of it more at each link, until its end.
LEMMA FollowUpto ==
  ASSUME NEW L \in Seq(Numbers), NEW f, NEW nx, Linked(L, f, nx), NEW g, NEW n \in Nat,
         n > 0 => g[n - 1] = Upto(L, n - 1)
  PROVE  Follow(g, n, f, nx) = Upto(L, n)
<1>0. Len(L) \in Nat /\ \A i \in 1 .. Len(L) : L[i] \in Numbers /\ L[i] # End
  BY SeqManagerAssumption DEF Numbers
<1>1. \A k \in 0 .. Len(L) : /\ SubSeq(L, 1, k) \in Seq(Numbers) /\ Len(SubSeq(L, 1, k)) = k
                             /\ \A i \in 1 .. k : SubSeq(L, 1, k)[i] = L[i]
  BY <1>0, SubSeqProperties
<1>2. CASE n = 0
  <2>1. SubSeq(L, 1, 0) = << >>
    BY <1>1, EmptySeq
  <2> QED
    BY <1>0, <1>2, <2>1 DEF Follow, Upto
<1>3. CASE n > 0 /\ n <= Len(L)
  <2> DEFINE c == SubSeq(L, 1, n - 1)
             i == IF c = << >> THEN f ELSE nx[c[Len(c)]]
  <2>0. n - 1 \in 0 .. Len(L) /\ n - 1 <= Len(L) /\ n > 0
    BY <1>0, <1>3
  <2>1. g[n - 1] = c
    <3>1. g[n - 1] = Upto(L, n - 1)
      BY <2>0
    <3> QED
      BY <2>0, <3>1 DEF Upto
  <2>2. i = L[n]
    <3>1. CASE n = 1
      BY <1>0, <1>1, <1>3, <3>1 DEF Linked
    <3>2. CASE n > 1
      <4>1. c # << >> /\ Len(c) = n - 1 /\ c[n - 1] = L[n - 1]
        <5>1. /\ c \in Seq(Numbers) /\ Len(c) = n - 1
              /\ \A k \in 1 .. n - 1 : c[k] = L[k]
          BY <1>1, <2>0
        <5> HIDE DEF c
        <5>2. n - 1 \in 1 .. n - 1
          BY <3>2
        <5> QED
          BY <3>2, <5>1, <5>2
      <4>2. nx[L[n - 1]] = L[n]
        <5>1. n - 1 \in 1 .. Len(L) - 1 /\ (n - 1) + 1 = n
          BY <1>0, <1>3, <3>2
        <5> QED
          BY <5>1 DEF Linked
      <4> HIDE DEF c
      <4> QED
        BY <4>1, <4>2
    <3> QED
      BY <1>3, <3>1, <3>2
  <2>3. i # End /\ Len(c) = n - 1
    <3>1. Len(c) = n - 1
      BY <1>1, <2>0
    <3>2. L[n] # End
      BY <1>0, <1>3
    <3> HIDE DEF i, c
    <3> QED
      BY <2>2, <3>1, <3>2
  <2>4. Follow(g, n, f, nx) = Append(c, L[n])
    <3> HIDE DEF c
    <3>1. Follow(g, n, f, nx) = IF i = End \/ Len(c) < n - 1 THEN c ELSE Append(c, i)
      BY <1>3, <2>1 DEF Follow
    <3> QED
      BY <1>3, <2>2, <2>3, <3>1
  <2>5. SubSeq(L, 1, n) = Append(c, L[n])
    <3>1. c \in Seq(Numbers) /\ L[n] \in Numbers /\ SubSeq(L, 1, n) \in Seq(Numbers)
      BY <1>0, <1>1, <1>3
    <3>2. SubSeq(L, 1, n) = c \o <<L[n]>>
      BY <1>3, SubSeqRecursiveSecond
    <3> HIDE DEF c
    <3> QED
      BY <3>1, <3>2, AppendIsConcat
  <2> QED
    BY <1>3, <2>4, <2>5 DEF Upto
<1>4. CASE n > Len(L)
  <2>1. g[n - 1] = L
    <3>1. g[n - 1] = Upto(L, n - 1)
      BY <1>0, <1>4
    <3>2. SubSeq(L, 1, Len(L)) = L
      BY SubSeqFull
    <3>3. n - 1 <= Len(L) => n - 1 = Len(L)
      BY <1>0, <1>4
    <3> QED
      BY <3>1, <3>2, <3>3 DEF Upto
  <2>2. CASE L = << >>
    BY <1>4, <2>1, <2>2 DEF Follow, Upto, Linked
  <2>3. CASE L # << >>
    <3>1. Follow(g, n, f, nx) = L
      BY <1>0, <1>4, <2>1, <2>3 DEF Follow, Linked
    <3> QED
      BY <1>0, <1>4, <3>1 DEF Upto
  <2> QED
    BY <2>2, <2>3
<1> QED
  BY <1>0, <1>2, <1>3, <1>4

\* ListFrom finds the list.
LEMMA ListFound ==
  ASSUME NEW L \in Seq(Numbers), Len(L) <= Num, NEW f, NEW nx, Linked(L, f, nx)
  PROVE  ListFrom(f, nx) = L
<1> DEFINE h == [n \in 0 .. Num |-> Upto(L, n)]
           P(g) == g = [n \in 0 .. Num |-> Follow(g, n, f, nx)]
           from == CHOOSE g : P(g)
<1>0. Num \in Nat /\ Len(L) \in Nat
  BY SeqManagerAssumption
<1>1. P(h)
  <2>1. ASSUME NEW n \in 0 .. Num
        PROVE  Follow(h, n, f, nx) = Upto(L, n)
    <3>1. n \in Nat /\ (n > 0 => h[n - 1] = Upto(L, n - 1))
      BY <1>0
    <3> HIDE DEF h
    <3> QED
      BY <3>1, FollowUpto
  <2> HIDE DEF h
  <2> QED
    BY <2>1 DEF h
<1>2. P(from)
  <2> HIDE DEF P
  <2> QED
    BY <1>1, Zenon
<1>3. ListFrom(f, nx) = from[Num]
  BY DEF ListFrom, Follow
<1>4. \A n \in 0 .. Num : from[n] = Follow(from, n, f, nx)
  <2> PICK g : g = from
    OBVIOUS
  <2>1. g = [n \in 0 .. Num |-> Follow(g, n, f, nx)]
    BY <1>2
  <2> HIDE DEF from
  <2>2. \A n \in 0 .. Num : g[n] = Follow(g, n, f, nx)
    BY <2>1
  <2> QED
    BY <2>2
<1> HIDE DEF from, P, h
<1> DEFINE bad == {n \in 0 .. Num : from[n] # Upto(L, n)}
<1>5. bad = {}
  <2> SUFFICES ASSUME bad # {}
               PROVE  FALSE
    OBVIOUS
  <2>1. bad \subseteq Nat
    BY <1>0
  <2> HIDE DEF bad
  <2>2. PICK n \in bad : \A k \in bad : ~ (<<k, n>> \in OpToRel(<, Nat))
    BY <2>1, NatLessThanWellFounded, WFMin
  <2>3. \A k \in Nat : k < n => k \notin bad
    BY <2>1, <2>2 DEF OpToRel
  <2>4. n \in 0 .. Num /\ from[n] # Upto(L, n)
    BY DEF bad
  <2>5. n > 0 => from[n - 1] = Upto(L, n - 1)
    BY <1>0, <2>3, <2>4 DEF bad
  <2> QED
    BY <1>0, <1>4, <2>4, <2>5, FollowUpto
<1> QED
  <2>1. from[Num] = Upto(L, Num)
    BY <1>0, <1>5 DEF bad
  <2>2. Upto(L, Num) = L
    BY <1>0, SubSeqFull DEF Upto
  <2> QED
    BY <1>3, <2>1, <2>2

-----------------------------------------------------------------------------
(* The inductive invariant: the links make one list of the numbers that are   *)
(* free, and the tail is its last.                                            *)

IsFreeList(L) ==
  /\ L \in Seq(Numbers) /\ Once(L)
  /\ \A n \in Numbers : isFree[n] <=> \E i \in 1 .. Len(L) : L[i] = n
  /\ Linked(L, first, next)
  /\ last = IF L = << >> THEN End ELSE L[Len(L)]

ListInv == SeqTypeOK /\ IsFreeList(SeqChain)

\* A list without repetition is no longer than there are numbers.
LEMMA OnceFits ==
  ASSUME NEW L \in Seq(Numbers), Once(L)
  PROVE  Len(L) <= Num
<1>1. Len(L) \in Nat /\ L \in [1 .. Len(L) -> Numbers] /\ Num \in Nat \ {0}
  BY SeqManagerAssumption
<1>2. /\ IsFiniteSet(1 .. Len(L)) /\ Cardinality(1 .. Len(L)) = Len(L)
      /\ IsFiniteSet(Numbers) /\ Cardinality(Numbers) = Num
  <2>1. /\ IsFiniteSet(1 .. Len(L)) /\ Cardinality(1 .. Len(L)) = IF 1 > Len(L) THEN 0 ELSE Len(L) - 1 + 1
    BY <1>1, FS_Interval
  <2>2. /\ IsFiniteSet(0 .. Num - 1) /\ Cardinality(0 .. Num - 1) = Num
    BY <1>1, FS_Interval
  <2> QED
    BY <1>1, <2>1, <2>2 DEF Numbers
<1> QED
  BY <1>1, <1>2, FS_PigeonHole DEF Once

\* If there is such a list it is the one that is found.
LEMMA ListIsChain ==
  ASSUME NEW L, IsFreeList(L)
  PROVE  SeqChain = L
BY OnceFits, ListFound DEF IsFreeList, SeqChain

\* After a step the list is L.
ListAfter(L) ==
  /\ L \in Seq(Numbers) /\ Once(L) /\ SeqTypeOK'
  /\ \A n \in Numbers : isFree'[n] <=> \E i \in 1 .. Len(L) : L[i] = n
  /\ Linked(L, first', next')
  /\ last' = IF L = << >> THEN End ELSE L[Len(L)]

\* The new links and ends make the list that is expected of them.
LEMMA NextIsChain ==
  ASSUME NEW L, ListAfter(L)
  PROVE  SeqChain' = L /\ ListInv'
<1> USE DEF ListAfter
<1>1. PICK f, nx : f = first' /\ nx = next'
  OBVIOUS
<1>2. ListFrom(f, nx) = L
  BY <1>1, OnceFits, ListFound
<1>3. SeqChain' = L
  BY <1>1, <1>2 DEF SeqChain
<1> QED
  BY <1>3 DEF ListInv, IsFreeList

\* At first all numbers are free, in their order.
LEMMA InitList == SeqInit => ListInv /\ SeqChain = [i \in 1 .. Num |-> i - 1]
<1> SUFFICES ASSUME SeqInit
             PROVE  ListInv /\ SeqChain = [i \in 1 .. Num |-> i - 1]
  OBVIOUS
<1> DEFINE L == [i \in 1 .. Num |-> i - 1]
<1>1. L \in Seq(Numbers) /\ Len(L) = Num /\ \A i \in 1 .. Num : L[i] = i - 1
  BY SeqManagerAssumption DEF Numbers
<1>2. SeqTypeOK
  BY SeqManagerAssumption DEF SeqInit, SeqTypeOK, Links, Numbers
<1> HIDE DEF L
<1>3. Once(L)
  BY <1>1, SeqManagerAssumption DEF Once
<1>4. Linked(L, first, next)
  <2>1. ASSUME NEW i \in 1 .. Num - 1
        PROVE  next[L[i]] = L[i + 1]
    <3>1. L[i] = i - 1 /\ L[i + 1] = i /\ i - 1 \in Numbers /\ i - 1 # Num - 1
      BY <1>1, SeqManagerAssumption DEF Numbers
    <3> QED
      BY <3>1 DEF SeqInit
  <2>2. next[L[Num]] = End /\ first = L[1] /\ L # << >>
    BY <1>1, SeqManagerAssumption DEF SeqInit, Numbers
  <2> QED
    BY <1>1, <2>1, <2>2 DEF Linked
<1>5. \A n \in Numbers : isFree[n] /\ \E i \in 1 .. Len(L) : L[i] = n
  <2> TAKE n \in Numbers
  <2>1. n + 1 \in 1 .. Num /\ L[n + 1] = n
    BY <1>1, SeqManagerAssumption DEF Numbers
  <2> QED
    BY <1>1, <2>1 DEF SeqInit
<1>6. last = L[Len(L)] /\ L # << >>
  BY <1>1, SeqManagerAssumption DEF SeqInit
<1>7. IsFreeList(L)
  BY <1>1, <1>3, <1>4, <1>5, <1>6 DEF IsFreeList
<1> QED
  BY <1>2, <1>7, ListIsChain DEF ListInv, L

\* get() takes the first of the list; the numbers it asserts to be free, or the last, are.
LEMMA GetStep ==
  ASSUME ListInv, first # End
  PROVE  /\ SeqChain # << >> /\ Head(SeqChain) = first /\ first \in Numbers /\ isFree[first]
         /\ first = last => next[first] = End
         /\ GetNumber => SeqChain' = Tail(SeqChain) /\ ListInv'
<1>1. PICK L : L = SeqChain
  OBVIOUS
<1>2. IsFreeList(L) /\ SeqTypeOK
  BY <1>1 DEF ListInv
<1>3. /\ L \in Seq(Numbers) /\ Len(L) \in Nat \ {0} /\ L # << >> /\ Head(L) = L[1]
      /\ \A i \in 1 .. Len(L) : L[i] \in Numbers /\ L[i] # End
  <2>1. L \in Seq(Numbers) /\ L # << >>
    BY <1>2 DEF IsFreeList, Linked
  <2> QED
    BY <2>1, SeqManagerAssumption DEF Numbers
<1>4. /\ Once(L) /\ first = L[1] /\ last = L[Len(L)] /\ next[L[Len(L)]] = End
      /\ \A i \in 1 .. Len(L) - 1 : next[L[i]] = L[i + 1]
      /\ \A n \in Numbers : isFree[n] <=> \E i \in 1 .. Len(L) : L[i] = n
  BY <1>2, <1>3 DEF IsFreeList, Linked
<1>5. first \in Numbers /\ isFree[first] /\ (first = last => next[first] = End)
  BY <1>3, <1>4
<1>6. ASSUME GetNumber
      PROVE  SeqChain' = Tail(L) /\ ListInv'
  <2>0. PICK M : M = Tail(L)
    OBVIOUS
  <2>1. M \in Seq(Numbers) /\ Len(M) = Len(L) - 1 /\ \A i \in 1 .. Len(M) : M[i] = L[i + 1]
    BY <1>3, <2>0, HeadTailProperties
  <2>2. Once(M)
    BY <1>3, <1>4, <2>1 DEF Once
  <2>3. /\ first' = next[first] /\ next' = next /\ last' = IF first = last THEN End ELSE last
        /\ isFree' = [isFree EXCEPT ![first] = FALSE]
    BY <1>6 DEF GetNumber
  <2>4. SeqTypeOK'
    BY <1>2, <1>5, <2>3 DEF SeqTypeOK, Links
  <2>5. \A n \in Numbers : isFree'[n] <=> \E i \in 1 .. Len(M) : M[i] = n
    <3> TAKE n \in Numbers
    <3>1. isFree'[n] <=> isFree[n] /\ n # L[1]
      BY <1>2, <1>4, <1>5, <2>3 DEF SeqTypeOK
    <3>2. ASSUME NEW i \in 1 .. Len(M), M[i] = n
          PROVE  isFree[n] /\ n # L[1]
      <4>1. i + 1 \in 1 .. Len(L) /\ i + 1 # 1 /\ L[i + 1] = n
        BY <1>3, <2>1, <3>2
      <4> QED
        BY <1>3, <1>4, <4>1 DEF Once
    <3>3. ASSUME isFree[n], n # L[1]
          PROVE  \E i \in 1 .. Len(M) : M[i] = n
      <4>1. PICK i \in 1 .. Len(L) : L[i] = n
        BY <1>4, <3>3
      <4>2. i - 1 \in 1 .. Len(M) /\ (i - 1) + 1 = i
        BY <1>3, <2>1, <3>3, <4>1
      <4> QED
        BY <2>1, <4>1, <4>2
    <3> QED
      BY <3>1, <3>2, <3>3
  <2>6. CASE Len(L) = 1
    <3>1. M = << >> /\ first' = End /\ last' = End
      BY <1>4, <2>1, <2>3, <2>6, EmptySeq
    <3>2. Linked(M, first', next')
      BY <2>1, <2>6, <3>1 DEF Linked
    <3>3. last' = IF M = << >> THEN End ELSE M[Len(M)]
      BY <3>1
    <3>4. ListAfter(M)
      BY <2>1, <2>2, <2>4, <2>5, <3>2, <3>3, Zenon DEF ListAfter
    <3> QED
      BY <2>0, <3>4, NextIsChain, Zenon
  <2>7. CASE Len(L) > 1
    <3>1. /\ Len(M) \in Nat \ {0} /\ M # << >> /\ M[1] = L[2] /\ M[Len(M)] = L[Len(L)]
          /\ \A i \in 1 .. Len(M) - 1 : M[i] = L[i + 1] /\ M[i + 1] = L[i + 2]
      <4>1. Len(M) \in Nat \ {0} /\ Len(M) = Len(L) - 1
        BY <1>3, <2>1, <2>7
      <4>2. 1 \in 1 .. Len(M) /\ Len(M) \in 1 .. Len(M) /\ Len(M) + 1 = Len(L) /\ 1 + 1 = 2
        BY <1>3, <4>1
      <4>3. ASSUME NEW i \in 1 .. Len(M) - 1
            PROVE  M[i] = L[i + 1] /\ M[i + 1] = L[i + 2]
        <5>1. i \in 1 .. Len(M) /\ i + 1 \in 1 .. Len(M) /\ (i + 1) + 1 = i + 2
          BY <4>1
        <5> QED
          BY <2>1, <5>1
      <4>4. M[1] = L[2] /\ M[Len(M)] = L[Len(L)]
        BY <2>1, <4>2
      <4> QED
        BY <4>1, <4>3, <4>4
    <3>2. first' = M[1] /\ last' = M[Len(M)]
      <4>1. L[1] # L[Len(L)]
        BY <1>3, <1>4, <2>7 DEF Once
      <4> QED
        BY <1>3, <1>4, <2>3, <2>7, <3>1, <4>1
    <3>3. \A i \in 1 .. Len(M) - 1 : next[M[i]] = M[i + 1]
      <4> TAKE i \in 1 .. Len(M) - 1
      <4>1. i + 1 \in 1 .. Len(L) - 1 /\ (i + 1) + 1 = i + 2
        BY <1>3, <2>1, <2>7
      <4>2. next[L[i + 1]] = L[i + 2]
        BY <1>4, <4>1
      <4> QED
        BY <3>1, <4>2
    <3>4. Linked(M, first', next')
      BY <1>4, <2>3, <3>1, <3>2, <3>3 DEF Linked
    <3>5. last' = IF M = << >> THEN End ELSE M[Len(M)]
      BY <3>1, <3>2
    <3>6. ListAfter(M)
      BY <2>1, <2>2, <2>4, <2>5, <3>4, <3>5, Zenon DEF ListAfter
    <3> QED
      BY <2>0, <3>6, NextIsChain, Zenon
  <2>8. Len(L) = 1 \/ Len(L) > 1
    <3>1. PICK k \in Nat \ {0} : k = Len(L)
      BY <1>3, Zenon
    <3>2. k = 1 \/ k > 1
      OBVIOUS
    <3> QED
      BY <3>1, <3>2, Zenon
  <2> QED
    BY <2>6, <2>7, <2>8, Zenon
<1> QED
  BY <1>1, <1>3, <1>4, <1>5, <1>6

\* del() puts the number behind the others.
LEMMA DelStep ==
  ASSUME ListInv, NEW m \in Numbers, DelNumber(m)
  PROVE  SeqChain' = Append(SeqChain, m) /\ ListInv'
<1>1. PICK L : L = SeqChain
  OBVIOUS
<1>2. IsFreeList(L) /\ SeqTypeOK
  BY <1>1 DEF ListInv
<1>3. L \in Seq(Numbers) /\ Len(L) \in Nat /\ \A i \in 1 .. Len(L) : L[i] \in Numbers /\ L[i] # End
  BY <1>2, SeqManagerAssumption DEF IsFreeList, Numbers
<1>4. /\ Once(L) /\ \A i \in 1 .. Len(L) - 1 : next[L[i]] = L[i + 1]
      /\ \A n \in Numbers : isFree[n] <=> \E i \in 1 .. Len(L) : L[i] = n
      /\ first = IF L = << >> THEN End ELSE L[1]
      /\ last = IF L = << >> THEN End ELSE L[Len(L)]
  BY <1>2 DEF IsFreeList, Linked
<1>5. \A i \in 1 .. Len(L) : L[i] # m
  BY <1>4 DEF DelNumber
<1>6. PICK M : M = Append(L, m)
  OBVIOUS
<1>7. /\ M \in Seq(Numbers) /\ Len(M) = Len(L) + 1 /\ M # << >> /\ M[Len(M)] = m
      /\ \A i \in 1 .. Len(L) : M[i] = L[i]
  BY <1>3, <1>6, AppendProperties
<1>8. Once(M)
  <2> SUFFICES ASSUME NEW i \in 1 .. Len(M), NEW j \in 1 .. Len(M), M[i] = M[j]
               PROVE  i = j
    BY DEF Once
  <2>1. CASE i \in 1 .. Len(L) /\ j \in 1 .. Len(L)
    BY <1>4, <1>7, <2>1 DEF Once
  <2>2. CASE i = Len(M) \/ j = Len(M)
    <3>1. i \in 1 .. Len(L) \/ i = Len(M)
      BY <1>3, <1>7
    <3>2. j \in 1 .. Len(L) \/ j = Len(M)
      BY <1>3, <1>7
    <3> QED
      BY <1>5, <1>7, <2>2, <3>1, <3>2
  <2> QED
    BY <1>3, <1>7, <2>1, <2>2
<1>9. isFree' = [isFree EXCEPT ![m] = TRUE] /\ last' = m
  BY DEF DelNumber
<1>10. \A n \in Numbers : isFree'[n] <=> \E i \in 1 .. Len(M) : M[i] = n
  <2> TAKE n \in Numbers
  <2>1. isFree'[n] <=> isFree[n] \/ n = m
    BY <1>2, <1>9 DEF SeqTypeOK
  <2>2. (\E i \in 1 .. Len(M) : M[i] = n) <=> (\E i \in 1 .. Len(L) : L[i] = n) \/ n = m
    <3>1. 1 .. Len(M) = (1 .. Len(L)) \cup {Len(M)}
      BY <1>3, <1>7
    <3> QED
      BY <1>7, <3>1
  <2> QED
    BY <1>4, <2>1, <2>2
<1>11. CASE L = << >>
  <2>1. first' = m /\ next' = [next EXCEPT ![m] = End] /\ Len(M) = 1 /\ Len(L) = 0
    BY <1>4, <1>7, <1>11 DEF DelNumber
  <2>2. SeqTypeOK'
    BY <1>2, <1>9, <2>1 DEF SeqTypeOK, Links
  <2>3. Linked(M, first', next')
    BY <1>2, <1>7, <2>1 DEF Linked, SeqTypeOK
  <2>6. last' = IF M = << >> THEN End ELSE M[Len(M)]
    BY <1>7, <1>9
  <2>7. ListAfter(M)
    BY <1>7, <1>8, <1>10, <2>2, <2>3, <2>6, Zenon DEF ListAfter
  <2> QED
    BY <1>1, <1>6, <2>7, NextIsChain, Zenon
<1>12. CASE L # << >>
  <2>0. Len(L) \in 1 .. Len(L) /\ last = L[Len(L)] /\ last # End /\ last \in Numbers
    BY <1>3, <1>4, <1>12
  <2>1. first' = first /\ next' = [next EXCEPT ![m] = End, ![last] = m]
    BY <2>0 DEF DelNumber
  <2>2. SeqTypeOK'
    BY <1>2, <1>9, <2>1 DEF SeqTypeOK, Links
  <2>3. next'[last] = m /\ next'[m] = End
        /\ \A n \in Numbers \ {m, last} : next'[n] = next[n]
    BY <1>2, <1>5, <2>0, <2>1 DEF SeqTypeOK
  <2>4. ASSUME NEW i \in 1 .. Len(M) - 1
        PROVE  next'[M[i]] = M[i + 1]
    <3>1. CASE i = Len(L)
      BY <1>3, <1>7, <2>0, <2>3, <3>1
    <3>2. CASE i # Len(L)
      <4>1. /\ i \in 1 .. Len(L) - 1 /\ i \in 1 .. Len(L) /\ i + 1 \in 1 .. Len(L)
        BY <1>3, <1>7, <3>2
      <4>2. L[i] \in Numbers \ {m, last}
        BY <1>3, <1>4, <1>5, <2>0, <3>2, <4>1 DEF Once
      <4>3. M[i] = L[i] /\ M[i + 1] = L[i + 1]
        BY <1>7, <4>1
      <4>4. next'[L[i]] = next[L[i]]
        BY <2>3, <4>2
      <4>5. next[L[i]] = L[i + 1]
        BY <1>4, <4>1
      <4> QED
        BY <4>3, <4>4, <4>5
    <3> QED
      BY <3>1, <3>2
  <2>5. Linked(M, first', next')
    <3>1. first' = M[1]
      BY <1>3, <1>4, <1>7, <1>12, <2>0, <2>1
    <3> QED
      BY <1>7, <2>3, <2>4, <3>1 DEF Linked
  <2>6. last' = IF M = << >> THEN End ELSE M[Len(M)]
    BY <1>7, <1>9
  <2>7. ListAfter(M)
    BY <1>7, <1>8, <1>10, <2>2, <2>5, <2>6, Zenon DEF ListAfter
  <2> QED
    BY <1>1, <1>6, <2>7, NextIsChain, Zenon
<1> QED
  BY <1>11, <1>12

\* A step keeps the list.
LEMMA StepList == ListInv /\ [SeqNext]_seqVars => ListInv'
<1> SUFFICES ASSUME ListInv, [SeqNext]_seqVars
             PROVE  ListInv'
  OBVIOUS
<1>1. CASE GetNumber
  BY <1>1, GetStep DEF GetNumber
<1>2. CASE \E i \in Numbers : DelNumber(i)
  BY <1>2, DelStep
<1>3. CASE UNCHANGED seqVars
  BY <1>3 DEF seqVars, ListInv, IsFreeList, SeqTypeOK, SeqChain
<1> QED
  BY <1>1, <1>2, <1>3 DEF SeqNext

-----------------------------------------------------------------------------
(* The theorems. *)

\* SeqManager::get(): the number it takes is free, and when it is the last of the list it
\* has no next one (the two assertions of the function).
GetAsserts == first # End => /\ first \in Numbers /\ isFree[first]
                             /\ first = last => next[first] = End

\* The links of SeqManager always make one list of the free numbers, without a cycle or a
\* number that is lost: what get() asserts holds whenever it is called.
THEOREM NumbersAsserted == SeqSpec => [](SeqTypeOK /\ GetAsserts)
<1>1. ListInv => SeqTypeOK /\ GetAsserts
  BY GetStep DEF ListInv, GetAsserts
<1> QED
  BY <1>1, InitList, StepList, PTL DEF SeqSpec

\* get() and del() of SeqManager, with their links through an array, implement a FIFO of
\* numbers in which a number is held by one thread at a time.
THEOREM NumbersImplementPool == SeqSpec => NumberPoolSpec
<1>1. SeqInit => Pool!Init
  <2> SUFFICES ASSUME SeqInit
               PROVE  Pool!Init
    OBVIOUS
  <2>1. {i \in Numbers : ~ isFree[i]} = {}
    BY DEF SeqInit
  <2> QED
    BY <2>1, InitList DEF Pool!Init
<1>2. ListInv /\ [SeqNext]_seqVars => [Pool!Next]_(Pool!vars)
  <2> SUFFICES ASSUME ListInv, [SeqNext]_seqVars
               PROVE  [Pool!Next]_(Pool!vars)
    OBVIOUS
  <2>0. isFree \in [Numbers -> BOOLEAN]
    BY DEF ListInv, SeqTypeOK
  <2>1. CASE GetNumber
    <3>1. /\ SeqChain # << >> /\ Head(SeqChain) = first /\ first \in Numbers
          /\ SeqChain' = Tail(SeqChain) /\ isFree' = [isFree EXCEPT ![first] = FALSE]
      BY <2>1, GetStep DEF GetNumber
    <3>2. {i \in Numbers : ~ isFree[i]}' = {i \in Numbers : ~ isFree[i]} \cup {Head(SeqChain)}
      BY <2>0, <3>1
    <3> QED
      BY <3>1, <3>2 DEF Pool!Next, Pool!Take
  <2>2. ASSUME NEW m \in Numbers, DelNumber(m)
        PROVE  Pool!Next
    <3>1. /\ SeqChain' = Append(SeqChain, m) /\ ~ isFree[m]
          /\ isFree' = [isFree EXCEPT ![m] = TRUE]
      BY <2>2, DelStep DEF DelNumber
    <3>2. {i \in Numbers : ~ isFree[i]}' = {i \in Numbers : ~ isFree[i]} \ {m}
      BY <2>0, <3>1
    <3> QED
      BY <3>1, <3>2 DEF Pool!Next, Pool!Give
  <2>3. CASE UNCHANGED seqVars
    BY <2>3 DEF seqVars, SeqChain, Pool!vars
  <2> QED
    BY <2>1, <2>2, <2>3 DEF SeqNext
<1> QED
  BY <1>1, <1>2, InitList, StepList, PTL DEF SeqSpec, NumberPoolSpec, Pool!Spec
=============================================================================
