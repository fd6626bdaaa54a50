-------------------------- MODULE BluetoothQueueProofs --------------------------
(***************************************************************************)
(* Proofs about the parts of Bluetooth that keep lists: mgmt and hci with  *)
(* their queues of requests, the queue and the ring buffer of src/shared,  *)
(* and the main loop with its watches.  Each part has an invariant, which  *)
(* holds at the start (...Start), is kept by every step (...Next) and      *)
(* implies the part's properties (...Correct); BluetoothProofs has the     *)
(* other parts and puts them together.  What Filter returns for every list *)
(* is proved first, by induction over the length of the list, which is the *)
(* choice of a least counterexample.                                       *)
(***************************************************************************)
EXTENDS Bluetooth, Lists, Functions, SequenceTheorems, FiniteSetTheorems, WellFoundedInduction, TLAPS

-----------------------------------------------------------------------------
(* Lists and Filter *)

\* A set of numbers has a least one.
LEMMA LeastNumber ==
    ASSUME NEW T, T \subseteq Nat, T # {}
    PROVE  \E x \in T : \A y \in T : x <= y
<1>1. \E x \in T : \A y \in T : ~ (<<y, x>> \in OpToRel(<, Nat))
  BY NatLessThanWellFounded, WFMin
<1>2. ASSUME NEW x \in T, NEW y \in T, ~ (<<y, x>> \in OpToRel(<, Nat))
      PROVE x <= y
  BY <1>2 DEF OpToRel
<1>3. QED
  BY <1>1, <1>2

\* A set of numbers that holds 0 and the successor of each is that of all numbers.
LEMMA NaturalsFromZero ==
    ASSUME NEW P, 0 \in P, \A n \in Nat : n \in P => n + 1 \in P
    PROVE  \A n \in Nat : n \in P
<1> DEFINE C == {n \in Nat : n \notin P}
<1> SUFFICES ASSUME C # {} PROVE FALSE
  OBVIOUS
<1>1. PICK x \in C : \A y \in C : x <= y
  BY LeastNumber
<1>2. x \in Nat /\ x # 0 /\ x \notin P
  OBVIOUS
<1>3. x - 1 \in Nat /\ (x - 1) + 1 = x /\ ~(x <= x - 1)
  BY <1>2
<1>4. x - 1 \in C
  BY <1>2, <1>3
<1>5. QED
  BY <1>1, <1>3, <1>4

-----------------------------------------------------------------------------
(* Filter by its last element *)

\* G holds what is picked from the first i elements of q, for i up to n.
Picks(G, q, S, n) ==
    G = [i \in 0..n |-> IF i = 0 THEN <<>> ELSE IF q[i] \in S THEN Append(G[i - 1], q[i]) ELSE G[i - 1]]

\* There is such a function.
LEMMA PicksExists ==
    ASSUME NEW q, NEW S
    PROVE  \A n \in Nat : \E G : Picks(G, q, S, n)
<1> DEFINE P == {n \in Nat : \E G : Picks(G, q, S, n)}
<1>1. 0 \in P
  <2> DEFINE G == [i \in 0..0 |-> <<>>]
  <2>1. Picks(G, q, S, 0)
    BY DEF Picks
  <2>2. QED
    BY <2>1
<1>2. ASSUME NEW n \in Nat, n \in P PROVE n + 1 \in P
  <2>1. PICK G : Picks(G, q, S, n)
    BY <1>2
  <2> DEFINE H == [i \in 0..n + 1 |-> IF i = n + 1
                                      THEN IF q[n + 1] \in S THEN Append(G[n], q[n + 1]) ELSE G[n]
                                      ELSE G[i]]
  <2>2. \A i \in 0..n : H[i] = G[i]
    OBVIOUS
  <2>3. \A i \in 0..n : G[i] = IF i = 0 THEN <<>> ELSE IF q[i] \in S THEN Append(G[i - 1], q[i]) ELSE G[i - 1]
    BY <2>1 DEF Picks
  <2>4. ASSUME NEW i \in 0..n + 1
        PROVE  H[i] = IF i = 0 THEN <<>> ELSE IF q[i] \in S THEN Append(H[i - 1], q[i]) ELSE H[i - 1]
    <3>1. CASE i = n + 1
      <4>1. i # 0 /\ i - 1 = n /\ n \in 0..n
        BY <3>1
      <4>2. H[i - 1] = G[n]
        BY <4>1, <2>2
      <4>3. H[i] = IF q[i] \in S THEN Append(G[n], q[i]) ELSE G[n]
        BY <3>1
      <4> HIDE DEF H
      <4>4. QED
        BY <4>1, <4>2, <4>3
    <3>2. CASE i = 0
      BY <2>2, <2>3, <3>2
    <3>3. CASE i # n + 1 /\ i # 0
      <4>1. i \in 0..n /\ i - 1 \in 0..n
        BY <3>3
      <4>2. H[i] = G[i] /\ H[i - 1] = G[i - 1]
        BY <4>1, <2>2
      <4> HIDE DEF H
      <4>3. QED
        BY <4>1, <4>2, <3>3, <2>3
    <3>4. QED
      BY <3>1, <3>2, <3>3
  <2>5. H = [i \in 0..n + 1 |-> H[i]]
    OBVIOUS
  <2> HIDE DEF H
  <2>6. Picks(H, q, S, n + 1)
    BY <2>4, <2>5 DEF Picks
  <2>7. QED
    BY <2>6
<1>3. \A n \in Nat : n \in P
  <2> HIDE DEF P
  <2>1. QED
    BY <1>1, <1>2, NaturalsFromZero
<1>4. QED
  BY <1>3

\* Lists that begin alike are picked from alike.
LEMMA PicksAlike ==
    ASSUME NEW q, NEW r, NEW S, NEW n \in Nat, NEW m \in Nat, n <= m, NEW G, NEW H,
           Picks(G, q, S, n), Picks(H, r, S, m), \A i \in 1..n : q[i] = r[i]
    PROVE  G[n] = H[n]
<1> DEFINE P == {k \in Nat : k <= n => G[k] = H[k]}
<1>1. \A i \in 0..n : G[i] = IF i = 0 THEN <<>> ELSE IF q[i] \in S THEN Append(G[i - 1], q[i]) ELSE G[i - 1]
  BY DEF Picks
<1>2. \A i \in 0..m : H[i] = IF i = 0 THEN <<>> ELSE IF r[i] \in S THEN Append(H[i - 1], r[i]) ELSE H[i - 1]
  BY DEF Picks
<1>3. 0 \in P
  <2>1. 0 \in 0..n /\ 0 \in 0..m
    OBVIOUS
  <2>2. G[0] = <<>> /\ H[0] = <<>>
    BY <2>1, <1>1, <1>2
  <2>3. QED
    BY <2>2
<1>4. ASSUME NEW k \in Nat, k \in P PROVE k + 1 \in P
  <2> SUFFICES ASSUME k + 1 <= n PROVE G[k + 1] = H[k + 1]
    OBVIOUS
  <2>1. k + 1 \in 0..n /\ k + 1 \in 0..m /\ k + 1 \in 1..n /\ k + 1 # 0 /\ (k + 1) - 1 = k /\ k <= n
    OBVIOUS
  <2>2. G[k] = H[k] /\ q[k + 1] = r[k + 1]
    BY <2>1, <1>4
  <2>3. QED
    BY <2>1, <2>2, <1>1, <1>2
<1>5. \A k \in Nat : k \in P
  BY <1>3, <1>4, NaturalsFromZero
<1>6. n \in P /\ n <= n
  BY <1>5
<1>7. QED
  BY <1>6

\* Filter is the last of them.
LEMMA FilterPicks ==
    ASSUME NEW q, NEW S, Len(q) \in Nat
    PROVE  \E G : Picks(G, q, S, Len(q)) /\ Filter(q, S) = G[Len(q)]
<1>1. PICK G : Picks(G, q, S, Len(q))
  BY PicksExists
<1>2. G = [i \in 0..Len(q) |-> IF i = 0 THEN <<>> ELSE IF q[i] \in S THEN Append(G[i - 1], q[i]) ELSE G[i - 1]]
  BY <1>1 DEF Picks
<1>3. \E H : /\ H = [i \in 0..Len(q) |-> IF i = 0 THEN <<>> ELSE IF q[i] \in S THEN Append(H[i - 1], q[i]) ELSE H[i - 1]]
             /\ Filter(q, S) = H[Len(q)]
  BY <1>2, Zenon DEF Filter
<1>4. QED
  BY <1>3 DEF Picks

\* Nothing is picked from nothing.
LEMMA FilterEmpty == \A S : Filter(<<>>, S) = <<>>
<1> SUFFICES ASSUME NEW S PROVE Filter(<<>>, S) = <<>>
  OBVIOUS
<1>1. Len(<<>>) = 0
  OBVIOUS
<1>2. PICK G : Picks(G, <<>>, S, 0) /\ Filter(<<>>, S) = G[0]
  BY <1>1, FilterPicks
<1>3. G[0] = <<>>
  BY <1>2 DEF Picks
<1>4. QED
  BY <1>2, <1>3

\* The last element is picked or not.
LEMMA FilterAppend ==
    ASSUME NEW T, NEW q \in Seq(T), NEW x \in T, NEW S
    PROVE  Filter(Append(q, x), S) = IF x \in S THEN Append(Filter(q, S), x) ELSE Filter(q, S)
<1> DEFINE r == Append(q, x)
           n == Len(q)
<1>1. n \in Nat /\ Len(r) = n + 1 /\ r[n + 1] = x /\ \A i \in 1..n : q[i] = r[i]
  BY AppendProperties, LenProperties
<1> HIDE DEF r
<1>2. PICK G : Picks(G, q, S, n) /\ Filter(q, S) = G[n]
  BY <1>1, FilterPicks, Zenon
<1>3. PICK H : Picks(H, r, S, n + 1) /\ Filter(r, S) = H[n + 1]
  BY <1>1, FilterPicks
<1> HIDE DEF n
<1>4. n <= n + 1 /\ n + 1 \in Nat /\ n \in 0..n /\ n + 1 \in 0..n + 1 /\ n + 1 # 0 /\ (n + 1) - 1 = n
  BY <1>1
<1>5. G[n] = H[n]
  <2>1. n \in Nat /\ n + 1 \in Nat /\ n <= n + 1 /\ \A i \in 1..n : q[i] = r[i]
    BY <1>1, <1>4
  <2>2. Picks(G, q, S, n) /\ Picks(H, r, S, n + 1)
    BY <1>2, <1>3
  <2>3. QED
    BY <2>1, <2>2, PicksAlike
<1>6. H[n + 1] = IF r[n + 1] \in S THEN Append(H[n], r[n + 1]) ELSE H[n]
  BY <1>3, <1>4 DEF Picks
<1>7. QED
  BY <1>1, <1>2, <1>3, <1>5, <1>6 DEF r

-----------------------------------------------------------------------------
(* Induction over lists: a list is empty or has a last element *)

\* A list is the empty one, or another one and an element.
LEMMA SeqLast ==
    ASSUME NEW T, NEW n \in Nat, NEW q \in Seq(T), Len(q) = n + 1
    PROVE  \E r \in Seq(T) : \E x \in T : Len(r) = n /\ q = Append(r, x)
<1> DEFINE r == [i \in 1..n |-> q[i]]
           x == q[n + 1]
<1>1. n + 1 \in 1..Len(q) /\ \A i \in 1..n : i \in 1..Len(q)
  OBVIOUS
<1>2. r \in Seq(T) /\ Len(r) = n /\ x \in T
  <2>1. \A i \in 1..n : q[i] \in T
    BY <1>1, ElementOfSeq
  <2>2. r \in [1..n -> T]
    BY <2>1
  <2>3. x \in T
    BY <1>1, ElementOfSeq
  <2>4. QED
    BY <2>2, <2>3, SeqDef, LenProperties
<1>3. \A i \in 1..n : r[i] = q[i]
  OBVIOUS
<1> HIDE DEF r, x
<1>4. Append(r, x) \in Seq(T) /\ Len(Append(r, x)) = n + 1 /\ Append(r, x)[n + 1] = x
      /\ \A i \in 1..n : Append(r, x)[i] = r[i]
  BY <1>2, AppendProperties
<1>5. \A i \in 1..n + 1 : Append(r, x)[i] = q[i]
  <2> SUFFICES ASSUME NEW i \in 1..n + 1 PROVE Append(r, x)[i] = q[i]
    OBVIOUS
  <2>1. i \in 1..n \/ i = n + 1
    OBVIOUS
  <2>2. QED
    BY <2>1, <1>3, <1>4 DEF x
<1>6. q = Append(r, x)
  BY <1>4, <1>5, SeqEqual
<1>7. QED
  BY <1>2, <1>6

\* What holds of the empty list, and of a list with one element more, holds of every list.
LEMMA ListInduction ==
    ASSUME NEW T, NEW P, <<>> \in P,
           \A q \in Seq(T) : \A x \in T : q \in P => Append(q, x) \in P
    PROVE  \A q \in Seq(T) : q \in P
<1> DEFINE N == {n \in Nat : \A q \in Seq(T) : Len(q) = n => q \in P}
<1>1. 0 \in N
  <2> SUFFICES ASSUME NEW q \in Seq(T), Len(q) = 0 PROVE q \in P
    OBVIOUS
  <2>1. q = <<>>
    BY EmptySeq
  <2>2. QED
    BY <2>1
<1>2. ASSUME NEW n \in Nat, n \in N PROVE n + 1 \in N
  <2> SUFFICES ASSUME NEW q \in Seq(T), Len(q) = n + 1 PROVE q \in P
    OBVIOUS
  <2>1. PICK r \in Seq(T) : \E x \in T : Len(r) = n /\ q = Append(r, x)
    BY SeqLast, SMTT(20)
  <2>2. r \in P
    BY <2>1, <1>2
  <2>3. QED
    BY <2>1, <2>2
<1>3. \A n \in Nat : n \in N
  <2> HIDE DEF N
  <2>1. QED
    BY <1>1, <1>2, NaturalsFromZero
<1>4. QED
  <2> SUFFICES ASSUME NEW q \in Seq(T) PROVE q \in P
    OBVIOUS
  <2>1. Len(q) \in Nat
    BY LenProperties
  <2>2. QED
    BY <2>1, <1>3

-----------------------------------------------------------------------------
(* What is picked *)

\* h tells for every element of r where in q it is: at rising places, which are those of all
\* elements in S.
PickedBy(q, S, r, h) ==
    /\ h \in [1..Len(r) -> 1..Len(q)]
    /\ \A k \in 1..Len(r) : r[k] = q[h[k]] /\ q[h[k]] \in S
    /\ \A j, k \in 1..Len(r) : j < k => h[j] < h[k]
    /\ \A i \in 1..Len(q) : q[i] \in S => \E k \in 1..Len(r) : h[k] = i

\* Filter picks all elements that are in S, once each and in their order.
LEMMA FilterPicked ==
    ASSUME NEW T, NEW S
    PROVE  \A q \in Seq(T) : Filter(q, S) \in Seq(T) /\ \E h : PickedBy(q, S, Filter(q, S), h)
<1> DEFINE P == {q \in Seq(T) : Filter(q, S) \in Seq(T) /\ \E h : PickedBy(q, S, Filter(q, S), h)}
<1>1. <<>> \in P
  <2>1. <<>> \in Seq(T) /\ Len(<<>>) = 0
    OBVIOUS
  <2> DEFINE h == [k \in 1..0 |-> 0]
  <2>2. PickedBy(<<>>, S, <<>>, h)
    <3>1. 1..0 = {}
      OBVIOUS
    <3>2. QED
      BY <2>1, <3>1 DEF PickedBy
  <2>3. QED
    BY <2>1, <2>2, FilterEmpty
<1>2. ASSUME NEW q \in Seq(T), NEW x \in T, q \in P PROVE Append(q, x) \in P
  <2> DEFINE r == Filter(q, S)
             qx == Append(q, x)
             n == Len(q)
             m == Len(r)
  <2>1. r \in Seq(T)
    BY <1>2
  <2>2. PICK h : PickedBy(q, S, r, h)
    BY <1>2
  <2>3. qx \in Seq(T) /\ n \in Nat /\ Len(qx) = n + 1 /\ qx[n + 1] = x /\ \A i \in 1..n : qx[i] = q[i]
    BY AppendProperties, LenProperties
  <2>4. m \in Nat
    BY <2>1, LenProperties
  <2>5. Filter(qx, S) = IF x \in S THEN Append(r, x) ELSE r
    BY FilterAppend
  <2> HIDE DEF r, qx
  <2>6. /\ h \in [1..m -> 1..n]
        /\ \A k \in 1..m : r[k] = q[h[k]] /\ q[h[k]] \in S
        /\ \A j, k \in 1..m : j < k => h[j] < h[k]
        /\ \A i \in 1..n : q[i] \in S => \E k \in 1..m : h[k] = i
    BY <2>2 DEF PickedBy
  <2>7. CASE x \notin S
    <3>1. PickedBy(qx, S, r, h)
      <4> HIDE DEF n, m
      <4>1. h \in [1..m -> 1..n + 1]
        BY <2>6, <2>3
      <4>2. \A k \in 1..m : r[k] = qx[h[k]] /\ qx[h[k]] \in S
        BY <2>6, <2>3
      <4>3. ASSUME NEW i \in 1..n + 1, qx[i] \in S PROVE \E k \in 1..m : h[k] = i
        <5>1. i # n + 1
          BY <4>3, <2>3, <2>7
        <5>2. i \in 1..n
          BY <5>1, <2>3
        <5>3. QED
          BY <4>3, <5>2, <2>3, <2>6
      <4>4. QED
        BY <4>1, <4>2, <4>3, <2>3, <2>6 DEF PickedBy, m
    <3>2. QED
      BY <2>1, <2>3, <2>5, <2>7, <3>1 DEF qx
  <2>8. CASE x \in S
    <3> DEFINE rx == Append(r, x)
               g  == [k \in 1..m + 1 |-> IF k = m + 1 THEN n + 1 ELSE h[k]]
    <3>1. rx \in Seq(T) /\ Len(rx) = m + 1 /\ rx[m + 1] = x /\ \A k \in 1..m : rx[k] = r[k]
      BY <2>1, AppendProperties
    <3> HIDE DEF rx, n, m
    <3>2. g[m + 1] = n + 1 /\ \A k \in 1..m : g[k] = h[k] /\ h[k] \in 1..n /\ h[k] # n + 1 /\ k # m + 1
      BY <2>3, <2>4, <2>6
    <3>3. g \in [1..m + 1 -> 1..n + 1]
      <4>1. n + 1 \in 1..n + 1 /\ \A k \in 1..n : k \in 1..n + 1
        BY <2>3
      <4>2. \A k \in 1..m + 1 : k = m + 1 \/ k \in 1..m
        BY <2>4
      <4>3. \A k \in 1..m + 1 : g[k] \in 1..n + 1
        BY <4>1, <4>2, <3>2
      <4>4. QED
        BY <4>3
    <3> HIDE DEF g
    <3>4. \A k \in 1..m + 1 : k = m + 1 \/ k \in 1..m
      BY <2>4
    <3>5. \A k \in 1..m + 1 : rx[k] = qx[g[k]] /\ qx[g[k]] \in S
      <4>1. ASSUME NEW k \in 1..m PROVE rx[k] = qx[g[k]] /\ qx[g[k]] \in S
        BY <2>3, <2>6, <3>1, <3>2
      <4>2. rx[m + 1] = qx[g[m + 1]] /\ qx[g[m + 1]] \in S
        BY <2>3, <3>1, <3>2, <2>8
      <4>3. QED
        BY <3>4, <4>1, <4>2
    <3>6. \A j, k \in 1..m + 1 : j < k => g[j] < g[k]
      <4> SUFFICES ASSUME NEW j \in 1..m + 1, NEW k \in 1..m + 1, j < k PROVE g[j] < g[k]
        OBVIOUS
      <4>1. j \in 1..m
        BY <2>4
      <4>2. g[j] = h[j] /\ h[j] \in 1..n
        BY <4>1, <3>2
      <4>3. CASE k = m + 1
        <5>1. g[k] = n + 1
          BY <4>3, <3>2
        <5>2. QED
          BY <4>2, <5>1, <2>3
      <4>4. CASE k \in 1..m
        BY <4>1, <4>2, <4>4, <3>2, <2>6
      <4>5. QED
        BY <3>4, <4>3, <4>4
    <3>7. ASSUME NEW i \in 1..n + 1, qx[i] \in S PROVE \E k \in 1..m + 1 : g[k] = i
      <4>1. m + 1 \in 1..m + 1 /\ \A k \in 1..m : k \in 1..m + 1
        BY <2>4
      <4>2. CASE i = n + 1
        BY <4>1, <4>2, <3>2
      <4>3. CASE i # n + 1
        <5>1. i \in 1..n
          BY <4>3, <2>3
        <5>2. q[i] \in S
          BY <5>1, <3>7, <2>3
        <5>3. PICK k \in 1..m : h[k] = i
          BY <5>1, <5>2, <2>6
        <5>4. QED
          BY <5>3, <4>1, <3>2
      <4>4. QED
        BY <4>2, <4>3
    <3>8. PickedBy(qx, S, rx, g)
      <4>1. Len(rx) = m + 1 /\ Len(qx) = n + 1
        BY <2>3, <3>1
      <4>2. QED
        BY <4>1, <3>3, <3>5, <3>6, <3>7 DEF PickedBy
    <3>9. QED
      BY <2>3, <2>5, <2>8, <3>1, <3>8 DEF qx, rx
  <2>9. QED
    BY <2>7, <2>8
<1>3. \A q \in Seq(T) : q \in P
  <2> HIDE DEF P
  <2>1. QED
    BY <1>1, <1>2, ListInduction
<1>4. QED
  BY <1>3

\* What is picked are the elements that are in S, of the type of the list.
LEMMA FilterRange ==
    ASSUME NEW T, NEW q \in Seq(T), NEW S
    PROVE  Filter(q, S) \in Seq(T) /\ Range(Filter(q, S)) = Range(q) \cap S
<1> DEFINE r == Filter(q, S)
<1>1. r \in Seq(T)
  BY FilterPicked
<1>2. PICK h : PickedBy(q, S, r, h)
  BY FilterPicked
<1>3. DOMAIN q = 1..Len(q) /\ DOMAIN r = 1..Len(r)
  BY <1>1, LenProperties
<1> HIDE DEF r
<1>4. Range(r) \subseteq Range(q) \cap S
  BY <1>2, <1>3 DEF PickedBy, Range
<1>5. ASSUME NEW i \in DOMAIN q, q[i] \in S PROVE q[i] \in Range(r)
  <2>1. PICK k \in 1..Len(r) : h[k] = i
    BY <1>2, <1>3, <1>5 DEF PickedBy
  <2>2. r[k] = q[i]
    BY <1>2, <2>1 DEF PickedBy
  <2>3. QED
    BY <1>3, <2>1, <2>2 DEF Range
<1>6. Range(q) \cap S \subseteq Range(r)
  BY <1>5 DEF Range
<1>7. QED
  BY <1>1, <1>4, <1>6 DEF r

\* What is in a list once is picked once.
LEMMA FilterInjective ==
    ASSUME NEW T, NEW q \in Seq(T), NEW S, IsInjective(q)
    PROVE  IsInjective(Filter(q, S))
<1> DEFINE r == Filter(q, S)
<1>1. r \in Seq(T)
  BY FilterPicked
<1>2. PICK h : PickedBy(q, S, r, h)
  BY FilterPicked
<1>3. DOMAIN q = 1..Len(q) /\ DOMAIN r = 1..Len(r) /\ Len(q) \in Nat /\ Len(r) \in Nat
  BY <1>1, LenProperties
<1> HIDE DEF r
<1>4. ASSUME NEW j \in 1..Len(r), NEW k \in 1..Len(r), r[j] = r[k] PROVE j = k
  <2>1. h[j] \in 1..Len(q) /\ h[k] \in 1..Len(q) /\ r[j] = q[h[j]] /\ r[k] = q[h[k]]
    BY <1>2 DEF PickedBy
  <2>2. h[j] = h[k]
    BY <1>3, <1>4, <2>1 DEF IsInjective
  <2>3. ~(j < k) /\ ~(k < j)
    <3>1. h[j] \in Int /\ h[k] \in Int
      BY <2>1, <1>3
    <3>2. ~(h[j] < h[k]) /\ ~(h[k] < h[j])
      BY <2>2, <3>1
    <3>3. QED
      BY <1>2, <3>2 DEF PickedBy
  <2>4. QED
    BY <2>3, <1>3
<1>5. QED
  BY <1>3, <1>4 DEF IsInjective, r

\* Nothing is picked exactly when nothing is in S.
LEMMA FilterNone ==
    ASSUME NEW T, NEW q \in Seq(T), NEW S
    PROVE  Filter(q, S) = <<>> <=> Range(q) \cap S = {}
<1> DEFINE r == Filter(q, S)
<1>1. r \in Seq(T) /\ Range(r) = Range(q) \cap S
  BY FilterRange
<1>2. DOMAIN r = 1..Len(r) /\ Len(r) \in Nat
  BY <1>1, LenProperties
<1> HIDE DEF r
<1>3. ASSUME r # <<>> PROVE Range(r) # {}
  <2>1. Len(r) # 0
    BY <1>1, <1>3, EmptySeq
  <2>2. 1 \in DOMAIN r
    BY <1>2, <2>1
  <2>3. QED
    BY <2>2 DEF Range
<1>4. ASSUME r = <<>> PROVE Range(r) = {}
  BY <1>4 DEF Range
<1>5. QED
  BY <1>1, <1>3, <1>4 DEF r

\* Everything is picked if everything is in S.
LEMMA FilterAll ==
    ASSUME NEW T, NEW q \in Seq(T), NEW S, Range(q) \subseteq S
    PROVE  Filter(q, S) = q
<1> DEFINE P == {p \in Seq(T) : Range(p) \subseteq S => Filter(p, S) = p}
<1>1. <<>> \in P
  BY FilterEmpty
<1>2. ASSUME NEW p \in Seq(T), NEW x \in T, p \in P PROVE Append(p, x) \in P
  <2>1. /\ Append(p, x) \in Seq(T) /\ Len(Append(p, x)) = Len(p) + 1 /\ Len(p) \in Nat
        /\ DOMAIN p = 1..Len(p) /\ DOMAIN Append(p, x) = 1..Len(p) + 1
        /\ Append(p, x)[Len(p) + 1] = x /\ \A i \in 1..Len(p) : Append(p, x)[i] = p[i]
    BY AppendProperties, LenProperties
  <2> SUFFICES ASSUME Range(Append(p, x)) \subseteq S PROVE Filter(Append(p, x), S) = Append(p, x)
    BY <2>1
  <2>2. Range(p) \subseteq S
    BY <2>1 DEF Range
  <2>3. Len(p) + 1 \in 1..Len(p) + 1
    BY <2>1
  <2>4. x \in S
    BY <2>1, <2>3 DEF Range
  <2>5. QED
    BY <1>2, <2>2, <2>4, FilterAppend
<1>3. \A p \in Seq(T) : p \in P
  <2> HIDE DEF P
  <2>1. QED
    BY <1>1, <1>2, ListInduction
<1>4. QED
  BY <1>3

\* Appending to the second of two lists appends to both.
LEMMA ConcatAppend ==
    ASSUME NEW T, NEW a \in Seq(T), NEW b \in Seq(T), NEW x \in T
    PROVE  a \o Append(b, x) = Append(a \o b, x)
<1>1. Append(b, x) \in Seq(T) /\ a \o b \in Seq(T)
  BY AppendProperties, ConcatProperties
<1>2. a \o Append(b, x) \in Seq(T) /\ Append(a \o b, x) \in Seq(T)
  BY <1>1, AppendProperties, ConcatProperties
<1>3. Len(a) \in Nat /\ Len(b) \in Nat
  BY LenProperties
<1>4. Len(a \o b) = Len(a) + Len(b) /\ Len(Append(b, x)) = Len(b) + 1
  BY ConcatProperties, AppendProperties
<1>5. Len(a \o Append(b, x)) = Len(a) + Len(b) + 1 /\ Len(Append(a \o b, x)) = Len(a) + Len(b) + 1
  BY <1>1, <1>3, <1>4, ConcatProperties, AppendProperties
<1>6. ASSUME NEW i \in 1..Len(a) + Len(b) + 1 PROVE (a \o Append(b, x))[i] = Append(a \o b, x)[i]
  OBVIOUS
<1>7. QED
  BY <1>2, <1>5, <1>6, SeqEqual

\* Two lists are picked from one after the other.
LEMMA FilterConcat ==
    ASSUME NEW T, NEW a \in Seq(T), NEW b \in Seq(T), NEW S
    PROVE  Filter(a \o b, S) = Filter(a, S) \o Filter(b, S)
<1> DEFINE P == {p \in Seq(T) : Filter(a \o p, S) = Filter(a, S) \o Filter(p, S)}
<1>0. Filter(a, S) \in Seq(T)
  BY FilterRange
<1>1. <<>> \in P
  <2>1. <<>> \in Seq(T) /\ a \o <<>> = a /\ Filter(a, S) \o <<>> = Filter(a, S)
    BY <1>0
  <2>2. QED
    BY <2>1, FilterEmpty
<1>2. ASSUME NEW p \in Seq(T), NEW x \in T, p \in P PROVE Append(p, x) \in P
  <2>1. Filter(p, S) \in Seq(T)
    BY FilterRange
  <2>2. Append(p, x) \in Seq(T) /\ a \o p \in Seq(T)
    BY AppendProperties, ConcatProperties
  <2>3. a \o Append(p, x) = Append(a \o p, x)
    BY ConcatAppend
  <2>4. Filter(Append(a \o p, x), S) = IF x \in S THEN Append(Filter(a \o p, S), x) ELSE Filter(a \o p, S)
    BY <2>2, FilterAppend
  <2>5. Filter(Append(p, x), S) = IF x \in S THEN Append(Filter(p, S), x) ELSE Filter(p, S)
    BY FilterAppend
  <2>6. Filter(a, S) \o Append(Filter(p, S), x) = Append(Filter(a, S) \o Filter(p, S), x)
    BY <1>0, <2>1, ConcatAppend
  <2>7. Filter(a \o p, S) = Filter(a, S) \o Filter(p, S)
    BY <1>2
  <2>8. QED
    BY <2>2, <2>3, <2>4, <2>5, <2>6, <2>7
<1>3. \A p \in Seq(T) : p \in P
  <2> HIDE DEF P
  <2>1. QED
    BY <1>1, <1>2, ListInduction
<1>4. QED
  BY <1>3

\* If all but one are in S, that one is left out and the others move up.
LEMMA FilterWithout ==
    ASSUME NEW T, NEW q \in Seq(T), NEW S, NEW i \in 1..Len(q), q[i] \notin S,
           \A j \in 1..Len(q) : j # i => q[j] \in S
    PROVE  /\ Filter(q, S) \in Seq(T) /\ Len(Filter(q, S)) = Len(q) - 1
           /\ \A k \in 1..Len(q) - 1 : Filter(q, S)[k] = IF k < i THEN q[k] ELSE q[k + 1]
<1> DEFINE n == Len(q)
           a == SubSeq(q, 1, i - 1)
           b == Append(a, q[i])
           c == SubSeq(q, i + 1, n)
<1>1. n \in Nat /\ i \in Nat /\ 1 <= i /\ i <= n /\ DOMAIN q = 1..n
  BY LenProperties
<1>2. q[i] \in T
  BY ElementOfSeq
<1>3. a \in Seq(T) /\ Len(a) = i - 1 /\ \A k \in 1..i - 1 : a[k] = q[k]
  <2>1. \A k \in 1..i - 1 : k \in 1..Len(q)
    BY <1>1
  <2>2. \A k \in 1..i - 1 : q[k] \in T
    BY <2>1, ElementOfSeq
  <2>3. 1 \in Int /\ i - 1 \in Int
    BY <1>1
  <2>4. /\ a \in Seq(T) /\ Len(a) = IF 1 <= i - 1 THEN (i - 1) - 1 + 1 ELSE 0
        /\ \A k \in 1..(i - 1) - 1 + 1 : a[k] = q[1 + k - 1]
    BY <2>2, <2>3, SubSeqProperties
  <2>5. (i - 1) - 1 + 1 = i - 1 /\ \A k \in 1..i - 1 : 1 + k - 1 = k
    BY <1>1
  <2>6. (IF 1 <= i - 1 THEN (i - 1) - 1 + 1 ELSE 0) = i - 1
    BY <1>1
  <2> HIDE DEF a
  <2>7. QED
    BY <2>4, <2>5, <2>6
<1>4. c \in Seq(T) /\ Len(c) = n - i /\ \A k \in 1..n - i : c[k] = q[i + k]
  <2>1. \A k \in i + 1..n : k \in 1..Len(q)
    BY <1>1
  <2>2. \A k \in i + 1..n : q[k] \in T
    BY <2>1, ElementOfSeq
  <2>3. i + 1 \in Int /\ n \in Int
    BY <1>1
  <2>4. /\ c \in Seq(T) /\ Len(c) = IF i + 1 <= n THEN n - (i + 1) + 1 ELSE 0
        /\ \A k \in 1..n - (i + 1) + 1 : c[k] = q[i + 1 + k - 1]
    BY <2>2, <2>3, SubSeqProperties
  <2>5. n - (i + 1) + 1 = n - i /\ \A k \in 1..n - i : i + 1 + k - 1 = i + k
    BY <1>1
  <2> HIDE DEF c, n
  <2>6. (IF i + 1 <= n THEN n - (i + 1) + 1 ELSE 0) = n - i
    BY <1>1
  <2>7. QED
    BY <2>4, <2>5, <2>6
<1> HIDE DEF a, c, n
<1>6. b \in Seq(T) /\ Len(b) = i /\ \A k \in 1..i : b[k] = q[k]
  <2>1. b \in Seq(T) /\ Len(b) = (i - 1) + 1 /\ (\A k \in 1..i - 1 : b[k] = a[k]) /\ b[(i - 1) + 1] = q[i]
    BY <1>2, <1>3, AppendProperties
  <2>2. (i - 1) + 1 = i /\ \A k \in 1..i : k \in 1..i - 1 \/ k = i
    BY <1>1
  <2> HIDE DEF b
  <2>3. QED
    BY <2>1, <2>2, <1>3
<1> HIDE DEF b
<1>7. q = b \o c
  <2>0. b \in Seq(T) /\ c \in Seq(T)
    BY <1>4, <1>6
  <2>1. b \o c \in Seq(T) /\ Len(b \o c) = Len(b) + Len(c)
    BY <2>0, ConcatProperties
  <2>2. Len(b) + Len(c) = n
    BY <1>1, <1>4, <1>6
  <2>3. \A k \in 1..n : (b \o c)[k] = IF k <= i THEN b[k] ELSE c[k - i]
    <3>1. \A k \in 1..Len(b) + Len(c) : (b \o c)[k] = IF k <= Len(b) THEN b[k] ELSE c[k - Len(b)]
      BY <2>0, ConcatProperties
    <3>2. QED
      BY <3>1, <2>2, <1>6
  <2>4. ASSUME NEW k \in 1..n PROVE (b \o c)[k] = q[k]
    <3>1. CASE k <= i
      <4>1. k \in 1..i
        BY <3>1, <1>1
      <4>2. QED
        BY <3>1, <4>1, <2>3, <1>6
    <3>2. CASE ~(k <= i)
      <4>1. k - i \in 1..n - i /\ i + (k - i) = k
        BY <3>2, <1>1
      <4>2. c[k - i] = q[k]
        BY <4>1, <1>4
      <4>3. QED
        BY <3>2, <4>2, <2>3
    <3>3. QED
      BY <3>1, <3>2
  <2>5. QED
    BY <2>1, <2>2, <2>4, SeqEqual DEF n
<1>8. Filter(a, S) = a
  <2>1. DOMAIN a = 1..i - 1 /\ \A k \in 1..i - 1 : k \in 1..Len(q) /\ k # i
    BY <1>1, <1>3, LenProperties DEF n
  <2>2. Range(a) \subseteq S
    BY <2>1, <1>3 DEF Range
  <2>3. QED
    BY <1>3, <2>2, FilterAll
<1>9. Filter(c, S) = c
  <2>1. DOMAIN c = 1..n - i /\ \A k \in 1..n - i : i + k \in 1..Len(q) /\ i + k # i
    BY <1>1, <1>4, LenProperties DEF n
  <2>2. Range(c) \subseteq S
    BY <2>1, <1>4 DEF Range
  <2>3. QED
    BY <1>4, <2>2, FilterAll
<1>10. Filter(b, S) = a
  BY <1>2, <1>3, <1>8, FilterAppend DEF b
<1>11. Filter(q, S) = a \o c
  <2>1. Filter(b \o c, S) = Filter(b, S) \o Filter(c, S)
    BY <1>4, <1>6, FilterConcat
  <2>2. QED
    BY <2>1, <1>7, <1>9, <1>10
<1>12. /\ a \o c \in Seq(T) /\ Len(a \o c) = n - 1
       /\ \A k \in 1..n - 1 : (a \o c)[k] = IF k <= i - 1 THEN a[k] ELSE c[k - (i - 1)]
  <2>1. a \in Seq(T) /\ c \in Seq(T)
    BY <1>3, <1>4
  <2>2. /\ a \o c \in Seq(T) /\ Len(a \o c) = Len(a) + Len(c)
        /\ \A k \in 1..Len(a) + Len(c) : (a \o c)[k] = IF k <= Len(a) THEN a[k] ELSE c[k - Len(a)]
    BY <2>1, ConcatProperties
  <2>3. Len(a) = i - 1 /\ Len(a) + Len(c) = n - 1
    BY <1>1, <1>3, <1>4
  <2>4. QED
    BY <2>2, <2>3
<1>13. \A k \in 1..n - 1 : (a \o c)[k] = IF k <= i - 1 THEN a[k] ELSE c[k - (i - 1)]
  BY <1>12
<1>14. ASSUME NEW k \in 1..n - 1 PROVE (a \o c)[k] = IF k < i THEN q[k] ELSE q[k + 1]
  <2>1. CASE k < i
    <3>1. k \in 1..i - 1 /\ k <= i - 1
      BY <2>1, <1>1
    <3>2. QED
      BY <2>1, <3>1, <1>13, <1>3
  <2>2. CASE ~(k < i)
    <3>1. ~(k <= i - 1) /\ k - (i - 1) \in 1..n - i /\ i + (k - (i - 1)) = k + 1
      BY <2>2, <1>1
    <3>2. c[k - (i - 1)] = q[k + 1]
      BY <3>1, <1>4
    <3>3. QED
      BY <2>2, <3>1, <3>2, <1>13
  <2>3. QED
    BY <2>1, <2>2
<1>15. QED
  BY <1>11, <1>12, <1>14 DEF n

\* If the first one alone is not in S, the rest is picked.
LEMMA FilterTail ==
    ASSUME NEW T, NEW q \in Seq(T), NEW S, q # <<>>, Head(q) \notin S,
           \A j \in 2..Len(q) : q[j] \in S
    PROVE  Filter(q, S) = Tail(q)
<1>1. Len(q) \in Nat /\ Len(q) # 0
  BY EmptySeq
<1>2. 1 \in 1..Len(q) /\ q[1] = Head(q)
  BY <1>1
<1>3. \A j \in 1..Len(q) : j # 1 => j \in 2..Len(q)
  BY <1>1
<1>4. /\ Filter(q, S) \in Seq(T) /\ Len(Filter(q, S)) = Len(q) - 1
      /\ \A k \in 1..Len(q) - 1 : Filter(q, S)[k] = IF k < 1 THEN q[k] ELSE q[k + 1]
  BY <1>2, <1>3, FilterWithout
<1>5. Tail(q) \in Seq(T) /\ Len(Tail(q)) = Len(q) - 1 /\ \A k \in 1..Len(q) - 1 : Tail(q)[k] = q[k + 1]
  BY HeadTailProperties
<1>6. \A k \in 1..Len(q) - 1 : ~(k < 1)
  BY <1>1
<1>7. \A k \in 1..Len(q) - 1 : Filter(q, S)[k] = Tail(q)[k]
  BY <1>4, <1>5, <1>6
<1>8. QED
  BY <1>4, <1>5, <1>7, SeqEqual

-----------------------------------------------------------------------------
(* Lists with one element more or less, and what was called *)

\* An element is added at the end.
LEMMA AppendKeeps ==
    ASSUME NEW T, NEW q \in Seq(T), NEW x \in T
    PROVE  /\ Append(q, x) \in Seq(T) /\ Append(q, x) # <<>> /\ Range(Append(q, x)) = Range(q) \cup {x}
           /\ IsInjective(q) /\ x \notin Range(q) => IsInjective(Append(q, x))
<1> DEFINE r == Append(q, x)
           n == Len(q)
<1>1. /\ r \in Seq(T) /\ r # <<>> /\ Len(r) = n + 1 /\ n \in Nat /\ DOMAIN q = 1..n /\ DOMAIN r = 1..n + 1
      /\ r[n + 1] = x /\ \A i \in 1..n : r[i] = q[i]
  BY AppendProperties, LenProperties
<1> HIDE DEF r, n
<1>2. \A i \in 1..n + 1 : i \in 1..n \/ i = n + 1
  BY <1>1
<1>3. n + 1 \in 1..n + 1 /\ \A i \in 1..n : i \in 1..n + 1
  BY <1>1
<1>4. Range(r) = Range(q) \cup {x}
  BY <1>1, <1>2, <1>3 DEF Range
<1>5. ASSUME IsInjective(q), x \notin Range(q) PROVE IsInjective(r)
  <2> SUFFICES ASSUME NEW i \in 1..n + 1, NEW j \in 1..n + 1, r[i] = r[j] PROVE i = j
    BY <1>1 DEF IsInjective
  <2>1. \A k \in 1..n : r[k] # x
    BY <1>1, <1>5 DEF Range
  <2>2. CASE i = n + 1 \/ j = n + 1
    BY <2>1, <2>2, <1>1, <1>2
  <2>3. CASE i \in 1..n /\ j \in 1..n
    BY <2>3, <1>1, <1>5 DEF IsInjective
  <2>4. QED
    BY <2>2, <2>3, <1>2
<1>6. QED
  BY <1>1, <1>4, <1>5 DEF r

\* The first element is one of them; a list with an element is not empty.
LEMMA HeadInRange ==
    ASSUME NEW T, NEW q \in Seq(T)
    PROVE  /\ q # <<>> => Head(q) \in Range(q) /\ Head(q) \in T
           /\ q = <<>> <=> Range(q) = {}
           /\ Range(q) \subseteq T
<1>1. DOMAIN q = 1..Len(q) /\ Len(q) \in Nat
  BY LenProperties
<1>2. ASSUME q # <<>> PROVE 1 \in DOMAIN q /\ Head(q) = q[1]
  <2>1. Len(q) # 0
    BY <1>2, EmptySeq
  <2>2. QED
    BY <1>1, <2>1
<1>3. Range(q) \subseteq T
  BY <1>1, ElementOfSeq DEF Range
<1>4. q = <<>> => Range(q) = {}
  BY DEF Range
<1>5. q # <<>> => Head(q) \in Range(q)
  BY <1>2 DEF Range
<1>6. QED
  BY <1>3, <1>4, <1>5

\* The first element is taken away.
LEMMA TailKeeps ==
    ASSUME NEW T, NEW q \in Seq(T), q # <<>>
    PROVE  /\ Tail(q) \in Seq(T) /\ Range(q) = Range(Tail(q)) \cup {Head(q)}
           /\ IsInjective(q) => IsInjective(Tail(q)) /\ Range(Tail(q)) = Range(q) \ {Head(q)}
<1> DEFINE r == Tail(q)
           n == Len(r)
<1>1. /\ r \in Seq(T) /\ n \in Nat /\ Len(q) = n + 1 /\ DOMAIN q = 1..n + 1 /\ DOMAIN r = 1..n
      /\ Head(q) = q[1] /\ \A i \in 1..n : r[i] = q[i + 1]
  <2>1. Len(q) \in Nat /\ DOMAIN q = 1..Len(q) /\ Len(q) # 0
    BY LenProperties, EmptySeq
  <2>2. r \in Seq(T) /\ n = Len(q) - 1 /\ Head(q) = q[1] /\ \A i \in 1..n : r[i] = q[i + 1]
    BY HeadTailProperties
  <2>3. DOMAIN r = 1..n
    BY <2>2, LenProperties
  <2> HIDE DEF r, n
  <2> DEFINE m == Len(q)
  <2>4. m \in Nat /\ m # 0 /\ n = m - 1
    BY <2>1, <2>2
  <2> HIDE DEF m
  <2>5. n \in Nat /\ m = n + 1
    BY <2>4
  <2>6. QED
    BY <2>1, <2>2, <2>3, <2>5 DEF m
<1> HIDE DEF r, n
<1>2. \A i \in 1..n + 1 : i = 1 \/ (i - 1 \in 1..n /\ (i - 1) + 1 = i)
  BY <1>1
<1>3. 1 \in 1..n + 1 /\ \A i \in 1..n : i + 1 \in 1..n + 1 /\ i + 1 # 1
  BY <1>1
<1>4. Range(q) = Range(r) \cup {Head(q)}
  <2>1. ASSUME NEW x \in Range(q) PROVE x \in Range(r) \/ x = Head(q)
    <3>1. PICK i \in 1..n + 1 : x = q[i]
      BY <1>1 DEF Range
    <3>2. CASE i = 1
      BY <1>1, <3>1, <3>2
    <3>3. CASE i - 1 \in 1..n /\ (i - 1) + 1 = i
      <4>1. r[i - 1] = q[(i - 1) + 1]
        BY <1>1, <3>3
      <4>2. r[i - 1] = x
        BY <3>1, <3>3, <4>1
      <4>3. QED
        BY <1>1, <3>3, <4>2 DEF Range
    <3>4. QED
      BY <1>2, <3>2, <3>3
  <2>2. ASSUME NEW x \in Range(r) PROVE x \in Range(q)
    <3>1. PICK i \in 1..n : x = r[i]
      BY <1>1 DEF Range
    <3>2. x = q[i + 1] /\ i + 1 \in DOMAIN q
      BY <1>1, <1>3, <3>1
    <3>3. QED
      BY <3>2 DEF Range
  <2>3. Head(q) \in Range(q)
    BY <1>1, <1>3 DEF Range
  <2>4. QED
    BY <2>1, <2>2, <2>3
<1>5. ASSUME IsInjective(q) PROVE IsInjective(r) /\ Head(q) \notin Range(r)
  <2>1. \A i, j \in 1..n + 1 : q[i] = q[j] => i = j
    BY <1>1, <1>5 DEF IsInjective
  <2>2. Head(q) \notin Range(r)
    BY <1>1, <1>3, <2>1 DEF Range
  <2>3. \A i, j \in 1..n : i + 1 = j + 1 => i = j
    BY <1>1
  <2>4. \A i, j \in 1..n : r[i] = r[j] => i = j
    BY <1>1, <1>3, <2>1, <2>3
  <2>5. QED
    BY <1>1, <2>2, <2>4 DEF IsInjective
<1>6. QED
  BY <1>1, <1>4, <1>5 DEF r

\* What a request or a command was told: nothing yet, or it was called back, destroyed, or both.
Unasked  == <<"unused">>
Waits    == <<>>
Called   == <<"callback">>
Dropped  == <<"destroy">>
Finished == <<"callback", "destroy">>
Logs     == {Unasked, Waits, Called, Dropped, Finished}

\* How it goes on from one to the next.
LEMMA LogsGrow ==
    /\ Append(Waits, "callback") = Called /\ Append(Waits, "destroy") = Dropped
    /\ Append(Called, "destroy") = Finished
    /\ Unasked # Waits /\ Called # Waits /\ Dropped # Waits /\ Finished # Waits
    /\ Unasked # Called /\ Unasked # Dropped /\ Unasked # Finished /\ Called # Finished
<1>1. Append(<<>>, "callback") = <<"callback">> /\ Append(<<>>, "destroy") = <<"destroy">>
  OBVIOUS
<1>2. Append(<<"callback">>, "destroy") = <<"callback", "destroy">>
  <2> DEFINE S == {"callback", "destroy"}
             r == Append(<<"callback">>, "destroy")
  <2>1. <<"callback">> \in Seq(S) /\ Len(<<"callback">>) = 1
    OBVIOUS
  <2>2. r \in Seq(S) /\ Len(r) = 2 /\ r[1] = "callback" /\ r[2] = "destroy"
    BY <2>1, AppendProperties
  <2>3. <<"callback", "destroy">> \in Seq(S) /\ Len(<<"callback", "destroy">>) = 2
        /\ <<"callback", "destroy">>[1] = "callback" /\ <<"callback", "destroy">>[2] = "destroy"
    OBVIOUS
  <2>4. \A i \in 1..2 : i = 1 \/ i = 2
    OBVIOUS
  <2> HIDE DEF r
  <2>5. QED
    BY <2>2, <2>3, <2>4, SeqEqual DEF r
<1>3. Len(<<"unused">>) = 1 /\ Len(<<>>) = 0 /\ Len(<<"callback">>) = 1 /\ Len(<<"destroy">>) = 1 /\ Len(<<"callback", "destroy">>) = 2
  OBVIOUS
<1>4. <<"unused">>[1] = "unused" /\ <<"callback">>[1] = "callback" /\ <<"destroy">>[1] = "destroy"
  OBVIOUS
<1>5. QED
  BY <1>1, <1>2, <1>3, <1>4 DEF Unasked, Waits, Called, Dropped, Finished

-----------------------------------------------------------------------------
(* Mgmt *)

Requests  == 1..MaxRequests
Handlers  == 1..MaxNotifiers
MgmtCalls ==
    {[kind |-> "none"], [kind |-> "freed"]} \cup [kind : {"failed", "complete"}, id : Requests]
    \cup [kind : {"notify"}, index : 0..2, id : Handlers, live : BOOLEAN, next : 0..MaxNotifiers]

\* The state is of these types.
MgmtRequestTypes ==
    /\ request_queue \in Seq(Requests) /\ reply_queue \in Seq(Requests)
    /\ pending_list \in Seq(Requests) /\ mgmt_kernel \in Seq(Requests)
    /\ mgmt_log \in [Requests -> Logs] /\ mgmt_told \in [Requests -> 0..MaxRequests]
    /\ mgmt_crossed \in BOOLEAN
MgmtWriterTypes == mgmt_writer \in BOOLEAN /\ mgmt_asleep \in BOOLEAN
MgmtHandlerTypes ==
    /\ mgmt_notifiers \in Seq(Handlers \X BOOLEAN) /\ need_notify_cleanup \in BOOLEAN
    /\ mgmt_registered \in [Handlers -> {"no", "yes", "gone", "destroyed", "leaked"}]
MgmtTypes == MgmtRequestTypes /\ MgmtWriterTypes /\ MgmtHandlerTypes /\ mgmt_cb \in MgmtCalls

MgmtHeld == Range(request_queue) \cup Range(reply_queue) \cup Range(pending_list)

\* A request is in at most one list, once, and is in one as long as nothing was called; the
\* requests made are the first ones; and who is called back was not destroyed.
MgmtRequests ==
    /\ IsInjective(request_queue) /\ IsInjective(reply_queue) /\ IsInjective(pending_list)
    /\ Range(request_queue) \cap Range(reply_queue) = {}
    /\ Range(request_queue) \cap Range(pending_list) = {}
    /\ Range(reply_queue) \cap Range(pending_list) = {}
    /\ \A i \in Requests : mgmt_log[i] = Waits <=> i \in MgmtHeld
    /\ \E m \in 0..MaxRequests : \A i \in Requests : mgmt_log[i] # Unasked <=> i <= m
    /\ mgmt_cb.kind \in {"failed", "complete"} => mgmt_log[mgmt_cb.id] = Called

\* Unless one was cancelled, the kernel answers the requests that are waited for, in order.
MgmtOrder ==
    ~mgmt_crossed => mgmt_kernel = pending_list /\ \A i \in Requests : mgmt_told[i] \in {0, i}

\* The writer is there when it is needed, also while an event is handed out and after a write
\* that failed.
MgmtAwake ==
    /\ mgmt_cb.kind \in {"none", "notify", "failed"} /\ ~mgmt_asleep
    /\ reply_queue # <<>> \/ (pending_list = <<>> /\ request_queue # <<>>)
    => mgmt_writer

\* The list holds each handler once; it is marked there exactly when its user is rid of it,
\* which happens only while an event is handed out, and is cleaned up after it.
MgmtHandlers ==
    /\ IsInjective(mgmt_notifiers)
    /\ \A e \in Range(mgmt_notifiers) : mgmt_registered[e[1]] = IF e[2] THEN "gone" ELSE "yes"
    /\ \A e \in Range(mgmt_notifiers) : e[2] => need_notify_cleanup /\ mgmt_cb.kind = "notify"
    /\ \A n \in Handlers : mgmt_registered[n] = "gone" => <<n, TRUE>> \in Range(mgmt_notifiers)
    /\ mgmt_cb.kind = "notify" => /\ mgmt_cb.live
                                  /\ mgmt_cb.next = 0 \/ \E e \in Range(mgmt_notifiers) : e[1] = mgmt_cb.next

MgmtInv == MgmtTypes /\ MgmtRequests /\ MgmtOrder /\ MgmtAwake /\ MgmtHandlers

\* The library's operators mean the same in every part.
LEMMA MgmtLibrary ==
    /\ \A q, S : Mgmt!Filter(q, S) = Filter(q, S)
    /\ \A q : Mgmt!Range(q) = Range(q)
    /\ \A S : Mgmt!Cardinality(S) = Cardinality(S)
<1>1. \A q, S : Mgmt!Filter(q, S) = Filter(q, S)
  BY Zenon DEF Filter, Mgmt!Filter
<1>2. \A q : Mgmt!Range(q) = Range(q)
  BY Zenon DEF Range, Mgmt!Range
<1>3. \A S : Mgmt!Cardinality(S) = Cardinality(S)
  BY Zenon DEF Cardinality, Mgmt!Cardinality
<1>4. QED
  BY <1>1, <1>2, <1>3

\* The bounds are numbers.
LEMMA MgmtBounds == MaxRequests \in Nat /\ MaxNotifiers \in Nat
BY ConstantsAssumption DEF Mgmt!ConstantsOK

\* The callback that runs, by its kind.
LEMMA MgmtCallKinds ==
    ASSUME NEW c \in MgmtCalls
    PROVE  /\ c.kind \in {"none", "freed", "failed", "complete", "notify"}
           /\ c.kind = "none" <=> c = Mgmt!NoCall
           /\ c.kind = "freed" <=> c = Mgmt!Freed
           /\ c.kind \in {"failed", "complete"} => c.id \in Requests
           /\ c.kind = "notify" => c.index \in 0..2 /\ c.next \in 0..MaxNotifiers
BY DEF MgmtCalls, Mgmt!NoCall, Mgmt!Freed

\* The requests made so far are the first Made ones, and the next one is new.
LEMMA MgmtNewRequest ==
    ASSUME MgmtRequestTypes, MgmtRequests, NEW i \in Requests, Mgmt!Fresh(i)
    PROVE  /\ mgmt_log[i] = Unasked /\ i \notin MgmtHeld
           /\ \A j \in Requests : mgmt_log[j] # Unasked <=> j <= i - 1
<1>0. MaxRequests \in Nat
  BY MgmtBounds
<1>1. PICK m \in 0..MaxRequests : \A j \in Requests : mgmt_log[j] # Unasked <=> j <= m
  BY DEF MgmtRequests
<1>2. {j \in Requests : mgmt_log[j] # Unasked} = 1..m
  BY <1>0, <1>1 DEF Requests
<1>3. Cardinality(1..m) = m
  <2>1. 1 \in Int /\ m \in Int
    BY <1>0
  <2>2. Cardinality(1..m) = IF 1 > m THEN 0 ELSE m - 1 + 1
    BY <2>1, FS_Interval
  <2>3. (IF 1 > m THEN 0 ELSE m - 1 + 1) = m
    BY <1>0
  <2>4. QED
    BY <2>2, <2>3
<1>4. Mgmt!Made = m
  BY <1>2, <1>3, MgmtLibrary DEF Mgmt!Made, Requests, Mgmt!Ids, Unasked
<1>5. i = m + 1
  BY <1>4 DEF Mgmt!Fresh
<1>6. mgmt_log[i] = Unasked
  BY <1>0, <1>1, <1>5 DEF Requests
<1>7. i \notin MgmtHeld
  BY <1>6, LogsGrow DEF MgmtRequests
<1>8. i - 1 = m
  BY <1>0, <1>5
<1>9. QED
  BY <1>1, <1>6, <1>7, <1>8

\* Requests are taken out of a list.
LEMMA MgmtFilterList ==
    ASSUME NEW q \in Seq(Requests), NEW r, NEW ids, r = Mgmt!Filter(q, Mgmt!Ids \ ids)
    PROVE  /\ r \in Seq(Requests) /\ Range(r) = Range(q) \ ids
           /\ IsInjective(q) => IsInjective(r)
           /\ Range(q) \cap ids = {} => r = q
<1>1. r = Filter(q, Requests \ ids)
  BY MgmtLibrary DEF Requests, Mgmt!Ids
<1>2. r \in Seq(Requests) /\ Range(r) = Range(q) \cap (Requests \ ids)
  <2>1. \A S : Filter(q, S) \in Seq(Requests) /\ Range(Filter(q, S)) = Range(q) \cap S
    BY FilterRange
  <2>2. QED
    BY <1>1, <2>1
<1>3. Range(q) \subseteq Requests
  BY HeadInRange
<1>4. IsInjective(q) => IsInjective(r)
  BY <1>1, FilterInjective
<1>5. Range(q) \cap ids = {} => Range(q) \subseteq Requests \ ids
  BY <1>3
<1>6. Range(q) \cap ids = {} => r = q
  BY <1>1, <1>5, FilterAll
<1>7. QED
  BY <1>2, <1>3, <1>4, <1>6

\* mgmt_cancel, mgmt_cancel_index, mgmt_cancel_all and mgmt_unref: the requests are destroyed,
\* and the lists without them are as they should be.
LEMMA MgmtRemoved ==
    ASSUME MgmtInv, NEW ids, ids \subseteq MgmtHeld, Mgmt!RemoveAll(ids),
           UNCHANGED <<mgmt_kernel, mgmt_told>>, mgmt_cb' = mgmt_cb \/ mgmt_cb' = Mgmt!Freed
    PROVE  MgmtRequestTypes' /\ MgmtRequests' /\ MgmtOrder'
<1> USE DEF MgmtInv, MgmtTypes
<1>1. /\ request_queue' \in Seq(Requests) /\ Range(request_queue') = Range(request_queue) \ ids
      /\ IsInjective(request_queue')
  BY MgmtFilterList DEF Mgmt!RemoveAll, Mgmt!Without, MgmtRequestTypes, MgmtRequests
<1>2. /\ reply_queue' \in Seq(Requests) /\ Range(reply_queue') = Range(reply_queue) \ ids
      /\ IsInjective(reply_queue')
  BY MgmtFilterList DEF Mgmt!RemoveAll, Mgmt!Without, MgmtRequestTypes, MgmtRequests
<1>3. /\ pending_list' \in Seq(Requests) /\ Range(pending_list') = Range(pending_list) \ ids
      /\ IsInjective(pending_list') /\ (Range(pending_list) \cap ids = {} => pending_list' = pending_list)
  BY MgmtFilterList DEF Mgmt!RemoveAll, Mgmt!Without, MgmtRequestTypes, MgmtRequests
<1>4. MgmtHeld' = MgmtHeld \ ids
  BY <1>1, <1>2, <1>3 DEF MgmtHeld
<1>5. \A i \in ids : i \in Requests /\ mgmt_log[i] = Waits
  BY HeadInRange DEF MgmtHeld, MgmtRequestTypes, MgmtRequests
<1>6. mgmt_log' = [i \in Requests |-> IF i \in ids THEN Dropped ELSE mgmt_log[i]]
  BY <1>5, LogsGrow DEF Mgmt!RemoveAll, Mgmt!DestroyAll, Mgmt!Ids, Requests
<1>7. mgmt_log' \in [Requests -> Logs]
  BY <1>6 DEF MgmtRequestTypes, Logs
<1>8. mgmt_crossed' \in BOOLEAN /\ (~mgmt_crossed' => ~mgmt_crossed /\ ids \cap Range(mgmt_kernel) = {})
  BY MgmtLibrary DEF Mgmt!RemoveAll, MgmtRequestTypes
<1>9. MgmtRequestTypes'
  BY <1>1, <1>2, <1>3, <1>7, <1>8 DEF MgmtRequestTypes
<1>10. MgmtOrder'
  BY <1>3, <1>8 DEF MgmtOrder
<1>11. \A i \in Requests : mgmt_log'[i] = Waits <=> i \in MgmtHeld'
  BY <1>4, <1>6, LogsGrow DEF MgmtRequests
<1>12. \A i \in Requests : mgmt_log'[i] # Unasked <=> mgmt_log[i] # Unasked
  BY <1>5, <1>6, LogsGrow
<1>13. \E m \in 0..MaxRequests : \A i \in Requests : mgmt_log'[i] # Unasked <=> i <= m
  BY <1>12 DEF MgmtRequests
<1>14. mgmt_cb'.kind \in {"failed", "complete"} => mgmt_log'[mgmt_cb'.id] = Called
  <2> SUFFICES ASSUME mgmt_cb'.kind \in {"failed", "complete"} PROVE mgmt_log'[mgmt_cb'.id] = Called
    OBVIOUS
  <2>1. mgmt_cb' = mgmt_cb
    BY DEF Mgmt!Freed
  <2>2. mgmt_cb.id \in Requests /\ mgmt_log[mgmt_cb.id] = Called
    BY <2>1, MgmtCallKinds DEF MgmtRequests
  <2>3. QED
    BY <2>1, <2>2, <1>5, <1>6, LogsGrow
<1>15. QED
  BY <1>1, <1>2, <1>3, <1>9, <1>10, <1>11, <1>13, <1>14 DEF MgmtRequests

\* mgmt_send, mgmt_reply and mgmt_send_nowait: a request is new and put at the end of a list.
LEMMA MgmtAdded ==
    ASSUME MgmtInv, NEW i \in Requests, Mgmt!New(i),
           \/ request_queue' = Append(request_queue, i) /\ UNCHANGED <<reply_queue, pending_list, mgmt_kernel>>
           \/ reply_queue' = Append(reply_queue, i) /\ UNCHANGED <<request_queue, pending_list, mgmt_kernel>>
           \/ Mgmt!Sends(i) /\ UNCHANGED <<request_queue, reply_queue>>,
           UNCHANGED <<mgmt_told, mgmt_crossed, mgmt_cb>>
    PROVE  MgmtRequestTypes' /\ MgmtRequests' /\ MgmtOrder'
<1> USE DEF MgmtInv, MgmtTypes
<1>1. /\ mgmt_log[i] = Unasked /\ i \notin MgmtHeld
      /\ \A j \in Requests : mgmt_log[j] # Unasked <=> j <= i - 1
  BY MgmtNewRequest DEF Mgmt!New
<1>2. mgmt_log' = [mgmt_log EXCEPT ![i] = Waits]
  BY DEF Mgmt!New, Waits
<1>3. mgmt_log' \in [Requests -> Logs] /\ mgmt_log'[i] = Waits /\ \A j \in Requests : j # i => mgmt_log'[j] = mgmt_log[j]
  BY <1>2 DEF MgmtRequestTypes, Logs
<1>4. \A q \in Seq(Requests) : /\ Append(q, i) \in Seq(Requests) /\ Range(Append(q, i)) = Range(q) \cup {i}
                               /\ IsInjective(q) /\ i \notin Range(q) => IsInjective(Append(q, i))
  BY AppendKeeps
<1>5. i \notin Range(request_queue) /\ i \notin Range(reply_queue) /\ i \notin Range(pending_list)
  BY <1>1 DEF MgmtHeld
<1>6. MgmtRequestTypes'
  BY <1>3, <1>4 DEF MgmtRequestTypes, Mgmt!Sends
<1>7. MgmtOrder'
  BY <1>4 DEF MgmtRequestTypes, Mgmt!Sends, MgmtOrder
<1>8. /\ IsInjective(request_queue') /\ IsInjective(reply_queue') /\ IsInjective(pending_list')
      /\ Range(request_queue') \cap Range(reply_queue') = {}
      /\ Range(request_queue') \cap Range(pending_list') = {}
      /\ Range(reply_queue') \cap Range(pending_list') = {}
      /\ MgmtHeld' = MgmtHeld \cup {i}
  <2>1. CASE request_queue' = Append(request_queue, i) /\ UNCHANGED <<reply_queue, pending_list, mgmt_kernel>>
    <3>1. Range(request_queue') = Range(request_queue) \cup {i} /\ IsInjective(request_queue')
      BY <2>1, <1>4, <1>5 DEF MgmtRequestTypes, MgmtRequests
    <3>2. QED
      BY <2>1, <3>1, <1>5 DEF MgmtHeld, MgmtRequests
  <2>2. CASE reply_queue' = Append(reply_queue, i) /\ UNCHANGED <<request_queue, pending_list, mgmt_kernel>>
    <3>1. Range(reply_queue') = Range(reply_queue) \cup {i} /\ IsInjective(reply_queue')
      BY <2>2, <1>4, <1>5 DEF MgmtRequestTypes, MgmtRequests
    <3>2. QED
      BY <2>2, <3>1, <1>5 DEF MgmtHeld, MgmtRequests
  <2>3. CASE Mgmt!Sends(i) /\ UNCHANGED <<request_queue, reply_queue>>
    <3>1. Range(pending_list') = Range(pending_list) \cup {i} /\ IsInjective(pending_list')
      BY <2>3, <1>4, <1>5 DEF MgmtRequestTypes, MgmtRequests, Mgmt!Sends
    <3>2. QED
      BY <2>3, <3>1, <1>5 DEF MgmtHeld, MgmtRequests
  <2>4. QED
    BY <2>1, <2>2, <2>3
<1>9. \A j \in Requests : mgmt_log'[j] = Waits <=> j \in MgmtHeld'
  BY <1>3, <1>8 DEF MgmtRequests
<1>10. \E m \in 0..MaxRequests : \A j \in Requests : mgmt_log'[j] # Unasked <=> j <= m
  <2>1. i \in 0..MaxRequests /\ \A j \in Requests : (j = i => j <= i) /\ (j # i => (j <= i - 1 <=> j <= i))
    BY MgmtBounds DEF Requests
  <2>2. \A j \in Requests : mgmt_log'[j] # Unasked <=> j <= i
    BY <1>1, <1>3, <2>1, LogsGrow
  <2>3. QED
    BY <2>1, <2>2
<1>11. mgmt_cb'.kind \in {"failed", "complete"} => mgmt_log'[mgmt_cb'.id] = Called
  <2>1. ASSUME mgmt_cb.kind \in {"failed", "complete"} PROVE mgmt_log'[mgmt_cb.id] = Called
    BY <2>1, <1>1, <1>3, MgmtCallKinds, LogsGrow DEF MgmtRequests
  <2>2. QED
    BY <2>1
<1>12. QED
  BY <1>6, <1>7, <1>8, <1>9, <1>10, <1>11 DEF MgmtRequests

\* mgmt_send_nowait_fails: a request is new, called back, and destroyed when that was done
\* inside another callback.
LEMMA MgmtAddedFailed ==
    ASSUME MgmtInv, NEW i \in Requests, Mgmt!mgmt_send_nowait_fails(i)
    PROVE  /\ MgmtRequestTypes' /\ MgmtRequests' /\ MgmtOrder' /\ mgmt_cb' \in MgmtCalls
           /\ mgmt_cb' = mgmt_cb \/ (mgmt_cb = Mgmt!NoCall /\ mgmt_cb'.kind = "failed")
<1> USE DEF MgmtInv, MgmtTypes
<1>0. /\ Mgmt!Fresh(i) /\ UNCHANGED <<request_queue, reply_queue, pending_list, mgmt_kernel, mgmt_told, mgmt_crossed>>
      /\ mgmt_log' = [mgmt_log EXCEPT ![i] = IF mgmt_cb = Mgmt!NoCall THEN <<"callback">> ELSE <<"callback", "destroy">>]
      /\ mgmt_cb' = IF mgmt_cb = Mgmt!NoCall THEN [kind |-> "failed", id |-> i] ELSE mgmt_cb
  BY DEF Mgmt!mgmt_send_nowait_fails, Mgmt!mgmtQueues, Mgmt!Loop
<1>1. /\ mgmt_log[i] = Unasked /\ i \notin MgmtHeld
      /\ \A j \in Requests : mgmt_log[j] # Unasked <=> j <= i - 1
  BY <1>0, MgmtNewRequest
<1>2. /\ mgmt_log' \in [Requests -> Logs] /\ \A j \in Requests : j # i => mgmt_log'[j] = mgmt_log[j]
      /\ mgmt_cb = Mgmt!NoCall => mgmt_log'[i] = Called
      /\ mgmt_log'[i] \notin {Unasked, Waits}
  <2> DEFINE v == IF mgmt_cb = Mgmt!NoCall THEN Called ELSE Finished
  <2>1. v \in Logs /\ v \notin {Unasked, Waits} /\ (mgmt_cb = Mgmt!NoCall => v = Called)
    BY LogsGrow, Zenon DEF Logs
  <2>2. mgmt_log' = [mgmt_log EXCEPT ![i] = v]
    BY <1>0, Zenon DEF Called, Finished
  <2> HIDE DEF v
  <2>3. QED
    BY <2>1, <2>2 DEF MgmtRequestTypes
<1>3. MgmtHeld' = MgmtHeld
  BY <1>0 DEF MgmtHeld
<1>4. MgmtRequestTypes' /\ MgmtOrder'
  BY <1>0, <1>2 DEF MgmtRequestTypes, MgmtOrder
<1>5. \A j \in Requests : mgmt_log'[j] = Waits <=> j \in MgmtHeld'
  BY <1>1, <1>2, <1>3 DEF MgmtRequests
<1>6. \E m \in 0..MaxRequests : \A j \in Requests : mgmt_log'[j] # Unasked <=> j <= m
  <2>1. i \in 0..MaxRequests /\ \A j \in Requests : (j = i => j <= i) /\ (j # i => (j <= i - 1 <=> j <= i))
    BY MgmtBounds DEF Requests
  <2>2. \A j \in Requests : mgmt_log'[j] # Unasked <=> j <= i
    BY <1>1, <1>2, <2>1
  <2>3. QED
    BY <2>1, <2>2
<1>7. /\ mgmt_cb' \in MgmtCalls
      /\ mgmt_cb' = mgmt_cb \/ (mgmt_cb = Mgmt!NoCall /\ mgmt_cb'.kind = "failed" /\ mgmt_cb'.id = i)
  BY <1>0 DEF MgmtCalls
<1>8. mgmt_cb'.kind \in {"failed", "complete"} => mgmt_log'[mgmt_cb'.id] = Called
  <2>1. ASSUME mgmt_cb' = mgmt_cb, mgmt_cb.kind \in {"failed", "complete"} PROVE mgmt_log'[mgmt_cb.id] = Called
    BY <2>1, <1>1, <1>2, MgmtCallKinds, LogsGrow DEF MgmtRequests
  <2>2. QED
    BY <2>1, <1>2, <1>7
<1>9. QED
  BY <1>0, <1>3, <1>4, <1>5, <1>6, <1>7, <1>8 DEF MgmtRequests

\* The request that goes next is the first of its list.
LEMMA MgmtNextRequest ==
    ASSUME MgmtInv
    PROVE  /\ Mgmt!NextRequest # 0 => Mgmt!NextRequest \in Requests /\ Mgmt!NextRequest \in Range(request_queue) \cup Range(reply_queue)
           /\ Mgmt!NextRequest = 0 => reply_queue = <<>> /\ (pending_list # <<>> \/ request_queue = <<>>)
<1>1. 0 \notin Requests
  BY MgmtBounds DEF Requests
<1>2. reply_queue # <<>> => Head(reply_queue) \in Range(reply_queue) /\ Head(reply_queue) \in Requests
  BY HeadInRange DEF MgmtInv, MgmtTypes, MgmtRequestTypes
<1>3. request_queue # <<>> => Head(request_queue) \in Range(request_queue) /\ Head(request_queue) \in Requests
  BY HeadInRange DEF MgmtInv, MgmtTypes, MgmtRequestTypes
<1>4. QED
  BY <1>1, <1>2, <1>3 DEF Mgmt!NextRequest

\* The request that goes next leaves its list.
LEMMA MgmtPopped ==
    ASSUME MgmtInv, NEW i, i \in Range(request_queue) \cup Range(reply_queue), Mgmt!Popped(i)
    PROVE  /\ request_queue' \in Seq(Requests) /\ Range(request_queue') = Range(request_queue) \ {i}
           /\ reply_queue' \in Seq(Requests) /\ Range(reply_queue') = Range(reply_queue) \ {i}
           /\ IsInjective(request_queue') /\ IsInjective(reply_queue') /\ i \in Requests
           /\ i \notin Range(pending_list) /\ mgmt_log[i] = Waits /\ i \in MgmtHeld
<1> USE DEF MgmtInv, MgmtTypes
<1>1. /\ request_queue' \in Seq(Requests) /\ Range(request_queue') = Range(request_queue) \ {i}
      /\ IsInjective(request_queue')
  BY MgmtFilterList DEF Mgmt!Popped, MgmtRequestTypes, MgmtRequests
<1>2. /\ reply_queue' \in Seq(Requests) /\ Range(reply_queue') = Range(reply_queue) \ {i}
      /\ IsInjective(reply_queue')
  BY MgmtFilterList DEF Mgmt!Popped, MgmtRequestTypes, MgmtRequests
<1>3. Range(request_queue) \subseteq Requests /\ Range(reply_queue) \subseteq Requests
  BY HeadInRange DEF MgmtRequestTypes
<1>4. i \in Requests /\ i \in MgmtHeld /\ i \notin Range(pending_list)
  BY <1>3 DEF MgmtHeld, MgmtRequests
<1>5. mgmt_log[i] = Waits
  BY <1>4 DEF MgmtRequests
<1>6. QED
  BY <1>1, <1>2, <1>4, <1>5

\* can_write_data: it is sent.
LEMMA MgmtSent ==
    ASSUME MgmtInv, Mgmt!NextRequest # 0, Mgmt!Popped(Mgmt!NextRequest), Mgmt!Sends(Mgmt!NextRequest),
           UNCHANGED <<mgmt_log, mgmt_told, mgmt_crossed, mgmt_cb>>
    PROVE  MgmtRequestTypes' /\ MgmtRequests' /\ MgmtOrder'
<1> DEFINE i == Mgmt!NextRequest
<1>1. i \in Requests /\ i \in Range(request_queue) \cup Range(reply_queue)
  BY MgmtNextRequest
<1> HIDE DEF i
<1> USE DEF MgmtInv, MgmtTypes
<1>2. /\ request_queue' \in Seq(Requests) /\ Range(request_queue') = Range(request_queue) \ {i}
      /\ reply_queue' \in Seq(Requests) /\ Range(reply_queue') = Range(reply_queue) \ {i}
      /\ IsInjective(request_queue') /\ IsInjective(reply_queue')
      /\ i \notin Range(pending_list) /\ mgmt_log[i] = Waits
  BY <1>1, MgmtPopped DEF i
<1>3. pending_list' = Append(pending_list, i) /\ mgmt_kernel' = Append(mgmt_kernel, i)
  BY DEF Mgmt!Sends, i
<1>4. /\ pending_list' \in Seq(Requests) /\ Range(pending_list') = Range(pending_list) \cup {i}
      /\ IsInjective(pending_list') /\ mgmt_kernel' \in Seq(Requests)
  BY <1>1, <1>2, <1>3, AppendKeeps DEF MgmtRequestTypes, MgmtRequests
<1>5. MgmtHeld' = MgmtHeld
  BY <1>1, <1>2, <1>4 DEF MgmtHeld
<1>6. MgmtRequestTypes'
  BY <1>2, <1>4 DEF MgmtRequestTypes
<1>7. MgmtOrder'
  BY <1>3 DEF MgmtOrder
<1>8. /\ Range(request_queue') \cap Range(reply_queue') = {}
      /\ Range(request_queue') \cap Range(pending_list') = {}
      /\ Range(reply_queue') \cap Range(pending_list') = {}
  BY <1>2, <1>4 DEF MgmtRequests
<1>9. QED
  BY <1>2, <1>4, <1>5, <1>6, <1>7, <1>8 DEF MgmtRequests

\* can_write_data_fails: it is called back instead.
LEMMA MgmtFailed ==
    ASSUME MgmtInv, Mgmt!can_write_data_fails
    PROVE  MgmtRequestTypes' /\ MgmtRequests' /\ MgmtOrder' /\ mgmt_cb' \in MgmtCalls /\ mgmt_cb'.kind = "failed"
<1> DEFINE i == Mgmt!NextRequest
<1>0. Mgmt!NextRequest # 0 /\ Mgmt!Popped(Mgmt!NextRequest) /\ UNCHANGED <<pending_list, mgmt_kernel, mgmt_told, mgmt_crossed>>
  BY DEF Mgmt!can_write_data_fails
<1>1. i \in Requests /\ i \in Range(request_queue) \cup Range(reply_queue)
  BY <1>0, MgmtNextRequest
<1> HIDE DEF i
<1> USE DEF MgmtInv, MgmtTypes
<1>2. /\ request_queue' \in Seq(Requests) /\ Range(request_queue') = Range(request_queue) \ {i}
      /\ reply_queue' \in Seq(Requests) /\ Range(reply_queue') = Range(reply_queue) \ {i}
      /\ IsInjective(request_queue') /\ IsInjective(reply_queue')
      /\ i \notin Range(pending_list) /\ mgmt_log[i] = Waits
  BY <1>0, <1>1, MgmtPopped DEF i
<1>3. mgmt_log' = [mgmt_log EXCEPT ![i] = Append(@, "callback")] /\ mgmt_cb' = [kind |-> "failed", id |-> i]
  BY DEF Mgmt!can_write_data_fails, i
<1>4. mgmt_log' \in [Requests -> Logs] /\ mgmt_log'[i] = Called /\ \A j \in Requests : j # i => mgmt_log'[j] = mgmt_log[j]
  BY <1>1, <1>2, <1>3, LogsGrow DEF MgmtRequestTypes, Logs
<1>5. MgmtHeld' = MgmtHeld \ {i}
  BY <1>0, <1>1, <1>2 DEF MgmtHeld
<1>6. MgmtRequestTypes'
  BY <1>0, <1>2, <1>4 DEF MgmtRequestTypes
<1>7. MgmtOrder'
  BY <1>0 DEF MgmtOrder
<1>8. /\ Range(request_queue') \cap Range(reply_queue') = {}
      /\ Range(request_queue') \cap Range(pending_list') = {}
      /\ Range(reply_queue') \cap Range(pending_list') = {}
      /\ IsInjective(pending_list')
  BY <1>0, <1>2 DEF MgmtRequests
<1>9. \A j \in Requests : mgmt_log'[j] = Waits <=> j \in MgmtHeld'
  BY <1>4, <1>5, LogsGrow DEF MgmtRequests
<1>10. \A j \in Requests : mgmt_log'[j] # Unasked <=> mgmt_log[j] # Unasked
  BY <1>2, <1>4, LogsGrow
<1>11. \E m \in 0..MaxRequests : \A j \in Requests : mgmt_log'[j] # Unasked <=> j <= m
  BY <1>10 DEF MgmtRequests
<1>12. mgmt_cb'.kind = "failed" /\ mgmt_log'[mgmt_cb'.id] = Called
  BY <1>3, <1>4
<1>13. mgmt_cb' \in MgmtCalls
  BY <1>1, <1>3 DEF MgmtCalls
<1>14. QED
  BY <1>2, <1>6, <1>7, <1>8, <1>9, <1>11, <1>12, <1>13 DEF MgmtRequests

\* The request an answer is given to is pending; while no answer is without its request, it is
\* the one that was answered.
LEMMA MgmtMatched ==
    ASSUME MgmtInv, NEW answer \in Requests
    PROVE  /\ Mgmt!Matched(answer) # 0 => Mgmt!Matched(answer) \in Requests /\ Mgmt!Matched(answer) \in Range(pending_list)
           /\ /\ ~mgmt_crossed
              /\ answer \in Range(mgmt_kernel) /\ answer = Head(Mgmt!Filter(mgmt_kernel, Mgmt!Alike(answer)))
              => Mgmt!Matched(answer) = answer
<1> DEFINE S == Mgmt!Alike(answer)
           f == Filter(pending_list, S)
<1>1. f \in Seq(Requests) /\ Range(f) = Range(pending_list) \cap S
  BY FilterRange DEF MgmtInv, MgmtTypes, MgmtRequestTypes
<1>2. Mgmt!Matched(answer) = IF f = <<>> THEN 0 ELSE Head(f)
  BY MgmtLibrary DEF Mgmt!Matched
<1>3. f # <<>> => Head(f) \in Range(f) /\ Head(f) \in Requests
  BY <1>1, HeadInRange
<1>4. 0 \notin Requests
  BY MgmtBounds DEF Requests
<1>5. ASSUME ~mgmt_crossed, answer \in Range(mgmt_kernel), answer = Head(Mgmt!Filter(mgmt_kernel, S))
      PROVE  Mgmt!Matched(answer) = answer
  <2>1. mgmt_kernel = pending_list
    BY <1>5 DEF MgmtInv, MgmtOrder
  <2>2. answer = Head(f)
    BY <1>5, <2>1, MgmtLibrary
  <2>3. answer \in S
    BY DEF Mgmt!Alike, Mgmt!Ids, Requests
  <2>4. answer \in Range(f)
    BY <1>1, <1>5, <2>1, <2>3
  <2>5. f # <<>>
    BY <1>1, <2>4, HeadInRange
  <2>6. QED
    BY <1>2, <2>2, <2>5
<1>6. QED
  BY <1>1, <1>2, <1>3, <1>4, <1>5

\* request_complete
LEMMA MgmtCompleted ==
    ASSUME MgmtInv, NEW answer \in Requests, Mgmt!request_complete(answer)
    PROVE  /\ MgmtRequestTypes' /\ MgmtRequests' /\ MgmtOrder' /\ mgmt_cb' \in MgmtCalls
           /\ mgmt_cb' = mgmt_cb \/ mgmt_cb'.kind = "complete"
<1> DEFINE i == Mgmt!Matched(answer)
<1> USE DEF MgmtInv, MgmtTypes
<1>1. /\ mgmt_cb = Mgmt!NoCall /\ answer \in Range(mgmt_kernel)
      /\ answer = Head(Mgmt!Filter(mgmt_kernel, Mgmt!Alike(answer)))
      /\ mgmt_kernel' = Mgmt!Filter(mgmt_kernel, Mgmt!Ids \ {answer})
      /\ pending_list' = Mgmt!Filter(pending_list, Mgmt!Ids \ {i})
      /\ UNCHANGED <<request_queue, reply_queue, mgmt_crossed>>
  BY MgmtLibrary DEF Mgmt!request_complete, Mgmt!Loop
<1>2. i # 0 => i \in Requests /\ i \in Range(pending_list)
  BY MgmtMatched
<1>3. ~mgmt_crossed => i = answer
  BY <1>1, MgmtMatched
<1>4. /\ i = 0 => UNCHANGED <<mgmt_log, mgmt_told, mgmt_cb>>
      /\ i # 0 => /\ mgmt_log' = [mgmt_log EXCEPT ![i] = Append(@, "callback")]
                  /\ mgmt_told' = [mgmt_told EXCEPT ![i] = answer]
                  /\ mgmt_cb' = [kind |-> "complete", id |-> i]
  BY DEF Mgmt!request_complete
<1> HIDE DEF i
<1>5. /\ pending_list' \in Seq(Requests) /\ Range(pending_list') = Range(pending_list) \ {i}
      /\ IsInjective(pending_list')
  BY <1>1, MgmtFilterList DEF MgmtRequestTypes, MgmtRequests
<1>6. mgmt_kernel' \in Seq(Requests)
  BY <1>1, MgmtFilterList DEF MgmtRequestTypes
<1>7. ~mgmt_crossed => mgmt_kernel' = pending_list'
  BY <1>1, <1>3 DEF MgmtOrder
<1>8. 0 \notin Requests /\ Range(pending_list) \subseteq Requests /\ Requests \subseteq 0..MaxRequests
  BY MgmtBounds, HeadInRange DEF Requests, MgmtRequestTypes
<1>9. CASE i = 0
  <2>1. Range(pending_list') = Range(pending_list)
    BY <1>5, <1>8, <1>9
  <2>2. MgmtHeld' = MgmtHeld
    BY <2>1, <1>1 DEF MgmtHeld
  <2>3. MgmtRequestTypes'
    BY <1>1, <1>4, <1>5, <1>6, <1>9 DEF MgmtRequestTypes
  <2>4. MgmtOrder'
    BY <1>1, <1>4, <1>7, <1>9 DEF MgmtOrder
  <2>5. MgmtRequests'
    BY <2>1, <2>2, <1>1, <1>4, <1>5, <1>9 DEF MgmtRequests
  <2>6. QED
    BY <2>3, <2>4, <2>5, <1>4, <1>9
<1>10. CASE i # 0
  <2>1. i \in Requests /\ i \in Range(pending_list) /\ i \in MgmtHeld /\ mgmt_log[i] = Waits
    BY <1>2, <1>10 DEF MgmtHeld, MgmtRequests
  <2>2. mgmt_log' \in [Requests -> Logs] /\ mgmt_log'[i] = Called /\ \A j \in Requests : j # i => mgmt_log'[j] = mgmt_log[j]
    BY <1>4, <1>10, <2>1, LogsGrow DEF MgmtRequestTypes, Logs
  <2>3. mgmt_told' \in [Requests -> 0..MaxRequests] /\ mgmt_told'[i] = answer /\ \A j \in Requests : j # i => mgmt_told'[j] = mgmt_told[j]
    BY <1>4, <1>8, <1>10, <2>1 DEF MgmtRequestTypes
  <2>4. MgmtHeld' = MgmtHeld \ {i}
    BY <1>1, <1>5, <2>1 DEF MgmtHeld, MgmtRequests
  <2>5. MgmtRequestTypes'
    BY <1>1, <1>5, <1>6, <2>2, <2>3 DEF MgmtRequestTypes
  <2>6. MgmtOrder'
    BY <1>1, <1>3, <1>7, <2>3 DEF MgmtOrder
  <2>7. \A j \in Requests : mgmt_log'[j] = Waits <=> j \in MgmtHeld'
    BY <2>2, <2>4, LogsGrow DEF MgmtRequests
  <2>8. \A j \in Requests : mgmt_log'[j] # Unasked <=> mgmt_log[j] # Unasked
    BY <2>1, <2>2, LogsGrow
  <2>9. \E m \in 0..MaxRequests : \A j \in Requests : mgmt_log'[j] # Unasked <=> j <= m
    BY <2>8 DEF MgmtRequests
  <2>10. mgmt_cb'.kind = "complete" /\ mgmt_log'[mgmt_cb'.id] = Called
    BY <1>4, <1>10, <2>2
  <2>11. mgmt_cb' \in MgmtCalls
    BY <1>4, <1>10, <2>1 DEF MgmtCalls
  <2>12. /\ Range(request_queue') \cap Range(pending_list') = {} /\ Range(reply_queue') \cap Range(pending_list') = {}
         /\ IsInjective(request_queue') /\ IsInjective(reply_queue') /\ Range(request_queue') \cap Range(reply_queue') = {}
    BY <1>1, <1>5 DEF MgmtRequests
  <2>13. QED
    BY <1>5, <2>5, <2>6, <2>7, <2>9, <2>10, <2>11, <2>12 DEF MgmtRequests
<1>11. QED
  BY <1>9, <1>10

\* request_done
LEMMA MgmtDone ==
    ASSUME MgmtInv, Mgmt!request_done
    PROVE  MgmtRequestTypes' /\ MgmtRequests' /\ MgmtOrder' /\ mgmt_cb' = Mgmt!NoCall
<1> DEFINE i == mgmt_cb.id
<1> USE DEF MgmtInv, MgmtTypes
<1>1. /\ mgmt_cb.kind \in {"failed", "complete"} /\ mgmt_cb' = Mgmt!NoCall
      /\ mgmt_log' = [mgmt_log EXCEPT ![i] = Append(@, "destroy")]
      /\ UNCHANGED <<request_queue, reply_queue, pending_list, mgmt_kernel, mgmt_told, mgmt_crossed>>
  BY DEF Mgmt!request_done, Mgmt!mgmtQueues
<1>2. i \in Requests /\ mgmt_log[i] = Called
  BY <1>1, MgmtCallKinds DEF MgmtRequests
<1> HIDE DEF i
<1>3. mgmt_log' \in [Requests -> Logs] /\ mgmt_log'[i] = Finished /\ \A j \in Requests : j # i => mgmt_log'[j] = mgmt_log[j]
  BY <1>1, <1>2, LogsGrow DEF MgmtRequestTypes, Logs
<1>4. MgmtHeld' = MgmtHeld
  BY <1>1 DEF MgmtHeld
<1>5. MgmtRequestTypes' /\ MgmtOrder'
  BY <1>1, <1>3 DEF MgmtRequestTypes, MgmtOrder
<1>6. \A j \in Requests : mgmt_log'[j] = Waits <=> j \in MgmtHeld'
  BY <1>2, <1>3, <1>4, LogsGrow DEF MgmtRequests
<1>7. \A j \in Requests : mgmt_log'[j] # Unasked <=> mgmt_log[j] # Unasked
  BY <1>2, <1>3, LogsGrow
<1>8. \E m \in 0..MaxRequests : \A j \in Requests : mgmt_log'[j] # Unasked <=> j <= m
  BY <1>7 DEF MgmtRequests
<1>9. mgmt_cb'.kind = "none"
  BY <1>1 DEF Mgmt!NoCall
<1>10. MgmtRequests'
  BY <1>1, <1>6, <1>8, <1>9 DEF MgmtRequests
<1>11. QED
  BY <1>1, <1>5, <1>10

\* Everything else leaves the requests alone.
LEMMA MgmtQuiet ==
    ASSUME MgmtInv, UNCHANGED <<request_queue, reply_queue, pending_list, mgmt_kernel, mgmt_log, mgmt_told, mgmt_crossed>>,
           mgmt_cb' = mgmt_cb \/ mgmt_cb'.kind \notin {"failed", "complete"}
    PROVE  MgmtRequestTypes' /\ MgmtRequests' /\ MgmtOrder'
<1>1. MgmtHeld' = MgmtHeld
  BY DEF MgmtHeld
<1>2. MgmtRequestTypes' /\ MgmtOrder'
  BY DEF MgmtInv, MgmtTypes, MgmtRequestTypes, MgmtOrder
<1>3. mgmt_cb'.kind \in {"failed", "complete"} => mgmt_log'[mgmt_cb'.id] = Called
  BY DEF MgmtInv, MgmtRequests
<1>4. MgmtRequests'
  BY <1>1, <1>3 DEF MgmtInv, MgmtRequests
<1>5. QED
  BY <1>2, <1>4

\* An entry of the list is a handler and its mark, known by the handler.
LEMMA MgmtEntries ==
    ASSUME MgmtInv
    PROVE  /\ \A e \in Range(mgmt_notifiers) : e[1] \in Handlers /\ e[2] \in BOOLEAN /\ e = <<e[1], e[2]>>
           /\ \A e, f \in Range(mgmt_notifiers) : e[1] = f[1] => e = f
           /\ DOMAIN mgmt_notifiers = 1..Len(mgmt_notifiers) /\ Len(mgmt_notifiers) \in Nat
           /\ \A i \in DOMAIN mgmt_notifiers : mgmt_notifiers[i] \in Range(mgmt_notifiers)
<1>1. mgmt_notifiers \in Seq(Handlers \X BOOLEAN)
  BY DEF MgmtInv, MgmtTypes, MgmtHandlerTypes
<1>2. Range(mgmt_notifiers) \subseteq Handlers \X BOOLEAN
  BY <1>1, HeadInRange
<1>3. \A e \in Range(mgmt_notifiers) : e[1] \in Handlers /\ e[2] \in BOOLEAN /\ e = <<e[1], e[2]>>
  BY <1>2
<1>4. \A e, f \in Range(mgmt_notifiers) : e[1] = f[1] => e[2] = f[2]
  <2> SUFFICES ASSUME NEW e \in Range(mgmt_notifiers), NEW f \in Range(mgmt_notifiers), e[1] = f[1] PROVE e[2] = f[2]
    OBVIOUS
  <2>1. (IF e[2] THEN "gone" ELSE "yes") = (IF f[2] THEN "gone" ELSE "yes")
    BY DEF MgmtInv, MgmtHandlers
  <2>2. e[2] \in BOOLEAN /\ f[2] \in BOOLEAN
    BY <1>3
  <2>3. QED
    BY <2>1, <2>2
<1>5. QED
  BY <1>1, <1>3, <1>4, LenProperties DEF Range

\* The entries that stay when those that are not in S go.
LEMMA MgmtKeptEntries ==
    ASSUME MgmtInv, NEW S, NEW r, r = Mgmt!Filter(mgmt_notifiers, S)
    PROVE  r \in Seq(Handlers \X BOOLEAN) /\ Range(r) = Range(mgmt_notifiers) \cap S /\ IsInjective(r)
<1>1. mgmt_notifiers \in Seq(Handlers \X BOOLEAN) /\ IsInjective(mgmt_notifiers)
  BY DEF MgmtInv, MgmtTypes, MgmtHandlerTypes, MgmtHandlers
<1>2. \A Z : /\ Filter(mgmt_notifiers, Z) \in Seq(Handlers \X BOOLEAN)
             /\ Range(Filter(mgmt_notifiers, Z)) = Range(mgmt_notifiers) \cap Z
  BY <1>1, FilterRange
<1>3. \A Z : IsInjective(Filter(mgmt_notifiers, Z))
  BY <1>1, FilterInjective
<1>4. r = Filter(mgmt_notifiers, S)
  BY MgmtLibrary
<1>5. QED
  BY <1>2, <1>3, <1>4

\* mgmt_register
LEMMA MgmtRegistered ==
    ASSUME MgmtInv, NEW n \in Handlers, Mgmt!mgmt_register(n)
    PROVE  MgmtHandlerTypes' /\ MgmtHandlers' /\ mgmt_cb' = mgmt_cb
<1> USE DEF MgmtInv, MgmtTypes
<1>1. /\ mgmt_registered[n] = "no" /\ mgmt_registered' = [mgmt_registered EXCEPT ![n] = "yes"]
      /\ mgmt_notifiers' = Append(mgmt_notifiers, <<n, FALSE>>) /\ UNCHANGED <<need_notify_cleanup, mgmt_cb>>
  BY DEF Mgmt!mgmt_register
<1>2. <<n, FALSE>> \in Handlers \X BOOLEAN
  OBVIOUS
<1>3. <<n, FALSE>> \notin Range(mgmt_notifiers) /\ \A e \in Range(mgmt_notifiers) : e[1] # n
  BY <1>1 DEF MgmtHandlers
<1>4. /\ mgmt_notifiers' \in Seq(Handlers \X BOOLEAN) /\ Range(mgmt_notifiers') = Range(mgmt_notifiers) \cup {<<n, FALSE>>}
      /\ IsInjective(mgmt_notifiers')
  <2> DEFINE x == <<n, FALSE>>
             T == Handlers \X BOOLEAN
  <2>1. x \in T /\ mgmt_notifiers \in Seq(T) /\ IsInjective(mgmt_notifiers) /\ x \notin Range(mgmt_notifiers)
    BY <1>2, <1>3 DEF MgmtHandlerTypes, MgmtHandlers
  <2>2. mgmt_notifiers' = Append(mgmt_notifiers, x)
    BY <1>1
  <2> HIDE DEF x, T
  <2>3. /\ Append(mgmt_notifiers, x) \in Seq(T) /\ Range(Append(mgmt_notifiers, x)) = Range(mgmt_notifiers) \cup {x}
        /\ IsInjective(Append(mgmt_notifiers, x))
    BY <2>1, AppendKeeps
  <2>4. QED
    BY <2>2, <2>3 DEF x, T
<1>5. mgmt_registered' \in [Handlers -> {"no", "yes", "gone", "destroyed", "leaked"}] /\ mgmt_registered'[n] = "yes"
      /\ \A m \in Handlers : m # n => mgmt_registered'[m] = mgmt_registered[m]
  BY <1>1 DEF MgmtHandlerTypes
<1>6. MgmtHandlerTypes'
  BY <1>1, <1>4, <1>5 DEF MgmtHandlerTypes
<1>7. ASSUME NEW e \in Range(mgmt_notifiers')
      PROVE  /\ mgmt_registered'[e[1]] = IF e[2] THEN "gone" ELSE "yes"
             /\ e[2] => need_notify_cleanup' /\ mgmt_cb'.kind = "notify"
  <2>1. CASE e = <<n, FALSE>>
    BY <2>1, <1>5
  <2>2. CASE e \in Range(mgmt_notifiers)
    <3>1. e[1] \in Handlers /\ e[1] # n
      BY <2>2, <1>3, MgmtEntries
    <3>2. QED
      BY <2>2, <3>1, <1>1, <1>5 DEF MgmtHandlers
  <2>3. QED
    BY <1>4, <2>1, <2>2
<1>8. \A m \in Handlers : mgmt_registered'[m] = "gone" => <<m, TRUE>> \in Range(mgmt_notifiers')
  BY <1>4, <1>5 DEF MgmtHandlers
<1>9. mgmt_cb'.kind = "notify" => /\ mgmt_cb'.live
                                  /\ mgmt_cb'.next = 0 \/ \E e \in Range(mgmt_notifiers') : e[1] = mgmt_cb'.next
  BY <1>1, <1>4 DEF MgmtHandlers
<1>10. QED
  BY <1>1, <1>4, <1>6, <1>7, <1>8, <1>9 DEF MgmtHandlers

\* mgmt_unregister
LEMMA MgmtUnregistered ==
    ASSUME MgmtInv, NEW n \in Handlers, Mgmt!mgmt_unregister(n)
    PROVE  MgmtHandlerTypes' /\ MgmtHandlers' /\ mgmt_cb' = mgmt_cb
<1> USE DEF MgmtInv, MgmtTypes
<1> DEFINE S == {e \in Handlers \X BOOLEAN : e[1] # n}
<1>1. /\ n # Mgmt!Following /\ mgmt_notifiers' = Mgmt!Filter(mgmt_notifiers, S)
      /\ mgmt_registered' = [mgmt_registered EXCEPT ![n] = IF Mgmt!InNotify THEN "leaked" ELSE "destroyed"]
      /\ need_notify_cleanup' = (need_notify_cleanup \/ Mgmt!InNotify)
      /\ mgmt_cb' = mgmt_cb
  BY DEF Mgmt!mgmt_unregister, Mgmt!NotifyEntries, Mgmt!Notifiers, Handlers
<1>2. /\ mgmt_notifiers' \in Seq(Handlers \X BOOLEAN) /\ Range(mgmt_notifiers') = Range(mgmt_notifiers) \cap S
      /\ IsInjective(mgmt_notifiers')
  BY <1>1, MgmtKeptEntries
<1>3. \A e : e \in Range(mgmt_notifiers') <=> e \in Range(mgmt_notifiers) /\ e[1] # n
  BY <1>2, MgmtEntries
<1>4. /\ mgmt_registered' \in [Handlers -> {"no", "yes", "gone", "destroyed", "leaked"}] /\ mgmt_registered'[n] # "gone"
      /\ \A m \in Handlers : m # n => mgmt_registered'[m] = mgmt_registered[m]
  BY <1>1 DEF MgmtHandlerTypes
<1>5. need_notify_cleanup' \in BOOLEAN /\ (need_notify_cleanup => need_notify_cleanup')
  BY <1>1 DEF MgmtHandlerTypes, Mgmt!InNotify
<1>6. MgmtHandlerTypes'
  BY <1>2, <1>4, <1>5 DEF MgmtHandlerTypes
<1>7. ASSUME NEW e \in Range(mgmt_notifiers')
      PROVE  /\ mgmt_registered'[e[1]] = IF e[2] THEN "gone" ELSE "yes"
             /\ e[2] => need_notify_cleanup' /\ mgmt_cb'.kind = "notify"
  <2>1. e \in Range(mgmt_notifiers) /\ e[1] # n /\ e[1] \in Handlers
    BY <1>3, MgmtEntries
  <2>2. QED
    BY <2>1, <1>1, <1>4, <1>5 DEF MgmtHandlers
<1>8. \A m \in Handlers : mgmt_registered'[m] = "gone" => <<m, TRUE>> \in Range(mgmt_notifiers')
  <2> SUFFICES ASSUME NEW m \in Handlers, mgmt_registered'[m] = "gone" PROVE <<m, TRUE>> \in Range(mgmt_notifiers')
    OBVIOUS
  <2>1. m # n /\ <<m, TRUE>> \in Range(mgmt_notifiers)
    BY <1>4 DEF MgmtHandlers
  <2>2. QED
    BY <2>1, <1>3
<1>9. mgmt_cb'.kind = "notify" => /\ mgmt_cb'.live
                                  /\ mgmt_cb'.next = 0 \/ \E e \in Range(mgmt_notifiers') : e[1] = mgmt_cb'.next
  BY <1>1, <1>3 DEF MgmtHandlers, Mgmt!Following, Mgmt!InNotify
<1>10. QED
  BY <1>1, <1>2, <1>6, <1>7, <1>8, <1>9 DEF MgmtHandlers

\* mgmt_unregister_index and mgmt_unregister_all while an event is handed out: the entries are
\* marked.
LEMMA MgmtMarked ==
    ASSUME MgmtInv, NEW indexes, Mgmt!UnregisterAll(indexes), mgmt_cb.kind = "notify"
    PROVE  MgmtHandlerTypes' /\ MgmtHandlers' /\ mgmt_cb' = mgmt_cb
<1> USE DEF MgmtInv, MgmtTypes
<1> DEFINE gone(n)  == Mgmt!NotifyIndex(n) \in indexes \/ Mgmt!MGMT_INDEX_NONE \in indexes
           there(n) == \E e \in Range(mgmt_notifiers) : e[1] = n
           marked(e) == <<e[1], e[2] \/ gone(e[1])>>
<1>1. /\ mgmt_notifiers' = [i \in DOMAIN mgmt_notifiers |-> marked(mgmt_notifiers[i])]
      /\ mgmt_registered' = [n \in Handlers |-> IF there(n) /\ gone(n) THEN "gone" ELSE mgmt_registered[n]]
      /\ need_notify_cleanup' = TRUE /\ mgmt_cb' = mgmt_cb
  BY MgmtLibrary DEF Mgmt!UnregisterAll, Mgmt!InNotify, Mgmt!Notifiers, Handlers
<1>2. /\ DOMAIN mgmt_notifiers = 1..Len(mgmt_notifiers) /\ Len(mgmt_notifiers) \in Nat
      /\ \A i \in DOMAIN mgmt_notifiers : mgmt_notifiers[i] \in Range(mgmt_notifiers)
  BY MgmtEntries
<1>3. \A e \in Range(mgmt_notifiers) : e[1] \in Handlers /\ e[2] \in BOOLEAN /\ there(e[1])
  BY MgmtEntries
<1>4. \A e \in Range(mgmt_notifiers) : marked(e) \in Handlers \X BOOLEAN
  BY <1>3
<1>5. mgmt_notifiers' \in Seq(Handlers \X BOOLEAN)
  <2>1. mgmt_notifiers' \in [1..Len(mgmt_notifiers) -> Handlers \X BOOLEAN]
    BY <1>1, <1>2, <1>4
  <2>2. QED
    BY <1>2, <2>1, SeqDef
<1>6. Range(mgmt_notifiers') = {marked(e) : e \in Range(mgmt_notifiers)}
  BY <1>1 DEF Range
<1>7. IsInjective(mgmt_notifiers')
  <2> SUFFICES ASSUME NEW i \in DOMAIN mgmt_notifiers, NEW j \in DOMAIN mgmt_notifiers,
                      mgmt_notifiers'[i] = mgmt_notifiers'[j]
               PROVE  i = j
    BY <1>1 DEF IsInjective
  <2>1. mgmt_notifiers[i][1] = mgmt_notifiers[j][1]
    BY <1>1
  <2>2. mgmt_notifiers[i] = mgmt_notifiers[j]
    BY <2>1, <1>2, MgmtEntries
  <2>3. QED
    BY <2>2 DEF MgmtHandlers, IsInjective
<1>8. mgmt_registered' \in [Handlers -> {"no", "yes", "gone", "destroyed", "leaked"}]
  BY <1>1 DEF MgmtHandlerTypes
<1>9. MgmtHandlerTypes'
  BY <1>1, <1>5, <1>8 DEF MgmtHandlerTypes
<1>10. ASSUME NEW f \in Range(mgmt_notifiers')
       PROVE  mgmt_registered'[f[1]] = IF f[2] THEN "gone" ELSE "yes"
  <2>1. PICK e \in Range(mgmt_notifiers) : f = <<e[1], e[2] \/ gone(e[1])>>
    BY <1>6
  <2>2. e[1] \in Handlers /\ e[2] \in BOOLEAN /\ there(e[1]) /\ mgmt_registered[e[1]] = IF e[2] THEN "gone" ELSE "yes"
    BY <1>3 DEF MgmtHandlers
  <2>3. f[1] = e[1] /\ f[2] = (e[2] \/ gone(e[1]))
    BY <2>1
  <2>4. mgmt_registered'[e[1]] = IF gone(e[1]) THEN "gone" ELSE mgmt_registered[e[1]]
    BY <1>1, <2>2
  <2>5. QED
    BY <2>2, <2>3, <2>4
<1>11. \A m \in Handlers : mgmt_registered'[m] = "gone" => <<m, TRUE>> \in Range(mgmt_notifiers')
  <2> SUFFICES ASSUME NEW m \in Handlers, mgmt_registered'[m] = "gone" PROVE <<m, TRUE>> \in Range(mgmt_notifiers')
    OBVIOUS
  <2>1. \E e \in Range(mgmt_notifiers) : e[1] = m /\ (e[2] \/ gone(m))
    <3>1. CASE there(m) /\ gone(m)
      BY <3>1
    <3>2. CASE ~(there(m) /\ gone(m))
      <4>1. mgmt_registered[m] = "gone"
        BY <1>1, <3>2
      <4>2. <<m, TRUE>> \in Range(mgmt_notifiers)
        BY <4>1 DEF MgmtHandlers
      <4>3. <<m, TRUE>>[1] = m /\ <<m, TRUE>>[2]
        OBVIOUS
      <4>4. QED
        BY <4>2, <4>3
    <3>3. QED
      BY <3>1, <3>2
  <2>2. PICK e \in Range(mgmt_notifiers) : e[1] = m /\ (e[2] \/ gone(m))
    BY <2>1
  <2>3. marked(e) = <<m, TRUE>>
    BY <2>2
  <2>4. QED
    BY <2>3, <1>6
<1>12. mgmt_cb'.live /\ (mgmt_cb'.next = 0 \/ \E e \in Range(mgmt_notifiers') : e[1] = mgmt_cb'.next)
  <2>1. CASE mgmt_cb.next = 0
    BY <2>1, <1>1 DEF MgmtHandlers
  <2>2. CASE \E e \in Range(mgmt_notifiers) : e[1] = mgmt_cb.next
    <3>1. PICK e \in Range(mgmt_notifiers) : e[1] = mgmt_cb.next
      BY <2>2
    <3>2. marked(e) \in Range(mgmt_notifiers') /\ marked(e)[1] = mgmt_cb.next
      BY <3>1, <1>6
    <3>3. QED
      BY <3>2, <1>1 DEF MgmtHandlers
  <2>3. QED
    BY <2>1, <2>2 DEF MgmtHandlers
<1>13. QED
  BY <1>1, <1>7, <1>9, <1>10, <1>11, <1>12 DEF MgmtHandlers

\* The same at any other time: the entries go.
LEMMA MgmtSwept ==
    ASSUME MgmtInv, NEW indexes, Mgmt!UnregisterAll(indexes), mgmt_cb.kind # "notify"
    PROVE  MgmtHandlerTypes' /\ MgmtHandlers' /\ mgmt_cb' = mgmt_cb
<1> USE DEF MgmtInv, MgmtTypes
<1> DEFINE gone(n)  == Mgmt!NotifyIndex(n) \in indexes
           there(n) == \E e \in Range(mgmt_notifiers) : e[1] = n
           S == {e \in Handlers \X BOOLEAN : ~gone(e[1])}
<1>1. /\ mgmt_notifiers' = Mgmt!Filter(mgmt_notifiers, S)
      /\ mgmt_registered' = [n \in Handlers |-> IF there(n) /\ gone(n) THEN "destroyed" ELSE mgmt_registered[n]]
      /\ need_notify_cleanup' = need_notify_cleanup /\ mgmt_cb' = mgmt_cb
  BY MgmtLibrary DEF Mgmt!UnregisterAll, Mgmt!InNotify, Mgmt!Notifiers, Handlers, Mgmt!NotifyEntries, MgmtHandlerTypes
<1>2. /\ mgmt_notifiers' \in Seq(Handlers \X BOOLEAN) /\ Range(mgmt_notifiers') = Range(mgmt_notifiers) \cap S
      /\ IsInjective(mgmt_notifiers')
  BY <1>1, MgmtKeptEntries
<1>3. \A e : e \in Range(mgmt_notifiers') <=> e \in Range(mgmt_notifiers) /\ ~gone(e[1])
  BY <1>2, MgmtEntries
<1>4. mgmt_registered' \in [Handlers -> {"no", "yes", "gone", "destroyed", "leaked"}]
  BY <1>1 DEF MgmtHandlerTypes
<1>5. MgmtHandlerTypes'
  BY <1>1, <1>2, <1>4 DEF MgmtHandlerTypes
<1>6. ASSUME NEW e \in Range(mgmt_notifiers')
      PROVE  /\ mgmt_registered'[e[1]] = IF e[2] THEN "gone" ELSE "yes"
             /\ e[2] => need_notify_cleanup' /\ mgmt_cb'.kind = "notify"
  <2>1. e \in Range(mgmt_notifiers) /\ ~gone(e[1]) /\ e[1] \in Handlers
    BY <1>3, MgmtEntries
  <2>2. QED
    BY <2>1, <1>1 DEF MgmtHandlers
<1>7. \A m \in Handlers : mgmt_registered'[m] = "gone" => <<m, TRUE>> \in Range(mgmt_notifiers')
  <2> SUFFICES ASSUME NEW m \in Handlers, mgmt_registered'[m] = "gone" PROVE FALSE
    OBVIOUS
  <2>1. mgmt_registered[m] = "gone"
    BY <1>1
  <2>2. <<m, TRUE>> \in Range(mgmt_notifiers) /\ <<m, TRUE>>[2]
    BY <2>1 DEF MgmtHandlers
  <2>3. QED
    BY <2>2 DEF MgmtHandlers
<1>8. QED
  BY <1>1, <1>2, <1>5, <1>6, <1>7 DEF MgmtHandlers

\* process_notify and notify_handler: the next handler is one that its user has not given up;
\* after the last one the marked entries go.
LEMMA MgmtNotified ==
    ASSUME MgmtInv, NEW k \in 1..Len(mgmt_notifiers) + 1, NEW index \in 0..2, Mgmt!NotifyFrom(k, index)
    PROVE  /\ MgmtHandlerTypes' /\ MgmtHandlers' /\ mgmt_cb' \in MgmtCalls
           /\ mgmt_cb'.kind \in {"none", "notify"}
<1> USE DEF MgmtInv, MgmtTypes
<1> DEFINE due == {i \in k..Len(mgmt_notifiers) : Mgmt!Listens(mgmt_notifiers[i], index)}
<1>1. /\ DOMAIN mgmt_notifiers = 1..Len(mgmt_notifiers) /\ Len(mgmt_notifiers) \in Nat
      /\ \A i \in DOMAIN mgmt_notifiers : mgmt_notifiers[i] \in Range(mgmt_notifiers)
  BY MgmtEntries
<1>2. due \subseteq Nat /\ due \subseteq DOMAIN mgmt_notifiers
  BY <1>1
<1>3. CASE due # {}
  <2> DEFINE i == CHOOSE x \in due : \A y \in due : x <= y
  <2>1. \E x \in due : \A y \in due : x <= y
    BY <1>2, <1>3, LeastNumber
  <2>2. i \in due
    BY <2>1
  <2>3. /\ mgmt_cb' = [kind |-> "notify", index |-> index, id |-> mgmt_notifiers[i][1],
                       live |-> mgmt_registered[mgmt_notifiers[i][1]] = "yes",
                       next |-> IF i = Len(mgmt_notifiers) THEN 0 ELSE mgmt_notifiers[i + 1][1]]
        /\ UNCHANGED <<mgmt_notifiers, mgmt_registered, need_notify_cleanup>>
    BY <1>3 DEF Mgmt!NotifyFrom, Mgmt!mgmtEvents
  <2> HIDE DEF i
  <2>4. i \in DOMAIN mgmt_notifiers /\ ~mgmt_notifiers[i][2] /\ mgmt_notifiers[i] \in Range(mgmt_notifiers)
    BY <2>2, <1>1, <1>2 DEF Mgmt!Listens
  <2>5. mgmt_notifiers[i][1] \in Handlers /\ mgmt_registered[mgmt_notifiers[i][1]] = "yes"
    BY <2>4, MgmtEntries DEF MgmtHandlers
  <2>6. i # Len(mgmt_notifiers) => i + 1 \in DOMAIN mgmt_notifiers
    BY <2>4, <1>1
  <2>7. i # Len(mgmt_notifiers) => mgmt_notifiers[i + 1] \in Range(mgmt_notifiers) /\ mgmt_notifiers[i + 1][1] \in Handlers
    BY <2>6, <1>1, MgmtEntries
  <2> DEFINE next == IF i = Len(mgmt_notifiers) THEN 0 ELSE mgmt_notifiers[i + 1][1]
             id == mgmt_notifiers[i][1]
             live == mgmt_registered[mgmt_notifiers[i][1]] = "yes"
  <2>8. next \in 0..MaxNotifiers /\ id \in Handlers /\ live /\ live \in BOOLEAN
    <3>1. Handlers \subseteq 0..MaxNotifiers /\ 0 \in 0..MaxNotifiers
      BY MgmtBounds DEF Handlers
    <3>2. QED
      BY <2>5, <2>7, <3>1
  <2>9. next = 0 \/ \E e \in Range(mgmt_notifiers) : e[1] = next
    BY <2>7
  <2>10. mgmt_cb' = [kind |-> "notify", index |-> index, id |-> id, live |-> live, next |-> next]
    BY <2>3
  <2> HIDE DEF next, id, live
  <2>11. mgmt_cb' \in MgmtCalls /\ mgmt_cb'.kind = "notify" /\ mgmt_cb'.live /\ mgmt_cb'.next = next
    BY <2>8, <2>10 DEF MgmtCalls
  <2>12. MgmtHandlerTypes'
    BY <2>3 DEF MgmtHandlerTypes
  <2>13. MgmtHandlers'
    BY <2>3, <2>9, <2>11 DEF MgmtHandlers
  <2>14. QED
    BY <2>11, <2>12, <2>13
<1>4. CASE due = {}
  <2> DEFINE S == {e \in Handlers \X BOOLEAN : ~e[2]}
  <2>1. /\ mgmt_cb' = Mgmt!NoCall /\ need_notify_cleanup' = FALSE
        /\ mgmt_notifiers' = IF need_notify_cleanup THEN Mgmt!Filter(mgmt_notifiers, S) ELSE mgmt_notifiers
        /\ mgmt_registered' = [n \in Handlers |-> IF need_notify_cleanup /\ <<n, TRUE>> \in Range(mgmt_notifiers)
                                                  THEN "destroyed" ELSE mgmt_registered[n]]
    BY <1>4, MgmtLibrary DEF Mgmt!NotifyFrom, Mgmt!Notifiers, Handlers, Mgmt!NotifyEntries
  <2>2. mgmt_cb' \in MgmtCalls /\ mgmt_cb'.kind = "none"
    BY <2>1 DEF MgmtCalls, Mgmt!NoCall
  <2>3. /\ mgmt_notifiers' \in Seq(Handlers \X BOOLEAN) /\ IsInjective(mgmt_notifiers')
        /\ \A e : e \in Range(mgmt_notifiers') <=> e \in Range(mgmt_notifiers) /\ ~e[2]
    <3>1. CASE need_notify_cleanup
      <4>1. /\ mgmt_notifiers' \in Seq(Handlers \X BOOLEAN) /\ Range(mgmt_notifiers') = Range(mgmt_notifiers) \cap S
            /\ IsInjective(mgmt_notifiers')
        BY <2>1, <3>1, MgmtKeptEntries
      <4>2. QED
        BY <4>1, MgmtEntries
    <3>2. CASE ~need_notify_cleanup
      <4>1. mgmt_notifiers' = mgmt_notifiers
        BY <2>1, <3>2
      <4>2. \A e \in Range(mgmt_notifiers) : ~e[2]
        BY <3>2 DEF MgmtHandlers
      <4>3. QED
        BY <4>1, <4>2 DEF MgmtHandlers, MgmtHandlerTypes
    <3>3. QED
      BY <3>1, <3>2
  <2>4. mgmt_registered' \in [Handlers -> {"no", "yes", "gone", "destroyed", "leaked"}]
    BY <2>1 DEF MgmtHandlerTypes
  <2>5. MgmtHandlerTypes'
    BY <2>1, <2>3, <2>4 DEF MgmtHandlerTypes
  <2>6. ASSUME NEW e \in Range(mgmt_notifiers') PROVE mgmt_registered'[e[1]] = "yes" /\ ~e[2]
    <3>1. e \in Range(mgmt_notifiers) /\ ~e[2] /\ e[1] \in Handlers
      BY <2>3, MgmtEntries
    <3>2. mgmt_registered[e[1]] = "yes"
      BY <3>1 DEF MgmtHandlers
    <3>3. <<e[1], TRUE>> \notin Range(mgmt_notifiers)
      <4> SUFFICES ASSUME <<e[1], TRUE>> \in Range(mgmt_notifiers) PROVE FALSE
        OBVIOUS
      <4>1. <<e[1], TRUE>>[1] = e[1] /\ <<e[1], TRUE>>[2]
        OBVIOUS
      <4>2. mgmt_registered[e[1]] = "gone"
        BY <4>1 DEF MgmtHandlers
      <4>3. QED
        BY <3>2, <4>2
    <3>4. QED
      BY <2>1, <3>1, <3>2, <3>3
  <2>7. \A m \in Handlers : mgmt_registered'[m] # "gone"
    <3> SUFFICES ASSUME NEW m \in Handlers, mgmt_registered'[m] = "gone" PROVE FALSE
      OBVIOUS
    <3>1. mgmt_registered[m] = "gone" /\ ~(need_notify_cleanup /\ <<m, TRUE>> \in Range(mgmt_notifiers))
      BY <2>1
    <3>2. <<m, TRUE>> \in Range(mgmt_notifiers) /\ <<m, TRUE>>[2]
      BY <3>1 DEF MgmtHandlers
    <3>3. QED
      BY <3>1, <3>2 DEF MgmtHandlers
  <2>8. MgmtHandlers'
    BY <2>2, <2>3, <2>6, <2>7 DEF MgmtHandlers
  <2>9. QED
    BY <2>2, <2>5, <2>8
<1>5. QED
  BY <1>3, <1>4

\* mgmt_unref: no handler is left.
LEMMA MgmtUnreferenced ==
    ASSUME MgmtInv, Mgmt!mgmt_unref
    PROVE  MgmtHandlerTypes' /\ MgmtHandlers' /\ mgmt_cb' = Mgmt!Freed
<1> USE DEF MgmtInv, MgmtTypes
<1>1. /\ mgmt_cb = Mgmt!NoCall /\ mgmt_notifiers' = <<>> /\ mgmt_cb' = Mgmt!Freed /\ UNCHANGED need_notify_cleanup
      /\ mgmt_registered' = [n \in Handlers |-> IF mgmt_registered[n] = "yes" THEN "destroyed" ELSE mgmt_registered[n]]
  BY DEF Mgmt!mgmt_unref, Mgmt!Loop, Mgmt!Notifiers, Handlers
<1>2. mgmt_cb.kind # "notify" /\ mgmt_cb'.kind = "freed"
  BY <1>1 DEF Mgmt!NoCall, Mgmt!Freed
<1>3. \A m \in Handlers : mgmt_registered[m] # "gone"
  <2> SUFFICES ASSUME NEW m \in Handlers, mgmt_registered[m] = "gone" PROVE FALSE
    OBVIOUS
  <2>1. <<m, TRUE>> \in Range(mgmt_notifiers) /\ <<m, TRUE>>[2]
    BY DEF MgmtHandlers
  <2>2. QED
    BY <2>1, <1>2 DEF MgmtHandlers
<1>4. mgmt_notifiers' \in Seq(Handlers \X BOOLEAN) /\ Range(mgmt_notifiers') = {} /\ IsInjective(mgmt_notifiers')
  <2>1. <<>> \in Seq(Handlers \X BOOLEAN)
    OBVIOUS
  <2>2. QED
    BY <1>1, <2>1 DEF Range, IsInjective
<1>5. MgmtHandlerTypes'
  BY <1>1, <1>4 DEF MgmtHandlerTypes
<1>6. MgmtHandlers'
  BY <1>1, <1>2, <1>3, <1>4 DEF MgmtHandlers
<1>7. QED
  BY <1>1, <1>5, <1>6

\* What is about requests leaves the handlers alone.
LEMMA MgmtHandlersKept ==
    ASSUME MgmtInv, UNCHANGED Mgmt!mgmtEvents,
           mgmt_cb' = mgmt_cb \/ (mgmt_cb.kind # "notify" /\ mgmt_cb'.kind # "notify")
    PROVE  MgmtHandlerTypes' /\ MgmtHandlers'
<1>1. UNCHANGED <<mgmt_notifiers, mgmt_registered, need_notify_cleanup>>
  BY DEF Mgmt!mgmtEvents
<1>2. QED
  BY <1>1 DEF MgmtInv, MgmtTypes, MgmtHandlerTypes, MgmtHandlers

\* wakeup_writer leaves nothing that could be sent without a writer.
LEMMA MgmtWoken ==
    ASSUME MgmtInv, Mgmt!wakeup_writer
    PROVE  MgmtWriterTypes' /\ MgmtAwake'
<1>1. mgmt_writer' = (mgmt_writer \/ (pending_list' = <<>> \/ reply_queue' # <<>>))
      /\ mgmt_asleep' = (mgmt_asleep /\ ~mgmt_writer')
  BY DEF Mgmt!wakeup_writer, Mgmt!Wakes
<1>2. MgmtWriterTypes'
  BY <1>1 DEF MgmtInv, MgmtTypes, MgmtWriterTypes
<1>3. QED
  BY <1>1, <1>2 DEF MgmtAwake

\* What leaves the writer and the lists alone.
LEMMA MgmtWriterKept ==
    ASSUME MgmtInv, UNCHANGED <<request_queue, reply_queue, pending_list, mgmt_writer, mgmt_asleep>>,
           \/ mgmt_cb' = mgmt_cb
           \/ mgmt_cb'.kind \in {"complete", "freed"}
           \/ mgmt_cb'.kind \in {"none", "notify", "failed"} /\ mgmt_cb.kind \in {"none", "notify", "failed"}
    PROVE  MgmtWriterTypes' /\ MgmtAwake'
BY DEF MgmtInv, MgmtTypes, MgmtWriterTypes, MgmtAwake

\* Every step keeps the invariant.
LEMMA MgmtNext ==
    ASSUME MgmtInv, Mgmt!Next \/ UNCHANGED mgmtVars
    PROVE  MgmtInv'
<1> USE DEF MgmtInv, MgmtTypes
<1>0. Mgmt!Ids = Requests /\ Mgmt!Notifiers = Handlers /\ Mgmt!Held = MgmtHeld
  BY MgmtLibrary DEF Mgmt!Ids, Requests, Mgmt!Notifiers, Handlers, Mgmt!Held, MgmtHeld
<1>1. CASE UNCHANGED mgmtVars
  <2>1. UNCHANGED <<request_queue, reply_queue, pending_list, mgmt_kernel, mgmt_log, mgmt_told, mgmt_crossed, mgmt_cb, mgmt_writer, mgmt_asleep>>
        /\ UNCHANGED Mgmt!mgmtEvents
    BY <1>1 DEF mgmtVars, Mgmt!mgmtEvents
  <2>2. QED
    BY <2>1, MgmtQuiet, MgmtHandlersKept, MgmtWriterKept
<1>2. CASE Mgmt!can_write_data
  <2>1. /\ mgmt_cb = Mgmt!NoCall /\ mgmt_cb' = mgmt_cb /\ UNCHANGED <<mgmt_log, mgmt_told, mgmt_asleep, mgmt_crossed>>
        /\ UNCHANGED Mgmt!mgmtEvents
        /\ mgmt_writer' = (reply_queue # <<>> /\ reply_queue' # <<>>)
    BY <1>2 DEF Mgmt!can_write_data, Mgmt!Loop
  <2>2. MgmtHandlerTypes' /\ MgmtHandlers'
    BY <2>1, MgmtHandlersKept
  <2>3. mgmt_cb'.kind = "none" /\ MgmtWriterTypes'
    BY <2>1 DEF Mgmt!NoCall, MgmtWriterTypes
  <2>4. CASE Mgmt!NextRequest = 0
    <3>1. UNCHANGED <<request_queue, reply_queue, pending_list, mgmt_kernel>>
      BY <2>4, <1>2 DEF Mgmt!can_write_data, Mgmt!mgmtQueues
    <3>2. MgmtRequestTypes' /\ MgmtRequests' /\ MgmtOrder'
      BY <3>1, <2>1, MgmtQuiet
    <3>3. reply_queue = <<>> /\ (pending_list # <<>> \/ request_queue = <<>>)
      BY <2>4, MgmtNextRequest
    <3>4. MgmtAwake'
      BY <3>1, <3>3, <2>3 DEF MgmtAwake
    <3>5. QED
      BY <2>1, <2>2, <2>3, <3>2, <3>4
  <2>5. CASE Mgmt!NextRequest # 0
    <3>1. Mgmt!Popped(Mgmt!NextRequest) /\ Mgmt!Sends(Mgmt!NextRequest)
      BY <2>5, <1>2 DEF Mgmt!can_write_data
    <3>2. MgmtRequestTypes' /\ MgmtRequests' /\ MgmtOrder'
      BY <2>1, <2>5, <3>1, MgmtSent
    <3>3. pending_list' # <<>>
      <4>1. Mgmt!NextRequest \in Requests
        BY <2>5, MgmtNextRequest
      <4>2. QED
        BY <3>1, <4>1, AppendKeeps DEF Mgmt!Sends, MgmtRequestTypes
    <3>4. reply_queue' # <<>> => reply_queue # <<>>
      <4>1. Range(reply_queue') = Range(reply_queue) \ {Mgmt!NextRequest} /\ reply_queue' \in Seq(Requests)
        BY <3>1, <2>5, MgmtNextRequest, MgmtPopped
      <4>2. Range(reply_queue') # {} => Range(reply_queue) # {}
        BY <4>1
      <4>3. QED
        BY <4>1, <4>2, HeadInRange DEF MgmtRequestTypes
    <3>5. MgmtAwake'
      BY <3>3, <3>4, <2>1, <2>3 DEF MgmtAwake
    <3>6. QED
      BY <2>1, <2>2, <2>3, <3>2, <3>5
  <2>6. QED
    BY <2>4, <2>5
<1>3. CASE Mgmt!can_write_data_fails
  <2>1. MgmtRequestTypes' /\ MgmtRequests' /\ MgmtOrder' /\ mgmt_cb' \in MgmtCalls /\ mgmt_cb'.kind = "failed"
    BY <1>3, MgmtFailed
  <2>2. mgmt_cb = Mgmt!NoCall /\ mgmt_writer /\ UNCHANGED <<mgmt_writer, mgmt_asleep>> /\ UNCHANGED Mgmt!mgmtEvents
    BY <1>3 DEF Mgmt!can_write_data_fails, Mgmt!Loop
  <2>3. MgmtHandlerTypes' /\ MgmtHandlers'
    BY <2>1, <2>2, MgmtHandlersKept DEF Mgmt!NoCall
  <2>4. MgmtWriterTypes' /\ MgmtAwake'
    BY <2>1, <2>2 DEF MgmtWriterTypes, MgmtAwake
  <2>5. QED
    BY <2>1, <2>3, <2>4
<1>4. CASE Mgmt!mgmt_cancel_all
  <2>1. Mgmt!RemoveAll(MgmtHeld) /\ UNCHANGED <<mgmt_writer, mgmt_kernel, mgmt_told, mgmt_cb, mgmt_asleep>> /\ UNCHANGED Mgmt!mgmtEvents
    BY <1>0, <1>4 DEF Mgmt!mgmt_cancel_all
  <2>2. MgmtRequestTypes' /\ MgmtRequests' /\ MgmtOrder'
    BY <2>1, MgmtRemoved
  <2>3. request_queue' = <<>> /\ reply_queue' = <<>>
    <3>1. Range(request_queue') = Range(request_queue) \ MgmtHeld /\ Range(reply_queue') = Range(reply_queue) \ MgmtHeld
          /\ request_queue' \in Seq(Requests) /\ reply_queue' \in Seq(Requests)
      BY <2>1, MgmtFilterList DEF Mgmt!RemoveAll, Mgmt!Without, MgmtRequestTypes
    <3>2. Range(request_queue') = {} /\ Range(reply_queue') = {}
      BY <3>1 DEF MgmtHeld
    <3>3. QED
      BY <3>1, <3>2, HeadInRange
  <2>4. MgmtHandlerTypes' /\ MgmtHandlers'
    BY <2>1, MgmtHandlersKept
  <2>5. MgmtWriterTypes' /\ MgmtAwake'
    BY <2>1, <2>3 DEF MgmtWriterTypes, MgmtAwake
  <2>6. QED
    BY <2>1, <2>2, <2>4, <2>5
<1>5. CASE Mgmt!request_done
  <2>1. MgmtRequestTypes' /\ MgmtRequests' /\ MgmtOrder' /\ mgmt_cb' = Mgmt!NoCall
    BY <1>5, MgmtDone
  <2>2. mgmt_cb'.kind = "none" /\ mgmt_cb' \in MgmtCalls
    BY <2>1 DEF Mgmt!NoCall, MgmtCalls
  <2>3. mgmt_cb.kind \in {"failed", "complete"} /\ UNCHANGED Mgmt!mgmtEvents /\ UNCHANGED <<request_queue, reply_queue, pending_list>>
    BY <1>5 DEF Mgmt!request_done, Mgmt!mgmtQueues
  <2>4. MgmtHandlerTypes' /\ MgmtHandlers'
    BY <2>2, <2>3, MgmtHandlersKept
  <2>5. MgmtWriterTypes' /\ MgmtAwake'
    <3>1. CASE mgmt_cb.kind = "complete"
      <4>1. Mgmt!wakeup_writer
        BY <1>5, <3>1 DEF Mgmt!request_done
      <4>2. QED
        BY <4>1, <2>2, MgmtWoken
    <3>2. CASE mgmt_cb.kind # "complete"
      <4>1. UNCHANGED <<mgmt_writer, mgmt_asleep>>
        BY <1>5, <3>2 DEF Mgmt!request_done
      <4>2. QED
        BY <4>1, <3>2, <2>2, <2>3, MgmtWriterKept
    <3>3. QED
      BY <3>1, <3>2
  <2>6. QED
    BY <2>1, <2>2, <2>4, <2>5
<1>6. CASE Mgmt!notify_handler
  <2> DEFINE k == IF mgmt_cb.next = 0 THEN Len(mgmt_notifiers) + 1
                  ELSE CHOOSE i \in DOMAIN mgmt_notifiers : mgmt_notifiers[i][1] = mgmt_cb.next
  <2>1. mgmt_cb.kind = "notify" /\ Mgmt!NotifyFrom(k, mgmt_cb.index)
        /\ UNCHANGED <<request_queue, reply_queue, pending_list, mgmt_writer, mgmt_kernel, mgmt_log, mgmt_told, mgmt_asleep, mgmt_crossed>>
    BY <1>6 DEF Mgmt!notify_handler, Mgmt!InNotify, Mgmt!mgmtQueues
  <2>2. mgmt_cb.index \in 0..2
    BY <2>1, MgmtCallKinds
  <2>3. k \in 1..Len(mgmt_notifiers) + 1
    <3>1. DOMAIN mgmt_notifiers = 1..Len(mgmt_notifiers) /\ Len(mgmt_notifiers) \in Nat
      BY MgmtEntries
    <3>2. CASE mgmt_cb.next = 0
      BY <3>1, <3>2
    <3>3. CASE mgmt_cb.next # 0
      <4>1. \E i \in DOMAIN mgmt_notifiers : mgmt_notifiers[i][1] = mgmt_cb.next
        BY <2>1, <3>3 DEF MgmtHandlers, Range
      <4>2. k \in DOMAIN mgmt_notifiers
        BY <3>3, <4>1
      <4> HIDE DEF k
      <4>3. QED
        BY <3>1, <4>2
    <3>4. QED
      BY <3>2, <3>3
  <2> HIDE DEF k
  <2>4. MgmtHandlerTypes' /\ MgmtHandlers' /\ mgmt_cb' \in MgmtCalls /\ mgmt_cb'.kind \in {"none", "notify"}
    BY <2>1, <2>2, <2>3, MgmtNotified
  <2>5. QED
    BY <2>1, <2>4, MgmtQuiet, MgmtWriterKept
<1>7. CASE Mgmt!mgmt_unref
  <2>1. MgmtHandlerTypes' /\ MgmtHandlers' /\ mgmt_cb' = Mgmt!Freed
    BY <1>7, MgmtUnreferenced
  <2>2. Mgmt!RemoveAll(MgmtHeld) /\ UNCHANGED <<mgmt_kernel, mgmt_told, mgmt_asleep>> /\ mgmt_writer' = FALSE
    BY <1>0, <1>7 DEF Mgmt!mgmt_unref
  <2>3. MgmtRequestTypes' /\ MgmtRequests' /\ MgmtOrder'
    BY <2>1, <2>2, MgmtRemoved
  <2>4. mgmt_cb'.kind = "freed" /\ mgmt_cb' \in MgmtCalls
    BY <2>1 DEF Mgmt!Freed, MgmtCalls
  <2>5. MgmtWriterTypes' /\ MgmtAwake'
    BY <2>2, <2>4 DEF MgmtWriterTypes, MgmtAwake
  <2>6. QED
    BY <2>1, <2>3, <2>4, <2>5
<1>8. ASSUME NEW i \in Requests, Mgmt!mgmt_send(i) PROVE MgmtInv'
  <2>1. /\ Mgmt!New(i) /\ request_queue' = Append(request_queue, i) /\ Mgmt!wakeup_writer
        /\ UNCHANGED <<reply_queue, pending_list, mgmt_kernel, mgmt_told, mgmt_cb, mgmt_crossed>> /\ UNCHANGED Mgmt!mgmtEvents
    BY <1>8 DEF Mgmt!mgmt_send
  <2>2. QED
    BY <2>1, MgmtAdded, MgmtWoken, MgmtHandlersKept
<1>9. ASSUME NEW i \in Requests, Mgmt!mgmt_reply(i) PROVE MgmtInv'
  <2>1. /\ Mgmt!New(i) /\ reply_queue' = Append(reply_queue, i) /\ Mgmt!wakeup_writer
        /\ UNCHANGED <<request_queue, pending_list, mgmt_kernel, mgmt_told, mgmt_cb, mgmt_crossed>> /\ UNCHANGED Mgmt!mgmtEvents
    BY <1>9 DEF Mgmt!mgmt_reply
  <2>2. QED
    BY <2>1, MgmtAdded, MgmtWoken, MgmtHandlersKept
<1>10. ASSUME NEW i \in Requests, Mgmt!mgmt_send_nowait(i) PROVE MgmtInv'
  <2>1. /\ Mgmt!New(i) /\ Mgmt!Sends(i)
        /\ UNCHANGED <<request_queue, reply_queue, mgmt_writer, mgmt_told, mgmt_cb, mgmt_asleep, mgmt_crossed>> /\ UNCHANGED Mgmt!mgmtEvents
    BY <1>10 DEF Mgmt!mgmt_send_nowait
  <2>2. MgmtRequestTypes' /\ MgmtRequests' /\ MgmtOrder'
    BY <2>1, MgmtAdded
  <2>3. pending_list' # <<>>
    BY <2>1, AppendKeeps DEF Mgmt!Sends, MgmtRequestTypes
  <2>4. MgmtWriterTypes' /\ MgmtAwake'
    BY <2>1, <2>3 DEF MgmtWriterTypes, MgmtAwake
  <2>5. QED
    BY <2>1, <2>2, <2>4, MgmtHandlersKept
<1>11. ASSUME NEW i \in Requests, Mgmt!mgmt_cancel(i) PROVE MgmtInv'
  <2>1. /\ {i} \subseteq MgmtHeld /\ Mgmt!RemoveAll({i}) /\ Mgmt!wakeup_writer
        /\ UNCHANGED <<mgmt_kernel, mgmt_told, mgmt_cb>> /\ UNCHANGED Mgmt!mgmtEvents
    BY <1>0, <1>11 DEF Mgmt!mgmt_cancel
  <2>2. QED
    BY <2>1, MgmtRemoved, MgmtWoken, MgmtHandlersKept
<1>12. ASSUME NEW i \in Requests, Mgmt!request_complete(i) PROVE MgmtInv'
  <2>1. /\ MgmtRequestTypes' /\ MgmtRequests' /\ MgmtOrder' /\ mgmt_cb' \in MgmtCalls
        /\ mgmt_cb' = mgmt_cb \/ mgmt_cb'.kind = "complete"
    BY <1>12, MgmtCompleted
  <2>2. mgmt_cb = Mgmt!NoCall /\ UNCHANGED Mgmt!mgmtEvents
    BY <1>12 DEF Mgmt!request_complete, Mgmt!Loop
  <2>3. MgmtHandlerTypes' /\ MgmtHandlers'
    BY <2>1, <2>2, MgmtHandlersKept DEF Mgmt!NoCall
  <2>4. CASE Mgmt!Matched(i) = 0
    <3>1. Mgmt!wakeup_writer /\ mgmt_cb' = mgmt_cb
      BY <1>12, <2>4 DEF Mgmt!request_complete
    <3>2. QED
      BY <3>1, <2>1, <2>3, MgmtWoken
  <2>5. CASE Mgmt!Matched(i) # 0
    <3>1. mgmt_cb'.kind = "complete" /\ UNCHANGED <<mgmt_writer, mgmt_asleep>>
      BY <1>12, <2>5 DEF Mgmt!request_complete
    <3>2. MgmtWriterTypes' /\ MgmtAwake'
      BY <3>1 DEF MgmtWriterTypes, MgmtAwake
    <3>3. QED
      BY <3>2, <2>1, <2>3
  <2>6. QED
    BY <2>4, <2>5
<1>13. ASSUME NEW index \in 0..1, Mgmt!mgmt_cancel_index(index) PROVE MgmtInv'
  <2> DEFINE ids == {i \in MgmtHeld : Mgmt!Index(i) = index}
  <2>1. /\ ids \subseteq MgmtHeld /\ Mgmt!RemoveAll(ids)
        /\ UNCHANGED <<mgmt_writer, mgmt_kernel, mgmt_told, mgmt_cb>> /\ UNCHANGED Mgmt!mgmtEvents
        /\ mgmt_asleep' = (mgmt_asleep \/ (~mgmt_writer /\ pending_list' = <<>> /\ request_queue' # <<>>))
    BY <1>0, <1>13 DEF Mgmt!mgmt_cancel_index
  <2> HIDE DEF ids
  <2>2. MgmtRequestTypes' /\ MgmtRequests' /\ MgmtOrder'
    BY <2>1, MgmtRemoved
  <2>3. reply_queue' # <<>> => reply_queue # <<>>
    <3>1. Range(reply_queue') = Range(reply_queue) \ ids /\ reply_queue' \in Seq(Requests)
      BY <2>1, MgmtFilterList DEF Mgmt!RemoveAll, Mgmt!Without, MgmtRequestTypes
    <3>2. Range(reply_queue') # {} => Range(reply_queue) # {}
      BY <3>1
    <3>3. QED
      BY <3>1, <3>2, HeadInRange DEF MgmtRequestTypes
  <2>4. MgmtWriterTypes' /\ MgmtAwake'
    BY <2>1, <2>3 DEF MgmtWriterTypes, MgmtAwake
  <2>5. QED
    BY <2>1, <2>2, <2>4, MgmtHandlersKept
<1>14. ASSUME NEW index \in 0..2, Mgmt!process_notify(index) PROVE MgmtInv'
  <2>1. mgmt_cb = Mgmt!NoCall /\ Mgmt!NotifyFrom(1, index)
        /\ UNCHANGED <<request_queue, reply_queue, pending_list, mgmt_writer, mgmt_kernel, mgmt_log, mgmt_told, mgmt_asleep, mgmt_crossed>>
    BY <1>14 DEF Mgmt!process_notify, Mgmt!Loop, Mgmt!mgmtQueues
  <2>2. 1 \in 1..Len(mgmt_notifiers) + 1
    BY MgmtEntries
  <2>3. MgmtHandlerTypes' /\ MgmtHandlers' /\ mgmt_cb' \in MgmtCalls /\ mgmt_cb'.kind \in {"none", "notify"}
    BY <2>1, <2>2, MgmtNotified
  <2>4. mgmt_cb.kind = "none"
    BY <2>1 DEF Mgmt!NoCall
  <2>5. QED
    BY <2>1, <2>3, <2>4, MgmtQuiet, MgmtWriterKept
<1>15. ASSUME NEW n \in Handlers, Mgmt!mgmt_register(n) PROVE MgmtInv'
  <2>1. MgmtHandlerTypes' /\ MgmtHandlers' /\ mgmt_cb' = mgmt_cb
    BY <1>15, MgmtRegistered
  <2>2. UNCHANGED <<request_queue, reply_queue, pending_list, mgmt_writer, mgmt_kernel, mgmt_log, mgmt_told, mgmt_asleep, mgmt_crossed>>
    BY <1>15 DEF Mgmt!mgmt_register, Mgmt!mgmtQueues
  <2>3. QED
    BY <2>1, <2>2, MgmtQuiet, MgmtWriterKept
<1>16. ASSUME NEW n \in Handlers, Mgmt!mgmt_unregister(n) PROVE MgmtInv'
  <2>1. MgmtHandlerTypes' /\ MgmtHandlers' /\ mgmt_cb' = mgmt_cb
    BY <1>16, MgmtUnregistered
  <2>2. UNCHANGED <<request_queue, reply_queue, pending_list, mgmt_writer, mgmt_kernel, mgmt_log, mgmt_told, mgmt_asleep, mgmt_crossed>>
    BY <1>16 DEF Mgmt!mgmt_unregister, Mgmt!mgmtQueues
  <2>3. QED
    BY <2>1, <2>2, MgmtQuiet, MgmtWriterKept
<1>17. ASSUME NEW indexes, Mgmt!UnregisterAll(indexes) PROVE MgmtInv'
  <2>1. MgmtHandlerTypes' /\ MgmtHandlers' /\ mgmt_cb' = mgmt_cb
    BY <1>17, MgmtMarked, MgmtSwept
  <2>2. UNCHANGED <<request_queue, reply_queue, pending_list, mgmt_writer, mgmt_kernel, mgmt_log, mgmt_told, mgmt_asleep, mgmt_crossed>>
    BY <1>17 DEF Mgmt!UnregisterAll, Mgmt!mgmtQueues
  <2>3. QED
    BY <2>1, <2>2, MgmtQuiet, MgmtWriterKept
<1>18. ASSUME NEW i \in Requests, Mgmt!mgmt_send_nowait_fails(i) PROVE MgmtInv'
  <2>1. /\ MgmtRequestTypes' /\ MgmtRequests' /\ MgmtOrder' /\ mgmt_cb' \in MgmtCalls
        /\ mgmt_cb' = mgmt_cb \/ (mgmt_cb.kind = "none" /\ mgmt_cb'.kind = "failed")
    BY <1>18, MgmtAddedFailed DEF Mgmt!NoCall
  <2>2. UNCHANGED <<request_queue, reply_queue, pending_list, mgmt_writer, mgmt_asleep>> /\ UNCHANGED Mgmt!mgmtEvents
    BY <1>18 DEF Mgmt!mgmt_send_nowait_fails, Mgmt!mgmtQueues
  <2>3. QED
    BY <2>1, <2>2, MgmtHandlersKept, MgmtWriterKept
<1>19. CASE Mgmt!Next
  BY <1>0, <1>2, <1>3, <1>4, <1>5, <1>6, <1>7, <1>8, <1>9, <1>10, <1>11, <1>12, <1>13, <1>14, <1>15, <1>16, <1>17, <1>18,
     <1>19
     DEF Mgmt!Next
<1>20. QED
  BY <1>1, <1>19

\* A list in which nothing is twice has as many elements as it is long.
LEMMA InjectiveLength ==
    ASSUME NEW T, NEW q \in Seq(T), IsInjective(q)
    PROVE  IsFiniteSet(Range(q)) /\ Cardinality(Range(q)) = Len(q)
<1>1. DOMAIN q = 1..Len(q) /\ Len(q) \in Nat /\ q \in [1..Len(q) -> Range(q)]
  <2>1. DOMAIN q = 1..Len(q) /\ Len(q) \in Nat /\ q \in [1..Len(q) -> T]
    BY LenProperties
  <2>2. QED
    BY <2>1 DEF Range
<1>2. IsFiniteSet(1..Len(q)) /\ Cardinality(1..Len(q)) = Len(q)
  <2>1. 1 \in Int /\ Len(q) \in Int
    BY <1>1
  <2>2. IsFiniteSet(1..Len(q)) /\ Cardinality(1..Len(q)) = IF 1 > Len(q) THEN 0 ELSE Len(q) - 1 + 1
    BY <2>1, FS_Interval
  <2> DEFINE n == Len(q)
  <2>3. n \in Nat
    BY <1>1
  <2> HIDE DEF n
  <2>4. (IF 1 > n THEN 0 ELSE n - 1 + 1) = n
    BY <2>3
  <2>5. QED
    BY <2>2, <2>4 DEF n
<1>3. q \in Bijection(1..Len(q), Range(q))
  BY <1>1 DEF Bijection, Injection, Surjection, IsInjective, Range
<1>4. ExistsBijection(1..Len(q), Range(q))
  BY <1>3 DEF ExistsBijection
<1>5. QED
  BY <1>2, <1>4, FS_Bijection

\* It starts with empty lists.
LEMMA MgmtStart == Mgmt!Init => MgmtInv
<1> SUFFICES ASSUME Mgmt!Init PROVE MgmtInv
  OBVIOUS
<1>0. /\ request_queue = <<>> /\ reply_queue = <<>> /\ pending_list = <<>> /\ mgmt_writer = FALSE /\ mgmt_kernel = <<>>
      /\ mgmt_log = [i \in Requests |-> Unasked] /\ mgmt_told = [i \in Requests |-> 0]
      /\ mgmt_notifiers = <<>> /\ mgmt_registered = [n \in Handlers |-> "no"] /\ need_notify_cleanup = FALSE
      /\ mgmt_cb = [kind |-> "none"] /\ mgmt_asleep = FALSE /\ mgmt_crossed = FALSE
  BY DEF Mgmt!Init, Mgmt!Ids, Mgmt!Notifiers, Requests, Handlers, Unasked, Mgmt!NoCall
<1>1. \A S : <<>> \in Seq(S)
  OBVIOUS
<1>2. Range(<<>>) = {} /\ IsInjective(<<>>)
  BY DEF Range, IsInjective
<1>3. MgmtRequestTypes
  <2>1. 0 \in 0..MaxRequests
    BY MgmtBounds
  <2>2. QED
    BY <1>0, <1>1, <2>1 DEF MgmtRequestTypes, Logs
<1>4. MgmtTypes
  BY <1>0, <1>1, <1>3 DEF MgmtTypes, MgmtWriterTypes, MgmtHandlerTypes, MgmtCalls
<1>5. MgmtRequests
  <2>1. 0 \in 0..MaxRequests /\ \A i \in Requests : ~(i <= 0)
    BY MgmtBounds DEF Requests
  <2>2. \A i \in Requests : mgmt_log[i] = Unasked
    BY <1>0
  <2>3. \E m \in 0..MaxRequests : \A i \in Requests : mgmt_log[i] # Unasked <=> i <= m
    BY <2>1, <2>2
  <2>4. QED
    BY <1>0, <1>2, <2>2, <2>3, LogsGrow DEF MgmtRequests, MgmtHeld
<1>6. MgmtOrder /\ MgmtAwake /\ MgmtHandlers
  BY <1>0, <1>2 DEF MgmtOrder, MgmtAwake, MgmtHandlers
<1>7. QED
  BY <1>4, <1>5, <1>6 DEF MgmtInv

\* Two sets with nothing in common have together as many members as each of them.
LEMMA DisjointCardinality ==
    ASSUME NEW A, NEW B, IsFiniteSet(A), IsFiniteSet(B), A \cap B = {}
    PROVE  IsFiniteSet(A \cup B) /\ Cardinality(A \cup B) = Cardinality(A) + Cardinality(B)
<1>1. /\ IsFiniteSet(A \cup B)
      /\ Cardinality(A \cup B) = Cardinality(A) + Cardinality(B) - Cardinality(A \cap B)
  BY FS_Union
<1>2. Cardinality(A \cap B) = 0
  BY FS_EmptySet
<1>3. Cardinality(A) \in Nat /\ Cardinality(B) \in Nat
  BY FS_CardinalityType
<1>4. QED
  BY <1>1, <1>2, <1>3

\* The invariant says what the properties of Mgmt say.
LEMMA MgmtCorrect ==
    ASSUME MgmtInv
    PROVE  Mgmt!TypeOK /\ Mgmt!CompletedOnce /\ Mgmt!HandlersLive /\ Mgmt!AnswersBelong /\ Mgmt!NothingWaits
<1> USE DEF MgmtInv, MgmtTypes
<1>0. Mgmt!Ids = Requests /\ Mgmt!Notifiers = Handlers /\ Mgmt!Held = MgmtHeld
  BY MgmtLibrary DEF Mgmt!Ids, Requests, Mgmt!Notifiers, Handlers, Mgmt!Held, MgmtHeld
<1>1. /\ Range(request_queue) \subseteq Requests /\ Range(reply_queue) \subseteq Requests
      /\ Range(pending_list) \subseteq Requests /\ Range(mgmt_kernel) \subseteq Requests
  BY HeadInRange DEF MgmtRequestTypes
<1>2. mgmt_cb.kind \in {"none", "freed", "failed", "complete", "notify"}
  BY MgmtCallKinds
<1>3. Mgmt!TypeOK
  BY <1>0, <1>1, <1>2, MgmtLibrary DEF Mgmt!TypeOK, MgmtHeld, MgmtRequestTypes
<1>4. Mgmt!CompletedOnce
  <2>1. \A i \in Requests : mgmt_log[i] \in {<<"unused">>, <<>>, <<"callback">>, <<"destroy">>, <<"callback", "destroy">>}
    BY DEF MgmtRequestTypes, Logs, Unasked, Waits, Called, Dropped, Finished
  <2>2. \A i \in Requests : (mgmt_log[i] = <<>>) = (i \in MgmtHeld)
    BY DEF MgmtRequests, Waits
  <2>3. /\ IsFiniteSet(Range(request_queue)) /\ Cardinality(Range(request_queue)) = Len(request_queue)
        /\ IsFiniteSet(Range(reply_queue)) /\ Cardinality(Range(reply_queue)) = Len(reply_queue)
        /\ IsFiniteSet(Range(pending_list)) /\ Cardinality(Range(pending_list)) = Len(pending_list)
    BY InjectiveLength DEF MgmtRequestTypes, MgmtRequests
  <2> DEFINE U == Range(request_queue) \cup Range(reply_queue)
  <2>4. Range(request_queue) \cap Range(reply_queue) = {} /\ U \cap Range(pending_list) = {}
    BY DEF MgmtRequests
  <2>5. IsFiniteSet(U) /\ Cardinality(U) = Len(request_queue) + Len(reply_queue)
    <3>1. /\ IsFiniteSet(Range(request_queue) \cup Range(reply_queue))
          /\ Cardinality(Range(request_queue) \cup Range(reply_queue))
             = Cardinality(Range(request_queue)) + Cardinality(Range(reply_queue))
      BY <2>3, <2>4, DisjointCardinality
    <3>2. QED
      BY <2>3, <3>1
  <2>6. Cardinality(U \cup Range(pending_list)) = (Len(request_queue) + Len(reply_queue)) + Len(pending_list)
    <3> HIDE DEF U
    <3>1. Cardinality(U \cup Range(pending_list)) = Cardinality(U) + Cardinality(Range(pending_list))
      BY <2>3, <2>4, <2>5, DisjointCardinality
    <3>2. QED
      BY <2>3, <2>5, <3>1
  <2>7. Len(request_queue) \in Nat /\ Len(reply_queue) \in Nat /\ Len(pending_list) \in Nat
    BY LenProperties DEF MgmtRequestTypes
  <2>8. Len(request_queue) + Len(reply_queue) + Len(pending_list) = Cardinality(MgmtHeld)
    BY <2>6, <2>7 DEF MgmtHeld
  <2>9. QED
    BY <1>0, <2>1, <2>2, <2>8, MgmtLibrary DEF Mgmt!CompletedOnce
<1>5. Mgmt!HandlersLive
  <2>1. ASSUME mgmt_cb.kind # "notify", NEW n \in Handlers PROVE mgmt_registered[n] # "gone"
    <3> SUFFICES ASSUME mgmt_registered[n] = "gone" PROVE FALSE
      OBVIOUS
    <3>1. <<n, TRUE>> \in Range(mgmt_notifiers) /\ <<n, TRUE>>[2]
      BY DEF MgmtHandlers
    <3>2. QED
      BY <2>1, <3>1 DEF MgmtHandlers
  <2>2. QED
    BY <1>0, <2>1 DEF Mgmt!HandlersLive, Mgmt!InNotify, MgmtHandlers
<1>6. Mgmt!AnswersBelong
  BY <1>0 DEF Mgmt!AnswersBelong, MgmtOrder
<1>7. Mgmt!NothingWaits
  BY DEF Mgmt!NothingWaits, MgmtAwake
<1>8. QED
  BY <1>3, <1>4, <1>5, <1>6, <1>7

-----------------------------------------------------------------------------
(* Hci *)

HciCommands == 1..MaxHciCommands

\* The state is of these types.
HciTypes ==
    /\ hci_cmds \in Seq(HciCommands) /\ hci_rsps \in Seq(HciCommands) /\ controller \in Seq(HciCommands)
    /\ num_cmds \in 0..Credits /\ hci_writer \in BOOLEAN
    /\ hci_log \in [HciCommands -> Logs] /\ hci_told \in [HciCommands -> 0..MaxHciCommands]
    /\ evt_list \subseteq Hci!Evts /\ hci_cb \in -1..MaxHciCommands
    /\ hci_crossed \in BOOLEAN /\ hci_failed \in BOOLEAN

HciHeld == Range(hci_cmds) \cup Range(hci_rsps)

\* A command is in at most one queue, once, and is in one as long as nothing was called; the
\* commands made are the first ones; and who is called back was not destroyed.
HciQueues ==
    /\ IsInjective(hci_cmds) /\ IsInjective(hci_rsps) /\ Range(hci_cmds) \cap Range(hci_rsps) = {}
    /\ \A i \in HciCommands : hci_log[i] = Waits <=> i \in HciHeld
    /\ \E m \in 0..MaxHciCommands : \A i \in HciCommands : hci_log[i] # Unasked <=> i <= m
    /\ hci_cb > 0 => hci_log[hci_cb] = Called

\* Unless one was dropped or not sent, the controller answers the commands that wait, in order.
HciOrder ==
    ~hci_crossed /\ ~hci_failed => controller = hci_rsps /\ \A i \in HciCommands : hci_told[i] \in {0, i}

\* The credits the controller gave are not overdrawn.
HciWindow == Len(controller) + num_cmds <= Credits

\* When no answer is to come that would wake it, the writer is there if it is needed.
HciAwake ==
    /\ ~hci_crossed /\ ~hci_failed /\ hci_cb = 0 /\ hci_cmds # <<>> /\ num_cmds >= 1 /\ controller = <<>>
    => hci_writer

HciInv == HciTypes /\ HciQueues /\ HciOrder /\ HciWindow /\ HciAwake

\* The library's operators mean the same in every part.
LEMMA HciLibrary ==
    /\ \A q, S : Hci!Filter(q, S) = Filter(q, S)
    /\ \A q : Hci!Range(q) = Range(q)
    /\ \A S : Hci!Cardinality(S) = Cardinality(S)
    /\ Hci!Cmds = HciCommands
<1>1. \A q, S : Hci!Filter(q, S) = Filter(q, S)
  BY Zenon DEF Filter, Hci!Filter
<1>2. \A q : Hci!Range(q) = Range(q)
  BY Zenon DEF Range, Hci!Range
<1>3. \A S : Hci!Cardinality(S) = Cardinality(S)
  BY Zenon DEF Cardinality, Hci!Cardinality
<1>4. QED
  BY <1>1, <1>2, <1>3 DEF Hci!Cmds, HciCommands

\* The bounds are numbers.
LEMMA HciBounds == MaxHciCommands \in Nat /\ Credits \in Nat /\ Credits >= 1
BY ConstantsAssumption DEF Hci!ConstantsOK

\* The commands made so far are the first Made ones, and the next one is new.
LEMMA HciNewCommand ==
    ASSUME HciTypes, HciQueues, Hci!Made < MaxHciCommands
    PROVE  LET i == Hci!Made + 1 IN
           /\ i \in HciCommands /\ hci_log[i] = Unasked /\ i \notin HciHeld
           /\ \A j \in HciCommands : hci_log[j] # Unasked <=> j <= i - 1
<1>0. MaxHciCommands \in Nat
  BY HciBounds
<1>1. PICK m \in 0..MaxHciCommands : \A j \in HciCommands : hci_log[j] # Unasked <=> j <= m
  BY DEF HciQueues
<1>2. {j \in HciCommands : hci_log[j] # Unasked} = 1..m
  BY <1>0, <1>1 DEF HciCommands
<1>3. Cardinality(1..m) = m
  <2>1. 1 \in Int /\ m \in Int
    BY <1>0
  <2>2. Cardinality(1..m) = IF 1 > m THEN 0 ELSE m - 1 + 1
    BY <2>1, FS_Interval
  <2>3. (IF 1 > m THEN 0 ELSE m - 1 + 1) = m
    BY <1>0
  <2>4. QED
    BY <2>2, <2>3
<1>4. Hci!Made = m
  BY <1>2, <1>3, HciLibrary DEF Hci!Made, Unasked
<1>5. m + 1 \in HciCommands
  BY <1>0, <1>4 DEF HciCommands
<1>6. hci_log[m + 1] = Unasked /\ m + 1 - 1 = m
  BY <1>0, <1>1, <1>5
<1>7. m + 1 \notin HciHeld
  BY <1>5, <1>6, LogsGrow DEF HciQueues
<1>8. QED
  BY <1>1, <1>4, <1>5, <1>6, <1>7

\* Commands are taken out of a queue.
LEMMA HciFilterList ==
    ASSUME NEW q \in Seq(HciCommands), NEW r, NEW ids, r = Hci!Filter(q, Hci!Cmds \ ids)
    PROVE  /\ r \in Seq(HciCommands) /\ Range(r) = Range(q) \ ids
           /\ IsInjective(q) => IsInjective(r)
           /\ Range(q) \cap ids = {} => r = q
<1>1. r = Filter(q, HciCommands \ ids)
  BY HciLibrary
<1>2. r \in Seq(HciCommands) /\ Range(r) = Range(q) \cap (HciCommands \ ids)
  <2>1. \A S : Filter(q, S) \in Seq(HciCommands) /\ Range(Filter(q, S)) = Range(q) \cap S
    BY FilterRange
  <2>2. QED
    BY <1>1, <2>1
<1>3. Range(q) \subseteq HciCommands
  BY HeadInRange
<1>4. IsInjective(q) => IsInjective(r)
  BY <1>1, FilterInjective
<1>5. Range(q) \cap ids = {} => Range(q) \subseteq HciCommands \ ids
  BY <1>3
<1>6. Range(q) \cap ids = {} => r = q
  BY <1>1, <1>5, FilterAll
<1>7. QED
  BY <1>2, <1>3, <1>4, <1>6

\* bt_hci_cancel, bt_hci_flush and bt_hci_unref: the commands are destroyed and in no queue.
LEMMA HciDropped ==
    ASSUME HciInv, NEW ids, ids \subseteq HciHeld, Hci!Drop(ids),
           UNCHANGED <<controller, hci_told, num_cmds>>, hci_cb' = hci_cb \/ hci_cb' = -1,
           evt_list' \subseteq Hci!Evts, hci_writer' \in BOOLEAN
    PROVE  /\ HciTypes' /\ HciQueues' /\ HciOrder' /\ HciWindow'
           /\ Range(hci_cmds') = Range(hci_cmds) \ ids
<1> USE DEF HciInv
<1>0. MaxHciCommands \in Nat /\ -1 \in -1..MaxHciCommands
  BY HciBounds
<1>1. /\ hci_cmds' \in Seq(HciCommands) /\ Range(hci_cmds') = Range(hci_cmds) \ ids /\ IsInjective(hci_cmds')
  BY HciFilterList DEF Hci!Drop, HciTypes, HciQueues
<1>2. /\ hci_rsps' \in Seq(HciCommands) /\ Range(hci_rsps') = Range(hci_rsps) \ ids /\ IsInjective(hci_rsps')
      /\ (Range(hci_rsps) \cap ids = {} => hci_rsps' = hci_rsps)
  BY HciFilterList DEF Hci!Drop, HciTypes, HciQueues
<1>3. HciHeld' = HciHeld \ ids
  BY <1>1, <1>2 DEF HciHeld
<1>4. \A i \in ids : i \in HciCommands /\ hci_log[i] = Waits
  BY HeadInRange DEF HciHeld, HciTypes, HciQueues
<1>5. hci_log' = [i \in HciCommands |-> IF i \in ids THEN Dropped ELSE hci_log[i]]
  BY <1>4, LogsGrow, HciLibrary DEF Hci!Drop
<1>6. hci_log' \in [HciCommands -> Logs]
  BY <1>5 DEF HciTypes, Logs
<1>7. /\ hci_crossed' \in BOOLEAN /\ hci_failed' = hci_failed
      /\ ~hci_crossed' => ~hci_crossed /\ ids \cap Range(controller) = {}
  BY HciLibrary DEF Hci!Drop, HciTypes
<1>8. HciTypes'
  BY <1>0, <1>1, <1>2, <1>6, <1>7 DEF HciTypes
<1>9. HciOrder' /\ HciWindow'
  BY <1>2, <1>7 DEF HciOrder, HciWindow
<1>10. \A i \in HciCommands : hci_log'[i] = Waits <=> i \in HciHeld'
  BY <1>3, <1>5, LogsGrow DEF HciQueues
<1>11. \A i \in HciCommands : hci_log'[i] # Unasked <=> hci_log[i] # Unasked
  BY <1>4, <1>5, LogsGrow
<1>12. \E m \in 0..MaxHciCommands : \A i \in HciCommands : hci_log'[i] # Unasked <=> i <= m
  BY <1>11 DEF HciQueues
<1>13. hci_cb' > 0 => hci_log'[hci_cb'] = Called
  <2> SUFFICES ASSUME hci_cb' > 0 PROVE hci_log'[hci_cb'] = Called
    OBVIOUS
  <2>1. hci_cb' = hci_cb /\ hci_cb \in HciCommands
    BY <1>0 DEF HciTypes, HciCommands
  <2>2. hci_log[hci_cb] = Called
    BY <2>1 DEF HciQueues
  <2>3. QED
    BY <2>1, <2>2, <1>4, <1>5, LogsGrow
<1>14. QED
  BY <1>1, <1>2, <1>8, <1>9, <1>10, <1>12, <1>13 DEF HciQueues

\* The writer is started when it is needed.
LEMMA HciWoken ==
    ASSUME HciInv, Hci!wakeup_writer
    PROVE  hci_writer' \in BOOLEAN /\ HciAwake'
BY DEF HciInv, HciTypes, HciAwake, Hci!wakeup_writer, Hci!CanSend

\* bt_hci_send
LEMMA HciSent ==
    ASSUME HciInv, Hci!bt_hci_send
    PROVE  HciInv'
<1> USE DEF HciInv
<1> DEFINE i == Hci!Made + 1
<1>0. MaxHciCommands \in Nat
  BY HciBounds
<1>1. /\ hci_log' = [hci_log EXCEPT ![i] = Waits] /\ hci_cmds' = Append(hci_cmds, i) /\ Hci!Made < MaxHciCommands
      /\ Hci!wakeup_writer /\ UNCHANGED <<num_cmds, hci_rsps, controller, hci_told, evt_list, hci_cb, hci_crossed, hci_failed>>
  BY DEF Hci!bt_hci_send, Hci!hciHandlers, Waits
<1>2. /\ i \in HciCommands /\ hci_log[i] = Unasked /\ i \notin HciHeld
      /\ \A j \in HciCommands : hci_log[j] # Unasked <=> j <= i - 1
  BY <1>1, HciNewCommand
<1> HIDE DEF i
<1>3. hci_writer' \in BOOLEAN /\ HciAwake'
  BY <1>1, HciWoken
<1>4. i \notin Range(hci_cmds) /\ i \notin Range(hci_rsps)
  BY <1>2 DEF HciHeld
<1>5. hci_cmds' \in Seq(HciCommands) /\ Range(hci_cmds') = Range(hci_cmds) \cup {i} /\ IsInjective(hci_cmds')
  BY <1>1, <1>2, <1>4, AppendKeeps DEF HciTypes, HciQueues
<1>6. hci_log' \in [HciCommands -> Logs] /\ hci_log'[i] = Waits /\ \A j \in HciCommands : j # i => hci_log'[j] = hci_log[j]
  BY <1>1, <1>2 DEF HciTypes, Logs
<1>7. HciTypes' /\ HciOrder' /\ HciWindow'
  BY <1>1, <1>3, <1>5, <1>6 DEF HciTypes, HciOrder, HciWindow
<1>8. HciHeld' = HciHeld \cup {i} /\ Range(hci_cmds') \cap Range(hci_rsps') = {}
  BY <1>1, <1>4, <1>5 DEF HciHeld, HciQueues
<1>9. \A j \in HciCommands : hci_log'[j] = Waits <=> j \in HciHeld'
  BY <1>6, <1>8 DEF HciQueues
<1>10. \E m \in 0..MaxHciCommands : \A j \in HciCommands : hci_log'[j] # Unasked <=> j <= m
  <2>1. i \in 0..MaxHciCommands /\ \A j \in HciCommands : (j = i => j <= i) /\ (j # i => (j <= i - 1 <=> j <= i))
    BY <1>0, <1>2 DEF HciCommands
  <2>2. \A j \in HciCommands : hci_log'[j] # Unasked <=> j <= i
    BY <1>2, <1>6, <2>1, LogsGrow
  <2>3. QED
    BY <2>1, <2>2
<1>11. hci_cb' > 0 => hci_log'[hci_cb'] = Called
  <2>1. hci_cb > 0 => hci_cb \in HciCommands
    BY <1>0 DEF HciTypes, HciCommands
  <2>2. QED
    BY <2>1, <1>1, <1>2, <1>6, LogsGrow DEF HciQueues
<1>12. HciQueues'
  BY <1>1, <1>5, <1>8, <1>9, <1>10, <1>11 DEF HciQueues
<1>13. QED
  BY <1>3, <1>7, <1>12

\* io_write_callback: the first command leaves its queue and waits for an answer.
LEMMA HciWritten ==
    ASSUME HciInv, NEW fails \in BOOLEAN, Hci!io_write_callback(fails)
    PROVE  HciInv'
<1> USE DEF HciInv
<1> DEFINE i == Head(hci_cmds)
           sent == num_cmds >= 1 /\ ~fails
<1>0. Credits \in Nat /\ num_cmds \in 0..Credits /\ Len(controller) \in Nat
  BY HciBounds, LenProperties DEF HciTypes
<1>1. hci_writer' = FALSE /\ hci_cb = 0 /\ UNCHANGED <<hci_log, hci_told, evt_list, hci_cb, hci_crossed>>
  BY DEF Hci!io_write_callback, Hci!hciHandlers, Hci!Loop
<1>2. CASE hci_cmds = <<>>
  <2>1. UNCHANGED <<hci_cmds, hci_rsps, num_cmds, controller, hci_failed>>
    BY <1>2 DEF Hci!io_write_callback
  <2>2. HciHeld' = HciHeld
    BY <2>1 DEF HciHeld
  <2>3. QED
    BY <1>1, <1>2, <2>1, <2>2 DEF HciTypes, HciQueues, HciOrder, HciWindow, HciAwake
<1>3. CASE hci_cmds # <<>>
  <2>1. /\ hci_cmds' = Tail(hci_cmds) /\ hci_rsps' = Append(hci_rsps, i)
        /\ num_cmds' = IF sent THEN num_cmds - 1 ELSE num_cmds
        /\ controller' = IF sent THEN Append(controller, i) ELSE controller
        /\ hci_failed' = (hci_failed \/ ~sent)
    BY <1>3 DEF Hci!io_write_callback
  <2>2. i \in Range(hci_cmds) /\ i \in HciCommands
    BY <1>3, HeadInRange DEF HciTypes
  <2>3. /\ hci_cmds' \in Seq(HciCommands) /\ Range(hci_cmds') = Range(hci_cmds) \ {i} /\ IsInjective(hci_cmds')
    BY <1>3, <2>1, TailKeeps DEF HciTypes, HciQueues
  <2>4. i \notin Range(hci_rsps)
    BY <2>2 DEF HciQueues
  <2>5. \A q \in Seq(HciCommands) : /\ Append(q, i) \in Seq(HciCommands) /\ Append(q, i) # <<>>
                                    /\ Range(Append(q, i)) = Range(q) \cup {i}
                                    /\ (IsInjective(q) /\ i \notin Range(q) => IsInjective(Append(q, i)))
    BY <2>2, AppendKeeps
  <2>6. Len(Append(controller, i)) = Len(controller) + 1
    BY <2>2, AppendProperties DEF HciTypes
  <2> HIDE DEF i, sent
  <2>7. hci_rsps' \in Seq(HciCommands) /\ Range(hci_rsps') = Range(hci_rsps) \cup {i} /\ IsInjective(hci_rsps')
    BY <2>1, <2>4, <2>5 DEF HciTypes, HciQueues
  <2>8. controller' \in Seq(HciCommands) /\ (sent => controller' # <<>>)
    BY <2>1, <2>5 DEF HciTypes
  <2>9. /\ Len(controller') = IF sent THEN Len(controller) + 1 ELSE Len(controller)
    BY <2>1, <2>6
  <2>10. num_cmds' \in 0..Credits
    BY <1>0, <2>1 DEF sent
  <2>11. HciWindow'
    <3>1. Len(controller) + num_cmds <= Credits
      BY DEF HciWindow
    <3>2. Len(controller') + num_cmds' <= Credits
      <4>1. CASE sent
        <5>1. Len(controller') = Len(controller) + 1 /\ num_cmds' = num_cmds - 1
          BY <2>1, <2>9, <4>1
        <5> DEFINE n == Len(controller)
        <5> HIDE DEF n
        <5>2. (n + 1) + (num_cmds - 1) <= Credits
          BY <1>0, <3>1 DEF n
        <5>3. QED
          BY <5>1, <5>2 DEF n
      <4>2. CASE ~sent
        BY <2>1, <2>9, <3>1, <4>2
      <4>3. QED
        BY <4>1, <4>2
    <3>3. QED
      BY <3>2 DEF HciWindow
  <2>12. HciHeld' = HciHeld /\ Range(hci_cmds') \cap Range(hci_rsps') = {}
    BY <2>2, <2>3, <2>4, <2>7 DEF HciHeld, HciQueues
  <2>13. hci_failed' \in BOOLEAN /\ (~hci_failed' => ~hci_failed /\ sent)
    BY <2>1 DEF HciTypes, sent
  <2>14. HciTypes'
    BY <1>1, <2>3, <2>7, <2>8, <2>10, <2>13 DEF HciTypes
  <2>15. HciQueues'
    BY <1>1, <2>3, <2>7, <2>12 DEF HciQueues
  <2>16. HciOrder'
    BY <1>1, <2>1, <2>13 DEF HciOrder
  <2>17. HciAwake'
    BY <2>8, <2>13 DEF HciAwake
  <2>18. QED
    BY <2>11, <2>14, <2>15, <2>16, <2>17
<1>4. QED
  BY <1>2, <1>3

\* The command an answer is given to waits for one; while no answer is without its command,
\* it is the one that was answered.
LEMMA HciMatched ==
    ASSUME HciInv, NEW answer \in HciCommands
    PROVE  LET i == Hci!Matched(Hci!Opcode(answer)) IN
           /\ i # 0 => i \in HciCommands /\ i \in Range(hci_rsps)
           /\ /\ ~hci_crossed /\ ~hci_failed
              /\ answer \in Range(controller)
              /\ answer = Head(Hci!Filter(controller, Hci!OfOpcode(Hci!Opcode(answer))))
              => i = answer
<1> DEFINE S == Hci!OfOpcode(Hci!Opcode(answer))
           f == Filter(hci_rsps, S)
           i == Hci!Matched(Hci!Opcode(answer))
<1>1. f \in Seq(HciCommands) /\ Range(f) = Range(hci_rsps) \cap S
  BY FilterRange DEF HciInv, HciTypes
<1>2. i = IF f = <<>> THEN 0 ELSE Head(f)
  BY HciLibrary DEF Hci!Matched
<1>3. f # <<>> => Head(f) \in Range(f) /\ Head(f) \in HciCommands
  BY <1>1, HeadInRange
<1>4. 0 \notin HciCommands
  BY HciBounds DEF HciCommands
<1>5. ASSUME ~hci_crossed, ~hci_failed, answer \in Range(controller), answer = Head(Hci!Filter(controller, S))
      PROVE  i = answer
  <2>1. controller = hci_rsps
    BY <1>5 DEF HciInv, HciOrder
  <2>2. answer = Head(f)
    BY <1>5, <2>1, HciLibrary
  <2>3. answer \in S
    BY HciLibrary DEF Hci!OfOpcode
  <2>4. answer \in Range(f)
    BY <1>1, <1>5, <2>1, <2>3
  <2>5. f # <<>>
    BY <1>1, <2>4, HeadInRange
  <2>6. QED
    BY <1>2, <2>2, <2>5
<1>6. QED
  BY <1>1, <1>2, <1>3, <1>4, <1>5

\* process_response
LEMMA HciAnswered ==
    ASSUME HciInv, NEW answer \in HciCommands, NEW n \in 0..Credits, Hci!process_response(answer, n)
    PROVE  HciInv'
<1> USE DEF HciInv
<1> DEFINE i == Hci!Matched(Hci!Opcode(answer))
<1>0. Credits \in Nat /\ MaxHciCommands \in Nat /\ n \in Int
  BY HciBounds
<1>1. /\ hci_cb = 0 /\ answer \in Range(controller)
      /\ answer = Head(Hci!Filter(controller, Hci!OfOpcode(Hci!Opcode(answer))))
      /\ controller' = Hci!Filter(controller, Hci!Cmds \ {answer})
      /\ n <= Credits - Len(controller') /\ num_cmds' = n
      /\ hci_rsps' = Hci!Filter(hci_rsps, Hci!Cmds \ {i})
      /\ UNCHANGED <<hci_cmds, hci_writer, evt_list, hci_crossed, hci_failed>>
  BY HciLibrary DEF Hci!process_response, Hci!hciHandlers, Hci!Loop
<1>2. /\ i = 0 => UNCHANGED <<hci_log, hci_told, hci_cb>>
      /\ i # 0 => /\ hci_log' = [hci_log EXCEPT ![i] = Append(@, "callback")]
                  /\ hci_told' = [hci_told EXCEPT ![i] = answer] /\ hci_cb' = i
  BY DEF Hci!process_response
<1>3. /\ i # 0 => i \in HciCommands /\ i \in Range(hci_rsps)
      /\ ~hci_crossed /\ ~hci_failed => i = answer
  BY <1>1, HciMatched
<1> HIDE DEF i
<1>4. hci_rsps' \in Seq(HciCommands) /\ Range(hci_rsps') = Range(hci_rsps) \ {i} /\ IsInjective(hci_rsps')
  BY <1>1, HciFilterList DEF HciTypes, HciQueues
<1>5. controller' \in Seq(HciCommands)
  BY <1>1, HciFilterList DEF HciTypes
<1>6. ~hci_crossed /\ ~hci_failed => controller' = hci_rsps'
  BY <1>1, <1>3 DEF HciOrder
<1>7. 0 \notin HciCommands /\ Range(hci_rsps) \subseteq HciCommands /\ HciCommands \subseteq 0..MaxHciCommands
      /\ HciCommands \subseteq -1..MaxHciCommands
  BY <1>0, HeadInRange DEF HciCommands, HciTypes
<1>8. HciWindow'
  <2>1. Len(controller') \in Nat
    BY <1>5, LenProperties
  <2> DEFINE k == Len(controller')
  <2>2. k \in Nat /\ n <= Credits - k
    BY <1>1, <2>1
  <2> HIDE DEF k
  <2>3. k + n <= Credits
    BY <1>0, <2>2
  <2>4. QED
    BY <1>1, <2>3 DEF HciWindow, k
<1>9. HciAwake'
  <2>1. ~hci_crossed /\ ~hci_failed => hci_cb' # 0
    BY <1>2, <1>3, <1>7
  <2>2. QED
    BY <2>1, <1>1 DEF HciAwake
<1>10. CASE i = 0
  <2>1. Range(hci_rsps') = Range(hci_rsps)
    BY <1>4, <1>7, <1>10
  <2>2. HciHeld' = HciHeld
    BY <1>1, <2>1 DEF HciHeld
  <2>3. HciTypes' /\ HciOrder'
    BY <1>1, <1>2, <1>4, <1>5, <1>6, <1>10 DEF HciTypes, HciOrder
  <2>4. HciQueues'
    BY <1>1, <1>2, <1>4, <1>10, <2>1, <2>2 DEF HciQueues
  <2>5. QED
    BY <1>8, <1>9, <2>3, <2>4
<1>11. CASE i # 0
  <2>1. i \in HciCommands /\ i \in Range(hci_rsps) /\ i \in HciHeld /\ hci_log[i] = Waits
    BY <1>3, <1>11 DEF HciHeld, HciQueues
  <2>2. hci_log' \in [HciCommands -> Logs] /\ hci_log'[i] = Called /\ \A j \in HciCommands : j # i => hci_log'[j] = hci_log[j]
    BY <1>2, <1>11, <2>1, LogsGrow DEF HciTypes, Logs
  <2>3. hci_told' \in [HciCommands -> 0..MaxHciCommands] /\ hci_told'[i] = answer /\ \A j \in HciCommands : j # i => hci_told'[j] = hci_told[j]
    BY <1>2, <1>7, <1>11, <2>1 DEF HciTypes
  <2>4. HciHeld' = HciHeld \ {i} /\ Range(hci_cmds') \cap Range(hci_rsps') = {}
    BY <1>1, <1>4, <2>1 DEF HciHeld, HciQueues
  <2>5. hci_cb' \in -1..MaxHciCommands
    BY <1>2, <1>7, <1>11, <2>1
  <2>6. HciTypes'
    BY <1>1, <1>4, <1>5, <2>2, <2>3, <2>5 DEF HciTypes
  <2>7. HciOrder'
    BY <1>1, <1>3, <1>6, <2>3 DEF HciOrder
  <2>8. \A j \in HciCommands : hci_log'[j] = Waits <=> j \in HciHeld'
    BY <2>2, <2>4, LogsGrow DEF HciQueues
  <2>9. \A j \in HciCommands : hci_log'[j] # Unasked <=> hci_log[j] # Unasked
    BY <2>1, <2>2, LogsGrow
  <2>10. \E m \in 0..MaxHciCommands : \A j \in HciCommands : hci_log'[j] # Unasked <=> j <= m
    BY <2>9 DEF HciQueues
  <2>11. HciQueues'
    BY <1>1, <1>2, <1>4, <1>11, <2>2, <2>4, <2>8, <2>10 DEF HciQueues
  <2>12. QED
    BY <1>8, <1>9, <2>6, <2>7, <2>11
<1>12. QED
  BY <1>10, <1>11

\* process_response_done
LEMMA HciDone ==
    ASSUME HciInv, Hci!process_response_done
    PROVE  HciInv'
<1> USE DEF HciInv
<1>1. /\ hci_cb > 0 /\ hci_cb' = 0 /\ hci_log' = [hci_log EXCEPT ![hci_cb] = Append(@, "destroy")]
      /\ Hci!wakeup_writer
      /\ UNCHANGED <<hci_cmds, num_cmds, hci_rsps, controller, hci_told, evt_list, hci_crossed, hci_failed>>
  BY DEF Hci!process_response_done, Hci!hciHandlers
<1>2. hci_cb \in HciCommands /\ hci_log[hci_cb] = Called /\ 0 \in -1..MaxHciCommands
  BY <1>1, HciBounds DEF HciTypes, HciQueues, HciCommands
<1>3. hci_log' \in [HciCommands -> Logs] /\ hci_log'[hci_cb] = Finished /\ \A j \in HciCommands : j # hci_cb => hci_log'[j] = hci_log[j]
  BY <1>1, <1>2, LogsGrow DEF HciTypes, Logs
<1>4. hci_writer' \in BOOLEAN /\ HciAwake'
  BY <1>1, HciWoken
<1>5. HciHeld' = HciHeld
  BY <1>1 DEF HciHeld
<1>6. HciTypes' /\ HciOrder' /\ HciWindow'
  BY <1>1, <1>2, <1>3, <1>4 DEF HciTypes, HciOrder, HciWindow
<1>7. \A j \in HciCommands : hci_log'[j] = Waits <=> j \in HciHeld'
  BY <1>2, <1>3, <1>5, LogsGrow DEF HciQueues
<1>8. \A j \in HciCommands : hci_log'[j] # Unasked <=> hci_log[j] # Unasked
  BY <1>2, <1>3, LogsGrow
<1>9. \E m \in 0..MaxHciCommands : \A j \in HciCommands : hci_log'[j] # Unasked <=> j <= m
  BY <1>8 DEF HciQueues
<1>10. ~(hci_cb' > 0)
  BY <1>1
<1>11. HciQueues'
  BY <1>1, <1>7, <1>9, <1>10 DEF HciQueues
<1>12. QED
  BY <1>4, <1>6, <1>11

\* Every step keeps the invariant.
LEMMA HciNext ==
    ASSUME HciInv, Hci!Next \/ UNCHANGED hciVars
    PROVE  HciInv'
<1> USE DEF HciInv
<1>0. Hci!Cmds = HciCommands /\ (\A q : Hci!Range(q) = Range(q))
  BY HciLibrary
<1>1. CASE UNCHANGED hciVars
  <2>1. HciHeld' = HciHeld
    BY <1>1 DEF HciHeld, hciVars
  <2>2. QED
    BY <1>1, <2>1 DEF hciVars, HciTypes, HciQueues, HciOrder, HciWindow, HciAwake
<1>2. ASSUME NEW fails \in BOOLEAN, Hci!io_write_callback(fails) PROVE HciInv'
  BY <1>2, HciWritten
<1>3. CASE Hci!bt_hci_send
  BY <1>3, HciSent
<1>4. CASE Hci!bt_hci_flush
  <2>1. /\ Hci!Drop(HciHeld) /\ hci_writer' = FALSE
        /\ UNCHANGED <<num_cmds, controller, hci_told, evt_list, hci_cb>>
    BY <1>0, <1>4 DEF Hci!bt_hci_flush, HciHeld, Hci!hciHandlers
  <2>2. HciTypes' /\ HciQueues' /\ HciOrder' /\ HciWindow' /\ Range(hci_cmds') = Range(hci_cmds) \ HciHeld
    BY <2>1, HciDropped DEF HciTypes
  <2>3. hci_cmds' = <<>>
    BY <2>2, HeadInRange DEF HciHeld, HciTypes
  <2>4. QED
    BY <2>2, <2>3 DEF HciAwake
<1>5. CASE Hci!bt_hci_unref
  <2>1. /\ Hci!Drop(HciHeld) /\ hci_writer' = FALSE /\ evt_list' = {} /\ hci_cb' = -1
        /\ UNCHANGED <<num_cmds, controller, hci_told>>
    BY <1>0, <1>5 DEF Hci!bt_hci_unref, HciHeld
  <2>2. HciTypes' /\ HciQueues' /\ HciOrder' /\ HciWindow'
    BY <2>1, HciDropped
  <2>3. QED
    BY <2>1, <2>2 DEF HciAwake
<1>6. CASE Hci!process_response_done
  BY <1>6, HciDone
<1>7. ASSUME NEW i \in HciCommands, Hci!bt_hci_cancel(i) PROVE HciInv'
  <2>1. /\ Hci!Drop({i}) /\ i \in HciHeld /\ Hci!wakeup_writer
        /\ UNCHANGED <<num_cmds, controller, hci_told, evt_list, hci_cb>>
    BY <1>0, <1>7 DEF Hci!bt_hci_cancel, HciHeld, Hci!hciHandlers
  <2>2. hci_writer' \in BOOLEAN /\ HciAwake'
    BY <2>1, HciWoken
  <2>3. {i} \subseteq HciHeld
    BY <2>1
  <2>4. HciTypes' /\ HciQueues' /\ HciOrder' /\ HciWindow'
    BY <2>1, <2>2, <2>3, HciDropped DEF HciTypes
  <2>5. QED
    BY <2>2, <2>4
<1>8. ASSUME NEW i \in HciCommands, NEW n \in 0..Credits, Hci!process_response(i, n) PROVE HciInv'
  BY <1>8, HciAnswered
<1>9. ASSUME NEW n \in 1..Credits, Hci!process_response_nop(n) PROVE HciInv'
  <2>1. /\ n <= Credits - Len(controller) /\ num_cmds' = n /\ Hci!wakeup_writer
        /\ UNCHANGED <<hci_cmds, hci_rsps, controller, hci_log, hci_told, evt_list, hci_cb, hci_crossed, hci_failed>>
    BY <1>0, <1>9 DEF Hci!process_response_nop, Hci!hciHandlers
  <2>2. hci_writer' \in BOOLEAN /\ HciAwake'
    BY <2>1, HciWoken
  <2>3. HciHeld' = HciHeld
    BY <2>1 DEF HciHeld
  <2>4. n \in 0..Credits /\ n \in Int /\ Credits \in Int /\ Len(controller) \in Nat
    BY HciBounds, LenProperties DEF HciTypes
  <2>5. HciTypes' /\ HciQueues' /\ HciOrder'
    BY <2>1, <2>2, <2>3, <2>4 DEF HciTypes, HciQueues, HciOrder
  <2>6. HciWindow'
    <3> DEFINE k == Len(controller)
    <3>1. k \in Nat /\ n <= Credits - k
      BY <2>1, <2>4
    <3> HIDE DEF k
    <3>2. k + n <= Credits
      BY <2>4, <3>1
    <3>3. QED
      BY <2>1, <3>2 DEF HciWindow, k
  <2>7. QED
    BY <2>2, <2>5, <2>6
<1>10. ASSUME NEW e \in Hci!Evts, Hci!bt_hci_register(e) \/ Hci!bt_hci_unregister(e) PROVE HciInv'
  <2>1. /\ UNCHANGED <<hci_cmds, hci_rsps, num_cmds, hci_writer, controller, hci_log, hci_told, hci_cb, hci_crossed, hci_failed>>
        /\ evt_list' = evt_list \cup {e} \/ evt_list' = evt_list \ {e}
    BY <1>10 DEF Hci!bt_hci_register, Hci!bt_hci_unregister
  <2>2. HciHeld' = HciHeld
    BY <2>1 DEF HciHeld
  <2>3. QED
    BY <2>1, <2>2 DEF HciTypes, HciQueues, HciOrder, HciWindow, HciAwake
<1>11. QED
  BY <1>0, <1>1, <1>2, <1>3, <1>4, <1>5, <1>6, <1>7, <1>8, <1>9, <1>10 DEF Hci!Next

\* It holds at first.
LEMMA HciStart == Hci!Init => HciInv
<1> SUFFICES ASSUME Hci!Init PROVE HciInv
  OBVIOUS
<1>0. /\ hci_cmds = <<>> /\ hci_rsps = <<>> /\ num_cmds = 1 /\ hci_writer = FALSE /\ controller = <<>>
      /\ hci_log = [i \in HciCommands |-> Unasked] /\ hci_told = [i \in HciCommands |-> 0]
      /\ evt_list = {} /\ hci_cb = 0 /\ hci_crossed = FALSE /\ hci_failed = FALSE
  BY HciLibrary DEF Hci!Init, Unasked
<1>1. MaxHciCommands \in Nat /\ Credits \in Nat /\ Credits >= 1 /\ 0 \in 0..MaxHciCommands
  BY HciBounds
<1>2. \A S : <<>> \in Seq(S)
  OBVIOUS
<1>3. Range(<<>>) = {} /\ IsInjective(<<>>) /\ Len(<<>>) = 0
  BY DEF Range, IsInjective
<1>4. HciTypes
  <2>1. 1 \in 0..Credits /\ 0 \in -1..MaxHciCommands
    BY <1>1
  <2>2. hci_log \in [HciCommands -> Logs] /\ hci_told \in [HciCommands -> 0..MaxHciCommands]
    BY <1>0, <1>1 DEF Logs
  <2>3. QED
    BY <1>0, <1>2, <2>1, <2>2 DEF HciTypes
<1>5. \A i \in HciCommands : hci_log[i] = Unasked /\ ~(i <= 0)
  BY <1>0, <1>1 DEF HciCommands
<1>6. \E m \in 0..MaxHciCommands : \A i \in HciCommands : hci_log[i] # Unasked <=> i <= m
  BY <1>1, <1>5
<1>7. HciQueues
  BY <1>0, <1>3, <1>5, <1>6, LogsGrow DEF HciQueues, HciHeld
<1>8. HciOrder /\ HciWindow /\ HciAwake
  BY <1>0, <1>1, <1>3 DEF HciOrder, HciWindow, HciAwake
<1>9. QED
  BY <1>4, <1>7, <1>8 DEF HciInv

\* The invariant says what the properties of Hci say.
LEMMA HciCorrect ==
    ASSUME HciInv
    PROVE  Hci!TypeOK /\ Hci!CompletedOnce /\ Hci!WindowKept /\ Hci!AnswersBelong /\ Hci!NothingWaits
<1> USE DEF HciInv
<1>0. Hci!Cmds = HciCommands /\ \A q : Hci!Range(q) = Range(q)
  BY HciLibrary
<1>1. Range(hci_cmds) \subseteq HciCommands /\ Range(hci_rsps) \subseteq HciCommands
  BY HeadInRange DEF HciTypes
<1>2. Hci!TypeOK
  BY <1>0, <1>1 DEF Hci!TypeOK, HciTypes
<1>3. Hci!CompletedOnce
  <2>1. \A i \in HciCommands : hci_log[i] \in {<<"unused">>, <<>>, <<"callback">>, <<"destroy">>, <<"callback", "destroy">>}
    BY DEF HciTypes, Logs, Unasked, Waits, Called, Dropped, Finished
  <2>2. \A i \in HciCommands : (hci_log[i] = <<>>) = (i \in HciHeld)
    BY DEF HciQueues, Waits
  <2>3. QED
    BY <1>0, <2>1, <2>2 DEF Hci!CompletedOnce, HciHeld
<1>4. Hci!WindowKept /\ Hci!AnswersBelong
  BY <1>0 DEF Hci!WindowKept, HciWindow, Hci!AnswersBelong, HciOrder
<1>5. Hci!NothingWaits
  <2> SUFFICES ASSUME hci_cb = 0, hci_cmds # <<>>, num_cmds >= 1, ~hci_crossed, ~hci_failed, ~hci_writer
               PROVE  Range(controller) \cap Range(hci_rsps) # {}
    BY <1>0 DEF Hci!NothingWaits, Hci!Loop
  <2>1. controller # <<>> /\ controller = hci_rsps
    BY DEF HciAwake, HciOrder
  <2>2. QED
    BY <2>1, HeadInRange DEF HciTypes
<1>6. QED
  BY <1>2, <1>3, <1>4, <1>5

-----------------------------------------------------------------------------
(* PtrQueue *)

QueueEntries == 1..MaxEntries

\* The list from head on is d, with tail as its last entry.
Linked(head, tail, next, d) ==
    /\ head = (IF Len(d) = 0 THEN 0 ELSE d[1])
    /\ tail = (IF Len(d) = 0 THEN 0 ELSE d[Len(d)])
    /\ \A i \in 1..Len(d) : next[d[i]] = IF i = Len(d) THEN 0 ELSE d[i + 1]

QueueInv ==
    /\ queue_data \in Seq(QueueEntries) /\ IsInjective(queue_data)
    /\ queue_next \in [QueueEntries -> 0..MaxEntries] /\ queue_entries = Len(queue_data)
    /\ Linked(queue_head, queue_tail, queue_next, queue_data)

\* The library's operators mean the same in every part.
LEMMA QueueLibrary ==
    /\ \A q, S : Queue!Filter(q, S) = Filter(q, S)
    /\ \A q : Queue!Range(q) = Range(q)
    /\ Queue!Entries = QueueEntries /\ MaxEntries \in Nat /\ 0 \notin QueueEntries
    /\ QueueEntries \subseteq 0..MaxEntries /\ 0 \in 0..MaxEntries
<1>1. \A q, S : Queue!Filter(q, S) = Filter(q, S)
  BY Zenon DEF Filter, Queue!Filter
<1>2. \A q : Queue!Range(q) = Range(q)
  BY Zenon DEF Range, Queue!Range
<1>3. MaxEntries \in Nat
  BY ConstantsAssumption DEF Queue!ConstantsOK
<1>4. QED
  BY <1>1, <1>2, <1>3 DEF Queue!Entries, QueueEntries

\* An entry e is linked in behind the first k of d, which makes it r.
LinksIn(d, e, k, r, head, tail, next, head2, tail2, next2) ==
    /\ IsInjective(d) /\ e \notin Range(d) /\ k \in 0..Len(d) /\ Len(r) = Len(d) + 1
    /\ \A i \in 1..Len(d) + 1 : r[i] = IF i <= k THEN d[i] ELSE IF i = k + 1 THEN e ELSE d[i - 1]
    /\ Linked(head, tail, next, d)
    /\ head2 = (IF k = 0 THEN e ELSE head) /\ tail2 = (IF k = Len(d) THEN e ELSE tail)
    /\ \A i \in 1..Len(d) : next2[d[i]] = IF i = k THEN e ELSE next[d[i]]
    /\ next2[e] = IF k = Len(d) THEN 0 ELSE d[k + 1]

\* Then it is whole again.
LEMMA LinkedIn ==
    ASSUME NEW T, NEW d \in Seq(T), NEW e, NEW k, NEW r \in Seq(T), NEW head, NEW tail, NEW next,
           NEW head2, NEW tail2, NEW next2, LinksIn(d, e, k, r, head, tail, next, head2, tail2, next2)
    PROVE  Linked(head2, tail2, next2, r) /\ IsInjective(r)
<1> USE DEF LinksIn
<1> DEFINE n == Len(d)
<1>1. n \in Nat /\ DOMAIN d = 1..n /\ k \in 0..n /\ DOMAIN r = 1..n + 1 /\ Len(r) = n + 1
  BY LenProperties
<1>2. \A i \in 1..n + 1 : r[i] = IF i <= k THEN d[i] ELSE IF i = k + 1 THEN e ELSE d[i - 1]
  OBVIOUS
<1>3. /\ head = (IF n = 0 THEN 0 ELSE d[1]) /\ tail = (IF n = 0 THEN 0 ELSE d[n])
      /\ \A i \in 1..n : next[d[i]] = IF i = n THEN 0 ELSE d[i + 1]
  BY DEF Linked
<1>4. /\ head2 = (IF k = 0 THEN e ELSE head)
      /\ tail2 = IF k = n THEN e ELSE tail
      /\ \A i \in 1..n : next2[d[i]] = IF i = k THEN e ELSE next[d[i]]
      /\ next2[e] = IF k = n THEN 0 ELSE d[k + 1]
  OBVIOUS
<1>5. \A i \in 1..n : d[i] # e
  BY <1>1 DEF Range
<1>6. \A i, j \in 1..n : d[i] = d[j] => i = j
  BY <1>1 DEF IsInjective
<1> HIDE DEF n, LinksIn
<1>7. \A i \in 1..n + 1 : (i <= k /\ i \in 1..n) \/ i = k + 1 \/ (i > k + 1 /\ i - 1 \in 1..n)
  BY <1>1
<1>8. IsInjective(r)
  <2> SUFFICES ASSUME NEW i \in 1..n + 1, NEW j \in 1..n + 1, r[i] = r[j] PROVE i = j
    BY <1>1 DEF IsInjective
  <2>1. CASE i = k + 1 \/ j = k + 1
    BY <2>1, <1>1, <1>2, <1>5, <1>7
  <2>2. CASE i # k + 1 /\ j # k + 1
    <3>1. ((i <= k /\ i \in 1..n) \/ (i > k + 1 /\ i - 1 \in 1..n)) /\ ((j <= k /\ j \in 1..n) \/ (j > k + 1 /\ j - 1 \in 1..n))
      BY <2>2, <1>7
    <3>2. CASE i <= k /\ j <= k
      BY <3>1, <3>2, <1>1, <1>2, <1>6
    <3>3. CASE i > k + 1 /\ j > k + 1
      <4>1. i - 1 \in 1..n /\ j - 1 \in 1..n /\ d[i - 1] = d[j - 1]
        BY <3>1, <3>3, <1>1, <1>2
      <4>2. i - 1 = j - 1
        BY <4>1, <1>6
      <4>3. QED
        BY <4>2
    <3>4. CASE i <= k /\ j > k + 1
      <4>1. i \in 1..n /\ j - 1 \in 1..n /\ d[i] = d[j - 1]
        BY <3>1, <3>4, <1>1, <1>2
      <4>2. i = j - 1
        BY <4>1, <1>6
      <4>3. QED
        BY <4>2, <3>4, <1>1
    <3>5. CASE j <= k /\ i > k + 1
      <4>1. j \in 1..n /\ i - 1 \in 1..n /\ d[j] = d[i - 1]
        BY <3>1, <3>5, <1>1, <1>2
      <4>2. j = i - 1
        BY <4>1, <1>6
      <4>3. QED
        BY <4>2, <3>5, <1>1
    <3>6. QED
      BY <3>1, <3>2, <3>3, <3>4, <3>5, <1>1
  <2>3. QED
    BY <2>1, <2>2
<1>9. head2 = r[1]
  <2>1. 1 \in 1..n + 1
    BY <1>1
  <2>2. QED
    BY <1>1, <1>2, <1>3, <1>4, <2>1
<1>10. tail2 = r[n + 1]
  <2>1. n + 1 \in 1..n + 1 /\ (n + 1) - 1 = n /\ ~(n + 1 <= k)
    BY <1>1
  <2>2. QED
    BY <1>1, <1>2, <1>3, <1>4, <2>1
<1>11. ASSUME NEW i \in 1..n + 1 PROVE next2[r[i]] = IF i = n + 1 THEN 0 ELSE r[i + 1]
  <2>1. i # n + 1 => i + 1 \in 1..n + 1 /\ i \in 1..n
    BY <1>1
  <2>2. CASE i <= k
    <3>1. i \in 1..n /\ i # n + 1 /\ r[i] = d[i]
      BY <2>2, <1>1, <1>2
    <3>2. next2[r[i]] = IF i = k THEN e ELSE next[d[i]]
      BY <3>1, <1>4
    <3>3. i # k => i + 1 <= k /\ i # n /\ r[i + 1] = d[i + 1]
      BY <3>1, <2>1, <2>2, <1>1, <1>2
    <3>4. i = k => r[i + 1] = e
      BY <3>1, <2>1, <1>1, <1>2
    <3>5. QED
      BY <3>1, <3>2, <3>3, <3>4, <1>3
  <2>3. CASE i = k + 1
    <3>1. r[i] = e
      BY <2>3, <1>1, <1>2
    <3>2. i # n + 1 => r[i + 1] = d[k + 1] /\ k # n
      <4> SUFFICES ASSUME i # n + 1 PROVE r[i + 1] = d[k + 1] /\ k # n
        OBVIOUS
      <4>1. i + 1 \in 1..n + 1 /\ ~(i + 1 <= k) /\ i + 1 # k + 1 /\ (i + 1) - 1 = k + 1
        BY <2>1, <2>3, <1>1
      <4>2. r[i + 1] = d[(i + 1) - 1]
        BY <4>1, <1>2
      <4>3. QED
        BY <4>1, <4>2, <2>3, <1>1
    <3>3. i = n + 1 => k = n
      BY <2>3, <1>1
    <3>4. QED
      BY <3>1, <3>2, <3>3, <1>4
  <2>4. CASE i > k + 1
    <3>1. i - 1 \in 1..n /\ i - 1 # k /\ r[i] = d[i - 1]
      BY <2>4, <1>1, <1>2
    <3>2. next2[r[i]] = IF i - 1 = n THEN 0 ELSE d[(i - 1) + 1]
      BY <3>1, <1>3, <1>4
    <3>3. (i - 1 = n <=> i = n + 1) /\ (i - 1) + 1 = i
      BY <1>1
    <3>4. i # n + 1 => r[i + 1] = d[i]
      <4> SUFFICES ASSUME i # n + 1 PROVE r[i + 1] = d[i]
        OBVIOUS
      <4>1. i + 1 \in 1..n + 1 /\ ~(i + 1 <= k) /\ i + 1 # k + 1 /\ (i + 1) - 1 = i
        BY <2>1, <2>4, <1>1
      <4>2. r[i + 1] = d[(i + 1) - 1]
        BY <4>1, <1>2
      <4>3. QED
        BY <4>1, <4>2
    <3>5. QED
      BY <3>2, <3>3, <3>4
  <2>5. QED
    BY <2>2, <2>3, <2>4, <1>1
<1>12. n + 1 # 0
  BY <1>1
<1>13. QED
  BY <1>1, <1>8, <1>9, <1>10, <1>11, <1>12 DEF Linked

\* The k-th entry of d is linked out, which makes it r.
LinksOut(d, k, r, head, tail, next, head2, tail2, next2) ==
    /\ IsInjective(d) /\ k \in 1..Len(d) /\ Len(r) = Len(d) - 1
    /\ \A i \in 1..Len(d) - 1 : r[i] = IF i < k THEN d[i] ELSE d[i + 1]
    /\ Linked(head, tail, next, d)
    /\ head2 = (IF k = 1 THEN next[d[k]] ELSE head)
    /\ tail2 = (IF k = Len(d) THEN (IF k = 1 THEN 0 ELSE d[k - 1]) ELSE tail)
    /\ \A i \in 1..Len(d) : i # k => next2[d[i]] = IF i = k - 1 THEN next[d[k]] ELSE next[d[i]]

\* Then it is whole again.
LEMMA LinkedOut ==
    ASSUME NEW T, NEW d \in Seq(T), NEW k, NEW r \in Seq(T), NEW head, NEW tail, NEW next,
           NEW head2, NEW tail2, NEW next2, LinksOut(d, k, r, head, tail, next, head2, tail2, next2)
    PROVE  Linked(head2, tail2, next2, r) /\ IsInjective(r)
<1> USE DEF LinksOut
<1> DEFINE n == Len(d) - 1
<1>1. n \in Nat /\ DOMAIN d = 1..n + 1 /\ Len(d) = n + 1 /\ k \in 1..n + 1 /\ DOMAIN r = 1..n /\ Len(r) = n
  <2>1. Len(d) \in Nat /\ DOMAIN d = 1..Len(d) /\ DOMAIN r = 1..Len(r)
    BY LenProperties
  <2> DEFINE m == Len(d)
  <2>2. m \in Nat /\ k \in 1..m
    BY <2>1
  <2> HIDE DEF m
  <2>3. m - 1 \in Nat /\ m = (m - 1) + 1
    BY <2>2
  <2>4. QED
    BY <2>1, <2>3 DEF m
<1>2. \A i \in 1..n : r[i] = IF i < k THEN d[i] ELSE d[i + 1]
  OBVIOUS
<1>3. /\ head = d[1] /\ tail = d[n + 1]
      /\ \A i \in 1..n + 1 : next[d[i]] = IF i = n + 1 THEN 0 ELSE d[i + 1]
  <2>1. n + 1 # 0
    BY <1>1
  <2>2. QED
    BY <1>1, <2>1 DEF Linked
<1>4. /\ head2 = (IF k = 1 THEN next[d[k]] ELSE head)
      /\ tail2 = IF k = n + 1 THEN (IF k = 1 THEN 0 ELSE d[k - 1]) ELSE tail
      /\ \A i \in 1..n + 1 : i # k => next2[d[i]] = IF i = k - 1 THEN next[d[k]] ELSE next[d[i]]
  BY <1>1
<1>5. \A i, j \in 1..n + 1 : d[i] = d[j] => i = j
  BY <1>1 DEF IsInjective
<1> HIDE DEF n, LinksOut
<1>6. \A i \in 1..n : i \in 1..n + 1 /\ i + 1 \in 1..n + 1
  BY <1>1
<1>7. IsInjective(r)
  <2> SUFFICES ASSUME NEW i \in 1..n, NEW j \in 1..n, r[i] = r[j] PROVE i = j
    BY <1>1 DEF IsInjective
  <2>1. \E a, b \in 1..n + 1 : /\ a = (IF i < k THEN i ELSE i + 1) /\ b = (IF j < k THEN j ELSE j + 1)
                               /\ d[a] = d[b]
    BY <1>2, <1>6
  <2>2. (IF i < k THEN i ELSE i + 1) = (IF j < k THEN j ELSE j + 1)
    BY <1>5, <2>1
  <2>3. QED
    BY <1>1, <2>2
<1>8. n = 0 => head2 = 0 /\ tail2 = 0
  <2> SUFFICES ASSUME n = 0 PROVE head2 = 0 /\ tail2 = 0
    OBVIOUS
  <2>1. k = 1 /\ n + 1 = 1
    BY <1>1
  <2>2. QED
    BY <1>1, <1>3, <1>4, <2>1
<1>9. n # 0 => head2 = r[1] /\ tail2 = r[n]
  <2> SUFFICES ASSUME n # 0 PROVE head2 = r[1] /\ tail2 = r[n]
    OBVIOUS
  <2>1. 1 \in 1..n /\ n \in 1..n /\ 1 + 1 = 2 /\ n + 1 # 1 /\ (n < k <=> k = n + 1) /\ (1 < k <=> k # 1) /\ (k = n + 1 => k - 1 = n)
    BY <1>1
  <2>2. r[1] = (IF 1 < k THEN d[1] ELSE d[1 + 1]) /\ r[n] = IF n < k THEN d[n] ELSE d[n + 1]
    BY <1>2, <2>1
  <2>3. next[d[1]] = d[1 + 1]
    BY <1>1, <1>3, <2>1
  <2>4. QED
    BY <1>3, <1>4, <2>1, <2>2, <2>3
<1>10. ASSUME NEW i \in 1..n PROVE next2[r[i]] = IF i = n THEN 0 ELSE r[i + 1]
  <2>1. i # n => i + 1 \in 1..n
    BY <1>1
  <2>2. CASE i < k
    <3>1. r[i] = d[i] /\ i \in 1..n + 1 /\ i # k
      BY <2>2, <1>1, <1>2
    <3>2. next2[r[i]] = IF i = k - 1 THEN next[d[k]] ELSE next[d[i]]
      BY <3>1, <1>4
    <3>3. CASE i = k - 1
      <4>1. k = i + 1 /\ (k = n + 1 <=> i = n)
        BY <3>3, <1>1
      <4>2. next[d[k]] = IF k = n + 1 THEN 0 ELSE d[k + 1]
        BY <1>1, <1>3
      <4>3. i # n => r[i + 1] = d[k + 1]
        BY <2>1, <4>1, <1>1, <1>2
      <4>4. QED
        BY <3>2, <3>3, <4>1, <4>2, <4>3
    <3>4. CASE i # k - 1
      <4>1. i # n /\ i + 1 < k /\ i # n + 1
        BY <2>2, <3>4, <1>1
      <4>2. r[i + 1] = d[i + 1]
        BY <4>1, <2>1, <1>2
      <4>3. QED
        BY <3>1, <3>2, <3>4, <4>1, <4>2, <1>3
    <3>5. QED
      BY <3>3, <3>4
  <2>3. CASE i >= k
    <3>1. r[i] = d[i + 1] /\ i + 1 \in 1..n + 1 /\ i + 1 # k /\ i + 1 # k - 1 /\ (i + 1 = n + 1 <=> i = n)
      BY <2>3, <1>1, <1>2
    <3>2. next2[r[i]] = IF i + 1 = n + 1 THEN 0 ELSE d[(i + 1) + 1]
      BY <3>1, <1>3, <1>4
    <3>3. i # n => r[i + 1] = d[(i + 1) + 1]
      BY <2>1, <2>3, <1>1, <1>2
    <3>4. QED
      BY <3>1, <3>2, <3>3
  <2>4. QED
    BY <2>2, <2>3, <1>1
<1>11. QED
  BY <1>1, <1>7, <1>8, <1>9, <1>10 DEF Linked

\* InsertAt, behind the first k
Inserted(d, k, e) == (SubSeq(d, 1, k) \o <<e>>) \o SubSeq(d, k + 1, Len(d))

\* e is behind the first k, and the others are where they were or one further.
HasInserted(d, k, e, T) ==
    /\ Inserted(d, k, e) \in Seq(T) /\ Len(Inserted(d, k, e)) = Len(d) + 1
    /\ \A i \in 1..Len(d) + 1 : Inserted(d, k, e)[i] = IF i <= k THEN d[i] ELSE IF i = k + 1 THEN e ELSE d[i - 1]

\* What it gives.
LEMMA InsertedAt ==
    ASSUME NEW T, NEW d \in Seq(T), NEW e \in T, NEW k \in 0..Len(d)
    PROVE  HasInserted(d, k, e, T)
<1> DEFINE n == Len(d)
           a == SubSeq(d, 1, k)
           b == SubSeq(d, k + 1, n)
           u == <<e>>
           c == a \o u
           r == Inserted(d, k, e)
<1>1. n \in Nat /\ k \in 0..n /\ \A i \in 1..n : d[i] \in T
  BY LenProperties, ElementOfSeq
<1>2. a \in Seq(T) /\ Len(a) = k /\ \A i \in 1..k : a[i] = d[i]
  <2> HIDE DEF n
  <2>1. 1 \in Int /\ k \in Int /\ \A i \in 1..k : d[i] \in T
    BY <1>1
  <2>2. /\ a \in Seq(T) /\ Len(a) = (IF 1 <= k THEN k - 1 + 1 ELSE 0)
        /\ \A i \in 1..k - 1 + 1 : a[i] = d[1 + i - 1]
    BY <2>1, SubSeqProperties
  <2> HIDE DEF a
  <2>3. (IF 1 <= k THEN k - 1 + 1 ELSE 0) = k /\ \A i \in 1..k : i \in 1..k - 1 + 1 /\ 1 + i - 1 = i
    BY <1>1
  <2>4. QED
    BY <2>2, <2>3
<1>3. b \in Seq(T) /\ Len(b) = n - k /\ \A i \in 1..n - k : b[i] = d[k + i]
  <2> HIDE DEF n
  <2>1. k + 1 \in Int /\ n \in Int /\ \A i \in k + 1..n : d[i] \in T
    BY <1>1
  <2>2. /\ b \in Seq(T) /\ Len(b) = (IF k + 1 <= n THEN n - (k + 1) + 1 ELSE 0)
        /\ \A i \in 1..n - (k + 1) + 1 : b[i] = d[k + 1 + i - 1]
    BY <2>1, SubSeqProperties
  <2> HIDE DEF b
  <2>3. /\ (IF k + 1 <= n THEN n - (k + 1) + 1 ELSE 0) = n - k
        /\ \A i \in 1..n - k : i \in 1..n - (k + 1) + 1 /\ k + 1 + i - 1 = k + i
    BY <1>1
  <2>4. QED
    BY <2>2, <2>3
<1>4. u \in Seq(T) /\ Len(u) = 1 /\ u[1] = e
  OBVIOUS
<1> HIDE DEF n, a, b, u, r
<1>5. c \in Seq(T) /\ Len(c) = k + 1 /\ \A i \in 1..k + 1 : c[i] = IF i <= k THEN d[i] ELSE e
  <2>1. /\ c \in Seq(T) /\ Len(c) = Len(a) + Len(u)
        /\ \A i \in 1..Len(a) + Len(u) : c[i] = IF i <= Len(a) THEN a[i] ELSE u[i - Len(a)]
    BY <1>2, <1>4, ConcatProperties
  <2> HIDE DEF c
  <2>2. \A i \in 1..k + 1 : c[i] = IF i <= k THEN a[i] ELSE u[i - k]
    BY <1>2, <1>4, <2>1
  <2>3. \A i \in 1..k + 1 : (i <= k => i \in 1..k) /\ (~(i <= k) => i - k = 1)
    BY <1>1
  <2>4. QED
    BY <1>2, <1>4, <2>1, <2>2, <2>3
<1> HIDE DEF c
<1>6. r = c \o b
  BY DEF c, b, a, u, n, r, Inserted
<1>7. /\ c \o b \in Seq(T) /\ Len(c \o b) = Len(c) + Len(b)
      /\ \A i \in 1..Len(c) + Len(b) : (c \o b)[i] = IF i <= Len(c) THEN c[i] ELSE b[i - Len(c)]
  BY <1>3, <1>5, ConcatProperties
<1>8. r \in Seq(T) /\ Len(r) = (k + 1) + (n - k) /\ \A i \in 1..(k + 1) + (n - k) : r[i] = IF i <= k + 1 THEN c[i] ELSE b[i - (k + 1)]
  BY <1>3, <1>5, <1>6, <1>7
<1>9. (k + 1) + (n - k) = n + 1
  BY <1>1
<1>10. ASSUME NEW i \in 1..n + 1 PROVE r[i] = IF i <= k THEN d[i] ELSE IF i = k + 1 THEN e ELSE d[i - 1]
  <2>1. r[i] = IF i <= k + 1 THEN c[i] ELSE b[i - (k + 1)]
    BY <1>8, <1>9
  <2>2. CASE i <= k + 1
    <3>1. i \in 1..k + 1 /\ (~(i <= k) => i = k + 1)
      BY <2>2, <1>1
    <3>2. QED
      BY <2>1, <2>2, <3>1, <1>5
  <2>3. CASE ~(i <= k + 1)
    <3>1. i - (k + 1) \in 1..n - k /\ k + (i - (k + 1)) = i - 1 /\ ~(i <= k) /\ i # k + 1
      BY <2>3, <1>1
    <3>2. b[i - (k + 1)] = d[k + (i - (k + 1))]
      BY <3>1, <1>3
    <3>3. QED
      BY <2>1, <2>3, <3>1, <3>2
  <2>4. QED
    BY <2>2, <2>3
<1>11. QED
  BY <1>8, <1>9, <1>10 DEF n, r, HasInserted

\* The entries by their place in the list.
LEMMA QueuePlaces ==
    ASSUME QueueInv
    PROVE  /\ Len(queue_data) \in Nat /\ DOMAIN queue_data = 1..Len(queue_data)
           /\ \A i \in 1..Len(queue_data) : queue_data[i] \in QueueEntries /\ queue_data[i] \in Range(queue_data)
           /\ \A e \in Range(queue_data) : \E i \in 1..Len(queue_data) : queue_data[i] = e
           /\ \A i, j \in 1..Len(queue_data) : queue_data[i] = queue_data[j] => i = j
           /\ queue_data = <<>> <=> Len(queue_data) = 0
<1>1. Len(queue_data) \in Nat /\ DOMAIN queue_data = 1..Len(queue_data)
  BY LenProperties DEF QueueInv
<1>2. \A i \in 1..Len(queue_data) : queue_data[i] \in QueueEntries
  BY ElementOfSeq DEF QueueInv
<1>3. queue_data = <<>> <=> Len(queue_data) = 0
  BY EmptySeq DEF QueueInv
<1>4. QED
  BY <1>1, <1>2, <1>3 DEF QueueInv, Range, IsInjective

\* queue_push_tail
LEMMA QueuePushTail ==
    ASSUME QueueInv, NEW e \in QueueEntries, Queue!queue_push_tail(e)
    PROVE  QueueInv'
<1> DEFINE d == queue_data
           n == Len(d)
<1>1. /\ e \notin Range(d) /\ queue_tail' = e /\ queue_head' = (IF queue_head = 0 THEN e ELSE queue_head)
      /\ queue_next' = [x \in QueueEntries |-> IF x = e THEN 0 ELSE IF x = queue_tail THEN e ELSE queue_next[x]]
      /\ queue_entries' = queue_entries + 1 /\ queue_data' = Append(d, e)
  BY QueueLibrary DEF Queue!queue_push_tail, Queue!Free
<1>2. /\ n \in Nat /\ DOMAIN d = 1..n /\ (\A i \in 1..n : d[i] \in QueueEntries /\ d[i] # e)
      /\ \A i, j \in 1..n : d[i] = d[j] => i = j
  BY <1>1, QueuePlaces
<1>3. d \in Seq(QueueEntries) /\ IsInjective(d) /\ Linked(queue_head, queue_tail, queue_next, d) /\ queue_entries = n
      /\ queue_next \in [QueueEntries -> 0..MaxEntries]
  BY DEF QueueInv
<1>4. /\ queue_head = (IF n = 0 THEN 0 ELSE d[1]) /\ queue_tail = (IF n = 0 THEN 0 ELSE d[n])
  BY <1>3 DEF Linked
<1>5. /\ queue_data' \in Seq(QueueEntries) /\ Len(queue_data') = n + 1
      /\ queue_data'[n + 1] = e /\ \A i \in 1..n : queue_data'[i] = d[i]
  BY <1>1, <1>3, AppendProperties
<1> HIDE DEF d, n
<1>6. \A i \in 1..n + 1 : queue_data'[i] = IF i <= n THEN d[i] ELSE IF i = n + 1 THEN e ELSE d[i - 1]
  <2>1. \A i \in 1..n + 1 : (i <= n => i \in 1..n) /\ (~(i <= n) => i = n + 1)
    BY <1>2
  <2>2. QED
    BY <1>5, <2>1
<1>7. queue_head' = IF n = 0 THEN e ELSE queue_head
  <2>1. n # 0 => d[1] \in QueueEntries
    BY <1>2
  <2>2. QED
    BY <1>1, <1>4, <2>1, QueueLibrary
<1>8. \A i \in 1..n : queue_next'[d[i]] = IF i = n THEN e ELSE queue_next[d[i]]
  <2> SUFFICES ASSUME NEW i \in 1..n PROVE queue_next'[d[i]] = IF i = n THEN e ELSE queue_next[d[i]]
    OBVIOUS
  <2>1. n # 0 /\ n \in 1..n
    BY <1>2
  <2>2. d[i] = queue_tail <=> i = n
    BY <1>2, <1>4, <2>1
  <2>3. QED
    BY <1>1, <1>2, <2>2
<1>9. queue_next'[e] = 0 /\ queue_next' \in [QueueEntries -> 0..MaxEntries]
  BY <1>1, <1>3, QueueLibrary
<1>10. n \in 0..n
  BY <1>2
<1>11. Linked(queue_head', queue_tail', queue_next', queue_data') /\ IsInjective(queue_data')
  <2>1. LinksIn(d, e, n, queue_data', queue_head, queue_tail, queue_next, queue_head', queue_tail', queue_next')
    BY <1>1, <1>3, <1>5, <1>6, <1>7, <1>8, <1>9, <1>10 DEF n, LinksIn
  <2>2. QED
    BY <1>3, <1>5, <2>1, LinkedIn
<1>12. QED
  BY <1>1, <1>3, <1>5, <1>9, <1>11 DEF QueueInv

\* queue_push_head
LEMMA QueuePushHead ==
    ASSUME QueueInv, NEW e \in QueueEntries, Queue!queue_push_head(e)
    PROVE  QueueInv'
<1> DEFINE d == queue_data
           n == Len(d)
           u == <<e>>
<1>1. /\ e \notin Range(d) /\ queue_head' = e /\ queue_tail' = (IF queue_tail = 0 THEN e ELSE queue_tail)
      /\ queue_next' = [queue_next EXCEPT ![e] = queue_head]
      /\ queue_entries' = queue_entries + 1 /\ queue_data' = u \o d
  BY QueueLibrary DEF Queue!queue_push_head, Queue!Free
<1>2. /\ n \in Nat /\ DOMAIN d = 1..n /\ (\A i \in 1..n : d[i] \in QueueEntries /\ d[i] # e)
  BY <1>1, QueuePlaces
<1>3. d \in Seq(QueueEntries) /\ IsInjective(d) /\ Linked(queue_head, queue_tail, queue_next, d) /\ queue_entries = n
      /\ queue_next \in [QueueEntries -> 0..MaxEntries]
  BY DEF QueueInv
<1>4. /\ queue_head = (IF n = 0 THEN 0 ELSE d[1]) /\ queue_tail = (IF n = 0 THEN 0 ELSE d[n])
  BY <1>3 DEF Linked
<1>5. u \in Seq(QueueEntries) /\ Len(u) = 1 /\ u[1] = e
  OBVIOUS
<1> HIDE DEF d, n, u
<1>6. /\ u \o d \in Seq(QueueEntries) /\ Len(u \o d) = Len(u) + Len(d)
      /\ \A i \in 1..Len(u) + Len(d) : (u \o d)[i] = IF i <= Len(u) THEN u[i] ELSE d[i - Len(u)]
  BY <1>3, <1>5, ConcatProperties
<1>7. 1 + n = n + 1 /\ 0 + 1 = 1 /\ \A i \in 1..n + 1 : ~(i <= 0) /\ (i <= 1 <=> i = 1)
  BY <1>2
<1>8. /\ queue_data' \in Seq(QueueEntries) /\ Len(queue_data') = n + 1
      /\ \A i \in 1..n + 1 : queue_data'[i] = IF i <= 1 THEN u[i] ELSE d[i - 1]
  BY <1>1, <1>5, <1>6, <1>7 DEF n
<1>9. \A i \in 1..n + 1 : queue_data'[i] = IF i <= 0 THEN d[i] ELSE IF i = 0 + 1 THEN e ELSE d[i - 1]
  BY <1>5, <1>7, <1>8
<1>10. queue_tail' = IF 0 = n THEN e ELSE queue_tail
  <2>1. n # 0 => d[n] \in QueueEntries
    BY <1>2
  <2>2. QED
    BY <1>1, <1>4, <2>1, QueueLibrary
<1>11. \A i \in 1..n : queue_next'[d[i]] = IF i = 0 THEN e ELSE queue_next[d[i]]
  BY <1>1, <1>2, <1>3
<1>12. queue_next'[e] = (IF 0 = n THEN 0 ELSE d[0 + 1]) /\ queue_next' \in [QueueEntries -> 0..MaxEntries]
  <2>1. queue_head \in 0..MaxEntries
    BY <1>2, <1>4, QueueLibrary
  <2>2. QED
    BY <1>1, <1>3, <1>4, <1>7, <2>1
<1>13. 0 \in 0..n
  BY <1>2
<1>14. Linked(queue_head', queue_tail', queue_next', queue_data') /\ IsInjective(queue_data')
  <2>1. LinksIn(d, e, 0, queue_data', queue_head, queue_tail, queue_next, queue_head', queue_tail', queue_next')
    BY <1>1, <1>3, <1>8, <1>9, <1>10, <1>11, <1>12, <1>13 DEF n, LinksIn
  <2>2. QED
    BY <1>3, <1>8, <2>1, LinkedIn
<1>15. QED
  BY <1>1, <1>3, <1>8, <1>12, <1>14 DEF QueueInv

\* queue_push_after
LEMMA QueuePushAfter ==
    ASSUME QueueInv, NEW entry \in QueueEntries, NEW e \in QueueEntries, Queue!queue_push_after(entry, e)
    PROVE  QueueInv'
<1> DEFINE d == queue_data
           n == Len(d)
           k == CHOOSE i \in DOMAIN d : d[i] = entry
<1>1. /\ e \notin Range(d) /\ entry \in Range(d) /\ queue_head' = queue_head
      /\ queue_tail' = (IF queue_next[entry] = 0 THEN e ELSE queue_tail)
      /\ queue_next' = [queue_next EXCEPT ![e] = queue_next[entry], ![entry] = e]
      /\ queue_entries' = queue_entries + 1 /\ queue_data' = Queue!InsertAt(d, 1 + k, e)
  BY QueueLibrary DEF Queue!queue_push_after, Queue!Free
<1>2. /\ n \in Nat /\ DOMAIN d = 1..n /\ (\A i \in 1..n : d[i] \in QueueEntries /\ d[i] # e)
      /\ \A i, j \in 1..n : d[i] = d[j] => i = j
  BY <1>1, QueuePlaces
<1>3. d \in Seq(QueueEntries) /\ IsInjective(d) /\ Linked(queue_head, queue_tail, queue_next, d) /\ queue_entries = n
      /\ queue_next \in [QueueEntries -> 0..MaxEntries]
  BY DEF QueueInv
<1>4. k \in 1..n /\ d[k] = entry
  <2>1. \E i \in 1..n : d[i] = entry
    BY <1>1, QueuePlaces
  <2>2. QED
    BY <1>2, <2>1
<1> HIDE DEF d, n, k
<1>5. queue_data' = Inserted(d, k, e)
  <2>1. (1 + k) - 1 = k /\ 1 + k = k + 1
    BY <1>2, <1>4
  <2>2. queue_data' = (SubSeq(d, 1, (1 + k) - 1) \o <<e>>) \o SubSeq(d, 1 + k, Len(d))
    BY <1>1 DEF Queue!InsertAt
  <2>3. QED
    BY <2>1, <2>2 DEF Inserted
<1>6. k \in 0..n
  BY <1>2, <1>4
<1>7. /\ queue_data' \in Seq(QueueEntries) /\ Len(queue_data') = n + 1
      /\ \A i \in 1..n + 1 : queue_data'[i] = IF i <= k THEN d[i] ELSE IF i = k + 1 THEN e ELSE d[i - 1]
  <2>1. /\ Inserted(d, k, e) \in Seq(QueueEntries) /\ Len(Inserted(d, k, e)) = Len(d) + 1
        /\ \A i \in 1..Len(d) + 1 : Inserted(d, k, e)[i] = IF i <= k THEN d[i] ELSE IF i = k + 1 THEN e ELSE d[i - 1]
    <3>1. d \in Seq(QueueEntries) /\ e \in QueueEntries /\ k \in 0..Len(d)
      BY <1>2, <1>3, <1>6 DEF n
    <3>2. HasInserted(d, k, e, QueueEntries)
      BY <3>1, InsertedAt
    <3>3. QED
      BY <3>2 DEF HasInserted
  <2>2. QED
    BY <1>5, <2>1 DEF n
<1>8. queue_next[entry] = IF k = n THEN 0 ELSE d[k + 1]
  BY <1>3, <1>4 DEF Linked, n
<1>9. queue_next[entry] = 0 <=> k = n
  <2>1. k # n => k + 1 \in 1..n
    BY <1>2, <1>4
  <2>2. k # n => d[k + 1] \in QueueEntries
    BY <2>1, <1>2
  <2>3. QED
    BY <1>8, <2>2, QueueLibrary
<1>10. e # entry /\ queue_next[entry] \in 0..MaxEntries
  BY <1>2, <1>3, <1>4
<1>11. /\ queue_next' \in [QueueEntries -> 0..MaxEntries] /\ queue_next'[e] = queue_next[entry] /\ queue_next'[entry] = e
       /\ \A x \in QueueEntries : x # e /\ x # entry => queue_next'[x] = queue_next[x]
  BY <1>1, <1>3, <1>10, QueueLibrary
<1>12. \A i \in 1..n : queue_next'[d[i]] = IF i = k THEN e ELSE queue_next[d[i]]
  BY <1>2, <1>4, <1>11
<1>13. k # 0
  BY <1>2, <1>4
<1>14. Linked(queue_head', queue_tail', queue_next', queue_data') /\ IsInjective(queue_data')
  <2>1. LinksIn(d, e, k, queue_data', queue_head, queue_tail, queue_next, queue_head', queue_tail', queue_next')
    BY <1>1, <1>3, <1>6, <1>7, <1>8, <1>9, <1>11, <1>12, <1>13 DEF n, LinksIn
  <2>2. QED
    BY <1>3, <1>7, <2>1, LinkedIn
<1>15. QED
  BY <1>1, <1>3, <1>7, <1>11, <1>14 DEF QueueInv

\* queue_pop_head
LEMMA QueuePopHead ==
    ASSUME QueueInv, Queue!queue_pop_head
    PROVE  QueueInv'
<1> DEFINE d == queue_data
           n == Len(d)
<1>1. /\ queue_head # 0 /\ queue_head' = queue_next[queue_head]
      /\ queue_tail' = (IF queue_next[queue_head] = 0 THEN 0 ELSE queue_tail)
      /\ queue_entries' = queue_entries - 1 /\ queue_data' = Tail(d) /\ queue_next' = queue_next
  BY DEF Queue!queue_pop_head
<1>2. n \in Nat /\ DOMAIN d = 1..n /\ (\A i \in 1..n : d[i] \in QueueEntries) /\ (d = <<>> <=> n = 0)
  BY QueuePlaces
<1>3. d \in Seq(QueueEntries) /\ IsInjective(d) /\ Linked(queue_head, queue_tail, queue_next, d) /\ queue_entries = n
      /\ queue_next \in [QueueEntries -> 0..MaxEntries]
  BY DEF QueueInv
<1>4. n # 0 /\ queue_head = d[1] /\ \A i \in 1..n : queue_next[d[i]] = IF i = n THEN 0 ELSE d[i + 1]
  BY <1>1, <1>3 DEF Linked
<1>5. /\ queue_data' \in Seq(QueueEntries) /\ Len(queue_data') = n - 1
      /\ \A i \in 1..Len(queue_data') : queue_data'[i] = d[i + 1]
  BY <1>1, <1>2, <1>3, <1>4, HeadTailProperties
<1> HIDE DEF d, n
<1>6. \A i \in 1..n - 1 : queue_data'[i] = IF i < 1 THEN d[i] ELSE d[i + 1]
  <2>1. \A i \in 1..n - 1 : ~(i < 1)
    BY <1>2
  <2>2. QED
    BY <1>5, <2>1
<1>7. 1 \in 1..n
  BY <1>2, <1>4
<1>8. queue_next[d[1]] = 0 <=> 1 = n
  <2>1. 1 # n => 1 + 1 \in 1..n
    BY <1>2, <1>4
  <2>2. QED
    BY <1>2, <1>4, <1>7, <2>1, QueueLibrary
<1>9. \A i \in 1..n : i # 1 - 1
  BY <1>2
<1>10. Linked(queue_head', queue_tail', queue_next', queue_data') /\ IsInjective(queue_data')
  <2>1. LinksOut(d, 1, queue_data', queue_head, queue_tail, queue_next, queue_head', queue_tail', queue_next')
    BY <1>1, <1>3, <1>4, <1>5, <1>6, <1>7, <1>8, <1>9 DEF n, LinksOut
  <2>2. QED
    BY <1>3, <1>5, <2>1, LinkedOut
<1>11. QED
  BY <1>1, <1>3, <1>5, <1>10 DEF QueueInv

\* The entry before the k-th.
LEMMA QueuePrev ==
    ASSUME QueueInv, NEW k \in 1..Len(queue_data)
    PROVE  /\ Queue!Prev(queue_data[k]) = IF k = 1 THEN 0 ELSE queue_data[k - 1]
           /\ queue_next[queue_data[k]] = 0 <=> k = Len(queue_data)
           /\ k # 1 => k - 1 \in 1..Len(queue_data)
<1> DEFINE d == queue_data
           n == Len(d)
           e == d[k]
<1>2. /\ n \in Nat /\ (\A i \in 1..n : d[i] \in QueueEntries /\ d[i] \in Range(d))
      /\ (\A i, j \in 1..n : d[i] = d[j] => i = j)
      /\ \A x \in Range(d) : \E i \in 1..n : d[i] = x
  BY QueuePlaces
<1>3. /\ queue_head = (IF n = 0 THEN 0 ELSE d[1])
      /\ \A i \in 1..n : queue_next[d[i]] = IF i = n THEN 0 ELSE d[i + 1]
  BY DEF QueueInv, Linked
<1>4. Queue!Prev(e) = IF queue_head = e THEN 0 ELSE CHOOSE p \in Range(d) : queue_next[p] = e
  <2>1. Queue!Range(d) = Range(d)
    BY QueueLibrary
  <2>2. Queue!Prev(e) = IF queue_head = e THEN 0 ELSE CHOOSE p \in Queue!Range(d) : queue_next[p] = e
    BY DEF Queue!Prev
  <2>3. QED
    BY <2>1, <2>2, Zenon
<1>0. k \in 1..n
  OBVIOUS
<1> HIDE DEF d, n
<1>5. n # 0 /\ 1 \in 1..n
  BY <1>0, <1>2
<1>6. queue_head = e <=> k = 1
  BY <1>0, <1>2, <1>3, <1>5
<1>7. e \in QueueEntries
  BY <1>0, <1>2
<1>8. ASSUME k # 1 PROVE (CHOOSE p \in Range(d) : queue_next[p] = e) = d[k - 1] /\ k - 1 \in 1..n
  <2>1. k - 1 \in 1..n /\ k - 1 # n /\ (k - 1) + 1 = k
    BY <1>0, <1>2, <1>8
  <2>2. queue_next[d[k - 1]] = e /\ d[k - 1] \in Range(d)
    BY <1>2, <1>3, <2>1
  <2>3. ASSUME NEW p \in Range(d), queue_next[p] = e PROVE p = d[k - 1]
    <3>1. PICK i \in 1..n : d[i] = p
      BY <1>2
    <3>2. i # n /\ d[i + 1] = d[k]
      BY <1>3, <1>7, <2>3, <3>1, QueueLibrary
    <3>3. i + 1 \in 1..n
      BY <1>2, <3>2
    <3>4. i + 1 = k
      BY <1>0, <1>2, <3>2, <3>3
    <3>5. i = k - 1
      BY <1>2, <3>4
    <3>6. QED
      BY <3>1, <3>5
  <2>4. QED
    BY <2>1, <2>2, <2>3
<1>9. k # n => k + 1 \in 1..n
  BY <1>0, <1>2
<1>10. queue_next[e] = 0 <=> k = n
  BY <1>0, <1>2, <1>3, <1>9, QueueLibrary
<1>11. QED
  BY <1>4, <1>6, <1>8, <1>10 DEF d, n

\* queue_remove
LEMMA QueueRemove ==
    ASSUME QueueInv, NEW e \in QueueEntries, Queue!queue_remove(e)
    PROVE  QueueInv'
<1> DEFINE d == queue_data
           n == Len(d)
           p == Queue!Prev(e)
<1>1. /\ e \in Range(d) /\ queue_head' = (IF p = 0 THEN queue_next[e] ELSE queue_head)
      /\ queue_next' = (IF p = 0 THEN queue_next ELSE [queue_next EXCEPT ![p] = queue_next[e]])
      /\ queue_tail' = (IF queue_next[e] = 0 THEN p ELSE queue_tail)
      /\ queue_entries' = queue_entries - 1 /\ queue_data' = Filter(d, QueueEntries \ {e})
  BY QueueLibrary DEF Queue!queue_remove, Queue!Free, Queue!NewTail
<1>2. /\ n \in Nat /\ DOMAIN d = 1..n /\ (\A i \in 1..n : d[i] \in QueueEntries)
      /\ \A i, j \in 1..n : d[i] = d[j] => i = j
  BY QueuePlaces
<1>3. d \in Seq(QueueEntries) /\ IsInjective(d) /\ Linked(queue_head, queue_tail, queue_next, d) /\ queue_entries = n
      /\ queue_next \in [QueueEntries -> 0..MaxEntries]
  BY DEF QueueInv
<1>4. PICK k \in 1..n : d[k] = e
  BY <1>1, QueuePlaces
<1>5. /\ p = (IF k = 1 THEN 0 ELSE d[k - 1]) /\ (queue_next[e] = 0 <=> k = n) /\ (k # 1 => k - 1 \in 1..n)
  BY <1>4, QueuePrev
<1> HIDE DEF d, n, p
<1>6. k # 1 => p \in QueueEntries /\ p # 0
  BY <1>2, <1>5, QueueLibrary
<1>7. /\ queue_data' \in Seq(QueueEntries) /\ Len(queue_data') = n - 1
      /\ \A i \in 1..n - 1 : queue_data'[i] = IF i < k THEN d[i] ELSE d[i + 1]
  <2> DEFINE S == QueueEntries \ {e}
  <2>1. d[k] \notin S /\ \A j \in 1..n : j # k => d[j] \in S
    BY <1>2, <1>4
  <2> HIDE DEF S
  <2>2. /\ Filter(d, S) \in Seq(QueueEntries) /\ Len(Filter(d, S)) = n - 1
        /\ \A i \in 1..n - 1 : Filter(d, S)[i] = IF i < k THEN d[i] ELSE d[i + 1]
    <3>1. \A j \in 1..Len(d) : d[j] \notin S /\ (\A i \in 1..Len(d) : i # j => d[i] \in S)
             => /\ Filter(d, S) \in Seq(QueueEntries) /\ Len(Filter(d, S)) = Len(d) - 1
                /\ \A i \in 1..Len(d) - 1 : Filter(d, S)[i] = IF i < j THEN d[i] ELSE d[i + 1]
      BY <1>3, FilterWithout
    <3>2. k \in 1..Len(d) /\ d[k] \notin S /\ \A i \in 1..Len(d) : i # k => d[i] \in S
      BY <2>1 DEF n
    <3>3. QED
      BY <3>1, <3>2 DEF n
  <2>3. QED
    BY <1>1, <2>2 DEF S
<1>8. queue_next' \in [QueueEntries -> 0..MaxEntries]
  BY <1>1, <1>3, <1>6, <1>5
<1>9. \A i \in 1..n : i # k => queue_next'[d[i]] = IF i = k - 1 THEN queue_next[d[k]] ELSE queue_next[d[i]]
  <2> SUFFICES ASSUME NEW i \in 1..n, i # k PROVE queue_next'[d[i]] = IF i = k - 1 THEN queue_next[d[k]] ELSE queue_next[d[i]]
    OBVIOUS
  <2>1. CASE k = 1
    <3>1. i # k - 1
      BY <2>1, <1>2
    <3>2. QED
      BY <2>1, <3>1, <1>1, <1>5
  <2>2. CASE k # 1
    <3>1. queue_next' = [queue_next EXCEPT ![p] = queue_next[e]] /\ p = d[k - 1] /\ k - 1 \in 1..n
      BY <2>2, <1>1, <1>5, <1>6
    <3>2. d[i] = p <=> i = k - 1
      BY <3>1, <1>2
    <3>3. QED
      BY <3>1, <3>2, <1>2, <1>3, <1>4
  <2>3. QED
    BY <2>1, <2>2
<1>10. Linked(queue_head', queue_tail', queue_next', queue_data') /\ IsInjective(queue_data')
  <2>1. LinksOut(d, k, queue_data', queue_head, queue_tail, queue_next, queue_head', queue_tail', queue_next')
    BY <1>1, <1>3, <1>4, <1>5, <1>6, <1>7, <1>9 DEF n, LinksOut
  <2>2. QED
    BY <1>3, <1>7, <2>1, LinkedOut
<1>11. QED
  BY <1>1, <1>3, <1>7, <1>8, <1>10 DEF QueueInv

\* Every step keeps the invariant.
LEMMA QueueNext ==
    ASSUME QueueInv, Queue!Next \/ UNCHANGED queueVars
    PROVE  QueueInv'
<1>1. CASE UNCHANGED queueVars
  BY <1>1 DEF queueVars, QueueInv, Linked
<1>2. CASE Queue!queue_remove_all
  <2>1. queue_head' = 0 /\ queue_tail' = 0 /\ queue_entries' = 0 /\ queue_data' = <<>> /\ queue_next' = queue_next
    BY <1>2 DEF Queue!queue_remove_all
  <2>2. <<>> \in Seq(QueueEntries) /\ IsInjective(<<>>) /\ Len(<<>>) = 0
    BY DEF IsInjective
  <2>3. QED
    BY <2>1, <2>2 DEF QueueInv, Linked
<1>3. QED
  BY <1>1, <1>2, QueueLibrary, QueuePushTail, QueuePushHead, QueuePushAfter, QueuePopHead, QueueRemove DEF Queue!Next

\* It holds at first.
LEMMA QueueStart == Queue!Init => QueueInv
<1>1. <<>> \in Seq(QueueEntries) /\ IsInjective(<<>>) /\ Len(<<>>) = 0
  BY DEF IsInjective
<1>2. QED
  BY <1>1, QueueLibrary DEF Queue!Init, QueueInv, Linked

\* The invariant says what the properties of PtrQueue say.
LEMMA QueueCorrect ==
    ASSUME QueueInv
    PROVE  Queue!TypeOK /\ Queue!ListWhole
<1> DEFINE d == queue_data
           n == Len(d)
<1>2. /\ n \in Nat /\ DOMAIN d = 1..n /\ (\A i \in 1..n : d[i] \in QueueEntries) /\ (d = <<>> <=> n = 0)
  BY QueuePlaces
<1>3. d \in Seq(QueueEntries) /\ IsInjective(d) /\ Linked(queue_head, queue_tail, queue_next, d) /\ queue_entries = n
  BY DEF QueueInv
<1>4. n <= MaxEntries
  <2>1. IsFiniteSet(Range(d)) /\ Cardinality(Range(d)) = n
    BY <1>3, InjectiveLength
  <2>2. Range(d) \subseteq 1..MaxEntries
    BY <1>3, HeadInRange DEF QueueEntries
  <2>3. IsFiniteSet(1..MaxEntries) /\ Cardinality(1..MaxEntries) = MaxEntries
    <3>1. IsFiniteSet(1..MaxEntries) /\ Cardinality(1..MaxEntries) = IF 1 > MaxEntries THEN 0 ELSE MaxEntries - 1 + 1
      BY QueueLibrary, FS_Interval
    <3>2. (IF 1 > MaxEntries THEN 0 ELSE MaxEntries - 1 + 1) = MaxEntries
      BY QueueLibrary
    <3>3. QED
      BY <3>1, <3>2
  <2>4. Cardinality(Range(d)) <= Cardinality(1..MaxEntries)
    BY <2>2, <2>3, FS_Subset
  <2>5. QED
    BY <2>1, <2>3, <2>4
<1>5. /\ queue_head = (IF n = 0 THEN 0 ELSE d[1]) /\ queue_tail = (IF n = 0 THEN 0 ELSE d[n])
      /\ \A i \in 1..n : queue_next[d[i]] = IF i = n THEN 0 ELSE d[i + 1]
  BY <1>3 DEF Linked
<1>6. Queue!ListWhole
  <2>1. n # 0 => Head(d) = d[1] /\ Queue!Last(d) = d[n]
    BY <1>2, <1>3 DEF Queue!Last
  <2>2. QED
    BY <1>2, <1>3, <1>5, <2>1 DEF Queue!ListWhole
<1> HIDE DEF d, n
<1>7. Queue!TypeOK
  <2>1. n # 0 => 1 \in 1..n /\ n \in 1..n
    BY <1>2
  <2>2. queue_head \in 0..MaxEntries /\ queue_tail \in 0..MaxEntries
    BY <1>2, <1>5, <2>1, QueueLibrary
  <2>3. n \in 0..MaxEntries
    BY <1>2, <1>4, QueueLibrary
  <2>4. QED
    BY <1>3, <2>2, <2>3 DEF Queue!TypeOK
<1>8. QED
  BY <1>6, <1>7

-----------------------------------------------------------------------------
(* Ringbuf *)

RingBytes == {"a", "b"}

\* The counters are in order, and the memory holds the data from out on.
RingInv ==
    /\ ring_size \in Nat \ {0} /\ ring_in \in 0..MaxIn /\ ring_out \in 0..ring_in
    /\ ring_in - ring_out <= ring_size
    /\ DOMAIN ring_mem = 0..ring_size - 1
    /\ ring_data \in Seq(RingBytes) /\ Len(ring_data) = ring_in - ring_out
    /\ \A k \in 1..ring_in - ring_out : ring_mem[(ring_out + k - 1) % ring_size] = ring_data[k]

\* The powers of two up to the n-th.
Doubles(G, n) == G = [k \in 0..n |-> IF k = 0 THEN 1 ELSE 2 * G[k - 1]]

\* There is such a function.
LEMMA DoublesExists == \A n \in Nat : \E G : Doubles(G, n)
<1> DEFINE P == {n \in Nat : \E G : Doubles(G, n)}
<1>1. 0 \in P
  <2> DEFINE G == [k \in 0..0 |-> 1]
  <2>1. Doubles(G, 0)
    BY DEF Doubles
  <2>2. QED
    BY <2>1
<1>2. ASSUME NEW n \in Nat, n \in P PROVE n + 1 \in P
  <2>1. PICK G : Doubles(G, n)
    BY <1>2
  <2> DEFINE H == [k \in 0..n + 1 |-> IF k = n + 1 THEN 2 * G[n] ELSE G[k]]
  <2>2. \A k \in 0..n : H[k] = G[k]
    OBVIOUS
  <2>3. \A k \in 0..n : G[k] = IF k = 0 THEN 1 ELSE 2 * G[k - 1]
    BY <2>1 DEF Doubles
  <2>4. ASSUME NEW k \in 0..n + 1 PROVE H[k] = IF k = 0 THEN 1 ELSE 2 * H[k - 1]
    <3>1. CASE k = n + 1
      <4>1. k # 0 /\ k - 1 = n /\ n \in 0..n
        BY <3>1
      <4>2. H[k - 1] = G[n]
        BY <4>1, <2>2
      <4>3. H[k] = 2 * G[n]
        BY <3>1
      <4> HIDE DEF H
      <4>4. QED
        BY <4>1, <4>2, <4>3
    <3>2. CASE k = 0
      BY <2>2, <2>3, <3>2
    <3>3. CASE k # n + 1 /\ k # 0
      <4>1. k \in 0..n /\ k - 1 \in 0..n
        BY <3>3
      <4>2. H[k] = G[k] /\ H[k - 1] = G[k - 1]
        BY <4>1, <2>2
      <4> HIDE DEF H
      <4>3. QED
        BY <4>1, <4>2, <3>3, <2>3
    <3>4. QED
      BY <3>1, <3>2, <3>3
  <2>5. H = [k \in 0..n + 1 |-> H[k]]
    OBVIOUS
  <2> HIDE DEF H
  <2>6. Doubles(H, n + 1)
    BY <2>4, <2>5 DEF Doubles
  <2>7. QED
    BY <2>6
<1>3. \A n \in Nat : n \in P
  <2> HIDE DEF P
  <2>1. QED
    BY <1>1, <1>2, NaturalsFromZero
<1>4. QED
  BY <1>3

\* The power of two that is asked for exists.
LEMMA RingSize ==
    ASSUME NEW u \in Nat \ {0, 1}
    PROVE  Ring!align_power2(u) \in Nat \ {0}
<1>1. PICK G : Doubles(G, u)
  BY DoublesExists
<1>2. G = [k \in 0..u |-> IF k = 0 THEN 1 ELSE 2 * G[k - 1]]
  BY <1>1 DEF Doubles
<1>3. \E H : /\ H = [k \in 0..u |-> IF k = 0 THEN 1 ELSE 2 * H[k - 1]]
             /\ Ring!align_power2(u) = CHOOSE p \in {H[k] : k \in 0..u} : p >= u /\ p < 2 * u
  BY <1>2, Zenon DEF Ring!align_power2
<1>4. PICK H : /\ H = [k \in 0..u |-> IF k = 0 THEN 1 ELSE 2 * H[k - 1]]
               /\ Ring!align_power2(u) = CHOOSE p \in {H[k] : k \in 0..u} : p >= u /\ p < 2 * u
  BY <1>3
<1>5. \A k \in 0..u : H[k] = IF k = 0 THEN 1 ELSE 2 * H[k - 1]
  BY <1>4
<1> DEFINE P == {n \in Nat : n <= u => H[n] \in Nat /\ H[n] > n}
<1>6. \A n \in Nat : n \in P
  <2>1. 0 \in P
    <3>1. 0 \in 0..u
      OBVIOUS
    <3>2. H[0] = 1
      BY <1>5, <3>1
    <3>3. QED
      BY <3>2
  <2>2. ASSUME NEW n \in Nat, n \in P PROVE n + 1 \in P
    <3> SUFFICES ASSUME n + 1 <= u PROVE H[n + 1] \in Nat /\ H[n + 1] > n + 1
      OBVIOUS
    <3>1. n + 1 \in 0..u /\ n + 1 # 0 /\ (n + 1) - 1 = n /\ n <= u
      OBVIOUS
    <3>2. H[n + 1] = 2 * H[n] /\ H[n] \in Nat /\ H[n] > n
      BY <1>5, <2>2, <3>1
    <3>3. QED
      BY <3>2
  <2> HIDE DEF P
  <2>3. QED
    BY <2>1, <2>2, NaturalsFromZero
<1>7. \A n \in 0..u : H[n] \in Nat /\ H[n] > n
  BY <1>6
<1> DEFINE B == {n \in 0..u : H[n] >= u}
<1>8. B \subseteq Nat /\ B # {}
  <2>1. u \in 0..u /\ u \in Nat
    OBVIOUS
  <2>2. H[u] >= u
    BY <1>7, <2>1
  <2>3. QED
    BY <2>1, <2>2
<1>9. PICK x \in B : \A y \in B : x <= y
  <2> HIDE DEF B
  <2>1. QED
    BY <1>8, LeastNumber
<1>10. x # 0
  BY <1>5
<1>11. x - 1 \in 0..u /\ ~(x <= x - 1) /\ x \in 0..u
  BY <1>10
<1>12. H[x - 1] < u /\ H[x - 1] \in Nat
  BY <1>7, <1>9, <1>11
<1>13. H[x] = 2 * H[x - 1]
  BY <1>5, <1>10, <1>11
<1>14. H[x] >= u /\ H[x] < 2 * u
  BY <1>12, <1>13
<1>15. \E p \in {H[k] : k \in 0..u} : p >= u /\ p < 2 * u
  BY <1>11, <1>14
<1> DEFINE c == CHOOSE p \in {H[k] : k \in 0..u} : p >= u /\ p < 2 * u
<1>16. c \in {H[k] : k \in 0..u} /\ c >= u
  BY <1>15
<1> HIDE DEF c
<1>17. c \in Nat \ {0}
  BY <1>7, <1>16
<1>18. Ring!align_power2(u) = c
  BY <1>4 DEF c
<1>19. QED
  BY <1>17, <1>18

\* Quotient and remainder.
LEMMA Division ==
    ASSUME NEW w \in Nat \ {0}, NEW a \in Int
    PROVE  a \div w \in Int /\ a % w \in 0..w - 1 /\ a = w * (a \div w) + (a % w)
<1>0. w \in Nat /\ w > 0
  OBVIOUS
<1>1. a \div w \in Int
  BY <1>0
<1>2. a % w \in 0..w - 1
  BY <1>0
<1>3. a = w * (a \div w) + (a % w)
  BY <1>0
<1>4. QED
  BY <1>1, <1>2, <1>3

\* A number has one remainder.
LEMMA RemainderUnique ==
    ASSUME NEW w \in Nat \ {0}, NEW q \in Int, NEW p \in Int,
           NEW r \in 0..w - 1, NEW s \in 0..w - 1, w * q + r = w * p + s
    PROVE  r = s
<1>1. ASSUME q > p PROVE FALSE
  <2>1. w * (q - p) >= w
    BY <1>1
  <2>2. QED
    BY <2>1
<1>2. ASSUME p > q PROVE FALSE
  <2>1. w * (p - q) >= w
    BY <1>2
  <2>2. QED
    BY <2>1
<1>3. q = p
  BY <1>1, <1>2
<1>4. QED
  BY <1>3

\* Positions go on up to the end of the memory, and from its start on.
LEMMA RingPlace ==
    ASSUME NEW w \in Nat \ {0}, NEW a \in Nat, NEW j \in 0..w - 1
    PROVE  (a + j) % w = IF (a % w) + j < w THEN (a % w) + j ELSE (a % w) + j - w
<1> DEFINE q == a \div w
           r == a % w
           p == (a + j) \div w
           s == (a + j) % w
<1>1. q \in Int /\ r \in 0..w - 1 /\ a = w * q + r
  BY Division
<1>2. p \in Int /\ s \in 0..w - 1 /\ a + j = w * p + s
  <2>1. a + j \in Int
    OBVIOUS
  <2>2. QED
    BY <2>1, Division
<1> HIDE DEF q, r, p, s
<1>3. CASE r + j < w
  <2>1. w * q + (r + j) = w * p + s
    BY <1>1, <1>2
  <2>2. r + j \in 0..w - 1
    BY <1>1, <1>3
  <2>3. r + j = s
    BY <1>1, <1>2, <2>1, <2>2, RemainderUnique
  <2>4. QED
    BY <1>3, <2>3 DEF r, s
<1>4. CASE ~(r + j < w)
  <2>1. w * (q + 1) + (r + j - w) = w * p + s
    <3>1. w * (q + 1) = w * q + w
      BY <1>1
    <3>2. QED
      BY <1>1, <1>2, <3>1
  <2>2. r + j - w \in 0..w - 1 /\ q + 1 \in Int
    BY <1>1, <1>4
  <2>3. r + j - w = s
    BY <1>1, <1>2, <2>1, <2>2, RemainderUnique
  <2>4. QED
    BY <1>4, <2>3 DEF r, s
<1>5. QED
  BY <1>3, <1>4

\* What is put in.
LEMMA RingStrings ==
    ASSUME NEW bytes \in Ring!Strings
    PROVE  bytes \in Seq(RingBytes) /\ Len(bytes) \in 1..3
<1>1. PICK n \in 1..3 : bytes \in [1..n -> RingBytes]
  BY DEF Ring!Strings, RingBytes
<1>2. bytes \in Seq(RingBytes) /\ Len(bytes) = n
  BY <1>1
<1>3. QED
  BY <1>1, <1>2

\* Bytes are put in: they are where they will be looked for, and those before are kept.
LEMMA RingPut ==
    ASSUME RingInv, NEW bytes \in Ring!Strings, Ring!Put(bytes),
           ring_in + Len(bytes) <= MaxIn, Len(bytes) <= Ring!ringbuf_avail
    PROVE  RingInv'
<1> DEFINE L == Len(bytes)
           s == ring_size
           offset == ring_in % s
           end == IF L < s - offset THEN L ELSE s - offset
           n == ring_in - ring_out
<1>1. bytes \in Seq(RingBytes) /\ L \in 1..3
  BY RingStrings
<1>2. /\ s \in Nat \ {0} /\ ring_in \in Nat /\ ring_out \in Nat /\ ring_out <= ring_in /\ ring_in <= MaxIn /\ n <= s /\ n \in Nat
      /\ MaxIn \in Nat
  BY ConstantsAssumption DEF RingInv, Ring!ConstantsOK
<1>3. /\ ring_mem' = [i \in 0..s - 1 |->
                        IF i >= offset /\ i < offset + end THEN bytes[i - offset + 1]
                        ELSE IF i < L - end THEN bytes[end + i + 1] ELSE ring_mem[i]]
      /\ ring_in' = ring_in + L /\ ring_data' = ring_data \o bytes /\ ring_size' = s /\ ring_out' = ring_out
  BY DEF Ring!Put, Ring!Position, RingInv
<1>4. L + n <= s /\ ring_in + L <= MaxIn
  <2>1. L <= s - ring_in + ring_out
    BY DEF Ring!ringbuf_avail
  <2> HIDE DEF L, s
  <2>2. QED
    BY <1>1, <1>2, <2>1 DEF L
<1>5. offset \in 0..s - 1
  BY <1>2, Division
<1>6. ring_data \in Seq(RingBytes) /\ Len(ring_data) = n /\ DOMAIN ring_mem = 0..s - 1
      /\ \A k \in 1..n : ring_mem[(ring_out + k - 1) % s] = ring_data[k]
  BY DEF RingInv
<1>7. /\ ring_data' \in Seq(RingBytes) /\ Len(ring_data') = n + L
      /\ \A k \in 1..n + L : ring_data'[k] = IF k <= n THEN ring_data[k] ELSE bytes[k - n]
  <2>1. /\ ring_data \o bytes \in Seq(RingBytes) /\ Len(ring_data \o bytes) = Len(ring_data) + L
        /\ \A k \in 1..Len(ring_data) + L : (ring_data \o bytes)[k] = IF k <= Len(ring_data) THEN ring_data[k] ELSE bytes[k - Len(ring_data)]
    BY <1>1, <1>6, ConcatProperties
  <2> HIDE DEF n, L
  <2>2. QED
    BY <1>3, <1>6, <2>1
<1>8. ring_in' - ring_out' = n + L
  <2> HIDE DEF L
  <2>1. QED
    BY <1>1, <1>2, <1>3
<1> HIDE DEF L, s, offset
<1>9. ASSUME NEW k \in 1..n + L
      PROVE  ring_mem'[(ring_out + k - 1) % s] = ring_data'[k]
  <2>1. CASE k <= n
    <3> DEFINE a == ring_out + k - 1
               p == a % s
               m == ring_in - a
    <3>1. a \in Nat /\ m \in 1..n /\ m \in 0..s - 1 /\ a + m = ring_in /\ k \in 1..n /\ m + L <= s
      BY <2>1, <1>1, <1>2, <1>4
    <3> HIDE DEF a, m
    <3>2. p \in 0..s - 1
      <4>1. a \in Int
        BY <3>1
      <4>2. QED
        BY <1>2, <4>1, Division
    <3>3. (a + m) % s = IF p + m < s THEN p + m ELSE p + m - s
      BY <1>2, <3>1, RingPlace
    <3>4. offset = IF p + m < s THEN p + m ELSE p + m - s
      BY <3>1, <3>3 DEF offset
    <3>5. ring_mem[p] = ring_data[k]
      <4>1. ring_mem[(ring_out + k - 1) % s] = ring_data[k]
        BY <1>6, <3>1
      <4>2. QED
        BY <4>1 DEF a
    <3> HIDE DEF p
    <3>6. ~(p >= offset /\ p < offset + end) /\ ~(p < L - end)
      BY <1>1, <1>2, <1>5, <3>1, <3>2, <3>4
    <3>7. ring_mem'[p] = ring_mem[p]
      BY <1>3, <3>2, <3>6
    <3>8. ring_data'[k] = ring_data[k]
      BY <1>7, <2>1
    <3>9. QED
      BY <3>5, <3>7, <3>8 DEF p, a
  <2>2. CASE ~(k <= n)
    <3> DEFINE j == k - n
               p == (ring_in + (j - 1)) % s
    <3>1. j \in 1..L /\ ring_out + k - 1 = ring_in + (j - 1) /\ j - 1 \in 0..s - 1
      BY <2>2, <1>1, <1>2, <1>4
    <3>2. p = IF offset + (j - 1) < s THEN offset + (j - 1) ELSE offset + (j - 1) - s
      BY <1>2, <3>1, RingPlace DEF offset
    <3>3. p \in 0..s - 1
      BY <1>2, <1>5, <3>1, <3>2
    <3>4. ring_data'[k] = bytes[j]
      BY <1>7, <2>2
    <3> HIDE DEF p, j
    <3>5. CASE offset + (j - 1) < s
      <4>1. p >= offset /\ p < offset + end /\ p - offset + 1 = j
        BY <1>1, <1>2, <1>5, <3>1, <3>2, <3>5
      <4>2. QED
        BY <1>3, <3>1, <3>3, <3>4, <4>1 DEF p
    <3>6. CASE ~(offset + (j - 1) < s)
      <4>1. ~(p >= offset) /\ p < L - end /\ end + p + 1 = j
        BY <1>1, <1>2, <1>4, <1>5, <3>1, <3>2, <3>6
      <4>2. QED
        BY <1>3, <3>1, <3>3, <3>4, <4>1 DEF p
    <3>7. QED
      BY <3>5, <3>6
  <2>3. QED
    BY <2>1, <2>2
<1>10. DOMAIN ring_mem' = 0..s - 1
  BY <1>3
<1>11. ring_in + L \in 0..MaxIn /\ ring_out \in 0..ring_in + L /\ n + L <= s
  BY <1>1, <1>2, <1>4
<1> HIDE DEF n
<1>12. QED
  BY <1>2, <1>3, <1>7, <1>8, <1>9, <1>10, <1>11 DEF RingInv, s

\* Bytes are taken out.
LEMMA RingTake ==
    ASSUME RingInv, NEW n \in 1..ring_in - ring_out, Ring!Take(n)
    PROVE  RingInv'
<1> DEFINE L == ring_in - ring_out
           s == ring_size
           d == ring_data
<1>1. /\ s \in Nat \ {0} /\ ring_in \in Nat /\ ring_out \in Nat /\ ring_out <= ring_in /\ ring_in <= MaxIn /\ L <= s /\ L \in Nat
      /\ MaxIn \in Nat
  BY ConstantsAssumption DEF RingInv, Ring!ConstantsOK
<1>2. n \in 1..L
  OBVIOUS
<1>3. /\ ring_in' = (IF ring_out + n = ring_in THEN 0 ELSE ring_in)
      /\ ring_out' = (IF ring_out + n = ring_in THEN 0 ELSE ring_out + n)
      /\ ring_data' = SubSeq(d, n + 1, Len(d)) /\ ring_size' = s /\ ring_mem' = ring_mem
  BY DEF Ring!Take
<1>4. d \in Seq(RingBytes) /\ Len(d) = L /\ DOMAIN ring_mem = 0..s - 1
      /\ \A k \in 1..L : ring_mem[(ring_out + k - 1) % s] = d[k]
  BY DEF RingInv
<1> HIDE DEF d
<1>5. /\ ring_data' \in Seq(RingBytes) /\ Len(ring_data') = L - n
      /\ \A k \in 1..L - n : ring_data'[k] = d[n + k]
  <2> HIDE DEF L
  <2>1. \A i \in n + 1..L : d[i] \in RingBytes
    <3>1. \A i \in n + 1..L : i \in 1..Len(d)
      BY <1>1, <1>2, <1>4
    <3>2. QED
      BY <1>4, <3>1, ElementOfSeq
  <2>2. n + 1 \in Int /\ L \in Int
    BY <1>1, <1>2
  <2> DEFINE r == SubSeq(d, n + 1, L)
  <2>3. /\ r \in Seq(RingBytes) /\ Len(r) = (IF n + 1 <= L THEN L - (n + 1) + 1 ELSE 0)
        /\ \A i \in 1..L - (n + 1) + 1 : r[i] = d[n + 1 + i - 1]
    BY <2>1, <2>2, SubSeqProperties
  <2>4. ring_data' = r
    BY <1>3, <1>4
  <2> HIDE DEF r
  <2>5. (IF n + 1 <= L THEN L - (n + 1) + 1 ELSE 0) = L - n /\ \A k \in 1..L - n : k \in 1..L - (n + 1) + 1 /\ n + 1 + k - 1 = n + k
    BY <1>1, <1>2
  <2>6. QED
    BY <2>3, <2>4, <2>5
<1>6. ring_in' - ring_out' = L - n /\ ring_in' \in 0..MaxIn /\ ring_out' \in 0..ring_in' /\ L - n <= s
  BY <1>1, <1>2, <1>3
<1>7. ASSUME NEW k \in 1..L - n PROVE ring_mem'[(ring_out' + k - 1) % s] = ring_data'[k]
  <2>1. ring_out' = ring_out + n /\ n + k \in 1..L /\ ring_out + (n + k) - 1 = (ring_out + n) + k - 1
    BY <1>1, <1>2, <1>3
  <2>2. ring_mem[(ring_out + (n + k) - 1) % s] = d[n + k]
    BY <1>4, <2>1
  <2>3. QED
    BY <1>3, <1>5, <2>1, <2>2
<1> HIDE DEF L
<1>8. QED
  BY <1>1, <1>3, <1>4, <1>5, <1>6, <1>7 DEF RingInv, s

\* Every step keeps the invariant.
LEMMA RingNext ==
    ASSUME RingInv, Ring!Next \/ UNCHANGED ringVars
    PROVE  RingInv'
<1>1. CASE UNCHANGED ringVars
  BY <1>1 DEF ringVars, RingInv
<1>2. ASSUME NEW bytes \in Ring!Strings, Ring!ringbuf_vprintf(bytes) \/ Ring!ringbuf_read(bytes) PROVE RingInv'
  BY <1>2, RingPut DEF Ring!ringbuf_vprintf, Ring!ringbuf_read
<1>3. ASSUME NEW n \in 1..4, Ring!ringbuf_drain(n) \/ Ring!ringbuf_write(n) PROVE RingInv'
  <2> DEFINE L == ring_in - ring_out
  <2>0. L \in Nat /\ Ring!ringbuf_len = L
    BY DEF RingInv, Ring!ringbuf_len
  <2>1. CASE Ring!ringbuf_drain(n)
    <3> DEFINE m == IF n < L THEN n ELSE L
    <3>1. m > 0 /\ Ring!Take(m)
      BY <2>0, <2>1 DEF Ring!ringbuf_drain
    <3>2. m \in 1..L
      BY <2>0, <3>1
    <3>3. QED
      BY <3>1, <3>2, RingTake
  <2>2. CASE Ring!ringbuf_write(n)
    BY <2>0, <2>2, RingTake DEF Ring!ringbuf_write
  <2>3. QED
    BY <1>3, <2>1, <2>2
<1>4. QED
  BY <1>1, <1>2, <1>3 DEF Ring!Next

\* It holds at first.
LEMMA RingStart == Ring!Init => RingInv
<1> SUFFICES ASSUME Ring!Init PROVE RingInv
  OBVIOUS
<1>1. PICK u \in RingSizes : ring_size = Ring!align_power2(u)
  BY DEF Ring!Init
<1>2. u \in Nat \ {0, 1} /\ MaxIn \in Nat
  BY ConstantsAssumption DEF Ring!ConstantsOK
<1>3. ring_size \in Nat \ {0}
  BY <1>1, <1>2, RingSize
<1>4. ring_in = 0 /\ ring_out = 0 /\ ring_mem = [i \in 0..ring_size - 1 |-> "unset"] /\ ring_data = <<>>
  BY DEF Ring!Init
<1>5. <<>> \in Seq(RingBytes) /\ Len(<<>>) = 0
  OBVIOUS
<1>6. QED
  BY <1>2, <1>3, <1>4, <1>5 DEF RingInv

\* The invariant says what the properties of Ringbuf say.
LEMMA RingCorrect ==
    ASSUME RingInv
    PROVE  Ring!TypeOK /\ Ring!DataKept
<1> DEFINE L == ring_in - ring_out
           s == ring_size
           d == ring_data
           at == ring_out % s
           len == IF L < s - at THEN L ELSE s - at
           peek == [i \in 1..len |-> ring_mem[at + i - 1]]
<1>1. /\ s \in Nat \ {0} /\ ring_in \in Nat /\ ring_out \in Nat /\ ring_out <= ring_in /\ ring_in <= MaxIn /\ L <= s /\ L \in Nat
  BY ConstantsAssumption DEF RingInv, Ring!ConstantsOK
<1>2. d \in Seq(RingBytes) /\ Len(d) = L /\ \A k \in 1..L : ring_mem[(ring_out + k - 1) % s] = d[k]
  BY DEF RingInv
<1>3. Ring!TypeOK
  BY DEF RingInv, Ring!TypeOK, Ring!ringbuf_len
<1>4. at \in 0..s - 1
  BY <1>1, Division
<1>5. Ring!ringbuf_peek(0) = peek
  <2>1. ring_out + 0 = ring_out
    BY <1>1
  <2>2. QED
    BY <2>1 DEF Ring!ringbuf_peek, Ring!Position, Ring!ringbuf_len
<1> HIDE DEF d, s, L, at
<1>6. len \in Nat /\ len <= L /\ at + len <= s
  BY <1>1, <1>4
<1>7. \A i \in 1..len : peek[i] = d[i]
  <2> SUFFICES ASSUME NEW i \in 1..len PROVE ring_mem[at + i - 1] = d[i]
    OBVIOUS
  <2>1. i \in 1..L /\ i - 1 \in 0..s - 1 /\ at + (i - 1) < s /\ ring_out + (i - 1) = ring_out + i - 1 /\ at + (i - 1) = at + i - 1
    BY <1>1, <1>4, <1>6
  <2>2. (ring_out + (i - 1)) % s = at + (i - 1)
    BY <1>1, <2>1, RingPlace DEF at
  <2>3. QED
    BY <1>2, <2>1, <2>2
<1>8. Len(peek) = len
  <2> HIDE DEF len
  <2>1. QED
    BY <1>6
<1> HIDE DEF len, peek
<1>9. SubSeq(peek, 1, len) = SubSeq(d, 1, len)
  <2>1. 1 \in Int /\ len \in Int /\ (IF 1 <= len THEN len - 1 + 1 ELSE 0) = len /\ \A i \in 1..len : i \in 1..len - 1 + 1 /\ 1 + i - 1 = i
    BY <1>6
  <2>2. \A i \in 1..len : d[i] \in RingBytes
    <3>1. \A i \in 1..len : i \in 1..Len(d)
      BY <1>1, <1>2, <1>6
    <3>2. QED
      BY <1>2, <3>1, ElementOfSeq
  <2>3. \A i \in 1..len : peek[i] \in RingBytes
    BY <1>7, <2>2
  <2> DEFINE a == SubSeq(peek, 1, len)
             b == SubSeq(d, 1, len)
  <2>4. a \in Seq(RingBytes) /\ Len(a) = len /\ \A i \in 1..len : a[i] = peek[i]
    <3>1. /\ a \in Seq(RingBytes) /\ Len(a) = (IF 1 <= len THEN len - 1 + 1 ELSE 0)
          /\ \A i \in 1..len - 1 + 1 : a[i] = peek[1 + i - 1]
      BY <2>1, <2>3, SubSeqProperties
    <3> HIDE DEF a
    <3>2. QED
      BY <2>1, <3>1
  <2>5. b \in Seq(RingBytes) /\ Len(b) = len /\ \A i \in 1..len : b[i] = d[i]
    <3>1. /\ b \in Seq(RingBytes) /\ Len(b) = (IF 1 <= len THEN len - 1 + 1 ELSE 0)
          /\ \A i \in 1..len - 1 + 1 : b[i] = d[1 + i - 1]
      BY <2>1, <2>2, SubSeqProperties
    <3> HIDE DEF b
    <3>2. QED
      BY <2>1, <3>1
  <2> HIDE DEF a, b
  <2>6. a = b
    <3>1. Len(a) = Len(b) /\ \A i \in 1..Len(a) : a[i] = b[i]
      BY <1>7, <2>4, <2>5
    <3>2. QED
      BY <2>4, <2>5, <3>1, SeqEqual
  <2>7. QED
    BY <2>6 DEF a, b
<1>10. Ring!IsPrefix(peek, d)
  BY <1>2, <1>6, <1>8, <1>9 DEF Ring!IsPrefix
<1>11. Ring!DataKept
  <2>1. Ring!IsPrefix(Ring!ringbuf_peek(0), ring_data)
    BY <1>5, <1>10 DEF d
  <2>2. Len(ring_data) = Ring!ringbuf_len /\ \A k \in 1..Ring!ringbuf_len : ring_mem[Ring!Position(ring_out + k - 1)] = ring_data[k]
    BY <1>2 DEF d, L, s, Ring!ringbuf_len, Ring!Position
  <2>3. QED
    BY <2>1, <2>2 DEF Ring!DataKept
<1>12. QED
  BY <1>3, <1>11

-----------------------------------------------------------------------------
(* Mainloop *)

LoopFds == 1..MaxFds
Watch   == [kind : {"fd", "timer"}, fd : LoopFds, armed : BOOLEAN, destroyed : Nat]

\* The state is of these types.
LoopTypes ==
    /\ mainloop_list \in [LoopFds -> 0..MaxWatches] /\ watches \in Seq(Watch) /\ Len(watches) <= MaxWatches
    /\ batch \in Seq(1..MaxWatches) /\ loop_cb \in 0..MaxWatches /\ loop_state \in {"run", "quit", "over"}

\* The list holds data under the descriptor of it, and those that were destroyed are not in it.
Listed(list, w) ==
    /\ \A fd \in LoopFds : list[fd] # 0 => list[fd] \in 1..Len(w) /\ w[list[fd]].fd = fd
    /\ \A d \in 1..Len(w) : w[d].destroyed = IF list[w[d].fd] = d THEN 0 ELSE 1

\* The batch has one event for each data, none for the data whose callback runs, and none for
\* what was destroyed.
Batched(w) ==
    /\ IsInjective(batch) /\ Range(batch) \subseteq 1..Len(w) /\ loop_cb \notin Range(batch) /\ loop_cb \in 0..Len(w)
    /\ \A d \in Range(batch) : w[d].destroyed = 0

LoopInv ==
    /\ LoopTypes /\ Listed(mainloop_list, watches) /\ Batched(watches)
    /\ loop_state = "over" => batch = <<>> /\ loop_cb = 0 /\ \A fd \in LoopFds : mainloop_list[fd] = 0

\* The library's operators mean the same in every part.
LEMMA LoopLibrary ==
    /\ \A q : Loop!Range(q) = Range(q)
    /\ \A f : Loop!IsInjective(f) = IsInjective(f)
    /\ \A S : Loop!Cardinality(S) = Cardinality(S)
    /\ Loop!Fds = LoopFds /\ MaxFds \in Nat /\ MaxWatches \in Nat
<1>1. \A q : Loop!Range(q) = Range(q)
  BY Zenon DEF Range, Loop!Range
<1>2. \A f : Loop!IsInjective(f) = IsInjective(f)
  BY Zenon DEF IsInjective, Loop!IsInjective
<1>3. \A S : Loop!Cardinality(S) = Cardinality(S)
  BY Zenon DEF Cardinality, Loop!Cardinality
<1>4. MaxFds \in Nat /\ MaxWatches \in Nat
  BY ConstantsAssumption DEF Loop!ConstantsOK
<1>5. QED
  BY <1>1, <1>2, <1>3, <1>4 DEF Loop!Fds, LoopFds

\* The data are records.
LEMMA LoopWatches ==
    ASSUME LoopTypes
    PROVE  /\ Len(watches) \in Nat /\ DOMAIN watches = 1..Len(watches) /\ Loop!Data = 1..Len(watches)
           /\ \A d \in 1..Len(watches) : watches[d] \in Watch
<1>1. Len(watches) \in Nat /\ DOMAIN watches = 1..Len(watches)
  BY LenProperties DEF LoopTypes
<1>2. \A d \in 1..Len(watches) : watches[d] \in Watch
  BY ElementOfSeq DEF LoopTypes
<1>3. QED
  BY <1>1, <1>2 DEF Loop!Data

\* Data are replaced by records that differ in no more than whether they are armed.
LEMMA LoopArmed ==
    ASSUME LoopInv, watches' \in Seq(Watch), Len(watches') = Len(watches),
           \A d \in 1..Len(watches) : watches'[d].fd = watches[d].fd /\ watches'[d].destroyed = watches[d].destroyed,
           mainloop_list' = mainloop_list
    PROVE  Listed(mainloop_list', watches') /\ (UNCHANGED <<batch, loop_cb>> => Batched(watches)')
<1> DEFINE n == Len(watches)
<1>1. n \in Nat /\ Len(watches') = n
  BY LoopWatches DEF LoopInv
<1>2. /\ \A fd \in LoopFds : mainloop_list[fd] # 0 => mainloop_list[fd] \in 1..n /\ watches[mainloop_list[fd]].fd = fd
      /\ \A d \in 1..n : watches[d].destroyed = IF mainloop_list[watches[d].fd] = d THEN 0 ELSE 1
  BY DEF LoopInv, Listed
<1>3. \A d \in 1..n : watches'[d].fd = watches[d].fd /\ watches'[d].destroyed = watches[d].destroyed
  OBVIOUS
<1>4. Range(batch) \subseteq 1..n /\ loop_cb \in 0..n
  BY DEF LoopInv, Batched
<1> HIDE DEF n
<1>5. Listed(mainloop_list', watches')
  BY <1>1, <1>2, <1>3 DEF Listed
<1>6. ASSUME UNCHANGED <<batch, loop_cb>> PROVE Batched(watches)'
  BY <1>1, <1>3, <1>4, <1>6 DEF Batched, LoopInv
<1>7. QED
  BY <1>5, <1>6

\* mainloop_add_fd
LEMMA LoopAdd ==
    ASSUME LoopInv, NEW fd \in LoopFds, NEW kind \in {"fd", "timer"}, NEW armed \in BOOLEAN,
           Loop!mainloop_add_fd(fd, kind, armed)
    PROVE  LoopInv'
<1> DEFINE n == Len(watches)
           x == [kind |-> kind, fd |-> fd, armed |-> armed, destroyed |-> 0]
<1>1. /\ loop_state # "over" /\ n < MaxWatches /\ mainloop_list[fd] = 0 /\ watches' = Append(watches, x)
      /\ mainloop_list' = [mainloop_list EXCEPT ![fd] = Len(watches')] /\ UNCHANGED <<batch, loop_cb, loop_state>>
  BY DEF Loop!mainloop_add_fd, Loop!Usable
<1>2. x \in Watch /\ x.fd = fd /\ x.destroyed = 0
  BY DEF Watch
<1>3. n \in Nat /\ MaxWatches \in Nat /\ \A d \in 1..n : watches[d] \in Watch
  BY LoopLibrary, LoopWatches DEF LoopInv
<1> HIDE DEF x
<1>4. /\ watches' \in Seq(Watch) /\ Len(watches') = n + 1 /\ watches'[n + 1] = x /\ \A d \in 1..n : watches'[d] = watches[d]
  BY <1>1, <1>2, AppendProperties DEF LoopInv, LoopTypes
<1>5. mainloop_list \in [LoopFds -> 0..MaxWatches]
  BY DEF LoopInv, LoopTypes
<1>6. /\ \A f \in LoopFds : mainloop_list[f] # 0 => mainloop_list[f] \in 1..n /\ watches[mainloop_list[f]].fd = f
      /\ \A d \in 1..n : watches[d].destroyed = IF mainloop_list[watches[d].fd] = d THEN 0 ELSE 1
  BY DEF LoopInv, Listed
<1>7. Range(batch) \subseteq 1..n /\ loop_cb \in 0..n
  BY DEF LoopInv, Batched
<1> HIDE DEF n
<1>8. n + 1 \in 1..MaxWatches /\ n + 1 <= MaxWatches /\ (\A d \in 1..n : d \in 1..n + 1 /\ d # n + 1) /\ n + 1 \in 1..n + 1 /\ n + 1 # 0
      /\ (\A d \in 1..n + 1 : d \in 1..n \/ d = n + 1) /\ (\A d \in 0..n : d \in 0..n + 1) /\ 0 \notin 1..n
  BY <1>1, <1>3 DEF n
<1>9. mainloop_list' \in [LoopFds -> 0..MaxWatches] /\ mainloop_list'[fd] = n + 1 /\ \A f \in LoopFds : f # fd => mainloop_list'[f] = mainloop_list[f]
  BY <1>1, <1>4, <1>5, <1>8
<1>10. \A f \in LoopFds : mainloop_list'[f] # 0 => mainloop_list'[f] \in 1..n + 1 /\ watches'[mainloop_list'[f]].fd = f
  BY <1>2, <1>4, <1>6, <1>8, <1>9
<1>11. ASSUME NEW d \in 1..n + 1 PROVE watches'[d].destroyed = IF mainloop_list'[watches'[d].fd] = d THEN 0 ELSE 1
  <2>1. CASE d = n + 1
    BY <2>1, <1>2, <1>4, <1>9
  <2>2. CASE d \in 1..n
    <3>1. watches'[d] = watches[d] /\ watches[d].fd \in LoopFds /\ d # n + 1 /\ d # 0
      BY <2>2, <1>3, <1>4, <1>8 DEF Watch
    <3>2. mainloop_list'[watches[d].fd] = d <=> mainloop_list[watches[d].fd] = d
      BY <3>1, <1>1, <1>9
    <3>3. QED
      BY <2>2, <3>1, <3>2, <1>6
  <2>3. QED
    BY <1>8, <2>1, <2>2
<1>12. Listed(mainloop_list', watches')
  BY <1>4, <1>10, <1>11 DEF Listed
<1>13. Batched(watches)'
  <2>1. \A d \in Range(batch) : watches'[d].destroyed = 0
    BY <1>4, <1>7 DEF LoopInv, Batched
  <2>2. Range(batch) \subseteq 1..n + 1 /\ loop_cb \in 0..n + 1
    BY <1>7, <1>8
  <2>3. QED
    BY <1>1, <1>4, <2>1, <2>2 DEF LoopInv, Batched
<1>14. LoopTypes'
  BY <1>1, <1>4, <1>8, <1>9 DEF LoopInv, LoopTypes
<1>15. QED
  BY <1>1, <1>12, <1>13, <1>14 DEF LoopInv

\* The data of a descriptor are taken out of the list and destroyed.
LEMMA LoopRemoved ==
    ASSUME LoopInv, NEW fd \in LoopFds, NEW d, d = mainloop_list[fd], d # 0, d \notin Range(batch),
           mainloop_list' = [mainloop_list EXCEPT ![fd] = 0],
           watches' = [watches EXCEPT ![d].destroyed = @ + 1],
           batch' = batch, loop_state' = loop_state, loop_cb' \in {0, loop_cb}
    PROVE  LoopInv'
<1> DEFINE n == Len(watches)
<1>1. n \in Nat /\ DOMAIN watches = 1..n /\ MaxWatches \in Nat /\ \A c \in 1..n : watches[c] \in Watch
  BY LoopLibrary, LoopWatches DEF LoopInv
<1>2. mainloop_list \in [LoopFds -> 0..MaxWatches] /\ watches \in Seq(Watch) /\ n <= MaxWatches
  BY DEF LoopInv, LoopTypes
<1>3. /\ \A f \in LoopFds : mainloop_list[f] # 0 => mainloop_list[f] \in 1..n /\ watches[mainloop_list[f]].fd = f
      /\ \A c \in 1..n : watches[c].destroyed = IF mainloop_list[watches[c].fd] = c THEN 0 ELSE 1
  BY DEF LoopInv, Listed
<1>4. d \in 1..n /\ watches[d].fd = fd /\ watches[d].destroyed = 0
  BY <1>3
<1> DEFINE x == [watches[d] EXCEPT !.destroyed = @ + 1]
<1>5. x \in Watch /\ x.fd = fd /\ x.destroyed = 1 /\ x.kind = watches[d].kind
  BY <1>1, <1>4 DEF Watch
<1>6. watches' = [watches EXCEPT ![d] = x]
  OBVIOUS
<1> HIDE DEF x
<1>7. watches' \in Seq(Watch) /\ Len(watches') = n /\ watches'[d] = x /\ \A c \in 1..n : c # d => watches'[c] = watches[c]
  <2>1. watches \in Seq(Watch) /\ d \in 1..Len(watches) /\ x \in Watch
    BY <1>2, <1>4, <1>5
  <2>2. /\ [watches EXCEPT ![d] = x] \in Seq(Watch) /\ Len([watches EXCEPT ![d] = x]) = Len(watches)
        /\ \A j \in 1..Len(watches) : [watches EXCEPT ![d] = x][j] = IF j = d THEN x ELSE watches[j]
    <3>1. \A T : \A q \in Seq(T) : \A i \in 1..Len(q), e \in T :
             /\ [q EXCEPT ![i] = e] \in Seq(T) /\ Len([q EXCEPT ![i] = e]) = Len(q)
             /\ \A j \in 1..Len(q) : [q EXCEPT ![i] = e][j] = IF j = i THEN e ELSE q[j]
      BY ExceptSeq
    <3>2. QED
      BY <2>1, <3>1, SMTT(30)
  <2> HIDE DEF n
  <2>3. \A j \in 1..Len(watches) : watches'[j] = IF j = d THEN x ELSE watches[j]
    BY <1>6, <2>2
  <2>4. watches' \in Seq(Watch) /\ Len(watches') = Len(watches)
    BY <1>6, <2>2
  <2>5. QED
    BY <2>1, <2>3, <2>4 DEF n
<1>8. mainloop_list' \in [LoopFds -> 0..MaxWatches] /\ mainloop_list'[fd] = 0 /\ \A f \in LoopFds : f # fd => mainloop_list'[f] = mainloop_list[f]
  BY <1>1, <1>2
<1>9. Range(batch) \subseteq 1..n /\ loop_cb \in 0..n /\ 0 \notin Range(batch) /\ 0 \in 0..n
  BY <1>1 DEF LoopInv, Batched
<1> HIDE DEF n
<1>10. Listed(mainloop_list', watches')
  <2>1. \A f \in LoopFds : mainloop_list'[f] # 0 => mainloop_list'[f] \in 1..n /\ watches'[mainloop_list'[f]].fd = f
    <3> SUFFICES ASSUME NEW f \in LoopFds, mainloop_list'[f] # 0
                 PROVE  mainloop_list'[f] \in 1..n /\ watches'[mainloop_list'[f]].fd = f
      OBVIOUS
    <3>1. f # fd /\ mainloop_list'[f] = mainloop_list[f]
      BY <1>8
    <3>2. mainloop_list[f] \in 1..n /\ watches[mainloop_list[f]].fd = f
      BY <3>1, <1>3
    <3>3. mainloop_list[f] # d
      BY <3>1, <3>2, <1>4
    <3>4. QED
      BY <3>1, <3>2, <3>3, <1>7
  <2>2. ASSUME NEW c \in 1..n PROVE watches'[c].destroyed = IF mainloop_list'[watches'[c].fd] = c THEN 0 ELSE 1
    <3>0. c # 0
      BY <1>1
    <3>1. CASE c = d
      BY <3>0, <3>1, <1>5, <1>7, <1>8
    <3>2. CASE c # d
      <4>1. watches'[c] = watches[c] /\ watches[c].fd \in LoopFds
        BY <3>2, <1>1, <1>7 DEF Watch
      <4>2. mainloop_list'[watches[c].fd] = c <=> mainloop_list[watches[c].fd] = c
        BY <3>0, <3>2, <4>1, <1>8
      <4>3. QED
        BY <4>1, <4>2, <1>3
    <3>3. QED
      BY <3>1, <3>2
  <2>3. QED
    BY <1>7, <2>1, <2>2 DEF Listed
<1>11. Batched(watches)'
  <2>1. \A c \in Range(batch) : watches'[c].destroyed = 0
    BY <1>7, <1>9 DEF LoopInv, Batched
  <2>2. loop_cb' \notin Range(batch) /\ loop_cb' \in 0..n
    BY <1>9 DEF LoopInv, Batched
  <2>3. QED
    BY <1>7, <1>9, <2>1, <2>2 DEF LoopInv, Batched
<1>12. LoopTypes'
  <2>1. loop_cb' \in 0..MaxWatches
    BY <1>1 DEF LoopInv, LoopTypes
  <2>2. QED
    BY <1>2, <1>7, <1>8, <2>1 DEF LoopInv, LoopTypes
<1>13. loop_state' # "over"
  BY DEF LoopInv
<1>14. QED
  BY <1>10, <1>11, <1>12, <1>13 DEF LoopInv

\* epoll_wait: the batch has the data that are ready, once each.
LEMMA LoopBatch ==
    ASSUME NEW n \in Nat, NEW ready, ready \subseteq 1..n
    PROVE  Loop!SetToSeq(ready) \in Seq(ready) /\ IsInjective(Loop!SetToSeq(ready))
<1>1. IsFiniteSet(ready)
  <2>1. IsFiniteSet(1..n)
    BY FS_Interval
  <2>2. QED
    BY <2>1, FS_Subset
<1> DEFINE m == Cardinality(ready)
<1>2. m \in Nat /\ ExistsBijection(1..m, ready)
  BY <1>1, FS_CardinalityType
<1>3. \E f \in [1..m -> ready] : IsInjective(f)
  BY <1>2 DEF ExistsBijection, Bijection, Injection
<1>4. Loop!SetToSeq(ready) = CHOOSE f \in [1..m -> ready] : IsInjective(f)
  <2>1. Loop!Cardinality(ready) = m
    BY LoopLibrary
  <2>2. QED
    BY <2>1, Zenon DEF Loop!SetToSeq, Loop!IsInjective, IsInjective
<1> HIDE DEF m
<1>5. Loop!SetToSeq(ready) \in [1..m -> ready] /\ IsInjective(Loop!SetToSeq(ready))
  BY <1>3, <1>4
<1>6. QED
  BY <1>2, <1>5

\* epoll_wait
LEMMA LoopWait ==
    ASSUME LoopInv, NEW ready \in SUBSET Loop!Data, Loop!epoll_wait(ready)
    PROVE  LoopInv'
<1> DEFINE n == Len(watches)
<1>1. n \in Nat /\ Loop!Data = 1..n /\ \A c \in 1..n : watches[c] \in Watch
  BY LoopWatches DEF LoopInv
<1>2. /\ loop_state = "run" /\ batch = <<>> /\ loop_cb = 0 /\ batch' = Loop!SetToSeq(ready)
      /\ watches' = [d \in 1..n |-> IF d \in ready THEN Loop!Fired(watches[d]) ELSE watches[d]]
      /\ UNCHANGED <<mainloop_list, loop_cb, loop_state>>
      /\ \A d \in ready : watches[d].destroyed = 0
  BY <1>1 DEF Loop!epoll_wait, Loop!Ready
<1>3. n <= MaxWatches /\ MaxWatches \in Nat
  BY LoopLibrary DEF LoopInv, LoopTypes
<1> HIDE DEF n
<1>4. \A w \in Watch : Loop!Fired(w) \in Watch /\ Loop!Fired(w).fd = w.fd /\ Loop!Fired(w).destroyed = w.destroyed
  BY DEF Loop!Fired, Watch
<1>5. /\ watches' \in Seq(Watch) /\ Len(watches') = n
      /\ \A d \in 1..n : watches'[d] = IF d \in ready THEN Loop!Fired(watches[d]) ELSE watches[d]
  <2>1. \A d \in 1..n : (IF d \in ready THEN Loop!Fired(watches[d]) ELSE watches[d]) \in Watch
    BY <1>1, <1>4
  <2>2. watches' \in [1..n -> Watch]
    BY <1>2, <2>1
  <2>3. QED
    BY <1>1, <1>2, <2>2
<1>6. \A d \in 1..n : watches'[d].fd = watches[d].fd /\ watches'[d].destroyed = watches[d].destroyed
  BY <1>1, <1>4, <1>5
<1>7. Listed(mainloop_list', watches')
  BY <1>2, <1>5, <1>6, LoopArmed DEF n
<1>8. batch' \in Seq(ready) /\ IsInjective(batch')
  BY <1>1, <1>2, LoopBatch
<1>9. Range(batch') \subseteq ready /\ ready \subseteq 1..n /\ 0 \notin ready /\ 0 \in 0..n /\ 1..n \subseteq 1..MaxWatches
  BY <1>1, <1>3, <1>8, HeadInRange
<1>10. batch' \in Seq(1..MaxWatches)
  <2> DEFINE k == Len(batch')
             T == 1..MaxWatches
  <2>1. k \in Nat /\ batch' \in [1..k -> ready]
    BY <1>8, LenProperties
  <2>2. ready \subseteq T
    BY <1>9
  <2> HIDE DEF k, T
  <2>3. batch' \in [1..k -> T]
    BY <2>1, <2>2
  <2>4. batch' \in Seq(T)
    BY <2>1, <2>3
  <2>5. QED
    BY <2>4 DEF T
<1>11. Batched(watches)'
  <2>1. \A d \in Range(batch') : watches'[d].destroyed = 0
    BY <1>2, <1>6, <1>9
  <2>2. QED
    BY <1>2, <1>5, <1>8, <1>9, <2>1 DEF Batched
<1>12. LoopTypes'
  BY <1>2, <1>3, <1>5, <1>10 DEF LoopInv, LoopTypes
<1>13. QED
  BY <1>2, <1>7, <1>11, <1>12 DEF LoopInv

\* A timer is armed again.
LEMMA LoopRearmed ==
    ASSUME LoopInv, NEW d \in 1..Len(watches), watches' = [watches EXCEPT ![d].armed = TRUE],
           UNCHANGED <<mainloop_list, batch, loop_state>>, loop_cb' \in {0, loop_cb}
    PROVE  LoopInv'
<1> DEFINE n == Len(watches)
           x == [watches[d] EXCEPT !.armed = TRUE]
<1>1. n \in Nat /\ DOMAIN watches = 1..n /\ d \in 1..n /\ watches[d] \in Watch /\ n <= MaxWatches /\ MaxWatches \in Nat /\ watches \in Seq(Watch)
  BY LoopLibrary, LoopWatches DEF LoopInv, LoopTypes
<1>2. x \in Watch /\ x.fd = watches[d].fd /\ x.destroyed = watches[d].destroyed
  BY <1>1 DEF Watch
<1>3. watches' = [watches EXCEPT ![d] = x]
  OBVIOUS
<1> HIDE DEF x
<1>4. watches' \in Seq(Watch) /\ Len(watches') = n /\ watches'[d] = x /\ \A c \in 1..n : c # d => watches'[c] = watches[c]
  <2>1. watches \in Seq(Watch) /\ x \in Watch /\ d \in 1..Len(watches)
    BY <1>1, <1>2
  <2>2. [watches EXCEPT ![d] = x] \in Seq(Watch) /\ Len([watches EXCEPT ![d] = x]) = n
    BY <2>1, ExceptSeq
  <2>3. QED
    BY <1>1, <1>3, <2>2
<1>5. \A c \in 1..n : watches'[c].fd = watches[c].fd /\ watches'[c].destroyed = watches[c].destroyed
  BY <1>2, <1>4
<1>6. Listed(mainloop_list', watches')
  BY <1>4, <1>5, LoopArmed
<1>7. Batched(watches)'
  <2>1. Range(batch) \subseteq 1..n /\ loop_cb \in 0..n /\ 0 \notin Range(batch) /\ 0 \in 0..n
    BY <1>1 DEF LoopInv, Batched
  <2>2. \A c \in Range(batch) : watches'[c].destroyed = 0
    BY <1>5, <2>1 DEF LoopInv, Batched
  <2>3. QED
    BY <1>4, <2>1, <2>2 DEF LoopInv, Batched
<1>8. LoopTypes'
  <2>1. loop_cb' \in 0..MaxWatches
    BY <1>1 DEF LoopInv, LoopTypes
  <2>2. QED
    BY <1>1, <1>4, <2>1 DEF LoopInv, LoopTypes
<1>9. QED
  BY <1>6, <1>7, <1>8 DEF LoopInv

\* mainloop_callback
LEMMA LoopCallback ==
    ASSUME LoopInv, Loop!mainloop_callback
    PROVE  LoopInv'
<1>1. /\ loop_state # "over" /\ batch # <<>> /\ batch' = Tail(batch) /\ loop_cb' = Head(batch)
      /\ UNCHANGED <<mainloop_list, watches, loop_state>>
  BY DEF Loop!mainloop_callback
<1>2. batch \in Seq(1..MaxWatches) /\ IsInjective(batch)
  BY DEF LoopInv, LoopTypes, Batched
<1>3. batch' \in Seq(1..MaxWatches) /\ IsInjective(batch') /\ Range(batch') = Range(batch) \ {Head(batch)}
  BY <1>1, <1>2, TailKeeps
<1>4. Head(batch) \in Range(batch) /\ Head(batch) \in 1..MaxWatches
  BY <1>1, <1>2, HeadInRange
<1>5. \A i \in 1..Len(watches) : i \in 0..Len(watches)
  BY LoopWatches DEF LoopInv
<1>6. Batched(watches)'
  BY <1>1, <1>3, <1>4, <1>5 DEF LoopInv, Batched
<1>7. LoopTypes'
  <2>1. loop_cb' \in 0..MaxWatches
    BY <1>1, <1>4, LoopLibrary
  <2>2. QED
    BY <1>1, <1>3, <2>1 DEF LoopInv, LoopTypes
<1>8. QED
  BY <1>1, <1>6, <1>7 DEF LoopInv, Listed

\* mainloop_over
LEMMA LoopOver ==
    ASSUME LoopInv, Loop!mainloop_over
    PROVE  LoopInv'
<1> DEFINE n == Len(watches)
           In(d) == \E fd \in LoopFds : mainloop_list[fd] = d
<1>1. n \in Nat /\ Loop!Data = 1..n /\ \A c \in 1..n : watches[c] \in Watch
  BY LoopWatches DEF LoopInv
<1>2. /\ batch = <<>> /\ loop_cb = 0 /\ loop_state' = "over" /\ mainloop_list' = [fd \in LoopFds |-> 0]
      /\ watches' = [d \in 1..n |-> IF In(d) THEN [watches[d] EXCEPT !.destroyed = @ + 1] ELSE watches[d]]
      /\ UNCHANGED <<batch, loop_cb>>
  BY <1>1, LoopLibrary DEF Loop!mainloop_over
<1>3. n <= MaxWatches /\ MaxWatches \in Nat
  BY LoopLibrary DEF LoopInv, LoopTypes
<1>4. /\ \A f \in LoopFds : mainloop_list[f] # 0 => mainloop_list[f] \in 1..n /\ watches[mainloop_list[f]].fd = f
      /\ \A c \in 1..n : watches[c].destroyed = IF mainloop_list[watches[c].fd] = c THEN 0 ELSE 1
  BY DEF LoopInv, Listed
<1> HIDE DEF n
<1>5. \A d \in 1..n : In(d) <=> mainloop_list[watches[d].fd] = d
  <2> SUFFICES ASSUME NEW d \in 1..n PROVE In(d) <=> mainloop_list[watches[d].fd] = d
    OBVIOUS
  <2>1. d # 0 /\ watches[d].fd \in LoopFds
    BY <1>1 DEF Watch
  <2>2. QED
    BY <1>4, <2>1
<1> HIDE DEF In
<1>6. ASSUME NEW d \in 1..n
      PROVE  LET x == IF In(d) THEN [watches[d] EXCEPT !.destroyed = @ + 1] ELSE watches[d] IN
             x \in Watch /\ x.destroyed = 1
  <2>1. watches[d] \in Watch /\ watches[d].destroyed = IF In(d) THEN 0 ELSE 1
    BY <1>1, <1>4, <1>5
  <2>2. QED
    BY <2>1 DEF Watch
<1>7. watches' \in [1..n -> Watch] /\ \A d \in 1..n : watches'[d].destroyed = 1
  BY <1>2, <1>6
<1>8. watches' \in Seq(Watch) /\ Len(watches') = n
  BY <1>1, <1>2, <1>7
<1>9. mainloop_list' \in [LoopFds -> 0..MaxWatches] /\ \A f \in LoopFds : mainloop_list'[f] = 0
  BY <1>2, <1>3
<1>10. Listed(mainloop_list', watches')
  <2>1. \A d \in 1..n : watches'[d].fd \in LoopFds /\ d # 0
    BY <1>1, <1>7 DEF Watch
  <2>2. QED
    BY <1>7, <1>8, <1>9, <2>1 DEF Listed
<1>11. Batched(watches)'
  <2>1. Range(batch) = {} /\ 0 \in 0..n
    BY <1>1, <1>2 DEF Range
  <2>2. QED
    BY <1>2, <1>8, <2>1 DEF LoopInv, Batched
<1>12. LoopTypes'
  BY <1>2, <1>3, <1>8, <1>9 DEF LoopInv, LoopTypes
<1>13. QED
  BY <1>2, <1>9, <1>10, <1>11, <1>12 DEF LoopInv

\* mainloop_return
LEMMA LoopReturn ==
    ASSUME LoopInv, Loop!mainloop_return
    PROVE  LoopInv'
<1>1. loop_cb # 0 /\ loop_cb' = 0 /\ UNCHANGED <<batch, loop_state>>
  BY DEF Loop!mainloop_return
<1>2. loop_cb \in 1..Len(watches) /\ loop_cb \notin Range(batch)
  BY <1>1, LoopWatches DEF LoopInv, Batched
<1>3. watches[loop_cb] \in Watch
  BY <1>2, LoopWatches DEF LoopInv
<1>4. CASE watches[loop_cb].kind = "timer" /\ watches[loop_cb].destroyed = 0
  <2>1. /\ mainloop_list' = [mainloop_list EXCEPT ![watches[loop_cb].fd] = 0]
        /\ watches' = [watches EXCEPT ![loop_cb].destroyed = @ + 1]
    BY <1>4 DEF Loop!mainloop_return
  <2>2. watches[loop_cb].fd \in LoopFds /\ mainloop_list[watches[loop_cb].fd] = loop_cb
    BY <1>2, <1>3, <1>4 DEF LoopInv, Listed, Watch
  <2> DEFINE f == watches[loop_cb].fd
  <2>3. f \in LoopFds /\ loop_cb = mainloop_list[f] /\ mainloop_list' = [mainloop_list EXCEPT ![f] = 0]
    BY <2>1, <2>2
  <2> HIDE DEF f
  <2>4. QED
    BY <1>1, <1>2, <2>1, <2>3, LoopRemoved
<1>5. CASE ~(watches[loop_cb].kind = "timer" /\ watches[loop_cb].destroyed = 0)
  <2>1. UNCHANGED <<mainloop_list, watches>>
    BY <1>5 DEF Loop!mainloop_return
  <2>2. 0 \notin Range(batch) /\ 0 \in 0..Len(watches) /\ 0 \in 0..MaxWatches
    BY LoopLibrary, LoopWatches DEF LoopInv, Batched
  <2>3. QED
    BY <1>1, <2>1, <2>2 DEF LoopInv, LoopTypes, Listed, Batched
<1>6. QED
  BY <1>4, <1>5

\* Every step keeps the invariant.
LEMMA LoopNext ==
    ASSUME LoopInv, Loop!Next \/ UNCHANGED loopVars
    PROVE  LoopInv'
<1>0. Loop!Fds = LoopFds /\ Loop!Data = 1..Len(watches)
  BY LoopLibrary, LoopWatches DEF LoopInv
<1>1. CASE UNCHANGED loopVars
  BY <1>1 DEF loopVars, LoopInv, LoopTypes, Listed, Batched
<1>2. ASSUME NEW fd \in LoopFds, Loop!mainloop_add_fd(fd, "fd", TRUE) PROVE LoopInv'
  BY <1>2, LoopAdd
<1>3. ASSUME NEW fd \in LoopFds, Loop!mainloop_remove_fd(fd) PROVE LoopInv'
  <2> DEFINE d == mainloop_list[fd]
  <2>1. /\ d # 0 /\ d \notin Range(batch) /\ mainloop_list' = [mainloop_list EXCEPT ![fd] = 0]
        /\ watches' = [watches EXCEPT ![d].destroyed = @ + 1] /\ UNCHANGED <<batch, loop_cb, loop_state>>
    BY <1>3, LoopLibrary DEF Loop!mainloop_remove_fd
  <2>2. d = mainloop_list[fd]
    OBVIOUS
  <2> HIDE DEF d
  <2>3. QED
    BY <2>1, <2>2, LoopRemoved
<1>4. ASSUME NEW fd \in LoopFds, NEW msec \in 0..1, Loop!mainloop_add_timeout(fd, msec) PROVE LoopInv'
  <2>1. (msec > 0) \in BOOLEAN /\ Loop!mainloop_add_fd(fd, "timer", msec > 0)
    BY <1>4 DEF Loop!mainloop_add_timeout
  <2> DEFINE b == msec > 0
  <2> HIDE DEF b
  <2>2. b \in BOOLEAN /\ Loop!mainloop_add_fd(fd, "timer", b)
    BY <2>1 DEF b
  <2>3. QED
    BY <2>2, LoopAdd
<1>5. ASSUME NEW d \in 1..Len(watches), Loop!mainloop_modify_timeout(d) PROVE LoopInv'
  BY <1>5, LoopRearmed DEF Loop!mainloop_modify_timeout
<1>6. ASSUME NEW ready \in SUBSET Loop!Data, Loop!epoll_wait(ready) PROVE LoopInv'
  BY <1>6, LoopWait
<1>7. CASE Loop!timeout_callback_again
  <2>1. loop_cb # 0 /\ watches' = [watches EXCEPT ![loop_cb].armed = TRUE] /\ loop_cb' = 0 /\ UNCHANGED <<mainloop_list, batch, loop_state>>
    BY <1>7 DEF Loop!timeout_callback_again
  <2>2. loop_cb \in 1..Len(watches)
    BY <2>1, LoopWatches DEF LoopInv, Batched
  <2>3. QED
    BY <2>1, <2>2, LoopRearmed
<1>8. CASE Loop!mainloop_quit
  BY <1>8 DEF Loop!mainloop_quit, LoopInv, LoopTypes, Listed, Batched
<1>9. QED
  BY <1>0, <1>1, <1>2, <1>3, <1>4, <1>5, <1>6, <1>7, <1>8, LoopCallback, LoopReturn, LoopOver DEF Loop!Next

\* It holds at first.
LEMMA LoopStart == Loop!Init => LoopInv
<1> SUFFICES ASSUME Loop!Init PROVE LoopInv
  OBVIOUS
<1>1. mainloop_list = [fd \in LoopFds |-> 0] /\ watches = <<>> /\ batch = <<>> /\ loop_cb = 0 /\ loop_state = "run"
  BY LoopLibrary DEF Loop!Init
<1>2. Len(<<>>) = 0 /\ <<>> \in Seq(Watch) /\ <<>> \in Seq(1..MaxWatches) /\ Range(<<>>) = {} /\ IsInjective(<<>>)
  BY DEF Range, IsInjective
<1>3. MaxWatches \in Nat /\ \A d \in 1..0 : FALSE
  BY LoopLibrary
<1>4. LoopTypes
  BY <1>1, <1>2, <1>3 DEF LoopTypes
<1>5. Listed(mainloop_list, watches) /\ Batched(watches)
  BY <1>1, <1>2, <1>3 DEF Listed, Batched
<1>6. QED
  BY <1>1, <1>4, <1>5 DEF LoopInv

\* The invariant says what the properties of Mainloop say.
LEMMA LoopCorrect ==
    ASSUME LoopInv
    PROVE  Loop!TypeOK /\ Loop!DestroyedOnce
<1>1. Loop!TypeOK
  BY LoopLibrary DEF LoopInv, LoopTypes, Loop!TypeOK
<1>2. Loop!Data = 1..Len(watches) /\ \A d \in 1..Len(watches) : d # 0 /\ watches[d].fd \in LoopFds
  BY LoopWatches DEF LoopInv, Watch
<1>3. loop_state = "over" => \A d \in 1..Len(watches) : watches[d].destroyed = 1
  BY <1>2 DEF LoopInv, Listed
<1>4. Loop!DestroyedOnce
  BY <1>2, <1>3, LoopLibrary DEF Loop!DestroyedOnce, LoopInv, Listed, Batched
<1>5. QED
  BY <1>1, <1>4
=================================================================================
