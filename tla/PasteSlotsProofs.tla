-------------------------- MODULE PasteSlotsProofs --------------------------
(***************************************************************************)
(* Safety of PasteSlots for every number of connections, every credit and  *)
(* every bound: who holds the slot, who waits for it, what is written and  *)
(* what each client's credit counts.                                       *)
(***************************************************************************)
EXTENDS PasteSlots, TLAPS, SequenceTheorems, FiniteSetTheorems, WellFoundedInduction

\* How many of the chunks are c's.
Count(c, chunks) == Cardinality(Of(c, chunks))

One(c, d) == IF c = d THEN 1 ELSE 0

\* What is on its way from c, or waits for credit to go, is c's.
ChunksAreOwn ==
    \A c \in Clients :
        /\ \A i \in DOMAIN pasting[c].queue : pasting[c].queue[i].client = c
        /\ \A i \in DOMAIN wire[c] : wire[c][i].client = c

SlotIsHeld ==
    /\ slot.owner # Nobody => conn[slot.owner].open
    /\ slot.waiting # <<>> => slot.owner # Nobody
    /\ \A i \in DOMAIN slot.waiting : conn[slot.waiting[i].client].open
    /\ term = "removed" => slot = FreeSlot

\* Whoever wrote the last chunk, still connected and with more to come, holds it.
WriterHolds ==
    (term = "open" /\ written # <<>> /\ ~written[Len(written)].last
        /\ conn[written[Len(written)].client].open)
    => slot.owner = written[Len(written)].client

CreditIsCounted ==
    \A c \in Clients :
        /\ pasting[c].inFlight <= Credit
        /\ ~pasting[c].gaveUp => Outstanding(c) <= pasting[c].inFlight
        /\ conn[c].open /\ term # "killed" => pasting[c].inFlight <= Outstanding(c)

IInv == TypeOK /\ ChunksAreOwn /\ SlotIsHeld /\ WriterHolds /\ NotInterleaved /\ CreditIsCounted

(***************************************************************************)
(* Numbers: the least of a set, and induction over a set of numbers.       *)
(***************************************************************************)
LEMMA Least ==
    ASSUME NEW T \in SUBSET Nat, T # {}
    PROVE  \E n \in T : \A m \in T : n <= m
<1> DEFINE R == OpToRel(<, Nat)
<1>1. \A x, y \in Nat : y < x => <<y, x>> \in R
  BY DEF OpToRel
<1>2. \E x \in T : \A y \in T : <<y, x>> \notin R
  BY NatLessThanWellFounded, WFMin
<1> HIDE DEF R
<1>3. PICK x \in T : \A y \in T : <<y, x>> \notin R
  BY <1>2
<1>4. ASSUME NEW y \in T, y < x PROVE FALSE
  BY <1>1, <1>3, <1>4
<1>5. \A y \in T : x <= y
  BY <1>4
<1> QED
  BY <1>5

LEMMA Induction ==
    ASSUME NEW T \in SUBSET Nat, 0 \in T, \A n \in T : n + 1 \in T
    PROVE  T = Nat
<1> SUFFICES ASSUME Nat \ T # {} PROVE FALSE
  OBVIOUS
<1>1. PICK n \in Nat \ T : \A m \in Nat \ T : n <= m
  BY Least
<1>2. n - 1 \in Nat
  BY <1>1
<1> QED
  BY <1>1, <1>2

(***************************************************************************)
(* How many of some chunks are one client's.                               *)
(***************************************************************************)
LEMMA CountType ==
    ASSUME NEW q \in Seq(Chunks), NEW c
    PROVE  /\ IsFiniteSet(Of(c, q)) /\ Count(c, q) \in Nat
           /\ Count(c, q) = 0 <=> (\A i \in DOMAIN q : q[i].client # c)
<1>1. IsFiniteSet(DOMAIN q) /\ Of(c, q) \in SUBSET DOMAIN q
  BY FS_Interval, LenProperties DEF Of
<1>2. IsFiniteSet(Of(c, q))
  BY <1>1, FS_Subset
<1>3. Of(c, q) = {} <=> (\A i \in DOMAIN q : q[i].client # c)
  BY DEF Of
<1> QED
  BY <1>2, <1>3, FS_CardinalityType, FS_EmptySet DEF Count

LEMMA CountEmpty == \A c : Count(c, <<>>) = 0
<1> SUFFICES ASSUME NEW c PROVE Count(c, <<>>) = 0
  OBVIOUS
<1>1. Of(c, <<>>) = {}
  BY DEF Of
<1> QED
  BY <1>1, FS_EmptySet DEF Count

LEMMA CountConcat ==
    ASSUME NEW p \in Seq(Chunks), NEW q \in Seq(Chunks), NEW c
    PROVE  Count(c, p \o q) = Count(c, p) + Count(c, q)
<1> DEFINE n == Len(p)
           m == Len(q)
           r == p \o q
           B == {i \in (n + 1)..(n + m) : r[i].client = c}
           f == [i \in Of(c, q) |-> i + n]
<1>1. /\ n \in Nat /\ m \in Nat /\ DOMAIN p = 1..n /\ DOMAIN q = 1..m /\ DOMAIN r = 1..(n + m)
      /\ r \in Seq(Chunks)
      /\ \A i \in 1..n : r[i] = p[i]
      /\ \A i \in 1..m : r[i + n] = q[i]
  BY ConcatProperties, LenProperties
<1>2. IsFiniteSet(Of(c, p)) /\ IsFiniteSet(Of(c, q)) /\ IsFiniteSet(Of(c, r))
  BY <1>1, CountType
<1> HIDE DEF n, m, r
<1>3. f \in Bijection(Of(c, q), B)
  <2>1. \A i \in Of(c, q) : i \in 1..m /\ i + n \in B
    BY <1>1 DEF Of
  <2>2. \A j \in B : j - n \in Of(c, q) /\ (j - n) + n = j
    BY <1>1 DEF Of
  <2>3. \A i, j \in Of(c, q) : f[i] = f[j] => i = j
    BY <1>1, <2>1
  <2> QED
    BY <2>1, <2>2, <2>3 DEF Bijection, Injection, Surjection, IsInjective
<1>4. IsFiniteSet(B) /\ Cardinality(B) = Count(c, q)
  BY <1>2, <1>3, FS_Bijection DEF ExistsBijection, Count
<1>5. Of(c, r) = Of(c, p) \cup B /\ Of(c, p) \cap B = {}
  BY <1>1 DEF Of
<1> HIDE DEF f, B
<1>6. Cardinality(Of(c, p) \cap B) = 0 /\ Cardinality(Of(c, p)) \in Nat /\ Cardinality(B) \in Nat
  BY <1>2, <1>4, <1>5, FS_EmptySet, FS_CardinalityType
<1>7. Cardinality(Of(c, r)) = Cardinality(Of(c, p)) + Cardinality(B)
  <2>1. Cardinality(Of(c, p) \cup B)
            = Cardinality(Of(c, p)) + Cardinality(B) - Cardinality(Of(c, p) \cap B)
    BY <1>2, <1>4, FS_Union
  <2> QED
    BY <1>5, <1>6, <2>1
<1> QED
  BY <1>4, <1>7 DEF Count, r

LEMMA CountAppend ==
    ASSUME NEW q \in Seq(Chunks), NEW m \in Chunks, NEW c
    PROVE  Count(c, Append(q, m)) = Count(c, q) + One(c, m.client)
<1> DEFINE r == <<m>>
<1>1. r \in Seq(Chunks) /\ Append(q, m) = q \o r /\ DOMAIN r = {1} /\ r[1] = m
  OBVIOUS
<1> HIDE DEF r
<1>2. Of(c, r) = IF m.client = c THEN {1} ELSE {}
  BY <1>1 DEF Of
<1>3. Count(c, r) = One(c, m.client)
  BY <1>2, FS_EmptySet, FS_Singleton DEF Count, One
<1> QED
  BY <1>1, <1>3, CountConcat

LEMMA CountSplit ==
    ASSUME NEW q \in Seq(Chunks), NEW k \in 0..Len(q), NEW c
    PROVE  /\ SubSeq(q, 1, k) \in Seq(Chunks) /\ SubSeq(q, k + 1, Len(q)) \in Seq(Chunks)
           /\ Count(c, q) = Count(c, SubSeq(q, 1, k)) + Count(c, SubSeq(q, k + 1, Len(q)))
<1>1. Len(q) \in Nat /\ k \in Nat
  BY LenProperties
<1>2. SubSeq(q, 1, k) \in Seq(Chunks) /\ SubSeq(q, k + 1, Len(q)) \in Seq(Chunks)
  BY <1>1
<1>3. SubSeq(q, 1, k) \o SubSeq(q, k + 1, Len(q)) = q
  <2>1. 1 \in 1..(Len(q) + 1) /\ k \in (1 - 1)..Len(q) /\ Len(q) \in k..Len(q)
    BY <1>1
  <2>2. SubSeq(q, 1, k) \o SubSeq(q, k + 1, Len(q)) = SubSeq(q, 1, Len(q))
    BY <2>1, ConcatAdjacentSubSeq
  <2> QED
    BY <2>2, SubSeqFull
<1> DEFINE a == SubSeq(q, 1, k)
           b == SubSeq(q, k + 1, Len(q))
<1>4. a \in Seq(Chunks) /\ b \in Seq(Chunks) /\ a \o b = q
  BY <1>2, <1>3
<1> HIDE DEF a, b
<1>5. Count(c, q) = Count(c, a) + Count(c, b)
  BY <1>4, CountConcat
<1> QED
  BY <1>4, <1>5 DEF a, b

(***************************************************************************)
(* Without: the others' chunks, as many as there were.                     *)
(***************************************************************************)
Kept(c, q, f) ==
    [n \in 0..Len(q) |->
        IF n = 0 THEN <<>> ELSE IF q[n].client = c THEN f[n - 1] ELSE Append(f[n - 1], q[n])]

\* What w keeps of q, if w is q without c's chunks.
Keeps(c, q, w) ==
    /\ w \in Seq(Chunks)
    /\ \A i \in DOMAIN w : w[i].client # c /\ \E j \in DOMAIN q : w[i] = q[j]
    /\ \A d \in Clients : d # c => Count(d, w) = Count(d, q)

LEMMA KeptExists ==
    ASSUME NEW q \in Seq(Chunks), NEW c
    PROVE  \E f : f = Kept(c, q, f)
<1> DEFINE Upto(n, g) ==
        /\ g = [i \in 0..n |-> g[i]] /\ g[0] = <<>>
        /\ \A i \in 1..n : g[i] = IF q[i].client = c THEN g[i - 1] ELSE Append(g[i - 1], q[i])
           T == {n \in Nat : n <= Len(q) => \E g : Upto(n, g)}
<1>1. Len(q) \in Nat
  BY LenProperties
<1>2. 0 \in T
  <2>1. Upto(0, [i \in 0..0 |-> <<>>])
    OBVIOUS
  <2> QED
    BY <2>1
<1>3. ASSUME NEW n \in T PROVE n + 1 \in T
  <2> SUFFICES ASSUME n + 1 <= Len(q) PROVE \E g : Upto(n + 1, g)
    OBVIOUS
  <2>1. n \in Nat /\ n <= Len(q)
    BY <1>1
  <2>2. PICK g : Upto(n, g)
    BY <2>1
  <2> DEFINE last == IF q[n + 1].client = c THEN g[n] ELSE Append(g[n], q[n + 1])
             h == [i \in 0..(n + 1) |-> IF i = n + 1 THEN last ELSE g[i]]
  <2> HIDE DEF last
  <2>3. h[n + 1] = last /\ \A i \in 0..n : h[i] = g[i]
    BY <2>1
  <2>4. h = [i \in 0..(n + 1) |-> h[i]]
    OBVIOUS
  <2> HIDE DEF h
  <2>5. h[n + 1] = IF q[n + 1].client = c THEN h[n] ELSE Append(h[n], q[n + 1])
    BY <2>1, <2>3 DEF last
  <2>6. ASSUME NEW i \in 1..(n + 1)
        PROVE  h[i] = IF q[i].client = c THEN h[i - 1] ELSE Append(h[i - 1], q[i])
    <3>1. CASE i = n + 1
      BY <2>1, <2>5, <3>1
    <3>2. CASE i # n + 1
      <4>1. i \in 1..n /\ i - 1 \in 0..n /\ i \in 0..n
        BY <2>1, <3>2
      <4> QED
        BY <2>2, <2>3, <4>1
    <3> QED
      BY <3>1, <3>2
  <2>7. h[0] = <<>>
    BY <2>1, <2>2, <2>3
  <2>8. Upto(n + 1, h)
    BY <2>4, <2>6, <2>7
  <2> QED
    BY <2>8
<1>4. T = Nat
  BY <1>2, <1>3, Induction
<1> DEFINE N == Len(q)
<1>5. PICK g : Upto(N, g)
  BY <1>1, <1>4
<1>6. ASSUME NEW i \in 0..N PROVE g[i] = Kept(c, q, g)[i]
  <2>1. CASE i = 0
    BY <1>1, <1>5, <2>1 DEF Kept
  <2>2. CASE i # 0
    <3>1. i \in 1..N
      BY <1>1, <2>2
    <3> QED
      BY <1>1, <1>5, <3>1 DEF Kept
  <2> QED
    BY <2>1, <2>2
<1>7. Kept(c, q, g) = [i \in 0..N |-> Kept(c, q, g)[i]]
  BY DEF Kept
<1>8. g = [i \in 0..N |-> g[i]]
  BY <1>5
<1> HIDE DEF N
<1>9. g = Kept(c, q, g)
  BY <1>6, <1>7, <1>8
<1> QED
  BY <1>9

LEMMA WithoutKeeps ==
    ASSUME NEW q \in Seq(Chunks), NEW c
    PROVE  Keeps(c, q, Without(c, q))
<1>1. Without(c, q) = (CHOOSE f : f = Kept(c, q, f))[Len(q)]
  BY Zenon DEF Without, Kept
<1> DEFINE f == CHOOSE f : f = Kept(c, q, f)
<1>2. f = Kept(c, q, f)
  BY KeptExists, Zenon
<1>3. Without(c, q) = f[Len(q)]
  BY <1>1
<1> HIDE DEF f
<1>4. Len(q) \in Nat /\ DOMAIN q = 1..Len(q) /\ \A i \in 1..Len(q) : q[i] \in Chunks
  BY LenProperties, ElementOfSeq
<1>5. /\ f[0] = <<>>
      /\ \A n \in 1..Len(q) : f[n] = IF q[n].client = c THEN f[n - 1] ELSE Append(f[n - 1], q[n])
  <2>1. /\ Kept(c, q, f)[0] = <<>>
        /\ \A n \in 1..Len(q) : Kept(c, q, f)[n]
                 = IF q[n].client = c THEN f[n - 1] ELSE Append(f[n - 1], q[n])
    BY <1>4 DEF Kept
  <2> QED
    BY <1>2, <2>1
<1> DEFINE T == {n \in Nat : n <= Len(q) => Keeps(c, SubSeq(q, 1, n), f[n])}
<1>6. 0 \in T
  <2>1. SubSeq(q, 1, 0) = <<>> /\ f[0] = <<>>
    BY <1>5, SubSeqEmpty
  <2>2. Keeps(c, <<>>, <<>>)
    BY DEF Keeps
  <2> QED
    BY <2>1, <2>2
<1>7. ASSUME NEW n \in T PROVE n + 1 \in T
  <2> SUFFICES ASSUME n + 1 <= Len(q) PROVE Keeps(c, SubSeq(q, 1, n + 1), f[n + 1])
    OBVIOUS
  <2> DEFINE p == SubSeq(q, 1, n)
             m == q[n + 1]
  <2>1. n \in Nat /\ n <= Len(q) /\ n + 1 \in 1..Len(q) /\ m \in Chunks
    BY <1>4
  <2>2. Keeps(c, p, f[n])
    BY <2>1
  <2>3. p \in Seq(Chunks) /\ SubSeq(q, 1, n + 1) = Append(p, m)
    BY <1>4, <2>1
  <2>4. f[n + 1] = IF m.client = c THEN f[n] ELSE Append(f[n], m)
    BY <1>5, <2>1
  <2> DEFINE w == f[n]
  <2>5. w \in Seq(Chunks) /\ DOMAIN p = 1..Len(p) /\ DOMAIN w = 1..Len(w) /\ Len(p) \in Nat /\ Len(w) \in Nat
    BY <2>2, <2>3, LenProperties DEF Keeps
  <2> HIDE DEF p, m, w
  <2>6. /\ DOMAIN Append(p, m) = 1..(Len(p) + 1) /\ Append(p, m)[Len(p) + 1] = m
        /\ \A j \in 1..Len(p) : Append(p, m)[j] = p[j]
    BY <2>1, <2>3, <2>5, AppendProperties
  <2>7. CASE m.client = c
    <3>1. \A i \in DOMAIN w : w[i].client # c /\ \E j \in DOMAIN Append(p, m) : w[i] = Append(p, m)[j]
      <4> SUFFICES ASSUME NEW i \in DOMAIN w
                   PROVE  w[i].client # c /\ \E j \in DOMAIN Append(p, m) : w[i] = Append(p, m)[j]
        OBVIOUS
      <4>1. w[i].client # c /\ \E j \in DOMAIN p : w[i] = p[j]
        BY <2>2 DEF Keeps, w
      <4>2. PICK j \in DOMAIN p : w[i] = p[j]
        BY <4>1
      <4>3. j \in DOMAIN Append(p, m) /\ Append(p, m)[j] = p[j]
        BY <2>5, <2>6
      <4> QED
        BY <4>1, <4>2, <4>3
    <3>2. \A d \in Clients : d # c => Count(d, w) = Count(d, Append(p, m))
      <4> SUFFICES ASSUME NEW d \in Clients, d # c PROVE Count(d, w) = Count(d, Append(p, m))
        OBVIOUS
      <4>1. Count(d, Append(p, m)) = Count(d, p) + 0
        BY <2>1, <2>3, <2>7, CountAppend DEF One
      <4>2. Count(d, w) = Count(d, p) /\ Count(d, p) \in Nat
        BY <2>2, <2>3, CountType DEF Keeps, w
      <4> QED
        BY <4>1, <4>2
    <3> QED
      <4>1. Keeps(c, Append(p, m), w)
        BY <2>5, <3>1, <3>2 DEF Keeps
      <4> QED
        BY <2>3, <2>4, <2>7, <4>1 DEF w
  <2>8. CASE m.client # c
    <3> DEFINE v == Append(w, m)
    <3>1. /\ v \in Seq(Chunks) /\ DOMAIN v = 1..(Len(w) + 1) /\ v[Len(w) + 1] = m
          /\ \A j \in 1..Len(w) : v[j] = w[j]
      BY <2>1, <2>5, AppendProperties DEF m
    <3> HIDE DEF v
    <3>2. ASSUME NEW i \in DOMAIN v
          PROVE  v[i].client # c /\ \E j \in DOMAIN Append(p, m) : v[i] = Append(p, m)[j]
      <4>1. CASE i = Len(w) + 1
        <5>1. v[i] = m /\ Len(p) + 1 \in DOMAIN Append(p, m)
          BY <2>5, <2>6, <3>1, <4>1
        <5> QED
          BY <2>6, <2>8, <5>1
      <4>2. CASE i # Len(w) + 1
        <5>1. i \in DOMAIN w /\ v[i] = w[i]
          BY <2>5, <3>1, <4>2
        <5>2. w[i].client # c /\ \E j \in DOMAIN p : w[i] = p[j]
          BY <2>2, <5>1 DEF Keeps, w
        <5> QED
          BY <2>5, <2>6, <5>1, <5>2
      <4> QED
        BY <4>1, <4>2
    <3>3. \A d \in Clients : d # c => Count(d, v) = Count(d, Append(p, m))
      <4> SUFFICES ASSUME NEW d \in Clients, d # c PROVE Count(d, v) = Count(d, Append(p, m))
        OBVIOUS
      <4>1. Count(d, Append(p, m)) = Count(d, p) + One(d, m.client)
        BY <2>1, <2>3, CountAppend
      <4>2. Count(d, v) = Count(d, w) + One(d, m.client)
        BY <2>1, <2>5, CountAppend DEF v
      <4>3. Count(d, w) = Count(d, p)
        BY <2>2 DEF Keeps, w
      <4> QED
        BY <4>1, <4>2, <4>3
    <3> QED
      <4>1. Keeps(c, Append(p, m), v)
        BY <3>1, <3>2, <3>3 DEF Keeps
      <4> QED
        BY <2>3, <2>4, <2>8, <4>1 DEF v, w
  <2> QED
    BY <2>7, <2>8
<1>8. T = Nat
  BY <1>6, <1>7, Induction
<1>9. Keeps(c, SubSeq(q, 1, Len(q)), f[Len(q)])
  BY <1>4, <1>8
<1> QED
  BY <1>3, <1>9, SubSeqFull

(***************************************************************************)
(* The slot let go: what is written, what goes on waiting, who holds it.   *)
(***************************************************************************)
LEMMA ReachIs ==
    ASSUME NEW q \in Seq(Chunks)
    PROVE  /\ Reach(q) \in 0..Len(q)
           /\ Stops(q) = {} => Reach(q) = Len(q) /\ \A i \in 1..Len(q) : q[i].last
           /\ Stops(q) # {} => /\ Reach(q) \in 1..Len(q) /\ ~q[Reach(q)].last
                               /\ \A i \in 1..(Reach(q) - 1) : q[i].last
<1>1. Len(q) \in Nat /\ DOMAIN q = 1..Len(q)
  BY LenProperties
<1>2. CASE Stops(q) = {}
  BY <1>1, <1>2 DEF Stops, Reach
<1>3. CASE Stops(q) # {}
  <2>1. Stops(q) \in SUBSET Nat
    BY <1>1 DEF Stops
  <2>2. \E x \in Stops(q) : \A y \in Stops(q) : x =< y
    BY <1>3, <2>1, Least
  <2>3. Min(Stops(q)) \in Stops(q) /\ \A y \in Stops(q) : Min(Stops(q)) =< y
    BY <2>2, Zenon DEF Min
  <2>4. Reach(q) \in Stops(q) /\ \A y \in Stops(q) : Reach(q) =< y
    BY <1>3, <2>3 DEF Reach
  <2>5. \A i \in 1..(Reach(q) - 1) : i \notin Stops(q) /\ i \in 1..Len(q)
    BY <1>1, <2>1, <2>4 DEF Stops
  <2> QED
    BY <1>1, <1>3, <2>4, <2>5 DEF Stops
<1> QED
  BY <1>2, <1>3

LEMMA LetGo ==
    ASSUME NEW q \in Seq(Chunks)
    PROVE  /\ Freed(q) \in [owner : Clients \union {Nobody}, waiting : Seq(Chunks)]
           /\ Drained(q) \in Seq(Chunks)
           /\ \A c : Count(c, q) = Count(c, Drained(q)) + Count(c, Freed(q).waiting)
           /\ \A i \in DOMAIN Freed(q).waiting : \E j \in DOMAIN q : Freed(q).waiting[i] = q[j]
           /\ Freed(q).owner # Nobody => \E j \in DOMAIN q : Freed(q).owner = q[j].client
           /\ Freed(q).waiting # <<>> => Freed(q).owner # Nobody
           /\ Drained(q) # <<>> =>
                 \/ Drained(q)[Len(Drained(q))].last
                 \/ Freed(q).owner = Drained(q)[Len(Drained(q))].client
           /\ \A i \in 1..(Len(Drained(q)) - 1) : Drained(q)[i].last
<1> DEFINE k == Reach(q)
           n == Len(q)
           a == SubSeq(q, 1, k)
           b == SubSeq(q, k + 1, n)
<1>1. n \in Nat /\ k \in 0..n /\ DOMAIN q = 1..n /\ \A i \in 1..n : q[i] \in Chunks
  BY ReachIs, LenProperties, ElementOfSeq
<1>2. /\ a \in Seq(Chunks) /\ b \in Seq(Chunks) /\ Len(a) = k /\ Len(b) = n - k
      /\ DOMAIN a = 1..k /\ DOMAIN b = 1..(n - k)
      /\ \A i \in 1..k : a[i] = q[i]
      /\ \A i \in 1..(n - k) : b[i] = q[i + k]
  <2>1. /\ a \in Seq(Chunks) /\ Len(a) = k /\ \A i \in 1..k : a[i] = q[i]
    <3> HIDE DEF k, n
    <3> QED
      BY <1>1
  <2>2. /\ b \in Seq(Chunks) /\ Len(b) = n - k /\ \A i \in 1..(n - k) : b[i] = q[i + k]
    <3> HIDE DEF k, n
    <3>1. \A i \in 1..n - (k + 1) + 1 : b[i] = q[(k + 1) + i - 1]
      BY <1>1
    <3>2. \A i \in 1..(n - k) : i \in 1..n - (k + 1) + 1 /\ (k + 1) + i - 1 = i + k
      BY <1>1
    <3>3. b \in Seq(Chunks) /\ Len(b) = n - k
      BY <1>1
    <3> QED
      BY <3>1, <3>2, <3>3
  <2> QED
    BY <2>1, <2>2, LenProperties
<1>3. \A c : Count(c, q) = Count(c, a) + Count(c, b)
  BY <1>1, CountSplit
<1>4. \A i \in 1..n : q[i].client \in Clients /\ q[i].client # Nobody
  BY <1>1 DEF Chunks, Clients, Nobody
<1>5. Drained(q) = a /\ Freed(q) = [owner |-> HolderAfter(q), waiting |-> b]
  BY DEF Drained, Freed
<1>6. /\ HolderAfter(q) = IF Stops(q) = {} THEN Nobody ELSE q[k].client
      /\ Stops(q) = {} => k = n /\ \A i \in 1..n : q[i].last
      /\ Stops(q) # {} => k \in 1..n /\ ~q[k].last /\ \A i \in 1..(k - 1) : q[i].last
  BY ReachIs DEF HolderAfter
<1> HIDE DEF k, n, a, b
<1>7. HolderAfter(q) \in Clients \union {Nobody}
  BY <1>4, <1>6
<1>8. \A i \in DOMAIN b : \E j \in DOMAIN q : b[i] = q[j]
  <2> SUFFICES ASSUME NEW i \in DOMAIN b PROVE \E j \in DOMAIN q : b[i] = q[j]
    OBVIOUS
  <2>1. i + k \in DOMAIN q /\ b[i] = q[i + k]
    BY <1>1, <1>2
  <2> QED
    BY <2>1
<1>9. HolderAfter(q) # Nobody => \E j \in DOMAIN q : HolderAfter(q) = q[j].client
  BY <1>1, <1>6
<1>10. b # <<>> => HolderAfter(q) # Nobody
  <2>1. b # <<>> => n - k # 0
    BY <1>2, EmptySeq
  <2> QED
    BY <1>1, <1>4, <1>6, <2>1
<1>11. a # <<>> => a[Len(a)].last \/ HolderAfter(q) = a[Len(a)].client
  <2>1. a # <<>> => k \in 1..n /\ k \in 1..k
    BY <1>1, <1>2, EmptySeq
  <2>2. a # <<>> => a[Len(a)] = q[k]
    BY <1>2, <2>1
  <2> QED
    BY <1>6, <2>1, <2>2
<1>12. \A i \in 1..(Len(a) - 1) : a[i].last
  BY <1>1, <1>2, <1>6
<1> QED
  BY <1>2, <1>3, <1>5, <1>7, <1>8, <1>9, <1>10, <1>11, <1>12

(***************************************************************************)
(* The client's side: the queue, the credit and the wire.                  *)
(***************************************************************************)
Pasting == [queue : Seq(Chunks), inFlight : Nat, pastes : 0..MaxPastes, gaveUp : BOOLEAN]
Own(c, chunks) == \A i \in DOMAIN chunks : chunks[i].client = c

LEMMA OwnConcat ==
    ASSUME NEW p \in Seq(Chunks), NEW q \in Seq(Chunks), NEW c, Own(c, p), Own(c, q)
    PROVE  Own(c, p \o q)
<1>1. /\ Len(p) \in Nat /\ Len(q) \in Nat /\ DOMAIN p = 1..Len(p) /\ DOMAIN q = 1..Len(q)
      /\ DOMAIN (p \o q) = 1..(Len(p) + Len(q))
      /\ \A i \in 1..Len(p) : (p \o q)[i] = p[i]
      /\ \A i \in (Len(p) + 1)..(Len(p) + Len(q)) : (p \o q)[i] = q[i - Len(p)]
  BY LenProperties, ConcatProperties
<1>2. ASSUME NEW i \in 1..(Len(p) + Len(q)) PROVE (p \o q)[i].client = c
  <2>1. CASE i \in 1..Len(p)
    BY <1>1, <2>1 DEF Own
  <2>2. CASE i \notin 1..Len(p)
    <3>1. i \in (Len(p) + 1)..(Len(p) + Len(q)) /\ i - Len(p) \in 1..Len(q)
      BY <1>1, <2>2
    <3> QED
      BY <1>1, <3>1 DEF Own
  <2> QED
    BY <2>1, <2>2
<1> QED
  BY <1>1, <1>2 DEF Own

LEMMA OwnPart ==
    ASSUME NEW q \in Seq(Chunks), NEW c, Own(c, q), NEW k \in 0..Len(q)
    PROVE  /\ SubSeq(q, 1, k) \in Seq(Chunks) /\ Len(SubSeq(q, 1, k)) = k
           /\ SubSeq(q, k + 1, Len(q)) \in Seq(Chunks)
           /\ Own(c, SubSeq(q, 1, k)) /\ Own(c, SubSeq(q, k + 1, Len(q)))
<1> DEFINE n == Len(q)
           a == SubSeq(q, 1, k)
           b == SubSeq(q, k + 1, n)
<1>1. n \in Nat /\ DOMAIN q = 1..n /\ k \in 0..n /\ n = Len(q) /\ \A i \in 1..n : q[i] \in Chunks
  BY LenProperties, ElementOfSeq
<1>0. n \in Nat /\ k \in 0..n
  BY <1>1
<1> HIDE DEF n
<1>2. /\ a \in Seq(Chunks) /\ Len(a) = k /\ \A i \in 1..k : a[i] = q[i]
  BY <1>1
<1>3. /\ b \in Seq(Chunks) /\ Len(b) = n - k /\ \A i \in 1..(n - k) : b[i] = q[i + k]
  <2>1. \A i \in 1..n - (k + 1) + 1 : b[i] = q[(k + 1) + i - 1]
    BY <1>1
  <2>2. \A i \in 1..(n - k) : i \in 1..n - (k + 1) + 1 /\ (k + 1) + i - 1 = i + k
    BY <1>1
  <2>3. b \in Seq(Chunks) /\ Len(b) = n - k
    <3>1. k + 1 \in Int /\ n \in Int /\ \A i \in (k + 1)..n : q[i] \in Chunks
      BY <1>1
    <3>2. b \in Seq(Chunks) /\ Len(b) = IF k + 1 <= n THEN n - (k + 1) + 1 ELSE 0
      BY <3>1, SubSeqProperties
    <3>3. CASE k = n
      BY <1>1, <3>2, <3>3
    <3>4. CASE k # n
      <4>1. k \in Int /\ n \in Int /\ k < n
        BY <1>0, <3>4
      <4>2. k + 1 <= n /\ (n - (k + 1)) + 1 = n - k
        BY <4>1
      <4> QED
        BY <3>2, <4>2
    <3> QED
      BY <3>3, <3>4
  <2> QED
    BY <2>1, <2>2, <2>3
<1> HIDE DEF a, b
<1>4. DOMAIN a = 1..k /\ DOMAIN b = 1..(n - k)
  BY <1>1, <1>2, <1>3, LenProperties DEF n
<1>5. Own(c, a)
  BY <1>1, <1>2, <1>4 DEF Own, n
<1>6. Own(c, b)
  <2>1. \A i \in 1..(n - k) : i + k \in 1..n
    BY <1>1
  <2> QED
    BY <1>1, <1>3, <1>4, <2>1 DEF Own
<1> QED
  BY <1>2, <1>3, <1>5, <1>6 DEF n, a, b

LEMMA OutstandingIs == \A c : Outstanding(c) = Len(wire[c]) + Count(c, slot.waiting) + acks[c]
BY DEF Outstanding, Count

\* Sending as the credit allows moves chunks from the queue to the wire, each
\* of them counted, and never counts past the credit.
LEMMA PumpKeeps ==
    ASSUME TypeOK, ChunksAreOwn, NEW c \in Clients, NEW p \in Pasting, Pump(c, p),
           Own(c, p.queue), UNCHANGED <<conn, slot, term, written>>,
           acks' \in [Clients -> Nat], \A d \in Clients : d # c => acks'[d] = acks[d],
           CreditIsCounted, p.inFlight <= Credit,
           ~p.gaveUp => ~pasting[c].gaveUp
                        /\ Len(wire[c]) + Count(c, slot.waiting) + acks'[c] <= p.inFlight,
           conn[c].open /\ term # "killed"
               => p.inFlight <= Len(wire[c]) + Count(c, slot.waiting) + acks'[c]
    PROVE  /\ pasting' \in [Clients -> Pasting] /\ wire' \in [Clients -> Seq(Chunks)]
           /\ ChunksAreOwn' /\ CreditIsCounted'
<1> DEFINE k == Pumpable(p)
           n == Len(p.queue)
           a == SubSeq(p.queue, 1, k)
           b == SubSeq(p.queue, k + 1, n)
           w == wire[c] \o a
<1>1. p.queue \in Seq(Chunks) /\ p.inFlight \in Nat /\ n \in Nat /\ Credit \in Nat
  BY LenProperties, CreditAssumption DEF Pasting
<1>2. k \in 0..n /\ p.inFlight + k <= Credit /\ k \in Nat
  BY <1>1 DEF Pumpable
<1>3. /\ a \in Seq(Chunks) /\ Len(a) = k /\ b \in Seq(Chunks) /\ Own(c, a) /\ Own(c, b)
  BY <1>1, <1>2, OwnPart
<1>4. wire[c] \in Seq(Chunks) /\ Own(c, wire[c]) /\ Len(wire[c]) \in Nat
  BY LenProperties DEF TypeOK, ChunksAreOwn, Own
<1>5. w \in Seq(Chunks) /\ Own(c, w) /\ Len(w) = Len(wire[c]) + k
  <2> HIDE DEF a, b, k, n
  <2> QED
    BY <1>3, <1>4, OwnConcat, ConcatProperties
<1>6. Pumped(p) = [p EXCEPT !.queue = b, !.inFlight = @ + k]
  BY DEF Pumped
<1> DEFINE u == [p EXCEPT !.queue = b]
           j == p.inFlight + k
           v == [u EXCEPT !.inFlight = j]
<1>7. Pumped(p) = v
  BY <1>6 DEF Pasting
<1> HIDE DEF a, b, k, n, w, j
<1>8. u \in Pasting /\ u.queue = b /\ u.inFlight = p.inFlight /\ u.gaveUp = p.gaveUp
  BY <1>3 DEF Pasting
<1> HIDE DEF u
<1>9. v \in Pasting /\ v.queue = b /\ v.inFlight = p.inFlight + k /\ v.gaveUp = p.gaveUp
  <2>1. j \in Nat /\ j = p.inFlight + k
    BY <1>1, <1>2 DEF j
  <2>2. v \in Pasting /\ v.queue = b /\ v.inFlight = j /\ v.gaveUp = p.gaveUp
    BY <1>8, <2>1 DEF Pasting
  <2> QED
    BY <2>1, <2>2
<1> HIDE DEF v
<1>10. pasting' = [pasting EXCEPT ![c] = v] /\ wire' = [wire EXCEPT ![c] = w]
  BY <1>7 DEF Pump, a, k, w
<1>11. pasting \in [Clients -> Pasting] /\ wire \in [Clients -> Seq(Chunks)]
  BY DEF TypeOK, Pasting
<1>12. /\ pasting' \in [Clients -> Pasting] /\ pasting'[c] = v
       /\ \A d \in Clients : d # c => pasting'[d] = pasting[d]
  BY <1>9, <1>10, <1>11
<1>13. /\ wire' \in [Clients -> Seq(Chunks)] /\ wire'[c] = w
       /\ \A d \in Clients : d # c => wire'[d] = wire[d]
  BY <1>5, <1>10, <1>11
<1>14. ChunksAreOwn'
  <2> SUFFICES ASSUME NEW d \in Clients PROVE Own(d, pasting'[d].queue) /\ Own(d, wire'[d])
    BY DEF ChunksAreOwn, Own
  <2>1. CASE d = c
    BY <1>3, <1>5, <1>9, <1>12, <1>13, <2>1
  <2>2. CASE d # c
    BY <1>12, <1>13, <2>2 DEF ChunksAreOwn, Own
  <2> QED
    BY <2>1, <2>2
<1>15. CreditIsCounted'
  <2> SUFFICES ASSUME NEW d \in Clients
               PROVE  /\ pasting'[d].inFlight <= Credit
                      /\ ~pasting'[d].gaveUp => Outstanding(d)' <= pasting'[d].inFlight
                      /\ conn[d].open /\ term # "killed"
                            => pasting'[d].inFlight <= Outstanding(d)'
    BY DEF CreditIsCounted
  <2>1. Outstanding(d)' = Len(wire'[d]) + Count(d, slot.waiting) + acks'[d]
    BY DEF Outstanding, Count
  <2>2. CASE d # c
    <3>1. Outstanding(d)' = Outstanding(d)
      BY <1>13, <2>1, <2>2, OutstandingIs
    <3> QED
      BY <1>12, <2>2, <3>1 DEF CreditIsCounted
  <2>3. CASE d = c
    <3>1. slot.waiting \in Seq(Chunks)
      BY DEF TypeOK
    <3>2. Count(c, slot.waiting) \in Nat /\ acks'[c] \in Nat
      BY <3>1, CountType
    <3>3. Outstanding(c)' = (Len(wire[c]) + Count(c, slot.waiting) + acks'[c]) + k
      BY <1>2, <1>4, <1>5, <1>13, <2>1, <2>3, <3>2
    <3> QED
      BY <1>1, <1>2, <1>4, <1>9, <1>12, <2>3, <3>2, <3>3
  <2> QED
    BY <2>2, <2>3
<1> QED
  BY <1>12, <1>13, <1>14, <1>15

\* What a client does by itself touches neither the slot nor what is written.
LEMMA ServerAlone ==
    ASSUME IInv, UNCHANGED <<conn, slot, term, written>>
    PROVE  SlotIsHeld' /\ WriterHolds' /\ NotInterleaved'
BY DEF IInv, SlotIsHeld, WriterHolds, NotInterleaved

LEMMA PasteStep == ASSUME IInv, NEW c \in Clients, Paste(c) PROVE IInv'
<1>1. PICK n \in 1..MaxChunks :
         Pump(c, [pasting[c] EXCEPT !.queue = @ \o CutInto(c, n), !.pastes = @ + 1])
  BY DEF Paste
<1> DEFINE x == pasting[c]
           cut == CutInto(c, n)
           u == [x EXCEPT !.queue = x.queue \o cut]
           j == x.pastes + 1
           p == [u EXCEPT !.pastes = j]
<1>2. /\ x \in Pasting /\ x.queue \in Seq(Chunks) /\ Own(c, x.queue) /\ x.pastes \in 0..MaxPastes
      /\ x.pastes < MaxPastes /\ x.inFlight \in Nat /\ MaxPastes \in Nat /\ MaxChunks \in Nat
  BY BoundAssumption DEF IInv, TypeOK, ChunksAreOwn, Own, Pasting, Paste
<1>3. UNCHANGED <<acks, conn, slot, term, written, acts>>
  BY DEF Paste
<1>4. cut \in Seq(Chunks) /\ Own(c, cut)
  <2>1. cut = [i \in 1..n |-> [client |-> c, paste |-> x.pastes + 1, at |-> i, last |-> i = n]]
    BY DEF CutInto
  <2>2. \A i \in 1..n : cut[i] \in Chunks /\ cut[i].client = c
    BY <1>2, <2>1 DEF Chunks
  <2>3. cut \in [1..n -> Chunks] /\ n \in Nat /\ DOMAIN cut = 1..n
    BY <2>1, <2>2
  <2> HIDE DEF cut
  <2>4. cut \in Seq(Chunks)
    BY <2>3, IsASeq
  <2> QED
    BY <2>2, <2>3, <2>4 DEF Own
<1>5. [pasting[c] EXCEPT !.queue = @ \o CutInto(c, n), !.pastes = @ + 1] = p
  BY <1>2 DEF Pasting
<1> HIDE DEF cut
<1>6. x.queue \o cut \in Seq(Chunks) /\ Own(c, x.queue \o cut)
  BY <1>2, <1>4, OwnConcat, ConcatProperties
<1>7. /\ u \in Pasting /\ u.queue = x.queue \o cut /\ u.pastes = x.pastes
      /\ u.inFlight = x.inFlight /\ u.gaveUp = x.gaveUp
  <2> HIDE DEF x
  <2> QED
    BY <1>2, <1>6 DEF Pasting
<1> HIDE DEF u
<1>8. /\ p \in Pasting /\ p.queue = x.queue \o cut /\ p.inFlight = x.inFlight /\ p.gaveUp = x.gaveUp
  <2>1. j \in 0..MaxPastes
    BY <1>2
  <2> HIDE DEF x, j
  <2> QED
    BY <1>7, <2>1 DEF Pasting
<1> HIDE DEF p
<1>9. Pump(c, p)
  BY <1>1, <1>5
<1>10. /\ p.inFlight <= Credit
       /\ ~p.gaveUp => ~pasting[c].gaveUp
              /\ Len(wire[c]) + Count(c, slot.waiting) + acks'[c] <= p.inFlight
       /\ conn[c].open /\ term # "killed"
              => p.inFlight <= Len(wire[c]) + Count(c, slot.waiting) + acks'[c]
  BY <1>3, <1>8, OutstandingIs DEF IInv, CreditIsCounted
<1>11. acks' \in [Clients -> Nat] /\ \A d \in Clients : d # c => acks'[d] = acks[d]
  BY <1>3 DEF IInv, TypeOK
<1>12. /\ pasting' \in [Clients -> Pasting] /\ wire' \in [Clients -> Seq(Chunks)]
       /\ ChunksAreOwn' /\ CreditIsCounted'
  <2>1. TypeOK /\ ChunksAreOwn /\ CreditIsCounted /\ Own(c, p.queue)
    BY <1>6, <1>8 DEF IInv
  <2> QED
    BY <1>3, <1>8, <1>9, <1>10, <1>11, <2>1, PumpKeeps
<1>13. TypeOK'
  BY <1>3, <1>11, <1>12 DEF IInv, TypeOK, Pasting
<1> QED
  BY <1>3, <1>12, <1>13, ServerAlone DEF IInv

LEMMA ReceiveAckStep == ASSUME IInv, NEW c \in Clients, ReceiveAck(c) PROVE IInv'
<1> DEFINE x == pasting[c]
           m == IF x.inFlight > 0 THEN x.inFlight - 1 ELSE 0
           p == [x EXCEPT !.inFlight = m]
<1>1. /\ x \in Pasting /\ Own(c, x.queue) /\ x.inFlight \in Nat /\ m \in Nat
      /\ acks \in [Clients -> Nat]
  BY DEF IInv, TypeOK, ChunksAreOwn, Own, Pasting
<1>2. /\ UNCHANGED <<conn, slot, term, written, acts>> /\ acks[c] > 0
      /\ acks' = [acks EXCEPT ![c] = @ - 1] /\ Pump(c, p)
  BY DEF ReceiveAck
<1>3. /\ p \in Pasting /\ p.queue = x.queue /\ p.inFlight = m /\ p.gaveUp = x.gaveUp
  <2> HIDE DEF x, m
  <2> QED
    BY <1>1 DEF Pasting
<1> HIDE DEF p
<1>4. /\ acks' \in [Clients -> Nat] /\ acks'[c] = acks[c] - 1 /\ acks[c] \in Nat
      /\ \A d \in Clients : d # c => acks'[d] = acks[d]
  BY <1>1, <1>2
<1>5. /\ Len(wire[c]) \in Nat /\ Count(c, slot.waiting) \in Nat /\ Credit \in Nat
  BY CountType, LenProperties, CreditAssumption DEF IInv, TypeOK
<1>6. /\ x.inFlight <= Credit
      /\ ~x.gaveUp => Len(wire[c]) + Count(c, slot.waiting) + acks[c] <= x.inFlight
      /\ conn[c].open /\ term # "killed"
            => x.inFlight <= Len(wire[c]) + Count(c, slot.waiting) + acks[c]
  BY OutstandingIs DEF IInv, CreditIsCounted
<1>7. /\ p.inFlight <= Credit
      /\ ~p.gaveUp => ~pasting[c].gaveUp
             /\ Len(wire[c]) + Count(c, slot.waiting) + acks'[c] <= p.inFlight
      /\ conn[c].open /\ term # "killed"
             => p.inFlight <= Len(wire[c]) + Count(c, slot.waiting) + acks'[c]
  <2>1. (x.inFlight = 0 /\ m = 0) \/ (x.inFlight > 0 /\ m = x.inFlight - 1)
    BY <1>1
  <2> HIDE DEF x, m
  <2>2. p.inFlight <= Credit
    BY <1>1, <1>3, <1>5, <1>6, <2>1
  <2>3. ~p.gaveUp => ~pasting[c].gaveUp
             /\ Len(wire[c]) + Count(c, slot.waiting) + acks'[c] <= p.inFlight
    BY <1>1, <1>2, <1>3, <1>4, <1>5, <1>6, <2>1 DEF x
  <2>4. conn[c].open /\ term # "killed"
             => p.inFlight <= Len(wire[c]) + Count(c, slot.waiting) + acks'[c]
    BY <1>1, <1>2, <1>3, <1>4, <1>5, <1>6, <2>1
  <2> QED
    BY <2>2, <2>3, <2>4
<1>8. /\ pasting' \in [Clients -> Pasting] /\ wire' \in [Clients -> Seq(Chunks)]
      /\ ChunksAreOwn' /\ CreditIsCounted'
  <2>1. TypeOK /\ ChunksAreOwn /\ CreditIsCounted /\ Own(c, p.queue)
    BY <1>1, <1>3 DEF IInv
  <2> QED
    BY <1>2, <1>3, <1>4, <1>7, <2>1, PumpKeeps
<1>9. TypeOK'
  BY <1>2, <1>4, <1>8 DEF IInv, TypeOK, Pasting
<1> QED
  BY <1>2, <1>8, <1>9, ServerAlone DEF IInv

LEMMA AbandonStep == ASSUME IInv, NEW c \in Clients, Abandon(c) PROVE IInv'
<1> DEFINE x == pasting[c]
           u == [x EXCEPT !.queue = <<>>]
           v == [u EXCEPT !.inFlight = 0]
           p == [v EXCEPT !.gaveUp = TRUE]
<1>1. /\ x \in Pasting /\ pasting \in [Clients -> Pasting] /\ acts \in 0..MaxActs
      /\ acts < MaxActs /\ acts' = acts + 1 /\ MaxActs \in Nat
      /\ UNCHANGED <<wire, acks, conn, slot, term, written>>
  BY BoundAssumption DEF IInv, TypeOK, Pasting, Abandon
<1>2. pasting' = [pasting EXCEPT ![c] = p]
  BY <1>1 DEF Abandon, Pasting
<1>3. p \in Pasting /\ p.queue = <<>> /\ p.inFlight = 0 /\ p.gaveUp
  <2> HIDE DEF x
  <2>1. u \in Pasting /\ u.queue = <<>>
    <3>1. <<>> \in Seq(Chunks)
      OBVIOUS
    <3> QED
      BY <1>1, <3>1 DEF Pasting
  <2> HIDE DEF u
  <2>2. v \in Pasting /\ v.queue = <<>> /\ v.inFlight = 0
    BY <2>1 DEF Pasting
  <2> HIDE DEF v
  <2> QED
    BY <2>2 DEF Pasting
<1> HIDE DEF p
<1>4. /\ pasting' \in [Clients -> Pasting] /\ pasting'[c] = p
      /\ \A d \in Clients : d # c => pasting'[d] = pasting[d]
  BY <1>1, <1>2, <1>3
<1>5. TypeOK'
  <2>1. acts' \in 0..MaxActs
    BY <1>1
  <2>2. pasting' \in [Clients -> [queue : Seq(Chunks), inFlight : Nat,
                                  pastes : 0..MaxPastes, gaveUp : BOOLEAN]]
    BY <1>4 DEF Pasting
  <2> QED
    BY <1>1, <2>1, <2>2 DEF IInv, TypeOK
<1>6. ChunksAreOwn'
  BY <1>1, <1>3, <1>4 DEF IInv, ChunksAreOwn
<1>7. CreditIsCounted'
  <2> SUFFICES ASSUME NEW d \in Clients
               PROVE  /\ pasting'[d].inFlight <= Credit
                      /\ ~pasting'[d].gaveUp => Outstanding(d) <= pasting'[d].inFlight
                      /\ conn[d].open /\ term # "killed" => pasting'[d].inFlight <= Outstanding(d)
    BY <1>1 DEF CreditIsCounted, Outstanding
  <2>1. CASE d # c
    BY <1>4, <2>1 DEF IInv, CreditIsCounted
  <2>2. CASE d = c
    <3>1. Len(wire[c]) \in Nat /\ Count(c, slot.waiting) \in Nat /\ acks[c] \in Nat
      BY CountType, LenProperties DEF IInv, TypeOK
    <3>2. 0 <= Outstanding(c) /\ 0 <= Credit
      BY <3>1, OutstandingIs, CreditAssumption
    <3> QED
      BY <1>3, <1>4, <2>2, <3>2
  <2> QED
    BY <2>1, <2>2
<1> QED
  BY <1>1, <1>5, <1>6, <1>7, ServerAlone DEF IInv

(***************************************************************************)
(* The server's handlers.                                                  *)
(***************************************************************************)
\* A handler takes the first chunk on the wire.
LEMMA TakeIs ==
    ASSUME IInv, NEW c \in Clients, Take(c)
    PROVE  /\ UNCHANGED <<pasting, conn, term, acts>> /\ conn[c].open
           /\ Arriving(c) \in Chunks /\ Arriving(c).client = c
           /\ wire' \in [Clients -> Seq(Chunks)] /\ ChunksAreOwn'
           /\ \A d \in Clients : Len(wire[d]) \in Nat /\ Len(wire'[d]) = Len(wire[d]) - One(d, c)
<1> DEFINE w == wire[c]
           n == Len(w)
<1>1. /\ w \in Seq(Chunks) /\ w # <<>> /\ Own(c, w) /\ wire \in [Clients -> Seq(Chunks)]
  BY DEF IInv, TypeOK, ChunksAreOwn, Own, Take
<1>2. n \in Nat /\ n # 0 /\ DOMAIN w = 1..n /\ 1 \in 1..n /\ \A i \in 1..n : w[i] \in Chunks
  BY <1>1, LenProperties, EmptySeq, ElementOfSeq
<1>3. /\ Head(w) = w[1] /\ Tail(w) \in Seq(Chunks) /\ Len(Tail(w)) = n - 1
      /\ \A i \in 1..(n - 1) : Tail(w)[i] = w[i + 1]
  BY <1>1, HeadTailProperties
<1>4. wire' = [wire EXCEPT ![c] = Tail(w)] /\ UNCHANGED <<pasting, conn, term, acts>> /\ conn[c].open
  BY DEF Take
<1>5. Own(c, Tail(w))
  <2>1. DOMAIN Tail(w) = 1..(n - 1)
    BY <1>3, LenProperties
  <2>2. \A i \in 1..(n - 1) : i + 1 \in 1..n
    BY <1>2
  <2> HIDE DEF w, n
  <2> QED
    BY <1>1, <1>2, <1>3, <2>1, <2>2 DEF Own
<1>6. /\ wire' \in [Clients -> Seq(Chunks)] /\ wire'[c] = Tail(w)
      /\ \A d \in Clients : d # c => wire'[d] = wire[d]
  BY <1>1, <1>3, <1>4
<1>7. ChunksAreOwn'
  <2> SUFFICES ASSUME NEW d \in Clients PROVE Own(d, pasting[d].queue) /\ Own(d, wire'[d])
    BY <1>4 DEF ChunksAreOwn, Own
  <2>1. Own(d, pasting[d].queue) /\ Own(d, wire[d])
    BY DEF IInv, ChunksAreOwn, Own
  <2> QED
    BY <1>5, <1>6, <2>1
<1>8. Arriving(c) \in Chunks /\ Arriving(c).client = c
  BY <1>1, <1>2, <1>3 DEF Arriving, Own
<1>9. ASSUME NEW d \in Clients
      PROVE  Len(wire[d]) \in Nat /\ Len(wire'[d]) = Len(wire[d]) - One(d, c)
  <2>1. Len(wire[d]) \in Nat
    BY <1>1, LenProperties
  <2>2. CASE d = c
    BY <1>2, <1>3, <1>6, <2>2 DEF One
  <2>3. CASE d # c
    BY <1>6, <2>1, <2>3 DEF One
  <2> QED
    BY <2>1, <2>2, <2>3
<1> QED
  BY <1>4, <1>6, <1>7, <1>8, <1>9

\* Acks are numbers, and one for each chunk.
LEMMA AckedIs ==
    ASSUME IInv, NEW q \in Seq(Chunks)
    PROVE  /\ Acked(q) \in [Clients -> Nat]
           /\ \A d \in Clients : Acked(q)[d] = acks[d] + Count(d, q)
<1>1. \A d \in Clients : acks[d] \in Nat /\ Count(d, q) \in Nat
  BY CountType DEF IInv, TypeOK
<1> QED
  BY <1>1 DEF Acked, Count

\* With the terminal gone nothing is written and nobody holds the slot.
LEMMA Emptied ==
    ASSUME IInv, slot' = FreeSlot, term' # "open", UNCHANGED <<conn, written>>
    PROVE  SlotIsHeld' /\ WriterHolds' /\ NotInterleaved'
<1>1. slot'.owner = Nobody /\ slot'.waiting = <<>>
  BY DEF FreeSlot
<1>2. SlotIsHeld'
  BY <1>1 DEF SlotIsHeld
<1>3. WriterHolds'
  BY DEF WriterHolds
<1>4. NotInterleaved'
  BY DEF IInv, NotInterleaved
<1> QED
  BY <1>2, <1>3, <1>4

\* What a handler takes from one place it puts into another.
LEMMA NothingLost ==
    ASSUME IInv, UNCHANGED pasting, term' = "killed" \/ term # "killed" ,
           \A d \in Clients : conn'[d].open => conn[d].open,
           \A d \in Clients : Len(wire'[d]) + Count(d, slot'.waiting) + acks'[d] = Outstanding(d)
    PROVE  CreditIsCounted'
<1> SUFFICES ASSUME NEW d \in Clients
             PROVE  /\ pasting[d].inFlight <= Credit
                    /\ ~pasting[d].gaveUp => Outstanding(d)' <= pasting[d].inFlight
                    /\ conn'[d].open /\ term' # "killed" => pasting[d].inFlight <= Outstanding(d)'
  BY DEF CreditIsCounted
<1>1. Outstanding(d)' = Outstanding(d)
  BY DEF Outstanding, Count
<1> QED
  BY <1>1 DEF IInv, CreditIsCounted

LEMMA DiscardStep == ASSUME IInv, NEW c \in Clients, DiscardChunk(c) PROVE IInv'
<1>1. /\ Take(c) /\ acks' = [acks EXCEPT ![c] = @ + 1] /\ UNCHANGED <<slot, written>>
  BY DEF DiscardChunk
<1>2. acks \in [Clients -> Nat] /\ \A d \in Clients : Len(wire[d]) \in Nat /\ Count(d, slot.waiting) \in Nat
  BY CountType, LenProperties DEF IInv, TypeOK
<1>3. /\ acks' \in [Clients -> Nat] /\ acks'[c] = acks[c] + 1
      /\ \A d \in Clients : d # c => acks'[d] = acks[d]
  BY <1>1, <1>2
<1>4. ASSUME NEW d \in Clients
      PROVE  Len(wire'[d]) + Count(d, slot'.waiting) + acks'[d] = Outstanding(d)
  <2>1. Outstanding(d) = Len(wire[d]) + Count(d, slot.waiting) + acks[d]
    BY OutstandingIs
  <2>2. /\ Len(wire[d]) \in Nat /\ Count(d, slot.waiting) \in Nat /\ acks[d] \in Nat
        /\ Len(wire'[d]) = Len(wire[d]) - One(d, c)
    BY <1>1, <1>2, TakeIs
  <2>3. Count(d, slot'.waiting) = Count(d, slot.waiting) + 0
    BY <1>1, <2>2
  <2>4. acks'[d] = acks[d] + (One(d, c) - 0) /\ One(d, c) \in 0..1
    BY <1>3, <2>2 DEF One
  <2>5. acks'[d] = acks[d] + One(d, c)
    BY <2>2, <2>4
  <2>6. Len(wire'[d]) + Count(d, slot.waiting) + acks'[d]
            = Len(wire[d]) + Count(d, slot.waiting) + acks[d]
    <3>1. Len(wire[d]) \in Nat /\ Count(d, slot.waiting) \in Nat /\ acks[d] \in Nat /\ One(d, c) \in 0..1
      BY <2>2, <2>4
    <3>2. (Len(wire[d]) - One(d, c)) + Count(d, slot.waiting) + (acks[d] + One(d, c))
              = Len(wire[d]) + Count(d, slot.waiting) + acks[d]
      BY <3>1
    <3> QED
      BY <2>2, <2>5, <3>2
  <2>7. Count(d, slot'.waiting) = Count(d, slot.waiting)
    BY <2>2, <2>3
  <2>8. Len(wire'[d]) + Count(d, slot'.waiting) + acks'[d]
            = Len(wire[d]) + Count(d, slot.waiting) + acks[d]
    BY <2>6, <2>7
  <2> QED
    BY <2>1, <2>8
<1>5. CreditIsCounted'
  BY <1>1, <1>4, TakeIs, NothingLost
<1>6. TypeOK'
  BY <1>1, <1>3, TakeIs DEF IInv, TypeOK
<1>7. ChunksAreOwn' /\ UNCHANGED <<conn, slot, term, written>>
  BY <1>1, TakeIs
<1> QED
  BY <1>5, <1>6, <1>7, ServerAlone DEF IInv

LEMMA ForgetStep == ASSUME IInv, NEW c \in Clients, ForgetChunk(c) PROVE IInv'
<1> DEFINE m == Arriving(c)
           q == Append(slot.waiting, m)
<1>1. /\ Take(c) /\ acks' = Acked(q) /\ slot' = FreeSlot /\ UNCHANGED written /\ term # "open"
  BY DEF ForgetChunk
<1>2. slot.waiting \in Seq(Chunks) /\ m \in Chunks /\ m.client = c /\ q \in Seq(Chunks)
      /\ acks \in [Clients -> Nat]
  BY <1>1, TakeIs, AppendProperties DEF IInv, TypeOK
<1> HIDE DEF m, q
<1>3. acks' \in [Clients -> Nat] /\ \A d \in Clients : acks'[d] = acks[d] + Count(d, q)
  BY <1>1, <1>2, AckedIs
<1>4. FreeSlot \in [owner : Clients \union {Nobody}, waiting : Seq(Chunks)] /\ FreeSlot.owner = Nobody
      /\ FreeSlot.waiting = <<>>
  BY DEF FreeSlot
<1>5. \A d \in Clients : Len(wire'[d]) + Count(d, slot'.waiting) + acks'[d] = Outstanding(d)
  <2> SUFFICES ASSUME NEW d \in Clients
               PROVE  Len(wire'[d]) + Count(d, <<>>) + acks'[d] = Outstanding(d)
    BY <1>1, <1>4
  <2>1. Count(d, <<>>) = 0
    BY CountEmpty
  <2>2. Count(d, q) = Count(d, slot.waiting) + One(d, c)
    BY <1>2, CountAppend DEF q
  <2>3. /\ Len(wire[d]) \in Nat /\ Count(d, slot.waiting) \in Nat /\ acks[d] \in Nat
        /\ Len(wire'[d]) = Len(wire[d]) - One(d, c)
    BY <1>1, <1>2, CountType, TakeIs
  <2>4. Outstanding(d) = Len(wire[d]) + Count(d, slot.waiting) + acks[d]
    BY OutstandingIs
  <2>5. acks'[d] = acks[d] + (Count(d, slot.waiting) + One(d, c)) /\ One(d, c) \in 0..1
    BY <1>3, <2>2 DEF One
  <2>6. Len(wire'[d]) + 0 + acks'[d] = Len(wire[d]) + Count(d, slot.waiting) + acks[d]
    BY <2>3, <2>5
  <2>7. Len(wire'[d]) + Count(d, <<>>) + acks'[d] = Len(wire[d]) + Count(d, slot.waiting) + acks[d]
    BY <2>1, <2>6
  <2> QED
    BY <2>4, <2>7
<1>6. CreditIsCounted'
  BY <1>1, <1>5, TakeIs, NothingLost
<1>7. TypeOK'
  BY <1>1, <1>3, <1>4, TakeIs DEF IInv, TypeOK
<1>8. SlotIsHeld' /\ WriterHolds' /\ NotInterleaved'
  BY <1>1, TakeIs, Emptied
<1> QED
  BY <1>1, <1>6, <1>7, <1>8, TakeIs DEF IInv

LEMMA QueueStep == ASSUME IInv, NEW c \in Clients, QueueChunk(c) PROVE IInv'
<1> DEFINE m == Arriving(c)
           q == Append(slot.waiting, m)
<1>1. /\ Take(c) /\ slot' = [slot EXCEPT !.waiting = q] /\ UNCHANGED <<acks, written>>
      /\ term = "open" /\ slot.owner # Nobody
  BY DEF QueueChunk, MustWait
<1>2. /\ slot \in [owner : Clients \union {Nobody}, waiting : Seq(Chunks)]
      /\ slot.waiting \in Seq(Chunks) /\ m \in Chunks /\ m.client = c /\ conn[c].open
      /\ UNCHANGED <<conn, term>> /\ acks \in [Clients -> Nat]
  BY <1>1, TakeIs DEF IInv, TypeOK
<1>3. /\ q \in Seq(Chunks) /\ Len(slot.waiting) \in Nat /\ DOMAIN slot.waiting = 1..Len(slot.waiting)
      /\ DOMAIN q = 1..(Len(slot.waiting) + 1) /\ q[Len(slot.waiting) + 1] = m
      /\ \A i \in 1..Len(slot.waiting) : q[i] = slot.waiting[i]
  BY <1>2, AppendProperties, LenProperties
<1> HIDE DEF m, q
<1>4. /\ slot' \in [owner : Clients \union {Nobody}, waiting : Seq(Chunks)]
      /\ slot'.owner = slot.owner /\ slot'.waiting = q
  BY <1>1, <1>2, <1>3
<1>5. \A d \in Clients : Len(wire'[d]) + Count(d, slot'.waiting) + acks'[d] = Outstanding(d)
  <2> SUFFICES ASSUME NEW d \in Clients
               PROVE  Len(wire'[d]) + Count(d, q) + acks'[d] = Outstanding(d)
    BY <1>4
  <2>1. Count(d, q) = Count(d, slot.waiting) + One(d, c) /\ One(d, c) \in 0..1
    BY <1>2, CountAppend DEF q, One
  <2>2. /\ Len(wire[d]) \in Nat /\ Count(d, slot.waiting) \in Nat /\ acks[d] \in Nat
        /\ Len(wire'[d]) = Len(wire[d]) - One(d, c)
    BY <1>1, <1>2, CountType, TakeIs
  <2>3. Outstanding(d) = Len(wire[d]) + Count(d, slot.waiting) + acks[d]
    BY OutstandingIs
  <2>4. Len(wire'[d]) + (Count(d, slot.waiting) + One(d, c)) + acks[d]
            = Len(wire[d]) + Count(d, slot.waiting) + acks[d]
    BY <2>1, <2>2
  <2>5. Len(wire'[d]) + Count(d, q) + acks'[d] = Len(wire[d]) + Count(d, slot.waiting) + acks[d]
    BY <1>1, <2>1, <2>4
  <2> QED
    BY <2>3, <2>5
<1>6. CreditIsCounted'
  BY <1>1, <1>5, TakeIs, NothingLost
<1>7. TypeOK'
  BY <1>1, <1>4, TakeIs DEF IInv, TypeOK
<1>8. SlotIsHeld'
  <2>1. ASSUME NEW i \in DOMAIN q PROVE conn[q[i].client].open
    <3>1. CASE i = Len(slot.waiting) + 1
      BY <1>2, <1>3, <3>1
    <3>2. CASE i # Len(slot.waiting) + 1
      <4>1. i \in DOMAIN slot.waiting /\ q[i] = slot.waiting[i]
        BY <1>3, <3>2
      <4> QED
        BY <4>1 DEF IInv, SlotIsHeld
    <3> QED
      BY <3>1, <3>2
  <2> QED
    BY <1>1, <1>2, <1>4, <2>1 DEF IInv, SlotIsHeld
<1>9. WriterHolds' /\ NotInterleaved'
  BY <1>1, <1>2, <1>4 DEF IInv, WriterHolds, NotInterleaved
<1> QED
  BY <1>1, <1>6, <1>7, <1>8, <1>9, TakeIs DEF IInv

(***************************************************************************)
(* What is written: one text after another.                                *)
(***************************************************************************)
Gone == {d \in Clients : ~conn[d].open}
Follows(x, y, gone) == x.client = y.client \/ x.last \/ x.client \in gone
Ordered(w, gone) == \A i \in 1..(Len(w) - 1) : Follows(w[i], w[i + 1], gone)

LEMMA OrderedWritten ==
    ASSUME written \in Seq(Chunks) PROVE NotInterleaved <=> Ordered(written, Gone)
<1>1. \A i \in 1..Len(written) : written[i].client \in Clients
  <2>1. \A i \in 1..Len(written) : written[i] \in Chunks
    BY ElementOfSeq
  <2> QED
    BY <2>1 DEF Chunks
<1>2. \A i \in 1..(Len(written) - 1) : i \in 1..Len(written)
  BY LenProperties
<1> QED
  BY <1>1, <1>2 DEF NotInterleaved, Ordered, Follows, Gone

LEMMA OrderedConcat ==
    ASSUME NEW p \in Seq(Chunks), NEW r \in Seq(Chunks), NEW gone, Ordered(p, gone), Ordered(r, gone),
           p # <<>> /\ r # <<>> => Follows(p[Len(p)], r[1], gone)
    PROVE  Ordered(p \o r, gone)
<1> DEFINE n == Len(p)
           m == Len(r)
           w == p \o r
<1>1. /\ n \in Nat /\ m \in Nat /\ Len(w) = n + m
      /\ \A i \in 1..n : w[i] = p[i]
      /\ \A i \in (n + 1)..(n + m) : w[i] = r[i - n]
  BY LenProperties, ConcatProperties
<1>2. (n # 0 => p # <<>>) /\ (m # 0 => r # <<>>)
  BY EmptySeq
<1>3. n # 0 /\ m # 0 => Follows(p[n], r[1], gone)
  BY <1>2
<1>4. /\ \A i \in 1..(n - 1) : Follows(p[i], p[i + 1], gone)
      /\ \A i \in 1..(m - 1) : Follows(r[i], r[i + 1], gone)
  BY DEF Ordered
<1> HIDE DEF n, m, w
<1>5. ASSUME NEW i \in 1..(n + m - 1) PROVE Follows(w[i], w[i + 1], gone)
  <2>1. CASE i < n
    <3>1. i \in 1..n /\ i + 1 \in 1..n /\ i \in 1..(n - 1)
      BY <1>1, <2>1
    <3> QED
      BY <1>1, <1>4, <3>1
  <2>2. CASE i = n
    <3>1. /\ n # 0 /\ m # 0 /\ n \in 1..n /\ n + 1 \in (n + 1)..(n + m) /\ (n + 1) - n = 1
      BY <1>1, <2>2
    <3>2. w[n] = p[n] /\ w[n + 1] = r[1]
      <4>1. w[n + 1] = r[(n + 1) - n]
        BY <1>1, <3>1
      <4> QED
        BY <1>1, <3>1, <4>1
    <3> QED
      BY <1>3, <2>2, <3>1, <3>2
  <2>3. CASE i > n
    <3>1. /\ i \in (n + 1)..(n + m) /\ i + 1 \in (n + 1)..(n + m)
          /\ i - n \in 1..(m - 1) /\ (i + 1) - n = (i - n) + 1
      BY <1>1, <2>3
    <3>2. w[i] = r[i - n] /\ w[i + 1] = r[(i - n) + 1]
      <4>1. w[i + 1] = r[(i + 1) - n]
        BY <1>1, <3>1
      <4> QED
        BY <1>1, <3>1, <4>1
    <3> QED
      BY <1>4, <3>1, <3>2
  <2> QED
    BY <1>1, <2>1, <2>2, <2>3
<1>6. Ordered(w, gone)
  BY <1>1, <1>5 DEF Ordered
<1> QED
  BY <1>6 DEF w

LEMMA LastOfConcat ==
    ASSUME NEW p \in Seq(Chunks), NEW r \in Seq(Chunks)
    PROVE  /\ p \o r \in Seq(Chunks)
           /\ r = <<>> => p \o r = p
           /\ r # <<>> => p \o r # <<>> /\ (p \o r)[Len(p \o r)] = r[Len(r)]
<1> DEFINE n == Len(p)
           m == Len(r)
           w == p \o r
<1>1. /\ n \in Nat /\ m \in Nat /\ Len(w) = n + m /\ w \in Seq(Chunks)
      /\ \A i \in (n + 1)..(n + m) : w[i] = r[i - n]
  BY LenProperties, ConcatProperties
<1>2. r = <<>> => w = p
  BY ConcatEmptySeq
<1>3. ASSUME r # <<>> PROVE w # <<>> /\ w[Len(w)] = r[m]
  <2>1. m # 0
    BY <1>3, EmptySeq
  <2> HIDE DEF n, m, w
  <2>2. n + m \in (n + 1)..(n + m) /\ (n + m) - n = m /\ n + m # 0
    BY <1>1, <2>1
  <2>3. w[n + m] = r[(n + m) - n]
    BY <1>1, <2>2
  <2>4. w # <<>>
    <3>1. Len(<<>>) = 0
      OBVIOUS
    <3> QED
      BY <1>1, <2>2, <3>1
  <2> QED
    BY <1>1, <2>2, <2>3, <2>4
<1> QED
  BY <1>1, <1>2, <1>3

\* One more chunk written, by a client whose turn it is.
LEMMA WriteOne ==
    ASSUME IInv, term = "open", NEW m \in Chunks, slot.owner \in {Nobody, m.client}
    PROVE  /\ Append(written, m) \in Seq(Chunks)
           /\ Append(written, m) # <<>> /\ Append(written, m)[Len(Append(written, m))] = m
           /\ Ordered(Append(written, m), Gone)
<1> DEFINE r == <<m>>
           n == Len(written)
<1>1. /\ written \in Seq(Chunks) /\ r \in Seq(Chunks) /\ Append(written, m) = written \o r
      /\ Len(r) = 1 /\ r[1] = m /\ r # <<>> /\ Ordered(r, Gone)
  BY DEF IInv, TypeOK, Ordered
<1>2. Ordered(written, Gone)
  BY <1>1, OrderedWritten DEF IInv
<1>3. ASSUME written # <<>> PROVE Follows(written[n], m, Gone)
  <2>1. n \in 1..n
    BY <1>1, <1>3, EmptySeq, LenProperties
  <2>2. written[n].client \in Clients /\ written[n].client # Nobody
    <3>1. written[n] \in Chunks
      BY <1>1, <2>1, ElementOfSeq
    <3> QED
      BY <3>1 DEF Chunks, Clients, Nobody
  <2>3. written[n].last \/ ~conn[written[n].client].open \/ slot.owner = written[n].client
    BY <1>3 DEF IInv, WriterHolds
  <2> QED
    BY <2>2, <2>3 DEF Follows, Gone
<1> HIDE DEF r
<1>4. Ordered(written \o r, Gone)
  BY <1>1, <1>2, <1>3, OrderedConcat
<1> QED
  BY <1>1, <1>4, LastOfConcat

LEMMA WriteStep == ASSUME IInv, NEW c \in Clients, WriteChunk(c) PROVE IInv'
<1> DEFINE m == Arriving(c)
           q == slot.waiting
           z == Append(written, m)
           d1 == Drained(q)
           g == Freed(q)
<1>1. /\ Take(c) /\ term = "open" /\ slot.owner \in {Nobody, c}
  BY DEF WriteChunk, MustWait
<1>2. /\ slot \in [owner : Clients \union {Nobody}, waiting : Seq(Chunks)]
      /\ q \in Seq(Chunks) /\ m \in Chunks /\ m.client = c /\ conn[c].open
      /\ UNCHANGED <<pasting, conn, term, acts>> /\ acks \in [Clients -> Nat]
      /\ written \in Seq(Chunks) /\ ChunksAreOwn'
      /\ wire' \in [Clients -> Seq(Chunks)]
      /\ Gone' = Gone
  BY <1>1, TakeIs DEF IInv, TypeOK, Gone
<1>3. z \in Seq(Chunks) /\ z # <<>> /\ z[Len(z)] = m /\ Ordered(z, Gone)
  BY <1>1, <1>2, WriteOne
<1>4. \A d \in Clients :
          /\ Outstanding(d) = Len(wire[d]) + Count(d, q) + acks[d]
          /\ Len(wire[d]) \in Nat /\ Count(d, q) \in Nat /\ acks[d] \in Nat
          /\ Len(wire'[d]) = Len(wire[d]) - One(d, c) /\ One(d, c) \in 0..1
  BY <1>1, <1>2, CountType, TakeIs, OutstandingIs DEF One
<1>5. CASE m.last
  <2>1. slot' = g /\ written' = z \o d1 /\ acks' = Acked(Append(d1, m))
    BY <1>5 DEF WriteChunk
  <2>2. /\ g \in [owner : Clients \union {Nobody}, waiting : Seq(Chunks)]
        /\ d1 \in Seq(Chunks) /\ g.waiting \in Seq(Chunks)
        /\ \A d : Count(d, q) = Count(d, d1) + Count(d, g.waiting)
        /\ \A i \in DOMAIN g.waiting : \E j \in DOMAIN q : g.waiting[i] = q[j]
        /\ g.owner # Nobody => \E j \in DOMAIN q : g.owner = q[j].client
        /\ g.waiting # <<>> => g.owner # Nobody
        /\ d1 # <<>> => d1[Len(d1)].last \/ g.owner = d1[Len(d1)].client
        /\ \A i \in 1..(Len(d1) - 1) : d1[i].last
    BY <1>2, LetGo
  <2> HIDE DEF g, d1, m, z, q
  <2>3. Append(d1, m) \in Seq(Chunks)
    BY <1>2, <2>2, AppendProperties
  <2>4. acks' \in [Clients -> Nat] /\ \A d \in Clients : acks'[d] = acks[d] + Count(d, Append(d1, m))
    BY <2>1, <2>3, AckedIs
  <2>5. \A d \in Clients : Len(wire'[d]) + Count(d, slot'.waiting) + acks'[d] = Outstanding(d)
    <3> SUFFICES ASSUME NEW d \in Clients
                 PROVE  Len(wire'[d]) + Count(d, g.waiting) + acks'[d] = Outstanding(d)
      BY <2>1
    <3>1. Count(d, Append(d1, m)) = Count(d, d1) + One(d, c)
      BY <1>2, <2>2, CountAppend
    <3>2. Count(d, d1) \in Nat /\ Count(d, g.waiting) \in Nat
      BY <2>2, CountType
    <3>3. acks'[d] = acks[d] + (Count(d, d1) + One(d, c)) /\ Count(d, q) = Count(d, d1) + Count(d, g.waiting)
      BY <2>2, <2>4, <3>1
    <3>6. /\ Len(wire[d]) \in Nat /\ acks[d] \in Nat /\ One(d, c) \in 0..1
          /\ Len(wire'[d]) = Len(wire[d]) - One(d, c)
      BY <1>4
    <3>4. Len(wire'[d]) + Count(d, g.waiting) + (acks[d] + (Count(d, d1) + One(d, c)))
              = Len(wire[d]) + (Count(d, d1) + Count(d, g.waiting)) + acks[d]
      BY <3>2, <3>6
    <3>5. Len(wire'[d]) + Count(d, g.waiting) + acks'[d] = Len(wire[d]) + Count(d, q) + acks[d]
      BY <3>3, <3>4
    <3> QED
      BY <1>4, <3>5
  <2>6. CreditIsCounted'
    BY <1>1, <1>2, <2>5, NothingLost
  <2>7. written' \in Seq(Chunks)
    BY <1>3, <2>1, <2>2, LastOfConcat
  <2>8. TypeOK'
    BY <1>2, <2>1, <2>2, <2>4, <2>7 DEF IInv, TypeOK
  <2>9. SlotIsHeld'
    <3>1. \A j \in DOMAIN q : conn[q[j].client].open
      BY DEF IInv, SlotIsHeld, q
    <3> QED
      BY <1>1, <1>2, <2>1, <2>2, <3>1 DEF SlotIsHeld
  <2>10. WriterHolds'
    <3>1. CASE d1 = <<>>
      BY <1>3, <1>5, <2>1, <2>2, <3>1, LastOfConcat DEF WriterHolds
    <3>2. CASE d1 # <<>>
      BY <1>3, <2>1, <2>2, <3>2, LastOfConcat DEF WriterHolds
    <3> QED
      BY <3>1, <3>2
  <2>11. NotInterleaved'
    <3>1. Ordered(d1, Gone)
      BY <2>2 DEF Ordered, Follows
    <3>2. Follows(z[Len(z)], d1[1], Gone)
      BY <1>3, <1>5 DEF Follows
    <3>3. Ordered(z \o d1, Gone)
      BY <1>3, <2>2, <3>1, <3>2, OrderedConcat
    <3>4. Ordered(written', Gone')
      BY <1>2, <2>1, <3>3
    <3>5. (written \in Seq(Chunks) => (NotInterleaved <=> Ordered(written, Gone)))'
      BY OrderedWritten, PTL
    <3> QED
      BY <2>7, <3>4, <3>5
  <2> QED
    BY <1>2, <2>6, <2>8, <2>9, <2>10, <2>11 DEF IInv
<1>6. CASE ~m.last
  <2>1. slot' = [slot EXCEPT !.owner = c] /\ written' = z /\ acks' = [acks EXCEPT ![c] = @ + 1]
    BY <1>6 DEF WriteChunk
  <2> HIDE DEF m, z
  <2>2. /\ slot' \in [owner : Clients \union {Nobody}, waiting : Seq(Chunks)]
        /\ slot'.owner = c /\ slot'.waiting = q
    BY <1>2, <2>1
  <2> HIDE DEF q
  <2>3. acks' \in [Clients -> Nat] /\ \A d \in Clients : acks'[d] = acks[d] + One(d, c)
    BY <1>2, <2>1 DEF One
  <2>4. \A d \in Clients : Len(wire'[d]) + Count(d, slot'.waiting) + acks'[d] = Outstanding(d)
    <3> SUFFICES ASSUME NEW d \in Clients
                 PROVE  Len(wire'[d]) + Count(d, q) + acks'[d] = Outstanding(d)
      BY <2>2
    <3>1. acks'[d] = acks[d] + One(d, c)
      BY <2>3
    <3>4. /\ Len(wire[d]) \in Nat /\ acks[d] \in Nat /\ One(d, c) \in 0..1 /\ Count(d, q) \in Nat
          /\ Len(wire'[d]) = Len(wire[d]) - One(d, c)
      BY <1>4
    <3>2. Len(wire'[d]) + Count(d, q) + (acks[d] + One(d, c)) = Len(wire[d]) + Count(d, q) + acks[d]
      BY <3>4
    <3>3. Len(wire'[d]) + Count(d, q) + acks'[d] = Len(wire[d]) + Count(d, q) + acks[d]
      BY <3>1, <3>2
    <3> QED
      BY <1>4, <3>3
  <2>5. CreditIsCounted'
    BY <1>1, <1>2, <2>4, NothingLost
  <2>6. TypeOK'
    BY <1>2, <1>3, <2>1, <2>2, <2>3 DEF IInv, TypeOK
  <2>7. SlotIsHeld'
    BY <1>1, <1>2, <2>2 DEF IInv, SlotIsHeld, q, Clients, Nobody
  <2>8. WriterHolds'
    BY <1>2, <1>3, <2>1, <2>2 DEF WriterHolds
  <2>9. NotInterleaved'
    <3>1. Ordered(written', Gone')
      BY <1>2, <1>3, <2>1
    <3>2. (written \in Seq(Chunks) => (NotInterleaved <=> Ordered(written, Gone)))'
      BY OrderedWritten, PTL
    <3> QED
      BY <1>3, <2>1, <3>1, <3>2
  <2> QED
    BY <1>2, <2>5, <2>6, <2>7, <2>8, <2>9 DEF IInv
<1> QED
  BY <1>5, <1>6

(***************************************************************************)
(* What happens to readers and to the terminal.                            *)
(***************************************************************************)
LEMMA SetReaderModeStep == ASSUME IInv, NEW c \in Clients, SetReaderMode(c) PROVE IInv'
<1>1. /\ UNCHANGED <<pasting, wire, acks, slot, term, written>> /\ acts' = acts + 1
      /\ acts < MaxActs /\ acts \in 0..MaxActs /\ MaxActs \in Nat
      /\ conn' = [conn EXCEPT ![c].watching = ~@]
      /\ conn \in [Clients -> [open : BOOLEAN, watching : BOOLEAN]]
  BY BoundAssumption DEF SetReaderMode, IInv, TypeOK
<1>2. /\ conn' \in [Clients -> [open : BOOLEAN, watching : BOOLEAN]]
      /\ \A d \in Clients : conn'[d].open = conn[d].open
  BY <1>1
<1>3. acts' \in 0..MaxActs
  BY <1>1
<1>4. TypeOK'
  BY <1>1, <1>2, <1>3 DEF IInv, TypeOK
<1>5. ChunksAreOwn'
  BY <1>1 DEF IInv, ChunksAreOwn
<1>6. CreditIsCounted'
  <2>1. \A d \in Clients : Outstanding(d)' = Outstanding(d)
    BY <1>1 DEF Outstanding
  <2> QED
    BY <1>1, <1>2, <2>1 DEF IInv, CreditIsCounted
<1>7. \A w \in Seq(Chunks) : \A i \in DOMAIN w : w[i].client \in Clients
  <2> SUFFICES ASSUME NEW w \in Seq(Chunks), NEW i \in DOMAIN w PROVE w[i].client \in Clients
    OBVIOUS
  <2>1. w[i] \in Chunks
    BY ElementOfSeq, LenProperties
  <2> QED
    BY <2>1 DEF Chunks
<1>8. SlotIsHeld'
  <2>1. slot.owner # Nobody => slot.owner \in Clients
    BY DEF IInv, TypeOK
  <2>2. \A i \in DOMAIN slot.waiting : slot.waiting[i].client \in Clients
    BY <1>7 DEF IInv, TypeOK
  <2> QED
    BY <1>1, <1>2, <2>1, <2>2 DEF IInv, SlotIsHeld
<1>9. written \in Seq(Chunks) /\ Len(written) \in Nat /\ DOMAIN written = 1..Len(written)
  BY LenProperties DEF IInv, TypeOK
<1>10. WriterHolds'
  <2>1. written # <<>> => Len(written) \in DOMAIN written
    BY <1>9, EmptySeq
  <2>2. written # <<>> => written[Len(written)].client \in Clients
    BY <1>7, <1>9, <2>1
  <2> QED
    BY <1>1, <1>2, <2>2 DEF IInv, WriterHolds
<1>11. NotInterleaved'
  <2>1. \A i \in 1..(Len(written) - 1) : written[i].client \in Clients
    BY <1>7, <1>9
  <2> QED
    BY <1>1, <1>2, <2>1 DEF IInv, NotInterleaved
<1> QED
  BY <1>4, <1>5, <1>6, <1>8, <1>10, <1>11 DEF IInv

LEMMA RemoveTerminalStep == ASSUME IInv, RemoveTerminal PROVE IInv'
<1>1. /\ term = "open" /\ term' = "removed" /\ acks' = Acked(slot.waiting) /\ slot' = FreeSlot
      /\ UNCHANGED <<pasting, wire, conn, written, acts>>
  BY DEF RemoveTerminal
<1>2. slot.waiting \in Seq(Chunks)
  BY DEF IInv, TypeOK
<1>3. acks' \in [Clients -> Nat] /\ \A d \in Clients : acks'[d] = acks[d] + Count(d, slot.waiting)
  BY <1>1, <1>2, AckedIs
<1>4. FreeSlot \in [owner : Clients \union {Nobody}, waiting : Seq(Chunks)] /\ FreeSlot.waiting = <<>>
  BY DEF FreeSlot
<1>5. \A d \in Clients : Len(wire'[d]) + Count(d, slot'.waiting) + acks'[d] = Outstanding(d)
  <2> SUFFICES ASSUME NEW d \in Clients
               PROVE  Len(wire[d]) + Count(d, <<>>) + acks'[d] = Outstanding(d)
    BY <1>1, <1>4
  <2>1. Len(wire[d]) \in Nat /\ Count(d, slot.waiting) \in Nat /\ acks[d] \in Nat
    BY <1>2, CountType, LenProperties DEF IInv, TypeOK
  <2>2. Len(wire[d]) + 0 + (acks[d] + Count(d, slot.waiting))
            = Len(wire[d]) + Count(d, slot.waiting) + acks[d]
    BY <2>1
  <2>3. acks'[d] = acks[d] + Count(d, slot.waiting) /\ Count(d, <<>>) = 0
    BY <1>3, CountEmpty
  <2>4. Len(wire[d]) + Count(d, <<>>) + acks'[d] = Len(wire[d]) + Count(d, slot.waiting) + acks[d]
    BY <2>2, <2>3
  <2> QED
    BY <2>4, OutstandingIs
<1>6. CreditIsCounted'
  BY <1>1, <1>5, NothingLost
<1>7. TypeOK' /\ ChunksAreOwn'
  BY <1>1, <1>3, <1>4 DEF IInv, TypeOK, ChunksAreOwn
<1>8. SlotIsHeld' /\ WriterHolds' /\ NotInterleaved'
  BY <1>1, Emptied
<1> QED
  BY <1>6, <1>7, <1>8 DEF IInv

LEMMA KillSessionStep == ASSUME IInv, KillSession PROVE IInv'
<1>1. /\ term = "open" /\ term' = "killed"
      /\ UNCHANGED <<pasting, wire, acks, conn, slot, written, acts>>
  BY DEF KillSession
<1>2. TypeOK' /\ ChunksAreOwn' /\ SlotIsHeld' /\ WriterHolds' /\ NotInterleaved'
  BY <1>1 DEF IInv, TypeOK, ChunksAreOwn, SlotIsHeld, WriterHolds, NotInterleaved
<1>3. \A d \in Clients : Outstanding(d)' = Outstanding(d)
  BY <1>1 DEF Outstanding
<1>4. CreditIsCounted'
  BY <1>1, <1>3 DEF IInv, CreditIsCounted
<1> QED
  BY <1>2, <1>4 DEF IInv

\* A connection that ends is closed, and nothing of it is counted any more; what
\* is counted of the others is no more than it was, and all of it unless the
\* session was killed.
LEMMA CreditAfterDrop ==
    ASSUME IInv, NEW c \in Clients, Drop(c), acks' \in [Clients -> Nat], acks'[c] = 0,
           slot'.waiting \in Seq(Chunks), Count(c, slot'.waiting) = 0,
           \A d \in Clients : d # c =>
               /\ Count(d, slot'.waiting) + acks'[d] <= Count(d, slot.waiting) + acks[d]
               /\ term # "killed" =>
                      Count(d, slot'.waiting) + acks'[d] = Count(d, slot.waiting) + acks[d]
    PROVE  /\ pasting' \in [Clients -> Pasting] /\ wire' \in [Clients -> Seq(Chunks)]
           /\ conn' \in [Clients -> [open : BOOLEAN, watching : BOOLEAN]]
           /\ ~conn'[c].open /\ \A d \in Clients : d # c => conn'[d] = conn[d]
           /\ ChunksAreOwn' /\ CreditIsCounted'
<1> DEFINE x == pasting[c]
           u == [x EXCEPT !.queue = <<>>]
           p == [u EXCEPT !.inFlight = 0]
<1>1. /\ x \in Pasting /\ pasting \in [Clients -> Pasting] /\ wire \in [Clients -> Seq(Chunks)]
      /\ conn \in [Clients -> [open : BOOLEAN, watching : BOOLEAN]]
      /\ slot.waiting \in Seq(Chunks) /\ acks \in [Clients -> Nat]
      /\ conn' = [conn EXCEPT ![c].open = FALSE] /\ wire' = [wire EXCEPT ![c] = <<>>]
      /\ term' = term
  BY DEF IInv, TypeOK, Pasting, Drop
<1>2. pasting' = [pasting EXCEPT ![c] = p]
  BY <1>1 DEF Drop, Pasting
<1>3. p \in Pasting /\ p.queue = <<>> /\ p.inFlight = 0
  <2> HIDE DEF x
  <2>1. u \in Pasting /\ u.queue = <<>>
    <3>1. <<>> \in Seq(Chunks)
      OBVIOUS
    <3> QED
      BY <1>1, <3>1 DEF Pasting
  <2> HIDE DEF u
  <2> QED
    BY <2>1 DEF Pasting
<1> HIDE DEF p
<1>4. /\ pasting' \in [Clients -> Pasting] /\ pasting'[c] = p
      /\ \A d \in Clients : d # c => pasting'[d] = pasting[d]
  BY <1>1, <1>2, <1>3
<1>5. /\ wire' \in [Clients -> Seq(Chunks)] /\ wire'[c] = <<>>
      /\ \A d \in Clients : d # c => wire'[d] = wire[d]
  <2>1. <<>> \in Seq(Chunks)
    OBVIOUS
  <2> QED
    BY <1>1, <2>1
<1>6. /\ conn' \in [Clients -> [open : BOOLEAN, watching : BOOLEAN]]
      /\ ~conn'[c].open /\ \A d \in Clients : d # c => conn'[d] = conn[d]
  BY <1>1
<1>7. ChunksAreOwn'
  <2> SUFFICES ASSUME NEW d \in Clients PROVE Own(d, pasting'[d].queue) /\ Own(d, wire'[d])
    BY DEF ChunksAreOwn, Own
  <2>1. Own(d, pasting[d].queue) /\ Own(d, wire[d]) /\ Own(d, <<>>)
    BY DEF IInv, ChunksAreOwn, Own
  <2>2. CASE d = c
    BY <1>3, <1>4, <1>5, <2>1, <2>2
  <2>3. CASE d # c
    BY <1>4, <1>5, <2>1, <2>3
  <2> QED
    BY <2>2, <2>3
<1>8. ASSUME NEW d \in Clients
      PROVE  /\ pasting'[d].inFlight <= Credit
             /\ ~pasting'[d].gaveUp => Outstanding(d)' <= pasting'[d].inFlight
             /\ conn'[d].open /\ term # "killed" => pasting'[d].inFlight <= Outstanding(d)'
  <2>1. Outstanding(d)' = Len(wire'[d]) + Count(d, slot'.waiting) + acks'[d]
    BY DEF Outstanding, Count
  <2>2. CASE d = c
    <3>1. Len(wire'[c]) = 0
      BY <1>5
    <3>2. Len(wire'[c]) + Count(c, slot'.waiting) + acks'[c] = 0
      BY <3>1
    <3>3. 0 <= Credit
      BY CreditAssumption
    <3> QED
      BY <1>3, <1>4, <1>6, <2>1, <2>2, <3>2, <3>3
  <2>3. CASE d # c
    <3>1. Outstanding(d) = Len(wire[d]) + Count(d, slot.waiting) + acks[d] /\ wire'[d] = wire[d]
      BY <1>5, <2>3, OutstandingIs
    <3>2. /\ Len(wire[d]) \in Nat /\ Count(d, slot.waiting) \in Nat /\ acks[d] \in Nat
          /\ Count(d, slot'.waiting) \in Nat /\ acks'[d] \in Nat
      BY <1>1, CountType, LenProperties
    <3>3. /\ Count(d, slot'.waiting) + acks'[d] <= Count(d, slot.waiting) + acks[d]
          /\ term # "killed" =>
                Count(d, slot'.waiting) + acks'[d] = Count(d, slot.waiting) + acks[d]
      BY <2>3
    <3>4. /\ Outstanding(d)' <= Outstanding(d) /\ (term # "killed" => Outstanding(d)' = Outstanding(d))
          /\ Outstanding(d) \in Nat /\ Outstanding(d)' \in Nat
      <4>1. /\ Len(wire[d]) + Count(d, slot'.waiting) + acks'[d]
                    <= Len(wire[d]) + Count(d, slot.waiting) + acks[d]
            /\ term # "killed" => Len(wire[d]) + Count(d, slot'.waiting) + acks'[d]
                    = Len(wire[d]) + Count(d, slot.waiting) + acks[d]
            /\ Len(wire[d]) + Count(d, slot.waiting) + acks[d] \in Nat
            /\ Len(wire[d]) + Count(d, slot'.waiting) + acks'[d] \in Nat
        <5> DEFINE n == Len(wire[d])
                   i == Count(d, slot'.waiting)
                   j == Count(d, slot.waiting)
                   k == acks[d]
                   l == acks'[d]
        <5>1. /\ n \in Nat /\ i \in Nat /\ j \in Nat /\ k \in Nat /\ l \in Nat
              /\ i + l <= j + k /\ (term # "killed" => i + l = j + k)
          BY <3>2, <3>3
        <5> HIDE DEF n, i, j, k, l
        <5>2. /\ n + i + l <= n + j + k /\ (term # "killed" => n + i + l = n + j + k)
              /\ n + j + k \in Nat /\ n + i + l \in Nat
          BY <5>1
        <5> QED
          BY <5>2 DEF n, i, j, k, l
      <4>2. Outstanding(d)' = Len(wire[d]) + Count(d, slot'.waiting) + acks'[d]
        BY <2>1, <3>1
      <4> QED
        BY <3>1, <4>1, <4>2
    <3>5. pasting'[d] = pasting[d] /\ conn'[d] = conn[d] /\ pasting[d].inFlight \in Nat
      BY <1>1, <1>4, <1>6, <2>3 DEF Pasting
    <3>6. /\ pasting[d].inFlight <= Credit
          /\ ~pasting[d].gaveUp => Outstanding(d) <= pasting[d].inFlight
          /\ conn[d].open /\ term # "killed" => pasting[d].inFlight <= Outstanding(d)
      BY DEF IInv, CreditIsCounted
    <3> QED
      BY <3>4, <3>5, <3>6
  <2> QED
    BY <2>2, <2>3
<1>9. CreditIsCounted'
  BY <1>1, <1>8 DEF CreditIsCounted
<1> QED
  BY <1>4, <1>5, <1>6, <1>7, <1>9

LEMMA DropStep == ASSUME IInv, NEW c \in Clients, Drop(c) PROVE IInv'
<1> DEFINE q == slot.waiting
           w == Without(c, q)
<1>1. /\ slot \in [owner : Clients \union {Nobody}, waiting : Seq(Chunks)] /\ q \in Seq(Chunks)
      /\ written \in Seq(Chunks) /\ acks \in [Clients -> Nat] /\ conn[c].open
      /\ conn \in [Clients -> [open : BOOLEAN, watching : BOOLEAN]]
      /\ conn' = [conn EXCEPT ![c].open = FALSE] /\ UNCHANGED <<term, acts>>
  BY DEF IInv, TypeOK, Drop
<1>2. Keeps(c, q, w)
  BY <1>1, WithoutKeeps
<1>3. /\ w \in Seq(Chunks) /\ Len(w) \in Nat /\ DOMAIN w = 1..Len(w)
      /\ \A i \in DOMAIN w : w[i].client # c /\ \E j \in DOMAIN q : w[i] = q[j]
      /\ \A d \in Clients : d # c => Count(d, w) = Count(d, q)
      /\ Count(c, w) = 0
  BY <1>2, CountType, LenProperties DEF Keeps
<1>4. \A i \in DOMAIN w : w[i].client # c /\ conn[w[i].client].open /\ w[i].client \in Clients
  <2> SUFFICES ASSUME NEW i \in DOMAIN w
               PROVE  w[i].client # c /\ conn[w[i].client].open /\ w[i].client \in Clients
    OBVIOUS
  <2>1. w[i] \in Chunks
    BY <1>3, ElementOfSeq
  <2> QED
    BY <1>3, <2>1 DEF IInv, SlotIsHeld, Chunks
<1>5. /\ Gone' = Gone \cup {c} /\ ~conn'[c].open
      /\ \A d \in Clients : d # c => conn'[d] = conn[d]
  BY <1>1 DEF Gone
<1>6. \A i \in DOMAIN w : conn'[w[i].client].open
  BY <1>4, <1>5
<1>7. \A d \in Clients : Count(d, q) \in Nat /\ Count(d, w) \in Nat /\ acks[d] \in Nat
  BY <1>1, <1>3, CountType
<1>8. (written \in Seq(Chunks) => (NotInterleaved <=> Ordered(written, Gone)))'
  BY OrderedWritten, PTL
<1>9. Ordered(written, Gone')
  BY <1>1, <1>5, OrderedWritten DEF IInv, Ordered, Follows
<1>10. written # <<>> => written[Len(written)].client \in Clients
  <2>1. written # <<>> => written[Len(written)] \in Chunks
    BY <1>1, EmptySeq, LenProperties, ElementOfSeq
  <2> QED
    BY <2>1 DEF Chunks
<1> HIDE DEF w, q
<1>11. CASE slot.owner = c /\ term = "open"
  <2> DEFINE g == Freed(w)
             e == Drained(w)
             a == Acked(e)
  <2>1. slot' = g /\ written' = written \o e /\ acks' = [a EXCEPT ![c] = 0]
    BY <1>11 DEF Drop, w, q
  <2>2. /\ g \in [owner : Clients \union {Nobody}, waiting : Seq(Chunks)]
        /\ e \in Seq(Chunks) /\ g.waiting \in Seq(Chunks)
        /\ \A d : Count(d, w) = Count(d, e) + Count(d, g.waiting)
        /\ \A i \in DOMAIN g.waiting : \E j \in DOMAIN w : g.waiting[i] = w[j]
        /\ g.owner # Nobody => \E j \in DOMAIN w : g.owner = w[j].client
        /\ g.waiting # <<>> => g.owner # Nobody
        /\ e # <<>> => e[Len(e)].last \/ g.owner = e[Len(e)].client
        /\ \A i \in 1..(Len(e) - 1) : e[i].last
    BY <1>3, LetGo
  <2>3. a \in [Clients -> Nat] /\ \A d \in Clients : a[d] = acks[d] + Count(d, e)
    BY <2>2, AckedIs
  <2> HIDE DEF g, e, a
  <2>4. /\ acks' \in [Clients -> Nat] /\ acks'[c] = 0
        /\ \A d \in Clients : d # c => acks'[d] = acks[d] + Count(d, e)
    BY <2>1, <2>3
  <2>5. Count(c, g.waiting) = 0
    BY <1>3, <2>2, CountType
  <2>6. ASSUME NEW d \in Clients, d # c
        PROVE  Count(d, slot'.waiting) + acks'[d] = Count(d, slot.waiting) + acks[d]
    <3>1. Count(d, q) = Count(d, e) + Count(d, g.waiting) /\ acks'[d] = acks[d] + Count(d, e)
      BY <1>3, <2>2, <2>4, <2>6
    <3>2. Count(d, e) \in Nat /\ Count(d, g.waiting) \in Nat /\ acks[d] \in Nat
      BY <1>7, <2>2, CountType
    <3>3. Count(d, g.waiting) + acks'[d] = Count(d, q) + acks[d]
      BY <3>1, <3>2
    <3> QED
      BY <2>1, <3>3 DEF q
  <2>7. \A d \in Clients : d # c =>
            /\ Count(d, slot'.waiting) + acks'[d] <= Count(d, slot.waiting) + acks[d]
            /\ term # "killed" =>
                   Count(d, slot'.waiting) + acks'[d] = Count(d, slot.waiting) + acks[d]
    <3>1. \A d \in Clients : Count(d, slot.waiting) + acks[d] \in Nat
      BY <1>7 DEF q
    <3> QED
      BY <2>6, <3>1
  <2>8. written' \in Seq(Chunks)
    BY <1>1, <2>1, <2>2, LastOfConcat
  <2>9. TypeOK' /\ ChunksAreOwn' /\ CreditIsCounted'
    <3>1. slot'.waiting \in Seq(Chunks) /\ Count(c, slot'.waiting) = 0
      BY <2>1, <2>2, <2>5
    <3> QED
      BY <1>1, <2>1, <2>2, <2>4, <2>7, <2>8, <3>1, CreditAfterDrop DEF IInv, TypeOK, Pasting
  <2>10. SlotIsHeld'
    BY <1>1, <1>6, <1>11, <2>1, <2>2 DEF SlotIsHeld
  <2>11. WriterHolds'
    <3>1. CASE e = <<>>
      BY <1>1, <1>5, <1>10, <1>11, <2>1, <2>2, <3>1, LastOfConcat DEF IInv, WriterHolds
    <3>2. CASE e # <<>>
      BY <1>1, <2>1, <2>2, <3>2, LastOfConcat DEF WriterHolds
    <3> QED
      BY <3>1, <3>2
  <2>12. NotInterleaved'
    <3>1. Ordered(e, Gone')
      BY <2>2 DEF Ordered, Follows
    <3>2. written # <<>> => Follows(written[Len(written)], e[1], Gone')
      BY <1>5, <1>10, <1>11 DEF IInv, WriterHolds, Follows, Gone
    <3>3. Ordered(written \o e, Gone')
      BY <1>1, <1>9, <2>2, <3>1, <3>2, OrderedConcat
    <3> QED
      BY <1>8, <2>1, <2>8, <3>3
  <2> QED
    BY <2>9, <2>10, <2>11, <2>12 DEF IInv
<1>12. CASE slot.owner = c /\ term # "open"
  <2> DEFINE e == IF w = <<>> THEN <<>> ELSE Tail(w)
             a == Acked(e)
  <2>1. slot' = FreeSlot /\ written' = written /\ acks' = [a EXCEPT ![c] = 0]
    BY <1>12 DEF Drop, w, q
  <2>2. term = "killed"
    BY <1>12 DEF IInv, TypeOK, SlotIsHeld, FreeSlot, Clients, Nobody
  <2>3. e \in Seq(Chunks) /\ \A d : Count(d, e) <= Count(d, w)
    <3>1. CASE w = <<>>
      <4>1. e = w
        BY <3>1
      <4>2. \A d : Count(d, w) \in Nat
        BY <1>3, CountType
      <4> HIDE DEF e
      <4>3. \A d : Count(d, w) <= Count(d, w)
        BY <4>2
      <4> QED
        BY <1>3, <4>1, <4>3
    <3>2. CASE w # <<>>
      <4>1. /\ 1 \in 0..Len(w) /\ e = SubSeq(w, 2, Len(w)) /\ 1 + 1 = 2
        BY <1>3, <3>2, EmptySeq, TailIsSubSeq
      <4>2. \A d : /\ SubSeq(w, 1, 1) \in Seq(Chunks) /\ SubSeq(w, 1 + 1, Len(w)) \in Seq(Chunks)
                   /\ Count(d, w) = Count(d, SubSeq(w, 1, 1)) + Count(d, SubSeq(w, 1 + 1, Len(w)))
        BY <1>3, <4>1, CountSplit
      <4> HIDE DEF e
      <4>3. /\ SubSeq(w, 1, 1) \in Seq(Chunks) /\ e \in Seq(Chunks)
            /\ \A d : Count(d, w) = Count(d, SubSeq(w, 1, 1)) + Count(d, e)
        BY <4>1, <4>2
      <4>4. \A d : Count(d, SubSeq(w, 1, 1)) \in Nat /\ Count(d, e) \in Nat
        BY <4>3, CountType
      <4> QED
        BY <4>3, <4>4
    <3> QED
      BY <3>1, <3>2
  <2>4. a \in [Clients -> Nat] /\ \A d \in Clients : a[d] = acks[d] + Count(d, e)
    BY <2>3, AckedIs
  <2> HIDE DEF e, a
  <2>5. /\ acks' \in [Clients -> Nat] /\ acks'[c] = 0
        /\ \A d \in Clients : d # c => acks'[d] = acks[d] + Count(d, e)
    BY <2>1, <2>4
  <2>6. /\ FreeSlot \in [owner : Clients \union {Nobody}, waiting : Seq(Chunks)]
        /\ FreeSlot.waiting = <<>> /\ FreeSlot.owner = Nobody /\ <<>> \in Seq(Chunks)
    BY DEF FreeSlot
  <2>7. ASSUME NEW d \in Clients, d # c
        PROVE  Count(d, slot'.waiting) + acks'[d] <= Count(d, slot.waiting) + acks[d]
    <3>1. Count(d, e) <= Count(d, q) /\ acks'[d] = acks[d] + Count(d, e) /\ Count(d, <<>>) = 0
      BY <1>3, <2>3, <2>5, <2>7, CountEmpty
    <3>2. Count(d, e) \in Nat /\ Count(d, q) \in Nat /\ acks[d] \in Nat
      BY <1>7, <2>3, CountType
    <3>3. 0 + acks'[d] <= Count(d, q) + acks[d]
      BY <3>1, <3>2
    <3>4. Count(d, <<>>) + acks'[d] <= Count(d, q) + acks[d]
      BY <3>1, <3>3
    <3> QED
      BY <2>1, <2>6, <3>4 DEF q
  <2>8. TypeOK' /\ ChunksAreOwn' /\ CreditIsCounted'
    <3>1. slot'.waiting \in Seq(Chunks) /\ Count(c, slot'.waiting) = 0
      BY <2>1, <2>6, CountEmpty
    <3> QED
      BY <1>1, <2>1, <2>2, <2>5, <2>6, <2>7, <3>1, CreditAfterDrop DEF IInv, TypeOK, Pasting
  <2>9. SlotIsHeld' /\ WriterHolds'
    BY <1>1, <1>12, <2>1, <2>6 DEF SlotIsHeld, WriterHolds
  <2>10. NotInterleaved'
    BY <1>1, <1>8, <1>9, <2>1
  <2> QED
    BY <2>8, <2>9, <2>10 DEF IInv
<1>13. CASE slot.owner # c
  <2>1. slot' = [slot EXCEPT !.waiting = w] /\ written' = written /\ acks' = [acks EXCEPT ![c] = 0]
    BY <1>13 DEF Drop, w, q
  <2>2. /\ slot' \in [owner : Clients \union {Nobody}, waiting : Seq(Chunks)]
        /\ slot'.owner = slot.owner /\ slot'.waiting = w
    BY <1>1, <1>3, <2>1
  <2>3. /\ acks' \in [Clients -> Nat] /\ acks'[c] = 0 /\ \A d \in Clients : d # c => acks'[d] = acks[d]
    BY <1>1, <2>1
  <2>4. \A d \in Clients : d # c =>
            /\ Count(d, slot'.waiting) + acks'[d] <= Count(d, slot.waiting) + acks[d]
            /\ term # "killed" =>
                   Count(d, slot'.waiting) + acks'[d] = Count(d, slot.waiting) + acks[d]
    <3> SUFFICES ASSUME NEW d \in Clients, d # c
                 PROVE  /\ Count(d, w) + acks'[d] <= Count(d, q) + acks[d]
                        /\ Count(d, w) + acks'[d] = Count(d, q) + acks[d]
      BY <2>2 DEF q
    <3>1. Count(d, w) = Count(d, q) /\ acks'[d] = acks[d] /\ Count(d, q) + acks[d] \in Nat
      BY <1>3, <1>7, <2>3
    <3> QED
      BY <3>1
  <2>5. TypeOK' /\ ChunksAreOwn' /\ CreditIsCounted'
    <3>1. slot'.waiting \in Seq(Chunks) /\ Count(c, slot'.waiting) = 0
      BY <1>3, <2>2
    <3> QED
      BY <1>1, <2>1, <2>2, <2>3, <2>4, <3>1, CreditAfterDrop DEF IInv, TypeOK, Pasting
  <2>6. SlotIsHeld'
    <3>1. w # <<>> => q # <<>>
      <4>1. w # <<>> => 1 \in DOMAIN w
        BY <1>3, EmptySeq
      <4>2. DOMAIN <<>> = {}
        OBVIOUS
      <4> QED
        BY <1>3, <4>1, <4>2
    <3>2. slot.owner # Nobody => conn'[slot.owner].open
      BY <1>1, <1>5, <1>13 DEF IInv, SlotIsHeld
    <3>3. term = "removed" => slot' = FreeSlot
      <4>1. term = "removed" => slot = FreeSlot /\ w = <<>>
        BY <3>1 DEF IInv, SlotIsHeld, FreeSlot, q
      <4> QED
        BY <2>1, <4>1 DEF FreeSlot
    <3> QED
      BY <1>1, <1>6, <2>2, <3>1, <3>2, <3>3 DEF IInv, SlotIsHeld, q
  <2>7. WriterHolds'
    BY <1>1, <1>5, <1>10, <2>1, <2>2 DEF IInv, WriterHolds
  <2>8. NotInterleaved'
    BY <1>1, <1>8, <1>9, <2>1
  <2> QED
    BY <2>5, <2>6, <2>7, <2>8 DEF IInv
<1> QED
  BY <1>11, <1>12, <1>13

(***************************************************************************)
(* The theorems.                                                           *)
(***************************************************************************)
LEMMA InitHolds == Init => IInv
<1> SUFFICES ASSUME Init PROVE IInv
  OBVIOUS
<1>1. /\ pasting = [c \in Clients |-> [queue |-> <<>>, inFlight |-> 0, pastes |-> 0, gaveUp |-> FALSE]]
      /\ wire = [c \in Clients |-> <<>>] /\ acks = [c \in Clients |-> 0]
      /\ conn = [c \in Clients |-> [open |-> TRUE, watching |-> FALSE]]
      /\ slot = FreeSlot /\ term = "open" /\ written = <<>> /\ acts = 0
  BY DEF Init
<1>2. MaxPastes \in Nat /\ MaxActs \in Nat /\ Credit \in Nat /\ <<>> \in Seq(Chunks)
  BY BoundAssumption, CreditAssumption
<1>3. slot \in [owner : Clients \union {Nobody}, waiting : Seq(Chunks)]
      /\ slot.owner = Nobody /\ slot.waiting = <<>>
  BY <1>1, <1>2 DEF FreeSlot
<1>4. pasting \in [Clients -> [queue : Seq(Chunks), inFlight : Nat,
                               pastes : 0..MaxPastes, gaveUp : BOOLEAN]]
  BY <1>1, <1>2
<1>5. TypeOK
  BY <1>1, <1>2, <1>3, <1>4 DEF TypeOK
<1>6. ChunksAreOwn
  BY <1>1 DEF ChunksAreOwn
<1>7. SlotIsHeld
  BY <1>1, <1>3 DEF SlotIsHeld
<1>8. WriterHolds /\ NotInterleaved
  BY <1>1 DEF WriterHolds, NotInterleaved
<1>9. CreditIsCounted
  <2> SUFFICES ASSUME NEW c \in Clients
               PROVE  /\ pasting[c].inFlight <= Credit
                      /\ Outstanding(c) = 0 /\ pasting[c].inFlight = 0
    BY DEF CreditIsCounted
  <2>1. Len(wire[c]) = 0 /\ acks[c] = 0 /\ pasting[c].inFlight = 0
    BY <1>1
  <2>2. Outstanding(c) = Len(wire[c]) + Count(c, <<>>) + acks[c] /\ Count(c, <<>>) = 0
    BY <1>3, OutstandingIs, CountEmpty
  <2> QED
    BY <1>2, <2>1, <2>2
<1> QED
  BY <1>5, <1>6, <1>7, <1>8, <1>9 DEF IInv

LEMMA NextStep == ASSUME IInv, [Next]_vars PROVE IInv'
<1>1. CASE RemoveTerminal
  BY <1>1, RemoveTerminalStep
<1>2. CASE KillSession
  BY <1>2, KillSessionStep
<1>3. ASSUME NEW c \in Clients, Paste(c) PROVE IInv'
  BY <1>3, PasteStep
<1>4. ASSUME NEW c \in Clients, ReceiveAck(c) PROVE IInv'
  BY <1>4, ReceiveAckStep
<1>5. ASSUME NEW c \in Clients, Abandon(c) PROVE IInv'
  BY <1>5, AbandonStep
<1>6. ASSUME NEW c \in Clients, HandleChunk(c) PROVE IInv'
  BY <1>6, DiscardStep, ForgetStep, QueueStep, WriteStep DEF HandleChunk
<1>7. ASSUME NEW c \in Clients, SetReaderMode(c) PROVE IInv'
  BY <1>7, SetReaderModeStep
<1>8. ASSUME NEW c \in Clients, Drop(c) PROVE IInv'
  BY <1>8, DropStep
<1>9. CASE UNCHANGED vars
  BY <1>9 DEF vars, IInv, TypeOK, ChunksAreOwn, SlotIsHeld, WriterHolds, NotInterleaved,
              CreditIsCounted, Outstanding, Of
<1> QED
  BY <1>1, <1>2, <1>3, <1>4, <1>5, <1>6, <1>7, <1>8, <1>9 DEF Next

\* IInv holds in every behaviour of Spec: types, each chunk where it is its own
\* client's, the slot held by a connected reader while anybody waits, the last
\* writer holding it, and the credit equal to what is outstanding.
THEOREM Invariance == Spec => []IInv
<1>1. Init => IInv
  BY InitHolds
<1>2. IInv /\ [Next]_vars => IInv'
  BY NextStep
<1> QED
  BY <1>1, <1>2, PTL DEF Spec

\* Queues, wires, acks, the slot and the written text have their types always:
\* in particular no ack count goes below zero.
THEOREM PasteTypes == Spec => []TypeOK
<1>1. IInv => TypeOK
  BY DEF IInv
<1> QED
  BY <1>1, Invariance, PTL

\* The child never gets two readers' pastes mixed chunk by chunk (the PasteChunk
\* handler, write_paste_chunk and drain_paste_slot).
THEOREM NoInterleaving == Spec => []NotInterleaved
<1>1. IInv => NotInterleaved
  BY DEF IInv
<1> QED
  BY <1>1, Invariance, PTL

\* While a chunk waits, the slot is a connected reader's, and every chunk that
\* waits is: drain_paste_slot and release_paste_slots hand the slot on.
THEOREM SlotsAreHandedOn == Spec => []NobodyWaitsForNobody
<1>1. IInv => NobodyWaitsForNobody
  BY DEF IInv, SlotIsHeld, NobodyWaitsForNobody
<1> QED
  BY <1>1, Invariance, PTL

\* Each chunk a client's credit counts is on the wire, waits, or has its ack on
\* the way, wherever the handlers put it.
THEOREM CreditIsNeverLost == Spec => []CreditComesBack
<1>1. IInv => CreditComesBack
  BY DEF IInv, CreditIsCounted, CreditComesBack
<1> QED
  BY <1>1, Invariance, PTL

\* A reader who threw no paste away has at most the credit outstanding: what
\* server.hpp counts on to bound the queue of a slot.
THEOREM SlotQueueIsBounded == Spec => []WaitingIsBounded
<1>1. ASSUME IInv, NEW c \in Clients, ~pasting[c].gaveUp PROVE Outstanding(c) <= Credit
  <2>1. Outstanding(c) <= pasting[c].inFlight /\ pasting[c].inFlight <= Credit
    BY <1>1 DEF IInv, CreditIsCounted
  <2>2. pasting[c].inFlight \in Nat /\ Credit \in Nat
    BY <1>1, CreditAssumption DEF IInv, TypeOK
  <2>3. Len(wire[c]) \in Nat /\ Count(c, slot.waiting) \in Nat /\ acks[c] \in Nat
    BY <1>1, CountType, LenProperties DEF IInv, TypeOK
  <2>4. Outstanding(c) \in Nat
    <3>1. Len(wire[c]) + Count(c, slot.waiting) + acks[c] \in Nat
      BY <2>3
    <3> QED
      BY <3>1, OutstandingIs
  <2> QED
    BY <2>1, <2>2, <2>4
<1>2. IInv => WaitingIsBounded
  BY <1>1 DEF WaitingIsBounded
<1> QED
  BY <1>2, Invariance, PTL

=============================================================================
