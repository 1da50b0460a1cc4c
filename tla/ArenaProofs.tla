---------------------------- MODULE ArenaProofs ----------------------------
(***************************************************************************)
(* Proofs about module Arena, for every alignment, block size, element     *)
(* size, set of slices and bound.                                          *)
(***************************************************************************)
EXTENDS Arena, WellFoundedInduction, TLAPS

----------------------------------------------------------------------------
(* Sizes *)

\* Every non-empty set of naturals has a least element.
LEMMA LeastNat ==
  ASSUME NEW S, S \subseteq Nat, S # {}
  PROVE  \E l \in S : \A k \in S : l <= k
<1> DEFINE R == OpToRel(<, Nat)
<1>1. \E l \in S : \A k \in S : ~ (<<k, l>> \in R)
  <2>1. IsWellFoundedOn(R, Nat)
    BY NatLessThanWellFounded
  <2> HIDE DEF R
  <2> QED
    BY <2>1, WFMin
<1>2. \A k, l \in Nat : k < l => <<k, l>> \in R
  <2> SUFFICES ASSUME NEW k \in Nat, NEW l \in Nat, k < l
               PROVE  <<k, l>> \in R
    OBVIOUS
  <2>1. <<k, l>> \in Nat \X Nat
    OBVIOUS
  <2>2. <<k, l>>[1] < <<k, l>>[2]
    OBVIOUS
  <2> QED
    BY <2>1, <2>2, Zenon DEF OpToRel
<1> HIDE DEF R
<1>3. PICK l \in S : \A k \in S : ~ (<<k, l>> \in R)
  BY <1>1
<1>4. ASSUME NEW k \in S
      PROVE  l <= k
  <2>1. k \in Nat /\ l \in Nat
    OBVIOUS
  <2>2. ~(k < l)
    BY <2>1, <1>2, <1>3
  <2> QED
    BY <2>1, <2>2
<1> QED
  BY <1>4

\* suggestSizeLog returns the least size log that holds the request.
LEMMA SuggestSizeLogLeast ==
  ASSUME NEW bytes \in Nat, Servable(bytes)
  PROVE  /\ SuggestSizeLog(bytes) \in MinLog .. MaxLog
         /\ bytes <= 2^SuggestSizeLog(bytes)
         /\ \A k \in MinLog .. MaxLog : bytes <= 2^k => SuggestSizeLog(bytes) <= k
<1> DEFINE Fit == {l \in MinLog .. MaxLog : bytes <= 2^l}
<1>1. MaxLog \in Fit
  BY ArenaAssumption DEF Servable
<1>2. Fit \subseteq Nat
  BY ArenaAssumption
<1>3. PICK l \in Fit : \A k \in Fit : l <= k
  <2> HIDE DEF Fit
  <2> QED
    BY <1>1, <1>2, LeastNat
<1>4. \E m \in MinLog .. MaxLog :
        /\ bytes <= 2^m
        /\ \A k \in MinLog .. MaxLog : bytes <= 2^k => m <= k
  BY <1>3
<1> QED
  BY <1>4 DEF SuggestSizeLog

\* Powers of two are ordered like their exponents.
LEMMA PowerOrder ==
  ASSUME NEW k \in 0 .. MaxLog, NEW l \in 0 .. MaxLog
  PROVE  /\ 2^k \in Nat /\ 2^k > 0
         /\ 2^k < 2^l => k < l
         /\ k <= l => 2^k <= 2^l
<1>1. 2^k \in Nat \ {0} /\ 2^l \in Nat \ {0}
  BY PowerAssumption
<1>2. k < l => 2^k < 2^l
  BY PowerAssumption
<1>3. l < k => 2^l < 2^k
  BY PowerAssumption
<1> DEFINE P == 2^k
           Q == 2^l
<1>4. k \in Int /\ l \in Int
  BY ArenaAssumption
<1>5. P \in Nat \ {0} /\ Q \in Nat \ {0} /\ (k < l => P < Q) /\ (l < k => Q < P)
      /\ (k = l => P = Q)
  BY <1>1, <1>2, <1>3
<1> HIDE DEF P, Q
<1>6. /\ P \in Nat /\ P > 0
      /\ P < Q => k < l
      /\ k <= l => P <= Q
  BY <1>4, <1>5
<1> QED
  BY <1>6 DEF P, Q

\* A product grows with its second factor.
LEMMA ProductOrder ==
  ASSUME NEW e \in Nat, NEW m \in Nat, NEW n \in Nat, m <= n
  PROVE  e * m \in Nat /\ e * n \in Nat /\ e * m <= e * n
<1>1. PICK d \in Nat : n = m + d
  <2>1. n - m \in Nat /\ n = m + (n - m)
    OBVIOUS
  <2> QED
    BY <2>1
<1>2. e * n = e * m + e * d
  BY <1>1
<1>3. e * m \in Nat /\ e * d \in Nat /\ e * n \in Nat
  OBVIOUS
<1> DEFINE a == e * m
           b == e * d
           c == e * n
<1>4. a \in Nat /\ b \in Nat /\ c \in Nat /\ c = a + b
  BY <1>2, <1>3
<1> HIDE DEF a, b, c
<1>5. a <= c
  BY <1>4
<1> QED
  BY <1>3, <1>5 DEF a, c

\* Integer division rounds down.
LEMMA DivFloor ==
  ASSUME NEW e \in Nat \ {0}, NEW n \in Nat
  PROVE  /\ n \div e \in Nat
         /\ e * (n \div e) <= n
         /\ n < e * ((n \div e) + 1)
  OBVIOUS

\* What Slice.Grow recomputes from a capacity is what was allocated for it:
\* sliceLayout(n) holds at least n elements, and the layout of the capacity it
\* is rounded to is the same size again.
LEMMA SliceLayoutStable ==
  ASSUME NEW n \in Nat \ {0}, Servable(Elem * n)
  PROVE  /\ Elem * n \in Nat \ {0}
         /\ SliceLayout(n) \in Nat \ {0}
         /\ RoundUp(SliceLayout(n)) = SliceLayout(n)
         /\ SliceLayout(n) \div Elem \in Nat
         /\ n <= SliceLayout(n) \div Elem
         /\ Elem * (SliceLayout(n) \div Elem) <= SliceLayout(n)
         /\ SliceLayout(SliceLayout(n) \div Elem) = SliceLayout(n)
<1> DEFINE b == Elem * n
           l == SuggestSizeLog(b)
           size == SliceLayout(n)
           c == size \div Elem
<1>1. b \in Nat \ {0}
  <2>1. Elem * 1 <= Elem * n /\ Elem * n \in Nat
    BY ArenaAssumption, ProductOrder
  <2> QED
    BY <2>1, ArenaAssumption
<1>2. l \in MinLog .. MaxLog /\ b <= 2^l
      /\ \A k \in MinLog .. MaxLog : b <= 2^k => l <= k
  BY <1>1, SuggestSizeLogLeast
<1>3. l \in 0 .. MaxLog
  BY <1>2, ArenaAssumption
<1>4. size = 2^l
  BY <1>1 DEF SliceLayout, SuggestSize
<1>5. size \in Nat \ {0}
  BY <1>3, <1>4, PowerOrder
<1>6. RoundUp(size) = size
  BY <1>2, <1>4, AlignAssumption
<1>7. c \in Nat /\ Elem * c <= size /\ size < Elem * (c + 1)
  <2> HIDE DEF size
  <2> QED
    BY <1>5, DivFloor, ArenaAssumption
<1>8. n <= c
  <2>1. SUFFICES ASSUME c + 1 <= n
                 PROVE  FALSE
    <3> HIDE DEF c
    <3> QED
      BY <1>7
  <2>2. Elem * (c + 1) <= b
    <3> HIDE DEF c
    <3> QED
      BY <1>7, <2>1, ProductOrder, ArenaAssumption
  <2>3. b <= size
    BY <1>2, <1>4
  <2>4. Elem * (c + 1) \in Nat
    <3> HIDE DEF c
    <3> QED
      BY <1>7, ArenaAssumption
  <2> HIDE DEF b, c, size
  <2> QED
    BY <1>1, <1>5, <1>7, <2>2, <2>3, <2>4
<1>9. SliceLayout(c) = size
  <2>1. b <= Elem * c /\ Elem * c \in Nat
    <3> HIDE DEF c
    <3> QED
      BY <1>7, <1>8, ProductOrder, ArenaAssumption
  <2>2. Elem * c # 0
    <3> HIDE DEF c, b
    <3> QED
      BY <1>1, <2>1
  <2>3. Servable(Elem * c)
    <3>1. 2^l <= 2^MaxLog /\ 2^l \in Nat /\ 2^MaxLog \in Nat
      BY <1>3, PowerOrder, ArenaAssumption
    <3>2. Elem * c <= 2^l
      BY <1>7, <1>4
    <3> HIDE DEF c, l
    <3> QED
      BY <3>1, <3>2, <2>1 DEF Servable
  <2>4. SuggestSizeLog(Elem * c) = l
    <3>1. /\ SuggestSizeLog(Elem * c) \in MinLog .. MaxLog
          /\ Elem * c <= 2^SuggestSizeLog(Elem * c)
          /\ \A k \in MinLog .. MaxLog :
               Elem * c <= 2^k => SuggestSizeLog(Elem * c) <= k
      <4> HIDE DEF c
      <4> QED
        BY <2>1, <2>3, SuggestSizeLogLeast
    <3>2. Elem * c <= 2^l
      BY <1>7, <1>4
    <3>3. SuggestSizeLog(Elem * c) <= l
      BY <3>1, <3>2, <1>2
    <3> DEFINE m == SuggestSizeLog(Elem * c)
    <3>4. 2^m \in Nat
      BY <3>1, PowerOrder, ArenaAssumption
    <3>5. b <= 2^m
      <4> HIDE DEF m, b, c
      <4>1. Elem * c <= 2^m
        BY <3>1 DEF m
      <4> QED
        BY <4>1, <3>4, <2>1, <1>1
    <3>6. l <= m
      BY <3>1, <3>5, <1>2
    <3> HIDE DEF m, l
    <3> QED
      BY <3>1, <3>3, <3>6, <1>3, ArenaAssumption DEF m
  <2> QED
    BY <2>2, <2>4, <1>4 DEF SliceLayout, SuggestSize
<1> QED
  BY <1>1, <1>5, <1>6, <1>7, <1>8, <1>9

\* More capacity never lays out smaller.
LEMMA SliceLayoutGrows ==
  ASSUME NEW m \in Nat, NEW n \in Nat \ {0}, m <= n, Servable(Elem * n)
  PROVE  /\ SliceLayout(m) \in Nat
         /\ SliceLayout(m) <= SliceLayout(n)
<1>1. CASE m = 0
  <2>1. Elem * m = 0
    BY <1>1, ArenaAssumption
  <2>2. SliceLayout(m) = 0
    BY <2>1 DEF SliceLayout, SuggestSize
  <2> QED
    BY <2>2, SliceLayoutStable
<1>2. CASE m # 0
  <2> DEFINE bm == Elem * m
             bn == Elem * n
  <2>1. bm \in Nat /\ bn \in Nat /\ bm <= bn
    BY ProductOrder, ArenaAssumption
  <2>2. bm # 0 /\ bn # 0
    BY <1>2, ArenaAssumption
  <2>3. Servable(bm)
    <3>1. 2^MaxLog \in Nat
      BY PowerOrder, ArenaAssumption
    <3> HIDE DEF bm, bn
    <3>2. Servable(bn)
      BY DEF bn
    <3> QED
      BY <2>1, <3>1, <3>2 DEF Servable
  <2> DEFINE km == SuggestSizeLog(bm)
             kn == SuggestSizeLog(bn)
  <2>4. /\ km \in MinLog .. MaxLog
        /\ \A k \in MinLog .. MaxLog : bm <= 2^k => km <= k
    <3> HIDE DEF bm
    <3> QED
      BY <2>1, <2>3, SuggestSizeLogLeast
  <2>5. kn \in MinLog .. MaxLog /\ bn <= 2^kn
    BY <2>1, SuggestSizeLogLeast
  <2>6. 2^km \in Nat /\ 2^kn \in Nat
    BY <2>4, <2>5, PowerOrder, ArenaAssumption
  <2>7. bm <= 2^kn
    <3> HIDE DEF bm, bn, kn
    <3> QED
      BY <2>1, <2>5, <2>6
  <2>8. km <= kn
    BY <2>4, <2>5, <2>7
  <2>9. 2^km <= 2^kn
    <3> HIDE DEF km, kn
    <3> QED
      BY <2>4, <2>5, <2>8, PowerOrder, ArenaAssumption
  <2> QED
    BY <2>2, <2>6, <2>9 DEF SliceLayout, SuggestSize
<1> QED
  BY <1>1, <1>2

----------------------------------------------------------------------------
(* The block table *)

\* Grow always lands past the end of the block table, on a block that comes
\* fresh from the heap and becomes the last entry, and keeps every other entry.
LEMMA GrowTakesFreshBlock ==
  ASSUME TypeOK, LastBlockIsCurrent, TableFromHeap,
         NEW size \in Nat, NEW used \in 0 .. size, GrowAndTake(size, used)
  PROVE  /\ cur' = nalloc + 1 /\ nalloc' = nalloc + 1 /\ nalloc' \in 0 .. MaxBlocks
         /\ blocks' \in Seq(Blocks \cup {NoBlock})
         /\ Len(blocks) < Len(blocks') /\ Len(blocks') <= MaxLog + 1
         /\ blocks'[Len(blocks')] = cur'
         /\ \A i \in 1 .. Len(blocks) : blocks'[i] = blocks[i]
         /\ \A i \in 1 .. Len(blocks') : blocks'[i] <= nalloc'
         /\ next' = used /\ end' = 2^(Len(blocks') - 1) /\ cap' = end'
         /\ end' \in Nat /\ used <= end'
         /\ cap' >= 2 * cap /\ cap' > 0
<1> DEFINE request == Larger(size, 2 * cap)
           log == SuggestSizeLog(request)
<1>1. cap \in Nat /\ nalloc \in 0 .. MaxBlocks /\ Len(blocks) \in Nat
      /\ blocks \in Seq(Blocks \cup {NoBlock}) /\ Len(blocks) <= MaxLog + 1
  BY DEF TypeOK
<1>2. request \in Nat /\ request >= size /\ request >= 2 * cap
  BY <1>1 DEF Larger
<1>3. log \in MinLog .. MaxLog /\ request <= 2^log
  <2>1. Servable(request)
    BY DEF GrowAndTake
  <2> HIDE DEF request
  <2> QED
    BY <1>2, <2>1, SuggestSizeLogLeast
<1>4. log \in 0 .. MaxLog /\ log \in Nat
  BY <1>3, ArenaAssumption
<1>5. 2^log \in Nat /\ 2^log > 0
  BY <1>4, PowerOrder
<1>6. Len(blocks) <= log
  <2>1. CASE Len(blocks) = 0
    BY <2>1, <1>4
  <2>2. CASE Len(blocks) # 0
    <3>1. Len(blocks) - 1 \in 0 .. MaxLog
      BY <1>1, <2>2, ArenaAssumption
    <3>2. cap = 2^(Len(blocks) - 1) /\ cap > 0
      BY <2>2, <3>1, PowerOrder DEF LastBlockIsCurrent
    <3>3. cap < 2^log
      <4> HIDE DEF log, request
      <4> QED
        BY <1>1, <1>2, <1>3, <1>5, <3>2
    <3>4. Len(blocks) - 1 < log
      <4> HIDE DEF log
      <4> QED
        BY <3>1, <3>2, <3>3, <1>4, PowerOrder
    <3> HIDE DEF log
    <3> QED
      BY <1>1, <1>4, <3>4
  <2> QED
    BY <2>1, <2>2
<1>7. ~ReusesChunk(log)
  <2> HIDE DEF log
  <2> QED
    BY <1>1, <1>4, <1>6 DEF ReusesChunk
<1>8. /\ nalloc < MaxBlocks
      /\ cur' = nalloc + 1 /\ nalloc' = nalloc + 1
      /\ blocks' = ChunkTable(log)
      /\ next' = used /\ end' = 2^log /\ cap' = 2^log
  BY <1>7 DEF GrowAndTake, ChunkBlock
<1>9. blocks' = [i \in 1 .. log + 1 |->
                   IF i = log + 1 THEN nalloc + 1
                   ELSE IF i <= Len(blocks) THEN blocks[i] ELSE NoBlock]
  <2>1. Larger(log + 1, Len(blocks)) = log + 1
    <3> HIDE DEF log
    <3> QED
      BY <1>1, <1>4, <1>6 DEF Larger
  <2>2. ChunkBlock(log) = nalloc + 1
    BY <1>7 DEF ChunkBlock
  <2> QED
    BY <1>8, <2>1, <2>2 DEF ChunkTable
<1> HIDE DEF log, request
<1>10. nalloc' \in 0 .. MaxBlocks /\ nalloc + 1 \in Blocks
  BY <1>1, <1>8, ArenaAssumption DEF Blocks
<1>11. \A i \in 1 .. Len(blocks) : blocks[i] \in Blocks \cup {NoBlock}
  BY <1>1
<1>12. blocks' \in Seq(Blocks \cup {NoBlock}) /\ Len(blocks') = log + 1
  BY <1>1, <1>4, <1>9, <1>10, <1>11
<1>13. blocks'[log + 1] = cur'
  BY <1>4, <1>8, <1>9
<1>14. \A i \in 1 .. Len(blocks) : blocks'[i] = blocks[i]
  BY <1>1, <1>4, <1>6, <1>9
<1>15. \A i \in 1 .. log + 1 : blocks'[i] <= nalloc'
  <2> SUFFICES ASSUME NEW i \in 1 .. log + 1
               PROVE  blocks'[i] <= nalloc'
    OBVIOUS
  <2>1. CASE i = log + 1
    BY <2>1, <1>1, <1>8, <1>9
  <2>2. CASE i # log + 1 /\ i <= Len(blocks)
    <3>1. blocks[i] <= nalloc /\ blocks[i] \in Int
      BY <2>2, <1>4, <1>11, ArenaAssumption DEF TableFromHeap, Blocks, NoBlock
    <3>2. blocks'[i] = blocks[i]
      BY <2>2, <1>9
    <3> QED
      BY <3>1, <3>2, <1>1, <1>8
  <2>3. CASE i # log + 1 /\ ~(i <= Len(blocks))
    BY <2>3, <1>1, <1>8, <1>9 DEF NoBlock
  <2> QED
    BY <2>1, <2>2, <2>3
<1>16. used <= 2^log /\ 2^log >= 2 * cap
  BY <1>1, <1>2, <1>3, <1>5
<1>17. Len(blocks) < log + 1 /\ log + 1 <= MaxLog + 1 /\ (log + 1) - 1 = log
  BY <1>1, <1>4, <1>6, ArenaAssumption
<1> QED
  BY <1>5, <1>8, <1>10, <1>12, <1>13, <1>14, <1>15, <1>16, <1>17

\* The header part of the type invariant.
HeaderType ==
  /\ blocks \in Seq(Blocks \cup {NoBlock})
  /\ Len(blocks) <= MaxLog + 1
  /\ cur \in Blocks \cup {NoBlock}
  /\ next \in Nat /\ end \in Nat /\ cap \in Nat
  /\ nalloc \in 0 .. MaxBlocks

\* The header change of an allocation or, with size 0, of a Reserve.
Bump(size) ==
  \/ Take(size)
  \/ size = 0 /\ \E request \in Nat : GrowAndTake(request, 0)

\* An allocation keeps the header well formed; its region either continues the
\* current block at Next or starts a block nothing has been handed out of.
LEMMA TakeStep ==
  ASSUME TypeOK, LastBlockIsCurrent, TableFromHeap, NEW size \in Nat, Bump(size)
  PROVE  /\ HeaderType' /\ LastBlockIsCurrent' /\ TableFromHeap'
         /\ next' - size \in Nat /\ next' <= end' /\ nalloc <= nalloc'
         /\ size > 0 => cur' \in 1 .. nalloc'
         /\ cur' <= nalloc'
         /\ \/ /\ cur' = cur /\ next' = next + size /\ end' = end
               /\ blocks' = blocks /\ nalloc' = nalloc /\ cap' = cap
            \/ /\ cur' = nalloc + 1 /\ nalloc' = nalloc + 1 /\ next' = size
               /\ cap' >= 2 * cap /\ cap' > 0
         /\ \A i \in 1 .. Len(blocks) : i <= Len(blocks') /\ blocks'[i] = blocks[i]
         /\ size > 0 => Len(blocks') > 0
<1>1. /\ blocks \in Seq(Blocks \cup {NoBlock}) /\ Len(blocks) \in Nat
      /\ Len(blocks) <= MaxLog + 1
      /\ cur \in Blocks \cup {NoBlock}
      /\ next \in Nat /\ end \in Nat /\ cap \in Nat /\ nalloc \in 0 .. MaxBlocks
  BY DEF TypeOK
<1>2. cur <= nalloc /\ next <= end
  <2>1. CASE Len(blocks) = 0
    BY <2>1, <1>1 DEF LastBlockIsCurrent, NoBlock
  <2>2. CASE Len(blocks) # 0
    BY <2>2, <1>1 DEF LastBlockIsCurrent, TableFromHeap
  <2> QED
    BY <2>1, <2>2
<1>3. CASE next + size <= end /\ next' = next + size
           /\ UNCHANGED <<blocks, cur, end, cap, nalloc>>
  <2>1. HeaderType'
    BY <1>1, <1>3 DEF HeaderType
  <2>2. LastBlockIsCurrent'
    BY <1>1, <1>3 DEF LastBlockIsCurrent
  <2>3. TableFromHeap'
    BY <1>3 DEF TableFromHeap
  <2>4. size > 0 => Len(blocks) > 0
    BY <1>1, <1>3 DEF LastBlockIsCurrent
  <2>5. size > 0 => cur \in 1 .. nalloc
    BY <1>1, <1>2, <2>4 DEF LastBlockIsCurrent, Blocks, NoBlock
  <2> QED
    BY <1>1, <1>2, <1>3, <2>1, <2>2, <2>3, <2>4, <2>5
<1>4. ASSUME NEW request \in Nat, size <= request, GrowAndTake(request, size)
      PROVE  /\ HeaderType' /\ LastBlockIsCurrent' /\ TableFromHeap'
             /\ next' - size \in Nat /\ next' <= end' /\ nalloc <= nalloc'
             /\ cur' \in 1 .. nalloc'
             /\ cur' = nalloc + 1 /\ nalloc' = nalloc + 1 /\ next' = size
             /\ cap' >= 2 * cap /\ cap' > 0
             /\ \A i \in 1 .. Len(blocks) : i <= Len(blocks') /\ blocks'[i] = blocks[i]
             /\ Len(blocks') > 0
  <2>1. size \in 0 .. request
    BY <1>4
  <2>2. /\ cur' = nalloc + 1 /\ nalloc' = nalloc + 1 /\ nalloc' \in 0 .. MaxBlocks
        /\ blocks' \in Seq(Blocks \cup {NoBlock})
        /\ Len(blocks) < Len(blocks') /\ Len(blocks') <= MaxLog + 1
        /\ blocks'[Len(blocks')] = cur'
        /\ \A i \in 1 .. Len(blocks) : blocks'[i] = blocks[i]
        /\ \A i \in 1 .. Len(blocks') : blocks'[i] <= nalloc'
        /\ next' = size /\ end' = 2^(Len(blocks') - 1) /\ cap' = end'
        /\ end' \in Nat /\ size <= end'
        /\ cap' >= 2 * cap /\ cap' > 0
    BY <1>4, <2>1, GrowTakesFreshBlock
  <2>3. Len(blocks') \in Nat
    BY <2>2
  <2>4. HeaderType'
    BY <1>1, <2>2 DEF HeaderType, Blocks
  <2>5. LastBlockIsCurrent'
    BY <1>1, <2>2, <2>3 DEF LastBlockIsCurrent, NoBlock
  <2>6. TableFromHeap'
    BY <2>2 DEF TableFromHeap
  <2> QED
    BY <1>1, <2>2, <2>3, <2>4, <2>5, <2>6
<1>5. CASE next + size > end /\ GrowAndTake(size, size)
  BY <1>4, <1>5, <1>1
<1>6. CASE size = 0 /\ \E request \in Nat : GrowAndTake(request, 0)
  <2>1. PICK request \in Nat : GrowAndTake(request, size)
    BY <1>6
  <2>2. size <= request
    BY <1>6
  <2> QED
    BY <2>1, <2>2, <1>4, <1>1
<1> QED
  BY <1>3, <1>5, <1>6 DEF Take, Bump

----------------------------------------------------------------------------
(* Regions and memory *)

RegionType == [blk : Blocks, off : Nat, size : Nat]
SliceType == [blk : Blocks \cup {NoBlock}, off : Nat, len : Nat, cap : Nat]

\* A live region belongs to a block the heap has handed out and, if that is
\* the current block, ends at or before Next.
LEMMA LiveRegion ==
  ASSUME ArenaInv, NEW r \in live
  PROVE  /\ r \in RegionType /\ r.blk \in Nat /\ r.off \in Nat /\ r.size \in Nat
         /\ r.blk \in Blocks /\ r.size > 0 /\ r.blk <= nalloc
         /\ r.blk = cur => r.off + r.size <= next
<1>1. r \in RegionType
  BY DEF ArenaInv, TypeOK, RegionType
<1>2. r.blk \in Nat /\ r.off \in Nat /\ r.size \in Nat /\ r.blk \in Blocks
  BY <1>1 DEF RegionType, Blocks
<1>3. PICK i \in 1 .. Len(blocks) : blocks[i] = r.blk
  BY DEF ArenaInv, LiveInTable
<1>4. r.blk <= nalloc
  BY <1>3 DEF ArenaInv, TableFromHeap
<1> QED
  BY <1>1, <1>2, <1>4 DEF ArenaInv, LiveBelowNext

\* Handing out the region of an allocation keeps live regions disjoint, inside
\* blocks of the table and, in the current block, below Next.
LEMMA TakeLive ==
  ASSUME ArenaInv, NEW size \in Nat, Bump(size), live' = live \cup Taken(size)
  PROVE  /\ \A r \in live' : r \in RegionType
         /\ LiveBelowNext' /\ LiveInTable' /\ LiveDisjoint'
<1>1. TypeOK /\ LastBlockIsCurrent /\ TableFromHeap
  BY DEF ArenaInv
<1>2. /\ HeaderType' /\ LastBlockIsCurrent' /\ TableFromHeap'
      /\ next' - size \in Nat /\ next' <= end' /\ nalloc <= nalloc'
      /\ size > 0 => cur' \in 1 .. nalloc'
      /\ cur' <= nalloc'
      /\ \/ /\ cur' = cur /\ next' = next + size /\ end' = end
            /\ blocks' = blocks /\ nalloc' = nalloc /\ cap' = cap
         \/ /\ cur' = nalloc + 1 /\ nalloc' = nalloc + 1 /\ next' = size
            /\ cap' >= 2 * cap /\ cap' > 0
      /\ \A i \in 1 .. Len(blocks) : i <= Len(blocks') /\ blocks'[i] = blocks[i]
      /\ size > 0 => Len(blocks') > 0
  BY <1>1, TakeStep
<1> DEFINE q == Region(cur', next' - size, size)
<1>3. /\ next \in Nat /\ next' \in Nat /\ nalloc \in Nat /\ nalloc' \in Nat
      /\ end' \in Nat /\ Len(blocks) \in Nat /\ Len(blocks') \in Nat
      /\ nalloc' <= MaxBlocks /\ cur \in Nat /\ cur' \in Nat
  BY <1>1, <1>2, ArenaAssumption DEF TypeOK, HeaderType, Blocks, NoBlock
<1>4. q.blk = cur' /\ q.off = next' - size /\ q.size = size
  BY DEF Region
<1>5. \A r \in live' : r \in live \/ (size > 0 /\ r = q)
  BY <1>3 DEF Taken
<1>6. size > 0 => q \in RegionType
  <2>1. size > 0 => cur' \in Blocks
    BY <1>2, <1>3, ArenaAssumption DEF Blocks
  <2>2. next' - size \in Nat
    BY <1>2
  <2> QED
    BY <2>1, <2>2 DEF RegionType, Region
<1>7. \A r \in live : r.blk = cur' => r.off + r.size <= next' - size
  <2> SUFFICES ASSUME NEW r \in live, r.blk = cur'
               PROVE  r.off + r.size <= next' - size
    OBVIOUS
  <2>1. r.blk <= nalloc /\ (r.blk = cur => r.off + r.size <= next)
    BY LiveRegion
  <2>2. CASE cur' = cur /\ next' = next + size
    <3>1. next' - size = next
      BY <2>2, <1>3
    <3> QED
      BY <2>1, <2>2, <3>1
  <2>3. CASE cur' = nalloc + 1
    BY <2>1, <2>3, <1>3
  <2> QED
    BY <2>2, <2>3, <1>2
<1>8. \A r \in live' : r \in RegionType
  BY <1>5, <1>6, LiveRegion
<1>9. LiveBelowNext'
  <2> SUFFICES ASSUME NEW r \in live'
               PROVE  r.size > 0 /\ (r.blk = cur' => r.off + r.size <= next')
    BY DEF LiveBelowNext
  <2>1. CASE r \in live
    BY <2>1, <1>2, <1>3, <1>7, LiveRegion
  <2>2. CASE size > 0 /\ r = q
    BY <2>2, <1>2, <1>3, <1>4
  <2> QED
    BY <2>1, <2>2, <1>5
<1>10. LiveInTable'
  <2> SUFFICES ASSUME NEW r \in live'
               PROVE  \E i \in 1 .. Len(blocks') :
                        blocks'[i] = r.blk /\ r.off + r.size <= 2^(i - 1)
    BY DEF LiveInTable
  <2>1. CASE r \in live
    <3>1. PICK i \in 1 .. Len(blocks) :
            blocks[i] = r.blk /\ r.off + r.size <= 2^(i - 1)
      BY <2>1 DEF ArenaInv, LiveInTable
    <3>2. i \in 1 .. Len(blocks') /\ blocks'[i] = blocks[i]
      BY <1>2, <1>3
    <3> QED
      BY <3>1, <3>2
  <2>2. CASE size > 0 /\ r = q
    <3>1. Len(blocks') \in 1 .. Len(blocks') /\ Len(blocks') # 0
      BY <2>2, <1>2, <1>3
    <3>2. blocks'[Len(blocks')] = cur' /\ end' = 2^(Len(blocks') - 1)
      BY <3>1, <1>2 DEF LastBlockIsCurrent
    <3>3. r.off + r.size <= end'
      BY <2>2, <1>2, <1>3, <1>4
    <3> QED
      BY <2>2, <1>4, <3>1, <3>2, <3>3
  <2> QED
    BY <2>1, <2>2, <1>5
<1>11. LiveDisjoint'
  <2> SUFFICES ASSUME NEW p \in live', NEW r \in live', p # r
               PROVE  Disjoint(p, r)
    BY DEF LiveDisjoint
  <2>1. CASE p \in live /\ r \in live
    BY <2>1 DEF ArenaInv, LiveDisjoint
  <2>2. CASE p \in live /\ r = q
    BY <2>2, <1>4, <1>7 DEF Disjoint
  <2>3. CASE p = q /\ r \in live
    BY <2>3, <1>4, <1>7 DEF Disjoint
  <2> QED
    BY <2>1, <2>2, <2>3, <1>5
<1> QED
  BY <1>8, <1>9, <1>10, <1>11

\* A cell that holds an element of a slice lies in that slice's live region.
LEMMA SliceExtent ==
  ASSUME ArenaInv, NEW s \in Slots, NEW c \in Cells,
         InRegion(c, slices[s].blk, slices[s].off, slices[s].len * Elem)
  PROVE  /\ slices[s].blk # NoBlock /\ slices[s].cap > 0
         /\ Region(slices[s].blk, slices[s].off, SliceLayout(slices[s].cap)) \in live
         /\ InRegion(c, slices[s].blk, slices[s].off, SliceLayout(slices[s].cap))
         /\ c[1] <= nalloc /\ (c[1] = cur => c[2] < next)
<1> DEFINE sl == slices[s]
<1>1. /\ sl.blk \in Nat /\ sl.off \in Nat /\ sl.len \in Nat /\ sl.cap \in Nat
      /\ c[1] \in Nat /\ c[2] \in Nat
  <2>1. sl \in [blk : Blocks \cup {NoBlock}, off : Nat, len : Nat, cap : Nat]
    BY DEF ArenaInv, TypeOK
  <2>2. 2^MaxLog \in Nat
    BY PowerOrder, ArenaAssumption
  <2> QED
    BY <2>1, <2>2 DEF Blocks, NoBlock, Cells, Offsets
<1>2. sl.len # 0
  <2>1. ASSUME sl.len = 0
        PROVE  FALSE
    <3>1. sl.len * Elem = 0
      BY <2>1, ArenaAssumption
    <3> QED
      BY <1>1, <3>1 DEF InRegion
  <2> QED
    BY <2>1
<1>3. ~(sl.blk = NoBlock \/ sl.cap = 0)
  BY <1>2 DEF ArenaInv, SlicesOwnRegions, SliceOwnsRegion
<1>4. /\ sl.len <= sl.cap /\ Elem * sl.cap <= SliceLayout(sl.cap)
      /\ Region(sl.blk, sl.off, SliceLayout(sl.cap)) \in live
  BY <1>3 DEF ArenaInv, SlicesOwnRegions, SliceOwnsRegion
<1> DEFINE r == Region(sl.blk, sl.off, SliceLayout(sl.cap))
<1>5. r.blk = sl.blk /\ r.off = sl.off /\ r.size = SliceLayout(sl.cap)
  BY DEF Region
<1>6. r.size \in Nat /\ r.blk <= nalloc /\ (r.blk = cur => r.off + r.size <= next)
  <2> HIDE DEF r
  <2> QED
    BY <1>4, LiveRegion DEF r
<1>7. sl.len * Elem <= SliceLayout(sl.cap)
  <2>1. Elem * sl.len <= Elem * sl.cap /\ Elem * sl.len \in Nat /\ Elem * sl.cap \in Nat
    <3> HIDE DEF sl
    <3> QED
      BY <1>1, <1>4, ProductOrder, ArenaAssumption
  <2>2. sl.len * Elem = Elem * sl.len
    BY <1>1, ArenaAssumption
  <2>3. SliceLayout(sl.cap) \in Nat
    BY <1>5, <1>6
  <2> HIDE DEF sl
  <2> QED
    BY <1>4, <2>1, <2>2, <2>3
<1>8. sl.len * Elem \in Nat
  BY <1>1, ArenaAssumption
<1>9. InRegion(c, sl.blk, sl.off, SliceLayout(sl.cap))
  BY <1>1, <1>5, <1>6, <1>7, <1>8 DEF InRegion
<1>10. c[1] <= nalloc /\ (c[1] = cur => c[2] < next)
  <2>1. next \in Nat
    BY DEF ArenaInv, TypeOK
  <2> QED
    BY <1>1, <1>5, <1>6, <1>9, <2>1 DEF InRegion
<1> QED
  BY <1>1, <1>3, <1>4, <1>9, <1>10

\* Writes confined to the region of an allocation leave the memory beyond Next,
\* the blocks not obtained yet and every other slice's elements alone.
LEMMA TakeMem ==
  ASSUME ArenaInv, NEW size \in Nat, Bump(size),
         \A c \in Cells : ~InRegion(c, cur', next' - size, size) => mem'[c] = mem[c]
  PROVE  /\ HeapIsZero' /\ FreeSpaceIsZero'
         /\ \A s \in Slots : \A c \in Cells :
              InRegion(c, slices[s].blk, slices[s].off, slices[s].len * Elem)
                => mem'[c] = mem[c]
<1>1. TypeOK /\ LastBlockIsCurrent /\ TableFromHeap
  BY DEF ArenaInv
<1>2. /\ HeaderType'
      /\ next' - size \in Nat /\ nalloc <= nalloc'
      /\ cur' <= nalloc'
      /\ \/ /\ cur' = cur /\ next' = next + size /\ end' = end
         \/ /\ cur' = nalloc + 1 /\ next' = size
  BY <1>1, TakeStep
<1>3. /\ next \in Nat /\ next' \in Nat /\ nalloc \in Nat /\ nalloc' \in Nat
      /\ end \in Nat /\ end' \in Nat /\ cur \in Nat /\ cur' \in Nat
  BY <1>1, <1>2, ArenaAssumption DEF TypeOK, HeaderType, Blocks, NoBlock
<1>4. \A c \in Cells : c[1] \in Nat /\ c[2] \in Nat
  <2>1. 2^MaxLog \in Nat
    BY PowerOrder, ArenaAssumption
  <2> QED
    BY <2>1 DEF Cells, Blocks, Offsets
<1>5. HeapIsZero'
  <2> SUFFICES ASSUME NEW c \in Cells, c[1] > nalloc'
               PROVE  mem'[c] = Zero
    BY DEF HeapIsZero
  <2>1. c[1] > nalloc /\ c[1] # cur'
    BY <1>2, <1>3, <1>4
  <2>2. mem'[c] = mem[c]
    BY <2>1 DEF InRegion
  <2> QED
    BY <2>1, <2>2 DEF ArenaInv, HeapIsZero
<1>6. FreeSpaceIsZero'
  <2> SUFFICES ASSUME NEW c \in Cells, c[1] = cur', next' <= c[2], c[2] < end'
               PROVE  mem'[c] = Zero
    BY DEF FreeSpaceIsZero
  <2>1. ~InRegion(c, cur', next' - size, size)
    BY <1>3, <1>4 DEF InRegion
  <2>2. mem'[c] = mem[c]
    BY <2>1
  <2>3. CASE cur' = cur /\ next' = next + size /\ end' = end
    <3>1. next <= next' /\ c[2] \in Nat
      BY <2>3, <1>3, <1>4
    <3>2. next <= c[2]
      BY <3>1, <1>3
    <3> QED
      BY <2>2, <2>3, <3>2 DEF ArenaInv, FreeSpaceIsZero
  <2>4. CASE cur' = nalloc + 1
    <3>1. c[1] > nalloc
      BY <2>4, <1>3
    <3> QED
      BY <2>2, <3>1 DEF ArenaInv, HeapIsZero
  <2> QED
    BY <2>3, <2>4, <1>2
<1>7. ASSUME NEW s \in Slots, NEW c \in Cells,
             InRegion(c, slices[s].blk, slices[s].off, slices[s].len * Elem)
      PROVE  mem'[c] = mem[c]
  <2>1. c[1] <= nalloc /\ (c[1] = cur => c[2] < next)
    BY <1>7, SliceExtent
  <2>2. c[1] \in Nat /\ c[2] \in Nat
    BY <1>4
  <2>3. ~InRegion(c, cur', next' - size, size)
    <3>1. CASE cur' = cur /\ next' = next + size
      BY <2>1, <2>2, <3>1, <1>3 DEF InRegion
    <3>2. CASE cur' = nalloc + 1
      BY <2>1, <2>2, <3>2, <1>3 DEF InRegion
    <3> QED
      BY <3>1, <3>2, <1>2
  <2> QED
    BY <2>3
<1> QED
  BY <1>5, <1>6, <1>7

\* A slice that an allocation does not touch keeps the region it owns.
LEMMA TakeKeepsSlice ==
  ASSUME ArenaInv, NEW size \in Nat, Bump(size), live \subseteq live',
         NEW s \in Slots, slices'[s] = slices[s]
  PROVE  SliceOwnsRegion(slices[s])'
<1> DEFINE sl == slices[s]
<1>1. SliceOwnsRegion(sl)
  BY DEF ArenaInv, SlicesOwnRegions
<1>2. sl.blk \in Nat /\ sl.off \in Nat
  <2>1. sl \in [blk : Blocks \cup {NoBlock}, off : Nat, len : Nat, cap : Nat]
    BY DEF ArenaInv, TypeOK
  <2> QED
    BY <2>1 DEF Blocks, NoBlock
<1>3. /\ HeaderType'
      /\ next' - size \in Nat /\ nalloc <= nalloc'
      /\ \/ /\ cur' = cur /\ next' = next + size /\ end' = end
         \/ /\ cur' = nalloc + 1 /\ next' = size
  BY TakeStep DEF ArenaInv
<1>4. /\ next \in Nat /\ next' \in Nat /\ nalloc \in Nat /\ nalloc' \in Nat
  BY <1>3, ArenaAssumption DEF ArenaInv, TypeOK, HeaderType
<1>5. CASE sl.blk = NoBlock \/ sl.cap = 0
  <2>1. /\ sl.cap = 0 /\ sl.len = 0 /\ sl.blk <= nalloc
        /\ sl.blk = cur => sl.off <= next
    BY <1>1, <1>5 DEF SliceOwnsRegion
  <2>2. sl.blk <= nalloc'
    BY <2>1, <1>2, <1>3, <1>4
  <2>3. sl.blk = cur' => sl.off <= next'
    BY <2>1, <1>2, <1>3, <1>4
  <2> HIDE DEF sl
  <2>4. slices'[s] = sl
    BY DEF sl
  <2> QED
    BY <2>1, <2>2, <2>3, <2>4, <1>5 DEF SliceOwnsRegion
<1>6. CASE ~(sl.blk = NoBlock \/ sl.cap = 0)
  <2>1. /\ sl.len <= sl.cap
        /\ Elem * sl.cap <= SliceLayout(sl.cap)
        /\ Region(sl.blk, sl.off, SliceLayout(sl.cap)) \in live
    BY <1>1, <1>6 DEF SliceOwnsRegion
  <2> HIDE DEF sl
  <2>2. slices'[s] = sl
    BY DEF sl
  <2> QED
    BY <2>1, <2>2, <1>6 DEF SliceOwnsRegion
<1> QED
  BY <1>5, <1>6

----------------------------------------------------------------------------
(* Actions *)

\* The parts of the invariant that an allocation preserves whatever its caller
\* then does with the slices.
TakeInv ==
  /\ HeaderType /\ LastBlockIsCurrent /\ TableFromHeap /\ HeapIsZero
  /\ (\A r \in live : r \in RegionType)
  /\ LiveBelowNext /\ LiveInTable /\ LiveDisjoint /\ FreeSpaceIsZero

\* An allocation whose caller writes only to the region it got preserves them.
LEMMA TakePreserves ==
  ASSUME ArenaInv, NEW size \in Nat, Bump(size), live' = live \cup Taken(size),
         \A c \in Cells : ~InRegion(c, cur', next' - size, size) => mem'[c] = mem[c]
  PROVE  TakeInv'
<1>1. HeaderType' /\ LastBlockIsCurrent' /\ TableFromHeap'
  BY TakeStep DEF ArenaInv
<1>2. /\ \A r \in live' : r \in RegionType
      /\ LiveBelowNext' /\ LiveInTable' /\ LiveDisjoint'
  BY TakeLive
<1>3. HeapIsZero' /\ FreeSpaceIsZero'
  BY TakeMem
<1> QED
  BY <1>1, <1>2, <1>3 DEF TakeInv

\* What TakeInv leaves to show of the invariant.
LEMMA TakeInvCompletes ==
  ASSUME TakeInv', mem' \in [Cells -> Values], panicked' \in BOOLEAN,
         slices' \in [Slots -> SliceType], SlicesOwnRegions', SlicesReadBack'
  PROVE  ArenaInv'
<1>1. TypeOK'
  BY DEF TakeInv, HeaderType, TypeOK, RegionType, SliceType
<1> QED
  BY <1>1 DEF TakeInv, ArenaInv

\* Alloc and AllocMessage.
LEMMA HandOutStep ==
  ASSUME ArenaInv, NEW size \in Nat, HandOut(size)
  PROVE  ArenaInv'
<1>1. Take(size) /\ live' = live \cup Taken(size) /\ slices' = slices
      /\ panicked' = panicked
  BY DEF HandOut
<1>2. mem' = [c \in Cells |->
               IF InRegion(c, cur', next' - size, size) THEN Raw ELSE mem[c]]
  BY DEF HandOut
<1>3. \A c \in Cells : ~InRegion(c, cur', next' - size, size) => mem'[c] = mem[c]
  BY <1>2
<1>4. TakeInv'
  BY <1>1, <1>3, TakePreserves DEF Bump
<1>5. mem' \in [Cells -> Values]
  <2>1. mem \in [Cells -> Values] /\ Raw \in Values
    BY DEF ArenaInv, TypeOK, Values
  <2> QED
    BY <1>2, <2>1
<1>6. SlicesOwnRegions'
  <2>1. live \subseteq live'
    BY <1>1
  <2>2. \A s \in Slots : SliceOwnsRegion(slices[s])'
    BY <1>1, <2>1, TakeKeepsSlice DEF Bump
  <2> QED
    BY <1>1, <2>2 DEF ArenaInv, SlicesOwnRegions
<1>7. SlicesReadBack'
  <2>1. \A s \in Slots : \A c \in Cells :
          InRegion(c, slices[s].blk, slices[s].off, slices[s].len * Elem)
            => mem'[c] = mem[c]
    BY <1>1, <1>3, TakeMem DEF Bump
  <2> QED
    BY <1>1, <2>1 DEF ArenaInv, SlicesReadBack
<1>8. panicked' \in BOOLEAN
      /\ slices' \in [Slots -> SliceType]
  BY <1>1 DEF ArenaInv, TypeOK, SliceType
<1> QED
  BY <1>4, <1>5, <1>6, <1>7, <1>8, TakeInvCompletes

\* Rounding up to the alignment.
LEMMA RoundUpNat ==
  ASSUME NEW size \in Nat
  PROVE  RoundUp(size) \in Nat /\ RoundUp(0) = 0
<1>1. (size + Align - 1) \div Align \in Nat
  <2>1. size + Align - 1 \in Nat
    BY ArenaAssumption
  <2> QED
    BY <2>1, DivFloor, ArenaAssumption
<1>2. (0 + Align - 1) \div Align = 0
  BY ArenaAssumption
<1> QED
  BY <1>1, <1>2, ArenaAssumption DEF RoundUp

\* A step that allocates the region of slice s and stores its n elements, all
\* within that region: what Of, AppendNew and AppendMove do.
SliceTaken(s, size, n, k) ==
  /\ Take(size) /\ live' = live \cup Taken(size) /\ panicked' = panicked
  /\ \/ n = 0 /\ k = 0 /\ size = 0
     \/ k > 0 /\ n <= k /\ size > 0 /\ size = SliceLayout(k) /\ Elem * k <= size
  /\ slices' = [slices EXCEPT ![s] =
                  [blk |-> cur', off |-> next' - size, len |-> n, cap |-> k]]
  /\ mem' \in [Cells -> Values]
  /\ \A c \in Cells : ~InRegion(c, cur', next' - size, size) => mem'[c] = mem[c]
  /\ \A c \in Cells : InRegion(c, cur', next' - size, n * Elem)
       => mem'[c] = ElemOf(s, (c[2] - (next' - size)) \div Elem)

\* Such a step preserves the invariant.
LEMMA TakeForSlice ==
  ASSUME ArenaInv, NEW s \in Slots, NEW size \in Nat, NEW n \in Nat, NEW k \in Nat,
         SliceTaken(s, size, n, k)
  PROVE  ArenaInv'
<1> USE DEF SliceTaken, Bump
<1> DEFINE new == [blk |-> cur', off |-> next' - size, len |-> n, cap |-> k]
<1>1. TakeInv'
  BY TakePreserves
<1>2. live \subseteq live' /\ panicked' \in BOOLEAN
  BY DEF ArenaInv, TypeOK
<1>3. /\ next' - size \in Nat /\ cur' <= nalloc' /\ next' \in Nat
      /\ cur' \in Blocks \cup {NoBlock} /\ (size > 0 => cur' \in 1 .. nalloc')
      /\ \/ cur' = cur /\ next' = next + size
         \/ cur' = nalloc + 1 /\ next' = size
  BY TakeStep DEF ArenaInv, HeaderType
<1>4. slices \in [Slots -> SliceType]
  BY DEF ArenaInv, TypeOK, SliceType
<1>5. new \in SliceType
  BY <1>3 DEF SliceType
<1>6. slices' \in [Slots -> SliceType]
  BY <1>4, <1>5
<1>7. slices'[s] = new /\ \A t \in Slots : t # s => slices'[t] = slices[t]
  BY <1>4
<1>8. SliceOwnsRegion(slices[s])'
  <2>1. CASE n = 0 /\ k = 0 /\ size = 0
    <3> HIDE DEF SliceTaken
    <3>1. cur' <= nalloc'
      BY <1>3
    <3>2. next' - size <= next'
      <4>1. next' \in Nat
        BY <1>3
      <4>2. \A x \in Nat : x - size <= x
        OBVIOUS
      <4> QED
        BY <4>1, <4>2
    <3>3. new.blk = cur' /\ new.off = next' - size /\ new.len = 0 /\ new.cap = 0
      BY <2>1
    <3> HIDE DEF new
    <3> QED
      BY <3>1, <3>2, <3>3, <1>7 DEF SliceOwnsRegion
  <2>2. CASE k > 0 /\ n <= k /\ size > 0 /\ size = SliceLayout(k) /\ Elem * k <= size
    <3>1. Region(cur', next' - size, size) \in live'
      BY <2>2 DEF Taken
    <3>2. new.blk # NoBlock /\ new.cap # 0
      BY <2>2, <1>3 DEF NoBlock
    <3>3. new.blk = cur' /\ new.off = next' - size /\ new.len = n /\ new.cap = k
      OBVIOUS
    <3> HIDE DEF new
    <3> QED
      BY <2>2, <3>1, <3>2, <3>3, <1>7 DEF SliceOwnsRegion
  <2> QED
    BY <2>1, <2>2
<1>9. ASSUME NEW t \in Slots, t # s
      PROVE  SliceOwnsRegion(slices[t])'
  BY <1>2, <1>7, <1>9, TakeKeepsSlice
<1>10. ASSUME NEW t \in Slots, t # s, slices[t].cap > 0, k > 0
       PROVE  slices[t].blk # cur' \/ slices[t].off # next' - size
  <2> DEFINE sl == slices[t]
             r == Region(sl.blk, sl.off, SliceLayout(sl.cap))
  <2>1. r \in live
    <3>1. sl.cap # 0
      BY <1>10, <1>4 DEF SliceType
    <3>2. SliceOwnsRegion(sl)
      BY DEF ArenaInv, SlicesOwnRegions
    <3> QED
      BY <3>1, <3>2 DEF SliceOwnsRegion
  <2>2. r.blk = sl.blk /\ r.off = sl.off
    BY DEF Region
  <2>3. /\ r.blk <= nalloc /\ (r.blk = cur => r.off + r.size <= next)
        /\ r.size > 0 /\ r.size \in Nat /\ r.off \in Nat /\ r.blk \in Nat
    <3> HIDE DEF r
    <3> QED
      BY <2>1, LiveRegion
  <2>4. nalloc \in Nat /\ next \in Nat
    BY DEF ArenaInv, TypeOK
  <2> HIDE DEF r, sl
  <2>5. CASE cur' = cur /\ next' = next + size
    <3>1. next' - size = next
      BY <2>5, <2>4
    <3> QED
      BY <2>2, <2>3, <2>4, <2>5, <3>1 DEF sl
  <2>6. CASE cur' = nalloc + 1
    BY <2>2, <2>3, <2>4, <2>6 DEF sl
  <2> QED
    BY <2>5, <2>6, <1>3
<1>11. SlicesOwnRegions'
  <2>1. \A t \in Slots : SliceOwnsRegion(slices[t])'
    BY <1>8, <1>9
  <2>2. ASSUME NEW t \in Slots, NEW u \in Slots,
               t # u, slices'[t].cap > 0, slices'[u].cap > 0
        PROVE  slices'[t].blk # slices'[u].blk \/ slices'[t].off # slices'[u].off
    <3>1. CASE t # s /\ u # s
      BY <2>2, <3>1, <1>7 DEF ArenaInv, SlicesOwnRegions
    <3>2. CASE t = s /\ u # s
      BY <2>2, <3>2, <1>7, <1>10
    <3>3. CASE t # s /\ u = s
      BY <2>2, <3>3, <1>7, <1>10
    <3> QED
      BY <2>2, <3>1, <3>2, <3>3
  <2> QED
    BY <2>1, <2>2 DEF SlicesOwnRegions
<1>12. SlicesReadBack'
  <2> SUFFICES ASSUME NEW t \in Slots, NEW c \in Cells,
                      InRegion(c, slices'[t].blk, slices'[t].off, slices'[t].len * Elem)
               PROVE  mem'[c] = ElemOf(t, (c[2] - slices'[t].off) \div Elem)
    BY DEF SlicesReadBack
  <2>1. CASE t = s
    BY <2>1, <1>7
  <2>2. CASE t # s
    <3>1. mem'[c] = mem[c]
      BY <2>2, <1>7, TakeMem
    <3> QED
      BY <2>2, <3>1, <1>7 DEF ArenaInv, SlicesReadBack
  <2> QED
    BY <2>1, <2>2
<1> QED
  BY <1>1, <1>2, <1>6, <1>11, <1>12, TakeInvCompletes

\* Cells are pairs of naturals.
LEMMA CellType ==
  ASSUME NEW c \in Cells
  PROVE  c[1] \in Nat /\ c[2] \in Nat
<1>1. 2^MaxLog \in Nat
  BY PowerOrder, ArenaAssumption
<1> QED
  BY <1>1 DEF Cells, Blocks, Offsets

\* The index StoreElems computes for a cell at or after off is a natural.
LEMMA ElemOfType ==
  ASSUME NEW s \in Slots, NEW c \in Cells, NEW off \in Nat, off <= c[2]
  PROVE  ElemOf(s, (c[2] - off) \div Elem) \in Values
<1>1. c[2] - off \in Nat
  BY CellType
<1>2. (c[2] - off) \div Elem \in Nat
  BY <1>1, DivFloor, ArenaAssumption
<1> QED
  BY <1>2 DEF ElemOf, Values

\* A new slice: Of and AppendNew.
LEMMA NewSliceStep ==
  ASSUME ArenaInv, NEW s \in Slots, NEW n \in Nat, Servable(Elem * n),
         Take(RoundUp(SliceLayout(n))),
         live' = live \cup Taken(RoundUp(SliceLayout(n))), panicked' = panicked,
         slices' = [slices EXCEPT ![s] =
                      [blk |-> cur', off |-> next' - RoundUp(SliceLayout(n)),
                       len |-> n, cap |-> SliceLayout(n) \div Elem]],
         mem' = StoreElems(mem, s, cur', next' - RoundUp(SliceLayout(n)), 0, n)
  PROVE  ArenaInv'
<1> DEFINE size == RoundUp(SliceLayout(n))
           k == SliceLayout(n) \div Elem
<1>1. /\ size \in Nat /\ k \in Nat /\ n * Elem \in Nat /\ n * Elem <= size
      /\ \/ n = 0 /\ k = 0 /\ size = 0
         \/ k > 0 /\ n <= k /\ size > 0 /\ size = SliceLayout(k) /\ Elem * k <= size
  <2>1. CASE n = 0
    <3>1. Elem * n = 0 /\ n * Elem = 0
      BY <2>1, ArenaAssumption
    <3>2. SliceLayout(n) = 0
      BY <3>1 DEF SliceLayout, SuggestSize
    <3>3. 0 \div Elem = 0
      BY ArenaAssumption
    <3> QED
      BY <2>1, <3>1, <3>2, <3>3, RoundUpNat
  <2>2. CASE n # 0
    <3>1. /\ Elem * n \in Nat \ {0}
          /\ SliceLayout(n) \in Nat \ {0}
          /\ size = SliceLayout(n)
          /\ k \in Nat
          /\ n <= k
          /\ Elem * k <= size
          /\ SliceLayout(k) = size
      BY <2>2, SliceLayoutStable
    <3> HIDE DEF size, k
    <3>2. n * Elem = Elem * n
      BY ArenaAssumption
    <3>3. Elem * n <= Elem * k /\ Elem * k \in Nat
      BY <3>1, ProductOrder, ArenaAssumption
    <3>4. n * Elem \in Nat /\ n * Elem <= size
      BY <3>1, <3>2, <3>3
    <3> QED
      BY <2>2, <3>1, <3>4
  <2> QED
    BY <2>1, <2>2
<1>2. /\ Take(size) /\ live' = live \cup Taken(size)
      /\ slices' = [slices EXCEPT ![s] =
                      [blk |-> cur', off |-> next' - size, len |-> n, cap |-> k]]
      /\ mem' = StoreElems(mem, s, cur', next' - size, 0, n)
  OBVIOUS
<1> HIDE DEF size, k
<1>3. next' - size \in Nat /\ cur' \in Nat
  BY <1>1, <1>2, TakeStep DEF Bump, ArenaInv, HeaderType, Blocks, NoBlock
<1>4. mem' = [c \in Cells |->
               IF InRegion(c, cur', next' - size, n * Elem)
               THEN ElemOf(s, (c[2] - (next' - size)) \div Elem) ELSE mem[c]]
  <2>1. (next' - size) + 0 * Elem = next' - size
    BY <1>3, ArenaAssumption
  <2> QED
    BY <1>2, <2>1 DEF StoreElems
<1>5. mem' \in [Cells -> Values]
  <2>1. mem \in [Cells -> Values]
    BY DEF ArenaInv, TypeOK
  <2>2. ASSUME NEW c \in Cells, InRegion(c, cur', next' - size, n * Elem)
        PROVE  ElemOf(s, (c[2] - (next' - size)) \div Elem) \in Values
    <3>1. next' - size <= c[2]
      BY <2>2 DEF InRegion
    <3> DEFINE off == next' - size
    <3>2. off \in Nat /\ off <= c[2]
      BY <3>1, <1>3
    <3> HIDE DEF off
    <3>3. ElemOf(s, (c[2] - off) \div Elem) \in Values
      BY <3>2, ElemOfType
    <3> QED
      BY <3>3 DEF off
  <2> QED
    BY <1>4, <2>1, <2>2
<1>6. ASSUME NEW c \in Cells, ~InRegion(c, cur', next' - size, size)
      PROVE  mem'[c] = mem[c]
  <2>1. ~InRegion(c, cur', next' - size, n * Elem)
    <3> DEFINE off == next' - size
               e == n * Elem
    <3>1. off \in Nat /\ e \in Nat /\ e <= size /\ ~InRegion(c, cur', off, size)
      BY <1>1, <1>3, <1>6
    <3> HIDE DEF off, e
    <3>2. ~InRegion(c, cur', off, e)
      BY <3>1, <1>1, CellType DEF InRegion
    <3> QED
      BY <3>2 DEF off, e
  <2> QED
    BY <2>1, <1>4
<1>7. \A c \in Cells : ~InRegion(c, cur', next' - size, size) => mem'[c] = mem[c]
  BY <1>6
<1>8. SliceTaken(s, size, n, k)
  BY <1>1, <1>2, <1>4, <1>5, <1>7 DEF SliceTaken
<1> QED
  BY <1>1, <1>8, TakeForSlice

\* The Offset of a cell of a live region is the offset of a cell.
LEMMA LiveCells ==
  ASSUME ArenaInv, NEW r \in live, NEW d \in Nat, d < r.size
  PROVE  <<r.blk, r.off + d>> \in Cells
<1>1. /\ r.blk \in Blocks /\ r.off \in Nat /\ r.size \in Nat
  BY LiveRegion
<1>2. PICK i \in 1 .. Len(blocks) : r.off + r.size <= 2^(i - 1)
  BY DEF ArenaInv, LiveInTable
<1>3. i - 1 \in 0 .. MaxLog
  BY ArenaAssumption DEF ArenaInv, TypeOK
<1>4. 2^(i - 1) <= 2^MaxLog /\ 2^(i - 1) \in Nat /\ 2^MaxLog \in Nat
  BY <1>3, PowerOrder, ArenaAssumption
<1>5. r.off + d \in 0 .. 2^MaxLog
  <2> DEFINE P == 2^(i - 1)
             Q == 2^MaxLog
  <2>1. P <= Q /\ P \in Nat /\ Q \in Nat /\ r.off + r.size <= P
    BY <1>2, <1>4
  <2> HIDE DEF P, Q
  <2>2. r.off + d \in 0 .. Q
    BY <2>1, <1>1
  <2> QED
    BY <2>2 DEF Q
<1> QED
  BY <1>1, <1>5 DEF Cells, Offsets

\* AppendMove.
LEMMA AppendMoveStep ==
  ASSUME ArenaInv, NEW s \in Slots, NEW n \in Nat \ {0},
         AppendMove(s, n), panicked' = panicked
  PROVE  ArenaInv'
<1> DEFINE sl == slices[s]
           oldSize == SliceLayout(sl.cap)
           newSize == SliceLayout(sl.cap + n)
           size == RoundUp(newSize)
           k == newSize \div Elem
           len == sl.len + n
           off == next' - size
           src(c) == <<sl.blk, sl.off + (c[2] - off)>>
           copied == [c \in Cells |->
                        IF InRegion(c, cur', off, oldSize) THEN mem[src(c)] ELSE mem[c]]
<1>1. /\ sl.blk # NoBlock
      /\ Servable(Elem * (sl.cap + n))
      /\ Take(size)
      /\ live' = live \cup Taken(size)
      /\ slices' = [slices EXCEPT ![s] =
                      [blk |-> cur', off |-> off, len |-> len, cap |-> k]]
      /\ mem' = StoreElems(copied, s, cur', off, sl.len, n)
  BY DEF AppendMove
<1>2. sl.blk \in Nat /\ sl.off \in Nat /\ sl.len \in Nat /\ sl.cap \in Nat
  <2>1. sl \in SliceType
    BY DEF ArenaInv, TypeOK, SliceType
  <2> QED
    BY <2>1 DEF SliceType, Blocks, NoBlock
<1>3. /\ sl.cap + n \in Nat \ {0}
      /\ oldSize \in Nat /\ oldSize <= newSize
      /\ newSize \in Nat \ {0} /\ size = newSize
      /\ k \in Nat /\ sl.cap + n <= k /\ Elem * k <= newSize
      /\ SliceLayout(k) = newSize
  <2>1. sl.cap + n \in Nat \ {0} /\ sl.cap <= sl.cap + n
    BY <1>2
  <2> DEFINE cn == sl.cap + n
  <2>2. Servable(Elem * cn) /\ cn \in Nat \ {0} /\ sl.cap <= cn
    BY <1>1, <2>1
  <2> HIDE DEF cn
  <2>3. SliceLayout(sl.cap) \in Nat /\ SliceLayout(sl.cap) <= SliceLayout(cn)
    BY <1>2, <2>2, SliceLayoutGrows
  <2>4. /\ SliceLayout(cn) \in Nat \ {0}
        /\ RoundUp(SliceLayout(cn)) = SliceLayout(cn)
        /\ SliceLayout(cn) \div Elem \in Nat
        /\ cn <= SliceLayout(cn) \div Elem
        /\ Elem * (SliceLayout(cn) \div Elem) <= SliceLayout(cn)
        /\ SliceLayout(SliceLayout(cn) \div Elem) = SliceLayout(cn)
    BY <2>2, SliceLayoutStable
  <2> QED
    BY <2>1, <2>3, <2>4 DEF cn
<1>4. SliceOwnsRegion(sl)
  BY DEF ArenaInv, SlicesOwnRegions
<1>5. \/ sl.cap = 0 /\ sl.len = 0 /\ oldSize = 0
      \/ /\ sl.cap > 0 /\ sl.len <= sl.cap
         /\ Elem * sl.cap <= oldSize
         /\ Region(sl.blk, sl.off, oldSize) \in live
  <2>1. CASE sl.cap = 0
    <3>1. Elem * sl.cap = 0
      BY <2>1, ArenaAssumption
    <3>2. oldSize = 0
      BY <3>1 DEF SliceLayout, SuggestSize
    <3>3. sl.len = 0
      BY <2>1, <1>4 DEF SliceOwnsRegion
    <3> QED
      BY <2>1, <3>2, <3>3
  <2>2. CASE sl.cap # 0
    BY <2>2, <1>1, <1>2, <1>4 DEF SliceOwnsRegion
  <2> QED
    BY <2>1, <2>2
<1>6. off \in Nat /\ cur' \in Nat
  <2> HIDE DEF size
  <2>1. size \in Nat
    BY <1>3
  <2> QED
    BY <1>1, <2>1, TakeStep DEF Bump, ArenaInv, HeaderType, Blocks, NoBlock
<1> HIDE DEF size, off, k, newSize, oldSize, sl, len
<1>7. len \in Nat /\ len > 0 /\ len <= k
  BY <1>2, <1>3, <1>5 DEF len
<1>8. /\ sl.len * Elem \in Nat /\ n * Elem \in Nat /\ len * Elem \in Nat
      /\ len * Elem = sl.len * Elem + n * Elem
      /\ sl.len * Elem <= oldSize
      /\ len * Elem <= size
  <2>1. sl.len * Elem \in Nat /\ n * Elem \in Nat /\ len * Elem \in Nat
    BY <1>2, <1>7, ArenaAssumption
  <2>2. len * Elem = sl.len * Elem + n * Elem
    BY <1>2, ArenaAssumption DEF len
  <2>3. Elem * len <= Elem * k /\ Elem * k \in Nat /\ Elem * len \in Nat
    BY <1>3, <1>7, ProductOrder, ArenaAssumption
  <2>4. len * Elem = Elem * len
    BY <1>7, ArenaAssumption
  <2>5. len * Elem <= size
    BY <1>3, <2>3, <2>4
  <2>6. sl.len * Elem <= oldSize
    <3>1. CASE sl.len = 0
      BY <3>1, <1>3, ArenaAssumption
    <3>2. CASE sl.len # 0
      <4>1. sl.len <= sl.cap /\ Elem * sl.cap <= oldSize
        BY <3>2, <1>5
      <4>2. Elem * sl.len <= Elem * sl.cap /\ Elem * sl.cap \in Nat /\ Elem * sl.len \in Nat
        BY <4>1, <1>2, ProductOrder, ArenaAssumption
      <4>3. sl.len * Elem = Elem * sl.len
        BY <1>2, ArenaAssumption
      <4> QED
        BY <4>1, <4>2, <4>3, <1>3
    <3> QED
      BY <3>1, <3>2
  <2> QED
    BY <2>1, <2>2, <2>5, <2>6
<1>9. mem' = [c \in Cells |->
               IF InRegion(c, cur', off + sl.len * Elem, n * Elem)
               THEN ElemOf(s, (c[2] - off) \div Elem)
               ELSE IF InRegion(c, cur', off, oldSize) THEN mem[src(c)] ELSE mem[c]]
  BY <1>1 DEF StoreElems
<1>10. ASSUME NEW c \in Cells, InRegion(c, cur', off, oldSize)
       PROVE  src(c) \in Cells /\ src(c)[1] = sl.blk /\ src(c)[2] = sl.off + (c[2] - off)
              /\ c[2] - off \in Nat
  <2> DEFINE r == Region(sl.blk, sl.off, oldSize)
             d == c[2] - off
  <2>1. d \in Nat /\ d < oldSize
    BY <1>10, <1>3, <1>6, CellType DEF InRegion
  <2>2. r \in live
    BY <2>1, <1>5
  <2>3. r.blk = sl.blk /\ r.off = sl.off /\ r.size = oldSize
    BY DEF Region
  <2> HIDE DEF r, d
  <2>4. <<r.blk, r.off + d>> \in Cells
    BY <2>1, <2>2, <2>3, LiveCells
  <2>5. <<sl.blk, sl.off + d>> \in Cells
    BY <2>3, <2>4
  <2> QED
    BY <2>1, <2>5 DEF d
<1>11. ASSUME NEW c \in Cells, ~InRegion(c, cur', off, size)
       PROVE  mem'[c] = mem[c]
  <2>1. c[2] \in Nat
    BY CellType
  <2>2. ~InRegion(c, cur', off, oldSize)
    BY <2>1, <1>3, <1>6, <1>11 DEF InRegion
  <2>3. ~InRegion(c, cur', off + sl.len * Elem, n * Elem)
    <3> DEFINE a == sl.len * Elem
               b == n * Elem
    <3>1. a \in Nat /\ b \in Nat /\ a + b <= size
      BY <1>8
    <3> HIDE DEF a, b
    <3>2. ~InRegion(c, cur', off + a, b)
      BY <2>1, <3>1, <1>3, <1>6, <1>11 DEF InRegion
    <3> QED
      BY <3>2 DEF a, b
  <2> QED
    BY <2>2, <2>3, <1>9
<1>12. ASSUME NEW c \in Cells, InRegion(c, cur', off, len * Elem)
       PROVE  mem'[c] = ElemOf(s, (c[2] - off) \div Elem)
  <2> DEFINE a == sl.len * Elem
             b == n * Elem
  <2>1. c[2] \in Nat
    BY CellType
  <2>2. a \in Nat /\ b \in Nat /\ InRegion(c, cur', off, a + b) /\ a <= oldSize
    BY <1>8, <1>12
  <2>3. CASE off + a <= c[2]
    <3> HIDE DEF a, b
    <3>1. InRegion(c, cur', off + a, b)
      BY <2>1, <2>2, <2>3, <1>6 DEF InRegion
    <3> QED
      BY <3>1, <1>9 DEF a, b
  <2>4. CASE ~(off + a <= c[2])
    <3>1. ~InRegion(c, cur', off + a, b)
      BY <2>4 DEF InRegion
    <3>2. InRegion(c, cur', off, oldSize)
      <4> HIDE DEF a, b
      <4> QED
        BY <2>1, <2>2, <2>4, <1>3, <1>6 DEF InRegion
    <3>3. mem'[c] = mem[src(c)]
      BY <3>1, <3>2, <1>9
    <3>4. /\ src(c) \in Cells /\ src(c)[1] = sl.blk
          /\ src(c)[2] = sl.off + (c[2] - off) /\ c[2] - off \in Nat
      BY <3>2, <1>10
    <3> DEFINE e == src(c)
    <3>5. InRegion(e, sl.blk, sl.off, a)
      <4>1. e[1] = sl.blk /\ e[2] = sl.off + (c[2] - off) /\ c[2] - off \in Nat
        BY <3>4
      <4> HIDE DEF e, a
      <4> QED
        BY <4>1, <2>1, <2>2, <2>4, <1>2, <1>6 DEF InRegion
    <3>6. mem[e] = ElemOf(s, (e[2] - sl.off) \div Elem)
      BY <3>4, <3>5 DEF ArenaInv, SlicesReadBack, sl
    <3>7. e[2] - sl.off = c[2] - off
      BY <3>4, <1>2
    <3> QED
      BY <3>3, <3>6, <3>7
  <2> QED
    BY <2>3, <2>4
<1>13. mem' \in [Cells -> Values]
  <2>1. mem \in [Cells -> Values]
    BY DEF ArenaInv, TypeOK
  <2>2. ASSUME NEW c \in Cells, InRegion(c, cur', off + sl.len * Elem, n * Elem)
        PROVE  ElemOf(s, (c[2] - off) \div Elem) \in Values
    <3>1. off <= c[2]
      <4>1. c[2] \in Nat /\ off + sl.len * Elem <= c[2] /\ sl.len * Elem \in Nat
        BY <2>2, <1>8, CellType DEF InRegion
      <4> QED
        BY <4>1, <1>6
    <3> QED
      BY <3>1, <1>6, ElemOfType
  <2>3. ASSUME NEW c \in Cells, InRegion(c, cur', off, oldSize)
        PROVE  mem[src(c)] \in Values
    BY <2>1, <2>3, <1>10
  <2>4. \A c \in Cells : mem'[c] \in Values
    BY <2>1, <2>2, <2>3, <1>9
  <2> QED
    BY <2>4, <1>9
<1>14. SliceTaken(s, size, len, k)
  <2>1. slices' = [slices EXCEPT ![s] =
                      [blk |-> cur', off |-> next' - size, len |-> len, cap |-> k]]
    BY <1>1 DEF off
  <2>2. k > 0 /\ len <= k /\ size > 0 /\ size = SliceLayout(k) /\ Elem * k <= size
    BY <1>3, <1>7
  <2>3. \A c \in Cells : ~InRegion(c, cur', next' - size, size) => mem'[c] = mem[c]
    BY <1>11 DEF off
  <2>4. \A c \in Cells : InRegion(c, cur', next' - size, len * Elem)
           => mem'[c] = ElemOf(s, (c[2] - (next' - size)) \div Elem)
    BY <1>12 DEF off
  <2> QED
    BY <1>1, <1>13, <2>1, <2>2, <2>3, <2>4 DEF SliceTaken
<1> QED
  <2>1. size \in Nat
    BY <1>3
  <2> QED
    BY <2>1, <1>3, <1>7, <1>14, TakeForSlice

\* Free.
LEMMA FreeStep ==
  ASSUME ArenaInv, Free
  PROVE  ArenaInv'
<1> DEFINE last == Len(blocks)
<1>1. /\ blocks \in Seq(Blocks \cup {NoBlock}) /\ last \in Nat /\ last > 0
      /\ last <= MaxLog + 1 /\ nalloc \in 0 .. MaxBlocks
      /\ panicked \in BOOLEAN /\ mem \in [Cells -> Values]
  BY DEF Free, ArenaInv, TypeOK
<1>2. last - 1 \in 0 .. MaxLog
  BY <1>1, ArenaAssumption
<1>3. 2^(last - 1) \in Nat /\ 2^(last - 1) > 0
  BY <1>2, PowerOrder
<1>4. blocks[last] # NoBlock /\ blocks[last] \in Blocks /\ blocks[last] <= nalloc
  BY <1>1 DEF ArenaInv, LastBlockIsCurrent, TableFromHeap
<1>5. /\ blocks' = [i \in 1 .. last |-> IF i = last THEN blocks[i] ELSE NoBlock]
      /\ cur' = blocks[last] /\ next' = 0 /\ nalloc' = nalloc
      /\ end' = 2^(last - 1) /\ cap' = 2^(last - 1)
      /\ slices' = [s \in Slots |-> NilSlice] /\ live' = {} /\ panicked' = panicked
      /\ mem' = [c \in Cells |->
                   IF InRegion(c, cur', 0, end') THEN Zero ELSE mem[c]]
  BY DEF Free
<1> HIDE DEF last
<1>6. /\ blocks' \in Seq(Blocks \cup {NoBlock}) /\ Len(blocks') = last
      /\ blocks'[last] = blocks[last]
  BY <1>1, <1>4, <1>5
<1>7. HeaderType'
  BY <1>1, <1>3, <1>4, <1>5, <1>6 DEF HeaderType
<1>8. LastBlockIsCurrent'
  <2> DEFINE P == 2^(last - 1)
  <2>1. P \in Nat /\ end' = P /\ cap' = P
    BY <1>3, <1>5
  <2> HIDE DEF P
  <2>2. next' <= end'
    BY <2>1, <1>5
  <2> QED
    BY <2>2, <1>1, <1>4, <1>5, <1>6 DEF LastBlockIsCurrent
<1>9. TableFromHeap'
  BY <1>1, <1>4, <1>5, <1>6 DEF TableFromHeap, NoBlock
<1>10. HeapIsZero'
  BY <1>5 DEF HeapIsZero, ArenaInv
<1>11. FreeSpaceIsZero'
  <2> SUFFICES ASSUME NEW c \in Cells, c[1] = cur', next' <= c[2], c[2] < end'
               PROVE  mem'[c] = Zero
    BY DEF FreeSpaceIsZero
  <2> DEFINE P == end'
  <2>1. P \in Nat
    BY <1>3, <1>5
  <2>2. InRegion(c, cur', 0, P)
    <3> HIDE DEF P
    <3>1. c[2] < P
      BY DEF P
    <3> QED
      BY <2>1, <3>1, CellType DEF InRegion
  <2> QED
    BY <2>2, <1>5
<1>12. TakeInv'
  BY <1>5, <1>7, <1>8, <1>9, <1>10, <1>11
     DEF TakeInv, LiveBelowNext, LiveInTable, LiveDisjoint
<1>13. mem' \in [Cells -> Values] /\ panicked' \in BOOLEAN
       /\ slices' \in [Slots -> SliceType]
  <2>1. Zero \in Values
    BY DEF Values
  <2>2. NilSlice \in SliceType
    BY DEF NilSlice, SliceType
  <2> QED
    BY <2>1, <2>2, <1>1, <1>5
<1>14. SlicesOwnRegions'
  <2>1. \A s \in Slots : /\ slices'[s].blk = NoBlock /\ slices'[s].cap = 0
                         /\ slices'[s].len = 0 /\ slices'[s].off = 0
    BY <1>5 DEF NilSlice
  <2>2. NoBlock <= nalloc'
    BY <1>1, <1>5 DEF NoBlock
  <2>3. \A s \in Slots : SliceOwnsRegion(slices[s])'
    BY <2>1, <2>2, <1>5 DEF SliceOwnsRegion
  <2> QED
    BY <2>1, <2>3 DEF SlicesOwnRegions
<1>15. SlicesReadBack'
  <2> SUFFICES ASSUME NEW s \in Slots, NEW c \in Cells,
                      InRegion(c, slices'[s].blk, slices'[s].off, slices'[s].len * Elem)
               PROVE  FALSE
    BY DEF SlicesReadBack
  <2>1. slices'[s].off = 0 /\ slices'[s].len = 0
    BY <1>5 DEF NilSlice
  <2>2. 0 * Elem = 0
    BY ArenaAssumption
  <2>3. InRegion(c, slices'[s].blk, 0, 0)
    BY <2>1, <2>2
  <2> QED
    BY <2>3, CellType DEF InRegion
<1> QED
  BY <1>12, <1>13, <1>14, <1>15, TakeInvCompletes

\* Reserve: an allocation of no cells that is forced to grow.
LEMMA ReserveStep ==
  ASSUME ArenaInv, NEW size \in Nat, Reserve(size)
  PROVE  ArenaInv'
<1>1. Bump(0)
  BY DEF Reserve, Grow, Bump
<1>2. /\ live' = live \cup Taken(0) /\ mem' = mem /\ slices' = slices
      /\ panicked' = panicked
  BY DEF Reserve, Taken
<1>3. 0 \in Nat /\ live \subseteq live'
  BY <1>2
<1>4. TakeInv'
  BY <1>1, <1>2, <1>3, TakePreserves
<1>5. SlicesOwnRegions'
  <2>1. \A s \in Slots : SliceOwnsRegion(slices[s])'
    BY <1>1, <1>2, <1>3, TakeKeepsSlice
  <2> QED
    BY <1>2, <2>1 DEF ArenaInv, SlicesOwnRegions
<1>6. SlicesReadBack'
  BY <1>2 DEF ArenaInv, SlicesReadBack
<1>7. mem' \in [Cells -> Values] /\ panicked' \in BOOLEAN
      /\ slices' \in [Slots -> SliceType]
  BY <1>2 DEF ArenaInv, TypeOK, SliceType
<1> QED
  BY <1>4, <1>5, <1>6, <1>7, TakeInvCompletes

\* A step that stores n more elements into slice s where it is, in a region of
\* size cells: the region it has (AppendInPlace), or the same region stretched
\* to the new Next (AppendExtend).
SliceStretched(s, n, size, k) ==
  /\ UNCHANGED <<blocks, cur, end, cap, nalloc, panicked>>
  /\ k > 0 /\ slices[s].len + n <= k /\ size = SliceLayout(k) /\ Elem * k <= size
  /\ slices[s].blk # NoBlock
  /\ live' = (live \ {Region(slices[s].blk, slices[s].off, SliceLayout(slices[s].cap))})
               \cup {Region(slices[s].blk, slices[s].off, size)}
  /\ slices' = [slices EXCEPT ![s] = [blk |-> slices[s].blk, off |-> slices[s].off,
                                      len |-> slices[s].len + n, cap |-> k]]
  /\ mem' = StoreElems(mem, s, slices[s].blk, slices[s].off, slices[s].len, n)
  /\ \/ next' = next /\ size = SliceLayout(slices[s].cap) /\ slices[s].cap > 0
     \/ /\ slices[s].blk = cur
        /\ slices[s].off + SliceLayout(slices[s].cap) = next
        /\ SliceLayout(slices[s].cap) \in Nat /\ SliceLayout(slices[s].cap) <= size
        /\ next' = slices[s].off + size /\ next' <= end

\* The region such a step gives the slice is disjoint from every other live
\* region and ends below the new Next if it lies in the current block.
LEMMA StretchedRegion ==
  ASSUME ArenaInv, NEW s \in Slots, NEW n \in Nat, NEW k \in Nat, NEW size \in Nat \ {0},
         SliceStretched(s, n, size, k)
  PROVE  LET old == Region(slices[s].blk, slices[s].off, SliceLayout(slices[s].cap))
             new == Region(slices[s].blk, slices[s].off, size)
         IN  /\ next' \in Nat /\ next <= next' /\ next' <= end
             /\ new \in RegionType /\ new.blk <= nalloc
             /\ new.blk = cur => new.off + new.size <= next'
             /\ \E i \in 1 .. Len(blocks) :
                  blocks[i] = new.blk /\ new.off + new.size <= 2^(i - 1)
             /\ \A r \in live : r # old => Disjoint(new, r)
<1> DEFINE sl == slices[s]
           oldSize == SliceLayout(sl.cap)
           old == Region(sl.blk, sl.off, oldSize)
           new == Region(sl.blk, sl.off, size)
<1>1. /\ sl.blk \in Blocks /\ sl.blk \in Nat /\ sl.off \in Nat /\ sl.len \in Nat
      /\ sl.cap \in Nat /\ next \in Nat /\ end \in Nat /\ cur \in Nat /\ nalloc \in Nat
      /\ Len(blocks) \in Nat
  <2>1. sl \in SliceType /\ sl.blk # NoBlock
    BY DEF ArenaInv, TypeOK, SliceType, SliceStretched
  <2>2. sl.blk \in Blocks /\ sl.off \in Nat /\ sl.len \in Nat /\ sl.cap \in Nat
    BY <2>1 DEF SliceType
  <2>3. next \in Nat /\ end \in Nat /\ cur \in Nat /\ nalloc \in Nat /\ Len(blocks) \in Nat
    BY DEF ArenaInv, TypeOK, Blocks, NoBlock
  <2> QED
    BY <2>2, <2>3 DEF Blocks
<1>2. new.blk = sl.blk /\ new.off = sl.off /\ new.size = size
      /\ old.blk = sl.blk /\ old.off = sl.off /\ old.size = oldSize
  BY DEF Region
<1>3. new \in RegionType
  BY <1>1 DEF RegionType, Region
<1>4. sl.cap > 0 => old \in live
  <2>1. SliceOwnsRegion(sl) /\ sl.blk # NoBlock
    BY DEF ArenaInv, SlicesOwnRegions, SliceStretched
  <2> QED
    BY <2>1, <1>1 DEF SliceOwnsRegion
<1>5. next <= end
  BY DEF ArenaInv, LastBlockIsCurrent
<1>6. CASE next' = next /\ size = oldSize /\ sl.cap > 0
  <2>1. new = old /\ new \in live
    BY <1>4, <1>6
  <2>2. new.blk <= nalloc /\ (new.blk = cur => new.off + new.size <= next)
    <3> HIDE DEF new
    <3> QED
      BY <2>1, LiveRegion
  <2>3. \E i \in 1 .. Len(blocks) :
          blocks[i] = new.blk /\ new.off + new.size <= 2^(i - 1)
    BY <2>1 DEF ArenaInv, LiveInTable
  <2>4. \A r \in live : r # old => Disjoint(new, r)
    <3> HIDE DEF new, old
    <3> QED
      BY <2>1 DEF ArenaInv, LiveDisjoint
  <2>5. next' \in Nat /\ next <= next' /\ next' <= end
    BY <1>1, <1>5, <1>6
  <2>6. new.blk = cur => new.off + new.size <= next'
    BY <2>2, <1>6
  <2> HIDE DEF new, old
  <2>7. /\ next' \in Nat /\ next <= next' /\ next' <= end
        /\ new \in RegionType /\ new.blk <= nalloc
        /\ new.blk = cur => new.off + new.size <= next'
        /\ \E i \in 1 .. Len(blocks) :
             blocks[i] = new.blk /\ new.off + new.size <= 2^(i - 1)
        /\ \A r \in live : r # old => Disjoint(new, r)
    BY <1>3, <2>2, <2>3, <2>4, <2>5, <2>6, Zenon
  <2> QED
    BY <2>7 DEF new, old, oldSize, sl
<1>7. CASE /\ sl.blk = cur /\ sl.off + oldSize = next
           /\ oldSize \in Nat /\ oldSize <= size
           /\ next' = sl.off + size /\ next' <= end
  <2>1. next' \in Nat /\ next <= next'
    <3> HIDE DEF sl, oldSize
    <3> QED
      BY <1>1, <1>7
  <2>2. Len(blocks) # 0
    BY <1>1, <1>7 DEF ArenaInv, LastBlockIsCurrent, Blocks, NoBlock
  <2>3. blocks[Len(blocks)] = cur /\ end = 2^(Len(blocks) - 1)
    BY <2>2 DEF ArenaInv, LastBlockIsCurrent
  <2>4. cur <= nalloc
    BY <2>2, <2>3, <1>1 DEF ArenaInv, TableFromHeap
  <2>5. Len(blocks) \in 1 .. Len(blocks)
    BY <2>2, <1>1
  <2>6. blocks[Len(blocks)] = new.blk /\ new.off + new.size <= 2^(Len(blocks) - 1)
    BY <2>3, <1>2, <1>7
  <2>7. ASSUME NEW r \in live, r # old
        PROVE  Disjoint(new, r)
    <3>1. /\ r.blk = cur => r.off + r.size <= next
          /\ r.size > 0 /\ r.size \in Nat /\ r.off \in Nat
      BY LiveRegion
    <3>2. CASE r.blk # cur
      BY <3>2, <1>2, <1>7 DEF Disjoint
    <3>3. CASE r.blk = cur /\ sl.cap > 0
      <4>1. Disjoint(old, r)
        <5> HIDE DEF old
        <5> QED
          BY <2>7, <3>3, <1>4 DEF ArenaInv, LiveDisjoint
      <4>2. r.off + r.size <= sl.off
        <5> HIDE DEF old, sl, oldSize
        <5> QED
          BY <4>1, <3>1, <3>3, <1>1, <1>2, <1>7, SMTT(40) DEF Disjoint
      <4> QED
        BY <4>2, <1>2 DEF Disjoint
    <3>4. CASE r.blk = cur /\ ~(sl.cap > 0)
      <4>1. sl.cap = 0
        BY <3>4, <1>1
      <4>2. Elem * sl.cap = 0
        BY <4>1, ArenaAssumption
      <4>3. oldSize = 0
        BY <4>2 DEF SliceLayout, SuggestSize
      <4>4. r.off + r.size <= sl.off
        <5> HIDE DEF sl, oldSize
        <5> QED
          BY <4>3, <3>1, <3>4, <1>1, <1>7
      <4> QED
        BY <4>4, <1>2 DEF Disjoint
    <3> QED
      BY <3>2, <3>3, <3>4
  <2>8. new.blk = cur => new.off + new.size <= next'
    <3>1. new.off + new.size = next' /\ new.off \in Nat /\ new.size \in Nat
      BY <1>1, <1>2, <1>7
    <3> HIDE DEF new
    <3> QED
      BY <3>1, <2>1
  <2> QED
    BY <1>2, <1>3, <1>7, <2>1, <2>4, <2>5, <2>6, <2>7, <2>8
<1> QED
  BY <1>6, <1>7 DEF SliceStretched

\* Such a step preserves the invariant.
LEMMA StretchedStep ==
  ASSUME ArenaInv, NEW s \in Slots, NEW n \in Nat, NEW k \in Nat, NEW size \in Nat \ {0},
         SliceStretched(s, n, size, k)
  PROVE  ArenaInv'
<1> DEFINE sl == slices[s]
           old == Region(sl.blk, sl.off, SliceLayout(sl.cap))
           new == Region(sl.blk, sl.off, size)
           a == sl.len * Elem
           b == n * Elem
<1>1. /\ next' \in Nat /\ next <= next' /\ next' <= end
      /\ new \in RegionType /\ new.blk <= nalloc
      /\ new.blk = cur => new.off + new.size <= next'
      /\ \E i \in 1 .. Len(blocks) :
           blocks[i] = new.blk /\ new.off + new.size <= 2^(i - 1)
      /\ \A r \in live : r # old => Disjoint(new, r)
  BY StretchedRegion
<1>2. new.blk = sl.blk /\ new.off = sl.off /\ new.size = size
      /\ old.blk = sl.blk /\ old.off = sl.off /\ old.size = SliceLayout(sl.cap)
  BY DEF Region
<1>3. /\ sl \in SliceType /\ sl.blk \in Blocks /\ sl.blk \in Nat /\ sl.off \in Nat
      /\ sl.len \in Nat /\ sl.cap \in Nat
      /\ slices \in [Slots -> SliceType]
  <2>1. slices \in [Slots -> SliceType] /\ sl.blk # NoBlock
    BY DEF ArenaInv, TypeOK, SliceType, SliceStretched
  <2>2. sl \in SliceType
    BY <2>1
  <2> QED
    BY <2>1, <2>2 DEF SliceType, Blocks
<1>4. /\ next \in Nat /\ end \in Nat /\ nalloc \in Nat /\ Len(blocks) \in Nat
  BY DEF ArenaInv, TypeOK
<1>5. /\ blocks' = blocks /\ cur' = cur /\ end' = end /\ cap' = cap /\ nalloc' = nalloc
      /\ panicked' = panicked
      /\ live' = (live \ {old}) \cup {new}
      /\ slices' = [slices EXCEPT ![s] = [blk |-> sl.blk, off |-> sl.off,
                                          len |-> sl.len + n, cap |-> k]]
      /\ mem' = StoreElems(mem, s, sl.blk, sl.off, sl.len, n)
      /\ k > 0 /\ sl.len + n <= k /\ size = SliceLayout(k) /\ Elem * k <= size
      /\ sl.blk # NoBlock
  BY DEF SliceStretched
<1>6. a \in Nat /\ b \in Nat /\ a + b <= size /\ (sl.len + n) * Elem = a + b
  <2>1. sl.len + n \in Nat /\ sl.len + n <= k
    BY <1>3, <1>5
  <2>2. a \in Nat /\ b \in Nat
    BY <1>3, ArenaAssumption
  <2>3. (sl.len + n) * Elem = a + b /\ Elem * (sl.len + n) = a + b
    BY <1>3, ArenaAssumption
  <2>4. Elem * (sl.len + n) <= Elem * k /\ Elem * k \in Nat
    <3> DEFINE m == sl.len + n
    <3> HIDE DEF m
    <3>1. m \in Nat /\ m <= k
      BY <2>1 DEF m
    <3>2. Elem * m <= Elem * k /\ Elem * k \in Nat
      BY <3>1, ProductOrder, ArenaAssumption
    <3> QED
      BY <3>2 DEF m
  <2> DEFINE w == Elem * k
  <2>5. w \in Nat /\ w <= size /\ a + b <= w
    BY <2>3, <2>4, <1>5
  <2> HIDE DEF w, a, b
  <2>6. a + b <= size
    BY <2>2, <2>5
  <2> QED
    BY <2>2, <2>3, <2>6
<1>7. mem' = [c \in Cells |->
               IF InRegion(c, sl.blk, sl.off + a, b)
               THEN ElemOf(s, (c[2] - sl.off) \div Elem) ELSE mem[c]]
  BY <1>5 DEF StoreElems
<1>8. slices'[s] = [blk |-> sl.blk, off |-> sl.off, len |-> sl.len + n, cap |-> k]
      /\ \A t \in Slots : t # s => slices'[t] = slices[t]
  BY <1>3, <1>5
<1> HIDE DEF sl, old, new, a, b
<1>9. ASSUME NEW c \in Cells, mem'[c] # mem[c]
      PROVE  InRegion(c, new.blk, new.off, new.size)
  <2>1. InRegion(c, sl.blk, sl.off + a, b)
    BY <1>7, <1>9
  <2> QED
    BY <2>1, <1>2, <1>3, <1>6, CellType DEF InRegion
<1>10. HeaderType' /\ LastBlockIsCurrent' /\ TableFromHeap'
  <2>1. HeaderType'
    BY <1>1, <1>5 DEF ArenaInv, TypeOK, HeaderType
  <2>2. Len(blocks) # 0
    <3>1. PICK i \in 1 .. Len(blocks) : TRUE
      BY <1>1
    <3> QED
      BY <3>1, <1>4
  <2>3. LastBlockIsCurrent'
    BY <2>2, <1>1, <1>5 DEF ArenaInv, LastBlockIsCurrent
  <2>4. TableFromHeap'
    BY <1>5 DEF ArenaInv, TableFromHeap
  <2> QED
    BY <2>1, <2>3, <2>4
<1>11. HeapIsZero'
  <2> SUFFICES ASSUME NEW c \in Cells, c[1] > nalloc
               PROVE  mem'[c] = Zero
    BY <1>5 DEF HeapIsZero
  <2>1. ~InRegion(c, new.blk, new.off, new.size)
    <3>1. new.blk \in Nat /\ c[1] \in Nat
      BY <1>2, <1>3, CellType
    <3> QED
      BY <3>1, <1>1, <1>4 DEF InRegion
  <2>2. mem'[c] = mem[c]
    BY <2>1, <1>9
  <2> QED
    BY <2>2 DEF ArenaInv, HeapIsZero
<1>12. FreeSpaceIsZero'
  <2> SUFFICES ASSUME NEW c \in Cells, c[1] = cur, next' <= c[2], c[2] < end
               PROVE  mem'[c] = Zero
    BY <1>5 DEF FreeSpaceIsZero
  <2>0. c[2] \in Nat
    BY CellType
  <2>1. next <= c[2]
    BY <2>0, <1>1, <1>4
  <2>2. ~InRegion(c, new.blk, new.off, new.size)
    <3>1. new.off \in Nat /\ new.size \in Nat
      BY <1>2, <1>3
    <3> QED
      BY <3>1, <2>0, <1>1 DEF InRegion
  <2>3. mem'[c] = mem[c]
    BY <2>2, <1>9
  <2> QED
    BY <2>1, <2>3 DEF ArenaInv, FreeSpaceIsZero
<1>13. /\ \A r \in live' : r \in RegionType
       /\ LiveBelowNext' /\ LiveInTable' /\ LiveDisjoint'
  <2>1. \A r \in live' : r = new \/ (r \in live /\ r # old)
    BY <1>5
  <2>2. \A r \in live' : r \in RegionType
    BY <2>1, <1>1, LiveRegion
  <2>3. LiveBelowNext'
    <3> SUFFICES ASSUME NEW r \in live'
                 PROVE  r.size > 0 /\ (r.blk = cur => r.off + r.size <= next')
      BY <1>5 DEF LiveBelowNext
    <3>1. CASE r = new
      BY <3>1, <1>1, <1>2
    <3>2. CASE r \in live
      <4>1. /\ r.size > 0 /\ r.size \in Nat /\ r.off \in Nat
            /\ (r.blk = cur => r.off + r.size <= next)
        BY <3>2, LiveRegion
      <4> QED
        BY <4>1, <1>1, <1>4
    <3> QED
      BY <3>1, <3>2, <2>1
  <2>4. LiveInTable'
    <3> SUFFICES ASSUME NEW r \in live'
                 PROVE  \E i \in 1 .. Len(blocks) :
                          blocks[i] = r.blk /\ r.off + r.size <= 2^(i - 1)
      BY <1>5 DEF LiveInTable
    <3> QED
      BY <2>1, <1>1 DEF ArenaInv, LiveInTable
  <2>5. LiveDisjoint'
    <3> SUFFICES ASSUME NEW q \in live', NEW r \in live', q # r
                 PROVE  Disjoint(q, r)
      BY DEF LiveDisjoint
    <3>1. CASE q = new
      BY <3>1, <2>1, <1>1
    <3>2. CASE r = new /\ q \in live /\ q # old
      <4>1. Disjoint(new, q)
        BY <3>2, <1>1
      <4> QED
        BY <3>2, <4>1 DEF Disjoint
    <3>3. CASE q \in live /\ r \in live
      BY <3>3 DEF ArenaInv, LiveDisjoint
    <3> QED
      BY <3>1, <3>2, <3>3, <2>1
  <2> QED
    BY <2>2, <2>3, <2>4, <2>5
<1>14. TakeInv'
  BY <1>10, <1>11, <1>12, <1>13 DEF TakeInv
<1>15. ASSUME NEW t \in Slots, t # s, slices[t].cap > 0
       PROVE  LET r == Region(slices[t].blk, slices[t].off, SliceLayout(slices[t].cap))
              IN  /\ r \in live /\ r # old
                  /\ slices[t].blk # sl.blk \/ slices[t].off # sl.off
  <2> DEFINE r == Region(slices[t].blk, slices[t].off, SliceLayout(slices[t].cap))
  <2>1. r.blk = slices[t].blk /\ r.off = slices[t].off
    BY DEF Region
  <2>2. r \in live
    <3>1. slices[t].cap \in Nat
      BY <1>3 DEF SliceType
    <3>2. SliceOwnsRegion(slices[t])
      BY DEF ArenaInv, SlicesOwnRegions
    <3> QED
      BY <3>1, <3>2, <1>15 DEF SliceOwnsRegion, NoBlock
  <2> HIDE DEF r
  <2>3. r.size > 0 /\ r.size \in Nat /\ r.off \in Nat
    BY <2>2, LiveRegion
  <2>4. r # old
    <3>1. CASE sl.cap > 0
      <4>1. slices[t].blk # sl.blk \/ slices[t].off # sl.off
        BY <3>1, <1>15 DEF ArenaInv, SlicesOwnRegions, sl
      <4> QED
        BY <4>1, <2>1, <1>2
    <3>2. CASE sl.cap = 0
      <4>1. Elem * sl.cap = 0
        BY <3>2, ArenaAssumption
      <4>2. SliceLayout(sl.cap) = 0
        BY <4>1 DEF SliceLayout, SuggestSize
      <4> QED
        BY <4>2, <2>3, <1>2
    <3> QED
      BY <3>1, <3>2, <1>3
  <2>5. Disjoint(new, r)
    BY <2>2, <2>4, <1>1
  <2>6. slices[t].blk # sl.blk \/ slices[t].off # sl.off
    BY <2>1, <2>3, <2>5, <1>2, <1>3 DEF Disjoint
  <2> QED
    BY <2>2, <2>4, <2>6 DEF r
<1>16. SlicesOwnRegions'
  <2>1. SliceOwnsRegion(slices[s])'
    <3>1. /\ slices'[s].blk = sl.blk /\ slices'[s].off = sl.off
          /\ slices'[s].len = sl.len + n /\ slices'[s].cap = k
      BY <1>8
    <3>2. Region(sl.blk, sl.off, SliceLayout(k)) \in live'
      BY <1>5 DEF new
    <3>3. ~(slices'[s].blk = NoBlock \/ slices'[s].cap = 0)
      BY <3>1, <1>5
    <3>4. sl.len + n <= k /\ Elem * k <= SliceLayout(k)
      BY <1>5
    <3> QED
      BY <3>1, <3>2, <3>3, <3>4 DEF SliceOwnsRegion
  <2>2. ASSUME NEW t \in Slots, t # s
        PROVE  SliceOwnsRegion(slices[t])'
    <3> DEFINE sk == slices[t]
    <3>1. SliceOwnsRegion(sk) /\ slices'[t] = sk
      BY <2>2, <1>8 DEF ArenaInv, SlicesOwnRegions
    <3>2. sk.off \in Nat /\ sk.cap \in Nat /\ sk.blk \in Nat
      BY <1>3 DEF SliceType, Blocks, NoBlock
    <3>3. CASE sk.blk = NoBlock \/ sk.cap = 0
      <4> HIDE DEF sk
      <4>1. sk.cap = 0 /\ sk.len = 0 /\ sk.blk <= nalloc /\ (sk.blk = cur => sk.off <= next)
        BY <3>1, <3>3 DEF SliceOwnsRegion
      <4>2. sk.blk = cur => sk.off <= next'
        BY <4>1, <3>2, <1>1, <1>4
      <4> QED
        BY <3>1, <3>3, <4>1, <4>2, <1>5 DEF SliceOwnsRegion
    <3>4. CASE ~(sk.blk = NoBlock \/ sk.cap = 0)
      <4>1. sk.cap > 0
        BY <3>2, <3>4
      <4>2. Region(sk.blk, sk.off, SliceLayout(sk.cap)) \in live'
        BY <2>2, <4>1, <1>5, <1>15
      <4> HIDE DEF sk
      <4> QED
        BY <3>1, <3>4, <4>2 DEF SliceOwnsRegion
    <3> QED
      BY <3>3, <3>4
  <2>3. ASSUME NEW t \in Slots, NEW u \in Slots,
               t # u, slices'[t].cap > 0, slices'[u].cap > 0
        PROVE  slices'[t].blk # slices'[u].blk \/ slices'[t].off # slices'[u].off
    <3>1. CASE t # s /\ u # s
      BY <2>3, <3>1, <1>8 DEF ArenaInv, SlicesOwnRegions
    <3>2. CASE t = s /\ u # s
      BY <2>3, <3>2, <1>8, <1>15
    <3>3. CASE t # s /\ u = s
      BY <2>3, <3>3, <1>8, <1>15
    <3> QED
      BY <2>3, <3>1, <3>2, <3>3
  <2> QED
    BY <2>1, <2>2, <2>3 DEF SlicesOwnRegions
<1>17. SlicesReadBack'
  <2> SUFFICES ASSUME NEW t \in Slots, NEW c \in Cells,
                      InRegion(c, slices'[t].blk, slices'[t].off, slices'[t].len * Elem)
               PROVE  mem'[c] = ElemOf(t, (c[2] - slices'[t].off) \div Elem)
    BY DEF SlicesReadBack
  <2>1. CASE t = s
    <3>1. InRegion(c, sl.blk, sl.off, a + b) /\ slices'[t].off = sl.off
      BY <2>1, <1>6, <1>8
    <3>2. c[2] \in Nat
      BY CellType
    <3>3. CASE InRegion(c, sl.blk, sl.off + a, b)
      BY <2>1, <3>1, <3>3, <1>7
    <3>4. CASE ~InRegion(c, sl.blk, sl.off + a, b)
      <4>1. InRegion(c, sl.blk, sl.off, a)
        BY <3>1, <3>2, <3>4, <1>3, <1>6 DEF InRegion
      <4>2. mem[c] = ElemOf(s, (c[2] - sl.off) \div Elem)
        BY <4>1 DEF ArenaInv, SlicesReadBack, sl, a
      <4> QED
        BY <2>1, <3>1, <3>4, <4>2, <1>7
    <3> QED
      BY <3>3, <3>4
  <2>2. CASE t # s
    <3> DEFINE r == Region(slices[t].blk, slices[t].off, SliceLayout(slices[t].cap))
    <3>1. slices'[t] = slices[t]
      BY <2>2, <1>8
    <3>2. /\ slices[t].cap > 0 /\ r \in live
          /\ InRegion(c, slices[t].blk, slices[t].off, SliceLayout(slices[t].cap))
      BY <3>1, SliceExtent
    <3>3. r # old
      BY <2>2, <3>2, <1>15
    <3>4. InRegion(c, r.blk, r.off, r.size)
      BY <3>2 DEF Region
    <3> HIDE DEF r
    <3>5. Disjoint(new, r) /\ r.off \in Nat /\ r.size \in Nat
      BY <3>2, <3>3, <1>1, LiveRegion
    <3>6. ~InRegion(c, new.blk, new.off, new.size)
      <4>1. new.off \in Nat /\ new.size \in Nat /\ c[2] \in Nat
        BY <1>2, <1>3, CellType
      <4> QED
        BY <3>4, <3>5, <4>1 DEF InRegion, Disjoint
    <3>7. mem'[c] = mem[c]
      BY <3>6, <1>9
    <3> QED
      BY <3>1, <3>7 DEF ArenaInv, SlicesReadBack
  <2> QED
    BY <2>1, <2>2
<1>18. mem' \in [Cells -> Values]
  <2>1. ASSUME NEW c \in Cells, InRegion(c, sl.blk, sl.off + a, b)
        PROVE  ElemOf(s, (c[2] - sl.off) \div Elem) \in Values
    <3>1. c[2] \in Nat
      BY CellType
    <3>2. sl.off <= c[2]
      BY <2>1, <3>1, <1>3, <1>6 DEF InRegion
    <3> QED
      BY <3>2, <1>3, ElemOfType
  <2> QED
    BY <2>1, <1>7 DEF ArenaInv, TypeOK
<1>19. slices' \in [Slots -> SliceType] /\ panicked' \in BOOLEAN
  <2>1. [blk |-> sl.blk, off |-> sl.off, len |-> sl.len + n, cap |-> k] \in SliceType
    BY <1>3 DEF SliceType
  <2> QED
    BY <2>1, <1>3, <1>5 DEF ArenaInv, TypeOK
<1> QED
  BY <1>14, <1>16, <1>17, <1>18, <1>19, TakeInvCompletes

\* AppendInPlace.
LEMMA AppendInPlaceStep ==
  ASSUME ArenaInv, NEW s \in Slots, NEW n \in Nat \ {0},
         AppendInPlace(s, n), panicked' = panicked
  PROVE  ArenaInv'
<1> DEFINE sl == slices[s]
           size == SliceLayout(sl.cap)
<1>1. sl \in SliceType /\ sl.len \in Nat /\ sl.cap \in Nat
  <2>1. sl \in SliceType
    BY DEF ArenaInv, TypeOK, SliceType
  <2> QED
    BY <2>1 DEF SliceType
<1>2. sl.blk # NoBlock /\ sl.cap - sl.len >= n
  BY DEF AppendInPlace
<1>3. sl.len + n <= sl.cap /\ sl.cap > 0
  <2> HIDE DEF sl
  <2> QED
    BY <1>1, <1>2
<1>4. /\ Elem * sl.cap <= size
      /\ Region(sl.blk, sl.off, size) \in live
  <2>1. SliceOwnsRegion(sl)
    BY DEF ArenaInv, SlicesOwnRegions
  <2> QED
    BY <2>1, <1>2, <1>3 DEF SliceOwnsRegion
<1>5. size \in Nat \ {0}
  <2> DEFINE r == Region(sl.blk, sl.off, size)
  <2>1. r.size = size
    BY DEF Region
  <2> HIDE DEF r
  <2>2. r.size \in Nat /\ r.size > 0
    BY <1>4, LiveRegion DEF r
  <2> QED
    BY <2>1, <2>2
<1>6. SliceStretched(s, n, size, sl.cap)
  <2>1. slices' = [slices EXCEPT ![s] = [blk |-> sl.blk, off |-> sl.off,
                                         len |-> sl.len + n, cap |-> sl.cap]]
    <3>1. slices' = [slices EXCEPT ![s].len = @ + n]
      BY DEF AppendInPlace
    <3>2. [sl EXCEPT !.len = sl.len + n]
            = [blk |-> sl.blk, off |-> sl.off, len |-> sl.len + n, cap |-> sl.cap]
      <4> HIDE DEF sl
      <4> QED
        BY <1>1 DEF SliceType
    <3>3. slices' = [slices EXCEPT ![s] = [sl EXCEPT !.len = sl.len + n]]
      BY <3>1
    <3> QED
      BY <3>2, <3>3
  <2>2. live' = (live \ {Region(sl.blk, sl.off, size)}) \cup {Region(sl.blk, sl.off, size)}
    BY <1>4 DEF AppendInPlace
  <2>3. UNCHANGED <<blocks, cur, next, end, cap, nalloc, panicked>>
    BY DEF AppendInPlace, arenaVars
  <2>4. mem' = StoreElems(mem, s, sl.blk, sl.off, sl.len, n)
    BY DEF AppendInPlace
  <2> QED
    BY <2>1, <2>2, <2>3, <2>4, <1>2, <1>3, <1>4 DEF SliceStretched
<1> HIDE DEF size
<1> QED
  BY <1>1, <1>5, <1>6, StretchedStep

\* AppendExtend.
LEMMA AppendExtendStep ==
  ASSUME ArenaInv, NEW s \in Slots, NEW n \in Nat \ {0},
         AppendExtend(s, n), panicked' = panicked
  PROVE  ArenaInv'
<1> DEFINE sl == slices[s]
           oldSize == SliceLayout(sl.cap)
           newSize == SliceLayout(sl.cap + n)
           k == newSize \div Elem
<1>1. sl \in SliceType /\ sl.len \in Nat /\ sl.cap \in Nat /\ sl.off \in Nat
      /\ next \in Nat
  <2>1. sl \in SliceType
    BY DEF ArenaInv, TypeOK, SliceType
  <2> QED
    BY <2>1 DEF SliceType, ArenaInv, TypeOK
<1>2. /\ sl.blk # NoBlock /\ Servable(Elem * (sl.cap + n))
      /\ sl.blk = cur /\ sl.off = next - oldSize /\ sl.off + newSize <= end
      /\ next' = sl.off + newSize
      /\ UNCHANGED <<blocks, cur, end, cap, nalloc, panicked>>
      /\ live' = (live \ {Region(sl.blk, sl.off, oldSize)})
                   \cup {Region(sl.blk, sl.off, newSize)}
      /\ slices' = [slices EXCEPT ![s] = [blk |-> sl.blk, off |-> sl.off,
                                          len |-> sl.len + n, cap |-> k]]
      /\ mem' = StoreElems(mem, s, sl.blk, sl.off, sl.len, n)
  BY DEF AppendExtend, CanExtend
<1>3. /\ oldSize \in Nat /\ oldSize <= newSize
      /\ newSize \in Nat \ {0}
      /\ k \in Nat /\ sl.cap + n <= k /\ Elem * k <= newSize
      /\ SliceLayout(k) = newSize
  <2> DEFINE cn == sl.cap + n
  <2>1. Servable(Elem * cn) /\ cn \in Nat \ {0} /\ sl.cap <= cn
    BY <1>1, <1>2
  <2> HIDE DEF cn
  <2>2. SliceLayout(sl.cap) \in Nat /\ SliceLayout(sl.cap) <= SliceLayout(cn)
    BY <1>1, <2>1, SliceLayoutGrows
  <2>3. /\ SliceLayout(cn) \in Nat \ {0}
        /\ SliceLayout(cn) \div Elem \in Nat
        /\ cn <= SliceLayout(cn) \div Elem
        /\ Elem * (SliceLayout(cn) \div Elem) <= SliceLayout(cn)
        /\ SliceLayout(SliceLayout(cn) \div Elem) = SliceLayout(cn)
    BY <2>1, SliceLayoutStable
  <2> QED
    BY <2>2, <2>3 DEF cn
<1>4. sl.len <= sl.cap
  <2>1. SliceOwnsRegion(sl)
    BY DEF ArenaInv, SlicesOwnRegions
  <2> QED
    BY <2>1, <1>1 DEF SliceOwnsRegion
<1>5. slices' = [slices EXCEPT ![s] = [blk |-> sl.blk, off |-> sl.off,
                                       len |-> sl.len + n, cap |-> k]]
  BY <1>2
<1>6. k > 0 /\ sl.len + n <= k
  <2> HIDE DEF sl, k
  <2> QED
    BY <1>1, <1>3, <1>4
<1>7. sl.off + oldSize = next
  <2> HIDE DEF sl, oldSize
  <2> QED
    BY <1>1, <1>2, <1>3
<1>8. SliceStretched(s, n, newSize, k)
  <2>1. newSize = SliceLayout(k)
    BY <1>3
  <2>2. next' = sl.off + newSize /\ next' <= end
    BY <1>2
  <2> HIDE DEF newSize, k
  <2> QED
    BY <2>1, <2>2, <1>2, <1>3, <1>5, <1>6, <1>7 DEF SliceStretched
<1> HIDE DEF newSize, k
<1> QED
  BY <1>3, <1>8, StretchedStep

----------------------------------------------------------------------------
(* Theorems *)

\* A fresh arena satisfies the invariant.
LEMMA InitInv == Init => ArenaInv
<1> SUFFICES ASSUME Init PROVE ArenaInv
  OBVIOUS
<1>1. TypeOK
  <2>1. mem \in [Cells -> Values]
    BY DEF Init, Values
  <2>2. slices \in [Slots -> SliceType]
    BY DEF Init, NilSlice, SliceType
  <2>3. blocks \in Seq(Blocks \cup {NoBlock}) /\ Len(blocks) = 0
    BY DEF Init
  <2>4. 0 \in 0 .. MaxBlocks /\ 0 <= MaxLog + 1
    BY ArenaAssumption
  <2>5. cur \in Blocks \cup {NoBlock} /\ next \in Nat /\ end \in Nat /\ cap \in Nat
        /\ nalloc \in 0 .. MaxBlocks /\ live = {} /\ panicked \in BOOLEAN
    BY <2>4 DEF Init
  <2> QED
    BY <2>1, <2>2, <2>3, <2>4, <2>5 DEF TypeOK, SliceType
<1>2. LastBlockIsCurrent /\ TableFromHeap /\ HeapIsZero /\ LiveBelowNext
      /\ LiveInTable /\ LiveDisjoint
  BY DEF Init, LastBlockIsCurrent, TableFromHeap, HeapIsZero, LiveBelowNext,
         LiveInTable, LiveDisjoint
<1>3. FreeSpaceIsZero
  BY DEF Init, FreeSpaceIsZero
<1>4. SlicesOwnRegions
  <2>1. \A s \in Slots : slices[s].blk = 0 /\ slices[s].cap = 0
                         /\ slices[s].len = 0 /\ slices[s].off = 0
    BY DEF Init, NilSlice, NoBlock
  <2>2. \A s \in Slots : SliceOwnsRegion(slices[s])
    BY <2>1 DEF Init, SliceOwnsRegion, NoBlock
  <2> QED
    BY <2>1, <2>2 DEF SlicesOwnRegions
<1>5. SlicesReadBack
  <2> SUFFICES ASSUME NEW s \in Slots, NEW c \in Cells,
                      InRegion(c, slices[s].blk, slices[s].off, slices[s].len * Elem)
               PROVE  FALSE
    BY DEF SlicesReadBack
  <2>1. slices[s].off = 0 /\ slices[s].len = 0
    BY DEF Init, NilSlice
  <2>2. 0 * Elem = 0
    BY ArenaAssumption
  <2>3. InRegion(c, slices[s].blk, 0, 0)
    BY <2>1, <2>2
  <2> QED
    BY <2>3, CellType DEF InRegion
<1> QED
  BY <1>1, <1>2, <1>3, <1>4, <1>5 DEF ArenaInv

\* Every step of the arena and of its slices preserves the invariant.
LEMMA NextInv == ArenaInv /\ [Next]_vars => ArenaInv'
<1> SUFFICES ASSUME ArenaInv, [Next]_vars PROVE ArenaInv'
  OBVIOUS
<1>1. ASSUME NEW size \in Sizes, Alloc(size)
      PROVE  ArenaInv'
  <2>1. RoundUp(size) \in Nat
    BY ArenaAssumption, RoundUpNat
  <2> QED
    BY <1>1, <2>1, HandOutStep DEF Alloc
<1>2. ASSUME NEW size \in Sizes, AllocMessage(size)
      PROVE  ArenaInv'
  BY <1>2, ArenaAssumption, HandOutStep DEF AllocMessage
<1>3. ASSUME NEW size \in Sizes, Reserve(size)
      PROVE  ArenaInv'
  BY <1>3, ArenaAssumption, ReserveStep
<1>4. CASE Free
  BY <1>4, FreeStep
<1>5. CASE FreeEmpty
  <2>1. UNCHANGED <<arenaVars, mem, slices, live>> /\ panicked' = TRUE
    BY <1>5 DEF FreeEmpty
  <2> QED
    BY <2>1 DEF arenaVars, ArenaInv, TypeOK, LastBlockIsCurrent, TableFromHeap,
                HeapIsZero, LiveBelowNext, LiveInTable, LiveDisjoint,
                FreeSpaceIsZero, SlicesOwnRegions, SliceOwnsRegion, SlicesReadBack
<1>6. ASSUME NEW s \in Slots, NEW n \in 0 .. MaxAppend, Of(s, n)
      PROVE  ArenaInv'
  <2>1. n \in Nat
    BY ArenaAssumption
  <2> QED
    BY <1>6, <2>1, NewSliceStep DEF Of
<1>7. ASSUME NEW s \in Slots, NEW n \in 1 .. MaxAppend, SliceAppend(s, n)
      PROVE  ArenaInv'
  <2>1. n \in Nat \ {0} /\ n \in Nat /\ panicked' = panicked
    BY <1>7, ArenaAssumption DEF SliceAppend
  <2>2. CASE AppendNew(s, n)
    BY <2>1, <2>2, NewSliceStep DEF AppendNew
  <2>3. CASE AppendInPlace(s, n)
    BY <2>1, <2>3, AppendInPlaceStep
  <2>4. CASE AppendExtend(s, n)
    BY <2>1, <2>4, AppendExtendStep
  <2>5. CASE AppendMove(s, n)
    BY <2>1, <2>5, AppendMoveStep
  <2> QED
    BY <1>7, <2>2, <2>3, <2>4, <2>5 DEF SliceAppend
<1>8. CASE UNCHANGED vars
  BY <1>8 DEF vars, arenaVars, ArenaInv, TypeOK, LastBlockIsCurrent, TableFromHeap,
              HeapIsZero, LiveBelowNext, LiveInTable, LiveDisjoint,
              FreeSpaceIsZero, SlicesOwnRegions, SliceOwnsRegion, SlicesReadBack
<1> QED
  BY <1>1, <1>2, <1>3, <1>4, <1>5, <1>6, <1>7, <1>8 DEF Next

\* The inductive invariant holds of the arena in every reachable state.
THEOREM Invariance == Spec => []ArenaInv
  BY InitInv, NextInv, PTL DEF Spec

\* The block table, the arena's registers, its memory, and the slices and regions that
\* clients hold keep their types.
THEOREM ArenaTypes == Spec => []TypeOK
<1>1. ArenaInv => TypeOK
  BY DEF ArenaInv
<1> QED
  BY <1>1, Invariance, PTL

\* Whatever sequence of allocations, reservations, slice growth and Frees a
\* client makes, memory handed out is never handed out again before Free.
THEOREM NoOverlap == Spec => []LiveDisjoint
<1>1. ArenaInv => LiveDisjoint
  BY DEF ArenaInv
<1> QED
  BY <1>1, Invariance, PTL

\* Every block with a live region stays reachable from the arena's table, and
\* is large enough for the region.
THEOREM BlocksStayReachable == Spec => []LiveInTable
<1>1. ArenaInv => LiveInTable
  BY DEF ArenaInv
<1> QED
  BY <1>1, Invariance, PTL

\* Alloc always returns zeroed memory, before and after Free.
THEOREM AllocReturnsZero == Spec => []FreeSpaceIsZero
<1>1. ArenaInv => FreeSpaceIsZero
  BY DEF ArenaInv
<1> QED
  BY <1>1, Invariance, PTL

\* Slices keep their elements through growth in place, relocation and every
\* other client's allocations, for every element size.
THEOREM SlicesKeepElements == Spec => []SlicesReadBack
<1>1. ArenaInv => SlicesReadBack
  BY DEF ArenaInv
<1> QED
  BY <1>1, Invariance, PTL

\* An allocation leaves the capacity alone or at least doubles it.
LEMMA BumpCapacity ==
  ASSUME ArenaInv, NEW size \in Nat, Bump(size), cap' # cap
  PROVE  cap' >= 2 * cap /\ cap' > cap
<1>1. HeaderType' /\ cap' >= 2 * cap /\ cap' > 0
  BY TakeStep DEF ArenaInv
<1>2. cap \in Nat /\ cap' \in Nat
  BY <1>1 DEF ArenaInv, TypeOK, HeaderType
<1> QED
  BY <1>1, <1>2

\* The capacity only ever at least doubles, across Free as well.
THEOREM CapacityNeverShrinks == Spec => CapacityDoubles
<1>1. ASSUME ArenaInv, Next, cap' # cap
      PROVE  cap' >= 2 * cap /\ cap' > cap
  <2> USE <1>1
  <2>1. ASSUME NEW size \in Sizes, Alloc(size)
        PROVE  cap' >= 2 * cap /\ cap' > cap
    <3>1. RoundUp(size) \in Nat
      BY ArenaAssumption, RoundUpNat
    <3> QED
      BY <2>1, <3>1, BumpCapacity DEF Alloc, HandOut, Bump
  <2>2. ASSUME NEW size \in Sizes, AllocMessage(size)
        PROVE  cap' >= 2 * cap /\ cap' > cap
    BY <2>2, ArenaAssumption, BumpCapacity DEF AllocMessage, HandOut, Bump
  <2>3. ASSUME NEW size \in Sizes, Reserve(size)
        PROVE  cap' >= 2 * cap /\ cap' > cap
    <3>1. Bump(0)
      BY <2>3, ArenaAssumption DEF Reserve, Grow, Bump
    <3> QED
      BY <3>1, BumpCapacity
  <2>4. ~Free
    BY DEF Free, ArenaInv, LastBlockIsCurrent
  <2>5. ~FreeEmpty
    BY DEF FreeEmpty, arenaVars
  <2>6. ASSUME NEW n \in Nat, Servable(Elem * n), Take(RoundUp(SliceLayout(n)))
        PROVE  cap' >= 2 * cap /\ cap' > cap
    <3>1. SliceLayout(n) \in Nat
      <4>1. CASE n = 0
        BY <4>1, ArenaAssumption DEF SliceLayout, SuggestSize
      <4>2. CASE n # 0
        BY <4>2, <2>6, SliceLayoutStable
      <4> QED
        BY <4>1, <4>2
    <3>2. RoundUp(SliceLayout(n)) \in Nat
      BY <3>1, RoundUpNat
    <3> QED
      BY <2>6, <3>2, BumpCapacity DEF Bump
  <2>7. ASSUME NEW s \in Slots, NEW n \in 0 .. MaxAppend, Of(s, n)
        PROVE  cap' >= 2 * cap /\ cap' > cap
    BY <2>7, <2>6, ArenaAssumption DEF Of
  <2>8. ASSUME NEW s \in Slots, NEW n \in 1 .. MaxAppend, SliceAppend(s, n)
        PROVE  cap' >= 2 * cap /\ cap' > cap
    <3>1. n \in Nat
      BY ArenaAssumption
    <3>2. CASE AppendNew(s, n)
      BY <3>1, <3>2, <2>6 DEF AppendNew
    <3>3. CASE AppendInPlace(s, n)
      BY <3>3 DEF AppendInPlace, arenaVars
    <3>4. CASE AppendExtend(s, n)
      BY <3>4 DEF AppendExtend
    <3>5. CASE AppendMove(s, n)
      <4>1. slices[s] \in SliceType
        BY DEF ArenaInv, TypeOK, SliceType
      <4>2. slices[s].cap + n \in Nat
        BY <3>1, <4>1 DEF SliceType
      <4> QED
        BY <3>5, <4>2, <2>6 DEF AppendMove
    <3> QED
      BY <2>8, <3>2, <3>3, <3>4, <3>5 DEF SliceAppend
  <2> QED
    BY <2>1, <2>2, <2>3, <2>4, <2>5, <2>7, <2>8 DEF Next
<1>2. ArenaInv /\ [Next]_vars => [cap' # cap => cap' >= 2 * cap /\ cap' > cap]_vars
  BY <1>1
<1> QED
  BY <1>2, Invariance, PTL DEF Spec, CapacityDoubles

\* The block being filled is the last of the table and the capacity is its size.
THEOREM CurrentBlockIsLast == Spec => []LastBlockIsCurrent
<1>1. ArenaInv => LastBlockIsCurrent
  BY DEF ArenaInv
<1> QED
  BY <1>1, Invariance, PTL
=============================================================================
