----------------------------- MODULE SwissProofs -----------------------------
(***************************************************************************)
(* Proofs about module Swiss, for every hash function, seed, set of keys,  *)
(* sequence of entries and table size.                                     *)
(***************************************************************************)
EXTENDS Swiss, Probing

----------------------------------------------------------------------------
(* Sizes *)

\* The powers of two as a function ...
Pow == [i \in 0 .. 29 |-> 2^i]

\* ... each of which is twice the one before.
LEMMA PowIsPowers == Powers(Pow, 29)
<1>1. \A i \in 0 .. 29 : Pow[i] = 2^i
  BY DEF Pow
<1>2. Pow \in [0 .. 29 -> Nat]
  BY PowerAssumption DEF Pow
<1>3. Pow[0] = 1
  BY <1>1, PowerAssumption
<1>4. \A i \in 0 .. 28 : Pow[i + 1] = 2 * Pow[i]
  BY <1>1, PowerAssumption
<1> QED
  BY <1>2, <1>3, <1>4 DEF Powers

\* A table has w words of slots, of which an eighth is held back.
LEMMA TableSize ==
  ASSUME NEW t, IsTable(t)
  PROVE  \E k \in 0 .. 26 :
           /\ Pow[k] \in Nat \ {0} /\ t.hard = 8 * Pow[k] /\ t.soft = 7 * Pow[k]
           /\ t.hard \div CtrlSize = Pow[k]
           /\ t.hard \in Nat /\ t.hard >= 8 /\ t.len \in Nat /\ t.len < t.hard
<1>1. PICK k \in 0 .. 26 : t.hard = CtrlSize * 2^k /\ t.soft = (CtrlSize - 1) * 2^k
  BY DEF IsTable
<1>2. Pow[k] = 2^k
  BY DEF Pow
<1>3. Pow[k] \in Nat
  BY PowIsPowers DEF Powers
<1>4. t.hard = 8 * Pow[k] /\ t.soft = 7 * Pow[k]
  BY <1>1, <1>2 DEF CtrlSize
<1>5. t.len \in 0 .. t.soft
  BY DEF IsTable
<1>6. Pow[k] # 0
  <2> DEFINE Bad == {i \in 0 .. 29 : Pow[i] = 0}
  <2> SUFFICES ASSUME Pow[k] = 0 PROVE FALSE
    OBVIOUS
  <2>1. k \in Bad /\ Bad \subseteq Nat
    OBVIOUS
  <2>2. PICK l \in Bad : \A j \in Bad : l <= j
    <3> HIDE DEF Bad
    <3> QED
      BY <2>1, LeastOfNats
  <2>3. l \in 1 .. 29 /\ l - 1 \in 0 .. 28
    BY PowIsPowers DEF Powers
  <2>4. Pow[l - 1] \in Nat /\ Pow[l] = 2 * Pow[l - 1]
    BY <2>3, PowIsPowers DEF Powers
  <2>5. Pow[l - 1] = 0
    BY <2>4
  <2> QED
    BY <2>2, <2>3, <2>5
<1> QED
  BY <1>3, <1>4, <1>5, <1>6 DEF CtrlSize

\* Hashes and what is made of them.
LEMMA HashTypes ==
  ASSUME NEW seed \in Seeds, NEW c \in Contents
  PROVE  Hash[seed][c] \in Nat /\ H1(Hash[seed][c]) \in Nat /\ H2(Hash[seed][c]) \in 128 .. 255
<1>1. Hash[seed][c] \in Nat
  BY SwissAssumption
<1> QED
  BY <1>1 DEF H1, H2

----------------------------------------------------------------------------
(* The probe sequence *)

\* prober.next computes f(s) = (s^2 + s)/2 words from where h1 points.
LEMMA ProbeClosed ==
  ASSUME NEW t, IsTable(t), NEW h \in Nat, NEW s \in Nat
  PROVE  ProbeAt(t, h, s) = (H1(h) + 4 * (s * (s + 1))) % t.hard
<1> DEFINE m == t.hard
           x == H1(h)
           Off(i) == x + 4 * (i * (i + 1))
           g == [i \in 0 .. s |-> Off(i) % m]
           Eq(f) == f = [i \in 0 .. s |-> IF i = 0 THEN x % m ELSE (f[i - 1] + CtrlSize * i) % m]
<1>1. m \in Nat \ {0} /\ x \in Nat
  BY TableSize DEF H1
<1> HIDE DEF m, x
<1>2. ASSUME NEW i \in 1 .. s
      PROVE  ((Off(i - 1) % m) + CtrlSize * i) % m = Off(i) % m
  <2>1. Off(i - 1) \in Int /\ Off(i - 1) + 8 * i = Off(i) /\ 8 * i \in Int
    <3>1. i * (i + 1) = (i - 1) * ((i - 1) + 1) + 2 * i
      OBVIOUS
    <3>2. i * (i + 1) \in Int /\ (i - 1) * ((i - 1) + 1) \in Int
      OBVIOUS
    <3> QED
      BY <1>1, <3>1, <3>2
  <2> HIDE DEF Off
  <2> QED
    <3>1. ((Off(i - 1) % m) + 8 * i) % m = (Off(i - 1) + 8 * i) % m
      BY <1>1, <2>1, ModSum, Zenon
    <3> QED
      BY <2>1, <3>1 DEF CtrlSize
<1>3. Off(0) = x
  BY <1>1
<1> HIDE DEF Off
<1>4. Eq(g)
  <2>1. ASSUME NEW i \in 0 .. s, i # 0
        PROVE  g[i] = (g[i - 1] + CtrlSize * i) % m
    BY <1>2, <2>1
  <2>2. g[0] = x % m
    BY <1>3
  <2> QED
    BY <2>1, <2>2
<1>5. ASSUME NEW f, Eq(f)
      PROVE  f[s] = g[s]
  <2> DEFINE Bad == {i \in 0 .. s : f[i] # g[i]}
  <2> SUFFICES ASSUME f[s] # g[s] PROVE FALSE
    OBVIOUS
  <2>1. s \in Bad /\ Bad \subseteq Nat
    OBVIOUS
  <2>2. PICK l \in Bad : \A j \in Bad : l <= j
    <3> HIDE DEF Bad
    <3> QED
      BY <2>1, LeastOfNats
  <2> HIDE DEF g
  <2>3. f[0] = g[0]
    BY <1>4, <1>5
  <2>4. l \in 1 .. s /\ l - 1 \in 0 .. s
    BY <2>3
  <2>5. f[l - 1] = g[l - 1]
    BY <2>2, <2>4
  <2>6. /\ f[l] = (f[l - 1] + CtrlSize * l) % m
        /\ g[l] = (g[l - 1] + CtrlSize * l) % m
    BY <1>4, <1>5, <2>4
  <2> QED
    BY <2>5, <2>6
<1>6. ProbeAt(t, h, s) = (CHOOSE f : Eq(f))[s]
  BY DEF ProbeAt, m, x
<1>7. Eq(CHOOSE f : Eq(f))
  <2> HIDE DEF Eq, g
  <2> QED
    BY <1>4
<1>8. ProbeAt(t, h, s) = g[s]
  <2> HIDE DEF Eq, g
  <2> QED
    BY <1>5, <1>6, <1>7
<1> QED
  BY <1>8 DEF Off, m, x

\* A search looks at words of the table only ...
LEMMA ProbeRange ==
  ASSUME NEW t, IsTable(t), NEW h \in Nat, NEW s \in Nat
  PROVE  ProbeAt(t, h, s) \in 0 .. t.hard - 1
<1>1. t.hard \in Nat \ {0}
  BY TableSize
<1>2. s * (s + 1) \in Int /\ H1(h) \in Int
  BY DEF H1
<1>3. H1(h) + 4 * (s * (s + 1)) \in Int
  BY <1>2
<1> QED
  BY <1>1, <1>3, ProbeClosed, ModSum

\* ... and within as many probes as there are words, at every slot.
LEMMA ProbesSeeAll ==
  ASSUME NEW t, IsTable(t), NEW h \in Nat, NEW i \in 0 .. t.hard - 1
  PROVE  \E s \in 0 .. (t.hard \div CtrlSize) - 1 : \E j \in 0 .. CtrlSize - 1 :
           i = (ProbeAt(t, h, s) + j) % t.hard
<1>1. PICK k \in 0 .. 26 : /\ Pow[k] \in Nat \ {0} /\ t.hard = 8 * Pow[k]
                           /\ t.hard \div CtrlSize = Pow[k]
  BY TableSize
<1>2. H1(h) \in Nat /\ k \in 0 .. 28
  BY DEF H1
<1>3. PICK s \in 0 .. Pow[k] - 1 : \E j \in 0 .. 7 :
        i = (((H1(h) + 4 * (s * (s + 1))) % t.hard) + j) % t.hard
  <2> DEFINE x == H1(h)
  <2>1. Powers(Pow, 29) /\ k \in 0 .. 29 - 1 /\ x \in Nat /\ i \in 0 .. 8 * Pow[k] - 1
    BY <1>1, <1>2, PowIsPowers
  <2> HIDE DEF x
  <2>2. \E s \in 0 .. Pow[k] - 1 : \E j \in 0 .. 7 :
          i = (((x + 4 * (s * (s + 1))) % (8 * Pow[k])) + j) % (8 * Pow[k])
    BY <2>1, ProbesCover
  <2> QED
    BY <1>1, <2>2 DEF x
<1>4. s \in Nat
  BY <1>1
<1> QED
  BY <1>1, <1>3, <1>4, ProbeClosed DEF CtrlSize

----------------------------------------------------------------------------
(* Control words *)

\* A control word read at any offset shows the control bytes of eight slots.
LEMMA ByteAt ==
  ASSUME NEW t, IsTable(t), Mirrored(t), NEW n \in 0 .. t.hard - 1, NEW j \in 0 .. 7
  PROVE  /\ (n + j) % t.hard \in 0 .. t.hard - 1
         /\ Word(t, n)[j] = t.ctrl[(n + j) % t.hard]
         /\ t.ctrl[(n + j) % t.hard] \in {Empty} \cup (128 .. 255)
<1>1. t.hard \in Nat /\ t.hard >= 8
  BY TableSize
<1> DEFINE m == t.hard
           r == (n + j) % m
<1>2. r = IF n + j < m THEN n + j ELSE n + j - m
  <2>1. CASE n + j < m
    <3>1. n + j = m * 0 + (n + j) /\ n + j \in 0 .. m - 1
      BY <1>1, <2>1
    <3> HIDE DEF m
    <3> QED
      BY <1>1, <2>1, <3>1, ModUnique, SMTT(40) DEF m
  <2>2. CASE ~(n + j < m)
    <3> DEFINE x == n + j
               y == n + j - m
    <3>1. x \in Int /\ y \in 0 .. m - 1 /\ x = m * 1 + y /\ m \in Nat \ {0}
      BY <1>1, <2>2
    <3> HIDE DEF x, y, m
    <3>2. x % m = y
      BY <3>1, ModUnique
    <3> QED
      BY <2>2, <3>2 DEF x, y
  <2> QED
    BY <2>1, <2>2
<1> HIDE DEF r
<1>3. r \in 0 .. m - 1
  BY <1>1, <1>2
<1>4. Word(t, n)[j] = t.ctrl[n + j]
  BY DEF Word, CtrlSize
<1>5. t.ctrl[n + j] = t.ctrl[r]
  BY <1>1, <1>2 DEF Mirrored, CtrlSize
<1>6. t.ctrl[r] \in {Empty} \cup (128 .. 255)
  <2>1. t.ctrl \in [0 .. m + 8 - 1 -> {Empty} \cup (128 .. 255)]
    BY DEF IsTable, CtrlSize
  <2>2. r \in 0 .. m + 8 - 1
    BY <1>1, <1>3
  <2> QED
    BY <2>1, <2>2
<1> QED
  BY <1>3, <1>4, <1>5, <1>6 DEF r

\* matches reports the empty slots exactly.
LEMMA EmptiesExact ==
  ASSUME NEW t, IsTable(t), Mirrored(t), NEW n \in 0 .. t.hard - 1
  PROVE  EmptiesAt(t, n) = {j \in 0 .. 7 : t.ctrl[(n + j) % t.hard] = Empty}
<1>1. ASSUME NEW j \in 0 .. 7
      PROVE  j \in Matches(Word(t, n), Empty) <=> t.ctrl[(n + j) % t.hard] = Empty
  <2>1. \A i \in 0 .. 7 : Word(t, n)[i] \in {0} \cup (128 .. 255)
    <3> TAKE i \in 0 .. 7
    <3>1. /\ Word(t, n)[i] = t.ctrl[(n + i) % t.hard]
          /\ t.ctrl[(n + i) % t.hard] \in {Empty} \cup (128 .. 255)
      BY ByteAt, ZenonT(60)
    <3> QED
      BY <3>1 DEF Empty
  <2>2. \A v \in {0} \cup (128 .. 255) : v \div 2 = 0 \div 2 => v = 0
    OBVIOUS
  <2>3. ASSUME NEW i \in 0 .. j, Word(t, n)[i] = 0,
               \A k \in i + 1 .. j : Word(t, n)[k] \div 2 = 0 \div 2
        PROVE  Word(t, n)[j] = 0
    <3>1. CASE i = j
      BY <2>3, <3>1
    <3>2. CASE i # j
      BY <2>1, <2>2, <2>3, <3>2
    <3> QED
      BY <3>1, <3>2
  <2>4. Word(t, n)[j] = 0 => j \in Matches(Word(t, n), 0)
    <3>1. j \in 0 .. j /\ \A k \in j + 1 .. j : Word(t, n)[k] \div 2 = 0 \div 2
      OBVIOUS
    <3> QED
      BY <3>1 DEF Matches, CtrlSize
  <2>5. j \in Matches(Word(t, n), 0) => Word(t, n)[j] = 0
    BY <2>3 DEF Matches
  <2> QED
    BY <2>4, <2>5, ByteAt, ZenonT(60) DEF Empty
<1>2. Matches(Word(t, n), Empty) \subseteq 0 .. 7
  BY DEF Matches, CtrlSize
<1> QED
  BY <1>1, <1>2 DEF EmptiesAt

\* matches reports every slot with tag b, and no empty one.
LEMMA MatchesLive ==
  ASSUME NEW t, IsTable(t), Mirrored(t), NEW n \in 0 .. t.hard - 1, NEW b \in 128 .. 255
  PROVE  /\ \A j \in Matches(Word(t, n), b) : j \in 0 .. 7 /\ t.ctrl[(n + j) % t.hard] # Empty
         /\ \A j \in 0 .. 7 : t.ctrl[(n + j) % t.hard] = b => j \in Matches(Word(t, n), b)
<1>1. ASSUME NEW j \in Matches(Word(t, n), b)
      PROVE  j \in 0 .. 7 /\ t.ctrl[(n + j) % t.hard] # Empty
  <2>1. j \in 0 .. 7
    BY DEF Matches, CtrlSize
  <2>2. PICK i \in 0 .. j : /\ Word(t, n)[i] = b
                            /\ \A k \in i + 1 .. j : Word(t, n)[k] \div 2 = b \div 2
    BY DEF Matches
  <2>3. Word(t, n)[j] # 0
    <3>1. CASE i = j
      BY <2>2, <3>1
    <3>2. CASE i # j
      <4>1. Word(t, n)[j] \div 2 = b \div 2
        BY <2>1, <2>2, <3>2
      <4>2. b \div 2 # 0 \div 2
        OBVIOUS
      <4> QED
        BY <4>1, <4>2
    <3> QED
      BY <3>1, <3>2
  <2> QED
    BY <2>1, <2>3, ByteAt DEF Empty
<1>2. ASSUME NEW j \in 0 .. 7, t.ctrl[(n + j) % t.hard] = b
      PROVE  j \in Matches(Word(t, n), b)
  <2>1. Word(t, n)[j] = b
    BY <1>2, ByteAt, ZenonT(60)
  <2>2. j \in 0 .. j /\ \A k \in j + 1 .. j : Word(t, n)[k] \div 2 = b \div 2
    OBVIOUS
  <2> QED
    BY <2>1, <2>2 DEF Matches, CtrlSize
<1> QED
  BY <1>1, <1>2

----------------------------------------------------------------------------
(* Searching *)

\* Min is what it says for naturals.
LEMMA MinOfNats ==
  ASSUME NEW S, S \subseteq Nat, S # {}
  PROVE  Min(S) \in S /\ \A k \in S : Min(S) <= k
  BY LeastOfNats DEF Min

\* A slot is live or empty.
LEMMA LiveSlots ==
  ASSUME NEW t, IsTable(t)
  PROVE  /\ Live(t) \subseteq 0 .. t.hard - 1 /\ IsFiniteSet(Live(t))
         /\ \A i \in 0 .. t.hard - 1 : i \in Live(t) <=> t.ctrl[i] # Empty
<1>1. t.hard \in Nat
  BY TableSize
<1>2. IsFiniteSet(0 .. t.hard - 1)
  BY <1>1, FS_Interval
<1>3. Live(t) \subseteq 0 .. t.hard - 1
  BY DEF Live
<1>4. IsFiniteSet(Live(t))
  BY <1>2, <1>3, FS_Subset
<1> QED
  BY <1>3, <1>4 DEF Live

\* "Guaranteed to terminate because there's always going to be an open spot": a table
\* holds back a slot, and the probe sequence comes to it.
LEMMA SearchEnds ==
  ASSUME NEW t, IsTable(t), Mirrored(t), Counted(t), NEW c \in Contents
  PROVE  Ends(t, c) # {}
<1> DEFINE h == Hash[t.seed][c]
<1>1. h \in Nat
  BY HashTypes DEF IsTable
<1>2. t.hard \in Nat /\ t.len \in Nat /\ t.len < t.hard
  BY TableSize
<1>3. PICK i \in 0 .. t.hard - 1 : t.ctrl[i] = Empty
  <2>1. Cardinality(0 .. t.hard - 1) = t.hard
    BY <1>2, FS_Interval, SMTT(40)
  <2>2. Live(t) # 0 .. t.hard - 1
    BY <1>2, <2>1 DEF Counted
  <2> QED
    BY <2>2, LiveSlots
<1> HIDE DEF h
<1>4. PICK s \in 0 .. (t.hard \div CtrlSize) - 1 : \E j \in 0 .. CtrlSize - 1 :
        i = (ProbeAt(t, h, s) + j) % t.hard
  BY <1>1, ProbesSeeAll
<1>5. PICK j \in 0 .. CtrlSize - 1 : i = (ProbeAt(t, h, s) + j) % t.hard
  BY <1>4
<1>6. s \in Nat /\ j \in 0 .. 7
  BY <1>2 DEF CtrlSize
<1>7. ProbeAt(t, h, s) \in 0 .. t.hard - 1
  BY <1>1, <1>6, ProbeRange
<1>8. j \in EmptiesAt(t, ProbeAt(t, h, s))
  BY <1>3, <1>5, <1>6, <1>7, EmptiesExact
<1>9. EndsAt(t, c, s)
  BY <1>8 DEF EndsAt, h
<1> QED
  BY <1>9 DEF Ends

\* The keys a search compares with are those of live slots.
LEMMA CandidatesLive ==
  ASSUME NEW t, IsTable(t), Mirrored(t), NEW c \in Contents, NEW n \in 0 .. t.hard - 1
  PROVE  Candidates(t, Hash[t.seed][c], n) \subseteq Live(t)
<1> DEFINE h == Hash[t.seed][c]
<1>1. H2(h) \in 128 .. 255
  BY HashTypes DEF IsTable
<1> HIDE DEF h
<1>2. ASSUME NEW j \in Matches(Word(t, n), H2(h))
      PROVE  (n + j) % t.hard \in Live(t)
  <2>1. j \in 0 .. 7 /\ t.ctrl[(n + j) % t.hard] # Empty
    BY <1>1, MatchesLive
  <2>2. (n + j) % t.hard \in 0 .. t.hard - 1
    BY <2>1, ByteAt
  <2> QED
    BY <2>1, <2>2, LiveSlots
<1> QED
  BY <1>2 DEF Candidates, h

\* search returns the slot of a key that is in the table, and otherwise an empty slot
\* that the key will be found in.
LEMMA SearchFinds ==
  ASSUME NEW t, TableInv(t), NEW c \in Contents
  PROVE  LET slot == Search(t, c)
         IN  /\ slot.occupied \in BOOLEAN
             /\ slot.occupied => slot.idx \in Live(t) /\ Content[t.keys[slot.idx]] = c
             /\ ~slot.occupied =>
                  /\ slot.idx \in 0 .. t.hard - 1 /\ slot.idx \notin Live(t)
                  /\ Reachable(t, Hash[t.seed][c], slot.idx)
                  /\ \A i \in Live(t) : Content[t.keys[i]] # c
<1> DEFINE h == Hash[t.seed][c]
           s == Min(Ends(t, c))
           n == ProbeAt(t, h, s)
           hits == HitsAt(t, h, c, n)
           empties == EmptiesAt(t, n)
           slot == Search(t, c)
<1>1. /\ IsTable(t) /\ Mirrored(t) /\ Tagged(t) /\ Counted(t)
      /\ KeysDistinct(t) /\ KeysReachable(t)
  BY DEF TableInv
<1>2. h \in Nat /\ H2(h) \in 128 .. 255 /\ t.hard \in Nat
  BY <1>1, HashTypes, TableSize DEF IsTable
<1>3. s \in Ends(t, c) /\ \A r \in Ends(t, c) : s <= r
  <2>1. Ends(t, c) \subseteq Nat
    BY <1>2 DEF Ends, CtrlSize
  <2> QED
    BY <1>1, <2>1, SearchEnds, MinOfNats
<1> HIDE DEF s
<1>4. s \in 0 .. (t.hard \div CtrlSize) - 1 /\ EndsAt(t, c, s) /\ s \in Nat
  BY <1>2, <1>3 DEF Ends, CtrlSize
<1>5. \A r \in 0 .. s - 1 : ~EndsAt(t, c, r)
  BY <1>2, <1>3, <1>4 DEF Ends, CtrlSize
<1>6. hits # {} \/ empties # {}
  BY <1>4 DEF EndsAt
<1>7. ASSUME NEW r \in 0 .. s - 1
      PROVE  EmptiesAt(t, ProbeAt(t, h, r)) = {} /\ HitsAt(t, h, c, ProbeAt(t, h, r)) = {}
  BY <1>5 DEF EndsAt
<1>8. /\ slot.occupied = (hits # {})
      /\ slot.idx = (n + Min(IF hits # {} THEN hits ELSE empties)) % t.hard
  BY DEF Search, s
<1>9. n \in 0 .. t.hard - 1
  BY <1>1, <1>2, <1>4, ProbeRange
<1> HIDE DEF n, slot, h
<1>10. ASSUME hits # {}
       PROVE  slot.idx \in Live(t) /\ Content[t.keys[slot.idx]] = c
  <2>1. hits \subseteq 0 .. 7
    BY DEF HitsAt, Matches, CtrlSize
  <2>2. Min(hits) \in hits
    BY <1>10, <2>1, MinOfNats
  <2>3. slot.idx = (n + Min(hits)) % t.hard
    BY <1>8, <1>10
  <2>4. Min(hits) \in Matches(Word(t, n), H2(h)) /\ Content[t.keys[(n + Min(hits)) % t.hard]] = c
    BY <2>2 DEF HitsAt
  <2>5. (n + Min(hits)) % t.hard \in Candidates(t, h, n)
    BY <2>4 DEF Candidates
  <2> QED
    BY <1>1, <1>9, <2>3, <2>4, <2>5, CandidatesLive DEF h
<1>11. ASSUME hits = {}
       PROVE  /\ slot.idx \in 0 .. t.hard - 1 /\ slot.idx \notin Live(t)
              /\ Reachable(t, h, slot.idx)
  <2>1. empties = {j \in 0 .. 7 : t.ctrl[(n + j) % t.hard] = Empty}
    BY <1>1, <1>9, EmptiesExact
  <2>2. Min(empties) \in empties
    BY <1>6, <1>11, <2>1, MinOfNats
  <2> DEFINE j == Min(empties)
  <2>3. j \in 0 .. 7 /\ t.ctrl[(n + j) % t.hard] = Empty /\ slot.idx = (n + j) % t.hard
    BY <1>8, <1>11, <2>1, <2>2
  <2> HIDE DEF j
  <2>4. slot.idx \in 0 .. t.hard - 1 /\ slot.idx \notin Live(t)
    <3>1. (n + j) % t.hard \in 0 .. t.hard - 1
      BY <1>1, <1>9, <2>3, ByteAt
    <3> QED
      BY <1>1, <2>3, <3>1, LiveSlots
  <2>5. slot.idx = (ProbeAt(t, h, s) + j) % t.hard /\ j \in 0 .. CtrlSize - 1
    BY <2>3 DEF n, CtrlSize
  <2> QED
    BY <1>4, <1>7, <2>4, <2>5 DEF Reachable
<1>12. ASSUME hits = {}, NEW i \in Live(t), Content[t.keys[i]] = c
       PROVE  FALSE
  <2>1. Reachable(t, h, i) /\ t.ctrl[i] = H2(h)
    BY <1>1, <1>12 DEF KeysReachable, Tagged, h
  <2>2. PICK r \in 0 .. (t.hard \div CtrlSize) - 1 :
          /\ \E j \in 0 .. CtrlSize - 1 : i = (ProbeAt(t, h, r) + j) % t.hard
          /\ \A q \in 0 .. r - 1 : EmptiesAt(t, ProbeAt(t, h, q)) = {}
    BY <2>1 DEF Reachable
  <2>3. PICK j \in 0 .. CtrlSize - 1 : i = (ProbeAt(t, h, r) + j) % t.hard
    BY <2>2
  <2>4. r \in Nat /\ j \in 0 .. 7
    BY <1>2 DEF CtrlSize
  <2>5. ProbeAt(t, h, r) \in 0 .. t.hard - 1
    BY <1>1, <1>2, <2>4, ProbeRange
  <2>6. j \in HitsAt(t, h, c, ProbeAt(t, h, r))
    <3>1. j \in Matches(Word(t, ProbeAt(t, h, r)), H2(h))
      BY <1>1, <1>2, <2>1, <2>3, <2>4, <2>5, MatchesLive
    <3> QED
      BY <1>12, <2>3, <3>1 DEF HitsAt
  <2>7. r # s /\ ~(r < s)
    BY <1>4, <1>7, <1>12, <2>4, <2>6 DEF n
  <2>8. s \in 0 .. r - 1
    BY <1>4, <2>4, <2>7
  <2> QED
    BY <1>6, <1>12, <2>2, <2>8 DEF n
<1> QED
  BY <1>8, <1>10, <1>11, <1>12 DEF slot, h

----------------------------------------------------------------------------
(* Writing *)

\* A record with the fields of a table.
IsRecord(u) == u = [len |-> u.len, soft |-> u.soft, hard |-> u.hard, seed |-> u.seed,
                    ctrl |-> u.ctrl, keys |-> u.keys, vals |-> u.vals]

\* A table has the fields it is made of.
LEMMA TableFields ==
  ASSUME NEW t, IsTable(t)
  PROVE  /\ IsRecord(t)
         /\ t.ctrl \in [0 .. t.hard + 7 -> {Empty} \cup (128 .. 255)]
         /\ t.keys \in [0 .. t.hard - 1 -> Keys] /\ t.vals \in [0 .. t.hard - 1 -> Nat]
<1>1. t.hard + CtrlSize - 1 = t.hard + 7
  BY TableSize DEF CtrlSize
<1> QED
  BY <1>1 DEF IsTable, IsRecord

\* mirrorIndex is the slot itself or, for the first seven, its copy.
LEMMA MirrorOf ==
  ASSUME NEW t, IsTable(t), NEW idx \in 0 .. t.hard - 1
  PROVE  MirrorIndex(t, idx) = IF idx < 7 THEN t.hard + idx ELSE idx
<1> DEFINE m == t.hard
           x == idx - 7
           y == IF idx < 7 THEN x + m ELSE x
           q == IF idx < 7 THEN -1 ELSE 0
<1>1. m \in Nat \ {0} /\ m >= 8
  BY TableSize
<1>2. x \in Int /\ q \in Int /\ y \in 0 .. m - 1 /\ x = m * q + y
  BY <1>1
<1>3. x % m = y
  <2> HIDE DEF x, y, q, m
  <2> QED
    BY <1>1, <1>2, ModUnique
<1>4. 7 % m = 7
  <2>1. 7 = m * 0 + 7 /\ 7 \in 0 .. m - 1
    BY <1>1
  <2> HIDE DEF m
  <2> QED
    BY <1>1, <2>1, ModUnique
<1>5. MirrorIndex(t, idx) = y + 7
  BY <1>3, <1>4 DEF MirrorIndex, CtrlSize
<1> QED
  BY <1>1, <1>5

\* Slot idx of t becomes k's, with value v.
Filled(t, idx, k, v) == [Occupy(t, idx, k) EXCEPT !.vals[idx] = v]

\* It differs from t in that slot, its copy and len.
LEMMA FilledFields ==
  ASSUME NEW t, IsTable(t), NEW k \in Keys, NEW idx \in 0 .. t.hard - 1, NEW v \in Nat
  PROVE  LET u == Filled(t, idx, k, v)
             h2 == H2(Hash[t.seed][Content[k]])
         IN  /\ IsRecord(u)
             /\ u.len = t.len + 1 /\ u.soft = t.soft /\ u.hard = t.hard /\ u.seed = t.seed
             /\ u.ctrl = [i \in 0 .. t.hard + 7 |->
                            IF i \in {idx, MirrorIndex(t, idx)} THEN h2 ELSE t.ctrl[i]]
             /\ u.keys = [t.keys EXCEPT ![idx] = k] /\ u.vals = [t.vals EXCEPT ![idx] = v]
<1> DEFINE h2 == H2(Hash[t.seed][Content[k]])
           mi == MirrorIndex(t, idx)
           o == [t EXCEPT !.ctrl[idx] = h2, !.ctrl[mi] = h2, !.keys[idx] = k, !.len = @ + 1]
           u == [o EXCEPT !.vals[idx] = v]
           c1 == [t.ctrl EXCEPT ![idx] = h2]
           c2 == [c1 EXCEPT ![mi] = h2]
<1>1. u = Filled(t, idx, k, v)
  BY DEF Filled, Occupy
<1> HIDE DEF h2, mi
<1>2. /\ o.len = t.len + 1 /\ o.soft = t.soft /\ o.hard = t.hard /\ o.seed = t.seed
      /\ o.ctrl = c2 /\ o.keys = [t.keys EXCEPT ![idx] = k] /\ o.vals = t.vals
      /\ o \in [len : {o.len}, soft : {o.soft}, hard : {o.hard}, seed : {o.seed},
                ctrl : {o.ctrl}, keys : {o.keys}, vals : {o.vals}]
  <2>1. t = [len |-> t.len, soft |-> t.soft, hard |-> t.hard, seed |-> t.seed,
             ctrl |-> t.ctrl, keys |-> t.keys, vals |-> t.vals]
    BY TableFields DEF IsRecord
  <2>2. /\ o.len = t.len + 1 /\ o.soft = t.soft /\ o.hard = t.hard /\ o.seed = t.seed
        /\ o.keys = [t.keys EXCEPT ![idx] = k] /\ o.vals = t.vals
    BY <2>1
  <2>3. o.ctrl = c2
    BY <2>1
  <2> QED
    BY <2>1, <2>2, <2>3
<1> HIDE DEF o
<1>3. /\ u.len = o.len /\ u.soft = o.soft /\ u.hard = o.hard /\ u.seed = o.seed
      /\ u.ctrl = o.ctrl /\ u.keys = o.keys /\ u.vals = [o.vals EXCEPT ![idx] = v]
      /\ u \in [len : {u.len}, soft : {u.soft}, hard : {u.hard}, seed : {u.seed},
                ctrl : {u.ctrl}, keys : {u.keys}, vals : {u.vals}]
  BY <1>2
<1> HIDE DEF u
<1>4. u = [len |-> u.len, soft |-> u.soft, hard |-> u.hard, seed |-> u.seed,
           ctrl |-> u.ctrl, keys |-> u.keys, vals |-> u.vals]
  BY <1>3
<1>5. c2 = [i \in 0 .. t.hard + 7 |-> IF i \in {idx, mi} THEN h2 ELSE t.ctrl[i]]
  BY TableFields
<1>6. IsRecord(u)
  BY <1>4 DEF IsRecord
<1> QED
  BY <1>1, <1>2, <1>3, <1>5, <1>6 DEF h2, mi

\* The keys of live slots are keys, and have a hash.
LEMMA LiveHash ==
  ASSUME NEW t, IsTable(t), NEW i \in Live(t)
  PROVE  /\ i \in 0 .. t.hard - 1 /\ t.keys[i] \in Keys /\ t.vals[i] \in Nat
         /\ Content[t.keys[i]] \in Contents /\ t.seed \in Seeds
         /\ Hash[t.seed][Content[t.keys[i]]] \in Nat
<1>1. i \in 0 .. t.hard - 1
  BY LiveSlots
<1>2. t.keys[i] \in Keys /\ t.vals[i] \in Nat
  BY <1>1, TableFields
<1>3. Content[t.keys[i]] \in Contents /\ t.seed \in Seeds
  BY <1>2 DEF Contents, IsTable
<1> QED
  BY <1>1, <1>2, <1>3, HashTypes

\* A slot stays reachable while no slot is given up.
LEMMA ReachableStays ==
  ASSUME NEW t, IsTable(t), Mirrored(t), NEW u, IsTable(u), Mirrored(u),
         u.hard = t.hard, Live(t) \subseteq Live(u),
         NEW h \in Nat, NEW i, Reachable(t, h, i)
  PROVE  Reachable(u, h, i)
<1>1. PICK s \in 0 .. (t.hard \div CtrlSize) - 1 :
        /\ \E j \in 0 .. CtrlSize - 1 : i = (ProbeAt(t, h, s) + j) % t.hard
        /\ \A r \in 0 .. s - 1 : EmptiesAt(t, ProbeAt(t, h, r)) = {}
  BY DEF Reachable
<1>2. s \in Nat
  BY TableSize DEF CtrlSize
<1>3. \A r \in Nat : ProbeAt(u, h, r) = ProbeAt(t, h, r) /\ ProbeAt(t, h, r) \in 0 .. t.hard - 1
  <2> TAKE r \in Nat
  <2>1. /\ ProbeAt(t, h, r) = (H1(h) + 4 * (r * (r + 1))) % t.hard
        /\ ProbeAt(u, h, r) = (H1(h) + 4 * (r * (r + 1))) % u.hard
    BY ProbeClosed
  <2>2. ProbeAt(t, h, r) \in 0 .. t.hard - 1
    BY ProbeRange
  <2> QED
    BY <2>1, <2>2
<1>4. ASSUME NEW r \in 0 .. s - 1
      PROVE  EmptiesAt(u, ProbeAt(u, h, r)) = {}
  <2> DEFINE n == ProbeAt(t, h, r)
  <2>1. n \in 0 .. t.hard - 1 /\ ProbeAt(u, h, r) = n /\ EmptiesAt(t, n) = {}
    BY <1>1, <1>2, <1>3
  <2> HIDE DEF n
  <2>2. \A j \in 0 .. 7 : (n + j) % t.hard \in 0 .. t.hard - 1
    BY <2>1, ByteAt
  <2>3. EmptiesAt(t, n) = {j \in 0 .. 7 : t.ctrl[(n + j) % t.hard] = Empty}
    BY <2>1, EmptiesExact
  <2>4. EmptiesAt(u, n) = {j \in 0 .. 7 : u.ctrl[(n + j) % t.hard] = Empty}
    <3>1. n \in 0 .. u.hard - 1
      BY <2>1
    <3> QED
      BY <3>1, EmptiesExact
  <2>5. \A j \in 0 .. 7 : u.ctrl[(n + j) % t.hard] # Empty
    <3> TAKE j \in 0 .. 7
    <3>1. (n + j) % t.hard \in Live(t)
      BY <2>1, <2>2, <2>3, LiveSlots
    <3> QED
      BY <2>2, <3>1, LiveSlots
  <2> QED
    BY <2>1, <2>4, <2>5
<1> QED
  BY <1>1, <1>2, <1>3, <1>4 DEF Reachable

\* Filling the empty slot that a search for k ended at keeps the table in order.
LEMMA FilledKeeps ==
  ASSUME NEW t, TableInv(t), NEW k \in Keys, NEW idx \in 0 .. t.hard - 1, NEW v \in Nat,
         idx \notin Live(t), Reachable(t, Hash[t.seed][Content[k]], idx),
         \A i \in Live(t) : Content[t.keys[i]] # Content[k], t.len < t.soft
  PROVE  LET u == Filled(t, idx, k, v)
         IN  /\ TableInv(u) /\ Live(u) = Live(t) \cup {idx}
             /\ u.len = t.len + 1 /\ u.soft = t.soft /\ u.hard = t.hard /\ u.seed = t.seed
             /\ u.keys = [t.keys EXCEPT ![idx] = k] /\ u.vals = [t.vals EXCEPT ![idx] = v]
<1> DEFINE u == Filled(t, idx, k, v)
           h2 == H2(Hash[t.seed][Content[k]])
           mi == MirrorIndex(t, idx)
<1>1. /\ IsTable(t) /\ Mirrored(t) /\ Tagged(t) /\ Counted(t)
      /\ KeysDistinct(t) /\ KeysReachable(t)
  BY DEF TableInv
<1>2. /\ IsRecord(u)
      /\ u.len = t.len + 1 /\ u.soft = t.soft /\ u.hard = t.hard /\ u.seed = t.seed
      /\ u.ctrl = [i \in 0 .. t.hard + 7 |-> IF i \in {idx, mi} THEN h2 ELSE t.ctrl[i]]
      /\ u.keys = [t.keys EXCEPT ![idx] = k] /\ u.vals = [t.vals EXCEPT ![idx] = v]
  BY <1>1, FilledFields
<1>3. /\ t.hard \in Nat /\ t.hard >= 8 /\ t.soft \in Nat /\ t.len \in Nat
      /\ t.hard + CtrlSize - 1 = t.hard + 7
  BY <1>1, TableSize DEF CtrlSize
<1>4. Content[k] \in Contents /\ t.seed \in Seeds /\ h2 \in 128 .. 255 /\ h2 # Empty
  <2>1. Content[k] \in Contents /\ t.seed \in Seeds
    BY <1>1 DEF Contents, IsTable
  <2> QED
    <3>1. h2 \in 128 .. 255
      BY <2>1, HashTypes, Zenon
    <3> HIDE DEF h2
    <3>2. h2 # Empty
      BY <3>1 DEF Empty
    <3> QED
      BY <2>1, <3>1, <3>2, Zenon
<1>5. mi = IF idx < 7 THEN t.hard + idx ELSE idx
  BY <1>1, MirrorOf
<1> HIDE DEF u, h2, mi
<1>6. \A i \in 0 .. t.hard - 1 : u.ctrl[i] = IF i = idx THEN h2 ELSE t.ctrl[i]
  BY <1>2, <1>3, <1>5
<1>7. IsTable(u)
  <2>1. \E i \in 0 .. 26 : u.hard = CtrlSize * 2^i /\ u.soft = (CtrlSize - 1) * 2^i
    BY <1>1, <1>2 DEF IsTable
  <2>2. u.len \in 0 .. u.soft /\ u.seed \in Seeds
    BY <1>2, <1>3, <1>4
  <2>3. u.ctrl \in [0 .. u.hard + CtrlSize - 1 -> {Empty} \cup (128 .. 255)]
    <3>1. t.ctrl \in [0 .. t.hard + 7 -> {Empty} \cup (128 .. 255)]
      BY <1>1, TableFields
    <3>2. \A i \in 0 .. t.hard + 7 : u.ctrl[i] \in {Empty} \cup (128 .. 255)
      BY <1>2, <1>4, <3>1, ZenonT(60)
    <3>3. u.ctrl \in [0 .. t.hard + 7 -> {Empty} \cup (128 .. 255)]
      BY <1>2, <3>2
    <3> QED
      BY <1>2, <1>3, <3>3
  <2>4. u.keys \in [0 .. u.hard - 1 -> Keys] /\ u.vals \in [0 .. u.hard - 1 -> Nat]
    BY <1>1, <1>2, TableFields
  <2> QED
    BY <1>2, <2>1, <2>2, <2>3, <2>4 DEF IsTable, IsRecord
<1>8. Mirrored(u)
  <2>1. ASSUME NEW i \in 0 .. 6
        PROVE  u.ctrl[t.hard + i] = u.ctrl[i]
    <3>1. t.ctrl[t.hard + i] = t.ctrl[i]
      BY <1>1 DEF Mirrored, CtrlSize
    <3>2. /\ t.hard + i \in 0 .. t.hard + 7 /\ i \in 0 .. t.hard - 1
          /\ t.hard + i = mi <=> i = idx
          /\ t.hard + i # idx
      BY <1>3, <1>5
    <3>3. u.ctrl[t.hard + i] = IF i = idx THEN h2 ELSE t.ctrl[t.hard + i]
      BY <1>2, <3>2
    <3> QED
      BY <1>6, <3>1, <3>2, <3>3
  <2>2. u.hard = t.hard /\ CtrlSize - 2 = 6
    BY <1>2 DEF CtrlSize
  <2> QED
    BY <2>1, <2>2 DEF Mirrored
<1>9. Live(u) = Live(t) \cup {idx}
  BY <1>2, <1>4, <1>6, ZenonT(60) DEF Live
<1>10. Counted(u)
  <2>1. Cardinality(Live(t) \cup {idx}) = Cardinality(Live(t)) + 1
    BY <1>1, LiveSlots, FS_AddElement
  <2> QED
    BY <1>1, <1>2, <1>9, <2>1 DEF Counted
<1>11. /\ u.keys[idx] = k
       /\ \A i \in Live(t) : u.keys[i] = t.keys[i] /\ i \in 0 .. t.hard - 1
  <2>1. t.keys \in [0 .. t.hard - 1 -> Keys] /\ Live(t) \subseteq 0 .. t.hard - 1
    BY <1>1, LiveSlots, TableFields, Zenon
  <2>2. u.keys[idx] = k
    BY <1>2, <2>1
  <2>3. ASSUME NEW i \in Live(t)
        PROVE  u.keys[i] = t.keys[i] /\ i \in 0 .. t.hard - 1
    <3>1. i \in 0 .. t.hard - 1 /\ i # idx
      BY <2>1, Zenon
    <3> QED
      BY <1>2, <2>1, <3>1
  <2> QED
    BY <2>2, <2>3
<1>12. Tagged(u)
  BY <1>1, <1>2, <1>6, <1>9, <1>11 DEF Tagged, h2
<1>13. KeysDistinct(u)
  BY <1>1, <1>9, <1>11 DEF KeysDistinct
<1>14. ASSUME NEW h \in Nat, NEW i, Reachable(t, h, i)
       PROVE  Reachable(u, h, i)
  <2>1. Live(t) \subseteq Live(u)
    BY <1>9
  <2> QED
    BY <1>1, <1>2, <1>7, <1>8, <1>14, <2>1, ReachableStays
<1>15. KeysReachable(u)
  <2>1. ASSUME NEW i \in Live(u)
        PROVE  Reachable(t, Hash[t.seed][Content[u.keys[i]]], i)
    BY <1>1, <1>9, <1>11 DEF KeysReachable
  <2>2. ASSUME NEW i \in Live(u)
        PROVE  Hash[t.seed][Content[u.keys[i]]] \in Nat
    BY <1>2, <1>7, LiveHash
  <2> QED
    BY <1>2, <1>14, <2>1, <2>2 DEF KeysReachable
<1> QED
  BY <1>2, <1>7, <1>8, <1>9, <1>10, <1>12, <1>13, <1>15 DEF TableInv, u

\* Writing the value of a slot changes nothing else.
LEMMA RevaluedKeeps ==
  ASSUME NEW t, TableInv(t), NEW idx \in 0 .. t.hard - 1, NEW v \in Nat
  PROVE  LET u == [t EXCEPT !.vals[idx] = v]
         IN  /\ TableInv(u) /\ Live(u) = Live(t)
             /\ u.len = t.len /\ u.soft = t.soft /\ u.hard = t.hard /\ u.seed = t.seed
             /\ u.keys = t.keys /\ u.vals = [t.vals EXCEPT ![idx] = v]
<1> DEFINE u == [t EXCEPT !.vals[idx] = v]
<1>1. /\ IsTable(t) /\ Mirrored(t) /\ Tagged(t) /\ Counted(t)
      /\ KeysDistinct(t) /\ KeysReachable(t)
  BY DEF TableInv
<1>2. /\ u.len = t.len /\ u.soft = t.soft /\ u.hard = t.hard /\ u.seed = t.seed
      /\ u.ctrl = t.ctrl /\ u.keys = t.keys /\ u.vals = [t.vals EXCEPT ![idx] = v]
      /\ IsRecord(u)
  <2>1. t = [len |-> t.len, soft |-> t.soft, hard |-> t.hard, seed |-> t.seed,
             ctrl |-> t.ctrl, keys |-> t.keys, vals |-> t.vals]
    BY <1>1, TableFields DEF IsRecord
  <2>2. /\ u.len = t.len /\ u.soft = t.soft /\ u.hard = t.hard /\ u.seed = t.seed
        /\ u.ctrl = t.ctrl /\ u.keys = t.keys /\ u.vals = [t.vals EXCEPT ![idx] = v]
        /\ u \in [len : {u.len}, soft : {u.soft}, hard : {u.hard}, seed : {u.seed},
                  ctrl : {u.ctrl}, keys : {u.keys}, vals : {u.vals}]
    BY <2>1
  <2>3. IsRecord(u)
    <3> HIDE DEF u
    <3> QED
      BY <2>2 DEF IsRecord
  <2> QED
    BY <2>2, <2>3
<1> HIDE DEF u
<1>3. IsTable(u)
  <2>1. u.vals \in [0 .. t.hard - 1 -> Nat]
    BY <1>1, <1>2, TableFields
  <2>2. /\ \E i \in 0 .. 26 : t.hard = CtrlSize * 2^i /\ t.soft = (CtrlSize - 1) * 2^i
        /\ t.len \in 0 .. t.soft /\ t.seed \in Seeds
        /\ t.ctrl \in [0 .. t.hard + CtrlSize - 1 -> {Empty} \cup (128 .. 255)]
        /\ t.keys \in [0 .. t.hard - 1 -> Keys]
    BY <1>1 DEF IsTable
  <2>3. /\ \E i \in 0 .. 26 : u.hard = CtrlSize * 2^i /\ u.soft = (CtrlSize - 1) * 2^i
        /\ u.len \in 0 .. u.soft /\ u.seed \in Seeds
        /\ u.ctrl \in [0 .. u.hard + CtrlSize - 1 -> {Empty} \cup (128 .. 255)]
        /\ u.keys \in [0 .. u.hard - 1 -> Keys] /\ u.vals \in [0 .. u.hard - 1 -> Nat]
    BY <1>2, <2>1, <2>2
  <2> QED
    BY <1>2, <2>3 DEF IsTable, IsRecord
<1>4. Live(u) = Live(t)
  BY <1>2 DEF Live
<1>5. Mirrored(u) /\ Tagged(u) /\ Counted(u) /\ KeysDistinct(u)
  BY <1>1, <1>2, <1>4 DEF Mirrored, Tagged, Counted, KeysDistinct
<1>6. KeysReachable(u)
  <2> SUFFICES ASSUME NEW i \in Live(t)
               PROVE  Reachable(u, Hash[t.seed][Content[t.keys[i]]], i)
    BY <1>2, <1>4 DEF KeysReachable
  <2>1. Hash[t.seed][Content[t.keys[i]]] \in Nat
    BY <1>1, LiveHash
  <2>2. Reachable(t, Hash[t.seed][Content[t.keys[i]]], i)
    BY <1>1 DEF KeysReachable
  <2> QED
    BY <1>1, <1>2, <1>3, <1>4, <1>5, <2>1, <2>2, ReachableStays
<1> QED
  BY <1>2, <1>3, <1>4, <1>5, <1>6 DEF TableInv, u

----------------------------------------------------------------------------
(* Creating and growing *)

\* loadFactor has a power of two to choose for every number of entries up to maxEntries.
LEMMA LargestPower ==
  /\ Pow[0] = 1 /\ Pow[1] = 2 /\ Pow[2] = 4
  /\ MaxEntries \in Nat /\ MaxEntries >= 7 /\ 2 * MaxEntries <= Pow[29]
<1>1. Pow[0] = 1 /\ \A i \in 0 .. 28 : Pow[i + 1] = 2 * Pow[i]
  BY PowIsPowers DEF Powers
<1>2. Pow[1] = 2 /\ Pow[2] = 4 /\ Pow[3] = 8 /\ Pow[4] = 16 /\ Pow[5] = 32
  <2>1. /\ Pow[0 + 1] = 2 * Pow[0] /\ Pow[1 + 1] = 2 * Pow[1] /\ Pow[2 + 1] = 2 * Pow[2]
        /\ Pow[3 + 1] = 2 * Pow[3] /\ Pow[4 + 1] = 2 * Pow[4]
    BY <1>1
  <2> QED
    BY <1>1, <2>1
<1>3. \A i \in 0 .. 25 : Pow[i + 4] = 16 * Pow[i]
  <2> TAKE i \in 0 .. 25
  <2>1. Pow[i] \in Nat
    BY PowIsPowers DEF Powers
  <2>2. /\ Pow[i + 1] = 2 * Pow[i] /\ Pow[(i + 1) + 1] = 2 * Pow[i + 1]
        /\ Pow[(i + 2) + 1] = 2 * Pow[i + 2] /\ Pow[(i + 3) + 1] = 2 * Pow[i + 3]
    BY <1>1
  <2>3. (i + 1) + 1 = i + 2 /\ (i + 2) + 1 = i + 3 /\ (i + 3) + 1 = i + 4
    OBVIOUS
  <2> QED
    BY <2>1, <2>2, <2>3
<1>4. /\ Pow[9] = 512 /\ Pow[13] = 8192 /\ Pow[17] = 131072
      /\ Pow[21] = 2097152 /\ Pow[25] = 33554432 /\ Pow[29] = 536870912
  <2>1. /\ Pow[5 + 4] = 16 * Pow[5] /\ Pow[9 + 4] = 16 * Pow[9] /\ Pow[13 + 4] = 16 * Pow[13]
        /\ Pow[17 + 4] = 16 * Pow[17] /\ Pow[21 + 4] = 16 * Pow[21]
        /\ Pow[25 + 4] = 16 * Pow[25]
    BY <1>3
  <2> QED
    BY <1>2, <2>1, SMT
<1> QED
  BY <1>1, <1>2, <1>4, SMT DEF MaxEntries

\* loadFactor gives a table of a power of two of words with room for n entries.
LEMMA LoadFactorFits ==
  ASSUME NEW n \in 0 .. MaxEntries
  PROVE  LET f == LoadFactor(n)
         IN  /\ n <= f.soft
             /\ \E i \in 0 .. 26 : f.hard = CtrlSize * 2^i /\ f.soft = (CtrlSize - 1) * 2^i
<1> DEFINE f == LoadFactor(n)
           e == IF n > MinEntries THEN n ELSE MinEntries
           need == (e * 8) \div 7
           S == {p \in {2^i : i \in 0 .. 29} : p >= need}
           hard == Min(S)
<1>1. f.soft = (hard \div 8) * 7 /\ f.hard = hard
  BY DEF LoadFactor
<1>2. /\ n \in Nat /\ e \in Nat /\ n <= e /\ need \in Nat /\ need >= 8 /\ need <= Pow[29]
      /\ e * 8 < 7 * need + 7
  <2>1. MinEntries = 7
    BY DEF MinEntries, CtrlSize
  <2>2. n \in Nat /\ e \in Nat /\ e >= 7 /\ e <= MaxEntries /\ n <= e
    BY <2>1, LargestPower
  <2> HIDE DEF e
  <2>3. need \in Nat /\ need >= 8 /\ need <= 2 * e /\ e * 8 < 7 * need + 7
    BY <2>2
  <2> HIDE DEF need
  <2>4. Pow[29] \in Nat
    BY PowIsPowers DEF Powers
  <2> QED
    BY <2>2, <2>3, <2>4, LargestPower
<1> HIDE DEF e, need, f
<1>3. \A p \in S : \E i \in 0 .. 29 : p = Pow[i]
  BY DEF Pow
<1>4. \A i \in 0 .. 29 : Pow[i] \in Nat
  BY PowIsPowers DEF Powers
<1>5. S \subseteq Nat
  BY <1>3, <1>4
<1>6. S # {}
  <2>1. Pow[29] \in S
    <3>1. Pow[29] = 2^29 /\ 29 \in 0 .. 29
      BY DEF Pow
    <3>2. Pow[29] \in {2^i : i \in 0 .. 29}
      BY <3>1
    <3> QED
      BY <1>2, <1>4, <3>2, LargestPower
  <2> QED
    BY <2>1
<1>7. hard \in S
  <2> HIDE DEF S
  <2> QED
    BY <1>5, <1>6, MinOfNats
<1>8. PICK i \in 0 .. 29 : hard = Pow[i] /\ hard \in Nat /\ hard >= need
  <2> HIDE DEF hard
  <2> QED
    BY <1>3, <1>4, <1>7
<1> HIDE DEF hard
<1>9. i \in 3 .. 29
  BY <1>2, <1>8, LargestPower
<1> DEFINE k == i - 3
<1>10. k \in 0 .. 26 /\ Pow[k] = 2^k /\ Pow[k] \in Nat /\ i = k + 3
  <2>1. k \in 0 .. 26 /\ k \in 0 .. 29 /\ i = k + 3
    BY <1>9
  <2> HIDE DEF k
  <2>2. Pow[k] = 2^k
    BY <2>1 DEF Pow
  <2> QED
    BY <1>4, <2>1, <2>2
<1> HIDE DEF k
<1>11. hard = 8 * Pow[k]
  <2>1. Pow[k + 1] = 2 * Pow[k] /\ Pow[(k + 1) + 1] = 2 * Pow[k + 1] /\ Pow[(k + 2) + 1] = 2 * Pow[k + 2]
    BY <1>10, PowIsPowers DEF Powers
  <2>2. (k + 1) + 1 = k + 2 /\ (k + 2) + 1 = k + 3
    BY <1>10
  <2> QED
    BY <1>8, <1>10, <2>1, <2>2
<1>12. f.soft = 7 * Pow[k] /\ f.hard = 8 * Pow[k]
  BY <1>1, <1>10, <1>11
<1>13. n <= f.soft
  BY <1>2, <1>8, <1>10, <1>11, <1>12
<1>14. f.hard = CtrlSize * 2^k /\ f.soft = (CtrlSize - 1) * 2^k
  BY <1>10, <1>12 DEF CtrlSize
<1> QED
  BY <1>10, <1>13, <1>14 DEF f

\* A new table is in order, empty, and has room for n entries.
LEMMA FreshIsTable ==
  ASSUME NEW n \in 0 .. MaxEntries, NEW seed \in Seeds
  PROVE  LET t == Fresh(n, seed)
         IN  /\ TableInv(t) /\ Live(t) = {} /\ t.len = 0 /\ n <= t.soft /\ t.seed = seed
<1> DEFINE f == LoadFactor(n)
           t == Fresh(n, seed)
           ctrl == [i \in 0 .. f.hard + CtrlSize - 1 |-> Empty]
           keys == [i \in 0 .. f.hard - 1 |-> ZeroKey]
           vals == [i \in 0 .. f.hard - 1 |-> ZeroValue]
<1>1. PICK i \in 0 .. 26 : f.hard = CtrlSize * 2^i /\ f.soft = (CtrlSize - 1) * 2^i
  BY LoadFactorFits
<1>2. n <= f.soft /\ 2^i \in Nat
  <2>1. n <= f.soft
    BY LoadFactorFits
  <2>2. i \in 0 .. 29
    OBVIOUS
  <2> QED
    BY <2>1, <2>2, PowerAssumption
<1> HIDE DEF f
<1>3. t = [len |-> 0, soft |-> f.soft, hard |-> f.hard, seed |-> seed,
           ctrl |-> ctrl, keys |-> keys, vals |-> vals]
  BY DEF Fresh, f
<1> HIDE DEF t, ctrl, keys, vals
<1>4. /\ t.len = 0 /\ t.soft = f.soft /\ t.hard = f.hard /\ t.seed = seed
      /\ t.ctrl = ctrl /\ t.keys = keys /\ t.vals = vals
  BY <1>3
<1>5. f.soft \in Nat /\ f.hard \in Nat
  BY <1>1, <1>2 DEF CtrlSize
<1>6. IsTable(t)
  <2>1. t = [len |-> t.len, soft |-> t.soft, hard |-> t.hard, seed |-> t.seed,
             ctrl |-> t.ctrl, keys |-> t.keys, vals |-> t.vals]
    BY <1>3
  <2>2. t.ctrl \in [0 .. t.hard + CtrlSize - 1 -> {Empty} \cup (128 .. 255)]
    BY <1>4 DEF ctrl
  <2>3. t.keys \in [0 .. t.hard - 1 -> Keys] /\ t.vals \in [0 .. t.hard - 1 -> Nat]
    BY <1>4, SwissAssumption DEF keys, vals, ZeroValue
  <2>4. t.len \in 0 .. t.soft /\ t.seed \in Seeds
    BY <1>4, <1>5
  <2>5. \E j \in 0 .. 26 : t.hard = CtrlSize * 2^j /\ t.soft = (CtrlSize - 1) * 2^j
    BY <1>1, <1>4
  <2> QED
    BY <2>1, <2>2, <2>3, <2>4, <2>5 DEF IsTable
<1>7. \A j \in 0 .. t.hard + 7 : t.ctrl[j] = Empty
  BY <1>4, <1>5 DEF ctrl, CtrlSize
<1>8. Live(t) = {}
  BY <1>4, <1>5, <1>7 DEF Live
<1>9. Mirrored(t)
  BY <1>4, <1>5, <1>6, <1>7, TableSize DEF Mirrored, CtrlSize
<1>10. Counted(t)
  BY <1>4, <1>8, FS_EmptySet DEF Counted
<1>11. Tagged(t) /\ KeysDistinct(t) /\ KeysReachable(t)
  BY <1>8 DEF Tagged, KeysDistinct, KeysReachable
<1> QED
  BY <1>2, <1>4, <1>6, <1>8, <1>9, <1>10, <1>11 DEF TableInv, t

\* The elements of a table.
Pairs(t, S) == {<<t.keys[i], t.vals[i]>> : i \in S}

\* How many of the live slots precede slot i.
Before(t, i) == {j \in Live(t) : j < i}

\* All stops after len slots, and no live slot comes later.
LEMMA AllIsLive ==
  ASSUME NEW t, IsTable(t), Counted(t)
  PROVE  All(t) = Live(t)
<1> SUFFICES ASSUME NEW i \in Live(t)
             PROVE  Cardinality({j \in Live(t) : j < i}) < t.len
  BY DEF All
<1> DEFINE S == {j \in Live(t) : j < i}
<1>1. i \in Int /\ i \notin S /\ S \subseteq Live(t)
  BY LiveSlots, TableSize
<1> HIDE DEF S
<1>2. Cardinality(S) < Cardinality(Live(t))
  <2>1. IsFiniteSet(Live(t)) /\ S # Live(t)
    BY <1>1, LiveSlots
  <2>2. /\ Cardinality(S) \in Nat /\ Cardinality(Live(t)) \in Nat
        /\ Cardinality(S) <= Cardinality(Live(t))
        /\ (Cardinality(S) = Cardinality(Live(t)) => S = Live(t))
    BY <1>1, <2>1, FS_Subset, FS_CardinalityType
  <2> QED
    BY <2>1, <2>2
<1> QED
  BY <1>2 DEF Counted, S

\* The first i slots of a table were copied into u, which has room for n elements.
Copied(from, u, i, n) ==
  /\ TableInv(u) /\ n <= u.soft
  /\ u.len = Cardinality(Before(from, i))
  /\ Pairs(u, Live(u)) = Pairs(from, Before(from, i))

\* The loop body of Init copies the next one.
LEMMA CopySlotCopies ==
  ASSUME NEW from, TableInv(from), NEW u, NEW i \in 0 .. from.hard - 1,
         NEW n \in Nat, from.len < n, Copied(from, u, i, n)
  PROVE  Copied(from, CopySlot(from, u, i), i + 1, n)
<1> DEFINE k == from.keys[i]
           c == Content[k]
           slot == Search(u, c)
           idx == slot.idx
           w == Filled(u, idx, k, from.vals[i])
<1>1. IsTable(from) /\ Counted(from) /\ KeysDistinct(from)
  BY DEF TableInv
<1>2. from.hard \in Nat /\ i \in Int /\ from.len \in Nat
  BY <1>1, TableSize
<1>3. /\ Live(from) \subseteq 0 .. from.hard - 1 /\ IsFiniteSet(Live(from))
      /\ i \in Live(from) <=> from.ctrl[i] # Empty
  BY <1>1, LiveSlots
<1>4. Before(from, i) \subseteq Live(from) /\ i \notin Before(from, i)
  BY <1>2 DEF Before
<1>5. IsFiniteSet(Before(from, i))
  BY <1>3, <1>4, FS_Subset
<1>6. TableInv(u) /\ n <= u.soft /\ u.len = Cardinality(Before(from, i))
  BY DEF Copied
<1>7. CASE i \notin Live(from)
  <2>1. Before(from, i + 1) = Before(from, i)
    BY <1>2, <1>3, <1>7 DEF Before
  <2>2. CopySlot(from, u, i) = u
    BY <1>3, <1>7 DEF CopySlot
  <2> QED
    BY <2>1, <2>2 DEF Copied
<1>8. CASE i \in Live(from)
  <2>1. Before(from, i + 1) = Before(from, i) \cup {i}
    BY <1>2, <1>3, <1>8 DEF Before
  <2>2. u.len # from.len /\ u.len <= from.len /\ u.len \in Nat
    <3>1. /\ Cardinality(Before(from, i)) <= Cardinality(Live(from))
          /\ Cardinality(Before(from, i)) = Cardinality(Live(from)) => Before(from, i) = Live(from)
      BY <1>3, <1>4, FS_Subset
    <3>2. Before(from, i) # Live(from)
      BY <1>4, <1>8
    <3>3. Cardinality(Before(from, i)) \in Nat
      BY <1>5, FS_CardinalityType
    <3> QED
      BY <1>1, <1>6, <3>1, <3>2, <3>3 DEF Counted
  <2>3. CopySlot(from, u, i) = w
    <3>1. from.ctrl[i] # Empty
      BY <1>3, <1>8
    <3> QED
      BY <2>2, <3>1 DEF CopySlot, Filled
  <2>4. k \in Keys /\ c \in Contents /\ from.vals[i] \in Nat
    BY <1>1, <1>8, LiveHash
  <2>5. ASSUME NEW a \in Live(u), Content[u.keys[a]] = c
        PROVE  FALSE
    <3>1. <<u.keys[a], u.vals[a]>> \in Pairs(from, Before(from, i))
      BY DEF Pairs, Copied
    <3>2. PICK j \in Before(from, i) : <<u.keys[a], u.vals[a]>> = <<from.keys[j], from.vals[j]>>
      BY <3>1 DEF Pairs
    <3>3. j \in Live(from) /\ Content[from.keys[j]] = Content[from.keys[i]]
      BY <1>4, <2>5, <3>2
    <3>4. j = i
      BY <1>1, <1>8, <3>3 DEF KeysDistinct
    <3> QED
      BY <1>4, <3>4
  <2>6. /\ idx \in 0 .. u.hard - 1 /\ idx \notin Live(u)
        /\ Reachable(u, Hash[u.seed][c], idx)
    <3> HIDE DEF c
    <3>1. /\ slot.occupied \in BOOLEAN
          /\ slot.occupied => idx \in Live(u) /\ Content[u.keys[idx]] = c
          /\ ~slot.occupied =>
               /\ idx \in 0 .. u.hard - 1 /\ idx \notin Live(u)
               /\ Reachable(u, Hash[u.seed][c], idx)
      BY <1>6, <2>4, SearchFinds
    <3> QED
      BY <2>5, <3>1
  <2>7. u.len < u.soft
    <3>1. u.soft \in Nat
      BY <1>6, TableSize DEF TableInv
    <3> QED
      BY <1>2, <1>6, <2>2, <3>1
  <2> DEFINE v == from.vals[i]
  <2> HIDE DEF idx, w, k, v
  <2>8. /\ TableInv(w) /\ Live(w) = Live(u) \cup {idx}
        /\ w.len = u.len + 1 /\ w.soft = u.soft
        /\ w.keys = [u.keys EXCEPT ![idx] = k] /\ w.vals = [u.vals EXCEPT ![idx] = v]
    <3>1. /\ k \in Keys /\ v \in Nat /\ Reachable(u, Hash[u.seed][Content[k]], idx)
          /\ \A a \in Live(u) : Content[u.keys[a]] # Content[k]
      BY <2>4, <2>5, <2>6 DEF v
    <3>2. /\ TableInv(Filled(u, idx, k, v)) /\ Live(Filled(u, idx, k, v)) = Live(u) \cup {idx}
          /\ Filled(u, idx, k, v).len = u.len + 1 /\ Filled(u, idx, k, v).soft = u.soft
          /\ Filled(u, idx, k, v).keys = [u.keys EXCEPT ![idx] = k]
          /\ Filled(u, idx, k, v).vals = [u.vals EXCEPT ![idx] = v]
      BY <1>6, <2>6, <2>7, <3>1, FilledKeeps
    <3> QED
      BY <3>2 DEF w, v
  <2>9. w.len = Cardinality(Before(from, i + 1))
    BY <1>4, <1>5, <1>6, <2>1, <2>8, FS_AddElement
  <2>10. /\ w.keys[idx] = k /\ w.vals[idx] = v
         /\ \A a \in Live(u) : w.keys[a] = u.keys[a] /\ w.vals[a] = u.vals[a]
    <3>1. u.keys \in [0 .. u.hard - 1 -> Keys] /\ u.vals \in [0 .. u.hard - 1 -> Nat]
      BY <1>6, TableFields DEF TableInv
    <3>2. Live(u) \subseteq 0 .. u.hard - 1
      BY <1>6, LiveSlots DEF TableInv
    <3> QED
      BY <2>6, <2>8, <3>1, <3>2
  <2>11. Pairs(w, Live(w)) = Pairs(from, Before(from, i + 1))
    <3>1. Pairs(w, Live(w)) = Pairs(u, Live(u)) \cup {<<k, v>>}
      BY <2>8, <2>10 DEF Pairs
    <3>2. Pairs(from, Before(from, i + 1)) = Pairs(from, Before(from, i)) \cup {<<k, v>>}
      BY <2>1 DEF Pairs, k, v
    <3> QED
      BY <3>1, <3>2 DEF Copied
  <2> QED
    BY <1>6, <2>3, <2>8, <2>9, <2>11 DEF Copied
<1> QED
  BY <1>7, <1>8

\* Init with a table to copy from gives a larger table with the same elements.
LEMMA RehashCopies ==
  ASSUME NEW from, TableInv(from), NEW seed \in Seeds, GrownLen(from) <= MaxEntries
  PROVE  LET u == Rehash(from, GrownLen(from), seed)
         IN  /\ TableInv(u) /\ u.len = from.len /\ u.len < u.soft
             /\ Pairs(u, Live(u)) = Pairs(from, Live(from))
<1> DEFINE n == GrownLen(from)
           m == from.hard
           t0 == Fresh(n, seed)
           Eq(f, j) == f = [i \in 0 .. j |-> IF i = 0 THEN t0 ELSE CopySlot(from, f[i - 1], i - 1)]
           copied == CHOOSE f : Eq(f, m)
<1>1. /\ m \in Nat /\ from.len \in Nat /\ n = from.len + 1
      /\ IsTable(from) /\ Counted(from)
  BY TableSize DEF TableInv, GrownLen
<1>2. n \in 0 .. MaxEntries /\ from.len < n /\ n \in Nat
  BY <1>1, LargestPower
<1>3. Rehash(from, n, seed) = copied[m]
  BY DEF Rehash
<1> HIDE DEF n, m
<1>4. /\ TableInv(t0) /\ Live(t0) = {} /\ t0.len = 0 /\ n <= t0.soft
  BY <1>2, FreshIsTable
<1> HIDE DEF t0
<1>5. Eq(copied, m)
  <2> DEFINE Bad == {j \in 0 .. m : ~\E f : Eq(f, j)}
  <2>1. m \notin Bad
    <3> SUFFICES ASSUME m \in Bad PROVE FALSE
      OBVIOUS
    <3>1. Bad \subseteq Nat
      BY <1>1
    <3>2. PICK l \in Bad : \A j \in Bad : l <= j
      <4> HIDE DEF Bad
      <4> QED
        BY <3>1, LeastOfNats
    <3>3. l # 0
      <4> DEFINE f0 == [i \in 0 .. 0 |-> t0]
      <4>1. Eq(f0, 0)
        OBVIOUS
      <4> QED
        <5> HIDE DEF Eq, f0
        <5> QED
          BY <4>1, <3>2
    <3>4. l \in 1 .. m /\ l - 1 \in 0 .. m /\ l - 1 \notin Bad
      <4> HIDE DEF Eq
      <4>1. l \in 0 .. m
        OBVIOUS
      <4> HIDE DEF Bad
      <4> QED
        BY <1>1, <3>2, <3>3, <4>1
    <3>5. PICK g : Eq(g, l - 1)
      <4> HIDE DEF Eq
      <4> QED
        BY <3>4
    <3> DEFINE f1 == [i \in 0 .. l |-> IF i = l THEN CopySlot(from, g[l - 1], l - 1) ELSE g[i]]
    <3>6. Eq(f1, l)
      <4>1. ASSUME NEW i \in 0 .. l
            PROVE  f1[i] = IF i = 0 THEN t0 ELSE CopySlot(from, f1[i - 1], i - 1)
        <5>1. CASE i = l
          <6>1. f1[i] = CopySlot(from, g[l - 1], l - 1) /\ f1[l - 1] = g[l - 1] /\ i # 0
            BY <3>4, <5>1
          <6> QED
            BY <5>1, <6>1
        <5>2. CASE i # l
          <6>1. i \in 0 .. l - 1
            BY <3>4, <5>2
          <6>2. g[i] = IF i = 0 THEN t0 ELSE CopySlot(from, g[i - 1], i - 1)
            BY <3>5, <6>1
          <6>3. f1[i] = g[i] /\ (i # 0 => f1[i - 1] = g[i - 1])
            BY <3>4, <5>2, <6>1
          <6> QED
            BY <6>2, <6>3
        <5> QED
          BY <5>1, <5>2
      <4>2. f1 = [i \in 0 .. l |-> f1[i]]
        OBVIOUS
      <4> HIDE DEF f1
      <4> QED
        BY <4>1, <4>2
    <3> HIDE DEF Eq, f1
    <3> QED
      BY <3>2, <3>6
  <2>2. \E f : Eq(f, m)
    <3> HIDE DEF Eq
    <3> QED
      BY <1>1, <2>1
  <2> HIDE DEF Eq
  <2> QED
    BY <2>2
<1> HIDE DEF copied
<1>6. copied[0] = t0 /\ \A i \in 0 .. m - 1 : copied[i + 1] = CopySlot(from, copied[i], i)
  <2>1. copied[0] = t0
    BY <1>1, <1>5
  <2>2. ASSUME NEW i \in 0 .. m - 1
        PROVE  copied[i + 1] = CopySlot(from, copied[i], i)
    <3>1. i + 1 \in 0 .. m /\ i + 1 # 0 /\ (i + 1) - 1 = i
      BY <1>1
    <3>2. copied[i + 1] = CopySlot(from, copied[(i + 1) - 1], (i + 1) - 1)
      BY <1>5, <3>1
    <3> QED
      BY <3>1, <3>2
  <2> QED
    BY <2>1, <2>2
<1> HIDE DEF Eq
<1>7. Copied(from, copied[0], 0, n)
  <2>1. Before(from, 0) = {}
    BY <1>1, LiveSlots DEF Before, m
  <2>2. Pairs(t0, {}) = {} /\ Pairs(from, {}) = {}
    BY DEF Pairs
  <2> QED
    BY <1>4, <1>6, <2>1, <2>2, FS_EmptySet DEF Copied
<1>8. Copied(from, copied[m], m, n)
  <2> DEFINE Bad == {j \in 0 .. m : ~Copied(from, copied[j], j, n)}
  <2> SUFFICES ASSUME m \in Bad PROVE FALSE
    BY <1>1
  <2>1. Bad \subseteq Nat
    BY <1>1
  <2>2. PICK l \in Bad : \A j \in Bad : l <= j
    <3> HIDE DEF Bad
    <3> QED
      BY <2>1, LeastOfNats
  <2>3. l # 0
    BY <1>7, <2>2
  <2> DEFINE i == l - 1
  <2>4. i \in 0 .. m - 1 /\ l = i + 1 /\ i \in 0 .. m /\ i \notin Bad
    BY <1>1, <2>2, <2>3
  <2> HIDE DEF i
  <2>5. Copied(from, copied[i], i, n)
    BY <2>4
  <2>6. Copied(from, CopySlot(from, copied[i], i), i + 1, n)
    BY <1>2, <2>4, <2>5, CopySlotCopies DEF m
  <2>7. copied[i + 1] = CopySlot(from, copied[i], i)
    BY <1>6, <2>4
  <2> QED
    BY <2>2, <2>4, <2>6, <2>7
<1>9. Before(from, m) = Live(from)
  BY <1>1, LiveSlots DEF Before, m
<1>10. copied[m].soft \in Nat
  <2>1. IsTable(copied[m])
    BY <1>8 DEF Copied, TableInv
  <2> QED
    BY <2>1, TableSize
<1>11. /\ TableInv(copied[m]) /\ copied[m].len = from.len /\ copied[m].len < copied[m].soft
       /\ Pairs(copied[m], Live(copied[m])) = Pairs(from, Live(from))
  BY <1>1, <1>2, <1>8, <1>9, <1>10 DEF Copied, Counted
<1> QED
  BY <1>3, <1>11 DEF n

----------------------------------------------------------------------------
(* Inserting *)

\* The values that a table holds for content c.
Values(t, c) == {t.vals[i] : i \in {i \in Live(t) : Content[t.keys[i]] = c}}

\* Tables with the same elements hold the same values.
LEMMA SameValues ==
  ASSUME NEW t, NEW u, Pairs(u, Live(u)) = Pairs(t, Live(t)), NEW c
  PROVE  Values(u, c) = Values(t, c)
<1>1. ASSUME NEW p, NEW q, Pairs(p, Live(p)) = Pairs(q, Live(q)), NEW v \in Values(p, c)
      PROVE  v \in Values(q, c)
  <2>1. PICK i \in Live(p) : Content[p.keys[i]] = c /\ v = p.vals[i]
    BY DEF Values
  <2>2. <<p.keys[i], v>> \in Pairs(q, Live(q))
    BY <1>1, <2>1 DEF Pairs
  <2>3. PICK j \in Live(q) : <<p.keys[i], v>> = <<q.keys[j], q.vals[j]>>
    BY <2>2 DEF Pairs
  <2> QED
    BY <2>1, <2>3 DEF Values
<1> QED
  BY <1>1

\* The table that *Insert(key) = value leaves.
Stored(t, k, v) ==
  LET slot == Search(t, Content[k])
  IN  [Inserted(t, slot, k) EXCEPT !.vals[slot.idx] = v]

\* *Insert(key) = value on a table with room: the key has the value, no other key changed.
LEMMA InsertStores ==
  ASSUME NEW t, TableInv(t), ~Full(t), NEW k \in Keys, NEW v \in Nat
  PROVE  LET u == Stored(t, k, v)
         IN  /\ TableInv(u) /\ u.soft = t.soft /\ u.len \in {t.len, t.len + 1}
             /\ \A c \in Contents : Values(u, c) = IF c = Content[k] THEN {v} ELSE Values(t, c)
<1> DEFINE ck == Content[k]
           slot == Search(t, ck)
           idx == slot.idx
           u == Stored(t, k, v)
<1>1. IsTable(t) /\ KeysDistinct(t)
  BY DEF TableInv
<1>2. ck \in Contents
  BY DEF Contents
<1> HIDE DEF ck
<1>3. /\ slot.occupied \in BOOLEAN
      /\ slot.occupied => idx \in Live(t) /\ Content[t.keys[idx]] = ck
      /\ ~slot.occupied =>
           /\ idx \in 0 .. t.hard - 1 /\ idx \notin Live(t)
           /\ Reachable(t, Hash[t.seed][ck], idx)
           /\ \A i \in Live(t) : Content[t.keys[i]] # ck
  BY <1>2, SearchFinds
<1>4. /\ slot.occupied => u = [t EXCEPT !.vals[idx] = v]
      /\ ~slot.occupied => u = Filled(t, idx, k, v)
  BY DEF Inserted, Filled, Stored, ck
<1>5. t.len \in Nat /\ t.soft \in Nat /\ t.len < t.soft
  <2>1. t.len \in 0 .. t.soft
    BY <1>1 DEF IsTable
  <2>2. t.soft \in Nat
    BY <1>1, TableSize
  <2> QED
    BY <2>1, <2>2 DEF Full
<1>6. /\ t.keys \in [0 .. t.hard - 1 -> Keys] /\ t.vals \in [0 .. t.hard - 1 -> Nat]
      /\ Live(t) \subseteq 0 .. t.hard - 1
  BY <1>1, TableFields, LiveSlots
<1> HIDE DEF slot, idx, u
<1>7. ASSUME slot.occupied
      PROVE  /\ TableInv(u) /\ Live(u) = Live(t) /\ u.len = t.len /\ u.soft = t.soft
             /\ u.keys = t.keys /\ u.vals = [t.vals EXCEPT ![idx] = v]
  <2>1. idx \in 0 .. t.hard - 1
    BY <1>3, <1>6, <1>7
  <2> DEFINE w == [t EXCEPT !.vals[idx] = v]
  <2>2. /\ TableInv(w) /\ Live(w) = Live(t) /\ w.len = t.len /\ w.soft = t.soft
        /\ w.keys = t.keys /\ w.vals = [t.vals EXCEPT ![idx] = v]
    BY <2>1, RevaluedKeeps
  <2>3. u = w
    BY <1>4, <1>7
  <2> HIDE DEF w
  <2> QED
    BY <2>2, <2>3
<1>8. ASSUME ~slot.occupied
      PROVE  /\ TableInv(u) /\ Live(u) = Live(t) \cup {idx} /\ u.len = t.len + 1
             /\ u.soft = t.soft
             /\ u.keys = [t.keys EXCEPT ![idx] = k] /\ u.vals = [t.vals EXCEPT ![idx] = v]
  <2>1. /\ Reachable(t, Hash[t.seed][Content[k]], idx)
        /\ \A i \in Live(t) : Content[t.keys[i]] # Content[k]
        /\ idx \in 0 .. t.hard - 1 /\ idx \notin Live(t)
    BY <1>3, <1>8 DEF ck
  <2> QED
    BY <1>4, <1>5, <1>8, <2>1, FilledKeeps
<1>9. /\ idx \in Live(u) /\ u.vals[idx] = v /\ Content[u.keys[idx]] = ck
      /\ \A i \in Live(u) : i # idx => /\ i \in Live(t) /\ u.vals[i] = t.vals[i]
                                       /\ u.keys[i] = t.keys[i] /\ Content[u.keys[i]] # ck
      /\ \A i \in Live(t) : Content[t.keys[i]] # ck =>
           i \in Live(u) /\ i # idx /\ u.vals[i] = t.vals[i] /\ u.keys[i] = t.keys[i]
  <2>1. CASE slot.occupied
    <3>1. /\ Live(u) = Live(t) /\ u.keys = t.keys
          /\ idx \in Live(t) /\ Content[t.keys[idx]] = ck
      BY <1>3, <1>7, <2>1, Zenon
    <3>2. u.vals[idx] = v /\ \A i \in Live(t) : i # idx => u.vals[i] = t.vals[i]
      <4>1. u.vals = [t.vals EXCEPT ![idx] = v]
        BY <1>7, <2>1, Zenon
      <4> QED
        BY <1>6, <3>1, <4>1
    <3>3. ASSUME NEW i \in Live(t), i # idx
          PROVE  Content[t.keys[i]] # ck
      BY <1>1, <3>1, <3>3, Zenon DEF KeysDistinct
    <3>4. ASSUME NEW i \in Live(t), Content[t.keys[i]] # ck
          PROVE  i # idx
      BY <3>1, <3>4, Zenon
    <3> QED
      BY <3>1, <3>2, <3>3, <3>4, ZenonT(60)
  <2>2. CASE ~slot.occupied
    BY <1>3, <1>6, <1>8, <2>2 DEF ck
  <2> QED
    BY <1>3, <2>1, <2>2
<1>10. ASSUME NEW c \in Contents
       PROVE  Values(u, c) = IF c = ck THEN {v} ELSE Values(t, c)
  <2>1. CASE c = ck
    <3>1. {i \in Live(u) : Content[u.keys[i]] = c} = {idx}
      BY <1>9, <2>1
    <3> QED
      BY <1>9, <2>1, <3>1 DEF Values
  <2>2. CASE c # ck
    <3>1. {i \in Live(u) : Content[u.keys[i]] = c} = {i \in Live(t) : Content[t.keys[i]] = c}
      BY <1>9, <2>2
    <3>2. \A i \in {i \in Live(t) : Content[t.keys[i]] = c} : u.vals[i] = t.vals[i]
      BY <1>9, <2>2
    <3> QED
      BY <2>2, <3>1, <3>2 DEF Values
  <2> QED
    BY <2>1, <2>2
<1>11. TableInv(u) /\ u.soft = t.soft /\ u.len \in {t.len, t.len + 1}
  BY <1>3, <1>7, <1>8
<1> QED
  BY <1>10, <1>11 DEF u, ck

----------------------------------------------------------------------------
(* The map field *)

\* A table is not nil.
LEMMA TableIsNotNil ==
  ASSUME NEW t, IsTable(t)
  PROVE  t # Nil
<1>1. PICK a, b, c, d, e, f, g :
        t = [len |-> a, soft |-> b, hard |-> c, seed |-> d, ctrl |-> e, keys |-> f, vals |-> g]
  BY DEF IsTable
<1>2. "len" \in DOMAIN t
  BY <1>1
<1>3. "len" \notin DOMAIN Nil
  BY DEF Nil
<1> QED
  BY <1>2, <1>3

\* The values that the field, which may have no table yet, holds for content c.
Holds(t, c) == IF t = Nil THEN {} ELSE Values(t, c)

\* *Insert(key) = value neither writes through nil nor searches for ever, and changes
\* what the field holds as the entry says.
LEMMA StoreKeeps ==
  ASSUME SwissInv, Reading, NEW t, TableInv(t), ~Full(t), t.len <= next,
         op = "new" => Len(entries) <= t.soft,
         \A c \in Contents : Values(t, c) = Holds(table, c),
         Store(t, entries[next + 1])
  PROVE  /\ SwissInv' /\ next' = next + 1 /\ UNCHANGED entries
         /\ entries[next + 1] \in [key : Keys, value : Nat]
         /\ \A c \in Contents :
              Holds(table', c) = IF c = Content[entries[next + 1].key]
                                 THEN {entries[next + 1].value} ELSE Holds(table, c)
<1> DEFINE e == entries[next + 1]
           k == e.key
           v == e.value
           slot == Search(t, Content[k])
           u == [Inserted(t, slot, k) EXCEPT !.vals[slot.idx] = v]
<1>1. /\ op \in {"map", "new"} /\ preload \in 0 .. MaxEntries
      /\ entries \in Seq([key : Keys, value : Nat]) /\ Len(entries) <= MaxEntries
      /\ next \in 0 .. Len(entries)
  BY DEF SwissInv, TypeOK
<1>2. next < Len(entries) /\ Len(entries) \in Nat
  BY <1>1 DEF Reading
<1>3. e \in [key : Keys, value : Nat]
  <2>1. next + 1 \in 1 .. Len(entries)
    BY <1>1, <1>2
  <2> DEFINE E == [key : Keys, value : Nat]
  <2>2. entries \in Seq(E)
    BY <1>1
  <2> HIDE DEF E
  <2>3. e \in E
    BY <2>1, <2>2
  <2> QED
    BY <2>3 DEF E
<1> HIDE DEF e
<1>4. k \in Keys /\ v \in Nat
  BY <1>3
<1>5. Content[k] \in Contents
  BY <1>4 DEF Contents
<1> HIDE DEF k, v
<1>6. Ends(t, Content[k]) # {}
  BY <1>5, SearchEnds DEF TableInv
<1>7. /\ next' = next + 1 /\ status' = "ok" /\ table' = u
      /\ op' = op /\ preload' = preload /\ entries' = entries
  BY <1>6 DEF Store, e, k, v
<1>8. /\ TableInv(u) /\ u.soft = t.soft /\ u.len \in {t.len, t.len + 1}
      /\ \A c \in Contents : Values(u, c) = IF c = Content[k] THEN {v} ELSE Values(t, c)
  <2>1. u = Stored(t, k, v)
    BY Zenon DEF Stored
  <2> HIDE DEF u
  <2> QED
    BY <1>4, <2>1, InsertStores
<1> HIDE DEF u
<1>9. IsTable(u) /\ u # Nil
  BY <1>8, TableIsNotNil DEF TableInv
<1>10. u.len <= next + 1
  <2>1. t.len \in Nat
    BY TableSize DEF TableInv
  <2> QED
    BY <1>1, <1>8, <2>1
<1>11. SwissInv'
  <2>1. TypeOK'
    <3>1. next' \in 0 .. Len(entries')
      BY <1>1, <1>2, <1>7
    <3> QED
      BY <1>1, <1>7, <1>9, <3>1 DEF TypeOK
  <2>2. op' = "new" => Len(entries') <= table'.soft
    BY <1>7, <1>8
  <2>3. table' # Nil /\ TableInv(table') /\ table'.len <= next'
    BY <1>7, <1>8, <1>9, <1>10
  <2> QED
    BY <1>7, <2>1, <2>2, <2>3 DEF SwissInv
<1>12. \A c \in Contents : Holds(table', c) = IF c = Content[k] THEN {v} ELSE Holds(table, c)
  BY <1>7, <1>8, <1>9 DEF Holds
<1> QED
  BY <1>3, <1>7, <1>11, <1>12 DEF e, k, v

\* The effect of a step on what the field holds.
EntryRead ==
  /\ next < Len(entries) /\ next' = next + 1 /\ UNCHANGED entries
  /\ entries[next + 1] \in [key : Keys, value : Nat]
  /\ \A c \in Contents :
       Holds(table', c) = IF c = Content[entries[next + 1].key]
                          THEN {entries[next + 1].value} ELSE Holds(table, c)
NothingRead ==
  /\ UNCHANGED <<next, entries>>
  /\ \A c \in Contents : Holds(table', c) = Holds(table, c)

\* Every step keeps the table in order, and reads one entry or none.
LEMMA NextKeeps ==
  ASSUME SwissInv, Next
  PROVE  SwissInv' /\ (EntryRead \/ NothingRead)
<1>1. /\ op \in {"map", "new"} /\ preload \in 0 .. MaxEntries
      /\ Len(entries) <= MaxEntries /\ Len(entries) \in Nat
      /\ next \in 0 .. Len(entries)
  BY DEF SwissInv, TypeOK
<1>2. /\ table # Nil => /\ TableInv(table) /\ table.len <= next
                        /\ op = "new" => Len(entries) <= table.soft
      /\ table = Nil => next = 0
  BY DEF SwissInv
<1>3. \A n \in 0 .. MaxEntries : \A seed \in Seeds : \A c \in Contents :
        Values(Fresh(n, seed), c) = {}
  BY FreshIsTable DEF Values
<1>4. \A t : IsTable(t) => t.len \in 0 .. t.soft /\ t.soft \in Nat
  <2> TAKE t
  <2> HAVE IsTable(t)
  <2>1. t.len \in 0 .. t.soft
    BY DEF IsTable
  <2>2. t.soft \in Nat
    BY TableSize
  <2> QED
    BY <2>1, <2>2
<1>5. CASE ParseEntry
  <2>1. Reading /\ op = "map"
    BY <1>5 DEF ParseEntry
  <2>2. CASE table # Nil /\ ~Full(table) /\ Store(table, entries[next + 1])
    <3>1. \A c \in Contents : Values(table, c) = Holds(table, c)
      BY <2>2 DEF Holds
    <3> QED
      BY <1>2, <2>1, <2>2, <3>1, StoreKeeps DEF EntryRead, Reading
  <2>3. CASE table = Nil /\ \E seed \in Seeds :
               Store(Fresh(IF preload > 1 THEN preload ELSE 1, seed), entries[next + 1])
    <3> DEFINE n == IF preload > 1 THEN preload ELSE 1
    <3>1. PICK seed \in Seeds : Store(Fresh(n, seed), entries[next + 1])
      BY <2>3
    <3>2. n \in 0 .. MaxEntries /\ 1 <= n
      BY <1>1, LargestPower
    <3> HIDE DEF n
    <3> DEFINE t == Fresh(n, seed)
    <3>3. TableInv(t) /\ t.len = 0 /\ n <= t.soft
      BY <3>2, FreshIsTable
    <3>4. \A c \in Contents : Values(t, c) = Holds(table, c)
      BY <1>3, <2>3, <3>2 DEF Holds
    <3> HIDE DEF t
    <3>5. ~Full(t) /\ t.len <= next
      BY <1>1, <1>4, <3>2, <3>3 DEF Full, TableInv
    <3>6. Store(t, entries[next + 1])
      BY <3>1 DEF t
    <3> QED
      BY <2>1, <3>3, <3>4, <3>5, <3>6, StoreKeeps DEF EntryRead, Reading
  <2> QED
    BY <1>5, <2>2, <2>3 DEF ParseEntry
<1>6. CASE GrowAndParseEntry
  <2>1. Reading /\ op = "map" /\ table # Nil
    BY <1>6 DEF GrowAndParseEntry
  <2>2. PICK seed \in Seeds :
          Store(Rehash(table, GrownLen(table), seed), entries[next + 1])
    BY <1>6 DEF GrowAndParseEntry
  <2> DEFINE t == Rehash(table, GrownLen(table), seed)
  <2>3. GrownLen(table) <= MaxEntries
    <3>1. table.len \in Nat
      BY <1>2, <2>1, TableSize DEF TableInv
    <3>2. next < Len(entries)
      BY <2>1 DEF Reading
    <3> QED
      BY <1>1, <1>2, <2>1, <3>1, <3>2, LargestPower DEF GrownLen
  <2>4. /\ TableInv(t) /\ t.len = table.len /\ t.len < t.soft
        /\ Pairs(t, Live(t)) = Pairs(table, Live(table))
    BY <1>2, <2>1, <2>3, RehashCopies
  <2>5. Store(t, entries[next + 1])
    BY <2>2
  <2> HIDE DEF t
  <2>6. \A c \in Contents : Values(t, c) = Holds(table, c)
    BY <2>1, <2>4, SameValues DEF Holds
  <2>7. ~Full(t) /\ t.len <= next
    <3>1. t.len \in Nat /\ t.soft \in Nat
      BY <1>4, <2>4, TableSize DEF TableInv
    <3> QED
      BY <1>2, <2>1, <2>4, <3>1 DEF Full
  <2> QED
    BY <2>1, <2>4, <2>5, <2>6, <2>7, StoreKeeps DEF EntryRead, Reading
<1>7. CASE NewTable
  <2>1. status = "ok" /\ op = "new" /\ table = Nil
    BY <1>7 DEF NewTable
  <2>2. PICK seed \in Seeds : table' = Fresh(Len(entries), seed)
    BY <1>7 DEF NewTable
  <2>3. UNCHANGED <<op, preload, entries, next, status>>
    BY <1>7 DEF NewTable
  <2> DEFINE t == Fresh(Len(entries), seed)
  <2>4. Len(entries) \in 0 .. MaxEntries
    BY <1>1, LargestPower
  <2>5. /\ TableInv(t) /\ t.len = 0 /\ Len(entries) <= t.soft
        /\ \A c \in Contents : Values(t, c) = {}
    BY <1>3, <2>4, FreshIsTable
  <2>6. table' = t
    BY <2>2
  <2> HIDE DEF t
  <2>7. t # Nil /\ IsTable(t)
    BY <2>5, TableIsNotNil DEF TableInv
  <2>8. SwissInv'
    <3>1. TypeOK'
      BY <2>3, <2>6, <2>7 DEF SwissInv, TypeOK
    <3>2. status' = "ok" /\ table' # Nil /\ TableInv(table') /\ table'.len <= next'
      BY <1>1, <2>1, <2>3, <2>5, <2>6, <2>7
    <3>3. Len(entries') <= table'.soft
      BY <2>3, <2>5, <2>6
    <3> QED
      BY <3>1, <3>2, <3>3 DEF SwissInv
  <2>9. NothingRead
    BY <2>1, <2>3, <2>5, <2>6, <2>7 DEF NothingRead, Holds
  <2> QED
    BY <2>8, <2>9
<1>8. CASE NewEntry
  <2>1. Reading /\ op = "new" /\ table # Nil /\ Store(table, entries[next + 1])
    BY <1>8 DEF NewEntry
  <2>2. ~Full(table)
    <3>1. table.len \in Nat /\ table.soft \in Nat
      BY <1>2, <1>4, <2>1 DEF TableInv
    <3> QED
      BY <1>1, <1>2, <2>1, <3>1 DEF Full, Reading
  <2>3. \A c \in Contents : Values(table, c) = Holds(table, c)
    BY <2>1 DEF Holds
  <2> QED
    BY <1>2, <2>1, <2>2, <2>3, StoreKeeps DEF EntryRead, Reading
<1> QED
  BY <1>5, <1>6, <1>7, <1>8 DEF Next

\* What the field holds is what its readers see.
LEMMA VisibleHolds ==
  ASSUME SwissInv
  PROVE  Visible = [c \in Contents |-> Holds(table, c)]
<1>1. CASE table = Nil
  BY <1>1 DEF Visible, Holds
<1>2. CASE table # Nil
  <2>1. All(table) = Live(table)
    BY <1>2, AllIsLive DEF SwissInv, TableInv
  <2> QED
    BY <1>2, <2>1 DEF Visible, Holds, Values
<1> QED
  BY <1>1, <1>2

\* The same of the state after a step.
LEMMA VisibleHoldsNext ==
  ASSUME SwissInv'
  PROVE  Visible' = [c \in Contents |-> Holds(table', c)]
<1>1. CASE table' = Nil
  BY <1>1 DEF Visible, Holds
<1>2. CASE table' # Nil
  <2>1. All(table') = Live(table')
    BY <1>2, AllIsLive DEF SwissInv, TableInv
  <2> QED
    BY <1>2, <2>1 DEF Visible, Holds, Values
<1> QED
  BY <1>1, <1>2

----------------------------------------------------------------------------
(* Theorems *)

\* The behaviour starts in order.
LEMMA InitSwiss == Init => SwissInv
<1> SUFFICES ASSUME Init PROVE SwissInv
  OBVIOUS
<1>1. PICK in \in Inputs : op = in.op /\ preload = in.preload /\ entries = in.entries
  BY DEF Init
<1>2. next = 0 /\ table = Nil /\ status = "ok"
  BY DEF Init
<1>3. /\ in.op \in {"map", "new"} /\ in.preload \in 0 .. MaxEntries
      /\ in.entries \in Seq([key : Keys, value : Nat]) /\ Len(in.entries) <= MaxEntries
  BY SwissAssumption
<1>4. next \in 0 .. Len(entries)
  BY <1>1, <1>2, <1>3
<1> QED
  BY <1>1, <1>2, <1>3, <1>4 DEF SwissInv, TypeOK

\* Stuttering changes nothing.
LEMMA StutterSwiss == SwissInv /\ UNCHANGED vars => SwissInv'
<1> SUFFICES ASSUME SwissInv, UNCHANGED vars PROVE SwissInv'
  OBVIOUS
<1>1. /\ op' = op /\ preload' = preload /\ entries' = entries
      /\ next' = next /\ table' = table /\ status' = status
  BY DEF vars
<1> QED
  BY <1>1 DEF SwissInv, TypeOK

\* Through every sequence of entries, repeated keys, collisions and growths, the table of
\* a map field, and the one New builds, is in order: each live slot is tagged and mirrored,
\* reachable from its key's hash and the only one of its key; len counts them within the
\* soft capacity; and no Insert wrote through a nil pointer or searched for ever.
THEOREM SwissInvariance == Spec => []SwissInv
<1>1. Init => SwissInv
  BY InitSwiss
<1>2. SwissInv /\ [Next]_vars => SwissInv'
  BY NextKeeps, StutterSwiss
<1> QED
  BY <1>1, <1>2, PTL DEF Spec

\* Sizes stay powers of two, counts within them and control bytes apart from Empty.
THEOREM SwissTypes == Spec => []TypeOK
<1>1. SwissInv => TypeOK
  BY DEF SwissInv
<1> QED
  BY <1>1, SwissInvariance, PTL

\* search terminates, as its comment says, before its assertion on the number of probes
\* fails: the triangular probe sequence comes to every word, and one slot is open.
THEOREM SearchTerminates == Spec => []ProbesEnd
<1>1. SwissInv => ProbesEnd
  <2> SUFFICES ASSUME SwissInv, table # Nil, NEW c \in Contents
               PROVE  Ends(table, c) # {}
    BY DEF ProbesEnd
  <2>1. TableInv(table)
    BY DEF SwissInv
  <2> QED
    BY <2>1, SearchEnds DEF TableInv
<1> QED
  BY <1>1, SwissInvariance, PTL

\* The keys that search compares are those of occupied slots.
THEOREM LiveKeysCompared == Spec => []ComparesLiveKeys
<1>1. SwissInv => ComparesLiveKeys
  <2> SUFFICES ASSUME SwissInv, table # Nil, NEW c \in Contents,
                      NEW s \in 0 .. (table.hard \div CtrlSize) - 1
               PROVE  Candidates(table, Hash[table.seed][c],
                                 ProbeAt(table, Hash[table.seed][c], s)) \subseteq Live(table)
    BY DEF ComparesLiveKeys
  <2>1. IsTable(table) /\ Mirrored(table)
    BY DEF SwissInv, TableInv
  <2>2. s \in Nat
    BY <2>1, TableSize DEF CtrlSize
  <2>3. table.seed \in Seeds
    BY <2>1 DEF IsTable
  <2>4. Hash[table.seed][c] \in Nat
    BY <2>3, HashTypes
  <2>5. ProbeAt(table, Hash[table.seed][c], s) \in 0 .. table.hard - 1
    BY <2>1, <2>2, <2>4, ProbeRange
  <2> QED
    BY <2>1, <2>5, CandidatesLive
<1> QED
  BY <1>1, SwissInvariance, PTL

\* Lookup finds the value of the slot that holds the content, and nothing without one.
LEMMA LookupFinds ==
  ASSUME NEW t, TableInv(t), NEW c \in Contents
  PROVE  /\ \A i \in Live(t) : Content[t.keys[i]] = c => Lookup(t, c) = {t.vals[i]}
         /\ Lookup(t, c) # {} <=> \E i \in Live(t) : Content[t.keys[i]] = c
<1> DEFINE slot == Search(t, c)
           idx == slot.idx
<1>1. IsTable(t) /\ Mirrored(t) /\ Counted(t) /\ KeysDistinct(t)
  BY DEF TableInv
<1>2. t # Nil /\ Ends(t, c) # {}
  BY <1>1, TableIsNotNil, SearchEnds
<1>3. Lookup(t, c) = IF slot.occupied THEN {t.vals[idx]} ELSE {}
  BY <1>2 DEF Lookup
<1>4. /\ slot.occupied \in BOOLEAN
      /\ slot.occupied => idx \in Live(t) /\ Content[t.keys[idx]] = c
      /\ ~slot.occupied => \A i \in Live(t) : Content[t.keys[i]] # c
  BY SearchFinds
<1> HIDE DEF slot, idx
<1>5. CASE slot.occupied
  BY <1>1, <1>3, <1>4, <1>5 DEF KeysDistinct
<1>6. CASE ~slot.occupied
  BY <1>3, <1>4, <1>6
<1> QED
  BY <1>4, <1>5, <1>6

\* Lookup, All and Len agree about every table that the writers leave behind: All yields
\* each key once, with the value that Lookup finds, and Len counts them.
THEOREM ReadersAlwaysAgree == Spec => []ReadersAgree
<1>1. SwissInv => ReadersAgree
  <2> SUFFICES ASSUME SwissInv, table # Nil
               PROVE  /\ \A i \in All(table) :
                           Lookup(table, Content[table.keys[i]]) = {table.vals[i]}
                      /\ Cardinality(All(table)) = table.len
                      /\ Cardinality({Content[table.keys[i]] : i \in All(table)}) = table.len
                      /\ Cardinality({c \in Contents : Lookup(table, c) # {}}) = table.len
    BY DEF ReadersAgree
  <2> DEFINE L == Live(table)
             C == {Content[table.keys[i]] : i \in L}
             f == [i \in L |-> Content[table.keys[i]]]
  <2>1. TableInv(table) /\ IsTable(table) /\ Counted(table) /\ KeysDistinct(table)
    BY DEF SwissInv, TableInv
  <2>2. All(table) = L
    BY <2>1, AllIsLive
  <2>3. \A i \in L : Content[table.keys[i]] \in Contents
    BY <2>1, LiveHash
  <2>4. \A i \in L : Lookup(table, Content[table.keys[i]]) = {table.vals[i]}
    BY <2>1, <2>3, LookupFinds
  <2>5. IsFiniteSet(L) /\ Cardinality(L) = table.len
    BY <2>1, LiveSlots DEF Counted
  <2>6. Cardinality(C) = table.len
    <3>1. f \in [L -> C] /\ \A i, j \in L : f[i] = f[j] => i = j
      BY <2>1 DEF KeysDistinct
    <3>2. \A c \in C : \E i \in L : f[i] = c
      OBVIOUS
    <3> HIDE DEF f, L, C
    <3>3. f \in Bijection(L, C)
      BY <3>1, <3>2 DEF Bijection, Injection, Surjection, IsInjective
    <3>4. ExistsBijection(L, C)
      BY <3>3 DEF ExistsBijection
    <3> QED
      BY <2>5, <3>4, FS_Bijection
  <2>7. {c \in Contents : Lookup(table, c) # {}} = C
    BY <2>1, <2>3, LookupFinds
  <2> QED
    BY <2>2, <2>4, <2>5, <2>6, <2>7
<1> QED
  BY <1>1, SwissInvariance, PTL

\* Reading entries into the table implements the map field: what All yields is, for each
\* key, the value of its last entry.
THEOREM SwissImplements == Spec => Implements
<1>1. Init => Abstract!Init
  <2> SUFFICES ASSUME Init PROVE Abstract!Init
    OBVIOUS
  <2>1. next = 0 /\ table = Nil
    BY DEF Init
  <2>2. Visible = [c \in {Content[k] : k \in DOMAIN Content} |-> {}]
    BY <2>1 DEF Visible, Contents, Keys
  <2> QED
    BY <2>1, <2>2 DEF Abstract!Init
<1>2. SwissInv /\ SwissInv' /\ [Next]_vars =>
        [Abstract!ReadEntry]_<<entries, next, Visible>>
  <2> SUFFICES ASSUME SwissInv, SwissInv', [Next]_vars
               PROVE  Abstract!ReadEntry \/ UNCHANGED <<entries, next, Visible>>
    OBVIOUS
  <2>1. /\ Visible = [c \in Contents |-> Holds(table, c)]
        /\ Visible' = [c \in Contents |-> Holds(table', c)]
    BY VisibleHolds, VisibleHoldsNext
  <2>2. CASE EntryRead
    <3> DEFINE e == entries[next + 1]
    <3>1. e \in [key : Keys, value : Nat]
      BY <2>2 DEF EntryRead
    <3> HIDE DEF e
    <3>2. Content[e.key] \in Contents
      BY <3>1 DEF Contents
    <3>3. \A c \in Contents :
            Holds(table', c) = IF c = Content[e.key] THEN {e.value} ELSE Holds(table, c)
      BY <2>2 DEF EntryRead, e
    <3>4. Visible' = [Visible EXCEPT ![Content[e.key]] = {e.value}]
      BY <2>1, <3>2, <3>3
    <3>5. next < Len(entries) /\ next' = next + 1 /\ entries' = entries
      BY <2>2 DEF EntryRead
    <3> QED
      BY <3>4, <3>5 DEF Abstract!ReadEntry, e
  <2>3. CASE NothingRead
    <3>1. Visible' = Visible
      BY <2>1, <2>3 DEF NothingRead
    <3> QED
      BY <2>3, <3>1 DEF NothingRead
  <2>4. CASE UNCHANGED vars
    BY <2>1, <2>4 DEF vars
  <2> QED
    BY <2>2, <2>3, <2>4, NextKeeps
<1> QED
  BY <1>1, <1>2, SwissInvariance, PTL DEF Spec, Implements, Abstract!Spec
=============================================================================
