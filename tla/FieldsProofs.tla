---------------------------- MODULE FieldsProofs ----------------------------
(***************************************************************************)
(* Proofs about module Fields, for every schema and all records: of the    *)
(* storage of repeated fields, and of what a failure leaves of the fields  *)
(* outside oneofs.                                                         *)
(***************************************************************************)
EXTENDS Fields, Probing, SequenceTheorems

\* What the steps preserve.
FieldsInv == schema \in Schemas /\ RepeatedInv

----------------------------------------------------------------------------
(* Quotients *)

\* One more divisor, one more in the quotient.
LEMMA QuotientNext ==
  ASSUME NEW m \in Nat \ {0}, NEW x \in Nat
  PROVE  (x + m) \div m = (x \div m) + 1
<1> DEFINE a == x \div m
           b == x % m
           c == (x + m) \div m
<1>1. a \in Int /\ c \in Int /\ b \in 0 .. m - 1 /\ x = m * a + b
  OBVIOUS
<1>2. x + m = m * c + ((x + m) % m)
  OBVIOUS
<1>3. x + m = m * (a + 1) + b
  <2>1. m * (a + 1) = m * a + m
    BY <1>1
  <2> QED
    BY <1>1, <2>1
<1> HIDE DEF a, c, b
<1>4. (x + m) % m = b
  BY <1>1, <1>3, ModUnique
<1>5. m * c = m * (a + 1)
  <2> DEFINE d == m * c
             e == m * (a + 1)
  <2>1. d \in Int /\ e \in Int /\ b \in Int
    BY <1>1
  <2>2. x + m = d + b /\ x + m = e + b
    BY <1>2, <1>3, <1>4
  <2> HIDE DEF d, e
  <2>3. d = e
    BY <2>1, <2>2
  <2> QED
    BY <2>3 DEF d, e
<1>6. c = a + 1
  <2>1. m * (c - (a + 1)) = 0
    <3>1. m * (c - (a + 1)) = m * c - m * (a + 1)
      BY <1>1
    <3> QED
      BY <3>1, <1>5, <1>1
  <2> QED
    BY <2>1, <1>1
<1> QED
  BY <1>6 DEF a, c

\* A product fits what is not smaller than it as often as its factor says.
LEMMA QuotientFits ==
  ASSUME NEW m \in Nat \ {0}, NEW n \in Nat, NEW x \in Nat, m * n <= x
  PROVE  x \div m \in Nat /\ n <= x \div m
<1> DEFINE a == x \div m
           b == x % m
<1>1. a \in Int /\ b \in 0 .. m - 1 /\ x = m * a + b
  OBVIOUS
<1> HIDE DEF a, b
<1>2. ~(n > a)
  <2> SUFFICES ASSUME n > a
               PROVE  FALSE
    OBVIOUS
  <2>1. m * n = m * a + m * (n - a)
    BY <1>1
  <2>2. n - a \in Nat /\ n - a >= 1
    BY <1>1
  <2>3. m * (n - a) >= m
    BY <2>2
  <2> DEFINE d == m * a
             e == m * (n - a)
             g == m * n
  <2>4. d \in Int /\ e \in Int /\ g \in Int /\ g = d + e /\ e >= m /\ x = d + b /\ g <= x
    BY <1>1, <2>1, <2>2, <2>3
  <2> HIDE DEF d, e, g
  <2> QED
    BY <2>4, <1>1
<1> QED
  BY <1>1, <1>2 DEF a

----------------------------------------------------------------------------
(* Capacities *)

\* SuggestSize finds a size, and it is large enough.
LEMMA SuggestSizeFacts ==
  ASSUME NEW bytes \in Nat
  PROVE  SuggestSize(bytes) \in Nat /\ bytes <= SuggestSize(bytes)
<1> DEFINE Value(e, i) == IF i = 0 THEN MinSize ELSE 2 * e[i - 1]
           step == [x \in (1 .. bytes) \X Nat |-> 2 * x[2]]
<1>1. MinSize \in Nat /\ MinSize > 0
  BY SizeAssumption
<1>2. PICK f \in [0 .. bytes -> Nat] :
        f[0] = MinSize /\ \A i \in 1 .. bytes : f[i] = step[<<i, f[i - 1]>>]
  <2>1. step \in [(1 .. bytes) \X Nat -> Nat]
    OBVIOUS
  <2> HIDE DEF step
  <2>2. IsStep(Nat, MinSize, bytes, step)
    BY <1>1, <2>1 DEF IsStep
  <2>3. HasFunction(Nat, MinSize, bytes, step)
    BY <2>2, RecursiveFunction
  <2> QED
    BY <2>3 DEF HasFunction
<1>3. \A i \in 0 .. bytes : f[i] = Value(f, i)
  <2>1. ASSUME NEW i \in 1 .. bytes
        PROVE  f[i] = Value(f, i)
    <3>1. i - 1 \in 0 .. bytes /\ f[i - 1] \in Nat
      BY <1>2
    <3>2. <<i, f[i - 1]>> \in (1 .. bytes) \X Nat
      BY <3>1
    <3> QED
      BY <3>2, <1>2
  <2>2. f[0] = Value(f, 0)
    BY <1>2
  <2>3. \A i \in 0 .. bytes : i = 0 \/ i \in 1 .. bytes
    OBVIOUS
  <2> HIDE DEF Value
  <2> QED
    BY <2>1, <2>2, <2>3
<1>4. f = [i \in 0 .. bytes |-> Value(f, i)]
  BY <1>2, <1>3
<1> DEFINE sizes == CHOOSE e : e = [i \in 0 .. bytes |-> Value(e, i)]
<1>5. sizes = [i \in 0 .. bytes |-> Value(sizes, i)]
  BY <1>4
<1> HIDE DEF sizes
<1>6. sizes[0] = MinSize /\ \A i \in 1 .. bytes : sizes[i] = 2 * sizes[i - 1]
  BY <1>5
<1> DEFINE S == {i \in Nat : i <= bytes => sizes[i] \in Nat /\ sizes[i] > i}
<1>7. 0 \in S
  BY <1>1, <1>6
<1>8. ASSUME NEW k \in Nat, k \in S
      PROVE  k + 1 \in S
  <2> SUFFICES ASSUME k + 1 <= bytes
               PROVE  sizes[k + 1] \in Nat /\ sizes[k + 1] > k + 1
    OBVIOUS
  <2>1. k <= bytes /\ sizes[k] \in Nat /\ sizes[k] > k
    BY <1>8
  <2>2. k + 1 \in 1 .. bytes /\ (k + 1) - 1 = k
    OBVIOUS
  <2>3. sizes[k + 1] = 2 * sizes[k]
    BY <2>2, <1>6
  <2> QED
    BY <2>1, <2>3
<1>9. \A i \in Nat : i \in S
  <2> HIDE DEF S
  <2> QED
    BY <1>7, <1>8, SetInduction
<1>10. \A i \in 0 .. bytes : sizes[i] \in Nat /\ sizes[i] > i
  BY <1>9
<1> HIDE DEF S
<1> DEFINE Large == {i \in 0 .. bytes : sizes[i] >= bytes}
<1>11. PICK l \in Large : \A k \in Large : l <= k
  <2>1. bytes \in Large /\ Large \subseteq Nat
    BY <1>10
  <2> HIDE DEF Large
  <2> QED
    BY <2>1, LeastOfNats
<1>12. l \in 0 .. bytes /\ sizes[l] >= bytes /\ (l = 0 \/ sizes[l - 1] < bytes)
  <2>1. l \in 0 .. bytes /\ sizes[l] >= bytes
    BY <1>11
  <2>2. CASE l # 0
    <3>1. l - 1 \in 0 .. bytes /\ l - 1 \notin Large
      BY <1>11, <2>2
    <3>2. sizes[l - 1] \in Nat
      BY <3>1, <1>10
    <3> QED
      BY <3>1, <3>2, <2>1
  <2> QED
    BY <2>1, <2>2
<1> HIDE DEF Large
<1> DEFINE c == CHOOSE i \in 0 .. bytes : sizes[i] >= bytes /\ (i = 0 \/ sizes[i - 1] < bytes)
<1>13. c \in 0 .. bytes /\ sizes[c] >= bytes
  BY <1>12
<1>14. SuggestSize(bytes) = IF bytes = 0 THEN 0 ELSE sizes[c]
  BY DEF SuggestSize, sizes
<1> HIDE DEF c
<1> QED
  BY <1>10, <1>13, <1>14

\* The types of list elements, and of pointers and ranges.
ElementTypes == {uint8, uint32, uint64, zcRange, pointer}

LEMMA SizeOfType ==
  ASSUME NEW T \in ElementTypes
  PROVE  Size(T) \in Nat \ {0}
<1> DEFINE m == Bits8
<1>1. Bits8 \in Nat /\ Bits8 > 1 /\ Bits32 \in Nat /\ Bits64 \in Nat /\ Bits8 <= Bits32 /\ Bits8 <= Bits64
  BY WidthAssumption
<1>2. ASSUME NEW b \in Nat, m <= b
      PROVE  b \div m \in Nat \ {0}
  <2>1. m * 1 <= b
    BY <1>1, <1>2
  <2>2. b \div m \in Nat /\ 1 <= b \div m
    BY <2>1, <1>1, QuotientFits
  <2> QED
    BY <2>2
<1>3. T.bits \in {Bits8, Bits32, Bits64}
  BY DEF ElementTypes, uint8, uint32, uint64, zcRange, pointer
<1> QED
  BY <1>1, <1>2, <1>3 DEF Size

\* The capacity asked for is there.
LEMMA CapForFacts ==
  ASSUME NEW T \in ElementTypes, NEW n \in Nat
  PROVE  CapFor(T, n) \in Nat /\ n <= CapFor(T, n)
<1>1. PICK m \in Nat \ {0} : m = Size(T)
  BY SizeOfType
<1>2. m * n \in Nat
  BY <1>1
<1>3. PICK x \in Nat : x = SuggestSize(m * n) /\ m * n <= x
  BY <1>2, SuggestSizeFacts
<1>4. x \div m \in Nat /\ n <= x \div m
  BY <1>3, QuotientFits
<1> QED
  BY <1>1, <1>3, <1>4 DEF CapFor

----------------------------------------------------------------------------
(* Totals *)

\* Total adds up from the left.
LEMMA TotalFacts ==
  ASSUME NEW n \in Nat, NEW ns \in [1 .. n -> Nat]
  PROVE  \E t \in [0 .. n -> Nat] :
           t[0] = 0 /\ (\A i \in 1 .. n : t[i] = t[i - 1] + ns[i]) /\ Total(ns) = t[n]
<1> DEFINE Value(e, i) == IF i = 0 THEN 0 ELSE e[i - 1] + ns[i]
           step == [x \in (1 .. n) \X Nat |-> x[2] + ns[x[1]]]
<1>1. ns \in Seq(Nat) /\ Len(ns) = n
  OBVIOUS
<1>2. PICK f \in [0 .. n -> Nat] :
        f[0] = 0 /\ \A i \in 1 .. n : f[i] = step[<<i, f[i - 1]>>]
  <2>1. step \in [(1 .. n) \X Nat -> Nat]
    OBVIOUS
  <2> HIDE DEF step
  <2>2. IsStep(Nat, 0, n, step)
    BY <2>1 DEF IsStep
  <2>3. HasFunction(Nat, 0, n, step)
    BY <2>2, RecursiveFunction
  <2> QED
    BY <2>3 DEF HasFunction
<1>3. \A i \in 0 .. n : f[i] = Value(f, i)
  <2>1. ASSUME NEW i \in 1 .. n
        PROVE  f[i] = Value(f, i)
    <3>1. i - 1 \in 0 .. n /\ f[i - 1] \in Nat
      BY <1>2
    <3>2. <<i, f[i - 1]>> \in (1 .. n) \X Nat
      BY <3>1
    <3> QED
      BY <3>2, <1>2
  <2>2. f[0] = Value(f, 0)
    BY <1>2
  <2>3. \A i \in 0 .. n : i = 0 \/ i \in 1 .. n
    OBVIOUS
  <2> HIDE DEF Value
  <2> QED
    BY <2>1, <2>2, <2>3
<1>4. f = [i \in 0 .. n |-> Value(f, i)]
  BY <1>2, <1>3
<1> DEFINE t == CHOOSE e : e = [i \in 0 .. n |-> Value(e, i)]
<1>5. t = [i \in 0 .. n |-> Value(t, i)]
  BY <1>4
<1>6. Total(ns) = t[n]
  BY <1>1 DEF Total
<1> HIDE DEF t
<1>7. t[0] = 0 /\ \A i \in 1 .. n : t[i] = t[i - 1] + ns[i]
  BY <1>5
<1> DEFINE S == {i \in Nat : i <= n => t[i] \in Nat}
<1>8. 0 \in S
  BY <1>7
<1>9. ASSUME NEW k \in Nat, k \in S
      PROVE  k + 1 \in S
  <2> SUFFICES ASSUME k + 1 <= n
               PROVE  t[k + 1] \in Nat
    OBVIOUS
  <2>1. k + 1 \in 1 .. n /\ (k + 1) - 1 = k /\ k <= n
    OBVIOUS
  <2>2. t[k + 1] = t[k] + ns[k + 1] /\ t[k] \in Nat /\ ns[k + 1] \in Nat
    BY <2>1, <1>7, <1>9
  <2> QED
    BY <2>2
<1>10. \A i \in Nat : i \in S
  <2> HIDE DEF S
  <2> QED
    BY <1>8, <1>9, SetInduction
<1>11. t \in [0 .. n -> Nat]
  <2>1. \A i \in 0 .. n : t[i] \in Nat
    BY <1>10
  <2>2. t = [i \in 0 .. n |-> t[i]]
    BY <1>5
  <2> HIDE DEF S, Value
  <2> QED
    BY <2>1, <2>2
<1> QED
  BY <1>6, <1>7, <1>11

\* In a packed record whose varints end, as many bytes as varints have no sign bit.
LEMMA PackedCount ==
  ASSUME NEW els, IsSeq(els),
         \A j \in DOMAIN els : els[j].len \in Nat \ {0} /\ els[j].ends \in BOOLEAN
  PROVE  /\ Len(els) \in Nat /\ ByteLen(els) \in Nat /\ SignBytes(els) \in Nat
         /\ els # <<>> <=> ByteLen(els) > 0
         /\ (\A j \in DOMAIN els : els[j].ends) => ByteLen(els) - SignBytes(els) = Len(els)
<1> DEFINE a == [j \in DOMAIN els |-> els[j].len]
           b == [j \in DOMAIN els |-> IF els[j].ends THEN els[j].len - 1 ELSE els[j].len]
<1>1. PICK n \in Nat : n = Len(els) /\ DOMAIN els = 1 .. n
  BY DEF IsSeq
<1>2. a \in [1 .. n -> Nat] /\ b \in [1 .. n -> Nat]
  BY <1>1
<1>3. \A j \in 1 .. n : a[j] > 0 /\ (els[j].ends => a[j] = b[j] + 1)
  BY <1>1
<1>4. ByteLen(els) = Total(a) /\ SignBytes(els) = Total(b)
  BY DEF ByteLen, SignBytes
<1> HIDE DEF a, b
<1>5. PICK t \in [0 .. n -> Nat] :
        t[0] = 0 /\ (\A i \in 1 .. n : t[i] = t[i - 1] + a[i]) /\ Total(a) = t[n]
  BY <1>2, TotalFacts
<1>6. PICK u \in [0 .. n -> Nat] :
        u[0] = 0 /\ (\A i \in 1 .. n : u[i] = u[i - 1] + b[i]) /\ Total(b) = u[n]
  BY <1>2, TotalFacts
<1>7. n > 0 => t[n] > 0
  <2> SUFFICES ASSUME n > 0
               PROVE  t[n] > 0
    OBVIOUS
  <2>1. n \in 1 .. n /\ n - 1 \in 0 .. n
    OBVIOUS
  <2>2. t[n] = t[n - 1] + a[n] /\ t[n - 1] \in Nat /\ a[n] \in Nat /\ a[n] > 0
    BY <2>1, <1>2, <1>3, <1>5
  <2> QED
    BY <2>2
<1>8. ASSUME \A j \in 1 .. n : els[j].ends
      PROVE  t[n] - u[n] = n
  <2> DEFINE S == {i \in Nat : i <= n => t[i] = u[i] + i}
  <2>1. 0 \in S
    BY <1>5, <1>6
  <2>2. ASSUME NEW k \in Nat, k \in S
        PROVE  k + 1 \in S
    <3> SUFFICES ASSUME k + 1 <= n
                 PROVE  t[k + 1] = u[k + 1] + (k + 1)
      OBVIOUS
    <3>1. k + 1 \in 1 .. n /\ (k + 1) - 1 = k /\ k \in 0 .. n
      OBVIOUS
    <3>2. t[k] = u[k] + k
      BY <2>2, <3>1
    <3>3. t[k + 1] = t[k] + a[k + 1] /\ u[k + 1] = u[k] + b[k + 1]
      BY <3>1, <1>5, <1>6
    <3>4. a[k + 1] = b[k + 1] + 1 /\ b[k + 1] \in Nat /\ u[k] \in Nat
      BY <3>1, <1>2, <1>3, <1>6, <1>8
    <3>5. PICK q \in Nat, c \in Nat : q = u[k] /\ c = b[k + 1]
      BY <3>4
    <3>6. t[k + 1] = (q + k) + (c + 1) /\ u[k + 1] = q + c
      BY <3>2, <3>3, <3>4, <3>5
    <3> QED
      BY <3>6
  <2> HIDE DEF S
  <2>3. n \in S
    BY <2>1, <2>2, SetInduction
  <2>4. t[n] = u[n] + n /\ u[n] \in Nat
    BY <2>3, <1>6 DEF S
  <2> QED
    BY <2>4
<1>9. els # <<>> <=> n > 0
  BY <1>1 DEF IsSeq
<1>10. t[n] \in Nat /\ u[n] \in Nat
  BY <1>5, <1>6
<1> QED
  BY <1>1, <1>4, <1>5, <1>6, <1>7, <1>8, <1>9, <1>10

----------------------------------------------------------------------------
(* Sequences and lists *)

LEMMA ValuesAreSeq ==
  ASSUME NEW n \in Nat, NEW s, s = [i \in 1 .. n |-> s[i]]
  PROVE  IsSeq(s) /\ Len(s) = n
<1> DEFINE T == {s[i] : i \in DOMAIN s}
<1>1. s \in [1 .. n -> T]
  OBVIOUS
<1>2. s \in Seq(T) /\ Len(s) = n
  BY <1>1
<1> QED
  BY <1>2 DEF IsSeq, ToSet

LEMMA ConcatIsSeq ==
  ASSUME NEW s, NEW u, IsSeq(s), IsSeq(u)
  PROVE  /\ Len(s) \in Nat /\ Len(u) \in Nat
         /\ IsSeq(s \o u) /\ Len(s \o u) = Len(s) + Len(u)
         /\ \A i \in 1 .. Len(s) : (s \o u)[i] = s[i]
<1> DEFINE T == ToSet(s) \cup ToSet(u)
<1>1. s \in Seq(T) /\ u \in Seq(T)
  <2>1. \A S : S \subseteq T => \A q \in Seq(S) : q \in Seq(T)
    OBVIOUS
  <2> QED
    BY <2>1 DEF IsSeq
<1> HIDE DEF T
<1>2. s \o u \in Seq(T) /\ Len(s \o u) = Len(s) + Len(u) /\ Len(s) \in Nat /\ Len(u) \in Nat
      /\ \A i \in 1 .. Len(s) : (s \o u)[i] = s[i]
  BY <1>1
<1>3. PICK n \in Nat : n = Len(s \o u)
  BY <1>2
<1>5. IsSeq(s \o u)
  <2> DEFINE q == s \o u
  <2>0. q \in Seq(T) /\ Len(q) = n
    BY <1>2, <1>3
  <2> HIDE DEF q
  <2>1. q = [i \in 1 .. n |-> q[i]]
    BY <2>0
  <2>2. IsSeq(q)
    BY <2>1, ValuesAreSeq
  <2> QED
    BY <2>2 DEF q
<1> QED
  BY <1>2, <1>5

LEMMA OneIsSeq ==
  ASSUME NEW x
  PROVE  IsSeq(<<x>>) /\ Len(<<x>>) = 1
BY DEF IsSeq, ToSet

LEMMA AppendIsSeq ==
  ASSUME NEW s, NEW x, IsSeq(s)
  PROVE  /\ Len(s) \in Nat /\ IsSeq(Append(s, x)) /\ Len(Append(s, x)) = Len(s) + 1
         /\ \A i \in 1 .. Len(s) : Append(s, x)[i] = s[i]
         /\ Append(s, x)[Len(s) + 1] = x
<1> DEFINE T == ToSet(s) \cup {x}
           q == Append(s, x)
<1>1. s \in Seq(T) /\ x \in T
  <2>1. \A S : S \subseteq T => \A p \in Seq(S) : p \in Seq(T)
    OBVIOUS
  <2> QED
    BY <2>1 DEF IsSeq
<1> HIDE DEF T
<1>2. /\ q \in Seq(T) /\ Len(s) \in Nat /\ Len(q) = Len(s) + 1
      /\ \A i \in 1 .. Len(s) : q[i] = s[i]
      /\ q[Len(s) + 1] = x
  BY <1>1
<1> HIDE DEF q
<1>3. q = [i \in 1 .. Len(s) + 1 |-> q[i]]
  BY <1>2
<1>4. IsSeq(q)
  BY <1>2, <1>3, ValuesAreSeq
<1> QED
  BY <1>2, <1>4 DEF q

\* What EXCEPT makes of a list.
LEMMA ListExcept ==
  ASSUME NEW s, s = [mode |-> s.mode, elems |-> s.elems, cap |-> s.cap], NEW m, NEW e, NEW c
  PROVE  /\ [s EXCEPT !.mode = m, !.cap = c] = [mode |-> m, elems |-> s.elems, cap |-> c]
         /\ [s EXCEPT !.elems = e] = [mode |-> s.mode, elems |-> e, cap |-> s.cap]
<1>1. PICK a, b, d : s = [mode |-> a, elems |-> b, cap |-> d]
  OBVIOUS
<1>2. s.mode = a /\ s.elems = b /\ s.cap = d
  BY <1>1
<1> DEFINE x == [mode |-> a, elems |-> b, cap |-> d]
<1>3. /\ [x EXCEPT !.mode = m, !.cap = c] = [mode |-> m, elems |-> b, cap |-> c]
      /\ [x EXCEPT !.elems = e] = [mode |-> a, elems |-> e, cap |-> d]
  <2>1. [x EXCEPT !.elems = e] = [mode |-> a, elems |-> e, cap |-> d]
    OBVIOUS
  <2>2. [x EXCEPT !.mode = m] = [mode |-> m, elems |-> b, cap |-> d]
    OBVIOUS
  <2>3. [[mode |-> m, elems |-> b, cap |-> d] EXCEPT !.cap = c] = [mode |-> m, elems |-> b, cap |-> c]
    OBVIOUS
  <2> QED
    BY <2>1, <2>2, <2>3
<1>4. s = x
  BY <1>1
<1> HIDE DEF x
<1> QED
  BY <1>2, <1>3, <1>4

\* Growing makes room ...
LEMMA GrownFacts ==
  ASSUME NEW T \in ElementTypes, NEW s, IsList(s), NEW n \in Int, s.cap + n \in Nat, Len(s.elems) <= s.cap + n
  PROVE  LET g == Grown(T, s, n)
         IN  /\ IsList(g) /\ g.mode = "arena" /\ g.elems = s.elems /\ s.cap + n <= g.cap
<1>1. CapFor(T, s.cap + n) \in Nat /\ s.cap + n <= CapFor(T, s.cap + n)
  BY CapForFacts
<1> DEFINE g == Grown(T, s, n)
<1>2. g.mode = "arena" /\ g.elems = s.elems /\ g.cap = CapFor(T, s.cap + n)
      /\ g = [mode |-> g.mode, elems |-> g.elems, cap |-> g.cap]
  <2>1. g = [mode |-> "arena", elems |-> s.elems, cap |-> CapFor(T, s.cap + n)]
    BY ListExcept DEF Grown, IsList
  <2> HIDE DEF g
  <2> QED
    BY <2>1
<1> HIDE DEF g
<1>3. Len(g.elems) \in Nat
  BY <1>2 DEF IsList, IsSeq
<1>4. IsList(g) /\ s.cap + n <= g.cap
  BY <1>1, <1>2, <1>3 DEF IsList
<1> QED
  BY <1>2, <1>4 DEF g

\* ... and so does moving a borrowed list to the arena.
LEMMA SpilledFacts ==
  ASSUME NEW T \in ElementTypes, NEW s, IsList(s), NEW n \in Nat
  PROVE  LET g == Spilled(T, s, n)
         IN  /\ IsList(g) /\ g.mode = "arena"
             /\ Len(g.elems) = Len(s.elems) /\ Len(s.elems) + n <= g.cap
<1>1. PICK l \in Nat : l = Len(s.elems) /\ DOMAIN s.elems = 1 .. l
  BY DEF IsList, IsSeq
<1>2. CapFor(T, l + n) \in Nat /\ l + n <= CapFor(T, l + n)
  BY CapForFacts
<1> DEFINE g == Spilled(T, s, n)
<1>3. g.mode = "arena" /\ g.cap = CapFor(T, l + n)
      /\ g.elems = [i \in 1 .. l |-> Trunc(T, s.elems[i])]
      /\ g = [mode |-> g.mode, elems |-> g.elems, cap |-> g.cap]
  BY <1>1 DEF Spilled
<1> HIDE DEF g
<1>4. g.elems = [i \in 1 .. l |-> g.elems[i]]
  BY <1>3
<1>5. IsSeq(g.elems) /\ Len(g.elems) = l
  BY <1>4, ValuesAreSeq
<1>6. IsList(g) /\ g.mode = "arena" /\ Len(g.elems) = l /\ l + n <= g.cap
  BY <1>2, <1>3, <1>5 DEF IsList
<1> QED
  BY <1>1, <1>6 DEF g

\* Elements written into room that is there.
LEMMA WrittenFacts ==
  ASSUME NEW s, IsList(s), NEW u, IsSeq(u), Len(s.elems) + Len(u) <= s.cap
  PROVE  LET g == [s EXCEPT !.elems = @ \o u]
         IN  IsList(g) /\ g.mode = s.mode /\ Len(g.elems) = Len(s.elems) + Len(u)
<1>1. IsSeq(s.elems \o u) /\ Len(s.elems \o u) = Len(s.elems) + Len(u)
  BY ConcatIsSeq DEF IsList
<1> DEFINE g == [s EXCEPT !.elems = @ \o u]
<1>2. g.mode = s.mode /\ g.cap = s.cap /\ g.elems = s.elems \o u
      /\ g = [mode |-> g.mode, elems |-> g.elems, cap |-> g.cap]
  <2>1. g = [mode |-> s.mode, elems |-> s.elems \o u, cap |-> s.cap]
    BY ListExcept DEF IsList
  <2> HIDE DEF g
  <2> QED
    BY <2>1
<1> HIDE DEF g
<1>3. IsList(g) /\ g.mode = s.mode /\ Len(g.elems) = Len(s.elems) + Len(u)
  BY <1>1, <1>2 DEF IsList
<1> QED
  BY <1>3 DEF g

\* Appending to a list of the arena, or to a full one.
LEMMA AppendAllFacts ==
  ASSUME NEW T \in ElementTypes, NEW s, IsList(s), NEW u, IsSeq(u), Len(u) > 0,
         s.mode = "arena" \/ s.cap = Len(s.elems)
  PROVE  IsList(AppendAll(T, s, u)) /\ AppendAll(T, s, u).mode = "arena"
<1>1. PICK l \in Nat, k \in Nat : l = Len(s.elems) /\ k = Len(u) /\ s.cap \in Nat /\ l <= s.cap /\ k > 0
  BY DEF IsList, IsSeq
<1>2. CASE s.cap - l < k
  <2> DEFINE g == Grown(T, s, k)
  <2>1. IsList(g) /\ g.mode = "arena" /\ g.elems = s.elems /\ s.cap + k <= g.cap
    BY <1>1, GrownFacts
  <2>2. AppendAll(T, s, u) = [g EXCEPT !.elems = @ \o u]
    BY <1>1, <1>2 DEF AppendAll
  <2> HIDE DEF g
  <2>3. g.cap \in Nat /\ Len(g.elems) + Len(u) <= g.cap
    BY <2>1, <1>1 DEF IsList
  <2> QED
    BY <2>1, <2>2, <2>3, WrittenFacts
<1>3. CASE ~(s.cap - l < k)
  <2>1. s.mode = "arena" /\ Len(s.elems) + Len(u) <= s.cap
    BY <1>1, <1>3
  <2>2. AppendAll(T, s, u) = [s EXCEPT !.elems = @ \o u]
    BY <1>1, <1>3 DEF AppendAll
  <2> QED
    BY <2>1, <2>2, WrittenFacts
<1> QED
  BY <1>2, <1>3

\* parsePackedVarint has room for what it counted.
LEMMA ReservedFacts ==
  ASSUME NEW T \in ElementTypes, NEW s, IsList(s), s.mode \in {"nil", "zc", "arena"}, NEW n \in Nat
  PROVE  LET g == Reserved(T, s, n)
         IN  IsList(g) /\ g.mode = "arena" /\ Len(g.elems) + n <= g.cap
<1>1. PICK l \in Nat : l = Len(s.elems) /\ s.cap \in Nat /\ l <= s.cap
  BY DEF IsList, IsSeq
<1>2. CASE s.mode = "zc"
  <2>1. Reserved(T, s, n) = Spilled(T, s, n)
    BY <1>2 DEF Reserved
  <2> QED
    BY <2>1, <1>1, SpilledFacts
<1>3. CASE s.mode # "zc" /\ (s.mode = "nil" \/ s.cap - l < n)
  <2> DEFINE m == n - (s.cap - l)
  <2>1. Reserved(T, s, n) = Grown(T, s, m)
    BY <1>1, <1>3 DEF Reserved
  <2>2. m \in Int /\ s.cap + m = l + n
    BY <1>1
  <2> HIDE DEF m
  <2>3. IsList(Grown(T, s, m)) /\ Grown(T, s, m).mode = "arena"
        /\ Grown(T, s, m).elems = s.elems /\ s.cap + m <= Grown(T, s, m).cap
    BY <2>2, <1>1, GrownFacts
  <2> QED
    BY <2>1, <2>2, <2>3, <1>1
<1>4. CASE s.mode = "arena" /\ ~(s.cap - l < n)
  <2>1. Reserved(T, s, n) = s
    BY <1>1, <1>4 DEF Reserved
  <2> QED
    BY <2>1, <1>1, <1>4
<1> QED
  BY <1>2, <1>3, <1>4

----------------------------------------------------------------------------
(* The tables and the records *)

MessageThunks == {"repeatedMessage"}
ListThunks ==
  {"repeatedVarint", "packedVarint", "appendFixed", "packedFixed", "repeatedBytes", "repeatedUTF8"}

\* Thunks of lists, by whether they read packed records.
ListThunk(kind, p) ==
  /\ p.thunk.T \in ElementTypes /\ p.thunk.parse \in ListThunks
  /\ p.thunk.parse \in {"packedVarint", "packedFixed"} <=> p.kind = "packed"
  /\ p.thunk.parse = "packedVarint" => kind \notin FixedKinds
  /\ kind \in StringKinds => p.thunk.parse \in {"repeatedBytes", "repeatedUTF8"}
  /\ p.thunk.parse = "packedFixed" => kind \in FixedKinds /\ p.thunk.T.bits = Width[kind]

\* The parsers that the archetypes of repeated fields have.
LEMMA RepeatedThunks ==
  ASSUME NEW fd, fd.card = "repeated", fd.kind \in Kinds, NEW p \in SelectArchetype(fd).parsers
  PROVE  /\ fd.kind \in MessageKinds => p.thunk.parse = "repeatedMessage"
         /\ fd.kind \notin MessageKinds => ListThunk(fd.kind, p)
<1>1. p \in repeatedFields[fd.kind].parsers
  BY DEF SelectArchetype
<1> DEFINE k == fd.kind
<1>2. CASE k \in {"Int32", "Uint32", "Sint32", "Enum"}
  <2>1. p \in {Parser("packed", parsePackedVarint32), Parser("varint", parseRepeatedVarint32)}
    BY <1>1, <1>2 DEF repeatedFields, Varints32, Both
  <2> QED
    BY <2>1, <1>2 DEF Parser, parsePackedVarint32, parseRepeatedVarint32, Thunk, ListThunk, ListThunks,
                      ElementTypes, FixedKinds, StringKinds, MessageKinds
<1>3. CASE k \in {"Int64", "Uint64", "Sint64"}
  <2>1. p \in {Parser("packed", parsePackedVarint64), Parser("varint", parseRepeatedVarint64)}
    BY <1>1, <1>3 DEF repeatedFields, Varints64, Both
  <2> QED
    BY <2>1, <1>3 DEF Parser, parsePackedVarint64, parseRepeatedVarint64, Thunk, ListThunk, ListThunks,
                      ElementTypes, FixedKinds, StringKinds, MessageKinds
<1>4. CASE k = "Bool"
  <2>1. p \in {Parser("packed", parsePackedVarint8), Parser("varint", parseRepeatedVarint8)}
    BY <1>1, <1>4 DEF repeatedFields, Both
  <2> QED
    BY <2>1, <1>4 DEF Parser, parsePackedVarint8, parseRepeatedVarint8, Thunk, ListThunk, ListThunks,
                      ElementTypes, FixedKinds, StringKinds, MessageKinds
<1>5. CASE k \in {"Fixed32", "Sfixed32", "Float"}
  <2>1. p \in {Parser("packed", parsePackedFixed32), Parser("fixed32", appendFixed32)}
    BY <1>1, <1>5 DEF repeatedFields, Fixeds32, Both
  <2>2. Width[k] = uint32.bits
    BY <1>5 DEF Width, uint32
  <2> QED
    BY <2>1, <2>2, <1>5 DEF Parser, parsePackedFixed32, appendFixed32, Thunk, ListThunk, ListThunks,
                      ElementTypes, FixedKinds, StringKinds, MessageKinds
<1>6. CASE k \in {"Fixed64", "Sfixed64", "Double"}
  <2>1. p \in {Parser("packed", parsePackedFixed64), Parser("fixed64", appendFixed64)}
    BY <1>1, <1>6 DEF repeatedFields, Fixeds64, Both
  <2>2. Width[k] = uint64.bits
    BY <1>6 DEF Width, uint64
  <2> QED
    BY <2>1, <2>2, <1>6 DEF Parser, parsePackedFixed64, appendFixed64, Thunk, ListThunk, ListThunks,
                      ElementTypes, FixedKinds, StringKinds, MessageKinds
<1>7. CASE k \in {"String", "proto2String", "Bytes"}
  <2>1. p \in {Parser("bytes", parseRepeatedUTF8), Parser("bytes", parseRepeatedBytes)}
    BY <1>1, <1>7 DEF repeatedFields, Archetype
  <2> QED
    BY <2>1, <1>7 DEF Parser, parseRepeatedUTF8, parseRepeatedBytes, Thunk, ListThunk, ListThunks,
                      ElementTypes, FixedKinds, StringKinds, MessageKinds
<1>8. CASE k \in MessageKinds
  <2>1. p \in {Parser("bytes", parseRepeatedMessage), Parser("group", parseRepeatedGroup)}
    BY <1>1, <1>8 DEF repeatedFields, Archetype, MessageKinds
  <2> QED
    BY <2>1, <1>8 DEF Parser, parseRepeatedMessage, parseRepeatedGroup, Thunk
<1> QED
  BY <1>2, <1>3, <1>4, <1>5, <1>6, <1>7, <1>8 DEF Kinds, ScalarKinds, StringKinds, MessageKinds

\* A repeated field is the only one, and its records are in order.
LEMMA SchemaFacts ==
  ASSUME FieldsInv, NEW f \in DOMAIN schema.fields, RepeatedField(f)
  PROVE  /\ DOMAIN schema.fields = {f} /\ SlotOf(f) = f
         /\ schema.fields[f].kind \in Kinds /\ schema.fields[f].preload \in Nat
         /\ \A r \in Records(schema.fields[f]) : IsRecord(schema.fields[f], r)
<1>1. IsSchema(schema) /\ \A r \in Records(schema.fields[f]) : IsRecord(schema.fields[f], r)
  BY RecordsAssumption DEF FieldsInv, RepeatedInv
<1>2. schema.fields[f].card = "repeated"
  BY DEF RepeatedField
<1>3. DOMAIN schema.fields = {f}
  BY <1>1, <1>2 DEF IsSchema
<1>4. schema.fields[f].kind \in Kinds /\ schema.fields[f].preload \in Nat
  <2> DEFINE F == [card : {"singular", "optional", "oneof", "repeated", "map"},
                   kind : Kinds, key : STRING, preload : Nat]
  <2>1. schema.fields \in Seq(F)
    BY <1>1 DEF IsSchema
  <2> HIDE DEF F
  <2>2. schema.fields[f] \in F
    BY <2>1
  <2> QED
    BY <2>2 DEF F
<1> QED
  BY <1>1, <1>2, <1>3, <1>4 DEF SlotOf

IsFull(r) == r.ok /\ r.wt = "packed" /\ r.els # <<>>

\* What a record does to the packed records seen so far.
LEMMA WireStep ==
  ASSUME IsSeq(wire), NEW f, NEW r, {"wt", "ok", "els"} \subseteq DOMAIN r,
         wire' = Append(wire, WithField(r, f))
  PROVE  /\ IsSeq(wire')
         /\ ~IsFull(r) => FullRecords' = FullRecords
         /\ FullRecords # {} =>
              FullRecords' # {} /\ ValuesAt(Min(FullRecords))' = ValuesAt(Min(FullRecords))
         /\ FullRecords = {} /\ IsFull(r) =>
              /\ FullRecords' # {}
              /\ ValuesAt(Min(FullRecords))' = [j \in DOMAIN r.els |-> r.els[j].v]
<1> DEFINE x == WithField(r, f)
           n == Len(wire) + 1
<1>1. x.ok = r.ok /\ x.wt = r.wt /\ x.els = r.els
  <2>1. x = [d \in DOMAIN r \cup {"field"} |-> IF d = "field" THEN f ELSE r[d]]
    BY DEF WithField
  <2> HIDE DEF x
  <2> QED
    BY <2>1
<1> HIDE DEF x
<1>2. /\ IsSeq(wire') /\ Len(wire) \in Nat /\ Len(wire') = n
      /\ (\A i \in 1 .. Len(wire) : wire'[i] = wire[i]) /\ wire'[n] = x
  BY AppendIsSeq DEF x
<1>3. DOMAIN wire = 1 .. Len(wire) /\ DOMAIN wire' = 1 .. n
  BY <1>2 DEF IsSeq
<1>4. FullRecords' = FullRecords \cup {i \in {n} : IsFull(r)}
  BY <1>1, <1>2, <1>3 DEF FullRecords, IsFull
<1>5. FullRecords \subseteq 1 .. Len(wire)
  BY <1>3 DEF FullRecords
<1>6. ASSUME FullRecords # {}
      PROVE  FullRecords' # {} /\ ValuesAt(Min(FullRecords))' = ValuesAt(Min(FullRecords))
  <2>0. FullRecords \subseteq Nat
    BY <1>2, <1>5
  <2>1. PICK l \in FullRecords : \A k \in FullRecords : l <= k
    BY <2>0, <1>6, LeastOfNats
  <2>2. Min(FullRecords) \in FullRecords /\ \A k \in FullRecords : Min(FullRecords) <= k
    BY <2>1 DEF Min
  <2> DEFINE m == Min(FullRecords)
             o == Min(FullRecords')
  <2>3. m \in FullRecords' /\ \A k \in FullRecords' : m <= k
    <3>1. m \in FullRecords /\ m \in 1 .. Len(wire) /\ \A k \in FullRecords : m <= k
      BY <2>2, <1>5
    <3> HIDE DEF m
    <3>2. m <= n
      BY <3>1, <1>2
    <3> QED
      BY <3>1, <3>2, <1>4
  <2>4. o \in FullRecords' /\ \A k \in FullRecords' : o <= k
    BY <2>3 DEF Min
  <2>5. \A k \in FullRecords' : k \in Int
    BY <1>2, <1>4, <1>5
  <2>6. m \in 1 .. Len(wire)
    BY <2>2, <1>5
  <2> HIDE DEF m, o
  <2>7. o = m
    BY <2>3, <2>4, <2>5
  <2>8. wire'[m] = wire[m]
    BY <2>6, <1>2
  <2>9. ValuesAt(Min(FullRecords))' = [j \in DOMAIN wire'[o].els |-> wire'[o].els[j].v]
    BY DEF ValuesAt, o
  <2>10. ValuesAt(Min(FullRecords)) = [j \in DOMAIN wire[m].els |-> wire[m].els[j].v]
    BY DEF ValuesAt, m
  <2> QED
    BY <2>3, <2>7, <2>8, <2>9, <2>10
<1>7. ASSUME FullRecords = {}, IsFull(r)
      PROVE  /\ FullRecords' # {}
             /\ ValuesAt(Min(FullRecords))' = [j \in DOMAIN r.els |-> r.els[j].v]
  <2>1. FullRecords' = {n} /\ n \in Int
    BY <1>2, <1>4, <1>7
  <2>2. Min(FullRecords') = n
    BY <2>1 DEF Min
  <2>3. ValuesAt(Min(FullRecords))' = [j \in DOMAIN wire'[n].els |-> wire'[n].els[j].v]
    BY <2>2 DEF ValuesAt
  <2> QED
    BY <2>1, <2>3, <1>1, <1>2
<1> QED
  BY <1>2, <1>4, <1>6, <1>7

\* The slot that is set is the one that is read.
LEMMA SlotStep ==
  ASSUME NEW f, OneSlot(f), SlotOf(f) = f, schema' = schema, NEW s, msg' = SetSlot(msg, f, s)
  PROVE  OneSlot(f)' /\ Slot(f)' = s
<1>1. SlotOf(f)' = f
  BY DEF SlotOf
<1>2. msg.slot = [g \in {f} |-> msg.slot[f]] /\ DOMAIN msg = {"slot", "bits", "which"}
  BY DEF OneSlot
<1>3. msg' = [msg EXCEPT !.slot[f] = s]
  BY DEF SetSlot
<1>4. msg' = [slot |-> [msg.slot EXCEPT ![f] = s], bits |-> msg.bits, which |-> msg.which]
  BY <1>3 DEF OneSlot
<1>5. [msg.slot EXCEPT ![f] = s] = [g \in {f} |-> s]
  BY <1>2
<1>6. msg'.slot = [g \in {f} |-> s] /\ msg'.slot[f] = s
  BY <1>4, <1>5
<1>7. OneSlot(f)'
  BY <1>4, <1>6 DEF OneSlot
<1> QED
  BY <1>1, <1>6, <1>7 DEF Slot

\* A step that leaves the message alone.
LEMMA SlotSame ==
  ASSUME NEW f, OneSlot(f), schema' = schema, msg' = msg
  PROVE  OneSlot(f)' /\ Slot(f)' = Slot(f)
BY DEF OneSlot, Slot, SlotOf

----------------------------------------------------------------------------
(* Lists *)

\* What is known before a record of a list is read.
ListStep(f, r, failed) ==
  /\ FieldsInv /\ f \in DOMAIN schema.fields /\ RepeatedField(f) /\ ~HasMessages(f)
  /\ status = "ok" /\ IsRecord(schema.fields[f], r) /\ Done(f, r, failed)

LEMMA ListStepFacts ==
  ASSUME NEW f, NEW r, NEW failed, ListStep(f, r, failed)
  PROVE  /\ OneSlot(f) /\ SlotOf(f) = f /\ IsSeq(wire) /\ ListInv(f) /\ schema' = schema
         /\ {"wt", "ok", "els"} \subseteq DOMAIN r /\ wire' = Append(wire, WithField(r, f))
         /\ failed => status' # "ok"
         /\ schema.fields[f].preload \in Nat
         /\ DOMAIN schema.fields = {f}
BY SchemaFacts DEF ListStep, FieldsInv, RepeatedInv, IsRecord, Done

\* The message has only this field.
LEMMA ListDone ==
  ASSUME NEW f, NEW r, NEW failed, ListStep(f, r, failed),
         (OneSlot(f) /\ ListInv(f))'
  PROVE  FieldsInv'
<1>1. IsSeq(wire') /\ schema' = schema /\ DOMAIN schema.fields = {f}
  BY ListStepFacts, WireStep
<1> QED
  BY <1>1 DEF FieldsInv, RepeatedInv, RepeatedField, HasMessages, ListStep

\* A record that leaves the list alone.
LEMMA ListKept ==
  ASSUME NEW f, NEW r, NEW failed, ListStep(f, r, failed), failed \/ ~IsFull(r),
         msg' = msg \/ msg' = SetSlot(msg, f, Slot(f))
  PROVE  FieldsInv'
<1> USE ListStepFacts
<1>1. OneSlot(f)' /\ Slot(f)' = Slot(f)
  BY SlotSame, SlotStep
<1> DEFINE s == Slot(f)
<1>2. IsList(s) /\ s.mode \in {"nil", "zc", "arena"}
  BY DEF ListInv
<1>3. s.mode = "nil" => s = NilSlice /\ (status' = "ok" => FullRecords' = {})
  BY WireStep DEF ListInv, ListStep
<1>4. s.mode = "zc" => s.cap = Len(s.elems) /\ FullRecords' # {} /\ s.elems = ValuesAt(Min(FullRecords))'
  BY WireStep DEF ListInv
<1>5. ListInv(f)'
  BY <1>1, <1>2, <1>3, <1>4 DEF ListInv
<1> QED
  BY <1>1, <1>5, ListDone

\* A record that is stored in the arena.
LEMMA ListInArena ==
  ASSUME NEW f, NEW r, NEW failed, ListStep(f, r, failed),
         NEW s, IsList(s), s.mode = "arena", msg' = SetSlot(msg, f, s)
  PROVE  FieldsInv'
<1> USE ListStepFacts
<1>1. OneSlot(f)' /\ Slot(f)' = s
  BY SlotStep
<1>2. ListInv(f)'
  BY <1>1 DEF ListInv
<1> QED
  BY <1>1, <1>2, ListDone

\* The first record that is borrowed.
LEMMA ListBorrowed ==
  ASSUME NEW f, NEW r, NEW failed, ListStep(f, r, failed), IsFull(r), Slot(f).mode = "nil",
         NEW T, msg' = SetSlot(msg, f, OffArena(T, [j \in DOMAIN r.els |-> r.els[j].v]))
  PROVE  FieldsInv'
<1> USE ListStepFacts
<1> DEFINE u == [j \in DOMAIN r.els |-> r.els[j].v]
           s == OffArena(T, u)
<1>1. OneSlot(f)' /\ Slot(f)' = s
  BY SlotStep
<1>2. FullRecords = {}
  BY DEF ListInv, ListStep
<1>3. FullRecords' # {} /\ ValuesAt(Min(FullRecords))' = u
  BY <1>2, WireStep
<1>4. IsSeq(u) /\ Len(u) \in Nat
  <2>1. PICK n \in Nat : DOMAIN r.els = 1 .. n
    BY DEF ListStep, IsRecord
  <2>2. u = [j \in 1 .. n |-> u[j]]
    BY <2>1
  <2> HIDE DEF u
  <2> QED
    BY <2>2, ValuesAreSeq
<1> HIDE DEF u
<1>5. s = [mode |-> "zc", elems |-> u, cap |-> Len(u)]
  BY DEF OffArena
<1> HIDE DEF s
<1>6. ListInv(f)'
  BY <1>1, <1>3, <1>4, <1>5 DEF ListInv, IsList
<1> QED
  BY <1>1, <1>6, ListDone DEF s

\* A list that is no longer borrowed.
LEMMA UnborrowedFacts ==
  ASSUME NEW f, ListInv(f), NEW T \in ElementTypes, NEW n \in Nat
  PROVE  LET s == IF Slot(f).mode = "zc" THEN Spilled(T, Slot(f), n) ELSE Slot(f)
         IN  IsList(s) /\ (s.mode = "arena" \/ s.cap = Len(s.elems))
<1>1. IsList(Slot(f)) /\ Slot(f).mode \in {"nil", "zc", "arena"}
  BY DEF ListInv
<1>2. CASE Slot(f).mode = "zc"
  BY <1>1, <1>2, SpilledFacts
<1>3. CASE Slot(f).mode = "nil"
  <2>1. Slot(f) = NilSlice
    BY <1>3 DEF ListInv
  <2>2. Slot(f).cap = Len(Slot(f).elems)
    BY <2>1 DEF NilSlice
  <2> QED
    BY <1>1, <1>3, <2>2
<1>4. CASE Slot(f).mode = "arena"
  BY <1>1, <1>4
<1> QED
  BY <1>1, <1>2, <1>3, <1>4

\* Appending one value, or those of a packed record, wherever the list is.
LEMMA ListAppends ==
  ASSUME NEW f, NEW r, NEW failed, ListStep(f, r, failed),
         NEW T \in ElementTypes, NEW n \in Nat, NEW u, IsSeq(u), Len(u) > 0,
         msg' = SetSlot(msg, f, AppendAll(T, IF Slot(f).mode = "zc" THEN Spilled(T, Slot(f), n)
                                             ELSE Slot(f), u))
  PROVE  FieldsInv'
<1> DEFINE s == IF Slot(f).mode = "zc" THEN Spilled(T, Slot(f), n) ELSE Slot(f)
<1>1. IsList(s) /\ (s.mode = "arena" \/ s.cap = Len(s.elems))
  BY ListStepFacts, UnborrowedFacts
<1> HIDE DEF s
<1>2. IsList(AppendAll(T, s, u)) /\ AppendAll(T, s, u).mode = "arena"
  BY <1>1, AppendAllFacts
<1>3. msg' = SetSlot(msg, f, AppendAll(T, s, u))
  BY DEF s
<1> QED
  BY <1>2, <1>3, ListInArena

\* What the loop knows when it calls a thunk of a list.
ListCall(f, p, r) ==
  /\ FieldsInv /\ f \in DOMAIN schema.fields /\ RepeatedField(f) /\ ~HasMessages(f)
  /\ status = "ok" /\ IsRecord(schema.fields[f], r)
  /\ ListThunk(schema.fields[f].kind, p) /\ p.kind = r.wt

LEMMA RepeatedVarintInv ==
  ASSUME NEW f, NEW p, NEW r, ListCall(f, p, r), ParseRepeatedVarint(f, p.thunk, r)
  PROVE  FieldsInv'
<1> DEFINE T == p.thunk.T
           s == IF Slot(f).mode = "zc" THEN Spilled(T, Slot(f), 1) ELSE Slot(f)
           v == Trunc(T, r.v)
<1>1. ListStep(f, r, ~r.ok) /\ T \in ElementTypes
  BY DEF ListCall, ListStep, ListThunk, ParseRepeatedVarint
<1>2. msg' = IF ~r.ok THEN msg ELSE SetSlot(msg, f, AppendAll(T, s, <<v>>))
  BY DEF ParseRepeatedVarint
<1> HIDE DEF T, v
<1>3. CASE ~r.ok
  BY <1>1, <1>2, <1>3, ListKept
<1>4. CASE r.ok
  <2>1. IsSeq(<<v>>) /\ Len(<<v>>) > 0
    BY OneIsSeq
  <2> QED
    BY <1>1, <1>2, <1>4, <2>1, ListAppends
<1> QED
  BY <1>3, <1>4

LEMMA PackedVarintInv ==
  ASSUME NEW f, NEW p, NEW r, ListCall(f, p, r), ParsePackedVarint(f, p.thunk, r)
  PROVE  FieldsInv'
<1> DEFINE T == p.thunk.T
           els == r.els
           n == ByteLen(els)
           count == n - SignBytes(els)
           values == [i \in DOMAIN els |-> els[i].v]
           failed == \E i \in DOMAIN els : ~els[i].ok
           g == Reserved(T, Slot(f), count)
           u == [i \in DOMAIN els |-> Trunc(T, els[i].v)]
           stored == StorePacked(T, g, els)
<1>1. ListStep(f, r, ~r.ok \/ failed) /\ T \in ElementTypes /\ r.wt = "packed" /\ IsSeq(els)
      /\ schema.fields[f].kind \notin FixedKinds
  BY DEF ListCall, ListStep, ListThunk, ParsePackedVarint, IsRecord, IsSeq
<1>2. \A j \in DOMAIN els : els[j].len \in Nat \ {0} /\ els[j].ends \in BOOLEAN /\ (els[j].ok => els[j].ends)
  BY <1>1 DEF ListCall, IsRecord, IsElement
<1>3. /\ Len(els) \in Nat /\ n \in Nat /\ (els # <<>> <=> n > 0)
      /\ (\A j \in DOMAIN els : els[j].ends) => count = Len(els)
  BY <1>1, <1>2, PackedCount
<1>4. msg' = IF ~r.ok \/ n = 0 THEN msg
             ELSE IF Slot(f).mode = "nil" /\ count = n
             THEN SetSlot(msg, f, OffArena(uint8, values))
             ELSE SetSlot(msg, f, Publish(Slot(f), stored, failed))
  BY DEF ParsePackedVarint
<1> HIDE DEF T, n, count, failed, stored, u
<1>5. CASE ~r.ok \/ n = 0
  <2>1. ~r.ok \/ failed \/ ~IsFull(r)
    BY <1>3, <1>5 DEF IsFull
  <2> QED
    BY <1>1, <1>4, <1>5, <2>1, ListKept
<1>6. CASE r.ok /\ n # 0 /\ Slot(f).mode = "nil" /\ count = n
  <2>1. IsFull(r)
    BY <1>1, <1>3, <1>6 DEF IsFull
  <2> QED
    BY <1>1, <1>4, <1>6, <2>1, ListBorrowed
<1>7. CASE r.ok /\ n # 0 /\ ~(Slot(f).mode = "nil" /\ count = n) /\ failed
  <2>1. msg' = SetSlot(msg, f, Slot(f))
    BY <1>4, <1>7 DEF Publish
  <2> QED
    BY <1>1, <1>7, <2>1, ListKept
<1>8. CASE r.ok /\ n # 0 /\ ~(Slot(f).mode = "nil" /\ count = n) /\ ~failed
  <2>1. msg' = SetSlot(msg, f, stored)
    BY <1>4, <1>8 DEF Publish
  <2>2. count = Len(els)
    BY <1>2, <1>3, <1>8 DEF failed
  <2>3. IsList(g) /\ g.mode = "arena" /\ Len(g.elems) + count <= g.cap
    BY <1>1, <1>3, <2>2, ListStepFacts, ReservedFacts DEF ListInv
  <2> HIDE DEF g
  <2>4. IsSeq(u) /\ Len(u) = Len(els)
    <3>1. DOMAIN els = 1 .. Len(els)
      BY <1>1 DEF IsSeq
    <3>2. u = [i \in 1 .. Len(els) |-> u[i]]
      BY <3>1 DEF u
    <3> QED
      BY <3>2, <1>3, ValuesAreSeq
  <2>5. stored = [g EXCEPT !.elems = @ \o u]
    BY DEF stored, StorePacked, u
  <2>6. Len(g.elems) + Len(u) <= g.cap
    BY <2>2, <2>3, <2>4
  <2>7. IsList(stored) /\ stored.mode = "arena"
    BY <2>3, <2>4, <2>5, <2>6, WrittenFacts
  <2> QED
    BY <1>1, <2>1, <2>7, ListInArena
<1> QED
  BY <1>5, <1>6, <1>7, <1>8

LEMMA RepeatedFixedInv ==
  ASSUME NEW f, NEW p, NEW r, ListCall(f, p, r), ParseRepeatedFixed(f, p.thunk, r)
  PROVE  FieldsInv'
<1> DEFINE T == p.thunk.T
           s == Slot(f)
           v == Trunc(T, r.v)
<1>1. ListStep(f, r, ~r.ok) /\ T \in ElementTypes
  BY DEF ListCall, ListStep, ListThunk, ParseRepeatedFixed
<1>2. msg' = IF ~r.ok THEN msg
             ELSE IF Len(s.elems) < s.cap THEN SetSlot(msg, f, [s EXCEPT !.elems = @ \o <<v>>])
             ELSE SetSlot(msg, f, AppendAll(T, IF s.mode = "zc" THEN Spilled(T, s, 1) ELSE s, <<v>>))
  BY DEF ParseRepeatedFixed
<1>3. IsSeq(<<v>>) /\ Len(<<v>>) = 1
  BY OneIsSeq
<1> HIDE DEF T, v
<1>4. CASE ~r.ok
  BY <1>1, <1>2, <1>4, ListKept
<1>5. CASE r.ok /\ Len(s.elems) < s.cap
  <2>1. ListInv(f)
    BY <1>1, ListStepFacts
  <2>2. IsList(s) /\ s.mode = "arena"
    BY <2>1, <1>5 DEF ListInv, NilSlice, IsList, IsSeq
  <2>3. Len(s.elems) + Len(<<v>>) <= s.cap
    BY <1>3, <1>5, <2>2 DEF IsList, IsSeq
  <2> DEFINE g == [s EXCEPT !.elems = @ \o <<v>>]
  <2>4. IsList(g) /\ g.mode = "arena"
    BY <1>3, <2>2, <2>3, WrittenFacts
  <2>5. msg' = SetSlot(msg, f, g)
    BY <1>2, <1>5
  <2> HIDE DEF g
  <2> QED
    BY <1>1, <2>4, <2>5, ListInArena
<1>6. CASE r.ok /\ ~(Len(s.elems) < s.cap)
  <2>1. Len(<<v>>) > 0
    BY <1>3
  <2>2. msg' = SetSlot(msg, f, AppendAll(T, IF s.mode = "zc" THEN Spilled(T, s, 1) ELSE s, <<v>>))
    BY <1>2, <1>6
  <2>3. 1 \in Nat
    OBVIOUS
  <2> DEFINE u == <<v>>
  <2>4. IsSeq(u) /\ Len(u) > 0
    BY <1>3
  <2>5. msg' = SetSlot(msg, f, AppendAll(T, IF Slot(f).mode = "zc" THEN Spilled(T, Slot(f), 1) ELSE Slot(f), u))
    BY <2>2
  <2> HIDE DEF u
  <2> QED
    BY <1>1, <2>3, <2>4, <2>5, ListAppends
<1> QED
  BY <1>4, <1>5, <1>6

LEMMA PackedFixedInv ==
  ASSUME NEW f, NEW p, NEW r, ListCall(f, p, r), ParsePackedFixed(f, p.thunk, r)
  PROVE  FieldsInv'
<1> DEFINE T == p.thunk.T
           s == Slot(f)
           els == r.els
           u == [i \in DOMAIN els |-> Trunc(T, els[i].v)]
<1>1. ListStep(f, r, ~r.ok) /\ T \in ElementTypes /\ r.wt = "packed" /\ IsSeq(els)
      /\ schema.fields[f].kind \in FixedKinds /\ T.bits = Width[schema.fields[f].kind]
  BY DEF ListCall, ListStep, ListThunk, ParsePackedFixed, IsRecord, IsSeq
<1>2. msg' = IF ~r.ok \/ els = <<>> THEN msg
             ELSE IF s.mode = "nil" THEN SetSlot(msg, f, OffArena(T, u))
             ELSE SetSlot(msg, f, AppendAll(T, IF s.mode = "zc" THEN Spilled(T, s, Len(u)) ELSE s, u))
  BY DEF ParsePackedFixed
<1>3. PICK n \in Nat : n = Len(els) /\ DOMAIN els = 1 .. n
  BY <1>1 DEF IsSeq
<1>4. IsSeq(u) /\ Len(u) = n
  <2>1. u = [i \in 1 .. n |-> u[i]]
    BY <1>3
  <2> HIDE DEF u
  <2> QED
    BY <2>1, ValuesAreSeq
<1>5. u = [i \in DOMAIN els |-> els[i].v]
  <2>1. T.bits \in {Bits32, Bits64}
    BY <1>1 DEF Width, FixedKinds
  <2>2. PICK m \in Nat : m = 2^T.bits /\ m > 0
    BY <2>1, WidthAssumption
  <2>3. ASSUME NEW i \in DOMAIN els
        PROVE  Trunc(T, els[i].v) = els[i].v
    <3>1. els[i].v \in 0 .. m - 1
      BY <1>1, <2>2 DEF ListCall, IsRecord, IsElement
    <3>2. els[i].v % m = els[i].v
      BY <3>1
    <3> QED
      BY <3>2, <2>2 DEF Trunc
  <2> QED
    BY <2>3
<1> HIDE DEF T, u
<1>6. CASE ~r.ok \/ els = <<>>
  BY <1>1, <1>2, <1>6, ListKept DEF IsFull
<1>7. CASE r.ok /\ els # <<>> /\ s.mode = "nil"
  <2>1. IsFull(r)
    BY <1>1, <1>7 DEF IsFull
  <2>2. msg' = SetSlot(msg, f, OffArena(T, [i \in DOMAIN els |-> els[i].v]))
    BY <1>2, <1>5, <1>7
  <2> QED
    BY <1>1, <1>7, <2>1, <2>2, ListBorrowed
<1>8. CASE r.ok /\ els # <<>> /\ s.mode # "nil"
  <2>1. Len(u) > 0 /\ Len(u) \in Nat
    BY <1>1, <1>3, <1>4, <1>8 DEF IsSeq
  <2>2. msg' = SetSlot(msg, f, AppendAll(T, IF s.mode = "zc" THEN Spilled(T, s, Len(u)) ELSE s, u))
    BY <1>2, <1>8
  <2> QED
    BY <1>1, <1>4, <2>1, <2>2, ListAppends
<1> QED
  BY <1>6, <1>7, <1>8

LEMMA RepeatedBytesInv ==
  ASSUME NEW f, NEW p, NEW r, ListCall(f, p, r), ParseRepeatedBytes(f, p.thunk, r)
  PROVE  FieldsInv'
<1> DEFINE failed == Fails(IF p.thunk.parse = "repeatedUTF8" THEN "utf8" ELSE "bytes", r)
           q == schema.fields[f].preload
           s == IF Slot(f).mode = "nil" /\ q > 0
                THEN [mode |-> "arena", elems |-> <<>>, cap |-> CapFor(zcRange, q)] ELSE Slot(f)
<1>1. ListStep(f, r, failed) /\ p.kind # "packed"
  BY DEF ListCall, ListStep, ListThunk, ParseRepeatedBytes
<1>2. msg' = IF failed THEN msg ELSE SetSlot(msg, f, AppendAll(zcRange, s, <<Here>>))
  BY DEF ParseRepeatedBytes
<1>3. ListInv(f) /\ q \in Nat
  BY <1>1, ListStepFacts
<1>4. zcRange \in ElementTypes
  BY DEF ElementTypes
<1>5. IsList(s) /\ (s.mode = "arena" \/ s.cap = Len(s.elems))
  <2>1. CASE Slot(f).mode = "nil" /\ q > 0
    <3>1. CapFor(zcRange, q) \in Nat
      BY <1>3, <1>4, CapForFacts
    <3>2. s = [mode |-> "arena", elems |-> <<>>, cap |-> CapFor(zcRange, q)]
      BY <2>1
    <3> HIDE DEF s
    <3>3. IsSeq(<<>>) /\ Len(<<>>) = 0
      BY DEF IsSeq, ToSet
    <3> QED
      BY <3>1, <3>2, <3>3 DEF IsList
  <2>2. CASE ~(Slot(f).mode = "nil" /\ q > 0)
    <3>1. s = Slot(f)
      BY <2>2
    <3> HIDE DEF s
    <3>2. Slot(f).mode = "nil" => Slot(f).cap = Len(Slot(f).elems)
      BY <1>3 DEF ListInv, NilSlice
    <3> QED
      BY <3>1, <3>2, <1>3 DEF ListInv
  <2> QED
    BY <2>1, <2>2
<1> HIDE DEF failed, s
<1>6. CASE failed
  BY <1>1, <1>2, <1>6, ListKept
<1>7. CASE ~failed
  <2>1. IsSeq(<<Here>>) /\ Len(<<Here>>) > 0
    BY OneIsSeq
  <2>2. IsList(AppendAll(zcRange, s, <<Here>>)) /\ AppendAll(zcRange, s, <<Here>>).mode = "arena"
    BY <1>4, <1>5, <2>1, AppendAllFacts
  <2> QED
    BY <1>1, <1>2, <1>7, <2>2, ListInArena
<1> QED
  BY <1>6, <1>7

----------------------------------------------------------------------------
(* Repeated messages *)

\* The messages of f are still there, at the same index.
Stable(f) ==
  /\ MessagesLen(Slot(f)) <= MessagesLen(Slot(f)')
  /\ \A i \in 1 .. MessagesLen(Slot(f)) : MessagesGet(Slot(f), i) = MessagesGet(Slot(f)', i)

\* What the loop knows when it calls the thunk of a repeated message.
MessagesCall(f, r) ==
  /\ FieldsInv /\ f \in DOMAIN schema.fields /\ RepeatedField(f) /\ HasMessages(f)
  /\ IsRecord(schema.fields[f], r)

LEMMA MessagesCallFacts ==
  ASSUME NEW f, NEW r, MessagesCall(f, r)
  PROVE  /\ OneSlot(f) /\ SlotOf(f) = f /\ IsSeq(wire) /\ MessagesInv(f)
         /\ {"wt", "ok", "els"} \subseteq DOMAIN r
         /\ DOMAIN schema.fields = {f} /\ schema.fields[f].preload \in Nat
BY SchemaFacts DEF MessagesCall, FieldsInv, RepeatedInv, IsRecord

LEMMA MessagesDone ==
  ASSUME NEW f, NEW r, MessagesCall(f, r), schema' = schema, wire' = Append(wire, WithField(r, f)),
         (OneSlot(f) /\ MessagesInv(f))'
  PROVE  FieldsInv'
<1>1. IsSeq(wire') /\ DOMAIN schema.fields = {f}
  BY MessagesCallFacts, WireStep
<1> QED
  BY <1>1 DEF FieldsInv, RepeatedInv, RepeatedField, HasMessages, MessagesCall

\* The slot as a record.
LEMMA MessagesSlot ==
  ASSUME NEW f, MessagesInv(f)
  PROVE  LET s == Slot(f)
         IN  /\ s = [mode |-> s.mode, elems |-> s.elems, cap |-> s.cap,
                     base |-> s.base, len |-> s.len, stride |-> s.stride]
             /\ s.len \in Nat /\ IsSeq(s.elems) /\ s.stride \in {0, Stride}
             /\ Stride \in Nat \ {0}
             /\ s.mode \in {"nil", "arena"}
             /\ s.mode = "nil" => s.len = 0 /\ s.elems = <<>> /\ s.stride = 0
<1> DEFINE s == Slot(f)
<1>1. /\ s = [mode |-> s.mode, elems |-> s.elems, cap |-> s.cap,
              base |-> s.base, len |-> s.len, stride |-> s.stride]
      /\ s.len \in Nat /\ IsSeq(s.elems) /\ s.stride \in {0, Stride}
      /\ s.mode \in {"nil", "arena"}
      /\ s.mode = "nil" => s = NilMessages
  BY DEF MessagesInv
<1> HIDE DEF s
<1>2. s.mode = "nil" => s.len = 0 /\ s.elems = <<>> /\ s.stride = 0
  BY <1>1 DEF NilMessages
<1> QED
  BY <1>1, <1>2, SizeAssumption DEF s

\* The block that a message is stored in, which is one message longer then.
BlockOf(f) == IF Slot(f).mode = "nil" THEN NewInline(f) ELSE Slot(f)
Longer(f) ==
  LET s == BlockOf(f)
  IN  /\ s.len \in Nat /\ s.stride = Stride
      /\ MessagesLen(Slot(f)) = s.len \div Stride /\ MessagesLen(Slot(f)) \in Nat
      /\ MessagesLen(Slot(f)') = MessagesLen(Slot(f)) + 1
      /\ Slot(f)'.stride = Stride /\ Slot(f)'.base = s.base /\ Slot(f)'.cap = s.cap

\* A message in the block: the block is one message longer.
LEMMA InlineInv ==
  ASSUME NEW f, NEW t, NEW r, MessagesCall(f, r), ParseInline(f, t, r)
  PROVE  FieldsInv' /\ Stable(f) /\ Longer(f)
<1> USE MessagesCallFacts
<1> DEFINE old == Slot(f)
           s == IF old.mode = "nil" THEN NewInline(f) ELSE old
           g == [s EXCEPT !.len = @ + s.stride]
<1>1. schema' = schema /\ wire' = Append(wire, WithField(r, f)) /\ msg' = SetSlot(msg, f, g)
      /\ Inline(old)
  BY DEF ParseInline, PushElement, Done
<1>2. OneSlot(f)' /\ Slot(f)' = g
  BY <1>1, SlotStep
<1>3. /\ s = [mode |-> s.mode, elems |-> s.elems, cap |-> s.cap,
              base |-> s.base, len |-> s.len, stride |-> s.stride]
      /\ s.len \in Nat /\ IsSeq(s.elems) /\ s.stride = Stride /\ Stride \in Nat \ {0} /\ s.mode = "arena"
  <2>1. CASE old.mode = "nil"
    <3>1. s = [mode |-> "arena", elems |-> <<>>, cap |-> InlineCap(f),
               base |-> Len(heap) + 1, len |-> 0, stride |-> Stride]
      BY <2>1 DEF NewInline, NilMessages
    <3> HIDE DEF s
    <3>2. IsSeq(<<>>)
      BY DEF IsSeq, ToSet
    <3> QED
      BY <3>1, <3>2, SizeAssumption
  <2>2. CASE old.mode # "nil"
    <3>1. s = old /\ old.stride = Stride
      BY <2>2, <1>1, MessagesSlot DEF Inline
    <3> HIDE DEF s
    <3> QED
      BY <3>1, <2>2, MessagesSlot
  <2> QED
    BY <2>1, <2>2
<1>4. old.mode # "nil" => s = old
  OBVIOUS
<1> HIDE DEF s
<1>5. g = [mode |-> s.mode, elems |-> s.elems, cap |-> s.cap,
           base |-> s.base, len |-> s.len + s.stride, stride |-> s.stride]
  <2>1. PICK a, b, c, d, e, h : s = [mode |-> a, elems |-> b, cap |-> c, base |-> d, len |-> e, stride |-> h]
    BY <1>3
  <2> QED
    BY <2>1
<1> HIDE DEF g
<1>6. MessagesInv(f)'
  <2>1. g.len \in Nat /\ g.stride = Stride /\ IsSeq(g.elems) /\ g.mode = "arena"
        /\ g = [mode |-> g.mode, elems |-> g.elems, cap |-> g.cap,
                base |-> g.base, len |-> g.len, stride |-> g.stride]
    BY <1>3, <1>5
  <2> QED
    BY <2>1, <1>2 DEF MessagesInv
<1>7. Stable(f)
  <2>1. MessagesLen(g) = (s.len \div Stride) + 1 /\ s.len \div Stride \in Nat
    <3>1. PICK l \in Nat, m \in Nat \ {0} : l = s.len /\ m = Stride
      BY <1>3
    <3>2. (l + m) \div m = (l \div m) + 1
      BY QuotientNext
    <3>3. l \div m \in Nat
      <4>1. 0 \in Nat /\ m * 0 <= l
        OBVIOUS
      <4> QED
        BY <4>1, QuotientFits
    <3> QED
      BY <3>1, <3>2, <3>3, <1>3, <1>5 DEF MessagesLen
  <2>2. \A i : MessagesGet(g, i) = s.base + i - 1
    BY <1>3, <1>5 DEF MessagesGet
  <2>3. CASE old.mode = "nil"
    <3>1. MessagesLen(old) = 0
      BY <2>3, MessagesSlot DEF MessagesLen
    <3> QED
      BY <3>1, <2>1, <1>2 DEF Stable
  <2>4. CASE old.mode # "nil"
    <3>1. MessagesLen(old) = s.len \div Stride /\ \A i : MessagesGet(old, i) = s.base + i - 1
      BY <1>3, <1>4, <2>4 DEF MessagesLen, MessagesGet
    <3> QED
      BY <3>1, <2>1, <2>2, <1>2 DEF Stable
  <2> QED
    BY <2>3, <2>4
<1>8. FieldsInv'
  BY <1>1, <1>2, <1>6, MessagesDone
<1>9. MessagesLen(old) = s.len \div Stride /\ MessagesLen(g) = (s.len \div Stride) + 1
      /\ s.len \div Stride \in Nat
  <2>1. PICK l \in Nat, m \in Nat \ {0} : l = s.len /\ m = Stride
    BY <1>3
  <2>2. (l + m) \div m = (l \div m) + 1
    BY QuotientNext
  <2>3. l \div m \in Nat
    <3>1. 0 \in Nat /\ m * 0 <= l
      OBVIOUS
    <3> QED
      BY <3>1, QuotientFits
  <2>4. MessagesLen(g) = (l \div m) + 1
    BY <2>1, <2>2, <1>3, <1>5 DEF MessagesLen
  <2>5. CASE old.mode # "nil"
    BY <2>1, <2>3, <2>4, <2>5, <1>3, <1>4 DEF MessagesLen
  <2>6. CASE old.mode = "nil"
    <3>1. s.len = 0
      BY <2>6 DEF s, NewInline, NilMessages
    <3>2. MessagesLen(old) = 0
      BY <2>6, MessagesSlot DEF MessagesLen
    <3>3. l \div m = 0
      <4>1. l = 0 /\ 0 \in 0 .. m - 1 /\ 0 = m * 0 + 0
        BY <2>1, <3>1
      <4> QED
        BY <4>1
    <3> QED
      BY <2>1, <2>3, <2>4, <3>2, <3>3
  <2> QED
    BY <2>5, <2>6
<1>10. Longer(f)
  BY <1>2, <1>3, <1>5, <1>9 DEF Longer, BlockOf, s
<1> QED
  BY <1>7, <1>8, <1>10

\* A message behind a pointer: the pointers to the messages of the block come first.
LEMMA OutlinedInv ==
  ASSUME NEW f, NEW t, NEW r, MessagesCall(f, r), ParseOutlined(f, t, r)
  PROVE  /\ FieldsInv' /\ Stable(f)
         /\ MessagesLen(Slot(f)) \in Nat /\ MessagesLen(Slot(f)') = MessagesLen(Slot(f)) + 1
         /\ MessagesGet(Slot(f)', MessagesLen(Slot(f)) + 1) = Len(heap) + 1
         /\ Slot(f)'.stride = 0
<1> USE MessagesCallFacts
<1> DEFINE old == Slot(f)
           s == IF old.stride # 0 THEN SpillInline(old) ELSE old
           m == Len(heap) + 1
           g == AppendAll(pointer, s, <<m>>)
<1>1. schema' = schema /\ wire' = Append(wire, WithField(r, f)) /\ msg' = SetSlot(msg, f, g)
      /\ ~Inline(old)
  BY DEF ParseOutlined, PushElement, Done
<1>2. OneSlot(f)' /\ Slot(f)' = g
  BY <1>1, SlotStep
<1> DEFINE n == MessagesLen(old)
<1>3. /\ n \in Nat /\ IsSeq(s.elems) /\ Len(s.elems) = n
      /\ \A i \in 1 .. n : s.elems[i] = MessagesGet(old, i)
      /\ s.mode = "arena" /\ s.stride = 0 /\ s.len \in Nat
      /\ s = [mode |-> s.mode, elems |-> s.elems, cap |-> s.cap,
              base |-> s.base, len |-> s.len, stride |-> s.stride]
  <2>1. CASE old.stride # 0
    <3>1. PICK l \in Nat, k \in Nat \ {0} : l = old.len /\ k = old.stride
      BY <2>1, MessagesSlot
    <3>2. n = l \div k /\ n \in Nat
      BY <2>1, <3>1, QuotientFits DEF MessagesLen
    <3> DEFINE u == [i \in 1 .. n |-> old.base + i - 1]
    <3>3. s = [mode |-> "arena", elems |-> u, cap |-> CapFor(pointer, (old.cap \div old.stride) * 2),
               base |-> 0, len |-> 0, stride |-> 0]
      BY <2>1, <3>1, <3>2 DEF SpillInline, NilMessages
    <3>4. \A i \in 1 .. n : u[i] = MessagesGet(old, i)
      BY <2>1 DEF MessagesGet
    <3>5. u = [i \in 1 .. n |-> u[i]]
      OBVIOUS
    <3> HIDE DEF u, s, n
    <3>6. IsSeq(u) /\ Len(u) = n
      BY <3>2, <3>5, ValuesAreSeq
    <3> QED
      BY <3>2, <3>3, <3>4, <3>6
  <2>2. CASE old.stride = 0
    <3>1. s = old /\ old.mode # "nil"
      BY <2>2, <1>1 DEF Inline
    <3>2. n = Len(old.elems) /\ IsSeq(old.elems) /\ \A i : MessagesGet(old, i) = old.elems[i]
      BY <2>2, MessagesSlot DEF MessagesLen, MessagesGet
    <3>3. Len(old.elems) \in Nat
      BY <3>2 DEF IsSeq
    <3> HIDE DEF s, n
    <3> QED
      BY <3>1, <3>2, <3>3, <2>2, MessagesSlot
  <2> QED
    BY <2>1, <2>2
<1> HIDE DEF s, n
<1>4. /\ g.elems = s.elems \o <<m>> /\ g.stride = 0 /\ g.len = s.len /\ g.mode = "arena"
      /\ g = [mode |-> g.mode, elems |-> g.elems, cap |-> g.cap,
              base |-> g.base, len |-> g.len, stride |-> g.stride]
  <2>1. PICK a, b, c, d, e, h : s = [mode |-> a, elems |-> b, cap |-> c, base |-> d, len |-> e, stride |-> h]
    BY <1>3
  <2> DEFINE q == s.elems \o <<m>>
             k == CapFor(pointer, s.cap + Len(<<m>>))
  <2>2. g \in {[s EXCEPT !.elems = q],
               [[s EXCEPT !.mode = "arena", !.cap = k] EXCEPT !.elems = q]}
    <3>1. Grown(pointer, s, Len(<<m>>)).elems = s.elems
      BY <2>1 DEF Grown
    <3> QED
      BY <3>1 DEF AppendAll, Grown
  <2> HIDE DEF q, k, g
  <2>3. [s EXCEPT !.elems = q] = [mode |-> a, elems |-> q, cap |-> c, base |-> d, len |-> e, stride |-> h]
    BY <2>1
  <2>4. [s EXCEPT !.mode = "arena", !.cap = k]
          = [mode |-> "arena", elems |-> b, cap |-> k, base |-> d, len |-> e, stride |-> h]
    <3>1. [s EXCEPT !.mode = "arena"]
            = [mode |-> "arena", elems |-> b, cap |-> c, base |-> d, len |-> e, stride |-> h]
      BY <2>1
    <3>2. [[mode |-> "arena", elems |-> b, cap |-> c, base |-> d, len |-> e, stride |-> h] EXCEPT !.cap = k]
            = [mode |-> "arena", elems |-> b, cap |-> k, base |-> d, len |-> e, stride |-> h]
      OBVIOUS
    <3> QED
      BY <3>1, <3>2
  <2>5. [[mode |-> "arena", elems |-> b, cap |-> k, base |-> d, len |-> e, stride |-> h] EXCEPT !.elems = q]
          = [mode |-> "arena", elems |-> q, cap |-> k, base |-> d, len |-> e, stride |-> h]
    OBVIOUS
  <2>6. g.elems = q /\ g.stride = h /\ g.len = e /\ g.mode \in {a, "arena"}
        /\ g = [mode |-> g.mode, elems |-> g.elems, cap |-> g.cap,
                base |-> g.base, len |-> g.len, stride |-> g.stride]
    <3>1. CASE g = [mode |-> a, elems |-> q, cap |-> c, base |-> d, len |-> e, stride |-> h]
      BY <3>1
    <3>2. CASE g = [mode |-> "arena", elems |-> q, cap |-> k, base |-> d, len |-> e, stride |-> h]
      BY <3>2
    <3> QED
      BY <2>2, <2>3, <2>4, <2>5, <3>1, <3>2
  <2> QED
    BY <2>1, <2>6, <1>3 DEF q
<1> HIDE DEF g
<1>5. IsSeq(g.elems) /\ Len(g.elems) = n + 1 /\ g.elems[n + 1] = m
      /\ \A i \in 1 .. n : g.elems[i] = MessagesGet(old, i)
  <2>1. IsSeq(<<m>>) /\ Len(<<m>>) = 1
    BY OneIsSeq
  <2> HIDE DEF m
  <2>2. IsSeq(g.elems) /\ Len(g.elems) = n + 1 /\ \A i \in 1 .. n : g.elems[i] = MessagesGet(old, i)
    BY <2>1, <1>3, <1>4, ConcatIsSeq
  <2>3. g.elems[n + 1] = m
    <3>1. PICK e : e = s.elems /\ IsSeq(e) /\ Len(e) = n
      BY <1>3
    <3>2. e \in Seq(ToSet(e)) /\ e \o <<m>> = Append(e, m)
      BY <3>1 DEF IsSeq
    <3>3. Append(e, m)[n + 1] = m
      BY <3>1, AppendIsSeq
    <3> QED
      BY <1>4, <3>1, <3>2, <3>3
  <2> QED
    BY <2>2, <2>3
<1>6. MessagesInv(f)'
  BY <1>2, <1>3, <1>4, <1>5 DEF MessagesInv
<1>7. MessagesLen(g) = n + 1 /\ \A i \in 1 .. n : MessagesGet(g, i) = MessagesGet(old, i)
  BY <1>4, <1>5 DEF MessagesLen, MessagesGet
<1>8. Stable(f)
  BY <1>2, <1>3, <1>7 DEF Stable, n
<1>9. FieldsInv'
  BY <1>1, <1>2, <1>6, MessagesDone
<1>10. MessagesGet(g, n + 1) = m
  BY <1>4, <1>5 DEF MessagesGet
<1> QED
  BY <1>2, <1>3, <1>4, <1>7, <1>8, <1>9, <1>10 DEF n

\* Nothing is stored for a message that fails.
LEMMA MessageFailsInv ==
  ASSUME NEW f, NEW t, NEW r, MessagesCall(f, r), RepeatedMessageFails(f, t, r)
  PROVE  FieldsInv' /\ Stable(f)
<1> USE MessagesCallFacts
<1>1. schema' = schema /\ wire' = Append(wire, WithField(r, f)) /\ msg' = msg
  BY DEF RepeatedMessageFails, Done
<1>2. OneSlot(f)' /\ Slot(f)' = Slot(f)
  BY <1>1, SlotSame
<1>3. MessagesInv(f)'
  BY <1>2 DEF MessagesInv
<1>4. Stable(f)
  <2>1. MessagesLen(Slot(f)) <= MessagesLen(Slot(f))
    <3>1. MessagesLen(Slot(f)) \in Int
      BY MessagesSlot DEF MessagesLen, IsSeq
    <3> QED
      BY <3>1
  <2> QED
    BY <2>1, <1>2 DEF Stable
<1>5. FieldsInv'
  BY <1>1, <1>2, <1>3, MessagesDone
<1> QED
  BY <1>4, <1>5

----------------------------------------------------------------------------
(* Every step *)

\* The schema is that of the behaviour.
LEMMA SchemaStays ==
  ASSUME Next
  PROVE  schema' = schema
<1>1. ASSUME NEW f, NEW t, NEW r,
             \/ ParseScalar(f, t, r) \/ ParseBool(f, t, r) \/ ParseOneofBool(f, t, r)
             \/ ParseMessage(f, t, r) \/ MessageFails(f, t, r)
      PROVE  schema' = schema
  BY <1>1 DEF ParseScalar, ParseBool, ParseOneofBool, ParseMessage, MessageFails, Done
<1>2. ASSUME NEW f, NEW t, NEW r,
             \/ ParseRepeatedVarint(f, t, r) \/ ParsePackedVarint(f, t, r)
             \/ ParseRepeatedFixed(f, t, r)  \/ ParsePackedFixed(f, t, r)
             \/ ParseRepeatedBytes(f, t, r)
      PROVE  schema' = schema
  BY <1>2 DEF ParseRepeatedVarint, ParsePackedVarint, ParseRepeatedFixed, ParsePackedFixed,
     ParseRepeatedBytes, Done
<1>3. ASSUME NEW f, NEW t, NEW r,
             \/ ParseInline(f, t, r) \/ ParseOutlined(f, t, r) \/ RepeatedMessageFails(f, t, r)
             \/ ParseMapKxV(f, t, r) \/ ParseMapKxM(f, t, r)
      PROVE  schema' = schema
  BY <1>3 DEF ParseInline, ParseOutlined, PushElement, RepeatedMessageFails, ParseMapKxV, ParseMapKxM,
     Done
<1>4. CASE ParseField
  BY <1>1, <1>2, <1>3, <1>4 DEF ParseField
<1>5. CASE ParseChild \/ ChildFails
  BY <1>5 DEF ParseChild, ChildFails
<1> QED
  BY <1>4, <1>5 DEF Next

\* A record of a repeated field.
LEMMA FieldNext ==
  ASSUME FieldsInv, ParseField, NEW f \in DOMAIN schema.fields, RepeatedField(f)
  PROVE  FieldsInv' /\ (HasMessages(f) => Stable(f))
<1>1. DOMAIN schema.fields = {f} /\ schema.fields[f].kind \in Kinds
      /\ \A r \in Records(schema.fields[f]) : IsRecord(schema.fields[f], r)
  BY SchemaFacts
<1>2. PICK g \in DOMAIN schema.fields :
        \E r \in Records(schema.fields[g]), p \in SelectArchetype(schema.fields[g]).parsers :
          /\ p.kind = r.wt
          /\ \/ ParseScalar(g, p.thunk, r)         \/ ParseBool(g, p.thunk, r)
             \/ ParseOneofBool(g, p.thunk, r)      \/ ParseMessage(g, p.thunk, r)
             \/ MessageFails(g, p.thunk, r)
             \/ ParseRepeatedVarint(g, p.thunk, r) \/ ParsePackedVarint(g, p.thunk, r)
             \/ ParseRepeatedFixed(g, p.thunk, r)  \/ ParsePackedFixed(g, p.thunk, r)
             \/ ParseRepeatedBytes(g, p.thunk, r)  \/ ParseInline(g, p.thunk, r)
             \/ ParseOutlined(g, p.thunk, r)       \/ RepeatedMessageFails(g, p.thunk, r)
             \/ ParseMapKxV(g, p.thunk, r)         \/ ParseMapKxM(g, p.thunk, r)
  BY DEF ParseField
<1>3. g = f
  BY <1>1
<1>4. PICK r \in Records(schema.fields[f]), p \in SelectArchetype(schema.fields[f]).parsers :
        /\ p.kind = r.wt
        /\ \/ ParseScalar(f, p.thunk, r)         \/ ParseBool(f, p.thunk, r)
           \/ ParseOneofBool(f, p.thunk, r)      \/ ParseMessage(f, p.thunk, r)
           \/ MessageFails(f, p.thunk, r)
           \/ ParseRepeatedVarint(f, p.thunk, r) \/ ParsePackedVarint(f, p.thunk, r)
           \/ ParseRepeatedFixed(f, p.thunk, r)  \/ ParsePackedFixed(f, p.thunk, r)
           \/ ParseRepeatedBytes(f, p.thunk, r)  \/ ParseInline(f, p.thunk, r)
           \/ ParseOutlined(f, p.thunk, r)       \/ RepeatedMessageFails(f, p.thunk, r)
           \/ ParseMapKxV(f, p.thunk, r)         \/ ParseMapKxM(f, p.thunk, r)
  BY <1>2, <1>3
<1>5. status = "ok"
  BY DEF ParseField, Reading
<1>6. /\ HasMessages(f) => p.thunk.parse = "repeatedMessage"
      /\ ~HasMessages(f) => ListThunk(schema.fields[f].kind, p)
  BY <1>1, RepeatedThunks DEF RepeatedField, HasMessages
<1>7. CASE HasMessages(f)
  <2>1. MessagesCall(f, r)
    BY <1>1, <1>7 DEF MessagesCall
  <2>2. \/ ParseInline(f, p.thunk, r) \/ ParseOutlined(f, p.thunk, r)
        \/ RepeatedMessageFails(f, p.thunk, r)
    BY <1>4, <1>6, <1>7 DEF ParseScalar, ParseBool, ParseOneofBool, ParseMessage, MessageFails, ParseRepeatedVarint,
       ParsePackedVarint, ParseRepeatedFixed, ParsePackedFixed, ParseRepeatedBytes, ParseMapKxV,
       ParseMapKxM
  <2> QED
    BY <2>1, <2>2, InlineInv, OutlinedInv, MessageFailsInv
<1>8. CASE ~HasMessages(f)
  <2>1. ListCall(f, p, r)
    BY <1>1, <1>4, <1>5, <1>6, <1>8 DEF ListCall
  <2>2. \/ ParseRepeatedVarint(f, p.thunk, r) \/ ParsePackedVarint(f, p.thunk, r)
        \/ ParseRepeatedFixed(f, p.thunk, r)  \/ ParsePackedFixed(f, p.thunk, r)
        \/ ParseRepeatedBytes(f, p.thunk, r)
    BY <1>4, <1>6, <1>8 DEF ListThunk, ListThunks, ParseScalar, ParseBool, ParseOneofBool, ParseMessage,
       MessageFails, ParseInline, ParseOutlined, RepeatedMessageFails, ParseMapKxV, ParseMapKxM
  <2> QED
    BY <2>1, <2>2, <1>8, RepeatedVarintInv, PackedVarintInv, RepeatedFixedInv, PackedFixedInv,
       RepeatedBytesInv
<1> QED
  BY <1>7, <1>8

\* What a step that leaves the message, the schema and the records alone does to the
\* invariant: nothing, also when it fails.
LEMMA RestKept ==
  ASSUME FieldsInv, UNCHANGED <<schema, wire, msg>>, status' \in {status, "failed"}
  PROVE  /\ FieldsInv'
         /\ \A f \in DOMAIN schema.fields : RepeatedField(f) /\ HasMessages(f) => Stable(f)
<1>1. FieldsInv'
  <2>1. ASSUME NEW f
        PROVE  (RepeatedField(f)' <=> RepeatedField(f)) /\ (HasMessages(f)' <=> HasMessages(f))
               /\ Slot(f)' = Slot(f) /\ (OneSlot(f)' <=> OneSlot(f))
    BY DEF RepeatedField, HasMessages, OneSlot, Slot, SlotOf
  <2>2. FullRecords' = FullRecords /\ \A i : ValuesAt(i)' = ValuesAt(i)
    BY DEF FullRecords, ValuesAt
  <2>3. ASSUME NEW f
        PROVE  (MessagesInv(f) => MessagesInv(f)') /\ (ListInv(f) => ListInv(f)')
    BY <2>1, <2>2 DEF MessagesInv, ListInv
  <2> QED
    BY <2>1, <2>3 DEF FieldsInv, RepeatedInv
<1>2. ASSUME NEW f \in DOMAIN schema.fields, RepeatedField(f), HasMessages(f)
      PROVE  Stable(f)
  <2>1. Slot(f)' = Slot(f) /\ MessagesInv(f)
    BY <1>2 DEF Slot, SlotOf, FieldsInv, RepeatedInv
  <2>2. MessagesLen(Slot(f)) \in Int
    BY <2>1, MessagesSlot DEF MessagesLen, IsSeq
  <2> QED
    BY <2>1, <2>2 DEF Stable
<1> QED
  BY <1>1, <1>2

\* The invariant is inductive, and the messages of a repeated field stay.
LEMMA StepKeeps ==
  ASSUME FieldsInv, [Next]_vars
  PROVE  /\ FieldsInv'
         /\ \A f \in DOMAIN schema.fields : RepeatedField(f) /\ HasMessages(f) => Stable(f)
<1>1. CASE ParseField
  <2>1. CASE \E f \in DOMAIN schema.fields : RepeatedField(f)
    <3>1. FieldsInv'
      BY <1>1, <2>1, FieldNext
    <3>2. \A f \in DOMAIN schema.fields : RepeatedField(f) /\ HasMessages(f) => Stable(f)
      BY <1>1, FieldNext
    <3> QED
      BY <3>1, <3>2
  <2>2. CASE ~\E f \in DOMAIN schema.fields : RepeatedField(f)
    <3>1. schema' = schema
      BY <1>1, SchemaStays DEF Next
    <3> QED
      BY <3>1, <2>2 DEF FieldsInv, RepeatedInv, RepeatedField
  <2> QED
    BY <2>1, <2>2
<1>2. CASE ParseChild \/ ChildFails
  BY <1>2, RestKept DEF ParseChild, ChildFails
<1>3. CASE UNCHANGED vars
  BY <1>3, RestKept DEF vars
<1> QED
  BY <1>1, <1>2, <1>3 DEF Next

LEMMA InitRepeated ==
  ASSUME Init
  PROVE  FieldsInv
<1>1. schema \in Schemas /\ wire = <<>> /\ status = "ok"
      /\ msg = [slot |-> [f \in DOMAIN schema.fields |-> ZeroSlot(schema.fields[f])], bits |-> {}, which |-> 0]
  BY DEF Init
<1>2. ASSUME NEW f \in DOMAIN schema.fields, RepeatedField(f)
      PROVE  IsSeq(wire) /\ OneSlot(f) /\ (IF HasMessages(f) THEN MessagesInv(f) ELSE ListInv(f))
  <2>1. schema.fields[f].card = "repeated"
    BY <1>2 DEF RepeatedField
  <2>2. DOMAIN schema.fields = {f}
    BY <1>1, <2>1, RecordsAssumption DEF IsSchema
  <2>3. SlotOf(f) = f
    BY <2>1 DEF SlotOf
  <2>4. Slot(f) = ZeroSlot(schema.fields[f])
    BY <1>1, <2>3 DEF Slot
  <2>5. OneSlot(f)
    BY <1>1, <2>2 DEF OneSlot
  <2>6. IsSeq(<<>>) /\ Len(<<>>) = 0
    BY DEF IsSeq, ToSet
  <2>7. CASE HasMessages(f)
    <3>1. Slot(f) = NilMessages
      BY <2>1, <2>4, <2>7 DEF ZeroSlot, HasMessages
    <3>2. MessagesInv(f)
      BY <3>1, <2>6 DEF MessagesInv, NilMessages
    <3> QED
      BY <3>2, <2>5, <2>6, <2>7, <1>1
  <2>8. CASE ~HasMessages(f)
    <3>1. Slot(f) = NilSlice
      BY <2>1, <2>4, <2>8 DEF ZeroSlot, HasMessages
    <3>2. FullRecords = {}
      BY <1>1 DEF FullRecords
    <3>3. ListInv(f)
      BY <3>1, <3>2, <2>6 DEF ListInv, IsList, NilSlice
    <3> QED
      BY <3>3, <2>5, <2>6, <2>8, <1>1
  <2> QED
    BY <2>7, <2>8
<1> QED
  BY <1>1, <1>2 DEF FieldsInv, RepeatedInv

LEMMA FieldsInvariance == Spec => []FieldsInv
<1>1. Init => FieldsInv
  BY InitRepeated
<1>2. FieldsInv /\ [Next]_vars => FieldsInv'
  BY StepKeeps
<1> QED
  BY <1>1, <1>2, PTL DEF Spec

----------------------------------------------------------------------------
(* The messages of a list *)

\* A list that has one message more, an empty one, behind the others.
Grew(f) ==
  LET n == MessagesLen(Slot(f))
      m == MessagesGet(Slot(f)', n + 1)
  IN  /\ n \in Nat /\ MessagesLen(Slot(f)') = n + 1
      /\ m \in DOMAIN heap' /\ heap'[m].tokens = <<>>
      /\ \A a \in DOMAIN heap : a \in DOMAIN heap' /\ heap'[a] = heap[a]

\* A new message, behind the others in the heap.
LEMMA HeapAppend ==
  ASSUME NEW f, IsSeq(heap), heap' = Append(heap, NewMessage(f))
  PROVE  /\ IsSeq(heap') /\ Len(heap) \in Nat
         /\ \A a \in DOMAIN heap : a \in DOMAIN heap' /\ heap'[a] = heap[a]
         /\ Len(heap) + 1 \in DOMAIN heap' /\ heap'[Len(heap) + 1].tokens = <<>>
<1>1. /\ Len(heap) \in Nat /\ IsSeq(heap') /\ Len(heap') = Len(heap) + 1
      /\ \A i \in 1 .. Len(heap) : heap'[i] = heap[i]
      /\ heap'[Len(heap) + 1] = NewMessage(f)
  BY AppendIsSeq
<1>2. DOMAIN heap = 1 .. Len(heap) /\ DOMAIN heap' = 1 .. Len(heap')
  BY <1>1 DEF IsSeq
<1>3. NewMessage(f).tokens = <<>>
  BY DEF NewMessage
<1> QED
  BY <1>1, <1>2, <1>3

\* A block of new messages.
LEMMA HeapBlock ==
  ASSUME NEW f, IsSeq(heap), NEW k \in Nat, heap' = heap \o [i \in 1 .. k |-> NewMessage(f)]
  PROVE  /\ IsSeq(heap') /\ Len(heap) \in Nat
         /\ \A a \in DOMAIN heap : a \in DOMAIN heap' /\ heap'[a] = heap[a]
         /\ \A i \in 1 .. k : Len(heap) + i \in DOMAIN heap' /\ heap'[Len(heap) + i].tokens = <<>>
<1> DEFINE b == [i \in 1 .. k |-> NewMessage(f)]
<1>1. b = [i \in 1 .. k |-> b[i]] /\ \A i \in 1 .. k : b[i] = NewMessage(f)
  OBVIOUS
<1>2. heap' = heap \o b
  OBVIOUS
<1> HIDE DEF b
<1>3. IsSeq(b) /\ Len(b) = k
  BY <1>1, ValuesAreSeq
<1>4. /\ Len(heap) \in Nat /\ IsSeq(heap') /\ Len(heap') = Len(heap) + k
      /\ \A i \in 1 .. Len(heap) : heap'[i] = heap[i]
  <2>1. PICK h : h = heap /\ IsSeq(h)
    OBVIOUS
  <2>2. /\ Len(h) \in Nat /\ IsSeq(h \o b) /\ Len(h \o b) = Len(h) + Len(b)
        /\ \A i \in 1 .. Len(h) : (h \o b)[i] = h[i]
    BY <2>1, <1>3, ConcatIsSeq
  <2>3. heap' = h \o b
    BY <1>2, <2>1
  <2>4. IsSeq(heap')
    BY <2>2, <2>3 DEF IsSeq
  <2> QED
    BY <2>1, <2>2, <2>3, <2>4, <1>3
<1>5. DOMAIN heap = 1 .. Len(heap) /\ DOMAIN heap' = 1 .. Len(heap')
  BY <1>4 DEF IsSeq
<1>6. ASSUME NEW i \in 1 .. k
      PROVE  heap'[Len(heap) + i] = b[i]
  <2> DEFINE T == ToSet(heap) \cup ToSet(b)
  <2>1. heap \in Seq(T) /\ b \in Seq(T)
    <3>1. \A S : S \subseteq T => \A q \in Seq(S) : q \in Seq(T)
      OBVIOUS
    <3> QED
      BY <3>1, <1>3 DEF IsSeq
  <2> HIDE DEF T
  <2>2. (heap \o b)[Len(heap) + i] = b[i]
    BY <2>1, <1>3, <1>4
  <2> QED
    BY <2>2, <1>2
<1>7. NewMessage(f).tokens = <<>>
  BY DEF NewMessage
<1> QED
  BY <1>1, <1>4, <1>5, <1>6, <1>7

\* What is known of the messages that are there.
LEMMA BlockFacts ==
  ASSUME NEW f, BlockInv(f), MessagesInv(f)
  PROVE  LET s == Slot(f)
             n == MessagesLen(s)
         IN  /\ n \in Int
             /\ \A i \in 1 .. n : MessagesGet(s, i) \in DOMAIN heap
             /\ s.mode # "nil" /\ s.stride # 0 =>
                  /\ s.cap \in Nat /\ s.base \in Nat
                  /\ \A i \in n + 1 .. s.cap \div s.stride :
                       s.base + i - 1 \in DOMAIN heap /\ heap[s.base + i - 1].tokens = <<>>
<1>1. MessagesLen(Slot(f)) \in Int
  BY MessagesSlot DEF MessagesLen, IsSeq
<1> QED
  BY <1>1 DEF BlockInv, MessagesGet

\* A message in the block.
LEMMA InlineHeap ==
  ASSUME NEW f, NEW t, NEW r, MessagesCall(f, r), ParseInline(f, t, r), IsSeq(heap), BlockInv(f)
  PROVE  IsSeq(heap') /\ BlockInv(f)' /\ Grew(f)
<1> DEFINE old == Slot(f)
           s == BlockOf(f)
           n == MessagesLen(old)
           k == s.cap \div Stride
<1>1. /\ heap' = (IF old.mode # "nil" THEN heap
                  ELSE heap \o [i \in 1 .. (s.cap \div s.stride) |-> NewMessage(f)])
      /\ PushElement(f, r, s.base + (s.len \div s.stride)) /\ Inline(old)
  BY DEF ParseInline, BlockOf
<1>2. /\ Stable(f) /\ s.len \in Nat /\ s.stride = Stride /\ n = s.len \div Stride /\ n \in Nat
      /\ MessagesLen(Slot(f)') = n + 1
      /\ Slot(f)'.stride = Stride /\ Slot(f)'.base = s.base /\ Slot(f)'.cap = s.cap
  BY InlineInv DEF Longer
<1>3. Stride \in Nat \ {0} /\ MessagesInv(f)
  BY SizeAssumption, MessagesCallFacts
<1>4. s.base \in Nat /\ s.cap \in Nat /\ k \in Nat /\ n + 1 <= k
  <2>1. PICK m \in Nat \ {0} : m = Stride
    BY <1>3
  <2>2. CASE old.mode = "nil"
    <3>1. s.base = Len(heap) + 1 /\ s.cap = InlineCap(f) /\ s.len = 0
      BY <2>2 DEF BlockOf, NewInline, NilMessages
    <3>2. Len(heap) \in Nat
      BY DEF IsSeq
    <3>3. PICK x \in Nat \ {0} : InlineCap(f) = SuggestSize(m * x)
      <4>1. schema.fields[f].preload \in Nat
        BY MessagesCallFacts
      <4>2. Max({1, schema.fields[f].preload}) \in Nat \ {0}
        <5>1. PICK c \in Nat : c = schema.fields[f].preload
          BY <4>1
        <5>2. \E x \in {1, c} : x >= 1 /\ x >= c
          BY <5>1
        <5>3. /\ Max({1, c}) \in {1, c}
              /\ \A y \in {1, c} : Max({1, c}) >= y
          BY <5>2 DEF Max
        <5> QED
          BY <5>1, <5>3
      <4> QED
        BY <2>1, <4>2 DEF InlineCap
    <3>4. m * x \in Nat /\ m * 1 <= m * x
      BY <3>3
    <3>5. PICK c \in Nat : c = s.cap /\ m * 1 <= c
      <4> DEFINE y == m * x
      <4>1. y \in Nat /\ m <= y
        BY <3>4
      <4> HIDE DEF y
      <4>2. SuggestSize(y) \in Nat /\ y <= SuggestSize(y)
        BY <4>1, SuggestSizeFacts
      <4>3. m <= SuggestSize(y)
        BY <4>1, <4>2
      <4> QED
        BY <3>1, <3>3, <4>2, <4>3 DEF y
    <3>6. c \div m \in Nat /\ 1 <= c \div m
      BY <3>5, QuotientFits
    <3>7. n = 0
      <4>1. MessagesLen(old) = 0
        BY <2>2, <1>3, MessagesSlot DEF MessagesLen
      <4> QED
        BY <4>1
    <3> HIDE DEF n
    <3> QED
      BY <2>1, <3>1, <3>2, <3>5, <3>6, <3>7
  <2>3. CASE old.mode # "nil"
    <3>1. s = old /\ old.stride # 0
      BY <2>3, <1>1, <1>2, <1>3 DEF BlockOf
    <3>2. PICK c \in Nat, l \in Nat : c = s.cap /\ l = s.len /\ l + m <= c /\ s.base \in Nat
      BY <2>1, <2>3, <3>1, <1>1, <1>2, <1>3, BlockFacts DEF Inline
    <3>3. n = l \div m /\ n \in Nat
      BY <2>1, <3>2, <1>2
    <3>4. m * n <= l
      <4>1. l = m * (l \div m) + (l % m) /\ l % m \in 0 .. m - 1
        OBVIOUS
      <4> HIDE DEF n
      <4> DEFINE y == m * n
      <4>2. y \in Nat
        BY <3>3
      <4>3. l = y + (l % m)
        BY <4>1, <3>3
      <4> HIDE DEF y
      <4>4. y <= l
        BY <4>1, <4>2, <4>3
      <4> QED
        BY <4>4 DEF y
    <3> HIDE DEF n
    <3>5. m * (n + 1) <= c
      <4>1. m * (n + 1) = m * n + m
        BY <3>3
      <4> DEFINE y == m * n
      <4>2. y \in Nat /\ y <= l /\ m * (n + 1) = y + m
        BY <3>3, <3>4, <4>1
      <4> HIDE DEF y
      <4> QED
        BY <4>2, <3>2
    <3>6. c \div m \in Nat /\ n + 1 <= c \div m
      BY <3>3, <3>5, QuotientFits
    <3> QED
      BY <2>1, <3>2, <3>6
  <2> QED
    BY <2>2, <2>3
<1>5. /\ IsSeq(heap') /\ \A a \in DOMAIN heap : a \in DOMAIN heap' /\ heap'[a] = heap[a]
      /\ \A i \in n + 1 .. k : s.base + i - 1 \in DOMAIN heap' /\ heap'[s.base + i - 1].tokens = <<>>
  <2>1. CASE old.mode = "nil"
    <3>1. s.base = Len(heap) + 1
      BY <2>1 DEF BlockOf, NewInline, NilMessages
    <3>2. heap' = heap \o [i \in 1 .. k |-> NewMessage(f)]
      BY <2>1, <1>1, <1>2
    <3> HIDE DEF k, n, s
    <3>3. /\ IsSeq(heap') /\ Len(heap) \in Nat
          /\ \A a \in DOMAIN heap : a \in DOMAIN heap' /\ heap'[a] = heap[a]
          /\ \A i \in 1 .. k : Len(heap) + i \in DOMAIN heap' /\ heap'[Len(heap) + i].tokens = <<>>
      BY <3>2, <1>4, HeapBlock
    <3>4. \A i \in n + 1 .. k : i \in 1 .. k /\ s.base + i - 1 = Len(heap) + i
      BY <1>2, <1>4, <3>1, <3>3
    <3> QED
      BY <3>3, <3>4
  <2>2. CASE old.mode # "nil"
    <3>1. s = old /\ heap' = heap /\ old.stride = Stride
      BY <2>2, <1>1, <1>2 DEF BlockOf
    <3> QED
      BY <2>2, <3>1, <1>3, BlockFacts
  <2> QED
    BY <2>1, <2>2
<1>6. ASSUME NEW i
      PROVE  MessagesGet(Slot(f)', i) = s.base + i - 1
  BY <1>2, <1>3 DEF MessagesGet
<1>7. MessagesGet(Slot(f)', n + 1) = s.base + n
  BY <1>2, <1>4, <1>6
<1>8. s.base + n \in DOMAIN heap' /\ heap'[s.base + n].tokens = <<>>
  <2>1. n + 1 \in n + 1 .. k /\ s.base + (n + 1) - 1 = s.base + n
    BY <1>2, <1>4
  <2> QED
    BY <2>1, <1>5
<1>9. Grew(f)
  BY <1>2, <1>5, <1>7, <1>8 DEF Grew
<1>10. BlockInv(f)'
  <2>1. frame' # <<>> => frame'[1].addr = s.base + n
    BY <1>1, <1>2 DEF PushElement, Push
  <2>2. ASSUME NEW i \in 1 .. n + 1
        PROVE  MessagesGet(Slot(f)', i) \in DOMAIN heap'
    <3>1. CASE i = n + 1
      BY <3>1, <1>7, <1>8
    <3>2. CASE i # n + 1
      <4>1. i \in 1 .. n
        BY <3>2, <1>2
      <4>2. MessagesGet(Slot(f)', i) = MessagesGet(old, i) /\ MessagesGet(old, i) \in DOMAIN heap
        BY <4>1, <1>2, <1>3, BlockFacts DEF Stable
      <4> QED
        BY <4>2, <1>5
    <3> QED
      BY <3>1, <3>2
  <2>3. \A i \in (n + 1) + 1 .. k : i \in n + 1 .. k
    BY <1>2, <1>4
  <2>4. n + 1 \in 1 .. n + 1
    BY <1>2
  <2> HIDE DEF s, n, k
  <2>5. \A i \in (n + 1) + 1 .. k :
          MessagesGet(Slot(f)', i) \in DOMAIN heap' /\ heap'[MessagesGet(Slot(f)', i)].tokens = <<>>
    BY <2>3, <1>5, <1>6
  <2>6. k = Slot(f)'.cap \div Slot(f)'.stride
    BY <1>2 DEF k
  <2> QED
    BY <2>1, <2>2, <2>4, <2>5, <2>6, <1>2, <1>4, <1>7 DEF BlockInv
<1> QED
  BY <1>5, <1>9, <1>10

\* A message behind a pointer.
LEMMA OutlinedHeap ==
  ASSUME NEW f, NEW t, NEW r, MessagesCall(f, r), ParseOutlined(f, t, r), IsSeq(heap), BlockInv(f)
  PROVE  IsSeq(heap') /\ BlockInv(f)' /\ Grew(f)
<1> DEFINE n == MessagesLen(Slot(f))
           m == Len(heap) + 1
<1>1. heap' = Append(heap, NewMessage(f)) /\ PushElement(f, r, m)
  BY DEF ParseOutlined
<1>2. /\ Stable(f) /\ n \in Nat /\ MessagesLen(Slot(f)') = n + 1
      /\ MessagesGet(Slot(f)', n + 1) = m /\ Slot(f)'.stride = 0
  BY OutlinedInv
<1>3. /\ IsSeq(heap') /\ \A a \in DOMAIN heap : a \in DOMAIN heap' /\ heap'[a] = heap[a]
      /\ m \in DOMAIN heap' /\ heap'[m].tokens = <<>>
  BY <1>1, HeapAppend
<1>4. Grew(f)
  BY <1>2, <1>3 DEF Grew
<1>5. BlockInv(f)'
  <2>1. frame' # <<>> => frame'[1].addr = m
    BY <1>1 DEF PushElement, Push
  <2>2. MessagesInv(f)
    BY MessagesCallFacts
  <2>3. ASSUME NEW i \in 1 .. n + 1
        PROVE  MessagesGet(Slot(f)', i) \in DOMAIN heap'
    <3>1. CASE i = n + 1
      BY <3>1, <1>2, <1>3
    <3>2. CASE i # n + 1
      <4>1. i \in 1 .. n
        BY <3>2, <1>2
      <4>2. MessagesGet(Slot(f)', i) = MessagesGet(Slot(f), i) /\ MessagesGet(Slot(f), i) \in DOMAIN heap
        BY <4>1, <1>2, <2>2, BlockFacts DEF Stable
      <4> QED
        BY <4>2, <1>3
    <3> QED
      BY <3>1, <3>2
  <2>4. n + 1 \in 1 .. n + 1
    BY <1>2
  <2> HIDE DEF n, m
  <2> QED
    BY <2>1, <2>3, <2>4, <1>2 DEF BlockInv
<1> QED
  BY <1>3, <1>4, <1>5

\* What a record of the submessage does to the heap ...
LEMMA ChildSeq ==
  ASSUME IsSeq(heap), heap' \in {heap, ChildStored}
  PROVE  IsSeq(heap')
<1>1. CASE heap' = heap
  BY <1>1
<1>2. CASE heap' = ChildStored
  <2>1. PICK k \in Nat : DOMAIN heap = 1 .. k
    BY DEF IsSeq
  <2>2. heap' = [i \in 1 .. k |-> heap'[i]]
    BY <1>2, <2>1 DEF ChildStored
  <2> QED
    BY <2>2, ValuesAreSeq
<1> QED
  BY <1>1, <1>2

\* ... and to the list it is in.
LEMMA ChildHeap ==
  ASSUME NEW f, MessagesInv(f), IsSeq(heap), frame # <<>>,
         heap' \in {heap, ChildStored}, frame' # <<>> => frame'[1].addr = frame[1].addr,
         UNCHANGED <<schema, msg>>
  PROVE  IsSeq(heap') /\ (BlockInv(f) => BlockInv(f)')
<1> DEFINE s == Slot(f)
           n == MessagesLen(s)
           a == frame[1].addr
<1>1. Slot(f)' = s
  BY DEF Slot, SlotOf
<1>2. DOMAIN heap' = DOMAIN heap /\ \A x \in DOMAIN heap : x # a => heap'[x] = heap[x]
  BY DEF ChildStored
<1>3. IsSeq(heap')
  BY ChildSeq
<1>4. ASSUME BlockInv(f)
      PROVE  BlockInv(f)'
  <2>1. n \in Int /\ s.stride \in {0, Stride}
    BY MessagesSlot DEF MessagesLen, IsSeq
  <2>2. PICK j \in 1 .. n : a = MessagesGet(s, j)
    BY <1>4 DEF BlockInv
  <2>3. ASSUME s.stride # 0, NEW i \in n + 1 .. s.cap \div s.stride
        PROVE  MessagesGet(s, i) \in DOMAIN heap' /\ heap'[MessagesGet(s, i)].tokens = <<>>
    <3>1. s.base \in Nat /\ MessagesGet(s, i) \in DOMAIN heap /\ heap[MessagesGet(s, i)].tokens = <<>>
      BY <1>4, <2>3 DEF BlockInv
    <3>2. MessagesGet(s, i) = s.base + i - 1 /\ a = s.base + j - 1 /\ j < i
      BY <2>1, <2>2, <2>3 DEF MessagesGet
    <3>3. MessagesGet(s, i) # a
      BY <3>1, <3>2, <2>1
    <3> QED
      BY <3>1, <3>3, <1>2
  <2>4. frame' # <<>> => \E i \in 1 .. n : frame'[1].addr = MessagesGet(s, i)
    BY <2>2
  <2>5. /\ \A i \in 1 .. n : MessagesGet(s, i) \in DOMAIN heap'
        /\ s.stride # 0 => s.cap \in Nat /\ s.base \in Nat
    BY <1>2, <1>4 DEF BlockInv
  <2> QED
    BY <1>1, <2>3, <2>4, <2>5 DEF BlockInv
<1> QED
  BY <1>3, <1>4

----------------------------------------------------------------------------
(* Ranges *)

\* A range in a record that was read lies in one of the records.
LEMMA RecordOfRange ==
  ASSUME NEW m \in Nat \ {0}, NEW n \in Nat, NEW r \in Nat, r < m * (n + 1)
  PROVE  r \div m \in Nat /\ r \div m <= n
<1> DEFINE i == r \div m
           j == r % m
<1>1. i \in Int /\ j \in 0 .. m - 1 /\ r = m * i + j
  OBVIOUS
<1> HIDE DEF i, j
<1>2. ~(i > n)
  <2> SUFFICES ASSUME i > n
               PROVE  FALSE
    OBVIOUS
  <2>1. m * i = m * (n + 1) + m * (i - (n + 1))
    BY <1>1
  <2>2. i - (n + 1) \in Nat
    BY <1>1
  <2>3. m * (i - (n + 1)) \in Nat
    BY <2>2
  <2> DEFINE d == m * (n + 1)
             e == m * (i - (n + 1))
             g == m * i
  <2>4. d \in Int /\ e \in Nat /\ g \in Int /\ g = d + e /\ r = g + j /\ r < d
    BY <1>1, <2>1, <2>3
  <2> HIDE DEF d, e, g
  <2> QED
    BY <2>4, <1>1
<1>3. ~(i < 0)
  <2> SUFFICES ASSUME i < 0
               PROVE  FALSE
    OBVIOUS
  <2>1. 0 - (i + 1) \in Nat
    BY <1>1
  <2>2. m * (0 - (i + 1)) \in Nat /\ m * (0 - (i + 1)) = 0 - m * (i + 1) /\ m * (i + 1) = m * i + m
    BY <2>1, <1>1
  <2> DEFINE g == m * i
             e == m * (i + 1)
  <2>3. g \in Int /\ e \in Int /\ 0 - e \in Nat /\ e = g + m /\ r = g + j
    BY <1>1, <2>2
  <2> HIDE DEF g, e
  <2> QED
    BY <2>3, <1>1
<1> QED
  BY <1>1, <1>2, <1>3 DEF i

\* The ranges of n records, and of one more.
LEMMA RangesGrow ==
  ASSUME NEW n \in Nat, NEW j \in 0 .. MaxParts
  PROVE  /\ MaxParts + 1 \in Nat \ {0}
         /\ RangeAt(n, MaxParts) \in Nat /\ RangeAt(n, MaxParts) < (MaxParts + 1) * (n + 1)
         /\ RangeAt(n, MaxParts) <= RangeAt(n + 1, MaxParts)
         /\ RangeAt(n + 1, j) \in 0 .. RangeAt(n + 1, MaxParts)
<1> DEFINE m == MaxParts + 1
           d == m * n
           e == m * (n + 1)
<1>1. MaxParts \in Nat /\ m \in Nat \ {0} /\ m = MaxParts + 1
  BY SizeAssumption
<1>2. d \in Nat /\ e \in Nat /\ e = d + m
  BY <1>1
<1>3. RangeAt(n, MaxParts) = d + MaxParts /\ RangeAt(n + 1, MaxParts) = e + MaxParts
      /\ RangeAt(n + 1, j) = e + j
  BY DEF RangeAt
<1> HIDE DEF d
<1>4. (MaxParts + 1) * (n + 1) = e
  OBVIOUS
<1> HIDE DEF m, e
<1> QED
  BY <1>1, <1>2, <1>3, <1>4

\* What was read stays where it is.
LEMMA ContentKept ==
  ASSUME NEW src, IsSeq(src), NEW x, NEW r \in 0 .. RangeAt(Len(src), MaxParts)
  PROVE  ContentIn(Append(src, x), r) = ContentIn(src, r)
<1> DEFINE m == MaxParts + 1
           n == Len(src)
           i == r \div m
           j == r % m
           q == Append(src, x)
<1>1. /\ n \in Nat /\ IsSeq(q) /\ Len(q) = n + 1
      /\ \A k \in 1 .. n : q[k] = src[k]
  BY AppendIsSeq
<1>2. DOMAIN src = 1 .. n /\ DOMAIN q = 1 .. n + 1
  BY <1>1 DEF IsSeq
<1>3. m \in Nat \ {0} /\ r \in Nat /\ r < m * (n + 1)
  <2>1. 0 \in 0 .. MaxParts
    BY SizeAssumption
  <2>2. /\ m \in Nat \ {0} /\ RangeAt(n, MaxParts) \in Nat
        /\ RangeAt(n, MaxParts) < (MaxParts + 1) * (n + 1)
    BY <1>1, <2>1, RangesGrow
  <2> DEFINE e == (MaxParts + 1) * (n + 1)
  <2>3. e \in Nat
    BY <2>2, <1>1
  <2> HIDE DEF e, n
  <2> QED
    BY <2>2, <2>3 DEF e, n
<1>4. i \in Nat /\ i <= n
  <2> HIDE DEF m, n
  <2> QED
    BY <1>1, <1>3, RecordOfRange
<1>5. (i \in DOMAIN q <=> i \in DOMAIN src) /\ (i \in DOMAIN src => q[i] = src[i])
  <2> HIDE DEF i, q, n
  <2> QED
    BY <1>1, <1>2, <1>4
<1>6. /\ ContentIn(q, r) = IF r = 0 THEN <<>>
                           ELSE IF i \notin DOMAIN q THEN <<Garbage>>
                           ELSE IF j = 0 THEN q[i].c ELSE q[i].els[j].c
      /\ ContentIn(src, r) = IF r = 0 THEN <<>>
                             ELSE IF i \notin DOMAIN src THEN <<Garbage>>
                             ELSE IF j = 0 THEN src[i].c ELSE src[i].els[j].c
  BY DEF ContentIn
<1> HIDE DEF i, j, q
<1> QED
  BY <1>5, <1>6 DEF q

\* The widths of types are those of integers.
IntegerTypes == {uint8, uint32, int32, float32, uint64, int64, float64, zcRange, pointer, bool}

\* What a type of some bytes makes of a pattern.
LEMMA TruncFacts ==
  ASSUME NEW T \in IntegerTypes, NEW b \in Nat
  PROVE  Trunc(T, b) \in 0 .. b /\ Trunc(T, Trunc(T, b)) = Trunc(T, b) /\ Trunc(T, 0) = 0
<1>1. T.bits \in {Bits8, Bits32, Bits64}
  BY DEF IntegerTypes, uint8, uint32, int32, float32, uint64, int64, float64, zcRange, pointer, bool
<1>2. PICK m \in Nat \ {0} : m = 2^T.bits
  BY <1>1, WidthAssumption
<1>3. \A x : Trunc(T, x) = x % m
  BY <1>2 DEF Trunc
<1>4. b % m \in 0 .. b
  <2> DEFINE i == b \div m
             j == b % m
  <2>1. i \in Int /\ j \in 0 .. m - 1 /\ b = m * i + j
    OBVIOUS
  <2>2. i \in Nat
    <3>1. b < m * (b + 1)
      <4>1. m * (b + 1) = m * b + m /\ m * b >= b
        OBVIOUS
      <4> QED
        BY <4>1
    <3> HIDE DEF i
    <3> QED
      BY <3>1, RecordOfRange DEF i
  <2> HIDE DEF i, j
  <2>3. m * i \in Nat
    BY <2>2
  <2> DEFINE d == m * i
  <2>4. d \in Nat /\ b = d + j
    BY <2>1, <2>3
  <2> HIDE DEF d
  <2> QED
    BY <2>1, <2>4 DEF j
<1>5. (b % m) % m = b % m /\ 0 % m = 0
  <2>1. b % m \in 0 .. m - 1 /\ b % m = m * 0 + (b % m) /\ 0 = m * 0 + 0 /\ 0 \in 0 .. m - 1
    OBVIOUS
  <2> DEFINE c == b % m
  <2>2. c \in 0 .. m - 1 /\ c = m * 0 + c
    BY <2>1
  <2> HIDE DEF c
  <2>3. c % m = c
    BY <2>2
  <2> QED
    BY <2>3 DEF c
<1> QED
  BY <1>3, <1>4, <1>5

\* What is known of a step that reads a record.
Reads(f, r) ==
  /\ IsSeq(wire) /\ schema' = schema /\ wire' = Append(wire, WithField(r, f))

\* What was read, and the record that is read now, counts as read after the step.
LEMMA ReadGrows ==
  ASSUME NEW f, NEW r, Reads(f, r)
  PROVE  /\ IsSeq(wire') /\ Len(wire) \in Nat /\ Len(wire') = Len(wire) + 1
         /\ \A b : IsRead(b) => IsRead(b)'
         /\ \A b : (\E j \in 0 .. MaxParts : b = RangeAt(Len(wire) + 1, j)) => IsRead(b)'
<1>1. IsSeq(wire') /\ Len(wire) \in Nat /\ Len(wire') = Len(wire) + 1
  BY AppendIsSeq DEF Reads
<1>2. 0 \in 0 .. MaxParts
  BY SizeAssumption
<1>3. RangeAt(Len(wire), MaxParts) \in Nat /\ RangeAt(Len(wire), MaxParts) <= RangeAt(Len(wire) + 1, MaxParts)
  BY <1>1, <1>2, RangesGrow
<1>4. \A j \in 0 .. MaxParts : RangeAt(Len(wire) + 1, j) \in 0 .. RangeAt(Len(wire) + 1, MaxParts)
  BY <1>1, RangesGrow
<1>5. ASSUME NEW b
      PROVE  IsRead(b)' <=> b \in 0 .. RangeAt(Len(wire) + 1, MaxParts)
  <2>1. IsRead(b)' <=> b \in 0 .. RangeAt(Len(wire'), MaxParts)
    BY DEF IsRead, RangeAt
  <2> QED
    BY <2>1, <1>1
<1>6. ASSUME NEW b, IsRead(b)
      PROVE  IsRead(b)'
  <2> DEFINE u == RangeAt(Len(wire), MaxParts)
             v == RangeAt(Len(wire) + 1, MaxParts)
  <2>1. u \in Nat /\ u <= v /\ b \in 0 .. u
    BY <1>3, <1>6 DEF IsRead
  <2>2. v \in Nat
    <3>1. Len(wire) + 1 \in Nat
      BY <1>1
    <3> HIDE DEF u
    <3> QED
      BY <3>1, <1>2, RangesGrow
  <2> HIDE DEF u, v
  <2>3. b \in 0 .. v
    BY <2>1, <2>2
  <2> QED
    BY <2>3, <1>5 DEF v
<1>7. ASSUME NEW b, NEW j \in 0 .. MaxParts, b = RangeAt(Len(wire) + 1, j)
      PROVE  IsRead(b)'
  <2>1. b \in 0 .. RangeAt(Len(wire) + 1, MaxParts)
    BY <1>4, <1>7
  <2> QED
    BY <2>1, <1>5
<1> QED
  BY <1>1, <1>6, <1>7

\* A step that reads a record leaves what slots are read as.
LEMMA LoadKept ==
  ASSUME NEW f, NEW r, Reads(f, r), heap' = heap, NEW T \in IntegerTypes, NEW b,
         T.as = "range" => IsRead(b)
  PROVE  Load(T, b)' = Load(T, b)
<1>1. CASE T.as = "range"
  <2>1. b \in Nat /\ b \in 0 .. RangeAt(Len(wire), MaxParts)
    <3>1. Len(wire) \in Nat /\ 0 \in 0 .. MaxParts
      BY ReadGrows, SizeAssumption
    <3>2. RangeAt(Len(wire), MaxParts) \in Nat
      BY <3>1, RangesGrow
    <3> QED
      BY <3>2, <1>1 DEF IsRead
  <2> DEFINE t == Trunc(T, b)
  <2>2. t \in 0 .. b
    BY <2>1, TruncFacts
  <2>3. t \in 0 .. RangeAt(Len(wire), MaxParts)
    <3>1. Len(wire) \in Nat /\ 0 \in 0 .. MaxParts
      BY ReadGrows, SizeAssumption
    <3>2. RangeAt(Len(wire), MaxParts) \in Nat
      BY <3>1, RangesGrow
    <3> HIDE DEF t
    <3> QED
      BY <3>2, <2>1, <2>2
  <2> HIDE DEF t
  <2>4. ContentIn(wire', t) = ContentIn(wire, t)
    BY <2>3, ContentKept DEF Reads
  <2>5. Load(T, b) = ContentIn(wire, t) /\ Load(T, b)' = ContentIn(wire', t)
    BY <1>1 DEF Load, Content, ContentIn, t
  <2> QED
    BY <2>4, <2>5
<1>2. CASE T.as = "pointer"
  <2>1. Load(T, b) = (IF b \in DOMAIN heap THEN heap[b].tokens ELSE <<Garbage>>)
        /\ Load(T, b)' = (IF b \in DOMAIN heap' THEN heap'[b].tokens ELSE <<Garbage>>)
    BY <1>2 DEF Load
  <2> QED
    BY <2>1
<1>3. CASE T.as = "uint"
  BY <1>3 DEF Load
<1>4. CASE T.as = "int"
  BY <1>4 DEF Load
<1>5. CASE T.as = "bool"
  BY <1>5 DEF Load
<1>6. T.as \in {"uint", "int", "bool", "range", "pointer"}
  BY DEF IntegerTypes, uint8, uint32, int32, float32, uint64, int64, float64, zcRange, pointer, bool
<1> QED
  BY <1>1, <1>2, <1>3, <1>4, <1>5, <1>6

----------------------------------------------------------------------------
(* The archetypes of fields outside oneofs *)

\* The types of integers and floats.
Numbers == {uint32, int32, float32, uint64, int64, float64}

\* What thunks of singular and optional fields do.
FieldThunk(fd, t) ==
  LET mark == IF fd.card = "optional" THEN "bit" ELSE "nothing"
  IN  /\ fd.kind \in MessageKinds => t.parse = "message" /\ t.before = "nothing"
      /\ fd.kind = "Bool" => t.parse \in {"bool", "optionalBool"}
      /\ fd.kind \in StringKinds =>
           t.parse \in {"utf8", "bytes"} /\ t.T = zcRange /\ t.before = mark
      /\ fd.kind \notin StringKinds \cup MessageKinds \cup {"Bool"} =>
           t.parse \in {"varint", "zigzag", "fixed"} /\ t.before = mark

\* What their getters read.
FieldGetter(fd, g) ==
  LET get == IF fd.card = "optional" THEN "optional" ELSE "scalar"
  IN  /\ fd.kind \in MessageKinds => g = getMessage
      /\ fd.kind = "Bool" => g.get \in {"bit", "optionalBit"}
      /\ fd.kind \in StringKinds => g \in {Getter("text", zcRange), Getter("optional", zcRange)}
      /\ fd.kind \notin StringKinds \cup MessageKinds \cup {"Bool"} =>
           g \in {Getter(get, T) : T \in Numbers}
      /\ fd.card # "optional" => g.get # "optional"

\* Kinds by the width of their values.
Integers32 == {"Int32", "Uint32", "Sint32", "Fixed32", "Sfixed32", "Float", "Enum"}
Integers64 == {"Int64", "Uint64", "Sint64", "Fixed64", "Sfixed64", "Double"}

\* Every kind is of one of these forms.
LEMMA KindCases ==
  ASSUME NEW k \in Kinds
  PROVE  \/ k \in Integers32 \/ k \in Integers64 \/ k = "Bool" \/ k \in StringKinds \/ k \in MessageKinds
BY DEF Kinds, ScalarKinds, StringKinds, MessageKinds, Integers32, Integers64

\* An archetype with one parser.
LEMMA OneParser ==
  ASSUME NEW g, NEW k, NEW t
  PROVE  /\ Archetype(g, k, t).getter = g
         /\ \A p \in Archetype(g, k, t).parsers : p.kind = k /\ p.thunk = t
BY DEF Archetype, Parser

\* The rows of singularFields.
LEMMA SingularArchetype ==
  ASSUME NEW fd, fd.card = "singular", fd.kind \in Kinds, NEW p \in SelectArchetype(fd).parsers
  PROVE  FieldThunk(fd, p.thunk) /\ FieldGetter(fd, SelectArchetype(fd).getter)
<1> DEFINE k == fd.kind
           a == singularFields[k]
<1>1. SelectArchetype(fd) = a
  BY DEF SelectArchetype
<1>2. CASE k \in Integers32
  <2>1. a \in {Archetype(getScalar(int32), "varint", parseVarint32),
              Archetype(getScalar(uint32), "varint", parseVarint32),
              Archetype(getScalar(int32), "varint", parseZigZag32),
              Archetype(getScalar(uint32), "fixed32", parseFixed32),
              Archetype(getScalar(int32), "fixed32", parseFixed32),
              Archetype(getFloat32, "fixed32", parseFixed32),
              Archetype(getScalar(EnumNumber), "varint", parseVarint32)}
    BY <1>2 DEF Integers32, singularFields
  <2>2. /\ a.getter \in {getScalar(int32), getScalar(uint32), getFloat32, getScalar(EnumNumber)}
        /\ p.thunk \in {parseVarint32, parseZigZag32, parseFixed32}
    BY <1>1, <2>1, OneParser
  <2>3. a.getter \in {Getter("scalar", T) : T \in Numbers}
    BY <2>2 DEF getScalar, getFloat32, EnumNumber, Numbers
  <2>4. /\ p.thunk.parse \in {"varint", "zigzag", "fixed"}
        /\ p.thunk.before = "nothing"
    BY <2>2 DEF parseVarint32, parseZigZag32, parseFixed32, Thunk
  <2>5. k \notin StringKinds \cup MessageKinds \cup {"Bool"}
    BY <1>2 DEF Integers32, StringKinds, MessageKinds
  <2>6. a.getter.get = "scalar"
    <3>1. PICK T : a.getter = Getter("scalar", T)
      BY <2>3
    <3> QED
      BY <3>1 DEF Getter
  <2> QED
    BY <1>1, <2>3, <2>4, <2>5, <2>6 DEF FieldThunk, FieldGetter
<1>3. CASE k \in Integers64
  <2>1. a \in {Archetype(getScalar(int64), "varint", parseVarint64),
              Archetype(getScalar(uint64), "varint", parseVarint64),
              Archetype(getScalar(int64), "varint", parseZigZag64),
              Archetype(getScalar(uint64), "fixed64", parseFixed64),
              Archetype(getScalar(int64), "fixed64", parseFixed64),
              Archetype(getFloat64, "fixed64", parseFixed64)}
    BY <1>3 DEF Integers64, singularFields
  <2>2. /\ a.getter \in {getScalar(int64), getScalar(uint64), getFloat64}
        /\ p.thunk \in {parseVarint64, parseZigZag64, parseFixed64}
    BY <1>1, <2>1, OneParser
  <2>3. a.getter \in {Getter("scalar", T) : T \in Numbers}
    BY <2>2 DEF getScalar, getFloat64, Numbers
  <2>4. /\ p.thunk.parse \in {"varint", "zigzag", "fixed"}
        /\ p.thunk.before = "nothing"
    BY <2>2 DEF parseVarint64, parseZigZag64, parseFixed64, Thunk
  <2>5. k \notin StringKinds \cup MessageKinds \cup {"Bool"}
    BY <1>3 DEF Integers64, StringKinds, MessageKinds
  <2>6. a.getter.get = "scalar"
    <3>1. PICK T : a.getter = Getter("scalar", T)
      BY <2>3
    <3> QED
      BY <3>1 DEF Getter
  <2> QED
    BY <1>1, <2>3, <2>4, <2>5, <2>6 DEF FieldThunk, FieldGetter
<1>4. CASE k = "Bool"
  <2>1. a = Archetype(getBool, "varint", parseBool)
    BY <1>4 DEF singularFields
  <2>2. a.getter = getBool /\ p.thunk = parseBool
    BY <1>1, <2>1, OneParser
  <2> QED
    BY <1>1, <1>4, <2>2 DEF parseBool, getBool, Thunk, FieldThunk, FieldGetter, Getter,
       StringKinds, MessageKinds
<1>5. CASE k \in StringKinds
  <2>1. a \in {Archetype(getString, "bytes", parseString),
              Archetype(getString, "bytes", parseBytes),
              Archetype(getBytes, "bytes", parseBytes)}
    BY <1>5 DEF StringKinds, singularFields
  <2>2. a.getter \in {getString, getBytes} /\ p.thunk \in {parseString, parseBytes}
    BY <1>1, <2>1, OneParser
  <2>3. a.getter = Getter("text", zcRange)
    BY <2>2 DEF getString, getBytes
  <2>4. /\ p.thunk.parse \in {"utf8", "bytes"} /\ p.thunk.T = zcRange
        /\ p.thunk.before = "nothing"
    BY <2>2 DEF parseString, parseBytes, Thunk
  <2>5. k \notin MessageKinds \cup {"Bool"}
    BY <1>5 DEF StringKinds, MessageKinds
  <2>6. a.getter.get = "text"
    BY <2>3 DEF Getter
  <2> QED
    BY <1>1, <1>5, <2>3, <2>4, <2>5, <2>6 DEF FieldThunk, FieldGetter
<1>6. CASE k \in MessageKinds
  <2>1. a \in {Archetype(getMessage, "bytes", parseMessage), Archetype(getMessage, "group", parseGroup)}
    BY <1>6 DEF MessageKinds, singularFields
  <2>2. a.getter = getMessage /\ p.thunk \in {parseMessage, parseGroup}
    BY <1>1, <2>1, OneParser
  <2> QED
    BY <1>1, <1>6, <2>2 DEF parseMessage, parseGroup, getMessage, Thunk, FieldThunk, FieldGetter, Getter,
       StringKinds, MessageKinds
<1> QED
  BY <1>2, <1>3, <1>4, <1>5, <1>6, KindCases

\* The rows of optionalFields.
LEMMA OptionalArchetype ==
  ASSUME NEW fd, fd.card = "optional", fd.kind \in Kinds, NEW p \in SelectArchetype(fd).parsers
  PROVE  FieldThunk(fd, p.thunk) /\ FieldGetter(fd, SelectArchetype(fd).getter)
<1> DEFINE k == fd.kind
           a == optionalFields[k]
<1>1. SelectArchetype(fd) = a
  BY DEF SelectArchetype
<1>2. CASE k \in Integers32
  <2>1. a \in {Archetype(getOptionalScalar(int32), "varint", SetBitThen(parseVarint32)),
              Archetype(getOptionalScalar(uint32), "varint", SetBitThen(parseVarint32)),
              Archetype(getOptionalScalar(int32), "varint", SetBitThen(parseZigZag32)),
              Archetype(getOptionalScalar(uint32), "fixed32", SetBitThen(parseFixed32)),
              Archetype(getOptionalScalar(int32), "fixed32", SetBitThen(parseFixed32)),
              Archetype(getOptionalScalar(float32), "fixed32", SetBitThen(parseFixed32)),
              Archetype(getOptionalScalar(EnumNumber), "varint", SetBitThen(parseVarint32))}
    BY <1>2 DEF Integers32, optionalFields
  <2>2. /\ a.getter \in {getOptionalScalar(int32), getOptionalScalar(uint32),
                         getOptionalScalar(float32), getOptionalScalar(EnumNumber)}
        /\ p.thunk \in {SetBitThen(parseVarint32), SetBitThen(parseZigZag32),
                        SetBitThen(parseFixed32)}
    BY <1>1, <2>1, OneParser
  <2>3. a.getter \in {Getter("optional", T) : T \in Numbers}
    BY <2>2 DEF getOptionalScalar, EnumNumber, Numbers
  <2>4. /\ p.thunk.parse \in {"varint", "zigzag", "fixed"}
        /\ p.thunk.before = "bit"
    BY <2>2 DEF SetBitThen, parseVarint32, parseZigZag32, parseFixed32, Thunk
  <2>5. k \notin StringKinds \cup MessageKinds \cup {"Bool"}
    BY <1>2 DEF Integers32, StringKinds, MessageKinds
  <2>6. a.getter.get = "optional"
    <3>1. PICK T : a.getter = Getter("optional", T)
      BY <2>3
    <3> QED
      BY <3>1 DEF Getter
  <2> QED
    BY <1>1, <2>3, <2>4, <2>5, <2>6 DEF FieldThunk, FieldGetter
<1>3. CASE k \in Integers64
  <2>1. a \in {Archetype(getOptionalScalar(int64), "varint", SetBitThen(parseVarint64)),
              Archetype(getOptionalScalar(uint64), "varint", SetBitThen(parseVarint64)),
              Archetype(getOptionalScalar(int64), "varint", SetBitThen(parseZigZag64)),
              Archetype(getOptionalScalar(uint64), "fixed64", SetBitThen(parseFixed64)),
              Archetype(getOptionalScalar(int64), "fixed64", SetBitThen(parseFixed64)),
              Archetype(getOptionalScalar(float64), "fixed64", SetBitThen(parseFixed64))}
    BY <1>3 DEF Integers64, optionalFields
  <2>2. /\ a.getter \in {getOptionalScalar(int64), getOptionalScalar(uint64),
                         getOptionalScalar(float64)}
        /\ p.thunk \in {SetBitThen(parseVarint64), SetBitThen(parseZigZag64),
                        SetBitThen(parseFixed64)}
    BY <1>1, <2>1, OneParser
  <2>3. a.getter \in {Getter("optional", T) : T \in Numbers}
    BY <2>2 DEF getOptionalScalar, Numbers
  <2>4. /\ p.thunk.parse \in {"varint", "zigzag", "fixed"}
        /\ p.thunk.before = "bit"
    BY <2>2 DEF SetBitThen, parseVarint64, parseZigZag64, parseFixed64, Thunk
  <2>5. k \notin StringKinds \cup MessageKinds \cup {"Bool"}
    BY <1>3 DEF Integers64, StringKinds, MessageKinds
  <2>6. a.getter.get = "optional"
    <3>1. PICK T : a.getter = Getter("optional", T)
      BY <2>3
    <3> QED
      BY <3>1 DEF Getter
  <2> QED
    BY <1>1, <2>3, <2>4, <2>5, <2>6 DEF FieldThunk, FieldGetter
<1>4. CASE k = "Bool"
  <2>1. a = Archetype(getOptionalBool, "varint", parseOptionalBool)
    BY <1>4 DEF optionalFields
  <2>2. a.getter = getOptionalBool /\ p.thunk = parseOptionalBool
    BY <1>1, <2>1, OneParser
  <2> QED
    BY <1>1, <1>4, <2>2 DEF parseOptionalBool, getOptionalBool, Thunk, FieldThunk, FieldGetter, Getter,
       StringKinds, MessageKinds
<1>5. CASE k \in StringKinds
  <2>1. a \in {Archetype(getOptionalString, "bytes", SetBitThen(parseString)),
              Archetype(getOptionalString, "bytes", SetBitThen(parseBytes)),
              Archetype(getOptionalBytes, "bytes", SetBitThen(parseBytes))}
    BY <1>5 DEF StringKinds, optionalFields
  <2>2. /\ a.getter \in {getOptionalString, getOptionalBytes}
        /\ p.thunk \in {SetBitThen(parseString), SetBitThen(parseBytes)}
    BY <1>1, <2>1, OneParser
  <2>3. a.getter = Getter("optional", zcRange)
    BY <2>2 DEF getOptionalString, getOptionalBytes
  <2>4. /\ p.thunk.parse \in {"utf8", "bytes"} /\ p.thunk.T = zcRange
        /\ p.thunk.before = "bit"
    BY <2>2 DEF SetBitThen, parseString, parseBytes, Thunk
  <2>5. k \notin MessageKinds \cup {"Bool"}
    BY <1>5 DEF StringKinds, MessageKinds
  <2>6. a.getter.get = "optional"
    <3>1. PICK T : a.getter = Getter("optional", T)
      BY <2>3
    <3> QED
      BY <3>1 DEF Getter
  <2> QED
    BY <1>1, <1>5, <2>3, <2>4, <2>5, <2>6 DEF FieldThunk, FieldGetter
<1>6. CASE k \in MessageKinds
  <2>1. a \in {Archetype(getMessage, "bytes", parseMessage), Archetype(getMessage, "group", parseGroup)}
    BY <1>6 DEF MessageKinds, optionalFields, singularFields
  <2>2. a.getter = getMessage /\ p.thunk \in {parseMessage, parseGroup}
    BY <1>1, <2>1, OneParser
  <2> QED
    BY <1>1, <1>6, <2>2 DEF parseMessage, parseGroup, getMessage, Thunk, FieldThunk, FieldGetter, Getter,
       StringKinds, MessageKinds
<1> QED
  BY <1>2, <1>3, <1>4, <1>5, <1>6, KindCases

\* The getters of repeated fields.
ListTypes == Numbers \cup {uint8}

\* The rows of repeatedFields.
LEMMA RepeatedGetter ==
  ASSUME NEW fd, fd.card = "repeated", fd.kind \in Kinds
  PROVE  LET g == SelectArchetype(fd).getter
         IN  /\ fd.kind \in StringKinds => g.get = "listText"
             /\ fd.kind \in MessageKinds => g.get = "listMessage"
             /\ fd.kind \notin StringKinds \cup MessageKinds =>
                  g.get \in {"list", "listBool"} /\ g.E \in ListTypes
<1> DEFINE k == fd.kind
           g == repeatedFields[k].getter
<1>1. SelectArchetype(fd).getter = g
  BY DEF SelectArchetype
<1>2. CASE k \in Integers32
  <2>1. g \in {getRepeatedScalar(uint8, int32), getRepeatedScalar(uint8, uint32),
               getRepeatedZigzag(uint8, int32), getRepeatedScalar(uint32, uint32),
               getRepeatedScalar(int32, int32), getRepeatedScalar(float32, float32)}
    BY <1>2 DEF Integers32, repeatedFields, Varints32, Fixeds32, Both, EnumNumber
  <2> QED
    BY <1>1, <1>2, <2>1 DEF getRepeatedScalar, getRepeatedZigzag, ListTypes, Numbers, Integers32,
       StringKinds, MessageKinds
<1>3. CASE k \in Integers64
  <2>1. g \in {getRepeatedScalar(uint8, int64), getRepeatedScalar(uint8, uint64),
               getRepeatedZigzag(uint8, int64), getRepeatedScalar(uint64, uint64),
               getRepeatedScalar(int64, int64), getRepeatedScalar(float64, float64)}
    BY <1>3 DEF Integers64, repeatedFields, Varints64, Fixeds64, Both
  <2> QED
    BY <1>1, <1>3, <2>1 DEF getRepeatedScalar, getRepeatedZigzag, ListTypes, Numbers, Integers64,
       StringKinds, MessageKinds
<1>4. CASE k = "Bool"
  <2>1. g = getRepeatedBool
    BY <1>4 DEF repeatedFields, Both
  <2> QED
    BY <1>1, <1>4, <2>1 DEF getRepeatedBool, ListTypes, StringKinds, MessageKinds
<1>5. CASE k \in StringKinds
  <2>1. g = getRepeatedString
    BY <1>5 DEF StringKinds, repeatedFields, Archetype, getRepeatedString, getRepeatedBytes
  <2> QED
    BY <1>1, <1>5, <2>1 DEF getRepeatedString, StringKinds, MessageKinds
<1>6. CASE k \in MessageKinds
  <2>1. g = getRepeatedMessage
    BY <1>6 DEF MessageKinds, repeatedFields, Archetype
  <2> QED
    BY <1>1, <1>6, <2>1 DEF getRepeatedMessage, StringKinds, MessageKinds
<1> QED
  BY <1>2, <1>3, <1>4, <1>5, <1>6, KindCases

----------------------------------------------------------------------------
(* The archetypes of map fields *)

\* How keys and values that are bytes in the input are parsed.
Texts == {"utf8", "bytes"}

\* Insert functions by their columns.
Inserts ==
  {InsertU8xU8, InsertU8xU32, InsertU8xU64, InsertU8xP, InsertU32xU8, InsertU32xU32, InsertU32xU64,
   InsertU32xP, InsertU64xU8, InsertU64xU32, InsertU64xU64, InsertU64xP}

\* A thunk whose key item is ki, of any value, of text, and of messages.
KeyedBy(ki, t) == \E vi, init, insert : insert \in Inserts /\ t = MapKxV(ki, vi, init, insert)
TextOf(ki, t) ==
  \E vi, init, insert :
    insert \in Inserts /\ vi \in {stringItem, bytesItem} /\ t = MapKxV(ki, vi, init, insert)
MessageOf(ki, t) == \E init, insert : insert \in Inserts /\ t = MapKxM(ki, init, insert)

\* A row of thunks with the key item ki.
ThunkRow(ki, th) ==
  /\ \A t \in {th.V32, th.V64, th.Z32, th.Z64, th.F32, th.F64, th.two} : KeyedBy(ki, t)
  /\ TextOf(ki, th.S) /\ TextOf(ki, th.B) /\ MessageOf(ki, th.M)

\* What the thunks of a row are made of, and the types of their insert functions.
LEMMA ThunkForms ==
  ASSUME NEW ki, NEW vi, NEW init, NEW insert \in Inserts
  PROVE  /\ KeyedBy(ki, MapKxV(ki, vi, init, insert))
         /\ vi \in {stringItem, bytesItem} => TextOf(ki, MapKxV(ki, vi, init, insert))
         /\ MessageOf(ki, MapKxM(ki, init, insert))
BY DEF KeyedBy, TextOf, MessageOf

LEMMA InsertForms ==
  ASSUME NEW t \in Inserts
  PROVE  t.key \in {uint8, uint32, uint64} /\ t.val \in {uint8, uint32, uint64, pointer}
BY DEF Inserts, InsertU8xU8, InsertU8xU32, InsertU8xU64, InsertU8xP, InsertU32xU8, InsertU32xU32,
       InsertU32xU64, InsertU32xP, InsertU64xU8, InsertU64xU32, InsertU64xU64, InsertU64xP, TableStencil

\* The rows of thunks.
LEMMA ThunkRows ==
  /\ ThunkRow(varint32Item, parseMapV32)
  /\ ThunkRow(varint64Item, parseMapV64)
  /\ ThunkRow(zigzag32Item, parseMapZ32)
  /\ ThunkRow(zigzag64Item, parseMapZ64)
  /\ ThunkRow(fixed32Item, parseMapF32)
  /\ ThunkRow(fixed64Item, parseMapF64)
  /\ ThunkRow(stringItem, parseMapS)
  /\ ThunkRow(bytesItem, parseMapB)
  /\ ThunkRow(boolItem, parseMapTwo)
<1>1. ThunkRow(varint32Item, parseMapV32)
  <2>1. /\ \A t \in {parseMapV32xV32, parseMapV32xV64, parseMapV32xZ32, parseMapV32xZ64,
                parseMapV32xF32, parseMapV32xF64, parseMapV32x2} : KeyedBy(varint32Item, t)
        /\ TextOf(varint32Item, parseMapV32xS) /\ TextOf(varint32Item, parseMapV32xB)
        /\ MessageOf(varint32Item, parseMapV32xM)
    BY ThunkForms DEF Inserts, parseMapV32xV32, parseMapV32xV64, parseMapV32xZ32, parseMapV32xZ64,
       parseMapV32xF32, parseMapV32xF64, parseMapV32x2, parseMapV32xS, parseMapV32xB, parseMapV32xM
  <2> QED
    BY <2>1 DEF ThunkRow, parseMapV32
<1>2. ThunkRow(varint64Item, parseMapV64)
  <2>1. /\ \A t \in {parseMapV64xV32, parseMapV64xV64, parseMapV64xZ32, parseMapV64xZ64,
                parseMapV64xF32, parseMapV64xF64, parseMapV64x2} : KeyedBy(varint64Item, t)
        /\ TextOf(varint64Item, parseMapV64xS) /\ TextOf(varint64Item, parseMapV64xB)
        /\ MessageOf(varint64Item, parseMapV64xM)
    BY ThunkForms DEF Inserts, parseMapV64xV32, parseMapV64xV64, parseMapV64xZ32, parseMapV64xZ64,
       parseMapV64xF32, parseMapV64xF64, parseMapV64x2, parseMapV64xS, parseMapV64xB, parseMapV64xM
  <2> QED
    BY <2>1 DEF ThunkRow, parseMapV64
<1>3. ThunkRow(zigzag32Item, parseMapZ32)
  <2>1. /\ \A t \in {parseMapZ32xV32, parseMapZ32xV64, parseMapZ32xZ32, parseMapZ32xZ64,
                parseMapZ32xF32, parseMapZ32xF64, parseMapZ32x2} : KeyedBy(zigzag32Item, t)
        /\ TextOf(zigzag32Item, parseMapZ32xS) /\ TextOf(zigzag32Item, parseMapZ32xB)
        /\ MessageOf(zigzag32Item, parseMapZ32xM)
    BY ThunkForms DEF Inserts, parseMapZ32xV32, parseMapZ32xV64, parseMapZ32xZ32, parseMapZ32xZ64,
       parseMapZ32xF32, parseMapZ32xF64, parseMapZ32x2, parseMapZ32xS, parseMapZ32xB, parseMapZ32xM
  <2> QED
    BY <2>1 DEF ThunkRow, parseMapZ32
<1>4. ThunkRow(zigzag64Item, parseMapZ64)
  <2>1. /\ \A t \in {parseMapZ64xV32, parseMapZ64xV64, parseMapZ64xZ32, parseMapZ64xZ64,
                parseMapZ64xF32, parseMapZ64xF64, parseMapZ64x2} : KeyedBy(zigzag64Item, t)
        /\ TextOf(zigzag64Item, parseMapZ64xS) /\ TextOf(zigzag64Item, parseMapZ64xB)
        /\ MessageOf(zigzag64Item, parseMapZ64xM)
    BY ThunkForms DEF Inserts, parseMapZ64xV32, parseMapZ64xV64, parseMapZ64xZ32, parseMapZ64xZ64,
       parseMapZ64xF32, parseMapZ64xF64, parseMapZ64x2, parseMapZ64xS, parseMapZ64xB, parseMapZ64xM
  <2> QED
    BY <2>1 DEF ThunkRow, parseMapZ64
<1>5. ThunkRow(fixed32Item, parseMapF32)
  <2>1. /\ \A t \in {parseMapF32xV32, parseMapF32xV64, parseMapF32xZ32, parseMapF32xZ64,
                parseMapF32xF32, parseMapF32xF64, parseMapF32x2} : KeyedBy(fixed32Item, t)
        /\ TextOf(fixed32Item, parseMapF32xS) /\ TextOf(fixed32Item, parseMapF32xB)
        /\ MessageOf(fixed32Item, parseMapF32xM)
    BY ThunkForms DEF Inserts, parseMapF32xV32, parseMapF32xV64, parseMapF32xZ32, parseMapF32xZ64,
       parseMapF32xF32, parseMapF32xF64, parseMapF32x2, parseMapF32xS, parseMapF32xB, parseMapF32xM
  <2> QED
    BY <2>1 DEF ThunkRow, parseMapF32
<1>6. ThunkRow(fixed64Item, parseMapF64)
  <2>1. /\ \A t \in {parseMapF64xV32, parseMapF64xV64, parseMapF64xZ32, parseMapF64xZ64,
                parseMapF64xF32, parseMapF64xF64, parseMapF64x2} : KeyedBy(fixed64Item, t)
        /\ TextOf(fixed64Item, parseMapF64xS) /\ TextOf(fixed64Item, parseMapF64xB)
        /\ MessageOf(fixed64Item, parseMapF64xM)
    BY ThunkForms DEF Inserts, parseMapF64xV32, parseMapF64xV64, parseMapF64xZ32, parseMapF64xZ64,
       parseMapF64xF32, parseMapF64xF64, parseMapF64x2, parseMapF64xS, parseMapF64xB, parseMapF64xM
  <2> QED
    BY <2>1 DEF ThunkRow, parseMapF64
<1>7. ThunkRow(stringItem, parseMapS)
  <2>1. /\ \A t \in {parseMapSxV32, parseMapSxV64, parseMapSxZ32, parseMapSxZ64,
                parseMapSxF32, parseMapSxF64, parseMapSx2} : KeyedBy(stringItem, t)
        /\ TextOf(stringItem, parseMapSxS) /\ TextOf(stringItem, parseMapSxB)
        /\ MessageOf(stringItem, parseMapSxM)
    BY ThunkForms DEF Inserts, parseMapSxV32, parseMapSxV64, parseMapSxZ32, parseMapSxZ64, parseMapSxF32,
       parseMapSxF64, parseMapSx2, parseMapSxS, parseMapSxB, parseMapSxM
  <2> QED
    BY <2>1 DEF ThunkRow, parseMapS
<1>8. ThunkRow(bytesItem, parseMapB)
  <2>1. /\ \A t \in {parseMapBxV32, parseMapBxV64, parseMapBxZ32, parseMapBxZ64,
                parseMapBxF32, parseMapBxF64, parseMapBx2} : KeyedBy(bytesItem, t)
        /\ TextOf(bytesItem, parseMapBxS) /\ TextOf(bytesItem, parseMapBxB)
        /\ MessageOf(bytesItem, parseMapBxM)
    BY ThunkForms DEF Inserts, parseMapBxV32, parseMapBxV64, parseMapBxZ32, parseMapBxZ64, parseMapBxF32,
       parseMapBxF64, parseMapBx2, parseMapBxS, parseMapBxB, parseMapBxM
  <2> QED
    BY <2>1 DEF ThunkRow, parseMapB
<1>9. ThunkRow(boolItem, parseMapTwo)
  <2>1. /\ \A t \in {parseMap2xV32, parseMap2xV64, parseMap2xZ32, parseMap2xZ64,
                parseMap2xF32, parseMap2xF64, parseMap2x2} : KeyedBy(boolItem, t)
        /\ TextOf(boolItem, parseMap2xS) /\ TextOf(boolItem, parseMap2xB)
        /\ MessageOf(boolItem, parseMap2xM)
    BY ThunkForms DEF Inserts, parseMap2xV32, parseMap2xV64, parseMap2xZ32, parseMap2xZ64, parseMap2xF32,
       parseMap2xF64, parseMap2x2, parseMap2xS, parseMap2xB, parseMap2xM
  <2> QED
    BY <2>1 DEF ThunkRow, parseMapTwo
<1> QED
  BY <1>1, <1>2, <1>3, <1>4, <1>5, <1>6, <1>7, <1>8, <1>9

\* A getter of keys K and values V, which may be bytes in the input, fits a thunk.
TableThunk(g, t) ==
  /\ g.get = "map" /\ g.K \in IntegerTypes /\ g.V \in IntegerTypes
  /\ t.parse \in {"mapKxV", "mapKxM"} /\ t.insert.key \in IntegerTypes /\ t.insert.val \in IntegerTypes
  /\ g.K.as = "range" => t.ki.parse \in Texts
  /\ g.V.as = "range" => t.parse = "mapKxV" /\ t.vi.parse \in Texts

\* A getter of a key type and a value type fits the thunks of the key item.
LEMMA TableThunkForms ==
  ASSUME NEW ki, NEW t, NEW K \in IntegerTypes, K.as = "range" => ki.parse \in Texts,
         NEW V \in IntegerTypes,
         \/ V.as # "range" /\ (KeyedBy(ki, t) \/ MessageOf(ki, t))
         \/ TextOf(ki, t)
  PROVE  TableThunk(MapGetter(K, V), t)
<1>1. ASSUME NEW insert \in Inserts
      PROVE  insert.key \in IntegerTypes /\ insert.val \in IntegerTypes
  BY InsertForms DEF IntegerTypes
<1>2. /\ MapGetter(K, V).get = "map" /\ MapGetter(K, V).K = K /\ MapGetter(K, V).V = V
  BY DEF MapGetter
<1>3. ASSUME NEW vi, NEW init, NEW insert \in Inserts, t = MapKxV(ki, vi, init, insert),
             V.as # "range" \/ vi \in {stringItem, bytesItem}
      PROVE  TableThunk(MapGetter(K, V), t)
  <2>1. t.parse = "mapKxV" /\ t.ki = ki /\ t.vi = vi /\ t.insert = insert
    BY <1>3 DEF MapKxV
  <2>2. vi \in {stringItem, bytesItem} => vi.parse \in Texts
    BY DEF stringItem, bytesItem, Item, Texts
  <2> QED
    BY <1>1, <1>2, <1>3, <2>1, <2>2 DEF TableThunk
<1>4. ASSUME NEW init, NEW insert \in Inserts, t = MapKxM(ki, init, insert), V.as # "range"
      PROVE  TableThunk(MapGetter(K, V), t)
  <2>1. t.parse = "mapKxM" /\ t.ki = ki /\ t.insert = insert
    BY <1>4 DEF MapKxM
  <2> QED
    BY <1>1, <1>2, <1>4, <2>1 DEF TableThunk
<1> QED
  BY <1>3, <1>4 DEF KeyedBy, TextOf, MessageOf

\* The columns of a row of mapFields.
LEMMA MapRowArchetype ==
  ASSUME NEW ki, NEW th, ThunkRow(ki, th), NEW K \in IntegerTypes, K.as = "range" => ki.parse \in Texts,
         NEW k \in Kinds \ {"Group"}, NEW getI,
         \A j \in ScalarKinds : getI[j] = MapGetter(K, ScalarType[j]),
         NEW p \in MapRow(getI, MapGetter(K, zcRange), MapGetter(K, zcRange), MapGetter(K, pointer),
                         th)[k].parsers
  PROVE  /\ p.kind = "entry"
         /\ TableThunk(MapRow(getI, MapGetter(K, zcRange), MapGetter(K, zcRange), MapGetter(K, pointer),
                              th)[k].getter, p.thunk)
         /\ p.thunk.parse = "mapKxM" => k \in MessageKinds
<1> DEFINE S == MapGetter(K, zcRange)
           M == MapGetter(K, pointer)
           a == MapRow(getI, S, S, M, th)[k]
<1>1. CASE k \in ScalarKinds
  <2>1. \E t \in {th.V32, th.V64, th.Z32, th.Z64, th.F32, th.F64, th.two} :
          a = mapArch(MapGetter(K, ScalarType[k]), t)
    <3>1. \E t \in {th.V32, th.V64, th.Z32, th.Z64, th.F32, th.F64, th.two} : a = mapArch(getI[k], t)
      BY <1>1 DEF ScalarKinds, MapRow
    <3> QED
      BY <1>1, <3>1
  <2>2. PICK t : KeyedBy(ki, t) /\ a = mapArch(MapGetter(K, ScalarType[k]), t)
    BY <2>1 DEF ThunkRow
  <2>3. a.getter = MapGetter(K, ScalarType[k]) /\ p.thunk = t /\ p.kind = "entry"
    BY <2>2, OneParser DEF mapArch
  <2>4. ScalarType[k] \in Numbers \cup {bool}
    BY <1>1 DEF ScalarKinds, ScalarType, Numbers, EnumNumber
  <2>5. ScalarType[k] \in IntegerTypes /\ ScalarType[k].as # "range"
    BY <2>4 DEF Numbers, IntegerTypes, uint32, int32, float32, uint64, int64, float64, bool
  <2>6. t.parse = "mapKxV"
    BY <2>2 DEF KeyedBy, MapKxV
  <2> QED
    BY <2>2, <2>3, <2>5, <2>6, TableThunkForms
<1>2. CASE k \in StringKinds
  <2>1. a \in {mapArch(S, th.S), mapArch(S, th.B)}
    BY <1>2 DEF StringKinds, MapRow
  <2>2. a.getter = S /\ p.thunk \in {th.S, th.B} /\ p.kind = "entry"
    BY <2>1, OneParser DEF mapArch
  <2>3. zcRange \in IntegerTypes
    BY DEF IntegerTypes
  <2>4. p.thunk.parse = "mapKxV"
    BY <2>2 DEF ThunkRow, TextOf, MapKxV
  <2> QED
    BY <2>2, <2>3, <2>4, TableThunkForms DEF ThunkRow
<1>3. CASE k = "Message"
  <2>1. a = mapArch(M, th.M)
    BY <1>3 DEF MapRow
  <2>2. a.getter = M /\ p.thunk = th.M /\ p.kind = "entry"
    BY <2>1, OneParser DEF mapArch
  <2>3. pointer \in IntegerTypes /\ pointer.as # "range"
    BY DEF IntegerTypes, pointer
  <2>4. k \in MessageKinds
    BY <1>3 DEF MessageKinds
  <2> QED
    BY <2>2, <2>3, <2>4, TableThunkForms DEF ThunkRow
<1> QED
  BY <1>1, <1>2, <1>3 DEF Kinds, MessageKinds

\* The rows of mapFields.
LEMMA MapArchetype ==
  ASSUME NEW fd, fd.card = "map", fd.key \in DOMAIN mapFields, fd.kind \in Kinds \ {"Group"},
         NEW p \in SelectArchetype(fd).parsers
  PROVE  /\ p.kind = "entry" /\ TableThunk(SelectArchetype(fd).getter, p.thunk)
         /\ p.thunk.parse = "mapKxM" => fd.kind \in MessageKinds
<1> DEFINE key == fd.key
           k == fd.kind
<1>1. SelectArchetype(fd) = mapFields[key][k]
  BY DEF SelectArchetype
<1>2. ASSUME NEW ki, NEW th, ThunkRow(ki, th), NEW K \in IntegerTypes, K.as # "range",
             mapFields[key] = IntRow(K, th)
      PROVE  /\ p.kind = "entry" /\ TableThunk(SelectArchetype(fd).getter, p.thunk)
             /\ p.thunk.parse = "mapKxM" => k \in MessageKinds
  <2> DEFINE getI == [j \in ScalarKinds |-> getMapIxI(K, ScalarType[j])]
             row == MapRow(getI, MapGetter(K, zcRange), MapGetter(K, zcRange), MapGetter(K, pointer), th)
  <2>1. mapFields[key] = row
    BY <1>2 DEF IntRow, getMapIxS, getMapIxB, getMapIxM
  <2>2. \A j \in ScalarKinds : getI[j] = MapGetter(K, ScalarType[j])
    BY DEF getMapIxI
  <2> HIDE DEF getI
  <2>3. p \in row[k].parsers
    BY <1>1, <2>1
  <2>4. /\ p.kind = "entry" /\ TableThunk(row[k].getter, p.thunk)
        /\ p.thunk.parse = "mapKxM" => k \in MessageKinds
    BY <1>2, <2>2, <2>3, MapRowArchetype
  <2> QED
    BY <1>1, <2>1, <2>4
<1>3. {uint32, int32, uint64, int64, zcRange, bool} \subseteq IntegerTypes
      /\ \A K \in {uint32, int32, uint64, int64, bool} : K.as # "range"
  BY DEF IntegerTypes, uint32, int32, uint64, int64, bool
<1>4. CASE key \in {"Int32", "Int64", "Uint32", "Uint64", "Sint32", "Sint64", "Fixed32", "Fixed64",
                    "Sfixed32", "Sfixed64", "Enum"}
  <2>1. mapFields[key] \in
          {IntRow(int32, parseMapV32), IntRow(int64, parseMapV64), IntRow(uint32, parseMapV32),
           IntRow(uint64, parseMapV64), IntRow(int32, parseMapZ32), IntRow(int64, parseMapZ64),
           IntRow(uint32, parseMapF32), IntRow(uint64, parseMapF64), IntRow(int32, parseMapF32),
           IntRow(int64, parseMapF64)}
    BY <1>4 DEF mapFields, mapInt32, mapInt64, mapUint32, mapUint64, mapSint32, mapSint64, mapFixed32,
       mapFixed64, mapSfixed32, mapSfixed64, mapEnum, EnumNumber
  <2>2. PICK K \in {uint32, int32, uint64, int64},
             th \in {parseMapV32, parseMapV64, parseMapZ32, parseMapZ64, parseMapF32, parseMapF64} :
          mapFields[key] = IntRow(K, th)
    BY <2>1
  <2>3. PICK ki : ThunkRow(ki, th)
    BY ThunkRows
  <2> QED
    BY <1>2, <1>3, <2>2, <2>3
<1>5. CASE key = "Bool"
  <2> DEFINE getI == [j \in ScalarKinds |-> getMap2xI(ScalarType[j])]
             row == MapRow(getI, MapGetter(bool, zcRange), MapGetter(bool, zcRange), MapGetter(bool, pointer),
                           parseMapTwo)
  <2>1. mapFields[key] = row
    BY <1>5 DEF mapFields, mapBool, getMap2xS, getMap2xB, getMap2xM
  <2>2. \A j \in ScalarKinds : getI[j] = MapGetter(bool, ScalarType[j])
    BY DEF getMap2xI
  <2> HIDE DEF getI
  <2>3. p \in row[k].parsers
    BY <1>1, <2>1
  <2>4. /\ p.kind = "entry" /\ TableThunk(row[k].getter, p.thunk)
        /\ p.thunk.parse = "mapKxM" => k \in MessageKinds
    BY <1>3, <2>2, <2>3, ThunkRows, MapRowArchetype
  <2> QED
    BY <1>1, <2>1, <2>4
<1>6. CASE key \in {"String", "proto2String"}
  <2> DEFINE getI == [j \in ScalarKinds |-> getMapSxI(ScalarType[j])]
             row(th) == MapRow(getI, MapGetter(zcRange, zcRange), MapGetter(zcRange, zcRange),
                               MapGetter(zcRange, pointer), th)
  <2>1. mapFields[key] \in {row(parseMapS), row(parseMapB)}
    BY <1>6 DEF mapFields, mapString, mapProto2String, getMapSxS, getMapSxB, getMapSxM
  <2>2. \A j \in ScalarKinds : getI[j] = MapGetter(zcRange, ScalarType[j])
    BY DEF getMapSxI
  <2>3. stringItem.parse \in Texts /\ bytesItem.parse \in Texts
    BY DEF stringItem, bytesItem, Item, Texts
  <2>4. PICK th, ki : mapFields[key] = row(th) /\ ThunkRow(ki, th) /\ ki.parse \in Texts
    BY <2>1, <2>3, ThunkRows
  <2> HIDE DEF getI
  <2>5. p \in row(th)[k].parsers
    BY <1>1, <2>4
  <2>6. /\ p.kind = "entry" /\ TableThunk(row(th)[k].getter, p.thunk)
        /\ p.thunk.parse = "mapKxM" => k \in MessageKinds
    BY <1>3, <2>2, <2>4, <2>5, MapRowArchetype
  <2> QED
    BY <1>1, <2>4, <2>6
<1> QED
  BY <1>4, <1>5, <1>6 DEF mapFields

----------------------------------------------------------------------------
(* What a record does to a field outside oneofs *)

\* Such a field is the only one.
LEMMA SoleField ==
  ASSUME schema \in Schemas, NEW f \in DOMAIN schema.fields, schema.fields[f].card # "oneof"
  PROVE  /\ DOMAIN schema.fields = {f} /\ SlotOf(f) = f
         /\ schema.fields[f].kind \in Kinds
         /\ schema.fields[f].card \in {"singular", "optional", "repeated", "map"}
         /\ schema.fields[f].card = "map" =>
              schema.fields[f].key \in DOMAIN mapFields /\ schema.fields[f].kind # "Group"
         /\ \A r \in Records(schema.fields[f]) : IsRecord(schema.fields[f], r)
<1>1. IsSchema(schema) /\ \A r \in Records(schema.fields[f]) : IsRecord(schema.fields[f], r)
  BY RecordsAssumption
<1>2. /\ DOMAIN schema.fields = {f}
      /\ schema.fields[f].card = "map" =>
           schema.fields[f].key \in DOMAIN mapFields /\ schema.fields[f].kind # "Group"
  BY <1>1 DEF IsSchema
<1>3. schema.fields[f].kind \in Kinds
      /\ schema.fields[f].card \in {"singular", "optional", "oneof", "repeated", "map"}
  <2> DEFINE F == [card : {"singular", "optional", "oneof", "repeated", "map"},
                   kind : Kinds, key : STRING, preload : Nat]
  <2>1. schema.fields \in Seq(F)
    BY <1>1 DEF IsSchema
  <2> HIDE DEF F
  <2>2. schema.fields[f] \in F
    BY <2>1
  <2> QED
    BY <2>2 DEF F
<1> QED
  BY <1>1, <1>2, <1>3 DEF SlotOf

\* A field that leaves the value as it is, except that an optional one may be present.
Marks(f) ==
  /\ schema.fields[f].card = "optional"
  /\ schema.fields[f].kind \notin {"Bool"} \cup MessageKinds
Kept(f) ==
  /\ heap' = heap /\ Slot(f)' = Slot(f)
  /\ msg'.bits = msg.bits \/ (Marks(f) /\ msg'.bits = msg.bits \cup {0})

\* A field of messages that has one more: a message is stored before it is pushed.
Fresh(f) ==
  /\ schema.fields[f].card \in {"singular", "optional"}
  /\ Slot(f) = 0 /\ Slot(f)' = Len(heap) + 1 /\ heap' = Append(heap, NewMessage(f))
Added(f) ==
  /\ HasMessages(f)
  /\ \/ Fresh(f)
     \/ schema.fields[f].card = "repeated" /\ Grew(f) /\ Stable(f) /\ BlockInv(f)
     \/ schema.fields[f].card = "map"

\* What is known when the loop calls the thunk t of f.
Call(f, t, r) ==
  /\ schema \in Schemas /\ f \in DOMAIN schema.fields /\ schema.fields[f].card # "oneof"
  /\ FieldRead(f) /\ status = "ok" /\ IsRecord(schema.fields[f], r)

\* A thunk reads the record it is called for.
LEMMA CallReads ==
  ASSUME NEW f, NEW t, NEW r, Call(f, t, r), schema' = schema, wire' = Append(wire, WithField(r, f))
  PROVE  Reads(f, r) /\ SlotOf(f) = f /\ OneSlot(f) /\ IsSeq(heap)
BY SoleField DEF Call, Reads, FieldRead

\* Bytes of the record that is read.
LEMMA NewRead ==
  ASSUME NEW f, NEW r, Reads(f, r), NEW j \in 0 .. MaxParts,
         NEW b \in 0 .. RangeAt(Len(wire) + 1, j)
  PROVE  RangeAt(Len(wire) + 1, j) \in Nat /\ IsRead(b)'
<1> DEFINE c == RangeAt(Len(wire) + 1, j)
           d == RangeAt(Len(wire'), MaxParts)
<1>1. IsRead(b)' <=> b \in 0 .. d
  BY DEF IsRead, RangeAt
<1>2. Len(wire) \in Nat /\ Len(wire') = Len(wire) + 1
  BY ReadGrows
<1>3. c \in 0 .. d
  BY <1>2, RangesGrow
<1>4. d \in Nat
  <2>1. Len(wire') \in Nat /\ 0 \in 0 .. MaxParts
    BY <1>2, SizeAssumption
  <2> QED
    BY <2>1, RangesGrow
<1> HIDE DEF c, d
<1>5. b \in 0 .. c
  BY DEF c
<1>6. c \in Nat /\ b \in 0 .. d
  BY <1>3, <1>4, <1>5
<1> QED
  BY <1>1, <1>6 DEF c

\* The message after a thunk that marks the field and may set its slot.
LEMMA MessageStep ==
  ASSUME NEW f, OneSlot(f), SlotOf(f) = f, schema' = schema, NEW m, NEW b,
         m = [slot |-> msg.slot, bits |-> b, which |-> msg.which]
  PROVE  /\ msg' = m => OneSlot(f)' /\ Slot(f)' = Slot(f) /\ msg'.bits = b
         /\ \A s : msg' = SetSlot(m, f, s) => OneSlot(f)' /\ Slot(f)' = s /\ msg'.bits = b
<1>1. SlotOf(f)' = f
  BY DEF SlotOf
<1>2. msg.slot = [g \in {f} |-> msg.slot[f]]
  BY DEF OneSlot
<1>3. ASSUME msg' = m
      PROVE  OneSlot(f)' /\ Slot(f)' = Slot(f) /\ msg'.bits = b
  <2>1. /\ msg'.slot = msg.slot /\ msg'.bits = b
        /\ msg' = [slot |-> msg'.slot, bits |-> msg'.bits, which |-> msg'.which]
    BY <1>3
  <2> QED
    BY <2>1, <1>1, <1>2 DEF OneSlot, Slot
<1>4. ASSUME NEW s, msg' = SetSlot(m, f, s)
      PROVE  OneSlot(f)' /\ Slot(f)' = s /\ msg'.bits = b
  <2>1. msg' = [slot |-> [msg.slot EXCEPT ![f] = s], bits |-> b, which |-> msg.which]
    BY <1>4 DEF SetSlot
  <2>2. [msg.slot EXCEPT ![f] = s] = [g \in {f} |-> s]
    BY <1>2
  <2>3. msg'.slot = [g \in {f} |-> s] /\ msg'.slot[f] = s /\ msg'.bits = b
    BY <2>1, <2>2
  <2>4. OneSlot(f)'
    BY <2>1, <2>3 DEF OneSlot
  <2> QED
    BY <1>1, <2>3, <2>4 DEF Slot
<1> QED
  BY <1>3, <1>4

\* What Mark leaves of the message.
LEMMA MarkFacts ==
  ASSUME NEW f, OneSlot(f), NEW t
  PROVE  /\ msg = [slot |-> msg.slot, bits |-> msg.bits, which |-> msg.which]
         /\ t.before = "nothing" => Mark(msg, f, t) = msg
         /\ t.before = "bit" =>
              Mark(msg, f, t) = [slot |-> msg.slot, bits |-> msg.bits \cup {0}, which |-> msg.which]
<1>1. msg = [slot |-> msg.slot, bits |-> msg.bits, which |-> msg.which]
  BY DEF OneSlot
<1>2. t.before = "nothing" => Mark(msg, f, t) = msg
  BY DEF Mark
<1>3. t.before = "bit" => Mark(msg, f, t) = [msg EXCEPT !.bits = msg.bits \cup {0}]
  BY DEF Mark
<1>4. [msg EXCEPT !.bits = msg.bits \cup {0}]
        = [slot |-> msg.slot, bits |-> msg.bits \cup {0}, which |-> msg.which]
  BY <1>1
<1> QED
  BY <1>1, <1>2, <1>3, <1>4

\* Scalars and strings.
LEMMA ScalarNext ==
  ASSUME NEW f, NEW t, NEW r, Call(f, t, r), schema.fields[f].card \in {"singular", "optional"},
         FieldThunk(schema.fields[f], t), ParseScalar(f, t, r)
  PROVE  FieldRead(f)' /\ (status' = "failed" => Kept(f))
<1> DEFINE fd == schema.fields[f]
           failed == Fails(t.parse, r)
           m == Mark(msg, f, t)
           v == StoreAs(t.T, Slot(f), Parsed(t.parse, t.T, r, Here))
<1>1. /\ t.parse \in {"varint", "zigzag", "fixed", "utf8", "bytes"}
      /\ schema' = schema /\ wire' = Append(wire, WithField(r, f))
      /\ status' = (IF failed THEN "failed" ELSE "ok") /\ heap' = heap
      /\ msg' = IF failed THEN m ELSE SetSlot(m, f, v)
  BY DEF ParseScalar, Done
<1>2. Reads(f, r) /\ SlotOf(f) = f /\ OneSlot(f) /\ IsSeq(heap)
  BY <1>1, CallReads
<1>3. IsSeq(wire') /\ Len(wire) \in Nat /\ \A b : IsRead(b) => IsRead(b)'
  BY <1>2, ReadGrows
<1>4. fd.kind \notin {"Bool"} \cup MessageKinds
  BY <1>1 DEF FieldThunk
<1>5. t.before = IF fd.card = "optional" THEN "bit" ELSE "nothing"
  BY <1>4 DEF FieldThunk
<1>6. PICK b : /\ m = [slot |-> msg.slot, bits |-> b, which |-> msg.which]
               /\ fd.card = "optional" => b = msg.bits \cup {0}
               /\ fd.card # "optional" => b = msg.bits
  BY <1>2, <1>5, MarkFacts
<1> HIDE DEF m, v, failed
<1>7. OneSlot(f)' /\ msg'.bits = b /\ Slot(f)' = (IF failed THEN Slot(f) ELSE v)
  BY <1>1, <1>2, <1>6, MessageStep
<1>8. ASSUME fd.kind \in StringKinds
      PROVE  TextInv(f)'
  <2>1. PICK s : s = Slot(f) /\ IsRead(s) /\ Trunc(zcRange, s) = s
    BY <1>8 DEF Call, FieldRead, TextInv
  <2>2. PICK u : u = Slot(f)'
    OBVIOUS
  <2>3. TextInv(f)' <=> IsRead(u)' /\ Trunc(zcRange, u) = u
    BY <2>2 DEF TextInv, Trunc
  <2>4. CASE failed
    <3>1. u = s
      BY <2>1, <2>2, <2>4, <1>7
    <3> QED
      BY <3>1, <2>1, <2>3, <1>3
  <2>5. CASE ~failed
    <3>1. t.parse \in {"utf8", "bytes"} /\ t.T = zcRange
      BY <1>8 DEF FieldThunk
    <3>2. zcRange \in IntegerTypes /\ 0 \in 0 .. MaxParts
      BY SizeAssumption DEF IntegerTypes
    <3> DEFINE h == RangeAt(Len(wire) + 1, 0)
    <3>3. v = (s - Trunc(zcRange, s)) + Trunc(zcRange, h)
      BY <2>1, <3>1 DEF v, StoreAs, Parsed, Here
    <3>4. h \in Nat
      <4>1. h \in 0 .. RangeAt(Len(wire) + 1, MaxParts)
        BY <1>3, <3>2, RangesGrow
      <4> HIDE DEF h
      <4> QED
        BY <4>1
    <3> HIDE DEF h
    <3>5. Trunc(zcRange, h) \in 0 .. h /\ Trunc(zcRange, Trunc(zcRange, h)) = Trunc(zcRange, h)
      BY <3>2, <3>4, TruncFacts
    <3>6. s \in Int /\ s - s = 0
      BY <2>1 DEF IsRead
    <3>7. u = Trunc(zcRange, h)
      <4>1. PICK c \in Nat : c = Trunc(zcRange, h)
        BY <3>4, <3>5
      <4>2. v = 0 + c
        BY <2>1, <3>3, <3>6, <4>1
      <4> QED
        BY <4>1, <4>2, <2>2, <2>5, <1>7
    <3>8. IsRead(u)'
      BY <3>2, <3>5, <3>7, <1>2, NewRead DEF h
    <3> QED
      BY <2>3, <3>5, <3>7, <3>8
  <2> QED
    BY <2>4, <2>5
<1>9. ASSUME fd.card = "optional"
      PROVE  HasbitInv(f)'
  BY <1>6, <1>7, <1>9 DEF HasbitInv
<1>10. FieldRead(f)'
  BY <1>1, <1>2, <1>3, <1>7, <1>8, <1>9 DEF FieldRead
<1>11. status' = "failed" => Kept(f)
  BY <1>1, <1>4, <1>6, <1>7 DEF Kept, Marks
<1> QED
  BY <1>10, <1>11

\* Bools, which are bits.
LEMMA BoolNext ==
  ASSUME NEW f, NEW t, NEW r, Call(f, t, r), schema.fields[f].card \in {"singular", "optional"},
         FieldThunk(schema.fields[f], t), ParseBool(f, t, r)
  PROVE  FieldRead(f)' /\ (status' = "failed" => Kept(f))
<1> DEFINE fd == schema.fields[f]
<1>1. /\ t.parse \in {"bool", "optionalBool"}
      /\ schema' = schema /\ wire' = Append(wire, WithField(r, f)) /\ heap' = heap
      /\ status' = (IF ~r.ok THEN "failed" ELSE "ok")
  BY DEF ParseBool, Done
<1>2. Reads(f, r) /\ SlotOf(f) = f /\ OneSlot(f) /\ IsSeq(heap)
  BY <1>1, CallReads
<1>3. IsSeq(wire')
  BY <1>2, ReadGrows
<1>4. fd.kind = "Bool"
  BY <1>1, SoleField, KindCases DEF FieldThunk, Call
<1>5. PICK b : msg' = [msg EXCEPT !.bits = b] /\ (~r.ok => b = msg.bits)
  <2>1. msg = [msg EXCEPT !.bits = msg.bits]
    BY <1>2 DEF OneSlot
  <2>2. r.ok => msg' = [msg EXCEPT !.bits = IF t.parse = "bool" THEN BitsOf(0, r.v, msg.bits)
                                            ELSE BitsOf(1, r.v, msg.bits \cup {0})]
    BY DEF ParseBool
  <2>3. ~r.ok => msg' = msg
    BY DEF ParseBool
  <2> QED
    BY <2>1, <2>2, <2>3
<1>6. [msg EXCEPT !.bits = b] = [slot |-> msg.slot, bits |-> b, which |-> msg.which]
  BY <1>2 DEF OneSlot
<1>7. OneSlot(f)' /\ Slot(f)' = Slot(f) /\ msg'.bits = b
  BY <1>1, <1>2, <1>5, <1>6, MessageStep
<1>8. "Bool" \notin StringKinds
  BY DEF StringKinds
<1>9. FieldRead(f)'
  BY <1>1, <1>2, <1>3, <1>4, <1>7, <1>8 DEF FieldRead
<1>10. status' = "failed" => Kept(f)
  BY <1>1, <1>5, <1>7 DEF Kept
<1> QED
  BY <1>9, <1>10

\* Submessages.
LEMMA SubmessageNext ==
  ASSUME NEW f, NEW t, NEW r, Call(f, t, r), schema.fields[f].card \in {"singular", "optional"},
         FieldThunk(schema.fields[f], t), ParseMessage(f, t, r) \/ MessageFails(f, t, r)
  PROVE  FieldRead(f)' /\ (status' = "failed" => Kept(f) \/ Added(f))
<1> DEFINE fd == schema.fields[f]
           m == IF Slot(f) = 0 THEN Len(heap) + 1 ELSE Slot(f)
<1>1. /\ t.parse = "message"
      /\ schema' = schema /\ wire' = Append(wire, WithField(r, f))
      /\ \/ msg' = Mark(msg, f, t) /\ heap' = heap
         \/ /\ msg' = SetSlot(Mark(msg, f, t), f, m)
            /\ heap' = IF Slot(f) = 0 THEN Append(heap, NewMessage(f)) ELSE heap
  BY DEF ParseMessage, MessageFails, Done
<1>2. Reads(f, r) /\ SlotOf(f) = f /\ OneSlot(f) /\ IsSeq(heap)
  BY <1>1, CallReads
<1>3. IsSeq(wire')
  BY <1>2, ReadGrows
<1>4. fd.kind \in MessageKinds
  BY <1>1, SoleField, KindCases DEF FieldThunk, Call, Integers32, Integers64, StringKinds
<1>5. fd.kind \notin StringKinds
  BY <1>4 DEF MessageKinds, StringKinds
<1>6. Mark(msg, f, t) = msg /\ msg = [slot |-> msg.slot, bits |-> msg.bits, which |-> msg.which]
  BY <1>2, <1>4, MarkFacts DEF FieldThunk
<1>7. /\ OneSlot(f)' /\ msg'.bits = msg.bits
      /\ \/ Slot(f)' = Slot(f) /\ heap' = heap
         \/ Slot(f) = 0 /\ Slot(f)' = Len(heap) + 1 /\ heap' = Append(heap, NewMessage(f))
  <2> HIDE DEF m
  <2>1. CASE msg' = Mark(msg, f, t) /\ heap' = heap
    BY <2>1, <1>1, <1>2, <1>6, MessageStep
  <2>2. CASE /\ msg' = SetSlot(Mark(msg, f, t), f, m)
             /\ heap' = IF Slot(f) = 0 THEN Append(heap, NewMessage(f)) ELSE heap
    <3>1. OneSlot(f)' /\ msg'.bits = msg.bits /\ Slot(f)' = m
      BY <2>2, <1>1, <1>2, <1>6, MessageStep
    <3> QED
      BY <3>1, <2>2 DEF m
  <2> QED
    BY <1>1, <2>1, <2>2
<1>8. FieldRead(f)'
  <2>1. IsSeq(heap')
    <3>1. CASE heap' = heap
      BY <1>2, <3>1
    <3>2. CASE heap' = Append(heap, NewMessage(f))
      BY <1>2, <3>2, HeapAppend
    <3> QED
      BY <1>7, <3>1, <3>2
  <2> QED
    BY <2>1, <1>1, <1>3, <1>4, <1>5, <1>7 DEF FieldRead
<1>9. Kept(f) \/ Added(f)
  BY <1>4, <1>7 DEF Kept, Added, Fresh, HasMessages
<1> QED
  BY <1>8, <1>9

\* A total of nothing has nothing to add.
LEMMA TotalZero ==
  ASSUME NEW n \in Nat, NEW ns \in [1 .. n -> Nat], Total(ns) = 0
  PROVE  \A j \in 1 .. n : ns[j] = 0
<1> SUFFICES ASSUME NEW j \in 1 .. n
             PROVE  ns[j] = 0
  OBVIOUS
<1>1. PICK t \in [0 .. n -> Nat] :
        t[0] = 0 /\ (\A i \in 1 .. n : t[i] = t[i - 1] + ns[i]) /\ Total(ns) = t[n]
  BY TotalFacts
<1> DEFINE S == {i \in Nat : j <= i /\ i <= n => ns[j] <= t[i]}
<1>2. 0 \in S
  OBVIOUS
<1>3. ASSUME NEW k \in Nat, k \in S
      PROVE  k + 1 \in S
  <2> SUFFICES ASSUME j <= k + 1, k + 1 <= n
               PROVE  ns[j] <= t[k + 1]
    OBVIOUS
  <2>1. k + 1 \in 1 .. n /\ (k + 1) - 1 = k /\ k \in 0 .. n
    OBVIOUS
  <2>2. t[k + 1] = t[k] + ns[k + 1] /\ t[k] \in Nat /\ ns[k + 1] \in Nat /\ ns[j] \in Nat
    BY <2>1, <1>1
  <2>3. CASE j = k + 1
    BY <2>2, <2>3
  <2>4. CASE j <= k
    <3>1. ns[j] <= t[k]
      BY <2>4, <1>3
    <3> QED
      BY <3>1, <2>2
  <2> QED
    BY <2>3, <2>4
<1>4. n \in S
  <2> HIDE DEF S
  <2> QED
    BY <1>2, <1>3, SetInduction
<1>5. ns[j] <= t[n] /\ t[n] = 0 /\ ns[j] \in Nat
  BY <1>1, <1>4
<1> QED
  BY <1>5

\* Bytes without sign bits are whole varints.
LEMMA NoSignBytes ==
  ASSUME NEW els, IsSeq(els), SignBytes(els) = 0,
         \A j \in DOMAIN els : els[j].len \in Nat \ {0} /\ els[j].ends \in BOOLEAN
  PROVE  \A j \in DOMAIN els : els[j].ends /\ els[j].len = 1
<1> DEFINE b == [j \in DOMAIN els |-> IF els[j].ends THEN els[j].len - 1 ELSE els[j].len]
<1>1. PICK n \in Nat : DOMAIN els = 1 .. n
  BY DEF IsSeq
<1>2. b \in [1 .. n -> Nat]
  BY <1>1
<1>3. Total(b) = 0
  BY DEF SignBytes
<1>4. \A j \in 1 .. n : b[j] = (IF els[j].ends THEN els[j].len - 1 ELSE els[j].len)
  BY <1>1
<1> HIDE DEF b
<1>5. \A j \in 1 .. n : b[j] = 0
  BY <1>2, <1>3, TotalZero
<1> QED
  BY <1>1, <1>4, <1>5

\* The elements of a sequence and one more.
LEMMA LastOfConcat ==
  ASSUME NEW s, IsSeq(s), NEW x
  PROVE  \A i \in DOMAIN (s \o <<x>>) : (s \o <<x>>)[i] = x \/ (i \in DOMAIN s /\ (s \o <<x>>)[i] = s[i])
<1> DEFINE T == ToSet(s) \cup {x}
<1>1. s \in Seq(T) /\ x \in T
  <2>1. \A S : S \subseteq T => \A p \in Seq(S) : p \in Seq(T)
    OBVIOUS
  <2> QED
    BY <2>1 DEF IsSeq
<1> HIDE DEF T
<1> QED
  BY <1>1

\* What is appended to a list.
LEMMA AppendedElems ==
  ASSUME NEW T \in ElementTypes, NEW s, IsList(s), NEW x
  PROVE  AppendAll(T, s, <<x>>).elems = s.elems \o <<x>>
<1>1. PICK l \in Nat : l = Len(s.elems) /\ s.cap \in Nat /\ l <= s.cap
  BY DEF IsList, IsSeq
<1>2. CASE s.cap - l < 1
  <2> DEFINE g == Grown(T, s, 1)
  <2>1. IsList(g) /\ g.elems = s.elems
    BY <1>1, GrownFacts
  <2>2. AppendAll(T, s, <<x>>) = [g EXCEPT !.elems = g.elems \o <<x>>]
    BY <1>1, <1>2 DEF AppendAll
  <2> HIDE DEF g
  <2>3. [g EXCEPT !.elems = g.elems \o <<x>>].elems = g.elems \o <<x>>
    BY <2>1, ListExcept DEF IsList
  <2> QED
    BY <2>1, <2>2, <2>3
<1>3. CASE ~(s.cap - l < 1)
  <2>1. AppendAll(T, s, <<x>>) = [s EXCEPT !.elems = s.elems \o <<x>>]
    BY <1>1, <1>3 DEF AppendAll
  <2>2. [s EXCEPT !.elems = s.elems \o <<x>>].elems = s.elems \o <<x>>
    BY ListExcept DEF IsList
  <2> QED
    BY <2>1, <2>2
<1> QED
  BY <1>2, <1>3

\* A packed record that fails leaves the list alone: what is borrowed cannot fail.
LEMMA PackedFails ==
  ASSUME NEW f, NEW p, NEW r, ListCall(f, p, r), ParsePackedVarint(f, p.thunk, r), status' = "failed"
  PROVE  msg' = msg \/ msg' = SetSlot(msg, f, Slot(f))
<1> DEFINE els == r.els
           n == ByteLen(els)
           count == n - SignBytes(els)
           values == [i \in DOMAIN els |-> els[i].v]
           failed == \E i \in DOMAIN els : ~els[i].ok
           stored == StorePacked(p.thunk.T, Reserved(p.thunk.T, Slot(f), count), els)
<1>1. r.wt = "packed" /\ IsSeq(els) /\ schema.fields[f].kind \notin FixedKinds
  BY DEF ListCall, ListThunk, ParsePackedVarint, IsRecord, IsSeq
<1>2. \A j \in DOMAIN els : /\ els[j].len \in Nat \ {0} /\ els[j].ends \in BOOLEAN /\ els[j].ok \in BOOLEAN
                            /\ els[j].ends /\ els[j].len = 1 => els[j].ok
  BY <1>1 DEF ListCall, IsRecord, IsElement
<1>3. n \in Nat /\ SignBytes(els) \in Nat
  BY <1>1, <1>2, PackedCount
<1>4. /\ ~r.ok \/ failed
      /\ msg' = IF ~r.ok \/ n = 0 THEN msg
                ELSE IF Slot(f).mode = "nil" /\ count = n
                THEN SetSlot(msg, f, OffArena(uint8, values))
                ELSE SetSlot(msg, f, Publish(Slot(f), stored, failed))
  BY DEF ParsePackedVarint, Done
<1> HIDE DEF n, stored, values
<1>5. CASE ~r.ok \/ n = 0
  BY <1>4, <1>5
<1>6. CASE ~(~r.ok \/ n = 0)
  <2>1. failed
    BY <1>4, <1>6
  <2>2. count # n
    <3>1. SUFFICES ASSUME count = n
                   PROVE  FALSE
      OBVIOUS
    <3>2. SignBytes(els) = 0
      BY <3>1, <1>3
    <3>3. \A j \in DOMAIN els : els[j].ends /\ els[j].len = 1
      BY <1>1, <1>2, <3>2, NoSignBytes
    <3> QED
      BY <2>1, <3>3, <1>2
  <2> HIDE DEF failed, count
  <2>3. msg' = SetSlot(msg, f, Slot(f))
    BY <1>4, <1>6, <2>1, <2>2 DEF Publish
  <2> QED
    BY <2>3
<1> QED
  BY <1>5, <1>6

----------------------------------------------------------------------------
(* Tables *)

\* The last of some positions.
LEMMA LastPosition ==
  ASSUME NEW n \in Nat, NEW S, S \subseteq 1 .. n, S # {}
  PROVE  Max(S) \in S
<1> DEFINE R == {n - k : k \in S}
<1>1. R \subseteq Nat /\ R # {}
  <2>1. ASSUME NEW k \in S
        PROVE  n - k \in Nat
    <3>1. k \in 1 .. n
      OBVIOUS
    <3> QED
      BY <3>1
  <2> QED
    BY <2>1
<1>2. PICK l \in R : \A k \in R : l <= k
  <2> HIDE DEF R
  <2> QED
    BY <1>1, LeastOfNats
<1>3. PICK m \in S : l = n - m
  BY <1>2
<1>4. \A k \in S : m >= k
  <2> TAKE k \in S
  <2>1. n - k \in R /\ k \in 1 .. n /\ m \in 1 .. n
    OBVIOUS
  <2>2. l <= n - k
    BY <1>2, <2>1
  <2> QED
    BY <1>3, <2>1, <2>2
<1> QED
  BY <1>3, <1>4 DEF Max

\* Keys, if kt, and values, if vt, of a table are in R.
Pairs(s, kt, vt, R) ==
  /\ s = [key |-> s.key, val |-> s.val, pairs |-> s.pairs] /\ IsSeq(s.pairs)
  /\ \A i \in DOMAIN s.pairs :
       /\ s.pairs[i] = [k |-> s.pairs[i].k, v |-> s.pairs[i].v]
       /\ (kt => s.pairs[i].k \in R) /\ (vt => s.pairs[i].v \in R)

\* The pairs of a table after an entry.
LEMMA TableAfterPairs ==
  ASSUME NEW t, NEW table, NEW k, NEW v, NEW src, NEW kt, NEW vt, NEW R,
         table = NilTable \/ Pairs(table, kt, vt, R),
         kt => Trunc(t.insert.key, k) \in R, vt => Trunc(t.insert.val, v) \in R
  PROVE  Pairs(TableAfter(t, table, k, v, src), kt, vt, R)
<1> DEFINE old == IF table = NilTable
                  THEN [key |-> t.init.key, val |-> t.init.val, pairs |-> <<>>] ELSE table
           by == IF t.ki.extract THEN t.insert.searchFunc.by ELSE t.insert.search.by
           keyOf(x) == KeyOf(src, by, t.insert.key, x)
           key == Trunc(t.insert.key, k)
           val == Trunc(t.insert.val, v)
           same == {i \in DOMAIN old.pairs : keyOf(old.pairs[i].k) = keyOf(key)}
           new == IF same # {} THEN [old.pairs EXCEPT ![Min(same)].v = val]
                  ELSE Append(old.pairs, [k |-> key, v |-> val])
<1>1. Pairs(old, kt, vt, R)
  <2>1. IsSeq(<<>>) /\ DOMAIN <<>> = {}
    BY DEF IsSeq, ToSet
  <2>2. CASE table = NilTable
    <3>1. old = [key |-> t.init.key, val |-> t.init.val, pairs |-> <<>>]
      BY <2>2
    <3> HIDE DEF old
    <3> QED
      BY <2>1, <3>1 DEF Pairs
  <2>3. CASE table # NilTable
    BY <2>3
  <2> QED
    BY <2>2, <2>3
<1>2. TableAfter(t, table, k, v, src) = [old EXCEPT !.pairs = new]
  BY DEF TableAfter
<1> HIDE DEF old
<1> DEFINE ps == old.pairs
<1>3. PICK n \in Nat : IsSeq(ps) /\ Len(ps) = n /\ DOMAIN ps = 1 .. n
  BY <1>1 DEF Pairs, IsSeq
<1>4. \A i \in 1 .. n : /\ ps[i] = [k |-> ps[i].k, v |-> ps[i].v]
                        /\ (kt => ps[i].k \in R) /\ (vt => ps[i].v \in R)
  BY <1>1, <1>3 DEF Pairs
<1> DEFINE Good(p) == /\ p = [k |-> p.k, v |-> p.v]
                      /\ (kt => p.k \in R) /\ (vt => p.v \in R)
<1>5. IsSeq(new) /\ \A i \in DOMAIN new : Good(new[i])
  <2>1. CASE same # {}
    <3> DEFINE c == Min(same)
               u == [ps EXCEPT ![c].v = val]
    <3>1. new = u
      BY <2>1
    <3> HIDE DEF c, same, key, val, ps
    <3>2. DOMAIN u = 1 .. n /\ u = [i \in 1 .. n |-> u[i]]
      BY <1>3
    <3>3. IsSeq(u)
      <4> HIDE DEF u
      <4> QED
        BY <3>2, ValuesAreSeq
    <3>4. ASSUME NEW i \in 1 .. n
          PROVE  Good(u[i])
      <4>1. u[i] = ps[i] \/ u[i] = [ps[i] EXCEPT !.v = val]
        BY <1>3
      <4>2. PICK a, b : ps[i] = [k |-> a, v |-> b] /\ (kt => a \in R) /\ (vt => b \in R)
        BY <1>4
      <4>3. u[i] = [k |-> a, v |-> b] \/ u[i] = [k |-> a, v |-> val]
        BY <4>1, <4>2
      <4>4. vt => val \in R
        BY DEF val
      <4> HIDE DEF u
      <4> QED
        BY <4>2, <4>3, <4>4
    <3> QED
      BY <3>1, <3>2, <3>3, <3>4
  <2>2. CASE same = {}
    <3> DEFINE x == [k |-> key, v |-> val]
               u == Append(ps, x)
    <3>1. new = u
      BY <2>2
    <3>2. Good(x)
      OBVIOUS
    <3> HIDE DEF x, ps
    <3>3. IsSeq(u) /\ Len(u) = n + 1 /\ (\A i \in 1 .. n : u[i] = ps[i]) /\ u[n + 1] = x
      BY <1>3, AppendIsSeq
    <3>4. DOMAIN u = 1 .. n + 1
      BY <3>3 DEF IsSeq
    <3> HIDE DEF u
    <3>5. \A i \in 1 .. n + 1 : i \in 1 .. n \/ i = n + 1
      BY <1>3
    <3>6. \A i \in 1 .. n : Good(u[i])
      BY <1>4, <3>3
    <3>7. Good(u[n + 1])
      BY <3>2, <3>3
    <3> HIDE DEF Good, new
    <3> QED
      BY <3>1, <3>3, <3>4, <3>5, <3>6, <3>7
  <2> QED
    BY <2>1, <2>2
<1> HIDE DEF new
<1>6. PICK a, b, d : old = [key |-> a, val |-> b, pairs |-> d]
  BY <1>1 DEF Pairs
<1>7. [old EXCEPT !.pairs = new] = [key |-> a, val |-> b, pairs |-> new]
  BY <1>6
<1> QED
  BY <1>2, <1>5, <1>7 DEF Pairs

\* What an entry's parts refer to is in its record.
PartOfEntry(parse, T, els, S) ==
  IF S = {} THEN 0 ELSE Parsed(parse, T, els[Max(S)], RangeAt(Len(wire) + 1, Max(S)))

\* What a part of an entry is stored as, if it is text.
LEMMA PartRange ==
  ASSUME NEW T, NEW parse \in Texts, NEW els, IsSeq(els), Len(els) <= MaxParts, NEW S, S \subseteq DOMAIN els
  PROVE  \E j \in 0 .. MaxParts : PartOfEntry(parse, T, els, S) \in {0, RangeAt(Len(wire) + 1, j)}
<1> DEFINE v == PartOfEntry(parse, T, els, S)
<1>0. 0 \in 0 .. MaxParts /\ MaxParts \in Nat
  BY SizeAssumption
<1>1. CASE S = {}
  BY <1>0, <1>1 DEF PartOfEntry
<1>2. CASE S # {}
  <2>1. PICK n \in Nat : n = Len(els) /\ DOMAIN els = 1 .. n /\ n <= MaxParts
    BY DEF IsSeq
  <2>2. Max(S) \in S
    BY <1>2, <2>1, LastPosition
  <2>3. Max(S) \in 0 .. MaxParts
    BY <1>0, <2>1, <2>2
  <2>4. v = RangeAt(Len(wire) + 1, Max(S))
    BY <1>2 DEF PartOfEntry, Parsed, Texts
  <2> QED
    BY <2>3, <2>4
<1> QED
  BY <1>1, <1>2

\* An entry of a map field.
LEMMA MapNext ==
  ASSUME NEW f, NEW t, NEW r, Call(f, t, r), schema.fields[f].card = "map", r.wt = "entry",
         TableThunk(SelectArchetype(schema.fields[f]).getter, t),
         ParseMapKxV(f, t, r) \/ ParseMapKxM(f, t, r), t.parse = "mapKxM" => HasMessages(f)
  PROVE  FieldRead(f)' /\ (status' = "failed" => Kept(f) \/ Added(f))
<1> DEFINE g == SelectArchetype(schema.fields[f]).getter
           e == EntryParts(t, r.els)
           failed == ~r.ok \/ e.failed
           kt == g.K.as = "range"
           vt == g.V.as = "range"
           R == 0 .. RangeAt(Len(wire), MaxParts)
           Q == 0 .. RangeAt(Len(wire'), MaxParts)
<1>1. PICK v : /\ schema' = schema /\ wire' = Append(wire, WithField(r, f))
               /\ status' = "failed" => failed \/ t.parse = "mapKxM"
               /\ heap' = heap \/ (~failed /\ heap' = Append(heap, NewMessage(f)))
               /\ msg' = IF failed THEN msg ELSE SetSlot(msg, f, TableAfter(t, Slot(f), e.k, v, wire'))
               /\ t.parse = "mapKxV" => v = e.v
  <2>1. CASE ParseMapKxV(f, t, r)
    BY <2>1 DEF ParseMapKxV
  <2>2. CASE ParseMapKxM(f, t, r)
    BY <2>2 DEF ParseMapKxM
  <2> QED
    BY <2>1, <2>2
<1>2. Reads(f, r) /\ SlotOf(f) = f /\ OneSlot(f) /\ IsSeq(heap)
  BY <1>1, CallReads
<1>3. IsSeq(wire') /\ Len(wire) \in Nat /\ \A b : IsRead(b) => IsRead(b)'
  BY <1>2, ReadGrows
<1>4. \A b : (IsRead(b) <=> b \in R) /\ (IsRead(b)' <=> b \in Q)
  BY DEF IsRead, RangeAt
<1>5. msg = [slot |-> msg.slot, bits |-> msg.bits, which |-> msg.which]
  BY <1>2 DEF OneSlot
<1>6. PICK s : s = Slot(f)
  OBVIOUS
<1>7. PICK u : u = TableAfter(t, s, e.k, v, wire')
  OBVIOUS
<1>8. OneSlot(f)' /\ Slot(f)' = (IF failed THEN s ELSE u) /\ msg'.bits = msg.bits
  <2> HIDE DEF failed
  <2> QED
    BY <1>1, <1>2, <1>5, <1>6, <1>7, MessageStep
<1>9. s = NilTable \/ Pairs(s, kt, vt, Q)
  <2>1. s # NilTable =>
          /\ s = [key |-> s.key, val |-> s.val, pairs |-> s.pairs] /\ IsSeq(s.pairs)
          /\ \A i \in DOMAIN s.pairs :
               /\ s.pairs[i] = [k |-> s.pairs[i].k, v |-> s.pairs[i].v]
               /\ kt => IsRead(s.pairs[i].k)
               /\ vt => IsRead(s.pairs[i].v)
    BY <1>6 DEF Call, FieldRead, TableInv
  <2>2. \A b : IsRead(b) => b \in Q
    BY <1>3, <1>4
  <2> HIDE DEF kt, vt, Q
  <2> QED
    BY <2>1, <2>2 DEF Pairs
<1>10. IsSeq(r.els) /\ Len(r.els) <= MaxParts
  BY DEF Call, IsRecord, IsSeq
<1>11. ASSUME NEW T \in IntegerTypes, NEW b, NEW j \in 0 .. MaxParts, b \in {0, RangeAt(Len(wire) + 1, j)}
       PROVE  Trunc(T, b) \in Q
  <2>1. RangeAt(Len(wire) + 1, j) \in Nat
    <3>1. RangeAt(Len(wire) + 1, j) \in 0 .. RangeAt(Len(wire) + 1, MaxParts)
      BY <1>3, RangesGrow
    <3> QED
      BY <3>1
  <2>2. PICK c : c = Trunc(T, b)
    OBVIOUS
  <2>3. c \in 0 .. RangeAt(Len(wire) + 1, j)
    <3>1. b \in Nat /\ b <= RangeAt(Len(wire) + 1, j)
      BY <1>11, <2>1
    <3>2. c \in 0 .. b
      BY <2>2, <3>1, TruncFacts
    <3> DEFINE d == RangeAt(Len(wire) + 1, j)
    <3>3. d \in Nat /\ b <= d
      BY <2>1, <3>1
    <3> HIDE DEF d
    <3>4. c \in 0 .. d
      BY <3>1, <3>2, <3>3
    <3> QED
      BY <3>4 DEF d
  <2>4. IsRead(c)'
    BY <1>2, <2>3, NewRead
  <2> QED
    BY <1>4, <2>2, <2>4
<1>12. kt => Trunc(t.insert.key, e.k) \in Q
  <2> SUFFICES ASSUME kt
               PROVE  Trunc(t.insert.key, e.k) \in Q
    OBVIOUS
  <2>1. t.ki.parse \in Texts /\ t.insert.key \in IntegerTypes
    BY DEF TableThunk
  <2> DEFINE S == {j \in DOMAIN r.els : r.els[j].part = "key"}
  <2>2. e.k = PartOfEntry(t.ki.parse, t.ki.T, r.els, S)
    BY DEF EntryParts, PartOfEntry
  <2>3. S \subseteq DOMAIN r.els
    OBVIOUS
  <2> HIDE DEF S, e
  <2>4. PICK j \in 0 .. MaxParts : e.k \in {0, RangeAt(Len(wire) + 1, j)}
    BY <1>10, <2>1, <2>2, <2>3, PartRange
  <2> HIDE DEF Q
  <2> QED
    BY <1>11, <2>1, <2>4
<1>13. vt => Trunc(t.insert.val, v) \in Q
  <2> SUFFICES ASSUME vt
               PROVE  Trunc(t.insert.val, v) \in Q
    OBVIOUS
  <2>1. t.parse = "mapKxV" /\ t.vi.parse \in Texts /\ t.insert.val \in IntegerTypes
    BY DEF TableThunk
  <2> DEFINE S == {j \in DOMAIN r.els : r.els[j].part = "value"}
  <2>2. e.v = PartOfEntry(t.vi.parse, t.vi.T, r.els, S)
    BY <2>1 DEF EntryParts, PartOfEntry
  <2>3. S \subseteq DOMAIN r.els
    OBVIOUS
  <2>4. v = e.v
    BY <1>1, <2>1
  <2> HIDE DEF S, e
  <2>5. PICK j \in 0 .. MaxParts : v \in {0, RangeAt(Len(wire) + 1, j)}
    BY <1>10, <2>1, <2>2, <2>3, <2>4, PartRange
  <2> HIDE DEF Q
  <2> QED
    BY <1>11, <2>1, <2>5
<1>14. Pairs(u, kt, vt, Q)
  <2> HIDE DEF kt, vt, Q, e
  <2> QED
    BY <1>7, <1>9, <1>12, <1>13, TableAfterPairs
<1>15. TableInv(f)'
  <2>1. PICK w : w = Slot(f)'
    OBVIOUS
  <2>2. w = NilTable \/ Pairs(w, kt, vt, Q)
    BY <1>8, <1>9, <1>14, <2>1
  <2>3. TableInv(f)' <=>
          (w # NilTable =>
            /\ w = [key |-> w.key, val |-> w.val, pairs |-> w.pairs] /\ IsSeq(w.pairs)
            /\ \A i \in DOMAIN w.pairs :
                 /\ w.pairs[i] = [k |-> w.pairs[i].k, v |-> w.pairs[i].v]
                 /\ kt => w.pairs[i].k \in Q
                 /\ vt => w.pairs[i].v \in Q)
    <3>1. schema' = schema
      BY <1>1
    <3>2. PICK h : h = g /\ h = (SelectArchetype(schema.fields[f]).getter)'
      BY <3>1 DEF SelectArchetype
    <3>3. TableInv(f)' <=>
            (w # NilTable =>
              /\ w = [key |-> w.key, val |-> w.val, pairs |-> w.pairs] /\ IsSeq(w.pairs)
              /\ \A i \in DOMAIN w.pairs :
                   /\ w.pairs[i] = [k |-> w.pairs[i].k, v |-> w.pairs[i].v]
                   /\ h.K.as = "range" => IsRead(w.pairs[i].k)'
                   /\ h.V.as = "range" => IsRead(w.pairs[i].v)')
      BY <2>1, <3>2 DEF TableInv, IsRead, RangeAt
    <3> HIDE DEF Q, g
    <3> QED
      BY <1>4, <3>2, <3>3
  <2> HIDE DEF kt, vt, Q
  <2> QED
    BY <2>2, <2>3 DEF Pairs
<1>16. FieldRead(f)'
  <2>1. CASE heap' = heap
    BY <2>1, <1>1, <1>2, <1>3, <1>8, <1>15 DEF FieldRead
  <2>2. CASE heap' = Append(heap, NewMessage(f))
    <3>1. IsSeq(heap')
      BY <2>2, <1>2, HeapAppend
    <3> QED
      BY <3>1, <1>1, <1>3, <1>8, <1>15 DEF FieldRead
  <2> QED
    BY <1>1, <2>1, <2>2
<1>17. status' = "failed" => Kept(f) \/ Added(f)
  <2>1. CASE t.parse = "mapKxM"
    BY <2>1 DEF Added
  <2>2. CASE failed
    BY <2>2, <1>1, <1>6, <1>8 DEF Kept
  <2> QED
    BY <1>1, <2>1, <2>2
<1> QED
  BY <1>16, <1>17

\* The calls of the loop.
Thunks(f, t, r) ==
  \/ ParseScalar(f, t, r)         \/ ParseBool(f, t, r)
  \/ ParseOneofBool(f, t, r)      \/ ParseMessage(f, t, r)
  \/ MessageFails(f, t, r)
  \/ ParseRepeatedVarint(f, t, r) \/ ParsePackedVarint(f, t, r)
  \/ ParseRepeatedFixed(f, t, r)  \/ ParsePackedFixed(f, t, r)
  \/ ParseRepeatedBytes(f, t, r)  \/ ParseInline(f, t, r)
  \/ ParseOutlined(f, t, r)       \/ RepeatedMessageFails(f, t, r)
  \/ ParseMapKxV(f, t, r)         \/ ParseMapKxM(f, t, r)

\* A record of a list.
LEMMA ListNext ==
  ASSUME NEW f, NEW p, NEW r, ListCall(f, p, r), Call(f, p.thunk, r), FieldsInv', Thunks(f, p.thunk, r)
  PROVE  FieldRead(f)' /\ (status' = "failed" => Kept(f))
<1> DEFINE fd == schema.fields[f]
           t == p.thunk
<1>1. /\ fd.card = "repeated" /\ fd.kind \notin MessageKinds /\ ListInv(f) /\ OneSlot(f) /\ SlotOf(f) = f
  BY SchemaFacts DEF ListCall, RepeatedField, HasMessages, FieldsInv, RepeatedInv
<1>2. t.parse \in ListThunks
  BY DEF ListCall, ListThunk
<1>3. \/ ParseRepeatedVarint(f, t, r) \/ ParsePackedVarint(f, t, r)
      \/ ParseRepeatedFixed(f, t, r)  \/ ParsePackedFixed(f, t, r)
      \/ ParseRepeatedBytes(f, t, r)
  BY <1>2 DEF Thunks, ListThunks, ParseScalar, ParseBool, ParseOneofBool, ParseMessage, MessageFails,
     ParseInline, ParseOutlined, RepeatedMessageFails, ParseMapKxV, ParseMapKxM
<1>4. /\ schema' = schema /\ wire' = Append(wire, WithField(r, f)) /\ heap' = heap
  BY <1>3 DEF ParseRepeatedVarint, ParsePackedVarint, ParseRepeatedFixed, ParsePackedFixed,
     ParseRepeatedBytes, Done
<1>5. Reads(f, r) /\ IsSeq(wire') /\ IsSeq(heap) /\ Len(wire) \in Nat /\ \A b : IsRead(b) => IsRead(b)'
  BY <1>4, CallReads, ReadGrows
<1>6. OneSlot(f)'
  BY <1>1, <1>4 DEF FieldsInv, RepeatedInv, RepeatedField, ListCall
<1>7. ASSUME status' = "failed"
      PROVE  msg' = msg \/ msg' = SetSlot(msg, f, Slot(f))
  <2>1. CASE ParsePackedVarint(f, t, r)
    BY <1>7, <2>1, PackedFails
  <2>2. CASE ParseRepeatedVarint(f, t, r)
    BY <1>7, <2>2 DEF ParseRepeatedVarint, Done
  <2>3. CASE ParseRepeatedFixed(f, t, r)
    BY <1>7, <2>3 DEF ParseRepeatedFixed, Done
  <2>4. CASE ParsePackedFixed(f, t, r)
    BY <1>7, <2>4 DEF ParsePackedFixed, Done
  <2>5. CASE ParseRepeatedBytes(f, t, r)
    BY <1>7, <2>5 DEF ParseRepeatedBytes, Done
  <2> QED
    BY <1>3, <2>1, <2>2, <2>3, <2>4, <2>5
<1>8. status' = "failed" => Kept(f)
  <2>1. msg = [slot |-> msg.slot, bits |-> msg.bits, which |-> msg.which]
    BY <1>1 DEF OneSlot
  <2> QED
    BY <1>1, <1>4, <1>7, <2>1, MessageStep DEF Kept
<1>9. ASSUME fd.kind \in StringKinds
      PROVE  (\A i \in DOMAIN Slot(f).elems : IsRead(Slot(f).elems[i]))'
  <2>1. ParseRepeatedBytes(f, t, r)
    <3>1. t.parse \in {"repeatedBytes", "repeatedUTF8"}
      BY <1>9 DEF ListCall, ListThunk
    <3> QED
      BY <1>3, <3>1 DEF ParseRepeatedVarint, ParsePackedVarint, ParseRepeatedFixed, ParsePackedFixed
  <2> DEFINE q == fd.preload
             failed == Fails(IF t.parse = "repeatedUTF8" THEN "utf8" ELSE "bytes", r)
             s == IF Slot(f).mode = "nil" /\ q > 0
                  THEN [mode |-> "arena", elems |-> <<>>, cap |-> CapFor(zcRange, q)] ELSE Slot(f)
             new == AppendAll(zcRange, s, <<Here>>)
  <2>2. msg' = IF failed THEN msg ELSE SetSlot(msg, f, new)
    BY <2>1 DEF ParseRepeatedBytes
  <2>3. \A i \in DOMAIN Slot(f).elems : IsRead(Slot(f).elems[i])
    BY <1>1, <1>9 DEF Call, FieldRead
  <2>4. PICK l : l = Slot(f)
    OBVIOUS
  <2>5. \A i \in DOMAIN l.elems : IsRead(l.elems[i])'
    BY <1>5, <2>3, <2>4
  <2>6. PICK k : k = Slot(f)'
    OBVIOUS
  <2>7. (\A i \in DOMAIN Slot(f).elems : IsRead(Slot(f).elems[i]))'
          <=> \A i \in DOMAIN k.elems : IsRead(k.elems[i])'
    BY <2>6
  <2>8. CASE failed
    <3>1. k = l
      BY <1>1, <1>4, <2>2, <2>4, <2>6, <2>8, SlotSame
    <3> QED
      BY <2>5, <2>7, <3>1
  <2>9. CASE ~failed
    <3>1. k = new
      BY <1>1, <1>4, <2>2, <2>6, <2>9, SlotStep
    <3>2. PICK h : h = Here
      OBVIOUS
    <3>3. IsRead(h)'
      <4>1. 0 \in 0 .. MaxParts
        BY SizeAssumption
      <4>2. h \in 0 .. RangeAt(Len(wire) + 1, 0)
        <5>1. h = RangeAt(Len(wire) + 1, 0) /\ RangeAt(Len(wire) + 1, 0) \in Nat
          <6>1. RangeAt(Len(wire) + 1, 0) \in 0 .. RangeAt(Len(wire) + 1, MaxParts)
            BY <1>5, <4>1, RangesGrow
          <6> QED
            BY <3>2, <6>1 DEF Here
        <5> QED
          BY <5>1
      <4> QED
        BY <1>5, <4>1, <4>2, NewRead
    <3>4. zcRange \in ElementTypes
      BY DEF ElementTypes
    <3>5. PICK c : c = s
      OBVIOUS
    <3>6. IsList(c) /\ \A i \in DOMAIN c.elems : IsRead(c.elems[i])'
      <4>1. CASE Slot(f).mode = "nil" /\ q > 0
        <5>1. q \in Nat
          BY SchemaFacts DEF ListCall
        <5>2. CapFor(zcRange, q) \in Nat
          BY <3>4, <5>1, CapForFacts
        <5>3. c = [mode |-> "arena", elems |-> <<>>, cap |-> CapFor(zcRange, q)]
          BY <3>5, <4>1
        <5>4. IsSeq(<<>>) /\ Len(<<>>) = 0 /\ DOMAIN <<>> = {}
          BY DEF IsSeq, ToSet
        <5> QED
          BY <5>2, <5>3, <5>4 DEF IsList
      <4>2. CASE ~(Slot(f).mode = "nil" /\ q > 0)
        <5>1. c = l
          BY <2>4, <3>5, <4>2
        <5>2. IsList(l)
          BY <1>1, <2>4 DEF ListInv
        <5> QED
          BY <5>1, <5>2, <2>5
      <4> QED
        BY <4>1, <4>2
    <3> HIDE DEF s
    <3>7. k.elems = c.elems \o <<h>>
      BY <3>1, <3>2, <3>4, <3>5, <3>6, AppendedElems
    <3>8. \A i \in DOMAIN (c.elems \o <<h>>) :
            (c.elems \o <<h>>)[i] = h \/ (i \in DOMAIN c.elems /\ (c.elems \o <<h>>)[i] = c.elems[i])
      BY <3>6, LastOfConcat DEF IsList
    <3>9. ASSUME NEW i \in DOMAIN k.elems
          PROVE  IsRead(k.elems[i])'
      <4>1. k.elems[i] = h \/ (i \in DOMAIN c.elems /\ k.elems[i] = c.elems[i])
        BY <3>7, <3>8
      <4> QED
        BY <4>1, <3>3, <3>6
    <3> QED
      BY <2>7, <3>9
  <2> QED
    BY <2>8, <2>9
<1>10. FieldRead(f)'
  BY <1>1, <1>4, <1>5, <1>6, <1>9 DEF FieldRead, HasMessages
<1> QED
  BY <1>8, <1>10

\* A record of a repeated message.
LEMMA MessagesNext ==
  ASSUME NEW f, NEW t, NEW r, Call(f, t, r), schema.fields[f].card = "repeated",
         schema.fields[f].kind \in MessageKinds, t.parse = "repeatedMessage", FieldsInv, FieldsInv',
         Thunks(f, t, r)
  PROVE  FieldRead(f)' /\ (status' = "failed" => Kept(f) \/ Added(f))
<1> DEFINE fd == schema.fields[f]
<1>1. ParseInline(f, t, r) \/ ParseOutlined(f, t, r) \/ RepeatedMessageFails(f, t, r)
  BY DEF Thunks, ParseScalar, ParseBool, ParseOneofBool, ParseMessage, MessageFails, ParseRepeatedVarint,
     ParsePackedVarint, ParseRepeatedFixed, ParsePackedFixed, ParseRepeatedBytes, ParseMapKxV, ParseMapKxM
<1>2. /\ MessagesCall(f, r) /\ HasMessages(f) /\ RepeatedField(f) /\ IsSeq(heap) /\ BlockInv(f)
  BY DEF MessagesCall, HasMessages, RepeatedField, Call, FieldRead
<1>3. schema' = schema /\ wire' = Append(wire, WithField(r, f))
  BY <1>1 DEF ParseInline, ParseOutlined, PushElement, RepeatedMessageFails, Done
<1>4. OneSlot(f) /\ IsSeq(wire') /\ OneSlot(f)'
  BY <1>3 DEF FieldsInv, RepeatedInv, RepeatedField, Call
<1>5. fd.kind \notin StringKinds
  BY DEF MessageKinds, StringKinds
<1>6. IsSeq(heap') /\ BlockInv(f)' /\ (Kept(f) \/ Added(f))
  <2>1. CASE ParseInline(f, t, r)
    BY <2>1, <1>2, InlineInv, InlineHeap DEF Added
  <2>2. CASE ParseOutlined(f, t, r)
    BY <2>2, <1>2, OutlinedInv, OutlinedHeap DEF Added
  <2>3. CASE RepeatedMessageFails(f, t, r)
    <3>1. msg' = msg /\ heap' = heap /\ frame' = frame
      BY <2>3 DEF RepeatedMessageFails
    <3>2. Slot(f)' = Slot(f)
      BY <3>1, <1>3, <1>4, SlotSame
    <3>3. BlockInv(f)'
      BY <3>1, <3>2, <1>2 DEF BlockInv
    <3>4. Kept(f)
      BY <3>1, <3>2 DEF Kept
    <3> QED
      BY <3>1, <3>3, <3>4, <1>2
  <2> QED
    BY <1>1, <2>1, <2>2, <2>3
<1>7. FieldRead(f)'
  BY <1>3, <1>4, <1>5, <1>6 DEF FieldRead
<1> QED
  BY <1>6, <1>7

\* What the steps preserve.
Inv == FieldsInv /\ ReadInv

\* A record of a field outside oneofs.
LEMMA ReadNext ==
  ASSUME Inv, FieldsInv', ParseField, NEW f \in DOMAIN schema.fields, schema.fields[f].card # "oneof"
  PROVE  /\ FieldRead(f)' /\ (status' = "failed" => Kept(f) \/ Added(f))
         /\ \E r : Reads(f, r)
         /\ \E p : p \in SelectArchetype(schema.fields[f]).parsers
<1> DEFINE fd == schema.fields[f]
<1>1. /\ schema \in Schemas /\ DOMAIN schema.fields = {f} /\ fd.kind \in Kinds
      /\ fd.card \in {"singular", "optional", "repeated", "map"}
      /\ fd.card = "map" => fd.key \in DOMAIN mapFields /\ fd.kind # "Group"
      /\ \A r \in Records(fd) : IsRecord(fd, r)
  BY SoleField DEF Inv, FieldsInv
<1>2. PICK g \in DOMAIN schema.fields :
        \E r \in Records(schema.fields[g]), p \in SelectArchetype(schema.fields[g]).parsers :
          p.kind = r.wt /\ Thunks(g, p.thunk, r)
  BY DEF ParseField, Thunks
<1>3. g = f
  BY <1>1
<1>4. PICK r \in Records(fd), p \in SelectArchetype(fd).parsers : p.kind = r.wt /\ Thunks(f, p.thunk, r)
  BY <1>2, <1>3
<1> DEFINE t == p.thunk
<1>5. status = "ok"
  BY DEF ParseField, Reading
<1>6. Call(f, t, r)
  BY <1>1, <1>4, <1>5 DEF Call, Inv, ReadInv
<1>7. FieldRead(f)' /\ (status' = "failed" => Kept(f) \/ Added(f))
  <2>1. CASE fd.card \in {"singular", "optional"}
    <3>1. FieldThunk(fd, t)
      BY <1>1, <1>4, <2>1, SingularArchetype, OptionalArchetype
    <3>2. t.parse \in {"varint", "zigzag", "fixed", "utf8", "bytes", "bool", "optionalBool", "message"}
      BY <1>1, <3>1, KindCases DEF FieldThunk
    <3>3. ParseScalar(f, t, r) \/ ParseBool(f, t, r) \/ ParseMessage(f, t, r) \/ MessageFails(f, t, r)
      BY <1>4, <3>2 DEF Thunks, ParseOneofBool, ParseRepeatedVarint, ParsePackedVarint, ParseRepeatedFixed,
         ParsePackedFixed, ParseRepeatedBytes, ParseInline, ParseOutlined, RepeatedMessageFails,
         ParseMapKxV, ParseMapKxM
    <3> QED
      BY <1>6, <2>1, <3>1, <3>3, ScalarNext, BoolNext, SubmessageNext
  <2>2. CASE fd.card = "map"
    <3>1. /\ p.kind = "entry" /\ TableThunk(SelectArchetype(fd).getter, t)
          /\ t.parse = "mapKxM" => HasMessages(f)
      BY <1>1, <1>4, <2>2, MapArchetype DEF HasMessages
    <3>2. t.parse \in {"mapKxV", "mapKxM"}
      BY <3>1 DEF TableThunk
    <3>3. ParseMapKxV(f, t, r) \/ ParseMapKxM(f, t, r)
      BY <1>4, <3>2 DEF Thunks, ParseScalar, ParseBool, ParseOneofBool, ParseMessage, MessageFails, ParseRepeatedVarint,
         ParsePackedVarint, ParseRepeatedFixed, ParsePackedFixed, ParseRepeatedBytes, ParseInline,
         ParseOutlined, RepeatedMessageFails
    <3> QED
      BY <1>4, <1>6, <2>2, <3>1, <3>3, MapNext
  <2>3. CASE fd.card = "repeated"
    <3>1. /\ fd.kind \in MessageKinds => t.parse = "repeatedMessage"
          /\ fd.kind \notin MessageKinds => ListThunk(fd.kind, p)
      BY <1>1, <1>4, <2>3, RepeatedThunks
    <3>2. CASE fd.kind \in MessageKinds
      BY <1>4, <1>6, <2>3, <3>1, <3>2, MessagesNext DEF Inv
    <3>3. CASE fd.kind \notin MessageKinds
      <4>1. ListCall(f, p, r)
        BY <1>1, <1>4, <1>5, <2>3, <3>1, <3>3 DEF ListCall, RepeatedField, HasMessages, Inv
      <4> QED
        BY <1>4, <1>6, <4>1, ListNext
    <3> QED
      BY <3>2, <3>3
  <2> QED
    BY <1>1, <2>1, <2>2, <2>3
<1>8. schema' = schema /\ wire' = Append(wire, WithField(r, f))
  <2>1. schema' = schema
    BY SchemaStays DEF Next
  <2>2. wire' = Append(wire, WithField(r, f))
    <3>1. CASE \/ ParseScalar(f, t, r) \/ ParseBool(f, t, r) \/ ParseOneofBool(f, t, r)
               \/ ParseMessage(f, t, r) \/ MessageFails(f, t, r)
               \/ ParseRepeatedVarint(f, t, r) \/ ParsePackedVarint(f, t, r)
      BY <3>1 DEF ParseScalar, ParseBool, ParseOneofBool, ParseMessage, MessageFails, ParseRepeatedVarint,
         ParsePackedVarint, Done
    <3>2. CASE \/ ParseRepeatedFixed(f, t, r) \/ ParsePackedFixed(f, t, r) \/ ParseRepeatedBytes(f, t, r)
               \/ ParseInline(f, t, r) \/ ParseOutlined(f, t, r) \/ RepeatedMessageFails(f, t, r)
      BY <3>2 DEF ParseRepeatedFixed, ParsePackedFixed, ParseRepeatedBytes, ParseInline, ParseOutlined,
         PushElement, RepeatedMessageFails, Done
    <3>3. CASE ParseMapKxV(f, t, r) \/ ParseMapKxM(f, t, r)
      BY <3>3 DEF ParseMapKxV, ParseMapKxM
    <3> QED
      BY <1>4, <3>1, <3>2, <3>3 DEF Thunks
  <2> QED
    BY <2>1, <2>2
<1>9. Reads(f, r)
  BY <1>6, <1>8, CallReads
<1> QED
  BY <1>4, <1>7, <1>9

\* Every step preserves what is known of the fields.
LEMMA ReadInvKept ==
  ASSUME Inv, [Next]_vars
  PROVE  Inv'
<1>1. FieldsInv'
  BY StepKeeps DEF Inv
<1>2. CASE ParseField
  <2>1. schema' = schema
    BY <1>2, SchemaStays DEF Next
  <2> QED
    BY <1>1, <1>2, <2>1, ReadNext DEF Inv, ReadInv
<1>3. CASE ParseChild \/ ChildFails \/ UNCHANGED vars
  <2> USE DEF HasMessages
  <2>0. UNCHANGED <<schema, wire, msg>>
    BY <1>3 DEF ParseChild, ChildFails, vars
  <2>1. ASSUME NEW f
        PROVE  /\ Slot(f)' = Slot(f) /\ (OneSlot(f)' <=> OneSlot(f))
               /\ \A b : IsRead(b)' <=> IsRead(b)
    BY <2>0 DEF Slot, SlotOf, OneSlot, IsRead, RangeAt
  <2>2. ASSUME NEW f
        PROVE  (TextInv(f)' <=> TextInv(f)) /\ (HasbitInv(f)' <=> HasbitInv(f))
               /\ (TableInv(f)' <=> TableInv(f))
               /\ ((\A i \in DOMAIN Slot(f).elems : IsRead(Slot(f).elems[i]))'
                     <=> \A i \in DOMAIN Slot(f).elems : IsRead(Slot(f).elems[i]))
    <3>1. PICK s : s = Slot(f) /\ Slot(f)' = s
      BY <2>1
    <3>2. PICK g : g = SelectArchetype(schema.fields[f]).getter /\ g = SelectArchetype(schema'.fields[f]).getter
      BY <2>0
    <3>3. TextInv(f)' <=> TextInv(f)
      BY <2>1, <3>1 DEF TextInv, Trunc
    <3>4. HasbitInv(f)' <=> HasbitInv(f)
      BY <2>0, <3>1 DEF HasbitInv
    <3>5. TableInv(f)' <=> TableInv(f)
      BY <2>1, <3>1, <3>2 DEF TableInv, SelectArchetype
    <3> QED
      BY <2>1, <3>1, <3>3, <3>4, <3>5
  <2>3. ASSUME NEW f \in DOMAIN schema.fields, IsSeq(heap)
        PROVE  /\ IsSeq(heap')
               /\ RepeatedField(f) /\ HasMessages(f) /\ BlockInv(f) => BlockInv(f)'
    <3>1. CASE UNCHANGED vars
      BY <3>1, <2>1, <2>3 DEF vars, BlockInv
    <3>2. CASE ParseChild \/ ChildFails
      <4>1. /\ frame # <<>> /\ heap' \in {heap, ChildStored}
            /\ frame' # <<>> => frame'[1].addr = frame[1].addr
        BY <3>2 DEF ParseChild, ChildFails, Push
      <4>2. IsSeq(heap')
        BY <4>1, <2>3, ChildSeq
      <4>3. RepeatedField(f) /\ HasMessages(f) => MessagesInv(f)
        BY DEF Inv, FieldsInv, RepeatedInv
      <4> QED
        BY <4>1, <4>2, <4>3, <2>0, <2>3, ChildHeap
    <3> QED
      BY <1>3, <3>1, <3>2
  <2>4. ASSUME NEW f \in DOMAIN schema.fields, FieldRead(f)
        PROVE  FieldRead(f)'
    <3>1. IsSeq(heap) /\ IsSeq(heap')
      BY <2>3, <2>4 DEF FieldRead
    <3>2. schema.fields[f].card = "repeated" /\ HasMessages(f) => BlockInv(f)'
      BY <2>3, <2>4, <3>1 DEF FieldRead, RepeatedField
    <3> QED
      BY <2>0, <2>1, <2>2, <2>4, <3>1, <3>2 DEF FieldRead
  <2> QED
    BY <1>1, <2>0, <2>4 DEF Inv, ReadInv
<1> QED
  BY <1>2, <1>3 DEF Next

\* It holds initially ...
LEMMA InitReads ==
  ASSUME Init
  PROVE  Inv
<1>1. FieldsInv
  BY InitRepeated
<1>2. schema \in Schemas /\ wire = <<>> /\ heap = <<>> /\ frame = <<>>
      /\ msg = [slot |-> [f \in DOMAIN schema.fields |-> ZeroSlot(schema.fields[f])], bits |-> {}, which |-> 0]
  BY DEF Init
<1>3. ASSUME NEW f \in DOMAIN schema.fields, schema.fields[f].card # "oneof"
      PROVE  FieldRead(f)
  <2> DEFINE fd == schema.fields[f]
  <2>1. /\ DOMAIN schema.fields = {f} /\ SlotOf(f) = f
        /\ fd.card \in {"singular", "optional", "repeated", "map"}
    BY <1>2, <1>3, SoleField
  <2>2. Slot(f) = ZeroSlot(fd) /\ OneSlot(f)
    BY <1>2, <2>1 DEF Slot, OneSlot
  <2>3. IsSeq(<<>>) /\ Len(<<>>) = 0
    BY DEF IsSeq, ToSet
  <2>4. CASE fd.card \in {"singular", "optional"}
    <3>1. Slot(f) = 0
      BY <2>2, <2>4 DEF ZeroSlot
    <3>2. 0 \in 0 .. MaxParts /\ RangeAt(0, MaxParts) \in Nat
      BY SizeAssumption, RangesGrow
    <3>3. IsRead(0)
      BY <1>2, <2>3, <3>2 DEF IsRead
    <3>4. Trunc(zcRange, 0) = 0
      BY TruncFacts DEF IntegerTypes
    <3> QED
      BY <1>2, <2>2, <2>3, <2>4, <3>1, <3>3, <3>4 DEF FieldRead, TextInv, HasbitInv
  <2>5. CASE fd.card = "repeated"
    <3>1. fd.kind \in StringKinds => Slot(f) = NilSlice
      BY <2>2, <2>5 DEF ZeroSlot, StringKinds, MessageKinds
    <3>2. fd.kind \in StringKinds => DOMAIN Slot(f).elems = {}
      BY <3>1 DEF NilSlice
    <3>3. HasMessages(f) => BlockInv(f)
      <4>1. HasMessages(f) => Slot(f) = NilMessages
        BY <2>2, <2>5 DEF ZeroSlot, HasMessages
      <4>2. MessagesLen(NilMessages) = 0 /\ NilMessages.stride = 0
        BY <2>3 DEF MessagesLen, NilMessages
      <4> QED
        BY <4>1, <4>2, <1>2 DEF BlockInv
    <3> QED
      BY <1>2, <2>2, <2>3, <2>5, <3>2, <3>3 DEF FieldRead
  <2>6. CASE fd.card = "map"
    <3>1. Slot(f) = NilTable
      BY <2>2, <2>6 DEF ZeroSlot
    <3> QED
      BY <1>2, <2>2, <2>3, <2>6, <3>1 DEF FieldRead, TableInv
  <2> QED
    BY <2>1, <2>4, <2>5, <2>6
<1> QED
  BY <1>1, <1>3 DEF Inv, ReadInv

\* ... and always.
LEMMA ReadInvariance == Spec => []Inv
<1>1. Init => Inv
  BY InitReads
<1>2. Inv /\ [Next]_vars => Inv'
  BY ReadInvKept
<1> QED
  BY <1>1, <1>2, PTL DEF Spec

----------------------------------------------------------------------------
(* What getters return after a record failed *)

\* The default is what a slot of zeros is read as.
LEMMA ZeroIsDefault ==
  ASSUME NEW T \in Numbers \cup {zcRange}
  PROVE  /\ T # zcRange => Load(T, 0)' = 0
         /\ T = zcRange => Load(T, 0)' = <<>>
<1> USE DEF IntegerTypes
<1>1. Trunc(T, 0) = 0
  BY TruncFacts DEF Numbers
<1>2. CASE T = zcRange
  BY <1>1, <1>2 DEF Load, Content, ContentIn, zcRange
<1>3. CASE T \in Numbers
  <2>1. T.as \in {"uint", "int"} /\ T.bits \in {Bits32, Bits64} /\ T # zcRange
    BY <1>3 DEF Numbers, uint32, int32, float32, uint64, int64, float64, zcRange
  <2>2. 2^(T.bits - 1) \in Nat \ {0}
    BY <2>1, WidthAssumption
  <2>3. Signed(T, 0) = 0
    BY <2>2 DEF Signed
  <2> QED
    BY <1>1, <2>1, <2>3 DEF Load
<1> QED
  BY <1>2, <1>3

\* What is known after a record of f failed, before it stored something ...
Failed(f) ==
  /\ Inv /\ f \in DOMAIN schema.fields /\ schema.fields[f].card # "oneof"
  /\ \E r : Reads(f, r)
  /\ \E p : p \in SelectArchetype(schema.fields[f]).parsers
  /\ Kept(f)

\* ... and after it stored a message.
Stored(f) ==
  /\ Inv /\ f \in DOMAIN schema.fields /\ schema.fields[f].card # "oneof"
  /\ \E r : Reads(f, r)
  /\ \E p : p \in SelectArchetype(schema.fields[f]).parsers
  /\ Added(f)

\* A failure leaves what slots are read as ...
LEMMA FailedLoad ==
  ASSUME NEW f, Failed(f), NEW T \in IntegerTypes, NEW b, T.as = "range" => IsRead(b)
  PROVE  Load(T, b)' = Load(T, b)
BY LoadKept DEF Failed, Kept

\* ... and the bytes that ranges stand for.
LEMMA FailedContent ==
  ASSUME NEW f, Failed(f), NEW b, IsRead(b)
  PROVE  Content(b)' = Content(b)
<1>1. PICK r : Reads(f, r)
  BY DEF Failed
<1>2. wire' = Append(wire, WithField(r, f)) /\ IsSeq(wire)
  BY <1>1 DEF Reads
<1>3. ContentIn(wire', b) = ContentIn(wire, b)
  BY <1>2, ContentKept DEF IsRead
<1>4. Content(b)' = ContentIn(wire', b)
  BY DEF Content, ContentIn
<1> QED
  BY <1>3, <1>4 DEF Content

\* Singular and optional fields.
LEMMA PlainKept ==
  ASSUME NEW f, Failed(f), schema.fields[f].card \in {"singular", "optional"}
  PROVE  FailureKeeps(f)
<1> DEFINE fd == schema.fields[f]
<1>1. PICK g : g = SelectArchetype(fd).getter /\ FieldGetter(fd, g)
  <2>1. fd.kind \in Kinds
    BY SoleField DEF Failed, Inv, FieldsInv
  <2> QED
    BY <2>1, SingularArchetype, OptionalArchetype DEF Failed
<1>2. PICK s : s = Slot(f) /\ Slot(f)' = s
  BY DEF Failed, Kept
<1>3. schema' = schema /\ g = (SelectArchetype(schema.fields[f]).getter)'
  BY <1>1 DEF Failed, Reads, SelectArchetype
<1>4. fd.kind \in Kinds
  BY SoleField DEF Failed, Inv, FieldsInv
<1>5. FieldRead(f)
  BY DEF Failed, Inv, ReadInv
<1>6. \/ fd.kind \in MessageKinds /\ g = getMessage
      \/ fd.kind = "Bool" /\ g.get \in {"bit", "optionalBit"}
      \/ fd.kind \in StringKinds /\ g = Getter("text", zcRange)
      \/ fd.kind \in StringKinds /\ g = Getter("optional", zcRange)
      \/ fd.kind \in ScalarKinds \ {"Bool"} /\ \E T \in Numbers : g = Getter("scalar", T)
      \/ fd.kind \in ScalarKinds \ {"Bool"} /\ \E T \in Numbers : g = Getter("optional", T)
  BY <1>1, <1>4 DEF FieldGetter, Kinds, ScalarKinds, StringKinds, MessageKinds
<1>7. CASE fd.kind \in MessageKinds /\ g = getMessage
  <2>1. g.get = "message" /\ g.T = pointer
    BY <1>7 DEF getMessage, Getter
  <2>2. Get(f) = IF s = 0 THEN <<>> ELSE <<Load(pointer, s)>>
    BY <1>1, <1>2, <2>1 DEF Get
  <2>3. (Get(f))' = IF s = 0 THEN <<>> ELSE <<Load(pointer, s)'>>
    BY <1>2, <1>3, <2>1 DEF Get, pointer
  <2>4. Load(pointer, s)' = Load(pointer, s)
    BY FailedLoad DEF IntegerTypes, pointer
  <2> QED
    BY <2>2, <2>3, <2>4 DEF FailureKeeps
<1>8. CASE fd.kind = "Bool" /\ g.get \in {"bit", "optionalBit"}
  <2>1. msg'.bits = msg.bits
    BY <1>8 DEF Failed, Kept, Marks
  <2>2. CASE g.get = "bit"
    <3>1. Get(f) = (IF 0 \in msg.bits THEN <<1>> ELSE <<>>)
          /\ (Get(f))' = (IF 0 \in msg'.bits THEN <<1>> ELSE <<>>)
      BY <1>1, <1>3, <2>2 DEF Get
    <3> QED
      BY <2>1, <3>1 DEF FailureKeeps
  <2>3. CASE g.get = "optionalBit"
    <3>1. Get(f) = (IF 0 \in msg.bits THEN <<IF 1 \in msg.bits THEN 1 ELSE 0>> ELSE <<>>)
          /\ (Get(f))' = (IF 0 \in msg'.bits THEN <<IF 1 \in msg'.bits THEN 1 ELSE 0>> ELSE <<>>)
      BY <1>1, <1>3, <2>3 DEF Get
    <3> QED
      BY <2>1, <3>1 DEF FailureKeeps
  <2> QED
    BY <1>8, <2>2, <2>3
<1>9. CASE fd.kind \in StringKinds /\ g = Getter("text", zcRange)
  <2>1. g.get = "text"
    BY <1>9 DEF Getter
  <2>2. Get(f) = IF Content(s) = <<>> THEN <<>> ELSE <<Content(s)>>
    BY <1>1, <1>2, <2>1 DEF Get
  <2>3. (Get(f))' = IF Content(s)' = <<>> THEN <<>> ELSE <<Content(s)'>>
    BY <1>2, <1>3, <2>1 DEF Get, Content
  <2>4. IsRead(s)
    BY <1>2, <1>5, <1>9 DEF FieldRead, TextInv
  <2>5. Content(s)' = Content(s)
    BY <2>4, FailedContent
  <2> QED
    BY <2>2, <2>3, <2>5 DEF FailureKeeps
<1>10. CASE \E T \in Numbers : g = Getter("scalar", T)
  <2>1. PICK T \in Numbers : g = Getter("scalar", T)
    BY <1>10
  <2>2. g.get = "scalar" /\ g.T = T
    BY <2>1 DEF Getter
  <2>3. T \in IntegerTypes /\ T.as # "range"
    BY DEF Numbers, IntegerTypes, uint32, int32, float32, uint64, int64, float64
  <2>4. Get(f) = IF Trunc(T, s) = 0 THEN <<>> ELSE <<Load(T, s)>>
    BY <1>1, <1>2, <2>2 DEF Get
  <2>5. (Get(f))' = IF Trunc(T, s) = 0 THEN <<>> ELSE <<Load(T, s)'>>
    BY <1>2, <1>3, <2>2 DEF Get, Trunc
  <2>6. Load(T, s)' = Load(T, s)
    BY <2>3, FailedLoad
  <2> QED
    BY <2>4, <2>5, <2>6 DEF FailureKeeps
<1>11. ASSUME NEW T \in Numbers \cup {zcRange}, g = Getter("optional", T),
              T = zcRange <=> fd.kind \in StringKinds, fd.kind \notin MessageKinds \cup {"Bool"}
       PROVE  FailureKeeps(f)
  <2>1. g.get = "optional" /\ g.T = T
    BY <1>11 DEF Getter
  <2>2. fd.card = "optional"
    BY <1>1, <2>1 DEF FieldGetter
  <2>3. T \in IntegerTypes /\ (T.as = "range" => T = zcRange)
    BY DEF Numbers, IntegerTypes, uint32, int32, float32, uint64, int64, float64, zcRange
  <2>4. Get(f) = IF 0 \in msg.bits THEN <<Load(T, s)>> ELSE <<>>
    BY <1>1, <1>2, <2>1 DEF Get
  <2>5. (Get(f))' = IF 0 \in msg'.bits THEN <<Load(T, s)'>> ELSE <<>>
    BY <1>2, <1>3, <2>1 DEF Get
  <2>6. msg'.bits \in {msg.bits, msg.bits \cup {0}}
    BY DEF Failed, Kept
  <2>7. T = zcRange => IsRead(s)
    BY <1>2, <1>5, <1>11, <2>2 DEF FieldRead, TextInv
  <2>8. Load(T, s)' = Load(T, s)
    BY <2>3, <2>7, FailedLoad
  <2>9. CASE 0 \in msg.bits
    BY <2>4, <2>5, <2>6, <2>8, <2>9 DEF FailureKeeps
  <2>10. CASE 0 \notin msg.bits
    <3>1. s = 0
      BY <1>2, <1>5, <1>11, <2>2, <2>10 DEF FieldRead, HasbitInv
    <3>2. Load(T, s)' = Zero(fd.kind)
      <4>1. T # zcRange => Zero(fd.kind) = 0
        BY <1>4, <1>11 DEF Zero, Kinds
      <4>2. T = zcRange => Zero(fd.kind) = <<>>
        BY <1>11 DEF Zero, ScalarKinds, StringKinds
      <4>3. (T # zcRange => Load(T, 0)' = 0) /\ (T = zcRange => Load(T, 0)' = <<>>)
        BY ZeroIsDefault
      <4>4. Load(T, 0)' = Zero(fd.kind)
        BY <4>1, <4>2, <4>3
      <4> HIDE DEF fd
      <4> QED
        BY <3>1, <4>4
    <3>3. Get(f) = <<>> /\ (Get(f))' \in {<<>>, <<Zero(fd.kind)>>}
      BY <2>4, <2>5, <2>10, <3>2
    <3> QED
      BY <2>2, <3>3 DEF FailureKeeps, AddsEmpty
  <2> QED
    BY <2>9, <2>10
<1>12. CASE fd.kind \in StringKinds /\ g = Getter("optional", zcRange)
  BY <1>11, <1>12 DEF StringKinds, MessageKinds
<1>13. CASE fd.kind \in ScalarKinds \ {"Bool"} /\ \E T \in Numbers : g = Getter("optional", T)
  <2>1. PICK T \in Numbers : g = Getter("optional", T)
    BY <1>13
  <2>2. fd.kind \notin MessageKinds \cup StringKinds \cup {"Bool"}
    BY <1>13 DEF ScalarKinds, MessageKinds, StringKinds
  <2>3. T # zcRange
    BY DEF Numbers, uint32, int32, float32, uint64, int64, float64, zcRange
  <2> QED
    BY <1>11, <2>1, <2>2, <2>3
<1> QED
  BY <1>6, <1>7, <1>8, <1>9, <1>10, <1>12, <1>13

\* What a list of numbers reads as.
ListElements ==
  \A f, g, s : g = SelectArchetype(schema.fields[f]).getter /\ s = Slot(f) /\ g.get = "list"
                  => Get(f) = [i \in DOMAIN s.elems |-> Element(g, s, s.elems[i])]

LEMMA ListGets == ListElements
<1> SUFFICES ASSUME NEW f, NEW g, NEW s, g = SelectArchetype(schema.fields[f]).getter,
                    s = Slot(f), g.get = "list"
             PROVE  Get(f) = [i \in DOMAIN s.elems |-> Element(g, s, s.elems[i])]
  BY DEF ListElements
<1> QED
  BY DEF Get

\* Lists.
LEMMA RepeatedKept ==
  ASSUME NEW f, Failed(f), schema.fields[f].card = "repeated"
  PROVE  FailureKeeps(f)
<1> DEFINE fd == schema.fields[f]
<1>1. PICK g : g = SelectArchetype(fd).getter
  OBVIOUS
<1>2. PICK s : s = Slot(f) /\ Slot(f)' = s
  BY DEF Failed, Kept
<1>3. schema' = schema /\ g = (SelectArchetype(schema.fields[f]).getter)'
  BY <1>1 DEF Failed, Reads, SelectArchetype
<1>4. fd.kind \in Kinds
  BY SoleField DEF Failed, Inv, FieldsInv
<1>5. /\ fd.kind \in StringKinds => g.get = "listText"
      /\ fd.kind \in MessageKinds => g.get = "listMessage"
      /\ fd.kind \notin StringKinds \cup MessageKinds => g.get \in {"list", "listBool"} /\ g.E \in ListTypes
  BY <1>1, <1>4, RepeatedGetter
<1>6. CASE g.get = "listText" /\ fd.kind \in StringKinds
  <2>1. Get(f) = [i \in DOMAIN s.elems |-> Content(s.elems[i])]
    BY <1>1, <1>2, <1>6 DEF Get
  <2>2. (Get(f))' = [i \in DOMAIN s.elems |-> Content(s.elems[i])']
    BY <1>2, <1>3, <1>6 DEF Get, Content
  <2>3. FieldRead(f)
    BY DEF Failed, Inv, ReadInv
  <2>4. \A i \in DOMAIN s.elems : IsRead(s.elems[i])
    BY <1>2, <1>6, <2>3 DEF FieldRead
  <2>5. ASSUME NEW i \in DOMAIN s.elems
        PROVE  Content(s.elems[i])' = Content(s.elems[i])
    BY <2>4, FailedContent
  <2> QED
    BY <2>1, <2>2, <2>5 DEF FailureKeeps
<1>7. CASE g.get = "listMessage"
  <2>1. Get(f) = [i \in 1 .. MessagesLen(s) |-> Load(pointer, MessagesGet(s, i))]
    BY <1>1, <1>2, <1>7 DEF Get
  <2>2. (Get(f))' = [i \in 1 .. MessagesLen(s) |-> Load(pointer, MessagesGet(s, i))']
    BY <1>2, <1>3, <1>7 DEF Get, MessagesLen, MessagesGet, pointer
  <2>3. ASSUME NEW b
        PROVE  Load(pointer, b)' = Load(pointer, b)
    BY FailedLoad DEF IntegerTypes, pointer
  <2>4. ASSUME NEW i
        PROVE  Load(pointer, MessagesGet(s, i))' = Load(pointer, MessagesGet(s, i))
    BY <2>3 DEF MessagesGet
  <2> QED
    BY <2>1, <2>2, <2>4 DEF FailureKeeps
<1>8. CASE g.get = "list" /\ g.E \in ListTypes
  <2>1. Get(f) = [i \in DOMAIN s.elems |-> Element(g, s, s.elems[i])]
    BY <1>1, <1>2, <1>8 DEF Get
  <2>2. (Get(f))' = [i \in DOMAIN s.elems |-> Element(g, s, s.elems[i])']
    <3>1. ListElements
      BY ListGets
    <3>2. ListElements'
      BY ListGets, PTL
    <3> QED
      BY <1>2, <1>3, <1>8, <3>2 DEF ListElements
  <2>3. g.E \in IntegerTypes /\ g.E.as # "range"
    BY <1>8 DEF ListTypes, Numbers, IntegerTypes, uint8, uint32, int32, float32, uint64, int64, float64
  <2>4. ASSUME NEW b
        PROVE  Element(g, s, b)' = Element(g, s, b)
    <3> DEFINE e == IF s.mode = "zc" THEN Trunc(g.E, Trunc(g.ZC, b)) ELSE Trunc(g.E, b)
    <3>1. PICK c : c = IF g.zigzag THEN DecodeZigZag(g.E, e) ELSE e
      OBVIOUS
    <3>2. Element(g, s, b) = Load(g.E, c) /\ Element(g, s, b)' = Load(g.E, c)'
      BY <3>1 DEF Element
    <3> QED
      BY <2>3, <3>2, FailedLoad
  <2> QED
    BY <2>1, <2>2, <2>4 DEF FailureKeeps
<1>9. CASE g.get = "listBool"
  <2>1. /\ Get(f) = [i \in DOMAIN s.elems |-> IF s.elems[i] # 0 THEN 1 ELSE 0]
        /\ (Get(f))' = [i \in DOMAIN s.elems |-> IF s.elems[i] # 0 THEN 1 ELSE 0]
    BY <1>1, <1>2, <1>3, <1>9 DEF Get
  <2> QED
    BY <2>1 DEF FailureKeeps
<1>10. \/ g.get = "listText" /\ fd.kind \in StringKinds
       \/ g.get = "listMessage"
       \/ g.get \in {"list", "listBool"} /\ g.E \in ListTypes
  BY <1>5
<1> QED
  BY <1>6, <1>7, <1>8, <1>9, <1>10

\* Maps: what an entry is read as, and the key a lookup finds it by.
LEMMA EntryKept ==
  ASSUME NEW f, Failed(f), NEW T \in IntegerTypes, NEW stored, NEW b, T.as = "range" => IsRead(b)
  PROVE  LoadAs(T, stored, b)' = LoadAs(T, stored, b)
<1>1. Load(T, b)' = Load(T, b)
  BY FailedLoad
<1> QED
  BY <1>1 DEF LoadAs

\* The key that a lookup compares stays.
LEMMA LookupKept ==
  ASSUME NEW f, Failed(f), NEW by \in {"content", "value"}, NEW T, NEW k,
         by = "content" => IsRead(k)
  PROVE  (KeyOf(wire, by, T, k)[1])' = KeyOf(wire, by, T, k)[1]
<1>1. CASE by = "content"
  <2>1. KeyOf(wire, by, T, k)[1] = Content(k) /\ (KeyOf(wire, by, T, k)[1])' = Content(k)'
    BY <1>1 DEF KeyOf, Content, ContentIn
  <2> QED
    BY <1>1, <2>1, FailedContent
<1>2. CASE by = "value"
  BY <1>2 DEF KeyOf, Zext, Trunc, Signed
<1> QED
  BY <1>1, <1>2

\* The getter of a map field reads its table.
GetsEntries ==
  \A f, g, s :
    g = SelectArchetype(schema.fields[f]).getter /\ s = Slot(f) /\ g.get = "map" => Get(f) = MapEntries(g, s)

LEMMA MapGets == GetsEntries
<1> SUFFICES ASSUME NEW f, NEW g, NEW s, g = SelectArchetype(schema.fields[f]).getter,
                    s = Slot(f), g.get = "map"
             PROVE  Get(f) = MapEntries(g, s)
  BY DEF GetsEntries
<1> QED
  BY DEF Get

\* The map of a field stays, lookups and all.
LEMMA MapKept ==
  ASSUME NEW f, Failed(f), schema.fields[f].card = "map"
  PROVE  FailureKeeps(f)
<1> DEFINE fd == schema.fields[f]
<1>1. PICK g : g = SelectArchetype(fd).getter
  OBVIOUS
<1>2. PICK s : s = Slot(f) /\ Slot(f)' = s
  BY DEF Failed, Kept
<1>3. schema' = schema /\ g = (SelectArchetype(schema.fields[f]).getter)'
  BY <1>1 DEF Failed, Reads, SelectArchetype
<1>4. g.get = "map" /\ g.K \in IntegerTypes /\ g.V \in IntegerTypes
  <2>1. fd.kind \in Kinds \ {"Group"} /\ fd.key \in DOMAIN mapFields
    BY SoleField DEF Failed, Inv, FieldsInv
  <2>2. PICK p : p \in SelectArchetype(fd).parsers
    BY DEF Failed
  <2> QED
    BY <1>1, <2>1, <2>2, MapArchetype DEF TableThunk
<1>5. Get(f) = MapEntries(g, s)
  BY <1>1, <1>2, <1>4 DEF Get
<1>6. (Get(f))' = MapEntries(g, s)'
  <2>1. GetsEntries'
    BY MapGets, PTL
  <2> QED
    BY <1>2, <1>3, <1>4, <2>1 DEF GetsEntries
<1>7. CASE s = NilTable
  <2>1. MapEntries(g, s) = {} /\ MapEntries(g, s)' = {}
    BY <1>7 DEF MapEntries, NilTable
  <2> QED
    BY <1>5, <1>6, <2>1 DEF FailureKeeps
<1>8. CASE s # NilTable
  <2> DEFINE by == IF g.K.as = "range" THEN "content" ELSE "value"
             K(T) == IF T.as = "bool" THEN uint8 ELSE T
             pairs == ToSet(s.pairs)
             same(k, p) == KeyOf(wire, by, K(g.K), k)[1] = KeyOf(wire, by, s.key, p.k)[1]
             values(k) == {LoadAs(g.V, s.val, p.v) : p \in {p \in pairs : same(k, p)}}
             entries == {<<LoadAs(g.K, s.key, p.k), LoadAs(g.V, s.val, p.v), values(p.k)>> : p \in pairs}
  <2>1. ASSUME NEW p \in pairs
        PROVE  (g.K.as = "range" => IsRead(p.k)) /\ (g.V.as = "range" => IsRead(p.v))
    <3>1. FieldRead(f)
      BY DEF Failed, Inv, ReadInv
    <3>2. TableInv(f)
      BY <3>1 DEF FieldRead
    <3>3. \A i \in DOMAIN s.pairs : /\ g.K.as = "range" => IsRead(s.pairs[i].k)
                                    /\ g.V.as = "range" => IsRead(s.pairs[i].v)
      BY <1>1, <1>2, <1>8, <3>2 DEF TableInv
    <3> QED
      BY <3>3 DEF ToSet
  <2>2. MapEntries(g, s) = entries
    BY <1>8 DEF MapEntries, MapGet
  <2>3. MapEntries(g, s)' = entries'
    BY <1>8 DEF MapEntries, MapGet, NilTable
  <2>4. pairs' = pairs
    BY DEF ToSet
  <2> HIDE DEF pairs
  <2>5. ASSUME NEW p \in pairs
        PROVE  /\ LoadAs(g.K, s.key, p.k)' = LoadAs(g.K, s.key, p.k)
               /\ LoadAs(g.V, s.val, p.v)' = LoadAs(g.V, s.val, p.v)
    BY <1>4, <2>1, EntryKept
  <2>6. ASSUME NEW p \in pairs, NEW q \in pairs
        PROVE  same(p.k, q)' <=> same(p.k, q)
    <3>1. by \in {"content", "value"} /\ (by = "content" => IsRead(p.k) /\ IsRead(q.k))
      BY <2>1
    <3> HIDE DEF by
    <3>2. PICK T : T = K(g.K)
      OBVIOUS
    <3>3. (KeyOf(wire, by, T, p.k)[1])' = KeyOf(wire, by, T, p.k)[1]
      BY <3>1, LookupKept
    <3>4. (KeyOf(wire, by, s.key, q.k)[1])' = KeyOf(wire, by, s.key, q.k)[1]
      BY <3>1, LookupKept
    <3> QED
      BY <3>2, <3>3, <3>4
  <2>7. ASSUME NEW p \in pairs
        PROVE  values(p.k)' = values(p.k)
    <3> HIDE DEF same
    <3> QED
      BY <2>4, <2>5, <2>6
  <2>8. entries' = entries
    <3> HIDE DEF values
    <3> QED
      BY <2>4, <2>5, <2>7
  <2> QED
    BY <1>5, <1>6, <2>2, <2>3, <2>8 DEF FailureKeeps
<1> QED
  BY <1>7, <1>8

\* A message that was stored before its record failed is empty.
LEMMA StoredKept ==
  ASSUME NEW f, Stored(f), schema.fields[f].card # "map"
  PROVE  FailureKeeps(f)
<1> DEFINE fd == schema.fields[f]
<1>1. PICK g : g = SelectArchetype(fd).getter
  OBVIOUS
<1>2. schema' = schema /\ g = (SelectArchetype(schema.fields[f]).getter)'
  BY <1>1 DEF Stored, Reads, SelectArchetype
<1>3. fd.kind \in MessageKinds /\ fd.kind \in Kinds /\ FieldRead(f)
  BY SoleField DEF Stored, Added, HasMessages, Inv, FieldsInv, ReadInv
<1>4. \A b : /\ Load(pointer, b) = IF b \in DOMAIN heap THEN heap[b].tokens ELSE <<Garbage>>
             /\ Load(pointer, b)' = IF b \in DOMAIN heap' THEN heap'[b].tokens ELSE <<Garbage>>
  BY DEF Load, pointer
<1>5. CASE Fresh(f)
  <2>1. fd.card \in {"singular", "optional"} /\ Slot(f) = 0 /\ Slot(f)' = Len(heap) + 1
        /\ heap' = Append(heap, NewMessage(f))
    BY <1>5 DEF Fresh
  <2>2. FieldGetter(fd, g)
    BY <1>1, <1>3, <2>1, SingularArchetype, OptionalArchetype DEF Stored
  <2>3. g = getMessage
    BY <1>3, <2>2 DEF FieldGetter, MessageKinds, StringKinds
  <2>4. g.get = "message" /\ g.T = pointer
    BY <2>3 DEF getMessage, Getter
  <2>5. Len(heap) \in Nat /\ Len(heap) + 1 \in DOMAIN heap' /\ heap'[Len(heap) + 1].tokens = <<>>
    BY <1>3, <2>1, HeapAppend DEF FieldRead
  <2>6. Get(f) = <<>>
    BY <1>1, <2>1, <2>4 DEF Get
  <2>7. PICK m : m = Slot(f)' /\ m # 0 /\ Load(pointer, m)' = <<>>
    BY <1>4, <2>1, <2>5
  <2>8. (Get(f))' = <<Load(pointer, m)'>>
    BY <1>2, <2>4, <2>7 DEF Get, pointer
  <2>9. (Get(f))' = Append(Get(f), <<>>)
    BY <2>6, <2>7, <2>8
  <2> QED
    BY <2>1, <2>9, <1>3 DEF FailureKeeps, AddsEmpty, HasMessages
<1>6. CASE fd.card = "repeated" /\ Grew(f) /\ Stable(f) /\ BlockInv(f)
  <2>1. g.get = "listMessage"
    BY <1>1, <1>3, <1>6, RepeatedGetter
  <2> DEFINE s == Slot(f)
  <2>2. PICK u, n : u = Slot(f)' /\ n = MessagesLen(s)
    OBVIOUS
  <2>3. /\ n \in Nat /\ MessagesLen(u) = n + 1
        /\ MessagesGet(u, n + 1) \in DOMAIN heap' /\ heap'[MessagesGet(u, n + 1)].tokens = <<>>
        /\ \A a \in DOMAIN heap : a \in DOMAIN heap' /\ heap'[a] = heap[a]
    BY <1>6, <2>2 DEF Grew
  <2>4. \A i \in 1 .. n : MessagesGet(u, i) = MessagesGet(s, i) /\ MessagesGet(s, i) \in DOMAIN heap
    BY <1>6, <2>2 DEF Stable, BlockInv
  <2> DEFINE old(i) == Load(pointer, MessagesGet(s, i))
             new(i) == Load(pointer, MessagesGet(u, i))'
  <2>5. Get(f) = [i \in 1 .. n |-> old(i)]
    BY <1>1, <2>1, <2>2 DEF Get
  <2>6. (Get(f))' = [i \in 1 .. MessagesLen(u) |-> new(i)]
    BY <1>2, <2>1, <2>2 DEF Get, MessagesLen, MessagesGet, pointer
  <2>7. ASSUME NEW i \in 1 .. n
        PROVE  new(i) = old(i)
    <3>1. PICK a : a = MessagesGet(u, i)
      OBVIOUS
    <3>2. a = MessagesGet(s, i) /\ a \in DOMAIN heap
      BY <3>1, <2>4
    <3>3. old(i) = Load(pointer, a)
      BY <3>2
    <3>4. new(i) = Load(pointer, a)'
      BY <3>1 DEF MessagesGet
    <3> QED
      BY <3>2, <3>3, <3>4, <2>3, <1>4
  <2>8. new(n + 1) = <<>>
    <3>1. PICK a : a = MessagesGet(u, n + 1)
      OBVIOUS
    <3>2. new(n + 1) = Load(pointer, a)'
      BY <3>1 DEF MessagesGet
    <3> QED
      BY <3>1, <3>2, <2>3, <1>4
  <2> HIDE DEF old, new
  <2>9. IsSeq(Get(f)) /\ Len(Get(f)) = n /\ \A i \in 1 .. n : Get(f)[i] = old(i)
    <3>1. PICK q : q = Get(f) /\ q = [i \in 1 .. n |-> q[i]] /\ \A i \in 1 .. n : q[i] = old(i)
      BY <2>5
    <3> QED
      BY <3>1, <2>3, ValuesAreSeq
  <2>10. (Get(f))' = Append(Get(f), <<>>)
    <3>1. PICK q : q = Get(f)
      OBVIOUS
    <3>2. /\ IsSeq(Append(q, <<>>)) /\ Len(Append(q, <<>>)) = n + 1
          /\ \A i \in 1 .. n : Append(q, <<>>)[i] = old(i)
          /\ Append(q, <<>>)[n + 1] = <<>>
      BY <3>1, <2>9, AppendIsSeq
    <3>3. PICK x : x = Append(q, <<>>)
      OBVIOUS
    <3>4. x = [i \in 1 .. n + 1 |-> x[i]]
      <4>1. x \in Seq(ToSet(x)) /\ Len(x) = n + 1
        BY <3>2, <3>3 DEF IsSeq
      <4> QED
        BY <4>1
    <3>5. \A i \in 1 .. n + 1 : x[i] = new(i)
      <4>1. \A i \in 1 .. n + 1 : i = n + 1 \/ i \in 1 .. n
        BY <2>3
      <4> QED
        BY <4>1, <3>2, <3>3, <2>7, <2>8
    <3>6. x = [i \in 1 .. n + 1 |-> new(i)]
      BY <3>4, <3>5
    <3> QED
      BY <3>1, <3>3, <3>6, <2>3, <2>6
  <2> QED
    BY <2>10, <1>3, <1>6 DEF FailureKeeps, AddsEmpty, HasMessages
<1> QED
  BY <1>5, <1>6 DEF Stored, Added

\* The field holds a map of messages.
MapsToMessages(f) == schema.fields[f].card = "map" /\ HasMessages(f)

\* A failure leaves every field outside oneofs.
LEMMA FailureStep ==
  ASSUME Inv, Next, NEW f \in DOMAIN schema.fields, status' = "failed", frame = <<>>,
         schema.fields[f].card # "oneof", ~MapsToMessages(f)
  PROVE  FailureKeeps(f)
<1>1. ParseField
  BY DEF Next, ParseChild, ChildFails
<1>2. FieldsInv'
  BY StepKeeps DEF Inv, vars
<1>3. Failed(f) \/ Stored(f)
  BY <1>1, <1>2, ReadNext DEF Failed, Stored
<1>4. CASE Failed(f)
  <2>1. schema.fields[f].card \in {"singular", "optional", "repeated", "map"}
    BY SoleField DEF Inv, FieldsInv
  <2> QED
    BY <2>1, <1>4, PlainKept, RepeatedKept, MapKept
<1>5. CASE Stored(f)
  <2>1. schema.fields[f].card # "map"
    BY <1>5 DEF Stored, Added, MapsToMessages
  <2> QED
    BY <2>1, <1>5, StoredKept
<1> QED
  BY <1>3, <1>4, <1>5

----------------------------------------------------------------------------
(* Theorems *)

\* The slot of every repeated field is a list or a block of messages, as its records
\* made it (repeated.go, repeated_message.go).
THEOREM RepeatedInvariant == Spec => []RepeatedInv
BY FieldsInvariance, PTL DEF FieldsInv

\* Whatever records come, lists fit their capacities, although parsePackedVarint
\* writes without looking at it, and nothing is appended to a borrowed list
\* (repeated.go).
THEOREM ListsAlwaysFit == Spec => []ListsFit
<1>1. ASSUME RepeatedInv
      PROVE  ListsFit
  <2>1. ASSUME NEW f \in DOMAIN schema.fields, RepeatedField(f), HasMessages(f)
        PROVE  Slot(f).mode # "zc"
    <3>1. Slot(f).mode \in {"nil", "arena"}
      BY <1>1, <2>1 DEF RepeatedInv, MessagesInv
    <3> QED
      BY <3>1
  <2>2. ASSUME NEW f \in DOMAIN schema.fields, RepeatedField(f), ~HasMessages(f)
        PROVE  /\ Len(Slot(f).elems) <= Slot(f).cap
               /\ Slot(f).mode = "zc" => Slot(f).elems = ValuesAt(Min(FullRecords))
    BY <1>1, <2>2 DEF RepeatedInv, ListInv, IsList
  <2> QED
    BY <2>1, <2>2 DEF ListsFit
<1> QED
  BY <1>1, RepeatedInvariant, PTL

\* Messages of a repeated field keep their places and their addresses when the list
\* spills and grows (repeated_message.go).
THEOREM MessagesStay == Spec => AddressesStable
<1> DEFINE Stay == \A f \in DOMAIN schema.fields :
                     RepeatedField(f) /\ HasMessages(f) =>
                       /\ MessagesLen(Slot(f)) <= MessagesLen(Slot(f)')
                       /\ \A i \in 1 .. MessagesLen(Slot(f)) :
                            MessagesGet(Slot(f), i) = (MessagesGet(Slot(f), i))'
<1>1. FieldsInv /\ [Next]_vars => [Stay]_vars
  BY StepKeeps DEF Stable, MessagesGet
<1> QED
  BY <1>1, FieldsInvariance, PTL DEF Spec, AddressesStable

\* A record that fails leaves what could be read before it readable, and adds at most an
\* empty message or the zero of an optional field: for schemas of any size, any records and
\* any number of them (optional.go, singular.go, repeated.go, repeated_message.go, map.go).
\* Maps of messages are left to the runs.
THEOREM FailuresKeepFields ==
  Spec => [][\A f \in DOMAIN schema.fields :
               status' = "failed" /\ frame = <<>> /\ schema.fields[f].card # "oneof" /\ ~MapsToMessages(f) =>
                 FailureKeeps(f)]_vars
<1> DEFINE A == \A f \in DOMAIN schema.fields :
                  status' = "failed" /\ frame = <<>> /\ schema.fields[f].card # "oneof" /\ ~MapsToMessages(f) =>
                    FailureKeeps(f)
<1>1. Inv /\ [Next]_vars => [A]_vars
  <2>1. ASSUME Inv, Next
        PROVE  A
    BY <2>1, FailureStep
  <2> QED
    BY <2>1
<1> QED
  BY <1>1, ReadInvariance, PTL DEF Spec
=============================================================================
