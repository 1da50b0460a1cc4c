------------------------------ MODULE Probing -------------------------------
(***************************************************************************)
(* The arithmetic behind the prober of internal/swiss: the offsets f(i) =  *)
(* (i^2 + i)/2 reach every word of a table whose number of words is a      *)
(* power of two.                                                           *)
(***************************************************************************)
EXTENDS Integers, FiniteSetTheorems, TLAPS

\* Every non-empty set of naturals has a least element.
LEMMA LeastOfNats ==
  ASSUME NEW S, S \subseteq Nat, S # {}
  PROVE  \E l \in S : \A k \in S : l <= k
<1> DEFINE R == OpToRel(<, Nat)
<1>1. ASSUME NEW k \in Nat, NEW l \in Nat, k < l
      PROVE  <<k, l>> \in R
  <2>1. <<k, l>> \in Nat \X Nat /\ <<k, l>>[1] < <<k, l>>[2]
    BY <1>1
  <2> QED
    BY <2>1, Zenon DEF OpToRel
<1>2. IsWellFoundedOn(R, Nat)
  BY NatLessThanWellFounded
<1> HIDE DEF R
<1>3. PICK l \in S : \A k \in S : ~ (<<k, l>> \in R)
  <2>1. \E l \in S : \A k \in S : ~ (<<k, l>> \in R)
    BY <1>2, WFMin
  <2> QED
    BY <2>1
<1>4. ASSUME NEW k \in S PROVE l <= k
  <2>1. k \in Nat /\ l \in Nat
    OBVIOUS
  <2>2. ~(k < l)
    BY <1>1, <1>3, <2>1
  <2> QED
    BY <2>1, <2>2
<1> QED
  BY <1>4

\* Induction over the naturals, for the elements of a set.
LEMMA SetInduction ==
  ASSUME NEW S, 0 \in S, \A k \in Nat : k \in S => k + 1 \in S
  PROVE  \A k \in Nat : k \in S
<1> DEFINE Bad == {k \in Nat : k \notin S}
<1>1. CASE Bad = {}
  BY <1>1
<1>2. CASE Bad # {}
  <2>1. PICK l \in Bad : \A k \in Bad : l <= k
    BY <1>2, LeastOfNats
  <2>2. l # 0 /\ l - 1 \in Nat /\ l - 1 \notin Bad
    BY <2>1
  <2>3. l - 1 \in S /\ (l - 1) + 1 = l
    BY <2>2
  <2> QED
    BY <2>1, <2>2, <2>3
<1> QED
  BY <1>1, <1>2

\* What a function on 0 .. n may be defined by: its first value and a step.
IsStep(V, base, n, step) == n \in Nat /\ base \in V /\ step \in [(1 .. n) \X V -> V]
HasFunction(V, base, n, step) ==
  \E f \in [0 .. n -> V] : f[0] = base /\ \A i \in 1 .. n : f[i] = step[<<i, f[i - 1]>>]

\* There is such a function.
LEMMA RecursiveFunction ==
  ASSUME NEW V, NEW base, NEW n, NEW step, IsStep(V, base, n, step)
  PROVE  HasFunction(V, base, n, step)
<1> USE DEF IsStep
<1> DEFINE Good(f, k) == f[0] = base /\ \A i \in 1 .. k : f[i] = step[<<i, f[i - 1]>>]
           S == {k \in Nat : k <= n => \E f \in [0 .. n -> V] : Good(f, k)}
<1>1. 0 \in S
  <2> DEFINE f == [i \in 0 .. n |-> base]
  <2>1. f \in [0 .. n -> V] /\ Good(f, 0)
    OBVIOUS
  <2> QED
    BY <2>1
<1>2. ASSUME NEW k \in Nat, k \in S
      PROVE  k + 1 \in S
  <2> SUFFICES ASSUME k + 1 <= n
               PROVE  \E f \in [0 .. n -> V] : Good(f, k + 1)
    OBVIOUS
  <2>1. PICK f \in [0 .. n -> V] : Good(f, k)
    BY <1>2
  <2> DEFINE g == [f EXCEPT ![k + 1] = step[<<k + 1, f[k]>>]]
  <2>2. k \in 0 .. n /\ k + 1 \in 1 .. n /\ k + 1 \in 0 .. n /\ f[k] \in V
    OBVIOUS
  <2>3. step[<<k + 1, f[k]>>] \in V
    BY <2>2
  <2>4. g \in [0 .. n -> V] /\ g[k + 1] = step[<<k + 1, f[k]>>]
        /\ \A i \in 0 .. k : g[i] = f[i]
    BY <2>2, <2>3
  <2> HIDE DEF g
  <2>5. g[0] = base
    BY <2>1, <2>4
  <2>6. ASSUME NEW i \in 1 .. k + 1
        PROVE  g[i] = step[<<i, g[i - 1]>>]
    <3>1. i - 1 \in 0 .. k /\ g[i - 1] = f[i - 1]
      BY <2>4
    <3>2. CASE i = k + 1
      BY <3>1, <3>2, <2>4
    <3>3. CASE i # k + 1
      <4>1. i \in 1 .. k /\ g[i] = f[i]
        BY <3>3, <2>4
      <4> QED
        BY <4>1, <3>1, <2>1
    <3> QED
      BY <3>2, <3>3
  <2> QED
    BY <2>4, <2>5, <2>6
<1> HIDE DEF S
<1>3. n \in S
  BY <1>1, <1>2, SetInduction
<1> QED
  BY <1>3 DEF S, HasFunction

\* m divides x.
Divides(m, x) == \E q \in Int : x = m * q

\* pow[i] is the i-th power of two.
Powers(pow, n) ==
  /\ n \in Nat /\ pow \in [0 .. n -> Nat]
  /\ pow[0] = 1 /\ \A i \in 0 .. n - 1 : pow[i + 1] = 2 * pow[i]

\* A power of two that divides a product with an odd factor divides the other.
LEMMA OddFactor ==
  ASSUME NEW pow, NEW n, Powers(pow, n), NEW k \in 0 .. n, NEW a \in Int, NEW b \in Int,
         a % 2 = 1, Divides(pow[k], a * b)
  PROVE  Divides(pow[k], b)
<1> DEFINE P(i) == \A x \in Int : Divides(pow[i], a * x) => Divides(pow[i], x)
           Bad == {i \in 0 .. n : ~P(i)}
<1>1. P(0)
  <2>1. \A x \in Int : x = 1 * x
    OBVIOUS
  <2> QED
    BY <2>1 DEF Powers, Divides
<1>2. ASSUME NEW i \in 0 .. n - 1, P(i)
      PROVE  P(i + 1)
  <2> SUFFICES ASSUME NEW x \in Int, NEW q \in Int, a * x = pow[i + 1] * q
               PROVE  Divides(pow[i + 1], x)
    BY DEF Divides
  <2> DEFINE m == pow[i]
             c == a \div 2
  <2>1. m \in Nat /\ pow[i + 1] = 2 * m /\ i \in 0 .. n
    BY DEF Powers
  <2> HIDE DEF m
  <2>2. c \in Int /\ a = 2 * c + 1
    OBVIOUS
  <2> HIDE DEF c
  <2> DEFINE y == m * q - c * x
  <2>3. y \in Int /\ x = 2 * y
    <3>1. a * x = 2 * (c * x) + x
      BY <2>2
    <3>2. (2 * m) * q = 2 * (m * q)
      BY <2>1
    <3> DEFINE u == c * x
               v == m * q
               w == a * x
    <3>3. u \in Int /\ v \in Int /\ w = 2 * u + x /\ w = 2 * v
      BY <2>1, <2>2, <3>1, <3>2
    <3> HIDE DEF u, v, w
    <3>4. v - u \in Int /\ x = 2 * (v - u)
      BY <3>3
    <3> QED
      BY <3>4 DEF u, v
  <2> HIDE DEF y
  <2>4. a * y = m * q
    <3>1. a * x = 2 * (a * y)
      BY <2>3
    <3>2. (2 * m) * q = 2 * (m * q)
      BY <2>1
    <3>3. a * y \in Int /\ m * q \in Int
      BY <2>1, <2>3
    <3>4. 2 * (a * y) = 2 * (m * q)
      BY <2>1, <3>1, <3>2
    <3> QED
      BY <3>3, <3>4
  <2>5. PICK r \in Int : y = m * r
    BY <1>2, <2>3, <2>4 DEF Divides, m
  <2>6. x = (2 * m) * r
    BY <2>1, <2>3, <2>5
  <2> QED
    BY <2>1, <2>6 DEF Divides
<1>3. Bad = {}
  <2> SUFFICES ASSUME Bad # {} PROVE FALSE
    OBVIOUS
  <2>1. Bad \subseteq Nat
    BY DEF Powers
  <2> HIDE DEF P
  <2>2. PICK l \in Bad : \A j \in Bad : l <= j
    <3> HIDE DEF Bad
    <3> QED
      BY <2>1, LeastOfNats
  <2>3. l \in 0 .. n /\ l # 0 /\ n \in Nat
    BY <1>1 DEF Powers
  <2>4. l - 1 \in 0 .. n - 1 /\ P(l - 1)
    BY <2>2, <2>3
  <2>5. P((l - 1) + 1)
    BY <1>2, <2>4
  <2> QED
    BY <2>3, <2>5
<1> QED
  BY <1>3 DEF Bad

\* No number between 0 and m is a multiple of m.
LEMMA NoMultipleBelow ==
  ASSUME NEW m \in Nat, NEW x \in Int, 0 < x, x < m
  PROVE  ~Divides(m, x)
<1> SUFFICES ASSUME NEW q \in Int, x = m * q PROVE FALSE
  BY DEF Divides
<1>1. CASE q <= 0
  BY <1>1
<1>2. CASE q >= 1
  <2>1. m * q = m + m * (q - 1) /\ m * (q - 1) >= 0
    BY <1>2
  <2> QED
    BY <2>1
<1> QED
  BY <1>1, <1>2

\* Of a power of two of words, no two are probed at the same offset.
LEMMA OffsetsDiffer ==
  ASSUME NEW pow, NEW n, Powers(pow, n), NEW k \in 0 .. n - 1,
         NEW s \in 0 .. pow[k] - 1, NEW t \in 0 .. pow[k] - 1, s < t
  PROVE  ~Divides(2 * pow[k], t * (t + 1) - s * (s + 1))
<1>1. /\ pow[k] \in Nat /\ pow[k + 1] = 2 * pow[k] /\ pow[k + 1] \in Nat
      /\ k + 1 \in 0 .. n /\ s \in Int /\ t \in Int
  BY DEF Powers
<1> DEFINE a == t - s
           b == t + s + 1
<1>2. a * b = t * (t + 1) - s * (s + 1) /\ b * a = a * b
  BY <1>1
<1>3. a \in Int /\ b \in Int /\ (a % 2 = 1 \/ b % 2 = 1)
  BY <1>1
<1>4. 0 < a /\ a < pow[k + 1] /\ 0 < b /\ b < pow[k + 1]
  BY <1>1
<1> HIDE DEF a, b
<1>5. ~Divides(pow[k + 1], a) /\ ~Divides(pow[k + 1], b)
  BY <1>1, <1>3, <1>4, NoMultipleBelow
<1>6. ~Divides(pow[k + 1], a * b)
  <2>1. CASE a % 2 = 1
    BY <1>1, <1>3, <1>5, <2>1, OddFactor
  <2>2. CASE b % 2 = 1
    <3>1. ~Divides(pow[k + 1], b * a)
      BY <1>1, <1>3, <1>5, <2>2, OddFactor
    <3> QED
      BY <1>2, <3>1
  <2> QED
    BY <1>3, <2>1, <2>2
<1> QED
  BY <1>1, <1>2, <1>6

\* So every word is probed: each q below W is f(s) for some s, modulo W.
LEMMA OffsetsCover ==
  ASSUME NEW pow, NEW n, Powers(pow, n), NEW k \in 0 .. n - 1, NEW q \in 0 .. pow[k] - 1
  PROVE  \E s \in 0 .. pow[k] - 1 : \E z \in Int : s * (s + 1) = 2 * q + 2 * (pow[k] * z)
<1> DEFINE W == pow[k]
           S == 0 .. W - 1
           f == [s \in S |-> ((s * (s + 1)) % (2 * W)) \div 2]
<1>1. W \in Nat /\ W > 0
  <2>1. pow[k] \in Nat
    BY DEF Powers
  <2> QED
    BY <2>1
<1>2. ASSUME NEW s \in S
      PROVE  /\ f[s] \in S
             /\ \E z \in Int : s * (s + 1) = 2 * f[s] + 2 * (W * z)
  <2> DEFINE p == s * (s + 1)
             h == s \div 2
             g == (s + 1) \div 2
  <2>1. p \in Int /\ p % 2 = 0
    <3>1. s \in Int /\ h \in Int /\ g \in Int /\ (s = 2 * h \/ s + 1 = 2 * g)
      BY <1>1
    <3> HIDE DEF h, g
    <3>2. CASE s = 2 * h
      <4>1. p = 2 * (h * (s + 1)) /\ h * (s + 1) \in Int
        BY <3>1, <3>2
      <4> QED
        BY <4>1
    <3>3. CASE s + 1 = 2 * g
      <4>1. p = 2 * (s * g) /\ s * g \in Int
        BY <3>1, <3>3
      <4> QED
        BY <4>1
    <3> QED
      BY <3>1, <3>2, <3>3
  <2> DEFINE r == p % (2 * W)
             z == p \div (2 * W)
  <2>2. /\ r \in 0 .. 2 * W - 1 /\ z \in Int
        /\ p = (2 * W) * z + r /\ (2 * W) * z = 2 * (W * z) /\ W * z \in Int
    <3> HIDE DEF p
    <3> QED
      BY <1>1, <2>1
  <2>3. r % 2 = 0 /\ f[s] = r \div 2
    <3>1. f[s] = r \div 2
      OBVIOUS
    <3> DEFINE y == W * z
    <3>2. y \in Int /\ p = 2 * y + r
      BY <2>2
    <3> HIDE DEF p, r, z, y, f
    <3> QED
      BY <2>1, <2>2, <3>1, <3>2
  <2> HIDE DEF p, r, z, f
  <2>4. f[s] \in S /\ r = 2 * f[s]
    BY <1>1, <2>2, <2>3
  <2>5. p = 2 * f[s] + 2 * (W * z)
    BY <2>2, <2>4
  <2> QED
    BY <2>2, <2>4, <2>5 DEF p
<1>3. ASSUME NEW s \in S, NEW t \in S, s < t
      PROVE  f[s] # f[t]
  <2> SUFFICES ASSUME f[s] = f[t] PROVE FALSE
    OBVIOUS
  <2> HIDE DEF f
  <2>1. PICK y \in Int : s * (s + 1) = 2 * f[s] + 2 * (W * y)
    BY <1>2
  <2>2. PICK z \in Int : t * (t + 1) = 2 * f[s] + 2 * (W * z)
    BY <1>2
  <2>3. 2 * (W * z) - 2 * (W * y) = (2 * W) * (z - y)
    BY <1>1
  <2>4. W * y \in Int /\ W * z \in Int /\ f[s] \in Int /\ z - y \in Int
    BY <1>1, <1>2
  <2>5. t * (t + 1) - s * (s + 1) = (2 * W) * (z - y)
    <3> DEFINE a == s * (s + 1)
               b == t * (t + 1)
               c == W * y
               d == W * z
               e == (2 * W) * (z - y)
    <3>1. /\ a = 2 * f[s] + 2 * c /\ b = 2 * f[s] + 2 * d /\ 2 * d - 2 * c = e
          /\ c \in Int /\ d \in Int /\ f[s] \in Int
      BY <2>1, <2>2, <2>3, <2>4
    <3> HIDE DEF a, b, c, d, e
    <3>2. b - a = e
      BY <3>1
    <3> QED
      BY <3>2 DEF a, b, e
  <2> QED
    BY <1>3, <2>4, <2>5, OffsetsDiffer DEF Divides
<1>4. f \in Surjection(S, S)
  <2>1. f \in [S -> S]
    BY <1>2
  <2>2. f \in Injection(S, S)
    <3>1. \A s, t \in S : s # t => s < t \/ t < s
      BY <1>1
    <3> HIDE DEF f
    <3> QED
      BY <1>3, <2>1, <3>1 DEF Injection, IsInjective
  <2>3. IsFiniteSet(S)
    BY <1>1, FS_Interval, SMTT(40)
  <2> HIDE DEF f, S
  <2> QED
    BY <2>2, <2>3, FS_Injection
<1>5. PICK s \in S : f[s] = q
  <2> HIDE DEF f
  <2> QED
    BY <1>4 DEF Surjection
<1> HIDE DEF f
<1> QED
  BY <1>2, <1>5
\* Quotient and remainder are unique.
LEMMA ModUnique ==
  ASSUME NEW m \in Nat \ {0}, NEW x \in Int, NEW q \in Int, NEW r \in 0 .. m - 1, x = m * q + r
  PROVE  x % m = r
<1> DEFINE a == x \div m
           b == x % m
<1>1. a \in Int /\ b \in 0 .. m - 1 /\ x = m * a + b
  OBVIOUS
<1> HIDE DEF a, b
<1>2. m * (q - a) = b - r /\ m * (a - q) = r - b
  <2>1. m * (q - a) = m * q - m * a /\ m * (a - q) = m * a - m * q
    BY <1>1
  <2> DEFINE c == m * q
             d == m * a
  <2>2. c \in Int /\ d \in Int /\ x = c + r /\ x = d + b /\ b \in Int /\ r \in Int
    BY <1>1
  <2> HIDE DEF c, d
  <2>3. c - d = b - r /\ d - c = r - b
    BY <2>2
  <2> QED
    BY <2>1, <2>3 DEF c, d
<1>3. b - r \in Int /\ r - b \in Int /\ q - a \in Int /\ a - q \in Int
  BY <1>1
<1>4. ~(b - r > 0)
  <2> SUFFICES ASSUME b - r > 0 PROVE FALSE
    OBVIOUS
  <2>1. b - r < m
    BY <1>1
  <2> QED
    BY <1>2, <1>3, <2>1, NoMultipleBelow DEF Divides
<1>5. ~(r - b > 0)
  <2> SUFFICES ASSUME r - b > 0 PROVE FALSE
    OBVIOUS
  <2>1. r - b < m
    BY <1>1
  <2> QED
    BY <1>2, <1>3, <2>1, NoMultipleBelow DEF Divides
<1> QED
  BY <1>1, <1>4, <1>5 DEF b

\* The remainder of a sum is that of the sum of remainders, and multiples of the
\* modulus do not count.
LEMMA ModSum ==
  ASSUME NEW m \in Nat \ {0}, NEW x \in Int, NEW y \in Int
  PROVE  /\ x % m \in 0 .. m - 1
         /\ ((x % m) + y) % m = (x + y) % m
         /\ \A z \in Int : (x + m * z) % m = x % m
<1>1. ASSUME NEW u \in Int, NEW z \in Int
      PROVE  (u + m * z) % m = u % m
  <2> DEFINE a == u \div m
             b == u % m
  <2>1. a \in Int /\ b \in 0 .. m - 1 /\ u = m * a + b
    OBVIOUS
  <2> HIDE DEF a, b
  <2>2. u + m * z = m * (a + z) + b /\ a + z \in Int /\ u + m * z \in Int
    BY <2>1
  <2>3. (u + m * z) % m = b
    BY <2>1, <2>2, ModUnique
  <2> QED
    BY <2>3 DEF b
<1>2. ((x % m) + y) % m = (x + y) % m
  <2> DEFINE a == x \div m
             b == x % m
  <2>1. a \in Int /\ b \in 0 .. m - 1 /\ x = m * a + b
    OBVIOUS
  <2> HIDE DEF a, b
  <2>2. b + y \in Int /\ x + y = (b + y) + m * a
    BY <2>1
  <2> QED
    BY <1>1, <2>1, <2>2 DEF b
<1>3. x % m \in 0 .. m - 1
  OBVIOUS
<1> QED
  BY <1>1, <1>2, <1>3

\* So the words a search looks at, W of them from any start, hold every slot.
THEOREM ProbesCover ==
  ASSUME NEW pow, NEW n, Powers(pow, n), NEW k \in 0 .. n - 1, NEW x \in Nat,
         NEW i \in 0 .. 8 * pow[k] - 1
  PROVE  \E s \in 0 .. pow[k] - 1 : \E j \in 0 .. 7 :
           i = (((x + 4 * (s * (s + 1))) % (8 * pow[k])) + j) % (8 * pow[k])
<1> DEFINE W == pow[k]
           m == 8 * W
           d == (i - x) % m
           q == d \div 8
           j == d % 8
<1>1. W \in Nat /\ m \in Nat \ {0}
  <2>1. pow[k] \in Nat
    BY DEF Powers
  <2> QED
    BY <2>1
<1>2. i \in Int /\ i - x \in Int /\ d \in 0 .. m - 1
  <2>1. i \in Int /\ i - x \in Int
    BY <1>1
  <2> HIDE DEF m
  <2> QED
    BY <1>1, <2>1, ModSum
<1>3. q \in 0 .. W - 1 /\ j \in 0 .. 7 /\ d = 8 * q + j
  <2> HIDE DEF d
  <2> QED
    BY <1>1, <1>2
<1>4. PICK s \in 0 .. W - 1 : \E z \in Int : s * (s + 1) = 2 * q + 2 * (W * z)
  <2> HIDE DEF q
  <2> QED
    BY <1>3, OffsetsCover
<1>5. PICK z \in Int : s * (s + 1) = 2 * q + 2 * (W * z)
  BY <1>4
<1> DEFINE p == s * (s + 1)
           y == W * z
<1>6. p \in Int /\ y \in Int /\ p = 2 * q + 2 * y /\ m * z = 8 * y
  BY <1>1, <1>5
<1>7. (x + 4 * p) + j = (x + d) + m * z
  <2> HIDE DEF p, y, q, j, d, m, W
  <2> QED
    BY <1>1, <1>2, <1>3, <1>6
<1>8. (x + d) % m = i
  <2>1. (d + x) % m = ((i - x) + x) % m
    <3> DEFINE e == i - x
    <3>1. e \in Int /\ x \in Int
      BY <1>2
    <3> HIDE DEF m, e
    <3>2. ((e % m) + x) % m = (e + x) % m
      BY <1>1, <3>1, ModSum
    <3> QED
      BY <3>2 DEF e
  <2>2. i % m = i
    <3>1. i = m * 0 + i /\ i \in 0 .. m - 1
      BY <1>1, <1>2
    <3> HIDE DEF m
    <3> QED
      BY <1>1, <1>2, <3>1, ModUnique
  <2>3. d + x = x + d /\ (i - x) + x = i
    <3> HIDE DEF d, m
    <3> QED
      BY <1>2
  <2> QED
    BY <2>1, <2>2, <2>3
<1>9. (((x + 4 * p) % m) + j) % m = i
  <2>1. x + 4 * p \in Int /\ j \in Int /\ x + d \in Int
    <3> HIDE DEF p, y, q, j, d, m, W
    <3> QED
      BY <1>1, <1>2, <1>3, <1>6
  <2> HIDE DEF m, p, d, j, W
  <2>2. (((x + 4 * p) % m) + j) % m = ((x + 4 * p) + j) % m
    BY <1>1, <2>1, ModSum
  <2>3. ((x + d) + m * z) % m = (x + d) % m
    BY <1>1, <2>1, ModSum
  <2> QED
    BY <1>7, <1>8, <2>2, <2>3
<1> QED
  BY <1>3, <1>9
=============================================================================
