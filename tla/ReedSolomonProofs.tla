-------------------------- MODULE ReedSolomonProofs --------------------------
(***************************************************************************)
(* What is proved of encoding/rs and cmd/rsc, for every field (Width and   *)
(* Poly) whose polynomial is primitive.  Bits first: xor adds words without*)
(* carry, remainder is linear and keeps to words of Width bits.  So the    *)
(* tables of init are those of a field (TablesCorrect), over which the     *)
(* polynomials with n coefficients are closed under sums and multiples and *)
(* have fewer than n roots.  The Lagrange interpolation of Code is such a  *)
(* polynomial, so what Update keeps up is one (ErasureCoder), and what the *)
(* blocks of a run of rsc add up to is its code (Rsc).                     *)
(***************************************************************************)
EXTENDS ErasureCoder, Rsc, Arithmetic, SequenceTheorems

-----------------------------------------------------------------------------
(* Bits.                                                                   *)

\* The words of m bits.
Word(m) == 0..shifted[m]-1

\* Shifting by one doubles, and a longer shift is a multiple of twice each shorter one.
LEMMA Shifts ==
  /\ Width \in Nat /\ Width >= 2 /\ shifted \in [0..2*Width+1 -> Nat \ {0}]
  /\ shifted[0] = 1 /\ \A i \in 0..2*Width : shifted[i + 1] = 2 * shifted[i]
  /\ \A i, j \in 0..2*Width+1 :
       i < j => Multiple(shifted[j], 2 * shifted[i]) /\ shifted[i] < shifted[j]
<1> DEFINE n == 2*Width + 1
           shift == CHOOSE f : Doubles(f, n)
<1>1. Width \in Nat /\ Width >= 2 /\ n \in Nat
  BY FieldAssumption
<1>2. shifted = [i \in 0..n |-> shift[i]]
  BY DEF shifted, Doubles
<1>3. /\ shift \in [0..n -> Nat \ {0}]
      /\ shift[0] = 1 /\ \A i \in 0..n-1 : shift[i + 1] = 2 * shift[i]
  <2> HIDE DEF n
  <2> QED
    BY <1>1, DoublingRecursion
<1>4. \A i, j \in 0..n : i < j => Multiple(shift[j], 2 * shift[i]) /\ shift[i] < shift[j]
  <2> HIDE DEF n
  <2> QED
    BY <1>1, DoublingMultiples
<1> HIDE DEF shift
<1>5. shifted = shift
  BY <1>2, <1>3
<1>6. n - 1 = 2 * Width
  BY <1>1
<1> QED
  BY <1>1, <1>3, <1>4, <1>5, <1>6

\* The low i + 1 bits are the low i bits and bit i.
LEMMA LowBits ==
  ASSUME NEW n \in Nat, NEW i \in 0..2*Width
  PROVE  /\ bit(n, i) \in {0, 1}
         /\ n % shifted[i + 1] = (n % shifted[i]) + shifted[i] * bit(n, i)
         /\ n % shifted[i] \in 0..shifted[i]-1
<1> DEFINE p == shifted[i]
           q == n \div p
           r == n % p
           h == q \div 2
           b == q % 2
<1>1. p \in Nat \ {0} /\ shifted[i + 1] = 2 * p
  <2>1. i \in 0..2*Width+1
    BY Shifts
  <2> QED
    BY <2>1, Shifts
<1> HIDE DEF p
<1>2. q \in Nat /\ r \in 0..p-1 /\ n = q * p + r
  BY <1>1, DivMod
<1> HIDE DEF q, r
<1>3. h \in Nat /\ b \in 0..1 /\ q = h * 2 + b
  BY <1>2, DivMod
<1> HIDE DEF h, b
<1>4. n = h * (2 * p) + (b * p + r) /\ b * p + r \in 0..2*p-1 /\ 2 * p \in Nat \ {0}
  <2>1. b = 0 \/ b = 1
    BY <1>3
  <2>2. (h * 2 + b) * p + r = h * (2 * p) + (b * p + r)
    BY <1>1, <1>2, <1>3, Z3
  <2> QED
    BY <1>1, <1>2, <1>3, <2>1, <2>2
<1>5. n % (2 * p) = b * p + r
  BY <1>3, <1>4, DivUnique
<1>6. bit(n, i) = b
  BY DEF bit, b, q, p
<1>7. b * p = p * b /\ b * p \in Nat
  BY <1>1, <1>3, Z3
<1>8. n % p = r
  BY DEF r
<1> QED
  BY <1>1, <1>2, <1>3, <1>5, <1>6, <1>7, <1>8 DEF p

\* A word is its own remainder, and has no bits above its length.
LEMMA WordRest ==
  ASSUME NEW m \in 0..2*Width+1, NEW n \in Word(m)
  PROVE  /\ n \in Nat /\ n % shifted[m] = n
         /\ \A i \in m..2*Width+1 : bit(n, i) = 0
<1>1. shifted[m] \in Nat \ {0} /\ m \in Nat
  BY Shifts
<1>2. n \in 0..shifted[m]-1 /\ n \in Nat
  BY <1>1 DEF Word
<1>3. n = 0 * shifted[m] + n
  BY <1>1, <1>2
<1>4. n % shifted[m] = n
  BY <1>1, <1>2, <1>3, DivUnique
<1>5. ASSUME NEW i \in m..2*Width+1 PROVE bit(n, i) = 0
  <2>1. i \in 0..2*Width+1 /\ (i = m \/ m < i) /\ 2 * Width + 1 \in Nat
    BY <1>1, Shifts
  <2>2. shifted[i] \in Nat \ {0} /\ shifted[m] <= shifted[i]
    <3>1. shifted[i] \in Nat \ {0}
      BY <2>1, Shifts
    <3>2. m < i => shifted[m] < shifted[i]
      BY <2>1, Shifts
    <3> QED
      BY <1>1, <2>1, <3>1, <3>2
  <2>3. n \in 0..shifted[i]-1 /\ n = 0 * shifted[i] + n
    BY <1>1, <1>2, <2>2
  <2>4. n \div shifted[i] = 0
    BY <2>2, <2>3, DivUnique
  <2> QED
    BY <2>4 DEF bit
<1> QED
  BY <1>2, <1>4, <1>5

\* A word is known by its bits.
LEMMA SameBits ==
  ASSUME NEW m \in 0..2*Width+1, NEW a \in Word(m), NEW b \in Word(m),
         \A i \in 0..m-1 : bit(a, i) = bit(b, i)
  PROVE  a = b
<1> DEFINE T == {i \in Nat : i <= m => a % shifted[i] = b % shifted[i]}
<1>1. a \in Nat /\ b \in Nat /\ a % shifted[m] = a /\ b % shifted[m] = b
  BY WordRest
<1>2. 0 \in T
  <2>1. a % 1 = 0 /\ b % 1 = 0
    BY <1>1
  <2> QED
    BY <2>1, Shifts
<1>3. ASSUME NEW i \in Nat, i \in T PROVE i + 1 \in T
  <2> SUFFICES ASSUME i + 1 <= m PROVE a % shifted[i + 1] = b % shifted[i + 1]
    OBVIOUS
  <2>1. i \in 0..m-1 /\ i \in 0..2*Width /\ a % shifted[i] = b % shifted[i]
    BY <1>3, Shifts
  <2> QED
    BY <1>1, <2>1, LowBits
<1>4. m \in T
  <2> HIDE DEF T
  <2>1. m \in Nat
    BY Shifts
  <2> QED
    BY <1>2, <1>3, <2>1, SetInduction
<1> QED
  BY <1>1, <1>4, Shifts

\* A word without bits from m on is one of m bits.
LEMMA ShortWord ==
  ASSUME NEW n \in Word(2*Width), NEW m \in 0..2*Width, \A i \in m..2*Width-1 : bit(n, i) = 0
  PROVE  n \in Word(m)
<1> DEFINE N == 2*Width
           T == {i \in Nat : m + i <= N => n % shifted[m + i] = n % shifted[m]}
<1>1. N \in 0..2*Width+1 /\ N \in Nat /\ m \in Nat
  BY Shifts
<1>2. n \in Nat /\ n % shifted[N] = n
  BY <1>1, WordRest
<1>3. 0 \in T
  BY <1>1
<1>4. ASSUME NEW i \in Nat, i \in T PROVE i + 1 \in T
  <2> SUFFICES ASSUME m + (i + 1) <= N PROVE n % shifted[m + (i + 1)] = n % shifted[m]
    OBVIOUS
  <2>1. /\ m + i \in 0..2*Width /\ m + i \in m..2*Width-1 /\ m + (i + 1) = (m + i) + 1
        /\ n % shifted[m + i] = n % shifted[m]
    BY <1>1, <1>4
  <2>2. bit(n, m + i) = 0
    BY <2>1
  <2>3. n % shifted[(m + i) + 1] = (n % shifted[m + i]) + shifted[m + i] * 0
    BY <1>2, <2>1, <2>2, LowBits
  <2>4. shifted[m + i] \in Nat /\ n % shifted[m + i] \in Nat
    BY <1>2, <2>1, LowBits, Shifts
  <2> QED
    BY <2>1, <2>3, <2>4
<1>5. N - m \in T
  <2> HIDE DEF T
  <2>1. N - m \in Nat
    BY <1>1
  <2> QED
    BY <1>3, <1>4, <2>1, SetInduction
<1>6. n = n % shifted[m]
  BY <1>1, <1>2, <1>5
<1>7. n % shifted[m] \in 0..shifted[m]-1
  BY <1>2, LowBits
<1> QED
  BY <1>6, <1>7 DEF Word

\* A bit put in front of a word.
LEMMA AddHigh ==
  ASSUME NEW m \in 0..2*Width, NEW a \in Word(m), NEW b \in {0, 1}
  PROVE  LET v == a + shifted[m] * b
         IN  v \in Word(m + 1) /\ bit(v, m) = b /\ \A i \in 0..m-1 : bit(v, i) = bit(a, i)
<1> DEFINE p == shifted[m]
           v == a + p * b
<1>1. p \in Nat \ {0} /\ shifted[m + 1] = 2 * p /\ a \in 0..p-1 /\ m \in Nat
  BY Shifts DEF Word
<1>2. v \in Word(m + 1)
  BY <1>1 DEF Word
<1>3. bit(v, m) = b
  <2>1. v = b * p + a /\ b \in Nat
    BY <1>1
  <2> HIDE DEF v, p
  <2>2. v \div p = b
    BY <1>1, <2>1, DivUnique
  <2>3. b % 2 = b
    OBVIOUS
  <2> QED
    BY <2>2, <2>3 DEF bit, p
<1>4. ASSUME NEW i \in 0..m-1 PROVE bit(v, i) = bit(a, i)
  <2> DEFINE s == shifted[i]
  <2>1. i \in 0..2*Width+1 /\ i < m /\ m \in 0..2*Width+1 /\ Width \in Nat
    BY <1>1, Shifts
  <2>2. s \in Nat \ {0} /\ Multiple(p, 2 * s)
    BY <2>1, Shifts
  <2> HIDE DEF p, s
  <2>3. PICK n \in Nat : p = (2 * s) * n
    BY <2>2 DEF Multiple
  <2> DEFINE w == 2 * (n * b)
  <2>4. w \in Nat /\ p * b = w * s /\ n * b \in Nat
    <3>1. b = 0 \/ b = 1
      OBVIOUS
    <3>2. ((2 * s) * n) * 1 = (2 * (n * 1)) * s /\ ((2 * s) * n) * 0 = (2 * (n * 0)) * s
      BY <2>2, Z3
    <3>3. n * 1 \in Nat /\ n * 0 \in Nat
      OBVIOUS
    <3> QED
      BY <2>3, <3>1, <3>2, <3>3
  <2> HIDE DEF w
  <2>5. v \div s = (a \div s) + w
    <3>1. a \in Nat /\ v = a + w * s
      BY <1>1, <2>4
    <3> HIDE DEF v
    <3> QED
      BY <2>2, <2>4, <3>1, DivShift
  <2>6. a \div s \in Nat
    <3>1. a \in Nat
      BY <1>1
    <3> QED
      BY <2>2, <3>1, DivMod
  <2>7. ((a \div s) + w) % 2 = (a \div s) % 2
    <3> DEFINE x == a \div s
               y == n * b
    <3>1. x \in Nat /\ y \in Nat /\ w = 2 * y
      BY <2>4, <2>6 DEF w
    <3> HIDE DEF x, y
    <3>2. (x + 2 * y) % 2 = x % 2
      BY <3>1
    <3> QED
      BY <3>1, <3>2 DEF x
  <2> HIDE DEF v
  <2> QED
    BY <2>5, <2>7 DEF bit, s
<1> QED
  BY <1>2, <1>3, <1>4

\* low is the function xor is defined by.
Adds(low, a, b) ==
  low = [i \in 0..2*Width |->
           IF i = 0 THEN 0 ELSE low[i - 1] + shifted[i - 1] * ((bit(a, i - 1) + bit(b, i - 1)) % 2)]

LEMMA XorUnfolds ==
  ASSUME NEW a, NEW b PROVE xor(a, b) = (CHOOSE low : Adds(low, a, b))[2*Width]
  BY DEF xor, Adds

\* xor takes words to a word, whose bits are the sums of theirs.
LEMMA XorBits ==
  ASSUME NEW a \in Word(2*Width), NEW b \in Word(2*Width)
  PROVE  /\ xor(a, b) \in Word(2*Width)
         /\ \A j \in 0..2*Width-1 : bit(xor(a, b), j) = (bit(a, j) + bit(b, j)) % 2
<1> DEFINE N == 2*Width
           c == [j \in 0..N |-> (bit(a, j) + bit(b, j)) % 2]
           G == [i \in 1..N |-> [r \in Nat |-> r + shifted[i - 1] * c[i - 1]]]
<1>1. N \in Nat /\ N \in 0..2*Width+1
  BY Shifts
<1>2. a \in Nat /\ b \in Nat
  BY <1>1, WordRest
<1>3. ASSUME NEW j \in 0..N PROVE c[j] \in {0, 1} /\ c[j] = (bit(a, j) + bit(b, j)) % 2
  <2>1. bit(a, j) \in {0, 1} /\ bit(b, j) \in {0, 1}
    BY <1>2, LowBits
  <2> QED
    BY <2>1
<1>4. \A i \in 1..N : i - 1 \in 0..N /\ i - 1 \in 0..2*Width+1
  BY <1>1
<1>5. \A i \in 0..2*Width+1 : shifted[i] \in Nat
  BY Shifts
<1> HIDE DEF c
<1>6. G \in [1..N -> [Nat -> Nat]]
  <2> SUFFICES ASSUME NEW i \in 1..N, NEW r \in Nat PROVE r + shifted[i - 1] * c[i - 1] \in Nat
    OBVIOUS
  <2>1. c[i - 1] \in {0, 1} /\ shifted[i - 1] \in Nat
    BY <1>3, <1>4, <1>5
  <2> QED
    BY <2>1
<1>7. PICK g : g \in [0..N -> Nat] /\ g[0] = 0 /\ \A i \in 1..N : g[i] = G[i][g[i - 1]]
  <2> DEFINE R == Nat
  <2>1. 0 \in R /\ N \in Nat /\ StepMaps(G, N, R)
    BY <1>1, <1>6 DEF StepMaps
  <2> HIDE DEF G, N, R
  <2>2. \E g \in [0..N -> R] : Takes(g, G, N, 0)
    BY <2>1, StepsExist
  <2> QED
    BY <2>2 DEF R, Takes
<1>8. Adds(g, a, b)
  <2>1. ASSUME NEW i \in 0..N
        PROVE  g[i] = IF i = 0 THEN 0 ELSE g[i - 1] + shifted[i - 1] * ((bit(a, i - 1) + bit(b, i - 1)) % 2)
    <3>1. CASE i = 0
      BY <1>7, <3>1
    <3>2. CASE i # 0
      <4>1. i \in 1..N /\ i - 1 \in 0..N
        BY <1>1, <3>2
      <4>2. g[i - 1] \in Nat /\ g[i] = G[i][g[i - 1]]
        <5> HIDE DEF G, N
        <5> QED
          BY <1>7, <4>1
      <4>3. c[i - 1] = (bit(a, i - 1) + bit(b, i - 1)) % 2
        BY <1>3, <4>1
      <4> QED
        BY <3>2, <4>1, <4>2, <4>3
    <3> QED
      BY <3>1, <3>2
  <2>2. g = [i \in 0..N |-> g[i]]
    <3> HIDE DEF G, N
    <3> QED
      BY <1>7
  <2> QED
    BY <2>1, <2>2 DEF Adds
<1> DEFINE f == CHOOSE low : Adds(low, a, b)
<1>9. Adds(f, a, b)
  BY <1>8
<1> HIDE DEF f
<1>10. f[0] = 0 /\ \A i \in 1..N : f[i] = f[i - 1] + shifted[i - 1] * c[i - 1]
  <2>1. f[0] = 0
    BY <1>1, <1>9 DEF Adds
  <2>2. ASSUME NEW i \in 1..N PROVE f[i] = f[i - 1] + shifted[i - 1] * c[i - 1]
    <3>1. i \in 0..N /\ i # 0
      BY <1>1
    <3>2. f[i] = f[i - 1] + shifted[i - 1] * ((bit(a, i - 1) + bit(b, i - 1)) % 2)
      BY <1>9, <3>1 DEF Adds
    <3> QED
      BY <1>3, <1>4, <3>2
  <2> QED
    BY <2>1, <2>2
<1> DEFINE T == {i \in 0..N : f[i] \in Word(i) /\ \A j \in 0..i-1 : bit(f[i], j) = c[j]}
<1>11. 0 \in T
  <2>1. f[0] \in Word(0)
    BY <1>10, Shifts DEF Word
  <2> QED
    BY <1>1, <2>1
<1>12. ASSUME NEW i \in 1..N, i - 1 \in T PROVE i \in T
  <2> DEFINE m == i - 1
  <2>1. m \in 0..2*Width /\ m + 1 = i /\ m \in 0..N
    BY <1>1
  <2>2. f[m] \in Word(m) /\ (\A j \in 0..m-1 : bit(f[m], j) = c[j]) /\ c[m] \in {0, 1}
    BY <1>3, <1>12, <2>1
  <2>3. f[i] = f[m] + shifted[m] * c[m]
    BY <1>10
  <2> HIDE DEF m
  <2>4. /\ f[i] \in Word(m + 1) /\ bit(f[i], m) = c[m]
        /\ \A j \in 0..m-1 : bit(f[i], j) = bit(f[m], j)
    BY <2>1, <2>2, <2>3, AddHigh
  <2>5. ASSUME NEW j \in 0..i-1 PROVE bit(f[i], j) = c[j]
    <3>1. j = m \/ j \in 0..m-1
      BY <2>1
    <3> QED
      BY <2>2, <2>4, <3>1
  <2> QED
    BY <2>1, <2>4, <2>5
<1>13. N \in T
  <2>1. N \in 0..N
    BY <1>1
  <2> HIDE DEF T, N
  <2> QED
    BY <1>1, <1>11, <1>12, <2>1, StepsKeep
<1>14. xor(a, b) = f[N]
  BY XorUnfolds DEF f
<1>15. f[N] \in Word(N) /\ \A j \in 0..N-1 : bit(f[N], j) = c[j]
  BY <1>13
<1>16. \A j \in 0..N-1 : j \in 0..N
  BY <1>1
<1> QED
  BY <1>3, <1>14, <1>15, <1>16

\* The sum of bits.
LEMMA BitSums ==
  /\ \A x, y \in {0, 1} : (x + y) % 2 \in {0, 1} /\ (x + y) % 2 = (y + x) % 2
  /\ \A x \in {0, 1} : (x + 0) % 2 = x /\ (0 + x) % 2 = x /\ (x + x) % 2 = 0
  /\ \A x, y, z \in {0, 1} : (((x + y) % 2) + z) % 2 = (x + ((y + z) % 2)) % 2
  OBVIOUS

LEMMA WordsGrow ==
  /\ \A m, n \in 0..2*Width+1 : m <= n => Word(m) \subseteq Word(n)
  /\ \A m \in 0..2*Width+1 : 0 \in Word(m) /\ Word(m) \subseteq Nat
  /\ \A i \in 0..2*Width+1 : bit(0, i) = 0
<1>1. ASSUME NEW m \in 0..2*Width+1 PROVE 0 \in Word(m) /\ Word(m) \subseteq Nat
  <2>1. shifted[m] \in Nat \ {0}
    BY Shifts
  <2> QED
    BY <2>1 DEF Word
<1>2. ASSUME NEW m \in 0..2*Width+1, NEW n \in 0..2*Width+1, m <= n
      PROVE  Word(m) \subseteq Word(n)
  <2>1. m = n \/ m < n
    BY <1>2, Shifts
  <2>2. shifted[m] \in Nat /\ shifted[n] \in Nat /\ (m < n => shifted[m] < shifted[n])
    BY Shifts
  <2> QED
    BY <2>1, <2>2 DEF Word
<1>3. ASSUME NEW i \in 0..2*Width+1 PROVE bit(0, i) = 0
  <2>1. 0 \in 0..2*Width+1
    BY Shifts
  <2>2. 0 \in Word(0)
    BY <1>1, <2>1
  <2> QED
    BY <2>1, <2>2, WordRest
<1> QED
  BY <1>1, <1>2, <1>3

\* The bits of a word are bits.
LEMMA WordBits ==
  ASSUME NEW a \in Word(2*Width), NEW i \in 0..2*Width-1
  PROVE  bit(a, i) \in {0, 1}
<1>1. 2*Width \in 0..2*Width+1 /\ i \in 0..2*Width
  BY Shifts
<1>2. a \in Nat
  BY <1>1, WordsGrow
<1> QED
  BY <1>1, <1>2, LowBits

LEMMA XorLaws ==
  ASSUME NEW a \in Word(2*Width), NEW b \in Word(2*Width), NEW c \in Word(2*Width)
  PROVE  /\ xor(a, b) \in Word(2*Width) /\ xor(a, b) = xor(b, a)
         /\ xor(xor(a, b), c) = xor(a, xor(b, c))
         /\ xor(a, 0) = a /\ xor(a, a) = 0 /\ 0 \in Word(2*Width)
<1> DEFINE N == 2*Width
<1>1. N \in 0..2*Width+1 /\ 0 \in Word(N) /\ \A i \in 0..N-1 : i \in 0..2*Width+1
  BY Shifts, WordsGrow
<1>2. \A x, y \in Word(N) : xor(x, y) \in Word(N)
  BY XorBits
<1>3. \A x, y \in Word(N) : \A i \in 0..N-1 : bit(xor(x, y), i) = (bit(x, i) + bit(y, i)) % 2
  BY XorBits
<1>4. \A x \in Word(N) : \A i \in 0..N-1 : bit(x, i) \in {0, 1}
  BY WordBits
<1>5. \A i \in 0..N-1 : bit(0, i) = 0
  BY <1>1, WordsGrow
<1>6. ASSUME NEW x \in Word(N), NEW y \in Word(N), \A i \in 0..N-1 : bit(x, i) = bit(y, i)
      PROVE  x = y
  BY <1>1, <1>6, SameBits
<1> HIDE DEF N
<1>7. xor(a, b) = xor(b, a)
  <2>1. \A i \in 0..N-1 : bit(xor(a, b), i) = bit(xor(b, a), i)
    BY <1>3, <1>4, BitSums DEF N
  <2> QED
    BY <1>2, <1>6, <2>1 DEF N
<1>8. xor(xor(a, b), c) = xor(a, xor(b, c))
  <2>1. ASSUME NEW i \in 0..N-1 PROVE bit(xor(xor(a, b), c), i) = bit(xor(a, xor(b, c)), i)
    <3> DEFINE x == bit(a, i)
               y == bit(b, i)
               z == bit(c, i)
    <3>1. x \in {0, 1} /\ y \in {0, 1} /\ z \in {0, 1}
      BY <1>4 DEF N
    <3>2. xor(a, b) \in Word(N) /\ xor(b, c) \in Word(N) /\ a \in Word(N) /\ b \in Word(N) /\ c \in Word(N)
      BY <1>2 DEF N
    <3>3. bit(xor(a, b), i) = (x + y) % 2 /\ bit(xor(b, c), i) = (y + z) % 2
      BY <1>3, <3>2
    <3>4. /\ bit(xor(xor(a, b), c), i) = (((x + y) % 2) + z) % 2
          /\ bit(xor(a, xor(b, c)), i) = (x + ((y + z) % 2)) % 2
      BY <1>3, <3>2, <3>3
    <3> HIDE DEF x, y, z
    <3> QED
      BY <3>1, <3>4, BitSums
  <2>2. xor(xor(a, b), c) \in Word(N) /\ xor(a, xor(b, c)) \in Word(N)
    BY <1>2 DEF N
  <2> QED
    BY <1>6, <2>1, <2>2
<1>9. xor(a, 0) = a
  <2>1. ASSUME NEW i \in 0..N-1 PROVE bit(xor(a, 0), i) = bit(a, i)
    <3>1. bit(xor(a, 0), i) = (bit(a, i) + bit(0, i)) % 2
      BY <1>1, <1>3 DEF N
    <3>2. bit(a, i) \in {0, 1} /\ bit(0, i) = 0
      BY <1>4, <1>5 DEF N
    <3> QED
      BY <3>1, <3>2, BitSums
  <2> QED
    BY <1>1, <1>2, <1>6, <2>1 DEF N
<1>10. xor(a, a) = 0
  <2>1. \A i \in 0..N-1 : bit(xor(a, a), i) = bit(0, i)
    BY <1>3, <1>4, <1>5, BitSums DEF N
  <2> QED
    BY <1>1, <1>2, <1>6, <2>1 DEF N
<1> QED
  BY <1>1, <1>2, <1>7, <1>8, <1>9, <1>10 DEF N

\* A sum has no more bits than its terms, and no bit that is theirs both.
LEMMA XorShort ==
  ASSUME NEW m \in 0..2*Width, NEW a \in Word(m), NEW b \in Word(m)
  PROVE  /\ xor(a, b) \in Word(m)
         /\ m > 0 /\ bit(a, m - 1) = 1 /\ bit(b, m - 1) = 1 => xor(a, b) \in Word(m - 1)
<1> DEFINE N == 2*Width
<1>1. N \in 0..2*Width+1 /\ m \in 0..2*Width+1 /\ m <= N /\ m \in Nat /\ N \in Nat
  BY Shifts
<1>2. a \in Word(N) /\ b \in Word(N)
  BY <1>1, WordsGrow
<1>3. xor(a, b) \in Word(N) /\ \A i \in 0..N-1 : bit(xor(a, b), i) = (bit(a, i) + bit(b, i)) % 2
  BY <1>2, XorBits
<1>4. ASSUME NEW i \in m..N-1 PROVE bit(xor(a, b), i) = 0
  <2>1. i \in 0..N-1 /\ i \in m..2*Width+1
    BY <1>1
  <2>2. bit(a, i) = 0 /\ bit(b, i) = 0
    BY <1>1, <2>1, WordRest
  <2>3. bit(xor(a, b), i) = (0 + 0) % 2
    BY <1>3, <2>1, <2>2
  <2> QED
    BY <2>3
<1>5. xor(a, b) \in Word(m)
  BY <1>3, <1>4, ShortWord
<1>6. ASSUME m > 0, bit(a, m - 1) = 1, bit(b, m - 1) = 1 PROVE xor(a, b) \in Word(m - 1)
  <2>1. m - 1 \in 0..2*Width /\ m - 1 \in 0..N-1
    BY <1>1, <1>6
  <2>2. bit(xor(a, b), m - 1) = (1 + 1) % 2
    BY <1>3, <1>6, <2>1
  <2>3. ASSUME NEW i \in m-1..N-1 PROVE bit(xor(a, b), i) = 0
    <3>1. i = m - 1 \/ i \in m..N-1
      BY <1>1, <2>1
    <3> QED
      BY <1>4, <2>2, <3>1
  <2> QED
    BY <1>3, <2>1, <2>3, ShortWord
<1> QED
  BY <1>5, <1>6

\* Doubling moves the bits of a word up.
LEMMA DoubleBits ==
  ASSUME NEW m \in 0..2*Width, NEW a \in Word(m)
  PROVE  /\ 2 * a \in Word(m + 1) /\ bit(2 * a, 0) = 0
         /\ \A i \in 0..2*Width : bit(2 * a, i + 1) = bit(a, i)
<1>1. /\ m \in 0..2*Width+1 /\ 0 \in 0..2*Width+1 /\ shifted[m + 1] = 2 * shifted[m]
      /\ shifted[m] \in Nat /\ shifted[0] = 1
  BY Shifts
<1>2. a \in Nat /\ a < shifted[m]
  BY <1>1, WordsGrow DEF Word
<1>3. 2 * a \in Word(m + 1)
  BY <1>1, <1>2 DEF Word
<1>4. bit(2 * a, 0) = 0
  <2>1. (2 * a) \div 1 = 2 * a /\ (2 * a) % 2 = 0
    BY <1>2
  <2> QED
    BY <1>1, <2>1 DEF bit
<1>5. ASSUME NEW i \in 0..2*Width PROVE bit(2 * a, i + 1) = bit(a, i)
  <2> DEFINE p == shifted[i]
  <2>1. p \in Nat \ {0} /\ shifted[i + 1] = 2 * p
    <3>1. i \in 0..2*Width+1
      BY Shifts
    <3> QED
      BY <3>1, Shifts
  <2> HIDE DEF p
  <2> DEFINE q == a \div p
             r == a % p
  <2>2. q \in Nat /\ r \in 0..p-1 /\ a = q * p + r
    BY <1>2, <2>1, DivMod
  <2> HIDE DEF q, r
  <2>3. 2 * a = q * (2 * p) + 2 * r /\ 2 * r \in 0..(2*p)-1 /\ 2 * p \in Nat \ {0}
    <3>1. 2 * (q * p + r) = q * (2 * p) + 2 * r
      BY <2>1, <2>2, Z3
    <3> QED
      BY <2>1, <2>2, <3>1
  <2>4. (q * (2 * p) + 2 * r) \div (2 * p) = q
    BY <2>2, <2>3, DivUnique
  <2>5. (2 * a) \div (2 * p) = a \div p
    BY <2>3, <2>4 DEF q
  <2> QED
    BY <2>1, <2>5 DEF bit, p
<1> QED
  BY <1>3, <1>4, <1>5

LEMMA XorDouble ==
  ASSUME NEW a \in Word(2*Width-1), NEW b \in Word(2*Width-1)
  PROVE  2 * xor(a, b) = xor(2 * a, 2 * b)
<1> DEFINE M == 2*Width - 1
           N == 2*Width
<1>1. /\ M \in 0..2*Width /\ M + 1 = N /\ N \in 0..2*Width+1 /\ M \in 0..2*Width+1 /\ M <= N /\ 0 \in 0..N-1
      /\ \A i \in 0..N-1 : i = 0 \/ (i - 1 \in 0..2*Width /\ i - 1 \in 0..N-1 /\ (i - 1) + 1 = i)
  BY Shifts
<1>2. xor(a, b) \in Word(M) /\ a \in Word(N) /\ b \in Word(N) /\ a \in Word(M) /\ b \in Word(M)
  BY <1>1, XorShort, WordsGrow
<1>3. 2 * a \in Word(N) /\ 2 * b \in Word(N) /\ 2 * xor(a, b) \in Word(N)
  BY <1>1, <1>2, DoubleBits
<1>4. xor(2 * a, 2 * b) \in Word(N) /\ \A i \in 0..N-1 : bit(xor(2 * a, 2 * b), i) = (bit(2 * a, i) + bit(2 * b, i)) % 2
  BY <1>3, XorBits
<1>5. ASSUME NEW i \in 0..N-1 PROVE bit(2 * xor(a, b), i) = bit(xor(2 * a, 2 * b), i)
  <2>1. CASE i = 0
    <3>1. bit(2 * xor(a, b), 0) = 0 /\ bit(2 * a, 0) = 0 /\ bit(2 * b, 0) = 0
      BY <1>1, <1>2, DoubleBits
    <3>2. bit(xor(2 * a, 2 * b), 0) = (0 + 0) % 2
      BY <1>1, <1>4, <3>1
    <3> QED
      BY <2>1, <3>1, <3>2
  <2>2. CASE i # 0
    <3> DEFINE j == i - 1
    <3>1. j \in 0..2*Width /\ j + 1 = i /\ j \in 0..N-1
      BY <1>1, <2>2
    <3> HIDE DEF j
    <3>2. bit(2 * xor(a, b), j + 1) = bit(xor(a, b), j) /\ bit(2 * a, j + 1) = bit(a, j) /\ bit(2 * b, j + 1) = bit(b, j)
      BY <1>1, <1>2, <3>1, DoubleBits
    <3>3. bit(xor(a, b), j) = (bit(a, j) + bit(b, j)) % 2
      BY <1>2, <3>1, XorBits
    <3> QED
      BY <1>4, <3>1, <3>2, <3>3
  <2> QED
    BY <2>1, <2>2
<1> QED
  BY <1>1, <1>3, <1>4, <1>5, SameBits

\* A sum without carries.
LEMMA XorAbove ==
  ASSUME NEW m \in 0..2*Width-1, NEW a \in Word(m)
  PROVE  /\ shifted[m] \in Word(m + 1) /\ a + shifted[m] \in Word(m + 1)
         /\ xor(a, shifted[m]) = a + shifted[m]
<1> DEFINE N == 2*Width
           p == shifted[m]
<1>1. /\ m \in 0..2*Width /\ m \in 0..2*Width+1 /\ m + 1 \in 0..2*Width+1 /\ N \in 0..2*Width+1
      /\ m + 1 <= N /\ m <= N /\ p \in Nat /\ m \in Nat /\ N \in Nat
  BY Shifts
<1>2. a \in Nat /\ 0 \in Word(m) /\ 1 \in {0, 1} /\ a + p * 1 = a + p /\ 0 + p * 1 = p
  BY <1>1, WordsGrow
<1>3. p \in Word(m + 1) /\ bit(p, m) = 1 /\ \A i \in 0..m-1 : bit(p, i) = bit(0, i)
  <2> HIDE DEF p
  <2>1. LET v == 0 + p * 1
        IN  v \in Word(m + 1) /\ bit(v, m) = 1 /\ \A i \in 0..m-1 : bit(v, i) = bit(0, i)
    BY <1>1, <1>2, AddHigh DEF p
  <2> QED
    BY <1>2, <2>1
<1>4. a + p \in Word(m + 1) /\ bit(a + p, m) = 1 /\ \A i \in 0..m-1 : bit(a + p, i) = bit(a, i)
  <2> HIDE DEF p
  <2>1. LET v == a + p * 1
        IN  v \in Word(m + 1) /\ bit(v, m) = 1 /\ \A i \in 0..m-1 : bit(v, i) = bit(a, i)
    BY <1>1, <1>2, AddHigh DEF p
  <2> QED
    BY <1>2, <2>1
<1> HIDE DEF p
<1>5. a \in Word(N) /\ p \in Word(N) /\ a + p \in Word(N)
  BY <1>1, <1>3, <1>4, WordsGrow
<1>6. xor(a, p) \in Word(N) /\ \A i \in 0..N-1 : bit(xor(a, p), i) = (bit(a, i) + bit(p, i)) % 2
  BY <1>5, XorBits
<1>7. ASSUME NEW i \in 0..N-1 PROVE bit(xor(a, p), i) = bit(a + p, i)
  <2>0. bit(a, i) \in {0, 1} /\ i \in Nat
    BY <1>5, WordBits
  <2>1. CASE i \in 0..m-1
    <3>1. bit(p, i) = 0 /\ bit(a + p, i) = bit(a, i)
      BY <1>1, <1>3, <1>4, <2>1, WordsGrow
    <3> QED
      BY <1>6, <2>0, <3>1, BitSums
  <2>2. CASE i = m
    <3>1. i \in m..2*Width+1
      BY <1>1, <2>2
    <3>2. bit(a, i) = 0
      BY <1>1, <3>1, WordRest
    <3>3. bit(xor(a, p), i) = (0 + 1) % 2
      BY <1>3, <1>6, <2>2, <3>2
    <3> QED
      BY <1>4, <2>2, <3>3
  <2>3. CASE i \in m+1..N-1
    <3>1. i \in m..2*Width+1 /\ i \in m+1..2*Width+1
      BY <1>1, <2>3
    <3>2. bit(a, i) = 0 /\ bit(p, i) = 0 /\ bit(a + p, i) = 0
      BY <1>1, <1>3, <1>4, <3>1, WordRest
    <3>3. bit(xor(a, p), i) = (0 + 0) % 2
      BY <1>6, <3>2
    <3> QED
      BY <3>2, <3>3
  <2> QED
    BY <1>1, <2>0, <2>1, <2>2, <2>3
<1>8. xor(a, p) = a + p
  BY <1>1, <1>5, <1>6, <1>7, SameBits
<1> QED
  BY <1>3, <1>4, <1>8 DEF p

\* The characteristic polynomial, shifted.
Divisor(s) == Poly * shifted[s]

\* The top bit of a shifted divisor, and its double.
LEMMA Divisors ==
  ASSUME NEW s \in 0..Width-1
  PROVE  /\ Divisor(s) \in Word(Width + s + 1) /\ bit(Divisor(s), Width + s) = 1
         /\ s + 1 < Width => Divisor(s + 1) = 2 * Divisor(s)
<1>1. /\ Width \in Nat /\ Width >= 2 /\ shifted[0] = 1 /\ Width \in 0..2*Width+1
      /\ shifted[Width] \in Nat \ {0} /\ shifted[Width + 1] = 2 * shifted[Width]
  <2>1. Width \in Nat /\ Width >= 2
    BY Shifts
  <2>2. Width \in 0..2*Width+1 /\ Width \in 0..2*Width
    BY <2>1
  <2> QED
    BY <2>1, <2>2, Shifts
<1>2. Poly \in Nat /\ Poly \in Word(Width + 1) /\ bit(Poly, Width) = 1
  <2> DEFINE v == shifted[Width]
  <2>1. Poly \in v..2*v-1 /\ v \in Nat \ {0} /\ shifted[Width + 1] = 2 * v
    BY <1>1, FieldAssumption DEF Values
  <2> HIDE DEF v
  <2>2. Poly \in Nat /\ Poly = 1 * v + (Poly - v) /\ Poly - v \in 0..v-1
    BY <2>1
  <2>3. (1 * v + (Poly - v)) \div v = 1
    BY <2>1, <2>2, DivUnique
  <2>4. 1 % 2 = 1
    OBVIOUS
  <2>5. bit(Poly, Width) = 1
    BY <2>2, <2>3, <2>4 DEF bit, v
  <2> QED
    BY <2>1, <2>2, <2>5 DEF Word
<1>3. ASSUME NEW i \in 0..Width-1 PROVE shifted[i + 1] = 2 * shifted[i] /\ shifted[i] \in Nat
  <2>1. i \in 0..2*Width /\ i \in 0..2*Width+1
    BY <1>1
  <2> QED
    BY <2>1, Shifts
<1>4. ASSUME NEW i \in 0..Width-1 PROVE Divisor(i + 1) = 2 * Divisor(i)
  <2> DEFINE w == shifted[i]
  <2>1. w \in Nat /\ Poly \in Nat /\ shifted[i + 1] = 2 * w
    BY <1>2, <1>3
  <2> HIDE DEF w
  <2>2. Poly * (2 * w) = 2 * (Poly * w)
    BY <2>1, Z3
  <2> QED
    BY <2>1, <2>2 DEF Divisor, w
<1> DEFINE T == {i \in 0..Width-1 : Divisor(i) \in Word(Width + i + 1) /\ bit(Divisor(i), Width + i) = 1}
           n == Width - 1
<1>5. 0 \in T
  <2>1. Divisor(0) = Poly
    BY <1>1, <1>2 DEF Divisor
  <2> QED
    BY <1>1, <1>2, <2>1
<1>6. ASSUME NEW i \in 1..n, i - 1 \in T PROVE i \in T
  <2> DEFINE j == i - 1
             m == Width + j + 1
  <2>1. j \in 0..Width-1 /\ j + 1 = i /\ m \in 0..2*Width /\ Width + j \in 0..2*Width /\ i \in 0..Width-1
        /\ (Width + j) + 1 = Width + i /\ m + 1 = Width + i + 1
    BY <1>1
  <2>2. Divisor(j) \in Word(m) /\ bit(Divisor(j), Width + j) = 1
    BY <1>6
  <2>3. Divisor(i) = 2 * Divisor(j)
    BY <1>4, <2>1
  <2> HIDE DEF j, m
  <2>4. 2 * Divisor(j) \in Word(m + 1) /\ bit(2 * Divisor(j), (Width + j) + 1) = bit(Divisor(j), Width + j)
    BY <2>1, <2>2, DoubleBits
  <2> QED
    BY <2>1, <2>2, <2>3, <2>4
<1>7. s \in T
  <2>1. n \in Nat /\ s \in 0..n
    BY <1>1
  <2> HIDE DEF T, n
  <2> QED
    BY <1>5, <1>6, <2>1, StepsKeep
<1> QED
  BY <1>4, <1>7

\* One step of the division: bit i is cancelled.
Cut(q, i) == IF bit(q, i) = 1 THEN xor(q, Divisor(i - Width)) ELSE q

\* It leaves a word without bit i, and is linear.
LEMMA CutLinear ==
  ASSUME NEW i \in Width..2*Width-1, NEW a \in Word(i + 1), NEW b \in Word(i + 1)
  PROVE  /\ Cut(a, i) \in Word(i) /\ Word(i) \subseteq Word(2*Width)
         /\ xor(a, b) \in Word(i + 1) /\ Cut(xor(a, b), i) = xor(Cut(a, i), Cut(b, i))
<1> DEFINE N == 2*Width
           d == Divisor(i - Width)
<1>1. /\ i - Width \in 0..Width-1 /\ i \in 0..2*Width /\ i + 1 \in 0..2*Width /\ i + 1 <= 2*Width /\ i <= 2*Width
      /\ Width + (i - Width) = i /\ i \in 0..N-1 /\ i + 1 > 0 /\ (i + 1) - 1 = i /\ N \in 0..2*Width+1
      /\ i \in 0..2*Width+1 /\ i + 1 \in 0..2*Width+1 /\ i \in i..2*Width-1
  BY Shifts
<1>2. d \in Word(i + 1) /\ bit(d, i) = 1
  BY <1>1, Divisors
<1> HIDE DEF d
<1>3. a \in Word(N) /\ b \in Word(N) /\ d \in Word(N) /\ Word(i) \subseteq Word(N)
  BY <1>1, <1>2, WordsGrow
<1>4. bit(a, i) \in {0, 1} /\ bit(b, i) \in {0, 1}
  BY <1>1, <1>3, WordBits
<1>5. Cut(a, i) \in Word(i)
  <2>1. CASE bit(a, i) = 1
    BY <1>1, <1>2, <2>1, XorShort DEF Cut, d
  <2>2. CASE bit(a, i) = 0
    <3>1. \A j \in i..2*Width-1 : bit(a, j) = 0
      <4>1. \A j \in i..2*Width-1 : j = i \/ j \in i+1..2*Width+1
        BY <1>1
      <4> QED
        BY <1>1, <2>2, <4>1, WordRest
    <3>2. a \in Word(i)
      BY <1>1, <1>3, <3>1, ShortWord
    <3> QED
      BY <2>2, <3>2 DEF Cut
  <2> QED
    BY <1>4, <2>1, <2>2
<1>6. xor(a, b) \in Word(i + 1)
  BY <1>1, XorShort
<1>7. bit(xor(a, b), i) = (bit(a, i) + bit(b, i)) % 2
  BY <1>1, <1>3, XorBits
<1> DEFINE W == Word(2*Width)
<1>8. /\ \A x, y \in W : xor(x, y) \in W /\ xor(x, y) = xor(y, x)
      /\ \A x, y, z \in W : xor(xor(x, y), z) = xor(x, xor(y, z))
      /\ \A x \in W : xor(x, 0) = x /\ xor(x, x) = 0
  BY XorLaws
<1>9. a \in W /\ b \in W /\ d \in W
  BY <1>3
<1> HIDE DEF W
<1>10. Cut(xor(a, b), i) = xor(Cut(a, i), Cut(b, i))
  <2>1. CASE bit(a, i) = 0 /\ bit(b, i) = 0
    <3>1. bit(xor(a, b), i) = 0
      BY <1>7, <2>1
    <3> QED
      BY <2>1, <3>1 DEF Cut
  <2>2. CASE bit(a, i) = 1 /\ bit(b, i) = 1
    <3>1. bit(xor(a, b), i) = 0
      BY <1>7, <2>2
    <3>2. xor(xor(a, d), xor(b, d)) = xor(a, xor(d, xor(d, b)))
      BY <1>8, <1>9
    <3>3. xor(d, xor(d, b)) = xor(0, b) /\ xor(0, b) = xor(b, 0)
      <4>1. xor(d, xor(d, b)) = xor(xor(d, d), b)
        BY <1>8, <1>9
      <4>2. 0 \in W
        BY <1>8, <1>9
      <4> QED
        BY <1>8, <1>9, <4>1, <4>2
    <3>4. xor(xor(a, d), xor(b, d)) = xor(a, b)
      BY <1>8, <1>9, <3>2, <3>3
    <3> QED
      BY <2>2, <3>1, <3>4 DEF Cut, d
  <2>3. CASE bit(a, i) = 1 /\ bit(b, i) = 0
    <3>1. bit(xor(a, b), i) = 1
      BY <1>7, <2>3
    <3>2. xor(xor(a, b), d) = xor(xor(a, d), b)
      <4>1. xor(xor(a, b), d) = xor(a, xor(b, d)) /\ xor(b, d) = xor(d, b)
        BY <1>8, <1>9
      <4> QED
        BY <1>8, <1>9, <4>1
    <3> QED
      BY <2>3, <3>1, <3>2 DEF Cut, d
  <2>4. CASE bit(a, i) = 0 /\ bit(b, i) = 1
    <3>1. bit(xor(a, b), i) = 1
      BY <1>7, <2>4
    <3>2. xor(xor(a, b), d) = xor(a, xor(b, d))
      BY <1>8, <1>9
    <3> QED
      BY <2>4, <3>1, <3>2 DEF Cut, d
  <2> QED
    BY <1>4, <2>1, <2>2, <2>3, <2>4
<1> QED
  BY <1>3, <1>5, <1>6, <1>10

LEMMA CutShort ==
  ASSUME NEW i \in Width..2*Width-1, NEW a \in Word(i + 1)
  PROVE  Cut(a, i) \in Word(i)
<1>1. Cut(a, i) \in Word(i) /\ xor(a, a) \in Word(i + 1)
  BY CutLinear
<1> QED
  BY <1>1

\* above is the function remainder is defined by.
Reduces(above, p) ==
  above = [i \in Width..2*Width |->
             IF i = 2*Width THEN p
             ELSE LET q == above[i + 1]
                  IN  IF bit(q, i) = 1 THEN xor(q, Poly * shifted[i - Width]) ELSE q]

LEMMA RemainderUnfolds ==
  ASSUME NEW p PROVE remainder(p) = (CHOOSE above : Reduces(above, p))[Width]
  BY DEF remainder, Reduces

\* r divides p, one bit a step.
Division(r, p) ==
  /\ r[0] = p /\ \A j \in 1..Width : r[j] = Cut(r[j - 1], 2*Width - j)
  /\ \A j \in 0..Width : r[j] \in Word(2*Width - j)

LEMMA RemainderRecursion ==
  ASSUME NEW p \in Word(2*Width)
  PROVE  \E r : Division(r, p) /\ remainder(p) = r[Width]
<1> DEFINE N == 2*Width
           R == Word(N)
           G == [j \in 1..Width |-> [q \in R |-> IF q \in Word(N - j + 1) THEN Cut(q, N - j) ELSE q]]
<1>1. Width \in Nat /\ N \in Nat /\ \A j \in 1..Width : N - j \in Width..2*Width-1 /\ (N - j) + 1 = N - (j - 1)
  BY Shifts
<1>2. StepMaps(G, Width, R)
  <2>1. ASSUME NEW j \in 1..Width, NEW q \in R
        PROVE  (IF q \in Word(N - j + 1) THEN Cut(q, N - j) ELSE q) \in R
    <3>1. ASSUME q \in Word((N - j) + 1) PROVE Cut(q, N - j) \in R
      BY <1>1, <3>1, CutLinear
    <3> QED
      BY <3>1
  <2> QED
    BY <2>1 DEF StepMaps
<1>3. PICK g \in [0..Width -> R] : Takes(g, G, Width, p)
  <2>1. p \in R
    OBVIOUS
  <2> HIDE DEF G, R
  <2> QED
    BY <1>1, <1>2, <2>1, StepsExist
<1> DEFINE T == {j \in 0..Width : g[j] \in Word(N - j)}
<1>4. \A j \in 1..Width : g[j] = IF g[j - 1] \in Word(N - j + 1) THEN Cut(g[j - 1], N - j) ELSE g[j - 1]
  <2> SUFFICES ASSUME NEW j \in 1..Width
               PROVE  g[j] = IF g[j - 1] \in Word(N - j + 1) THEN Cut(g[j - 1], N - j) ELSE g[j - 1]
    OBVIOUS
  <2>1. j - 1 \in 0..Width
    BY <1>1
  <2>2. g[j - 1] \in R
    <3> HIDE DEF R
    <3> QED
      BY <2>1
  <2>3. g[j] = G[j][g[j - 1]]
    BY <1>3 DEF Takes
  <2> HIDE DEF R
  <2> QED
    BY <2>2, <2>3
<1>5. \A j \in 0..Width : j \in T
  <2>1. 0 \in T
    BY <1>1, <1>3 DEF Takes
  <2>2. ASSUME NEW j \in 1..Width, j - 1 \in T PROVE j \in T
    <3>1. N - j \in Width..2*Width-1 /\ (N - j) + 1 = N - (j - 1) /\ g[j - 1] \in Word(N - (j - 1)) /\ j \in 0..Width
      BY <1>1, <2>2
    <3>2. g[j] = Cut(g[j - 1], N - j)
      BY <1>4, <3>1
    <3>3. Cut(g[j - 1], N - j) \in Word(N - j)
      <4> DEFINE q == g[j - 1]
                 i == N - j
      <4>1. q \in Word(i + 1) /\ i \in Width..2*Width-1
        BY <3>1
      <4> HIDE DEF q, i
      <4>2. Cut(q, i) \in Word(i)
        BY <4>1, CutShort
      <4> QED
        BY <4>2 DEF q, i
    <3> QED
      BY <3>1, <3>2, <3>3
  <2> HIDE DEF T
  <2> QED
    BY <1>1, <2>1, <2>2, StepsKeep
<1>6. \A j \in 1..Width : g[j] = Cut(g[j - 1], N - j)
  <2> SUFFICES ASSUME NEW j \in 1..Width PROVE g[j] = Cut(g[j - 1], N - j)
    OBVIOUS
  <2>1. j - 1 \in 0..Width /\ (N - j) + 1 = N - (j - 1)
    BY <1>1
  <2>2. g[j - 1] \in Word(N - (j - 1))
    BY <1>5, <2>1
  <2> QED
    BY <1>4, <2>1, <2>2
<1>7. \A j \in 0..Width : g[j] \in Word(N - j)
  BY <1>5
<1> DEFINE h == [i \in Width..N |-> g[N - i]]
<1>8. Reduces(h, p)
  <2>1. ASSUME NEW i \in Width..N
        PROVE  g[N - i] = IF i = N THEN p
                          ELSE LET q == h[i + 1]
                               IN  IF bit(q, i) = 1 THEN xor(q, Poly * shifted[i - Width]) ELSE q
    <3>1. CASE i = N
      <4>1. N - i = 0
        BY <1>1, <3>1
      <4> QED
        BY <1>3, <3>1, <4>1 DEF Takes
    <3>2. CASE i # N
      <4>1. N - i \in 1..Width /\ i + 1 \in Width..N /\ N - (i + 1) = (N - i) - 1 /\ N - (N - i) = i
        BY <1>1, <3>2
      <4>2. h[i + 1] = g[(N - i) - 1]
        BY <4>1
      <4>3. g[N - i] = Cut(g[(N - i) - 1], i)
        BY <1>6, <4>1
      <4> HIDE DEF h
      <4> QED
        BY <3>2, <4>2, <4>3 DEF Cut, Divisor
    <3> QED
      BY <3>1, <3>2
  <2> QED
    BY <2>1 DEF Reduces
<1> DEFINE f == CHOOSE above : Reduces(above, p)
<1>9. Reduces(f, p)
  <2> HIDE DEF h
  <2> QED
    BY <1>8
<1> HIDE DEF f, h
<1>10. f[N] = p /\ \A i \in Width..N-1 : f[i] = Cut(f[i + 1], i)
  <2>1. N \in Width..N /\ \A i \in Width..N-1 : i \in Width..N /\ i # N
    BY <1>1
  <2>2. f[N] = p
    BY <1>9, <2>1 DEF Reduces
  <2>3. ASSUME NEW i \in Width..N-1 PROVE f[i] = Cut(f[i + 1], i)
    BY <1>9, <2>1 DEF Reduces, Cut, Divisor
  <2> QED
    BY <2>2, <2>3
<1> DEFINE r == [j \in 0..Width |-> f[N - j]]
           U == {j \in 0..Width : r[j] \in Word(N - j)}
<1>11. r[0] = p /\ \A j \in 1..Width : r[j] = Cut(r[j - 1], N - j)
  <2>1. r[0] = p
    BY <1>1, <1>10
  <2>2. ASSUME NEW j \in 1..Width PROVE r[j] = Cut(r[j - 1], N - j)
    <3>1. j \in 0..Width /\ j - 1 \in 0..Width /\ N - j \in Width..N-1 /\ N - (j - 1) = (N - j) + 1
      BY <1>1
    <3>2. r[j] = f[N - j] /\ r[j - 1] = f[(N - j) + 1]
      BY <3>1
    <3> HIDE DEF r
    <3> QED
      BY <1>10, <3>1, <3>2
  <2> QED
    BY <2>1, <2>2
<1>12. r[Width] = f[Width]
  <2>1. Width \in 0..Width /\ N - Width = Width
    BY <1>1
  <2> QED
    BY <2>1
<1> HIDE DEF r
<1>13. \A j \in 0..Width : j \in U
  <2>1. 0 \in U
    BY <1>1, <1>11
  <2>2. ASSUME NEW j \in 1..Width, j - 1 \in U PROVE j \in U
    <3>1. N - j \in Width..2*Width-1 /\ (N - j) + 1 = N - (j - 1) /\ r[j - 1] \in Word(N - (j - 1)) /\ j \in 0..Width
      BY <1>1, <2>2
    <3>2. r[j] = Cut(r[j - 1], N - j)
      BY <1>11
    <3>3. Cut(r[j - 1], N - j) \in Word(N - j)
      <4> DEFINE q == r[j - 1]
                 i == N - j
      <4>1. q \in Word(i + 1) /\ i \in Width..2*Width-1
        BY <3>1
      <4> HIDE DEF q, i
      <4>2. Cut(q, i) \in Word(i)
        BY <4>1, CutShort
      <4> QED
        BY <4>2 DEF q, i
    <3> QED
      BY <3>1, <3>2, <3>3
  <2> HIDE DEF U
  <2> QED
    BY <1>1, <2>1, <2>2, StepsKeep
<1>14. Division(r, p)
  BY <1>11, <1>13 DEF Division
<1>15. remainder(p) = r[Width]
  BY <1>12, RemainderUnfolds DEF f
<1> QED
  BY <1>14, <1>15

\* The remainder is an element, and that of a sum the sum of the remainders.
LEMMA RemainderLinear ==
  ASSUME NEW a \in Word(2*Width), NEW b \in Word(2*Width)
  PROVE  /\ remainder(a) \in Word(Width)
         /\ remainder(xor(a, b)) = xor(remainder(a), remainder(b))
<1>1. Width \in Nat /\ 2*Width - Width = Width /\ Width \in 0..Width
  BY Shifts
<1>2. xor(a, b) \in Word(2*Width)
  BY XorLaws
<1>3. PICK r : Division(r, a) /\ remainder(a) = r[Width]
  BY RemainderRecursion
<1>4. PICK s : Division(s, b) /\ remainder(b) = s[Width]
  BY RemainderRecursion
<1>5. PICK t : Division(t, xor(a, b)) /\ remainder(xor(a, b)) = t[Width]
  BY <1>2, RemainderRecursion
<1> DEFINE T == {j \in 0..Width : t[j] = xor(r[j], s[j])}
<1>6. 0 \in T
  BY <1>1, <1>3, <1>4, <1>5 DEF Division
<1>7. ASSUME NEW j \in 1..Width, j - 1 \in T PROVE j \in T
  <2> DEFINE i == 2*Width - j
             x == r[j - 1]
             y == s[j - 1]
  <2>1. i \in Width..2*Width-1 /\ j \in 0..Width /\ j - 1 \in 0..Width /\ 2*Width - (j - 1) = i + 1
    BY <1>1
  <2>2. x \in Word(i + 1) /\ y \in Word(i + 1) /\ t[j - 1] = xor(x, y)
    BY <1>3, <1>4, <1>7, <2>1 DEF Division
  <2>3. r[j] = Cut(x, i) /\ s[j] = Cut(y, i) /\ t[j] = Cut(t[j - 1], i)
    BY <1>3, <1>4, <1>5 DEF Division
  <2> HIDE DEF i, x, y
  <2>4. Cut(xor(x, y), i) = xor(Cut(x, i), Cut(y, i))
    BY <2>1, <2>2, CutLinear
  <2> QED
    BY <2>1, <2>2, <2>3, <2>4
<1>8. Width \in T
  <2> HIDE DEF T
  <2> QED
    BY <1>1, <1>6, <1>7, StepsKeep
<1>9. r[Width] \in Word(Width)
  BY <1>1, <1>3 DEF Division
<1> QED
  BY <1>3, <1>4, <1>5, <1>8, <1>9

\* An element is its own remainder.
LEMMA RemainderShort ==
  ASSUME NEW a \in Word(Width)
  PROVE  remainder(a) = a
<1>1. Width \in Nat /\ Width \in 0..Width /\ Width \in 0..2*Width+1 /\ 2*Width \in 0..2*Width+1 /\ Width <= 2*Width
  BY Shifts
<1>2. a \in Word(2*Width)
  BY <1>1, WordsGrow
<1>3. PICK r : Division(r, a) /\ remainder(a) = r[Width]
  BY <1>2, RemainderRecursion
<1> DEFINE T == {j \in 0..Width : r[j] = a}
<1>4. 0 \in T
  BY <1>1, <1>3 DEF Division
<1>5. ASSUME NEW j \in 1..Width, j - 1 \in T PROVE j \in T
  <2>1. 2*Width - j \in Width..2*Width+1 /\ j \in 0..Width
    BY <1>1
  <2>2. bit(a, 2*Width - j) = 0
    BY <1>1, <2>1, WordRest
  <2>3. r[j] = Cut(a, 2*Width - j)
    BY <1>3, <1>5 DEF Division
  <2> QED
    BY <2>1, <2>2, <2>3 DEF Cut
<1>6. Width \in T
  <2> HIDE DEF T
  <2> QED
    BY <1>1, <1>4, <1>5, StepsKeep
<1> QED
  BY <1>3, <1>6

\* The shifted characteristic polynomial leaves none.
LEMMA RemainderDivisor ==
  ASSUME NEW s \in 0..Width-1
  PROVE  Divisor(s) \in Word(2*Width) /\ remainder(Divisor(s)) = 0
<1> DEFINE d == Divisor(s)
           n == Width + s + 1
<1>1. /\ Width \in Nat /\ Width \in 0..Width /\ n \in 0..2*Width+1 /\ 2*Width \in 0..2*Width+1 /\ n <= 2*Width
      /\ s \in Nat
  BY Shifts
<1>2. d \in Word(n) /\ bit(d, Width + s) = 1
  BY Divisors
<1> HIDE DEF d
<1>3. d \in Word(2*Width)
  <2> HIDE DEF n
  <2> QED
    BY <1>1, <1>2, WordsGrow
<1>4. PICK r : Division(r, d) /\ remainder(d) = r[Width]
  BY <1>3, RemainderRecursion
<1> DEFINE T == {j \in 0..Width : r[j] = IF j < Width - s THEN d ELSE 0}
<1>5. 0 \in T
  BY <1>1, <1>4 DEF Division
<1>6. ASSUME NEW j \in 1..Width, j - 1 \in T PROVE j \in T
  <2> DEFINE i == 2*Width - j
  <2>1. i \in 0..2*Width+1 /\ j \in 0..Width
    BY <1>1
  <2>2. r[j] = Cut(r[j - 1], i)
    BY <1>4 DEF Division
  <2>3. CASE j < Width - s
    <3>1. i \in n..2*Width+1 /\ j - 1 < Width - s
      BY <1>1, <2>3
    <3>2. bit(d, i) = 0
      <4> HIDE DEF n, i
      <4> QED
        BY <1>1, <1>2, <3>1, WordRest
    <3>3. r[j - 1] = d
      BY <1>6, <3>1
    <3> QED
      BY <2>1, <2>2, <2>3, <3>2, <3>3 DEF Cut
  <2>4. CASE j = Width - s
    <3>1. j - 1 < Width - s /\ i = Width + s /\ i - Width = s /\ ~(j < Width - s)
      BY <1>1, <2>4
    <3>2. r[j - 1] = d
      BY <1>6, <3>1
    <3>3. r[j] = xor(d, d)
      BY <1>2, <2>2, <3>1, <3>2 DEF Cut, d
    <3>4. xor(d, d) = 0
      BY <1>3, XorLaws
    <3> QED
      BY <2>1, <3>1, <3>3, <3>4
  <2>5. CASE j > Width - s
    <3>1. ~(j - 1 < Width - s) /\ ~(j < Width - s)
      BY <1>1, <2>5
    <3>2. r[j - 1] = 0
      BY <1>6, <3>1
    <3>3. bit(0, i) = 0
      BY <2>1, WordsGrow
    <3> QED
      BY <2>1, <2>2, <3>1, <3>2, <3>3 DEF Cut
  <2> QED
    BY <1>1, <2>3, <2>4, <2>5
<1>7. Width \in T
  <2> HIDE DEF T
  <2> QED
    BY <1>1, <1>5, <1>6, StepsKeep
<1>8. ~(Width < Width - s)
  BY <1>1
<1> QED
  BY <1>3, <1>4, <1>7, <1>8 DEF d

\* Doubling and taking the remainder can be done in either order.
LEMMA RemainderDouble ==
  ASSUME NEW p \in Word(2*Width-1)
  PROVE  /\ 2 * p \in Word(2*Width) /\ 2 * remainder(p) \in Word(2*Width)
         /\ remainder(2 * remainder(p)) = remainder(2 * p)
<1> DEFINE M == 2*Width - 1
           N == 2*Width
<1>1. /\ Width \in Nat /\ Width >= 2 /\ Width \in 0..Width /\ M \in 0..2*Width /\ M \in 0..2*Width+1 /\ N \in 0..2*Width+1
      /\ M <= N /\ M + 1 = N /\ Width \in 0..2*Width+1 /\ Width <= M
  BY Shifts
<1>2. p \in Word(N)
  BY <1>1, WordsGrow
<1>3. PICK r : Division(r, p) /\ remainder(p) = r[Width]
  BY <1>2, RemainderRecursion
<1>4. \A x \in Word(M) : 2 * x \in Word(N)
  BY <1>1, DoubleBits
<1> DEFINE T == {j \in 0..Width : r[j] \in Word(M) /\ remainder(2 * r[j]) = remainder(2 * p)}
<1>5. 0 \in T
  BY <1>1, <1>3 DEF Division
<1>6. ASSUME NEW j \in 1..Width, j - 1 \in T PROVE j \in T
  <2> DEFINE q == r[j - 1]
             i == 2*Width - j
             s == i - Width
  <2>1. j \in 0..Width /\ i \in 0..2*Width-1 /\ i \in Nat
    BY <1>1
  <2>2. r[j] = Cut(q, i)
    BY <1>3 DEF Division
  <2>3. q \in Word(M) /\ remainder(2 * q) = remainder(2 * p)
    BY <1>6
  <2>4. CASE bit(q, i) # 1
    BY <2>1, <2>2, <2>3, <2>4 DEF Cut
  <2>5. CASE bit(q, i) = 1
    <3>1. j # 1
      <4> SUFFICES ASSUME j = 1 PROVE FALSE
        OBVIOUS
      <4>1. i \in M..2*Width+1
        BY <1>1
      <4> HIDE DEF i, M, q
      <4>2. bit(q, i) = 0
        BY <1>1, <2>3, <4>1, WordRest
      <4> QED
        BY <2>5, <4>2
    <3>2. /\ s \in 0..Width-1 /\ s + 1 < Width /\ s + 1 \in 0..Width-1
          /\ Width + s + 1 \in 0..2*Width+1 /\ Width + s + 1 <= M
      BY <1>1, <3>1
    <3> HIDE DEF s, i, q
    <3>3. Divisor(s) \in Word(M) /\ 2 * Divisor(s) = Divisor(s + 1)
      <4>1. Divisor(s) \in Word(Width + s + 1) /\ Divisor(s + 1) = 2 * Divisor(s)
        BY <3>2, Divisors
      <4> QED
        BY <1>1, <3>2, <4>1, WordsGrow
    <3>4. r[j] = xor(q, Divisor(s))
      BY <2>2, <2>5 DEF Cut, s
    <3>5. 2 * xor(q, Divisor(s)) = xor(2 * q, Divisor(s + 1))
      BY <2>3, <3>3, XorDouble
    <3>6. Divisor(s + 1) \in Word(N) /\ remainder(Divisor(s + 1)) = 0
      BY <3>2, RemainderDivisor
    <3>7. remainder(xor(2 * q, Divisor(s + 1))) = xor(remainder(2 * q), 0) /\ remainder(2 * q) \in Word(Width)
      BY <1>4, <2>3, <3>6, RemainderLinear
    <3>8. xor(remainder(2 * q), 0) = remainder(2 * q)
      <4>1. remainder(2 * q) \in Word(N)
        BY <1>1, <3>7, WordsGrow
      <4> QED
        BY <4>1, XorLaws
    <3>9. xor(q, Divisor(s)) \in Word(M)
      BY <1>1, <2>3, <3>3, XorShort
    <3> QED
      BY <2>1, <2>3, <3>4, <3>5, <3>7, <3>8, <3>9
  <2> QED
    BY <2>4, <2>5
<1>7. Width \in T
  <2> HIDE DEF T
  <2> QED
    BY <1>1, <1>5, <1>6, StepsKeep
<1>8. r[Width] \in Word(M)
  BY <1>7
<1> QED
  BY <1>3, <1>4, <1>7, <1>8

\* The elements are the words of Width bits.
LEMMA ElementsAreWords ==
  /\ Element = Word(Width) /\ Width \in 0..2*Width /\ Element \subseteq Word(2*Width) /\ Element \subseteq Nat
  /\ {0, 1, 2, 3} \subseteq Element /\ Order \in Nat /\ Order >= 3
<1>1. /\ Width \in Nat /\ Width >= 2 /\ 0 \in 0..2*Width /\ 1 \in 0..2*Width /\ 2 \in 0..2*Width+1
      /\ Width \in 0..2*Width+1 /\ 2*Width \in 0..2*Width+1 /\ Width <= 2*Width /\ Width \in 0..2*Width
      /\ 0+1 = 1 /\ 1+1 = 2 /\ (Width = 2 \/ 2 < Width)
  BY Shifts
<1>2. shifted[1] = 2 /\ shifted[2] = 4
  <2>1. shifted[0] = 1 /\ shifted[0 + 1] = 2 * shifted[0] /\ shifted[1 + 1] = 2 * shifted[1]
    BY <1>1, Shifts
  <2> QED
    BY <1>1, <2>1
<1>3. shifted[Width] \in Nat /\ shifted[Width] >= 4
  <2>1. shifted[Width] \in Nat
    BY <1>1, Shifts
  <2>2. 2 < Width => shifted[2] < shifted[Width]
    BY <1>1, Shifts
  <2> QED
    BY <1>1, <1>2, <2>1, <2>2
<1>4. Element = Word(Width)
  BY DEF Element, Values, Word
<1>5. Element \subseteq Word(2*Width) /\ Element \subseteq Nat
  BY <1>1, <1>4, WordsGrow
<1>6. {0, 1, 2, 3} \subseteq Element /\ Order \in Nat /\ Order >= 3
  BY <1>3 DEF Element, Values, Order
<1> QED
  BY <1>1, <1>4, <1>5, <1>6

\* Shifting an element.
LEMMA ShiftedElement ==
  ASSUME NEW b \in Element, NEW i \in 0..Width
  PROVE  /\ b * shifted[i] \in Word(Width + i) /\ b * shifted[0] = b
         /\ i < Width => b * shifted[i + 1] = 2 * (b * shifted[i])
<1>1. Width \in Nat /\ b \in Word(Width) /\ b \in Nat /\ shifted[0] = 1
  BY ElementsAreWords, Shifts
<1>2. ASSUME NEW j \in 0..Width, j < Width PROVE b * shifted[j + 1] = 2 * (b * shifted[j])
  <2> DEFINE w == shifted[j]
  <2>1. j \in 0..2*Width /\ j \in 0..2*Width+1
    BY <1>1
  <2>2. w \in Nat /\ shifted[j + 1] = 2 * w
    BY <2>1, Shifts
  <2> HIDE DEF w
  <2>3. b * (2 * w) = 2 * (b * w)
    BY <1>1, <2>2, Z3
  <2> QED
    BY <2>2, <2>3 DEF w
<1> DEFINE T == {j \in 0..Width : b * shifted[j] \in Word(Width + j)}
<1>3. 0 \in T
  BY <1>1
<1>4. ASSUME NEW j \in 1..Width, j - 1 \in T PROVE j \in T
  <2> DEFINE m == j - 1
             v == b * shifted[m]
  <2>1. m \in 0..Width /\ m < Width /\ m + 1 = j /\ Width + m \in 0..2*Width /\ (Width + m) + 1 = Width + j /\ j \in 0..Width
    BY <1>1
  <2>2. v \in Word(Width + m)
    BY <1>4
  <2>3. b * shifted[m + 1] = 2 * v
    BY <1>2, <2>1
  <2> HIDE DEF v, m
  <2>4. 2 * v \in Word((Width + m) + 1)
    BY <2>1, <2>2, DoubleBits
  <2> QED
    BY <2>1, <2>3, <2>4
<1>5. i \in T
  <2> HIDE DEF T
  <2> QED
    BY <1>1, <1>3, <1>4, StepsKeep
<1> QED
  BY <1>1, <1>2, <1>5

\* sum is the function product is defined by.
Sums(sum, a, b) ==
  sum = [i \in 0..Width |->
           IF i = 0 THEN 0
           ELSE xor(sum[i - 1], IF bit(a, i - 1) = 1 THEN b * shifted[i - 1] ELSE 0)]

LEMMA ProductUnfolds ==
  ASSUME NEW a, NEW b PROVE product(a, b) = (CHOOSE sum : Sums(sum, a, b))[Width]
  BY DEF product, Sums

\* s multiplies a with b, one bit of a at a step.
Multiplication(s, a, b) ==
  /\ s[0] = 0
  /\ \A i \in 1..Width : s[i] = xor(s[i - 1], IF bit(a, i - 1) = 1 THEN b * shifted[i - 1] ELSE 0)

LEMMA ProductRecursion ==
  ASSUME NEW a \in Element, NEW b \in Element
  PROVE  \E s \in [0..Width -> Word(2*Width)] : Multiplication(s, a, b) /\ product(a, b) = s[Width]
<1> DEFINE R == Word(2*Width)
           term == [i \in 1..Width |-> IF bit(a, i - 1) = 1 THEN b * shifted[i - 1] ELSE 0]
           G == [i \in 1..Width |-> [r \in R |-> xor(r, term[i])]]
<1>1. Width \in Nat /\ 0 \in R /\ 2*Width \in 0..2*Width+1
  BY Shifts, WordsGrow
<1>2. ASSUME NEW i \in 1..Width PROVE term[i] \in R
  <2>1. i - 1 \in 0..Width /\ Width + (i - 1) \in 0..2*Width+1 /\ Width + (i - 1) <= 2*Width
    BY <1>1
  <2>2. b * shifted[i - 1] \in Word(Width + (i - 1))
    BY <2>1, ShiftedElement
  <2>3. b * shifted[i - 1] \in R
    BY <1>1, <2>1, <2>2, WordsGrow
  <2> HIDE DEF R
  <2> QED
    BY <1>1, <2>3
<1> HIDE DEF R
<1>3. StepMaps(G, Width, R)
  <2>1. ASSUME NEW i \in 1..Width, NEW r \in R PROVE xor(r, term[i]) \in R
    BY <1>2, XorLaws DEF R
  <2> HIDE DEF term
  <2> QED
    BY <2>1 DEF StepMaps
<1>4. PICK g \in [0..Width -> R] : Takes(g, G, Width, 0)
  <2> HIDE DEF G
  <2> QED
    BY <1>1, <1>3, StepsExist
<1>5. \A i \in 1..Width : i - 1 \in 0..Width /\ i \in 0..Width /\ i # 0
  BY <1>1
<1>6. Sums(g, a, b)
  <2>1. ASSUME NEW i \in 0..Width
        PROVE  g[i] = IF i = 0 THEN 0
                      ELSE xor(g[i - 1], IF bit(a, i - 1) = 1 THEN b * shifted[i - 1] ELSE 0)
    <3>1. CASE i = 0
      BY <1>4, <3>1 DEF Takes
    <3>2. CASE i # 0
      <4>1. i \in 1..Width
        BY <3>2
      <4>2. g[i - 1] \in R
        BY <1>5, <4>1
      <4>3. g[i] = G[i][g[i - 1]]
        BY <1>4, <4>1 DEF Takes
      <4>4. g[i] = xor(g[i - 1], term[i])
        <5> HIDE DEF term
        <5> QED
          BY <4>1, <4>2, <4>3
      <4>5. term[i] = IF bit(a, i - 1) = 1 THEN b * shifted[i - 1] ELSE 0
        BY <4>1
      <4> HIDE DEF term, G
      <4> QED
        BY <3>2, <4>4, <4>5
    <3> QED
      BY <3>1, <3>2
  <2> QED
    BY <2>1 DEF Sums
<1> DEFINE f == CHOOSE sum : Sums(sum, a, b)
<1>7. Sums(f, a, b)
  BY <1>6
<1> HIDE DEF f
<1>8. f[0] = 0 /\ \A i \in 1..Width : f[i] = xor(f[i - 1], term[i])
  <2>1. f[0] = 0
    BY <1>1, <1>7 DEF Sums
  <2>2. ASSUME NEW i \in 1..Width PROVE f[i] = xor(f[i - 1], term[i])
    <3>1. f[i] = xor(f[i - 1], IF bit(a, i - 1) = 1 THEN b * shifted[i - 1] ELSE 0)
      BY <1>5, <1>7 DEF Sums
    <3> QED
      BY <3>1
  <2> QED
    BY <2>1, <2>2
<1>9. Multiplication(f, a, b)
  BY <1>8 DEF Multiplication
<1> HIDE DEF term
<1> DEFINE T == {i \in 0..Width : f[i] \in R}
<1>10. \A i \in 0..Width : i \in T
  <2>1. 0 \in T
    BY <1>1, <1>8
  <2>2. ASSUME NEW i \in 1..Width, i - 1 \in T PROVE i \in T
    <3>1. xor(f[i - 1], term[i]) \in R
      BY <1>2, <2>2, XorLaws DEF R
    <3> QED
      BY <1>5, <1>8, <3>1
  <2> HIDE DEF T
  <2> QED
    BY <1>1, <2>1, <2>2, StepsKeep
<1>11. f = [i \in 0..Width |-> f[i]]
  BY <1>7 DEF Sums
<1>12. f \in [0..Width -> R]
  BY <1>10, <1>11
<1>13. product(a, b) = f[Width]
  BY ProductUnfolds DEF f
<1> QED
  BY <1>9, <1>12, <1>13 DEF R

\* Multiplying by 2 doubles.
LEMMA ProductTwo ==
  ASSUME NEW x \in Element
  PROVE  product(x, 2) = 2 * x /\ 2 * x \in Word(2*Width) /\ 2 * x \in Word(Width + 1)
<1>1. /\ x \in Nat /\ x \in Word(Width) /\ 2 \in Element /\ Width \in Nat /\ Width >= 2
      /\ Width \in 0..2*Width /\ Width \in 0..2*Width+1
  BY ElementsAreWords, Shifts
<1>2. PICK s \in [0..Width -> Word(2*Width)] : Multiplication(s, x, 2) /\ product(x, 2) = s[Width]
  BY <1>1, ProductRecursion
<1> DEFINE T == {i \in 0..Width : s[i] = 2 * (x % shifted[i])}
<1>3. 0 \in T
  <2>1. shifted[0] = 1 /\ x % 1 = 0
    BY <1>1, Shifts
  <2> QED
    BY <1>1, <1>2, <2>1 DEF Multiplication
<1>4. ASSUME NEW i \in 1..Width, i - 1 \in T PROVE i \in T
  <2> DEFINE j == i - 1
             p == shifted[j]
             r == x % p
  <2>1. j \in 0..2*Width /\ j + 1 = i /\ i \in 0..2*Width-1 /\ i \in 0..Width /\ j \in 0..2*Width+1
    BY <1>1
  <2>2. bit(x, j) \in {0, 1} /\ x % shifted[j + 1] = r + p * bit(x, j) /\ r \in 0..p-1
    BY <1>1, <2>1, LowBits
  <2>3. p \in Nat \ {0} /\ shifted[i] = 2 * p
    BY <2>1, Shifts
  <2>4. s[j] = 2 * r /\ s[i] = xor(s[j], IF bit(x, j) = 1 THEN 2 * p ELSE 0)
    BY <1>2, <1>4 DEF Multiplication
  <2>5. r \in Nat /\ r \in Word(j)
    BY <2>2, <2>3 DEF Word
  <2> HIDE DEF r, p, j
  <2>6. 2 * r \in Word(i)
    <3>1. 2 * r \in Word(j + 1)
      BY <2>1, <2>5, DoubleBits
    <3> QED
      BY <2>1, <3>1
  <2>7. CASE bit(x, j) = 1
    <3>1. xor(2 * r, shifted[i]) = 2 * r + shifted[i]
      BY <2>1, <2>6, XorAbove
    <3>2. x % shifted[i] = r + p
      BY <2>1, <2>2, <2>3, <2>7
    <3> QED
      BY <2>1, <2>3, <2>4, <2>5, <2>7, <3>1, <3>2
  <2>8. CASE bit(x, j) = 0
    <3>1. xor(2 * r, 0) = 2 * r
      <4>1. i \in 0..2*Width+1 /\ 2*Width \in 0..2*Width+1 /\ i <= 2*Width
        BY <1>1, <2>1
      <4>2. 2 * r \in Word(2*Width)
        BY <2>6, <4>1, WordsGrow
      <4> QED
        BY <4>2, XorLaws
    <3>2. x % shifted[i] = r
      BY <2>1, <2>2, <2>3, <2>5, <2>8
    <3> QED
      BY <2>1, <2>4, <2>8, <3>1, <3>2
  <2> QED
    BY <2>2, <2>7, <2>8
<1>5. Width \in T
  <2> HIDE DEF T
  <2> QED
    BY <1>1, <1>3, <1>4, StepsKeep
<1>6. x % shifted[Width] = x
  BY <1>1, WordRest
<1>7. 2 * x \in Word(Width + 1)
  BY <1>1, DoubleBits
<1>8. s[Width] \in Word(2*Width)
  BY <1>1
<1> QED
  BY <1>2, <1>5, <1>6, <1>7, <1>8

-----------------------------------------------------------------------------
(* The field.                                                              *)

\* x times the element 2.
Doubled(x) == remainder(2 * x)

\* Doubling is what multiplying by 2 does to an element, and is linear.
LEMMA Doubling ==
  /\ \A x \in Element : Doubled(x) \in Element /\ Times[x][2] = Doubled(x)
  /\ \A x, y \in Element : xor(x, y) \in Element /\ Doubled(xor(x, y)) = xor(Doubled(x), Doubled(y))
  /\ Doubled(0) = 0 /\ Doubled(1) = 2
<1>1. /\ Element = Word(Width) /\ Width \in 0..2*Width /\ Element \subseteq Word(2*Width)
      /\ {0, 1, 2, 3} \subseteq Element
  BY ElementsAreWords
<1>2. Element \subseteq Word(2*Width-1)
  <2>1. Width \in 0..2*Width+1 /\ 2*Width-1 \in 0..2*Width+1 /\ Width <= 2*Width-1
    BY Shifts
  <2> QED
    BY <1>1, <2>1, WordsGrow
<1>3. ASSUME NEW x \in Element PROVE Doubled(x) \in Element /\ Times[x][2] = Doubled(x)
  <2>1. product(x, 2) = 2 * x /\ 2 * x \in Word(2*Width)
    BY ProductTwo
  <2>2. remainder(2 * x) \in Word(Width)
    BY <2>1, RemainderLinear
  <2>3. Times[x][2] = galois_multiply(x, 2)
    BY <1>1 DEF Times
  <2> QED
    BY <1>1, <2>1, <2>2, <2>3 DEF Doubled, galois_multiply
<1>4. ASSUME NEW x \in Element, NEW y \in Element
      PROVE  xor(x, y) \in Element /\ Doubled(xor(x, y)) = xor(Doubled(x), Doubled(y))
  <2>1. xor(x, y) \in Element
    BY <1>1, XorShort
  <2>2. 2 * xor(x, y) = xor(2 * x, 2 * y)
    BY <1>2, XorDouble
  <2>3. remainder(xor(2 * x, 2 * y)) = xor(remainder(2 * x), remainder(2 * y))
    BY ProductTwo, RemainderLinear
  <2> QED
    BY <2>1, <2>2, <2>3 DEF Doubled
<1>5. Doubled(0) = 0 /\ Doubled(1) = 2
  <2>1. 2 * 0 = 0 /\ 2 * 1 = 2
    OBVIOUS
  <2>2. remainder(0) = 0 /\ remainder(2) = 2
    BY <1>1, RemainderShort
  <2> QED
    BY <2>1, <2>2 DEF Doubled
<1> QED
  BY <1>3, <1>4, <1>5

\* Plus is a group whose elements are their own inverses.
LEMMA PlusLaws ==
  /\ 0 \in Element /\ 1 \in Element
  /\ \A a, b \in Element : Plus[a][b] \in Element /\ Plus[a][b] = Plus[b][a] /\ Plus[a][b] = xor(a, b)
  /\ \A a, b, c \in Element : Plus[Plus[a][b]][c] = Plus[a][Plus[b][c]]
  /\ \A a \in Element : Plus[a][0] = a /\ Plus[0][a] = a /\ Plus[a][a] = 0
<1>1. Element \subseteq Word(2*Width) /\ {0, 1, 2, 3} \subseteq Element
  BY ElementsAreWords
<1>2. \A a, b \in Element : xor(a, b) \in Element
  BY Doubling
<1>3. \A a, b \in Element : Plus[a][b] = xor(a, b)
  BY DEF Plus
<1>4. ASSUME NEW a \in Element, NEW b \in Element, NEW c \in Element
      PROVE  /\ xor(a, b) = xor(b, a) /\ xor(xor(a, b), c) = xor(a, xor(b, c))
             /\ xor(a, 0) = a /\ xor(a, a) = 0
  BY <1>1, XorLaws
<1>5. \A a, b \in Element : Plus[a][b] \in Element /\ Plus[a][b] = Plus[b][a] /\ Plus[a][b] = xor(a, b)
  BY <1>2, <1>3, <1>4
<1>6. \A a, b, c \in Element : Plus[Plus[a][b]][c] = Plus[a][Plus[b][c]]
  BY <1>2, <1>3, <1>4
<1>7. \A a \in Element : Plus[a][0] = a /\ Plus[0][a] = a /\ Plus[a][a] = 0
  BY <1>1, <1>3, <1>4
<1> QED
  BY <1>1, <1>5, <1>6, <1>7

\* pow is the function exp is defined by.
Powers(pow) ==
  pow = [i \in 0..Order-1 |-> IF i = 0 THEN 1 ELSE Times[pow[i - 1]][2]]

\* exp starts at 1 and doubles.
LEMMA ExpSteps ==
  /\ exp \in [0..Order-1 -> Element] /\ exp[0] = 1
  /\ \A i \in 1..Order-1 : exp[i] = Doubled(exp[i - 1])
<1> DEFINE n == Order - 1
           R == Element
           G == [i \in 1..n |-> [x \in R |-> Doubled(x)]]
           f == CHOOSE pow : Powers(pow)
<1>1. n \in Nat /\ 1 \in R /\ \A i \in 1..n : i - 1 \in 0..n /\ i \in 0..n /\ i # 0
  BY ElementsAreWords
<1>2. \A x \in R : Doubled(x) \in R /\ Times[x][2] = Doubled(x)
  BY Doubling
<1>3. exp = [i \in 0..n |-> f[i]]
  BY DEF exp, Powers
<1> HIDE DEF R
<1>4. StepMaps(G, n, R)
  <2> HIDE DEF n
  <2> QED
    BY <1>2 DEF StepMaps
<1>5. PICK g \in [0..n -> R] : Takes(g, G, n, 1)
  <2> HIDE DEF G, n
  <2> QED
    BY <1>1, <1>4, StepsExist
<1>6. Powers(g)
  <2> HIDE DEF n
  <2>1. ASSUME NEW i \in 0..n PROVE g[i] = IF i = 0 THEN 1 ELSE Times[g[i - 1]][2]
    <3>1. CASE i = 0
      BY <1>5, <3>1 DEF Takes
    <3>2. CASE i # 0
      <4>1. i \in 1..n
        BY <1>1, <3>2
      <4>2. g[i - 1] \in R
        BY <1>1, <4>1
      <4>3. g[i] = G[i][g[i - 1]]
        BY <1>5, <4>1 DEF Takes
      <4> QED
        BY <1>2, <3>2, <4>1, <4>2, <4>3
    <3> QED
      BY <3>1, <3>2
  <2>2. g = [i \in 0..n |-> g[i]]
    OBVIOUS
  <2> HIDE DEF G
  <2>3. g = [i \in 0..n |-> IF i = 0 THEN 1 ELSE Times[g[i - 1]][2]]
    BY <2>1, <2>2
  <2> QED
    BY <2>3 DEF Powers, n
<1>7. Powers(f)
  BY <1>6
<1> HIDE DEF f, G
<1>8. f = [i \in 0..n |-> IF i = 0 THEN 1 ELSE Times[f[i - 1]][2]]
  BY <1>7 DEF Powers
<1> HIDE DEF n
<1>9. f[0] = 1 /\ \A i \in 1..n : f[i] = Times[f[i - 1]][2]
  BY <1>1, <1>8
<1>10. exp = f
  BY <1>3, <1>8
<1> DEFINE T == {i \in 0..n : f[i] \in R}
<1>11. \A i \in 0..n : i \in T
  <2>1. 0 \in T
    BY <1>1, <1>9
  <2>2. ASSUME NEW i \in 1..n, i - 1 \in T PROVE i \in T
    BY <1>1, <1>2, <1>9, <2>2
  <2> HIDE DEF T
  <2> QED
    BY <1>1, <2>1, <2>2, StepsKeep
<1>12. f \in [0..n -> R]
  BY <1>8, <1>11
<1>13. \A i \in 1..n : f[i] = Doubled(f[i - 1])
  BY <1>1, <1>2, <1>9, <1>11
<1> QED
  BY <1>9, <1>10, <1>12, <1>13 DEF n, R

\* The powers of 2 are all elements but 0, each once.
LEMMA ExpBijection ==
  /\ \A i \in 0..Order-1 : exp[i] # 0
  /\ \A i, j \in 0..Order-1 : exp[i] = exp[j] => i = j
<1> DEFINE S == {i \in 0..Order-1 : exp[i] # 0}
           T == Element \ {0}
           f == [i \in S |-> exp[i]]
<1>1. Order \in Nat /\ Order >= 3 /\ Order \in Int /\ Order - 1 \in Int /\ 0 \in Int /\ 1 \in Int
  BY ElementsAreWords
<1>2. IsFiniteSet(0..Order-1) /\ Cardinality(0..Order-1) = Order
  BY <1>1, FS_Interval
<1>3. T = 1..Order
  BY <1>1 DEF Element, Order
<1>4. IsFiniteSet(T) /\ Cardinality(T) = Order
  <2>1. IsFiniteSet(1..Order) /\ Cardinality(1..Order) = IF 1 > Order THEN 0 ELSE Order - 1 + 1
    BY <1>1, FS_Interval
  <2> HIDE DEF T
  <2> QED
    BY <1>1, <1>3, <2>1
<1>5. IsFiniteSet(S) /\ Cardinality(S) <= Order /\ Cardinality(S) \in Nat /\ (Cardinality(S) = Order => S = 0..Order-1)
  BY <1>2, FS_Subset, FS_CardinalityType
<1>6. f \in Surjection(S, T)
  <2>1. f \in [S -> T]
    BY ExpSteps
  <2>2. ASSUME NEW a \in T PROVE \E i \in S : f[i] = a
    <3>1. PICK i \in 0..Order-1 : exp[i] = a
      BY PrimitiveAssumption
    <3> QED
      BY <3>1
  <2> HIDE DEF f, S, T
  <2> QED
    BY <2>1, <2>2 DEF Surjection
<1>7. Cardinality(T) <= Cardinality(S) /\ (Cardinality(T) = Cardinality(S) => f \in Injection(S, T))
  <2> HIDE DEF f, S, T
  <2> QED
    BY <1>5, <1>6, FS_Surjection
<1>8. S = 0..Order-1 /\ f \in Injection(S, T)
  <2> HIDE DEF f, S, T
  <2> QED
    BY <1>1, <1>4, <1>5, <1>7
<1>9. \A i, j \in S : f[i] = f[j] => i = j
  <2> HIDE DEF f, S, T
  <2>1. IsInjective(f) /\ DOMAIN f = S
    BY <1>8 DEF Injection
  <2> QED
    BY <2>1 DEF IsInjective
<1> QED
  BY <1>8, <1>9

\* log is the inverse of exp.
LEMMA LogLaws ==
  /\ \A a \in Element \ {0} : log[a] \in 0..Order-1 /\ exp[log[a]] = a
  /\ \A i \in 0..Order-1 : log[exp[i]] = i
  /\ log[1] = 0
<1>1. ASSUME NEW a \in Element \ {0} PROVE log[a] \in 0..Order-1 /\ exp[log[a]] = a
  <2>1. \E i \in 0..Order-1 : exp[i] = a
    BY PrimitiveAssumption
  <2>2. log[a] = CHOOSE i \in 0..Order-1 : exp[i] = a
    BY DEF log
  <2> QED
    BY <2>1, <2>2
<1>2. ASSUME NEW i \in 0..Order-1 PROVE log[exp[i]] = i
  <2>1. exp[i] \in Element \ {0}
    BY ExpSteps, ExpBijection
  <2>2. log[exp[i]] \in 0..Order-1 /\ exp[log[exp[i]]] = exp[i]
    BY <1>1, <2>1
  <2> QED
    BY <2>2, ExpBijection
<1>3. 0 \in 0..Order-1 /\ exp[0] = 1
  BY ElementsAreWords, ExpSteps
<1> QED
  BY <1>1, <1>2, <1>3

\* The exponent after i.
after(i) == IF i = Order - 1 THEN 0 ELSE i + 1

\* After Order steps the powers start again.
LEMMA ExpAfter == \A i \in 0..Order-1 : after(i) \in 0..Order-1 /\ exp[after(i)] = Doubled(exp[i])
<1>1. Order \in Nat /\ Order >= 3 /\ {0, 1, 2, 3} \subseteq Element
  BY ElementsAreWords
<1>2. ASSUME NEW i \in 0..Order-1, i # Order - 1 PROVE exp[i + 1] = Doubled(exp[i])
  <2>1. i + 1 \in 1..Order-1 /\ (i + 1) - 1 = i
    BY <1>1, <1>2
  <2> QED
    BY <2>1, ExpSteps
<1>3. Doubled(exp[Order - 1]) = 1
  <2> DEFINE j == log[3]
             y == xor(1, exp[j - 1])
             l == log[y]
  <2>1. j \in 0..Order-1 /\ exp[j] = 3 /\ exp[0] = 1
    BY <1>1, LogLaws, ExpSteps
  <2>2. j # 0 /\ j - 1 \in 0..Order-1 /\ j \in 1..Order-1
    BY <1>1, <2>1
  <2>3. exp[j - 1] \in Element /\ Doubled(exp[j - 1]) = 3
    BY <2>1, <2>2, ExpSteps
  <2> HIDE DEF j
  <2>4. y \in Element /\ Doubled(y) = xor(2, 3)
    BY <1>1, <2>3, Doubling
  <2>5. xor(2, 3) = 1
    <3>1. /\ 0 \in 0..2*Width-1 /\ 1 \in 0..2*Width-1 /\ 0 + 1 = 1 /\ 1 + 1 = 2 /\ shifted[0] = 1 /\ shifted[0 + 1] = 2 * shifted[0]
          /\ 0 \in 0..2*Width /\ Element \subseteq Word(2*Width)
      BY Shifts, ElementsAreWords
    <3>2. 1 \in Word(1)
      BY <3>1 DEF Word
    <3>3. xor(1, 2) = 3
      <4>1. xor(1, shifted[1]) = 1 + shifted[1] /\ shifted[1] = 2
        BY <3>1, <3>2, XorAbove
      <4> QED
        BY <4>1
    <3>4. 1 \in Word(2*Width) /\ 2 \in Word(2*Width)
      BY <1>1, <3>1
    <3>5. xor(2, xor(2, 1)) = xor(xor(2, 2), 1) /\ xor(2, 2) = 0 /\ xor(1, 2) = xor(2, 1) /\ xor(1, 0) = 1 /\ 0 \in Word(2*Width)
      BY <3>4, XorLaws
    <3>6. xor(0, 1) = xor(1, 0)
      BY <3>4, <3>5, XorLaws
    <3> QED
      BY <3>3, <3>5, <3>6
  <2>6. y # 0
    BY <2>4, <2>5, Doubling
  <2> HIDE DEF y
  <2>7. l \in 0..Order-1 /\ exp[l] = y
    BY <2>4, <2>6, LogLaws
  <2> HIDE DEF l
  <2>8. l = Order - 1
    <3> SUFFICES ASSUME l # Order - 1 PROVE FALSE
      OBVIOUS
    <3>1. exp[l + 1] = exp[0] /\ l + 1 \in 0..Order-1 /\ 0 \in 0..Order-1
      BY <1>1, <1>2, <2>1, <2>4, <2>5, <2>7
    <3>2. l + 1 = 0
      BY <3>1, ExpBijection
    <3> QED
      BY <2>7, <3>2
  <2> QED
    BY <2>4, <2>5, <2>7, <2>8
<1>4. ASSUME NEW i \in 0..Order-1 PROVE after(i) \in 0..Order-1 /\ exp[after(i)] = Doubled(exp[i])
  <2>1. CASE i = Order - 1
    BY <1>1, <1>3, <2>1, ExpSteps DEF after
  <2>2. CASE i # Order - 1
    BY <1>1, <1>2, <2>2 DEF after
  <2> QED
    BY <2>1, <2>2
<1> QED
  BY <1>4

\* Exponents are added around Order.
around(i, j) == IF i + j >= Order THEN i + j - Order ELSE i + j

\* The product of powers is the power of the sum of the exponents.
LEMMA MultPowers ==
  /\ \A i, j \in 0..Order-1 : around(i, j) \in 0..Order-1 /\ Mult[exp[i]][exp[j]] = exp[around(i, j)]
  /\ \A a \in Element : Mult[a][0] = 0 /\ Mult[0][a] = 0
<1>1. Order \in Nat /\ 0 \in Element
  BY ElementsAreWords
<1>2. \A a, b \in Element : Mult[a][b] = mult(a, b)
  BY DEF Mult
<1>3. ASSUME NEW i \in 0..Order-1, NEW j \in 0..Order-1
      PROVE  around(i, j) \in 0..Order-1 /\ Mult[exp[i]][exp[j]] = exp[around(i, j)]
  <2>1. around(i, j) \in 0..Order-1
    BY <1>1 DEF around
  <2>2. exp[i] \in Element /\ exp[j] \in Element /\ exp[i] # 0 /\ exp[j] # 0
    BY ExpSteps, ExpBijection
  <2>3. log[exp[i]] = i /\ log[exp[j]] = j
    BY LogLaws
  <2>4. mult(exp[i], exp[j]) = exp[around(i, j)]
    <3> DEFINE a == exp[i]
               b == exp[j]
    <3>1. a # 0 /\ b # 0 /\ log[a] = i /\ log[b] = j
      BY <2>2, <2>3
    <3> HIDE DEF a, b
    <3> DEFINE e == i + j
    <3>2. mult(a, b) = exp[IF e >= Order THEN e - Order ELSE e]
      <4> DEFINE idx == log[a] + log[b]
      <4>1. idx = e
        BY <3>1
      <4>2. mult(a, b) = exp[IF idx >= Order THEN idx - Order ELSE idx]
        BY ONLY <3>1 DEF mult
      <4> HIDE DEF idx, e
      <4> QED
        BY <4>1, <4>2
    <3>3. around(i, j) = IF e >= Order THEN e - Order ELSE e
      BY <1>1 DEF around
    <3> HIDE DEF e
    <3> QED
      BY <3>2, <3>3 DEF a, b
  <2> QED
    BY <1>2, <2>1, <2>2, <2>4
<1>4. \A a \in Element : Mult[a][0] = 0 /\ Mult[0][a] = 0
  BY <1>1, <1>2 DEF mult
<1> QED
  BY <1>3, <1>4

\* Adding exponents is commutative and associative.
LEMMA AroundLaws ==
  \A i, j, l \in 0..Order-1 :
    /\ around(i, j) = around(j, i) /\ around(around(i, j), l) = around(i, around(j, l))
    /\ around(0, j) = j /\ around(after(i), j) = after(around(i, j))
<1>1. Order \in Nat /\ Order >= 3
  BY ElementsAreWords
<1> QED
  BY <1>1 DEF around, after

\* The non-zero elements are the powers.
LEMMA PowerOrZero == \A a \in Element : a = 0 \/ \E i \in 0..Order-1 : a = exp[i]
  BY PrimitiveAssumption

\* Mult is commutative and associative, 1 is its unit, and what is not 0 has an inverse.
LEMMA MultLaws ==
  /\ \A a, b \in Element : Mult[a][b] \in Element /\ Mult[a][b] = Mult[b][a]
                           /\ (Mult[a][b] = 0 => a = 0 \/ b = 0)
  /\ \A a, b, c \in Element : Mult[Mult[a][b]][c] = Mult[a][Mult[b][c]]
  /\ \A a \in Element : Mult[a][1] = a /\ Mult[1][a] = a /\ Mult[a][0] = 0 /\ Mult[0][a] = 0
  /\ \A a, b \in Element : Mult[Doubled(a)][b] = Doubled(Mult[a][b])
<1>1. 0 \in Element /\ 1 \in Element /\ 0 \in 0..Order-1 /\ exp[0] = 1
  BY ElementsAreWords, ExpSteps
<1>2. \A i \in 0..Order-1 : exp[i] \in Element /\ exp[i] # 0
  BY ExpSteps, ExpBijection
<1>3. ASSUME NEW a \in Element, NEW b \in Element
      PROVE  Mult[a][b] \in Element /\ Mult[a][b] = Mult[b][a] /\ (Mult[a][b] = 0 => a = 0 \/ b = 0)
  <2>1. CASE a = 0 \/ b = 0
    BY <1>1, <2>1, MultPowers
  <2>2. CASE a # 0 /\ b # 0
    <3>1. PICK i \in 0..Order-1 : a = exp[i]
      BY <2>2, PowerOrZero
    <3>2. PICK j \in 0..Order-1 : b = exp[j]
      BY <2>2, PowerOrZero
    <3>3. around(i, j) \in 0..Order-1 /\ Mult[a][b] = exp[around(i, j)] /\ Mult[b][a] = exp[around(j, i)]
      BY <3>1, <3>2, MultPowers
    <3> QED
      BY <1>2, <3>3, AroundLaws
  <2> QED
    BY <2>1, <2>2
<1>4. ASSUME NEW a \in Element, NEW b \in Element, NEW c \in Element
      PROVE  Mult[Mult[a][b]][c] = Mult[a][Mult[b][c]]
  <2>1. CASE a = 0 \/ b = 0 \/ c = 0
    BY <1>1, <1>3, <2>1, MultPowers
  <2>2. CASE a # 0 /\ b # 0 /\ c # 0
    <3>1. PICK i \in 0..Order-1 : a = exp[i]
      BY <2>2, PowerOrZero
    <3>2. PICK j \in 0..Order-1 : b = exp[j]
      BY <2>2, PowerOrZero
    <3>3. PICK l \in 0..Order-1 : c = exp[l]
      BY <2>2, PowerOrZero
    <3>4. around(i, j) \in 0..Order-1 /\ around(j, l) \in 0..Order-1 /\ Mult[a][b] = exp[around(i, j)] /\ Mult[b][c] = exp[around(j, l)]
      BY <3>1, <3>2, <3>3, MultPowers
    <3>5. Mult[Mult[a][b]][c] = exp[around(around(i, j), l)] /\ Mult[a][Mult[b][c]] = exp[around(i, around(j, l))]
      <4> DEFINE u == around(i, j)
                 v == around(j, l)
      <4>1. u \in 0..Order-1 /\ v \in 0..Order-1 /\ Mult[a][b] = exp[u] /\ Mult[b][c] = exp[v]
        BY <3>4
      <4> HIDE DEF u, v
      <4>2. Mult[exp[u]][exp[l]] = exp[around(u, l)] /\ Mult[exp[i]][exp[v]] = exp[around(i, v)]
        BY <4>1, MultPowers
      <4> QED
        BY <3>1, <3>3, <4>1, <4>2 DEF u, v
    <3> QED
      BY <3>5, AroundLaws
  <2> QED
    BY <2>1, <2>2
<1>5. ASSUME NEW a \in Element PROVE Mult[a][1] = a /\ Mult[1][a] = a
  <2>1. CASE a = 0
    BY <1>1, <2>1, MultPowers
  <2>2. CASE a # 0
    <3>1. PICK i \in 0..Order-1 : a = exp[i]
      BY <2>2, PowerOrZero
    <3>2. Mult[1][a] = exp[around(0, i)]
      BY <1>1, <3>1, MultPowers
    <3>3. Mult[1][a] = a
      BY <1>1, <3>1, <3>2, AroundLaws
    <3> QED
      BY <1>1, <1>3, <3>3
  <2> QED
    BY <2>1, <2>2
<1>6. ASSUME NEW a \in Element, NEW b \in Element PROVE Mult[Doubled(a)][b] = Doubled(Mult[a][b])
  <2>1. CASE a = 0 \/ b = 0
    <3>1. Doubled(a) \in Element /\ Doubled(0) = 0
      BY Doubling
    <3> QED
      BY <1>1, <2>1, <3>1, MultPowers
  <2>2. CASE a # 0 /\ b # 0
    <3>1. PICK i \in 0..Order-1 : a = exp[i]
      BY <2>2, PowerOrZero
    <3>2. PICK j \in 0..Order-1 : b = exp[j]
      BY <2>2, PowerOrZero
    <3>3. around(i, j) \in 0..Order-1 /\ Mult[a][b] = exp[around(i, j)]
      BY <3>1, <3>2, MultPowers
    <3>4. Doubled(Mult[a][b]) = exp[after(around(i, j))]
      BY <3>3, ExpAfter
    <3>5. after(i) \in 0..Order-1 /\ Doubled(a) = exp[after(i)]
      BY <3>1, ExpAfter
    <3>6. Mult[Doubled(a)][b] = exp[around(after(i), j)]
      <4> DEFINE k == after(i)
      <4>1. k \in 0..Order-1 /\ Doubled(a) = exp[k]
        BY <3>5
      <4> HIDE DEF k
      <4>2. Mult[exp[k]][exp[j]] = exp[around(k, j)]
        BY <4>1, MultPowers
      <4> QED
        BY <3>2, <4>1, <4>2 DEF k
    <3>7. around(after(i), j) = after(around(i, j))
      BY AroundLaws
    <3> QED
      BY ONLY <3>4, <3>6, <3>7
  <2> QED
    BY <2>1, <2>2
<1>7. \A a \in Element : Mult[a][0] = 0 /\ Mult[0][a] = 0
  BY MultPowers
<1> QED
  BY <1>3, <1>4, <1>5, <1>6, <1>7

\* Mult distributes over Plus.
LEMMA Distributive ==
  \A a, b, c \in Element :
    /\ Mult[a][Plus[b][c]] = Plus[Mult[a][b]][Mult[a][c]]
    /\ Mult[Plus[b][c]][a] = Plus[Mult[b][a]][Mult[c][a]]
<1> DEFINE n == Order - 1
           T == {i \in 0..n : \A b, c \in Element : Mult[exp[i]][Plus[b][c]] = Plus[Mult[exp[i]][b]][Mult[exp[i]][c]]}
<1>1. n \in Nat /\ 0 \in Element /\ 1 \in Element
  BY ElementsAreWords
<1>2. exp[0] = 1 /\ \A i \in 1..n : exp[i] = Doubled(exp[i - 1]) /\ i - 1 \in 0..n /\ i \in 0..n
  BY <1>1, ExpSteps
<1>3. \A i \in 0..n : exp[i] \in Element
  BY ExpSteps
<1>4. \A b, c \in Element : Plus[b][c] \in Element
  BY PlusLaws
<1>5. 0 \in T
  <2>1. ASSUME NEW b \in Element, NEW c \in Element
        PROVE  Mult[exp[0]][Plus[b][c]] = Plus[Mult[exp[0]][b]][Mult[exp[0]][c]]
    <3>1. Plus[b][c] \in Element /\ \A x \in Element : Mult[1][x] = x
      BY <1>4, MultLaws
    <3> QED
      BY <1>2, <3>1
  <2> QED
    BY <1>1, <2>1
<1>6. ASSUME NEW i \in 1..n, i - 1 \in T PROVE i \in T
  <2> DEFINE e == exp[i - 1]
  <2>1. e \in Element /\ exp[i] = Doubled(e) /\ i \in 0..n
    BY <1>2, <1>3
  <2>2. \A b, c \in Element : Mult[e][Plus[b][c]] = Plus[Mult[e][b]][Mult[e][c]]
    BY <1>6
  <2> HIDE DEF e, n
  <2>3. ASSUME NEW b \in Element, NEW c \in Element
        PROVE  Mult[exp[i]][Plus[b][c]] = Plus[Mult[exp[i]][b]][Mult[exp[i]][c]]
    <3>1. \A x \in Element : Mult[exp[i]][x] = Doubled(Mult[e][x]) /\ Mult[e][x] \in Element
      BY <2>1, MultLaws
    <3>2. ASSUME NEW x \in Element, NEW y \in Element
          PROVE  Doubled(Plus[x][y]) = Plus[Doubled(x)][Doubled(y)]
      <4>1. Plus[x][y] = xor(x, y) /\ Doubled(xor(x, y)) = xor(Doubled(x), Doubled(y))
        BY Doubling, PlusLaws
      <4>2. Doubled(x) \in Element /\ Doubled(y) \in Element
        BY Doubling
      <4>3. Plus[Doubled(x)][Doubled(y)] = xor(Doubled(x), Doubled(y))
        BY <4>2, PlusLaws
      <4> QED
        BY <4>1, <4>3
    <3> DEFINE x == Mult[e][b]
               y == Mult[e][c]
               z == Plus[b][c]
    <3>3. x \in Element /\ y \in Element /\ Mult[exp[i]][b] = Doubled(x) /\ Mult[exp[i]][c] = Doubled(y)
      BY <3>1
    <3>4. Mult[exp[i]][z] = Doubled(Mult[e][z]) /\ Mult[e][z] = Plus[x][y]
      BY <1>4, <2>2, <3>1
    <3> HIDE DEF x, y, z
    <3>5. Mult[exp[i]][z] = Plus[Mult[exp[i]][b]][Mult[exp[i]][c]]
      BY <3>2, <3>3, <3>4
    <3> QED
      BY <3>5 DEF z
  <2> QED
    BY <2>1, <2>3
<1>7. \A i \in 0..n : i \in T
  <2> HIDE DEF T, n
  <2> QED
    BY <1>1, <1>5, <1>6, StepsKeep
<1>8. ASSUME NEW a \in Element, NEW b \in Element, NEW c \in Element
      PROVE  Mult[a][Plus[b][c]] = Plus[Mult[a][b]][Mult[a][c]]
  <2>1. CASE a = 0
    <3>1. Plus[b][c] \in Element /\ Plus[0][0] = 0
      BY <1>1, PlusLaws
    <3>2. \A x \in Element : Mult[0][x] = 0
      BY MultLaws
    <3> QED
      BY <2>1, <3>1, <3>2
  <2>2. CASE a # 0
    <3>1. PICK i \in 0..n : a = exp[i]
      BY <2>2, PowerOrZero
    <3> QED
      BY <1>7, <3>1
  <2> QED
    BY <2>1, <2>2
<1>9. ASSUME NEW a \in Element, NEW b \in Element, NEW c \in Element
      PROVE  Mult[Plus[b][c]][a] = Plus[Mult[b][a]][Mult[c][a]]
  <2> DEFINE z == Plus[b][c]
  <2>1. z \in Element /\ Mult[a][z] = Plus[Mult[a][b]][Mult[a][c]]
    BY <1>4, <1>8
  <2> HIDE DEF z
  <2>2. Mult[a][z] = Mult[z][a] /\ Mult[a][b] = Mult[b][a] /\ Mult[a][c] = Mult[c][a]
    BY <2>1, MultLaws
  <2>3. Mult[z][a] = Plus[Mult[b][a]][Mult[c][a]]
    BY <2>1, <2>2
  <2> QED
    BY <2>3 DEF z
<1> QED
  BY <1>8, <1>9

\* inv inverts.
LEMMA InverseLaws ==
  /\ \A a \in Element : inv[a] \in Element
  /\ \A a \in Element \ {0} : Mult[a][inv[a]] = 1 /\ Mult[inv[a]][a] = 1
<1>1. Order \in Nat /\ Order >= 3 /\ Element \subseteq Nat /\ 0 \in Element /\ 1 \in Element
  BY ElementsAreWords
<1>2. ASSUME NEW a \in Element, a < 2 PROVE inv[a] = a
  BY <1>2 DEF inv
<1>3. ASSUME NEW a \in Element, ~(a < 2)
      PROVE  inv[a] \in Element /\ Mult[a][inv[a]] = 1
  <2> DEFINE i == log[a]
             j == Order - i
  <2>1. inv[a] = exp[j]
    BY <1>3 DEF inv
  <2>2. i \in 0..Order-1 /\ exp[i] = a /\ exp[0] = 1 /\ a # 1
    BY <1>1, <1>3, LogLaws, ExpSteps
  <2> HIDE DEF i
  <2>3. i # 0 /\ j \in 0..Order-1
    BY <1>1, <2>2
  <2>4. Mult[exp[i]][exp[j]] = exp[around(i, j)]
    BY <2>2, <2>3, MultPowers
  <2>5. around(i, j) = 0
    BY <1>1, <2>2, <2>3 DEF around
  <2>6. exp[j] \in Element
    BY <2>3, ExpSteps
  <2> QED
    BY <2>1, <2>2, <2>4, <2>5, <2>6
<1>4. ASSUME NEW a \in Element \ {0} PROVE inv[a] \in Element /\ Mult[a][inv[a]] = 1
  <2>1. CASE a < 2
    <3>1. a = 1
      BY <1>1, <2>1
    <3> QED
      BY <1>1, <1>2, <2>1, <3>1, MultLaws
  <2>2. CASE ~(a < 2)
    BY <1>3, <2>2
  <2> QED
    BY <2>1, <2>2
<1>5. inv[0] = 0
  BY <1>1, <1>2
<1>6. \A a \in Element : inv[a] \in Element
  BY <1>1, <1>4, <1>5
<1>7. \A a \in Element \ {0} : Mult[inv[a]][a] = 1
  BY <1>4, MultLaws
<1> QED
  BY <1>4, <1>6, <1>7

\* Shifting is multiplying by a power of 2, before and after taking the remainder.
LEMMA PowersShift ==
  ASSUME NEW b \in Element, NEW i \in 0..Width-1
  PROVE  /\ shifted[i] \in Element /\ remainder(b * shifted[i]) \in Element
         /\ Mult[shifted[i]][b] = remainder(b * shifted[i])
<1> DEFINE n == Width - 1
           T == {j \in 0..n : /\ shifted[j] \in Element /\ remainder(b * shifted[j]) \in Element
                              /\ Mult[shifted[j]][b] = remainder(b * shifted[j])}
<1>1. Width \in Nat /\ Width >= 2 /\ n \in Nat /\ shifted[0] = 1 /\ 1 \in Element /\ Element = Word(Width)
  BY Shifts, ElementsAreWords
<1>2. 0 \in T
  <2>1. b * shifted[0] = b /\ remainder(b) = b
    BY <1>1, ShiftedElement, RemainderShort
  <2>2. Mult[1][b] = b
    BY MultLaws
  <2>3. shifted[0] \in Element /\ remainder(b * shifted[0]) = b /\ Mult[shifted[0]][b] = b
    BY <1>1, <2>1, <2>2
  <2> QED
    BY <1>1, <2>3
<1>3. ASSUME NEW j \in 1..n, j - 1 \in T PROVE j \in T
  <2> DEFINE m == j - 1
             v == b * shifted[m]
             s == shifted[m]
  <2>1. /\ m \in 0..Width /\ m < Width /\ m + 1 = j /\ m \in 0..2*Width /\ j \in 0..n /\ Width + m \in 0..2*Width+1
        /\ 2*Width-1 \in 0..2*Width+1 /\ Width + m <= 2*Width-1 /\ m \in 0..2*Width+1 /\ j \in 0..2*Width+1
        /\ j < Width /\ Width \in 0..2*Width+1
    BY <1>1
  <2>2. s \in Element /\ remainder(v) \in Element /\ Mult[s][b] = remainder(v)
    BY <1>3
  <2>3. v \in Word(Width + m) /\ b * shifted[j] = 2 * v /\ shifted[j] = 2 * s /\ s \in Nat
    <3>1. v \in Word(Width + m) /\ b * shifted[m + 1] = 2 * v
      BY <2>1, ShiftedElement
    <3>2. shifted[m + 1] = 2 * s /\ s \in Nat
      BY <2>1, Shifts
    <3> QED
      BY <2>1, <3>1, <3>2
  <2>4. v \in Word(2*Width-1)
    BY <2>1, <2>3, WordsGrow, SMTT(30)
  <2> HIDE DEF v, s, m
  <2>5. remainder(2 * v) = Doubled(remainder(v))
    BY <2>4, RemainderDouble DEF Doubled
  <2>6. 2 * s \in Element /\ remainder(2 * s) = 2 * s
    <3>1. shifted[j] \in Nat /\ shifted[j] < shifted[Width] /\ shifted[Width] \in Nat
      BY <2>1, Shifts
    <3>2. 2 * s \in Word(Width)
      BY <2>3, <3>1 DEF Word
    <3> QED
      BY <1>1, <3>2, RemainderShort
  <2>7. Doubled(s) = 2 * s
    BY <2>6 DEF Doubled
  <2>8. Mult[2 * s][b] = Doubled(Mult[s][b])
    BY <2>2, <2>7, MultLaws
  <2>9. Doubled(remainder(v)) \in Element
    BY <2>2, Doubling
  <2> QED
    BY <2>1, <2>2, <2>3, <2>5, <2>6, <2>8, <2>9
<1>4. i \in T
  <2>1. i \in 0..n
    BY <1>1
  <2> HIDE DEF T, n
  <2> QED
    BY <1>1, <1>2, <1>3, <2>1, StepsKeep
<1> QED
  BY <1>4

\* The tables multiply as the field does.
LEMMA TimesIsMult == \A a, b \in Element : Times[a][b] = Mult[a][b]
<1>1. SUFFICES ASSUME NEW a \in Element, NEW b \in Element PROVE Times[a][b] = Mult[a][b]
  OBVIOUS
<1>2. /\ Width \in Nat /\ Width \in 0..2*Width /\ Element = Word(Width) /\ 0 \in Element /\ a \in Nat
      /\ Element \subseteq Word(2*Width) /\ Width \in 0..2*Width+1
  BY Shifts, ElementsAreWords
<1>3. PICK s \in [0..Width -> Word(2*Width)] : Multiplication(s, a, b) /\ product(a, b) = s[Width]
  BY ProductRecursion
<1> DEFINE T == {i \in 0..Width : a % shifted[i] \in Element /\ remainder(s[i]) = Mult[a % shifted[i]][b]}
<1>4. 0 \in T
  <2>1. shifted[0] = 1 /\ a % 1 = 0
    BY <1>2, Shifts
  <2>2. s[0] = 0 /\ remainder(0) = 0 /\ Mult[0][b] = 0
    BY <1>2, <1>3, RemainderShort, MultLaws DEF Multiplication
  <2>3. a % shifted[0] = 0
    BY <2>1
  <2> QED
    BY <1>2, <2>2, <2>3
<1>5. ASSUME NEW i \in 1..Width, i - 1 \in T PROVE i \in T
  <2> DEFINE j == i - 1
             p == shifted[j]
             r == a % p
             v == b * p
             u == s[j]
  <2>1. j \in 0..Width-1 /\ j + 1 = i /\ i \in 0..Width /\ j \in 0..2*Width-1 /\ j \in 0..2*Width /\ j \in 0..Width
        /\ Width + j \in 0..2*Width+1 /\ Width + j <= 2*Width /\ 2*Width \in 0..2*Width+1 /\ i \in 0..2*Width+1 /\ i <= Width
    BY <1>2
  <2>2. r \in Element /\ remainder(u) = Mult[r][b] /\ u \in Word(2*Width)
    BY <1>3, <1>5, <2>1
  <2>3. s[i] = xor(u, IF bit(a, j) = 1 THEN v ELSE 0)
    BY <1>3 DEF Multiplication
  <2>4. bit(a, j) \in {0, 1} /\ a % shifted[j + 1] = r + p * bit(a, j) /\ r \in 0..p-1
    BY <1>2, <2>1, LowBits
  <2>5. p \in Element /\ remainder(v) \in Element /\ Mult[p][b] = remainder(v)
    BY <2>1, PowersShift
  <2>6. v \in Word(2*Width)
    <3>1. v \in Word(Width + j)
      BY <2>1, ShiftedElement
    <3> HIDE DEF v
    <3> QED
      BY <2>1, <3>1, WordsGrow
  <2>7. p \in Nat
    BY <1>2, <2>5, ElementsAreWords
  <2>8. xor(r, p) = r + p /\ xor(r, p) \in Element
    <3>1. r \in Word(j)
      BY <2>4 DEF Word
    <3> QED
      BY <2>1, <2>2, <2>5, <3>1, XorAbove, Doubling
  <2>9. r \in Nat
    BY <2>4, <2>7
  <2> HIDE DEF r, v, u, p, j
  <2>10. CASE bit(a, j) = 1
    <3>1. s[i] = xor(u, v) /\ a % shifted[i] = xor(r, p)
      BY <2>1, <2>3, <2>4, <2>7, <2>8, <2>9, <2>10
    <3>2. remainder(xor(u, v)) = xor(remainder(u), remainder(v))
      BY <2>2, <2>6, RemainderLinear
    <3>3. Mult[xor(r, p)][b] = Plus[Mult[r][b]][Mult[p][b]]
      <4>1. Plus[r][p] = xor(r, p)
        BY <2>2, <2>5, PlusLaws
      <4>2. Mult[Plus[r][p]][b] = Plus[Mult[r][b]][Mult[p][b]]
        BY <2>2, <2>5, Distributive
      <4> QED
        BY <4>1, <4>2
    <3>4. Plus[Mult[r][b]][Mult[p][b]] = xor(Mult[r][b], Mult[p][b])
      BY <2>2, <2>5, MultLaws, PlusLaws
    <3> QED
      BY <2>1, <2>2, <2>5, <2>8, <3>1, <3>2, <3>3, <3>4, SMTT(30)
  <2>11. CASE bit(a, j) = 0
    <3>1. s[i] = xor(u, 0) /\ xor(u, 0) = u
      BY <2>2, <2>3, <2>11, XorLaws
    <3>2. a % shifted[i] = r
      BY <2>1, <2>4, <2>7, <2>9, <2>11
    <3> QED
      BY <2>1, <2>2, <3>1, <3>2
  <2> QED
    BY <2>4, <2>10, <2>11
<1>6. Width \in T
  <2>1. Width \in 0..Width
    BY <1>2
  <2> HIDE DEF T
  <2> QED
    BY <1>2, <1>4, <1>5, <2>1, StepsKeep
<1>7. a % shifted[Width] = a
  BY <1>2, WordRest
<1>8. Times[a][b] = remainder(product(a, b))
  BY DEF Times, galois_multiply
<1> QED
  BY <1>3, <1>6, <1>7, <1>8

\* For every field with a primitive characteristic polynomial, the tables of
\* logarithms multiply as polynomials over Z_2 do, and inv inverts (lines 14-56).
THEOREM TablesCorrect == TablesRight
<1>1. \A a, b \in Element : Mult[a][b] = Times[a][b]
  BY TimesIsMult
<1>2. \A a \in Element \ {0} : Times[a][inv[a]] = 1
  BY TimesIsMult, InverseLaws
<1> QED
  BY <1>1, <1>2 DEF TablesRight

\* The operations of the field.
a ++ b == Plus[a][b]
a ** b == Mult[a][b]

\* The laws of the field.
LEMMA FieldLaws ==
  /\ 0 \in Element /\ 1 \in Element /\ 0 # 1
  /\ \A a, b \in Element : a ++ b \in Element /\ a ** b \in Element /\ a ++ b = b ++ a /\ a ** b = b ** a
  /\ \A a, b, c \in Element : (a ++ b) ++ c = a ++ (b ++ c)
  /\ \A a, b, c \in Element : (a ** b) ** c = a ** (b ** c)
  /\ \A a, b, c \in Element : a ** (b ++ c) = (a ** b) ++ (a ** c) /\ (b ++ c) ** a = (b ** a) ++ (c ** a)
  /\ \A a \in Element : a ++ 0 = a /\ 0 ++ a = a /\ a ++ a = 0
  /\ \A a \in Element : a ** 1 = a /\ 1 ** a = a /\ a ** 0 = 0 /\ 0 ** a = 0
  /\ \A a \in Element : inv[a] \in Element /\ (a # 0 => a ** inv[a] = 1)
<1>1. 0 \in Element /\ 1 \in Element /\ 0 # 1
  BY ElementsAreWords
<1>2. \A a, b \in Element : a ++ b \in Element /\ a ** b \in Element /\ a ++ b = b ++ a /\ a ** b = b ** a
  BY PlusLaws, MultLaws DEF ++, **
<1>3. \A a, b, c \in Element : (a ++ b) ++ c = a ++ (b ++ c)
  BY PlusLaws DEF ++
<1>4. \A a, b, c \in Element : (a ** b) ** c = a ** (b ** c)
  BY MultLaws DEF **
<1>5. \A a, b, c \in Element : a ** (b ++ c) = (a ** b) ++ (a ** c) /\ (b ++ c) ** a = (b ** a) ++ (c ** a)
  BY Distributive DEF ++, **
<1>6. \A a \in Element : a ++ 0 = a /\ 0 ++ a = a /\ a ++ a = 0
  BY PlusLaws DEF ++
<1>7. \A a \in Element : a ** 1 = a /\ 1 ** a = a /\ a ** 0 = 0 /\ 0 ** a = 0
  BY MultLaws DEF **
<1>8. \A a \in Element : inv[a] \in Element /\ (a # 0 => a ** inv[a] = 1)
  BY InverseLaws DEF **
<1> QED
  BY <1>1, <1>2, <1>3, <1>4, <1>5, <1>6, <1>7, <1>8

\* What is useful of them.
LEMMA FieldFacts ==
  /\ \A a, b, c, d \in Element : (a ++ b) ++ (c ++ d) = (a ++ c) ++ (b ++ d)
  /\ \A a, b \in Element : a ++ (a ++ b) = b /\ (a ++ b = 0 => a = b)
  /\ \A a, b \in Element : a ** b = 0 => a = 0 \/ b = 0
<1>1. ASSUME NEW a \in Element, NEW b \in Element, NEW c \in Element, NEW d \in Element
      PROVE  (a ++ b) ++ (c ++ d) = (a ++ c) ++ (b ++ d)
  <2>1. b ++ c \in Element /\ c ++ d \in Element /\ b ++ d \in Element /\ b ++ c = c ++ b
    BY FieldLaws
  <2>2. (a ++ b) ++ (c ++ d) = a ++ (b ++ (c ++ d))
    BY <2>1, FieldLaws
  <2>3. b ++ (c ++ d) = (b ++ c) ++ d /\ (c ++ b) ++ d = c ++ (b ++ d)
    BY <2>1, FieldLaws
  <2>4. a ++ (c ++ (b ++ d)) = (a ++ c) ++ (b ++ d)
    BY <2>1, FieldLaws
  <2> QED
    BY <2>1, <2>2, <2>3, <2>4
<1>2. ASSUME NEW a \in Element, NEW b \in Element
      PROVE  a ++ (a ++ b) = b /\ (a ++ b = 0 => a = b)
  <2>1. a ++ (a ++ b) = (a ++ a) ++ b /\ a ++ a = 0 /\ 0 ++ b = b /\ a ++ 0 = a
    BY FieldLaws
  <2> QED
    BY <2>1
<1>3. ASSUME NEW a \in Element, NEW b \in Element, a ** b = 0, a # 0 PROVE b = 0
  <2>1. inv[a] \in Element /\ inv[a] ** a = 1
    BY <1>3, FieldLaws
  <2>2. inv[a] ** (a ** b) = (inv[a] ** a) ** b
    <3> DEFINE u == inv[a]
    <3>1. u \in Element
      BY <2>1
    <3> HIDE DEF u
    <3>2. (u ** a) ** b = u ** (a ** b)
      BY ONLY <3>1, a \in Element, b \in Element, FieldLaws
    <3> QED
      BY <3>2 DEF u
  <2>3. 1 ** b = b /\ inv[a] ** 0 = 0
    BY <2>1, FieldLaws
  <2> QED
    BY <1>3, <2>1, <2>2, <2>3
<1> QED
  BY <1>1, <1>2, <1>3

-----------------------------------------------------------------------------
(* Polynomials.                                                            *)

\* h[i] holds the values of the polynomial of the first i coefficients.
Evaluates(h, coef, m) ==
  /\ h[0] = [x \in Element |-> 0]
  /\ \A i \in 1..m : h[i] = [x \in Element |-> (h[i - 1][x] ** x) ++ coef[i]]

\* The functions that are polynomials of degree < m.
Pol(m) == {f \in [Element -> Element] :
             \E coef \in [1..m -> Element] : \E h : Evaluates(h, coef, m) /\ f = h[m]}

LEMMA EvaluatesTyped ==
  ASSUME NEW m \in Nat, NEW coef \in [1..m -> Element], NEW h, Evaluates(h, coef, m)
  PROVE  \A i \in 0..m : h[i] \in [Element -> Element]
<1> DEFINE T == {i \in 0..m : h[i] \in [Element -> Element]}
<1>1. 0 \in T
  BY FieldLaws DEF Evaluates
<1>2. ASSUME NEW i \in 1..m, i - 1 \in T PROVE i \in T
  <2>1. h[i] = [x \in Element |-> (h[i - 1][x] ** x) ++ coef[i]]
    BY DEF Evaluates
  <2>2. coef[i] \in Element /\ \A x \in Element : h[i - 1][x] \in Element
    BY <1>2
  <2>3. \A x \in Element : (h[i - 1][x] ** x) ++ coef[i] \in Element
    BY <2>2, FieldLaws
  <2> QED
    BY <2>1, <2>3
<1> HIDE DEF T
<1>3. \A i \in 0..m : i \in T
  BY <1>1, <1>2, StepsKeep
<1> QED
  BY <1>3 DEF T

\* All coefficients can be evaluated.
LEMMA EvaluatesExists ==
  ASSUME NEW m \in Nat, NEW coef \in [1..m -> Element]
  PROVE  \E h : Evaluates(h, coef, m)
<1> DEFINE R == [Element -> Element]
           zero == [x \in Element |-> 0]
           G == [i \in 1..m |-> [g \in R |-> [x \in Element |-> (g[x] ** x) ++ coef[i]]]]
<1>1. zero \in R
  BY FieldLaws
<1>2. StepMaps(G, m, R)
  <2>1. ASSUME NEW i \in 1..m, NEW g \in R
        PROVE  [x \in Element |-> (g[x] ** x) ++ coef[i]] \in R
    <3>1. coef[i] \in Element /\ \A x \in Element : g[x] \in Element
      OBVIOUS
    <3>2. \A x \in Element : (g[x] ** x) ++ coef[i] \in Element
      BY <3>1, FieldLaws
    <3> QED
      BY <3>2
  <2> HIDE DEF R
  <2> QED
    BY <2>1 DEF StepMaps
<1>3. PICK h \in [0..m -> R] : Takes(h, G, m, zero)
  <2> HIDE DEF G, R, zero
  <2> QED
    BY <1>1, <1>2, StepsExist
<1>4. h[0] = zero
  BY <1>3 DEF Takes
<1>5. ASSUME NEW i \in 1..m PROVE h[i] = [x \in Element |-> (h[i - 1][x] ** x) ++ coef[i]]
  <2>1. i - 1 \in 0..m
    OBVIOUS
  <2>2. h[i - 1] \in R
    <3> HIDE DEF R
    <3> QED
      BY <2>1
  <2>3. h[i] = G[i][h[i - 1]]
    BY <1>3 DEF Takes
  <2> HIDE DEF R
  <2> QED
    BY <2>2, <2>3
<1>6. Evaluates(h, coef, m)
  BY <1>4, <1>5 DEF Evaluates
<1> QED
  BY <1>6

\* it is the function the fold of ValueAt is defined by.
ValueFolds(it, coef, x) ==
  it = [s \in SUBSET (DOMAIN coef) |->
          IF s = {} THEN 0 ELSE Plus[Times[it[s \ {Max(s)}]][x]][coef[Max(s)]]]

LEMMA ValueAtUnfolds ==
  ASSUME NEW coef, NEW x
  PROVE  ValueAt(coef, x) = (CHOOSE it : ValueFolds(it, coef, x))[DOMAIN coef]
  BY DEF ValueAt, FoldLeft, MapThenFoldSet, ValueFolds

\* The largest number of a finite set.
LEMMA LargestIs ==
  ASSUME NEW m \in Nat
  PROVE  /\ \A s \in SUBSET (1..m) : s # {} => Max(s) \in s
         /\ \A n \in 1..m : Max(1..n) = n
<1>1. ASSUME NEW s \in SUBSET (1..m), s # {} PROVE Max(s) \in s
  <2>1. PICK x : x \in s /\ \A y \in s : y <= x
    <3>1. s \in SUBSET Nat /\ \A x \in s : x <= m
      OBVIOUS
    <3> QED
      BY <1>1, <3>1, GreatestNat
  <2>2. \E y \in s : \A z \in s : y >= z
    BY <2>1
  <2> QED
    BY <2>2 DEF Max
<1>2. ASSUME NEW n \in 1..m PROVE Max(1..n) = n
  <2>1. n \in 1..n /\ 1..n # {} /\ 1..n \in SUBSET (1..m) /\ \A y \in 1..n : n >= y
    OBVIOUS
  <2>2. \E y \in 1..n : \A z \in 1..n : y >= z
    BY <2>1
  <2>3. Max(1..n) \in 1..n /\ \A z \in 1..n : Max(1..n) >= z
    BY <2>2 DEF Max
  <2> QED
    BY <2>1, <2>3
<1> QED
  BY <1>1, <1>2

\* ValueAt is the last of those values.
LEMMA ValueAtIs ==
  ASSUME NEW m \in Nat, NEW coef \in [1..m -> Element], NEW h, Evaluates(h, coef, m), NEW x \in Element
  PROVE  ValueAt(coef, x) = h[m][x]
<1> DEFINE D == 1..m
           R == Element
           G == [i \in D |-> [r \in R |-> (r ** x) ++ coef[i]]]
           c == [s \in SUBSET D |-> Max(s)]
           it == CHOOSE it : ValueFolds(it, coef, x)
<1>0. IsFiniteSet(D) /\ DOMAIN coef = D
  BY FS_Interval
<1>1. \A i \in D : \A r \in R : (r ** x) ++ coef[i] \in R
  <2>1. \A i \in D : coef[i] \in R
    OBVIOUS
  <2> QED
    BY <2>1, FieldLaws
<1>2. \A s \in SUBSET D : s # {} => Max(s) \in s
  BY LargestIs
<1> HIDE DEF R
<1>3. PICK jt \in [SUBSET D -> R] : FoldsWith(jt, G, c, 0, D)
  <2>1. 0 \in R /\ G \in [D -> [R -> R]]
    BY <1>1, FieldLaws DEF R
  <2>2. Chooses(c, D)
    BY <1>2 DEF Chooses
  <2> HIDE DEF D, G, c
  <2> QED
    BY <1>0, <2>1, <2>2, FoldWithExists
<1>4. ASSUME NEW s \in SUBSET D, s # {}
      PROVE  G[c[s]][jt[s \ {c[s]}]] = Plus[Times[jt[s \ {Max(s)}]][x]][coef[Max(s)]]
  <2>1. c[s] = Max(s) /\ Max(s) \in D /\ s \ {Max(s)} \in SUBSET D
    BY <1>2, <1>4
  <2>2. jt[s \ {Max(s)}] \in R
    BY <1>3, <2>1
  <2>3. G[Max(s)] = [r \in R |-> (r ** x) ++ coef[Max(s)]]
    BY <2>1
  <2> HIDE DEF G, c, D
  <2>4. G[Max(s)][jt[s \ {Max(s)}]] = (jt[s \ {Max(s)}] ** x) ++ coef[Max(s)]
    BY <2>2, <2>3
  <2>5. Times[jt[s \ {Max(s)}]][x] = Mult[jt[s \ {Max(s)}]][x]
    BY <2>2, TimesIsMult DEF R
  <2> QED
    BY <2>1, <2>4, <2>5 DEF ++, **
<1>5. ValueFolds(jt, coef, x)
  <2>1. jt = [s \in SUBSET D |-> IF s = {} THEN 0 ELSE G[c[s]][jt[s \ {c[s]}]]]
    BY <1>3 DEF FoldsWith
  <2>2. jt = [s \in SUBSET D |-> IF s = {} THEN 0 ELSE Plus[Times[jt[s \ {Max(s)}]][x]][coef[Max(s)]]]
    <3> HIDE DEF D, G, c
    <3> QED
      BY <1>4, <2>1
  <2> QED
    BY <1>0, <2>2 DEF ValueFolds
<1>6. ValueFolds(it, coef, x)
  BY <1>5
<1> HIDE DEF it
<1>7. \A s \in SUBSET D : it[s] = IF s = {} THEN 0 ELSE Plus[Times[it[s \ {Max(s)}]][x]][coef[Max(s)]]
  BY <1>0, <1>6 DEF ValueFolds
<1>8. ValueAt(coef, x) = it[1..m]
  BY <1>0, ValueAtUnfolds DEF it
<1> DEFINE T == {n \in 0..m : it[1..n] = h[n][x] /\ it[1..n] \in Element}
<1>9. 0 \in T
  <2>1. 1..0 = {} /\ 1..0 \in SUBSET D
    OBVIOUS
  <2>2. it[1..0] = 0
    BY <1>7, <2>1
  <2>3. h[0][x] = 0
    BY DEF Evaluates
  <2>4. 0 \in 0..m /\ 0 \in Element
    BY FieldLaws
  <2> QED
    BY <2>2, <2>3, <2>4
<1>10. ASSUME NEW n \in 1..m, n - 1 \in T PROVE n \in T
  <2>0. 1..n \in SUBSET D /\ 1..n # {} /\ (1..n) \ {n} = 1..n-1 /\ n \in 0..m /\ n \in D
    OBVIOUS
  <2>1. Max(1..n) = n
    BY LargestIs
  <2>2. it[1..n] = Plus[Times[it[1..n-1]][x]][coef[n]]
    <3> HIDE DEF D
    <3> QED
      BY <1>7, <2>0, <2>1
  <2>3. it[1..n-1] = h[n - 1][x] /\ it[1..n-1] \in Element
    BY <1>10
  <2>4. Times[it[1..n-1]][x] = Mult[it[1..n-1]][x]
    BY <2>3, TimesIsMult
  <2>5. it[1..n] = (h[n - 1][x] ** x) ++ coef[n]
    BY <2>2, <2>3, <2>4 DEF ++, **
  <2>6. h[n][x] = (h[n - 1][x] ** x) ++ coef[n]
    <3>1. h[n] = [y \in Element |-> (h[n - 1][y] ** y) ++ coef[n]]
      BY DEF Evaluates
    <3> QED
      BY <3>1
  <2>7. h[n][x] \in Element
    BY <2>0, EvaluatesTyped
  <2> QED
    BY <2>0, <2>5, <2>6, <2>7
<1> HIDE DEF T
<1>11. \A n \in 0..m : n \in T
  BY <1>9, <1>10, StepsKeep
<1> QED
  BY <1>8, <1>11 DEF T

\* There is one polynomial without coefficients; one more coefficient multiplies by x
\* and adds it.
LEMMA PolNext ==
  /\ \A f : f \in Pol(0) <=> f = [x \in Element |-> 0]
  /\ \A m \in Nat : \A f : f \in Pol(m + 1) <=>
       f \in [Element -> Element] /\ \E g \in Pol(m), a \in Element : \A x \in Element : f[x] = (g[x] ** x) ++ a
<1> DEFINE zero == [x \in Element |-> 0]
<1>1. ASSUME NEW f, f \in Pol(0) PROVE f = zero
  <2>0. PICK coef \in [1..0 -> Element] : \E h : Evaluates(h, coef, 0) /\ f = h[0]
    BY <1>1 DEF Pol
  <2>1. PICK h : Evaluates(h, coef, 0) /\ f = h[0]
    BY <2>0
  <2> QED
    BY <2>1 DEF Evaluates
<1>2. zero \in Pol(0)
  <2> DEFINE coef == [i \in 1..0 |-> 0]
             h == [i \in 0..0 |-> zero]
  <2>1. zero \in [Element -> Element] /\ coef \in [1..0 -> Element] /\ h[0] = zero
    BY FieldLaws
  <2>2. Evaluates(h, coef, 0)
    <3>1. \A i \in 1..0 : FALSE
      OBVIOUS
    <3> HIDE DEF h, coef
    <3> QED
      BY <2>1, <3>1 DEF Evaluates
  <2> HIDE DEF h, coef, zero
  <2> QED
    BY <2>1, <2>2 DEF Pol
<1>3. ASSUME NEW m \in Nat, NEW f, f \in Pol(m + 1)
      PROVE  f \in [Element -> Element] /\ \E g \in Pol(m), a \in Element : \A x \in Element : f[x] = (g[x] ** x) ++ a
  <2>0. PICK coef \in [1..m+1 -> Element] : \E h : Evaluates(h, coef, m + 1) /\ f = h[m + 1] /\ f \in [Element -> Element]
    BY <1>3 DEF Pol
  <2>1. PICK h : Evaluates(h, coef, m + 1) /\ f = h[m + 1] /\ f \in [Element -> Element]
    BY <2>0
  <2> DEFINE c == [i \in 1..m |-> coef[i]]
             g == h[m]
             a == coef[m + 1]
  <2>2. c \in [1..m -> Element] /\ a \in Element /\ m + 1 \in 1..m+1 /\ (m + 1) - 1 = m /\ m \in 0..m /\ m \in 0..m+1
    OBVIOUS
  <2>3. Evaluates(h, c, m)
    <3>1. ASSUME NEW i \in 1..m PROVE h[i] = [x \in Element |-> (h[i - 1][x] ** x) ++ c[i]]
      <4>1. i \in 1..m+1 /\ c[i] = coef[i]
        OBVIOUS
      <4> HIDE DEF c
      <4> QED
        BY <2>1, <4>1 DEF Evaluates
    <3> QED
      BY <2>1, <3>1 DEF Evaluates
  <2> HIDE DEF c
  <2>4. g \in [Element -> Element]
    BY <2>2, <2>3, EvaluatesTyped
  <2>5. g \in Pol(m)
    BY <2>2, <2>3, <2>4 DEF Pol
  <2>6. f = [x \in Element |-> (g[x] ** x) ++ a]
    BY <2>1, <2>2 DEF Evaluates
  <2>7. \A x \in Element : f[x] = (g[x] ** x) ++ a
    <3> HIDE DEF g, a
    <3> QED
      BY <2>6
  <2> HIDE DEF g, a
  <2> QED
    BY <2>1, <2>2, <2>5, <2>7
<1>4. ASSUME NEW m \in Nat, NEW f \in [Element -> Element], NEW g \in Pol(m), NEW a \in Element,
             \A x \in Element : f[x] = (g[x] ** x) ++ a
      PROVE  f \in Pol(m + 1)
  <2>0. PICK coef \in [1..m -> Element] : \E h : Evaluates(h, coef, m) /\ g = h[m]
    BY DEF Pol
  <2>1. PICK h : Evaluates(h, coef, m) /\ g = h[m]
    BY <2>0
  <2> DEFINE c == [i \in 1..m+1 |-> IF i = m + 1 THEN a ELSE coef[i]]
             k == [i \in 0..m+1 |-> IF i = m + 1 THEN f ELSE h[i]]
  <2>2. c \in [1..m+1 -> Element]
    <3>1. ASSUME NEW i \in 1..m+1 PROVE (IF i = m + 1 THEN a ELSE coef[i]) \in Element
      <4>1. i = m + 1 \/ i \in 1..m
        OBVIOUS
      <4> QED
        BY <4>1
    <3> QED
      BY <3>1
  <2>3. k[m + 1] = f /\ c[m + 1] = a
    OBVIOUS
  <2>4. ASSUME NEW i \in 1..m PROVE k[i] = h[i] /\ c[i] = coef[i] /\ k[i - 1] = h[i - 1]
    OBVIOUS
  <2>5. k[0] = h[0] /\ k[m] = g
    BY <2>1
  <2> HIDE DEF k, c
  <2>6. f = [x \in Element |-> (g[x] ** x) ++ a]
    BY <1>4
  <2>7. ASSUME NEW i \in 1..m+1 PROVE k[i] = [x \in Element |-> (k[i - 1][x] ** x) ++ c[i]]
    <3>1. CASE i = m + 1
      <4>1. i - 1 = m
        BY <3>1
      <4> QED
        BY <2>3, <2>5, <2>6, <3>1, <4>1
    <3>2. CASE i # m + 1
      <4>1. i \in 1..m
        BY <3>2
      <4>2. h[i] = [x \in Element |-> (h[i - 1][x] ** x) ++ coef[i]]
        BY <2>1, <4>1 DEF Evaluates
      <4> QED
        BY <2>4, <4>1, <4>2
    <3> QED
      BY <3>1, <3>2
  <2>8. Evaluates(k, c, m + 1)
    BY <2>1, <2>5, <2>7 DEF Evaluates
  <2> QED
    BY <2>2, <2>3, <2>8 DEF Pol
<1>5. \A f : f \in Pol(0) <=> f = zero
  <2> HIDE DEF zero
  <2> QED
    BY <1>1, <1>2
<1>6. \A m \in Nat : \A f : f \in Pol(m + 1) <=>
       f \in [Element -> Element] /\ \E g \in Pol(m), a \in Element : \A x \in Element : f[x] = (g[x] ** x) ++ a
  <2> SUFFICES ASSUME NEW m \in Nat, NEW f
               PROVE  f \in Pol(m + 1) <=>
       f \in [Element -> Element] /\ \E g \in Pol(m), a \in Element : \A x \in Element : f[x] = (g[x] ** x) ++ a
    OBVIOUS
  <2>1. ASSUME f \in [Element -> Element], \E g \in Pol(m), a \in Element : \A x \in Element : f[x] = (g[x] ** x) ++ a
        PROVE  f \in Pol(m + 1)
    <3>1. PICK g \in Pol(m), a \in Element : \A x \in Element : f[x] = (g[x] ** x) ++ a
      BY <2>1
    <3> QED
      BY <1>4, <2>1, <3>1
  <2> QED
    BY <1>3, <2>1
<1> QED
  BY <1>5, <1>6

LEMMA PolTyped == ASSUME NEW m, NEW f \in Pol(m) PROVE \A x \in Element : f[x] \in Element
  BY DEF Pol

\* h is f plus g.
IsSum(h, f, g) == h \in [Element -> Element] /\ \A x \in Element : h[x] = f[x] ++ g[x]

LEMMA PolSum ==
  \A m \in Nat : \A f, g \in Pol(m) : \A h : IsSum(h, f, g) => h \in Pol(m)
<1> DEFINE T == {m \in Nat : \A f, g \in Pol(m) : \A h : IsSum(h, f, g) => h \in Pol(m)}
<1>1. 0 \in T
  <2> SUFFICES ASSUME NEW f \in Pol(0), NEW g \in Pol(0), NEW h, IsSum(h, f, g) PROVE h \in Pol(0)
    OBVIOUS
  <2>1. f = [x \in Element |-> 0] /\ g = [x \in Element |-> 0]
    BY PolNext
  <2>2. \A x \in Element : h[x] = 0
    <3>1. \A x \in Element : f[x] = 0 /\ g[x] = 0
      BY <2>1
    <3>2. 0 ++ 0 = 0
      BY FieldLaws
    <3> QED
      BY <3>1, <3>2 DEF IsSum
  <2>3. h = [x \in Element |-> 0]
    BY <2>2 DEF IsSum
  <2> QED
    BY <2>3, PolNext
<1>2. ASSUME NEW m \in Nat, m \in T PROVE m + 1 \in T
  <2> SUFFICES ASSUME NEW f \in Pol(m + 1), NEW g \in Pol(m + 1), NEW h, IsSum(h, f, g) PROVE h \in Pol(m + 1)
    OBVIOUS
  <2>1. PICK p \in Pol(m), a \in Element : \A x \in Element : f[x] = (p[x] ** x) ++ a
    BY PolNext
  <2>2. PICK q \in Pol(m), b \in Element : \A x \in Element : g[x] = (q[x] ** x) ++ b
    BY PolNext
  <2> DEFINE s == [x \in Element |-> p[x] ++ q[x]]
  <2>3. (\A x \in Element : p[x] \in Element /\ q[x] \in Element) /\ a ++ b \in Element
    BY PolTyped, FieldLaws
  <2>4. IsSum(s, p, q)
    <3>1. \A x \in Element : p[x] ++ q[x] \in Element
      BY <2>3, FieldLaws
    <3> QED
      BY <3>1 DEF IsSum
  <2> HIDE DEF s
  <2>5. s \in Pol(m)
    BY <1>2, <2>4
  <2>6. ASSUME NEW x \in Element PROVE h[x] = (s[x] ** x) ++ (a ++ b)
    <3> DEFINE u == p[x]
               v == q[x]
    <3>1. h[x] = ((u ** x) ++ a) ++ ((v ** x) ++ b) /\ s[x] = u ++ v /\ u \in Element /\ v \in Element
      BY <2>1, <2>2, <2>3, <2>4 DEF IsSum
    <3> HIDE DEF u, v
    <3>2. u ** x \in Element /\ v ** x \in Element
      BY <3>1, FieldLaws
    <3>4. (u ++ v) ** x = (u ** x) ++ (v ** x)
      BY <3>1, FieldLaws
    <3>3. ((u ** x) ++ a) ++ ((v ** x) ++ b) = ((u ** x) ++ (v ** x)) ++ (a ++ b)
      BY <3>2, FieldFacts
    <3> QED
      BY <3>1, <3>2, <3>3, <3>4
  <2> QED
    BY <2>3, <2>5, <2>6, PolNext DEF IsSum
<1>3. \A m \in Nat : m \in T
  <2> HIDE DEF T
  <2> QED
    BY <1>1, <1>2, SetInduction
<1> QED
  BY <1>3

\* h is c times f.
IsMultiple(h, c, f) == h \in [Element -> Element] /\ \A x \in Element : h[x] = c ** f[x]

LEMMA PolMultiple ==
  \A m \in Nat : \A c \in Element, f \in Pol(m) : \A h : IsMultiple(h, c, f) => h \in Pol(m)
<1> DEFINE T == {m \in Nat : \A c \in Element, f \in Pol(m) : \A h : IsMultiple(h, c, f) => h \in Pol(m)}
<1>1. 0 \in T
  <2> SUFFICES ASSUME NEW c \in Element, NEW f \in Pol(0), NEW h, IsMultiple(h, c, f) PROVE h \in Pol(0)
    OBVIOUS
  <2>1. f = [x \in Element |-> 0]
    BY PolNext
  <2>2. \A x \in Element : h[x] = 0
    <3>1. \A x \in Element : f[x] = 0
      BY <2>1
    <3>2. c ** 0 = 0
      BY FieldLaws
    <3> QED
      BY <3>1, <3>2 DEF IsMultiple
  <2>3. h = [x \in Element |-> 0]
    BY <2>2 DEF IsMultiple
  <2> QED
    BY <2>3, PolNext
<1>2. ASSUME NEW m \in Nat, m \in T PROVE m + 1 \in T
  <2> SUFFICES ASSUME NEW c \in Element, NEW f \in Pol(m + 1), NEW h, IsMultiple(h, c, f) PROVE h \in Pol(m + 1)
    OBVIOUS
  <2>1. PICK p \in Pol(m), a \in Element : \A x \in Element : f[x] = (p[x] ** x) ++ a
    BY PolNext
  <2> DEFINE s == [x \in Element |-> c ** p[x]]
  <2>3. (\A x \in Element : p[x] \in Element) /\ c ** a \in Element
    BY PolTyped, FieldLaws
  <2>4. IsMultiple(s, c, p)
    <3>1. \A x \in Element : c ** p[x] \in Element
      BY <2>3, FieldLaws
    <3> QED
      BY <3>1 DEF IsMultiple
  <2> HIDE DEF s
  <2>5. s \in Pol(m)
    BY <1>2, <2>4
  <2>6. ASSUME NEW x \in Element PROVE h[x] = (s[x] ** x) ++ (c ** a)
    <3> DEFINE u == p[x]
    <3>1. h[x] = c ** ((u ** x) ++ a) /\ s[x] = c ** u /\ u \in Element
      BY <2>1, <2>3, <2>4 DEF IsMultiple
    <3> HIDE DEF u
    <3>2. u ** x \in Element /\ c ** (u ** x) = (c ** u) ** x
      BY <3>1, FieldLaws
    <3>3. c ** ((u ** x) ++ a) = (c ** (u ** x)) ++ (c ** a)
      BY <3>2, FieldLaws
    <3> QED
      BY <3>1, <3>2, <3>3
  <2> QED
    BY <2>3, <2>5, <2>6, PolNext DEF IsMultiple
<1>3. \A m \in Nat : m \in T
  <2> HIDE DEF T
  <2> QED
    BY <1>1, <1>2, SetInduction
<1> QED
  BY <1>3

LEMMA PolWider == \A m \in Nat : Pol(m) \subseteq Pol(m + 1)
<1> DEFINE T == {m \in Nat : Pol(m) \subseteq Pol(m + 1)}
<1>1. 0 \in T
  <2> SUFFICES ASSUME NEW f \in Pol(0) PROVE f \in Pol(0 + 1)
    OBVIOUS
  <2>1. f = [x \in Element |-> 0]
    BY PolNext
  <2>2. f \in [Element -> Element] /\ \A x \in Element : f[x] = (f[x] ** x) ++ 0
    <3>1. \A x \in Element : f[x] = 0
      BY <2>1
    <3>2. \A x \in Element : 0 = (0 ** x) ++ 0
      BY FieldLaws
    <3> QED
      BY <2>1, <3>1, <3>2, FieldLaws
  <2>3. 0 \in Nat /\ 0 \in Element
    BY FieldLaws
  <2> QED
    BY <2>2, <2>3, PolNext
<1>2. ASSUME NEW m \in Nat, m \in T PROVE m + 1 \in T
  <2> SUFFICES ASSUME NEW f \in Pol(m + 1) PROVE f \in Pol((m + 1) + 1)
    OBVIOUS
  <2>1. PICK p \in Pol(m), a \in Element : f \in [Element -> Element] /\ \A x \in Element : f[x] = (p[x] ** x) ++ a
    BY PolNext
  <2>2. p \in Pol(m + 1) /\ m + 1 \in Nat
    BY <1>2
  <2> QED
    BY <2>1, <2>2, PolNext
<1>3. \A m \in Nat : m \in T
  <2> HIDE DEF T
  <2> QED
    BY <1>1, <1>2, SetInduction
<1> QED
  BY <1>3

\* h is (x + a) times f.
IsLinear(h, a, f) == h \in [Element -> Element] /\ \A x \in Element : h[x] = (x ++ a) ** f[x]

LEMMA PolLinear ==
  ASSUME NEW m \in Nat, NEW f \in Pol(m), NEW a \in Element, NEW h, IsLinear(h, a, f)
  PROVE  h \in Pol(m + 1)
<1> DEFINE u == [x \in Element |-> (f[x] ** x) ++ 0]
           v == [x \in Element |-> a ** f[x]]
<1>1. \A x \in Element : f[x] \in Element
  BY PolTyped
<1>2. \A x \in Element : (f[x] ** x) ++ 0 \in Element /\ a ** f[x] \in Element /\ (f[x] ** x) ++ 0 = f[x] ** x
  BY <1>1, FieldLaws
<1>3. u \in [Element -> Element] /\ v \in [Element -> Element]
  BY <1>2
<1>4. \A x \in Element : u[x] = (f[x] ** x) ++ 0 /\ v[x] = a ** f[x]
  OBVIOUS
<1> HIDE DEF u, v
<1>5. u \in Pol(m + 1)
  <2>1. 0 \in Element
    BY FieldLaws
  <2> QED
    BY <1>3, <1>4, <2>1, PolNext
<1>6. v \in Pol(m) /\ m + 1 \in Nat
  BY <1>3, <1>4, PolMultiple DEF IsMultiple
<1>7. v \in Pol(m + 1)
  BY <1>6, PolWider
<1>8. ASSUME NEW x \in Element PROVE h[x] = u[x] ++ v[x]
  <2> DEFINE y == f[x]
  <2>1. y \in Element /\ h[x] = (x ++ a) ** y /\ u[x] = y ** x /\ v[x] = a ** y
    BY <1>1, <1>2, <1>4 DEF IsLinear
  <2> HIDE DEF y
  <2>2. (x ++ a) ** y = (x ** y) ++ (a ** y) /\ x ** y = y ** x
    BY <2>1, FieldLaws
  <2> QED
    BY <2>1, <2>2
<1>9. IsSum(h, u, v)
  BY <1>8 DEF IsLinear, IsSum
<1> QED
  BY <1>5, <1>6, <1>7, <1>9, PolSum

\* A polynomial is its value at r and a multiple of x + r.
LEMMA PolFactor ==
  \A m \in Nat : \A f \in Pol(m + 1), r \in Element :
    \E q \in Pol(m) : \A x \in Element : f[x] = ((x ++ r) ** q[x]) ++ f[r]
<1> DEFINE T == {m \in Nat : \A f \in Pol(m + 1), r \in Element :
                   \E q \in Pol(m) : \A x \in Element : f[x] = ((x ++ r) ** q[x]) ++ f[r]}
<1>1. 0 \in T
  <2> SUFFICES ASSUME NEW f \in Pol(0 + 1), NEW r \in Element
               PROVE  \E q \in Pol(0) : \A x \in Element : f[x] = ((x ++ r) ** q[x]) ++ f[r]
    OBVIOUS
  <2>0. 0 \in Nat
    OBVIOUS
  <2>1. PICK p \in Pol(0), a \in Element : \A x \in Element : f[x] = (p[x] ** x) ++ a
    BY <2>0, PolNext
  <2>2. \A x \in Element : p[x] = 0
    <3>1. p = [x \in Element |-> 0]
      BY PolNext
    <3> QED
      BY <3>1
  <2>3. \A x \in Element : f[x] = a
    <3>1. \A x \in Element : (0 ** x) ++ a = a
      BY FieldLaws
    <3> QED
      BY <2>1, <2>2, <3>1
  <2>4. ASSUME NEW x \in Element PROVE f[x] = ((x ++ r) ** p[x]) ++ f[r]
    <3>1. x ++ r \in Element
      BY FieldLaws
    <3>2. ((x ++ r) ** 0) ++ a = a
      BY <3>1, FieldLaws
    <3> QED
      BY <2>2, <2>3, <3>2
  <2> QED
    BY <2>4
<1>2. ASSUME NEW m \in Nat, m \in T PROVE m + 1 \in T
  <2> SUFFICES ASSUME NEW f \in Pol((m + 1) + 1), NEW r \in Element
               PROVE  \E q \in Pol(m + 1) : \A x \in Element : f[x] = ((x ++ r) ** q[x]) ++ f[r]
    OBVIOUS
  <2>1. PICK g \in Pol(m + 1), a \in Element : \A x \in Element : f[x] = (g[x] ** x) ++ a
    <3>1. m + 1 \in Nat
      OBVIOUS
    <3> QED
      BY <3>1, PolNext
  <2>2. PICK p \in Pol(m) : \A x \in Element : g[x] = ((x ++ r) ** p[x]) ++ g[r]
    BY <1>2
  <2> DEFINE b == g[r]
             q == [x \in Element |-> (p[x] ** x) ++ b]
  <2>3. b \in Element /\ \A x \in Element : p[x] \in Element
    BY PolTyped
  <2>4. q \in [Element -> Element] /\ \A x \in Element : q[x] = (p[x] ** x) ++ b
    <3>1. \A x \in Element : (p[x] ** x) ++ b \in Element
      BY <2>3, FieldLaws
    <3> QED
      BY <3>1
  <2> HIDE DEF b, q
  <2>5. q \in Pol(m + 1)
    BY <2>3, <2>4, PolNext
  <2>6. f[r] = (b ** r) ++ a
    BY <2>1 DEF b
  <2>7. ASSUME NEW x \in Element PROVE f[x] = ((x ++ r) ** q[x]) ++ f[r]
    <3> DEFINE u == p[x]
               s == x ++ r
    <3>1. u \in Element /\ s \in Element /\ f[x] = (((s ** u) ++ b) ** x) ++ a /\ q[x] = (u ** x) ++ b
      BY <2>1, <2>2, <2>3, <2>4, FieldLaws DEF b
    <3>2. x = s ++ r /\ b ** x = (s ** b) ++ (b ** r)
      <4>1. (x ++ r) ++ r = x ++ (r ++ r) /\ r ++ r = 0 /\ x ++ 0 = x
        BY FieldLaws
      <4>2. b ** (s ++ r) = (b ** s) ++ (b ** r) /\ b ** s = s ** b
        BY <2>3, <3>1, FieldLaws
      <4> QED
        BY <4>1, <4>2
    <3> HIDE DEF u, s
    <3>3. /\ s ** u \in Element /\ (s ** u) ** x = s ** (u ** x) /\ u ** x \in Element /\ s ** b \in Element
          /\ b ** r \in Element /\ s ** (u ** x) \in Element
      <4>1. s ** u \in Element /\ u ** x \in Element /\ s ** b \in Element /\ b ** r \in Element
        BY <2>3, <3>1, FieldLaws
      <4>2. s ** (u ** x) \in Element
        BY <3>1, <4>1, FieldLaws
      <4>3. (s ** u) ** x = s ** (u ** x)
        BY <3>1, FieldLaws
      <4> QED
        BY <4>1, <4>2, <4>3
    <3>4. ((s ** u) ++ b) ** x = ((s ** u) ** x) ++ (b ** x)
      BY <2>3, <3>3, FieldLaws
    <3>5. s ** ((u ** x) ++ b) = (s ** (u ** x)) ++ (s ** b)
      BY <2>3, <3>1, <3>3, FieldLaws
    <3> DEFINE y == s ** (u ** x)
               z == s ** b
               w == b ** r
    <3>6. y \in Element /\ z \in Element /\ w \in Element /\ y ++ z \in Element
      BY <3>3, FieldLaws
    <3>7. f[x] = (y ++ (z ++ w)) ++ a /\ s ** q[x] = y ++ z /\ f[r] = w ++ a
      BY <2>6, <3>1, <3>2, <3>3, <3>4, <3>5
    <3> HIDE DEF y, z, w
    <3>8. (y ++ (z ++ w)) ++ a = (y ++ z) ++ (w ++ a)
      <4>1. y ++ (z ++ w) = (y ++ z) ++ w
        BY <3>6, FieldLaws
      <4>2. ((y ++ z) ++ w) ++ a = (y ++ z) ++ (w ++ a)
        BY <3>6, FieldLaws
      <4> QED
        BY <4>1, <4>2
    <3> QED
      BY <3>7, <3>8 DEF s
  <2> QED
    BY <2>5, <2>7
<1>3. \A m \in Nat : m \in T
  <2> HIDE DEF T
  <2> QED
    BY <1>1, <1>2, SetInduction
<1> QED
  BY <1>3

\* xs are m different roots of f.
Roots(xs, m, f) ==
  /\ xs \in [1..m -> Element] /\ \A i, j \in 1..m : xs[i] = xs[j] => i = j
  /\ \A i \in 1..m : f[xs[i]] = 0

\* A polynomial with as many roots as coefficients is zero.
LEMMA PolRoots ==
  \A m \in Nat : \A f \in Pol(m) : \A xs : Roots(xs, m, f) => \A x \in Element : f[x] = 0
<1> DEFINE T == {m \in Nat : \A f \in Pol(m) : \A xs : Roots(xs, m, f) => \A x \in Element : f[x] = 0}
<1>1. 0 \in T
  <2> SUFFICES ASSUME NEW f \in Pol(0) PROVE \A x \in Element : f[x] = 0
    OBVIOUS
  <2>1. f = [x \in Element |-> 0]
    BY PolNext
  <2> QED
    BY <2>1
<1>2. ASSUME NEW m \in Nat, m \in T PROVE m + 1 \in T
  <2> SUFFICES ASSUME NEW f \in Pol(m + 1), NEW xs, Roots(xs, m + 1, f)
               PROVE  \A x \in Element : f[x] = 0
    OBVIOUS
  <2> DEFINE r == xs[m + 1]
             ys == [i \in 1..m |-> xs[i]]
  <2>1. r \in Element /\ f[r] = 0 /\ m + 1 \in 1..m+1 /\ \A i \in 1..m : i \in 1..m+1 /\ i # m + 1
    BY DEF Roots
  <2>2. PICK q \in Pol(m) : \A x \in Element : f[x] = ((x ++ r) ** q[x]) ++ f[r]
    BY <2>1, PolFactor
  <2>3. ASSUME NEW x \in Element PROVE f[x] = (x ++ r) ** q[x] /\ x ++ r \in Element /\ q[x] \in Element
    <3>1. x ++ r \in Element /\ q[x] \in Element
      BY <2>1, PolTyped, FieldLaws
    <3>2. (x ++ r) ** q[x] \in Element
      BY <3>1, FieldLaws
    <3>3. ((x ++ r) ** q[x]) ++ 0 = (x ++ r) ** q[x]
      BY <3>2, FieldLaws
    <3> QED
      BY <2>1, <2>2, <3>1, <3>3
  <2>4. \A i \in 1..m : ys[i] = xs[i] /\ xs[i] \in Element /\ xs[i] # r /\ f[xs[i]] = 0
    BY <2>1 DEF Roots
  <2>5. ASSUME NEW i \in 1..m PROVE q[ys[i]] = 0
    <3> DEFINE y == xs[i]
    <3>1. y \in Element /\ y # r /\ f[y] = 0 /\ ys[i] = y
      BY <2>4
    <3> HIDE DEF y, r
    <3>2. y ++ r # 0
      BY <2>1, <3>1, FieldFacts
    <3>3. (y ++ r) ** q[y] = 0 /\ y ++ r \in Element /\ q[y] \in Element
      BY <2>3, <3>1
    <3>4. q[y] = 0
      BY <3>2, <3>3, FieldFacts
    <3> QED
      BY <3>1, <3>4
  <2>6. Roots(ys, m, q)
    <3>1. ys \in [1..m -> Element]
      BY <2>4
    <3>2. \A i, j \in 1..m : ys[i] = ys[j] => i = j
      BY <2>1, <2>4 DEF Roots
    <3> HIDE DEF ys
    <3> QED
      BY <2>5, <3>1, <3>2 DEF Roots
  <2>7. \A x \in Element : q[x] = 0
    <3> HIDE DEF ys
    <3> QED
      BY <1>2, <2>6
  <2>8. \A y \in Element : y ** 0 = 0
    BY FieldLaws
  <2> QED
    BY <2>3, <2>7, <2>8
<1>3. \A m \in Nat : m \in T
  <2> HIDE DEF T
  <2> QED
    BY <1>1, <1>2, SetInduction
<1> QED
  BY <1>3

-----------------------------------------------------------------------------
(* Sums and products of the elements of a function.                        *)

\* it is the function a fold of f by the table O is defined by.
Combines(it, O, base, f) ==
  it = [s \in SUBSET (DOMAIN f) |-> IF s = {} THEN base ELSE O[f[Pick(s)]][it[s \ {Pick(s)}]]]

LEMMA XorAllUnfolds ==
  ASSUME NEW f PROVE XorAll(f) = (CHOOSE it : Combines(it, Plus, 0, f))[DOMAIN f]
  BY DEF XorAll, FoldFunction, FoldFunctionOnSet, MapThenFoldSet, Combines, Pick

LEMMA ProductFoldUnfolds ==
  ASSUME NEW f PROVE Product(f) = (CHOOSE it : Combines(it, Mult, 1, f))[DOMAIN f]
  BY DEF Product, FoldFunction, FoldFunctionOnSet, MapThenFoldSet, Combines, Pick

\* it combines the elements of f by O, one after another.
Combined(it, O, base, f, D) ==
  /\ it \in [SUBSET D -> Element] /\ it[{}] = base
  /\ \A s \in SUBSET D : s # {} => it[s] = O[f[Pick(s)]][it[s \ {Pick(s)}]]

\* O combines elements to an element.
Combining(O) == \A a, b \in Element : O[a][b] \in Element

LEMMA CombineRecursion ==
  ASSUME NEW D, IsFiniteSet(D), NEW f \in [D -> Element], NEW O, Combining(O), NEW base \in Element
  PROVE  Combined(CHOOSE it : Combines(it, O, base, f), O, base, f, D)
<1> DEFINE R == Element
           G == [d \in D |-> [r \in R |-> O[f[d]][r]]]
           c == [s \in SUBSET D |-> Pick(s)]
           it == CHOOSE it : Combines(it, O, base, f)
<1>1. /\ DOMAIN f = D /\ \A d \in D : f[d] \in R
      /\ \A s \in SUBSET D : s # {} => Pick(s) \in s /\ Pick(s) \in D /\ s \ {Pick(s)} \in SUBSET D
  <2>1. \A s \in SUBSET D : s # {} => Pick(s) \in s
    BY PickIn
  <2> QED
    BY <2>1
<1>2. \A a, b \in R : O[a][b] \in R
  BY DEF Combining
<1> HIDE DEF R
<1>3. PICK jt \in [SUBSET D -> R] : FoldsWith(jt, G, c, base, D)
  <2>1. base \in R /\ G \in [D -> [R -> R]]
    BY <1>1, <1>2 DEF R
  <2>2. Chooses(c, D)
    BY <1>1 DEF Chooses
  <2> HIDE DEF G, c
  <2> QED
    BY <2>1, <2>2, FoldWithExists
<1>4. Combines(jt, O, base, f)
  <2>1. jt = [s \in SUBSET D |-> IF s = {} THEN base ELSE G[c[s]][jt[s \ {c[s]}]]]
    BY <1>3 DEF FoldsWith
  <2>2. ASSUME NEW s \in SUBSET D, s # {}
        PROVE  G[c[s]][jt[s \ {c[s]}]] = O[f[Pick(s)]][jt[s \ {Pick(s)}]]
    <3>1. c[s] = Pick(s) /\ Pick(s) \in D /\ s \ {Pick(s)} \in SUBSET D
      BY <1>1, <2>2
    <3>2. jt[s \ {Pick(s)}] \in R
      BY <1>3, <3>1
    <3>3. G[Pick(s)] = [r \in R |-> O[f[Pick(s)]][r]]
      BY <3>1
    <3> HIDE DEF G, c
    <3> QED
      BY <3>1, <3>2, <3>3
  <2>3. jt = [s \in SUBSET D |-> IF s = {} THEN base ELSE O[f[Pick(s)]][jt[s \ {Pick(s)}]]]
    <3> HIDE DEF G, c
    <3> QED
      BY <2>1, <2>2
  <2> QED
    BY <1>1, <2>3 DEF Combines
<1>5. Combines(it, O, base, f)
  BY <1>4
<1> HIDE DEF it
<1>6. it = [s \in SUBSET D |-> IF s = {} THEN base ELSE O[f[Pick(s)]][it[s \ {Pick(s)}]]]
  BY <1>1, <1>5 DEF Combines
<1>7. it[{}] = base /\ \A s \in SUBSET D : s # {} => it[s] = O[f[Pick(s)]][it[s \ {Pick(s)}]]
  BY <1>6
<1> DEFINE T == {s \in SUBSET D : it[s] \in R}
<1>8. \A s \in SUBSET D : s \in T
  <2>1. {} \in T
    BY <1>7 DEF R
  <2>2. ASSUME NEW s \in SUBSET D, s # {} /\ s \ {Pick(s)} \in T PROVE s \in T
    BY <1>1, <1>2, <1>7, <2>2
  <2> HIDE DEF T
  <2> QED
    BY <2>1, <2>2, PickInduction
<1>9. it \in [SUBSET D -> R]
  <2>1. DOMAIN it = SUBSET D /\ it = [s \in SUBSET D |-> it[s]]
    BY <1>6
  <2>2. \A s \in SUBSET D : it[s] \in R
    BY <1>8
  <2> HIDE DEF T
  <2> QED
    BY <2>1, <2>2
<1>10. Combined(it, O, base, f, D)
  BY <1>7, <1>9 DEF Combined, R
<1> QED
  BY <1>10 DEF it

\* A sum adds up, and a product multiplies.
LEMMA FoldsCombine ==
  ASSUME NEW D, IsFiniteSet(D), NEW f \in [D -> Element]
  PROVE  /\ \E it : Combined(it, Plus, 0, f, D) /\ XorAll(f) = it[D]
         /\ \E it : Combined(it, Mult, 1, f, D) /\ Product(f) = it[D]
<1>1. DOMAIN f = D /\ 0 \in Element /\ 1 \in Element
  BY FieldLaws
<1>2. Combining(Plus) /\ Combining(Mult)
  BY PlusLaws, MultLaws DEF Combining
<1>3. Combined(CHOOSE it : Combines(it, Plus, 0, f), Plus, 0, f, D)
  BY <1>1, <1>2, CombineRecursion
<1>4. Combined(CHOOSE it : Combines(it, Mult, 1, f), Mult, 1, f, D)
  BY <1>1, <1>2, CombineRecursion
<1> QED
  BY <1>1, <1>3, <1>4, XorAllUnfolds, ProductFoldUnfolds

\* it goes on at s: with one element picked from s and the combination of the rest.
GoesOn(it, O, f, D, s) ==
  LET p == Pick(s)
  IN  /\ p \in s /\ p \in D /\ f[p] \in Element /\ s \ {p} \in SUBSET D
      /\ it[s \ {p}] \in Element /\ it[s] = O[f[p]][it[s \ {p}]] /\ it[s] \in Element
      /\ Cardinality(s) = Cardinality(s \ {p}) + 1 /\ Cardinality(s \ {p}) \in Nat

LEMMA CombinedStep ==
  ASSUME NEW D, IsFiniteSet(D), NEW f \in [D -> Element], NEW it, NEW O, NEW base,
         Combined(it, O, base, f, D), NEW s \in SUBSET D, s # {}
  PROVE  GoesOn(it, O, f, D, s)
<1> DEFINE p == Pick(s)
<1>1. p \in s
  BY PickIn
<1>2. p \in D /\ f[p] \in Element /\ s \ {p} \in SUBSET D
  BY <1>1
<1>3. it[s \ {p}] \in Element /\ it[s] \in Element
  <2> HIDE DEF p
  <2> QED
    BY <1>2 DEF Combined
<1>4. it[s] = O[f[p]][it[s \ {p}]]
  BY DEF Combined
<1>5. IsFiniteSet(s) /\ IsFiniteSet(s \ {p}) /\ Cardinality(s) \in Nat /\ Cardinality(s \ {p}) \in Nat
  <2>1. IsFiniteSet(s) /\ IsFiniteSet(s \ {p})
    <3> HIDE DEF p
    <3> QED
      BY <1>2, FS_Subset
  <2> QED
    BY <2>1, FS_CardinalityType
<1>6. Cardinality(s \ {p}) = Cardinality(s) - 1
  <2> HIDE DEF p
  <2> QED
    BY <1>1, <1>5, FS_RemoveElement
<1> QED
  BY <1>1, <1>2, <1>3, <1>4, <1>5, <1>6 DEF GoesOn

\* g is f but for d more at i.
OneMore(D, f, g, i, d) ==
  /\ f \in [D -> Element] /\ g \in [D -> Element] /\ i \in D /\ d \in Element
  /\ g[i] = f[i] ++ d /\ \A j \in D : j # i => g[j] = f[j]

\* Adding to one term adds to the sum.
LEMMA XorAllChange ==
  ASSUME NEW D, IsFiniteSet(D), NEW f, NEW g, NEW i, NEW d, OneMore(D, f, g, i, d)
  PROVE  XorAll(g) = XorAll(f) ++ d
<1> USE DEF OneMore
<1>1. PICK it : Combined(it, Plus, 0, f, D) /\ XorAll(f) = it[D]
  BY FoldsCombine
<1>2. PICK jt : Combined(jt, Plus, 0, g, D) /\ XorAll(g) = jt[D]
  BY FoldsCombine
<1> DEFINE T == {s \in SUBSET D : jt[s] = IF i \in s THEN it[s] ++ d ELSE it[s]}
<1>3. {} \in T
  BY <1>1, <1>2 DEF Combined
<1>4. ASSUME NEW s \in SUBSET D, s # {} /\ s \ {Pick(s)} \in T PROVE s \in T
  <2> DEFINE p == Pick(s)
             r == s \ {p}
             u == f[p]
             v == it[r]
             x == g[p]
             y == jt[r]
  <2>1. p \in s /\ p \in D /\ u \in Element /\ v \in Element /\ it[s] = u ++ v
    <3>1. GoesOn(it, Plus, f, D, s)
      BY <1>1, <1>4, CombinedStep
    <3> QED
      BY <3>1 DEF GoesOn, ++
  <2>2. x \in Element /\ y \in Element /\ jt[s] = x ++ y
    <3>1. GoesOn(jt, Plus, g, D, s)
      BY <1>2, <1>4, CombinedStep
    <3> QED
      BY <3>1 DEF GoesOn, ++
  <2>3. y = IF i \in r THEN v ++ d ELSE v
    BY <1>4
  <2>4. r = s \ {p} /\ (p = i => x = u ++ d) /\ (p # i => x = u)
    BY <2>1
  <2>5. (u ++ d) ++ v = (u ++ v) ++ d /\ u ++ (v ++ d) = (u ++ v) ++ d
    <3> HIDE DEF u, v
    <3>1. (u ++ v) ++ d = u ++ (v ++ d)
      BY ONLY <2>1, OneMore(D, f, g, i, d), FieldLaws
    <3>2. (u ++ d) ++ v = u ++ (d ++ v)
      BY ONLY <2>1, OneMore(D, f, g, i, d), FieldLaws
    <3>3. d ++ v = v ++ d
      BY ONLY <2>1, OneMore(D, f, g, i, d), FieldLaws
    <3> QED
      BY ONLY <3>1, <3>2, <3>3
  <2>6. jt[s] = IF i \in s THEN it[s] ++ d ELSE it[s]
    <3> HIDE DEF p, r, u, v, x, y
    <3> QED
      BY ONLY <2>1, <2>2, <2>3, <2>4, <2>5
  <2> QED
    BY <1>4, <2>6
<1>5. D \in T
  <2>1. D \in SUBSET D
    OBVIOUS
  <2> HIDE DEF T
  <2> QED
    BY <1>3, <1>4, <2>1, PickInduction
<1> QED
  BY <1>1, <1>2, <1>5

-----------------------------------------------------------------------------
(* Lagrange factors.                                                       *)

\* A product with a zero is zero, and a product of ones is one.
LEMMA ProductOf ==
  ASSUME NEW D, IsFiniteSet(D), NEW f \in [D -> Element]
  PROVE  /\ Product(f) \in Element
         /\ (\E p \in D : f[p] = 0) => Product(f) = 0
         /\ (\A p \in D : f[p] = 1) => Product(f) = 1
<1>1. PICK it : Combined(it, Mult, 1, f, D) /\ Product(f) = it[D]
  BY FoldsCombine
<1>2. it[{}] = 1 /\ it[D] \in Element
  BY <1>1 DEF Combined
<1>3. ASSUME NEW s \in SUBSET D, s # {}
      PROVE  LET p == Pick(s)
                 r == s \ {p}
                 u == f[p]
                 v == it[r]
             IN  p \in s /\ p \in D /\ u \in Element /\ v \in Element /\ it[s] = u ** v
  <2>1. GoesOn(it, Mult, f, D, s)
    BY <1>1, <1>3, CombinedStep
  <2> QED
    BY <2>1 DEF GoesOn, **
<1>4. ASSUME NEW q \in D, f[q] = 0 PROVE it[D] = 0
  <2> DEFINE T == {s \in SUBSET D : q \in s => it[s] = 0}
  <2>1. {} \in T
    OBVIOUS
  <2>2. ASSUME NEW s \in SUBSET D, s # {} /\ s \ {Pick(s)} \in T PROVE s \in T
    <3> DEFINE p == Pick(s)
               r == s \ {p}
               u == f[p]
               v == it[r]
    <3>1. p \in s /\ p \in D /\ u \in Element /\ v \in Element /\ it[s] = u ** v
      BY <1>3, <2>2
    <3>2. (p = q => u = 0) /\ (p # q /\ q \in s => v = 0)
      BY <1>4, <2>2, <3>1
    <3> HIDE DEF p, r, u, v
    <3>3. 0 ** v = 0 /\ u ** 0 = 0
      BY ONLY <3>1, FieldLaws
    <3> QED
      BY <3>1, <3>2, <3>3
  <2>3. D \in SUBSET D
    OBVIOUS
  <2> HIDE DEF T
  <2>4. D \in T
    BY <2>1, <2>2, <2>3, PickInduction
  <2> QED
    BY <2>4 DEF T
<1>5. ASSUME \A q \in D : f[q] = 1 PROVE it[D] = 1
  <2> DEFINE T == {s \in SUBSET D : it[s] = 1}
  <2>1. {} \in T
    BY <1>2
  <2>2. ASSUME NEW s \in SUBSET D, s # {} /\ s \ {Pick(s)} \in T PROVE s \in T
    <3> DEFINE p == Pick(s)
               r == s \ {p}
               u == f[p]
               v == it[r]
    <3>1. p \in s /\ p \in D /\ u \in Element /\ v \in Element /\ it[s] = u ** v
      BY <1>3, <2>2
    <3>2. u = 1 /\ v = 1
      BY <1>5, <2>2, <3>1
    <3> HIDE DEF p, r, u, v
    <3>3. 1 ** v = v
      BY ONLY <3>1, FieldLaws
    <3> QED
      BY <3>1, <3>2, <3>3
  <2>3. D \in SUBSET D
    OBVIOUS
  <2> HIDE DEF T
  <2>4. D \in T
    BY <2>1, <2>2, <2>3, PickInduction
  <2> QED
    BY <2>4 DEF T
<1> QED
  BY <1>1, <1>2, <1>4, <1>5

\* The factors of a Lagrange factor at x: roots a, weights w.
Terms(D, a, w, x) == [k \in D |-> (x ++ a[k]) ** w[k]]

LEMMA TermsTyped ==
  ASSUME NEW D, NEW a \in [D -> Element], NEW w \in [D -> Element], NEW x \in Element
  PROVE  Terms(D, a, w, x) \in [D -> Element]
<1>1. ASSUME NEW k \in D PROVE (x ++ a[k]) ** w[k] \in Element
  <2>1. a[k] \in Element /\ w[k] \in Element
    OBVIOUS
  <2>2. x ++ a[k] \in Element
    BY <2>1, FieldLaws
  <2> QED
    BY <2>1, <2>2, FieldLaws
<1> QED
  BY <1>1 DEF Terms

\* As a function of x the product is a polynomial.
LEMMA ProductIsPol ==
  ASSUME NEW D, IsFiniteSet(D), NEW a \in [D -> Element], NEW w \in [D -> Element]
  PROVE  \E f \in Pol(Cardinality(D) + 1) : \A x \in Element : f[x] = Product(Terms(D, a, w, x))
<1> DEFINE F(x) == Terms(D, a, w, x)
           IT == [x \in Element |-> CHOOSE it : Combined(it, Mult, 1, F(x), D) /\ Product(F(x)) = it[D]]
           T == {s \in SUBSET D : \E f \in Pol(Cardinality(s) + 1) : \A x \in Element : f[x] = IT[x][s]}
<1>1. ASSUME NEW x \in Element
      PROVE  F(x) \in [D -> Element] /\ Combined(IT[x], Mult, 1, F(x), D) /\ Product(F(x)) = IT[x][D]
  <2>1. F(x) \in [D -> Element]
    BY TermsTyped
  <2>2. \E it : Combined(it, Mult, 1, F(x), D) /\ Product(F(x)) = it[D]
    <3> HIDE DEF F
    <3> QED
      BY <2>1, FoldsCombine
  <2>3. IT[x] = CHOOSE it : Combined(it, Mult, 1, F(x), D) /\ Product(F(x)) = it[D]
    OBVIOUS
  <2> HIDE DEF IT, F
  <2> QED
    BY <2>1, <2>2, <2>3
<1> HIDE DEF IT
<1>2. {} \in T
  <2> DEFINE z == [x \in Element |-> 0]
             e == [x \in Element |-> 1]
  <2>1. 0 \in Element /\ 1 \in Element /\ \A x \in Element : (0 ** x) ++ 1 = 1
    <3>1. 0 \in Element /\ 1 \in Element /\ \A x \in Element : 0 ** x = 0
      BY FieldLaws
    <3>2. 0 ++ 1 = 1
      BY <3>1, FieldLaws
    <3> QED
      BY <3>1, <3>2
  <2>2. z \in Pol(0) /\ e \in [Element -> Element] /\ \A x \in Element : e[x] = (z[x] ** x) ++ 1
    BY <2>1, PolNext
  <2>3. e \in Pol(0 + 1)
    <3> HIDE DEF z, e
    <3> QED
      BY <2>1, <2>2, PolNext
  <2>4. \A x \in Element : IT[x][{}] = 1
    BY <1>1 DEF Combined
  <2>5. \A x \in Element : e[x] = IT[x][{}]
    BY <2>4
  <2>6. Cardinality({}) = 0
    BY FS_EmptySet
  <2> HIDE DEF e
  <2> QED
    BY <2>3, <2>5, <2>6
<1>3. ASSUME NEW s \in SUBSET D, s # {} /\ s \ {Pick(s)} \in T PROVE s \in T
  <2> DEFINE p == Pick(s)
             r == s \ {p}
             n == Cardinality(r)
             b == a[p]
             c == w[p]
  <2>1. PICK q \in Pol(n + 1) : \A x \in Element : q[x] = IT[x][r]
    BY <1>3
  <2>2. p \in D /\ n \in Nat /\ Cardinality(s) = n + 1
    <3>1. 0 \in Element /\ [k \in D |-> 0] \in [D -> Element]
      BY FieldLaws
    <3>2. IsFiniteSet(s) /\ p \in s
      BY <1>3, PickIn, FS_Subset
    <3> HIDE DEF p
    <3>3. IsFiniteSet(r) /\ Cardinality(r) = Cardinality(s) - 1 /\ Cardinality(r) \in Nat /\ Cardinality(s) \in Nat
      BY <3>2, FS_RemoveElement, FS_CardinalityType, FS_Subset
    <3> QED
      BY <3>2, <3>3
  <2>3. b \in Element /\ c \in Element /\ \A x \in Element : q[x] \in Element
    <3>1. b \in Element /\ c \in Element
      BY <2>2
    <3>2. \A x \in Element : q[x] \in Element
      BY ONLY PolTyped, q \in Pol(n + 1)
    <3> QED
      BY <3>1, <3>2
  <2>4. ASSUME NEW x \in Element
        PROVE  IT[x][s] = ((x ++ b) ** c) ** q[x]
    <3>1. F(x) \in [D -> Element] /\ Combined(IT[x], Mult, 1, F(x), D)
      BY <1>1
    <3>2. IT[x][s] = Mult[F(x)[p]][IT[x][r]]
      <4> HIDE DEF F
      <4>1. GoesOn(IT[x], Mult, F(x), D, s)
        BY <1>3, <3>1, CombinedStep
      <4> QED
        BY <4>1 DEF GoesOn
    <3>3. F(x)[p] = (x ++ b) ** c
      BY <2>2 DEF Terms
    <3> QED
      BY <2>1, <3>2, <3>3 DEF **
  <2> DEFINE g == [x \in Element |-> c ** q[x]]
             h == [x \in Element |-> (x ++ b) ** g[x]]
  <2> HIDE DEF p, r, n, b, c, T
  <2>5. \A x \in Element : c ** q[x] \in Element
    BY <2>3, FieldLaws
  <2>6. IsMultiple(g, c, q)
    BY <2>5 DEF IsMultiple
  <2>7. g \in Pol(n + 1)
    <3>1. n + 1 \in Nat
      BY <2>2
    <3> HIDE DEF g
    <3> QED
      BY <2>3, <2>6, <3>1, PolMultiple
  <2>8. \A x \in Element : g[x] \in Element /\ g[x] = c ** q[x]
    BY <2>5
  <2> HIDE DEF g
  <2>9. \A x \in Element : (x ++ b) ** g[x] \in Element
    <3>1. \A x \in Element : x ++ b \in Element
      BY <2>3, FieldLaws
    <3> QED
      BY <2>8, <3>1, FieldLaws
  <2>10. IsLinear(h, b, g)
    BY <2>9 DEF IsLinear
  <2>11. h \in Pol(Cardinality(s) + 1)
    <3>1. n + 1 \in Nat /\ Cardinality(s) + 1 = (n + 1) + 1
      BY <2>2
    <3> HIDE DEF h
    <3> QED
      BY <2>3, <2>7, <2>10, <3>1, PolLinear
  <2>12. ASSUME NEW x \in Element PROVE h[x] = IT[x][s]
    <3> DEFINE y == q[x]
               z == x ++ b
    <3>1. h[x] = z ** (c ** y) /\ IT[x][s] = (z ** c) ** y
      BY <2>4, <2>8
    <3>2. y \in Element /\ z \in Element
      BY <2>3, FieldLaws
    <3> HIDE DEF y, z
    <3>3. (z ** c) ** y = z ** (c ** y)
      BY ONLY <2>3, <3>2, FieldLaws
    <3> QED
      BY <3>1, <3>3
  <2> HIDE DEF h
  <2> QED
    BY <2>11, <2>12 DEF T
<1>4. D \in T
  <2>1. D \in SUBSET D
    OBVIOUS
  <2> HIDE DEF T
  <2> QED
    BY <1>2, <1>3, <2>1, PickInduction
<1>5. PICK f \in Pol(Cardinality(D) + 1) : \A x \in Element : f[x] = IT[x][D]
  BY <1>4
<1>6. \A x \in Element : IT[x][D] = Product(F(x))
  BY <1>1
<1>7. \A x \in Element : f[x] = Product(F(x))
  <2> HIDE DEF F
  <2> QED
    BY ONLY <1>5, <1>6
<1> QED
  BY <1>7

\* A sum with one term is that term.
LEMMA XorAllOf ==
  ASSUME NEW D, IsFiniteSet(D), NEW f \in [D -> Element]
  PROVE  /\ XorAll(f) \in Element
         /\ \A i \in D : (\A j \in D : j # i => f[j] = 0) => XorAll(f) = f[i]
<1>1. PICK it : Combined(it, Plus, 0, f, D) /\ XorAll(f) = it[D]
  BY FoldsCombine
<1>2. it[{}] = 0 /\ it[D] \in Element
  BY <1>1 DEF Combined
<1>3. ASSUME NEW s \in SUBSET D, s # {}
      PROVE  LET p == Pick(s)
                 r == s \ {p}
                 u == f[p]
                 v == it[r]
             IN  p \in s /\ p \in D /\ u \in Element /\ v \in Element /\ it[s] = u ++ v
  <2>1. GoesOn(it, Plus, f, D, s)
    BY <1>1, <1>3, CombinedStep
  <2> QED
    BY <2>1 DEF GoesOn, ++
<1>4. ASSUME NEW i \in D, \A j \in D : j # i => f[j] = 0 PROVE it[D] = f[i]
  <2> DEFINE T == {s \in SUBSET D : it[s] = IF i \in s THEN f[i] ELSE 0}
  <2>1. {} \in T
    BY <1>2
  <2>2. ASSUME NEW s \in SUBSET D, s # {} /\ s \ {Pick(s)} \in T PROVE s \in T
    <3> DEFINE p == Pick(s)
               r == s \ {p}
               u == f[p]
               v == it[r]
    <3>1. p \in s /\ p \in D /\ u \in Element /\ v \in Element /\ it[s] = u ++ v
      BY <1>3, <2>2
    <3>2. v = IF i \in r THEN f[i] ELSE 0
      BY <2>2
    <3>3. r = s \ {p} /\ (p = i => u = f[i]) /\ (p # i => u = 0)
      BY <1>4, <3>1
    <3>4. u ++ 0 = u /\ 0 ++ v = v
      <4> HIDE DEF u, v
      <4> QED
        BY ONLY <3>1, FieldLaws
    <3>5. it[s] = IF i \in s THEN f[i] ELSE 0
      <4> HIDE DEF p, r, u, v
      <4> QED
        BY <3>1, <3>2, <3>3, <3>4
    <3> QED
      BY <2>2, <3>5
  <2>3. D \in SUBSET D
    OBVIOUS
  <2> HIDE DEF T
  <2>4. D \in T
    BY <2>1, <2>2, <2>3, PickInduction
  <2> QED
    BY <2>4 DEF T
<1> QED
  BY <1>1, <1>2, <1>4

LEMMA PolZero == \A m \in Nat : [x \in Element |-> 0] \in Pol(m)
<1> DEFINE z == [x \in Element |-> 0]
           T == {m \in Nat : z \in Pol(m)}
<1>1. 0 \in T
  BY PolNext
<1>2. \A m \in Nat : m \in T => m + 1 \in T
  <2> HIDE DEF z
  <2> QED
    BY PolWider
<1>3. \A m \in Nat : m \in T
  <2> HIDE DEF T
  <2> QED
    BY <1>1, <1>2, SetInduction
<1> QED
  BY <1>3

\* A sum of multiples of polynomials is a polynomial.
Multiples(D, pl, v, x) == [i \in D |-> v[i] ** pl[i][x]]

LEMMA SumIsPol ==
  ASSUME NEW D, IsFiniteSet(D), NEW m \in Nat, NEW pl \in [D -> Pol(m)], NEW v \in [D -> Element]
  PROVE  \E f \in Pol(m) : \A x \in Element : f[x] = XorAll(Multiples(D, pl, v, x))
<1> DEFINE F(x) == Multiples(D, pl, v, x)
           IT == [x \in Element |-> CHOOSE it : Combined(it, Plus, 0, F(x), D) /\ XorAll(F(x)) = it[D]]
           T == {s \in SUBSET D : \E f \in Pol(m) : \A x \in Element : f[x] = IT[x][s]}
<1>1. ASSUME NEW x \in Element
      PROVE  F(x) \in [D -> Element] /\ Combined(IT[x], Plus, 0, F(x), D) /\ XorAll(F(x)) = IT[x][D]
  <2>1. F(x) \in [D -> Element]
    <3>1. ASSUME NEW i \in D PROVE v[i] ** pl[i][x] \in Element
      <4> DEFINE y == pl[i][x]
      <4>1. v[i] \in Element /\ pl[i] \in Pol(m)
        OBVIOUS
      <4>2. y \in Element
        BY <4>1, PolTyped
      <4> HIDE DEF y
      <4> QED
        BY <4>1, <4>2, FieldLaws DEF y
    <3> QED
      BY <3>1 DEF Multiples
  <2>2. \E it : Combined(it, Plus, 0, F(x), D) /\ XorAll(F(x)) = it[D]
    <3> HIDE DEF F
    <3> QED
      BY <2>1, FoldsCombine
  <2>3. IT[x] = CHOOSE it : Combined(it, Plus, 0, F(x), D) /\ XorAll(F(x)) = it[D]
    OBVIOUS
  <2> HIDE DEF IT, F
  <2> QED
    BY <2>1, <2>2, <2>3
<1> HIDE DEF IT
<1>2. {} \in T
  <2> DEFINE z == [x \in Element |-> 0]
  <2>1. z \in Pol(m)
    BY PolZero
  <2>2. \A x \in Element : IT[x][{}] = 0
    BY <1>1 DEF Combined
  <2>3. \A x \in Element : z[x] = IT[x][{}]
    BY <2>2
  <2> HIDE DEF z
  <2> QED
    BY <2>1, <2>3
<1>3. ASSUME NEW s \in SUBSET D, s # {} /\ s \ {Pick(s)} \in T PROVE s \in T
  <2> DEFINE p == Pick(s)
             r == s \ {p}
             c == v[p]
             g == pl[p]
  <2>1. PICK q \in Pol(m) : \A x \in Element : q[x] = IT[x][r]
    BY <1>3
  <2>2. p \in D /\ c \in Element /\ g \in Pol(m)
    <3>1. p \in D
      BY <1>3, PickIn
    <3> QED
      BY <3>1
  <2>3. \A x \in Element : q[x] \in Element /\ g[x] \in Element
    <3>1. \A x \in Element : q[x] \in Element
      BY ONLY PolTyped, q \in Pol(m)
    <3>2. \A x \in Element : g[x] \in Element
      <4> HIDE DEF g
      <4> QED
        BY ONLY PolTyped, <2>2
    <3> QED
      BY <3>1, <3>2
  <2>4. ASSUME NEW x \in Element
        PROVE  IT[x][s] = (c ** g[x]) ++ q[x]
    <3>1. F(x) \in [D -> Element] /\ Combined(IT[x], Plus, 0, F(x), D)
      BY <1>1
    <3>2. IT[x][s] = Plus[F(x)[p]][IT[x][r]]
      <4> HIDE DEF F
      <4>1. GoesOn(IT[x], Plus, F(x), D, s)
        BY <1>3, <3>1, CombinedStep
      <4> QED
        BY <4>1 DEF GoesOn
    <3>3. F(x)[p] = c ** g[x]
      BY <2>2 DEF Multiples
    <3> QED
      BY <2>1, <3>2, <3>3 DEF ++
  <2> DEFINE y == [x \in Element |-> c ** g[x]]
             h == [x \in Element |-> y[x] ++ q[x]]
  <2> HIDE DEF p, r, c, g, T
  <2>5. \A x \in Element : c ** g[x] \in Element
    BY <2>2, <2>3, FieldLaws
  <2>6. IsMultiple(y, c, g)
    BY <2>5 DEF IsMultiple
  <2>7. y \in Pol(m)
    <3> HIDE DEF y
    <3> QED
      BY <2>2, <2>6, PolMultiple
  <2>8. \A x \in Element : y[x] \in Element /\ y[x] = c ** g[x]
    BY <2>5
  <2> HIDE DEF y
  <2>9. \A x \in Element : y[x] ++ q[x] \in Element
    BY <2>3, <2>8, FieldLaws
  <2>10. IsSum(h, y, q)
    BY <2>9 DEF IsSum
  <2>11. h \in Pol(m)
    <3> HIDE DEF h
    <3> QED
      BY <2>7, <2>10, PolSum
  <2>12. \A x \in Element : h[x] = IT[x][s]
    BY <2>4, <2>8
  <2> HIDE DEF h
  <2> QED
    BY <2>11, <2>12 DEF T
<1>4. D \in T
  <2>1. D \in SUBSET D
    OBVIOUS
  <2> HIDE DEF T
  <2> QED
    BY <1>2, <1>3, <2>1, PickInduction
<1>5. PICK f \in Pol(m) : \A x \in Element : f[x] = IT[x][D]
  BY <1>4 DEF T
<1> HIDE DEF T
<1>6. \A x \in Element : XorAll(F(x)) = IT[x][D]
  BY <1>1
<1> HIDE DEF IT
<1> QED
  BY ONLY <1>5, <1>6, Zenon

\* m values determine a polynomial of m coefficients.
LEMMA PolUnique ==
  ASSUME NEW m \in Nat, NEW f \in Pol(m), NEW g \in Pol(m), NEW xs \in [1..m -> Element],
         \A i, j \in 1..m : xs[i] = xs[j] => i = j, \A i \in 1..m : f[xs[i]] = g[xs[i]]
  PROVE  \A x \in Element : f[x] = g[x]
<1> DEFINE h == [x \in Element |-> f[x] ++ g[x]]
<1>1. \A x \in Element : f[x] \in Element /\ g[x] \in Element
  BY PolTyped
<1>2. \A x \in Element : f[x] ++ g[x] \in Element
  BY <1>1, FieldLaws
<1>3. h \in Pol(m)
  <2>1. IsSum(h, f, g)
    BY <1>2 DEF IsSum
  <2> HIDE DEF h
  <2> QED
    BY <2>1, PolSum
<1>4. Roots(xs, m, h)
  <2>1. ASSUME NEW i \in 1..m PROVE h[xs[i]] = 0
    <3> DEFINE u == f[xs[i]]
    <3>1. xs[i] \in Element
      OBVIOUS
    <3>2. u \in Element /\ h[xs[i]] = u ++ u
      BY <1>1, <3>1
    <3> HIDE DEF u
    <3>3. u ++ u = 0
      BY <3>2, FieldLaws
    <3> QED
      BY <3>2, <3>3
  <2> QED
    BY <2>1 DEF Roots
<1>5. \A x \in Element : h[x] = 0
  <2> HIDE DEF h
  <2> QED
    BY <1>3, <1>4, PolRoots
<1>6. ASSUME NEW x \in Element PROVE f[x] = g[x]
  <2> DEFINE u == f[x]
             v == g[x]
  <2>1. u \in Element /\ v \in Element /\ u ++ v = 0
    BY <1>1, <1>5
  <2> HIDE DEF u, v
  <2>2. u = v
    BY <2>1, FieldFacts
  <2> QED
    BY <2>2 DEF u, v
<1> QED
  BY <1>6

\* A polynomial is what ValueAt computes from some coefficients.
LEMMA PolValueAt ==
  ASSUME NEW m \in Nat, NEW f \in Pol(m)
  PROVE  \E coef \in [1..m -> Element] : \A x \in Element : f[x] = ValueAt(coef, x)
<1>0. PICK coef \in [1..m -> Element] : \E h : Evaluates(h, coef, m) /\ f = h[m]
  BY DEF Pol
<1>1. PICK h : Evaluates(h, coef, m) /\ f = h[m]
  BY <1>0
<1>2. \A x \in Element : ValueAt(coef, x) = h[m][x]
  BY <1>1, ValueAtIs
<1> QED
  BY <1>1, <1>2

\* The abscissae of a coder: different elements.
Abscissae(ix) == ix \in Seq(Element) /\ IsInjective(ix)

\* A Lagrange factor is a polynomial with a coefficient for each abscissa; it is 1 at its own
\* abscissa and 0 at the others.
LEMMA LagrangeLaws ==
  ASSUME NEW ix, Abscissae(ix), NEW i \in DOMAIN ix
  PROVE  \E f \in Pol(Len(ix)) :
           /\ \A x \in Element : f[x] = lagrange(ix, i, x)
           /\ f[ix[i]] = 1 /\ \A h \in DOMAIN ix : h # i => f[ix[h]] = 0
<1> DEFINE n == Len(ix)
           D == (DOMAIN ix) \ {i}
           a == [k \in D |-> ix[k]]
           w == [k \in D |-> inv[ix[i] ++ ix[k]]]
           F(x) == Terms(D, a, w, x)
<1>1. DOMAIN ix = 1..n /\ n \in Nat /\ \A h \in DOMAIN ix : ix[h] \in Element
  BY DEF Abscissae
<1>2. IsFiniteSet(D) /\ Cardinality(D) + 1 = n
  <2>1. IsFiniteSet(1..n) /\ Cardinality(1..n) = n
    <3> HIDE DEF n
    <3> QED
      BY <1>1, FS_Interval
  <2>2. i \in 1..n
    BY <1>1
  <2> HIDE DEF n
  <2>3. IsFiniteSet(D) /\ Cardinality(D) = Cardinality(1..n) - 1
    BY <1>1, <2>1, <2>2, FS_RemoveElement
  <2> QED
    BY <1>1, <2>1, <2>3
<1>3. ASSUME NEW h \in DOMAIN ix, h # i
      PROVE  LET d == ix[i] ++ ix[h] IN d \in Element /\ d # 0 /\ inv[d] \in Element /\ d ** inv[d] = 1
  <2> DEFINE p == ix[i]
             q == ix[h]
             d == p ++ q
             e == inv[d]
  <2>1. p \in Element /\ q \in Element /\ p # q
    BY <1>1, <1>3 DEF Abscissae, IsInjective
  <2> HIDE DEF p, q
  <2>2. d \in Element /\ d # 0
    BY <2>1, FieldLaws, FieldFacts
  <2> HIDE DEF d
  <2>3. e \in Element /\ d ** e = 1
    BY <2>2, FieldLaws
  <2> QED
    BY <2>2, <2>3 DEF p, q, d
<1>4. a \in [D -> Element] /\ w \in [D -> Element]
  BY <1>1, <1>3
<1>5. \A x \in Element : lagrange(ix, i, x) = Product(F(x))
  <2> SUFFICES ASSUME NEW x \in Element PROVE lagrange(ix, i, x) = Product(F(x))
    OBVIOUS
  <2>1. [k \in D |-> Mult[Plus[x][ix[k]]][inv[Plus[ix[i]][ix[k]]]]] = F(x)
    BY DEF Terms, ++, **
  <2> QED
    BY <2>1 DEF lagrange
<1>6. PICK f \in Pol(Cardinality(D) + 1) : \A x \in Element : f[x] = Product(F(x))
  <2> HIDE DEF D, a, w
  <2> QED
    BY <1>2, <1>4, ProductIsPol
<1>7. f \in Pol(n)
  BY <1>2, <1>6
<1>8. f[ix[i]] = 1
  <2> DEFINE p == ix[i]
  <2>1. p \in Element
    BY <1>1
  <2>2. F(p) \in [D -> Element]
    <3> HIDE DEF D, a, w, p
    <3> QED
      BY <1>4, <2>1, TermsTyped
  <2>3. \A h \in D : F(p)[h] = 1
    BY <1>3 DEF Terms
  <2>4. Product(F(p)) = 1
    <3> HIDE DEF D, F, p
    <3> QED
      BY <1>2, <2>2, <2>3, ProductOf
  <2> QED
    BY <1>6, <2>1, <2>4
<1>9. ASSUME NEW h \in DOMAIN ix, h # i PROVE f[ix[h]] = 0
  <2> DEFINE p == ix[h]
             e == w[h]
  <2>1. p \in Element /\ h \in D /\ a[h] = p /\ e \in Element
    BY <1>1, <1>4, <1>9
  <2>2. F(p) \in [D -> Element]
    <3> HIDE DEF D, a, w, p
    <3> QED
      BY <1>4, <2>1, TermsTyped
  <2>3. F(p)[h] = 0
    <3>1. F(p)[h] = (p ++ p) ** e
      <4> HIDE DEF D, a, w, p
      <4> QED
        BY <2>1 DEF Terms, e
    <3> HIDE DEF p, e
    <3>2. p ++ p = 0
      BY ONLY <2>1, FieldLaws
    <3>3. 0 ** e = 0
      BY ONLY <2>1, FieldLaws
    <3> QED
      BY <3>1, <3>2, <3>3 DEF p
  <2>4. Product(F(p)) = 0
    <3> HIDE DEF D, F, p
    <3> QED
      BY <1>2, <2>1, <2>2, <2>3, ProductOf
  <2> QED
    BY <1>6, <2>1, <2>4
<1> QED
  BY <1>5, <1>6, <1>7, <1>8, <1>9

\* The interpolation of v: the sum of the Lagrange factors at x, each with its value.
Interpolated(ix, v, x) == XorAll([i \in DOMAIN ix |-> v[i] ** lagrange(ix, i, x)])

\* It is a polynomial with as many coefficients as there are abscissae, through the values.
LEMMA Interpolation ==
  ASSUME NEW ix, Abscissae(ix), NEW v \in [DOMAIN ix -> Element]
  PROVE  \E f \in Pol(Len(ix)) :
           /\ \A x \in Element : f[x] = Interpolated(ix, v, x)
           /\ \A i \in DOMAIN ix : f[ix[i]] = v[i]
<1> DEFINE n == Len(ix)
           D == DOMAIN ix
           Factor(i, f) == /\ \A x \in Element : f[x] = lagrange(ix, i, x)
                           /\ f[ix[i]] = 1 /\ \A h \in DOMAIN ix : h # i => f[ix[h]] = 0
           pl == [i \in D |-> CHOOSE f \in Pol(n) : Factor(i, f)]
<1>1. D = 1..n /\ n \in Nat /\ IsFiniteSet(D) /\ \A h \in D : ix[h] \in Element
  <2>1. D = 1..n /\ n \in Nat /\ \A h \in D : ix[h] \in Element
    BY DEF Abscissae
  <2> QED
    BY <2>1, FS_Interval
<1>2. ASSUME NEW i \in D PROVE pl[i] \in Pol(n) /\ Factor(i, pl[i])
  <2>1. \E f \in Pol(n) : Factor(i, f)
    BY LagrangeLaws
  <2>2. pl[i] = CHOOSE f \in Pol(n) : Factor(i, f)
    OBVIOUS
  <2> HIDE DEF Factor, pl, n
  <2> QED
    BY <2>1, <2>2
<1>3. pl \in [D -> Pol(n)]
  <2>1. \A i \in D : pl[i] \in Pol(n)
    BY <1>2
  <2>2. pl = [i \in D |-> pl[i]]
    OBVIOUS
  <2> HIDE DEF pl, D, n
  <2> QED
    BY <2>1, <2>2
<1>4. \A i \in D : Factor(i, pl[i])
  BY <1>2
<1> HIDE DEF pl
<1>5. PICK f \in Pol(n) : \A x \in Element : f[x] = XorAll(Multiples(D, pl, v, x))
  <2>1. v \in [D -> Element]
    OBVIOUS
  <2> HIDE DEF D, n
  <2> QED
    BY <1>1, <1>3, <2>1, SumIsPol
<1>6. ASSUME NEW x \in Element PROVE f[x] = Interpolated(ix, v, x)
  <2>1. Multiples(D, pl, v, x) = [i \in D |-> v[i] ** lagrange(ix, i, x)]
    BY <1>4 DEF Multiples
  <2> QED
    BY <1>5, <2>1 DEF Interpolated
<1>7. ASSUME NEW i \in D PROVE f[ix[i]] = v[i]
  <2> DEFINE x == ix[i]
             g == [h \in D |-> v[h] ** pl[h][x]]
             u == v[i]
  <2>1. x \in Element /\ u \in Element
    BY <1>1
  <2>2. u ** 1 = u
    BY <2>1, FieldLaws
  <2>3. g[i] = u
    BY <1>4, <2>2
  <2>4. \A h \in D : h # i => g[h] = 0
    <3> SUFFICES ASSUME NEW h \in D, h # i PROVE g[h] = 0
      OBVIOUS
    <3> DEFINE y == v[h]
    <3>1. y \in Element /\ g[h] = y ** 0
      BY <1>4
    <3> HIDE DEF y, g
    <3> QED
      BY <3>1, FieldLaws
  <2>5. g \in [D -> Element]
    <3>1. \A h \in D : g[h] \in Element
      BY <2>1, <2>3, <2>4, FieldLaws
    <3>2. g = [h \in D |-> g[h]]
      OBVIOUS
    <3> HIDE DEF g
    <3> QED
      BY <3>1, <3>2
  <2>6. XorAll(g) = u
    <3> HIDE DEF g, D, u
    <3> QED
      BY <1>1, <2>3, <2>4, <2>5, XorAllOf
  <2>7. g = Multiples(D, pl, v, x)
    BY DEF Multiples
  <2> QED
    BY <1>5, <2>1, <2>6, <2>7
<1> QED
  BY <1>5, <1>6, <1>7

-----------------------------------------------------------------------------
(* Code.                                                                   *)

\* rows are n rows of l elements.
Rectangle(rows, n, l) ==
  rows \in Seq(Seq(Element)) /\ Len(rows) = n /\ \A i \in 1..n : Len(rows[i]) = l

LEMMA RectangleRows ==
  ASSUME NEW n \in Nat, NEW l \in Nat, NEW rows, Rectangle(rows, n, l)
  PROVE  /\ DOMAIN rows = 1..n
         /\ \A i \in 1..n : rows[i] \in Seq(Element) /\ DOMAIN rows[i] = 1..l
         /\ \A i \in 1..n, j \in 1..l : rows[i][j] \in Element
<1>1. DOMAIN rows = 1..n /\ \A i \in 1..n : rows[i] \in Seq(Element) /\ Len(rows[i]) = l
  BY DEF Rectangle
<1> QED
  BY <1>1

\* Column j of rows.
Column(rows, j) == [i \in DOMAIN rows |-> rows[i][j]]

\* The rows Code returns hold the values of the interpolation of each column.
LEMMA CodeInterpolates ==
  ASSUME NEW ix, Abscissae(ix), ix # <<>>, NEW ox \in Seq(Element),
         NEW l \in Nat, NEW m, Rectangle(m, Len(ix), l)
  PROVE  LET rows == coded(interpOf(ix, ox), m)
         IN  /\ Rectangle(rows, Len(ox), l)
             /\ \A h \in 1..Len(ox), j \in 1..l :
                  rows[h][j] = Interpolated(ix, Column(m, j), ox[h])
             /\ \A j \in 1..l : Column(m, j) \in [DOMAIN ix -> Element]
<1> DEFINE n == Len(ix)
           o == Len(ox)
           rows == coded(interpOf(ix, ox), m)
           E(h, j) == Interpolated(ix, Column(m, j), ox[h])
<1>1. n \in Nat \ {0} /\ DOMAIN ix = 1..n /\ o \in Nat /\ DOMAIN ox = 1..o /\ 1 \in 1..n
      /\ (\A h \in 1..o : ox[h] \in Element)
  BY DEF Abscissae
<1>2. DOMAIN m = 1..n /\ (\A i \in 1..n : DOMAIN m[i] = 1..l) /\ \A i \in 1..n, j \in 1..l : m[i][j] \in Element
  <2> HIDE DEF n
  <2>1. Rectangle(m, n, l) /\ n \in Nat
    BY <1>1 DEF n
  <2> QED
    BY <2>1, RectangleRows
<1>3. \A j \in 1..l : Column(m, j) \in [1..n -> Element]
  BY <1>2 DEF Column
<1>4. rows = [h \in 1..o |-> [j \in 1..l |-> E(h, j)]]
  <2>1. DOMAIN interpOf(ix, ox)[1] = 1..o
    BY <1>1 DEF interpOf
  <2>2. ASSUME NEW h \in 1..o, NEW j \in 1..l
        PROVE  XorAll([i \in DOMAIN m |-> Mult[m[i][j]][interpOf(ix, ox)[i][h]]]) = E(h, j)
    <3>1. [i \in DOMAIN m |-> Mult[m[i][j]][interpOf(ix, ox)[i][h]]]
            = [i \in DOMAIN ix |-> Column(m, j)[i] ** lagrange(ix, i, ox[h])]
      BY <1>1, <1>2 DEF interpOf, Column, **
    <3> QED
      BY <3>1 DEF Interpolated
  <2>3. DOMAIN m[1] = 1..l
    BY <1>1, <1>2
  <2>4. rows = [h \in 1..o |-> [j \in 1..l |->
                  XorAll([i \in DOMAIN m |-> Mult[m[i][j]][interpOf(ix, ox)[i][h]]])]]
    BY <2>1, <2>3 DEF coded
  <2> HIDE DEF E, rows, o, n
  <2> QED
    BY <2>2, <2>4
<1>5. ASSUME NEW h \in 1..o, NEW j \in 1..l PROVE E(h, j) \in Element
  <2> DEFINE v == Column(m, j)
             x == ox[h]
  <2>1. v \in [DOMAIN ix -> Element] /\ x \in Element
    BY <1>1, <1>3
  <2> HIDE DEF v
  <2>2. PICK f \in Pol(Len(ix)) : \A y \in Element : f[y] = Interpolated(ix, v, y)
    BY <2>1, Interpolation
  <2>3. \A y \in Element : f[y] \in Element
    BY ONLY PolTyped, f \in Pol(Len(ix))
  <2>4. f[x] \in Element /\ f[x] = Interpolated(ix, v, x)
    BY <2>1, <2>2, <2>3
  <2> QED
    BY <2>4 DEF v
<1>6. Rectangle(rows, o, l)
  <2> HIDE DEF E, rows
  <2>1. \A h \in 1..o : [j \in 1..l |-> E(h, j)] \in Seq(Element) /\ Len([j \in 1..l |-> E(h, j)]) = l
    <3> SUFFICES ASSUME NEW h \in 1..o
                 PROVE  [j \in 1..l |-> E(h, j)] \in Seq(Element) /\ Len([j \in 1..l |-> E(h, j)]) = l
      OBVIOUS
    <3>1. [j \in 1..l |-> E(h, j)] \in [1..l -> Element]
      BY <1>5
    <3> QED
      BY <3>1
  <2>2. \A h \in 1..o : rows[h] = [j \in 1..l |-> E(h, j)]
    BY <1>4
  <2>3. rows \in [1..o -> Seq(Element)] /\ \A h \in 1..o : Len(rows[h]) = l
    <3>1. DOMAIN rows = 1..o /\ rows = [h \in 1..o |-> rows[h]]
      BY <1>4
    <3>2. \A h \in 1..o : rows[h] \in Seq(Element) /\ Len(rows[h]) = l
      BY <2>1, <2>2
    <3> QED
      BY <3>1, <3>2
  <2>4. rows \in Seq(Seq(Element)) /\ Len(rows) = o
    <3> HIDE DEF o
    <3> QED
      BY <1>1, <2>3
  <2> QED
    BY <2>3, <2>4 DEF Rectangle
<1>7. \A h \in 1..o, j \in 1..l : rows[h][j] = E(h, j)
  <2> HIDE DEF E, rows
  <2> QED
    BY <1>4
<1> QED
  BY <1>1, <1>3, <1>6, <1>7

\* Each column of rows holds the values of one polynomial at the abscissae xs.
OnPolynomials(n, xs, rows, l) ==
  \A j \in 1..l : \E f \in Pol(n) : \A i \in 1..Len(xs) : rows[i][j] = f[xs[i]]

\* Inputs and outputs together are on polynomials.
LEMMA CodeOnPolynomials ==
  ASSUME NEW ix, Abscissae(ix), ix # <<>>, NEW ox \in Seq(Element),
         NEW l \in Nat, NEW m, Rectangle(m, Len(ix), l)
  PROVE  LET rows == m \o coded(interpOf(ix, ox), m)
             xs == ix \o ox
         IN  /\ Rectangle(rows, Len(xs), l) /\ OnPolynomials(Len(ix), xs, rows, l)
             /\ xs \in Seq(Element)
<1> DEFINE n == Len(ix)
           o == Len(ox)
           c == coded(interpOf(ix, ox), m)
           xs == ix \o ox
           rows == m \o c
<1>1. ix \in Seq(Element) /\ n \in Nat /\ o \in Nat /\ DOMAIN ix = 1..n
  BY DEF Abscissae
<1>2. Rectangle(c, o, l) /\ (\A j \in 1..l : Column(m, j) \in [1..n -> Element])
      /\ \A h \in 1..o, j \in 1..l : c[h][j] = Interpolated(ix, Column(m, j), ox[h])
  <2> HIDE DEF o, n
  <2>1. Rectangle(m, n, l)
    BY DEF n
  <2> QED
    BY <1>1, CodeInterpolates DEF o, n
<1>3. m \in Seq(Seq(Element)) /\ c \in Seq(Seq(Element)) /\ Len(m) = n /\ Len(c) = o
      /\ (\A i \in 1..n : Len(m[i]) = l) /\ \A h \in 1..o : Len(c[h]) = l
  BY <1>2 DEF Rectangle
<1> HIDE DEF c
<1>4. xs \in Seq(Element) /\ Len(xs) = n + o
      /\ (\A i \in 1..n : xs[i] = ix[i]) /\ \A i \in n+1..n+o : xs[i] = ox[i - n]
  BY <1>1, ConcatProperties
<1>5. rows \in Seq(Seq(Element)) /\ Len(rows) = n + o
      /\ (\A i \in 1..n : rows[i] = m[i]) /\ \A i \in n+1..n+o : rows[i] = c[i - n]
  <2>1. rows \in Seq(Seq(Element)) /\ Len(rows) = Len(m) + Len(c)
        /\ \A i \in 1..Len(m)+Len(c) : rows[i] = IF i <= Len(m) THEN m[i] ELSE c[i - Len(m)]
    BY ONLY <1>3, ConcatProperties
  <2>2. n \in Nat /\ o \in Nat /\ Len(m) = n /\ Len(c) = o
    BY <1>1, <1>3
  <2> HIDE DEF rows, n, o
  <2> QED
    BY <2>1, <2>2
<1> HIDE DEF xs, rows
<1>6. \A i \in 1..n+o : Len(rows[i]) = l
  <2> SUFFICES ASSUME NEW i \in 1..n+o PROVE Len(rows[i]) = l
    OBVIOUS
  <2> HIDE DEF n, o
  <2>1. CASE i \in 1..n
    BY <1>3, <1>5, <2>1
  <2>2. CASE i \in n+1..n+o
    <3>1. i - n \in 1..o
      BY <1>1, <2>2
    <3> QED
      BY <1>3, <1>5, <2>2, <3>1
  <2> QED
    BY <1>1, <2>1, <2>2
<1>7. ASSUME NEW j \in 1..l
      PROVE  \E f \in Pol(n) : \A i \in 1..n+o : rows[i][j] = f[xs[i]]
  <2> DEFINE v == Column(m, j)
  <2>1. v \in [DOMAIN ix -> Element] /\ \A i \in 1..n : v[i] = m[i][j]
    <3>1. DOMAIN m = 1..n
      BY <1>3
    <3> QED
      BY <1>1, <1>2, <3>1 DEF Column
  <2>2. \A h \in 1..o : c[h][j] = Interpolated(ix, v, ox[h])
    BY <1>2
  <2> HIDE DEF v
  <2>3. PICK f \in Pol(n) : (\A x \in Element : f[x] = Interpolated(ix, v, x))
                            /\ \A i \in DOMAIN ix : f[ix[i]] = v[i]
    BY <2>1, Interpolation
  <2>4. \A h \in 1..o : ox[h] \in Element
    OBVIOUS
  <2>5. ASSUME NEW i \in 1..n+o PROVE rows[i][j] = f[xs[i]]
    <3> HIDE DEF n, o
    <3>1. CASE i \in 1..n
      <4>1. rows[i] = m[i] /\ xs[i] = ix[i] /\ v[i] = m[i][j]
        BY <1>4, <1>5, <2>1, <3>1
      <4>2. f[ix[i]] = v[i]
        BY <1>1, <2>3, <3>1
      <4> QED
        BY ONLY <4>1, <4>2
    <3>2. CASE i \in n+1..n+o
      <4>1. i - n \in 1..o
        BY <1>1, <3>2
      <4>2. rows[i] = c[i - n] /\ xs[i] = ox[i - n]
        BY <1>4, <1>5, <3>2
      <4>3. ox[i - n] \in Element /\ c[i - n][j] = Interpolated(ix, v, ox[i - n])
        BY <2>2, <2>4, <4>1
      <4>4. f[ox[i - n]] = Interpolated(ix, v, ox[i - n])
        BY <2>3, <4>3
      <4> QED
        BY ONLY <4>2, <4>3, <4>4
    <3> QED
      BY <1>1, <3>1, <3>2
  <2> QED
    BY <2>3, <2>5
<1>8. Rectangle(rows, Len(xs), l)
  BY <1>4, <1>5, <1>6 DEF Rectangle
<1>9. OnPolynomials(n, xs, rows, l)
  <2> HIDE DEF n, o
  <2>1. 1..Len(xs) = 1..n+o
    BY <1>4
  <2>2. \A j \in 1..l : \E f \in Pol(n) : \A i \in 1..Len(xs) : rows[i][j] = f[xs[i]]
    <3> SUFFICES ASSUME NEW j \in 1..l PROVE \E f \in Pol(n) : \A i \in 1..Len(xs) : rows[i][j] = f[xs[i]]
      OBVIOUS
    <3>1. PICK f \in Pol(n) : \A i \in 1..n+o : rows[i][j] = f[xs[i]]
      BY <1>7
    <3> QED
      BY ONLY <2>1, <3>1
  <2> QED
    BY ONLY <2>2 DEF OnPolynomials
<1> QED
  BY <1>4, <1>8, <1>9 DEF xs, rows, c

\* What is on a polynomial is so for ValueAt.
LEMMA OnOnePolynomial ==
  ASSUME NEW n \in Nat, NEW xs \in Seq(Element), NEW rows, NEW l, OnPolynomials(n, xs, rows, l), NEW j \in 1..l
  PROVE  OnePolynomial(n, xs, rows, j)
<1>1. PICK f \in Pol(n) : \A i \in 1..Len(xs) : rows[i][j] = f[xs[i]]
  BY DEF OnPolynomials
<1>2. PICK coef \in [1..n -> Element] : \A x \in Element : f[x] = ValueAt(coef, x)
  BY PolValueAt
<1>3. DOMAIN xs = 1..Len(xs) /\ \A i \in DOMAIN xs : xs[i] \in Element
  OBVIOUS
<1>4. \A i \in DOMAIN xs : rows[i][j] = ValueAt(coef, xs[i])
  BY <1>1, <1>2, <1>3
<1> QED
  BY <1>4 DEF OnePolynomial

\* SetToSeq enumerates a finite set.
LEMMA Enumerates ==
  ASSUME NEW S, IsFiniteSet(S)
  PROVE  LET e == SetToSeq(S)
         IN  /\ e \in [1..Cardinality(S) -> S]
             /\ \A i, j \in 1..Cardinality(S) : e[i] = e[j] => i = j
<1> DEFINE n == Cardinality(S)
<1>1. ExistsBijection(1..n, S)
  BY FS_CardinalityType
<1>2. \E f \in [1..n -> S] : IsInjective(f)
  <2> HIDE DEF n
  <2> QED
    BY <1>1 DEF ExistsBijection, Bijection, Injection
<1>3. SetToSeq(S) \in [1..n -> S] /\ IsInjective(SetToSeq(S))
  <2> HIDE DEF n
  <2>1. SetToSeq(S) = CHOOSE f \in [1..n -> S] : IsInjective(f)
    BY DEF SetToSeq, n
  <2> QED
    BY <1>2, <2>1
<1> QED
  BY <1>3 DEF IsInjective

\* Where the columns of rows are on polynomials, any n rows give all back.
LEMMA Rebuilds ==
  ASSUME NEW n \in Nat \ {0}, NEW l \in Nat, NEW xs \in Seq(Element), NEW rows,
         Rectangle(rows, Len(xs), l), OnPolynomials(n, xs, rows, l)
  PROVE  AnyRebuild(n, xs, rows)
<1>1. DOMAIN xs = 1..Len(xs) /\ Len(xs) \in Nat /\ \A i \in 1..Len(xs) : xs[i] \in Element
  OBVIOUS
<1> SUFFICES ASSUME NEW S \in kSubset(n, DOMAIN xs)
             PROVE  LET pick == SetToSeq(S)
                        ix == [i \in DOMAIN pick |-> xs[pick[i]]]
                    IN  IsInjective(ix)
                          => coded(interpOf(ix, xs), [i \in DOMAIN pick |-> rows[pick[i]]]) = rows
  BY DEF AnyRebuild
<1> DEFINE pick == SetToSeq(S)
           ix == [i \in DOMAIN pick |-> xs[pick[i]]]
           m == [i \in DOMAIN pick |-> rows[pick[i]]]
           c == coded(interpOf(ix, xs), m)
<1>2. S \in SUBSET (1..Len(xs)) /\ Cardinality(S) = n
  BY <1>1 DEF kSubset
<1>3. IsFiniteSet(S)
  <2>1. IsFiniteSet(1..Len(xs))
    BY <1>1, FS_Interval
  <2> QED
    BY <1>2, <2>1, FS_Subset
<1>4. pick \in [1..n -> S] /\ DOMAIN pick = 1..n /\ \A i \in 1..n : pick[i] \in 1..Len(xs)
  <2>1. pick \in [1..n -> S]
    BY <1>2, <1>3, Enumerates
  <2> HIDE DEF pick
  <2> QED
    BY <1>2, <2>1
<1> HIDE DEF pick
<1>5. ix \in [1..n -> Element] /\ \A i \in 1..n : ix[i] = xs[pick[i]]
  BY <1>1, <1>4
<1>6. ix \in Seq(Element) /\ Len(ix) = n /\ DOMAIN ix = 1..n
  <2> HIDE DEF ix
  <2> QED
    BY <1>5
<1>7. Rectangle(m, n, l) /\ DOMAIN m = 1..n /\ \A i \in 1..n : m[i] = rows[pick[i]]
  <2>1. DOMAIN m = 1..n /\ \A i \in 1..n : m[i] = rows[pick[i]]
    BY <1>4
  <2>2. \A i \in 1..n : rows[pick[i]] \in Seq(Element) /\ Len(rows[pick[i]]) = l
    BY <1>4, RectangleRows DEF Rectangle
  <2>3. m \in [1..n -> Seq(Element)] /\ \A i \in 1..n : Len(m[i]) = l
    <3>1. m = [i \in 1..n |-> rows[pick[i]]]
      BY <1>4
    <3> HIDE DEF m
    <3> QED
      BY <2>2, <3>1
  <2>4. m \in Seq(Seq(Element)) /\ Len(m) = n
    <3> HIDE DEF m
    <3> QED
      BY <2>3
  <2> QED
    BY <2>1, <2>3, <2>4 DEF Rectangle
<1> HIDE DEF ix, m
<1> SUFFICES ASSUME IsInjective(ix) PROVE c = rows
  BY DEF c, ix, m, pick
<1>8. Abscissae(ix) /\ ix # <<>>
  <2>1. Len(ix) # 0
    BY <1>6
  <2> QED
    BY <1>6, <2>1 DEF Abscissae
<1>9. /\ Rectangle(c, Len(xs), l)
      /\ \A h \in 1..Len(xs), j \in 1..l : c[h][j] = Interpolated(ix, Column(m, j), xs[h])
      /\ \A j \in 1..l : Column(m, j) \in [DOMAIN ix -> Element]
  <2>1. Rectangle(m, Len(ix), l)
    BY <1>6, <1>7
  <2> QED
    BY <1>8, <2>1, CodeInterpolates
<1> HIDE DEF c
<1>10. ASSUME NEW h \in 1..Len(xs), NEW j \in 1..l PROVE c[h][j] = rows[h][j]
  <2> DEFINE v == Column(m, j)
  <2>1. PICK f \in Pol(n) : \A i \in 1..Len(xs) : rows[i][j] = f[xs[i]]
    BY DEF OnPolynomials
  <2>2. v \in [DOMAIN ix -> Element] /\ \A i \in 1..n : v[i] = m[i][j]
    BY <1>7, <1>9 DEF Column
  <2>3. PICK g \in Pol(n) : (\A x \in Element : g[x] = Interpolated(ix, v, x))
                            /\ \A i \in DOMAIN ix : g[ix[i]] = v[i]
    <3> HIDE DEF v
    <3> QED
      BY <1>6, <1>8, <2>2, Interpolation
  <2>4. \A i \in 1..n : g[ix[i]] = f[ix[i]]
    <3> SUFFICES ASSUME NEW i \in 1..n PROVE g[ix[i]] = f[ix[i]]
      OBVIOUS
    <3> HIDE DEF v
    <3>1. g[ix[i]] = v[i] /\ v[i] = m[i][j]
      BY <1>6, <2>2, <2>3
    <3>2. m[i] = rows[pick[i]] /\ ix[i] = xs[pick[i]] /\ pick[i] \in 1..Len(xs)
      BY <1>4, <1>5, <1>7
    <3>3. rows[pick[i]][j] = f[xs[pick[i]]]
      BY <2>1, <3>2
    <3> QED
      BY ONLY <3>1, <3>2, <3>3
  <2>5. \A x \in Element : g[x] = f[x]
    <3>1. \A i, k \in 1..n : ix[i] = ix[k] => i = k
      BY <1>6 DEF IsInjective
    <3>2. n \in Nat
      OBVIOUS
    <3> QED
      BY ONLY <1>5, <2>4, <3>1, <3>2, f \in Pol(n), g \in Pol(n), PolUnique
  <2>6. xs[h] \in Element
    BY <1>1
  <2>7. c[h][j] = g[xs[h]]
    <3>1. c[h][j] = Interpolated(ix, v, xs[h])
      BY <1>9
    <3> HIDE DEF v
    <3> QED
      BY <2>3, <2>6, <3>1
  <2> QED
    BY <2>1, <2>5, <2>6, <2>7
<1>11. \A h \in 1..Len(xs) : c[h] = rows[h]
  <2> SUFFICES ASSUME NEW h \in 1..Len(xs) PROVE c[h] = rows[h]
    OBVIOUS
  <2>1. /\ c[h] \in Seq(Element) /\ DOMAIN c[h] = 1..l /\ Len(c[h]) = l
        /\ rows[h] \in Seq(Element) /\ DOMAIN rows[h] = 1..l /\ Len(rows[h]) = l
    BY <1>1, <1>9, RectangleRows DEF Rectangle
  <2> QED
    BY <1>10, <2>1, SeqEqual
<1> QED
  <2>1. /\ c \in Seq(Seq(Element)) /\ rows \in Seq(Seq(Element))
        /\ Len(c) = Len(xs) /\ Len(rows) = Len(xs)
    BY <1>9 DEF Rectangle
  <2> QED
    BY <1>11, <2>1, SeqEqual

-----------------------------------------------------------------------------
(* The erasure coder.                                                      *)

LEMMA RectangleOf ==
  ASSUME NEW n \in Nat, NEW l \in Nat, NEW e \in [1..n -> [1..l -> Element]]
  PROVE  Rectangle(e, n, l)
<1>1. \A h \in 1..n : e[h] \in Seq(Element) /\ Len(e[h]) = l
  <2> SUFFICES ASSUME NEW h \in 1..n PROVE e[h] \in Seq(Element) /\ Len(e[h]) = l
    OBVIOUS
  <2> DEFINE r == e[h]
  <2>1. r \in [1..l -> Element]
    OBVIOUS
  <2> HIDE DEF r
  <2>2. r \in Seq(Element) /\ Len(r) = l
    BY <2>1
  <2> QED
    BY <2>2 DEF r
<1>2. e \in [1..n -> Seq(Element)]
  BY <1>1
<1>3. e \in Seq(Seq(Element)) /\ Len(e) = n
  BY <1>2
<1> QED
  BY <1>1, <1>3 DEF Rectangle

LEMMA RectangleEqual ==
  ASSUME NEW n \in Nat, NEW l \in Nat, NEW a, Rectangle(a, n, l), NEW b, Rectangle(b, n, l),
         \A h \in 1..n, j \in 1..l : a[h][j] = b[h][j]
  PROVE  a = b
<1>1. \A h \in 1..n : a[h] = b[h]
  <2> SUFFICES ASSUME NEW h \in 1..n PROVE a[h] = b[h]
    OBVIOUS
  <2>1. /\ a[h] \in Seq(Element) /\ Len(a[h]) = l
        /\ b[h] \in Seq(Element) /\ Len(b[h]) = l
    BY RectangleRows DEF Rectangle
  <2> QED
    BY <2>1, SeqEqual
<1> QED
  <2>1. a \in Seq(Seq(Element)) /\ b \in Seq(Seq(Element)) /\ Len(a) = n /\ Len(b) = n
    BY DEF Rectangle
  <2> QED
    BY <1>1, <2>1, SeqEqual

LEMMA Zeroes ==
  ASSUME NEW n \in Nat, NEW l \in Nat, NEW a, Rectangle(a, n, l)
  PROVE  Rectangle(zeroed(a), n, l) /\ \A h \in 1..n, j \in 1..l : zeroed(a)[h][j] = 0
<1>1. DOMAIN a = 1..n /\ (\A h \in 1..n : DOMAIN a[h] = 1..l) /\ 0 \in Element
  BY RectangleRows, FieldLaws
<1>2. zeroed(a) = [h \in 1..n |-> [j \in 1..l |-> 0]]
  BY <1>1 DEF zeroed
<1>3. zeroed(a) \in [1..n -> [1..l -> Element]]
  BY <1>1, <1>2
<1>4. Rectangle(zeroed(a), n, l)
  BY <1>3, RectangleOf
<1> QED
  BY <1>2, <1>4

LEMMA Pluses ==
  ASSUME NEW n \in Nat, NEW l \in Nat, NEW a, Rectangle(a, n, l), NEW b, Rectangle(b, n, l)
  PROVE  /\ Rectangle(plus(a, b), n, l)
         /\ \A h \in 1..n, j \in 1..l : plus(a, b)[h][j] = a[h][j] ++ b[h][j]
         /\ plus(a, zeroed(a)) = a
<1>1. ASSUME NEW c, Rectangle(c, n, l)
      PROVE  /\ Rectangle(plus(a, c), n, l)
             /\ \A h \in 1..n, j \in 1..l : plus(a, c)[h][j] = a[h][j] ++ c[h][j]
  <2>1. DOMAIN a = 1..n /\ (\A h \in 1..n : DOMAIN a[h] = 1..l)
    BY RectangleRows
  <2>2. \A h \in 1..n, j \in 1..l : a[h][j] \in Element /\ c[h][j] \in Element
    BY <1>1, RectangleRows
  <2>3. plus(a, c) = [h \in 1..n |-> [j \in 1..l |-> a[h][j] ++ c[h][j]]]
    BY <2>1 DEF plus, ++
  <2>4. \A h \in 1..n, j \in 1..l : a[h][j] ++ c[h][j] \in Element
    BY <2>2, FieldLaws
  <2>5. plus(a, c) \in [1..n -> [1..l -> Element]]
    BY <2>3, <2>4
  <2>6. Rectangle(plus(a, c), n, l)
    BY <2>5, RectangleOf
  <2> QED
    BY <2>3, <2>6
<1>2. Rectangle(zeroed(a), n, l) /\ \A h \in 1..n, j \in 1..l : zeroed(a)[h][j] = 0
  BY Zeroes
<1>3. plus(a, zeroed(a)) = a
  <2> DEFINE c == plus(a, zeroed(a))
  <2>1. Rectangle(c, n, l) /\ \A h \in 1..n, j \in 1..l : c[h][j] = a[h][j] ++ 0
    BY <1>1, <1>2
  <2>2. \A h \in 1..n, j \in 1..l : a[h][j] \in Element
    BY RectangleRows
  <2> HIDE DEF c
  <2>3. \A h \in 1..n, j \in 1..l : c[h][j] = a[h][j]
    BY <2>1, <2>2, FieldLaws
  <2>4. c = a
    BY <2>1, <2>3, RectangleEqual
  <2> QED
    BY <2>4 DEF c
<1> QED
  BY <1>1, <1>3

\* The coder's matrix.
LEMMA InterpOf ==
  ASSUME NEW ix, Abscissae(ix), NEW ox \in Seq(Element)
  PROVE  LET t == interpOf(ix, ox)
         IN  /\ t \in [DOMAIN ix -> [DOMAIN ox -> Element]]
             /\ DOMAIN t = 1..Len(ix) /\ Len(t) = Len(ix) /\ Len(ix) \in Nat
             /\ t = <<>> <=> ix = <<>>
             /\ ix # <<>> => Len(t[1]) = Len(ox) /\ Len(ix) > 0
             /\ \A i \in 1..Len(ix), h \in 1..Len(ox) :
                  t[i][h] = lagrange(ix, i, ox[h]) /\ t[i][h] \in Element
<1> DEFINE t == interpOf(ix, ox)
           n == Len(ix)
           o == Len(ox)
<1>1. n \in Nat /\ DOMAIN ix = 1..n /\ o \in Nat /\ DOMAIN ox = 1..o /\ ix \in Seq(Element)
  BY DEF Abscissae
<1>2. t = [i \in 1..n |-> [h \in 1..o |-> lagrange(ix, i, ox[h])]]
  BY <1>1 DEF interpOf
<1>3. ASSUME NEW i \in 1..n, NEW h \in 1..o PROVE lagrange(ix, i, ox[h]) \in Element
  <2>1. PICK f \in Pol(n) : \A x \in Element : f[x] = lagrange(ix, i, x)
    BY <1>1, LagrangeLaws
  <2>2. ox[h] \in Element
    BY <1>1
  <2>3. \A x \in Element : f[x] \in Element
    BY ONLY PolTyped, f \in Pol(n)
  <2> QED
    BY <2>1, <2>2, <2>3
<1>4. t \in [1..n -> [1..o -> Element]]
  BY <1>2, <1>3
<1>5. Len(t) = n /\ (t = <<>> <=> ix = <<>>)
  <2> HIDE DEF t
  <2>1. t \in Seq([1..o -> Element]) /\ Len(t) = n
    <3> HIDE DEF n
    <3> QED
      BY <1>1, <1>4
  <2> QED
    BY <1>1, <2>1, EmptySeq
<1>6. ix # <<>> => Len(t[1]) = o /\ n > 0
  <2> SUFFICES ASSUME ix # <<>> PROVE Len(t[1]) = o /\ n > 0
    OBVIOUS
  <2>1. n > 0
    BY <1>1, EmptySeq
  <2> DEFINE r == t[1]
  <2>2. r \in [1..o -> Element]
    BY <1>1, <1>4, <2>1
  <2> HIDE DEF r
  <2>3. Len(r) = o
    BY <1>1, <2>2
  <2> QED
    BY <2>1, <2>3 DEF r
<1> QED
  <2>1. \A i \in 1..n, h \in 1..o : t[i][h] = lagrange(ix, i, ox[h]) /\ t[i][h] \in Element
    BY <1>2, <1>3
  <2> HIDE DEF t
  <2>2. DOMAIN t = 1..n
    BY <1>4
  <2> QED
    BY <1>1, <1>4, <1>5, <1>6, <2>1, <2>2 DEF t

\* Row q of m changed by delta.
Edited(m, q, delta) == [m EXCEPT ![q] = [j \in DOMAIN delta |-> Plus[m[q][j]][delta[j]]]]

\* delta fits row q of the n rows m.
Edits(m, q, delta, n, l) ==
  Rectangle(m, n, l) /\ q \in 1..n /\ delta \in Seq(Element) /\ Len(delta) = l

LEMMA EditedRows ==
  ASSUME NEW n \in Nat, NEW l \in Nat, NEW m, NEW q, NEW delta, Edits(m, q, delta, n, l)
  PROVE  LET mm == Edited(m, q, delta)
         IN  /\ Rectangle(mm, n, l) /\ \A j \in 1..l : mm[q][j] = m[q][j] ++ delta[j]
             /\ \A i \in 1..n : i # q => mm[i] = m[i]
<1> USE DEF Edits
<1> DEFINE e == [j \in DOMAIN delta |-> Plus[m[q][j]][delta[j]]]
           mm == Edited(m, q, delta)
<1>1. DOMAIN m = 1..n /\ (\A i \in 1..n : m[i] \in Seq(Element) /\ DOMAIN m[i] = 1..l)
      /\ \A i \in 1..n, j \in 1..l : m[i][j] \in Element
  BY RectangleRows
<1>2. DOMAIN delta = 1..l /\ \A j \in 1..l : delta[j] \in Element
  OBVIOUS
<1>3. e \in [1..l -> Element] /\ \A j \in 1..l : e[j] = m[q][j] ++ delta[j]
  <2>1. \A j \in 1..l : m[q][j] ++ delta[j] \in Element
    BY <1>1, <1>2, FieldLaws
  <2>2. e = [j \in 1..l |-> m[q][j] ++ delta[j]]
    BY <1>2 DEF ++
  <2> QED
    BY <2>1, <2>2
<1>4. mm = [m EXCEPT ![q] = e]
  BY DEF Edited
<1> HIDE DEF e, mm
<1>5. DOMAIN mm = 1..n /\ mm[q] = e /\ \A i \in 1..n : i # q => mm[i] = m[i]
  BY <1>1, <1>4
<1>6. Rectangle(mm, n, l)
  <2>1. \A i \in 1..n : m[i] \in [1..l -> Element]
    BY <1>1
  <2>2. \A i \in 1..n : mm[i] \in [1..l -> Element]
    BY <1>3, <1>5, <2>1
  <2>3. mm = [i \in 1..n |-> mm[i]]
    BY <1>1, <1>4, <1>5
  <2>4. mm \in [1..n -> [1..l -> Element]]
    BY <2>2, <2>3
  <2> QED
    BY <2>4, RectangleOf
<1> QED
  BY <1>3, <1>5, <1>6 DEF mm

\* A byte of the rows Code returns.
LEMMA CodeByte ==
  ASSUME NEW ix, Abscissae(ix), ix # <<>>, NEW ox \in Seq(Element),
         NEW l \in Nat, NEW m, Rectangle(m, Len(ix), l), NEW h \in 1..Len(ox), NEW j \in 1..l
  PROVE  coded(interpOf(ix, ox), m)[h][j] = Interpolated(ix, Column(m, j), ox[h])
<1>1. \A k \in 1..Len(ox), i \in 1..l :
        coded(interpOf(ix, ox), m)[k][i] = Interpolated(ix, Column(m, i), ox[k])
  BY CodeInterpolates
<1> QED
  BY ONLY <1>1, h \in 1..Len(ox), j \in 1..l

\* Update adds to each output byte its share of the change of the input row.
LEMMA UpdateKeeps ==
  ASSUME NEW ix, Abscissae(ix), ix # <<>>, NEW ox \in Seq(Element),
         NEW l \in Nat, NEW m, Rectangle(m, Len(ix), l), NEW q \in 1..Len(ix),
         NEW delta \in Seq(Element), Len(delta) = l
  PROVE  LET t == interpOf(ix, ox)
             mm == Edited(m, q, delta)
         IN  /\ Rectangle(mm, Len(ix), l)
             /\ \A h \in 1..Len(ox), j \in 1..l :
                  coded(t, mm)[h][j] = coded(t, m)[h][j] ++ (delta[j] ** t[q][h])
<1> DEFINE n == Len(ix)
           o == Len(ox)
           t == interpOf(ix, ox)
           mm == Edited(m, q, delta)
<1>1. n \in Nat /\ DOMAIN ix = 1..n /\ IsFiniteSet(DOMAIN ix)
  <2>1. n \in Nat /\ DOMAIN ix = 1..n
    BY DEF Abscissae
  <2> QED
    BY <2>1, FS_Interval
<1>2. \A i \in 1..n, j \in 1..l : m[i][j] \in Element
  BY <1>1, RectangleRows
<1>3. DOMAIN delta = 1..l /\ \A j \in 1..l : delta[j] \in Element
  OBVIOUS
<1>4. /\ Rectangle(mm, n, l) /\ (\A j \in 1..l : mm[q][j] = m[q][j] ++ delta[j])
      /\ \A i \in 1..n : i # q => mm[i] = m[i]
  <2>1. Edits(m, q, delta, n, l)
    BY DEF Edits
  <2> HIDE DEF n, mm
  <2>2. /\ Rectangle(Edited(m, q, delta), n, l)
        /\ \A j \in 1..l : Edited(m, q, delta)[q][j] = m[q][j] ++ delta[j]
        /\ \A i \in 1..n : i # q => Edited(m, q, delta)[i] = m[i]
    BY <1>1, <2>1, EditedRows
  <2> QED
    BY <2>2 DEF mm
<1>5. DOMAIN m = 1..n /\ DOMAIN mm = 1..n /\ \A i \in 1..n, j \in 1..l : mm[i][j] \in Element
  <2> HIDE DEF mm, n
  <2>1. Rectangle(m, n, l)
    BY DEF n
  <2> QED
    BY <1>1, <1>4, <2>1, RectangleRows
<1> HIDE DEF mm
<1>6. ASSUME NEW h \in 1..o, NEW j \in 1..l
      PROVE  coded(t, mm)[h][j] = coded(t, m)[h][j] ++ (delta[j] ** t[q][h])
  <2> DEFINE w == [i \in DOMAIN ix |-> lagrange(ix, i, ox[h])]
             f == [i \in DOMAIN ix |-> Column(m, j)[i] ** w[i]]
             g == [i \in DOMAIN ix |-> Column(mm, j)[i] ** w[i]]
             d == delta[j] ** w[q]
  <2>1. coded(t, m)[h][j] = XorAll(f) /\ coded(t, mm)[h][j] = XorAll(g)
    <3>1. coded(t, m)[h][j] = Interpolated(ix, Column(m, j), ox[h])
      <4>1. Rectangle(m, n, l)
        OBVIOUS
      <4> QED
        BY CodeByte
    <3>2. coded(t, mm)[h][j] = Interpolated(ix, Column(mm, j), ox[h])
      BY <1>4, CodeByte
    <3>3. Interpolated(ix, Column(m, j), ox[h]) = XorAll(f)
          /\ Interpolated(ix, Column(mm, j), ox[h]) = XorAll(g)
      <4>1. f = [i \in DOMAIN ix |-> Column(m, j)[i] ** lagrange(ix, i, ox[h])]
            /\ g = [i \in DOMAIN ix |-> Column(mm, j)[i] ** lagrange(ix, i, ox[h])]
        OBVIOUS
      <4> QED
        BY <4>1 DEF Interpolated
    <3> QED
      BY <3>1, <3>2, <3>3
  <2>2. \A i \in 1..n : t[i][h] = w[i] /\ w[i] \in Element
    BY <1>1, InterpOf
  <2>3. \A i \in 1..n : Column(m, j)[i] = m[i][j] /\ Column(mm, j)[i] = mm[i][j]
    BY <1>5 DEF Column
  <2>4. \A i \in 1..n : f[i] = m[i][j] ** w[i] /\ g[i] = mm[i][j] ** w[i]
    BY <1>1, <2>3
  <2>5. \A i \in 1..n : m[i][j] \in Element /\ mm[i][j] \in Element
    BY <1>2, <1>5
  <2>6. DOMAIN f = 1..n /\ DOMAIN g = 1..n
    BY <1>1
  <2> HIDE DEF w
  <2>7. \A i \in 1..n : m[i][j] ** w[i] \in Element /\ mm[i][j] ** w[i] \in Element
    BY <2>2, <2>5, FieldLaws
  <2>8. f \in [1..n -> Element] /\ g \in [1..n -> Element]
    <3>1. f = [i \in 1..n |-> f[i]] /\ g = [i \in 1..n |-> g[i]]
      BY <2>6
    <3> HIDE DEF f, g
    <3> QED
      BY <2>4, <2>7, <3>1
  <2> HIDE DEF f, g, n
  <2>9. d \in Element
    BY <1>3, <2>2, FieldLaws DEF n
  <2>10. g[q] = f[q] ++ d
    <3> DEFINE a == m[q][j]
               b == delta[j]
               c == w[q]
    <3>1. q \in 1..n
      BY DEF n
    <3>2. a \in Element /\ b \in Element /\ c \in Element
      BY <1>3, <2>2, <2>5, <3>1
    <3>3. g[q] = (a ++ b) ** c /\ f[q] = a ** c /\ d = b ** c
      BY <1>4, <2>4, <3>1
    <3> HIDE DEF a, b, c, d
    <3>4. (a ++ b) ** c = (a ** c) ++ (b ** c)
      BY ONLY <3>2, FieldLaws
    <3> QED
      BY <3>3, <3>4
  <2>11. \A i \in 1..n : i # q => g[i] = f[i]
    BY <1>4, <2>4
  <2>12. XorAll(g) = XorAll(f) ++ d
    <3>1. q \in 1..n /\ IsFiniteSet(1..n)
      BY <1>1 DEF n
    <3>2. OneMore(1..n, f, g, q, d)
      BY <2>8, <2>9, <2>10, <2>11, <3>1 DEF OneMore
    <3> HIDE DEF d
    <3> QED
      BY ONLY <3>1, <3>2, XorAllChange
  <2>13. d = delta[j] ** t[q][h]
    BY <2>2 DEF n
  <2> HIDE DEF d
  <2> QED
    BY <2>1, <2>12, <2>13
<1> QED
  BY <1>4, <1>6 DEF mm

\* Input rows m, output rows o and deferred updates d of the coder of ix and ox.
Fit(ix, ox, m, o, d) ==
  LET l == Len(m[1])
  IN  /\ ix # <<>> /\ l \in Nat
      /\ Rectangle(m, Len(ix), l) /\ Rectangle(o, Len(ox), l) /\ Rectangle(d, Len(ox), l)

\* What Update makes of rows, the matrix t of the coder being given.
Moved(t, q, delta, rows) ==
  [k \in DOMAIN rows |-> [j \in DOMAIN rows[k] |-> Plus[rows[k][j]][Mult[delta[j]][t[q][k]]]]]

LEMMA MovedRows ==
  ASSUME NEW ix, Abscissae(ix), ix # <<>>, NEW ox \in Seq(Element), NEW l \in Nat,
         NEW rows, Rectangle(rows, Len(ox), l), NEW q \in 1..Len(ix),
         NEW delta \in Seq(Element), Len(delta) = l
  PROVE  LET t == interpOf(ix, ox)
             r == Moved(t, q, delta, rows)
         IN  /\ Rectangle(r, Len(ox), l)
             /\ \A h \in 1..Len(ox), j \in 1..l : r[h][j] = rows[h][j] ++ (delta[j] ** t[q][h])
             /\ \A h \in 1..Len(ox), j \in 1..l : delta[j] ** t[q][h] \in Element
<1> DEFINE o == Len(ox)
           t == interpOf(ix, ox)
           r == Moved(t, q, delta, rows)
           E(h, j) == rows[h][j] ++ (delta[j] ** t[q][h])
<1>1. o \in Nat /\ DOMAIN rows = 1..o /\ (\A h \in 1..o : DOMAIN rows[h] = 1..l)
      /\ \A h \in 1..o, j \in 1..l : rows[h][j] \in Element
  <2>1. o \in Nat /\ Rectangle(rows, o, l)
    OBVIOUS
  <2> HIDE DEF o
  <2> QED
    BY <2>1, RectangleRows
<1>2. \A j \in 1..l : delta[j] \in Element
  OBVIOUS
<1>3. \A h \in 1..o : t[q][h] \in Element
  BY InterpOf
<1> HIDE DEF t, o
<1>4. \A h \in 1..o, j \in 1..l : delta[j] ** t[q][h] \in Element
  BY <1>2, <1>3, FieldLaws
<1>5. \A h \in 1..o, j \in 1..l : E(h, j) \in Element
  <2> SUFFICES ASSUME NEW h \in 1..o, NEW j \in 1..l PROVE E(h, j) \in Element
    OBVIOUS
  <2> DEFINE a == rows[h][j]
             b == delta[j] ** t[q][h]
  <2>1. a \in Element /\ b \in Element
    BY <1>1, <1>4
  <2> HIDE DEF a, b
  <2>2. a ++ b \in Element
    BY <2>1, FieldLaws
  <2> QED
    BY <2>2 DEF a, b
<1>6. r = [h \in 1..o |-> [j \in 1..l |-> E(h, j)]]
  BY <1>1 DEF Moved, ++, **
<1>7. r \in [1..o -> [1..l -> Element]]
  <2> HIDE DEF E, r
  <2> QED
    BY <1>5, <1>6
<1>8. \A h \in 1..o, j \in 1..l : r[h][j] = E(h, j)
  <2> HIDE DEF E, r
  <2> QED
    BY <1>6
<1>9. Rectangle(r, o, l)
  <2> HIDE DEF r
  <2> QED
    BY <1>1, <1>7, RectangleOf
<1> QED
  BY <1>4, <1>8, <1>9 DEF t, o

LEMMA UpdateFits ==
  ASSUME NEW ix, Abscissae(ix), NEW ox \in Seq(Element),
         NEW m, NEW o, NEW d, Fit(ix, ox, m, o, d),
         NEW q \in 1..Len(ix), NEW delta \in Seq(Element), Len(delta) = Len(m[1])
  PROVE  LET t == interpOf(ix, ox)
             mm == Edited(m, q, delta)
             oo == Moved(t, q, delta, o)
             dd == Moved(t, q, delta, d)
         IN  /\ Fit(ix, ox, mm, oo, d) /\ Fit(ix, ox, mm, o, dd)
             /\ plus(o, d) = coded(t, m) => /\ plus(oo, d) = coded(t, mm)
                                            /\ plus(o, dd) = coded(t, mm)
<1> DEFINE n == Len(ix)
           w == Len(ox)
           l == Len(m[1])
           t == interpOf(ix, ox)
           mm == Edited(m, q, delta)
           oo == Moved(t, q, delta, o)
           dd == Moved(t, q, delta, d)
<1>1. /\ ix # <<>> /\ l \in Nat /\ n \in Nat /\ n > 0 /\ w \in Nat
      /\ Rectangle(m, n, l) /\ Rectangle(o, w, l) /\ Rectangle(d, w, l)
  <2>1. ix # <<>> /\ l \in Nat /\ Rectangle(m, n, l) /\ Rectangle(o, w, l) /\ Rectangle(d, w, l)
    BY DEF Fit
  <2>2. n \in Nat /\ n > 0 /\ w \in Nat
    BY <2>1, InterpOf
  <2> QED
    BY <2>1, <2>2
<1>2. /\ Rectangle(mm, n, l)
      /\ \A h \in 1..w, j \in 1..l : coded(t, mm)[h][j] = coded(t, m)[h][j] ++ (delta[j] ** t[q][h])
  <2>1. /\ ix # <<>> /\ l \in Nat /\ Rectangle(m, n, l) /\ Len(delta) = l
    BY <1>1
  <2> HIDE DEF l
  <2> QED
    BY <2>1, UpdateKeeps
<1>3. /\ Rectangle(oo, w, l) /\ \A h \in 1..w, j \in 1..l : oo[h][j] = o[h][j] ++ (delta[j] ** t[q][h])
      /\ \A h \in 1..w, j \in 1..l : delta[j] ** t[q][h] \in Element
  BY <1>1, MovedRows
<1>4. /\ Rectangle(dd, w, l) /\ \A h \in 1..w, j \in 1..l : dd[h][j] = d[h][j] ++ (delta[j] ** t[q][h])
  BY <1>1, MovedRows
<1>5. Rectangle(coded(t, m), w, l) /\ Rectangle(coded(t, mm), w, l)
  BY <1>1, <1>2, CodeInterpolates
<1> DEFINE e == [h \in 1..w |-> [j \in 1..l |-> delta[j] ** t[q][h]]]
           c == coded(t, m)
           cc == coded(t, mm)
<1>6. \A h \in 1..w, j \in 1..l : e[h][j] = delta[j] ** t[q][h] /\ e[h][j] \in Element
  BY <1>3
<1>7. Len(mm[1]) = l
  <2>1. 1 \in 1..n
    BY <1>1
  <2> QED
    BY <1>2, <2>1 DEF Rectangle
<1> HIDE DEF e, c, cc, oo, dd, mm, t, n, w, l
<1>8. Fit(ix, ox, mm, oo, d) /\ Fit(ix, ox, mm, o, dd)
  BY <1>1, <1>2, <1>3, <1>4, <1>7 DEF Fit, n, w
<1>9. ASSUME plus(o, d) = c PROVE plus(oo, d) = cc /\ plus(o, dd) = cc
  <2>1. /\ Rectangle(plus(o, d), w, l) /\ Rectangle(plus(oo, d), w, l) /\ Rectangle(plus(o, dd), w, l)
        /\ \A h \in 1..w, j \in 1..l :
             /\ plus(o, d)[h][j] = o[h][j] ++ d[h][j]
             /\ plus(oo, d)[h][j] = oo[h][j] ++ d[h][j]
             /\ plus(o, dd)[h][j] = o[h][j] ++ dd[h][j]
    BY <1>1, <1>3, <1>4, Pluses
  <2>2. ASSUME NEW h \in 1..w, NEW j \in 1..l
        PROVE  plus(oo, d)[h][j] = cc[h][j] /\ plus(o, dd)[h][j] = cc[h][j]
    <3> DEFINE x == o[h][j]
               y == d[h][j]
               z == e[h][j]
    <3>1. x \in Element /\ y \in Element /\ z \in Element
      <4>1. \A rows : Rectangle(rows, w, l) => rows[h][j] \in Element
        BY <1>1, RectangleRows
      <4> QED
        BY <1>1, <1>6, <4>1
    <3>2. cc[h][j] = (x ++ y) ++ z
      BY <1>2, <1>6, <1>9, <2>1 DEF c, cc
    <3>3. plus(oo, d)[h][j] = (x ++ z) ++ y /\ plus(o, dd)[h][j] = x ++ (y ++ z)
      BY <1>3, <1>4, <1>6, <2>1
    <3> HIDE DEF x, y, z
    <3>4. (x ++ y) ++ z = x ++ (y ++ z)
      BY ONLY <3>1, FieldLaws
    <3>5. (x ++ z) ++ y = x ++ (z ++ y)
      BY ONLY <3>1, FieldLaws
    <3>6. z ++ y = y ++ z
      BY ONLY <3>1, FieldLaws
    <3> QED
      BY <3>2, <3>3, <3>4, <3>5, <3>6
  <2>3. plus(oo, d) = cc
    BY <1>1, <1>5, <2>1, <2>2, RectangleEqual DEF cc
  <2>4. plus(o, dd) = cc
    BY <1>1, <1>5, <2>1, <2>2, RectangleEqual DEF cc
  <2> QED
    BY <2>3, <2>4
<1> QED
  BY <1>8, <1>9 DEF c, cc, oo, dd, mm, t

\* The inductive invariant: the coder's matrix is of its abscissae, and the rows the
\* caller has fit together and, as long as Update reaches every input, are coded.
Coding ==
  /\ Abscissae(in_x) /\ out_x \in Seq(Element) /\ interp = interpOf(in_x, out_x)
  /\ panicked \in BOOLEAN
  /\ in_x = <<>> => input = <<>> /\ output = <<>>
  /\ input \in Seq(Seq(Element)) /\ \A i \in DOMAIN input : Len(input[i]) = Len(input[1])
  /\ output = <<>> => later = <<>>
  /\ output # <<>> => Fit(in_x, out_x, input, output, later)
  /\ output # <<>> /\ Addressable => plus(output, later) = coded(interp, input)

LEMMA CodingInit == Init => Coding
<1> SUFFICES ASSUME Init PROVE Coding
  OBVIOUS
<1>1. in_x = <<>> /\ out_x = <<>> /\ interp = <<>> /\ input = <<>> /\ output = <<>> /\ later = <<>> /\ panicked = FALSE
  BY DEF Init
<1>2. <<>> \in Seq(Element) /\ <<>> \in Seq(Seq(Element)) /\ IsInjective(<<>>)
  BY DEF IsInjective
<1>3. Abscissae(in_x)
  BY <1>1, <1>2 DEF Abscissae
<1>4. interp = interpOf(in_x, out_x)
  BY <1>1, <1>2, <1>3, InterpOf
<1>5. input \in Seq(Seq(Element)) /\ \A i \in DOMAIN input : Len(input[i]) = Len(input[1])
  <2>1. DOMAIN input = {}
    BY <1>1
  <2> QED
    BY <1>1, <1>2, <2>1
<1>6. panicked \in BOOLEAN /\ out_x \in Seq(Element)
  BY <1>1, <1>2
<1> QED
  BY <1>1, <1>3, <1>4, <1>5, <1>6 DEF Coding

LEMMA CodingNew ==
  ASSUME Coding, NEW p \in Coders, NewErasureCoder(p) PROVE Coding'
<1>1. /\ interp = <<>> /\ in_x' = p[1] /\ out_x' = p[2] /\ interp' = interpOf(p[1], p[2])
      /\ UNCHANGED <<input, output, later, panicked>>
  BY DEF NewErasureCoder
<1>2. in_x = <<>>
  BY <1>1, InterpOf DEF Coding
<1>3. input = <<>> /\ output = <<>> /\ later = <<>> /\ panicked \in BOOLEAN
  BY <1>2 DEF Coding
<1>4. p[1] \in Seq(Element) /\ p[2] \in Seq(Element) /\ IsInjective(p[1])
  BY CallerAssumption
<1>5. Abscissae(p[1]) /\ <<>> \in Seq(Seq(Element))
  BY <1>4 DEF Abscissae
<1> QED
  BY <1>1, <1>3, <1>4, <1>5 DEF Coding

\* What Coding says where there is a coder.
LEMMA CodingCoder ==
  ASSUME Coding, interp # <<>>
  PROVE  /\ Abscissae(in_x) /\ in_x # <<>> /\ out_x \in Seq(Element) /\ interp = interpOf(in_x, out_x)
         /\ Len(in_x) \in Nat /\ Len(in_x) > 0 /\ Degree = Len(in_x) /\ Len(interp[1]) = Len(out_x)
         /\ Len(out_x) \in Nat
<1>1. Abscissae(in_x) /\ out_x \in Seq(Element) /\ interp = interpOf(in_x, out_x)
  BY DEF Coding
<1>2. in_x # <<>>
  BY <1>1, InterpOf
<1> QED
  BY <1>1, <1>2, InterpOf DEF Degree

LEMMA RowsFit ==
  ASSUME NEW n \in Nat, n > 0, NEW l \in Nat, NEW m, Rectangle(m, n, l)
  PROVE  /\ m # <<>> /\ Len(m[1]) = l /\ m \in Seq(Seq(Element)) /\ Len(m) = n /\ DOMAIN m = 1..n
         /\ \A i \in DOMAIN m : Len(m[i]) = Len(m[1])
<1>1. m \in Seq(Seq(Element)) /\ Len(m) = n /\ DOMAIN m = 1..n /\ \A i \in 1..n : Len(m[i]) = l
  BY RectangleRows DEF Rectangle
<1>2. m # <<>>
  BY <1>1
<1>3. 1 \in 1..n
  OBVIOUS
<1> QED
  BY <1>1, <1>2, <1>3

LEMMA CodingCode ==
  ASSUME Coding, NEW m \in Matrices, Code(m) PROVE Coding'
<1>1. /\ interp # <<>> /\ panicked' = (Len(m) # Degree \/ Ragged(m))
      /\ UNCHANGED <<in_x, out_x, interp>>
  BY DEF Code
<1>2. panicked' \in BOOLEAN
  BY <1>1
<1>3. CASE panicked'
  <2>1. UNCHANGED <<in_x, out_x, interp, input, output, later>>
    BY <1>1, <1>3 DEF Code
  <2> QED
    BY <1>2, <2>1 DEF Coding, Addressable, Degree
<1>4. CASE ~panicked'
  <2>1. input' = m /\ output' = coded(interp, m) /\ later' = zeroed(output')
    BY <1>4 DEF Code
  <2>2. Len(m) = Degree /\ ~Ragged(m)
    BY <1>1, <1>4
  <2> DEFINE n == Len(in_x)
             w == Len(out_x)
             l == Len(m[1])
             c == coded(interp, m)
  <2>3. /\ Abscissae(in_x) /\ in_x # <<>> /\ out_x \in Seq(Element) /\ interp = interpOf(in_x, out_x)
        /\ n \in Nat /\ n > 0 /\ Degree = n /\ w \in Nat
    BY <1>1, CodingCoder
  <2>4. m \in Seq(Seq(Element)) /\ Len(m) = n /\ DOMAIN m = 1..n
    <3>1. m \in Seq(Seq(Element))
      BY CallerAssumption
    <3> QED
      BY <2>2, <2>3, <3>1
  <2>5. l \in Nat /\ \A i \in 1..n : Len(m[i]) = l
    <3>1. 1 \in 1..n
      BY <2>3
    <3>2. m[1] \in Seq(Element)
      BY <2>4, <3>1
    <3>3. \A i \in 1..n : Len(m[i]) = Len(m[1])
      BY <2>2, <2>4 DEF Ragged
    <3> QED
      BY <3>2, <3>3
  <2>6. Rectangle(m, n, l)
    BY <2>4, <2>5 DEF Rectangle
  <2>7. Rectangle(c, w, l)
    BY <2>3, <2>5, <2>6, CodeInterpolates
  <2>8. Rectangle(zeroed(c), w, l) /\ plus(c, zeroed(c)) = c
    BY <2>3, <2>5, <2>7, Zeroes, Pluses
  <2> HIDE DEF c, l, n, w
  <2>9. Fit(in_x, out_x, m, c, zeroed(c))
    BY <2>3, <2>5, <2>6, <2>7, <2>8 DEF Fit, n, w, l
  <2>10. /\ in_x' = in_x /\ out_x' = out_x /\ interp' = interp /\ input' = m
         /\ output' = c /\ later' = zeroed(c)
    BY <1>1, <2>1 DEF c
  <2>11. m \in Seq(Seq(Element)) /\ \A i \in DOMAIN m : Len(m[i]) = Len(m[1])
    BY <2>4, <2>5 DEF l
  <2>12. c = <<>> => zeroed(c) = <<>>
    <3> SUFFICES ASSUME c = <<>> PROVE zeroed(c) = <<>>
      OBVIOUS
    <3>1. DOMAIN zeroed(c) = {}
      BY DEF zeroed
    <3>2. zeroed(c) = [i \in {} |-> 0]
      BY <3>1 DEF zeroed
    <3> QED
      BY <3>2
  <2> QED
    BY <1>2, <2>3, <2>8, <2>9, <2>10, <2>11, <2>12 DEF Coding, c
<1> QED
  BY <1>2, <1>3, <1>4

LEMMA CodingMerge == ASSUME Coding, Merge PROVE Coding'
<1>1. /\ output' = plus(output, later) /\ later' = zeroed(later) /\ panicked' = FALSE
      /\ in_x' = in_x /\ out_x' = out_x /\ interp' = interp /\ input' = input
  BY DEF Merge
<1>2. CASE output = <<>>
  <2>1. later = <<>>
    BY <1>2 DEF Coding
  <2>2. plus(output, later) = <<>> /\ zeroed(later) = <<>>
    <3>1. plus(output, later) = [i \in {} |-> 0]
      BY <1>2 DEF plus
    <3>2. zeroed(later) = [i \in {} |-> 0]
      BY <2>1 DEF zeroed
    <3> QED
      BY <3>1, <3>2
  <2> QED
    BY <1>1, <1>2, <2>1, <2>2 DEF Coding
<1>3. CASE output # <<>>
  <2> DEFINE w == Len(out_x)
             l == Len(input[1])
             s == plus(output, later)
  <2>1. Fit(in_x, out_x, input, output, later)
    BY <1>3 DEF Coding
  <2>2. Abscissae(in_x) /\ out_x \in Seq(Element) /\ in_x # <<>> /\ l \in Nat /\ w \in Nat
        /\ Rectangle(output, w, l) /\ Rectangle(later, w, l) /\ Rectangle(input, Len(in_x), l)
    <3>1. out_x \in Seq(Element) /\ Abscissae(in_x)
      BY DEF Coding
    <3> QED
      BY <2>1, <3>1 DEF Fit
  <2>3. Rectangle(s, w, l) /\ Rectangle(zeroed(later), w, l)
    BY <2>2, Pluses, Zeroes
  <2>4. plus(s, zeroed(later)) = s
    <3> DEFINE z == zeroed(later)
               t == plus(s, z)
    <3>1. \A h \in 1..w, j \in 1..l : z[h][j] = 0
      BY <2>2, Zeroes
    <3> HIDE DEF z, s
    <3>2. Rectangle(t, w, l) /\ \A h \in 1..w, j \in 1..l : t[h][j] = s[h][j] ++ z[h][j]
      BY <2>2, <2>3, Pluses DEF z
    <3>3. \A h \in 1..w, j \in 1..l : s[h][j] \in Element
      BY <2>2, <2>3, RectangleRows
    <3> HIDE DEF t, w, l
    <3>4. \A h \in 1..w, j \in 1..l : t[h][j] = s[h][j]
      <4> SUFFICES ASSUME NEW h \in 1..w, NEW j \in 1..l PROVE t[h][j] = s[h][j]
        OBVIOUS
      <4> DEFINE x == s[h][j]
      <4>1. x \in Element /\ t[h][j] = x ++ 0
        BY <3>1, <3>2, <3>3
      <4> HIDE DEF x
      <4>2. x ++ 0 = x
        BY ONLY <4>1, FieldLaws
      <4> QED
        BY <4>1, <4>2 DEF x
    <3>5. t = s
      <4>1. w \in Nat /\ l \in Nat /\ Rectangle(s, w, l) /\ Rectangle(t, w, l)
        BY <2>2, <2>3, <3>2 DEF w, l
      <4> QED
        BY ONLY <3>4, <4>1, RectangleEqual
    <3> QED
      BY <3>5 DEF t, z
  <2>5. s # <<>>
    <3>1. Len(output) = w /\ w > 0
      <4>1. Len(output) = w /\ output \in Seq(Seq(Element))
        BY <2>2 DEF Rectangle
      <4>2. Len(output) # 0
        BY <1>3, <4>1, EmptySeq
      <4> HIDE DEF w
      <4> QED
        BY <2>2, <4>1, <4>2
    <3> HIDE DEF w, s
    <3> QED
      BY <2>2, <2>3, <3>1, RowsFit
  <2>6. Fit(in_x, out_x, input, s, zeroed(later))
    BY <2>2, <2>3 DEF Fit
  <2> HIDE DEF s
  <2>7. output' = s /\ input' = input /\ in_x' = in_x /\ out_x' = out_x /\ interp' = interp /\ later' = zeroed(later)
    BY <1>1 DEF s
  <2>8. output # <<>> /\ Addressable => s = coded(interp, input)
    BY DEF Coding, s
  <2> QED
    BY <1>1, <1>3, <2>2, <2>4, <2>5, <2>6, <2>7, <2>8 DEF Coding, Addressable, Degree
<1> QED
  BY <1>2, <1>3

\* The caller's rows stay a matrix.
LEMMA ChangedRows ==
  ASSUME Coding, NEW idx \in Nat, NEW delta \in Seq(Element)
  PROVE  LET mm == Changed(idx, delta)
         IN  /\ mm \in Seq(Seq(Element)) /\ \A i \in DOMAIN mm : Len(mm[i]) = Len(mm[1])
             /\ input = <<>> => mm = <<>>
             /\ idx < Len(input) /\ Len(input[1]) = Len(delta) => mm = Edited(input, idx + 1, delta)
             /\ ~(idx < Len(input) /\ Len(input[1]) = Len(delta)) => mm = input
<1> DEFINE mm == Changed(idx, delta)
           n == Len(input)
           l == Len(input[1])
<1>1. input \in Seq(Seq(Element)) /\ (\A i \in DOMAIN input : Len(input[i]) = Len(input[1])) /\ n \in Nat /\ DOMAIN input = 1..n
  BY DEF Coding
<1>2. CASE idx < n /\ l = Len(delta)
  <2>1. mm = Edited(input, idx + 1, delta)
    BY <1>2 DEF Changed, Edited
  <2>2. n > 0 /\ idx + 1 \in 1..n /\ 1 \in 1..n
    BY <1>1, <1>2
  <2>3. l \in Nat
    BY <1>1, <2>2
  <2>4. Rectangle(input, n, l)
    BY <1>1 DEF Rectangle
  <2>5. Edits(input, idx + 1, delta, n, l)
    BY <1>2, <2>2, <2>4 DEF Edits
  <2>6. Rectangle(mm, n, l)
    <3> HIDE DEF mm, n, l
    <3> QED
      BY <1>1, <2>1, <2>3, <2>5, EditedRows
  <2>7. mm # <<>> /\ mm \in Seq(Seq(Element)) /\ \A i \in DOMAIN mm : Len(mm[i]) = Len(mm[1])
    <3> HIDE DEF mm, n, l
    <3> QED
      BY <1>1, <2>2, <2>3, <2>6, RowsFit
  <2>8. input # <<>>
    BY <1>1, <2>2
  <2> QED
    BY <1>2, <2>1, <2>7, <2>8
<1>3. CASE ~(idx < n /\ l = Len(delta))
  <2>1. mm = input
    BY <1>3 DEF Changed
  <2> QED
    BY <1>1, <1>3, <2>1
<1> QED
  BY <1>2, <1>3

LEMMA BytesWrap ==
  ASSUME NEW d \in Nat
  PROVE  /\ Values \in Nat \ {0} /\ Element \subseteq Nat /\ d % Values \in 0..d
         /\ d < Values => d % Values = d
<1>1. Values \in Nat /\ Values > 0
  BY Shifts, ElementsAreWords DEF Values
<1>2. d % Values \in 0..Values-1 /\ d = (d \div Values) * Values + (d % Values) /\ d \div Values \in Nat
  BY <1>1, DivMod
<1>3. (d \div Values) * Values \in Nat
  <2> DEFINE q == d \div Values
  <2>1. q \in Nat
    BY <1>2
  <2> HIDE DEF q
  <2>2. q * Values \in Nat
    BY <1>1, <2>1
  <2> QED
    BY <2>2 DEF q
<1>4. d % Values <= d
  <2> DEFINE q == (d \div Values) * Values
  <2> HIDE DEF q
  <2>1. q \in Nat /\ d = q + (d % Values)
    BY <1>2, <1>3 DEF q
  <2> QED
    BY <1>2, <2>1
<1>5. ASSUME d < Values PROVE d % Values = d
  <2>1. d \in 0..Values-1 /\ 0 \in Nat /\ Values \in Nat \ {0}
    BY <1>1, <1>5
  <2>2. (0 * Values + d) % Values = d
    BY <2>1, DivUnique
  <2>3. 0 * Values + d = d
    BY <1>1
  <2> QED
    BY <2>2, <2>3
<1> QED
  BY <1>1, <1>2, <1>4, <1>5, ElementsAreWords

\* A panic leaves rows that are coded as they are; an Update that goes through changes
\* the caller's row too.
LEMMA UpdateOrPanic ==
  ASSUME Coding, interp # <<>>, output # <<>>, NEW idx \in Element, NEW delta \in Seq(Element),
         NEW rows, rows = output \/ rows = later
  PROVE  /\ Panics(idx, delta, rows) /\ Addressable => Changed(idx, delta) = input
         /\ ~Panics(idx, delta, rows) =>
              /\ idx + 1 \in 1..Len(in_x) /\ Len(delta) = Len(input[1])
              /\ Changed(idx, delta) = Edited(input, idx + 1, delta)
              /\ updated(idx, delta, rows) = Moved(interp, idx + 1, delta, rows)
         /\ out_x # <<>> /\ Fit(in_x, out_x, input, output, later)
<1> DEFINE n == Len(in_x)
           w == Len(out_x)
           l == Len(input[1])
<1>1. /\ Abscissae(in_x) /\ out_x \in Seq(Element) /\ n \in Nat /\ n > 0 /\ w \in Nat
      /\ Degree = n /\ Len(interp[1]) = w
  BY CodingCoder
<1>2. Fit(in_x, out_x, input, output, later)
  BY DEF Coding
<1>3. /\ l \in Nat /\ Rectangle(input, n, l) /\ Rectangle(output, w, l) /\ Rectangle(later, w, l)
  BY <1>2 DEF Fit
<1>4. Len(input) = n /\ Len(output) = w /\ output \in Seq(Seq(Element))
  BY <1>3 DEF Rectangle
<1>5. w > 0
  <2>1. Len(output) # 0
    BY <1>4, EmptySeq
  <2> HIDE DEF w
  <2> QED
    BY <1>1, <1>4, <2>1
<1>6. DOMAIN rows = 1..w /\ Len(rows) = w /\ (\A k \in 1..w : Len(rows[k]) = l) /\ 1 \in DOMAIN rows
  <2>1. Rectangle(rows, w, l)
    BY <1>3
  <2> HIDE DEF w, l
  <2>2. DOMAIN rows = 1..w
    BY <1>1, <1>3, <2>1, RectangleRows
  <2> QED
    BY <1>1, <1>5, <2>1, <2>2 DEF Rectangle
<1>7. idx \in Nat /\ n % Values \in 0..n /\ (n < Values => n % Values = n)
  <2> HIDE DEF n
  <2> QED
    BY <1>1, BytesWrap
<1>8. Panics(idx, delta, rows) <=> idx >= n % Values \/ l # Len(delta)
  <2> HIDE DEF w, l, n
  <2> QED
    BY <1>1, <1>6 DEF Panics
<1>9. ASSUME Panics(idx, delta, rows), Addressable PROVE Changed(idx, delta) = input
  <2>1. idx >= n \/ l # Len(delta)
    BY <1>1, <1>7, <1>8, <1>9 DEF Addressable
  <2>2. ~(idx < Len(input) /\ Len(input[1]) = Len(delta))
    BY <1>1, <1>4, <1>7, <2>1
  <2> QED
    BY <1>7, <2>2, ChangedRows
<1>10. ASSUME ~Panics(idx, delta, rows)
       PROVE  /\ idx + 1 \in 1..n /\ Len(delta) = l
              /\ Changed(idx, delta) = Edited(input, idx + 1, delta)
              /\ updated(idx, delta, rows) = Moved(interp, idx + 1, delta, rows)
  <2>1. idx < n /\ l = Len(delta)
    <3> HIDE DEF n, l
    <3> QED
      BY <1>1, <1>7, <1>8, <1>10
  <2>2. Changed(idx, delta) = Edited(input, idx + 1, delta)
    BY <1>4, <1>7, <2>1, ChangedRows
  <2>3. updated(idx, delta, rows) = Moved(interp, idx + 1, delta, rows)
    BY DEF updated, Moved
  <2>4. idx + 1 \in 1..n
    <3> HIDE DEF n
    <3> QED
      BY <1>1, <1>7, <2>1
  <2> QED
    BY <2>1, <2>2, <2>3, <2>4
<1>11. out_x # <<>>
  BY <1>1, <1>5
<1> QED
  BY <1>2, <1>9, <1>10, <1>11

\* Changed or not, the caller's rows fit.
LEMMA ChangedFits ==
  ASSUME Coding, interp # <<>>, output # <<>>, NEW idx \in Element, NEW delta \in Seq(Element)
  PROVE  Fit(in_x, out_x, Changed(idx, delta), output, later)
<1> DEFINE mm == Changed(idx, delta)
           n == Len(in_x)
           w == Len(out_x)
           l == Len(input[1])
<1>1. idx \in Nat /\ n \in Nat /\ n > 0
  BY ElementsAreWords, CodingCoder
<1>2. Fit(in_x, out_x, input, output, later)
  BY DEF Coding
<1>3. /\ l \in Nat /\ Rectangle(input, n, l) /\ in_x # <<>> /\ Rectangle(output, w, l) /\ Rectangle(later, w, l)
  BY <1>2 DEF Fit
<1>4. CASE mm = input
  BY <1>2, <1>4
<1>5. CASE mm # input
  <2>1. mm = Edited(input, idx + 1, delta) /\ idx < Len(input) /\ l = Len(delta)
    BY <1>1, <1>5, ChangedRows
  <2> HIDE DEF mm, n, l, w
  <2>2. Edits(input, idx + 1, delta, n, l)
    BY <1>1, <1>3, <2>1 DEF Edits, Rectangle
  <2>3. Rectangle(mm, n, l)
    BY <1>1, <1>3, <2>1, <2>2, EditedRows
  <2>4. Len(mm[1]) = l
    BY <1>1, <1>3, <2>3, RowsFit
  <2> QED
    BY <1>3, <2>3, <2>4 DEF Fit, n, w, mm
<1> QED
  BY <1>4, <1>5

\* Fitting rows are a matrix that is not empty.
LEMMA FitRows ==
  ASSUME NEW ix, Abscissae(ix), NEW ox \in Seq(Element), ox # <<>>, NEW m, NEW o, NEW d, Fit(ix, ox, m, o, d)
  PROVE  o # <<>> /\ m \in Seq(Seq(Element)) /\ \A i \in DOMAIN m : Len(m[i]) = Len(m[1])
<1>1. Len(ox) \in Nat /\ Len(ox) > 0
  BY EmptySeq
<1>2. ix \in Seq(Element) /\ ix # <<>> /\ Len(ix) \in Nat
  BY DEF Abscissae, Fit
<1>3. Len(ix) > 0
  BY <1>2, EmptySeq
<1>4. Len(m[1]) \in Nat /\ Rectangle(m, Len(ix), Len(m[1])) /\ Rectangle(o, Len(ox), Len(m[1]))
  BY DEF Fit
<1> QED
  BY <1>1, <1>2, <1>3, <1>4, RowsFit

\* Coding is kept where the caller's row changes and rows of the coder are updated.
LEMMA CodingRows ==
  ASSUME Coding, interp # <<>>, output # <<>>, UNCHANGED <<in_x, out_x, interp>>, panicked' \in BOOLEAN,
         Fit(in_x, out_x, input', output', later'), out_x # <<>>,
         Addressable => plus(output', later') = coded(interp, input')
  PROVE  Coding'
<1>1. Abscissae(in_x) /\ in_x # <<>> /\ out_x \in Seq(Element) /\ interp = interpOf(in_x, out_x)
  BY CodingCoder
<1>2. output' # <<>> /\ input' \in Seq(Seq(Element)) /\ \A i \in DOMAIN input' : Len(input'[i]) = Len(input'[1])
  BY <1>1, FitRows
<1> QED
  BY <1>1, <1>2 DEF Coding, Addressable, Degree

LEMMA CodingNoRows ==
  ASSUME Coding, interp # <<>>, output = <<>>, UNCHANGED <<in_x, out_x, interp>>, panicked' \in BOOLEAN,
         output' = <<>>, later' = <<>>, NEW idx \in Element, NEW delta \in Seq(Element), input' = Changed(idx, delta)
  PROVE  Coding'
<1>1. idx \in Nat
  BY ElementsAreWords
<1>2. /\ input' \in Seq(Seq(Element)) /\ \A i \in DOMAIN input' : Len(input'[i]) = Len(input'[1])
  BY <1>1, ChangedRows
<1>3. in_x # <<>>
  BY CodingCoder
<1> QED
  BY <1>2, <1>3 DEF Coding

LEMMA CodingUpdate ==
  ASSUME Coding, NEW idx \in Element, NEW delta \in Deltas, Update(idx, delta) PROVE Coding'
<1>1. /\ interp # <<>> /\ panicked' = Panics(idx, delta, output) /\ input' = Changed(idx, delta)
      /\ output' = (IF panicked' THEN output ELSE updated(idx, delta, output))
      /\ UNCHANGED <<in_x, out_x, interp>> /\ later' = later
  BY DEF Update
<1>2. delta \in Seq(Element) /\ panicked' \in BOOLEAN
  <2>1. delta \in Seq(Element)
    BY CallerAssumption
  <2>2. Panics(idx, delta, output) \in BOOLEAN
    BY DEF Panics
  <2> QED
    BY <1>1, <2>1, <2>2
<1>3. CASE output = <<>>
  <2>1. later = <<>>
    BY <1>3 DEF Coding
  <2>2. updated(idx, delta, <<>>) = <<>>
    <3>1. updated(idx, delta, <<>>) = [k \in {} |-> 0]
      BY DEF updated
    <3> QED
      BY <3>1
  <2>3. output' = <<>>
    BY <1>1, <1>3, <2>2
  <2> QED
    BY <1>1, <1>2, <1>3, <2>1, <2>3, CodingNoRows
<1>4. CASE output # <<>> /\ panicked'
  <2>1. output' = output /\ Panics(idx, delta, output)
    BY <1>1, <1>4
  <2>2. out_x # <<>> /\ Fit(in_x, out_x, input, output, later)
    BY <1>1, <1>2, <1>4, UpdateOrPanic
  <2>3. Addressable => input' = input
    BY <1>1, <1>2, <1>4, <2>1, UpdateOrPanic
  <2>4. CASE Addressable
    <3>1. Fit(in_x, out_x, input', output', later') /\ plus(output', later') = coded(interp, input')
      BY <1>1, <1>4, <2>1, <2>2, <2>3, <2>4 DEF Coding
    <3> QED
      BY <1>1, <1>2, <1>4, <2>2, <3>1, CodingRows
  <2>5. CASE ~Addressable
    <3>1. Fit(in_x, out_x, input', output', later')
      BY <1>1, <1>2, <1>4, <2>1, ChangedFits
    <3> QED
      BY <1>1, <1>2, <1>4, <2>2, <2>5, <3>1, CodingRows
  <2> QED
    BY <2>4, <2>5
<1>5. CASE output # <<>> /\ ~panicked'
  <2> DEFINE q == idx + 1
  <2>1. output' = updated(idx, delta, output) /\ ~Panics(idx, delta, output)
    BY <1>1, <1>5
  <2>2. /\ q \in 1..Len(in_x) /\ Len(delta) = Len(input[1]) /\ input' = Edited(input, q, delta)
        /\ output' = Moved(interp, q, delta, output) /\ out_x # <<>> /\ Fit(in_x, out_x, input, output, later)
    BY <1>1, <1>2, <1>5, <2>1, UpdateOrPanic
  <2>3. Abscissae(in_x) /\ out_x \in Seq(Element) /\ interp = interpOf(in_x, out_x)
    BY DEF Coding
  <2> HIDE DEF q
  <2>4. /\ Fit(in_x, out_x, input', output', later')
        /\ plus(output, later) = coded(interp, input) => plus(output', later') = coded(interp, input')
    BY <1>1, <1>2, <2>2, <2>3, UpdateFits
  <2>5. Addressable => plus(output, later) = coded(interp, input)
    BY <1>5 DEF Coding
  <2> QED
    BY <1>1, <1>2, <1>5, <2>2, <2>4, <2>5, CodingRows
<1> QED
  BY <1>2, <1>3, <1>4, <1>5

LEMMA CodingUpdateLater ==
  ASSUME Coding, NEW idx \in Element, NEW delta \in Deltas, UpdateLater(idx, delta) PROVE Coding'
<1>1. /\ interp # <<>> /\ panicked' = Panics(idx, delta, later) /\ input' = Changed(idx, delta)
      /\ later' = (IF panicked' THEN later ELSE updated(idx, delta, later))
      /\ UNCHANGED <<in_x, out_x, interp>> /\ output' = output
  BY DEF UpdateLater
<1>2. delta \in Seq(Element) /\ panicked' \in BOOLEAN
  <2>1. delta \in Seq(Element)
    BY CallerAssumption
  <2>2. Panics(idx, delta, later) \in BOOLEAN
    BY DEF Panics
  <2> QED
    BY <1>1, <2>1, <2>2
<1>3. CASE output = <<>>
  <2>1. later = <<>>
    BY <1>3 DEF Coding
  <2>2. updated(idx, delta, <<>>) = <<>>
    <3>1. updated(idx, delta, <<>>) = [k \in {} |-> 0]
      BY DEF updated
    <3> QED
      BY <3>1
  <2>3. later' = <<>>
    BY <1>1, <2>1, <2>2
  <2> QED
    BY <1>1, <1>2, <1>3, <2>1, <2>3, CodingNoRows
<1>4. CASE output # <<>> /\ panicked'
  <2>1. later' = later /\ Panics(idx, delta, later)
    BY <1>1, <1>4
  <2>2. out_x # <<>> /\ Fit(in_x, out_x, input, output, later)
    BY <1>1, <1>2, <1>4, UpdateOrPanic
  <2>3. Addressable => input' = input
    BY <1>1, <1>2, <1>4, <2>1, UpdateOrPanic
  <2>4. CASE Addressable
    <3>1. Fit(in_x, out_x, input', output', later') /\ plus(output', later') = coded(interp, input')
      BY <1>1, <1>4, <2>1, <2>2, <2>3, <2>4 DEF Coding
    <3> QED
      BY <1>1, <1>2, <1>4, <2>2, <3>1, CodingRows
  <2>5. CASE ~Addressable
    <3>1. Fit(in_x, out_x, input', output', later')
      BY <1>1, <1>2, <1>4, <2>1, ChangedFits
    <3> QED
      BY <1>1, <1>2, <1>4, <2>2, <2>5, <3>1, CodingRows
  <2> QED
    BY <2>4, <2>5
<1>5. CASE output # <<>> /\ ~panicked'
  <2> DEFINE q == idx + 1
  <2>1. later' = updated(idx, delta, later) /\ ~Panics(idx, delta, later)
    BY <1>1, <1>5
  <2>2. /\ q \in 1..Len(in_x) /\ Len(delta) = Len(input[1]) /\ input' = Edited(input, q, delta)
        /\ later' = Moved(interp, q, delta, later) /\ out_x # <<>> /\ Fit(in_x, out_x, input, output, later)
    BY <1>1, <1>2, <1>5, <2>1, UpdateOrPanic
  <2>3. Abscissae(in_x) /\ out_x \in Seq(Element) /\ interp = interpOf(in_x, out_x)
    BY DEF Coding
  <2> HIDE DEF q
  <2>4. /\ Fit(in_x, out_x, input', output', later')
        /\ plus(output, later) = coded(interp, input) => plus(output', later') = coded(interp, input')
    BY <1>1, <1>2, <2>2, <2>3, UpdateFits
  <2>5. Addressable => plus(output, later) = coded(interp, input)
    BY <1>5 DEF Coding
  <2> QED
    BY <1>1, <1>2, <1>5, <2>2, <2>4, <2>5, CodingRows
<1> QED
  BY <1>2, <1>3, <1>4, <1>5

\* Every step keeps Coding.
LEMMA CodingStep == Coding /\ [Next]_vars => Coding'
<1> SUFFICES ASSUME Coding, [Next]_vars PROVE Coding'
  OBVIOUS
<1>1. ASSUME NEW p \in Coders, NewErasureCoder(p) PROVE Coding'
  BY <1>1, CodingNew
<1>2. ASSUME NEW m \in Matrices, Code(m) PROVE Coding'
  BY <1>2, CodingCode
<1>3. ASSUME NEW idx \in Element, NEW delta \in Deltas, Update(idx, delta) PROVE Coding'
  BY <1>3, CodingUpdate
<1>4. ASSUME NEW idx \in Element, NEW delta \in Deltas, UpdateLater(idx, delta) PROVE Coding'
  BY <1>4, CodingUpdateLater
<1>5. CASE Merge
  BY <1>5, CodingMerge
<1>6. CASE UNCHANGED vars
  <2>1. UNCHANGED <<in_x, out_x, interp, input, output, later, panicked>>
    BY <1>6 DEF vars
  <2> QED
    BY <2>1 DEF Coding, Addressable, Degree
<1> QED
  BY <1>1, <1>2, <1>3, <1>4, <1>5, <1>6 DEF Next

\* The coder's matrix is that of its abscissae, and the output rows with the deferred
\* updates are what Code would make of the input rows now, whatever updates came.
THEOREM CodingInvariant == Spec => []Coding
<1>1. Init => Coding
  BY CodingInit
<1>2. Coding /\ [Next]_vars => Coding'
  BY CodingStep
<1> QED
  BY <1>1, <1>2, PTL DEF Spec

\* The lengths and values of all rows (Code, lines 139-157; Update, lines 181-201).
THEOREM CoderTypeCorrect == Spec => []TypeOK
<1>1. Coding => TypeOK
  <2> SUFFICES ASSUME Coding PROVE TypeOK
    OBVIOUS
  <2>1. Abscissae(in_x) /\ out_x \in Seq(Element) /\ interp = interpOf(in_x, out_x) /\ panicked \in BOOLEAN
    BY DEF Coding
  <2>2. interp \in [DOMAIN in_x -> [DOMAIN out_x -> Element]] /\ Degree = Len(in_x) /\ Len(in_x) \in Nat
    BY <2>1, InterpOf DEF Degree
  <2>3. input \in Seq(Seq(Element)) /\ \A i \in DOMAIN input : Len(input[i]) = Len(input[1])
    BY DEF Coding
  <2>4. CASE output = <<>>
    <3>1. later = <<>> /\ <<>> \in Seq(Seq(Element))
      BY <2>4 DEF Coding
    <3> QED
      BY <2>1, <2>2, <2>3, <2>4, <3>1 DEF TypeOK
  <2>5. CASE output # <<>>
    <3>1. LET l == Len(input[1])
          IN  l \in Nat /\ Rectangle(input, Len(in_x), l) /\ Rectangle(output, Len(out_x), l) /\ Rectangle(later, Len(out_x), l)
      BY <2>5 DEF Coding, Fit
    <3>2. /\ Len(input) = Degree /\ Len(output) = Len(out_x) /\ output \in Seq(Seq(Element))
          /\ later \in Seq(Seq(Element)) /\ Len(later) = Len(out_x)
      BY <2>2, <3>1 DEF Rectangle
    <3>3. DOMAIN output = 1..Len(out_x) /\ DOMAIN later = 1..Len(out_x)
      BY <3>2
    <3>4. \A k \in DOMAIN output : Len(output[k]) = Len(input[1]) /\ Len(later[k]) = Len(input[1])
      BY <3>1, <3>3 DEF Rectangle
    <3> QED
      BY <2>1, <2>2, <2>3, <2>5, <3>2, <3>3, <3>4 DEF TypeOK
  <2> QED
    BY <2>4, <2>5
<1> QED
  BY <1>1, CodingInvariant, PTL

\* What Coding says of the shards.
LEMMA ShardsOnPolynomials ==
  ASSUME Coding, output # <<>>, Addressable
  PROVE  /\ Degree \in Nat \ {0} /\ Len(input[1]) \in Nat /\ Places \in Seq(Element)
         /\ Rectangle(Shards, Len(Places), Len(input[1]))
         /\ OnPolynomials(Degree, Places, Shards, Len(input[1]))
         /\ DOMAIN input[1] = 1..Len(input[1])
<1> DEFINE l == Len(input[1])
<1>1. /\ Abscissae(in_x) /\ out_x \in Seq(Element) /\ interp = interpOf(in_x, out_x)
      /\ Fit(in_x, out_x, input, output, later) /\ plus(output, later) = coded(interp, input)
  BY DEF Coding
<1>2. in_x # <<>> /\ l \in Nat /\ Rectangle(input, Len(in_x), l)
  BY <1>1 DEF Fit
<1>3. Degree = Len(in_x) /\ Degree \in Nat \ {0}
  BY <1>1, <1>2, InterpOf DEF Degree
<1>4. DOMAIN input[1] = 1..l
  <2>1. Len(in_x) \in Nat /\ 1 \in 1..Len(in_x)
    BY <1>3
  <2> HIDE DEF l
  <2> QED
    BY <1>2, <2>1, RectangleRows
<1>5. Shards = input \o coded(interpOf(in_x, out_x), input) /\ Places = in_x \o out_x
  BY <1>1 DEF Shards, Places
<1> HIDE DEF l
<1>6. /\ Places \in Seq(Element) /\ Rectangle(Shards, Len(Places), l)
      /\ OnPolynomials(Len(in_x), Places, Shards, l)
  BY <1>1, <1>2, <1>5, CodeOnPolynomials
<1> QED
  BY <1>2, <1>3, <1>4, <1>6 DEF l

\* Each byte column of the input and output rows stays on one polynomial, for coders
\* of any degree and any updates, as the comments of lines 118-120 and 172-180 promise.
THEOREM ParityStaysCurrent == Spec => []ParityCurrent
<1>1. Coding => ParityCurrent
  <2> SUFFICES ASSUME Coding, output # <<>>, Addressable, NEW j \in DOMAIN input[1]
               PROVE  OnePolynomial(Degree, Places, Shards, j)
    BY DEF ParityCurrent
  <2>1. /\ Degree \in Nat /\ Places \in Seq(Element) /\ j \in 1..Len(input[1])
        /\ OnPolynomials(Degree, Places, Shards, Len(input[1]))
    BY ShardsOnPolynomials
  <2> QED
    BY <2>1, OnOnePolynomial
<1> QED
  BY <1>1, CodingInvariant, PTL

\* Any Degree rows of distinct abscissae, inputs or outputs, determine all others: what
\* erasure coding is for, and what the test tries for one choice of rows (lines 65-67).
THEOREM AnyShardsRebuild == Spec => []AnyShards
<1>1. Coding => AnyShards
  <2> SUFFICES ASSUME Coding, output # <<>>, Addressable
               PROVE  AnyRebuild(Degree, Places, Shards)
    BY DEF AnyShards
  <2> QED
    BY ShardsOnPolynomials, Rebuilds
<1> QED
  BY <1>1, CodingInvariant, PTL

-----------------------------------------------------------------------------
(* A run of rsc.                                                           *)

LEMMA SubSeqFacts ==
  ASSUME NEW S, NEW s \in Seq(S), NEW a \in Nat, NEW b \in Nat, a <= b, b <= Len(s)
  PROVE  /\ SubSeq(s, a + 1, b) \in Seq(S) /\ Len(SubSeq(s, a + 1, b)) = b - a
         /\ \A i \in 1..b-a : SubSeq(s, a + 1, b)[i] = s[a + i]
<1>1. SubSeq(s, a + 1, b) = [i \in 1..b-a |-> s[a + i]]
  <2>1. Len(s) \in Nat /\ \A i \in 1..b-a : s[i + (a + 1) - 1] = s[a + i]
    OBVIOUS
  <2> QED
    BY <2>1, SubSeqProperties
<1>2. b - a \in Nat /\ \A i \in 1..b-a : s[a + i] \in S
  OBVIOUS
<1>3. [i \in 1..b-a |-> s[a + i]] \in [1..b-a -> S]
  BY <1>2
<1> QED
  BY <1>1, <1>2, <1>3

LEMMA SubSeqJoin ==
  ASSUME NEW S, NEW s \in Seq(S), NEW a \in Nat, NEW b \in Nat, a <= b, b <= Len(s)
  PROVE  SubSeq(s, 1, a) \o SubSeq(s, a + 1, b) = SubSeq(s, 1, b)
<1> DEFINE u == SubSeq(s, 1, a)
           v == SubSeq(s, a + 1, b)
           w == SubSeq(s, 1, b)
<1>1. /\ u \in Seq(S) /\ Len(u) = a /\ \A i \in 1..a : u[i] = s[i]
      /\ w \in Seq(S) /\ Len(w) = b /\ \A i \in 1..b : w[i] = s[i]
  <2>1. 0 + 1 = 1 /\ a <= Len(s) /\ a - 0 = a /\ b - 0 = b /\ \A i \in Nat : 0 + i = i
    BY Len(s) \in Nat
  <2>2. /\ SubSeq(s, 0 + 1, a) \in Seq(S) /\ Len(SubSeq(s, 0 + 1, a)) = a - 0
        /\ \A i \in 1..a-0 : SubSeq(s, 0 + 1, a)[i] = s[0 + i]
    BY <2>1, SubSeqFacts
  <2>3. /\ SubSeq(s, 0 + 1, b) \in Seq(S) /\ Len(SubSeq(s, 0 + 1, b)) = b - 0
        /\ \A i \in 1..b-0 : SubSeq(s, 0 + 1, b)[i] = s[0 + i]
    BY <2>1, SubSeqFacts
  <2> QED
    BY <2>1, <2>2, <2>3
<1>2. v \in Seq(S) /\ Len(v) = b - a /\ \A i \in 1..b-a : v[i] = s[a + i]
  BY SubSeqFacts
<1> HIDE DEF u, v, w
<1>3. u \o v \in Seq(S) /\ Len(u \o v) = b
      /\ \A i \in 1..b : (u \o v)[i] = IF i <= a THEN u[i] ELSE v[i - a]
  <2>1. u \o v \in Seq(S) /\ Len(u \o v) = Len(u) + Len(v)
        /\ \A i \in 1..Len(u)+Len(v) : (u \o v)[i] = IF i <= Len(u) THEN u[i] ELSE v[i - Len(u)]
    BY ONLY <1>1, <1>2, ConcatProperties
  <2> QED
    BY <1>1, <1>2, <2>1
<1>4. ASSUME NEW i \in 1..b PROVE (u \o v)[i] = w[i]
  <2>1. CASE i <= a
    BY <1>1, <1>3, <2>1
  <2>2. CASE ~(i <= a)
    <3>1. i - a \in 1..b-a /\ a + (i - a) = i
      BY <2>2
    <3>2. v[i - a] = s[a + (i - a)]
      BY <1>2, <3>1
    <3> QED
      BY <1>1, <1>3, <2>2, <3>1, <3>2
  <2> QED
    BY <2>1, <2>2
<1>5. u \o v = w
  BY <1>1, <1>3, <1>4, SeqEqual
<1> QED
  BY <1>5 DEF u, v, w

\* The rest of s after a elements, and after n more.
After(s, a) == SubSeq(s, a + 1, Len(s))

LEMMA AfterFacts ==
  ASSUME NEW S, NEW s \in Seq(S), NEW a \in Nat
  PROVE  /\ After(s, a) \in Seq(S) /\ Len(After(s, a)) = (IF a <= Len(s) THEN Len(s) - a ELSE 0)
         /\ \A i \in 1..Len(After(s, a)) : After(s, a)[i] = s[a + i]
<1>1. Len(s) \in Nat
  OBVIOUS
<1>2. CASE a <= Len(s)
  BY <1>1, <1>2, SubSeqFacts DEF After
<1>3. CASE ~(a <= Len(s))
  <2>1. After(s, a) = <<>>
    BY <1>1, <1>3, SubSeqEmpty DEF After
  <2> QED
    BY <1>3, <2>1
<1> QED
  BY <1>2, <1>3

LEMMA AfterMore ==
  ASSUME NEW S, NEW s \in Seq(S), NEW a \in Nat, NEW b \in Nat, NEW c \in Nat,
         b = c \/ (b <= c /\ Len(s) <= a + b)
  PROVE  After(After(s, a), b) = After(s, a + c)
<1> DEFINE t == After(s, a)
           u == After(t, b)
           v == After(s, a + c)
<1>1. Len(s) \in Nat /\ a + c \in Nat /\ a \in Nat /\ b \in Nat /\ c \in Nat
      /\ (b = c \/ (b <= c /\ Len(s) <= a + b))
  OBVIOUS
<1>2. t \in Seq(S) /\ Len(t) = (IF a <= Len(s) THEN Len(s) - a ELSE 0) /\ \A i \in 1..Len(t) : t[i] = s[a + i]
  BY AfterFacts
<1> HIDE DEF t
<1>3. u \in Seq(S) /\ Len(u) = (IF b <= Len(t) THEN Len(t) - b ELSE 0) /\ \A i \in 1..Len(u) : u[i] = t[b + i]
  BY <1>2, AfterFacts
<1>4. v \in Seq(S) /\ Len(v) = (IF a + c <= Len(s) THEN Len(s) - (a + c) ELSE 0)
      /\ \A i \in 1..Len(v) : v[i] = s[(a + c) + i]
  BY <1>1, AfterFacts
<1> HIDE DEF u, v
<1>5. Len(u) = Len(v)
  BY ONLY <1>1, <1>2, <1>3, <1>4
<1>6. ASSUME NEW i \in 1..Len(u) PROVE u[i] = v[i]
  <2>1. b + i \in 1..Len(t) /\ b = c
    <3>1. i \in 1..Len(u)
      OBVIOUS
    <3> QED
      BY ONLY <1>1, <1>2, <1>3, <3>1
  <2>2. t[b + i] = s[a + (b + i)] /\ a + (b + i) = (a + c) + i
    BY <1>2, <2>1
  <2> QED
    BY <1>3, <1>4, <1>5, <2>2
<1>7. u = v
  BY <1>3, <1>4, <1>5, <1>6, SeqEqual
<1> QED
  BY <1>7 DEF u, v, t

\* The largest of a bounded set, the smaller of two numbers.
LEMMA MaxIs ==
  ASSUME NEW U \in SUBSET Nat, U # {}, NEW b \in Nat, \A x \in U : x <= b
  PROVE  Max(U) \in U /\ \A x \in U : x <= Max(U)
<1>1. \E x \in U : \A y \in U : x >= y
  <2>1. PICK x \in U : \A y \in U : y <= x
    BY GreatestNat
  <2>2. \A y \in U : x >= y
    BY <2>1
  <2> QED
    BY <2>2
<1>2. Max(U) = CHOOSE x \in U : \A y \in U : x >= y
  BY DEF Max
<1>3. Max(U) \in U /\ \A y \in U : Max(U) >= y
  BY <1>1, <1>2
<1> QED
  BY <1>3

LEMMA MinIs ==
  ASSUME NEW a \in Nat, NEW b \in Nat
  PROVE  Min({a, b}) = IF a <= b THEN a ELSE b
<1> DEFINE c == IF a <= b THEN a ELSE b
           U == {a, b}
<1>1. c \in U /\ \A y \in U : c <= y
  OBVIOUS
<1>2. \A x \in U : (\A y \in U : x <= y) => x = c
  OBVIOUS
<1>3. Min(U) = CHOOSE x \in U : \A y \in U : x <= y
  BY DEF Min
<1> HIDE DEF U, c
<1>4. Min(U) \in U /\ \A y \in U : Min(U) <= y
  BY <1>1, <1>3
<1> QED
  BY <1>2, <1>4 DEF U, c

\* A Lagrange factor and the rows Code returns are of elements, whatever the abscissae.
LEMMA LagrangeTyped ==
  ASSUME NEW ix \in Seq(Element), NEW i \in DOMAIN ix, NEW x \in Element
  PROVE  lagrange(ix, i, x) \in Element
<1> DEFINE D == DOMAIN ix \ {i}
           f == [h \in D |-> Mult[Plus[x][ix[h]]][inv[Plus[ix[i]][ix[h]]]]]
<1>1. IsFiniteSet(D)
  <2>1. DOMAIN ix = 1..Len(ix) /\ Len(ix) \in Nat
    OBVIOUS
  <2>2. IsFiniteSet(1..Len(ix))
    BY <2>1, FS_Interval
  <2> QED
    BY <2>1, <2>2, FS_Subset
<1>2. ASSUME NEW h \in D PROVE f[h] \in Element
  <2> DEFINE p == ix[i]
             q == ix[h]
             u == x ++ q
             v == p ++ q
             w == inv[v]
  <2>1. p \in Element /\ q \in Element
    OBVIOUS
  <2> HIDE DEF p, q
  <2>2. u \in Element /\ v \in Element
    BY <2>1, FieldLaws
  <2> HIDE DEF u, v
  <2>3. w \in Element
    BY <2>2, FieldLaws
  <2> HIDE DEF w
  <2>4. u ** w \in Element
    BY <2>2, <2>3, FieldLaws
  <2> QED
    BY <2>4 DEF p, q, u, v, w, ++, **
<1>3. f \in [D -> Element]
  BY <1>2
<1>4. Product(f) \in Element
  <2> HIDE DEF f, D
  <2> QED
    BY <1>1, <1>3, ProductOf
<1> QED
  BY <1>4 DEF lagrange

LEMMA CodeTyped ==
  ASSUME NEW ix \in Seq(Element), ix # <<>>, NEW ox \in Seq(Element),
         NEW l \in Nat, NEW m, Rectangle(m, Len(ix), l)
  PROVE  Rectangle(coded(interpOf(ix, ox), m), Len(ox), l)
<1> DEFINE n == Len(ix)
           o == Len(ox)
           t == interpOf(ix, ox)
           c == coded(t, m)
           F(h, j) == [i \in DOMAIN m |-> Mult[m[i][j]][t[i][h]]]
<1>1. n \in Nat \ {0} /\ DOMAIN ix = 1..n /\ o \in Nat /\ DOMAIN ox = 1..o /\ 1 \in 1..n
      /\ (\A h \in 1..o : ox[h] \in Element) /\ IsFiniteSet(1..n)
  <2>1. n \in Nat \ {0} /\ DOMAIN ix = 1..n /\ o \in Nat /\ DOMAIN ox = 1..o /\ 1 \in 1..n
        /\ (\A h \in 1..o : ox[h] \in Element)
    BY EmptySeq
  <2> QED
    BY <2>1, FS_Interval
<1>2. DOMAIN m = 1..n /\ (\A i \in 1..n : DOMAIN m[i] = 1..l) /\ \A i \in 1..n, j \in 1..l : m[i][j] \in Element
  <2> HIDE DEF n
  <2>1. Rectangle(m, n, l) /\ n \in Nat
    BY <1>1 DEF n
  <2> QED
    BY <2>1, RectangleRows
<1>3. DOMAIN t[1] = 1..o /\ \A i \in 1..n, h \in 1..o : t[i][h] \in Element
  <2>1. \A i \in 1..n, h \in 1..o : lagrange(ix, i, ox[h]) \in Element
    BY <1>1, LagrangeTyped
  <2>2. t = [i \in 1..n |-> [h \in 1..o |-> lagrange(ix, i, ox[h])]]
    BY <1>1 DEF interpOf
  <2> HIDE DEF t
  <2> QED
    BY <1>1, <2>1, <2>2
<1> HIDE DEF t
<1>4. ASSUME NEW h \in 1..o, NEW j \in 1..l PROVE XorAll(F(h, j)) \in Element
  <2> DEFINE f == F(h, j)
  <2>1. \A i \in 1..n : m[i][j] ** t[i][h] \in Element
    BY <1>2, <1>3, FieldLaws
  <2>2. f \in [1..n -> Element]
    BY <1>2, <2>1 DEF **
  <2> HIDE DEF f
  <2>3. XorAll(f) \in Element
    BY <1>1, <2>2, XorAllOf
  <2> QED
    BY <2>3 DEF f
<1>5. c = [h \in 1..o |-> [j \in 1..l |-> XorAll(F(h, j))]]
  BY <1>1, <1>2, <1>3 DEF coded
<1> HIDE DEF F, c
<1>6. c \in [1..o -> [1..l -> Element]]
  BY <1>4, <1>5
<1>7. (\A h \in 1..o : c[h] \in Seq(Element) /\ Len(c[h]) = l) /\ c \in [1..o -> Seq(Element)]
  <2>1. \A r \in [1..l -> Element] : r \in Seq(Element) /\ Len(r) = l
    OBVIOUS
  <2> QED
    BY <1>6, <2>1
<1>8. c \in Seq(Seq(Element)) /\ Len(c) = o
  <2> HIDE DEF o
  <2> QED
    BY <1>1, <1>7
<1> QED
  BY <1>7, <1>8 DEF Rectangle, c, t

\* The types, in the form the steps keep: who is open, which file is next, how many rows.
RscTyped ==
  /\ cmd \in Commands /\ idx_in = Set(cmd.i) /\ idx_out = Set(cmd.o)
  /\ at \in {"open", "read", "write", "close"} \cup Exits
  /\ in_open \subseteq DOMAIN rest /\ all_closed \in BOOLEAN /\ short \in BOOLEAN
  /\ at = "usage" => rest = <<>> /\ out_files = <<>>
  /\ at # "usage" => /\ cmd.i # <<>> /\ cmd.o # <<>> /\ Len(cmd.files) = Len(cmd.i) + Len(cmd.o)
                     /\ rest \in Seq(Seq(Element)) /\ Len(rest) = inputs
                     /\ out_files \in Seq(Seq(Element)) /\ Len(out_files) = Len(idx_out)
  /\ at = "open" => in_open = {} \/ in_open = DOMAIN rest
  /\ at \in {"read", "write", "close"} => \A i \in DOMAIN rest \ in_open : rest[i] = <<>>
  /\ at \in {"open", "read", "write", "close"} => next \in 1..Len(out_files)
  /\ at = "write" => \E l \in Nat : Rectangle(out, Len(idx_out), l)

\* The flags are bytes.
LEMMA SetBytes ==
  ASSUME NEW values \in Seq(Nat)
  PROVE  /\ Set(values) \in Seq(Element) /\ Len(Set(values)) = Len(values)
         /\ \A n \in 1..Len(values) : Set(values)[n] = values[n] % Values
<1>1. Values \in Nat \ {0}
  BY Shifts, ElementsAreWords DEF Values
<1>2. \A v \in Nat : v % Values \in Element
  BY <1>1, DivMod DEF Element
<1>3. Len(values) \in Nat /\ DOMAIN values = 1..Len(values) /\ \A n \in 1..Len(values) : values[n] \in Nat
  OBVIOUS
<1>4. Set(values) = [n \in 1..Len(values) |-> values[n] % Values]
  BY <1>3 DEF Set
<1>5. Set(values) \in [1..Len(values) -> Element]
  BY <1>2, <1>3, <1>4
<1> QED
  BY <1>3, <1>4, <1>5

\* What the command line says, where it is accepted.
LEMMA CommandFacts ==
  ASSUME NEW c \in Commands, NEW ix, ix = Set(c.i), NEW ox, ox = Set(c.o)
  PROVE  /\ ix \in Seq(Element) /\ Len(ix) = Len(c.i) /\ Len(ix) \in Nat
         /\ ox \in Seq(Element) /\ Len(ox) = Len(c.o) /\ Len(ox) \in Nat
         /\ c.i # <<>> => ix # <<>> /\ Len(ix) > 0
         /\ c.o # <<>> => ox # <<>> /\ Len(ox) > 0
         /\ c.files \in Seq(Seq(Element)) /\ Len(c.files) \in Nat
         /\ kBlocksize \in Nat \ {0} /\ MayRead \subseteq Nat
<1>1. c.i \in Seq(Nat) /\ c.o \in Seq(Nat) /\ c.files \in Seq(Seq(Element))
      /\ kBlocksize \in Nat \ {0} /\ MayRead \subseteq Nat
  BY CommandAssumption
<1>2. ix \in Seq(Element) /\ Len(ix) = Len(c.i) /\ ox \in Seq(Element) /\ Len(ox) = Len(c.o)
  BY <1>1, SetBytes
<1>3. (c.i # <<>> => Len(c.i) > 0) /\ (c.o # <<>> => Len(c.o) > 0)
  BY <1>1, EmptySeq
<1>4. (Len(ix) > 0 => ix # <<>>) /\ (Len(ox) > 0 => ox # <<>>)
  OBVIOUS
<1> QED
  BY <1>1, <1>2, <1>3, <1>4

LEMMA RscTypedInit == RscInit => RscTyped
<1> SUFFICES ASSUME RscInit PROVE RscTyped
  OBVIOUS
<1>1. PICK c \in Commands :
    /\ cmd = c /\ idx_in = Set(c.i) /\ idx_out = Set(c.o)
    /\ \/ /\ c.i = <<>> \/ c.o = <<>> \/ Len(c.files) # Len(c.i) + Len(c.o)
          /\ at = "usage" /\ rest = <<>> /\ out_files = <<>>
       \/ /\ c.i # <<>> /\ c.o # <<>> /\ Len(c.files) = Len(c.i) + Len(c.o)
          /\ at = "open" /\ rest = SubSeq(c.files, 1, inputs)
          /\ out_files = SubSeq(c.files, inputs + 1, Len(c.files))
    /\ in_open = {} /\ out = <<>> /\ all_closed = FALSE /\ next = 1 /\ short = FALSE
  BY DEF RscInit
<1>2. CASE at = "usage"
  BY <1>1, <1>2 DEF RscTyped, Exits
<1>3. CASE at # "usage"
  <2>1. /\ c.i # <<>> /\ c.o # <<>> /\ Len(c.files) = Len(c.i) + Len(c.o)
        /\ at = "open" /\ rest = SubSeq(c.files, 1, inputs)
        /\ out_files = SubSeq(c.files, inputs + 1, Len(c.files))
    BY <1>1, <1>3
  <2>2. /\ inputs \in Nat /\ inputs > 0 /\ Len(idx_out) \in Nat /\ Len(idx_out) > 0
        /\ c.files \in Seq(Seq(Element)) /\ Len(c.files) = inputs + Len(idx_out)
    BY <1>1, <2>1, CommandFacts DEF inputs
  <2>3. rest \in Seq(Seq(Element)) /\ Len(rest) = inputs
    <3>1. SubSeq(c.files, 0 + 1, inputs) \in Seq(Seq(Element)) /\ Len(SubSeq(c.files, 0 + 1, inputs)) = inputs - 0
      BY <2>2, SubSeqFacts
    <3> QED
      BY <2>1, <2>2, <3>1
  <2>4. out_files \in Seq(Seq(Element)) /\ Len(out_files) = Len(idx_out)
    <3>1. /\ SubSeq(c.files, inputs + 1, Len(c.files)) \in Seq(Seq(Element))
          /\ Len(SubSeq(c.files, inputs + 1, Len(c.files))) = Len(c.files) - inputs
      BY <2>2, SubSeqFacts
    <3>2. Len(c.files) - inputs = Len(idx_out)
      BY <2>2
    <3> QED
      BY ONLY <2>1, <3>1, <3>2
  <2>5. 1 \in 1..Len(out_files)
    BY <2>2, <2>4
  <2> QED
    BY <1>1, <2>1, <2>3, <2>4, <2>5 DEF RscTyped, Exits
<1> QED
  BY <1>2, <1>3

\* Where main is at work, there are inputs and outputs.
LEMMA RscWorking ==
  ASSUME RscTyped, at # "usage"
  PROVE  /\ inputs \in Nat /\ inputs > 0 /\ Len(idx_out) \in Nat /\ Len(idx_out) > 0
         /\ idx_in \in Seq(Element) /\ idx_in # <<>> /\ idx_out \in Seq(Element)
         /\ DOMAIN rest = 1..inputs /\ (\A i \in 1..inputs : rest[i] \in Seq(Element))
         /\ DOMAIN out_files = 1..Len(idx_out) /\ (\A j \in 1..Len(idx_out) : out_files[j] \in Seq(Element))
         /\ kBlocksize \in Nat \ {0} /\ MayRead \subseteq Nat
         /\ cmd \in Commands /\ cmd.files \in Seq(Seq(Element)) /\ Len(cmd.files) = inputs + Len(idx_out)
         /\ Len(out_files) = Len(idx_out) /\ out_files \in Seq(Seq(Element))
<1>1. /\ cmd \in Commands /\ idx_in = Set(cmd.i) /\ idx_out = Set(cmd.o)
      /\ cmd.i # <<>> /\ cmd.o # <<>> /\ Len(cmd.files) = Len(cmd.i) + Len(cmd.o)
      /\ rest \in Seq(Seq(Element)) /\ Len(rest) = inputs
      /\ out_files \in Seq(Seq(Element)) /\ Len(out_files) = Len(idx_out)
  BY DEF RscTyped
<1>2. DOMAIN rest = 1..inputs /\ (\A i \in 1..inputs : rest[i] \in Seq(Element))
  BY <1>1
<1>3. DOMAIN out_files = 1..Len(idx_out) /\ (\A j \in 1..Len(idx_out) : out_files[j] \in Seq(Element))
  BY <1>1
<1> QED
  BY <1>1, <1>2, <1>3, CommandFacts DEF inputs

\* What a step of the loop reads: n bytes of each input, padded to the longest.
Reads(n) ==
  /\ n \in [DOMAIN rest -> 0..kBlocksize]
  /\ \A i \in DOMAIN rest : n[i] \in IF i \in in_open THEN Counts(i) ELSE {0}

Blocks(n) == [i \in DOMAIN rest |-> block(i, n[i], max_n(n))]

LEMMA ReadsFacts ==
  ASSUME RscTyped, at = "read", NEW n, Reads(n)
  PROVE  /\ n \in [1..inputs -> 0..kBlocksize] /\ max_n(n) \in 0..kBlocksize
         /\ (\E i \in 1..inputs : n[i] = max_n(n)) /\ \A i \in 1..inputs : n[i] <= max_n(n)
         /\ \A i \in 1..inputs : n[i] <= Len(rest[i])
         /\ \A i \in 1..inputs : n[i] = 0 => rest[i] = <<>>
         /\ \A i \in 1..inputs :
              n[i] = Min({kBlocksize, Len(rest[i])}) \/ (i \in in_open /\ n[i] < Min({kBlocksize, Len(rest[i])}))
<1>1. /\ inputs \in Nat /\ inputs > 0 /\ DOMAIN rest = 1..inputs /\ (\A i \in 1..inputs : rest[i] \in Seq(Element))
      /\ kBlocksize \in Nat \ {0} /\ MayRead \subseteq Nat
  BY RscWorking
<1>2. n \in [1..inputs -> 0..kBlocksize] /\ \A i \in 1..inputs : n[i] \in IF i \in in_open THEN Counts(i) ELSE {0}
  BY <1>1 DEF Reads
<1>3. \A i \in DOMAIN rest \ in_open : rest[i] = <<>>
  BY DEF RscTyped
<1> DEFINE U == Range(n)
<1>4. U \in SUBSET Nat /\ U # {} /\ \A x \in U : x <= kBlocksize
  <2>1. U = {n[i] : i \in 1..inputs}
    BY <1>2 DEF Range
  <2>2. n[1] \in U
    BY <1>1, <2>1
  <2>3. \A x \in U : x \in 0..kBlocksize
    BY <1>2, <2>1
  <2> HIDE DEF U
  <2>4. \A x \in U : x \in Nat /\ x <= kBlocksize
    BY <1>1, <2>3
  <2> QED
    BY <2>2, <2>4
<1>5. max_n(n) \in U /\ \A x \in U : x <= max_n(n)
  <2> HIDE DEF U
  <2>1. Max(U) \in U /\ \A x \in U : x <= Max(U)
    BY <1>1, <1>4, MaxIs
  <2> QED
    BY <2>1 DEF max_n, U
<1>6. (\E i \in 1..inputs : n[i] = max_n(n)) /\ \A i \in 1..inputs : n[i] \in U
  BY <1>2, <1>5 DEF Range
<1>7. ASSUME NEW i \in 1..inputs
      PROVE  /\ n[i] <= Len(rest[i]) /\ (n[i] = 0 => rest[i] = <<>>)
             /\ n[i] = Min({kBlocksize, Len(rest[i])}) \/ (i \in in_open /\ n[i] < Min({kBlocksize, Len(rest[i])}))
  <2> DEFINE full == Min({kBlocksize, Len(rest[i])})
  <2>1. rest[i] \in Seq(Element) /\ Len(rest[i]) \in Nat /\ n[i] \in 0..kBlocksize
    BY <1>1, <1>2
  <2>2. full = IF kBlocksize <= Len(rest[i]) THEN kBlocksize ELSE Len(rest[i])
    BY <1>1, <2>1, MinIs
  <2>3. CASE i \in in_open
    <3>1. n[i] \in {full} \cup {x \in MayRead : 0 < x /\ x < full}
      BY <1>2, <2>3 DEF Counts
    <3> HIDE DEF full
    <3>2. n[i] = full \/ (0 < n[i] /\ n[i] < full)
      BY <3>1
    <3>3. n[i] = 0 => Len(rest[i]) = 0
      BY <1>1, <2>1, <2>2, <3>2
    <3>4. Len(rest[i]) = 0 => rest[i] = <<>>
      BY <2>1, EmptySeq
    <3>5. n[i] <= Len(rest[i])
      BY <1>1, <2>1, <2>2, <3>2
    <3> QED
      BY <2>3, <3>2, <3>3, <3>4, <3>5 DEF full
  <2>4. CASE i \notin in_open
    <3>1. n[i] = 0 /\ rest[i] = <<>>
      BY <1>1, <1>2, <1>3, <2>4
    <3>2. Len(rest[i]) = 0
      BY <3>1
    <3> HIDE DEF full
    <3> QED
      BY <1>1, <2>2, <3>1, <3>2 DEF full
  <2> QED
    BY <2>3, <2>4
<1> QED
  <2>1. max_n(n) \in 0..kBlocksize /\ \A i \in 1..inputs : n[i] <= max_n(n)
    <3> HIDE DEF U
    <3> QED
      BY <1>2, <1>5, <1>6
  <2> QED
    BY <1>2, <1>6, <1>7, <2>1

\* The blocks are a matrix.
LEMMA BlocksFit ==
  ASSUME RscTyped, at = "read", NEW n, Reads(n)
  PROVE  /\ Rectangle(Blocks(n), inputs, max_n(n))
         /\ \A i \in 1..inputs, j \in 1..max_n(n) : Blocks(n)[i][j] = IF j <= n[i] THEN rest[i][j] ELSE 0
<1> DEFINE e == max_n(n)
<1>1. /\ inputs \in Nat /\ inputs > 0 /\ DOMAIN rest = 1..inputs /\ \A i \in 1..inputs : rest[i] \in Seq(Element)
  BY RscWorking
<1>2. /\ n \in [1..inputs -> 0..kBlocksize] /\ e \in Nat /\ \A i \in 1..inputs : n[i] <= Len(rest[i])
  BY ReadsFacts
<1> HIDE DEF e
<1>3. \A i \in 1..inputs, j \in 1..e : (IF j <= n[i] THEN rest[i][j] ELSE 0) \in Element
  <2> SUFFICES ASSUME NEW i \in 1..inputs, NEW j \in 1..e PROVE (IF j <= n[i] THEN rest[i][j] ELSE 0) \in Element
    OBVIOUS
  <2>1. 0 \in Element
    BY FieldLaws
  <2>2. j <= n[i] => j \in 1..Len(rest[i])
    BY <1>1, <1>2
  <2> QED
    BY <1>1, <2>1, <2>2
<1>4. Blocks(n) = [i \in 1..inputs |-> [j \in 1..e |-> IF j <= n[i] THEN rest[i][j] ELSE 0]]
  BY <1>1 DEF Blocks, block, e
<1>5. \A i \in 1..inputs : Blocks(n)[i] = [j \in 1..e |-> IF j <= n[i] THEN rest[i][j] ELSE 0]
  BY <1>4
<1>6. \A i \in 1..inputs : Blocks(n)[i] \in [1..e -> Element]
  BY <1>3, <1>5
<1>7. (\A i \in 1..inputs : Blocks(n)[i] \in Seq(Element) /\ Len(Blocks(n)[i]) = e)
  <2>1. \A r \in [1..e -> Element] : r \in Seq(Element) /\ Len(r) = e
    BY <1>2
  <2> QED
    BY <1>6, <2>1
<1>8. Blocks(n) \in Seq(Seq(Element)) /\ Len(Blocks(n)) = inputs
  <2>1. Blocks(n) \in [1..inputs -> Seq(Element)]
    BY <1>4, <1>7
  <2> QED
    BY <1>1, <2>1
<1> QED
  BY <1>5, <1>7, <1>8 DEF Rectangle, e

LEMMA ExceptFits ==
  ASSUME NEW S, NEW s \in Seq(S), NEW j, NEW v \in S
  PROVE  [s EXCEPT ![j] = v] \in Seq(S) /\ Len([s EXCEPT ![j] = v]) = Len(s)
<1>1. s \in [1..Len(s) -> S] /\ Len(s) \in Nat
  OBVIOUS
<1>2. [s EXCEPT ![j] = v] \in [1..Len(s) -> S]
  BY <1>1
<1> QED
  BY <1>1, <1>2

LEMMA OpenTyped == ASSUME RscTyped, Open PROVE RscTyped'
  BY DEF RscTyped, Open, inputs, Exits

LEMMA CrashTyped ==
  ASSUME RscTyped, Crash, at # "usage", out_files' \in Seq(Seq(Element)), Len(out_files') = Len(out_files)
  PROVE  RscTyped'
  BY DEF RscTyped, Crash, inputs, Exits

LEMMA TruncateTyped == ASSUME RscTyped, Truncate PROVE RscTyped'
<1>1. /\ at = "open" /\ in_open # {} /\ out_files' = [out_files EXCEPT ![next] = <<>>]
      /\ UNCHANGED <<cmd, idx_in, idx_out, rest, in_open, out, all_closed, short>>
      /\ IF next = Len(out_files) THEN at' = "read" /\ next' = 1 ELSE at' = at /\ next' = next + 1
  BY DEF Truncate
<1>2. out_files \in Seq(Seq(Element)) /\ Len(out_files) = Len(idx_out) /\ Len(idx_out) \in Nat /\ Len(idx_out) > 0
  BY <1>1, RscWorking
<1>3. out_files' \in Seq(Seq(Element)) /\ Len(out_files') = Len(out_files)
  <2>1. <<>> \in Seq(Element)
    OBVIOUS
  <2> QED
    BY <1>1, <1>2, <2>1, ExceptFits
<1>4. next \in 1..Len(out_files) /\ in_open = DOMAIN rest
  BY <1>1 DEF RscTyped
<1>5. next' \in 1..Len(out_files')
  BY <1>1, <1>2, <1>3, <1>4
<1> QED
  BY <1>1, <1>2, <1>3, <1>4, <1>5 DEF RscTyped, inputs, Exits

LEMMA ReadTyped == ASSUME RscTyped, Read PROVE RscTyped'
<1>1. /\ at = "read" /\ UNCHANGED <<cmd, idx_in, idx_out, next, out_files>>
  BY DEF Read
<1>2. PICK n :
       /\ Reads(n)
       /\ at' = IF max_n(n) = 0 THEN "close" ELSE "write"
       /\ out' = IF max_n(n) = 0 THEN out ELSE coded(interpOf(idx_in, idx_out), Blocks(n))
       /\ rest' = [i \in DOMAIN rest |-> After(rest[i], n[i])]
       /\ in_open' = {i \in in_open : n[i] > 0}
       /\ all_closed' = (in_open' = {})
       /\ short' = (short \/ \E i \in in_open : n[i] < Min({kBlocksize, Len(rest[i])}))
  BY DEF Read, Reads, Blocks, After
<1>3. /\ inputs \in Nat /\ inputs > 0 /\ Len(idx_out) \in Nat /\ Len(idx_out) > 0
      /\ idx_in \in Seq(Element) /\ idx_in # <<>> /\ idx_out \in Seq(Element)
      /\ DOMAIN rest = 1..inputs /\ (\A i \in 1..inputs : rest[i] \in Seq(Element))
  BY <1>1, RscWorking
<1>4. /\ n \in [1..inputs -> 0..kBlocksize] /\ max_n(n) \in Nat /\ \A i \in 1..inputs : n[i] \in Nat
      /\ \A i \in 1..inputs : n[i] = 0 => rest[i] = <<>>
  <2>1. kBlocksize \in Nat
    BY <1>1, RscWorking
  <2>2. /\ n \in [1..inputs -> 0..kBlocksize] /\ max_n(n) \in 0..kBlocksize
        /\ \A i \in 1..inputs : n[i] = 0 => rest[i] = <<>>
    BY <1>1, <1>2, ReadsFacts
  <2> QED
    BY <2>1, <2>2
<1>5. ASSUME NEW i \in 1..inputs
      PROVE  rest'[i] \in Seq(Element) /\ (i \notin in_open' => rest'[i] = <<>>)
  <2>1. rest'[i] = After(rest[i], n[i])
    BY <1>2, <1>3
  <2>2. rest'[i] \in Seq(Element)
        /\ Len(rest'[i]) = IF n[i] <= Len(rest[i]) THEN Len(rest[i]) - n[i] ELSE 0
    <3>1. rest[i] \in Seq(Element) /\ n[i] \in Nat
      BY <1>3, <1>4
    <3>2. After(rest[i], n[i]) \in Seq(Element)
          /\ Len(After(rest[i], n[i])) = IF n[i] <= Len(rest[i]) THEN Len(rest[i]) - n[i] ELSE 0
      BY <3>1, AfterFacts
    <3> QED
      BY <2>1, <3>2
  <2>3. ASSUME i \notin in_open' PROVE rest'[i] = <<>>
    <3>1. rest[i] = <<>>
      <4>1. CASE i \in in_open
        BY <1>2, <1>4, <2>3, <4>1
      <4>2. CASE i \notin in_open
        BY <1>1, <1>3, <4>2 DEF RscTyped
      <4> QED
        BY <4>1, <4>2
    <3>2. Len(rest[i]) = 0
      BY <3>1
    <3>3. Len(rest'[i]) = 0
      BY <1>4, <2>2, <3>2
    <3> QED
      BY <2>2, <3>3, EmptySeq
  <2> QED
    BY <2>2, <2>3
<1>6. rest' \in Seq(Seq(Element)) /\ Len(rest') = inputs /\ DOMAIN rest' = 1..inputs
  <2>1. DOMAIN rest' = 1..inputs /\ rest' = [i \in 1..inputs |-> After(rest[i], n[i])]
    BY <1>2, <1>3
  <2>2. rest' \in [1..inputs -> Seq(Element)]
    BY <1>5, <2>1
  <2> QED
    BY <1>3, <2>1, <2>2
<1>7. at' = "write" => \E l \in Nat : Rectangle(out', Len(idx_out), l)
  <2>1. Rectangle(Blocks(n), Len(idx_in), max_n(n))
    BY <1>1, <1>2, BlocksFit DEF inputs
  <2>2. Rectangle(coded(interpOf(idx_in, idx_out), Blocks(n)), Len(idx_out), max_n(n))
    BY <1>3, <1>4, <2>1, CodeTyped
  <2> QED
    BY <1>2, <1>4, <2>2
<1>8. inputs' = inputs /\ in_open' \subseteq DOMAIN rest'
  <2>1. in_open \subseteq DOMAIN rest
    BY DEF RscTyped
  <2> QED
    BY <1>1, <1>2, <1>3, <1>6, <2>1 DEF inputs
<1>9. all_closed' \in BOOLEAN /\ short' \in BOOLEAN
  BY <1>2 DEF RscTyped
<1>10. at' \in {"close", "write"}
  BY <1>2
<1> QED
  BY <1>1, <1>5, <1>6, <1>7, <1>8, <1>9, <1>10 DEF RscTyped, Exits

\* What a file becomes by an append.
LEMMA AppendFits ==
  ASSUME RscTyped, at # "usage", NEW j \in DOMAIN out_files, NEW v \in Seq(Element)
  PROVE  LET files == [out_files EXCEPT ![j] = @ \o v]
         IN  files \in Seq(Seq(Element)) /\ Len(files) = Len(out_files)
<1>1. out_files \in Seq(Seq(Element)) /\ out_files[j] \in Seq(Element)
  BY RscWorking
<1>2. out_files[j] \o v \in Seq(Element)
  BY <1>1
<1>3. [out_files EXCEPT ![j] = @ \o v] = [out_files EXCEPT ![j] = out_files[j] \o v]
  OBVIOUS
<1> QED
  BY <1>1, <1>2, <1>3, ExceptFits

\* The rows to write.
LEMMA RowsToWrite ==
  ASSUME RscTyped, at = "write"
  PROVE  /\ next \in 1..Len(idx_out) /\ next \in DOMAIN out_files /\ Len(out) = Len(idx_out)
         /\ \E l \in Nat : \A j \in 1..Len(idx_out) : out[j] \in Seq(Element) /\ Len(out[j]) = l
<1>1. Len(idx_out) \in Nat /\ DOMAIN out_files = 1..Len(idx_out) /\ Len(out_files) = Len(idx_out)
  BY RscWorking
<1>2. next \in 1..Len(out_files)
  BY DEF RscTyped
<1>3. PICK l \in Nat : Rectangle(out, Len(idx_out), l)
  BY DEF RscTyped
<1>4. Len(out) = Len(idx_out) /\ \A j \in 1..Len(idx_out) : out[j] \in Seq(Element) /\ Len(out[j]) = l
  BY <1>3 DEF Rectangle
<1> QED
  BY <1>1, <1>2, <1>4

LEMMA WriteTyped == ASSUME RscTyped, Write PROVE RscTyped'
<1>1. /\ at = "write" /\ out_files' = [out_files EXCEPT ![next] = @ \o out[next]]
      /\ IF next = Len(out) THEN next' = 1 /\ at' = IF all_closed THEN "close" ELSE "read"
                            ELSE next' = next + 1 /\ at' = at
      /\ UNCHANGED <<cmd, idx_in, idx_out, rest, in_open, out, all_closed, short>>
  BY DEF Write
<1>2. /\ next \in 1..Len(idx_out) /\ next \in DOMAIN out_files /\ Len(out) = Len(idx_out)
      /\ out[next] \in Seq(Element)
  BY <1>1, RowsToWrite
<1>3. out_files' \in Seq(Seq(Element)) /\ Len(out_files') = Len(out_files)
  BY <1>1, <1>2, AppendFits
<1>4. Len(out_files) = Len(idx_out) /\ Len(idx_out) \in Nat
  BY <1>1, RscWorking
<1>5. next' \in 1..Len(out_files') /\ at' \in {"write", "close", "read"}
  BY <1>1, <1>2, <1>3, <1>4
<1>6. inputs' = inputs
  BY <1>1 DEF inputs
<1> QED
  BY <1>1, <1>3, <1>4, <1>5, <1>6 DEF RscTyped, Exits

LEMMA WriteFailsTyped == ASSUME RscTyped, WriteFails PROVE RscTyped'
<1>1. at = "write" /\ Crash
  BY DEF WriteFails
<1>2. PICK n \in 0..Len(out[next])-1 : out_files' = [out_files EXCEPT ![next] = @ \o SubSeq(out[next], 1, n)]
  BY DEF WriteFails
<1>3. next \in DOMAIN out_files /\ out[next] \in Seq(Element)
  BY <1>1, RowsToWrite
<1>4. SubSeq(out[next], 1, n) \in Seq(Element)
  <2>1. n \in Nat /\ 0 <= n /\ n <= Len(out[next]) /\ 0 + 1 = 1 /\ 0 \in Nat
    BY <1>2, <1>3
  <2>2. SubSeq(out[next], 0 + 1, n) \in Seq(Element)
    BY <1>3, <2>1, SubSeqFacts
  <2> QED
    BY <2>1, <2>2
<1>5. out_files' \in Seq(Seq(Element)) /\ Len(out_files') = Len(out_files)
  BY <1>1, <1>2, <1>3, <1>4, AppendFits
<1> QED
  BY <1>1, <1>5, CrashTyped

LEMMA CloseTyped == ASSUME RscTyped, Close PROVE RscTyped'
<1>1. at = "close" /\ next \in 1..Len(out_files)
  BY DEF RscTyped, Close
<1>2. Len(out_files) \in Nat
  BY <1>1, RscWorking
<1>3. at' = "close" => next' \in 1..Len(out_files)
  BY <1>1, <1>2 DEF Close
<1> QED
  BY <1>1, <1>3 DEF RscTyped, Close, inputs, Exits

LEMMA FailsTyped == ASSUME RscTyped, OpenFails \/ ReadFails \/ CloseFails PROVE RscTyped'
<1>1. Crash /\ at # "usage" /\ out_files' = out_files
  BY DEF OpenFails, ReadFails, CloseFails
<1>2. out_files' \in Seq(Seq(Element)) /\ Len(out_files') = Len(out_files)
  BY <1>1, RscWorking
<1> QED
  BY <1>1, <1>2, CrashTyped

LEMMA RscTypedNext == RscTyped /\ [RscNext]_RscVars => RscTyped'
<1> SUFFICES ASSUME RscTyped, [RscNext]_RscVars PROVE RscTyped'
  OBVIOUS
<1>1. CASE UNCHANGED RscVars
  BY <1>1 DEF RscTyped, RscVars, inputs
<1>2. CASE RscNext
  BY <1>2, OpenTyped, TruncateTyped, ReadTyped, WriteTyped, WriteFailsTyped, CloseTyped, FailsTyped
     DEF RscNext, Progress
<1> QED
  BY <1>1, <1>2

LEMMA RscTypedImplies == RscTyped => RscTypeOK
<1> SUFFICES ASSUME RscTyped PROVE RscTypeOK
  OBVIOUS
<1>1. idx_in \in Seq(Element) /\ idx_out \in Seq(Element)
  BY CommandFacts DEF RscTyped
<1>2. rest \in Seq(Seq(Element)) /\ out_files \in Seq(Seq(Element))
  <2>1. <<>> \in Seq(Seq(Element))
    OBVIOUS
  <2> QED
    BY <2>1 DEF RscTyped
<1> QED
  BY <1>1, <1>2 DEF RscTyped, RscTypeOK

\* The types of a run of rsc, for every field, block size and command line: of what was
\* read nothing is lost but of closed inputs, and a file to open, write or close exists.
THEOREM RscTypeCorrect == RscSpec => []RscTypeOK
<1>1. RscInit => RscTyped
  BY RscTypedInit
<1>2. RscTyped /\ [RscNext]_RscVars => RscTyped'
  BY RscTypedNext
<1>3. RscTyped => RscTypeOK
  BY RscTypedImplies
<1> QED
  BY <1>1, <1>2, <1>3, PTL DEF RscSpec

-----------------------------------------------------------------------------
(* What a run of rsc writes.                                               *)

LEMMA PolsUnique ==
  \A m \in Nat : \A f, g \in Pol(m) : \A xs \in [1..m -> Element] :
    (\A i, j \in 1..m : xs[i] = xs[j] => i = j) /\ (\A i \in 1..m : f[xs[i]] = g[xs[i]])
      => \A x \in Element : f[x] = g[x]
<1> SUFFICES ASSUME NEW m \in Nat, NEW f \in Pol(m), NEW g \in Pol(m), NEW xs \in [1..m -> Element],
                    \A i, j \in 1..m : xs[i] = xs[j] => i = j, \A i \in 1..m : f[xs[i]] = g[xs[i]]
             PROVE  \A x \in Element : f[x] = g[x]
  OBVIOUS
<1> QED
  BY PolUnique

LEMMA ValueAtPol ==
  ASSUME NEW m \in Nat, NEW coef \in [1..m -> Element]
  PROVE  \E f \in Pol(m) : \A x \in Element : f[x] = ValueAt(coef, x)
<1>1. PICK h : Evaluates(h, coef, m)
  BY EvaluatesExists
<1>2. h[m] \in [Element -> Element]
  BY <1>1, EvaluatesTyped
<1>3. h[m] \in Pol(m)
  BY <1>1, <1>2 DEF Pol
<1>4. \A x \in Element : h[m][x] = ValueAt(coef, x)
  BY <1>1, ValueAtIs
<1> QED
  BY <1>3, <1>4

\* Of as many coefficients as there are abscissae, exactly those of the interpolation
\* have its values.
LEMMA TheCoefficients ==
  ASSUME NEW ix, Abscissae(ix), NEW v \in [DOMAIN ix -> Element]
  PROVE  /\ \E c \in [1..Len(ix) -> Element] : \A i \in 1..Len(ix) : ValueAt(c, ix[i]) = v[i]
         /\ \A c \in [1..Len(ix) -> Element] :
              (\A i \in 1..Len(ix) : ValueAt(c, ix[i]) = v[i])
                => \A x \in Element : ValueAt(c, x) = Interpolated(ix, v, x)
<1> DEFINE n == Len(ix)
<1>1. n \in Nat /\ DOMAIN ix = 1..n /\ (\A i \in 1..n : ix[i] \in Element) /\ ix \in [1..n -> Element]
      /\ \A i, j \in 1..n : ix[i] = ix[j] => i = j
  BY DEF Abscissae, IsInjective
<1>2. PICK f \in Pol(n) :
        /\ \A x \in Element : f[x] = Interpolated(ix, v, x)
        /\ \A i \in DOMAIN ix : f[ix[i]] = v[i]
  BY Interpolation
<1> HIDE DEF n
<1>3. PICK c \in [1..n -> Element] : \A x \in Element : f[x] = ValueAt(c, x)
  BY <1>1, <1>2, PolValueAt
<1>4. \A i \in 1..n : ValueAt(c, ix[i]) = v[i]
  BY <1>1, <1>2, <1>3
<1>5. ASSUME NEW d \in [1..n -> Element], \A i \in 1..n : ValueAt(d, ix[i]) = v[i]
      PROVE  \A x \in Element : ValueAt(d, x) = Interpolated(ix, v, x)
  <2>1. PICK g \in Pol(n) : \A x \in Element : g[x] = ValueAt(d, x)
    BY <1>1, ValueAtPol
  <2>2. \A i \in 1..n : f[ix[i]] = g[ix[i]]
    BY <1>1, <1>2, <1>5, <2>1
  <2>3. \A x \in Element : f[x] = g[x]
    <3>1. ix \in [1..n -> Element]
      BY <1>1, <1>2, <2>1
    <3>2. \A i, j \in 1..n : ix[i] = ix[j] => i = j
      BY <1>1
    <3>3. n \in Nat
      BY <1>1
    <3>4. \A xs \in [1..n -> Element] :
            (\A i, j \in 1..n : xs[i] = xs[j] => i = j) /\ (\A i \in 1..n : f[xs[i]] = g[xs[i]])
              => \A x \in Element : f[x] = g[x]
      BY ONLY <3>3, f \in Pol(n), g \in Pol(n), PolsUnique
    <3> QED
      BY ONLY <2>2, <3>1, <3>2, <3>4
  <2> QED
    BY <1>2, <2>1, <2>3
<1> QED
  BY <1>3, <1>4, <1>5 DEF n

\* The length of the longest input, and the code of the padded inputs.
Longest == Max({Len(cmd.files[i]) : i \in 1..inputs})

Coded == coded(interpOf(idx_in, idx_out), Padded)

LEMMA LongestIs ==
  ASSUME RscTyped, at # "usage"
  PROVE  /\ Longest \in Nat /\ (\E i \in 1..inputs : Longest = Len(cmd.files[i]))
         /\ \A i \in 1..inputs : Len(cmd.files[i]) <= Longest
<1> DEFINE U == {Len(cmd.files[i]) : i \in 1..inputs}
           ln == [i \in 1..inputs |-> Len(cmd.files[i])]
<1>1. inputs \in Nat /\ inputs > 0 /\ \A i \in 1..inputs : cmd.files[i] \in Seq(Element)
  <2>1. /\ inputs \in Nat /\ inputs > 0 /\ Len(idx_out) \in Nat
        /\ cmd.files \in Seq(Seq(Element)) /\ Len(cmd.files) = inputs + Len(idx_out)
    BY RscWorking
  <2> QED
    BY <2>1
<1>2. U \in SUBSET Nat /\ U # {}
  <2>1. \A i \in 1..inputs : Len(cmd.files[i]) \in Nat
    BY <1>1
  <2>2. 1 \in 1..inputs
    BY <1>1
  <2> QED
    BY <2>1, <2>2
<1>3. \E b \in Nat : \A x \in U : x <= b
  <2> DEFINE T == {k \in 0..inputs : \E b \in Nat : \A i \in 1..k : ln[i] <= b}
  <2>1. \A i \in 1..inputs : ln[i] \in Nat /\ ln[i] = Len(cmd.files[i])
    BY <1>1
  <2> HIDE DEF ln
  <2>2. 0 \in T
    BY <1>1
  <2>3. ASSUME NEW k \in 1..inputs, k - 1 \in T PROVE k \in T
    <3>1. PICK b \in Nat : \A i \in 1..k-1 : ln[i] <= b
      BY <2>3
    <3>2. PICK c \in Nat : b <= c /\ ln[k] <= c
      <4>1. ln[k] \in Nat /\ ln[k] + b \in Nat /\ b <= ln[k] + b /\ ln[k] <= ln[k] + b
        BY <2>1
      <4> QED
        BY <4>1
    <3>3. \A i \in 1..k : ln[i] <= c
      <4> TAKE i \in 1..k
      <4>1. i = k \/ i \in 1..k-1
        BY <1>1
      <4>2. ln[i] \in Nat
        BY <1>1, <2>1
      <4> QED
        BY <3>1, <3>2, <4>1, <4>2
    <3> QED
      BY <3>2, <3>3
  <2> HIDE DEF T
  <2>4. inputs \in T
    <3>1. \A i \in 0..inputs : i \in T
      BY <1>1, <2>2, <2>3, StepsKeep
    <3> QED
      BY <1>1, <3>1
  <2>5. PICK b \in Nat : \A i \in 1..inputs : ln[i] <= b
    BY <2>4 DEF T
  <2> QED
    BY <2>1, <2>5
<1> QED
  <2>1. Max(U) \in U /\ \A x \in U : x <= Max(U)
    <3> HIDE DEF U
    <3>1. PICK b \in Nat : \A x \in U : x <= b
      BY <1>3
    <3> QED
      BY <1>2, <3>1, MaxIs
  <2> QED
    BY <1>2, <2>1 DEF Longest

\* The padded inputs are a matrix, and so is their code.
LEMMA PaddedFits ==
  ASSUME RscTyped, at # "usage"
  PROVE  /\ Rectangle(Padded, inputs, Longest) /\ DOMAIN Padded[1] = 1..Longest
         /\ \A i \in 1..inputs, j \in 1..Longest :
              Padded[i][j] = IF j <= Len(cmd.files[i]) THEN cmd.files[i][j] ELSE 0
         /\ Rectangle(Coded, Len(idx_out), Longest)
<1> DEFINE l == Longest
           R(i) == [j \in 1..l |-> IF j <= Len(cmd.files[i]) THEN cmd.files[i][j] ELSE 0]
<1>1. /\ inputs \in Nat /\ inputs > 0 /\ Len(idx_out) \in Nat
      /\ idx_in \in Seq(Element) /\ idx_in # <<>> /\ idx_out \in Seq(Element)
      /\ \A i \in 1..inputs : cmd.files[i] \in Seq(Element)
  <2>1. /\ inputs \in Nat /\ inputs > 0 /\ Len(idx_out) \in Nat
        /\ idx_in \in Seq(Element) /\ idx_in # <<>> /\ idx_out \in Seq(Element)
        /\ cmd.files \in Seq(Seq(Element)) /\ Len(cmd.files) = inputs + Len(idx_out)
    BY RscWorking
  <2> QED
    BY <2>1
<1>2. l \in Nat
  BY LongestIs
<1>3. Padded = [i \in 1..inputs |-> R(i)]
  BY DEF Padded, Longest
<1> HIDE DEF l
<1>4. ASSUME NEW i \in 1..inputs PROVE R(i) \in [1..l -> Element]
  <2>1. 0 \in Element /\ cmd.files[i] \in Seq(Element)
    BY <1>1, FieldLaws
  <2>2. ASSUME NEW j \in 1..l PROVE (IF j <= Len(cmd.files[i]) THEN cmd.files[i][j] ELSE 0) \in Element
    BY <2>1
  <2> QED
    BY <2>2
<1>5. \A i \in 1..inputs : Padded[i] \in Seq(Element) /\ Len(Padded[i]) = l /\ DOMAIN Padded[i] = 1..l
  <2>1. \A r \in [1..l -> Element] : r \in Seq(Element) /\ Len(r) = l /\ DOMAIN r = 1..l
    BY <1>2
  <2>2. \A i \in 1..inputs : Padded[i] \in [1..l -> Element]
    BY <1>3, <1>4
  <2> QED
    BY <2>1, <2>2
<1>6. \A i \in 1..inputs, j \in 1..l : Padded[i][j] = IF j <= Len(cmd.files[i]) THEN cmd.files[i][j] ELSE 0
  BY <1>3
<1>7. Padded \in Seq(Seq(Element)) /\ Len(Padded) = inputs
  <2>1. Padded \in [1..inputs -> Seq(Element)]
    BY <1>3, <1>5
  <2> QED
    BY <1>1, <2>1
<1>8. Rectangle(Padded, inputs, l)
  BY <1>5, <1>7 DEF Rectangle
<1>9. Rectangle(Coded, Len(idx_out), l)
  <2>1. Rectangle(Padded, Len(idx_in), l)
    BY <1>8 DEF inputs
  <2> QED
    BY <1>1, <1>2, <2>1, CodeTyped DEF Coded
<1> QED
  BY <1>1, <1>5, <1>6, <1>8, <1>9 DEF l

\* What the flags and files ask for is what one call of Code makes of the padded files.
LEMMA WantedIsCoded ==
  ASSUME RscTyped, at # "usage", IsInjective(idx_in), NEW j \in 1..Len(idx_out)
  PROVE  Wanted(j) = Coded[j]
<1> DEFINE l == Longest
           coef(b) == CHOOSE c \in [1..inputs -> Element] :
                        \A i \in 1..inputs : ValueAt(c, cmd.i[i] % Values) = Padded[i][b]
<1>1. /\ inputs \in Nat /\ inputs > 0 /\ idx_in \in Seq(Element) /\ idx_in # <<>> /\ idx_out \in Seq(Element)
      /\ inputs = Len(idx_in) /\ DOMAIN idx_in = 1..inputs
  <2>1. inputs \in Nat /\ inputs > 0 /\ idx_in \in Seq(Element) /\ idx_in # <<>> /\ idx_out \in Seq(Element)
    BY RscWorking
  <2> QED
    BY <2>1 DEF inputs
<1>2. (\A i \in 1..inputs : cmd.i[i] % Values = idx_in[i]) /\ cmd.o[j] % Values = idx_out[j]
  <2>1. cmd \in Commands /\ idx_in = Set(cmd.i) /\ idx_out = Set(cmd.o)
    BY DEF RscTyped
  <2>2. cmd.i \in Seq(Nat) /\ cmd.o \in Seq(Nat)
    BY <2>1, CommandAssumption
  <2>3. /\ Len(idx_in) = Len(cmd.i) /\ \A n \in 1..Len(cmd.i) : idx_in[n] = cmd.i[n] % Values
        /\ Len(idx_out) = Len(cmd.o) /\ \A n \in 1..Len(cmd.o) : idx_out[n] = cmd.o[n] % Values
    BY <2>1, <2>2, SetBytes
  <2> QED
    BY <1>1, <2>3
<1>3. /\ Rectangle(Padded, inputs, l) /\ DOMAIN Padded[1] = 1..l /\ l \in Nat
      /\ Rectangle(Coded, Len(idx_out), l)
  BY PaddedFits, LongestIs
<1> HIDE DEF l
<1>4. \A b \in 1..l : /\ Coded[j][b] = Interpolated(idx_in, Column(Padded, b), idx_out[j])
                       /\ Column(Padded, b) \in [DOMAIN idx_in -> Element]
  <2>1. Abscissae(idx_in) /\ Rectangle(Padded, Len(idx_in), l)
    BY <1>1, <1>3 DEF Abscissae
  <2> QED
    BY <1>1, <1>3, <2>1, CodeInterpolates DEF Coded
<1>5. ASSUME NEW b \in 1..l PROVE ValueAt(coef(b), cmd.o[j] % Values) = Coded[j][b]
  <2> DEFINE v == Column(Padded, b)
  <2>1. \A i \in 1..inputs : v[i] = Padded[i][b]
    <3>1. DOMAIN Padded = 1..inputs
      BY <1>1, <1>3, RectangleRows
    <3> QED
      BY <3>1 DEF Column
  <2>2. v \in [DOMAIN idx_in -> Element] /\ Abscissae(idx_in)
    BY <1>1, <1>4 DEF Abscissae
  <2> HIDE DEF v
  <2>3. /\ \E c \in [1..inputs -> Element] : \A i \in 1..inputs : ValueAt(c, idx_in[i]) = v[i]
        /\ \A c \in [1..inputs -> Element] :
             (\A i \in 1..inputs : ValueAt(c, idx_in[i]) = v[i])
               => \A x \in Element : ValueAt(c, x) = Interpolated(idx_in, v, x)
    BY <1>1, <2>2, TheCoefficients
  <2>4. coef(b) \in [1..inputs -> Element]
        /\ \A i \in 1..inputs : ValueAt(coef(b), cmd.i[i] % Values) = Padded[i][b]
    <3>1. \E c \in [1..inputs -> Element] : \A i \in 1..inputs : ValueAt(c, cmd.i[i] % Values) = Padded[i][b]
      BY <1>2, <2>1, <2>3
    <3> QED
      BY <3>1
  <2> HIDE DEF coef
  <2>5. \A i \in 1..inputs : ValueAt(coef(b), idx_in[i]) = v[i]
    BY <1>2, <2>1, <2>4
  <2>6. idx_out[j] \in Element
    BY <1>1
  <2>7. ValueAt(coef(b), idx_out[j]) = Interpolated(idx_in, v, idx_out[j])
    BY <2>3, <2>4, <2>5, <2>6
  <2> QED
    BY <1>2, <1>4, <2>7 DEF v
<1>6. Wanted(j) = [b \in 1..l |-> ValueAt(coef(b), cmd.o[j] % Values)]
  BY <1>3 DEF Wanted
<1>7. Coded[j] \in [1..l -> Element]
  <2>1. Coded[j] \in Seq(Element) /\ Len(Coded[j]) = l
    BY <1>3 DEF Rectangle
  <2> QED
    BY <2>1
<1> HIDE DEF coef
<1> QED
  BY <1>5, <1>6, <1>7

\* The first elements of a segment, and a sequence cut at both ends.
LEMMA SubSegment ==
  ASSUME NEW S, NEW s \in Seq(S), NEW a \in Nat, NEW b \in Nat, a <= b, b <= Len(s), NEW n \in 0..b-a
  PROVE  SubSeq(SubSeq(s, a + 1, b), 1, n) = SubSeq(s, a + 1, a + n)
<1> DEFINE t == SubSeq(s, a + 1, b)
           u == SubSeq(t, 1, n)
           v == SubSeq(s, a + 1, a + n)
<1>1. t \in Seq(S) /\ Len(t) = b - a /\ \A i \in 1..b-a : t[i] = s[a + i]
  BY SubSeqFacts
<1> HIDE DEF t
<1>2. u \in Seq(S) /\ Len(u) = n /\ \A i \in 1..n : u[i] = t[i]
  <2>1. n \in Nat /\ n <= Len(t) /\ 0 \in Nat /\ 0 <= n /\ n - 0 = n /\ 0 + 1 = 1 /\ \A i \in 1..n : 0 + i = i
    BY <1>1
  <2>2. /\ SubSeq(t, 0 + 1, n) \in Seq(S) /\ Len(SubSeq(t, 0 + 1, n)) = n - 0
        /\ \A i \in 1..n-0 : SubSeq(t, 0 + 1, n)[i] = t[0 + i]
    BY <1>1, <2>1, SubSeqFacts
  <2> QED
    BY <2>1, <2>2
<1>3. v \in Seq(S) /\ Len(v) = n /\ \A i \in 1..n : v[i] = s[a + i]
  <2>1. a + n \in Nat /\ a <= a + n /\ a + n <= Len(s) /\ (a + n) - a = n
    OBVIOUS
  <2>2. /\ SubSeq(s, a + 1, a + n) \in Seq(S) /\ Len(SubSeq(s, a + 1, a + n)) = (a + n) - a
        /\ \A i \in 1..(a + n)-a : SubSeq(s, a + 1, a + n)[i] = s[a + i]
    BY <2>1, SubSeqFacts
  <2> QED
    BY <2>1, <2>2
<1> HIDE DEF u, v
<1>4. \A i \in 1..n : u[i] = v[i]
  BY <1>1, <1>2, <1>3
<1>5. u = v
  BY <1>2, <1>3, <1>4, SeqEqual
<1> QED
  BY <1>5 DEF u, v, t

LEMMA FirstElements ==
  ASSUME NEW S, NEW s \in Seq(S), NEW b \in 0..Len(s)
  PROVE  /\ SubSeq(s, 1, b) \in Seq(S) /\ Len(SubSeq(s, 1, b)) = b
         /\ (b = 0 => SubSeq(s, 1, b) = <<>>) /\ (b = Len(s) => SubSeq(s, 1, b) = s)
         /\ \A i \in 1..b : SubSeq(s, 1, b)[i] = s[i]
<1> DEFINE t == SubSeq(s, 1, b)
<1>1. t \in Seq(S) /\ Len(t) = b /\ \A i \in 1..b : t[i] = s[i]
  <2>1. b \in Nat /\ b <= Len(s) /\ 0 \in Nat /\ 0 <= b /\ b - 0 = b /\ 0 + 1 = 1 /\ \A i \in 1..b : 0 + i = i
    OBVIOUS
  <2>2. /\ SubSeq(s, 0 + 1, b) \in Seq(S) /\ Len(SubSeq(s, 0 + 1, b)) = b - 0
        /\ \A i \in 1..b-0 : SubSeq(s, 0 + 1, b)[i] = s[0 + i]
    BY <2>1, SubSeqFacts
  <2> QED
    BY <2>1, <2>2
<1> HIDE DEF t
<1>2. b = 0 => t = <<>>
  BY <1>1, EmptySeq
<1>3. b = Len(s) => t = s
  BY <1>1, SeqEqual
<1> QED
  BY <1>1, <1>2, <1>3 DEF t

\* What is fixed for the run.
LEMMA RunFixed ==
  ASSUME UNCHANGED <<cmd, idx_in, idx_out>>
  PROVE  cmd' = cmd /\ idx_in' = idx_in /\ idx_out' = idx_out /\ inputs' = inputs /\ Longest' = Longest /\ Coded' = Coded
<1>1. cmd' = cmd /\ idx_in' = idx_in /\ idx_out' = idx_out /\ inputs' = inputs
  BY DEF inputs
<1>2. Longest' = Longest
  BY <1>1 DEF Longest
<1>3. Padded' = Padded
  BY <1>1 DEF Padded
<1> QED
  BY <1>1, <1>2, <1>3 DEF Coded

\* d bytes of every input are read; d bytes of the code of output j are written.
HasRead(d) == \A i \in 1..inputs : rest[i] = After(cmd.files[i], d)

HasWritten(j, d) == out_files[j] = SubSeq(Coded[j], 1, d)

\* The blocks that are read once d bytes are, where no read is short: e more bytes.
LEMMA BlockIsNext ==
  ASSUME RscTyped, at = "read", IsInjective(idx_in), NEW n, Reads(n),
         NEW d \in 0..Longest, HasRead(d),
         \A i \in 1..inputs : n[i] = Min({kBlocksize, Len(rest[i])})
  PROVE  /\ d + max_n(n) \in 0..Longest
         /\ \A i \in 1..inputs : After(rest[i], n[i]) = After(cmd.files[i], d + max_n(n))
         /\ \A j \in 1..Len(idx_out) :
              coded(interpOf(idx_in, idx_out), Blocks(n))[j] = SubSeq(Coded[j], d + 1, d + max_n(n))
         /\ max_n(n) = 0 => d = Longest
<1> DEFINE e == max_n(n)
           f == cmd.files
           C == coded(interpOf(idx_in, idx_out), Blocks(n))
<1>1. /\ inputs \in Nat /\ inputs > 0 /\ Len(idx_out) \in Nat /\ inputs = Len(idx_in)
      /\ idx_in \in Seq(Element) /\ idx_in # <<>> /\ idx_out \in Seq(Element)
      /\ (\A i \in 1..inputs : f[i] \in Seq(Element)) /\ kBlocksize \in Nat
  <2>1. /\ inputs \in Nat /\ inputs > 0 /\ Len(idx_out) \in Nat
        /\ idx_in \in Seq(Element) /\ idx_in # <<>> /\ idx_out \in Seq(Element)
        /\ cmd.files \in Seq(Seq(Element)) /\ Len(cmd.files) = inputs + Len(idx_out) /\ kBlocksize \in Nat
    BY RscWorking
  <2> QED
    BY <2>1 DEF inputs
<1>2. /\ Longest \in Nat /\ (\E i \in 1..inputs : Longest = Len(f[i])) /\ \A i \in 1..inputs : Len(f[i]) <= Longest
  BY LongestIs
<1>3. /\ n \in [1..inputs -> 0..kBlocksize] /\ e \in 0..kBlocksize
      /\ (\E i \in 1..inputs : n[i] = e) /\ \A i \in 1..inputs : n[i] <= e
  BY ReadsFacts
<1>4. d \in Nat /\ d <= Longest /\ e \in Nat
  BY <1>1, <1>2, <1>3
<1> HIDE DEF e
\* Either a block is e bytes, or it is all there was.
<1>5. ASSUME NEW i \in 1..inputs
      PROVE  /\ n[i] \in Nat /\ Len(f[i]) \in Nat
             /\ Len(rest[i]) = (IF d <= Len(f[i]) THEN Len(f[i]) - d ELSE 0)
             /\ (\A j \in 1..Len(rest[i]) : rest[i][j] = f[i][d + j])
             /\ n[i] <= Len(rest[i]) /\ (n[i] = e \/ n[i] = Len(rest[i])) /\ n[i] <= e
             /\ rest[i] = After(f[i], d) /\ (e = 0 => Len(rest[i]) = 0)
  <2>1. rest[i] = After(f[i], d) /\ f[i] \in Seq(Element) /\ Len(f[i]) \in Nat
    BY <1>1 DEF HasRead
  <2>2. /\ rest[i] \in Seq(Element) /\ Len(rest[i]) = (IF d <= Len(f[i]) THEN Len(f[i]) - d ELSE 0)
        /\ \A j \in 1..Len(rest[i]) : rest[i][j] = f[i][d + j]
    <3> DEFINE s == f[i]
    <3> HIDE DEF s
    <3>1. s \in Seq(Element) /\ d \in Nat
      BY <1>4, <2>1 DEF s
    <3>2. /\ After(s, d) \in Seq(Element) /\ Len(After(s, d)) = (IF d <= Len(s) THEN Len(s) - d ELSE 0)
          /\ \A j \in 1..Len(After(s, d)) : After(s, d)[j] = s[d + j]
      BY <3>1, AfterFacts
    <3> QED
      BY <2>1, <3>2 DEF s
  <2>3. Len(rest[i]) \in Nat
    BY <2>2
  <2>4. n[i] = IF kBlocksize <= Len(rest[i]) THEN kBlocksize ELSE Len(rest[i])
    BY <1>1, <2>3, MinIs
  <2>5. n[i] <= Len(rest[i]) /\ (n[i] = e \/ n[i] = Len(rest[i])) /\ n[i] \in Nat /\ n[i] <= e
    BY <1>1, <1>3, <2>3, <2>4
  <2>6. e = 0 => Len(rest[i]) = 0
    <3>1. kBlocksize > 0
      BY CommandAssumption
    <3> QED
      BY <1>1, <2>3, <2>4, <2>5, <3>1
  <2> QED
    BY <2>1, <2>2, <2>5, <2>6
<1>6. d + e \in 0..Longest
  <2>1. PICK i \in 1..inputs : n[i] = e
    BY <1>3
  <2>2. /\ Len(rest[i]) = (IF d <= Len(f[i]) THEN Len(f[i]) - d ELSE 0) /\ n[i] <= Len(rest[i])
        /\ Len(f[i]) \in Nat /\ Len(f[i]) <= Longest
    BY <1>2, <1>5
  <2> QED
    BY <1>2, <1>4, <2>1, <2>2
<1>7. e = 0 => d = Longest
  <2>1. PICK i \in 1..inputs : Longest = Len(f[i])
    BY <1>2
  <2>2. e = 0 => Len(rest[i]) = 0
    BY <1>5
  <2>3. Len(rest[i]) = (IF d <= Len(f[i]) THEN Len(f[i]) - d ELSE 0) /\ Len(f[i]) \in Nat
    BY <1>5
  <2> QED
    BY <1>4, <2>1, <2>2, <2>3
<1>8. ASSUME NEW i \in 1..inputs PROVE After(rest[i], n[i]) = After(f[i], d + e)
  <2>1. /\ n[i] \in Nat /\ Len(f[i]) \in Nat
        /\ Len(rest[i]) = (IF d <= Len(f[i]) THEN Len(f[i]) - d ELSE 0)
        /\ (n[i] = e \/ n[i] = Len(rest[i])) /\ n[i] <= e
        /\ rest[i] = After(f[i], d) /\ f[i] \in Seq(Element)
    BY <1>1, <1>5
  <2>2. n[i] = e \/ (n[i] <= e /\ Len(f[i]) <= d + n[i])
    BY <1>4, <2>1
  <2>3. After(After(f[i], d), n[i]) = After(f[i], d + e)
    <3> DEFINE s == f[i]
               m == n[i]
    <3>1. s \in Seq(Element) /\ d \in Nat /\ m \in Nat /\ e \in Nat
      BY <1>4, <2>1
    <3>2. m = e \/ (m <= e /\ Len(s) <= d + m)
      BY <2>2
    <3> HIDE DEF s, m
    <3>3. After(After(s, d), m) = After(s, d + e)
      BY ONLY <3>1, <3>2, AfterMore
    <3> QED
      BY <3>3 DEF s, m
  <2> QED
    BY <2>1, <2>3
<1>9. /\ Rectangle(Padded, inputs, Longest) /\ Rectangle(Coded, Len(idx_out), Longest)
      /\ Rectangle(Blocks(n), inputs, e)
  BY PaddedFits, BlocksFit DEF e
<1>10. ASSUME NEW j \in 1..e PROVE d + j \in 1..Longest /\ Column(Blocks(n), j) = Column(Padded, d + j)
  <2>1. d + j \in 1..Longest
    BY <1>2, <1>4, <1>6
  <2>2. ASSUME NEW i \in 1..inputs PROVE Blocks(n)[i][j] = Padded[i][d + j]
    <3>1. Blocks(n)[i][j] = IF j <= n[i] THEN rest[i][j] ELSE 0
      BY BlocksFit DEF e
    <3>2. Padded[i][d + j] = IF d + j <= Len(f[i]) THEN f[i][d + j] ELSE 0
      BY <2>1, PaddedFits
    <3>3. /\ n[i] \in Nat /\ Len(f[i]) \in Nat
          /\ Len(rest[i]) = (IF d <= Len(f[i]) THEN Len(f[i]) - d ELSE 0)
          /\ (\A h \in 1..Len(rest[i]) : rest[i][h] = f[i][d + h])
          /\ n[i] <= Len(rest[i]) /\ (n[i] = e \/ n[i] = Len(rest[i])) /\ n[i] <= e
      BY <1>5
    <3>4. CASE j <= n[i]
      <4>1. j \in 1..Len(rest[i]) /\ d + j <= Len(f[i])
        BY <1>4, <3>3, <3>4
      <4> QED
        BY <3>1, <3>2, <3>3, <3>4, <4>1
    <3>5. CASE ~(j <= n[i])
      <4>1. ~(d + j <= Len(f[i]))
        BY <1>4, <3>3, <3>5
      <4> QED
        BY <3>1, <3>2, <3>5, <4>1
    <3> QED
      BY <3>4, <3>5
  <2>3. DOMAIN Blocks(n) = 1..inputs /\ DOMAIN Padded = 1..inputs
    BY <1>1, <1>2, <1>4, <1>9, RectangleRows
  <2> QED
    BY <2>1, <2>2, <2>3 DEF Column
<1>11. /\ Rectangle(C, Len(idx_out), e)
       /\ \A h \in 1..Len(idx_out), j \in 1..e : C[h][j] = Interpolated(idx_in, Column(Blocks(n), j), idx_out[h])
       /\ \A h \in 1..Len(idx_out), j \in 1..Longest : Coded[h][j] = Interpolated(idx_in, Column(Padded, j), idx_out[h])
  <2>1. Abscissae(idx_in) /\ Rectangle(Padded, Len(idx_in), Longest) /\ Rectangle(Blocks(n), Len(idx_in), e)
    BY <1>1, <1>9 DEF Abscissae
  <2>2. /\ Rectangle(C, Len(idx_out), e)
        /\ \A h \in 1..Len(idx_out), j \in 1..e : C[h][j] = Interpolated(idx_in, Column(Blocks(n), j), idx_out[h])
    BY <1>1, <1>4, <2>1, CodeInterpolates
  <2>3. \A h \in 1..Len(idx_out), j \in 1..Longest : Coded[h][j] = Interpolated(idx_in, Column(Padded, j), idx_out[h])
    BY <1>1, <1>2, <2>1, CodeInterpolates DEF Coded
  <2> QED
    BY <2>2, <2>3
<1> HIDE DEF C
<1>12. ASSUME NEW h \in 1..Len(idx_out) PROVE C[h] = SubSeq(Coded[h], d + 1, d + e)
  <2> DEFINE t == SubSeq(Coded[h], d + 1, d + e)
  <2>1. C[h] \in Seq(Element) /\ Len(C[h]) = e /\ Coded[h] \in Seq(Element) /\ Len(Coded[h]) = Longest
    BY <1>9, <1>11 DEF Rectangle
  <2>2. t \in Seq(Element) /\ Len(t) = e /\ \A j \in 1..e : t[j] = Coded[h][d + j]
    <3>1. d + e \in Nat /\ d <= d + e /\ d + e <= Len(Coded[h]) /\ (d + e) - d = e
      BY <1>2, <1>4, <1>6, <2>1
    <3>2. t \in Seq(Element) /\ Len(t) = (d + e) - d /\ \A j \in 1..(d + e)-d : t[j] = Coded[h][d + j]
      <4> DEFINE q == Coded[h]
                 b == d + e
      <4>1. q \in Seq(Element) /\ d \in Nat /\ b \in Nat /\ d <= b /\ b <= Len(q)
        BY <1>4, <2>1, <3>1
      <4> HIDE DEF q, b
      <4>2. /\ SubSeq(q, d + 1, b) \in Seq(Element) /\ Len(SubSeq(q, d + 1, b)) = b - d
            /\ \A j \in 1..b-d : SubSeq(q, d + 1, b)[j] = q[d + j]
        BY ONLY <4>1, SubSeqFacts
      <4> QED
        BY ONLY <4>2 DEF t, q, b
    <3> HIDE DEF t
    <3> QED
      BY ONLY <3>1, <3>2
  <2> HIDE DEF t
  <2>3. \A j \in 1..e : C[h][j] = t[j]
    <3> TAKE j \in 1..e
    <3>1. d + j \in 1..Longest /\ Column(Blocks(n), j) = Column(Padded, d + j)
      BY <1>10
    <3> QED
      BY <1>11, <2>2, <3>1
  <2>4. C[h] = t
    BY <1>4, <2>1, <2>2, <2>3, SeqEqual
  <2> QED
    BY <2>4 DEF t
<1> QED
  BY <1>6, <1>7, <1>8, <1>12 DEF e, C

\* What the files hold, at each place of main.
AtOpen ==
  /\ \A i \in 1..inputs : rest[i] = cmd.files[i]
  /\ \A j \in 1..Len(idx_out) : out_files[j] = <<>> \/ (out_files[j] = cmd.files[inputs + j] /\ j >= next)

AtRead == next = 1 /\ \E d \in 0..Longest : HasRead(d) /\ \A j \in 1..Len(idx_out) : HasWritten(j, d)

IsWriting(d, e) ==
  /\ d + e \in 0..Longest /\ HasRead(d + e)
  /\ \A j \in 1..Len(idx_out) : /\ out[j] = SubSeq(Coded[j], d + 1, d + e)
                                /\ HasWritten(j, IF j < next THEN d + e ELSE d)

AtWrite == ~all_closed /\ \E d \in 0..Longest : \E e \in 0..kBlocksize : IsWriting(d, e)

AtCrash ==
  \A j \in 1..Len(idx_out) :
    out_files[j] = cmd.files[inputs + j] \/ \E d \in 0..Longest : HasWritten(j, d)

AtClose == \A j \in 1..Len(idx_out) : out_files[j] = Coded[j]

\* It is so when no read was short, for different abscissae.
Sound == at # "usage" /\ ~short /\ IsInjective(idx_in)

Contents ==
  Sound => /\ at = "open" => AtOpen
           /\ at = "read" => AtRead
           /\ at = "write" => AtWrite
           /\ at \in {"close", "done"} => AtClose
           /\ at = "crash" => AtCrash

LEMMA ContentsInit == RscInit => Contents
<1> SUFFICES ASSUME RscInit, at # "usage" PROVE at = "open" /\ AtOpen
  BY DEF Contents, Sound
<1>1. PICK c \in Commands :
    /\ cmd = c /\ idx_in = Set(c.i) /\ idx_out = Set(c.o)
    /\ \/ /\ c.i = <<>> \/ c.o = <<>> \/ Len(c.files) # Len(c.i) + Len(c.o)
          /\ at = "usage" /\ rest = <<>> /\ out_files = <<>>
       \/ /\ c.i # <<>> /\ c.o # <<>> /\ Len(c.files) = Len(c.i) + Len(c.o)
          /\ at = "open" /\ rest = SubSeq(c.files, 1, inputs)
          /\ out_files = SubSeq(c.files, inputs + 1, Len(c.files))
    /\ in_open = {} /\ out = <<>> /\ all_closed = FALSE /\ next = 1 /\ short = FALSE
  BY DEF RscInit
<1>2. /\ at = "open" /\ rest = SubSeq(cmd.files, 1, inputs)
      /\ out_files = SubSeq(cmd.files, inputs + 1, Len(cmd.files)) /\ next = 1
  BY <1>1
<1>3. /\ inputs \in Nat /\ Len(idx_out) \in Nat
      /\ cmd.files \in Seq(Seq(Element)) /\ Len(cmd.files) = inputs + Len(idx_out)
  BY RscTypedInit, RscWorking
<1>4. \A i \in 1..inputs : rest[i] = cmd.files[i]
  <2>1. inputs \in 0..Len(cmd.files)
    BY <1>3
  <2> QED
    BY <1>2, <1>3, <2>1, FirstElements
<1>5. \A j \in 1..Len(idx_out) : out_files[j] = cmd.files[inputs + j]
  <2> DEFINE l == Len(cmd.files)
  <2>1. inputs <= l /\ l <= l /\ l \in Nat /\ l - inputs = Len(idx_out)
    BY <1>3
  <2>2. \A j \in 1..l-inputs : SubSeq(cmd.files, inputs + 1, l)[j] = cmd.files[inputs + j]
    BY <1>3, <2>1, SubSeqFacts
  <2> QED
    BY <1>2, <2>1, <2>2
<1>6. \A j \in 1..Len(idx_out) : j >= next
  BY <1>2, <1>3
<1> QED
  BY <1>2, <1>4, <1>5, <1>6 DEF AtOpen

\* The facts about the code that all steps use.
LEMMA CodedRows ==
  ASSUME RscTyped, at # "usage"
  PROVE  /\ \A j \in 1..Len(idx_out) : Coded[j] \in Seq(Element) /\ Len(Coded[j]) = Longest
         /\ Longest \in Nat /\ Len(idx_out) \in Nat /\ Len(idx_out) > 0
<1>1. Rectangle(Coded, Len(idx_out), Longest)
  BY PaddedFits
<1>2. Longest \in Nat
  BY LongestIs
<1>3. Len(idx_out) \in Nat /\ Len(idx_out) > 0
  BY RscWorking
<1> QED
  BY <1>1, <1>2, <1>3 DEF Rectangle

LEMMA OpenContents == ASSUME RscTyped, Contents, Open PROVE Contents'
<1>1. UNCHANGED <<cmd, idx_in, idx_out, at, rest, next, out_files, short>> /\ at = "open"
  BY DEF Open
<1>2. inputs' = inputs
  BY <1>1 DEF inputs
<1> QED
  BY <1>1, <1>2 DEF Contents, Sound, AtOpen

LEMMA TruncateContents == ASSUME RscTyped, Contents, Truncate PROVE Contents'
<1> SUFFICES ASSUME Sound' PROVE (at' = "open" => AtOpen') /\ (at' = "read" => AtRead')
  <2>1. at' \in {"open", "read"}
    BY DEF Truncate
  <2> QED
    BY <2>1 DEF Contents
<1>1. /\ at = "open" /\ out_files' = [out_files EXCEPT ![next] = <<>>]
      /\ UNCHANGED <<cmd, idx_in, idx_out, rest, short>>
      /\ IF next = Len(out_files) THEN at' = "read" /\ next' = 1 ELSE at' = at /\ next' = next + 1
  BY DEF Truncate
<1>2. inputs' = inputs /\ Longest' = Longest /\ Coded' = Coded /\ cmd' = cmd /\ idx_out' = idx_out
  BY <1>1, RunFixed
<1>3. AtOpen
  BY <1>1 DEF Contents, Sound
<1>4. /\ next \in 1..Len(idx_out) /\ Len(out_files) = Len(idx_out) /\ DOMAIN out_files = 1..Len(idx_out)
      /\ Len(idx_out) \in Nat
  BY <1>1, RscWorking DEF RscTyped
<1>5. ASSUME NEW j \in 1..Len(idx_out)
      PROVE  out_files'[j] = <<>> \/ (out_files'[j] = cmd.files[inputs + j] /\ j > next)
  <2>1. CASE j = next
    BY <1>1, <1>4, <2>1
  <2>2. CASE j # next
    <3>1. out_files'[j] = out_files[j]
      BY <1>1, <1>4, <2>2
    <3>2. out_files[j] = <<>> \/ (out_files[j] = cmd.files[inputs + j] /\ j >= next)
      BY <1>3 DEF AtOpen
    <3>3. j >= next => j > next
      BY <1>4, <2>2
    <3> QED
      BY <3>1, <3>2, <3>3
  <2> QED
    BY <2>1, <2>2
<1>6. ASSUME at' = "open" PROVE AtOpen'
  <2>1. next' = next + 1
    BY <1>1, <1>6
  <2>2. \A j \in 1..Len(idx_out) : j > next => j >= next'
    BY <1>4, <2>1
  <2>3. \A i \in 1..inputs : rest'[i] = cmd.files[i]
    BY <1>1, <1>3 DEF AtOpen
  <2>4. \A j \in 1..Len(idx_out) :
          out_files'[j] = <<>> \/ (out_files'[j] = cmd.files[inputs + j] /\ j >= next')
    BY <1>5, <2>2
  <2> QED
    BY <1>2, <2>3, <2>4 DEF AtOpen
<1>7. ASSUME at' = "read" PROVE AtRead'
  <2>1. next = Len(idx_out)
    BY <1>1, <1>4, <1>7
  <2>2. \A j \in 1..Len(idx_out) : ~(j > next)
    BY <1>4, <2>1
  <2>3. \A j \in 1..Len(idx_out) : out_files'[j] = SubSeq(Coded[j], 1, 0)
    <3>1. \A j \in 1..Len(idx_out) : SubSeq(Coded[j], 1, 0) = <<>>
      <4> TAKE j \in 1..Len(idx_out)
      <4>1. Coded[j] \in Seq(Element) /\ 0 \in 0..Len(Coded[j])
        BY <1>1, CodedRows
      <4> QED
        BY <4>1, FirstElements
    <3> QED
      BY <1>5, <2>2, <3>1
  <2>4. \A i \in 1..inputs : rest'[i] = After(cmd.files[i], 0)
    <3> TAKE i \in 1..inputs
    <3>1. cmd.files[i] \in Seq(Element)
      <4>1. inputs \in Nat /\ cmd.files \in Seq(Seq(Element)) /\ Len(cmd.files) = inputs + Len(idx_out)
        BY <1>1, RscWorking
      <4> QED
        BY <1>4, <4>1
    <3>2. SubSeq(cmd.files[i], 1, Len(cmd.files[i])) = cmd.files[i]
      <4>1. Len(cmd.files[i]) \in 0..Len(cmd.files[i])
        BY <3>1
      <4> QED
        BY <3>1, <4>1, FirstElements
    <3>3. 0 + 1 = 1
      OBVIOUS
    <3> QED
      BY <1>1, <1>3, <3>2, <3>3 DEF AtOpen, After
  <2>5. 0 \in 0..Longest
    BY <1>1, CodedRows
  <2>6. HasRead(0)' /\ \A j \in 1..Len(idx_out) : HasWritten(j, 0)'
    BY <1>2, <2>3, <2>4 DEF HasRead, HasWritten
  <2> QED
    BY <1>1, <1>2, <1>7, <2>5, <2>6 DEF AtRead
<1> QED
  BY <1>6, <1>7

LEMMA ReadContents == ASSUME RscTyped, Contents, Read PROVE Contents'
<1> SUFFICES ASSUME Sound' PROVE (at' = "write" => AtWrite') /\ (at' = "close" => AtClose')
  <2>1. at' \in {"write", "close"}
    BY DEF Read
  <2> QED
    BY <2>1 DEF Contents
<1>1. at = "read" /\ UNCHANGED <<cmd, idx_in, idx_out, next, out_files>>
  BY DEF Read
<1>2. PICK n :
       /\ Reads(n)
       /\ at' = IF max_n(n) = 0 THEN "close" ELSE "write"
       /\ out' = IF max_n(n) = 0 THEN out ELSE coded(interpOf(idx_in, idx_out), Blocks(n))
       /\ rest' = [i \in DOMAIN rest |-> After(rest[i], n[i])]
       /\ in_open' = {i \in in_open : n[i] > 0}
       /\ all_closed' = (in_open' = {})
       /\ short' = (short \/ \E i \in in_open : n[i] < Min({kBlocksize, Len(rest[i])}))
  BY DEF Read, Reads, Blocks, After
<1> DEFINE e == max_n(n)
<1>3. inputs' = inputs /\ Longest' = Longest /\ Coded' = Coded /\ cmd' = cmd /\ idx_out' = idx_out /\ idx_in' = idx_in
  BY <1>1, RunFixed
<1>4. ~short' /\ IsInjective(idx_in)
  BY <1>3 DEF Sound
<1>5. Sound
  BY <1>1, <1>2, <1>4 DEF Sound
<1>6. PICK d \in 0..Longest : HasRead(d) /\ \A j \in 1..Len(idx_out) : HasWritten(j, d)
  BY <1>1, <1>5 DEF Contents, AtRead
<1>7. \A i \in 1..inputs : n[i] = Min({kBlocksize, Len(rest[i])})
  <2>1. \A i \in 1..inputs :
          n[i] = Min({kBlocksize, Len(rest[i])}) \/ (i \in in_open /\ n[i] < Min({kBlocksize, Len(rest[i])}))
    BY <1>1, <1>2, ReadsFacts
  <2>2. ~\E i \in in_open : n[i] < Min({kBlocksize, Len(rest[i])})
    BY <1>2, <1>4
  <2> QED
    BY <2>1, <2>2
<1>8. /\ d + e \in 0..Longest
      /\ \A i \in 1..inputs : After(rest[i], n[i]) = After(cmd.files[i], d + e)
      /\ \A j \in 1..Len(idx_out) :
           coded(interpOf(idx_in, idx_out), Blocks(n))[j] = SubSeq(Coded[j], d + 1, d + e)
      /\ e = 0 => d = Longest
  BY <1>1, <1>2, <1>4, <1>6, <1>7, BlockIsNext
<1>9. /\ n \in [1..inputs -> 0..kBlocksize] /\ e \in 0..kBlocksize /\ DOMAIN rest = 1..inputs
      /\ \E i \in 1..inputs : n[i] = e
  BY <1>1, <1>2, ReadsFacts, RscWorking
<1> HIDE DEF e
<1>10. ASSUME at' = "write" PROVE AtWrite'
  <2>1. e # 0
    BY <1>2, <1>10 DEF e
  <2>2. ~all_closed'
    <3>1. PICK i \in 1..inputs : n[i] = e
      BY <1>9
    <3>2. n[i] > 0
      BY <1>9, <2>1, <3>1
    <3>3. i \in in_open
      BY <1>2, <1>9, <3>2 DEF Reads
    <3>4. i \in in_open'
      BY <1>2, <3>2, <3>3
    <3> QED
      BY <1>2, <3>4
  <2>3. \A i \in 1..inputs : rest'[i] = After(cmd.files[i], d + e)
    BY <1>2, <1>8, <1>9
  <2>4. \A j \in 1..Len(idx_out) : out'[j] = SubSeq(Coded[j], d + 1, d + e)
    BY <1>2, <1>8, <2>1 DEF e
  <2>5. next' = 1 /\ \A j \in 1..Len(idx_out) : ~(j < 1)
    <3>1. next = 1
      BY <1>1, <1>5 DEF Contents, AtRead
    <3> QED
      BY <1>1, <3>1
  <2>6. \A j \in 1..Len(idx_out) : out_files'[j] = SubSeq(Coded[j], 1, IF j < next' THEN d + e ELSE d)
    BY <1>1, <1>6, <2>5 DEF HasWritten
  <2>7. IsWriting(d, e)'
    BY <1>3, <1>8, <2>3, <2>4, <2>6 DEF IsWriting, HasRead, HasWritten
  <2> QED
    BY <1>3, <1>9, <2>2, <2>7 DEF AtWrite
<1>11. ASSUME at' = "close" PROVE AtClose'
  <2>1. e = 0 /\ d = Longest
    BY <1>2, <1>8, <1>11 DEF e
  <2>2. ASSUME NEW j \in 1..Len(idx_out) PROVE out_files'[j] = Coded[j]
    <3>1. Coded[j] \in Seq(Element) /\ Len(Coded[j]) = d /\ d \in 0..Len(Coded[j])
      BY <1>1, <2>1, CodedRows
    <3>2. SubSeq(Coded[j], 1, d) = Coded[j]
      BY <3>1, FirstElements
    <3> QED
      BY <1>1, <1>6, <3>2 DEF HasWritten
  <2> QED
    BY <1>3, <2>2 DEF AtClose
<1> QED
  BY <1>10, <1>11

\* What the next file holds after the first m bytes of its row are appended.
LEMMA RowAppended ==
  ASSUME RscTyped, at = "write", NEW d \in 0..Longest, NEW e \in 0..kBlocksize, IsWriting(d, e),
         NEW m \in 0..e
  PROVE  /\ out_files[next] \o SubSeq(out[next], 1, m) = SubSeq(Coded[next], 1, d + m)
         /\ d + m \in 0..Longest /\ Len(out[next]) = e /\ SubSeq(out[next], 1, e) = out[next]
<1>1. next \in 1..Len(idx_out)
  BY RowsToWrite
<1>2. /\ Coded[next] \in Seq(Element) /\ Len(Coded[next]) = Longest /\ Longest \in Nat /\ kBlocksize \in Nat
  BY <1>1, CodedRows, RscWorking
<1>3. d \in Nat /\ e \in Nat /\ m \in Nat /\ d + e <= Longest /\ m <= e
  BY <1>2 DEF IsWriting
<1>4. out[next] = SubSeq(Coded[next], d + 1, d + e) /\ out_files[next] = SubSeq(Coded[next], 1, d)
  <2>1. ~(next < next)
    BY <1>1
  <2> QED
    BY <1>1, <2>1 DEF IsWriting, HasWritten
<1> DEFINE s == Coded[next]
<1> HIDE DEF s
<1>5. s \in Seq(Element) /\ Len(s) = Longest /\ d + e \in Nat /\ d <= d + e /\ d + e <= Len(s) /\ (d + e) - d = e
  BY <1>2, <1>3 DEF s
<1>6. Len(out[next]) = e /\ out[next] \in Seq(Element)
  <2>1. SubSeq(s, d + 1, d + e) \in Seq(Element) /\ Len(SubSeq(s, d + 1, d + e)) = (d + e) - d
    BY <1>3, <1>5, SubSeqFacts
  <2> QED
    BY <1>4, <1>5, <2>1 DEF s
<1>7. SubSeq(out[next], 1, m) = SubSeq(s, d + 1, d + m)
  <2>1. m \in 0..(d + e)-d
    BY <1>3
  <2>2. SubSeq(SubSeq(s, d + 1, d + e), 1, m) = SubSeq(s, d + 1, d + m)
    BY <1>3, <1>5, <2>1, SubSegment
  <2> QED
    BY <1>4, <2>2 DEF s
<1>8. SubSeq(s, 1, d) \o SubSeq(s, d + 1, d + m) = SubSeq(s, 1, d + m)
  <2>1. d + m \in Nat /\ d <= d + m /\ d + m <= Len(s)
    BY <1>3, <1>5
  <2> QED
    BY <1>3, <1>5, <2>1, SubSeqJoin
<1>9. SubSeq(out[next], 1, e) = out[next]
  <2>1. e \in 0..Len(out[next])
    BY <1>3, <1>6
  <2> QED
    BY <1>6, <2>1, FirstElements
<1>10. d + m \in 0..Longest
  BY <1>2, <1>3
<1> QED
  BY <1>4, <1>6, <1>7, <1>8, <1>9, <1>10 DEF s

LEMMA WriteContents == ASSUME RscTyped, Contents, Write PROVE Contents'
<1> SUFFICES ASSUME Sound' PROVE (at' = "write" => AtWrite') /\ (at' = "read" => AtRead') /\ at' \in {"write", "read"}
  BY DEF Contents
<1>1. /\ at = "write" /\ out_files' = [out_files EXCEPT ![next] = @ \o out[next]]
      /\ IF next = Len(out) THEN next' = 1 /\ at' = IF all_closed THEN "close" ELSE "read"
                            ELSE next' = next + 1 /\ at' = at
      /\ UNCHANGED <<cmd, idx_in, idx_out, rest, in_open, out, all_closed, short>>
  BY DEF Write
<1>2. inputs' = inputs /\ Longest' = Longest /\ Coded' = Coded /\ cmd' = cmd /\ idx_out' = idx_out /\ idx_in' = idx_in
  BY <1>1, RunFixed
<1>3. AtWrite
  BY <1>1, <1>2 DEF Contents, Sound
<1>4. PICK d \in 0..Longest : \E e \in 0..kBlocksize : IsWriting(d, e)
  BY <1>3 DEF AtWrite
<1>5. PICK e \in 0..kBlocksize : IsWriting(d, e)
  BY <1>4
<1>6. /\ next \in 1..Len(idx_out) /\ next \in DOMAIN out_files /\ Len(out) = Len(idx_out)
      /\ DOMAIN out_files = 1..Len(idx_out) /\ Len(idx_out) \in Nat
  BY <1>1, RowsToWrite, RscWorking
<1>7. d + e \in 0..Longest /\ out_files[next] \o out[next] = SubSeq(Coded[next], 1, d + e)
  <2>1. e \in 0..e
    <3>1. kBlocksize \in Nat
      BY <1>1, RscWorking
    <3> QED
      BY <1>5, <3>1
  <2> QED
    BY <1>1, <1>5, <2>1, RowAppended
<1>8. ASSUME NEW j \in 1..Len(idx_out)
      PROVE  out_files'[j] = SubSeq(Coded[j], 1, IF j < next \/ j = next THEN d + e ELSE d)
  <2>1. CASE j = next
    BY <1>1, <1>6, <1>7, <2>1
  <2>2. CASE j # next
    <3>1. out_files'[j] = out_files[j]
      BY <1>1, <1>6, <2>2
    <3>2. out_files[j] = SubSeq(Coded[j], 1, IF j < next THEN d + e ELSE d)
      BY <1>5 DEF IsWriting, HasWritten
    <3> QED
      BY <2>2, <3>1, <3>2
  <2> QED
    BY <2>1, <2>2
<1>9. HasRead(d + e)' /\ \A j \in 1..Len(idx_out) : out'[j] = SubSeq(Coded[j], d + 1, d + e)
  BY <1>1, <1>2, <1>5 DEF IsWriting, HasRead
<1>10. ASSUME at' = "write" PROVE AtWrite'
  <2>1. next' = next + 1
    BY <1>1, <1>3, <1>10 DEF AtWrite
  <2>2. \A j \in 1..Len(idx_out) : (j < next \/ j = next) <=> j < next'
    BY <1>6, <2>1
  <2>3. \A j \in 1..Len(idx_out) : out_files'[j] = SubSeq(Coded[j], 1, IF j < next' THEN d + e ELSE d)
    BY <1>8, <2>2
  <2>4. IsWriting(d, e)'
    BY <1>2, <1>7, <1>9, <2>3 DEF IsWriting, HasWritten
  <2>5. ~all_closed'
    BY <1>1, <1>3 DEF AtWrite
  <2> QED
    BY <1>2, <2>4, <2>5 DEF AtWrite
<1>11. ASSUME at' = "read" PROVE AtRead'
  <2>1. next = Len(idx_out)
    BY <1>1, <1>6, <1>11
  <2>2. \A j \in 1..Len(idx_out) : j < next \/ j = next
    BY <1>6, <2>1
  <2>3. \A j \in 1..Len(idx_out) : out_files'[j] = SubSeq(Coded[j], 1, d + e)
    BY <1>8, <2>2
  <2>4. \A j \in 1..Len(idx_out) : HasWritten(j, d + e)'
    BY <1>2, <2>3 DEF HasWritten
  <2> QED
    BY <1>1, <1>2, <1>7, <1>9, <1>11, <2>4 DEF AtRead
<1>12. at' \in {"write", "read"}
  BY <1>1, <1>3 DEF AtWrite
<1> QED
  BY <1>10, <1>11, <1>12

\* Wherever main is, a file is as it was or holds the first bytes of its code.
LEMMA ContentsAnyPlace ==
  ASSUME RscTyped, Contents, Sound
  PROVE  AtCrash
<1>1. (\A j \in 1..Len(idx_out) : Coded[j] \in Seq(Element) /\ Len(Coded[j]) = Longest) /\ Longest \in Nat
  BY CodedRows DEF Sound
<1>2. CASE at = "open"
  <2>1. \A j \in 1..Len(idx_out) : SubSeq(Coded[j], 1, 0) = <<>>
    <3> TAKE j \in 1..Len(idx_out)
    <3>1. Coded[j] \in Seq(Element) /\ 0 \in 0..Len(Coded[j])
      BY <1>1
    <3> QED
      BY <3>1, FirstElements
  <2>2. 0 \in 0..Longest
    BY <1>1
  <2> QED
    BY <1>2, <2>1, <2>2 DEF Contents, AtOpen, AtCrash, HasWritten
<1>3. CASE at = "read"
  BY <1>3 DEF Contents, AtRead, AtCrash
<1>4. CASE at = "write"
  <2>1. PICK d \in 0..Longest : \E e \in 0..kBlocksize : IsWriting(d, e)
    BY <1>4 DEF Contents, AtWrite
  <2>2. PICK e \in 0..kBlocksize : IsWriting(d, e)
    BY <2>1
  <2>3. d + e \in 0..Longest /\ \A j \in 1..Len(idx_out) : HasWritten(j, IF j < next THEN d + e ELSE d)
    BY <2>2 DEF IsWriting
  <2> QED
    BY <2>3 DEF AtCrash
<1>5. CASE at \in {"close", "done"}
  <2>1. \A j \in 1..Len(idx_out) : SubSeq(Coded[j], 1, Longest) = Coded[j]
    <3> TAKE j \in 1..Len(idx_out)
    <3>1. Coded[j] \in Seq(Element) /\ Longest \in 0..Len(Coded[j]) /\ Longest = Len(Coded[j])
      BY <1>1
    <3> QED
      BY <3>1, FirstElements
  <2>2. Longest \in 0..Longest
    BY <1>1
  <2>3. \A j \in 1..Len(idx_out) : HasWritten(j, Longest)
    BY <1>5, <2>1 DEF Contents, AtClose, HasWritten
  <2> QED
    BY <2>2, <2>3 DEF AtCrash
<1>6. CASE at = "crash"
  BY <1>6 DEF Contents
<1> QED
  BY <1>2, <1>3, <1>4, <1>5, <1>6 DEF RscTyped, Exits, Sound

LEMMA CrashContents ==
  ASSUME RscTyped, Contents, OpenFails \/ ReadFails \/ CloseFails PROVE Contents'
<1>1. /\ at' = "crash" /\ at # "usage" /\ UNCHANGED <<cmd, idx_in, idx_out, short, out_files>>
  BY DEF OpenFails, ReadFails, CloseFails, Crash
<1>2. inputs' = inputs /\ Longest' = Longest /\ Coded' = Coded /\ cmd' = cmd /\ idx_out' = idx_out /\ idx_in' = idx_in
  BY <1>1, RunFixed
<1> SUFFICES ASSUME Sound' PROVE AtCrash'
  BY <1>1 DEF Contents
<1>3. AtCrash
  BY <1>1, <1>2, ContentsAnyPlace DEF Sound
<1> QED
  BY <1>1, <1>2, <1>3 DEF AtCrash, HasWritten

LEMMA WriteFailsContents == ASSUME RscTyped, Contents, WriteFails PROVE Contents'
<1>1. at = "write" /\ at' = "crash" /\ UNCHANGED <<cmd, idx_in, idx_out, short>>
  BY DEF WriteFails, Crash
<1>2. inputs' = inputs /\ Longest' = Longest /\ Coded' = Coded /\ cmd' = cmd /\ idx_out' = idx_out /\ idx_in' = idx_in
  BY <1>1, RunFixed
<1> SUFFICES ASSUME Sound' PROVE AtCrash'
  BY <1>1 DEF Contents
<1>3. Sound
  BY <1>1, <1>2 DEF Sound
<1>4. AtCrash /\ AtWrite
  BY <1>1, <1>3, ContentsAnyPlace DEF Contents
<1>5. PICK d \in 0..Longest : \E e \in 0..kBlocksize : IsWriting(d, e)
  BY <1>4 DEF AtWrite
<1>6. PICK e \in 0..kBlocksize : IsWriting(d, e)
  BY <1>5
<1>7. PICK n \in 0..Len(out[next])-1 : out_files' = [out_files EXCEPT ![next] = @ \o SubSeq(out[next], 1, n)]
  BY DEF WriteFails
<1>8. next \in 1..Len(idx_out) /\ DOMAIN out_files = 1..Len(idx_out)
  BY <1>1, RowsToWrite, RscWorking
<1>9. n \in 0..e
  <2>1. kBlocksize \in Nat
    BY <1>1, RscWorking
  <2>2. 0 \in 0..e
    BY <1>6, <2>1
  <2>3. Len(out[next]) = e
    BY <1>1, <1>6, <2>2, RowAppended
  <2> QED
    BY <1>6, <1>7, <2>1, <2>3
<1>10. d + n \in 0..Longest /\ out_files'[next] = SubSeq(Coded[next], 1, d + n)
  <2>1. d + n \in 0..Longest /\ out_files[next] \o SubSeq(out[next], 1, n) = SubSeq(Coded[next], 1, d + n)
    BY <1>1, <1>6, <1>9, RowAppended
  <2> QED
    BY <1>7, <1>8, <2>1
<1>11. \A j \in 1..Len(idx_out) : j # next => out_files'[j] = out_files[j]
  BY <1>7, <1>8
<1> QED
  BY <1>2, <1>4, <1>10, <1>11 DEF AtCrash, HasWritten

LEMMA CloseContents == ASSUME RscTyped, Contents, Close PROVE Contents'
<1>1. at = "close" /\ at' \in {"close", "done"} /\ UNCHANGED <<cmd, idx_in, idx_out, short, out_files>>
  BY DEF Close
<1>2. Coded' = Coded /\ idx_out' = idx_out /\ idx_in' = idx_in
  BY <1>1, RunFixed
<1> QED
  BY <1>1, <1>2 DEF Contents, Sound, AtClose

LEMMA ContentsNext == RscTyped /\ Contents /\ [RscNext]_RscVars => Contents'
<1> SUFFICES ASSUME RscTyped, Contents, [RscNext]_RscVars PROVE Contents'
  OBVIOUS
<1>1. CASE UNCHANGED RscVars
  <2>1. /\ cmd' = cmd /\ idx_in' = idx_in /\ idx_out' = idx_out /\ inputs' = inputs
        /\ Longest' = Longest /\ Coded' = Coded
    BY <1>1, RunFixed DEF RscVars
  <2>2. /\ at' = at /\ short' = short /\ rest' = rest /\ out_files' = out_files /\ next' = next
        /\ out' = out /\ all_closed' = all_closed
    BY <1>1 DEF RscVars
  <2>3. (AtOpen => AtOpen') /\ (AtRead => AtRead') /\ (AtWrite => AtWrite') /\ (AtClose => AtClose') /\ (AtCrash => AtCrash')
    BY <2>1, <2>2 DEF AtOpen, AtRead, AtWrite, AtClose, AtCrash, IsWriting, HasRead, HasWritten
  <2> QED
    BY <2>1, <2>2, <2>3 DEF Contents, Sound
<1>2. CASE RscNext
  BY <1>2, OpenContents, TruncateContents, ReadContents, WriteContents, WriteFailsContents, CloseContents, CrashContents
     DEF RscNext, Progress
<1> QED
  BY <1>1, <1>2

LEMMA ContentsImply == RscTyped /\ Contents => OutputIsCode
<1> SUFFICES ASSUME RscTyped, Contents, Sound, NEW j \in DOMAIN out_files
             PROVE  /\ \/ at \in {"open", "crash"} /\ out_files[j] = cmd.files[inputs + j]
                       \/ IsPrefix(out_files[j], Wanted(j))
                    /\ at = "done" => out_files[j] = Wanted(j)
                    /\ at \in {"read", "write", "close"} =>
                         Len(out_files[1]) - Len(out_files[j]) \in 0..kBlocksize
  BY DEF OutputIsCode, Sound
<1>1. /\ (\A h \in 1..Len(idx_out) : Coded[h] \in Seq(Element) /\ Len(Coded[h]) = Longest)
      /\ Longest \in Nat /\ Len(idx_out) \in Nat /\ 1 \in 1..Len(idx_out) /\ kBlocksize \in Nat
  BY CodedRows, RscWorking DEF Sound
<1>2. j \in 1..Len(idx_out)
  BY RscWorking DEF Sound
<1>3. Wanted(j) = Coded[j]
  BY <1>2, WantedIsCoded DEF Sound
<1>4. \A h \in 1..Len(idx_out), d \in 0..Longest : HasWritten(h, d) => Len(out_files[h]) = d
  BY <1>1, FirstElements DEF HasWritten
<1>5. ASSUME NEW d \in 0..Longest, HasWritten(j, d) PROVE IsPrefix(out_files[j], Coded[j])
  <2> DEFINE s == Coded[j]
             t == SubSeq(s, 1, d)
  <2>1. s \in Seq(Element) /\ d \in 0..Len(s) /\ d <= Len(s)
    BY <1>1, <1>2
  <2>2. t \in Seq(Element) /\ Len(t) = d
    BY <2>1, FirstElements
  <2>3. SubSeq(t, 1, d) = t
    <3> HIDE DEF t
    <3>1. d \in 0..Len(t)
      BY <2>1, <2>2
    <3> QED
      BY <2>2, <3>1, FirstElements
  <2>4. out_files[j] = t
    BY <1>5 DEF HasWritten
  <2> QED
    BY <2>1, <2>2, <2>3, <2>4 DEF IsPrefix
<1>6. AtCrash
  BY ContentsAnyPlace
<1>7. at = "done" => out_files[j] = Wanted(j)
  BY <1>2, <1>3 DEF Contents, AtClose
<1>8. ASSUME at \in {"read", "write", "close"} PROVE Len(out_files[1]) - Len(out_files[j]) \in 0..kBlocksize
  <2>1. CASE at = "read"
    <3>1. PICK d \in 0..Longest : \A h \in 1..Len(idx_out) : HasWritten(h, d)
      BY <2>1 DEF Contents, AtRead
    <3>2. Len(out_files[1]) = d /\ Len(out_files[j]) = d
      BY <1>1, <1>2, <1>4, <3>1
    <3> QED
      BY <1>1, <3>2
  <2>2. CASE at = "write"
    <3>1. PICK d \in 0..Longest : \E e \in 0..kBlocksize : IsWriting(d, e)
      BY <2>2 DEF Contents, AtWrite
    <3>2. PICK e \in 0..kBlocksize : IsWriting(d, e)
      BY <3>1
    <3>3. d + e \in 0..Longest /\ \A h \in 1..Len(idx_out) : HasWritten(h, IF h < next THEN d + e ELSE d)
      BY <3>2 DEF IsWriting
    <3>4. /\ Len(out_files[1]) = (IF 1 < next THEN d + e ELSE d)
          /\ Len(out_files[j]) = (IF j < next THEN d + e ELSE d)
      BY <1>1, <1>2, <1>4, <3>3
    <3>5. j < next => 1 < next
      <4>1. next \in 1..Len(idx_out)
        BY <2>2, RowsToWrite
      <4> QED
        BY <1>2, <4>1
    <3>6. d \in Nat /\ e \in Nat /\ e <= kBlocksize
      BY <1>1, <3>1, <3>2
    <3> QED
      BY <1>1, <3>4, <3>5, <3>6
  <2>3. CASE at = "close"
    <3>1. \A h \in 1..Len(idx_out) : out_files[h] = Coded[h]
      BY <2>3 DEF Contents, AtClose
    <3>2. Len(out_files[1]) = Longest /\ Len(out_files[j]) = Longest
      BY <1>1, <1>2, <3>1
    <3> QED
      BY <1>1, <3>2
  <2> QED
    BY <1>8, <2>1, <2>2, <2>3
<1>9. \/ at \in {"open", "crash"} /\ out_files[j] = cmd.files[inputs + j]
      \/ IsPrefix(out_files[j], Wanted(j))
  <2>1. out_files[j] = cmd.files[inputs + j] \/ \E d \in 0..Longest : HasWritten(j, d)
    BY <1>2, <1>6 DEF AtCrash
  <2>2. CASE \E d \in 0..Longest : HasWritten(j, d)
    BY <1>3, <1>5, <2>2
  <2>3. CASE ~\E d \in 0..Longest : HasWritten(j, d)
    <3>1. at # "read"
      BY <1>2, <2>3 DEF Contents, AtRead
    <3>2. at # "write"
      <4> SUFFICES ASSUME at = "write" PROVE FALSE
        OBVIOUS
      <4>1. PICK d \in 0..Longest : \E e \in 0..kBlocksize : IsWriting(d, e)
        BY DEF Contents, AtWrite
      <4>2. PICK e \in 0..kBlocksize : IsWriting(d, e)
        BY <4>1
      <4>3. d + e \in 0..Longest /\ HasWritten(j, IF j < next THEN d + e ELSE d)
        BY <1>2, <4>2 DEF IsWriting
      <4> QED
        BY <2>3, <4>3
    <3>3. at \notin {"close", "done"}
      <4> SUFFICES ASSUME at \in {"close", "done"} PROVE FALSE
        OBVIOUS
      <4>1. out_files[j] = Coded[j] /\ Coded[j] \in Seq(Element) /\ Longest = Len(Coded[j]) /\ Longest \in 0..Len(Coded[j])
        BY <1>1, <1>2 DEF Contents, AtClose
      <4>2. SubSeq(Coded[j], 1, Longest) = Coded[j]
        BY <4>1, FirstElements
      <4>3. Longest \in 0..Longest
        BY <1>1
      <4> QED
        BY <2>3, <4>1, <4>2, <4>3 DEF HasWritten
    <3> QED
      BY <2>1, <2>3, <3>1, <3>2, <3>3 DEF RscTyped, Exits, Sound
  <2> QED
    BY <2>2, <2>3
<1> QED
  BY <1>7, <1>8, <1>9

\* Unless a Read comes back short, for every field, block size and command line of
\* different abscissae: whatever fails and when, an output is as it was or holds the
\* first bytes of its code, none is more than a block ahead of another, and where main
\* returns each is the whole code of the padded inputs.
THEOREM OutputCorrect == RscSpec => []OutputIsCode
<1>1. RscInit => RscTyped /\ Contents
  BY RscTypedInit, ContentsInit
<1>2. RscTyped /\ Contents /\ [RscNext]_RscVars => (RscTyped /\ Contents)'
  BY RscTypedNext, ContentsNext
<1>3. RscTyped /\ Contents => OutputIsCode
  BY ContentsImply
<1> QED
  BY <1>1, <1>2, <1>3, PTL DEF RscSpec
=============================================================================
