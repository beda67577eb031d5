---------------------------- MODULE DenseProofs ----------------------------
(***************************************************************************)
(* container/dense, for any number of bits: the operations of a Set63 do to *)
(* its elements what they are named for and answer questions about them    *)
(* rightly, and Cover keeps its promise, whatever the operands.            *)
(*                                                                         *)
(* First the cells: what lsb, parent, sibling and contains are, that a     *)
(* list Interval makes tiles its interval, what headx splits off, what     *)
(* NewSet63 builds, and that the binary search of Intersects ends where    *)
(* the answer is.  A cell of level l with n cells of its size before it is *)
(* shifted[l] * (2n + 1).                                                  *)
(*                                                                         *)
(* Then the loops of Set63.  The invariant says of what is left of an      *)
(* operand that its head tiles the interval and its rest starts behind a   *)
(* gap, of the result that it ends before whatever is still to be added,   *)
(* and of both together that they make up the answer.                      *)
(*                                                                         *)
(* Then Cover.  The invariant says that the names of the tree's nodes are  *)
(* nested cells with the two children of a node in its two halves, that a  *)
(* node is removed exactly when its parent has become a leaf, that the     *)
(* leaves below no other leaf hold the set, and that they are in the heap. *)
(***************************************************************************)
EXTENDS Set63, DenseCover, Arithmetic, SequenceTheorems

-----------------------------------------------------------------------------
(* Powers of two.                                                          *)

\* Shifting by one doubles.
LEMMA ShiftedDoubles == Bits \in Nat /\ shifted = CHOOSE f : Doubles(f, Bits)
  BY BitsAssumption DEF shifted, Doubles

LEMMA ShiftedRecursion ==
  /\ shifted \in [0..Bits -> Nat]
  /\ shifted[0] = 1 /\ \A l \in 0..Bits-1 : shifted[l + 1] = 2 * shifted[l]
<1>1. shifted \in [0..Bits -> Nat \ {0}]
  BY ShiftedDoubles, DoublingRecursion
<1>2. shifted[0] = 1 /\ \A l \in 0..Bits-1 : shifted[l + 1] = 2 * shifted[l]
  BY ShiftedDoubles, DoublingRecursion
<1> QED
  BY <1>1, <1>2

\* Powers of two are positive and those up to Limit do not pass it.
LEMMA ShiftedPositive ==
  /\ Bits \in Nat /\ Limit \in Nat \ {0} /\ shifted[Bits] = Limit
  /\ \A l \in 0..Bits : shifted[l] \in Nat \ {0}
<1>1. Bits \in Nat /\ Bits \in 0..Bits
  BY ShiftedDoubles
<1>2. shifted \in [0..Bits -> Nat \ {0}]
  BY ShiftedDoubles, DoublingRecursion
<1> QED
  BY <1>1, <1>2 DEF Limit

\* A larger power of two is a multiple of twice each smaller one.
LEMMA ShiftedMultiples ==
  ASSUME NEW i \in 0..Bits, NEW j \in 0..Bits, i < j
  PROVE  Multiple(shifted[j], 2 * shifted[i]) /\ shifted[i] < shifted[j]
  BY ShiftedDoubles, DoublingMultiples

-----------------------------------------------------------------------------
(* Cells.                                                                  *)

\* c is the cell of the shifted[l] elements from b on.
IsCell(c, b, l) ==
  /\ l \in 0..Bits /\ b \in Nat /\ c = 2 * b + shifted[l]
  /\ Multiple(b, shifted[l]) /\ b + shifted[l] <= Limit

\* Its lsb is its size, and it begins and ends where it should.
LEMMA CellShape ==
  ASSUME NEW c, NEW b, NEW l, IsCell(c, b, l)
  PROVE  c \in Cell /\ lsb(c) = shifted[l] /\ begin(c) = b /\ end(c) = b + shifted[l]
<1> DEFINE p == shifted[l]
           P == {q \in {shifted[k] : k \in 0..Bits} : c % q = 0}
<1>0. /\ Bits \in Nat /\ Limit \in Nat \ {0} /\ l \in 0..Bits /\ b \in Nat /\ p \in Nat \ {0}
      /\ c = 2 * b + p /\ Multiple(b, p) /\ b + p <= Limit
      /\ \A k \in 0..Bits : shifted[k] \in Nat \ {0}
  BY ShiftedPositive DEF IsCell
<1>1. c \in Nat /\ c \in Cell
  BY <1>0 DEF Cell
<1>2. Multiple(2 * b, 2 * p) /\ Multiple(2 * b, p)
  <2> HIDE DEF p
  <2>1. Multiple(2 * b, 2 * p)
    BY <1>0, MultipleClosed
  <2>2. Multiple(b + b, p) /\ b + b = 2 * b
    BY <1>0, MultipleClosed
  <2> QED
    BY <2>1, <2>2
<1>3. Multiple(c, p)
  <2> HIDE DEF p
  <2>1. Multiple(p, p) /\ 2 * b \in Nat
    BY <1>0, MultipleClosed
  <2> QED
    BY <1>0, <1>2, <2>1, MultipleClosed
<1>4. ASSUME NEW k \in 0..Bits, l < k PROVE ~Multiple(c, shifted[k])
  <2> SUFFICES ASSUME Multiple(c, shifted[k]) PROVE FALSE
    OBVIOUS
  <2>1. Multiple(shifted[k], 2 * p)
    BY <1>0, <1>4, ShiftedMultiples
  <2> HIDE DEF p
  <2>2. Multiple(c, 2 * p) /\ 2 * p \in Nat \ {0}
    BY <1>0, <1>1, <2>1, MultipleOfMultiple
  <2>3. c - 2 * b = p /\ 2 * b <= c /\ 2 * b \in Nat
    BY <1>0
  <2>4. Multiple(p, 2 * p) /\ Multiple(0, 2 * p)
    <3>1. Multiple(c - 2 * b, 2 * p)
      BY <1>1, <1>2, <2>2, <2>3, MultipleClosed
    <3>2. Multiple(0, 2 * p)
      BY <1>1, <2>2, MultipleClosed
    <3> QED
      BY <2>3, <3>1, <3>2
  <2>5. 0 + 2 * p <= p
    BY <1>0, <2>2, <2>4, MultipleGap
  <2> QED
    BY <1>0, <2>5
<1>5. p \in P /\ \A q \in P : q \in Nat /\ q <= p
  <2>1. p \in P
    <3>1. c % p = 0
      <4> HIDE DEF p
      <4> QED
        BY <1>0, <1>1, <1>3, MultipleRest
    <3> QED
      BY <1>0, <3>1
  <2>2. ASSUME NEW q \in P PROVE q \in Nat /\ q <= p
    <3>1. PICK k \in 0..Bits : q = shifted[k] /\ c % q = 0
      OBVIOUS
    <3>2. q \in Nat \ {0} /\ Multiple(c, q)
      BY <1>0, <1>1, <3>1, MultipleRest
    <3>3. ~(l < k)
      BY <1>4, <3>1, <3>2
    <3>4. k = l \/ k < l
      BY <1>0, <3>3
    <3>5. k < l => shifted[k] < p
      BY <1>0, ShiftedMultiples
    <3> QED
      BY <1>0, <3>1, <3>2, <3>4, <3>5
  <2> HIDE DEF P, p
  <2> QED
    BY <2>1, <2>2
<1>6. lsb(c) = p
  <2>1. lsb(c) = CHOOSE x \in P : \A y \in P : x >= y
    BY DEF lsb, Max
  <2> HIDE DEF P, p
  <2>2. \A x \in P : (\A y \in P : x >= y) <=> x = p
    BY <1>0, <1>5
  <2> QED
    BY <1>5, <2>1, <2>2
<1> HIDE DEF p
<1>7. (c - p) \div 2 = b
  <2>1. c - p = b * 2 + 0 /\ 0 \in 0..1
    BY <1>0
  <2>2. (b * 2 + 0) \div 2 = b
    BY <1>0
  <2> QED
    BY <2>1, <2>2
<1>8. begin(c) = b /\ end(c) = b + p
  BY <1>6, <1>7 DEF begin, end
<1> QED
  BY <1>1, <1>6, <1>8 DEF p

\* Every cell has that form.
LEMMA CellIs ==
  ASSUME NEW c \in Cell
  PROVE  \E b, l : IsCell(c, b, l)
<1>0. /\ Bits \in Nat /\ Limit \in Nat \ {0} /\ c \in Nat \ {0} /\ c < 2 * Limit
      /\ \A k \in 0..Bits : shifted[k] \in Nat \ {0}
      /\ shifted[Bits] = Limit
  BY ShiftedPositive DEF Cell
<1> DEFINE U == {k \in 0..Bits : Multiple(c, shifted[k])}
<1>1. PICK l \in U : \A k \in U : k <= l
  <2>1. 0 \in U
    <3>1. shifted[0] = 1 /\ c = 1 * c
      BY <1>0, ShiftedRecursion
    <3> QED
      BY <1>0, <3>1 DEF Multiple
  <2>2. U \in SUBSET Nat /\ \A k \in U : k <= Bits
    BY <1>0
  <2> HIDE DEF U
  <2> QED
    BY <1>0, <2>1, <2>2, GreatestNat
<1> DEFINE p == shifted[l]
<1>2. l \in 0..Bits /\ p \in Nat \ {0} /\ Multiple(c, p)
  BY <1>0
<1>3. PICK n \in Nat : c = p * n
  BY <1>2 DEF Multiple
<1>4. PICK m \in Nat : n = 2 * m \/ n = 2 * m + 1
  <2>1. n \div 2 \in Nat /\ (n = 2 * (n \div 2) \/ n = 2 * (n \div 2) + 1)
    OBVIOUS
  <2> QED
    BY <2>1
<1> DEFINE b == p * m
<1>5. b \in Nat /\ Multiple(b, p) /\ (2 * p) * m = 2 * b /\ p * (2 * m) = 2 * b /\ p * (2 * m + 1) = 2 * b + p
  <2> HIDE DEF p
  <2>1. p * m \in Nat /\ (2 * p) * m = 2 * (p * m) /\ p * (2 * m) = 2 * (p * m) /\ p * (2 * m + 1) = 2 * (p * m) + p
    BY <1>2, Z3T(30)
  <2> QED
    BY <2>1 DEF Multiple
<1>6. n # 2 * m
  <2> SUFFICES ASSUME n = 2 * m PROVE FALSE
    OBVIOUS
  <2>1. c = 2 * b /\ c = (2 * p) * m
    <3> HIDE DEF p, b
    <3> QED
      BY <1>3, <1>5
  <2>2. Multiple(c, 2 * p)
    BY <2>1 DEF Multiple
  <2>3. CASE l = Bits
    <3>1. 0 < c /\ Multiple(0, 2 * p) /\ 2 * p \in Nat \ {0}
      <4> HIDE DEF p
      <4>1. 2 * p \in Nat \ {0}
        BY <1>2
      <4> QED
        BY <1>0, <4>1, MultipleClosed
    <3>2. 0 + 2 * p <= c
      <4> HIDE DEF p
      <4> QED
        BY <1>0, <2>2, <3>1, MultipleGap
    <3> QED
      BY <1>0, <2>3, <3>2
  <2>4. CASE l < Bits
    <3>1. l \in 0..Bits-1 /\ l + 1 \in 0..Bits
      BY <1>0, <2>4
    <3>2. shifted[l + 1] = 2 * p
      BY <3>1, ShiftedRecursion
    <3>3. l + 1 \in U
      BY <2>2, <3>1, <3>2
    <3>4. l + 1 <= l
      <4> HIDE DEF U
      <4> QED
        BY <1>1, <3>3
    <3> QED
      BY <3>1, <3>4
  <2> QED
    BY <1>0, <1>2, <2>3, <2>4
<1>7. c = 2 * b + p
  <2> HIDE DEF p, b
  <2> QED
    BY <1>3, <1>4, <1>5, <1>6
<1>8. b + p <= Limit
  <2>1. Multiple(Limit, p)
    <3>1. CASE l = Bits
      <4>1. p = Limit
        BY <1>0, <3>1
      <4> QED
        BY <1>0, <4>1, MultipleClosed
    <3>2. CASE l < Bits
      <4>1. Multiple(Limit, 2 * p) /\ 2 * p = p + p
        BY <1>0, <1>2, <3>2, ShiftedMultiples
      <4> HIDE DEF p
      <4>2. Multiple(2 * p, p) /\ 2 * p \in Nat
        BY <1>2, <4>1, MultipleClosed
      <4> QED
        BY <1>0, <1>2, <4>1, <4>2, MultipleOfMultiple
    <3> QED
      BY <1>0, <1>2, <3>1, <3>2
  <2>2. b < Limit
    <3> HIDE DEF p, b
    <3> QED
      BY <1>0, <1>2, <1>5, <1>7
  <2> HIDE DEF p, b
  <2> QED
    BY <1>0, <1>2, <1>5, <2>1, <2>2, MultipleGap
<1>9. IsCell(c, b, l)
  BY <1>2, <1>5, <1>7, <1>8 DEF IsCell
<1> QED
  BY <1>9

\* The bits of a cell above its lsb tell which cell of its size it is.
LEMMA CellPlace ==
  ASSUME NEW c, NEW b, NEW l, IsCell(c, b, l)
  PROVE  LET p == 2 * shifted[l]
         IN  /\ ((c \div p) % 2 = 1 <=> ~Multiple(b, p))
             /\ \A e \in Nat : contains(c, 2 * e + 1) <=> b <= e /\ e < b + shifted[l]
<1> DEFINE q == shifted[l]
           p == 2 * q
<1>0. q \in Nat \ {0} /\ p \in Nat \ {0} /\ b \in Nat /\ c = 2 * b + q /\ Multiple(b, q) /\ lsb(c) = q
  BY ShiftedPositive, CellShape DEF IsCell
<1>1. PICK n \in Nat : b = q * n
  BY <1>0 DEF Multiple
<1>2. 2 * b = n * p /\ n * p \in Nat
  <2> HIDE DEF q
  <2>1. 2 * (q * n) = n * (2 * q) /\ q * n \in Nat
    BY <1>0, Z3T(30)
  <2> QED
    BY <1>0, <1>1, <2>1
<1>3. c \div p = n
  <2>1. c = n * p + q /\ q \in 0..p-1
    BY <1>0, <1>2
  <2> HIDE DEF p, q
  <2> QED
    BY <1>0, <2>1, DivUnique
<1>4. n % 2 = 1 <=> ~Multiple(b, p)
  <2>1. PICK m \in Nat : n = 2 * m \/ n = 2 * m + 1
    <3>1. n \div 2 \in Nat /\ (n = 2 * (n \div 2) \/ n = 2 * (n \div 2) + 1)
      OBVIOUS
    <3> QED
      BY <3>1
  <2>2. ASSUME n = 2 * m PROVE n % 2 = 0 /\ Multiple(b, p)
    <3>1. n % 2 = 0
      BY <2>2
    <3>2. q * (2 * m) = p * m
      <4> HIDE DEF q
      <4> QED
        BY <1>0, Z3T(30)
    <3>3. Multiple(b, p)
      BY <1>1, <2>2, <3>2 DEF Multiple
    <3> QED
      BY <3>1, <3>3
  <2>3. ASSUME n = 2 * m + 1 PROVE n % 2 = 1 /\ ~Multiple(b, p)
    <3>1. n % 2 = 1
      BY <2>3
    <3> DEFINE a == p * m
    <3>2. q * (2 * m + 1) = a + q /\ a \in Nat
      <4> HIDE DEF q
      <4> QED
        BY <1>0, Z3T(30)
    <3>3. Multiple(a, p)
      BY DEF Multiple
    <3> HIDE DEF a, p, q
    <3>4. b = a + q
      BY <1>1, <2>3, <3>2
    <3>5. ASSUME Multiple(b, p) PROVE FALSE
      <4>1. a + p <= b
        BY <1>0, <3>2, <3>3, <3>4, <3>5, MultipleGap
      <4> QED
        BY <1>0, <3>2, <3>4, <4>1 DEF p
    <3> QED
      BY <3>1, <3>5
  <2> QED
    BY <2>1, <2>2, <2>3
<1>5. ASSUME NEW e \in Nat PROVE contains(c, 2 * e + 1) <=> b <= e /\ e < b + q
  <2> DEFINE d == 2 * e + 1
             k == d \div p
             x == d % p
  <2>0. d \in Nat
    OBVIOUS
  <2>1. k \in Nat /\ x \in 0..p-1 /\ d = k * p + x
    <3> HIDE DEF d, p
    <3> QED
      BY <1>0, <2>0, DivMod
  <2>2. contains(c, d) <=> n = k
    BY <1>0, <1>3 DEF contains
  <2>3. ASSUME n = k PROVE b <= e /\ e < b + q
    <3>1. d = 2 * b + x /\ x \in 0..p-1
      <4> HIDE DEF d, x, k, p
      <4> QED
        BY <1>2, <2>1, <2>3
    <3> HIDE DEF x, k
    <3> QED
      BY <1>0, <3>1
  <2>4. ASSUME b <= e, e < b + q PROVE n = k
    <3>1. PICK y \in 0..p-1 : d = n * p + y
      <4>1. d - 2 * b \in 0..p-1 /\ d = 2 * b + (d - 2 * b)
        BY <1>0, <2>4
      <4> HIDE DEF d, p
      <4> QED
        BY <1>2, <4>1
    <3> HIDE DEF d, p
    <3> QED
      BY <1>0, <3>1, DivUnique
  <2> QED
    BY <2>2, <2>3, <2>4
<1> QED
  BY <1>3, <1>4, <1>5

\* The parent of a cell is the cell of twice its size it is a half of, unity has none,
\* and its sibling is the other half.
LEMMA CellFamily ==
  ASSUME NEW c, NEW b, NEW l, IsCell(c, b, l)
  PROVE  LET p == shifted[l]
         IN  /\ l = Bits => b = 0 /\ parent(c) = 0 /\ sibling(c) = c
             /\ l < Bits /\ Multiple(b, 2 * p) =>
                  IsCell(parent(c), b, l + 1) /\ IsCell(sibling(c), b + p, l)
             /\ l < Bits /\ ~Multiple(b, 2 * p) =>
                  p <= b /\ IsCell(parent(c), b - p, l + 1) /\ IsCell(sibling(c), b - p, l)
<1> DEFINE p == shifted[l]
           M == 2 * Limit
           up == IF (c \div (2 * p)) % 2 = 1 THEN c - p ELSE c + p
<1>0. /\ Bits \in Nat /\ Limit \in Nat \ {0} /\ p \in Nat \ {0} /\ l \in 0..Bits /\ b \in Nat
      /\ c = 2 * b + p /\ Multiple(b, p) /\ b + p <= Limit /\ lsb(c) = p /\ unity = Limit
      /\ shifted[Bits] = Limit
  BY ShiftedPositive, CellShape DEF IsCell, unity
<1>1. (c \div (2 * p)) % 2 = 1 <=> ~Multiple(b, 2 * p)
  BY CellPlace
<1>2. parent(c) = up % M
  BY <1>0 DEF parent
<1>3. sibling(c) = IF c = Limit THEN c ELSE IF ~Multiple(b, 2 * p) THEN c - 2 * p ELSE c + 2 * p
  <2>1. sibling(c) = IF c = unity THEN c ELSE IF (c \div (2 * lsb(c))) % 2 = 1 THEN c - 2 * lsb(c) ELSE c + 2 * lsb(c)
    BY DEF sibling
  <2> HIDE DEF p
  <2> QED
    BY <1>0, <1>1, <2>1
<1>4. up = IF ~Multiple(b, 2 * p) THEN 2 * b ELSE 2 * b + 2 * p
  <2> HIDE DEF p
  <2> QED
    BY <1>0, <1>1
<1>5. ASSUME NEW x \in Nat, x < M PROVE x % M = x
  <2>1. M \in Nat \ {0} /\ x \in 0..M-1 /\ 0 * M + x = x
    BY <1>0, <1>5
  <2> HIDE DEF M
  <2>2. (0 * M + x) % M = x
    BY <2>1, DivUnique
  <2> QED
    BY <2>1, <2>2
<1>6. ASSUME l = Bits PROVE b = 0 /\ parent(c) = 0 /\ sibling(c) = c
  <2>1. p = Limit /\ b = 0 /\ c = Limit
    BY <1>0, <1>6
  <2>2. Multiple(0, 2 * p)
    <3>1. 2 * p \in Nat \ {0}
      BY <1>0
    <3> HIDE DEF p
    <3> QED
      BY <1>0, <3>1, MultipleClosed
  <2>3. up = M
    <3> HIDE DEF up, p
    <3>1. up = 2 * b + 2 * p
      BY <1>4, <2>1, <2>2
    <3> QED
      BY <1>0, <2>1, <3>1
  <2>4. M % M = 0
    <3>1. M \in Nat \ {0} /\ 0 \in 0..M-1 /\ 1 * M + 0 = M
      BY <1>0
    <3> HIDE DEF M
    <3>2. (1 * M + 0) % M = 0
      BY <3>1, DivUnique
    <3> QED
      BY <3>1, <3>2
  <2> QED
    <3> HIDE DEF up, M, p
    <3> QED
      BY <1>2, <1>3, <2>1, <2>3, <2>4
<1>7. ASSUME l < Bits
      PROVE  /\ l + 1 \in 0..Bits /\ shifted[l + 1] = 2 * p /\ c # Limit
             /\ Multiple(Limit, 2 * p) /\ 2 * p \in Nat \ {0} /\ b < Limit
  <2>1. l \in 0..Bits-1 /\ l + 1 \in 0..Bits
    BY <1>0, <1>7
  <2>2. Multiple(Limit, 2 * p)
    BY <1>0, <1>7, ShiftedMultiples
  <2>3. shifted[l + 1] = 2 * p
    BY <2>1, ShiftedRecursion
  <2>4. c # Limit
    <3> SUFFICES ASSUME c = Limit PROVE FALSE
      OBVIOUS
    <3> HIDE DEF p
    <3>1. Multiple(2 * b, 2 * p) /\ 2 * p \in Nat \ {0} /\ 2 * b \in Nat
      BY <1>0, MultipleClosed
    <3>2. 2 * b + 2 * p <= c
      BY <1>0, <2>2, <3>1, MultipleGap
    <3> QED
      BY <1>0, <3>2
  <2> QED
    BY <1>0, <2>1, <2>2, <2>3, <2>4
<1>8. ASSUME l < Bits, Multiple(b, 2 * p)
      PROVE  IsCell(parent(c), b, l + 1) /\ IsCell(sibling(c), b + p, l)
  <2>1. b + 2 * p <= Limit
    <3> HIDE DEF p
    <3> QED
      BY <1>0, <1>7, <1>8, MultipleGap
  <2>2. up = 2 * b + 2 * p /\ sibling(c) = 2 * (b + p) + p
    <3> HIDE DEF p, up
    <3> QED
      BY <1>0, <1>3, <1>4, <1>7, <1>8
  <2>3. up \in Nat /\ up < M
    <3> HIDE DEF p, up
    <3> QED
      BY <1>0, <2>1, <2>2
  <2>4. parent(c) = 2 * b + 2 * p
    <3> HIDE DEF p, up, M
    <3> QED
      BY <1>2, <1>5, <2>2, <2>3
  <2>5. Multiple(b + p, p)
    <3> HIDE DEF p
    <3>1. Multiple(p, p)
      BY <1>0, MultipleClosed
    <3> QED
      BY <1>0, <3>1, MultipleClosed
  <2>6. IsCell(parent(c), b, l + 1)
    <3> HIDE DEF up
    <3> QED
      BY <1>0, <1>7, <1>8, <2>1, <2>4 DEF IsCell
  <2>7. IsCell(sibling(c), b + p, l)
    <3>1. b + p \in Nat /\ (b + p) + p <= Limit
      BY <1>0, <2>1
    <3> HIDE DEF up
    <3> QED
      BY <1>0, <2>2, <2>5, <3>1 DEF IsCell
  <2> QED
    BY <2>6, <2>7
<1>9. ASSUME l < Bits, ~Multiple(b, 2 * p)
      PROVE  p <= b /\ IsCell(parent(c), b - p, l + 1) /\ IsCell(sibling(c), b - p, l)
  <2>1. p <= b /\ Multiple(b - p, 2 * p)
    <3> HIDE DEF p
    <3> QED
      BY <1>0, <1>9, MultipleHalves
  <2>2. Multiple(b - p, p)
    <3> HIDE DEF p
    <3>1. Multiple(p, p)
      BY <1>0, MultipleClosed
    <3> QED
      BY <1>0, <2>1, <3>1, MultipleClosed
  <2>3. up = 2 * b /\ sibling(c) = 2 * (b - p) + p
    <3> HIDE DEF p, up
    <3> QED
      BY <1>0, <1>3, <1>4, <1>7, <1>9
  <2>4. up \in Nat /\ up < M
    <3> HIDE DEF p, up
    <3> QED
      BY <1>0, <1>7, <1>9, <2>3
  <2>5. parent(c) = 2 * (b - p) + 2 * p
    <3> HIDE DEF p, up, M
    <3>1. parent(c) = 2 * b
      BY <1>2, <1>5, <2>3, <2>4
    <3> QED
      BY <1>0, <3>1
  <2>6. b - p \in Nat /\ (b - p) + 2 * p <= Limit /\ (b - p) + p <= Limit
    <3> HIDE DEF p
    <3> QED
      BY <1>0, <2>1
  <2>7. IsCell(parent(c), b - p, l + 1)
    <3> HIDE DEF up
    <3> QED
      BY <1>7, <1>9, <2>1, <2>5, <2>6 DEF IsCell
  <2>8. IsCell(sibling(c), b - p, l)
    <3> HIDE DEF up
    <3> QED
      BY <1>0, <2>2, <2>3, <2>6 DEF IsCell
  <2> QED
    BY <2>1, <2>7, <2>8
<1> QED
  BY <1>6, <1>8, <1>9

\* A cell is an interval that is not empty, below Limit.
LEMMA CellBounds ==
  ASSUME NEW c \in Cell
  PROVE  begin(c) \in Nat /\ end(c) \in Nat /\ begin(c) < end(c) /\ end(c) <= Limit
<1>1. PICK b, l : IsCell(c, b, l)
  BY CellIs
<1>2. begin(c) = b /\ end(c) = b + shifted[l] /\ shifted[l] \in Nat \ {0} /\ Limit \in Nat
  BY <1>1, CellShape, ShiftedPositive DEF IsCell
<1> QED
  BY <1>1, <1>2 DEF IsCell

\* The cell of one element.
LEMMA SingletonCell ==
  ASSUME NEW e \in 0..Limit-1
  PROVE  /\ IsCell(singleton(e), e, 0) /\ singleton(e) \in Cell
         /\ begin(singleton(e)) = e /\ end(singleton(e)) = e + 1
<1>1. Limit \in Nat /\ 0 \in 0..Bits /\ shifted[0] = 1 /\ e \in Nat
  BY ShiftedPositive, ShiftedRecursion
<1>2. e = 1 * e
  OBVIOUS
<1>3. IsCell(singleton(e), e, 0)
  BY <1>1, <1>2 DEF IsCell, singleton, Multiple
<1> QED
  BY <1>1, <1>3, CellShape

\* The parent of a cell is a cell that contains it, unless it is unity, whose is 0.
LEMMA ParentCell ==
  ASSUME NEW c \in Cell, parent(c) # 0
  PROVE  /\ parent(c) \in Cell /\ begin(parent(c)) <= begin(c) /\ end(c) <= end(parent(c))
         /\ end(parent(c)) - begin(parent(c)) = 2 * (end(c) - begin(c))
<1>1. PICK b, l : IsCell(c, b, l)
  BY CellIs
<1> DEFINE p == shifted[l]
<1>2. /\ l \in 0..Bits /\ Bits \in Nat /\ l # Bits /\ b \in Nat /\ p \in Nat \ {0}
      /\ begin(c) = b /\ end(c) = b + p
  BY <1>1, CellShape, CellFamily, ShiftedPositive DEF IsCell
<1>3. l < Bits /\ l \in 0..Bits-1 /\ shifted[l + 1] = 2 * p
  BY <1>2, ShiftedRecursion
<1>4. PICK a \in Nat : IsCell(parent(c), a, l + 1) /\ (a = b \/ (p <= b /\ a = b - p))
  <2>1. CASE Multiple(b, 2 * p)
    BY <1>1, <1>2, <1>3, <2>1, CellFamily
  <2>2. CASE ~Multiple(b, 2 * p)
    <3>1. p <= b /\ IsCell(parent(c), b - p, l + 1)
      BY <1>1, <1>2, <1>3, <2>2, CellFamily
    <3> QED
      BY <1>2, <3>1
  <2> QED
    BY <2>1, <2>2
<1>5. parent(c) \in Cell /\ begin(parent(c)) = a /\ end(parent(c)) = a + 2 * p
  BY <1>3, <1>4, CellShape
<1> HIDE DEF p
<1> QED
  BY <1>2, <1>4, <1>5

-----------------------------------------------------------------------------
(* Lists of cells.                                                         *)

\* The cells of s follow one another from b to e without a gap.
Tiles(s, b, e) ==
  /\ s \in Seq(Cell) /\ b \in Nat /\ e \in Nat /\ b <= e
  /\ b = e => s = <<>>
  /\ b < e => s # <<>> /\ begin(s[1]) = b /\ end(s[Len(s)]) = e
  /\ \A i \in 1..Len(s)-1 : end(s[i]) = begin(s[i + 1])

\* Of the cells of an ordered list the earlier ends before the later begins.
LEMMA OrderedApart ==
  ASSUME NEW s, Ordered(s), NEW i \in DOMAIN s, NEW j \in DOMAIN s, i < j
  PROVE  end(s[i]) <= begin(s[j])
<1> DEFINE U == {k \in Nat : i + 1 + k \in DOMAIN s => end(s[i]) <= begin(s[i + 1 + k])}
<1>0. s \in Seq(Cell) /\ DOMAIN s = 1..Len(s) /\ Len(s) \in Nat
  BY DEF Ordered
<1>1. 0 \in U
  <2>1. i + 1 \in DOMAIN s => i \in 1..Len(s)-1
    BY <1>0
  <2> QED
    BY <1>0, <2>1 DEF Ordered
<1>2. ASSUME NEW k \in Nat, k \in U PROVE k + 1 \in U
  <2> SUFFICES ASSUME i + 1 + (k + 1) \in DOMAIN s
               PROVE  end(s[i]) <= begin(s[i + 1 + (k + 1)])
    OBVIOUS
  <2> DEFINE h == i + 1 + k
  <2>1. h \in DOMAIN s /\ h \in 1..Len(s)-1 /\ i + 1 + (k + 1) = h + 1 /\ h + 1 \in DOMAIN s
    BY <1>0
  <2>2. end(s[i]) <= begin(s[h])
    BY <1>2, <2>1
  <2> HIDE DEF h
  <2>3. end(s[h]) <= begin(s[h + 1])
    BY <2>1 DEF Ordered
  <2>4. s[i] \in Cell /\ s[h] \in Cell /\ s[h + 1] \in Cell
    BY <1>0, <2>1
  <2> QED
    BY <2>1, <2>2, <2>3, <2>4, CellBounds
<1>3. \A k \in Nat : k \in U
  <2> HIDE DEF U
  <2> QED
    BY <1>1, <1>2, SetInduction
<1>4. j - i - 1 \in Nat /\ i + 1 + (j - i - 1) = j
  BY <1>0
<1> QED
  BY <1>3, <1>4

\* A list that tiles an interval is ordered, lies in it, and has all its elements.
LEMMA TilesElements ==
  ASSUME NEW s, NEW b, NEW e, Tiles(s, b, e)
  PROVE  /\ Ordered(s) /\ Elements(s) = b..e-1
         /\ \A i \in DOMAIN s : b <= begin(s[i]) /\ end(s[i]) <= e
<1>0. /\ s \in Seq(Cell) /\ DOMAIN s = 1..Len(s) /\ Len(s) \in Nat /\ b \in Nat /\ e \in Nat
      /\ \A i \in DOMAIN s : /\ s[i] \in Cell /\ begin(s[i]) \in Nat /\ end(s[i]) \in Nat
                             /\ begin(s[i]) < end(s[i])
  BY CellBounds DEF Tiles
<1>1. Ordered(s)
  <2>1. \A i \in 1..Len(s)-1 : i \in DOMAIN s /\ end(s[i]) = begin(s[i + 1])
    BY <1>0 DEF Tiles
  <2> QED
    BY <1>0, <2>1 DEF Ordered
<1>2. ASSUME NEW i \in DOMAIN s PROVE b <= begin(s[i]) /\ end(s[i]) <= e
  <2>1. b < e /\ begin(s[1]) = b /\ end(s[Len(s)]) = e /\ 1 \in DOMAIN s /\ Len(s) \in DOMAIN s
    BY <1>0 DEF Tiles
  <2>2. 1 < i => end(s[1]) <= begin(s[i])
    BY <1>1, <2>1, OrderedApart
  <2>3. i < Len(s) => end(s[i]) <= begin(s[Len(s)])
    BY <1>1, <2>1, OrderedApart
  <2> QED
    BY <1>0, <2>1, <2>2, <2>3
<1>3. ASSUME NEW x \in b..e-1 PROVE x \in Elements(s)
  <2> DEFINE U == {i \in DOMAIN s : begin(s[i]) <= x}
  <2>1. b < e /\ s # <<>> /\ begin(s[1]) = b /\ end(s[Len(s)]) = e /\ 1 \in DOMAIN s
    BY <1>0 DEF Tiles
  <2>2. 1 \in U /\ U \in SUBSET Nat /\ \A i \in U : i <= Len(s)
    BY <1>0, <2>1
  <2>3. PICK i \in U : \A j \in U : j <= i
    <3> HIDE DEF U
    <3> QED
      BY <1>0, <2>2, GreatestNat
  <2>4. x < end(s[i])
    <3>1. CASE i = Len(s)
      BY <1>0, <2>1, <3>1
    <3>2. CASE i # Len(s)
      <4>1. i \in 1..Len(s)-1 /\ i + 1 \in DOMAIN s /\ ~(i + 1 <= i)
        BY <1>0, <3>2
      <4>2. i + 1 \notin U
        <5> HIDE DEF U
        <5> QED
          BY <2>3, <4>1
      <4>3. x < begin(s[i + 1])
        BY <1>0, <4>1, <4>2
      <4>4. end(s[i]) = begin(s[i + 1])
        BY <4>1 DEF Tiles
      <4> QED
        BY <4>3, <4>4
    <3> QED
      BY <3>1, <3>2
  <2>5. x \in Within(s[i])
    BY <1>0, <2>4 DEF Within
  <2> QED
    BY <2>5 DEF Elements
<1>4. ASSUME NEW x \in Elements(s) PROVE x \in b..e-1
  <2>1. PICK i \in DOMAIN s : x \in Within(s[i])
    BY DEF Elements
  <2>2. b <= begin(s[i]) /\ end(s[i]) <= e /\ begin(s[i]) <= x /\ x < end(s[i]) /\ x \in Int
    BY <1>0, <1>2, <2>1 DEF Within
  <2> QED
    BY <1>0, <2>2
<1> QED
  BY <1>1, <1>2, <1>3, <1>4

-----------------------------------------------------------------------------
(* interval.                                                               *)

\* The loop of interval goes on to the parent of c.
Climbs(c, max) == parent(c) # 0 /\ begin(parent(c)) = begin(c) /\ end(parent(c)) <= max

\* The functions that Interval(min, max) computes with.
Climb(max) ==
  CHOOSE climb : climb =
    [c \in Cell |->
       LET p == parent(c)
       IN  IF p # 0 /\ begin(p) = begin(c) /\ end(p) <= max THEN climb[p] ELSE c]
IntervalFrom(max) ==
  CHOOSE cover : cover =
    [b \in 0..Limit |->
       IF b >= max THEN <<>>
       ELSE LET c == Climb(max)[singleton(b)] IN <<c>> \o cover[end(c)]]

\* From a cell the loop climbs to one with the same begin, that does not pass max
\* if the first did not, and from which it would not go on.
LEMMA ClimbStops ==
  ASSUME NEW max \in 0..Limit, NEW c \in Cell, end(c) <= max
  PROVE  LET g == Climb(max)[c]
         IN  g \in Cell /\ begin(g) = begin(c) /\ end(g) <= max /\ ~Climbs(g, max)
<1> DEFINE T == [d \in Cell |-> Climbs(d, max)]
           N == [d \in Cell |-> parent(d)]
           G == [d \in Cell |-> [y \in Cell |-> y]]
           V == [d \in Cell |-> d]
           m == [d \in Cell |-> Limit - end(d)]
           Is(f) == f = [d \in Cell |->
                           LET p == parent(d)
                           IN  IF p # 0 /\ begin(p) = begin(d) /\ end(p) <= max THEN f[p] ELSE d]
<1>0. Limit \in Nat /\ max \in Nat
  BY ShiftedPositive
<1>1. \A d \in Cell : Climbs(d, max) => parent(d) \in Cell /\ end(d) < end(parent(d))
  <2> SUFFICES ASSUME NEW d \in Cell, Climbs(d, max) PROVE parent(d) \in Cell /\ end(d) < end(parent(d))
    OBVIOUS
  <2>1. parent(d) # 0 /\ begin(parent(d)) = begin(d)
    BY DEF Climbs
  <2>2. /\ parent(d) \in Cell
        /\ end(parent(d)) - begin(parent(d)) = 2 * (end(d) - begin(d))
    BY <2>1, ParentCell
  <2> QED
    BY <2>1, <2>2, CellBounds
<1>2. PICK f \in [Cell -> Cell] : Solves(f, Cell, T, N, G, V)
  <2>1. Falls(Cell, T, N, m, Limit + 1)
    <3>1. \A d \in Cell : Limit - end(d) \in Nat /\ Limit - end(d) < Limit + 1
      BY <1>0, CellBounds
    <3>2. m \in [Cell -> Nat] /\ \A d \in Cell : m[d] < Limit + 1
      BY <3>1
    <3>3. \A d \in Cell : T[d] => N[d] \in Cell /\ m[N[d]] < m[d]
      <4> SUFFICES ASSUME NEW d \in Cell, Climbs(d, max) PROVE parent(d) \in Cell /\ m[parent(d)] < m[d]
        OBVIOUS
      <4>1. parent(d) \in Cell /\ end(d) < end(parent(d))
        BY <1>1
      <4>2. m[parent(d)] = Limit - end(parent(d)) /\ m[d] = Limit - end(d)
        BY <4>1
      <4> QED
        BY <1>0, <4>1, <4>2, CellBounds
    <3> HIDE DEF T, N, m
    <3> QED
      BY <3>2, <3>3 DEF Falls
  <2>2. G \in [Cell -> [Cell -> Cell]] /\ V \in [Cell -> Cell] /\ Limit + 1 \in Nat
    BY <1>0
  <2> HIDE DEF T, N, G, V, m
  <2> QED
    BY <2>1, <2>2, RecursionExists
<1>3. Is(f)
  <2>1. \A d \in Cell : f[d] = IF Climbs(d, max) THEN f[parent(d)] ELSE d
    <3> SUFFICES ASSUME NEW d \in Cell PROVE f[d] = IF Climbs(d, max) THEN f[parent(d)] ELSE d
      OBVIOUS
    <3>1. f[d] = IF T[d] THEN G[d][f[N[d]]] ELSE V[d]
      BY <1>2 DEF Solves
    <3>2. (T[d] <=> Climbs(d, max)) /\ N[d] = parent(d) /\ V[d] = d /\ \A y \in Cell : G[d][y] = y
      OBVIOUS
    <3> HIDE DEF T, N, V, G
    <3>3. Climbs(d, max) => f[parent(d)] \in Cell
      BY <1>1, <1>2
    <3> QED
      BY <3>1, <3>2, <3>3
  <2>2. f = [d \in Cell |-> f[d]]
    BY <1>2
  <2> QED
    BY <2>1, <2>2 DEF Climbs
<1>4. Is(Climb(max))
  BY <1>3 DEF Climb
<1> DEFINE h == Climb(max)
<1>5. \A d \in Cell : h[d] = IF Climbs(d, max) THEN h[parent(d)] ELSE d
  BY <1>4 DEF Climbs
<1> HIDE DEF h, Is
<1> DEFINE Stops(d, g) == g \in Cell /\ begin(g) = begin(d) /\ end(g) <= max /\ ~Climbs(g, max)
           U == {d \in Cell : end(d) <= max => Stops(d, h[d])}
<1>6. \A d \in Cell : d \in U
  <2>1. ASSUME NEW d \in Cell, \A y \in Cell : m[y] < m[d] => y \in U PROVE d \in U
    <3> SUFFICES ASSUME end(d) <= max PROVE Stops(d, h[d])
      OBVIOUS
    <3>1. CASE Climbs(d, max)
      <4>1. parent(d) \in Cell /\ end(d) < end(parent(d)) /\ begin(parent(d)) = begin(d) /\ end(parent(d)) <= max
        BY <1>1, <3>1 DEF Climbs
      <4>2. m[parent(d)] < m[d]
        BY <1>0, <4>1, CellBounds
      <4>3. Stops(parent(d), h[parent(d)])
        BY <2>1, <4>1, <4>2
      <4>4. h[d] = h[parent(d)]
        BY <1>5, <3>1
      <4> QED
        BY <4>1, <4>3, <4>4
    <3>2. CASE ~Climbs(d, max)
      BY <1>5, <3>2
    <3> QED
      BY <3>1, <3>2
  <2>2. m \in [Cell -> Nat]
    BY <1>0, CellBounds
  <2> HIDE DEF U, m
  <2> QED
    BY <2>1, <2>2, MeasureInduction
<1> QED
  BY <1>6 DEF h

\* A cell in front of cells that start at its end.
LEMMA TilesPrepend ==
  ASSUME NEW c \in Cell, NEW s, NEW e, Tiles(s, end(c), e)
  PROVE  Tiles(<<c>> \o s, begin(c), e)
<1> DEFINE r == <<c>> \o s
<1>0. /\ begin(c) \in Nat /\ end(c) \in Nat /\ begin(c) < end(c) /\ e \in Nat /\ end(c) <= e
      /\ s \in Seq(Cell) /\ Len(s) \in Nat /\ (s = <<>> <=> Len(s) = 0)
  BY CellBounds DEF Tiles
<1>1. /\ r \in Seq(Cell) /\ Len(r) = Len(s) + 1 /\ r # <<>> /\ r[1] = c
      /\ \A i \in 1..Len(s) : r[i + 1] = s[i]
  BY <1>0
<1> HIDE DEF r
<1>2. end(r[Len(r)]) = e
  <2>1. CASE end(c) = e
    <3>1. Len(r) = 1
      BY <1>0, <1>1, <2>1 DEF Tiles
    <3> QED
      BY <1>1, <2>1, <3>1
  <2>2. CASE end(c) < e
    <3>1. Len(s) \in 1..Len(s) /\ end(s[Len(s)]) = e
      BY <1>0, <2>2 DEF Tiles
    <3> QED
      BY <1>1, <3>1
  <2> QED
    BY <1>0, <2>1, <2>2
<1>3. ASSUME NEW i \in 1..Len(r)-1 PROVE end(r[i]) = begin(r[i + 1])
  <2>1. r[i + 1] = s[i] /\ i \in 1..Len(s)
    BY <1>0, <1>1
  <2>2. CASE i = 1
    <3>1. end(c) # e /\ end(c) < e
      BY <1>0, <2>1, <2>2 DEF Tiles
    <3> QED
      BY <1>1, <2>1, <2>2, <3>1 DEF Tiles
  <2>3. CASE i # 1
    <3>1. i - 1 \in 1..Len(s) /\ i - 1 \in 1..Len(s)-1 /\ (i - 1) + 1 = i
      BY <1>0, <1>1, <2>3
    <3>2. r[(i - 1) + 1] = s[i - 1] /\ end(s[i - 1]) = begin(s[(i - 1) + 1])
      BY <1>1, <3>1 DEF Tiles
    <3> QED
      BY <2>1, <3>1, <3>2
  <2> QED
    BY <2>2, <2>3
<1> QED
  BY <1>0, <1>1, <1>2, <1>3 DEF r, Tiles

\* The cells that interval makes tile the interval, none of them climbs on, and there
\* are none when it is empty.
LEMMA IntervalTiles ==
  ASSUME NEW min \in 0..Limit, NEW max \in 0..Limit
  PROVE  /\ min <= max => Tiles(Interval(min, max), min, max)
         /\ max <= min => Interval(min, max) = <<>>
         /\ \A i \in DOMAIN Interval(min, max) : ~Climbs(Interval(min, max)[i], max)
<1> DEFINE S == 0..Limit
           g == [b \in S |-> Climb(max)[singleton(b)]]
           T == [b \in S |-> b < max]
           N == [b \in S |-> end(g[b])]
           G == [b \in S |-> [y \in Seq(Cell) |-> IF b < max THEN <<g[b]>> \o y ELSE y]]
           V == [b \in S |-> <<>>]
           m == [b \in S |-> Limit - b]
           Is(f) == f = [b \in S |->
                           IF b >= max THEN <<>>
                           ELSE LET c == Climb(max)[singleton(b)] IN <<c>> \o f[end(c)]]
<1>0. Limit \in Nat /\ max \in Nat /\ max <= Limit /\ S \subseteq Nat
  BY ShiftedPositive
<1>1. ASSUME NEW b \in S, b < max
      PROVE  /\ g[b] = Climb(max)[singleton(b)]
             /\ g[b] \in Cell /\ begin(g[b]) = b /\ b < end(g[b]) /\ end(g[b]) <= max
             /\ end(g[b]) \in S /\ ~Climbs(g[b], max)
  <2>1. b \in 0..Limit-1
    BY <1>0, <1>1
  <2>2. singleton(b) \in Cell /\ begin(singleton(b)) = b /\ end(singleton(b)) <= max
    BY <1>0, <1>1, <2>1, SingletonCell
  <2>3. g[b] = Climb(max)[singleton(b)]
    OBVIOUS
  <2>4. g[b] \in Cell /\ begin(g[b]) = b /\ end(g[b]) <= max /\ ~Climbs(g[b], max)
    <3> HIDE DEF g
    <3> QED
      BY <2>2, <2>3, ClimbStops
  <2> HIDE DEF g
  <2>5. b < end(g[b]) /\ end(g[b]) \in Nat
    BY <2>4, CellBounds
  <2> QED
    BY <1>0, <2>3, <2>4, <2>5
<1> HIDE DEF g
<1>2. PICK f \in [S -> Seq(Cell)] : Solves(f, S, T, N, G, V)
  <2>1. Falls(S, T, N, m, Limit + 1)
    <3>1. m \in [S -> Nat] /\ \A b \in S : m[b] < Limit + 1
      BY <1>0
    <3>2. \A b \in S : T[b] => N[b] \in S /\ m[N[b]] < m[b]
      <4> SUFFICES ASSUME NEW b \in S, b < max PROVE end(g[b]) \in S /\ m[end(g[b])] < m[b]
        OBVIOUS
      <4> QED
        BY <1>0, <1>1
    <3> HIDE DEF T, N, m
    <3> QED
      BY <3>1, <3>2 DEF Falls
  <2>2. G \in [S -> [Seq(Cell) -> Seq(Cell)]] /\ V \in [S -> Seq(Cell)] /\ Limit + 1 \in Nat
    <3>1. \A b \in S, y \in Seq(Cell) : (IF b < max THEN <<g[b]>> \o y ELSE y) \in Seq(Cell)
      <4> HIDE DEF S
      <4> QED
        BY <1>1
    <3>2. <<>> \in Seq(Cell)
      OBVIOUS
    <3> QED
      BY <1>0, <3>1, <3>2
  <2> HIDE DEF T, N, G, V, m
  <2> QED
    BY <2>1, <2>2, RecursionExists
<1>3. Is(f)
  <2>1. \A b \in S : f[b] = IF b >= max THEN <<>> ELSE <<g[b]>> \o f[end(g[b])]
    <3> SUFFICES ASSUME NEW b \in S PROVE f[b] = IF b >= max THEN <<>> ELSE <<g[b]>> \o f[end(g[b])]
      OBVIOUS
    <3>1. f[b] = IF T[b] THEN G[b][f[N[b]]] ELSE V[b]
      BY <1>2 DEF Solves
    <3>2. (T[b] <=> b < max) /\ N[b] = end(g[b]) /\ V[b] = <<>>
      OBVIOUS
    <3>3. \A y \in Seq(Cell) : b < max => G[b][y] = <<g[b]>> \o y
      OBVIOUS
    <3>4. b < max => f[end(g[b])] \in Seq(Cell)
      <4> HIDE DEF S
      <4> QED
        BY <1>1, <1>2
    <3>5. b \in Nat /\ (b < max <=> ~(b >= max))
      BY <1>0
    <3> HIDE DEF T, N, V, G, S
    <3> QED
      BY <3>1, <3>2, <3>3, <3>4, <3>5
  <2>2. f = [b \in S |-> f[b]]
    BY <1>2
  <2>3. \A b \in S : g[b] = Climb(max)[singleton(b)]
    BY DEF g
  <2> HIDE DEF S
  <2> QED
    BY <2>1, <2>2, <2>3
<1>4. Is(IntervalFrom(max))
  BY <1>3 DEF IntervalFrom
<1> DEFINE h == IntervalFrom(max)
<1>5. \A b \in S : h[b] = IF b >= max THEN <<>> ELSE <<g[b]>> \o h[end(g[b])]
  <2>1. \A b \in S : g[b] = Climb(max)[singleton(b)]
    BY DEF g
  <2> HIDE DEF S
  <2> QED
    BY <1>4, <2>1
<1>6. Interval(min, max) = h[min]
  BY DEF Interval, IntervalFrom, Climb
<1> HIDE DEF h, Is
<1> DEFINE Good(b) == b <= max => /\ Tiles(h[b], b, max)
                                  /\ \A i \in DOMAIN h[b] : ~Climbs(h[b][i], max)
           U == {b \in S : Good(b)}
<1>7. \A b \in S : b \in U
  <2>1. ASSUME NEW b \in S, \A y \in S : m[y] < m[b] => y \in U PROVE b \in U
    <3> SUFFICES ASSUME b <= max PROVE Good(b)
      OBVIOUS
    <3>1. CASE b = max
      <4>1. h[b] = <<>>
        BY <1>0, <1>5, <3>1
      <4> QED
        BY <1>0, <3>1, <4>1 DEF Tiles
    <3>2. CASE b < max
      <4> DEFINE a == end(g[b])
      <4>1. a \in S /\ b < a /\ a <= max /\ g[b] \in Cell /\ begin(g[b]) = b /\ ~Climbs(g[b], max)
        BY <1>1, <3>2
      <4>2. Good(a)
        <5>1. m[a] < m[b]
          BY <1>0, <4>1
        <5> HIDE DEF a, m
        <5> QED
          BY <2>1, <4>1, <5>1
      <4>3. h[b] = <<g[b]>> \o h[a]
        <5>1. ~(b >= max)
          BY <1>0, <3>2
        <5> HIDE DEF S
        <5> QED
          BY <1>5, <5>1
      <4>4. Tiles(h[a], a, max) /\ \A i \in DOMAIN h[a] : ~Climbs(h[a][i], max)
        BY <4>1, <4>2
      <4>5. Tiles(h[b], b, max)
        BY <4>1, <4>3, <4>4, TilesPrepend
      <4>6. ASSUME NEW i \in DOMAIN h[b] PROVE ~Climbs(h[b][i], max)
        <5> HIDE DEF a, S
        <5>1. h[a] \in Seq(Cell)
          BY <4>4 DEF Tiles
        <5>2. i = 1 \/ i - 1 \in DOMAIN h[a]
          BY <4>1, <4>3, <5>1
        <5>3. h[b][i] = IF i = 1 THEN g[b] ELSE h[a][i - 1]
          BY <4>1, <4>3, <4>6, <5>1
        <5> QED
          BY <4>1, <4>4, <5>2, <5>3
      <4> QED
        BY <4>5, <4>6
    <3> QED
      BY <1>0, <3>1, <3>2
  <2>2. m \in [S -> Nat]
    BY <1>0
  <2> HIDE DEF U, m, S
  <2> QED
    BY <2>1, <2>2, MeasureInduction
<1>8. max <= min => h[min] = <<>>
  BY <1>0, <1>5
<1> HIDE DEF Good
<1>9. Good(min)
  BY <1>7
<1>10. CASE min <= max
  BY <1>6, <1>8, <1>9, <1>10 DEF Good
<1>11. CASE max <= min
  <2>1. Interval(min, max) = <<>>
    BY <1>6, <1>8, <1>11
  <2>2. min <= max => Tiles(<<>>, min, max)
    BY <1>0, <1>11 DEF Tiles
  <2> QED
    BY <2>1, <2>2
<1> QED
  BY <1>0, <1>10, <1>11

-----------------------------------------------------------------------------
(* Concatenation and headx.                                                *)

\* The cells of s are in order and lie between b and e.
Between(s, b, e) ==
  Ordered(s) /\ \A i \in DOMAIN s : b <= begin(s[i]) /\ end(s[i]) <= e

\* Ordered cells lie below Limit.
LEMMA OrderedBetween ==
  ASSUME NEW s, Ordered(s)
  PROVE  Between(s, 0, Limit) /\ Elements(s) \subseteq 0..Limit-1
<1>1. \A i \in DOMAIN s : /\ begin(s[i]) \in Nat /\ end(s[i]) \in Nat /\ 0 <= begin(s[i])
                          /\ end(s[i]) <= Limit
  BY CellBounds DEF Ordered
<1>2. Elements(s) \subseteq 0..Limit-1
  BY <1>1, ShiftedPositive DEF Elements, Within
<1> QED
  BY <1>1, <1>2 DEF Between

\* No cells are between any bounds and have no elements.
LEMMA EmptyBetween ==
  ASSUME NEW b, NEW e
  PROVE  Between(<<>>, b, e) /\ Elements(<<>>) = {} /\ Ordered(<<>>)
BY DEF Between, Ordered, Elements

\* The elements of a list between b and e are.
LEMMA BetweenElements ==
  ASSUME NEW b \in Nat, NEW e \in Nat, NEW s, Between(s, b, e)
  PROVE  Elements(s) \subseteq b..e-1
<1>1. \A i \in DOMAIN s : begin(s[i]) \in Nat /\ end(s[i]) \in Nat /\ b <= begin(s[i]) /\ end(s[i]) <= e
  BY CellBounds DEF Between, Ordered
<1> QED
  BY <1>1 DEF Elements, Within

\* Lists that lie one behind the other make one list, with the elements of both.
LEMMA BetweenConcat ==
  ASSUME NEW b \in Nat, NEW m \in Nat, NEW k \in Nat, NEW e \in Nat, b <= k, m <= k, m <= e,
         NEW s, Between(s, b, m), NEW t, Between(t, k, e)
  PROVE  Between(s \o t, b, e) /\ Elements(s \o t) = Elements(s) \cup Elements(t)
<1> DEFINE r == s \o t
<1>0. /\ s \in Seq(Cell) /\ t \in Seq(Cell) /\ Len(s) \in Nat /\ Len(t) \in Nat
      /\ DOMAIN s = 1..Len(s) /\ DOMAIN t = 1..Len(t)
      /\ \A i \in DOMAIN s : begin(s[i]) \in Nat /\ end(s[i]) \in Nat /\ b <= begin(s[i]) /\ end(s[i]) <= m
      /\ \A i \in DOMAIN t : begin(t[i]) \in Nat /\ end(t[i]) \in Nat /\ k <= begin(t[i]) /\ end(t[i]) <= e
  BY CellBounds DEF Between, Ordered
<1>1. /\ r \in Seq(Cell) /\ Len(r) = Len(s) + Len(t) /\ DOMAIN r = 1..Len(s) + Len(t)
      /\ \A i \in 1..Len(s) : r[i] = s[i]
      /\ \A i \in 1..Len(t) : r[Len(s) + i] = t[i]
  BY <1>0
<1> HIDE DEF r
<1>2. \A i \in DOMAIN r : i \in DOMAIN s \/ \E j \in DOMAIN t : i = Len(s) + j
  <2> SUFFICES ASSUME NEW i \in DOMAIN r, i \notin DOMAIN s PROVE \E j \in DOMAIN t : i = Len(s) + j
    OBVIOUS
  <2>1. i - Len(s) \in DOMAIN t /\ i = Len(s) + (i - Len(s))
    BY <1>0, <1>1
  <2> QED
    BY <2>1
<1>3. ASSUME NEW i \in DOMAIN r PROVE b <= begin(r[i]) /\ end(r[i]) <= e
  <2>1. CASE i \in DOMAIN s
    BY <1>0, <1>1, <2>1
  <2>2. CASE \E j \in DOMAIN t : i = Len(s) + j
    BY <1>0, <1>1, <2>2
  <2> QED
    BY <1>2, <2>1, <2>2
<1>4. ASSUME NEW i \in 1..Len(r)-1 PROVE end(r[i]) <= begin(r[i + 1])
  <2>1. CASE i < Len(s)
    <3>1. i \in 1..Len(s)-1 /\ i \in 1..Len(s) /\ i + 1 \in 1..Len(s)
      BY <1>0, <2>1
    <3> QED
      BY <1>1, <3>1 DEF Between, Ordered
  <2>2. CASE i = Len(s)
    <3>1. i \in DOMAIN s /\ 1 \in DOMAIN t
      BY <1>0, <1>1, <2>2
    <3>2. r[i] = s[i] /\ r[i + 1] = t[1]
      BY <1>0, <1>1, <2>2, <3>1
    <3> QED
      BY <1>0, <3>1, <3>2, SMTT(60)
  <2>3. CASE i > Len(s)
    <3>1. PICK j \in 1..Len(t)-1 : i = Len(s) + j
      <4>1. i - Len(s) \in 1..Len(t)-1 /\ i = Len(s) + (i - Len(s))
        BY <1>0, <1>1, <2>3
      <4> QED
        BY <4>1
    <3>2. j \in 1..Len(t) /\ j + 1 \in 1..Len(t) /\ i + 1 = Len(s) + (j + 1)
      BY <1>0, <3>1
    <3>3. r[i] = t[j] /\ r[i + 1] = t[j + 1]
      BY <1>1, <3>1, <3>2
    <3>4. end(t[j]) <= begin(t[j + 1])
      BY <3>1 DEF Between, Ordered
    <3> QED
      BY <3>3, <3>4
  <2> QED
    BY <1>0, <1>1, <2>1, <2>2, <2>3
<1>5. Between(r, b, e)
  BY <1>1, <1>3, <1>4 DEF Between, Ordered
<1>6. Elements(r) = Elements(s) \cup Elements(t)
  <2>1. ASSUME NEW x \in Elements(r) PROVE x \in Elements(s) \cup Elements(t)
    <3>1. PICK i \in DOMAIN r : x \in Within(r[i])
      BY DEF Elements
    <3>2. CASE i \in DOMAIN s
      BY <1>0, <1>1, <3>1, <3>2 DEF Elements
    <3>3. CASE \E j \in DOMAIN t : i = Len(s) + j
      <4>1. PICK j \in DOMAIN t : i = Len(s) + j
        BY <3>3
      <4>2. r[i] = t[j]
        BY <1>0, <1>1, <4>1
      <4> QED
        BY <3>1, <4>2 DEF Elements
    <3> QED
      BY <1>2, <3>2, <3>3
  <2>2. ASSUME NEW x \in Elements(s) PROVE x \in Elements(r)
    <3>1. PICK i \in DOMAIN s : x \in Within(s[i])
      BY DEF Elements
    <3>2. i \in DOMAIN r /\ r[i] = s[i]
      BY <1>0, <1>1
    <3> QED
      BY <3>1, <3>2 DEF Elements
  <2>3. ASSUME NEW x \in Elements(t) PROVE x \in Elements(r)
    <3>1. PICK i \in DOMAIN t : x \in Within(t[i])
      BY DEF Elements
    <3>2. Len(s) + i \in DOMAIN r /\ r[Len(s) + i] = t[i]
      BY <1>0, <1>1
    <3> QED
      BY <3>1, <3>2 DEF Elements
  <2> QED
    BY <2>1, <2>2, <2>3
<1> QED
  BY <1>5, <1>6 DEF r

\* headx splits a list into cells that tile its first interval and a rest that
\* starts behind a gap.
LEMMA HeadxSplits ==
  ASSUME NEW s, Ordered(s), s # <<>>
  PROVE  LET h == headx(s)
         IN  /\ h \in [head : Seq(Cell), rest : Seq(Cell), b : Nat, e : Nat]
             /\ h.b < h.e /\ h.e <= Limit /\ h.b = begin(s[1])
             /\ Tiles(h.head, h.b, h.e) /\ Between(h.rest, h.e + 1, Limit)
             /\ s = h.head \o h.rest
             /\ Elements(s) = (h.b..h.e-1) \cup Elements(h.rest)
<1> DEFINE U == {k \in DOMAIN s : k = Len(s) \/ end(s[k]) # begin(s[k + 1])}
<1>0. /\ s \in Seq(Cell) /\ DOMAIN s = 1..Len(s) /\ Len(s) \in Nat \ {0}
      /\ \A k \in DOMAIN s : /\ s[k] \in Cell /\ begin(s[k]) \in Nat /\ end(s[k]) \in Nat
                             /\ begin(s[k]) < end(s[k]) /\ end(s[k]) <= Limit
      /\ Limit \in Nat
  BY CellBounds, ShiftedPositive DEF Ordered
<1>1. PICK i : i \in U /\ (\A k \in U : i <= k) /\ Min(U) = i
  <2>1. U \in SUBSET Nat /\ Len(s) \in U
    BY <1>0
  <2> HIDE DEF U
  <2>2. \E x \in U : \A y \in U : x <= y
    BY <2>1, LeastNat
  <2> QED
    BY <2>2 DEF Min
<1> DEFINE h == SubSeq(s, 1, i)
           r == SubSeq(s, i + 1, Len(s))
<1>2. headx(s) = [head |-> h, rest |-> r, b |-> begin(s[1]), e |-> end(s[i])]
  <2>1. headx(s) = [head |-> SubSeq(s, 1, Min(U)), rest |-> SubSeq(s, Min(U) + 1, Len(s)),
                    b |-> begin(s[1]), e |-> end(s[Min(U)])]
    BY DEF headx
  <2> HIDE DEF U
  <2> QED
    BY <1>1, <2>1
<1>i. i \in 1..Len(s) /\ Len(s) \in Nat /\ i \in Nat
  BY <1>0, <1>1
<1> HIDE DEF U
<1>3. i \in 1..Len(s) /\ \A k \in 1..i-1 : end(s[k]) = begin(s[k + 1])
  <2>1. DOMAIN s = 1..Len(s)
    BY <1>0
  <2>2. ASSUME NEW k \in 1..i-1 PROVE end(s[k]) = begin(s[k + 1])
    <3>1. k \in DOMAIN s /\ k < Len(s) /\ ~(i <= k) /\ k \in Nat
      BY <1>i, <2>1
    <3>2. k \notin U
      BY <1>1, <3>1
    <3> QED
      BY <1>i, <3>1, <3>2 DEF U
  <2> QED
    BY <1>i, <2>2
<1>4. /\ h \in Seq(Cell) /\ Len(h) = i /\ \A k \in 1..i : h[k] = s[k]
  BY <1>0, <1>3
<1>5. /\ r \in Seq(Cell) /\ Len(r) = Len(s) - i /\ \A k \in 1..Len(s)-i : r[k] = s[i + k]
  <2>1. i + 1 \in Int /\ Len(s) \in Int /\ \A k \in i+1..Len(s) : s[k] \in Cell
    BY <1>0, <1>3
  <2>2. /\ r \in Seq(Cell) /\ Len(r) = IF i + 1 <= Len(s) THEN Len(s) - (i + 1) + 1 ELSE 0
        /\ \A k \in 1..Len(s)-(i+1)+1 : r[k] = s[(i + 1) + k - 1]
    BY <2>1, SubSeqProperties
  <2>3. Len(s) - (i + 1) + 1 = Len(s) - i /\ \A k \in 1..Len(s)-i : (i + 1) + k - 1 = i + k
    BY <1>i
  <2> HIDE DEF r
  <2>4. Len(r) = Len(s) - i
    <3>1. CASE i < Len(s)
      <4>1. i + 1 <= Len(s)
        BY <1>i, <3>1
      <4> QED
        BY <2>2, <2>3, <4>1
    <3>2. CASE i = Len(s)
      <4>1. ~(i + 1 <= Len(s)) /\ Len(s) - i = 0
        BY <1>i, <3>2
      <4> QED
        BY <2>2, <4>1
    <3> QED
      BY <1>i, <3>1, <3>2
  <2>5. \A k \in 1..Len(s)-i : r[k] = s[i + k]
    <3> TAKE k \in 1..Len(s)-i
    <3>1. k \in 1..Len(s)-(i+1)+1 /\ (i + 1) + k - 1 = i + k
      BY <2>3
    <3>2. r[k] = s[(i + 1) + k - 1]
      BY <2>2, <3>1
    <3> QED
      BY <3>1, <3>2
  <2> QED
    BY <2>2, <2>4, <2>5
<1>6. s = h \o r
  <2>1. h \o r \in Seq(Cell) /\ Len(h \o r) = Len(s)
    <3> HIDE DEF h, r
    <3>1. Len(s) = i + (Len(s) - i)
      BY <1>i
    <3> QED
      BY <1>4, <1>5, <3>1
  <2>2. \A k \in 1..Len(s) : (h \o r)[k] = s[k]
    <3> HIDE DEF h, r
    <3> TAKE k \in 1..Len(s)
    <3>1. CASE k <= i
      BY <1>0, <1>3, <1>4, <1>5, <3>1
    <3>2. CASE i < k
      <4>1. k - Len(h) \in 1..Len(r) /\ (h \o r)[k] = r[k - Len(h)]
        BY <1>0, <1>3, <1>4, <1>5, <3>2
      <4>2. k - i \in 1..Len(s)-i /\ i + (k - i) = k
        BY <1>0, <1>3, <3>2
      <4> QED
        BY <1>4, <1>5, <4>1, <4>2
    <3>3. k <= i \/ i < k
      BY <1>i
    <3> QED
      BY <3>1, <3>2, <3>3
  <2> DEFINE hr == h \o r
  <2> HIDE DEF hr
  <2>3. hr = s
    BY <1>0, <2>1, <2>2, SeqEqual DEF hr
  <2> QED
    BY <2>3 DEF hr
<1> HIDE DEF h, r
<1>7. begin(s[1]) < end(s[i]) /\ end(s[i]) <= Limit
  <2>1. 1 \in DOMAIN s /\ i \in DOMAIN s
    BY <1>0, <1>3
  <2>2. 1 < i => end(s[1]) <= begin(s[i])
    BY <2>1, OrderedApart
  <2> QED
    BY <1>0, <1>3, <2>1, <2>2
<1>8. Tiles(h, begin(s[1]), end(s[i]))
  <2>1. \A k \in 1..i-1 : k \in 1..i /\ k + 1 \in 1..i
    BY <1>3
  <2>2. h # <<>> /\ 1 \in 1..i /\ i \in 1..i /\ 1 \in DOMAIN s /\ i \in DOMAIN s
    BY <1>0, <1>3, <1>4
  <2> QED
    BY <1>0, <1>3, <1>4, <1>7, <2>1, <2>2 DEF Tiles
<1>9. Between(r, end(s[i]) + 1, Limit)
  <2>1. ASSUME NEW k \in 1..Len(s)-i PROVE end(s[i]) < begin(s[i + k]) /\ i + k \in DOMAIN s
    <3>1. i < Len(s) /\ i + 1 \in DOMAIN s /\ i \in DOMAIN s /\ i + k \in DOMAIN s /\ i \in 1..Len(s)-1
      BY <1>0, <1>3
    <3>2. end(s[i]) # begin(s[i + 1])
      BY <1>1, <3>1 DEF U
    <3>3. end(s[i]) < begin(s[i + 1])
      BY <1>0, <3>1, <3>2 DEF Ordered
    <3>4. i + 1 < i + k => end(s[i + 1]) <= begin(s[i + k])
      BY <3>1, OrderedApart
    <3>5. k = 1 \/ i + 1 < i + k
      BY <1>3
    <3> QED
      BY <1>0, <3>1, <3>3, <3>4, <3>5
  <2>2. ASSUME NEW k \in 1..Len(r)-1 PROVE end(r[k]) <= begin(r[k + 1])
    <3>1. /\ i + k \in 1..Len(s)-1 /\ k \in 1..Len(s)-i /\ k + 1 \in 1..Len(s)-i
          /\ i + (k + 1) = (i + k) + 1
      BY <1>0, <1>3, <1>5
    <3> QED
      BY <1>5, <3>1 DEF Ordered
  <2>3. ASSUME NEW k \in DOMAIN r PROVE end(s[i]) + 1 <= begin(r[k]) /\ end(r[k]) <= Limit
    <3>1. k \in 1..Len(s)-i /\ i \in DOMAIN s
      BY <1>0, <1>3, <1>5
    <3> QED
      BY <1>0, <1>5, <2>1, <3>1
  <2> QED
    BY <1>5, <2>2, <2>3 DEF Between, Ordered
<1>10. Elements(s) = (begin(s[1])..end(s[i])-1) \cup Elements(r)
  <2>1. begin(s[1]) \in Nat /\ end(s[i]) \in Nat /\ end(s[i]) + 1 \in Nat
    BY <1>0, <1>3
  <2>2. Between(h, begin(s[1]), end(s[i])) /\ Elements(h) = begin(s[1])..end(s[i])-1
    BY <1>8, TilesElements DEF Between
  <2>3. Elements(h \o r) = Elements(h) \cup Elements(r)
    BY <1>0, <1>7, <1>9, <2>1, <2>2, BetweenConcat
  <2> QED
    BY <1>6, <2>2, <2>3
<1>11. begin(s[1]) \in Nat /\ end(s[i]) \in Nat
  BY <1>0, <1>3
<1> DEFINE x == headx(s)
<1> HIDE DEF x
<1>12. /\ x.head = h /\ x.rest = r /\ x.b = begin(s[1]) /\ x.e = end(s[i])
       /\ x \in [head : Seq(Cell), rest : Seq(Cell), b : Nat, e : Nat]
  BY <1>2, <1>4, <1>5, <1>11 DEF x
<1> QED
  BY <1>6, <1>7, <1>8, <1>9, <1>10, <1>12 DEF x

-----------------------------------------------------------------------------
(* Largest cells: what makes the form of a set unique.                     *)

\* No cell of s could be replaced by its parent.
Maximal(s) ==
  \A i \in DOMAIN s : s[i] # unity => ~(Within(parent(s[i])) \subseteq Elements(s))

LEMMA EmptyMaximal == Maximal(<<>>)
  BY DEF Maximal

\* d lies in c.
Inside(d, c) == begin(c) <= begin(d) /\ end(d) <= end(c)

\* A cell is named by its bounds.
LEMMA CellNamed ==
  ASSUME NEW c \in Cell
  PROVE  c = begin(c) + end(c) /\ (c = unity <=> begin(c) = 0 /\ end(c) = Limit)
<1>1. PICK b, l : IsCell(c, b, l)
  BY CellIs
<1>2. begin(c) = b /\ end(c) = b + shifted[l] /\ c = 2 * b + shifted[l] /\ b \in Nat
  BY <1>1, CellShape DEF IsCell
<1>3. shifted[l] \in Nat /\ Limit \in Nat \ {0} /\ unity = Limit
  BY <1>1, ShiftedPositive DEF IsCell, unity
<1>4. c = begin(c) + end(c)
  BY <1>2, <1>3
<1>5. c = unity => begin(c) = 0 /\ end(c) = Limit
  <2>1. IsCell(unity, 0, Bits)
    BY <1>3, ShiftedPositive, MultipleClosed DEF IsCell, unity
  <2> QED
    BY <1>3, <2>1, ShiftedPositive, CellShape
<1> QED
  BY <1>3, <1>4, <1>5

\* Of two cells that are not apart the larger contains the other, and its parent if
\* it is not the same.
LEMMA CellsNest ==
  ASSUME NEW c, NEW b, NEW l, IsCell(c, b, l), NEW d, NEW a, NEW k, IsCell(d, a, k),
         k <= l, a < b + shifted[l], b < a + shifted[k]
  PROVE  Inside(d, c) /\ (k < l => d # unity /\ parent(d) \in Cell /\ Inside(parent(d), c))
<1> DEFINE p == shifted[l]
           q == shifted[k]
<1>0. /\ l \in 0..Bits /\ k \in 0..Bits /\ p \in Nat \ {0} /\ q \in Nat \ {0} /\ Bits \in Nat
      /\ a \in Nat /\ b \in Nat /\ Multiple(b, p) /\ Multiple(a, q)
      /\ begin(c) = b /\ end(c) = b + p /\ begin(d) = a /\ end(d) = a + q
      /\ b + p \in Nat /\ a + q \in Nat
  BY CellShape, ShiftedPositive DEF IsCell
<1>1. CASE k = l
  <2>1. q = p /\ a < b + p /\ b < a + p
    BY <1>1
  <2> HIDE DEF p, q
  <2>2. ~(a < b) /\ ~(b < a)
    BY <1>0, <2>1, MultipleGap
  <2>3. a = b
    BY <1>0, <2>2
  <2> QED
    BY <1>0, <1>1, <2>1, <2>3 DEF Inside
<1>2. CASE k < l
  <2> DEFINE m == 2 * q
  <2>1. Multiple(p, m) /\ m \in Nat \ {0}
    BY <1>0, <1>2, ShiftedMultiples
  <2> HIDE DEF p, q
  <2>2. Multiple(m, q)
    BY <1>0 DEF Multiple
  <2> HIDE DEF m
  <2>3. Multiple(b, m) /\ Multiple(b + p, m)
    BY <1>0, <2>1, MultipleOfMultiple, MultipleClosed
  <2>4. Multiple(b, q) /\ Multiple(b + p, q)
    BY <1>0, <2>1, <2>2, <2>3, MultipleOfMultiple
  <2>5. b <= a
    <3>1. ~(a < b)
      BY <1>0, <2>4, MultipleGap DEF q
    <3> QED
      BY <1>0, <3>1
  <2>6. a + q <= b + p
    BY <1>0, <2>4, MultipleGap DEF p
  <2>7. l \in Nat /\ k \in Nat /\ k < Bits /\ d # unity
    <3>1. k < Bits
      BY <1>0, <1>2
    <3>2. d \in Cell /\ end(d) <= b + p /\ b + p <= Limit /\ Limit \in Nat
      BY <1>0, <2>6, CellShape, ShiftedPositive DEF IsCell, p
    <3>3. q < p
      BY <1>0, <1>2, ShiftedMultiples DEF p, q
    <3>4. d # unity
      BY <1>0, <2>6, <3>2, <3>3, CellNamed
    <3> QED
      BY <1>0, <3>1, <3>4
  <2>8. PICK g \in Nat : /\ IsCell(parent(d), g, k + 1)
                         /\ (Multiple(a, m) /\ g = a) \/ (~Multiple(a, m) /\ q <= a /\ g = a - q)
    <3>1. CASE Multiple(a, m)
      BY <1>0, <2>7, <3>1, CellFamily DEF m, q
    <3>2. CASE ~Multiple(a, m)
      <4>1. q <= a /\ IsCell(parent(d), a - q, k + 1)
        BY <1>0, <2>7, <3>2, CellFamily DEF m, q
      <4>2. a - q \in Nat
        BY <1>0, <4>1
      <4> QED
        BY <3>2, <4>1, <4>2
    <3> QED
      BY <3>1, <3>2
  <2>9. parent(d) \in Cell /\ begin(parent(d)) = g /\ end(parent(d)) = g + m
    <3>1. shifted[k + 1] = m
      BY <1>0, <2>7, ShiftedRecursion DEF m, q
    <3> QED
      BY <2>8, <3>1, CellShape
  <2>10. b <= g /\ g + m <= b + p
    <3>0. m = q + q
      BY <1>0 DEF m
    <3>1. CASE Multiple(a, m) /\ g = a
      <4>1. a < b + p
        BY DEF p
      <4>2. a + m <= b + p
        BY <1>0, <2>1, <2>3, <3>1, <4>1, MultipleGap
      <4> QED
        BY <2>5, <3>1, <4>2
    <3>2. CASE ~Multiple(a, m) /\ q <= a /\ g = a - q
      <4>1. b # a
        BY <2>3, <3>2
      <4>2. b < a
        BY <1>0, <2>5, <4>1
      <4>3. b + q <= a
        BY <1>0, <2>4, <4>2, MultipleGap
      <4> QED
        BY <1>0, <2>6, <3>0, <3>2, <4>3
    <3> QED
      BY <2>8, <3>1, <3>2
  <2> QED
    BY <1>0, <2>5, <2>6, <2>7, <2>9, <2>10 DEF Inside
<1> QED
  BY <1>0, <1>1, <1>2

\* Two cells with an element in common.
LEMMA Laminar ==
  ASSUME NEW c \in Cell, NEW d \in Cell, begin(d) < end(c), begin(c) < end(d)
  PROVE  /\ Inside(c, d) \/ Inside(d, c)
         /\ Inside(d, c) /\ d # c => d # unity /\ parent(d) \in Cell /\ Inside(parent(d), c)
<1>1. PICK b, l : IsCell(c, b, l)
  BY CellIs
<1>2. PICK a, k : IsCell(d, a, k)
  BY CellIs
<1>3. /\ l \in Nat /\ k \in Nat /\ a < b + shifted[l] /\ b < a + shifted[k]
      /\ begin(c) \in Nat /\ end(c) \in Nat /\ begin(d) \in Nat /\ end(d) \in Nat
  BY <1>1, <1>2, BitsAssumption, CellShape, CellBounds DEF IsCell
<1>4. k <= l => Inside(d, c) /\ (k < l => d # unity /\ parent(d) \in Cell /\ Inside(parent(d), c))
  BY <1>1, <1>2, <1>3, CellsNest
<1>5. l <= k => Inside(c, d)
  BY <1>1, <1>2, <1>3, CellsNest
<1>6. Inside(c, d) /\ Inside(d, c) => c = d
  <2>1. Inside(c, d) /\ Inside(d, c) => begin(c) = begin(d) /\ end(c) = end(d)
    BY <1>3 DEF Inside
  <2> QED
    BY <2>1, CellNamed
<1> QED
  BY <1>3, <1>4, <1>5, <1>6

\* A cell and its sibling are the halves of their parent.
LEMMA Siblings ==
  ASSUME NEW c \in Cell, c # unity
  PROVE  /\ parent(c) \in Cell /\ sibling(c) \in Cell /\ sibling(sibling(c)) = c
         /\ \/ /\ begin(parent(c)) = begin(c) /\ end(c) = begin(sibling(c))
               /\ end(sibling(c)) = end(parent(c))
            \/ /\ begin(parent(c)) = begin(sibling(c)) /\ end(sibling(c)) = begin(c)
               /\ end(c) = end(parent(c))
<1>1. PICK b, l : IsCell(c, b, l)
  BY CellIs
<1> DEFINE p == shifted[l]
           m == 2 * p
<1>2. /\ l \in 0..Bits /\ Bits \in Nat /\ b \in Nat /\ p \in Nat \ {0} /\ Multiple(b, p)
      /\ begin(c) = b /\ end(c) = b + p
  BY <1>1, CellShape, ShiftedPositive DEF IsCell
<1>3. l < Bits
  <2>1. CASE l = Bits
    <3>1. b = 0 /\ p = Limit /\ Limit \in Nat
      BY <1>1, <2>1, CellFamily, ShiftedPositive
    <3>2. begin(c) = 0 /\ end(c) = Limit
      BY <1>2, <3>1
    <3> QED
      BY <3>2, CellNamed
  <2> QED
    BY <1>2, <2>1
<1>4. shifted[l + 1] = m /\ m = p + p
  BY <1>2, <1>3, ShiftedRecursion
<1> HIDE DEF p, m
<1>5. CASE Multiple(b, m)
  <2>1. IsCell(parent(c), b, l + 1) /\ IsCell(sibling(c), b + p, l)
    BY <1>1, <1>3, <1>5, CellFamily DEF p, m
  <2>2. ~Multiple(b + p, m)
    <3>1. Multiple(b + p, p)
      BY <1>2, MultipleClosed
    <3>2. p <= b + p /\ (b + p) - p = b /\ b + p \in Nat
      BY <1>2
    <3> QED
      BY <1>2, <1>5, <3>1, <3>2, MultipleHalves DEF m
  <2>3. IsCell(sibling(sibling(c)), (b + p) - p, l)
    BY <1>3, <2>1, <2>2, CellFamily DEF p, m
  <2>4. sibling(sibling(c)) \in Cell /\ begin(sibling(sibling(c))) = b /\ end(sibling(sibling(c))) = b + p
    <3>1. (b + p) - p = b
      BY <1>2
    <3> QED
      BY <2>3, <3>1, CellShape DEF p
  <2>5. sibling(sibling(c)) = c
    BY <1>2, <2>4, CellNamed
  <2>6. /\ parent(c) \in Cell /\ begin(parent(c)) = b /\ end(parent(c)) = b + m
        /\ sibling(c) \in Cell /\ begin(sibling(c)) = b + p /\ end(sibling(c)) = b + p + p
    BY <1>4, <2>1, CellShape DEF p
  <2> QED
    BY <1>2, <1>4, <2>5, <2>6
<1>6. CASE ~Multiple(b, m)
  <2>1. p <= b /\ IsCell(parent(c), b - p, l + 1) /\ IsCell(sibling(c), b - p, l)
    BY <1>1, <1>3, <1>6, CellFamily DEF p, m
  <2>2. Multiple(b - p, m)
    BY <1>2, <1>6, MultipleHalves DEF m
  <2>3. IsCell(sibling(sibling(c)), (b - p) + p, l)
    BY <1>3, <2>1, <2>2, CellFamily DEF p, m
  <2>4. sibling(sibling(c)) \in Cell /\ begin(sibling(sibling(c))) = b /\ end(sibling(sibling(c))) = b + p
    <3>1. (b - p) + p = b
      BY <1>2
    <3> QED
      BY <2>3, <3>1, CellShape DEF p
  <2>5. sibling(sibling(c)) = c
    BY <1>2, <2>4, CellNamed
  <2>6. /\ parent(c) \in Cell /\ begin(parent(c)) = b - p /\ end(parent(c)) = (b - p) + m
        /\ sibling(c) \in Cell /\ begin(sibling(c)) = b - p /\ end(sibling(c)) = (b - p) + p
    BY <1>4, <2>1, CellShape DEF p
  <2>7. (b - p) + m = b + p /\ (b - p) + p = b
    BY <1>2, <1>4
  <2> QED
    BY <1>2, <2>5, <2>6, <2>7
<1> QED
  BY <1>5, <1>6

\* What lies in a cell are elements of it.
LEMMA InsideWithin ==
  ASSUME NEW c \in Cell, NEW d \in Cell, Inside(d, c)
  PROVE  Within(d) \subseteq Within(c)
  BY CellBounds DEF Inside, Within

\* Of a list that ends before b and one from b on, with largest cells, the parent of no
\* cell spans the gap.
LEMMA JoinMaximal ==
  ASSUME NEW s, Ordered(s), NEW b \in Nat, \A i \in DOMAIN s : end(s[i]) < b,
         NEW e \in Nat, NEW t, Between(t, b, e), Maximal(s), Maximal(t)
  PROVE  Maximal(s \o t)
<1> DEFINE r == s \o t
           S == Elements(s)
           T == Elements(t)
<1>0. /\ s \in Seq(Cell) /\ t \in Seq(Cell) /\ Len(s) \in Nat /\ Len(t) \in Nat
      /\ DOMAIN s = 1..Len(s) /\ DOMAIN t = 1..Len(t)
      /\ \A i \in DOMAIN s : /\ s[i] \in Cell /\ begin(s[i]) \in Nat /\ end(s[i]) \in Nat
                             /\ begin(s[i]) < end(s[i])
      /\ \A i \in DOMAIN t : /\ t[i] \in Cell /\ begin(t[i]) \in Nat /\ end(t[i]) \in Nat
                             /\ begin(t[i]) < end(t[i]) /\ b <= begin(t[i]) /\ end(t[i]) <= e
  BY CellBounds DEF Between, Ordered
<1>1. Elements(r) = S \cup T
  <2>1. Between(s, 0, b)
    <3>1. \A i \in DOMAIN s : 0 <= begin(s[i]) /\ end(s[i]) <= b
      BY <1>0
    <3> QED
      BY <3>1 DEF Between
  <2>2. CASE b <= e
    BY <2>1, <2>2, BetweenConcat
  <2>3. CASE ~(b <= e)
    <3>1. t = <<>>
      <4>1. \A i \in DOMAIN t : FALSE
        BY <1>0, <2>3
      <4> QED
        BY <1>0, <4>1
    <3>2. r = s /\ T = {}
      BY <1>0, <3>1, EmptyBetween
    <3> QED
      BY <3>2
  <2> QED
    BY <2>2, <2>3
<1>2. /\ \A x \in S : x \in Int /\ x + 1 < b
      /\ \A x \in T : x \in Int /\ b <= x
  <2>1. ASSUME NEW x \in S PROVE x \in Int /\ x + 1 < b
    <3>1. PICK i \in DOMAIN s : x \in begin(s[i])..end(s[i])-1
      BY DEF Elements, Within
    <3> QED
      BY <1>0, <3>1
  <2>2. ASSUME NEW x \in T PROVE x \in Int /\ b <= x
    <3>1. PICK i \in DOMAIN t : x \in begin(t[i])..end(t[i])-1
      BY DEF Elements, Within
    <3> QED
      BY <1>0, <3>1
  <2> QED
    BY <2>1, <2>2
<1>3. ASSUME NEW c \in Cell, c # unity, Within(parent(c)) \subseteq S \cup T
      PROVE  /\ begin(c) \in S => Within(parent(c)) \subseteq S
             /\ begin(c) \in T => Within(parent(c)) \subseteq T
  <2> DEFINE W == begin(parent(c))..end(parent(c))-1
  <2>1. /\ parent(c) \in Cell /\ begin(parent(c)) <= begin(c) /\ begin(c) < end(parent(c))
        /\ begin(c) \in Nat /\ begin(parent(c)) \in Nat /\ end(parent(c)) \in Nat
    <3>1. parent(c) \in Cell /\ sibling(c) \in Cell
      BY <1>3, Siblings
    <3>2. /\ begin(c) \in Nat /\ end(c) \in Nat /\ begin(c) < end(c)
          /\ begin(parent(c)) \in Nat /\ end(parent(c)) \in Nat
          /\ begin(sibling(c)) \in Nat /\ end(sibling(c)) \in Nat
          /\ begin(sibling(c)) < end(sibling(c))
      BY <3>1, CellBounds
    <3> QED
      BY <1>3, <3>1, <3>2, Siblings
  <2>2. W \subseteq S \cup T
    BY <1>3 DEF Within
  <2> HIDE DEF S, T
  <2>3. b - 1 \notin S \cup T
    BY <1>2
  <2>4. \A x \in W : x # b - 1
    BY <2>2, <2>3
  <2>5. ASSUME begin(c) \in S PROVE W \subseteq S
    <3>1. begin(c) < b - 1
      BY <1>2, <2>1, <2>5
    <3>2. end(parent(c)) <= b - 1
      BY <2>1, <2>4, <3>1
    <3>3. \A x \in W : x \notin T
      BY <1>2, <2>1, <3>2
    <3> QED
      BY <2>2, <3>3
  <2>6. ASSUME begin(c) \in T PROVE W \subseteq T
    <3>1. b <= begin(c)
      BY <1>2, <2>6
    <3>2. b - 1 < begin(parent(c))
      BY <2>1, <2>4, <3>1
    <3>3. \A x \in W : x \notin S
      BY <1>2, <2>1, <3>2
    <3> QED
      BY <2>2, <3>3
  <2> QED
    BY <2>5, <2>6 DEF Within
<1>4. /\ Len(r) = Len(s) + Len(t) /\ DOMAIN r = 1..Len(s) + Len(t)
      /\ \A i \in 1..Len(s) : r[i] = s[i]
      /\ \A i \in 1..Len(t) : r[Len(s) + i] = t[i]
  BY <1>0
<1> HIDE DEF r
<1>5. ASSUME NEW i \in DOMAIN r, r[i] # unity, Within(parent(r[i])) \subseteq Elements(r)
      PROVE  FALSE
  <2>1. CASE i \in 1..Len(s)
    <3>1. r[i] = s[i] /\ s[i] \in Cell /\ s[i] # unity
      BY <1>0, <1>4, <1>5, <2>1
    <3>2. begin(s[i]) \in Within(s[i]) /\ i \in DOMAIN s
      BY <1>0, <2>1 DEF Within
    <3>3. begin(s[i]) \in S
      BY <3>2 DEF Elements
    <3>4. Within(parent(s[i])) \subseteq S
      BY <1>1, <1>3, <1>5, <3>1, <3>3
    <3> QED
      BY <3>1, <3>2, <3>4 DEF Maximal
  <2>2. CASE i \notin 1..Len(s)
    <3>1. PICK j \in 1..Len(t) : i = Len(s) + j
      <4>1. i - Len(s) \in 1..Len(t) /\ i = Len(s) + (i - Len(s))
        BY <1>0, <1>4, <2>2
      <4> QED
        BY <4>1
    <3>2. r[i] = t[j] /\ t[j] \in Cell /\ t[j] # unity
      BY <1>0, <1>4, <1>5, <3>1
    <3>3. begin(t[j]) \in Within(t[j]) /\ j \in DOMAIN t
      BY <1>0 DEF Within
    <3>4. begin(t[j]) \in T
      BY <3>3 DEF Elements
    <3>5. Within(parent(t[j])) \subseteq T
      BY <1>1, <1>3, <1>5, <3>2, <3>4
    <3> QED
      BY <3>2, <3>3, <3>5 DEF Maximal
  <2> QED
    BY <2>1, <2>2
<1> QED
  BY <1>5 DEF Maximal, r

\* So is a list with fewer elements of the same cells.
LEMMA PartMaximal ==
  ASSUME NEW s, Maximal(s), NEW t, Elements(t) \subseteq Elements(s),
         \A i \in DOMAIN t : \E j \in DOMAIN s : t[i] = s[j]
  PROVE  Maximal(t)
  BY DEF Maximal

\* No cell that interval returns could be replaced by its parent: the one at the
\* parent's begin would have been chosen larger.
LEMMA IntervalMaximal ==
  ASSUME NEW min \in 0..Limit, NEW max \in 0..Limit
  PROVE  Maximal(Interval(min, max))
<1> DEFINE s == Interval(min, max)
<1>0. min \in Nat /\ max \in Nat /\ Limit \in Nat
  BY ShiftedPositive
<1>1. CASE max <= min
  <2>1. s = <<>>
    BY <1>1, IntervalTiles
  <2> HIDE DEF s
  <2>2. Maximal(s)
    BY <2>1 DEF Maximal
  <2> QED
    BY <2>2 DEF s
<1>2. CASE min <= max
  <2>1. /\ Ordered(s) /\ Elements(s) = min..max-1
        /\ \A i \in DOMAIN s : ~Climbs(s[i], max)
    BY <1>2, IntervalTiles, TilesElements
  <2> HIDE DEF s
  <2>2. s \in Seq(Cell) /\ Len(s) \in Nat /\ DOMAIN s = 1..Len(s)
    BY <2>1 DEF Ordered
  <2>3. ASSUME NEW i \in DOMAIN s, s[i] # unity, Within(parent(s[i])) \subseteq Elements(s)
        PROVE  FALSE
    <3> DEFINE c == s[i]
               P == parent(c)
    <3>1. c \in Cell /\ c # unity
      BY <2>2, <2>3
    <3> HIDE DEF c
    <3>2. P \in Cell /\ sibling(c) \in Cell
      BY <3>1, Siblings
    <3> HIDE DEF P
    <3>3. /\ begin(c) \in Nat /\ end(c) \in Nat /\ begin(c) < end(c) /\ end(c) <= Limit
          /\ begin(P) \in Nat /\ end(P) \in Nat /\ begin(P) < end(P) /\ end(P) <= Limit
          /\ begin(P) <= begin(c) /\ end(c) <= end(P) /\ ~(begin(P) = begin(c) /\ end(P) = end(c))
      <4>1. /\ begin(c) \in Nat /\ end(c) \in Nat /\ begin(c) < end(c) /\ end(c) <= Limit
            /\ begin(P) \in Nat /\ end(P) \in Nat /\ begin(P) < end(P) /\ end(P) <= Limit
            /\ begin(sibling(c)) \in Nat /\ end(sibling(c)) \in Nat
            /\ begin(sibling(c)) < end(sibling(c))
        BY <3>1, <3>2, CellBounds
      <4> QED
        BY <3>1, <4>1, Siblings DEF P
    <3>4. begin(P) \in Elements(s) /\ end(P) <= max
      <4>1. begin(P)..end(P)-1 \subseteq min..max-1
        BY <2>1, <2>3 DEF c, P, Within
      <4>2. begin(P) \in min..max-1 /\ end(P) - 1 \in min..max-1
        BY <3>3, <4>1
      <4> QED
        BY <1>0, <2>1, <3>3, <4>2
    <3>5. PICK j \in DOMAIN s : begin(P) \in begin(s[j])..end(s[j])-1
      BY <3>4 DEF Elements, Within
    <3> DEFINE d == s[j]
    <3>6. d \in Cell /\ ~Climbs(d, max)
      BY <2>1, <2>2
    <3> HIDE DEF d
    <3>7. /\ begin(d) \in Nat /\ end(d) \in Nat /\ begin(d) < end(d)
          /\ begin(d) <= begin(P) /\ begin(P) < end(d)
      BY <3>3, <3>5, <3>6, CellBounds DEF d
    <3>8. CASE Inside(P, d)
      <4>1. begin(d) <= begin(c) /\ end(c) <= end(d)
        BY <3>3, <3>7, <3>8 DEF Inside
      <4>2. i = j
        <5>1. i < j => end(c) <= begin(d)
          BY <2>1, OrderedApart DEF c, d
        <5>2. j < i => end(d) <= begin(c)
          BY <2>1, OrderedApart DEF c, d
        <5> QED
          BY <2>2, <3>3, <3>7, <4>1, <5>1, <5>2
      <4> QED
        BY <3>3, <3>8, <4>2 DEF c, d, Inside
    <3>9. CASE ~Inside(P, d)
      <4>1. begin(d) < end(P) /\ begin(P) < end(d)
        BY <3>3, <3>7
      <4>2. Inside(d, P) /\ d # P
        BY <3>2, <3>6, <3>9, <4>1, Laminar DEF Inside
      <4>3. parent(d) \in Cell /\ Inside(parent(d), P) /\ d # unity
        BY <3>2, <3>6, <4>1, <4>2, Laminar
      <4>4. begin(parent(d)) \in Nat /\ end(parent(d)) \in Nat /\ begin(parent(d)) <= begin(d)
        <5>1. sibling(d) \in Cell
          BY <3>6, <4>3, Siblings
        <5>2. /\ begin(parent(d)) \in Nat /\ end(parent(d)) \in Nat
              /\ begin(sibling(d)) \in Nat /\ end(sibling(d)) \in Nat
              /\ begin(sibling(d)) < end(sibling(d))
          BY <4>3, <5>1, CellBounds
        <5> QED
          BY <3>6, <3>7, <4>3, <5>2, Siblings
      <4>5. begin(parent(d)) = begin(d) /\ end(parent(d)) <= max
        BY <1>0, <3>3, <3>4, <3>7, <4>3, <4>4 DEF Inside
      <4>6. parent(d) # 0
        BY <4>3, ShiftedPositive DEF Cell
      <4> QED
        BY <3>6, <4>5, <4>6 DEF Climbs
    <3> QED
      BY <3>8, <3>9
  <2>4. Maximal(s)
    BY <2>3 DEF Maximal
  <2> QED
    BY <2>4 DEF s
<1> QED
  BY <1>0, <1>1, <1>2

\* A cell of one of two lists with the same elements is in the other.
LEMMA SameElementsShare ==
  ASSUME NEW s, Ordered(s), Maximal(s), NEW t, Ordered(t), Maximal(t),
         Elements(s) = Elements(t), NEW i \in DOMAIN s
  PROVE  \E j \in DOMAIN t : t[j] = s[i]
<1>0. s \in Seq(Cell) /\ t \in Seq(Cell)
  BY DEF Ordered
<1> DEFINE c == s[i]
<1>1. c \in Cell /\ Within(c) \subseteq Elements(s)
  BY <1>0 DEF Elements
<1> HIDE DEF c
<1>2. begin(c) \in Nat /\ end(c) \in Nat /\ begin(c) < end(c)
  BY <1>1, CellBounds
<1>3. PICK j \in DOMAIN t : begin(c) \in Within(t[j])
  <2>1. begin(c) \in Elements(t)
    BY <1>1, <1>2 DEF Within
  <2> QED
    BY <2>1 DEF Elements
<1> DEFINE d == t[j]
<1>4. d \in Cell /\ Within(d) \subseteq Elements(t)
  BY <1>0 DEF Elements
<1> HIDE DEF d
<1>5. begin(d) < end(c) /\ begin(c) < end(d)
  <2>1. begin(d) \in Nat /\ end(d) \in Nat /\ begin(c) \in begin(d)..end(d)-1
    BY <1>3, <1>4, CellBounds DEF d, Within
  <2> QED
    BY <1>2, <2>1
<1>6. ASSUME Inside(d, c), d # c PROVE FALSE
  <2>1. d # unity /\ parent(d) \in Cell /\ Inside(parent(d), c)
    BY <1>1, <1>4, <1>5, <1>6, Laminar
  <2>2. Within(parent(d)) \subseteq Elements(t)
    BY <1>1, <2>1, InsideWithin
  <2> QED
    BY <2>1, <2>2 DEF Maximal, d
<1>7. ASSUME Inside(c, d), c # d PROVE FALSE
  <2>1. c # unity /\ parent(c) \in Cell /\ Inside(parent(c), d)
    BY <1>1, <1>4, <1>5, <1>7, Laminar
  <2>2. Within(parent(c)) \subseteq Elements(s)
    BY <1>4, <2>1, InsideWithin
  <2> QED
    BY <2>1, <2>2 DEF Maximal, c
<1>8. Inside(c, d) \/ Inside(d, c)
  BY <1>1, <1>4, <1>5, Laminar
<1> QED
  BY <1>6, <1>7, <1>8 DEF c, d

\* Lists of largest cells with the same elements are the same: this is what Equal, which
\* compares cells, needs to decide whether two sets have the same elements
\* (Set63.Equal, set63.go:462-473).
THEOREM SameElementsSameCells ==
  ASSUME NEW s, Ordered(s), Maximal(s), NEW t, Ordered(t), Maximal(t)
  PROVE  Elements(s) = Elements(t) <=> s = t
<1> SUFFICES ASSUME Elements(s) = Elements(t) PROVE s = t
  OBVIOUS
<1>0. /\ s \in Seq(Cell) /\ DOMAIN s = 1..Len(s) /\ Len(s) \in Nat
      /\ t \in Seq(Cell) /\ DOMAIN t = 1..Len(t) /\ Len(t) \in Nat
  BY DEF Ordered
<1>1. /\ \A i \in DOMAIN s : /\ begin(s[i]) \in Nat /\ end(s[i]) \in Nat
                             /\ begin(s[i]) < end(s[i])
      /\ \A i \in DOMAIN t : /\ begin(t[i]) \in Nat /\ end(t[i]) \in Nat
                             /\ begin(t[i]) < end(t[i])
  BY <1>0, CellBounds
<1>2. /\ \A i \in DOMAIN s : \E j \in DOMAIN t : t[j] = s[i]
      /\ \A j \in DOMAIN t : \E i \in DOMAIN s : s[i] = t[j]
  BY SameElementsShare
<1>3. /\ \A i, j \in DOMAIN s : i < j => end(s[i]) <= begin(s[j])
      /\ \A i, j \in DOMAIN t : i < j => end(t[i]) <= begin(t[j])
  BY OrderedApart
<1> DEFINE Same(k) == k \in DOMAIN s /\ k \in DOMAIN t /\ s[k] = t[k]
           U == {k \in Nat : (k \in DOMAIN s \/ k \in DOMAIN t) /\ ~Same(k)}
<1>4. ASSUME U # {} PROVE FALSE
  <2>1. PICK k : k \in U /\ \A i \in U : k <= i
    <3>1. U \in SUBSET Nat
      OBVIOUS
    <3> HIDE DEF U
    <3> QED
      BY <1>4, <3>1, LeastNat
  <2>2. k \in Nat /\ ~Same(k) /\ (k \in DOMAIN s \/ k \in DOMAIN t)
    BY <2>1
  <2>3. ASSUME NEW i \in Nat, i < k, i \in DOMAIN s \/ i \in DOMAIN t PROVE Same(i)
    <3>1. i \notin U
      BY <2>1, <2>2, <2>3
    <3> QED
      BY <2>3, <3>1
  <2> HIDE DEF U
  <2>4. ASSUME k \in DOMAIN s
        PROVE  \E j \in DOMAIN t : t[j] = s[k] /\ k <= j
    <3>1. PICK j \in DOMAIN t : t[j] = s[k]
      BY <1>2, <2>4
    <3>2. ASSUME j < k PROVE FALSE
      <4>1. j \in Nat
        BY <1>0
      <4>2. j \in DOMAIN s /\ s[j] = t[j]
        BY <2>3, <3>2, <4>1
      <4>3. end(s[j]) <= begin(s[k])
        BY <1>3, <2>4, <3>2, <4>2
      <4> QED
        BY <1>1, <2>4, <3>1, <4>2, <4>3
    <3> QED
      BY <1>0, <2>2, <3>1, <3>2
  <2>5. ASSUME k \in DOMAIN t
        PROVE  \E i \in DOMAIN s : s[i] = t[k] /\ k <= i
    <3>1. PICK i \in DOMAIN s : s[i] = t[k]
      BY <1>2, <2>5
    <3>2. ASSUME i < k PROVE FALSE
      <4>1. i \in Nat
        BY <1>0
      <4>2. i \in DOMAIN t /\ s[i] = t[i]
        BY <2>3, <3>2, <4>1
      <4>3. end(t[i]) <= begin(t[k])
        BY <1>3, <2>5, <3>2, <4>2
      <4> QED
        BY <1>1, <2>5, <3>1, <4>2, <4>3
    <3> QED
      BY <1>0, <2>2, <3>1, <3>2
  <2>6. k \in DOMAIN s /\ k \in DOMAIN t
    BY <1>0, <2>2, <2>4, <2>5
  <2>7. PICK j \in DOMAIN t : t[j] = s[k] /\ k <= j
    BY <2>4, <2>6
  <2>8. PICK i \in DOMAIN s : s[i] = t[k] /\ k <= i
    BY <2>5, <2>6
  <2>9. k < j /\ k < i
    <3>1. j # k /\ i # k
      BY <2>2, <2>6, <2>7, <2>8
    <3> QED
      BY <1>0, <2>2, <2>7, <2>8, <3>1
  <2>10. end(t[k]) <= begin(s[k]) /\ end(s[k]) <= begin(t[k])
    BY <1>3, <2>6, <2>7, <2>8, <2>9
  <2> QED
    BY <1>1, <2>6, <2>10
<1>5. \A k \in Nat : k \in DOMAIN s \/ k \in DOMAIN t => Same(k)
  BY <1>4
<1>6. Len(s) = Len(t)
  <2>1. Len(s) <= Len(t)
    <3>1. Len(s) # 0 => Len(s) \in DOMAIN t
      BY <1>0, <1>5
    <3> QED
      BY <1>0, <3>1
  <2>2. Len(t) <= Len(s)
    <3>1. Len(t) # 0 => Len(t) \in DOMAIN s
      BY <1>0, <1>5
    <3> QED
      BY <1>0, <3>1
  <2>3. Len(s) \in Nat /\ Len(t) \in Nat
    BY <1>0
  <2> QED
    BY <2>1, <2>2, <2>3
<1>7. \A k \in 1..Len(s) : s[k] = t[k]
  BY <1>0, <1>5
<1> QED
  BY <1>0, <1>6, <1>7

-----------------------------------------------------------------------------
(* NewSet63.                                                               *)

\* The elements of the first l cells of s.
First(s, l) == UNION {Within(s[i]) : i \in 1..l}

\* The function that Add(ss, e) computes with.
Join(ss) ==
  CHOOSE join : join =
    [x \in (0..Len(ss)) \X (0..2*Limit-1) |->
       IF x[1] > 0 /\ ss[x[1]] = sibling(x[2]) THEN join[<<x[1] - 1, parent(x[2])>>]
       ELSE Append(SubSeq(ss, 1, x[1]), x[2])]

\* A parent has no more bits than a cell, not even that of 0.
LEMMA ParentWord ==
  ASSUME NEW c \in 0..2*Limit-1
  PROVE  parent(c) \in 0..2*Limit-1
<1>0. Limit \in Nat \ {0} /\ Cell \subseteq 0..2*Limit-1 /\ 0 \in 0..2*Limit-1
  BY ShiftedPositive DEF Cell
<1>1. CASE c = 0
  <2> DEFINE P == {q \in {shifted[k] : k \in 0..Bits} : 0 % q = 0}
  <2>1. \A k \in 0..Bits : shifted[k] \in P /\ shifted[k] \in Nat /\ shifted[k] <= Limit
    <3> TAKE k \in 0..Bits
    <3>1. shifted[k] \in Nat \ {0} /\ shifted[Bits] = Limit /\ Bits \in Nat /\ Bits \in 0..Bits
      BY ShiftedPositive
    <3>2. 0 % shifted[k] = 0
      BY <3>1, MultipleClosed, MultipleRest
    <3>3. k = Bits \/ k < Bits
      BY <3>1
    <3>4. k < Bits => shifted[k] < shifted[Bits]
      BY <3>1, ShiftedMultiples
    <3> QED
      BY <1>0, <3>1, <3>2, <3>3, <3>4
  <2>2. Limit \in P /\ \A q \in P : q \in Nat /\ q <= Limit
    <3>1. Bits \in 0..Bits /\ shifted[Bits] = Limit
      BY ShiftedPositive
    <3>2. \A q \in P : \E k \in 0..Bits : q = shifted[k]
      OBVIOUS
    <3> HIDE DEF P
    <3> QED
      BY <2>1, <3>1, <3>2
  <2>3. lsb(0) = Limit
    <3>1. lsb(0) = CHOOSE x \in P : \A y \in P : x >= y
      BY DEF lsb, Max
    <3> HIDE DEF P
    <3>2. \A x \in P : (\A y \in P : x >= y) <=> x = Limit
      BY <1>0, <2>2
    <3> QED
      BY <2>2, <3>1, <3>2
  <2> DEFINE M == 2 * Limit
  <2>4. M \in Nat \ {0} /\ 0 \in 0..M-1 /\ Limit \in 0..M-1 /\ 0 * M + 0 = 0 /\ 0 * M + Limit = Limit
    BY <1>0
  <2> HIDE DEF M
  <2>5. 0 \div M = 0
    <3>1. (0 * M + 0) \div M = 0
      BY <2>4, DivUnique
    <3> QED
      BY <2>4, <3>1
  <2>6. Limit % M = Limit
    <3>1. (0 * M + Limit) % M = Limit
      BY <2>4, DivUnique
    <3> QED
      BY <2>4, <3>1
  <2>7. parent(0) = (IF (0 \div M) % 2 = 1 THEN 0 - Limit ELSE 0 + Limit) % M
    BY <2>3 DEF parent, M
  <2>8. parent(0) = Limit
    BY <1>0, <2>5, <2>6, <2>7
  <2> QED
    BY <1>0, <1>1, <2>8
<1>2. CASE c # 0
  <2>1. c \in Cell
    BY <1>0, <1>2 DEF Cell
  <2> QED
    BY <1>0, <2>1, ParentCell
<1> QED
  BY <1>1, <1>2

\* Its recursion ends.
LEMMA JoinRecursion ==
  ASSUME NEW ss \in Seq(Cell), NEW l \in 0..Len(ss), NEW c \in 0..2*Limit-1
  PROVE  Join(ss)[<<l, c>>] =
           IF l > 0 /\ ss[l] = sibling(c) THEN Join(ss)[<<l - 1, parent(c)>>]
           ELSE Append(SubSeq(ss, 1, l), c)
<1> DEFINE D == 0..2*Limit-1
           S == (0..Len(ss)) \X D
           R == Seq(D)
           T == [x \in S |-> x[1] > 0 /\ ss[x[1]] = sibling(x[2])]
           N == [x \in S |-> <<x[1] - 1, parent(x[2])>>]
           G == [x \in S |-> [y \in R |-> y]]
           V == [x \in S |-> Append(SubSeq(ss, 1, x[1]), x[2])]
           m == [x \in S |-> x[1]]
           Is(f) == f = [x \in S |->
                           IF x[1] > 0 /\ ss[x[1]] = sibling(x[2]) THEN f[<<x[1] - 1, parent(x[2])>>]
                           ELSE Append(SubSeq(ss, 1, x[1]), x[2])]
<1>0. /\ Limit \in Nat \ {0} /\ Len(ss) \in Nat /\ Cell \subseteq D
      /\ \A x \in S : x[1] \in 0..Len(ss) /\ x[2] \in D /\ x = <<x[1], x[2]>>
  BY ShiftedPositive DEF Cell
<1>1. \A x \in S : x[1] > 0 => <<x[1] - 1, parent(x[2])>> \in S
  <2> SUFFICES ASSUME NEW x \in S, x[1] > 0 PROVE <<x[1] - 1, parent(x[2])>> \in S
    OBVIOUS
  <2>1. x[1] - 1 \in 0..Len(ss)
    BY <1>0
  <2>2. parent(x[2]) \in D
    BY <1>0, ParentWord
  <2> QED
    BY <2>1, <2>2
<1>2. PICK f \in [S -> R] : Solves(f, S, T, N, G, V)
  <2>1. Falls(S, T, N, m, Len(ss) + 1)
    <3>1. m \in [S -> Nat] /\ \A x \in S : m[x] < Len(ss) + 1
      <4>1. \A x \in S : x[1] \in Nat /\ x[1] < Len(ss) + 1
        BY <1>0
      <4> HIDE DEF S
      <4> QED
        BY <4>1
    <3>2. \A x \in S : T[x] => N[x] \in S /\ m[N[x]] < m[x]
      <4> SUFFICES ASSUME NEW x \in S, x[1] > 0 PROVE N[x] \in S /\ m[N[x]] < m[x]
        OBVIOUS
      <4> DEFINE y == <<x[1] - 1, parent(x[2])>>
      <4>1. N[x] = y /\ y \in S /\ y[1] = x[1] - 1 /\ x[1] \in Nat
        BY <1>0, <1>1
      <4>2. m[x] = x[1] /\ m[y] = y[1]
        <5> HIDE DEF S, y
        <5> QED
          BY <4>1
      <4> HIDE DEF S, y, m, N
      <4> QED
        BY <4>1, <4>2
    <3> HIDE DEF T, N, m, S
    <3> QED
      BY <3>1, <3>2 DEF Falls
  <2>2. G \in [S -> [R -> R]] /\ V \in [S -> R] /\ Len(ss) + 1 \in Nat
    <3>1. \A x \in S : Append(SubSeq(ss, 1, x[1]), x[2]) \in R
      <4> SUFFICES ASSUME NEW x \in S PROVE Append(SubSeq(ss, 1, x[1]), x[2]) \in R
        OBVIOUS
      <4>1. \A i \in 1..x[1] : ss[i] \in D
        <5>1. x[1] \in 0..Len(ss)
          BY <1>0
        <5> HIDE DEF S, D
        <5>2. \A i \in 1..x[1] : i \in 1..Len(ss)
          BY <1>0, <5>1
        <5> QED
          BY <1>0, <5>2
      <4>2. x[1] \in Int /\ x[2] \in D
        BY <1>0
      <4> HIDE DEF D, S
      <4>3. SubSeq(ss, 1, x[1]) \in R
        BY <4>1, <4>2, SubSeqProperties
      <4> QED
        BY <4>2, <4>3, AppendProperties
    <3> HIDE DEF S, R
    <3> QED
      BY <1>0, <3>1
  <2> HIDE DEF T, N, G, V, m, S, R
  <2> QED
    BY <2>1, <2>2, RecursionExists
<1>3. Is(f)
  <2>1. \A x \in S : f[x] = IF x[1] > 0 /\ ss[x[1]] = sibling(x[2]) THEN f[<<x[1] - 1, parent(x[2])>>]
                            ELSE Append(SubSeq(ss, 1, x[1]), x[2])
    <3> TAKE x \in S
    <3>1. f[x] = IF T[x] THEN G[x][f[N[x]]] ELSE V[x]
      BY <1>2 DEF Solves
    <3>2. /\ T[x] <=> x[1] > 0 /\ ss[x[1]] = sibling(x[2])
          /\ N[x] = <<x[1] - 1, parent(x[2])>> /\ V[x] = Append(SubSeq(ss, 1, x[1]), x[2])
          /\ \A y \in R : G[x][y] = y
      <4> HIDE DEF S, R
      <4> QED
        OBVIOUS
    <3> HIDE DEF T, N, V, G
    <3>3. T[x] => f[N[x]] \in R
      <4> HIDE DEF S, R
      <4> QED
        BY <1>1, <1>2, <3>2
    <3> HIDE DEF S, R
    <3> QED
      BY <3>1, <3>2, <3>3
  <2>2. f = [x \in S |-> f[x]]
    BY <1>2
  <2> HIDE DEF S
  <2> QED
    BY <2>1, <2>2
<1>4. Is(Join(ss))
  BY <1>3 DEF Join
<1>5. <<l, c>> \in S /\ <<l, c>>[1] = l /\ <<l, c>>[2] = c
  OBVIOUS
<1> DEFINE x == <<l, c>>
<1> HIDE DEF S, x
<1>6. Join(ss)[x] = IF x[1] > 0 /\ ss[x[1]] = sibling(x[2]) THEN Join(ss)[<<x[1] - 1, parent(x[2])>>]
                    ELSE Append(SubSeq(ss, 1, x[1]), x[2])
  BY <1>4, <1>5 DEF x
<1>7. x[1] = l /\ x[2] = c
  BY <1>5 DEF x
<1> QED
  BY <1>6, <1>7 DEF x

\* What Add makes of a list whose last element is no larger than e: nothing when the
\* list has e, else it joins cells from the end on into one that ends with e.
LEMMA AddShape ==
  ASSUME NEW ss, Ordered(ss), NEW e \in 0..Limit-1, ss = <<>> \/ end(ss[Len(ss)]) <= e + 1
  PROVE  \/ ss # <<>> /\ end(ss[Len(ss)]) = e + 1 /\ Add(ss, e) = ss
         \/ \E l \in 0..Len(ss), c \in Cell :
              /\ Add(ss, e) = Append(SubSeq(ss, 1, l), c)
              /\ ~(l > 0 /\ ss[l] = sibling(c))
              /\ end(c) = e + 1 /\ \A i \in 1..l : end(ss[i]) <= begin(c)
              /\ First(ss, l) \cup Within(c) = Elements(ss) \cup {e}
<1> DEFINE Pre(l, c) ==
             /\ end(c) = e + 1 /\ \A i \in 1..l : end(ss[i]) <= begin(c)
             /\ First(ss, l) \cup Within(c) = Elements(ss) \cup {e}
           Post(r) ==
             \E l \in 0..Len(ss), c \in Cell :
               /\ r = Append(SubSeq(ss, 1, l), c) /\ ~(l > 0 /\ ss[l] = sibling(c)) /\ Pre(l, c)
           U == {l \in Nat : l <= Len(ss) =>
                   \A c \in Cell : Pre(l, c) => Post(Join(ss)[<<l, c>>])}
<1>0. /\ ss \in Seq(Cell) /\ DOMAIN ss = 1..Len(ss) /\ Len(ss) \in Nat /\ Limit \in Nat \ {0}
      /\ \A i \in DOMAIN ss : /\ ss[i] \in Cell /\ begin(ss[i]) \in Nat /\ end(ss[i]) \in Nat
                              /\ begin(ss[i]) < end(ss[i])
      /\ Cell \subseteq 0..2*Limit-1
  <2>1. Limit \in Nat \ {0} /\ Cell \subseteq 0..2*Limit-1
    BY ShiftedPositive DEF Cell
  <2>2. ss \in Seq(Cell)
    BY DEF Ordered
  <2>3. \A i \in DOMAIN ss : ss[i] \in Cell
    BY <2>2
  <2>4. \A d \in Cell : begin(d) \in Nat /\ end(d) \in Nat /\ begin(d) < end(d)
    BY CellBounds
  <2>5. DOMAIN ss = 1..Len(ss) /\ Len(ss) \in Nat
    BY <2>2
  <2> QED
    BY <2>1, <2>2, <2>3, <2>4, <2>5
<1> HIDE DEF Pre, Post
<1>1. 0 \in U
  <2> SUFFICES ASSUME NEW c \in Cell, Pre(0, c) PROVE Post(Join(ss)[<<0, c>>])
    OBVIOUS
  <2>1. 0 \in 0..Len(ss) /\ c \in 0..2*Limit-1
    BY <1>0
  <2>2. Join(ss)[<<0, c>>] =
          IF 0 > 0 /\ ss[0] = sibling(c) THEN Join(ss)[<<0 - 1, parent(c)>>]
          ELSE Append(SubSeq(ss, 1, 0), c)
    BY <1>0, <2>1, JoinRecursion
  <2>3. Join(ss)[<<0, c>>] = Append(SubSeq(ss, 1, 0), c)
    BY <2>2
  <2> QED
    BY <2>1, <2>3 DEF Post
<1>2. ASSUME NEW k \in Nat, k \in U PROVE k + 1 \in U
  <2> DEFINE l == k + 1
  <2> SUFFICES ASSUME l <= Len(ss), NEW c \in Cell, Pre(l, c) PROVE Post(Join(ss)[<<l, c>>])
    OBVIOUS
  <2>1. l \in 0..Len(ss) /\ c \in 0..2*Limit-1 /\ l \in DOMAIN ss /\ l - 1 = k /\ l \in Nat /\ l > 0
    BY <1>0
  <2> HIDE DEF l
  <2>2. Join(ss)[<<l, c>>] =
          IF l > 0 /\ ss[l] = sibling(c) THEN Join(ss)[<<l - 1, parent(c)>>]
          ELSE Append(SubSeq(ss, 1, l), c)
    BY <1>0, <2>1, JoinRecursion
  <2>3. CASE ~(ss[l] = sibling(c))
    <3>1. Join(ss)[<<l, c>>] = Append(SubSeq(ss, 1, l), c)
      BY <2>2, <2>3
    <3> QED
      BY <2>1, <2>3, <3>1 DEF Post
  <2>4. CASE ss[l] = sibling(c)
    <3>1. PICK b, n : IsCell(c, b, n)
      BY CellIs
    <3> DEFINE p == shifted[n]
    <3>2. /\ n \in 0..Bits /\ Bits \in Nat /\ b \in Nat /\ p \in Nat \ {0} /\ begin(c) = b /\ end(c) = b + p
      BY <3>1, CellShape, ShiftedPositive DEF IsCell
    <3>f. /\ n = Bits => b = 0 /\ sibling(c) = c
          /\ n < Bits /\ Multiple(b, 2 * p) => IsCell(sibling(c), b + p, n)
          /\ n < Bits /\ ~Multiple(b, 2 * p) =>
               p <= b /\ IsCell(parent(c), b - p, n + 1) /\ IsCell(sibling(c), b - p, n)
      BY ONLY <3>1, CellFamily
    <3>3. end(ss[l]) <= b /\ end(c) = e + 1
      BY <2>1, <3>2 DEF Pre
    <3>4. n < Bits /\ ~Multiple(b, 2 * p)
      <4>1. n # Bits
        <5> SUFFICES ASSUME n = Bits PROVE FALSE
          OBVIOUS
        <5>1. ss[l] = c /\ b = 0
          BY <2>4, <3>f
        <5> HIDE DEF p
        <5> QED
          BY <3>2, <3>3, <5>1
      <4>2. ~Multiple(b, 2 * p)
        <5> SUFFICES ASSUME Multiple(b, 2 * p) PROVE FALSE
          OBVIOUS
        <5>1. IsCell(ss[l], b + p, n)
          BY <2>4, <3>2, <3>f, <4>1
        <5>2. end(ss[l]) = b + p + p
          BY <5>1, CellShape
        <5> HIDE DEF p
        <5> QED
          BY <3>2, <3>3, <5>2
      <4> QED
        BY <3>2, <4>1, <4>2
    <3> DEFINE d == parent(c)
               a == b - p
    <3>5. p <= b /\ IsCell(d, a, n + 1) /\ IsCell(ss[l], a, n) /\ n \in 0..Bits-1
      BY <2>4, <3>2, <3>4, <3>f
    <3>6. /\ a \in Nat /\ d \in Cell /\ begin(d) = a /\ end(d) = b + p
          /\ begin(ss[l]) = a /\ end(ss[l]) = b
      <4>1. shifted[n + 1] = 2 * p
        BY <3>5, ShiftedRecursion
      <4>2. d \in Cell /\ begin(d) = a /\ end(d) = a + shifted[n + 1]
        BY <3>5, CellShape
      <4>3. begin(ss[l]) = a /\ end(ss[l]) = a + p
        BY <3>5, CellShape
      <4> HIDE DEF d, p
      <4> QED
        BY <3>2, <3>5, <4>1, <4>2, <4>3
    <3> HIDE DEF p, d, a
    <3>7. Join(ss)[<<l, c>>] = Join(ss)[<<k, d>>]
      BY <2>1, <2>2, <2>4 DEF d
    <3>8. end(d) = e + 1 /\ \A i \in 1..k : end(ss[i]) <= begin(d)
      <4>1. ASSUME NEW i \in 1..k PROVE end(ss[i]) <= a
        <5>1. i \in DOMAIN ss /\ i < l
          BY <1>0, <2>1
        <5> QED
          BY <2>1, <3>6, <5>1, OrderedApart
      <4> QED
        BY <3>2, <3>3, <3>6, <4>1
    <3>9. First(ss, k) \cup Within(d) = Elements(ss) \cup {e}
      <4>1. First(ss, l) = First(ss, k) \cup Within(ss[l])
        <5>1. 1..l = (1..k) \cup {l}
          BY <2>1
        <5> QED
          BY <5>1 DEF First
      <4>2. Within(d) = Within(ss[l]) \cup Within(c)
        <5>1. a < b /\ b < b + p
          BY <1>0, <2>1, <3>2, <3>6
        <5> QED
          BY <3>2, <3>6, <5>1 DEF Within
      <4> QED
        BY <4>1, <4>2 DEF Pre
    <3>10. Pre(k, d)
      BY <3>8, <3>9 DEF Pre
    <3>11. k <= Len(ss)
      BY <1>0, <2>1
    <3> QED
      BY <1>2, <3>6, <3>7, <3>10, <3>11
  <2> QED
    BY <2>3, <2>4
<1>3. \A l \in Nat : l \in U
  <2> HIDE DEF U
  <2> QED
    BY <1>1, <1>2, SetInduction
<1> DEFINE c == singleton(e)
           n == Len(ss)
<1>4. c \in Cell /\ begin(c) = e /\ end(c) = e + 1 /\ e \in Nat /\ c = 2 * e + 1
  <2>1. c \in Cell /\ begin(c) = e /\ end(c) = e + 1
    BY SingletonCell
  <2> QED
    BY <1>0, <2>1 DEF singleton
<1>5. Add(ss, e) = IF ss # <<>> /\ contains(ss[n], c) THEN ss ELSE Join(ss)[<<n, c>>]
  BY DEF Add, Join, Last
<1> HIDE DEF c
<1>6. ss # <<>> => n \in DOMAIN ss /\ (contains(ss[n], c) <=> begin(ss[n]) <= e /\ e < end(ss[n]))
  <2> SUFFICES ASSUME ss # <<>> PROVE n \in DOMAIN ss /\ (contains(ss[n], c) <=> begin(ss[n]) <= e /\ e < end(ss[n]))
    OBVIOUS
  <2>1. n \in DOMAIN ss /\ ss[n] \in Cell
    BY <1>0
  <2>2. PICK b, k : IsCell(ss[n], b, k)
    BY <2>1, CellIs
  <2>3. \A x \in Nat : contains(ss[n], 2 * x + 1) <=> b <= x /\ x < b + shifted[k]
    BY ONLY <2>2, CellPlace
  <2>4. begin(ss[n]) = b /\ end(ss[n]) = b + shifted[k]
    BY ONLY <2>2, CellShape
  <2> QED
    BY <1>4, <2>1, <2>3, <2>4
<1>7. CASE ss # <<>> /\ contains(ss[n], c)
  <2>1. end(ss[n]) = e + 1
    BY <1>0, <1>4, <1>6, <1>7
  <2> QED
    BY <1>5, <1>7, <2>1
<1>8. CASE ~(ss # <<>> /\ contains(ss[n], c))
  <2>1. \A i \in 1..n : end(ss[i]) <= e
    <3> TAKE i \in 1..n
    <3>1. ss # <<>> /\ n \in DOMAIN ss /\ end(ss[n]) <= e
      BY <1>0, <1>4, <1>6, <1>8
    <3>2. i < n => end(ss[i]) <= begin(ss[n])
      BY <1>0, <3>1, OrderedApart
    <3> QED
      BY <1>0, <1>4, <3>1, <3>2
  <2>2. First(ss, n) \cup Within(c) = Elements(ss) \cup {e}
    <3>1. First(ss, n) = Elements(ss)
      BY <1>0 DEF First, Elements
    <3>2. Within(c) = {e}
      BY <1>4 DEF Within
    <3> QED
      BY <3>1, <3>2
  <2>3. Pre(n, c)
    BY <1>4, <2>1, <2>2 DEF Pre
  <2>4. n \in U /\ n <= Len(ss)
    <3> HIDE DEF U
    <3> QED
      BY <1>0, <1>3
  <2>5. Post(Join(ss)[<<n, c>>])
    BY <1>4, <2>3, <2>4
  <2>6. Post(Add(ss, e))
    BY <1>5, <1>8, <2>5
  <2> QED
    BY <2>6 DEF Post, Pre
<1> QED
  BY <1>7, <1>8

\* Add keeps a list in order and adds e to its elements, of which it is the last.
LEMMA AddKeeps ==
  ASSUME NEW ss, Ordered(ss), NEW e \in 0..Limit-1, ss = <<>> \/ end(ss[Len(ss)]) <= e + 1
  PROVE  LET r == Add(ss, e)
         IN  /\ Ordered(r) /\ r # <<>> /\ end(r[Len(r)]) = e + 1
             /\ Elements(r) = Elements(ss) \cup {e}
<1> DEFINE r == Add(ss, e)
<1> HIDE DEF r
<1>0. ss \in Seq(Cell) /\ DOMAIN ss = 1..Len(ss) /\ Len(ss) \in Nat /\ Limit \in Nat /\ e \in Nat
  BY ShiftedPositive DEF Ordered
<1>1. ASSUME ss # <<>>, end(ss[Len(ss)]) = e + 1, r = ss
      PROVE  /\ Ordered(r) /\ r # <<>> /\ end(r[Len(r)]) = e + 1
             /\ Elements(r) = Elements(ss) \cup {e}
  <2>1. Len(ss) \in DOMAIN ss
    BY <1>0, <1>1
  <2>2. begin(ss[Len(ss)]) \in Nat /\ begin(ss[Len(ss)]) < e + 1
    BY <1>0, <1>1, <2>1, CellBounds
  <2>3. e \in Within(ss[Len(ss)])
    BY <1>0, <1>1, <2>2 DEF Within
  <2>4. e \in Elements(ss)
    BY <2>1, <2>3 DEF Elements
  <2> QED
    BY <1>1, <2>4
<1>2. ASSUME NEW l \in 0..Len(ss), NEW c \in Cell, r = Append(SubSeq(ss, 1, l), c),
             end(c) = e + 1, \A i \in 1..l : end(ss[i]) <= begin(c),
             First(ss, l) \cup Within(c) = Elements(ss) \cup {e}
      PROVE  /\ Ordered(r) /\ r # <<>> /\ end(r[Len(r)]) = e + 1
             /\ Elements(r) = Elements(ss) \cup {e}
  <2>1. /\ r \in Seq(Cell) /\ Len(r) = l + 1 /\ r[l + 1] = c /\ r # <<>>
        /\ \A i \in 1..l : r[i] = ss[i]
    <3> DEFINE s == SubSeq(ss, 1, l)
    <3>1. s \in Seq(Cell) /\ Len(s) = l /\ \A i \in 1..l : s[i] = ss[i]
      BY <1>0
    <3> HIDE DEF s
    <3>2. r = Append(s, c) /\ l \in Nat
      BY <1>0, <1>2 DEF s
    <3> QED
      BY <3>1, <3>2
  <2>2. Ordered(r)
    <3>1. ASSUME NEW i \in 1..Len(r)-1 PROVE end(r[i]) <= begin(r[i + 1])
      <4>1. i \in 1..l /\ i \in Nat /\ l \in Nat
        BY <1>0, <2>1
      <4>2. CASE i = l
        BY <1>2, <2>1, <4>1, <4>2
      <4>3. CASE i < l
        <5>1. i + 1 \in 1..l /\ i \in 1..Len(ss)-1
          BY <1>0, <4>1, <4>3
        <5> QED
          BY <2>1, <4>1, <5>1 DEF Ordered
      <4> QED
        BY <4>1, <4>2, <4>3
    <3> QED
      BY <2>1, <3>1 DEF Ordered
  <2>3. Elements(r) = First(ss, l) \cup Within(c)
    <3>1. DOMAIN r = 1..l + 1 /\ 1..l + 1 = (1..l) \cup {l + 1}
      BY <1>0, <2>1
    <3>2. ASSUME NEW x \in Elements(r) PROVE x \in First(ss, l) \cup Within(c)
      <4>1. PICK i \in DOMAIN r : x \in Within(r[i])
        BY DEF Elements
      <4>2. i \in 1..l \/ i = l + 1
        BY <3>1
      <4> QED
        BY <2>1, <4>1, <4>2 DEF First
    <3>3. ASSUME NEW x \in First(ss, l) PROVE x \in Elements(r)
      <4>1. PICK i \in 1..l : x \in Within(ss[i])
        BY DEF First
      <4> QED
        BY <2>1, <3>1, <4>1 DEF Elements
    <3>4. ASSUME NEW x \in Within(c) PROVE x \in Elements(r)
      BY <2>1, <3>1 DEF Elements
    <3> QED
      BY <3>2, <3>3, <3>4
  <2> QED
    BY <1>2, <2>1, <2>2, <2>3
<1>3. \/ ss # <<>> /\ end(ss[Len(ss)]) = e + 1 /\ r = ss
      \/ \E l \in 0..Len(ss), c \in Cell :
           /\ r = Append(SubSeq(ss, 1, l), c)
           /\ ~(l > 0 /\ ss[l] = sibling(c))
           /\ end(c) = e + 1 /\ \A i \in 1..l : end(ss[i]) <= begin(c)
           /\ First(ss, l) \cup Within(c) = Elements(ss) \cup {e}
  BY AddShape DEF r
<1>4. /\ Ordered(r) /\ r # <<>> /\ end(r[Len(r)]) = e + 1
      /\ Elements(r) = Elements(ss) \cup {e}
  BY <1>1, <1>2, <1>3
<1> QED
  BY <1>4 DEF r

\* Add joins what can be joined: if a cell and its sibling's elements are there now, the
\* sibling is made of the cells behind, down to one that is the sibling of the next.
LEMMA AddMaximal ==
  ASSUME NEW ss, Ordered(ss), Maximal(ss), NEW e \in 0..Limit-1,
         ss = <<>> \/ end(ss[Len(ss)]) <= e + 1
  PROVE  Maximal(Add(ss, e))
<1> DEFINE r == Add(ss, e)
<1> HIDE DEF r
<1>0. ss \in Seq(Cell) /\ DOMAIN ss = 1..Len(ss) /\ Len(ss) \in Nat /\ Limit \in Nat /\ e \in Nat
  BY ShiftedPositive DEF Ordered
<1>1. Ordered(r) /\ Elements(r) = Elements(ss) \cup {e} /\ r # <<>> /\ end(r[Len(r)]) = e + 1
  BY AddKeeps DEF r
<1>2. CASE r = ss
  BY <1>2 DEF r
<1>3. ASSUME NEW l \in 0..Len(ss), NEW c \in Cell, r = Append(SubSeq(ss, 1, l), c),
             ~(l > 0 /\ ss[l] = sibling(c)),
             end(c) = e + 1, \A i \in 1..l : end(ss[i]) <= begin(c)
      PROVE  Maximal(r)
  <2>1. /\ r \in Seq(Cell) /\ Len(r) = l + 1 /\ DOMAIN r = 1..l+1
        /\ \A i \in 1..l : r[i] = ss[i]
        /\ r[l + 1] = c /\ l \in Nat
    BY <1>0, <1>3
  <2>2. /\ \A i \in DOMAIN r : /\ r[i] \in Cell /\ begin(r[i]) \in Nat /\ end(r[i]) \in Nat
                               /\ begin(r[i]) < end(r[i])
        /\ begin(c) \in Nat /\ begin(c) < end(c)
    BY <1>3, <2>1, CellBounds
  <2>3. \A i \in 1..l : end(r[i]) <= begin(c)
    BY <1>3, <2>1
  <2>4. \A x \in Elements(r) : x \in Int /\ x <= e
    <3>1. SUFFICES ASSUME NEW i \in DOMAIN r, NEW x \in begin(r[i])..end(r[i])-1
                   PROVE  x \in Int /\ x <= e
      BY DEF Elements, Within
    <3>2. end(r[i]) <= e + 1
      BY <1>0, <1>3, <2>1, <2>2, <2>3
    <3> QED
      BY <1>0, <2>2, <3>2
  <2> DEFINE Bad == {i \in DOMAIN r : r[i] # unity /\ Within(parent(r[i])) \subseteq Elements(r)}
  <2>5. SUFFICES ASSUME Bad # {} PROVE FALSE
    BY DEF Maximal
  <2>6. PICK i : i \in Bad /\ \A j \in Bad : j <= i
    <3>1. Bad \in SUBSET Nat /\ \A j \in Bad : j <= l + 1
      BY <2>1
    <3>2. l + 1 \in Nat
      BY <2>1
    <3> HIDE DEF Bad
    <3> QED
      BY <2>5, <3>1, <3>2, GreatestNat
  <2> DEFINE d == r[i]
             P == parent(d)
             S == sibling(d)
  <2>7. i \in 1..l+1 /\ d \in Cell /\ d # unity /\ Within(P) \subseteq Elements(r)
    BY <2>1, <2>6
  <2>8. i + 1 \notin Bad
    BY <2>1, <2>6
  <2> HIDE DEF Bad, d
  <2>9. P \in Cell /\ S \in Cell /\ sibling(S) = d
        /\ \/ begin(P) = begin(d) /\ end(d) = begin(S) /\ end(S) = end(P)
           \/ begin(P) = begin(S) /\ end(S) = begin(d) /\ end(d) = end(P)
    BY <2>7, Siblings
  <2> HIDE DEF P, S
  <2>10. /\ begin(d) \in Nat /\ end(d) \in Nat /\ begin(d) < end(d)
         /\ begin(P) \in Nat /\ end(P) \in Nat /\ begin(P) < end(P)
         /\ begin(S) \in Nat /\ end(S) \in Nat /\ begin(S) < end(S)
    BY <2>7, <2>9, CellBounds
  <2>11. begin(P)..end(P)-1 \subseteq Elements(r)
    BY <2>7 DEF Within
  <2>12. end(P) <= e + 1
    <3>1. end(P) - 1 \in begin(P)..end(P)-1
      BY <2>10
    <3>2. end(P) - 1 <= e
      BY <2>4, <2>11, <3>1
    <3> QED
      BY <1>0, <2>10, <3>2
  <2>13. CASE i \in 1..l /\ end(P) <= e
    <3>1. e \notin begin(P)..end(P)-1
      BY <1>0, <2>10, <2>13
    <3>2. Within(P) \subseteq Elements(ss)
      BY <1>1, <2>11, <3>1 DEF Within
    <3>3. d = ss[i] /\ i \in DOMAIN ss
      BY <1>0, <2>1, <2>13 DEF d
    <3> QED
      BY <2>7, <3>2, <3>3 DEF Maximal, P
  <2>14. CASE i \in 1..l /\ end(P) = e + 1
    <3> DEFINE g == r[i + 1]
    <3>1. /\ i + 1 \in DOMAIN r /\ i \in DOMAIN r /\ i < i + 1 /\ g \in Cell
          /\ begin(g) \in Nat /\ end(g) \in Nat /\ begin(g) < end(g)
      <4>1. i + 1 \in DOMAIN r /\ i \in DOMAIN r /\ i < i + 1
        BY <2>1, <2>14
      <4> QED
        BY <2>2, <4>1
    <3> HIDE DEF g
    <3>2. end(d) <= begin(g)
      BY <1>1, <3>1, OrderedApart DEF d, g
    <3>3. end(d) <= begin(c)
      BY <2>3, <2>14 DEF d
    <3>4. end(d) = begin(S) /\ end(S) = e + 1
      BY <1>3, <2>2, <2>9, <2>10, <2>14, <3>3
    <3>5. begin(g) = begin(S)
      <4>1. begin(S) \in begin(P)..end(P)-1
        BY <2>9, <2>10
      <4>2. PICK j \in DOMAIN r : begin(S) \in begin(r[j])..end(r[j])-1
        BY <2>11, <4>1 DEF Elements, Within
      <4>3. begin(r[j]) <= begin(S) /\ begin(S) < end(r[j])
        BY <2>2, <2>10, <4>2
      <4>4. j \in 1..l+1
        BY <2>1
      <4>5. ~(j < i)
        <5>1. j < i => end(r[j]) <= begin(d)
          BY <1>1, <3>1, OrderedApart DEF d
        <5> QED
          BY <2>2, <2>10, <3>4, <4>3, <5>1
      <4>6. j # i
        BY <2>10, <3>4, <4>3 DEF d
      <4>7. ~(i + 1 < j)
        <5>1. i + 1 < j => end(g) <= begin(r[j])
          BY <1>1, <3>1, OrderedApart DEF g
        <5> QED
          BY SMTT(30), <2>2, <2>10, <3>1, <3>2, <3>4, <4>3, <5>1
      <4>8. j = i + 1
        BY <2>1, <2>7, <4>4, <4>5, <4>6, <4>7
      <4> QED
        BY <2>10, <3>1, <3>2, <3>4, <4>3, <4>8 DEF g
    <3>6. begin(g) < end(S) /\ begin(S) < end(g)
      BY <2>10, <3>1, <3>5
    <3>7. CASE g = S
      <4>1. i + 1 = l + 1
        <5>1. i + 1 \in 1..l => end(g) <= begin(c)
          BY <2>3 DEF g
        <5> QED
          BY <1>3, <2>1, <2>2, <2>14, <3>1, <3>4, <3>7, <5>1
      <4>2. c = S /\ i = l
        BY <2>1, <2>14, <3>7, <4>1 DEF g
      <4>3. ss[l] = sibling(c) /\ l > 0
        BY <2>1, <2>9, <2>14, <4>2 DEF d
      <4> QED
        BY <1>3, <4>3
    <3>8. CASE g # S
      <4>1. end(g) <= e + 1
        <5>1. end(g) - 1 \in begin(g)..end(g)-1
          BY <3>1
        <5>2. end(g) - 1 \in Elements(r)
          BY <3>1, <5>1 DEF Elements, Within, g
        <5>3. end(g) - 1 <= e
          BY <2>4, <5>2
        <5> QED
          BY <1>0, <3>1, <5>3
      <4>2. Inside(g, S)
        BY <2>10, <3>1, <3>4, <3>5, <4>1 DEF Inside
      <4>3. g # unity /\ parent(g) \in Cell /\ Inside(parent(g), S)
        BY <2>9, <3>1, <3>6, <3>8, <4>2, Laminar
      <4>4. Inside(S, P)
        BY <2>9, <2>10, <3>4 DEF Inside
      <4>5. Within(parent(g)) \subseteq Elements(r)
        BY <2>7, <2>9, <4>3, <4>4, InsideWithin
      <4> QED
        BY <2>8, <3>1, <4>3, <4>5 DEF Bad, g
    <3> QED
      BY <3>7, <3>8
  <2>15. CASE i = l + 1
    <3>1. d = c /\ end(d) = e + 1
      BY <1>3, <2>1, <2>15 DEF d
    <3>2. begin(P) = begin(S) /\ end(S) = begin(c)
      BY <1>0, <2>9, <2>10, <2>12, <3>1
    <3>3. \A x \in begin(S)..end(S)-1 : x \in Elements(ss)
      <4>1. SUFFICES ASSUME NEW x \in begin(S)..end(S)-1 PROVE x \in Elements(ss)
        OBVIOUS
      <4>2. x \in begin(P)..end(P)-1 /\ x < begin(c) /\ x # e
        BY <1>0, <1>3, <2>2, <2>9, <2>10, <3>1, <3>2
      <4> QED
        BY <1>1, <2>11, <4>2
    <3>4. PICK j \in DOMAIN r : begin(c) - 1 \in begin(r[j])..end(r[j])-1
      <4>1. begin(c) - 1 \in begin(P)..end(P)-1
        BY <2>2, <2>9, <2>10, <3>1, <3>2
      <4> QED
        BY <2>11, <4>1 DEF Elements, Within
    <3>5. begin(r[j]) < begin(c) /\ begin(c) <= end(r[j]) /\ j \in 1..l+1
      BY <2>1, <2>2, <3>4
    <3>6. j \in 1..l
      <4>1. j # l + 1
        BY <2>1, <2>2, <3>5
      <4> QED
        BY <2>1, <3>5, <4>1
    <3>7. j = l
      <4>1. j < l => end(r[j]) <= begin(r[l])
        BY <1>1, <2>1, <3>6, OrderedApart
      <4>2. l \in 1..l /\ l \in DOMAIN r
        BY <2>1, <3>6
      <4>3. end(r[l]) <= begin(c) /\ begin(r[l]) < end(r[l])
        BY <2>2, <2>3, <4>2
      <4> QED
        BY <2>1, <2>2, <3>5, <3>6, <4>1, <4>2, <4>3
    <3> DEFINE g == ss[l]
    <3>8. /\ g \in Cell /\ begin(g) \in Nat /\ end(g) \in Nat /\ begin(g) < end(g)
          /\ end(g) = begin(c) /\ l \in DOMAIN ss
      <4>1. r[l] = g /\ l \in 1..l /\ l \in DOMAIN r /\ l \in DOMAIN ss
        BY <1>0, <2>1, <3>6, <3>7
      <4>2. end(r[l]) <= begin(c) /\ begin(c) <= end(r[l])
        BY <2>3, <3>5, <3>7, <4>1
      <4> QED
        BY <2>2, <4>1, <4>2
    <3> HIDE DEF g
    <3>9. g # S
      <4>1. S = sibling(c)
        BY <3>1 DEF S
      <4>2. l > 0
        BY <3>6, <3>7
      <4> QED
        BY <1>3, <4>1, <4>2 DEF g
    <3>10. begin(g) < end(S) /\ begin(S) < end(g)
      BY <2>10, <3>2, <3>8
    <3>11. CASE Inside(g, S)
      <4>1. g # unity /\ parent(g) \in Cell /\ Inside(parent(g), S)
        BY <2>9, <3>8, <3>9, <3>10, <3>11, Laminar
      <4>2. Within(parent(g)) \subseteq Within(S)
        BY <2>9, <4>1, InsideWithin
      <4>3. Within(parent(g)) \subseteq Elements(ss)
        BY <3>3, <4>2 DEF Within
      <4> QED
        BY <3>8, <4>1, <4>3 DEF Maximal, g
    <3>12. CASE Inside(S, g)
      <4>1. Inside(parent(S), g) /\ parent(S) \in Cell /\ S # unity
        BY <2>9, <3>8, <3>9, <3>10, <3>12, Laminar
      <4>2. begin(parent(S)) \in Nat /\ end(parent(S)) \in Nat /\ end(parent(S)) <= begin(c)
        BY <3>8, <4>1, CellBounds DEF Inside
      <4>3. end(d) <= end(parent(S))
        <5>1. \/ end(sibling(S)) = end(parent(S))
              \/ end(sibling(S)) = begin(S) /\ end(S) = end(parent(S))
          BY <2>9, <4>1, Siblings
        <5> QED
          BY <2>9, <2>10, <3>1, <3>2, <5>1
      <4> QED
        BY <2>2, <2>10, <3>1, <4>2, <4>3
    <3> QED
      BY <2>9, <3>8, <3>10, <3>11, <3>12, Laminar
  <2>16. i \in 1..l \/ i = l + 1
    BY <2>1, <2>7
  <2>17. end(P) <= e \/ end(P) = e + 1
    BY <1>0, <2>10, <2>12
  <2> QED
    BY <2>13, <2>14, <2>15, <2>16, <2>17
<1>4. r = ss \/ \E l \in 0..Len(ss), c \in Cell :
                  /\ r = Append(SubSeq(ss, 1, l), c) /\ ~(l > 0 /\ ss[l] = sibling(c))
                  /\ end(c) = e + 1 /\ \A i \in 1..l : end(ss[i]) <= begin(c)
  BY AddShape DEF r
<1> QED
  BY <1>2, <1>3, <1>4 DEF r

\* The list made of elements in order is in order and has those elements.
LEMMA AddedExact ==
  ASSUME NEW es \in Seq(0..Limit-1), \A i \in 1..Len(es)-1 : es[i] <= es[i + 1]
  PROVE  Ordered(Added(es)) /\ Maximal(Added(es)) /\ Elements(Added(es)) = Range(es)
<1> DEFINE n == Len(es)
           S == 0..n
           R == Seq(Cell)
           T == [i \in S |-> i # 0]
           N == [i \in S |-> i - 1]
           G == [i \in S |-> [y \in R |-> IF Add(y, es[i]) \in R THEN Add(y, es[i]) ELSE <<>>]]
           V == [i \in S |-> <<>>]
           m == [i \in S |-> i]
           Is(f) == f = [i \in 0..Len(es) |-> IF i = 0 THEN <<>> ELSE Add(f[i - 1], es[i])]
           Good(s, i) ==
             /\ Ordered(s) /\ Maximal(s) /\ Elements(s) = {es[j] : j \in 1..i}
             /\ i = 0 => s = <<>>
             /\ i # 0 => s # <<>> /\ end(s[Len(s)]) = es[i] + 1
<1>0. n \in Nat /\ \A i \in 1..n : es[i] \in 0..Limit-1 /\ es[i] \in Nat
  BY ShiftedPositive
<1>1. PICK f \in [S -> R] : Solves(f, S, T, N, G, V)
  <2>1. Falls(S, T, N, m, n + 1)
    <3>1. m \in [S -> Nat] /\ \A i \in S : m[i] < n + 1
      BY <1>0
    <3>2. \A i \in S : T[i] => N[i] \in S /\ m[N[i]] < m[i]
      <4> SUFFICES ASSUME NEW i \in S, i # 0 PROVE i - 1 \in S /\ m[i - 1] < m[i]
        OBVIOUS
      <4> QED
        BY <1>0
    <3> HIDE DEF S, T, N, m
    <3> QED
      BY <3>1, <3>2 DEF Falls
  <2>2. G \in [S -> [R -> R]] /\ V \in [S -> R] /\ n + 1 \in Nat
    <3>1. <<>> \in R
      OBVIOUS
    <3> HIDE DEF S, R
    <3> QED
      BY <1>0, <3>1
  <2> HIDE DEF S, T, N, G, V, m
  <2> QED
    BY <2>1, <2>2, RecursionExists
<1>2. f[0] = <<>> /\ \A i \in 1..n : Add(f[i - 1], es[i]) \in R => f[i] = Add(f[i - 1], es[i])
  <2>1. \A i \in S : f[i] = IF T[i] THEN G[i][f[N[i]]] ELSE V[i]
    BY <1>1 DEF Solves
  <2>2. 0 \in S /\ \A i \in S : (T[i] <=> i # 0) /\ N[i] = i - 1 /\ V[i] = <<>>
    <3>1. 0 \in S
      BY <1>0
    <3> HIDE DEF S
    <3> QED
      BY <3>1
  <2>3. ASSUME NEW i \in 1..n, Add(f[i - 1], es[i]) \in R PROVE f[i] = Add(f[i - 1], es[i])
    <3>1. i \in S /\ i - 1 \in S /\ T[i] /\ N[i] = i - 1
      <4>1. i \in S /\ i - 1 \in S /\ i # 0
        BY <1>0
      <4> HIDE DEF S, T, N, V
      <4> QED
        BY <2>2, <4>1
    <3>2. f[i - 1] \in R
      <4> HIDE DEF S, R
      <4> QED
        BY <1>1, <3>1
    <3>3. G[i][f[i - 1]] = Add(f[i - 1], es[i])
      <4> HIDE DEF S, R
      <4> QED
        BY <2>3, <3>1, <3>2
    <3> HIDE DEF S, T, N, G, V, R
    <3> QED
      BY <2>1, <3>1, <3>3
  <2>4. f[0] = <<>>
    <3> HIDE DEF S, T, N, G, V, R
    <3> QED
      BY <2>1, <2>2
  <2> QED
    BY <2>3, <2>4
<1> HIDE DEF Good
<1> DEFINE U == {i \in Nat : i <= n =>
                   /\ Good(f[i], i)
                   /\ i # 0 => f[i] = Add(f[i - 1], es[i])}
<1>3. \A i \in Nat : i \in U
  <2>1. 0 \in U
    <3>1. {es[j] : j \in 1..0} = {}
      OBVIOUS
    <3> QED
      BY <1>2, <3>1, EmptyBetween, EmptyMaximal DEF Good
  <2>2. ASSUME NEW k \in Nat, k \in U PROVE k + 1 \in U
    <3> SUFFICES ASSUME k + 1 <= n
                 PROVE  Good(f[k + 1], k + 1) /\ f[k + 1] = Add(f[k], es[k + 1])
      OBVIOUS
    <3>0. k <= n => Good(f[k], k)
      BY <2>2
    <3>1. k + 1 \in 1..n /\ (k + 1) - 1 = k /\ Good(f[k], k) /\ k <= n /\ k + 1 # 0
      BY <1>0, <3>0
    <3> DEFINE e == es[k + 1]
               s == f[k]
               r == Add(s, e)
    <3>2. s = <<>> \/ end(s[Len(s)]) <= e + 1
      <4>1. CASE k = 0
        BY <3>1, <4>1 DEF Good
      <4>2. CASE k # 0
        <5>1. k \in 1..n-1 /\ k \in 1..n
          BY <1>0, <3>1, <4>2
        <5>2. es[k] <= es[k + 1] /\ es[k] \in Nat /\ es[k + 1] \in Nat
          BY <1>0, <3>1, <5>1
        <5>3. end(s[Len(s)]) = es[k] + 1
          BY <3>1, <4>2 DEF Good
        <5> HIDE DEF s
        <5> QED
          BY <5>2, <5>3
      <4> QED
        BY <4>1, <4>2
    <3>3. Ordered(s) /\ Maximal(s) /\ Elements(s) = {es[j] : j \in 1..k} /\ e \in 0..Limit-1
      BY <1>0, <3>1 DEF Good
    <3> HIDE DEF s, e
    <3>4. /\ Ordered(r) /\ r # <<>> /\ end(r[Len(r)]) = e + 1
          /\ Elements(r) = Elements(s) \cup {e} /\ Maximal(r)
      BY <3>2, <3>3, AddKeeps, AddMaximal
    <3>5. f[k + 1] = r
      <4>1. r \in R
        BY <3>4 DEF Ordered
      <4> QED
        BY <1>2, <3>1, <4>1 DEF s, e
    <3>6. {es[j] : j \in 1..k + 1} = {es[j] : j \in 1..k} \cup {e}
      <4>1. 1..k + 1 = (1..k) \cup {k + 1}
        OBVIOUS
      <4> QED
        BY <4>1 DEF e
    <3> HIDE DEF r
    <3>7. Elements(r) = {es[j] : j \in 1..k + 1}
      BY <3>3, <3>4, <3>6
    <3> QED
      BY <3>1, <3>4, <3>5, <3>7 DEF Good, e, r, s
  <2> HIDE DEF U
  <2> QED
    BY <2>1, <2>2, SetInduction
<1>4. Is(f)
  <2>1. \A i \in S : f[i] = IF i = 0 THEN <<>> ELSE Add(f[i - 1], es[i])
    <3> SUFFICES ASSUME NEW i \in S, i # 0 PROVE f[i] = Add(f[i - 1], es[i])
      BY <1>2
    <3>1. i \in Nat /\ i <= n /\ i \in U
      BY <1>0, <1>3
    <3>2. i # 0 => f[i] = Add(f[i - 1], es[i])
      BY <3>1
    <3> QED
      BY <3>2
  <2>2. f = [i \in S |-> f[i]]
    BY <1>1
  <2> QED
    BY <2>1, <2>2
<1> DEFINE h == CHOOSE g : Is(g)
<1>5. Added(es) = h[n]
  BY DEF Added
<1>6. Is(h)
  <2> HIDE DEF Is
  <2> QED
    BY <1>4
<1> HIDE DEF h
<1> DEFINE W == {i \in Nat : i <= n => h[i] = f[i]}
<1>7. \A i \in Nat : i \in W
  <2>1. 0 \in W
    BY <1>0, <1>2, <1>6
  <2>2. ASSUME NEW k \in Nat, k \in W PROVE k + 1 \in W
    <3> SUFFICES ASSUME k + 1 <= n PROVE h[k + 1] = f[k + 1]
      OBVIOUS
    <3>1. k + 1 \in 0..Len(es) /\ k + 1 # 0 /\ (k + 1) - 1 = k /\ k <= n
      BY <1>0
    <3>2. h[k + 1] = Add(h[k], es[k + 1])
      BY <1>6, <3>1
    <3>3. f[k + 1] = Add(f[k], es[k + 1])
      BY <1>4, <3>1
    <3> QED
      BY <2>2, <3>1, <3>2, <3>3
  <2> HIDE DEF W
  <2> QED
    BY <2>1, <2>2, SetInduction
<1>8. Good(Added(es), n)
  <2>1. n \in U /\ n \in W
    <3> HIDE DEF U, W
    <3> QED
      BY <1>0, <1>3, <1>7
  <2>2. n <= n => Good(f[n], n)
    BY <2>1
  <2>3. n <= n => h[n] = f[n]
    BY <2>1
  <2> QED
    BY <1>0, <1>5, <2>2, <2>3
<1> QED
  BY <1>0, <1>8 DEF Good, Range

\* Sorting makes a list of the same elements in order.
LEMMA SortedExact ==
  ASSUME NEW elem \in Seq(0..Limit-1)
  PROVE  LET es == Sorted(elem)
         IN  /\ es \in Seq(0..Limit-1) /\ \A i \in 1..Len(es)-1 : es[i] <= es[i + 1]
             /\ Range(es) = Range(elem)
<1> DEFINE n == Len(elem)
           D == 1..n
           R == Range(elem)
           B(x) == {j \in D : elem[j] <= x}
           C(i) == {x \in R : i <= Cardinality(B(x))}
           es == [i \in D |-> Min(C(i))]
<1>0. n \in Nat /\ DOMAIN elem = D /\ R \subseteq 0..Limit-1 /\ R \subseteq Nat /\ \A j \in D : elem[j] \in R
  BY ShiftedPositive DEF Range
<1>1. Sorted(elem) = es
  BY <1>0 DEF Sorted
<1>2. IsFiniteSet(D) /\ Cardinality(D) = n
  <2>1. n \in Int /\ 1 \in Int
    BY <1>0
  <2>2. IsFiniteSet(D) /\ Cardinality(D) = IF 1 > n THEN 0 ELSE n - 1 + 1
    BY <2>1, FS_Interval
  <2> HIDE DEF D, n
  <2> QED
    BY <1>0, <2>2
<1>3. \A x \in R : /\ IsFiniteSet(B(x)) /\ Cardinality(B(x)) \in Nat /\ Cardinality(B(x)) <= n
  <2> TAKE x \in R
  <2>1. B(x) \in SUBSET D
    OBVIOUS
  <2> HIDE DEF B, D
  <2> QED
    BY <1>2, <2>1, FS_Subset, FS_CardinalityType
<1>4. ASSUME NEW i \in D PROVE C(i) \in SUBSET Nat /\ C(i) # {}
  <2>1. elem[i] \in R /\ \A x \in R : x <= Limit /\ Limit \in Nat
    BY <1>0, ShiftedPositive
  <2>2. PICK x \in R : \A y \in R : y <= x
    <3> HIDE DEF R
    <3> QED
      BY <1>0, <2>1, GreatestNat
  <2>3. B(x) = D
    BY <1>0, <2>2
  <2>4. x \in C(i)
    <3>1. i \in Nat /\ i <= n
      BY <1>0
    <3> HIDE DEF B, D
    <3>2. Cardinality(B(x)) = n
      BY <1>2, <2>3
    <3> QED
      BY <2>2, <3>1, <3>2
  <2> HIDE DEF B
  <2> QED
    BY <1>0, <2>4
<1>5. \A i \in D : es[i] \in C(i) /\ \A y \in C(i) : es[i] <= y
  <2> TAKE i \in D
  <2>1. es[i] = CHOOSE x \in C(i) : \A y \in C(i) : x =< y
    BY DEF Min
  <2>2. C(i) \in SUBSET Nat /\ C(i) # {}
    BY <1>4
  <2> HIDE DEF C, es
  <2>3. \E x \in C(i) : \A y \in C(i) : x =< y
    BY <2>2, LeastNat
  <2> QED
    BY <2>1, <2>3
<1> HIDE DEF es
<1>6. \A i \in D : es[i] \in R
  BY <1>5
<1>7. es \in Seq(0..Limit-1) /\ Len(es) = n /\ DOMAIN es = D
  <2>1. es \in [1..n -> 0..Limit-1]
    <3>1. es = [i \in D |-> es[i]]
      BY DEF es
    <3>2. \A i \in D : es[i] \in 0..Limit-1
      BY <1>0, <1>6
    <3> QED
      BY <3>1, <3>2
  <2>2. es \in Seq(0..Limit-1)
    BY <1>0, <2>1, SeqDef
  <2> QED
    BY <1>0, <2>1, <2>2
<1>8. ASSUME NEW i \in 1..n-1 PROVE es[i] <= es[i + 1]
  <2>1. i \in D /\ i + 1 \in D /\ i <= i + 1 /\ i \in Nat
    BY <1>0
  <2>2. es[i + 1] \in C(i + 1)
    BY <1>5, <2>1
  <2>3. es[i + 1] \in C(i)
    <3>1. es[i + 1] \in R /\ i + 1 <= Cardinality(B(es[i + 1]))
      BY <2>2
    <3>2. Cardinality(B(es[i + 1])) \in Nat
      <4> HIDE DEF B, R, D
      <4> QED
        BY <1>3, <3>1
    <3>3. i <= Cardinality(B(es[i + 1]))
      <4> HIDE DEF B
      <4> QED
        BY <2>1, <3>1, <3>2
    <3> QED
      BY <3>1, <3>3
  <2> HIDE DEF C
  <2> QED
    BY <1>5, <2>1, <2>3
<1>9. ASSUME NEW x \in R PROVE x \in Range(es)
  <2> DEFINE i == Cardinality(B(x))
  <2>1. PICK j \in D : elem[j] = x
    BY <1>0 DEF Range
  <2>2. j \in B(x) /\ i \in Nat /\ i <= n
    <3>1. j \in B(x)
      BY <1>0, <2>1
    <3> HIDE DEF B
    <3> QED
      BY <1>3, <3>1
  <2>3. i \in D
    <3>1. i # 0
      <4> SUFFICES ASSUME i = 0 PROVE FALSE
        OBVIOUS
      <4>1. IsFiniteSet(B(x))
        BY <1>3
      <4> HIDE DEF B
      <4>2. B(x) = {}
        BY <4>1, FS_EmptySet
      <4> QED
        BY <2>2, <4>2
    <3> HIDE DEF B
    <3> QED
      BY <1>0, <2>2, <3>1
  <2>4. x \in C(i)
    <3> HIDE DEF B
    <3> QED
      BY <2>2
  <2> DEFINE y == es[i]
  <2>5. y \in R /\ i <= Cardinality(B(y)) /\ y <= x
    <3>1. y \in C(i) /\ \A z \in C(i) : y <= z
      <4> HIDE DEF C, i, D
      <4> QED
        BY <1>5, <2>3
    <3> HIDE DEF i, y, B
    <3> QED
      BY <2>4, <3>1
  <2> HIDE DEF y
  <2>6. y = x
    <3> SUFFICES ASSUME y # x PROVE FALSE
      OBVIOUS
    <3>1. y < x /\ y \in Nat /\ x \in Nat
      BY <1>0, <2>5
    <3>2. B(y) \subseteq B(x)
      BY <1>0, <3>1
    <3>3. j \notin B(y)
      BY <2>1, <3>1
    <3> HIDE DEF B
    <3>4. /\ IsFiniteSet(B(x)) /\ B(y) \in SUBSET B(x) /\ Cardinality(B(y)) \in Nat
          /\ Cardinality(B(x)) \in Nat
      BY <1>3, <2>5, <3>2
    <3>5. Cardinality(B(y)) <= Cardinality(B(x)) /\ (Cardinality(B(x)) = Cardinality(B(y)) => B(x) = B(y))
      BY <3>4, FS_Subset
    <3>6. Cardinality(B(x)) = Cardinality(B(y))
      BY <2>5, <3>4, <3>5
    <3> QED
      BY <2>2, <3>3, <3>5, <3>6
  <2> HIDE DEF i, B
  <2> QED
    BY <1>7, <2>3, <2>6 DEF y, Range
<1>10. Range(es) = R
  <2>1. \A y \in Range(es) : y \in R
    <3> HIDE DEF R, D
    <3> QED
      BY <1>6, <1>7 DEF Range
  <2> HIDE DEF R
  <2> QED
    BY <1>9, <2>1
<1> DEFINE q == Sorted(elem)
<1> HIDE DEF q, D
<1>11. q \in Seq(0..Limit-1) /\ (\A i \in 1..Len(q)-1 : q[i] <= q[i + 1]) /\ Range(q) = R
  BY <1>1, <1>7, <1>8, <1>10 DEF q
<1> QED
  BY <1>11 DEF q

\* NewSet63 makes a list of cells in order with the elements it is given, in whatever
\* order and however often they come (NewSet63, set63.go:119-149).
THEOREM NewSet63Exact ==
  ASSUME NEW elem \in Seq(0..Limit-1)
  PROVE  Ordered(NewSet63(elem)) /\ Maximal(NewSet63(elem)) /\ Elements(NewSet63(elem)) = Range(elem)
<1> DEFINE es == Sorted(elem)
<1> HIDE DEF es
<1>1. es \in Seq(0..Limit-1) /\ (\A i \in 1..Len(es)-1 : es[i] <= es[i + 1]) /\ Range(es) = Range(elem)
  BY SortedExact DEF es
<1>2. Ordered(Added(es)) /\ Maximal(Added(es)) /\ Elements(Added(es)) = Range(es)
  BY <1>1, AddedExact
<1>3. NewSet63(elem) = Added(es)
  BY DEF NewSet63, es
<1> QED
  BY <1>1, <1>2, <1>3

-----------------------------------------------------------------------------
(* Queries.                                                                *)

\* A number is the least of a set.
LEMMA MinIs ==
  ASSUME NEW U \in SUBSET Int, NEW x \in U, \A y \in U : x <= y
  PROVE  Min(U) = x
<1>1. Min(U) \in U /\ \A y \in U : Min(U) <= y
  BY DEF Min
<1>2. Min(U) <= x /\ x <= Min(U)
  BY <1>1
<1>3. Min(U) \in Int /\ x \in Int
  BY <1>1
<1> QED
  BY <1>2, <1>3

\* A number is the greatest of a set.
LEMMA MaxIs ==
  ASSUME NEW U \in SUBSET Int, NEW x \in U, \A y \in U : y <= x
  PROVE  Max(U) = x
<1>1. Max(U) \in U /\ \A y \in U : Max(U) >= y
  BY DEF Max
<1>2. Max(U) \in Int /\ x \in Int
  BY <1>1
<1>3. Max(U) >= x /\ Max(U) <= x
  BY <1>1
<1> QED
  BY <1>2, <1>3

\* search stops at the first cell that is not below c.
LEMMA SearchIs ==
  ASSUME NEW s \in Seq(Cell), NEW i \in 1..Len(s)+1, NEW c \in Int
  PROVE  LET r == search(s, i, Len(s), c)
         IN  /\ r \in i..Len(s)+1 /\ r \in Nat
             /\ \A h \in i..r-1 : h \in DOMAIN s /\ s[h] < c
             /\ r <= Len(s) => r \in DOMAIN s /\ s[r] >= c
<1> DEFINE j == Len(s)
           U == {j + 1} \cup {h \in i..j : s[h] >= c}
<1>0. j \in Nat /\ DOMAIN s = 1..j /\ i \in Nat /\ i >= 1 /\ (\A h \in 1..j : s[h] \in Int)
  <2>1. j \in Nat /\ DOMAIN s = 1..j /\ \A h \in 1..j : s[h] \in Cell
    OBVIOUS
  <2>2. \A x \in Cell : x \in Int
    BY ShiftedPositive DEF Cell
  <2>3. i \in Nat /\ i >= 1
    BY <2>1
  <2> QED
    BY <2>1, <2>2, <2>3
<1>1. U \in SUBSET Nat /\ U # {}
  BY <1>0
<1>2. PICK r : r \in U /\ \A y \in U : r <= y
  <2> HIDE DEF U
  <2> QED
    BY <1>1, LeastNat
<1>3. search(s, i, Len(s), c) = r
  <2>1. Min(U) = r
    <3> HIDE DEF U
    <3> QED
      BY <1>1, <1>2, MinIs
  <2> QED
    BY <2>1 DEF search
<1>4. r \in i..j+1 /\ r \in Nat
  BY <1>0, <1>1, <1>2
<1>5. ASSUME NEW h \in i..r-1 PROVE h \in DOMAIN s /\ s[h] < c
  <2>1. h \in i..j /\ h \in 1..j /\ ~(r <= h)
    BY <1>0, <1>4
  <2>2. h \notin U
    BY <1>2, <2>1
  <2>3. ~(s[h] >= c)
    BY <2>1, <2>2
  <2> QED
    BY <1>0, <2>1, <2>3
<1>6. ASSUME r <= j PROVE r \in DOMAIN s /\ s[r] >= c
  <2>1. r # j + 1
    BY <1>0, <1>4, <1>6
  <2> QED
    BY <1>0, <1>2, <1>4, <1>6, <2>1
<1> QED
  BY <1>3, <1>4, <1>5, <1>6

\* Contains finds an element exactly when a cell of the set has it.
LEMMA ContainsExact ==
  ASSUME NEW s, Ordered(s), NEW e \in 0..Limit-1
  PROVE  ContainsElem(s, e) <=> e \in Elements(s)
<1> DEFINE c == singleton(e)
           i == search(s, 1, Len(s), c)
<1>0. /\ s \in Seq(Cell) /\ DOMAIN s = 1..Len(s) /\ Len(s) \in Nat /\ e \in Nat /\ c = 2 * e + 1
      /\ Limit \in Nat
      /\ \A k \in DOMAIN s : /\ s[k] \in Cell /\ begin(s[k]) \in Nat /\ end(s[k]) \in Nat
                             /\ begin(s[k]) < end(s[k]) /\ s[k] = begin(s[k]) + end(s[k])
  BY CellBounds, CellNamed, ShiftedPositive DEF Ordered, singleton
<1>1. /\ i \in 1..Len(s)+1 /\ i \in Nat
      /\ \A h \in 1..i-1 : h \in DOMAIN s /\ s[h] < c
      /\ i <= Len(s) => i \in DOMAIN s /\ s[i] >= c
  <2>1. 1 \in 1..Len(s)+1 /\ c \in Int
    BY <1>0
  <2> HIDE DEF c
  <2> QED
    BY <1>0, <2>1, SearchIs
<1>2. ContainsElem(s, e) <=> (i > 1 /\ e < end(s[i - 1])) \/ (i <= Len(s) /\ begin(s[i]) <= e)
  BY DEF ContainsElem
<1> HIDE DEF i, c
<1>3. ASSUME NEW k \in DOMAIN s PROVE e \in Within(s[k]) <=> begin(s[k]) <= e /\ e < end(s[k])
  BY <1>0 DEF Within
<1>4. ASSUME i > 1, e < end(s[i - 1]) PROVE e \in Elements(s)
  <2>1. i - 1 \in DOMAIN s /\ s[i - 1] < c
    BY <1>1, <1>4
  <2>2. begin(s[i - 1]) <= e
    BY <1>0, <1>4, <2>1
  <2> QED
    BY <1>3, <1>4, <2>1, <2>2 DEF Elements
<1>5. ASSUME i <= Len(s), begin(s[i]) <= e PROVE e \in Elements(s)
  <2>1. e < end(s[i])
    BY <1>0, <1>1, <1>5
  <2> QED
    BY <1>1, <1>3, <1>5, <2>1 DEF Elements
<1>6. ASSUME e \in Elements(s)
      PROVE  (i > 1 /\ e < end(s[i - 1])) \/ (i <= Len(s) /\ begin(s[i]) <= e)
  <2>1. PICK k \in DOMAIN s : begin(s[k]) <= e /\ e < end(s[k])
    BY <1>3, <1>6 DEF Elements
  <2>2. CASE k < i
    <3>0. k \in 1..Len(s) /\ i \in Nat /\ Len(s) \in Nat
      BY <1>0, <1>1
    <3>1. k \in 1..Len(s) /\ i > 1 /\ i - 1 \in 1..i-1 /\ (k = i - 1 \/ k < i - 1)
      BY ONLY <3>0, <2>2
    <3>a. i - 1 \in DOMAIN s
      BY <1>1, <3>1
    <3>2. k < i - 1 => end(s[k]) <= begin(s[i - 1])
      BY <2>1, <3>1, <3>a, OrderedApart
    <3>3. e < end(s[i - 1])
      BY <1>0, <2>1, <3>1, <3>a, <3>2
    <3> QED
      BY <3>1, <3>3
  <2>3. CASE i <= k
    <3>1. i \in DOMAIN s /\ i <= Len(s) /\ k \in Nat /\ (k = i \/ i < k)
      BY <1>0, <1>1, <2>1, <2>3
    <3>2. i < k => end(s[i]) <= begin(s[k])
      BY <2>1, <3>1, OrderedApart
    <3>3. begin(s[i]) <= e
      BY <1>0, <2>1, <3>1, <3>2
    <3> QED
      BY <3>1, <3>3
  <2> QED
    BY <1>0, <1>1, <2>1, <2>2, <2>3
<1> QED
  BY <1>2, <1>4, <1>5, <1>6

\* it is the function that Count's fold is defined by.
Counts(it, s) ==
  it = [u \in SUBSET (DOMAIN s) |-> IF u = {} THEN 0 ELSE it[u \ {Max(u)}] + lsb(s[Max(u)])]

LEMMA CountUnfolds ==
  ASSUME NEW s
  PROVE  Count(s) = (CHOOSE it : Counts(it, s))[DOMAIN s]
  BY DEF Count, FoldLeft, MapThenFoldSet, Counts

\* The fold of Count adds up the cells from the first on.
LEMMA CountRecursion ==
  ASSUME NEW s \in Seq(Cell)
  PROVE  \E it : /\ Count(s) = it[1..Len(s)] /\ it[{}] = 0
                 /\ \A n \in 1..Len(s) : it[1..n] = it[1..n-1] + lsb(s[n])
<1> DEFINE D == DOMAIN s
           G == [i \in D |-> [r \in Nat |-> r + lsb(s[i])]]
           c == [u \in SUBSET D |-> Max(u)]
           it == CHOOSE it : Counts(it, s)
<1>0. D = 1..Len(s) /\ Len(s) \in Nat /\ IsFiniteSet(D)
  BY FS_Interval
<1>1. \A i \in D : lsb(s[i]) \in Nat
  <2>1. ASSUME NEW i \in D PROVE lsb(s[i]) \in Nat
    <3>1. s[i] \in Cell
      OBVIOUS
    <3>2. PICK b, l : IsCell(s[i], b, l)
      BY <3>1, CellIs
    <3>3. lsb(s[i]) = shifted[l] /\ l \in 0..Bits
      BY <3>2, CellShape DEF IsCell
    <3> QED
      BY <3>3, ShiftedPositive
  <2> QED
    BY <2>1
<1>2. ASSUME NEW u \in SUBSET D, u # {}
      PROVE  Max(u) \in u
  <2>1. u \in SUBSET Nat /\ \A x \in u : x <= Len(s)
    BY <1>0
  <2>2. PICK x : x \in u /\ \A y \in u : y <= x
    <3> HIDE DEF D
    <3> QED
      BY <1>0, <1>2, <2>1, GreatestNat
  <2>3. Max(u) = x
    <3> HIDE DEF D
    <3> QED
      BY <2>1, <2>2, MaxIs
  <2> QED
    BY <2>2, <2>3
<1>3. Counts(it, s)
  <2>1. 0 \in Nat /\ G \in [D -> [Nat -> Nat]]
    BY <1>1
  <2>2. \A u \in SUBSET D : u # {} => c[u] \in u
    BY <1>2
  <2>3. PICK jt : jt \in [SUBSET D -> Nat] /\ FoldsWith(jt, G, c, 0, D)
    <3>1. IsFiniteSet(D)
      BY <1>0
    <3>3. Chooses(c, D)
      BY <2>2 DEF Chooses
    <3> HIDE DEF D, G, c
    <3>2. \E jt \in [SUBSET D -> Nat] : FoldsWith(jt, G, c, 0, D)
      BY <2>1, <3>1, <3>3, FoldWithExists
    <3> QED
      BY <3>2
  <2>4. jt = [u \in SUBSET D |-> IF u = {} THEN 0 ELSE G[c[u]][jt[u \ {c[u]}]]]
    BY <2>3 DEF FoldsWith
  <2>5. ASSUME NEW u \in SUBSET D, u # {}
        PROVE  G[c[u]][jt[u \ {c[u]}]] = jt[u \ {Max(u)}] + lsb(s[Max(u)])
    <3>1. c[u] = Max(u) /\ Max(u) \in D /\ u \ {Max(u)} \in SUBSET D
      BY <1>2, <2>5
    <3>2. jt[u \ {Max(u)}] \in Nat
      BY <2>3, <3>1
    <3>3. G[Max(u)] = [r \in Nat |-> r + lsb(s[Max(u)])]
      BY <3>1
    <3> HIDE DEF G, c, D
    <3> QED
      BY <3>1, <3>2, <3>3
  <2>6. jt = [u \in SUBSET D |-> IF u = {} THEN 0 ELSE jt[u \ {Max(u)}] + lsb(s[Max(u)])]
    <3> HIDE DEF D, G, c
    <3> QED
      BY <2>4, <2>5
  <2>7. Counts(jt, s)
    BY <2>6 DEF Counts
  <2> QED
    BY <2>7
<1> HIDE DEF it
<1>4. \A u \in SUBSET D : it[u] = IF u = {} THEN 0 ELSE it[u \ {Max(u)}] + lsb(s[Max(u)])
  BY <1>3 DEF Counts
<1>5. Count(s) = it[1..Len(s)]
  BY <1>0, CountUnfolds DEF it
<1>6. it[{}] = 0
  BY <1>4
<1>7. ASSUME NEW n \in 1..Len(s) PROVE it[1..n] = it[1..n-1] + lsb(s[n])
  <2>1. n \in Nat /\ 1..n \in SUBSET D /\ 1..n # {} /\ n \in 1..n /\ (1..n) \ {n} = 1..n-1
    BY <1>0
  <2>2. Max(1..n) = n
    <3>1. 1..n \in SUBSET Int /\ \A y \in 1..n : y <= n
      OBVIOUS
    <3> QED
      BY <2>1, <3>1, MaxIs
  <2> HIDE DEF D
  <2> QED
    BY <1>4, <2>1, <2>2
<1> QED
  BY <1>5, <1>6, <1>7

\* Count counts the elements.
LEMMA CountExact ==
  ASSUME NEW s, Ordered(s)
  PROVE  Count(s) = Cardinality(Elements(s))
<1>0. /\ s \in Seq(Cell) /\ DOMAIN s = 1..Len(s) /\ Len(s) \in Nat
      /\ \A i \in DOMAIN s : /\ begin(s[i]) \in Nat /\ end(s[i]) \in Nat
                             /\ begin(s[i]) < end(s[i]) /\ end(s[i]) = begin(s[i]) + lsb(s[i])
                             /\ lsb(s[i]) \in Nat
  <2>1. s \in Seq(Cell)
    BY DEF Ordered
  <2>2. ASSUME NEW i \in DOMAIN s
        PROVE /\ begin(s[i]) \in Nat /\ end(s[i]) \in Nat
              /\ begin(s[i]) < end(s[i]) /\ end(s[i]) = begin(s[i]) + lsb(s[i])
              /\ lsb(s[i]) \in Nat
    <3>1. s[i] \in Cell
      BY <2>1
    <3>2. PICK b, l : IsCell(s[i], b, l)
      BY <3>1, CellIs
    <3>3. lsb(s[i]) = shifted[l] /\ l \in 0..Bits /\ begin(s[i]) = b /\ end(s[i]) = b + shifted[l]
      BY <3>2, CellShape DEF IsCell
    <3> QED
      BY <3>1, <3>3, CellBounds, ShiftedPositive
  <2> QED
    BY <2>1, <2>2
<1>1. PICK it : /\ Count(s) = it[1..Len(s)] /\ it[{}] = 0
                /\ \A n \in 1..Len(s) : it[1..n] = it[1..n-1] + lsb(s[n])
  BY <1>0, CountRecursion
<1> DEFINE T == {n \in Nat : n <= Len(s) =>
                   IsFiniteSet(First(s, n)) /\ it[1..n] = Cardinality(First(s, n))}
<1>2. 0 \in T
  <2>1. First(s, 0) = {}
    <3>1. 1..0 = {}
      OBVIOUS
    <3> QED
      BY <3>1 DEF First
  <2> QED
    BY <1>1, <2>1, 1..0 = {}, FS_EmptySet
<1>3. ASSUME NEW n \in Nat, n \in T PROVE n + 1 \in T
  <2> SUFFICES ASSUME n + 1 <= Len(s)
               PROVE  IsFiniteSet(First(s, n + 1)) /\ it[1..n+1] = Cardinality(First(s, n + 1))
    OBVIOUS
  <2>0. n <= Len(s) /\ n + 1 \in 1..Len(s) /\ n + 1 \in DOMAIN s /\ (n + 1) - 1 = n
    BY <1>0
  <2>1. First(s, n + 1) = First(s, n) \cup Within(s[n + 1])
    <3>1. 1..n+1 = 1..n \cup {n + 1}
      OBVIOUS
    <3> QED
      BY <3>1 DEF First
  <2>2. First(s, n) \cap Within(s[n + 1]) = {}
    <3> SUFFICES ASSUME NEW x \in First(s, n), x \in Within(s[n + 1]) PROVE FALSE
      OBVIOUS
    <3>1. PICK i \in 1..n : x \in Within(s[i])
      BY DEF First
    <3>2. i \in DOMAIN s /\ i < n + 1
      BY <1>0, <2>0
    <3>3. end(s[i]) <= begin(s[n + 1])
      BY <2>0, <3>2, OrderedApart
    <3>4. begin(s[i]) \in Nat /\ end(s[i]) \in Nat /\ begin(s[n + 1]) \in Nat
      BY <1>0, <2>0, <3>2
    <3>5. x < end(s[i]) /\ begin(s[n + 1]) <= x /\ x \in Int
      BY ONLY <3>1, <3>4, x \in Within(s[n + 1]) DEF Within
    <3> QED
      BY ONLY <3>3, <3>4, <3>5
  <2>3. IsFiniteSet(Within(s[n + 1])) /\ Cardinality(Within(s[n + 1])) = lsb(s[n + 1])
    <3>1. begin(s[n + 1]) \in Int /\ end(s[n + 1]) - 1 \in Int
      BY <1>0, <2>0
    <3>2. /\ IsFiniteSet(begin(s[n + 1])..end(s[n + 1])-1)
          /\ Cardinality(begin(s[n + 1])..end(s[n + 1])-1) =
               IF begin(s[n + 1]) > end(s[n + 1]) - 1 THEN 0 ELSE (end(s[n + 1]) - 1) - begin(s[n + 1]) + 1
      BY <3>1, FS_Interval
    <3> QED
      BY <1>0, <2>0, <3>2 DEF Within
  <2>4. IsFiniteSet(First(s, n)) /\ it[1..n] = Cardinality(First(s, n)) /\ Cardinality(First(s, n)) \in Nat
    <3>1. IsFiniteSet(First(s, n)) /\ it[1..n] = Cardinality(First(s, n))
      BY <1>3, <2>0
    <3> QED
      BY <3>1, FS_CardinalityType
  <2>5. IsFiniteSet(First(s, n) \cup Within(s[n + 1]))
        /\ Cardinality(First(s, n) \cup Within(s[n + 1])) =
             Cardinality(First(s, n)) + Cardinality(Within(s[n + 1])) - Cardinality(First(s, n) \cap Within(s[n + 1]))
    BY <2>3, <2>4, FS_Union
  <2>6. Cardinality(First(s, n) \cap Within(s[n + 1])) = 0
    BY <2>2, FS_EmptySet
  <2>7. it[1..n+1] = it[1..n] + lsb(s[n + 1])
    BY <1>1, <2>0
  <2>8. lsb(s[n + 1]) \in Nat
    BY <1>0, <2>0
  <2>9. IsFiniteSet(First(s, n + 1))
    BY <2>1, <2>5
  <2>10. Cardinality(First(s, n + 1)) = it[1..n] + lsb(s[n + 1]) - 0
    BY <2>1, <2>3, <2>4, <2>5, <2>6
  <2>11. it[1..n] \in Nat
    BY <2>4
  <2> QED
    BY ONLY <2>7, <2>8, <2>9, <2>10, <2>11
<1>4. Len(s) \in T
  <2> HIDE DEF T
  <2> QED
    BY <1>0, <1>2, <1>3, SetInduction
<1>5. First(s, Len(s)) = Elements(s)
  BY <1>0 DEF Elements, First
<1> QED
  BY <1>0, <1>1, <1>4, <1>5

\* Span returns the smallest and the largest element.
LEMMA SpanExact ==
  ASSUME NEW s, Ordered(s)
  PROVE  Span(s) = IF Elements(s) = {} THEN <<0, -1>> ELSE <<Min(Elements(s)), Max(Elements(s))>>
<1>0. /\ s \in Seq(Cell) /\ DOMAIN s = 1..Len(s) /\ Len(s) \in Nat
      /\ \A i \in DOMAIN s : /\ begin(s[i]) \in Nat /\ end(s[i]) \in Nat
                             /\ begin(s[i]) < end(s[i])
  BY CellBounds DEF Ordered
<1>1. CASE s = <<>>
  <2>1. Elements(s) = {}
    BY <1>1, EmptyBetween
  <2> QED
    BY <1>1, <2>1 DEF Span
<1>2. CASE s # <<>>
  <2> DEFINE n == Len(s)
  <2>1. 1 \in DOMAIN s /\ n \in DOMAIN s /\ Last(s) = s[n]
    BY <1>0, <1>2 DEF Last
  <2>2. \A i \in DOMAIN s : begin(s[1]) <= begin(s[i]) /\ end(s[i]) <= end(s[n])
    <3> TAKE i \in DOMAIN s
    <3>1. 1 < i => end(s[1]) <= begin(s[i])
      BY <2>1, OrderedApart
    <3>2. i < n => end(s[i]) <= begin(s[n])
      BY <2>1, OrderedApart
    <3>3. i = 1 \/ 1 < i
      BY <1>0
    <3>4. i = n \/ i < n
      BY <1>0
    <3>5. begin(s[1]) <= begin(s[i])
      BY <1>0, <2>1, <3>1, <3>3
    <3>6. end(s[i]) <= end(s[n])
      BY <1>0, <2>1, <3>2, <3>4
    <3> QED
      BY <3>5, <3>6
  <2>3. Elements(s) \in SUBSET Int /\ \A x \in Elements(s) : begin(s[1]) <= x /\ x <= end(s[n]) - 1
    <3> SUFFICES ASSUME NEW x \in Elements(s)
                 PROVE  x \in Int /\ begin(s[1]) <= x /\ x <= end(s[n]) - 1
      OBVIOUS
    <3>1. PICK i \in DOMAIN s : x \in Within(s[i])
      BY DEF Elements
    <3>2. /\ begin(s[i]) \in Nat /\ end(s[i]) \in Nat /\ begin(s[1]) \in Nat /\ end(s[n]) \in Nat
          /\ begin(s[1]) <= begin(s[i]) /\ end(s[i]) <= end(s[n])
      BY <1>0, <2>1, <2>2
    <3> QED
      BY ONLY <3>1, <3>2 DEF Within
  <2>4. begin(s[1]) \in Elements(s) /\ end(s[n]) - 1 \in Elements(s)
    <3>1. begin(s[1]) \in Within(s[1]) /\ end(s[n]) - 1 \in Within(s[n])
      BY <1>0, <2>1 DEF Within
    <3> QED
      BY <2>1, <3>1 DEF Elements
  <2>5. Min(Elements(s)) = begin(s[1]) /\ Max(Elements(s)) = end(s[n]) - 1
    BY <2>3, <2>4, MinIs, MaxIs
  <2> QED
    BY <1>2, <2>1, <2>4, <2>5 DEF Span
<1> QED
  BY <1>1, <1>2

-----------------------------------------------------------------------------
(* ForEachInterval.                                                        *)

\* The cells of s from the i-th on.
Suffix(s, i) == SubSeq(s, i, Len(s))

\* f is what ForEachInterval calls from every position on.
CallsFrom(f, s) ==
  f = [i \in 1..Len(s)+1 |->
        IF i > Len(s) THEN <<>>
        ELSE LET h == headx(SubSeq(s, i, Len(s)))
             IN  << <<h.b, h.e - 1>> >> \o f[i + Len(h.head)]]

LEMMA ForEachUnfolds ==
  ASSUME NEW s
  PROVE  ForEachInterval(s) = (CHOOSE f : CallsFrom(f, s))[1]
  BY DEF ForEachInterval, CallsFrom

\* What is left of an ordered list is one; its first interval takes some of its cells.
LEMMA SuffixHead ==
  ASSUME NEW s, Ordered(s), NEW i \in 1..Len(s)
  PROVE  LET t == Suffix(s, i)
             h == headx(t)
         IN  /\ Ordered(t) /\ t # <<>> /\ t[1] = s[i]
             /\ Len(h.head) \in Nat /\ 1 <= Len(h.head) /\ i + Len(h.head) \in 1..Len(s)+1
             /\ h.b \in Nat /\ h.e \in Nat /\ h.b < h.e
             /\ Suffix(s, i + Len(h.head)) = h.rest
             /\ Between(h.rest, h.e + 1, Limit)
             /\ Elements(t) = (h.b..h.e-1) \cup Elements(h.rest)
<1> DEFINE t == Suffix(s, i)
           n == Len(s)
           h == headx(t)
           m == Len(h.head)
<1>0. s \in Seq(Cell) /\ DOMAIN s = 1..n /\ n \in Nat /\ i \in Nat /\ i >= 1 /\ i <= n
  BY DEF Ordered
<1>1. /\ t \in Seq(Cell) /\ Len(t) = n - i + 1 /\ \A k \in 1..n-i+1 : t[k] = s[i + k - 1]
  <2>1. i \in Int /\ n \in Int /\ \A k \in i..n : s[k] \in Cell
    BY <1>0
  <2>2. /\ SubSeq(s, i, n) \in Seq(Cell)
        /\ Len(SubSeq(s, i, n)) = IF i <= n THEN n - i + 1 ELSE 0
        /\ \A k \in 1..n-i+1 : SubSeq(s, i, n)[k] = s[i + k - 1]
    BY <2>1, SubSeqProperties
  <2> QED
    BY <1>0, <2>2 DEF Suffix
<1> HIDE DEF t
<1>2. Ordered(t)
  <2>1. ASSUME NEW k \in 1..Len(t)-1 PROVE end(t[k]) <= begin(t[k + 1])
    <3>1. /\ i + k - 1 \in 1..n-1 /\ k \in 1..n-i+1 /\ k + 1 \in 1..n-i+1
          /\ i + (k + 1) - 1 = (i + k - 1) + 1
      BY <1>0, <1>1
    <3>2. end(s[i + k - 1]) <= begin(s[(i + k - 1) + 1])
      BY <3>1 DEF Ordered
    <3> QED
      BY <1>1, <3>1, <3>2
  <2> QED
    BY <1>1, <2>1 DEF Ordered
<1>3. t # <<>> /\ t[1] = s[i]
  <2>1. 1 \in 1..n-i+1 /\ i + 1 - 1 = i
    BY <1>0
  <2> QED
    BY <1>0, <1>1, <2>1
<1>4. /\ h \in [head : Seq(Cell), rest : Seq(Cell), b : Nat, e : Nat]
      /\ h.b < h.e /\ Tiles(h.head, h.b, h.e) /\ Between(h.rest, h.e + 1, Limit)
      /\ t = h.head \o h.rest
      /\ Elements(t) = (h.b..h.e-1) \cup Elements(h.rest)
  BY <1>2, <1>3, HeadxSplits
<1>5. h.head \in Seq(Cell) /\ h.rest \in Seq(Cell) /\ h.b \in Nat /\ h.e \in Nat /\ h.head # <<>>
  BY <1>4 DEF Tiles
<1> HIDE DEF h
<1>6. m \in Nat /\ 1 <= m /\ Len(h.rest) \in Nat /\ n - i + 1 = m + Len(h.rest)
  <2>1. Len(h.head \o h.rest) = Len(h.head) + Len(h.rest)
    BY <1>5
  <2> QED
    BY <1>1, <1>4, <1>5, <2>1
<1>a. Len(h.head) = m /\ Len(s) = n
  OBVIOUS
<1> HIDE DEF m, n
<1>7. Suffix(s, i + m) = h.rest
  <2> DEFINE u == Suffix(s, i + m)
  <2>1. i + m \in Int /\ n \in Int /\ \A k \in i+m..n : s[k] \in Cell
    BY <1>0, <1>6
  <2>2. /\ SubSeq(s, i + m, n) \in Seq(Cell)
        /\ Len(SubSeq(s, i + m, n)) = IF i + m <= n THEN n - (i + m) + 1 ELSE 0
        /\ \A k \in 1..n-(i+m)+1 : SubSeq(s, i + m, n)[k] = s[(i + m) + k - 1]
    BY <2>1, SubSeqProperties
  <2>b. u = SubSeq(s, i + m, n) /\ i + m <= n + 1
    BY <1>0, <1>6, <1>a DEF Suffix
  <2>3. u \in Seq(Cell) /\ Len(u) = n - (i + m) + 1
    <3>1. CASE i + m <= n
      BY <2>2, <2>b, <3>1
    <3>2. CASE ~(i + m <= n)
      <4>1. n - (i + m) + 1 = 0
        BY <1>0, <1>6, <2>b, <3>2
      <4> QED
        BY <2>2, <2>b, <3>2, <4>1
    <3> QED
      BY <3>1, <3>2
  <2>c. n - (i + m) + 1 = Len(h.rest)
    BY <1>0, <1>6
  <2>4. Len(u) = Len(h.rest)
    BY <2>3, <2>c
  <2>5. ASSUME NEW k \in 1..Len(h.rest) PROVE u[k] = h.rest[k]
    <3>1. /\ k \in 1..n-(i+m)+1 /\ m + k \in 1..n-i+1 /\ i + (m + k) - 1 = (i + m) + k - 1
          /\ m + k - m = k
      BY <1>0, <1>6
    <3>2. u[k] = s[(i + m) + k - 1]
      BY <2>2, <2>b, <3>1
    <3>3. t[m + k] = s[i + (m + k) - 1]
      BY <1>1, <3>1
    <3>4. (h.head \o h.rest)[m + k] = h.rest[k]
      <4>1. m + k \in Len(h.head)+1..Len(h.head)+Len(h.rest) /\ (m + k) - Len(h.head) = k
        BY <1>6, <1>a
      <4> QED
        BY <1>5, <4>1
    <3> QED
      BY <1>4, <3>1, <3>2, <3>3, <3>4
  <2> HIDE DEF u
  <2>6. u = h.rest
    BY <1>5, <2>3, <2>4, <2>5, SeqEqual
  <2> QED
    BY <2>6 DEF u
<1>8. i + m \in 1..n+1
  BY <1>0, <1>6
<1> QED
  BY <1>2, <1>3, <1>4, <1>5, <1>6, <1>7, <1>8, <1>a DEF h, t

\* all lists intervals that do not touch and hold the elements elems.
Describes(all, elems) ==
  /\ all \in Seq(Nat \X Nat)
  /\ elems = UNION {all[i][1]..all[i][2] : i \in DOMAIN all}
  /\ \A i \in 1..Len(all)-1 : all[i][2] + 1 < all[i + 1][1]

\* An interval can be put in front, before a gap.
LEMMA DescribesPrepend ==
  ASSUME NEW b \in Nat, NEW e \in Nat, NEW all, NEW elems, Describes(all, elems),
         all # <<>> => e + 1 < all[1][1]
  PROVE  LET r == << <<b, e>> >> \o all
         IN  Describes(r, (b..e) \cup elems) /\ r # <<>> /\ r[1] = <<b, e>>
<1> DEFINE x == <<b, e>>
           p == <<x>>
           r == p \o all
<1>0. /\ all \in Seq(Nat \X Nat) /\ Len(all) \in Nat /\ DOMAIN all = 1..Len(all)
      /\ x \in Nat \X Nat /\ x[1] = b /\ x[2] = e
  BY DEF Describes
<1> HIDE DEF x
<1>1. p \in Seq(Nat \X Nat) /\ Len(p) = 1 /\ p[1] = x
  BY <1>0
<1> HIDE DEF p
<1>2. /\ r \in Seq(Nat \X Nat) /\ Len(r) = Len(all) + 1 /\ DOMAIN r = 1..Len(all)+1
      /\ r[1] = x /\ \A i \in 1..Len(all) : r[i + 1] = all[i]
  <2>1. /\ r \in Seq(Nat \X Nat) /\ Len(r) = 1 + Len(all)
        /\ \A i \in 1..1+Len(all) : r[i] = IF i <= 1 THEN p[i] ELSE all[i - 1]
    <3>1. r \in Seq(Nat \X Nat) /\ Len(r) = Len(p) + Len(all)
      BY ONLY <1>0, <1>1, ConcatProperties
    <3>2. \A i \in 1..Len(p)+Len(all) : r[i] = IF i <= Len(p) THEN p[i] ELSE all[i - Len(p)]
      BY ONLY <1>0, <1>1, ConcatProperties
    <3> HIDE DEF r
    <3> QED
      BY <1>1, <3>1, <3>2
  <2> HIDE DEF r
  <2>2. ASSUME NEW i \in 1..Len(all) PROVE r[i + 1] = all[i]
    <3>1. i + 1 \in 1..1+Len(all) /\ ~(i + 1 <= 1) /\ (i + 1) - 1 = i
      BY <1>0
    <3> QED
      BY <2>1, <3>1
  <2>3. 1 \in 1..1+Len(all) /\ 1 + Len(all) = Len(all) + 1
    BY <1>0
  <2>4. r[1] = x
    BY <1>1, <2>1, <2>3
  <2>5. Len(r) = Len(all) + 1
    BY ONLY <2>1, <2>3
  <2>6. DOMAIN r = 1..Len(all)+1
    BY ONLY <2>1, <2>5
  <2> QED
    BY ONLY <2>1, <2>2, <2>4, <2>5, <2>6
<1> HIDE DEF r
<1>3. (b..e) \cup elems = UNION {r[i][1]..r[i][2] : i \in DOMAIN r}
  <2>1. elems = UNION {all[i][1]..all[i][2] : i \in DOMAIN all}
    BY DEF Describes
  <2>2. \A i \in DOMAIN all : i + 1 \in DOMAIN r /\ r[i + 1] = all[i]
    <3>1. \A i \in 1..Len(all) : i + 1 \in 1..Len(all)+1
      BY ONLY <1>0
    <3> QED
      BY <1>0, <1>2, <3>1
  <2>3. \A i \in DOMAIN r : i = 1 \/ (i - 1 \in DOMAIN all /\ r[i] = all[i - 1])
    <3> TAKE i \in DOMAIN r
    <3>0. i \in 1..Len(all)+1 /\ Len(all) \in Nat
      BY <1>0, <1>2
    <3>1. i = 1 \/ (i - 1 \in 1..Len(all) /\ (i - 1) + 1 = i)
      BY ONLY <3>0
    <3> QED
      BY <1>0, <1>2, <3>1
  <2>4. 1 \in DOMAIN r /\ r[1][1] = b /\ r[1][2] = e
    BY <1>0, <1>2
  <2>5. ASSUME NEW y \in (b..e) \cup elems PROVE \E i \in DOMAIN r : y \in r[i][1]..r[i][2]
    <3>1. CASE y \in b..e
      BY <2>4, <3>1
    <3>2. CASE y \in elems
      <4>1. PICK i \in DOMAIN all : y \in all[i][1]..all[i][2]
        BY <2>1, <3>2
      <4>2. y \in r[i + 1][1]..r[i + 1][2] /\ i + 1 \in DOMAIN r
        BY <2>2, <4>1
      <4> QED
        BY <4>2
    <3> QED
      BY <2>5, <3>1, <3>2
  <2>6. ASSUME NEW i \in DOMAIN r, NEW y \in r[i][1]..r[i][2] PROVE y \in (b..e) \cup elems
    <3>1. CASE i = 1
      BY <2>4, <3>1
    <3>2. CASE i # 1
      <4>1. i - 1 \in DOMAIN all /\ y \in all[i - 1][1]..all[i - 1][2]
        BY <2>3, <3>2
      <4> QED
        BY <2>1, <4>1
    <3> QED
      BY <3>1, <3>2
  <2> QED
    BY <2>5, <2>6
<1>4. ASSUME NEW i \in 1..Len(r)-1 PROVE r[i][2] + 1 < r[i + 1][1]
  <2>0. i \in 1..Len(all) /\ r[i + 1] = all[i]
    BY <1>0, <1>2
  <2>1. CASE i = 1
    <3>1. all # <<>>
      BY <1>0, <2>0
    <3> QED
      BY <1>0, <1>2, <2>0, <2>1, <3>1
  <2>2. CASE i # 1
    <3>0. Len(all) \in Nat /\ i \in 1..Len(all)
      BY <1>0, <2>0
    <3>1. i - 1 \in 1..Len(all)-1 /\ i - 1 \in 1..Len(all) /\ (i - 1) + 1 = i
      BY ONLY <3>0, <2>2
    <3>2. r[(i - 1) + 1] = all[i - 1]
      BY <1>2, <3>1
    <3>3. all[i - 1][2] + 1 < all[(i - 1) + 1][1]
      BY <3>1 DEF Describes
    <3> QED
      BY <2>0, <3>1, <3>2, <3>3
  <2> QED
    BY <2>1, <2>2
<1>5. Describes(r, (b..e) \cup elems)
  BY <1>2, <1>3, <1>4 DEF Describes
<1>6. r # <<>>
  BY <1>0, <1>2
<1> QED
  BY <1>2, <1>5, <1>6 DEF r, p, x

\* The recursion of ForEachInterval has a solution, and so does what it says.
LEMMA ForEachRecursion ==
  ASSUME NEW s, Ordered(s)
  PROVE  \E f : /\ ForEachInterval(s) = f[1] /\ f[Len(s) + 1] = <<>>
                /\ \A i \in 1..Len(s) :
                     LET h == headx(Suffix(s, i))
                     IN  f[i] = << <<h.b, h.e - 1>> >> \o f[i + Len(h.head)]
<1> DEFINE n == Len(s)
           S == 1..n+1
           R == Seq(Nat \X Nat)
           h(i) == headx(Suffix(s, i))
           x(i) == << <<h(i).b, h(i).e - 1>> >>
           T == [i \in S |-> i <= n]
           N == [i \in S |-> i + Len(h(i).head)]
           m == [i \in S |-> n + 1 - i]
           b == n + 2
           G == [i \in S |-> [r \in R |-> IF i <= n THEN x(i) \o r ELSE <<>>]]
           V == [i \in S |-> <<>>]
<1>0. n \in Nat /\ b \in Nat
  BY DEF Ordered
<1>1. ASSUME NEW i \in S, i <= n
      PROVE  i + Len(h(i).head) \in S /\ n + 1 - (i + Len(h(i).head)) < n + 1 - i /\ x(i) \in R
  <2>1. i \in 1..n
    BY <1>0, <1>1
  <2>2. /\ Len(h(i).head) \in Nat /\ 1 <= Len(h(i).head) /\ i + Len(h(i).head) \in 1..n+1
        /\ h(i).b \in Nat /\ h(i).e \in Nat /\ h(i).b < h(i).e
    BY <2>1, SuffixHead
  <2> HIDE DEF h
  <2>3. h(i).e - 1 \in Nat
    BY <2>2
  <2> DEFINE y == <<h(i).b, h(i).e - 1>>
  <2>4. y \in Nat \X Nat
    BY <2>2, <2>3
  <2> HIDE DEF y
  <2>5. <<y>> \in R
    BY <2>4
  <2>6. x(i) \in R
    BY <2>5 DEF y
  <2>7. n + 1 - (i + Len(h(i).head)) < n + 1 - i
    <3> DEFINE l == Len(h(i).head)
    <3>1. l \in Nat /\ 1 <= l /\ i \in Int
      BY <1>0, <2>2
    <3> HIDE DEF l, n
    <3>2. n + 1 - (i + l) < n + 1 - i
      BY ONLY <1>0, <3>1
    <3> QED
      BY <3>2 DEF l
  <2> HIDE DEF x
  <2> QED
    BY <2>2, <2>6, <2>7
<1>2. Falls(S, T, N, m, b)
  <2>1. m \in [S -> Nat] /\ \A i \in S : m[i] < b
    BY <1>0
  <2>2. ASSUME NEW i \in S, T[i] PROVE N[i] \in S /\ m[N[i]] < m[i]
    <3>1. i <= n
      BY <2>2
    <3>2. i + Len(h(i).head) \in S /\ n + 1 - (i + Len(h(i).head)) < n + 1 - i
      BY <1>1, <3>1
    <3> HIDE DEF h
    <3> QED
      BY <3>2
  <2> HIDE DEF T, N, m, S, b
  <2> QED
    BY <2>1, <2>2 DEF Falls
<1>3. V \in [S -> R]
  OBVIOUS
<1>4. G \in [S -> [R -> R]]
  <2>1. ASSUME NEW i \in S, NEW r \in R PROVE (IF i <= n THEN x(i) \o r ELSE <<>>) \in R
    <3>1. CASE i <= n
      <4>1. x(i) \in R
        BY <1>1, <3>1
      <4> HIDE DEF x
      <4>2. x(i) \o r \in R
        BY <4>1
      <4> QED
        BY <3>1, <4>2
    <3>2. CASE ~(i <= n)
      BY <3>2
    <3> QED
      BY <3>1, <3>2
  <2> HIDE DEF x, R, S, n
  <2> QED
    BY <2>1
<1>5. PICK f : f \in [S -> R] /\ Solves(f, S, T, N, G, V)
  <2> HIDE DEF S, T, N, G, V, m, b, R
  <2>1. \E f \in [S -> R] : Solves(f, S, T, N, G, V)
    BY <1>0, <1>2, <1>3, <1>4, RecursionExists
  <2> QED
    BY <2>1
<1>6. ASSUME NEW i \in S
      PROVE  f[i] = IF i > n THEN <<>> ELSE x(i) \o f[i + Len(h(i).head)]
  <2>1. f[i] = IF T[i] THEN G[i][f[N[i]]] ELSE V[i]
    BY <1>5 DEF Solves
  <2>2. CASE i > n
    <3>0. ~(i <= n)
      BY <1>0, <2>2
    <3>1. ~T[i] /\ V[i] = <<>>
      BY <3>0
    <3> QED
      BY <2>1, <2>2, <3>1
  <2>3. CASE i <= n
    <3>1. T[i] /\ N[i] = i + Len(h(i).head) /\ N[i] \in S
      BY <1>1, <2>3
    <3>2. f[N[i]] \in R
      BY <1>5, <3>1
    <3>3. G[i] = [r \in R |-> IF i <= n THEN x(i) \o r ELSE <<>>]
      OBVIOUS
    <3> HIDE DEF G, x, T, N, h, R
    <3>4. G[i][f[N[i]]] = x(i) \o f[N[i]]
      BY <2>3, <3>2, <3>3
    <3> QED
      BY <1>0, <2>1, <2>3, <3>1, <3>4
  <2> QED
    BY <1>0, <2>2, <2>3
<1>7. CallsFrom(f, s)
  <2>1. f = [i \in S |-> f[i]]
    BY <1>5
  <2>2. f = [i \in S |-> IF i > n THEN <<>> ELSE x(i) \o f[i + Len(h(i).head)]]
    <3> HIDE DEF S, x, h, n
    <3> QED
      BY <1>6, <2>1
  <2> QED
    BY <2>2 DEF CallsFrom, Suffix
<1> DEFINE g == CHOOSE f2 : CallsFrom(f2, s)
<1>8. CallsFrom(g, s)
  BY <1>7
<1> HIDE DEF g
<1>9. \A i \in S : g[i] = IF i > n THEN <<>> ELSE x(i) \o g[i + Len(h(i).head)]
  BY <1>8 DEF CallsFrom, Suffix
<1>10. ForEachInterval(s) = g[1]
  BY ForEachUnfolds DEF g
<1>11. g[n + 1] = <<>>
  <2>1. n + 1 \in S /\ n + 1 > n
    BY <1>0
  <2> HIDE DEF x, h, S, n
  <2> QED
    BY <1>9, <2>1
<1>12. \A i \in 1..n : g[i] = x(i) \o g[i + Len(h(i).head)]
  <2>1. \A i \in 1..n : i \in S /\ ~(i > n)
    BY <1>0
  <2> HIDE DEF x, h, S, n
  <2> QED
    BY <1>9, <2>1
<1> QED
  BY <1>10, <1>11, <1>12

\* ForEachInterval calls for the elements, in intervals that do not touch.
LEMMA ForEachExact ==
  ASSUME NEW s, Ordered(s)
  PROVE  Describes(ForEachInterval(s), Elements(s))
<1> DEFINE n == Len(s)
           S == 1..n+1
           h(i) == headx(Suffix(s, i))
<1>0. n \in Nat /\ s \in Seq(Cell)
  BY DEF Ordered
<1>1. PICK f : /\ ForEachInterval(s) = f[1] /\ f[n + 1] = <<>>
               /\ \A i \in 1..n : f[i] = << <<h(i).b, h(i).e - 1>> >> \o f[i + Len(h(i).head)]
  BY ForEachRecursion
<1> DEFINE Right(i) == /\ Describes(f[i], Elements(Suffix(s, i)))
                       /\ f[i] # <<>> => Suffix(s, i) # <<>> /\ f[i][1][1] = headx(Suffix(s, i)).b
           T == {i \in S : Right(i)}
           m == [i \in S |-> n + 1 - i]
<1>2. m \in [S -> Nat]
  BY <1>0
<1>3. ASSUME NEW i \in S, \A j \in S : m[j] < m[i] => j \in T
      PROVE  i \in T
  <2>1. CASE i = n + 1
    <3>1. Suffix(s, n + 1) = <<>>
      <4>1. n + 1 > n
        BY <1>0
      <4> QED
        BY <1>0, <4>1, SubSeqProperties DEF Suffix
    <3>2. Describes(<<>>, {})
      BY DEF Describes
    <3> QED
      BY <1>1, <2>1, <3>1, <3>2, EmptyBetween
  <2>2. CASE i \in 1..n
    <3> DEFINE t == Suffix(s, i)
               j == i + Len(h(i).head)
               u == Suffix(s, j)
    <3>1. /\ Ordered(t) /\ t # <<>>
          /\ Len(h(i).head) \in Nat /\ 1 <= Len(h(i).head) /\ j \in S
          /\ h(i).b \in Nat /\ h(i).e \in Nat /\ h(i).b < h(i).e
          /\ u = h(i).rest
          /\ Between(h(i).rest, h(i).e + 1, Limit)
          /\ Elements(t) = (h(i).b..h(i).e-1) \cup Elements(h(i).rest)
      BY <2>2, SuffixHead
    <3>2. m[j] < m[i]
      <4> DEFINE l == Len(h(i).head)
      <4>1. l \in Nat /\ 1 <= l /\ i \in Int /\ j = i + l
        BY <1>0, <3>1
      <4> HIDE DEF l, n, j
      <4>2. n + 1 - j < n + 1 - i
        BY ONLY <1>0, <4>1
      <4>3. m[j] = n + 1 - j /\ m[i] = n + 1 - i
        BY <3>1
      <4> HIDE DEF m
      <4> QED
        BY <4>2, <4>3
    <3>3. Right(j)
      <4> HIDE DEF Right, m, S, h, j
      <4> QED
        BY <1>3, <3>1, <3>2
    <3>4. f[i] = << <<h(i).b, h(i).e - 1>> >> \o f[j]
      BY <1>1, <2>2
    <3>5. f[j] # <<>> => (h(i).e - 1) + 1 < f[j][1][1]
      <4> SUFFICES ASSUME f[j] # <<>> PROVE (h(i).e - 1) + 1 < f[j][1][1]
        OBVIOUS
      <4>1. u # <<>> /\ f[j][1][1] = headx(u).b
        BY <3>3
      <4>2. Ordered(u) /\ u \in Seq(Cell) /\ \A l \in DOMAIN u : h(i).e + 1 <= begin(u[l])
        BY <3>1 DEF Between, Ordered
      <4> HIDE DEF u, h
      <4>3. headx(u).b = begin(u[1])
        BY <4>1, <4>2, HeadxSplits
      <4>4. 1 \in DOMAIN u
        BY <4>1, <4>2
      <4>5. begin(u[1]) \in Nat
        BY <4>2, <4>4, CellBounds
      <4> QED
        BY <3>1, <4>1, <4>2, <4>3, <4>4, <4>5
    <3>6. h(i).e - 1 \in Nat
      BY <3>1
    <3> DEFINE b == h(i).b
               e == h(i).e - 1
               all == f[j]
               es == Elements(u)
    <3>7. b \in Nat /\ e \in Nat /\ Describes(all, es) /\ (all # <<>> => e + 1 < all[1][1])
      BY <3>1, <3>3, <3>5, <3>6
    <3>8. f[i] = << <<b, e>> >> \o all /\ Elements(t) = (b..e) \cup es /\ b = headx(t).b
      BY <3>1, <3>4
    <3> HIDE DEF b, e, all, es, t
    <3>9. /\ Describes(<< <<b, e>> >> \o all, (b..e) \cup es)
          /\ (<< <<b, e>> >> \o all)[1] = <<b, e>>
      BY <3>7, DescribesPrepend
    <3>10. Describes(f[i], Elements(t)) /\ f[i][1] = <<b, e>>
      BY <3>8, <3>9
    <3>11. f[i][1][1] = b
      BY <3>10
    <3> QED
      BY <3>1, <3>8, <3>10, <3>11 DEF t
  <2> QED
    BY <1>0, <2>1, <2>2
<1>4. 1 \in T
  <2>1. 1 \in S
    BY <1>0
  <2> HIDE DEF S, T, m
  <2>2. \A i \in S : i \in T
    BY <1>2, <1>3, MeasureInduction
  <2> QED
    BY <2>1, <2>2
<1>5. Suffix(s, 1) = s
  BY <1>0 DEF Suffix
<1> QED
  BY <1>1, <1>4, <1>5

-----------------------------------------------------------------------------
(* Intersects.                                                             *)

\* The cells have an element in common.
Overlap(c, d) == begin(c) < end(d) /\ begin(d) < end(c)

\* c contains d when d's name, which is twice its middle, lies between twice c's bounds.
LEMMA ContainsIs ==
  ASSUME NEW c \in Cell, NEW d \in Nat
  PROVE  contains(c, d) <=> 2 * begin(c) <= d /\ d < 2 * end(c)
<1>1. PICK b, l : IsCell(c, b, l)
  BY CellIs
<1> DEFINE p == shifted[l]
           P == 2 * p
           q == d \div P
<1>2. lsb(c) = p /\ begin(c) = b /\ end(c) = b + p /\ c = 2 * b + p /\ b \in Nat /\ p \in Nat \ {0}
  BY <1>1, CellShape, ShiftedPositive DEF IsCell
<1>3. PICK n \in Nat : b = p * n
  BY <1>1 DEF IsCell, Multiple
<1> HIDE DEF p
<1>4. P \in Nat \ {0} /\ p \in 0..P-1 /\ 2 * b = P * n /\ c = n * P + p
  <2>1. P \in Nat \ {0} /\ p \in 0..P-1
    BY <1>2
  <2>2. 2 * (p * n) = (2 * p) * n /\ (2 * p) * n = n * (2 * p)
    BY <1>2, Z3
  <2> QED
    BY <1>2, <1>3, <2>1, <2>2
<1>5. contains(c, d) <=> c \div P = q
  BY <1>2 DEF contains
<1> HIDE DEF P
<1>6. c \div P = n
  BY <1>4, DivUnique
<1>7. q \in Nat /\ d % P \in 0..P-1 /\ d = q * P + (d % P)
  BY <1>4, DivMod
<1> DEFINE r == d % P
<1> HIDE DEF q, r
<1>8. n = q <=> P * n <= d /\ d < P * n + P
  <2>1. r \in 0..P-1 /\ d = q * P + r /\ q \in Nat /\ n \in Nat /\ P \in Nat \ {0}
    BY <1>4, <1>7 DEF r
  <2>2. n = q => P * n <= d /\ d < P * n + P
    BY <2>1, Z3
  <2>3. q < n => ~(P * n <= d)
    <3>1. q < n => q + 1 <= n
      BY <2>1
    <3>2. q + 1 <= n => (q + 1) * P <= n * P
      BY <2>1, Z3
    <3>3. (q + 1) * P = q * P + P /\ n * P = P * n /\ q * P \in Nat /\ n * P \in Nat
      BY <2>1, Z3
    <3> QED
      BY <2>1, <3>1, <3>2, <3>3
  <2>4. n < q => ~(d < P * n + P)
    <3>1. n < q => n + 1 <= q
      BY <2>1
    <3>2. n + 1 <= q => (n + 1) * P <= q * P
      BY <2>1, Z3
    <3>3. (n + 1) * P = P * n + P /\ q * P \in Nat /\ P * n \in Nat
      BY <2>1, Z3
    <3> QED
      BY <2>1, <3>1, <3>2, <3>3
  <2> QED
    BY <2>1, <2>2, <2>3, <2>4
<1>9. 2 * end(c) = P * n + P
  BY <1>2, <1>4 DEF P
<1> QED
  BY <1>2, <1>4, <1>5, <1>6, <1>8, <1>9

\* One of two cells contains the other when they have an element in common.
LEMMA MeetIs ==
  ASSUME NEW c \in Cell, NEW d \in Cell
  PROVE  contains(c, d) \/ contains(d, c) <=> Overlap(c, d)
<1>0. /\ begin(c) \in Nat /\ end(c) \in Nat /\ begin(c) < end(c) /\ c = begin(c) + end(c)
      /\ begin(d) \in Nat /\ end(d) \in Nat /\ begin(d) < end(d) /\ d = begin(d) + end(d)
  BY CellBounds, CellNamed
<1>1. /\ contains(c, d) <=> 2 * begin(c) <= d /\ d < 2 * end(c)
      /\ contains(d, c) <=> 2 * begin(d) <= c /\ c < 2 * end(d)
  <2>1. c \in Nat /\ d \in Nat
    BY <1>0
  <2> QED
    BY <2>1, ContainsIs
<1>2. ASSUME Overlap(c, d) PROVE contains(c, d) \/ contains(d, c)
  <2>1. Inside(c, d) \/ Inside(d, c)
    BY <1>2, Laminar DEF Overlap
  <2> QED
    BY <1>0, <1>1, <2>1 DEF Inside
<1>3. ASSUME contains(c, d) \/ contains(d, c) PROVE Overlap(c, d)
  BY <1>0, <1>1, <1>3 DEF Overlap
<1> QED
  BY <1>2, <1>3

\* Sets have an element in common when cells of theirs do.
LEMMA OverlapElements ==
  ASSUME NEW s \in Seq(Cell), NEW t \in Seq(Cell)
  PROVE  Elements(s) \cap Elements(t) # {} <=>
           \E g \in DOMAIN s, h \in DOMAIN t : Overlap(s[g], t[h])
<1>0. /\ \A g \in DOMAIN s : s[g] \in Cell /\ begin(s[g]) \in Nat /\ end(s[g]) \in Nat /\ begin(s[g]) < end(s[g])
      /\ \A h \in DOMAIN t : t[h] \in Cell /\ begin(t[h]) \in Nat /\ end(t[h]) \in Nat /\ begin(t[h]) < end(t[h])
  BY CellBounds
<1>1. ASSUME NEW e \in Elements(s), e \in Elements(t)
      PROVE  \E g \in DOMAIN s, h \in DOMAIN t : Overlap(s[g], t[h])
  <2>1. PICK g \in DOMAIN s : e \in Within(s[g])
    BY DEF Elements
  <2>2. PICK h \in DOMAIN t : e \in Within(t[h])
    BY <1>1 DEF Elements
  <2>3. begin(s[g]) \in Nat /\ end(s[g]) \in Nat /\ begin(t[h]) \in Nat /\ end(t[h]) \in Nat
    BY <1>0
  <2>4. Overlap(s[g], t[h])
    BY ONLY <2>1, <2>2, <2>3 DEF Within, Overlap
  <2> QED
    BY <2>4
<1>2. ASSUME NEW g \in DOMAIN s, NEW h \in DOMAIN t, Overlap(s[g], t[h])
      PROVE  Elements(s) \cap Elements(t) # {}
  <2>1. \E e \in Within(s[g]) : e \in Within(t[h])
    <3>1. begin(s[g]) <= begin(t[h]) => begin(t[h]) \in Within(s[g]) /\ begin(t[h]) \in Within(t[h])
      BY <1>0, <1>2 DEF Overlap, Within
    <3>2. begin(t[h]) <= begin(s[g]) => begin(s[g]) \in Within(s[g]) /\ begin(s[g]) \in Within(t[h])
      BY <1>0, <1>2 DEF Overlap, Within
    <3>3. begin(s[g]) <= begin(t[h]) \/ begin(t[h]) <= begin(s[g])
      BY <1>0
    <3> QED
      BY <3>1, <3>2, <3>3
  <2> QED
    BY <2>1 DEF Elements
<1> QED
  BY <1>1, <1>2

\* A place of Intersects: the loop, and the next cells of s and of t.
Places(s, t) == {"outer", "s", "t"} \X (1..Len(s)+1) \X (1..Len(t)+1)

LeftS(s, x) == Len(s) + 1 - x[2]
LeftT(t, x) == Len(t) + 1 - x[3]

\* What Intersects does at a place, when it looks up the others in f.
LookStep(f, s, t, x) ==
  LET i == x[2]
      j == x[3]
      ls == Len(s) + 1 - i
      lt == Len(t) + 1 - j
  IN  CASE x[1] = "outer" -> IF ls > 0 /\ lt > 0 THEN f[<<"s", i, j>>] ELSE "no"
        [] x[1] = "s" ->
             IF ls > lt THEN f[<<"t", i, j>>]
             ELSE IF ls = 0 \/ search(t, j, Len(t), s[i]) > Len(t) THEN "panic"
             ELSE LET k == search(t, j, Len(t), s[i])
                  IN  IF contains(t[k], s[i]) \/ contains(s[i], t[k]) THEN "yes" ELSE f[<<"s", i + 1, k>>]
        [] x[1] = "t" ->
             IF lt > ls THEN f[<<"outer", i, j>>]
             ELSE IF lt = 0 \/ search(s, i, Len(s), t[j]) > Len(s) THEN "panic"
             ELSE LET k == search(s, i, Len(s), t[j])
                  IN  IF contains(t[j], s[k]) \/ contains(s[k], t[j]) THEN "yes" ELSE f[<<"t", k, j + 1>>]

LooksUp(f, s, t) == f = [x \in Places(s, t) |-> LookStep(f, s, t, x)]

LEMMA IntersectsUnfolds ==
  ASSUME NEW s, NEW t
  PROVE  Intersects(s, t) = (CHOOSE f : LooksUp(f, s, t))[<<"outer", 1, 1>>]
  BY DEF Intersects, LooksUp, LookStep, Places

\* An ordinal that falls from place to place: the cells left, then the order in which the
\* loops hand over, which depends on what set is the longer one.
Weight(s, t, x) ==
  4 * (LeftS(s, x) + LeftT(t, x)) +
    IF LeftS(s, x) > LeftT(t, x) THEN (IF x[1] = "t" THEN 0 ELSE IF x[1] = "s" THEN 1 ELSE 2)
    ELSE (IF x[1] = "s" THEN 0 ELSE IF x[1] = "outer" THEN 1 ELSE 2)

\* The place has the cells its loop takes for granted.
Fed(s, t, x) ==
  /\ x[1] # "t" => LeftT(t, x) > 0
  /\ x[1] # "s" => LeftS(s, x) > 0

\* At a place, Intersects goes on to y.
MovesOn(s, t, x, y) ==
  /\ y \in Places(s, t) /\ Weight(s, t, y) < Weight(s, t, x)
  /\ Fed(s, t, x) => Fed(s, t, y)

\* At a place, Intersects returns a.
Stops(s, t, x, a) ==
  /\ a \in {"yes", "no", "panic"}
  /\ a = "yes" => \E g \in DOMAIN s, h \in DOMAIN t : Overlap(s[g], t[h])
  /\ Fed(s, t, x) => a # "no"

\* At every place Intersects returns or goes on to a smaller one.
LEMMA LookTurns ==
  ASSUME NEW s \in Seq(Cell), NEW t \in Seq(Cell), NEW x \in Places(s, t)
  PROVE  \/ \E y : MovesOn(s, t, x, y) /\ \A f : LookStep(f, s, t, x) = f[y]
         \/ \E a : Stops(s, t, x, a) /\ \A f : LookStep(f, s, t, x) = a
<1> DEFINE i == x[2]
           j == x[3]
           n == Len(s)
           m == Len(t)
           ls == n + 1 - i
           lt == m + 1 - j
<1>0. /\ x[1] \in {"outer", "s", "t"} /\ i \in 1..n+1 /\ j \in 1..m+1 /\ x = <<x[1], i, j>>
      /\ n \in Nat /\ m \in Nat /\ DOMAIN s = 1..n /\ DOMAIN t = 1..m
      /\ LeftS(s, x) = ls /\ LeftT(t, x) = lt /\ ls \in Nat /\ lt \in Nat
  <2>1. /\ x[1] \in {"outer", "s", "t"} /\ i \in 1..n+1 /\ j \in 1..m+1 /\ x = <<x[1], i, j>>
        /\ n \in Nat /\ m \in Nat /\ DOMAIN s = 1..n /\ DOMAIN t = 1..m
    BY DEF Places
  <2>2. ls \in Nat /\ lt \in Nat
    BY <2>1
  <2> QED
    BY <2>1, <2>2 DEF LeftS, LeftT
<1>1. ASSUME NEW loop \in {"outer", "s", "t"}, NEW ii \in 1..n+1, NEW jj \in 1..m+1
      PROVE  /\ <<loop, ii, jj>> \in Places(s, t)
             /\ LeftS(s, <<loop, ii, jj>>) = n + 1 - ii /\ LeftT(t, <<loop, ii, jj>>) = m + 1 - jj
  BY DEF Places, LeftS, LeftT
<1>2. CASE x[1] = "outer"
  <2>1. CASE ls > 0 /\ lt > 0
    <3> DEFINE y == <<"s", i, j>>
    <3>1. y \in Places(s, t) /\ LeftS(s, y) = ls /\ LeftT(t, y) = lt /\ y[1] = "s"
      BY <1>0, <1>1
    <3> HIDE DEF y
    <3>2. MovesOn(s, t, x, y)
      <4> HIDE DEF ls, lt
      <4>1. Weight(s, t, y) < Weight(s, t, x)
        BY ONLY <1>0, <1>2, <2>1, <3>1 DEF Weight
      <4> QED
        BY <1>0, <1>2, <2>1, <3>1, <4>1 DEF MovesOn, Fed
    <3>3. \A f : LookStep(f, s, t, x) = f[y]
      BY <1>2, <2>1 DEF LookStep, y
    <3> QED
      BY <3>2, <3>3
  <2>2. CASE ~(ls > 0 /\ lt > 0)
    <3>1. Stops(s, t, x, "no")
      BY <1>0, <1>2, <2>2 DEF Stops, Fed
    <3>2. \A f : LookStep(f, s, t, x) = "no"
      BY <1>2, <2>2 DEF LookStep
    <3> QED
      BY <3>1, <3>2
  <2> QED
    BY <2>1, <2>2
<1>3. CASE x[1] = "s"
  <2> DEFINE k == search(t, j, m, s[i])
  <2>1. CASE ls > lt
    <3> DEFINE y == <<"t", i, j>>
    <3>1. y \in Places(s, t) /\ LeftS(s, y) = ls /\ LeftT(t, y) = lt /\ y[1] = "t"
      BY <1>0, <1>1
    <3> HIDE DEF y
    <3>2. MovesOn(s, t, x, y)
      <4> HIDE DEF ls, lt
      <4>1. Weight(s, t, y) < Weight(s, t, x)
        BY ONLY <1>0, <1>3, <2>1, <3>1 DEF Weight
      <4> QED
        BY <1>0, <1>3, <2>1, <3>1, <4>1 DEF MovesOn, Fed
    <3>3. \A f : LookStep(f, s, t, x) = f[y]
      BY <1>3, <2>1 DEF LookStep, y
    <3> QED
      BY <3>2, <3>3
  <2>2. CASE ~(ls > lt) /\ (ls = 0 \/ k > m)
    <3>1. Stops(s, t, x, "panic")
      BY DEF Stops
    <3>2. \A f : LookStep(f, s, t, x) = "panic"
      BY <1>3, <2>2 DEF LookStep
    <3> QED
      BY <3>1, <3>2
  <2>3. CASE ~(ls > lt) /\ ~(ls = 0 \/ k > m)
    <3>1. i \in DOMAIN s
      BY <1>0, <2>3
    <3>2. s[i] \in Cell /\ s[i] \in Int
      BY <3>1, CellNamed, CellBounds
    <3>4. k \in j..m+1 /\ k \in Nat
      BY <1>0, <3>2, SearchIs
    <3> HIDE DEF k
    <3>5. k \in j..m /\ k \in DOMAIN t /\ t[k] \in Cell
      BY <1>0, <2>3, <3>4
    <3>6. contains(t[k], s[i]) \/ contains(s[i], t[k]) <=> Overlap(s[i], t[k])
      BY <3>2, <3>5, MeetIs
    <3>7. CASE Overlap(s[i], t[k])
      <4>1. Stops(s, t, x, "yes")
        BY <3>1, <3>5, <3>7 DEF Stops
      <4>2. \A f : LookStep(f, s, t, x) = "yes"
        BY <1>3, <2>3, <3>6, <3>7 DEF LookStep, k
      <4> QED
        BY <4>1, <4>2
    <3>8. CASE ~Overlap(s[i], t[k])
      <4> DEFINE y == <<"s", i + 1, k>>
      <4>0. i + 1 \in 1..n+1 /\ k \in 1..m+1
        BY <1>0, <3>1, <3>5
      <4>1. y \in Places(s, t) /\ LeftS(s, y) = n + 1 - (i + 1) /\ LeftT(t, y) = m + 1 - k /\ y[1] = "s"
        BY <1>1, <4>0
      <4> HIDE DEF y
      <4>2. MovesOn(s, t, x, y)
        <5>1. LeftS(s, y) = ls - 1 /\ LeftT(t, y) <= lt /\ LeftT(t, y) > 0 /\ LeftT(t, y) \in Nat
          <6>1. i \in Int /\ j \in Int /\ n \in Nat /\ m \in Nat
            BY <1>0
          <6>2. ls = n + 1 - i /\ lt = m + 1 - j
            OBVIOUS
          <6> HIDE DEF i, j, n, m, ls, lt
          <6> QED
            BY ONLY <3>5, <4>0, <4>1, <6>1, <6>2
        <5> HIDE DEF ls, lt
        <5>2. Weight(s, t, y) < Weight(s, t, x)
          <6>1. /\ ls \in Nat /\ lt \in Nat /\ LeftS(s, x) = ls /\ LeftT(t, x) = lt
                /\ LeftS(s, y) \in Int /\ LeftT(t, y) \in Int
            BY ONLY <1>0, <5>1
          <6> QED
            BY ONLY <1>3, <4>1, <5>1, <6>1 DEF Weight
        <5> QED
          BY <1>0, <1>3, <4>1, <5>1, <5>2 DEF MovesOn, Fed
      <4>3. \A f : LookStep(f, s, t, x) = f[y]
        BY <1>3, <2>3, <3>6, <3>8 DEF LookStep, y, k
      <4> QED
        BY <4>2, <4>3
    <3> QED
      BY <3>7, <3>8
  <2> QED
    BY <2>1, <2>2, <2>3
<1>4. CASE x[1] = "t"
  <2> DEFINE k == search(s, i, n, t[j])
  <2>1. CASE lt > ls
    <3> DEFINE y == <<"outer", i, j>>
    <3>1. y \in Places(s, t) /\ LeftS(s, y) = ls /\ LeftT(t, y) = lt /\ y[1] = "outer"
      BY <1>0, <1>1
    <3> HIDE DEF y
    <3>2. MovesOn(s, t, x, y)
      <4> HIDE DEF ls, lt
      <4>1. Weight(s, t, y) < Weight(s, t, x)
        BY ONLY <1>0, <1>4, <2>1, <3>1 DEF Weight
      <4> QED
        BY <1>0, <1>4, <2>1, <3>1, <4>1 DEF MovesOn, Fed
    <3>3. \A f : LookStep(f, s, t, x) = f[y]
      BY <1>4, <2>1 DEF LookStep, y
    <3> QED
      BY <3>2, <3>3
  <2>2. CASE ~(lt > ls) /\ (lt = 0 \/ k > n)
    <3>1. Stops(s, t, x, "panic")
      BY DEF Stops
    <3>2. \A f : LookStep(f, s, t, x) = "panic"
      BY <1>4, <2>2 DEF LookStep
    <3> QED
      BY <3>1, <3>2
  <2>3. CASE ~(lt > ls) /\ ~(lt = 0 \/ k > n)
    <3>1. j \in DOMAIN t
      BY <1>0, <2>3
    <3>2. t[j] \in Cell /\ t[j] \in Int
      BY <3>1, CellNamed, CellBounds
    <3>4. k \in i..n+1 /\ k \in Nat
      BY <1>0, <3>2, SearchIs
    <3> HIDE DEF k
    <3>5. k \in i..n /\ k \in DOMAIN s /\ s[k] \in Cell
      BY <1>0, <2>3, <3>4
    <3>6. contains(t[j], s[k]) \/ contains(s[k], t[j]) <=> Overlap(s[k], t[j])
      BY <3>2, <3>5, MeetIs
    <3>7. CASE Overlap(s[k], t[j])
      <4>1. Stops(s, t, x, "yes")
        BY <3>1, <3>5, <3>7 DEF Stops
      <4>2. \A f : LookStep(f, s, t, x) = "yes"
        BY <1>4, <2>3, <3>6, <3>7 DEF LookStep, k
      <4> QED
        BY <4>1, <4>2
    <3>8. CASE ~Overlap(s[k], t[j])
      <4> DEFINE y == <<"t", k, j + 1>>
      <4>0. j + 1 \in 1..m+1 /\ k \in 1..n+1
        BY <1>0, <3>1, <3>5
      <4>1. y \in Places(s, t) /\ LeftS(s, y) = n + 1 - k /\ LeftT(t, y) = m + 1 - (j + 1) /\ y[1] = "t"
        BY <1>1, <4>0
      <4> HIDE DEF y
      <4>2. MovesOn(s, t, x, y)
        <5>1. LeftT(t, y) = lt - 1 /\ LeftS(s, y) <= ls /\ LeftS(s, y) > 0 /\ LeftS(s, y) \in Nat
          <6>1. i \in Int /\ j \in Int /\ n \in Nat /\ m \in Nat
            BY <1>0
          <6>2. ls = n + 1 - i /\ lt = m + 1 - j
            OBVIOUS
          <6> HIDE DEF i, j, n, m, ls, lt
          <6> QED
            BY ONLY <3>5, <4>0, <4>1, <6>1, <6>2
        <5> HIDE DEF ls, lt
        <5>2. Weight(s, t, y) < Weight(s, t, x)
          <6>1. /\ ls \in Nat /\ lt \in Nat /\ LeftS(s, x) = ls /\ LeftT(t, x) = lt
                /\ LeftS(s, y) \in Int /\ LeftT(t, y) \in Int
            BY ONLY <1>0, <5>1
          <6>2. Weight(s, t, x) >= 4 * (ls + lt) /\ Weight(s, t, x) \in Nat
            BY ONLY <6>1 DEF Weight
          <6>3. Weight(s, t, y) <= 4 * (LeftS(s, y) + LeftT(t, y)) + 2
            BY ONLY <6>1 DEF Weight
          <6>4. Weight(s, t, y) \in Int
            BY ONLY <6>1 DEF Weight
          <6> QED
            BY ONLY <5>1, <6>1, <6>2, <6>3, <6>4
        <5> QED
          BY <1>0, <1>4, <4>1, <5>1, <5>2, SMTT(30) DEF MovesOn, Fed
      <4>3. \A f : LookStep(f, s, t, x) = f[y]
        BY <1>4, <2>3, <3>6, <3>8 DEF LookStep, y, k
      <4> QED
        BY <4>2, <4>3
    <3> QED
      BY <3>7, <3>8
  <2> QED
    BY <2>1, <2>2, <2>3
<1> QED
  BY <1>0, <1>2, <1>3, <1>4

\* There is a function that looks the cells up.
LEMMA LooksExists ==
  ASSUME NEW s \in Seq(Cell), NEW t \in Seq(Cell)
  PROVE  \E f : LooksUp(f, s, t)
<1> DEFINE S == Places(s, t)
           R == {"yes", "no", "panic"}
           Goes(x) == \E y : MovesOn(s, t, x, y) /\ \A f : LookStep(f, s, t, x) = f[y]
           To(x) == CHOOSE y : MovesOn(s, t, x, y) /\ \A f : LookStep(f, s, t, x) = f[y]
           Answer(x) == CHOOSE a : Stops(s, t, x, a) /\ \A f : LookStep(f, s, t, x) = a
           T == [x \in S |-> Goes(x)]
           N == [x \in S |-> To(x)]
           G == [x \in S |-> [r \in R |-> r]]
           V == [x \in S |-> IF Goes(x) THEN "no" ELSE Answer(x)]
           m == [x \in S |-> Weight(s, t, x)]
           b == 4 * (Len(s) + Len(t)) + 3
<1>1. ASSUME NEW x \in S
      PROVE  /\ Goes(x) => MovesOn(s, t, x, To(x)) /\ \A f : LookStep(f, s, t, x) = f[To(x)]
             /\ ~Goes(x) => Stops(s, t, x, Answer(x)) /\ \A f : LookStep(f, s, t, x) = Answer(x)
  BY LookTurns, Zenon
<1>2. \A x \in S : Weight(s, t, x) \in Nat /\ Weight(s, t, x) < b
  <2> TAKE x \in S
  <2>1. LeftS(s, x) \in 0..Len(s) /\ LeftT(t, x) \in 0..Len(t) /\ Len(s) \in Nat /\ Len(t) \in Nat
    BY DEF LeftS, LeftT, Places
  <2> QED
    BY ONLY <2>1 DEF Weight
<1>3. b \in Nat
  OBVIOUS
<1> HIDE DEF Goes, To, Answer, b, S
<1>4. Falls(S, T, N, m, b)
  <2>1. m \in [S -> Nat] /\ \A x \in S : m[x] < b
    BY <1>2
  <2>2. \A x \in S : T[x] => N[x] \in S /\ m[N[x]] < m[x]
    BY <1>1 DEF MovesOn, S
  <2> HIDE DEF T, N, m
  <2> QED
    BY <2>1, <2>2 DEF Falls
<1>5. G \in [S -> [R -> R]]
  OBVIOUS
<1>6. V \in [S -> R]
  BY <1>1 DEF Stops
<1>7. PICK f : f \in [S -> R] /\ Solves(f, S, T, N, G, V)
  <2> HIDE DEF S, T, N, G, V, m, b, R
  <2>1. \E f \in [S -> R] : Solves(f, S, T, N, G, V)
    BY <1>3, <1>4, <1>5, <1>6, RecursionExists
  <2> QED
    BY <2>1
<1>8. ASSUME NEW x \in S PROVE f[x] = LookStep(f, s, t, x)
  <2>1. f[x] = IF T[x] THEN G[x][f[N[x]]] ELSE V[x]
    BY <1>7 DEF Solves
  <2>2. CASE Goes(x)
    <3>1. To(x) \in S /\ LookStep(f, s, t, x) = f[To(x)]
      BY <1>1, <2>2 DEF MovesOn, S
    <3>2. f[To(x)] \in R
      BY <1>7, <3>1
    <3>3. T[x] /\ N[x] = To(x) /\ G[x] = [r \in R |-> r]
      BY <2>2
    <3> HIDE DEF T, N, G, V
    <3>4. G[x][f[N[x]]] = f[To(x)]
      BY <3>2, <3>3
    <3> QED
      BY <2>1, <3>1, <3>3, <3>4
  <2>3. CASE ~Goes(x)
    <3>1. ~T[x] /\ V[x] = Answer(x)
      BY <2>3
    <3> QED
      BY <1>1, <2>1, <2>3, <3>1
  <2> QED
    BY <2>2, <2>3
<1>9. f = [x \in S |-> LookStep(f, s, t, x)]
  <2>1. f = [x \in S |-> f[x]]
    BY <1>7
  <2> QED
    BY <1>8, <2>1
<1> QED
  BY <1>9 DEF LooksUp, S

\* When Intersects answers, it answers right; otherwise it panics.
LEMMA IntersectsAnswered ==
  ASSUME NEW s \in Seq(Cell), NEW t \in Seq(Cell)
  PROVE  LET disjoint == Elements(s) \cap Elements(t) = {}
         IN  Intersects(s, t) \in {"panic", IF disjoint THEN "no" ELSE "yes"}
<1> DEFINE S == Places(s, t)
           disjoint == Elements(s) \cap Elements(t) = {}
           f == CHOOSE g : LooksUp(g, s, t)
           start == <<"outer", 1, 1>>
           m == [x \in S |-> Weight(s, t, x)]
           T == {x \in S : Fed(s, t, x) => f[x] = "panic" \/ (f[x] = "yes" /\ ~disjoint)}
<1>1. LooksUp(f, s, t) /\ Intersects(s, t) = f[start]
  BY LooksExists, IntersectsUnfolds
<1> HIDE DEF f
<1>2. \A x \in S : f[x] = LookStep(f, s, t, x)
  BY <1>1 DEF LooksUp
<1>3. start \in S /\ Len(s) \in Nat /\ Len(t) \in Nat
  BY DEF Places
<1>4. m \in [S -> Nat]
  <2>1. ASSUME NEW x \in S PROVE Weight(s, t, x) \in Nat
    <3>1. LeftS(s, x) \in Nat /\ LeftT(t, x) \in Nat
      BY DEF LeftS, LeftT, Places
    <3> QED
      BY ONLY <3>1 DEF Weight
  <2> QED
    BY <2>1
<1>5. ASSUME NEW x \in S, \A y \in S : m[y] < m[x] => y \in T
      PROVE  x \in T
  <2> SUFFICES ASSUME Fed(s, t, x) PROVE f[x] = "panic" \/ (f[x] = "yes" /\ ~disjoint)
    OBVIOUS
  <2>1. CASE \E y : MovesOn(s, t, x, y) /\ \A g : LookStep(g, s, t, x) = g[y]
    <3>1. PICK y : MovesOn(s, t, x, y) /\ \A g : LookStep(g, s, t, x) = g[y]
      BY <2>1
    <3>2. y \in S /\ m[y] < m[x] /\ Fed(s, t, y)
      BY <3>1 DEF MovesOn
    <3>3. y \in T
      BY <1>5, <3>2
    <3>4. f[x] = f[y]
      BY <1>2, <3>1
    <3> QED
      BY <3>2, <3>3, <3>4
  <2>2. CASE \E a : Stops(s, t, x, a) /\ \A g : LookStep(g, s, t, x) = a
    <3>1. PICK a : Stops(s, t, x, a) /\ \A g : LookStep(g, s, t, x) = a
      BY <2>2
    <3>2. f[x] = a
      BY <1>2, <3>1
    <3>3. a \in {"yes", "panic"}
      BY <3>1 DEF Stops
    <3>4. a = "yes" => ~disjoint
      BY <3>1, OverlapElements DEF Stops
    <3> QED
      BY <3>2, <3>3, <3>4
  <2> QED
    BY <2>1, <2>2, LookTurns
<1>6. start \in T
  <2> HIDE DEF S, T, m
  <2>1. \A x \in S : x \in T
    BY <1>4, <1>5, MeasureInduction
  <2> QED
    BY <1>3, <2>1
<1>7. CASE Len(s) > 0 /\ Len(t) > 0
  <2>1. Fed(s, t, start)
    BY <1>3, <1>7 DEF Fed, LeftS, LeftT
  <2> HIDE DEF disjoint, start
  <2> QED
    BY <1>1, <1>6, <2>1 DEF disjoint
<1>8. CASE ~(Len(s) > 0 /\ Len(t) > 0)
  <2>1. disjoint
    <3>1. s = <<>> \/ t = <<>>
      BY <1>3, <1>8
    <3> QED
      BY <3>1, EmptyBetween
  <2>2. LookStep(f, s, t, start) = "no"
    <3>1. start[1] = "outer" /\ start[2] = 1 /\ start[3] = 1
      OBVIOUS
    <3>2. ~(Len(s) + 1 - 1 > 0 /\ Len(t) + 1 - 1 > 0)
      BY <1>3, <1>8
    <3> HIDE DEF start
    <3> QED
      BY <3>1, <3>2 DEF LookStep
  <2>3. f[start] = "no"
    BY <1>2, <1>3, <2>2
  <2> QED
    BY <1>1, <2>1, <2>3
<1> QED
  BY <1>7, <1>8

-----------------------------------------------------------------------------
(* The inductive invariant.                                                *)

Remainder == [head : Seq(Cell), rest : Seq(Cell), b : Nat, e : Nat]

\* Cells in order, each as large as it can be.
Normal(s) == Ordered(s) /\ Maximal(s)

\* What is left of an operand.
Operand(x) ==
  /\ x \in Remainder
  /\ x.b <= x.e /\ x.e <= Limit
  /\ x.b = x.e => x.rest = <<>>
  /\ x.head # <<>> => Tiles(x.head, x.b, x.e)
  /\ Between(x.rest, x.e + 1, Limit)
  /\ Maximal(x.head) /\ Maximal(x.rest)

\* The cells of r end before m.
EndsBefore(r, m) == \A i \in DOMAIN r : end(r[i]) < m

\* There is nothing left of an operand.
Done(x) == x.b = x.e

Calls == [op : {"Union", "Intersection", "Complement"}, args : Seq(Cell) \X Seq(Cell),
          s : Remainder, t : Remainder, r : Seq(Cell), b : Nat]

\* A call under way.
CallInv(c) ==
  /\ c \in Calls /\ c.b <= Limit
  /\ Ordered(c.args[1]) /\ Ordered(c.args[2]) /\ Normal(c.r)
  /\ Operand(c.s) /\ Operand(c.t)
  /\ c.op = "Union" =>
       /\ ~Done(c.s) => EndsBefore(c.r, c.s.b)
       /\ ~Done(c.t) => EndsBefore(c.r, c.t.b)
  /\ c.op = "Intersection" /\ ~Done(c.s) /\ ~Done(c.t) =>
       EndsBefore(c.r, c.s.b) \/ EndsBefore(c.r, c.t.b)
  /\ c.op = "Complement" =>
       /\ EndsBefore(c.r, c.b)
       /\ ~Done(c.s) => c.b <= c.s.b

\* MergeExact of a call.
CallExact(c) ==
  LET s == Elements(c.args[1])
      t == Elements(c.args[2])
      r == Elements(c.r)
  IN  /\ c.op = "Union" => r \cup Left(c.s) \cup Left(c.t) = s \cup t
      /\ c.op = "Intersection" => r \cup (Left(c.s) \cap Left(c.t)) = s \cap t
      /\ c.op = "Complement" => r \cup ((c.b..Limit-1) \ Left(c.s)) = (0..Limit-1) \ s

IInv == Normal(set) /\ (Idle \/ (CallInv(call) /\ CallExact(call)))

-----------------------------------------------------------------------------
(* Operands.                                                               *)

\* The members of two lists are members of the one they make.
LEMMA Concatenated ==
  ASSUME NEW s \in Seq(Cell), NEW t \in Seq(Cell)
  PROVE  /\ \A i \in DOMAIN s : \E j \in DOMAIN (s \o t) : s[i] = (s \o t)[j]
         /\ \A i \in DOMAIN t : \E j \in DOMAIN (s \o t) : t[i] = (s \o t)[j]
<1>1. /\ Len(s) \in Nat /\ Len(t) \in Nat /\ DOMAIN s = 1..Len(s) /\ DOMAIN t = 1..Len(t)
      /\ DOMAIN (s \o t) = 1..Len(s)+Len(t)
      /\ \A i \in 1..Len(s) : (s \o t)[i] = s[i]
      /\ \A i \in 1..Len(t) : (s \o t)[Len(s) + i] = t[i]
  OBVIOUS
<1> DEFINE r == s \o t
<1> HIDE DEF r
<1>2. ASSUME NEW i \in DOMAIN s PROVE i \in DOMAIN r /\ s[i] = r[i]
  BY <1>1 DEF r
<1>3. ASSUME NEW i \in DOMAIN t PROVE Len(s) + i \in DOMAIN r /\ t[i] = r[Len(s) + i]
  BY <1>1 DEF r
<1> QED
  BY <1>2, <1>3 DEF r

\* headx of a list in order is what is left of it.
LEMMA OperandStarts ==
  ASSUME NEW s, Normal(s)
  PROVE  /\ Operand(headx(s)) /\ Left(headx(s)) = Elements(s)
         /\ s # <<>> => headx(s).b = begin(s[1]) /\ ~Done(headx(s))
         /\ s = <<>> => Done(headx(s))
<1>1. CASE s = <<>>
  <2>1. headx(s) = [head |-> <<>>, rest |-> <<>>, b |-> 0, e |-> 0]
    BY <1>1 DEF headx
  <2> DEFINE x == headx(s)
  <2> HIDE DEF x
  <2>2. /\ x \in [head : Seq(Cell), rest : Seq(Cell), b : Nat, e : Nat]
        /\ x.head = <<>> /\ x.rest = <<>> /\ x.b = 0 /\ x.e = 0
    BY <2>1 DEF x
  <2>3. Operand(x)
    BY <2>2, EmptyBetween, EmptyMaximal, ShiftedPositive DEF Operand, Remainder
  <2>4. Left(x) = Elements(s)
    <3>1. x.b..x.e-1 = {}
      BY <2>2
    <3>2. Elements(x.rest) = {} /\ Elements(s) = {}
      BY <1>1, <2>2, EmptyBetween
    <3> QED
      BY <3>1, <3>2 DEF Left
  <2> QED
    BY <1>1, <2>2, <2>3, <2>4 DEF x, Done
<1>2. CASE s # <<>>
  <2> DEFINE x == headx(s)
  <2> HIDE DEF x
  <2>1. /\ x \in [head : Seq(Cell), rest : Seq(Cell), b : Nat, e : Nat]
        /\ x.b < x.e /\ x.e <= Limit /\ x.b = begin(s[1])
        /\ Tiles(x.head, x.b, x.e) /\ Between(x.rest, x.e + 1, Limit)
        /\ s = x.head \o x.rest /\ Elements(s) = (x.b..x.e-1) \cup Elements(x.rest)
    BY <1>2, HeadxSplits DEF x, Normal
  <2>2. x.b # x.e /\ x.b <= x.e
    <3>1. x.b \in Nat /\ x.e \in Nat /\ x.b < x.e
      BY <2>1
    <3> QED
      BY ONLY <3>1
  <2>3. Maximal(x.head) /\ Maximal(x.rest)
    <3>1. Elements(x.head) = x.b..x.e-1
      BY <2>1, TilesElements
    <3>2. /\ \A i \in DOMAIN x.head : \E j \in DOMAIN s : x.head[i] = s[j]
          /\ \A i \in DOMAIN x.rest : \E j \in DOMAIN s : x.rest[i] = s[j]
      BY <2>1, Concatenated
    <3>3. Elements(x.head) \subseteq Elements(s) /\ Elements(x.rest) \subseteq Elements(s)
      BY <2>1, <3>1
    <3>4. Maximal(s)
      BY DEF Normal
    <3>5. Maximal(x.head)
      BY <3>2, <3>3, <3>4, PartMaximal
    <3>6. Maximal(x.rest)
      BY <3>2, <3>3, <3>4, PartMaximal
    <3> QED
      BY <3>5, <3>6
  <2> QED
    BY <1>2, <2>1, <2>2, <2>3 DEF x, Operand, Remainder, Left, Done
<1> QED
  BY <1>1, <1>2

\* headx of an operand's rest is what is left after its interval, and behind it.
LEMMA OperandContinues ==
  ASSUME NEW x, Operand(x)
  PROVE  LET y == headx(x.rest)
         IN  /\ Operand(y) /\ Left(y) = Elements(x.rest)
             /\ ~Done(y) => x.e < y.b
             /\ Elements(x.rest) \subseteq x.e+1..Limit-1
<1> DEFINE y == headx(x.rest)
<1> HIDE DEF y
<1>0. /\ x.rest \in Seq(Cell) /\ Normal(x.rest) /\ x.e \in Nat /\ x.e + 1 \in Nat /\ Limit \in Nat
      /\ Between(x.rest, x.e + 1, Limit)
  BY ShiftedPositive DEF Operand, Remainder, Between, Normal
<1>1. /\ Operand(y) /\ Left(y) = Elements(x.rest)
      /\ x.rest # <<>> => y.b = begin(x.rest[1]) /\ ~Done(y)
      /\ x.rest = <<>> => Done(y)
  BY <1>0, OperandStarts DEF y
<1>2. ASSUME ~Done(y) PROVE x.e < y.b
  <2>1. x.rest # <<>> /\ 1 \in DOMAIN x.rest
    BY <1>0, <1>1, <1>2
  <2>2. x.e + 1 <= begin(x.rest[1]) /\ begin(x.rest[1]) \in Nat
    BY <1>0, <2>1, CellBounds DEF Between
  <2> QED
    BY <1>0, <1>1, <2>1, <2>2
<1>3. Elements(x.rest) \subseteq x.e+1..Limit-1
  BY <1>0, BetweenElements
<1> QED
  BY <1>1, <1>2, <1>3 DEF y

\* CellsOf(x) tiles the interval of x.
LEMMA CoverTiles ==
  ASSUME NEW x, Operand(x)
  PROVE  /\ Tiles(CellsOf(x), x.b, x.e) /\ Maximal(CellsOf(x))
         /\ Between(CellsOf(x), x.b, x.e) /\ Elements(CellsOf(x)) = x.b..x.e-1
<1>0. x.b \in Nat /\ x.e \in Nat /\ x.b <= x.e /\ x.e <= Limit /\ Limit \in Nat
  BY ShiftedPositive DEF Operand, Remainder
<1>1. Tiles(CellsOf(x), x.b, x.e) /\ Maximal(CellsOf(x))
  <2>1. CASE x.head # <<>>
    BY <2>1 DEF CellsOf, Operand, Remainder
  <2>2. CASE x.head = <<>>
    <3>1. x.b \in 0..Limit /\ x.e \in 0..Limit
      BY <1>0
    <3>2. Tiles(Interval(x.b, x.e), x.b, x.e) /\ Maximal(Interval(x.b, x.e))
      BY <1>0, <3>1, IntervalTiles, IntervalMaximal
    <3> QED
      BY <2>2, <3>2 DEF CellsOf
  <2> QED
    BY <2>1, <2>2
<1> QED
  BY <1>1, TilesElements DEF Between

\* What is pending of an operand has the elements that are left, from its begin on.
LEMMA PendingExact ==
  ASSUME NEW x, Operand(x)
  PROVE  /\ Between(Pending(x), x.b, Limit) /\ Elements(Pending(x)) = Left(x)
         /\ Maximal(Pending(x)) /\ (Done(x) => Pending(x) = <<>>)
<1>0. x.b \in Nat /\ x.e \in Nat /\ x.b <= x.e /\ x.e <= Limit /\ Limit \in Nat
  BY ShiftedPositive DEF Operand, Remainder
<1>1. CASE Done(x)
  <2>1. Pending(x) = <<>> /\ x.rest = <<>> /\ x.b..x.e-1 = {}
    BY <1>0, <1>1 DEF Pending, Done, Operand, Remainder
  <2> QED
    BY <2>1, EmptyBetween, EmptyMaximal DEF Left
<1>2. CASE ~Done(x)
  <2>1. Pending(x) = CellsOf(x) \o x.rest
    BY <1>2 DEF Pending, Done
  <2>2. Between(CellsOf(x), x.b, x.e) /\ Elements(CellsOf(x)) = x.b..x.e-1 /\ Maximal(CellsOf(x))
    BY CoverTiles
  <2>3. Between(x.rest, x.e + 1, Limit) /\ Maximal(x.rest)
    BY DEF Operand, Remainder
  <2> DEFINE h == CellsOf(x)
             u == x.rest
             k == x.e + 1
  <2>4. k \in Nat /\ x.b <= k /\ x.e <= k /\ \A n \in Nat : n <= x.e => n < k
    BY <1>0
  <2> HIDE DEF h, u, k
  <2>5. Between(h, x.b, x.e) /\ Maximal(h) /\ Between(u, k, Limit) /\ Maximal(u)
    BY <2>2, <2>3 DEF h, u, k
  <2>6. Between(h \o u, x.b, Limit) /\ Elements(h \o u) = Elements(h) \cup Elements(u)
    BY <1>0, <2>4, <2>5, BetweenConcat
  <2>7. Maximal(h \o u)
    <3>1. Ordered(h) /\ \A i \in DOMAIN h : end(h[i]) < k
      BY <2>4, <2>5, CellBounds DEF Between, Ordered
    <3> QED
      BY <1>0, <2>4, <2>5, <3>1, JoinMaximal
  <2> QED
    BY <1>2, <2>1, <2>2, <2>6, <2>7 DEF Left, h, u
<1> QED
  BY <1>1, <1>2

\* A list in order that ends before m is between 0 and m.
LEMMA EndsBetween ==
  ASSUME NEW r, Normal(r), NEW m \in Nat, EndsBefore(r, m)
  PROVE  Between(r, 0, m)
<1>1. \A i \in DOMAIN r : r[i] \in Cell /\ begin(r[i]) \in Nat /\ end(r[i]) \in Nat
  BY CellBounds DEF Ordered, Normal
<1> QED
  BY <1>1 DEF Between, EndsBefore, Normal

\* Cells of an interval that starts where the result may end, added to it.
LEMMA ResultGrows ==
  ASSUME NEW r, Normal(r), NEW b \in Nat, EndsBefore(r, b), NEW e \in Nat, b <= e,
         NEW c, Tiles(c, b, e), Maximal(c)
  PROVE  /\ Normal(r \o c) /\ Elements(r \o c) = Elements(r) \cup (b..e-1)
         /\ \A m \in Nat : e < m => EndsBefore(r \o c, m)
<1>1. Between(r, 0, b)
  BY EndsBetween
<1>2. Between(c, b, e) /\ Elements(c) = b..e-1
  BY TilesElements DEF Between
<1>3. Between(r \o c, 0, e) /\ Elements(r \o c) = Elements(r) \cup Elements(c)
  BY <1>1, <1>2, BetweenConcat
<1>4. ASSUME NEW m \in Nat, e < m PROVE EndsBefore(r \o c, m)
  <2>1. \A i \in DOMAIN (r \o c) : end((r \o c)[i]) \in Nat /\ end((r \o c)[i]) <= e
    BY <1>3, CellBounds DEF Between, Ordered
  <2> DEFINE q == r \o c
  <2> HIDE DEF q
  <2>2. \A i \in DOMAIN q : end(q[i]) < m
    BY <1>4, <2>1 DEF q
  <2> QED
    BY <2>2 DEF EndsBefore, q
<1>5. Maximal(r \o c)
  BY <1>2, JoinMaximal DEF Normal, EndsBefore
<1> QED
  BY <1>2, <1>3, <1>4, <1>5 DEF Between, Normal

-----------------------------------------------------------------------------
(* What an iteration does to the two sides x and y of a merge and to its   *)
(* result r.                                                               *)

\* The numbers of an operand.
LEMMA OperandNumbers ==
  ASSUME NEW x, Operand(x)
  PROVE  /\ x.b \in Nat /\ x.e \in Nat /\ x.b <= x.e /\ x.e <= Limit /\ Limit \in Nat
         /\ Elements(x.rest) \subseteq x.e+1..Limit-1
<1>1. x.b \in Nat /\ x.e \in Nat /\ x.b <= x.e /\ x.e <= Limit /\ Limit \in Nat
  BY ShiftedPositive DEF Operand, Remainder
<1>2. x.e + 1 \in Nat /\ Between(x.rest, x.e + 1, Limit)
  BY <1>1 DEF Operand, Remainder
<1> QED
  BY <1>1, <1>2, BetweenElements

\* A list that ends before m ends before what is larger.
LEMMA EndsBeforeLater ==
  ASSUME NEW r, Normal(r), NEW m \in Nat, NEW n \in Nat, m <= n, EndsBefore(r, m)
  PROVE  EndsBefore(r, n)
<1>1. \A i \in DOMAIN r : r[i] \in Cell /\ end(r[i]) \in Nat
  BY CellBounds DEF Ordered, Normal
<1> QED
  BY <1>1 DEF EndsBefore

\* A list that ends by the end of x's interval ends before what is behind it.
LEMMA EndsBeforeNext ==
  ASSUME NEW x, Operand(x), NEW r, Normal(r), NEW m \in Nat, m <= x.e + 1, EndsBefore(r, m)
  PROVE  /\ Operand(headx(x.rest)) /\ headx(x.rest) \in Remainder
         /\ ~Done(headx(x.rest)) => EndsBefore(r, headx(x.rest).b)
<1> DEFINE y == headx(x.rest)
<1> HIDE DEF y
<1>1. Operand(y) /\ (~Done(y) => x.e < y.b)
  BY OperandContinues DEF y
<1>2. ASSUME ~Done(y) PROVE EndsBefore(r, y.b)
  <2>1. x.e \in Nat /\ y.b \in Nat
    BY <1>1, OperandNumbers
  <2>2. m <= y.b
    BY <1>1, <1>2, <2>1
  <2> QED
    BY <2>1, <2>2, EndsBeforeLater
<1> QED
  BY <1>1, <1>2 DEF y, Operand, Remainder

\* An interval inside y's adds nothing to a union.
LEMMA UnionInside ==
  ASSUME NEW x, NEW y, Operand(x), Operand(y), y.b <= x.b, x.e <= y.e
  PROVE  Left(headx(x.rest)) \cup Left(y) = Left(x) \cup Left(y)
<1>1. Left(headx(x.rest)) = Elements(x.rest)
  BY OperandContinues
<1>2. x.b..x.e-1 \subseteq y.b..y.e-1
  BY OperandNumbers
<1> QED
  BY <1>1, <1>2 DEF Left

\* The interval of both: y's, begun at x's begin.
LEMMA UnionJoined ==
  ASSUME NEW x, NEW y, Operand(x), Operand(y), ~Done(x),
         x.b <= y.b, x.e <= y.e, y.b <= x.e,
         NEW z, z = [y EXCEPT !.head = <<>>, !.b = x.b]
  PROVE  /\ Operand(z) /\ z.b = x.b
         /\ Left(headx(x.rest)) \cup Left(z) = Left(x) \cup Left(y)
<1>1. /\ x.b \in Nat /\ x.e \in Nat /\ y.b \in Nat /\ y.e \in Nat /\ Limit \in Nat
      /\ x.b < x.e /\ y.b <= y.e /\ y.e <= Limit
  BY OperandNumbers DEF Done
<1>2. /\ z \in [head : Seq(Cell), rest : Seq(Cell), b : Nat, e : Nat]
      /\ z.head = <<>> /\ z.rest = y.rest /\ z.b = x.b /\ z.e = y.e
  <2>1. y \in [head : Seq(Cell), rest : Seq(Cell), b : Nat, e : Nat]
    BY DEF Operand, Remainder
  <2>2. <<>> \in Seq(Cell)
    OBVIOUS
  <2> QED
    BY <1>1, <2>1, <2>2
<1>3. Operand(z)
  <2>1. Between(z.rest, z.e + 1, Limit) /\ Maximal(z.rest)
    BY <1>2 DEF Operand
  <2>2. z.b <= z.e /\ z.e <= Limit /\ z.b # z.e
    BY <1>1, <1>2
  <2>3. z \in Remainder
    BY <1>2 DEF Remainder
  <2> QED
    BY <1>2, <2>1, <2>2, <2>3, EmptyMaximal DEF Operand
<1>4. Left(headx(x.rest)) = Elements(x.rest)
  BY OperandContinues
<1>5. z.b..z.e-1 = (x.b..x.e-1) \cup (y.b..y.e-1)
  BY <1>1, <1>2
<1> QED
  BY <1>2, <1>3, <1>4, <1>5 DEF Left

\* An interval inside y's is in the intersection.
LEMMA IntersectionInside ==
  ASSUME NEW x, NEW y, Operand(x), Operand(y), y.b <= x.b, x.e <= y.e
  PROVE  (x.b..x.e-1) \cup (Left(headx(x.rest)) \cap Left(y)) = Left(x) \cap Left(y)
<1>1. Left(headx(x.rest)) = Elements(x.rest)
  BY OperandContinues
<1>2. x.b..x.e-1 \subseteq y.b..y.e-1
  BY OperandNumbers
<1> QED
  BY <1>1, <1>2 DEF Left

\* An interval before y's is not in it.
LEMMA IntersectionApart ==
  ASSUME NEW x, NEW y, Operand(x), Operand(y), x.e <= y.b
  PROVE  Left(headx(x.rest)) \cap Left(y) = Left(x) \cap Left(y)
<1>1. Left(headx(x.rest)) = Elements(x.rest)
  BY OperandContinues
<1>2. /\ x.b \in Nat /\ x.e \in Nat /\ y.b \in Nat /\ y.e \in Nat /\ Limit \in Nat
      /\ y.b <= y.e /\ Elements(y.rest) \subseteq y.e+1..Limit-1
  BY OperandNumbers
<1>3. (x.b..x.e-1) \cap (y.b..y.e-1) = {}
  BY <1>2
<1>4. (x.b..x.e-1) \cap Elements(y.rest) = {}
  BY <1>2
<1> QED
  BY <1>1, <1>3, <1>4 DEF Left

\* What the two share is in it, and y goes on from x's end.
LEMMA IntersectionCut ==
  ASSUME NEW x, NEW y, Operand(x), Operand(y),
         x.b <= y.b, x.e < y.e, y.b <= x.e,
         NEW z, z = [y EXCEPT !.head = <<>>, !.b = x.e]
  PROVE  /\ Operand(z) /\ z.b = x.e /\ ~Done(z)
         /\ (y.b..x.e-1) \cup (Left(headx(x.rest)) \cap Left(z)) = Left(x) \cap Left(y)
<1>1. /\ x.b \in Nat /\ x.e \in Nat /\ y.b \in Nat /\ y.e \in Nat /\ Limit \in Nat
      /\ x.b <= x.e /\ y.b <= y.e /\ y.e <= Limit
      /\ Elements(x.rest) \subseteq x.e+1..Limit-1 /\ Elements(y.rest) \subseteq y.e+1..Limit-1
  BY OperandNumbers
<1>2. /\ z \in [head : Seq(Cell), rest : Seq(Cell), b : Nat, e : Nat]
      /\ z.head = <<>> /\ z.rest = y.rest /\ z.b = x.e /\ z.e = y.e
  <2>1. y \in [head : Seq(Cell), rest : Seq(Cell), b : Nat, e : Nat]
    BY DEF Operand, Remainder
  <2>2. <<>> \in Seq(Cell)
    OBVIOUS
  <2> QED
    BY <1>1, <2>1, <2>2
<1>3. Operand(z) /\ ~Done(z)
  <2>1. Between(z.rest, z.e + 1, Limit) /\ Maximal(z.rest)
    BY <1>2 DEF Operand
  <2>2. z.b < z.e /\ z.b <= z.e /\ z.e <= Limit /\ z.b # z.e
    BY <1>1, <1>2
  <2>3. z \in Remainder
    BY <1>2 DEF Remainder
  <2> QED
    BY <1>2, <2>1, <2>2, <2>3, EmptyMaximal DEF Operand, Done
<1>4. Left(headx(x.rest)) = Elements(x.rest)
  BY OperandContinues
<1>5. (x.b..x.e-1) \cap (y.b..y.e-1) = y.b..x.e-1
  BY <1>1
<1>6. (x.b..x.e-1) \cap Elements(y.rest) = {}
  BY <1>1
<1>7. Elements(x.rest) \cap (y.b..y.e-1) = Elements(x.rest) \cap (x.e..y.e-1)
  BY <1>1
<1>8. /\ Left(x) \cap Left(y) =
           (y.b..x.e-1) \cup (Elements(x.rest) \cap ((x.e..y.e-1) \cup Elements(y.rest)))
      /\ Left(z) = (x.e..y.e-1) \cup Elements(y.rest)
  BY <1>2, <1>5, <1>6, <1>7 DEF Left
<1> QED
  BY <1>2, <1>3, <1>4, <1>8

-----------------------------------------------------------------------------
(* Each iteration keeps the invariant of the call.                         *)

\* CallInv and CallExact of a union, said of its sides in either role.
UnionInv(c, x, y) ==
  /\ Operand(c[x]) /\ Operand(c[y]) /\ Normal(c.r)
  /\ ~Done(c[x]) => EndsBefore(c.r, c[x].b)
  /\ ~Done(c[y]) => EndsBefore(c.r, c[y].b)

IntersectionInv(c, x, y) ==
  /\ Operand(c[x]) /\ Operand(c[y]) /\ Normal(c.r)
  /\ ~Done(c[x]) /\ ~Done(c[y]) => EndsBefore(c.r, c[x].b) \/ EndsBefore(c.r, c[y].b)

\* A call is a record whose sides can be named by the role.
LEMMA CallSides ==
  ASSUME NEW c \in Calls, NEW x, NEW y, <<x, y>> \in Roles
  PROVE  /\ x \in {"s", "t"} /\ y \in {"s", "t"} /\ x # y /\ c # None
         /\ c["s"] = c.s /\ c["t"] = c.t /\ c[x] \in Remainder /\ c[y] \in Remainder
         /\ c.r \in Seq(Cell)
<1>1. (x = "s" /\ y = "t") \/ (x = "t" /\ y = "s")
  BY DEF Roles
<1>2. c["s"] = c.s /\ c["t"] = c.t /\ c.s \in Remainder /\ c.t \in Remainder /\ c # None
      /\ c.r \in Seq(Cell)
  <2>1. c["s"] = c.s /\ c["t"] = c.t
    BY DEF Calls
  <2>2. c.s \in Remainder /\ c.t \in Remainder /\ c.r \in Seq(Cell)
    BY DEF Calls, Remainder
  <2>3. c # None
    <3>1. DOMAIN c = {"op", "args", "s", "t", "r", "b"}
      BY DEF Calls
    <3>2. DOMAIN None = {}
      BY DEF None
    <3> QED
      BY <3>1, <3>2
  <2> QED
    BY <2>1, <2>2, <2>3
<1> QED
  BY <1>1, <1>2

LEMMA UnionSides ==
  ASSUME NEW c \in Calls, c.op = "Union", NEW x, NEW y, <<x, y>> \in Roles
  PROVE  /\ CallInv(c) => UnionInv(c, x, y)
         /\ CallExact(c) <=> Elements(c.r) \cup Left(c[x]) \cup Left(c[y]) =
                               Elements(c.args[1]) \cup Elements(c.args[2])
         /\ /\ UnionInv(c, x, y) /\ c.b <= Limit
            /\ Ordered(c.args[1]) /\ Ordered(c.args[2])
            => CallInv(c)
<1>1. (x = "s" /\ y = "t") \/ (x = "t" /\ y = "s")
  BY DEF Roles
<1>2. c["s"] = c.s /\ c["t"] = c.t
  BY CallSides
<1>3. c.op # "Intersection" /\ c.op # "Complement"
  OBVIOUS
<1>4. CASE x = "s" /\ y = "t"
  BY <1>2, <1>3, <1>4, Zenon DEF CallInv, UnionInv, CallExact
<1>5. CASE x = "t" /\ y = "s"
  <2>1. Left(c[x]) \cup Left(c[y]) = Left(c.s) \cup Left(c.t)
    BY <1>2, <1>5
  <2>2. CallExact(c) <=> Elements(c.r) \cup (Left(c.s) \cup Left(c.t)) =
                           Elements(c.args[1]) \cup Elements(c.args[2])
    BY <1>3 DEF CallExact
  <2> QED
    BY <1>2, <1>3, <1>5, <2>1, <2>2 DEF CallInv, UnionInv
<1> QED
  BY <1>1, <1>4, <1>5

LEMMA IntersectionSides ==
  ASSUME NEW c \in Calls, c.op = "Intersection", NEW x, NEW y, <<x, y>> \in Roles
  PROVE  /\ CallInv(c) => IntersectionInv(c, x, y)
         /\ CallExact(c) <=> Elements(c.r) \cup (Left(c[x]) \cap Left(c[y])) =
                               Elements(c.args[1]) \cap Elements(c.args[2])
         /\ /\ IntersectionInv(c, x, y) /\ c.b <= Limit
            /\ Ordered(c.args[1]) /\ Ordered(c.args[2])
            => CallInv(c)
<1>1. (x = "s" /\ y = "t") \/ (x = "t" /\ y = "s")
  BY DEF Roles
<1>2. c["s"] = c.s /\ c["t"] = c.t
  BY CallSides
<1>3. c.op # "Union" /\ c.op # "Complement"
  OBVIOUS
<1>4. Left(c[x]) \cap Left(c[y]) = Left(c.s) \cap Left(c.t)
  BY <1>1, <1>2
<1>5. CallExact(c) <=> Elements(c.r) \cup (Left(c.s) \cap Left(c.t)) =
                         Elements(c.args[1]) \cap Elements(c.args[2])
  BY <1>3 DEF CallExact
<1> QED
  BY <1>1, <1>2, <1>3, <1>4, <1>5 DEF CallInv, IntersectionInv

\* An iteration of Union that leaves in d[x] what is behind x's interval.
LEMMA UnionKeeps ==
  ASSUME NEW c, CallInv(c), CallExact(c), c.op = "Union",
         NEW x, NEW y, <<x, y>> \in Roles,
         NEW d \in Calls, d.op = c.op, d.args = c.args, d.b = c.b, UnionInv(d, x, y),
         Elements(d.r) \cup Left(d[x]) \cup Left(d[y]) =
           Elements(c.r) \cup Left(c[x]) \cup Left(c[y])
  PROVE  CallInv(d) /\ CallExact(d)
<1>1. c \in Calls /\ d.op = "Union" /\ d.b <= Limit /\ Ordered(d.args[1]) /\ Ordered(d.args[2])
  BY DEF CallInv
<1>2. Elements(c.r) \cup Left(c[x]) \cup Left(c[y]) = Elements(c.args[1]) \cup Elements(c.args[2])
  BY <1>1, UnionSides
<1> QED
  BY <1>1, <1>2, UnionSides

LEMMA IntersectionKeeps ==
  ASSUME NEW c, CallInv(c), CallExact(c), c.op = "Intersection",
         NEW x, NEW y, <<x, y>> \in Roles,
         NEW d \in Calls, d.op = c.op, d.args = c.args, d.b = c.b, IntersectionInv(d, x, y),
         Elements(d.r) \cup (Left(d[x]) \cap Left(d[y])) =
           Elements(c.r) \cup (Left(c[x]) \cap Left(c[y]))
  PROVE  CallInv(d) /\ CallExact(d)
<1>1. /\ c \in Calls /\ d.op = "Intersection" /\ d.b <= Limit
      /\ Ordered(d.args[1]) /\ Ordered(d.args[2])
  BY DEF CallInv
<1>2. Elements(c.r) \cup (Left(c[x]) \cap Left(c[y])) = Elements(c.args[1]) \cap Elements(c.args[2])
  BY <1>1, IntersectionSides
<1> QED
  BY <1>1, <1>2, IntersectionSides

-----------------------------------------------------------------------------
(* The steps.                                                              *)

\* A call under way satisfies the invariant of calls.
LEMMA CallUnderWay ==
  ASSUME IInv, ~Idle
  PROVE  call \in Calls /\ CallInv(call) /\ CallExact(call) /\ Normal(set)
  BY DEF IInv, CallInv

\* In a merge loop both sides have an interval.
LEMMA MergingSides ==
  ASSUME IInv, NEW op, Merging(op), NEW x, NEW y, <<x, y>> \in Roles
  PROVE  /\ call \in Calls /\ CallInv(call) /\ CallExact(call) /\ Normal(set) /\ call.op = op
         /\ ~Done(call[x]) /\ ~Done(call[y])
<1>1. ~Idle /\ call.op = op /\ \A z \in {"s", "t"} : call[z].b # call[z].e
  BY DEF Merging
<1>2. call \in Calls /\ CallInv(call) /\ CallExact(call) /\ Normal(set)
  BY <1>1, CallUnderWay
<1>3. x \in {"s", "t"} /\ y \in {"s", "t"}
  BY DEF Roles
<1> QED
  BY <1>1, <1>2, <1>3 DEF Done

\* The call goes on, and the set stays.
Continues ==
  /\ ~Idle /\ call' # None /\ call'.op = call.op /\ call'.args = call.args
  /\ UNCHANGED set

\* A call that goes on keeps the invariant with its own.
LEMMA GoesOn ==
  ASSUME IInv, call \in Calls, UNCHANGED set, CallInv(call'), CallExact(call'),
         call'.op = call.op, call'.args = call.args
  PROVE  IInv' /\ Continues
<1>1. call' \in Calls /\ <<"s", "t">> \in Roles
  BY DEF CallInv, Roles
<1>2. call # None /\ call' # None
  BY <1>1, CallSides
<1> QED
  BY <1>2 DEF IInv, Continues, Idle

LEMMA UnionContainedKeeps ==
  ASSUME IInv, NEW x, NEW y, <<x, y>> \in Roles, UnionContained(x, y)
  PROVE  IInv' /\ Continues
<1> DEFINE c == call
           d == call'
           X == call[x]
           Y == call[y]
<1>1. /\ c \in Calls /\ CallInv(c) /\ CallExact(c) /\ c.op = "Union" /\ ~Done(X) /\ ~Done(Y)
      /\ UNCHANGED set
  BY MergingSides DEF UnionContained
<1>2. x \in {"s", "t"} /\ y \in {"s", "t"} /\ x # y /\ c[x] \in Remainder
  BY <1>1, CallSides
<1>3. /\ Operand(X) /\ Operand(Y) /\ Normal(c.r) /\ EndsBefore(c.r, X.b) /\ EndsBefore(c.r, Y.b)
  BY <1>1, UnionSides DEF UnionInv
<1>4. Y.b <= X.b /\ X.e <= Y.e
  BY DEF UnionContained, Contained, In
<1>5. /\ Operand(headx(X.rest)) /\ headx(X.rest) \in Remainder
      /\ ~Done(headx(X.rest)) => EndsBefore(c.r, headx(X.rest).b)
  <2>1. X.b \in Nat /\ X.b <= X.e + 1
    BY <1>3, OperandNumbers
  <2> QED
    BY <1>3, <2>1, EndsBeforeNext
<1>6. d = [c EXCEPT ![x] = headx(X.rest)]
  BY DEF UnionContained
<1>7. /\ d \in Calls /\ d.op = c.op /\ d.args = c.args /\ d.b = c.b /\ d.r = c.r
      /\ d[x] = headx(X.rest) /\ d[y] = Y
  BY <1>1, <1>2, <1>5, <1>6 DEF Calls, Remainder
<1>8. UnionInv(d, x, y)
  BY <1>3, <1>5, <1>7 DEF UnionInv
<1>9. Left(d[x]) \cup Left(d[y]) = Left(c[x]) \cup Left(c[y])
  BY <1>3, <1>4, <1>7, UnionInside
<1>10. Elements(d.r) \cup Left(d[x]) \cup Left(d[y]) = Elements(c.r) \cup Left(c[x]) \cup Left(c[y])
  BY <1>7, <1>9
<1>11. CallInv(d) /\ CallExact(d)
  BY <1>1, <1>7, <1>8, <1>10, UnionKeeps
<1> QED
  BY <1>1, <1>2, <1>7, <1>11, GoesOn

LEMMA UnionBeforeKeeps ==
  ASSUME IInv, NEW x, NEW y, <<x, y>> \in Roles, UnionBefore(x, y)
  PROVE  IInv' /\ Continues
<1> DEFINE c == call
           d == call'
           X == call[x]
           Y == call[y]
           r == c.r \o CellsOf(X)
<1>1. /\ c \in Calls /\ CallInv(c) /\ CallExact(c) /\ c.op = "Union" /\ ~Done(X) /\ ~Done(Y)
      /\ UNCHANGED set
  BY MergingSides DEF UnionBefore
<1>2. x \in {"s", "t"} /\ y \in {"s", "t"} /\ x # y /\ c[x] \in Remainder
  BY <1>1, CallSides
<1>3. /\ Operand(X) /\ Operand(Y) /\ Normal(c.r) /\ EndsBefore(c.r, X.b)
      /\ X.b \in Nat /\ X.e \in Nat /\ X.b <= X.e /\ Y.b \in Nat
  BY <1>1, UnionSides, OperandNumbers DEF UnionInv
<1>4. X.e < Y.b
  BY DEF UnionBefore
<1>5. /\ Normal(r) /\ Elements(r) = Elements(c.r) \cup (X.b..X.e-1)
      /\ EndsBefore(r, X.e + 1) /\ EndsBefore(r, Y.b)
  <2>1. X.e + 1 \in Nat /\ X.e < X.e + 1
    BY <1>3
  <2> QED
    BY <1>3, <1>4, <2>1, CoverTiles, ResultGrows
<1>6. /\ Operand(headx(X.rest)) /\ headx(X.rest) \in Remainder
      /\ ~Done(headx(X.rest)) => EndsBefore(r, headx(X.rest).b)
  <2>1. X.e + 1 \in Nat /\ X.e + 1 <= X.e + 1
    BY <1>3
  <2> HIDE DEF r
  <2> QED
    BY <1>3, <1>5, <2>1, EndsBeforeNext
<1>7. d = [c EXCEPT !.r = r, ![x] = headx(X.rest)]
  <2>1. d = [c EXCEPT !.r = @ \o CellsOf(c[x]), ![x] = headx(@.rest)]
    BY DEF UnionBefore
  <2> QED
    BY <1>1, <1>2, <2>1
<1>8. /\ d \in Calls /\ d.op = c.op /\ d.args = c.args /\ d.b = c.b /\ d.r = r
      /\ d[x] = headx(X.rest) /\ d[y] = Y
  <2> HIDE DEF r
  <2>1. r \in Seq(Cell)
    BY <1>5 DEF Ordered, Normal
  <2> QED
    BY <1>1, <1>2, <1>6, <1>7, <2>1 DEF Calls, Remainder
<1> HIDE DEF r
<1>9. UnionInv(d, x, y)
  BY <1>3, <1>5, <1>6, <1>8 DEF UnionInv
<1>10. Left(X) = (X.b..X.e-1) \cup Left(headx(X.rest))
  BY <1>3, OperandContinues DEF Left
<1>11. Elements(d.r) \cup Left(d[x]) \cup Left(d[y]) = Elements(c.r) \cup Left(c[x]) \cup Left(c[y])
  BY <1>5, <1>8, <1>10
<1>12. CallInv(d) /\ CallExact(d)
  BY <1>1, <1>8, <1>9, <1>11, UnionKeeps
<1> QED
  BY <1>1, <1>2, <1>8, <1>12, GoesOn

LEMMA UnionOverlapKeeps ==
  ASSUME IInv, NEW x, NEW y, <<x, y>> \in Roles, UnionOverlap(x, y)
  PROVE  IInv' /\ Continues
<1> DEFINE c == call
           d == call'
           X == call[x]
           Y == call[y]
           z == [Y EXCEPT !.head = <<>>, !.b = X.b]
<1>1. /\ c \in Calls /\ CallInv(c) /\ CallExact(c) /\ c.op = "Union" /\ ~Done(X) /\ ~Done(Y)
      /\ UNCHANGED set
  BY MergingSides DEF UnionOverlap
<1>2. x \in {"s", "t"} /\ y \in {"s", "t"} /\ x # y /\ c[x] \in Remainder /\ c[y] \in Remainder
  BY <1>1, CallSides
<1>3. /\ Operand(X) /\ Operand(Y) /\ Normal(c.r) /\ EndsBefore(c.r, X.b)
      /\ X.b \in Nat /\ X.e \in Nat /\ X.b <= X.e /\ X.b <= X.e + 1
  BY <1>1, UnionSides, OperandNumbers DEF UnionInv
<1>4. X.b <= Y.b /\ X.e <= Y.e /\ Y.b <= X.e
  <2>1. X.b <= Y.b /\ X.e <= Y.e /\ X.e >= Y.b
    BY DEF UnionOverlap, Overlapping
  <2> QED
    BY <1>3, <2>1, OperandNumbers
<1>5. /\ Operand(headx(X.rest)) /\ headx(X.rest) \in Remainder
      /\ ~Done(headx(X.rest)) => EndsBefore(c.r, headx(X.rest).b)
  BY <1>3, EndsBeforeNext
<1>6. Operand(z) /\ z.b = X.b /\ Left(headx(X.rest)) \cup Left(z) = Left(X) \cup Left(Y)
  BY <1>1, <1>3, <1>4, UnionJoined
<1>7. d = [c EXCEPT ![y] = z, ![x] = headx(X.rest)]
  <2>1. d = [c EXCEPT ![y].head = <<>>, ![y].b = c[x].b, ![x] = headx(@.rest)]
    BY DEF UnionOverlap
  <2> QED
    BY <1>1, <1>2, <2>1 DEF Calls, Remainder
<1> HIDE DEF z
<1>8. /\ d \in Calls /\ d.op = c.op /\ d.args = c.args /\ d.b = c.b /\ d.r = c.r
      /\ d[x] = headx(X.rest) /\ d[y] = z
  <2>1. z \in Remainder
    BY <1>6 DEF Operand
  <2> QED
    BY <1>1, <1>2, <1>5, <1>7, <2>1 DEF Calls, Remainder
<1>9. UnionInv(d, x, y)
  BY <1>3, <1>5, <1>6, <1>8 DEF UnionInv
<1>10. Elements(d.r) \cup Left(d[x]) \cup Left(d[y]) = Elements(c.r) \cup Left(c[x]) \cup Left(c[y])
  BY <1>6, <1>8
<1>11. CallInv(d) /\ CallExact(d)
  BY <1>1, <1>8, <1>9, <1>10, UnionKeeps
<1> QED
  BY <1>1, <1>2, <1>8, <1>11, GoesOn

\* The result of Union in order, with the elements of both operands.
LEMMA UnionReturns ==
  ASSUME IInv, UnionReturn
  PROVE  /\ Normal(set') /\ call' = None
         /\ Elements(set') = Elements(call.args[1]) \cup Elements(call.args[2])
<1> DEFINE c == call
           S == call.s
           T == call.t
<1>1. /\ ~Idle /\ c.op = "Union" /\ ~Merging("Union") /\ call' = None
      /\ set' = (c.r \o Pending(S)) \o Pending(T)
  BY DEF UnionReturn
<1>2. c \in Calls /\ CallInv(c) /\ CallExact(c) /\ <<"s", "t">> \in Roles
  BY <1>1, CallUnderWay DEF Roles
<1>3. c["s"] = S /\ c["t"] = T /\ c.r \in Seq(Cell)
  BY <1>2, CallSides
<1>4. /\ Operand(S) /\ Operand(T) /\ Normal(c.r)
      /\ ~Done(S) => EndsBefore(c.r, S.b)
      /\ ~Done(T) => EndsBefore(c.r, T.b)
      /\ Elements(c.r) \cup Left(S) \cup Left(T) = Elements(c.args[1]) \cup Elements(c.args[2])
  BY <1>1, <1>2 DEF CallInv, CallExact
<1>5. Done(S) \/ Done(T)
  BY <1>1, <1>3 DEF Merging, Done
<1>6. /\ Done(S) => Pending(S) = <<>> /\ Left(S) = {}
      /\ Done(T) => Pending(T) = <<>> /\ Left(T) = {}
  BY <1>4, PendingExact, EmptyBetween
<1>7. ASSUME NEW x, Operand(x), ~Done(x) => EndsBefore(c.r, x.b)
      PROVE  /\ c.r \o Pending(x) \in Seq(Cell) /\ Normal(c.r \o Pending(x))
             /\ Elements(c.r \o Pending(x)) = Elements(c.r) \cup Left(x)
  <2>1. CASE Done(x)
    <3>1. Pending(x) = <<>> /\ Left(x) = {}
      BY <1>7, <2>1, PendingExact, EmptyBetween
    <3>2. c.r \o <<>> = c.r
      BY <1>3
    <3> QED
      BY <1>3, <1>4, <3>1, <3>2
  <2>2. CASE ~Done(x)
    <3>1. x.b \in Nat /\ Limit \in Nat /\ x.b <= Limit /\ 0 \in Nat /\ 0 <= x.b
      BY <1>7, OperandNumbers
    <3>2. Between(c.r, 0, x.b)
      BY <1>4, <1>7, <2>2, <3>1, EndsBetween
    <3>3. /\ Between(Pending(x), x.b, Limit) /\ Elements(Pending(x)) = Left(x)
          /\ Maximal(Pending(x))
      BY <1>7, PendingExact
    <3>4. /\ Between(c.r \o Pending(x), 0, Limit)
          /\ Elements(c.r \o Pending(x)) = Elements(c.r) \cup Elements(Pending(x))
      BY <3>1, <3>2, <3>3, BetweenConcat
    <3>5. Maximal(c.r \o Pending(x))
      BY <1>4, <1>7, <2>2, <3>1, <3>3, JoinMaximal DEF Normal, EndsBefore
    <3> QED
      BY <3>3, <3>4, <3>5 DEF Between, Ordered, Normal
  <2> QED
    BY <2>1, <2>2
<1>8. CASE Done(S)
  <2>1. c.r \o <<>> = c.r
    BY <1>3
  <2>2. set' = c.r \o Pending(T)
    BY <1>1, <1>6, <1>8, <2>1
  <2> QED
    BY <1>1, <1>4, <1>6, <1>7, <1>8, <2>2
<1>9. CASE Done(T)
  <2> DEFINE q == c.r \o Pending(S)
  <2> HIDE DEF q
  <2>1. q \in Seq(Cell) /\ Normal(q) /\ Elements(q) = Elements(c.r) \cup Left(S)
    BY <1>4, <1>7 DEF q
  <2>2. q \o <<>> = q
    BY <2>1
  <2>3. set' = q
    BY <1>1, <1>6, <1>9, <2>2 DEF q
  <2> QED
    BY <1>1, <1>4, <1>6, <1>9, <2>1, <2>3
<1> QED
  BY <1>5, <1>8, <1>9

LEMMA IntersectionContainedKeeps ==
  ASSUME IInv, NEW x, NEW y, <<x, y>> \in Roles, IntersectionContained(x, y)
  PROVE  IInv' /\ Continues
<1> DEFINE c == call
           d == call'
           X == call[x]
           Y == call[y]
           r == c.r \o CellsOf(X)
<1>1. /\ c \in Calls /\ CallInv(c) /\ CallExact(c) /\ c.op = "Intersection" /\ ~Done(X) /\ ~Done(Y)
      /\ UNCHANGED set
  BY MergingSides DEF IntersectionContained
<1>2. x \in {"s", "t"} /\ y \in {"s", "t"} /\ x # y /\ c[x] \in Remainder
  BY <1>1, CallSides
<1>3. /\ Operand(X) /\ Operand(Y) /\ Normal(c.r)
      /\ EndsBefore(c.r, X.b) \/ EndsBefore(c.r, Y.b)
      /\ X.b \in Nat /\ X.e \in Nat /\ X.b <= X.e /\ Y.b \in Nat
  BY <1>1, IntersectionSides, OperandNumbers DEF IntersectionInv
<1>4. Y.b <= X.b /\ X.e <= Y.e
  BY DEF IntersectionContained, Contained, In
<1>5. EndsBefore(c.r, X.b)
  BY <1>3, <1>4, EndsBeforeLater
<1>6. /\ Normal(r) /\ Elements(r) = Elements(c.r) \cup (X.b..X.e-1) /\ EndsBefore(r, X.e + 1)
  <2>1. X.e + 1 \in Nat /\ X.e < X.e + 1
    BY <1>3
  <2> QED
    BY <1>3, <1>5, <2>1, CoverTiles, ResultGrows
<1>7. /\ Operand(headx(X.rest)) /\ headx(X.rest) \in Remainder
      /\ ~Done(headx(X.rest)) => EndsBefore(r, headx(X.rest).b)
  <2>1. X.e + 1 \in Nat /\ X.e + 1 <= X.e + 1
    BY <1>3
  <2> HIDE DEF r
  <2> QED
    BY <1>3, <1>6, <2>1, EndsBeforeNext
<1>8. d = [c EXCEPT !.r = r, ![x] = headx(X.rest)]
  <2>1. d = [c EXCEPT !.r = @ \o CellsOf(c[x]), ![x] = headx(@.rest)]
    BY DEF IntersectionContained
  <2> QED
    BY <1>1, <1>2, <2>1
<1>9. /\ d \in Calls /\ d.op = c.op /\ d.args = c.args /\ d.b = c.b /\ d.r = r
      /\ d[x] = headx(X.rest) /\ d[y] = Y
  <2> HIDE DEF r
  <2>1. r \in Seq(Cell)
    BY <1>6 DEF Ordered, Normal
  <2> QED
    BY <1>1, <1>2, <1>7, <1>8, <2>1 DEF Calls, Remainder
<1> HIDE DEF r
<1>10. IntersectionInv(d, x, y)
  BY <1>3, <1>6, <1>7, <1>9 DEF IntersectionInv
<1>11. (X.b..X.e-1) \cup (Left(headx(X.rest)) \cap Left(Y)) = Left(X) \cap Left(Y)
  BY <1>3, <1>4, IntersectionInside
<1>12. Elements(d.r) \cup (Left(d[x]) \cap Left(d[y])) = Elements(c.r) \cup (Left(c[x]) \cap Left(c[y]))
  BY <1>6, <1>9, <1>11
<1>13. CallInv(d) /\ CallExact(d)
  BY <1>1, <1>9, <1>10, <1>12, IntersectionKeeps
<1> QED
  BY <1>1, <1>2, <1>9, <1>13, GoesOn

LEMMA IntersectionBeforeKeeps ==
  ASSUME IInv, NEW x, NEW y, <<x, y>> \in Roles, IntersectionBefore(x, y)
  PROVE  IInv' /\ Continues
<1> DEFINE c == call
           d == call'
           X == call[x]
           Y == call[y]
<1>1. /\ c \in Calls /\ CallInv(c) /\ CallExact(c) /\ c.op = "Intersection" /\ ~Done(X) /\ ~Done(Y)
      /\ UNCHANGED set
  BY MergingSides DEF IntersectionBefore
<1>2. x \in {"s", "t"} /\ y \in {"s", "t"} /\ x # y /\ c[x] \in Remainder
  BY <1>1, CallSides
<1>3. /\ Operand(X) /\ Operand(Y) /\ Normal(c.r)
      /\ EndsBefore(c.r, X.b) \/ EndsBefore(c.r, Y.b)
      /\ X.b \in Nat /\ X.b <= X.e + 1
  BY <1>1, IntersectionSides, OperandNumbers DEF IntersectionInv
<1>4. X.e <= Y.b
  BY DEF IntersectionBefore
<1>5. /\ Operand(headx(X.rest)) /\ headx(X.rest) \in Remainder
      /\ EndsBefore(c.r, X.b) /\ ~Done(headx(X.rest)) => EndsBefore(c.r, headx(X.rest).b)
  BY <1>3, EndsBeforeNext, OperandContinues DEF Operand
<1>6. d = [c EXCEPT ![x] = headx(X.rest)]
  BY DEF IntersectionBefore
<1>7. /\ d \in Calls /\ d.op = c.op /\ d.args = c.args /\ d.b = c.b /\ d.r = c.r
      /\ d[x] = headx(X.rest) /\ d[y] = Y
  BY <1>1, <1>2, <1>5, <1>6 DEF Calls, Remainder
<1>8. IntersectionInv(d, x, y)
  BY <1>3, <1>5, <1>7 DEF IntersectionInv
<1>9. Left(headx(X.rest)) \cap Left(Y) = Left(X) \cap Left(Y)
  BY <1>3, <1>4, IntersectionApart
<1>10. Elements(d.r) \cup (Left(d[x]) \cap Left(d[y])) = Elements(c.r) \cup (Left(c[x]) \cap Left(c[y]))
  BY <1>7, <1>9
<1>11. CallInv(d) /\ CallExact(d)
  BY <1>1, <1>7, <1>8, <1>10, IntersectionKeeps
<1> QED
  BY <1>1, <1>2, <1>7, <1>11, GoesOn

LEMMA IntersectionOverlapKeeps ==
  ASSUME IInv, NEW x, NEW y, <<x, y>> \in Roles, IntersectionOverlap(x, y)
  PROVE  IInv' /\ Continues
<1> DEFINE c == call
           d == call'
           X == call[x]
           Y == call[y]
           r == c.r \o Interval(Y.b, X.e)
           z == [Y EXCEPT !.head = <<>>, !.b = X.e]
<1>1. /\ c \in Calls /\ CallInv(c) /\ CallExact(c) /\ c.op = "Intersection" /\ ~Done(X) /\ ~Done(Y)
      /\ UNCHANGED set
  BY MergingSides DEF IntersectionOverlap
<1>2. x \in {"s", "t"} /\ y \in {"s", "t"} /\ x # y /\ c[x] \in Remainder /\ c[y] \in Remainder
  BY <1>1, CallSides
<1>3. /\ Operand(X) /\ Operand(Y) /\ Normal(c.r)
      /\ EndsBefore(c.r, X.b) \/ EndsBefore(c.r, Y.b)
      /\ X.b \in Nat /\ X.e \in Nat /\ X.b <= X.e /\ X.e <= Limit
      /\ Y.b \in Nat /\ Y.e \in Nat /\ Y.b <= Y.e /\ Y.e <= Limit /\ Limit \in Nat
  BY <1>1, IntersectionSides, OperandNumbers DEF IntersectionInv
<1>4. X.b <= Y.b /\ X.e < Y.e /\ Y.b < X.e
  <2>1. /\ X.b <= Y.b /\ X.e <= Y.e /\ X.e > Y.b
        /\ ~(X.b <= Y.b /\ Y.e <= X.e)
    BY DEF IntersectionOverlap, Overlapping, In
  <2> QED
    BY <1>3, <2>1
<1>5. EndsBefore(c.r, Y.b)
  BY <1>3, <1>4, EndsBeforeLater
<1>6. /\ Normal(r) /\ Elements(r) = Elements(c.r) \cup (Y.b..X.e-1) /\ EndsBefore(r, X.e + 1)
  <2>1. X.e + 1 \in Nat /\ X.e < X.e + 1 /\ Y.b <= X.e /\ Y.b \in 0..Limit /\ X.e \in 0..Limit
    BY <1>3, <1>4
  <2>2. Tiles(Interval(Y.b, X.e), Y.b, X.e) /\ Maximal(Interval(Y.b, X.e))
    BY <2>1, IntervalTiles, IntervalMaximal
  <2> QED
    BY <1>3, <1>5, <2>1, <2>2, ResultGrows
<1>7. /\ Operand(headx(X.rest)) /\ headx(X.rest) \in Remainder
      /\ ~Done(headx(X.rest)) => EndsBefore(r, headx(X.rest).b)
  <2>1. X.e + 1 \in Nat /\ X.e + 1 <= X.e + 1
    BY <1>3
  <2> HIDE DEF r
  <2> QED
    BY <1>3, <1>6, <2>1, EndsBeforeNext
<1>8. /\ Operand(z) /\ z.b = X.e
      /\ (Y.b..X.e-1) \cup (Left(headx(X.rest)) \cap Left(z)) = Left(X) \cap Left(Y)
  <2>1. Y.b <= X.e
    BY <1>3, <1>4
  <2> QED
    BY <1>3, <1>4, <2>1, IntersectionCut
<1>9. d = [c EXCEPT !.r = r, ![y] = z, ![x] = headx(X.rest)]
  <2>1. d = [c EXCEPT !.r = @ \o Interval(c[y].b, c[x].e),
                      ![y].head = <<>>, ![y].b = c[x].e, ![x] = headx(@.rest)]
    BY DEF IntersectionOverlap
  <2> QED
    BY <1>1, <1>2, <2>1 DEF Calls, Remainder
<1> HIDE DEF z
<1>10. /\ d \in Calls /\ d.op = c.op /\ d.args = c.args /\ d.b = c.b /\ d.r = r
       /\ d[x] = headx(X.rest) /\ d[y] = z
  <2> HIDE DEF r
  <2>1. r \in Seq(Cell) /\ z \in Remainder
    BY <1>6, <1>8 DEF Ordered, Normal, Operand
  <2> QED
    BY <1>1, <1>2, <1>7, <1>9, <2>1 DEF Calls, Remainder
<1> HIDE DEF r
<1>11. IntersectionInv(d, x, y)
  BY <1>6, <1>7, <1>8, <1>10 DEF IntersectionInv
<1>12. Elements(d.r) \cup (Left(d[x]) \cap Left(d[y])) = Elements(c.r) \cup (Left(c[x]) \cap Left(c[y]))
  BY <1>6, <1>8, <1>10
<1>13. CallInv(d) /\ CallExact(d)
  BY <1>1, <1>10, <1>11, <1>12, IntersectionKeeps
<1> QED
  BY <1>1, <1>2, <1>10, <1>13, GoesOn

LEMMA IntersectionReturns ==
  ASSUME IInv, IntersectionReturn
  PROVE  /\ Normal(set') /\ call' = None
         /\ Elements(set') = Elements(call.args[1]) \cap Elements(call.args[2])
<1> DEFINE c == call
           S == call.s
           T == call.t
<1>1. /\ ~Idle /\ c.op = "Intersection" /\ ~Merging("Intersection") /\ call' = None
      /\ set' = c.r
  BY DEF IntersectionReturn
<1>2. c \in Calls /\ CallInv(c) /\ CallExact(c) /\ <<"s", "t">> \in Roles
  BY <1>1, CallUnderWay DEF Roles
<1>3. c["s"] = S /\ c["t"] = T
  BY <1>2, CallSides
<1>4. /\ Operand(S) /\ Operand(T) /\ Normal(c.r)
      /\ Elements(c.r) \cup (Left(S) \cap Left(T)) = Elements(c.args[1]) \cap Elements(c.args[2])
  BY <1>1, <1>2 DEF CallInv, CallExact
<1>5. Done(S) \/ Done(T)
  BY <1>1, <1>3 DEF Merging, Done
<1>6. Left(S) = {} \/ Left(T) = {}
  BY <1>4, <1>5, PendingExact, EmptyBetween
<1> QED
  BY <1>1, <1>4, <1>6

LEMMA ComplementStepKeeps ==
  ASSUME IInv, ComplementStep
  PROVE  IInv' /\ Continues
<1> DEFINE c == call
           d == call'
           S == call.s
           r == c.r \o Interval(c.b, S.b)
<1>1. /\ ~Idle /\ c.op = "Complement" /\ S.b # S.e /\ UNCHANGED set
      /\ d = [c EXCEPT !.r = @ \o Interval(c.b, S.b), !.b = S.e, !.s = headx(@.rest)]
  BY DEF ComplementStep, Walking
<1>2. c \in Calls /\ CallInv(c) /\ CallExact(c) /\ <<"s", "t">> \in Roles
  BY <1>1, CallUnderWay DEF Roles
<1>3. c["s"] = S /\ S \in Remainder
  BY <1>2, CallSides
<1>4. /\ Operand(S) /\ Operand(c.t) /\ Normal(c.r) /\ EndsBefore(c.r, c.b) /\ c.b <= S.b
      /\ Ordered(c.args[1]) /\ Ordered(c.args[2])
      /\ Elements(c.r) \cup ((c.b..Limit-1) \ Left(S)) = (0..Limit-1) \ Elements(c.args[1])
  BY <1>1, <1>2 DEF CallInv, CallExact, Done
<1>5. /\ S.b \in Nat /\ S.e \in Nat /\ c.b \in Nat /\ Limit \in Nat
      /\ S.b < S.e /\ S.e <= Limit /\ Elements(S.rest) \subseteq S.e+1..Limit-1
  BY <1>1, <1>2, <1>4, OperandNumbers DEF Calls
<1>6. /\ Normal(r) /\ Elements(r) = Elements(c.r) \cup (c.b..S.b-1) /\ EndsBefore(r, S.e)
  <2>1. c.b \in 0..Limit /\ S.b \in 0..Limit
    BY <1>4, <1>5
  <2>2. Tiles(Interval(c.b, S.b), c.b, S.b) /\ Maximal(Interval(c.b, S.b))
    BY <1>4, <2>1, IntervalTiles, IntervalMaximal
  <2> QED
    BY <1>4, <1>5, <2>2, ResultGrows
<1>7. /\ Operand(headx(S.rest)) /\ headx(S.rest) \in Remainder
      /\ ~Done(headx(S.rest)) => S.e <= headx(S.rest).b
      /\ Left(headx(S.rest)) = Elements(S.rest)
  <2>1. /\ Operand(headx(S.rest)) /\ Left(headx(S.rest)) = Elements(S.rest)
        /\ ~Done(headx(S.rest)) => S.e < headx(S.rest).b
    BY <1>4, OperandContinues
  <2>2. headx(S.rest).b \in Nat
    BY <2>1, OperandNumbers
  <2> QED
    BY <1>5, <2>1, <2>2 DEF Operand
<1>8. d = [c EXCEPT !.r = r, !.b = S.e, !.s = headx(S.rest)]
  BY <1>1, <1>2
<1>9. /\ d \in Calls /\ d.op = c.op /\ d.args = c.args /\ d.b = S.e /\ d.r = r
      /\ d.s = headx(S.rest) /\ d.t = c.t
  <2> HIDE DEF r
  <2>1. r \in Seq(Cell)
    BY <1>6 DEF Ordered, Normal
  <2> QED
    BY <1>2, <1>5, <1>7, <1>8, <2>1 DEF Calls, Remainder
<1> HIDE DEF r
<1>10. d.op # "Union" /\ d.op # "Intersection" /\ d.op = "Complement"
  BY <1>1, <1>9
<1>11. CallInv(d)
  BY <1>4, <1>5, <1>6, <1>7, <1>9, <1>10 DEF CallInv
<1>12. CallExact(d)
  <2>1. (c.b..Limit-1) \ Left(S) = (c.b..S.b-1) \cup ((S.e..Limit-1) \ Elements(S.rest))
    BY <1>4, <1>5 DEF Left
  <2>2. Elements(d.r) \cup ((d.b..Limit-1) \ Left(d.s)) = (0..Limit-1) \ Elements(d.args[1])
    BY <1>4, <1>6, <1>7, <1>9, <2>1
  <2> QED
    BY <1>10, <2>2 DEF CallExact
<1> QED
  BY <1>1, <1>2, <1>9, <1>11, <1>12, GoesOn

LEMMA ComplementReturns ==
  ASSUME IInv, ComplementReturn
  PROVE  /\ Normal(set') /\ call' = None
         /\ Elements(set') = (0..Limit-1) \ Elements(call.args[1])
<1> DEFINE c == call
           S == call.s
<1>1. /\ ~Idle /\ c.op = "Complement" /\ ~(S.b # S.e /\ c.b < Limit) /\ call' = None
      /\ set' = c.r \o Interval(c.b, Limit)
  BY DEF ComplementReturn, Walking
<1>2. c \in Calls /\ CallInv(c) /\ CallExact(c)
  BY <1>1, CallUnderWay
<1>3. /\ Operand(S) /\ Normal(c.r) /\ EndsBefore(c.r, c.b)
      /\ ~Done(S) => c.b <= S.b
      /\ c.b <= Limit /\ c.b \in Nat
      /\ Elements(c.r) \cup ((c.b..Limit-1) \ Left(S)) = (0..Limit-1) \ Elements(c.args[1])
  BY <1>1, <1>2 DEF CallInv, CallExact, Calls
<1>4. /\ S.b \in Nat /\ S.e \in Nat /\ S.b <= S.e /\ S.e <= Limit /\ Limit \in Nat
  BY <1>3, OperandNumbers
<1>5. Done(S)
  BY <1>1, <1>2, <1>3, <1>4 DEF Done, CallInv
<1>6. Left(S) = {}
  BY <1>3, <1>5, PendingExact, EmptyBetween
<1>7. Tiles(Interval(c.b, Limit), c.b, Limit) /\ Maximal(Interval(c.b, Limit))
  <2>1. c.b \in 0..Limit /\ Limit \in 0..Limit
    BY <1>3, <1>4
  <2> QED
    BY <1>3, <2>1, IntervalTiles, IntervalMaximal
<1>8. /\ Normal(c.r \o Interval(c.b, Limit))
      /\ Elements(c.r \o Interval(c.b, Limit)) = Elements(c.r) \cup (c.b..Limit-1)
  BY <1>3, <1>4, <1>7, ResultGrows
<1> QED
  BY <1>1, <1>3, <1>6, <1>8

\* A call begins with its operands and an empty result.
LEMMA StartKeeps ==
  ASSUME IInv, NEW op \in {"Union", "Intersection", "Complement"},
         NEW s, Normal(s), NEW t, Normal(t), Start(op, s, t)
  PROVE  IInv' /\ call'.op = op /\ call'.args = <<s, t>> /\ call' # None
<1> DEFINE S == headx(s)
           T == headx(t)
           d == call'
<1>1. /\ UNCHANGED set
      /\ d = [op |-> op, args |-> <<s, t>>, s |-> S, t |-> T, r |-> <<>>, b |-> 0]
  BY DEF Start
<1>2. /\ Operand(S) /\ Left(S) = Elements(s) /\ Operand(T) /\ Left(T) = Elements(t)
      /\ S \in Remainder /\ T \in Remainder /\ s \in Seq(Cell) /\ t \in Seq(Cell)
  BY OperandStarts DEF Operand, Ordered, Normal
<1>3. S.b \in Nat /\ Limit \in Nat
  BY <1>2, OperandNumbers
<1> HIDE DEF S, T
<1>4. /\ d.op = op /\ d.args = <<s, t>> /\ d.s = S /\ d.t = T /\ d.r = <<>> /\ d.b = 0
      /\ d.args[1] = s /\ d.args[2] = t
  BY <1>1
<1>5. d \in Calls
  <2>1. <<>> \in Seq(Cell) /\ <<s, t>> \in Seq(Cell) \X Seq(Cell)
    BY <1>2
  <2> QED
    BY <1>1, <1>2, <2>1 DEF Calls
<1>6. \A m : EndsBefore(d.r, m)
  BY <1>4 DEF EndsBefore
<1>7. Normal(d.r) /\ Elements(d.r) = {}
  BY <1>4, EmptyBetween, EmptyMaximal DEF Normal
<1>8. CallInv(d)
  BY <1>2, <1>3, <1>4, <1>5, <1>6, <1>7 DEF CallInv, Normal
<1>9. CallExact(d)
  <2>1. \A c : c \cup {} = c /\ {} \cup c = c
    OBVIOUS
  <2>2. 0..Limit-1 = d.b..Limit-1
    BY <1>4
  <2> QED
    BY <1>2, <1>4, <1>7, <2>1, <2>2 DEF CallExact
<1>10. d # None
  BY <1>5, CallSides DEF Roles
<1> QED
  BY <1>1, <1>4, <1>8, <1>9, <1>10 DEF IInv

\* NewSet63 of an operand and an interval given by its least and greatest element.
LEMMA Constructed ==
  /\ \A elem \in Operands : /\ Normal(NewSet63(elem)) /\ Elements(NewSet63(elem)) \in SUBSET (0..Limit-1)
  /\ \A min, max \in 0..Limit-1 : Normal(Interval(min, max + 1))
<1>1. ASSUME NEW elem \in Operands PROVE Normal(NewSet63(elem))
  BY OperandsAssumption, NewSet63Exact DEF Normal
<1>2. ASSUME NEW min \in 0..Limit-1, NEW max \in 0..Limit-1 PROVE Normal(Interval(min, max + 1))
  <2>1. /\ min \in 0..Limit /\ max + 1 \in 0..Limit /\ (min <= max + 1 \/ max + 1 <= min)
    BY ShiftedPositive
  <2>2. CASE min <= max + 1
    BY <2>1, <2>2, IntervalTiles, TilesElements, IntervalMaximal DEF Normal
  <2>3. CASE max + 1 <= min
    BY <2>1, <2>3, IntervalTiles, EmptyBetween, EmptyMaximal DEF Normal
  <2> QED
    BY <2>1, <2>2, <2>3
<1> QED
  BY <1>1, <1>2, OrderedBetween DEF Normal

-----------------------------------------------------------------------------
(* The invariant holds.                                                    *)

\* A loop of a merge: one iteration of one of its branches, in either role.
Iteration ==
  \/ \E p \in Roles :
       \/ UnionContained(p[1], p[2]) \/ UnionBefore(p[1], p[2]) \/ UnionOverlap(p[1], p[2])
       \/ IntersectionContained(p[1], p[2]) \/ IntersectionBefore(p[1], p[2])
       \/ IntersectionOverlap(p[1], p[2])
  \/ ComplementStep

LEMMA IterationKeeps ==
  ASSUME IInv, Iteration
  PROVE  IInv' /\ Continues
<1>1. ASSUME NEW p \in Roles,
             \/ UnionContained(p[1], p[2]) \/ UnionBefore(p[1], p[2]) \/ UnionOverlap(p[1], p[2])
             \/ IntersectionContained(p[1], p[2]) \/ IntersectionBefore(p[1], p[2])
             \/ IntersectionOverlap(p[1], p[2])
      PROVE  IInv' /\ Continues
  <2>0. PICK x, y : p = <<x, y>> /\ p[1] = x /\ p[2] = y
    BY DEF Roles
  <2>1. <<x, y>> \in Roles
    BY <2>0
  <2>2. CASE UnionContained(x, y)
    BY <2>1, <2>2, UnionContainedKeeps
  <2>3. CASE UnionBefore(x, y)
    BY <2>1, <2>3, UnionBeforeKeeps
  <2>4. CASE UnionOverlap(x, y)
    BY <2>1, <2>4, UnionOverlapKeeps
  <2>5. CASE IntersectionContained(x, y)
    BY <2>1, <2>5, IntersectionContainedKeeps
  <2>6. CASE IntersectionBefore(x, y)
    BY <2>1, <2>6, IntersectionBeforeKeeps
  <2>7. CASE IntersectionOverlap(x, y)
    BY <2>1, <2>7, IntersectionOverlapKeeps
  <2> QED
    BY <1>1, <2>0, <2>2, <2>3, <2>4, <2>5, <2>6, <2>7
<1>2. CASE ComplementStep
  BY <1>2, ComplementStepKeeps
<1> QED
  BY <1>1, <1>2 DEF Iteration

\* A call that is started asks for what Begin of IntegerSets does, of the set held.
Begins ==
  /\ Idle /\ call' # None /\ UNCHANGED set
  /\ Ordered(call'.args[1]) /\ Ordered(call'.args[2])
  /\ \/ call'.op = "Complement" /\ call'.args = <<set, <<>> >>
     \/ call'.op \in {"Union", "Intersection"} /\ (call'.args[1] = set \/ call'.args[2] = set)

\* A call that returns leaves what its name says.
Returns ==
  /\ ~Idle /\ call' = None /\ Normal(set') /\ IInv
  /\ \/ call.op = "Union" /\ Elements(set') = Elements(call.args[1]) \cup Elements(call.args[2])
     \/ call.op = "Intersection"
          /\ Elements(set') = Elements(call.args[1]) \cap Elements(call.args[2])
     \/ call.op = "Complement" /\ Elements(set') = (0..Limit-1) \ Elements(call.args[1])

\* A set is constructed in place of the one held.
Constructs == Idle /\ Normal(set') /\ UNCHANGED call

\* Every step keeps the invariant and is one of four kinds.
LEMMA Inductive ==
  ASSUME IInv, Next
  PROVE  IInv' /\ (Constructs \/ Begins \/ Continues \/ Returns)
<1>0. Normal(set)
  BY DEF IInv
<1>1. ASSUME NEW elem \in Operands, New(elem)
      PROVE  IInv' /\ Constructs
  BY <1>1, Constructed DEF New, IInv, Idle, Constructs
<1>2. ASSUME NEW min \in 0..Limit-1, NEW max \in 0..Limit-1, SetInterval(min, max)
      PROVE  IInv' /\ Constructs
  BY <1>2, Constructed DEF SetInterval, IInv, Idle, Constructs
<1>3. ASSUME NEW op \in {"Union", "Intersection"}, NEW elem \in Operands,
             Start(op, set, NewSet63(elem)) \/ Start(op, NewSet63(elem), set)
      PROVE  IInv' /\ Begins
  <2> DEFINE n == NewSet63(elem)
  <2>1. Normal(n) /\ Idle /\ UNCHANGED set /\ op \in {"Union", "Intersection", "Complement"}
    BY <1>3, Constructed DEF Start
  <2> HIDE DEF n
  <2>2. ASSUME NEW s, NEW t, Normal(s), Normal(t), s = set \/ t = set, Start(op, s, t)
        PROVE  IInv' /\ Begins
    <3>1. IInv' /\ call'.op = op /\ call'.args = <<s, t>> /\ call' # None
      BY <2>1, <2>2, StartKeeps
    <3>2. call'.args[1] = s /\ call'.args[2] = t
      BY <3>1
    <3> QED
      BY <2>1, <2>2, <3>1, <3>2 DEF Begins, Normal
  <2>3. Start(op, set, n) \/ Start(op, n, set)
    BY <1>3 DEF n
  <2> QED
    BY <1>0, <2>1, <2>2, <2>3
<1>4. CASE Start("Complement", set, <<>>)
  <2>1. Normal(<<>>) /\ Idle /\ UNCHANGED set
    BY <1>4, EmptyBetween, EmptyMaximal DEF Start, Normal
  <2>2. IInv' /\ call'.op = "Complement" /\ call'.args = <<set, <<>> >> /\ call' # None
    BY <1>0, <1>4, <2>1, StartKeeps
  <2>3. call'.args[1] = set /\ call'.args[2] = <<>>
    BY <2>2
  <2> QED
    BY <1>0, <2>1, <2>2, <2>3 DEF Begins, Normal
<1>5. CASE Iteration
  BY <1>5, IterationKeeps
<1>6. CASE UnionReturn
  BY <1>6, UnionReturns DEF UnionReturn, IInv, Idle, Returns
<1>7. CASE IntersectionReturn
  BY <1>7, IntersectionReturns DEF IntersectionReturn, IInv, Idle, Returns
<1>8. CASE ComplementReturn
  BY <1>8, ComplementReturns DEF ComplementReturn, IInv, Idle, Returns
<1> QED
  BY <1>1, <1>2, <1>3, <1>4, <1>5, <1>6, <1>7, <1>8 DEF Next, Step, Iteration

\* The invariant holds in every state.
THEOREM Invariant == Spec => []IInv
<1>1. Init => IInv
  BY EmptyBetween, EmptyMaximal DEF Init, IInv, Idle, Normal
<1>2. IInv /\ [Next]_vars => IInv'
  <2>1. ASSUME IInv, Next PROVE IInv'
    BY <2>1, Inductive
  <2>2. ASSUME IInv, UNCHANGED vars PROVE IInv'
    BY <2>2 DEF vars, IInv, Idle
  <2> QED
    BY <2>1, <2>2
<1> QED
  BY <1>1, <1>2, PTL DEF Spec

\* The held set, the result and what is left of the operands are cells in order.
THEOREM TypeCorrect == Spec => []TypeOK
<1>1. ASSUME IInv PROVE TypeOK
  <2>1. Ordered(set)
    BY <1>1 DEF IInv, Normal
  <2>2. ASSUME ~Idle
        PROVE  /\ call.op \in {"Union", "Intersection", "Complement"}
               /\ Ordered(call.r) /\ call.b \in 0..Limit
               /\ \A x \in {"s", "t"} :
                    /\ 0 <= call[x].b /\ call[x].b <= call[x].e /\ call[x].e <= Limit
                    /\ Ordered(call[x].head) /\ Ordered(call[x].rest)
    <3>1. call \in Calls /\ CallInv(call) /\ <<"s", "t">> \in Roles
      BY <1>1, <2>2, CallUnderWay DEF Roles
    <3>2. call["s"] = call.s /\ call["t"] = call.t
      BY <3>1, CallSides
    <3>3. Ordered(call.r) /\ Operand(call.s) /\ Operand(call.t) /\ call.b <= Limit
      BY <3>1 DEF CallInv, Normal
    <3>4. call.op \in {"Union", "Intersection", "Complement"} /\ call.b \in Nat /\ Limit \in Nat
      BY <3>1, ShiftedPositive DEF Calls
    <3>5. ASSUME NEW x, Operand(x)
          PROVE  /\ 0 <= x.b /\ x.b <= x.e /\ x.e <= Limit
                 /\ Ordered(x.head) /\ Ordered(x.rest)
      <4>1. 0 <= x.b /\ x.b <= x.e /\ x.e <= Limit
        BY <3>5, OperandNumbers
      <4>2. Ordered(x.rest)
        BY <3>5 DEF Operand, Between
      <4>3. Ordered(x.head)
        BY <3>5, EmptyBetween, TilesElements DEF Operand
      <4> QED
        BY <4>1, <4>2, <4>3
    <3>6. /\ \A x \in {"s", "t"} : Operand(call[x])
          /\ call.b \in 0..Limit
      BY <3>2, <3>3, <3>4
    <3> QED
      BY <3>3, <3>4, <3>5, <3>6
  <2> QED
    BY <2>1, <2>2 DEF TypeOK
<1> QED
  BY <1>1, Invariant, PTL

\* After any number of iterations the result and the remainders make up the answer.
THEOREM MergesExactly == Spec => []MergeExact
<1>1. IInv => MergeExact
  BY DEF IInv, MergeExact, CallExact
<1> QED
  BY <1>1, Invariant, PTL

\* The set held is in the one form its elements have, whatever operations it went
\* through: no cell could be replaced by its parent.  With SameElementsSameCells this
\* is what makes Equal, which compares cells, compare elements.
THEOREM AlwaysCanonical == Spec => []Canonical
<1>1. IInv => Canonical
  BY DEF IInv, Normal, Maximal, Canonical
<1> QED
  BY <1>1, Invariant, PTL

-----------------------------------------------------------------------------
(* The abstract specification.                                             *)

\* The request that the call under way stands for.
Request == IF Idle THEN <<>>
           ELSE <<call.op, Elements(call.args[1]), Elements(call.args[2])>>

\* A step assigns, begins or finishes an operation on sets of integers, or is none.
LEMMA StepRefines ==
  ASSUME IInv, Next
  PROVE  \/ ISets!Assign \/ ISets!Begin \/ ISets!Finish
         \/ UNCHANGED <<Elements(set), Request>>
<1> USE DEF None
<1>0. Constructs \/ Begins \/ Continues \/ Returns
  BY Inductive
<1>1. \A s : Ordered(s) \/ Normal(s) => Elements(s) \in SUBSET (0..Limit-1)
  BY OrderedBetween DEF Normal
<1>2. CASE Constructs
  <2>1. Request = <<>> /\ Request' = <<>> /\ Elements(set') \in SUBSET (0..Limit-1)
    BY <1>1, <1>2 DEF Constructs, Request, Idle
  <2>2. ISets!Assign
    BY <2>1 DEF ISets!Assign, ISets!Universe, Request
  <2> QED
    BY <2>2
<1>3. CASE Begins
  <2> DEFINE a == call'.args
  <2>1. /\ Request = <<>> /\ Elements(set)' = Elements(set)
        /\ Request' = <<call'.op, Elements(a[1]), Elements(a[2])>>
    BY <1>3 DEF Begins, Request, Idle
  <2>2. CASE call'.op = "Complement" /\ a = <<set, <<>> >>
    <3>1. a[1] = set /\ a[2] = <<>> /\ Elements(<<>>) = {}
      BY <2>2, EmptyBetween
    <3>2. Request' = <<"Complement", Elements(set), {}>>
      BY <2>1, <2>2, <3>1
    <3> QED
      BY <2>1, <3>2 DEF ISets!Begin, Request
  <2>3. CASE call'.op \in {"Union", "Intersection"} /\ (a[1] = set \/ a[2] = set)
    <3>1. Elements(a[1]) \in SUBSET (0..Limit-1) /\ Elements(a[2]) \in SUBSET (0..Limit-1)
      BY <1>1, <1>3 DEF Begins
    <3>2. \/ Request' \in {"Union", "Intersection"} \X {Elements(set)} \X (SUBSET (0..Limit-1))
          \/ Request' \in {"Union", "Intersection"} \X (SUBSET (0..Limit-1)) \X {Elements(set)}
      BY <2>1, <2>3, <3>1
    <3> QED
      BY <2>1, <3>2 DEF ISets!Begin, ISets!Universe, Request
  <2> QED
    BY <1>3, <2>2, <2>3 DEF Begins
<1>4. CASE Continues
  <2>1. UNCHANGED <<Elements(set), Request>>
    BY <1>4 DEF Continues, Request, Idle
  <2> QED
    BY <2>1
<1>5. CASE Returns
  <2> DEFINE s == Elements(call.args[1])
             t == Elements(call.args[2])
  <2>1. /\ Request = <<call.op, s, t>> /\ Request' = <<>> /\ Request # <<>>
        /\ Request[1] = call.op /\ Request[2] = s /\ Request[3] = t
    BY <1>5 DEF Returns, Request, Idle
  <2>2. Elements(set') = ISets!Result(call.op, s, t)
    BY <1>5 DEF Returns, ISets!Result, ISets!Universe
  <2> QED
    BY <2>1, <2>2 DEF ISets!Finish, Request
<1> QED
  BY <1>0, <1>2, <1>3, <1>4, <1>5

\* A Set63 is a set of integers and its operations are those on sets: every behaviour
\* of the merge loops is one of the operations on sets done at once.
THEOREM Refines == Spec => ActsAsIntegerSets
<1>1. Init => ISets!Init
  BY EmptyBetween DEF Init, ISets!Init, Idle
<1>2. IInv /\ [Next]_vars
        => [ISets!Assign \/ ISets!Begin \/ ISets!Finish]_<<Elements(set), Request>>
  <2>1. ASSUME UNCHANGED vars PROVE UNCHANGED <<Elements(set), Request>>
    BY <2>1 DEF vars, Request, Idle
  <2> QED
    BY <2>1, StepRefines
<1> QED
  BY <1>1, <1>2, Invariant, PTL DEF Spec, ActsAsIntegerSets, ISets!Spec, Request

-----------------------------------------------------------------------------
(* Queries.                                                                *)

\* The queries agree with the set of elements: they read a set that is in order, and so is
\* the one NewSet63 builds.
THEOREM QueriesCorrect == Spec => []QueriesAnswer
<1>1. ASSUME IInv PROVE QueriesAnswer
  <2> DEFINE elems == Elements(set)
             all == ForEachInterval(set)
  <2>1. Ordered(set) /\ set \in Seq(Cell)
    BY <1>1 DEF IInv, Normal, Ordered
  <2>2. Describes(all, elems)
    BY <2>1, ForEachExact
  <2>3. ASSUME NEW elem \in Operands
        PROVE  LET disjoint == elems \cap Elements(NewSet63(elem)) = {}
               IN  Intersects(set, NewSet63(elem)) \in {"panic", IF disjoint THEN "no" ELSE "yes"}
    <3>1. NewSet63(elem) \in Seq(Cell)
      BY OperandsAssumption, NewSet63Exact DEF Ordered
    <3> QED
      BY <2>1, <3>1, IntersectsAnswered
  <2>4. \A e \in 0..Limit-1 : ContainsElem(set, e) <=> e \in elems
    BY <2>1, ContainsExact
  <2>5. Count(set) = Cardinality(elems)
    BY <2>1, CountExact
  <2>6. Span(set) = IF elems = {} THEN <<0, -1>> ELSE <<Min(elems), Max(elems)>>
    BY <2>1, SpanExact
  <2>7. /\ elems = UNION {all[i][1]..all[i][2] : i \in DOMAIN all}
        /\ \A i \in 1..Len(all)-1 : all[i][2] + 1 < all[i + 1][1]
    BY <2>2 DEF Describes
  <2> HIDE DEF elems, all
  <2> QED
    BY <2>3, <2>4, <2>5, <2>6, <2>7 DEF QueriesAnswer, elems, all
<1> QED
  BY <1>1, Invariant, PTL

-----------------------------------------------------------------------------
(* Cover: cells, halves and ancestors.                                     *)

\* The size of a cell is the distance of its ends, and at most Limit.
LEMMA CellSize ==
  ASSUME NEW c \in Cell
  PROVE  /\ lsb(c) \in Nat \ {0} /\ lsb(c) = end(c) - begin(c) /\ lsb(c) <= Limit
         /\ begin(c) \in Nat /\ end(c) \in Nat /\ end(c) <= Limit /\ c \in Nat
<1>1. PICK b, l : IsCell(c, b, l)
  BY CellIs
<1>2. lsb(c) = shifted[l] /\ begin(c) = b /\ end(c) = b + shifted[l] /\ l \in 0..Bits /\ b \in Nat
      /\ b + shifted[l] <= Limit
  BY <1>1, CellShape DEF IsCell
<1>3. shifted[l] \in Nat \ {0} /\ Limit \in Nat
  BY <1>2, ShiftedPositive
<1> HIDE DEF Cell
<1>4. c \in Nat
  BY <1>1, <1>3 DEF IsCell
<1> QED
  BY <1>2, <1>3, <1>4

\* Unless a cell is a single element, its children are its halves.
LEMMA ChildCells ==
  ASSUME NEW c \in Cell
  PROVE  /\ lsb(c) # 1 =>
              LET a == children(c)[1]
                  b == children(c)[2]
              IN  /\ a \in Cell /\ b \in Cell /\ begin(a) = begin(c) /\ end(a) = begin(b) /\ end(b) = end(c)
                  /\ 2 * lsb(a) = lsb(c) /\ 2 * lsb(b) = lsb(c)
         /\ lsb(c) = 1 => children(c) = <<c, c>>
<1>1. PICK b, l : IsCell(c, b, l)
  BY CellIs
<1>2. lsb(c) = shifted[l] /\ begin(c) = b /\ end(c) = b + shifted[l] /\ l \in 0..Bits /\ b \in Nat
      /\ b + shifted[l] <= Limit /\ c = 2 * b + shifted[l] /\ Bits \in Nat
  BY <1>1, CellShape, ShiftedPositive DEF IsCell
<1>3. ASSUME lsb(c) # 1
      PROVE  LET x == children(c)[1]
                 y == children(c)[2]
             IN  /\ x \in Cell /\ y \in Cell /\ begin(x) = begin(c) /\ end(x) = begin(y) /\ end(y) = end(c)
                 /\ 2 * lsb(x) = lsb(c) /\ 2 * lsb(y) = lsb(c)
  <2> DEFINE k == l - 1
             p == shifted[k]
             x == c - p
             y == c + p
  <2>1. l # 0
    BY <1>2, <1>3, ShiftedRecursion
  <2>2. k \in 0..Bits /\ k \in 0..Bits-1 /\ k + 1 = l /\ k < l
    BY <1>2, <2>1
  <2>3. shifted[l] = 2 * p
    BY <2>2, ShiftedRecursion
  <2>4. p \in Nat \ {0} /\ Limit \in Nat
    BY <2>2, ShiftedPositive
  <2> HIDE DEF k
  <2>5. x = 2 * b + p /\ y = 2 * (b + p) + p /\ lsb(c) \div 2 = p
    <3> HIDE DEF p
    <3> QED
      BY <1>2, <2>3, <2>4
  <2>6. Multiple(b, p) /\ Multiple(b + p, p)
    <3> HIDE DEF p
    <3>1. PICK n \in Nat : b = (2 * p) * n
      BY <1>1, <2>3 DEF IsCell, Multiple
    <3>2. b = p * (2 * n) /\ b + p = p * (2 * n + 1) /\ 2 * n \in Nat /\ 2 * n + 1 \in Nat
      BY <2>4, <3>1
    <3> QED
      BY <3>2 DEF Multiple
  <2>7. IsCell(x, b, k) /\ IsCell(y, b + p, k)
    BY <1>2, <2>2, <2>3, <2>4, <2>5, <2>6 DEF IsCell
  <2>8. children(c)[1] = x /\ children(c)[2] = y
    BY <2>5 DEF children
  <2> HIDE DEF x, y, p
  <2>9. x \in Cell /\ lsb(x) = p /\ begin(x) = b /\ end(x) = b + p
    BY <2>7, CellShape DEF p
  <2>10. y \in Cell /\ lsb(y) = p /\ begin(y) = b + p /\ end(y) = (b + p) + p
    BY <2>7, CellShape DEF p
  <2> QED
    BY <1>2, <2>3, <2>4, <2>8, <2>9, <2>10 DEF p
<1>4. ASSUME lsb(c) = 1 PROVE children(c) = <<c, c>>
  <2>1. lsb(c) \div 2 = 0 /\ c - 0 = c /\ c + 0 = c
    BY <1>4, CellSize
  <2> QED
    BY <2>1 DEF children
<1> QED
  BY <1>3, <1>4

\* Cells with the same ends are the same.
LEMMA SameCell ==
  ASSUME NEW c \in Cell, NEW d \in Cell, Inside(c, d), lsb(c) >= lsb(d)
  PROVE  c = d
<1>1. lsb(c) = end(c) - begin(c) /\ lsb(d) = end(d) - begin(d) /\ begin(c) \in Nat /\ end(c) \in Nat
      /\ begin(d) \in Nat /\ end(d) \in Nat
  BY CellSize
<1>2. begin(c) = begin(d) /\ end(c) = end(d)
  BY <1>1 DEF Inside
<1> QED
  BY <1>2, CellNamed

\* A cell inside another one has at most its size, half of it if it is another cell.
LEMMA InsideSize ==
  ASSUME NEW c \in Cell, NEW d \in Cell, Inside(d, c)
  PROVE  lsb(d) <= lsb(c) /\ (d # c => 2 * lsb(d) <= lsb(c))
<1>1. /\ lsb(c) = end(c) - begin(c) /\ lsb(d) = end(d) - begin(d) /\ begin(c) \in Nat /\ end(c) \in Nat
      /\ begin(d) \in Nat /\ end(d) \in Nat /\ begin(d) < end(d) /\ begin(c) < end(c)
  BY CellSize, CellBounds
<1>2. lsb(d) <= lsb(c) /\ begin(d) < end(c) /\ begin(c) < end(d)
  BY <1>1 DEF Inside
<1>3. ASSUME d # c PROVE 2 * lsb(d) <= lsb(c)
  <2>1. d # unity /\ parent(d) \in Cell /\ Inside(parent(d), c)
    BY <1>2, <1>3, Laminar
  <2>2. end(parent(d)) - begin(parent(d)) = 2 * (end(d) - begin(d))
    BY <2>1, ParentCell, CellSize DEF Cell
  <2>3. begin(parent(d)) \in Nat /\ end(parent(d)) \in Nat
    BY <2>1, CellSize
  <2> QED
    BY <1>1, <2>1, <2>2, <2>3 DEF Inside
<1> QED
  BY <1>2, <1>3

\* The functions that Raised computes with.
Raises(up, grain) ==
  up = [d \in Cell |-> IF lsb(d) < grain /\ parent(d) # 0 THEN up[parent(d)] ELSE d]

\* What Raised makes of a cell: an ancestor that is as large as the grain, where there is
\* one, and not twice as large.
Lifted(d, c, grain) ==
  /\ d \in Cell /\ Inside(c, d) /\ (lsb(d) >= grain \/ d = unity)
  /\ d = c \/ lsb(d) < 2 * grain

\* The climb to the grain ends at such an ancestor.
LEMMA RaisedIs ==
  ASSUME NEW grain \in Nat, NEW c \in Cell
  PROVE  Lifted(Raised(c, grain), c, grain)
<1> DEFINE Goes(d) == lsb(d) < grain /\ parent(d) # 0
           T == [d \in Cell |-> Goes(d)]
           N == [d \in Cell |-> parent(d)]
           G == [d \in Cell |-> [y \in Cell |-> y]]
           V == [d \in Cell |-> d]
           m == [d \in Cell |-> Limit - lsb(d)]
<1>0. Limit \in Nat
  BY ShiftedPositive
<1>1. \A d \in Cell : Goes(d) => parent(d) \in Cell /\ Inside(d, parent(d)) /\ lsb(parent(d)) = 2 * lsb(d)
  <2> SUFFICES ASSUME NEW d \in Cell, Goes(d)
               PROVE  parent(d) \in Cell /\ Inside(d, parent(d)) /\ lsb(parent(d)) = 2 * lsb(d)
    OBVIOUS
  <2>1. parent(d) \in Cell /\ Inside(d, parent(d))
        /\ end(parent(d)) - begin(parent(d)) = 2 * (end(d) - begin(d))
    BY ParentCell DEF Inside
  <2> QED
    BY <2>1, CellSize
<1>2. PICK f \in [Cell -> Cell] : Solves(f, Cell, T, N, G, V)
  <2>1. Falls(Cell, T, N, m, Limit + 1)
    <3>1. \A d \in Cell : Limit - lsb(d) \in Nat /\ Limit - lsb(d) < Limit + 1
      BY <1>0, CellSize
    <3>2. m \in [Cell -> Nat] /\ \A d \in Cell : m[d] < Limit + 1
      BY <3>1
    <3>3. \A d \in Cell : T[d] => N[d] \in Cell /\ m[N[d]] < m[d]
      <4> SUFFICES ASSUME NEW d \in Cell, Goes(d) PROVE parent(d) \in Cell /\ m[parent(d)] < m[d]
        OBVIOUS
      <4>1. parent(d) \in Cell /\ lsb(parent(d)) = 2 * lsb(d)
        BY <1>1
      <4>2. m[parent(d)] = Limit - lsb(parent(d)) /\ m[d] = Limit - lsb(d)
        BY <4>1
      <4> QED
        BY <1>0, <4>1, <4>2, CellSize
    <3> HIDE DEF T, N, m
    <3> QED
      BY <3>2, <3>3 DEF Falls
  <2>2. G \in [Cell -> [Cell -> Cell]] /\ V \in [Cell -> Cell] /\ Limit + 1 \in Nat
    BY <1>0
  <2> HIDE DEF T, N, G, V, m
  <2> QED
    BY <2>1, <2>2, RecursionExists
<1>3. Raises(f, grain)
  <2>1. \A d \in Cell : f[d] = IF Goes(d) THEN f[parent(d)] ELSE d
    <3> SUFFICES ASSUME NEW d \in Cell PROVE f[d] = IF Goes(d) THEN f[parent(d)] ELSE d
      OBVIOUS
    <3>1. f[d] = IF T[d] THEN G[d][f[N[d]]] ELSE V[d]
      BY <1>2 DEF Solves
    <3>2. (T[d] <=> Goes(d)) /\ N[d] = parent(d) /\ V[d] = d /\ \A y \in Cell : G[d][y] = y
      OBVIOUS
    <3> HIDE DEF T, N, V, G
    <3>3. Goes(d) => f[parent(d)] \in Cell
      BY <1>1, <1>2
    <3> QED
      BY <3>1, <3>2, <3>3
  <2>2. f = [d \in Cell |-> f[d]]
    BY <1>2
  <2> QED
    BY <2>1, <2>2 DEF Raises
<1> DEFINE h == CHOOSE up : Raises(up, grain)
<1>4. Raises(h, grain)
  BY <1>3
<1>5. Raised(c, grain) = h[c]
  BY DEF Raised, Raises
<1> HIDE DEF h
<1>6. \A d \in Cell : h[d] = IF Goes(d) THEN h[parent(d)] ELSE d
  BY <1>4 DEF Raises
<1> DEFINE U == {d \in Cell : Lifted(h[d], d, grain)}
<1>7. \A d \in Cell : d \in U
  <2>1. ASSUME NEW d \in Cell, \A y \in Cell : m[y] < m[d] => y \in U PROVE Lifted(h[d], d, grain)
    <3>1. CASE Goes(d)
      <4> DEFINE p == parent(d)
      <4>1. p \in Cell /\ Inside(d, p) /\ lsb(p) = 2 * lsb(d) /\ lsb(d) \in Nat \ {0} /\ lsb(d) < grain
        BY <1>1, <3>1, CellSize
      <4>2. m[p] < m[d]
        BY <1>0, <4>1
      <4>3. Lifted(h[p], p, grain)
        BY <2>1, <4>1, <4>2
      <4>4. h[d] = h[p]
        BY <1>6, <3>1
      <4>5. Inside(p, h[p]) /\ h[p] \in Cell
        BY <4>3 DEF Lifted
      <4> HIDE DEF p, m
      <4>6. Inside(d, h[p])
        BY <4>1, <4>5, CellSize DEF Inside
      <4>7. lsb(h[p]) < 2 * grain
        BY <4>1, <4>3 DEF Lifted
      <4> QED
        BY <4>3, <4>4, <4>6, <4>7 DEF Lifted
    <3>2. CASE ~Goes(d)
      <4>1. h[d] = d
        BY <1>6, <3>2
      <4>2. lsb(d) >= grain \/ d = unity
        <5>1. CASE ~(lsb(d) < grain)
          BY <5>1, CellSize
        <5>2. CASE parent(d) = 0
          <6>1. d # unity => parent(d) \in Cell
            BY Siblings
          <6> QED
            BY <5>2, <6>1 DEF Cell
        <5> QED
          BY <3>2, <5>1, <5>2
      <4>3. Inside(d, d)
        BY CellSize DEF Inside
      <4> QED
        BY <4>1, <4>2, <4>3 DEF Lifted
    <3> QED
      BY <3>1, <3>2
  <2>2. m \in [Cell -> Nat]
    BY <1>0, CellSize
  <2>3. \A d \in Cell : (\A y \in Cell : m[y] < m[d] => y \in U) => d \in U
    BY <2>1
  <2> HIDE DEF U, m
  <2> QED
    BY <2>2, <2>3, MeasureInduction
<1> QED
  BY <1>5, <1>7

\* What lies in a cell and is no larger than it stays there when it is raised.
LEMMA LiftedInside ==
  ASSUME NEW c \in Cell, NEW d \in Cell, NEW e \in Cell, Inside(c, d), Inside(c, e), lsb(d) <= lsb(e)
  PROVE  Inside(d, e)
<1>1. /\ begin(c) \in Nat /\ end(c) \in Nat /\ begin(d) \in Nat /\ end(d) \in Nat /\ begin(e) \in Nat
      /\ end(e) \in Nat /\ begin(c) < end(c) /\ lsb(d) = end(d) - begin(d) /\ lsb(e) = end(e) - begin(e)
  BY CellSize, CellBounds
<1>2. begin(d) < end(e) /\ begin(e) < end(d)
  BY <1>1 DEF Inside
<1>3. Inside(d, e) \/ Inside(e, d)
  BY <1>2, Laminar
<1>4. ASSUME Inside(e, d) PROVE Inside(d, e)
  <2>1. e = d
    BY <1>1, <1>4, SameCell
  <2> QED
    BY <1>4, <2>1
<1> QED
  BY <1>3, <1>4

\* search finds the first cell at or behind c.
LEMMA SearchPart ==
  ASSUME NEW s \in Seq(Cell), NEW i \in 1..Len(s)+1, NEW j \in 1..Len(s)+1, NEW c \in Int
  PROVE  LET m == search(s, i, j - 1, c)
         IN  /\ m \in 1..Len(s)+1 /\ (i <= j => i <= m /\ m <= j) /\ (j <= i => m = j)
             /\ \A h \in i..m-1 : i <= j => h \in DOMAIN s /\ s[h] < c
             /\ m < j => m \in DOMAIN s /\ s[m] >= c
<1> DEFINE U == {(j - 1) + 1} \cup {h \in i..j-1 : s[h] >= c}
<1>0. Len(s) \in Nat /\ DOMAIN s = 1..Len(s) /\ (\A h \in 1..Len(s) : s[h] \in Int) /\ i \in Nat /\ j \in Nat
      /\ 1 <= i /\ 1 <= j /\ i <= Len(s) + 1 /\ j <= Len(s) + 1
  <2>1. \A h \in 1..Len(s) : s[h] \in Cell
    OBVIOUS
  <2>2. \A x \in Cell : x \in Int
    BY CellSize
  <2> QED
    BY <2>1, <2>2
<1>1. U \in SUBSET Nat /\ U # {}
  BY <1>0
<1>2. PICK m : m \in U /\ \A y \in U : m <= y
  <2> HIDE DEF U
  <2> QED
    BY <1>1, LeastNat
<1>3. search(s, i, j - 1, c) = m
  <2>1. Min(U) = m
    <3> HIDE DEF U
    <3> QED
      BY <1>1, <1>2, MinIs
  <2> QED
    BY <2>1 DEF search
<1>4. m \in Nat /\ m <= j /\ (m = j \/ (m \in i..j-1 /\ s[m] >= c))
  BY <1>0, <1>1, <1>2
<1>5. ASSUME NEW h \in i..m-1, i <= j PROVE h \in DOMAIN s /\ s[h] < c
  <2>1. h \in i..j-1 /\ h \in 1..Len(s) /\ ~(m <= h)
    BY <1>0, <1>4, <1>5
  <2>2. h \notin U
    BY <1>2, <2>1
  <2>3. ~(s[h] >= c)
    BY <2>1, <2>2
  <2> QED
    BY <1>0, <2>1, <2>3
<1> HIDE DEF U
<1> QED
  BY <1>0, <1>3, <1>4, <1>5

-----------------------------------------------------------------------------
(* Cover: the tree that shape builds.                                      *)

\* The functions that Tree computes with.
TreeArgs(s) == (1..Len(s)+1) \X (1..Len(s)+1) \X Cell

\* shape of nothing.
NoTree == [top |-> 0, nodes |-> <<>>]

\* What a call x of shape returns, when its calls return what f says.
TreeStep(f, s, grain, x) ==
  LET m == search(s, x[1], x[2] - 1, x[3])
      l == f[<<x[1], m, children(x[3])[1]>>]
      r == f[<<m, x[2], children(x[3])[2]>>]
  IN  IF x[1] = x[2] THEN NoTree
      ELSE IF lsb(x[3]) < Word(2*grain) THEN Single(x[3], Leaf(x[3], Count(SubSeq(s, x[1], x[2] - 1))))
      ELSE IF x[1] + 1 = x[2] THEN Single(x[3], Leaf(Raised(s[x[1]], grain), lsb(s[x[1]])))
      ELSE IF l.top = 0 THEN r ELSE IF r.top = 0 THEN l
      ELSE Joined(x[3], l, r)

\* f is shape, for every part of s.
Builds(f, s, grain) == f = [x \in TreeArgs(s) |-> TreeStep(f, s, grain, x)]

\* Tree is a recursive function, applied to the whole set.
LEMMA TreeUnfolds ==
  ASSUME NEW s, NEW grain
  PROVE  Tree(s, grain) = (CHOOSE f : Builds(f, s, grain))[<<1, Len(s) + 1, unity>>]
  BY DEF Tree, Builds, TreeStep, TreeArgs, NoTree

\* What a uint64 holds is in its range, and a number in it is kept.
LEMMA WordIs ==
  ASSUME NEW n \in Int
  PROVE  Word(n) \in 0..2*Limit-1 /\ (n \in 0..2*Limit-1 => Word(n) = n)
<1> DEFINE d == 2 * Limit
<1>1. d \in Nat \ {0}
  BY ShiftedPositive
<1>2. Word(n) = n % d
  BY DEF Word
<1> HIDE DEF d
<1>3. n % d \in 0..d-1
  BY <1>1, Z3T(30)
<1>4. n \in 0..d-1 => n % d = n
  BY <1>1, Z3T(30)
<1> QED
  BY <1>2, <1>3, <1>4 DEF d

\* The types of nodes and trees, whatever the arguments.
AnyNode == [c : Cell, w : Nat, il : Nat, ir : Nat, ip : Nat, g : 0..2*Limit-1]

\* Trees of such nodes.
AnyTree ==
  {t \in [top : Nat, nodes : UNION {[N -> AnyNode] : N \in SUBSET Nat}] :
     t.top # 0 => t.top \in DOMAIN t.nodes}

\* A tree is made of its parts.
LEMMA IsAnyTree ==
  ASSUME NEW top \in Nat, NEW N \in SUBSET Nat, NEW nodes \in [N -> AnyNode], top # 0 => top \in N
  PROVE  [top |-> top, nodes |-> nodes] \in AnyTree
<1>1. nodes \in UNION {[M -> AnyNode] : M \in SUBSET Nat}
  OBVIOUS
<1>2. DOMAIN nodes = N
  OBVIOUS
<1> HIDE DEF AnyNode
<1> QED
  BY <1>1, <1>2 DEF AnyTree

\* What a tree is made of.
LEMMA AnyTreeIs ==
  ASSUME NEW t \in AnyTree
  PROVE  /\ t.top \in Nat /\ DOMAIN t.nodes \in SUBSET Nat /\ t.nodes \in [DOMAIN t.nodes -> AnyNode]
         /\ t.top # 0 => t.top \in DOMAIN t.nodes
         /\ t = [top |-> t.top, nodes |-> t.nodes]
<1>1. t \in [top : Nat, nodes : UNION {[N -> AnyNode] : N \in SUBSET Nat}]
      /\ (t.top # 0 => t.top \in DOMAIN t.nodes)
  BY DEF AnyTree
<1>2. PICK N \in SUBSET Nat : t.nodes \in [N -> AnyNode]
  BY <1>1
<1>3. DOMAIN t.nodes = N
  BY <1>2
<1> HIDE DEF AnyNode
<1>4. t = [top |-> t.top, nodes |-> t.nodes]
  BY <1>1
<1> QED
  BY <1>1, <1>2, <1>3, <1>4

\* What the parent c of the trees L and R says it would waste.
Gain(c, L, R) == Word(Word(lsb(c) - (L.w + R.w)) - waste(L) - waste(R))

\* A node of t once t has been put below c.
Above(t, c, g, n) == IF n = t.top THEN [t.nodes[n] EXCEPT !.ip = c, !.g = g] ELSE t.nodes[n]

\* What Joined makes, without looking at the cells.
LEMMA JoinedNodes ==
  ASSUME NEW c, NEW l, NEW r
  PROVE  LET t == Joined(c, l, r)
             L == l.nodes[l.top]
             R == r.nodes[r.top]
             g == Gain(c, L, R)
         IN  /\ t.top = c
             /\ t = [top |-> t.top, nodes |-> t.nodes]
             /\ t.nodes = [n \in {c} \cup DOMAIN l.nodes \cup DOMAIN r.nodes |-> t.nodes[n]]
             /\ t.nodes[c] = [c |-> c, w |-> L.w + R.w, il |-> l.top, ir |-> r.top, ip |-> 0, g |-> 0]
             /\ \A n \in DOMAIN l.nodes : n # c => t.nodes[n] = Above(l, c, g, n)
             /\ \A n \in DOMAIN r.nodes : n # c /\ n \notin DOMAIN l.nodes => t.nodes[n] = Above(r, c, g, n)
BY DEF Joined, Gain, Above, waste

\* A leaf is a node of that kind.
LEMMA LeafIs ==
  ASSUME NEW c \in Cell, NEW w \in Nat
  PROVE  Leaf(c, w) \in AnyNode
<1>1. 0 \in 0..2*Limit-1
  BY ShiftedPositive
<1> QED
  BY <1>1 DEF Leaf, AnyNode

\* A leaf on its own is a tree.
LEMMA SingleAny ==
  ASSUME NEW c \in Cell, NEW leaf \in AnyNode
  PROVE  Single(c, leaf) \in AnyTree
<1>1. {c} \in SUBSET Nat /\ c \in Nat /\ c # 0
  BY DEF Cell
<1>2. [n \in {c} |-> leaf] \in [{c} -> AnyNode]
  OBVIOUS
<1> HIDE DEF AnyNode
<1>3. [top |-> c, nodes |-> [n \in {c} |-> leaf]] \in AnyTree
  BY <1>1, <1>2, IsAnyTree
<1> QED
  BY <1>3 DEF Single

\* The gain fits a word.
LEMMA GainIs ==
  ASSUME NEW c \in Cell, NEW L \in AnyNode, NEW R \in AnyNode
  PROVE  Gain(c, L, R) \in 0..2*Limit-1
<1>1. /\ L.c \in Cell /\ R.c \in Cell /\ L.w \in Nat /\ R.w \in Nat
  BY DEF AnyNode
<1>2. lsb(c) \in Nat /\ lsb(L.c) \in Nat /\ lsb(R.c) \in Nat
  BY <1>1, CellSize
<1>3. Word(lsb(c) - (L.w + R.w)) \in Int
  BY <1>1, <1>2, WordIs
<1>4. waste(L) \in Int /\ waste(R) \in Int
  BY <1>1, <1>2, WordIs DEF waste
<1> QED
  BY <1>3, <1>4, WordIs DEF Gain

\* Two trees joined are a tree.
LEMMA JoinedAny ==
  ASSUME NEW c \in Cell, NEW l \in AnyTree, NEW r \in AnyTree, l.top # 0, r.top # 0
  PROVE  Joined(c, l, r) \in AnyTree
<1> DEFINE t == Joined(c, l, r)
           L == l.nodes[l.top]
           R == r.nodes[r.top]
           g == Gain(c, L, R)
           D == {c} \cup DOMAIN l.nodes \cup DOMAIN r.nodes
<1>1. /\ l.top \in DOMAIN l.nodes /\ DOMAIN l.nodes \in SUBSET Nat /\ l.nodes \in [DOMAIN l.nodes -> AnyNode]
      /\ r.top \in DOMAIN r.nodes /\ DOMAIN r.nodes \in SUBSET Nat /\ r.nodes \in [DOMAIN r.nodes -> AnyNode]
      /\ l.top \in Nat /\ r.top \in Nat
  BY AnyTreeIs
<1>2. L \in AnyNode /\ R \in AnyNode
  BY <1>1
<1>3. g \in 0..2*Limit-1
  BY <1>2, GainIs
<1>4. /\ t.top = c /\ t = [top |-> t.top, nodes |-> t.nodes]
      /\ t.nodes = [n \in D |-> t.nodes[n]]
      /\ t.nodes[c] = [c |-> c, w |-> L.w + R.w, il |-> l.top, ir |-> r.top, ip |-> 0, g |-> 0]
      /\ \A n \in DOMAIN l.nodes : n # c => t.nodes[n] = Above(l, c, g, n)
      /\ \A n \in DOMAIN r.nodes : n # c /\ n \notin DOMAIN l.nodes => t.nodes[n] = Above(r, c, g, n)
  BY JoinedNodes
<1> HIDE DEF t, g
<1>5. c \in Nat /\ c # 0
  BY DEF Cell
<1>6. \A u \in AnyTree : \A n \in DOMAIN u.nodes : Above(u, c, g, n) \in AnyNode
  <2> SUFFICES ASSUME NEW u \in AnyTree, NEW n \in DOMAIN u.nodes PROVE Above(u, c, g, n) \in AnyNode
    OBVIOUS
  <2>1. u.nodes[n] \in AnyNode
    BY AnyTreeIs
  <2>2. [u.nodes[n] EXCEPT !.ip = c, !.g = g] \in AnyNode
    BY <2>1, <1>3, <1>5 DEF AnyNode
  <2> QED
    BY <2>1, <2>2 DEF Above
<1>7. t.nodes[c] \in AnyNode
  <2>1. L.w + R.w \in Nat /\ 0 \in 0..2*Limit-1
    BY <1>2, ShiftedPositive DEF AnyNode
  <2> QED
    BY <1>1, <1>4, <2>1 DEF AnyNode
<1>8. \A n \in D : t.nodes[n] \in AnyNode
  BY <1>4, <1>6, <1>7
<1>9. t.nodes \in [D -> AnyNode]
  BY <1>4, <1>8
<1>10. D \in SUBSET Nat /\ c \in D
  BY <1>1, <1>5
<1> HIDE DEF D
<1>11. [top |-> c, nodes |-> t.nodes] \in AnyTree
  BY <1>5, <1>9, <1>10, IsAnyTree
<1> QED
  BY <1>4, <1>11 DEF t

\* Count adds up sizes.
LEMMA CountNatural ==
  ASSUME NEW s \in Seq(Cell)
  PROVE  Count(s) \in Nat
<1>1. PICK it : /\ Count(s) = it[1..Len(s)] /\ it[{}] = 0
                /\ \A n \in 1..Len(s) : it[1..n] = it[1..n-1] + lsb(s[n])
  BY CountRecursion
<1> DEFINE U == {n \in 0..Len(s) : it[1..n] \in Nat}
<1>2. Len(s) \in Nat /\ \A n \in 1..Len(s) : s[n] \in Cell
  OBVIOUS
<1>3. 0 \in U
  <2>1. 1..0 = {}
    OBVIOUS
  <2> QED
    BY <1>1, <1>2, <2>1
<1>4. ASSUME NEW n \in 1..Len(s), n - 1 \in U PROVE n \in U
  <2>1. it[1..n] = it[1..n-1] + lsb(s[n]) /\ lsb(s[n]) \in Nat /\ it[1..n-1] \in Nat
    BY <1>1, <1>2, <1>4, CellSize
  <2> QED
    BY <2>1
<1> HIDE DEF U
<1>5. \A n \in 0..Len(s) : n \in U
  BY <1>2, <1>3, <1>4, StepsKeep
<1>6. Len(s) \in U
  BY <1>2, <1>5
<1> QED
  BY <1>1, <1>6 DEF U

\* The two calls shape makes for x.
TreeLeft(s, x) == <<x[1], search(s, x[1], x[2] - 1, x[3]), children(x[3])[1]>>
TreeRight(s, x) == <<search(s, x[1], x[2] - 1, x[3]), x[2], children(x[3])[2]>>

\* They are calls as well.
LEMMA TreeCalls ==
  ASSUME NEW s \in Seq(Cell), NEW x \in TreeArgs(s)
  PROVE  TreeLeft(s, x) \in TreeArgs(s) /\ TreeRight(s, x) \in TreeArgs(s)
<1>1. x[1] \in 1..Len(s)+1 /\ x[2] \in 1..Len(s)+1 /\ x[3] \in Cell
  BY DEF TreeArgs
<1>2. x[3] \in Int
  BY <1>1, CellSize
<1>3. search(s, x[1], x[2] - 1, x[3]) \in 1..Len(s)+1
  <2> DEFINE i == x[1]
             j == x[2]
             c == x[3]
  <2>1. i \in 1..Len(s)+1 /\ j \in 1..Len(s)+1 /\ c \in Int
    BY <1>1, <1>2
  <2> HIDE DEF i, j, c
  <2>2. search(s, i, j - 1, c) \in 1..Len(s)+1
    BY <2>1, SearchPart
  <2> QED
    BY <2>2 DEF i, j, c
<1>4. children(x[3])[1] \in Cell /\ children(x[3])[2] \in Cell
  BY <1>1, ChildCells
<1> HIDE DEF Cell
<1> QED
  BY <1>1, <1>3, <1>4 DEF TreeLeft, TreeRight, TreeArgs

\* The two leaves shape makes.
LEMMA TreeLeaves ==
  ASSUME NEW s \in Seq(Cell), NEW grain \in Nat, NEW x \in TreeArgs(s), x[1] # x[2]
  PROVE  /\ Leaf(x[3], Count(SubSeq(s, x[1], x[2] - 1))) \in AnyNode
         /\ x[1] + 1 = x[2] => Leaf(Raised(s[x[1]], grain), lsb(s[x[1]])) \in AnyNode
<1>1. x[1] \in 1..Len(s)+1 /\ x[2] \in 1..Len(s)+1 /\ x[3] \in Cell /\ Len(s) \in Nat
  BY DEF TreeArgs
<1>2. SubSeq(s, x[1], x[2] - 1) \in Seq(Cell)
  <2>1. \A k \in x[1]..x[2]-1 : s[k] \in Cell
    BY <1>1
  <2> QED
    BY <1>1, <2>1, SubSeqProperties
<1>3. Leaf(x[3], Count(SubSeq(s, x[1], x[2] - 1))) \in AnyNode
  BY <1>1, <1>2, CountNatural, LeafIs
<1>4. ASSUME x[1] + 1 = x[2] PROVE Leaf(Raised(s[x[1]], grain), lsb(s[x[1]])) \in AnyNode
  <2>1. s[x[1]] \in Cell
    BY <1>1, <1>4
  <2>2. Raised(s[x[1]], grain) \in Cell /\ lsb(s[x[1]]) \in Nat
    BY <2>1, RaisedIs, CellSize DEF Lifted
  <2> QED
    BY <2>2, LeafIs
<1> QED
  BY <1>3, <1>4

\* No tree is one of these.
LEMMA NoTreeAny == NoTree \in AnyTree
<1>1. <<>> \in [{} -> AnyNode] /\ {} \in SUBSET Nat /\ 0 \in Nat
  OBVIOUS
<1> HIDE DEF AnyNode
<1>2. [top |-> 0, nodes |-> <<>>] \in AnyTree
  BY <1>1, IsAnyTree
<1> QED
  BY <1>2 DEF NoTree

\* What a call makes of trees is a tree.
LEMMA TreeStepAny ==
  ASSUME NEW s \in Seq(Cell), NEW grain \in Nat, NEW x \in TreeArgs(s), NEW f \in [TreeArgs(s) -> AnyTree]
  PROVE  TreeStep(f, s, grain, x) \in AnyTree
<1> DEFINE l == f[TreeLeft(s, x)]
           r == f[TreeRight(s, x)]
<1>1. l \in AnyTree /\ r \in AnyTree
  BY TreeCalls
<1>2. TreeStep(f, s, grain, x) =
        IF x[1] = x[2] THEN NoTree
        ELSE IF lsb(x[3]) < Word(2*grain) THEN Single(x[3], Leaf(x[3], Count(SubSeq(s, x[1], x[2] - 1))))
        ELSE IF x[1] + 1 = x[2] THEN Single(x[3], Leaf(Raised(s[x[1]], grain), lsb(s[x[1]])))
        ELSE IF l.top = 0 THEN r ELSE IF r.top = 0 THEN l
        ELSE Joined(x[3], l, r)
  BY DEF TreeStep, TreeLeft, TreeRight
<1>3. x[3] \in Cell
  BY DEF TreeArgs
<1>4. l.top # 0 /\ r.top # 0 => Joined(x[3], l, r) \in AnyTree
  BY <1>1, <1>3, JoinedAny
<1> HIDE DEF l, r
<1> QED
  BY <1>1, <1>2, <1>3, <1>4, NoTreeAny, SingleAny, TreeLeaves

\* shape calls itself for x.
Recurs(grain, x) == x[1] # x[2] /\ ~(lsb(x[3]) < Word(2*grain)) /\ x[1] + 1 # x[2]

\* What falls from call to call: the size of the cell, then the number of cells.
TreeWeight(s, x) == lsb(x[3]) * (Len(s) + 2) + (IF x[1] <= x[2] THEN x[2] - x[1] ELSE 0)

\* It is bounded by what the whole set weighs.
LEMMA TreeWeightIs ==
  ASSUME NEW s \in Seq(Cell), NEW x \in TreeArgs(s)
  PROVE  /\ TreeWeight(s, x) \in Nat
         /\ TreeWeight(s, x) < (Limit + 1) * (Len(s) + 2)
<1> DEFINE N == Len(s) + 2
           a == lsb(x[3])
           k == IF x[1] <= x[2] THEN x[2] - x[1] ELSE 0
<1>1. x[1] \in 1..Len(s)+1 /\ x[2] \in 1..Len(s)+1 /\ x[3] \in Cell /\ Len(s) \in Nat
  BY DEF TreeArgs
<1>2. a \in Nat /\ a <= Limit /\ Limit \in Nat /\ N \in Nat /\ k \in Nat /\ k < N
  <2>1. x[2] - x[1] \in Int /\ x[2] - x[1] <= Len(s) /\ (x[1] <= x[2] => x[2] - x[1] >= 0)
    BY <1>1
  <2>2. a \in Nat /\ a <= Limit /\ Limit \in Nat
    BY <1>1, CellSize, ShiftedPositive
  <2> HIDE DEF a
  <2> QED
    BY <1>1, <2>1, <2>2
<1>3. TreeWeight(s, x) = a * N + k
  BY DEF TreeWeight
<1> HIDE DEF N, a, k
<1>4. a * N \in Nat /\ a * N + k < (Limit + 1) * N
  <2>1. a * N \in Nat /\ a * N <= Limit * N /\ (Limit + 1) * N = Limit * N + N /\ Limit * N \in Nat
    BY <1>2, Z3T(30)
  <2> QED
    BY <1>2, <2>1
<1> QED
  BY <1>2, <1>3, <1>4 DEF N

\* Unless a call is the one it is made for, it weighs less.
LEMMA TreeFalls ==
  ASSUME NEW s \in Seq(Cell), NEW x \in TreeArgs(s), TreeLeft(s, x) # x, TreeRight(s, x) # x
  PROVE  /\ TreeWeight(s, TreeLeft(s, x)) < TreeWeight(s, x)
         /\ TreeWeight(s, TreeRight(s, x)) < TreeWeight(s, x)
<1> DEFINE i == x[1]
           j == x[2]
           c == x[3]
           m == search(s, i, j - 1, c)
           a == children(c)[1]
           b == children(c)[2]
           N == Len(s) + 2
           Gap(h, k) == IF h <= k THEN k - h ELSE 0
<1>1. i \in 1..Len(s)+1 /\ j \in 1..Len(s)+1 /\ c \in Cell /\ Len(s) \in Nat /\ x = <<i, j, c>>
  BY DEF TreeArgs
<1>2. TreeLeft(s, x) = <<i, m, a>> /\ TreeRight(s, x) = <<m, j, b>>
  BY DEF TreeLeft, TreeRight
<1>3. /\ TreeWeight(s, x) = lsb(c) * N + Gap(i, j) /\ TreeWeight(s, <<i, m, a>>) = lsb(a) * N + Gap(i, m)
      /\ TreeWeight(s, <<m, j, b>>) = lsb(b) * N + Gap(m, j)
  BY DEF TreeWeight
<1>4. c \in Int /\ lsb(c) \in Nat
  BY <1>1, CellSize
<1> HIDE DEF i, j, c
<1>5. m \in 1..Len(s)+1 /\ (i <= j => i <= m /\ m <= j) /\ (j <= i => m = j)
  BY <1>1, <1>4, SearchPart
<1> HIDE DEF m
<1>6. CASE lsb(c) = 1
  <2>1. a = c /\ b = c
    BY <1>1, <1>6, ChildCells
  <2>2. m # j /\ m # i
    BY <1>1, <1>2, <2>1
  <2>3. i <= j /\ i < m /\ m < j
    BY <1>1, <1>5, <2>2
  <2>4. Gap(i, m) < Gap(i, j) /\ Gap(m, j) < Gap(i, j) /\ Gap(i, m) \in Nat /\ Gap(m, j) \in Nat /\ Gap(i, j) \in Nat
    BY <1>1, <1>5, <2>3
  <2>5. lsb(c) * N \in Nat
    BY <1>1, <1>6
  <2> HIDE DEF Gap, a, b, N
  <2> QED
    BY <1>2, <1>3, <2>1, <2>4, <2>5
<1>7. CASE lsb(c) # 1
  <2>1. a \in Cell /\ b \in Cell /\ 2 * lsb(a) = lsb(c) /\ 2 * lsb(b) = lsb(c)
    BY <1>1, <1>7, ChildCells
  <2>2. lsb(a) \in Nat \ {0} /\ lsb(b) \in Nat \ {0}
    BY <2>1, CellSize
  <2>3. lsb(a) = lsb(b)
    BY <2>1, <2>2
  <2>4. Gap(i, m) \in Nat /\ Gap(m, j) \in Nat /\ Gap(i, j) \in Nat /\ Gap(i, m) < N /\ Gap(m, j) < N /\ N \in Nat
    BY <1>1, <1>5
  <2> HIDE DEF Gap, a, b, N
  <2>5. \A q, M \in Nat : q # 0 => (2 * q) * M = q * M + q * M /\ q * M \in Nat /\ M <= q * M
    BY Z3T(30)
  <2>6. lsb(c) * N = lsb(a) * N + lsb(a) * N /\ lsb(a) * N \in Nat /\ N <= lsb(a) * N
    BY <2>1, <2>2, <2>4, <2>5
  <2> QED
    BY <1>2, <1>3, <2>3, <2>4, <2>6
<1> QED
  BY <1>6, <1>7

\* A call for itself, which only a list that is not over x[3] leads to, finds no tree.
LEMMA TreeStuck ==
  ASSUME NEW s \in Seq(Cell), NEW grain \in Nat, NEW x \in TreeArgs(s), NEW f,
         TreeLeft(s, x) = x \/ TreeRight(s, x) = x, Recurs(grain, x), f[x] = NoTree,
         \A y \in TreeArgs(s) : y[1] = y[2] => f[y] = NoTree
  PROVE  TreeStep(f, s, grain, x) = NoTree
<1> DEFINE m == search(s, x[1], x[2] - 1, x[3])
           a == children(x[3])[1]
           b == children(x[3])[2]
<1>1. x[1] \in 1..Len(s)+1 /\ x[2] \in 1..Len(s)+1 /\ x[3] \in Cell /\ x = <<x[1], x[2], x[3]>>
  BY DEF TreeArgs
<1>2. a = x[3] \/ b = x[3]
  BY <1>1 DEF TreeLeft, TreeRight
<1>3. lsb(x[3]) = 1
  <2>1. SUFFICES ASSUME lsb(x[3]) # 1 PROVE FALSE
    OBVIOUS
  <2>2. 2 * lsb(a) = lsb(x[3]) /\ 2 * lsb(b) = lsb(x[3]) /\ lsb(x[3]) \in Nat \ {0}
    BY <1>1, <2>1, ChildCells, CellSize
  <2> QED
    BY <1>2, <2>2
<1>4. a = x[3] /\ b = x[3]
  BY <1>1, <1>3, ChildCells
<1>5. TreeLeft(s, x) = <<x[1], m, x[3]>> /\ TreeRight(s, x) = <<m, x[2], x[3]>>
  BY <1>4 DEF TreeLeft, TreeRight
<1> HIDE DEF a, b, m
<1>6. m = x[2] \/ m = x[1]
  BY <1>1, <1>5
<1>7. f[TreeLeft(s, x)] = NoTree /\ f[TreeRight(s, x)] = NoTree
  <2>1. <<x[1], x[1], x[3]>> \in TreeArgs(s) /\ <<x[2], x[2], x[3]>> \in TreeArgs(s)
    BY <1>1 DEF TreeArgs
  <2>2. f[<<x[1], x[1], x[3]>>] = NoTree /\ f[<<x[2], x[2], x[3]>>] = NoTree
    BY <2>1
  <2> QED
    BY <1>1, <1>5, <1>6, <2>2
<1>8. TreeStep(f, s, grain, x) = IF f[TreeLeft(s, x)].top = 0 THEN f[TreeRight(s, x)]
                                 ELSE IF f[TreeRight(s, x)].top = 0 THEN f[TreeLeft(s, x)]
                                 ELSE Joined(x[3], f[TreeLeft(s, x)], f[TreeRight(s, x)])
  BY DEF TreeStep, Recurs, TreeLeft, TreeRight
<1> QED
  BY <1>7, <1>8 DEF NoTree

\* There is a function that Tree computes with.
LEMMA TreeExists ==
  ASSUME NEW s \in Seq(Cell), NEW grain \in Nat
  PROVE  \E f \in [TreeArgs(s) -> AnyTree] : Builds(f, s, grain)
<1> DEFINE S == TreeArgs(s)
           R == AnyTree
           Stuck(x) == Recurs(grain, x) /\ (TreeLeft(s, x) = x \/ TreeRight(s, x) = x)
           G == [x \in S |-> [f \in [S -> R] |-> IF Stuck(x) THEN NoTree ELSE TreeStep(f, s, grain, x)]]
           m == [x \in S |-> TreeWeight(s, x)]
           b == (Limit + 1) * (Len(s) + 2)
<1>1. b \in Nat
  <2>1. Limit + 1 \in Nat /\ Len(s) + 2 \in Nat
    BY ShiftedPositive
  <2>2. \A p, q \in Nat : p * q \in Nat
    BY Z3T(30)
  <2> QED
    BY <2>1, <2>2
<1>2. m \in [S -> Nat] /\ \A x \in S : m[x] < b
  BY TreeWeightIs
<1>3. G \in [S -> [[S -> R] -> R]]
  <2>1. \A x \in S : \A f \in [S -> R] : (IF Stuck(x) THEN NoTree ELSE TreeStep(f, s, grain, x)) \in R
    BY TreeStepAny, NoTreeAny
  <2> HIDE DEF S, R, Stuck
  <2> QED
    BY <2>1
<1>4. \A x \in S : \A f \in [S -> R] :
        G[x][f] = IF Stuck(x) THEN NoTree ELSE TreeStep(f, s, grain, x)
  <2> HIDE DEF S, R, Stuck
  <2> QED
    OBVIOUS
<1>5. ASSUME NEW x \in S, NEW f \in [S -> R], NEW g \in [S -> R],
             \A y \in S : m[y] < m[x] => f[y] = g[y]
      PROVE  G[x][f] = G[x][g]
  <2>1. CASE Stuck(x)
    BY <1>4, <2>1
  <2>2. CASE ~Recurs(grain, x)
    <3>1. TreeStep(f, s, grain, x) = TreeStep(g, s, grain, x)
      BY <2>2 DEF TreeStep, Recurs
    <3> HIDE DEF S, R, G, Stuck
    <3> QED
      BY <1>4, <3>1
  <2>3. CASE Recurs(grain, x) /\ ~Stuck(x)
    <3>1. TreeLeft(s, x) # x /\ TreeRight(s, x) # x
      BY <2>3
    <3>2. TreeLeft(s, x) \in S /\ TreeRight(s, x) \in S
      BY TreeCalls
    <3>3. m[TreeLeft(s, x)] < m[x] /\ m[TreeRight(s, x)] < m[x]
      BY <3>1, <3>2, TreeFalls
    <3>4. f[TreeLeft(s, x)] = g[TreeLeft(s, x)] /\ f[TreeRight(s, x)] = g[TreeRight(s, x)]
      BY <1>5, <3>2, <3>3
    <3>5. TreeStep(f, s, grain, x) = TreeStep(g, s, grain, x)
      BY <3>4 DEF TreeStep, TreeLeft, TreeRight
    <3> HIDE DEF S, R, G, Stuck
    <3> QED
      BY <1>4, <3>5
  <2> QED
    BY <2>1, <2>2, <2>3
<1>6. Looks(G, S, R, m, b)
  <2> HIDE DEF S, R, G, m, b
  <2> QED
    BY <1>2, <1>3, <1>5 DEF Looks
<1>7. PICK f \in [S -> R] : \A x \in S : f[x] = G[x][f]
  <2> HIDE DEF S, R, G, m, b
  <2>1. NoTree \in R
    BY NoTreeAny DEF R
  <2> QED
    BY <1>1, <1>6, <2>1, WideRecursionExists
<1> HIDE DEF G, m, b
<1>8. \A x \in S : f[x] = IF Stuck(x) THEN NoTree ELSE TreeStep(f, s, grain, x)
  BY <1>4, <1>7
<1>9. \A y \in S : y[1] = y[2] => f[y] = NoTree
  <2> SUFFICES ASSUME NEW y \in S, y[1] = y[2] PROVE f[y] = NoTree
    OBVIOUS
  <2>1. ~Stuck(y)
    BY DEF Recurs
  <2>2. f[y] = TreeStep(f, s, grain, y)
    BY <1>8, <2>1
  <2> QED
    BY <2>2 DEF TreeStep
<1>10. ASSUME NEW x \in S PROVE f[x] = TreeStep(f, s, grain, x)
  <2>1. CASE Stuck(x)
    <3>1. f[x] = NoTree
      BY <1>8, <2>1
    <3>2. TreeStep(f, s, grain, x) = NoTree
      BY <1>9, <2>1, <3>1, TreeStuck
    <3> QED
      BY <3>1, <3>2
  <2>2. CASE ~Stuck(x)
    BY <1>8, <2>2
  <2> QED
    BY <2>1, <2>2
<1>11. f = [x \in S |-> TreeStep(f, s, grain, x)]
  <2>1. f = [x \in S |-> f[x]]
    OBVIOUS
  <2> HIDE DEF S, R
  <2> QED
    BY <1>10, <2>1
<1> QED
  BY <1>11 DEF Builds

-----------------------------------------------------------------------------
(* Cover: what the loop keeps of the tree.                                 *)

\* Names of nodes are nested cells, and up along ip they grow to the root r.  A node is
\* removed exactly when its parent has been made a leaf.
RisesAt(sh, n) ==
  LET p == sh[n].ip
  IN  /\ p \in DOMAIN sh /\ p # n /\ Inside(n, p)
      /\ sh[n].c # 0 <=> sh[p].il # 0
      /\ sh[p].il # 0 => n \in {sh[p].il, sh[p].ir}

\* So it is for every node, and r is above them all.
Rises(sh, r) ==
  /\ DOMAIN sh \subseteq Cell /\ r \in DOMAIN sh /\ sh[r].ip = 0 /\ sh[r].c # 0
  /\ \A n \in DOMAIN sh : Inside(n, r)
  /\ \A n \in DOMAIN sh \ {r} : RisesAt(sh, n)

\* a and b are below n, one in each half, and say what their parent would waste.
Halves(sh, n, a, b) ==
  /\ a \in DOMAIN sh /\ b \in DOMAIN sh /\ sh[a].ip = n /\ sh[b].ip = n
  /\ begin(n) <= begin(a) /\ 2 * end(a) <= begin(n) + end(n)
  /\ begin(n) + end(n) <= 2 * begin(b) /\ end(b) <= end(n)
  /\ \A k \in DOMAIN sh : Inside(k, n) /\ k # n => Inside(k, a) \/ Inside(k, b)
  /\ sh[a].g = lsb(n) - lsb(sh[a].c) - lsb(sh[b].c) /\ sh[b].g = sh[a].g

\* An inner node has two such children, a leaf has none.
BranchesAt(sh, n) ==
  /\ sh[n].il = 0 => sh[n].ir = 0
  /\ sh[n].il # 0 => Halves(sh, n, sh[n].il, sh[n].ir) /\ sh[n].c \in {0, n}

\* So it is for every node.
Branches(sh) == \A n \in DOMAIN sh : BranchesAt(sh, n)

\* What is left of the cells lies below their names and is no smaller than the grain.
Grained(sh, grain) ==
  \A n \in DOMAIN sh :
    sh[n].c # 0 => sh[n].c \in Cell /\ Inside(sh[n].c, n) /\ (lsb(sh[n].c) >= grain \/ sh[n].c = unity)

\* The live leaves: no node above them is a leaf.
Live(sh) ==
  {n \in DOMAIN sh : sh[n].il = 0 /\ \A p \in DOMAIN sh : Inside(n, p) /\ p # n => sh[p].il # 0}

\* The live leaves hold the elements of E.
Held(sh, E) == \A e \in E : \E n \in Live(sh) : e \in Within(sh[n].c)

\* A tree in order that holds E.
Shaped(sh, r, grain, E) ==
  /\ sh \in [DOMAIN sh -> Node]
  /\ Rises(sh, r) /\ Branches(sh) /\ Grained(sh, grain) /\ Held(sh, E)

\* A tree made for a cell c that holds E.
Grown(t, c, grain, E) ==
  /\ Shaped(t.nodes, t.top, grain, E) /\ Inside(t.top, c)
  /\ t.nodes[t.top].w <= lsb(t.nodes[t.top].c)

\* A is a part of T: below the parent c, nothing but its top a is new.
PartOf(A, a, T, c, g) ==
  /\ DOMAIN A \subseteq DOMAIN T /\ c \in DOMAIN T /\ T[c].il # 0 /\ a \in DOMAIN A /\ c \notin DOMAIN A
  /\ \A n \in DOMAIN A :
       /\ T[n].c = A[n].c /\ T[n].w = A[n].w /\ T[n].il = A[n].il /\ T[n].ir = A[n].ir
       /\ T[n].ip = (IF n = a THEN c ELSE A[n].ip) /\ T[n].g = (IF n = a THEN g ELSE A[n].g)
       /\ \A k \in DOMAIN T : Inside(k, n) => k \in DOMAIN A
       /\ \A p \in DOMAIN T : Inside(n, p) => p \in DOMAIN A \cup {c}

\* Below the parent c, the nodes of a part keep their place,
LEMMA PartRises ==
  ASSUME NEW A, NEW a, NEW T, NEW c, NEW g, PartOf(A, a, T, c, g), Rises(A, a), NEW n \in DOMAIN A, n # a
  PROVE  RisesAt(T, n)
<1>1. RisesAt(A, n)
  BY DEF Rises
<1>2. A[n].ip \in DOMAIN A /\ T[n].ip = A[n].ip
  BY <1>1 DEF PartOf, RisesAt
<1> QED
  BY <1>1, <1>2 DEF PartOf, RisesAt

\* their branches,
LEMMA PartBranches ==
  ASSUME NEW A, NEW a, NEW T, NEW c, NEW g, PartOf(A, a, T, c, g), Rises(A, a), NEW n \in DOMAIN A,
         BranchesAt(A, n)
  PROVE  BranchesAt(T, n)
<1>1. T[n].il = A[n].il /\ T[n].ir = A[n].ir /\ T[n].c = A[n].c
  BY DEF PartOf
<1> DEFINE x == A[n].il
           y == A[n].ir
<1>2. ASSUME x # 0 PROVE Halves(T, n, x, y)
  <2>1. Halves(A, n, x, y)
    BY <1>2 DEF BranchesAt
  <2>2. x \in DOMAIN A /\ y \in DOMAIN A /\ x # a /\ y # a
    <3>1. n # 0 /\ A[a].ip = 0
      BY DEF Rises, Cell
    <3> QED
      BY <2>1, <3>1 DEF Halves
  <2>3. /\ x \in DOMAIN T /\ y \in DOMAIN T /\ T[x].ip = A[x].ip /\ T[y].ip = A[y].ip
        /\ T[x].g = A[x].g /\ T[y].g = A[y].g /\ T[x].c = A[x].c /\ T[y].c = A[y].c
    BY <2>2 DEF PartOf
  <2>4. \A k \in DOMAIN T : Inside(k, n) => k \in DOMAIN A
    BY DEF PartOf
  <2> HIDE DEF x, y
  <2> QED
    BY <2>1, <2>2, <2>3, <2>4 DEF Halves
<1> QED
  BY <1>1, <1>2 DEF BranchesAt

\* and their leaves.
LEMMA PartLive ==
  ASSUME NEW A, NEW a, NEW T, NEW c, NEW g, PartOf(A, a, T, c, g), NEW n \in Live(A)
  PROVE  n \in Live(T) /\ T[n].c = A[n].c
BY DEF PartOf, Live

\* What the parent of two halves that hold something would waste.
LEMMA GainExact ==
  ASSUME NEW c \in Cell, NEW L, NEW R, L.c \in Cell, R.c \in Cell, L.w \in Nat, R.w \in Nat,
         L.w <= lsb(L.c), R.w <= lsb(R.c), lsb(L.c) + lsb(R.c) <= lsb(c)
  PROVE  Gain(c, L, R) = lsb(c) - lsb(L.c) - lsb(R.c) /\ Gain(c, L, R) \in 0..2*Limit-1
<1> DEFINE A == lsb(c)
           B == lsb(L.c)
           C == lsb(R.c)
<1>1. A \in Nat /\ B \in Nat /\ C \in Nat /\ A <= Limit /\ Limit \in Nat \ {0}
  BY CellSize, ShiftedPositive
<1>2. waste(L) = Word(B - L.w) /\ waste(R) = Word(C - R.w)
      /\ Gain(c, L, R) = Word(Word(A - (L.w + R.w)) - waste(L) - waste(R))
  BY DEF waste, Gain
<1>3. B + C <= A /\ L.w <= B /\ R.w <= C
  OBVIOUS
<1> HIDE DEF A, B, C
<1>4. B - L.w \in 0..2*Limit-1 /\ C - R.w \in 0..2*Limit-1 /\ A - (L.w + R.w) \in 0..2*Limit-1
  BY <1>1, <1>3
<1>5. Word(B - L.w) = B - L.w /\ Word(C - R.w) = C - R.w /\ Word(A - (L.w + R.w)) = A - (L.w + R.w)
  BY <1>4, WordIs
<1>6. Gain(c, L, R) = Word((A - (L.w + R.w)) - (B - L.w) - (C - R.w))
  BY <1>2, <1>5
<1>7. (A - (L.w + R.w)) - (B - L.w) - (C - R.w) = A - B - C /\ A - B - C \in 0..2*Limit-1
  BY <1>1, <1>3
<1>8. Word(A - B - C) = A - B - C
  BY <1>7, WordIs
<1> QED
  BY <1>6, <1>7, <1>8 DEF A, B, C

\* Nodes below two halves of c.
Apart(A, B, c) ==
  LET x == children(c)[1]
      y == children(c)[2]
  IN  /\ DOMAIN A \subseteq Cell /\ DOMAIN B \subseteq Cell
      /\ \A n \in DOMAIN A : Inside(n, x)
      /\ \A n \in DOMAIN B : Inside(n, y)

\* The trees of the halves share no node and no nesting.
LEMMA ApartIs ==
  ASSUME NEW c \in Cell, lsb(c) # 1, NEW A, NEW B, Apart(A, B, c)
  PROVE  /\ c \notin DOMAIN A /\ c \notin DOMAIN B /\ DOMAIN A \cap DOMAIN B = {}
         /\ \A n \in DOMAIN A : Inside(n, c) /\ ~Inside(c, n) /\ 2 * end(n) <= begin(c) + end(c)
         /\ \A n \in DOMAIN B : Inside(n, c) /\ ~Inside(c, n) /\ begin(c) + end(c) <= 2 * begin(n)
         /\ \A n \in DOMAIN A, k \in DOMAIN B : ~Inside(n, k) /\ ~Inside(k, n)
<1> DEFINE x == children(c)[1]
           y == children(c)[2]
<1>1. /\ x \in Cell /\ y \in Cell /\ begin(x) = begin(c) /\ end(x) = begin(y) /\ end(y) = end(c)
      /\ 2 * lsb(x) = lsb(c) /\ 2 * lsb(y) = lsb(c)
  BY ChildCells
<1>2. /\ \A n \in DOMAIN A : n \in Cell /\ begin(x) <= begin(n) /\ end(n) <= end(x)
      /\ \A n \in DOMAIN B : n \in Cell /\ begin(y) <= begin(n) /\ end(n) <= end(y)
  BY DEF Apart, Inside
<1> HIDE DEF x, y
<1>3. \A n \in Cell : begin(n) \in Nat /\ end(n) \in Nat /\ begin(n) < end(n) /\ lsb(n) = end(n) - begin(n)
  BY CellBounds, CellSize
<1>4. end(x) - begin(x) = end(y) - begin(y) /\ begin(c) + end(c) = 2 * end(x) /\ begin(c) < end(x) /\ end(x) < end(c)
  BY <1>1, <1>3
<1>5. \A n \in DOMAIN A : Inside(n, c) /\ ~Inside(c, n) /\ 2 * end(n) <= begin(c) + end(c)
  BY <1>1, <1>2, <1>3, <1>4 DEF Inside
<1>6. \A n \in DOMAIN B : Inside(n, c) /\ ~Inside(c, n) /\ begin(c) + end(c) <= 2 * begin(n)
  BY <1>1, <1>2, <1>3, <1>4 DEF Inside
<1>7. \A n \in DOMAIN A, k \in DOMAIN B : ~Inside(n, k) /\ ~Inside(k, n)
  BY <1>1, <1>2, <1>3, <1>4 DEF Inside
<1>8. \A n \in Cell : Inside(n, n)
  BY <1>3 DEF Inside
<1>9. c \notin DOMAIN A /\ c \notin DOMAIN B
  BY <1>5, <1>6, <1>8
<1>10. DOMAIN A \cap DOMAIN B = {}
  BY <1>2, <1>7, <1>8
<1> QED
  BY <1>5, <1>6, <1>7, <1>9, <1>10

\* Above changes the top of a tree.
LEMMA AboveIs ==
  ASSUME NEW t, NEW n, t.nodes[n] \in Node, NEW c, NEW g
  PROVE  LET u == Above(t, c, g, n)
             o == t.nodes[n]
         IN  /\ u.c = o.c /\ u.w = o.w /\ u.il = o.il /\ u.ir = o.ir
             /\ u.ip = (IF n = t.top THEN c ELSE o.ip) /\ u.g = (IF n = t.top THEN g ELSE o.g)
             /\ c \in Cell /\ g \in 0..2*Limit-1 => u \in Node
<1>1. CASE n = t.top
  <2>1. Above(t, c, g, n) = [t.nodes[n] EXCEPT !.ip = c, !.g = g]
    BY <1>1 DEF Above
  <2> QED
    BY <1>1, <2>1 DEF Node
<1>2. CASE n # t.top
  <2>1. Above(t, c, g, n) = t.nodes[n]
    BY <1>2 DEF Above
  <2> QED
    BY <1>2, <2>1
<1> QED
  BY <1>1, <1>2

\* t consists of the trees l and r and the inner node c above them.
Joins(t, c, l, r) ==
  LET L == l.nodes[l.top]
      R == r.nodes[r.top]
      g == Gain(c, L, R)
  IN  /\ t.top = c /\ DOMAIN t.nodes = {c} \cup DOMAIN l.nodes \cup DOMAIN r.nodes
      /\ t.nodes \in [DOMAIN t.nodes -> Node]
      /\ t.nodes[c] = [c |-> c, w |-> L.w + R.w, il |-> l.top, ir |-> r.top, ip |-> 0, g |-> 0]
      /\ L.w + R.w <= lsb(c) /\ l.top # 0
      /\ PartOf(l.nodes, l.top, t.nodes, c, g) /\ PartOf(r.nodes, r.top, t.nodes, c, g)
      /\ Apart(l.nodes, r.nodes, c)
      /\ g = lsb(c) - lsb(L.c) - lsb(R.c)

\* Trees of the halves are joined so.
LEMMA JoinedParts ==
  ASSUME NEW c \in Cell, lsb(c) # 1, NEW grain, NEW E, NEW F, NEW l, NEW r,
         Grown(l, children(c)[1], grain, E), Grown(r, children(c)[2], grain, F)
  PROVE  Joins(Joined(c, l, r), c, l, r)
<1> DEFINE t == Joined(c, l, r)
           T == t.nodes
           A == l.nodes
           B == r.nodes
           a == l.top
           b == r.top
           L == A[a]
           R == B[b]
           g == Gain(c, L, R)
           x == children(c)[1]
           y == children(c)[2]
           D == {c} \cup DOMAIN A \cup DOMAIN B
<1>1. /\ A \in [DOMAIN A -> Node] /\ Rises(A, a) /\ Grained(A, grain) /\ Inside(a, x) /\ L.w <= lsb(L.c)
      /\ B \in [DOMAIN B -> Node] /\ Rises(B, b) /\ Grained(B, grain) /\ Inside(b, y) /\ R.w <= lsb(R.c)
  BY DEF Grown, Shaped
<1>2. /\ x \in Cell /\ y \in Cell /\ begin(x) = begin(c) /\ end(x) = begin(y) /\ end(y) = end(c)
      /\ 2 * lsb(x) = lsb(c) /\ 2 * lsb(y) = lsb(c)
  BY ChildCells
<1>3. /\ t.top = c /\ t = [top |-> t.top, nodes |-> t.nodes]
      /\ t.nodes = [n \in D |-> t.nodes[n]]
      /\ t.nodes[c] = [c |-> c, w |-> L.w + R.w, il |-> l.top, ir |-> r.top, ip |-> 0, g |-> 0]
      /\ \A n \in DOMAIN l.nodes : n # c => t.nodes[n] = Above(l, c, g, n)
      /\ \A n \in DOMAIN r.nodes : n # c /\ n \notin DOMAIN l.nodes => t.nodes[n] = Above(r, c, g, n)
  BY JoinedNodes
<1> HIDE DEF t, g
<1>4. /\ a \in DOMAIN A /\ DOMAIN A \subseteq Cell /\ L.c # 0 /\ \A n \in DOMAIN A : Inside(n, a)
      /\ b \in DOMAIN B /\ DOMAIN B \subseteq Cell /\ R.c # 0 /\ \A n \in DOMAIN B : Inside(n, b)
  BY <1>1 DEF Rises
<1>5. Apart(A, B, c)
  <2> HIDE DEF x, y, A, B, a, b
  <2>1. \A n \in Cell : begin(n) \in Nat /\ end(n) \in Nat
    BY CellBounds
  <2>2. (\A n \in DOMAIN A : Inside(n, x)) /\ (\A n \in DOMAIN B : Inside(n, y))
    BY <1>1, <1>2, <1>4, <2>1 DEF Inside
  <2> QED
    BY <1>4, <2>2 DEF Apart, x, y
<1>6. /\ c \notin DOMAIN A /\ c \notin DOMAIN B /\ DOMAIN A \cap DOMAIN B = {}
      /\ \A n \in DOMAIN A : Inside(n, c) /\ ~Inside(c, n)
      /\ \A n \in DOMAIN B : Inside(n, c) /\ ~Inside(c, n)
      /\ \A n \in DOMAIN A, k \in DOMAIN B : ~Inside(n, k) /\ ~Inside(k, n)
  BY <1>5, ApartIs
<1>7. /\ L.c \in Cell /\ Inside(L.c, a) /\ R.c \in Cell /\ Inside(R.c, b)
  BY <1>1, <1>4 DEF Grained
<1>8. /\ L \in Node /\ R \in Node /\ L.w \in Nat /\ R.w \in Nat
  <2>1. L \in Node /\ R \in Node
    BY <1>1, <1>4
  <2> HIDE DEF L, R
  <2> QED
    BY <2>1, ShiftedPositive DEF Node
<1>9. 2 * lsb(L.c) <= lsb(c) /\ 2 * lsb(R.c) <= lsb(c)
  <2>1. a \in Cell /\ b \in Cell
    BY <1>4
  <2>2. lsb(L.c) <= lsb(a) /\ lsb(a) <= lsb(x) /\ lsb(R.c) <= lsb(b) /\ lsb(b) <= lsb(y)
    BY <1>1, <1>2, <1>7, <2>1, InsideSize
  <2>3. /\ lsb(L.c) \in Nat /\ lsb(a) \in Nat /\ lsb(x) \in Nat /\ lsb(R.c) \in Nat /\ lsb(b) \in Nat
        /\ lsb(y) \in Nat /\ lsb(c) \in Nat
    BY <1>2, <1>7, <2>1, CellSize
  <2> HIDE DEF x, y, a, b, L, R
  <2> QED
    BY <1>2, <2>2, <2>3
<1>10. lsb(L.c) \in Nat /\ lsb(R.c) \in Nat /\ lsb(c) \in Nat /\ lsb(c) <= Limit
  BY <1>7, CellSize
<1>11. g = lsb(c) - lsb(L.c) - lsb(R.c) /\ g \in 0..2*Limit-1
  <2>1. lsb(L.c) + lsb(R.c) <= lsb(c)
    BY <1>9, <1>10
  <2> HIDE DEF L, R
  <2> QED
    BY <1>1, <1>7, <1>8, <2>1, GainExact DEF g
<1>12. L.w + R.w \in 0..Limit /\ L.w + R.w <= lsb(c)
  <2> HIDE DEF L, R
  <2> QED
    BY <1>1, <1>8, <1>9, <1>10, ShiftedPositive
<1>13. DOMAIN T = D
  BY <1>3
<1>14. \A n \in DOMAIN A : /\ A[n] \in Node /\ T[n] = Above(l, c, g, n)
  BY <1>1, <1>3, <1>6
<1>15. \A n \in DOMAIN B : /\ B[n] \in Node /\ T[n] = Above(r, c, g, n)
  BY <1>1, <1>3, <1>6
<1>16. T[c] \in Node
  <2>1. a \in Cell /\ b \in Cell /\ 0 \in 0..2*Limit-1
    BY <1>4, ShiftedPositive
  <2> QED
    BY <1>3, <1>12, <2>1 DEF Node
<1>17. \A n \in D : T[n] \in Node
  BY <1>11, <1>14, <1>15, <1>16, AboveIs
<1>18. T \in [DOMAIN T -> Node]
  BY <1>3, <1>13, <1>17
<1>19. a # 0 /\ b # 0
  BY <1>4 DEF Cell
<1>20. T[c].il # 0
  BY <1>3, <1>19
<1>21. PartOf(A, a, T, c, g)
  <2>1. \A n \in DOMAIN A : /\ T[n].c = A[n].c /\ T[n].w = A[n].w /\ T[n].il = A[n].il /\ T[n].ir = A[n].ir
                            /\ T[n].ip = (IF n = a THEN c ELSE A[n].ip) /\ T[n].g = (IF n = a THEN g ELSE A[n].g)
    BY <1>14, AboveIs
  <2>2. \A n \in DOMAIN A : /\ \A k \in DOMAIN T : Inside(k, n) => k \in DOMAIN A
                            /\ \A p \in DOMAIN T : Inside(n, p) => p \in DOMAIN A \cup {c}
    BY <1>6, <1>13
  <2> QED
    BY <1>4, <1>6, <1>13, <1>20, <2>1, <2>2 DEF PartOf
<1>22. PartOf(B, b, T, c, g)
  <2>1. \A n \in DOMAIN B : /\ T[n].c = B[n].c /\ T[n].w = B[n].w /\ T[n].il = B[n].il /\ T[n].ir = B[n].ir
                            /\ T[n].ip = (IF n = b THEN c ELSE B[n].ip) /\ T[n].g = (IF n = b THEN g ELSE B[n].g)
    BY <1>15, AboveIs
  <2>2. \A n \in DOMAIN B : /\ \A k \in DOMAIN T : Inside(k, n) => k \in DOMAIN B
                            /\ \A p \in DOMAIN T : Inside(n, p) => p \in DOMAIN B \cup {c}
    BY <1>6, <1>13
  <2> QED
    BY <1>4, <1>6, <1>13, <1>20, <2>1, <2>2 DEF PartOf
<1> QED
  BY <1>3, <1>5, <1>11, <1>12, <1>13, <1>18, <1>19, <1>21, <1>22 DEF t, g, Joins

\* Two trees made for the halves of c make one for c.
LEMMA JoinedGrown ==
  ASSUME NEW c \in Cell, lsb(c) # 1, NEW grain \in Nat, grain <= lsb(c), NEW E, NEW F, NEW l, NEW r,
         Grown(l, children(c)[1], grain, E), Grown(r, children(c)[2], grain, F)
  PROVE  Grown(Joined(c, l, r), c, grain, E \cup F)
<1> DEFINE t == Joined(c, l, r)
           T == t.nodes
           A == l.nodes
           B == r.nodes
           a == l.top
           b == r.top
           g == Gain(c, A[a], B[b])
<1>1. /\ t.top = c /\ DOMAIN T = {c} \cup DOMAIN A \cup DOMAIN B /\ T \in [DOMAIN T -> Node]
      /\ T[c] = [c |-> c, w |-> A[a].w + B[b].w, il |-> a, ir |-> b, ip |-> 0, g |-> 0]
      /\ A[a].w + B[b].w <= lsb(c) /\ a # 0
      /\ PartOf(A, a, T, c, g) /\ PartOf(B, b, T, c, g) /\ Apart(A, B, c)
      /\ g = lsb(c) - lsb(A[a].c) - lsb(B[b].c)
  <2>1. Joins(t, c, l, r)
    BY JoinedParts
  <2> HIDE DEF t
  <2> QED
    BY <2>1 DEF Joins
<1>2. /\ Rises(A, a) /\ Branches(A) /\ Grained(A, grain) /\ Held(A, E)
      /\ Rises(B, b) /\ Branches(B) /\ Grained(B, grain) /\ Held(B, F)
  BY DEF Grown, Shaped
<1> HIDE DEF t, g, A, B, a, b
<1>3. /\ c \notin DOMAIN A /\ c \notin DOMAIN B /\ DOMAIN A \cap DOMAIN B = {}
      /\ \A n \in DOMAIN A : Inside(n, c) /\ ~Inside(c, n) /\ 2 * end(n) <= begin(c) + end(c)
      /\ \A n \in DOMAIN B : Inside(n, c) /\ ~Inside(c, n) /\ begin(c) + end(c) <= 2 * begin(n)
  BY <1>1, ApartIs
<1>4. Inside(c, c) /\ c # 0
  BY CellSize DEF Inside, Cell
<1>5. a \in DOMAIN A /\ b \in DOMAIN B /\ DOMAIN A \subseteq Cell /\ DOMAIN B \subseteq Cell
  BY <1>2 DEF Rises
<1>6. /\ T[a].ip = c /\ T[b].ip = c /\ T[a].g = g /\ T[b].g = g
      /\ T[a].c = A[a].c /\ T[b].c = B[b].c
  BY <1>1, <1>5 DEF PartOf
<1>7. T[c].il = a /\ T[c].ir = b /\ T[c].ip = 0 /\ T[c].c = c /\ T[c].w <= lsb(c)
  BY <1>1
<1>8. A[a].c # 0 /\ B[b].c # 0 /\ (\A n \in DOMAIN A : Inside(n, a)) /\ (\A n \in DOMAIN B : Inside(n, b))
  BY <1>2 DEF Rises
<1>9. Rises(T, c)
  <2>1. RisesAt(T, a) /\ RisesAt(T, b)
    BY <1>1, <1>3, <1>5, <1>6, <1>7, <1>8 DEF RisesAt
  <2>2. \A n \in DOMAIN A : n # a => RisesAt(T, n)
    BY <1>1, <1>2, PartRises
  <2>3. \A n \in DOMAIN B : n # b => RisesAt(T, n)
    BY <1>1, <1>2, PartRises
  <2>4. \A n \in DOMAIN T \ {c} : RisesAt(T, n)
    BY <1>1, <2>1, <2>2, <2>3
  <2>5. \A n \in DOMAIN T : n \in Cell /\ Inside(n, c)
    BY <1>1, <1>3, <1>4, <1>5
  <2> QED
    BY <1>1, <1>4, <1>7, <2>4, <2>5 DEF Rises
<1>10. Branches(T)
  <2>1. Halves(T, c, a, b)
    <3>1. \A k \in DOMAIN T : k # c => Inside(k, a) \/ Inside(k, b)
      BY <1>1, <1>8
    <3>2. begin(c) <= begin(a) /\ 2 * end(a) <= begin(c) + end(c)
          /\ begin(c) + end(c) <= 2 * begin(b) /\ end(b) <= end(c)
      BY <1>3, <1>5 DEF Inside
    <3> QED
      BY <1>1, <1>5, <1>6, <3>1, <3>2 DEF Halves
  <2>2. BranchesAt(T, c)
    BY <1>1, <1>7, <2>1 DEF BranchesAt
  <2>3. \A n \in DOMAIN A : BranchesAt(T, n)
    BY <1>1, <1>2, PartBranches DEF Branches
  <2>4. \A n \in DOMAIN B : BranchesAt(T, n)
    BY <1>1, <1>2, PartBranches DEF Branches
  <2> QED
    BY <1>1, <2>2, <2>3, <2>4 DEF Branches
<1>11. Grained(T, grain)
  <2>1. \A n \in DOMAIN A : T[n].c = A[n].c
    BY <1>1 DEF PartOf
  <2>2. \A n \in DOMAIN B : T[n].c = B[n].c
    BY <1>1 DEF PartOf
  <2>3. lsb(c) \in Nat
    BY CellSize
  <2> QED
    BY <1>1, <1>2, <1>4, <1>7, <2>1, <2>2, <2>3 DEF Grained
<1>12. Held(T, E \cup F)
  <2>1. \A n \in Live(A) : n \in Live(T) /\ T[n].c = A[n].c
    BY <1>1, PartLive
  <2>2. \A n \in Live(B) : n \in Live(T) /\ T[n].c = B[n].c
    BY <1>1, PartLive
  <2> QED
    BY <1>2, <2>1, <2>2 DEF Held
<1>13. Shaped(T, c, grain, E \cup F)
  BY <1>1, <1>9, <1>10, <1>11, <1>12 DEF Shaped
<1> QED
  BY <1>1, <1>4, <1>7, <1>13 DEF Grown, t

\* A leaf over a cell that holds E.
LEMMA SingleGrown ==
  ASSUME NEW c \in Cell, NEW d \in Cell, NEW w \in Nat, NEW grain, NEW E,
         Inside(d, c), lsb(d) >= grain \/ d = unity, w <= lsb(d), E \subseteq Within(d)
  PROVE  Grown(Single(c, Leaf(d, w)), c, grain, E)
<1> DEFINE t == Single(c, Leaf(d, w))
           T == t.nodes
<1>1. t.top = c /\ DOMAIN T = {c} /\ T[c] = Leaf(d, w) /\ T = [n \in {c} |-> Leaf(d, w)]
  <2> DEFINE leaf == Leaf(d, w)
  <2> HIDE DEF leaf
  <2>1. Single(c, leaf).top = c /\ DOMAIN Single(c, leaf).nodes = {c} /\ Single(c, leaf).nodes[c] = leaf
        /\ Single(c, leaf).nodes = [n \in {c} |-> leaf]
    BY DEF Single
  <2> QED
    BY <2>1 DEF leaf
<1> HIDE DEF t
<1>2. T[c] = [c |-> d, w |-> w, il |-> 0, ir |-> 0, ip |-> 0, g |-> 0]
  BY <1>1 DEF Leaf
<1>3. lsb(d) \in Nat /\ lsb(d) <= Limit /\ Limit \in Nat \ {0}
  BY CellSize, ShiftedPositive
<1>4. w \in 0..Limit /\ 0 \in 0..2*Limit-1
  BY <1>3
<1>5. T[c] \in Node
  BY <1>2, <1>4 DEF Node
<1>6. T \in [DOMAIN T -> Node]
  BY <1>1, <1>5
<1>7. d # 0 /\ Inside(c, c)
  BY CellSize DEF Inside, Cell
<1>8. Rises(T, c)
  <2>1. DOMAIN T \subseteq Cell /\ c \in DOMAIN T /\ DOMAIN T \ {c} = {}
    BY <1>1
  <2> QED
    BY <1>1, <1>2, <1>7, <2>1 DEF Rises
<1>9. Branches(T)
  BY <1>1, <1>2 DEF Branches, BranchesAt
<1>10. Grained(T, grain)
  BY <1>1, <1>2 DEF Grained
<1>11. Held(T, E)
  <2>1. c \in Live(T)
    BY <1>1, <1>2 DEF Live
  <2> QED
    BY <1>2, <2>1 DEF Held
<1>12. T[c].w <= lsb(T[c].c)
  BY <1>2
<1> QED
  BY <1>1, <1>6, <1>7, <1>8, <1>9, <1>10, <1>11, <1>12 DEF Grown, Shaped, t

\* A cell in c, but for c itself, lies in the half on the side of c it is on.
LEMMA HalvedCell ==
  ASSUME NEW c \in Cell, NEW d \in Cell, Inside(d, c), d # c
  PROVE  /\ lsb(c) # 1
         /\ d < c => Inside(d, children(c)[1])
         /\ ~(d < c) => Inside(d, children(c)[2])
<1> DEFINE x == children(c)[1]
           y == children(c)[2]
<1>1. /\ begin(c) \in Nat /\ end(c) \in Nat /\ lsb(c) = end(c) - begin(c) /\ c = begin(c) + end(c)
      /\ begin(d) \in Nat /\ end(d) \in Nat /\ lsb(d) = end(d) - begin(d) /\ d = begin(d) + end(d)
      /\ begin(d) < end(d)
  BY CellSize, CellBounds, CellNamed
<1>2. 2 * lsb(d) <= lsb(c)
  BY InsideSize
<1>3. lsb(c) # 1
  BY <1>1, <1>2
<1>4. /\ x \in Cell /\ y \in Cell /\ begin(x) = begin(c) /\ end(x) = begin(y) /\ end(y) = end(c)
      /\ 2 * lsb(x) = lsb(c) /\ 2 * lsb(y) = lsb(c)
  BY <1>3, ChildCells
<1> HIDE DEF x, y
<1>5. /\ begin(x) \in Nat /\ end(x) \in Nat /\ lsb(x) = end(x) - begin(x)
      /\ begin(y) \in Nat /\ end(y) \in Nat /\ lsb(y) = end(y) - begin(y)
  BY <1>4, CellSize
<1>6. \A k \in {x, y} : begin(d) < end(k) /\ begin(k) < end(d) => Inside(d, k)
  <2> SUFFICES ASSUME NEW k \in {x, y}, begin(d) < end(k), begin(k) < end(d) PROVE Inside(d, k)
    OBVIOUS
  <2>0. k \in Cell
    BY <1>4
  <2>1. Inside(d, k) \/ Inside(k, d)
    BY <2>0, Laminar
  <2>2. ASSUME Inside(k, d) PROVE Inside(d, k)
    <3>1. lsb(k) >= lsb(d) /\ lsb(k) \in Nat
      BY <1>1, <1>2, <1>4, <1>5
    <3>2. k = d
      BY <2>0, <2>2, <3>1, SameCell
    <3> QED
      BY <2>2, <3>2
  <2> QED
    BY <2>1, <2>2
<1>7. begin(c) + end(c) = 2 * end(x)
  BY <1>1, <1>4, <1>5
<1>9. begin(c) <= begin(d) /\ end(d) <= end(c)
  BY DEF Inside
<1>10. ASSUME d < c PROVE Inside(d, x)
  <2>1. begin(d) < end(x) /\ begin(x) < end(d)
    BY <1>1, <1>4, <1>5, <1>7, <1>9, <1>10
  <2> QED
    BY <1>6, <2>1
<1>11. ASSUME ~(d < c) PROVE Inside(d, y)
  <2>1. begin(d) < end(y) /\ begin(y) < end(d)
    BY <1>1, <1>4, <1>5, <1>7, <1>9, <1>11
  <2> QED
    BY <1>6, <2>1
<1> QED
  BY <1>3, <1>10, <1>11 DEF x, y

\* What the cells i..j-1 hold.
Part(s, i, j) == UNION {Within(s[h]) : h \in i..j-1}

\* The cells up to m and those from m on.
LEMMA PartSplit ==
  ASSUME NEW s, NEW i \in Nat, NEW m \in Nat, NEW j \in Nat, i <= m, m <= j
  PROVE  Part(s, i, j) = Part(s, i, m) \cup Part(s, m, j)
<1>1. i..j-1 = (i..m-1) \cup (m..j-1)
  OBVIOUS
<1> QED
  BY <1>1 DEF Part

\* A list of cells in c has no more elements than c.
LEMMA PartCount ==
  ASSUME NEW s, Ordered(s), NEW i \in 1..Len(s)+1, NEW j \in 1..Len(s)+1, NEW c \in Cell,
         \A h \in i..j-1 : Inside(s[h], c)
  PROVE  Count(SubSeq(s, i, j - 1)) <= lsb(c) /\ Part(s, i, j) \subseteq Within(c)
<1> DEFINE t == SubSeq(s, i, j - 1)
<1>1. s \in Seq(Cell) /\ Len(s) \in Nat /\ i \in Nat /\ j \in Nat
  BY DEF Ordered
<1>2. i..j-1 \subseteq DOMAIN s
  BY <1>1
<1>3. /\ t \in Seq(Cell) /\ Len(t) = (IF i <= j - 1 THEN j - i ELSE 0)
      /\ \A k \in 1..Len(t) : t[k] = s[i + k - 1]
  BY <1>1, <1>2, SubSeqProperties
<1> HIDE DEF t
<1>4. \A k \in 1..Len(t) : i + k - 1 \in i..j-1
  BY <1>1, <1>3
<1>5. Ordered(t)
  <2> SUFFICES ASSUME NEW k \in 1..Len(t)-1 PROVE end(t[k]) <= begin(t[k+1])
    BY <1>3 DEF Ordered
  <2>1. k \in 1..Len(t) /\ k + 1 \in 1..Len(t) /\ i + (k + 1) - 1 = (i + k - 1) + 1
    BY <1>1, <1>3
  <2>2. t[k] = s[i + k - 1] /\ t[k+1] = s[(i + k - 1) + 1]
    BY <1>3, <2>1
  <2>3. i + k - 1 \in 1..Len(s)-1
    BY <1>1, <1>3, <2>1
  <2> QED
    BY <2>2, <2>3 DEF Ordered
<1>6. \A h \in i..j-1 : Within(s[h]) \subseteq Within(c)
  <2> SUFFICES ASSUME NEW h \in i..j-1 PROVE Within(s[h]) \subseteq Within(c)
    OBVIOUS
  <2>1. s[h] \in Cell
    BY <1>1, <1>2
  <2> QED
    BY <2>1, InsideWithin
<1>7. Part(s, i, j) \subseteq Within(c)
  BY <1>6 DEF Part
<1>8. Elements(t) \subseteq Within(c)
  <2> SUFFICES ASSUME NEW k \in DOMAIN t PROVE Within(t[k]) \subseteq Within(c)
    BY DEF Elements
  <2>1. k \in 1..Len(t)
    BY <1>3
  <2>2. t[k] = s[i + k - 1] /\ i + k - 1 \in i..j-1
    BY <1>3, <1>4, <2>1
  <2> QED
    BY <1>6, <2>2
<1>9. IsFiniteSet(Within(c)) /\ Cardinality(Within(c)) = lsb(c)
  <2>1. begin(c) \in Nat /\ end(c) \in Nat /\ begin(c) < end(c) /\ lsb(c) = end(c) - begin(c)
    BY CellSize, CellBounds
  <2> DEFINE p == begin(c)
             q == end(c)
  <2>2. p \in Int /\ q - 1 \in Int /\ ~(p > q - 1) /\ (q - 1) - p + 1 = lsb(c)
    BY <2>1
  <2> HIDE DEF p, q
  <2>3. IsFiniteSet(p..(q-1)) /\ Cardinality(p..(q-1)) = (q - 1) - p + 1
    BY <2>2, FS_Interval
  <2> QED
    BY <2>2, <2>3 DEF Within, p, q
<1>10. Cardinality(Elements(t)) <= lsb(c)
  BY <1>8, <1>9, FS_Subset
<1> QED
  BY <1>5, <1>7, <1>10, CountExact DEF t

\* The calls of shape: the cells i..j-1 lie in c, which is no smaller than the grain.
GoodArgs(s, grain, x) ==
  /\ x \in TreeArgs(s) /\ x[1] <= x[2] /\ grain <= lsb(x[3])
  /\ \A h \in x[1]..x[2]-1 : Inside(s[h], x[3])

\* What a call returns.
GoodTree(t, s, grain, x) ==
  /\ x[1] = x[2] => t = NoTree
  /\ x[1] # x[2] => Grown(t, x[3], grain, Part(s, x[1], x[2]))

\* The leaf over a cell smaller than twice the grain.
LEMMA CoarseLeaf ==
  ASSUME NEW s, Ordered(s), NEW grain \in Nat, NEW x, GoodArgs(s, grain, x), x[1] # x[2]
  PROVE  Grown(Single(x[3], Leaf(x[3], Count(SubSeq(s, x[1], x[2] - 1)))), x[3], grain, Part(s, x[1], x[2]))
<1> DEFINE i == x[1]
           j == x[2]
           c == x[3]
           w == Count(SubSeq(s, i, j - 1))
<1>1. i \in 1..Len(s)+1 /\ j \in 1..Len(s)+1 /\ c \in Cell /\ grain <= lsb(c)
      /\ \A h \in i..j-1 : Inside(s[h], c)
  BY DEF GoodArgs, TreeArgs
<1>2. Leaf(c, w) \in AnyNode
  <2>1. s \in Seq(Cell) /\ x \in TreeArgs(s)
    BY DEF Ordered, GoodArgs
  <2> QED
    BY <2>1, TreeLeaves
<1> HIDE DEF i, j, c
<1>3. w \in Nat
  <2>1. Leaf(c, w).w = w /\ Leaf(c, w).w \in Nat
    <3>1. Leaf(c, w).w \in Nat
      BY <1>2 DEF AnyNode
    <3>2. Leaf(c, w).w = w
      BY DEF Leaf
    <3> QED
      BY <3>1, <3>2
  <2> QED
    BY <2>1
<1>4. w <= lsb(c) /\ Part(s, i, j) \subseteq Within(c)
  BY <1>1, PartCount
<1>5. Inside(c, c) /\ (lsb(c) >= grain \/ c = unity)
  BY <1>1, CellSize DEF Inside
<1> HIDE DEF w
<1>6. Grown(Single(c, Leaf(c, w)), c, grain, Part(s, i, j))
  BY <1>1, <1>3, <1>4, <1>5, SingleGrown
<1> QED
  BY <1>6 DEF i, j, c, w

\* The leaf over a lone cell.
LEMMA LoneLeaf ==
  ASSUME NEW s, Ordered(s), NEW grain \in Nat, NEW x, GoodArgs(s, grain, x), x[1] + 1 = x[2],
         2 * grain <= lsb(x[3])
  PROVE  Grown(Single(x[3], Leaf(Raised(s[x[1]], grain), lsb(s[x[1]]))), x[3], grain, Part(s, x[1], x[2]))
<1> DEFINE i == x[1]
           c == x[3]
           a == s[i]
           d == Raised(a, grain)
           w == lsb(a)
<1>1. /\ i \in 1..Len(s)+1 /\ x[2] \in 1..Len(s)+1 /\ c \in Cell /\ Len(s) \in Nat /\ s \in Seq(Cell)
      /\ \A h \in i..x[2]-1 : Inside(s[h], c)
  BY DEF GoodArgs, TreeArgs, Ordered
<1>2. i \in i..x[2]-1 /\ i \in 1..Len(s) /\ i..x[2]-1 = {i}
  BY <1>1
<1>3. a \in Cell /\ Inside(a, c)
  BY <1>1, <1>2
<1>4. Part(s, i, x[2]) = Within(a)
  BY <1>2 DEF Part
<1>5. 2 * grain <= lsb(c)
  OBVIOUS
<1> HIDE DEF i, c, a
<1>6. d \in Cell /\ Inside(a, d) /\ (lsb(d) >= grain \/ d = unity) /\ (d = a \/ lsb(d) < 2 * grain)
  BY <1>3, RaisedIs DEF Lifted
<1>7. Inside(d, c)
  <2>1. CASE d = a
    BY <1>3, <2>1
  <2>2. CASE lsb(d) < 2 * grain
    <3>1. lsb(d) <= lsb(c)
      BY <1>1, <1>5, <1>6, <2>2, CellSize
    <3> QED
      BY <1>1, <1>3, <1>6, <3>1, LiftedInside
  <2> QED
    BY <1>6, <2>1, <2>2
<1>8. w \in Nat /\ w <= lsb(d)
  BY <1>3, <1>6, CellSize, InsideSize
<1>9. Within(a) \subseteq Within(d)
  BY <1>3, <1>6, InsideWithin
<1> HIDE DEF d, w
<1>10. Grown(Single(c, Leaf(d, w)), c, grain, Part(s, i, x[2]))
  BY <1>1, <1>4, <1>6, <1>7, <1>8, <1>9, SingleGrown
<1> QED
  BY <1>10 DEF i, c, a, d, w

\* A tree made for a half of c is one made for c.
LEMMA GrownWider ==
  ASSUME NEW t, NEW x \in Cell, NEW c \in Cell, Inside(x, c), NEW grain, NEW E, Grown(t, x, grain, E)
  PROVE  Grown(t, c, grain, E) /\ t.top # 0
<1>1. t.top \in Cell /\ Inside(t.top, x)
  BY DEF Grown, Shaped, Rises
<1>2. Inside(t.top, c)
  <2>1. \A n \in Cell : begin(n) \in Nat /\ end(n) \in Nat
    BY CellSize
  <2> QED
    BY <1>1, <2>1 DEF Inside
<1> QED
  BY <1>1, <1>2 DEF Grown, Cell

\* The calls shape makes in turn are good.
LEMMA GoodCalls ==
  ASSUME NEW s, Ordered(s), NEW grain \in Nat, NEW x, GoodArgs(s, grain, x),
         x[1] # x[2], x[1] + 1 # x[2], 2 * grain <= lsb(x[3])
  PROVE  LET m == search(s, x[1], x[2] - 1, x[3])
         IN  /\ m \in x[1]..x[2] /\ lsb(x[3]) # 1
             /\ GoodArgs(s, grain, TreeLeft(s, x)) /\ GoodArgs(s, grain, TreeRight(s, x))
<1> DEFINE i == x[1]
           j == x[2]
           c == x[3]
           m == search(s, i, j - 1, c)
           a == children(c)[1]
           b == children(c)[2]
<1>1. /\ i \in 1..Len(s)+1 /\ j \in 1..Len(s)+1 /\ c \in Cell /\ i <= j /\ s \in Seq(Cell) /\ Len(s) \in Nat
      /\ i # j /\ i + 1 # j /\ 2 * grain <= lsb(c) /\ grain <= lsb(c)
      /\ \A h \in i..j-1 : Inside(s[h], c)
      /\ x \in TreeArgs(s)
  BY DEF GoodArgs, TreeArgs, Ordered
<1>2. TreeLeft(s, x) = <<i, m, a>> /\ TreeRight(s, x) = <<m, j, b>>
  BY DEF TreeLeft, TreeRight
<1>3. TreeLeft(s, x) \in TreeArgs(s) /\ TreeRight(s, x) \in TreeArgs(s)
  BY <1>1, TreeCalls
<1> HIDE DEF i, j, c
<1>4. c \in Int /\ lsb(c) \in Nat /\ begin(c) \in Nat /\ end(c) \in Nat /\ begin(c) < end(c)
  BY <1>1, CellSize, CellBounds
<1>5. /\ m \in 1..Len(s)+1 /\ i <= m /\ m <= j
      /\ \A h \in i..m-1 : h \in DOMAIN s /\ s[h] < c
      /\ m < j => m \in DOMAIN s /\ s[m] >= c
  BY <1>1, <1>4, SearchPart
<1> HIDE DEF m
<1>6. \A h \in i..j-1 : h \in DOMAIN s /\ s[h] \in Cell
  BY <1>1
<1>7. \A h \in Cell : begin(h) \in Nat /\ end(h) \in Nat /\ begin(h) < end(h) /\ h = begin(h) + end(h) /\ h \in Nat
  BY CellBounds, CellNamed, CellSize
<1>8. \A h \in i..j-1, k \in i..j-1 : h < k => s[h] < s[k] /\ end(s[h]) <= begin(s[k])
  <2> SUFFICES ASSUME NEW h \in i..j-1, NEW k \in i..j-1, h < k PROVE s[h] < s[k] /\ end(s[h]) <= begin(s[k])
    OBVIOUS
  <2>1. end(s[h]) <= begin(s[k])
    BY <1>6, OrderedApart
  <2>2. s[h] \in Cell /\ s[k] \in Cell
    BY <1>6
  <2> QED
    BY <1>7, <2>1, <2>2
<1>9. \A h \in i..j-1 : s[h] # c
  <2> SUFFICES ASSUME NEW h \in i..j-1, s[h] = c PROVE FALSE
    OBVIOUS
  <2>1. PICK k \in i..j-1 : k # h
    <3>1. i \in i..j-1 /\ i + 1 \in i..j-1 /\ i # i + 1
      BY <1>1
    <3> QED
      BY <3>1
  <2>2. end(s[h]) <= begin(s[k]) \/ end(s[k]) <= begin(s[h])
    <3>1. h < k \/ k < h
      BY <1>1, <2>1
    <3> QED
      BY <1>8, <3>1
  <2>3. Inside(s[k], c) /\ s[k] \in Cell
    BY <1>1, <1>6
  <2> QED
    BY <1>4, <1>7, <2>2, <2>3 DEF Inside
<1>10. \A h \in m..j-1 : ~(s[h] < c)
  <2> SUFFICES ASSUME NEW h \in m..j-1 PROVE ~(s[h] < c)
    OBVIOUS
  <2>1. m < j /\ m \in i..j-1 /\ h \in i..j-1 /\ (h = m \/ m < h)
    BY <1>1, <1>5
  <2>2. s[m] >= c /\ s[m] \in Nat /\ s[h] \in Nat
    BY <1>5, <1>6, <1>7, <2>1
  <2>3. h = m \/ s[m] < s[h]
    BY <1>8, <2>1
  <2> QED
    BY <1>4, <2>2, <2>3
<1>11. lsb(c) # 1
  <2>1. i \in i..j-1
    BY <1>1
  <2>2. s[i] \in Cell /\ s[i] # c /\ Inside(s[i], c)
    BY <1>1, <1>6, <1>9, <2>1
  <2> QED
    BY <1>1, <2>2, HalvedCell
<1>12. a \in Cell /\ b \in Cell /\ 2 * lsb(a) = lsb(c) /\ 2 * lsb(b) = lsb(c) /\ lsb(a) \in Nat /\ lsb(b) \in Nat
  BY <1>1, <1>11, ChildCells, CellSize
<1>13. \A h \in i..m-1 : Inside(s[h], a)
  <2> SUFFICES ASSUME NEW h \in i..m-1 PROVE Inside(s[h], a)
    OBVIOUS
  <2>1. h \in i..j-1 /\ s[h] < c
    BY <1>1, <1>5
  <2> QED
    BY <1>1, <1>6, <1>9, <2>1, HalvedCell
<1>14. \A h \in m..j-1 : Inside(s[h], b)
  <2> SUFFICES ASSUME NEW h \in m..j-1 PROVE Inside(s[h], b)
    OBVIOUS
  <2>1. h \in i..j-1 /\ ~(s[h] < c)
    BY <1>1, <1>5, <1>10
  <2> QED
    BY <1>1, <1>6, <1>9, <2>1, HalvedCell
<1> HIDE DEF a, b
<1>15. grain <= lsb(a) /\ grain <= lsb(b)
  BY <1>1, <1>12
<1>16. GoodArgs(s, grain, TreeLeft(s, x)) /\ GoodArgs(s, grain, TreeRight(s, x))
  BY <1>2, <1>3, <1>5, <1>13, <1>14, <1>15 DEF GoodArgs
<1>17. m \in i..j
  BY <1>1, <1>5
<1> QED
  BY <1>11, <1>16, <1>17 DEF m, i, j, c

\* A call returns a good tree if the calls it makes do.
LEMMA GoodStep ==
  ASSUME NEW s, Ordered(s), NEW grain \in 0..Limit-1, NEW x, GoodArgs(s, grain, x), NEW f,
         GoodArgs(s, grain, TreeLeft(s, x)) /\ lsb(TreeLeft(s, x)[3]) < lsb(x[3]) =>
           GoodTree(f[TreeLeft(s, x)], s, grain, TreeLeft(s, x)),
         GoodArgs(s, grain, TreeRight(s, x)) /\ lsb(TreeRight(s, x)[3]) < lsb(x[3]) =>
           GoodTree(f[TreeRight(s, x)], s, grain, TreeRight(s, x))
  PROVE  GoodTree(TreeStep(f, s, grain, x), s, grain, x)
<1> DEFINE i == x[1]
           j == x[2]
           c == x[3]
           m == search(s, i, j - 1, c)
           a == children(c)[1]
           b == children(c)[2]
           l == f[<<i, m, a>>]
           r == f[<<m, j, b>>]
           E == Part(s, i, j)
           t == TreeStep(f, s, grain, x)
<1>1. /\ i \in 1..Len(s)+1 /\ j \in 1..Len(s)+1 /\ c \in Cell /\ i <= j /\ grain <= lsb(c) /\ grain \in Nat
      /\ Limit \in Nat \ {0} /\ lsb(c) \in Nat
  <2>1. i \in 1..Len(s)+1 /\ j \in 1..Len(s)+1 /\ c \in Cell /\ i <= j /\ grain <= lsb(c)
    BY DEF GoodArgs, TreeArgs
  <2> QED
    BY <2>1, ShiftedPositive, CellSize
<1>2. Word(2 * grain) = 2 * grain
  <2>1. 2 * grain \in 0..2*Limit-1
    BY <1>1
  <2> QED
    BY <2>1, WordIs
<1>3. t = IF i = j THEN NoTree
          ELSE IF lsb(c) < 2 * grain THEN Single(c, Leaf(c, Count(SubSeq(s, i, j - 1))))
          ELSE IF i + 1 = j THEN Single(c, Leaf(Raised(s[i], grain), lsb(s[i])))
          ELSE IF l.top = 0 THEN r ELSE IF r.top = 0 THEN l ELSE Joined(c, l, r)
  BY <1>2 DEF TreeStep
<1>4. TreeLeft(s, x) = <<i, m, a>> /\ TreeRight(s, x) = <<m, j, b>>
  BY DEF TreeLeft, TreeRight
<1>5. CASE i = j
  BY <1>3, <1>5 DEF GoodTree
<1>6. CASE i # j /\ lsb(c) < 2 * grain
  <2>1. Grown(Single(c, Leaf(c, Count(SubSeq(s, i, j - 1)))), c, grain, E)
    BY <1>1, <1>6, CoarseLeaf
  <2>2. t = Single(c, Leaf(c, Count(SubSeq(s, i, j - 1))))
    BY <1>3, <1>6
  <2> QED
    BY <1>6, <2>1, <2>2 DEF GoodTree
<1>7. CASE i # j /\ ~(lsb(c) < 2 * grain) /\ i + 1 = j
  <2>1. 2 * grain <= lsb(c)
    BY <1>1, <1>7
  <2>2. Grown(Single(c, Leaf(Raised(s[i], grain), lsb(s[i]))), c, grain, E)
    BY <1>1, <1>7, <2>1, LoneLeaf
  <2>3. t = Single(c, Leaf(Raised(s[i], grain), lsb(s[i])))
    BY <1>3, <1>7
  <2> QED
    BY <1>7, <2>2, <2>3 DEF GoodTree
<1>8. CASE i # j /\ ~(lsb(c) < 2 * grain) /\ i + 1 # j
  <2>1. 2 * grain <= lsb(c)
    BY <1>1, <1>8
  <2>2. m \in i..j /\ lsb(c) # 1 /\ GoodArgs(s, grain, <<i, m, a>>) /\ GoodArgs(s, grain, <<m, j, b>>)
    BY <1>1, <1>4, <1>8, <2>1, GoodCalls
  <2>3. /\ a \in Cell /\ b \in Cell /\ begin(a) = begin(c) /\ end(a) = begin(b) /\ end(b) = end(c)
        /\ 2 * lsb(a) = lsb(c) /\ 2 * lsb(b) = lsb(c)
    BY <1>1, <2>2, ChildCells
  <2>4. lsb(a) \in Nat \ {0} /\ lsb(b) \in Nat \ {0}
    BY <2>3, CellSize
  <2>5. lsb(a) < lsb(c) /\ lsb(b) < lsb(c)
    <3> HIDE DEF a, b, c
    <3> QED
      BY <2>3, <2>4
  <2>6. Inside(a, c) /\ Inside(b, c)
    <3>1. begin(a) < end(a) /\ begin(b) < end(b) /\ begin(a) \in Nat /\ end(a) \in Nat /\ begin(b) \in Nat
          /\ end(b) \in Nat
      BY <2>3, CellBounds
    <3> HIDE DEF a, b, c
    <3> QED
      BY <2>3, <3>1 DEF Inside
  <2>7. GoodTree(l, s, grain, <<i, m, a>>) /\ GoodTree(r, s, grain, <<m, j, b>>)
    BY <1>4, <2>2, <2>5
  <2>8. t = IF l.top = 0 THEN r ELSE IF r.top = 0 THEN l ELSE Joined(c, l, r)
    BY <1>3, <1>8
  <2> HIDE DEF a, b, l, r, t, m, i, j, c
  <2>9. /\ i = m => l = NoTree
        /\ i # m => Grown(l, a, grain, Part(s, i, m))
        /\ m = j => r = NoTree
        /\ m # j => Grown(r, b, grain, Part(s, m, j))
    BY <2>7 DEF GoodTree
  <2>10. i \in Nat /\ j \in Nat /\ m \in Nat /\ i <= m /\ m <= j
    BY <1>1, <2>2
  <2>11. NoTree.top = 0
    BY DEF NoTree
  <2>12. Grown(t, c, grain, E)
    <3>1. CASE i = m
      <4>1. t = r /\ m # j /\ E = Part(s, m, j)
        BY <1>8, <2>8, <2>9, <2>11, <3>1 DEF E
      <4>2. Grown(r, c, grain, E)
        BY <1>1, <2>3, <2>6, <2>9, <4>1, GrownWider
      <4> QED
        BY <4>1, <4>2
    <3>2. CASE m = j
      <4>1. i # m /\ E = Part(s, i, m)
        BY <1>8, <3>2 DEF E
      <4>2. Grown(l, c, grain, E) /\ l.top # 0
        BY <1>1, <2>3, <2>6, <2>9, <4>1, GrownWider
      <4>3. t = l
        BY <2>8, <2>9, <2>11, <3>2, <4>2
      <4> QED
        BY <4>2, <4>3
    <3>3. CASE i # m /\ m # j
      <4>1. Grown(l, a, grain, Part(s, i, m)) /\ Grown(r, b, grain, Part(s, m, j))
        BY <2>9, <3>3
      <4>2. l.top # 0 /\ r.top # 0
        BY <1>1, <2>3, <2>6, <4>1, GrownWider
      <4>3. Grown(Joined(c, l, r), c, grain, Part(s, i, m) \cup Part(s, m, j))
        BY <1>1, <2>2, <4>1, JoinedGrown DEF a, b
      <4>4. E = Part(s, i, m) \cup Part(s, m, j)
        BY <2>10, PartSplit DEF E
      <4> QED
        BY <2>8, <4>2, <4>3, <4>4
    <3> QED
      BY <3>1, <3>2, <3>3
  <2> QED
    BY <1>8, <2>12 DEF GoodTree, i, j, c, t
<1> QED
  BY <1>5, <1>6, <1>7, <1>8

\* shape (lines 34-81) builds a tree that holds the set, unless it is empty, and whose inner
\* nodes know what they would waste.
THEOREM TreeGrown ==
  ASSUME NEW s, Ordered(s), NEW grain \in 0..Limit-1
  PROVE  /\ s = <<>> => Tree(s, grain) = NoTree
         /\ s # <<>> => Grown(Tree(s, grain), unity, grain, Elements(s))
<1> DEFINE f == CHOOSE g : Builds(g, s, grain)
           S == TreeArgs(s)
           m == [x \in S |-> lsb(x[3])]
           U == {x \in S : GoodArgs(s, grain, x) => GoodTree(f[x], s, grain, x)}
<1>0. s \in Seq(Cell) /\ Len(s) \in Nat /\ DOMAIN s = 1..Len(s) /\ grain \in Nat /\ Limit \in Nat \ {0}
  BY ShiftedPositive DEF Ordered
<1>1. Builds(f, s, grain)
  <2>1. \E g : Builds(g, s, grain)
    BY <1>0, TreeExists
  <2> QED
    BY <2>1
<1>2. Tree(s, grain) = f[<<1, Len(s) + 1, unity>>]
  BY TreeUnfolds
<1> HIDE DEF f
<1>3. \A x \in S : f[x] = TreeStep(f, s, grain, x)
  BY <1>1 DEF Builds
<1>4. m \in [S -> Nat]
  BY CellSize DEF TreeArgs
<1>5. \A x \in S : (\A y \in S : m[y] < m[x] => y \in U) => x \in U
  <2> SUFFICES ASSUME NEW x \in S, \A y \in S : m[y] < m[x] => y \in U, GoodArgs(s, grain, x)
               PROVE  GoodTree(f[x], s, grain, x)
    OBVIOUS
  <2> DEFINE p == TreeLeft(s, x)
             q == TreeRight(s, x)
  <2>1. p \in S /\ q \in S
    BY <1>0, TreeCalls
  <2>2. m[p] = lsb(p[3]) /\ m[q] = lsb(q[3]) /\ m[x] = lsb(x[3])
    BY <2>1
  <2> HIDE DEF p, q, m, S
  <2>3. GoodArgs(s, grain, p) /\ lsb(p[3]) < lsb(x[3]) => GoodTree(f[p], s, grain, p)
    BY <2>1, <2>2
  <2>4. GoodArgs(s, grain, q) /\ lsb(q[3]) < lsb(x[3]) => GoodTree(f[q], s, grain, q)
    BY <2>1, <2>2
  <2>5. GoodTree(TreeStep(f, s, grain, x), s, grain, x)
    BY <2>3, <2>4, GoodStep DEF p, q
  <2> QED
    BY <1>3, <2>5
<1> HIDE DEF U, m
<1>6. \A x \in S : x \in U
  BY <1>4, <1>5, MeasureInduction
<1> DEFINE x == <<1, Len(s) + 1, unity>>
<1>7. unity \in Cell /\ lsb(unity) = Limit /\ begin(unity) = 0 /\ end(unity) = Limit
  <2>1. unity \in Cell
    BY <1>0 DEF unity, Cell
  <2>2. begin(unity) = 0 /\ end(unity) = Limit
    BY <2>1, CellNamed
  <2> QED
    BY <1>0, <2>1, <2>2, CellSize
<1>8. x \in S /\ x[1] = 1 /\ x[2] = Len(s) + 1 /\ x[3] = unity
  BY <1>0, <1>7 DEF TreeArgs
<1>9. \A h \in 1..Len(s) : Inside(s[h], unity)
  <2> SUFFICES ASSUME NEW h \in 1..Len(s) PROVE Inside(s[h], unity)
    OBVIOUS
  <2>1. s[h] \in Cell
    BY <1>0
  <2> QED
    BY <1>7, <2>1, CellSize DEF Inside
<1>10. GoodArgs(s, grain, x)
  <2>1. (Len(s) + 1) - 1 = Len(s) /\ 1 <= Len(s) + 1 /\ grain <= Limit
    BY <1>0
  <2> HIDE DEF x
  <2> QED
    BY <1>7, <1>8, <1>9, <2>1 DEF GoodArgs
<1> HIDE DEF x
<1>11. GoodTree(f[x], s, grain, x)
  BY <1>6, <1>8, <1>10 DEF U
<1>12. s = <<>> <=> 1 = Len(s) + 1
  BY <1>0
<1>13. Part(s, 1, Len(s) + 1) = Elements(s)
  <2>1. (Len(s) + 1) - 1 = Len(s)
    BY <1>0
  <2> QED
    BY <1>0, <2>1 DEF Part, Elements
<1>14. Tree(s, grain) = f[x]
  BY <1>2 DEF x
<1> QED
  BY <1>8, <1>11, <1>12, <1>13, <1>14 DEF GoodTree

-----------------------------------------------------------------------------
(* Cover: the live leaves.                                                 *)

\* Nested cells are the same.
LEMMA InsideSame ==
  ASSUME NEW c \in Cell, NEW d \in Cell, Inside(c, d), Inside(d, c)
  PROVE  c = d
<1>1. lsb(c) <= lsb(d) /\ lsb(d) <= lsb(c) /\ lsb(c) \in Nat /\ lsb(d) \in Nat
  BY InsideSize, CellSize
<1> QED
  BY <1>1, SameCell

\* Lying in a cell is transitive.
LEMMA InsideTrans ==
  ASSUME NEW a \in Cell, NEW b \in Cell, NEW c \in Cell, Inside(a, b), Inside(b, c)
  PROVE  Inside(a, c)
<1>1. \A n \in Cell : begin(n) \in Nat /\ end(n) \in Nat
  BY CellSize
<1> QED
  BY <1>1 DEF Inside

\* Of two cells that hold the same cell, one holds the other.
LEMMA InsideBoth ==
  ASSUME NEW a \in Cell, NEW b \in Cell, NEW c \in Cell, Inside(a, b), Inside(a, c)
  PROVE  Inside(b, c) \/ Inside(c, b)
<1>1. \A n \in Cell : begin(n) \in Nat /\ end(n) \in Nat /\ begin(n) < end(n)
  BY CellBounds
<1>2. begin(c) < end(b) /\ begin(b) < end(c)
  BY <1>1 DEF Inside
<1> QED
  BY <1>2, Laminar

\* The children of an inner node are two other nodes, one in front of the other.
LEMMA ChildNodes ==
  ASSUME NEW sh, DOMAIN sh \subseteq Cell, NEW n \in DOMAIN sh, BranchesAt(sh, n), sh[n].il # 0
  PROVE  LET a == sh[n].il
             b == sh[n].ir
         IN  /\ Halves(sh, n, a, b) /\ a \in DOMAIN sh /\ b \in DOMAIN sh
             /\ Inside(a, n) /\ Inside(b, n) /\ lsb(a) < lsb(n) /\ lsb(b) < lsb(n) /\ a # n /\ b # n
             /\ end(a) <= begin(b) /\ \A k \in Cell : ~(Inside(k, a) /\ Inside(k, b))
<1> DEFINE a == sh[n].il
           b == sh[n].ir
<1>1. Halves(sh, n, a, b)
  BY DEF BranchesAt
<1> HIDE DEF a, b
<1>2. a \in Cell /\ b \in Cell /\ n \in Cell /\ a \in DOMAIN sh /\ b \in DOMAIN sh
  BY <1>1 DEF Halves
<1>3. \A k \in Cell : begin(k) \in Nat /\ end(k) \in Nat /\ begin(k) < end(k) /\ lsb(k) = end(k) - begin(k)
  BY CellBounds, CellSize
<1>4. begin(n) <= begin(a) /\ 2 * end(a) <= begin(n) + end(n) /\ begin(n) + end(n) <= 2 * begin(b) /\ end(b) <= end(n)
  BY <1>1 DEF Halves
<1>5. Inside(a, n) /\ Inside(b, n) /\ lsb(a) < lsb(n) /\ lsb(b) < lsb(n) /\ end(a) <= begin(b)
  BY <1>2, <1>3, <1>4 DEF Inside
<1>6. a # n /\ b # n
  BY <1>2, <1>3, <1>5
<1>7. \A k \in Cell : ~(Inside(k, a) /\ Inside(k, b))
  BY <1>2, <1>3, <1>5 DEF Inside
<1> QED
  BY <1>1, <1>2, <1>5, <1>6, <1>7 DEF a, b

\* No node above n is a leaf.
Exposed(sh, n) == \A p \in DOMAIN sh : Inside(n, p) /\ p # n => sh[p].il # 0

\* The live leaves below n.
LiveUnder(sh, n) == {k \in Live(sh) : Inside(k, n)}

\* Nothing is above the root, and everything is below it.
LEMMA ExposedRoot ==
  ASSUME NEW sh, NEW r, Rises(sh, r)
  PROVE  Exposed(sh, r) /\ LiveUnder(sh, r) = Live(sh) /\ r \in DOMAIN sh /\ r \in Cell
<1>1. DOMAIN sh \subseteq Cell /\ r \in DOMAIN sh /\ \A n \in DOMAIN sh : Inside(n, r)
  BY DEF Rises
<1>2. \A p \in DOMAIN sh : Inside(r, p) => p = r
  <2> SUFFICES ASSUME NEW p \in DOMAIN sh, Inside(r, p) PROVE p = r
    OBVIOUS
  <2>1. p \in Cell /\ r \in Cell /\ Inside(p, r)
    BY <1>1
  <2> QED
    BY <2>1, InsideSame
<1> QED
  BY <1>1, <1>2 DEF Exposed, LiveUnder, Live

\* A node with no leaf above it is not removed.
LEMMA ExposedKept ==
  ASSUME NEW sh, NEW r, Rises(sh, r), NEW grain, Grained(sh, grain), NEW n \in DOMAIN sh, Exposed(sh, n)
  PROVE  /\ sh[n].c # 0 /\ sh[n].c \in Cell /\ Inside(sh[n].c, n)
         /\ lsb(sh[n].c) >= grain \/ sh[n].c = unity
<1>1. sh[n].c # 0
  <2>1. CASE n = r
    BY <2>1 DEF Rises
  <2>2. CASE n # r
    BY <2>2 DEF Rises, RisesAt, Exposed
  <2> QED
    BY <2>1, <2>2
<1> QED
  BY <1>1 DEF Grained

\* The children of such an inner node are such nodes, and share out its live leaves.
LEMMA ExposedChildren ==
  ASSUME NEW sh, DOMAIN sh \subseteq Cell, NEW n \in DOMAIN sh, BranchesAt(sh, n), sh[n].il # 0, Exposed(sh, n)
  PROVE  /\ Exposed(sh, sh[n].il) /\ Exposed(sh, sh[n].ir)
         /\ LiveUnder(sh, n) = LiveUnder(sh, sh[n].il) \cup LiveUnder(sh, sh[n].ir)
         /\ LiveUnder(sh, sh[n].il) \cap LiveUnder(sh, sh[n].ir) = {}
<1> DEFINE a == sh[n].il
           b == sh[n].ir
<1>1. /\ Halves(sh, n, a, b) /\ a \in DOMAIN sh /\ b \in DOMAIN sh
      /\ Inside(a, n) /\ Inside(b, n) /\ a # n /\ b # n
      /\ \A k \in Cell : ~(Inside(k, a) /\ Inside(k, b))
  BY ChildNodes
<1> HIDE DEF a, b
<1>2. a \in Cell /\ b \in Cell /\ n \in Cell
  BY <1>1
<1>3. \A k \in DOMAIN sh : Inside(k, n) /\ k # n => Inside(k, a) \/ Inside(k, b)
  BY <1>1 DEF Halves
<1>4. ASSUME NEW x \in {a, b}, NEW p \in DOMAIN sh, Inside(x, p), p # x PROVE sh[p].il # 0
  <2>0. p \in Cell /\ x \in Cell /\ Inside(x, n)
    BY <1>1, <1>2
  <2>1. Inside(n, p) \/ Inside(p, n)
    BY <1>2, <1>4, <2>0, InsideBoth
  <2>2. p = n => sh[p].il # 0
    OBVIOUS
  <2>3. Inside(n, p) /\ p # n => sh[p].il # 0
    BY DEF Exposed
  <2>4. ASSUME Inside(p, n), p # n PROVE FALSE
    <3>1. PICK y \in {a, b} : Inside(p, y)
      BY <1>3, <2>4
    <3>2. Inside(x, y) /\ y \in Cell
      BY <1>2, <1>4, <2>0, <3>1, InsideTrans
    <3>3. Inside(x, x)
      BY <2>0, CellSize DEF Inside
    <3>4. x = y
      BY <1>1, <2>0, <3>2, <3>3
    <3>5. p = x
      BY <1>4, <2>0, <3>1, <3>4, InsideSame
    <3> QED
      BY <1>4, <3>5
  <2> QED
    BY <2>1, <2>2, <2>3, <2>4
<1>5. Exposed(sh, a) /\ Exposed(sh, b)
  BY <1>4 DEF Exposed
<1>6. LiveUnder(sh, n) = LiveUnder(sh, a) \cup LiveUnder(sh, b)
  <2>1. \A k \in Live(sh) : k \in DOMAIN sh /\ k \in Cell /\ k # n
    BY DEF Live, a
  <2>2. \A k \in Live(sh) : Inside(k, n) <=> Inside(k, a) \/ Inside(k, b)
    <3>1. \A k \in Live(sh) : Inside(k, a) \/ Inside(k, b) => Inside(k, n)
      BY <1>1, <1>2, <2>1, InsideTrans
    <3> QED
      BY <1>3, <2>1, <3>1
  <2> QED
    BY <2>2 DEF LiveUnder
<1>7. LiveUnder(sh, a) \cap LiveUnder(sh, b) = {}
  <2>1. \A k \in Live(sh) : k \in Cell
    BY DEF Live
  <2> QED
    BY <1>1, <2>1 DEF LiveUnder
<1> QED
  BY <1>5, <1>6, <1>7 DEF a, b

\* A leaf of that kind is the live leaf.
LEMMA ExposedLeaf ==
  ASSUME NEW sh, DOMAIN sh \subseteq Cell, NEW n \in DOMAIN sh, sh[n].il = 0, Exposed(sh, n)
  PROVE  LiveUnder(sh, n) = {n}
<1>1. n \in Live(sh) /\ Inside(n, n)
  BY CellSize DEF Live, Exposed, Inside
<1>2. \A k \in Live(sh) : Inside(k, n) => k = n
  BY DEF Live
<1> QED
  BY <1>1, <1>2 DEF LiveUnder

\* f goes down the tree: it is base at the leaves, and combines by op what it has below.
Descends(f, sh, base, op) ==
  \A k \in DOMAIN sh : f[k] = IF sh[k].il = 0 THEN base[k] ELSE op[f[sh[k].il]][f[sh[k].ir]]

\* There is a function that goes down the tree.
LEMMA DescentExists ==
  ASSUME NEW sh, DOMAIN sh \subseteq Cell, Branches(sh), NEW R, NEW r, r \in R,
         NEW base, base \in [DOMAIN sh -> R], NEW op, op \in [R -> [R -> R]]
  PROVE  \E f \in [DOMAIN sh -> R] : Descends(f, sh, base, op)
<1> DEFINE S == DOMAIN sh
           Turn(f, k) == IF sh[k].il = 0 THEN base[k] ELSE op[f[sh[k].il]][f[sh[k].ir]]
           G == [k \in S |-> [f \in [S -> R] |-> Turn(f, k)]]
           m == [k \in S |-> lsb(k)]
           b == Limit + 1
<1>1. b \in Nat
  BY ShiftedPositive
<1>2. m \in [S -> Nat] /\ \A k \in S : m[k] < b
  <2>1. \A k \in S : lsb(k) \in Nat /\ lsb(k) <= Limit /\ Limit \in Nat
    BY CellSize, ShiftedPositive
  <2>2. \A k \in S : lsb(k) \in Nat /\ lsb(k) < b
    BY <2>1
  <2> HIDE DEF b, S
  <2> QED
    BY <2>2
<1>3. \A k \in S : sh[k].il # 0 => /\ sh[k].il \in S /\ sh[k].ir \in S
                                   /\ m[sh[k].il] < m[k] /\ m[sh[k].ir] < m[k]
  <2> SUFFICES ASSUME NEW k \in S, sh[k].il # 0
               PROVE  sh[k].il \in S /\ sh[k].ir \in S /\ m[sh[k].il] < m[k] /\ m[sh[k].ir] < m[k]
    OBVIOUS
  <2>1. BranchesAt(sh, k)
    BY DEF Branches
  <2> QED
    BY <2>1, ChildNodes
<1>4. \A k \in S : \A f \in [S -> R] : Turn(f, k) \in R
  <2> SUFFICES ASSUME NEW k \in S, NEW f \in [S -> R] PROVE Turn(f, k) \in R
    OBVIOUS
  <2>1. CASE sh[k].il = 0
    BY <2>1
  <2>2. CASE sh[k].il # 0
    <3>1. f[sh[k].il] \in R /\ f[sh[k].ir] \in R
      BY <1>3, <2>2
    <3> QED
      BY <2>2, <3>1
  <2> QED
    BY <2>1, <2>2
<1>5. G \in [S -> [[S -> R] -> R]] /\ \A k \in S : \A f \in [S -> R] : G[k][f] = Turn(f, k)
  <2> HIDE DEF S, Turn
  <2> QED
    BY <1>4
<1>6. \A k \in S : \A f, g \in [S -> R] :
        (\A y \in S : m[y] < m[k] => f[y] = g[y]) => G[k][f] = G[k][g]
  <2> SUFFICES ASSUME NEW k \in S, NEW f \in [S -> R], NEW g \in [S -> R],
                      \A y \in S : m[y] < m[k] => f[y] = g[y]
               PROVE  G[k][f] = G[k][g]
    OBVIOUS
  <2>1. Turn(f, k) = Turn(g, k)
    <3> HIDE DEF m
    <3> QED
      BY <1>3
  <2> HIDE DEF S, G, m, Turn
  <2>2. G[k][f] = Turn(f, k) /\ G[k][g] = Turn(g, k)
    BY <1>5
  <2> QED
    BY <2>1, <2>2
<1>7. Looks(G, S, R, m, b)
  <2> HIDE DEF S, G, m, b, Turn
  <2> QED
    BY <1>2, <1>5, <1>6 DEF Looks
<1>8. PICK f \in [S -> R] : \A k \in S : f[k] = G[k][f]
  <2> HIDE DEF S, G, m, b, Turn
  <2>1. r \in R
    OBVIOUS
  <2>2. \E f \in [S -> R] : \A k \in S : f[k] = G[k][f]
    BY ONLY <1>1, <1>7, <2>1, WideRecursionExists
  <2> QED
    BY <2>2
<1>9. \A k \in S : f[k] = Turn(f, k)
  BY <1>5, <1>8
<1> QED
  BY <1>9 DEF Descends

\* The functions getLeaves and LiveLeaves compute with.
Gets(get, sh) ==
  get = [k \in DOMAIN sh |-> IF sh[k].il = 0 THEN <<sh[k].c>> ELSE get[sh[k].il] \o get[sh[k].ir]]

\* below is a function LiveLeaves computes with.
Belows(below, sh) ==
  below = [n \in DOMAIN sh |-> IF sh[n].il = 0 THEN {n} ELSE below[sh[n].il] \cup below[sh[n].ir]]

\* getLeaves is such a function, applied to a node.
LEMMA GetsUnfolds ==
  ASSUME NEW n
  PROVE  getLeaves(n) = (CHOOSE get : Gets(get, shape))[n]
  BY DEF getLeaves, isLeaf, Gets

\* LiveLeaves is one, applied to the root.
LEMMA BelowsUnfolds ==
  LiveLeaves = (CHOOSE below : Belows(below, shape))[root]
  BY DEF LiveLeaves, isLeaf, Belows

\* There is a function that getLeaves computes with.
LEMMA GetsExists ==
  ASSUME NEW sh, sh \in [DOMAIN sh -> Node], DOMAIN sh \subseteq Cell, Branches(sh)
  PROVE  \E get : Gets(get, sh)
<1> DEFINE R == Seq(Cell \cup {0})
           base == [k \in DOMAIN sh |-> <<sh[k].c>>]
           op == [x \in R |-> [y \in R |-> x \o y]]
<1>1. base \in [DOMAIN sh -> R]
  <2>1. \A k \in DOMAIN sh : sh[k].c \in Cell \cup {0}
    BY DEF Node
  <2> QED
    BY <2>1
<1>2. op \in [R -> [R -> R]] /\ \A x, y \in R : op[x][y] = x \o y
  <2>1. \A x, y \in R : x \o y \in R
    BY ConcatProperties
  <2> HIDE DEF R
  <2> QED
    BY <2>1
<1>3. <<>> \in R
  OBVIOUS
<1> HIDE DEF R, op, base
<1>4. PICK f \in [DOMAIN sh -> R] : Descends(f, sh, base, op)
  BY <1>1, <1>2, <1>3, DescentExists
<1>5. \A k \in DOMAIN sh : f[k] = IF sh[k].il = 0 THEN <<sh[k].c>> ELSE f[sh[k].il] \o f[sh[k].ir]
  <2> SUFFICES ASSUME NEW k \in DOMAIN sh
               PROVE  f[k] = IF sh[k].il = 0 THEN <<sh[k].c>> ELSE f[sh[k].il] \o f[sh[k].ir]
    OBVIOUS
  <2>1. sh[k].il # 0 => sh[k].il \in DOMAIN sh /\ sh[k].ir \in DOMAIN sh
    BY DEF Branches, BranchesAt, Halves
  <2>2. base[k] = <<sh[k].c>>
    BY DEF base
  <2> QED
    BY <1>2, <1>4, <2>1, <2>2 DEF Descends
<1>6. f = [k \in DOMAIN sh |-> f[k]]
  OBVIOUS
<1> QED
  BY <1>5, <1>6 DEF Gets

\* There is one that LiveLeaves computes with.
LEMMA BelowsExists ==
  ASSUME NEW sh, DOMAIN sh \subseteq Cell, Branches(sh)
  PROVE  \E below : Belows(below, sh)
<1> DEFINE R == SUBSET DOMAIN sh
           base == [k \in DOMAIN sh |-> {k}]
           op == [x \in R |-> [y \in R |-> x \cup y]]
<1>1. base \in [DOMAIN sh -> R]
  OBVIOUS
<1>2. op \in [R -> [R -> R]] /\ \A x, y \in R : op[x][y] = x \cup y
  <2>1. \A x, y \in R : x \cup y \in R
    OBVIOUS
  <2> HIDE DEF R
  <2> QED
    BY <2>1
<1>3. {} \in R
  OBVIOUS
<1> HIDE DEF R, op, base
<1>4. PICK f \in [DOMAIN sh -> R] : Descends(f, sh, base, op)
  BY <1>1, <1>2, <1>3, DescentExists
<1>5. \A k \in DOMAIN sh : f[k] = IF sh[k].il = 0 THEN {k} ELSE f[sh[k].il] \cup f[sh[k].ir]
  <2> SUFFICES ASSUME NEW k \in DOMAIN sh
               PROVE  f[k] = IF sh[k].il = 0 THEN {k} ELSE f[sh[k].il] \cup f[sh[k].ir]
    OBVIOUS
  <2>1. sh[k].il # 0 => sh[k].il \in DOMAIN sh /\ sh[k].ir \in DOMAIN sh
    BY DEF Branches, BranchesAt, Halves
  <2>2. base[k] = {k}
    BY DEF base
  <2> QED
    BY <1>2, <1>4, <2>1, <2>2 DEF Descends
<1>6. f = [k \in DOMAIN sh |-> f[k]]
  OBVIOUS
<1> QED
  BY <1>5, <1>6 DEF Belows

\* What getLeaves makes of a node n: the cells of the live leaves below it, in order.
GetIs(list, sh, n) ==
  /\ Between(list, begin(n), end(n))
  /\ IsFiniteSet(LiveUnder(sh, n)) /\ Len(list) = Cardinality(LiveUnder(sh, n))
  /\ \A h \in DOMAIN list : \E k \in LiveUnder(sh, n) : list[h] = sh[k].c
  /\ \A k \in LiveUnder(sh, n) : \E h \in DOMAIN list : list[h] = sh[k].c

\* What it makes of a leaf.
LEMMA GetLeaf ==
  ASSUME NEW sh, DOMAIN sh \subseteq Cell, NEW n \in DOMAIN sh, sh[n].il = 0, Exposed(sh, n),
         sh[n].c \in Cell, Inside(sh[n].c, n)
  PROVE  GetIs(<<sh[n].c>>, sh, n)
<1> DEFINE c == sh[n].c
           t == <<c>>
<1>1. LiveUnder(sh, n) = {n}
  BY ExposedLeaf
<1>2. IsFiniteSet({n}) /\ Cardinality({n}) = 1
  BY FS_Singleton
<1> HIDE DEF c
<1>3. c \in Cell
  BY DEF c
<1>4. t \in Seq(Cell) /\ Len(t) = 1 /\ DOMAIN t = {1} /\ t[1] = c
  BY <1>3
<1>5. Ordered(t)
  <2>1. 1..Len(t)-1 = {}
    BY <1>4
  <2> HIDE DEF t
  <2> QED
    BY <1>4, <2>1 DEF Ordered
<1> HIDE DEF t
<1>6. Between(t, begin(n), end(n))
  BY <1>4, <1>5 DEF Between, Inside, c
<1>7. GetIs(t, sh, n)
  BY <1>1, <1>2, <1>4, <1>6 DEF GetIs, c
<1> QED
  BY <1>7 DEF t, c

\* What it makes of an inner node.
LEMMA GetInner ==
  ASSUME NEW sh, DOMAIN sh \subseteq Cell, NEW n \in DOMAIN sh, BranchesAt(sh, n), sh[n].il # 0, Exposed(sh, n),
         NEW s, GetIs(s, sh, sh[n].il), NEW t, GetIs(t, sh, sh[n].ir)
  PROVE  GetIs(s \o t, sh, n)
<1> DEFINE a == sh[n].il
           b == sh[n].ir
           X == LiveUnder(sh, a)
           Y == LiveUnder(sh, b)
           r == s \o t
<1>1. /\ a \in DOMAIN sh /\ b \in DOMAIN sh /\ Inside(a, n) /\ Inside(b, n) /\ end(a) <= begin(b)
  BY ChildNodes
<1>2. LiveUnder(sh, n) = X \cup Y /\ X \cap Y = {}
  BY ExposedChildren
<1>3. /\ Between(s, begin(a), end(a)) /\ IsFiniteSet(X) /\ Len(s) = Cardinality(X)
      /\ Between(t, begin(b), end(b)) /\ IsFiniteSet(Y) /\ Len(t) = Cardinality(Y)
      /\ \A h \in DOMAIN s : \E k \in X : s[h] = sh[k].c
      /\ \A h \in DOMAIN t : \E k \in Y : t[h] = sh[k].c
      /\ \A k \in X : \E h \in DOMAIN s : s[h] = sh[k].c
      /\ \A k \in Y : \E h \in DOMAIN t : t[h] = sh[k].c
  BY DEF GetIs
<1> HIDE DEF a, b, X, Y
<1>4. a \in Cell /\ b \in Cell /\ n \in Cell
  BY <1>1
<1>5. /\ begin(n) \in Nat /\ end(n) \in Nat /\ begin(a) \in Nat /\ end(a) \in Nat /\ begin(b) \in Nat /\ end(b) \in Nat
      /\ begin(a) < end(a) /\ begin(b) < end(b) /\ begin(n) <= begin(a) /\ end(b) <= end(n)
  BY <1>1, <1>4, CellBounds DEF Inside
<1>6. /\ s \in Seq(Cell) /\ t \in Seq(Cell) /\ Len(s) \in Nat /\ Len(t) \in Nat
      /\ DOMAIN s = 1..Len(s) /\ DOMAIN t = 1..Len(t)
  BY <1>3 DEF Between, Ordered
<1>7. /\ \A h \in DOMAIN s : begin(s[h]) \in Nat /\ begin(a) <= begin(s[h])
      /\ \A h \in DOMAIN t : end(t[h]) \in Nat /\ end(t[h]) <= end(b)
  BY <1>3, <1>6, CellBounds DEF Between
<1>8. Between(r, begin(n), end(n))
  <2>1. Between(s, begin(n), end(a))
    BY <1>3, <1>5, <1>7 DEF Between
  <2>2. Between(t, begin(b), end(n))
    BY <1>3, <1>5, <1>7 DEF Between
  <2>3. begin(n) <= begin(b) /\ end(a) <= begin(b) /\ end(a) <= end(n)
    BY <1>1, <1>5
  <2> QED
    BY <1>5, <2>1, <2>2, <2>3, BetweenConcat
<1>9. /\ Len(r) = Len(s) + Len(t) /\ DOMAIN r = 1..Len(s) + Len(t)
      /\ \A h \in 1..Len(s) : r[h] = s[h]
      /\ \A h \in 1..Len(t) : r[Len(s) + h] = t[h]
  BY <1>6
<1> HIDE DEF r
<1>10. IsFiniteSet(X \cup Y) /\ Len(r) = Cardinality(X \cup Y)
  <2>1. IsFiniteSet(X \cup Y) /\ Cardinality(X \cup Y) = Cardinality(X) + Cardinality(Y) - Cardinality(X \cap Y)
    BY <1>3, FS_Union
  <2>2. Cardinality(X \cap Y) = 0
    BY <1>2, FS_EmptySet
  <2> QED
    BY <1>3, <1>6, <1>9, <2>1, <2>2
<1>11. ASSUME NEW h \in DOMAIN r PROVE \E k \in X \cup Y : r[h] = sh[k].c
  <2>1. CASE h \in 1..Len(s)
    BY <1>3, <1>6, <1>9, <2>1
  <2>2. CASE h \notin 1..Len(s)
    <3>1. h - Len(s) \in 1..Len(t) /\ h = Len(s) + (h - Len(s))
      BY <1>6, <1>9, <1>11, <2>2
    <3>2. r[h] = t[h - Len(s)]
      BY <1>9, <3>1
    <3> QED
      BY <1>3, <1>6, <3>1, <3>2
  <2> QED
    BY <2>1, <2>2
<1>12. ASSUME NEW k \in X \cup Y PROVE \E h \in DOMAIN r : r[h] = sh[k].c
  <2>1. CASE k \in X
    <3>1. PICK h \in 1..Len(s) : s[h] = sh[k].c
      BY <1>3, <1>6, <2>1
    <3> QED
      BY <1>6, <1>9, <3>1
  <2>2. CASE k \in Y
    <3>1. PICK h \in 1..Len(t) : t[h] = sh[k].c
      BY <1>3, <1>6, <2>2
    <3>2. Len(s) + h \in DOMAIN r /\ r[Len(s) + h] = sh[k].c
      BY <1>6, <1>9, <3>1
    <3> QED
      BY <3>2
  <2> QED
    BY <1>12, <2>1, <2>2
<1>13. GetIs(r, sh, n)
  BY <1>2, <1>8, <1>10, <1>11, <1>12 DEF GetIs
<1> QED
  BY <1>13 DEF r

\* A tree the loop works on, whatever it holds.
Tended(sh, r, grain) == sh \in [DOMAIN sh -> Node] /\ Rises(sh, r) /\ Branches(sh) /\ Grained(sh, grain)

\* getLeaves and LiveLeaves at an exposed node.
LEMMA LeavesAre ==
  ASSUME NEW sh, NEW r, NEW grain, Tended(sh, r, grain)
  PROVE  /\ GetIs((CHOOSE get : Gets(get, sh))[r], sh, r)
         /\ (CHOOSE below : Belows(below, sh))[r] = LiveUnder(sh, r)
<1> DEFINE S == DOMAIN sh
           get == CHOOSE get : Gets(get, sh)
           below == CHOOSE below : Belows(below, sh)
           m == [k \in S |-> lsb(k)]
           U == {k \in S : Exposed(sh, k) => GetIs(get[k], sh, k) /\ below[k] = LiveUnder(sh, k)}
<1>1. sh \in [S -> Node] /\ Rises(sh, r) /\ Branches(sh) /\ Grained(sh, grain) /\ S \subseteq Cell
  BY DEF Tended, Rises
<1>2. Gets(get, sh)
  BY <1>1, GetsExists
<1>3. Belows(below, sh)
  BY <1>1, BelowsExists
<1> HIDE DEF get, below
<1>4. m \in [S -> Nat]
  BY <1>1, CellSize
<1>5. \A k \in S : (\A y \in S : m[y] < m[k] => y \in U) => k \in U
  <2> SUFFICES ASSUME NEW k \in S, \A y \in S : m[y] < m[k] => y \in U, Exposed(sh, k)
               PROVE  GetIs(get[k], sh, k) /\ below[k] = LiveUnder(sh, k)
    OBVIOUS
  <2>1. BranchesAt(sh, k)
    BY <1>1 DEF Branches
  <2>2. CASE sh[k].il = 0
    <3>1. get[k] = <<sh[k].c>> /\ below[k] = {k}
      BY <1>2, <1>3, <2>2 DEF Gets, Belows
    <3>2. sh[k].c \in Cell /\ Inside(sh[k].c, k)
      BY <1>1, ExposedKept
    <3>3. GetIs(<<sh[k].c>>, sh, k)
      BY <1>1, <2>2, <3>2, GetLeaf
    <3>4. LiveUnder(sh, k) = {k}
      BY <1>1, <2>2, ExposedLeaf
    <3> QED
      BY <3>1, <3>3, <3>4
  <2>3. CASE sh[k].il # 0
    <3> DEFINE a == sh[k].il
               b == sh[k].ir
    <3>1. a \in S /\ b \in S /\ lsb(a) < lsb(k) /\ lsb(b) < lsb(k)
      BY <1>1, <2>1, <2>3, ChildNodes
    <3>2. Exposed(sh, a) /\ Exposed(sh, b) /\ LiveUnder(sh, k) = LiveUnder(sh, a) \cup LiveUnder(sh, b)
      BY <1>1, <2>1, <2>3, ExposedChildren
    <3>3. get[k] = get[a] \o get[b] /\ below[k] = below[a] \cup below[b]
      BY <1>2, <1>3, <2>3 DEF Gets, Belows
    <3> HIDE DEF a, b
    <3>4. a \in U /\ b \in U
      BY <3>1
    <3>5. /\ GetIs(get[a], sh, a) /\ below[a] = LiveUnder(sh, a)
          /\ GetIs(get[b], sh, b) /\ below[b] = LiveUnder(sh, b)
      BY <3>2, <3>4
    <3>6. GetIs(get[a] \o get[b], sh, k)
      BY <1>1, <2>1, <2>3, <3>5, GetInner DEF a, b
    <3> QED
      BY <3>2, <3>3, <3>5, <3>6
  <2> QED
    BY <2>2, <2>3
<1> HIDE DEF U, m
<1>6. \A k \in S : k \in U
  BY <1>4, <1>5, MeasureInduction
<1>7. r \in S /\ Exposed(sh, r)
  BY <1>1, ExposedRoot
<1>8. GetIs(get[r], sh, r) /\ below[r] = LiveUnder(sh, r)
  BY <1>6, <1>7 DEF U
<1> QED
  BY <1>8 DEF get, below

\* A cell and its sibling to the left make up their parent.
LEMMA SiblingHalves ==
  ASSUME NEW x \in Cell, NEW y \in Cell, x = sibling(y), end(x) <= begin(y)
  PROVE  \E p \in Cell : /\ Inside(x, p) /\ Inside(y, p) /\ x # p /\ y # p /\ end(x) = begin(y)
                         /\ lsb(p) = 2 * lsb(x) /\ lsb(p) = 2 * lsb(y) /\ p = 2 * end(x)
<1>1. /\ begin(x) \in Nat /\ end(x) \in Nat /\ begin(x) < end(x) /\ lsb(x) = end(x) - begin(x)
      /\ begin(y) \in Nat /\ end(y) \in Nat /\ begin(y) < end(y) /\ lsb(y) = end(y) - begin(y)
  BY CellSize, CellBounds
<1>2. y # unity
  <2> SUFFICES ASSUME y = unity PROVE FALSE
    OBVIOUS
  <2>1. x = y
    BY DEF sibling
  <2> QED
    BY <1>1, <2>1
<1> DEFINE p == parent(y)
<1>3. p \in Cell
  BY <1>2, Siblings
<1>4. begin(p) = begin(x) /\ end(x) = begin(y) /\ end(y) = end(p)
  <2>1. \/ /\ begin(p) = begin(y) /\ end(y) = begin(x) /\ end(x) = end(p)
        \/ /\ begin(p) = begin(x) /\ end(x) = begin(y) /\ end(y) = end(p)
    BY <1>2, Siblings
  <2> QED
    BY <1>1, <2>1
<1>5. end(p) - begin(p) = 2 * (end(y) - begin(y))
  <2>1. p # 0
    BY <1>3 DEF Cell
  <2> QED
    BY <2>1, ParentCell
<1>6. begin(p) \in Nat /\ end(p) \in Nat /\ lsb(p) = end(p) - begin(p) /\ p = begin(p) + end(p)
  BY <1>3, CellSize, CellNamed
<1> HIDE DEF p
<1>7. lsb(p) = 2 * lsb(x) /\ lsb(p) = 2 * lsb(y) /\ p = 2 * end(x)
  BY <1>1, <1>4, <1>5, <1>6
<1>8. Inside(x, p) /\ Inside(y, p) /\ x # p /\ y # p
  BY <1>1, <1>4, <1>6, <1>7 DEF Inside
<1> QED
  BY <1>3, <1>4, <1>7, <1>8

\* Of the nodes around a cell p, the parent of a node below p is the smallest.
LEMMA LeastParent ==
  ASSUME NEW sh, DOMAIN sh \subseteq Cell, NEW n \in DOMAIN sh, BranchesAt(sh, n), sh[n].il # 0,
         NEW b \in {sh[n].il, sh[n].ir}, NEW p \in Cell, Inside(b, p), b # p,
         NEW k \in DOMAIN sh, Inside(p, k), Inside(k, n)
  PROVE  k = n
<1> DEFINE x == sh[n].il
           y == sh[n].ir
<1>1. Halves(sh, n, x, y) /\ x \in DOMAIN sh /\ y \in DOMAIN sh /\ \A z \in Cell : ~(Inside(z, x) /\ Inside(z, y))
  BY ChildNodes
<1>2. b \in {x, y}
  OBVIOUS
<1> HIDE DEF x, y
<1>3. x \in Cell /\ y \in Cell /\ b \in Cell /\ k \in Cell
  BY <1>1, <1>2
<1> SUFFICES ASSUME k # n PROVE FALSE
  OBVIOUS
<1>4. PICK z \in {x, y} : Inside(k, z)
  BY <1>1 DEF Halves
<1>5. Inside(b, z) /\ Inside(p, z)
  BY <1>3, <1>4, InsideTrans
<1>6. Inside(b, b)
  BY <1>3, CellSize DEF Inside
<1>7. z = b
  BY <1>1, <1>2, <1>3, <1>5, <1>6
<1> QED
  BY <1>3, <1>5, <1>7, InsideSame

\* A live leaf that holds half of p and not the other half is that half; its parent holds p.
LEMMA HalfLeaf ==
  ASSUME NEW sh, NEW r, NEW grain, Tended(sh, r, grain), NEW a \in Live(sh), NEW b \in Live(sh), a # b,
         NEW x \in Cell, NEW y \in Cell, NEW p \in Cell, Inside(x, a), Inside(y, b),
         Inside(x, p), Inside(y, p), lsb(p) = 2 * lsb(x)
  PROVE  LET q == sh[a].ip
         IN  /\ a = x /\ a # r /\ q \in DOMAIN sh /\ sh[q].il # 0 /\ a \in {sh[q].il, sh[q].ir}
             /\ Inside(p, q)
<1>1. DOMAIN sh \subseteq Cell /\ Rises(sh, r)
  BY DEF Tended, Rises
<1>2. /\ a \in DOMAIN sh /\ b \in DOMAIN sh /\ sh[a].il = 0 /\ sh[b].il = 0
      /\ Exposed(sh, a) /\ Exposed(sh, b)
  BY DEF Live, Exposed
<1>3. a \in Cell /\ b \in Cell
  BY <1>1, <1>2
<1>4. ~Inside(a, b) /\ ~Inside(b, a)
  BY <1>2 DEF Exposed
<1>5. ~Inside(p, a)
  <2> SUFFICES ASSUME Inside(p, a) PROVE FALSE
    OBVIOUS
  <2>1. Inside(y, a)
    BY <1>3, InsideTrans
  <2> QED
    BY <1>3, <1>4, <2>1, InsideBoth
<1>6. Inside(a, p) /\ a # p
  <2>1. Inside(a, p)
    BY <1>3, <1>5, InsideBoth
  <2>2. Inside(p, p)
    BY CellSize DEF Inside
  <2> QED
    BY <1>5, <2>1, <2>2
<1>7. lsb(x) \in Nat /\ lsb(a) \in Nat /\ lsb(p) \in Nat
  BY <1>3, CellSize
<1>8. a = x
  <2>1. 2 * lsb(a) <= lsb(p)
    BY <1>3, <1>6, InsideSize
  <2>2. lsb(x) >= lsb(a)
    BY <1>7, <2>1
  <2> QED
    BY <1>3, <2>2, SameCell
<1>9. a # r
  BY <1>1, <1>2, <1>4 DEF Rises
<1> DEFINE q == sh[a].ip
<1>10. q \in DOMAIN sh /\ q # a /\ Inside(a, q) /\ sh[q].il # 0 /\ a \in {sh[q].il, sh[q].ir}
  <2>1. RisesAt(sh, a)
    BY <1>1, <1>2, <1>9 DEF Rises
  <2> QED
    BY <1>2, <2>1 DEF RisesAt, Exposed
<1> HIDE DEF q
<1>11. Inside(p, q)
  <2>0. q \in Cell
    BY <1>1, <1>10
  <2>1. CASE Inside(q, p)
    <3>1. 2 * lsb(a) <= lsb(q) /\ lsb(q) \in Nat
      BY <1>3, <1>10, <2>0, InsideSize, CellSize
    <3>2. lsb(q) >= lsb(p)
      BY <1>7, <1>8, <3>1
    <3>3. q = p
      BY <2>0, <2>1, <3>2, SameCell
    <3> QED
      BY <2>1, <3>3
  <2> QED
    BY <1>3, <1>6, <1>10, <2>0, <2>1, InsideBoth
<1> QED
  BY <1>8, <1>9, <1>10, <1>11 DEF q

\* Where two neighbours among the live leaves make up their parent, it would waste nothing.
LEMMA NeighboursWasteNothing ==
  ASSUME NEW sh, NEW r, NEW grain, Tended(sh, r, grain), NEW a \in Live(sh), NEW b \in Live(sh),
         sh[a].c = sibling(sh[b].c), end(sh[a].c) <= begin(sh[b].c)
  PROVE  sh[a].g = 0
<1> DEFINE x == sh[a].c
           y == sh[b].c
<1>0. DOMAIN sh \subseteq Cell /\ Rises(sh, r) /\ Branches(sh) /\ Grained(sh, grain)
  BY DEF Tended, Rises
<1>1. a \in DOMAIN sh /\ b \in DOMAIN sh /\ Exposed(sh, a) /\ Exposed(sh, b)
  BY DEF Live, Exposed
<1>2. x \in Cell /\ y \in Cell /\ Inside(x, a) /\ Inside(y, b)
  BY <1>0, <1>1, ExposedKept
<1>3. x = sibling(y) /\ end(x) <= begin(y)
  OBVIOUS
<1> HIDE DEF x, y
<1>4. PICK p \in Cell : /\ Inside(x, p) /\ Inside(y, p) /\ x # p /\ y # p /\ end(x) = begin(y)
                        /\ lsb(p) = 2 * lsb(x) /\ lsb(p) = 2 * lsb(y) /\ p = 2 * end(x)
  BY <1>2, <1>3, SiblingHalves
<1>5. a # b
  <2> SUFFICES ASSUME a = b PROVE FALSE
    OBVIOUS
  <2>1. x = y
    BY DEF x, y
  <2> QED
    BY <1>2, <1>3, <2>1, CellBounds
<1> DEFINE q == sh[a].ip
           k == sh[b].ip
<1>6. a = x /\ q \in DOMAIN sh /\ sh[q].il # 0 /\ a \in {sh[q].il, sh[q].ir} /\ Inside(p, q)
  BY <1>2, <1>4, <1>5, HalfLeaf
<1>7. b = y /\ k \in DOMAIN sh /\ sh[k].il # 0 /\ b \in {sh[k].il, sh[k].ir} /\ Inside(p, k)
  BY <1>2, <1>4, <1>5, HalfLeaf
<1> HIDE DEF q, k
<1>8. q \in Cell /\ k \in Cell /\ BranchesAt(sh, q) /\ BranchesAt(sh, k)
  BY <1>0, <1>6, <1>7 DEF Branches
<1>9. q = k
  <2>1. Inside(q, k) \/ Inside(k, q)
    BY <1>6, <1>7, <1>8, InsideBoth
  <2>2. Inside(q, k) => q = k
    BY <1>0, <1>4, <1>6, <1>7, <1>8, LeastParent
  <2>3. Inside(k, q) => k = q
    BY <1>0, <1>4, <1>6, <1>7, <1>8, LeastParent
  <2> QED
    BY <2>1, <2>2, <2>3
<1>10. Halves(sh, q, sh[q].il, sh[q].ir) /\ end(sh[q].il) <= begin(sh[q].ir)
  BY <1>0, <1>6, <1>8, ChildNodes
<1>11. sh[q].il = a /\ sh[q].ir = b
  <2>1. ~(sh[q].il = b /\ sh[q].ir = a)
    BY <1>2, <1>4, <1>6, <1>7, <1>10, CellBounds
  <2> QED
    BY <1>5, <1>6, <1>7, <1>9, <2>1
<1>12. Halves(sh, q, a, b)
  BY <1>10, <1>11
<1>13. q = p
  <2>1. 2 * end(a) <= begin(q) + end(q) /\ begin(q) + end(q) <= 2 * begin(b)
    BY <1>12 DEF Halves
  <2>2. q = begin(q) + end(q) /\ begin(q) \in Nat /\ end(q) \in Nat /\ end(x) \in Nat
    BY <1>2, <1>8, CellSize, CellNamed
  <2> QED
    BY <1>4, <1>6, <1>7, <2>1, <2>2
<1>14. sh[a].g = lsb(q) - lsb(x) - lsb(y)
  BY <1>12 DEF Halves, x, y
<1>15. lsb(x) \in Nat /\ lsb(y) \in Nat /\ lsb(p) \in Nat
  BY <1>2, CellSize
<1>16. lsb(q) = lsb(p) /\ lsb(p) - lsb(x) - lsb(y) = 0
  <2>1. lsb(q) = lsb(p)
    BY <1>13
  <2>2. lsb(p) = 2 * lsb(x) /\ lsb(p) = 2 * lsb(y)
    BY <1>4
  <2> DEFINE A == lsb(x)
             B == lsb(y)
             C == lsb(p)
  <2>3. A \in Nat /\ B \in Nat /\ C \in Nat /\ C = 2 * A /\ C = 2 * B
    BY <1>15, <2>2
  <2> HIDE DEF A, B, C
  <2>4. C - A - B = 0
    BY <2>3
  <2> QED
    BY <2>1, <2>4 DEF A, B, C
<1> QED
  BY <1>14, <1>16

-----------------------------------------------------------------------------
(* Cover: blowing up an inner node p.                                      *)

\* bl is sh with p blown up.
Blows(bl, sh, p) ==
  /\ DOMAIN bl = DOMAIN sh /\ p \in DOMAIN sh /\ sh[p].il # 0
  /\ \A n \in DOMAIN sh :
       /\ bl[n] \in Node /\ bl[n].ip = sh[n].ip /\ bl[n].g = sh[n].g
       /\ bl[n].il = (IF n = p THEN 0 ELSE sh[n].il) /\ bl[n].ir = (IF n = p THEN 0 ELSE sh[n].ir)
       /\ bl[n].c = (IF n # p /\ n \in {sh[p].il, sh[p].ir} THEN 0 ELSE sh[n].c)

\* Blownup is that.
LEMMA BlownIs ==
  ASSUME NEW sh, sh \in [DOMAIN sh -> Node], NEW p \in DOMAIN sh, sh[p].il # 0, NEW bl,
         bl = [n \in DOMAIN sh |->
                 IF n = p THEN [sh[n] EXCEPT !.il = 0, !.ir = 0]
                 ELSE IF n \in {sh[p].il, sh[p].ir} THEN [sh[n] EXCEPT !.c = 0]
                 ELSE sh[n]]
  PROVE  Blows(bl, sh, p) /\ bl \in [DOMAIN bl -> Node]
<1>1. DOMAIN bl = DOMAIN sh
  OBVIOUS
<1>2. ASSUME NEW n \in DOMAIN sh
      PROVE  /\ bl[n] \in Node /\ bl[n].ip = sh[n].ip /\ bl[n].g = sh[n].g
             /\ bl[n].il = (IF n = p THEN 0 ELSE sh[n].il) /\ bl[n].ir = (IF n = p THEN 0 ELSE sh[n].ir)
             /\ bl[n].c = (IF n # p /\ n \in {sh[p].il, sh[p].ir} THEN 0 ELSE sh[n].c)
  <2> DEFINE o == sh[n]
  <2>1. o \in Node
    OBVIOUS
  <2>2. CASE n = p
    <3>1. bl[n] = [o EXCEPT !.il = 0, !.ir = 0]
      BY <2>2
    <3> HIDE DEF o
    <3>2. /\ bl[n] \in Node /\ bl[n].ip = o.ip /\ bl[n].g = o.g /\ bl[n].il = 0 /\ bl[n].ir = 0 /\ bl[n].c = o.c
      BY <2>1, <3>1 DEF Node
    <3> QED
      BY <2>2, <3>2 DEF o
  <2>3. CASE n # p /\ n \in {sh[p].il, sh[p].ir}
    <3>1. bl[n] = [o EXCEPT !.c = 0]
      BY <2>3
    <3> HIDE DEF o
    <3>2. /\ bl[n] \in Node /\ bl[n].ip = o.ip /\ bl[n].g = o.g /\ bl[n].il = o.il /\ bl[n].ir = o.ir /\ bl[n].c = 0
      BY <2>1, <3>1 DEF Node
    <3> QED
      BY <2>3, <3>2 DEF o
  <2>4. CASE n # p /\ n \notin {sh[p].il, sh[p].ir}
    <3>1. bl[n] = sh[n]
      BY <2>4
    <3> QED
      BY <2>1, <2>4, <3>1
  <2> QED
    BY <2>2, <2>3, <2>4
<1>3. bl \in [DOMAIN bl -> Node]
  <2>1. bl = [n \in DOMAIN sh |-> bl[n]]
    OBVIOUS
  <2> QED
    BY <1>1, <1>2, <2>1
<1> QED
  BY <1>1, <1>2, <1>3 DEF Blows

\* Nodes keep their place.
LEMMA BlownRises ==
  ASSUME NEW sh, NEW r, Rises(sh, r), Branches(sh), NEW bl, NEW p, Blows(bl, sh, p)
  PROVE  Rises(bl, r)
<1> DEFINE a == sh[p].il
           b == sh[p].ir
<1>0. /\ DOMAIN sh \subseteq Cell /\ r \in DOMAIN sh /\ sh[r].ip = 0 /\ sh[r].c # 0
      /\ \A n \in DOMAIN sh : Inside(n, r) /\ n # 0
  BY DEF Rises, Cell
<1>1. /\ a \in DOMAIN sh /\ b \in DOMAIN sh /\ sh[a].ip = p /\ sh[b].ip = p /\ p \in DOMAIN sh /\ a # p /\ b # p
      /\ a # r /\ b # r
  <2>1. p \in DOMAIN sh /\ sh[p].il # 0 /\ BranchesAt(sh, p)
    BY DEF Blows, Branches
  <2>2. Halves(sh, p, a, b) /\ a # p /\ b # p
    BY <1>0, <2>1, ChildNodes
  <2> QED
    BY <1>0, <2>1, <2>2 DEF Halves
<1> HIDE DEF a, b
<1>2. /\ DOMAIN bl = DOMAIN sh
      /\ \A n \in DOMAIN sh :
           /\ bl[n].ip = sh[n].ip
           /\ bl[n].il = (IF n = p THEN 0 ELSE sh[n].il) /\ bl[n].ir = (IF n = p THEN 0 ELSE sh[n].ir)
           /\ bl[n].c = (IF n # p /\ n \in {a, b} THEN 0 ELSE sh[n].c)
  BY DEF Blows, a, b
<1>3. ASSUME NEW n \in DOMAIN sh \ {r} PROVE RisesAt(bl, n)
  <2> DEFINE q == sh[n].ip
  <2>1. q \in DOMAIN sh /\ q # n /\ Inside(n, q) /\ (sh[n].c # 0 <=> sh[q].il # 0)
        /\ (sh[q].il # 0 => n \in {sh[q].il, sh[q].ir})
    BY DEF Rises, RisesAt
  <2>2. bl[n].ip = q
    BY <1>2
  <2>3. CASE q = p
    <3>1. n \in {a, b} /\ n # p
      BY <2>1, <2>3 DEF Blows, a, b
    <3>2. bl[n].c = 0 /\ bl[p].il = 0
      BY <1>1, <1>2, <3>1
    <3> QED
      BY <1>2, <2>1, <2>2, <2>3, <3>2 DEF RisesAt
  <2>4. CASE q # p
    <3>1. n \notin {a, b}
      BY <1>1, <2>4
    <3>2. bl[n].c = sh[n].c /\ bl[q].il = sh[q].il /\ bl[q].ir = sh[q].ir
      BY <1>2, <2>1, <2>4, <3>1
    <3> QED
      BY <1>2, <2>1, <2>2, <3>2 DEF RisesAt
  <2> QED
    BY <2>3, <2>4
<1>4. bl[r].ip = 0 /\ bl[r].c # 0
  BY <1>0, <1>1, <1>2
<1> QED
  BY <1>0, <1>2, <1>3, <1>4 DEF Rises

\* The other branches stay, and so does what their children say.
LEMMA BlownBranches ==
  ASSUME NEW sh, NEW r, Rises(sh, r), Branches(sh), NEW bl, NEW p, Blows(bl, sh, p)
  PROVE  Branches(bl)
<1>0. DOMAIN sh \subseteq Cell /\ DOMAIN bl = DOMAIN sh /\ p \in DOMAIN sh /\ sh[p].il # 0
  BY DEF Rises, Blows
<1>1. Halves(sh, p, sh[p].il, sh[p].ir)
  BY <1>0 DEF Branches, BranchesAt
<1> SUFFICES ASSUME NEW n \in DOMAIN sh PROVE BranchesAt(bl, n)
  BY <1>0 DEF Branches
<1>2. BranchesAt(sh, n)
  BY DEF Branches
<1>3. CASE n = p
  <2>1. bl[n].il = 0 /\ bl[n].ir = 0
    BY <1>3 DEF Blows
  <2> QED
    BY <2>1 DEF BranchesAt
<1>4. CASE n # p
  <2>1. bl[n].il = sh[n].il /\ bl[n].ir = sh[n].ir /\ bl[n].c \in {0, sh[n].c}
    BY <1>4 DEF Blows
  <2>2. ASSUME sh[n].il # 0 PROVE Halves(bl, n, sh[n].il, sh[n].ir) /\ bl[n].c \in {0, n}
    <3> DEFINE x == sh[n].il
               y == sh[n].ir
    <3>1. Halves(sh, n, x, y) /\ sh[n].c \in {0, n}
      BY <1>2, <2>2 DEF BranchesAt
    <3> HIDE DEF x, y
    <3>2. x \in DOMAIN sh /\ y \in DOMAIN sh /\ sh[x].ip = n /\ sh[y].ip = n
      BY <3>1 DEF Halves
    <3>3. x \notin {sh[p].il, sh[p].ir} /\ y \notin {sh[p].il, sh[p].ir}
      BY <1>1, <1>4, <3>2 DEF Halves
    <3>4. /\ bl[x].ip = n /\ bl[x].g = sh[x].g /\ bl[x].c = sh[x].c
          /\ bl[y].ip = n /\ bl[y].g = sh[y].g /\ bl[y].c = sh[y].c
      BY <3>2, <3>3 DEF Blows
    <3>5. Halves(bl, n, x, y)
      BY <1>0, <3>1, <3>2, <3>4 DEF Halves
    <3> QED
      BY <2>1, <3>1, <3>5 DEF x, y
  <2> QED
    BY <1>2, <2>1, <2>2 DEF BranchesAt
<1> QED
  BY <1>3, <1>4

\* What was live below p is not, and p is.
LEMMA BlownLive ==
  ASSUME NEW sh, NEW r, NEW grain, Tended(sh, r, grain), NEW bl, NEW p, Blows(bl, sh, p)
  PROVE  /\ \A n \in Live(bl) : n = p \/ (n \in Live(sh) /\ ~Inside(n, p))
         /\ \A n \in Live(sh) : ~Inside(n, p) => n \in Live(bl) /\ bl[n].c = sh[n].c
         /\ \A n \in Live(sh) : Inside(n, p) => p \in Live(bl) /\ bl[p].c = p /\ Inside(sh[n].c, p) /\ sh[n].c \in Cell
<1>0. /\ DOMAIN sh \subseteq Cell /\ DOMAIN bl = DOMAIN sh /\ p \in DOMAIN sh /\ sh[p].il # 0
      /\ Rises(sh, r) /\ Branches(sh) /\ Grained(sh, grain)
      /\ \A n \in DOMAIN sh : n \in Cell
  BY DEF Tended, Rises, Blows
<1>1. \A n \in DOMAIN sh : /\ bl[n].il = (IF n = p THEN 0 ELSE sh[n].il)
                           /\ bl[n].c = (IF n # p /\ n \in {sh[p].il, sh[p].ir} THEN 0 ELSE sh[n].c)
  BY DEF Blows
<1>2. Inside(sh[p].il, p) /\ Inside(sh[p].ir, p) /\ Inside(p, p)
  <2>1. BranchesAt(sh, p)
    BY <1>0 DEF Branches
  <2> QED
    BY <1>0, <2>1, ChildNodes, CellSize DEF Inside
<1>3. ASSUME NEW n \in Live(bl) PROVE n = p \/ (n \in Live(sh) /\ ~Inside(n, p))
  <2>1. n \in DOMAIN sh /\ bl[n].il = 0 /\ \A q \in DOMAIN sh : Inside(n, q) /\ q # n => bl[q].il # 0
    BY <1>0 DEF Live
  <2>2. n # p => ~Inside(n, p)
    BY <1>0, <1>1, <2>1
  <2>3. n # p => sh[n].il = 0 /\ \A q \in DOMAIN sh : Inside(n, q) /\ q # n => sh[q].il # 0
    BY <1>1, <2>1, <2>2
  <2> QED
    BY <2>1, <2>2, <2>3 DEF Live
<1>4. ASSUME NEW n \in Live(sh), ~Inside(n, p) PROVE n \in Live(bl) /\ bl[n].c = sh[n].c
  <2>1. n \in DOMAIN sh /\ sh[n].il = 0 /\ \A q \in DOMAIN sh : Inside(n, q) /\ q # n => sh[q].il # 0
    BY DEF Live
  <2>2. n # p /\ n \notin {sh[p].il, sh[p].ir}
    BY <1>2, <1>4
  <2>3. bl[n].il = 0 /\ \A q \in DOMAIN sh : Inside(n, q) /\ q # n => bl[q].il # 0
    BY <1>1, <1>4, <2>1
  <2> QED
    BY <1>0, <1>1, <2>1, <2>2, <2>3 DEF Live
<1>5. ASSUME NEW n \in Live(sh), Inside(n, p)
      PROVE  p \in Live(bl) /\ bl[p].c = p /\ Inside(sh[n].c, p) /\ sh[n].c \in Cell
  <2>1. n \in DOMAIN sh /\ sh[n].il = 0 /\ n # p /\ Exposed(sh, n)
    BY <1>0 DEF Live, Exposed
  <2>2. Exposed(sh, p)
    <3> SUFFICES ASSUME NEW q \in DOMAIN sh, Inside(p, q), q # p PROVE sh[q].il # 0
      BY DEF Exposed
    <3>1. Inside(n, q)
      BY <1>0, <1>5, <2>1, InsideTrans
    <3>2. q # n
      <4> SUFFICES ASSUME q = n PROVE FALSE
        OBVIOUS
      <4>1. p = n
        BY <1>0, <1>5, <2>1, InsideSame
      <4> QED
        BY <2>1, <4>1
    <3> QED
      BY <2>1, <3>1, <3>2 DEF Exposed
  <2>3. sh[p].c # 0
    BY <1>0, <2>2, ExposedKept
  <2>4. sh[p].c = p
    BY <1>0, <2>3 DEF Branches, BranchesAt
  <2>5. p \in Live(bl)
    <3>1. \A q \in DOMAIN sh : Inside(p, q) /\ q # p => bl[q].il # 0
      BY <1>1, <2>2 DEF Exposed
    <3> QED
      BY <1>0, <1>1, <3>1 DEF Live
  <2>6. sh[n].c \in Cell /\ Inside(sh[n].c, n)
    BY <1>0, <2>1, ExposedKept
  <2>7. Inside(sh[n].c, p)
    BY <1>0, <1>5, <2>1, <2>6, InsideTrans
  <2> QED
    BY <1>0, <1>1, <2>4, <2>5, <2>6, <2>7
<1> QED
  BY <1>3, <1>4, <1>5

\* A tree with an inner node blown up is as good.
LEMMA BlownShaped ==
  ASSUME NEW sh, NEW r, NEW grain, NEW E, Shaped(sh, r, grain, E), NEW bl, NEW p, Blows(bl, sh, p),
         bl \in [DOMAIN bl -> Node]
  PROVE  Shaped(bl, r, grain, E)
<1>1. Rises(sh, r) /\ Branches(sh) /\ Grained(sh, grain) /\ Held(sh, E) /\ Tended(sh, r, grain)
  BY DEF Shaped, Tended
<1>2. Rises(bl, r) /\ Branches(bl)
  BY <1>1, BlownRises, BlownBranches
<1>3. Grained(bl, grain)
  <2>1. DOMAIN bl = DOMAIN sh /\ \A n \in DOMAIN sh : bl[n].c \in {0, sh[n].c}
    BY DEF Blows
  <2> QED
    BY <1>1, <2>1 DEF Grained
<1>4. Held(bl, E)
  <2> SUFFICES ASSUME NEW e \in E PROVE \E n \in Live(bl) : e \in Within(bl[n].c)
    BY DEF Held
  <2>1. PICK n \in Live(sh) : e \in Within(sh[n].c)
    BY <1>1 DEF Held
  <2>2. CASE ~Inside(n, p)
    <3>1. n \in Live(bl) /\ bl[n].c = sh[n].c
      BY <1>1, <2>2, BlownLive
    <3> QED
      BY <2>1, <3>1
  <2>3. CASE Inside(n, p)
    <3>1. p \in Live(bl) /\ bl[p].c = p /\ Inside(sh[n].c, p) /\ sh[n].c \in Cell
      BY <1>1, <2>3, BlownLive
    <3>2. p \in Cell
      BY <1>1 DEF Rises, Blows
    <3>3. Within(sh[n].c) \subseteq Within(p)
      BY <3>1, <3>2, InsideWithin
    <3> QED
      BY <2>1, <3>1, <3>3
  <2> QED
    BY <2>2, <2>3
<1> QED
  BY <1>2, <1>3, <1>4 DEF Shaped

-----------------------------------------------------------------------------
(* Cover: the result.                                                      *)

\* The live leaves of a tree that holds E make up a set that holds E.
LEMMA ListHolds ==
  ASSUME NEW sh, NEW r, NEW grain, NEW E, Shaped(sh, r, grain, E), NEW list, GetIs(list, sh, r)
  PROVE  /\ Ordered(list) /\ list \in Seq(Cell) /\ E \subseteq Elements(list)
         /\ IsFiniteSet(Live(sh)) /\ Len(list) = Cardinality(Live(sh))
         /\ \A k \in DOMAIN list : lsb(list[k]) >= grain \/ list[k] = unity
<1>1. Rises(sh, r) /\ Grained(sh, grain) /\ Held(sh, E)
  BY DEF Shaped
<1>2. LiveUnder(sh, r) = Live(sh)
  BY <1>1, ExposedRoot
<1>3. /\ Ordered(list) /\ IsFiniteSet(Live(sh)) /\ Len(list) = Cardinality(Live(sh))
      /\ \A h \in DOMAIN list : \E k \in Live(sh) : list[h] = sh[k].c
      /\ \A k \in Live(sh) : \E h \in DOMAIN list : list[h] = sh[k].c
  BY <1>2 DEF GetIs, Between
<1>4. E \subseteq Elements(list)
  <2> SUFFICES ASSUME NEW e \in E PROVE e \in Elements(list)
    OBVIOUS
  <2>1. PICK n \in Live(sh) : e \in Within(sh[n].c)
    BY <1>1 DEF Held
  <2>2. PICK h \in DOMAIN list : list[h] = sh[n].c
    BY <1>3
  <2> QED
    BY <2>1, <2>2 DEF Elements
<1>5. \A n \in Live(sh) : lsb(sh[n].c) >= grain \/ sh[n].c = unity
  <2> SUFFICES ASSUME NEW n \in Live(sh) PROVE lsb(sh[n].c) >= grain \/ sh[n].c = unity
    OBVIOUS
  <2>1. n \in DOMAIN sh /\ Exposed(sh, n)
    BY DEF Live, Exposed
  <2> QED
    BY <1>1, <2>1, ExposedKept
<1>6. ASSUME NEW h \in DOMAIN list PROVE lsb(list[h]) >= grain \/ list[h] = unity
  <2>1. PICK n \in Live(sh) : list[h] = sh[n].c
    BY <1>3
  <2> QED
    BY <1>5, <2>1
<1> QED
  BY <1>3, <1>4, <1>6 DEF Ordered

\* A grain above half of the unit set leaves nothing else.
LEMMA CoarseList ==
  ASSUME NEW list, Ordered(list), NEW grain \in Nat, 2 * grain > Limit,
         \A k \in DOMAIN list : lsb(list[k]) >= grain \/ list[k] = unity
  PROVE  list \in {<<>>, <<unity>>}
<1>1. list \in Seq(Cell) /\ DOMAIN list = 1..Len(list) /\ Len(list) \in Nat
  BY DEF Ordered
<1>2. Limit \in Nat \ {0} /\ unity \in Cell
  BY ShiftedPositive DEF unity, Cell
<1>3. begin(unity) = 0 /\ end(unity) = Limit /\ lsb(unity) = Limit
  <2>1. begin(unity) = 0 /\ end(unity) = Limit
    BY <1>2, CellNamed
  <2> QED
    BY <1>2, <2>1, CellSize
<1>4. ASSUME NEW k \in DOMAIN list PROVE list[k] = unity
  <2> DEFINE c == list[k]
  <2>1. c \in Cell /\ (lsb(c) >= grain \/ c = unity)
    BY <1>1
  <2> HIDE DEF c
  <2>2. Inside(c, unity) /\ lsb(c) \in Nat
    BY <1>3, <2>1, CellSize DEF Inside
  <2>3. c # unity => 2 * lsb(c) <= Limit
    BY <1>2, <1>3, <2>1, <2>2, InsideSize
  <2>4. c = unity
    BY <1>2, <2>1, <2>2, <2>3
  <2> QED
    BY <2>4 DEF c
<1>5. Len(list) <= 1
  <2> SUFFICES ASSUME Len(list) > 1 PROVE FALSE
    BY <1>1
  <2>1. 1 \in 1..Len(list)-1 /\ 1 \in DOMAIN list /\ 2 \in DOMAIN list /\ 1 + 1 = 2
    BY <1>1
  <2>2. end(list[1]) <= begin(list[2])
    BY <2>1 DEF Ordered
  <2>3. list[1] = unity /\ list[2] = unity
    BY <1>4, <2>1
  <2> QED
    BY <1>2, <1>3, <2>2, <2>3
<1>6. CASE Len(list) = 0
  BY <1>1, <1>6
<1>7. CASE Len(list) = 1
  <2>1. 1 \in DOMAIN list
    BY <1>1, <1>7
  <2>2. list[1] = unity
    BY <1>4, <2>1
  <2> QED
    BY <1>1, <1>7, <2>2
<1> QED
  BY <1>1, <1>5, <1>6, <1>7

\* No two neighbours make up their parent where every parent would waste something.
LEMMA ThriftyList ==
  ASSUME NEW sh, NEW r, NEW grain, NEW E, Shaped(sh, r, grain, E), NEW list, GetIs(list, sh, r),
         Len(list) <= 1 \/ \A n \in Live(sh) : sh[n].g # 0, NEW k \in 1..Len(list)-1
  PROVE  end(list[k]) <= begin(list[k+1]) /\ list[k] # sibling(list[k+1])
<1>1. Tended(sh, r, grain) /\ Rises(sh, r)
  BY DEF Shaped, Tended
<1>2. Ordered(list) /\ list \in Seq(Cell)
  BY ListHolds
<1>3. Len(list) \in Nat /\ DOMAIN list = 1..Len(list)
  BY <1>2
<1>4. k \in DOMAIN list /\ k + 1 \in DOMAIN list /\ ~(Len(list) <= 1)
  BY <1>3
<1>5. \A n \in Live(sh) : sh[n].g # 0
  BY <1>4
<1>6. end(list[k]) <= begin(list[k+1])
  BY <1>2 DEF Ordered
<1>7. LiveUnder(sh, r) = Live(sh)
  BY <1>1, ExposedRoot
<1>8. PICK a \in Live(sh) : list[k] = sh[a].c
  BY <1>4, <1>7 DEF GetIs
<1>9. PICK b \in Live(sh) : list[k+1] = sh[b].c
  BY <1>4, <1>7 DEF GetIs
<1>10. list[k] # sibling(list[k+1])
  <2> SUFFICES ASSUME list[k] = sibling(list[k+1]) PROVE FALSE
    OBVIOUS
  <2>1. sh[a].c = sibling(sh[b].c) /\ end(sh[a].c) <= begin(sh[b].c)
    BY <1>6, <1>8, <1>9
  <2>2. sh[a].g = 0
    BY <1>1, <2>1, NeighboursWasteNothing
  <2> QED
    BY <1>5, <2>2
<1> QED
  BY <1>6, <1>10

\* A result for the arguments a.
Fulfils(list, a) ==
  /\ Elements(a.s) \subseteq Elements(list) /\ list \in Seq(Cell)
  /\ \A k \in DOMAIN list : lsb(list[k]) >= a.minGrain \/ list[k] = unity
  /\ \A k \in 1..Len(list)-1 : end(list[k]) <= begin(list[k+1]) /\ list[k] # sibling(list[k+1])
  /\ a.maxSize > 0 => Len(list) <= a.maxSize
  /\ 2 * a.minGrain > Limit => list \in {<<>>, <<unity>>}

\* The list of the live leaves is one.
LEMMA ListFulfils ==
  ASSUME NEW a, a.minGrain \in Nat, NEW sh, NEW r, Shaped(sh, r, a.minGrain, Elements(a.s)),
         NEW list, GetIs(list, sh, r), Len(list) <= 1 \/ \A n \in Live(sh) : sh[n].g # 0,
         a.maxSize > 0 => Len(list) <= a.maxSize
  PROVE  Fulfils(list, a)
<1> DEFINE grain == a.minGrain
           E == Elements(a.s)
<1>1. Shaped(sh, r, grain, E) /\ grain \in Nat
  OBVIOUS
<1> HIDE DEF grain, E
<1>2. /\ Ordered(list) /\ list \in Seq(Cell) /\ E \subseteq Elements(list)
      /\ \A k \in DOMAIN list : lsb(list[k]) >= grain \/ list[k] = unity
  BY <1>1, ListHolds
<1>3. \A k \in 1..Len(list)-1 : end(list[k]) <= begin(list[k+1]) /\ list[k] # sibling(list[k+1])
  BY <1>1, ThriftyList
<1>4. 2 * grain > Limit => list \in {<<>>, <<unity>>}
  BY <1>1, <1>2, CoarseList
<1> QED
  BY <1>2, <1>3, <1>4 DEF Fulfils, grain, E

\* The invariant of the loop: the tree is in order and holds s, its live leaves are in
\* the heap, and the heap has only leaves.
LoopInv ==
  /\ args.s # <<>> /\ Shaped(shape, root, args.minGrain, Elements(args.s))
  /\ Live(shape) \subseteq leaves /\ leaves \subseteq {n \in DOMAIN shape : shape[n].il = 0}

\* With the arguments and the properties, what every step keeps.
CoverInv ==
  /\ CoverTypeOK /\ CoverKeepsPromise
  /\ Ordered(args.s) /\ args.minGrain \in 0..Limit-1 /\ args.maxSize \in Nat
  /\ working => LoopInv

\* A tree in order has the types of the variables.
LEMMA ShapedTypes ==
  ASSUME NEW sh, NEW r, NEW grain, NEW E, Shaped(sh, r, grain, E), NEW n \in DOMAIN sh
  PROVE  \/ sh[n].il = 0 /\ sh[n].ir = 0
         \/ /\ {sh[n].il, sh[n].ir} \subseteq DOMAIN sh
            /\ sh[sh[n].il].ip = n /\ sh[sh[n].ir].ip = n
<1>1. BranchesAt(sh, n)
  BY DEF Shaped, Branches
<1> QED
  BY <1>1 DEF BranchesAt, Halves

\* The live leaves are as LiveTree says, and the heap bounds their number.
LEMMA LoopLeaves ==
  ASSUME LoopInv
  PROVE  /\ GetIs(getLeaves(root), shape, root) /\ LiveLeaves = Live(shape)
         /\ IsFiniteSet(leaves) /\ Cardinality(leaves) \in Nat
         /\ Len(getLeaves(root)) \in Nat /\ Len(getLeaves(root)) <= Cardinality(leaves)
<1> DEFINE grain == args.minGrain
           E == Elements(args.s)
           list == getLeaves(root)
<1>1. Shaped(shape, root, grain, E) /\ Live(shape) \subseteq leaves /\ leaves \subseteq DOMAIN shape
  BY DEF LoopInv
<1> HIDE DEF grain, E, list
<1>2. Tended(shape, root, grain) /\ Rises(shape, root)
  BY <1>1 DEF Shaped, Tended
<1>3. GetIs(list, shape, root)
  BY <1>2, LeavesAre, GetsUnfolds DEF list
<1>4. LiveLeaves = Live(shape)
  BY <1>2, LeavesAre, BelowsUnfolds, ExposedRoot
<1>5. IsFiniteSet(leaves)
  <2>1. leaves \subseteq Cell
    BY <1>1, <1>2 DEF Rises
  <2>2. IsFiniteSet(Cell)
    BY ShiftedPositive, FS_Interval DEF Cell
  <2> QED
    BY <2>1, <2>2, FS_Subset
<1>6. Cardinality(leaves) \in Nat /\ Cardinality(Live(shape)) <= Cardinality(leaves)
  BY <1>1, <1>5, FS_Subset, FS_CardinalityType
<1>7. Len(list) = Cardinality(Live(shape)) /\ list \in Seq(Cell)
  BY <1>1, <1>3, ListHolds
<1> QED
  BY <1>3, <1>4, <1>5, <1>6, <1>7 DEF list

\* The limit is a number, and no greater than that of a caller who sets one.
LEMMA LimitedIs ==
  ASSUME NEW s, Ordered(s), NEW maxSize \in Nat
  PROVE  Limited(s, maxSize) \in Nat /\ (maxSize > 0 => Limited(s, maxSize) <= maxSize)
<1>1. Len(s) \in Nat
  BY DEF Ordered
<1> QED
  BY <1>1 DEF Limited

\* The call starts with a tree over the set, all leaves of it in the heap.
LEMMA CoverStarts ==
  ASSUME MinGrains \subseteq 0..Limit-1, CoverInit
  PROVE  CoverInv
<1>1. PICK elem \in Sets, maxSize \in MaxSizes, minGrain \in MinGrains :
        Cover(NewSet63(elem), maxSize, minGrain)
  BY DEF CoverInit
<1> DEFINE s == NewSet63(elem)
           t == Tree(s, minGrain)
<1>2. /\ args = [s |-> s, maxSize |-> maxSize, minGrain |-> minGrain]
      /\ shape = t.nodes /\ root = t.top
      /\ leaves = {n \in DOMAIN t.nodes : t.nodes[n].il = 0}
      /\ working = (s # <<>>) /\ ret = <<>>
  BY <1>1 DEF Cover
<1>3. Ordered(s)
  BY CoverAssumption, NewSet63Exact
<1> HIDE DEF s
<1>4. maxSize \in Nat /\ minGrain \in 0..Limit-1
  BY CoverAssumption
<1>5. args.s = s /\ args.maxSize = maxSize /\ args.minGrain = minGrain
  BY <1>2
<1>6. /\ s = <<>> => t = NoTree
      /\ s # <<>> => Grown(t, unity, minGrain, Elements(s))
  BY <1>3, <1>4, TreeGrown
<1> HIDE DEF t
<1>7. CASE s = <<>>
  <2>1. shape = <<>> /\ leaves = {} /\ working = FALSE
    <3>1. t.nodes = <<>>
      BY <1>6, <1>7 DEF NoTree
    <3>2. DOMAIN <<>> = {}
      OBVIOUS
    <3> QED
      BY <1>2, <1>7, <3>1, <3>2
  <2>2. CoverTypeOK
    <3>1. DOMAIN shape = {} /\ shape \in [{} -> Node]
      BY <2>1
    <3>2. ret \in Seq(Cell)
      BY <1>2
    <3> QED
      BY <2>1, <3>1, <3>2 DEF CoverTypeOK
  <2>3. CoverKeepsPromise
    <3>1. Len(<<>>) = 0 /\ DOMAIN <<>> = {} /\ 1..0-1 = {}
      OBVIOUS
    <3>2. Elements(args.s) = {} /\ Elements(ret) = {}
      BY <1>2, <1>5, <1>7, <3>1 DEF Elements
    <3>3. Covers(ret)
      BY <1>2, <3>1, <3>2 DEF Covers
    <3> QED
      BY <1>2, <1>4, <1>5, <3>1, <3>3 DEF CoverKeepsPromise
  <2> QED
    BY <1>3, <1>4, <1>5, <2>1, <2>2, <2>3 DEF CoverInv
<1>8. CASE s # <<>>
  <2>1. Shaped(shape, root, minGrain, Elements(s))
    BY <1>2, <1>6, <1>8 DEF Grown
  <2>2. leaves = {n \in DOMAIN shape : shape[n].il = 0} /\ working = TRUE
    BY <1>2, <1>8
  <2>3. LoopInv
    <3>1. Live(shape) \subseteq leaves
      BY <2>2 DEF Live
    <3> QED
      BY <1>5, <1>8, <2>1, <2>2, <3>1 DEF LoopInv
  <2>4. CoverTypeOK
    <3>1. shape \in [DOMAIN shape -> Node] /\ leaves \subseteq DOMAIN shape
      BY <2>1, <2>2 DEF Shaped
    <3>2. ret \in Seq(Cell)
      BY <1>2
    <3>3. \A n \in DOMAIN shape :
            \/ shape[n].il = 0 /\ shape[n].ir = 0
            \/ /\ {shape[n].il, shape[n].ir} \subseteq DOMAIN shape
               /\ shape[shape[n].il].ip = n /\ shape[shape[n].ir].ip = n
      BY <2>1, ShapedTypes
    <3> QED
      BY <2>2, <3>1, <3>2, <3>3 DEF CoverTypeOK
  <2>5. CoverKeepsPromise
    BY <2>2 DEF CoverKeepsPromise
  <2> QED
    BY <1>3, <1>4, <1>5, <2>3, <2>4, <2>5 DEF CoverInv
<1> QED
  BY <1>7, <1>8

\* A return with a list that fulfils the arguments.
LEMMA CoverReturned ==
  ASSUME CoverInv, NEW list, Return(list), Fulfils(list, args)
  PROVE  CoverInv'
<1>1. /\ ret' = list /\ working' = FALSE /\ args' = args /\ shape' = shape /\ root' = root /\ leaves' = leaves
  BY DEF Return
<1>2. CoverTypeOK'
  BY <1>1 DEF CoverInv, CoverTypeOK, Fulfils
<1>3. CoverKeepsPromise'
  BY <1>1 DEF Fulfils, CoverKeepsPromise, Covers
<1> QED
  BY <1>1, <1>2, <1>3 DEF CoverInv

\* A turn of the loop that leaves the tree in order, and its live leaves in the heap.
LEMMA CoverGoesOn ==
  ASSUME CoverInv, working, UNCHANGED <<args, root, working, ret>>,
         Shaped(shape', root, args.minGrain, Elements(args.s)),
         Live(shape') \subseteq leaves', leaves' \subseteq {n \in DOMAIN shape' : shape'[n].il = 0}
  PROVE  CoverInv'
<1>1. LoopInv'
  BY DEF CoverInv, LoopInv
<1>2. CoverTypeOK'
  <2>1. shape' \in [DOMAIN shape' -> Node]
    BY DEF Shaped
  <2>2. \A n \in DOMAIN shape' :
          \/ shape'[n].il = 0 /\ shape'[n].ir = 0
          \/ /\ {shape'[n].il, shape'[n].ir} \subseteq DOMAIN shape'
             /\ shape'[shape'[n].il].ip = n /\ shape'[shape'[n].ir].ip = n
    BY ShapedTypes
  <2>3. ret' \in Seq(Cell) /\ working' \in BOOLEAN
    BY DEF CoverInv, CoverTypeOK
  <2> QED
    BY <2>1, <2>2, <2>3 DEF CoverTypeOK
<1>3. CoverKeepsPromise'
  BY DEF CoverKeepsPromise
<1> QED
  BY <1>1, <1>2, <1>3 DEF CoverInv

\* A popped entry of a removed node was not a live leaf.
LEMMA SkipKeeps ==
  ASSUME CoverInv, NEW i \in leaves, Skip(i)
  PROVE  CoverInv'
<1>1. /\ working /\ shape[i].c = 0 /\ leaves' = leaves \ {i}
      /\ UNCHANGED <<args, shape, root, working, ret>>
  BY DEF Skip, Popped
<1>2. /\ Shaped(shape, root, args.minGrain, Elements(args.s))
      /\ Live(shape) \subseteq leaves /\ leaves \subseteq {n \in DOMAIN shape : shape[n].il = 0}
  BY <1>1 DEF CoverInv, LoopInv
<1>3. i \notin Live(shape)
  <2> SUFFICES ASSUME i \in Live(shape) PROVE FALSE
    OBVIOUS
  <2>1. i \in DOMAIN shape /\ Exposed(shape, i)
    BY DEF Live, Exposed
  <2>2. shape[i].c # 0
    BY <1>2, <2>1, ExposedKept DEF Shaped
  <2> QED
    BY <1>1, <2>2
<1> QED
  BY <1>1, <1>2, <1>3, CoverGoesOn

\* The parent of a popped leaf that is not removed, blown up, is a live leaf, and in the heap.
LEMMA BlowupKeeps ==
  ASSUME CoverInv, NEW i \in leaves, Blowup(i)
  PROVE  CoverInv'
<1> DEFINE p == shape[i].ip
           grain == args.minGrain
           E == Elements(args.s)
<1>1. /\ working /\ shape[i].c # 0 /\ p # 0 /\ shape' = Blownup(i) /\ leaves' = (leaves \ {i}) \cup {p}
      /\ UNCHANGED <<args, root, working, ret>>
  BY DEF Blowup, Popped
<1>2. /\ Shaped(shape, root, grain, E)
      /\ Live(shape) \subseteq leaves /\ leaves \subseteq {n \in DOMAIN shape : shape[n].il = 0}
  BY <1>1 DEF CoverInv, LoopInv
<1>3. Tended(shape, root, grain) /\ Rises(shape, root) /\ shape \in [DOMAIN shape -> Node]
  BY <1>2 DEF Shaped, Tended
<1>4. i \in DOMAIN shape /\ p \in DOMAIN shape /\ p # i /\ Inside(i, p) /\ shape[p].il # 0
  <2>1. i \in DOMAIN shape /\ i # root
    BY <1>1, <1>2, <1>3 DEF Rises
  <2> QED
    BY <1>1, <1>3, <2>1 DEF Rises, RisesAt
<1>5. Blows(shape', shape, p) /\ shape' \in [DOMAIN shape' -> Node]
  <2>1. shape' = [n \in DOMAIN shape |->
                    IF n = p THEN [shape[n] EXCEPT !.il = 0, !.ir = 0]
                    ELSE IF n \in {shape[p].il, shape[p].ir} THEN [shape[n] EXCEPT !.c = 0]
                    ELSE shape[n]]
    BY <1>1 DEF Blownup
  <2> HIDE DEF p
  <2> QED
    BY <1>3, <1>4, <2>1, BlownIs
<1> HIDE DEF p, grain, E
<1>6. Shaped(shape', root, grain, E)
  BY <1>2, <1>5, BlownShaped
<1>7. Live(shape') \subseteq leaves'
  <2> SUFFICES ASSUME NEW n \in Live(shape'), n # p PROVE n \in leaves'
    BY <1>1
  <2>1. n \in Live(shape) /\ ~Inside(n, p)
    BY <1>3, <1>5, BlownLive
  <2> QED
    BY <1>1, <1>2, <1>4, <2>1
<1>8. leaves' \subseteq {n \in DOMAIN shape' : shape'[n].il = 0}
  <2>1. DOMAIN shape' = DOMAIN shape /\ \A n \in DOMAIN shape : shape'[n].il = IF n = p THEN 0 ELSE shape[n].il
    BY <1>5 DEF Blows
  <2> QED
    BY <1>1, <1>2, <1>4, <2>1
<1> QED
  BY <1>1, <1>6, <1>7, <1>8, CoverGoesOn DEF grain, E

\* Only the root has no parent, and it alone is left when it is a leaf.
LEMMA ReturnRootKeeps ==
  ASSUME CoverInv, NEW i \in leaves, ReturnRoot(i)
  PROVE  CoverInv'
<1> DEFINE list == <<shape[i].c>>
<1>1. working /\ shape[i].ip = 0 /\ Return(list)
  BY DEF ReturnRoot, Popped
<1>2. /\ Shaped(shape, root, args.minGrain, Elements(args.s)) /\ i \in DOMAIN shape /\ shape[i].il = 0
      /\ args.minGrain \in Nat /\ args.maxSize \in Nat
  BY <1>1 DEF CoverInv, LoopInv
<1>3. Rises(shape, root) /\ Grained(shape, args.minGrain) /\ DOMAIN shape \subseteq Cell
  BY <1>2 DEF Shaped, Rises
<1>4. i = root
  <2> SUFFICES ASSUME i # root PROVE FALSE
    OBVIOUS
  <2>1. shape[i].ip \in Cell
    BY <1>2, <1>3 DEF Rises, RisesAt
  <2> QED
    BY <1>1, <2>1 DEF Cell
<1>5. Exposed(shape, i)
  BY <1>3, <1>4, ExposedRoot
<1>6. shape[i].c \in Cell /\ Inside(shape[i].c, i)
  BY <1>2, <1>3, <1>5, ExposedKept
<1>7. GetIs(list, shape, root)
  BY <1>2, <1>3, <1>4, <1>5, <1>6, GetLeaf
<1>8. Len(list) <= 1 /\ (args.maxSize > 0 => Len(list) <= args.maxSize)
  <2>1. Len(list) = 1
    OBVIOUS
  <2> HIDE DEF list
  <2> QED
    BY <1>2, <2>1
<1> HIDE DEF list
<1>9. Fulfils(list, args)
  BY <1>2, <1>7, <1>8, ListFulfils
<1> QED
  BY <1>1, <1>9, CoverReturned

\* The popped gain is the smallest in the heap, and no live leaf is missing from it.
LEMMA BreakKeeps ==
  ASSUME CoverInv, NEW i \in leaves, Break(i)
  PROVE  CoverInv'
<1> DEFINE list == getLeaves(root)
<1>1. /\ working /\ \A k \in leaves : shape[i].g <= shape[k].g
      /\ shape[i].g # 0 /\ ~TooMany /\ Return(list)
  BY DEF Break, Popped
<1>2. LoopInv /\ args.minGrain \in Nat /\ args.maxSize \in Nat /\ Ordered(args.s)
  BY <1>1 DEF CoverInv
<1>3. /\ Shaped(shape, root, args.minGrain, Elements(args.s))
      /\ Live(shape) \subseteq leaves /\ leaves \subseteq DOMAIN shape
  BY <1>2 DEF LoopInv
<1>4. GetIs(list, shape, root) /\ Cardinality(leaves) \in Nat /\ Len(list) \in Nat /\ Len(list) <= Cardinality(leaves)
  BY <1>2, LoopLeaves
<1> HIDE DEF list
<1>5. \A n \in Live(shape) : shape[n].g # 0
  <2>1. \A n \in leaves : shape[n].g \in Nat
    BY <1>3 DEF Shaped, Node
  <2> QED
    BY <1>1, <1>3, <2>1
<1>6. args.maxSize > 0 => Len(list) <= args.maxSize
  <2>1. /\ Limited(args.s, args.maxSize) \in Nat
        /\ args.maxSize > 0 => Limited(args.s, args.maxSize) <= args.maxSize
    BY <1>2, LimitedIs
  <2>2. ~(Cardinality(leaves) - 1 >= Limited(args.s, args.maxSize))
    BY <1>1 DEF TooMany
  <2> QED
    BY <1>2, <1>4, <2>1, <2>2
<1>7. Fulfils(list, args)
  BY <1>2, <1>3, <1>4, <1>5, <1>6, ListFulfils
<1> QED
  BY <1>1, <1>7, CoverReturned DEF list

\* One entry is left in the heap, and so one live leaf.
LEMMA LoopEndKeeps ==
  ASSUME CoverInv, LoopEnd
  PROVE  CoverInv'
<1> DEFINE list == getLeaves(root)
<1>1. working /\ Cardinality(leaves) <= 1 /\ Return(list)
  BY DEF LoopEnd
<1>2. LoopInv /\ args.minGrain \in Nat /\ args.maxSize \in Nat
  BY <1>1 DEF CoverInv
<1>3. Shaped(shape, root, args.minGrain, Elements(args.s))
  BY <1>2 DEF LoopInv
<1>4. GetIs(list, shape, root) /\ Cardinality(leaves) \in Nat /\ Len(list) \in Nat /\ Len(list) <= Cardinality(leaves)
  BY <1>2, LoopLeaves
<1> HIDE DEF list
<1>5. Len(list) <= 1 /\ (args.maxSize > 0 => Len(list) <= args.maxSize)
  BY <1>1, <1>2, <1>4
<1>6. Fulfils(list, args)
  BY <1>2, <1>3, <1>4, <1>5, ListFulfils
<1> QED
  BY <1>1, <1>6, CoverReturned DEF list

\* Cover, called with a grain below Limit, keeps its invariant.
THEOREM CoverKept ==
  ASSUME MinGrains \subseteq 0..Limit-1
  PROVE  CoverSpec => []CoverInv
<1>1. CoverInit => CoverInv
  BY CoverStarts
<1>2. CoverInv /\ [CoverNext]_CoverVars => CoverInv'
  <2> SUFFICES ASSUME CoverInv, [CoverNext]_CoverVars PROVE CoverInv'
    OBVIOUS
  <2>1. ASSUME NEW i \in leaves, Skip(i) PROVE CoverInv'
    BY <2>1, SkipKeeps
  <2>2. ASSUME NEW i \in leaves, Blowup(i) PROVE CoverInv'
    BY <2>2, BlowupKeeps
  <2>3. ASSUME NEW i \in leaves, ReturnRoot(i) PROVE CoverInv'
    BY <2>3, ReturnRootKeeps
  <2>4. ASSUME NEW i \in leaves, Break(i) PROVE CoverInv'
    BY <2>4, BreakKeeps
  <2>5. CASE LoopEnd
    BY <2>5, LoopEndKeeps
  <2>6. CASE UNCHANGED CoverVars
    <3>1. /\ args' = args /\ shape' = shape /\ root' = root /\ leaves' = leaves
          /\ working' = working /\ ret' = ret
      BY <2>6 DEF CoverVars
    <3>2. CoverTypeOK'
      BY <3>1 DEF CoverInv, CoverTypeOK
    <3>3. CoverKeepsPromise'
      BY <3>1 DEF CoverInv, CoverKeepsPromise, Covers
    <3>4. working' => LoopInv'
      BY <3>1 DEF CoverInv, LoopInv
    <3> QED
      BY <3>1, <3>2, <3>3, <3>4 DEF CoverInv
  <2> QED
    BY <2>1, <2>2, <2>3, <2>4, <2>5, <2>6 DEF CoverNext
<1> QED
  BY <1>1, <1>2, PTL DEF CoverSpec

\* The types of the variables (lines 23-29).
THEOREM CoverTypeCorrect ==
  ASSUME MinGrains \subseteq 0..Limit-1
  PROVE  CoverSpec => []CoverTypeOK
<1>1. CoverInv => CoverTypeOK
  BY DEF CoverInv
<1> QED
  BY <1>1, CoverKept, PTL

\* What Cover returns contains the set, is no larger and no finer than asked, and is
\* normalized (lines 139-142).
THEOREM PromiseKept ==
  ASSUME MinGrains \subseteq 0..Limit-1
  PROVE  CoverSpec => []CoverKeepsPromise
<1>1. CoverInv => CoverKeepsPromise
  BY DEF CoverInv
<1> QED
  BY <1>1, CoverKept, PTL

\* No live leaf is ever removed or missing from the heap, and they cover s (lines 169-195).
THEOREM LiveTreeKept ==
  ASSUME MinGrains \subseteq 0..Limit-1
  PROVE  CoverSpec => []LiveTree
<1>1. CoverInv => LiveTree
  <2> SUFFICES ASSUME CoverInv, working PROVE LiveTree
    BY DEF LiveTree
  <2>1. LoopInv
    BY DEF CoverInv
  <2>2. /\ Shaped(shape, root, args.minGrain, Elements(args.s)) /\ Live(shape) \subseteq leaves
    BY <2>1 DEF LoopInv
  <2>3. GetIs(getLeaves(root), shape, root) /\ LiveLeaves = Live(shape)
    BY <2>1, LoopLeaves
  <2>4. Elements(args.s) \subseteq Elements(getLeaves(root))
    BY <2>2, <2>3, ListHolds
  <2>5. \A n \in Live(shape) : /\ shape[n].c # 0
                               /\ lsb(shape[n].c) >= args.minGrain \/ shape[n].c = unity
    <3> SUFFICES ASSUME NEW n \in Live(shape)
                 PROVE  shape[n].c # 0 /\ (lsb(shape[n].c) >= args.minGrain \/ shape[n].c = unity)
      OBVIOUS
    <3>1. n \in DOMAIN shape /\ Exposed(shape, n)
      BY DEF Live, Exposed
    <3> QED
      BY <2>2, <3>1, ExposedKept DEF Shaped
  <2> QED
    BY <2>2, <2>3, <2>4, <2>5 DEF LiveTree
<1> QED
  BY <1>1, CoverKept, PTL
=============================================================================
