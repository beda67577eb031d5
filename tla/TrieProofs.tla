----------------------------- MODULE TrieProofs -----------------------------
(***************************************************************************)
(* A Trie is a dictionary, for keys of any length over any number of bytes *)
(* that is a power of two, and for any values.  The invariant says of the  *)
(* tree that each node is where the child tables of all nodes above it     *)
(* lead, and of a Put under way that so is the place it has come to.       *)
(***************************************************************************)
EXTENDS Trie, Arithmetic, SequenceTheorems

-----------------------------------------------------------------------------
(* Bytes and tables.                                                       *)

Byte == 0..Width-1

\* A sequence of bytes, a key or a part of one.
Bytes == Seq(Byte)

\* Contents of a node.
Contents == [suffix : Bytes, value : Values \cup {Nil}, base : Byte, len : Nat]

\* A child table is empty, or starts at a multiple of its length, a power of two.
TableOK(n) ==
  n.len = 0 \/ /\ n.len \in {doubled[d] : d \in 0..Doublings}
               /\ n.base % n.len = 0 /\ n.base + n.len <= Width

\* Table lengths are powers of two, up to the number of bytes.
LEMMA Lengths ==
  /\ Doublings \in Nat /\ Width \in Nat \ {0} /\ Width = doubled[Doublings]
  /\ doubled[0] = 1 /\ \A d \in 0..Doublings : doubled[d] \in Nat \ {0}
  /\ \A d \in 0..Doublings-1 : doubled[d + 1] = 2 * doubled[d]
  /\ \A d \in 0..Doublings : Multiple(Width, doubled[d])
<1>1. Doublings \in Nat /\ Width = doubled[Doublings] /\ doubled = CHOOSE f : Doubles(f, Doublings)
  BY ByteAssumption DEF doubled, Doubles
<1>2. /\ doubled \in [0..Doublings -> Nat \ {0}] /\ doubled[0] = 1
      /\ \A d \in 0..Doublings-1 : doubled[d + 1] = 2 * doubled[d]
  BY <1>1, DoublingRecursion
<1>3. Doublings \in 0..Doublings /\ \A d \in 0..Doublings : doubled[d] \in Nat \ {0}
  <2>1. Doublings \in 0..Doublings
    BY <1>1
  <2> QED
    BY <1>2, <2>1
<1>4. ASSUME NEW d \in 0..Doublings PROVE Multiple(Width, doubled[d])
  <2>1. CASE d = Doublings
    BY <1>1, <1>3, <2>1, MultipleClosed
  <2>2. CASE d < Doublings
    <3>1. Multiple(Width, 2 * doubled[d])
      BY <1>1, <1>3, <2>2, DoublingMultiples
    <3>2. Multiple(2 * doubled[d], doubled[d])
      <4>1. doubled[d] \in Nat \ {0} /\ 2 * doubled[d] = doubled[d] * 2
        BY <1>3
      <4> QED
        BY <4>1 DEF Multiple
    <3> QED
      BY <1>1, <1>3, <3>1, <3>2, MultipleOfMultiple
  <2> QED
    BY <1>1, <2>1, <2>2
<1> QED
  BY <1>1, <1>2, <1>3, <1>4

\* A Trie that is not there has no table and no value.
LEMMA ZeroIs == ZeroTrie \in Contents /\ ZeroTrie.len = 0 /\ ZeroTrie.value = Nil /\ Table(ZeroTrie) = {}
<1>1. <<>> \in Bytes /\ 0 \in Byte /\ 0 \in Nat
  BY Lengths DEF Bytes, Byte
<1> HIDE DEF Byte, Bytes
<1>2. ZeroTrie \in Contents /\ ZeroTrie.len = 0 /\ ZeroTrie.value = Nil /\ ZeroTrie.base = 0
  BY <1>1 DEF ZeroTrie, Contents
<1> QED
  BY <1>2 DEF Table

\* A table doubled: its base is masked to a multiple of the new length.  As both
\* lengths divide the number of bytes, it holds what it held and still fits.
LEMMA TableDoubles ==
  ASSUME NEW B \in Byte, NEW L \in Nat \ {0}, B % L = 0, Multiple(Width, 2 * L)
  PROVE  LET C == B - (B % (2 * L))
         IN  /\ C \in Byte /\ C % (2 * L) = 0 /\ C + 2 * L <= Width
             /\ C <= B /\ B + L <= C + 2 * L
<1> DEFINE P == 2 * L
           x == B % P
           q == B \div P
           C == B - x
<1>0. Width \in Nat /\ P \in Nat \ {0} /\ B \in Nat /\ B < Width /\ Multiple(Width, P)
  BY Lengths DEF Byte
<1>1. q \in Nat /\ x \in 0..P-1 /\ B = q * P + x
  <2> HIDE DEF P
  <2> QED
    BY <1>0, DivMod
<1>2. C \in Nat /\ C <= B /\ C = q * P /\ q * P \in Nat
  <2>1. q * P \in Nat
    <3> HIDE DEF q, P
    <3> QED
      BY <1>0, <1>1, Z3T(30)
  <2> HIDE DEF q, P, x
  <2> QED
    BY <1>0, <1>1, <2>1
<1>3. Multiple(C, P) /\ Multiple(C, L) /\ Multiple(B, L)
  <2>1. q * P = P * q /\ P * q = L * (2 * q)
    <3> HIDE DEF q
    <3> QED
      BY <1>1, Z3T(30)
  <2>2. Multiple(C, P) /\ Multiple(C, L)
    <3>1. q \in Nat /\ 2 * q \in Nat /\ C = P * q /\ C = L * (2 * q)
      <4> HIDE DEF q, P, C
      <4> QED
        BY <1>1, <1>2, <2>1
    <3> HIDE DEF q, P, C
    <3> QED
      BY <3>1 DEF Multiple
  <2>3. Multiple(B, L)
    BY <1>0, MultipleRest
  <2> QED
    BY <2>2, <2>3
<1>4. C % P = 0
  <2> HIDE DEF P, C
  <2> QED
    BY <1>0, <1>2, <1>3, MultipleRest
<1>5. C + P <= Width
  <2>1. C < Width
    BY <1>0, <1>2
  <2> HIDE DEF P, C
  <2> QED
    BY <1>0, <1>2, <1>3, <2>1, MultipleGap
<1>6. B + L <= C + P
  <2>1. Multiple(C + P, L)
    <3>1. Multiple(P, L)
      <4>1. P = L * 2
        OBVIOUS
      <4> QED
        BY <4>1 DEF Multiple
    <3> HIDE DEF P, C
    <3> QED
      BY <1>0, <1>2, <1>3, <3>1, MultipleClosed
  <2>2. B < C + P /\ C + P \in Nat
    <3> HIDE DEF P, q
    <3> QED
      BY <1>0, <1>1, <1>2
  <2> HIDE DEF P, C
  <2> QED
    BY <1>0, <1>3, <2>1, <2>2, MultipleGap
<1>7. C \in Byte
  <2> HIDE DEF C
  <2> QED
    BY <1>0, <1>2 DEF Byte
<1> QED
  BY <1>2, <1>4, <1>5, <1>6, <1>7

\* The least of some numbers, and the greatest of some below a bound.
LEMMA LeastIs ==
  ASSUME NEW S \in SUBSET Nat, S # {}
  PROVE  Min(S) \in S /\ \A y \in S : Min(S) <= y
<1>1. \E x \in S : \A y \in S : x <= y
  BY LeastNat
<1> QED
  BY <1>1 DEF Min

LEMMA GreatestIs ==
  ASSUME NEW S \in SUBSET Nat, S # {}, NEW b \in Nat, \A x \in S : x <= b
  PROVE  Max(S) \in S /\ \A y \in S : y <= Max(S)
<1>1. \E x \in S : \A y \in S : y <= x
  BY GreatestNat
<1>2. \A x \in S : (\A y \in S : x >= y) <=> (\A y \in S : y <= x)
  OBVIOUS
<1> QED
  BY <1>1, <1>2 DEF Max

\* One turn of the loop that grows a table.
Twice(m) == [m EXCEPT !.len = 2*@, !.base = @ - (@ % (2*m.len))]

\* The loop that grows a table is a recursion over the number of turns.
LEMMA GrownRecursion ==
  ASSUME NEW n \in Contents, n.len # 0, NEW b
  PROVE  \E h : /\ h[0] = n /\ \A d \in 0..Doublings-1 : h[d + 1] = Twice(h[d])
                /\ Grown(n, b) = h[Min({d \in 0..Doublings : b \in Table(h[d])})]
<1> DEFINE S == 0..Doublings
           R == [suffix : Bytes, value : Values \cup {Nil}, base : Nat, len : Nat \ {0}]
           T == [d \in S |-> d # 0]
           N == [d \in S |-> d - 1]
           G == [d \in S |-> [y \in R |-> Twice(y)]]
           V == [d \in S |-> n]
           m == [d \in S |-> d]
           Is(f) == f = [d \in 0..Doublings |->
                           IF d = 0 THEN n
                           ELSE LET y == f[d - 1]
                                IN  [y EXCEPT !.len = 2*@, !.base = @ - (@ % (2*y.len))]]
           h == CHOOSE f : Is(f)
<1>0. Doublings \in Nat /\ n \in R
  BY Lengths DEF Contents, Byte
<1>1. \A y \in R : Twice(y) \in R
  <2> SUFFICES ASSUME NEW y \in R PROVE Twice(y) \in R
    OBVIOUS
  <2>1. y.len \in Nat \ {0} /\ y.base \in Nat /\ 2 * y.len \in Nat \ {0}
    OBVIOUS
  <2> DEFINE p == 2 * y.len
             c == y.base
  <2>2. c % p \in 0..p-1 /\ c % p \in Nat
    <3> HIDE DEF p, c
    <3>1. p \in Nat \ {0} /\ c \in Nat
      BY <2>1 DEF p, c
    <3> QED
      BY <3>1, DivMod
  <2>3. c - (c % p) \in Nat
    <3>1. c = (c \div p) * p + (c % p) /\ c \div p \in Nat
      <4> HIDE DEF p, c
      <4>1. p \in Nat \ {0} /\ c \in Nat
        BY <2>1 DEF p, c
      <4> QED
        BY <4>1, DivMod
    <3>2. \A x, z \in Nat : x * z \in Nat
      BY Z3T(30)
    <3>3. c \in Nat /\ p \in Nat
      BY <2>1
    <3> DEFINE k == (c \div p) * p
    <3>4. k \in Nat /\ c = k + (c % p)
      BY <3>1, <3>2, <3>3
    <3> HIDE DEF k, p, c
    <3> QED
      BY <2>2, <3>4
  <2> QED
    BY <2>1, <2>3 DEF Twice
<1>2. PICK g \in [S -> R] : Solves(g, S, T, N, G, V)
  <2>1. Falls(S, T, N, m, Doublings + 1)
    <3>1. m \in [S -> Nat] /\ \A d \in S : m[d] < Doublings + 1
      BY <1>0
    <3>2. \A d \in S : T[d] => N[d] \in S /\ m[N[d]] < m[d]
      <4>1. \A d \in S : (T[d] <=> d # 0) /\ N[d] = d - 1 /\ m[d] = d
        OBVIOUS
      <4>2. \A d \in S : d # 0 => d - 1 \in S /\ d - 1 < d
        BY <1>0
      <4> HIDE DEF S, T, N, m
      <4> QED
        BY <4>1, <4>2
    <3> HIDE DEF S, T, N, m
    <3> QED
      BY <3>1, <3>2 DEF Falls
  <2>2. G \in [S -> [R -> R]] /\ V \in [S -> R] /\ Doublings + 1 \in Nat
    <3> HIDE DEF S, R
    <3> QED
      BY <1>0, <1>1
  <2> HIDE DEF S, R, T, N, G, V, m
  <2> QED
    BY <2>1, <2>2, RecursionExists
<1>3. \A d \in S : g[d] = IF d = 0 THEN n ELSE Twice(g[d - 1])
  <2> SUFFICES ASSUME NEW d \in S PROVE g[d] = IF d = 0 THEN n ELSE Twice(g[d - 1])
    OBVIOUS
  <2>1. g[d] = IF T[d] THEN G[d][g[N[d]]] ELSE V[d]
    BY <1>2 DEF Solves
  <2>2. (T[d] <=> d # 0) /\ N[d] = d - 1 /\ V[d] = n /\ \A y \in R : G[d][y] = Twice(y)
    <3> HIDE DEF R
    <3> QED
      OBVIOUS
  <2>3. d # 0 => g[d - 1] \in R
    <3>1. d # 0 => d - 1 \in S
      BY <1>0
    <3> HIDE DEF S, R
    <3> QED
      BY <1>2, <3>1
  <2> HIDE DEF T, N, V, G, R
  <2> QED
    BY <2>1, <2>2, <2>3
<1>4. Is(g)
  <2>1. g = [d \in S |-> g[d]]
    <3> HIDE DEF S, R
    <3> QED
      BY <1>2
  <2> QED
    BY <1>3, <2>1 DEF Twice
<1>5. Is(h)
  <2> HIDE DEF Is
  <2> QED
    BY <1>4
<1>6. \A d \in S : h[d] = IF d = 0 THEN n ELSE Twice(h[d - 1])
  <2> HIDE DEF h
  <2> QED
    BY <1>5 DEF Twice
<1>7. Grown(n, b) = h[Min({d \in 0..Doublings : b \in Table(h[d])})]
  BY DEF Grown
<1> HIDE DEF h
<1>8. h[0] = n /\ \A d \in 0..Doublings-1 : h[d + 1] = Twice(h[d])
  <2>1. 0 \in S /\ \A d \in 0..Doublings-1 : d + 1 \in S /\ d + 1 # 0 /\ (d + 1) - 1 = d
    BY <1>0
  <2> HIDE DEF S
  <2> QED
    BY <1>6, <2>1
<1> QED
  BY <1>7, <1>8

\* A node grown for a byte has a child for it and for every byte it had one for, in a
\* table that is still well placed; its suffix and value stay.
LEMMA GrownKeeps ==
  ASSUME NEW n \in Contents, TableOK(n), NEW b \in Byte
  PROVE  LET g == Grown(n, b)
         IN  /\ g \in Contents /\ TableOK(g) /\ g.suffix = n.suffix /\ g.value = n.value
             /\ b \in Table(g) /\ Table(n) \subseteq Table(g)
<1>0. Doublings \in Nat /\ Width \in Nat \ {0} /\ b \in Nat /\ b < Width
  BY Lengths DEF Byte
<1>1. CASE n.len = 0
  <2> DEFINE g == [n EXCEPT !.base = b, !.len = 1]
  <2>1. Grown(n, b) = g
    BY <1>1 DEF Grown
  <2>2. g \in Contents /\ g.suffix = n.suffix /\ g.value = n.value /\ g.base = b /\ g.len = 1
    BY DEF Contents
  <2> HIDE DEF g
  <2>3. TableOK(g)
    <3>1. 0 \in 0..Doublings /\ doubled[0] = 1
      BY <1>0, Lengths
    <3>2. b % 1 = 0 /\ b + 1 <= Width
      BY <1>0
    <3> QED
      BY <2>2, <3>1, <3>2 DEF TableOK
  <2>4. b \in Table(g) /\ Table(n) = {}
    BY <1>0, <1>1, <2>2 DEF Table, Contents, Byte
  <2> QED
    BY <2>1, <2>2, <2>3, <2>4
<1>2. CASE n.len # 0
  <2>1. PICK h : /\ h[0] = n /\ \A d \in 0..Doublings-1 : h[d + 1] = Twice(h[d])
                 /\ Grown(n, b) = h[Min({d \in 0..Doublings : b \in Table(h[d])})]
    BY <1>2, GrownRecursion
  <2>2. PICK j \in 0..Doublings : n.len = doubled[j]
    BY <1>2 DEF TableOK
  <2> DEFINE Good(m, d) ==
               /\ m \in Contents /\ TableOK(m) /\ m.suffix = n.suffix /\ m.value = n.value
               /\ m.len = doubled[d] /\ Table(n) \subseteq Table(m)
             U == {d \in Nat : j + d <= Doublings => Good(h[d], j + d)}
  <2>3. 0 \in U
    <3>1. j + 0 = j
      BY <2>2
    <3> QED
      BY <2>1, <2>2, <3>1
  <2>4. ASSUME NEW d \in Nat, d \in U PROVE d + 1 \in U
    <3> SUFFICES ASSUME j + (d + 1) <= Doublings PROVE Good(h[d + 1], j + (d + 1))
      OBVIOUS
    <3> DEFINE m == h[d]
               k == j + d
               L == m.len
               C == m.base - (m.base % (2 * L))
    <3>1. k \in 0..Doublings-1 /\ k + 1 \in 0..Doublings /\ d \in 0..Doublings-1 /\ j + (d + 1) = k + 1
      BY <1>0, <2>2
    <3>2. Good(m, k)
      <4>1. j + d <= Doublings
        BY <1>0, <2>2, <3>1
      <4> HIDE DEF Good
      <4> QED
        BY <2>4, <4>1
    <3>3. /\ L \in Nat \ {0} /\ L = doubled[k] /\ doubled[k + 1] = 2 * L /\ Multiple(Width, 2 * L)
      <4>1. L = doubled[k]
        BY <3>2
      <4>2. doubled[k] \in Nat \ {0} /\ doubled[k + 1] = 2 * doubled[k] /\ Multiple(Width, doubled[k + 1])
        BY <3>1, Lengths
      <4> QED
        BY <4>1, <4>2
    <3>4. m \in Contents /\ m.base \in Byte /\ m.base % L = 0
      BY <3>2, <3>3 DEF Contents, TableOK
    <3>5. /\ C \in Byte /\ C % (2 * L) = 0 /\ C + 2 * L <= Width
          /\ C <= m.base /\ m.base + L <= C + 2 * L
      <4> HIDE DEF m
      <4> QED
        BY <3>3, <3>4, TableDoubles
    <3>6. h[d + 1] = [m EXCEPT !.len = 2 * L, !.base = C]
      BY <2>1, <3>1 DEF Twice
    <3> DEFINE w == h[d + 1]
    <3>7. /\ w \in Contents /\ w.suffix = m.suffix /\ w.value = m.value /\ w.len = 2 * L /\ w.base = C
      <4> DEFINE K == 2 * L
      <4>1. K \in Nat /\ C \in Byte /\ w = [m EXCEPT !.len = K, !.base = C] /\ m \in Contents
        BY <3>3, <3>4, <3>5, <3>6
      <4> HIDE DEF m, C, K, w
      <4>2. w \in Contents /\ w.suffix = m.suffix /\ w.value = m.value /\ w.len = K /\ w.base = C
        BY <4>1 DEF Contents
      <4> QED
        BY <4>2 DEF K
    <3> HIDE DEF m, C, w
    <3>8. Table(m) \subseteq Table(w)
      <4>1. C \in Nat /\ m.base \in Nat /\ L \in Nat
        BY <1>0, <3>3, <3>4, <3>5 DEF Byte
      <4> QED
        BY <3>5, <3>7, <4>1 DEF Table
    <3>9. TableOK(w)
      BY <3>1, <3>3, <3>5, <3>7 DEF TableOK
    <3>10. w.len = doubled[k + 1]
      BY <3>3, <3>7
    <3>11. Good(w, k + 1)
      BY <3>2, <3>7, <3>8, <3>9, <3>10
    <3> QED
      BY <3>1, <3>11 DEF w
  <2>5. \A d \in Nat : d \in U
    <3> HIDE DEF U
    <3> QED
      BY <2>3, <2>4, SetInduction
  <2> HIDE DEF Good
  <2>6. ASSUME NEW d \in 0..Doublings, d <= Doublings - j PROVE Good(h[d], j + d)
    <3>1. d \in Nat /\ j + d <= Doublings
      BY <1>0, <2>6
    <3> QED
      BY <2>5, <3>1
  <2> DEFINE D == Doublings - j
             X == {d \in 0..Doublings : b \in Table(h[d])}
  <2>7. D \in 0..Doublings /\ j + D = Doublings
    BY <1>0
  <2>8. D \in X
    <3> DEFINE m == h[D]
    <3>1. Good(m, Doublings)
      BY <2>6, <2>7
    <3> HIDE DEF m
    <3>2. m \in Contents /\ m.len = Width /\ TableOK(m)
      BY <3>1, Lengths DEF Good
    <3>3. m.base \in Nat /\ m.base + Width <= Width
      BY <1>0, <3>2 DEF Contents, TableOK, Byte
    <3>4. m.base = 0
      BY <1>0, <3>3
    <3>5. b \in Table(m)
      BY <1>0, <3>2, <3>4 DEF Table
    <3> QED
      BY <2>7, <3>5 DEF m
  <2>9. X \in SUBSET Nat /\ X # {}
    BY <2>8
  <2> DEFINE M == Min(X)
  <2>10. M \in X /\ M <= D
    <3> HIDE DEF X
    <3> QED
      BY <2>8, <2>9, LeastIs
  <2>11. Good(h[M], j + M) /\ b \in Table(h[M]) /\ Grown(n, b) = h[M]
    BY <2>1, <2>6, <2>10
  <2> QED
    BY <2>11 DEF Good
<1> QED
  BY <1>1, <1>2

-----------------------------------------------------------------------------
(* Keys and their beginnings.                                              *)

Begins(p, q) == Len(p) <= Len(q) /\ \A i \in 1..Len(p) : p[i] = q[i]

\* What a sequence of bytes is.
LEMMA BytesAre ==
  ASSUME NEW p \in Bytes
  PROVE  Len(p) \in Nat /\ \A i \in 1..Len(p) : p[i] \in Byte
<1>1. p \in Seq(Byte)
  BY DEF Bytes
<1> HIDE DEF Byte
<1> QED
  BY <1>1, LenProperties, ElementOfSeq

\* Two sequences of the same length of which one begins the other are the same.
LEMMA BeginsSame ==
  ASSUME NEW p \in Bytes, NEW q \in Bytes, Begins(p, q), Len(p) >= Len(q)
  PROVE  p = q
<1>1. p \in Seq(Byte) /\ q \in Seq(Byte) /\ Len(p) \in Nat /\ Len(q) \in Nat
  BY BytesAre DEF Bytes
<1>2. Len(p) = Len(q) /\ \A i \in 1..Len(p) : p[i] = q[i]
  BY <1>1 DEF Begins
<1> HIDE DEF Byte
<1> QED
  BY <1>1, <1>2, SeqEqual

LEMMA BeginsTrans ==
  ASSUME NEW p \in Bytes, NEW q \in Bytes, NEW r \in Bytes, Begins(p, q), Begins(q, r)
  PROVE  Begins(p, r)
<1>1. Len(p) \in Nat /\ Len(q) \in Nat /\ Len(r) \in Nat
  BY BytesAre
<1> QED
  BY <1>1 DEF Begins

\* Of two beginnings of a sequence the shorter begins the longer.
LEMMA BeginsOrdered ==
  ASSUME NEW p \in Bytes, NEW q \in Bytes, NEW r \in Bytes, Begins(p, r), Begins(q, r),
         Len(p) <= Len(q)
  PROVE  Begins(p, q)
<1>1. Len(p) \in Nat /\ Len(q) \in Nat /\ Len(r) \in Nat
  BY BytesAre
<1> QED
  BY <1>1 DEF Begins

\* One sequence behind another.
LEMMA Behind ==
  ASSUME NEW p \in Bytes, NEW s \in Bytes
  PROVE  /\ p \o s \in Bytes /\ Len(p \o s) = Len(p) + Len(s) /\ Begins(p, p \o s)
         /\ \A i \in 1..Len(s) : (p \o s)[Len(p) + i] = s[i]
<1>1. p \in Seq(Byte) /\ s \in Seq(Byte) /\ Len(p) \in Nat /\ Len(s) \in Nat
  BY BytesAre DEF Bytes
<1>2. /\ p \o s \in Seq(Byte) /\ Len(p \o s) = Len(p) + Len(s)
      /\ \A i \in 1..Len(p) + Len(s) : (p \o s)[i] = IF i <= Len(p) THEN p[i] ELSE s[i - Len(p)]
  <2> HIDE DEF Byte
  <2> QED
    BY <1>1, ConcatProperties
<1>3. Begins(p, p \o s)
  <2>1. \A i \in 1..Len(p) : i \in 1..Len(p) + Len(s) /\ i <= Len(p)
    BY <1>1
  <2> QED
    BY <1>1, <1>2, <2>1 DEF Begins
<1>4. \A i \in 1..Len(s) : (p \o s)[Len(p) + i] = s[i]
  <2>1. \A i \in 1..Len(s) : /\ Len(p) + i \in 1..Len(p) + Len(s) /\ ~(Len(p) + i <= Len(p))
                             /\ (Len(p) + i) - Len(p) = i
    BY <1>1
  <2> QED
    BY <1>2, <2>1
<1> QED
  BY <1>2, <1>3, <1>4 DEF Bytes

\* A piece of a sequence.
LEMMA Piece ==
  ASSUME NEW s \in Bytes, NEW m \in 1..Len(s) + 1, NEW n \in 0..Len(s), m <= n + 1
  PROVE  /\ SubSeq(s, m, n) \in Bytes /\ Len(SubSeq(s, m, n)) = n - m + 1
         /\ \A i \in 1..n - m + 1 : SubSeq(s, m, n)[i] = s[m + i - 1]
<1>1. Len(s) \in Nat /\ \A i \in 1..Len(s) : s[i] \in Byte
  BY BytesAre
<1>2. m \in Int /\ n \in Int /\ (m <= n \/ n - m + 1 = 0) /\ \A i \in m..n : s[i] \in Byte
  BY <1>1
<1>3. /\ SubSeq(s, m, n) \in Seq(Byte) /\ Len(SubSeq(s, m, n)) = IF m <= n THEN n - m + 1 ELSE 0
      /\ \A i \in 1..n - m + 1 : SubSeq(s, m, n)[i] = s[m + i - 1]
  <2> HIDE DEF Byte
  <2> QED
    BY <1>2, SubSeqProperties
<1> QED
  BY <1>2, <1>3 DEF Bytes

\* One byte behind a sequence.
LEMMA OneMore ==
  ASSUME NEW p \in Bytes, NEW b \in Byte
  PROVE  /\ p \o <<b>> \in Bytes /\ Len(p \o <<b>>) = Len(p) + 1
         /\ Begins(p, p \o <<b>>) /\ (p \o <<b>>)[Len(p) + 1] = b
<1> DEFINE s == <<b>>
<1>1. s \in Seq(Byte) /\ Len(s) = 1 /\ s[1] = b
  OBVIOUS
<1> HIDE DEF s
<1>2. 1 \in 1..Len(s)
  BY <1>1
<1> QED
  BY <1>1, <1>2, Behind DEF Bytes, s

\* A sequence behind another, cut at a byte: the place up to and with the byte is one
\* more than the part before, and the rest completes it.
LEMMA CutAt ==
  ASSUME NEW p \in Bytes, NEW x \in Bytes, NEW s \in 0..Len(x) - 1
  PROVE  LET g == p \o SubSeq(x, 1, s)
             c == p \o SubSeq(x, 1, s + 1)
             y == SubSeq(x, s + 2, Len(x))
         IN  /\ x[s + 1] \in Byte /\ SubSeq(x, 1, s) \in Bytes /\ y \in Bytes
             /\ g \in Bytes /\ c \in Bytes /\ Len(g) = Len(p) + s
             /\ c = g \o <<x[s + 1]>> /\ c \o y = p \o x
<1> DEFINE h == SubSeq(x, 1, s)
           k == SubSeq(x, 1, s + 1)
           y == SubSeq(x, s + 2, Len(x))
           b == x[s + 1]
<1>1. /\ x \in Seq(Byte) /\ p \in Seq(Byte) /\ Len(x) \in Nat /\ Len(p) \in Nat
      /\ \A i \in 1..Len(x) : x[i] \in Byte
  BY BytesAre DEF Bytes
<1>2. /\ 1 \in 1..Len(x) + 1 /\ s + 2 \in 1..Len(x) + 1 /\ s \in 0..Len(x) /\ s + 1 \in 0..Len(x)
      /\ Len(x) \in 0..Len(x) /\ 1 <= s + 1 /\ 1 <= (s + 1) + 1 /\ s + 2 <= Len(x) + 1
      /\ 1 \in 1..Len(x) /\ s + 1 \in 1..Len(x) /\ (s + 1) - 1 = s /\ s - 1 + 1 = s
      /\ s + 1 \in 1 - 1..Len(x) /\ Len(x) \in s + 1..Len(x) /\ (s + 1) + 1 = s + 2
  BY <1>1
<1>3. h \in Bytes /\ k \in Bytes /\ y \in Bytes /\ b \in Byte /\ Len(h) = s
  BY <1>1, <1>2, Piece
<1>4. k = h \o <<b>> /\ k \o y = x
  <2>1. k = SubSeq(x, 1, (s + 1) - 1) \o <<x[s + 1]>>
    <3> HIDE DEF Byte
    <3> QED
      BY <1>1, <1>2, SubSeqRecursiveSecond
  <2>2. k \o SubSeq(x, (s + 1) + 1, Len(x)) = SubSeq(x, 1, Len(x)) /\ SubSeq(x, 1, Len(x)) = x
    <3>1. 1 \in 1..Len(x) + 1 /\ s + 1 \in 1 - 1..Len(x) /\ Len(x) \in s + 1..Len(x)
      BY <1>2
    <3> HIDE DEF Byte
    <3>2. k \o SubSeq(x, (s + 1) + 1, Len(x)) = SubSeq(x, 1, Len(x))
      BY <1>1, <3>1, ConcatAdjacentSubSeq
    <3> QED
      BY <1>1, <3>2, SubSeqFull
  <2> QED
    BY <1>2, <2>1, <2>2
<1> HIDE DEF h, k, y, b
<1>5. /\ p \o h \in Bytes /\ Len(p \o h) = Len(p) + s /\ p \o k \in Bytes
  BY <1>3, Behind
<1>6. p \o k = (p \o h) \o <<b>> /\ (p \o k) \o y = p \o x
  <2>1. p \in Seq(Byte) /\ h \in Seq(Byte) /\ k \in Seq(Byte) /\ y \in Seq(Byte) /\ <<b>> \in Seq(Byte)
    BY <1>1, <1>3 DEF Bytes
  <2> DEFINE e == <<b>>
  <2>2. e \in Seq(Byte)
    BY <2>1
  <2> HIDE DEF Byte, e
  <2>3. (p \o h) \o e = p \o (h \o e)
    BY <2>1, <2>2, ConcatAssociative, SMTT(30)
  <2>4. (p \o k) \o y = p \o (k \o y)
    BY <2>1, ConcatAssociative, SMTT(30)
  <2> QED
    BY <1>4, <2>3, <2>4 DEF e
<1> QED
  BY <1>3, <1>5, <1>6 DEF h, k, y, b

\* A key in two parts.
LEMMA Parts ==
  ASSUME NEW k \in Bytes, NEW a \in 0..Len(k)
  PROVE  LET c == SubSeq(k, 1, a)
             r == SubSeq(k, a + 1, Len(k))
         IN  /\ c \in Bytes /\ r \in Bytes /\ Len(c) = a /\ Len(r) = Len(k) - a
             /\ c \o r = k /\ Begins(c, k) /\ \A i \in 1..Len(r) : r[i] = k[a + i]
<1> DEFINE c == SubSeq(k, 1, a)
           r == SubSeq(k, a + 1, Len(k))
<1>1. Len(k) \in Nat /\ a \in Nat /\ a <= Len(k)
  BY BytesAre
<1>2. /\ 1 \in 1..Len(k) + 1 /\ 1 <= a + 1 /\ a - 1 + 1 = a
      /\ a + 1 \in 1..Len(k) + 1 /\ Len(k) \in 0..Len(k) /\ a + 1 <= Len(k) + 1
      /\ Len(k) - (a + 1) + 1 = Len(k) - a
  BY <1>1
<1>3. /\ c \in Bytes /\ r \in Bytes /\ Len(c) = a /\ Len(r) = Len(k) - a
      /\ \A i \in 1..Len(k) - a : r[i] = k[(a + 1) + i - 1]
  BY <1>2, Piece
<1>4. c \o r = k
  <2>1. k \in Seq(Byte) /\ 1 \in 1..Len(k) + 1 /\ a \in 1 - 1..Len(k) /\ Len(k) \in a..Len(k)
    BY <1>1 DEF Bytes
  <2> HIDE DEF Byte
  <2>2. SubSeq(k, 1, a) \o SubSeq(k, a + 1, Len(k)) = SubSeq(k, 1, Len(k))
    BY <2>1, ConcatAdjacentSubSeq
  <2> QED
    BY <2>1, <2>2, SubSeqFull
<1>5. \A i \in 1..Len(k) - a : (a + 1) + i - 1 = a + i
  BY <1>1
<1> HIDE DEF c, r
<1>6. Begins(c, k)
  BY <1>3, <1>4, Behind
<1> QED
  BY <1>3, <1>4, <1>5, <1>6 DEF c, r

\* A beginning is the part of its length.
LEMMA BeginningIs ==
  ASSUME NEW d \in Bytes, NEW k \in Bytes, Begins(d, k)
  PROVE  SubSeq(k, 1, Len(d)) = d /\ Len(d) \in 0..Len(k)
<1> DEFINE v == SubSeq(k, 1, Len(d))
<1>1. Len(d) \in 0..Len(k) /\ Len(d) \in Nat
  BY BytesAre DEF Begins
<1>2. v \in Bytes /\ Len(v) = Len(d) /\ Begins(v, k)
  BY <1>1, Parts
<1> HIDE DEF v
<1>3. Begins(d, v)
  BY <1>1, <1>2, BeginsOrdered
<1>4. d = v
  BY <1>1, <1>2, <1>3, BeginsSame
<1> QED
  BY <1>1, <1>4 DEF v

\* commonPrefix counts the bytes before the first one that differs.
LEMMA CommonPrefixIs ==
  ASSUME NEW a \in Bytes, NEW b \in Bytes
  PROVE  LET s == CommonPrefix(a, b)
         IN  /\ s \in Nat /\ s <= Len(a) /\ s <= Len(b)
             /\ \A i \in 1..s : a[i] = b[i]
             /\ s < Len(a) /\ s < Len(b) => a[s + 1] # b[s + 1]
<1> DEFINE l == Min({Len(a), Len(b)})
           X == {i \in 0..l : SubSeq(a, 1, i) = SubSeq(b, 1, i)}
           s == Max(X)
<1>0. Len(a) \in Nat /\ Len(b) \in Nat /\ CommonPrefix(a, b) = s
  BY BytesAre DEF CommonPrefix
<1>1. l \in Nat /\ l <= Len(a) /\ l <= Len(b) /\ (l = Len(a) \/ l = Len(b))
  <2> DEFINE S == {Len(a), Len(b)}
  <2>1. S \in SUBSET Nat /\ S # {}
    BY <1>0
  <2>2. Min(S) \in S /\ \A y \in S : Min(S) <= y
    <3> HIDE DEF S
    <3> QED
      BY <2>1, LeastIs
  <2> QED
    BY <1>0, <2>2
<1> HIDE DEF l
<1>2. ASSUME NEW i \in 0..l
      PROVE  SubSeq(a, 1, i) = SubSeq(b, 1, i) <=> \A j \in 1..i : a[j] = b[j]
  <2> DEFINE u == SubSeq(a, 1, i)
             v == SubSeq(b, 1, i)
  <2>1. /\ 1 \in 1..Len(a) + 1 /\ 1 \in 1..Len(b) + 1 /\ 1 <= i + 1 /\ i \in 0..Len(a)
        /\ i \in 0..Len(b) /\ i - 1 + 1 = i /\ \A j \in 1..i : 1 + j - 1 = j
    BY <1>0, <1>1
  <2>2. /\ u \in Bytes /\ v \in Bytes /\ Len(u) = i /\ Len(v) = i
        /\ \A j \in 1..i : u[j] = a[j] /\ v[j] = b[j]
    BY <2>1, Piece
  <2> HIDE DEF u, v
  <2>3. u = v <=> Begins(u, v)
    BY <2>2, BeginsSame DEF Begins
  <2>4. Begins(u, v) <=> \A j \in 1..i : a[j] = b[j]
    BY <2>2 DEF Begins
  <2> QED
    BY <2>3, <2>4 DEF u, v
<1>3. X \in SUBSET Nat /\ 0 \in X /\ \A i \in X : i <= l
  BY <1>1, <1>2
<1>4. s \in X /\ \A i \in X : i <= s
  <2> HIDE DEF X
  <2> QED
    BY <1>1, <1>3, GreatestIs
<1>5. s \in 0..l /\ \A i \in 1..s : a[i] = b[i]
  BY <1>2, <1>4
<1>6. ASSUME s < Len(a), s < Len(b), a[s + 1] = b[s + 1] PROVE FALSE
  <2>1. s + 1 \in 0..l
    BY <1>0, <1>1, <1>5, <1>6
  <2>2. \A j \in 1..s + 1 : a[j] = b[j]
    BY <1>5, <1>6
  <2>3. s + 1 \in X
    BY <1>2, <2>1, <2>2
  <2> HIDE DEF X
  <2> QED
    BY <1>4, <1>5, <2>3
<1> HIDE DEF s
<1> QED
  BY <1>0, <1>1, <1>5, <1>6

\* Up to there two keys have the same beginning.
LEMMA CommonPart ==
  ASSUME NEW a \in Bytes, NEW b \in Bytes
  PROVE  SubSeq(a, 1, CommonPrefix(a, b)) = SubSeq(b, 1, CommonPrefix(a, b))
<1> DEFINE s == CommonPrefix(a, b)
           u == SubSeq(a, 1, s)
           v == SubSeq(b, 1, s)
<1>1. /\ s \in Nat /\ s <= Len(a) /\ s <= Len(b) /\ \A i \in 1..s : a[i] = b[i]
      /\ Len(a) \in Nat /\ Len(b) \in Nat
  BY CommonPrefixIs, BytesAre
<1> HIDE DEF s
<1>2. s \in 0..Len(a) /\ s \in 0..Len(b)
  BY <1>1
<1>3. u \in Bytes /\ v \in Bytes /\ Len(u) = s /\ Len(v) = s /\ Begins(u, a) /\ Begins(v, b)
  BY <1>2, Parts
<1> HIDE DEF u, v
<1>4. Begins(u, v) /\ Len(u) >= Len(v)
  BY <1>1, <1>3 DEF Begins
<1>5. u = v
  BY <1>3, <1>4, BeginsSame
<1> QED
  BY <1>5 DEF u, v, s

-----------------------------------------------------------------------------
(* The tree.                                                               *)

\* The key at node p.
Full(t, p) == p \o t[p].suffix

\* The path to p goes through the table of node q, and p is a child of q.
Under(t, q, p) ==
  /\ Len(Full(t, q)) < Len(p) /\ Begins(Full(t, q), p)
  /\ p[Len(Full(t, q)) + 1] \in Table(t[q])

Child(t, q, p) == Under(t, q, p) /\ Len(p) = Len(Full(t, q)) + 1

\* The place p is where the tables of all nodes above it lead, the last of them at once.
Place(t, p) ==
  /\ \A q \in DOMAIN t : Begins(q, p) /\ q # p => Under(t, q, p)
  /\ p # <<>> => \E q \in DOMAIN t : Child(t, q, p)

TreeOK(t) ==
  /\ DOMAIN t \in SUBSET Bytes /\ t \in [DOMAIN t -> Contents]
  /\ \E m \in Nat : \A p \in DOMAIN t : Len(p) < m
  /\ \A p \in DOMAIN t : TableOK(t[p]) /\ Place(t, p)

\* A node and its key.
LEMMA NodeIs ==
  ASSUME NEW t, TreeOK(t), NEW p \in DOMAIN t
  PROVE  /\ p \in Bytes /\ t[p] \in Contents /\ t[p].suffix \in Bytes /\ Full(t, p) \in Bytes
         /\ Len(p) \in Nat /\ Len(Full(t, p)) = Len(p) + Len(t[p].suffix)
         /\ Len(t[p].suffix) \in Nat /\ Len(p) <= Len(Full(t, p)) /\ Begins(p, Full(t, p))
<1>1. p \in Bytes /\ t[p] \in Contents
  BY DEF TreeOK
<1>2. t[p].suffix \in Bytes
  BY <1>1 DEF Contents
<1>3. Len(p) \in Nat /\ Len(t[p].suffix) \in Nat
  BY <1>1, <1>2, BytesAre
<1> QED
  BY <1>1, <1>2, <1>3, Behind DEF Full

\* What is under a node begins with the node.
LEMMA UnderBegins ==
  ASSUME NEW t, TreeOK(t), NEW q \in DOMAIN t, NEW p \in Bytes, Under(t, q, p)
  PROVE  Begins(q, p) /\ Len(q) < Len(p) /\ q # p
<1>1. Len(q) <= Len(Full(t, q)) /\ Len(Full(t, q)) < Len(p) /\ Begins(Full(t, q), p)
  BY NodeIs DEF Under
<1>2. Len(q) \in Nat /\ Len(Full(t, q)) \in Nat /\ Len(p) \in Nat
  BY NodeIs, BytesAre
<1>3. Begins(q, p)
  BY <1>1, NodeIs, BeginsTrans
<1> QED
  BY <1>1, <1>2, <1>3

\* What is further down is under it, too.
LEMMA UnderMore ==
  ASSUME NEW t, TreeOK(t), NEW q \in DOMAIN t, NEW p \in Bytes, NEW r \in Bytes,
         Under(t, q, p), Begins(p, r)
  PROVE  Under(t, q, r)
<1> DEFINE f == Full(t, q)
<1>1. f \in Bytes /\ Len(f) \in Nat /\ Len(p) \in Nat /\ Len(r) \in Nat
  BY NodeIs, BytesAre
<1>2. Len(f) < Len(p) /\ Begins(f, p) /\ p[Len(f) + 1] \in Table(t[q])
  BY DEF Under
<1>3. Begins(f, r)
  BY <1>1, <1>2, BeginsTrans
<1>4. Len(p) <= Len(r) /\ p[Len(f) + 1] = r[Len(f) + 1]
  <2> HIDE DEF f
  <2> QED
    BY <1>1, <1>2 DEF Begins
<1>5. Len(f) < Len(r)
  BY <1>1, <1>2, <1>4
<1> QED
  BY <1>2, <1>3, <1>4, <1>5 DEF Under

\* A place that something in the tree begins with is in the tree.
LEMMA PlaceFilled ==
  ASSUME NEW t, TreeOK(t), NEW c \in Bytes, Place(t, c), NEW p \in DOMAIN t, Begins(c, p)
  PROVE  c \in DOMAIN t
<1> DEFINE L == {Len(r) : r \in {r \in DOMAIN t : Begins(c, r)}}
<1>1. L \in SUBSET Nat /\ L # {}
  BY NodeIs
<1>2. PICK l \in L : \A k \in L : l <= k
  <2> HIDE DEF L
  <2> QED
    BY <1>1, LeastNat
<1>3. PICK r \in DOMAIN t : Begins(c, r) /\ Len(r) = l
  BY <1>2
<1>4. \A s \in DOMAIN t : Begins(c, s) => Len(r) <= Len(s)
  BY <1>2, <1>3
<1> SUFFICES ASSUME c # r PROVE FALSE
  BY <1>3
<1>5. r \in Bytes /\ Len(r) \in Nat /\ Len(c) \in Nat /\ Len(c) < Len(r)
  <2>1. r \in Bytes /\ Len(r) \in Nat /\ Len(c) \in Nat
    BY <1>3, NodeIs, BytesAre
  <2>2. ~(Len(c) >= Len(r))
    BY <1>3, <2>1, BeginsSame
  <2> QED
    BY <2>1, <2>2
<1>6. r # <<>> /\ Place(t, r)
  <2>1. Len(<<>>) = 0
    BY EmptySeq
  <2> QED
    BY <1>3, <1>5, <2>1 DEF TreeOK
<1>7. PICK q \in DOMAIN t : Child(t, q, r)
  BY <1>6 DEF Place
<1>8. q \in Bytes /\ Len(q) \in Nat /\ Begins(q, r) /\ Len(q) < Len(r)
  BY <1>5, <1>7, NodeIs, UnderBegins DEF Child
<1>9. CASE Len(c) <= Len(q)
  <2>1. Begins(c, q)
    BY <1>3, <1>5, <1>8, <1>9, BeginsOrdered
  <2> QED
    BY <1>4, <1>5, <1>8, <2>1
<1>10. CASE Len(q) < Len(c)
  <2>1. Begins(q, c) /\ q # c
    BY <1>3, <1>5, <1>8, <1>10, BeginsOrdered
  <2>2. Under(t, q, c)
    BY <2>1 DEF Place
  <2>3. Len(Full(t, q)) \in Nat /\ Len(Full(t, q)) < Len(c) /\ Len(r) = Len(Full(t, q)) + 1
    BY <1>7, <2>2, NodeIs, BytesAre DEF Under, Child
  <2> QED
    BY <1>5, <2>3
<1> QED
  BY <1>5, <1>8, <1>9, <1>10

\* The root is always a place, and is in any tree that is not empty.
LEMMA Root ==
  ASSUME NEW t, TreeOK(t)
  PROVE  Place(t, <<>>) /\ (DOMAIN t # {} => <<>> \in DOMAIN t)
<1>1. <<>> \in Bytes /\ Len(<<>>) = 0
  BY EmptySeq DEF Bytes
<1>2. ASSUME NEW q \in Bytes PROVE Begins(<<>>, q) /\ (Begins(q, <<>>) => q = <<>>)
  <2>1. Len(q) \in Nat
    BY BytesAre
  <2>2. Begins(<<>>, q)
    BY <1>1, <2>1 DEF Begins
  <2>3. Begins(q, <<>>) => Len(q) >= Len(<<>>)
    BY <1>1, <2>1
  <2> QED
    BY <1>1, <2>2, <2>3, BeginsSame
<1>3. Place(t, <<>>)
  BY <1>2, NodeIs DEF Place
<1>4. ASSUME NEW p \in DOMAIN t PROVE <<>> \in DOMAIN t
  BY <1>1, <1>2, <1>3, NodeIs, PlaceFilled
<1> QED
  BY <1>3, <1>4

\* A child has a place for every byte of the table.
LEMMA ChildPlace ==
  ASSUME NEW t, TreeOK(t), NEW p \in DOMAIN t, NEW b \in Byte, b \in Table(t[p])
  PROVE  LET c == Full(t, p) \o <<b>>
         IN  Place(t, c) /\ Child(t, p, c) /\ c \in Bytes
<1> DEFINE f == Full(t, p)
           c == f \o <<b>>
<1>1. /\ p \in Bytes /\ f \in Bytes /\ Len(p) \in Nat /\ Len(f) \in Nat
      /\ Begins(p, f) /\ Len(p) <= Len(f)
  BY NodeIs, BytesAre
<1>2. c \in Bytes /\ Len(c) = Len(f) + 1 /\ Begins(f, c) /\ c[Len(f) + 1] = b
  <2> HIDE DEF f
  <2> QED
    BY <1>1, OneMore
<1> HIDE DEF c
<1>3. Len(c) \in Nat /\ Begins(p, c) /\ p # c /\ Len(p) < Len(c)
  BY <1>1, <1>2, BeginsTrans
<1>4. Under(t, p, c) /\ Child(t, p, c)
  BY <1>1, <1>2 DEF Under, Child
<1>5. ASSUME NEW r \in DOMAIN t, Begins(r, c), r # c, r # p PROVE Under(t, r, c)
  <2>1. r \in Bytes /\ Len(r) \in Nat
    BY NodeIs
  <2>2. CASE Len(r) <= Len(p)
    <3>1. Begins(r, p)
      BY <1>1, <1>2, <1>3, <1>5, <2>1, <2>2, BeginsOrdered
    <3>2. Under(t, r, p)
      BY <1>5, <3>1 DEF TreeOK, Place
    <3> QED
      BY <1>1, <1>2, <1>3, <3>2, UnderMore
  <2>3. CASE Len(p) <= Len(r)
    <3>1. Begins(p, r)
      BY <1>1, <1>2, <1>3, <1>5, <2>1, <2>3, BeginsOrdered
    <3>2. Under(t, p, r)
      BY <1>5, <3>1 DEF TreeOK, Place
    <3>3. Len(r) >= Len(c)
      BY <1>1, <1>2, <2>1, <3>2 DEF Under
    <3> QED
      BY <1>2, <1>5, <2>1, <3>3, BeginsSame
  <2> QED
    BY <1>1, <2>1, <2>2, <2>3
<1>6. Place(t, c)
  <2>1. \A r \in DOMAIN t : Begins(r, c) /\ r # c => Under(t, r, c)
    BY <1>4, <1>5
  <2> QED
    BY <1>4, <2>1 DEF Place
<1> QED
  BY <1>2, <1>4, <1>6 DEF f, c

\* No two nodes have the same key.
LEMMA KeysDiffer ==
  ASSUME NEW t, TreeOK(t), NEW p \in DOMAIN t, NEW q \in DOMAIN t, Full(t, p) = Full(t, q)
  PROVE  p = q
<1>1. ASSUME NEW r \in DOMAIN t, NEW s \in DOMAIN t, Full(t, r) = Full(t, s), Len(r) <= Len(s)
      PROVE  r = s
  <2>1. r \in Bytes /\ s \in Bytes /\ Full(t, s) \in Bytes /\ Begins(r, Full(t, s)) /\ Begins(s, Full(t, s))
    BY <1>1, NodeIs
  <2>2. Begins(r, s)
    BY <1>1, <2>1, BeginsOrdered
  <2>3. ASSUME r # s PROVE FALSE
    <3>1. Under(t, r, s)
      BY <2>2, <2>3 DEF TreeOK, Place
    <3>2. Len(Full(t, s)) < Len(s) /\ Len(s) <= Len(Full(t, s))
      BY <1>1, <3>1, NodeIs DEF Under
    <3>3. Len(Full(t, s)) \in Nat /\ Len(s) \in Nat
      BY <2>1, BytesAre
    <3> QED
      BY <3>2, <3>3
  <2> QED
    BY <2>3
<1>2. Len(p) \in Nat /\ Len(q) \in Nat
  BY NodeIs
<1> QED
  BY <1>1, <1>2

-----------------------------------------------------------------------------
(* Changes of the tree.                                                    *)

\* A tree whose tables have grown, and whose values may have changed.
LEMMA TablesGrown ==
  ASSUME NEW t, TreeOK(t), NEW u \in [DOMAIN t -> Contents],
         \A p \in DOMAIN t : /\ u[p].suffix = t[p].suffix /\ TableOK(u[p])
                             /\ Table(t[p]) \subseteq Table(u[p])
  PROVE  TreeOK(u) /\ \A c : Place(t, c) => Place(u, c)
<1>1. DOMAIN u = DOMAIN t /\ \A p \in DOMAIN t : Full(u, p) = Full(t, p)
  BY DEF Full
<1>2. \A q \in DOMAIN t : \A c : (Under(t, q, c) => Under(u, q, c)) /\ (Child(t, q, c) => Child(u, q, c))
  BY <1>1 DEF Under, Child
<1>3. ASSUME NEW c, Place(t, c) PROVE Place(u, c)
  BY <1>1, <1>2, <1>3 DEF Place
<1> QED
  BY <1>1, <1>3 DEF TreeOK

\* A place, in the tree or new, that gets contents without a table where there was
\* none.
LEMMA LeafSet ==
  ASSUME NEW t, TreeOK(t), NEW c \in Bytes, Place(t, c), c \in DOMAIN t => t[c].len = 0,
         NEW n \in Contents, n.len = 0
  PROVE  TreeOK(With(t, c, n))
<1> DEFINE u == With(t, c, n)
<1>1. /\ DOMAIN u = {c} \cup DOMAIN t /\ u[c] = n /\ \A q \in DOMAIN t : q # c => u[q] = t[q]
      /\ u = [q \in DOMAIN u |-> u[q]]
  BY DEF With
<1> HIDE DEF u
<1>2. ASSUME NEW p \in DOMAIN t, Begins(c, p) PROVE p = c
  <2>1. c \in DOMAIN t
    BY <1>2, PlaceFilled
  <2>2. ASSUME p # c PROVE FALSE
    <3>1. p[Len(Full(t, c)) + 1] \in Table(t[c])
      BY <1>2, <2>1, <2>2 DEF TreeOK, Place, Under
    <3>2. Table(t[c]) = {}
      <4>1. t[c].base \in Int /\ t[c].len = 0
        BY <2>1, NodeIs, Lengths DEF Contents, Byte
      <4> QED
        BY <4>1 DEF Table
    <3> QED
      BY <3>1, <3>2
  <2> QED
    BY <2>2
<1>3. \A q \in DOMAIN t : q # c => /\ Full(u, q) = Full(t, q)
                                   /\ \A p : Under(t, q, p) => Under(u, q, p)
                                   /\ \A p : Child(t, q, p) => Child(u, q, p)
  BY <1>1 DEF Full, Under, Child
<1>4. ASSUME NEW p \in DOMAIN u PROVE Place(u, p)
  <2>1. p \in Bytes /\ Place(t, p)
    BY <1>1 DEF TreeOK
  <2>2. ASSUME NEW q \in DOMAIN u, Begins(q, p), q # p PROVE Under(u, q, p)
    <3>1. q # c
      BY <1>1, <1>2, <2>2
    <3>2. q \in DOMAIN t /\ Under(t, q, p)
      BY <1>1, <2>1, <2>2, <3>1 DEF Place
    <3> QED
      BY <1>3, <3>1, <3>2
  <2>3. ASSUME p # <<>> PROVE \E q \in DOMAIN u : Child(u, q, p)
    <3>1. PICK q \in DOMAIN t : Child(t, q, p)
      BY <2>1, <2>3 DEF Place
    <3>2. Begins(q, p) /\ q # p
      BY <2>1, <3>1, UnderBegins DEF Child
    <3>3. q # c
      BY <1>1, <1>2, <3>2
    <3> QED
      BY <1>1, <1>3, <3>1, <3>3
  <2> QED
    BY <2>2, <2>3 DEF Place
<1>5. \A p \in DOMAIN u : p \in Bytes /\ u[p] \in Contents /\ TableOK(u[p])
  BY <1>1 DEF TreeOK, TableOK
<1>6. \E m \in Nat : \A p \in DOMAIN u : Len(p) < m
  <2>1. PICK m \in Nat : \A p \in DOMAIN t : Len(p) < m
    BY DEF TreeOK
  <2> DEFINE k == m + Len(c) + 1
  <2>2. Len(c) \in Nat /\ k \in Nat
    BY BytesAre
  <2>3. \A p \in DOMAIN u : Len(p) < k
    BY <1>1, <2>1, <2>2, NodeIs
  <2> HIDE DEF k
  <2> QED
    BY <2>2, <2>3
<1>7. u \in [DOMAIN u -> Contents] /\ DOMAIN u \in SUBSET Bytes
  BY <1>1, <1>5
<1>8. TreeOK(u)
  BY <1>4, <1>5, <1>6, <1>7 DEF TreeOK
<1> QED
  BY <1>8 DEF u

\* Node p split after s bytes of its suffix: the place of the new node, and the tree.
Part(t, p, s) == p \o SubSeq(t[p].suffix, 1, s + 1)

Parted(t, p, s) == With(With(t, Part(t, p, s), Split(t[p], s)[2]), p, Split(t[p], s)[1])

\* The contents of the node are at the new one, which is a child of it now.
LEMMA SplitKeeps ==
  ASSUME NEW t, TreeOK(t), NEW p \in DOMAIN t, NEW s \in 0..Len(t[p].suffix) - 1
  PROVE  LET u == Parted(t, p, s)
             c == Part(t, p, s)
         IN  /\ TreeOK(u) /\ DOMAIN u = DOMAIN t \cup {c} /\ c \in Bytes /\ c \notin DOMAIN t
             /\ Full(u, c) = Full(t, p) /\ u[c].value = t[p].value
             /\ u[p].value = Nil /\ u[p].suffix = SubSeq(t[p].suffix, 1, s)
             /\ \A q \in DOMAIN t : q # p => u[q] = t[q]
<1> DEFINE u == Parted(t, p, s)
           c == Part(t, p, s)
           n == t[p]
           x == n.suffix
           f == Full(t, p)
           g == p \o SubSeq(x, 1, s)
           y == SubSeq(x, s + 2, Len(x))
           b == x[s + 1]
           one == Split(n, s)[1]
           two == Split(n, s)[2]
<1>1. p \in Bytes /\ n \in Contents /\ x \in Bytes /\ f \in Bytes /\ Len(p) \in Nat /\ TableOK(n)
  BY NodeIs DEF TreeOK
<1>2. /\ b \in Byte /\ SubSeq(x, 1, s) \in Bytes /\ y \in Bytes /\ g \in Bytes /\ c \in Bytes
      /\ Len(g) = Len(p) + s /\ c = g \o <<b>> /\ c \o y = f /\ s \in Nat
  <2>1. s \in 0..Len(x) - 1 /\ Len(x) \in Nat /\ f = p \o x /\ c = p \o SubSeq(x, 1, s + 1)
    BY <1>1, BytesAre DEF Full, Part
  <2> HIDE DEF x, f
  <2>2. s \in Nat
    BY <2>1
  <2> DEFINE k == p \o SubSeq(x, 1, s + 1)
  <2>3. /\ b \in Byte /\ SubSeq(x, 1, s) \in Bytes /\ y \in Bytes /\ g \in Bytes /\ k \in Bytes
        /\ Len(g) = Len(p) + s /\ k = g \o <<b>> /\ k \o y = p \o x
    BY <1>1, <2>1, CutAt, ZenonT(30)
  <2>4. c = k
    BY <2>1
  <2> HIDE DEF k, g, y, b
  <2> QED
    BY <2>1, <2>2, <2>3, <2>4
<1>3. /\ one = [suffix |-> SubSeq(x, 1, s), value |-> Nil, base |-> b, len |-> 1]
      /\ two = [n EXCEPT !.suffix = y]
  BY DEF Split
<1>4. /\ one \in Contents /\ one.suffix = SubSeq(x, 1, s) /\ one.value = Nil
      /\ one.base = b /\ one.len = 1
  <2> DEFINE h == SubSeq(x, 1, s)
  <2>1. h \in Bytes /\ b \in Byte /\ one = [suffix |-> h, value |-> Nil, base |-> b, len |-> 1]
    BY <1>2, <1>3
  <2> HIDE DEF h, b, one
  <2>2. one \in Contents /\ one.suffix = h /\ one.value = Nil /\ one.base = b /\ one.len = 1
    BY <2>1 DEF Contents
  <2> QED
    BY <2>2 DEF h
<1>5. /\ two \in Contents /\ two.suffix = y /\ two.value = n.value
      /\ two.base = n.base /\ two.len = n.len
  <2> HIDE DEF y, n, two
  <2> QED
    BY <1>1, <1>2, <1>3 DEF Contents
<1> HIDE DEF one, two, c, u
<1>6. TableOK(one) /\ TableOK(two) /\ Table(one) = {b} /\ Table(two) = Table(n)
  <2>1. 0 \in 0..Doublings /\ doubled[0] = 1 /\ b \in Nat /\ b < Width /\ Width \in Nat
    BY <1>2, Lengths DEF Byte
  <2>2. TableOK(one)
    <3>1. one.base % one.len = 0 /\ one.base + one.len <= Width
      BY <1>4, <2>1
    <3> QED
      BY <1>4, <2>1, <3>1 DEF TableOK
  <2>3. TableOK(two)
    BY <1>1, <1>5 DEF TableOK
  <2>4. Table(one) = {b}
    BY <1>4, <2>1 DEF Table
  <2> QED
    BY <1>5, <2>2, <2>3, <2>4 DEF Table
<1>7. /\ Len(c) = Len(g) + 1 /\ Begins(g, c) /\ c[Len(g) + 1] = b /\ Begins(c, f) /\ Begins(p, g)
  <2>1. Begins(p, g)
    BY <1>1, <1>2, Behind
  <2> HIDE DEF g, b, y, f
  <2>2. Len(c) = Len(g) + 1 /\ Begins(g, c) /\ c[Len(g) + 1] = b
    BY <1>2, OneMore
  <2>3. Begins(c, f)
    BY <1>2, Behind
  <2> QED
    BY <2>1, <2>2, <2>3
<1>8. Len(c) \in Nat /\ Len(g) \in Nat /\ Len(f) \in Nat /\ Len(p) < Len(c) /\ Len(c) <= Len(f) /\ c # p
  <2>1. Len(c) \in Nat /\ Len(g) \in Nat /\ Len(f) \in Nat /\ Len(c) <= Len(f)
    BY <1>1, <1>2, <1>7, BytesAre DEF Begins
  <2> QED
    BY <1>1, <1>2, <1>7, <2>1
<1>9. Begins(p, c)
  <2> HIDE DEF g
  <2> QED
    BY <1>1, <1>2, <1>7, BeginsTrans
<1> HIDE DEF n, x, f, g, y, b
<1>10. c \notin DOMAIN t
  <2> SUFFICES ASSUME c \in DOMAIN t PROVE FALSE
    OBVIOUS
  <2>1. Under(t, p, c)
    BY <1>8, <1>9 DEF TreeOK, Place
  <2>2. Len(f) < Len(c)
    BY <2>1 DEF Under, f
  <2> QED
    BY <1>8, <2>2
<1>11. /\ DOMAIN u = DOMAIN t \cup {c} /\ u[p] = one /\ u[c] = two
       /\ \A q \in DOMAIN t : q # p => u[q] = t[q]
       /\ u = [q \in DOMAIN u |-> u[q]]
  <2>1. u = With(With(t, c, two), p, one)
    BY DEF one, two, n, c, u, Parted, Part
  <2> QED
    BY <1>8, <1>10, <2>1 DEF With
<1>12. Full(u, p) = g /\ Full(u, c) = f
  BY <1>2, <1>4, <1>5, <1>11 DEF Full, g, x, n
<1>13. \A q \in DOMAIN t : q # p => /\ \A r : Under(t, q, r) => Under(u, q, r)
                                    /\ \A r : Child(t, q, r) => Child(u, q, r)
  BY <1>11 DEF Full, Under, Child
<1>14. ASSUME NEW r \in Bytes, Begins(c, r) PROVE Under(u, p, r)
  <2>1. Begins(g, r)
    BY <1>2, <1>7, <1>14, BeginsTrans
  <2>2. Len(r) \in Nat /\ Len(c) <= Len(r) /\ r[Len(g) + 1] = c[Len(g) + 1]
    <3>1. Len(r) \in Nat /\ Len(g) + 1 \in 1..Len(c)
      BY <1>7, <1>8, BytesAre
    <3> QED
      BY <1>14, <3>1 DEF Begins
  <2>3. Len(g) < Len(r)
    BY <1>7, <1>8, <2>2
  <2> QED
    BY <1>6, <1>7, <1>11, <1>12, <2>1, <2>2, <2>3 DEF Under
<1>15. ASSUME NEW r \in Bytes, Under(t, p, r)
       PROVE  Under(u, c, r) /\ (Child(t, p, r) => Child(u, c, r)) /\ Begins(c, r)
  <2>1. Begins(f, r)
    BY <1>15 DEF Under, f
  <2>2. Begins(c, r)
    BY <1>1, <1>2, <1>7, <2>1, BeginsTrans
  <2>3. Full(u, c) = Full(t, p) /\ Table(u[c]) = Table(t[p])
    BY <1>6, <1>11, <1>12 DEF f, n
  <2> QED
    BY <1>15, <2>2, <2>3 DEF Under, Child

<1>16. ASSUME NEW q \in DOMAIN u PROVE Place(u, q)
  <2>1. q \in Bytes
    BY <1>2, <1>11, NodeIs
  <2>2. CASE q \in DOMAIN t
    <3>1. Place(t, q)
      BY <2>2 DEF TreeOK
    <3>2. ASSUME NEW r \in DOMAIN u, Begins(r, q), r # q PROVE Under(u, r, q)
      <4>1. CASE r = p
        <5>1. Under(t, p, q)
          BY <3>1, <3>2, <4>1 DEF Place
        <5> QED
          BY <1>14, <1>15, <2>1, <4>1, <5>1
      <4>2. CASE r = c
        <5>1. Begins(p, q)
          BY <1>1, <1>2, <1>9, <2>1, <3>2, <4>2, BeginsTrans
        <5>2. p # q
          <6>1. Len(q) \in Nat /\ Len(c) <= Len(q)
            BY <2>1, <3>2, <4>2, BytesAre DEF Begins
          <6> QED
            BY <1>1, <1>8, <6>1
        <5>3. Under(t, p, q)
          BY <3>1, <5>1, <5>2 DEF Place
        <5> QED
          BY <1>15, <2>1, <4>2, <5>3
      <4>3. CASE r \in DOMAIN t /\ r # p
        BY <1>13, <3>1, <3>2, <4>3 DEF Place
      <4> QED
        BY <1>11, <4>1, <4>2, <4>3
    <3>3. ASSUME q # <<>> PROVE \E r \in DOMAIN u : Child(u, r, q)
      <4>1. PICK r \in DOMAIN t : Child(t, r, q)
        BY <3>1, <3>3 DEF Place
      <4>2. r = p => Child(u, c, q)
        BY <1>15, <2>1, <4>1 DEF Child
      <4> QED
        BY <1>11, <1>13, <4>1, <4>2
    <3> QED
      BY <3>2, <3>3 DEF Place
  <2>3. CASE q = c
    <3>1. Under(u, p, c)
      <4>1. Begins(c, c)
        BY <1>8 DEF Begins
      <4> QED
        BY <1>2, <1>14, <4>1
    <3>2. Child(u, p, c)
      BY <1>7, <1>12, <3>1 DEF Child
    <3>3. ASSUME NEW r \in DOMAIN u, Begins(r, c), r # c, r # p PROVE Under(u, r, c)
      <4>1. r \in DOMAIN t /\ r \in Bytes /\ Len(r) \in Nat
        BY <1>11, <3>3, NodeIs
      <4>2. CASE Len(r) <= Len(p)
        <5>1. Begins(r, p)
          BY <1>1, <1>2, <1>9, <3>3, <4>1, <4>2, BeginsOrdered
        <5>2. Under(t, r, p)
          BY <3>3, <4>1, <5>1 DEF TreeOK, Place
        <5>3. Under(t, r, c)
          BY <1>1, <1>2, <1>9, <4>1, <5>2, UnderMore
        <5> QED
          BY <1>13, <3>3, <4>1, <5>3
      <4>3. CASE Len(p) <= Len(r)
        <5>1. Begins(p, r)
          BY <1>1, <1>2, <1>9, <3>3, <4>1, <4>3, BeginsOrdered
        <5>2. Under(t, p, r)
          BY <3>3, <4>1, <5>1 DEF TreeOK, Place
        <5>3. Len(f) < Len(r) /\ Len(r) <= Len(c)
          BY <3>3, <5>2 DEF Under, Begins, f
        <5> QED
          BY <1>8, <4>1, <5>3
      <4> QED
        BY <1>1, <4>1, <4>2, <4>3
    <3>4. p \in DOMAIN u /\ \A r \in DOMAIN u : Begins(r, c) /\ r # c => Under(u, r, c)
      BY <1>11, <3>1, <3>3
    <3>5. Place(u, c)
      BY <3>2, <3>4 DEF Place
    <3> QED
      BY <2>3, <3>5
  <2> QED
    BY <1>11, <2>2, <2>3
<1>17. \A q \in DOMAIN u : q \in Bytes /\ u[q] \in Contents /\ TableOK(u[q])
  <2> SUFFICES ASSUME NEW q \in DOMAIN u PROVE q \in Bytes /\ u[q] \in Contents /\ TableOK(u[q])
    OBVIOUS
  <2>1. CASE q = p
    BY <1>1, <1>4, <1>6, <1>11, <2>1
  <2>2. CASE q = c
    BY <1>2, <1>5, <1>6, <1>11, <2>2
  <2>3. CASE q \in DOMAIN t /\ q # p
    BY <1>11, <2>3 DEF TreeOK
  <2> QED
    BY <1>11, <2>1, <2>2, <2>3
<1>18. \E m \in Nat : \A q \in DOMAIN u : Len(q) < m
  <2>1. PICK m \in Nat : \A q \in DOMAIN t : Len(q) < m
    BY DEF TreeOK
  <2> DEFINE k == m + Len(c) + 1
  <2>2. k \in Nat /\ Len(c) < k /\ \A l \in Nat : l < m => l < k
    BY <1>8
  <2> HIDE DEF k
  <2>3. \A q \in DOMAIN t : Len(q) < k
    BY <2>1, <2>2, NodeIs
  <2>4. \A q \in DOMAIN u : Len(q) < k
    BY <1>11, <2>2, <2>3
  <2> QED
    BY <2>2, <2>4
<1>19. TreeOK(u)
  <2>1. u \in [DOMAIN u -> Contents] /\ DOMAIN u \in SUBSET Bytes
    BY <1>11, <1>17
  <2> QED
    BY <1>16, <1>17, <1>18, <2>1 DEF TreeOK
<1>20. /\ Full(u, c) = Full(t, p) /\ u[c].value = t[p].value
       /\ u[p].value = Nil /\ u[p].suffix = SubSeq(t[p].suffix, 1, s)
  BY <1>4, <1>5, <1>11, <1>12 DEF f, n, x
<1> QED
  BY <1>2, <1>10, <1>11, <1>19, <1>20 DEF u, c

-----------------------------------------------------------------------------
(* The keys and values in a tree.                                          *)

Entries(t) == {<<Full(t, p), t[p].value>> : p \in {p \in DOMAIN t : t[p].value # Nil}}

\* An entry is a pair at a node.
LEMMA EntryIs ==
  ASSUME NEW t, NEW e
  PROVE  e \in Entries(t) <=>
           \E p \in DOMAIN t : t[p].value # Nil /\ e = <<Full(t, p), t[p].value>>
BY DEF Entries

\* Trees in which each node has the same key and value as a node of the other.
LEMMA SameEntries ==
  ASSUME NEW t, NEW u,
         \A p \in DOMAIN t : t[p].value # Nil =>
           \E q \in DOMAIN u : Full(u, q) = Full(t, p) /\ u[q].value = t[p].value,
         \A q \in DOMAIN u : u[q].value # Nil =>
           \E p \in DOMAIN t : Full(u, q) = Full(t, p) /\ u[q].value = t[p].value
  PROVE  Entries(u) = Entries(t)
<1>1. ASSUME NEW e \in Entries(t) PROVE e \in Entries(u)
  <2>1. PICK p \in DOMAIN t : t[p].value # Nil /\ e = <<Full(t, p), t[p].value>>
    BY EntryIs
  <2>2. PICK q \in DOMAIN u : Full(u, q) = Full(t, p) /\ u[q].value = t[p].value
    BY <2>1
  <2> QED
    BY <2>1, <2>2, EntryIs
<1>2. ASSUME NEW e \in Entries(u) PROVE e \in Entries(t)
  <2>1. PICK q \in DOMAIN u : u[q].value # Nil /\ e = <<Full(u, q), u[q].value>>
    BY EntryIs
  <2>2. PICK p \in DOMAIN t : Full(u, q) = Full(t, p) /\ u[q].value = t[p].value
    BY <2>1
  <2> QED
    BY <2>1, <2>2, EntryIs
<1> QED
  BY <1>1, <1>2

\* The entry of one node set, where it had another value for the same key or none at
\* all.
LEMMA EntrySet ==
  ASSUME NEW t, NEW u, TreeOK(u), NEW c, DOMAIN u = {c} \cup DOMAIN t,
         \A q \in DOMAIN t : q # c => Full(u, q) = Full(t, q) /\ u[q].value = t[q].value,
         c \in DOMAIN t => t[c].value = Nil \/ Full(u, c) = Full(t, c),
         NEW k, k = Full(u, c), NEW v, v = u[c].value
  PROVE  Entries(u) = {e \in Entries(t) : e[1] # k} \cup ({<<k, v>>} \ {<<k, Nil>>})
<1> DEFINE old == {e \in Entries(t) : e[1] # k}
           new == {<<k, v>>} \ {<<k, Nil>>}
<1>1. \A q \in DOMAIN u : q # c => Full(u, q) # k
  BY KeysDiffer
<1>2. v # Nil <=> <<k, v>> \in new
  OBVIOUS
<1>3. ASSUME NEW e \in Entries(u) PROVE e \in old \/ e \in new
  <2>1. PICK q \in DOMAIN u : u[q].value # Nil /\ e = <<Full(u, q), u[q].value>>
    BY EntryIs
  <2>2. CASE q = c
    BY <1>2, <2>1, <2>2
  <2>3. CASE q # c
    <3>1. e \in Entries(t)
      BY <2>1, <2>3, EntryIs
    <3>2. e[1] # k
      BY <1>1, <2>1, <2>3
    <3> QED
      BY <3>1, <3>2
  <2> QED
    BY <2>2, <2>3
<1>4. ASSUME NEW e \in old PROVE e \in Entries(u)
  <2>1. PICK q \in DOMAIN t : t[q].value # Nil /\ e = <<Full(t, q), t[q].value>>
    BY EntryIs
  <2>2. e[1] # k /\ e[1] = Full(t, q)
    BY <2>1
  <2>3. q # c
    BY <2>1, <2>2
  <2> QED
    BY <2>1, <2>3, EntryIs
<1>5. ASSUME NEW e \in new PROVE e \in Entries(u)
  <2>1. e = <<k, v>> /\ v # Nil
    OBVIOUS
  <2> QED
    BY <2>1, EntryIs
<1> HIDE DEF old, new
<1>6. Entries(u) = old \cup new
  BY <1>3, <1>4, <1>5
<1> QED
  BY <1>6 DEF old, new

-----------------------------------------------------------------------------
(* The invariant.                                                          *)

\* A Put under way has come to a place where its node is or belongs.
PutOK ==
  put = Idle \/ /\ put \in [key : Keys, value : Values \cup {Nil}, at : Nat]
                /\ put.at <= Len(put.key) /\ Place(tree, At)

IInv == TreeOK(tree) /\ PutOK

LEMMA KeysAreBytes == Keys \subseteq Bytes /\ Idle.at = -1
BY ByteAssumption DEF Bytes, Byte, Idle

\* The place that a Put under way has come to, and what of the key lies below.
LEMMA PutIs ==
  ASSUME IInv, put # Idle
  PROVE  /\ put.key \in Keys /\ put.value \in Values \cup {Nil} /\ put.at \in Nat
         /\ put.key \in Bytes /\ At \in Bytes /\ Rest \in Bytes /\ Len(At) = put.at
         /\ put.key = At \o Rest /\ Place(tree, At)
<1>1. /\ put \in [key : Keys, value : Values \cup {Nil}, at : Nat]
      /\ put.at <= Len(put.key) /\ Place(tree, At)
  BY DEF IInv, PutOK
<1>2. put.key \in Keys /\ put.value \in Values \cup {Nil} /\ put.at \in Nat
  BY <1>1
<1> DEFINE k == put.key
           a == put.at
<1>3. k \in Bytes /\ Len(k) \in Nat /\ a \in 0..Len(k)
  BY <1>1, <1>2, KeysAreBytes, BytesAre
<1>4. At = SubSeq(k, 1, a) /\ Rest = SubSeq(k, a + 1, Len(k))
  BY DEF At, Rest
<1> HIDE DEF k, a
<1>5. At \in Bytes /\ Rest \in Bytes /\ Len(At) = a /\ At \o Rest = k
  BY <1>3, <1>4, Parts
<1> QED
  BY <1>1, <1>2, <1>3, <1>5 DEF k, a

\* The node there.
LEMMA HereIs ==
  ASSUME IInv, put # Idle
  PROVE  /\ Here \in Contents /\ Here.suffix \in Bytes /\ (At \in DOMAIN tree => Here = tree[At])
         /\ ~Empty => At \in DOMAIN tree
<1>1. TreeOK(tree) /\ Here = (IF At \in DOMAIN tree THEN tree[At] ELSE ZeroTrie)
  BY DEF IInv, Here, Node
<1>2. Here \in Contents
  BY <1>1, ZeroIs, NodeIs
<1> QED
  BY <1>1, <1>2, ZeroIs DEF Empty, Contents

\* What commonPrefix says of it.
LEMMA SharedIs ==
  ASSUME IInv, put # Idle
  PROVE  /\ Shared \in Nat /\ Shared <= Len(Here.suffix) /\ Shared <= Len(Rest)
         /\ Len(Here.suffix) \in Nat /\ Len(Rest) \in Nat
         /\ SubSeq(Here.suffix, 1, Shared) = SubSeq(Rest, 1, Shared)
<1> DEFINE a == Here.suffix
           s == Shared
<1>1. a \in Bytes /\ Rest \in Bytes /\ Len(a) \in Nat /\ Len(Rest) \in Nat
  BY PutIs, HereIs, BytesAre
<1>2. s = CommonPrefix(a, Rest)
  BY DEF Shared
<1> HIDE DEF s, a
<1>3. s \in Nat /\ s <= Len(a) /\ s <= Len(Rest) /\ SubSeq(a, 1, s) = SubSeq(Rest, 1, s)
  BY <1>1, <1>2, CommonPrefixIs, CommonPart
<1> QED
  BY <1>1, <1>3 DEF a, s

\* The tree is split where the key leaves the suffix: it has the entries it had, and
\* the node where Put is has the part of the suffix that is in the key.
LEMMA SplitTreeIs ==
  ASSUME IInv, put # Idle, ~Empty
  PROVE  /\ TreeOK(SplitTree) /\ At \in DOMAIN SplitTree
         /\ SplitTree[At].suffix = SubSeq(Rest, 1, Shared)
         /\ Entries(SplitTree) = Entries(tree)
<1> DEFINE n == tree[At]
           s == Shared
<1>1. /\ TreeOK(tree) /\ At \in DOMAIN tree /\ Here = n /\ At \in Bytes
      /\ s \in Nat /\ s <= Len(n.suffix) /\ Len(n.suffix) \in Nat /\ n.suffix \in Bytes
      /\ SubSeq(n.suffix, 1, s) = SubSeq(Rest, 1, s)
  BY PutIs, HereIs, SharedIs DEF IInv
<1>2. CASE s = Len(n.suffix)
  <2>1. SplitTree = tree
    BY <1>1, <1>2 DEF SplitTree
  <2>2. SubSeq(n.suffix, 1, s) = n.suffix
    <3>1. n.suffix \in Seq(Byte)
      BY <1>1 DEF Bytes
    <3> QED
      BY <1>2, <3>1, SubSeqFull
  <2> QED
    BY <1>1, <2>1, <2>2
<1>3. CASE s # Len(n.suffix)
  <2> DEFINE c == Part(tree, At, s)
             u == Parted(tree, At, s)
  <2>1. SplitTree = u /\ s \in 0..Len(n.suffix) - 1
    BY <1>1, <1>3 DEF SplitTree, Parted, Part
  <2>2. /\ TreeOK(u) /\ DOMAIN u = DOMAIN tree \cup {c} /\ c \in Bytes /\ c \notin DOMAIN tree
        /\ Full(u, c) = Full(tree, At) /\ u[c].value = n.value
        /\ u[At].value = Nil /\ u[At].suffix = SubSeq(n.suffix, 1, s)
        /\ \A q \in DOMAIN tree : q # At => u[q] = tree[q]
    <3>1. s \in 0..Len(tree[At].suffix) - 1 /\ TreeOK(tree) /\ At \in DOMAIN tree
      BY <1>1, <2>1
    <3> HIDE DEF s
    <3> QED
      BY ONLY <3>1, SplitKeeps
  <2> HIDE DEF u, c
  <2>3. Entries(u) = Entries(tree)
    <3>1. \A q \in DOMAIN tree : q # At => Full(u, q) = Full(tree, q) /\ u[q].value = tree[q].value
      BY <2>2 DEF Full
    <3>2. \A p \in DOMAIN tree : tree[p].value # Nil =>
            \E q \in DOMAIN u : Full(u, q) = Full(tree, p) /\ u[q].value = tree[p].value
      BY <2>2, <3>1
    <3>3. \A q \in DOMAIN u : u[q].value # Nil =>
            \E p \in DOMAIN tree : Full(u, q) = Full(tree, p) /\ u[q].value = tree[p].value
      BY <1>1, <2>2, <3>1
    <3> QED
      BY <3>2, <3>3, SameEntries
  <2> QED
    BY <1>1, <2>1, <2>2, <2>3
<1> QED
  BY <1>2, <1>3

\* Put goes on to the root.
LEMMA PutKeeps ==
  ASSUME IInv, Put
  PROVE  IInv'
<1>1. TreeOK(tree) /\ tree' = tree /\ Place(tree, <<>>)
  BY Root DEF Put, IInv
<1>2. PICK k \in Keys, v \in Values \cup {Nil} : put' = [key |-> k, value |-> v, at |-> 0]
  BY DEF Put
<1>3. /\ put' \in [key : Keys, value : Values \cup {Nil}, at : Nat]
      /\ put'.at = 0 /\ put'.key = k
  BY <1>2
<1>4. Len(k) \in Nat /\ At' = <<>>
  <2>1. At' = SubSeq(k, 1, 0)
    BY <1>3 DEF At
  <2> QED
    BY <2>1, KeysAreBytes, BytesAre, SubSeqEmpty
<1>5. PutOK'
  BY <1>1, <1>3, <1>4 DEF PutOK
<1> QED
  BY <1>1, <1>5 DEF IInv

\* At an empty node it ends.
LEMMA PutEmptyKeeps ==
  ASSUME IInv, PutEmpty
  PROVE  /\ IInv'
         /\ Entries(tree') = {e \in Entries(tree) : e[1] # put.key}
                               \cup ({<<put.key, put.value>>} \ {<<put.key, Nil>>})
<1> DEFINE n == [Here EXCEPT !.suffix = Rest, !.value = put.value]
           u == With(tree, At, n)
<1>1. /\ put # Idle /\ TreeOK(tree) /\ tree' = u /\ put' = Idle /\ Here.len = 0 /\ Here.value = Nil
      /\ At \in Bytes /\ Rest \in Bytes /\ Place(tree, At) /\ put.key = At \o Rest
      /\ put.value \in Values \cup {Nil}
      /\ Here \in Contents /\ (At \in DOMAIN tree => Here = tree[At])
  BY PutIs, HereIs DEF PutEmpty, Empty, IInv
<1>2. n \in Contents /\ n.len = 0 /\ n.suffix = Rest /\ n.value = put.value
  BY <1>1 DEF Contents
<1> HIDE DEF n
<1>3. TreeOK(u)
  BY <1>1, <1>2, LeafSet
<1>4. IInv'
  BY <1>1, <1>3 DEF IInv, PutOK
<1>5. /\ DOMAIN u = {At} \cup DOMAIN tree /\ u[At] = n
      /\ \A q \in DOMAIN tree : q # At => u[q] = tree[q]
  BY DEF With
<1> HIDE DEF u
<1>6. Full(u, At) = put.key /\ u[At].value = put.value
  BY <1>1, <1>2, <1>5 DEF Full
<1>7. \A q \in DOMAIN tree : q # At => Full(u, q) = Full(tree, q) /\ u[q].value = tree[q].value
  BY <1>5 DEF Full
<1>8. At \in DOMAIN tree => tree[At].value = Nil
  BY <1>1
<1>9. Entries(u) = {e \in Entries(tree) : e[1] # put.key}
                     \cup ({<<put.key, put.value>>} \ {<<put.key, Nil>>})
  BY <1>3, <1>5, <1>6, <1>7, <1>8, EntrySet
<1> QED
  BY <1>1, <1>4, <1>9

\* At the node of the key it ends, too.
LEMMA PutHereKeeps ==
  ASSUME IInv, PutHere
  PROVE  /\ IInv'
         /\ Entries(tree') = {e \in Entries(tree) : e[1] # put.key}
                               \cup ({<<put.key, put.value>>} \ {<<put.key, Nil>>})
<1> DEFINE t == SplitTree
           u == [t EXCEPT ![At].value = put.value]
<1>1. /\ put # Idle /\ ~Empty /\ Shared = Len(Rest) /\ tree' = u /\ put' = Idle
      /\ Rest \in Bytes /\ put.key = At \o Rest /\ put.value \in Values \cup {Nil}
  BY PutIs DEF PutHere
<1>2. /\ TreeOK(t) /\ At \in DOMAIN t /\ t[At].suffix = SubSeq(Rest, 1, Shared)
      /\ Entries(t) = Entries(tree)
  BY <1>1, SplitTreeIs
<1> HIDE DEF t
<1>3. Full(t, At) = put.key
  <2>1. Rest \in Seq(Byte)
    BY <1>1 DEF Bytes
  <2> QED
    BY <1>1, <1>2, <2>1, SubSeqFull DEF Full
<1>4. /\ u \in [DOMAIN t -> Contents] /\ \A q \in DOMAIN t : q # At => u[q] = t[q]
      /\ u[At].value = put.value /\ u[At].suffix = t[At].suffix
      /\ u[At].base = t[At].base /\ u[At].len = t[At].len
  <2> DEFINE n == [t[At] EXCEPT !.value = put.value]
  <2>1. /\ n \in Contents /\ n.value = put.value /\ n.suffix = t[At].suffix
        /\ n.base = t[At].base /\ n.len = t[At].len
    <3> DEFINE m == t[At]
    <3>1. m \in Contents
      BY <1>2, NodeIs
    <3> HIDE DEF m
    <3>2. LET w == [m EXCEPT !.value = put.value]
          IN  /\ w \in Contents /\ w.value = put.value /\ w.suffix = m.suffix
              /\ w.base = m.base /\ w.len = m.len
      BY <1>1, <3>1 DEF Contents
    <3> QED
      BY <3>2 DEF m
  <2>2. u = [t EXCEPT ![At] = n] /\ t \in [DOMAIN t -> Contents]
    BY <1>2 DEF TreeOK
  <2> HIDE DEF n, u
  <2>3. u \in [DOMAIN t -> Contents] /\ u[At] = n /\ \A q \in DOMAIN t : q # At => u[q] = t[q]
    BY <1>2, <2>1, <2>2
  <2> QED
    BY <2>1, <2>3
<1> HIDE DEF u
<1>5. TreeOK(u)
  <2>1. \A q \in DOMAIN t : TableOK(t[q])
    BY <1>2 DEF TreeOK
  <2>2. \A q \in DOMAIN t : /\ u[q].suffix = t[q].suffix /\ TableOK(u[q])
                            /\ Table(t[q]) \subseteq Table(u[q])
    BY <1>2, <1>4, <2>1 DEF TableOK, Table
  <2> QED
    BY <1>2, <1>4, <2>2, TablesGrown
<1>6. IInv'
  BY <1>1, <1>5 DEF IInv, PutOK
<1>7. DOMAIN u = {At} \cup DOMAIN t
  BY <1>2, <1>4
<1>8. Full(u, At) = put.key /\ Full(u, At) = Full(t, At)
  BY <1>3, <1>4 DEF Full
<1>9. \A q \in DOMAIN t : q # At => Full(u, q) = Full(t, q) /\ u[q].value = t[q].value
  BY <1>4 DEF Full
<1>10. Entries(u) = {e \in Entries(t) : e[1] # put.key}
                      \cup ({<<put.key, put.value>>} \ {<<put.key, Nil>>})
  BY <1>4, <1>5, <1>7, <1>8, <1>9, EntrySet, SMTT(30)
<1> QED
  BY <1>1, <1>2, <1>6, <1>10

\* Otherwise it goes on to the child for the next byte, for which the table has grown.
LEMMA PutBelowKeeps ==
  ASSUME IInv, PutBelow
  PROVE  IInv' /\ Entries(tree') = Entries(tree) /\ put'.key = put.key /\ put'.value = put.value
               /\ put' # Idle
<1> DEFINE t == SplitTree
           s == Shared
           b == Rest[s + 1]
           u == [t EXCEPT ![At] = Grown(@, b)]
           d == At \o SubSeq(Rest, 1, s + 1)
           k == put.key
<1>1. /\ put # Idle /\ ~Empty /\ s < Len(Rest) /\ tree' = u
      /\ put' = [put EXCEPT !.at = @ + s + 1]
  BY DEF PutBelow
<1>2. /\ put \in [key : Keys, value : Values \cup {Nil}, at : Nat] /\ Place(tree, At)
      /\ At \in Bytes /\ Rest \in Bytes /\ k \in Bytes /\ k = At \o Rest /\ Len(At) = put.at
      /\ put.at \in Nat /\ s \in Nat /\ Len(Rest) \in Nat /\ s \in 0..Len(Rest) - 1
  <2>1. put \in [key : Keys, value : Values \cup {Nil}, at : Nat]
    BY <1>1 DEF IInv, PutOK
  <2> QED
    BY <1>1, <2>1, PutIs, SharedIs
<1>3. /\ TreeOK(t) /\ At \in DOMAIN t /\ t[At].suffix = SubSeq(Rest, 1, s)
      /\ Entries(t) = Entries(tree)
  BY <1>1, SplitTreeIs
<1> HIDE DEF t, s
<1>4. /\ b \in Byte /\ Full(t, At) \in Bytes /\ Len(Full(t, At)) = put.at + s
      /\ d \in Bytes /\ d = Full(t, At) \o <<b>> /\ Begins(d, k)
  <2> DEFINE y == SubSeq(Rest, s + 2, Len(Rest))
             g == At \o SubSeq(Rest, 1, s)
  <2>1. /\ b \in Byte /\ y \in Bytes /\ g \in Bytes /\ d \in Bytes /\ Len(g) = Len(At) + s
        /\ d = g \o <<b>> /\ d \o y = At \o Rest
    BY <1>2, CutAt
  <2>2. g = Full(t, At)
    BY <1>3 DEF Full
  <2> HIDE DEF y, g, d
  <2>3. Begins(d, d \o y)
    BY <2>1, Behind
  <2>4. d \o y = k
    BY <1>2, <2>1
  <2> QED
    BY <1>2, <2>1, <2>2, <2>3, <2>4
<1> HIDE DEF b, d
<1>5. Len(d) = put.at + s + 1
  <2> DEFINE g == Full(t, At)
  <2>1. Len(d) = Len(g) + 1
    <3>1. g \in Bytes /\ b \in Byte /\ d = g \o <<b>>
      BY <1>4
    <3> HIDE DEF g
    <3> QED
      BY ONLY <3>1, OneMore
  <2> QED
    BY <1>2, <1>4, <2>1
<1>6. /\ Grown(t[At], b) \in Contents /\ TableOK(Grown(t[At], b)) /\ b \in Table(Grown(t[At], b))
      /\ Grown(t[At], b).suffix = t[At].suffix /\ Grown(t[At], b).value = t[At].value
      /\ Table(t[At]) \subseteq Table(Grown(t[At], b))
  <2>1. t[At] \in Contents /\ TableOK(t[At])
    BY <1>3 DEF TreeOK
  <2> QED
    BY <1>4, <2>1, GrownKeeps
<1>7. /\ u \in [DOMAIN t -> Contents] /\ u[At] = Grown(t[At], b)
      /\ \A q \in DOMAIN t : q # At => u[q] = t[q]
  <2>1. t \in [DOMAIN t -> Contents]
    BY <1>3 DEF TreeOK
  <2> QED
    BY <1>3, <1>6, <2>1
<1> HIDE DEF u
<1>8. TreeOK(u) /\ \A c : Place(t, c) => Place(u, c)
  <2>1. \A q \in DOMAIN t : /\ u[q].suffix = t[q].suffix /\ TableOK(u[q])
                            /\ Table(t[q]) \subseteq Table(u[q])
    BY <1>3, <1>6, <1>7 DEF TreeOK
  <2> QED
    BY <1>3, <1>7, <2>1, TablesGrown
<1>9. \A q \in DOMAIN t : Full(u, q) = Full(t, q) /\ u[q].value = t[q].value
  BY <1>6, <1>7 DEF Full
<1>10. Entries(u) = Entries(tree)
  <2>1. DOMAIN u = DOMAIN t
    BY <1>7
  <2>2. Entries(u) = Entries(t)
    BY <1>9, <2>1, SameEntries
  <2> QED
    BY <1>3, <2>2
<1>11. Place(u, d)
  <2>1. At \in DOMAIN u /\ b \in Table(u[At]) /\ d = Full(u, At) \o <<b>>
    BY <1>3, <1>4, <1>6, <1>7, <1>9
  <2> QED
    BY <1>4, <1>8, <2>1, ChildPlace
<1>12. /\ put' \in [key : Keys, value : Values \cup {Nil}, at : Nat]
       /\ put'.key = k /\ put'.value = put.value /\ put'.at = put.at + s + 1
  <2> DEFINE a == put.at + s + 1
  <2>1. a \in Nat /\ put' = [put EXCEPT !.at = a] /\ put \in [key : Keys, value : Values \cup {Nil}, at : Nat]
    BY <1>1, <1>2
  <2> HIDE DEF a
  <2>2. /\ put' \in [key : Keys, value : Values \cup {Nil}, at : Nat]
        /\ put'.key = put.key /\ put'.value = put.value /\ put'.at = a
    BY <2>1
  <2> QED
    BY <2>2 DEF a
<1>13. put'.at <= Len(put'.key) /\ At' = d
  <2>1. SubSeq(k, 1, Len(d)) = d /\ Len(d) <= Len(k)
    <3> HIDE DEF k
    <3> QED
      BY <1>2, <1>4, BeginningIs DEF Begins
  <2>2. At' = SubSeq(k, 1, Len(d))
    BY <1>5, <1>12 DEF At
  <2> QED
    BY <1>5, <1>12, <2>1, <2>2
<1>14. IInv'
  BY <1>1, <1>8, <1>11, <1>12, <1>13 DEF IInv, PutOK
<1>15. put' # Idle
  BY <1>2, <1>12, KeysAreBytes
<1> QED
  BY <1>1, <1>10, <1>12, <1>14, <1>15

LEMMA InitInvariant ==
  ASSUME Init
  PROVE  IInv /\ DOMAIN tree = {} /\ put = Idle
<1>1. DOMAIN tree = {} /\ put = Idle /\ tree = [p \in DOMAIN tree |-> tree[p]]
  BY DEF Init
<1>2. tree \in [DOMAIN tree -> Contents] /\ 0 \in Nat
  BY <1>1
<1> QED
  BY <1>1, <1>2 DEF IInv, TreeOK, PutOK

LEMMA StepInvariant ==
  ASSUME IInv, [Next]_vars
  PROVE  IInv'
<1>1. CASE Put
  BY <1>1, PutKeeps
<1>2. CASE PutEmpty
  BY <1>2, PutEmptyKeeps
<1>3. CASE PutHere
  BY <1>3, PutHereKeeps
<1>4. CASE PutBelow
  BY <1>4, PutBelowKeeps
<1>5. CASE UNCHANGED vars
  BY <1>5 DEF vars, IInv, PutOK, At
<1> QED
  BY <1>1, <1>2, <1>3, <1>4, <1>5 DEF Next

\* Of every node and every Put under way: the invariant holds in every state.
THEOREM Invariant == Spec => []IInv
<1>1. Init => IInv
  BY InitInvariant
<1>2. IInv /\ [Next]_vars => IInv'
  BY StepInvariant
<1> QED
  BY <1>1, <1>2, PTL DEF Spec

\* A child is its parent's key with one more byte, for which the parent has a table.
LEMMA ChildIs ==
  ASSUME NEW t, TreeOK(t), NEW p \in Bytes, NEW q \in DOMAIN t, Child(t, q, p)
  PROVE  p = Full(t, q) \o <<Last(p)>> /\ Last(p) \in Table(t[q])
<1> DEFINE f == Full(t, q)
           b == p[Len(p)]
           d == f \o <<b>>
<1>1. p \in Bytes /\ f \in Bytes /\ Len(p) \in Nat /\ Len(f) \in Nat
  BY NodeIs, BytesAre
<1>2. Len(p) = Len(f) + 1 /\ Begins(f, p) /\ b \in Table(t[q]) /\ Last(p) = b
  BY DEF Child, Under, Last
<1>3. b \in Byte
  <2>1. Len(p) \in 1..Len(p)
    BY <1>1, <1>2
  <2> QED
    BY <1>1, <2>1, BytesAre
<1> HIDE DEF f, b
<1>4. d \in Bytes /\ Len(d) = Len(f) + 1 /\ Begins(f, d) /\ d[Len(f) + 1] = b
  BY <1>1, <1>3, OneMore
<1> HIDE DEF d
<1>5. Begins(p, d)
  <2>1. \A i \in 1..Len(p) : i \in 1..Len(f) \/ i = Len(f) + 1
    BY <1>1, <1>2
  <2>2. p[Len(f) + 1] = b
    BY <1>2 DEF b
  <2> QED
    BY <1>1, <1>2, <1>4, <2>1, <2>2 DEF Begins
<1>6. p = d
  <2>1. Len(p) >= Len(d)
    BY <1>1, <1>2, <1>4
  <2> QED
    BY ONLY <1>1, <1>4, <1>5, <2>1, BeginsSame
<1> QED
  BY <1>2, <1>6 DEF f, d

\* The variables keep their types: child tables stay powers of two, aligned and within
\* the bytes, and no node comes away from the tree, while tables grow and nodes split
\* (trie.go:45-88).
THEOREM TypeCorrect == Spec => []TypeOK
<1>1. ASSUME IInv PROVE TypeOK
  <2>1. TreeOK(tree)
    BY <1>1 DEF IInv
  <2>2. ASSUME NEW p \in DOMAIN tree
        PROVE  LET n == tree[p]
               IN  /\ n.suffix \in Seq(0..Width-1) /\ n.value \in Values \cup {Nil}
                   /\ n.len \in {0} \cup {doubled[d] : d \in 0..Doublings}
                   /\ n.base \in 0..Width-1
                   /\ n.len > 0 => n.base % n.len = 0 /\ n.base + n.len <= Width
    <3> DEFINE n == tree[p]
    <3>1. n \in Contents /\ TableOK(n)
      BY <2>1 DEF TreeOK
    <3> HIDE DEF n
    <3>2. /\ n.suffix \in Seq(0..Width-1) /\ n.value \in Values \cup {Nil}
          /\ n.base \in 0..Width-1
      BY <3>1 DEF Contents, Bytes, Byte
    <3>3. n.len \in {0} \cup {doubled[d] : d \in 0..Doublings}
      BY <3>1 DEF TableOK
    <3>4. n.len > 0 => n.base % n.len = 0 /\ n.base + n.len <= Width
      BY <3>1 DEF TableOK
    <3> QED
      BY <3>2, <3>3, <3>4 DEF n
  <2>3. ASSUME NEW p \in DOMAIN tree, p # <<>>
        PROVE  \E q \in DOMAIN tree : p = q \o tree[q].suffix \o <<Last(p)>> /\ Last(p) \in Table(tree[q])
    <3>1. PICK q \in DOMAIN tree : Child(tree, q, p)
      BY <2>1, <2>3 DEF TreeOK, Place
    <3> QED
      BY <2>1, <3>1, NodeIs, ChildIs DEF Full
  <2>4. /\ put.key \in Keys \cup {<<>>} /\ put.value \in Values \cup {Nil}
        /\ put.at \in -1..Len(put.key)
    <3>1. CASE put = Idle
      <4>1. put.key = <<>> /\ put.value = Nil /\ put.at = -1 /\ Len(<<>>) = 0
        BY <3>1 DEF Idle
      <4> QED
        BY <4>1
    <3>2. CASE put # Idle
      <4>1. /\ put \in [key : Keys, value : Values \cup {Nil}, at : Nat]
            /\ put.at <= Len(put.key)
        BY <1>1, <3>2 DEF IInv, PutOK
      <4>2. put.key \in Keys /\ put.value \in Values \cup {Nil} /\ put.at \in Nat
        BY <4>1
      <4>3. Len(put.key) \in Nat
        BY <4>2, KeysAreBytes, BytesAre
      <4> QED
        BY <4>1, <4>2, <4>3
    <3> QED
      BY <3>1, <3>2
  <2> QED
    BY <2>2, <2>3, <2>4 DEF TypeOK
<1> QED
  BY <1>1, Invariant, PTL

-----------------------------------------------------------------------------
(* Sequences of calls.                                                     *)

\* Each of two elements of s is before the other as T says.
Ranked(s, T) == \A i, j \in 1..Len(s) : i < j => <<s[i], s[j]>> \in T

LEMMA ElementsAre ==
  ASSUME NEW S, NEW s \in Seq(S)
  PROVE  /\ Len(s) \in Nat /\ ToSet(s) = {s[i] : i \in 1..Len(s)} /\ ToSet(s) \subseteq S
BY LenProperties, ElementOfSeq DEF ToSet

\* Two sequences one behind the other.
LEMMA ConcatIs ==
  ASSUME NEW S, NEW a \in Seq(S), NEW b \in Seq(S)
  PROVE  /\ a \o b \in Seq(S) /\ ToSet(a \o b) = ToSet(a) \cup ToSet(b)
         /\ \A T : /\ Ranked(a, T) /\ Ranked(b, T)
                   /\ \A x \in ToSet(a), y \in ToSet(b) : <<x, y>> \in T
                   => Ranked(a \o b, T)
<1> DEFINE c == a \o b
           m == Len(a)
           n == Len(b)
<1>1. /\ m \in Nat /\ n \in Nat /\ c \in Seq(S) /\ Len(c) = m + n
      /\ \A i \in 1..m + n : c[i] = IF i <= m THEN a[i] ELSE b[i - m]
  BY ConcatProperties, LenProperties
<1>2. /\ ToSet(a) = {a[i] : i \in 1..m} /\ ToSet(b) = {b[i] : i \in 1..n}
      /\ ToSet(c) = {c[i] : i \in 1..m + n}
  BY <1>1, ElementsAre
<1> HIDE DEF c, m, n
<1>3. /\ \A i \in 1..m : i \in 1..m + n /\ c[i] = a[i]
      /\ \A i \in 1..n : m + i \in 1..m + n /\ c[m + i] = b[i]
  <2>1. \A i \in 1..m : i \in 1..m + n /\ i <= m
    BY <1>1
  <2>2. \A i \in 1..n : m + i \in 1..m + n /\ ~(m + i <= m) /\ (m + i) - m = i
    BY <1>1
  <2> QED
    BY <1>1, <2>1, <2>2
<1>4. \A i \in 1..m + n : (i \in 1..m /\ c[i] = a[i]) \/ (i - m \in 1..n /\ c[i] = b[i - m] /\ i > m)
  <2>1. \A i \in 1..m + n : (i <= m /\ i \in 1..m) \/ (~(i <= m) /\ i > m /\ i - m \in 1..n)
    BY <1>1
  <2> QED
    BY <1>1, <2>1
<1>5. ToSet(c) = ToSet(a) \cup ToSet(b)
  <2>1. ASSUME NEW x \in ToSet(c) PROVE x \in ToSet(a) \cup ToSet(b)
    <3>1. PICK i \in 1..m + n : x = c[i]
      BY <1>2
    <3> QED
      BY <1>2, <1>4, <3>1
  <2>2. ASSUME NEW x \in ToSet(a) PROVE x \in ToSet(c)
    <3>1. PICK i \in 1..m : x = a[i]
      BY <1>2
    <3> QED
      BY <1>2, <1>3, <3>1
  <2>3. ASSUME NEW x \in ToSet(b) PROVE x \in ToSet(c)
    <3>1. PICK i \in 1..n : x = b[i]
      BY <1>2
    <3> QED
      BY <1>2, <1>3, <3>1
  <2> QED
    BY <2>1, <2>2, <2>3
<1>6. ASSUME NEW T, Ranked(a, T), Ranked(b, T),
             \A x \in ToSet(a), y \in ToSet(b) : <<x, y>> \in T
      PROVE  Ranked(c, T)
  <2>1. \A i, j \in 1..m : i < j => <<a[i], a[j]>> \in T
    BY <1>6 DEF Ranked, m
  <2>2. \A i, j \in 1..n : i < j => <<b[i], b[j]>> \in T
    BY <1>6 DEF Ranked, n
  <2> SUFFICES ASSUME NEW i \in 1..m + n, NEW j \in 1..m + n, i < j PROVE <<c[i], c[j]>> \in T
    BY <1>1 DEF Ranked
  <2>3. CASE i \in 1..m /\ c[i] = a[i] /\ j \in 1..m /\ c[j] = a[j]
    BY <2>1, <2>3
  <2>4. CASE i \in 1..m /\ c[i] = a[i] /\ j - m \in 1..n /\ c[j] = b[j - m]
    BY <1>2, <1>6, <2>4
  <2>5. CASE i - m \in 1..n /\ c[i] = b[i - m] /\ j - m \in 1..n /\ c[j] = b[j - m]
    <3>1. i - m < j - m
      BY <1>1
    <3> QED
      BY <2>2, <2>5, <3>1
  <2>6. ~(i > m /\ j \in 1..m)
    BY <1>1
  <2> QED
    BY <1>4, <2>3, <2>4, <2>5, <2>6
<1> QED
  BY <1>1, <1>5, <1>6 DEF c

\* Any number of sequences one behind the other.
LEMMA FlattenIs ==
  ASSUME NEW S, NEW n \in Nat, NEW ss \in [1..n -> Seq(S)]
  PROVE  /\ FlattenSeq(ss) \in Seq(S)
         /\ ToSet(FlattenSeq(ss)) = UNION {ToSet(ss[i]) : i \in 1..n}
         /\ \A T : /\ \A i \in 1..n : Ranked(ss[i], T)
                   /\ \A i, j \in 1..n : i < j =>
                        \A x \in ToSet(ss[i]), y \in ToSet(ss[j]) : <<x, y>> \in T
                   => Ranked(FlattenSeq(ss), T)
<1>1. ss \in Seq(Seq(S)) /\ Len(ss) = n
  <2> DEFINE R == Seq(S)
  <2>1. ss \in Seq(R)
    <3>1. ss \in [1..n -> R]
      OBVIOUS
    <3> HIDE DEF R
    <3>2. Seq(R) = UNION {[1..k -> R] : k \in Nat}
      BY SeqDef
    <3> QED
      BY <3>1, <3>2
  <2>2. Len(ss) \in Nat /\ DOMAIN ss = 1..Len(ss) /\ DOMAIN ss = 1..n
    <3> HIDE DEF R
    <3> QED
      BY <2>1, LenProperties
  <2> QED
    BY <2>1, <2>2
<1>2. CASE n = 0
  <2>1. FlattenSeq(ss) = <<>>
    <3>1. ss = <<>>
      BY <1>1, <1>2, EmptySeq
    <3> QED
      BY <1>1, <1>2, <3>1 DEF FlattenSeq
  <2>2. <<>> \in Seq(S) /\ Len(<<>>) = 0 /\ ToSet(<<>>) = {}
    <3> DEFINE e == <<>>
    <3>1. e \in Seq(S) /\ Len(e) = 0
      BY EmptySeq
    <3> HIDE DEF e
    <3>2. DOMAIN e = 1..Len(e)
      BY <3>1, LenProperties
    <3>3. 1..Len(e) = {}
      BY <3>1
    <3>4. ToSet(e) = {}
      BY <3>2, <3>3 DEF ToSet
    <3> QED
      BY <3>1, <3>4 DEF e
  <2>3. 1..n = {} /\ \A T : Ranked(<<>>, T)
    BY <1>2, <2>2 DEF Ranked
  <2> QED
    BY <2>1, <2>2, <2>3
<1>3. CASE n # 0
  <2> DEFINE I == 1..n
             R == Seq(S)
             T == [i \in I |-> i # 1]
             N == [i \in I |-> i - 1]
             G == [i \in I |-> [y \in R |-> y \o ss[i]]]
             V == [i \in I |-> ss[i]]
             m == [i \in I |-> i]
             Is(f) == f = [i \in 1..n |-> IF i = 1 THEN ss[i] ELSE f[i - 1] \o ss[i]]
             h == CHOOSE f : Is(f)
  <2>1. PICK g \in [I -> R] : Solves(g, I, T, N, G, V)
    <3>1. Falls(I, T, N, m, n + 1)
      <4>1. m \in [I -> Nat] /\ \A i \in I : m[i] < n + 1
        OBVIOUS
      <4>2. \A i \in I : (T[i] <=> i # 1) /\ N[i] = i - 1 /\ m[i] = i
        OBVIOUS
      <4>3. \A i \in I : i # 1 => i - 1 \in I /\ i - 1 < i
        OBVIOUS
      <4>4. \A i \in I : T[i] => N[i] \in I /\ m[N[i]] < m[i]
        <5> HIDE DEF I, T, N, m
        <5> QED
          BY <4>2, <4>3
      <4> HIDE DEF I, T, N, m
      <4> QED
        BY <4>1, <4>4 DEF Falls
    <3>2. \A i \in I : \A y \in R : y \o ss[i] \in R
      BY ConcatIs
    <3>3. G \in [I -> [R -> R]] /\ V \in [I -> R] /\ n + 1 \in Nat
      <4>1. \A i \in I : ss[i] \in R
        OBVIOUS
      <4> HIDE DEF I, R
      <4> QED
        BY <3>2, <4>1
    <3> HIDE DEF I, R, T, N, G, V, m
    <3> QED
      BY <3>1, <3>3, RecursionExists
  <2>2. \A i \in I : g[i] = IF i = 1 THEN ss[i] ELSE g[i - 1] \o ss[i]
    <3> SUFFICES ASSUME NEW i \in I PROVE g[i] = IF i = 1 THEN ss[i] ELSE g[i - 1] \o ss[i]
      OBVIOUS
    <3>1. g[i] = IF T[i] THEN G[i][g[N[i]]] ELSE V[i]
      BY <2>1 DEF Solves
    <3>2. (T[i] <=> i # 1) /\ N[i] = i - 1 /\ V[i] = ss[i] /\ \A y \in R : G[i][y] = y \o ss[i]
      <4> HIDE DEF R
      <4> QED
        OBVIOUS
    <3>3. i # 1 => g[i - 1] \in R
      <4>1. i # 1 => i - 1 \in I
        OBVIOUS
      <4> HIDE DEF I, R
      <4> QED
        BY <2>1, <4>1
    <3> HIDE DEF T, N, V, G, R
    <3> QED
      BY <3>1, <3>2, <3>3
  <2>3. Is(g)
    <3>1. g = [i \in I |-> g[i]]
      <4> HIDE DEF I, R
      <4> QED
        BY <2>1
    <3> QED
      BY <2>2, <3>1
  <2>4. Is(h)
    <3> HIDE DEF Is
    <3> QED
      BY <2>3
  <2>5. \A i \in 1..n : h[i] = IF i = 1 THEN ss[i] ELSE h[i - 1] \o ss[i]
    <3> HIDE DEF h
    <3> QED
      BY <2>4
  <2>6. FlattenSeq(ss) = h[n]
    BY <1>1, <1>3 DEF FlattenSeq
  <2> HIDE DEF h
  <2> DEFINE Before(k) == UNION {ToSet(ss[i]) : i \in 1..k}
             Good(k) == /\ h[k] \in Seq(S) /\ ToSet(h[k]) = Before(k)
                        /\ \A Q : /\ \A i \in 1..n : Ranked(ss[i], Q)
                                  /\ \A i, j \in 1..n : i < j =>
                                       \A x \in ToSet(ss[i]), y \in ToSet(ss[j]) : <<x, y>> \in Q
                                  => Ranked(h[k], Q)
             U == {k \in Nat : k + 1 <= n => Good(k + 1)}
  <2>7. Good(1)
    <3>1. 1 \in 1..n /\ h[1] = ss[1] /\ 1..1 = {1}
      BY <1>3, <2>5
    <3> QED
      BY <3>1
  <2>8. ASSUME NEW k \in Nat, k \in 1..n - 1, Good(k) PROVE Good(k + 1)
    <3>1. k + 1 \in 1..n /\ k \in 1..n /\ h[k + 1] = h[k] \o ss[k + 1]
      <4>1. k + 1 \in 1..n /\ k \in 1..n /\ k + 1 # 1 /\ (k + 1) - 1 = k
        BY <2>8
      <4> QED
        BY <2>5, <4>1
    <3> DEFINE a == h[k]
               b == ss[k + 1]
    <3>2. a \in Seq(S) /\ b \in Seq(S) /\ ToSet(a) = Before(k) /\ h[k + 1] = a \o b
      BY <2>8, <3>1
    <3>3. Before(k + 1) = Before(k) \cup ToSet(b)
      <4>1. 1..k + 1 = 1..k \cup {k + 1}
        BY <2>8
      <4> QED
        BY <4>1
    <3>4. \A x \in Before(k) : \E i \in 1..n : i < k + 1 /\ x \in ToSet(ss[i])
      <4>1. \A i \in 1..k : i \in 1..n /\ i < k + 1
        BY <2>8
      <4> QED
        BY <4>1
    <3>5. ASSUME NEW Q, \A i \in 1..n : Ranked(ss[i], Q),
                 \A i, j \in 1..n : i < j =>
                   \A x \in ToSet(ss[i]), y \in ToSet(ss[j]) : <<x, y>> \in Q
          PROVE  Ranked(h[k + 1], Q)
      <4>1. Ranked(a, Q) /\ Ranked(b, Q)
        BY <2>8, <3>1, <3>5
      <4>2. \A x \in ToSet(a), y \in ToSet(b) : <<x, y>> \in Q
        <5> HIDE DEF Before
        <5> QED
          BY <3>1, <3>2, <3>4, <3>5
      <4> HIDE DEF a, b, Before
      <4> QED
        BY <3>2, <4>1, <4>2, ConcatIs
    <3>6. h[k + 1] \in Seq(S) /\ ToSet(h[k + 1]) = Before(k + 1)
      <4> HIDE DEF a, b, Before
      <4>1. a \o b \in Seq(S) /\ ToSet(a \o b) = ToSet(a) \cup ToSet(b)
        BY <3>2, ConcatIs
      <4> QED
        BY <3>2, <3>3, <4>1
    <3> HIDE DEF Before
    <3> QED
      BY <3>5, <3>6
  <2>9. 0 \in U
    BY <2>7
  <2>10. ASSUME NEW k \in Nat, k \in U PROVE k + 1 \in U
    <3> SUFFICES ASSUME (k + 1) + 1 <= n PROVE Good((k + 1) + 1)
      OBVIOUS
    <3>1. k + 1 \in Nat /\ k + 1 \in 1..n - 1
      OBVIOUS
    <3>2. Good(k + 1)
      <4> HIDE DEF Good
      <4> QED
        BY <2>10, <3>1
    <3> HIDE DEF Good
    <3> QED
      BY <2>8, <3>1, <3>2
  <2>11. \A k \in Nat : k \in U
    <3> HIDE DEF U
    <3> QED
      BY <2>9, <2>10, SetInduction
  <2>12. Good(n)
    <3>1. n - 1 \in Nat /\ (n - 1) + 1 = n /\ (n - 1) + 1 <= n
      BY <1>3
    <3> HIDE DEF Good
    <3> QED
      BY <2>11, <3>1
  <2> QED
    BY <2>6, <2>12
<1> QED
  BY <1>2, <1>3

-----------------------------------------------------------------------------
(* ForEach.                                                                *)

Pairs == Bytes \X (Values \cup {Nil})

\* The child of node p for the i-th byte of its table.
ChildAt(p, i) == p \o tree[p].suffix \o <<tree[p].base + i - 1>>

LEMMA ChildAtIs ==
  ASSUME TreeOK(tree), NEW p \in DOMAIN tree, NEW i \in 1..tree[p].len
  PROVE  LET b == tree[p].base + i - 1
         IN  /\ b \in Byte /\ b \in Table(tree[p]) /\ ChildAt(p, i) = Full(tree, p) \o <<b>>
             /\ ChildAt(p, i) \in Bytes /\ Under(tree, p, ChildAt(p, i))
             /\ Child(tree, p, ChildAt(p, i)) /\ Place(tree, ChildAt(p, i))
<1> DEFINE n == tree[p]
           b == n.base + i - 1
<1>1. n \in Contents /\ TableOK(n)
  BY DEF TreeOK
<1> HIDE DEF n
<1>2. n.base \in Nat /\ n.len \in Nat /\ Width \in Nat /\ i \in 1..n.len
  BY <1>1, Lengths DEF Contents, Byte, n
<1>3. n.base + n.len <= Width
  BY <1>1, <1>2 DEF TableOK
<1>4. b \in Byte /\ b \in Table(n)
  BY <1>2, <1>3 DEF Byte, Table
<1>5. ChildAt(p, i) = Full(tree, p) \o <<b>>
  BY DEF ChildAt, Full, n
<1> HIDE DEF b
<1>6. /\ Place(tree, ChildAt(p, i)) /\ Child(tree, p, ChildAt(p, i)) /\ ChildAt(p, i) \in Bytes
  BY <1>4, <1>5, ChildPlace DEF n
<1> QED
  BY <1>4, <1>5, <1>6 DEF n, b, Child

\* What the children show, one after the other.
Shows(f, p) ==
  [i \in 1..tree[p].len |-> IF ChildAt(p, i) \in DOMAIN tree THEN f[ChildAt(p, i)] ELSE <<>>]

LEMMA BelowIs ==
  ASSUME TreeOK(tree), NEW p \in DOMAIN tree, NEW f,
         \A i \in 1..tree[p].len : ChildAt(p, i) \in DOMAIN tree => f[ChildAt(p, i)] \in Seq(Pairs)
  PROVE  /\ Below(f, p, tree[p]) = FlattenSeq(Shows(f, p)) /\ tree[p].len \in Nat
         /\ Shows(f, p) \in [1..tree[p].len -> Seq(Pairs)] /\ Below(f, p, tree[p]) \in Seq(Pairs)
<1>1. tree[p].len \in Nat
  BY NodeIs DEF Contents
<1>2. Below(f, p, tree[p]) = FlattenSeq(Shows(f, p))
  BY DEF Below, Shows, ChildAt
<1>3. Shows(f, p) \in [1..tree[p].len -> Seq(Pairs)]
  <2> DEFINE R == Seq(Pairs)
  <2>1. <<>> \in R /\ \A i \in 1..tree[p].len : ChildAt(p, i) \in DOMAIN tree => f[ChildAt(p, i)] \in R
    BY EmptySeq
  <2> HIDE DEF R
  <2>2. Shows(f, p) \in [1..tree[p].len -> R]
    BY <2>1 DEF Shows
  <2> QED
    BY <2>2 DEF R
<1>4. FlattenSeq(Shows(f, p)) \in Seq(Pairs)
  BY <1>1, <1>3, FlattenIs
<1> QED
  BY <1>1, <1>2, <1>3, <1>4

LEMMA OwnIs ==
  ASSUME TreeOK(tree), NEW p \in DOMAIN tree
  PROVE  LET e == <<Full(tree, p), tree[p].value>>
             own == Own(p, tree[p])
         IN  /\ own \in Seq(Pairs) /\ \A T : Ranked(own, T)
             /\ ToSet(own) = IF tree[p].value = Nil THEN {} ELSE {e}
<1> DEFINE e == <<Full(tree, p), tree[p].value>>
           own == Own(p, tree[p])
<1>1. e \in Pairs
  BY NodeIs DEF Pairs, Contents
<1>2. own = IF tree[p].value = Nil THEN <<>> ELSE <<e>>
  BY DEF Own, Full
<1> HIDE DEF e, own
<1>3. CASE tree[p].value = Nil
  <2>1. own \in Seq(Pairs) /\ Len(own) = 0
    BY <1>2, <1>3, EmptySeq
  <2>2. DOMAIN own = 1..Len(own) /\ 1..Len(own) = {}
    BY <2>1, LenProperties
  <2> QED
    BY <1>3, <2>1, <2>2 DEF Ranked, ToSet, own
<1>4. CASE tree[p].value # Nil
  <2>1. own = <<e>>
    BY <1>2, <1>4
  <2>2. own \in Seq(Pairs) /\ Len(own) = 1 /\ own[1] = e
    <3> HIDE DEF Pairs
    <3> QED
      BY <1>1, <2>1
  <2>3. DOMAIN own = 1..Len(own) /\ 1..Len(own) = {1}
    BY <2>2, LenProperties
  <2>4. ToSet(own) = {e}
    BY <2>2, <2>3 DEF ToSet
  <2>5. \A T : Ranked(own, T)
    BY <2>2 DEF Ranked
  <2> QED
    BY <1>4, <2>2, <2>4, <2>5 DEF own, e
<1> QED
  BY <1>3, <1>4

\* ForEach is a recursion over nodes: each shows its own key, then its children do.
LEMMA VisitIs ==
  ASSUME TreeOK(tree)
  PROVE  \E visit :
           /\ \A p \in DOMAIN tree : visit[p] = Own(p, tree[p]) \o Below(visit, p, tree[p])
           /\ ForEach = IF <<>> \in DOMAIN tree THEN visit[<<>>] ELSE <<>>
<1> DEFINE S == DOMAIN tree
           R == Seq(Pairs)
           Is(f) == f = [p \in DOMAIN tree |-> Own(p, tree[p]) \o Below(f, p, tree[p])]
           h == CHOOSE f : Is(f)
<1>1. PICK d \in Nat : \A p \in S : Len(p) < d
  BY DEF TreeOK
<1> DEFINE m == [p \in S |-> d - Len(p)]
           G == [p \in S |-> [f \in [S -> R] |-> Own(p, tree[p]) \o Below(f, p, tree[p])]]
<1>2. \A p \in S : Len(p) \in Nat /\ m[p] = d - Len(p)
  BY NodeIs
<1>3. m \in [S -> Nat] /\ d + 1 \in Nat /\ \A p \in S : m[p] < d + 1
  <2>1. \A p \in S : d - Len(p) \in Nat /\ d - Len(p) < d + 1
    BY <1>1, <1>2
  <2> HIDE DEF S
  <2> QED
    BY <2>1
<1>4. \A p \in S : \A f \in [S -> R] : G[p][f] = Own(p, tree[p]) \o Below(f, p, tree[p])
  <2> HIDE DEF S, R
  <2> QED
    OBVIOUS
<1>5. \A p \in S : \A f \in [S -> R] : Own(p, tree[p]) \o Below(f, p, tree[p]) \in R
  BY OwnIs, BelowIs, ConcatIs
<1>6. G \in [S -> [[S -> R] -> R]]
  <2> HIDE DEF S, R
  <2> QED
    BY <1>5
<1>7. Looks(G, S, R, m, d + 1)
  <2> SUFFICES ASSUME NEW p \in S, NEW f \in [S -> R], NEW g \in [S -> R],
                      \A y \in S : m[y] < m[p] => f[y] = g[y]
               PROVE  G[p][f] = G[p][g]
    <3> HIDE DEF G, S, R, m
    <3> QED
      BY <1>3, <1>6 DEF Looks
  <2>1. \A i \in 1..tree[p].len : ChildAt(p, i) \in S => f[ChildAt(p, i)] = g[ChildAt(p, i)]
    <3> SUFFICES ASSUME NEW i \in 1..tree[p].len, ChildAt(p, i) \in S
                 PROVE  f[ChildAt(p, i)] = g[ChildAt(p, i)]
      OBVIOUS
    <3> DEFINE c == ChildAt(p, i)
    <3>1. Len(p) < Len(c)
      BY ChildAtIs, UnderBegins
    <3>2. m[c] < m[p]
      <4>1. c \in S /\ Len(c) \in Nat /\ Len(p) \in Nat /\ m[c] = d - Len(c) /\ m[p] = d - Len(p)
        BY <1>2
      <4> HIDE DEF m, c
      <4> QED
        BY <3>1, <4>1
    <3> HIDE DEF m
    <3> QED
      BY <3>2
  <2>2. Shows(f, p) = Shows(g, p)
    BY <2>1 DEF Shows
  <2>3. Below(f, p, tree[p]) = Below(g, p, tree[p])
    BY <2>2, BelowIs
  <2> HIDE DEF G
  <2> QED
    BY <1>4, <2>3
<1>8. <<>> \in R
  BY EmptySeq
<1>9. PICK v \in [S -> R] : \A p \in S : v[p] = G[p][v]
  <2> DEFINE r == <<>>
  <2>1. r \in R
    BY <1>8
  <2> HIDE DEF S, R, G, m, r
  <2> QED
    BY <1>3, <1>7, <2>1, WideRecursionExists
<1>10. Is(v)
  <2>1. \A p \in S : v[p] = Own(p, tree[p]) \o Below(v, p, tree[p])
    <3> HIDE DEF G, S, R
    <3> QED
      BY <1>4, <1>9
  <2>2. v = [p \in S |-> v[p]]
    <3> HIDE DEF R
    <3> QED
      BY <1>9
  <2> QED
    BY <2>1, <2>2
<1>11. Is(h)
  <2> HIDE DEF Is
  <2> QED
    BY <1>10
<1>12. ForEach = IF <<>> \in DOMAIN tree THEN h[<<>>] ELSE <<>>
  BY DEF ForEach
<1>13. \A p \in DOMAIN tree : h[p] = Own(p, tree[p]) \o Below(h, p, tree[p])
  <2> HIDE DEF h
  <2> QED
    BY <1>11
<1> HIDE DEF h
<1> QED
  BY <1>12, <1>13

\* What comes first in byte order: a beginning, and the smaller byte where two keys part.
LEMMA LessIs ==
  ASSUME NEW a \in Bytes, NEW b \in Bytes
  PROVE  /\ Begins(a, b) /\ Len(a) < Len(b) => Less(a, b)
         /\ \A f \in Bytes :
              Begins(f, a) /\ Begins(f, b) /\ Len(f) < Len(a) /\ Len(f) < Len(b)
                /\ a[Len(f) + 1] < b[Len(f) + 1] => Less(a, b)
<1> DEFINE s == CommonPrefix(a, b)
<1>1. /\ s \in Nat /\ s <= Len(a) /\ s <= Len(b) /\ \A i \in 1..s : a[i] = b[i]
      /\ s < Len(a) /\ s < Len(b) => a[s + 1] # b[s + 1]
  BY CommonPrefixIs
<1>2. Len(a) \in Nat /\ Len(b) \in Nat
  BY BytesAre
<1>3. Less(a, b) <=> IF s < Len(a) /\ s < Len(b) THEN a[s + 1] < b[s + 1] ELSE Len(a) < Len(b)
  BY DEF Less
<1> HIDE DEF s
<1>4. ASSUME Begins(a, b), Len(a) < Len(b) PROVE Less(a, b)
  <2>1. s < Len(a) => a[s + 1] = b[s + 1]
    BY <1>1, <1>2, <1>4 DEF Begins
  <2>2. ~(s < Len(a))
    BY <1>1, <1>2, <1>4, <2>1
  <2> QED
    BY <1>3, <1>4, <2>2
<1>5. ASSUME NEW f \in Bytes, Begins(f, a), Begins(f, b), Len(f) < Len(a), Len(f) < Len(b),
             a[Len(f) + 1] < b[Len(f) + 1]
      PROVE  Less(a, b)
  <2>1. Len(f) \in Nat /\ \A i \in 1..Len(f) : a[i] = b[i]
    BY <1>5, BytesAre DEF Begins
  <2>2. a[Len(f) + 1] \in Int /\ b[Len(f) + 1] \in Int
    <3>1. Len(f) + 1 \in 1..Len(a) /\ Len(f) + 1 \in 1..Len(b)
      BY <1>2, <1>5, <2>1
    <3>2. \A x \in Byte : x \in Int
      BY Lengths DEF Byte
    <3> QED
      BY <3>1, <3>2, BytesAre
  <2>3. a[Len(f) + 1] # b[Len(f) + 1]
    BY <1>5, <2>2
  <2>4. s <= Len(f)
    <3>1. s > Len(f) => Len(f) + 1 \in 1..s
      BY <1>1, <2>1
    <3> QED
      BY <1>1, <2>1, <2>3, <3>1
  <2>5. ~(s < Len(f))
    <3>1. s < Len(f) => s + 1 \in 1..Len(f) /\ s < Len(a) /\ s < Len(b)
      BY <1>1, <1>2, <1>5, <2>1
    <3> QED
      BY <1>1, <2>1, <3>1
  <2>6. s = Len(f)
    BY <1>1, <2>1, <2>4, <2>5
  <2> QED
    BY <1>3, <1>5, <2>6
<1> QED
  BY <1>4, <1>5

\* The keys and values at p and below.
EntriesFrom(p) ==
  {<<Full(tree, q), tree[q].value>> : q \in {q \in DOMAIN tree : Begins(p, q) /\ tree[q].value # Nil}}

LEMMA FromIs ==
  ASSUME NEW p, NEW e
  PROVE  e \in EntriesFrom(p) <=>
           \E q \in DOMAIN tree : Begins(p, q) /\ tree[q].value # Nil /\ e = <<Full(tree, q), tree[q].value>>
BY DEF EntriesFrom

\* In the order of keys.
InOrder == {w \in Pairs \X Pairs : Less(w[1][1], w[2][1])}

\* What is below a child has the byte of the child behind the key of the parent.
LEMMA BelowChild ==
  ASSUME TreeOK(tree), NEW p \in DOMAIN tree, NEW i \in 1..tree[p].len,
         NEW q \in DOMAIN tree, Begins(ChildAt(p, i), q)
  PROVE  LET f == Full(tree, p)
             k == Full(tree, q)
         IN  /\ f \in Bytes /\ k \in Bytes /\ Begins(f, k) /\ Len(f) < Len(k)
             /\ k[Len(f) + 1] = tree[p].base + i - 1
             /\ ChildAt(p, i) \in DOMAIN tree /\ Begins(p, q)
<1> DEFINE f == Full(tree, p)
           k == Full(tree, q)
           b == tree[p].base + i - 1
           c == ChildAt(p, i)
<1>1. /\ b \in Byte /\ c = f \o <<b>> /\ c \in Bytes /\ Place(tree, c) /\ Under(tree, p, c)
      /\ f \in Bytes /\ k \in Bytes /\ p \in Bytes /\ q \in Bytes /\ Begins(q, k)
  BY ChildAtIs, NodeIs
<1>2. c \in DOMAIN tree /\ Begins(p, q)
  <2>1. Begins(p, c)
    BY <1>1, UnderBegins
  <2> HIDE DEF c
  <2>2. Begins(c, q)
    BY DEF c
  <2> QED
    BY <1>1, <2>1, <2>2, BeginsTrans, PlaceFilled
<1> HIDE DEF f, k, b
<1>3. Len(c) = Len(f) + 1 /\ Begins(f, c) /\ c[Len(f) + 1] = b
  <2> HIDE DEF c
  <2> QED
    BY <1>1, OneMore
<1>4. Begins(c, k) /\ Begins(f, k)
  <2>1. Begins(c, k)
    BY <1>1, BeginsTrans
  <2> HIDE DEF c
  <2> QED
    BY <1>1, <1>3, <2>1, BeginsTrans
<1>5. Len(f) < Len(k) /\ k[Len(f) + 1] = b
  <2> HIDE DEF c
  <2>1. Len(f) \in Nat /\ Len(k) \in Nat /\ Len(c) \in Nat
    BY <1>1, BytesAre
  <2> QED
    BY <1>3, <1>4, <2>1 DEF Begins
<1> QED
  BY <1>1, <1>2, <1>4, <1>5 DEF f, k, b

\* One node of the recursion: it shows what is at it and below it, in order, if each
\* child does.
LEMMA VisitStep ==
  ASSUME TreeOK(tree), NEW p \in DOMAIN tree, NEW visit,
         visit[p] = Own(p, tree[p]) \o Below(visit, p, tree[p]),
         \A i \in 1..tree[p].len : ChildAt(p, i) \in DOMAIN tree =>
           /\ visit[ChildAt(p, i)] \in Seq(Pairs)
           /\ ToSet(visit[ChildAt(p, i)]) = EntriesFrom(ChildAt(p, i))
           /\ Ranked(visit[ChildAt(p, i)], InOrder)
  PROVE  /\ visit[p] \in Seq(Pairs) /\ ToSet(visit[p]) = EntriesFrom(p)
         /\ Ranked(visit[p], InOrder)
<1> DEFINE n == tree[p].len
           f == Full(tree, p)
           own == Own(p, tree[p])
           below == Below(visit, p, tree[p])
           ss == Shows(visit, p)
           x == <<f, tree[p].value>>
<1>1. /\ below = FlattenSeq(ss) /\ n \in Nat /\ ss \in [1..n -> Seq(Pairs)] /\ below \in Seq(Pairs)
  BY BelowIs
<1>2. /\ own \in Seq(Pairs) /\ \A T : Ranked(own, T)
      /\ ToSet(own) = IF tree[p].value = Nil THEN {} ELSE {x}
  BY OwnIs
<1>3. p \in Bytes /\ f \in Bytes /\ x \in Pairs /\ Len(p) \in Nat /\ Begins(p, p)
  <2>1. p \in Bytes /\ f \in Bytes /\ Len(p) \in Nat /\ tree[p].value \in Values \cup {Nil}
    BY NodeIs DEF Contents
  <2> HIDE DEF f
  <2> QED
    BY <2>1 DEF Pairs, Begins
<1>4. ASSUME NEW i \in 1..n
      PROVE  ToSet(ss[i]) = EntriesFrom(ChildAt(p, i)) /\ Ranked(ss[i], InOrder)
  <2> DEFINE c == ChildAt(p, i)
  <2>1. ss[i] = IF c \in DOMAIN tree THEN visit[c] ELSE <<>>
    BY DEF Shows
  <2>2. CASE c \in DOMAIN tree
    BY <2>1, <2>2
  <2>3. CASE c \notin DOMAIN tree
    <3> DEFINE e == <<>>
    <3>1. EntriesFrom(c) = {}
      BY <2>3, FromIs, BelowChild
    <3>2. e \in Seq(Pairs) /\ Len(e) = 0 /\ ss[i] = e
      BY <2>1, <2>3, EmptySeq
    <3> HIDE DEF e, ss
    <3>3. DOMAIN e = 1..Len(e) /\ 1..Len(e) = {}
      BY <3>2, LenProperties
    <3> QED
      BY <3>1, <3>2, <3>3 DEF ToSet, Ranked
  <2> QED
    BY <2>2, <2>3
<1> HIDE DEF ss, own, below
<1>5. ToSet(below) = UNION {EntriesFrom(ChildAt(p, i)) : i \in 1..n}
  <2>1. ToSet(below) = UNION {ToSet(ss[i]) : i \in 1..n}
    <3> HIDE DEF n
    <3> QED
      BY <1>1, FlattenIs
  <2> QED
    BY <1>4, <2>1
<1>6. ASSUME NEW i \in 1..n, NEW y \in EntriesFrom(ChildAt(p, i))
      PROVE  /\ y \in Pairs /\ y[1] \in Bytes /\ Begins(f, y[1]) /\ Len(f) < Len(y[1])
             /\ y[1][Len(f) + 1] = tree[p].base + i - 1 /\ y \in EntriesFrom(p)
  <2>1. PICK q \in DOMAIN tree : /\ Begins(ChildAt(p, i), q) /\ tree[q].value # Nil
                                 /\ y = <<Full(tree, q), tree[q].value>>
    BY <1>6, FromIs
  <2>2. y[1] = Full(tree, q) /\ y \in Pairs
    <3>1. Full(tree, q) \in Bytes /\ tree[q].value \in Values \cup {Nil}
      BY NodeIs DEF Contents
    <3> QED
      BY <2>1, <3>1 DEF Pairs
  <2>3. /\ Full(tree, q) \in Bytes /\ Begins(f, Full(tree, q)) /\ Len(f) < Len(Full(tree, q))
        /\ Full(tree, q)[Len(f) + 1] = tree[p].base + i - 1 /\ Begins(p, q)
    BY <2>1, BelowChild
  <2> QED
    BY <2>1, <2>2, <2>3, FromIs
<1>7. ToSet(own \o below) = EntriesFrom(p)
  <2>1. ToSet(own \o below) = ToSet(own) \cup ToSet(below)
    BY <1>1, <1>2, ConcatIs
  <2>2. ASSUME NEW y \in ToSet(own) PROVE y \in EntriesFrom(p)
    <3>1. tree[p].value # Nil /\ y = x
      BY <1>2, <2>2
    <3> QED
      BY <1>3, <3>1, FromIs
  <2>3. ASSUME NEW y \in ToSet(below) PROVE y \in EntriesFrom(p)
    BY <1>5, <1>6, <2>3
  <2>4. ASSUME NEW y \in EntriesFrom(p) PROVE y \in ToSet(own) \/ y \in ToSet(below)
    <3>1. PICK q \in DOMAIN tree : /\ Begins(p, q) /\ tree[q].value # Nil
                                   /\ y = <<Full(tree, q), tree[q].value>>
      BY <2>4, FromIs
    <3>2. CASE q = p
      BY <1>2, <3>1, <3>2
    <3>3. CASE q # p
      <4> DEFINE b == q[Len(f) + 1]
                 i == b - tree[p].base + 1
      <4>1. q \in Bytes /\ Under(tree, p, q)
        BY <3>1, <3>3, NodeIs DEF TreeOK, Place
      <4>2. Len(f) < Len(q) /\ Begins(f, q) /\ b \in Table(tree[p])
        BY <4>1 DEF Under
      <4>3. i \in 1..n /\ tree[p].base + i - 1 = b
        <5>1. tree[p].base \in Nat /\ n \in Nat
          BY SMTT(30), NodeIs, Lengths DEF Contents, Byte
        <5> HIDE DEF n
        <5>2. b \in tree[p].base .. tree[p].base + n - 1
          BY <4>2 DEF Table, n
        <5> HIDE DEF b
        <5> QED
          BY <5>1, <5>2
      <4>4. b \in Byte /\ ChildAt(p, i) = f \o <<b>> /\ ChildAt(p, i) \in Bytes
        <5> HIDE DEF i
        <5> QED
          BY <4>3, ChildAtIs
      <4>5. Begins(ChildAt(p, i), q)
        <5> DEFINE c == f \o <<b>>
        <5> HIDE DEF f, b
        <5>1. /\ Len(c) = Len(f) + 1 /\ Begins(f, c) /\ c[Len(f) + 1] = b
          BY <1>3, <4>4, OneMore
        <5> HIDE DEF c
        <5>2. Len(f) \in Nat /\ Len(q) \in Nat
          BY <1>3, <4>1, BytesAre
        <5>3. \A j \in 1..Len(c) : j \in 1..Len(f) \/ j = Len(f) + 1
          BY <5>1, <5>2
        <5>4. Begins(c, q)
          <6>1. Len(c) <= Len(q) /\ q[Len(f) + 1] = b
            BY <4>2, <5>1, <5>2 DEF b
          <6> QED
            BY <4>2, <5>1, <5>2, <5>3, <6>1 DEF Begins
        <5> QED
          BY <4>4, <5>4 DEF c
      <4> HIDE DEF i
      <4>6. y \in EntriesFrom(ChildAt(p, i))
        BY <3>1, <4>5, FromIs
      <4> QED
        BY <1>5, <4>3, <4>6
    <3> QED
      BY <3>2, <3>3
  <2> QED
    BY <2>1, <2>2, <2>3, <2>4
<1>8. Ranked(below, InOrder)
  <2>1. ASSUME NEW i \in 1..n, NEW j \in 1..n, i < j,
               NEW y \in EntriesFrom(ChildAt(p, i)), NEW z \in EntriesFrom(ChildAt(p, j))
        PROVE  <<y, z>> \in InOrder
    <3>1. /\ y \in Pairs /\ y[1] \in Bytes /\ Begins(f, y[1]) /\ Len(f) < Len(y[1])
          /\ y[1][Len(f) + 1] = tree[p].base + i - 1
      BY <1>6
    <3>2. /\ z \in Pairs /\ z[1] \in Bytes /\ Begins(f, z[1]) /\ Len(f) < Len(z[1])
          /\ z[1][Len(f) + 1] = tree[p].base + j - 1
      BY <1>6
    <3>3. tree[p].base + i - 1 < tree[p].base + j - 1
      <4>1. tree[p].base \in Nat /\ n \in Nat
        BY NodeIs, Lengths DEF Contents, Byte
      <4> HIDE DEF n
      <4> QED
        BY <2>1, <4>1
    <3>4. Less(y[1], z[1])
      <4> HIDE DEF f
      <4> QED
        BY <1>3, <3>1, <3>2, <3>3, LessIs
    <3> QED
      BY <3>1, <3>2, <3>4 DEF InOrder
  <2>2. /\ \A i \in 1..n : Ranked(ss[i], InOrder)
        /\ \A i, j \in 1..n : i < j =>
             \A y \in ToSet(ss[i]), z \in ToSet(ss[j]) : <<y, z>> \in InOrder
    <3> HIDE DEF n
    <3> QED
      BY <1>4, <2>1
  <2> HIDE DEF n
  <2> QED
    BY <1>1, <2>2, FlattenIs
<1>9. Ranked(own \o below, InOrder)
  <2>1. ASSUME NEW y \in ToSet(own), NEW z \in ToSet(below) PROVE <<y, z>> \in InOrder
    <3>1. y = x
      BY <1>2, <2>1
    <3>2. PICK i \in 1..n : z \in EntriesFrom(ChildAt(p, i))
      BY <1>5, <2>1
    <3>3. z \in Pairs /\ z[1] \in Bytes /\ Begins(f, z[1]) /\ Len(f) < Len(z[1])
      BY <1>6, <3>2
    <3>4. Less(f, z[1])
      BY <1>3, <3>3, LessIs
    <3>5. y \in Pairs /\ y[1] = f
      BY <1>3, <3>1
    <3> QED
      BY <3>3, <3>4, <3>5 DEF InOrder
  <2> QED
    BY <1>1, <1>2, <1>8, <2>1, ConcatIs
<1> QED
  <2>1. own \o below \in Seq(Pairs)
    BY <1>1, <1>2, ConcatIs
  <2> QED
    BY <1>7, <1>9, <2>1 DEF own, below

\* So ForEach shows each entry of the tree once, in order.
LEMMA ForEachIs ==
  ASSUME TreeOK(tree)
  PROVE  ForEach \in Seq(Pairs) /\ ToSet(ForEach) = Entries(tree) /\ Ranked(ForEach, InOrder)
<1> DEFINE S == DOMAIN tree
<1>1. PICK visit : /\ \A p \in S : visit[p] = Own(p, tree[p]) \o Below(visit, p, tree[p])
                   /\ ForEach = IF <<>> \in S THEN visit[<<>>] ELSE <<>>
  BY VisitIs
<1>2. PICK d \in Nat : \A p \in S : Len(p) < d
  BY DEF TreeOK
<1> DEFINE m == [p \in S |-> d - Len(p)]
           Good(p) == /\ visit[p] \in Seq(Pairs) /\ ToSet(visit[p]) = EntriesFrom(p)
                      /\ Ranked(visit[p], InOrder)
           T == {p \in S : Good(p)}
<1>3. \A p \in S : Len(p) \in Nat /\ m[p] = d - Len(p) /\ d - Len(p) \in Nat
  BY <1>2, NodeIs
<1>4. ASSUME NEW p \in S, \A q \in S : m[q] < m[p] => q \in T PROVE p \in T
  <2>1. ASSUME NEW i \in 1..tree[p].len, ChildAt(p, i) \in S PROVE Good(ChildAt(p, i))
    <3> DEFINE c == ChildAt(p, i)
    <3>1. Len(p) < Len(c)
      BY ChildAtIs, UnderBegins
    <3>2. m[c] < m[p] /\ c \in S
      <4>1. c \in S /\ Len(c) \in Nat /\ Len(p) \in Nat /\ m[c] = d - Len(c) /\ m[p] = d - Len(p)
        BY <1>3, <2>1
      <4> HIDE DEF m, c, S
      <4> QED
        BY <3>1, <4>1
    <3>3. c \in T
      <4> HIDE DEF m, T, S, c
      <4> QED
        BY <1>4, <3>2
    <3> HIDE DEF Good
    <3> QED
      BY <3>3
  <2>2. Good(p)
    BY <1>1, <2>1, VisitStep
  <2> HIDE DEF Good
  <2> QED
    BY <2>2
<1>5. \A p \in S : p \in T
  <2>1. m \in [S -> Nat]
    BY <1>3
  <2> HIDE DEF S, T, m
  <2> QED
    BY <1>4, <2>1, MeasureInduction
<1>6. CASE <<>> \in S
  <2>1. Good(<<>>)
    <3> HIDE DEF Good
    <3> QED
      BY <1>5, <1>6
  <2>2. EntriesFrom(<<>>) = Entries(tree)
    <3>1. \A q \in S : Begins(<<>>, q)
      BY <1>3, EmptySeq DEF Begins
    <3> QED
      BY <3>1 DEF EntriesFrom, Entries
  <2> QED
    BY <1>1, <1>6, <2>1, <2>2
<1>7. CASE <<>> \notin S
  <2> DEFINE e == <<>>
  <2>1. Entries(tree) = {}
    BY <1>7, Root DEF Entries
  <2>2. ForEach = e /\ e \in Seq(Pairs) /\ Len(e) = 0
    BY <1>1, <1>7, EmptySeq
  <2> HIDE DEF e
  <2>3. DOMAIN e = 1..Len(e) /\ 1..Len(e) = {}
    BY <2>2, LenProperties
  <2> QED
    BY <2>1, <2>2, <2>3 DEF ToSet, Ranked
<1> QED
  BY <1>6, <1>7

\* ForEach shows each key once and in sorted order, however tables have grown and nodes
\* have moved (trie.go:137-140).
THEOREM SortedAlways == Spec => []ForEachSorted
<1>1. ASSUME IInv PROVE ForEachSorted
  <2>1. ForEach \in Seq(Pairs) /\ Ranked(ForEach, InOrder)
    BY <1>1, ForEachIs DEF IInv
  <2> SUFFICES ASSUME NEW i \in 1..Len(ForEach) - 1
               PROVE  Less(ForEach[i][1], ForEach[i + 1][1])
    BY DEF ForEachSorted
  <2>2. Len(ForEach) \in Nat
    BY <2>1, LenProperties
  <2>3. i \in 1..Len(ForEach) /\ i + 1 \in 1..Len(ForEach) /\ i < i + 1
    BY <2>2
  <2>4. <<ForEach[i], ForEach[i + 1]>> \in InOrder
    BY <2>1, <2>3 DEF Ranked
  <2> QED
    BY <2>4 DEF InOrder
<1> QED
  BY <1>1, Invariant, PTL

\* At every level of the descent, whatever was split and grown on the way, the trie
\* shows the keys and values it had, and with the last step those that Put asks for
\* (trie.go:45-88).
THEOREM IsDictionary == Spec => ActsAsDictionary
<1> DEFINE request == IF put = Idle THEN <<>> ELSE <<put.key, put.value>>
<1>1. IInv => Shown = Entries(tree)
  BY ForEachIs DEF IInv, Shown
<1>2. Init => Dict!Init
  <2> SUFFICES ASSUME Init PROVE Dict!Init
    OBVIOUS
  <2>1. Shown = Entries(tree) /\ Entries(tree) = {} /\ put = Idle
    BY <1>1, InitInvariant DEF Entries
  <2> QED
    BY <2>1 DEF Dict!Init
<1>3. IInv /\ IInv' /\ (Shown = Entries(tree)) /\ (Shown = Entries(tree))' /\ [Next]_vars
        => [Dict!Begin \/ Dict!Finish]_<<Shown, request>>
  <2> SUFFICES ASSUME IInv, Shown = Entries(tree), Shown' = Entries(tree'), [Next]_vars
               PROVE  [Dict!Begin \/ Dict!Finish]_<<Shown, request>>
    OBVIOUS
  <2>1. CASE Put
    <3>1. PICK k \in Keys, v \in Values \cup {Nil} : put' = [key |-> k, value |-> v, at |-> 0]
      BY <2>1 DEF Put
    <3>2. put'.key = k /\ put'.value = v /\ put' # Idle
      BY <3>1 DEF Idle
    <3>3. put = Idle /\ tree' = tree
      BY <2>1 DEF Put
    <3> QED
      BY <3>2, <3>3 DEF Dict!Begin
  <2>2. ASSUME PutEmpty \/ PutHere PROVE Dict!Finish
    <3>1. put # Idle /\ put' = Idle
      BY <2>2 DEF PutEmpty, PutHere
    <3>2. Shown' = {e \in Shown : e[1] # put.key} \cup ({<<put.key, put.value>>} \ {<<put.key, Nil>>})
      BY <2>2, PutEmptyKeeps, PutHereKeeps
    <3>3. request = <<put.key, put.value>> /\ request' = <<>> /\ request # <<>> /\ request[1] = put.key
      BY <3>1
    <3> QED
      BY <3>2, <3>3 DEF Dict!Finish
  <2>3. CASE PutBelow
    <3>1. /\ put # Idle /\ put' # Idle /\ Entries(tree') = Entries(tree)
          /\ put'.key = put.key /\ put'.value = put.value
      BY <2>3, PutBelowKeeps DEF PutBelow
    <3> QED
      BY <3>1
  <2>4. CASE UNCHANGED vars
    BY <2>4 DEF vars
  <2> QED
    BY <2>1, <2>2, <2>3, <2>4 DEF Next
<1>4. Spec => Dict!Spec
  BY <1>1, <1>2, <1>3, Invariant, PTL DEF Spec, Dict!Spec
<1> QED
  BY <1>4 DEF ActsAsDictionary

-----------------------------------------------------------------------------
(* Get.                                                                    *)

\* Where Get is after so many bytes of the key, what is left of the key, and how much of
\* that is in the suffix.
NodeAt(k, at) == Node(SubSeq(k, 1, at))
Left(k, at)   == SubSeq(k, at + 1, Len(k))
Match(k, at)  == CommonPrefix(NodeAt(k, at).suffix, Left(k, at))

\* It goes on to a child, or ends.
GoesOn(k, at) ==
  LET n == NodeAt(k, at)
      s == Match(k, at)
      b == Left(k, at)[s + 1]
  IN  /\ ~(s < Len(n.suffix)) /\ s # Len(Left(k, at))
      /\ ~(b < n.base \/ b > n.base + n.len) /\ b \in Table(n)

Ends(k, at) ==
  LET n == NodeAt(k, at)
      s == Match(k, at)
      b == Left(k, at)[s + 1]
  IN  IF s < Len(n.suffix) THEN Nil
      ELSE IF s = Len(Left(k, at)) THEN n.value
      ELSE IF b < n.base \/ b > n.base + n.len THEN Nil ELSE "panic"

\* The values in the tree for a key: one or none.
Answers(k) == {e[2] : e \in {e \in Entries(tree) : e[1] = k}}

LEMMA AnswerIs ==
  ASSUME NEW k, NEW v
  PROVE  v \in Answers(k) <=> \E q \in DOMAIN tree : Full(tree, q) = k /\ tree[q].value # Nil /\ v = tree[q].value
<1>1. ASSUME v \in Answers(k)
      PROVE  \E q \in DOMAIN tree : Full(tree, q) = k /\ tree[q].value # Nil /\ v = tree[q].value
  <2>1. PICK e \in Entries(tree) : e[1] = k /\ v = e[2]
    BY <1>1 DEF Answers
  <2> QED
    BY <2>1, EntryIs
<1>2. ASSUME NEW q \in DOMAIN tree, Full(tree, q) = k, tree[q].value # Nil, v = tree[q].value
      PROVE  v \in Answers(k)
  <2> DEFINE e == <<Full(tree, q), tree[q].value>>
  <2>1. e \in Entries(tree) /\ e[1] = k /\ e[2] = v
    BY <1>2, EntryIs
  <2> HIDE DEF e
  <2> QED
    BY <2>1 DEF Answers
<1> QED
  BY <1>1, <1>2

\* The node there, and what is left.
LEMMA GetIs ==
  ASSUME TreeOK(tree), NEW k \in Bytes, NEW at \in 0..Len(k)
  PROVE  LET c == SubSeq(k, 1, at)
             n == NodeAt(k, at)
             r == Left(k, at)
             s == Match(k, at)
         IN  /\ c \in Bytes /\ Begins(c, k) /\ Len(c) = at /\ c \o r = k /\ r \in Bytes
             /\ Len(r) \in Nat /\ Len(r) = Len(k) - at /\ \A i \in 1..Len(r) : r[i] = k[at + i]
             /\ n = IF c \in DOMAIN tree THEN tree[c] ELSE ZeroTrie
             /\ n \in Contents /\ n.suffix \in Bytes /\ Len(n.suffix) \in Nat
             /\ s \in Nat /\ s <= Len(n.suffix) /\ s <= Len(r)
             /\ \A i \in 1..s : n.suffix[i] = r[i]
             /\ s < Len(n.suffix) /\ s < Len(r) => n.suffix[s + 1] # r[s + 1]
             /\ SubSeq(n.suffix, 1, s) = SubSeq(r, 1, s)
<1> DEFINE c == SubSeq(k, 1, at)
           n == NodeAt(k, at)
           r == Left(k, at)
           s == Match(k, at)
           x == n.suffix
<1>1. /\ c \in Bytes /\ Begins(c, k) /\ Len(c) = at /\ c \o r = k /\ r \in Bytes
      /\ Len(r) = Len(k) - at /\ \A i \in 1..Len(r) : r[i] = k[at + i]
  BY Parts DEF Left
<1>2. n = IF c \in DOMAIN tree THEN tree[c] ELSE ZeroTrie
  BY DEF NodeAt, Node
<1>3. n \in Contents
  BY <1>2, ZeroIs, NodeIs
<1>4. x \in Bytes
  BY <1>3 DEF Contents
<1>5. s = CommonPrefix(x, r)
  BY DEF Match
<1> HIDE DEF c, n, r, s, x
<1>6. /\ s \in Nat /\ s <= Len(x) /\ s <= Len(r) /\ \A i \in 1..s : x[i] = r[i]
      /\ s < Len(x) /\ s < Len(r) => x[s + 1] # r[s + 1]
      /\ SubSeq(x, 1, s) = SubSeq(r, 1, s)
  BY <1>1, <1>4, <1>5, CommonPrefixIs, CommonPart
<1>7. Len(x) \in Nat /\ Len(r) \in Nat
  BY <1>1, <1>4, BytesAre
<1> QED
  BY <1>1, <1>2, <1>3, <1>4, <1>6, <1>7 DEF c, n, r, s, x

\* Get is a recursion over the length of the key above.
LEMMA GetRecursion ==
  ASSUME TreeOK(tree), NEW k \in Bytes
  PROVE  \E get : /\ Get(k) = get[0]
                  /\ \A at \in 0..Len(k) :
                       get[at] = IF GoesOn(k, at) THEN get[at + Match(k, at) + 1] ELSE Ends(k, at)
<1> DEFINE S == 0..Len(k)
           V == [at \in S |-> Ends(k, at)]
           R == {V[at] : at \in S}
           T == [at \in S |-> GoesOn(k, at)]
           N == [at \in S |-> at + Match(k, at) + 1]
           G == [at \in S |-> [y \in R |-> y]]
           m == [at \in S |-> Len(k) - at]
           Is(f) == f = [at \in 0..Len(k) |->
                           LET n    == Node(SubSeq(k, 1, at))
                               rest == SubSeq(k, at + 1, Len(k))
                               s    == CommonPrefix(n.suffix, rest)
                               b    == rest[s + 1]
                           IN  IF s < Len(n.suffix) THEN Nil
                               ELSE IF s = Len(rest) THEN n.value
                               ELSE IF b < n.base \/ b > n.base + n.len THEN Nil
                               ELSE IF b \in Table(n) THEN f[at + s + 1] ELSE "panic"]
           To(f) == f = [at \in 0..Len(k) |->
                           IF GoesOn(k, at) THEN f[at + Match(k, at) + 1] ELSE Ends(k, at)]
           h == CHOOSE f : Is(f)
<1>0. Len(k) \in Nat
  BY BytesAre
<1>1. \A f : Is(f) <=> To(f)
  BY ZenonT(30) DEF GoesOn, Ends, Match, Left, NodeAt
<1>2. ASSUME NEW at \in S, GoesOn(k, at)
      PROVE  at + Match(k, at) + 1 \in S /\ at < at + Match(k, at) + 1
  <2>1. /\ Match(k, at) \in Nat /\ Match(k, at) <= Len(Left(k, at)) /\ Len(Left(k, at)) = Len(k) - at
        /\ Match(k, at) # Len(Left(k, at))
    BY <1>2, GetIs DEF GoesOn
  <2> QED
    BY <1>0, <2>1
<1>3. Falls(S, T, N, m, Len(k) + 1)
  <2>1. m \in [S -> Nat] /\ \A at \in S : m[at] < Len(k) + 1
    BY <1>0
  <2>2. \A at \in S : (T[at] <=> GoesOn(k, at)) /\ N[at] = at + Match(k, at) + 1 /\ m[at] = Len(k) - at
    OBVIOUS
  <2>3. \A at, to \in S : at < to => Len(k) - to < Len(k) - at
    BY <1>0
  <2>4. ASSUME NEW at \in S, T[at] PROVE N[at] \in S /\ m[N[at]] < m[at]
    <3> HIDE DEF S, T, N, m
    <3> QED
      BY <1>2, <2>2, <2>3, <2>4
  <2> HIDE DEF S, T, N, m
  <2> QED
    BY <2>1, <2>4 DEF Falls
<1>4. G \in [S -> [R -> R]] /\ V \in [S -> R] /\ Len(k) + 1 \in Nat
  BY <1>0
<1>5. PICK g \in [S -> R] : Solves(g, S, T, N, G, V)
  <2> HIDE DEF S, R, T, N, G, V, m
  <2> QED
    BY <1>3, <1>4, RecursionExists
<1>6. \A at \in S : g[at] = IF GoesOn(k, at) THEN g[at + Match(k, at) + 1] ELSE Ends(k, at)
  <2> SUFFICES ASSUME NEW at \in S
               PROVE  g[at] = IF GoesOn(k, at) THEN g[at + Match(k, at) + 1] ELSE Ends(k, at)
    OBVIOUS
  <2>1. g[at] = IF T[at] THEN G[at][g[N[at]]] ELSE V[at]
    BY <1>5 DEF Solves
  <2>2. /\ (T[at] <=> GoesOn(k, at)) /\ N[at] = at + Match(k, at) + 1 /\ V[at] = Ends(k, at)
        /\ \A y \in R : G[at][y] = y
    <3> HIDE DEF R
    <3> QED
      OBVIOUS
  <2>3. GoesOn(k, at) => g[at + Match(k, at) + 1] \in R
    <3> HIDE DEF S, R
    <3> QED
      BY <1>2, <1>5
  <2> HIDE DEF S, T, N, V, G, R
  <2> QED
    BY <2>1, <2>2, <2>3
<1>7. To(g)
  <2>1. g = [at \in S |-> g[at]]
    <3> HIDE DEF S, R
    <3> QED
      BY <1>5
  <2> QED
    BY <1>6, <2>1
<1>8. Get(k) = h[0]
  BY DEF Get
<1>9. Is(h)
  <2> HIDE DEF Is, To
  <2>1. Is(g)
    BY <1>1, <1>7
  <2> QED
    BY <2>1
<1>10. To(h)
  <2> HIDE DEF Is, To, h
  <2> QED
    BY <1>1, <1>9
<1> HIDE DEF h
<1>11. \A at \in 0..Len(k) :
         h[at] = IF GoesOn(k, at) THEN h[at + Match(k, at) + 1] ELSE Ends(k, at)
  BY <1>10
<1> QED
  BY <1>8, <1>11

\* Where the key is in the tree, Get is on the path to it.
LEMMA OnPath ==
  ASSUME TreeOK(tree), NEW k \in Bytes, NEW at \in 0..Len(k), Place(tree, SubSeq(k, 1, at)),
         NEW q \in DOMAIN tree, Full(tree, q) = k
  PROVE  LET c == SubSeq(k, 1, at)
             n == NodeAt(k, at)
             r == Left(k, at)
             s == Match(k, at)
         IN  /\ c \in DOMAIN tree /\ n = tree[c] /\ s = Len(n.suffix)
             /\ (q = c /\ s = Len(r)) \/ (s < Len(r) /\ r[s + 1] \in Table(n))
<1> DEFINE c == SubSeq(k, 1, at)
           n == NodeAt(k, at)
           r == Left(k, at)
           s == Match(k, at)
           f == Full(tree, c)
<1>1. /\ c \in Bytes /\ Begins(c, k) /\ Len(c) = at /\ r \in Bytes /\ Place(tree, c)
      /\ Len(r) \in Nat /\ Len(r) = Len(k) - at /\ \A i \in 1..Len(r) : r[i] = k[at + i]
      /\ n = IF c \in DOMAIN tree THEN tree[c] ELSE ZeroTrie
      /\ n.suffix \in Bytes /\ Len(n.suffix) \in Nat
      /\ s \in Nat /\ s <= Len(n.suffix) /\ s <= Len(r)
      /\ s < Len(n.suffix) /\ s < Len(r) => n.suffix[s + 1] # r[s + 1]
  BY GetIs
<1>2. Len(k) \in Nat /\ at \in Nat /\ at <= Len(k)
  BY BytesAre
<1> HIDE DEF c, n, r, s
<1>3. q \in Bytes /\ Len(q) \in Nat /\ Begins(q, k) /\ Len(q) <= Len(k)
  BY NodeIs
<1>4. Begins(c, q)
  <2>1. CASE Len(q) <= Len(c)
    <3>1. Begins(q, c)
      BY <1>1, <1>3, <2>1, BeginsOrdered
    <3>2. CASE q = c
      BY <1>1, <1>2, <3>2 DEF Begins
    <3>3. CASE q # c
      <4>1. Under(tree, q, c)
        BY <1>1, <3>1, <3>3 DEF Place
      <4>2. Len(k) < Len(c)
        BY <4>1 DEF Under
      <4> QED
        BY <1>1, <1>2, <4>2
    <3> QED
      BY <3>2, <3>3
  <2>2. CASE Len(c) <= Len(q)
    BY <1>1, <1>3, <2>2, BeginsOrdered
  <2> QED
    BY <1>1, <1>2, <1>3, <2>1, <2>2
<1>5. c \in DOMAIN tree /\ n = tree[c]
  BY <1>1, <1>4, PlaceFilled
<1>6. /\ f \in Bytes /\ Len(f) = at + Len(n.suffix) /\ Len(f) \in Nat
      /\ \A i \in 1..Len(n.suffix) : f[at + i] = n.suffix[i]
  <2> DEFINE x == n.suffix
  <2>1. f = c \o x
    BY <1>5 DEF Full
  <2>2. x \in Bytes /\ Len(x) \in Nat /\ c \in Bytes /\ Len(c) = at
    BY <1>1
  <2> HIDE DEF f, x
  <2>3. /\ c \o x \in Bytes /\ Len(c \o x) = Len(c) + Len(x)
        /\ \A i \in 1..Len(x) : (c \o x)[Len(c) + i] = x[i]
    BY <2>2, Behind
  <2>4. /\ f \in Bytes /\ Len(f) = at + Len(x) /\ Len(f) \in Nat
        /\ \A i \in 1..Len(x) : f[at + i] = x[i]
    BY <1>2, <2>1, <2>2, <2>3
  <2> QED
    BY <2>4 DEF x
<1>7. q # c => Under(tree, c, q)
  BY <1>4, <1>5 DEF TreeOK, Place
<1>8. Begins(f, k)
  <2>1. CASE q = c
    BY <1>2, <2>1 DEF Begins
  <2>2. CASE q # c
    <3>1. Begins(f, q)
      BY <1>7, <2>2 DEF Under
    <3> HIDE DEF f
    <3> QED
      BY <1>3, <1>6, <3>1, BeginsTrans
  <2> QED
    BY <2>1, <2>2
<1>9. s = Len(n.suffix)
  <2>1. Len(f) <= Len(k) /\ \A i \in 1..Len(f) : f[i] = k[i]
    BY <1>8 DEF Begins
  <2> HIDE DEF f
  <2> SUFFICES ASSUME s < Len(n.suffix) PROVE FALSE
    BY <1>1
  <2>2. s < Len(r) /\ s + 1 \in 1..Len(n.suffix) /\ s + 1 \in 1..Len(r) /\ at + (s + 1) \in 1..Len(f)
    BY <1>1, <1>2, <1>6, <2>1
  <2>3. n.suffix[s + 1] = f[at + (s + 1)] /\ r[s + 1] = k[at + (s + 1)]
    BY <1>1, <1>6, <2>2
  <2> QED
    BY <1>1, <2>1, <2>2, <2>3
<1>10. CASE q = c
  <2>1. s = Len(r)
    BY <1>1, <1>2, <1>6, <1>9, <1>10
  <2> QED
    BY <1>5, <1>9, <1>10, <2>1 DEF c, n, r, s
<1>11. CASE q # c
  <2>1. Len(f) < Len(q) /\ q[Len(f) + 1] \in Table(n)
    BY <1>5, <1>7, <1>11 DEF Under
  <2> HIDE DEF f
  <2>2. /\ s < Len(r) /\ s + 1 \in 1..Len(r) /\ Len(f) + 1 = at + (s + 1)
        /\ Len(f) + 1 \in 1..Len(q)
    BY <1>1, <1>2, <1>3, <1>6, <1>9, <2>1
  <2>3. r[s + 1] = q[Len(f) + 1]
    BY <1>1, <1>3, <2>2 DEF Begins
  <2> QED
    BY <1>5, <1>9, <2>1, <2>2, <2>3 DEF c, n, r, s
<1> QED
  BY <1>10, <1>11

\* A sequence up to its length is the sequence.
LEMMA WholeIs ==
  ASSUME NEW x \in Bytes
  PROVE  SubSeq(x, 1, Len(x)) = x
<1>1. Begins(x, x)
  BY BytesAre DEF Begins
<1> QED
  BY <1>1, BeginningIs

\* A byte in a table passes the test of its bounds.
LEMMA TablePasses ==
  ASSUME NEW n \in Contents, NEW b \in Table(n)
  PROVE  ~(b < n.base \/ b > n.base + n.len) /\ n.len # 0
<1>1. n.base \in Nat /\ n.len \in Nat
  BY Lengths DEF Contents, Byte
<1> QED
  BY <1>1 DEF Table

\* Get goes on from a place on the path to the next.
LEMMA GetOn ==
  ASSUME TreeOK(tree), NEW k \in Bytes, NEW at \in 0..Len(k), Place(tree, SubSeq(k, 1, at)),
         GoesOn(k, at)
  PROVE  LET to == at + Match(k, at) + 1
         IN  to \in 0..Len(k) /\ Place(tree, SubSeq(k, 1, to)) /\ at < to
<1> DEFINE c == SubSeq(k, 1, at)
           n == NodeAt(k, at)
           r == Left(k, at)
           s == Match(k, at)
           x == n.suffix
           b == r[s + 1]
           f == c \o SubSeq(r, 1, s)
           d == c \o SubSeq(r, 1, s + 1)
           y == SubSeq(r, s + 2, Len(r))
<1>1. /\ c \in Bytes /\ Len(c) = at /\ c \o r = k /\ r \in Bytes /\ Len(r) \in Nat
      /\ n = IF c \in DOMAIN tree THEN tree[c] ELSE ZeroTrie
      /\ n \in Contents /\ x \in Bytes /\ Len(x) \in Nat
      /\ s \in Nat /\ s <= Len(x) /\ s <= Len(r) /\ SubSeq(x, 1, s) = SubSeq(r, 1, s)
  BY GetIs
<1>2. ~(s < Len(x)) /\ s # Len(r) /\ b \in Table(n)
  BY DEF GoesOn
<1>3. at \in Nat /\ Len(k) \in Nat
  BY BytesAre
<1>4. c \in DOMAIN tree /\ n = tree[c]
  BY <1>1, <1>2, ZeroIs
<1> HIDE DEF c, n, r, s, x
<1>5. s = Len(x) /\ s \in 0..Len(r) - 1
  BY <1>1, <1>2
<1>6. SubSeq(r, 1, s) = x
  BY <1>1, <1>5, WholeIs
<1>7. /\ b \in Byte /\ y \in Bytes /\ f \in Bytes /\ d \in Bytes /\ Len(f) = at + s
      /\ d = f \o <<b>> /\ d \o y = k
  BY <1>1, <1>5, CutAt, ZenonT(30)
<1>8. f = Full(tree, c)
  BY <1>4, <1>6 DEF Full, x
<1> HIDE DEF b, f, d, y
<1>9. Place(tree, d)
  BY <1>2, <1>4, <1>7, <1>8, ChildPlace
<1>10. Len(d) = at + s + 1
  BY <1>1, <1>3, <1>7, OneMore
<1>11. Begins(d, k)
  BY <1>7, Behind
<1>12. SubSeq(k, 1, at + s + 1) = d /\ at + s + 1 \in 0..Len(k)
  BY <1>7, <1>10, <1>11, BeginningIs
<1>13. at < at + s + 1
  BY <1>1, <1>3
<1> QED
  BY <1>9, <1>12, <1>13 DEF s

\* The places of the model are those of the invariant.
LEMMA PlacesAre ==
  ASSUME TreeOK(tree), NEW c
  PROVE  c \in Places <=> c \in Bytes /\ Place(tree, c)
<1>1. c \in Places <=> c = <<>> \/ \E q \in DOMAIN tree : \E b \in Table(tree[q]) : c = Full(tree, q) \o <<b>>
  <2> DEFINE Of(q) == {q \o tree[q].suffix \o <<b>> : b \in Table(tree[q])}
  <2>1. \A q : c \in Of(q) <=> \E b \in Table(tree[q]) : c = Full(tree, q) \o <<b>>
    BY Zenon DEF Full
  <2>2. Places = {<<>>} \cup UNION {Of(q) : q \in DOMAIN tree}
    BY DEF Places
  <2> HIDE DEF Of
  <2>3. c \in UNION {Of(q) : q \in DOMAIN tree} <=> \E q \in DOMAIN tree : c \in Of(q)
    BY Zenon
  <2>4. c \in Places <=> c = <<>> \/ \E q \in DOMAIN tree : c \in Of(q)
    BY ONLY <2>2, <2>3, Zenon
  <2> QED
    BY <2>1, <2>4, Zenon
<1>2. <<>> \in Bytes
  BY EmptySeq DEF Bytes
<1>3. ASSUME NEW q \in DOMAIN tree, NEW b \in Table(tree[q])
      PROVE  b \in Byte
  <2>1. TableOK(tree[q]) /\ tree[q] \in Contents
    BY DEF TreeOK
  <2> HIDE DEF TreeOK
  <2> QED
    BY <2>1, Lengths DEF TableOK, Table, Contents, Byte
<1>4. ASSUME c \in Places PROVE c \in Bytes /\ Place(tree, c)
  <2>1. CASE c = <<>>
    BY <1>2, <2>1, Root
  <2>2. CASE c # <<>>
    <3>1. PICK q \in DOMAIN tree : \E b \in Table(tree[q]) : c = Full(tree, q) \o <<b>>
      BY <1>1, <1>4, <2>2
    <3>2. PICK b \in Table(tree[q]) : c = Full(tree, q) \o <<b>>
      BY <3>1
    <3>3. b \in Byte
      BY <1>3
    <3> QED
      BY <3>2, <3>3, ChildPlace
  <2> QED
    BY <2>1, <2>2
<1>5. ASSUME c \in Bytes, Place(tree, c), c # <<>> PROVE c \in Places
  <2>1. PICK q \in DOMAIN tree : Child(tree, q, c)
    BY <1>5 DEF Place
  <2>2. c = Full(tree, q) \o <<Last(c)>> /\ Last(c) \in Table(tree[q])
    BY <1>5, <2>1, ChildIs
  <2> QED
    BY <1>1, <2>2
<1> QED
  BY <1>1, <1>4, <1>5

\* Of two places on the path to a key the upper one leads to the lower.
LEMMA PlacesOrdered ==
  ASSUME TreeOK(tree), NEW a \in Bytes, Place(tree, a), NEW c \in Bytes, Place(tree, c),
         NEW k \in Bytes, Begins(a, k), Begins(c, k), Len(a) <= Len(c), a # c
  PROVE  a \in DOMAIN tree /\ Under(tree, a, c)
<1>1. Begins(a, c) /\ Len(a) \in Nat /\ Len(c) \in Nat
  BY BeginsOrdered, BytesAre
<1>2. Len(a) < Len(c)
  BY <1>1, BeginsSame
<1>3. a \in DOMAIN tree
  <2>1. c # <<>>
    BY <1>1, <1>2, EmptySeq
  <2>2. PICK q \in DOMAIN tree : Child(tree, q, c)
    BY <2>1 DEF Place
  <2>3. /\ q \in Bytes /\ Len(q) \in Nat /\ Begins(q, c)
        /\ Len(Full(tree, q)) \in Nat /\ Len(c) = Len(Full(tree, q)) + 1
    BY <2>2, NodeIs, UnderBegins, BytesAre DEF Child
  <2>4. CASE Len(a) <= Len(q)
    <3>1. Begins(a, q)
      BY <1>1, <2>3, <2>4, BeginsOrdered
    <3> QED
      BY <3>1, PlaceFilled
  <2>5. CASE Len(q) < Len(a)
    <3>1. Begins(q, a) /\ q # a
      BY <1>1, <2>3, <2>5, BeginsOrdered
    <3>2. Len(Full(tree, q)) < Len(a)
      BY <3>1 DEF Place, Under
    <3> QED
      BY <1>1, <1>2, <2>3, <3>2
  <2> QED
    BY <1>1, <2>3, <2>4, <2>5
<1> QED
  BY <1>1, <1>3 DEF Place

\* A sequence and a number behind it begin a key.
LEMMA PrefixIs ==
  ASSUME NEW f \in Bytes, NEW k \in Bytes, NEW v \in Nat
  PROVE  IsPrefix(f \o <<v>>, k) <=> Len(f) < Len(k) /\ Begins(f, k) /\ k[Len(f) + 1] = v
<1> DEFINE e == <<v>>
           g == f \o e
           L == Len(f)
<1>1. /\ L \in Nat /\ Len(k) \in Nat /\ \A i \in 1..L : f[i] \in Nat
      /\ \A i \in 1..Len(k) : k[i] \in Nat
  BY BytesAre DEF Byte
<1>2. e \in Seq(Nat) /\ Len(e) = 1 /\ e[1] = v
  OBVIOUS
<1>3. f \in Seq(Nat)
  <2>1. f \in Seq(Byte) /\ Byte \subseteq Nat
    BY DEF Bytes, Byte
  <2> HIDE DEF Byte
  <2> QED
    BY <2>1, <1>1, LenProperties, SeqDef
<1> HIDE DEF e
<1>4. g \in Seq(Nat) /\ Len(g) = L + 1 /\ g[L + 1] = v /\ \A i \in 1..L : g[i] = f[i]
  <2>1. /\ g \in Seq(Nat) /\ Len(g) = L + 1
        /\ \A i \in 1..L + 1 : g[i] = IF i <= L THEN f[i] ELSE e[i - L]
    <3>1. /\ f \o e \in Seq(Nat) /\ Len(f \o e) = Len(f) + Len(e)
          /\ \A i \in 1..Len(f) + Len(e) : (f \o e)[i] = IF i <= Len(f) THEN f[i] ELSE e[i - Len(f)]
      BY <1>2, <1>3, ConcatProperties
    <3> QED
      BY <1>2, <3>1
  <2>2. L + 1 \in 1..L + 1 /\ ~(L + 1 <= L) /\ (L + 1) - L = 1
    BY <1>1
  <2>3. \A i \in 1..L : i \in 1..L + 1 /\ i <= L
    BY <1>1
  <2> HIDE DEF g, L
  <2> QED
    BY <1>2, <2>1, <2>2, <2>3
<1> HIDE DEF g
<1> DEFINE x == SubSeq(g, 1, L + 1)
           y == SubSeq(k, 1, L + 1)
<1>5. IsPrefix(g, k) <=> L + 1 <= Len(k) /\ x = y
  BY <1>4 DEF IsPrefix
<1>6. x \in Seq(Nat) /\ Len(x) = L + 1 /\ \A i \in 1..L + 1 : x[i] = g[i]
  <2>1. \A i \in 1..L + 1 : g[i] \in Nat
    BY <1>4
  <2>2. 1 \in Int /\ L + 1 \in Int /\ 1 <= L + 1 /\ (L + 1) - 1 + 1 = L + 1 /\ \A i \in 1..L + 1 : 1 + i - 1 = i
    BY <1>1
  <2> HIDE DEF L
  <2> QED
    BY <2>1, <2>2, SubSeqProperties
<1>7. ASSUME L + 1 <= Len(k)
      PROVE  y \in Seq(Nat) /\ Len(y) = L + 1 /\ \A i \in 1..L + 1 : y[i] = k[i]
  <2>1. \A i \in 1..L + 1 : k[i] \in Nat
    BY <1>1, <1>7
  <2>2. 1 \in Int /\ L + 1 \in Int /\ 1 <= L + 1 /\ (L + 1) - 1 + 1 = L + 1 /\ \A i \in 1..L + 1 : 1 + i - 1 = i
    BY <1>1
  <2> HIDE DEF L
  <2> QED
    BY <2>1, <2>2, SubSeqProperties
<1> HIDE DEF x, y
<1>8. ASSUME L + 1 <= Len(k)
      PROVE  x = y <=> \A i \in 1..L + 1 : g[i] = k[i]
  <2>1. ASSUME \A i \in 1..L + 1 : g[i] = k[i] PROVE x = y
    BY <1>6, <1>7, <1>8, <2>1, SeqEqual
  <2> QED
    BY <1>6, <1>7, <1>8, <2>1
<1>9. (\A i \in 1..L + 1 : g[i] = k[i]) <=> (k[L + 1] = v /\ \A i \in 1..L : f[i] = k[i])
  <2>1. 1..L + 1 = 1..L \cup {L + 1}
    BY <1>1
  <2> QED
    BY <1>4, <2>1
<1>10. (L + 1 <= Len(k) <=> L < Len(k)) /\ (L < Len(k) => L <= Len(k))
  BY <1>1
<1>11. Begins(f, k) <=> L <= Len(k) /\ \A i \in 1..L : f[i] = k[i]
  BY DEF Begins
<1> HIDE DEF L
<1> QED
  BY <1>5, <1>8, <1>9, <1>10, <1>11 DEF g, e, L

\* What it means that a key goes on behind the table of a place.
BehindAt(k, p) ==
  LET n == Node(p)
      f == p \o n.suffix
  IN  Len(f) < Len(k) /\ Begins(f, k) /\ k[Len(f) + 1] = n.base + n.len

LEMMA JustBehindIs ==
  ASSUME TreeOK(tree), NEW k \in Bytes
  PROVE  JustBehind(k) <=> \E p \in Bytes : Place(tree, p) /\ BehindAt(k, p)
<1>1. ASSUME NEW p \in Bytes
      PROVE  LET n == Node(p)
             IN  IsPrefix(p \o n.suffix \o <<n.base + n.len>>, k) <=> BehindAt(k, p)
  <2> DEFINE n == Node(p)
             f == p \o n.suffix
             v == n.base + n.len
  <2>1. n \in Contents
    BY ZeroIs, NodeIs DEF Node
  <2>2. n.suffix \in Bytes /\ v \in Nat
    BY <2>1, Lengths DEF Contents, Byte
  <2>3. f \in Bytes
    BY <2>2, Behind
  <2>4. BehindAt(k, p) <=> Len(f) < Len(k) /\ Begins(f, k) /\ k[Len(f) + 1] = v
    BY DEF BehindAt
  <2> HIDE DEF f, v, n
  <2>5. IsPrefix(f \o <<v>>, k) <=> BehindAt(k, p)
    BY <2>2, <2>3, <2>4, PrefixIs
  <2> QED
    BY <2>5 DEF f, v, n
<1>2. \A p : p \in Places <=> p \in Bytes /\ Place(tree, p)
  BY PlacesAre
<1>3. JustBehind(k) <=> \E p \in Places : LET n == Node(p)
                                        IN  IsPrefix(p \o n.suffix \o <<n.base + n.len>>, k)
  BY DEF JustBehind
<1> QED
  BY ONLY <1>1, <1>2, <1>3

\* A key goes on behind a table if it does so where Get ends: the tables further up
\* hold its next byte, and no place further down is on its path.
LEMMA BehindWhereItEnds ==
  ASSUME TreeOK(tree), NEW k \in Bytes, NEW at \in 0..Len(k), Place(tree, SubSeq(k, 1, at)),
         ~GoesOn(k, at)
  PROVE  LET n == NodeAt(k, at)
             r == Left(k, at)
             s == Match(k, at)
         IN  JustBehind(k) <=> s = Len(n.suffix) /\ s < Len(r) /\ r[s + 1] = n.base + n.len
<1> DEFINE c == SubSeq(k, 1, at)
           n == NodeAt(k, at)
           r == Left(k, at)
           s == Match(k, at)
           x == n.suffix
           f == c \o x
           v == n.base + n.len
<1>1. /\ c \in Bytes /\ Begins(c, k) /\ Len(c) = at /\ r \in Bytes
      /\ Len(r) \in Nat /\ Len(r) = Len(k) - at /\ \A i \in 1..Len(r) : r[i] = k[at + i]
      /\ n \in Contents /\ x \in Bytes /\ Len(x) \in Nat
      /\ s \in Nat /\ s <= Len(x) /\ s <= Len(r) /\ \A i \in 1..s : x[i] = r[i]
      /\ s < Len(x) /\ s < Len(r) => x[s + 1] # r[s + 1]
  BY GetIs
<1>2. Len(k) \in Nat /\ at \in Nat /\ at <= Len(k)
  BY BytesAre
<1>3. s = Len(x) /\ s < Len(r) => r[s + 1] \notin Table(n)
  BY <1>1, TablePasses DEF GoesOn
<1>4. n = Node(c)
  BY DEF NodeAt
<1>5. Place(tree, c)
  OBVIOUS
<1> HIDE DEF c, n, r, s, x
<1>6. /\ f \in Bytes /\ Len(f) = at + Len(x) /\ Len(f) \in Nat /\ Begins(c, f)
      /\ \A i \in 1..Len(x) : f[at + i] = x[i]
  BY <1>1, <1>2, Behind, BytesAre
<1> HIDE DEF f
<1>7. ASSUME Len(f) < Len(k), Begins(f, k)
      PROVE  s = Len(x) /\ s < Len(r) /\ r[s + 1] = k[Len(f) + 1]
  <2>1. Len(x) < Len(r) /\ \A i \in 1..Len(f) : f[i] = k[i]
    BY <1>1, <1>2, <1>6, <1>7 DEF Begins
  <2>2. ASSUME s < Len(x) PROVE FALSE
    <3>1. s + 1 \in 1..Len(x) /\ s + 1 \in 1..Len(r) /\ at + (s + 1) \in 1..Len(f) /\ s < Len(r)
      BY <1>1, <1>2, <1>6, <2>1, <2>2
    <3>2. x[s + 1] = f[at + (s + 1)] /\ r[s + 1] = k[at + (s + 1)]
      BY <1>1, <1>6, <3>1
    <3> QED
      BY <1>1, <2>1, <2>2, <3>1, <3>2
  <2>3. s = Len(x)
    BY <1>1, <2>2
  <2>4. s + 1 \in 1..Len(r) /\ at + (s + 1) = Len(f) + 1
    BY <1>1, <1>2, <1>6, <2>1, <2>3
  <2> QED
    BY <1>1, <2>1, <2>3, <2>4
<1>8. ASSUME s = Len(x), s < Len(r)
      PROVE  Len(f) < Len(k) /\ Begins(f, k) /\ k[Len(f) + 1] = r[s + 1]
  <2>1. /\ Len(f) < Len(k) /\ s + 1 \in 1..Len(r) /\ at + (s + 1) = Len(f) + 1
    BY <1>1, <1>2, <1>6, <1>8
  <2>2. ASSUME NEW i \in 1..Len(f) PROVE f[i] = k[i]
    <3>1. CASE i <= at
      <4>1. i \in 1..Len(c)
        BY <1>1, <1>2, <3>1
      <4> QED
        BY <1>1, <1>6, <4>1 DEF Begins
    <3>2. CASE ~(i <= at)
      <4> DEFINE j == i - at
      <4>1. j \in 1..Len(x) /\ j \in 1..s /\ j \in 1..Len(r) /\ at + j = i
        BY <1>1, <1>2, <1>6, <1>8, <3>2
      <4> HIDE DEF j
      <4>2. f[at + j] = x[j] /\ x[j] = r[j] /\ r[j] = k[at + j]
        BY <1>1, <1>6, <4>1
      <4> QED
        BY <4>1, <4>2
    <3> QED
      BY <3>1, <3>2
  <2>3. Begins(f, k)
    BY <1>2, <1>6, <2>1, <2>2 DEF Begins
  <2>4. k[Len(f) + 1] = r[s + 1]
    BY <1>1, <2>1
  <2> QED
    BY <2>1, <2>3, <2>4
<1>9. BehindAt(k, c) <=> Len(f) < Len(k) /\ Begins(f, k) /\ k[Len(f) + 1] = v
  BY <1>4 DEF BehindAt, f, x
<1>10. ASSUME NEW p \in Bytes, Place(tree, p), BehindAt(k, p)
       PROVE  p = c
  <2> DEFINE m == Node(p)
             g == p \o m.suffix
  <2>1. Len(g) < Len(k) /\ Begins(g, k) /\ k[Len(g) + 1] = m.base + m.len
    BY <1>10 DEF BehindAt
  <2>2. m \in Contents
    BY ZeroIs, NodeIs DEF Node
  <2>3. /\ g \in Bytes /\ Len(g) \in Nat /\ Len(p) \in Nat /\ Begins(p, g)
        /\ m.base \in Nat /\ m.len \in Nat
    <3>1. m.suffix \in Bytes /\ m.base \in Nat /\ m.len \in Nat
      BY <2>2, Lengths DEF Contents, Byte
    <3> HIDE DEF m
    <3> QED
      BY <3>1, Behind, BytesAre
  <2>4. p \in DOMAIN tree => m = tree[p] /\ g = Full(tree, p)
    BY DEF Node, Full
  <2> HIDE DEF m, g
  <2>5. Begins(p, k)
    BY <2>1, <2>3, BeginsTrans
  <2>6. m.base + m.len \notin Table(m)
    BY <2>3 DEF Table
  <2>7. ASSUME p # c, Len(p) <= Len(c) PROVE FALSE
    <3>1. p \in DOMAIN tree /\ Under(tree, p, c)
      BY <1>1, <1>5, <1>10, <2>5, <2>7, PlacesOrdered
    <3>2. Len(g) < Len(c) /\ c[Len(g) + 1] \in Table(m)
      BY <2>4, <3>1 DEF Under
    <3>3. Len(g) + 1 \in 1..Len(c)
      BY <1>1, <1>2, <2>3, <3>2
    <3>4. c[Len(g) + 1] = k[Len(g) + 1]
      BY <1>1, <3>3 DEF Begins
    <3> QED
      BY <2>1, <2>6, <3>2, <3>4
  <2>8. ASSUME p # c, Len(c) <= Len(p) PROVE FALSE
    <3>1. c \in DOMAIN tree /\ Under(tree, c, p)
      BY <1>1, <1>5, <1>10, <2>5, <2>8, PlacesOrdered
    <3>2. n = tree[c] /\ f = Full(tree, c)
      BY <1>4, <3>1 DEF Node, Full, f, x
    <3>3. Len(f) < Len(p) /\ Begins(f, p) /\ p[Len(f) + 1] \in Table(n)
      BY <3>1, <3>2 DEF Under
    <3>4. Len(p) <= Len(k) /\ Len(f) + 1 \in 1..Len(p) /\ p[Len(f) + 1] = k[Len(f) + 1]
      <4>1. Len(f) + 1 \in 1..Len(p)
        BY <1>6, <2>3, <3>3
      <4> QED
        BY <2>5, <4>1 DEF Begins
    <3>5. Len(f) < Len(k) /\ Begins(f, k)
      <4>1. Begins(f, k)
        BY <1>6, <2>5, <3>3, BeginsTrans
      <4> QED
        BY <1>2, <1>6, <2>3, <3>3, <3>4, <4>1
    <3>6. s = Len(x) /\ s < Len(r) /\ r[s + 1] = k[Len(f) + 1]
      BY <1>7, <3>5
    <3> QED
      BY <1>3, <3>3, <3>4, <3>6
  <2> QED
    BY <1>1, <1>2, <2>3, <2>7, <2>8
<1>11. JustBehind(k) <=> BehindAt(k, c)
  <2>1. JustBehind(k) <=> \E p \in Bytes : Place(tree, p) /\ BehindAt(k, p)
    BY JustBehindIs
  <2> QED
    BY <1>1, <1>5, <1>10, <2>1
<1>12. BehindAt(k, c) <=> s = Len(x) /\ s < Len(r) /\ r[s + 1] = v
  <2>1. ASSUME BehindAt(k, c) PROVE s = Len(x) /\ s < Len(r) /\ r[s + 1] = v
    BY <1>7, <1>9, <2>1
  <2>2. ASSUME s = Len(x), s < Len(r), r[s + 1] = v PROVE BehindAt(k, c)
    BY <1>8, <1>9, <2>2
  <2> QED
    BY <2>1, <2>2
<1> QED
  BY <1>11, <1>12 DEF n, r, s, x

\* What Get has to answer for a key.
Right(k, v) ==
  /\ Answers(k) # {} => Answers(k) = {v}
  /\ Answers(k) = {} => v = IF JustBehind(k) THEN "panic" ELSE Nil

\* Where it ends, what it gives is right.
LEMMA GetEnds ==
  ASSUME TreeOK(tree), NEW k \in Bytes, NEW at \in 0..Len(k), Place(tree, SubSeq(k, 1, at)),
         ~GoesOn(k, at)
  PROVE  Right(k, Ends(k, at))
<1> DEFINE c == SubSeq(k, 1, at)
           n == NodeAt(k, at)
           r == Left(k, at)
           s == Match(k, at)
           x == n.suffix
<1>1. /\ c \in Bytes /\ Len(c) = at /\ c \o r = k /\ r \in Bytes /\ Len(r) \in Nat
      /\ n = IF c \in DOMAIN tree THEN tree[c] ELSE ZeroTrie
      /\ n \in Contents /\ x \in Bytes /\ Len(x) \in Nat
      /\ s \in Nat /\ s <= Len(x) /\ s <= Len(r) /\ SubSeq(x, 1, s) = SubSeq(r, 1, s)
  BY GetIs
<1>2. s = Len(x) /\ s < Len(r) => r[s + 1] \notin Table(n)
  BY <1>1, TablePasses DEF GoesOn
<1>3. s = Len(x) /\ s = Len(r) => Ends(k, at) = n.value
  BY <1>1 DEF Ends
<1>4. /\ JustBehind(k) <=> s = Len(x) /\ s < Len(r) /\ r[s + 1] = n.base + n.len
      /\ n.base \in Nat /\ n.len \in Nat /\ (s < Len(r) => r[s + 1] \in Nat)
  <2>1. n.base \in Nat /\ n.len \in Nat
    BY <1>1, Lengths DEF Contents, Byte
  <2>2. JustBehind(k) <=> s = Len(x) /\ s < Len(r) /\ r[s + 1] = n.base + n.len
    BY BehindWhereItEnds
  <2>3. s < Len(r) => r[s + 1] \in Nat
    <3>1. s < Len(r) => s + 1 \in 1..Len(r)
      BY <1>1
    <3>2. \A i \in 1..Len(r) : r[i] \in Nat
      BY <1>1, BytesAre DEF Byte
    <3> HIDE DEF r, s
    <3> QED
      BY <3>1, <3>2
  <2> QED
    BY <2>1, <2>2, <2>3
<1>7. Ends(k, at) = IF s < Len(x) THEN Nil
                   ELSE IF s = Len(r) THEN n.value
                   ELSE IF r[s + 1] < n.base \/ r[s + 1] > n.base + n.len THEN Nil ELSE "panic"
  BY DEF Ends
<1> HIDE DEF c, n, r, s, x
<1>8. ~(s = Len(x) /\ s = Len(r)) => Ends(k, at) = IF JustBehind(k) THEN "panic" ELSE Nil
  <2>1. CASE s < Len(x)
    BY <1>1, <1>4, <1>7, <2>1
  <2>2. CASE s = Len(x) /\ s < Len(r)
    <3>1. r[s + 1] \notin Table(n) /\ r[s + 1] \in Nat
      BY <1>2, <1>4, <2>2
    <3>2. r[s + 1] < n.base \/ r[s + 1] > n.base + n.len <=> r[s + 1] # n.base + n.len
      BY <1>4, <3>1 DEF Table
    <3>3. ~(s < Len(x)) /\ s # Len(r)
      BY <1>1, <2>2
    <3>4. Ends(k, at) = IF r[s + 1] # n.base + n.len THEN Nil ELSE "panic"
      BY <1>7, <3>2, <3>3
    <3> QED
      BY <1>4, <2>2, <3>4
  <2> QED
    BY <1>1, <2>1, <2>2
<1>5. ASSUME Answers(k) # {}
      PROVE  Answers(k) = {Ends(k, at)}
  <2>1. PICK v : v \in Answers(k)
    BY <1>5
  <2>2. PICK q \in DOMAIN tree : Full(tree, q) = k /\ tree[q].value # Nil /\ v = tree[q].value
    BY <2>1, AnswerIs
  <2>3. /\ c \in DOMAIN tree /\ n = tree[c] /\ s = Len(x)
        /\ (q = c /\ s = Len(r)) \/ (s < Len(r) /\ r[s + 1] \in Table(n))
    BY <2>2, OnPath DEF c, n, r, s, x
  <2>4. q = c /\ s = Len(r)
    BY <1>2, <2>3
  <2>5. Ends(k, at) = v
    BY <1>3, <2>2, <2>3, <2>4
  <2>6. ASSUME NEW w \in Answers(k) PROVE w = v
    <3>1. PICK p \in DOMAIN tree : Full(tree, p) = k /\ w = tree[p].value
      BY <2>6, AnswerIs
    <3>2. p = q
      BY <2>2, <3>1, KeysDiffer
    <3> QED
      BY <2>2, <3>1, <3>2
  <2> QED
    BY <2>1, <2>5, <2>6
<1>6. ASSUME Answers(k) = {}
      PROVE  Ends(k, at) = IF JustBehind(k) THEN "panic" ELSE Nil
  <2>1. ASSUME s = Len(x), s = Len(r) PROVE n.value = Nil
    <3>1. x = r
      BY <1>1, <2>1, WholeIs
    <3>2. CASE c \in DOMAIN tree
      <4>1. Full(tree, c) = k
        BY <1>1, <3>1, <3>2 DEF Full, x
      <4> QED
        BY <1>1, <1>6, <3>2, <4>1, AnswerIs
    <3> QED
      BY <1>1, <3>2, ZeroIs
  <2>2. CASE s = Len(x) /\ s = Len(r)
    <3>1. ~JustBehind(k)
      BY <1>1, <1>4, <2>2
    <3> QED
      BY <1>3, <2>1, <2>2, <3>1
  <2> QED
    BY <1>8, <2>2
<1> QED
  BY <1>5, <1>6 DEF Right

\* So Get gives the value that the tree has for a key, and is right where there is none.
LEMMA GetGives ==
  ASSUME TreeOK(tree), NEW k \in Bytes
  PROVE  Right(k, Get(k))
<1> DEFINE S == 0..Len(k)
           Good(v) == Right(k, v)
<1>1. PICK get : /\ Get(k) = get[0]
                 /\ \A at \in S : get[at] = IF GoesOn(k, at) THEN get[at + Match(k, at) + 1] ELSE Ends(k, at)
  BY GetRecursion
<1> DEFINE m == [at \in S |-> Len(k) - at]
           T == {at \in S : Place(tree, SubSeq(k, 1, at)) => Good(get[at])}
<1>2. Len(k) \in Nat
  BY BytesAre
<1>3. m \in [S -> Nat] /\ 0 \in S /\ \A at, to \in S : at < to => m[to] < m[at]
  BY <1>2
<1>4. ASSUME NEW at \in S, \A to \in S : m[to] < m[at] => to \in T PROVE at \in T
  <2> SUFFICES ASSUME Place(tree, SubSeq(k, 1, at)) PROVE Good(get[at])
    OBVIOUS
  <2>1. CASE GoesOn(k, at)
    <3> DEFINE to == at + Match(k, at) + 1
    <3>1. to \in S /\ Place(tree, SubSeq(k, 1, to)) /\ at < to
      BY <2>1, GetOn
    <3>2. get[at] = get[to]
      BY <1>1, <2>1
    <3> HIDE DEF to, m, Good
    <3>3. to \in T
      <4> HIDE DEF S, T
      <4> QED
        BY <1>3, <1>4, <3>1
    <3> QED
      BY <3>1, <3>2, <3>3
  <2>2. CASE ~GoesOn(k, at)
    BY <1>1, <2>2, GetEnds
  <2> QED
    BY <2>1, <2>2
<1>5. \A at \in S : at \in T
  <2> HIDE DEF S, T, m
  <2> QED
    BY <1>3, <1>4, MeasureInduction
<1>6. Place(tree, SubSeq(k, 1, 0))
  <2>1. SubSeq(k, 1, 0) = <<>>
    <3>1. <<>> \in Bytes /\ Len(<<>>) = 0 /\ Begins(<<>>, k)
      BY <1>2, EmptySeq DEF Bytes, Begins
    <3> QED
      BY <3>1, BeginningIs
  <2> QED
    BY <2>1, Root
<1>7. Good(get[0])
  <2> HIDE DEF Good
  <2> QED
    BY <1>3, <1>5, <1>6
<1> QED
  BY <1>1, <1>7

\* Get gives the value that ForEach shows for a key (trie.go:90-107).  For any other key,
\* also for a prefix of one and for one a byte longer, it gives nil, unless the key goes
\* on with the byte just behind a child table: then, and only then, it panics, as the
\* test of trie.go:102 lets that byte pass (the comment of line 90 promises nil).
THEOREM GetCorrect == Spec => []GetAnswers
<1>1. Probes \in SUBSET Bytes
  <2>1. ASSUME NEW k \in Keys \ {<<>>} PROVE Front(k) \in Bytes
    <3>1. k \in Bytes /\ Len(k) \in Nat /\ k # <<>>
      BY KeysAreBytes, BytesAre
    <3>2. Len(k) # 0
      BY <3>1, EmptySeq DEF Bytes
    <3>3. Len(k) - 1 \in 0..Len(k)
      BY <3>1, <3>2
    <3> QED
      BY <3>1, <3>3, Parts DEF Front
  <2>2. ASSUME NEW k \in Keys, NEW b \in 0..Width-1 PROVE Append(k, b) \in Bytes
    <3>1. k \in Seq(Byte) /\ b \in Byte
      BY KeysAreBytes DEF Bytes, Byte
    <3> HIDE DEF Byte
    <3> QED
      BY <3>1, AppendProperties DEF Bytes
  <2> DEFINE Fronts == {Front(k) : k \in Keys \ {<<>>}}
             Longer == {Append(k, b) : k \in Keys, b \in 0..Width-1}
  <2>3. Fronts \in SUBSET Bytes
    BY <2>1
  <2>4. ASSUME NEW p \in Longer PROVE p \in Bytes
    <3>1. PICK k \in Keys, b \in 0..Width-1 : p = Append(k, b)
      OBVIOUS
    <3> QED
      BY <2>2, <3>1
  <2>5. Probes = Keys \cup Fronts \cup Longer
    BY DEF Probes
  <2> HIDE DEF Fronts, Longer
  <2> QED
    BY <2>3, <2>4, <2>5, KeysAreBytes
<1>2. ASSUME IInv PROVE GetAnswers
  <2>1. TreeOK(tree) /\ Shown = Entries(tree)
    BY <1>2, ForEachIs DEF IInv, Shown
  <2>2. \A k \in Probes : /\ Answers(k) # {} => Answers(k) = {Get(k)}
                          /\ Answers(k) = {} => Get(k) = IF JustBehind(k) THEN "panic" ELSE Nil
    BY <1>1, <2>1, GetGives DEF Right
  <2>3. \A k \in Probes : Answers(k) = {e[2] : e \in {e \in Shown : e[1] = k}}
    BY <2>1 DEF Answers
  <2> QED
    BY ONLY <2>2, <2>3 DEF GetAnswers
<1> QED
  BY <1>2, Invariant, PTL
=============================================================================
