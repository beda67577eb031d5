---------------------------- MODULE CdfFileProofs ----------------------------
(***************************************************************************)
(* What CdfFile promises, for any file: any header that Define leaves      *)
(* behind, any number of striders at any corners, any transfers.  Two      *)
(* hypotheses are stated where they are needed, and both are the code's:   *)
(* the begin corners of record variables are those of a record, and the    *)
(* padding of a record that is filled lies within its slab.                *)
(***************************************************************************)
EXTENDS CdfFile, CdfLayoutProofs

\* What the fields of the header range over: no bound on names is needed.
Names == STRING

-----------------------------------------------------------------------------
(* The header.                                                             *)

\* Its variables are laid out.
LEMMA HeaderLaidOut ==
  /\ Header \in Headers(Names, Names, Names) /\ LaidOut(Header) /\ Spaced(Header)
  /\ Vs \in Seq(Variables(Names, Names)) /\ DOMAIN Vs = 1..Len(Vs) /\ Len(Vs) \in Nat
<1>1. Header \in Headers(Names, Names, Names) /\ DimsExist(Header) /\ StridesFixed(Header)
  BY HeaderAssumption DEF Names
<1>2. Header.version # 0 /\ Header.vars # <<>> /\ SetOffsets(Header, DataStart(Header)) = Header
  BY HeaderAssumption
<1>3. LaidOut(Header)
  BY <1>1, <1>2, SettledPlaced DEF LaidOut
<1>4. Spaced(Header)
  BY <1>1, <1>3, LaidOutSpaced
<1>5. Vs \in Seq(Variables(Names, Names))
  BY <1>1 DEF Headers, Vs
<1> QED
  BY <1>1, <1>3, <1>4, <1>5

-----------------------------------------------------------------------------
(* Corners.                                                                *)

\* f counts the elements before the first i indices of b, row by row.
IsCount(f, ls, b, m) == f = [i \in 0..m |-> IF i = 0 THEN 0 ELSE f[i - 1] * ls[i] + b[i]]

\* The recursion of CornerByte.
LEMMA CornerRecursion ==
  ASSUME NEW v, NEW b \in Seq(Nat), v.lengths \in Seq(Nat), Len(b) <= Len(v.lengths)
  PROVE  \E f \in [0..Len(b) -> Nat] :
           /\ f[0] = 0 /\ \A i \in 1..Len(b) : f[i] = f[i - 1] * v.lengths[i] + b[i]
           /\ CornerByte(v, b) = StorageSize[v.dtype] * f[Len(b)]
<1> DEFINE n == Len(b)
           ls == v.lengths
           T == {m \in Nat : m <= n => \E f \in [0..m -> Nat] : IsCount(f, ls, b, m)}
<1>1. n \in Nat /\ \A i \in 1..n : b[i] \in Nat /\ ls[i] \in Nat
  OBVIOUS
<1>2. 0 \in T
  <2> DEFINE f == [i \in 0..0 |-> 0]
  <2>1. f \in [0..0 -> Nat] /\ IsCount(f, ls, b, 0)
    BY DEF IsCount
  <2> HIDE DEF f
  <2> QED
    BY <2>1
<1> HIDE DEF ls
<1>3. ASSUME NEW m \in Nat, m \in T PROVE m + 1 \in T
  <2>0. m + 1 \in Nat
    OBVIOUS
  <2> SUFFICES ASSUME m + 1 <= n PROVE \E f \in [0..m+1 -> Nat] : IsCount(f, ls, b, m + 1)
    BY <2>0, Zenon
  <2> HIDE DEF n
  <2>1. PICK f \in [0..m -> Nat] : IsCount(f, ls, b, m)
    <3>1. m <= n
      BY <1>1
    <3> QED
      BY <1>3, <3>1, Zenon
  <2> HIDE DEF T
  <2>2. m + 1 \in 1..n /\ f[m] \in Nat
    BY <1>1, <2>1
  <2> DEFINE x == f[m] * ls[m + 1] + b[m + 1]
             g == [i \in 0..m+1 |-> IF i = m + 1 THEN x ELSE f[i]]
  <2>3. x \in Nat
    <3>1. ls[m + 1] \in Nat /\ b[m + 1] \in Nat
      BY <1>1, <2>2
    <3>2. \A a, c \in Nat : a * c \in Nat
      BY Z3T(30)
    <3> DEFINE y == f[m] * ls[m + 1]
    <3>3. y \in Nat
      BY <2>2, <3>1, <3>2
    <3> HIDE DEF y
    <3>4. y + b[m + 1] \in Nat
      BY SMTT(30), <3>1, <3>3
    <3> QED
      BY <3>4 DEF y
  <2>4. g \in [0..m+1 -> Nat]
    <3> HIDE DEF x
    <3> QED
      BY <2>1, <2>3
  <2>5. \A i \in 0..m+1 : g[i] = IF i = 0 THEN 0 ELSE g[i - 1] * ls[i] + b[i]
    <3> TAKE i \in 0..m+1
    <3>1. CASE i = m + 1
      BY <3>1
    <3>2. CASE i # m + 1
      <4>1. i \in 0..m /\ g[i] = f[i] /\ (i # 0 => g[i - 1] = f[i - 1])
        BY <3>2
      <4>2. f[i] = IF i = 0 THEN 0 ELSE f[i - 1] * ls[i] + b[i]
        BY <2>1, <4>1 DEF IsCount
      <4> QED
        BY <4>1, <4>2
    <3> QED
      BY <3>1, <3>2
  <2>6. g = [i \in 0..m+1 |-> g[i]]
    OBVIOUS
  <2> HIDE DEF g
  <2>7. g = [i \in 0..m+1 |-> IF i = 0 THEN 0 ELSE g[i - 1] * ls[i] + b[i]]
    BY <2>5, <2>6
  <2> QED
    BY <2>4, <2>7 DEF IsCount
<1>4. \A m \in Nat : m \in T
  <2> HIDE DEF T
  <2> QED
    BY <1>2, <1>3, SetInduction
<1>5. \E f \in [0..n -> Nat] : IsCount(f, ls, b, n)
  BY <1>1, <1>4
<1> DEFINE e == CHOOSE f : IsCount(f, ls, b, n)
<1>6. IsCount(e, ls, b, n)
  BY <1>5
<1>7. CornerByte(v, b) = StorageSize[v.dtype] * e[n]
  BY DEF CornerByte, IsCount, ls
<1> HIDE DEF e
<1>8. DOMAIN e = 0..n /\ \A i \in 0..n : e[i] = IF i = 0 THEN 0 ELSE e[i - 1] * ls[i] + b[i]
  <2> HIDE DEF n
  <2>1. e = [i \in 0..n |-> IF i = 0 THEN 0 ELSE e[i - 1] * ls[i] + b[i]]
    BY <1>6 DEF IsCount
  <2> QED
    BY <2>1
<1>9. \A i \in 0..n : e[i] \in Nat
  <2> DEFINE U == {i \in Nat : i <= n => e[i] \in Nat}
  <2>1. 0 \in U
    BY <1>1, <1>8
  <2>2. ASSUME NEW i \in Nat, i \in U PROVE i + 1 \in U
    <3> SUFFICES ASSUME i + 1 <= n PROVE e[i + 1] \in Nat
      OBVIOUS
    <3> HIDE DEF n
    <3>1. i + 1 \in 1..n /\ i + 1 \in 0..n /\ i + 1 # 0 /\ (i + 1) - 1 = i /\ e[i] \in Nat
      BY <1>1, <2>2
    <3>2. e[i + 1] = e[i] * ls[i + 1] + b[i + 1]
      BY <1>8, <3>1
    <3>3. ls[i + 1] \in Nat /\ b[i + 1] \in Nat
      BY <1>1, <3>1
    <3>4. \A a, c \in Nat : a * c \in Nat
      BY Z3T(30)
    <3> DEFINE y == e[i] * ls[i + 1]
    <3>5. y \in Nat
      BY <3>1, <3>3, <3>4
    <3> HIDE DEF y
    <3>6. y + b[i + 1] \in Nat
      BY <3>3, <3>5
    <3>7. e[i] * ls[i + 1] + b[i + 1] \in Nat
      BY <3>6 DEF y
    <3> QED
      BY <3>2, <3>7
  <2>3. \A i \in Nat : i \in U
    <3> HIDE DEF U
    <3> QED
      BY <2>1, <2>2, SetInduction
  <2> QED
    BY <1>1, <2>3
<1> HIDE DEF n
<1>10. e = [i \in 0..n |-> e[i]]
  BY <1>6 DEF IsCount
<1>11. e \in [0..n -> Nat]
  BY <1>9, <1>10
<1>12. e[0] = 0 /\ \A i \in 1..n : e[i] = e[i - 1] * ls[i] + b[i]
  BY <1>1, <1>8
<1> QED
  BY <1>7, <1>11, <1>12 DEF n, ls

\* The sum of the first k numbers.
LEMMA PrefixSum ==
  ASSUME NEW n \in Nat, NEW f, \A i \in 1..n : f[i] \in Nat
  PROVE  /\ SumFunctionOnSet(f, 1..0) = 0
         /\ \A k \in 0..n : SumFunctionOnSet(f, 1..k) \in Nat
         /\ \A k \in 0..n-1 : SumFunctionOnSet(f, 1..(k+1)) = SumFunctionOnSet(f, 1..k) + f[k + 1]
<1>1. SumFunctionOnSet(f, 1..0) = 0
  <2>1. 1..0 = {}
    OBVIOUS
  <2> QED
    BY <2>1, SumEmpty
<1>2. ASSUME NEW k \in 0..n PROVE SumFunctionOnSet(f, 1..k) \in Nat /\ IsFiniteSet(1..k)
  <2>1. IsFiniteSet(1..k) /\ \A i \in 1..k : f[i] \in Nat
    BY FS_Interval
  <2> QED
    BY <2>1, SumNatural
<1>3. ASSUME NEW k \in 0..n-1
      PROVE  SumFunctionOnSet(f, 1..(k+1)) = SumFunctionOnSet(f, 1..k) + f[k + 1]
  <2>1. /\ 1..(k+1) = (1..k) \cup {k + 1} /\ k + 1 \notin 1..k /\ k \in 0..n
        /\ \A i \in (1..k) \cup {k + 1} : f[i] \in Nat
    OBVIOUS
  <2>2. SumFunctionOnSet(f, (1..k) \cup {k + 1}) = f[k + 1] + SumFunctionOnSet(f, 1..k)
    BY <1>2, <2>1, SumAdd
  <2>3. SumFunctionOnSet(f, 1..(k+1)) = f[k + 1] + SumFunctionOnSet(f, 1..k)
    BY <2>1, <2>2, Zenon
  <2>4. f[k + 1] \in Nat /\ SumFunctionOnSet(f, 1..k) \in Nat
    BY <1>2, <2>1
  <2> DEFINE x == SumFunctionOnSet(f, 1..k)
             y == f[k + 1]
  <2>5. y + x = x + y
    <3>1. x \in Nat /\ y \in Nat
      BY <2>4
    <3> HIDE DEF x, y
    <3> QED
      BY <3>1
  <2> QED
    BY <2>3, <2>5, Zenon
<1> QED
  BY <1>1, <1>2, <1>3

\* What the indices add to the offset of a variable.
Steps(v, b) == [i \in DOMAIN b |-> b[i] * v.strides[i + 1]]

\* An offset is where the variable begins and the steps of the indices.
LEMMA OffsetSum ==
  ASSUME NEW v, NEW b \in Seq(Nat), v.begin \in Nat,
         \A k \in 2..Len(b)+1 : v.strides[k] \in Nat
  PROVE  /\ Len(b) \in Nat /\ \A i \in 1..Len(b) : Steps(v, b)[i] \in Nat
         /\ OffsetOf(v, b) = v.begin + SumFunctionOnSet(Steps(v, b), 1..Len(b))
         /\ OffsetOf(v, b) \in Nat /\ v.begin <= OffsetOf(v, b)
<1> DEFINE f == Steps(v, b)
           sum == SumFunctionOnSet(f, 1..Len(b))
<1>1. Len(b) \in Nat /\ DOMAIN b = 1..Len(b) /\ DOMAIN f = 1..Len(b)
  BY DEF Steps
<1>2. \A i \in 1..Len(b) : f[i] \in Nat
  <2> TAKE i \in 1..Len(b)
  <2>1. b[i] \in Nat /\ v.strides[i + 1] \in Nat
    BY <1>1
  <2>2. \A x, y \in Nat : x * y \in Nat
    BY Z3T(30)
  <2>3. b[i] * v.strides[i + 1] \in Nat
    BY <2>1, <2>2
  <2> QED
    BY <1>1, <2>3 DEF Steps
<1>3. SumFunction(f) = sum
  BY <1>1 DEF SumFunction
<1>4. OffsetOf(v, b) = v.begin + SumFunction(f)
  BY DEF OffsetOf, Steps
<1> HIDE DEF f
<1>5. sum \in Nat
  <2>1. IsFiniteSet(1..Len(b))
    BY <1>1, FS_Interval
  <2> QED
    BY <1>2, <2>1, SumNatural
<1>6. OffsetOf(v, b) = v.begin + sum
  BY <1>3, <1>4
<1> HIDE DEF sum
<1>7. OffsetOf(v, b) \in Nat /\ v.begin <= OffsetOf(v, b)
  BY <1>5, <1>6
<1> QED
  BY <1>1, <1>2, <1>6, <1>7 DEF f, sum

\* One index more, counted in elements and in bytes: x elements of size p are
\* x*l + i of size q, and end where those do.
LEMMA Deeper ==
  ASSUME NEW x \in Nat, NEW l \in Nat, NEW i \in Nat, NEW q \in Nat, NEW p, p = l * q
  PROVE  /\ (x * l + i) * q = x * p + i * q
         /\ i < l => ((x * l + i) + 1) * q <= (x + 1) * p
<1>1. (x * l + i) * q = x * (l * q) + i * q
  BY Z3T(30)
<1>2. ASSUME i < l PROVE ((x * l + i) + 1) * q <= (x + 1) * p
  <2>1. l - i - 1 \in Nat /\ l = i + 1 + (l - i - 1)
    BY <1>2
  <2>2. \A k \in Nat : (x * l + (i + 1 + k)) * q = ((x * l + i) + 1) * q + k * q /\ k * q \in Nat
    BY Z3T(30)
  <2>3. (x * l + l) * q = (x + 1) * (l * q)
    BY Z3T(30)
  <2>4. ((x * l + i) + 1) * q \in Nat
    BY Z3T(30)
  <2>5. PICK k \in Nat : l = i + 1 + k
    BY <2>1
  <2>6. (x * l + l) * q = ((x * l + i) + 1) * q + k * q /\ k * q \in Nat
    BY <2>2, <2>5
  <2>7. (x + 1) * p = ((x * l + i) + 1) * q + k * q
    BY <2>3, <2>6
  <2> DEFINE y == ((x * l + i) + 1) * q
             z == k * q
  <2> HIDE DEF y, z
  <2>8. (x + 1) * p = y + z /\ y \in Nat /\ z \in Nat
    BY <2>4, <2>6, <2>7 DEF y, z
  <2> QED
    BY <2>8 DEF y
<1> QED
  BY <1>1, <1>2

\* The element at an index vector of a variable that is no record variable: its
\* offset is where the variable begins and the bytes counted row by row, and it
\* ends within the variable.
LEMMA ArrayCorner ==
  ASSUME NEW v, NEW s, LaidOutStrides(v, s), ~IsRecord(v), v.begin \in Nat,
         NEW b \in Seq(Nat), Len(b) = Len(v.lengths),
         \A k \in 1..Len(b) : b[k] < v.lengths[k]
  PROVE  /\ CornerByte(v, b) \in Nat
         /\ OffsetOf(v, b) = v.begin + CornerByte(v, b)
         /\ CornerByte(v, b) + StorageSize[v.dtype] <= VSize(v)
<1> DEFINE n == Len(b)
           ls == v.lengths
           S(k) == SumFunctionOnSet(Steps(v, b), 1..k)
<1>1. /\ n \in Nat /\ v.strides = s /\ s \in Seq(Nat) /\ Len(s) = n + 1
      /\ s[n + 1] = StorageSize[v.dtype]
      /\ \A k \in 1..n : s[k] = ls[k] * s[k + 1]
      /\ ls \in Seq(Nat) /\ Len(ls) = n
  BY DEF LaidOutStrides
<1>2. \A k \in 1..n+1 : s[k] \in Nat
  BY <1>1
<1>3. \A k \in 1..n : ls[k] \in Nat /\ b[k] \in Nat /\ b[k] < ls[k]
  <2>1. \A k \in 1..n : b[k] < ls[k]
    OBVIOUS
  <2>2. \A k \in 1..n : b[k] \in Nat
    OBVIOUS
  <2>3. ls \in Seq(Nat) /\ Len(ls) = n /\ n \in Nat
    BY <1>1
  <2> HIDE DEF ls, n
  <2>4. \A k \in 1..n : ls[k] \in Nat
    BY <2>3
  <2> QED
    BY <2>1, <2>2, <2>4
<1>4. PICK e \in [0..n -> Nat] :
        /\ e[0] = 0 /\ \A i \in 1..n : e[i] = e[i - 1] * ls[i] + b[i]
        /\ CornerByte(v, b) = StorageSize[v.dtype] * e[n]
  <2>1. v.lengths \in Seq(Nat) /\ Len(b) <= Len(v.lengths)
    BY <1>1
  <2> QED
    BY <2>1, CornerRecursion
<1>5. /\ \A k \in 1..n : Steps(v, b)[k] \in Nat
      /\ OffsetOf(v, b) = v.begin + S(n)
  <2>1. \A k \in 2..Len(b)+1 : v.strides[k] \in Nat
    BY <1>1, <1>2
  <2> QED
    BY <2>1, OffsetSum
<1>6. \A k \in 1..n : Steps(v, b)[k] = b[k] * s[k + 1]
  BY <1>1, SMTT(60) DEF Steps
<1>7. /\ S(0) = 0 /\ \A k \in 0..n : S(k) \in Nat
      /\ \A k \in 0..n-1 : S(k + 1) = S(k) + Steps(v, b)[k + 1]
  BY <1>1, <1>5, PrefixSum
<1> HIDE DEF n, ls, S
<1> DEFINE T == {k \in Nat : k <= n => S(k) = e[k] * s[k + 1] /\ (e[k] + 1) * s[k + 1] <= s[1]}
<1>8. 0 \in T
  <2>1. s[1] \in Nat /\ s[0 + 1] = s[1]
    BY <1>1, <1>2
  <2>2. 0 * s[1] = 0 /\ (0 + 1) * s[1] = s[1]
    BY <2>1
  <2>3. S(0) = e[0] * s[0 + 1] /\ (e[0] + 1) * s[0 + 1] <= s[1]
    BY <1>4, <1>7, <2>1, <2>2
  <2> QED
    BY <2>3
<1>9. ASSUME NEW k \in Nat, k \in T PROVE k + 1 \in T
  <2> SUFFICES ASSUME k + 1 <= n
               PROVE  S(k + 1) = e[k + 1] * s[(k + 1) + 1] /\ (e[k + 1] + 1) * s[(k + 1) + 1] <= s[1]
    OBVIOUS
  <2>1. S(k) = e[k] * s[k + 1] /\ (e[k] + 1) * s[k + 1] <= s[1]
    BY <1>1, <1>9
  <2> HIDE DEF T
  <2>2. /\ k \in 0..n-1 /\ k \in 0..n /\ k + 1 \in 1..n /\ (k + 1) - 1 = k
        /\ k + 1 \in 1..n+1 /\ (k + 1) + 1 \in 1..n+1
    BY <1>1
  <2>3. /\ e[k] \in Nat /\ ls[k + 1] \in Nat /\ b[k + 1] \in Nat /\ b[k + 1] < ls[k + 1]
        /\ s[(k + 1) + 1] \in Nat /\ s[k + 1] \in Nat
        /\ s[k + 1] = ls[k + 1] * s[(k + 1) + 1]
    BY <1>1, <1>2, <1>3, <2>2
  <2>4. e[k + 1] = e[k] * ls[k + 1] + b[k + 1]
    BY <1>4, <2>2
  <2>5. /\ e[k + 1] * s[(k + 1) + 1] = e[k] * s[k + 1] + b[k + 1] * s[(k + 1) + 1]
        /\ (e[k + 1] + 1) * s[(k + 1) + 1] <= (e[k] + 1) * s[k + 1]
    <3>1. /\ (e[k] * ls[k + 1] + b[k + 1]) * s[(k + 1) + 1] = e[k] * s[k + 1] + b[k + 1] * s[(k + 1) + 1]
          /\ ((e[k] * ls[k + 1] + b[k + 1]) + 1) * s[(k + 1) + 1] <= (e[k] + 1) * s[k + 1]
      <4> DEFINE q == s[(k + 1) + 1]
                 p == s[k + 1]
                 l == ls[k + 1]
                 i == b[k + 1]
                 x == e[k]
      <4>1. x \in Nat /\ l \in Nat /\ i \in Nat /\ q \in Nat /\ p = l * q /\ i < l
        BY <2>3
      <4> HIDE DEF q, p, l, i, x
      <4>2. /\ (x * l + i) * q = x * p + i * q
            /\ ((x * l + i) + 1) * q <= (x + 1) * p
        BY <4>1, Deeper
      <4> QED
        BY <4>2 DEF q, p, l, i, x
    <3> QED
      BY <2>4, <3>1
  <2>6. S(k + 1) = S(k) + b[k + 1] * s[(k + 1) + 1]
    BY <1>6, <1>7, <2>2
  <2>7. \A x, y \in Nat : (x + 1) * y \in Nat
    BY Z3T(30)
  <2>8. (e[k + 1] + 1) * s[(k + 1) + 1] \in Nat /\ (e[k] + 1) * s[k + 1] \in Nat /\ s[1] \in Nat
    <3>1. e[k + 1] \in Nat /\ s[1] \in Nat
      BY <1>1, <1>2, <2>2, SMTT(60)
    <3> QED
      BY <2>3, <2>7, <3>1
  <2> DEFINE x == (e[k + 1] + 1) * s[(k + 1) + 1]
             y == (e[k] + 1) * s[k + 1]
  <2> HIDE DEF x, y
  <2>9. x <= s[1]
    BY <2>1, <2>5, <2>8 DEF x, y
  <2> QED
    BY <2>1, <2>5, <2>6, <2>9 DEF x
<1>10. \A k \in Nat : k \in T
  <2> HIDE DEF T
  <2> QED
    BY <1>8, <1>9, SetInduction
<1> DEFINE es == StorageSize[v.dtype]
           m == e[n]
<1>11. S(n) = m * s[n + 1] /\ (m + 1) * s[n + 1] <= s[1]
  BY <1>1, <1>10
<1>12. m \in Nat /\ es \in Nat /\ s[n + 1] = es /\ s[1] = VSize(v)
  <2>1. n + 1 \in 1..n+1 /\ n \in 0..n
    BY <1>1
  <2> QED
    BY <1>1, <1>2, <1>4, <2>1 DEF VSize
<1>13. OffsetOf(v, b) = v.begin + S(n) /\ CornerByte(v, b) = es * m
  BY <1>4, <1>5
<1> HIDE DEF es, m
<1>14. es * m = m * es /\ m * es \in Nat /\ (m + 1) * es = m * es + es
  <2>1. \A x, y \in Nat : x * y = y * x /\ y * x \in Nat /\ (y + 1) * x = y * x + x
    BY Z3T(30)
  <2> QED
    BY <1>12, <2>1
<1> DEFINE z == m * es
<1>15. /\ z \in Nat /\ OffsetOf(v, b) = v.begin + z /\ CornerByte(v, b) = z
       /\ z + es <= VSize(v)
  BY <1>11, <1>12, <1>13, <1>14
<1> HIDE DEF z
<1> QED
  BY <1>15 DEF es

\* The first element of a record of a record variable.
LEMMA RecordCorner ==
  ASSUME NEW v, NEW s, LaidOutStrides(v, s), IsRecord(v), v.begin \in Nat,
         v.strides[2] \in Nat,
         NEW b \in Seq(Nat), Len(b) = Len(v.lengths), \A k \in 2..Len(b) : b[k] = 0
  PROVE  /\ b[1] \in Nat
         /\ OffsetOf(v, b) = v.begin + b[1] * v.strides[2]
         /\ CornerByte(v, b) = b[1] * VSize(v)
<1> DEFINE n == Len(b)
           ls == v.lengths
           S(k) == SumFunctionOnSet(Steps(v, b), 1..k)
<1>1. /\ n \in Nat \ {0} /\ s \in Seq(Nat) /\ Len(s) = n + 1
      /\ s[n + 1] = StorageSize[v.dtype]
      /\ \A k \in 1..n : s[k] = ls[k] * s[k + 1]
      /\ ls \in Seq(Nat) /\ Len(ls) = n
      /\ VSize(v) = s[2] /\ \A k \in 3..n+1 : v.strides[k] = s[k]
  <2>1. /\ Len(v.lengths) > 0 /\ v.strides[1] = s[2] /\ v.lengths \in Seq(Nat)
        /\ s \in Seq(Nat) /\ Len(s) = Len(v.lengths) + 1 /\ s[Len(s)] = StorageSize[v.dtype]
        /\ \A k \in 1..Len(v.lengths) : s[k] = v.lengths[k] * s[k + 1]
        /\ \A k \in 3..Len(s) : v.strides[k] = s[k]
    BY DEF LaidOutStrides
  <2>2. n \in Nat \ {0}
    BY <2>1
  <2> HIDE DEF n
  <2>3. Len(v.lengths) = n
    BY DEF n
  <2>4. Len(s) = n + 1
    BY <2>1, <2>3
  <2> QED
    BY <2>1, <2>2, <2>3, <2>4 DEF VSize
<1> HIDE DEF ls
<1>2. \A k \in 1..n+1 : s[k] \in Nat
  <2> HIDE DEF n
  <2> QED
    BY <1>1
<1>3. b[1] \in Nat /\ \A k \in 1..n : ls[k] \in Nat
  <2>1. b[1] \in Nat
    BY <1>1
  <2>2. ls \in Seq(Nat) /\ Len(ls) = n /\ n \in Nat
    BY <1>1
  <2> HIDE DEF n
  <2>3. \A k \in 1..n : ls[k] \in Nat
    BY <2>2
  <2> QED
    BY <2>1, <2>3
<1>4. PICK e \in [0..n -> Nat] :
        /\ e[0] = 0 /\ \A i \in 1..n : e[i] = e[i - 1] * ls[i] + b[i]
        /\ CornerByte(v, b) = StorageSize[v.dtype] * e[n]
  <2>1. v.lengths \in Seq(Nat) /\ Len(b) <= Len(v.lengths)
    BY <1>1 DEF ls
  <2> QED
    BY <2>1, CornerRecursion DEF ls
<1>5. /\ \A k \in 1..n : Steps(v, b)[k] \in Nat
      /\ OffsetOf(v, b) = v.begin + S(n)
  <2>1. \A k \in 2..Len(b)+1 : v.strides[k] \in Nat
    <3>1. \A k \in 2..n+1 : k = 2 \/ k \in 3..n+1
      BY <1>1
    <3>2. \A k \in 3..n+1 : k \in 1..n+1
      BY <1>1
    <3> QED
      BY <1>1, <1>2, <3>1, <3>2
  <2> QED
    BY <2>1, OffsetSum
<1>6. \A k \in 1..n : Steps(v, b)[k] = b[k] * v.strides[k + 1]
  BY DEF Steps
<1>7. /\ S(0) = 0 /\ \A k \in 0..n : S(k) \in Nat
      /\ \A k \in 0..n-1 : S(k + 1) = S(k) + Steps(v, b)[k + 1]
  BY <1>1, <1>5, PrefixSum
<1> DEFINE x == b[1] * v.strides[2]
           y == b[1] * s[2]
<1>8. x \in Nat /\ y \in Nat
  <2>1. \A i, j \in Nat : i * j \in Nat
    BY Z3T(30)
  <2>2. s[2] \in Nat
    BY <1>1, <1>2
  <2> QED
    BY <1>3, <2>1, <2>2
<1>9. S(1) = x
  <2>1. 0 \in 0..n-1 /\ 1 \in 1..n /\ 0 + 1 = 1 /\ 1 + 1 = 2
    BY <1>1
  <2>2. S(1) = S(0) + Steps(v, b)[1] /\ Steps(v, b)[1] = x
    BY <1>6, <1>7, <2>1
  <2> HIDE DEF S, x
  <2> QED
    BY <1>7, <1>8, <2>2
<1>10. e[1] = b[1]
  <2>1. 1 \in 1..n /\ 1 - 1 = 0
    BY <1>1
  <2>2. e[1] = 0 * ls[1] + b[1]
    BY <1>4, <2>1
  <2> QED
    BY <1>3, <2>1, <2>2
<1> HIDE DEF n, ls, S, x, y
<1> DEFINE T == {k \in Nat : k + 1 <= n => S(k + 1) = x /\ e[k + 1] * s[k + 2] = y}
<1>11. 0 \in T
  <2>1. S(0 + 1) = x /\ e[0 + 1] * s[0 + 2] = y
    BY <1>9, <1>10 DEF y
  <2> QED
    BY <2>1
<1>12. ASSUME NEW k \in Nat, k \in T PROVE k + 1 \in T
  <2> DEFINE i == k + 1
  <2> SUFFICES ASSUME i + 1 <= n PROVE S(i + 1) = x /\ e[i + 1] * s[i + 2] = y
    OBVIOUS
  <2>1. S(i) = x /\ e[i] * s[i + 1] = y
    <3>1. k + 1 <= n /\ k + 2 = i + 1
      BY <1>1
    <3> QED
      BY <1>12, <3>1
  <2> HIDE DEF T
  <2>2. /\ i \in 0..n-1 /\ i + 1 \in 2..n /\ (i + 1) - 1 = i /\ i + 1 \in 1..n
        /\ i \in 0..n /\ (i + 1) + 1 = i + 2 /\ i + 2 \in 1..n+1 /\ i + 2 \in 3..n+1
    BY <1>1
  <2> HIDE DEF i
  <2>3. b[i + 1] = 0
    BY <2>2 DEF n
  <2>4. /\ e[i] \in Nat /\ ls[i + 1] \in Nat /\ s[i + 2] \in Nat
        /\ s[i + 1] = ls[i + 1] * s[i + 2] /\ v.strides[i + 2] = s[i + 2]
    BY <1>1, <1>2, <1>3, <2>2
  <2>5. Steps(v, b)[i + 1] = 0
    <3>1. Steps(v, b)[i + 1] = 0 * s[i + 2]
      BY <1>6, <2>2, <2>3, <2>4
    <3> QED
      BY <2>4, <3>1
  <2>6. S(i + 1) = x
    <3>1. S(i + 1) = x + 0
      BY <1>7, <2>1, <2>2, <2>5
    <3> QED
      BY <1>8, <3>1
  <2>7. e[i + 1] = e[i] * ls[i + 1] + 0
    BY <1>4, <2>2, <2>3
  <2>8. 0 \in Nat
    OBVIOUS
  <2>9. e[i + 1] * s[i + 2] = e[i] * s[i + 1] + 0 * s[i + 2]
    BY <2>4, <2>7, <2>8, Deeper
  <2>10. 0 * s[i + 2] = 0 /\ y + 0 = y
    BY <1>8, <2>4
  <2> QED
    BY <2>1, <2>6, <2>9, <2>10
<1>13. \A k \in Nat : k \in T
  <2> HIDE DEF T
  <2> QED
    BY <1>11, <1>12, SetInduction
<1>14. S(n) = x /\ e[n] * s[n + 1] = y
  <2>1. n - 1 \in Nat /\ (n - 1) + 1 = n /\ (n - 1) + 2 = n + 1 /\ (n - 1) + 1 <= n
    BY <1>1
  <2>2. n - 1 \in T
    BY <1>13, <2>1
  <2> QED
    BY <2>1, <2>2
<1>15. CornerByte(v, b) = y
  <2>1. e[n] \in Nat /\ s[n + 1] \in Nat
    <3>1. n \in 0..n /\ n + 1 \in 1..n+1
      BY <1>1
    <3> QED
      BY <1>2, <3>1
  <2>2. \A i, j \in Nat : i * j = j * i
    BY Z3T(30)
  <2>3. CornerByte(v, b) = s[n + 1] * e[n]
    BY <1>1, <1>4
  <2>4. s[n + 1] * e[n] = e[n] * s[n + 1]
    BY <2>1, <2>2
  <2> QED
    BY <1>14, <2>3, <2>4
<1> QED
  BY <1>1, <1>3, <1>5, <1>14, <1>15 DEF x, y

-----------------------------------------------------------------------------
(* The variables of the file.                                              *)

\* What the proofs use of a variable of the header.
Settled(i) ==
  /\ Var(i).begin \in Nat /\ Sizes[i] = VSize(Var(i)) /\ Sizes[i] \in Nat \ {0}
  /\ StorageSize[Var(i).dtype] \in 1..8
  /\ RecordsOf[i] = (IF IsRecord(Var(i)) THEN Records ELSE 1)
  /\ Bytes[i] = 0..Sizes[i] * RecordsOf[i] - 1
  /\ \A k \in Bytes[i] : Place[i][k] = ByteOffset(Var(i), k \div Sizes[i], k % Sizes[i])
  /\ IsRecord(Var(i)) => /\ Var(i).strides[2] = SlabSize /\ SlabSize \in Nat \ {0}
                         /\ Sizes[i] <= SlabSize
                         /\ Slabs(Header).offs \in Nat /\ Slabs(Header).offs <= Var(i).begin
                         /\ Var(i).begin + Sizes[i] <= Slabs(Header).offs + SlabSize

\* The first record variable is where the slabs begin.
LEMMA FirstSlab ==
  ASSUME NEW i \in DOMAIN Vs, IsRecord(Var(i))
  PROVE  \E j \in DOMAIN Vs : /\ IsRecord(Var(j)) /\ (j = i \/ Precedes(Vs, j, i))
                              /\ Slabs(Header).offs = Var(j).begin
                              /\ SlabSize = Var(j).strides[2]
<1> DEFINE R == {k \in DOMAIN Vs : IsRecord(Vs[k])}
           m == Min(R)
<1>1. DOMAIN Vs = 1..Len(Vs) /\ Len(Vs) \in Nat /\ Vs = Header.vars
  BY HeaderLaidOut DEF Vs
<1>2. R # {} /\ R \in SUBSET Nat
  BY <1>1 DEF Var
<1>3. m \in R /\ \A k \in R : m <= k
  <2>1. \E x \in R : \A y \in R : x <= y
    BY <1>2, LeastNat
  <2> HIDE DEF R
  <2> QED
    BY <2>1 DEF Min
<1>4. Slabs(Header) = [offs |-> Vs[m].begin, size |-> Vs[m].strides[2]]
  BY <1>1, <1>2 DEF Slabs
<1> HIDE DEF m
<1>5. m = i \/ Precedes(Vs, m, i)
  <2>1. m \in Nat /\ i \in Nat /\ m <= i /\ IsRecord(Vs[m]) /\ IsRecord(Vs[i])
    BY <1>1, <1>3 DEF Var
  <2>2. (IsRecord(Vs[m]) = IsRecord(Vs[i])) = TRUE
    BY <2>1 DEF IsRecord
  <2> QED
    BY <2>1, <2>2 DEF Precedes
<1> QED
  BY <1>3, <1>4, <1>5 DEF SlabSize, Var

\* Every variable of the header is so.
LEMMA AllSettled == \A i \in DOMAIN Vs : Settled(i)
<1> SUFFICES ASSUME NEW i \in DOMAIN Vs PROVE Settled(i)
  OBVIOUS
<1> DEFINE v == Var(i)
<1>1. Spaced(Header) /\ Vs = Header.vars /\ Vs \in Seq(Variables(Names, Names))
  BY HeaderLaidOut DEF Vs
<1>2. /\ v.begin \in Nat /\ VSize(v) \in Nat \ {0}
      /\ IsRecord(v) => v.strides[2] \in Nat /\ VSize(v) <= v.strides[2]
  BY <1>1 DEF Spaced, Var
<1>3. Sizes[i] = VSize(v)
  BY DEF Sizes, Var
<1>4. StorageSize[v.dtype] \in 1..8
  <2>1. v \in Variables(Names, Names)
    BY <1>1 DEF Var
  <2>2. v.dtype \in DOMAIN StorageSize
    BY <2>1 DEF Variables
  <2> QED
    BY <2>2, ElementSize
<1>5. RecordsOf[i] = (IF IsRecord(v) THEN Records ELSE 1)
  BY DEF RecordsOf, Var
<1>6. Bytes[i] = 0..Sizes[i] * RecordsOf[i] - 1
  BY DEF Bytes
<1>7. \A k \in Bytes[i] : Place[i][k] = ByteOffset(v, k \div Sizes[i], k % Sizes[i])
  BY DEF Place, Var
<1>8. ASSUME IsRecord(v)
      PROVE  /\ v.strides[2] = SlabSize /\ SlabSize \in Nat \ {0} /\ Sizes[i] <= SlabSize
             /\ Slabs(Header).offs \in Nat /\ Slabs(Header).offs <= v.begin
             /\ v.begin + Sizes[i] <= Slabs(Header).offs + SlabSize
  <2>1. PICK j \in DOMAIN Vs : /\ IsRecord(Var(j)) /\ (j = i \/ Precedes(Vs, j, i))
                               /\ Slabs(Header).offs = Var(j).begin /\ SlabSize = Var(j).strides[2]
    BY <1>8, FirstSlab
  <2>2. IsRecord(Var(j))
    BY <2>1
  <2>3. /\ Var(j).begin \in Nat /\ VSize(Var(j)) \in Nat \ {0}
        /\ Var(j).strides[2] = v.strides[2]
        /\ Precedes(Vs, j, i) => /\ Var(j).begin + Pad4(VSize(Var(j))) <= v.begin
                                 /\ v.begin + Pad4(VSize(v)) <= Var(j).begin + Var(j).strides[2]
    BY <1>1, <1>8, <2>2 DEF Spaced, Var
  <2>4. /\ Pad4(VSize(v)) \in Nat /\ VSize(v) <= Pad4(VSize(v))
        /\ Pad4(VSize(Var(j))) \in Nat
    BY <1>2, <2>3, Padding
  <2>5. CASE j = i
    BY <1>2, <1>3, <1>8, <2>1, <2>5
  <2>6. CASE Precedes(Vs, j, i)
    <3> HIDE DEF v
    <3> QED
      BY <1>2, <1>3, <1>8, <2>1, <2>3, <2>4, <2>6
  <2> QED
    BY <2>1, <2>5, <2>6
<1> QED
  BY <1>2, <1>3, <1>4, <1>5, <1>6, <1>7, <1>8 DEF Settled

-----------------------------------------------------------------------------
(* Open striders.                                                          *)

\* Geometry g goes through variable i from its byte a on: through its records, or
\* through some of its bytes up to an end within the variable.
Tracks(i, g, a) ==
  /\ i \in DOMAIN Vs /\ a \in Nat /\ GeometryOK(g)
  /\ IsRecord(Var(i)) =>
       /\ g.stripesize = Sizes[i] /\ g.stride = SlabSize
       /\ \E r \in Nat : a = r * Sizes[i] /\ g.begin = Var(i).begin + r * SlabSize
  /\ ~IsRecord(Var(i)) =>
       /\ g.begin = Var(i).begin + a /\ g.stride = g.stripesize
       /\ g.end > 0 /\ g.end <= Var(i).begin + Sizes[i]

\* The byte m bytes on is where the cursor is then.
LEMMA TracksPlace ==
  ASSUME NEW i, NEW g, NEW a, Tracks(i, g, a), NEW m \in Nat, a + m \in Bytes[i]
  PROVE  Place[i][a + m] = Pos(g, m)
<1> DEFINE z == Sizes[i]
           d == SlabSize
           v == Var(i)
           k == a + m
<1>1. Settled(i) /\ a \in Nat /\ GeometryOK(g)
  BY AllSettled DEF Tracks
<1>2. /\ z \in Nat \ {0} /\ v.begin \in Nat
      /\ Place[i][k] = v.begin + (IF IsRecord(v) THEN (k \div z) * v.strides[2] ELSE 0) + (k % z)
  BY <1>1 DEF Settled, ByteOffset
<1>3. CASE IsRecord(v)
  <2>1. PICK r \in Nat : a = r * z /\ g.begin = v.begin + r * d
    BY <1>3 DEF Tracks
  <2>2. /\ g.stripesize = z /\ g.stride = d /\ d \in Nat \ {0} /\ v.strides[2] = d
    BY <1>1, <1>3 DEF Tracks, Settled
  <2> DEFINE q == m \div z
             x == m % z
  <2>3. q \in Nat /\ x \in 0..z-1 /\ m = q * z + x
    BY <1>2, DivMod
  <2>4. Pos(g, m) = g.begin + q * d + x
    BY <2>2 DEF Pos
  <2>5. Place[i][k] = v.begin + (k \div z) * d + (k % z)
    BY <1>2, <1>3, <2>2
  <2> HIDE DEF q, x, z, d, v
  <2>6. k = (r + q) * z + x
    <3>1. \A s, t, y \in Nat : (s + t) * y = s * y + t * y /\ s * y \in Nat /\ t * y \in Nat
      BY Z3T(30)
    <3>2. (r + q) * z = r * z + q * z /\ r * z \in Nat /\ q * z \in Nat
      BY <1>2, <2>3, <3>1
    <3> QED
      BY <2>1, <2>3, <3>2
  <2>7. k \div z = r + q /\ k % z = x
    <3>1. r + q \in Nat
      BY <2>3
    <3>2. ((r + q) * z + x) \div z = r + q /\ ((r + q) * z + x) % z = x
      BY <1>2, <2>3, <3>1, DivUnique
    <3> QED
      BY <2>6, <3>2
  <2>8. (r + q) * d = r * d + q * d /\ r * d \in Nat /\ q * d \in Nat
    <3>1. \A s, t, y \in Nat : (s + t) * y = s * y + t * y /\ s * y \in Nat /\ t * y \in Nat
      BY Z3T(30)
    <3> QED
      BY <2>2, <2>3, <3>1
  <2> HIDE DEF k
  <2>9. Place[i][k] = v.begin + (r + q) * d + x
    BY <2>5, <2>7
  <2> DEFINE rd == r * d
             qd == q * d
  <2>10. rd \in Nat /\ qd \in Nat /\ Place[i][k] = v.begin + (rd + qd) + x
    BY <2>8, <2>9
  <2>11. Pos(g, m) = (v.begin + rd) + qd + x
    BY <2>1, <2>4
  <2> HIDE DEF rd, qd
  <2> QED
    BY <1>2, <2>3, <2>10, <2>11 DEF k
<1>4. CASE ~IsRecord(v)
  <2>1. g.begin = v.begin + a /\ g.stride = g.stripesize /\ g.stripesize \in Nat \ {0}
    BY <1>1, <1>4 DEF Tracks, GeometryOK
  <2>2. m = (m \div g.stripesize) * g.stripesize + (m % g.stripesize)
    BY <2>1, DivMod
  <2>3. Pos(g, m) = g.begin + m
    <3>1. m \div g.stripesize \in Nat /\ m % g.stripesize \in 0..g.stripesize-1
      BY <2>1, DivMod
    <3> DEFINE x == (m \div g.stripesize) * g.stripesize
               y == m % g.stripesize
    <3>2. x \in Nat /\ y \in Nat
      <4>1. \A s, t \in Nat : s * t \in Nat
        BY Z3T(30)
      <4> QED
        BY <2>1, <3>1, <4>1
    <3>3. Pos(g, m) = g.begin + x + y /\ m = x + y
      BY <2>1, <2>2 DEF Pos
    <3>4. g.begin \in Nat
      BY <1>1 DEF GeometryOK
    <3> HIDE DEF x, y
    <3> QED
      BY <3>2, <3>3, <3>4
  <2>4. k \in 0..z-1
    BY <1>1, <1>2, <1>4 DEF Settled
  <2>5. k \div z = 0 /\ k % z = k
    <3>1. 0 * z + k = k
      BY <1>2, <2>4
    <3>2. (0 * z + k) % z = k
      <4> HIDE DEF k, z
      <4> QED
        BY <1>2, <2>4, DivUnique
    <3>3. (0 * z + k) \div z = 0
      <4> HIDE DEF k, z
      <4> QED
        BY <1>2, <2>4, DivUnique
    <3> HIDE DEF k, z
    <3> QED
      BY <3>1, <3>2, <3>3
  <2>6. Place[i][k] = v.begin + 0 + k
    BY <1>2, <1>4, <2>5
  <2> QED
    BY <1>1, <1>2, <2>1, <2>3, <2>6
<1> QED
  BY <1>3, <1>4

\* The strides of a variable of the header.
LEMMA VariableStrides ==
  ASSUME NEW i \in DOMAIN Vs
  PROVE  /\ \E s : LaidOutStrides(Var(i), s)
         /\ Var(i).lengths \in Seq(Nat)
         /\ \A k \in 2..Len(Var(i).lengths)+1 : Var(i).strides[k] \in Nat
         /\ ~IsRecord(Var(i)) => \A k \in 1..Len(Var(i).lengths) : Var(i).lengths[k] # 0
<1> DEFINE v == Var(i)
           n == Len(v.lengths)
<1>1. PICK s : LaidOutStrides(v, s)
  BY HeaderAssumption, LaidOutVariable DEF Var, Vs
<1>2. /\ v.lengths \in Seq(Nat) /\ n \in Nat /\ s \in Seq(Nat) /\ Len(s) = n + 1
      /\ \A k \in 1..n : v.lengths[k] = 0 => k = 1
      /\ \A k \in 3..Len(s) : v.strides[k] = s[k]
      /\ ~IsRecord(v) => v.strides = s
  BY <1>1 DEF LaidOutStrides
<1>3. IsRecord(v) => v.strides[2] \in Nat
  BY AllSettled DEF Settled
<1> HIDE DEF n
<1>4. \A k \in 1..n+1 : s[k] \in Nat
  BY <1>2
<1>5. \A k \in 2..n+1 : v.strides[k] \in Nat
  <2> TAKE k \in 2..n+1
  <2>1. k \in 1..n+1 /\ (k = 2 \/ k \in 3..n+1)
    BY <1>2
  <2> HIDE DEF v
  <2> QED
    BY <1>2, <1>3, <1>4, <2>1
<1>6. ASSUME ~IsRecord(v), NEW k \in 1..n, v.lengths[k] = 0 PROVE FALSE
  <2>1. k = 1
    BY <1>2, <1>6
  <2>2. n > 0
    BY <1>2
  <2> QED
    BY <1>6, <2>1, <2>2 DEF IsRecord, n
<1> QED
  BY <1>1, <1>2, <1>5, <1>6 DEF n

\* An index vector of one of the corners.
LEMMA IndexVector ==
  ASSUME NEW i \in DOMAIN Vs, NEW b, IsIndex(Var(i), b)
  PROVE  /\ b \in Seq(Nat) /\ Len(b) = Len(Var(i).lengths) /\ OffsetOf(Var(i), b) \in Nat
         /\ ~IsRecord(Var(i)) =>
              /\ CornerByte(Var(i), b) \in Nat
              /\ OffsetOf(Var(i), b) = Var(i).begin + CornerByte(Var(i), b)
              /\ CornerByte(Var(i), b) + StorageSize[Var(i).dtype] <= Sizes[i]
         /\ IsRecord(Var(i)) /\ (\A k \in DOMAIN b : k > 1 => b[k] = 0) =>
              /\ b[1] \in 0..Records-1
              /\ OffsetOf(Var(i), b) = Var(i).begin + b[1] * SlabSize
              /\ CornerByte(Var(i), b) = b[1] * Sizes[i]
<1> DEFINE v == Var(i)
<1>1. /\ b \in Seq(Nat) /\ Len(b) = Len(v.lengths) /\ DOMAIN b = 1..Len(b) /\ Len(b) \in Nat
      /\ \A k \in 1..Len(b) : b[k] < (IF v.lengths[k] = 0 THEN Records ELSE v.lengths[k])
  BY DEF IsIndex
<1>2. v.begin \in Nat /\ Sizes[i] = VSize(v) /\ (IsRecord(v) => v.strides[2] = SlabSize /\ SlabSize \in Nat)
  BY AllSettled DEF Settled
<1>3. PICK s : LaidOutStrides(v, s)
  BY VariableStrides
<1>4. /\ \A k \in 2..Len(b)+1 : v.strides[k] \in Nat
      /\ ~IsRecord(v) => \A k \in 1..Len(b) : v.lengths[k] # 0
  BY <1>1, VariableStrides
<1> HIDE DEF v
<1>5. OffsetOf(v, b) \in Nat
  BY <1>1, <1>2, <1>4, OffsetSum
<1>6. ASSUME ~IsRecord(v)
      PROVE  /\ CornerByte(v, b) \in Nat /\ OffsetOf(v, b) = v.begin + CornerByte(v, b)
             /\ CornerByte(v, b) + StorageSize[v.dtype] <= VSize(v)
  <2>1. \A k \in 1..Len(b) : b[k] < v.lengths[k]
    BY <1>1, <1>4, <1>6
  <2> QED
    BY <1>1, <1>2, <1>3, <1>6, <2>1, ArrayCorner
<1>7. ASSUME IsRecord(v), \A k \in DOMAIN b : k > 1 => b[k] = 0
      PROVE  /\ b[1] \in 0..Records-1 /\ OffsetOf(v, b) = v.begin + b[1] * SlabSize
             /\ CornerByte(v, b) = b[1] * VSize(v)
  <2>1. \A k \in 2..Len(b) : b[k] = 0
    BY <1>1, <1>7
  <2>2. /\ b[1] \in Nat /\ OffsetOf(v, b) = v.begin + b[1] * v.strides[2]
        /\ CornerByte(v, b) = b[1] * VSize(v)
    BY <1>1, <1>2, <1>3, <1>7, <2>1, RecordCorner
  <2>3. 1 \in 1..Len(b) /\ v.lengths[1] = 0
    BY <1>1, <1>7 DEF IsRecord
  <2>4. b[1] < Records /\ Records \in Nat
    BY <1>1, <2>3, CdfFileAssumption
  <2> QED
    BY <1>2, <1>7, <2>2, <2>4
<1> QED
  BY <1>1, <1>2, <1>5, <1>6, <1>7 DEF v

\* A strider's begin, end, stripe and stride, and the size of its elements.
Geometries == [begin : Nat, end : Nat, elemsz : Nat, stripesize : Nat, stride : Nat]

\* Wherever its corners are, an opened strider has a geometry; that of an array is
\* as it should be.
LEMMA OpenedGeometry ==
  ASSUME NEW c \in Corners, NEW i, i = c.v, NEW g, g = StriderOf(Var(i), c.b, c.e)
  PROVE  /\ i \in DOMAIN Vs /\ GeometryOK(g) /\ g \in Geometries
         /\ CornerByte(Var(i), c.b) \in Nat
         /\ c.b = Nil => CornerByte(Var(i), c.b) = 0
         /\ c.b # Nil => IsIndex(Var(i), c.b)
         /\ IsRecord(Var(i)) =>
              /\ g.stripesize = Sizes[i] /\ g.stride = SlabSize
              /\ g.begin = (IF c.b = Nil THEN Var(i).begin ELSE OffsetOf(Var(i), c.b))
         /\ ~IsRecord(Var(i)) =>
              /\ Tracks(i, g, CornerByte(Var(i), c.b))
              /\ CornerByte(Var(i), c.b) + 1 <= Sizes[i]
<1> DEFINE v == Var(i)
           es == StorageSize[v.dtype]
           a == CornerByte(v, c.b)
           last == [k \in DOMAIN v.lengths |-> v.lengths[k] - 1]
           begin == IF c.b = Nil THEN v.begin ELSE OffsetOf(v, c.b)
           end == IF c.e # Nil THEN OffsetOf(v, c.e) + es
                  ELSE IF IsRecord(v) THEN 0 ELSE OffsetOf(v, last) + es
           z == IF IsRecord(v) THEN v.strides[1] ELSE end - begin
           d == IF IsRecord(v) THEN v.strides[2] ELSE end - begin
<1>1. g = [begin |-> begin, end |-> end, elemsz |-> es, stripesize |-> z, stride |-> d]
  BY DEF StriderOf
<1>2. /\ i \in DOMAIN Vs
      /\ c.b # Nil => IsIndex(v, c.b)
      /\ c.e # Nil => IsIndex(v, c.e)
      /\ end = 0 \/ begin < end
  <2>1. /\ i \in DOMAIN Vs /\ \A b \in {c.b, c.e} \ {Nil} : IsIndex(v, b)
        /\ g.end = 0 \/ g.begin < g.end
    BY CornersAssumption DEF Var, Vs
  <2> HIDE DEF begin, end, z, d, es, v
  <2>2. g.begin = begin /\ g.end = end
    BY <1>1
  <2> QED
    BY <2>1, <2>2
<1>3. Settled(i)
  BY <1>2, AllSettled
<1>4. /\ v.begin \in Nat /\ Sizes[i] = VSize(v) /\ Sizes[i] \in Nat \ {0} /\ es \in 1..8
      /\ RecordsOf[i] = (IF IsRecord(v) THEN Records ELSE 1)
      /\ Bytes[i] = 0..Sizes[i] * RecordsOf[i] - 1
      /\ IsRecord(v) => /\ v.strides[2] = SlabSize /\ SlabSize \in Nat \ {0}
                        /\ Sizes[i] <= SlabSize
  BY <1>3 DEF Settled
<1>5. c.b = Nil => a = 0
  <2> SUFFICES ASSUME c.b = <<>> PROVE a = 0
    BY DEF Nil
  <2>1. v.lengths \in Seq(Nat) /\ <<>> \in Seq(Nat) /\ Len(<<>>) = 0 /\ Len(<<>>) <= Len(v.lengths)
    BY <1>2, VariableStrides
  <2>2. \E e \in [0..Len(<<>>) -> Nat] : e[0] = 0 /\ CornerByte(v, <<>>) = es * e[Len(<<>>)]
    BY <2>1, CornerRecursion, ZenonT(60)
  <2>3. CornerByte(v, <<>>) = es * 0
    BY <2>1, <2>2
  <2> QED
    BY <1>4, <2>3
<1>6. c.e # Nil => OffsetOf(v, c.e) \in Nat
  BY <1>2, IndexVector
<1>7. ~IsRecord(v) => /\ a \in Nat /\ a + es <= Sizes[i]
                      /\ begin = v.begin + a
                      /\ end \in Nat \ {0} /\ end <= v.begin + Sizes[i]
  <2> SUFFICES ASSUME ~IsRecord(v)
               PROVE  /\ a \in Nat /\ a + es <= Sizes[i]
                      /\ begin = v.begin + a
                      /\ end \in Nat \ {0} /\ end <= v.begin + Sizes[i]
    OBVIOUS
  <2>1. /\ IsIndex(v, last)
    <3>1. /\ v.lengths \in Seq(Nat) /\ Len(v.lengths) \in Nat /\ DOMAIN v.lengths = 1..Len(v.lengths)
          /\ \A k \in 1..Len(v.lengths) : v.lengths[k] # 0
      BY <1>2, VariableStrides
    <3> HIDE DEF v
    <3>2. \A k \in 1..Len(v.lengths) : v.lengths[k] \in Nat /\ v.lengths[k] - 1 \in Nat
      BY <3>1
    <3>3. last \in Seq(Nat) /\ Len(last) = Len(v.lengths)
      BY <3>1, <3>2
    <3>4. \A k \in 1..Len(v.lengths) : last[k] < v.lengths[k]
      BY <3>1, <3>2
    <3> HIDE DEF last
    <3> QED
      BY <3>1, <3>3, <3>4 DEF IsIndex
  <2>2. \A b : IsIndex(v, b) => /\ CornerByte(v, b) \in Nat
                               /\ OffsetOf(v, b) = v.begin + CornerByte(v, b)
                               /\ CornerByte(v, b) + es <= Sizes[i]
    BY <1>2, IndexVector
  <2> HIDE DEF last
  <2>3. end \in Nat \ {0} /\ end <= v.begin + Sizes[i]
    <3>1. CASE c.e # Nil
      <4>1. end = OffsetOf(v, c.e) + es
        BY <3>1
      <4> HIDE DEF end, v, es
      <4> QED
        BY <1>2, <1>4, <2>2, <3>1, <4>1, SMTT(60)
    <3>2. CASE c.e = Nil
      <4>1. end = OffsetOf(v, last) + es
        BY <3>2
      <4> HIDE DEF end, v, es
      <4> QED
        BY <1>4, <2>1, <2>2, <4>1, SMTT(60)
    <3> QED
      BY <3>1, <3>2
  <2>4. a \in Nat /\ a + es <= Sizes[i] /\ begin = v.begin + a
    <3>1. CASE c.b # Nil
      <4>1. begin = OffsetOf(v, c.b)
        BY <3>1
      <4> HIDE DEF begin, end, v, es
      <4> QED
        BY <1>2, <2>2, <3>1, <4>1
    <3>2. CASE c.b = Nil
      <4>1. begin = v.begin /\ a = 0
        BY <1>5, <3>2
      <4>2. es <= Sizes[i]
        <5>1. CornerByte(v, last) \in Nat /\ CornerByte(v, last) + es <= Sizes[i]
          BY <2>1, <2>2
        <5> HIDE DEF es
        <5> QED
          BY <1>4, <5>1
      <4> HIDE DEF a, begin, es, v
      <4> QED
        BY <1>4, <4>1, <4>2
    <3> QED
      BY <3>1, <3>2
  <2> QED
    BY <2>3, <2>4
<1>8. a \in Nat
  <2>1. CASE c.b = Nil
    BY <1>5, <2>1
  <2>2. CASE c.b # Nil
    <3>1. c.b \in Seq(Nat) /\ Len(c.b) <= Len(v.lengths) /\ Len(c.b) \in Nat
      BY <1>2, <2>2, IndexVector
    <3>2. v.lengths \in Seq(Nat)
      BY <1>2, VariableStrides
    <3>3. PICK e \in [0..Len(c.b) -> Nat] : a = es * e[Len(c.b)]
      BY <3>1, <3>2, CornerRecursion
    <3>4. \A x, y \in Nat : x * y \in Nat
      BY Z3T(30)
    <3> HIDE DEF a, es
    <3>5. e[Len(c.b)] \in Nat /\ es \in Nat
      BY <1>4, <3>1
    <3> QED
      BY <3>3, <3>4, <3>5
  <2> QED
    BY <2>1, <2>2
<1>9. /\ end \in Nat /\ begin \in Nat
      /\ IsRecord(v) => z = Sizes[i] /\ d = SlabSize
      /\ ~IsRecord(v) => z = end - begin /\ d = z
  <2>1. IsRecord(v) => end \in Nat
    BY <1>4, <1>6
  <2>2. IsRecord(v) => begin \in Nat
    BY <1>2, <1>4, IndexVector
  <2>3. IsRecord(v) => z = Sizes[i] /\ d = SlabSize
    BY <1>4 DEF VSize
  <2>4. ~IsRecord(v) => z = end - begin /\ d = z
    OBVIOUS
  <2> HIDE DEF end, begin, z, d
  <2> QED
    BY <1>4, <1>7, <2>1, <2>2, <2>3, <2>4
<1> HIDE DEF begin, end, z, d, a, es, last
<1>10. /\ g.begin = begin /\ g.end = end /\ g.elemsz = es /\ g.stripesize = z /\ g.stride = d
       /\ es \in Nat \ {0}
  BY <1>1, <1>4
<1>11. z \in Nat \ {0} /\ d \in Nat /\ z <= d
  <2>1. CASE IsRecord(v)
    BY <1>4, <1>9, <2>1
  <2>2. CASE ~IsRecord(v)
    BY <1>2, <1>7, <1>9, <2>2
  <2> QED
    BY <2>1, <2>2
<1>12. GeometryOK(g)
  BY <1>9, <1>10, <1>11 DEF GeometryOK
<1>13. g \in Geometries
  BY <1>1, <1>9, <1>10, <1>11 DEF Geometries
<1>14. ~IsRecord(v) => Tracks(i, g, a) /\ a + 1 <= Sizes[i]
  <2> SUFFICES ASSUME ~IsRecord(v) PROVE Tracks(i, g, a) /\ a + 1 <= Sizes[i]
    OBVIOUS
  <2>1. /\ g.begin = v.begin + a /\ g.stride = g.stripesize
        /\ g.end > 0 /\ g.end <= v.begin + Sizes[i]
    <3>1. end > 0
      BY <1>7
    <3> QED
      BY <1>7, <1>9, <1>10, <3>1
  <2>2. Tracks(i, g, a)
    BY <1>2, <1>8, <1>12, <2>1 DEF Tracks
  <2>3. a + es <= Sizes[i]
    BY <1>7
  <2> QED
    BY <1>4, <1>8, <2>2, <2>3
<1>15. IsRecord(v) => g.stripesize = Sizes[i] /\ g.stride = SlabSize
  BY <1>9, <1>10
<1>16. g.begin = (IF c.b = Nil THEN v.begin ELSE OffsetOf(v, c.b))
  BY <1>10 DEF begin
<1> QED
  BY <1>2, <1>5, <1>8, <1>12, <1>13, <1>14, <1>15, <1>16 DEF a

\* A strider that is opened at an aligned corner goes through its variable.
LEMMA Opened ==
  ASSUME CornersAligned, NEW c \in Corners, NEW i, i = c.v, NEW g, g = StriderOf(Var(i), c.b, c.e)
  PROVE  /\ Tracks(i, g, CornerByte(Var(i), c.b))
         /\ CornerByte(Var(i), c.b) \in Bytes[i]
<1> DEFINE v == Var(i)
           a == CornerByte(v, c.b)
           begin == IF c.b = Nil THEN v.begin ELSE OffsetOf(v, c.b)
<1>1. /\ i \in DOMAIN Vs /\ GeometryOK(g) /\ a \in Nat
      /\ c.b = Nil => a = 0
      /\ c.b # Nil => IsIndex(v, c.b)
      /\ IsRecord(v) => g.stripesize = Sizes[i] /\ g.stride = SlabSize /\ g.begin = begin
      /\ ~IsRecord(v) => Tracks(i, g, a) /\ a + 1 <= Sizes[i]
  BY OpenedGeometry
<1>2. /\ v.begin \in Nat /\ Sizes[i] \in Nat \ {0}
      /\ RecordsOf[i] = (IF IsRecord(v) THEN Records ELSE 1)
      /\ Bytes[i] = 0..Sizes[i] * RecordsOf[i] - 1
      /\ IsRecord(v) => SlabSize \in Nat
  BY <1>1, AllSettled DEF Settled
<1>3. IsRecord(v) => \E r \in 0..Records-1 :
                       a = r * Sizes[i] /\ begin = v.begin + r * SlabSize
  <2> SUFFICES ASSUME IsRecord(v)
               PROVE \E r \in 0..Records-1 : a = r * Sizes[i] /\ begin = v.begin + r * SlabSize
    OBVIOUS
  <2>1. CASE c.b # Nil
    <3>1. \A k \in DOMAIN c.b : k > 1 => c.b[k] = 0
      BY DEF CornersAligned
    <3>2. /\ c.b[1] \in 0..Records-1 /\ OffsetOf(v, c.b) = v.begin + c.b[1] * SlabSize
          /\ a = c.b[1] * Sizes[i]
      BY <1>1, <2>1, <3>1, IndexVector
    <3>3. begin = OffsetOf(v, c.b)
      BY <2>1
    <3> HIDE DEF begin, a, v
    <3> QED
      BY <3>2, <3>3
  <2>2. CASE c.b = Nil
    <3>1. begin = v.begin /\ a = 0
      BY <1>1, <2>2
    <3>2. 0 \in 0..Records-1
      BY CdfFileAssumption
    <3>3. 0 * Sizes[i] = 0 /\ 0 * SlabSize = 0
      BY <1>2
    <3> HIDE DEF begin, a
    <3>4. begin = v.begin + 0
      BY <1>2, <3>1
    <3> QED
      BY <3>1, <3>2, <3>3, <3>4
  <2> QED
    BY <2>1, <2>2
<1>4. a \in Bytes[i]
  <2>1. CASE IsRecord(v)
    <3> HIDE DEF begin, a
    <3>1. PICK r \in 0..Records-1 : a = r * Sizes[i]
      BY <1>3, <2>1
    <3>2. Bytes[i] = 0..Sizes[i] * Records - 1 /\ Records \in Nat
      BY <1>2, <2>1, CdfFileAssumption
    <3> DEFINE x == Sizes[i]
    <3> HIDE DEF x
    <3>3. r \in Nat /\ x \in Nat \ {0} /\ Records - r - 1 \in Nat /\ Records = r + 1 + (Records - r - 1)
      BY <1>2, <3>1, <3>2 DEF x
    <3>4. \A k \in Nat : x * (r + 1 + k) = r * x + x + k * x /\ k * x \in Nat /\ r * x \in Nat
      BY <3>3, Z3T(30)
    <3>5. PICK k \in Nat : Records = r + 1 + k
      BY <3>3
    <3> DEFINE y == r * x
               w == k * x
    <3>6. x * Records = y + x + w /\ w \in Nat /\ y \in Nat
      BY <3>4, <3>5
    <3>7. a = y
      BY <3>1 DEF x
    <3> HIDE DEF y, w
    <3> QED
      BY <3>2, <3>3, <3>6, <3>7 DEF x
  <2>2. CASE ~IsRecord(v)
    <3>1. Bytes[i] = 0..Sizes[i] - 1
      BY <1>2, <2>2
    <3>2. a \in Nat /\ a + 1 <= Sizes[i] /\ Sizes[i] \in Nat
      BY <1>1, <1>2, <2>2
    <3> HIDE DEF a
    <3>3. a \in 0..Sizes[i] - 1
      BY <3>2
    <3> QED
      BY <3>1, <3>3
  <2> QED
    BY <2>1, <2>2
<1>5. Tracks(i, g, a)
  <2>1. CASE IsRecord(v)
    <3> HIDE DEF begin, a, v
    <3> QED
      BY <1>1, <1>3, <2>1 DEF Tracks, v
  <2>2. CASE ~IsRecord(v)
    BY <1>1, <2>2
  <2> QED
    BY <2>1, <2>2
<1> QED
  BY <1>4, <1>5 DEF a

\* The bytes of variable i that are followed, as a bound on the bytes moved.
Extent(i) == Sizes[i] * RecordsOf[i]

\* A strider that has moved m bytes with left more to move is asked to move at most
\* Chunk; when nr of these have moved, they were bytes a+m ... of its variable, where
\* it stood, and cursor and stripe end are those of m + nr bytes.
LEMMA Transfer ==
  ASSUME NEW i, NEW g, NEW a, Tracks(i, g, a), NEW m \in Nat, a + m <= Extent(i),
         NEW left \in Nat, IsRecord(Var(i)) => a + m + left <= Extent(i),
         NEW nr \in Nat, nr <= Chunk(g, Pos(g, m), Stop(g, m), left)
  PROVE  /\ nr <= left /\ nr <= Sizes[i]
         /\ a + m + nr <= Extent(i)
         /\ \A x \in 0..nr-1 : /\ a + m + x \in Bytes[i] /\ Place[i][a + m + x] = Pos(g, m) + x
         /\ Pos(g, m) \in Nat
         /\ Advance(g, Pos(g, m), Stop(g, m), nr) = Pos(g, m + nr)
         /\ NextEnd(g, Pos(g, m), Stop(g, m), nr) = Stop(g, m + nr)
<1> DEFINE c == Pos(g, m)
           se == Stop(g, m)
<1>1. GeometryOK(g) /\ a \in Nat /\ i \in DOMAIN Vs /\ Settled(i)
  BY AllSettled DEF Tracks
<1>2. c \in Nat /\ se \in Nat /\ c < se
  BY <1>1, PosTyped
<1>3. /\ nr <= left /\ c + nr <= se /\ (g.end > 0 => c + nr <= g.end)
  <2> HIDE DEF c, se
  <2>1. /\ Chunk(g, c, se, left) \in Int /\ Chunk(g, c, se, left) <= left
        /\ c + Chunk(g, c, se, left) <= se
        /\ g.end > 0 => c + Chunk(g, c, se, left) <= g.end
    BY <1>1, <1>2, ChunkFits
  <2>2. nr <= Chunk(g, c, se, left)
    BY DEF c, se
  <2>3. g.end \in Nat
    BY <1>1 DEF GeometryOK
  <2> QED
    BY <1>2, <2>1, <2>2, <2>3
<1>4. Advance(g, c, se, nr) = Pos(g, m + nr) /\ NextEnd(g, c, se, nr) = Stop(g, m + nr)
  BY <1>1, <1>3, AdvanceExact
<1>5. Extent(i) \in Nat /\ Bytes[i] = 0..Extent(i)-1 /\ Sizes[i] \in Nat \ {0}
  <2>1. /\ Sizes[i] \in Nat \ {0} /\ RecordsOf[i] = (IF IsRecord(Var(i)) THEN Records ELSE 1)
        /\ Bytes[i] = 0..Sizes[i] * RecordsOf[i] - 1 /\ Records \in Nat
    BY <1>1, CdfFileAssumption DEF Settled
  <2>2. RecordsOf[i] \in Nat
    BY <2>1
  <2>3. \A x, y \in Nat : x * y \in Nat
    BY Z3T(30)
  <2> QED
    BY <2>1, <2>2, <2>3 DEF Extent
<1>6. ~IsRecord(Var(i)) => /\ Extent(i) = Sizes[i] /\ c = g.begin + m
                           /\ g.begin = Var(i).begin + a /\ g.end > 0
                           /\ g.end <= Var(i).begin + Sizes[i]
                           /\ Var(i).begin \in Nat /\ g.end \in Nat
  <2> SUFFICES ASSUME ~IsRecord(Var(i))
               PROVE  /\ Extent(i) = Sizes[i] /\ c = g.begin + m
                      /\ g.begin = Var(i).begin + a /\ g.end > 0
                      /\ g.end <= Var(i).begin + Sizes[i]
                      /\ Var(i).begin \in Nat /\ g.end \in Nat
    OBVIOUS
  <2>1. /\ g.begin = Var(i).begin + a /\ g.stride = g.stripesize /\ g.end > 0
        /\ g.end <= Var(i).begin + Sizes[i] /\ g.stripesize \in Nat \ {0} /\ g.begin \in Nat
        /\ g.end \in Nat
    BY <1>1 DEF Tracks, GeometryOK
  <2>2. Extent(i) = Sizes[i] /\ Var(i).begin \in Nat
    BY <1>1, <1>5 DEF Settled, Extent
  <2> DEFINE x == (m \div g.stripesize) * g.stripesize
             y == m % g.stripesize
  <2>3. m = x + y /\ m \div g.stripesize \in Nat /\ y \in Nat
    <3>1. m = x + y /\ m \div g.stripesize \in Nat /\ y \in 0..g.stripesize-1
      BY <2>1, DivMod
    <3> HIDE DEF x, y
    <3> QED
      BY <3>1
  <2>4. x \in Nat
    <3>1. \A s, t \in Nat : s * t \in Nat
      BY Z3T(30)
    <3> QED
      BY <2>1, <2>3, <3>1
  <2>5. c = g.begin + x + y
    BY <2>1 DEF Pos
  <2> HIDE DEF x, y, c
  <2>6. c = g.begin + m
    BY <2>1, <2>3, <2>4, <2>5
  <2> QED
    BY <2>1, <2>2, <2>6
<1> HIDE DEF c, se
<1>7. a + m + nr <= Extent(i)
  <2>1. CASE IsRecord(Var(i))
    BY <1>1, <1>3, <1>5, <2>1
  <2>2. CASE ~IsRecord(Var(i))
    <3>1. c + nr <= g.end
      BY <1>3, <1>6, <2>2
    <3> QED
      BY <1>1, <1>2, <1>5, <1>6, <2>2, <3>1, SMTT(60)
  <2> QED
    BY <2>1, <2>2
<1>8. nr <= Sizes[i]
  <2>1. CASE IsRecord(Var(i))
    <3>1. g.stripesize = Sizes[i]
      BY <2>1 DEF Tracks
    <3>2. se <= c + g.stripesize
      <4>1. m % g.stripesize \in Nat /\ m \div g.stripesize \in Nat
        <5> DEFINE w == m % g.stripesize
        <5>1. w \in 0..g.stripesize-1 /\ m \div g.stripesize \in Nat
          BY <1>1, DivMod DEF GeometryOK
        <5> HIDE DEF w
        <5>2. w \in Nat
          BY <5>1
        <5> QED
          BY <5>1, <5>2 DEF w
      <4> DEFINE x == (m \div g.stripesize) * g.stride
      <4>2. x \in Nat
        <5>1. \A s, t \in Nat : s * t \in Nat
          BY Z3T(30)
        <5> QED
          BY <1>1, <4>1, <5>1 DEF GeometryOK
      <4>3. se = g.begin + x + g.stripesize /\ c = g.begin + x + (m % g.stripesize)
        BY DEF Pos, Stop, c, se
      <4> HIDE DEF x
      <4> QED
        BY <1>1, <4>1, <4>2, <4>3 DEF GeometryOK
    <3> QED
      BY <1>2, <1>3, <1>5, <3>1, <3>2
  <2>2. CASE ~IsRecord(Var(i))
    BY <1>1, <1>5, <1>6, <1>7, <2>2
  <2> QED
    BY <2>1, <2>2
<1>9. ASSUME NEW x \in 0..nr-1
      PROVE  a + m + x \in Bytes[i] /\ Place[i][a + m + x] = c + x
  <2>1. a + m + x \in Bytes[i]
    BY <1>1, <1>5, <1>7
  <2>2. x \in Nat /\ m + x \in Nat /\ a + (m + x) = a + m + x /\ c + x # se /\ c + x <= se
    BY <1>1, <1>2, <1>3
  <2>3. Place[i][a + (m + x)] = Pos(g, m + x)
    BY <2>1, <2>2, TracksPlace
  <2>4. Advance(g, c, se, x) = Pos(g, m + x)
    BY <1>1, <2>2, AdvanceExact DEF c, se
  <2>5. Advance(g, c, se, x) = c + x
    BY <2>2 DEF Advance
  <2> QED
    BY <2>1, <2>2, <2>3, <2>4, <2>5
<1> QED
  BY <1>2, <1>3, <1>4, <1>7, <1>8, <1>9 DEF c, se

-----------------------------------------------------------------------------
(* The storage.                                                            *)

\* A set of offsets is bounded.
Bounded(S) == S \subseteq Nat /\ \E b \in Nat : \A o \in S : o < b

\* The end of a file: behind the header and every byte that was written.
EndOf(S) == Max({DataBegin} \cup {o + 1 : o \in S})

\* The data begins behind the header.
LEMMA DataBeginTyped == DataBegin \in Nat
<1>1. Header \in Headers(Names, Names, Names)
  BY HeaderLaidOut
<1> QED
  BY <1>1, HeaderSizeGrows DEF DataBegin

\* It is the least such number.
LEMMA EndExact ==
  ASSUME NEW S, Bounded(S)
  PROVE  /\ EndOf(S) \in Nat /\ DataBegin <= EndOf(S) /\ \A o \in S : o < EndOf(S)
         /\ EndOf(S) = DataBegin \/ EndOf(S) - 1 \in S
<1> DEFINE U == {DataBegin} \cup {o + 1 : o \in S}
<1>1. PICK b \in Nat : \A o \in S : o < b
  BY DEF Bounded
<1>2. S \subseteq Nat
  BY DEF Bounded
<1>3. U \in SUBSET Nat /\ U # {} /\ \A x \in U : x <= b + DataBegin
  BY <1>1, <1>2, DataBeginTyped
<1>4. \E x \in U : \A y \in U : y <= x
  <2>1. b + DataBegin \in Nat
    BY DataBeginTyped
  <2> HIDE DEF U
  <2> QED
    BY <1>3, <2>1, GreatestNat
<1> DEFINE m == Max(U)
<1>5. m \in U /\ \A y \in U : y <= m
  <2> HIDE DEF U
  <2>1. \E x \in U : \A y \in U : x >= y
    BY <1>3, <1>4
  <2>2. m \in U /\ \A y \in U : m >= y
    BY <2>1 DEF Max
  <2>3. m \in Nat /\ \A y \in U : y \in Nat
    BY <1>3, <2>2
  <2> HIDE DEF m
  <2> QED
    BY <2>2, <2>3
<1>6. m = EndOf(S)
  BY DEF EndOf
<1> HIDE DEF m
<1>7. m \in Nat /\ DataBegin <= m
  BY <1>3, <1>5
<1>8. \A o \in S : o < m
  <2> TAKE o \in S
  <2>1. o + 1 <= m /\ o \in Nat
    BY <1>2, <1>5
  <2> QED
    BY <1>7, <2>1
<1>9. m = DataBegin \/ m - 1 \in S
  <2>1. m = DataBegin \/ \E o \in S : m = o + 1
    BY <1>5
  <2> QED
    BY <1>2, <2>1
<1> QED
  BY <1>6, <1>7, <1>8, <1>9

\* It only moves on when bytes are added.
LEMMA EndGrows ==
  ASSUME NEW S, NEW R, Bounded(S), Bounded(R), S \subseteq R
  PROVE  EndOf(S) <= EndOf(R)
<1>1. /\ EndOf(S) \in Nat /\ EndOf(R) \in Nat /\ DataBegin <= EndOf(R) /\ \A o \in R : o < EndOf(R)
      /\ EndOf(S) = DataBegin \/ EndOf(S) - 1 \in S
  BY EndExact
<1>2. CASE EndOf(S) = DataBegin
  BY <1>1, <1>2
<1>3. CASE EndOf(S) - 1 \in S
  <2>1. EndOf(S) - 1 < EndOf(R)
    BY <1>1, <1>3
  <2> QED
    BY <1>1, <2>1
<1> QED
  BY <1>1, <1>2, <1>3

\* What a storage t is after n bytes are written at offset c by who.
Put(t, c, n, who) ==
  [x \in DOMAIN t \cup (c..c+n-1) |-> IF x \in c..c+n-1 THEN who ELSE t[x]]

\* The storage operation of the model is a put at the cursor.
LEMMA WrittenPuts ==
  ASSUME NEW c, NEW n, NEW who
  PROVE  Written(c, n, who) = Put(store, c, n, who)
  BY DEF Written, Put

\* Writing adds offsets, and changes no other byte.
IsPut(t, c, n, who, u) ==
  /\ Bounded(DOMAIN u) /\ DOMAIN t \subseteq DOMAIN u
  /\ DOMAIN u = DOMAIN t \cup (c..c+n-1)
  /\ \A o \in c..c+n-1 : u[o] = who
  /\ \A o \in DOMAIN t : o \notin c..c+n-1 => u[o] = t[o]

\* A put does that, whatever was stored.
LEMMA PutExact ==
  ASSUME NEW t, NEW c \in Nat, NEW n \in Nat, NEW who, NEW u, Bounded(DOMAIN t),
         u = Put(t, c, n, who)
  PROVE  IsPut(t, c, n, who, u)
<1>1. DOMAIN u = DOMAIN t \cup (c..c+n-1)
  BY DEF Put
<1>2. \A o \in DOMAIN u : u[o] = IF o \in c..c+n-1 THEN who ELSE t[o]
  BY DEF Put
<1>3. Bounded(DOMAIN u)
  <2>1. PICK b \in Nat : \A o \in DOMAIN t : o < b
    BY DEF Bounded
  <2>2. DOMAIN t \subseteq Nat /\ c..c+n-1 \subseteq Nat
    BY DEF Bounded
  <2>3. \A o \in DOMAIN u : o \in Nat /\ o < b + c + n
    BY <1>1, <2>1, <2>2
  <2>4. b + c + n \in Nat /\ DOMAIN u \subseteq Nat
    BY <2>3
  <2> QED
    BY <2>3, <2>4 DEF Bounded
<1> QED
  BY <1>1, <1>2, <1>3 DEF IsPut

-----------------------------------------------------------------------------
(* The invariant that needs no hypothesis.                                 *)

\* The states of a strider.
Striders ==
  [v : Nat, geo : Geometries \cup {<<>>}, op : {"closed", "idle", "read", "write"},
   curr : Nat, left : Nat, se : Nat, start : Nat, moved : Nat]

\* The cursor and the stripe end of an open strider are those of the bytes moved.
Moving(s) ==
  /\ s.op # "closed" => /\ s.v \in DOMAIN Vs /\ s.geo \in Geometries /\ GeometryOK(s.geo)
                        /\ s.curr = Pos(s.geo, s.moved)
  /\ s.op \in {"read", "write"} => s.left > 0 /\ s.se = Stop(s.geo, s.moved)

\* What a fill has yet to write of record r of a variable: the rest of the record
\* with its padding, in whole elements.
Pending(q) ==
  /\ q \in [v : DOMAIN Vs, r : 0..Records-1, begin : Nat, end : Nat]
  /\ IsRecord(Var(q.v)) \/ q.r = 0
  /\ RecordBegin(Var(q.v), q.r) <= q.begin /\ q.begin < q.end
  /\ q.end = RecordBegin(Var(q.v), q.r) + Pad4(Sizes[q.v])
  /\ (q.end - q.begin) % StorageSize[Var(q.v).dtype] = 0

\* Offset o belongs to record r of variable i or to the padding behind it.
Within(o, i, r) ==
  /\ IsRecord(Var(i)) \/ r = 0
  /\ RecordBegin(Var(i), r) <= o /\ o < RecordBegin(Var(i), r) + Pad4(Sizes[i])

\* n records end within a file of fsize bytes.
Counted(n, fsize) ==
  (\E i \in DOMAIN Vs : IsRecord(Var(i))) /\ n > 0 => Slabs(Header).offs + n * SlabSize <= fsize

\* Written bytes have a writer, and what a fill has written lies in its record.
StoreOK(t) ==
  /\ Bounded(DOMAIN t)
  /\ \A o \in DOMAIN t : t[o] # Nobody
  /\ \A o \in DOMAIN t : \A i \in DOMAIN Vs : \A r \in 0..Records-1 :
       t[o] = Filling(i, r) => Within(o, i, r)

\* A file size that was read is not larger than the file of fsize bytes is now, and
\* the records that are counted lie in it.
CountOK(size, n, fsize) ==
  /\ size \in Nat \cup {-1} /\ size <= fsize
  /\ n \in {Streaming} \cup (0..CountLimit-1) /\ Counted(n, fsize)

\* The inductive invariant: cursors follow the bytes moved, fills stay within their
\* records, the storage is bounded and the record count is that of some earlier file size.
IInv ==
  /\ st \in [Handles -> Striders] /\ \A hd \in Handles : Moving(st[hd])
  /\ \A q \in ranges : Pending(q)
  /\ StoreOK(store)
  /\ CountOK(stat, numrecs, FileSize)

\* A loop iteration moves a strider on and leaves the rest of it alone.
LEMMA IteratedMoves ==
  ASSUME NEW s \in Striders, Moving(s), s.op \in {"read", "write"},
         NEW nr \in Nat, nr <= Nn(s), NEW e, NEW w, w = Iterated(s, nr, e)
  PROVE  /\ w \in Striders /\ Moving(w) /\ w.op # "closed"
         /\ w.v = s.v /\ w.geo = s.geo /\ w.start = s.start /\ w.moved = s.moved + nr
         /\ w.op \in {"read", "write"} => w.left = s.left - nr
<1> DEFINE g == s.geo
           m == s.moved
           c == Advance(g, s.curr, s.se, nr)
           more == LoopError(g, s.op, c, e) = "nil" /\ s.left > nr
           left == IF more THEN s.left - nr ELSE 0
           se == IF more THEN NextEnd(g, s.curr, s.se, nr) ELSE 0
           op == IF more THEN s.op ELSE "idle"
<1>1. w = [s EXCEPT !.curr = c, !.moved = m + nr, !.op = op, !.left = left, !.se = se]
  BY DEF Iterated
<1>2. /\ s.v \in DOMAIN Vs /\ g \in Geometries /\ GeometryOK(g) /\ s.curr = Pos(g, m)
      /\ s.left > 0 /\ s.se = Stop(g, m) /\ m \in Nat /\ s.left \in Nat /\ s.curr \in Nat /\ s.se \in Nat
  BY DEF Moving, Striders
<1>3. /\ nr <= s.left /\ Pos(g, m) + nr <= Stop(g, m)
  <2>1. /\ Chunk(g, s.curr, s.se, s.left) \in Int /\ Chunk(g, s.curr, s.se, s.left) <= s.left
        /\ s.curr + Chunk(g, s.curr, s.se, s.left) <= s.se
    BY <1>2, ChunkFits
  <2>2. nr <= Chunk(g, s.curr, s.se, s.left)
    BY DEF Nn
  <2> HIDE DEF g, m
  <2> QED
    BY <1>2, <2>1, <2>2
<1>4. c = Pos(g, m + nr) /\ NextEnd(g, s.curr, s.se, nr) = Stop(g, m + nr)
  BY <1>2, <1>3, AdvanceExact
<1>5. c \in Nat /\ Stop(g, m + nr) \in Nat /\ m + nr \in Nat
  BY <1>2, <1>4, PosTyped
<1>6. left \in Nat /\ se \in Nat /\ op \in {"closed", "idle", "read", "write"}
  BY <1>2, <1>4, <1>5
<1>7. op \in {"read", "write"} => left > 0 /\ left = s.left - nr /\ se = Stop(g, m + nr)
  BY <1>2, <1>4
<1>8. op # "closed"
  OBVIOUS
<1> HIDE DEF c, left, se, op
<1>9. /\ w \in Striders /\ w.v = s.v /\ w.geo = s.geo /\ w.start = s.start /\ w.moved = m + nr
      /\ w.op = op /\ w.left = left /\ w.se = se /\ w.curr = c
  BY <1>1, <1>5, <1>6, ZenonT(60) DEF Striders
<1>10. Moving(w)
  BY <1>2, <1>4, <1>7, <1>9 DEF Moving
<1> QED
  BY <1>7, <1>8, <1>9, <1>10

\* Opening, calling and giving up on a call.
LEMMA OpenMoves ==
  ASSUME NEW c \in Corners, NEW g, g = StriderOf(Var(c.v), c.b, c.e), NEW w,
         w = [v |-> c.v, geo |-> g, op |-> "idle", curr |-> g.begin, left |-> 0, se |-> 0,
              start |-> CornerByte(Var(c.v), c.b), moved |-> 0]
  PROVE  /\ w \in Striders /\ Moving(w)
         /\ w.op = "idle" /\ w.v = c.v /\ w.geo = g /\ w.moved = 0
         /\ w.start = CornerByte(Var(c.v), c.b)
<1>1. /\ c.v \in DOMAIN Vs /\ GeometryOK(g) /\ g \in Geometries
      /\ CornerByte(Var(c.v), c.b) \in Nat
  BY OpenedGeometry
<1> DEFINE a == CornerByte(Var(c.v), c.b)
<1> HIDE DEF a
<1>2. g.begin \in Nat /\ c.v \in Nat /\ a \in Nat
  BY <1>1, HeaderLaidOut DEF GeometryOK, a
<1>3. w = [v |-> c.v, geo |-> g, op |-> "idle", curr |-> g.begin, left |-> 0, se |-> 0,
           start |-> a, moved |-> 0]
  BY DEF a
<1>4. /\ w \in Striders /\ w.v = c.v /\ w.geo = g /\ w.op = "idle" /\ w.curr = g.begin
      /\ w.start = a /\ w.moved = 0
  BY <1>1, <1>2, <1>3 DEF Striders
<1>5. Pos(g, 0) = g.begin
  <2>1. g.stripesize \in Nat \ {0} /\ g.stride \in Nat
    BY <1>1 DEF GeometryOK
  <2>2. 0 \div g.stripesize = 0 /\ 0 % g.stripesize = 0
    <3>1. 0 \in Nat /\ 0 \in 0..g.stripesize-1 /\ 0 * g.stripesize + 0 = 0
      BY <2>1
    <3>2. (0 * g.stripesize + 0) \div g.stripesize = 0 /\ (0 * g.stripesize + 0) % g.stripesize = 0
      BY <2>1, <3>1, DivUnique
    <3> QED
      BY <3>1, <3>2
  <2>3. Pos(g, 0) = g.begin + 0 * g.stride + 0
    BY <2>2 DEF Pos
  <2>4. 0 * g.stride = 0
    BY <2>1
  <2> QED
    BY <1>2, <2>3, <2>4
<1>6. Moving(w)
  BY <1>1, <1>4, <1>5 DEF Moving
<1> QED
  BY <1>4, <1>6 DEF a

\* A strider on which a call of n elements begins.
CalledOn(s, op, n) ==
  [s EXCEPT !.op = op, !.left = n * s.geo.elemsz, !.se = StripeEnd(s.geo, s.curr)]

\* Beginning a call sets the stripe end the loop needs.
LEMMA CallMoves ==
  ASSUME NEW s \in Striders, NEW op \in {"read", "write"}, NEW n \in Counts, NEW w,
         Moving(s), s.op = "idle", w = CalledOn(s, op, n)
  PROVE  /\ w \in Striders /\ Moving(w) /\ w.op = op
         /\ w.v = s.v /\ w.geo = s.geo /\ w.start = s.start /\ w.moved = s.moved
         /\ w.left = n * s.geo.elemsz
<1> DEFINE g == s.geo
           left == n * g.elemsz
           se == StripeEnd(g, s.curr)
<1>1. /\ s.v \in DOMAIN Vs /\ g \in Geometries /\ GeometryOK(g) /\ s.curr = Pos(g, s.moved)
      /\ s.moved \in Nat
  BY DEF Moving, Striders
<1>2. left \in Nat \ {0}
  <2>1. n \in Nat \ {0} /\ g.elemsz \in Nat \ {0}
    BY <1>1, CdfFileAssumption DEF GeometryOK
  <2>2. \A x, y \in Nat \ {0} : x * y \in Nat \ {0}
    BY Z3T(30)
  <2> QED
    BY <2>1, <2>2
<1>3. se = Stop(g, s.moved) /\ se \in Nat
  BY <1>1, StripeEndExact, PosTyped
<1> HIDE DEF left, se
<1>4. w = [s EXCEPT !.op = op, !.left = left, !.se = se]
  BY DEF left, se, CalledOn
<1>5. /\ w \in Striders /\ w.op = op /\ w.left = left /\ w.se = se
      /\ w.v = s.v /\ w.geo = s.geo /\ w.start = s.start /\ w.moved = s.moved /\ w.curr = s.curr
  BY <1>2, <1>3, <1>4 DEF Striders
<1>6. Moving(w)
  BY <1>1, <1>2, <1>3, <1>5 DEF Moving
<1> QED
  BY <1>5, <1>6 DEF left

\* A panic in the loop ends the call and leaves the cursor where it was.
LEMMA PanicMoves ==
  ASSUME NEW s \in Striders, Moving(s), s.op # "closed",
         NEW w, w = [s EXCEPT !.op = "idle", !.left = 0, !.se = 0]
  PROVE  /\ w \in Striders /\ Moving(w) /\ w.op = "idle"
         /\ w.v = s.v /\ w.geo = s.geo /\ w.start = s.start /\ w.moved = s.moved
<1>1. /\ w \in Striders /\ w.op = "idle"
      /\ w.v = s.v /\ w.geo = s.geo /\ w.start = s.start /\ w.moved = s.moved /\ w.curr = s.curr
  BY DEF Striders
<1> QED
  BY <1>1 DEF Moving

-----------------------------------------------------------------------------
(* Fills.                                                                  *)

\* The sizes of elements.
LEMMA ElementIs == ASSUME NEW i \in DOMAIN Vs PROVE StorageSize[Var(i).dtype] \in {1, 2, 4, 8}
<1>1. Var(i) \in Variables(Names, Names)
  BY HeaderLaidOut DEF Var
<1>2. Var(i).dtype \in {"BYTE", "CHAR", "SHORT", "INT", "FLOAT", "DOUBLE"}
  BY <1>1 DEF Variables, StorageSize
<1> QED
  BY <1>2 DEF StorageSize

\* Records are made of whole elements, padded records as well.
LEMMA WholeElements ==
  ASSUME NEW i \in DOMAIN Vs
  PROVE  Pad4(Sizes[i]) % StorageSize[Var(i).dtype] = 0 /\ Pad4(Sizes[i]) \in Nat /\ Sizes[i] <= Pad4(Sizes[i])
<1> DEFINE v == Var(i)
           es == StorageSize[v.dtype]
           n == Len(v.lengths)
<1>1. PICK s : LaidOutStrides(v, s)
  BY VariableStrides
<1>2. /\ n \in Nat /\ s \in Seq(Nat) /\ Len(s) = n + 1 /\ s[n + 1] = es
      /\ \A k \in 1..n : s[k] = v.lengths[k] * s[k + 1] /\ v.lengths[k] \in Nat
      /\ IsRecord(v) => n > 0 /\ v.strides[1] = s[2]
      /\ ~IsRecord(v) => v.strides = s
  <2>1. /\ v.lengths \in Seq(Nat) /\ s \in Seq(Nat) /\ Len(s) = n + 1 /\ s[Len(s)] = es
        /\ \A k \in 1..n : s[k] = v.lengths[k] * s[k + 1]
        /\ IsRecord(v) => n > 0 /\ v.strides[1] = s[2]
        /\ ~IsRecord(v) => v.strides = s
    BY <1>1 DEF LaidOutStrides
  <2>2. n \in Nat
    BY <2>1
  <2>3. \A k \in 1..n : v.lengths[k] \in Nat
    <3> DEFINE ls == v.lengths
    <3>1. ls \in Seq(Nat) /\ n = Len(ls)
      BY <2>1
    <3> HIDE DEF n, ls
    <3> QED
      <4>1. \A k \in 1..n : ls[k] \in Nat
        BY <3>1
      <4> QED
        BY <4>1 DEF ls
  <2>4. s[n + 1] = es
    BY <2>1
  <2> HIDE DEF n, es, v
  <2> QED
    BY <2>1, <2>2, <2>3, <2>4
<1>3. es \in {1, 2, 4, 8} /\ Sizes[i] = v.strides[1] /\ Sizes[i] \in Nat
  BY ElementIs, AllSettled DEF Settled, VSize
<1> HIDE DEF n, es
<1> DEFINE T == {m \in Nat : m <= n => s[n + 1 - m] \in Nat /\ s[n + 1 - m] % es = 0}
<1>4. 0 \in T
  <2>1. s[n + 1 - 0] = es /\ es \in Nat /\ es % es = 0
    BY <1>2, <1>3
  <2> QED
    BY <2>1
<1>5. ASSUME NEW m \in Nat, m \in T PROVE m + 1 \in T
  <2> DEFINE k == n - m
  <2> SUFFICES ASSUME m + 1 <= n PROVE s[n + 1 - (m + 1)] \in Nat /\ s[n + 1 - (m + 1)] % es = 0
    OBVIOUS
  <2>1. /\ k \in 1..n /\ n + 1 - (m + 1) = k /\ n + 1 - m = k + 1
    BY <1>2
  <2>2. s[k + 1] \in Nat /\ s[k + 1] % es = 0
    BY <1>2, <1>5, <2>1
  <2>3. s[k] = v.lengths[k] * s[k + 1] /\ v.lengths[k] \in Nat
    BY <1>2, <2>1
  <2>4. \A x, y \in Nat : y % es = 0 => x * y \in Nat /\ (x * y) % es = 0
    <3> TAKE x, y \in Nat
    <3> HAVE y % es = 0
    <3> DEFINE q == y \div es
    <3>1. q \in Nat /\ y = q * es
      BY <1>3
    <3> HIDE DEF q
    <3>2. es \in Nat \ {0} /\ x * q \in Nat
      BY <1>3, <3>1, Z3T(30)
    <3>3. x * y = (x * q) * es + 0
      BY <3>1, <3>2, Z3T(30)
    <3>4. 0 \in 0..es-1
      BY <3>2
    <3>5. ((x * q) * es + 0) % es = 0
      BY <3>2, <3>4, DivUnique
    <3>6. x * y \in Nat
      BY Z3T(30)
    <3> QED
      BY <3>3, <3>5, <3>6
  <2> HIDE DEF k
  <2>5. s[k] \in Nat /\ s[k] % es = 0
    BY <2>2, <2>3, <2>4
  <2> QED
    BY <2>1, <2>5
<1>6. \A m \in Nat : m \in T
  <2> HIDE DEF T
  <2> QED
    BY <1>4, <1>5, SetInduction
<1>7. Sizes[i] % es = 0
  <2>1. CASE IsRecord(v)
    <3>1. n - 1 \in Nat /\ n - 1 <= n /\ n + 1 - (n - 1) = 2
      BY <1>2, <1>6, <2>1
    <3>2. n - 1 \in T
      <4> HIDE DEF T
      <4> QED
        BY <1>6, <3>1
    <3>3. s[n + 1 - (n - 1)] % es = 0
      BY <3>1, <3>2
    <3>4. s[2] % es = 0
      BY <3>1, <3>3
    <3> QED
      BY <1>2, <1>3, <2>1, <3>4
  <2>2. CASE ~IsRecord(v)
    <3>1. n \in Nat /\ n <= n /\ n + 1 - n = 1
      BY <1>2, <1>6, <2>2
    <3>2. n \in T
      <4> HIDE DEF T
      <4> QED
        BY <1>6, <3>1
    <3>3. s[n + 1 - (n)] % es = 0
      BY <3>1, <3>2
    <3>4. s[1] % es = 0
      BY <3>1, <3>3
    <3> QED
      BY <1>2, <1>3, <2>2, <3>4
  <2> QED
    BY <2>1, <2>2
<1>8. \A x \in Nat : x % es = 0 => Pad4(x) % es = 0 /\ Pad4(x) \in Nat /\ x <= Pad4(x)
  BY <1>3 DEF Pad4
<1> QED
  BY <1>3, <1>7, <1>8 DEF es

\* A fill begins with a whole record.
LEMMA FillPending ==
  ASSUME NEW i \in DOMAIN Vs, NEW r \in 0..Records-1, IsRecord(Var(i)) \/ r = 0
  PROVE  Pending(FillRange(i, r))
<1> DEFINE v == Var(i)
           begin == RecordBegin(v, r)
           q == FillRange(i, r)
<1>1. v.begin \in Nat /\ Sizes[i] \in Nat \ {0} /\ (IsRecord(v) => v.strides[2] = SlabSize /\ SlabSize \in Nat \ {0})
  BY AllSettled DEF Settled
<1>2. Pad4(Sizes[i]) % StorageSize[v.dtype] = 0 /\ Pad4(Sizes[i]) \in Nat /\ Sizes[i] <= Pad4(Sizes[i])
  BY WholeElements
<1>3. Records \in Nat /\ r \in Nat
  BY CdfFileAssumption
<1>4. begin \in Nat
  BY <1>3, HeaderLaidOut, RecordBeginTyped DEF Var, Vs
<1>5. ByteOffset(v, 0, 0) + r * SlabSize = begin
  <2>1. CASE IsRecord(v)
    <3>1. 0 * SlabSize = 0 /\ r * SlabSize \in Nat
      <4>1. \A x, y \in Nat : x * y \in Nat
        BY Z3T(30)
      <4> QED
        BY <1>1, <1>3, <2>1, <4>1
    <3>2. ByteOffset(v, 0, 0) = v.begin + 0 * SlabSize + 0 /\ begin = v.begin + r * SlabSize
      BY <1>1, <2>1 DEF ByteOffset, RecordBegin
    <3> DEFINE x == r * SlabSize
    <3> HIDE DEF x, begin
    <3> QED
      BY <1>1, <3>1, <3>2 DEF x
  <2>2. CASE ~IsRecord(v)
    <3>1. SlabSize \in Int
      <4>1. CASE \E j \in DOMAIN Vs : IsRecord(Var(j))
        BY <4>1, AllSettled DEF Settled
      <4>2. CASE ~\E j \in DOMAIN Vs : IsRecord(Var(j))
        BY <4>2 DEF SlabSize, Slabs, Var, Vs
      <4> QED
        BY <4>1, <4>2
    <3>2. r = 0 /\ 0 * SlabSize = 0
      BY <2>2, <3>1
    <3>3. ByteOffset(v, 0, 0) = v.begin + 0 + 0 /\ begin = v.begin + 0
      BY <2>2 DEF ByteOffset, RecordBegin
    <3> QED
      BY <1>1, <3>2, <3>3
  <2> QED
    BY <2>1, <2>2
<1>6. q = [v |-> i, r |-> r, begin |-> begin, end |-> begin + Pad4(Sizes[i])]
  BY <1>5 DEF FillRange
<1> HIDE DEF begin
<1>7. /\ q.v = i /\ q.r = r /\ q.begin = begin /\ q.end = begin + Pad4(Sizes[i])
      /\ begin + Pad4(Sizes[i]) \in Nat
  BY <1>2, <1>4, <1>6
<1>8. q \in [v : DOMAIN Vs, r : 0..Records-1, begin : Nat, end : Nat]
  BY <1>4, <1>6, <1>7
<1>9. q.begin < q.end /\ q.end - q.begin = Pad4(Sizes[i]) /\ begin <= q.begin
  <2> DEFINE p == Pad4(Sizes[i])
  <2>1. p \in Nat \ {0}
    BY <1>1, <1>2
  <2>2. q.begin = begin /\ q.end = begin + p /\ begin \in Nat
    BY <1>4, <1>7
  <2> HIDE DEF q, p
  <2>3. q.begin < q.end /\ q.end - q.begin = p /\ begin <= q.begin
    BY <2>1, <2>2
  <2> QED
    BY <2>3 DEF p
<1> QED
  BY <1>2, <1>7, <1>8, <1>9 DEF Pending, begin

\* The range that is filled now is one of those there are.
LEMMA CurrentIn ==
  ASSUME NEW rs, rs # {}, \A q \in rs : Pending(q)
  PROVE  Current(rs) \in rs
<1> DEFINE U == {q.v : q \in rs}
<1>1. \A q \in rs : q.v \in DOMAIN Vs
  BY DEF Pending
<1>2. U \in SUBSET Nat /\ U # {}
  BY <1>1, HeaderLaidOut
<1>3. \E x \in U : \A y \in U : x <= y
  <2> HIDE DEF U
  <2> QED
    BY <1>2, LeastNat
<1>4. \E q \in rs : \A p \in rs : q.v <= p.v
  BY <1>3
<1> QED
  BY <1>4 DEF Current

\* An element of a range belongs to its record, and the rest is whole elements too.
LEMMA ElementPending ==
  ASSUME NEW q, Pending(q), NEW es, es = StorageSize[Var(q.v).dtype], NEW n \in Nat, n <= es
  PROVE  /\ q.begin \in Nat /\ es \in Nat
         /\ \A o \in q.begin..q.begin+n-1 : Within(o, q.v, q.r)
         /\ q.begin + es < q.end => Pending([q EXCEPT !.begin = @ + es])
<1>1. /\ q \in [v : DOMAIN Vs, r : 0..Records-1, begin : Nat, end : Nat]
      /\ IsRecord(Var(q.v)) \/ q.r = 0
      /\ RecordBegin(Var(q.v), q.r) <= q.begin /\ q.begin < q.end
      /\ q.end = RecordBegin(Var(q.v), q.r) + Pad4(Sizes[q.v])
      /\ (q.end - q.begin) % es = 0
  BY DEF Pending
<1>2. es \in {1, 2, 4, 8}
  BY <1>1, ElementIs
<1>3. RecordBegin(Var(q.v), q.r) \in Nat
  <2>1. q.r \in Nat
    BY <1>1, CdfFileAssumption
  <2> QED
    BY <1>1, <2>1, HeaderLaidOut, RecordBeginTyped DEF Var, Vs
<1>4. q.begin + es <= q.end
  BY <1>1, <1>2
<1>5. \A o \in q.begin..q.begin+n-1 : Within(o, q.v, q.r)
  <2> TAKE o \in q.begin..q.begin+n-1
  <2>1. o \in Int /\ q.begin <= o /\ o < q.end
    BY <1>1, <1>2, <1>4
  <2>2. RecordBegin(Var(q.v), q.r) <= o
    BY <1>1, <1>3, <2>1
  <2> QED
    BY <1>1, <2>1, <2>2 DEF Within
<1>6. ASSUME q.begin + es < q.end PROVE Pending([q EXCEPT !.begin = @ + es])
  <2> DEFINE w == [q EXCEPT !.begin = @ + es]
  <2>1. /\ w \in [v : DOMAIN Vs, r : 0..Records-1, begin : Nat, end : Nat]
        /\ w.v = q.v /\ w.r = q.r /\ w.begin = q.begin + es /\ w.end = q.end
    BY <1>1, <1>2
  <2> HIDE DEF w
  <2>2. w.begin < w.end /\ RecordBegin(Var(q.v), q.r) <= w.begin
    BY <1>1, <1>2, <1>3, <1>6, <2>1
  <2>3. (w.end - w.begin) % es = 0
    BY <1>1, <1>2, <2>1
  <2>4. Pending(w)
    BY <1>1, <2>1, <2>2, <2>3 DEF Pending
  <2> QED
    BY <2>4 DEF w
<1> QED
  BY <1>1, <1>2, <1>5, <1>6

\* A write by a handle, or by a fill in its record, leaves the storage in order.
LEMMA PutOK ==
  ASSUME NEW t, NEW c \in Nat, NEW n \in Nat, NEW who, NEW u, StoreOK(t), who # Nobody,
         \A i \in DOMAIN Vs : \A r \in 0..Records-1 :
           who = Filling(i, r) => \A o \in c..c+n-1 : Within(o, i, r),
         u = Put(t, c, n, who)
  PROVE  StoreOK(u) /\ EndOf(DOMAIN t) <= EndOf(DOMAIN u)
<1>1. Bounded(DOMAIN t)
  BY DEF StoreOK
<1>2. /\ Bounded(DOMAIN u) /\ DOMAIN t \subseteq DOMAIN u
      /\ DOMAIN u = DOMAIN t \cup (c..c+n-1)
      /\ \A o \in c..c+n-1 : u[o] = who
      /\ \A o \in DOMAIN t : o \notin c..c+n-1 => u[o] = t[o]
  <2>1. IsPut(t, c, n, who, u)
    BY <1>1, PutExact
  <2> QED
    BY <2>1 DEF IsPut
<1>3. \A o \in DOMAIN u : (o \in c..c+n-1 /\ u[o] = who) \/ (o \in DOMAIN t /\ u[o] = t[o])
  BY <1>2, Zenon
<1>4. \A o \in DOMAIN u : u[o] # Nobody
  BY <1>3 DEF StoreOK
<1>5. ASSUME NEW o \in DOMAIN u, NEW i \in DOMAIN Vs, NEW r \in 0..Records-1, u[o] = Filling(i, r)
      PROVE  Within(o, i, r)
  <2>1. CASE o \in c..c+n-1 /\ u[o] = who
    BY <1>5, <2>1
  <2>2. CASE o \in DOMAIN t /\ u[o] = t[o]
    BY <1>5, <2>2 DEF StoreOK
  <2> QED
    BY <1>3, <2>1, <2>2
<1>6. EndOf(DOMAIN t) <= EndOf(DOMAIN u)
  BY <1>1, <1>2, EndGrows
<1> QED
  BY <1>2, <1>4, <1>5, <1>6 DEF StoreOK

-----------------------------------------------------------------------------
(* The record count.                                                       *)

\* A file that grows keeps its records.
LEMMA CountKept ==
  ASSUME NEW size, NEW n, NEW f \in Nat, NEW g \in Nat, CountOK(size, n, f), f <= g
  PROVE  CountOK(size, n, g)
<1>1. size \in Nat \cup {-1} /\ size <= f /\ n \in {Streaming} \cup (0..CountLimit-1) /\ n \in Int
  BY CdfFileAssumption DEF CountOK, Streaming
<1>2. size <= g
  BY <1>1
<1>3. ASSUME \E i \in DOMAIN Vs : IsRecord(Var(i)), n > 0
      PROVE  Slabs(Header).offs + n * SlabSize <= g
  <2>1. SlabSize \in Nat /\ Slabs(Header).offs \in Nat
    BY <1>3, AllSettled DEF Settled
  <2>2. Slabs(Header).offs + n * SlabSize <= f
    BY <1>3 DEF CountOK, Counted
  <2>3. \A x, y \in Int : x * y \in Int
    BY Z3T(30)
  <2>4. n * SlabSize \in Int
    BY <1>1, <2>1, <2>3
  <2> DEFINE x == Slabs(Header).offs + n * SlabSize
  <2>5. x \in Int /\ x <= f
    BY <2>1, <2>2, <2>4
  <2> HIDE DEF x
  <2>6. x <= g
    BY <2>5
  <2> QED
    BY <2>6 DEF x
<1> QED
  BY <1>1, <1>2, <1>3 DEF CountOK, Counted

\* The slabs, once there is a record variable, and without.
LEMMA SlabsTyped ==
  /\ \A i \in DOMAIN Vs : IsRecord(Var(i)) =>
       SlabSize \in Nat \ {0} /\ Slabs(Header).offs \in Nat /\ Slabs(Header).size = SlabSize
  /\ (\A i \in DOMAIN Vs : ~IsRecord(Var(i))) => SlabSize = 0 /\ Slabs(Header).size = 0
<1>1. Slabs(Header).size = SlabSize
  BY DEF SlabSize
<1>2. ASSUME \A i \in DOMAIN Vs : ~IsRecord(Var(i)) PROVE SlabSize = 0
  BY <1>2 DEF SlabSize, Slabs, Var, Vs
<1> QED
  BY <1>1, <1>2, AllSettled DEF Settled

\* The records counted lie in the file, and no record that does is left out.
LEMMA CountExact ==
  ASSUME NEW f \in Nat
  PROVE  /\ NumRecs(Header, f) \in Nat /\ Counted(NumRecs(Header, f), f)
         /\ \A i \in DOMAIN Vs : \A n \in Nat :
              IsRecord(Var(i)) /\ Slabs(Header).offs + n * SlabSize <= f => n <= NumRecs(Header, f)
<1> DEFINE offs == Slabs(Header).offs
           d == SlabSize
           m == NumRecs(Header, f)
<1>1. CASE \A i \in DOMAIN Vs : ~IsRecord(Var(i))
  <2>1. m = 0
    BY <1>1, SlabsTyped DEF NumRecs
  <2> QED
    BY <1>1, <2>1 DEF Counted
<1>2. CASE \E i \in DOMAIN Vs : IsRecord(Var(i))
  <2>1. d \in Nat \ {0} /\ offs \in Nat /\ Slabs(Header).size = d
    BY <1>2, SlabsTyped
  <2>2. m = IF f < offs THEN 0 ELSE (f - offs) \div d
    BY <2>1 DEF NumRecs
  <2> HIDE DEF m, d, offs
  <2>3. CASE f < offs
    <3>1. m = 0
      BY <2>2, <2>3
    <3>2. \A n \in Nat : n * d \in Nat
      BY <2>1, Z3T(30)
    <3>3. \A n \in Nat : ~(offs + n * d <= f)
      <4> TAKE n \in Nat
      <4> DEFINE x == n * d
      <4>1. x \in Nat
        BY <3>2
      <4> HIDE DEF x
      <4>2. ~(offs + x <= f)
        BY <2>1, <2>3, <4>1
      <4> QED
        BY <4>2 DEF x
    <3>4. Counted(m, f)
      BY <3>1 DEF Counted
    <3> QED
      BY <3>1, <3>3, <3>4 DEF m, d, offs
  <2>4. CASE ~(f < offs)
    <3> DEFINE y == f - offs
    <3>1. y \in Nat /\ m = y \div d
      BY <2>1, <2>2, <2>4
    <3> HIDE DEF y
    <3>2. m \in Nat /\ y = m * d + (y % d) /\ y % d \in 0..d-1
      BY <2>1, <3>1, DivMod
    <3>3. \A n \in Nat : n * d \in Nat
      BY <2>1, Z3T(30)
    <3>4. offs + m * d <= f
      <4> DEFINE x == m * d
                 w == y % d
      <4>1. x \in Nat /\ w \in 0..d-1 /\ y = x + w
        BY <3>2, <3>3
      <4> HIDE DEF x, w
      <4>2. offs + x <= f
        BY <2>1, <2>4, <4>1 DEF y
      <4> QED
        BY <4>2 DEF x
    <3>5. ASSUME NEW n \in Nat, offs + n * d <= f PROVE n <= m
      <4> DEFINE x == n * d
      <4>1. x \in Nat /\ x = n * d
        BY <3>3
      <4>2. x \div d = n
        <5>1. 0 \in 0..d-1 /\ x = n * d + 0
          BY <2>1, <4>1
        <5>2. (n * d + 0) \div d = n
          BY <2>1, <5>1, DivUnique
        <5> QED
          BY <5>1, <5>2
      <4> HIDE DEF x
      <4>3. x <= y
        BY <2>1, <3>5, <4>1 DEF y
      <4>4. x \div d <= y \div d
        BY <2>1, <3>1, <4>1, <4>3, DivMonotone
      <4> QED
        BY <3>1, <4>2, <4>4
    <3>6. Counted(m, f)
      BY <3>4 DEF Counted, offs, d
    <3> QED
      BY <3>2, <3>5, <3>6 DEF m, offs, d
  <2> QED
    BY <2>3, <2>4
<1> QED
  BY <1>1, <1>2

-----------------------------------------------------------------------------
(* The steps keep the invariant.                                           *)

\* One strider changes.
OneMoves(hd, w) == st' = [st EXCEPT ![hd] = w]

\* If the one that changes keeps to its geometry, all of them do.
LEMMA StridersKept ==
  ASSUME st \in [Handles -> Striders], \A h \in Handles : Moving(st[h]),
         NEW hd \in Handles, NEW w \in Striders, Moving(w), OneMoves(hd, w)
  PROVE  /\ st' \in [Handles -> Striders] /\ \A h \in Handles : Moving(st'[h])
         /\ st'[hd] = w /\ \A h \in Handles \ {hd} : st'[h] = st[h]
<1>1. /\ st' \in [Handles -> Striders]
      /\ st'[hd] = w /\ \A h \in Handles \ {hd} : st'[h] = st[h]
  BY DEF OneMoves
<1>2. \A h \in Handles : st'[h] = w \/ st'[h] = st[h]
  BY <1>1
<1> QED
  BY <1>1, <1>2

\* The strider that is opened, field by field.
ClosedTo(i, g, x, a) == [Closed EXCEPT !.v = i, !.geo = g, !.op = "idle", !.curr = x, !.start = a]

\* Opening sets those fields and no other.
LEMMA ClosedOpens ==
  ASSUME NEW i, NEW g, NEW x, NEW a
  PROVE  [v |-> i, geo |-> g, op |-> "idle", curr |-> x, left |-> 0, se |-> 0,
          start |-> a, moved |-> 0]
           = ClosedTo(i, g, x, a)
<1> DEFINE r == [v |-> i, geo |-> g, op |-> "idle", curr |-> x, left |-> 0, se |-> 0,
                 start |-> a, moved |-> 0]
           e == [Closed EXCEPT !.v = i, !.geo = g, !.op = "idle", !.curr = x, !.start = a]
<1>1. DOMAIN e = {"v", "geo", "op", "curr", "left", "se", "start", "moved"}
  BY DEF Closed
<1>2. e = [f \in DOMAIN e |-> e[f]]
  OBVIOUS
<1>3. e.v = i /\ e.geo = g /\ e.op = "idle" /\ e.curr = x /\ e.start = a
  BY DEF Closed
<1>4. e.left = 0 /\ e.se = 0 /\ e.moved = 0
  BY DEF Closed
<1>5. DOMAIN r = {"v", "geo", "op", "curr", "left", "se", "start", "moved"}
  OBVIOUS
<1>6. r = [f \in DOMAIN r |-> r[f]]
  OBVIOUS
<1>7. /\ r.v = i /\ r.geo = g /\ r.op = "idle" /\ r.curr = x /\ r.start = a
      /\ r.left = 0 /\ r.se = 0 /\ r.moved = 0
  OBVIOUS
<1> HIDE DEF e, r
<1>8. \A f \in DOMAIN e : e[f] = r[f]
  BY <1>1, <1>3, <1>4, <1>7
<1>9. e = r
  BY <1>1, <1>2, <1>5, <1>6, <1>8, Zenon
<1> QED
  BY <1>9 DEF r, e, ClosedTo

\* What an action does with the striders, and with the storage.
LEMMA OpenStep ==
  ASSUME NEW hd \in Handles, OpenStrider(hd)
  PROVE  /\ st[hd].op = "closed" /\ UNCHANGED <<store, seen, ranges, others, stat, numrecs>>
         /\ \E c \in Corners : \E w \in Striders :
              /\ Moving(w) /\ OneMoves(hd, w)
              /\ w.op = "idle" /\ w.v = c.v /\ w.geo = StriderOf(Var(c.v), c.b, c.e)
              /\ w.moved = 0 /\ w.start = CornerByte(Var(c.v), c.b)
<1>1. PICK c \in Corners : st' = [st EXCEPT ![hd] =
        [Closed EXCEPT !.v = c.v, !.geo = StriderOf(Var(c.v), c.b, c.e), !.op = "idle",
                       !.curr = StriderOf(Var(c.v), c.b, c.e).begin,
                       !.start = CornerByte(Var(c.v), c.b)]]
  BY DEF OpenStrider
<1> DEFINE g == StriderOf(Var(c.v), c.b, c.e)
           a == CornerByte(Var(c.v), c.b)
           w == [v |-> c.v, geo |-> g, op |-> "idle", curr |-> g.begin, left |-> 0, se |-> 0,
                 start |-> a, moved |-> 0]
<1>2. /\ w \in Striders /\ Moving(w)
      /\ w.op = "idle" /\ w.v = c.v /\ w.geo = g /\ w.moved = 0 /\ w.start = a
  BY OpenMoves
<1>3. OneMoves(hd, w)
  <2> HIDE DEF g, a
  <2>1. st' = [st EXCEPT ![hd] = ClosedTo(c.v, g, g.begin, a)]
    BY <1>1 DEF g, a, ClosedTo
  <2>2. w = ClosedTo(c.v, g, g.begin, a)
    BY ClosedOpens
  <2> QED
    BY <2>1, <2>2, Zenon DEF OneMoves
<1> HIDE DEF w
<1>4. st[hd].op = "closed" /\ UNCHANGED <<store, seen, ranges, others, stat, numrecs>>
  BY DEF OpenStrider
<1> QED
  BY <1>2, <1>3, <1>4

\* A call of ReadElems or WriteElems: only one strider changes, by where its loop stands.
LEMMA CallStep ==
  ASSUME NEW hd \in Handles, NEW op \in {"read", "write"}, NEW n \in Counts, Call(hd, op, n),
         st \in [Handles -> Striders], Moving(st[hd])
  PROVE  /\ st[hd].op = "idle" /\ UNCHANGED <<store, seen, ranges, others, stat, numrecs>>
         /\ IsRecord(Var(st[hd].v)) =>
              st[hd].start + st[hd].moved + n * st[hd].geo.elemsz <= Sizes[st[hd].v] * Records
         /\ \E w \in Striders :
              /\ Moving(w) /\ OneMoves(hd, w)
              /\ w.op = op /\ w.v = st[hd].v /\ w.geo = st[hd].geo /\ w.start = st[hd].start
              /\ w.moved = st[hd].moved /\ w.left = n * st[hd].geo.elemsz
<1> DEFINE s == st[hd]
           w == CalledOn(s, op, n)
<1>1. /\ s.op = "idle" /\ st' = [st EXCEPT ![hd] = w]
      /\ IsRecord(Var(s.v)) => s.start + s.moved + n * s.geo.elemsz <= Sizes[s.v] * Records
      /\ UNCHANGED <<store, seen, ranges, others, stat, numrecs>>
  BY DEF Call, CalledOn
<1>2. s \in Striders
  OBVIOUS
<1>3. /\ w \in Striders /\ Moving(w) /\ w.op = op
      /\ w.v = s.v /\ w.geo = s.geo /\ w.start = s.start /\ w.moved = s.moved
      /\ w.left = n * s.geo.elemsz
  <2>1. s.op = "idle" /\ Moving(s)
    BY <1>1
  <2>2. w = CalledOn(s, op, n)
    OBVIOUS
  <2> HIDE DEF s, w
  <2> QED
    BY <1>2, <2>1, <2>2, CallMoves
<1> HIDE DEF w
<1>4. OneMoves(hd, w)
  BY <1>1 DEF OneMoves
<1> QED
  BY <1>1, <1>3, <1>4

\* A panic: only one strider changes, and none of its bytes move.
LEMMA PanicStep ==
  ASSUME NEW hd \in Handles, Panic(hd), st \in [Handles -> Striders], Moving(st[hd])
  PROVE  /\ UNCHANGED <<store, seen, ranges, others, stat, numrecs>>
         /\ \E w \in Striders :
              /\ Moving(w) /\ OneMoves(hd, w)
              /\ w.op = "idle" /\ w.v = st[hd].v /\ w.geo = st[hd].geo /\ w.start = st[hd].start
              /\ w.moved = st[hd].moved /\ st[hd].op # "closed"
<1> DEFINE s == st[hd]
           w == [s EXCEPT !.op = "idle", !.left = 0, !.se = 0]
<1>1. /\ s.op \in {"read", "write"} /\ st' = [st EXCEPT ![hd] = w]
      /\ UNCHANGED <<store, seen, ranges, others, stat, numrecs>>
  BY DEF Panic
<1>2. s \in Striders /\ s.op # "closed"
  BY <1>1
<1>3. /\ w \in Striders /\ Moving(w) /\ w.op = "idle"
      /\ w.v = s.v /\ w.geo = s.geo /\ w.start = s.start /\ w.moved = s.moved
  BY <1>2, PanicMoves
<1> HIDE DEF w
<1>4. OneMoves(hd, w)
  BY <1>1 DEF OneMoves
<1> QED
  BY <1>1, <1>2, <1>3, <1>4

\* nr bytes move between the strider and the storage.
Moved1(hd, nr, w) ==
  /\ w \in Striders /\ Moving(w) /\ OneMoves(hd, w) /\ w.op # "closed"
  /\ w.v = st[hd].v /\ w.geo = st[hd].geo /\ w.start = st[hd].start /\ w.moved = st[hd].moved + nr
  /\ w.op \in {"read", "write"} => w.left = st[hd].left - nr

\* What the strider takes from the storage.
Taken(hd, nr) ==
  seen' = [seen EXCEPT ![hd] = IF nr > 0 THEN [i \in 1..nr |-> ByteAt(st[hd].curr + i - 1)] ELSE @]

\* A loop iteration of a read moves one strider, and no byte of the storage.
LEMMA ReadStep ==
  ASSUME NEW hd \in Handles, ReadChunk(hd), st \in [Handles -> Striders], Moving(st[hd])
  PROVE  /\ st[hd].op = "read" /\ UNCHANGED <<store, ranges, others, stat, numrecs>>
         /\ \E nr \in Nat : \E w : nr <= Nn(st[hd]) /\ Moved1(hd, nr, w) /\ Taken(hd, nr)
<1> DEFINE s == st[hd]
<1>1. PICK nr \in 0..Nn(s), e \in {"nil", "EOF", "io"} :
        /\ st' = [st EXCEPT ![hd] = Iterated(s, nr, e)]
        /\ seen' = [seen EXCEPT ![hd] = IF nr > 0 THEN [i \in 1..nr |-> ByteAt(s.curr + i - 1)] ELSE @]
  BY DEF ReadChunk
<1>2. s.op = "read" /\ UNCHANGED <<store, ranges, others, stat, numrecs>> /\ s \in Striders
  BY DEF ReadChunk
<1>3. Nn(s) \in Int
  <2>1. /\ GeometryOK(s.geo) /\ s.curr \in Nat /\ s.se \in Nat /\ s.left \in Nat
    BY <1>2 DEF Moving, Striders
  <2> QED
    BY <2>1, ChunkFits DEF Nn
<1>4. nr \in Nat /\ nr <= Nn(s)
  BY <1>3
<1> DEFINE w == Iterated(s, nr, e)
<1>5. /\ w \in Striders /\ Moving(w) /\ w.op # "closed"
      /\ w.v = s.v /\ w.geo = s.geo /\ w.start = s.start /\ w.moved = s.moved + nr
      /\ w.op \in {"read", "write"} => w.left = s.left - nr
  <2>1. s \in Striders /\ s.op \in {"read", "write"}
    BY <1>2
  <2> HIDE DEF w
  <2>2. w = Iterated(s, nr, e)
    BY DEF w
  <2> QED
    BY <1>4, <2>1, <2>2, IteratedMoves
<1>6. OneMoves(hd, w)
  BY <1>1 DEF OneMoves
<1>7. Taken(hd, nr)
  BY <1>1 DEF Taken
<1> HIDE DEF w
<1>8. Moved1(hd, nr, w)
  BY <1>5, <1>6 DEF Moved1
<1> QED
  BY <1>2, <1>4, <1>7, <1>8

\* A loop iteration of a write puts at the cursor what it moves the strider by.
LEMMA WriteStep ==
  ASSUME NEW hd \in Handles, WriteChunk(hd), st \in [Handles -> Striders], Moving(st[hd])
  PROVE  /\ st[hd].op = "write" /\ UNCHANGED <<seen, ranges, others, stat, numrecs>>
         /\ st[hd].curr \in Nat
         /\ \E nr \in Nat : \E w : /\ nr <= Nn(st[hd]) /\ Moved1(hd, nr, w)
                                   /\ store' = Put(store, st[hd].curr, nr, hd)
<1> DEFINE s == st[hd]
<1>1. PICK nr \in 0..Nn(s), e \in {"nil", "io"} :
        /\ st' = [st EXCEPT ![hd] = Iterated(s, nr, e)]
        /\ store' = Written(s.curr, nr, hd)
  BY DEF WriteChunk
<1>2. s.op = "write" /\ UNCHANGED <<seen, ranges, others, stat, numrecs>> /\ s \in Striders
  BY DEF WriteChunk
<1>3. Nn(s) \in Int /\ s.curr \in Nat
  <2>1. /\ GeometryOK(s.geo) /\ s.curr \in Nat /\ s.se \in Nat /\ s.left \in Nat
    BY <1>2 DEF Moving, Striders
  <2> QED
    BY <2>1, ChunkFits DEF Nn
<1>4. nr \in Nat /\ nr <= Nn(s)
  BY <1>3
<1> DEFINE w == Iterated(s, nr, e)
<1>5. /\ w \in Striders /\ Moving(w) /\ w.op # "closed"
      /\ w.v = s.v /\ w.geo = s.geo /\ w.start = s.start /\ w.moved = s.moved + nr
      /\ w.op \in {"read", "write"} => w.left = s.left - nr
  <2>1. s \in Striders /\ s.op \in {"read", "write"}
    BY <1>2
  <2> HIDE DEF w
  <2>2. w = Iterated(s, nr, e)
    BY DEF w
  <2> QED
    BY <1>4, <2>1, <2>2, IteratedMoves
<1>6. OneMoves(hd, w)
  BY <1>1 DEF OneMoves
<1>7. store' = Put(store, s.curr, nr, hd)
  BY <1>1, WrittenPuts
<1> HIDE DEF w
<1>8. Moved1(hd, nr, w)
  BY <1>5, <1>6 DEF Moved1
<1> QED
  BY <1>2, <1>3, <1>4, <1>7, <1>8

\* A fill that begins has whole records before it.
LEMMA StartStep ==
  ASSUME \/ \E i \in DOMAIN Vs : Fill(i)
         \/ \E r \in 0..Records-1 : FillRecord(r)
  PROVE  \A q \in ranges' : Pending(q)
<1>1. CASE \E i \in DOMAIN Vs : Fill(i)
  <2>1. PICK i \in DOMAIN Vs : Fill(i)
    BY <1>1
  <2>2. ~IsRecord(Var(i)) /\ ranges' = {FillRange(i, 0)}
    BY <2>1 DEF Fill, StartFill
  <2>3. 0 \in 0..Records-1
    BY CdfFileAssumption
  <2>4. Pending(FillRange(i, 0))
    BY <2>3, FillPending
  <2> QED
    BY <2>2, <2>4
<1>2. CASE \E r \in 0..Records-1 : FillRecord(r)
  <2>1. PICK r \in 0..Records-1 : FillRecord(r)
    BY <1>2
  <2>2. ranges' = {FillRange(i, r) : i \in {j \in DOMAIN Vs : IsRecord(Var(j))}}
    BY <2>1 DEF FillRecord, StartFill
  <2>3. \A i \in {j \in DOMAIN Vs : IsRecord(Var(j))} : Pending(FillRange(i, r))
    BY FillPending
  <2> QED
    BY <2>2, <2>3
<1> QED
  BY <1>1, <1>2

\* A step of a fill writes within the record it fills.
Filled(i, r, c, n) ==
  /\ i \in DOMAIN Vs /\ r \in 0..Records-1 /\ c \in Nat /\ n \in Nat
  /\ IsRecord(Var(i)) \/ r = 0
  /\ \A o \in c..c+n-1 : Within(o, i, r)
  /\ store' = Put(store, c, n, Filling(i, r))

\* So does every step of Fill and of FillRecord.
LEMMA FillStepExact ==
  ASSUME FillStep, \A q \in ranges : Pending(q)
  PROVE  /\ UNCHANGED <<st, seen, others, stat, numrecs>>
         /\ \A q \in ranges' : Pending(q)
         /\ \E i, r, c, n : Filled(i, r, c, n)
<1> DEFINE q == Current(ranges)
           es == StorageSize[Var(q.v).dtype]
           by == Filling(q.v, q.r)
<1>1. /\ ranges # {} /\ UNCHANGED <<st, seen, others, stat, numrecs>>
      /\ \/ store' = Written(q.begin, es, by) /\ ranges' = RangesAfter(ranges, q, es)
         \/ (\E nr \in 0..es-1 : store' = Written(q.begin, nr, by)) /\ ranges' = {}
  BY DEF FillStep
<1>2. q \in ranges
  BY <1>1, CurrentIn
<1>3. Pending(q)
  BY <1>2
<1>4. q.v \in DOMAIN Vs /\ q.r \in 0..Records-1 /\ (IsRecord(Var(q.v)) \/ q.r = 0)
  BY <1>3 DEF Pending
<1> HIDE DEF q
<1>5. es \in Nat /\ q.begin \in Nat
  <2>1. 0 \in Nat /\ 0 <= es
    BY <1>4, ElementIs
  <2> QED
    BY <1>3, <2>1, ElementPending
<1>6. \A n \in Nat : n <= es => \A o \in q.begin..q.begin+n-1 : Within(o, q.v, q.r)
  BY <1>3, ElementPending
<1>7. q.begin + es < q.end => Pending([q EXCEPT !.begin = @ + es])
  <2>1. es \in Nat /\ es <= es
    BY <1>5
  <2> QED
    BY <1>3, <2>1, ElementPending
<1> HIDE DEF es
<1>8. \E n \in Nat : n <= es /\ store' = Written(q.begin, n, by)
  <2>1. CASE store' = Written(q.begin, es, by)
    BY <1>5, <2>1
  <2>2. CASE \E nr \in 0..es-1 : store' = Written(q.begin, nr, by)
    BY <1>5, <2>2
  <2> QED
    BY <1>1, <2>1, <2>2
<1>9. PICK n \in Nat : n <= es /\ store' = Written(q.begin, n, by)
  BY <1>8
<1>10. Filled(q.v, q.r, q.begin, n)
  <2>1. store' = Put(store, q.begin, n, by)
    BY <1>9, WrittenPuts
  <2>2. \A o \in q.begin..q.begin+n-1 : Within(o, q.v, q.r)
    BY <1>6, <1>9
  <2> QED
    BY <1>4, <1>5, <2>1, <2>2 DEF Filled
<1>11. ASSUME NEW p \in ranges' PROVE Pending(p)
  <2>1. p \in ranges \/ (q.begin + es < q.end /\ p = [q EXCEPT !.begin = @ + es])
    BY <1>1, <1>11 DEF RangesAfter
  <2> QED
    BY <1>7, <2>1
<1> QED
  BY <1>1, <1>10, <1>11

\* Where every step leaves the storage: as it was, or with a write in it.
StoreStep ==
  \/ UNCHANGED store
  \/ \E hd \in Handles : \E nr \in Nat : st[hd].curr \in Nat /\ store' = Put(store, st[hd].curr, nr, hd)
  \/ \E i, r, c, n : Filled(i, r, c, n)

\* No such step shrinks the file or unbounds it.
LEMMA StoreKept ==
  ASSUME StoreOK(store), StoreStep
  PROVE  /\ StoreOK(store') /\ EndOf(DOMAIN store) <= EndOf(DOMAIN store')
         /\ EndOf(DOMAIN store) \in Nat /\ EndOf(DOMAIN store') \in Nat
<1>1. Bounded(DOMAIN store) /\ EndOf(DOMAIN store) \in Nat
  BY EndExact DEF StoreOK
<1>2. StoreOK(store') /\ EndOf(DOMAIN store) <= EndOf(DOMAIN store')
  <2>1. CASE UNCHANGED store
    BY <1>1, <2>1
  <2>2. CASE \E hd \in Handles : \E nr \in Nat :
               st[hd].curr \in Nat /\ store' = Put(store, st[hd].curr, nr, hd)
    <3>1. PICK hd \in Handles, nr \in Nat :
            st[hd].curr \in Nat /\ store' = Put(store, st[hd].curr, nr, hd)
      BY <2>2
    <3>2. hd # Nobody /\ \A i \in DOMAIN Vs : \A r \in 0..Records-1 : hd # Filling(i, r)
      BY CdfFileAssumption DEF Vs
    <3>3. \A i \in DOMAIN Vs : \A r \in 0..Records-1 :
            hd = Filling(i, r) => \A o \in st[hd].curr..st[hd].curr+nr-1 : Within(o, i, r)
      BY <3>2
    <3> QED
      BY <3>1, <3>2, <3>3, PutOK
  <2>3. CASE \E i, r, c, n : Filled(i, r, c, n)
    <3>1. PICK i, r, c, n : Filled(i, r, c, n)
      BY <2>3
    <3> DEFINE by == Filling(i, r)
    <3>2. /\ i \in DOMAIN Vs /\ r \in 0..Records-1 /\ c \in Nat /\ n \in Nat
          /\ \A o \in c..c+n-1 : Within(o, i, r)
          /\ store' = Put(store, c, n, by)
      BY <3>1 DEF Filled
    <3>3. by # Nobody
      BY <3>2, CdfFileAssumption DEF Vs
    <3>4. \A j \in DOMAIN Vs : \A s \in 0..Records-1 :
            by = Filling(j, s) => \A o \in c..c+n-1 : Within(o, j, s)
      BY <3>2 DEF Filling
    <3> HIDE DEF by
    <3> QED
      BY <3>2, <3>3, <3>4, PutOK
  <2> QED
    BY <2>1, <2>2, <2>3 DEF StoreStep
<1>3. EndOf(DOMAIN store') \in Nat
  BY <1>2, EndExact DEF StoreOK
<1> QED
  BY <1>1, <1>2, <1>3

\* The size of the file is that end.
LEMMA FileEnds == FileSize = EndOf(DOMAIN store)
  BY DEF FileSize, EndOf

\* Where a step leaves the file: intact, with what it counts, if it does not count itself.
LEMMA FileKept ==
  ASSUME StoreOK(store), CountOK(stat, numrecs, FileSize), StoreStep
  PROVE  /\ StoreOK(store') /\ FileSize \in Nat /\ FileSize' \in Nat /\ FileSize <= FileSize'
         /\ CountOK(stat, numrecs, FileSize')
<1>1. FileSize = EndOf(DOMAIN store) /\ FileSize' = EndOf(DOMAIN store')
  BY DEF FileSize, EndOf
<1>2. StoreOK(store') /\ FileSize \in Nat /\ FileSize' \in Nat /\ FileSize <= FileSize'
  BY <1>1, StoreKept
<1>3. CountOK(stat, numrecs, FileSize')
  BY <1>2, CountKept
<1> QED
  BY <1>2, <1>3

\* The invariant holds of a new file.
LEMMA Begins == Init => IInv
<1> SUFFICES ASSUME Init PROVE IInv
  OBVIOUS
<1>1. /\ store = <<>> /\ st = [hd \in Handles |-> Closed] /\ ranges = {}
      /\ stat = -1 /\ numrecs = -1
  BY DEF Init, Streaming
<1>2. Closed \in Striders /\ Moving(Closed)
  BY DEF Closed, Striders, Moving
<1>3. st \in [Handles -> Striders] /\ \A hd \in Handles : Moving(st[hd])
  BY <1>1, <1>2
<1>4. DOMAIN store = {}
  BY <1>1
<1>5. Bounded(DOMAIN store) /\ StoreOK(store)
  <2>1. 0 \in Nat /\ \A o \in {} : o < 0
    OBVIOUS
  <2>2. Bounded({})
    BY <2>1 DEF Bounded
  <2> QED
    BY <1>4, <2>2 DEF StoreOK
<1>6. FileSize \in Nat
  BY <1>5, EndExact, FileEnds
<1>7. CountOK(stat, numrecs, FileSize)
  BY <1>1, <1>6 DEF CountOK, Counted, Streaming
<1> QED
  BY <1>1, <1>3, <1>5, <1>7 DEF IInv

\* Of the count that UpdateNumRecs writes.
LEMMA CountWritten ==
  ASSUME CountOK(stat, numrecs, FileSize), FileSize \in Nat, WriteNumRecs
  PROVE  CountOK(stat', numrecs', FileSize)
<1> DEFINE n == NumRecs(Header, stat)
<1>1. /\ stat # -1 /\ stat' = -1
      /\ numrecs' \in {numrecs, IF n >= CountLimit \/ n < 0 THEN Streaming ELSE n}
  BY DEF WriteNumRecs
<1>2. stat \in Nat /\ stat <= FileSize /\ CountOK(-1, numrecs, FileSize)
  BY <1>1 DEF CountOK
<1>3. n \in Nat /\ Counted(n, stat)
  BY <1>2, CountExact
<1> HIDE DEF n
<1>4. CASE numrecs' = numrecs
  BY <1>1, <1>2, <1>4
<1>5. CASE numrecs' = Streaming
  <2>1. CountOK(-1, -1, FileSize)
    BY <1>2 DEF CountOK, Counted, Streaming
  <2> QED
    BY <1>1, <1>5, <2>1 DEF Streaming
<1>6. CASE numrecs' = n /\ n < CountLimit
  <2>1. n \in 0..CountLimit-1
    BY <1>3, <1>6, CdfFileAssumption
  <2>2. CountOK(-1, n, stat)
    BY <1>2, <1>3, <2>1 DEF CountOK
  <2>3. CountOK(-1, n, FileSize)
    BY <1>2, <2>2, CountKept
  <2> QED
    BY <1>1, <1>6, <2>3
<1>7. numrecs' = numrecs \/ numrecs' = Streaming \/ (numrecs' = n /\ n < CountLimit)
  <2>1. n >= CountLimit \/ n < CountLimit
    BY <1>3, CdfFileAssumption
  <2>2. ~(n < 0)
    BY <1>3
  <2> QED
    BY <1>1, <2>1, <2>2
<1> QED
  BY <1>4, <1>5, <1>6, <1>7

\* Every step keeps the invariant.
LEMMA Keeps == IInv /\ [Next]_vars => IInv'
<1> SUFFICES ASSUME IInv, [Next]_vars PROVE IInv'
  OBVIOUS
<1>1. /\ st \in [Handles -> Striders] /\ \A hd \in Handles : Moving(st[hd])
      /\ \A q \in ranges : Pending(q)
      /\ StoreOK(store) /\ CountOK(stat, numrecs, FileSize)
  BY DEF IInv
<1>2. ASSUME StoreStep, UNCHANGED <<stat, numrecs>>
      PROVE  StoreOK(store') /\ CountOK(stat', numrecs', FileSize')
  BY <1>1, <1>2, FileKept
<1>3. ASSUME NEW hd \in Handles, NEW w \in Striders, Moving(w), OneMoves(hd, w)
      PROVE  st' \in [Handles -> Striders] /\ \A h \in Handles : Moving(st'[h])
  BY <1>1, <1>3, StridersKept
<1>4. ASSUME NEW hd \in Handles, OpenStrider(hd) PROVE IInv'
  <2>1. UNCHANGED <<store, ranges, stat, numrecs>>
    BY <1>4 DEF OpenStrider
  <2>2. \E w \in Striders : Moving(w) /\ OneMoves(hd, w)
    BY <1>4, OpenStep
  <2>3. StoreStep
    BY <2>1 DEF StoreStep
  <2> QED
    BY <1>1, <1>2, <1>3, <2>1, <2>2, <2>3 DEF IInv
<1>5. ASSUME NEW hd \in Handles, NEW op \in {"read", "write"}, NEW n \in Counts, Call(hd, op, n)
      PROVE  IInv'
  <2>1. UNCHANGED <<store, ranges, stat, numrecs>>
    BY <1>5 DEF Call
  <2>2. \E w \in Striders : Moving(w) /\ OneMoves(hd, w)
    BY <1>1, <1>5, CallStep
  <2>3. StoreStep
    BY <2>1 DEF StoreStep
  <2> QED
    BY <1>1, <1>2, <1>3, <2>1, <2>2, <2>3 DEF IInv
<1>6. ASSUME NEW hd \in Handles, Panic(hd) PROVE IInv'
  <2>1. UNCHANGED <<store, ranges, stat, numrecs>>
    BY <1>6 DEF Panic
  <2>2. \E w \in Striders : Moving(w) /\ OneMoves(hd, w)
    BY <1>1, <1>6, PanicStep
  <2>3. StoreStep
    BY <2>1 DEF StoreStep
  <2> QED
    BY <1>1, <1>2, <1>3, <2>1, <2>2, <2>3 DEF IInv
<1>7. ASSUME NEW hd \in Handles, ReadChunk(hd) PROVE IInv'
  <2>1. UNCHANGED <<store, ranges, stat, numrecs>>
    BY <1>7 DEF ReadChunk
  <2>2. \E w \in Striders : Moving(w) /\ OneMoves(hd, w)
    BY <1>1, <1>7, ReadStep DEF Moved1
  <2>3. StoreStep
    BY <2>1 DEF StoreStep
  <2> QED
    BY <1>1, <1>2, <1>3, <2>1, <2>2, <2>3 DEF IInv
<1>8. ASSUME NEW hd \in Handles, WriteChunk(hd) PROVE IInv'
  <2>1. UNCHANGED <<ranges, stat, numrecs>>
    BY <1>8 DEF WriteChunk
  <2>2. PICK nr \in Nat : \E w : /\ Moved1(hd, nr, w) /\ st[hd].curr \in Nat
                                 /\ store' = Put(store, st[hd].curr, nr, hd)
    BY <1>1, <1>8, WriteStep
  <2>3. \E w \in Striders : Moving(w) /\ OneMoves(hd, w)
    BY <2>2 DEF Moved1
  <2>4. StoreStep
    BY <2>2 DEF StoreStep
  <2> QED
    BY <1>1, <1>2, <1>3, <2>1, <2>3, <2>4 DEF IInv
<1>9. ASSUME \/ \E i \in DOMAIN Vs : Fill(i)
             \/ \E r \in 0..Records-1 : FillRecord(r)
      PROVE  IInv'
  <2>1. UNCHANGED <<store, st, stat, numrecs>>
    BY <1>9 DEF Fill, FillRecord, StartFill
  <2>2. \A q \in ranges' : Pending(q)
    BY <1>9, StartStep
  <2>3. StoreStep
    BY <2>1 DEF StoreStep
  <2> QED
    BY <1>1, <1>2, <2>1, <2>2, <2>3 DEF IInv
<1>10. CASE FillStep
  <2>1. /\ UNCHANGED <<st, stat, numrecs>> /\ \A q \in ranges' : Pending(q)
        /\ \E i, r, c, n : Filled(i, r, c, n)
    BY <1>1, <1>10, FillStepExact
  <2>2. StoreStep
    BY <2>1 DEF StoreStep
  <2> QED
    BY <1>1, <1>2, <2>1, <2>2 DEF IInv
<1>11. CASE Stat \/ WriteNumRecs \/ Create
  <2>1. UNCHANGED <<store, st, ranges>>
    BY <1>11 DEF Stat, WriteNumRecs, Create
  <2>2. FileSize' = FileSize /\ FileSize \in Nat
    <3>1. FileSize \in Nat
      BY <1>1, EndExact, FileEnds DEF StoreOK
    <3> QED
      BY <2>1, <3>1 DEF FileSize
  <2>3. CountOK(stat', numrecs', FileSize)
    <3>1. CASE Stat
      BY <1>1, <2>2, <3>1 DEF Stat, CountOK
    <3>2. CASE WriteNumRecs
      BY <1>1, <2>2, <3>2, CountWritten
    <3>3. CASE Create
      BY <1>1, <3>3 DEF Create, CountOK, Counted, Streaming
    <3> QED
      BY <1>11, <3>1, <3>2, <3>3
  <2> QED
    BY <1>1, <2>1, <2>2, <2>3 DEF IInv
<1>12. CASE UNCHANGED vars
  BY <1>1, <1>12 DEF vars, IInv, FileSize
<1> QED
  BY <1>4, <1>5, <1>6, <1>7, <1>8, <1>9, <1>10, <1>11, <1>12 DEF Next

\* The inductive invariant: cursors are where the bytes moved have taken them, fills
\* keep to their record, and what is counted lies in the file.
THEOREM Invariance == Spec => []IInv
  BY Begins, Keeps, PTL DEF Spec

\* Handles know their variable, fills have somewhere to go, counts are counts.
THEOREM TypeCorrect == Spec => []TypeOK
<1>1. IInv => TypeOK
  <2> SUFFICES ASSUME IInv PROVE TypeOK
    OBVIOUS
  <2>1. DOMAIN store \subseteq Nat
    BY DEF IInv, StoreOK, Bounded
  <2>2. ASSUME NEW hd \in Handles
        PROVE  /\ st[hd].op \in {"closed", "idle", "read", "write"}
               /\ st[hd].op # "closed" => st[hd].v \in DOMAIN Vs
               /\ st[hd].op \in {"read", "write"} => st[hd].left > 0
    <3>1. st[hd] \in Striders /\ Moving(st[hd])
      BY DEF IInv
    <3> QED
      BY <3>1 DEF Striders, Moving
  <2>3. \A q \in ranges : q.begin < q.end
    BY DEF IInv, Pending
  <2>4. stat \in Nat \cup {-1} /\ numrecs \in {Streaming} \cup (0..CountLimit-1)
    BY DEF IInv, CountOK
  <2> QED
    BY <2>1, <2>2, <2>3, <2>4 DEF TypeOK
<1> QED
  BY <1>1, Invariance, PTL

-----------------------------------------------------------------------------
(* Bytes and records.                                                      *)

\* Byte k of variable i is byte b of its record r.
ByteOf(i, k, r, b) ==
  /\ r \in 0..Records-1 /\ (IsRecord(Var(i)) \/ r = 0) /\ r \in Nat
  /\ b \in 0..Sizes[i]-1 /\ RecordBegin(Var(i), r) \in Nat
  /\ k = r * Sizes[i] + b
  /\ Place[i][k] = RecordBegin(Var(i), r) + b /\ Place[i][k] = ByteOffset(Var(i), r, b)

\* A byte lies in the record that quotient and remainder tell.
LEMMA ByteRecord ==
  ASSUME NEW i \in DOMAIN Vs, NEW k \in Bytes[i]
  PROVE  ByteOf(i, k, k \div Sizes[i], k % Sizes[i])
<1> DEFINE z == Sizes[i]
           v == Var(i)
           n == RecordsOf[i]
           r == k \div z
           b == k % z
<1>1. Settled(i)
  BY AllSettled
<1>2. /\ z \in Nat \ {0} /\ Records \in Nat \ {0} /\ n = (IF IsRecord(v) THEN Records ELSE 1)
      /\ k \in 0..z*n-1 /\ Place[i][k] = ByteOffset(v, r, b)
  BY <1>1, CdfFileAssumption DEF Settled
<1>3. n \in Nat \ {0}
  BY <1>2
<1>4. z * n \in Nat /\ k \in Nat /\ k < z * n
  <2>1. \A x, y \in Nat : x * y \in Nat
    BY Z3T(30)
  <2>2. z * n \in Nat
    BY <1>2, <1>3, <2>1
  <2> DEFINE m == z * n
  <2> HIDE DEF m
  <2>3. m \in Nat /\ k \in 0..m-1
    BY <1>2, <2>2 DEF m
  <2>4. k \in Nat /\ k < m
    BY <2>3
  <2> QED
    BY <2>2, <2>4 DEF m
<1>5. r \in Nat /\ b \in 0..z-1 /\ k = r * z + b
  BY <1>2, <1>4, DivMod
<1>6. r < n
  <2>1. n - 1 \in Nat /\ z - 1 \in 0..z-1
    BY <1>2, <1>3
  <2>2. ((n - 1) * z + (z - 1)) \div z = n - 1
    BY <1>2, <2>1, DivUnique
  <2>3. (n - 1) * z + (z - 1) = z * n - 1
    BY <1>2, <1>3, Z3T(30)
  <2> DEFINE m == z * n
  <2> HIDE DEF m
  <2>4. m - 1 \in Nat /\ k <= m - 1 /\ (m - 1) \div z = n - 1
    BY <1>2, <1>4, <2>2, <2>3 DEF m
  <2>5. r <= n - 1
    BY <1>2, <1>4, <2>4, DivMonotone
  <2> QED
    BY <1>3, <1>5, <2>5
<1>7. RecordBegin(v, r) \in Nat
  BY <1>5, HeaderLaidOut, RecordBeginTyped DEF Var, Vs
<1> HIDE DEF r, b
<1>8. Place[i][k] = RecordBegin(v, r) + b
  BY <1>2 DEF ByteOffset, RecordBegin
<1>9. r \in 0..Records-1 /\ (IsRecord(v) \/ r = 0)
  BY <1>2, <1>5, <1>6
<1>10. k = r * z + b
  BY <1>5
<1> QED
  BY <1>2, <1>5, <1>7, <1>8, <1>9, <1>10 DEF ByteOf, r, b

\* No byte of a variable lies in another record of it, nor in another variable's, nor
\* in the padding behind them.
LEMMA OwnRecord ==
  ASSUME SlabsPadded, NEW i \in DOMAIN Vs, NEW k \in Bytes[i],
         NEW w \in DOMAIN Vs, NEW s \in 0..Records-1, Within(Place[i][k], w, s)
  PROVE  w = i /\ s = k \div Sizes[i]
<1> DEFINE r == k \div Sizes[i]
           b == k % Sizes[i]
           x == RecordBegin(Var(i), r)
           y == RecordBegin(Var(w), s)
<1>1. /\ r \in Nat /\ (IsRecord(Var(i)) \/ r = 0) /\ b \in 0..Sizes[i]-1 /\ x \in Nat
      /\ Place[i][k] = x + b
  BY ByteRecord DEF ByteOf
<1>2. s \in Nat /\ (IsRecord(Var(w)) \/ s = 0) /\ y <= x + b /\ x + b < y + Pad4(Sizes[w])
  BY <1>1, CdfFileAssumption DEF Within
<1>3. /\ Sizes[i] \in Nat \ {0} /\ Sizes[i] = VSize(Var(i))
      /\ Sizes[w] \in Nat \ {0} /\ Sizes[w] = VSize(Var(w))
      /\ IsRecord(Var(i)) => Var(i).strides[2] = SlabSize
  BY AllSettled DEF Settled
<1>4. /\ Pad4(Sizes[i]) \in Nat /\ Sizes[i] <= Pad4(Sizes[i]) /\ Pad4(Sizes[w]) \in Nat
  BY <1>3, Padding
<1>5. Spaced(Header) /\ DOMAIN Vs \subseteq Nat
  BY HeaderLaidOut
<1>6. y \in Nat
  BY <1>2, <1>5, RecordBeginTyped DEF Var, Vs
<1>7. ~(x + Pad4(Sizes[i]) <= y) /\ ~(y + Pad4(Sizes[w]) <= x)
  <2> HIDE DEF x, y, b
  <2> QED
    BY <1>1, <1>2, <1>3, <1>4, <1>6
<1>8. i = w
  <2>1. ~Precedes(Vs, i, w)
    BY <1>1, <1>2, <1>3, <1>5, <1>7, VariablesApart DEF Var, Vs
  <2>2. ~Precedes(Vs, w, i)
    BY <1>1, <1>2, <1>3, <1>5, <1>7, VariablesApart DEF Var, Vs
  <2> QED
    BY <1>5, <2>1, <2>2, Ordered
<1>9. r = s
  <2>1. CASE IsRecord(Var(i))
    <3>1. Pad4(Sizes[i]) <= Var(i).strides[2]
      BY <1>3, <2>1 DEF SlabsPadded
    <3>2. ~(r < s)
      BY <1>1, <1>4, <1>5, <1>7, <1>8, <1>2, <2>1, <3>1, RecordsApart DEF Var, Vs
    <3>3. ~(s < r)
      BY <1>1, <1>4, <1>5, <1>7, <1>8, <1>2, <2>1, <3>1, RecordsApart DEF Var, Vs
    <3> QED
      BY <1>1, <1>2, <3>2, <3>3
  <2> QED
    BY <1>1, <1>2, <1>8, <2>1
<1> QED
  BY <1>8, <1>9

\* A fill writes its record and no byte of another record or variable, provided that
\* a padded record fits a slab.
THEOREM FillsOwnRecord == SlabsPadded => (Spec => []FillOwnRecord)
<1> SUFFICES ASSUME SlabsPadded PROVE Spec => []FillOwnRecord
  OBVIOUS
<1>1. IInv => FillOwnRecord
  <2> SUFFICES ASSUME IInv, NEW i \in DOMAIN Vs, NEW k \in Bytes[i],
                      NEW w \in DOMAIN Vs, NEW r \in 0..Records-1,
                      ByteAt(Place[i][k]) = Filling(w, r)
               PROVE  w = i /\ r = k \div Sizes[i]
    BY DEF FillOwnRecord
  <2>1. Filling(w, r) # Nobody
    BY CdfFileAssumption DEF Vs
  <2>2. Place[i][k] \in DOMAIN store /\ store[Place[i][k]] = Filling(w, r)
    BY <2>1 DEF ByteAt
  <2>3. Within(Place[i][k], w, r)
    BY <2>2 DEF IInv, StoreOK
  <2> QED
    BY <2>3, OwnRecord
<1> QED
  BY <1>1, Invariance, PTL

\* Only records that lie within the file are counted in its header.
THEOREM CountsExist == Spec => []CountedRecordsExist
<1>1. IInv => CountedRecordsExist
  <2> SUFFICES ASSUME IInv, NEW i \in DOMAIN Vs, IsRecord(Var(i)), NEW r \in 0..numrecs-1,
                      NEW b \in 0..Sizes[i]-1
               PROVE  ByteOffset(Var(i), r, b) < FileSize
    BY DEF CountedRecordsExist
  <2> DEFINE v == Var(i)
             offs == Slabs(Header).offs
             d == SlabSize
             n == numrecs
             f == FileSize
  <2>1. /\ v.begin \in Nat /\ Sizes[i] \in Nat \ {0} /\ v.strides[2] = d /\ d \in Nat \ {0}
        /\ offs \in Nat /\ v.begin + Sizes[i] <= offs + d
    BY AllSettled DEF Settled
  <2>2. n \in Int /\ r \in Nat /\ r < n /\ n > 0
    <3>1. n \in {-1} \cup (0..CountLimit-1) /\ CountLimit \in Nat
      BY CdfFileAssumption DEF IInv, CountOK, Streaming
    <3>2. n \in Int
      BY <3>1
    <3> HIDE DEF n
    <3>3. r \in 0..n-1
      BY DEF n
    <3> QED
      BY <3>2, <3>3
  <2>3. offs + n * d <= f /\ f \in Nat
    <3>1. Counted(n, f)
      BY DEF IInv, CountOK
    <3>2. f \in Nat
      BY EndExact, FileEnds DEF IInv, StoreOK
    <3> QED
      BY <2>2, <3>1, <3>2 DEF Counted
  <2>4. ByteOffset(v, r, b) = v.begin + r * d + b
    BY <2>1 DEF ByteOffset
  <2> HIDE DEF v, offs, d, n, f
  <2>5. PICK k \in Nat : n = r + 1 + k
    <3>1. n - r - 1 \in Nat /\ n = r + 1 + (n - r - 1)
      BY <2>2
    <3> QED
      BY <3>1
  <2>6. n * d = r * d + d + k * d /\ r * d \in Nat /\ k * d \in Nat
    <3>1. \A x, y, z \in Nat : (x + 1 + y) * z = x * z + z + y * z /\ x * z \in Nat /\ y * z \in Nat
      BY Z3T(30)
    <3> QED
      BY <2>1, <2>2, <2>5, <3>1
  <2> DEFINE nd == n * d
             rd == r * d
             kd == k * d
  <2>7. /\ nd = rd + d + kd /\ rd \in Nat /\ kd \in Nat /\ offs + nd <= f
        /\ ByteOffset(v, r, b) = v.begin + rd + b
    BY <2>3, <2>4, <2>6
  <2> HIDE DEF nd, rd, kd
  <2>8. ByteOffset(v, r, b) < f
    BY <2>1, <2>3, <2>7
  <2> QED
    BY <2>8 DEF v, f
<1> QED
  BY <1>1, Invariance, PTL

\* Records of which every byte is written count, but for a last one that lacks padding.
THEOREM WrittenCount == Spec => []WrittenRecordsCount
<1>1. IInv => WrittenRecordsCount
  <2> SUFFICES ASSUME IInv, SlabSize > 0, NEW n \in 1..Records,
                      \A i \in DOMAIN Vs : IsRecord(Var(i)) =>
                        \A k \in 0..n*Sizes[i]-1 : ByteAt(Place[i][k]) # Nobody
               PROVE  NumRecs(Header, FileSize)
                        >= (IF FileSize < Slabs(Header).offs + n * SlabSize THEN n - 1 ELSE n)
    BY DEF WrittenRecordsCount
  <2> DEFINE offs == Slabs(Header).offs
             d == SlabSize
             f == FileSize
             m == NumRecs(Header, f)
  <2>1. PICK i \in DOMAIN Vs : IsRecord(Var(i))
    <3>1. ~(0 > 0)
      OBVIOUS
    <3> QED
      BY <3>1, SlabsTyped
  <2>2. PICK j \in DOMAIN Vs : IsRecord(Var(j)) /\ offs = Var(j).begin
    BY <2>1, FirstSlab
  <2>3. n \in Nat \ {0} /\ n - 1 \in Nat /\ n <= Records /\ Records \in Nat \ {0}
    BY CdfFileAssumption
  <2> DEFINE z == Sizes[j]
             k == (n - 1) * z
  <2>4. /\ z \in Nat \ {0} /\ RecordsOf[j] = Records /\ Bytes[j] = 0..z*Records-1
        /\ Var(j).strides[2] = d /\ d \in Nat \ {0} /\ offs \in Nat
        /\ \A y \in Bytes[j] : Place[j][y] = ByteOffset(Var(j), y \div z, y % z)
    BY <2>2, AllSettled DEF Settled
  <2>5. f \in Nat /\ \A o \in DOMAIN store : o < f
    BY EndExact, FileEnds DEF IInv, StoreOK
  <2>6. k \in 0..n*z-1 /\ k \in Bytes[j]
    <3>1. \A a, b \in Nat : a * b \in Nat
      BY Z3T(30)
    <3>2. n * z = (n - 1) * z + z
      BY <2>3, <2>4, Z3T(30)
    <3>3. PICK e \in Nat : Records = n + e
      <4>1. Records - n \in Nat /\ Records = n + (Records - n)
        BY <2>3
      <4> QED
        BY <4>1
    <3>4. z * Records = n * z + e * z
      BY <2>3, <2>4, <3>3, Z3T(30)
    <3> DEFINE nz == n * z
               rz == z * Records
               ez == e * z
    <3>5. k \in Nat /\ ez \in Nat /\ nz = k + z /\ rz = nz + ez
      BY <2>3, <2>4, <3>1, <3>2, <3>3, <3>4
    <3> HIDE DEF k, nz, rz, ez, z
    <3>6. k \in 0..nz-1 /\ k \in 0..rz-1
      BY <2>4, <3>5
    <3> QED
      BY <2>4, <3>6 DEF nz, rz, z
  <2>7. Place[j][k] = offs + (n - 1) * d
    <3>1. k \div z = n - 1 /\ k % z = 0
      <4>1. 0 \in 0..z-1 /\ k = (n - 1) * z + 0
        <5>1. \A a, b \in Nat : a * b \in Nat
          BY Z3T(30)
        <5>2. k \in Nat
          BY <2>3, <2>4, <5>1
        <5> QED
          BY <2>4, <5>2
      <4>2. ((n - 1) * z + 0) \div z = n - 1 /\ ((n - 1) * z + 0) % z = 0
        <5> DEFINE p == n - 1
        <5>1. p \in Nat /\ z \in Nat \ {0} /\ 0 \in 0..z-1
          BY <2>3, <2>4, <4>1
        <5> HIDE DEF p, z
        <5>2. (p * z + 0) \div z = p /\ (p * z + 0) % z = 0
          BY <5>1, DivUnique
        <5> QED
          BY <5>2 DEF p
      <4> QED
        BY <4>1, <4>2
    <3>2. Place[j][k] = ByteOffset(Var(j), n - 1, 0)
      BY <2>4, <2>6, <3>1
    <3>3. ByteOffset(Var(j), n - 1, 0) = offs + (n - 1) * d + 0
      BY <2>2, <2>4 DEF ByteOffset
    <3>4. (n - 1) * d \in Nat
      BY <2>3, <2>4, Z3T(30)
    <3> QED
      BY <2>4, <3>2, <3>3, <3>4
  <2>8. ByteAt(Place[j][k]) # Nobody
    BY <2>2, <2>6
  <2>9. Place[j][k] \in DOMAIN store
    BY <2>8 DEF ByteAt
  <2>10. offs + (n - 1) * d < f
    BY <2>5, <2>7, <2>9
  <2>11. m \in Nat /\ \A x \in Nat : offs + x * d <= f => x <= m
    BY <2>2, <2>5, CountExact
  <2> DEFINE pd == (n - 1) * d
             nd == n * d
  <2>12. pd \in Nat /\ nd \in Nat
    <3>1. \A a, b \in Nat : a * b \in Nat
      BY Z3T(30)
    <3> QED
      BY <2>3, <2>4, <3>1
  <2>13. n - 1 <= m
    <3>1. offs + pd < f
      BY <2>10
    <3> HIDE DEF pd, offs, f
    <3>2. offs + pd <= f
      BY <2>4, <2>5, <2>12, <3>1
    <3> QED
      BY <2>3, <2>11, <3>2 DEF pd, offs, f
  <2>14. ~(f < offs + nd) => n <= m
    <3> HIDE DEF nd, offs, f
    <3>1. ~(f < offs + nd) => offs + nd <= f
      BY <2>4, <2>5, <2>12
    <3> QED
      BY <2>3, <2>11, <3>1 DEF nd, offs, f
  <2> HIDE DEF m, pd, f, offs
  <2>15. m >= (IF f < offs + nd THEN n - 1 ELSE n)
    <3> HIDE DEF nd
    <3> QED
      BY <2>3, <2>11, <2>13, <2>14
  <2> QED
    BY <2>15 DEF m, nd, f, offs
<1> QED
  BY <1>1, Invariance, PTL

-----------------------------------------------------------------------------
(* Striders and their variables.                                           *)

\* An open strider is somewhere in its variable, and its call ends in it.
Roaming(s) ==
  s.op # "closed" =>
    /\ Tracks(s.v, s.geo, s.start) /\ s.start + s.moved <= Extent(s.v)
    /\ s.op \in {"read", "write"} /\ IsRecord(Var(s.v)) =>
         s.start + s.moved + s.left <= Extent(s.v)

\* A byte of hd in storage t is one of the variable of strider s.
Owned(t, hd, s) ==
  \A o \in DOMAIN t : t[o] = hd => s.op # "closed" /\ \E k \in Bytes[s.v] : Place[s.v][k] = o

\* The second invariant, of files whose corners are aligned.
OInv == \A hd \in Handles : Roaming(st[hd]) /\ Owned(store, hd, st[hd])

\* Where a transfer of nr bytes takes a strider, and what bytes these are.
LEMMA Carries ==
  ASSUME NEW hd \in Handles, st[hd] \in Striders, Moving(st[hd]), Roaming(st[hd]),
         st[hd].op \in {"read", "write"}, NEW nr \in Nat, nr <= Nn(st[hd]),
         NEW w, Moved1(hd, nr, w)
  PROVE  /\ Roaming(w) /\ nr <= Sizes[st[hd].v] /\ st[hd].v \in DOMAIN Vs
         /\ st[hd].start + st[hd].moved \in Nat
         /\ \A x \in 0..nr-1 :
              /\ st[hd].start + st[hd].moved + x \in Bytes[st[hd].v]
              /\ Place[st[hd].v][st[hd].start + st[hd].moved + x] = st[hd].curr + x
<1> DEFINE s == st[hd]
           i == s.v
           g == s.geo
           a == s.start
           m == s.moved
           left == s.left
<1>1. /\ Tracks(i, g, a) /\ m \in Nat /\ left \in Nat /\ a \in Nat
      /\ a + m <= Extent(i) /\ (IsRecord(Var(i)) => a + m + left <= Extent(i))
  BY DEF Roaming, Striders
<1>2. s.curr = Pos(g, m) /\ s.se = Stop(g, m)
  BY DEF Moving
<1>3. nr <= Chunk(g, Pos(g, m), Stop(g, m), left)
  BY <1>2 DEF Nn
<1>4. /\ nr <= left /\ nr <= Sizes[i] /\ a + m + nr <= Extent(i)
      /\ \A x \in 0..nr-1 : a + m + x \in Bytes[i] /\ Place[i][a + m + x] = Pos(g, m) + x
  <2> HIDE DEF s, i, g, a, m, left
  <2> QED
    BY <1>1, <1>3, Transfer
<1>5. /\ w.v = i /\ w.geo = g /\ w.start = a /\ w.moved = m + nr
      /\ w.op \in {"read", "write"} => w.left = left - nr
  BY DEF Moved1
<1>6. i \in DOMAIN Vs
  BY <1>1 DEF Tracks
<1>7. Roaming(w)
  <2> HIDE DEF s, i, g, a, m, left
  <2>1. w.start + w.moved = a + m + nr /\ w.start + w.moved <= Extent(i)
    BY <1>1, <1>4, <1>5
  <2>2. ASSUME w.op \in {"read", "write"}, IsRecord(Var(i))
        PROVE  w.start + w.moved + w.left <= Extent(i)
    <3>1. w.left = left - nr /\ a + m + left <= Extent(i)
      BY <1>1, <1>5, <2>2
    <3>2. w.start + w.moved + w.left = a + m + left
      BY <1>1, <1>4, <1>5, <3>1
    <3> QED
      BY <3>1, <3>2
  <2> QED
    BY <1>1, <1>5, <2>1, <2>2 DEF Roaming
<1> QED
  BY <1>1, <1>2, <1>4, <1>6, <1>7

\* A strider that is opened is within its variable.
LEMMA OpenedRoams ==
  ASSUME CornersAligned, NEW c \in Corners, NEW w,
         w.op = "idle", w.v = c.v, w.geo = StriderOf(Var(c.v), c.b, c.e),
         w.moved = 0, w.start = CornerByte(Var(c.v), c.b)
  PROVE  Roaming(w) /\ w.v \in DOMAIN Vs /\ w.start \in Bytes[w.v]
<1> DEFINE i == c.v
           a == CornerByte(Var(c.v), c.b)
           g == StriderOf(Var(c.v), c.b, c.e)
<1>1. Tracks(i, g, a) /\ a \in Bytes[i]
  BY Opened
<1>2. i \in DOMAIN Vs /\ a \in Nat
  BY <1>1 DEF Tracks
<1>3. a + 0 <= Extent(i)
  <2>1. Bytes[i] = 0..Extent(i)-1
    BY <1>2, AllSettled DEF Settled, Extent
  <2>2. Extent(i) \in Nat
    <3>1. Sizes[i] \in Nat /\ RecordsOf[i] \in Nat
      BY <1>2, AllSettled, CdfFileAssumption DEF Settled
    <3>2. \A x, y \in Nat : x * y \in Nat
      BY Z3T(30)
    <3> QED
      BY <3>1, <3>2 DEF Extent
  <2> HIDE DEF a
  <2> QED
    BY <1>1, <1>2, <2>1, <2>2
<1> QED
  BY <1>1, <1>2, <1>3 DEF Roaming

\* A call of n elements is within bounds, and the strider stays where it is.
LEMMA CalledRoams ==
  ASSUME NEW s, NEW w, Roaming(s), s.op # "closed",
         w.v = s.v, w.geo = s.geo, w.start = s.start, w.moved = s.moved,
         w.op \in {"read", "write"} /\ IsRecord(Var(s.v)) =>
           s.start + s.moved + w.left <= Sizes[s.v] * Records
  PROVE  Roaming(w)
<1>1. s.v \in DOMAIN Vs
  BY DEF Roaming, Tracks
<1>2. IsRecord(Var(s.v)) => Extent(s.v) = Sizes[s.v] * Records
  BY <1>1, AllSettled DEF Settled, Extent
<1> QED
  BY <1>2 DEF Roaming

\* A step that writes nothing, and keeps the variables of the open striders.
LEMMA OwnedKept ==
  ASSUME NEW t, NEW h, NEW s, NEW w, Owned(t, h, s),
         s.op # "closed" => w.op # "closed" /\ w.v = s.v
  PROVE  Owned(t, h, w)
  BY DEF Owned

\* A write of c..c+n-1 by who.
LEMMA OwnedPut ==
  ASSUME NEW t, NEW c \in Nat, NEW n \in Nat, NEW who, Bounded(DOMAIN t), NEW h, NEW s,
         Owned(t, h, s),
         who = h => /\ s.op # "closed"
                    /\ \A x \in 0..n-1 : \E k \in Bytes[s.v] : Place[s.v][k] = c + x
  PROVE  Owned(Put(t, c, n, who), h, s)
<1> DEFINE u == Put(t, c, n, who)
<1>1. /\ DOMAIN u = DOMAIN t \cup (c..c+n-1)
      /\ \A o \in c..c+n-1 : u[o] = who
      /\ \A o \in DOMAIN t : o \notin c..c+n-1 => u[o] = t[o]
  <2> HIDE DEF u
  <2>1. u = Put(t, c, n, who)
    BY DEF u
  <2>2. IsPut(t, c, n, who, u)
    BY <2>1, PutExact
  <2> QED
    BY <2>2 DEF IsPut
<1> HIDE DEF u
<1>2. ASSUME NEW o \in DOMAIN u, u[o] = h
      PROVE  s.op # "closed" /\ \E k \in Bytes[s.v] : Place[s.v][k] = o
  <2>1. CASE o \in c..c+n-1
    <3>1. who = h
      BY <1>1, <1>2, <2>1
    <3>2. o - c \in 0..n-1 /\ o = c + (o - c)
      BY <2>1
    <3> QED
      BY <3>1, <3>2
  <2>2. CASE o \notin c..c+n-1
    BY <1>1, <1>2, <2>2 DEF Owned
  <2> QED
    BY <2>1, <2>2
<1>3. Owned(u, h, s)
  BY <1>2 DEF Owned
<1> QED
  BY <1>3 DEF u

\* One strider changes, and with it what it owns.
LEMMA OwnersKept ==
  ASSUME OInv, st \in [Handles -> Striders], NEW hd \in Handles, NEW w, OneMoves(hd, w),
         Roaming(w), UNCHANGED store,
         st[hd].op # "closed" => w.op # "closed" /\ w.v = st[hd].v
  PROVE  OInv'
<1>1. st'[hd] = w /\ \A h \in Handles \ {hd} : st'[h] = st[h]
  BY DEF OneMoves
<1>2. ASSUME NEW h \in Handles PROVE Roaming(st'[h]) /\ Owned(store', h, st'[h])
  <2>1. Roaming(st[h]) /\ Owned(store, h, st[h]) /\ store' = store
    BY DEF OInv
  <2>2. CASE h = hd
    <3>1. Owned(store, hd, w)
      BY <2>1, <2>2, OwnedKept
    <3> QED
      BY <1>1, <2>1, <2>2, <3>1
  <2>3. CASE h # hd
    BY <1>1, <2>1, <2>3
  <2> QED
    BY <2>2, <2>3
<1> QED
  BY <1>2 DEF OInv

\* Every step keeps the second invariant.
LEMMA OwnersKeep == CornersAligned => (IInv /\ OInv /\ [Next]_vars => OInv')
<1> SUFFICES ASSUME CornersAligned, IInv, OInv, [Next]_vars PROVE OInv'
  OBVIOUS
<1>1. /\ st \in [Handles -> Striders] /\ \A hd \in Handles : Moving(st[hd]) /\ st[hd] \in Striders
      /\ \A q \in ranges : Pending(q)
      /\ Bounded(DOMAIN store)
  BY DEF IInv, StoreOK
<1>2. \A hd \in Handles : Roaming(st[hd])
  BY DEF OInv
<1>3. ASSUME NEW hd \in Handles, OpenStrider(hd) PROVE OInv'
  <2>1. st[hd].op = "closed" /\ UNCHANGED store
    BY <1>3, OpenStep
  <2>2. PICK c \in Corners, w \in Striders :
          /\ OneMoves(hd, w)
          /\ w.op = "idle" /\ w.v = c.v /\ w.geo = StriderOf(Var(c.v), c.b, c.e)
          /\ w.moved = 0 /\ w.start = CornerByte(Var(c.v), c.b)
    BY <1>3, OpenStep
  <2>3. Roaming(w)
    BY <2>2, OpenedRoams
  <2> QED
    BY <1>1, <2>1, <2>2, <2>3, OwnersKept
<1>4. ASSUME NEW hd \in Handles, NEW op \in {"read", "write"}, NEW n \in Counts, Call(hd, op, n)
      PROVE  OInv'
  <2>1. /\ st[hd].op = "idle" /\ UNCHANGED store
        /\ IsRecord(Var(st[hd].v)) =>
             st[hd].start + st[hd].moved + n * st[hd].geo.elemsz <= Sizes[st[hd].v] * Records
    BY <1>1, <1>4, CallStep
  <2>2. PICK w \in Striders :
          /\ OneMoves(hd, w)
          /\ w.op = op /\ w.v = st[hd].v /\ w.geo = st[hd].geo /\ w.start = st[hd].start
          /\ w.moved = st[hd].moved /\ w.left = n * st[hd].geo.elemsz
    BY <1>1, <1>4, CallStep
  <2>3. Roaming(w)
    <3>1. st[hd].op # "closed" /\ Roaming(st[hd])
      BY <1>2, <2>1
    <3> QED
      BY <2>1, <2>2, <3>1, CalledRoams
  <2>4. w.op # "closed"
    BY <2>2
  <2> QED
    BY <1>1, <2>1, <2>2, <2>3, <2>4, OwnersKept
<1>5. ASSUME NEW hd \in Handles, Panic(hd) PROVE OInv'
  <2>1. UNCHANGED store
    BY <1>5 DEF Panic
  <2>2. PICK w \in Striders :
          /\ OneMoves(hd, w)
          /\ w.op = "idle" /\ w.v = st[hd].v /\ w.geo = st[hd].geo /\ w.start = st[hd].start
          /\ w.moved = st[hd].moved /\ st[hd].op # "closed"
    BY <1>1, <1>5, PanicStep
  <2>3. Roaming(w)
    BY <1>2, <2>2, CalledRoams
  <2>4. w.op # "closed"
    BY <2>2
  <2> QED
    BY <1>1, <2>1, <2>2, <2>3, <2>4, OwnersKept
<1>6. ASSUME NEW hd \in Handles, ReadChunk(hd) PROVE OInv'
  <2>1. st[hd].op = "read" /\ UNCHANGED store
    BY <1>1, <1>6, ReadStep
  <2>2. PICK nr \in Nat : \E w : nr <= Nn(st[hd]) /\ Moved1(hd, nr, w)
    BY <1>1, <1>6, ReadStep
  <2>3. PICK w : nr <= Nn(st[hd]) /\ Moved1(hd, nr, w)
    BY <2>2
  <2>4. Roaming(w)
    <3>1. st[hd].op \in {"read", "write"}
      BY <2>1
    <3> QED
      BY <1>1, <1>2, <2>3, <3>1, Carries
  <2>5. OneMoves(hd, w) /\ w.op # "closed" /\ w.v = st[hd].v
    BY <2>3 DEF Moved1
  <2> QED
    BY <1>1, <2>1, <2>4, <2>5, OwnersKept
<1>7. ASSUME NEW hd \in Handles, WriteChunk(hd) PROVE OInv'
  <2>1. st[hd].op = "write" /\ st[hd].curr \in Nat
    BY <1>1, <1>7, WriteStep
  <2>2. PICK nr \in Nat : \E w : /\ nr <= Nn(st[hd]) /\ Moved1(hd, nr, w)
                                 /\ store' = Put(store, st[hd].curr, nr, hd)
    BY <1>1, <1>7, WriteStep
  <2>3. PICK w : /\ nr <= Nn(st[hd]) /\ Moved1(hd, nr, w)
                 /\ store' = Put(store, st[hd].curr, nr, hd)
    BY <2>2
  <2>4. /\ Roaming(w)
        /\ \A x \in 0..nr-1 : \E k \in Bytes[st[hd].v] : Place[st[hd].v][k] = st[hd].curr + x
    <3>1. st[hd].op \in {"read", "write"}
      BY <2>1
    <3> QED
      BY <1>1, <1>2, <2>3, <3>1, Carries
  <2>5. /\ st'[hd] = w /\ \A h \in Handles \ {hd} : st'[h] = st[h]
        /\ w.op # "closed" /\ w.v = st[hd].v
    <3>1. OneMoves(hd, w) /\ w.op # "closed" /\ w.v = st[hd].v
      BY <2>3 DEF Moved1
    <3> QED
      BY <1>1, <3>1 DEF OneMoves
  <2>6. ASSUME NEW h \in Handles PROVE Owned(store', h, st'[h])
    <3>1. Owned(store, h, st[h]) /\ st[hd].op # "closed"
      BY <2>1 DEF OInv
    <3>2. Owned(Put(store, st[hd].curr, nr, hd), h, st[h])
      BY <1>1, <2>1, <2>4, <3>1, OwnedPut
    <3>3. Owned(store', h, st[h])
      BY <2>3, <3>2
    <3>4. st'[h] = st[h] \/ (h = hd /\ st'[h] = w)
      BY <2>5
    <3> QED
      BY <2>5, <3>3, <3>4, OwnedKept
  <2>7. \A h \in Handles : Roaming(st'[h])
    BY <1>2, <2>4, <2>5
  <2> QED
    BY <2>6, <2>7 DEF OInv
<1>8. ASSUME UNCHANGED <<store, st>> PROVE OInv'
  BY <1>8 DEF OInv
<1>9. CASE FillStep
  <2>1. UNCHANGED st
    BY <1>1, <1>9, FillStepExact
  <2>2. PICK i, r, c, n : Filled(i, r, c, n)
    BY <1>1, <1>9, FillStepExact
  <2> DEFINE by == Filling(i, r)
  <2>3. /\ i \in DOMAIN Vs /\ r \in 0..Records-1 /\ c \in Nat /\ n \in Nat
        /\ store' = Put(store, c, n, by)
    BY <2>2 DEF Filled
  <2>4. by \notin Handles
    BY <2>3, CdfFileAssumption DEF Vs
  <2> HIDE DEF by
  <2>5. ASSUME NEW h \in Handles PROVE Owned(store', h, st[h])
    <3>1. Owned(store, h, st[h]) /\ by # h
      BY <2>4 DEF OInv
    <3> QED
      BY <1>1, <2>3, <3>1, OwnedPut
  <2> QED
    BY <1>2, <2>1, <2>5 DEF OInv
<1>10. CASE \/ \E i \in DOMAIN Vs : Fill(i)
            \/ \E r \in 0..Records-1 : FillRecord(r)
            \/ Stat \/ WriteNumRecs \/ Create \/ UNCHANGED vars
  <2>1. UNCHANGED <<store, st>>
    BY <1>10 DEF Fill, FillRecord, StartFill, Stat, WriteNumRecs, Create, vars
  <2> QED
    BY <1>8, <2>1
<1> QED
  BY <1>3, <1>4, <1>5, <1>6, <1>7, <1>9, <1>10 DEF Next

\* The second invariant, where corners are aligned.
THEOREM Owners == CornersAligned => (Spec => []OInv)
<1>1. Init => OInv
  <2> SUFFICES ASSUME Init PROVE OInv
    OBVIOUS
  <2>1. store = <<>> /\ \A hd \in Handles : st[hd].op = "closed"
    BY DEF Init, Closed
  <2>2. DOMAIN store = {}
    BY <2>1
  <2> QED
    BY <2>1, <2>2 DEF OInv, Roaming, Owned
<1>2. CornersAligned => (IInv /\ OInv /\ [Next]_vars => OInv')
  BY OwnersKeep
<1> SUFFICES ASSUME CornersAligned PROVE Spec => []OInv
  OBVIOUS
<1>3. IInv /\ OInv /\ [Next]_vars => OInv'
  BY <1>2
<1> QED
  BY <1>1, <1>3, Invariance, PTL DEF Spec

\* Striders write bytes of their own variable only, from the corners of records on.
THEOREM StridersOwnBytes == CornersAligned => (Spec => []OwnBytes)
<1> SUFFICES ASSUME CornersAligned PROVE Spec => []OwnBytes
  OBVIOUS
<1>1. OInv => OwnBytes
  BY DEF OInv, Owned, OwnBytes
<1>2. Spec => []OInv
  BY Owners
<1> QED
  BY <1>1, <1>2, PTL

-----------------------------------------------------------------------------
(* Every variable is an array of its own.                                  *)

\* What an open strider is for its user: a place in a variable.
AtBar(s) == IF s.op = "closed" THEN <<>> ELSE <<s.v, s.start + s.moved>>

\* What storage t is for its users.
ByteIn(t, o) == IF o \in DOMAIN t THEN t[o] ELSE Nobody
\* The arrays of the variables in storage t.
ArrBar(t) == [i \in DOMAIN Vs |-> [k \in Bytes[i] |-> ByteIn(t, Place[i][k])]]

\* These are the two parts of the refinement mapping.
LEMMA BarsAre ==
  /\ arrBar = ArrBar(store) /\ arrBar' = ArrBar(store')
  /\ atBar = [hd \in Handles |-> AtBar(st[hd])] /\ atBar' = [hd \in Handles |-> AtBar(st'[hd])]
<1>1. arrBar = ArrBar(store) /\ arrBar' = ArrBar(store')
  BY DEF arrBar, ArrBar, ByteAt, ByteIn
<1>2. /\ atBar = [hd \in Handles |-> AtBar(st[hd])]
      /\ atBar' = [hd \in Handles |-> AtBar(st'[hd])]
  BY DEF atBar, AtBar
<1> QED
  BY <1>1, <1>2

\* No two bytes of variables are at one place of the file.
LEMMA PlacesDiffer ==
  ASSUME NEW i \in DOMAIN Vs, NEW j \in DOMAIN Vs, NEW k \in Bytes[i], NEW m \in Bytes[j],
         Place[i][k] = Place[j][m]
  PROVE  i = j /\ k = m
<1> DEFINE r == k \div Sizes[i]
           b == k % Sizes[i]
           s == m \div Sizes[j]
           c == m % Sizes[j]
<1>1. ByteOf(i, k, r, b) /\ ByteOf(j, m, s, c)
  BY ByteRecord
<1> HIDE DEF r, b, s, c
<1>2. /\ r \in Nat /\ (IsRecord(Var(i)) \/ r = 0) /\ b \in 0..Sizes[i]-1 /\ k = r * Sizes[i] + b
      /\ s \in Nat /\ (IsRecord(Var(j)) \/ s = 0) /\ c \in 0..Sizes[j]-1 /\ m = s * Sizes[j] + c
      /\ ByteOffset(Var(i), r, b) = ByteOffset(Var(j), s, c)
  BY <1>1 DEF ByteOf
<1>3. Sizes[i] = VSize(Var(i)) /\ Sizes[j] = VSize(Var(j))
  BY AllSettled DEF Settled
<1>4. b \in 0..VSize(Var(i))-1 /\ c \in 0..VSize(Var(j))-1
  BY <1>2, <1>3
<1>5. Spaced(Header) /\ DOMAIN Vs \subseteq Nat
  BY HeaderLaidOut
<1>6. i = j /\ r = s /\ b = c
  BY <1>2, <1>4, <1>5, BytesApart DEF Var, Vs
<1> QED
  BY <1>2, <1>6

\* n bytes of variable i from byte a on are stored from offset c on.
StoredAt(i, a, c, n) == \A x \in 0..n-1 : a + x \in Bytes[i] /\ Place[i][a + x] = c + x

\* Arrays x after n bytes of row i, from byte a on, were overwritten by who.
Overwritten(x, i, a, n, who) ==
  [x EXCEPT ![i] = [k \in Bytes[i] |-> IF k \in a..a+n-1 THEN who ELSE @[k]]]

\* Writing at the place of byte k of variable i is writing byte k of variable i.
LEMMA PutInto ==
  ASSUME NEW i \in DOMAIN Vs, NEW a \in Nat, NEW c \in Nat, NEW n \in Nat, NEW who,
         StoredAt(i, a, c, n), NEW t, Bounded(DOMAIN t)
  PROVE  ArrBar(Put(t, c, n, who)) = Overwritten(ArrBar(t), i, a, n, who)
<1> DEFINE u == Put(t, c, n, who)
<1>1. /\ DOMAIN u = DOMAIN t \cup (c..c+n-1)
      /\ \A o \in c..c+n-1 : u[o] = who
      /\ \A o \in DOMAIN t : o \notin c..c+n-1 => u[o] = t[o]
  <2> HIDE DEF u
  <2>1. u = Put(t, c, n, who)
    BY DEF u
  <2>2. IsPut(t, c, n, who, u)
    BY <2>1, PutExact
  <2> QED
    BY <2>2 DEF IsPut
<1> HIDE DEF u
<1>2. \A o : ByteIn(u, o) = IF o \in c..c+n-1 THEN who ELSE ByteIn(t, o)
  BY <1>1 DEF ByteIn
<1>3. ASSUME NEW j \in DOMAIN Vs, NEW k \in Bytes[j]
      PROVE  Place[j][k] \in c..c+n-1 <=> j = i /\ k \in a..a+n-1
  <2>1. ASSUME Place[j][k] \in c..c+n-1 PROVE j = i /\ k \in a..a+n-1
    <3>1. PICK x \in 0..n-1 : Place[j][k] = c + x
      <4>1. Place[j][k] - c \in 0..n-1 /\ Place[j][k] = c + (Place[j][k] - c)
        BY <2>1
      <4> QED
        BY <4>1
    <3>2. a + x \in Bytes[i] /\ Place[i][a + x] = Place[j][k]
      BY <3>1 DEF StoredAt
    <3>3. j = i /\ k = a + x
      BY <3>2, PlacesDiffer
    <3> QED
      BY <3>3
  <2>2. ASSUME j = i, k \in a..a+n-1 PROVE Place[j][k] \in c..c+n-1
    <3>1. PICK x \in 0..n-1 : k = a + x
      <4>1. k - a \in 0..n-1 /\ k = a + (k - a)
        BY <2>2
      <4> QED
        BY <4>1
    <3>2. Place[j][k] = c + x
      BY <2>2, <3>1 DEF StoredAt
    <3> QED
      BY <3>2
  <2> QED
    BY <2>1, <2>2
<1> DEFINE old == ArrBar(t)
           row == [k \in Bytes[i] |-> IF k \in a..a+n-1 THEN who ELSE old[i][k]]
           new == [old EXCEPT ![i] = row]
<1>4. /\ DOMAIN new = DOMAIN Vs /\ new[i] = row
      /\ \A j \in DOMAIN Vs : j # i => new[j] = old[j]
  BY DEF ArrBar
<1>5. \A j \in DOMAIN Vs : old[j] = [k \in Bytes[j] |-> ByteIn(t, Place[j][k])]
  BY DEF ArrBar
<1> HIDE DEF old
<1>6. ASSUME NEW j \in DOMAIN Vs PROVE ArrBar(u)[j] = new[j]
  <2>1. ArrBar(u)[j] = [k \in Bytes[j] |-> ByteIn(u, Place[j][k])]
    BY DEF ArrBar
  <2>2. CASE j = i
    <3>1. \A k \in Bytes[i] : ByteIn(u, Place[i][k]) =
             IF k \in a..a+n-1 THEN who ELSE old[i][k]
      <4> TAKE k \in Bytes[i]
      <4>1. old[i][k] = ByteIn(t, Place[i][k])
        BY <1>5
      <4>2. Place[i][k] \in c..c+n-1 <=> k \in a..a+n-1
        BY <1>3
      <4> QED
        BY <1>2, <4>1, <4>2
    <3> QED
      BY <1>4, <2>1, <2>2, <3>1
  <2>3. CASE j # i
    <3>1. \A k \in Bytes[j] : ByteIn(u, Place[j][k]) = ByteIn(t, Place[j][k])
      BY <1>2, <1>3, <2>3
    <3> QED
      BY <1>4, <1>5, <2>1, <2>3, <3>1
  <2> QED
    BY <2>2, <2>3
<1>7. DOMAIN ArrBar(u) = DOMAIN Vs /\ ArrBar(u) = [j \in DOMAIN Vs |-> ArrBar(u)[j]]
  BY DEF ArrBar
<1>8. new = [j \in DOMAIN Vs |-> new[j]]
  BY <1>4
<1> HIDE DEF new
<1>9. ArrBar(u) = new
  BY <1>6, <1>7, <1>8
<1> QED
  BY <1>9 DEF u, new, old, Overwritten

\* Of a write of no bytes, and a write of a fill.
LEMMA PutNothing ==
  ASSUME NEW t, NEW c \in Nat, NEW who, Bounded(DOMAIN t)
  PROVE  ArrBar(Put(t, c, 0, who)) = ArrBar(t)
<1> DEFINE u == Put(t, c, 0, who)
<1>1. c..c+0-1 = {}
  OBVIOUS
<1>2. DOMAIN u = DOMAIN t /\ \A o \in DOMAIN t : u[o] = t[o]
  BY <1>1 DEF Put
<1> HIDE DEF u
<1>3. \A o : ByteIn(u, o) = ByteIn(t, o)
  BY <1>2 DEF ByteIn
<1>4. ArrBar(u) = ArrBar(t)
  BY <1>3 DEF ArrBar
<1> QED
  BY <1>4 DEF u

\* Fills only change the bytes of their record.
LEMMA PutOfFill ==
  ASSUME SlabsPadded, NEW i \in DOMAIN Vs, NEW r \in 0..Records-1, NEW c \in Nat, NEW n \in Nat,
         \A o \in c..c+n-1 : Within(o, i, r), NEW who, NEW t, Bounded(DOMAIN t),
         NEW j \in DOMAIN Vs, NEW k \in Bytes[j]
  PROVE  \/ ArrBar(Put(t, c, n, who))[j][k] = ArrBar(t)[j][k]
         \/ j = i /\ k \div Sizes[j] = r /\ ArrBar(Put(t, c, n, who))[j][k] = who
<1> DEFINE u == Put(t, c, n, who)
           o == Place[j][k]
<1>1. /\ DOMAIN u = DOMAIN t \cup (c..c+n-1)
      /\ \A x \in c..c+n-1 : u[x] = who
      /\ \A x \in DOMAIN t : x \notin c..c+n-1 => u[x] = t[x]
  <2> HIDE DEF u
  <2>1. u = Put(t, c, n, who)
    BY DEF u
  <2>2. IsPut(t, c, n, who, u)
    BY <2>1, PutExact
  <2> QED
    BY <2>2 DEF IsPut
<1> HIDE DEF u
<1>2. ByteIn(u, o) = IF o \in c..c+n-1 THEN who ELSE ByteIn(t, o)
  BY <1>1 DEF ByteIn
<1>3. ArrBar(u)[j][k] = ByteIn(u, o) /\ ArrBar(t)[j][k] = ByteIn(t, o)
  BY DEF ArrBar
<1>4. o \in c..c+n-1 => j = i /\ k \div Sizes[j] = r
  <2>1. ASSUME o \in c..c+n-1 PROVE i = j /\ r = k \div Sizes[j]
    BY <2>1, OwnRecord
  <2> QED
    BY <2>1
<1>5. \/ ArrBar(u)[j][k] = ArrBar(t)[j][k]
      \/ j = i /\ k \div Sizes[j] = r /\ ArrBar(u)[j][k] = who
  BY <1>2, <1>3, <1>4
<1> QED
  BY <1>5 DEF u

\* The names of the two files for the same sets.
LEMMA SameBytes ==
  /\ VS!Vars = DOMAIN Vs /\ \A i \in DOMAIN Vs : VS!Bytes(i) = Bytes[i]
  /\ \A i \in DOMAIN Vs : Sizes[i] \in Nat \ {0} /\ RecordsOf[i] \in Nat \ {0}
  /\ \A i \in DOMAIN Vs : Bytes[i] \subseteq Nat
<1>1. VS!Vars = DOMAIN Vs /\ \A i \in DOMAIN Vs : VS!Bytes(i) = Bytes[i]
  BY DEF VS!Vars, VS!Bytes, Sizes, Bytes
<1>2. \A i \in DOMAIN Vs : Sizes[i] \in Nat \ {0} /\ RecordsOf[i] \in Nat \ {0}
  BY AllSettled, CdfFileAssumption DEF Settled
<1>3. \A i \in DOMAIN Vs : Bytes[i] \subseteq Nat
  BY <1>1 DEF Bytes
<1> QED
  BY <1>1, <1>2, <1>3

\* A new file is a new array store.
LEMMA StoreBegins == Init => VS!Init
<1> SUFFICES ASSUME Init PROVE VS!Init
  OBVIOUS
<1>1. /\ store = <<>> /\ st = [hd \in Handles |-> Closed] /\ seen = [hd \in Handles |-> <<>>]
  BY DEF Init
<1>2. \A o : ByteIn(store, o) = Nobody
  <2>1. DOMAIN store = {}
    BY <1>1
  <2> QED
    BY <2>1 DEF ByteIn
<1>3. arrBar = [i \in DOMAIN Vs |-> [k \in Bytes[i] |-> Nobody]]
  BY <1>2, BarsAre DEF ArrBar
<1>4. arrBar = [i \in VS!Vars |-> [k \in VS!Bytes(i) |-> Nobody]]
  <2>1. [i \in VS!Vars |-> [k \in VS!Bytes(i) |-> Nobody]]
          = [i \in DOMAIN Vs |-> [k \in Bytes[i] |-> Nobody]]
    BY SameBytes
  <2> QED
    BY <1>3, <2>1
<1>5. atBar = [hd \in Handles |-> <<>>]
  <2>1. \A hd \in Handles : AtBar(st[hd]) = <<>>
    BY <1>1 DEF AtBar, Closed
  <2> QED
    BY <2>1, BarsAre
<1> QED
  BY <1>1, <1>4, <1>5 DEF VS!Init

\* One handle moves, the others stay.
LEMMA OneStands ==
  ASSUME st \in [Handles -> Striders], NEW hd \in Handles, NEW w, OneMoves(hd, w)
  PROVE  /\ atBar' = [atBar EXCEPT ![hd] = AtBar(w)] /\ atBar[hd] = AtBar(st[hd])
         /\ AtBar(w) = AtBar(st[hd]) => atBar' = atBar
<1>1. st'[hd] = w /\ \A h \in Handles \ {hd} : st'[h] = st[h]
  BY DEF OneMoves
<1>2. atBar = [h \in Handles |-> AtBar(st[h])] /\ atBar' = [h \in Handles |-> AtBar(st'[h])]
  BY BarsAre
<1>3. \A h \in Handles : AtBar(st'[h]) = IF h = hd THEN AtBar(w) ELSE AtBar(st[h])
  BY <1>1
<1> HIDE DEF OneMoves
<1>4. atBar' = [h \in Handles |-> IF h = hd THEN AtBar(w) ELSE AtBar(st[h])]
  BY <1>2, <1>3
<1>5. [atBar EXCEPT ![hd] = AtBar(w)] = [h \in Handles |-> IF h = hd THEN AtBar(w) ELSE AtBar(st[h])]
  BY <1>2
<1>6. AtBar(w) = AtBar(st[hd]) => atBar' = atBar
  BY <1>2, <1>4
<1> QED
  BY <1>2, <1>4, <1>5, <1>6

\* Opening a strider attaches a handle.
LEMMA OpenAttaches ==
  ASSUME CornersAligned, IInv, NEW hd \in Handles, OpenStrider(hd)
  PROVE  VS!Attach(hd)
<1>1. st \in [Handles -> Striders]
  BY DEF IInv
<1>2. st[hd].op = "closed" /\ UNCHANGED <<store, seen>>
  BY OpenStep
<1>3. PICK c \in Corners, w \in Striders :
        /\ OneMoves(hd, w)
        /\ w.op = "idle" /\ w.v = c.v /\ w.geo = StriderOf(Var(c.v), c.b, c.e)
        /\ w.moved = 0 /\ w.start = CornerByte(Var(c.v), c.b)
  BY OpenStep
<1>4. w.v \in DOMAIN Vs /\ w.start \in Bytes[w.v]
  BY <1>3, OpenedRoams
<1>5. AtBar(w) = <<w.v, w.start>>
  <2>1. w.start \in Nat /\ w.start + w.moved = w.start
    BY <1>3, <1>4, SameBytes
  <2> QED
    BY <1>3, <2>1 DEF AtBar
<1>6. atBar[hd] = <<>> /\ atBar' = [atBar EXCEPT ![hd] = <<w.v, w.start>>]
  <2>1. atBar[hd] = AtBar(st[hd]) /\ atBar' = [atBar EXCEPT ![hd] = AtBar(w)]
    BY <1>1, <1>3, OneStands
  <2> QED
    BY <1>2, <1>5, <2>1 DEF AtBar
<1>7. w.v \in VS!Vars /\ w.start \in VS!Bytes(w.v)
  BY <1>4, SameBytes
<1>8. UNCHANGED <<arrBar, seen>>
  BY <1>2, BarsAre
<1> QED
  BY <1>6, <1>7, <1>8 DEF VS!Attach

\* A strider that stays where it is.
LEMMA Stands ==
  ASSUME IInv, NEW hd \in Handles, NEW w, OneMoves(hd, w), UNCHANGED <<store, seen>>,
         st[hd].op # "closed", w.op # "closed",
         w.v = st[hd].v, w.start = st[hd].start, w.moved = st[hd].moved
  PROVE  UNCHANGED VS!vars
<1>1. st \in [Handles -> Striders]
  BY DEF IInv
<1>2. AtBar(w) = AtBar(st[hd])
  BY DEF AtBar
<1>3. atBar' = atBar
  BY <1>1, <1>2, OneStands
<1>4. arrBar' = arrBar
  BY BarsAre
<1> QED
  BY <1>3, <1>4 DEF VS!vars

\* What a read and a write of nr > 0 bytes have in common: where the handle was and is.
LEMMA HandleMoves ==
  ASSUME IInv, OInv, NEW hd \in Handles, st[hd].op \in {"read", "write"},
         NEW nr \in Nat \ {0}, nr <= Nn(st[hd]), NEW w, Moved1(hd, nr, w)
  PROVE  LET i == st[hd].v  a == st[hd].start + st[hd].moved IN
         /\ atBar[hd] = <<i, a>> /\ atBar' = [atBar EXCEPT ![hd] = <<i, a + nr>>]
         /\ i \in DOMAIN Vs /\ a \in Nat /\ nr \in 1..Sizes[i] /\ a + nr - 1 \in Bytes[i]
         /\ \A x \in 0..nr-1 : a + x \in Bytes[i] /\ Place[i][a + x] = st[hd].curr + x
<1> DEFINE s == st[hd]
           i == s.v
           a == s.start + s.moved
<1>1. st \in [Handles -> Striders] /\ s \in Striders /\ Moving(s) /\ Roaming(s) /\ s.op # "closed"
  BY DEF IInv, OInv
<1>2. /\ nr <= Sizes[i] /\ i \in DOMAIN Vs /\ a \in Nat
      /\ \A x \in 0..nr-1 : a + x \in Bytes[i] /\ Place[i][a + x] = s.curr + x
  BY <1>1, Carries
<1>3. /\ OneMoves(hd, w) /\ w.op # "closed" /\ w.v = i /\ w.start + w.moved = a + nr
  <2>1. /\ OneMoves(hd, w) /\ w.op # "closed"
        /\ w.v = s.v /\ w.start = s.start /\ w.moved = s.moved + nr
    BY DEF Moved1
  <2>2. s.start \in Nat /\ s.moved \in Nat
    BY <1>1 DEF Striders
  <2> HIDE DEF s
  <2> QED
    BY <2>1, <2>2
<1>4. AtBar(s) = <<i, a>> /\ AtBar(w) = <<i, a + nr>>
  BY <1>1, <1>3 DEF AtBar
<1>5. atBar[hd] = <<i, a>> /\ atBar' = [atBar EXCEPT ![hd] = <<i, a + nr>>]
  BY <1>1, <1>3, <1>4, OneStands
<1> HIDE DEF a, i, s
<1>6. nr - 1 \in 0..nr-1 /\ a + (nr - 1) = a + nr - 1
  BY <1>2
<1>7. a + nr - 1 \in Bytes[i]
  BY <1>2, <1>6
<1>8. nr \in 1..Sizes[i]
  BY <1>2, SameBytes
<1> QED
  BY <1>2, <1>5, <1>7, <1>8 DEF a, i, s

\* What the handles have read is a function of them.
SeenTyped == seen = [hd \in Handles |-> seen[hd]]

\* A ReadAt is a Get, or nothing if it returns nothing.
LEMMA ReadGets ==
  ASSUME IInv, OInv, SeenTyped, NEW hd \in Handles, ReadChunk(hd)
  PROVE  \/ UNCHANGED VS!vars
         \/ atBar[hd] # <<>> /\ \E n \in 1..Sizes[atBar[hd][1]] : VS!Get(hd, n)
<1> DEFINE s == st[hd]
           i == s.v
           a == s.start + s.moved
<1>1. st \in [Handles -> Striders] /\ Moving(s) /\ s \in Striders
  BY DEF IInv
<1>2. s.op = "read" /\ UNCHANGED store
  BY <1>1, ReadStep
<1>3. PICK nr \in Nat : \E w : nr <= Nn(s) /\ Moved1(hd, nr, w) /\ Taken(hd, nr)
  BY <1>1, ReadStep
<1>4. PICK w : nr <= Nn(s) /\ Moved1(hd, nr, w) /\ Taken(hd, nr)
  BY <1>3
<1>5. arrBar' = arrBar /\ arrBar = ArrBar(store)
  BY <1>2, BarsAre
<1>6. CASE nr = 0
  <2>1. seen' = seen
    <3>1. seen' = [seen EXCEPT ![hd] = seen[hd]]
      BY <1>4, <1>6 DEF Taken
    <3> QED
      BY <3>1 DEF SeenTyped
  <2>2. /\ OneMoves(hd, w) /\ w.op # "closed" /\ s.op # "closed"
        /\ w.v = s.v /\ w.start = s.start /\ w.moved = s.moved + 0
    BY <1>2, <1>4, <1>6 DEF Moved1
  <2>3. w.moved = s.moved
    BY <1>1, <2>2 DEF Striders
  <2> QED
    BY <1>2, <2>1, <2>2, <2>3, Stands
<1>7. CASE nr # 0
  <2>1. nr \in Nat \ {0} /\ nr > 0 /\ s.op \in {"read", "write"}
    BY <1>2, <1>7
  <2>2. /\ atBar[hd] = <<i, a>> /\ atBar' = [atBar EXCEPT ![hd] = <<i, a + nr>>]
        /\ i \in DOMAIN Vs /\ a \in Nat /\ nr \in 1..Sizes[i] /\ a + nr - 1 \in Bytes[i]
        /\ \A x \in 0..nr-1 : a + x \in Bytes[i] /\ Place[i][a + x] = s.curr + x
    BY <1>4, <2>1, HandleMoves
  <2>3. \A x \in 1..nr : arrBar[i][a + x - 1] = ByteAt(s.curr + x - 1)
    <3> TAKE x \in 1..nr
    <3>1. x - 1 \in 0..nr-1 /\ a + (x - 1) = a + x - 1
      BY <2>2
    <3>2. a + x - 1 \in Bytes[i] /\ Place[i][a + x - 1] = s.curr + (x - 1)
      BY <2>2, <3>1
    <3>3. s.curr \in Nat /\ s.curr + (x - 1) = s.curr + x - 1
      BY <1>1 DEF Striders
    <3>4. arrBar[i][a + x - 1] = ByteIn(store, Place[i][a + x - 1])
      BY <1>5, <2>2, <3>2 DEF ArrBar
    <3> QED
      BY <3>2, <3>3, <3>4 DEF ByteIn, ByteAt
  <2>4. seen' = [seen EXCEPT ![hd] = [x \in 1..nr |-> arrBar[i][a + x - 1]]]
    <3>1. seen' = [seen EXCEPT ![hd] = [x \in 1..nr |-> ByteAt(s.curr + x - 1)]]
      BY <1>4, <2>1 DEF Taken
    <3>2. [x \in 1..nr |-> ByteAt(s.curr + x - 1)] = [x \in 1..nr |-> arrBar[i][a + x - 1]]
      BY <2>3
    <3> QED
      BY <3>1, <3>2
  <2> HIDE DEF a, i, s
  <2>5. atBar[hd] # <<>> /\ atBar[hd][1] = i /\ atBar[hd][2] = a
    BY <2>2
  <2>6. a + nr - 1 \in VS!Bytes(i)
    BY <2>2, SameBytes
  <2>7. VS!Get(hd, nr)
    BY <1>5, <2>2, <2>4, <2>5, <2>6 DEF VS!Get
  <2> QED
    BY <2>2, <2>5, <2>7
<1> QED
  BY <1>6, <1>7

\* A WriteAt is a Put, or nothing if it writes nothing.
LEMMA WritePuts ==
  ASSUME IInv, OInv, NEW hd \in Handles, WriteChunk(hd)
  PROVE  \/ UNCHANGED VS!vars
         \/ atBar[hd] # <<>> /\ \E n \in 1..Sizes[atBar[hd][1]] : VS!Put(hd, n)
<1> DEFINE s == st[hd]
           i == s.v
           a == s.start + s.moved
<1>1. st \in [Handles -> Striders] /\ Moving(s) /\ s \in Striders /\ Bounded(DOMAIN store)
  BY DEF IInv, StoreOK
<1>2. s.op = "write" /\ UNCHANGED seen /\ s.curr \in Nat
  BY <1>1, WriteStep
<1>3. PICK nr \in Nat : \E w : /\ nr <= Nn(s) /\ Moved1(hd, nr, w)
                               /\ store' = Put(store, s.curr, nr, hd)
  BY <1>1, WriteStep
<1>4. PICK w : nr <= Nn(s) /\ Moved1(hd, nr, w) /\ store' = Put(store, s.curr, nr, hd)
  BY <1>3
<1>5. arrBar' = ArrBar(store') /\ arrBar = ArrBar(store)
  BY BarsAre
<1>6. CASE nr = 0
  <2>1. arrBar' = arrBar
    BY <1>1, <1>2, <1>4, <1>5, <1>6, PutNothing
  <2>2. /\ OneMoves(hd, w) /\ w.op # "closed" /\ s.op # "closed"
        /\ w.v = s.v /\ w.start = s.start /\ w.moved = s.moved + 0
    BY <1>2, <1>4, <1>6 DEF Moved1
  <2>3. w.moved = s.moved
    BY <1>1, <2>2 DEF Striders
  <2>4. AtBar(w) = AtBar(s)
    BY <2>2, <2>3 DEF AtBar
  <2>5. atBar' = atBar
    BY <1>1, <2>2, <2>4, OneStands
  <2> QED
    BY <1>2, <2>1, <2>5 DEF VS!vars
<1>7. CASE nr # 0
  <2>1. nr \in Nat \ {0} /\ s.op \in {"read", "write"}
    BY <1>2, <1>7
  <2>2. /\ atBar[hd] = <<i, a>> /\ atBar' = [atBar EXCEPT ![hd] = <<i, a + nr>>]
        /\ i \in DOMAIN Vs /\ a \in Nat /\ nr \in 1..Sizes[i] /\ a + nr - 1 \in Bytes[i]
        /\ \A x \in 0..nr-1 : a + x \in Bytes[i] /\ Place[i][a + x] = s.curr + x
    BY <1>4, <2>1, HandleMoves
  <2> HIDE DEF a, i, s
  <2>3. ArrBar(Put(store, s.curr, nr, hd)) =
          [ArrBar(store) EXCEPT ![i] = [k \in Bytes[i] |-> IF k \in a..a+nr-1 THEN hd ELSE @[k]]]
    <3> DEFINE t == store
               c == s.curr
    <3>1. /\ i \in DOMAIN Vs /\ a \in Nat /\ c \in Nat /\ nr \in Nat /\ Bounded(DOMAIN t)
          /\ StoredAt(i, a, c, nr)
      BY <1>1, <1>2, <2>1, <2>2 DEF StoredAt
    <3> HIDE DEF t, c
    <3>2. ArrBar(Put(t, c, nr, hd)) = Overwritten(ArrBar(t), i, a, nr, hd)
      BY <3>1, PutInto
    <3> QED
      BY <3>2 DEF t, c, Overwritten
  <2>4. VS!Bytes(i) = Bytes[i]
    BY <2>2, SameBytes
  <2>5. arrBar' = [arrBar EXCEPT ![i] = [k \in VS!Bytes(i) |->
                                           IF k \in a..a+nr-1 THEN hd ELSE @[k]]]
    BY <1>4, <1>5, <2>3, <2>4
  <2>6. atBar[hd] # <<>> /\ atBar[hd][1] = i /\ atBar[hd][2] = a
    BY <2>2
  <2>7. VS!Put(hd, nr)
    BY <1>2, <2>2, <2>4, <2>5, <2>6 DEF VS!Put
  <2> QED
    BY <2>2, <2>6, <2>7
<1> QED
  BY <1>6, <1>7

\* A step of a fill is a fill of the record.
LEMMA FillFills ==
  ASSUME SlabsPadded, IInv, FillStep
  PROVE  \E i \in VS!Vars : \E r \in 0..RecordsOf[i]-1 : VS!Fill(i, r)
<1>1. \A q \in ranges : Pending(q)
  BY DEF IInv
<1>2. UNCHANGED <<st, seen>>
  BY <1>1, FillStepExact
<1>3. PICK i, r, c, n : Filled(i, r, c, n)
  BY <1>1, FillStepExact
<1> DEFINE by == Filling(i, r)
<1>4. /\ i \in DOMAIN Vs /\ r \in 0..Records-1 /\ c \in Nat /\ n \in Nat
      /\ \A o \in c..c+n-1 : Within(o, i, r)
      /\ store' = Put(store, c, n, by)
  BY <1>3 DEF Filled
<1>5. Bounded(DOMAIN store)
  BY DEF IInv, StoreOK
<1>6. arrBar' = ArrBar(Put(store, c, n, by)) /\ arrBar = ArrBar(store) /\ atBar' = atBar
  BY <1>2, <1>4, BarsAre
<1>7. \A j \in DOMAIN Vs : \A k \in Bytes[j] :
        \/ arrBar'[j][k] = arrBar[j][k]
        \/ j = i /\ k \div Sizes[j] = r /\ arrBar'[j][k] = by
  <2> TAKE j \in DOMAIN Vs
  <2> TAKE k \in Bytes[j]
  <2> HIDE DEF by
  <2> QED
    BY <1>4, <1>5, <1>6, PutOfFill
<1>8. DOMAIN arrBar' = DOMAIN Vs /\ \A j \in DOMAIN Vs : DOMAIN arrBar'[j] = Bytes[j]
  BY <1>6 DEF ArrBar
<1>9. VS!Fill(i, r)
  BY <1>2, <1>6, <1>7, <1>8, SameBytes DEF VS!Fill, Filling
<1>10. i \in VS!Vars /\ r \in 0..RecordsOf[i]-1
  <2>1. IsRecord(Var(i)) \/ r = 0
    BY <1>3 DEF Filled
  <2>2. RecordsOf[i] = (IF IsRecord(Var(i)) THEN Records ELSE 1)
    BY <1>4, AllSettled DEF Settled
  <2> QED
    BY <1>4, <2>1, <2>2, SameBytes, CdfFileAssumption
<1> QED
  BY <1>9, <1>10

\* Every step of the file is one of the array store, or changes nothing there.
LEMMA StepsRefine ==
  CornersAligned /\ SlabsPadded => (IInv /\ OInv /\ SeenTyped /\ [Next]_vars => [VS!Next]_(VS!vars))
<1> SUFFICES ASSUME CornersAligned, SlabsPadded, IInv, OInv, SeenTyped, [Next]_vars
             PROVE  [VS!Next]_(VS!vars)
  OBVIOUS
<1>1. /\ st \in [Handles -> Striders] /\ \A hd \in Handles : Moving(st[hd]) /\ st[hd] \in Striders
  BY DEF IInv
<1>2. ASSUME NEW hd \in Handles, OpenStrider(hd) PROVE VS!Next
  BY <1>2, OpenAttaches DEF VS!Next
<1>3. ASSUME NEW hd \in Handles, NEW op \in {"read", "write"}, NEW n \in Counts, Call(hd, op, n)
      PROVE  UNCHANGED VS!vars
  <2>1. st[hd].op = "idle" /\ UNCHANGED <<store, seen>>
    BY <1>1, <1>3, CallStep
  <2>2. PICK w \in Striders :
          /\ OneMoves(hd, w) /\ w.op = op /\ w.v = st[hd].v /\ w.start = st[hd].start
          /\ w.moved = st[hd].moved
    BY <1>1, <1>3, CallStep
  <2>3. w.op # "closed" /\ st[hd].op # "closed"
    BY <2>1, <2>2
  <2> QED
    BY <2>1, <2>2, <2>3, Stands
<1>4. ASSUME NEW hd \in Handles, Panic(hd) PROVE UNCHANGED VS!vars
  <2>1. UNCHANGED <<store, seen>>
    BY <1>4 DEF Panic
  <2>2. PICK w \in Striders :
          /\ OneMoves(hd, w) /\ w.op = "idle" /\ w.v = st[hd].v /\ w.start = st[hd].start
          /\ w.moved = st[hd].moved /\ st[hd].op # "closed"
    BY <1>1, <1>4, PanicStep
  <2>3. w.op # "closed"
    BY <2>2
  <2> QED
    BY <2>1, <2>2, <2>3, Stands
<1>5. ASSUME NEW hd \in Handles, ReadChunk(hd) PROVE [VS!Next]_(VS!vars)
  BY <1>5, ReadGets DEF VS!Next
<1>6. ASSUME NEW hd \in Handles, WriteChunk(hd) PROVE [VS!Next]_(VS!vars)
  BY <1>6, WritePuts DEF VS!Next
<1>7. CASE FillStep
  BY <1>7, FillFills DEF VS!Next
<1>8. CASE \/ \E i \in DOMAIN Vs : Fill(i)
           \/ \E r \in 0..Records-1 : FillRecord(r)
           \/ Stat \/ WriteNumRecs \/ Create \/ UNCHANGED vars
  <2>1. UNCHANGED <<store, st, seen>>
    BY <1>8 DEF Fill, FillRecord, StartFill, Stat, WriteNumRecs, Create, vars
  <2>2. UNCHANGED <<arrBar, atBar>>
    BY <2>1, BarsAre
  <2> QED
    BY <2>1, <2>2 DEF VS!vars
<1> QED
  BY <1>2, <1>3, <1>4, <1>5, <1>6, <1>7, <1>8 DEF Next

\* What the handles have read stays a function of them.
LEMMA SeenStays == Spec => []SeenTyped
<1>1. Init => SeenTyped
  BY DEF Init, SeenTyped
<1>2. SeenTyped /\ [Next]_vars => SeenTyped'
  <2> SUFFICES ASSUME SeenTyped, [Next]_vars PROVE SeenTyped'
    OBVIOUS
  <2>1. ASSUME NEW hd \in Handles, ReadChunk(hd) PROVE SeenTyped'
    BY <2>1 DEF ReadChunk, SeenTyped
  <2>2. ASSUME UNCHANGED seen PROVE SeenTyped'
    BY <2>2 DEF SeenTyped
  <2>3. \/ \E hd \in Handles : ReadChunk(hd)
        \/ UNCHANGED seen
    BY DEF Next, OpenStrider, WriteChunk, Panic, Call, Fill, FillRecord, StartFill, FillStep,
           Stat, WriteNumRecs, Create, vars
  <2> QED
    BY <2>1, <2>2, <2>3
<1> QED
  BY <1>1, <1>2, PTL DEF Spec

\* Whatever striders, fills and failing transfers do to the file, its variables are
\* arrays: handles move through them byte by byte, reads return what was written last.
THEOREM ArraysRefined == CornersAligned /\ SlabsPadded => (Spec => ActsAsVarStore)
<1> SUFFICES ASSUME CornersAligned, SlabsPadded PROVE Spec => ActsAsVarStore
  OBVIOUS
<1>1. IInv /\ OInv /\ SeenTyped /\ [Next]_vars => [VS!Next]_(VS!vars)
  BY StepsRefine
<1>2. Spec => []OInv
  BY Owners
<1>3. Spec => VS!Init /\ [][VS!Next]_(VS!vars)
  BY <1>1, <1>2, StoreBegins, Invariance, SeenStays, PTL DEF Spec
<1> QED
  BY <1>3 DEF ActsAsVarStore, VS!Spec
=============================================================================
