--------------------------- MODULE CdfLayoutProofs ---------------------------
(***************************************************************************)
(* Facts about the layout arithmetic of CdfLayout, for headers of any size *)
(* and any offset limit: what strides are, that the variables of a laid    *)
(* out header follow each other with room for each, and that the records   *)
(* of all of them lie apart; and about the arithmetic of the strider's     *)
(* loop in StriderOps, for every geometry.                                 *)
(***************************************************************************)
EXTENDS CdfLayout, StriderOps, Arithmetic

-----------------------------------------------------------------------------
(* Sizes.                                                                  *)

\* An element takes one to eight bytes.
LEMMA ElementSize == ASSUME NEW t \in DOMAIN StorageSize PROVE StorageSize[t] \in 1..8
<1>1. t \in {"BYTE", "CHAR", "SHORT", "INT", "FLOAT", "DOUBLE"}
  BY DEF StorageSize
<1> QED
  BY <1>1 DEF StorageSize

\* Padding rounds up to a multiple of four and keeps the order.
LEMMA Padding ==
  ASSUME NEW x \in Nat
  PROVE  /\ Pad4(x) \in Nat /\ x <= Pad4(x) /\ Pad4(x) < x + 4 /\ Pad4(x) % 4 = 0
         /\ x % 4 = 0 => Pad4(x) = x
  BY DEF Pad4

\* Padding keeps the order.
LEMMA PaddingMonotone ==
  ASSUME NEW x \in Nat, NEW y \in Nat, x <= y
  PROVE  Pad4(x) <= Pad4(y)
  BY DEF Pad4

\* Numbers that fit an int32 are not changed by the conversion.
LEMMA FitsInt32 ==
  ASSUME NEW x \in Nat, x < OffsetLimit
  PROVE  ToInt32(x) = x
<1> DEFINE d == 2 * OffsetLimit
           y == x + OffsetLimit
<1>1. d \in Nat \ {0} /\ y \in 0..d-1 /\ OffsetLimit \in Nat
  BY OffsetLimitAssumption
<1>2. (0 * d + y) % d = y
  <2> HIDE DEF d, y
  <2> QED
    BY <1>1, DivUnique
<1>3. 0 * d + y = y
  BY <1>1
<1>4. y % d = y
  BY <1>2, <1>3
<1> QED
  BY <1>1, <1>4 DEF ToInt32

\* The conversion gives a number in any case.
LEMMA Int32Typed ==
  ASSUME NEW x \in Int
  PROVE  ToInt32(x) \in Int
<1>1. 2 * OffsetLimit \in Nat \ {0} /\ OffsetLimit \in Nat
  BY OffsetLimitAssumption
<1> DEFINE d == 2 * OffsetLimit
           y == x + OffsetLimit
<1>2. y % d \in Int
  <2>1. y \in Int /\ d \in Nat \ {0}
    BY <1>1
  <2> HIDE DEF y, d
  <2> QED
    BY <2>1, Z3T(30)
<1> HIDE DEF d
<1> QED
  BY <1>1, <1>2 DEF ToInt32, d

-----------------------------------------------------------------------------
(* Strides.                                                                *)

\* s holds the strides from dimension k on, as setComputed multiplies them up.
IsStrides(s, lengths, es, k) ==
  s = [i \in k..Len(lengths)+1 |->
         IF i = Len(lengths) + 1 THEN es ELSE lengths[i] * s[i + 1]]

\* The recursion of setComputed, from the last stride to the first.
LEMMA StridesRecursion ==
  ASSUME NEW lengths \in Seq(Int), NEW es \in Int
  PROVE  /\ Strides(lengths, es) \in [1..Len(lengths)+1 -> Int]
         /\ IsStrides(Strides(lengths, es), lengths, es, 1)
<1> DEFINE n == Len(lengths)
           T == {m \in Nat : m <= n =>
                   \E s \in [n+1-m..n+1 -> Int] : IsStrides(s, lengths, es, n+1-m)}
<1>1. n \in Nat /\ \A i \in 1..n : lengths[i] \in Int
  OBVIOUS
<1>2. 0 \in T
  <2> DEFINE s == [i \in n+1..n+1 |-> es]
  <2>1. s \in [n+1..n+1 -> Int] /\ IsStrides(s, lengths, es, n+1)
    BY <1>1 DEF IsStrides
  <2> HIDE DEF s
  <2> QED
    BY <1>1, <2>1
<1>3. ASSUME NEW m \in Nat, m \in T PROVE m + 1 \in T
  <2> SUFFICES ASSUME m + 1 <= n
               PROVE  \E s \in [n-m..n+1 -> Int] : IsStrides(s, lengths, es, n-m)
    BY <1>1
  <2> HIDE DEF T, n
  <2>1. PICK s \in [n+1-m..n+1 -> Int] : IsStrides(s, lengths, es, n+1-m)
    BY <1>1, <1>3 DEF T
  <2>2. n - m \in 1..n
    BY <1>1
  <2> DEFINE t == [i \in n-m..n+1 |-> IF i = n - m THEN lengths[i] * s[i + 1] ELSE s[i]]
  <2>3. \A i \in n-m..n+1 : i # n - m => i \in n+1-m..n+1
    BY <1>1
  <2>4. s[n - m + 1] \in Int /\ lengths[n - m] \in Int
    BY <1>1, <2>2
  <2>5. lengths[n - m] * s[n - m + 1] \in Int
    BY <2>4
  <2>6. t \in [n-m..n+1 -> Int]
    BY <1>1, <2>3, <2>5
  <2>7. \A i \in n-m..n+1 :
          t[i] = IF i = n + 1 THEN es ELSE lengths[i] * t[i + 1]
    <3> TAKE i \in n-m..n+1
    <3>1. CASE i = n - m
      BY <1>1, <2>2, <2>3, <3>1
    <3>2. CASE i # n - m
      <4>1. t[i] = s[i] /\ i \in n+1-m..n+1
        BY <2>3, <3>2
      <4>2. s[i] = IF i = n + 1 THEN es ELSE lengths[i] * s[i + 1]
        BY <2>1, <4>1 DEF IsStrides, n
      <4>3. i # n + 1 => t[i + 1] = s[i + 1]
        BY <1>1, <2>2, <4>1
      <4> QED
        BY <4>1, <4>2, <4>3
    <3> QED
      BY <3>1, <3>2
  <2>8. IsStrides(t, lengths, es, n-m)
    <3>1. t = [i \in n-m..n+1 |-> t[i]]
      OBVIOUS
    <3> HIDE DEF t
    <3>2. t = [i \in n-m..n+1 |-> IF i = n + 1 THEN es ELSE lengths[i] * t[i + 1]]
      BY <2>7, <3>1
    <3> QED
      BY <3>2 DEF IsStrides, n
  <2> HIDE DEF t
  <2> QED
    BY <2>6, <2>8
<1>4. PICK s \in [1..n+1 -> Int] : IsStrides(s, lengths, es, 1)
  <2> HIDE DEF T, n
  <2>1. n \in T
    <3>1. \A m \in Nat : m \in T
      BY <1>2, <1>3, SetInduction
    <3> QED
      BY <1>1, <3>1
  <2>2. n + 1 - n = 1
    BY <1>1
  <2> QED
    BY <1>1, <2>1, <2>2 DEF T
<1>5. Strides(lengths, es) = CHOOSE f : IsStrides(f, lengths, es, 1)
  BY DEF Strides, IsStrides
<1>6. IsStrides(Strides(lengths, es), lengths, es, 1)
  BY <1>4, <1>5
<1>7. ASSUME NEW f, IsStrides(f, lengths, es, 1) PROVE f \in [1..n+1 -> Int]
  <2> DEFINE U == {m \in Nat : m <= n => f[n + 1 - m] \in Int}
  <2>1. \A i \in 1..n+1 : f[i] = IF i = n + 1 THEN es ELSE lengths[i] * f[i + 1]
    BY <1>7 DEF IsStrides
  <2>2. 0 \in U
    BY <1>1, <2>1
  <2>3. ASSUME NEW m \in Nat, m \in U PROVE m + 1 \in U
    <3> SUFFICES ASSUME m + 1 <= n PROVE f[n - m] \in Int
      BY <1>1
    <3> HIDE DEF n
    <3>1. n - m \in 1..n /\ n - m + 1 = n + 1 - m /\ f[n + 1 - m] \in Int
      BY <1>1, <2>3
    <3>2. f[n - m] = lengths[n - m] * f[n - m + 1]
      <4>1. n - m \in 1..n+1 /\ n - m # n + 1
        BY <1>1, <3>1
      <4> QED
        BY <2>1, <4>1
    <3> QED
      BY <1>1, <3>1, <3>2
  <2>4. \A m \in Nat : m \in U
    <3> HIDE DEF U
    <3> QED
      BY <2>2, <2>3, SetInduction
  <2>5. \A i \in 1..n+1 : f[i] \in Int
    <3> TAKE i \in 1..n+1
    <3>1. n + 1 - i \in Nat /\ n + 1 - i <= n /\ n + 1 - (n + 1 - i) = i
      BY <1>1
    <3> QED
      BY <2>4, <3>1
  <2> QED
    BY <1>7, <2>5 DEF IsStrides
<1> HIDE DEF n
<1> QED
  BY <1>6, <1>7 DEF n

\* Stride by stride: the last is the size of an element, each of the others is the
\* length of its dimension times the next.
LEMMA StridesExact ==
  ASSUME NEW lengths \in Seq(Int), NEW es \in Int
  PROVE  /\ Strides(lengths, es) \in Seq(Int)
         /\ Len(Strides(lengths, es)) = Len(lengths) + 1
         /\ Strides(lengths, es)[Len(lengths) + 1] = es
         /\ \A i \in 1..Len(lengths) :
              Strides(lengths, es)[i] = lengths[i] * Strides(lengths, es)[i + 1]
<1> DEFINE n == Len(lengths)
           s == Strides(lengths, es)
<1>1. n \in Nat /\ s \in [1..n+1 -> Int] /\ IsStrides(s, lengths, es, 1)
  BY StridesRecursion
<1> HIDE DEF s, n
<1>2. s \in Seq(Int) /\ Len(s) = n + 1
  BY <1>1
<1>3. \A i \in 1..n+1 : s[i] = IF i = n + 1 THEN es ELSE lengths[i] * s[i + 1]
  BY <1>1 DEF IsStrides, n
<1>4. s[n + 1] = es /\ \A i \in 1..n : s[i] = lengths[i] * s[i + 1]
  BY <1>1, <1>3
<1> QED
  BY <1>2, <1>4 DEF s, n

\* Strides are natural, and positive as far as the lengths behind them are.
LEMMA StridesPositive ==
  ASSUME NEW lengths \in Seq(Nat), NEW es \in Nat \ {0},
         \A i \in 1..Len(lengths) : lengths[i] = 0 => i = 1
  PROVE  /\ Strides(lengths, es)[1] \in Nat
         /\ \A i \in 2..Len(lengths)+1 : Strides(lengths, es)[i] \in Nat \ {0}
         /\ Strides(lengths, es)[1] = 0 <=> Len(lengths) > 0 /\ lengths[1] = 0
<1> DEFINE n == Len(lengths)
           s == Strides(lengths, es)
           T == {m \in Nat : m < n => s[n + 1 - m] \in Nat \ {0}}
<1>1. /\ n \in Nat /\ s[n + 1] = es
      /\ \A i \in 1..n : s[i] = lengths[i] * s[i + 1] /\ lengths[i] \in Nat
  <2>1. lengths \in Seq(Int) /\ es \in Int /\ n \in Nat /\ \A i \in 1..n : lengths[i] \in Nat
    OBVIOUS
  <2>2. s[n + 1] = es /\ \A i \in 1..n : s[i] = lengths[i] * s[i + 1]
    BY <2>1, StridesExact, Zenon
  <2> HIDE DEF s, n
  <2> QED
    BY <2>1, <2>2
<1> HIDE DEF s, n
<1>2. 0 \in T
  BY <1>1
<1>3. ASSUME NEW m \in Nat, m \in T PROVE m + 1 \in T
  <2> SUFFICES ASSUME m + 1 < n PROVE s[n - m] \in Nat \ {0}
    BY <1>1
  <2>1. n - m \in 1..n /\ n - m # 1 /\ n - m + 1 = n + 1 - m /\ s[n + 1 - m] \in Nat \ {0}
    BY <1>1, <1>3
  <2>2. s[n - m] = lengths[n - m] * s[n - m + 1] /\ lengths[n - m] \in Nat \ {0}
    BY <1>1, <2>1 DEF n
  <2>3. \A x, y \in Nat \ {0} : x * y \in Nat \ {0}
    BY Z3T(30)
  <2> QED
    BY <2>1, <2>2, <2>3
<1>4. \A m \in Nat : m \in T
  <2> HIDE DEF T
  <2> QED
    BY <1>2, <1>3, SetInduction
<1>5. \A i \in 2..n+1 : s[i] \in Nat \ {0}
  <2> TAKE i \in 2..n+1
  <2>1. n + 1 - i \in Nat /\ n + 1 - i < n /\ n + 1 - (n + 1 - i) = i
    BY <1>1
  <2> QED
    BY <1>4, <2>1
<1>6. CASE n = 0
  BY <1>1, <1>5, <1>6 DEF s, n
<1>7. CASE n > 0
  <2>1. s[1] = lengths[1] * s[2] /\ lengths[1] \in Nat /\ s[2] \in Nat \ {0}
    BY <1>1, <1>5, <1>7
  <2>2. \A x \in Nat, y \in Nat \ {0} : x * y \in Nat /\ (x * y = 0 <=> x = 0)
    BY Z3T(30)
  <2> QED
    BY <1>5, <1>7, <2>1, <2>2 DEF s, n
<1> QED
  BY <1>1, <1>6, <1>7

-----------------------------------------------------------------------------
(* One variable.                                                           *)

\* A variable with the computed fields that belong to its dimensions and type, no
\* dimension but the first being the record dimension.
Shaped(v) ==
  /\ v.lengths \in Seq(Nat) /\ Len(v.lengths) = Len(v.dim)
  /\ \A i \in 1..Len(v.lengths) : v.lengths[i] = 0 => i = 1
  /\ v.strides = Strides(v.lengths, StorageSize[v.dtype])

\* The lengths setComputed finds.
LengthsIn(v, ds) ==
  [i \in DOMAIN v.dim |-> IF v.dim[i] \in DOMAIN ds THEN ds[v.dim[i]].length ELSE 0]

\* setComputed changes the computed fields only, and knows the others only.
LEMMA ComputedExact ==
  ASSUME NEW N, NEW A, NEW D, NEW v \in Variables(N, A), NEW ds \in Seq(Dimensions(D))
  PROVE  /\ SetComputed(v, ds) \in Variables(N, A)
         /\ SetComputed(v, ds).name = v.name /\ SetComputed(v, ds).dim = v.dim
         /\ SetComputed(v, ds).att = v.att /\ SetComputed(v, ds).dtype = v.dtype
         /\ SetComputed(v, ds).begin = v.begin
         /\ SetComputed(v, ds).lengths = LengthsIn(v, ds)
         /\ SetComputed(v, ds).strides = Strides(LengthsIn(v, ds), StorageSize[v.dtype])
         /\ LengthsIn(v, ds) \in Seq(Nat) /\ Len(LengthsIn(v, ds)) = Len(v.dim)
<1> DEFINE ls == LengthsIn(v, ds)
           ss == Strides(ls, StorageSize[v.dtype])
           size == Pad4(IF ss[1] = 0 /\ Len(v.dim) > 0 THEN ss[2] ELSE ss[1])
           vs == IF size > OffsetLimit - 4 THEN -1 ELSE size
<1>1. v.dim \in Seq(Nat \ {0}) /\ v.dtype \in DOMAIN StorageSize
  BY DEF Variables
<1>2. ls \in Seq(Nat) /\ Len(ls) = Len(v.dim)
  <2>1. \A i \in DOMAIN ds : ds[i].length \in Nat
    <3>1. \A d \in Dimensions(D) : d.length \in Nat
      BY DEF Dimensions
    <3>2. \A i \in DOMAIN ds : ds[i] \in Dimensions(D)
      OBVIOUS
    <3> QED
      BY <3>1, <3>2
  <2>2. DOMAIN v.dim = 1..Len(v.dim) /\ Len(v.dim) \in Nat
    BY <1>1
  <2>3. ls \in [1..Len(v.dim) -> Nat]
    BY <2>1, <2>2 DEF LengthsIn
  <2> QED
    BY <2>2, <2>3
<1>3. StorageSize[v.dtype] \in Nat \ {0} /\ ls \in Seq(Int)
  BY <1>1, <1>2, ElementSize
<1>4. /\ ss \in Seq(Int) /\ Len(ss) = Len(ls) + 1
      /\ \A i \in 1..Len(ls) : ss[i] = ls[i] * ss[i + 1]
  <2> HIDE DEF ls
  <2>1. StorageSize[v.dtype] \in Int
    BY <1>3
  <2> QED
    BY <1>3, <2>1, StridesExact, Zenon
<1>5. vs \in Int
  <2>1. ss[1] \in Int /\ (Len(v.dim) > 0 => ss[2] \in Int)
    BY <1>1, <1>2, <1>4
  <2> HIDE DEF ss
  <2>2. size \in Int
    BY <2>1 DEF Pad4
  <2> HIDE DEF size
  <2> QED
    BY <2>2
<1>6. SetComputed(v, ds) = [v EXCEPT !.lengths = ls, !.strides = ss, !.vsize = vs]
  BY DEF SetComputed, LengthsIn
<1>7. [v EXCEPT !.lengths = ls, !.strides = ss, !.vsize = vs] \in Variables(N, A)
  <2>1. ls \in Seq(Int)
    BY <1>2
  <2> HIDE DEF ls, ss, vs
  <2> QED
    BY <1>4, <1>5, <2>1 DEF Variables
<1> HIDE DEF ls, ss, vs
<1> QED
  BY <1>2, <1>6, <1>7 DEF ls, ss, Variables

\* What setComputed makes of variables that differ in begin, lengths, strides and
\* vsize only differs in begin only.
LEMMA ComputedAgrees ==
  ASSUME NEW N, NEW A, NEW v \in Variables(N, A), NEW w \in Variables(N, A), NEW ds,
         w.name = v.name, w.dim = v.dim, w.att = v.att, w.dtype = v.dtype
  PROVE  SetComputed(w, ds) = [SetComputed(v, ds) EXCEPT !.begin = w.begin]
<1> DEFINE ls == LengthsIn(v, ds)
           ss == Strides(ls, StorageSize[v.dtype])
           size == Pad4(IF ss[1] = 0 /\ Len(v.dim) > 0 THEN ss[2] ELSE ss[1])
           vs == IF size > OffsetLimit - 4 THEN -1 ELSE size
<1>1. SetComputed(v, ds) = [v EXCEPT !.lengths = ls, !.strides = ss, !.vsize = vs]
  BY DEF SetComputed, LengthsIn
<1>2. SetComputed(w, ds) = [w EXCEPT !.lengths = ls, !.strides = ss, !.vsize = vs]
  BY DEF SetComputed, LengthsIn
<1> HIDE DEF ls, ss, vs
<1>3. [w EXCEPT !.lengths = ls, !.strides = ss, !.vsize = vs]
        = [[v EXCEPT !.lengths = ls, !.strides = ss, !.vsize = vs] EXCEPT !.begin = w.begin]
  BY DEF Variables
<1> QED
  BY <1>1, <1>2, <1>3

\* A shaped variable is a record variable exactly when its first stride is 0, and
\* its record, or all of it, then takes a positive number of bytes.
LEMMA ShapedStrides ==
  ASSUME NEW N, NEW A, NEW v \in Variables(N, A), Shaped(v)
  PROVE  /\ v.strides \in Seq(Nat) /\ Len(v.strides) = Len(v.lengths) + 1
         /\ v.strides[Len(v.strides)] = StorageSize[v.dtype]
         /\ \A i \in 1..Len(v.lengths) : v.strides[i] = v.lengths[i] * v.strides[i + 1]
         /\ \A i \in 2..Len(v.strides) : v.strides[i] \in Nat \ {0}
         /\ IsRecord(v) <=> Len(v.strides) > 1 /\ v.strides[1] = 0
         /\ ~IsRecord(v) => v.strides[1] \in Nat \ {0}
<1> DEFINE es == StorageSize[v.dtype]
<1>1. es \in Nat \ {0} /\ v.lengths \in Seq(Nat) /\ v.lengths \in Seq(Int) /\ es \in Int
  <2>1. v.dtype \in DOMAIN StorageSize /\ v.lengths \in Seq(Nat)
    BY DEF Variables, Shaped
  <2> QED
    BY <2>1, ElementSize
<1>2. /\ v.strides \in Seq(Int) /\ Len(v.strides) = Len(v.lengths) + 1
      /\ v.strides[Len(v.lengths) + 1] = es
      /\ \A i \in 1..Len(v.lengths) : v.strides[i] = v.lengths[i] * v.strides[i + 1]
  <2> DEFINE s == Strides(v.lengths, es)
  <2>1. v.strides = s
    BY DEF Shaped
  <2> HIDE DEF es
  <2>2. /\ s \in Seq(Int) /\ Len(s) = Len(v.lengths) + 1
        /\ s[Len(v.lengths) + 1] = es
        /\ \A i \in 1..Len(v.lengths) : s[i] = v.lengths[i] * s[i + 1]
    BY <1>1, StridesExact, Zenon
  <2> HIDE DEF s
  <2> QED
    BY <2>1, <2>2
<1>3. /\ v.strides[1] \in Nat
      /\ \A i \in 2..Len(v.lengths)+1 : v.strides[i] \in Nat \ {0}
      /\ v.strides[1] = 0 <=> Len(v.lengths) > 0 /\ v.lengths[1] = 0
  <2> HIDE DEF es
  <2> QED
    BY <1>1, StridesPositive DEF Shaped, es
<1> DEFINE n == Len(v.lengths)
<1>4. n \in Nat
  BY <1>1
<1> HIDE DEF es, n
<1>5. v.strides \in Seq(Nat)
  <2>1. \A i \in 1..n+1 : v.strides[i] \in Nat
    BY <1>3, <1>4 DEF n
  <2> QED
    BY <1>2, <2>1, SMTT(60) DEF n
<1> QED
  BY <1>2, <1>3, <1>4, <1>5 DEF IsRecord, es, n

\* setComputed shapes a variable whose dimensions exist and of which only the first
\* may be the record dimension.
LEMMA ComputedShaped ==
  ASSUME NEW N, NEW A, NEW D, NEW v \in Variables(N, A), NEW ds \in Seq(Dimensions(D)),
         \A i \in DOMAIN v.dim : v.dim[i] \in DOMAIN ds /\ (ds[v.dim[i]].length = 0 => i = 1)
  PROVE  Shaped(SetComputed(v, ds))
<1> DEFINE ls == LengthsIn(v, ds)
           w == SetComputed(v, ds)
<1>1. /\ w.lengths = ls /\ w.strides = Strides(ls, StorageSize[v.dtype])
      /\ w.dim = v.dim /\ w.dtype = v.dtype
      /\ ls \in Seq(Nat) /\ Len(ls) = Len(v.dim)
  BY ComputedExact
<1>2. \A i \in 1..Len(ls) : ls[i] = 0 => i = 1
  <2>1. DOMAIN v.dim = 1..Len(ls)
    BY <1>1 DEF Variables
  <2> QED
    BY <2>1 DEF LengthsIn
<1> HIDE DEF ls, w
<1> QED
  BY <1>1, <1>2 DEF Shaped, w

-----------------------------------------------------------------------------
(* Record strides.                                                         *)

\* The record variables, and the size of a slab of all of them.
Recs(vars) == {i \in DOMAIN vars : IsRecord(vars[i])}
\* One variable alone is not padded.
SlabOf(vars) ==
  IF Cardinality(Recs(vars)) > 1
  THEN SumFunctionOnSet([i \in Recs(vars) |-> Pad4(vars[i].strides[2])], Recs(vars))
  ELSE SumFunctionOnSet([i \in Recs(vars) |-> vars[i].strides[2]], Recs(vars))

\* The strides of a record variable once they are fixed.
Slabbed(s, slab) == [s EXCEPT ![1] = s[2], ![2] = slab]

\* fixRecordStrides changes the strides of the record variables only.
LEMMA FixUnfolds ==
  ASSUME NEW N, NEW A, NEW vars \in Seq(Variables(N, A)), \A i \in DOMAIN vars : Shaped(vars[i])
  PROVE  FixRecordStrides(vars) =
           [i \in DOMAIN vars |->
              IF i \in Recs(vars)
              THEN [vars[i] EXCEPT !.strides = Slabbed(vars[i].strides, SlabOf(vars))]
              ELSE vars[i]]
<1> DEFINE recs == {i \in DOMAIN vars : Len(vars[i].strides) > 1 /\ vars[i].strides[1] = 0}
           slab == IF Cardinality(recs) > 1
                   THEN SumFunction([i \in recs |-> Pad4(vars[i].strides[2])])
                   ELSE SumFunction([i \in recs |-> vars[i].strides[2]])
<1>1. recs = Recs(vars)
  <2>1. \A i \in DOMAIN vars : vars[i] \in Variables(N, A)
    OBVIOUS
  <2>2. \A i \in DOMAIN vars :
          IsRecord(vars[i]) <=> Len(vars[i].strides) > 1 /\ vars[i].strides[1] = 0
    BY <2>1, ShapedStrides
  <2> QED
    BY <2>2 DEF Recs
<1>2. slab = SlabOf(vars)
  <2>1. slab = IF Cardinality(recs) > 1
               THEN SumFunctionOnSet([i \in recs |-> Pad4(vars[i].strides[2])], recs)
               ELSE SumFunctionOnSet([i \in recs |-> vars[i].strides[2]], recs)
    BY DEF SumFunction
  <2> HIDE DEF recs
  <2> QED
    BY <1>1, <2>1 DEF SlabOf
<1>3. FixRecordStrides(vars) =
        [i \in DOMAIN vars |->
           IF i \in recs
           THEN [vars[i] EXCEPT !.strides[1] = vars[i].strides[2], !.strides[2] = slab]
           ELSE vars[i]]
  BY DEF FixRecordStrides
<1> HIDE DEF recs, slab
<1>4. \A i \in DOMAIN vars :
        [vars[i] EXCEPT !.strides[1] = vars[i].strides[2], !.strides[2] = slab]
          = [vars[i] EXCEPT !.strides = Slabbed(vars[i].strides, slab)]
  BY DEF Slabbed, Variables
<1> QED
  BY <1>1, <1>2, <1>3, <1>4

\* Field by field.
LEMMA FixExact ==
  ASSUME NEW N, NEW A, NEW vars \in Seq(Variables(N, A)), NEW fixed,
         \A i \in DOMAIN vars : Shaped(vars[i]), SlabOf(vars) \in Int,
         fixed = FixRecordStrides(vars)
  PROVE  /\ fixed \in Seq(Variables(N, A)) /\ Len(fixed) = Len(vars)
         /\ \A i \in DOMAIN vars :
              /\ fixed[i].name = vars[i].name /\ fixed[i].dim = vars[i].dim
              /\ fixed[i].att = vars[i].att /\ fixed[i].dtype = vars[i].dtype
              /\ fixed[i].vsize = vars[i].vsize /\ fixed[i].begin = vars[i].begin
              /\ fixed[i].lengths = vars[i].lengths
              /\ Len(fixed[i].strides) = Len(vars[i].strides)
              /\ \A k \in 3..Len(vars[i].strides) : fixed[i].strides[k] = vars[i].strides[k]
              /\ i \notin Recs(vars) => fixed[i].strides = vars[i].strides
              /\ i \in Recs(vars) => /\ Len(vars[i].strides) > 1
                                     /\ fixed[i].strides[1] = vars[i].strides[2]
                                     /\ fixed[i].strides[2] = SlabOf(vars)
<1> DEFINE slab == SlabOf(vars)
           new(i) == [vars[i] EXCEPT !.strides = Slabbed(vars[i].strides, slab)]
<1>1. fixed = [i \in DOMAIN vars |-> IF i \in Recs(vars) THEN new(i) ELSE vars[i]]
  BY FixUnfolds
<1>2. /\ \A i \in DOMAIN vars : vars[i] \in Variables(N, A)
      /\ DOMAIN vars = 1..Len(vars) /\ Len(vars) \in Nat
      /\ Recs(vars) \subseteq DOMAIN vars /\ slab \in Int
  BY DEF Recs
<1> HIDE DEF slab, new
<1>3. ASSUME NEW i \in DOMAIN vars, i \in Recs(vars)
      PROVE  /\ new(i) \in Variables(N, A)
             /\ new(i).name = vars[i].name /\ new(i).dim = vars[i].dim
             /\ new(i).att = vars[i].att /\ new(i).dtype = vars[i].dtype
             /\ new(i).vsize = vars[i].vsize /\ new(i).begin = vars[i].begin
             /\ new(i).lengths = vars[i].lengths
             /\ Len(new(i).strides) = Len(vars[i].strides) /\ Len(vars[i].strides) > 1
             /\ \A k \in 3..Len(vars[i].strides) : new(i).strides[k] = vars[i].strides[k]
             /\ new(i).strides[1] = vars[i].strides[2] /\ new(i).strides[2] = slab
  <2> DEFINE v == vars[i]
             s == v.strides
             t == Slabbed(s, slab)
  <2>1. v \in Variables(N, A) /\ Shaped(v) /\ IsRecord(v)
    BY <1>2, <1>3 DEF Recs
  <2>2. s \in Seq(Int) /\ Len(s) > 1
    <3>1. Len(s) > 1
      BY <2>1, ShapedStrides
    <3> QED
      BY <2>1, <3>1 DEF Variables
  <2>3. /\ t \in Seq(Int) /\ Len(t) = Len(s) /\ t[1] = s[2] /\ t[2] = slab
        /\ \A k \in 3..Len(s) : t[k] = s[k]
    <3> HIDE DEF s
    <3>1. t = [s EXCEPT ![1] = s[2], ![2] = slab]
      BY DEF Slabbed
    <3>2. DOMAIN s = 1..Len(s) /\ Len(s) \in Nat /\ s[2] \in Int
      BY <2>2
    <3> HIDE DEF t
    <3>3. t \in [1..Len(s) -> Int]
      BY <1>2, <2>2, <3>1, <3>2
    <3>4. t[1] = s[2] /\ t[2] = slab /\ \A k \in 3..Len(s) : t[k] = s[k]
      BY <2>2, <3>1, <3>2
    <3> QED
      BY <3>2, <3>3, <3>4
  <2>4. new(i) = [v EXCEPT !.strides = t]
    BY DEF new
  <2> HIDE DEF t, v
  <2> QED
    BY <2>1, <2>2, <2>3, <2>4 DEF Variables, v
<1>4. \A i \in DOMAIN vars : fixed[i] = IF i \in Recs(vars) THEN new(i) ELSE vars[i]
  BY <1>1
<1>5. fixed \in Seq(Variables(N, A)) /\ Len(fixed) = Len(vars)
  <2>1. fixed \in [1..Len(vars) -> Variables(N, A)]
    BY <1>1, <1>2, <1>3
  <2> QED
    BY <1>2, <2>1
<1> QED
  BY <1>3, <1>4, <1>5 DEF slab

\* The slab has room for the records of all record variables, padded as soon as
\* there are several.
LEMMA SlabExact ==
  ASSUME NEW N, NEW A, NEW vars \in Seq(Variables(N, A)), \A i \in DOMAIN vars : Shaped(vars[i])
  PROVE  /\ IsFiniteSet(Recs(vars)) /\ SlabOf(vars) \in Nat
         /\ \A i \in Recs(vars) : /\ vars[i].strides[2] \in Nat \ {0}
                                  /\ vars[i].strides[2] <= SlabOf(vars)
         /\ \A i, j \in Recs(vars) : i # j =>
              SlabOf(vars) = SumFunctionOnSet([k \in Recs(vars) |-> Pad4(vars[k].strides[2])], Recs(vars))
<1> DEFINE R == Recs(vars)
           plain == [k \in R |-> vars[k].strides[2]]
           padded == [k \in R |-> Pad4(vars[k].strides[2])]
<1>1. IsFiniteSet(R) /\ Cardinality(R) \in Nat
  <2>1. R \subseteq 1..Len(vars) /\ Len(vars) \in Nat
    BY DEF Recs
  <2>2. IsFiniteSet(1..Len(vars))
    BY <2>1, FS_Interval
  <2> QED
    BY <2>1, <2>2, FS_Subset, FS_CardinalityType
<1>2. \A k \in R : vars[k].strides[2] \in Nat \ {0}
  <2> TAKE k \in R
  <2>1. vars[k] \in Variables(N, A) /\ Shaped(vars[k]) /\ IsRecord(vars[k])
    BY DEF Recs
  <2>2. Len(vars[k].strides) > 1 /\ \A i \in 2..Len(vars[k].strides) : vars[k].strides[i] \in Nat \ {0}
    BY <2>1, ShapedStrides
  <2>3. Len(vars[k].strides) \in Nat
    BY <2>1 DEF Variables
  <2> QED
    BY <2>2, <2>3
<1>3. \A k \in R : plain[k] \in Nat /\ padded[k] \in Nat /\ plain[k] <= padded[k]
  BY <1>2, Padding
<1>4. SlabOf(vars) = IF Cardinality(R) > 1 THEN SumFunctionOnSet(padded, R) ELSE SumFunctionOnSet(plain, R)
  BY DEF SlabOf
<1> HIDE DEF R, plain, padded
<1>5. SumFunctionOnSet(padded, R) \in Nat /\ SumFunctionOnSet(plain, R) \in Nat
  BY <1>1, <1>3, SumNatural
<1>6. ASSUME NEW i \in R PROVE padded[i] <= SumFunctionOnSet(padded, R) /\ plain[i] <= SumFunctionOnSet(plain, R)
  <2>1. /\ SumFunctionOnSet(padded, R) = padded[i] + SumFunctionOnSet(padded, R \ {i})
        /\ SumFunctionOnSet(plain, R) = plain[i] + SumFunctionOnSet(plain, R \ {i})
    BY <1>1, <1>3, SumRemove
  <2>2. /\ IsFiniteSet(R \ {i})
        /\ \A k \in R \ {i} : plain[k] \in Nat /\ padded[k] \in Nat
    BY <1>1, <1>3, FS_Subset
  <2>3. SumFunctionOnSet(padded, R \ {i}) \in Nat /\ SumFunctionOnSet(plain, R \ {i}) \in Nat
    BY <2>2, SumNatural
  <2> QED
    BY <1>3, <2>1, <2>3
<1>7. ASSUME NEW i \in R PROVE vars[i].strides[2] <= SlabOf(vars)
  <2>1. plain[i] = vars[i].strides[2] /\ plain[i] \in Nat /\ padded[i] \in Nat /\ plain[i] <= padded[i]
    BY <1>3 DEF plain
  <2> QED
    BY <1>4, <1>5, <1>6, <2>1
<1>8. ASSUME NEW i \in R, NEW j \in R, i # j PROVE Cardinality(R) > 1
  <2>1. /\ IsFiniteSet(R \ {i}) /\ Cardinality(R \ {i}) = Cardinality(R) - 1
        /\ R \ {i} # {}
    BY <1>1, <1>8, FS_RemoveElement
  <2>2. Cardinality(R \ {i}) \in Nat /\ Cardinality(R \ {i}) # 0
    BY <2>1, FS_CardinalityType, FS_EmptySet
  <2> QED
    BY <1>1, <2>1, <2>2
<1>9. SlabOf(vars) \in Nat
  BY <1>4, <1>5
<1> QED
  BY <1>1, <1>2, <1>4, <1>7, <1>8, <1>9 DEF R, padded

-----------------------------------------------------------------------------
(* The order of the data section.                                          *)

\* Of two variables one precedes the other, and what comes before it comes before
\* the other as well.
LEMMA Ordered ==
  ASSUME NEW vars, DOMAIN vars \subseteq Nat, NEW i \in DOMAIN vars, NEW j \in DOMAIN vars
  PROVE  /\ ~Precedes(vars, i, i)
         /\ i # j => Precedes(vars, i, j) \/ Precedes(vars, j, i)
         /\ Precedes(vars, i, j) => ~Precedes(vars, j, i) /\ i # j
         /\ Precedes(vars, i, j) => /\ Before(vars, i) \subseteq Before(vars, j)
                                   /\ i \in Before(vars, j) /\ i \notin Before(vars, i)
<1>1. i \in Nat /\ j \in Nat
  OBVIOUS
<1>2. IsRecord(vars[i]) \in BOOLEAN /\ IsRecord(vars[j]) \in BOOLEAN
  BY DEF IsRecord
<1>3. /\ ~Precedes(vars, i, i)
      /\ i # j => Precedes(vars, i, j) \/ Precedes(vars, j, i)
      /\ Precedes(vars, i, j) => ~Precedes(vars, j, i) /\ i # j
  BY <1>1, <1>2 DEF Precedes
<1>4. ASSUME Precedes(vars, i, j), NEW k \in DOMAIN vars, Precedes(vars, k, i)
      PROVE  Precedes(vars, k, j)
  <2>1. k \in Nat /\ IsRecord(vars[k]) \in BOOLEAN
    BY DEF IsRecord
  <2> QED
    BY <1>1, <1>2, <1>4, <2>1 DEF Precedes
<1> QED
  BY <1>3, <1>4 DEF Before

\* One variable comes first, and one last.
LEMMA EndsOfOrder ==
  ASSUME NEW S, NEW vars \in Seq(S), vars # <<>>
  PROVE  /\ \E i \in DOMAIN vars : Before(vars, i) = {}
         /\ \E i \in DOMAIN vars : \A j \in DOMAIN vars \ {i} : Precedes(vars, j, i)
<1> DEFINE n == Len(vars)
           R == {i \in 1..n : IsRecord(vars[i])}
           P == {i \in 1..n : ~IsRecord(vars[i])}
<1>1. n \in Nat \ {0} /\ DOMAIN vars = 1..n
  OBVIOUS
<1>2. R \subseteq 1..n /\ P \subseteq 1..n /\ R \cup P = 1..n /\ 1..n # {}
  <2>1. 1 \in 1..n
    BY <1>1
  <2>2. \A i \in 1..n : i \in R \/ i \in P
    OBVIOUS
  <2> HIDE DEF n
  <2> QED
    BY <2>1, <2>2
<1>3. \A i \in 1..n : i \in Nat /\ i <= n
  BY <1>1
<1> HIDE DEF n
<1>4. ASSUME NEW U \in SUBSET (1..n), U # {}
      PROVE  (\E x \in U : \A y \in U : x <= y) /\ (\E x \in U : \A y \in U : y <= x)
  <2>1. U \in SUBSET Nat /\ \A y \in U : y <= n
    BY <1>3
  <2>2. \E x \in U : \A y \in U : x <= y
    BY <1>4, <2>1, LeastNat
  <2>3. \E x \in U : \A y \in U : y <= x
    BY <1>1, <1>4, <2>1, GreatestNat
  <2> QED
    BY <2>2, <2>3
<1>5. \E i \in 1..n : \A j \in 1..n : ~Precedes(vars, j, i)
  <2>1. CASE P # {}
    <3>1. PICK i \in P : \A j \in P : i <= j
      BY <1>2, <1>4, <2>1
    <3>2. \A j \in 1..n : ~Precedes(vars, j, i)
      BY <1>3, <3>1 DEF Precedes
    <3> QED
      BY <1>2, <3>1, <3>2
  <2>2. CASE P = {}
    <3>1. PICK i \in R : \A j \in R : i <= j
      BY <1>2, <1>4, <2>2
    <3>2. \A j \in 1..n : ~Precedes(vars, j, i)
      <4>1. \A j \in 1..n : IsRecord(vars[j]) /\ i <= j
        BY <2>2, <3>1
      <4> QED
        BY <1>3, <4>1 DEF Precedes, IsRecord
    <3> QED
      BY <1>2, <3>1, <3>2
  <2> QED
    BY <2>1, <2>2
<1>6. \E i \in 1..n : \A j \in (1..n) \ {i} : Precedes(vars, j, i)
  <2>1. CASE R # {}
    <3>1. PICK i \in R : \A j \in R : j <= i
      BY <1>2, <1>4, <2>1
    <3>2. \A j \in (1..n) \ {i} : Precedes(vars, j, i)
      BY <1>3, <3>1 DEF Precedes
    <3> QED
      BY <1>2, <3>1, <3>2
  <2>2. CASE R = {}
    <3>1. PICK i \in P : \A j \in P : j <= i
      BY <1>2, <1>4, <2>2
    <3>2. \A j \in (1..n) \ {i} : Precedes(vars, j, i)
      <4>1. \A j \in 1..n : ~IsRecord(vars[j]) /\ j <= i
        BY <2>2, <3>1
      <4> QED
        BY <1>3, <4>1 DEF Precedes, IsRecord
    <3> QED
      BY <1>2, <3>1, <3>2
  <2> QED
    BY <2>1, <2>2
<1> QED
  BY <1>1, <1>5, <1>6 DEF Before, n

-----------------------------------------------------------------------------
(* The size of a header.                                                   *)

\* Attributes take a natural number of bytes.
LEMMA AttSizeTyped ==
  ASSUME NEW A, NEW atts \in Seq(Attributes(A))
  PROVE  AttSize(atts) \in Nat
<1> DEFINE f == [i \in DOMAIN atts |->
                   NameSize + 8 + Pad4(atts[i].n * StorageSize[atts[i].dtype])]
<1>1. DOMAIN atts = 1..Len(atts) /\ Len(atts) \in Nat /\ IsFiniteSet(DOMAIN atts)
  BY FS_Interval
<1>2. \A i \in DOMAIN atts : f[i] \in Nat
  <2> TAKE i \in DOMAIN atts
  <2>1. atts[i] \in Attributes(A)
    OBVIOUS
  <2>2. atts[i].n \in Nat /\ StorageSize[atts[i].dtype] \in Nat
    <3>1. atts[i].n \in Nat /\ atts[i].dtype \in DOMAIN StorageSize
      BY <2>1 DEF Attributes
    <3> QED
      BY <3>1, ElementSize
  <2> DEFINE x == atts[i].n * StorageSize[atts[i].dtype]
  <2>3. x \in Nat
    BY <2>2, Z3T(30)
  <2> HIDE DEF x
  <2>4. NameSize + 8 + Pad4(x) \in Nat
    <3>1. Pad4(x) \in Nat
      BY <2>3, Padding
    <3> QED
      BY <3>1 DEF NameSize
  <2> QED
    BY <2>4 DEF x
<1>3. AttSize(atts) = 8 + SumFunctionOnSet(f, DOMAIN atts)
  BY DEF AttSize, SumFunction
<1> HIDE DEF f
<1>4. SumFunctionOnSet(f, DOMAIN atts) \in Nat
  BY <1>1, <1>2, SumNatural
<1> QED
  BY <1>3, <1>4

\* What one variable takes in a header.
EntrySize(v, version) ==
  NameSize + 4 + 4 * Len(v.dim) + AttSize(v.att) + 8 + (IF version = 2 THEN 8 ELSE 4)

\* A header takes a natural number of bytes, the most in version 2, and that number
\* depends on nothing that Define changes but the version.
LEMMA HeaderSizeGrows ==
  ASSUME NEW N, NEW A, NEW D, NEW h \in Headers(N, A, D), NEW g \in Headers(N, A, D),
         g.dim = h.dim, g.att = h.att, Len(g.vars) = Len(h.vars),
         \A i \in DOMAIN h.vars : g.vars[i].dim = h.vars[i].dim /\ g.vars[i].att = h.vars[i].att,
         g.version = h.version \/ g.version = 2
  PROVE  HeaderSize(h) \in Nat /\ HeaderSize(g) \in Nat /\ HeaderSize(h) <= HeaderSize(g)
<1> DEFINE E(x) == [i \in DOMAIN x.vars |-> EntrySize(x.vars[i], x.version)]
           base(x) == 8 + (8 + Len(x.dim) * (NameSize + 4)) + AttSize(x.att)
<1>1. \A x : HeaderSize(x) = base(x) + (8 + SumFunctionOnSet(E(x), DOMAIN x.vars))
  <2> TAKE x
  <2>1. HeaderSize(x) = base(x) + (8 + SumFunction(E(x)))
    BY DEF HeaderSize, EntrySize
  <2> QED
    BY <2>1 DEF SumFunction
<1>2. /\ DOMAIN h.vars = 1..Len(h.vars) /\ DOMAIN g.vars = DOMAIN h.vars
      /\ IsFiniteSet(DOMAIN h.vars)
  <2>1. h.vars \in Seq(Variables(N, A)) /\ g.vars \in Seq(Variables(N, A))
    BY DEF Headers
  <2>2. /\ DOMAIN h.vars = 1..Len(h.vars) /\ DOMAIN g.vars = 1..Len(g.vars)
        /\ Len(h.vars) \in Nat
    BY <2>1
  <2>3. IsFiniteSet(1..Len(h.vars))
    BY <2>2, FS_Interval
  <2> QED
    BY <2>2, <2>3
<1>3. \A i \in DOMAIN h.vars : /\ E(h)[i] \in Nat /\ E(g)[i] \in Nat
                               /\ E(h)[i] <= E(g)[i]
  <2> TAKE i \in DOMAIN h.vars
  <2>1. h.vars[i] \in Variables(N, A)
    BY DEF Headers
  <2>2. Len(h.vars[i].dim) \in Nat /\ AttSize(h.vars[i].att) \in Nat
    BY <2>1, AttSizeTyped DEF Variables
  <2>3. E(h)[i] = EntrySize(h.vars[i], h.version) /\ E(g)[i] = EntrySize(g.vars[i], g.version)
    BY <1>2
  <2> DEFINE d == Len(h.vars[i].dim)
             a == AttSize(h.vars[i].att)
  <2>4. /\ E(h)[i] = 8 + 4 + 4 * d + a + 8 + (IF h.version = 2 THEN 8 ELSE 4)
        /\ E(g)[i] = 8 + 4 + 4 * d + a + 8 + (IF g.version = 2 THEN 8 ELSE 4)
    <3> HIDE DEF E
    <3> QED
      BY <2>3 DEF EntrySize, NameSize
  <2> HIDE DEF E, d, a
  <2>5. d \in Nat /\ a \in Nat
    BY <2>2 DEF d, a
  <2> QED
    BY <2>4, <2>5
<1>4. base(h) \in Nat /\ base(g) = base(h)
  <2>1. Len(h.dim) \in Nat /\ AttSize(h.att) \in Nat
    BY AttSizeTyped DEF Headers
  <2> QED
    BY <2>1 DEF NameSize
<1> DEFINE F == E(h)
           G == E(g)
           S == DOMAIN h.vars
<1>5. /\ HeaderSize(h) = base(h) + (8 + SumFunctionOnSet(F, S))
      /\ HeaderSize(g) = base(g) + (8 + SumFunctionOnSet(G, S))
  BY <1>1, <1>2
<1>6. \A i \in S : F[i] \in Nat /\ G[i] \in Nat /\ F[i] <= G[i]
  BY <1>3
<1> HIDE DEF E, base, F, G, S
<1>7. /\ SumFunctionOnSet(F, S) \in Nat /\ SumFunctionOnSet(G, S) \in Nat
      /\ SumFunctionOnSet(F, S) <= SumFunctionOnSet(G, S)
  <2>1. IsFiniteSet(S)
    BY <1>2 DEF S
  <2> QED
    BY <1>6, <2>1, SumNatural, SumMonotone
<1> QED
  BY <1>4, <1>5, <1>7

-----------------------------------------------------------------------------
(* A header that is laid out.                                              *)

\* The variables follow each other from some aligned offset behind the header on.
Placed(h) ==
  \E first \in Nat :
    /\ first % 4 = 0 /\ Pad4(HeaderSize(h)) <= first
    /\ \A i \in DOMAIN h.vars :
         h.vars[i].begin =
           first + SumFunctionOnSet([k \in DOMAIN h.vars |-> Pad4(VSize(h.vars[k]))], Before(h.vars, i))

\* What Define leaves behind.
LaidOut(h) == DimsExist(h) /\ StridesFixed(h) /\ Placed(h)

\* What this comes to: aligned offsets, room for each variable before the next and,
\* in a slab, for the record of each record variable before the slab ends.
Spaced(h) ==
  /\ \A i \in DOMAIN h.vars :
       /\ VSize(h.vars[i]) \in Nat \ {0} /\ h.vars[i].begin \in Nat
       /\ h.vars[i].begin % 4 = 0 /\ Pad4(HeaderSize(h)) <= h.vars[i].begin
       /\ IsRecord(h.vars[i]) =>
            h.vars[i].strides[2] \in Nat /\ VSize(h.vars[i]) <= h.vars[i].strides[2]
  /\ \A i, j \in DOMAIN h.vars : Precedes(h.vars, i, j) =>
       h.vars[i].begin + Pad4(VSize(h.vars[i])) <= h.vars[j].begin
  /\ \A i, j \in DOMAIN h.vars : IsRecord(h.vars[i]) /\ IsRecord(h.vars[j]) =>
       /\ h.vars[i].strides[2] = h.vars[j].strides[2]
       /\ Precedes(h.vars, i, j) =>
            h.vars[j].begin + Pad4(VSize(h.vars[j])) <= h.vars[i].begin + h.vars[i].strides[2]

\* A variable of such a header, before its strides were fixed and after.
LEMMA FixedVariable ==
  ASSUME NEW N, NEW A, NEW D, NEW h \in Headers(N, A, D), NEW raw,
         DimsExist(h), StridesFixed(h),
         raw = [i \in DOMAIN h.vars |-> SetComputed(h.vars[i], h.dim)]
  PROVE  /\ raw \in Seq(Variables(N, A)) /\ Len(raw) = Len(h.vars)
         /\ DOMAIN raw = DOMAIN h.vars /\ \A i \in DOMAIN raw : Shaped(raw[i])
         /\ h.vars = FixRecordStrides(raw)
         /\ Recs(h.vars) = Recs(raw)
         /\ \A i \in DOMAIN h.vars : IsRecord(h.vars[i]) <=> IsRecord(raw[i])
         /\ \A i \in DOMAIN h.vars : h.vars[i].lengths = raw[i].lengths
<1>1. /\ h.vars \in Seq(Variables(N, A)) /\ h.dim \in Seq(Dimensions(D))
      /\ DOMAIN h.vars = 1..Len(h.vars) /\ Len(h.vars) \in Nat
  <2>1. h.vars \in Seq(Variables(N, A)) /\ h.dim \in Seq(Dimensions(D))
    BY DEF Headers
  <2> QED
    BY <2>1
<1>2. \A i \in DOMAIN h.vars : raw[i] \in Variables(N, A) /\ Shaped(raw[i])
  <2> TAKE i \in DOMAIN h.vars
  <2>1. h.vars[i] \in Variables(N, A) /\ raw[i] = SetComputed(h.vars[i], h.dim)
    BY <1>1
  <2>2. raw[i] \in Variables(N, A)
    BY <1>1, <2>1, ComputedExact
  <2>3. Shaped(raw[i])
    BY <1>1, <2>1, ComputedShaped DEF DimsExist
  <2> QED
    BY <2>2, <2>3
<1>3. raw \in Seq(Variables(N, A)) /\ Len(raw) = Len(h.vars) /\ DOMAIN raw = DOMAIN h.vars
  <2>1. raw \in [1..Len(h.vars) -> Variables(N, A)]
    BY <1>1, <1>2
  <2> QED
    BY <1>1, <2>1
<1>4. h.vars = FixRecordStrides(raw)
  BY DEF StridesFixed
<1>5. \A i \in DOMAIN h.vars : h.vars[i].lengths = raw[i].lengths
  <2>1. SlabOf(raw) \in Int
    <3>1. \A i \in DOMAIN raw : Shaped(raw[i])
      BY <1>2, <1>3
    <3>2. SlabOf(raw) \in Nat
      BY <1>3, <3>1, SlabExact
    <3> QED
      BY <3>2
  <2> QED
    BY <1>2, <1>3, <1>4, <2>1, FixExact
<1>6. \A i \in DOMAIN h.vars : IsRecord(h.vars[i]) <=> IsRecord(raw[i])
  BY <1>5 DEF IsRecord
<1> QED
  BY <1>2, <1>3, <1>4, <1>5, <1>6 DEF Recs

\* A sum of multiples of four is one.
LEMMA SumAligned ==
  ASSUME NEW S, NEW f, IsFiniteSet(S), \A x \in S : f[x] \in Nat /\ f[x] % 4 = 0
  PROVE  SumFunctionOnSet(f, S) % 4 = 0
<1> DEFINE Sum(A) == SumFunctionOnSet(f, A)
           T == {A \in SUBSET S : Sum(A) % 4 = 0}
<1>1. {} \in T
  BY SumEmpty
<1>2. ASSUME NEW A \in SUBSET S, NEW x \in S \ A, A \in T PROVE A \cup {x} \in T
  <2>1. IsFiniteSet(A)
    BY FS_Subset
  <2>2. Sum(A \cup {x}) = f[x] + Sum(A) /\ Sum(A) \in Nat
    BY <2>1, SumAdd, SumNatural
  <2> HIDE DEF Sum
  <2> QED
    BY <1>2, <2>2
<1>3. S \in T
  <2> HIDE DEF T
  <2> QED
    BY <1>1, <1>2, FiniteInduction
<1> QED
  BY <1>3

\* The sizes of the variables of a header that is laid out.
LEMMA SizesExact ==
  ASSUME NEW N, NEW A, NEW D, NEW h \in Headers(N, A, D), DimsExist(h), StridesFixed(h)
  PROVE  /\ \A i \in DOMAIN h.vars : VSize(h.vars[i]) \in Nat \ {0}
         /\ \A i \in Recs(h.vars) : /\ h.vars[i].strides[2] \in Nat
                                    /\ VSize(h.vars[i]) <= h.vars[i].strides[2]
         /\ \A i, j \in Recs(h.vars) : h.vars[i].strides[2] = h.vars[j].strides[2]
         /\ \A i, j \in Recs(h.vars) : i # j =>
              h.vars[i].strides[2] =
                SumFunctionOnSet([k \in DOMAIN h.vars |-> Pad4(VSize(h.vars[k]))], Recs(h.vars))
<1> DEFINE raw == [i \in DOMAIN h.vars |-> SetComputed(h.vars[i], h.dim)]
           slab == SlabOf(raw)
           f == [k \in DOMAIN h.vars |-> Pad4(VSize(h.vars[k]))]
           R == Recs(raw)
           padded == [k \in R |-> Pad4(raw[k].strides[2])]
<1>1. /\ raw \in Seq(Variables(N, A)) /\ Len(raw) = Len(h.vars)
      /\ DOMAIN raw = DOMAIN h.vars /\ \A i \in DOMAIN raw : Shaped(raw[i])
      /\ h.vars = FixRecordStrides(raw)
      /\ Recs(h.vars) = R
  <2> HIDE DEF raw
  <2>1. raw = [i \in DOMAIN h.vars |-> SetComputed(h.vars[i], h.dim)]
    BY DEF raw
  <2> QED
    BY <2>1, FixedVariable DEF R
<1>2. \A i \in DOMAIN raw : raw[i] \in Variables(N, A)
  <2> HIDE DEF raw
  <2> QED
    BY <1>1
<1> HIDE DEF raw
<1>3. /\ IsFiniteSet(R) /\ slab \in Nat
      /\ \A i \in R : raw[i].strides[2] \in Nat \ {0} /\ raw[i].strides[2] <= slab
      /\ \A i, j \in R : i # j => slab = SumFunctionOnSet(padded, R)
  BY <1>1, SlabExact
<1> HIDE DEF padded, slab, f
<1>4. /\ \A i \in R : /\ i \in DOMAIN raw /\ h.vars[i].strides[1] = raw[i].strides[2]
                      /\ h.vars[i].strides[2] = slab
      /\ \A i \in DOMAIN raw : i \notin R => h.vars[i].strides = raw[i].strides
  <2>1. slab \in Int
    BY <1>3
  <2>2. R \subseteq DOMAIN raw
    BY DEF Recs
  <2> QED
    BY <1>1, <2>1, <2>2, FixExact DEF slab
<1>5. \A i \in DOMAIN h.vars : VSize(h.vars[i]) \in Nat \ {0}
  <2> TAKE i \in DOMAIN h.vars
  <2>1. CASE i \in R
    BY <1>3, <1>4, <2>1 DEF VSize
  <2>2. CASE i \notin R
    <3>1. ~IsRecord(raw[i]) /\ raw[i] \in Variables(N, A) /\ Shaped(raw[i])
      BY <1>1, <1>2, <2>2 DEF Recs
    <3>2. raw[i].strides[1] \in Nat \ {0}
      BY <3>1, ShapedStrides
    <3> QED
      BY <1>1, <1>4, <2>2, <3>2 DEF VSize
  <2> QED
    BY <2>1, <2>2
<1>6. \A i \in R : f[i] = padded[i] /\ f[i] \in Nat
  <2> TAKE i \in R
  <2>1. f[i] = Pad4(raw[i].strides[2]) /\ padded[i] = Pad4(raw[i].strides[2])
    BY <1>1, <1>4 DEF f, padded, VSize
  <2> QED
    BY <1>3, <2>1, Padding
<1>7. SumFunctionOnSet(padded, R) = SumFunctionOnSet(f, R)
  BY <1>3, <1>6, SumEqual
<1>8. \A i, j \in R : i # j => h.vars[i].strides[2] = SumFunctionOnSet(f, R)
  BY <1>3, <1>4, <1>7
<1>9. \A i \in R : VSize(h.vars[i]) <= h.vars[i].strides[2] /\ h.vars[i].strides[2] \in Nat
  BY <1>3, <1>4 DEF VSize
<1> QED
  BY <1>1, <1>4, <1>5, <1>8, <1>9 DEF f

\* A header that is laid out has its variables spaced out.
LEMMA LaidOutSpaced ==
  ASSUME NEW N, NEW A, NEW D, NEW h \in Headers(N, A, D), LaidOut(h)
  PROVE  Spaced(h)
<1> DEFINE V == h.vars
           S == DOMAIN h.vars
           f == [k \in DOMAIN h.vars |-> Pad4(VSize(h.vars[k]))]
           Sum(X) == SumFunctionOnSet(f, X)
           B(i) == Before(h.vars, i)
<1>1. /\ V \in Seq(Variables(N, A)) /\ IsFiniteSet(S) /\ S \subseteq Nat
  <2>1. V \in Seq(Variables(N, A))
    BY DEF Headers
  <2>2. S = 1..Len(V) /\ Len(V) \in Nat
    BY <2>1
  <2> QED
    BY <2>1, <2>2, FS_Interval
<1>2. /\ \A i \in S : VSize(V[i]) \in Nat \ {0}
      /\ \A i \in Recs(V) : V[i].strides[2] \in Nat /\ VSize(V[i]) <= V[i].strides[2]
      /\ \A i, j \in Recs(V) : V[i].strides[2] = V[j].strides[2]
      /\ \A i, j \in Recs(V) : i # j => V[i].strides[2] = Sum(Recs(V))
  BY SizesExact DEF LaidOut
<1>3. \A i \in S : f[i] \in Nat /\ f[i] % 4 = 0 /\ f[i] = Pad4(VSize(V[i]))
  BY <1>2, Padding
<1>4. PICK first \in Nat :
        /\ first % 4 = 0 /\ Pad4(HeaderSize(h)) <= first
        /\ \A i \in S : V[i].begin = first + Sum(B(i))
  BY DEF LaidOut, Placed
<1>5. \A i \in S : B(i) \subseteq S
  BY DEF Before
<1>6. Recs(V) \subseteq S /\ \A i \in S : i \in Recs(V) <=> IsRecord(V[i])
  BY DEF Recs
<1> HIDE DEF f
<1>7. \A X \in SUBSET S : IsFiniteSet(X) /\ Sum(X) \in Nat /\ Sum(X) % 4 = 0
  <2> TAKE X \in SUBSET S
  <2>1. IsFiniteSet(X) /\ \A x \in X : f[x] \in Nat /\ f[x] % 4 = 0
    BY <1>1, <1>3, FS_Subset
  <2> QED
    BY <2>1, SumNatural, SumAligned
<1>8. \A i, j \in S : Precedes(V, i, j) => B(i) \subseteq B(j) /\ i \in B(j) /\ i \notin B(i)
  BY <1>1, Ordered
<1>9. ASSUME NEW X \in SUBSET S, NEW x \in S \ X PROVE Sum(X \cup {x}) = f[x] + Sum(X)
  <2>1. \A y \in X \cup {x} : f[y] \in Nat
    BY <1>3
  <2> QED
    BY <1>7, <2>1, SumAdd
<1>10. ASSUME NEW X \in SUBSET S, NEW Y \in SUBSET X PROVE Sum(Y) <= Sum(X)
  <2>1. IsFiniteSet(X) /\ \A y \in X : f[y] \in Nat
    BY <1>3, <1>7
  <2> QED
    BY <2>1, SumSubset
<1>11. ASSUME NEW X \in SUBSET S, NEW Y \in SUBSET S, X \cap Y = {} PROVE Sum(X \cup Y) = Sum(X) + Sum(Y)
  <2>1. IsFiniteSet(X) /\ IsFiniteSet(Y) /\ \A y \in X \cup Y : f[y] \in Nat
    BY <1>3, <1>7
  <2> QED
    BY <1>11, <2>1, SumUnion
<1>12. ASSUME NEW i \in S, NEW j \in S, Precedes(V, i, j)
       PROVE  V[i].begin + Pad4(VSize(V[i])) <= V[j].begin
  <2>1. B(i) \in SUBSET S /\ i \in S \ B(i) /\ B(j) \in SUBSET S /\ B(i) \cup {i} \in SUBSET B(j)
    BY <1>5, <1>8, <1>12
  <2> HIDE DEF B, Sum
  <2>2. Sum(B(i) \cup {i}) = f[i] + Sum(B(i)) /\ Sum(B(i) \cup {i}) <= Sum(B(j))
    BY <1>9, <1>10, <2>1
  <2>3. Sum(B(i)) \in Nat /\ Sum(B(j)) \in Nat /\ f[i] \in Nat
    BY <1>3, <1>7, <2>1
  <2> QED
    BY <1>3, <1>4, <2>2, <2>3
<1>13. ASSUME NEW i \in S, NEW j \in S, IsRecord(V[i]), IsRecord(V[j]), Precedes(V, i, j)
       PROVE  V[j].begin + Pad4(VSize(V[j])) <= V[i].begin + V[i].strides[2]
  <2> DEFINE W == B(j) \cup {j}
             X == W \ B(i)
  <2>1. j \notin B(j) /\ i # j
    BY <1>1, <1>13, Ordered DEF Before
  <2>2. X \subseteq Recs(V)
    <3> SUFFICES ASSUME NEW k \in X PROVE k \in Recs(V)
      OBVIOUS
    <3>1. k \in S /\ (k = j \/ Precedes(V, k, j)) /\ ~Precedes(V, k, i)
      BY DEF Before
    <3>2. k = j \/ k = i \/ Precedes(V, i, k)
      BY <1>1, <3>1, Ordered
    <3> QED
      BY <1>13, <3>1, <3>2 DEF Precedes, Recs, IsRecord
  <2>3. B(i) \subseteq W /\ B(i) \cup X = W /\ B(i) \cap X = {}
    BY <1>8, <1>13
  <2>4. B(i) \in SUBSET S /\ B(j) \in SUBSET S /\ X \in SUBSET S /\ Recs(V) \in SUBSET S
    BY <1>5, <1>6, <2>2
  <2> HIDE DEF B, Sum, X
  <2>5. Sum(W) = f[j] + Sum(B(j)) /\ Sum(B(i) \cup X) = Sum(B(i)) + Sum(X)
    BY <1>9, <1>11, <2>1, <2>3, <2>4
  <2>6. Sum(B(i) \cup X) = Sum(W)
    BY <2>3
  <2>7. Sum(X) <= Sum(Recs(V)) /\ V[i].strides[2] = Sum(Recs(V))
    BY <1>2, <1>6, <1>10, <1>13, <2>1, <2>2, <2>4 DEF Sum
  <2>8. /\ Sum(B(i)) \in Nat /\ Sum(B(j)) \in Nat /\ Sum(X) \in Nat
        /\ Sum(Recs(V)) \in Nat /\ f[j] \in Nat
    BY <1>3, <1>7, <2>4
  <2> HIDE DEF W
  <2> QED
    BY <1>3, <1>4, <2>5, <2>6, <2>7, <2>8
<1>14. ASSUME NEW i \in S
       PROVE  V[i].begin \in Nat /\ V[i].begin % 4 = 0 /\ Pad4(HeaderSize(h)) <= V[i].begin
  <2>1. Sum(B(i)) \in Nat /\ Sum(B(i)) % 4 = 0
    BY <1>5, <1>7
  <2>2. Pad4(HeaderSize(h)) \in Int
    <3>1. HeaderSize(h) \in Nat
      BY HeaderSizeGrows
    <3> QED
      BY <3>1, Padding
  <2> HIDE DEF Sum, B
  <2> QED
    BY <1>4, <2>1, <2>2
<1> QED
  BY <1>2, <1>6, <1>12, <1>13, <1>14 DEF Spaced

-----------------------------------------------------------------------------
(* The records of the variables.                                           *)

\* Where record r of variable v begins.
RecordBegin(v, r) == v.begin + (IF IsRecord(v) THEN r * v.strides[2] ELSE 0)

\* Records begin behind the header.
LEMMA RecordBeginTyped ==
  ASSUME NEW h, Spaced(h), NEW i \in DOMAIN h.vars, NEW r \in Nat
  PROVE  /\ RecordBegin(h.vars[i], r) \in Nat
         /\ h.vars[i].begin <= RecordBegin(h.vars[i], r)
<1> DEFINE v == h.vars[i]
           x == r * v.strides[2]
<1>1. v.begin \in Nat /\ (IsRecord(v) => v.strides[2] \in Nat)
  BY DEF Spaced
<1>2. IsRecord(v) => x \in Nat
  <2> HIDE DEF v
  <2> QED
    BY <1>1, Z3T(30)
<1> HIDE DEF x
<1>3. RecordBegin(v, r) = v.begin + (IF IsRecord(v) THEN x ELSE 0)
  BY DEF RecordBegin, x
<1> HIDE DEF v
<1> QED
  BY <1>1, <1>2, <1>3 DEF v

\* Of two variables, any record of the first ends before any record of the second
\* begins or begins after it ended, padding included.
LEMMA VariablesApart ==
  ASSUME NEW h, Spaced(h), NEW i \in DOMAIN h.vars, NEW j \in DOMAIN h.vars,
         NEW r \in Nat, NEW s \in Nat, Precedes(h.vars, i, j)
  PROVE  \/ RecordBegin(h.vars[i], r) + Pad4(VSize(h.vars[i])) <= RecordBegin(h.vars[j], s)
         \/ RecordBegin(h.vars[j], s) + Pad4(VSize(h.vars[j])) <= RecordBegin(h.vars[i], r)
<1> DEFINE v == h.vars[i]
           w == h.vars[j]
           d == v.strides[2]
<1>1. /\ v.begin \in Nat /\ w.begin \in Nat /\ VSize(v) \in Nat /\ VSize(w) \in Nat
      /\ v.begin + Pad4(VSize(v)) <= w.begin
  BY DEF Spaced
<1>2. /\ Pad4(VSize(v)) \in Nat /\ VSize(v) <= Pad4(VSize(v))
      /\ Pad4(VSize(w)) \in Nat /\ VSize(w) <= Pad4(VSize(w))
  BY <1>1, Padding
<1>3. w.begin <= RecordBegin(w, s) /\ RecordBegin(w, s) \in Nat
  BY RecordBeginTyped
<1>4. CASE ~IsRecord(v)
  <2>1. RecordBegin(v, r) = v.begin
    BY <1>1, <1>4 DEF RecordBegin
  <2> HIDE DEF v, w
  <2> QED
    BY <1>1, <1>2, <1>3, <2>1 DEF v, w
<1>5. CASE IsRecord(v)
  <2>1. IsRecord(w)
    BY <1>5 DEF Precedes, IsRecord
  <2>2. /\ d \in Nat /\ w.strides[2] = d
        /\ w.begin + Pad4(VSize(w)) <= v.begin + d
    BY <1>5, <2>1 DEF Spaced
  <2>3. RecordBegin(v, r) = v.begin + r * d /\ RecordBegin(w, s) = w.begin + s * d
    BY <1>5, <2>1, <2>2 DEF RecordBegin
  <2> HIDE DEF v, w, d
  <2>4. r * d \in Nat /\ s * d \in Nat
    BY <2>2, Z3T(30)
  <2>5. CASE r <= s
    <3>1. r * d <= s * d
      <4>1. s - r \in Nat /\ s = r + (s - r)
        BY <2>5
      <4>2. \A k \in Nat : (r + k) * d = r * d + k * d /\ k * d \in Nat
        BY <2>2, Z3T(30)
      <4>3. s * d = r * d + (s - r) * d /\ (s - r) * d \in Nat
        BY <4>1, <4>2
      <4> QED
        BY <2>4, <4>3
    <3> QED
      BY <1>1, <1>2, <2>3, <2>4, <3>1 DEF v, w
  <2>6. CASE s < r
    <3>1. s * d + d <= r * d
      <4>1. r - s - 1 \in Nat /\ r = s + 1 + (r - s - 1)
        BY <2>6
      <4>2. \A k \in Nat : (s + 1 + k) * d = s * d + d + k * d /\ k * d \in Nat
        BY <2>2, Z3T(30)
      <4>3. r * d = s * d + d + (r - s - 1) * d /\ (r - s - 1) * d \in Nat
        BY <4>1, <4>2
      <4> QED
        BY <2>2, <2>4, <4>3
    <3> QED
      BY <1>1, <1>2, <2>2, <2>3, <2>4, <3>1 DEF v, w
  <2> QED
    BY <2>5, <2>6
<1> QED
  BY <1>4, <1>5

\* So do two records of one variable: the n bytes that begin a record end before the
\* next one begins, as far as they fit a slab.
LEMMA RecordsApart ==
  ASSUME NEW h, Spaced(h), NEW i \in DOMAIN h.vars, NEW r \in Nat, NEW s \in Nat,
         IsRecord(h.vars[i]), r < s, NEW n \in Nat, n <= h.vars[i].strides[2]
  PROVE  RecordBegin(h.vars[i], r) + n <= RecordBegin(h.vars[i], s)
<1> DEFINE v == h.vars[i]
           d == v.strides[2]
<1>1. v.begin \in Nat /\ d \in Nat /\ n <= d
  BY DEF Spaced
<1>2. RecordBegin(v, r) = v.begin + r * d /\ RecordBegin(v, s) = v.begin + s * d
  BY DEF RecordBegin
<1> HIDE DEF v, d
<1>3. r * d + d <= s * d /\ r * d \in Nat /\ s * d \in Nat
  <2>1. s - r - 1 \in Nat /\ s = r + 1 + (s - r - 1)
    OBVIOUS
  <2>2. \A k \in Nat : (r + 1 + k) * d = r * d + d + k * d /\ k * d \in Nat
    BY <1>1, Z3T(30)
  <2>3. s * d = r * d + d + (s - r - 1) * d /\ (s - r - 1) * d \in Nat
    BY <2>1, <2>2
  <2>4. r * d \in Nat
    BY <1>1, Z3T(30)
  <2> QED
    BY <1>1, <2>3, <2>4
<1> QED
  BY <1>1, <1>2, <1>3 DEF v

\* No byte belongs to two records.
LEMMA BytesApart ==
  ASSUME NEW h, Spaced(h), DOMAIN h.vars \subseteq Nat,
         NEW i \in DOMAIN h.vars, NEW j \in DOMAIN h.vars, NEW r \in Nat, NEW s \in Nat,
         IsRecord(h.vars[i]) \/ r = 0, IsRecord(h.vars[j]) \/ s = 0,
         NEW b \in 0..VSize(h.vars[i])-1, NEW c \in 0..VSize(h.vars[j])-1,
         ByteOffset(h.vars[i], r, b) = ByteOffset(h.vars[j], s, c)
  PROVE  i = j /\ r = s /\ b = c
<1> DEFINE x == RecordBegin(h.vars[i], r)
           y == RecordBegin(h.vars[j], s)
<1>1. x \in Nat /\ y \in Nat /\ VSize(h.vars[i]) \in Nat /\ VSize(h.vars[j]) \in Nat
  BY RecordBeginTyped DEF Spaced
<1>2. x + b = y + c
  BY DEF ByteOffset, RecordBegin
<1>3. /\ ~(x + VSize(h.vars[i]) <= y) /\ ~(y + VSize(h.vars[j]) <= x)
      /\ ~(x + Pad4(VSize(h.vars[i])) <= y) /\ ~(y + Pad4(VSize(h.vars[j])) <= x)
  <2>1. /\ VSize(h.vars[i]) <= Pad4(VSize(h.vars[i])) /\ Pad4(VSize(h.vars[i])) \in Nat
        /\ VSize(h.vars[j]) <= Pad4(VSize(h.vars[j])) /\ Pad4(VSize(h.vars[j])) \in Nat
    BY <1>1, Padding
  <2> HIDE DEF x, y
  <2> QED
    BY <1>1, <1>2, <2>1
<1>4. i = j
  <2>1. ~Precedes(h.vars, i, j)
    BY <1>3, VariablesApart
  <2>2. ~Precedes(h.vars, j, i)
    BY <1>3, VariablesApart
  <2> QED
    BY <2>1, <2>2, Ordered
<1>5. r = s
  <2>1. CASE IsRecord(h.vars[i])
    <3>1. VSize(h.vars[i]) <= h.vars[i].strides[2]
      BY <2>1 DEF Spaced
    <3>2. ~(r < s) /\ ~(s < r)
      BY <1>1, <1>3, <1>4, <2>1, <3>1, RecordsApart
    <3> QED
      BY <3>2
  <2> QED
    BY <1>4, <2>1
<1> HIDE DEF x, y
<1>6. x = y
  BY <1>4, <1>5 DEF x, y
<1> QED
  BY <1>1, <1>2, <1>4, <1>5, <1>6

-----------------------------------------------------------------------------
(* Define.                                                                 *)

\* The variable v, put at x, and the variables vars, put at bs.
At(v, x) == [v EXCEPT !.begin = x]
\* The same for all of them.
Moved(vars, bs) == [i \in DOMAIN vars |-> At(vars[i], bs[i])]

\* Nothing else about a variable changes.
LEMMA AtExact ==
  ASSUME NEW N, NEW A, NEW v \in Variables(N, A), NEW x \in Int
  PROVE  /\ At(v, x) \in Variables(N, A) /\ At(v, x).begin = x
         /\ At(v, x).name = v.name /\ At(v, x).dim = v.dim /\ At(v, x).att = v.att
         /\ At(v, x).dtype = v.dtype /\ At(v, x).vsize = v.vsize
         /\ At(v, x).lengths = v.lengths /\ At(v, x).strides = v.strides
  BY DEF Variables, At

\* Nor about several.
LEMMA MovedExact ==
  ASSUME NEW N, NEW A, NEW vars \in Seq(Variables(N, A)), NEW bs \in [DOMAIN vars -> Int],
         NEW ws, ws = Moved(vars, bs)
  PROVE  /\ ws \in Seq(Variables(N, A)) /\ Len(ws) = Len(vars) /\ DOMAIN ws = DOMAIN vars
         /\ \A i \in DOMAIN vars : /\ ws[i] = At(vars[i], bs[i])
                                   /\ ws[i].name = vars[i].name /\ ws[i].dim = vars[i].dim
                                   /\ ws[i].att = vars[i].att /\ ws[i].dtype = vars[i].dtype
                                   /\ ws[i].vsize = vars[i].vsize /\ ws[i].begin = bs[i]
                                   /\ ws[i].lengths = vars[i].lengths
                                   /\ ws[i].strides = vars[i].strides
<1>1. /\ \A i \in DOMAIN vars : vars[i] \in Variables(N, A) /\ bs[i] \in Int
      /\ DOMAIN ws = DOMAIN vars /\ DOMAIN vars = 1..Len(vars)
      /\ ws = [i \in DOMAIN vars |-> ws[i]]
      /\ \A i \in DOMAIN vars : ws[i] = At(vars[i], bs[i])
  BY DEF Moved
<1>2. ws \in [1..Len(vars) -> Variables(N, A)]
  BY <1>1, AtExact
<1>3. ws \in Seq(Variables(N, A)) /\ Len(ws) = Len(vars)
  BY <1>1, <1>2
<1> QED
  BY <1>1, <1>3, AtExact

\* Where the variables are does not matter to fixRecordStrides: fixing the strides
\* and placing the variables may be done in either order.
LEMMA FixMoved ==
  ASSUME NEW N, NEW A, NEW vars \in Seq(Variables(N, A)), NEW bs \in [DOMAIN vars -> Int],
         \A i \in DOMAIN vars : Shaped(vars[i])
  PROVE  FixRecordStrides(Moved(vars, bs)) = Moved(FixRecordStrides(vars), bs)
<1> DEFINE ws == Moved(vars, bs)
           R == Recs(vars)
<1>1. /\ \A i \in DOMAIN vars : vars[i] \in Variables(N, A) /\ bs[i] \in Int
      /\ R \subseteq DOMAIN vars
  BY DEF Recs
<1>2. ws = Moved(vars, bs)
  OBVIOUS
<1> HIDE DEF ws
<1>3. /\ ws \in Seq(Variables(N, A)) /\ DOMAIN ws = DOMAIN vars
      /\ \A i \in DOMAIN vars : ws[i] = At(vars[i], bs[i])
  BY <1>2, MovedExact
<1>4. \A i \in DOMAIN vars : /\ ws[i].strides = vars[i].strides /\ ws[i].lengths = vars[i].lengths
                             /\ ws[i].dim = vars[i].dim /\ ws[i].dtype = vars[i].dtype
  BY <1>2, MovedExact
<1>5. Recs(ws) = R /\ \A i \in DOMAIN ws : Shaped(ws[i])
  BY <1>1, <1>3, <1>4, SMTT(60) DEF Recs, Shaped, IsRecord
<1>6. SlabOf(ws) = SlabOf(vars)
  <2>1. /\ [i \in R |-> Pad4(ws[i].strides[2])] = [i \in R |-> Pad4(vars[i].strides[2])]
        /\ [i \in R |-> ws[i].strides[2]] = [i \in R |-> vars[i].strides[2]]
    BY <1>1, <1>4
  <2> HIDE DEF R
  <2> QED
    BY <1>5, <2>1 DEF SlabOf, R
<1> DEFINE slab == SlabOf(vars)
<1>7. /\ FixRecordStrides(ws) =
           [i \in DOMAIN vars |-> IF i \in R THEN [ws[i] EXCEPT !.strides = Slabbed(vars[i].strides, slab)]
                                 ELSE ws[i]]
      /\ FixRecordStrides(vars) =
           [i \in DOMAIN vars |-> IF i \in R THEN [vars[i] EXCEPT !.strides = Slabbed(vars[i].strides, slab)]
                                 ELSE vars[i]]
  <2>1. FixRecordStrides(ws) =
          [i \in DOMAIN ws |-> IF i \in Recs(ws)
                              THEN [ws[i] EXCEPT !.strides = Slabbed(ws[i].strides, SlabOf(ws))]
                              ELSE ws[i]]
    BY <1>3, <1>5, FixUnfolds
  <2>2. FixRecordStrides(vars) =
           [i \in DOMAIN vars |-> IF i \in R THEN [vars[i] EXCEPT !.strides = Slabbed(vars[i].strides, slab)]
                                 ELSE vars[i]]
    BY FixUnfolds
  <2> HIDE DEF R
  <2> QED
    BY <1>1, <1>3, <1>4, <1>5, <1>6, <2>1, <2>2
<1>8. \A i \in DOMAIN vars :
        [At(vars[i], bs[i]) EXCEPT !.strides = Slabbed(vars[i].strides, slab)]
          = At([vars[i] EXCEPT !.strides = Slabbed(vars[i].strides, slab)], bs[i])
  <2> HIDE DEF slab
  <2> QED
    BY <1>1 DEF Variables, At
<1> HIDE DEF R, slab
<1> DEFINE F == FixRecordStrides(vars)
<1>9. DOMAIN F = DOMAIN vars /\ DOMAIN FixRecordStrides(ws) = DOMAIN vars
  BY <1>7
<1>10. \A i \in DOMAIN vars : FixRecordStrides(ws)[i] = At(F[i], bs[i])
  <2> TAKE i \in DOMAIN vars
  <2>1. CASE i \in R
    BY <1>3, <1>7, <1>8, <2>1
  <2>2. CASE i \notin R
    BY <1>3, <1>7, <2>2
  <2> QED
    BY <2>1, <2>2
<1>11. FixRecordStrides(ws) = [i \in DOMAIN vars |-> FixRecordStrides(ws)[i]]
  BY <1>7
<1> HIDE DEF F
<1>12. FixRecordStrides(ws) = Moved(F, bs)
  BY <1>9, <1>10, <1>11 DEF Moved
<1> QED
  BY <1>12 DEF ws, F

\* A variable that is as setComputed leaves it stays so wherever it is put.
LEMMA ComputedMoves ==
  ASSUME NEW N, NEW A, NEW v \in Variables(N, A), NEW w \in Variables(N, A), NEW ds,
         v = SetComputed(v, ds), w.name = v.name, w.dim = v.dim, w.att = v.att, w.dtype = v.dtype
  PROVE  SetComputed(w, ds) = At(v, w.begin)
  BY ComputedAgrees DEF At

\* The larger of a natural number and 0.
LEMMA MaxWithZero == ASSUME NEW x \in Nat PROVE Max({x, 0}) = x
<1>1. x \in {x, 0} /\ \A y \in {x, 0} : x >= y
  OBVIOUS
<1>2. \A z \in {x, 0} : (\A y \in {x, 0} : z >= y) => z = x
  OBVIOUS
<1> QED
  BY <1>1, <1>2 DEF Max

\* A header as the calls before Define leave it.
Growing(h) ==
  DimsExist(h) /\ \A i \in DOMAIN h.vars : h.vars[i] = SetComputed(h.vars[i], h.dim) /\ h.vars[i].begin = 0

\* The variables of two headers are the same but for where they are.
SameButBegin(vars, ws) ==
  /\ Len(ws) = Len(vars)
  /\ \A i \in DOMAIN vars : ws[i] = At(vars[i], ws[i].begin)

\* Fixing the strides of a growing header gives a header with its strides fixed.
LEMMA FixedHeader ==
  ASSUME NEW N, NEW A, NEW D, NEW h \in Headers(N, A, D), Growing(h), NEW g \in Headers(N, A, D),
         g.dim = h.dim, SameButBegin(FixRecordStrides(h.vars), g.vars)
  PROVE  /\ FixRecordStrides(h.vars) \in Seq(Variables(N, A))
         /\ Len(FixRecordStrides(h.vars)) = Len(h.vars)
         /\ DimsExist(g) /\ StridesFixed(g)
         /\ Len(g.vars) = Len(h.vars)
         /\ \A i \in DOMAIN h.vars :
              /\ g.vars[i].name = h.vars[i].name /\ g.vars[i].dim = h.vars[i].dim
              /\ g.vars[i].att = h.vars[i].att /\ g.vars[i].lengths = h.vars[i].lengths
<1> DEFINE V == h.vars
           F == FixRecordStrides(h.vars)
           W == g.vars
           raw == [i \in DOMAIN W |-> SetComputed(W[i], g.dim)]
<1>1. /\ V \in Seq(Variables(N, A)) /\ W \in Seq(Variables(N, A)) /\ h.dim \in Seq(Dimensions(D))
      /\ DOMAIN V = 1..Len(V) /\ DOMAIN W = 1..Len(W)
  <2>1. V \in Seq(Variables(N, A)) /\ W \in Seq(Variables(N, A)) /\ h.dim \in Seq(Dimensions(D))
    BY DEF Headers
  <2> QED
    BY <2>1
<1>2. \A i \in DOMAIN V : V[i] \in Variables(N, A) /\ Shaped(V[i])
  <2> TAKE i \in DOMAIN V
  <2>1. V[i] \in Variables(N, A) /\ V[i] = SetComputed(V[i], h.dim)
    BY <1>1 DEF Growing
  <2>2. Shaped(SetComputed(V[i], h.dim))
    BY <1>1, <2>1, ComputedShaped DEF Growing, DimsExist
  <2> QED
    BY <2>1, <2>2
<1>3. /\ F \in Seq(Variables(N, A)) /\ Len(F) = Len(V)
      /\ \A i \in DOMAIN V : /\ F[i].name = V[i].name /\ F[i].dim = V[i].dim
                             /\ F[i].att = V[i].att /\ F[i].dtype = V[i].dtype
                             /\ F[i].lengths = V[i].lengths
  <2> HIDE DEF V, F
  <2>1. SlabOf(V) \in Nat
    BY <1>1, <1>2, SlabExact
  <2>2. SlabOf(V) \in Int /\ F = FixRecordStrides(V)
    BY <2>1 DEF V, F
  <2> QED
    BY <1>1, <1>2, <2>2, FixExact
<1>4. /\ Len(W) = Len(V) /\ DOMAIN W = DOMAIN V /\ DOMAIN F = DOMAIN V
      /\ \A i \in DOMAIN V : W[i] = At(F[i], W[i].begin)
  <2> HIDE DEF F
  <2>1. Len(W) = Len(F) /\ \A i \in DOMAIN F : W[i] = At(F[i], W[i].begin)
    BY DEF SameButBegin, F
  <2>2. DOMAIN F = 1..Len(F)
    BY <1>3
  <2> QED
    BY <1>1, <1>3, <2>1, <2>2
<1>5. \A i \in DOMAIN V : /\ F[i] \in Variables(N, A) /\ W[i] \in Variables(N, A)
                          /\ W[i].begin \in Int
  <2> HIDE DEF F, W, V
  <2>1. \A i \in DOMAIN V : F[i] \in Variables(N, A) /\ W[i] \in Variables(N, A)
    BY <1>1, <1>3, <1>4
  <2> QED
    BY <2>1 DEF Variables
<1>6. \A i \in DOMAIN V : /\ W[i].name = V[i].name /\ W[i].dim = V[i].dim
                          /\ W[i].att = V[i].att /\ W[i].dtype = V[i].dtype
                          /\ W[i].lengths = V[i].lengths
  <2> HIDE DEF F, W, V
  <2>1. \A i \in DOMAIN V : /\ W[i].name = F[i].name /\ W[i].dim = F[i].dim
                            /\ W[i].att = F[i].att /\ W[i].dtype = F[i].dtype
                            /\ W[i].lengths = F[i].lengths
    <3> TAKE i \in DOMAIN V
    <3> DEFINE x == W[i].begin
               v == F[i]
               w == W[i]
    <3>1. v \in Variables(N, A) /\ x \in Int /\ w = At(v, x)
      BY <1>4, <1>5
    <3> HIDE DEF x, v, w
    <3>2. /\ w.name = v.name /\ w.dim = v.dim /\ w.att = v.att /\ w.dtype = v.dtype
          /\ w.lengths = v.lengths
      BY <3>1, AtExact
    <3> QED
      BY <3>2 DEF v, w
  <2> QED
    BY <1>3, <2>1
<1>7. DimsExist(g)
  BY <1>4, <1>6 DEF Growing, DimsExist
<1>8. \A i \in DOMAIN V : raw[i] = At(V[i], W[i].begin)
  <2> TAKE i \in DOMAIN V
  <2>1. V[i] = SetComputed(V[i], h.dim) /\ raw[i] = SetComputed(W[i], h.dim)
    BY <1>4 DEF Growing
  <2> HIDE DEF V, W, raw
  <2> QED
    BY <1>2, <1>5, <1>6, <2>1, ComputedMoves
<1>9. raw \in Seq(Variables(N, A)) /\ DOMAIN raw = DOMAIN V
  <2>1. \A i \in DOMAIN V : raw[i] \in Variables(N, A) /\ raw[i].begin = W[i].begin
    <3> HIDE DEF V, W, raw
    <3> QED
      BY <1>2, <1>5, <1>8, AtExact
  <2>2. raw \in [1..Len(V) -> Variables(N, A)]
    BY <1>1, <1>4, <2>1
  <2> QED
    BY <1>1, <2>2
<1> DEFINE bs == [i \in DOMAIN V |-> W[i].begin]
<1>10. raw = Moved(V, bs) /\ W = Moved(F, bs) /\ bs \in [DOMAIN V -> Int]
  <2> HIDE DEF V, W, raw, F
  <2>1. W = [i \in DOMAIN W |-> W[i]] /\ raw = [i \in DOMAIN raw |-> raw[i]]
    BY <1>1, <1>9
  <2>2. \A i \in DOMAIN V : W[i].begin \in Int
    BY <1>5 DEF Variables
  <2> QED
    BY <1>4, <1>8, <1>9, <2>1, <2>2 DEF Moved
<1>11. FixRecordStrides(raw) = W
  <2> HIDE DEF V, raw, W, bs
  <2>1. FixRecordStrides(Moved(V, bs)) = Moved(FixRecordStrides(V), bs)
    BY <1>1, <1>2, <1>10, FixMoved, ZenonT(60)
  <2> QED
    BY <1>10, <2>1 DEF V
<1>12. StridesFixed(g)
  BY <1>11 DEF StridesFixed
<1> QED
  BY <1>3, <1>4, <1>6, <1>7, <1>12

\* The header h with other variables.
WithVars(h, vs) == [h EXCEPT !.vars = vs]

\* A header with other variables is otherwise the same.
LEMMA VarsChanged ==
  ASSUME NEW N, NEW A, NEW D, NEW h \in Headers(N, A, D), NEW vs \in Seq(Variables(N, A)),
         NEW g, g = WithVars(h, vs)
  PROVE  /\ g \in Headers(N, A, D)
         /\ g.version = h.version /\ g.dim = h.dim /\ g.att = h.att /\ g.vars = vs
  BY DEF Headers, WithVars

\* A header of another version is otherwise the same.
LEMMA VersionChanged ==
  ASSUME NEW N, NEW A, NEW D, NEW h \in Headers(N, A, D), NEW x \in -1..2,
         NEW g, g = [h EXCEPT !.version = x]
  PROVE  /\ g \in Headers(N, A, D)
         /\ g.version = x /\ g.dim = h.dim /\ g.att = h.att /\ g.vars = h.vars
  BY DEF Headers

\* The room each variable takes where it is put.
Rooms(vars) == [k \in DOMAIN vars |-> Pad4(VSize(vars[k]))]

\* setOffsets changes where the variables are and nothing else.
LEMMA OffsetsExact ==
  ASSUME NEW N, NEW A, NEW D, NEW h \in Headers(N, A, D), NEW placed, NEW first,
         HeaderSize(h) \in Nat, \A i \in DOMAIN h.vars : VSize(h.vars[i]) \in Nat,
         placed = SetOffsets(h, 0), first = Pad4(HeaderSize(h))
  PROVE  /\ placed \in Headers(N, A, D)
         /\ placed.version = h.version /\ placed.dim = h.dim /\ placed.att = h.att
         /\ first \in Nat /\ first % 4 = 0
         /\ Len(placed.vars) = Len(h.vars)
         /\ \E bs \in [DOMAIN h.vars -> Int] :
              /\ placed.vars = Moved(h.vars, bs)
              /\ \A i \in DOMAIN h.vars : bs[i] = first + SumFunctionOnSet(Rooms(h.vars), Before(h.vars, i))
<1> DEFINE V == h.vars
           f == Rooms(V)
           bs == [i \in DOMAIN V |-> first + SumFunctionOnSet(f, Before(V, i))]
           W == Moved(V, bs)
<1>1. V \in Seq(Variables(N, A)) /\ DOMAIN V = 1..Len(V) /\ IsFiniteSet(DOMAIN V)
  <2>1. V \in Seq(Variables(N, A))
    BY DEF Headers
  <2>2. DOMAIN V = 1..Len(V) /\ Len(V) \in Nat
    BY <2>1
  <2> HIDE DEF V
  <2> QED
    BY <2>1, <2>2, FS_Interval
<1>2. first \in Nat /\ first % 4 = 0
  BY Padding
<1>3. placed = [h EXCEPT !.vars = W]
  <2>1. Pad4(Max({HeaderSize(h), 0})) = first
    BY MaxWithZero
  <2>2. W = [i \in DOMAIN V |->
               [V[i] EXCEPT !.begin = first + SumFunctionOnSet(f, Before(V, i))]]
    BY DEF Moved, At
  <2>3. f = [k \in DOMAIN V |-> Pad4(VSize(V[k]))]
    BY DEF Rooms
  <2> HIDE DEF W, f
  <2> QED
    BY <2>1, <2>2, <2>3 DEF SetOffsets
<1>4. bs \in [DOMAIN V -> Nat]
  <2> SUFFICES ASSUME NEW i \in DOMAIN V
               PROVE  first + SumFunctionOnSet(f, Before(V, i)) \in Nat
    OBVIOUS
  <2>1. Before(V, i) \subseteq DOMAIN V
    BY DEF Before
  <2>2. \A k \in DOMAIN V : f[k] \in Nat
    BY Padding DEF Rooms
  <2>3. IsFiniteSet(Before(V, i))
    BY <1>1, <2>1, FS_Subset
  <2>4. SumFunctionOnSet(f, Before(V, i)) \in Nat
    BY <2>1, <2>2, <2>3, SumNatural
  <2> QED
    BY <1>2, <2>4
<1> HIDE DEF W, V
<1>5. bs \in [DOMAIN V -> Int]
  <2> HIDE DEF bs
  <2> QED
    BY <1>4
<1>6. W \in Seq(Variables(N, A)) /\ Len(W) = Len(V)
  <2> HIDE DEF bs
  <2>1. W = Moved(V, bs)
    BY DEF W
  <2> QED
    BY <1>1, <1>5, <2>1, MovedExact
<1>7. /\ placed \in Headers(N, A, D)
      /\ placed.version = h.version /\ placed.dim = h.dim /\ placed.att = h.att
      /\ placed.vars = W
  <2>1. placed = WithVars(h, W)
    BY <1>3 DEF WithVars
  <2> QED
    BY <1>6, <2>1, VarsChanged
<1>8. \A i \in DOMAIN V : bs[i] = first + SumFunctionOnSet(f, Before(V, i))
  OBVIOUS
<1> HIDE DEF bs
<1> QED
  BY <1>2, <1>5, <1>6, <1>7, <1>8 DEF V, W

\* Of the variables of a spaced header none begins behind the last.
LEMMA LastIsLast ==
  ASSUME NEW h, Spaced(h), NEW S, h.vars \in Seq(S), h.vars # <<>>, NEW i \in DOMAIN h.vars
  PROVE  LastOffset(h.vars) \in Nat /\ h.vars[i].begin <= LastOffset(h.vars)
<1> DEFINE V == h.vars
           Last(j) == \A k \in DOMAIN V \ {j} : Precedes(V, k, j)
           l == CHOOSE j \in DOMAIN V : Last(j)
<1>1. l \in DOMAIN V /\ Last(l)
  <2>1. \E j \in DOMAIN V : Last(j)
    BY EndsOfOrder
  <2> HIDE DEF Last
  <2> QED
    BY <2>1
<1>2. LastOffset(V) = V[l].begin
  BY DEF LastOffset
<1> HIDE DEF l
<1>3. V[i].begin \in Nat /\ V[l].begin \in Nat /\ VSize(V[i]) \in Nat
  BY <1>1 DEF Spaced
<1>4. CASE i = l
  BY <1>2, <1>3, <1>4
<1>5. CASE i # l
  <2>1. V[i].begin + Pad4(VSize(V[i])) <= V[l].begin
    BY <1>1, <1>5 DEF Spaced
  <2>2. Pad4(VSize(V[i])) \in Nat
    BY <1>3, Padding
  <2> HIDE DEF V
  <2>3. LastOffset(V) \in Nat /\ V[i].begin <= LastOffset(V)
    BY <1>2, <1>3, <2>1, <2>2
  <2> QED
    BY <2>3 DEF V
<1> QED
  BY <1>4, <1>5

\* Define lays a growing header out, and all offsets fit the format it chooses.
LEMMA DefinedLaidOut ==
  ASSUME NEW N, NEW A, NEW D, NEW h \in Headers(N, A, D), Growing(h), h.vars # <<>>,
         NEW g, g = Defined(h)
  PROVE  /\ g \in Headers(N, A, D) /\ g.version \in {1, 2} /\ LaidOut(g)
         /\ g.version = 1 => \A i \in DOMAIN g.vars : g.vars[i].begin < OffsetLimit
         /\ g.dim = h.dim /\ g.att = h.att /\ Len(g.vars) = Len(h.vars)
         /\ \A i \in DOMAIN h.vars : g.vars[i].name = h.vars[i].name /\ g.vars[i].att = h.vars[i].att
<1> DEFINE V == h.vars
           F == FixRecordStrides(V)
           fixed == [h EXCEPT !.vars = F, !.version = 2]
           placed == SetOffsets(fixed, DataStart(fixed))
<1>1. /\ V \in Seq(Variables(N, A)) /\ DOMAIN V = 1..Len(V)
      /\ \A i \in DOMAIN V : Shaped(V[i]) /\ V[i].begin = 0
  <2>1. V \in Seq(Variables(N, A)) /\ h.dim \in Seq(Dimensions(D))
    BY DEF Headers
  <2>2. \A i \in DOMAIN V : Shaped(V[i])
    <3> TAKE i \in DOMAIN V
    <3>1. V[i] \in Variables(N, A) /\ V[i] = SetComputed(V[i], h.dim)
      BY <2>1 DEF Growing
    <3>2. Shaped(SetComputed(V[i], h.dim))
      BY <2>1, <3>1, ComputedShaped DEF Growing, DimsExist
    <3> QED
      BY <3>1, <3>2
  <2> QED
    BY <2>1, <2>2 DEF Growing
<1>2. /\ F \in Seq(Variables(N, A)) /\ Len(F) = Len(V) /\ DOMAIN F = DOMAIN V
      /\ \A i \in DOMAIN V : F[i].begin = 0
  <2> HIDE DEF V, F
  <2>1. SlabOf(V) \in Nat
    BY <1>1, SlabExact
  <2>2. SlabOf(V) \in Int /\ F = FixRecordStrides(V)
    BY <2>1 DEF F
  <2>3. F \in Seq(Variables(N, A)) /\ Len(F) = Len(V)
    BY <1>1, <2>2, FixExact
  <2>4. \A i \in DOMAIN V : F[i].begin = V[i].begin
    BY <1>1, <2>2, FixExact
  <2> QED
    BY <1>1, <2>3, <2>4
<1>3. /\ fixed \in Headers(N, A, D) /\ fixed.vars = F /\ fixed.version = 2
      /\ fixed.dim = h.dim /\ fixed.att = h.att
  <2> HIDE DEF F
  <2> DEFINE x == [h EXCEPT !.vars = F]
  <2>1. x \in Headers(N, A, D) /\ x.dim = h.dim /\ x.att = h.att /\ x.vars = F
    <3>1. x = WithVars(h, F)
      BY DEF WithVars
    <3> HIDE DEF x
    <3> QED
      BY <1>2, <3>1, VarsChanged
  <2>2. fixed = [x EXCEPT !.version = 2] /\ 2 \in -1..2
    OBVIOUS
  <2> HIDE DEF x, fixed
  <2> QED
    BY <2>1, <2>2, VersionChanged
<1> HIDE DEF F, fixed, V
<1>4. SameButBegin(F, F)
  <2>1. \A i \in DOMAIN F : F[i] \in Variables(N, A)
    BY <1>2
  <2>2. \A i \in DOMAIN F : F[i] = At(F[i], F[i].begin)
    BY <2>1 DEF Variables, At
  <2> QED
    BY <2>2 DEF SameButBegin
<1>5. /\ DimsExist(fixed) /\ StridesFixed(fixed)
  <2>1. SameButBegin(FixRecordStrides(h.vars), fixed.vars)
    BY <1>3, <1>4 DEF F, V
  <2> QED
    BY <1>3, <2>1, FixedHeader
<1>6. \A i \in DOMAIN F : VSize(F[i]) \in Nat
  BY <1>3, <1>5, SizesExact
<1>7. HeaderSize(fixed) \in Nat
  BY <1>3, HeaderSizeGrows
<1>8. DataStart(fixed) = 0
  <2>1. F # <<>>
    BY <1>1, <1>2 DEF V
  <2>2. \E i \in DOMAIN F : Before(F, i) = {}
    BY <1>2, <2>1, EndsOfOrder
  <2> DEFINE l == CHOOSE i \in DOMAIN F : Before(F, i) = {}
  <2>3. l \in DOMAIN F
    BY <2>2
  <2>4. DataStart(fixed) = F[l].begin
    BY <1>3 DEF DataStart
  <2> QED
    BY <1>2, <2>3, <2>4
<1> DEFINE first == Pad4(HeaderSize(fixed))
           f == Rooms(F)
<1>9. /\ placed \in Headers(N, A, D)
      /\ placed.version = 2 /\ placed.dim = h.dim /\ placed.att = h.att
      /\ first \in Nat /\ first % 4 = 0
      /\ \E bs \in [DOMAIN F -> Int] :
           /\ placed.vars = Moved(F, bs)
           /\ \A i \in DOMAIN F : bs[i] = first + SumFunctionOnSet(f, Before(F, i))
  <2>1. placed = SetOffsets(fixed, 0) /\ first = Pad4(HeaderSize(fixed))
    BY <1>8
  <2>2. \A i \in DOMAIN fixed.vars : VSize(fixed.vars[i]) \in Nat
    BY <1>3, <1>6
  <2>3. f = Rooms(fixed.vars)
    BY <1>3
  <2> HIDE DEF placed, first, f
  <2>4. /\ placed \in Headers(N, A, D)
        /\ placed.version = fixed.version /\ placed.dim = fixed.dim /\ placed.att = fixed.att
        /\ first \in Nat /\ first % 4 = 0
        /\ \E bs \in [DOMAIN fixed.vars -> Int] :
              /\ placed.vars = Moved(fixed.vars, bs)
              /\ \A i \in DOMAIN fixed.vars : bs[i] = first + SumFunctionOnSet(Rooms(fixed.vars), Before(fixed.vars, i))
    BY <1>3, <1>7, <2>1, <2>2, OffsetsExact
  <2> QED
    BY <1>3, <2>3, <2>4
<1>10. g = [placed EXCEPT !.version = IF LastOffset(placed.vars) < OffsetLimit THEN 1 ELSE 2]
  BY DEF Defined, fixed, F, V
<1> HIDE DEF placed, first, f
<1>11. /\ g \in Headers(N, A, D) /\ g.version \in {1, 2} /\ g.vars = placed.vars
       /\ g.dim = h.dim /\ g.att = h.att
       /\ g.version = 1 => LastOffset(g.vars) < OffsetLimit
  <2> DEFINE z == IF LastOffset(placed.vars) < OffsetLimit THEN 1 ELSE 2
  <2>1. z \in {1, 2} /\ z \in -1..2 /\ (z = 1 => LastOffset(placed.vars) < OffsetLimit)
    OBVIOUS
  <2>2. g = [placed EXCEPT !.version = z]
    BY <1>10
  <2> HIDE DEF z
  <2>3. /\ g \in Headers(N, A, D) /\ g.version = z /\ g.vars = placed.vars
        /\ g.dim = placed.dim /\ g.att = placed.att
    BY <1>9, <2>1, <2>2, VersionChanged
  <2> QED
    BY <1>9, <2>1, <2>3
<1> DEFINE W == g.vars
<1>A. PICK bs \in [DOMAIN F -> Int] :
         /\ W = Moved(F, bs)
         /\ \A i \in DOMAIN F : bs[i] = first + SumFunctionOnSet(f, Before(F, i))
  BY <1>9, <1>11
<1> HIDE DEF W
<1>B. SameButBegin(F, W)
  <2>1. /\ Len(W) = Len(F)
        /\ \A i \in DOMAIN F : W[i] = At(F[i], bs[i]) /\ W[i].begin = bs[i]
    BY <1>2, <1>A, MovedExact
  <2> QED
    BY <2>1 DEF SameButBegin
<1>12. /\ DimsExist(g) /\ StridesFixed(g) /\ Len(g.vars) = Len(V)
       /\ \A i \in DOMAIN V : /\ g.vars[i].name = V[i].name /\ g.vars[i].dim = V[i].dim
                              /\ g.vars[i].att = V[i].att
  <2>1. SameButBegin(FixRecordStrides(h.vars), g.vars)
    BY <1>B DEF F, V, W
  <2>2. SameButBegin(FixRecordStrides(h.vars), fixed.vars)
    BY <1>3, <1>4 DEF F, V
  <2>3. /\ DimsExist(g) /\ StridesFixed(g) /\ Len(g.vars) = Len(h.vars)
    BY <1>11, <2>1, FixedHeader
  <2>4. \A i \in DOMAIN h.vars : /\ g.vars[i].name = h.vars[i].name /\ g.vars[i].dim = h.vars[i].dim
                                 /\ g.vars[i].att = h.vars[i].att
    BY <1>11, <2>1, FixedHeader
  <2> QED
    BY <2>3, <2>4 DEF V
<1>13. /\ W \in Seq(Variables(N, A)) /\ DOMAIN W = DOMAIN F
       /\ \A i \in DOMAIN F : /\ W[i].begin = bs[i] /\ W[i].dim = F[i].dim /\ W[i].att = F[i].att
                              /\ W[i].lengths = F[i].lengths /\ W[i].strides = F[i].strides
  BY <1>2, <1>A, MovedExact
<1>14. Placed(g)
  <2>1. [k \in DOMAIN W |-> Pad4(VSize(W[k]))] = f
    BY <1>13 DEF VSize, Rooms, f
  <2>2. \A i \in DOMAIN F : Before(W, i) = Before(F, i)
    <3>1. \A i, j \in DOMAIN F : Precedes(W, i, j) = Precedes(F, i, j)
      BY <1>13 DEF Precedes, IsRecord
    <3> QED
      BY <1>13, <3>1 DEF Before
  <2>3. Pad4(HeaderSize(g)) <= first
    <3>1. /\ fixed.dim = g.dim /\ fixed.att = g.att /\ Len(fixed.vars) = Len(g.vars)
          /\ \A i \in DOMAIN g.vars : fixed.vars[i].dim = g.vars[i].dim /\ fixed.vars[i].att = g.vars[i].att
      BY <1>2, <1>3, <1>11, <1>12, <1>13 DEF W
    <3>2. HeaderSize(g) \in Nat /\ HeaderSize(g) <= HeaderSize(fixed)
      BY <1>3, <1>11, <3>1, HeaderSizeGrows
    <3> QED
      BY <1>7, <3>2, PaddingMonotone DEF first
  <2>4. \A i \in DOMAIN g.vars : g.vars[i].begin = first
          + SumFunctionOnSet([k \in DOMAIN g.vars |-> Pad4(VSize(g.vars[k]))], Before(g.vars, i))
    BY <1>A, <1>13, <2>1, <2>2 DEF W
  <2> QED
    BY <1>9, <2>3, <2>4 DEF Placed
<1>15. LaidOut(g)
  BY <1>12, <1>14 DEF LaidOut
<1>16. g.version = 1 => \A i \in DOMAIN g.vars : g.vars[i].begin < OffsetLimit
  <2> SUFFICES ASSUME g.version = 1, NEW i \in DOMAIN g.vars PROVE g.vars[i].begin < OffsetLimit
    OBVIOUS
  <2>1. Spaced(g)
    BY <1>11, <1>15, LaidOutSpaced
  <2>2. g.vars \in Seq(Variables(N, A)) /\ g.vars # <<>>
    BY <1>13 DEF W
  <2>3. LastOffset(g.vars) \in Nat /\ g.vars[i].begin <= LastOffset(g.vars)
    BY <2>1, <2>2, LastIsLast
  <2>4. g.vars[i].begin \in Nat
    BY <2>1 DEF Spaced
  <2> QED
    BY <1>11, <2>3, <2>4, OffsetLimitAssumption
<1> QED
  BY <1>11, <1>12, <1>15, <1>16 DEF V

-----------------------------------------------------------------------------
(* A header that keeps its offsets when they are set again.                *)

\* The greater of two numbers.
LEMMA MaxOfTwo ==
  ASSUME NEW x \in Int, NEW y \in Int
  PROVE  Max({x, y}) = IF x < y THEN y ELSE x
<1> DEFINE m == IF x < y THEN y ELSE x
<1>1. m \in {x, y} /\ \A z \in {x, y} : m >= z
  OBVIOUS
<1>2. \A n \in {x, y} : (\A z \in {x, y} : n >= z) => n = m
  OBVIOUS
<1> QED
  BY <1>1, <1>2 DEF Max

\* The start of the data section is the offset of the variable that comes first.
LEMMA DataStartExact ==
  ASSUME NEW S, NEW h, h.vars \in Seq(S), h.vars # <<>>, h.version # 0
  PROVE  \E i \in DOMAIN h.vars : Before(h.vars, i) = {} /\ DataStart(h) = h.vars[i].begin
<1> DEFINE First(i) == Before(h.vars, i) = {}
           k == CHOOSE i \in DOMAIN h.vars : First(i)
<1>1. \E i \in DOMAIN h.vars : First(i)
  BY EndsOfOrder
<1>2. DataStart(h) = h.vars[k].begin
  BY DEF DataStart
<1>3. k \in DOMAIN h.vars /\ First(k)
  <2> HIDE DEF First
  <2> QED
    BY <1>1
<1> QED
  BY <1>2, <1>3

\* Where setOffsets puts each variable.
NewOffsets(h, first) ==
  [i \in DOMAIN h.vars |-> first + SumFunctionOnSet(Rooms(h.vars), Before(h.vars, i))]

\* setOffsets changes where the variables are and nothing else, from any start on.
LEMMA OffsetsMove ==
  ASSUME NEW h, NEW start, NEW first, first = Pad4(Max({HeaderSize(h), start}))
  PROVE  SetOffsets(h, start) = WithVars(h, Moved(h.vars, NewOffsets(h, first)))
<1> DEFINE W == [i \in DOMAIN h.vars |->
         [h.vars[i] EXCEPT !.begin =
            first + SumFunctionOnSet([k \in DOMAIN h.vars |-> Pad4(VSize(h.vars[k]))], Before(h.vars, i))]]
<1>1. SetOffsets(h, start) = [h EXCEPT !.vars = W]
  BY DEF SetOffsets
<1>2. Moved(h.vars, NewOffsets(h, first)) = W
  BY DEF Moved, At, NewOffsets, Rooms
<1> HIDE DEF W
<1> QED
  BY <1>1, <1>2, Zenon DEF WithVars

\* The offsets are integers.
LEMMA NewOffsetsTyped ==
  ASSUME NEW N, NEW A, NEW D, NEW h \in Headers(N, A, D), DimsExist(h), StridesFixed(h),
         NEW first \in Nat
  PROVE  NewOffsets(h, first) \in [DOMAIN h.vars -> Int]
<1> DEFINE V == h.vars
<1>1. IsFiniteSet(DOMAIN V)
  <2>1. V \in Seq(Variables(N, A))
    BY DEF Headers
  <2>2. DOMAIN V = 1..Len(V) /\ Len(V) \in Nat
    BY <2>1
  <2> HIDE DEF V
  <2> QED
    BY <2>2, FS_Interval
<1>2. \A k \in DOMAIN V : Rooms(V)[k] \in Nat
  BY SizesExact, Padding DEF Rooms
<1> SUFFICES ASSUME NEW i \in DOMAIN V
             PROVE  first + SumFunctionOnSet(Rooms(V), Before(V, i)) \in Int
  BY DEF NewOffsets
<1>3. Before(V, i) \subseteq DOMAIN V /\ IsFiniteSet(Before(V, i))
  BY <1>1, FS_Subset DEF Before
<1>4. SumFunctionOnSet(Rooms(V), Before(V, i)) \in Nat
  BY <1>2, <1>3, SumNatural
<1> QED
  BY <1>4

\* A header that setOffsets leaves as it is has its variables placed one after the other.
LEMMA SettledPlaced ==
  ASSUME NEW N, NEW A, NEW D, NEW h \in Headers(N, A, D), DimsExist(h), StridesFixed(h),
         h.vars # <<>>, h.version # 0, SetOffsets(h, DataStart(h)) = h
  PROVE  Placed(h)
<1> DEFINE V == h.vars
           first == Pad4(Max({HeaderSize(h), DataStart(h)}))
           bs == NewOffsets(h, first)
<1>1. V \in Seq(Variables(N, A)) /\ \A i \in DOMAIN V : V[i].begin \in Int
  <2>1. V \in Seq(Variables(N, A))
    BY DEF Headers
  <2>2. \A i \in DOMAIN V : V[i] \in Variables(N, A)
    BY <2>1
  <2> QED
    BY <2>1, <2>2 DEF Variables
<1>2. HeaderSize(h) \in Nat /\ DataStart(h) \in Int
  BY <1>1, HeaderSizeGrows, DataStartExact
<1>3. first \in Nat /\ first % 4 = 0 /\ Pad4(HeaderSize(h)) <= first
  <2>1. Max({HeaderSize(h), DataStart(h)}) \in Nat /\ HeaderSize(h) <= Max({HeaderSize(h), DataStart(h)})
    BY <1>2, MaxOfTwo
  <2> QED
    BY <1>2, <2>1, Padding, PaddingMonotone
<1> HIDE DEF first
<1>4. SetOffsets(h, DataStart(h)) = WithVars(h, Moved(V, bs))
  BY OffsetsMove DEF first
<1>5. bs \in [DOMAIN V -> Int]
  BY <1>3, NewOffsetsTyped
<1>6. \A i \in DOMAIN V : bs[i] = first + SumFunctionOnSet([k \in DOMAIN V |-> Pad4(VSize(V[k]))], Before(V, i))
  BY DEF NewOffsets, Rooms
<1> HIDE DEF bs
<1>7. Moved(V, bs) \in Seq(Variables(N, A)) /\ \A i \in DOMAIN V : Moved(V, bs)[i] = At(V[i], bs[i])
  <2>1. Moved(V, bs) \in Seq(Variables(N, A))
    BY <1>1, <1>5, MovedExact
  <2> HIDE DEF V
  <2> QED
    BY <2>1 DEF Moved
<1>8. WithVars(h, Moved(V, bs)).vars = Moved(V, bs)
  BY <1>7, VarsChanged
<1>9. V = Moved(V, bs)
  BY <1>4, <1>8
<1>10. \A i \in DOMAIN V : V[i].begin = bs[i]
  <2> TAKE i \in DOMAIN V
  <2>1. V[i] = At(V[i], bs[i]) /\ V[i] \in Variables(N, A) /\ bs[i] \in Int
    BY <1>1, <1>5, <1>7, <1>9
  <2>2. At(V[i], bs[i]).begin = bs[i]
    BY <2>1, AtExact
  <2> QED
    BY <2>1, <2>2
<1> QED
  BY <1>3, <1>6, <1>10 DEF Placed

\* And a laid out header is one that setOffsets leaves as it is.
LEMMA LaidOutSettled ==
  ASSUME NEW N, NEW A, NEW D, NEW h \in Headers(N, A, D), LaidOut(h), h.vars # <<>>, h.version # 0
  PROVE  SetOffsets(h, DataStart(h)) = h
<1> DEFINE V == h.vars
<1>1. V \in Seq(Variables(N, A)) /\ \A i \in DOMAIN V : V[i] \in Variables(N, A)
  <2>1. V \in Seq(Variables(N, A))
    BY DEF Headers
  <2> HIDE DEF V
  <2> QED
    BY <2>1
<1>2. PICK first \in Nat :
        /\ first % 4 = 0 /\ Pad4(HeaderSize(h)) <= first
        /\ \A i \in DOMAIN V : V[i].begin = first + SumFunctionOnSet(Rooms(V), Before(V, i))
  BY DEF LaidOut, Placed, Rooms
<1>3. HeaderSize(h) \in Nat /\ HeaderSize(h) <= first
  <2>1. HeaderSize(h) \in Nat
    BY HeaderSizeGrows
  <2>2. HeaderSize(h) <= Pad4(HeaderSize(h)) /\ Pad4(HeaderSize(h)) \in Nat
    BY <2>1, Padding
  <2> QED
    BY <1>2, <2>1, <2>2
<1>4. DataStart(h) = first
  <2>1. PICK i \in DOMAIN V : Before(V, i) = {} /\ DataStart(h) = V[i].begin
    BY <1>1, DataStartExact
  <2>2. SumFunctionOnSet(Rooms(V), {}) = 0
    BY SumEmpty
  <2>3. V[i].begin = first + SumFunctionOnSet(Rooms(V), Before(V, i))
    BY <1>2
  <2>4. first + 0 = first
    BY <1>2
  <2> QED
    BY <2>1, <2>2, <2>3, <2>4
<1>5. Pad4(Max({HeaderSize(h), DataStart(h)})) = first
  <2>1. Max({HeaderSize(h), DataStart(h)}) = first
    BY <1>3, <1>4, MaxOfTwo
  <2>2. Pad4(first) = first
    BY <1>2 DEF Pad4
  <2> QED
    BY <2>1, <2>2
<1>6. SetOffsets(h, DataStart(h)) = WithVars(h, Moved(V, NewOffsets(h, first)))
  BY <1>5, OffsetsMove
<1>7. Moved(V, NewOffsets(h, first)) = V
  <2>1. \A i \in DOMAIN V : At(V[i], NewOffsets(h, first)[i]) = V[i]
    <3> TAKE i \in DOMAIN V
    <3>1. NewOffsets(h, first)[i] = V[i].begin
      BY <1>2 DEF NewOffsets
    <3>2. At(V[i], V[i].begin) = V[i]
      BY <1>1 DEF At, Variables
    <3> QED
      BY <3>1, <3>2
  <2>2. V = [i \in DOMAIN V |-> V[i]]
    BY <1>1
  <2>3. Moved(V, NewOffsets(h, first)) = [i \in DOMAIN V |-> At(V[i], NewOffsets(h, first)[i])]
    BY DEF Moved
  <2> HIDE DEF V
  <2> QED
    BY <2>1, <2>2, <2>3
<1>8. WithVars(h, V) = h
  BY DEF WithVars, Headers
<1> QED
  BY <1>6, <1>7, <1>8

\* The strides of a variable of a laid out header: s is what they were before the
\* record strides were fixed, one stride per dimension and the size of an element.
LaidOutStrides(v, s) ==
  /\ v.lengths \in Seq(Nat) /\ Len(v.lengths) = Len(v.dim)
  /\ \A k \in 1..Len(v.lengths) : v.lengths[k] = 0 => k = 1
  /\ s \in Seq(Nat) /\ Len(s) = Len(v.lengths) + 1 /\ s[Len(s)] = StorageSize[v.dtype]
  /\ \A k \in 1..Len(v.lengths) : s[k] = v.lengths[k] * s[k + 1]
  /\ \A k \in 2..Len(s) : s[k] \in Nat \ {0}
  /\ Len(v.strides) = Len(s) /\ \A k \in 3..Len(s) : v.strides[k] = s[k]
  /\ IsRecord(v) => Len(v.lengths) > 0 /\ v.strides[1] = s[2]
  /\ ~IsRecord(v) => v.strides = s /\ s[1] \in Nat \ {0}

\* The record strides are changed, the other strides and the lengths are kept.
LEMMA LaidOutVariable ==
  ASSUME NEW N, NEW A, NEW D, NEW h \in Headers(N, A, D), DimsExist(h), StridesFixed(h),
         NEW i \in DOMAIN h.vars
  PROVE  h.vars[i] \in Variables(N, A) /\ \E s : LaidOutStrides(h.vars[i], s)
<1> DEFINE raw == [k \in DOMAIN h.vars |-> SetComputed(h.vars[k], h.dim)]
           v == h.vars[i]
           w == raw[i]
           s == w.strides
<1>1. /\ raw \in Seq(Variables(N, A)) /\ Len(raw) = Len(h.vars)
      /\ DOMAIN raw = DOMAIN h.vars /\ \A k \in DOMAIN raw : Shaped(raw[k])
      /\ h.vars = FixRecordStrides(raw)
      /\ Recs(h.vars) = Recs(raw)
  <2> HIDE DEF raw
  <2>1. raw = [k \in DOMAIN h.vars |-> SetComputed(h.vars[k], h.dim)]
    BY DEF raw
  <2> QED
    BY <2>1, FixedVariable
<1> HIDE DEF raw
<1>2. w \in Variables(N, A) /\ Shaped(w) /\ SlabOf(raw) \in Int
  <2>1. SlabOf(raw) \in Nat
    BY <1>1, SlabExact
  <2> QED
    BY <1>1, <2>1
<1>3. /\ h.vars \in Seq(Variables(N, A))
      /\ v.dim = w.dim /\ v.dtype = w.dtype /\ v.lengths = w.lengths
      /\ Len(v.strides) = Len(s) /\ \A k \in 3..Len(s) : v.strides[k] = s[k]
      /\ i \notin Recs(raw) => v.strides = s
      /\ i \in Recs(raw) => v.strides[1] = s[2]
  BY <1>1, <1>2, FixExact
<1>4. i \in Recs(raw) <=> IsRecord(v)
  BY <1>1 DEF Recs
<1>5. IsRecord(w) <=> IsRecord(v)
  BY <1>3 DEF IsRecord
<1> HIDE DEF v, w
<1>6. /\ s \in Seq(Nat) /\ Len(s) = Len(w.lengths) + 1 /\ s[Len(s)] = StorageSize[w.dtype]
      /\ \A k \in 1..Len(w.lengths) : s[k] = w.lengths[k] * s[k + 1]
      /\ \A k \in 2..Len(s) : s[k] \in Nat \ {0}
      /\ ~IsRecord(w) => s[1] \in Nat \ {0}
  BY <1>2, ShapedStrides
<1>7. /\ w.lengths \in Seq(Nat) /\ Len(w.lengths) = Len(w.dim)
      /\ \A k \in 1..Len(w.lengths) : w.lengths[k] = 0 => k = 1
  BY <1>2 DEF Shaped
<1>8. IsRecord(v) => Len(v.lengths) > 0
  BY DEF IsRecord
<1> HIDE DEF s
<1>9. LaidOutStrides(v, s)
  BY <1>3, <1>4, <1>5, <1>6, <1>7, <1>8 DEF LaidOutStrides
<1>10. v \in Variables(N, A)
  BY <1>3 DEF v
<1> QED
  BY <1>9, <1>10 DEF v

-----------------------------------------------------------------------------
(* Where the bytes that a strider moves take its cursor: Pos(g, m) and     *)
(* Stop(g, m) say so of m bytes, and the loop, which only ever adds to     *)
(* both, agrees with them.                                                 *)

\* Where m bytes from the begin corner take the cursor, and the end of that stripe.
Pos(g, m)  == g.begin + (m \div g.stripesize) * g.stride + (m % g.stripesize)
Stop(g, m) == g.begin + (m \div g.stripesize) * g.stride + g.stripesize

\* A geometry with elements to move: its stripes do not overlap.
GeometryOK(g) ==
  /\ g.begin \in Nat /\ g.end \in Nat
  /\ g.stripesize \in Nat \ {0} /\ g.stride \in Nat /\ g.stripesize <= g.stride
  /\ g.elemsz \in Nat \ {0}

\* The cursor and the stripe of m bytes moved are natural numbers.
LEMMA PosTyped ==
  ASSUME NEW g, GeometryOK(g), NEW m \in Nat
  PROVE  Pos(g, m) \in Nat /\ Stop(g, m) \in Nat /\ Pos(g, m) < Stop(g, m)
<1> DEFINE q == m \div g.stripesize
           x == m % g.stripesize
           r == q * g.stride
<1>1. q \in Nat /\ x \in 0..g.stripesize-1
  BY DivMod DEF GeometryOK
<1>2. r \in Nat
  <2> HIDE DEF q, x
  <2> QED
    BY <1>1, Z3T(30) DEF GeometryOK
<1>3. Pos(g, m) = g.begin + r + x /\ Stop(g, m) = g.begin + r + g.stripesize
  BY DEF Pos, Stop
<1> HIDE DEF q, x, r
<1> QED
  BY <1>1, <1>2, <1>3 DEF GeometryOK

\* The cursor, seen from begin, is in the stripe and at the place of the bytes moved.
LEMMA PosOffset ==
  ASSUME NEW g, GeometryOK(g), NEW m \in Nat
  PROVE  /\ (Pos(g, m) - g.begin) \div g.stride = m \div g.stripesize
         /\ (Pos(g, m) - g.begin) % g.stride = m % g.stripesize
<1> DEFINE q == m \div g.stripesize
           x == m % g.stripesize
           r == q * g.stride
<1>1. q \in Nat /\ x \in 0..g.stripesize-1
  BY DivMod DEF GeometryOK
<1>2. Pos(g, m) = g.begin + r + x
  BY DEF Pos
<1> HIDE DEF q, x
<1>3. x \in 0..g.stride-1 /\ g.stride \in Nat \ {0} /\ g.begin \in Nat
  BY <1>1 DEF GeometryOK
<1>4. r \in Nat
  BY <1>1, <1>3, Z3T(30)
<1>5. (r + x) \div g.stride = q /\ (r + x) % g.stride = x
  BY <1>1, <1>3, DivUnique
<1> HIDE DEF r
<1>6. Pos(g, m) - g.begin = r + x
  BY <1>1, <1>2, <1>3, <1>4
<1>7. /\ (Pos(g, m) - g.begin) \div g.stride = q
      /\ (Pos(g, m) - g.begin) % g.stride = x
  BY <1>5, <1>6
<1> QED
  BY <1>7 DEF q, x

\* The stripe end computed at the start of a call is that of the bytes moved.
LEMMA StripeEndExact ==
  ASSUME NEW g, GeometryOK(g), NEW m \in Nat
  PROVE  StripeEnd(g, Pos(g, m)) = Stop(g, m)
  BY PosOffset DEF StripeEnd, Stop

\* relOffs counts the elements moved, skipping what lies between the stripes.
LEMMA RelOffsExact ==
  ASSUME NEW g, GeometryOK(g), NEW m \in Nat
  PROVE  RelOffs(g, Pos(g, m)) = m \div g.elemsz
<1> DEFINE p == Pos(g, m) - g.begin
<1>1. p \div g.stride = m \div g.stripesize /\ p % g.stride = m % g.stripesize
  BY PosOffset
<1>2. m = (m \div g.stripesize) * g.stripesize + (m % g.stripesize)
  BY DivMod DEF GeometryOK
<1>3. RelOffs(g, Pos(g, m)) =
        ((p \div g.stride) * g.stripesize + (p % g.stride)) \div g.elemsz
  BY DEF RelOffs
<1> HIDE DEF p
<1> QED
  BY <1>1, <1>2, <1>3

\* Moving nr bytes within the stripe takes cursor and stripe end along.
LEMMA AdvanceExact ==
  ASSUME NEW g, GeometryOK(g), NEW m \in Nat, NEW nr \in Nat,
         Pos(g, m) + nr <= Stop(g, m)
  PROVE  /\ Advance(g, Pos(g, m), Stop(g, m), nr) = Pos(g, m + nr)
         /\ NextEnd(g, Pos(g, m), Stop(g, m), nr) = Stop(g, m + nr)
<1> DEFINE d == g.stripesize
           q == m \div d
           x == m % d
           r == q * g.stride
<1>1. q \in Nat /\ x \in 0..d-1 /\ d \in Nat \ {0} /\ g.stride \in Nat /\ g.begin \in Nat
  BY DivMod DEF GeometryOK
<1>2. Pos(g, m) = g.begin + r + x /\ Stop(g, m) = g.begin + r + d
  BY DEF Pos, Stop
<1>3. r \in Nat /\ (q + 1) * g.stride = r + g.stride
  <2> HIDE DEF q
  <2> QED
    BY <1>1, Z3T(30)
<1>4. /\ x + nr < d => (m + nr) \div d = q /\ (m + nr) % d = x + nr
      /\ x + nr = d => (m + nr) \div d = q + 1 /\ (m + nr) % d = 0
      /\ x + nr <= d
  <2>1. x + nr <= d
    <3> HIDE DEF d, x, r
    <3> QED
      BY <1>1, <1>2, <1>3
  <2> QED
    BY <1>1, <2>1, DivStep
<1>5. /\ Pos(g, m + nr) = g.begin + ((m + nr) \div d) * g.stride + ((m + nr) % d)
      /\ Stop(g, m + nr) = g.begin + ((m + nr) \div d) * g.stride + d
  BY DEF Pos, Stop
<1>6. g.stride - d \in Nat /\ g.stripesize = d
  BY DEF GeometryOK
<1> DEFINE qq == (m + nr) \div d
           xx == (m + nr) % d
<1>7. CASE x + nr < d
  <2>1. qq = q /\ xx = x + nr
    BY <1>4, <1>7
  <2>2. Pos(g, m + nr) = g.begin + r + (x + nr) /\ Stop(g, m + nr) = g.begin + r + d
    BY <1>5, <2>1
  <2> HIDE DEF d, x, r, q
  <2> QED
    BY <1>1, <1>2, <1>3, <1>7, <2>2 DEF Advance, NextEnd
<1>8. CASE x + nr = d
  <2>1. qq = q + 1 /\ xx = 0
    BY <1>4, <1>8
  <2>2. /\ Pos(g, m + nr) = g.begin + (q + 1) * g.stride + 0
        /\ Stop(g, m + nr) = g.begin + (q + 1) * g.stride + d
    BY <1>5, <2>1
  <2> HIDE DEF d, x, r, q
  <2> QED
    BY <1>1, <1>2, <1>3, <1>6, <1>8, <2>2 DEF Advance, NextEnd
<1> HIDE DEF d, x, r, q
<1> QED
  BY <1>1, <1>4, <1>7, <1>8

\* A chunk fits in the stripe, in what is left of the call and before the end.
LEMMA ChunkFits ==
  ASSUME NEW g, GeometryOK(g), NEW c \in Nat, NEW se \in Nat, NEW left \in Nat
  PROVE  /\ Chunk(g, c, se, left) \in Int
         /\ Chunk(g, c, se, left) <= left
         /\ c + Chunk(g, c, se, left) <= se
         /\ g.end > 0 => c + Chunk(g, c, se, left) <= g.end
         /\ c < se /\ left > 0 =>
              Chunk(g, c, se, left) > 0 \/ (g.end > 0 /\ c >= g.end)
  BY DEF Chunk, GeometryOK

\* The elements completed by a call that has moved b - a bytes are at most want,
\* and want when all of its bytes have moved, wherever inside an element it began.
LEMMA CountBound ==
  ASSUME NEW a \in Nat, NEW b \in Nat, NEW w \in Nat, NEW d \in Nat \ {0},
         b <= a + w * d
  PROVE  /\ (b \div d) - (a \div d) <= w
         /\ b = a + w * d => (b \div d) - (a \div d) = w
<1>1. a + w * d \in Nat
  BY Z3T(30)
<1>2. (a + w * d) \div d = (a \div d) + w
  BY DivShift
<1>3. b \div d <= (a + w * d) \div d
  BY <1>1, DivMonotone
<1>4. a \div d \in Nat /\ b \div d \in Nat
  BY DivMod
<1> DEFINE p == a \div d
           q == b \div d
<1>5. q <= p + w /\ (b = a + w * d => q = p + w)
  BY <1>2, <1>3
<1> HIDE DEF p, q
<1>6. q - p <= w /\ (b = a + w * d => q - p = w)
  BY <1>4, <1>5 DEF p, q
<1> QED
  BY <1>6 DEF p, q
=============================================================================
