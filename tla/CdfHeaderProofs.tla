--------------------------- MODULE CdfHeaderProofs ---------------------------
(***************************************************************************)
(* What CdfHeader promises, for any dimension, variable and attribute      *)
(* arguments and any offset limit: from NewHeader on, every header is      *)
(* either growing or laid out, and the storage holds the image of the      *)
(* frozen one.  The lengths given to NewHeader are taken to fit an int32:  *)
(* NewHeader checks them as int and keeps them as int32, and a length that *)
(* wraps to 0 makes a second record dimension.                             *)
(***************************************************************************)
EXTENDS CdfHeader, CdfLayoutProofs

\* What every header keeps to: no name twice, and at most one record dimension.
Named(x) ==
  /\ ~Repeated(x.dim) /\ ~Repeated(x.vars) /\ ~Repeated(x.att)
  /\ \A i \in DOMAIN x.vars : ~Repeated(x.vars[i].att)
  /\ Cardinality({i \in DOMAIN x.dim : x.dim[i].length = 0}) <= 1

\* The offsets of a version 1 header fit an int32.
OffsetsFit(x) == x.version = 1 => \A i \in DOMAIN x.vars : x.vars[i].begin < OffsetLimit

-----------------------------------------------------------------------------
(* Headers written, read and checked.                                      *)

\* setComputed changes nothing about what it has computed before.
LEMMA ComputedTwice ==
  ASSUME NEW N, NEW A, NEW D, NEW v \in Variables(N, A), NEW ds \in Seq(Dimensions(D)),
         NEW w, w = SetComputed(v, ds)
  PROVE  w = SetComputed(w, ds)
<1>1. /\ w \in Variables(N, A) /\ w.name = v.name /\ w.dim = v.dim /\ w.att = v.att
      /\ w.dtype = v.dtype
  BY ComputedExact
<1>2. SetComputed(w, ds) = [w EXCEPT !.begin = w.begin]
  BY <1>1, ComputedAgrees
<1> QED
  BY <1>1, <1>2 DEF Variables

\* The variable v with other attributes.
WithAtts(v, atts) == [v EXCEPT !.att = atts]

\* Nothing else about it is changed.
LEMMA WithAttsExact ==
  ASSUME NEW N, NEW A, NEW v \in Variables(N, A), NEW atts \in Seq(Attributes(A)), NEW w,
         w = WithAtts(v, atts)
  PROVE  /\ w \in Variables(N, A)
         /\ w.name = v.name /\ w.dim = v.dim /\ w.att = atts /\ w.begin = v.begin
         /\ w.dtype = v.dtype
  BY DEF Variables, WithAtts

\* Attributes do not matter to setComputed.
LEMMA AttributesFree ==
  ASSUME NEW N, NEW A, NEW v \in Variables(N, A), NEW ds, NEW atts \in Seq(Attributes(A)), NEW w,
         v = SetComputed(v, ds), w = WithAtts(v, atts)
  PROVE  w = SetComputed(w, ds)
<1> DEFINE ls == LengthsIn(v, ds)
           ss == Strides(ls, StorageSize[v.dtype])
           size == Pad4(IF ss[1] = 0 /\ Len(v.dim) > 0 THEN ss[2] ELSE ss[1])
           vs == IF size > OffsetLimit - 4 THEN -1 ELSE size
<1>1. v = [v EXCEPT !.lengths = ls, !.strides = ss, !.vsize = vs]
  BY DEF SetComputed, LengthsIn
<1>2. w.dim = v.dim /\ w.dtype = v.dtype
  BY DEF Variables, WithAtts
<1>3. SetComputed(w, ds) = [w EXCEPT !.lengths = ls, !.strides = ss, !.vsize = vs]
  BY <1>2 DEF SetComputed, LengthsIn
<1> HIDE DEF ls, ss, vs
<1>4. v.lengths = ls /\ v.strides = ss /\ v.vsize = vs
  BY <1>1 DEF Variables
<1>5. [w EXCEPT !.lengths = ls, !.strides = ss, !.vsize = vs] = w
  BY <1>4 DEF Variables, WithAtts
<1> QED
  BY <1>3, <1>5 DEF Variables, WithAtts

\* What ReadHeader takes from an image and what WriteHeader puts there.
Stored(v) == [name |-> v.name, dim |-> v.dim, att |-> v.att, dtype |-> v.dtype,
              vsize |-> v.vsize, begin |-> v.begin, lengths |-> <<>>, strides |-> <<>>]
\* A version 1 image keeps the low 32 bits of an offset.
Written(v, version) ==
  [name |-> v.name, dim |-> v.dim, att |-> v.att, dtype |-> v.dtype, vsize |-> v.vsize,
   begin |-> IF version = 2 THEN v.begin ELSE ToInt32(v.begin)]

\* Nothing is lost of a laid out header whose offsets fit: reading it back computes
\* the lengths and strides anew, and fixing those of records gives the same slab.
LEMMA ReadBack ==
  ASSUME NEW N, NEW A, NEW D, NEW x \in Headers(N, A, D), LaidOut(x), OffsetsFit(x),
         x.version \in {1, 2}
  PROVE  ReadHeader(WriteHeader(x)) = x
<1> DEFINE V == x.vars
           raw == [i \in DOMAIN V |-> SetComputed(V[i], x.dim)]
           img0 == WriteHeader(x)
           W == [i \in DOMAIN V |-> Written(V[i], x.version)]
<1>1. V \in Seq(Variables(N, A)) /\ x.dim \in Seq(Dimensions(D)) /\ \A i \in DOMAIN V : V[i] \in Variables(N, A)
  <2>1. V \in Seq(Variables(N, A)) /\ x.dim \in Seq(Dimensions(D))
    BY DEF Headers
  <2> HIDE DEF V
  <2> QED
    BY <2>1
<1>2. /\ img0 = [x EXCEPT !.vars = W]
      /\ img0.version = x.version /\ img0.dim = x.dim /\ img0.att = x.att /\ img0.vars = W
  <2>1. img0 = [x EXCEPT !.vars = W]
    BY DEF WriteHeader, Written
  <2> HIDE DEF W, img0
  <2> QED
    BY <2>1 DEF Headers
<1>3. \A i \in DOMAIN V : Stored(W[i]) = Stored(V[i])
  <2> TAKE i \in DOMAIN V
  <2>1. Spaced(x)
    BY LaidOutSpaced
  <2>2. V[i].begin \in Nat /\ (x.version = 1 => V[i].begin < OffsetLimit)
    BY <2>1 DEF Spaced, OffsetsFit
  <2>3. (IF x.version = 2 THEN V[i].begin ELSE ToInt32(V[i].begin)) = V[i].begin
    BY <2>2, FitsInt32
  <2> HIDE DEF V
  <2> QED
    BY <2>3 DEF Stored, Written
<1>4. \A i \in DOMAIN V : SetComputed(Stored(V[i]), x.dim) = raw[i]
  <2> TAKE i \in DOMAIN V
  <2> DEFINE v == V[i]
             w == Stored(v)
  <2>1. v \in Variables(N, A)
    BY <1>1
  <2> HIDE DEF v, V
  <2>2. /\ w \in Variables(N, A) /\ w.name = v.name /\ w.dim = v.dim /\ w.att = v.att
        /\ w.dtype = v.dtype /\ w.begin = v.begin
    BY <2>1 DEF Variables, Stored
  <2> HIDE DEF w
  <2>3. SetComputed(w, x.dim) = [SetComputed(v, x.dim) EXCEPT !.begin = w.begin]
    BY <2>1, <2>2, ComputedAgrees
  <2>4. SetComputed(v, x.dim) \in Variables(N, A) /\ SetComputed(v, x.dim).begin = v.begin
    BY <1>1, <2>1, ComputedExact, SMTT(60)
  <2>5. SetComputed(w, x.dim) = SetComputed(v, x.dim)
    BY <2>2, <2>3, <2>4 DEF Variables
  <2> QED
    BY <2>5 DEF w, v
<1>5. FixRecordStrides(raw) = V
  BY DEF LaidOut, StridesFixed
<1>6. ReadHeader(img0) = [img0 EXCEPT !.vars = FixRecordStrides(raw)]
  <2>1. ReadHeader(img0) = [img0 EXCEPT !.vars =
          FixRecordStrides([i \in DOMAIN img0.vars |-> SetComputed(Stored(img0.vars[i]), img0.dim)])]
    BY DEF ReadHeader, Stored
  <2>2. [i \in DOMAIN img0.vars |-> SetComputed(Stored(img0.vars[i]), img0.dim)] = raw
    <3>1. DOMAIN W = DOMAIN V /\ DOMAIN raw = DOMAIN V /\ raw = [i \in DOMAIN V |-> raw[i]]
      OBVIOUS
    <3> HIDE DEF W, V, raw, img0
    <3> QED
      BY <1>2, <1>3, <1>4, <3>1
  <2> HIDE DEF raw, img0
  <2> QED
    BY <2>1, <2>2
<1> HIDE DEF img0, raw, V, W
<1>7. [img0 EXCEPT !.vars = V] = x
  BY <1>2 DEF Headers, V
<1> QED
  BY <1>5, <1>6, <1>7 DEF img0

\* An image is as long as its header and has its version.
LEMMA ImageShape ==
  ASSUME NEW N, NEW A, NEW D, NEW x \in Headers(N, A, D)
  PROVE  WriteHeader(x).version = x.version /\ Len(WriteHeader(x).vars) = Len(x.vars)
<1> DEFINE W == [i \in DOMAIN x.vars |-> Written(x.vars[i], x.version)]
           y == WriteHeader(x)
<1>1. y = [x EXCEPT !.vars = W]
  BY DEF WriteHeader, Written
<1>2. Len(W) = Len(x.vars)
  <2>1. x.vars \in Seq(Variables(N, A))
    BY DEF Headers
  <2>2. DOMAIN W = 1..Len(x.vars) /\ Len(x.vars) \in Nat
    BY <2>1
  <2> HIDE DEF W
  <2> QED
    BY <2>2
<1> HIDE DEF W, y
<1>3. y.version = x.version /\ y.vars = W
  BY <1>1 DEF Headers
<1> QED
  BY <1>2, <1>3 DEF y

\* A laid out header without repeated names passes the integrity check.
LEMMA ChecksOut ==
  ASSUME NEW N, NEW A, NEW D, NEW x \in Headers(N, A, D), LaidOut(x), Named(x)
  PROVE  Check(x) = {}
<1>1. Spaced(x)
  BY LaidOutSpaced
<1>2. OffsetsValid(x)
  <2> SUFFICES ASSUME NEW i \in DOMAIN x.vars
               PROVE  /\ x.vars[i].begin % 4 = 0 /\ x.vars[i].begin >= Pad4(HeaderSize(x))
                      /\ \A j \in Before(x.vars, i) :
                           x.vars[i].begin >= x.vars[j].begin + Pad4(VSize(x.vars[j]))
    BY DEF OffsetsValid
  <2>1. \A j \in Before(x.vars, i) : j \in DOMAIN x.vars /\ Precedes(x.vars, j, i)
    BY DEF Before
  <2> QED
    BY <1>1, <2>1 DEF Spaced
<1>3. Cardinality({i \in DOMAIN x.dim : x.dim[i].length = 0}) \in Int
  <2>1. x.dim \in Seq(Dimensions(D))
    BY DEF Headers
  <2>2. DOMAIN x.dim = 1..Len(x.dim) /\ Len(x.dim) \in Nat
    BY <2>1
  <2>3. IsFiniteSet({i \in DOMAIN x.dim : x.dim[i].length = 0})
    <3>1. IsFiniteSet(DOMAIN x.dim)
      BY <2>2, FS_Interval
    <3> QED
      BY <3>1, FS_Subset
  <2> QED
    BY <2>3, FS_CardinalityType
<1>4. ~(Cardinality({i \in DOMAIN x.dim : x.dim[i].length = 0}) > 1)
  BY <1>3 DEF Named
<1>5. ~\E i \in DOMAIN x.vars : \E j \in DOMAIN x.vars[i].dim :
         j > 1 /\ x.dim[x.vars[i].dim[j]].length = 0
  BY DEF LaidOut, DimsExist
<1> DEFINE errors ==
      [recdims |-> Cardinality({i \in DOMAIN x.dim : x.dim[i].length = 0}) > 1,
       dims    |-> Repeated(x.dim),
       vars    |-> Repeated(x.vars),
       atts    |-> Repeated(x.att) \/ \E i \in DOMAIN x.vars : Repeated(x.vars[i].att),
       inner   |-> \E i \in DOMAIN x.vars : \E j \in DOMAIN x.vars[i].dim :
                     j > 1 /\ x.dim[x.vars[i].dim[j]].length = 0,
       offsets |-> ~OffsetsValid(x)]
<1>6. /\ DOMAIN errors = {"recdims", "dims", "vars", "atts", "inner", "offsets"}
      /\ ~errors.recdims /\ ~errors.dims /\ ~errors.vars /\ ~errors.atts
      /\ ~errors.inner /\ ~errors.offsets
  BY <1>2, <1>4, <1>5 DEF Named
<1>7. Check(x) = {e \in DOMAIN errors : errors[e]}
  BY DEF Check
<1> HIDE DEF errors
<1> QED
  BY <1>6, <1>7

-----------------------------------------------------------------------------
(* Growing a header.                                                       *)

\* A header as the calls of this module leave it.
Good(x) ==
  /\ x \in Headers(VarNames, AttNames, DimNames) /\ Len(x.vars) <= MaxVars
  /\ Named(x)
  /\ x.version = -1 => x = NoHeader
  /\ x.version = 0  => Growing(x)
  /\ x.version > 0  => LaidOut(x) /\ OffsetsFit(x)

\* A sequence without repeated names keeps to that when one with a new name is appended.
LEMMA AppendDistinct ==
  ASSUME NEW S, NEW s \in Seq(S), NEW x \in S, ~Repeated(s), Positions(s, x.name) = {}
  PROVE  ~Repeated(Append(s, x))
<1>1. /\ \A i \in DOMAIN s : s[i].name # x.name
      /\ \A i, j \in DOMAIN s : i # j => s[i].name # s[j].name
  BY DEF Positions, Repeated
<1>2. /\ DOMAIN Append(s, x) = 1..Len(s)+1 /\ DOMAIN s = 1..Len(s)
      /\ \A i \in 1..Len(s) : Append(s, x)[i] = s[i]
      /\ Append(s, x)[Len(s) + 1] = x /\ Len(s) \in Nat
  OBVIOUS
<1>3. \A i \in 1..Len(s)+1 : i \in 1..Len(s) \/ i = Len(s) + 1
  BY <1>2
<1>4. \A i, j \in 1..Len(s)+1 : i # j => Append(s, x)[i].name # Append(s, x)[j].name
  BY <1>1, <1>2, <1>3
<1> QED
  BY <1>2, <1>4 DEF Repeated

\* The first position at which a name occurs.
LEMMA FirstPosition ==
  ASSUME NEW S, NEW s \in Seq(S), NEW x, Positions(s, x) # {}
  PROVE  Min(Positions(s, x)) \in DOMAIN s /\ s[Min(Positions(s, x))].name = x
<1>1. Positions(s, x) \in SUBSET Nat
  <2>1. DOMAIN s \subseteq Nat
    OBVIOUS
  <2> QED
    BY <2>1 DEF Positions
<1>2. \E i \in Positions(s, x) : \A j \in Positions(s, x) : i <= j
  BY <1>1, LeastNat
<1>3. Min(Positions(s, x)) \in Positions(s, x)
  BY <1>2 DEF Min
<1> QED
  BY <1>3 DEF Positions

\* NewHeader makes a good header of the arguments it accepts.
LEMMA MadeGood ==
  ASSUME LengthsFit, NEW l \in DimLists, DimsValid(l)
  PROVE  Good(MakeHeader(l)) /\ MakeHeader(l).version = 0
<1> DEFINE x == MakeHeader(l)
           ds == [i \in DOMAIN l |-> [l[i] EXCEPT !.length = ToInt32(@)]]
<1>1. /\ l \in Seq([name : DimNames, length : Int])
      /\ \A i \in DOMAIN l : l[i] \in [name : DimNames, length : Int]
      /\ DOMAIN l = 1..Len(l)
  <2>1. l \in Seq([name : DimNames, length : Int])
    BY CdfHeaderAssumption
  <2> DEFINE G == [name : DimNames, length : Int]
  <2> HIDE DEF G
  <2>2. l \in Seq(G) => (\A i \in DOMAIN l : l[i] \in G) /\ DOMAIN l = 1..Len(l)
    OBVIOUS
  <2> QED
    BY <2>1, <2>2 DEF G
<1>2. \A i \in DOMAIN l : l[i].length \in Nat /\ ToInt32(l[i].length) = l[i].length
  <2> TAKE i \in DOMAIN l
  <2>1. l[i].length \in Nat
    BY <1>1 DEF DimsValid
  <2>2. l[i].length < OffsetLimit
    BY DEF LengthsFit
  <2> QED
    BY <2>1, <2>2, FitsInt32
<1>3. \A i \in DOMAIN l : ds[i] = l[i] /\ l[i] \in Dimensions(DimNames)
  BY <1>1, <1>2 DEF Dimensions
<1>4. ds = l /\ l \in Seq(Dimensions(DimNames))
  <2>1. ds = [i \in DOMAIN l |-> ds[i]] /\ l = [i \in DOMAIN l |-> l[i]]
    BY <1>1
  <2> HIDE DEF ds
  <2>2. l \in [1..Len(l) -> Dimensions(DimNames)]
    BY <1>1, <1>3, <2>1
  <2> QED
    BY <1>1, <1>3, <2>1, <2>2
<1>5. x = [version |-> 0, dim |-> l, att |-> <<>>, vars |-> <<>>]
  <2>1. x = [version |-> 0, dim |-> ds, att |-> <<>>, vars |-> <<>>]
    BY DEF MakeHeader
  <2> HIDE DEF ds
  <2> QED
    BY <1>4, <2>1
<1> HIDE DEF x, ds
<1>6. x \in Headers(VarNames, AttNames, DimNames) /\ Len(x.vars) <= MaxVars
  BY <1>4, <1>5, CdfHeaderAssumption DEF Headers
<1>7. Named(x)
  BY <1>5 DEF Named, DimsValid, Repeated
<1>8. Growing(x)
  BY <1>5 DEF Growing, DimsExist
<1> QED
  BY <1>5, <1>6, <1>7, <1>8 DEF Good, x

\* A variable that AddVariable may give to the header x.
Fresh(x, w) ==
  /\ w \in Variables(VarNames, AttNames) /\ w = SetComputed(w, x.dim)
  /\ w.begin = 0 /\ w.att = <<>>
  /\ \A k \in DOMAIN w.dim : w.dim[k] \in DOMAIN x.dim /\ (x.dim[w.dim[k]].length = 0 => k = 1)

\* A good header with one variable more.
LEMMA VariableGood ==
  ASSUME NEW x, NEW w, NEW y, Good(x), x.version = 0, Len(x.vars) < MaxVars,
         Fresh(x, w), Positions(x.vars, w.name) = {}, y = WithVars(x, Append(x.vars, w))
  PROVE  Good(y) /\ y.version = 0
<1> DEFINE V == x.vars
           W == Append(V, w)
<1>1. /\ x \in Headers(VarNames, AttNames, DimNames) /\ Growing(x) /\ Named(x)
      /\ V \in Seq(Variables(VarNames, AttNames)) /\ w \in Variables(VarNames, AttNames)
  BY DEF Good, Headers, Fresh
<1>2. /\ W \in Seq(Variables(VarNames, AttNames)) /\ Len(W) = Len(V) + 1 /\ Len(V) \in Nat
      /\ DOMAIN W = 1..Len(V)+1 /\ DOMAIN V = 1..Len(V)
      /\ \A i \in DOMAIN V : W[i] = V[i]
      /\ W[Len(V) + 1] = w
  <2> HIDE DEF V
  <2> QED
    BY <1>1
<1>3. \A i \in DOMAIN W : i \in DOMAIN V \/ (i = Len(V) + 1 /\ W[i] = w)
  <2>1. \A i \in 1..Len(V)+1 : i \in 1..Len(V) \/ i = Len(V) + 1
    <3> HIDE DEF V
    <3> QED
      BY <1>2
  <2> HIDE DEF V, W
  <2> QED
    BY <1>2, <2>1
<1> HIDE DEF V, W
<1>4. /\ y \in Headers(VarNames, AttNames, DimNames)
      /\ y.version = 0 /\ y.dim = x.dim /\ y.att = x.att /\ y.vars = W
  <2>1. y = WithVars(x, W)
    BY DEF V, W
  <2>2. /\ y \in Headers(VarNames, AttNames, DimNames)
        /\ y.version = x.version /\ y.dim = x.dim /\ y.att = x.att /\ y.vars = W
    BY <1>1, <1>2, <2>1, VarsChanged
  <2> QED
    BY <2>2
<1>5. Growing(y)
  <2>1. \A i \in DOMAIN V : /\ V[i] = SetComputed(V[i], x.dim) /\ V[i].begin = 0
                            /\ \A k \in DOMAIN V[i].dim : V[i].dim[k] \in DOMAIN x.dim
                                 /\ (x.dim[V[i].dim[k]].length = 0 => k = 1)
    BY <1>1 DEF Growing, DimsExist, V
  <2>2. \A i \in DOMAIN W : /\ W[i] = SetComputed(W[i], x.dim) /\ W[i].begin = 0
                            /\ \A k \in DOMAIN W[i].dim : W[i].dim[k] \in DOMAIN x.dim
                                 /\ (x.dim[W[i].dim[k]].length = 0 => k = 1)
    BY <1>2, <1>3, <2>1 DEF Fresh
  <2> QED
    BY <1>4, <2>2 DEF Growing, DimsExist
<1>6. Named(y)
  <2>1. ~Repeated(W)
    BY <1>1, AppendDistinct DEF Named, V, W
  <2>2. \A i \in DOMAIN W : ~Repeated(W[i].att)
    <3>1. ~Repeated(w.att)
      BY DEF Repeated, Fresh
    <3>2. \A i \in DOMAIN V : ~Repeated(V[i].att)
      BY <1>1 DEF Named, V
    <3> QED
      BY <1>2, <1>3, <3>1, <3>2
  <2> QED
    BY <1>1, <1>4, <2>1, <2>2 DEF Named
<1>7. Len(y.vars) <= MaxVars
  BY <1>2, <1>4, CdfHeaderAssumption DEF V
<1> QED
  BY <1>4, <1>5, <1>6, <1>7 DEF Good

\* The positions of dimensions, and a variable before its fields are computed.
DimPositions(x, dims) == [i \in DOMAIN dims |-> Min(Positions(x.dim, dims[i]))]
\* What AddVariable appends.
Blank(name, ps, t) ==
  [name |-> name, dim |-> ps, att |-> <<>>, dtype |-> t, vsize |-> 0, begin |-> 0,
   lengths |-> <<>>, strides |-> <<>>]

\* The variable AddVariable makes of arguments it accepts.
LEMMA NewVariableExact ==
  ASSUME NEW x, NEW v \in VarNames, NEW dims \in VarDims, NEW t \in Types, NEW new, NEW w,
         Good(x), x.version = 0, t # "none",
         \A i \in DOMAIN dims : /\ Positions(x.dim, dims[i]) # {}
                                /\ x.dim[Min(Positions(x.dim, dims[i]))].length = 0 => i = 1,
         new = Blank(v, DimPositions(x, dims), t), w = SetComputed(new, x.dim)
  PROVE  Fresh(x, w) /\ w.name = v
<1> DEFINE ps == DimPositions(x, dims)
<1>1. x.dim \in Seq(Dimensions(DimNames)) /\ dims \in Seq(DimNames)
  BY CdfHeaderAssumption DEF Good, Headers
<1>2. \A i \in DOMAIN dims : ps[i] \in DOMAIN x.dim /\ (x.dim[ps[i]].length = 0 => i = 1)
  BY <1>1, FirstPosition DEF DimPositions
<1>3. DOMAIN dims = 1..Len(dims) /\ Len(dims) \in Nat /\ DOMAIN x.dim \subseteq Nat \ {0}
  BY <1>1
<1>4. ps \in Seq(Nat \ {0}) /\ DOMAIN ps = DOMAIN dims
  <2>1. ps \in [1..Len(dims) -> Nat \ {0}]
    <3>1. DOMAIN ps = DOMAIN dims /\ ps = [i \in DOMAIN dims |-> ps[i]]
      BY DEF DimPositions
    <3> HIDE DEF ps
    <3> QED
      BY <1>2, <1>3, <3>1
  <2> HIDE DEF ps
  <2> QED
    BY <1>3, <2>1
<1>5. t \in DOMAIN StorageSize
  BY CdfHeaderAssumption
<1>6. new = [name |-> v, dim |-> ps, att |-> <<>>, dtype |-> t, vsize |-> 0, begin |-> 0,
             lengths |-> <<>>, strides |-> <<>>]
  BY DEF Blank
<1> HIDE DEF ps
<1>7. /\ new \in Variables(VarNames, AttNames) /\ new.name = v /\ new.dim = ps
      /\ new.att = <<>> /\ new.begin = 0
  <2>1. <<>> \in Seq(Attributes(AttNames)) /\ <<>> \in Seq(Int)
    OBVIOUS
  <2> QED
    BY <1>4, <1>5, <1>6, <2>1 DEF Variables
<1>8. /\ w \in Variables(VarNames, AttNames) /\ w.name = new.name /\ w.dim = new.dim
      /\ w.att = new.att /\ w.begin = new.begin
  <2>1. new \in Variables(VarNames, AttNames)
    BY <1>7
  <2>2. /\ SetComputed(new, x.dim) \in Variables(VarNames, AttNames)
        /\ SetComputed(new, x.dim).name = new.name /\ SetComputed(new, x.dim).dim = new.dim
        /\ SetComputed(new, x.dim).att = new.att /\ SetComputed(new, x.dim).begin = new.begin
    BY <1>1, <2>1, ComputedExact
  <2> QED
    BY <2>2
<1>9. w = SetComputed(w, x.dim)
  BY <1>1, <1>7, ComputedTwice
<1> QED
  BY <1>2, <1>4, <1>7, <1>8, <1>9 DEF Fresh

\* The header x with other attributes of its own.
WithOwn(x, atts) == [x EXCEPT !.att = atts]

\* A good header with one attribute more of its own.
LEMMA HeaderAttributeGood ==
  ASSUME NEW x, NEW new \in Attributes(AttNames), NEW y, Good(x), x.version = 0,
         Positions(x.att, new.name) = {}, y = WithOwn(x, Append(x.att, new))
  PROVE  Good(y) /\ y.version = 0
<1>1. /\ x \in Headers(VarNames, AttNames, DimNames) /\ Growing(x) /\ Named(x)
      /\ x.att \in Seq(Attributes(AttNames))
  BY DEF Good, Headers
<1> DEFINE atts == Append(x.att, new)
<1>2. atts \in Seq(Attributes(AttNames)) /\ ~Repeated(atts)
  BY <1>1, AppendDistinct DEF Named
<1>3. y = [x EXCEPT !.att = atts]
  BY DEF WithOwn
<1> HIDE DEF atts
<1>4. /\ y \in Headers(VarNames, AttNames, DimNames)
      /\ y.version = 0 /\ y.dim = x.dim /\ y.att = atts /\ y.vars = x.vars
  BY <1>1, <1>2, <1>3 DEF Headers
<1>5. Named(y)
  BY <1>1, <1>2, <1>4 DEF Named
<1>6. Growing(y)
  BY <1>1, <1>4 DEF Growing, DimsExist
<1> QED
  BY <1>4, <1>5, <1>6 DEF Good

\* The variables vs, the one at i with other attributes.
PutAtts(vs, i, atts) == [vs EXCEPT ![i] = WithAtts(vs[i], atts)]

\* A good header with one attribute more of a variable.
LEMMA VariableAttributeGood ==
  ASSUME NEW x, NEW i \in DOMAIN x.vars, NEW new \in Attributes(AttNames), NEW y,
         Good(x), x.version = 0, Positions(x.vars[i].att, new.name) = {},
         y = WithVars(x, PutAtts(x.vars, i, Append(x.vars[i].att, new)))
  PROVE  Good(y) /\ y.version = 0
<1> DEFINE V == x.vars
           atts == Append(V[i].att, new)
           w == WithAtts(V[i], atts)
           W == PutAtts(V, i, atts)
<1>1. /\ x \in Headers(VarNames, AttNames, DimNames) /\ Growing(x) /\ Named(x)
      /\ V \in Seq(Variables(VarNames, AttNames))
  BY DEF Good, Headers
<1>2. V[i] \in Variables(VarNames, AttNames) /\ V[i] = SetComputed(V[i], x.dim) /\ V[i].begin = 0
  <2>1. V[i] \in Variables(VarNames, AttNames)
    <3> HIDE DEF V
    <3>1. i \in DOMAIN V
      BY DEF V
    <3> QED
      BY <1>1, <3>1
  <2> QED
    BY <1>1, <2>1 DEF Growing
<1>3. atts \in Seq(Attributes(AttNames)) /\ ~Repeated(atts)
  <2>1. V[i].att \in Seq(Attributes(AttNames)) /\ ~Repeated(V[i].att)
    BY <1>1, <1>2 DEF Variables, Named
  <2> QED
    BY <2>1, AppendDistinct
<1>4. /\ w \in Variables(VarNames, AttNames) /\ w = SetComputed(w, x.dim)
      /\ w.name = V[i].name /\ w.dim = V[i].dim /\ w.att = atts /\ w.begin = 0
  <2> DEFINE v == V[i]
  <2>1. v \in Variables(VarNames, AttNames) /\ v = SetComputed(v, x.dim) /\ v.begin = 0
    BY <1>2
  <2>2. w = WithAtts(v, atts)
    OBVIOUS
  <2> HIDE DEF atts, w, v, W, V
  <2>3. v \in Variables(VarNames, AttNames) /\ atts \in Seq(Attributes(AttNames)) /\ v = SetComputed(v, x.dim)
    BY <1>3, <2>1 
  <2>4. /\ w \in Variables(VarNames, AttNames) /\ w = SetComputed(w, x.dim)
        /\ w.name = v.name /\ w.dim = v.dim /\ w.att = atts /\ w.begin = v.begin
    BY <2>2, <2>3, WithAttsExact, AttributesFree
  <2> QED
    BY <2>1, <2>4 DEF v
<1>5. y = WithVars(x, W)
  OBVIOUS
<1>6. /\ W \in Seq(Variables(VarNames, AttNames)) /\ Len(W) = Len(V) /\ DOMAIN W = DOMAIN V
      /\ W[i] = w /\ \A k \in DOMAIN V : k # i => W[k] = V[k]
  <2>1. i \in DOMAIN V /\ W = [V EXCEPT ![i] = w]
    BY DEF PutAtts
  <2> HIDE DEF V, w, W
  <2> QED
    BY <1>1, <1>4, <2>1
<1> HIDE DEF V, W, w, atts
<1>7. /\ y \in Headers(VarNames, AttNames, DimNames)
      /\ y.version = 0 /\ y.dim = x.dim /\ y.att = x.att /\ y.vars = W
  <2>1. /\ y \in Headers(VarNames, AttNames, DimNames)
        /\ y.version = x.version /\ y.dim = x.dim /\ y.att = x.att /\ y.vars = W
    BY <1>1, <1>5, <1>6, VarsChanged
  <2> QED
    BY <2>1
<1>8. Growing(y)
  <2>1. \A k \in DOMAIN V : /\ V[k] = SetComputed(V[k], x.dim) /\ V[k].begin = 0
                            /\ \A d \in DOMAIN V[k].dim : V[k].dim[d] \in DOMAIN x.dim
                                 /\ (x.dim[V[k].dim[d]].length = 0 => d = 1)
    BY <1>1 DEF Growing, DimsExist, V
  <2>2. \A k \in DOMAIN W : /\ W[k] = SetComputed(W[k], x.dim) /\ W[k].begin = 0
                            /\ W[k].dim = V[k].dim
    BY <1>4, <1>6, <2>1
  <2>3. \A k \in DOMAIN W : \A d \in DOMAIN W[k].dim :
          W[k].dim[d] \in DOMAIN x.dim /\ (x.dim[W[k].dim[d]].length = 0 => d = 1)
    BY <1>6, <2>1, <2>2
  <2> QED
    <3>1. DimsExist(y)
      BY <1>7, <2>3 DEF DimsExist
    <3> QED
      BY <1>7, <2>2, <3>1 DEF Growing
<1>9. Named(y)
  <2>1. \A k \in DOMAIN V : W[k].name = V[k].name /\ ~Repeated(W[k].att)
    BY <1>1, <1>3, <1>4, <1>6 DEF Named, V
  <2>2. ~Repeated(V)
    BY <1>1 DEF Named, V
  <2>3. ~Repeated(W)
    BY <1>6, <2>1, <2>2 DEF Repeated
  <2> QED
    BY <1>1, <1>6, <1>7, <2>1, <2>3 DEF Named
<1> QED
  BY <1>6, <1>7, <1>8, <1>9 DEF Good, V

-----------------------------------------------------------------------------
(* Freezing a header.                                                      *)

\* Define makes a good header of a good one.
LEMMA DefinedGood ==
  ASSUME NEW x, Good(x), x.version = 0, x.vars # <<>>
  PROVE  Good(Defined(x)) /\ Defined(x).version \in {1, 2}
<1> DEFINE y == Defined(x)
<1>1. x \in Headers(VarNames, AttNames, DimNames) /\ Growing(x) /\ Named(x)
  BY DEF Good
<1>2. y = Defined(x)
  OBVIOUS
<1> HIDE DEF y
<1>3. /\ y \in Headers(VarNames, AttNames, DimNames) /\ y.version \in {1, 2} /\ LaidOut(y)
      /\ y.version = 1 => \A i \in DOMAIN y.vars : y.vars[i].begin < OffsetLimit
      /\ y.dim = x.dim /\ y.att = x.att /\ Len(y.vars) = Len(x.vars)
      /\ \A i \in DOMAIN x.vars : y.vars[i].name = x.vars[i].name /\ y.vars[i].att = x.vars[i].att
  BY <1>1, <1>2, DefinedLaidOut
<1>4. DOMAIN y.vars = DOMAIN x.vars
  <2>1. x.vars \in Seq(Variables(VarNames, AttNames)) /\ y.vars \in Seq(Variables(VarNames, AttNames))
    BY <1>1, <1>3 DEF Headers
  <2>2. DOMAIN x.vars = 1..Len(x.vars) /\ DOMAIN y.vars = 1..Len(y.vars)
    BY <2>1
  <2> QED
    BY <1>3, <2>2
<1>5. Named(y)
  BY <1>1, <1>3, <1>4 DEF Named, Repeated
<1> QED
  BY <1>3, <1>5 DEF Good, OffsetsFit, y

\* Without variables there is nothing to lay out.
LEMMA EmptyGood ==
  ASSUME NEW x, Good(x), x.version = 0, x.vars = <<>>, NEW y, y = [x EXCEPT !.version = 2]
  PROVE  Good(y) /\ y.version = 2
<1>1. x \in Headers(VarNames, AttNames, DimNames) /\ Named(x) /\ 2 \in -1..2
  BY DEF Good
<1>2. /\ y \in Headers(VarNames, AttNames, DimNames)
      /\ y.version = 2 /\ y.dim = x.dim /\ y.att = x.att /\ y.vars = <<>>
  BY <1>1, VersionChanged
<1>3. DOMAIN y.vars = {} /\ Len(y.vars) = 0
  BY <1>2
<1>4. StridesFixed(y)
  <2>1. [i \in DOMAIN y.vars |-> SetComputed(y.vars[i], y.dim)] = <<>>
    BY <1>3
  <2>2. \A f : FixRecordStrides(<<>>) = <<>>
    BY DEF FixRecordStrides
  <2> QED
    BY <1>2, <2>1, <2>2 DEF StridesFixed
<1>5. Placed(y)
  <2>1. HeaderSize(y) \in Nat
    BY <1>2, HeaderSizeGrows
  <2>2. Pad4(HeaderSize(y)) \in Nat /\ Pad4(HeaderSize(y)) % 4 = 0
    BY <2>1, Padding
  <2> QED
    BY <1>3, <2>2 DEF Placed
<1>6. LaidOut(y)
  BY <1>3, <1>4, <1>5 DEF LaidOut, DimsExist
<1>7. Named(y)
  BY <1>1, <1>2 DEF Named
<1> QED
  BY <1>2, <1>3, <1>6, <1>7, CdfHeaderAssumption DEF Good, OffsetsFit

-----------------------------------------------------------------------------
(* The inductive invariant.                                                *)

\* The storage holds the image of the frozen header in memory, if any.
ImageCurrent == img = NoImage \/ (h.version > 0 /\ img = WriteHeader(h))

\* The inductive invariant.
IInv == Good(h) /\ ImageCurrent /\ outcome[2] \in {"ok", "panic", "refused"}

\* There is a good header before the first call.
LEMMA InitGood == Init => IInv
<1> SUFFICES ASSUME Init PROVE IInv
  OBVIOUS
<1>1. h = NoHeader /\ img = NoImage /\ outcome = <<"none", "ok">>
  BY DEF Init
<1>2. /\ h.version = -1 /\ h.dim = <<>> /\ h.att = <<>> /\ h.vars = <<>>
      /\ h \in Headers(VarNames, AttNames, DimNames)
  BY <1>1 DEF NoHeader, Headers
<1>3. Named(h)
  <2>1. {i \in DOMAIN h.dim : h.dim[i].length = 0} = {}
    BY <1>2
  <2> QED
    BY <1>2, <2>1, FS_EmptySet DEF Named, Repeated
<1>4. Len(h.vars) <= MaxVars
  BY <1>2, CdfHeaderAssumption
<1>5. Good(h)
  BY <1>1, <1>2, <1>3, <1>4 DEF Good
<1> QED
  BY <1>1, <1>5 DEF IInv, ImageCurrent

\* An image without header belongs to a header that is still growing.
LEMMA NoImageVersion == NoImage.version = -1 /\ NoHeader.version = -1
  BY DEF NoImage, NoHeader

\* NewHeader keeps the invariant.
LEMMA NewHeaderGood ==
  ASSUME LengthsFit, IInv, NewHeader
  PROVE  IInv'
<1>1. h = NoHeader /\ img' = img /\ img = NoImage
  <2>1. h = NoHeader /\ img' = img
    BY DEF NewHeader
  <2> QED
    BY <2>1, NoImageVersion DEF IInv, ImageCurrent
<1>2. Good(h)
  BY DEF IInv
<1>3. Good(h') /\ outcome'[2] \in {"ok", "panic"}
  <2>1. PICK l \in DimLists :
          IF DimsValid(l) THEN h' = MakeHeader(l) /\ outcome' = <<"NewHeader", "ok">>
                          ELSE UNCHANGED h /\ outcome' = <<"NewHeader", "panic">>
    BY DEF NewHeader
  <2>2. CASE DimsValid(l)
    BY <2>1, <2>2, MadeGood
  <2>3. CASE ~DimsValid(l)
    BY <1>2, <2>1, <2>3
  <2> QED
    BY <2>2, <2>3
<1> QED
  BY <1>1, <1>3 DEF IInv, ImageCurrent, NoImage, NoHeader

\* AddVariable keeps the invariant.
LEMMA AddVariableGood ==
  ASSUME IInv, AddVariable
  PROVE  IInv'
<1>1. Good(h) /\ img' = img /\ Len(h.vars) < MaxVars
  BY DEF IInv, AddVariable
<1>2. PICK v \in VarNames, dims \in VarDims, t \in Types :
        IF VariableAccepted(v, dims, t)
        THEN /\ h' = [h EXCEPT !.vars = Append(@, NewVariable(v, dims, t))]
             /\ outcome' = <<"AddVariable", "ok">>
        ELSE UNCHANGED h /\ outcome' = <<"AddVariable", "panic">>
  BY DEF AddVariable
<1>3. CASE VariableAccepted(v, dims, t)
  <2> DEFINE w == NewVariable(v, dims, t)
             new == Blank(v, DimPositions(h, dims), t)
  <2>1. /\ h.version = 0 /\ Positions(h.vars, v) = {} /\ t # "none"
        /\ \A i \in DOMAIN dims : /\ Positions(h.dim, dims[i]) # {}
                                  /\ h.dim[Min(Positions(h.dim, dims[i]))].length = 0 => i = 1
    BY <1>3 DEF VariableAccepted, Mutable
  <2>2. w = SetComputed(new, h.dim)
    BY DEF NewVariable, Blank, DimPositions
  <2>3. h' = WithVars(h, Append(h.vars, w)) /\ outcome' = <<"AddVariable", "ok">>
    BY <1>2, <1>3 DEF WithVars
  <2>4. new = Blank(v, DimPositions(h, dims), t)
    OBVIOUS
  <2> HIDE DEF w, new
  <2>5. Fresh(h, w) /\ w.name = v
    BY <1>1, <2>1, <2>2, <2>4, NewVariableExact
  <2>6. Good(h') /\ h'.version = 0
    BY <1>1, <2>1, <2>3, <2>5, VariableGood
  <2>7. img = NoImage
    BY <2>1 DEF IInv, ImageCurrent
  <2> QED
    BY <1>1, <2>3, <2>6, <2>7 DEF IInv, ImageCurrent, NoImage, NoHeader
<1>4. CASE ~VariableAccepted(v, dims, t)
  <2>1. h' = h /\ outcome' = <<"AddVariable", "panic">>
    BY <1>2, <1>4
  <2> QED
    BY <1>1, <2>1 DEF IInv, ImageCurrent, NoImage, NoHeader
<1> QED
  BY <1>3, <1>4

\* AddAttribute keeps the invariant.
LEMMA AddAttributeGood ==
  ASSUME IInv, AddAttribute
  PROVE  IInv'
<1>1. Good(h) /\ img' = img
  BY DEF IInv, AddAttribute
<1>2. PICK owner \in VarNames \cup {Global}, a \in AttNames, t \in AttTypes, n \in AttLens :
        LET new == [name |-> a, dtype |-> t, n |-> n]
            i   == Min(Positions(h.vars, owner))
        IN  IF ~AttributeAccepted(owner, a, t)
            THEN UNCHANGED h /\ outcome' = <<"AddAttribute", "panic">>
            ELSE /\ outcome' = <<"AddAttribute", "ok">>
                 /\ \/ owner = Global /\ Len(h.att) < MaxAtts /\ h' = [h EXCEPT !.att = Append(@, new)]
                    \/ /\ owner # Global /\ Len(h.vars[i].att) < MaxAtts
                       /\ h' = [h EXCEPT !.vars[i].att = Append(@, new)]
  BY DEF AddAttribute
<1> DEFINE new == [name |-> a, dtype |-> t, n |-> n]
           i == Min(Positions(h.vars, owner))
<1>3. CASE AttributeAccepted(owner, a, t)
  <2>1. /\ h.version = 0 /\ t # "none"
        /\ owner # Global => Positions(h.vars, owner) # {}
        /\ Positions(IF owner = Global THEN h.att ELSE h.vars[i].att, a) = {}
    BY <1>3 DEF AttributeAccepted, Mutable
  <2>0. h.version = 0
    BY <2>1
  <2>2. new \in Attributes(AttNames) /\ new.name = a
    BY <2>1, CdfHeaderAssumption DEF Attributes
  <2>3. /\ outcome' = <<"AddAttribute", "ok">>
        /\ \/ owner = Global /\ h' = WithOwn(h, Append(h.att, new))
           \/ owner # Global /\ h' = WithVars(h, PutAtts(h.vars, i, Append(h.vars[i].att, new)))
    BY <1>2, <1>3 DEF WithOwn, WithVars, PutAtts, WithAtts
  <2> HIDE DEF new
  <2>4. Good(h') /\ h'.version = 0
    <3>1. CASE owner = Global
      <4>1. h' = WithOwn(h, Append(h.att, new)) /\ Positions(h.att, new.name) = {}
        BY <2>1, <2>2, <2>3, <3>1
      <4> QED
        BY <1>1, <2>1, <2>2, <4>1, HeaderAttributeGood
    <3>2. CASE owner # Global
      <4>1. /\ h' = WithVars(h, PutAtts(h.vars, i, Append(h.vars[i].att, new)))
            /\ Positions(h.vars[i].att, new.name) = {}
        BY <2>1, <2>2, <2>3, <3>2
      <4>2. i \in DOMAIN h.vars
        <5>1. h.vars \in Seq(Variables(VarNames, AttNames))
          BY <1>1 DEF Good, Headers
        <5> QED
          BY <2>1, <3>2, <5>1, FirstPosition
      <4> HIDE DEF i
      <4> QED
        BY <1>1, <2>0, <2>2, <4>1, <4>2, VariableAttributeGood
    <3> QED
      BY <3>1, <3>2
  <2>5. img = NoImage
    BY <2>0 DEF IInv, ImageCurrent
  <2> QED
    BY <1>1, <2>3, <2>4, <2>5 DEF IInv, ImageCurrent, NoImage, NoHeader
<1>4. CASE ~AttributeAccepted(owner, a, t)
  <2>1. h' = h /\ outcome' = <<"AddAttribute", "panic">>
    BY <1>2, <1>4
  <2> QED
    BY <1>1, <2>1 DEF IInv, ImageCurrent, NoImage, NoHeader
<1> QED
  BY <1>3, <1>4

\* Define keeps the invariant.
LEMMA DefineGood ==
  ASSUME IInv, Define
  PROVE  IInv'
<1>1. Good(h) /\ img' = img
  BY DEF IInv, Define
<1>2. CASE Mutable /\ h.vars # <<>> /\ h' = Defined(h) /\ outcome' = <<"Define", "ok">>
  <2>1. Good(h')
    BY <1>1, <1>2, DefinedGood DEF Mutable
  <2>2. img = NoImage
    BY <1>2 DEF IInv, ImageCurrent, Mutable
  <2> QED
    BY <1>1, <1>2, <2>1, <2>2 DEF IInv, ImageCurrent, NoImage, NoHeader
<1>3. CASE Mutable /\ h.vars = <<>> /\ h' = [h EXCEPT !.version = 2] /\ outcome' = <<"Define", "panic">>
  <2>1. Good(h')
    BY <1>1, <1>3, EmptyGood DEF Mutable
  <2>2. img = NoImage
    BY <1>3 DEF IInv, ImageCurrent, Mutable
  <2> QED
    BY <1>1, <1>3, <2>1, <2>2 DEF IInv, ImageCurrent, NoImage, NoHeader
<1>4. CASE UNCHANGED h /\ outcome' = <<"Define", "refused">>
  BY <1>1, <1>4 DEF IInv, ImageCurrent, NoImage, NoHeader
<1> QED
  BY <1>2, <1>3, <1>4 DEF Define

\* Create keeps the invariant.
LEMMA CreateGood ==
  ASSUME IInv, Create
  PROVE  IInv'
<1>1. Good(h) /\ h' = h /\ h # NoHeader
  BY DEF IInv, Create
<1>2. CASE Mutable /\ UNCHANGED img /\ outcome' = <<"Create", "panic">>
  BY <1>1, <1>2 DEF IInv, ImageCurrent, NoImage, NoHeader
<1>3. CASE ~Mutable /\ img' = WriteHeader(h) /\ outcome' = <<"Create", "ok">>
  <2>1. h.version \in -1..2 /\ h.version # -1 /\ h.version # 0
    BY <1>1, <1>3 DEF Good, Headers, Mutable
  <2>2. h.version > 0
    BY <2>1
  <2> QED
    BY <1>1, <1>3, <2>2 DEF IInv, ImageCurrent
<1> QED
  BY <1>2, <1>3 DEF Create

\* Reading back an image that is current gives the header it was made from.
LEMMA ImageDecodes ==
  ASSUME IInv, img # NoImage
  PROVE  h.version \in {1, 2} /\ ReadHeader(img) = h
<1>1. Good(h) /\ h.version > 0 /\ img = WriteHeader(h)
  BY DEF IInv, ImageCurrent
<1>2. h \in Headers(VarNames, AttNames, DimNames) /\ LaidOut(h) /\ OffsetsFit(h)
  BY <1>1 DEF Good
<1>3. h.version \in {1, 2}
  <2>1. h.version \in -1..2
    BY <1>2 DEF Headers
  <2> QED
    BY <1>1, <2>1
<1> QED
  BY <1>1, <1>2, <1>3, ReadBack

\* Open keeps the invariant: it leaves the header as it is.
LEMMA OpenGood ==
  ASSUME IInv, Open
  PROVE  IInv' /\ h' = h
<1>1. h' = h /\ img' = img /\ outcome' = <<"Open", "ok">>
  BY ImageDecodes DEF Open
<1> QED
  BY <1>1 DEF IInv, ImageCurrent, NoImage, NoHeader

\* Every step keeps the invariant.
LEMMA NextGood ==
  ASSUME LengthsFit, IInv, [Next]_vars
  PROVE  IInv'
<1>1. CASE UNCHANGED vars
  BY <1>1 DEF vars, IInv, ImageCurrent, NoImage, NoHeader
<1> QED
  BY <1>1, NewHeaderGood, AddVariableGood, AddAttributeGood, DefineGood, CreateGood, OpenGood
  DEF Next

-----------------------------------------------------------------------------
(* What follows from it.                                                   *)

\* Every header is good and the storage holds the image of the frozen one.
THEOREM Invariance ==
  ASSUME LengthsFit
  PROVE  Spec => []IInv
<1>1. IInv /\ [Next]_vars => IInv'
  BY NextGood
<1> QED
  BY InitGood, <1>1, PTL DEF Spec

\* A header of either kind is typed: offsets are natural numbers, and every
\* dimension of a variable has a length and a stride.
LEMMA GoodTyped ==
  ASSUME NEW x, Good(x), x # NoHeader
  PROVE  HeaderOK(x)
<1>1. /\ x \in Headers(VarNames, AttNames, DimNames) /\ x.version \in 0..2
      /\ x.vars \in Seq(Variables(VarNames, AttNames)) /\ x.dim \in Seq(Dimensions(DimNames))
  <2>1. x.version \in -1..2 /\ x.version # -1
    BY DEF Good, Headers
  <2> QED
    BY <2>1 DEF Good, Headers
<1>2. \A i \in DOMAIN x.dim : x.dim[i].length \in Int
  <2>1. \A i \in DOMAIN x.dim : x.dim[i] \in Dimensions(DimNames)
    BY <1>1
  <2> QED
    BY <2>1 DEF Dimensions
<1>3. ASSUME NEW i \in DOMAIN x.vars
      PROVE  /\ Len(x.vars[i].strides) = Len(x.vars[i].dim) + 1
             /\ Len(x.vars[i].lengths) = Len(x.vars[i].dim)
             /\ x.vars[i].begin \in Nat /\ x.vars[i].dtype \in DOMAIN StorageSize
  <2>1. x.vars[i] \in Variables(VarNames, AttNames)
    BY <1>1
  <2>2. CASE x.version = 0
    <3>1. /\ x.vars[i] = SetComputed(x.vars[i], x.dim) /\ x.vars[i].begin = 0
          /\ \A k \in DOMAIN x.vars[i].dim :
               /\ x.vars[i].dim[k] \in DOMAIN x.dim
               /\ x.dim[x.vars[i].dim[k]].length = 0 => k = 1
      BY <2>2 DEF Good, Growing, DimsExist
    <3>2. Shaped(x.vars[i])
      BY <1>1, <2>1, <3>1, ComputedShaped
    <3>3. Len(x.vars[i].strides) = Len(x.vars[i].lengths) + 1
      BY <2>1, <3>2, ShapedStrides
    <3> QED
      BY <2>1, <3>1, <3>2, <3>3 DEF Shaped, Variables
  <2>3. CASE x.version > 0
    <3>1. LaidOut(x)
      BY <2>3 DEF Good
    <3>2. PICK s : LaidOutStrides(x.vars[i], s)
      BY <1>1, <3>1, LaidOutVariable DEF LaidOut
    <3>3. x.vars[i].begin \in Nat
      BY <1>1, <3>1, LaidOutSpaced DEF Spaced
    <3> QED
      BY <2>1, <3>2, <3>3 DEF LaidOutStrides, Variables
  <2> QED
    BY <1>1, <2>2, <2>3
<1> QED
  BY <1>1, <1>2, <1>3 DEF HeaderOK

\* The type invariant of the header's life.
THEOREM TypeCorrect ==
  ASSUME LengthsFit
  PROVE  Spec => []TypeOK
<1>1. IInv => TypeOK
  <2> SUFFICES ASSUME IInv PROVE TypeOK
    OBVIOUS
  <2>1. Good(h) /\ outcome[2] \in {"ok", "panic", "refused"}
    BY DEF IInv
  <2>2. h = NoHeader \/ HeaderOK(h)
    BY <2>1, GoodTyped
  <2>3. CASE img = NoImage
    BY <2>1, <2>2, <2>3, CdfHeaderAssumption DEF TypeOK, NoImage, NoHeader
  <2>4. CASE img # NoImage
    <3>1. h.version \in {1, 2} /\ img = WriteHeader(h)
      BY <2>4, ImageDecodes DEF IInv, ImageCurrent
    <3>2. img.version = h.version /\ Len(img.vars) = Len(h.vars)
      BY <2>1, <3>1, ImageShape DEF Good
    <3> QED
      BY <2>1, <2>2, <3>1, <3>2 DEF TypeOK, Good
  <2> QED
    BY <2>3, <2>4
<1> QED
  BY <1>1, Invariance, PTL

\* Every header that Define produced, or Open read back, passes Check.
THEOREM CheckPasses ==
  ASSUME LengthsFit
  PROVE  Spec => []DefinedPassesCheck
<1>1. IInv => DefinedPassesCheck
  BY ChecksOut DEF IInv, Good, DefinedPassesCheck
<1> QED
  BY <1>1, Invariance, PTL

\* No byte of a frozen file belongs to two variables or records, or to the header,
\* however many records there are.
LEMMA PlacesApart ==
  ASSUME NEW x, Good(x), x.version > 0,
         NEW i \in DOMAIN x.vars, NEW r \in Nat, IsRecord(x.vars[i]) \/ r = 0
  PROVE  /\ \A a \in Footprint(x.vars[i], r) : a >= HeaderSize(x)
         /\ \A j \in DOMAIN x.vars, s \in Nat :
              (IsRecord(x.vars[j]) \/ s = 0) /\ (i # j \/ r # s)
              => Footprint(x.vars[i], r) \cap Footprint(x.vars[j], s) = {}
<1>1. x \in Headers(VarNames, AttNames, DimNames) /\ LaidOut(x) /\ Spaced(x)
  <2>1. x \in Headers(VarNames, AttNames, DimNames) /\ LaidOut(x)
    BY DEF Good
  <2> QED
    BY <2>1, LaidOutSpaced
<1>2. DOMAIN x.vars \subseteq Nat
  <2>1. x.vars \in Seq(Variables(VarNames, AttNames))
    BY <1>1 DEF Headers
  <2> QED
    BY <2>1
<1>3. ASSUME NEW a \in Footprint(x.vars[i], r) PROVE a >= HeaderSize(x)
  <2>1. PICK b \in 0..VSize(x.vars[i])-1 : a = ByteOffset(x.vars[i], r, b)
    BY <1>3 DEF Footprint
  <2>2. a = RecordBegin(x.vars[i], r) + b
    BY <2>1 DEF ByteOffset, RecordBegin
  <2>3. RecordBegin(x.vars[i], r) \in Nat /\ x.vars[i].begin <= RecordBegin(x.vars[i], r)
    BY <1>1, RecordBeginTyped
  <2>4. /\ x.vars[i].begin \in Nat /\ Pad4(HeaderSize(x)) <= x.vars[i].begin
        /\ VSize(x.vars[i]) \in Nat
    BY <1>1 DEF Spaced
  <2>5. HeaderSize(x) \in Nat
    BY <1>1, HeaderSizeGrows
  <2>6. HeaderSize(x) <= Pad4(HeaderSize(x)) /\ Pad4(HeaderSize(x)) \in Nat
    BY <2>5, Padding
  <2> QED
    BY <2>2, <2>3, <2>4, <2>5, <2>6
<1>4. ASSUME NEW j \in DOMAIN x.vars, NEW s \in Nat, IsRecord(x.vars[j]) \/ s = 0, i # j \/ r # s,
             NEW a \in Footprint(x.vars[i], r) \cap Footprint(x.vars[j], s)
      PROVE  FALSE
  <2>1. PICK b \in 0..VSize(x.vars[i])-1 : a = ByteOffset(x.vars[i], r, b)
    BY <1>4 DEF Footprint
  <2>2. PICK c \in 0..VSize(x.vars[j])-1 : a = ByteOffset(x.vars[j], s, c)
    BY <1>4 DEF Footprint
  <2>3. ByteOffset(x.vars[i], r, b) = ByteOffset(x.vars[j], s, c)
    BY <2>1, <2>2
  <2>4. i = j /\ r = s
    BY <1>1, <1>2, <1>4, <2>3, BytesApart
  <2> QED
    BY <1>4, <2>4
<1> QED
  BY <1>3, <1>4

\* The footprints of the variables of a frozen header never meet: the run's
\* NoOverlap, of its records 0..2.
THEOREM OwnPlaces ==
  ASSUME LengthsFit
  PROVE  Spec => []NoOverlap
<1>1. IInv => NoOverlap
  <2> SUFFICES ASSUME IInv, h.version > 0, NEW p \in Places
               PROVE  /\ \A a \in Footprint(h.vars[p[1]], p[2]) : a >= HeaderSize(h)
                      /\ \A q \in Places \ {p} :
                           Footprint(h.vars[p[1]], p[2]) \cap Footprint(h.vars[q[1]], q[2]) = {}
    BY DEF NoOverlap
  <2>1. \A q \in Places : /\ q = <<q[1], q[2]>> /\ q[1] \in DOMAIN h.vars /\ q[2] \in Nat
                          /\ IsRecord(h.vars[q[1]]) \/ q[2] = 0
    BY DEF Places
  <2>2. Good(h)
    BY DEF IInv
  <2>3. ASSUME NEW q \in Places \ {p} PROVE p[1] # q[1] \/ p[2] # q[2]
    BY <2>1
  <2> QED
    BY <2>1, <2>2, <2>3, PlacesApart
<1> QED
  BY <1>1, Invariance, PTL

\* The same of all records there can ever be.
AllApart ==
  h.version > 0 =>
    \A i, j \in DOMAIN h.vars : \A r, s \in Nat :
      /\ IsRecord(h.vars[i]) \/ r = 0
      /\ IsRecord(h.vars[j]) \/ s = 0
      /\ i # j \/ r # s
      => Footprint(h.vars[i], r) \cap Footprint(h.vars[j], s) = {}

\* No two records of a frozen file ever share a byte.
THEOREM OwnPlacesForever ==
  ASSUME LengthsFit
  PROVE  Spec => []AllApart
<1>1. IInv => AllApart
  BY PlacesApart DEF IInv, AllApart
<1> QED
  BY <1>1, Invariance, PTL

\* While the storage holds the image of the header in memory, reading it gives
\* that header: no offset is cut, no record stride lost.
THEOREM RoundTripSafe ==
  ASSUME LengthsFit
  PROVE  Spec => []RoundTrip
<1>1. IInv => RoundTrip
  <2> SUFFICES ASSUME IInv, img = WriteHeader(h), h # NoHeader PROVE ReadHeader(img) = h
    BY DEF RoundTrip
  <2>1. img.version = h.version
    BY ImageShape DEF IInv, Good
  <2>2. h.version # -1
    BY DEF IInv, Good
  <2>3. img # NoImage
    BY <2>1, <2>2, NoImageVersion
  <2> QED
    BY <2>3, ImageDecodes
<1> QED
  BY <1>1, Invariance, PTL

\* Freezing is for good: neither a later call, refused or not, nor reading the
\* storage back changes a defined header.
THEOREM FrozenForGood ==
  ASSUME LengthsFit
  PROVE  Spec => FrozenStays
<1>1. IInv /\ [Next]_vars => [h.version > 0 => h' = h]_vars
  <2> SUFFICES ASSUME IInv, Next, h.version > 0 PROVE h' = h
    OBVIOUS
  <2>1. ~Mutable /\ h # NoHeader
    BY NoImageVersion DEF Mutable
  <2>2. CASE AddVariable
    BY <2>1, <2>2 DEF AddVariable, VariableAccepted
  <2>3. CASE AddAttribute
    BY <2>1, <2>3 DEF AddAttribute, AttributeAccepted
  <2> QED
    BY <2>1, <2>2, <2>3, OpenGood DEF Next, NewHeader, Define, Create
<1> QED
  BY <1>1, Invariance, PTL DEF FrozenStays, Spec

\* What CdfFile takes the header of a file to be.
FitForFile ==
  h.version > 0 /\ h.vars # <<>> =>
    /\ h \in Headers(VarNames, AttNames, DimNames) /\ h.version \in {1, 2} /\ Check(h) = {}
    /\ DimsExist(h) /\ StridesFixed(h)
    /\ SetOffsets(h, DataStart(h)) = h

\* Every frozen header with variables is one that a file may have.
THEOREM FrozenFitForFile ==
  ASSUME LengthsFit
  PROVE  Spec => []FitForFile
<1>1. IInv => FitForFile
  <2> SUFFICES ASSUME IInv, h.version > 0, h.vars # <<>>
               PROVE  /\ h \in Headers(VarNames, AttNames, DimNames) /\ h.version \in {1, 2}
                      /\ Check(h) = {} /\ DimsExist(h) /\ StridesFixed(h)
                      /\ SetOffsets(h, DataStart(h)) = h
    BY DEF FitForFile
  <2>1. h \in Headers(VarNames, AttNames, DimNames) /\ LaidOut(h) /\ Named(h)
    BY DEF IInv, Good
  <2>2. h.version \in {1, 2} /\ h.version # 0
    <3>1. h.version \in -1..2
      BY <2>1 DEF Headers
    <3> QED
      BY <3>1
  <2>3. Check(h) = {}
    BY <2>1, ChecksOut
  <2>4. SetOffsets(h, DataStart(h)) = h
    BY <2>1, <2>2, LaidOutSettled
  <2> QED
    BY <2>1, <2>2, <2>3, <2>4 DEF LaidOut
<1> QED
  BY <1>1, Invariance, PTL
=============================================================================
