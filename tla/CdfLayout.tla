------------------------------ MODULE CdfLayout ------------------------------
(***************************************************************************)
(* The layout arithmetic of cdf/header.go: strides, variable offsets, the  *)
(* size of a serialised header, the integrity check and the record count.  *)
(* Everything here is a constant-level operator on header records          *)
(*                                                                         *)
(*   header   [version, dim, att, vars]         version 0 means mutable    *)
(*   dim      sequence of [name, length]        length 0: record dimension *)
(*   att      sequence of [name, dtype, n]      n elements of type dtype   *)
(*   vars     sequence of [name, dim, att, dtype, vsize, begin, lengths,   *)
(*                         strides]                                        *)
(*                                                                         *)
(* Sequences are indexed from 1 where the code indexes from 0, so the      *)
(* code's strides[0] is strides[1] here.  A variable's dim holds positions *)
(* in the header's dim.                                                    *)
(***************************************************************************)
EXTENDS Integers, Sequences, FiniteSets, FiniteSetsExt, Functions

CONSTANT OffsetLimit   \* 2^31 in the code: first offset an int32 cannot hold

ASSUME OffsetLimitAssumption == OffsetLimit \in Nat \ {0}

\* Names are at most four characters, so a written name takes 4 + 4 bytes.
NameSize == 8

\* dt2StorageSize: the bytes of one element of each data type.
StorageSize == [BYTE |-> 1, CHAR |-> 1, SHORT |-> 2, INT |-> 4, FLOAT |-> 4, DOUBLE |-> 8]

\* pad4: x rounded up to the nearest multiple of 4.
Pad4(x) == ((x + 3) \div 4) * 4

\* The Go conversion int32(x) of a wider integer.
ToInt32(x) == ((x + OffsetLimit) % (2 * OffsetLimit)) - OffsetLimit

-----------------------------------------------------------------------------
(* The records of a header, with names from D, N and A.                    *)

Attributes(A) == [name : A, dtype : DOMAIN StorageSize, n : Nat]

Variables(N, A) ==
  [name : N, dim : Seq(Nat \ {0}), att : Seq(Attributes(A)), dtype : DOMAIN StorageSize,
   vsize : Int, begin : Int, lengths : Seq(Int), strides : Seq(Int)]

Dimensions(D) == [name : D, length : Nat]

Headers(N, A, D) ==
  [version : -1..2, dim : Seq(Dimensions(D)), att : Seq(Attributes(A)), vars : Seq(Variables(N, A))]

\* What AddVariable asks of the dimensions of a variable: they exist, and only
\* the first may be the record dimension.
DimsExist(h) ==
  \A i \in DOMAIN h.vars : \A k \in DOMAIN h.vars[i].dim :
    h.vars[i].dim[k] \in DOMAIN h.dim /\ (h.dim[h.vars[i].dim[k]].length = 0 => k = 1)

-----------------------------------------------------------------------------
(* One variable.                                                           *)

IsRecord(v) == Len(v.lengths) > 0 /\ v.lengths[1] = 0

VSize(v) == v.strides[1]

\* strides of an array of the given lengths with elements of es bytes.
Strides(lengths, es) ==
  LET s[i \in 1..Len(lengths)+1] ==
        IF i = Len(lengths) + 1 THEN es ELSE lengths[i] * s[i + 1]
  IN  s

\* lengths, strides and the stored vsize of a variable over the dimensions ds.
SetComputed(v, ds) ==
  LET lengths == [i \in DOMAIN v.dim |->
                    IF v.dim[i] \in DOMAIN ds THEN ds[v.dim[i]].length ELSE 0]
      strides == Strides(lengths, StorageSize[v.dtype])
      size    == Pad4(IF strides[1] = 0 /\ Len(v.dim) > 0 THEN strides[2] ELSE strides[1])
  IN  [v EXCEPT !.lengths = lengths,
                !.strides = strides,
                !.vsize   = IF size > OffsetLimit - 4 THEN -1 ELSE size]

\* The offset of the element at index vector idx.
OffsetOf(v, idx) == v.begin + SumFunction([i \in DOMAIN idx |-> idx[i] * v.strides[i + 1]])

\* The offset of byte b of record r (0 when there is only one).
ByteOffset(v, r, b) == v.begin + (IF IsRecord(v) THEN r * v.strides[2] ELSE 0) + b

-----------------------------------------------------------------------------
(* The slab of one record: every record variable in turn, padded unless it *)
(* is the only one.                                                        *)

\* Mutant: no padding in a slab of several variables.
FixRecordStridesUnpadded(vars) ==
  LET recs == {i \in DOMAIN vars : Len(vars[i].strides) > 1 /\ vars[i].strides[1] = 0}
      slab == SumFunction([i \in recs |-> vars[i].strides[2]])
  IN  [i \in DOMAIN vars |->
         IF i \in recs
         THEN [vars[i] EXCEPT !.strides[1] = vars[i].strides[2], !.strides[2] = slab]
         ELSE vars[i]]

FixRecordStrides(vars) ==
  LET recs == {i \in DOMAIN vars : Len(vars[i].strides) > 1 /\ vars[i].strides[1] = 0}
      slab == IF Cardinality(recs) > 1
              THEN SumFunction([i \in recs |-> Pad4(vars[i].strides[2])])
              ELSE SumFunction([i \in recs |-> vars[i].strides[2]])
  IN  [i \in DOMAIN vars |->
         IF i \in recs
         THEN [vars[i] EXCEPT !.strides[1] = vars[i].strides[2], !.strides[2] = slab]
         ELSE vars[i]]

\* The computed fields are those of the dimensions, with the record strides fixed:
\* how Define and ReadHeader leave a header.
StridesFixed(h) ==
  h.vars = FixRecordStrides([i \in DOMAIN h.vars |-> SetComputed(h.vars[i], h.dim)])

\* Offset of the first slab and size of a slab; zeroes without record variables.
Slabs(h) ==
  LET recs == {i \in DOMAIN h.vars : IsRecord(h.vars[i])}
  IN  IF recs = {} THEN [offs |-> 0, size |-> 0]
      ELSE [offs |-> h.vars[Min(recs)].begin, size |-> h.vars[Min(recs)].strides[2]]

\* Mutant: an incomplete trailing record counts.
NumRecsRoundedUp(h, fsize) ==
  LET s == Slabs(h)
  IN  IF fsize < 0 THEN -1
      ELSE IF s.size = 0 \/ fsize < s.offs THEN 0
      ELSE (fsize - s.offs + s.size - 1) \div s.size

\* Mutant: a record that ends with the file does not count.
NumRecsOffByOne(h, fsize) ==
  LET s == Slabs(h)
  IN  IF fsize < 0 THEN -1
      ELSE IF s.size = 0 \/ fsize <= s.offs THEN 0
      ELSE (fsize - s.offs - 1) \div s.size

\* The number of complete records in a file of fsize bytes.
NumRecs(h, fsize) ==
  LET s == Slabs(h)
  IN  IF fsize < 0 THEN -1
      ELSE IF s.size = 0 \/ fsize < s.offs THEN 0
      ELSE (fsize - s.offs) \div s.size

-----------------------------------------------------------------------------
(* The serialised header.                                                  *)

AttSize(atts) ==
  8 + SumFunction([i \in DOMAIN atts |->
                     NameSize + 8 + Pad4(atts[i].n * StorageSize[atts[i].dtype])])

\* The bytes WriteHeader emits; offsets take 8 bytes in version 2, else 4.
HeaderSize(h) ==
  LET varSize == [i \in DOMAIN h.vars |->
                    NameSize + 4 + 4 * Len(h.vars[i].dim) + AttSize(h.vars[i].att)
                      + 8 + (IF h.version = 2 THEN 8 ELSE 4)]
  IN  8 + (8 + Len(h.dim) * (NameSize + 4)) + AttSize(h.att) + (8 + SumFunction(varSize))

\* What the bytes of a written header determine: begin is cut to 32 bits in version 1.
WriteHeader(h) ==
  [h EXCEPT !.vars = [i \in DOMAIN h.vars |->
     [name |-> h.vars[i].name, dim |-> h.vars[i].dim, att |-> h.vars[i].att,
      dtype |-> h.vars[i].dtype, vsize |-> h.vars[i].vsize,
      begin |-> IF h.version = 2 THEN h.vars[i].begin ELSE ToInt32(h.vars[i].begin)]]]

\* Mutant: the record strides are not restored.
ReadHeaderUnfixed(img) ==
  [img EXCEPT !.vars =
     [i \in DOMAIN img.vars |->
        SetComputed([name |-> img.vars[i].name, dim |-> img.vars[i].dim, att |-> img.vars[i].att,
                     dtype |-> img.vars[i].dtype, vsize |-> img.vars[i].vsize,
                     begin |-> img.vars[i].begin, lengths |-> <<>>, strides |-> <<>>], img.dim)]]

\* The header decoded from the written form, with the computed fields restored.
ReadHeader(img) ==
  LET stored(v) == [name |-> v.name, dim |-> v.dim, att |-> v.att, dtype |-> v.dtype,
                    vsize |-> v.vsize, begin |-> v.begin, lengths |-> <<>>, strides |-> <<>>]
  IN  [img EXCEPT !.vars =
         FixRecordStrides([i \in DOMAIN img.vars |->
                             SetComputed(stored(img.vars[i]), img.dim)])]

-----------------------------------------------------------------------------
(* Placing the variables.                                                  *)

\* The order of the data section: the other variables first, then the record variables.
Precedes(vars, i, j) ==
  IF IsRecord(vars[i]) = IsRecord(vars[j]) THEN i < j ELSE IsRecord(vars[j])

\* The variables placed before variable i.
Before(vars, i) == {j \in DOMAIN vars : Precedes(vars, j, i)}

\* Mutant: variables follow each other without padding.
SetOffsetsUnpadded(h, start) ==
  LET first == Pad4(Max({HeaderSize(h), start}))
      sizes == [i \in DOMAIN h.vars |-> VSize(h.vars[i])]
  IN  [h EXCEPT !.vars = [i \in DOMAIN h.vars |->
         [h.vars[i] EXCEPT !.begin = first + SumFunctionOnSet(sizes, Before(h.vars, i))]]]

\* setOffsets: begin of every variable, from max(start, size of the header) on.
SetOffsets(h, start) ==
  LET first == Pad4(Max({HeaderSize(h), start}))
      sizes == [i \in DOMAIN h.vars |-> Pad4(VSize(h.vars[i]))]
  IN  [h EXCEPT !.vars = [i \in DOMAIN h.vars |->
         [h.vars[i] EXCEPT !.begin = first + SumFunctionOnSet(sizes, Before(h.vars, i))]]]

\* The offset setOffsets assigns last, 0 when there is no variable.
LastOffset(vars) ==
  IF vars = <<>> THEN 0
  ELSE vars[CHOOSE i \in DOMAIN vars : \A j \in DOMAIN vars \ {i} : Precedes(vars, j, i)].begin

\* The start of the data section; needs a variable once the header is immutable.
DataStart(h) ==
  IF h.version = 0 THEN Pad4(HeaderSize(h))
  ELSE h.vars[CHOOSE i \in DOMAIN h.vars : Before(h.vars, i) = {}].begin

\* Mutant: an offset of OffsetLimit is thought to fit version 1.
DefinedOffByOne(h) ==
  LET fixed  == [h EXCEPT !.vars = FixRecordStrides(h.vars), !.version = 2]
      placed == SetOffsets(fixed, DataStart(fixed))
  IN  [placed EXCEPT !.version = IF LastOffset(placed.vars) <= OffsetLimit THEN 1 ELSE 2]

\* The header Define leaves behind when the mutable h has at least one variable.
Defined(h) ==
  LET fixed  == [h EXCEPT !.vars = FixRecordStrides(h.vars), !.version = 2]
      placed == SetOffsets(fixed, DataStart(fixed))
  IN  [placed EXCEPT !.version = IF LastOffset(placed.vars) < OffsetLimit THEN 1 ELSE 2]

-----------------------------------------------------------------------------
(* The strider over variable v from corner b to corner e, both included;   *)
(* an end of 0 stands for none.                                            *)

Nil == <<>>   \* the nil index vector; a scalar's only index vector means the same

StriderOf(v, b, e) ==
  LET es    == StorageSize[v.dtype]
      last  == [i \in DOMAIN v.lengths |-> v.lengths[i] - 1]
      begin == IF b = Nil THEN v.begin ELSE OffsetOf(v, b)
      end   == IF e # Nil THEN OffsetOf(v, e) + es
               ELSE IF IsRecord(v) THEN 0 ELSE OffsetOf(v, last) + es
  IN  [begin |-> begin, end |-> end, elemsz |-> es,
       stripesize |-> IF IsRecord(v) THEN v.strides[1] ELSE end - begin,
       stride     |-> IF IsRecord(v) THEN v.strides[2] ELSE end - begin]

-----------------------------------------------------------------------------
(* Check: the kinds of error it reports, in no particular order.           *)

Repeated(s) == \E i, j \in DOMAIN s : i # j /\ s[i].name = s[j].name

\* The offsets are aligned and leave room for the padded size of the one before.
OffsetsValid(h) ==
  \A i \in DOMAIN h.vars :
    LET before == Before(h.vars, i)
        last   == {j \in before : \A k \in before \ {j} : Precedes(h.vars, k, j)}
    IN  /\ h.vars[i].begin % 4 = 0
        /\ before = {} => h.vars[i].begin >= Pad4(HeaderSize(h))
        /\ \A j \in last : h.vars[i].begin >= h.vars[j].begin + Pad4(VSize(h.vars[j]))

Check(h) ==
  LET vs == DOMAIN h.vars
      errors == [
        recdims  |-> Cardinality({i \in DOMAIN h.dim : h.dim[i].length = 0}) > 1,
        dims     |-> Repeated(h.dim),
        vars     |-> Repeated(h.vars),
        atts     |-> Repeated(h.att) \/ \E i \in vs : Repeated(h.vars[i].att),
        inner    |-> \E i \in vs : \E j \in DOMAIN h.vars[i].dim :
                       j > 1 /\ h.dim[h.vars[i].dim[j]].length = 0,
        offsets  |-> ~OffsetsValid(h)]
  IN  {e \in DOMAIN errors : errors[e]}
=============================================================================
