----------------------------- MODULE MCStrider -----------------------------
(***************************************************************************)
(* TLC instance of Strider.  The geometries are those the constructor      *)
(* makes for the variables of two defined headers:                         *)
(*   two  record variables a BYTE[t,3] and s SHORT[t,2], so a slab is 8    *)
(*        bytes with a stripe of 3 or 4, and m CHAR[2,2], p SHORT[2];        *)
(*   one  a single record variable o SHORT[t,1], an unpadded slab.         *)
(***************************************************************************)
EXTENDS Strider, Sequences

L == INSTANCE CdfLayout WITH OffsetLimit <- 1000

Var(n, d, t, dims) ==
  L!SetComputed([name |-> n, dim |-> d, att |-> <<>>, dtype |-> t, vsize |-> 0, begin |-> 0,
                 lengths |-> <<>>, strides |-> <<>>], dims)

Dims == <<[name |-> "t", length |-> 0], [name |-> "x", length |-> 3], [name |-> "y", length |-> 2]>>

Two == L!Defined([version |-> 0, dim |-> Dims, att |-> <<>>,
                  vars |-> <<Var("m", <<3, 3>>, "CHAR", Dims), Var("p", <<3>>, "SHORT", Dims),
                             Var("a", <<1, 2>>, "BYTE", Dims), Var("s", <<1, 3>>, "SHORT", Dims)>>])
One == L!Defined([version |-> 0, dim |-> Dims, att |-> <<>>,
                  vars |-> <<Var("o", <<1>>, "SHORT", Dims)>>])
M == Two.vars[1]  P == Two.vars[2]  A == Two.vars[3]  S == Two.vars[4]  O == One.vars[1]

\* Readers and writers with an end that is not at the end of a padded stripe:
\* all of m and p, a corner inside m, a and s up to a corner inside record 1,
\* and records 0..2 of the single record variable.
BoundedGeometries == {
  L!StriderOf(M, L!Nil, L!Nil), L!StriderOf(P, L!Nil, L!Nil), L!StriderOf(M, <<0, 1>>, <<1, 0>>),
  L!StriderOf(A, L!Nil, <<1, 1>>), L!StriderOf(S, L!Nil, <<2, 0>>),
  L!StriderOf(S, <<1, 0>>, <<2, 0>>), L!StriderOf(O, L!Nil, <<2>>) }

\* Record variables without an end.
OpenGeometries == {L!StriderOf(v, L!Nil, L!Nil) : v \in {A, S, O}}

\* Record variables with an end at the end of record 1.
WholeRecordGeometries == {L!StriderOf(A, L!Nil, <<1, 2>>), L!StriderOf(S, L!Nil, <<1, 1>>)}

AllGeometries == BoundedGeometries \cup OpenGeometries \cup WholeRecordGeometries

\* Sizes from before the data of most, through the middle of an element and of a record,
\* to all of records 0..2.
MCSizes == {O.begin + 1, O.begin + 4, M.begin + 3, A.begin + 2, S.begin + 3, S.begin + 11, S.begin + 24}
=============================================================================
