------------------------------ MODULE MCCdfFile ------------------------------
(***************************************************************************)
(* TLC instance of CdfFile.                                                *)
(*   Mixed   m BYTE[3], s SHORT[t,2], a BYTE[t,3]: a padded variable before *)
(*           the records, and records with a padded one at their end        *)
(*   Lone    a BYTE[t,3] alone, whose records follow each other unpadded    *)
(***************************************************************************)
EXTENDS CdfFile, TLC

HandleSymmetry == Permutations(Handles)

Dims == <<[name |-> "t", length |-> 0], [name |-> "x", length |-> 3], [name |-> "y", length |-> 2]>>

Fresh(n, d, t) ==
  SetComputed([name |-> n, dim |-> d, att |-> <<>>, dtype |-> t, vsize |-> 0, begin |-> 0,
               lengths |-> <<>>, strides |-> <<>>], Dims)

Mk(vs) == Defined([version |-> 0, dim |-> Dims, att |-> <<>>, vars |-> vs])

Mixed == Mk(<<Fresh("m", <<2>>, "BYTE"), Fresh("s", <<1, 3>>, "SHORT"), Fresh("a", <<1, 2>>, "BYTE")>>)

\* A single record variable, of a size that is not a multiple of four.
Lone == Mk(<<Fresh("a", <<1, 2>>, "BYTE")>>)

C(v, b, e) == [v |-> v, b |-> b, e |-> e]

\* All of s, a up to a corner inside record 1, and a part of m.
MixedCorners == {C(2, Nil, Nil), C(3, Nil, <<1, 1>>), C(1, <<1>>, <<2>>)}

\* All of s, and a up to the end of record 0, where the cursor jumps past the end.
CountCorners == {C(2, Nil, Nil), C(3, Nil, <<0, 2>>)}

\* All of the single record variable.
LoneCorners == {C(1, Nil, Nil)}

\* The conditions hold in all instances but the one that shows what comes without.
ASSUME ConditionsHold == CornersAligned /\ (SlabsPadded <=> Header # Lone)

\* Without aligned corners: a strider of s that begins at its second element has a
\* whole record ahead of it in its first stripe, which ends inside the record of a.
ASSUME InnerCornerLeaves ==
  LET g == StriderOf(Mixed.vars[2], <<0, 1>>, Nil)
  IN  StripeEnd(g, g.begin) > ByteOffset(Mixed.vars[3], 0, 0)

=============================================================================
