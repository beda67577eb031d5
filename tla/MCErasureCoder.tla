--------------------------- MODULE MCErasureCoder ---------------------------
(* TLC instance of ErasureCoder: the field of eight elements, coders of    *)
(* one, two and three inputs, and one with an input at every element.      *)
EXTENDS ErasureCoder

All == [i \in 1..Values |-> i - 1]

MCCoders == { <<<<6>>, <<0, 7>>>>, <<<<0, 1>>, <<2, 3>>>>, <<<<5, 1>>, <<7, 5, 0>>>>,
              <<<<0, 1, 2>>, <<3, 4>>>>, <<All, <<3, 0>>>> }

\* Rows of one byte, of two and of none, and ragged ones.
MCMatrices ==
  {[i \in 1..k |-> <<b[i]>>] : k \in 1..2, b \in [1..3 -> {0, 3, 5}]}
    \cup { <<<<1>>, <<2>>, <<3>>>>, <<<<1, 7>>, <<2, 5>>>>, <<<<>>, <<>>>>,
           <<<<1>>, <<2, 7>>>>, [i \in 1..Values |-> <<i % 3>>] }

MCDeltas == { <<6>>, <<3, 4>>, <<>> }

ASSUME TablesRight

\* The polynomial of the code is primitive: 1 doubled modulo 285 passes through all
\* bytes but 0 (what PrimitiveAssumption says of the powers of 2).
Doubling(a) ==
  IF 2*a < 256 THEN 2*a
  ELSE FoldLeft(LAMBDA r, b : r + b * ((((2*a) \div b) + (285 \div b)) % 2), 0,
                <<1, 2, 4, 8, 16, 32, 64, 128>>)

ASSUME Range(FoldLeft(LAMBDA powers, i : Append(powers, Doubling(Last(powers))), <<1>>,
                      [i \in 1..254 |-> i])) = 1..255
=============================================================================
