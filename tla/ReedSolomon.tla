----------------------------- MODULE ReedSolomon -----------------------------
(***************************************************************************)
(* The arithmetic of encoding/rs/rs.go: a Galois field of 2^Width elements *)
(* by exponent and logarithm tables, and the Lagrange interpolation that   *)
(* codes k input rows into output rows.  The code has Width = 8 and        *)
(* Poly = 285 (x^8 + x^4 + x^3 + x^2 + 1).                                 *)
(***************************************************************************)
EXTENDS Integers, Sequences, FiniteSets, SequencesExt, FiniteSetsExt

CONSTANTS Width, Poly

\* 1 << n.
shifted == LET shift[n \in 0..2*Width+1] == IF n = 0 THEN 1 ELSE 2 * shift[n - 1]
           IN  [n \in 0..2*Width+1 |-> shift[n]]

Values  == shifted[Width]  \* of a byte
Element == 0..Values-1
Order   == Values - 1      \* the non-zero elements; 255 in the code

ASSUME FieldAssumption == Width \in Nat \ {0, 1} /\ Poly \in Values..2*Values-1

bit(n, i) == (n \div shifted[i]) % 2

\* a ^ b on the 2*Width bits of a product.
xor(a, b) ==
  LET low[i \in 0..2*Width] ==
        IF i = 0 THEN 0 ELSE low[i - 1] + shifted[i - 1] * ((bit(a, i - 1) + bit(b, i - 1)) % 2)
  IN  low[2*Width]

\* The product of polynomials over Z_2.
product(a, b) ==
  LET sum[i \in 0..Width] ==
        IF i = 0 THEN 0
        ELSE xor(sum[i - 1], IF bit(a, i - 1) = 1 THEN b * shifted[i - 1] ELSE 0)
  IN  sum[Width]

\* The remainder of p by Poly, from the top bit down to bit number Width.
remainder(p) ==
  LET above[i \in Width..2*Width] ==
        IF i = 2*Width THEN p
        ELSE LET q == above[i + 1]
             IN  IF bit(q, i) = 1 THEN xor(q, Poly * shifted[i - Width]) ELSE q
  IN  above[Width]

galois_multiply(aa, bb) == remainder(product(aa, bb))

\* Both tabulated for elements.
Plus  == [a \in Element |-> [b \in Element |-> xor(a, b)]]
Times == [a \in Element |-> [b \in Element |-> galois_multiply(a, b)]]

\* The tables of init.  An element that no power of 2 reached would keep log 0.
exp == LET pow[i \in 0..Order-1] == IF i = 0 THEN 1 ELSE Times[pow[i - 1]][2]
       IN  [i \in 0..Order-1 |-> pow[i]]

\* The characteristic polynomial is primitive: 2 reaches every element but 0.
ASSUME PrimitiveAssumption == \A a \in Element \ {0} : \E i \in 0..Order-1 : exp[i] = a

log == [a \in Element |-> IF a = 0 THEN 0 ELSE CHOOSE i \in 0..Order-1 : exp[i] = a]
inv == [a \in Element |-> IF a < 2 THEN a ELSE exp[Order - log[a]]]

mult(a, b) ==
  IF a = 0 \/ b = 0 THEN 0
  ELSE LET idx == log[a] + log[b] IN exp[IF idx >= Order THEN idx - Order ELSE idx]

Mult == [a \in Element |-> [b \in Element |-> mult(a, b)]]

\* The tables multiply and invert as the field does.
TablesRight ==
  /\ \A a, b \in Element : Mult[a][b] = Times[a][b]
  /\ \A a \in Element \ {0} : Times[a][inv[a]] = 1

-----------------------------------------------------------------------------

XorAll(f)  == FoldFunction(LAMBDA a, b : Plus[a][b], 0, f)
Product(f) == FoldFunction(LAMBDA a, b : Mult[a][b], 1, f)

\* Mutant: the abscissa's own factor is taken too.
lagrange_self(in_x, i, xj) ==
  Product([k \in DOMAIN in_x |-> Mult[Plus[xj][in_x[k]]][inv[Plus[in_x[i]][in_x[k]]]]])

\* The Lagrange factor of input i at xj; two equal abscissae make it 0, as inv[0] is.
lagrange(in_x, i, xj) ==
  Product([k \in DOMAIN in_x \ {i} |->
             Mult[Plus[xj][in_x[k]]][inv[Plus[in_x[i]][in_x[k]]]]])

interpOf(in_x, out_x) ==
  [i \in DOMAIN in_x |-> [j \in DOMAIN out_x |-> lagrange(in_x, i, out_x[j])]]

\* Mutant: a row is compared with itself.
Ragged_never(in) == \E i \in DOMAIN in : Len(in[i]) # Len(in[i])

Ragged(in) == \E i \in DOMAIN in : Len(in[i]) # Len(in[1])

\* The rows Code returns.
coded(interp, in) ==
  [k \in DOMAIN interp[1] |->
     [j \in DOMAIN in[1] |-> XorAll([i \in DOMAIN in |-> Mult[in[i][j]][interp[i][k]]])]]

-----------------------------------------------------------------------------
(* What the properties compare with.                                       *)

\* The value at x of the polynomial with the coefficients coef, highest first.
ValueAt(coef, x) == FoldLeft(LAMBDA y, a : Plus[Times[y][x]][a], 0, coef)

\* Column j of rows is on one polynomial of degree < k with its values at xs.
OnePolynomial(k, xs, rows, j) ==
  \E coef \in [1..k -> Element] : \A i \in DOMAIN xs : rows[i][j] = ValueAt(coef, xs[i])

\* Any k rows of distinct abscissae give all rows back.
AnyRebuild(k, xs, rows) ==
  \A S \in kSubset(k, DOMAIN xs) :
    LET pick == SetToSeq(S)
        in_x == [i \in DOMAIN pick |-> xs[pick[i]]]
    IN  IsInjective(in_x)
          => coded(interpOf(in_x, xs), [i \in DOMAIN pick |-> rows[pick[i]]]) = rows
=============================================================================
