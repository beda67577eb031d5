----------------------------- MODULE ErasureCoder -----------------------------
(***************************************************************************)
(* An ErasureCoder of encoding/rs/rs.go and its caller, who codes rows of  *)
(* bytes, then changes one row at a time and has the output rows updated.  *)
(* A caller may defer updates: it collects them in a matrix of zeroes and  *)
(* xors that into the output rows later (lines 178-180).                   *)
(***************************************************************************)
EXTENDS ReedSolomon

CONSTANTS
  Coders,    \* pairs of the abscissae in_x, one at least and all different, and out_x
  Matrices,  \* the inputs of Code
  Deltas     \* the in_delta of Update

ASSUME CallerAssumption ==
  /\ \A p \in Coders : p[1] \in Seq(Element) \ {<<>>} /\ p[2] \in Seq(Element) /\ IsInjective(p[1])
  /\ Matrices \subseteq Seq(Seq(Element)) /\ Deltas \subseteq Seq(Element)

VARIABLES
  in_x, out_x,  \* the arguments of NewErasureCoder
  interp,       \* the coder's matrix
  input,        \* the caller's input rows, once coded (in)
  output,       \* the output rows Code returned (out), <<>> when there are none
  later,        \* the matrix of deferred updates
  panicked      \* the last call did

vars == <<in_x, out_x, interp, input, output, later, panicked>>

Degree == Len(interp)

\* The zero matrix with the dimensions of m, and the sum of two matrices.
zeroed(m)   == [k \in DOMAIN m |-> [j \in DOMAIN m[k] |-> 0]]
plus(m, n)  == [k \in DOMAIN m |-> [j \in DOMAIN m[k] |-> Plus[m[k][j]][n[k][j]]]]

Init ==
  /\ in_x = <<>> /\ out_x = <<>> /\ interp = <<>>
  /\ input = <<>> /\ output = <<>> /\ later = <<>> /\ panicked = FALSE

\* One coder a behaviour: coders share nothing.
NewErasureCoder(p) ==
  /\ interp = <<>>
  /\ in_x' = p[1] /\ out_x' = p[2] /\ interp' = interpOf(p[1], p[2])
  /\ UNCHANGED <<input, output, later, panicked>>

\* Code: panics on the wrong number of rows and on rows of different lengths.
Code(m) ==
  /\ interp # <<>>
  /\ panicked' = (Len(m) # Degree \/ Ragged(m))
  /\ IF panicked' THEN UNCHANGED <<input, output, later>>
     ELSE input' = m /\ output' = coded(interp, m) /\ later' = zeroed(output')
  /\ UNCHANGED <<in_x, out_x, interp>>

\* Update's conditions on its arguments; idx and the number of inputs are bytes.
Panics(idx, delta, m) ==
  \/ idx >= Degree % Values
  \/ Len(m) # Len(interp[1])
  \/ \E k \in DOMAIN m : Len(m[k]) # Len(delta)

\* Mutant: only the first output row is updated.
updated_first(idx, delta, m) ==
  [k \in DOMAIN m |-> [j \in DOMAIN m[k] |->
     IF k = 1 THEN Plus[m[k][j]][Mult[delta[j]][interp[idx + 1][k]]] ELSE m[k][j]]]

\* What Update makes of the rows m; idx counts from 0.
updated(idx, delta, m) ==
  [k \in DOMAIN m |-> [j \in DOMAIN m[k] |->
     Plus[m[k][j]][Mult[delta[j]][interp[idx + 1][k]]]]]

\* The caller changes its row idx, if it has one of that length, ...
Changed(idx, delta) ==
  IF idx < Len(input) /\ Len(input[1]) = Len(delta)
  THEN [input EXCEPT ![idx + 1] = [j \in DOMAIN delta |-> Plus[input[idx + 1][j]][delta[j]]]]
  ELSE input

\* ... and calls Update for the output rows, or for the deferred updates.
Update(idx, delta) ==
  /\ interp # <<>>
  /\ panicked' = Panics(idx, delta, output)
  /\ input' = Changed(idx, delta)
  /\ output' = IF panicked' THEN output ELSE updated(idx, delta, output)
  /\ UNCHANGED <<in_x, out_x, interp, later>>

UpdateLater(idx, delta) ==
  /\ interp # <<>>
  /\ panicked' = Panics(idx, delta, later)
  /\ input' = Changed(idx, delta)
  /\ later' = IF panicked' THEN later ELSE updated(idx, delta, later)
  /\ UNCHANGED <<in_x, out_x, interp, output>>

\* The caller catches up.
Merge ==
  /\ output' = plus(output, later) /\ later' = zeroed(later) /\ panicked' = FALSE
  /\ UNCHANGED <<in_x, out_x, interp, input>>

Next ==
  \/ \E p \in Coders : NewErasureCoder(p)
  \/ \E m \in Matrices : Code(m)
  \/ \E idx \in Element, delta \in Deltas : Update(idx, delta) \/ UpdateLater(idx, delta)
  \/ Merge

Spec == Init /\ [][Next]_vars

-----------------------------------------------------------------------------
(* Properties.                                                             *)

\* The types of the variables; the output rows are as long as the input rows.
TypeOK ==
  /\ interp \in [DOMAIN in_x -> [DOMAIN out_x -> Element]]
  /\ input \in Seq(Seq(Element)) /\ \A i \in DOMAIN input : Len(input[i]) = Len(input[1])
  /\ output \in Seq(Seq(Element)) /\ later \in Seq(Seq(Element))
  /\ output # <<>> => /\ Len(input) = Degree /\ Len(output) = Len(out_x) /\ DOMAIN later = DOMAIN output
                      /\ \A k \in DOMAIN output : Len(output[k]) = Len(input[1]) /\ Len(later[k]) = Len(input[1])
  /\ panicked \in BOOLEAN

\* The input rows, the output rows with the deferred updates, and their abscissae.
Shards == input \o plus(output, later)
Places == in_x \o out_x

\* Where there are as many inputs as a byte has values, Update finds no index in range
\* (line 182), and refuses the change the caller has made.
Addressable == Degree < Values

\* Whatever updates came since Code, at once or deferred, good or refused for their
\* shape, each output row holds the values at its abscissa of the one polynomial of
\* degree < k through the input rows (lines 118-120 and 172-180).
ParityCurrent ==
  output # <<>> /\ Addressable =>
    \A j \in DOMAIN input[1] : OnePolynomial(Degree, Places, Shards, j)

\* After the same updates, any k rows of distinct abscissae give all others back by
\* a second coder (as lines 65-67 of the test do for one choice).
AnyShards ==
  output # <<>> /\ Addressable => AnyRebuild(Degree, Places, Shards)
=============================================================================
