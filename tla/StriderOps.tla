----------------------------- MODULE StriderOps -----------------------------
(***************************************************************************)
(* The arithmetic of the loop in cdf/strider.go and the answers of the     *)
(* storage under it, shared by Strider, which follows one strider and what *)
(* its calls return, and CdfFile, which follows the bytes of a whole file. *)
(* A geometry g is a record [begin, end, stripesize, stride, elemsz].      *)
(***************************************************************************)
EXTENDS Integers

\* Mutant: the end of the stripe taken at its beginning.
StripeEndAtBegin(g, c) == g.begin + ((c - g.begin) \div g.stride) * g.stride

\* The end of the stripe that holds offset c.
StripeEnd(g, c) == g.begin + ((c - g.begin) \div g.stride) * g.stride + g.stripesize

\* Mutant: whole strides counted as data.
RelOffsOfStrides(g, c) ==
  (((c - g.begin) \div g.stride) * g.stride + ((c - g.begin) % g.stride)) \div g.elemsz

\* relOffs: the elements between begin and c, not counting what lies between stripes.
RelOffs(g, c) ==
  (((c - g.begin) \div g.stride) * g.stripesize + ((c - g.begin) % g.stride)) \div g.elemsz

\* Mutant: all that is left at once, beyond the stripe.
ChunkUnclipped(g, c, se, left) ==
  IF g.end > 0 /\ c + left > g.end THEN g.end - c ELSE left

\* The bytes the next ReadAt or WriteAt is asked for.
Chunk(g, c, se, left) ==
  LET nn == IF c + left > se THEN se - c ELSE left
  IN  IF g.end > 0 /\ c + nn > g.end THEN g.end - c ELSE nn

\* Mutants: no jump at a stripe end, a jump over a stripe in place of what lies
\* between two, a stripe end left behind.
AdvanceWithoutJump(g, c, se, nr) == c + nr
AdvanceByStripe(g, c, se, nr) == IF c + nr = se THEN se + g.stripesize ELSE c + nr
NextEndStuck(g, c, se, nr) == se

\* The cursor and the stripe end after nr bytes have moved.
Advance(g, c, se, nr) == IF c + nr = se THEN se + (g.stride - g.stripesize) ELSE c + nr
NextEnd(g, c, se, nr) == IF c + nr = se THEN se + g.stride ELSE se

\* Mutant: the absolute cursor compared with an end relative to the begin corner.
AtEndRelative(g, op, c) == (op = "write" => g.end > 0) /\ c >= g.end - g.begin

\* What the loop makes of the cursor c after an iteration: a reader compares it
\* with end even when there is none, a writer only when there is one.
AtEnd(g, op, c) == (op = "write" => g.end > 0) /\ c >= g.end

\* The error an iteration ends with, e being that of the storage.
LoopError(g, op, c, e) ==
  IF e # "nil" THEN e ELSE IF AtEnd(g, op, c) THEN "EOF" ELSE "nil"

-----------------------------------------------------------------------------
(* The storage: what ReadAt and WriteAt may answer (io.ReaderAt, WriterAt).*)

Available(c, fsize) == IF c < fsize THEN fsize - c ELSE 0

ReadAt(nn, nr, e, avail) ==
  \/ e = "nil" /\ nr = nn /\ (nn <= avail \/ nn = 0)
  \/ e = "EOF" /\ nr = avail /\ nr <= nn
  \/ e = "io" /\ nr < nn /\ nr <= avail

WriteAt(nn, nr, e) == (e = "nil" /\ nr = nn) \/ (e = "io" /\ nr < nn)

NewSize(c, nr, fsize) == IF nr > 0 /\ c + nr > fsize THEN c + nr ELSE fsize
=============================================================================
