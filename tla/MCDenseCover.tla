---------------------------- MODULE MCDenseCover ----------------------------
(* TLC instance of DenseCover: every set of eight elements, and limits up  *)
(* to one past the cells a set of eight elements can have.                 *)
EXTENDS DenseCover

MCSets == {SelectSeq([i \in 1..Limit |-> i - 1], LAMBDA e : e \in S) : S \in SUBSET (0..Limit-1)}
=============================================================================
