----------------------------- MODULE IntegerSets -----------------------------
(***************************************************************************)
(* What a Set63 promises: a variable that holds a set of integers below    *)
(* Limit, replaced by the results of set operations on it.                 *)
(***************************************************************************)
EXTENDS Integers

CONSTANT Limit

VARIABLES
  elems,    \* the set
  request   \* the operation under way and its operands, <<>> when there is none

Universe == 0..Limit-1

Result(op, s, t) ==
  CASE op = "Union" -> s \cup t
    [] op = "Intersection" -> s \cap t
    [] op = "Complement" -> Universe \ s

Init == elems = {} /\ request = <<>>

Assign == request = <<>> /\ elems' \in SUBSET Universe /\ UNCHANGED request

Begin ==
  /\ request = <<>> /\ UNCHANGED elems
  /\ \/ request' = <<"Complement", elems, {}>>
     \/ request' \in {"Union", "Intersection"} \X {elems} \X (SUBSET Universe)
     \/ request' \in {"Union", "Intersection"} \X (SUBSET Universe) \X {elems}

Finish ==
  /\ request # <<>> /\ request' = <<>>
  /\ elems' = Result(request[1], request[2], request[3])

Spec == Init /\ [][Assign \/ Begin \/ Finish]_<<elems, request>>
=============================================================================
