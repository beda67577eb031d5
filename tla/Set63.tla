-------------------------------- MODULE Set63 --------------------------------
(***************************************************************************)
(* The operations of container/dense/set63.go that build a Set63 from      *)
(* others: Union and Intersection merge the contiguous intervals of two    *)
(* sets, Complement walks those of one.  A variable of a program holds a   *)
(* set and is replaced by the results.  Each iteration of a merge loop is a *)
(* step.  The branches of a loop are written once for both roles, x the    *)
(* set whose interval comes first and y the other.  When no branch applies *)
(* the code panics with "impossible interval order": here it deadlocks.    *)
(***************************************************************************)
EXTENDS Cells

CONSTANT Operands  \* the element lists given to NewSet63

ASSUME OperandsAssumption == Operands \subseteq Seq(0..Limit-1)

VARIABLES
  set,   \* the set the program holds
  call   \* the operation under way: its operands args, what is left of them
         \* (headx) in s and t, the result r so far, and Complement's b

vars == <<set, call>>

None == <<>>
Idle == call = None

Init == set = <<>> /\ call = None

-----------------------------------------------------------------------------
(* Calls.                                                                  *)

New(elem) == Idle /\ set' = NewSet63(elem) /\ UNCHANGED call

SetInterval(min, max) == Idle /\ set' = Interval(min, max + 1) /\ UNCHANGED call

Start(op, s, t) ==
  /\ Idle /\ UNCHANGED set
  /\ call' = [op |-> op, args |-> <<s, t>>, s |-> headx(s), t |-> headx(t),
              r |-> <<>>, b |-> 0]

\* The loops go on while both sides have an interval.
Merging(op) == ~Idle /\ call.op = op /\ \A x \in {"s", "t"} : call[x].b # call[x].e

\* x's interval lies in y's; when they are the same, s is taken to lie in t.
In(x, y) == call[y].b <= call[x].b /\ call[x].e <= call[y].e
Contained(x, y) == In(x, y) /\ (x = "t" => ~In(y, x))

\* x's interval begins first and ends inside y's.
Overlapping(x, y) == ~In(x, y) /\ ~In(y, x) /\ call[x].b <= call[y].b /\ call[x].e <= call[y].e

\* The cells of x's interval: its own, or a new cover when it has been changed.
CellsOf(x) == IF x.head # <<>> THEN x.head ELSE Interval(x.b, x.e)

Roles == {<<"s", "t">>, <<"t", "s">>}

-----------------------------------------------------------------------------
(* Union.                                                                  *)

\* Mutant: the interval inside the other one is looked at for ever.
UnionContainedStuck(x, y) == Merging("Union") /\ Contained(x, y) /\ UNCHANGED vars

UnionContained(x, y) ==
  /\ Merging("Union") /\ Contained(x, y)
  /\ call' = [call EXCEPT ![x] = headx(@.rest)]
  /\ UNCHANGED set

UnionBefore(x, y) ==
  /\ Merging("Union") /\ call[x].e < call[y].b
  /\ call' = [call EXCEPT !.r = @ \o CellsOf(call[x]), ![x] = headx(@.rest)]
  /\ UNCHANGED set

\* Mutant: the later interval does not take over the earlier one's begin.
UnionOverlapLate(x, y) ==
  /\ Merging("Union") /\ Overlapping(x, y) /\ call[x].e >= call[y].b
  /\ call' = [call EXCEPT ![y].head = <<>>, ![x] = headx(@.rest)]
  /\ UNCHANGED set

\* They overlap or touch: y's becomes the interval of both.
UnionOverlap(x, y) ==
  /\ Merging("Union") /\ Overlapping(x, y) /\ call[x].e >= call[y].b
  /\ call' = [call EXCEPT ![y].head = <<>>, ![y].b = call[x].b, ![x] = headx(@.rest)]
  /\ UNCHANGED set

\* Mutant: the intervals behind the pending one are dropped.
PendingOnly(x) == IF x.b = x.e THEN <<>> ELSE CellsOf(x)

Pending(x) == IF x.b = x.e THEN <<>> ELSE CellsOf(x) \o x.rest

\* The end of the loop, also when an operand was empty at once: what is pending on
\* one side is then that operand.
UnionReturn ==
  /\ ~Idle /\ call.op = "Union" /\ ~Merging("Union")
  /\ set' = call.r \o Pending(call.s) \o Pending(call.t)
  /\ call' = None

-----------------------------------------------------------------------------
(* Intersection.                                                           *)

IntersectionContained(x, y) ==
  /\ Merging("Intersection") /\ Contained(x, y)
  /\ call' = [call EXCEPT !.r = @ \o CellsOf(call[x]), ![x] = headx(@.rest)]
  /\ UNCHANGED set

IntersectionBefore(x, y) ==
  /\ Merging("Intersection") /\ call[x].e <= call[y].b
  /\ call' = [call EXCEPT ![x] = headx(@.rest)]
  /\ UNCHANGED set

\* What they share goes to the result; the rest of y's interval stays.
IntersectionOverlap(x, y) ==
  /\ Merging("Intersection") /\ Overlapping(x, y) /\ call[x].e > call[y].b
  /\ call' = [call EXCEPT !.r = @ \o Interval(call[y].b, call[x].e),
                          ![y].head = <<>>, ![y].b = call[x].e, ![x] = headx(@.rest)]
  /\ UNCHANGED set

IntersectionReturn ==
  /\ ~Idle /\ call.op = "Intersection" /\ ~Merging("Intersection")
  /\ set' = call.r /\ call' = None

-----------------------------------------------------------------------------
(* Complement, with the set in s.                                          *)

Walking == ~Idle /\ call.op = "Complement" /\ call.s.b # call.s.e /\ call.b < Limit

ComplementStep ==
  /\ Walking
  /\ call' = [call EXCEPT !.r = @ \o Interval(call.b, call.s.b), !.b = call.s.e,
                          !.s = headx(@.rest)]
  /\ UNCHANGED set

ComplementReturn ==
  /\ ~Idle /\ call.op = "Complement" /\ ~Walking
  /\ set' = call.r \o Interval(call.b, Limit)
  /\ call' = None

-----------------------------------------------------------------------------
Step ==
  \/ \E p \in Roles :
       \/ UnionContained(p[1], p[2]) \/ UnionBefore(p[1], p[2]) \/ UnionOverlap(p[1], p[2])
       \/ IntersectionContained(p[1], p[2]) \/ IntersectionBefore(p[1], p[2])
       \/ IntersectionOverlap(p[1], p[2])
  \/ UnionReturn \/ IntersectionReturn \/ ComplementStep \/ ComplementReturn

Next ==
  \/ \E elem \in Operands :
       \/ New(elem)
       \/ \E op \in {"Union", "Intersection"} :
            Start(op, set, NewSet63(elem)) \/ Start(op, NewSet63(elem), set)
  \/ \E min, max \in 0..Limit-1 : SetInterval(min, max)
  \/ Start("Complement", set, <<>>)
  \/ Step

\* A call's loop waits for nobody.
Spec == Init /\ [][Next]_vars /\ WF_vars(Step)

-----------------------------------------------------------------------------
(* Properties.                                                             *)

\* The type invariant: the held set, the result under construction and what is left
\* of the operands are lists of cells in order, and intervals do not run backwards.
TypeOK ==
  /\ Ordered(set)
  /\ Idle \/
     /\ call.op \in {"Union", "Intersection", "Complement"}
     /\ Ordered(call.r) /\ call.b \in 0..Limit
     /\ \A x \in {"s", "t"} :
          /\ 0 <= call[x].b /\ call[x].b <= call[x].e /\ call[x].e <= Limit
          /\ Ordered(call[x].head) /\ Ordered(call[x].rest)

\* What is left of x, an operand of the call under way.
Left(x) == (x.b..x.e-1) \cup Elements(x.rest)

\* The invariant of the merge loops: result and remainders together determine the
\* answer from the operands, after any number of iterations, and the result lies
\* before whatever is still to be added.
MergeExact ==
  ~Idle =>
    LET s == Elements(call.args[1])
        t == Elements(call.args[2])
        r == Elements(call.r)
    IN  /\ call.op = "Union" =>
             r \cup Left(call.s) \cup Left(call.t) = s \cup t
        /\ call.op = "Intersection" =>
             r \cup (Left(call.s) \cap Left(call.t)) = s \cap t
        /\ call.op = "Complement" =>
             r \cup ((call.b..Limit-1) \ Left(call.s)) = (0..Limit-1) \ s

\* Every set a program gets hold of is in the one form Equal relies on ("has the same
\* elements", set63.go:462): each cell is as large as it can be, so siblings are
\* joined at every level, whatever operations the set went through.
Canonical ==
  \A i \in DOMAIN set :
    set[i] # unity => ~(Within(parent(set[i])) \subseteq Elements(set))

ISets == INSTANCE IntegerSets WITH
  elems <- Elements(set),
  request <- IF Idle THEN <<>>
             ELSE <<call.op, Elements(call.args[1]), Elements(call.args[2])>>

\* A Set63 is a set of integers and its operations are those on sets.
ActsAsIntegerSets == ISets!Spec

\* The queries agree with the set of elements: Contains by binary search over cells of
\* all sizes, Count, Span, and ForEachInterval, whose intervals do not touch.
QueriesAnswer ==
  LET elems == Elements(set)
      all   == ForEachInterval(set)
  IN  /\ \A e \in 0..Limit-1 : ContainsElem(set, e) <=> e \in elems
      /\ Count(set) = Cardinality(elems)
      /\ Span(set) = IF elems = {} THEN <<0, -1>> ELSE <<Min(elems), Max(elems)>>
      /\ elems = UNION {all[i][1]..all[i][2] : i \in DOMAIN all}
      /\ \A i \in 1..Len(all)-1 : all[i][2] + 1 < all[i + 1][1]
      /\ \A elem \in Operands :
           LET disjoint == elems \cap Elements(NewSet63(elem)) = {}
           IN  Intersects(set, NewSet63(elem)) \in {"panic", IF disjoint THEN "no" ELSE "yes"}

\* A merge loop comes to its end.
CallReturns == ~Idle ~> Idle

-----------------------------------------------------------------------------
\* "Intersects returns whether s and t have any element in common." (set63.go:362)
IntersectsAnswers ==
  \A elem \in Operands :
    LET t == NewSet63(elem)
    IN  Intersects(set, t) = IF Elements(set) \cap Elements(t) = {} THEN "no" ELSE "yes"
=============================================================================
