-------------------------------- MODULE Cells --------------------------------
(***************************************************************************)
(* The cells of container/dense/set63.go and the functions of a Set63 that *)
(* only read.  A cell is an interval of 2^l elements that starts at a      *)
(* multiple of 2^l, named by its prefix, a one, and l zeroes.  A Set63 is a *)
(* sequence of cells.  Bits is 63 in the code, where a cell has 64 bits.   *)
(***************************************************************************)
EXTENDS Integers, Sequences, FiniteSets, SequencesExt, FiniteSetsExt

CONSTANT Bits

ASSUME BitsAssumption == Bits \in Nat \ {0}

\* 1 << n.
shifted[n \in 0..Bits] == IF n = 0 THEN 1 ELSE 2 * shifted[n - 1]

Limit == shifted[Bits]  \* one past the largest element
unity == Limit        \* the cell of all elements
Cell  == 1..2*Limit-1

lsb(c) == Max({p \in {shifted[l] : l \in 0..Bits} : c % p = 0})

\* c and d agree on the bits above c's lsb.
contains(c, d) == c \div (2*lsb(c)) = d \div (2*lsb(c))

\* The bit above the lsb of unity is lost.
sibling(c) ==
  LET p == 2*lsb(c)
  IN  IF c = unity THEN c ELSE IF (c \div p) % 2 = 1 THEN c - p ELSE c + p

\* Mutant: the parent is always taken to the right of its child.
parentToTheRight(c) == (c + lsb(c)) % (2*Limit)

\* The lsb moves up by one bit; unity has parent 0.
parent(c) ==
  LET p == lsb(c)
  IN  (IF (c \div (2*p)) % 2 = 1 THEN c - p ELSE c + p) % (2*Limit)

singleton(e) == 2*e + 1
begin(c) == (c - lsb(c)) \div 2
end(c) == begin(c) + lsb(c)

\* The elements of a cell and of a set: what a Set63 stands for.
Within(c) == begin(c)..end(c)-1
Elements(s) == UNION {Within(s[i]) : i \in DOMAIN s}

\* Cells in increasing order that do not overlap.
Ordered(s) ==
  /\ s \in Seq(Cell)
  /\ \A i \in 1..Len(s)-1 : end(s[i]) <= begin(s[i + 1])

-----------------------------------------------------------------------------
(* Constructors.                                                           *)

\* Mutant: siblings are joined once, and their parent with nothing.
AddJoinedOnce(ss, e) ==
  LET c == singleton(e)
      l == Len(ss)
  IN  IF l > 0 /\ contains(ss[l], c) THEN ss
      ELSE IF l > 0 /\ ss[l] = sibling(c) THEN Append(Front(ss), parent(c))
      ELSE Append(ss, c)

\* Adds element e, no smaller than those of ss.  The loop of lines 138-140 never
\* runs: a singleton contains only itself.
Add(ss, e) ==
  LET join[x \in (0..Len(ss)) \X (0..2*Limit-1)] ==  \* x: how many cells stay, the cell
        IF x[1] > 0 /\ ss[x[1]] = sibling(x[2]) THEN join[<<x[1] - 1, parent(x[2])>>]
        ELSE Append(SubSeq(ss, 1, x[1]), x[2])
  IN  IF ss # <<>> /\ contains(Last(ss), singleton(e)) THEN ss
      ELSE join[<<Len(ss), singleton(e)>>]

\* The elements es are added one by one.
Added(es) ==
  LET ss[i \in 0..Len(es)] == IF i = 0 THEN <<>> ELSE Add(ss[i - 1], es[i]) IN ss[Len(es)]

\* What sort.Sort makes of elem: place i has the least element that i are not above.
Sorted(elem) ==
  [i \in DOMAIN elem |->
     Min({x \in Range(elem) : i <= Cardinality({j \in DOMAIN elem : elem[j] <= x})})]

\* Mutant: the elements are taken in the order given.
NewSet63Unsorted(elem) == Added(elem)

NewSet63(elem) == Added(Sorted(elem))

\* interval: the largest cell that begins at min and does not pass max, and so on.
Interval(min, max) ==
  LET climb[c \in Cell] ==
        LET p == parent(c)
        IN  IF p # 0 /\ begin(p) = begin(c) /\ end(p) <= max THEN climb[p] ELSE c
      cover[b \in 0..Limit] ==
        IF b >= max THEN <<>>
        ELSE LET c == climb[singleton(b)] IN <<c>> \o cover[end(c)]
  IN  cover[min]

-----------------------------------------------------------------------------
(* Queries.                                                                *)

\* The first contiguous interval of s, its cells, and the other cells.
headx(s) ==
  IF s = <<>> THEN [head |-> <<>>, rest |-> <<>>, b |-> 0, e |-> 0]
  ELSE LET i == Min({i \in DOMAIN s : i = Len(s) \/ end(s[i]) # begin(s[i + 1])})
       IN  [head |-> SubSeq(s, 1, i), rest |-> SubSeq(s, i + 1, Len(s)),
            b |-> begin(s[1]), e |-> end(s[i])]

\* search: the first position among i..j of a cell not below c, j + 1 if there is none.
\* (In the code the range is half open and starts at 0.)
search(s, i, j, c) == Min({j + 1} \cup {h \in i..j : s[h] >= c})

\* Mutant: the cell before the position is not looked at.
ContainsElemAfter(s, e) ==
  LET i == search(s, 1, Len(s), singleton(e)) IN i <= Len(s) /\ begin(s[i]) <= e

ContainsElem(s, e) ==
  LET i == search(s, 1, Len(s), singleton(e))
  IN  \/ i > 1 /\ e < end(s[i - 1])
      \/ i <= Len(s) /\ begin(s[i]) <= e

Count(s) == FoldLeft(LAMBDA n, c : n + lsb(c), 0, s)

\* The smallest and the largest element.
Span(s) == IF s = <<>> THEN <<0, -1>> ELSE <<begin(s[1]), end(Last(s)) - 1>>

\* The calls of f by ForEachInterval.
ForEachInterval(s) ==
  LET from[i \in 1..Len(s)+1] ==
        IF i > Len(s) THEN <<>>
        ELSE LET h == headx(SubSeq(s, i, Len(s)))
             IN  << <<h.b, h.e - 1>> >> \o from[i + Len(h.head)]
  IN  from[1]

\* Intersects: the shorter set's first cell is looked up in the longer one; each
\* inner loop goes on while its set is not the longer one, and does not ask
\* whether it is empty or whether search went past the end.
Intersects(s, t) ==
  LET Meet(c, d) == contains(c, d) \/ contains(d, c)
      look[x \in {"outer", "s", "t"} \X (1..Len(s)+1) \X (1..Len(t)+1)] ==
        LET i == x[2]  \* x: the loop, what comes next of s, and of t
            j == x[3]
            ls == Len(s) + 1 - i
            lt == Len(t) + 1 - j
        IN  CASE x[1] = "outer" -> IF ls > 0 /\ lt > 0 THEN look[<<"s", i, j>>] ELSE "no"
              [] x[1] = "s" ->
                   IF ls > lt THEN look[<<"t", i, j>>]
                   ELSE IF ls = 0 \/ search(t, j, Len(t), s[i]) > Len(t) THEN "panic"
                   ELSE LET k == search(t, j, Len(t), s[i])
                        IN  IF Meet(t[k], s[i]) THEN "yes" ELSE look[<<"s", i + 1, k>>]
              [] x[1] = "t" ->
                   IF lt > ls THEN look[<<"outer", i, j>>]
                   ELSE IF lt = 0 \/ search(s, i, Len(s), t[j]) > Len(s) THEN "panic"
                   ELSE LET k == search(s, i, Len(s), t[j])
                        IN  IF Meet(t[j], s[k]) THEN "yes" ELSE look[<<"t", k, j + 1>>]
  IN  look[<<"outer", 1, 1>>]
=============================================================================
