------------------------------ MODULE DenseCover ------------------------------
(***************************************************************************)
(* Cover of container/dense/cover.go: a coarser Set63 around a set, with no*)
(* more than maxSize cells and none below minGrain.  shape builds a tree of*)
(* cells over the set; the loop then pops leaves off a heap ordered by what*)
(* their parent would waste, and blows parents up into leaves.             *)
(*                                                                         *)
(* A node is named by the cell shape was called with, where the code has   *)
(* its index; 0 is no node.  Each iteration of the loop is a step.         *)
(* container/heap is external: Pop gives some entry with the smallest g.   *)
(***************************************************************************)
EXTENDS Cells

CONSTANTS
  Sets,      \* the element lists of the sets to cover
  MaxSizes,  \* the values of maxSize, 0 for no limit
  MinGrains  \* the values of minGrain

ASSUME CoverAssumption ==
  /\ Sets \subseteq Seq(0..Limit-1)
  /\ MaxSizes \subseteq Nat /\ MinGrains \subseteq 0..2*Limit-1

VARIABLES
  args,    \* the arguments: the set s, maxSize and minGrain
  shape,   \* the nodes of the tree: cell c (0 once removed), elements w in it,
           \* children il and ir (0 in a leaf), parent ip, waste gain g of ip
  root,    \* the last node shape made
  leaves,  \* the heap
  working, \* the loop has not returned
  ret      \* the result, once it has

CoverVars == <<args, shape, root, leaves, working, ret>>

-----------------------------------------------------------------------------
(* The tree.                                                               *)

Word(n) == n % (2*Limit)      \* a uint64

\* The two children of a cell; a leaf is its own child.
children(c) == LET p == lsb(c) \div 2 IN <<c - p, c + p>>

waste(t) == Word(lsb(t.c) - t.w)

\* The cell s[i], or its first ancestor of size minGrain.
Raised(c, minGrain) ==
  LET up[d \in Cell] == IF lsb(d) < minGrain /\ parent(d) # 0 THEN up[parent(d)] ELSE d
  IN  up[c]

Leaf(c, w) == [c |-> c, w |-> w, il |-> 0, ir |-> 0, ip |-> 0, g |-> 0]

\* A tree is its nodes and the topmost of them.
Single(c, leaf) == [top |-> c, nodes |-> [n \in {c} |-> leaf]]

\* The trees l and r below an inner node c.
Joined(c, l, r) ==
  LET L == l.nodes[l.top]
      R == r.nodes[r.top]
      N == [c |-> c, w |-> L.w + R.w, il |-> l.top, ir |-> r.top, ip |-> 0, g |-> 0]
      g == Word(waste(N) - waste(L) - waste(R))
      below(t, n) == IF n = t.top THEN [t.nodes[n] EXCEPT !.ip = c, !.g = g] ELSE t.nodes[n]
  IN  [top |-> c,
       nodes |-> [n \in {c} \cup DOMAIN l.nodes \cup DOMAIN r.nodes |->
                    IF n = c THEN N
                    ELSE IF n \in DOMAIN l.nodes THEN below(l, n) ELSE below(r, n)]]

\* shape: the tree over s.  An inner node is made where both halves of c hold something.
Tree(s, minGrain) ==
  LET tree[x \in (1..Len(s)+1) \X (1..Len(s)+1) \X Cell] ==
        LET i == x[1]  \* the cells i..j-1 of s, which lie in c
            j == x[2]
            c == x[3]
            m == search(s, i, j - 1, c)
            l == tree[<<i, m, children(c)[1]>>]
            r == tree[<<m, j, children(c)[2]>>]
        IN  IF i = j THEN [top |-> 0, nodes |-> <<>>]
            ELSE IF lsb(c) < Word(2*minGrain) THEN Single(c, Leaf(c, Count(SubSeq(s, i, j - 1))))
            ELSE IF i + 1 = j THEN Single(c, Leaf(Raised(s[i], minGrain), lsb(s[i])))
            ELSE IF l.top = 0 THEN r ELSE IF r.top = 0 THEN l
            ELSE Joined(c, l, r)
  IN  tree[<<1, Len(s) + 1, unity>>]

isLeaf(n) == shape[n].il = 0

\* getLeaves: the cells of the live leaves below node n, from left to right.  None is a
\* removed node (LiveTree), where the code would look for a child -1.
getLeaves(n) ==
  LET get[k \in DOMAIN shape] ==
        IF isLeaf(k) THEN <<shape[k].c>> ELSE get[shape[k].il] \o get[shape[k].ir]
  IN  get[n]

-----------------------------------------------------------------------------
(* Cover.                                                                  *)

\* The effective limit: that of the caller where it is smaller than the set.
Limited(s, maxSize) == IF maxSize < 1 \/ Len(s) < maxSize THEN Len(s) ELSE maxSize

Cover(s, maxSize, minGrain) ==
  LET t == Tree(s, minGrain)
  IN  /\ args = [s |-> s, maxSize |-> maxSize, minGrain |-> minGrain]
      /\ shape = t.nodes /\ root = t.top
      /\ leaves = {n \in DOMAIN t.nodes : t.nodes[n].il = 0}
      /\ working = (s # <<>>) /\ ret = <<>>

CoverInit ==
  \E elem \in Sets, maxSize \in MaxSizes, minGrain \in MinGrains :
    Cover(NewSet63(elem), maxSize, minGrain)

Return(set) == ret' = set /\ working' = FALSE /\ UNCHANGED <<args, shape, root, leaves>>

\* The loop goes on while more than one entry is in the heap; i is the one it pops.
Popped(i) ==
  /\ working /\ Cardinality(leaves) > 1
  /\ i \in leaves /\ \A k \in leaves : shape[i].g <= shape[k].g

\* Mutant: the entry of a removed node is looked at and left in the heap.
SkipPeeked(i) ==
  /\ Popped(i) /\ shape[i].c = 0
  /\ UNCHANGED CoverVars

Skip(i) ==
  /\ Popped(i) /\ shape[i].c = 0
  /\ leaves' = leaves \ {i}
  /\ UNCHANGED <<args, shape, root, working, ret>>

\* Mutant: one cell too many is let through.
TooManyByOne == Cardinality(leaves) - 1 > Limited(args.s, args.maxSize)

\* The heap, without the popped entry but with entries of removed nodes, has as
\* many entries as the result may have.
TooMany == Cardinality(leaves) - 1 >= Limited(args.s, args.maxSize)

\* Mutant: only the popped child is removed.
BlownupHalf(i) ==
  [shape EXCEPT ![shape[i].ip].il = 0, ![i].c = 0]

\* blowup: the parent of i is a leaf now, its children are removed.
Blownup(i) ==
  LET p == shape[i].ip
  IN  [n \in DOMAIN shape |->
         IF n = p THEN [shape[n] EXCEPT !.il = 0, !.ir = 0]
         ELSE IF n \in {shape[p].il, shape[p].ir} THEN [shape[n] EXCEPT !.c = 0]
         ELSE shape[n]]

\* Mutant: the parent is not put into the heap.
BlowupUnpushed(i) ==
  /\ Popped(i) /\ shape[i].c # 0 /\ (shape[i].g = 0 \/ TooMany) /\ shape[i].ip # 0
  /\ shape' = Blownup(i)
  /\ leaves' = leaves \ {i}
  /\ UNCHANGED <<args, root, working, ret>>

Blowup(i) ==
  /\ Popped(i) /\ shape[i].c # 0 /\ (shape[i].g = 0 \/ TooMany) /\ shape[i].ip # 0
  /\ shape' = Blownup(i)
  /\ leaves' = (leaves \ {i}) \cup {shape[i].ip}
  /\ UNCHANGED <<args, root, working, ret>>

ReturnRoot(i) ==
  /\ Popped(i) /\ shape[i].c # 0 /\ (shape[i].g = 0 \/ TooMany) /\ shape[i].ip = 0
  /\ Return(<<shape[i].c>>)

Break(i) ==
  /\ Popped(i) /\ shape[i].c # 0 /\ shape[i].g # 0 /\ ~TooMany
  /\ Return(getLeaves(root))

LoopEnd ==
  /\ working /\ Cardinality(leaves) <= 1
  /\ Return(getLeaves(root))

CoverNext ==
  \/ \E i \in leaves : Skip(i) \/ Blowup(i) \/ ReturnRoot(i) \/ Break(i)
  \/ LoopEnd

\* The loop waits for nobody.
CoverSpec == CoverInit /\ [][CoverNext]_CoverVars /\ WF_CoverVars(CoverNext)

-----------------------------------------------------------------------------
(* Properties.                                                             *)

Node == [c : Cell \cup {0}, w : 0..Limit, il : Cell \cup {0}, ir : Cell \cup {0},
         ip : Cell \cup {0}, g : 0..2*Limit-1]

\* The types of the variables (lines 23-29): a node has no child or two, and they
\* name it as their parent.
CoverTypeOK ==
  /\ shape \in [DOMAIN shape -> Node] /\ leaves \subseteq DOMAIN shape
  /\ working \in BOOLEAN /\ ret \in Seq(Cell)
  /\ \A n \in DOMAIN shape :
       \/ shape[n].il = 0 /\ shape[n].ir = 0
       \/ /\ {shape[n].il, shape[n].ir} \subseteq DOMAIN shape
          /\ shape[shape[n].il].ip = n /\ shape[shape[n].ir].ip = n

\* The set t holds what Cover was asked for, but for the number of cells: all of s,
\* in order, in no cell below the grain, and no two cells that make up their parent.
Covers(t) ==
  /\ Elements(args.s) \subseteq Elements(t)
  /\ \A k \in DOMAIN t : lsb(t[k]) >= args.minGrain \/ t[k] = unity
  /\ \A k \in 1..Len(t)-1 : end(t[k]) <= begin(t[k+1]) /\ t[k] # sibling(t[k+1])

\* The live leaves below the root.
LiveLeaves ==
  LET below[n \in DOMAIN shape] ==
        IF isLeaf(n) THEN {n} ELSE below[shape[n].il] \cup below[shape[n].ir]
  IN  below[root]

\* Cover keeps its promise (lines 139-142): the result contains s, has at most
\* maxSize cells, none below minGrain, is normalized as the tests ask, and is the
\* unit set for a grain above half of it.
CoverKeepsPromise ==
  ~working =>
    /\ Covers(ret)
    /\ args.maxSize > 0 => Len(ret) <= args.maxSize
    /\ 2*args.minGrain > Limit => ret \in {<<>>, <<unity>>}

\* However blow-ups and stale entries of the heap interleave (lines 169-195), no live
\* leaf is a removed node or missing from the heap, so that the heap's length bounds
\* their number, and the live leaves cover s at every turn of the loop.
LiveTree ==
  working =>
    /\ LiveLeaves \subseteq leaves /\ \A n \in LiveLeaves : shape[n].c # 0
    /\ Elements(args.s) \subseteq Elements(getLeaves(root))
    /\ \A n \in LiveLeaves : lsb(shape[n].c) >= args.minGrain \/ shape[n].c = unity

\* Blowing up parents and pushing them on the heap one pops from comes to an end.
CoverReturns == <>~working
=============================================================================
