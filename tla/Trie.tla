--------------------------------- MODULE Trie ---------------------------------
(***************************************************************************)
(* A Trie of container/trie/trie.go, a byte trie with edge compression.    *)
(* A node is named by the part of the key consumed above it, so that a     *)
(* split, which moves the contents of a node below a new one, renames no   *)
(* node further down.  A node that is not in tree is a zero Trie.          *)
(*                                                                         *)
(* Put calls itself on a child: each level is a step.  Get and ForEach     *)
(* change nothing and are operators.  A key is a sequence of bytes.        *)
(***************************************************************************)
EXTENDS Integers, SequencesExt

CONSTANTS
  Keys, Values,
  Nil,         \* the nil value
  Width,       \* the number of bytes, 256 in the code
  Doublings    \* a child table doubles as often before it holds every byte

\* The lengths of child tables.
doubled[d \in 0..Doublings] == IF d = 0 THEN 1 ELSE 2 * doubled[d - 1]

ASSUME ByteAssumption ==
  Doublings \in Nat /\ Width = doubled[Doublings] /\ Keys \subseteq Seq(0..Width-1) /\ Nil \notin Values

VARIABLES
  tree,   \* by node: suffix, value, and its table of len children from byte base on
  put     \* the Put under way: key, value and how many bytes of the key lie above

vars == <<tree, put>>

ZeroTrie == [suffix |-> <<>>, value |-> Nil, base |-> 0, len |-> 0]
Node(p) == IF p \in DOMAIN tree THEN tree[p] ELSE ZeroTrie

\* The tree t with contents n at node p.
With(t, p, n) == [q \in {p} \cup DOMAIN t |-> IF q = p THEN n ELSE t[q]]

\* The bytes that the table of node n has children for.
Table(n) == n.base .. n.base + n.len - 1

CommonPrefix(a, b) ==
  Max({i \in 0..Min({Len(a), Len(b)}) : SubSeq(a, 1, i) = SubSeq(b, 1, i)})

Idle == [key |-> <<>>, value |-> Nil, at |-> -1]

Init == tree = [p \in {} |-> ZeroTrie] /\ put = Idle

-----------------------------------------------------------------------------
(* Put.                                                                    *)

Put == put = Idle /\ UNCHANGED tree /\ \E k \in Keys, v \in Values \cup {Nil} :
         put' = [key |-> k, value |-> v, at |-> 0]

\* The node Put is called on and the key it is called with.
At     == SubSeq(put.key, 1, put.at)
Rest   == SubSeq(put.key, put.at + 1, Len(put.key))
Here   == Node(At)
Shared == CommonPrefix(Here.suffix, Rest)
Empty  == Here.len = 0 /\ Here.value = Nil

\* Mutant: the table stays behind.
SplitWithoutTable(n, s) ==
  << [suffix |-> SubSeq(n.suffix, 1, s), value |-> Nil, base |-> n.suffix[s + 1], len |-> 1],
     [n EXCEPT !.suffix = SubSeq(@, s + 2, Len(@)), !.base = 0, !.len = 0] >>

\* Node n split after s bytes of its suffix: what stays, and the child its contents
\* move to.
Split(n, s) ==
  << [suffix |-> SubSeq(n.suffix, 1, s), value |-> Nil, base |-> n.suffix[s + 1], len |-> 1],
     [n EXCEPT !.suffix = SubSeq(@, s + 2, Len(@))] >>

\* The tree, split at node At where the key leaves the suffix.
SplitTree ==
  IF Shared = Len(Here.suffix) THEN tree
  ELSE LET two == Split(Here, Shared)
       IN  With(With(tree, At \o SubSeq(Here.suffix, 1, Shared + 1), two[2]), At, two[1])

\* Mutant: the table grows at its end only.
GrownUpwards(n, b) ==
  IF n.len = 0 THEN [n EXCEPT !.base = b, !.len = 1]
  ELSE LET d == Min({d \in 0..Doublings : b - n.base < n.len * doubled[d]})
       IN  [n EXCEPT !.len = @ * doubled[d]]

\* Node n with a table that has a child for byte b: the length doubles, and the base
\* is masked to a multiple of it, until it does.
Grown(n, b) ==
  LET grown[d \in 0..Doublings] ==
        IF d = 0 THEN n
        ELSE LET m == grown[d - 1]
             IN  [m EXCEPT !.len = 2*@, !.base = @ - (@ % (2*m.len))]
  IN  IF n.len = 0 THEN [n EXCEPT !.base = b, !.len = 1]
      ELSE grown[Min({d \in 0..Doublings : b \in Table(grown[d])})]

PutEmpty ==
  /\ put # Idle /\ Empty
  /\ tree' = With(tree, At, [Here EXCEPT !.suffix = Rest, !.value = put.value])
  /\ put' = Idle

PutHere ==
  /\ put # Idle /\ ~Empty /\ Shared = Len(Rest)
  /\ tree' = [SplitTree EXCEPT ![At].value = put.value]
  /\ put' = Idle

PutBelow ==
  /\ put # Idle /\ ~Empty /\ Shared < Len(Rest)
  /\ tree' = [SplitTree EXCEPT ![At] = Grown(@, Rest[Shared + 1])]
  /\ put' = [put EXCEPT !.at = @ + Shared + 1]

Next == Put \/ PutEmpty \/ PutHere \/ PutBelow

Spec == Init /\ [][Next]_vars

-----------------------------------------------------------------------------
(* Get and ForEach.                                                        *)

\* Mutant: a key that leaves the suffix is not noticed.
GetUnmatched(key) ==
  LET get[at \in 0..Len(key)] ==
        LET n    == Node(SubSeq(key, 1, at))
            rest == SubSeq(key, at + 1, Len(key))
            s    == CommonPrefix(n.suffix, rest)
            b    == rest[s + 1]
        IN  IF s = Len(rest) THEN n.value
            ELSE IF b < n.base \/ b > n.base + n.len THEN Nil
            ELSE IF b \in Table(n) THEN get[at + s + 1] ELSE "panic"
  IN  get[0]

\* The byte just behind the table passes the test of the code, and panics.
Get(key) ==
  LET get[at \in 0..Len(key)] ==
        LET n    == Node(SubSeq(key, 1, at))
            rest == SubSeq(key, at + 1, Len(key))
            s    == CommonPrefix(n.suffix, rest)
            b    == rest[s + 1]
        IN  IF s < Len(n.suffix) THEN Nil
            ELSE IF s = Len(rest) THEN n.value
            ELSE IF b < n.base \/ b > n.base + n.len THEN Nil
            ELSE IF b \in Table(n) THEN get[at + s + 1] ELSE "panic"
  IN  get[0]

\* The keys and values below each child of the node p, with contents n.
Below(visit, p, n) ==
  FlattenSeq([i \in 1..n.len |->
    LET child == p \o n.suffix \o <<n.base + i - 1>>
    IN  IF child \in DOMAIN tree THEN visit[child] ELSE <<>>])

Own(p, n) == IF n.value = Nil THEN <<>> ELSE <<<<p \o n.suffix, n.value>>>>

\* Mutant: a node comes after its children.
ForEachPostorder ==
  LET visit[p \in DOMAIN tree] == Below(visit, p, tree[p]) \o Own(p, tree[p])
  IN  IF <<>> \in DOMAIN tree THEN visit[<<>>] ELSE <<>>

\* The calls of an f that always asks for more.
ForEach ==
  LET visit[p \in DOMAIN tree] == Own(p, tree[p]) \o Below(visit, p, tree[p])
  IN  IF <<>> \in DOMAIN tree THEN visit[<<>>] ELSE <<>>

-----------------------------------------------------------------------------
(* Properties.                                                             *)

\* The types of the variables.  A child table is empty or a power of two long, starts
\* at a multiple of its length and fits into the bytes (trie.go:70-82); every node
\* but the root is in the table of the one above.
TypeOK ==
  /\ \A p \in DOMAIN tree :
       LET n == tree[p]
       IN  /\ n.suffix \in Seq(0..Width-1) /\ n.value \in Values \cup {Nil}
           /\ n.len \in {0} \cup {doubled[d] : d \in 0..Doublings}
           /\ n.base \in 0..Width-1
           /\ n.len > 0 => n.base % n.len = 0 /\ n.base + n.len <= Width
           /\ p # <<>> => \E q \in DOMAIN tree :
                            /\ p = q \o tree[q].suffix \o <<Last(p)>>
                            /\ Last(p) \in Table(tree[q])
  /\ put.key \in Keys \cup {<<>>} /\ put.value \in Values \cup {Nil}
  /\ put.at \in -1..Len(put.key)

\* The keys and values that ForEach shows, whatever the order.
Shown == ToSet(ForEach)

\* The keys, the keys without their last byte, and the keys one byte longer.
Probes == Keys \cup {Front(k) : k \in Keys \ {<<>>}}
               \cup {Append(k, b) : k \in Keys, b \in 0..Width-1}

\* The root, and where the children of the nodes are, those that are zero Tries too.
Places ==
  {<<>>} \cup UNION {{p \o tree[p].suffix \o <<b>> : b \in Table(tree[p])} : p \in DOMAIN tree}

\* The key goes on from some node with the byte just behind the node's table.
JustBehind(key) ==
  \E p \in Places :
    LET n == Node(p)
    IN  IsPrefix(p \o n.suffix \o <<n.base + n.len>>, key)

\* Get gives the value that ForEach shows for a key (trie.go:90-107).  For any other key,
\* also for a prefix of one and for one a byte longer, it gives nil, unless the key goes
\* on with the byte just behind a child table: then, and only then, it panics, as the
\* test of trie.go:102 lets that byte pass (the comment of line 90 promises nil).
GetAnswers ==
  put = Idle =>
    \A k \in Probes :
      LET values == {e[2] : e \in {e \in Shown : e[1] = k}}
      IN  /\ values # {} => values = {Get(k)}
          /\ values = {} => Get(k) = IF JustBehind(k) THEN "panic" ELSE Nil

\* In byte order.
Less(a, b) ==
  LET s == CommonPrefix(a, b)
  IN  IF s < Len(a) /\ s < Len(b) THEN a[s + 1] < b[s + 1] ELSE Len(a) < Len(b)

\* ForEach shows each key once and in sorted order, although tables have grown in both
\* directions and nodes have moved (trie.go:137-140).
ForEachSorted ==
  \A i \in 1..Len(ForEach)-1 : Less(ForEach[i][1], ForEach[i + 1][1])

Dict == INSTANCE Dictionary WITH
          dict    <- Shown,
          request <- IF put = Idle THEN <<>> ELSE <<put.key, put.value>>

\* At every level of the descent, whatever was split and grown on the way, the trie
\* shows the keys and values it had, and with the last step those that Put asks for
\* (trie.go:45-88).
ActsAsDictionary == Dict!Spec
=============================================================================
