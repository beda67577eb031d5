# A verification project for lvd.go

TLA+ modules that model the stateful parts of this repository, TLC
configurations that check them on small instances, and proofs that TLAPS checks
for every value of the constants. The project covers the package `cdf`
(NetCDF classic files), the trie of `container/trie`, the sets of
`container/dense` and their covers, the erasure coder of `encoding/rs`, and the
commands `rsc` and `gobdump`.

## The system

The repository is a collection of Go libraries and two commands. None of them
starts a goroutine. What is hard is arithmetic that several functions must agree
on, state that is carried from call to call, transfers that fail half way, and
one storage that several objects use in turn.

| component | state | operations | interacts with | hard behaviour | what makes it correct |
|---|---|---|---|---|---|
| `cdf` header (`header.go`, `read.go`, `write.go`) | dimensions, variables with strides and offsets, attributes, version | NewHeader, AddVariable, AddAttribute, Define, WriteHeader, ReadHeader, Check | its layout is what striders, fills and counts compute with | slab padding with one or several record variables, 32 or 64 bit offsets, calls in any order and after a panic | records never overlap; Define's result passes Check; writing and reading gives the same header; a frozen header never changes |
| `cdf` strider (`strider.go`) | cursor; begin, end, stripe, stride | Reader, Writer, Read, Write | ReadAt/WriteAt of the storage; encoding/binary calls back into its loop | the jump at a stripe end, transfers that stop inside an element, EOF, a missing end | the cursor is where the moved bytes take it; counts and errors agree; calls return |
| `cdf` file (`file.go`) | the storage | Open, Create, Fill, FillRecord | shares the storage with all striders and other Files | interleaved transfers, fills that fail half way, padding | variables are separate arrays; a fill stays in its record |
| `cdf` record count (`numrecs.go`, `NumRecs`) | the numrecs field | UpdateNumRecs, NumRecs | reads size and header of the file others are writing | size read before it is used, count too big for the field, missing padding | counted records exist, written ones are counted |
| `container/trie` | nodes with suffix, value, children, base | Put, Get, ForEach | none | splitting an edge, growing the child table, byte bounds | a dictionary of strings |
| `container/dense` sets (`set63.go`) | sorted 64-bit cells | Union, Intersection, Complement, queries | none | coalescing siblings, merging lists of different grain | the operations on sets of integers |
| `container/dense` Cover (`cover.go`) | a tree of nodes and a heap of leaves, for one call | Cover | built on the cells; container/heap | entries of removed nodes stay in the heap, whose length is compared with the limit | contains the set, within limit and grain |
| `encoding/rs` | field tables, a code matrix; the rows are the caller's | NewErasureCoder, Code, Update | used by rsc | field arithmetic, indexes in a byte, rows updated in place or later | all rows lie on one polynomial; any k of n give back the rest |
| `cmd/rsc` | open files, blocks | main | files, encoding/rs | files that end in different blocks, short reads, a call that fails half way | outputs are the code of the padded inputs; it exits |
| `cmd/gobdump` | type table, limited reader | main | streams of encoding/gob | streams cut off anywhere, unknown kinds, ignored errors | stays at record boundaries; learns what was sent |
| `geo/wgs84` | none | projections | none | floating point | not modelled |

## Modules

`CdfLayout` (constant operators). The layout arithmetic of the header on records
that mirror the Go structs: `SetComputed`, `FixRecordStrides`, `Slabs`,
`NumRecs`, `HeaderSize`, `SetOffsets`, `DataStart`, `Defined`, `WriteHeader`,
`ReadHeader`, `StriderOf` (the constructor of striders) and `Check`. Sequences
start at 1 where Go slices start at 0. Attribute values are a type and a length,
names take a fixed eight bytes in the written form.

`CdfHeader` (a state machine on `CdfLayout`). Variables: `h` the header in
memory, `img` the written header, `outcome` the last call. One action per
operation: `NewHeader`, `AddVariable`, `AddAttribute`, `Define`, `Create`,
`Open`. Refused calls are transitions too, with outcome "panic", because a caller
may recover and go on.

`StriderOps` (constant operators). The expressions of the loop shared by
`strider.Read` and `strider.Write` (`StripeEnd`, `Chunk`, `Advance`, `NextEnd`,
`AtEnd`, `RelOffs`) and the answers of the storage (`ReadAt`, `WriteAt`,
external), used by the next two modules.

`Strider` (one strider). Variables: `geo` its fields, `curr` the cursor, `fsize`
the size of the storage, `call` the call under way, `ret` what the last one
returned, `moved` a history of the bytes moved. `Call` and `CallOther` start a
call, `ReadChunk` and `WriteChunk` are one iteration of the loop with any answer
a ReaderAt or WriterAt may give, `Panic` is a negative slice bound, `Extend` is
somebody else's write.

`CdfFile` (a whole data section). Variables: `store` the written bytes, each known
by who wrote it; `st` the striders; `seen` what each read last; `ranges` what the
fill under way has yet to write; `stat` and `numrecs` the record count being
updated and stored; `others` bounds the calls. The constants are any header that
Define leaves behind (`HeaderAssumption`, which `FrozenFitForFile` proves of every
frozen header of `CdfHeader`) and any corners within their variables
(`CornersAssumption`). Each transfer of each strider and
each element of a fill is a step of its own, so they interleave in every order,
and each may fail in the middle. `UpdateNumRecs` is two steps, `Stat` and
`WriteNumRecs`.

`VarStore` (the abstraction of `CdfFile`). Variables are arrays of bytes, handles
move through them in order, fills stay in a record. No offsets, no stripes, no
padding. `CdfFile` implements it under the mapping `arrBar`, `atBar`.

`Trie`. Variables: `tree`, the nodes by the part of the key consumed above them, so
that a split, which moves a node's contents under a new byte, renames no node
below; `put`, the Put under way. Put calls itself on a child: each level is a step,
`PutEmpty`, `PutHere` or `PutBelow`, which include the split of the suffix (`Split`)
and the growth of the child table (`Grown`). `Get` and `ForEach` change nothing and
are operators. A byte has `Doublings` bits; `doubled` holds the powers of two.

`Dictionary` (the abstraction of `Trie`): a set of keys with their values, where nil
removes. The mapping shows what ForEach shows, in every state of the descent.

`Cells` (constant operators). The bit arithmetic of cells, `NewSet63`, `Interval`
and the queries of a Set63, over `Bits` bits in place of 63. Exclusive-or and masks
are written as the arithmetic they do on a cell, overflow at `unity` included.

`Set63` (a state machine on `Cells`). Variables: `set`, the set a program holds;
`call`, the Union, Intersection or Complement under way with the interval at hand
and the remaining cells of each operand. One iteration of a merge loop is a step,
one action per branch, written once for both operands. The panic "impossible
interval order" is a deadlock of the model.

`IntegerSets` (the abstraction of `Set63`): one set of integers and the operations.

`DenseCover` (a state machine on `Cells`, its specification `CoverSpec`). Variables: `args`, `shape` the tree, `root`,
`leaves` the heap, `working`, `ret`. `CoverInit` is the call up to its loop, with the tree
that `shape` builds (`Tree`); each turn of the loop is a step: `Skip` an entry of a
removed node, `Blowup`, `ReturnRoot`, `Break`, `LoopEnd`. container/heap is external:
it pops any of the least entries, since `Less` breaks ties by positions.

`ReedSolomon` (constant operators). The field of encoding/rs: multiplication the hard
way, the tables `exp`, `log`, `inv`, `mult` by them, the Lagrange factors, `coded`; and
the polynomials the properties compare with, which use the field and not the tables.

`ErasureCoder` (a state machine on `ReedSolomon`). Variables: `interp` the coder's
matrix, `input` and `output` the caller's rows, `later` the matrix of deferred updates that
the comment of Update describes. `Code`, `Update`, `UpdateLater` and `Merge` happen in
any order; calls that panic are steps too. `Degree` is the number of inputs.

`Rsc` (a state machine on `ReedSolomon`, its specification `RscSpec`). One run of the command: `at` says where main
is, `rest` is what is left of the inputs, `out_files` the outputs. `Read` is the part of
the loop up to the coded blocks, `Write` one file's row; each system call may fail
(`OpenFails`, `ReadFails`, `WriteFails` with a part written, `CloseFails`), and a read
may return fewer bytes than there are. `short` records that one did.

`Gobdump` (one run of the command). Variables: `input` the bytes, which the encoder's
side (`Encode`, external) makes of records and a cut ends anywhere; `at`;
`descriptors`; `status`; `printed`. A decoder is an operator from a reader to a reader,
a value and an error; `Fields` is the loop that six decoders share. `Record` is one
turn of main's loop with all the decoding in it, `End` its exits, `Dump` the printing.

`TypeTable` (the abstraction of `Gobdump`): records taken one by one, and the last
definition of each id.

The theorems and their proofs are in modules of their own: `Arithmetic` (induction,
recursion, division, sums, multiples, powers of two), `CdfLayoutProofs` (the layout and
the strider's loop), `StriderProofs`, `CdfHeaderProofs`, `CdfFileProofs`, `DenseProofs`
(of `Cells`, `Set63` and `DenseCover`), `TrieProofs` and `ReedSolomonProofs` (of `ReedSolomon`,
`ErasureCoder` and `Rsc`). The modules whose names begin with MC are the TLC instances. Definitions marked "Mutant" are deliberately
wrong variants of the definition below them, kept to show that a property fails
when the code is changed that way; nothing uses them.

## Runs

| run | question | bounds, and why they are enough |
|---|---|---|
| `header` | Do all sequences of calls give layouts that pass `Check` (`DefinedPassesCheck`), keep all places apart (`NoOverlap`), survive writing and reading (`RoundTrip`) and stay frozen (`FrozenStays`)? | up to three variables over a record dimension and one of odd length, so zero, one and several record variables, padded and not, in every order of addition; `OffsetLimit` is 160 in place of 2^31, so that last offsets fall below, on and above it |
| `strider` | Cursor, counts, errors and extent of transfers (`CursorExact`, `CountExact`, `ShortOnlyAtEnd`, `PanicOnlyPastStripe`, `TransferInside`), progress (`CallReturns`) | twelve geometries the constructor makes: plain variables and corners of them, record variables with padded and unpadded slabs, with no end, an end inside a record, at its end; 14 bytes, so several stripes and calls; slices of 0, 1, 2 and 5 elements; storage that ends before, inside and behind the data |
| `file` | Is the file a set of separate arrays (`ActsAsVarStore`), is no padding or foreign byte written (`OwnBytes`), does a fill stay in its record (`FillOwnRecord`)? | two striders and one fill over a plain variable and two record variables, one padded; two records; six bytes each, so every strider of a record variable crosses a stripe |
| `file_count` | Do counted records exist (`CountedRecordsExist`) and are written ones counted but for a last one without padding (`WrittenRecordsCount`)? | one strider and three other calls, so that a size can grow stale during fills and a Create; `CountLimit` is 2 in place of 2^31 |
| `file_lone` | A claim about FillRecord that the code does not keep | one record variable of three bytes, one fill |
| `trie` | Is it a dictionary at every level of a descent (`ActsAsDictionary`), do Get and ForEach agree with it, and for which keys exactly does Get panic (`GetAnswers`, `ForEachSorted`)? | bytes of three bits and five keys that are prefixes of each other, part inside a suffix, and need child tables of length 1, 2, 4 and 8; two values and nil, so that replacing and removing happen; every order of any number of Puts |
| `set63` | Are the operations those of sets (`ActsAsIntegerSets`, with `MergeExact` inside the loops), is the form unique (`Canonical`), are queries right (`QueriesAnswer`), do loops end (`CallReturns`)? | eight elements, four sizes of cells; 224 sets are reached, each combined with eight others on either side, which meet every branch of every loop |
| `set63_intersects` | A claim about Intersects that the code does not keep | as `set63` |
| `cover` | Does Cover keep the promise of its comment (`CoverKeepsPromise`), do tree and heap agree at every turn (`LiveTree`), does the loop end (`CoverReturns`)? | every set of eight elements; limits from none to one past the four cells such a set can need; grains that are powers of two and others, up to the largest below an overflow; every order of equal entries |
| `rs` | Do rows stay on one polynomial (`ParityCurrent`) and do any k rows rebuild all (`AnyShards`)? Are the tables right (`TablesRight`, an ASSUME of the instance)? Is the polynomial of the code primitive (another)? | the field of 8 elements, so that interpolations by 1, 2, 3 and 8 inputs have room for equal, different and zero abscissae; the coder with an input at every element is the one of 256 inputs, where an index wraps; rows of no, one and two bytes and ragged ones |
| `rsc` | Do outputs hold a prefix of their code at every moment, and all of it on exit 0 (`OutputIsCode`), does it exit (`AlwaysExits`)? | the field of four elements, blocks of two bytes, pairs of inputs that are empty, end inside, at the end of, and behind the first block; three inputs once; abscissae past a byte; refused command lines |
| `gobdump` | Does the program act as a table of types record by record (`ActsAsTypeTable`), and end with the right dump or die of the cut (`DumpsWhatWasSent`)? | bytes of 16 values, integers of up to two bytes, ids that need three; all pairs of eight records (definitions of each kind and of an unknown one, a redefinition, values), and one of five with references forward, backward and to a missing type; cut at every byte |

Deadlock is checked in the runs of `CdfHeader`, `Strider`, `Trie`, `Set63`,
`ErasureCoder` and `Gobdump`. It is not in those of `CdfFile`: there the bounds on
calls are all there is, and when they are used up the users of the file have simply
stopped; nor in those of `DenseCover` and `Rsc`, which are one call and one process:
that they end, and well, is what `CoverReturns` and `AlwaysExits` say. Symmetry is used for variable names
and handles, in runs without liveness.

Fairness: `Strider` assumes weak fairness of `Step`, the iterations of a call
under way. The loop in the code waits for nobody and its storage calls return, so
a step that stays possible is taken. `Set63` assumes the same of the iterations of
its merge loops, `DenseCover` of the turns of its loop. `Rsc` assumes it of the steps
that succeed: a call returns, and no failure is needed to go on. `Gobdump` goes on
until it has ended, as its input is there; this is stated without ENABLED, which TLC
would have to evaluate over whole decoders, and equals weak fairness as no deadlock
is found. Nothing is assumed about callers.

## Proofs

Everything below is proved for every value of the constants: any number of
dimensions, variables and striders, any sizes and corners, any answers of the storage,
any number of bits of a cell, any keys and any number of bits of a byte, any field with
a primitive polynomial, and any files.

**Strider.** `TypeOK`, `CursorExact`, `CountExact`, `LoopAdvances`,
`PanicOnlyPastStripe` are invariants and `TransferInside` and `ShortOnlyAtEnd` hold of
its steps. The only assumption is `StriderAssumption`: offsets are natural numbers,
stripes and elements are not empty, and a stripe is no longer than the stride. That
leaves out striders over an empty range, which divide by zero on their first call.
`Pos(g, m)` and `Stop(g, m)` are the cursor and the stripe end after `m` bytes.
`CursorExact` alone is not inductive: the jump happens in the loop, where one must know
that a transfer never goes past the stripe end the loop carries, and the returned count
needs to know where the call began. `IInv` therefore adds `LoopExact`: bytes moved and
bytes left make up the call, and the first count is that of the call's first byte.
`AdvanceExact` is the heart: moving `nr` bytes inside a stripe takes `Pos(g, m)` to
`Pos(g, m + nr)`, jump included. Panics need one more invariant, `EndInv`: a cursor
beyond the end got there by the jump.

**Layout.** `CdfLayoutProofs` is about the header arithmetic. Strides are a recursion
over the dimensions (`StridesRecursion`), the slab and the offsets are sums over
variables. `DefinedLaidOut`: whatever AddVariable built, Define leaves it laid out,
that is with dimensions that exist, the slab as the first stride of every record
variable, and each variable at the sum of the padded sizes before it, also where it
changes to the larger header of version 2. `LaidOutSpaced` draws the consequences, and
`BytesApart` the conclusion: no byte of a record of a variable shares its offset with
another byte of the file.

**Header.** `CdfHeaderProofs` proves `TypeOK`, `DefinedPassesCheck`, `NoOverlap`,
`RoundTrip` and the action property `FrozenStays`. None of the four invariants is
inductive: they speak of frozen headers only. `IInv` says that a growing header is
`Good`, with no name twice and at most one record dimension, that a frozen one is
`Good`, laid out and with offsets that fit its version, and that the storage holds the
image of the header in memory. All of them ask for
`LengthsFit`: the lengths given to NewHeader are below 2^31, as the code checks an int
and keeps an int32, and a multiple of 2^32 becomes a second record dimension.

**File.** `CdfFileProofs` proves `TypeOK`, `FillOwnRecord`, `CountedRecordsExist`,
`WrittenRecordsCount`, `OwnBytes` and that `CdfFile` implements `VarStore`
(`ArraysRefined`). `IInv` says that each strider is where its moved bytes take it
(`Moving`), that what a fill has yet to write lies within its record and its padding
(`Pending`), that no fill's value is in another record (`StoreOK`), and that count and
size are those of the file at some earlier time (`CountOK`), when it was no longer than
now. `OInv`
adds that each byte known to be a strider's is its variable's. Two conditions occur,
where they are needed and nowhere else:

- `SlabsPadded`, for fills: a record and its padding fit a slab. That is so but for a
  single record variable of a size that is not a multiple of four, and `file_lone` is
  what happens then.
- `CornersAligned`, for striders: the begin corner of a record variable is the begin of
  a record. Otherwise each stripe, a whole record long, ends in the next variable
  (`InnerCornerLeaves` in `MCCdfFile`).

The refinement maps the byte `k` of variable `i` to its place in the file. A transfer of
`nr` bytes is one step of `VarStore`: the places of the bytes it moves through are
consecutive (`TracksPlace`, from `AdvanceExact`), no other byte of a variable is at any
of them (`PlacesDiffer`, from `BytesApart`), and so the arrays change where `VarStore`
says and only there. A step of a fill changes bytes of its own record (`OwnRecord`) and
padding, which no array shows. Opening, beginning a call, panics and record counts are
stutters or moves of a handle alone.

**Sets.** `DenseProofs` is about sets over any number of bits, at
least one (`BitsAssumption`), and operands made of any elements below `Limit`
(`OperandsAssumption`): the 63 bits of the code are a case of it. A cell is understood as
a begin and a level (`IsCell`): the begin is a multiple of the size, a power of two that
the function `shifted` holds and about which multiples are all one needs to know
(`ShiftedMultiples`). From that follow the places of parent and sibling (`CellFamily`),
also at `unity`, where the arithmetic overflows. Then come the loops that make cells:
`Climb` stops at the largest cell that fits, so that `Interval` tiles what it is asked for
(`IntervalTiles`), `headx` splits off what touches (`HeadxSplits`), `Add` joins siblings
all the way up, and so `NewSet63Exact`. Two cells are disjoint or one lies in the other
(`Laminar`), and lists of largest cells, the form of a Set63, are determined by their
elements (`SameElementsSameCells`), on which `Equal` relies.

For the state machine, `TypeOK`, `MergeExact`, `Canonical`, the refinement of
`IntegerSets` (`Refines`) and `QueriesAnswer` (`QueriesCorrect`) are proved. `MergeExact`
is not inductive: it does not know that a result may be extended. `IInv` adds, of each
operand (`Operand`), that the cells at hand tile its interval and the remaining ones
start behind a gap, and of the call (`CallInv`) that the result ends strictly before
whatever may still be added: before both intervals in a union, before one of them in an
intersection, before `b` in a complement. The same gap keeps the cells largest, since no
parent spans it (`JoinMaximal`). There is a lemma for each branch of each loop, said of
both operands in either role; constructors are `Assign` of `IntegerSets`, a call that
starts is `Begin`, one that returns is `Finish`, and iterations stutter.

The queries are about ordered lists of cells. `search` splits the list at the least cell
that is not below what it is given (`SearchIs`), so the one cell that could hold an
element is looked at. Intersects moves two cursors in turn. What makes its answer right is
that the cells either of them has passed meet none of those that are left; a function on
the triples of a loop and two cursors, which `RecursionExists` gives as each round passes
a cell, carries that from round to round (`LookTurns`,
`LooksExists`).

**Cover.** The same module proves `CoverTypeOK`, `LiveTree` and `CoverKeepsPromise` of
`DenseCover`, for any number of bits, any sets and any limits. It asks for grains below
`Limit`, that is 2^63, where `minGrain*2` does not overflow; the findings say what happens
from there on. It goes in four stages.

- The tree that `shape` builds (`TreeGrown`): the names of its nodes are nested cells, the
  two children of an inner node lie in its two halves and hold what it would waste
  (`Halves`), and the leaves hold the set in cells no smaller than the grain. `shape` calls itself on two
  parts of the set and the two halves of a cell: that there is such a function follows by
  the measure `TreeWeight` (`TreeExists`), that its results are right by the size of the
  cell (`GoodStep`). The gain is computed in a word from numbers that may wrap; for trees
  like these nothing does (`GainExact`).
- The live leaves (`Live`, those with no leaf above them): going down the tree collects
  them once each and in order, so that `getLeaves` gives an ordered list as long as their
  number (`LeavesAre`).
- A blow-up (`BlownShaped`): making an inner node a leaf keeps all of that. Only its
  children are marked as removed. What lies further down is not, but has no parent that is
  live, and `RisesAt` says exactly that: a node is removed when and only when its parent
  has been made a leaf. So the parent of an entry that is not removed is an inner node, and
  a node that is blown up is not blown up again.
- The loop (`LoopInv`): the tree is in order and holds the set, all live leaves are in the
  heap, and the heap holds leaves only. None of the three properties is inductive: they do
  not know where the nodes that are not live are, and these come to the top of the heap as
  well. When the loop breaks off, the popped gain is the least and not 0, while two
  neighbours that make up their parent would have a gain of 0
  (`NeighboursWasteNothing`), even though a leaf's name is not its cell and its sibling in
  the tree may not be its neighbour; and the heap's length bounds the number of cells.

**Trie.** `TrieProofs` is about keys of any length over any number of bytes that is a
power of two, and any values. `TypeOK`, `ForEachSorted`, `GetAnswers` and the refinement
of `Dictionary` (`IsDictionary`) are proved. `TypeOK` says that each node is in the table
of some node right above it; that neither excludes two nodes on one path that lead to
different children nor says anything about a node further up. `IInv` asks more: for each
node, and for the place that a Put under way has come to (`Place`), every node that
begins it leads to it, through its whole suffix and a byte of its table. Then the nodes
whose names begin a key are the path to the key, and no two nodes have the same key
(`KeysDiffer`).

Steps keep it for these reasons. Masking the base doubles a table onto what it held and
stays within the bytes, since both lengths divide their number (`TableDoubles`, along
the loop `GrownKeeps`). A split leaves a node and a child whose paths meet at the
byte where the suffix was cut, and changes no entry (`SplitKeeps`). The tables only
grow elsewhere (`TablesGrown`), and a node that was empty has nothing below it
(`LeafSet`). So `PutBelow` changes no entry, and `PutEmpty` and `PutHere` change
the one of their key. That ForEach shows just the entries of the tree, each once and in
order (`ForEachIs`), is an induction from long names to short ones, over the
concatenation of what the children show (`FlattenIs`). That Get answers
right (`GetGives`) is an induction along the path: it stays at places, and where a key is
in the tree every node of the path matches and has the next byte in its table
(`OnPath`), so neither the early returns nor the panic happen. A key that is not in the
tree panics just where it goes on with the byte behind a table (`JustBehind`). That is
said of all places of the tree at once and not of the path of Get; but of two places that
begin the key the upper one leads to the lower through its table (`PlacesOrdered`), so
the only one that can have the next byte of the key behind its table is the one where Get
ends (`BehindWhereItEnds`).

Induction is used as facts about sets of numbers (`SetInduction`, `LeastNat`,
`FiniteInduction`, `MeasureInduction`, `RecursionExists` in `Arithmetic`), since the
provers take no operator as an argument; with them, what a recursive function computes
can be proved as well. The loops of `Cells` and Get are functions that recurse on other
arguments than a predecessor: `RecursionExists` gives them for any recursion that a
measure in the numbers bounds, and `WideRecursionExists` for the visit of ForEach, which
uses the results of many arguments at once.

**Reed-Solomon.** `ReedSolomonProofs` is about any width of at least two bits and any
polynomial of that degree (`FieldAssumption`) modulo which 2 generates every element but 0
(`PrimitiveAssumption`). The comment at `rs.go:21` calls the code's polynomial the
characteristic polynomial of the field; that it is such a one TLC evaluates in `rs`: 1
doubled modulo 285, which is how exp goes on (`ExpSteps`), reaches every byte but 0.
It goes in five stages.

- Words: a number below a power of two is determined by its bits, `xor` adds bits without
  carry, and shifting is linear over it. So `product` is bilinear, and `remainder` is
  linear, keeps to elements, and does not see multiples of `Poly`.
- The field: reduction commutes with products, so `Times` is commutative, associative and
  distributive. As 2 generates the elements, `exp` runs through all of them once, `log`
  inverts it, and the tables of init multiply and invert as they should (`TablesCorrect`,
  for every width what `rs` evaluates for 3 bits).
- Polynomials (`Pol(n)`, those with n coefficients): they are closed under sums and
  multiples, and one of n coefficients with n roots is 0, since a root splits off a linear
  factor. So n values at n places determine one (`PolUnique`).
- Interpolation: a Lagrange factor is a polynomial that is 1 at its own abscissa and 0 at
  the others (`LagrangeLaws`), so that what `coded` computes for a byte position is the
  polynomial through the inputs (`CodeInterpolates`).
- The caller: `Coding`, the inductive invariant, says that inputs and outputs with the
  deferred updates added are on such polynomials, at every byte. `Update` adds to each
  output its Lagrange factor times the change, which is what recoding would do
  (`UpdateKeeps`). `ParityCurrent` follows, and by uniqueness `AnyShards`: any k rows
  determine the polynomial, and so all others.

`Coders` are assumed to have inputs, all different: with none Code indexes a row that is
not there, with equal ones the factors are 0 (see the findings).

**rsc.** `RscTypeOK` and `OutputIsCode` are proved for any field, any block size, any
numbers of files of any contents, and a failure of any call. `OutputIsCode` is not
inductive: it does not know where in the inputs main is. `Contents` adds, for each place of
main, how many bytes of each input have been read and how many of each output written:
at `read` as many of all (`AtRead`), at `write` a block more of those before `next`
(`AtWrite`). A block that is read when no read was short is, padded, the next columns of
the padded inputs, also where some inputs ended within it and others long before
(`BlockIsNext`), and columns are coded one by one. What the property compares with, the
coefficients of `Wanted`, exists and is unique by the theorems above (`WantedIsCoded`).

Only model-checked: all liveness (`CallReturns` of `Strider` and `Set63`,
`CoverReturns`, `AlwaysExits`, `DumpsWhatWasSent`), which the prover does not reach, and
everything about `Gobdump`, which has a RECURSIVE operator.
`LoopAdvances` is proved only: with `CallReturns` a run of its own would show nothing
more.

## Findings

Disagreements between the code and its own comments, each shown by a run:

- `file_lone`: FillRecord overwrites the start of the next record when a file has one
  record variable and its size is not a multiple of four, since the slab of a single
  record variable is not padded and its fill is (`file.go:108` against `file.go:99`).
- `set63_intersects`: Intersects panics for most disjoint sets; where it answers, it
  is right (`QueriesAnswer`).

Met while modelling. The properties above are stated so as to hold of the code as it
is, and say where they stop short because of one of these.

In `cdf`: a reader of a record variable without an end stops with io.EOF after its
first transfer, as `strider.go:160` lacks the guard of line 193 (`ShortOnlyAtEnd` lets
it); after io.EOF at the end of a record that other variables follow, the next call
panics (`strider.go:145`, against `reader_test.go:157`; `PanicOnlyPastStripe` says
exactly when); a begin corner inside a record makes a strider of a record variable
run into its neighbour (`strider.go:97`; the runs keep to corners at the begin of a
record); a length of 2^32 passes the checks of
NewHeader and becomes a second record dimension (`header.go:494` against 459); Define
of a header without variables panics in dataStart (`header.go:756` against the
comment at 770); a short Read reports elements it did not
store, as binary.Read decodes nothing unless it gets every byte (`strider.go:203`
against 32); a string given to Write is always refused by encoding/binary
(`strider.go:257` against 46); an end equal to Lengths(v) is one element too far,
though line 53 calls it the default; a last record without its trailing padding is
not counted (`header.go:845` against 832); Check lets a dimension index equal to the
number of dimensions through and then indexes with it (`header.go:684`).

In `container`: Get panics for a missing key that goes on with the byte just behind a
child table, on an empty trie already for the byte 0, where the comment at `trie.go:90`
promises nil (`trie.go:102`; `GetAnswers` says for which keys exactly). Cover
shaves more than the comment at `cover.go:166-168` says, since the heap's length counts
entries of removed nodes: {0, 2, 4, 5} with maxSize 2 becomes [0, 8), where
{[0, 4), [4, 6)} would do. It also blows up a leaf with no gain to its sibling's cost
when the sibling is an inner node: {0, 1, 2, 3, 4, 6} with maxSize 3 becomes [0, 8).
A minGrain of 2^63 or more overflows `minGrain*2` (`cover.go:39`) and does not give the
unit set of the comment at line 141; the run keeps to smaller ones.

In `encoding/rs` and `rsc`: with 256 inputs `uint8(len(p.interp))` is 0 and Update
refuses every index (`rs.go:182`; `ParityCurrent` excludes that coder). Two equal input
abscissae silently lose an input, as inv[0] is 0 (`OutputIsCode` asks for distinct
ones), and `-i 0,256` names two equal ones, since a flag is cut to a byte
(`rsc.go:114`). A read that returns less than it could shifts the rest of that file
against the others (`rsc.go:172`), so `rsc` is right on regular files and not on pipes:
`OutputIsCode` holds until the first such read. The exit at `rsc.go:202` cannot be
reached with os.File, which reports io.EOF only without bytes. An output that names an
input's file is truncated before that is read (150-153); the model keeps files apart.

In `gobdump`: a record that is cut off inside a value, or where its definition holds
only what is skipped, is accepted without a word, as the error of Drain is ignored
(`main.go:522`). A type of a kind it does not know is skipped by taking its contents
for field numbers (line 341): that stays inside the record thanks to Drain, but a byte
of 0x80 or more in its name is taken for the length of a number and can end the program.
A type that refers to a missing id panics inside String, which fmt prints in place
of the line.

## Not modelled

In `cdf`: the accessors of the header and its textual form; the decoding of
malformed headers and I/O errors inside ReadHeader; the values of elements, fills
and attributes; `Zero`; storages used concurrently, which `file.go` excludes;
`readNumRecs`, which nothing calls; a Create whose write of the header fails
(`file.go:66-68`); a count of records of which only some of the four bytes are written
(`numrecs.go:41-43`: it is written whole or not at all); the error kind of Check for an
invalid dimension, which no header of the model has. In `container`: printing, `shape` of
a trie, a ForEach whose callback stops it, the panic of NewSet63 on negative elements and
its sorting of the caller's slice in place, a program that changes a Set63's cells by
hand. In `cmd/rsc`: the usage text, flags that are not numbers, and one file named
twice. In `cmd/gobdump`: the wording of its lines, the flag -x, and streams that no
encoder sends. `geo/wgs84` computes geodesics and map projections: floating point
series and a Newton iteration without state, which neither TLC nor TLAPS can evaluate.

## Plan

Every part but `geo/wgs84` is modelled, and every safety property but the refinement of
`TypeTable` by `Gobdump` is proved. What would come next is `Fields` of `Gobdump` as a
recursive function, so that this can be proved as well: that decoding undoes encoding.
