------------------------------- MODULE CdfFile -------------------------------
(***************************************************************************)
(* The data section of one CDF file (cdf/file.go, strider.go, numrecs.go): *)
(* several striders, fills and record counts at work on one storage, their *)
(* ReadAt and WriteAt calls interleaved in any order but never concurrent  *)
(* with each other, as file.go asks of the storage.  The header is defined *)
(* and shared; the storage is modelled byte by byte, each byte known by    *)
(* who wrote it.  Strider follows the values a call returns; here it is    *)
(* the bytes that matter.                                                  *)
(***************************************************************************)
EXTENDS CdfLayout, StriderOps

CONSTANTS
  Header,      \* a header as Define leaves it
  Handles,     \* the striders: readers and writers of the file
  Corners,     \* the [v, b, e] given to Reader and Writer: variable, begin, end
  Counts,      \* the lengths of the slices given to Read and Write
  Records,     \* bound: records that are written, filled and followed by the properties
  CountLimit,  \* 2^31 in the code: first record count that is not stored
  MaxMoved,    \* bound: bytes one strider moves
  MaxOthers,   \* bound: calls that are not a strider's: fills, record counts, Create
  Nobody       \* the writer of a byte that was never written

\* What Define leaves behind: CdfHeader never has another header once it is frozen.
ASSUME HeaderAssumption ==
  /\ Header \in Headers(STRING, STRING, STRING) /\ Header.version \in {1, 2}
  /\ Header.vars # <<>> /\ Check(Header) = {}
  /\ DimsExist(Header) /\ StridesFixed(Header)
  /\ SetOffsets(Header, DataStart(Header)) = Header

\* b is an index vector of v, in one of the records followed.
IsIndex(v, b) ==
  /\ b \in Seq(Nat) /\ Len(b) = Len(v.lengths)
  /\ \A k \in DOMAIN b : b[k] < (IF v.lengths[k] = 0 THEN Records ELSE v.lengths[k])

\* Corners lie in their variable, and the end corner not before the begin corner.
ASSUME CornersAssumption ==
  \A c \in Corners :
    /\ c.v \in DOMAIN Header.vars
    /\ \A b \in {c.b, c.e} \ {Nil} : IsIndex(Header.vars[c.v], b)
    /\ LET g == StriderOf(Header.vars[c.v], c.b, c.e) IN g.end = 0 \/ g.begin < g.end

\* Who wrote a byte is a handle, or the filling of a record.
Filling(i, r) == <<"fill", i, r>>

ASSUME CdfFileAssumption ==
  /\ Counts \subseteq Nat \ {0} /\ Records \in Nat \ {0} /\ CountLimit \in Nat
  /\ MaxMoved \in Nat /\ MaxOthers \in Nat
  /\ Nobody \notin Handles
  /\ \A i \in DOMAIN Header.vars : \A r \in 0..Records-1 : Filling(i, r) \notin Handles \cup {Nobody}

Streaming == -1

VARIABLES
  store,     \* the bytes written after the header: offset |-> who wrote it
  st,        \* the striders
  seen,      \* seen[hd]: what the last ReadAt of hd returned
  ranges,    \* what the fill under way has yet to write of each variable
  others,    \* the number of such calls so far
  stat,      \* the file size UpdateNumRecs has read, -1 when none is under way
  numrecs    \* the record count in the file's header

vars == <<store, st, seen, ranges, others, stat, numrecs>>

\* Constants of the layout.
Vs        == Header.vars
Var(i)    == Vs[i]
Sizes     == [i \in DOMAIN Vs |-> VSize(Vs[i])]
SlabSize  == Slabs(Header).size
DataBegin == HeaderSize(Header)
RecordsOf == [i \in DOMAIN Vs |-> IF IsRecord(Vs[i]) THEN Records ELSE 1]
Bytes     == [i \in DOMAIN Vs |-> 0..Sizes[i] * RecordsOf[i] - 1]

\* Where byte k of variable i is stored.
Place == [i \in DOMAIN Vs |-> [k \in Bytes[i] |->
            ByteOffset(Vs[i], k \div Sizes[i], k % Sizes[i])]]

FileSize == Max({DataBegin} \cup {o + 1 : o \in DOMAIN store})
ByteAt(o) == IF o \in DOMAIN store THEN store[o] ELSE Nobody

\* WriteAt of n bytes at offset o by who.
Written(o, n, who) ==
  [x \in DOMAIN store \cup (o..o+n-1) |-> IF x \in o..o+n-1 THEN who ELSE store[x]]

Closed == [v |-> 0, geo |-> <<>>, op |-> "closed", curr |-> 0, left |-> 0, se |-> 0,
           start |-> 0, moved |-> 0]

Init ==
  /\ store = <<>>
  /\ st = [hd \in Handles |-> Closed]
  /\ seen = [hd \in Handles |-> <<>>]
  /\ ranges = {} /\ others = 0
  /\ stat = -1 /\ numrecs = Streaming

Another == others < MaxOthers /\ others' = others + 1

-----------------------------------------------------------------------------
(* Striders.                                                               *)

\* The number of the byte of v at index vector b, counted row by row.
CornerByte(v, b) ==
  LET element[i \in 0..Len(b)] ==
        IF i = 0 THEN 0 ELSE element[i - 1] * v.lengths[i] + b[i]
  IN  StorageSize[v.dtype] * element[Len(b)]

\* Reader or Writer.  Bound: a handle is opened once.
OpenStrider(hd) ==
  /\ st[hd].op = "closed"
  /\ \E c \in Corners :
       LET g == StriderOf(Var(c.v), c.b, c.e) IN
       st' = [st EXCEPT ![hd] = [Closed EXCEPT !.v = c.v, !.geo = g, !.op = "idle",
                                   !.curr = g.begin, !.start = CornerByte(Var(c.v), c.b)]]
  /\ UNCHANGED <<store, seen, ranges, others, stat, numrecs>>

\* Read or Write of n elements.  Bounds: MaxMoved, and the records followed.
Call(hd, op, n) ==
  LET s == st[hd]  bytes == n * s.geo.elemsz IN
  /\ s.op = "idle" /\ s.moved + bytes <= MaxMoved
  /\ IsRecord(Var(s.v)) => s.start + s.moved + bytes <= Sizes[s.v] * Records
  /\ st' = [st EXCEPT ![hd] = [s EXCEPT !.op = op, !.left = bytes,
                                 !.se = StripeEnd(s.geo, s.curr)]]
  /\ UNCHANGED <<store, seen, ranges, others, stat, numrecs>>

\* The strider after an iteration of its loop; between calls left and se are not kept.
Iterated(s, nr, e) ==
  LET c == Advance(s.geo, s.curr, s.se, nr)
      more == LoopError(s.geo, s.op, c, e) = "nil" /\ s.left > nr
  IN  [s EXCEPT !.curr = c, !.moved = @ + nr, !.op = IF more THEN @ ELSE "idle",
                !.left = IF more THEN s.left - nr ELSE 0,
                !.se = IF more THEN NextEnd(s.geo, s.curr, s.se, nr) ELSE 0]

Nn(s) == Chunk(s.geo, s.curr, s.se, s.left)

ReadChunk(hd) ==
  LET s == st[hd] IN
  /\ s.op = "read"
  /\ \E nr \in 0..Nn(s), e \in {"nil", "EOF", "io"} :
       /\ ReadAt(Nn(s), nr, e, Available(s.curr, FileSize))
       /\ st' = [st EXCEPT ![hd] = Iterated(s, nr, e)]
       /\ seen' = [seen EXCEPT ![hd] = IF nr > 0 THEN [i \in 1..nr |-> ByteAt(s.curr + i - 1)] ELSE @]
  /\ UNCHANGED <<store, ranges, others, stat, numrecs>>

WriteChunk(hd) ==
  LET s == st[hd] IN
  /\ s.op = "write"
  /\ \E nr \in 0..Nn(s), e \in {"nil", "io"} :
       /\ WriteAt(Nn(s), nr, e)
       /\ st' = [st EXCEPT ![hd] = Iterated(s, nr, e)]
       /\ store' = Written(s.curr, nr, hd)
  /\ UNCHANGED <<seen, ranges, others, stat, numrecs>>

\* The slice bound is negative: the call ends in a panic.
Panic(hd) ==
  /\ st[hd].op \in {"read", "write"} /\ Nn(st[hd]) < 0
  /\ st' = [st EXCEPT ![hd] = [@ EXCEPT !.op = "idle", !.left = 0, !.se = 0]]
  /\ UNCHANGED <<store, seen, ranges, others, stat, numrecs>>

-----------------------------------------------------------------------------
(* Fills.                                                                  *)

\* Mutant: records a variable apart instead of a slab.
FillRangeOfVariable(i, r) ==
  LET begin == ByteOffset(Var(i), 0, 0) + r * VSize(Var(i))
  IN  [v |-> i, r |-> r, begin |-> begin, end |-> begin + Pad4(VSize(Var(i)))]

\* The range filled for record r of variable i, padding included.
FillRange(i, r) ==
  LET begin == ByteOffset(Var(i), 0, 0) + r * SlabSize
  IN  [v |-> i, r |-> r, begin |-> begin, end |-> begin + Pad4(Sizes[i])]

StartFill(rs) ==
  /\ ranges = {} /\ ranges' = rs /\ Another
  /\ UNCHANGED <<store, st, seen, stat, numrecs>>

Fill(i) == ~IsRecord(Var(i)) /\ StartFill({FillRange(i, 0)})

FillRecord(r) ==
  LET recs == {i \in DOMAIN Vs : IsRecord(Var(i))}
  IN  recs # {} /\ StartFill({FillRange(i, r) : i \in recs})

\* The range filled now: the variables take their turns in the order of the header.
Current(rs) == CHOOSE q \in rs : \A p \in rs : q.v <= p.v

\* Mutant: a range is left one element late.
RangesAfterLate(rs, q, es) ==
  (rs \ {q}) \cup (IF q.begin + es <= q.end THEN {[q EXCEPT !.begin = @ + es]} ELSE {})

\* What is left to fill after an element of es bytes of range q.
RangesAfter(rs, q, es) ==
  (rs \ {q}) \cup (IF q.begin + es < q.end THEN {[q EXCEPT !.begin = @ + es]} ELSE {})

\* One WriteAt of one fill value.  An error ends the whole fill where it stands.
FillStep ==
  /\ ranges # {}
  /\ LET q  == Current(ranges)
         es == StorageSize[Var(q.v).dtype]
         by == Filling(q.v, q.r)
     IN  \/ /\ store' = Written(q.begin, es, by)
            /\ ranges' = RangesAfter(ranges, q, es)
         \/ /\ \E nr \in 0..es-1 : store' = Written(q.begin, nr, by)
            /\ ranges' = {}
  /\ UNCHANGED <<st, seen, others, stat, numrecs>>

-----------------------------------------------------------------------------
(* The record count in the header.                                         *)

\* UpdateNumRecs reads the size of the file, then parses the whole header ...
Stat ==
  /\ stat = -1 /\ stat' = FileSize /\ Another
  /\ UNCHANGED <<store, st, seen, ranges, numrecs>>

\* ... and writes the count, or gives up on an error of the storage.
WriteNumRecs ==
  /\ stat # -1 /\ stat' = -1
  /\ LET n == NumRecs(Header, stat)
     IN  numrecs' \in {numrecs, IF n >= CountLimit \/ n < 0 THEN Streaming ELSE n}
  /\ UNCHANGED <<store, st, seen, ranges, others>>

\* Another Create on the same storage writes the header again.
Create ==
  /\ numrecs' = Streaming /\ Another
  /\ UNCHANGED <<store, st, seen, ranges, stat>>

Next ==
  \/ \E hd \in Handles :
       \/ OpenStrider(hd) \/ ReadChunk(hd) \/ WriteChunk(hd) \/ Panic(hd)
       \/ \E op \in {"read", "write"}, n \in Counts : Call(hd, op, n)
  \/ \E i \in DOMAIN Vs : Fill(i)
  \/ \E r \in 0..Records-1 : FillRecord(r)
  \/ FillStep \/ Stat \/ WriteNumRecs \/ Create

Spec == Init /\ [][Next]_vars

-----------------------------------------------------------------------------
(* What the file is for its users: VarStore.                               *)

arrBar == [i \in DOMAIN Vs |-> [k \in Bytes[i] |-> ByteAt(Place[i][k])]]
atBar  == [hd \in Handles |-> IF st[hd].op = "closed" THEN <<>>
                              ELSE <<st[hd].v, st[hd].start + st[hd].moved>>]

VS == INSTANCE VarStore WITH
        RecordSize <- Sizes, Records <- RecordsOf, arr <- arrBar, at <- atBar

\* Through any interleaving of striders, fills, short and failing transfers,
\* every variable is an array of its own: a strider moves through its variable
\* byte by byte, writes reach no other variable, reads return what was last
\* written there, and a fill stays within one record (file.go, strider.go).
ActsAsVarStore == VS!Spec

-----------------------------------------------------------------------------
(* Two conditions on a file.                                               *)

\* Begin corners of record variables are the first element of a record: striders
\* that begin elsewhere leave their variable (InnerCornerLeaves of MCCdfFile).
CornersAligned ==
  \A c \in Corners : IsRecord(Var(c.v)) => \A k \in DOMAIN c.b : k > 1 => c.b[k] = 0

\* A record and its padding fit a slab: so it is unless there is a single record
\* variable, of a size that is not a multiple of four, and then fills leave their
\* record (MCCdfFileLone).
SlabsPadded == \A i \in DOMAIN Vs : IsRecord(Var(i)) => Pad4(Sizes[i]) <= SlabSize

-----------------------------------------------------------------------------
\* The type invariant: handles know their variable, a fill has somewhere to go.
TypeOK ==
  /\ DOMAIN store \subseteq Nat
  /\ \A hd \in Handles :
       /\ st[hd].op \in {"closed", "idle", "read", "write"}
       /\ st[hd].op # "closed" => st[hd].v \in DOMAIN Vs
       /\ st[hd].op \in {"read", "write"} => st[hd].left > 0
  /\ \A q \in ranges : q.begin < q.end
  /\ stat \in Nat \cup {-1} /\ numrecs \in {Streaming} \cup (0..CountLimit-1)

\* A strider never writes a byte that is not its variable's: neither another
\* variable's, nor padding, nor the header (strider.go, the stripe arithmetic on
\* the offsets of header.go).
OwnBytes ==
  \A o \in DOMAIN store : \A hd \in Handles :
    store[o] = hd => \E k \in Bytes[st[hd].v] : Place[st[hd].v][k] = o

\* FillRecord(r) overwrites the data of record r (file.go:99) and Fill that of
\* one variable: no byte of another record or variable ever holds their values.
FillOwnRecord ==
  \A i \in DOMAIN Vs : \A k \in Bytes[i] :
    \A w \in DOMAIN Vs : \A r \in 0..Records-1 :
      ByteAt(Place[i][k]) = Filling(w, r) => w = i /\ r = k \div Sizes[i]

\* The count UpdateNumRecs leaves in the header, however stale the size it read,
\* only counts records that lie within the file in all their record variables
\* ("any incomplete trailing record will not be included", numrecs.go:49).
CountedRecordsExist ==
  \A i \in DOMAIN Vs : IsRecord(Var(i)) =>
    \A r \in 0..numrecs-1 : \A b \in 0..Sizes[i]-1 : ByteOffset(Var(i), r, b) < FileSize

\* A record whose bytes have all been written, after records of which the same is
\* true, counts ("the real number of records", header.go:832) unless it is the last
\* in the file and its slab still lacks the padding at its end.
WrittenRecordsCount ==
  SlabSize > 0 =>
    \A n \in 1..Records :
      (\A i \in DOMAIN Vs : IsRecord(Var(i)) =>
         \A k \in 0..n*Sizes[i]-1 : ByteAt(Place[i][k]) # Nobody)
      => LET end == Slabs(Header).offs + n * SlabSize
         IN  NumRecs(Header, FileSize) >= (IF FileSize < end THEN n - 1 ELSE n)
=============================================================================
