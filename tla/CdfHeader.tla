------------------------------ MODULE CdfHeader ------------------------------
(***************************************************************************)
(* The life of a CDF header (cdf/header.go, read.go, write.go, file.go):   *)
(* NewHeader makes a mutable one, AddVariable and AddAttribute grow it,    *)
(* Define lays out the file and freezes it, Create writes it to a storage  *)
(* and Open reads one back.  A call that panics is taken to be recovered   *)
(* by its caller, so the model goes on with what the code left behind.     *)
(***************************************************************************)
EXTENDS CdfLayout

CONSTANTS
  DimNames,     \* the names of dimensions
  DimLists,     \* the (names, lengths) arguments given to NewHeader
  VarNames,     \* the variable names given to AddVariable
  VarDims,      \* the dimension name lists given to AddVariable
  Types,        \* the data types of the values given to AddVariable, "none" for an invalid one
  AttTypes,     \* the same for AddAttribute
  AttNames,     \* the attribute names given to AddAttribute
  AttLens,      \* the numbers of elements of an attribute value
  MaxVars,      \* bound: variables in a header
  MaxAtts       \* bound: attributes of one owner

ASSUME CdfHeaderAssumption ==
  /\ MaxVars \in Nat /\ MaxAtts \in Nat /\ AttLens \subseteq Nat
  /\ Types \cup AttTypes \subseteq DOMAIN StorageSize \cup {"none"}
  /\ DimLists \subseteq Seq([name : DimNames, length : Int])
  /\ VarDims \subseteq Seq(DimNames)

\* The lengths given to NewHeader fit the int32 in which the header keeps them.
LengthsFit == \A l \in DimLists : \A i \in DOMAIN l : l[i].length < OffsetLimit

NoHeader == [version |-> -1, dim |-> <<>>, att |-> <<>>, vars |-> <<>>]
NoImage  == NoHeader

VARIABLES
  h,        \* the header in memory, NoHeader before the first NewHeader
  img,      \* the header written to the storage, NoImage before the first Create
  outcome   \* the last call and how it ended: "ok", "panic"

vars == <<h, img, outcome>>

Init == h = NoHeader /\ img = NoImage /\ outcome = <<"none", "ok">>

Mutable == h.version = 0

Positions(s, name) == {i \in DOMAIN s : s[i].name = name}

-----------------------------------------------------------------------------
(* NewHeader: the checks see the int lengths, the header keeps int32 ones. *)

DimsValid(l) ==
  /\ \A i \in DOMAIN l : l[i].length >= 0
  /\ Cardinality({i \in DOMAIN l : l[i].length = 0}) <= 1
  /\ ~Repeated(l)

MakeHeader(l) ==
  [version |-> 0, dim |-> [i \in DOMAIN l |-> [l[i] EXCEPT !.length = ToInt32(@)]],
   att |-> <<>>, vars |-> <<>>]

\* Bound: a behaviour follows one header, so its storage holds no other one's image.
NewHeader ==
  /\ h = NoHeader
  /\ \E l \in DimLists :
       IF DimsValid(l) THEN h' = MakeHeader(l) /\ outcome' = <<"NewHeader", "ok">>
                       ELSE UNCHANGED h /\ outcome' = <<"NewHeader", "panic">>
  /\ UNCHANGED img

-----------------------------------------------------------------------------
(* AddVariable and AddAttribute.                                           *)

\* The owner named by AddAttribute for the attributes of the header itself.
Global == ""

\* The conditions under which AddVariable does not panic.
VariableAccepted(v, dims, t) ==
  /\ Mutable
  /\ Positions(h.vars, v) = {}
  /\ t # "none"
  /\ \A i \in DOMAIN dims :
       /\ Positions(h.dim, dims[i]) # {}
       /\ h.dim[Min(Positions(h.dim, dims[i]))].length = 0 => i = 1

\* Mutant: the computed fields are not set.
NewVariableUncomputed(v, dims, t) ==
  [name |-> v, dim |-> [i \in DOMAIN dims |-> Min(Positions(h.dim, dims[i]))], att |-> <<>>,
   dtype |-> t, vsize |-> 0, begin |-> 0, lengths |-> <<>>, strides |-> <<>>]

NewVariable(v, dims, t) ==
  SetComputed([name |-> v, dim |-> [i \in DOMAIN dims |-> Min(Positions(h.dim, dims[i]))],
               att |-> <<>>, dtype |-> t, vsize |-> 0, begin |-> 0,
               lengths |-> <<>>, strides |-> <<>>], h.dim)

AddVariable ==
  /\ h # NoHeader /\ Len(h.vars) < MaxVars
  /\ \E v \in VarNames, dims \in VarDims, t \in Types :
       IF VariableAccepted(v, dims, t)
       THEN /\ h' = [h EXCEPT !.vars = Append(@, NewVariable(v, dims, t))]
            /\ outcome' = <<"AddVariable", "ok">>
       ELSE UNCHANGED h /\ outcome' = <<"AddVariable", "panic">>
  /\ UNCHANGED img

\* Mutant: a frozen header takes attributes.
AttributeAcceptedFrozen(owner, a, t) ==
  /\ owner # Global => Positions(h.vars, owner) # {}
  /\ Positions(IF owner = Global THEN h.att ELSE h.vars[Min(Positions(h.vars, owner))].att, a) = {}
  /\ t # "none"

\* An owner is a variable name, or Global.
AttributeAccepted(owner, a, t) ==
  /\ Mutable
  /\ owner # Global => Positions(h.vars, owner) # {}
  /\ Positions(IF owner = Global THEN h.att ELSE h.vars[Min(Positions(h.vars, owner))].att, a) = {}
  /\ t # "none"

AddAttribute ==
  /\ h # NoHeader /\ UNCHANGED img
  /\ \E owner \in VarNames \cup {Global}, a \in AttNames, t \in AttTypes, n \in AttLens :
       LET new == [name |-> a, dtype |-> t, n |-> n]
           i   == Min(Positions(h.vars, owner))
       IN  IF ~AttributeAccepted(owner, a, t)
           THEN UNCHANGED h /\ outcome' = <<"AddAttribute", "panic">>
           ELSE /\ outcome' = <<"AddAttribute", "ok">>
                /\ \/ owner = Global /\ Len(h.att) < MaxAtts /\ h' = [h EXCEPT !.att = Append(@, new)]
                   \/ /\ owner # Global /\ Len(h.vars[i].att) < MaxAtts
                      /\ h' = [h EXCEPT !.vars[i].att = Append(@, new)]

-----------------------------------------------------------------------------
(* Define, Create and Open.                                                *)

\* Without variables dataStart indexes past the end, after the version was set.
Define ==
  /\ h # NoHeader /\ UNCHANGED img
  /\ \/ Mutable /\ h.vars # <<>> /\ h' = Defined(h) /\ outcome' = <<"Define", "ok">>
     \/ /\ Mutable /\ h.vars = <<>>
        /\ h' = [h EXCEPT !.version = 2] /\ outcome' = <<"Define", "panic">>
     \/ ~Mutable /\ UNCHANGED h /\ outcome' = <<"Define", "refused">>

Create ==
  /\ h # NoHeader /\ UNCHANGED h
  /\ IF Mutable THEN UNCHANGED img /\ outcome' = <<"Create", "panic">>
                ELSE img' = WriteHeader(h) /\ outcome' = <<"Create", "ok">>

\* The header read back replaces the one in memory.
Open ==
  /\ img # NoImage /\ h' = ReadHeader(img) /\ UNCHANGED img
  /\ outcome' = <<"Open", "ok">>

Next == NewHeader \/ AddVariable \/ AddAttribute \/ Define \/ Create \/ Open

Spec == Init /\ [][Next]_vars

-----------------------------------------------------------------------------
HeaderOK(x) ==
  /\ x.version \in 0..2
  /\ \A i \in DOMAIN x.dim : x.dim[i].length \in Int
  /\ \A i \in DOMAIN x.vars :
       /\ Len(x.vars[i].strides) = Len(x.vars[i].dim) + 1
       /\ Len(x.vars[i].lengths) = Len(x.vars[i].dim)
       /\ x.vars[i].begin \in Nat /\ x.vars[i].dtype \in DOMAIN StorageSize

\* The type invariant: h is a header, img is one without the computed fields.
TypeOK ==
  /\ h = NoHeader \/ HeaderOK(h)
  /\ img.version \in {-1, 1, 2} /\ Len(img.vars) <= MaxVars
  /\ outcome[2] \in {"ok", "panic", "refused"}

\* Every header that Define produced, and every one read back, passes the
\* package's own integrity check (header.go Check against Define, AddVariable,
\* AddAttribute and ReadHeader).
DefinedPassesCheck == h.version > 0 => Check(h) = {}

\* The records 0..2 of every variable of a frozen header occupy bytes of
\* their own, beyond the header: no two (variable, record) share a byte, whatever
\* the mix of record and other variables (fixRecordStrides with setOffsets).
Footprint(v, r) == {ByteOffset(v, r, b) : b \in 0..VSize(v)-1}
Places == {p \in (DOMAIN h.vars) \X (0..2) : IsRecord(h.vars[p[1]]) \/ p[2] = 0}
NoOverlap ==
  h.version > 0 =>
    \A p \in Places :
      /\ \A a \in Footprint(h.vars[p[1]], p[2]) : a >= HeaderSize(h)
      /\ \A q \in Places \ {p} :
           Footprint(h.vars[p[1]], p[2]) \cap Footprint(h.vars[q[1]], q[2]) = {}

\* A header survives being written and read: while the storage holds the
\* image of the header in memory, decoding it gives that header, offsets and
\* record strides included, although the offsets of a V1 file are cut to 32 bits.
RoundTrip == img = WriteHeader(h) /\ h # NoHeader => ReadHeader(img) = h

\* A frozen header never changes again, whichever calls follow: the Files that
\* share it (Create and Open in file.go hand out *Header) keep seeing the layout
\* their data was written with, and reopening the storage gives that layout too.
FrozenStays == [][h.version > 0 => h' = h]_vars

=============================================================================
