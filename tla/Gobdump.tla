------------------------------- MODULE Gobdump -------------------------------
(***************************************************************************)
(* The command cmd/gobdump/main.go.  Its input is a stream of records, each*)
(* an unsigned length, a signed type id and, where the id is negative, the *)
(* definition of that type.  The program decodes the definitions, skips the*)
(* values, and at the end of the input prints the types it has learned.    *)
(*                                                                         *)
(* A byte has Base values (256 in the code) and an integer up to IntBytes  *)
(* bytes (8).  A pointer is <<>> or <<what it points to>>.  The records are*)
(* those an encoder sends; the input may end anywhere.                     *)
(***************************************************************************)
EXTENDS Integers, Sequences, FiniteSets, SequencesExt

CONSTANTS
  Base, IntBytes,
  IdBits,          \* a typeId has 32 bits
  Streams          \* the inputs: sequences of records

ASSUME GobAssumption ==
  Base \in {n \in Nat : n > 1 /\ n % 2 = 0} /\ IntBytes \in Nat \ {0} /\ IdBits \in Nat \ {0}

VARIABLES
  sent,         \* history: the records in the input, and where each ends
  input,        \* their bytes
  at,           \* the position of the next byte
  descriptors,  \* the types learned, by id
  status,       \* "reading", "eof", "dumped" or, after log.Fatal, "fatal"
  printed       \* the lines printed, by id

vars == <<sent, input, at, descriptors, status, printed>>

-----------------------------------------------------------------------------
(* What an encoder writes: encoding/gob.                                   *)

EncUint(x) ==
  LET digits[n \in Nat] == IF n = 0 THEN <<>> ELSE Append(digits[n \div Base], n % Base)
  IN  IF x < Base \div 2 THEN <<x>> ELSE <<Base - Len(digits[x])>> \o digits[x]

EncInt(i) == EncUint(IF i < 0 THEN 2 * (-i - 1) + 1 ELSE 2 * i)

\* A struct: its fields, but for those that are zero, each after the distance from the
\* one before, and a zero.
EncFields(fields) ==
  LET set == SelectSeq([i \in DOMAIN fields |-> i], LAMBDA i : fields[i] # <<>>)
  IN  FlattenSeq([j \in DOMAIN set |->
        EncUint(set[j] - (IF j = 1 THEN 0 ELSE set[j - 1])) \o fields[set[j]]]) \o <<0>>

EncId(id)    == IF id = 0 THEN <<>> ELSE EncInt(id)
EncCommon(t) == EncFields(<<IF t.Name = <<>> THEN <<>> ELSE EncUint(Len(t.Name)) \o t.Name, EncId(t.Id)>>)

\* A wireType; other stands for the kinds gobdump does not know.
EncWire(t) ==
  LET Of(p, Fields(_)) == IF p = <<>> THEN <<>> ELSE EncFields(<<EncCommon(p[1])>> \o Fields(p[1]))
  IN  EncFields(<< Of(t.ArrayT, LAMBDA a : <<EncId(a.Elem), EncId(a.Len)>>),
                   Of(t.SliceT, LAMBDA a : <<EncId(a.Elem)>>),
                   Of(t.StructT, LAMBDA a : <<IF a.Field = <<>> THEN <<>> ELSE
                        EncUint(Len(a.Field))
                          \o FlattenSeq([i \in DOMAIN a.Field |-> EncCommon(a.Field[i])])>>),
                   Of(t.MapT, LAMBDA a : <<EncId(a.Key), EncId(a.Elem)>>),
                   Of(t.other, LAMBDA a : <<>>) >>)

\* A record: a definition, or a value with its bytes.
Encode(rec) ==
  LET body == EncInt(rec.id) \o (IF rec.id < 0 THEN EncWire(rec.def) ELSE rec.value)
  IN  EncUint(Len(body)) \o body

-----------------------------------------------------------------------------
(* Reading.  A reader is a position and, but for the one on the whole      *)
(* input, the number of bytes left in the record; what a read returns has  *)
(* the reader after it, the value and the error.                           *)

NoLimit == -1
Result(r, v, err) == [r |-> r, v |-> v, err |-> err]

\* limitedByteReader.ReadByte, and ReadByte of the input itself.
ReadByte(r) ==
  LET lim == IF r.lim = NoLimit THEN NoLimit ELSE r.lim - 1
  IN  IF r.lim = 0 THEN Result(r, 0, "EOF")
      ELSE IF r.at > Len(input)
           THEN Result([r EXCEPT !.lim = lim], 0, IF lim = NoLimit THEN "EOF" ELSE "unexpected EOF")
      ELSE Result([at |-> r.at + 1, lim |-> lim], input[r.at], "")

\* n bytes, the digits of a number; the end of the input is never expected.
Digits(r, n) ==
  LET read[k \in 0..n] ==
        IF k = 0 THEN Result(r, 0, "")
        ELSE LET d == read[k - 1]
                 b == ReadByte(d.r)
             IN  IF d.err # "" THEN d
                 ELSE IF b.err # "" THEN Result(b.r, 0, "unexpected EOF")
                 ELSE Result(b.r, (d.v * Base + b.v) % Base^IntBytes, "")
  IN  read[n]

decodeUint(r) ==
  LET Number(b) == IF b.err # "" \/ b.v < Base \div 2 THEN b
                   ELSE IF Base - b.v > IntBytes THEN Result(b.r, 0, "out of range")
                   ELSE Digits(b.r, Base - b.v)
  IN  Number(ReadByte(r))

\* Mutant: the sign bit complements nothing.
decodeIntNegated(r) == [decodeUint(r) EXCEPT !.v = IF @ % 2 = 1 THEN -(@ \div 2) ELSE @ \div 2]

decodeInt(r) == [decodeUint(r) EXCEPT !.v = IF @ % 2 = 1 THEN -(@ \div 2) - 1 ELSE @ \div 2]

typeId(n) == ((n + 2^(IdBits - 1)) % 2^IdBits) - 2^(IdBits - 1)

decodeString(r) ==
  LET Byte(b, v) == Result(b.r, Append(v, b.v), b.err)
      Bytes(l) ==
        LET read[k \in 0..l.v] ==
              IF k = 0 \/ l.err # "" THEN Result(l.r, <<>>, l.err)
              ELSE LET d == read[k - 1] IN IF d.err # "" THEN d ELSE Byte(ReadByte(d.r), d.v)
        IN  read[l.v]
      Whole(d) == IF d.err # "" THEN [d EXCEPT !.v = <<>>] ELSE d
  IN  Whole(Bytes(decodeUint(r)))

\* The loop all decoders of a struct share: each field is told by its distance from the
\* last, a zero ends the struct, and an error between fields ends the program.
Fields(r, zero, Field(_, _, _)) ==
  LET RECURSIVE Turn(_, _, _)
      Then(x, f) == IF x.err # "" THEN x ELSE Turn(x.r, f, x.v)
      After(df, f, t) ==
        IF df.err # "" \/ df.v = 0 THEN Result(df.r, t, df.err)
        ELSE Then(Field(f + df.v, df.r, t), f + df.v)
      Turn(q, f, t) == After(decodeUint(q), f, t)
  IN  Turn(r, -1, zero)

\* A field of t that is set to what was read, whose own errors are passed over, and a
\* field that is not known, which is passed over without its bytes.
Kept(x, Set(_)) == Result(x.r, Set(x.v), "")
Unknown(r, t)   == Result(r, t, "")

\* A field that is set to what its decoder made of it.
Decoded(x, Set(_)) == Result(x.r, Set(x.v), x.err)

decodeCommonType(r) ==
  LET Field(f, q, t) ==
        CASE f = 0 -> Kept(decodeString(q), LAMBDA v : [t EXCEPT !.Name = v])
          [] f = 1 -> Kept(decodeInt(q), LAMBDA v : [t EXCEPT !.Id = typeId(v)])
          [] OTHER -> Unknown(q, t)
  IN  Fields(r, [Name |-> <<>>, Id |-> 0], Field)

\* The name and the id of t are those read from q.
Named(q, t) ==
  Decoded(decodeCommonType(q), LAMBDA c : [t EXCEPT !.Name = c.Name, !.Id = c.Id])

decodeArrayType(r) ==
  LET Field(f, q, t) ==
        CASE f = 0 -> Named(q, t)
          [] f = 1 -> Kept(decodeInt(q), LAMBDA v : [t EXCEPT !.Elem = typeId(v)])
          [] f = 2 -> Kept(decodeInt(q), LAMBDA v : [t EXCEPT !.Len = v])
          [] OTHER -> Unknown(q, t)
  IN  Fields(r, [Name |-> <<>>, Id |-> 0, Elem |-> 0, Len |-> 0], Field)

decodeSliceType(r) ==
  LET Field(f, q, t) ==
        CASE f = 0 -> Named(q, t)
          [] f = 1 -> Kept(decodeInt(q), LAMBDA v : [t EXCEPT !.Elem = typeId(v)])
          [] OTHER -> Unknown(q, t)
  IN  Fields(r, [Name |-> <<>>, Id |-> 0, Elem |-> 0], Field)

decodeMapType(r) ==
  LET Field(f, q, t) ==
        CASE f = 0 -> Named(q, t)
          [] f = 1 -> Kept(decodeInt(q), LAMBDA v : [t EXCEPT !.Key = typeId(v)])
          [] f = 2 -> Kept(decodeInt(q), LAMBDA v : [t EXCEPT !.Elem = typeId(v)])
          [] OTHER -> Unknown(q, t)
  IN  Fields(r, [Name |-> <<>>, Id |-> 0, Key |-> 0, Elem |-> 0], Field)

\* The field list is as long as it says.
decodeFieldList(r) ==
  LET List(fcnt) ==
        LET read[i \in 0..fcnt.v] ==
              IF i = 0 THEN Result(fcnt.r, <<>>, "")
              ELSE LET l == read[i - 1]
                   IN  IF l.err # "" THEN l
                       ELSE Decoded(decodeCommonType(l.r), LAMBDA c : Append(l.v, c))
        IN  read[fcnt.v]
  IN  List(decodeUint(r))

decodeStructType(r) ==
  LET Field(f, q, t) ==
        CASE f = 0 -> Named(q, t)
          [] f = 1 -> Decoded(decodeFieldList(q), LAMBDA v : [t EXCEPT !.Field = v])
          [] OTHER -> Unknown(q, t)
  IN  Fields(r, [Name |-> <<>>, Id |-> 0, Field |-> <<>>], Field)

NoWireType == [ArrayT |-> <<>>, SliceT |-> <<>>, StructT |-> <<>>, MapT |-> <<>>]

decodeWireType(r) ==
  LET Field(f, q, t) ==
        CASE f = 0 -> Decoded(decodeArrayType(q), LAMBDA v : [t EXCEPT !.ArrayT = <<v>>])
          [] f = 1 -> Decoded(decodeSliceType(q), LAMBDA v : [t EXCEPT !.SliceT = <<v>>])
          [] f = 2 -> Decoded(decodeStructType(q), LAMBDA v : [t EXCEPT !.StructT = <<v>>])
          [] f = 3 -> Decoded(decodeMapType(q), LAMBDA v : [t EXCEPT !.MapT = <<v>>])
          [] OTHER -> Unknown(q, t)
  IN  Fields(r, NoWireType, Field)

-----------------------------------------------------------------------------
(* main.                                                                   *)

\* The first cut bytes of the records are in the input; what is left of a record that is
\* cut off ends with them.
Init ==
  \E records \in Streams :
    LET parts == [i \in DOMAIN records |-> Encode(records[i])]
        all   == FlattenSeq(parts)
        past[i \in 0..Len(parts)] == IF i = 0 THEN 1 ELSE past[i - 1] + Len(parts[i])
    IN  \E cut \in 0..Len(all) :
          /\ input = SubSeq(all, 1, cut)
          /\ sent = [i \in {i \in DOMAIN parts : past[i - 1] <= cut} |->
                       [id |-> records[i].id, whole |-> past[i] <= cut + 1,
                        def |-> [kind \in DOMAIN NoWireType |-> records[i].def[kind]],
                        past |-> IF past[i] <= cut THEN past[i] ELSE cut + 1]]
          /\ at = 1 /\ descriptors = [id \in {} |-> NoWireType]
          /\ status = "reading" /\ printed = [id \in {} |-> <<>>]

\* The length of the next record.
Header == decodeUint([at |-> at, lim |-> NoLimit])

\* Mutant: the rest of the record is left in the input.
DrainNothing(r) == r.at

\* Drain: the rest of the record is skipped, as far as there is any.
Drain(r) == IF r.at + r.lim > Len(input) THEN Len(input) + 1 ELSE r.at + r.lim

\* A value, whose bytes are skipped.
Value(tp) == tp.v >= 0 /\ at' = Drain(tp.r) /\ UNCHANGED <<descriptors, status>>

\* A definition wt of the type with the id -id.
Define(id, wt) ==
  IF wt.err # "" THEN status' = "fatal" /\ UNCHANGED <<at, descriptors>>
  ELSE /\ descriptors' = (typeId(-id) :> wt.v) @@ descriptors
       /\ at' = Drain(wt.r) /\ UNCHANGED status

Record ==
  /\ status = "reading" /\ Header.err = ""
  /\ \E tp \in {decodeInt([at |-> Header.r.at, lim |-> Header.v])} :
       Value(tp) \/ (tp.v < 0 /\ Define(tp.v, decodeWireType(tp.r)))
  /\ UNCHANGED <<sent, input, printed>>

End ==
  /\ status = "reading" /\ Header.err # ""
  /\ status' = IF Header.err = "EOF" THEN "eof" ELSE "fatal"
  /\ UNCHANGED <<sent, input, at, descriptors, printed>>

\* The types the program knows from the start, and names for them that no input has.
Known      == 1..7 \cup 16..23
HasName(d, id)  == id \in Known \cup DOMAIN d

NameOf(d, id) ==
  LET t == d[id].ArrayT \o d[id].SliceT \o d[id].StructT \o d[id].MapT
  IN  IF id \notin DOMAIN d THEN <<Base + id>> ELSE IF t = <<>> THEN <<Base>> ELSE t[1].Name

\* The types that the line of t names.
Refs(t) ==
  IF t.ArrayT # <<>> THEN <<t.ArrayT[1].Elem>>
  ELSE IF t.SliceT # <<>> THEN <<t.SliceT[1].Elem>>
  ELSE IF t.StructT # <<>> THEN [i \in DOMAIN t.StructT[1].Field |-> t.StructT[1].Field[i].Id]
  ELSE IF t.MapT # <<>> THEN <<t.MapT[1].Key, t.MapT[1].Elem>> ELSE <<>>

\* The line of type id: its name and the names it is made of.  The name of a type that
\* is missing panics, which fmt turns into a line that says so.
Line(d, id) ==
  LET refs == Refs(d[id])
  IN  IF \E i \in DOMAIN refs : ~HasName(d, refs[i]) THEN <<>>
      ELSE <<NameOf(d, id)>> \o [i \in DOMAIN refs |-> NameOf(d, refs[i])]

Dump ==
  /\ status = "eof" /\ status' = "dumped"
  /\ printed' = [id \in {i \in DOMAIN descriptors : i > 32} |-> Line(descriptors, id)]
  /\ UNCHANGED <<sent, input, at, descriptors>>

\* The program has ended.
Exited == status \in {"fatal", "dumped"} /\ UNCHANGED vars

Next == Record \/ End \/ Dump \/ Exited

\* Nothing but the input makes the program wait, and it is there: it goes on until it
\* ends.  This says what WF_vars(Next) says as long as there is no deadlock, which is
\* checked; TLC takes too long over ENABLED of a whole decoder.
Spec == Init /\ [][Next]_vars /\ ([]<><<Next>>_vars \/ <>[](status \in {"fatal", "dumped"}))

-----------------------------------------------------------------------------
(* Properties.                                                             *)

\* The records not read yet.  Between two records the program is at the start of one;
\* anywhere else it would have them all before it again, which no table allows.
Unread ==
  IF at = 1 \/ \E i \in DOMAIN sent : sent[i].past = at
  THEN SelectSeq(sent, LAMBDA rec : rec.past > at) ELSE sent

Table == INSTANCE TypeTable WITH unread <- Unread, table <- descriptors

\* Record by record, the program learns the definitions that were sent and nothing
\* else, whatever the values, the kinds it does not know and a cut may hold: after each
\* record it is at the start of the next (lines 493-525).  The names of the unknown kinds
\* in Streams are ASCII: a larger byte is taken for the length of a number there.
ActsAsTypeTable == Table!Spec

\* The last definition of each id in recs.
TableOf(recs) ==
  FoldLeft(LAMBDA d, rec : IF rec.id < 0 THEN (-rec.id :> rec.def) @@ d ELSE d,
           [id \in {} |-> NoWireType], recs)

Dumps(d) == printed = [id \in {i \in DOMAIN d : i > 32} |-> Line(d, id)]

\* The program always ends.  Only an input that is cut off can kill it, and what it
\* prints at the end are the types defined, one line each, by the names of their parts
\* (lines 528-532), also for types defined after the type that refers to them.  The
\* definition that is cut off counts, or does not: what is skipped may be missing.
DumpsWhatWasSent ==
  LET Whole(rec) == rec.whole
      whole == SelectSeq(sent, Whole)
  IN  <>(\/ status = "fatal" /\ whole # sent
         \/ status = "dumped" /\ (Dumps(TableOf(sent)) \/ Dumps(TableOf(whole))))
=============================================================================
