------------------------------ MODULE MCGobdump ------------------------------
(* TLC instance of Gobdump: bytes of four bits and integers of up to two   *)
(* bytes, so that type ids take three; definitions of every kind and of one*)
(* the program does not know, values, and inputs cut at every byte.        *)
EXTENDS Gobdump

Kind(kind, t) ==
  [k \in {"ArrayT", "SliceT", "StructT", "MapT", "other"} |-> IF k = kind THEN <<t>> ELSE <<>>]

Array  == Kind("ArrayT", [Name |-> <<4, 2>>, Id |-> 65, Elem |-> 66, Len |-> 3])
Slice  == Kind("SliceT", [Name |-> <<>>, Id |-> 66, Elem |-> 2])
Struct == Kind("StructT", [Name |-> <<7>>, Id |-> 67,
                           Field |-> <<[Name |-> <<9, 0>>, Id |-> 65], [Name |-> <<1>>, Id |-> 8]>>])
Empty  == Kind("StructT", [Name |-> <<7>>, Id |-> 67, Field |-> <<>>])
Map    == Kind("MapT", [Name |-> <<5>>, Id |-> 65, Key |-> 6, Elem |-> 67])
Other  == Kind("other", [Name |-> <<2>>, Id |-> 66])

Def(id, def)     == [id |-> -id, def |-> def, value |-> <<>>]
Val(id, value) == [id |-> id, def |-> Kind("none", <<>>), value |-> value]

MCRecords == { Def(65, Array), Def(66, Slice), Def(67, Struct), Def(67, Empty), Def(65, Map),
               Def(66, Other), Val(65, <<3, 14, 8, 1, 0>>), Val(2, <<>>) }

MCStreams ==
  [1..2 -> MCRecords] \cup { <<Def(67, Struct), Def(65, Map), Def(66, Slice), Val(67, <<0>>), Def(65, Array)>> }
=============================================================================
