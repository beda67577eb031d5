---------------------------- MODULE MCCdfHeader ----------------------------
(* TLC instance of CdfHeader: see the configurations that use it.          *)
EXTENDS CdfHeader, TLC

NameSymmetry == Permutations(VarNames)

D(n, l) == [name |-> n, length |-> l]

\* One record dimension t, one odd length x, and lists NewHeader must refuse.
MCDimLists == { <<D("t", 0), D("x", 3)>>, <<D("x", 3)>>,
                <<D("t", 0), D("u", 0)>>, <<D("x", 3), D("x", 2)>>, <<D("x", -1)>> }
MCDimNames == {"t", "u", "x", "q"}
MCVarDims  == { <<>>, <<"t">>, <<"x">>, <<"t", "x">>, <<"x", "t">>, <<"q">> }

ASSUME LengthsFit
=============================================================================
