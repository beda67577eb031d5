-------------------------------- MODULE MCRsc --------------------------------
(* TLC instance of Rsc: the field of four elements, blocks of two bytes,   *)
(* input files that end in the first block, at its end, in the second, and *)
(* at once; abscissae past a byte; command lines that are refused.         *)
EXTENDS Rsc

MCInputs == { <<>>, <<2>>, <<1, 3>>, <<3, 0, 2>>, <<1, 2, 3, 1>> }

Was == <<3, 3>>    \* in an output file before

MCCommands ==
  [i : {<<0, 1>>, <<6, 4>>}, o : {<<2, 3>>, <<5, 6>>}, files : {<<f, g, Was, Was>> : f, g \in MCInputs}]
    \cup [i : {<<0, 1>>, <<0, 4>>}, o : {<<2>>, <<>>}, files : {<<f, <<1>>, Was>> : f \in MCInputs}]
    \cup { [i |-> <<3, 1, 2>>, o |-> <<0>>, files |-> << <<2>>, <<1, 1, 3>>, <<0, 3>>, Was>>] }
=============================================================================
