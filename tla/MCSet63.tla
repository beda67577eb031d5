------------------------------- MODULE MCSet63 -------------------------------
(* TLC instance of Set63: eight elements, every interval of them, and lists of   *)
(* elements in and out of order, with duplicates and gaps of several widths.     *)
EXTENDS Set63

MCOperands == { <<>>, <<5>>, <<3, 2, 3>>, <<0, 7>>, <<6, 4, 5>>, <<4, 1, 2>>,
                <<1, 3, 5, 7>>, <<7, 6, 5, 4, 3, 2, 1, 0>> }
=============================================================================
