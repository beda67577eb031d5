-------------------------------- MODULE MCTrie --------------------------------
(* TLC instance of Trie: eight bytes, and keys that are prefixes of each other, *)
(* part in the middle of a suffix, and need child tables of length 1 to 8.      *)
EXTENDS Trie

MCKeys == { <<>>, <<1>>, <<1, 2, 3>>, <<1, 2, 6>>, <<6, 1>> }
=============================================================================
