----------------------------- MODULE Dictionary -----------------------------
(***************************************************************************)
(* What a Trie promises: a map from keys to values in which a missing key  *)
(* and a nil value are the same thing (the comment on the type).           *)
(***************************************************************************)
CONSTANTS Keys, Values, Nil

VARIABLES
  dict,     \* the keys and their values
  request   \* the key and value of the Put under way, <<>> when there is none

Init == dict = {} /\ request = <<>>

Begin ==
  /\ request = <<>> /\ UNCHANGED dict
  /\ \E k \in Keys, v \in Values \cup {Nil} : request' = <<k, v>>

Finish ==
  /\ request # <<>> /\ request' = <<>>
  /\ dict' = {e \in dict : e[1] # request[1]} \cup ({request} \ {<<request[1], Nil>>})

Spec == Init /\ [][Begin \/ Finish]_<<dict, request>>
=============================================================================
