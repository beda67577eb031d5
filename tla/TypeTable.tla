------------------------------ MODULE TypeTable ------------------------------
(***************************************************************************)
(* What cmd/gobdump promises of a stream of records: it takes them one by  *)
(* one, in order, and keeps the last definition of each type id.           *)
(***************************************************************************)
EXTENDS Integers, Sequences

VARIABLES
  unread,   \* the records still to come: an id, negative if it is defined, the definition,
            \* and whether the record is whole
  table     \* by id: its definition

vars == <<unread, table>>

Init == table = [id \in {} |-> <<>>]

\* The definition of a record that is cut off is taken or not.
Take ==
  LET rec == Head(unread)
  IN  /\ unread # <<>> /\ unread' = Tail(unread)
      /\ \/ rec.id < 0
            /\ table' = [id \in DOMAIN table \cup {-rec.id} |->
                           IF id = -rec.id THEN rec.def ELSE table[id]]
         \/ (rec.id >= 0 \/ ~rec.whole) /\ UNCHANGED table

Spec == Init /\ [][Take]_vars
=============================================================================
