------------------------------ MODULE VarStore ------------------------------
(***************************************************************************)
(* What a CDF file promises its users, without offsets, stripes or padding: *)
(* every variable is an array of bytes of its own, divided into records,   *)
(* and a reader or writer is a handle that moves through the bytes of one  *)
(* variable in order.  A byte is known by who put it there: a handle, a    *)
(* fill of a record, or nobody.                                            *)
(***************************************************************************)
EXTENDS Integers, Sequences

CONSTANTS
  Handles,      \* the readers and writers
  RecordSize,   \* RecordSize[v]: the bytes of one record of variable v
  Records,      \* Records[v]: the number of records followed
  Nobody

VARIABLES
  arr,    \* arr[v][k]: byte k of variable v
  at,     \* at[hd]: where handle hd stands, <<>> before it is opened
  seen    \* seen[hd]: the bytes handle hd read last

vars == <<arr, at, seen>>

Vars == DOMAIN RecordSize
Bytes(v) == 0..RecordSize[v] * Records[v] - 1

Init ==
  /\ arr = [v \in Vars |-> [k \in Bytes(v) |-> Nobody]]
  /\ at = [hd \in Handles |-> <<>>]
  /\ seen = [hd \in Handles |-> <<>>]

\* Handle hd is opened at some byte of a variable.
Attach(hd) ==
  /\ at[hd] = <<>>
  /\ \E v \in Vars : \E k \in Bytes(v) : at' = [at EXCEPT ![hd] = <<v, k>>]
  /\ UNCHANGED <<arr, seen>>

\* The handle puts n bytes at its place, or takes them from there.
Put(hd, n) ==
  LET v == at[hd][1]  k == at[hd][2] IN
  /\ at' = [at EXCEPT ![hd] = <<v, k + n>>]
  /\ UNCHANGED seen
  /\ k + n - 1 \in Bytes(v)
  /\ arr' = [arr EXCEPT ![v] = [j \in Bytes(v) |-> IF j \in k..k+n-1 THEN hd ELSE @[j]]]

Get(hd, n) ==
  LET v == at[hd][1]  k == at[hd][2] IN
  /\ at' = [at EXCEPT ![hd] = <<v, k + n>>]
  /\ k + n - 1 \in Bytes(v)
  /\ seen' = [seen EXCEPT ![hd] = [i \in 1..n |-> arr[v][k + i - 1]]]
  /\ UNCHANGED arr

\* A fill of record r of v overwrites bytes of that record only.
Fill(v, r) ==
  /\ UNCHANGED <<at, seen>>
  /\ LET old == arr  new == arr' IN
     /\ DOMAIN new = Vars
     /\ \A w \in Vars : DOMAIN new[w] = Bytes(w) /\ \A j \in Bytes(w) :
          \/ new[w][j] = old[w][j]
          \/ w = v /\ j \div RecordSize[v] = r /\ new[w][j] = <<"fill", v, r>>

Next ==
  \/ \E hd \in Handles :
       \/ Attach(hd)
       \/ /\ at[hd] # <<>>
          /\ \E n \in 1..RecordSize[at[hd][1]] : Put(hd, n) \/ Get(hd, n)
  \/ \E v \in Vars : \E r \in 0..Records[v]-1 : Fill(v, r)

Spec == Init /\ [][Next]_vars
=============================================================================
