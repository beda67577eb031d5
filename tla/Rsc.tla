--------------------------------- MODULE Rsc ---------------------------------
(***************************************************************************)
(* One run of the command cmd/rsc/rsc.go: it opens the input files,        *)
(* truncates the output files, then reads a block of every input that is   *)
(* still open, pads the blocks with zeroes to the longest, and appends what*)
(* the ErasureCoder makes of them to the outputs, until every input is at  *)
(* its end. Each call that the system can refuse is a step that may fail; a*)
(* failure exits at once and leaves the files as they are.                 *)
(*                                                                         *)
(* A Read returns what it likes of a block but nothing (a pipe or a        *)
(* terminal does); os.File reports io.EOF only with no byte read.          *)
(***************************************************************************)
EXTENDS ReedSolomon

CONSTANTS
  Commands,    \* records of the flags i and o, integers, and the contents of the files named
  kBlocksize,  \* 128k in the code
  MayRead      \* the numbers of bytes a Read may return short of a block

ASSUME CommandAssumption ==
  /\ \A c \in Commands : c.i \in Seq(Nat) /\ c.o \in Seq(Nat) /\ c.files \in Seq(Seq(Element))
  /\ kBlocksize \in Nat \ {0} /\ MayRead \subseteq Nat

VARIABLES
  cmd,        \* the command line and the files it names
  idx_in, idx_out,  \* the abscissae, bytes
  at,         \* where main is: "open", "read", "write", "close", or its exit
  rest,       \* by input file: what Read has not returned yet
  in_open,    \* the inputs that are not nil
  out,        \* the rows to write
  all_closed,
  next,       \* the next file to open, write or close
  out_files,  \* by output file: its content, of before until it is truncated
  short       \* history: some Read returned fewer bytes than it could

RscVars == <<cmd, idx_in, idx_out, at, rest, in_open, out, all_closed, next, out_files, short>>

inputs == Len(idx_in)

\* Mutant: the values of the flag stay as they are given.
SetWide(values) == values

\* byteArrayFlag.Set: the values of a flag, cut to a byte.
Set(values) == [n \in DOMAIN values |-> values[n] % Values]

\* The flags are parsed and the files on the command line counted: as many inputs as
\* values of -i, then as many outputs as values of -o.
RscInit ==
  \E c \in Commands :
    /\ cmd = c /\ idx_in = Set(c.i) /\ idx_out = Set(c.o)
    /\ \/ /\ c.i = <<>> \/ c.o = <<>> \/ Len(c.files) # Len(c.i) + Len(c.o)
          /\ at = "usage" /\ rest = <<>> /\ out_files = <<>>
       \/ /\ c.i # <<>> /\ c.o # <<>> /\ Len(c.files) = Len(c.i) + Len(c.o)
          /\ at = "open" /\ rest = SubSeq(c.files, 1, inputs)
          /\ out_files = SubSeq(c.files, inputs + 1, Len(c.files))
    /\ in_open = {} /\ out = <<>> /\ all_closed = FALSE /\ next = 1 /\ short = FALSE

Crash == at' = "crash" /\ UNCHANGED <<cmd, idx_in, idx_out, rest, in_open, out, all_closed, next, short>>

\* The inputs are opened, then each output is truncated.
Open ==
  /\ at = "open" /\ in_open = {}
  /\ in_open' = DOMAIN rest
  /\ UNCHANGED <<cmd, idx_in, idx_out, at, rest, out, all_closed, next, out_files, short>>

Truncate ==
  /\ at = "open" /\ in_open # {}
  /\ out_files' = [out_files EXCEPT ![next] = <<>>]
  /\ IF next = Len(out_files) THEN at' = "read" /\ next' = 1 ELSE at' = at /\ next' = next + 1
  /\ UNCHANGED <<cmd, idx_in, idx_out, rest, in_open, out, all_closed, short>>

OpenFails == at = "open" /\ Crash /\ UNCHANGED out_files

-----------------------------------------------------------------------------
(* The loop.                                                               *)

\* The numbers of bytes a Read of input i may return; 0 is io.EOF.
Counts(i) ==
  LET full == Min({kBlocksize, Len(rest[i])})
  IN  {full} \cup {n \in MayRead : 0 < n /\ n < full}

\* Mutant: the rows are cut to the shortest block, where there is one.
max_n_shortest(n) == Min({n[i] : i \in in_open} \cup {Max(Range(n))})

\* The length of the rows: the longest block read.
max_n(n) == Max(Range(n))

\* Row i of in: the n bytes read, and zeroes up to the longest row.
block(i, n, len) == [j \in 1..len |-> IF j <= n THEN rest[i][j] ELSE 0]

\* Read reads from every open input; an input at its end is closed.  Without a byte
\* the loop is left, else the blocks are coded.
Read ==
  /\ at = "read"
  /\ \E n \in [DOMAIN rest -> 0..kBlocksize] :
       /\ \A i \in DOMAIN rest : n[i] \in IF i \in in_open THEN Counts(i) ELSE {0}
       /\ at' = IF max_n(n) = 0 THEN "close" ELSE "write"
       /\ out' = IF max_n(n) = 0 THEN out
                 ELSE coded(interpOf(idx_in, idx_out),
                            [i \in DOMAIN rest |-> block(i, n[i], max_n(n))])
       /\ rest' = [i \in DOMAIN rest |-> SubSeq(rest[i], n[i] + 1, Len(rest[i]))]
       /\ in_open' = {i \in in_open : n[i] > 0}
       /\ all_closed' = (in_open' = {})
       /\ short' = (short \/ \E i \in in_open : n[i] < Min({kBlocksize, Len(rest[i])}))
  /\ UNCHANGED <<cmd, idx_in, idx_out, next, out_files>>

ReadFails == at = "read" /\ in_open # {} /\ Crash /\ UNCHANGED out_files

Write ==
  /\ at = "write"
  /\ out_files' = [out_files EXCEPT ![next] = @ \o out[next]]
  /\ IF next = Len(out) THEN next' = 1 /\ at' = IF all_closed THEN "close" ELSE "read"
                        ELSE next' = next + 1 /\ at' = at
  /\ UNCHANGED <<cmd, idx_in, idx_out, rest, in_open, out, all_closed, short>>

\* A Write that fails may have written the first bytes.
WriteFails ==
  /\ at = "write" /\ Crash
  /\ \E n \in 0..Len(out[next])-1 :
       out_files' = [out_files EXCEPT ![next] = @ \o SubSeq(out[next], 1, n)]

\* Mutant: the same file is closed again and again.
CloseStuck ==
  /\ at = "close"
  /\ IF next = Len(out_files) THEN at' = "done" /\ next' = next ELSE at' = at /\ next' = next
  /\ UNCHANGED <<cmd, idx_in, idx_out, rest, in_open, out, all_closed, out_files, short>>

Close ==
  /\ at = "close"
  /\ IF next = Len(out_files) THEN at' = "done" /\ next' = next ELSE at' = at /\ next' = next + 1
  /\ UNCHANGED <<cmd, idx_in, idx_out, rest, in_open, out, all_closed, out_files, short>>

CloseFails == at = "close" /\ Crash /\ UNCHANGED out_files

Progress == Open \/ Truncate \/ Read \/ Write \/ Close

RscNext == Progress \/ OpenFails \/ ReadFails \/ WriteFails \/ CloseFails

\* Every call returns; that one fails is never needed to go on.
RscSpec == RscInit /\ [][RscNext]_RscVars /\ WF_RscVars(Progress)

-----------------------------------------------------------------------------
(* Properties.                                                             *)

Exits == {"usage", "crash", "done"}

\* The types of the variables; only open inputs have anything left.
RscTypeOK ==
  /\ idx_in \in Seq(Element) /\ idx_out \in Seq(Element)
  /\ at \in {"open", "read", "write", "close"} \cup Exits
  /\ rest \in Seq(Seq(Element)) /\ in_open \subseteq DOMAIN rest
  /\ at \in {"read", "write", "close"} => \A i \in DOMAIN rest \ in_open : rest[i] = <<>>
  /\ all_closed \in BOOLEAN /\ short \in BOOLEAN
  /\ at \in {"open", "write", "close"} => next \in 1..Len(out_files)
  /\ out_files \in Seq(Seq(Element))

\* The input files as they ought to be read: padded with zeroes to the longest.
Padded ==
  LET len == Max({Len(cmd.files[i]) : i \in 1..inputs})
  IN  [i \in 1..inputs |->
         [j \in 1..len |-> IF j <= Len(cmd.files[i]) THEN cmd.files[i][j] ELSE 0]]

\* The polynomial of each byte position, by its values at the inputs' abscissae.
\* Its value at the abscissa the flag names is what an output file is to hold.
Wanted(j) ==
  LET coef(b) == CHOOSE c \in [1..inputs -> Element] :
                   \A i \in 1..inputs : ValueAt(c, cmd.i[i] % Values) = Padded[i][b]
  IN  [b \in DOMAIN Padded[1] |-> ValueAt(coef(b), cmd.o[j] % Values)]

\* Unless a Read came back short, at every moment each output file is as it was
\* before or holds the first bytes of its code (lines 18-29), even when a later read
\* or write fails (lines 179, 198); once they are truncated no output is more than a
\* block ahead of another, and with exit status 0 each is complete.
OutputIsCode ==
  (at # "usage" /\ ~short /\ IsInjective(idx_in)) =>
    \A j \in DOMAIN out_files :
      /\ \/ at \in {"open", "crash"} /\ out_files[j] = cmd.files[inputs + j]
         \/ IsPrefix(out_files[j], Wanted(j))
      /\ at = "done" => out_files[j] = Wanted(j)
      /\ at \in {"read", "write", "close"} =>
           Len(out_files[1]) - Len(out_files[j]) \in 0..kBlocksize

\* Whatever files end when, and however the reads are cut up, main exits.
AlwaysExits == <>(at \in Exits)
=============================================================================
