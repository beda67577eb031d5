------------------------------ MODULE Strider ------------------------------
(***************************************************************************)
(* The Reader and Writer of cdf/strider.go: a cursor that walks the bytes  *)
(* of one variable, stripe by stripe, over a storage it shares with other  *)
(* readers and writers.  A stripe is the data of one record; the next one  *)
(* starts a stride further on.  A call moves its elements with one ReadAt  *)
(* or WriteAt per stripe it touches, and between two of those the storage  *)
(* may grow, fail, or come to its end.                                     *)
(*                                                                         *)
(* binary.Read, binary.Write and io.ReadFull are external: what a call     *)
(* returns is modelled from how readElems and writeElems use them.         *)
(***************************************************************************)
EXTENDS StriderOps

CONSTANTS
  Geometries,   \* striders as the constructor makes them, see StriderOf in CdfLayout
  Counts,       \* the lengths of the slices given to Read and Write
  Sizes,        \* the sizes of the storage
  MaxMoved      \* bound: bytes one strider moves in a behaviour

ASSUME StriderAssumption ==
  /\ Counts \subseteq Nat /\ Sizes \subseteq Nat /\ MaxMoved \in Nat
  /\ \A g \in Geometries :
       /\ g.begin \in Nat /\ g.end \in Nat
       /\ g.stripesize \in Nat \ {0} /\ g.stride \in Nat /\ g.stripesize <= g.stride
       /\ g.elemsz \in Nat \ {0}

VARIABLES
  geo,     \* begin, end, stripesize, stride and elemsz of the strider
  curr,    \* the strider's cursor
  fsize,   \* the size of the storage
  call,    \* the call under way
  ret,     \* what the last call returned
  moved    \* history: the bytes moved so far

vars == <<geo, curr, fsize, call, ret, moved>>

Idle == [op |-> "idle", want |-> 0, left |-> 0, se |-> 0, first |-> 0, base |-> 0]

\* err is "nil", "EOF", "UEOF" (io.ErrUnexpectedEOF), "io" for an error of the
\* storage, "type" for badValueType, "encode" for an error of encoding/binary,
\* or "panic".
Ret(op, want, n, err) == [op |-> op, want |-> want, n |-> n, err |-> err]
NoRet == Ret("idle", 0, 0, "nil")

-----------------------------------------------------------------------------
\* Mutant: the cursor is left at 0.
InitAtZero ==
  /\ geo \in Geometries /\ curr = 0
  /\ fsize \in Sizes
  /\ call = Idle /\ ret = NoRet /\ moved = 0

Init ==
  /\ geo \in Geometries /\ curr = geo.begin
  /\ fsize \in Sizes
  /\ call = Idle /\ ret = NoRet /\ moved = 0

\* Read or Write of a slice of n elements of the variable's type.  An empty
\* slice never reaches the loop.
Call(op, n) ==
  /\ call.op = "idle" /\ moved + n * geo.elemsz <= MaxMoved
  /\ IF n = 0
     THEN /\ ret' = Ret(op, 0, 0, "nil")
          /\ UNCHANGED call
     ELSE /\ call' = [op |-> op, want |-> n, left |-> n * geo.elemsz,
                      se |-> StripeEnd(geo, curr), first |-> RelOffs(geo, curr), base |-> moved]
          /\ UNCHANGED ret
  /\ UNCHANGED <<geo, curr, fsize, moved>>

\* A value that is not a slice of the variable's type.  Write lets a string
\* through for the one-byte types, and binary.Write then refuses it.
CallOther(op, kind) ==
  /\ call.op = "idle"
  /\ ret' = LET err == IF op = "write" /\ kind = "string" /\ geo.elemsz = 1
                       THEN "encode" ELSE "type"
            IN  Ret(op, 1, 0, err)
  /\ UNCHANGED <<geo, curr, fsize, call, moved>>

\* The slice expression p[:nn] panics when the cursor is already past end.
Panic ==
  /\ call.op # "idle" /\ Chunk(geo, curr, call.se, call.left) < 0
  /\ ret' = Ret(call.op, call.want, 0, "panic")
  /\ call' = Idle
  /\ UNCHANGED <<geo, curr, fsize, moved>>

\* The end of an iteration that moved nr bytes; e is what the storage said.
Iterate(nr, e) ==
  LET left == call.left - nr
      err  == LoopError(geo, call.op, Advance(geo, curr, call.se, nr), e)
      \* io.ReadFull, inside binary.Read, forgives an error that came with the last byte.
      readErr == IF left = 0 THEN "nil"
                 ELSE IF err = "EOF" /\ moved + nr > call.base THEN "UEOF" ELSE err
      result  == IF call.op = "read" THEN readErr ELSE err
  IN  /\ curr' = Advance(geo, curr, call.se, nr)
      /\ moved' = moved + nr
      /\ IF err = "nil" /\ left > 0
         THEN /\ call' = [call EXCEPT !.left = left, !.se = NextEnd(geo, curr, call.se, nr)]
              /\ UNCHANGED ret
         ELSE /\ call' = Idle
              /\ ret' = Ret(call.op, call.want, RelOffs(geo, curr') - call.first, result)

ReadChunk ==
  LET nn == Chunk(geo, curr, call.se, call.left) IN
  /\ call.op = "read"
  /\ \E nr \in 0..nn, e \in {"nil", "EOF", "io"} :
       /\ ReadAt(nn, nr, e, Available(curr, fsize))
       /\ Iterate(nr, e)
  /\ UNCHANGED <<geo, fsize>>

WriteChunk ==
  LET nn == Chunk(geo, curr, call.se, call.left) IN
  /\ call.op = "write"
  /\ \E nr \in 0..nn, e \in {"nil", "io"} :
       /\ WriteAt(nn, nr, e)
       /\ Iterate(nr, e)
       /\ fsize' = NewSize(curr, nr, fsize)
  /\ UNCHANGED geo

\* Another user of the storage makes it longer.
Extend ==
  /\ \E s \in Sizes : s > fsize /\ fsize' = s
  /\ UNCHANGED <<geo, curr, call, ret, moved>>

Step == ReadChunk \/ WriteChunk \/ Panic

Next ==
  \/ \E op \in {"read", "write"}, n \in Counts : Call(op, n)
  \/ \E op \in {"read", "write"}, kind \in {"string", "other"} : CallOther(op, kind)
  \/ Step
  \/ Extend

Spec == Init /\ [][Next]_vars

\* A call that was made is carried on: nothing in the loop waits for anyone.
FairSpec == Spec /\ WF_vars(Step)

-----------------------------------------------------------------------------
Ops == {"idle", "read", "write"}

\* The type invariant: the cursor and the stripe end never become negative, and a
\* call never has a negative number of bytes left.
TypeOK ==
  /\ geo \in Geometries /\ curr \in Nat /\ fsize \in Nat /\ moved \in Nat
  /\ call \in [op : Ops, want : Nat, left : Nat, se : Nat, first : Nat, base : Nat]
  /\ ret \in [op : Ops, want : Nat, n : Int,
              err : {"nil", "EOF", "UEOF", "io", "type", "encode", "panic"}]

\* The cursor is where the bytes moved so far take it, whatever errors, partial
\* transfers and calls came before: m bytes are m div stripesize whole stripes
\* and a rest, and the stripe end kept by the loop is the one of that stripe
\* (strider.go Read and Write, the jump at a stripe end).
CursorExact ==
  LET stripe == geo.begin + (moved \div geo.stripesize) * geo.stride
  IN  /\ curr = stripe + (moved % geo.stripesize)
      /\ call.op # "idle" => call.se = stripe + geo.stripesize

\* The count a call returns never exceeds the length of the slice, and it is
\* the length when the call reports no error (strider.go:33, "if n < len(values)
\* err will be set"), also after a call that stopped inside an element.
CountExact == ret.n <= ret.want /\ (ret.err = "nil" => ret.n = ret.want)

\* A transfer touches bytes of one stripe only and none from end on.
TransferInside ==
  [][moved' > moved =>
       /\ ((curr - geo.begin) % geo.stride) + (moved' - moved) <= geo.stripesize
       /\ geo.end > 0 => curr + (moved' - moved) <= geo.end]_vars

\* The loop never spins: while a call is under way the next transfer asks for
\* at least one byte, unless the cursor is at or beyond the end, where the
\* iteration returns io.EOF or panics (strider.go, the stripe end carried along).
LoopAdvances ==
  call.op # "idle" =>
    \/ Chunk(geo, curr, call.se, call.left) > 0
    \/ geo.end > 0 /\ curr >= geo.end

\* A call returns, whatever the storage answers.
CallReturns == call.op # "idle" ~> call.op = "idle"

\* A call panics only when the cursor is past the end, and the cursor gets there
\* only when the end is at or behind the end of a stripe that is followed by other
\* variables, or before the begin (strider.go:145, the length clipped for p[:nn]).
PastStripe(g) ==
  g.end < g.begin \/ (g.stripesize < g.stride /\ (g.end - g.begin) % g.stride >= g.stripesize)
PanicOnlyPastStripe ==
  ret.err = "panic" \/ (call.op # "idle" /\ Chunk(geo, curr, call.se, call.left) < 0)
    => geo.end > 0 /\ curr > geo.end /\ PastStripe(geo)

\* A Read with an end comes back short for want of data only there or at the end
\* of the file, and a Write never reports io.EOF without an end (strider.go:160, 193).
ShortOnlyAtEnd ==
  [][call.op # "idle" /\ call'.op = "idle" /\ ret'.err \in {"EOF", "UEOF"} =>
       \/ call.op = "read" /\ (fsize <= curr' \/ geo.end = 0)
       \/ geo.end > 0 /\ curr' >= geo.end]_vars
=============================================================================
