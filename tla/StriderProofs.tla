--------------------------- MODULE StriderProofs ---------------------------
(***************************************************************************)
(* Proofs about Strider for every geometry, slice length and storage size. *)
(*                                                                         *)
(* The inductive invariant IInv adds to CursorExact what the loop carries  *)
(* along: how many bytes of the call are left and where the call began.    *)
(* Where bytes moved take the cursor is CdfLayoutProofs' matter.           *)
(***************************************************************************)
EXTENDS Strider, CdfLayoutProofs

\* What the loop carries from one iteration to the next.
LoopExact ==
  call.op # "idle" =>
    /\ call.left > 0 /\ call.base <= moved
    /\ moved + call.left = call.base + call.want * geo.elemsz
    /\ call.first = call.base \div geo.elemsz

\* The invariant that every step preserves.
IInv == TypeOK /\ CursorExact /\ LoopExact /\ CountExact

-----------------------------------------------------------------------------
(* The invariant.                                                          *)

\* What the assumption on the constants says of the strider at hand.
LEMMA GeoOK ==
  ASSUME TypeOK
  PROVE  GeometryOK(geo)
  BY StriderAssumption DEF TypeOK, GeometryOK

\* One iteration of the loop, whatever the storage answered.
LEMMA IteratePreserves ==
  ASSUME IInv, call.op # "idle", geo' = geo, fsize' \in Nat,
         NEW nr \in Nat, nr <= Chunk(geo, curr, call.se, call.left),
         NEW e \in {"nil", "EOF", "io"}, Iterate(nr, e)
  PROVE  IInv'
<1> DEFINE m == moved + nr
           left == call.left - nr
           er == LoopError(geo, call.op, Advance(geo, curr, call.se, nr), e)
           cont == er = "nil" /\ left > 0
           n == RelOffs(geo, curr') - call.first
<1>1. GeometryOK(geo)
  BY GeoOK DEF IInv
<1>2. /\ moved \in Nat /\ m \in Nat /\ call.left \in Nat /\ call.want \in Nat
      /\ call.base \in Nat /\ call.op \in Ops /\ curr \in Nat /\ call.se \in Nat
      /\ call.first \in Nat
  BY DEF IInv, TypeOK
<1>3. curr = Pos(geo, moved) /\ call.se = Stop(geo, moved)
  BY DEF IInv, CursorExact, Pos, Stop
<1>4. nr <= call.left /\ curr + nr <= call.se
  <2> DEFINE nn == Chunk(geo, curr, call.se, call.left)
  <2>1. nn \in Int /\ nn <= call.left /\ curr + nn <= call.se
    BY <1>1, <1>2, ChunkFits
  <2>2. nr <= nn
    OBVIOUS
  <2> HIDE DEF nn
  <2> QED
    BY <1>2, <2>1, <2>2
<1>5. /\ curr' = Pos(geo, m) /\ moved' = m
      /\ NextEnd(geo, curr, call.se, nr) = Stop(geo, m)
  BY <1>1, <1>2, <1>3, <1>4, AdvanceExact DEF Iterate
<1>6. Pos(geo, m) \in Nat /\ Stop(geo, m) \in Nat
  BY <1>1, <1>2, PosTyped
<1>7. left \in Nat /\ m + left = call.base + call.want * geo.elemsz /\ call.base <= m
      /\ call.first = call.base \div geo.elemsz
  BY <1>2, <1>4 DEF IInv, LoopExact
<1>8. n = (m \div geo.elemsz) - (call.base \div geo.elemsz)
  BY <1>1, <1>2, <1>5, <1>7, RelOffsExact
<1>9. n \in Int /\ n <= call.want /\ (left = 0 => n = call.want)
  <2>1. geo.elemsz \in Nat \ {0}
    BY <1>1 DEF GeometryOK
  <2>2. call.want * geo.elemsz \in Nat
    BY <1>2, <2>1, Z3T(30)
  <2>3. m <= call.base + call.want * geo.elemsz
        /\ (left = 0 => m = call.base + call.want * geo.elemsz)
    BY <1>2, <1>7, <2>2
  <2>4. m \div geo.elemsz \in Nat /\ call.base \div geo.elemsz \in Nat
    BY <1>2, <2>1, DivMod
  <2>5. /\ (m \div geo.elemsz) - (call.base \div geo.elemsz) <= call.want
        /\ m = call.base + call.want * geo.elemsz =>
             (m \div geo.elemsz) - (call.base \div geo.elemsz) = call.want
    <3> DEFINE a == call.base
               w == call.want
               d == geo.elemsz
    <3>1. a \in Nat /\ m \in Nat /\ w \in Nat /\ d \in Nat \ {0} /\ m <= a + w * d
      BY <1>2, <2>1, <2>3
    <3> HIDE DEF m, n, left, a, w, d
    <3>2. (m \div d) - (a \div d) <= w /\ (m = a + w * d => (m \div d) - (a \div d) = w)
      BY <3>1, CountBound
    <3> QED
      BY <3>2 DEF a, w, d
  <2>6. n \in Int
    BY <1>8, <2>4
  <2> QED
    BY <1>8, <2>3, <2>5, <2>6
<1>10. CASE cont
  <2>1. /\ call' = [call EXCEPT !.left = left, !.se = Stop(geo, m)]
        /\ ret' = ret
    BY <1>5, <1>10 DEF Iterate
  <2>2. TypeOK'
    BY <1>2, <1>5, <1>6, <1>7, <2>1 DEF IInv, TypeOK
  <2>3. CursorExact'
    BY <1>2, <1>5, <2>1 DEF IInv, TypeOK, CursorExact, Pos, Stop
  <2>4. LoopExact'
    BY <1>5, <1>7, <1>10, <2>1 DEF IInv, TypeOK, LoopExact
  <2>5. CountExact'
    BY <2>1 DEF IInv, CountExact
  <2> QED
    BY <2>2, <2>3, <2>4, <2>5 DEF IInv
<1>11. CASE ~cont
  <2>1. PICK err \in {"nil", "EOF", "UEOF", "io"} :
          /\ err = "nil" => left = 0
          /\ ret' = Ret(call.op, call.want, n, err)
          /\ call' = Idle
    <3> HIDE DEF n
    <3>1. call' = Idle
      BY <1>11 DEF Iterate
    <3>2. left = 0 \/ left > 0
      BY <1>7
    <3>0. er \in {"nil", "EOF", "io"}
      BY DEF LoopError
    <3> DEFINE rr == IF left = 0 THEN "nil"
                     ELSE IF er = "EOF" /\ moved + nr > call.base THEN "UEOF" ELSE er
               result == IF call.op = "read" THEN rr ELSE er
    <3>3. ret' = Ret(call.op, call.want, n, result)
      BY <1>11 DEF Iterate, n
    <3> HIDE DEF er
    <3>4. result \in {"nil", "EOF", "UEOF", "io"}
      BY <3>0
    <3>6. result = "nil" => left = 0
      BY <1>11, <3>2
    <3> HIDE DEF rr, result
    <3> QED
      BY <3>1, <3>3, <3>4, <3>6
  <2>2. TypeOK'
    BY <1>2, <1>5, <1>6, <1>9, <2>1 DEF IInv, TypeOK, Idle, Ops, Ret
  <2>3. CursorExact'
    BY <1>5, <2>1 DEF CursorExact, Pos, Idle
  <2>4. LoopExact'
    BY <2>1 DEF LoopExact, Idle
  <2>5. CountExact'
    BY <1>9, <2>1 DEF CountExact, Ret
  <2> QED
    BY <2>2, <2>3, <2>4, <2>5 DEF IInv
<1> QED
  BY <1>10, <1>11

\* Starting a Read or Write keeps the invariant (readElems, writeElems, the head of the loop).
LEMMA CallPreserves ==
  ASSUME IInv, NEW op \in {"read", "write"}, NEW n \in Counts, Call(op, n)
  PROVE  IInv'
<1>1. GeometryOK(geo) /\ n \in Nat /\ moved \in Nat
  BY GeoOK, StriderAssumption DEF IInv, TypeOK
<1>2. UNCHANGED <<geo, curr, fsize, moved>>
  BY DEF Call
<1>3. CASE n = 0
  <2>1. ret' = Ret(op, 0, 0, "nil") /\ UNCHANGED call
    BY <1>3 DEF Call
  <2>2. TypeOK' /\ CountExact'
    BY <1>2, <2>1 DEF IInv, TypeOK, CountExact, Ret, Ops
  <2> QED
    BY <1>2, <2>1, <2>2 DEF IInv, CursorExact, LoopExact
<1>4. CASE n # 0
  <2>1. curr = Pos(geo, moved)
    BY DEF IInv, CursorExact, Pos
  <2>2. StripeEnd(geo, curr) = Stop(geo, moved) /\ RelOffs(geo, curr) = moved \div geo.elemsz
    BY <1>1, <2>1, StripeEndExact, RelOffsExact
  <2>3. /\ call' = [op |-> op, want |-> n, left |-> n * geo.elemsz, se |-> Stop(geo, moved),
                   first |-> moved \div geo.elemsz, base |-> moved]
        /\ UNCHANGED ret
    BY <1>4, <2>2 DEF Call
  <2>4. geo.elemsz \in Nat \ {0} /\ n * geo.elemsz \in Nat /\ n * geo.elemsz > 0
    <3>1. geo.elemsz \in Nat \ {0}
      BY <1>1 DEF GeometryOK
    <3> QED
      BY <1>1, <1>4, <3>1, Z3T(30)
  <2>5. Stop(geo, moved) \in Nat /\ moved \div geo.elemsz \in Nat
    BY <1>1, <2>4, PosTyped, DivMod
  <2>6. TypeOK'
    BY <1>1, <1>2, <2>3, <2>4, <2>5 DEF IInv, TypeOK, Ops
  <2>7. CursorExact'
    BY <1>2, <2>3 DEF IInv, CursorExact, Stop
  <2>8. LoopExact'
    BY <1>1, <1>2, <2>3, <2>4 DEF LoopExact
  <2>9. CountExact'
    BY <2>3 DEF IInv, CountExact
  <2> QED
    BY <2>6, <2>7, <2>8, <2>9 DEF IInv
<1> QED
  BY <1>3, <1>4

\* The constructor's strider satisfies the invariant.
LEMMA InitHolds ==
  ASSUME Init
  PROVE  IInv
<1>1. geo \in Geometries /\ GeometryOK(geo)
  BY StriderAssumption DEF Init, GeometryOK
<1>2. 0 \div geo.stripesize = 0 /\ 0 % geo.stripesize = 0
  <2> DEFINE d == geo.stripesize
  <2>1. d \in Nat \ {0}
    BY <1>1 DEF GeometryOK
  <2> HIDE DEF d
  <2>2. (0 * d + 0) \div d = 0 /\ (0 * d + 0) % d = 0 /\ 0 * d + 0 = 0
    BY <2>1, DivUnique, Z3T(30)
  <2> QED
    BY <2>2 DEF d
<1>3. TypeOK
  BY <1>1, StriderAssumption DEF Init, TypeOK, Idle, NoRet, Ret, Ops, GeometryOK
<1>4. CursorExact
  BY <1>1, <1>2 DEF Init, CursorExact, Idle, GeometryOK
<1> QED
  BY <1>3, <1>4 DEF Init, IInv, LoopExact, CountExact, Idle, NoRet, Ret

\* A call with a value of the wrong type keeps the invariant.
LEMMA CallOtherPreserves ==
  ASSUME IInv, NEW op \in {"read", "write"}, NEW kind \in {"string", "other"},
         CallOther(op, kind)
  PROVE  IInv'
<1>1. UNCHANGED <<geo, curr, fsize, call, moved>>
  BY DEF CallOther
<1>2. PICK err \in {"encode", "type"} : ret' = Ret(op, 1, 0, err)
  BY DEF CallOther
<1>3. TypeOK' /\ CountExact'
  BY <1>1, <1>2 DEF IInv, TypeOK, CountExact, Ret, Ops
<1> QED
  BY <1>1, <1>3 DEF IInv, CursorExact, LoopExact

\* One ReadAt keeps the invariant.
LEMMA ReadChunkPreserves ==
  ASSUME IInv, ReadChunk
  PROVE  IInv'
<1> DEFINE nn == Chunk(geo, curr, call.se, call.left)
<1>1. PICK nr \in 0..nn, e \in {"nil", "EOF", "io"} : Iterate(nr, e)
  BY DEF ReadChunk
<1>2. call.op # "idle" /\ geo' = geo /\ fsize' \in Nat
  BY DEF ReadChunk, IInv, TypeOK
<1>3. nr \in Nat /\ nr <= nn
  <2> HIDE DEF nn
  <2> QED
    BY <1>1
<1> QED
  BY <1>1, <1>2, <1>3, IteratePreserves

\* One WriteAt keeps the invariant.
LEMMA WriteChunkPreserves ==
  ASSUME IInv, WriteChunk
  PROVE  IInv'
<1> DEFINE nn == Chunk(geo, curr, call.se, call.left)
<1>1. PICK nr \in 0..nn, e \in {"nil", "io"} :
        Iterate(nr, e) /\ fsize' = NewSize(curr, nr, fsize)
  BY DEF WriteChunk
<1>2. nr \in Nat /\ nr <= nn
  <2> HIDE DEF nn
  <2> QED
    BY <1>1
<1>3. call.op # "idle" /\ geo' = geo /\ fsize' \in Nat
  <2> HIDE DEF nn
  <2> QED
    BY <1>1, <1>2 DEF WriteChunk, IInv, TypeOK, NewSize
<1> QED
  BY <1>1, <1>2, <1>3, IteratePreserves

\* Every step keeps the invariant.
LEMMA NextPreserves ==
  ASSUME IInv, [Next]_vars
  PROVE  IInv'
<1>1. ASSUME NEW op \in {"read", "write"}, NEW n \in Counts, Call(op, n)
      PROVE  IInv'
  BY <1>1, CallPreserves
<1>2. ASSUME NEW op \in {"read", "write"}, NEW kind \in {"string", "other"},
             CallOther(op, kind)
      PROVE  IInv'
  BY <1>2, CallOtherPreserves
<1>3. CASE ReadChunk
  BY <1>3, ReadChunkPreserves
<1>4. CASE WriteChunk
  BY <1>4, WriteChunkPreserves
<1>5. CASE Panic
  <2>1. /\ UNCHANGED <<geo, curr, fsize, moved>>
        /\ call' = Idle /\ ret' = Ret(call.op, call.want, 0, "panic")
    BY <1>5 DEF Panic
  <2>2. call.want \in Nat /\ call.op \in Ops
    BY DEF IInv, TypeOK
  <2>3. TypeOK' /\ CountExact'
    BY <2>1, <2>2 DEF IInv, TypeOK, CountExact, Idle, Ret, Ops
  <2> QED
    BY <2>1, <2>3 DEF IInv, CursorExact, LoopExact, Idle
<1>6. CASE Extend
  <2>1. UNCHANGED <<geo, curr, call, ret, moved>> /\ fsize' \in Nat
    BY <1>6, StriderAssumption DEF Extend
  <2> QED
    BY <2>1 DEF IInv, TypeOK, CursorExact, LoopExact, CountExact
<1>7. CASE UNCHANGED vars
  BY <1>7 DEF vars, IInv, TypeOK, CursorExact, LoopExact, CountExact
<1> QED
  BY <1>1, <1>2, <1>3, <1>4, <1>5, <1>6, <1>7 DEF Next, Step

-----------------------------------------------------------------------------
(* The theorems.                                                           *)

\* The invariant holds throughout.
LEMMA Invariance == Spec => []IInv
<1>1. Init => IInv
  BY InitHolds
<1>2. IInv /\ [Next]_vars => IInv'
  BY NextPreserves
<1> QED
  BY <1>1, <1>2, PTL DEF Spec

\* The variables of the strider keep their types: curr and the stripe end never
\* become negative, whatever the storage answers (strider.go Read and Write).
THEOREM TypeCorrect == Spec => []TypeOK
<1>1. IInv => TypeOK
  BY DEF IInv
<1> QED
  BY <1>1, Invariance, PTL

\* After any history of calls, errors and partial transfers the cursor is
\* exactly where the bytes moved take it.
THEOREM CursorCorrect == Spec => []CursorExact
<1>1. IInv => CursorExact
  BY DEF IInv
<1> QED
  BY <1>1, Invariance, PTL

\* The count a call returns is never more than was asked, and is what was asked
\* when there is no error (readElems and writeElems, by the difference of relOffs).
THEOREM CountCorrect == Spec => []CountExact
<1>1. IInv => CountExact
  BY DEF IInv
<1> QED
  BY <1>1, Invariance, PTL

\* The loop never asks for nothing before the end, so it cannot spin.
THEOREM LoopAdvancing == Spec => []LoopAdvances
<1>1. IInv => LoopAdvances
  <2> SUFFICES ASSUME IInv, call.op # "idle"
               PROVE  \/ Chunk(geo, curr, call.se, call.left) > 0
                      \/ geo.end > 0 /\ curr >= geo.end
    BY DEF LoopAdvances
  <2>1. GeometryOK(geo) /\ moved \in Nat /\ curr \in Nat /\ call.se \in Nat /\ call.left \in Nat
    BY GeoOK DEF IInv, TypeOK
  <2>2. curr = Pos(geo, moved) /\ call.se = Stop(geo, moved) /\ call.left > 0
    BY DEF IInv, CursorExact, LoopExact, Pos, Stop
  <2>3. curr < call.se
    BY <2>1, <2>2, PosTyped
  <2> QED
    BY <2>1, <2>2, <2>3, ChunkFits
<1> QED
  BY <1>1, Invariance, PTL

\* What one transfer of nr bytes touches.
LEMMA ChunkInside ==
  ASSUME IInv, call.op # "idle", NEW nr \in Nat,
         nr <= Chunk(geo, curr, call.se, call.left)
  PROVE  /\ ((curr - geo.begin) % geo.stride) + nr <= geo.stripesize
         /\ geo.end > 0 => curr + nr <= geo.end
<1>1. GeometryOK(geo) /\ moved \in Nat /\ curr \in Nat /\ call.se \in Nat /\ call.left \in Nat
  BY GeoOK DEF IInv, TypeOK
<1> DEFINE nn == Chunk(geo, curr, call.se, call.left)
           x == moved % geo.stripesize
           r == (moved \div geo.stripesize) * geo.stride
<1>2. nn \in Int /\ curr + nn <= call.se /\ (geo.end > 0 => curr + nn <= geo.end)
  BY <1>1, ChunkFits
<1>3. nr <= nn
  OBVIOUS
<1>4. curr = geo.begin + r + x /\ call.se = geo.begin + r + geo.stripesize
  BY DEF IInv, CursorExact
<1>5. curr = Pos(geo, moved)
  BY DEF IInv, CursorExact, Pos
<1>6. (curr - geo.begin) % geo.stride = x
  BY <1>1, <1>5, PosOffset
<1>7. x \in Nat
  BY <1>1, DivMod DEF GeometryOK
<1>8. call.se = curr - x + geo.stripesize
  <2>1. r \in Nat
    <3> DEFINE q == moved \div geo.stripesize
    <3>1. q \in Nat /\ geo.stride \in Nat
      BY <1>1, DivMod DEF GeometryOK
    <3> HIDE DEF q
    <3>2. q * geo.stride \in Nat
      BY <3>1, Z3T(30)
    <3> QED
      BY <3>2 DEF q
  <2> HIDE DEF r, x
  <2> QED
    BY <1>1, <1>4, <1>7, <2>1 DEF GeometryOK
<1> HIDE DEF nn, x, r
<1> QED
  BY <1>1, <1>2, <1>3, <1>6, <1>7, <1>8 DEF GeometryOK

\* No transfer leaves the stripe it started in or goes beyond the end.
THEOREM TransfersInside == Spec => TransferInside
<1> DEFINE Inside == moved' > moved =>
                       /\ ((curr - geo.begin) % geo.stride) + (moved' - moved) <= geo.stripesize
                       /\ geo.end > 0 => curr + (moved' - moved) <= geo.end
<1>1. ASSUME IInv, [Next]_vars
      PROVE  [Inside]_vars
  <2>1. CASE moved' = moved
    <3>1. moved \in Nat
      BY <1>1 DEF IInv, TypeOK
    <3> QED
      BY <2>1, <3>1
  <2>2. CASE ReadChunk \/ WriteChunk
    <3> DEFINE nn == Chunk(geo, curr, call.se, call.left)
    <3>1. PICK nr \in 0..nn : moved' = moved + nr
      BY <2>2 DEF ReadChunk, WriteChunk, Iterate
    <3>2. nr \in Nat /\ nr <= nn
      <4> HIDE DEF nn
      <4> QED
        BY <3>1
    <3>3. call.op # "idle" /\ moved \in Nat
      BY <1>1, <2>2 DEF ReadChunk, WriteChunk, IInv, TypeOK
    <3>4. /\ ((curr - geo.begin) % geo.stride) + nr <= geo.stripesize
          /\ geo.end > 0 => curr + nr <= geo.end
      BY <1>1, <3>2, <3>3, ChunkInside
    <3>5. moved' - moved = nr
      BY <3>1, <3>2, <3>3
    <3> QED
      BY <3>4, <3>5
  <2> QED
    BY <1>1, <2>1, <2>2 DEF Next, Step, Call, CallOther, Panic, Extend, vars
<1> QED
  BY <1>1, Invariance, PTL DEF Spec, TransferInside

-----------------------------------------------------------------------------
(* Panics.                                                                 *)

\* What a cursor past the end tells, and what remains true after a panic.
EndInv ==
  /\ geo.end > 0 /\ curr > geo.end => PastStripe(geo)
  /\ ret.err = "panic" => geo.end > 0 /\ curr > geo.end

\* A transfer of nr bytes takes the cursor beyond the end only by the jump over
\* what follows a stripe, and then the end is in the gap or at the stripe end.
LEMMA JumpPastEnd ==
  ASSUME IInv, call.op # "idle", NEW nr \in Nat,
         nr <= Chunk(geo, curr, call.se, call.left),
         geo.end > 0, Advance(geo, curr, call.se, nr) > geo.end
  PROVE  PastStripe(geo)
<1> DEFINE q == moved \div geo.stripesize
           x == moved % geo.stripesize
           r == q * geo.stride
           y == geo.end - geo.begin - r
<1>1. /\ GeometryOK(geo) /\ moved \in Nat /\ curr \in Nat /\ call.se \in Nat
      /\ call.left \in Nat
  BY GeoOK DEF IInv, TypeOK
<1>2. curr = geo.begin + r + x /\ call.se = geo.begin + r + geo.stripesize
  BY DEF IInv, CursorExact
<1>3. q \in Nat /\ x \in 0..geo.stripesize-1
  BY <1>1, DivMod DEF GeometryOK
<1>4. r \in Nat
  <2> HIDE DEF q, x
  <2> QED
    BY <1>1, <1>3, Z3T(30) DEF GeometryOK
<1>5. curr + nr <= geo.end
  BY ChunkInside
<1> HIDE DEF q, x, r
<1>6. /\ curr + nr = call.se /\ geo.stripesize < geo.stride
      /\ geo.stripesize <= y /\ y < geo.stride /\ geo.end - geo.begin = r + y
  BY <1>1, <1>2, <1>3, <1>4, <1>5 DEF Advance, GeometryOK
<1>7. y \in 0..geo.stride-1 /\ geo.stride \in Nat \ {0}
  BY <1>1, <1>4, <1>6 DEF GeometryOK
<1>8. (r + y) % geo.stride = y
  <2> HIDE DEF y
  <2> QED
    BY <1>3, <1>7, DivUnique DEF r
<1> QED
  BY <1>6, <1>8 DEF PastStripe

\* One iteration keeps EndInv: it returns no panic and never moves the cursor back.
LEMMA IterateEnd ==
  ASSUME IInv, EndInv, call.op # "idle", geo' = geo,
         NEW nr \in Nat, nr <= Chunk(geo, curr, call.se, call.left),
         NEW e \in {"nil", "EOF", "io"}, Iterate(nr, e)
  PROVE  EndInv'
<1>1. curr' = Advance(geo, curr, call.se, nr)
  BY DEF Iterate
<1>2. geo.end > 0 /\ curr' > geo.end => PastStripe(geo)
  BY <1>1, JumpPastEnd
<1>3. ret' = ret \/ ret'.err # "panic"
  BY DEF Iterate, Ret, LoopError
<1>4. curr' >= curr
  <2>1. /\ GeometryOK(geo) /\ moved \in Nat /\ curr \in Nat /\ call.se \in Nat
    BY GeoOK DEF IInv, TypeOK
  <2> QED
    BY <1>1, <2>1 DEF Advance, GeometryOK
<1>5. curr \in Nat /\ curr' \in Nat /\ geo.end \in Nat
  <2>1. /\ GeometryOK(geo) /\ curr \in Nat /\ call.se \in Nat
    BY GeoOK DEF IInv, TypeOK
  <2> QED
    BY <1>1, <2>1 DEF Advance, GeometryOK
<1> QED
  BY <1>2, <1>3, <1>4, <1>5 DEF EndInv

\* Every step keeps EndInv.
LEMMA NextEndInv ==
  ASSUME IInv, EndInv, [Next]_vars
  PROVE  EndInv'
<1>1. CASE ReadChunk \/ WriteChunk
  <2> DEFINE nn == Chunk(geo, curr, call.se, call.left)
  <2>1. PICK nr \in 0..nn, e \in {"nil", "EOF", "io"} : Iterate(nr, e)
    BY <1>1 DEF ReadChunk, WriteChunk
  <2>2. call.op # "idle" /\ geo' = geo
    BY <1>1 DEF ReadChunk, WriteChunk
  <2>3. nr \in Nat /\ nr <= nn
    <3> HIDE DEF nn
    <3> QED
      BY <2>1
  <2> QED
    BY <2>1, <2>2, <2>3, IterateEnd
<1>2. CASE Panic
  <2>1. /\ GeometryOK(geo) /\ curr \in Nat /\ call.se \in Nat /\ call.left \in Nat
        /\ moved \in Nat
    BY GeoOK DEF IInv, TypeOK
  <2>2. curr = Pos(geo, moved) /\ call.se = Stop(geo, moved)
    BY <1>2 DEF Panic, IInv, CursorExact, Pos, Stop
  <2>3. curr < call.se
    BY <2>1, <2>2, PosTyped
  <2>4. geo.end > 0 /\ curr > geo.end
    BY <1>2, <2>1, <2>3 DEF Panic, Chunk, GeometryOK
  <2> QED
    BY <1>2, <2>4 DEF Panic, EndInv
<1>3. CASE \E op \in {"read", "write"}, n \in Counts : Call(op, n)
  BY <1>3 DEF Call, Ret, EndInv
<1>4. CASE \E op \in {"read", "write"}, kind \in {"string", "other"} : CallOther(op, kind)
  BY <1>4 DEF CallOther, Ret, EndInv
<1>5. CASE Extend \/ UNCHANGED vars
  BY <1>5 DEF Extend, vars, EndInv
<1> QED
  BY <1>1, <1>2, <1>3, <1>4, <1>5 DEF Next, Step

\* A Read or Write panics only past an end that lies at or behind the end of a
\* stripe with other variables after it: with no end, or with an end inside a
\* stripe, no history of calls and errors leads to a panic (strider.go:145).
THEOREM PanicsExplained == Spec => []PanicOnlyPastStripe
<1>1. Init => EndInv
  <2> SUFFICES ASSUME Init
               PROVE  EndInv
    OBVIOUS
  <2>1. geo.begin \in Nat /\ geo.end \in Nat /\ curr = geo.begin /\ ret = NoRet
    BY StriderAssumption DEF Init
  <2> QED
    BY <2>1 DEF EndInv, PastStripe, NoRet, Ret
<1>2. IInv /\ EndInv /\ [Next]_vars => EndInv'
  BY NextEndInv
<1>3. IInv /\ EndInv => PanicOnlyPastStripe
  <2> SUFFICES ASSUME IInv, EndInv
               PROVE  PanicOnlyPastStripe
    OBVIOUS
  <2>1. ASSUME call.op # "idle", Chunk(geo, curr, call.se, call.left) < 0
        PROVE  geo.end > 0 /\ curr > geo.end
    <3>1. /\ GeometryOK(geo) /\ curr \in Nat /\ call.se \in Nat /\ call.left \in Nat
          /\ moved \in Nat
      BY GeoOK DEF IInv, TypeOK
    <3>2. curr = Pos(geo, moved) /\ call.se = Stop(geo, moved)
      BY <2>1 DEF IInv, CursorExact, Pos, Stop
    <3>3. curr < call.se
      BY <3>1, <3>2, PosTyped
    <3> QED
      BY <2>1, <3>1, <3>3 DEF Chunk, GeometryOK
  <2> QED
    BY <2>1 DEF EndInv, PanicOnlyPastStripe
<1> QED
  BY <1>1, <1>2, <1>3, Invariance, PTL DEF Spec

\* An iteration that ends a call with io.EOF or io.ErrUnexpectedEOF did so for
\* the end of the storage or for the end corner.
LEMMA IterateShort ==
  ASSUME IInv, call.op # "idle", geo' = geo, fsize' = fsize \/ call.op = "write",
         NEW nr \in Nat, nr <= Chunk(geo, curr, call.se, call.left),
         NEW e \in {"nil", "EOF", "io"}, Iterate(nr, e),
         e = "EOF" => call.op = "read" /\ nr = Available(curr, fsize),
         call'.op = "idle", ret'.err \in {"EOF", "UEOF"}
  PROVE  \/ call.op = "read" /\ (fsize <= curr' \/ geo.end = 0)
         \/ geo.end > 0 /\ curr' >= geo.end
<1> DEFINE er == LoopError(geo, call.op, Advance(geo, curr, call.se, nr), e)
<1>1. /\ GeometryOK(geo) /\ curr \in Nat /\ call.se \in Nat /\ fsize \in Nat
      /\ call.op \in {"read", "write"} /\ geo.end \in Nat
  <2>1. GeometryOK(geo)
    BY GeoOK DEF IInv
  <2> QED
    BY <2>1 DEF IInv, TypeOK, Ops, GeometryOK
<1>2. curr' = Advance(geo, curr, call.se, nr)
  BY DEF Iterate
<1>3. er = "EOF"
  <2>1. ~(er = "nil" /\ call.left - nr > 0)
    <3> SUFFICES ASSUME er = "nil" /\ call.left - nr > 0
                 PROVE  FALSE
      OBVIOUS
    <3>1. call' = [call EXCEPT !.left = call.left - nr, !.se = NextEnd(geo, curr, call.se, nr)]
      BY DEF Iterate
    <3>2. call'.op = call.op
      BY <3>1 DEF IInv, TypeOK
    <3> QED
      BY <3>2
  <2>2. \/ ret'.err = er
        \/ ret'.err = "nil"
        \/ ret'.err = "UEOF" /\ er = "EOF"
    BY <2>1 DEF Iterate, Ret
  <2>3. er \in {"nil", "EOF", "io"}
    BY DEF LoopError
  <2> HIDE DEF er
  <2> QED
    BY <2>2, <2>3
<1>4. CASE e = "EOF"
  <2>1. curr + nr >= fsize /\ call.op = "read"
    BY <1>1, <1>4 DEF Available
  <2>2. curr' >= curr + nr
    BY <1>1, <1>2 DEF Advance, GeometryOK
  <2>3. curr' \in Nat
    BY <1>1, <1>2 DEF Advance, GeometryOK
  <2> QED
    BY <1>1, <2>1, <2>2, <2>3
<1>5. CASE e # "EOF"
  <2>1. AtEnd(geo, call.op, curr')
    BY <1>2, <1>3, <1>5 DEF LoopError
  <2> QED
    BY <1>1, <2>1 DEF AtEnd
<1> QED
  BY <1>4, <1>5

\* A Read with an end is short for want of data only there or at the end of the
\* file, and no Write without an end reports io.EOF (strider.go:160, 193).
THEOREM ShortExplained == Spec => ShortOnlyAtEnd
<1> DEFINE Short == call.op # "idle" /\ call'.op = "idle" /\ ret'.err \in {"EOF", "UEOF"} =>
                      \/ call.op = "read" /\ (fsize <= curr' \/ geo.end = 0)
                      \/ geo.end > 0 /\ curr' >= geo.end
<1>1. ASSUME IInv, [Next]_vars
      PROVE  [Short]_vars
  <2>1. CASE ReadChunk \/ WriteChunk
    <3> DEFINE nn == Chunk(geo, curr, call.se, call.left)
    <3>1. PICK nr \in 0..nn, e \in {"nil", "EOF", "io"} :
            /\ Iterate(nr, e)
            /\ e = "EOF" => call.op = "read" /\ nr = Available(curr, fsize)
      BY <2>1 DEF ReadChunk, WriteChunk, ReadAt, WriteAt
    <3>2. call.op # "idle" /\ geo' = geo /\ (fsize' = fsize \/ call.op = "write")
      BY <2>1 DEF ReadChunk, WriteChunk
    <3>3. nr \in Nat /\ nr <= nn
      <4> HIDE DEF nn
      <4> QED
        BY <3>1
    <3> QED
      BY <1>1, <3>1, <3>2, <3>3, IterateShort
  <2>2. CASE Panic
    BY <2>2 DEF Panic, Ret
  <2> QED
    BY <1>1, <2>1, <2>2 DEF Next, Step, Call, CallOther, Extend, vars
<1> QED
  BY <1>1, Invariance, PTL DEF Spec, ShortOnlyAtEnd

=============================================================================
