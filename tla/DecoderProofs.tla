---------------------------- MODULE DecoderProofs ----------------------------
(***************************************************************************)
(* That the soft-output and drift decoders drop no symbol they still need, *)
(* keep every undecided step in their rings, and decide each step once, in *)
(* order and on time: for every code, decision depth, drift window, stream *)
(* and room of a call.  Costs play no part in it, so nothing is said about *)
(* them: the invariant is about how many symbols, steps and decisions      *)
(* there are, and where a sweep is.                                        *)
(***************************************************************************)
EXTENDS DecoderStream, TLAPS

IsSeq(s) == \E S : s \in Seq(S)

\* What the driver fed, and what of it stands in the buffer.
FedInv ==
  /\ kind \in {"bcjr", "maxir", "hybrid", "vindel"} /\ stream \in Seq(Received)
  /\ fed \in 0..Len(stream) /\ flushed \in BOOLEAN
  /\ received \in Seq(Received) /\ origin \in Nat /\ readBase \in Nat
  /\ Len(received) = fed - origin

\* The calls, and which of them say that the stream is over.
CallInv ==
  /\ call \in {"idle", "decode", "flush", "drain"} /\ left \in Nat
  /\ call = "decode" => ~flushed
  /\ call \in {"flush", "drain"} => flushed
  /\ call = "drain" => kind = "vindel" /\ Len(received) - readBase < N

CountInv ==
  /\ steps \in Nat /\ committed \in 0..steps
  /\ IsSeq(outs) /\ IsSeq(fifo) /\ sweep \in [t : Int, hi : Int]
  /\ steps - committed <= (IF Hard(kind) THEN Depth ELSE Span)

\* The cursor of bcjr, whose sweeps read symbols again.
StraightInv ==
  kind = "bcjr" =>
    /\ origin + readBase = steps * N
    /\ readBase <= Len(received)
    /\ committed < steps => origin <= committed * N

\* The cursor of a decoder that follows drifts.
DriftingInv ==
  kind # "bcjr" =>
    /\ readBase <= Len(received) + (IF MaxDrift = 0 THEN 0 ELSE 1)
    /\ MaxDrift > 0 /\ origin > 0 => readBase >= MaxDrift + 1

\* A sweep decides what was not decided, and nothing younger than Depth steps.
SweepingInv ==
  sweep # NoSweep =>
    /\ sweep.hi \in committed..(steps - 1)
    /\ sweep.t \in (committed - 1)..(steps - 1)
    /\ Len(outs) = committed
    /\ Len(fifo) = IF sweep.t < sweep.hi THEN sweep.hi - sweep.t ELSE 0
    /\ ~flushed => steps - sweep.hi > Depth
    /\ call # "idle"
    /\ kind = "hybrid" => sweep.hi - committed < left

\* Decisions are handed out in order.
OrderInv ==
  /\ sweep = NoSweep => Len(outs) + Len(fifo) = committed
  /\ kind = "hybrid" /\ sweep = NoSweep => fifo = <<>>
  /\ kind = "vindel" => sweep = NoSweep /\ fifo = <<>>
  /\ kind = "vindel" /\ ~flushed => IF steps < Depth THEN committed = 0 ELSE steps - committed >= Depth

DecoderInv ==
  /\ FedInv /\ CallInv /\ CountInv /\ StraightInv /\ DriftingInv /\ SweepingInv /\ OrderInv

\* What Cadence says of a step.
OnTime ==
  /\ committed' > committed /\ ~flushed => steps - committed' >= (IF Hard(kind) THEN Depth - 1 ELSE Depth)
  /\ Len(outs') > Len(outs) => Len(outs') <= committed'
  /\ call # "idle" /\ call' = "idle" /\ left' = 0 /\ left > Len(fifo)
       => /\ fed - Middle < Need
          /\ Len(outs') = committed'
          /\ steps - committed' <= (IF flushed THEN 0 ELSE Held(kind))

-----------------------------------------------------------------------------
(* Numbers and sequences.                                                  *)
\* The constants, as far as counting asks.
LEMMA Sizes ==
  /\ N \in Nat /\ N >= 1 /\ Depth \in Nat /\ Depth >= 1 /\ MaxDrift \in Nat
  /\ Batch = Depth /\ Span = 2 * Depth
BY ConvCodeAssumption, SoftWindowAssumption, DriftTrellisAssumption DEF N, Batch, Span

\* The shorter of two.
LEMMA LeastOfTwo ==
  ASSUME NEW a \in Int, NEW b \in Int
  PROVE  Least({a, b}) \in {a, b} /\ Least({a, b}) <= a /\ Least({a, b}) <= b
<1>1. \E c \in {a, b} : \A d \in {a, b} : c <= d
  <2>1. CASE a <= b  BY <2>1
  <2>2. CASE b <= a  BY <2>2
  <2> QED  BY <2>1, <2>2
<1> QED  BY <1>1 DEF Least

\* More groups hold more symbols.
LEMMA MoreGroups ==
  ASSUME NEW a \in Int, NEW b \in Int, a <= b
  PROVE  a * N <= b * N
<1>1. N \in Nat  BY Sizes
<1>2. b * N = a * N + (b - a) * N  BY <1>1
<1>3. (b - a) * N >= 0  BY <1>1
<1> QED  BY <1>1, <1>2, <1>3

\* One step, one group.
LEMMA OneGroupMore ==
  ASSUME NEW a \in Int
  PROVE  a * N \in Int /\ (a + 1) * N = a * N + N
BY Sizes

\* Sequences of whatever values.
LEMMA EmptyIsSeq == IsSeq(<<>>) /\ Len(<<>>) = 0
<1>1. <<>> \in Seq({})  OBVIOUS
<1> QED  BY <1>1 DEF IsSeq

LEMMA LengthIsNat ==
  ASSUME NEW s, IsSeq(s)
  PROVE  Len(s) \in Nat
BY DEF IsSeq

LEMMA Appended ==
  ASSUME NEW s, IsSeq(s), NEW x
  PROVE  IsSeq(Append(s, x)) /\ Len(Append(s, x)) = Len(s) + 1
<1> PICK S : s \in Seq(S)  BY DEF IsSeq
<1>1. s \in Seq(S \cup {x})  OBVIOUS
<1>2. Append(s, x) \in Seq(S \cup {x}) /\ Len(Append(s, x)) = Len(s) + 1  BY <1>1
<1> QED  BY <1>2 DEF IsSeq

LEMMA Concatenated ==
  ASSUME NEW s, NEW t, IsSeq(s), IsSeq(t)
  PROVE  IsSeq(s \o t) /\ Len(s \o t) = Len(s) + Len(t)
<1> PICK S : s \in Seq(S)  BY DEF IsSeq
<1> PICK T : t \in Seq(T)  BY DEF IsSeq
<1>1. s \in Seq(S \cup T) /\ t \in Seq(S \cup T)  OBVIOUS
<1>2. s \o t \in Seq(S \cup T) /\ Len(s \o t) = Len(s) + Len(t)  BY <1>1
<1> QED  BY <1>2 DEF IsSeq

LEMMA TailShorter ==
  ASSUME NEW s, IsSeq(s), s # <<>>
  PROVE  IsSeq(Tail(s)) /\ Len(Tail(s)) = Len(s) - 1 /\ Len(s) > 0
<1> PICK S : s \in Seq(S)  BY DEF IsSeq
<1>1. Tail(s) \in Seq(S) /\ Len(Tail(s)) = Len(s) - 1 /\ Len(s) > 0  OBVIOUS
<1> QED  BY <1>1 DEF IsSeq

LEMMA EmptyByLength ==
  ASSUME NEW s, IsSeq(s)
  PROVE  Len(s) = 0 <=> s = <<>>
<1> PICK S : s \in Seq(S)  BY DEF IsSeq
<1> QED  OBVIOUS

LEMMA Prepended ==
  ASSUME NEW s, IsSeq(s), NEW x
  PROVE  IsSeq(<<x>> \o s) /\ Len(<<x>> \o s) = Len(s) + 1
<1>1. <<x>> \in Seq({x}) /\ Len(<<x>>) = 1  OBVIOUS
<1>2. IsSeq(<<x>>)  BY <1>1 DEF IsSeq
<1> QED  BY <1>1, <1>2, Concatenated, LengthIsNat

-----------------------------------------------------------------------------
(* The received buffer.                                                    *)
\* What of the stream a call is given.
LEMMA NextPiece ==
  ASSUME FedInv, NEW k \in Nat, fed + k <= Len(stream)
  PROVE  /\ NextSymbols(k) \in Seq(Received) /\ Len(NextSymbols(k)) = k
         /\ Heard(NextSymbols(k)) \in Seq(Received) /\ Len(Heard(NextSymbols(k))) = k
<1> DEFINE piece == SubSeq(stream, fed + 1, fed + k)
<1>1. piece \in Seq(Received) /\ Len(piece) = k
  BY DEF FedInv
<1>2. Erasure \in Received
  BY DEF Received
<1>3. Heard(piece) = [i \in 1..k |-> IF piece[i] \in Value THEN piece[i] ELSE Erasure]
  BY <1>1 DEF Heard
<1>4. \A i \in 1..k : piece[i] \in Received
  BY <1>1
<1> HIDE DEF piece
<1>5. Heard(piece) \in [1..k -> Received]
  BY <1>2, <1>3, <1>4
<1>6. Heard(piece) \in Seq(Received) /\ Len(Heard(piece)) = k
  BY <1>5
<1> QED  BY <1>1, <1>6 DEF NextSymbols, piece

\* Dropping the front of the buffer and adding to its end.
LEMMA Compacts ==
  ASSUME FedInv, NEW drop \in 0..Len(received), NEW cur \in Nat, drop <= cur,
         NEW syms \in Seq(Received), CompactedTo(drop, cur, syms)
  PROVE  /\ received' \in Seq(Received) /\ origin' = origin + drop /\ readBase' = cur - drop
         /\ origin' \in Nat /\ readBase' \in Nat
         /\ Len(received') = Len(received) - drop + Len(syms)
<1> DEFINE rest == SubSeq(received, drop + 1, Len(received))
<1>1. rest \in Seq(Received) /\ Len(rest) = Len(received) - drop
  BY DEF FedInv
<1>2. rest \o syms \in Seq(Received) /\ Len(rest \o syms) = Len(rest) + Len(syms)
  BY <1>1
<1> QED  BY <1>1, <1>2 DEF CompactedTo, FedInv

\* The cursor of a decoder that follows drifts, where it goes to `cur`: history
\* for a step of the window back is kept.
LEMMA DriftCompacts ==
  ASSUME FedInv, kind # "bcjr", kind' = kind, stream' = stream, flushed' = flushed,
         NEW cur \in Nat, cur <= Len(received) + (IF MaxDrift = 0 THEN 0 ELSE 1),
         MaxDrift > 0 /\ origin > 0 => cur >= MaxDrift + 1,
         NEW drop \in {0, Dropped(cur)}, NEW syms \in Seq(Received),
         CompactedTo(drop, cur, syms), fed' = fed + Len(syms), fed' <= Len(stream)
  PROVE  FedInv' /\ DriftingInv' /\ Len(received') - readBase' = Len(received) + Len(syms) - cur
<1>1. MaxDrift \in Nat /\ Len(received) \in Nat /\ Len(syms) \in Nat
  BY Sizes DEF FedInv
<1>2. drop \in 0..Len(received) /\ drop <= cur
  BY <1>1 DEF Dropped
<1>3. /\ received' \in Seq(Received) /\ origin' = origin + drop /\ readBase' = cur - drop
      /\ origin' \in Nat /\ readBase' \in Nat
      /\ Len(received') = Len(received) - drop + Len(syms)
  BY <1>2, Compacts
<1>4. FedInv'
  BY <1>1, <1>2, <1>3 DEF FedInv
<1>5. DriftingInv'
  <2>1. CASE drop = 0
    BY <1>1, <1>3, <2>1 DEF DriftingInv, FedInv
  <2>2. CASE drop # 0
    <3>1. drop = cur - 2 * MaxDrift
      BY <1>1, <2>2 DEF Dropped
    <3> QED  BY <1>1, <1>2, <1>3, <3>1 DEF DriftingInv, FedInv
  <2> QED  BY <2>1, <2>2
<1> QED  BY <1>1, <1>3, <1>4, <1>5

\* The cursor of bcjr, where it goes to `cur`: what an undecided step received is kept.
LEMMA StraightCompacts ==
  ASSUME FedInv, CountInv, StraightInv, kind = "bcjr",
         kind' = kind, stream' = stream, flushed' = flushed,
         NEW cur \in Nat, cur <= Len(received), committed' = committed, steps' \in Nat,
         steps' >= steps, origin + cur = steps' * N,
         NEW drop \in {0, B!OldestNeeded(committed, steps', cur)}, NEW syms \in Seq(Received),
         B!CompactedTo(drop, cur, syms), fed' = fed + Len(syms), fed' <= Len(stream)
  PROVE  FedInv' /\ StraightInv' /\ Len(received') - readBase' = Len(received) + Len(syms) - cur
<1> DEFINE undecided == committed * N
           taken == steps * N
           now == steps' * N
<1>1. /\ N \in Nat /\ Len(received) \in Nat /\ Len(syms) \in Nat /\ steps \in Nat /\ committed \in Nat
      /\ committed <= steps /\ origin \in Nat /\ readBase \in Nat
  BY Sizes DEF FedInv, CountInv
<1>2. undecided \in Int /\ taken \in Int /\ now \in Int
  BY <1>1
<1>3. undecided <= now
  <2>1. committed \in Int /\ steps' \in Int /\ committed <= steps'
    BY <1>1
  <2> QED  BY <2>1, MoreGroups, Zenon
<1>4. committed < steps' => origin <= undecided
  <2>1. CASE committed < steps
    BY <2>1 DEF StraightInv
  <2>2. CASE committed = steps
    <3>1. undecided = taken
      BY <2>2
    <3> QED  BY <1>1, <1>2, <3>1 DEF StraightInv
  <2> QED  BY <1>1, <2>1, <2>2
<1>5. B!OldestNeeded(committed, steps', cur) = IF committed < steps' THEN undecided - origin ELSE cur
  <2>1. B!N = N
    BY DEF B!N, N
  <2> QED  BY <1>1, <1>2, <1>4, <2>1 DEF B!OldestNeeded
<1> HIDE DEF undecided, taken, now
<1>6. origin + cur = now
  BY DEF now
<1>7. drop \in 0..Len(received) /\ drop <= cur
  BY <1>1, <1>2, <1>3, <1>4, <1>5, <1>6
<1>8. CompactedTo(drop, cur, syms)
  BY DEF CompactedTo, B!CompactedTo
<1>9. /\ received' \in Seq(Received) /\ origin' = origin + drop /\ readBase' = cur - drop
      /\ origin' \in Nat /\ readBase' \in Nat
      /\ Len(received') = Len(received) - drop + Len(syms)
  BY <1>7, <1>8, Compacts
<1>10. FedInv'
  BY <1>1, <1>7, <1>9 DEF FedInv
<1>11. StraightInv'
  <2>1. origin' + readBase' = now /\ readBase' <= Len(received')
    BY <1>1, <1>2, <1>6, <1>7, <1>9
  <2>2. committed' < steps' => origin' <= undecided
    BY <1>1, <1>2, <1>4, <1>5, <1>9
  <2> QED  BY <2>1, <2>2 DEF StraightInv, now, undecided
<1> QED  BY <1>1, <1>7, <1>9, <1>10, <1>11

-----------------------------------------------------------------------------
(* Calls begin.                                                            *)
\* No decision is made or taken while nothing is called.
LEMMA BeginsKeeps ==
  ASSUME CallInv, CountInv, SweepingInv, OrderInv, call = "idle", flushed' \in BOOLEAN,
         call' \in {"idle", "decode", "flush"}, left' \in Nat,
         call' = "decode" => ~flushed', call' = "flush" => flushed', flushed => flushed',
         UNCHANGED <<kind, steps, committed, outs, sweep, fifo>>
  PROVE  CallInv' /\ CountInv' /\ SweepingInv' /\ OrderInv' /\ OnTime
<1>1. CallInv'
  BY DEF CallInv
<1>2. CountInv'
  BY DEF CountInv, Hard, Span, Batch
<1>3. sweep = NoSweep /\ SweepingInv'
  BY DEF SweepingInv, NoSweep
<1>4. OrderInv'
  BY DEF OrderInv, NoSweep
<1>5. OnTime
  <2>1. committed \in Int /\ Len(outs) \in Int
    BY LengthIsNat DEF CountInv
  <2> QED  BY <2>1 DEF OnTime
<1> QED  BY <1>1, <1>2, <1>3, <1>4, <1>5

\* What a call of each decoder does first.
LEMMA FeedKeeps ==
  ASSUME DecoderInv, NEW syms \in Seq(Received), NEW drop,
         \/ /\ kind = "bcjr" /\ drop = B!OldestNeeded(committed, steps, readBase)
            /\ B!CompactedTo(drop, readBase, syms)
         \/ kind # "bcjr" /\ drop = Dropped(readBase) /\ CompactedTo(drop, readBase, syms),
         fed' = fed + Len(syms), fed' <= Len(stream),
         UNCHANGED <<kind, stream, flushed, steps, committed>>
  PROVE  FedInv' /\ StraightInv' /\ DriftingInv'
<1> USE DEF DecoderInv
<1>1. readBase \in Nat /\ steps \in Nat
  BY DEF FedInv, CountInv
<1>2. CASE kind = "bcjr"
  <2>1. steps' = steps /\ readBase <= Len(received) /\ origin + readBase = steps' * N
    BY <1>2 DEF StraightInv
  <2>2. drop \in {0, B!OldestNeeded(committed, steps', readBase)} /\ B!CompactedTo(drop, readBase, syms)
    BY <1>2, <2>1
  <2>3. FedInv' /\ StraightInv'
    BY <1>1, <1>2, <2>1, <2>2, StraightCompacts
  <2> QED  BY <1>2, <2>3 DEF DriftingInv
<1>3. CASE kind # "bcjr"
  <2>1. drop \in {0, Dropped(readBase)} /\ CompactedTo(drop, readBase, syms)
    BY <1>3
  <2>2. FedInv' /\ DriftingInv'
    BY <1>1, <1>3, <2>1, DriftCompacts DEF DriftingInv
  <2> QED  BY <1>3, <2>2 DEF StraightInv
<1> QED  BY <1>2, <1>3

LEMMA DecodeKeeps ==
  ASSUME DecoderInv, NEW k \in Nat, NEW room \in Nat, Decode(k, room)
  PROVE  DecoderInv' /\ OnTime
<1>1. /\ fed + k <= Len(stream) /\ fed' = fed + k /\ ~flushed
      /\ UNCHANGED <<kind, stream, flushed>>
  BY DEF Decode
<1>2. /\ NextSymbols(k) \in Seq(Received) /\ Len(NextSymbols(k)) = k
      /\ Heard(NextSymbols(k)) \in Seq(Received) /\ Len(Heard(NextSymbols(k))) = k
  BY <1>1, NextPiece DEF DecoderInv
<1> DEFINE Done == /\ call = "idle" /\ call' = "decode" /\ left' = room
                   /\ UNCHANGED <<steps, committed, outs, sweep, fifo>>
                   /\ FedInv' /\ StraightInv' /\ DriftingInv'
<1>3. ASSUME kind = "bcjr" PROVE Done
  <2>1. B!StartDecode(NextSymbols(k), room)
    BY <1>3 DEF Decode
  <2>2. /\ call = "idle" /\ call' = "decode" /\ left' = room
        /\ UNCHANGED <<steps, committed, outs, sweep, fifo>>
        /\ B!CompactedTo(B!OldestNeeded(committed, steps, readBase), readBase, NextSymbols(k))
    BY <2>1 DEF B!StartDecode, B!Called, B!Feed, B!tracking
  <2> QED  BY <1>1, <1>2, <1>3, <2>2, FeedKeeps
<1>4. ASSUME kind \in {"maxir", "hybrid"} PROVE Done
  <2>1. StartDecode(NextSymbols(k), room)
    BY <1>4 DEF Decode
  <2>2. /\ call = "idle" /\ call' = "decode" /\ left' = room
        /\ UNCHANGED <<steps, committed, outs, sweep, fifo>>
        /\ CompactedTo(Dropped(readBase), readBase, NextSymbols(k))
    BY <2>1 DEF StartDecode, Called, Feed, tracking
  <2> QED  BY <1>1, <1>2, <1>4, <2>2, FeedKeeps
<1>5. ASSUME kind = "vindel" PROVE Done
  <2>1. VindelDecode(NextSymbols(k), room) /\ OthersIdle
    BY <1>5 DEF Decode
  <2>2. /\ call = "idle" /\ call' = "decode" /\ left' = room
        /\ UNCHANGED <<steps, committed, outs, sweep, fifo>>
        /\ CompactedTo(Dropped(readBase), readBase, Heard(NextSymbols(k)))
    BY <1>5, <2>1 DEF VindelDecode, Feed, tracking, OthersIdle, sweeping
  <2> QED  BY <1>1, <1>2, <1>5, <2>2, FeedKeeps
<1> HIDE DEF Done
<1>6. Done
  BY <1>3, <1>4, <1>5 DEF DecoderInv, FedInv
<1> USE DEF Done
<1> QED
  <2>1. CallInv' /\ CountInv' /\ SweepingInv' /\ OrderInv' /\ OnTime
    BY <1>1, <1>6, BeginsKeeps DEF DecoderInv, FedInv
  <2> QED  BY <1>6, <2>1 DEF DecoderInv

\* A call that finds no memory has compacted the buffer.
LEMMA DecodeFailsKeeps ==
  ASSUME DecoderInv, NEW k \in Nat, DecodeFails(k)
  PROVE  DecoderInv' /\ OnTime
<1> DEFINE Done == /\ call = "idle" /\ UNCHANGED <<steps, committed, outs, sweep, fifo, call, left>>
                   /\ FedInv' /\ StraightInv' /\ DriftingInv'
<1>1. UNCHANGED <<kind, stream, fed, flushed>> /\ OthersIdle
  BY DEF DecodeFails, driving
<1>2. <<>> \in Seq(Received) /\ fed' = fed + Len(<<>>) /\ fed' <= Len(stream)
  BY <1>1 DEF DecoderInv, FedInv
<1>3. ASSUME kind = "bcjr" PROVE Done
  <2>1. B!DecodeNoMemory(NextSymbols(k))
    BY <1>3 DEF DecodeFails
  <2>2. /\ call = "idle" /\ UNCHANGED <<steps, committed, outs, sweep, fifo, call, left>>
        /\ B!CompactedTo(B!OldestNeeded(committed, steps, readBase), readBase, <<>>)
    BY <2>1 DEF B!DecodeNoMemory, B!tracking, B!window, B!deciding
  <2> QED  BY <1>1, <1>2, <1>3, <2>2, FeedKeeps
<1>4. ASSUME kind \in {"maxir", "hybrid"} PROVE Done
  <2>1. DecodeNoMemory(NextSymbols(k))
    BY <1>4 DEF DecodeFails
  <2>2. /\ call = "idle" /\ UNCHANGED <<steps, committed, outs, sweep, fifo, call, left>>
        /\ CompactedTo(Dropped(readBase), readBase, <<>>)
    BY <2>1 DEF DecodeNoMemory, FeedNoMemory, tracking, window, deciding
  <2> QED  BY <1>1, <1>2, <1>4, <2>2, FeedKeeps
<1>5. ASSUME kind = "vindel" PROVE Done
  <2>1. VindelNoMemory(NextSymbols(k))
    BY <1>5 DEF DecodeFails
  <2>2. /\ call = "idle" /\ UNCHANGED <<steps, committed, outs, sweep, fifo, call, left>>
        /\ CompactedTo(Dropped(readBase), readBase, <<>>)
    BY <1>1, <1>5, <2>1 DEF VindelNoMemory, FeedNoMemory, tracking, deciding, OthersIdle, sweeping
  <2> QED  BY <1>1, <1>2, <1>5, <2>2, FeedKeeps
<1> HIDE DEF Done
<1>6. Done
  BY <1>3, <1>4, <1>5 DEF DecoderInv, FedInv
<1> QED
  <2>1. CallInv' /\ CountInv' /\ SweepingInv' /\ OrderInv' /\ OnTime
    BY <1>1, <1>6, BeginsKeeps DEF DecoderInv, FedInv, CallInv, Done
  <2> QED  BY <1>6, <2>1 DEF DecoderInv, Done

LEMMA FlushKeeps ==
  ASSUME DecoderInv, NEW room \in Nat, Flush(room)
  PROVE  DecoderInv' /\ OnTime
<1> DEFINE Done == /\ call = "idle" /\ call' = "flush" /\ left' = room
                   /\ UNCHANGED <<steps, committed, outs, sweep, fifo, received, origin, readBase>>
<1>1. UNCHANGED <<kind, stream, fed>> /\ flushed' = TRUE /\ OthersIdle
  BY DEF Flush
<1>2. ASSUME kind = "bcjr" PROVE Done
  <2>1. B!StartFlush(room)
    BY <1>2 DEF Flush
  <2> QED  BY <2>1 DEF B!StartFlush, B!Called, B!tracking, B!buffer
<1>3. ASSUME kind \in {"maxir", "hybrid"} PROVE Done
  <2>1. StartFlush(room)
    BY <1>3 DEF Flush
  <2> QED  BY <2>1 DEF StartFlush, Called, tracking, buffer
<1>4. ASSUME kind = "vindel" PROVE Done
  <2>1. VindelFlush(room)
    BY <1>4 DEF Flush
  <2> QED  BY <1>1, <1>4, <2>1 DEF VindelFlush, tracking, buffer, OthersIdle, sweeping
<1> HIDE DEF Done
<1>5. Done
  BY <1>2, <1>3, <1>4 DEF DecoderInv, FedInv
<1> QED
  <2>1. CallInv' /\ CountInv' /\ SweepingInv' /\ OrderInv' /\ OnTime
    BY <1>1, <1>5, BeginsKeeps DEF DecoderInv, Done
  <2>2. FedInv' /\ StraightInv' /\ DriftingInv'
    BY <1>1, <1>5 DEF DecoderInv, FedInv, StraightInv, DriftingInv, CountInv, Done
  <2> QED  BY <2>1, <2>2 DEF DecoderInv

-----------------------------------------------------------------------------
(* The rounds of produce, shared by bcjr and maxir.                        *)
\* A round that takes no step of the trellis.
Still == UNCHANGED <<kind, stream, fed, flushed, steps, received, origin, readBase>>

\* It leaves the buffer as it is; with more decided, less of it is needed.
LEMMA StillKeeps ==
  ASSUME DecoderInv, Still, committed' \in committed..steps
  PROVE  FedInv' /\ StraightInv' /\ DriftingInv'
<1>1. FedInv' /\ DriftingInv'
  BY DEF DecoderInv, FedInv, DriftingInv, Still
<1>2. StraightInv'
  <2> DEFINE before == committed * N
             after == committed' * N
  <2>1. /\ committed \in Int /\ committed' \in Int /\ committed <= committed'
        /\ committed' < steps' => committed < steps
    BY DEF DecoderInv, CountInv, Still
  <2>2. before <= after
    BY <2>1, MoreGroups, Zenon
  <2>3. before \in Int /\ after \in Int /\ origin \in Int
    BY <2>1, Sizes DEF DecoderInv, FedInv
  <2>4. kind = "bcjr" /\ committed' < steps' => origin <= before
    BY <2>1 DEF DecoderInv, StraightInv
  <2> HIDE DEF before, after
  <2>5. kind = "bcjr" /\ committed' < steps' => origin <= after
    BY <2>2, <2>3, <2>4
  <2> QED  BY <2>5 DEF DecoderInv, StraightInv, Still, after
<1> QED  BY <1>1, <1>2

LEMMA StepKeeps ==
  ASSUME DecoderInv, kind # "vindel", call # "idle", sweep = NoSweep, steps' = steps + 1,
         UNCHANGED <<kind, stream, fed, flushed, committed, outs, call, left, sweep, fifo>>,
         steps - committed < Span, FedInv', StraightInv', DriftingInv'
  PROVE  DecoderInv' /\ OnTime
<1> USE DEF DecoderInv
<1>1. steps \in Nat /\ committed \in Nat /\ Len(outs) \in Nat /\ Len(fifo) \in Nat
  BY LengthIsNat DEF CountInv
<1>2. CallInv' /\ CountInv'
  BY <1>1, Sizes DEF CallInv, CountInv, Hard, Span, Batch
<1>3. SweepingInv' /\ OrderInv'
  BY <1>1 DEF SweepingInv, OrderInv, NoSweep
<1>4. OnTime
  BY <1>1 DEF OnTime
<1> QED  BY <1>2, <1>3, <1>4

LEMMA TakeKeeps ==
  ASSUME DecoderInv, kind \in {"bcjr", "maxir"}, Take, Still
  PROVE  DecoderInv' /\ OnTime
<1> USE DEF DecoderInv
<1>1. /\ steps \in Nat /\ committed \in Nat /\ committed <= steps
      /\ Len(outs) \in Nat /\ Len(fifo) \in Nat /\ left \in Nat
  BY LengthIsNat DEF CountInv, CallInv
<1>2. /\ IsSeq(outs') /\ Len(outs') = Len(outs) + 1
      /\ IsSeq(fifo') /\ Len(fifo') = Len(fifo) - 1
      /\ call # "idle" /\ sweep = NoSweep /\ left > 0 /\ left' = left - 1
      /\ UNCHANGED <<committed, sweep, call>>
  BY Appended, TailShorter DEF Take, CountInv
<1>3. FedInv' /\ StraightInv' /\ DriftingInv'
  BY <1>1, <1>2, StillKeeps
<1>4. CallInv' /\ CountInv'
  BY <1>1, <1>2 DEF CallInv, CountInv, Hard, Span, Batch, Still
<1>5. SweepingInv' /\ OrderInv'
  BY <1>1, <1>2 DEF SweepingInv, OrderInv, NoSweep, Still
<1>6. OnTime
  BY <1>1, <1>2, <1>5 DEF OnTime, OrderInv, NoSweep
<1> QED  BY <1>3, <1>4, <1>5, <1>6

LEMMA SweepBeginsKeeps ==
  ASSUME DecoderInv, kind \in {"bcjr", "maxir"}, NEW canForward, SweepBegins(canForward), Still
  PROVE  DecoderInv' /\ OnTime
<1> USE DEF DecoderInv
<1>1. /\ steps \in Nat /\ committed \in Nat /\ committed <= steps
      /\ Len(outs) \in Nat /\ Len(fifo) = 0 /\ left \in Nat
      /\ call # "idle" /\ sweep = NoSweep
      /\ UNCHANGED <<committed, fifo, outs, call, left>>
  BY LengthIsNat, EmptyIsSeq DEF CountInv, CallInv, SweepBegins, Wanting
<1>2. Depth \in Nat /\ Depth >= 1 /\ Batch = Depth /\ Span = 2 * Depth
  BY Sizes
<1>3. /\ sweep'.t = steps - 1
      /\ sweep' \in [t : Int, hi : Int]
      /\ sweep'.hi \in committed..(steps - 1)
      /\ ~flushed => steps - sweep'.hi > Depth
  <2>1. CASE WindowFull /\ sweep' = [t |-> steps - 1, hi |-> committed + Batch - 1]
    BY <1>1, <1>2, <2>1 DEF WindowFull
  <2>2. CASE call = "flush" /\ committed < steps /\ sweep' = [t |-> steps - 1, hi |-> steps - 1]
    BY <1>1, <1>2, <2>2 DEF CallInv
  <2> QED  BY <2>1, <2>2 DEF SweepBegins
<1>4. FedInv' /\ StraightInv' /\ DriftingInv'
  BY <1>1, StillKeeps
<1>5. CallInv' /\ CountInv'
  BY <1>1, <1>3 DEF CallInv, CountInv, Hard, Span, Batch, Still
<1>6. SweepingInv' /\ OrderInv'
  BY <1>1, <1>3 DEF SweepingInv, OrderInv, NoSweep, Still
<1>7. OnTime
  BY <1>1 DEF OnTime
<1> QED  BY <1>4, <1>5, <1>6, <1>7

\* The sweep is not over: no record of the sweep is NoSweep.
LEMMA SweepMovesKeeps ==
  ASSUME DecoderInv, kind # "vindel", NEW decision, SweepMoves(decision), Still
  PROVE  DecoderInv' /\ OnTime
<1> USE DEF DecoderInv
<1>1. /\ steps \in Nat /\ committed \in Nat /\ committed <= steps
      /\ Len(outs) \in Nat /\ Len(fifo) \in Nat /\ left \in Nat
      /\ sweep \in [t : Int, hi : Int] /\ sweep # NoSweep
      /\ UNCHANGED <<committed, outs, call, left>>
  BY LengthIsNat DEF CountInv, CallInv, SweepMoves
<1>2. /\ sweep' \in [t : Int, hi : Int] /\ sweep'.t = sweep.t - 1 /\ sweep'.hi = sweep.hi
      /\ sweep.t >= committed
  BY <1>1 DEF SweepMoves
<1>3. IsSeq(fifo') /\ Len(fifo') = Len(fifo) + (IF sweep.t <= sweep.hi THEN 1 ELSE 0)
  BY <1>1, Prepended DEF SweepMoves, CountInv
<1>4. FedInv' /\ StraightInv' /\ DriftingInv'
  BY <1>1, StillKeeps
<1>5. CallInv' /\ CountInv'
  BY <1>1, <1>2, <1>3 DEF CallInv, CountInv, Hard, Span, Batch, Still
<1>6. sweep' # NoSweep /\ SweepingInv'
  BY <1>1, <1>2, <1>3, SMTT(40) DEF SweepingInv, NoSweep, Still
<1>7. OrderInv'
  BY <1>6 DEF OrderInv, Still, NoSweep
<1>8. OnTime
  BY <1>1 DEF OnTime, SweepingInv
<1> QED  BY <1>4, <1>5, <1>6, <1>7, <1>8

LEMMA SweepEndsKeeps ==
  ASSUME DecoderInv, kind \in {"bcjr", "maxir"}, SweepEnds, Still
  PROVE  DecoderInv' /\ OnTime
<1> USE DEF DecoderInv
<1>1. /\ steps \in Nat /\ committed \in Nat /\ committed <= steps
      /\ Len(outs) \in Nat /\ Len(fifo) \in Nat /\ left \in Nat
      /\ sweep \in [t : Int, hi : Int] /\ sweep # NoSweep /\ sweep.t < committed
      /\ committed' = sweep.hi + 1 /\ sweep' = NoSweep
      /\ UNCHANGED <<fifo, outs, call, left>>
  BY LengthIsNat DEF CountInv, CallInv, SweepEnds
<1>2. /\ sweep.hi \in committed..(steps - 1) /\ sweep.t = committed - 1 /\ Len(outs) = committed
      /\ Len(fifo) = sweep.hi - sweep.t /\ call # "idle"
      /\ ~flushed => steps - sweep.hi > Depth
  BY <1>1 DEF SweepingInv
<1>3. Depth \in Nat /\ Depth >= 1 /\ Batch = Depth /\ Span = 2 * Depth
  BY Sizes
<1>4. FedInv' /\ StraightInv' /\ DriftingInv'
  BY <1>1, <1>2, StillKeeps
<1>5. CallInv' /\ CountInv'
  BY <1>1, <1>2, <1>3 DEF CallInv, CountInv, Hard, Still, NoSweep
<1>6. SweepingInv' /\ OrderInv'
  BY <1>1, <1>2 DEF SweepingInv, OrderInv, Still, NoSweep
<1>7. OnTime
  BY <1>1, <1>2, <1>3, SMTT(40) DEF OnTime, Hard
<1> QED  BY <1>4, <1>5, <1>6, <1>7

LEMMA ReturnKeeps ==
  ASSUME DecoderInv, kind \in {"bcjr", "maxir"}, NEW canForward \in BOOLEAN, Return(canForward), Still,
         ~canForward => fed - Middle < Need
  PROVE  DecoderInv' /\ OnTime
<1> USE DEF DecoderInv
<1>1. /\ steps \in Nat /\ committed \in Nat /\ committed <= steps
      /\ Len(outs) \in Nat /\ Len(fifo) \in Nat /\ left \in Nat
      /\ call # "idle" /\ call' = "idle" /\ left' = 0 /\ sweep = NoSweep
      /\ UNCHANGED <<committed, sweep, fifo, outs>>
  BY LengthIsNat DEF CountInv, CallInv, Return
<1>2. Depth \in Nat /\ Depth >= 1 /\ Batch = Depth /\ Span = 2 * Depth
  BY Sizes
<1>3. FedInv' /\ StraightInv' /\ DriftingInv'
  BY <1>1, StillKeeps
<1>4. CallInv' /\ CountInv'
  BY <1>1 DEF CallInv, CountInv, Hard, Span, Batch, Still
<1>5. SweepingInv' /\ OrderInv'
  BY <1>1 DEF SweepingInv, OrderInv, Still, NoSweep
<1>6. OnTime
  <2>1. ASSUME left > Len(fifo)
        PROVE  /\ fed - Middle < Need /\ Len(outs') = committed'
               /\ steps - committed' <= (IF flushed THEN 0 ELSE Held(kind))
    <3>1. fifo = <<>> /\ ~WindowFull /\ ~canForward /\ ~(call = "flush" /\ committed < steps)
      BY <1>1, <2>1 DEF Return
    <3>2. Len(outs) = committed
      BY <1>1, <3>1, EmptyIsSeq DEF OrderInv
    <3>3. flushed => committed = steps
      BY <1>1, <3>1 DEF CallInv
    <3>4. steps - committed <= Span - 1
      BY <1>1, <1>2, <3>1 DEF WindowFull
    <3> QED  BY <1>1, <1>2, <3>1, <3>2, <3>3, <3>4 DEF Held
  <2> QED  BY <1>1, <2>1 DEF OnTime
<1> QED  BY <1>3, <1>4, <1>5, <1>6

-----------------------------------------------------------------------------
(* The rounds of each decoder.                                             *)
LEMMA BcjrRoundKeeps ==
  ASSUME DecoderInv, kind = "bcjr", B!Round, UNCHANGED driving
  PROVE  DecoderInv' /\ OnTime
<1> USE DEF DecoderInv
<1>1. UNCHANGED <<kind, stream, fed, flushed>>
  BY DEF driving
<1>2. B!N = N /\ B!NoSweep = NoSweep /\ B!WindowFull = WindowFull /\ B!Wanting = Wanting
  BY DEF B!N, N, B!NoSweep, NoSweep, B!WindowFull, WindowFull, B!Span, Span, B!Batch, Batch,
         B!Wanting, Wanting
<1>3. /\ N \in Nat /\ Len(received) \in Nat /\ readBase \in Nat /\ origin \in Nat /\ steps \in Nat
      /\ Len(received) = fed - origin /\ fed \in Nat
  BY Sizes DEF FedInv, CountInv
<1>4. CASE B!ForwardStep
  <2>1. PICK drop \in {0, B!OldestNeeded(committed, steps + 1, readBase + N)} :
          B!CompactedTo(drop, readBase + N, <<>>)
    BY <1>2, <1>4 DEF B!ForwardStep
  <2>2. /\ call # "idle" /\ sweep = NoSweep /\ steps' = steps + 1 /\ ~WindowFull
        /\ Len(received) - readBase >= N
        /\ UNCHANGED <<committed, outs, call, left, sweep, fifo>>
    BY <1>2, <1>4 DEF B!ForwardStep, Wanting, B!CanForward, B!Track, B!window, B!deciding
  <2>3. /\ readBase + N \in Nat /\ readBase + N <= Len(received)
        /\ steps' \in Nat /\ steps' >= steps /\ origin + (readBase + N) = steps' * N
    <3>1. origin + readBase = steps * N
      BY DEF StraightInv
    <3>2. steps' * N = steps * N + N /\ steps * N \in Int
      BY <1>3, <2>2, OneGroupMore
    <3> QED  BY <1>3, <2>2, <3>1, <3>2
  <2>4. <<>> \in Seq(Received) /\ fed' = fed + Len(<<>>) /\ fed' <= Len(stream)
    BY <1>1 DEF FedInv
  <2>5. FedInv' /\ StraightInv'
    BY <1>1, <2>1, <2>2, <2>3, <2>4, StraightCompacts
  <2>6. DriftingInv'
    BY <1>1 DEF DriftingInv
  <2>7. steps - committed < Span
    BY <2>2, Sizes DEF WindowFull, CountInv
  <2> QED  BY <1>1, <2>2, <2>5, <2>6, <2>7, StepKeeps
<1>5. ASSUME UNCHANGED <<B!tracking, B!buffer>>
      PROVE  Still
  BY <1>1, <1>5 DEF Still, B!tracking, B!buffer
<1>6. CASE B!SweepBegins(B!CanForward) /\ UNCHANGED <<B!tracking, B!buffer>>
  <2>1. SweepBegins(B!CanForward)
    BY <1>2, <1>6 DEF SweepBegins, B!SweepBegins, B!Batch, Batch
  <2> QED  BY <1>5, <1>6, <2>1, SweepBeginsKeeps
<1>7. CASE B!SweepStep
  <2>1. PICK decision : B!SweepMoves(decision)
    BY <1>7 DEF B!SweepStep
  <2>2. SweepMoves(decision)
    BY <1>2, <2>1 DEF SweepMoves, B!SweepMoves
  <2> QED  BY <1>5, <1>7, <2>2, SweepMovesKeeps DEF B!SweepStep
<1>8. CASE B!Take /\ UNCHANGED <<B!tracking, B!buffer>>
  <2>1. Take
    BY <1>2, <1>8 DEF Take, B!Take
  <2> QED  BY <1>5, <1>8, <2>1, TakeKeeps
<1>9. CASE B!SweepEnds /\ UNCHANGED <<B!tracking, B!buffer>>
  <2>1. SweepEnds
    BY <1>2, <1>9 DEF SweepEnds, B!SweepEnds
  <2> QED  BY <1>5, <1>9, <2>1, SweepEndsKeeps
<1>10. CASE B!Return(B!CanForward) /\ UNCHANGED <<B!tracking, B!buffer>>
  <2>1. Return(B!CanForward)
    BY <1>2, <1>10 DEF Return, B!Return
  <2>2. B!CanForward \in BOOLEAN /\ (~B!CanForward => fed - Middle < Need)
    BY <1>2, <1>3 DEF B!CanForward, Middle, Need
  <2> QED  BY <1>5, <1>10, <2>1, <2>2, ReturnKeeps
<1> QED  BY <1>4, <1>6, <1>7, <1>8, <1>9, <1>10 DEF B!Round

\* A step of a decoder that follows drifts: the window moves at most one
\* position, so the cursor never goes back.
LEMMA DriftMovesOn ==
  ASSUME DecoderInv, kind # "bcjr", NEW draining, CanForward(draining), MoveOn(readBase + PickShift),
         UNCHANGED <<kind, stream, fed, flushed>>
  PROVE  FedInv' /\ DriftingInv' /\ StraightInv'
<1> DEFINE cur == (readBase + PickShift) + N
<1>1. /\ N \in Nat /\ N >= 1 /\ MaxDrift \in Nat /\ Len(received) \in Nat /\ readBase \in Nat /\ origin \in Nat
      /\ Len(received) = fed - origin /\ fed \in Nat /\ fed <= Len(stream)
  BY Sizes DEF DecoderInv, FedInv
<1>2. PickShift \in {-1, 0, 1} /\ (MaxDrift = 0 => PickShift = 0)
  BY DEF PickShift
<1>3. Len(received) - readBase >= N
  BY <1>1 DEF CanForward
<1>4. cur \in Nat /\ cur <= Len(received) + (IF MaxDrift = 0 THEN 0 ELSE 1)
  BY <1>1, <1>2, <1>3
<1>5. MaxDrift > 0 /\ origin > 0 => cur >= MaxDrift + 1
  BY <1>1, <1>2 DEF DecoderInv, DriftingInv
<1>6. PICK drop \in {0, Dropped(cur)} : CompactedTo(drop, cur, <<>>)
  BY DEF MoveOn
<1>7. <<>> \in Seq(Received) /\ fed' = fed + Len(<<>>) /\ fed' <= Len(stream)
  BY <1>1
<1> HIDE DEF cur
<1>8. FedInv' /\ DriftingInv'
  BY <1>4, <1>5, <1>6, <1>7, DriftCompacts DEF DecoderInv
<1> QED  BY <1>8 DEF StraightInv

LEMMA MaxirRoundKeeps ==
  ASSUME DecoderInv, kind = "maxir", MaxirRound, UNCHANGED driving
  PROVE  DecoderInv' /\ OnTime
<1> USE DEF DecoderInv
<1>1. UNCHANGED <<kind, stream, fed, flushed>>
  BY DEF driving
<1>2. CASE MaxirStep
  <2>1. /\ call # "idle" /\ sweep = NoSweep /\ steps' = steps + 1 /\ ~WindowFull
        /\ CanForward(call = "flush") /\ MoveOn(readBase + PickShift)
        /\ UNCHANGED <<committed, outs, call, left, sweep, fifo>>
    BY <1>2 DEF MaxirStep, Wanting, TrellisMoves, Track, window, deciding
  <2>2. FedInv' /\ StraightInv' /\ DriftingInv'
    BY <1>1, <2>1, DriftMovesOn
  <2>3. steps - committed < Span
    BY <2>1, Sizes DEF WindowFull, CountInv
  <2> QED  BY <1>1, <2>1, <2>2, <2>3, StepKeeps
<1>3. ASSUME UNCHANGED <<tracking, buffer>>
      PROVE  Still
  BY <1>1, <1>3 DEF Still, tracking, buffer
<1>4. CASE MaxirSweepBegins
  BY <1>3, <1>4, SweepBeginsKeeps DEF MaxirSweepBegins
<1>5. CASE MaxirSweeps
  <2>1. PICK decision : SweepMoves(decision)
    BY <1>5 DEF MaxirSweeps, Sweeping
  <2> QED  BY <1>3, <1>5, <2>1, SweepMovesKeeps DEF MaxirSweeps, Sweeping
<1>6. CASE Take /\ UNCHANGED <<tracking, buffer>>
  BY <1>3, <1>6, TakeKeeps
<1>7. CASE SweepEnds /\ UNCHANGED <<tracking, buffer>>
  BY <1>3, <1>7, SweepEndsKeeps
<1>8. CASE Return(CanForward(call = "flush")) /\ UNCHANGED <<tracking, buffer>>
  <2>1. CanForward(call = "flush") \in BOOLEAN
    BY DEF CanForward
  <2>2. call # "idle"
    BY <1>8 DEF Return
  <2>3. ~CanForward(call = "flush") => fed - Middle < Need
    <3>1. (call = "flush") <=> flushed
      BY <2>2 DEF CallInv
    <3> QED  BY <3>1, Sizes DEF CanForward, Middle, Need, Width, FedInv
  <2> QED  BY <1>3, <1>8, <2>1, <2>3, ReturnKeeps
<1> QED  BY <1>2, <1>4, <1>5, <1>6, <1>7, <1>8 DEF MaxirRound

LEMMA BatchBeginsKeeps ==
  ASSUME DecoderInv, kind = "hybrid", BatchBegins, Still
  PROVE  DecoderInv' /\ OnTime
<1> USE DEF DecoderInv
<1>1. /\ steps \in Nat /\ committed \in Nat /\ committed <= steps
      /\ Len(outs) \in Nat /\ left \in Nat /\ Depth \in Nat /\ Depth >= 1
      /\ fifo = <<>> /\ Len(fifo) = 0 /\ call # "idle" /\ sweep = NoSweep /\ Due > 0
      /\ sweep' = [t |-> steps - 1, hi |-> committed + Due - 1]
      /\ UNCHANGED <<committed, fifo, outs, call, left>>
  BY Sizes, LengthIsNat, EmptyIsSeq DEF CountInv, CallInv, OrderInv, BatchBegins, Waiting, deciding
<1>2. Due \in Int /\ Due <= left /\ Due <= (IF call = "flush" THEN steps ELSE steps - Depth) - committed
  <2>1. (IF call = "flush" THEN steps ELSE steps - Depth) - committed \in Int /\ left \in Int
    BY <1>1
  <2> QED  BY <1>1, <2>1, LeastOfTwo DEF Due
<1>3. call = "decode" \/ flushed
  BY <1>1 DEF CallInv
<1>4. /\ sweep'.t = steps - 1
      /\ sweep' \in [t : Int, hi : Int]
      /\ sweep'.hi \in committed..(steps - 1)
      /\ sweep'.hi - committed < left
      /\ ~flushed => steps - sweep'.hi > Depth
  BY <1>1, <1>2, <1>3
<1>5. FedInv' /\ StraightInv' /\ DriftingInv'
  BY <1>1, StillKeeps
<1>6. CallInv' /\ CountInv'
  BY <1>1, <1>4 DEF CallInv, CountInv, Hard, Span, Batch, Still
<1>7. SweepingInv' /\ OrderInv'
  BY <1>1, <1>4 DEF SweepingInv, OrderInv, NoSweep, Still
<1>8. OnTime
  BY <1>1 DEF OnTime
<1> QED  BY <1>5, <1>6, <1>7, <1>8

LEMMA BatchEndsKeeps ==
  ASSUME DecoderInv, kind = "hybrid", BatchEnds, Still
  PROVE  DecoderInv' /\ OnTime
<1> USE DEF DecoderInv
<1>1. /\ steps \in Nat /\ committed \in Nat /\ committed <= steps
      /\ Len(outs) \in Nat /\ Len(fifo) \in Nat /\ left \in Nat /\ Depth \in Nat /\ Depth >= 1
      /\ sweep \in [t : Int, hi : Int] /\ sweep # NoSweep /\ sweep.t < committed
      /\ committed' = sweep.hi + 1 /\ sweep' = NoSweep
      /\ fifo' = <<>> /\ left' = left - Len(fifo)
      /\ call' = IF left = Len(fifo) THEN "idle" ELSE call
  BY Sizes, LengthIsNat DEF CountInv, CallInv, BatchEnds
<1>2. /\ sweep.hi \in committed..(steps - 1) /\ sweep.t = committed - 1 /\ Len(outs) = committed
      /\ Len(fifo) = sweep.hi - sweep.t /\ call # "idle" /\ sweep.hi - committed < left
      /\ ~flushed => steps - sweep.hi > Depth
  <2>1. sweep.t \in (committed - 1)..(steps - 1)
    BY <1>1 DEF SweepingInv
  <2> QED  BY <1>1, <2>1 DEF SweepingInv
<1>3. IsSeq(outs') /\ Len(outs') = Len(outs) + Len(fifo) /\ IsSeq(fifo') /\ Len(fifo') = 0
  BY <1>1, Concatenated, EmptyIsSeq DEF CountInv, BatchEnds
<1>4. FedInv' /\ StraightInv' /\ DriftingInv'
  BY <1>1, <1>2, StillKeeps, SMTT(40)
<1>5. CallInv'
  BY <1>1, <1>2, SMTT(40) DEF CallInv, Still
<1>6. CountInv'
  <2>1. Span = 2 * Depth /\ steps' = steps /\ kind' = kind
    BY Sizes DEF Still
  <2>2. sweep' \in [t : Int, hi : Int]
    BY <1>1 DEF NoSweep
  <2> HIDE DEF Span
  <2>3. committed' \in 0..steps /\ steps - committed' <= Span
    BY <1>1, <1>2, <2>1, SMTT(40) DEF CountInv, Hard
  <2> QED  BY <1>3, <2>1, <2>2, <2>3 DEF CountInv, Hard, Span, Batch
<1>7. SweepingInv' /\ OrderInv'
  BY <1>1, <1>2, <1>3 DEF SweepingInv, OrderInv, Still, NoSweep
<1>8. OnTime
  <2>1. ~flushed => steps - committed' >= Depth
    <3>1. sweep.hi \in Int /\ steps \in Int /\ Depth \in Int /\ committed' = sweep.hi + 1
      BY <1>1, <1>2
    <3>2. ~flushed => steps - sweep.hi > Depth
      BY <1>2
    <3> QED  BY <3>1, <3>2
  <2>2. Len(outs') = committed' /\ left \in Int /\ Len(fifo) \in Int
    BY <1>1, <1>2, <1>3, SMTT(40)
  <2>3. ~(left' = 0 /\ left > Len(fifo))
    BY <1>1
  <2> QED  BY <1>1, <2>1, <2>2, <2>3 DEF OnTime, Hard
<1> QED  BY <1>4, <1>5, <1>6, <1>7, <1>8

LEMMA BatchWaitsKeeps ==
  ASSUME DecoderInv, kind = "hybrid", BatchWaits, Still
  PROVE  DecoderInv' /\ OnTime
<1> USE DEF DecoderInv
<1>1. /\ steps \in Nat /\ committed \in Nat /\ committed <= steps
      /\ Len(outs) \in Nat /\ left \in Nat /\ fifo = <<>> /\ Len(fifo) = 0 /\ Len(outs) = committed
      /\ call # "idle" /\ call' = "idle" /\ left' = 0 /\ sweep = NoSweep /\ ~BatchGrows /\ Due <= 0
      /\ UNCHANGED <<committed, fifo, outs, sweep>>
  BY LengthIsNat, EmptyIsSeq DEF CountInv, CallInv, OrderInv, BatchWaits, Waiting
<1>2. FedInv' /\ StraightInv' /\ DriftingInv'
  BY <1>1, StillKeeps
<1>3. CallInv' /\ CountInv'
  BY <1>1 DEF CallInv, CountInv, Hard, Span, Batch, Still
<1>4. SweepingInv' /\ OrderInv'
  BY <1>1 DEF SweepingInv, OrderInv, NoSweep, Still
<1>5. OnTime
  <2>1. ASSUME left > 0
        PROVE  fed - Middle < Need /\ steps - committed <= (IF flushed THEN 0 ELSE Held(kind))
    <3>1. (call = "flush") <=> flushed
      BY <1>1 DEF CallInv
    <3>2. Depth \in Nat /\ Depth >= 1 /\ Span = 2 * Depth /\ N \in Nat /\ MaxDrift \in Nat
      BY Sizes
    <3>3. steps - committed <= (IF flushed THEN 0 ELSE Depth)
      <4> DEFINE late == (IF call = "flush" THEN steps ELSE steps - Depth) - committed
      <4>1. late \in Int /\ left \in Int
        BY <1>1, <3>2
      <4>2. Due = Least({late, left})
        BY DEF Due
      <4> HIDE DEF late
      <4>3. Due \in {late, left}
        BY <4>1, <4>2, LeastOfTwo
      <4>4. Due <= 0
        BY <1>1
      <4>5. late <= 0
        BY <2>1, <4>1, <4>3, <4>4
      <4> QED  BY <1>1, <3>1, <3>2, <4>5 DEF late
    <3>4. ~CanForward(call = "flush")
      BY <1>1, <3>2, <3>3 DEF BatchGrows
    <3>5. fed - Middle < Need
      BY <3>1, <3>4, Sizes DEF CanForward, Middle, Need, Width, FedInv
    <3> QED  BY <3>3, <3>5 DEF Held
  <2> QED  BY <1>1, <2>1 DEF OnTime
<1> QED  BY <1>2, <1>3, <1>4, <1>5

LEMMA HybridRoundKeeps ==
  ASSUME DecoderInv, kind = "hybrid", HybridRound, UNCHANGED driving
  PROVE  DecoderInv' /\ OnTime
<1> USE DEF DecoderInv
<1>1. UNCHANGED <<kind, stream, fed, flushed>>
  BY DEF driving
<1>2. CASE DecodeStep
  <2>1. /\ call # "idle" /\ sweep = NoSweep /\ steps' = steps + 1 /\ steps - committed < Span
        /\ CanForward(call = "flush") /\ MoveOn(readBase + PickShift)
        /\ UNCHANGED <<committed, outs, call, left, sweep, fifo>>
    BY <1>2 DEF DecodeStep, Waiting, BatchGrows, TrellisMoves, Track, window, deciding
  <2>2. FedInv' /\ StraightInv' /\ DriftingInv'
    BY <1>1, <2>1, DriftMovesOn
  <2> QED  BY <1>1, <2>1, <2>2, StepKeeps
<1>3. ASSUME UNCHANGED <<tracking, buffer>>
      PROVE  Still
  BY <1>1, <1>3 DEF Still, tracking, buffer
<1>4. CASE BatchBegins
  BY <1>3, <1>4, BatchBeginsKeeps DEF BatchBegins
<1>5. CASE BatchStep
  <2>1. PICK decision : SweepMoves(decision)
    BY <1>5 DEF BatchStep, Sweeping
  <2> QED  BY <1>3, <1>5, <2>1, SweepMovesKeeps DEF BatchStep, Sweeping
<1>6. CASE BatchEnds
  BY <1>3, <1>6, BatchEndsKeeps DEF BatchEnds
<1>7. CASE BatchWaits
  BY <1>3, <1>7, BatchWaitsKeeps DEF BatchWaits
<1> QED  BY <1>2, <1>4, <1>5, <1>6, <1>7 DEF HybridRound

\* Vindel decides a step when its layer of the ring is needed again.
LEMMA DecidedOne ==
  ASSUME DecoderInv, kind = "vindel", Decide
  PROVE  /\ IsSeq(outs') /\ Len(outs') = committed + 1 /\ committed' = committed + 1 /\ left' = left - 1
         /\ fifo = <<>> /\ Len(fifo) = 0 /\ sweep = NoSweep
<1>1. fifo = <<>> /\ sweep = NoSweep /\ Len(fifo) = 0 /\ Len(outs) = committed
  BY LengthIsNat, EmptyIsSeq DEF DecoderInv, OrderInv, CountInv
<1> QED  BY <1>1, Appended DEF DecoderInv, CountInv, Decide

LEMMA VindelStepKeeps ==
  ASSUME DecoderInv, kind = "vindel", Step, UNCHANGED <<kind, stream, fed, flushed, sweep, fifo>>
  PROVE  DecoderInv' /\ OnTime
<1> USE DEF DecoderInv
<1>1. /\ steps \in Nat /\ committed \in Nat /\ committed <= steps /\ Len(outs) = committed
      /\ IsSeq(outs) /\ IsSeq(fifo)
      /\ fifo = <<>> /\ Len(fifo) = 0 /\ sweep = NoSweep /\ left \in Nat /\ Depth \in Nat /\ Depth >= 1
      /\ steps - committed <= Depth
  BY Sizes, LengthIsNat, EmptyIsSeq DEF CountInv, CallInv, OrderInv, Hard
<1>2. /\ call \in {"decode", "flush"} /\ call' = call /\ steps' = steps + 1
      /\ CanForward(call = "flush") /\ MoveOn(readBase + PickShift)
      /\ \/ ~MustDecide /\ UNCHANGED <<outs, committed, left>>
         \/ MustDecide /\ left > 0 /\ Decide
  BY DEF Step, GroupWaits, Advance, TrellisMoves, Track
<1>3. FedInv' /\ StraightInv' /\ DriftingInv'
  BY <1>2, DriftMovesOn
<1>4. CASE ~MustDecide /\ UNCHANGED <<outs, committed, left>>
  <2>1. steps < Depth
    BY <1>1, <1>4 DEF MustDecide
  <2>2. CallInv' /\ CountInv'
    BY <1>1, <1>2, <1>4, <2>1 DEF CallInv, CountInv, Hard
  <2>3. SweepingInv' /\ OrderInv'
    BY <1>1, <1>2, <1>4, <2>1 DEF SweepingInv, OrderInv, NoSweep
  <2>4. OnTime
    BY <1>1, <1>2, <1>4 DEF OnTime
  <2> QED  BY <1>3, <2>2, <2>3, <2>4
<1>5. CASE MustDecide /\ left > 0 /\ Decide
  <2>1. /\ IsSeq(outs') /\ Len(outs') = committed + 1 /\ committed' = committed + 1 /\ left' = left - 1
        /\ steps >= Depth
    BY <1>5, DecidedOne DEF MustDecide
  <2>2. ~flushed => steps - committed >= Depth
    BY <1>1, <2>1 DEF OrderInv
  <2>3. CallInv' /\ CountInv'
    BY <1>1, <1>2, <1>5, <2>1 DEF CallInv, CountInv, Hard
  <2>4. SweepingInv' /\ OrderInv'
    BY <1>1, <1>2, <2>1, <2>2 DEF SweepingInv, OrderInv, NoSweep
  <2>5. OnTime
    BY <1>1, <1>2, <2>1, <2>2 DEF OnTime, Hard
  <2> QED  BY <1>3, <2>3, <2>4, <2>5
<1> QED  BY <1>2, <1>4, <1>5

LEMMA RunEndsKeeps ==
  ASSUME DecoderInv, kind = "vindel", RunEnds, Still, UNCHANGED <<sweep, fifo>>
  PROVE  DecoderInv' /\ OnTime
<1> USE DEF DecoderInv
<1>1. /\ steps \in Nat /\ committed \in Nat /\ committed <= steps /\ Len(outs) = committed
      /\ fifo = <<>> /\ Len(fifo) = 0 /\ sweep = NoSweep /\ left \in Nat /\ Depth \in Nat
      /\ steps - committed <= Depth /\ call \in {"decode", "flush"} /\ UNCHANGED <<committed, outs>>
  BY Sizes, LengthIsNat, EmptyIsSeq DEF CountInv, CallInv, OrderInv, Hard, RunEnds
<1>2. FedInv' /\ StraightInv' /\ DriftingInv'
  BY <1>1, StillKeeps
<1>3. (call = "flush") <=> flushed
  BY <1>1 DEF CallInv
<1>4. left > 0 => ~CanForward(call = "flush")
  BY <1>1 DEF RunEnds, GroupWaits
<1>5. ~CanForward(call = "flush") =>
        fed - Middle < Need /\ (call = "flush" => Len(received) - readBase < N)
  BY <1>3, Sizes DEF CanForward, Middle, Need, Width, FedInv
<1>6. CountInv'
  BY <1>1 DEF CountInv, Hard, Still
<1>7. SweepingInv' /\ OrderInv'
  BY <1>1 DEF SweepingInv, OrderInv, NoSweep, Still
<1>8. CASE call = "flush" /\ committed < steps /\ left > 0 /\ call' = "drain" /\ UNCHANGED left
  <2>1. CallInv'
    BY <1>1, <1>3, <1>4, <1>5, <1>8 DEF CallInv, Still
  <2>2. OnTime
    BY <1>1, <1>8 DEF OnTime
  <2> QED  BY <1>2, <1>6, <1>7, <2>1, <2>2
<1>9. CASE ~(call = "flush" /\ committed < steps /\ left > 0) /\ call' = "idle" /\ left' = 0
  <2>1. CallInv'
    BY <1>9 DEF CallInv
  <2>2. left > 0 => fed - Middle < Need /\ steps - committed <= (IF flushed THEN 0 ELSE Held(kind))
    BY <1>1, <1>3, <1>4, <1>5, <1>9 DEF Held
  <2>3. OnTime
    BY <1>1, <2>2 DEF OnTime
  <2> QED  BY <1>2, <1>6, <1>7, <2>1, <2>3
<1> QED  BY <1>8, <1>9 DEF RunEnds

LEMMA DrainOneKeeps ==
  ASSUME DecoderInv, kind = "vindel", DrainOne, Still, UNCHANGED <<sweep, fifo>>
  PROVE  DecoderInv' /\ OnTime
<1> USE DEF DecoderInv
<1>1. /\ steps \in Nat /\ committed \in Nat /\ committed < steps /\ Len(outs) = committed
      /\ IsSeq(fifo) /\ left \in Nat /\ left > 0 /\ Depth \in Nat
      /\ steps - committed <= Depth /\ call = "drain" /\ flushed /\ call' = call
  BY Sizes, LengthIsNat, EmptyIsSeq DEF CountInv, CallInv, OrderInv, Hard, DrainOne
<1>2. /\ IsSeq(outs') /\ Len(outs') = committed + 1 /\ committed' = committed + 1 /\ left' = left - 1
      /\ fifo = <<>> /\ Len(fifo) = 0 /\ sweep = NoSweep
  BY DecidedOne DEF DrainOne
<1>3. FedInv' /\ StraightInv' /\ DriftingInv'
  BY <1>1, <1>2, StillKeeps
<1>4. CallInv' /\ CountInv'
  BY <1>1, <1>2 DEF CallInv, CountInv, Hard, Still
<1>5. SweepingInv' /\ OrderInv'
  BY <1>1, <1>2 DEF SweepingInv, OrderInv, NoSweep, Still
<1>6. OnTime
  BY <1>1, <1>2 DEF OnTime
<1> QED  BY <1>3, <1>4, <1>5, <1>6

LEMMA DrainEndsKeeps ==
  ASSUME DecoderInv, kind = "vindel", DrainEnds, Still, UNCHANGED <<sweep, fifo>>
  PROVE  DecoderInv' /\ OnTime
<1> USE DEF DecoderInv
<1>1. /\ steps \in Nat /\ committed \in Nat /\ committed <= steps /\ Len(outs) = committed
      /\ fifo = <<>> /\ Len(fifo) = 0 /\ sweep = NoSweep /\ left \in Nat
      /\ call = "drain" /\ flushed /\ (committed = steps \/ left = 0)
      /\ call' = "idle" /\ left' = 0 /\ UNCHANGED <<committed, outs>>
  BY LengthIsNat, EmptyIsSeq DEF CountInv, CallInv, OrderInv, DrainEnds
<1>2. FedInv' /\ StraightInv' /\ DriftingInv'
  BY <1>1, StillKeeps
<1>3. CallInv' /\ CountInv'
  BY <1>1 DEF CallInv, CountInv, Hard, Still
<1>4. SweepingInv' /\ OrderInv'
  BY <1>1 DEF SweepingInv, OrderInv, NoSweep, Still
<1>5. fed - Middle < Need
  BY <1>1, Sizes DEF CallInv, FedInv, Middle, Need
<1>6. OnTime
  BY <1>1, <1>5 DEF OnTime
<1> QED  BY <1>2, <1>3, <1>4, <1>6

LEMMA VindelRoundKeeps ==
  ASSUME DecoderInv, kind = "vindel", VindelRound, OthersIdle, UNCHANGED driving
  PROVE  DecoderInv' /\ OnTime
<1>1. UNCHANGED <<kind, stream, fed, flushed, sweep, fifo>>
  BY DEF driving, OthersIdle, sweeping
<1>2. ASSUME UNCHANGED <<tracking, buffer>>
      PROVE  Still
  BY <1>1, <1>2 DEF Still, tracking, buffer
<1>3. CASE Step
  BY <1>1, <1>3, VindelStepKeeps
<1>4. CASE RunEnds
  BY <1>1, <1>2, <1>4, RunEndsKeeps DEF RunEnds
<1>5. CASE DrainOne
  BY <1>1, <1>2, <1>5, DrainOneKeeps DEF DrainOne
<1>6. CASE DrainEnds
  BY <1>1, <1>2, <1>6, DrainEndsKeeps DEF DrainEnds
<1> QED  BY <1>3, <1>4, <1>5, <1>6 DEF VindelRound

-----------------------------------------------------------------------------
LEMMA DecoderInit == Init => DecoderInv
<1> SUFFICES ASSUME Init PROVE DecoderInv
  OBVIOUS
<1>1. kind \in {"bcjr", "maxir", "hybrid", "vindel"} /\ stream \in Seq(Received)
  BY DecoderStreamAssumption DEF Init
<1>2. fed = 0 /\ flushed = FALSE
  BY DEF Init
<1>3. /\ steps = 0 /\ committed = 0 /\ outs = <<>> /\ call = "idle" /\ left = 0
      /\ sweep = NoSweep /\ fifo = <<>> /\ received = <<>> /\ origin = 0 /\ readBase = 0
  <2>1. CASE kind = "bcjr" /\ B!BInit
    BY <2>1 DEF B!BInit, B!WindowInit, B!TrackInit, B!NoSweep, NoSweep
  <2>2. CASE kind \in {"maxir", "hybrid"} /\ SweepInit
    BY <2>2 DEF SweepInit, DriftInit, WindowInit, TrackInit
  <2>3. CASE kind = "vindel" /\ VindelInit /\ sweep = NoSweep /\ fifo = <<>>
    BY <2>3 DEF VindelInit, DriftInit, TrackInit
  <2> QED  BY <2>1, <2>2, <2>3 DEF Init
<1>4. FedInv
  <2>1. received \in Seq(Received) /\ Len(received) = fed - origin
    BY <1>2, <1>3
  <2>2. Len(stream) \in Nat
    BY <1>1
  <2>3. fed \in 0..Len(stream) /\ origin \in Nat /\ readBase \in Nat
    BY <1>2, <1>3, <2>2
  <2>4. flushed \in BOOLEAN
    BY <1>2
  <2> QED  BY <1>1, <2>1, <2>3, <2>4 DEF FedInv
<1>5. CallInv
  BY <1>2, <1>3 DEF CallInv
<1>6. CountInv
  BY <1>3, EmptyIsSeq, Sizes DEF CountInv, NoSweep
<1>7. StraightInv /\ DriftingInv
  BY <1>3, Sizes DEF StraightInv, DriftingInv
<1>8. SweepingInv /\ OrderInv
  BY <1>3, EmptyIsSeq, Sizes DEF SweepingInv, OrderInv
<1> QED  BY <1>4, <1>5, <1>6, <1>7, <1>8 DEF DecoderInv

LEMMA RoundKeeps ==
  ASSUME DecoderInv, Round
  PROVE  DecoderInv' /\ OnTime
<1>1. UNCHANGED driving /\ OthersIdle
  BY DEF Round
<1>2. CASE kind = "bcjr"
  BY <1>1, <1>2, BcjrRoundKeeps DEF Round
<1>3. CASE kind = "maxir"
  BY <1>1, <1>3, MaxirRoundKeeps DEF Round
<1>4. CASE kind = "hybrid"
  BY <1>1, <1>4, HybridRoundKeeps DEF Round
<1>5. CASE kind = "vindel"
  BY <1>1, <1>5, VindelRoundKeeps DEF Round
<1> QED  BY <1>2, <1>3, <1>4, <1>5 DEF DecoderInv, FedInv

LEMMA DecoderNext ==
  ASSUME DecoderInv, [Next]_vars
  PROVE  DecoderInv' /\ (OnTime \/ UNCHANGED vars)
<1>1. CASE UNCHANGED vars
  <2>1. UNCHANGED <<kind, stream, fed, flushed, steps, committed, outs, call, left, sweep, fifo,
                    received, origin, readBase>>
    BY <1>1 DEF vars, tracking, deciding, buffer, sweeping, driving
  <2>2. FedInv' /\ CallInv' /\ CountInv'
    BY <2>1 DEF DecoderInv, FedInv, CallInv, CountInv, Hard, Span, Batch
  <2>3. StraightInv' /\ DriftingInv' /\ SweepingInv' /\ OrderInv'
    BY <2>1 DEF DecoderInv, StraightInv, DriftingInv, SweepingInv, OrderInv, NoSweep
  <2> QED  BY <1>1, <2>2, <2>3 DEF DecoderInv
<1>2. CASE \E k \in Pieces : DecodeFails(k)
  BY <1>2, DecodeFailsKeeps, DecoderStreamAssumption
<1>3. CASE \E k \in Pieces, room \in Rooms : Decode(k, room)
  BY <1>3, DecodeKeeps, DecoderStreamAssumption
<1>4. CASE \E room \in Rooms : Flush(room)
  BY <1>4, FlushKeeps, DecoderStreamAssumption
<1>5. CASE Round
  BY <1>5, RoundKeeps
<1> QED  BY <1>1, <1>2, <1>3, <1>4, <1>5 DEF Next

\* Every state of the decoders satisfies the invariant.
THEOREM DecoderSafe == Spec => []DecoderInv
<1>1. Init => DecoderInv
  BY DecoderInit
<1>2. DecoderInv /\ [Next]_vars => DecoderInv'
  BY DecoderNext
<1> QED  BY <1>1, <1>2, PTL DEF Spec

\* Compaction drops no symbol that the cursor, a step of the drift window back or
\* a sweep of bcjr still reads, and no snapshot or backpointer of an undecided
\* step is overwritten (compact_received, oldest_needed_index, the rings).
THEOREM DecoderWindowKept == Spec => []WindowKept
<1>1. DecoderInv => WindowKept
  <2> SUFFICES ASSUME DecoderInv PROVE WindowKept
    OBVIOUS
  <2>1. /\ Len(received) = fed - origin /\ steps - committed <= (IF Hard(kind) THEN Depth ELSE Span)
        /\ origin \in Nat /\ readBase \in Nat /\ kind \in {"bcjr", "maxir", "hybrid", "vindel"}
        /\ MaxDrift \in Nat
    BY Sizes DEF DecoderInv, FedInv, CountInv
  <2>2. CASE kind = "bcjr"
    BY <2>1, <2>2 DEF DecoderInv, StraightInv, WindowKept, Middle, Width
  <2>3. CASE kind # "bcjr"
    BY <2>1, <2>3 DEF DecoderInv, DriftingInv, WindowKept, Middle, Width
  <2> QED  BY <2>2, <2>3
<1> QED  BY <1>1, DecoderSafe, PTL

\* Each step is decided once and in order, none before Depth younger steps are
\* there; a decode() call that leaves room unused has taken every step its input
\* allows, and a flush has decided everything (the loops of produce and run).
THEOREM DecoderCadence == Spec => Cadence
<1>1. DecoderInv /\ [Next]_vars => [OnTime]_vars
  BY DecoderNext
<1> QED  BY <1>1, DecoderSafe, PTL DEF Spec, Cadence, OnTime
=============================================================================
