--------------------------- MODULE DecoderStream ---------------------------
(***************************************************************************)
(* One of the decoders bcjr, maxir, hybrid and vindel, fed with a stream   *)
(* in any pieces, and what its decisions are worth.  The reference keeps,  *)
(* for each step and bit, the cost of the cheapest whole transmission that *)
(* has that bit there: no buffer, rings, batches, normalising, backward    *)
(* sweep or backpointers, and alignments priced by trying each of them.    *)
(***************************************************************************)
EXTENDS DriftSweep, Vindel, FiniteSetsExt

CONSTANTS Kinds,     \* the decoders
          Streams,   \* [kind -> what may be received]
          Pieces,    \* bound: symbols of a decode() call
          Rooms      \* bound: room of a call

ASSUME DecoderStreamAssumption ==
  /\ Kinds \subseteq {"bcjr", "maxir", "hybrid", "vindel"}
  /\ \A k \in Kinds : Streams[k] \subseteq Seq(Received)
  /\ Pieces \subseteq Nat /\ Rooms \subseteq Nat

VARIABLES kind,                    \* which decoder this is
          stream, fed, flushed,    \* what is received, how much of it was fed, no more comes
          seed,                    \* the step at which the decoder last began afresh
          bases,                   \* where each step's group begins, undrifted
          total, through,          \* cheapest ways into each node: any, and with that bit at that step
          trend, tracked           \* numerator of the mean cost per step, whether it meant lock

Plain == [b \in Value |-> [r \in Value |-> IF b = r THEN CostMatch ELSE CostMiss]]

B == INSTANCE Bcjr

sweeping == <<sweep, fifo>>
behind   == <<beta, alphaRing, lockRing>>
drifting == <<branchRing, marksRing>>
driving  == <<kind, stream, fed, flushed>>
ghosts   == <<seed, bases, total, through, trend, tracked>>
vars == <<tracking, deciding, buffer, metric, shiftRing, ring, sweeping, behind, drifting, driving, ghosts>>

\* What the decoder at hand does not have.
OthersIdle ==
  \/ kind = "bcjr" /\ UNCHANGED <<drifting, shiftRing, ring>>
  \/ kind = "vindel" /\ UNCHANGED <<sweeping, behind, drifting>>
  \/ kind \in {"maxir", "hybrid"} /\ UNCHANGED ring

-----------------------------------------------------------------------------
(* The reference.                                                          *)
Hard(k) == k = "vindel"

Width(k) == IF k = "bcjr" THEN 0 ELSE MaxDrift

Place == State \X (0..(2 * Width(kind)))

\* What a symbol kept costs, one inserted, and one deleted.
Kept(k, expected, symbol) ==
  IF symbol \in Value
  THEN IF k = "bcjr" THEN Plain[expected][symbol]
       ELSE CostKeep + (IF Hard(k) THEN Plain ELSE CostBit)[expected][symbol]
  ELSE (IF k = "bcjr" THEN 0 ELSE CostKeep)
       + (IF symbol = Erasure \/ Hard(k) THEN CostErase ELSE 0)

Inserted(k, symbol) ==
  IF k = "bcjr" THEN Inf ELSE IF Hard(k) THEN CostInsert ELSE CostIns[symbol]

Deleted(k) == IF k = "bcjr" THEN Inf ELSE CostDel

\* The cheapest of all ways to pair symbols sent with symbols received, in order.
Paired(k, group, segment) ==
  LET rank(set, i) == Cardinality({x \in set : x <= i})
      met(sent, heard, i) == segment[CHOOSE j \in heard : rank(heard, j) = rank(sent, i)]
      insertion(j) == Inserted(k, segment[j])
      cost(sent, heard) ==
        MapThenSumSet(LAMBDA i : Kept(k, group[i], met(sent, heard, i)), sent)
        + MapThenSumSet(insertion, DOMAIN segment \ heard)
        + (N - Cardinality(sent)) * Deleted(k)
      pairings == {p \in (SUBSET (1..N)) \X (SUBSET DOMAIN segment) :
                     Cardinality(p[1]) = Cardinality(p[2])}
  IN  Least({Inf} \cup {cost(p[1], p[2]) : p \in pairings})

Tolls ==
  [k \in Kinds |-> [group \in {Output[e] : e \in State \X Value} |->
     [segment \in {SubSeq(s, 1, l) : s \in [1..(N + 2 * Width(k)) -> Received],
                                    l \in 0..(N + 2 * Width(k))} |->
        Paired(k, group, segment)]]]

\* Edge e against what is received from one place of the stream to another.
Toll(e, from, to) ==
  IF to < from \/ (to > from /\ (from < 0 \/ to > (IF flushed THEN fed ELSE Len(stream)))) THEN Inf
  ELSE Tolls[kind][Output[e]][SubSeq(stream, from + 1, to)]

Middle == origin + readBase

\* One step on, of paths that stay in the window, over edges with one of `bits`.
Onward(costs, bits) ==
  LET sigma == Middle' - N - Middle
      w == Width(kind)
  IN  [n \in Place |-> Least({Inf} \cup
        UNION {{Plus(costs[m], Toll(<<m[1], b>>, Middle + m[2] - w, Middle' + n[2] - w)) :
                  b \in {c \in bits : NextState[<<m[1], c>>] = n[1]}} :
                m \in {q \in Place : q[2] - sigma \in 0..(2 * w) /\ costs[q] # Inf}})]

Cheapest(costs) == Least({costs[n] : n \in DOMAIN costs})

Afresh == [n \in Place |-> IF n[2] = Width(kind) THEN 0 ELSE Inf]

\* Where paths may end when the decoder begins afresh; vindel keeps only the best into each.
Cut(ways) ==
  [b \in Value |-> [n \in Place |->
     IF n[2] # Width(kind) THEN Inf
     ELSE IF ~Hard(kind) THEN ways[b][n]
     ELSE IF ways[b][n] <= ways[1-b][n] THEN 0 ELSE Inf]]

GhostInit ==
  /\ seed = 0 /\ bases = <<>> /\ total = Afresh /\ through = <<>>
  /\ trend = ExpectedUnlock /\ tracked = <<>>

LostLock(flags) ==
  LET quiet == Len(flags) - 2 * Depth
  IN  /\ \A i \in {j \in 1..Len(flags) : j > quiet} : ~flags[i]
      /\ \E i \in (seed + 1)..quiet : flags[i]

\* One step of the decoder, followed.
Follow ==
  \E on \in {Onward(total, Value)} :
  \E now \in {(Depth - 1) * trend + 2 * (Cheapest(on) - Cheapest(total)) * Scale(steps)} :
  \E flags \in {Append(tracked, Locked(now, steps + 1))} :
    /\ tracked' = flags
    /\ bases' = Append(bases, Middle' - N)
    /\ seed' = IF LostLock(flags) THEN steps + 1 ELSE seed
    /\ total' = IF LostLock(flags) THEN Afresh ELSE on
    /\ trend' = IF LostLock(flags) THEN ExpectedUnlock * Scale(steps + 1) ELSE now
    /\ \E ways \in {Append([t \in 1..Len(through) |->
                              IF t > committed' THEN [b \in Value |-> Onward(through[t][b], Value)]
                              ELSE <<>>],
                           [b \in Value |-> Onward(total, {b})])} :
         through' = [t \in 1..(steps + 1) |->
                       IF LostLock(flags) /\ ways[t] # <<>> THEN Cut(ways[t]) ELSE ways[t]]

-----------------------------------------------------------------------------
Init ==
  /\ kind \in Kinds /\ stream \in Streams[kind] /\ fed = 0 /\ flushed = FALSE
  /\ GhostInit
  /\ \/ /\ kind = "bcjr" /\ B!BInit
        /\ branchRing = <<>> /\ marksRing = <<>> /\ shiftRing = <<>> /\ ring = <<>>
     \/ kind \in {"maxir", "hybrid"} /\ SweepInit /\ ring = <<>>
     \/ /\ kind = "vindel" /\ VindelInit
        /\ sweep = NoSweep /\ fifo = <<>> /\ beta = <<>> /\ alphaRing = <<>> /\ lockRing = <<>>
        /\ branchRing = <<>> /\ marksRing = <<>>

NextSymbols(k) == SubSeq(stream, fed + 1, fed + k)

Decode(k, room) ==
  /\ ~flushed /\ fed + k <= Len(stream)
  /\ \/ kind = "bcjr" /\ B!StartDecode(NextSymbols(k), room)
     \/ kind \in {"maxir", "hybrid"} /\ StartDecode(NextSymbols(k), room)
     \/ kind = "vindel" /\ VindelDecode(NextSymbols(k), room)
  /\ fed' = fed + k
  /\ UNCHANGED <<kind, stream, flushed, ghosts>>
  /\ OthersIdle

DecodeFails(k) ==
  /\ ~flushed /\ fed + k <= Len(stream)
  /\ \/ kind = "bcjr" /\ B!DecodeNoMemory(NextSymbols(k))
     \/ kind \in {"maxir", "hybrid"} /\ DecodeNoMemory(NextSymbols(k))
     \/ kind = "vindel" /\ VindelNoMemory(NextSymbols(k))
  /\ UNCHANGED <<driving, ghosts>>
  /\ OthersIdle

Flush(room) ==
  /\ \/ kind = "bcjr" /\ B!StartFlush(room)
     \/ kind \in {"maxir", "hybrid"} /\ StartFlush(room)
     \/ kind = "vindel" /\ VindelFlush(room)
  /\ flushed' = TRUE
  /\ UNCHANGED <<kind, stream, fed, ghosts>>
  /\ OthersIdle

Round ==
  /\ \/ kind = "bcjr" /\ B!Round
     \/ kind = "maxir" /\ MaxirRound
     \/ kind = "hybrid" /\ HybridRound
     \/ kind = "vindel" /\ VindelRound
  /\ IF steps' > steps THEN Follow ELSE UNCHANGED ghosts
  /\ UNCHANGED <<driving>>
  /\ OthersIdle

Next ==
  \/ \E k \in Pieces : DecodeFails(k) \/ \E room \in Rooms : Decode(k, room)
  \/ \E room \in Rooms : Flush(room)
  \/ Round

Spec == Init /\ [][Next]_vars

FairSpec == Spec /\ WF_vars(Round)

-----------------------------------------------------------------------------
(* Types.                                                                  *)
TypeOK ==
  /\ unlockRun \in 0..(2 * Depth - 1) /\ lockedOnce \in BOOLEAN /\ smoothed \in Nat
  /\ received \in Seq(Received) /\ Len(received) <= capacity
  /\ readBase \in Nat /\ origin \in Nat
  /\ fifo \in Seq(Decision) /\ outs \in Seq(Decision)
  /\ call \in {"idle", "decode", "flush", "drain"} /\ left \in Nat
  /\ \A n \in DOMAIN metric : metric[n] \in 0..Inf

\* Compaction, which runs in the middle of a window, loses nothing that is still
\* read: by the cursor after a step back of the drift window, or by a sweep of
\* bcjr, which prices branches again (compact_received, oldest_needed_index); and
\* no snapshot or backpointer of an undecided step is overwritten.
WindowKept ==
  /\ origin <= IF kind = "bcjr" /\ committed < steps THEN committed * N
               ELSE Middle - (IF Width(kind) = 0 \/ origin = 0 THEN 0 ELSE Width(kind) + 1)
  /\ Len(received) = fed - origin
  /\ steps - committed <= (IF Hard(kind) THEN Depth ELSE Span)

\* What a decision is worth: of all transmissions since the decoder last began
\* afresh, the cheapest against all that was received up to the frontier has the
\* bit decided; a mark says what kind of tie there is; without lock there is no
\* decision.  Vindel, which always decides, decides a bit of a cheapest one.
Reference(t) ==
  LET m0 == Cheapest(through[t + 1][0])
      m1 == Cheapest(through[t + 1][1])
      marks == {j \in 1..N : stream[bases[t + 1] + j] = Invalid}
      at == IF kind = "hybrid" THEN Least({t + Depth, steps}) ELSE t + 1
  IN  IF ~tracked[at] THEN Absent
      ELSE IF m0 # m1 THEN (IF m1 < m0 THEN 1 ELSE 0)
      ELSE IF 2 * Cardinality(marks) > N THEN Invalid ELSE Erasure

DecidesBest ==
  [][/\ Len(fifo') > Len(fifo) => Head(fifo') = Reference(sweep.t)
     /\ Hard(kind) /\ committed' > committed
          => LET bit == outs'[committed']
             IN  Cheapest(through[committed'][bit]) <= Cheapest(through[committed'][1 - bit])]_vars

\* The decoder begins afresh exactly when it had lock and then went 2 * Depth
\* steps without (forward_step's re-acquisition).
Reacquires ==
  [][steps' > steps =>
       (lockedOnce' <=> \E i \in (seed' + 1)..steps' : tracked'[i])]_vars

\* Each step is decided once and in order, none before Depth younger steps are
\* there; a decode() call that leaves room unused has taken every step its input
\* allows and decided all but less than a window, a flush everything (decode.h:
\* "call it repeatedly until it returns 0, after which every bit has been decoded").
Held(k) == IF k \in {"bcjr", "maxir"} THEN Span - 1 ELSE Depth

Need == N + (IF kind = "bcjr" \/ flushed THEN 0 ELSE Width(kind) + 1)

Cadence ==
  [][/\ committed' > committed /\ ~flushed => steps - committed' >= (IF Hard(kind) THEN Depth - 1 ELSE Depth)
     /\ Len(outs') > Len(outs) => Len(outs') <= committed'
     /\ call # "idle" /\ call' = "idle" /\ left' = 0 /\ left > Len(fifo)
          => /\ fed - Middle < Need
             /\ Len(outs') = committed'
             /\ steps - committed' <= (IF flushed THEN 0 ELSE Held(kind))]_vars

\* Every call returns (the loops of produce and run have no bound).
CallsReturn == (call # "idle") ~> (call = "idle")
=============================================================================
