------------------------------ MODULE Viterbi ------------------------------
(***************************************************************************)
(* The streaming Viterbi decoder of src/cc/viterbi/decode.c.  A received   *)
(* group advances the trellis one step: each state keeps the cheapest way  *)
(* into it, as a backpointer in the ring layer of that step.  The ring has *)
(* Depth layers, so before a step takes the layer of the step Depth before *)
(* it, that one is decided: traced back from the cheapest state.  A call   *)
(* stops for want of input or of room and the next one resumes; each       *)
(* round of a call's loops is one step here.                               *)
(***************************************************************************)
EXTENDS ConvCode

CONSTANT Depth   \* layers of the ring (6 * K in the code)

ASSUME ViterbiAssumption == Depth \in Nat \ {0}

Received == Value \cup {Erasure, Invalid}   \* anything but a value counts as erased

Inf == 2147483647   \* VIT_INF: the state is not reachable

Unwritten == [prev |-> -1, bit |-> -1]
Backpointer == [prev : State, bit : Value]

VARIABLES metric,     \* cost of the cheapest path to each state
          ring,       \* backpointers: layer -> state -> [prev, bit]
          received,   \* symbols fed and not yet consumed
          steps,      \* trellis steps taken
          decided,    \* decisions made
          outs,       \* the decisions
          call,       \* the loop that runs: "idle", "decode", "flush" or "drain"
          left        \* room the call still has

vvars == <<metric, ring, received, steps, decided, outs, call, left>>

VInit ==
  /\ metric = [s \in State |-> IF s = 0 THEN 0 ELSE Inf]
  /\ ring = [l \in 0..(Depth-1) |-> [s \in State |-> Unwritten]]
  /\ received = <<>>
  /\ steps = 0 /\ decided = 0 /\ outs = <<>>
  /\ call = "idle" /\ left = 0

-----------------------------------------------------------------------------
BranchCostErased(expected, group) ==   \* slip: an erasure counts against a 1
  Cardinality({j \in 1..N : group[j] # expected[j] /\ (group[j] \in Value \/ expected[j] = 1)})

\* branch_metric: erased symbols count for no branch.
BranchCost(expected, group) ==
  Cardinality({j \in 1..N : group[j] \in Value /\ group[j] # expected[j]})

\* The edges into state t from reachable states, and what a path over one costs.
EdgesInto(t) == {e \in State \X Value : metric[e[1]] # Inf /\ NextState[e] = t}

PathCost(e, group) == metric[e[1]] + BranchCost(Output[e], group)

EdgeOrder(e) == 2 * e[1] + e[2]

\* The edge that wins: the cheapest, and of those the one looked at first.
Winner(t, group) ==
  CHOOSE e \in EdgesInto(t) :
    \A f \in EdgesInto(t) \ {e} :
      \/ PathCost(e, group) < PathCost(f, group)
      \/ PathCost(e, group) = PathCost(f, group) /\ EdgeOrder(e) < EdgeOrder(f)

Raw(costs) == costs   \* slip: the costs grow with the stream

\* Costs relative to the cheapest.
Renormalised(costs) ==
  LET best == CHOOSE c \in {costs[s] : s \in State} : \A s \in State : c <= costs[s]
  IN  [s \in State |-> IF costs[s] = Inf THEN Inf ELSE costs[s] - best]

\* vit_step.
Advance(group) ==
  /\ metric' = Renormalised([t \in State |->
                 IF EdgesInto(t) = {} THEN Inf ELSE PathCost(Winner(t, group), group)])
  /\ ring' = [ring EXCEPT ![steps % Depth] = [t \in State |->
                IF EdgesInto(t) = {} THEN @[t]
                ELSE [prev |-> Winner(t, group)[1], bit |-> Winner(t, group)[2]]]]
  /\ steps' = steps + 1

FrontierZero == 0   \* slip: taken for a stream that has ended

\* vit_frontier: the cheapest state, the lowest of those.
Frontier ==
  CHOOSE s \in State : \A t \in State \ {s} :
    \/ metric[s] < metric[t]
    \/ metric[s] = metric[t] /\ s < t

\* vit_trace: the states of the surviving path, back to the one behind `target`,
\* and the bit that led there.
Survivor(target) ==
  LET at[i \in (target+1)..steps] ==
        IF i = steps THEN Frontier ELSE ring[i % Depth][at[i+1]].prev
  IN  at

Traced(target) ==
  IF target < steps THEN ring[target % Depth][Survivor(target)[target+1]].bit ELSE 0

Decide ==
  /\ outs' = Append(outs, Traced(decided))
  /\ decided' = decided + 1
  /\ left' = left - 1

-----------------------------------------------------------------------------
\* dt_cc_viterbi_stream_decode up to the loop of vit_run.
StartDecode(syms, room) ==
  /\ call = "idle"
  /\ received' = received \o syms
  /\ call' = "decode" /\ left' = room
  /\ UNCHANGED <<metric, ring, steps, decided, outs>>

\* dt_cc_viterbi_stream_decode_flush up to the same loop.
StartFlush(room) ==
  /\ call = "idle"
  /\ call' = "flush" /\ left' = room
  /\ UNCHANGED <<metric, ring, received, steps, decided, outs>>

GroupWaits == Len(received) >= N

MustDecideLate == steps > Depth     \* slip: one step too late

\* The step to come takes the layer of one that is not decided.
MustDecide == steps >= Depth

\* A round of vit_run.
Step ==
  /\ call \in {"decode", "flush"}
  /\ GroupWaits
  /\ \/ ~MustDecide /\ UNCHANGED <<outs, decided, left>>
     \/ MustDecide /\ left > 0 /\ Decide
  /\ Advance(SubSeq(received, 1, N))
  /\ received' = SubSeq(received, N + 1, Len(received))
  /\ UNCHANGED call

\* vit_run is over; a flush goes on to its own loop, which does not ask again.
RunEnds ==
  /\ call \in {"decode", "flush"}
  /\ GroupWaits => MustDecide /\ left = 0
  /\ \/ call = "flush" /\ decided < steps /\ left > 0 /\ call' = "drain" /\ UNCHANGED left
     \/ ~(call = "flush" /\ decided < steps /\ left > 0) /\ call' = "idle" /\ left' = 0
  /\ UNCHANGED <<metric, ring, received, steps, decided, outs>>

\* A round of flush's loop, and its end.
DrainOne ==
  /\ call = "drain"
  /\ decided < steps /\ left > 0
  /\ Decide
  /\ UNCHANGED <<metric, ring, received, steps, call>>

DrainEnds ==
  /\ call = "drain"
  /\ decided = steps \/ left = 0
  /\ call' = "idle" /\ left' = 0
  /\ UNCHANGED <<metric, ring, received, steps, decided, outs>>

GoesOn == Step \/ RunEnds \/ DrainOne \/ DrainEnds

-----------------------------------------------------------------------------
(* The link: a convolutional encoder, a channel that spoils a few symbols, *)
(* and the decoder, called with any number of symbols and any room.        *)

CONSTANTS MaxInfo,     \* bound: symbols sent, the encoder's tail not counted
          MaxFaults,   \* bound: a flip counts 2, a lost symbol 1
          MaxPiece,    \* bound: symbols of a decode() call
          MaxRoom      \* bound: room of a call

ASSUME ViterbiLinkAssumption ==
  MaxInfo \in Nat /\ MaxFaults \in Nat /\ MaxPiece \in Nat /\ MaxRoom \in Nat

VARIABLES enc,      \* the encoder
          info,     \* what was encoded, tail included
          closed,   \* the encoder was flushed
          coded,    \* coded symbols on their way
          rx,       \* all symbols that came through
          faults,   \* faults that may still happen
          flushed   \* the decoder was told that the stream is over

lvars == <<enc, info, closed, coded, rx, faults, flushed>>
vars  == <<vvars, lvars>>

Init ==
  /\ VInit
  /\ enc = FreshEncoder /\ info = <<>> /\ closed = FALSE
  /\ coded = <<>> /\ rx = <<>> /\ faults = MaxFaults
  /\ flushed = FALSE

\* cc_encoder_encode, for one symbol.  A non-value uses up all faults.
Encode(sym) ==
  /\ call = "idle" /\ ~closed /\ ~flushed /\ coded = <<>>
  /\ Len(info) < MaxInfo
  /\ sym \in Value \/ faults = MaxFaults
  /\ faults' = IF sym \in Value THEN faults ELSE 0
  /\ LET r == Emitted(enc, sym) IN enc' = r.enc /\ coded' = r.group
  /\ info' = Append(info, sym)
  /\ UNCHANGED <<vvars, closed, rx, flushed>>

\* cc_encoder_finalize.
FinalizeEncoder ==
  /\ call = "idle" /\ ~closed /\ ~flushed /\ coded = <<>>
  /\ LET r == EmittedAll(enc, Zeros) IN enc' = r.enc /\ coded' = r.group
  /\ info' = info \o Zeros
  /\ closed' = TRUE
  /\ UNCHANGED <<vvars, rx, faults, flushed>>

\* What the channel makes of k symbols, and what it costs.
Spoiled(k) ==
  {heard \in [1..k -> Received] :
     \A i \in 1..k : heard[i] # coded[i] => coded[i] \in Value /\ heard[i] # Invalid}

Price(heard) ==
  LET spoiled == {i \in DOMAIN heard : heard[i] # coded[i]}
  IN  Cardinality(spoiled) + Cardinality({i \in spoiled : heard[i] \in Value})

\* viterbi_decoder_decode with the next k symbols.
Decode(k, room) ==
  /\ ~flushed
  /\ k <= Len(coded)
  /\ \E heard \in Spoiled(k) :
       /\ Price(heard) <= faults
       /\ faults' = faults - Price(heard)
       /\ StartDecode(heard, room)
       /\ rx' = rx \o heard
  /\ coded' = SubSeq(coded, k + 1, Len(coded))
  /\ UNCHANGED <<enc, info, closed, flushed>>

\* viterbi_decoder_finalize, which may be called again for what had no room.
FinalizeDecoder(room) ==
  /\ StartFlush(room)
  /\ flushed' = TRUE
  /\ UNCHANGED <<enc, info, closed, coded, rx, faults>>

Next ==
  \/ \E sym \in Sent : Encode(sym)
  \/ FinalizeEncoder
  \/ \E k \in 0..MaxPiece, room \in 0..MaxRoom : Decode(k, room)
  \/ \E room \in 0..MaxRoom : FinalizeDecoder(room)
  \/ GoesOn /\ UNCHANGED lvars

Spec == Init /\ [][Next]_vars

-----------------------------------------------------------------------------
(* Types.                                                                  *)
TypeOK ==
  /\ metric \in [State -> Nat] /\ \E s \in State : metric[s] = 0
  /\ ring \in [0..(Depth-1) -> [State -> Backpointer \cup {Unwritten}]]
  /\ received \in Seq(Received)
  /\ outs \in Seq(Value) /\ decided = Len(outs)
  /\ steps \in Nat /\ left \in 0..MaxRoom
  /\ call \in {"idle", "decode", "flush", "drain"}
  /\ enc \in EncoderState

\* No layer is taken before its step is decided, and no step is decided that
\* was not taken, however calls are cut by input and by room (vit_run).
RingHolds == decided <= steps /\ steps - decided <= Depth

\* The decoder decides a step exactly when Depth younger groups are there and
\* the call has room, which is how the pipes see it (Decides in StreamPipes).
Undecided == (steps - decided) + Len(received) \div N

Cadence ==
  [][/\ decided' > decided /\ ~flushed => Undecided > Depth
     /\ call = "decode" /\ call' = "idle" => left = 0 \/ Undecided <= Depth]_vars

\* The encoder's tail empties its register and both of its marks, so nothing
\* of one stream reaches into the next (dt_cc_encoder_flush).
TailClears == closed => enc = FreshEncoder

\* The reference for what follows is the convolution itself, without a trellis.
Convolved(p, i, j) ==
  Parity({t \in Taps(Gens[j]) : i > K-1-t /\ p[i - (K-1-t)] = 1})

Codewords ==
  [n \in 0..(MaxInfo + K - 1) |->
     [p \in [1..n -> Value] |->
        [i \in 1..(N * n) |-> Convolved(p, (i - 1) \div N + 1, ((i - 1) % N) + 1)]]]

\* Costs stay small on a stream of any length (vit_step): no reachable state is
\* worse than the best by more than two paths can part in a whole register.
Weight(p) == Cardinality({i \in 1..(N * (K - 1)) : Codewords[K - 1][p][i] = 1})

CostsBounded ==
  \E p \in [1..(K - 1) -> Value] :
    \A s \in State : metric[s] # Inf => metric[s] <= Weight(p)

Distance(p, n) ==
  Cardinality({i \in 1..(N * n) : rx[i] \in Value /\ rx[i] # Codewords[n][p][i]})

Nearest(n) ==
  LET dist == [p \in [1..n -> Value] |-> Distance(p, n)]
  IN  {p \in DOMAIN dist : \A q \in DOMAIN dist : dist[p] <= dist[q]}

\* A decision is that of a path nearest to all that was received so far, of
\* all the streams that could have been sent (vit_step, vit_frontier, vit_trace).
DecidesNearest ==
  [][decided' > decided =>
       \E p \in Nearest(steps) : p[decided + 1] = outs'[decided + 1]]_vars

\* Few faults do no harm: each value encoded is decided as it was (the promise
\* of decode.h, "correcting flipped bits"), a non-value spoils none but itself.
\* The end of a stream flushed before its tail arrived has less to go by.
FaultsCorrected ==
  (flushed /\ faults < MaxFaults => closed /\ coded = <<>>)
  => \A i \in 1..Len(outs) : info[i] \in Value => outs[i] = info[i]

\* When a flush leaves room unused, every whole group was decided (decode.h:
\* "call it repeatedly until it returns 0, after which every bit has been
\* decoded"), though each of its two loops may have stopped for room before.
FlushDecidesAll ==
  [][flushed /\ call # "idle" /\ left > 0 /\ call' = "idle"
       => ~GroupWaits /\ decided = steps]_vars
=============================================================================
