------------------------------- MODULE Vindel -------------------------------
(***************************************************************************)
(* The decoder of src/cc/vindel/decode.c: viterbi over the drift trellis.  *)
(* A backpointer names the state and the drift it comes from, in the frame *)
(* of its own step, so a trace adds the shift of every step it goes back   *)
(* over.  Layers of the ring are written only where a path leads.          *)
(***************************************************************************)
EXTENDS DriftTrellis

CONSTANTS CostMatch, CostMiss, CostInsert   \* a value that fits, that does not, and any inserted

ASSUME VindelAssumption == CostMatch \in Nat /\ CostMiss \in Nat /\ CostInsert \in Nat

VARIABLE ring   \* backpointers of the last Depth steps

ivars == <<tracking, buffer, metric, ring, shiftRing, deciding>>

Unwritten == [state |-> 0, drift |-> 0, bit |-> 0]   \* the code's memory holds anything

\* decoder_init.
VindelInit ==
  /\ DriftInit
  /\ ring = [l \in 0..(Depth-1) |-> [n \in Node |-> Unwritten]]
  /\ shiftRing = [l \in 0..(Depth-1) |-> 0]

\* vin_from_dt: what is no value is lost.
Heard(syms) == [i \in DOMAIN syms |-> IF syms[i] \in Value THEN syms[i] ELSE Erasure]

\* fill_match_costs: a value that fits, one that does not, and one that is lost.
HardCost ==
  [p \in Value \X Received |->
     Plus(CostKeep, IF p[2] = Erasure THEN CostErase
                    ELSE IF p[2] = p[1] THEN CostMatch ELSE CostMiss)]

\* align_fill_into: all insertions cost the same.
HardAligned ==
  [group \in Patterns |-> [segment \in Segment |->
     LET cost[j \in 0..N, took \in 0..Len(segment)] ==
           IF took = 0 THEN j * CostDel
           ELSE IF j = 0 THEN took * CostInsert
           ELSE Least({cost[j-1, took] + CostDel, cost[j, took-1] + CostInsert,
                       Plus(cost[j-1, took-1], HardCost[<<group[j], segment[took]>>])})
     IN  cost[N, Len(segment)]]]

\* forward_pass_nodrift.
HardNoDrift == MaxDrift = 0 /\ CostDel = Inf /\ CostInsert = Inf

\* dt_cc_vindel_stream_decode up to the loop of run.
VindelDecode(syms, room) ==
  /\ call = "idle"
  /\ Feed(Heard(syms))
  /\ call' = "decode" /\ left' = room
  /\ UNCHANGED <<tracking, metric, ring, shiftRing, committed, outs>>

VindelNoMemory(syms) ==
  /\ call = "idle"
  /\ FeedNoMemory(Heard(syms))
  /\ UNCHANGED <<tracking, metric, ring, shiftRing, deciding>>

VindelFlush(room) ==
  /\ call = "idle"
  /\ call' = "flush" /\ left' = room
  /\ UNCHANGED <<tracking, buffer, metric, ring, shiftRing, committed, outs>>

-----------------------------------------------------------------------------
\* The branches into node n and the order in which forward_pass looks at them.
Into(costs, branch, n) ==
  {b \in Edge \X Drift : /\ NextState[b[1]] = n[1] /\ b[2] - N <= n[2]
                         /\ Plus(costs[<<b[1][1], b[2]>>], branch[<<b[1], b[2], n[2]>>]) # Inf}

BranchOrder(b) == (b[1][1] * (2 * MaxDrift + 1) + b[2]) * 2 + b[1][2]

\* The branch that wins: the cheapest, and of those the first.
Winner(costs, branch, n) ==
  LET price(b) == Plus(costs[<<b[1][1], b[2]>>], branch[<<b[1], b[2], n[2]>>])
  IN  CHOOSE b \in Into(costs, branch, n) :
        \A c \in Into(costs, branch, n) \ {b} :
          \/ price(b) < price(c)
          \/ price(b) = price(c) /\ BranchOrder(b) < BranchOrder(c)

\* decode_step.
Advance ==
  \E sigma \in {PickShift} : \E alpha \in {Reanchored(sigma)} :
  \E branch \in {IF HardNoDrift THEN StraightBranches(HardCost, readBase + sigma)
                  ELSE Branches(HardAligned, alpha, readBase + sigma)} :
  \E costs \in {Passed(alpha, branch)} : \E num \in {NextSmoothed(Lowest(costs))} :
    /\ shiftRing' = [shiftRing EXCEPT ![steps % Depth] = sigma]
    /\ ring' = [ring EXCEPT ![steps % Depth] = [n \in Node |->
         IF Into(alpha, branch, n) = {} THEN @[n]
         ELSE LET b == Winner(alpha, branch, n)
              IN  [state |-> b[1][1], drift |-> b[2], bit |-> b[1][2]]]]
    /\ TrellisMoves(costs, num)
    /\ MoveOn(readBase + sigma)

\* trace.
PathBack(target) ==
  LET at[i \in (target+1)..steps] ==
        IF i = steps THEN Frontier
        ELSE <<ring[i % Depth][at[i+1]].state,
               ring[i % Depth][at[i+1]].drift + shiftRing[i % Depth]>>
  IN  at

Traced(target) == ring[target % Depth][PathBack(target)[target+1]].bit

Decide ==
  /\ outs' = Append(outs, Traced(committed))
  /\ committed' = committed + 1
  /\ left' = left - 1

-----------------------------------------------------------------------------
GroupWaits == CanForward(call = "flush")

\* The step to come takes the layer of one that is not decided.
MustDecide == steps >= Depth

\* A round of run.
Step ==
  /\ call \in {"decode", "flush"} /\ GroupWaits
  /\ \/ ~MustDecide /\ UNCHANGED <<outs, committed, left>>
     \/ MustDecide /\ left > 0 /\ Decide
  /\ Advance
  /\ UNCHANGED call

\* run is over; flush may go on to its own loop.
RunEnds ==
  /\ call \in {"decode", "flush"}
  /\ GroupWaits => MustDecide /\ left = 0
  /\ \/ call = "flush" /\ committed < steps /\ left > 0 /\ call' = "drain" /\ UNCHANGED left
     \/ ~(call = "flush" /\ committed < steps /\ left > 0) /\ call' = "idle" /\ left' = 0
  /\ UNCHANGED <<tracking, buffer, metric, ring, shiftRing, committed, outs>>

\* A round of flush's loop, and its end.
DrainOne ==
  /\ call = "drain" /\ committed < steps /\ left > 0
  /\ Decide
  /\ UNCHANGED <<tracking, buffer, metric, ring, shiftRing, call>>

DrainEnds ==
  /\ call = "drain" /\ (committed = steps \/ left = 0)
  /\ call' = "idle" /\ left' = 0
  /\ UNCHANGED <<tracking, buffer, metric, ring, shiftRing, committed, outs>>

VindelRound == Step \/ RunEnds \/ DrainOne \/ DrainEnds
=============================================================================
