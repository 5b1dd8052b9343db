---------------------------- MODULE DriftTrellis ----------------------------
(***************************************************************************)
(* The trellis that maxir, hybrid and vindel share, for a channel that     *)
(* also inserts and deletes symbols.  A node is a state of the encoder and *)
(* a drift: how far the reader is from where it would be had nothing been  *)
(* inserted or deleted.  The window of drifts is 2 * MaxDrift + 1 wide and *)
(* follows the cheapest node, one position a step.  readBase is where the  *)
(* middle of the window reads; every branch is priced by an alignment of   *)
(* the expected group with the symbols that the change of drift consumes.  *)
(***************************************************************************)
EXTENDS SoftWindow

CONSTANTS MaxDrift,
          CostBit, CostErase, CostKeep,   \* a symbol kept: [expected -> [received -> cost]], erased, per symbol
          CostIns, CostDel,               \* a symbol inserted (by what is received), a symbol deleted
          FirstCapacity                   \* of the received buffer

ASSUME DriftTrellisAssumption ==
  /\ MaxDrift \in Nat /\ FirstCapacity \in Nat
  /\ CostBit \in [Value -> [Value -> Nat]] /\ CostErase \in Nat /\ CostKeep \in Nat
  /\ CostIns \in [Received -> Nat] /\ CostDel \in Nat

VARIABLES received, origin, readBase, capacity,   \* buffer, what was dropped from it, cursor
          metric,                                 \* cheapest path to each node
          shiftRing                               \* how each retained step shifted the window

buffer == <<received, origin, readBase, capacity>>

Drift == 0..(2 * MaxDrift)   \* MaxDrift is where nothing drifted
Node  == State \X Drift
Edge  == State \X Value

\* init_metric: any state, no drift.
Acquiring == [n \in Node |-> IF n[2] = MaxDrift THEN 0 ELSE Inf]

-----------------------------------------------------------------------------
\* fill_match_costs: what it costs that the second stands where the first was sent.
KeptCost ==
  [p \in Value \X Received |->
     Plus(CostKeep, IF p[2] \in Value THEN CostBit[p[1]][p[2]]
                    ELSE IF p[2] = Erasure THEN CostErase ELSE 0)]

Segment ==
  {SubSeq(s, 1, l) : s \in [1..(N + 2 * MaxDrift) -> Received], l \in 0..(N + 2 * MaxDrift)}

\* register_patterns: groups that edges share are aligned once.
Patterns == {Output[e] : e \in Edge}

\* align_fill_into: the expected group against a segment of what was received.
Aligned ==
  [group \in Patterns |-> [segment \in Segment |->
     LET cost[j \in 0..N, took \in 0..Len(segment)] ==
           IF j = 0 /\ took = 0 THEN 0
           ELSE Least(
             (IF j > 0 THEN {Plus(cost[j-1, took], CostDel)} ELSE {}) \cup
             (IF took > 0 THEN {Plus(cost[j, took-1], CostIns[segment[took]])} ELSE {}) \cup
             (IF j > 0 /\ took > 0
              THEN {Plus(cost[j-1, took-1], KeptCost[<<group[j], segment[took]>>])} ELSE {}))
     IN  cost[N, Len(segment)]]]

\* The branch of edge e from drift di to drift nd when the middle reads at `base`.
BranchCost(table, e, di, nd, base) ==
  LET from == base + di - MaxDrift
      took == N + nd - di
  IN  IF took < 0 \/ (took > 0 /\ (from < 0 \/ from + took > Len(received))) THEN Inf
      ELSE table[Output[e]][SubSeq(received, from + 1, from + took)]

Unpriced == 0   \* what stands in a row that was not computed

\* align_precompute: only drifts that some state is at are priced.
Branches(table, costs, base) ==
  LET live == {di \in Drift : \E s \in State : costs[<<s, di>>] # Inf}
  IN  [b \in Edge \X Drift \X Drift |->
         IF b[2] \in live THEN BranchCost(table, b[1], b[2], b[3], base) ELSE Unpriced]

\* forward_pass_nodrift, where nothing is inserted or deleted: each symbol against its own.
NoDrift == MaxDrift = 0 /\ CostDel = Inf /\ \A symbol \in Received : CostIns[symbol] = Inf

StraightBranches(price, base) ==
  LET upTo[e \in Edge, j \in 0..N] ==
        IF j = 0 THEN 0 ELSE Plus(upTo[e, j-1], price[<<Output[e][j], received[base + j]>>])
  IN  [b \in Edge \X Drift \X Drift |->
         IF base < 0 \/ base + N > Len(received) THEN Inf ELSE upTo[b[1], N]]

-----------------------------------------------------------------------------
NodeOrder(n) == n[1] * (2 * MaxDrift + 1) + n[2]

\* frontier: the cheapest node, the first of those.
Frontier ==
  CHOOSE n \in Node : \A m \in Node \ {n} :
    \/ metric[n] < metric[m]
    \/ metric[n] = metric[m] /\ NodeOrder(n) < NodeOrder(m)

\* pick_shift: the window follows a cheapest node that leaves its middle half.
PickShift ==
  LET drift == Frontier[2] - MaxDrift
      deadband == (MaxDrift + 1) \div 2
  IN  IF MaxDrift = 0 THEN 0
      ELSE IF drift >= deadband THEN 1 ELSE IF drift <= -deadband THEN -1 ELSE 0

\* reanchor_metric: what falls out of the window is dropped.
Reanchored(sigma) ==
  [n \in Node |-> IF n[2] + sigma \in Drift THEN metric[<<n[1], n[2] + sigma>>] ELSE Inf]

\* forward_pass, before it normalises.
Passed(costs, branch) ==
  [n \in Node |-> Least({Inf} \cup
     {Plus(costs[<<e[1], di>>], branch[<<e, di, n[2]>>]) :
        e \in {f \in Edge : NextState[f] = n[1]}, di \in {d \in Drift : d - N <= n[2]}})]

-----------------------------------------------------------------------------
\* compact_received: history for a step of the window back is kept.
DroppedTooMuch(cur) == IF cur > 0 THEN cur ELSE 0   \* slip: a drift behind the cursor is forgotten

Dropped(cur) == IF cur > 2 * MaxDrift THEN cur - 2 * MaxDrift ELSE 0

CompactedTo(drop, cur, syms) ==
  /\ received' = SubSeq(received, drop + 1, Len(received)) \o syms
  /\ origin' = origin + drop
  /\ readBase' = cur - drop

\* decode_feed, with reserve_received.
Feed(syms) ==
  LET drop == Dropped(readBase)
      need == Len(received) - drop + Len(syms)
  IN  /\ CompactedTo(drop, readBase, syms)
      /\ capacity' = IF need <= capacity THEN capacity
                     ELSE IF 2 * capacity < need THEN need ELSE 2 * capacity

\* The same when the buffer cannot grow: it was compacted.
FeedNoMemory(syms) ==
  LET drop == Dropped(readBase)
  IN  /\ Len(received) - drop + Len(syms) > capacity
      /\ CompactedTo(drop, readBase, <<>>)
      /\ UNCHANGED capacity

\* can_forward: the group, and ahead of it what the window may reach.
CanForward(draining) ==
  Len(received) - readBase >= N + (IF draining THEN 0 ELSE MaxDrift + 1)

\* The end of forward_step: the cursor moves on, the buffer may be compacted.
MoveOn(base) ==
  CompactedTo(IF base + N - MaxDrift >= capacity \div 2 THEN Dropped(base + N) ELSE 0,
              base + N, <<>>) /\ UNCHANGED capacity

\* The trellis moves one step on, over branches priced at `base`.
TrellisMoves(costs, num) ==
  /\ metric' = IF GivesUp(num) THEN Acquiring ELSE Normalised(costs)
  /\ Track(num)

\* The marks in the group where nothing drifted.
MarksAt(base) ==
  Cardinality({p \in (base+1)..(base+N) : p \in 1..Len(received) /\ received[p] = Invalid})

DriftInit ==
  /\ TrackInit
  /\ received = <<>> /\ origin = 0 /\ readBase = 0 /\ capacity = FirstCapacity
  /\ metric = Acquiring
=============================================================================
