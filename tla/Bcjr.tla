-------------------------------- MODULE Bcjr --------------------------------
(***************************************************************************)
(* The forward-backward decoder of src/cc/bcjr/decode.c, for a channel     *)
(* that flips and erases.  The forward pass keeps the cost of the cheapest *)
(* path into each state and a snapshot of it per step; the backward sweep  *)
(* combines the snapshots with the cost of the cheapest way on.  Branch    *)
(* costs are computed again by the sweep, from the symbols kept for it.    *)
(***************************************************************************)
EXTENDS SoftWindow

CONSTANTS CostMatch, CostMiss, CostErase,   \* what a received symbol costs
          FirstCapacity   \* of the received buffer: (2 * Depth + 4) * N + 64 in the code

VARIABLES received, origin, readBase, capacity,   \* buffer, what was dropped from it, cursor
          metric, beta,                           \* cheapest path to each state, cheapest way on
          alphaRing, lockRing                     \* snapshots of steps not yet decided

buffer == <<received, origin, readBase, capacity>>
rings  == <<alphaRing, lockRing>>
bvars  == <<tracking, window, buffer, metric, beta, rings>>

BInit ==
  /\ WindowInit
  /\ received = <<>> /\ origin = 0 /\ readBase = 0 /\ capacity = FirstCapacity
  /\ metric = [s \in State |-> 0] /\ beta = [s \in State |-> Inf]
  /\ alphaRing = [i \in 0..(RingLen-1) |-> metric]
  /\ lockRing = [i \in 0..(RingLen-1) |-> 0]

\* dt_cc_bit_cost.
BitCost(s, expected) ==
  IF s \in Value THEN (IF s = expected THEN CostMatch ELSE CostMiss)
  ELSE IF s = Invalid THEN 0 ELSE CostErase

\* branch_cost: edge e against the n symbols from base on.
BranchCost(e, base) ==
  IF base < 0 \/ base + N > Len(received) THEN Inf
  ELSE LET upTo[j \in 0..N] ==
             IF j = 0 THEN 0 ELSE Plus(upTo[j-1], BitCost(received[base + j], Output[e][j]))
       IN  upTo[N]

\* compute_branches.
Branches(base) == [e \in State \X Value |-> BranchCost(e, base)]

\* forward_pass, before it normalises.
Passed(branch) ==
  [t \in State |-> Least({Inf} \cup {Plus(metric[e[1]], branch[e]) :
                                       e \in {f \in State \X Value : NextState[f] = t}})]

\* oldest_needed_index, after c decisions and s steps with the cursor at cur.
OldestNeededNextStep(c, s, cur) == cur   \* slip: what a sweep still reads is let go

OldestNeeded(c, s, cur) ==
  LET base == IF c < s THEN c * N - origin ELSE cur
  IN  IF base < 0 THEN 0 ELSE base

\* compact_received drops that many.
CompactedTo(drop, cur, syms) ==
  /\ received' = SubSeq(received, drop + 1, Len(received)) \o syms
  /\ origin' = origin + drop
  /\ readBase' = cur - drop

\* decode_feed, with reserve_received.
Feed(syms) ==
  LET drop == OldestNeeded(committed, steps, readBase)
      need == Len(received) - drop + Len(syms)
  IN  /\ CompactedTo(drop, readBase, syms)
      /\ capacity' = IF need <= capacity THEN capacity
                     ELSE IF 2 * capacity < need THEN need ELSE 2 * capacity

\* dt_cc_bcjr_stream_decode up to the loop of produce.
StartDecode(syms, room) ==
  /\ Called("decode", room)
  /\ Feed(syms)
  /\ UNCHANGED <<tracking, metric, beta, rings>>

\* The same when the buffer cannot grow: it was compacted.
DecodeNoMemory(syms) ==
  LET drop == OldestNeeded(committed, steps, readBase)
  IN  /\ call = "idle"
      /\ Len(received) - drop + Len(syms) > capacity
      /\ CompactedTo(drop, readBase, <<>>)
      /\ UNCHANGED <<capacity, tracking, window, metric, beta, rings>>

\* dt_cc_bcjr_stream_decode_flush up to the same loop.
StartFlush(room) == Called("flush", room) /\ UNCHANGED <<tracking, buffer, metric, beta, rings>>

\* can_forward.
CanForward == Len(received) - readBase >= N

\* forward_step.
ForwardStep ==
  /\ Wanting /\ ~WindowFull /\ CanForward
  /\ alphaRing' = [alphaRing EXCEPT ![steps % RingLen] = metric]
  /\ \E costs \in {Passed(Branches(readBase))} : \E num \in {NextSmoothed(Lowest(costs))} :
       /\ lockRing' = [lockRing EXCEPT ![steps % RingLen] = num]
       /\ metric' = IF GivesUp(num) THEN [s \in State |-> 0] ELSE Normalised(costs)
       /\ Track(num)
  /\ CompactedTo(IF readBase + N >= capacity \div 2
                 THEN OldestNeeded(committed, steps + 1, readBase + N) ELSE 0,
                 readBase + N, <<>>)
  /\ UNCHANGED <<capacity, window, beta>>

\* compute_beta_step: what it costs to go on from each state over edge e.
Inner(e, branch) == Plus(branch[e], beta[NextState[e]])

\* The cheapest whole path that takes `bit` at the step the sweep is at.
PathWith(bit, branch) ==
  Least({Inf} \cup {Plus(alphaRing[sweep.t % RingLen][s], Inner(<<s, bit>>, branch)) : s \in State})

SweptGroup == sweep.t * N - origin

\* More than half of the step's group is the encoder's mark.
Marked ==
  2 * Cardinality({p \in (SweptGroup+1)..(SweptGroup+N) :
                     p \in 1..Len(received) /\ received[p] = Invalid}) > N

SweptDecision(branch) ==
  Projected(PathWith(0, branch), PathWith(1, branch),
            Locked(lockRing[sweep.t % RingLen], sweep.t + 1), Marked)

SweepStep ==
  /\ \E branch \in {Branches(SweptGroup)} :
       /\ SweepMoves(SweptDecision(branch))
       /\ beta' = Normalised([s \in State |->
                     Least({Inner(<<s, 0>>, branch), Inner(<<s, 1>>, branch)})])
  /\ UNCHANGED <<tracking, buffer, metric, rings>>

\* The rounds of produce and sweep_window.
Round ==
  \/ ForwardStep
  \/ SweepBegins(CanForward) /\ beta' = [s \in State |-> 0]
     /\ UNCHANGED <<tracking, buffer, metric, rings>>
  \/ SweepStep
  \/ (Take \/ SweepEnds \/ Return(CanForward)) /\ UNCHANGED <<tracking, buffer, metric, beta, rings>>
=============================================================================
