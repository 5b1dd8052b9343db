---------------------------- MODULE DriftSweep ----------------------------
(***************************************************************************)
(* The decoders of src/cc/maxir/decode.c and src/cc/hybrid/decode.c, for a *)
(* channel that inserts and deletes: their backward half, which they       *)
(* share, and the loop of each. Unlike bcjr they keep the branch costs of  *)
(* every step not yet decided, so a sweep reads no received symbol, and    *)
(* the shifts of the window, to follow drifts from one step to the next.   *)
(* maxir has the calls and batches of bcjr. hybrid has those of viterbi:   *)
(* it keeps no decisions for later; a sweep writes to the caller, as many  *)
(* as are due and have room.                                               *)
(***************************************************************************)
EXTENDS DriftTrellis

VARIABLES beta,                                         \* cheapest way on
          alphaRing, branchRing, lockRing, marksRing    \* snapshots of steps not yet decided

rings == <<alphaRing, branchRing, shiftRing, lockRing, marksRing>>
xvars == <<tracking, window, buffer, metric, beta, rings>>

\* Whatever stands in the rings before they are written.
Blank(value) == [i \in 0..(RingLen-1) |-> value]

\* decoder_init, of maxir.
SweepInit ==
  /\ DriftInit /\ WindowInit
  /\ beta = Acquiring
  /\ alphaRing = Blank(Acquiring) /\ lockRing = Blank(0)
  /\ branchRing = Blank([b \in Edge \X Drift \X Drift |-> Unpriced])
  /\ shiftRing = Blank(0) /\ marksRing = Blank(0)

Slot(t) == t % RingLen

\* decode and flush up to their loop.
StartDecode(syms, room) ==
  Called("decode", room) /\ Feed(syms) /\ UNCHANGED <<tracking, metric, beta, rings>>

DecodeNoMemory(syms) ==
  call = "idle" /\ FeedNoMemory(syms) /\ UNCHANGED <<tracking, window, metric, beta, rings>>

StartFlush(room) == Called("flush", room) /\ UNCHANGED <<tracking, buffer, metric, beta, rings>>

\* What forward_step keeps of a step, before the forward pass.
Snapshot(sigma, alpha, branch, base) ==
  /\ shiftRing' = [shiftRing EXCEPT ![Slot(steps)] = sigma]
  /\ alphaRing' = [alphaRing EXCEPT ![Slot(steps)] = alpha]
  /\ branchRing' = [branchRing EXCEPT ![Slot(steps)] = branch]
  /\ marksRing' = [marksRing EXCEPT ![Slot(steps)] = MarksAt(base)]

\* A sweep starts where the forward pass can be.
BetaAtFrontier == [n \in Node |-> IF metric[n] = Inf THEN Inf ELSE 0]

ShiftAheadOwn == shiftRing[Slot(sweep.t)]   \* slip: the shift before this step, not after it

\* The shift between the step the sweep is at and the one after it.
ShiftAhead == IF sweep.t + 1 = steps THEN 0 ELSE shiftRing[Slot(sweep.t + 1)]

\* compute_beta_step: the cheapest way on from drift di over edge e.
Onwards(e, di) ==
  Least({Inf} \cup
    {Plus(branchRing[Slot(sweep.t)][<<e, di, nd>>], beta[<<NextState[e], nd - ShiftAhead>>]) :
       nd \in {d \in Drift : d >= di - N /\ d - ShiftAhead \in Drift}})

Alive == {n \in Node : alphaRing[Slot(sweep.t)][n] # Inf}

\* The cheapest whole path that takes `bit` at the step the sweep is at.
PathWith(bit) ==
  Least({Inf} \cup {Plus(alphaRing[Slot(sweep.t)][n], Onwards(<<n[1], bit>>, n[2])) : n \in Alive})

Marked == 2 * marksRing[Slot(sweep.t)] > N

\* A round of the sweep, which projects with the lock as it stood at step `at`.
Sweeping(at, num) ==
  /\ SweepMoves(Projected(PathWith(0), PathWith(1), Locked(num, at), Marked))
  /\ \E back \in {[n \in Node |->
        IF n \in Alive THEN Least({Onwards(<<n[1], b>>, n[2]) : b \in Value}) ELSE Inf]} :
       beta' = Normalised(back)
  /\ UNCHANGED <<tracking, buffer, metric, rings>>

-----------------------------------------------------------------------------
(* maxir.                                                                  *)
\* forward_step.
MaxirStep ==
  /\ Wanting /\ ~WindowFull /\ CanForward(call = "flush")
  /\ \E sigma \in {PickShift} : \E alpha \in {Reanchored(sigma)} :
     \E branch \in {Branches(Aligned, alpha, readBase + sigma)} :
     \E costs \in {Passed(alpha, branch)} : \E num \in {NextSmoothed(Lowest(costs))} :
       /\ Snapshot(sigma, alpha, branch, readBase + sigma)
       /\ lockRing' = [lockRing EXCEPT ![Slot(steps)] = num]
       /\ TrellisMoves(costs, num)
       /\ MoveOn(readBase + sigma)
  /\ UNCHANGED <<window, beta>>

MaxirSweepBegins ==
  /\ SweepBegins(CanForward(call = "flush"))
  /\ beta' = BetaAtFrontier
  /\ UNCHANGED <<tracking, buffer, metric, rings>>

\* finalize_emit: the lock at the step itself.
MaxirSweeps == Sweeping(sweep.t + 1, lockRing[Slot(sweep.t)])

\* The rounds of produce and sweep_window.
MaxirRound ==
  \/ MaxirStep
  \/ MaxirSweepBegins
  \/ MaxirSweeps
  \/ (Take \/ SweepEnds \/ Return(CanForward(call = "flush")))
     /\ UNCHANGED <<tracking, buffer, metric, beta, rings>>

-----------------------------------------------------------------------------
(* hybrid.                                                                 *)
Waiting == call # "idle" /\ sweep = NoSweep

\* The inner loop of run goes on: no more than two depths wait, and the group is there.
BatchGrows == steps - committed < Span /\ CanForward(call = "flush")

\* dt_cc_decode_step; the lock is kept under the number of steps then taken.
DecodeStep ==
  /\ Waiting /\ BatchGrows
  /\ \E sigma \in {PickShift} : \E alpha \in {Reanchored(sigma)} :
     \E branch \in {IF NoDrift THEN StraightBranches(KeptCost, readBase + sigma)
                     ELSE Branches(Aligned, alpha, readBase + sigma)} :
     \E costs \in {Passed(alpha, branch)} : \E num \in {NextSmoothed(Lowest(costs))} :
       /\ Snapshot(sigma, alpha, branch, readBase + sigma)
       /\ lockRing' = [lockRing EXCEPT ![Slot(steps + 1)] = num]
       /\ TrellisMoves(costs, num)
       /\ MoveOn(readBase + sigma)
  /\ UNCHANGED <<window, beta>>

\* The decisions that run may make now: all of a stream that is over.
Due ==
  Least({(IF call = "flush" THEN steps ELSE steps - Depth) - committed, left})

\* dt_cc_trellis_soft_batch begins.
BatchBegins ==
  /\ Waiting /\ ~BatchGrows /\ Due > 0
  /\ sweep' = [t |-> steps - 1, hi |-> committed + Due - 1]
  /\ beta' = BetaAtFrontier
  /\ UNCHANGED <<tracking, buffer, metric, rings, deciding, fifo>>

\* finalize_soft reads the lock as it stood when the bit was due.
LockTime == Least({sweep.t + Depth, steps})

BatchStep == Sweeping(LockTime, lockRing[Slot(LockTime)])

\* The batch is the caller's; with no room left the call is over.
BatchEnds ==
  /\ sweep # NoSweep /\ sweep.t < committed
  /\ outs' = outs \o fifo /\ fifo' = <<>>
  /\ committed' = sweep.hi + 1
  /\ sweep' = NoSweep
  /\ left' = left - Len(fifo)
  /\ call' = IF left = Len(fifo) THEN "idle" ELSE call
  /\ UNCHANGED <<tracking, buffer, metric, beta, rings>>

BatchWaits ==
  /\ Waiting /\ ~BatchGrows /\ Due <= 0
  /\ call' = "idle" /\ left' = 0
  /\ UNCHANGED <<tracking, buffer, metric, beta, rings, committed, sweep, fifo, outs>>

\* The rounds of run and of its sweep.
HybridRound == DecodeStep \/ BatchBegins \/ BatchStep \/ BatchEnds \/ BatchWaits
=============================================================================
