---------------------------- MODULE SoftWindow ----------------------------
(***************************************************************************)
(* What the trellis decoders bcjr, maxir, hybrid and vindel share, and the *)
(* calls of bcjr and maxir. All four make decisions in calls while these   *)
(* have room, with costs that may be infinite, and track a lock signal: a  *)
(* smoothed mean of the cheapest path's cost per step tells whether this   *)
(* code is being heard; a decoder that had lock and lost it for long       *)
(* begins afresh. bcjr and maxir hand out decisions from a FIFO; when it   *)
(* is empty the forward pass goes on until a window is full or the input   *)
(* ends, and a backward sweep over the window refills it with the          *)
(* decisions of the window's older part. Each round of the loop of         *)
(* produce, and of that of sweep_window, is one step.                      *)
(***************************************************************************)
EXTENDS ConvCode

CONSTANTS Depth,                           \* decision_depth
          ExpectedLock, ExpectedUnlock     \* the lock anchors, costs per step

ASSUME SoftWindowAssumption ==
  Depth \in Nat \ {0} /\ ExpectedLock \in Nat /\ ExpectedUnlock \in Nat

Received == Value \cup {Erasure, Invalid}
Absent   == 4                      \* DT_ABSENT, the decision of a decoder without lock
Decision == Received \cup {Absent}

VARIABLES steps,                               \* trellis steps taken
          smoothed, unlockRun, lockedOnce      \* mean cost, steps without lock, had lock

VARIABLES committed, outs,   \* decisions made, decisions taken
          call, left         \* the call that runs, "idle" when none does; its room

tracking == <<steps, smoothed, unlockRun, lockedOnce>>
deciding == <<committed, outs, call, left>>

Inf == 1000000   \* INFINITY: cannot be

Least(costs) == CHOOSE c \in costs : \A d \in costs : c <= d

Plus(a, b) == IF a = Inf \/ b = Inf THEN Inf ELSE a + b

\* normalize, and what it returns.
Lowest(costs) ==
  LET least == Least({costs[x] : x \in DOMAIN costs}) IN IF least = Inf THEN 0 ELSE least

Normalised(costs) ==
  [x \in DOMAIN costs |-> IF costs[x] = Inf THEN Inf ELSE costs[x] - Lowest(costs)]

\* The smoothed cost is a fraction over (Depth + 1)^steps, kept as its numerator.
Scale(t) == (Depth + 1) ^ t

\* The exponential mean with weight 2 / (Depth + 1), one step on.
NextSmoothed(increment) == (Depth - 1) * smoothed + 2 * increment * Scale(steps)

\* lock_from against the threshold 0.5: no further from lock than from its absence.
Locked(num, t) ==
  /\ ExpectedUnlock > ExpectedLock
  /\ 2 * num <= (ExpectedUnlock + ExpectedLock) * Scale(t)

ReacquireAfterDepth == Depth   \* slip: too soon

ReacquireAfter == 2 * Depth

\* The decoder had lock and has been without for too long.
GivesUp(num) == ~Locked(num, steps + 1) /\ lockedOnce /\ unlockRun + 1 >= ReacquireAfter

\* The tail of forward_step.
Track(num) ==
  /\ smoothed' = IF GivesUp(num) THEN ExpectedUnlock * Scale(steps + 1) ELSE num
  /\ lockedOnce' = (Locked(num, steps + 1) \/ (lockedOnce /\ ~GivesUp(num)))
  /\ unlockRun' = IF Locked(num, steps + 1) \/ GivesUp(num) THEN 0
                  ELSE IF lockedOnce THEN unlockRun + 1 ELSE unlockRun
  /\ steps' = steps + 1

TrackInit ==
  /\ steps = 0 /\ smoothed = ExpectedUnlock /\ unlockRun = 0 /\ lockedOnce = FALSE
  /\ committed = 0 /\ outs = <<>> /\ call = "idle" /\ left = 0

-----------------------------------------------------------------------------
(* produce and sweep_window.                                               *)
VARIABLES sweep,   \* the step the backward sweep is at, and the last it decides
          fifo     \* decisions made and not taken

window == <<deciding, sweep, fifo>>

Batch == Depth
RingLen == Depth + Batch + 2
Span == Depth + Batch

NoSweep == [t |-> -1, hi |-> -1]

WindowInit == TrackInit /\ sweep = NoSweep /\ fifo = <<>>

Called(kind, room) ==
  /\ call = "idle"
  /\ call' = kind /\ left' = room
  /\ UNCHANGED <<committed, sweep, fifo, outs>>

\* produce hands out the oldest decision that waits.
Take ==
  /\ call # "idle" /\ sweep = NoSweep
  /\ fifo # <<>> /\ left > 0
  /\ outs' = Append(outs, Head(fifo)) /\ fifo' = Tail(fifo)
  /\ left' = left - 1
  /\ UNCHANGED <<committed, sweep, call>>

\* The caller has room and no decision waits.
Wanting == call # "idle" /\ sweep = NoSweep /\ fifo = <<>> /\ left > 0

WindowFullEarly == steps - committed >= Depth   \* slip: the batch has no window behind it

\* What the sweep of produce waits for.
WindowFull == steps - committed >= Span

\* sweep_window begins: a batch is due, or the stream is over.
SweepBegins(canForward) ==
  /\ Wanting
  /\ \/ WindowFull /\ sweep' = [t |-> steps - 1, hi |-> committed + Batch - 1]
     \/ /\ ~WindowFull /\ ~canForward /\ call = "flush" /\ committed < steps
        /\ sweep' = [t |-> steps - 1, hi |-> steps - 1]
  /\ UNCHANGED <<committed, fifo, outs, call, left>>

\* A round of sweep_window's loop, from the frontier down to the oldest undecided step.
SweepMoves(decision) ==
  /\ sweep # NoSweep /\ sweep.t >= committed
  /\ fifo' = IF sweep.t <= sweep.hi THEN <<decision>> \o fifo ELSE fifo
  /\ sweep' = [sweep EXCEPT !.t = @ - 1]
  /\ UNCHANGED <<committed, outs, call, left>>

SweepEnds ==
  /\ sweep # NoSweep /\ sweep.t < committed
  /\ committed' = sweep.hi + 1
  /\ sweep' = NoSweep
  /\ UNCHANGED <<fifo, outs, call, left>>

ReturnWhenFull(canForward) ==   \* slip: waits for input inside a call
  /\ call # "idle" /\ sweep = NoSweep /\ left = 0
  /\ call' = "idle" /\ left' = 0
  /\ UNCHANGED <<committed, sweep, fifo, outs>>

\* The returns of produce.
Return(canForward) ==
  /\ call # "idle" /\ sweep = NoSweep
  /\ \/ left = 0
     \/ /\ fifo = <<>> /\ ~WindowFull /\ ~canForward
        /\ ~(call = "flush" /\ committed < steps)
  /\ call' = "idle" /\ left' = 0
  /\ UNCHANGED <<committed, sweep, fifo, outs>>

\* finalize_emit's cascade.
ProjectedMarkFirst(m0, m1, locked, marked) ==   \* slip: a mark hides a value that is known
  IF (m0 = Inf /\ m1 = Inf) \/ ~locked THEN Absent
  ELSE IF marked THEN Invalid
  ELSE IF m1 < m0 THEN 1 ELSE IF m0 < m1 THEN 0 ELSE Erasure

Projected(m0, m1, locked, marked) ==
  IF (m0 = Inf /\ m1 = Inf) \/ ~locked THEN Absent
  ELSE IF m1 < m0 THEN 1
  ELSE IF m0 < m1 THEN 0
  ELSE IF marked THEN Invalid ELSE Erasure
=============================================================================
