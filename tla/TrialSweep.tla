----------------------------- MODULE TrialSweep -----------------------------
(***************************************************************************)
(* The parallel loop of the metrics programs (dt_metrics.c, and the same   *)
(* in the bcjr, maxir, viterbi and vindel ones): threads take (point,      *)
(* trial) pairs, each trial writes a slot of its own, and whoever counts a *)
(* point's last trial down sums its slots and prints the row.  A store     *)
(* waits in its thread's buffer until it reaches memory; the atomic that   *)
(* counts has no memory order, and on a machine where such an atomic       *)
(* orders nothing, the store may still wait when the count is done.        *)
(***************************************************************************)
EXTENDS Integers, Sequences, FiniteSets, SequencesExt

CONSTANTS Threads, Axes, Rates, Trials,    \* a point is an axis and a rate of its grid
          Relaxed    \* whether stores may pass the atomic

\* Fewer than one trial is refused, and so is a grid without rates; the axes
\* are those of an enumeration.
ASSUME SweepAssumption ==
  /\ Trials \in Nat \ {0} /\ Rates \in Nat \ {0}
  /\ Len(Axes) \in Nat /\ \A i, j \in 1..Len(Axes) : Axes[i] = Axes[j] => i = j

\* The points in the order of the three loops that fill the list.
Items == [i \in 1..(Len(Axes) * Rates) |->
            [axis |-> Axes[(i - 1) \div Rates + 1], rate |-> (i - 1) % Rates]]

Points == DOMAIN Items

\* The flat index of a pair: its slot, and all its seed depends on.
Slot(p, k) == (p - 1) * Trials + k
Slots == {Slot(p, k) : p \in Points, k \in 1..Trials}

\* A trial's partial sums are a function of its point and of its seed.
Outcome(p, k) == <<Items[p], Slot(p, k)>>
Garbage == <<>>

VARIABLES flat,        \* pairs that were handed out
          at,          \* what each thread does: [step, point, trial, left, sum]
          results,     \* the slots in memory
          stores,      \* each thread's slots that have not reached memory
          remaining,   \* trials of each point that are not counted down
          rows         \* stdout: [point, sum]

sweepvars == <<flat, at, results, stores, remaining, rows>>

Idle == [step |-> "idle", point |-> 0, trial |-> 0, left |-> 0, sum |-> <<>>]

SweepInit ==
  /\ flat = 0 /\ at = [t \in Threads |-> Idle]
  /\ results = [s \in Slots |-> Garbage]
  /\ stores = [t \in Threads |-> {}]
  /\ remaining = [p \in Points |-> Trials]
  /\ rows = <<>>

\* schedule(dynamic) collapse(2): the next pair.
TakePair(t) ==
  /\ at[t].step = "idle" /\ flat < Len(Items) * Trials
  /\ flat' = flat + 1
  /\ at' = [at EXCEPT ![t] = [Idle EXCEPT !.step = "running", !.point = flat \div Trials + 1,
                                         !.trial = (flat % Trials) + 1]]
  /\ UNCHANGED <<results, stores, remaining, rows>>

RunTrial(t) ==
  /\ at[t].step = "running"
  /\ stores' = [stores EXCEPT ![t] = @ \cup {Slot(at[t].point, at[t].trial)}]
  /\ at' = [at EXCEPT ![t].step = "ran"]
  /\ UNCHANGED <<flat, results, remaining, rows>>

\* The value a thread sees in a slot: its own store before memory's.
OutcomeOf(s) == Outcome((s - 1) \div Trials + 1, ((s - 1) % Trials) + 1)
Seen(t, s)   == IF s \in stores[t] THEN OutcomeOf(s) ELSE results[s]

Reach(t, s) ==
  /\ s \in stores[t]
  /\ results' = [results EXCEPT ![s] = OutcomeOf(s)]
  /\ stores' = [stores EXCEPT ![t] = @ \ {s}]
  /\ UNCHANGED <<flat, at, remaining, rows>>

\* remaining[point] -= 1; left = remaining[point], in one step.
CountDown(t) ==
  /\ at[t].step = "ran" /\ (Relaxed \/ stores[t] = {})
  /\ \E p \in {at[t].point} :
       /\ remaining' = [remaining EXCEPT ![p] = @ - 1]
       /\ at' = [at EXCEPT ![t].step = "counted", ![t].left = remaining[p] - 1]
  /\ UNCHANGED <<flat, results, stores, rows>>

LastOneReread(t) == remaining[at[t].point] = 0    \* slip: the count is read again, not captured

LastOne(t) == at[t].left = 0

GoOn(t) ==
  /\ at[t].step = "counted"
  /\ at' = [at EXCEPT ![t] = IF LastOne(t) THEN [@ EXCEPT !.step = "summing"] ELSE Idle]
  /\ UNCHANGED <<flat, results, stores, remaining, rows>>

\* The slots in the order of the trials, one read after the other.
Sum(t) ==
  /\ at[t].step = "summing" /\ Len(at[t].sum) < Trials
  /\ at' = [at EXCEPT ![t].sum = Append(@, Seen(t, Slot(at[t].point, Len(@) + 1)))]
  /\ UNCHANGED <<flat, results, stores, remaining, rows>>

\* The critical section; leaving it, the thread's stores are in memory.
PrintRow(t) ==
  /\ at[t].step = "summing" /\ Len(at[t].sum) = Trials /\ stores[t] = {}
  /\ rows' = Append(rows, [point |-> Items[at[t].point], sum |-> at[t].sum])
  /\ at' = [at EXCEPT ![t] = Idle]
  /\ UNCHANGED <<flat, results, stores, remaining>>

SweepNext ==
  \E t \in Threads :
    \/ TakePair(t) \/ RunTrial(t) \/ CountDown(t) \/ GoOn(t) \/ Sum(t) \/ PrintRow(t)
    \/ \E s \in Slots : Reach(t, s)

SweepSpec == SweepInit /\ [][SweepNext]_sweepvars

-----------------------------------------------------------------------------
SerialRow(p) == [point |-> Items[p], sum |-> [k \in 1..Trials |-> Outcome(p, k)]]

Finished == flat = Len(Items) * Trials /\ \A t \in Threads : at[t].step = "idle"

\* However the threads are scheduled, every row that is printed is the row a
\* single thread prints, no point has two rows, and in the end none lacks one.
RowsMatchSerial ==
  /\ \A i \in DOMAIN rows : \E p \in Points : rows[i] = SerialRow(p)
  /\ \A i, j \in DOMAIN rows : rows[i].point = rows[j].point => i = j
  /\ Finished => Len(rows) = Len(Items)
=============================================================================
