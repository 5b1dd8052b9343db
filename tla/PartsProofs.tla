----------------------------- MODULE PartsProofs -----------------------------
(***************************************************************************)
(* Five of the small parts.  That the threads of a metrics program print   *)
(* what one thread would, for every number of threads, points and trials   *)
(* and every schedule, as long as no store passes the atomic that counts;  *)
(* that a container frees an object before all it was built on, for every  *)
(* number of objects and every dependence among them; that the naive       *)
(* decoder in its caller's loop tiles the stream, and starves when it stops,*)
(* for every frame length and however arrivals and room are cut; that a    *)
(* detector records each position once, and keeps none back too long; and  *)
(* that the banded search returns the edit distance, for texts of every    *)
(* length and whatever its scratch rows held.                              *)
(***************************************************************************)
EXTENDS TrialSweep, Container, NaiveLoop, Detector, EditDistance,
        FiniteSetTheorems, WellFoundedInduction, TLAPS

-----------------------------------------------------------------------------
(* The trial loop.                                                         *)
Total == Len(Items) * Trials
Outcomes == {Outcome(p, k) : p \in Points, k \in 1..Trials}

\* What a thread does, without the trial it may have in hand.
Working == [step : {"idle", "running", "ran", "counted", "summing"},
            point : Nat, trial : Nat, left : Nat, sum : Seq(Outcomes)]

SweepType ==
  /\ flat \in 0..Total
  /\ at \in [Threads -> Working]
  /\ results \in [Slots -> Outcomes \cup {Garbage}]
  /\ stores \in [Threads -> SUBSET Slots]
  /\ remaining \in [Points -> Nat]
  /\ rows \in Seq([point : {Items[p] : p \in Points}, sum : Seq(Outcomes)])

\* Thread t has trial k of point p in hand.
Has(t, p, k) == at[t].step \in {"running", "ran"} /\ at[t].point = p /\ at[t].trial = k

\* The trial was handed out and is counted.
Counted(p, k) == Slot(p, k) <= flat /\ \A t \in Threads : ~Has(t, p, k)

Open(p) == {k \in 1..Trials : ~Counted(p, k)}

\* Thread t took a point's count to zero and prints its row.
Closes(t, p) ==
  /\ at[t].point = p
  /\ at[t].step = "summing" \/ (at[t].step = "counted" /\ at[t].left = 0)

HasRow(p) == \E i \in DOMAIN rows : rows[i].point = Items[p]

\* A trial is in one hand, and was handed out.
HandsInv ==
  /\ \A t \in Threads : at[t].step # "idle" => at[t].point \in Points
  /\ \A t \in Threads : at[t].step \in {"running", "ran"} =>
       at[t].trial \in 1..Trials /\ Slot(at[t].point, at[t].trial) <= flat
  /\ \A t, u \in Threads, p \in Points, k \in 1..Trials : Has(t, p, k) /\ Has(u, p, k) => t = u

\* Only a trial that is done and not counted waits on its way to memory.
StoresInv ==
  /\ \A t \in Threads : \A s \in stores[t] :
       at[t].step = "ran" /\ s = Slot(at[t].point, at[t].trial)
  /\ \A t \in Threads : at[t].step = "ran" =>
       LET s == Slot(at[t].point, at[t].trial)
       IN  s \in stores[t] \/ results[s] = Outcome(at[t].point, at[t].trial)
  /\ \A p \in Points, k \in 1..Trials : Counted(p, k) => results[Slot(p, k)] = Outcome(p, k)

CountsInv == \A p \in Points : remaining[p] = Cardinality(Open(p))

\* A point is closed once: by a thread that will print its row, or did.
ClosesInv ==
  /\ \A t \in Threads, p \in Points : Closes(t, p) => Open(p) = {} /\ ~HasRow(p)
  /\ \A t, u \in Threads, p \in Points : Closes(t, p) /\ Closes(u, p) => t = u
  /\ \A p \in Points : HasRow(p) => Open(p) = {}
  /\ \A p \in Points : Open(p) = {} => HasRow(p) \/ \E t \in Threads : Closes(t, p)

\* What is summed so far, and what was printed.
SumsInv ==
  /\ \A t \in Threads : at[t].step = "summing" =>
       /\ Len(at[t].sum) <= Trials
       /\ \A k \in 1..Len(at[t].sum) : at[t].sum[k] = Outcome(at[t].point, k)
  /\ \A t \in Threads : at[t].step # "summing" => at[t].sum = <<>>
  /\ \A i \in DOMAIN rows : \E p \in Points : rows[i] = SerialRow(p)
  /\ \A i, j \in DOMAIN rows : rows[i].point = rows[j].point => i = j

SweepInv == SweepType /\ HandsInv /\ StoresInv /\ CountsInv /\ ClosesInv /\ SumsInv

LEMMA DivMod ==
  ASSUME NEW a \in Nat, NEW b \in Nat \ {0}
  PROVE  a \div b \in Nat /\ a % b \in 0..(b - 1) /\ a = b * (a \div b) + (a % b)
  OBVIOUS

LEMMA Grows ==
  ASSUME NEW a \in Nat, NEW b \in Nat, NEW c \in Nat, a <= b
  PROVE  c * a <= c * b /\ c * a \in Nat /\ c * b \in Nat
  OBVIOUS

LEMMA OneMore ==
  ASSUME NEW a \in Nat, NEW b \in Nat
  PROVE  b * a \in Nat /\ b * (a + 1) = b * a + b
  OBVIOUS

LEMMA Divided ==
  ASSUME NEW b \in Nat \ {0}, NEW q1 \in Nat, NEW q2 \in Nat, NEW r1 \in 0..(b - 1), NEW r2 \in 0..(b - 1),
         b * q1 + r1 = b * q2 + r2
  PROVE  q1 = q2 /\ r1 = r2
<1>1. ASSUME NEW x \in Nat, NEW y \in Nat, x < y PROVE b * x + b <= b * y
  <2>1. b * (x + 1) <= b * y
    BY <1>1, Grows
  <2>2. b * (x + 1) = b * x + b
    BY OneMore
  <2> QED BY <2>1, <2>2
<1>2. b * q1 \in Nat /\ b * q2 \in Nat
  BY Grows
<1>3. CASE q1 < q2
  <2>1. b * q1 + b <= b * q2
    BY <1>1, <1>3
  <2> QED BY <1>2, <2>1
<1>4. CASE q2 < q1
  <2>1. b * q2 + b <= b * q1
    BY <1>1, <1>4
  <2> QED BY <1>2, <2>1
<1> QED BY <1>3, <1>4

\* The points are numbered, and no two are the same.
LEMMA PointsAre ==
  /\ Len(Items) \in Nat /\ Points = 1..Len(Items)
  /\ \A p, q \in Points : Items[p] = Items[q] => p = q
<1> DEFINE n == Len(Axes) * Rates
           m == Len(Axes)
<1>1. n \in Nat /\ m \in Nat /\ Rates \in Nat \ {0} /\ n = Rates * m
  BY SweepAssumption
<1>2. /\ DOMAIN Items = 1..n
      /\ \A i \in 1..n : Items[i] = [axis |-> Axes[(i - 1) \div Rates + 1], rate |-> (i - 1) % Rates]
  BY DEF Items
<1>3. Len(Items) = n
  <2> HIDE DEF n
  <2>1. Items \in [1..n -> {Items[i] : i \in 1..n}]
    BY <1>2 DEF Items, n
  <2> DEFINE S == {Items[i] : i \in 1..n}
  <2>2. Items \in [1..n -> S]
    BY <2>1
  <2> HIDE DEF S
  <2>3. \A f \in [1..n -> S] : Len(f) = n
    BY <1>1
  <2> QED BY <2>2, <2>3
<1>4. ASSUME NEW p \in 1..n, NEW q \in 1..n, Items[p] = Items[q] PROVE p = q
  <2> DEFINE a == (p - 1) \div Rates
             b == (q - 1) \div Rates
             c == (p - 1) % Rates
             d == (q - 1) % Rates
  <2>1. Axes[a + 1] = Axes[b + 1] /\ c = d
    <3>1. Items[p] = [axis |-> Axes[a + 1], rate |-> c] /\ Items[q] = [axis |-> Axes[b + 1], rate |-> d]
      BY <1>2
    <3> DEFINE x == Axes[a + 1]
               y == Axes[b + 1]
    <3>2. [axis |-> x, rate |-> c] = [axis |-> y, rate |-> d]
      BY <1>4, <3>1
    <3> HIDE DEF a, b, c, d, x, y
    <3>3. x = y /\ c = d
      BY <3>2
    <3> QED BY <3>3 DEF x, y
  <2>2. /\ p - 1 \in Nat /\ a \in Nat /\ c \in 0..(Rates - 1) /\ p - 1 = Rates * a + c
        /\ q - 1 \in Nat /\ b \in Nat /\ d \in 0..(Rates - 1) /\ q - 1 = Rates * b + d
    <3>1. p - 1 \in Nat /\ q - 1 \in Nat
      BY <1>1
    <3> QED BY <1>1, <3>1, DivMod
  <2> HIDE DEF a, b, c, d, n
  <2>3. a < m /\ b < m
    <3>1. ~(m <= a)
      <4> SUFFICES ASSUME m <= a PROVE FALSE
        OBVIOUS
      <4>1. Rates * m <= Rates * a /\ Rates * a \in Nat
        BY <1>1, <2>2, Grows
      <4> QED BY <1>1, <2>2, <4>1
    <3>2. ~(m <= b)
      <4> SUFFICES ASSUME m <= b PROVE FALSE
        OBVIOUS
      <4>1. Rates * m <= Rates * b /\ Rates * b \in Nat
        BY <1>1, <2>2, Grows
      <4> QED BY <1>1, <2>2, <4>1
    <3> QED BY <1>1, <2>2, <3>1, <3>2
  <2>4. a + 1 \in 1..m /\ b + 1 \in 1..m
    BY <1>1, <2>2, <2>3
  <2>5. a + 1 = b + 1
    BY <2>1, <2>4, SweepAssumption
  <2>6. a = b
    BY <2>2, <2>5
  <2>7. p - 1 = q - 1
    BY <2>1, <2>2, <2>6
  <2> QED BY <1>1, <2>7
<1> HIDE DEF n
<1> QED BY <1>1, <1>2, <1>3, <1>4 DEF Points

LEMMA TrialsAre == Trials \in Nat /\ Trials > 0 /\ Total \in Nat /\ Total = Trials * Len(Items)
<1>1. Trials \in Nat /\ Trials > 0 /\ Len(Items) \in Nat
  BY SweepAssumption, PointsAre
<1> QED BY <1>1 DEF Total

\* A slot is one pair's.
LEMMA SlotIs ==
  ASSUME NEW p \in Points, NEW k \in 1..Trials
  PROVE  /\ p - 1 \in Nat /\ k - 1 \in 0..(Trials - 1)
         /\ Slot(p, k) - 1 = Trials * (p - 1) + (k - 1)
         /\ Slot(p, k) \in 1..Total /\ Slot(p, k) \in Slots
<1>1. /\ p \in Nat /\ p >= 1 /\ p <= Len(Items) /\ Len(Items) \in Nat /\ k \in Nat /\ k >= 1 /\ k <= Trials
      /\ Trials \in Nat /\ Trials > 0 /\ Total = Trials * Len(Items) /\ Total \in Nat
  BY PointsAre, TrialsAre
<1> DEFINE q == p - 1
           l == Len(Items)
<1>2. q \in Nat /\ q + 1 <= l /\ l \in Nat
  BY <1>1
<1>3. Slot(p, k) = Trials * q + k
  <2>1. Slot(p, k) = q * Trials + k
    BY DEF Slot
  <2>2. q * Trials = Trials * q
    BY <1>1, <1>2
  <2> QED BY <2>1, <2>2
<1> HIDE DEF q, l
<1>4. Trials * q \in Nat /\ Trials * (q + 1) <= Trials * l /\ Trials * (q + 1) = Trials * q + Trials
  <2>1. q + 1 \in Nat
    BY <1>2
  <2>2. Trials * (q + 1) <= Trials * l
    BY <1>1, <1>2, <2>1, Grows
  <2>3. Trials * q \in Nat /\ Trials * (q + 1) = Trials * q + Trials
    BY <1>1, <1>2, OneMore
  <2> QED BY <2>2, <2>3
<1> DEFINE v == Trials * q
<1>5. v \in Nat /\ Slot(p, k) = v + k /\ v + Trials <= Total
  BY <1>1, <1>3, <1>4 DEF l
<1> HIDE DEF v
<1>6. Slot(p, k) \in 1..Total /\ Slot(p, k) - 1 = v + (k - 1)
  BY <1>1, <1>5
<1> QED BY <1>1, <1>2, <1>6, SMTT(40) DEF q, v, Slots

LEMMA SlotsDiffer ==
  ASSUME NEW p \in Points, NEW k \in 1..Trials, NEW q \in Points, NEW l \in 1..Trials, Slot(p, k) = Slot(q, l)
  PROVE  p = q /\ k = l
<1> DEFINE a == p - 1
           b == q - 1
           c == k - 1
           d == l - 1
<1>1. a \in Nat /\ c \in 0..(Trials - 1) /\ Slot(p, k) - 1 = Trials * a + c
  BY SlotIs
<1>2. b \in Nat /\ d \in 0..(Trials - 1) /\ Slot(q, l) - 1 = Trials * b + d
  BY SlotIs
<1> HIDE DEF a, b, c, d
<1>3. Trials \in Nat \ {0} /\ Trials * a + c = Trials * b + d
  BY <1>1, <1>2, TrialsAre
<1>4. a = b /\ c = d
  BY <1>1, <1>2, <1>3, Divided
<1>5. p \in Nat /\ q \in Nat /\ k \in Nat /\ l \in Nat
  BY PointsAre, TrialsAre
<1> QED BY <1>4, <1>5 DEF a, b, c, d

\* What is stored in a slot is its pair's outcome.
LEMMA StoredIs ==
  ASSUME NEW p \in Points, NEW k \in 1..Trials
  PROVE  OutcomeOf(Slot(p, k)) = Outcome(p, k)
<1> DEFINE z == Slot(p, k) - 1
           a == p - 1
           c == k - 1
           b == z \div Trials
           d == z % Trials
<1>1. a \in Nat /\ c \in 0..(Trials - 1) /\ z = Trials * a + c /\ z \in Nat
  BY SlotIs, TrialsAre
<1>2. Trials \in Nat \ {0}
  BY TrialsAre
<1>3. b \in Nat /\ d \in 0..(Trials - 1) /\ z = Trials * b + d
  BY <1>1, <1>2, DivMod
<1>4. OutcomeOf(Slot(p, k)) = Outcome(b + 1, d + 1)
  BY DEF OutcomeOf
<1> HIDE DEF z, a, b, c, d
<1>5. a = b /\ c = d
  BY <1>1, <1>2, <1>3, Divided
<1>6. a + 1 = p /\ c + 1 = k
  BY PointsAre, TrialsAre DEF a, c
<1> QED BY <1>4, <1>5, <1>6

\* The pair that is handed out next.
LEMMA NextPair ==
  ASSUME NEW f \in 0..Total, f < Total
  PROVE  /\ f \div Trials + 1 \in Points /\ (f % Trials) + 1 \in 1..Trials
         /\ Slot(f \div Trials + 1, (f % Trials) + 1) = f + 1
<1> DEFINE b == f \div Trials
           d == f % Trials
           l == Len(Items)
<1>1. Trials \in Nat \ {0} /\ f \in Nat /\ Total = Trials * l /\ l \in Nat
  BY TrialsAre, PointsAre
<1>2. b \in Nat /\ d \in 0..(Trials - 1) /\ f = Trials * b + d
  BY <1>1, DivMod
<1> HIDE DEF b, d, l
<1>3. b < l
  <2> SUFFICES ASSUME l <= b PROVE FALSE
    BY <1>1, <1>2
  <2>1. Trials * l <= Trials * b /\ Trials * b \in Nat /\ Trials * l \in Nat
    BY <1>1, <1>2, Grows
  <2> QED BY <1>1, <1>2, <2>1
<1>4. b + 1 \in Points /\ d + 1 \in 1..Trials
  BY <1>1, <1>2, <1>3, PointsAre DEF l
<1>5. Slot(b + 1, d + 1) - 1 = Trials * b + d /\ Slot(b + 1, d + 1) \in 1..Total
  <2>1. /\ Slot(b + 1, d + 1) - 1 = Trials * ((b + 1) - 1) + ((d + 1) - 1)
        /\ Slot(b + 1, d + 1) \in 1..Total
    BY <1>4, SlotIs
  <2>2. (b + 1) - 1 = b /\ (d + 1) - 1 = d
    BY <1>2
  <2> QED BY <2>1, <2>2
<1>6. Slot(b + 1, d + 1) = f + 1
  <2> DEFINE s == Slot(b + 1, d + 1)
             v == Trials * b + d
  <2>1. s - 1 = v /\ s \in 1..Total /\ f = v
    BY <1>2, <1>5
  <2> HIDE DEF s, v
  <2>2. s = f + 1
    BY <1>1, <2>1, TrialsAre
  <2> QED BY <2>2 DEF s
<1> QED BY <1>4, <1>6 DEF b, d

LEMMA OutcomeIn ==
  ASSUME NEW p \in Points, NEW k \in 1..Trials
  PROVE  Outcome(p, k) \in Outcomes
  BY DEF Outcomes

LEMMA OpenIs ==
  ASSUME NEW p
  PROVE  Open(p) \subseteq 1..Trials /\ IsFiniteSet(Open(p)) /\ Cardinality(Open(p)) \in Nat
<1>1. Open(p) \subseteq 1..Trials
  BY DEF Open
<1>2. IsFiniteSet(1..Trials)
  <2>1. Trials \in Int /\ 1 \in Int
    BY TrialsAre
  <2> QED BY <2>1, FS_Interval
<1>3. IsFiniteSet(Open(p))
  BY <1>1, <1>2, FS_Subset
<1> QED BY <1>1, <1>3, FS_CardinalityType

\* A point is open as long as the same trials are in hand and to come.
LEMMA OpenSame ==
  ASSUME \A p \in Points, k \in 1..Trials : Counted(p, k)' <=> Counted(p, k)
  PROVE  \A p \in Points : Open(p)' = Open(p)
  BY DEF Open

LEMMA HandsSame ==
  ASSUME flat' = flat,
         \A t \in Threads, p \in Points, k \in 1..Trials : Has(t, p, k)' <=> Has(t, p, k)
  PROVE  /\ \A p \in Points, k \in 1..Trials : Counted(p, k)' <=> Counted(p, k)
         /\ \A p \in Points : Open(p)' = Open(p)
<1>1. \A p \in Points, k \in 1..Trials : Counted(p, k)' <=> Counted(p, k)
  <2> SUFFICES ASSUME NEW p \in Points, NEW k \in 1..Trials PROVE Counted(p, k)' <=> Counted(p, k)
    OBVIOUS
  <2>1. (Slot(p, k) <= flat)' <=> Slot(p, k) <= flat
    OBVIOUS
  <2>2. (\A t \in Threads : ~Has(t, p, k))' <=> \A t \in Threads : ~Has(t, p, k)
    OBVIOUS
  <2> QED BY <2>1, <2>2 DEF Counted
<1> QED BY <1>1, OpenSame

\* One thread moves, the others stay where they are.
LEMMA OneMoves ==
  ASSUME at \in [Threads -> Working], NEW t \in Threads, NEW w \in Working, at' = [at EXCEPT ![t] = w]
  PROVE  /\ at' \in [Threads -> Working] /\ at'[t] = w
         /\ \A u \in Threads : u # t => at'[u] = at[u]
  OBVIOUS

LEMMA SweepStart == SweepInit => SweepInv
<1> SUFFICES ASSUME SweepInit PROVE SweepInv
  OBVIOUS
<1>1. /\ flat = 0 /\ at = [t \in Threads |-> Idle] /\ results = [s \in Slots |-> Garbage]
      /\ stores = [t \in Threads |-> {}] /\ remaining = [p \in Points |-> Trials] /\ rows = <<>>
  BY DEF SweepInit
<1>2. Idle \in Working /\ Idle.step = "idle" /\ Idle.sum = <<>>
  <2>1. <<>> \in Seq(Outcomes)
    OBVIOUS
  <2> HIDE DEF Outcomes
  <2> QED BY <2>1 DEF Idle, Working
<1>3. \A t \in Threads : at[t] = Idle
  BY <1>1
<1>4. SweepType
  <2>1. flat \in 0..Total
    BY <1>1, TrialsAre
  <2>2. at \in [Threads -> Working]
    BY <1>1, <1>2
  <2>3. remaining \in [Points -> Nat]
    BY <1>1, TrialsAre
  <2>4. rows \in Seq([point : {Items[p] : p \in Points}, sum : Seq(Outcomes)])
    BY <1>1
  <2> QED BY <1>1, <2>1, <2>2, <2>3, <2>4 DEF SweepType
<1>5. HandsInv
  BY <1>2, <1>3 DEF HandsInv, Has
<1>6. \A p \in Points, k \in 1..Trials : ~Counted(p, k)
  <2> SUFFICES ASSUME NEW p \in Points, NEW k \in 1..Trials PROVE ~Counted(p, k)
    OBVIOUS
  <2>1. Slot(p, k) \in 1..Total
    BY SlotIs
  <2>2. ~(Slot(p, k) <= flat)
    BY <1>1, <2>1, TrialsAre
  <2> QED BY <2>2 DEF Counted
<1>7. \A p \in Points : Open(p) = 1..Trials
  BY <1>6 DEF Open
<1>8. StoresInv
  BY <1>1, <1>2, <1>3, <1>6 DEF StoresInv
<1>9. CountsInv
  <2>1. Cardinality(1..Trials) = Trials
    <3>1. Trials \in Int /\ 1 \in Int /\ Trials >= 1 /\ (Trials - 1) + 1 = Trials
      BY TrialsAre
    <3>2. Cardinality(1..Trials) = IF 1 > Trials THEN 0 ELSE Trials - 1 + 1
      BY <3>1, FS_Interval
    <3> QED BY <3>1, <3>2
  <2> QED BY <1>1, <1>7, <2>1 DEF CountsInv
<1>10. ClosesInv
  <2>1. \A p \in Points : ~HasRow(p)
    BY <1>1 DEF HasRow
  <2>2. \A t \in Threads, p \in Points : ~Closes(t, p)
    BY <1>2, <1>3 DEF Closes
  <2>3. 1 \in 1..Trials
    BY TrialsAre
  <2> QED BY <1>7, <2>1, <2>2, <2>3 DEF ClosesInv
<1>11. SumsInv
  BY <1>1, <1>2, <1>3 DEF SumsInv
<1> QED BY <1>4, <1>5, <1>8, <1>9, <1>10, <1>11 DEF SweepInv

\* What a step leaves alone when the same trials stay in hand.
LEMMA ClosesSame ==
  ASSUME ClosesInv, rows' = rows, \A p \in Points : Open(p)' = Open(p),
         \A t \in Threads, p \in Points : Closes(t, p)' <=> Closes(t, p)
  PROVE  ClosesInv'
<1>1. \A p \in Points : HasRow(p)' <=> HasRow(p)
  BY DEF HasRow
<1>2. \A t \in Threads, p \in Points : Closes(t, p)' => Open(p)' = {} /\ ~HasRow(p)'
  BY <1>1 DEF ClosesInv
<1>3. \A t, u \in Threads, p \in Points : Closes(t, p)' /\ Closes(u, p)' => t = u
  BY DEF ClosesInv
<1>4. \A p \in Points : HasRow(p)' => Open(p)' = {}
  BY <1>1 DEF ClosesInv
<1>5. \A p \in Points : Open(p)' = {} => HasRow(p)' \/ \E t \in Threads : Closes(t, p)'
  BY <1>1 DEF ClosesInv
<1> QED BY <1>2, <1>3, <1>4, <1>5 DEF ClosesInv

LEMMA TakePairKeeps ==
  ASSUME SweepInv, NEW t \in Threads, TakePair(t)
  PROVE  SweepInv'
<1> DEFINE b == flat \div Trials + 1
           d == (flat % Trials) + 1
           w == [Idle EXCEPT !.step = "running", !.point = b, !.trial = d]
<1>1. /\ at[t].step = "idle" /\ flat < Total /\ flat' = flat + 1 /\ flat \in 0..Total
      /\ at' = [at EXCEPT ![t] = w] /\ UNCHANGED <<results, stores, remaining, rows>>
      /\ at \in [Threads -> Working]
  BY DEF TakePair, SweepInv, SweepType, Total
<1>2. b \in Points /\ d \in 1..Trials /\ Slot(b, d) = flat + 1
  BY <1>1, NextPair
<1> HIDE DEF b, d
<1>3. w \in Working /\ w.step = "running" /\ w.point = b /\ w.trial = d /\ w.sum = <<>>
  <2>1. b \in Nat /\ d \in Nat /\ <<>> \in Seq(Outcomes)
    BY <1>2, PointsAre, TrialsAre
  <2> HIDE DEF Outcomes
  <2> QED BY <2>1 DEF Idle, Working
<1> HIDE DEF w
<1>4. at' \in [Threads -> Working] /\ at'[t] = w /\ \A u \in Threads : u # t => at'[u] = at[u]
  BY <1>1, <1>3, OneMoves
<1>5. \A u \in Threads, p \in Points, k \in 1..Trials :
        Has(u, p, k)' <=> Has(u, p, k) \/ (u = t /\ p = b /\ k = d)
  BY <1>1, <1>3, <1>4 DEF Has
<1>6. \A u \in Threads, p \in Points, k \in 1..Trials : Has(u, p, k) => Slot(p, k) <= flat
  BY DEF SweepInv, HandsInv, Has
<1>7. ASSUME NEW p \in Points, NEW k \in 1..Trials PROVE Counted(p, k)' <=> Counted(p, k)
  <2>1. Slot(p, k) \in Nat /\ flat \in Nat
    BY <1>1, SlotIs, TrialsAre, SMTT(40)
  <2>2. CASE Slot(p, k) <= flat
    <3>1. ~(p = b /\ k = d)
      BY <1>2, <2>1, <2>2
    <3>2. \A u \in Threads : Has(u, p, k)' <=> Has(u, p, k)
      BY <1>5, <3>1
    <3>3. Slot(p, k) <= flat'
      BY <1>1, <2>1, <2>2
    <3> QED BY <2>2, <3>2, <3>3 DEF Counted
  <2>3. CASE Slot(p, k) = flat + 1
    <3>1. p = b /\ k = d
      BY <1>2, <2>3, SlotsDiffer
    <3>2. Has(t, p, k)' /\ ~(Slot(p, k) <= flat)
      BY <1>5, <2>1, <2>3, <3>1
    <3> QED BY <3>2 DEF Counted
  <2>4. CASE Slot(p, k) > flat + 1
    <3>1. ~(Slot(p, k) <= flat) /\ ~(Slot(p, k) <= flat')
      BY <1>1, <2>1, <2>4
    <3> QED BY <3>1 DEF Counted
  <2> QED BY <2>1, <2>2, <2>3, <2>4
<1>8. \A p \in Points : Open(p)' = Open(p)
  BY <1>7, OpenSame
<1>9. SweepType'
  <2>1. flat' \in 0..Total
    BY <1>1, TrialsAre
  <2> QED BY <1>1, <1>4, <2>1 DEF SweepInv, SweepType
<1>10. HandsInv'
  <2>1. \A u \in Threads : at'[u].step # "idle" => at'[u].point \in Points
    BY <1>2, <1>3, <1>4 DEF SweepInv, HandsInv
  <2>2. ASSUME NEW u \in Threads, at'[u].step \in {"running", "ran"}
        PROVE  at'[u].trial \in 1..Trials /\ Slot(at'[u].point, at'[u].trial) <= flat'
    <3>1. CASE u = t
      <4>1. flat + 1 <= flat'
        BY <1>1, TrialsAre
      <4> QED BY <1>2, <1>3, <1>4, <3>1, <4>1
    <3>2. CASE u # t
      <4>1. at'[u] = at[u] /\ at[u].point \in Points /\ at[u].trial \in 1..Trials
            /\ Slot(at[u].point, at[u].trial) <= flat
        BY <1>4, <2>2, <3>2 DEF SweepInv, HandsInv
      <4> DEFINE s == Slot(at[u].point, at[u].trial)
      <4>2. s \in Nat /\ s <= flat
        <5>1. s \in 1..Total /\ Total \in Nat
          BY <4>1, SlotIs, TrialsAre
        <5> QED BY <4>1, <5>1
      <4> HIDE DEF s
      <4>3. s <= flat'
        BY <1>1, <4>2, TrialsAre
      <4> QED BY <4>1, <4>3 DEF s
    <3> QED BY <3>1, <3>2
  <2>3. ASSUME NEW u \in Threads, NEW v \in Threads, NEW p \in Points, NEW k \in 1..Trials,
               Has(u, p, k)', Has(v, p, k)'
        PROVE  u = v
    <3>1. CASE p = b /\ k = d
      <4>1. \A x \in Threads : ~Has(x, p, k)
        <5>1. Slot(p, k) = flat + 1 /\ flat \in Nat
          BY <1>1, <1>2, <3>1, TrialsAre
        <5>2. ~(Slot(p, k) <= flat)
          BY <5>1
        <5> QED BY <1>6, <5>2
      <4> QED BY <1>5, <2>3, <4>1
    <3>2. CASE ~(p = b /\ k = d)
      <4>1. Has(u, p, k) /\ Has(v, p, k)
        BY <1>5, <2>3, <3>2
      <4> QED BY <4>1 DEF SweepInv, HandsInv
    <3> QED BY <3>1, <3>2
  <2> QED BY <2>1, <2>2, <2>3 DEF HandsInv
<1>11. StoresInv'
  <2>1. \A u \in Threads : at'[u].step = "ran" => at'[u] = at[u]
    BY <1>3, <1>4
  <2>2. \A u \in Threads : \A s \in stores[u] : at'[u] = at[u]
    BY <1>1, <1>4 DEF SweepInv, StoresInv
  <2>3. \A u \in Threads : \A s \in stores'[u] :
          at'[u].step = "ran" /\ s = Slot(at'[u].point, at'[u].trial)
    BY <1>1, <2>2 DEF SweepInv, StoresInv
  <2>4. \A u \in Threads : at'[u].step = "ran" =>
          LET s == Slot(at'[u].point, at'[u].trial)
          IN  s \in stores'[u] \/ results'[s] = Outcome(at'[u].point, at'[u].trial)
    BY <1>1, <2>1 DEF SweepInv, StoresInv
  <2>5. \A p \in Points, k \in 1..Trials : Counted(p, k)' => results'[Slot(p, k)] = Outcome(p, k)
    BY <1>1, <1>7 DEF SweepInv, StoresInv
  <2> QED BY <2>3, <2>4, <2>5 DEF StoresInv
<1>12. CountsInv'
  BY <1>1, <1>8 DEF SweepInv, CountsInv
<1>13. ClosesInv'
  <2>1. \A u \in Threads, p \in Points : Closes(u, p)' <=> Closes(u, p)
    BY <1>1, <1>3, <1>4 DEF Closes
  <2> QED BY <1>1, <1>8, <2>1, ClosesSame DEF SweepInv
<1>14. SumsInv'
  BY <1>1, <1>3, <1>4 DEF SweepInv, SumsInv
<1> QED BY <1>9, <1>10, <1>11, <1>12, <1>13, <1>14 DEF SweepInv

LEMMA RunTrialKeeps ==
  ASSUME SweepInv, NEW t \in Threads, RunTrial(t)
  PROVE  SweepInv'
<1> DEFINE w == [at[t] EXCEPT !.step = "ran"]
           z == Slot(at[t].point, at[t].trial)
<1>1. /\ at[t].step = "running" /\ at' = [at EXCEPT ![t] = w]
      /\ stores' = [stores EXCEPT ![t] = stores[t] \cup {z}]
      /\ UNCHANGED <<flat, results, remaining, rows>>
      /\ at \in [Threads -> Working] /\ stores \in [Threads -> SUBSET Slots] /\ at[t] \in Working
  BY DEF RunTrial, SweepInv, SweepType
<1>2. /\ w \in Working /\ w.step = "ran" /\ w.point = at[t].point /\ w.trial = at[t].trial
      /\ w.sum = at[t].sum
  <2> HIDE DEF Outcomes
  <2> QED BY <1>1 DEF Working
<1> HIDE DEF w
<1>3. at' \in [Threads -> Working] /\ at'[t] = w /\ \A u \in Threads : u # t => at'[u] = at[u]
  BY <1>1, <1>2, OneMoves
<1>4. at[t].point \in Points /\ at[t].trial \in 1..Trials /\ z \in Slots
  BY <1>1, SlotIs DEF SweepInv, HandsInv
<1>5. \A u \in Threads, p \in Points, k \in 1..Trials : Has(u, p, k)' <=> Has(u, p, k)
  BY <1>1, <1>2, <1>3 DEF Has
<1>6. /\ \A p \in Points, k \in 1..Trials : Counted(p, k)' <=> Counted(p, k)
      /\ \A p \in Points : Open(p)' = Open(p)
  BY <1>1, <1>5, HandsSame
<1> HIDE DEF z
<1>7. SweepType'
  BY <1>1, <1>3, <1>4 DEF SweepInv, SweepType
<1>8. HandsInv'
  <2>1. \A u \in Threads : at'[u].step # "idle" => at'[u].point \in Points
    BY <1>1, <1>2, <1>3 DEF SweepInv, HandsInv
  <2>2. \A u \in Threads : at'[u].step \in {"running", "ran"} =>
          at'[u].trial \in 1..Trials /\ Slot(at'[u].point, at'[u].trial) <= flat'
    BY <1>1, <1>2, <1>3 DEF SweepInv, HandsInv
  <2>3. \A u, v \in Threads, p \in Points, k \in 1..Trials : Has(u, p, k)' /\ Has(v, p, k)' => u = v
    BY <1>5 DEF SweepInv, HandsInv
  <2> QED BY <2>1, <2>2, <2>3 DEF HandsInv
<1>9. StoresInv'
  <2>1. ASSUME NEW u \in Threads, NEW s \in stores'[u]
        PROVE  at'[u].step = "ran" /\ s = Slot(at'[u].point, at'[u].trial)
    <3>1. CASE u = t
      <4>1. s = z
        BY <1>1, <2>1, <3>1 DEF SweepInv, StoresInv
      <4> QED BY <1>2, <1>3, <3>1, <4>1 DEF z
    <3>2. CASE u # t
      <4>1. s \in stores[u] /\ at'[u] = at[u]
        BY <1>1, <1>3, <2>1, <3>2
      <4> QED BY <4>1 DEF SweepInv, StoresInv
    <3> QED BY <3>1, <3>2
  <2>2. ASSUME NEW u \in Threads, at'[u].step = "ran"
        PROVE  \/ Slot(at'[u].point, at'[u].trial) \in stores'[u]
               \/ results'[Slot(at'[u].point, at'[u].trial)] = Outcome(at'[u].point, at'[u].trial)
    <3>1. CASE u = t
      <4>1. z \in stores'[t]
        BY <1>1
      <4> QED BY <1>2, <1>3, <3>1, <4>1 DEF z
    <3>2. CASE u # t
      <4>1. stores'[u] = stores[u] /\ at'[u] = at[u] /\ results' = results
        BY <1>1, <1>3, <3>2
      <4> QED BY <2>2, <4>1 DEF SweepInv, StoresInv
    <3> QED BY <3>1, <3>2
  <2>3. \A p \in Points, k \in 1..Trials : Counted(p, k)' => results'[Slot(p, k)] = Outcome(p, k)
    BY <1>1, <1>6 DEF SweepInv, StoresInv
  <2> QED BY <2>1, <2>2, <2>3 DEF StoresInv
<1>10. CountsInv'
  BY <1>1, <1>6 DEF SweepInv, CountsInv
<1>11. ClosesInv'
  <2>1. \A u \in Threads, p \in Points : Closes(u, p)' <=> Closes(u, p)
    BY <1>1, <1>2, <1>3 DEF Closes
  <2> QED BY <1>1, <1>6, <2>1, ClosesSame DEF SweepInv
<1>12. SumsInv'
  BY <1>1, <1>2, <1>3 DEF SweepInv, SumsInv
<1> QED BY <1>7, <1>8, <1>9, <1>10, <1>11, <1>12 DEF SweepInv

LEMMA ReachKeeps ==
  ASSUME SweepInv, NEW t \in Threads, NEW s \in Slots, Reach(t, s)
  PROVE  SweepInv'
<1>1. /\ s \in stores[t] /\ results' = [results EXCEPT ![s] = OutcomeOf(s)]
      /\ stores' = [stores EXCEPT ![t] = stores[t] \ {s}]
      /\ UNCHANGED <<flat, at, remaining, rows>>
      /\ stores \in [Threads -> SUBSET Slots] /\ results \in [Slots -> Outcomes \cup {Garbage}]
  BY DEF Reach, SweepInv, SweepType
<1>2. /\ at[t].step = "ran" /\ s = Slot(at[t].point, at[t].trial)
      /\ at[t].point \in Points /\ at[t].trial \in 1..Trials
  BY <1>1 DEF SweepInv, StoresInv, HandsInv
<1>3. \A p \in Points, k \in 1..Trials : Slot(p, k) = s => OutcomeOf(s) = Outcome(p, k)
  BY StoredIs
<1>4. \A p \in Points, k \in 1..Trials :
        results[Slot(p, k)] = Outcome(p, k) => results'[Slot(p, k)] = Outcome(p, k)
  <2> SUFFICES ASSUME NEW p \in Points, NEW k \in 1..Trials, results[Slot(p, k)] = Outcome(p, k)
               PROVE  results'[Slot(p, k)] = Outcome(p, k)
    OBVIOUS
  <2>1. Slot(p, k) \in Slots
    BY SlotIs
  <2>2. CASE Slot(p, k) = s
    BY <1>1, <1>3, <2>2
  <2>3. CASE Slot(p, k) # s
    BY <1>1, <2>1, <2>3
  <2> QED BY <2>2, <2>3
<1>5. OutcomeOf(s) \in Outcomes
  BY <1>2, <1>3, OutcomeIn
<1>6. SweepType'
  BY <1>1, <1>5 DEF SweepInv, SweepType
<1>7. \A u \in Threads, p \in Points, k \in 1..Trials : Has(u, p, k)' <=> Has(u, p, k)
  BY <1>1 DEF Has
<1>8. /\ \A p \in Points, k \in 1..Trials : Counted(p, k)' <=> Counted(p, k)
      /\ \A p \in Points : Open(p)' = Open(p)
  BY <1>1, <1>7, HandsSame
<1>9. HandsInv'
  BY <1>1, <1>7 DEF SweepInv, HandsInv
<1>10. StoresInv'
  <2>1. \A u \in Threads : \A x \in stores'[u] :
          at'[u].step = "ran" /\ x = Slot(at'[u].point, at'[u].trial)
    <3>1. \A u \in Threads : stores'[u] \subseteq stores[u]
      BY <1>1
    <3> QED BY <1>1, <3>1 DEF SweepInv, StoresInv
  <2>2. ASSUME NEW u \in Threads, at'[u].step = "ran"
        PROVE  \/ Slot(at'[u].point, at'[u].trial) \in stores'[u]
               \/ results'[Slot(at'[u].point, at'[u].trial)] = Outcome(at'[u].point, at'[u].trial)
    <3> DEFINE p == at[u].point
               k == at[u].trial
    <3>1. at' = at /\ p \in Points /\ k \in 1..Trials
      BY <1>1, <2>2 DEF SweepInv, HandsInv
    <3>2. Slot(p, k) \in stores[u] \/ results[Slot(p, k)] = Outcome(p, k)
      BY <2>2, <3>1 DEF SweepInv, StoresInv
    <3> HIDE DEF p, k
    <3>3. CASE results[Slot(p, k)] = Outcome(p, k)
      BY <1>4, <3>1, <3>3 DEF p, k
    <3>4. CASE Slot(p, k) \in stores[u] /\ Slot(p, k) # s
      <4>1. Slot(p, k) \in stores'[u]
        BY <1>1, <3>4
      <4> QED BY <3>1, <4>1 DEF p, k
    <3>5. CASE Slot(p, k) = s
      <4>1. results'[Slot(p, k)] = Outcome(p, k)
        BY <1>1, <1>3, <3>1, <3>5
      <4> QED BY <3>1, <4>1 DEF p, k
    <3> QED BY <3>2, <3>3, <3>4, <3>5
  <2>3. \A p \in Points, k \in 1..Trials : Counted(p, k)' => results'[Slot(p, k)] = Outcome(p, k)
    BY <1>4, <1>8 DEF SweepInv, StoresInv
  <2> QED BY <2>1, <2>2, <2>3 DEF StoresInv
<1>11. CountsInv'
  BY <1>1, <1>8 DEF SweepInv, CountsInv
<1>12. ClosesInv'
  <2>1. \A u \in Threads, p \in Points : Closes(u, p)' <=> Closes(u, p)
    BY <1>1 DEF Closes
  <2> QED BY <1>1, <1>8, <2>1, ClosesSame DEF SweepInv
<1>13. SumsInv'
  BY <1>1 DEF SweepInv, SumsInv
<1> QED BY <1>6, <1>9, <1>10, <1>11, <1>12, <1>13 DEF SweepInv

\* The last trial of a point that is counted closes it.
LEMMA CountDownKeeps ==
  ASSUME SweepInv, ~Relaxed, NEW t \in Threads, CountDown(t)
  PROVE  SweepInv'
<1>1. /\ at[t].step = "ran" /\ stores[t] = {}
      /\ remaining' = [remaining EXCEPT ![at[t].point] = remaining[at[t].point] - 1]
      /\ at' = [at EXCEPT ![t] = [at[t] EXCEPT !.step = "counted", !.left = remaining[at[t].point] - 1]]
      /\ UNCHANGED <<flat, results, stores, rows>>
      /\ at \in [Threads -> Working] /\ remaining \in [Points -> Nat] /\ at[t] \in Working
  BY DEF CountDown, SweepInv, SweepType
<1>2. PICK b \in Points, d \in 1..Trials :
        at[t].point = b /\ at[t].trial = d /\ Slot(b, d) <= flat
  BY <1>1 DEF SweepInv, HandsInv
<1>3. results[Slot(b, d)] = Outcome(b, d)
  <2>1. Slot(b, d) \in stores[t] \/ results[Slot(b, d)] = Outcome(b, d)
    BY <1>1, <1>2 DEF SweepInv, StoresInv
  <2> QED BY <1>1, <2>1
<1>4. Has(t, b, d) /\ ~Counted(b, d) /\ d \in Open(b)
  BY <1>1, <1>2 DEF Has, Counted, Open
<1>5. PICK r \in Nat :
        /\ r = remaining[b] - 1 /\ Cardinality(Open(b) \ {d}) = r
        /\ (r = 0 <=> Open(b) \ {d} = {})
  <2>1. remaining[b] = Cardinality(Open(b)) /\ IsFiniteSet(Open(b))
    BY <1>2, OpenIs DEF SweepInv, CountsInv
  <2>2. IsFiniteSet(Open(b) \ {d}) /\ Cardinality(Open(b) \ {d}) = Cardinality(Open(b)) - 1
    BY <1>4, <2>1, FS_RemoveElement
  <2>3. Cardinality(Open(b) \ {d}) \in Nat
    BY <2>2, FS_CardinalityType
  <2>4. Cardinality(Open(b) \ {d}) = 0 <=> Open(b) \ {d} = {}
    BY <2>2, FS_EmptySet
  <2> QED BY <2>1, <2>2, <2>3, <2>4
<1>6. PICK w \in Working :
        /\ w = [at[t] EXCEPT !.step = "counted", !.left = r]
        /\ w.step = "counted" /\ w.point = b /\ w.left = r /\ w.sum = at[t].sum
  <2> DEFINE w == [at[t] EXCEPT !.step = "counted", !.left = r]
  <2> HIDE DEF Outcomes
  <2>1. w \in Working
    BY <1>1, <1>5 DEF Working
  <2>2. w.step = "counted" /\ w.point = b /\ w.left = r /\ w.sum = at[t].sum
    BY <1>1, <1>2 DEF Working
  <2> HIDE DEF w
  <2>3. w = w
    OBVIOUS
  <2> QED BY <2>1, <2>2 DEF w
<1>7. /\ at' \in [Threads -> Working] /\ at'[t] = w /\ \A u \in Threads : u # t => at'[u] = at[u]
      /\ remaining' = [remaining EXCEPT ![b] = r]
  <2>1. at' = [at EXCEPT ![t] = w] /\ remaining' = [remaining EXCEPT ![b] = r]
    BY <1>1, <1>2, <1>5, <1>6
  <2> QED BY <1>1, <2>1, OneMoves
<1>8. \A u \in Threads, p \in Points, k \in 1..Trials : Has(u, p, k)' <=> Has(u, p, k) /\ u # t
  BY <1>6, <1>7 DEF Has
<1>9. \A p \in Points, k \in 1..Trials : Has(t, p, k) => p = b /\ k = d
  BY <1>2 DEF Has
<1>10. ASSUME NEW p \in Points, NEW k \in 1..Trials
       PROVE  Counted(p, k)' <=> Counted(p, k) \/ (p = b /\ k = d)
  <2>1. CASE p = b /\ k = d
    <3>1. \A u \in Threads : Has(u, b, d) => u = t
      BY <1>2, <1>4 DEF SweepInv, HandsInv
    <3>2. \A u \in Threads : ~Has(u, p, k)'
      BY <1>8, <2>1, <3>1
    <3>3. (Slot(p, k) <= flat)'
      BY <1>1, <1>2, <2>1
    <3> QED BY <2>1, <3>2, <3>3 DEF Counted
  <2>2. CASE ~(p = b /\ k = d)
    <3>1. \A u \in Threads : Has(u, p, k)' <=> Has(u, p, k)
      BY <1>8, <1>9, <2>2
    <3>2. (Slot(p, k) <= flat)' <=> Slot(p, k) <= flat
      BY <1>1
    <3>3. (\A u \in Threads : ~Has(u, p, k))' <=> \A u \in Threads : ~Has(u, p, k)
      BY <3>1
    <3> QED BY <2>2, <3>2, <3>3 DEF Counted
  <2> QED BY <2>1, <2>2
<1>11. /\ Open(b)' = Open(b) \ {d}
       /\ \A p \in Points : p # b => Open(p)' = Open(p)
  <2>1. \A k \in 1..Trials : Counted(b, k)' <=> Counted(b, k) \/ k = d
    BY <1>10
  <2>2. \A p \in Points : p # b => Open(p)' = Open(p)
    BY <1>10 DEF Open
  <2> QED BY <2>1, <2>2 DEF Open
<1>12. SweepType'
  BY <1>1, <1>5, <1>7 DEF SweepInv, SweepType
<1>13. HandsInv'
  <2>1. \A u \in Threads : at'[u].step # "idle" => at'[u].point \in Points
    BY <1>2, <1>6, <1>7 DEF SweepInv, HandsInv
  <2>2. \A u \in Threads : at'[u].step \in {"running", "ran"} =>
          at'[u].trial \in 1..Trials /\ Slot(at'[u].point, at'[u].trial) <= flat'
    BY <1>1, <1>6, <1>7 DEF SweepInv, HandsInv
  <2>3. \A u, v \in Threads, p \in Points, k \in 1..Trials : Has(u, p, k)' /\ Has(v, p, k)' => u = v
    BY <1>8 DEF SweepInv, HandsInv
  <2> QED BY <2>1, <2>2, <2>3 DEF HandsInv
<1>14. StoresInv'
  <2>1. \A u \in Threads : \A s \in stores'[u] :
          at'[u].step = "ran" /\ s = Slot(at'[u].point, at'[u].trial)
    BY <1>1, <1>7 DEF SweepInv, StoresInv
  <2>2. ASSUME NEW u \in Threads, at'[u].step = "ran"
        PROVE  \/ Slot(at'[u].point, at'[u].trial) \in stores'[u]
               \/ results'[Slot(at'[u].point, at'[u].trial)] = Outcome(at'[u].point, at'[u].trial)
    <3>1. at'[u] = at[u] /\ stores' = stores /\ results' = results
      BY <1>1, <1>6, <1>7, <2>2
    <3> QED BY <2>2, <3>1 DEF SweepInv, StoresInv
  <2>3. \A p \in Points, k \in 1..Trials : Counted(p, k)' => results'[Slot(p, k)] = Outcome(p, k)
    BY <1>1, <1>3, <1>10 DEF SweepInv, StoresInv
  <2> QED BY <2>1, <2>2, <2>3 DEF StoresInv
<1>15. CountsInv'
  <2>1. ASSUME NEW p \in Points PROVE remaining'[p] = Cardinality(Open(p)')
    <3>1. CASE p = b
      BY <1>1, <1>2, <1>5, <1>7, <1>11, <3>1
    <3>2. CASE p # b
      <4>1. remaining'[p] = remaining[p] /\ Open(p)' = Open(p)
        BY <1>1, <1>7, <1>11, <3>2
      <4> QED BY <4>1 DEF SweepInv, CountsInv
    <3> QED BY <3>1, <3>2
  <2> QED BY <2>1 DEF CountsInv
<1>16. ASSUME NEW u \in Threads, NEW p \in Points
       PROVE  Closes(u, p)' <=> Closes(u, p) \/ (u = t /\ p = b /\ r = 0)
  <2>1. ~Closes(t, p)
    BY <1>1 DEF Closes
  <2>2. Closes(u, p)' <=> /\ at'[u].point = p
                          /\ at'[u].step = "summing" \/ (at'[u].step = "counted" /\ at'[u].left = 0)
    BY DEF Closes
  <2>3. CASE u = t
    BY <1>6, <1>7, <2>1, <2>2, <2>3
  <2>4. CASE u # t
    <3>1. at'[u] = at[u]
      BY <1>7, <2>4
    <3> QED BY <2>2, <2>4, <3>1 DEF Closes
  <2> QED BY <2>3, <2>4
<1>17. ClosesInv'
  <2>1. (\A u \in Threads : ~Closes(u, b)) /\ ~HasRow(b)
    BY <1>2, <1>4 DEF SweepInv, ClosesInv
  <2>2. \A p \in Points : HasRow(p)' <=> HasRow(p)
    BY <1>1 DEF HasRow
  <2>3. Open(b)' = {} <=> r = 0
    BY <1>5, <1>11
  <2>4. ASSUME NEW u \in Threads, NEW p \in Points, Closes(u, p)'
        PROVE  Open(p)' = {} /\ ~HasRow(p)'
    <3>1. CASE p = b
      BY <1>2, <1>16, <2>1, <2>2, <2>3, <2>4, <3>1
    <3>2. CASE p # b
      <4>1. Closes(u, p) /\ Open(p)' = Open(p) /\ (HasRow(p)' <=> HasRow(p))
        BY <1>11, <1>16, <2>2, <2>4, <3>2
      <4> QED BY <4>1 DEF SweepInv, ClosesInv
    <3> QED BY <3>1, <3>2
  <2>5. ASSUME NEW u \in Threads, NEW v \in Threads, NEW p \in Points, Closes(u, p)', Closes(v, p)'
        PROVE  u = v
    <3>1. CASE p = b
      BY <1>2, <1>16, <2>1, <2>5, <3>1
    <3>2. CASE p # b
      <4>1. Closes(u, p) /\ Closes(v, p)
        BY <1>16, <2>5, <3>2
      <4> QED BY <4>1 DEF SweepInv, ClosesInv
    <3> QED BY <3>1, <3>2
  <2>6. \A p \in Points : HasRow(p)' => Open(p)' = {}
    <3> SUFFICES ASSUME NEW p \in Points, HasRow(p)' PROVE Open(p)' = {}
      OBVIOUS
    <3>1. HasRow(p) /\ p # b
      BY <2>1, <2>2
    <3> QED BY <1>11, <3>1 DEF SweepInv, ClosesInv
  <2>7. ASSUME NEW p \in Points, Open(p)' = {}
        PROVE  HasRow(p)' \/ \E u \in Threads : Closes(u, p)'
    <3>1. CASE p = b
      <4>1. Closes(t, p)'
        BY <1>16, <2>3, <2>7, <3>1
      <4> QED BY <4>1
    <3>2. CASE p # b
      <4>1. Open(p) = {}
        BY <1>11, <2>7, <3>2
      <4>2. HasRow(p) \/ \E u \in Threads : Closes(u, p)
        BY <4>1 DEF SweepInv, ClosesInv
      <4> QED BY <1>16, <2>2, <4>2
    <3> QED BY <3>1, <3>2
  <2> QED BY <2>4, <2>5, <2>6, <2>7 DEF ClosesInv
<1>18. SumsInv'
  <2>1. \A u \in Threads : at'[u].sum = at[u].sum
    BY <1>6, <1>7
  <2>2. at[t].sum = <<>>
    BY <1>1 DEF SweepInv, SumsInv
  <2> QED BY <1>1, <1>6, <1>7, <2>1, <2>2 DEF SweepInv, SumsInv
<1> QED BY <1>12, <1>13, <1>14, <1>15, <1>17, <1>18 DEF SweepInv

LEMMA GoOnKeeps ==
  ASSUME SweepInv, NEW t \in Threads, GoOn(t)
  PROVE  SweepInv'
<1>1. /\ at[t].step = "counted" /\ UNCHANGED <<flat, results, stores, remaining, rows>>
      /\ at' = [at EXCEPT ![t] = IF LastOne(t) THEN [at[t] EXCEPT !.step = "summing"] ELSE Idle]
      /\ at \in [Threads -> Working] /\ at[t] \in Working /\ at[t].point \in Points
      /\ at[t].sum = <<>>
  BY DEF GoOn, SweepInv, SweepType, HandsInv, SumsInv
<1>2. PICK w \in Working :
        /\ at' = [at EXCEPT ![t] = w] /\ w.sum = <<>>
        /\ \/ at[t].left = 0 /\ w.step = "summing" /\ w.point = at[t].point
           \/ at[t].left # 0 /\ w.step = "idle"
  <2>1. CASE at[t].left = 0
    <3> DEFINE w == [at[t] EXCEPT !.step = "summing"]
    <3>1. w \in Working /\ w.step = "summing" /\ w.point = at[t].point /\ w.sum = <<>>
      <4> HIDE DEF Outcomes
      <4> QED BY <1>1 DEF Working
    <3>2. at' = [at EXCEPT ![t] = w]
      BY <1>1, <2>1 DEF LastOne
    <3> HIDE DEF w
    <3> QED BY <2>1, <3>1, <3>2
  <2>2. CASE at[t].left # 0
    <3>1. Idle \in Working /\ Idle.step = "idle" /\ Idle.sum = <<>>
      <4>1. <<>> \in Seq(Outcomes)
        OBVIOUS
      <4> HIDE DEF Outcomes
      <4> QED BY <4>1 DEF Idle, Working
    <3>2. at' = [at EXCEPT ![t] = Idle]
      BY <1>1, <2>2 DEF LastOne
    <3> QED BY <2>2, <3>1, <3>2
  <2> QED BY <2>1, <2>2
<1>3. at' \in [Threads -> Working] /\ at'[t] = w /\ \A u \in Threads : u # t => at'[u] = at[u]
  BY <1>1, <1>2, OneMoves
<1>4. \A u \in Threads, p \in Points, k \in 1..Trials : Has(u, p, k)' <=> Has(u, p, k)
  BY <1>1, <1>2, <1>3 DEF Has
<1>5. /\ \A p \in Points, k \in 1..Trials : Counted(p, k)' <=> Counted(p, k)
      /\ \A p \in Points : Open(p)' = Open(p)
  BY <1>1, <1>4, HandsSame
<1>6. SweepType'
  BY <1>1, <1>3 DEF SweepInv, SweepType
<1>7. HandsInv'
  <2>1. \A u \in Threads : at'[u].step # "idle" => at'[u].point \in Points
    BY <1>1, <1>2, <1>3 DEF SweepInv, HandsInv
  <2>2. \A u \in Threads : at'[u].step \in {"running", "ran"} =>
          at'[u].trial \in 1..Trials /\ Slot(at'[u].point, at'[u].trial) <= flat'
    BY <1>1, <1>2, <1>3 DEF SweepInv, HandsInv
  <2>3. \A u, v \in Threads, p \in Points, k \in 1..Trials : Has(u, p, k)' /\ Has(v, p, k)' => u = v
    BY <1>4 DEF SweepInv, HandsInv
  <2> QED BY <2>1, <2>2, <2>3 DEF HandsInv
<1>8. StoresInv'
  <2>1. \A u \in Threads : \A s \in stores'[u] :
          at'[u].step = "ran" /\ s = Slot(at'[u].point, at'[u].trial)
    BY <1>1, <1>3 DEF SweepInv, StoresInv
  <2>2. ASSUME NEW u \in Threads, at'[u].step = "ran"
        PROVE  \/ Slot(at'[u].point, at'[u].trial) \in stores'[u]
               \/ results'[Slot(at'[u].point, at'[u].trial)] = Outcome(at'[u].point, at'[u].trial)
    <3>1. at'[u] = at[u] /\ stores' = stores /\ results' = results
      BY <1>1, <1>2, <1>3, <2>2
    <3> QED BY <2>2, <3>1 DEF SweepInv, StoresInv
  <2>3. \A p \in Points, k \in 1..Trials : Counted(p, k)' => results'[Slot(p, k)] = Outcome(p, k)
    BY <1>1, <1>5 DEF SweepInv, StoresInv
  <2> QED BY <2>1, <2>2, <2>3 DEF StoresInv
<1>9. CountsInv'
  BY <1>1, <1>5 DEF SweepInv, CountsInv
<1>10. ClosesInv'
  <2>1. \A u \in Threads, p \in Points : Closes(u, p)' <=> Closes(u, p)
    BY <1>1, <1>2, <1>3 DEF Closes
  <2> QED BY <1>1, <1>5, <2>1, ClosesSame DEF SweepInv
<1>11. SumsInv'
  <2>1. \A u \in Threads : at'[u].step = "summing" =>
          /\ Len(at'[u].sum) <= Trials
          /\ \A k \in 1..Len(at'[u].sum) : at'[u].sum[k] = Outcome(at'[u].point, k)
    <3>1. Len(<<>>) = 0 /\ 0 <= Trials /\ 1..0 = {}
      BY TrialsAre
    <3> QED BY <1>2, <1>3, <3>1 DEF SweepInv, SumsInv
  <2>2. \A u \in Threads : at'[u].step # "summing" => at'[u].sum = <<>>
    BY <1>2, <1>3 DEF SweepInv, SumsInv
  <2> QED BY <1>1, <2>1, <2>2 DEF SweepInv, SumsInv
<1> QED BY <1>6, <1>7, <1>8, <1>9, <1>10, <1>11 DEF SweepInv

\* Who sums up a point reads the outcome of every trial of it.
LEMMA SumKeeps ==
  ASSUME SweepInv, NEW t \in Threads, Sum(t)
  PROVE  SweepInv'
<1>1. /\ at[t].step = "summing" /\ Len(at[t].sum) < Trials
      /\ UNCHANGED <<flat, results, stores, remaining, rows>>
      /\ at' = [at EXCEPT ![t] = [at[t] EXCEPT !.sum =
                   Append(at[t].sum, Seen(t, Slot(at[t].point, Len(at[t].sum) + 1)))]]
      /\ at \in [Threads -> Working] /\ at[t] \in Working
  BY DEF Sum, SweepInv, SweepType
<1>2. PICK b \in Points, n \in Nat :
        at[t].point = b /\ n = Len(at[t].sum) /\ n + 1 \in 1..Trials
  <2>1. at[t].sum \in Seq(Outcomes)
    <3> HIDE DEF Outcomes
    <3> QED BY <1>1 DEF Working
  <2>2. Len(at[t].sum) \in Nat /\ Len(at[t].sum) + 1 \in 1..Trials
    <3> HIDE DEF Outcomes
    <3> QED BY <1>1, <2>1, TrialsAre
  <2> QED BY <1>1, <2>2 DEF SweepInv, HandsInv
<1>3. Seen(t, Slot(b, n + 1)) = Outcome(b, n + 1)
  <2>1. stores[t] = {}
    BY <1>1 DEF SweepInv, StoresInv
  <2>2. Counted(b, n + 1)
    <3>1. Closes(t, b)
      BY <1>1, <1>2 DEF Closes
    <3>2. Open(b) = {}
      BY <3>1 DEF SweepInv, ClosesInv
    <3> QED BY <1>2, <3>2 DEF Open
  <2> QED BY <1>2, <2>1, <2>2 DEF Seen, SweepInv, StoresInv
<1>4. PICK w \in Working :
        /\ at' = [at EXCEPT ![t] = w] /\ w.sum = Append(at[t].sum, Outcome(b, n + 1))
        /\ w.step = "summing" /\ w.point = b
  <2> DEFINE o == Outcome(b, n + 1)
             z == Append(at[t].sum, o)
             w == [at[t] EXCEPT !.sum = z]
  <2>1. o \in Outcomes
    BY <1>2, OutcomeIn
  <2>2. at' = [at EXCEPT ![t] = w]
    BY <1>1, <1>2, <1>3
  <2> HIDE DEF o, Outcomes
  <2>3. z \in Seq(Outcomes)
    <3>1. at[t].sum \in Seq(Outcomes)
      BY <1>1 DEF Working
    <3> QED BY <2>1, <3>1
  <2> HIDE DEF z
  <2>4. w \in Working /\ w.step = "summing" /\ w.point = b /\ w.sum = z
    BY <1>1, <1>2, <2>3 DEF Working
  <2> HIDE DEF w
  <2> QED BY <2>2, <2>4 DEF o, z
<1>5. at' \in [Threads -> Working] /\ at'[t] = w /\ \A u \in Threads : u # t => at'[u] = at[u]
  BY <1>1, <1>4, OneMoves
<1>6. \A u \in Threads, p \in Points, k \in 1..Trials : Has(u, p, k)' <=> Has(u, p, k)
  BY <1>1, <1>4, <1>5 DEF Has
<1>7. /\ \A p \in Points, k \in 1..Trials : Counted(p, k)' <=> Counted(p, k)
      /\ \A p \in Points : Open(p)' = Open(p)
  BY <1>1, <1>6, HandsSame
<1>8. SweepType'
  BY <1>1, <1>5 DEF SweepInv, SweepType
<1>9. HandsInv'
  <2>1. \A u \in Threads : at'[u].step # "idle" => at'[u].point \in Points
    BY <1>1, <1>4, <1>5 DEF SweepInv, HandsInv
  <2>2. \A u \in Threads : at'[u].step \in {"running", "ran"} =>
          at'[u].trial \in 1..Trials /\ Slot(at'[u].point, at'[u].trial) <= flat'
    BY <1>1, <1>4, <1>5 DEF SweepInv, HandsInv
  <2>3. \A u, v \in Threads, p \in Points, k \in 1..Trials : Has(u, p, k)' /\ Has(v, p, k)' => u = v
    BY <1>6 DEF SweepInv, HandsInv
  <2> QED BY <2>1, <2>2, <2>3 DEF HandsInv
<1>10. StoresInv'
  <2>1. \A u \in Threads : \A s \in stores'[u] :
          at'[u].step = "ran" /\ s = Slot(at'[u].point, at'[u].trial)
    BY <1>1, <1>5 DEF SweepInv, StoresInv
  <2>2. ASSUME NEW u \in Threads, at'[u].step = "ran"
        PROVE  \/ Slot(at'[u].point, at'[u].trial) \in stores'[u]
               \/ results'[Slot(at'[u].point, at'[u].trial)] = Outcome(at'[u].point, at'[u].trial)
    <3>1. at'[u] = at[u] /\ stores' = stores /\ results' = results
      BY <1>1, <1>4, <1>5, <2>2
    <3> QED BY <2>2, <3>1 DEF SweepInv, StoresInv
  <2>3. \A p \in Points, k \in 1..Trials : Counted(p, k)' => results'[Slot(p, k)] = Outcome(p, k)
    BY <1>1, <1>7 DEF SweepInv, StoresInv
  <2> QED BY <2>1, <2>2, <2>3 DEF StoresInv
<1>11. CountsInv'
  BY <1>1, <1>7 DEF SweepInv, CountsInv
<1>12. ClosesInv'
  <2>1. \A u \in Threads, p \in Points : Closes(u, p)' <=> Closes(u, p)
    BY <1>1, <1>2, <1>4, <1>5 DEF Closes
  <2> QED BY <1>1, <1>7, <2>1, ClosesSame DEF SweepInv
<1>13. SumsInv'
  <2>1. /\ Len(w.sum) <= Trials
        /\ \A k \in 1..Len(w.sum) : w.sum[k] = Outcome(b, k)
    <3> DEFINE q == at[t].sum
               o == Outcome(b, n + 1)
    <3>1. q \in Seq(Outcomes) /\ Len(q) = n /\ w.sum = Append(q, o)
      <4> HIDE DEF Outcomes, o
      <4> QED BY <1>1, <1>2, <1>4 DEF Working, o
    <3>2. \A k \in 1..n : q[k] = Outcome(b, k)
      BY <1>1, <1>2 DEF SweepInv, SumsInv
    <3> HIDE DEF q, Outcomes
    <3>3. Len(w.sum) = n + 1 /\ \A k \in 1..(n + 1) : w.sum[k] = IF k = n + 1 THEN o ELSE q[k]
      <4> HIDE DEF o
      <4> QED BY <3>1
    <3>4. \A k \in 1..(n + 1) : k # n + 1 => k \in 1..n
      OBVIOUS
    <3>5. n + 1 <= Trials
      BY <1>2
    <3> HIDE DEF o
    <3>6. \A k \in 1..(n + 1) : w.sum[k] = Outcome(b, k)
      BY <3>2, <3>3, <3>4 DEF o
    <3> QED BY <3>3, <3>5, <3>6
  <2>2. \A u \in Threads : at'[u].step = "summing" =>
          /\ Len(at'[u].sum) <= Trials
          /\ \A k \in 1..Len(at'[u].sum) : at'[u].sum[k] = Outcome(at'[u].point, k)
    BY <1>4, <1>5, <2>1 DEF SweepInv, SumsInv
  <2>3. \A u \in Threads : at'[u].step # "summing" => at'[u].sum = <<>>
    BY <1>4, <1>5 DEF SweepInv, SumsInv
  <2> QED BY <1>1, <2>2, <2>3 DEF SweepInv, SumsInv
<1> QED BY <1>8, <1>9, <1>10, <1>11, <1>12, <1>13 DEF SweepInv

\* The row is the one a single thread prints, and its point had none.
LEMMA PrintRowKeeps ==
  ASSUME SweepInv, NEW t \in Threads, PrintRow(t)
  PROVE  SweepInv'
<1>1. /\ at[t].step = "summing" /\ Len(at[t].sum) = Trials
      /\ UNCHANGED <<flat, results, stores, remaining>>
      /\ rows' = Append(rows, [point |-> Items[at[t].point], sum |-> at[t].sum])
      /\ at' = [at EXCEPT ![t] = Idle]
      /\ at \in [Threads -> Working] /\ at[t] \in Working
  BY DEF PrintRow, SweepInv, SweepType
<1>2. PICK b \in Points : at[t].point = b
  BY <1>1 DEF SweepInv, HandsInv
<1>3. PICK q \in Seq(Outcomes) : at[t].sum = q /\ Len(q) = Trials /\ q = [k \in 1..Trials |-> Outcome(b, k)]
  <2> DEFINE q == at[t].sum
  <2>1. q \in Seq(Outcomes)
    <3> HIDE DEF Outcomes
    <3> QED BY <1>1 DEF Working
  <2>2. Len(q) = Trials /\ \A k \in 1..Trials : q[k] = Outcome(b, k)
    BY <1>1, <1>2 DEF SweepInv, SumsInv
  <2> HIDE DEF q, Outcomes
  <2>3. DOMAIN q = 1..Trials
    BY <2>1, <2>2
  <2>4. q = [k \in 1..Trials |-> q[k]]
    BY <2>1, <2>3
  <2>5. q = [k \in 1..Trials |-> Outcome(b, k)]
    BY <2>2, <2>4
  <2> QED BY <2>1, <2>2, <2>5 DEF q
<1>4. PICK z \in [point : {Items[p] : p \in Points}, sum : Seq(Outcomes)] :
        z = SerialRow(b) /\ z.point = Items[b] /\ rows' = Append(rows, z)
  <2> DEFINE z == [point |-> Items[b], sum |-> q]
  <2>1. z = SerialRow(b)
    BY <1>3 DEF SerialRow
  <2>2. rows' = Append(rows, z)
    BY <1>1, <1>2, <1>3
  <2> HIDE DEF Outcomes
  <2>3. z \in [point : {Items[p] : p \in Points}, sum : Seq(Outcomes)] /\ z.point = Items[b]
    BY <1>2, <1>3
  <2> HIDE DEF z
  <2> QED BY <2>1, <2>2, <2>3
<1>5. /\ rows \in Seq([point : {Items[p] : p \in Points}, sum : Seq(Outcomes)])
      /\ rows' \in Seq([point : {Items[p] : p \in Points}, sum : Seq(Outcomes)])
      /\ DOMAIN rows' = DOMAIN rows \cup {Len(rows) + 1} /\ Len(rows) + 1 \notin DOMAIN rows
      /\ rows'[Len(rows) + 1] = z
      /\ \A i \in DOMAIN rows : rows'[i] = rows[i]
  <2> DEFINE S == [point : {Items[p] : p \in Points}, sum : Seq(Outcomes)]
  <2>1. rows \in Seq(S) /\ z \in S /\ rows' = Append(rows, z)
    BY <1>4 DEF SweepInv, SweepType
  <2> HIDE DEF S
  <2>2. rows' \in Seq(S) /\ Len(rows') = Len(rows) + 1 /\ Len(rows) \in Nat
    BY <2>1
  <2>3. DOMAIN rows = 1..Len(rows) /\ DOMAIN rows' = 1..(Len(rows) + 1)
    BY <2>1, <2>2
  <2>4. rows'[Len(rows) + 1] = z /\ \A i \in DOMAIN rows : rows'[i] = rows[i]
    BY <2>1
  <2> QED BY <2>1, <2>2, <2>3, <2>4 DEF S
<1>6. Idle \in Working /\ Idle.step = "idle" /\ Idle.sum = <<>>
  <2>1. <<>> \in Seq(Outcomes)
    OBVIOUS
  <2> HIDE DEF Outcomes
  <2> QED BY <2>1 DEF Idle, Working
<1>7. at' \in [Threads -> Working] /\ at'[t] = Idle /\ \A u \in Threads : u # t => at'[u] = at[u]
  BY <1>1, <1>6, OneMoves
<1>8. \A u \in Threads, p \in Points, k \in 1..Trials : Has(u, p, k)' <=> Has(u, p, k)
  BY <1>1, <1>6, <1>7 DEF Has
<1>9. /\ \A p \in Points, k \in 1..Trials : Counted(p, k)' <=> Counted(p, k)
      /\ \A p \in Points : Open(p)' = Open(p)
  BY <1>1, <1>8, HandsSame
<1>10. SweepType'
  BY <1>1, <1>5, <1>7 DEF SweepInv, SweepType
<1>11. HandsInv'
  <2>1. \A u \in Threads : at'[u].step # "idle" => at'[u].point \in Points
    BY <1>6, <1>7 DEF SweepInv, HandsInv
  <2>2. \A u \in Threads : at'[u].step \in {"running", "ran"} =>
          at'[u].trial \in 1..Trials /\ Slot(at'[u].point, at'[u].trial) <= flat'
    BY <1>1, <1>6, <1>7 DEF SweepInv, HandsInv
  <2>3. \A u, v \in Threads, p \in Points, k \in 1..Trials : Has(u, p, k)' /\ Has(v, p, k)' => u = v
    BY <1>8 DEF SweepInv, HandsInv
  <2> QED BY <2>1, <2>2, <2>3 DEF HandsInv
<1>12. StoresInv'
  <2>1. \A u \in Threads : \A s \in stores'[u] :
          at'[u].step = "ran" /\ s = Slot(at'[u].point, at'[u].trial)
    BY <1>1, <1>7 DEF SweepInv, StoresInv
  <2>2. ASSUME NEW u \in Threads, at'[u].step = "ran"
        PROVE  \/ Slot(at'[u].point, at'[u].trial) \in stores'[u]
               \/ results'[Slot(at'[u].point, at'[u].trial)] = Outcome(at'[u].point, at'[u].trial)
    <3>1. at'[u] = at[u] /\ stores' = stores /\ results' = results
      BY <1>1, <1>6, <1>7, <2>2
    <3> QED BY <2>2, <3>1 DEF SweepInv, StoresInv
  <2>3. \A p \in Points, k \in 1..Trials : Counted(p, k)' => results'[Slot(p, k)] = Outcome(p, k)
    BY <1>1, <1>9 DEF SweepInv, StoresInv
  <2> QED BY <2>1, <2>2, <2>3 DEF StoresInv
<1>13. CountsInv'
  BY <1>1, <1>9 DEF SweepInv, CountsInv
<1>14. Closes(t, b) /\ Open(b) = {} /\ ~HasRow(b)
  BY <1>1, <1>2 DEF Closes, SweepInv, ClosesInv
<1>15. \A p \in Points : HasRow(p)' <=> HasRow(p) \/ p = b
  <2> SUFFICES ASSUME NEW p \in Points PROVE HasRow(p)' <=> HasRow(p) \/ p = b
    OBVIOUS
  <2>1. HasRow(p)' <=> \E i \in DOMAIN rows' : rows'[i].point = Items[p]
    BY DEF HasRow
  <2>2. HasRow(p) <=> \E i \in DOMAIN rows : rows[i].point = Items[p]
    BY DEF HasRow
  <2>3. rows'[Len(rows) + 1].point = Items[p] <=> p = b
    BY <1>4, <1>5, PointsAre
  <2> QED BY <1>5, <2>1, <2>2, <2>3
<1>16. \A u \in Threads, p \in Points : Closes(u, p)' <=> Closes(u, p) /\ u # t
  BY <1>6, <1>7 DEF Closes
<1>17. \A p \in Points : Closes(t, p) => p = b
  BY <1>2 DEF Closes
<1>18. ClosesInv'
  <2>1. \A u \in Threads, p \in Points : Closes(u, p)' => Open(p)' = {} /\ ~HasRow(p)'
    <3> SUFFICES ASSUME NEW u \in Threads, NEW p \in Points, Closes(u, p)'
                 PROVE  Open(p)' = {} /\ ~HasRow(p)'
      OBVIOUS
    <3>1. Closes(u, p) /\ u # t
      BY <1>16
    <3>2. p # b
      BY <1>14, <3>1 DEF SweepInv, ClosesInv
    <3> QED BY <1>9, <1>15, <3>1, <3>2 DEF SweepInv, ClosesInv
  <2>2. \A u, v \in Threads, p \in Points : Closes(u, p)' /\ Closes(v, p)' => u = v
    BY <1>16 DEF SweepInv, ClosesInv
  <2>3. \A p \in Points : HasRow(p)' => Open(p)' = {}
    BY <1>9, <1>14, <1>15 DEF SweepInv, ClosesInv
  <2>4. \A p \in Points : Open(p)' = {} => HasRow(p)' \/ \E u \in Threads : Closes(u, p)'
    <3> SUFFICES ASSUME NEW p \in Points, Open(p)' = {}
                 PROVE  HasRow(p)' \/ \E u \in Threads : Closes(u, p)'
      OBVIOUS
    <3>1. HasRow(p) \/ \E u \in Threads : Closes(u, p)
      BY <1>9 DEF SweepInv, ClosesInv
    <3>2. ASSUME NEW u \in Threads, Closes(u, p) PROVE HasRow(p)' \/ Closes(u, p)'
      BY <1>15, <1>16, <1>17, <3>2
    <3> QED BY <1>15, <3>1, <3>2
  <2> QED BY <2>1, <2>2, <2>3, <2>4 DEF ClosesInv
<1>19. SumsInv'
  <2>1. \A u \in Threads : at'[u].step = "summing" =>
          /\ Len(at'[u].sum) <= Trials
          /\ \A k \in 1..Len(at'[u].sum) : at'[u].sum[k] = Outcome(at'[u].point, k)
    BY <1>6, <1>7 DEF SweepInv, SumsInv
  <2>2. \A u \in Threads : at'[u].step # "summing" => at'[u].sum = <<>>
    BY <1>6, <1>7 DEF SweepInv, SumsInv
  <2>3. \A i \in DOMAIN rows' : \E p \in Points : rows'[i] = SerialRow(p)
    BY <1>4, <1>5 DEF SweepInv, SumsInv
  <2>4. \A i \in DOMAIN rows : rows[i].point # Items[b]
    BY <1>14 DEF HasRow
  <2>5. \A i, j \in DOMAIN rows' : rows'[i].point = rows'[j].point => i = j
    BY <1>4, <1>5, <2>4 DEF SweepInv, SumsInv
  <2> QED BY <2>1, <2>2, <2>3, <2>5 DEF SumsInv
<1> QED BY <1>10, <1>11, <1>12, <1>13, <1>18, <1>19 DEF SweepInv

LEMMA SweepStep == SweepInv /\ ~Relaxed /\ [SweepNext]_sweepvars => SweepInv'
<1> SUFFICES ASSUME SweepInv, ~Relaxed, [SweepNext]_sweepvars PROVE SweepInv'
  OBVIOUS
<1>1. ASSUME NEW t \in Threads, TakePair(t) PROVE SweepInv'
  BY <1>1, TakePairKeeps
<1>2. ASSUME NEW t \in Threads, RunTrial(t) PROVE SweepInv'
  BY <1>2, RunTrialKeeps
<1>3. ASSUME NEW t \in Threads, CountDown(t) PROVE SweepInv'
  BY <1>3, CountDownKeeps
<1>4. ASSUME NEW t \in Threads, GoOn(t) PROVE SweepInv'
  BY <1>4, GoOnKeeps
<1>5. ASSUME NEW t \in Threads, Sum(t) PROVE SweepInv'
  BY <1>5, SumKeeps
<1>6. ASSUME NEW t \in Threads, PrintRow(t) PROVE SweepInv'
  BY <1>6, PrintRowKeeps
<1>7. ASSUME NEW t \in Threads, NEW s \in Slots, Reach(t, s) PROVE SweepInv'
  BY <1>7, ReachKeeps
<1>8. CASE UNCHANGED sweepvars
  <2>1. UNCHANGED <<flat, at, results, stores, remaining, rows>>
    BY <1>8 DEF sweepvars
  <2>2. \A u \in Threads, p \in Points, k \in 1..Trials : Has(u, p, k)' <=> Has(u, p, k)
    BY <2>1 DEF Has
  <2>3. /\ \A p \in Points, k \in 1..Trials : Counted(p, k)' <=> Counted(p, k)
        /\ \A p \in Points : Open(p)' = Open(p)
    BY <2>1, <2>2, HandsSame
  <2>4. \A u \in Threads, p \in Points : Closes(u, p)' <=> Closes(u, p)
    BY <2>1 DEF Closes
  <2>5. SweepType' /\ HandsInv' /\ SumsInv'
    BY <2>1, <2>2 DEF SweepInv, SweepType, HandsInv, SumsInv
  <2>6. StoresInv' /\ CountsInv'
    BY <2>1, <2>3 DEF SweepInv, StoresInv, CountsInv
  <2>7. ClosesInv'
    BY <2>1, <2>3, <2>4, ClosesSame DEF SweepInv
  <2> QED BY <2>5, <2>6, <2>7 DEF SweepInv
<1> QED BY <1>1, <1>2, <1>3, <1>4, <1>5, <1>6, <1>7, <1>8 DEF SweepNext

\* When every pair is handed out and every thread is idle, every point has a row.
LEMMA AllRowsIn == SweepInv /\ Finished => Len(rows) = Len(Items)
<1> SUFFICES ASSUME SweepInv, Finished PROVE Len(rows) = Len(Items)
  OBVIOUS
<1>1. ASSUME NEW p \in Points PROVE HasRow(p)
  <2>1. ASSUME NEW k \in 1..Trials PROVE Counted(p, k)
    <3>1. Slot(p, k) <= flat
      BY SlotIs, TrialsAre DEF Finished, Total
    <3> QED BY <3>1 DEF Counted, Has, Finished
  <2>2. Open(p) = {}
    BY <2>1 DEF Open
  <2>3. \A t \in Threads : ~Closes(t, p)
    BY DEF Closes, Finished
  <2> QED BY <2>2, <2>3 DEF SweepInv, ClosesInv
<1> DEFINE n == Len(rows)
           f == [i \in 1..n |-> CHOOSE p \in Points : rows[i] = SerialRow(p)]
<1>2. n \in Nat /\ DOMAIN rows = 1..n
  BY DEF SweepInv, SweepType
<1>3. \A i \in 1..n : f[i] \in Points /\ rows[i] = SerialRow(f[i])
  <2> SUFFICES ASSUME NEW i \in 1..n PROVE f[i] \in Points /\ rows[i] = SerialRow(f[i])
    OBVIOUS
  <2>1. \E p \in Points : rows[i] = SerialRow(p)
    BY <1>2 DEF SweepInv, SumsInv
  <2> QED BY <2>1
<1>4. \A p \in Points : SerialRow(p).point = Items[p]
  BY DEF SerialRow
<1>5. f \in [1..n -> Points]
  BY <1>3
<1> HIDE DEF f, n
<1>6. \A i, j \in 1..n : f[i] = f[j] => i = j
  BY <1>2, <1>3 DEF SweepInv, SumsInv
<1>7. \A p \in Points : \E i \in 1..n : f[i] = p
  <2> SUFFICES ASSUME NEW p \in Points PROVE \E i \in 1..n : f[i] = p
    OBVIOUS
  <2>1. PICK i \in 1..n : rows[i].point = Items[p]
    BY <1>1, <1>2 DEF HasRow
  <2>2. Items[f[i]] = Items[p] /\ f[i] \in Points
    BY <1>3, <1>4, <2>1
  <2> QED BY <2>2, PointsAre
<1>8. f \in Bijection(1..n, Points)
  BY <1>5, <1>6, <1>7 DEF Bijection, Injection, Surjection, IsInjective
<1>9. Cardinality(Points) = Len(Items)
  <2> DEFINE l == Len(Items)
  <2>1. l \in Nat /\ Points = 1..l
    BY PointsAre
  <2> HIDE DEF l
  <2>2. 1 \in Int /\ l \in Int
    BY <2>1
  <2>3. Cardinality(1..l) = IF 1 > l THEN 0 ELSE l - 1 + 1
    BY <2>2, FS_Interval
  <2> QED BY <2>1, <2>3 DEF l
<1>10. Cardinality(Points) = n
  <2>1. ExistsBijection(1..n, Points)
    BY <1>8 DEF ExistsBijection
  <2> QED BY <1>2, <2>1, FS_CountingElements
<1> QED BY <1>9, <1>10 DEF n

\* The invariant of the trial loop, where no store passes the atomic.
THEOREM SweepSafe == ASSUME ~Relaxed PROVE SweepSpec => []SweepInv
<1>1. SweepInit => SweepInv
  BY SweepStart
<1>2. SweepInv /\ [SweepNext]_sweepvars => SweepInv'
  BY SweepStep
<1> QED BY <1>1, <1>2, PTL DEF SweepSpec

\* The output of the trial loop is the one of a single thread.
THEOREM SweepRowsMatchSerial == ASSUME ~Relaxed PROVE SweepSpec => []RowsMatchSerial
<1>1. SweepInv => RowsMatchSerial
  BY AllRowsIn DEF SweepInv, SumsInv, RowsMatchSerial
<1> QED BY <1>1, SweepSafe, PTL

-----------------------------------------------------------------------------
(* The containers.                                                         *)
\* What is in an entry that owns it, and where.
Owner(i, o) == i \in 1..Len(entries) /\ entries[i] = <<o, TRUE>>

BagType ==
  /\ pipes \in BOOLEAN /\ ending \in BOOLEAN
  /\ entries \in Seq(Objects \X BOOLEAN)
  /\ holder \in [Objects -> {"none", "client", "bag", "gone", "lost"}]
  /\ needs \in [Objects -> SUBSET Objects]

\* An object is built on nothing that was not there.
BuiltOn == \A o, p \in Objects : o \in needs[p] => holder[o] # "none" /\ holder[p] # "none"

\* The bag owns what has an owning entry, and one alone.
OneOwner ==
  /\ \A o \in Objects : holder[o] = "bag" => \E i \in 1..Len(entries) : Owner(i, o)
  /\ \A o \in Objects, i \in 1..Len(entries) : Owner(i, o) => holder[o] = "bag"
  /\ \A o \in Objects, i, j \in 1..Len(entries) : Owner(i, o) /\ Owner(j, o) => i = j

\* What was built on an object stands behind it.
BehindNeeds ==
  \A o, p \in Objects, i, j \in 1..Len(entries) :
    Owner(i, o) /\ Owner(j, p) /\ o \in needs[p] => i < j

\* While the bag ends, what its client keeps stands on its own.
EndsAlone ==
  ending => \A o \in Objects :
              holder[o] = "client" => /\ NeededBy(o) = {}
                                      /\ \A p \in needs[o] : holder[p] # "bag"

BagInv == BagType /\ BuiltOn /\ OneOwner /\ BehindNeeds /\ EndsAlone

Below == {p \in Nat \X Nat : p[1] < p[2]}

LEMMA BelowIsWellFounded == IsWellFoundedOn(Below, Nat)
<1>1. OpToRel(<, Nat) = Below
  BY DEF OpToRel, Below
<1> QED BY <1>1, NatLessThanWellFounded

LEMMA EntryIs ==
  ASSUME NEW o \in Objects, NEW b \in BOOLEAN
  PROVE  <<o, b>> \in Objects \X BOOLEAN
  OBVIOUS

LEMMA OwnerIs ==
  ASSUME NEW o, NEW p
  PROVE  /\ <<o, TRUE>> = <<p, TRUE>> <=> o = p
         /\ <<o, FALSE>> # <<p, TRUE>>
  OBVIOUS

LEMMA Joins ==
  ASSUME NEW S, NEW x \in Seq(S), NEW y \in Seq(S)
  PROVE  /\ x \o y \in Seq(S) /\ Len(x \o y) = Len(x) + Len(y)
         /\ \A i \in 1..Len(x) : (x \o y)[i] = x[i]
         /\ \A i \in 1..Len(y) : (x \o y)[Len(x) + i] = y[i]
  OBVIOUS

LEMMA SmallestIn ==
  ASSUME NEW I, I \subseteq Nat, I # {}
  PROVE  Min(I) \in I
<1>1. PICK x \in I : \A y \in I : ~(<<y, x>> \in Below)
  BY BelowIsWellFounded, WFMin
<1>2. ASSUME NEW y \in I PROVE x <= y
  <2>1. ~(<<y, x>> \in Below) /\ x \in Nat /\ y \in Nat
    BY <1>1
  <2>2. ~(y < x)
    BY <2>1 DEF Below
  <2> QED BY <2>1, <2>2
<1> QED BY <1>2 DEF Min

LEMMA Appends ==
  ASSUME NEW S, NEW s \in Seq(S), NEW e \in S
  PROVE  /\ Append(s, e) \in Seq(S) /\ Len(Append(s, e)) = Len(s) + 1
         /\ Append(s, e)[Len(s) + 1] = e
         /\ \A i \in 1..Len(s) : Append(s, e)[i] = s[i]
  OBVIOUS

\* Without its i-th item, what was behind moves up.
LEMMA Removes ==
  ASSUME NEW S, NEW s \in Seq(S), NEW i \in 1..Len(s)
  PROVE  /\ RemoveAt(s, i) \in Seq(S) /\ Len(RemoveAt(s, i)) = Len(s) - 1
         /\ \A j \in 1..(Len(s) - 1) : j < i => RemoveAt(s, i)[j] = s[j]
         /\ \A j \in 1..(Len(s) - 1) : j >= i => RemoveAt(s, i)[j] = s[j + 1]
<1> DEFINE n == Len(s)
           a == SubSeq(s, 1, i - 1)
           b == SubSeq(s, i + 1, n)
<1>1. n \in Nat /\ i \in 1..n /\ i - 1 \in Nat /\ n - i \in Nat
  OBVIOUS
<1>2. /\ a \in Seq(S) /\ Len(a) = i - 1 /\ \A j \in 1..(i - 1) : a[j] = s[j]
  OBVIOUS
<1>3. /\ b \in Seq(S) /\ Len(b) = n - i /\ \A j \in 1..(n - i) : b[j] = s[i + j]
  <2>1. Len(b) = n - i
    OBVIOUS
  <2>2. b \in Seq(S)
    OBVIOUS
  <2>3. ASSUME NEW j \in 1..(n - i) PROVE b[j] = s[i + j]
    <3>1. (i + 1) + j - 1 = i + j
      BY <1>1
    <3> QED BY <1>1, <3>1
  <2> QED BY <2>1, <2>2, <2>3
<1> HIDE DEF a, b
<1>4. /\ a \o b \in Seq(S) /\ Len(a \o b) = (i - 1) + (n - i)
      /\ \A j \in 1..(i - 1) : (a \o b)[j] = a[j]
      /\ \A j \in 1..(n - i) : (a \o b)[(i - 1) + j] = b[j]
  <2>1. /\ a \o b \in Seq(S) /\ Len(a \o b) = Len(a) + Len(b)
        /\ \A j \in 1..Len(a) : (a \o b)[j] = a[j]
        /\ \A j \in 1..Len(b) : (a \o b)[Len(a) + j] = b[j]
    <3>1. a \in Seq(S) /\ b \in Seq(S)
      BY <1>2, <1>3
    <3> QED BY <3>1, Joins
  <2> QED BY <1>2, <1>3, <2>1
<1>5. RemoveAt(s, i) = a \o b
  BY DEF RemoveAt, a, b
<1> DEFINE r == a \o b
<1> HIDE DEF r
<1>6. ASSUME NEW j \in 1..(n - 1), j >= i PROVE r[j] = s[j + 1]
  <2> DEFINE k == j - (i - 1)
  <2>1. k \in 1..(n - i) /\ (i - 1) + k = j /\ i + k = j + 1
    BY <1>1, <1>6
  <2> HIDE DEF k
  <2>2. r[j] = b[k] /\ b[k] = s[i + k]
    BY <1>3, <1>4, <2>1 DEF r
  <2> QED BY <2>1, <2>2
<1>7. ASSUME NEW j \in 1..(n - 1), j < i PROVE r[j] = s[j]
  <2>1. j \in 1..(i - 1)
    BY <1>1, <1>7
  <2> QED BY <1>2, <1>4, <2>1 DEF r
<1>8. r \in Seq(S) /\ Len(r) = n - 1
  BY <1>1, <1>4 DEF r
<1> QED BY <1>5, <1>6, <1>7, <1>8 DEF r

LEMMA BagStart == BagInit => BagInv
<1> SUFFICES ASSUME BagInit PROVE BagInv
  OBVIOUS
<1>1. entries = <<>> /\ Len(entries) = 0 /\ entries \in Seq(Objects \X BOOLEAN)
  BY DEF BagInit
<1>2. BagType
  <2>1. needs \in [Objects -> SUBSET Objects] /\ holder \in [Objects -> {"none"}]
    BY DEF BagInit
  <2> QED BY <1>1, <2>1 DEF BagInit, BagType
<1>3. BuiltOn
  BY DEF BagInit, BuiltOn
<1>4. OneOwner /\ BehindNeeds
  BY <1>1 DEF BagInit, OneOwner, BehindNeeds, Owner
<1> QED BY <1>2, <1>3, <1>4 DEF BagInit, BagInv, EndsAlone

\* What every step gives: the invariant, and no death under what was built on it.
NoneUnderneath == \A o \in Objects : Dies(o) => NeededBy(o) = {}

LEMMA CreateKeeps ==
  ASSUME BagInv, NEW o \in Objects, Create(o)
  PROVE  BagInv' /\ NoneUnderneath
<1>1. /\ ~ending /\ holder[o] = "none" /\ holder' = [holder EXCEPT ![o] = "client"]
      /\ pipes' = pipes /\ entries' = entries /\ ending' = ending
  BY DEF Create
<1>2. PICK on \in SUBSET {p \in Objects : Alive(p)} : needs' = [needs EXCEPT ![o] = on]
  BY DEF Create
<1>3. BagType'
  BY <1>1, <1>2 DEF BagInv, BagType
<1>4. BuiltOn'
  BY <1>1, <1>2 DEF BagInv, BagType, BuiltOn, Alive
<1>5. OneOwner'
  BY <1>1 DEF BagInv, BagType, OneOwner, Owner
<1>6. \A i \in 1..Len(entries) : ~Owner(i, o)
  BY <1>1 DEF BagInv, OneOwner
<1>7. BehindNeeds'
  BY <1>1, <1>2, <1>6 DEF BagInv, BagType, BehindNeeds, Owner
<1>8. EndsAlone'
  BY <1>1 DEF EndsAlone
<1>9. NoneUnderneath
  BY <1>1 DEF BagInv, BagType, NoneUnderneath, Dies, Alive
<1> QED BY <1>3, <1>4, <1>5, <1>7, <1>8, <1>9 DEF BagInv

\* The client's object goes over to the bag, at the end.
LEMMA AppendedKeeps ==
  ASSUME BagInv, NEW o \in Objects, Mine(o), Appended(o), UNCHANGED <<pipes, needs, ending>>
  PROVE  BagInv' /\ NoneUnderneath
<1> DEFINE n == Len(entries)
<1>1. /\ ~ending /\ ending' = ending /\ holder[o] = "client" /\ NeededBy(o) = {}
      /\ \A p \in needs[o] : holder[p] = "bag"
      /\ needs' = needs /\ pipes' = pipes /\ holder' = [holder EXCEPT ![o] = "bag"]
      /\ entries' = Append(entries, <<o, TRUE>>)
  BY DEF Mine, Appended
<1>2. /\ entries' \in Seq(Objects \X BOOLEAN) /\ Len(entries') = n + 1 /\ n \in Nat
      /\ entries'[n + 1] = <<o, TRUE>>
      /\ \A i \in 1..n : entries'[i] = entries[i]
  <2> DEFINE e == <<o, TRUE>>
  <2>1. e \in Objects \X BOOLEAN
    BY EntryIs
  <2>2. entries \in Seq(Objects \X BOOLEAN) /\ entries' = Append(entries, e)
    BY <1>1 DEF BagInv, BagType
  <2> HIDE DEF e
  <2>3. /\ entries' \in Seq(Objects \X BOOLEAN) /\ Len(entries') = n + 1 /\ n \in Nat
        /\ entries'[n + 1] = e
        /\ \A i \in 1..n : entries'[i] = entries[i]
    BY <2>1, <2>2, Appends
  <2> QED BY <2>3 DEF e
<1> HIDE DEF n
<1>3. \A p \in Objects, i \in 1..(n + 1) :
        Owner(i, p)' <=> (i = n + 1 /\ p = o) \/ (i \in 1..n /\ Owner(i, p))
  <2> SUFFICES ASSUME NEW p \in Objects, NEW i \in 1..(n + 1)
               PROVE  Owner(i, p)' <=> (i = n + 1 /\ p = o) \/ (i \in 1..n /\ Owner(i, p))
    OBVIOUS
  <2>1. CASE i = n + 1
    <3>1. entries'[i] = <<p, TRUE>> <=> p = o
      BY <1>2, <2>1, OwnerIs
    <3> QED BY <1>2, <2>1, <3>1 DEF Owner
  <2>2. CASE i \in 1..n
    BY <1>2, <2>2 DEF Owner, n
  <2> QED BY <1>2, <2>1, <2>2
<1>4. \A i \in 1..n : ~Owner(i, o)
  BY <1>1 DEF BagInv, OneOwner, n
<1>5. BagType'
  BY <1>1, <1>2 DEF BagInv, BagType
<1>6. BuiltOn'
  BY <1>1 DEF BagInv, BagType, BuiltOn
<1>7. holder \in [Objects -> {"none", "client", "bag", "gone", "lost"}]
  BY DEF BagInv, BagType
<1>8. OneOwner'
  <2>1. ASSUME NEW p \in Objects, holder'[p] = "bag" PROVE \E i \in 1..(n + 1) : Owner(i, p)'
    <3>1. CASE p = o
      <4>1. n + 1 \in 1..(n + 1)
        BY <1>2
      <4> QED BY <1>3, <3>1, <4>1
    <3>2. CASE p # o
      <4>1. holder[p] = "bag"
        BY <1>1, <1>7, <2>1, <3>2
      <4>2. PICK i \in 1..n : Owner(i, p)
        BY <4>1 DEF BagInv, OneOwner, n
      <4>3. i \in 1..(n + 1)
        BY <1>2
      <4> QED BY <1>3, <4>2, <4>3
    <3> QED BY <3>1, <3>2
  <2>2. ASSUME NEW p \in Objects, NEW i \in 1..(n + 1), Owner(i, p)' PROVE holder'[p] = "bag"
    <3>1. CASE p = o
      BY <1>1, <1>7, <3>1
    <3>2. CASE i \in 1..n /\ Owner(i, p)
      BY <1>1, <1>7, <3>2 DEF BagInv, OneOwner, n
    <3> QED BY <1>3, <2>2, <3>1, <3>2
  <2>3. ASSUME NEW p \in Objects, NEW i \in 1..(n + 1), NEW j \in 1..(n + 1), Owner(i, p)', Owner(j, p)'
        PROVE  i = j
    BY <1>3, <1>4, <2>3 DEF BagInv, OneOwner, n
  <2> QED BY <1>2, <2>1, <2>2, <2>3 DEF OneOwner
<1>9. BehindNeeds'
  <2> SUFFICES ASSUME NEW p \in Objects, NEW q \in Objects, NEW i \in 1..(n + 1), NEW j \in 1..(n + 1),
                      Owner(i, p)', Owner(j, q)', p \in needs[q]
               PROVE  i < j
    BY <1>1, <1>2 DEF BehindNeeds
  <2>1. CASE j = n + 1 /\ q = o
    <3>1. holder[p] = "bag" /\ p # o
      BY <1>1, <2>1
    <3>2. i \in 1..n
      BY <1>3, <3>1
    <3> QED BY <1>2, <2>1, <3>2
  <2>2. CASE j \in 1..n /\ Owner(j, q)
    <3>1. holder[q] = "bag"
      BY <2>2 DEF BagInv, OneOwner, n
    <3>2. p # o
      BY <1>1, <3>1 DEF NeededBy, Alive
    <3>3. i \in 1..n /\ Owner(i, p)
      BY <1>3, <3>2
    <3> QED BY <2>2, <3>3 DEF BagInv, BehindNeeds, n
  <2> QED BY <1>3, <2>1, <2>2
<1>10. EndsAlone'
  BY <1>1 DEF EndsAlone
<1>11. NoneUnderneath
  BY <1>1, <1>7 DEF NoneUnderneath, Dies, Alive
<1> QED BY <1>5, <1>6, <1>8, <1>9, <1>10, <1>11 DEF BagInv

\* The client's object is destroyed, or left to nobody.
LEMMA LeftKeeps ==
  ASSUME BagInv, NEW o \in Objects, ~ending, holder[o] = "client", NeededBy(o) = {},
         NEW to \in {"gone", "lost"}, holder' = [holder EXCEPT ![o] = to],
         UNCHANGED <<pipes, entries, needs, ending>>
  PROVE  BagInv' /\ NoneUnderneath
<1>1. holder \in [Objects -> {"none", "client", "bag", "gone", "lost"}]
  BY DEF BagInv, BagType
<1>2. BagType' /\ BuiltOn'
  BY DEF BagInv, BagType, BuiltOn
<1>3. OneOwner' /\ BehindNeeds'
  BY <1>1 DEF BagInv, OneOwner, BehindNeeds, Owner
<1>4. EndsAlone'
  BY DEF EndsAlone
<1>5. NoneUnderneath
  BY <1>1 DEF NoneUnderneath, Dies, Alive
<1> QED BY <1>2, <1>3, <1>4, <1>5 DEF BagInv

\* An entry that owns nothing.
LEMMA LendKeeps ==
  ASSUME BagInv, NEW o \in Objects, Lend(o)
  PROVE  BagInv' /\ NoneUnderneath
<1> DEFINE n == Len(entries)
<1>1. /\ ~ending /\ ending' = ending /\ needs' = needs /\ pipes' = pipes /\ holder' = holder
      /\ entries' = Append(entries, <<o, FALSE>>)
  BY DEF Lend
<1>2. /\ entries' \in Seq(Objects \X BOOLEAN) /\ Len(entries') = n + 1 /\ n \in Nat
      /\ entries'[n + 1] = <<o, FALSE>>
      /\ \A i \in 1..n : entries'[i] = entries[i]
  <2> DEFINE e == <<o, FALSE>>
  <2>1. e \in Objects \X BOOLEAN
    BY EntryIs
  <2>2. entries \in Seq(Objects \X BOOLEAN) /\ entries' = Append(entries, e)
    BY <1>1 DEF BagInv, BagType
  <2> HIDE DEF e
  <2>3. /\ entries' \in Seq(Objects \X BOOLEAN) /\ Len(entries') = n + 1 /\ n \in Nat
        /\ entries'[n + 1] = e
        /\ \A i \in 1..n : entries'[i] = entries[i]
    BY <2>1, <2>2, Appends
  <2> QED BY <2>3 DEF e
<1> HIDE DEF n
<1>3. \A p \in Objects, i \in 1..(n + 1) : Owner(i, p)' <=> i \in 1..n /\ Owner(i, p)
  <2> SUFFICES ASSUME NEW p \in Objects, NEW i \in 1..(n + 1)
               PROVE  Owner(i, p)' <=> i \in 1..n /\ Owner(i, p)
    OBVIOUS
  <2>1. CASE i = n + 1
    <3>1. entries'[i] # <<p, TRUE>>
      BY <1>2, <2>1, OwnerIs
    <3> QED BY <1>2, <2>1, <3>1 DEF Owner
  <2>2. CASE i \in 1..n
    BY <1>2, <2>2 DEF Owner, n
  <2> QED BY <1>2, <2>1, <2>2
<1>4. BagType' /\ BuiltOn' /\ EndsAlone'
  BY <1>1, <1>2 DEF BagInv, BagType, BuiltOn, EndsAlone
<1>5. \A p \in Objects : (\E i \in 1..n : Owner(i, p)) => \E i \in 1..(n + 1) : Owner(i, p)'
  <2> SUFFICES ASSUME NEW p \in Objects, NEW i \in 1..n, Owner(i, p)
               PROVE  \E j \in 1..(n + 1) : Owner(j, p)'
    OBVIOUS
  <2>1. i \in 1..(n + 1)
    BY <1>2
  <2> QED BY <1>3, <2>1
<1>6. OneOwner'
  BY <1>1, <1>2, <1>3, <1>5 DEF BagInv, OneOwner, n
<1>7. BehindNeeds'
  BY <1>1, <1>2, <1>3 DEF BagInv, BehindNeeds, n
<1>8. NoneUnderneath
  BY <1>1 DEF NoneUnderneath, Dies, Alive
<1> QED BY <1>4, <1>6, <1>7, <1>8 DEF BagInv

\* An entry goes and the others move up; what it owned is no longer the bag's.
LEMMA RemovedKeeps ==
  ASSUME BagInv, NEW i \in 1..Len(entries), entries' = RemoveAt(entries, i),
         UNCHANGED <<pipes, needs>>, NEW to \in {"client", "gone"},
         holder' = IF entries[i][2] THEN [holder EXCEPT ![entries[i][1]] = to] ELSE holder
  PROVE  /\ entries' \in Seq(Objects \X BOOLEAN)
         /\ holder' \in [Objects -> {"none", "client", "bag", "gone", "lost"}]
         /\ BuiltOn' /\ OneOwner' /\ BehindNeeds'
         /\ \A p \in Objects : holder'[p] = holder[p] \/ (Owner(i, p) /\ holder'[p] = to)
<1> DEFINE n == Len(entries)
           o == entries[i][1]
           old(j) == IF j < i THEN j ELSE j + 1
<1>1. /\ n \in Nat /\ i \in 1..n
      /\ entries' \in Seq(Objects \X BOOLEAN) /\ Len(entries') = n - 1
      /\ \A j \in 1..(n - 1) : entries'[j] = entries[old(j)]
  <2>1. entries \in Seq(Objects \X BOOLEAN)
    BY DEF BagInv, BagType
  <2>2. /\ entries' \in Seq(Objects \X BOOLEAN) /\ Len(entries') = n - 1
        /\ \A j \in 1..(n - 1) : j < i => entries'[j] = entries[j]
        /\ \A j \in 1..(n - 1) : j >= i => entries'[j] = entries[j + 1]
    BY <2>1, Removes
  <2>3. n \in Nat
    BY <2>1
  <2> HIDE DEF n
  <2>4. ASSUME NEW j \in 1..(n - 1) PROVE entries'[j] = entries[old(j)]
    <3>1. CASE j < i
      BY <2>2, <3>1
    <3>2. CASE ~(j < i)
      <4>1. j >= i
        BY <2>3, <3>2
      <4> QED BY <2>2, <3>2, <4>1
    <3> QED BY <3>1, <3>2
  <2> QED BY <2>2, <2>3, <2>4 DEF n
<1>2. o \in Objects /\ entries[i][2] \in BOOLEAN /\ entries[i] = <<o, entries[i][2]>>
  <2>1. entries[i] \in Objects \X BOOLEAN
    BY DEF BagInv, BagType
  <2> QED BY <2>1
<1>3. \A p \in Objects : Owner(i, p) <=> entries[i][2] /\ p = o
  BY <1>2, OwnerIs, ZenonT(40) DEF Owner
<1> HIDE DEF o
<1>4. holder \in [Objects -> {"none", "client", "bag", "gone", "lost"}]
  BY DEF BagInv, BagType
<1>5. /\ holder' \in [Objects -> {"none", "client", "bag", "gone", "lost"}]
      /\ \A p \in Objects : holder'[p] = IF Owner(i, p) THEN to ELSE holder[p]
  BY <1>2, <1>3, <1>4 DEF o
<1>6. \A p \in Objects, j \in 1..(n - 1) : old(j) \in 1..n /\ (Owner(j, p)' <=> Owner(old(j), p))
  <2> SUFFICES ASSUME NEW p \in Objects, NEW j \in 1..(n - 1)
               PROVE  old(j) \in 1..n /\ (Owner(j, p)' <=> Owner(old(j), p))
    OBVIOUS
  <2>1. old(j) \in 1..n
    BY <1>1
  <2>2. Owner(j, p)' <=> entries'[j] = <<p, TRUE>>
    BY <1>1 DEF Owner
  <2>3. Owner(old(j), p) <=> entries[old(j)] = <<p, TRUE>>
    BY <2>1 DEF Owner
  <2> HIDE DEF old
  <2> QED BY <1>1, <2>1, <2>2, <2>3
<1>7. \A k \in 1..n : k # i => \E j \in 1..(n - 1) : old(j) = k
  <2> SUFFICES ASSUME NEW k \in 1..n, k # i PROVE \E j \in 1..(n - 1) : old(j) = k
    OBVIOUS
  <2>1. CASE k < i
    <3>1. k \in 1..(n - 1) /\ old(k) = k
      BY <1>1, <2>1
    <3> QED BY <3>1
  <2>2. CASE k > i
    <3>1. k - 1 \in 1..(n - 1) /\ old(k - 1) = k
      BY <1>1, <2>2
    <3> QED BY <3>1
  <2> QED BY <1>1, <2>1, <2>2
<1>8. \A j, k \in 1..(n - 1) : (j < k <=> old(j) < old(k)) /\ (old(j) = old(k) => j = k)
  BY <1>1
<1>9. \A j \in 1..(n - 1) : old(j) # i
  BY <1>1
<1> HIDE DEF n, old
<1>10. BuiltOn'
  BY <1>5 DEF BagInv, BuiltOn
<1>11. OneOwner'
  <2>1. ASSUME NEW p \in Objects, holder'[p] = "bag" PROVE \E j \in 1..(n - 1) : Owner(j, p)'
    <3>1. holder[p] = "bag" /\ ~Owner(i, p)
      BY <1>5, <2>1
    <3>2. PICK k \in 1..n : Owner(k, p)
      BY <3>1 DEF BagInv, OneOwner, n
    <3>3. PICK j \in 1..(n - 1) : old(j) = k
      BY <1>7, <3>1, <3>2
    <3> QED BY <1>6, <3>2, <3>3
  <2>2. ASSUME NEW p \in Objects, NEW j \in 1..(n - 1), Owner(j, p)' PROVE holder'[p] = "bag"
    <3>1. old(j) \in 1..n /\ Owner(old(j), p) /\ old(j) # i
      BY <1>6, <1>9, <2>2
    <3>2. holder[p] = "bag" /\ ~Owner(i, p)
      BY <1>1, <3>1 DEF BagInv, OneOwner, n
    <3> QED BY <1>5, <3>2
  <2>3. ASSUME NEW p \in Objects, NEW j \in 1..(n - 1), NEW k \in 1..(n - 1), Owner(j, p)', Owner(k, p)'
        PROVE  j = k
    <3>1. /\ old(j) \in 1..n /\ Owner(old(j), p)
          /\ old(k) \in 1..n /\ Owner(old(k), p)
      BY <1>6, <2>3
    <3>2. old(j) = old(k)
      BY <3>1 DEF BagInv, OneOwner, n
    <3> QED BY <1>8, <3>2
  <2> QED BY <1>1, <2>1, <2>2, <2>3 DEF OneOwner
<1>12. BehindNeeds'
  <2> SUFFICES ASSUME NEW p \in Objects, NEW q \in Objects, NEW j \in 1..(n - 1), NEW k \in 1..(n - 1),
                      Owner(j, p)', Owner(k, q)', p \in needs[q]
               PROVE  j < k
    BY <1>1 DEF BehindNeeds
  <2>1. /\ old(j) \in 1..n /\ Owner(old(j), p)
        /\ old(k) \in 1..n /\ Owner(old(k), q)
    BY <1>6
  <2>2. old(j) < old(k)
    BY <2>1 DEF BagInv, BehindNeeds, n
  <2> QED BY <1>8, <2>2
<1> QED BY <1>1, <1>5, <1>10, <1>11, <1>12

\* The client takes an object back.
LEMMA TakeBackKeeps ==
  ASSUME BagInv, NEW o \in Objects, TakeBack(o)
  PROVE  BagInv' /\ NoneUnderneath
<1> DEFINE Is(e) == e[1] = o
           I == {j \in 1..Len(entries) : Is(entries[j])}
           i == SelectInSeq(entries, Is)
<1>1. i \in 1..Len(entries) /\ entries[i][1] = o
  <2>1. I # {}
    BY SMTT(40) DEF TakeBack, Held, BagInv, BagType
  <2>2. i = Min(I)
    BY <2>1 DEF SelectInSeq
  <2>3. Min(I) \in I
    <3>1. I \subseteq Nat
      OBVIOUS
    <3> HIDE DEF I
    <3> QED BY <2>1, <3>1, SmallestIn
  <2>4. i \in I
    BY <2>2, <2>3
  <2> HIDE DEF i
  <2> QED BY <2>4
<1>2. /\ ~ending /\ ending' = ending /\ UNCHANGED <<pipes, needs>>
      /\ entries' = RemoveAt(entries, i)
      /\ holder' = IF entries[i][2] THEN [holder EXCEPT ![o] = "client"] ELSE holder
  BY DEF TakeBack
<1>3. entries[i][1] = o
  BY <1>1
<1> HIDE DEF i
<1>4. holder' = IF entries[i][2] THEN [holder EXCEPT ![entries[i][1]] = "client"] ELSE holder
  BY <1>2, <1>3
<1>5. /\ entries' \in Seq(Objects \X BOOLEAN)
      /\ holder' \in [Objects -> {"none", "client", "bag", "gone", "lost"}]
      /\ BuiltOn' /\ OneOwner' /\ BehindNeeds'
      /\ \A p \in Objects : holder'[p] = holder[p] \/ holder'[p] = "client"
  BY <1>1, <1>2, <1>4, RemovedKeeps
<1>6. BagType'
  BY <1>2, <1>5 DEF BagInv, BagType
<1>7. EndsAlone'
  BY <1>2 DEF EndsAlone
<1>8. NoneUnderneath
  BY <1>5 DEF NoneUnderneath, Dies, Alive
<1> QED BY <1>5, <1>6, <1>7, <1>8 DEF BagInv

\* One round of destroy, the client's objects standing on their own.
LEMMA DestroyedKeeps ==
  ASSUME BagInv, ending' = TRUE, Destroyed(EntryNext),
         \A o \in Objects : holder[o] = "client" => /\ NeededBy(o) = {}
                                                   /\ \A p \in needs[o] : holder[p] # "bag"
  PROVE  BagInv' /\ NoneUnderneath
<1> DEFINE n == Len(entries)
<1>1. n \in Nat /\ n \in 1..Len(entries)
  <2>1. entries \in Seq(Objects \X BOOLEAN) /\ entries # <<>>
    BY DEF BagInv, BagType, Destroyed
  <2> QED BY <2>1
<1>2. /\ UNCHANGED <<pipes, needs>> /\ entries' = RemoveAt(entries, n)
      /\ holder' = IF entries[n][2] THEN [holder EXCEPT ![entries[n][1]] = "gone"] ELSE holder
  BY DEF Destroyed, EntryNext
<1> HIDE DEF n
<1>3. /\ entries' \in Seq(Objects \X BOOLEAN)
      /\ holder' \in [Objects -> {"none", "client", "bag", "gone", "lost"}]
      /\ BuiltOn' /\ OneOwner' /\ BehindNeeds'
      /\ \A p \in Objects : holder'[p] = holder[p] \/ (Owner(n, p) /\ holder'[p] = "gone")
  BY <1>1, <1>2, RemovedKeeps
<1>4. BagType'
  BY <1>2, <1>3 DEF BagInv, BagType
<1>5. EndsAlone'
  <2> SUFFICES ASSUME NEW o \in Objects, holder'[o] = "client"
               PROVE  NeededBy(o)' = {} /\ \A p \in needs'[o] : holder'[p] # "bag"
    BY DEF EndsAlone
  <2>1. holder[o] = "client"
    BY <1>3
  <2>2. NeededBy(o) = {} /\ \A p \in needs[o] : holder[p] # "bag"
    BY <2>1
  <2>3. \A p \in Objects : Alive(p)' => Alive(p)
    BY <1>3 DEF Alive
  <2>4. \A p \in Objects : holder'[p] = "bag" => holder[p] = "bag"
    BY <1>3
  <2>5. needs' = needs /\ needs[o] \subseteq Objects
    BY <1>2 DEF BagInv, BagType
  <2> QED BY <2>2, <2>3, <2>4, <2>5 DEF NeededBy
<1>6. NoneUnderneath
  <2> SUFFICES ASSUME NEW o \in Objects, Dies(o), NEW q \in Objects, Alive(q), o \in needs[q]
               PROVE  FALSE
    BY DEF NoneUnderneath, NeededBy
  <2>1. Owner(n, o)
    BY <1>3 DEF Dies, Alive
  <2>2. holder[o] = "bag"
    BY <1>1, <2>1 DEF BagInv, OneOwner
  <2>3. CASE holder[q] = "client"
    BY <2>2, <2>3
  <2>4. CASE holder[q] = "bag"
    <3>1. PICK j \in 1..Len(entries) : Owner(j, q)
      BY <2>4 DEF BagInv, OneOwner
    <3>2. n < j
      BY <1>1, <2>1, <3>1 DEF BagInv, BehindNeeds
    <3> QED BY <1>1, <3>1, <3>2 DEF n
  <2> QED BY <2>3, <2>4 DEF Alive
<1> QED BY <1>3, <1>4, <1>5, <1>6 DEF BagInv

LEMMA BagMoves ==
  ASSUME BagInv, BagNext
  PROVE  BagInv' /\ NoneUnderneath
<1>1. ASSUME NEW o \in Objects, Create(o) PROVE BagInv' /\ NoneUnderneath
  BY <1>1, CreateKeeps
<1>2. ASSUME NEW o \in Objects, AddInPlace(o) \/ AddGrown(o) PROVE BagInv' /\ NoneUnderneath
  <2>1. Mine(o) /\ Appended(o) /\ UNCHANGED <<pipes, needs, ending>>
    BY <1>2 DEF AddInPlace, AddGrown
  <2> QED BY <2>1, AppendedKeeps
<1>3. ASSUME NEW o \in Objects, AddFailed(o) PROVE BagInv' /\ NoneUnderneath
  <2>1. /\ ~ending /\ holder[o] = "client" /\ NeededBy(o) = {}
        /\ holder' = [holder EXCEPT ![o] = "gone"] /\ UNCHANGED <<pipes, entries, needs, ending>>
    BY <1>3 DEF AddFailed, Mine
  <2> QED BY <2>1, LeftKeeps
<1>4. ASSUME NEW o \in Objects, AddDropped(o) PROVE BagInv' /\ NoneUnderneath
  <2>1. /\ ~ending /\ holder[o] = "client" /\ NeededBy(o) = {}
        /\ holder' = [holder EXCEPT ![o] = "lost"] /\ UNCHANGED <<pipes, entries, needs, ending>>
    BY <1>4 DEF AddDropped, Mine
  <2> QED BY <2>1, LeftKeeps
<1>5. ASSUME NEW o \in Objects, Discard(o) PROVE BagInv' /\ NoneUnderneath
  <2>1. /\ ~ending /\ holder[o] = "client" /\ NeededBy(o) = {}
        /\ holder' = [holder EXCEPT ![o] = "gone"] /\ UNCHANGED <<pipes, entries, needs, ending>>
    BY <1>5 DEF Discard
  <2> QED BY <2>1, LeftKeeps
<1>6. ASSUME NEW o \in Objects, Lend(o) PROVE BagInv' /\ NoneUnderneath
  BY <1>6, LendKeeps
<1>7. ASSUME NEW o \in Objects, TakeBack(o) PROVE BagInv' /\ NoneUnderneath
  BY <1>7, TakeBackKeeps
<1>8. CASE EndBag
  BY <1>8, DestroyedKeeps DEF EndBag
<1>9. CASE GoOnEnding
  <2>1. ending /\ ending' = TRUE /\ Destroyed(EntryNext)
    BY <1>9 DEF GoOnEnding
  <2>2. \A o \in Objects : holder[o] = "client" => /\ NeededBy(o) = {}
                                                  /\ \A p \in needs[o] : holder[p] # "bag"
    BY <2>1 DEF BagInv, EndsAlone
  <2> QED BY <2>1, <2>2, DestroyedKeeps
<1> QED BY <1>1, <1>2, <1>3, <1>4, <1>5, <1>6, <1>7, <1>8, <1>9 DEF BagNext

\* The bag owns what it has an owning entry for, dependents behind what they
\* depend on, through failures to grow, returns and the end.
THEOREM BagSafe == BagSpec => []BagInv
<1>1. BagInv /\ [BagNext]_bagvars => BagInv'
  <2> SUFFICES ASSUME BagInv, [BagNext]_bagvars PROVE BagInv'
    OBVIOUS
  <2>1. CASE BagNext
    BY <2>1, BagMoves
  <2>2. CASE UNCHANGED bagvars
    BY <2>2 DEF bagvars, BagInv, BagType, BuiltOn, OneOwner, BehindNeeds, EndsAlone, Owner, NeededBy, Alive
  <2> QED BY <2>1, <2>2
<1> QED BY <1>1, BagStart, PTL DEF BagSpec

\* Objects die in the reverse of the order they were built, whatever was
\* added, lent, taken back or refused before (container.c destroy).
THEOREM BagDependentsFirst == BagSpec => DependentsFirst
<1>1. BagInv /\ [BagNext]_bagvars
        => [ /\ \A o \in Objects : Dies(o) => NeededBy(o) = {}
             /\ \A o \in Objects :
                  holder'[o] = "bag" => \E i \in DOMAIN entries' : entries'[i] = <<o, TRUE>> ]_bagvars
  <2> SUFFICES ASSUME BagInv, BagNext
               PROVE  /\ \A o \in Objects : Dies(o) => NeededBy(o) = {}
                      /\ \A o \in Objects :
                           holder'[o] = "bag" => \E i \in DOMAIN entries' : entries'[i] = <<o, TRUE>>
    OBVIOUS
  <2>1. BagInv' /\ NoneUnderneath
    BY BagMoves
  <2>2. DOMAIN entries' = 1..Len(entries')
    BY <2>1 DEF BagInv, BagType
  <2> QED BY <2>1, <2>2 DEF NoneUnderneath, BagInv, OneOwner, Owner
<1> QED BY <1>1, BagSafe, PTL DEF BagSpec, DependentsFirst

-----------------------------------------------------------------------------
(* The naive frame decoder in its caller's loop.                           *)

\* A frame has at least one symbol.
NaiveConstants == FrameLen \in Nat \ {0} /\ MaxOffer \in Nat

NaiveInv == LoopTypeOK /\ FramesTile /\ SettledIsStarved

LEMMA ShortestIs ==
  ASSUME NEW a \in Nat, NEW b \in Nat, NEW c \in Nat
  PROVE  /\ Shortest(a, b, c) \in {a, b, c} /\ Shortest(a, b, c) \in Nat
         /\ Shortest(a, b, c) <= a /\ Shortest(a, b, c) <= b /\ Shortest(a, b, c) <= c
<1>1. \E m \in {a, b, c} : m <= a /\ m <= b /\ m <= c
  <2>1. CASE a <= b /\ a <= c
    BY <2>1
  <2>2. CASE b <= a /\ b <= c
    BY <2>2
  <2>3. CASE c <= a /\ c <= b
    BY <2>3
  <2> QED BY <2>1, <2>2, <2>3
<1>2. /\ Shortest(a, b, c) \in {a, b, c}
      /\ Shortest(a, b, c) <= a /\ Shortest(a, b, c) <= b /\ Shortest(a, b, c) <= c
  BY <1>1 DEF Shortest
<1> QED BY <1>2

\* The symbols a call copies, and those it leaves for the next.
LEMMA FrontOfSource ==
  ASSUME NEW s \in Seq(LoopSymbol), NEW n \in 0..Len(s)
  PROVE  /\ SubSeq(s, 1, n) \in Seq(LoopSymbol) /\ Len(SubSeq(s, 1, n)) = n
         /\ SubSeq(s, n + 1, Len(s)) \in Seq(LoopSymbol)
  OBVIOUS

\* What an iteration of the caller's loop does, decode() having left decoder e
\* and written the k bits b.
IterationDid(e, b, k) ==
  /\ ndec' = e
  /\ nsrc' = SubSeq(nsrc, k + 1, Len(nsrc)) /\ ndst' = ndst \o b /\ nroom' = nroom - k
  /\ e.state = "BEGIN" => nframe' = <<>>
  /\ e.state # "BEGIN" => nframe' = nframe \o b
  /\ nlooping' \in BOOLEAN
  /\ nlooping' <=> k > 0 \/ e.state # ndec.state

LEMMA IterationDoes ==
  ASSUME DecodeAgain, NEW e, NEW b, NaiveDecode(ndec, nsrc, nroom) = [dec |-> e, bits |-> b]
  PROVE  IterationDid(e, b, Len(b))
<1> DEFINE r == NaiveDecode(ndec, nsrc, nroom)
<1>1. r.dec = e /\ r.bits = b
  <2>1. r = [dec |-> e, bits |-> b]
    OBVIOUS
  <2> HIDE DEF r
  <2> QED BY <2>1
<1>2. /\ ndec' = r.dec
      /\ nsrc' = SubSeq(nsrc, Len(r.bits) + 1, Len(nsrc))
      /\ ndst' = ndst \o r.bits
      /\ nroom' = nroom - Len(r.bits)
      /\ nframe' = (IF r.dec.state = "BEGIN" THEN <<>> ELSE nframe \o r.bits)
      /\ nlooping' = (Len(r.bits) > 0 \/ r.dec.state # ndec.state)
  BY DEF DecodeAgain, NaiveState
<1> HIDE DEF r
<1> QED BY <1>1, <1>2 DEF IterationDid

\* One iteration, one step per state of the decoder.
LEMMA NaiveStep ==
  ASSUME NaiveConstants, NaiveInv, DecodeAgain
  PROVE  NaiveInv'
<1>1. /\ nsrc \in Seq(LoopSymbol) /\ ndst \in Seq(LoopSymbol) /\ nframe \in Seq(LoopSymbol)
      /\ ndec \in [pos : 0..FrameLen, state : FrameState]
      /\ nroom \in 0..MaxOffer /\ FrameLen \in Nat \ {0} /\ MaxOffer \in Nat
      /\ Len(nsrc) \in Nat /\ ndec.pos \in 0..FrameLen /\ ndec.state \in FrameState
  BY DEF NaiveInv, LoopTypeOK, NaiveConstants, NaiveDecoder
<1>2. <<>> \in Seq(LoopSymbol) /\ Len(<<>>) = 0
      /\ SubSeq(nsrc, 0 + 1, Len(nsrc)) = nsrc /\ ndst \o <<>> = ndst /\ nframe \o <<>> = nframe
  BY <1>1
<1>3. CASE ndec.state \in {"OUTSIDE", "END"} /\ nsrc = <<>>
  <2>1. NaiveDecode(ndec, nsrc, nroom) = [dec |-> ndec, bits |-> <<>>]
    BY <1>3 DEF NaiveDecode, Opened
  <2>2. IterationDid(ndec, <<>>, 0)
    BY <1>2, <2>1, IterationDoes
  <2>3. /\ ndec' = ndec /\ nsrc' = nsrc /\ ndst' = ndst /\ nroom' = nroom /\ nframe' = nframe
        /\ nlooping' = FALSE
    BY <1>1, <1>2, <1>3, <2>2 DEF IterationDid
  <2> QED BY <1>3, <2>3 DEF NaiveInv, LoopTypeOK, FramesTile, SettledIsStarved
<1>4. CASE ndec.state \in {"OUTSIDE", "END"} /\ nsrc # <<>>
  <2> DEFINE e == [pos |-> ndec.pos, state |-> "BEGIN"]
  <2>1. NaiveDecode(ndec, nsrc, nroom) = [dec |-> e, bits |-> <<>>]
    <3>1. Opened(ndec, nsrc) = e
      BY <1>1, <1>4 DEF Opened
    <3> QED BY <1>4, <3>1 DEF NaiveDecode
  <2>2. IterationDid(e, <<>>, 0)
    <3> HIDE DEF e
    <3> QED BY <1>2, <2>1, IterationDoes
  <2>3. /\ ndec' = e /\ ndec'.state = "BEGIN" /\ nsrc' = nsrc /\ ndst' = ndst /\ nroom' = nroom
        /\ nframe' = <<>> /\ nlooping' = TRUE
    BY <1>1, <1>2, <1>4, <2>2 DEF IterationDid
  <2>4. LoopTypeOK'
    BY <1>1, <1>2, <2>3 DEF LoopTypeOK, NaiveDecoder, FrameState
  <2>5. FramesTile'
    BY <2>3 DEF FramesTile
  <2> QED BY <2>3, <2>4, <2>5 DEF NaiveInv, SettledIsStarved
<1>5. CASE ndec.state = "BEGIN"
  <2> DEFINE e == [pos |-> 0, state |-> "INSIDE"]
  <2>1. NaiveDecode(ndec, nsrc, nroom) = [dec |-> e, bits |-> <<>>]
    <3>1. PICK d : d = Entered(ndec)
      OBVIOUS
    <3>2. d = e
      BY <1>1, <3>1 DEF Entered
    <3> QED BY <1>5, <3>1, <3>2 DEF NaiveDecode
  <2>2. IterationDid(e, <<>>, 0)
    <3> HIDE DEF e
    <3> QED BY <1>2, <2>1, IterationDoes
  <2>3. nframe = <<>>
    BY <1>5 DEF NaiveInv, FramesTile
  <2>4. /\ ndec' = e /\ ndec'.state = "INSIDE" /\ ndec'.pos = 0
        /\ nsrc' = nsrc /\ ndst' = ndst /\ nroom' = nroom
        /\ nframe' = <<>> /\ nlooping' = TRUE
    BY <1>1, <1>2, <1>5, <2>2, <2>3 DEF IterationDid
  <2>5. LoopTypeOK'
    BY <1>1, <1>2, <2>4 DEF LoopTypeOK, NaiveDecoder, FrameState
  <2>6. FramesTile'
    BY <1>1, <1>2, <2>4 DEF FramesTile
  <2> QED BY <2>4, <2>5, <2>6 DEF NaiveInv, SettledIsStarved
<1>6. CASE ndec.state = "INSIDE"
  <2>1. PICK n \in Nat :
          /\ n = Count(ndec, nsrc, nroom)
          /\ n = FrameLen - ndec.pos \/ n = nroom \/ n = Len(nsrc)
          /\ n <= FrameLen - ndec.pos /\ n <= nroom /\ n <= Len(nsrc)
    <3>1. FrameLen - ndec.pos \in Nat /\ nroom \in Nat /\ Len(nsrc) \in Nat
      BY <1>1
    <3>2. PICK n : n = Count(ndec, nsrc, nroom)
      OBVIOUS
    <3>3. /\ n \in {FrameLen - ndec.pos, nroom, Len(nsrc)} /\ n \in Nat
          /\ n <= FrameLen - ndec.pos /\ n <= nroom /\ n <= Len(nsrc)
      BY <3>1, <3>2, ShortestIs, Zenon DEF Count
    <3> QED BY <3>2, <3>3
  <2>2. n \in 0..Len(nsrc)
    BY <1>1, <2>1
  <2>3. PICK b \in Seq(LoopSymbol) : b = SubSeq(nsrc, 1, n) /\ Len(b) = n
    BY <1>1, <2>2, FrontOfSource
  <2>4. SubSeq(nsrc, n + 1, Len(nsrc)) \in Seq(LoopSymbol)
    BY <1>1, <2>2, FrontOfSource
  <2>5. PICK s \in {"END", "INSIDE"} : s = IF ndec.pos + n = FrameLen THEN "END" ELSE "INSIDE"
    OBVIOUS
  <2> DEFINE e == [pos |-> ndec.pos + n, state |-> s]
  <2>6. NaiveDecode(ndec, nsrc, nroom) = [dec |-> e, bits |-> b]
    <3>1. Advanced(ndec, n) = e /\ Copied(nsrc, ndec, n) = b
      BY <2>3, <2>5 DEF Advanced, Copied
    <3> QED BY <1>6, <2>1, <3>1 DEF NaiveDecode
  <2>7. IterationDid(e, b, n)
    <3> HIDE DEF e
    <3> QED BY <2>3, <2>6, IterationDoes
  <2>8. /\ ndec' = e /\ ndec'.state = s /\ ndec'.pos = ndec.pos + n
        /\ nsrc' = SubSeq(nsrc, n + 1, Len(nsrc)) /\ ndst' = ndst \o b /\ nroom' = nroom - n
        /\ nframe' = nframe \o b /\ nlooping' \in BOOLEAN
        /\ nlooping' <=> n > 0 \/ s # "INSIDE"
    BY <1>6, <2>7 DEF IterationDid
  <2>9. Len(nframe) = ndec.pos /\ ndec.pos < FrameLen
    BY <1>6 DEF NaiveInv, FramesTile
  <2>10. nframe' \in Seq(LoopSymbol) /\ Len(nframe') = ndec.pos + n
    <3>1. nframe \o b \in Seq(LoopSymbol) /\ Len(nframe \o b) = Len(nframe) + Len(b)
      BY <1>1, <2>3
    <3> QED BY <2>3, <2>8, <2>9, <3>1
  <2>11. FramesTile'
    BY <1>1, <2>1, <2>5, <2>8, <2>10 DEF FramesTile
  <2>12. LoopTypeOK'
    <3>1. ndec' \in NaiveDecoder
      <4>1. FrameLen \in Nat /\ ndec.pos \in 0..FrameLen
        BY <1>1 DEF NaiveDecoder
      <4>2. ndec.pos + n \in 0..FrameLen
        BY <2>1, <4>1
      <4>3. s \in FrameState
        BY DEF FrameState
      <4>4. ndec' = [pos |-> ndec.pos + n, state |-> s]
        BY <2>8
      <4> QED BY <4>2, <4>3, <4>4, Zenon DEF NaiveDecoder
    <3>2. ndst' \in Seq(LoopSymbol) /\ nsrc' \in Seq(LoopSymbol)
      BY <1>1, <2>4, <2>8
    <3>3. nroom' \in 0..MaxOffer
      <4>1. nroom \in 0..MaxOffer /\ MaxOffer \in Nat /\ n \in Nat /\ n <= nroom /\ nroom' = nroom - n
        BY <1>1, <2>1, <2>8
      <4> QED BY <4>1
    <3> QED BY <2>8, <2>10, <3>1, <3>2, <3>3 DEF LoopTypeOK
  <2>13. SettledIsStarved'
    <3> SUFFICES ASSUME ~nlooping' PROVE nsrc' = <<>> \/ (nroom' = 0 /\ ndec'.state = "INSIDE")
      BY DEF SettledIsStarved
    <3>1. n = 0 /\ s = "INSIDE"
      BY <2>1, <2>8
    <3>2. nroom = 0 \/ Len(nsrc) = 0
      BY <1>1, <2>1, <2>9, <3>1
    <3>3. nroom' = nroom /\ nsrc' = nsrc
      BY <1>1, <1>2, <2>8, <3>1
    <3>4. CASE Len(nsrc) = 0
      BY <1>1, <3>3, <3>4
    <3>5. CASE nroom = 0
      BY <2>8, <3>1, <3>3, <3>5
    <3> QED BY <3>2, <3>4, <3>5
  <2> QED BY <2>11, <2>12, <2>13 DEF NaiveInv
<1> QED BY <1>1, <1>3, <1>4, <1>5, <1>6 DEF FrameState

LEMMA NaiveKeeps ==
  ASSUME NaiveConstants, NaiveInv, [LoopNext]_loopvars
  PROVE  NaiveInv'
<1>1. ASSUME NEW more \in Arrivals, NEW n \in 0..MaxOffer, Offer(more, n) PROVE NaiveInv'
  <2>1. more \in Seq(LoopSymbol)
    BY DEF Arrivals
  <2>2. /\ nsrc' = nsrc \o more /\ ndst' = <<>> /\ nroom' = n
        /\ nlooping' = TRUE /\ ndec' = ndec /\ nframe' = nframe
    BY <1>1 DEF Offer
  <2>3. nsrc' \in Seq(LoopSymbol) /\ ndst' \in Seq(LoopSymbol)
    BY <2>1, <2>2 DEF NaiveInv, LoopTypeOK
  <2>4. LoopTypeOK'
    BY <2>2, <2>3 DEF NaiveInv, LoopTypeOK
  <2> QED BY <2>2, <2>4 DEF NaiveInv, FramesTile, SettledIsStarved
<1>2. CASE DecodeAgain
  BY <1>2, NaiveStep
<1>3. CASE UNCHANGED loopvars
  BY <1>3 DEF loopvars, NaiveInv, LoopTypeOK, FramesTile, SettledIsStarved
<1> QED BY <1>1, <1>2, <1>3 DEF LoopNext

LEMMA NaiveSafe ==
  ASSUME NaiveConstants
  PROVE  LoopSpec => []NaiveInv
<1>1. LoopInit => NaiveInv
  <2> SUFFICES ASSUME LoopInit PROVE NaiveInv
    OBVIOUS
  <2>1. /\ nsrc = <<>> /\ ndst = <<>> /\ nframe = <<>> /\ nroom = 0 /\ nlooping = FALSE
        /\ ndec = [pos |-> 0, state |-> "OUTSIDE"] /\ ndec.state = "OUTSIDE"
    BY DEF LoopInit, FreshNaive
  <2>2. ndec \in NaiveDecoder
    BY <2>1 DEF NaiveConstants, NaiveDecoder, FrameState
  <2>3. <<>> \in Seq(LoopSymbol) /\ 0 \in 0..MaxOffer
    BY DEF NaiveConstants
  <2> QED BY <2>1, <2>2, <2>3 DEF NaiveInv, LoopTypeOK, FramesTile, SettledIsStarved
<1>2. NaiveInv /\ [LoopNext]_loopvars => NaiveInv'
  BY NaiveKeeps
<1> QED BY <1>1, <1>2, PTL DEF LoopSpec

\* Whatever the length of a frame and however arrivals and rooms cut the
\* stream, the caller has collected exactly a frame when it sees END.
THEOREM NaiveFramesTile ==
  ASSUME NaiveConstants
  PROVE  LoopSpec => []FramesTile
<1>1. NaiveInv => FramesTile
  BY DEF NaiveInv
<1> QED BY <1>1, NaiveSafe, PTL

\* A call without progress is never one the decoder would still move from: the
\* caller's loop ends for want of symbols or of room only.
THEOREM NaiveLoopStarves ==
  ASSUME NaiveConstants
  PROVE  LoopSpec => []SettledIsStarved
<1>1. NaiveInv => SettledIsStarved
  BY DEF NaiveInv
<1> QED BY <1>1, NaiveSafe, PTL
-----------------------------------------------------------------------------
(* The detectors.                                                          *)
OfValues(s) == \E S : s \in Seq(S)

\* Positions are counted from what is held on; nothing is slid over twice, and
\* what is recorded is what is no longer held.
DetInv ==
  /\ kind \in {"clean", "noisy"} /\ fed \in Nat /\ next \in Nat /\ finalized \in BOOLEAN
  /\ OfValues(window) /\ OfValues(out) /\ OfValues(given)
  /\ Len(given) + Len(out) = fed - Len(window)
  /\ ~finalized => fed - Len(window) <= next /\ next <= fed

\* Induction over the natural numbers, for a set instead of a formula.
LEMMA SetInduction ==
  ASSUME NEW S, 0 \in S, \A n \in Nat : n \in S => n + 1 \in S
  PROVE  Nat \subseteq S
<1> DEFINE T == {n \in Nat : n \notin S}
<1> SUFFICES ASSUME T # {} PROVE FALSE
  OBVIOUS
<1>1. T \subseteq Nat
  OBVIOUS
<1>2. PICK x \in T : \A y \in T : ~ (<<y, x>> \in Below)
  <2> HIDE DEF T
  <2> QED BY <1>1, BelowIsWellFounded, WFMin
<1>3. x \in Nat /\ x \notin S /\ x # 0
  BY <1>2
<1>4. x - 1 \in Nat /\ x - 1 < x /\ (x - 1) + 1 = x
  BY <1>3
<1>5. x - 1 \notin T
  BY <1>2, <1>3, <1>4 DEF Below
<1> QED BY <1>3, <1>4, <1>5

LEMMA WindowLengths ==
  ASSUME kind \in {"clean", "noisy"}
  PROVE  LongestWindow \in Nat /\ ShortestWindow \in Nat /\ Step \in Nat \ {0} /\ Step <= LongestWindow
<1>1. PICK top \in Strides : top >= 2 /\ Strides = 2..top
  BY DetectorAssumption
<1>2. top \in Nat /\ \A t \in Strides : t \in Nat /\ t <= top
  BY <1>1
<1>3. Widest = top
  BY <1>1, <1>2 DEF Widest
<1>4. Width \in Nat /\ Width + Margin \in Nat
  BY DetectorAssumption
<1>5. ASSUME NEW s \in Nat PROVE CleanLength(s) \in Nat
  <2>1. s * (Width + Margin) \in Nat
    BY <1>4, Grows
  <2> QED BY <1>4, <2>1 DEF CleanLength
<1>6. Step <= CleanLength(top)
  <2>1. PICK s \in Strides : Step <= s * (Width + Margin) + Width
    BY DetectorAssumption
  <2>2. s \in Nat /\ s <= top
    BY <1>2
  <2>3. (Width + Margin) * s <= (Width + Margin) * top
    BY <1>2, <1>4, <2>2, Grows
  <2>4. s * (Width + Margin) = (Width + Margin) * s /\ top * (Width + Margin) = (Width + Margin) * top
    BY <1>2, <1>4, <2>2
  <2>5. (Width + Margin) * s \in Nat /\ (Width + Margin) * top \in Nat
    BY <1>2, <1>4, <2>2, Grows
  <2>6. PICK a \in Nat, b \in Nat : a = (Width + Margin) * s /\ b = (Width + Margin) * top
    BY <2>5
  <2>7. Step \in Nat /\ a <= b /\ Step <= a + Width
    BY <2>1, <2>3, <2>4, <2>6, DetectorAssumption
  <2>8. Step <= b + Width
    BY <1>4, <2>7
  <2> QED BY <2>4, <2>6, <2>8 DEF CleanLength
<1>7. Span \in Nat /\ MinSpan \in Nat /\ Step \in Nat \ {0} /\ Step <= Span
  BY DetectorAssumption
<1>8. CleanLength(top) \in Nat /\ CleanLength(2) \in Nat
  BY <1>2, <1>5
<1> QED BY <1>3, <1>6, <1>7, <1>8 DEF LongestWindow, ShortestWindow

\* Sequences of whatever values.
LEMMA CountedOff ==
  ASSUME NEW n \in Nat, NEW f, f = [i \in 1..n |-> f[i]]
  PROVE  OfValues(f) /\ Len(f) = n
<1>1. f \in [1..n -> {f[i] : i \in 1..n}]
  OBVIOUS
<1>2. f \in Seq({f[i] : i \in 1..n}) /\ Len(f) = n
  BY <1>1
<1> QED BY <1>2 DEF OfValues

LEMMA LengthOf ==
  ASSUME NEW s, OfValues(s)
  PROVE  Len(s) \in Nat /\ DOMAIN s = 1..Len(s) /\ s = [i \in 1..Len(s) |-> s[i]]
<1>1. PICK S : s \in Seq(S)
  BY DEF OfValues
<1> QED BY <1>1

LEMMA Ended ==
  ASSUME NEW s, OfValues(s), NEW t, OfValues(t)
  PROVE  OfValues(s \o t) /\ Len(s \o t) = Len(s) + Len(t)
<1>1. PICK S : s \in Seq(S)
  BY DEF OfValues
<1>2. PICK T : t \in Seq(T)
  BY DEF OfValues
<1>3. s \in Seq(S \cup T) /\ t \in Seq(S \cup T)
  BY <1>1, <1>2
<1>4. s \o t \in Seq(S \cup T) /\ Len(s \o t) = Len(s) + Len(t)
  BY <1>3
<1> QED BY <1>4 DEF OfValues

LEMMA Cut ==
  ASSUME NEW s, OfValues(s), NEW n \in 0..Len(s)
  PROVE  /\ OfValues(SubSeq(s, 1, n)) /\ Len(SubSeq(s, 1, n)) = n
         /\ OfValues(SubSeq(s, n + 1, Len(s))) /\ Len(SubSeq(s, n + 1, Len(s))) = Len(s) - n
<1>1. PICK S : s \in Seq(S)
  BY DEF OfValues
<1>2. SubSeq(s, 1, n) \in Seq(S) /\ Len(SubSeq(s, 1, n)) = n
  BY <1>1
<1>3. SubSeq(s, n + 1, Len(s)) \in Seq(S) /\ Len(SubSeq(s, n + 1, Len(s))) = Len(s) - n
  BY <1>1
<1> QED BY <1>2, <1>3 DEF OfValues

\* A window changes what is known of the positions, not which there are.
LEMMA ScoredIs ==
  ASSUME NEW from, OfValues(from)
  PROVE  OfValues(Scored(from)) /\ Len(Scored(from)) = Len(from)
<1>1. PICK f : f = Scored(from)
  OBVIOUS
<1>2. f = [i \in DOMAIN from |-> f[i]]
  BY <1>1 DEF Scored
<1>3. DOMAIN from = 1..Len(from) /\ Len(from) \in Nat
  BY LengthOf
<1>4. f = [i \in 1..Len(from) |-> f[i]]
  BY <1>2, <1>3
<1> QED BY <1>1, <1>3, <1>4, CountedOff

\* The windows from start on, each a step further.
LEMMA TurnsAre ==
  ASSUME NEW end \in Int, NEW start \in Int, NEW least \in Nat, kind \in {"clean", "noisy"}
  PROVE  LET n == Turns(end, start, least)
         IN  /\ n \in Nat /\ n * Step \in Nat
             /\ end - (start + n * Step) < least
             /\ \A t \in 1..n : (t - 1) * Step \in Nat /\ start + (t - 1) * Step + least <= end
             /\ n > 0 => n * Step + least <= end - start + Step
<1>0. Step \in Nat \ {0}
  BY WindowLengths
<1>1. CASE end - start < least
  <2>1. Turns(end, start, least) = 0
    BY <1>1 DEF Turns
  <2>2. 0 * Step = 0 /\ start + 0 = start /\ ~(0 > 0) /\ 1..0 = {}
    BY <1>0
  <2> QED BY <1>1, <2>1, <2>2
<1>2. CASE ~(end - start < least)
  <2>1. PICK d \in Nat : d = end - start - least
    BY <1>2
  <2>2. PICK q \in Nat, r \in 0..(Step - 1) : q = d \div Step /\ d = Step * q + r
    BY <1>0, DivMod
  <2>3. Turns(end, start, least) = q + 1
    BY <1>2, <2>1, <2>2 DEF Turns
  <2>4. Step * q \in Nat /\ (q + 1) * Step = Step * q + Step
    BY <1>0, <2>2, OneMore
  <2>5. PICK m \in Nat : m = Step * q
    BY <2>4
  <2>6. end = start + least + m + r
    BY <2>1, <2>2, <2>5
  <2>7. end - (start + (m + Step)) < least /\ m + Step \in Nat /\ m + Step + least <= end - start + Step
    BY <1>0, <2>2, <2>6
  <2>8. ASSUME NEW t \in 1..(q + 1)
        PROVE  (t - 1) * Step \in Nat /\ start + (t - 1) * Step + least <= end
    <3>1. t - 1 \in Nat /\ t - 1 <= q
      BY <2>2
    <3>2. Step * (t - 1) <= Step * q /\ Step * (t - 1) \in Nat
      BY <1>0, <2>2, <3>1, Grows
    <3>3. (t - 1) * Step = Step * (t - 1)
      BY <1>0, <3>1
    <3>4. PICK k \in Nat : k = (t - 1) * Step
      BY <3>2, <3>3
    <3>5. k <= m
      BY <2>5, <3>2, <3>3, <3>4
    <3>6. start + k + least <= end
      BY <2>2, <2>6, <3>5
    <3> QED BY <3>4, <3>6
  <2> QED BY <2>3, <2>4, <2>5, <2>7, <2>8
<1> QED BY <1>1, <1>2

\* Sliding keeps every position and stops where no window fits any more.
LEMMA SlidIs ==
  ASSUME NEW win, OfValues(win), NEW base \in Int, NEW start \in Nat, NEW least \in Nat,
         kind \in {"clean", "noisy"}, base <= start,
         NEW s, s = Slid(win, base, start, least),
         NEW end \in Int, end = base + Len(win)
  PROVE  /\ OfValues(s.window) /\ Len(s.window) = Len(win)
         /\ s.next \in Nat /\ s.next >= start /\ end - s.next < least
         /\ start <= end /\ Step <= least => s.next <= end
<1> DEFINE L == Len(win)
           n == Turns(end, start, least)
           lo(t) == start + (t - 1) * Step - base
           Turn(w, t) == SubSeq(w, 1, lo(t)) \o Scored(SubSeq(w, lo(t) + 1, Len(w)))
           Eq(f, m) == f = [t \in 0..m |-> IF t = 0 THEN win ELSE Turn(f[t - 1], t)]
           Turned(w) == OfValues(w) /\ Len(w) = L
<1>1. L \in Nat /\ Turned(win)
  BY LengthOf
<1>2. /\ n \in Nat /\ n * Step \in Nat /\ end - (start + n * Step) < least
      /\ \A t \in 1..n : (t - 1) * Step \in Nat /\ start + (t - 1) * Step + least <= end
      /\ n > 0 => n * Step + least <= end - start + Step
  <2>1. start \in Int
    OBVIOUS
  <2> QED BY <2>1, TurnsAre
<1>0. end = base + L
  OBVIOUS
<1> HIDE DEF L, n
<1>3. ASSUME NEW t \in 1..n, NEW w, Turned(w) PROVE Turned(Turn(w, t))
  <2>1. PICK k \in Nat : k = (t - 1) * Step
    BY <1>2
  <2>2. start + k + least <= end
    BY <1>2, <2>1
  <2>3. lo(t) = start + k - base
    BY <2>1
  <2>4. lo(t) \in 0..L
    BY <1>0, <1>1, <2>1, <2>2, <2>3
  <2> HIDE DEF lo
  <2>5. PICK x : x = SubSeq(w, 1, lo(t))
    OBVIOUS
  <2>6. PICK y : y = SubSeq(w, lo(t) + 1, Len(w))
    OBVIOUS
  <2>7. OfValues(x) /\ Len(x) = lo(t) /\ OfValues(y) /\ Len(y) = L - lo(t)
    BY <1>3, <2>4, <2>5, <2>6, Cut
  <2>8. OfValues(Scored(y)) /\ Len(Scored(y)) = L - lo(t)
    BY <2>7, ScoredIs
  <2>9. OfValues(x \o Scored(y)) /\ Len(x \o Scored(y)) = lo(t) + (L - lo(t))
    BY <2>7, <2>8, Ended
  <2>10. lo(t) + (L - lo(t)) = L
    BY <1>1, <2>4
  <2> QED BY <2>5, <2>6, <2>9, <2>10
<1> HIDE DEF Turn, Turned
<1>4. ASSUME NEW m \in Nat PROVE \E f : Eq(f, m)
  <2> DEFINE Some == {i \in Nat : \E f : Eq(f, i)}
  <2>1. 0 \in Some
    <3>1. Eq([t \in 0..0 |-> win], 0)
      OBVIOUS
    <3> QED BY <3>1
  <2>2. ASSUME NEW b \in Nat, b \in Some PROVE b + 1 \in Some
    <3>1. PICK f : Eq(f, b)
      BY <2>2
    <3> DEFINE g == [t \in 0..(b + 1) |-> IF t <= b THEN f[t] ELSE Turn(f[b], b + 1)]
    <3>2. ASSUME NEW t \in 0..(b + 1)
          PROVE  g[t] = IF t = 0 THEN win ELSE Turn(g[t - 1], t)
      <4>1. CASE t = 0
        <5>1. t <= b /\ t \in 0..b
          BY <4>1
        <5>2. f[t] = win
          BY <3>1, <4>1, <5>1
        <5> QED BY <4>1, <5>1, <5>2
      <4>2. CASE t # 0
        <5>1. t - 1 \in 0..(b + 1) /\ t - 1 <= b
          BY <4>2
        <5>2. g[t - 1] = f[t - 1]
          BY <5>1
        <5>3. CASE t <= b
          <6>1. f[t] = Turn(f[t - 1], t)
            BY <3>1, <4>2, <5>3
          <6> QED BY <4>2, <5>2, <5>3, <6>1
        <5>4. CASE ~(t <= b)
          <6>1. t = b + 1 /\ t - 1 = b
            BY <5>4
          <6> QED BY <4>2, <5>2, <5>4, <6>1
        <5> QED BY <5>3, <5>4
      <4> QED BY <4>1, <4>2
    <3>3. g = [t \in 0..(b + 1) |-> g[t]]
      OBVIOUS
    <3> HIDE DEF g
    <3>4. Eq(g, b + 1)
      BY <3>2, <3>3
    <3>5. b + 1 \in Nat
      OBVIOUS
    <3> HIDE DEF Eq
    <3> QED BY <3>4, <3>5
  <2> HIDE DEF Some
  <2>3. Nat \subseteq Some
    BY <2>1, <2>2, SetInduction
  <2> QED BY <2>3 DEF Some
<1> DEFINE after[t \in 0..n] == IF t = 0 THEN win ELSE Turn(after[t - 1], t)
<1>5. after = [t \in 0..n |-> IF t = 0 THEN win ELSE Turn(after[t - 1], t)]
  <2>1. \E f : Eq(f, n)
    BY <1>2, <1>4
  <2> QED BY <2>1
<1>6. s = [window |-> after[n], next |-> start + n * Step]
  BY DEF Slid, n, L, Turn
<1> HIDE DEF after
<1>7. \A t \in 0..n : after[t] = IF t = 0 THEN win ELSE Turn(after[t - 1], t)
  BY <1>5
<1>8. Turned(after[n])
  <2> DEFINE Some == {i \in Nat : i <= n => Turned(after[i])}
  <2>1. 0 \in Some
    <3>1. after[0] = win
      BY <1>2, <1>7
    <3> QED BY <1>1, <3>1
  <2>2. ASSUME NEW b \in Nat, b \in Some PROVE b + 1 \in Some
    <3> SUFFICES ASSUME b + 1 <= n PROVE Turned(after[b + 1])
      OBVIOUS
    <3>1. b + 1 \in 1..n /\ b + 1 \in 0..n /\ (b + 1) - 1 = b /\ b + 1 # 0 /\ b <= n
      BY <1>2
    <3>2. after[b + 1] = Turn(after[b], b + 1)
      BY <1>7, <3>1
    <3>3. Turned(after[b])
      BY <2>2, <3>1
    <3> QED BY <1>3, <3>1, <3>2, <3>3
  <2> HIDE DEF Some
  <2>3. n \in Some
    BY <1>2, <2>1, <2>2, SetInduction
  <2> QED BY <1>2, <2>3 DEF Some
<1>9. PICK k \in Nat : k = n * Step
  BY <1>2
<1>10. end - (start + k) < least /\ start + k \in Nat /\ start + k >= start
  BY <1>2, <1>9
<1>11. start <= end /\ Step <= least => start + k <= end
  <2> SUFFICES ASSUME start <= end, Step <= least PROVE start + k <= end
    OBVIOUS
  <2>1. Step \in Nat
    BY WindowLengths
  <2>2. CASE n = 0
    <3>1. k = 0
      BY <1>9, <2>1, <2>2
    <3> QED BY <1>1, <3>1
  <2>3. CASE n # 0
    <3>1. k + least <= end - start + Step
      BY <1>2, <1>9, <2>3
    <3> QED BY <1>1, <2>1, <3>1
  <2> QED BY <2>2, <2>3
<1> QED BY <1>6, <1>8, <1>9, <1>10, <1>11 DEF L, Turned

\* What is collected was there, in whatever portions it is asked for.
LEMMA CollectedIs ==
  ASSUME NEW there \in Nat, NEW room \in Nat
  PROVE  Collected(there, room) \in 0..there
<1> DEFINE Asked(b) == LET want == Smaller(Chunk, room - b.n)
                           got  == Smaller(want, there - b.n)
                       IN  IF ~b.on THEN b
                           ELSE [n |-> b.n + got, on |-> got = want /\ b.n + got < room]
           none == [n |-> 0, on |-> TRUE]
           Eq(f, m) == f = [t \in 0..m |-> IF t = 0 THEN none ELSE Asked(f[t - 1])]
           Fine(b) == b.n \in 0..there /\ b.n <= room
<1>1. ASSUME NEW b, Fine(b) PROVE Fine(Asked(b))
  <2>1. Chunk \in Nat
    BY DetectorAssumption
  <2>2. PICK want : want = Smaller(Chunk, room - b.n)
    OBVIOUS
  <2>3. want \in Nat /\ want <= room - b.n
    BY <1>1, <2>1, <2>2 DEF Smaller
  <2>4. PICK got : got = Smaller(want, there - b.n)
    OBVIOUS
  <2>5. got \in Nat /\ got <= want /\ got <= there - b.n
    BY <1>1, <2>3, <2>4 DEF Smaller
  <2>6. Asked(b) = IF ~b.on THEN b ELSE [n |-> b.n + got, on |-> got = want /\ b.n + got < room]
    BY <2>2, <2>4
  <2>7. b.n + got \in 0..there /\ b.n + got <= room
    BY <1>1, <2>3, <2>5
  <2> HIDE DEF Asked
  <2> QED BY <1>1, <2>6, <2>7
<1> HIDE DEF Asked
<1>2. Fine(none)
  OBVIOUS
<1> HIDE DEF Fine, none
<1>3. ASSUME NEW m \in Nat PROVE \E f : Eq(f, m)
  <2> DEFINE Some == {i \in Nat : \E f : Eq(f, i)}
  <2>1. 0 \in Some
    <3>1. Eq([t \in 0..0 |-> none], 0)
      OBVIOUS
    <3> QED BY <3>1
  <2>2. ASSUME NEW b \in Nat, b \in Some PROVE b + 1 \in Some
    <3>1. PICK f : Eq(f, b)
      BY <2>2
    <3> DEFINE g == [t \in 0..(b + 1) |-> IF t <= b THEN f[t] ELSE Asked(f[b])]
    <3>2. ASSUME NEW t \in 0..(b + 1)
          PROVE  g[t] = IF t = 0 THEN none ELSE Asked(g[t - 1])
      <4>1. CASE t = 0
        <5>1. t <= b /\ t \in 0..b
          BY <4>1
        <5>2. f[t] = none
          BY <3>1, <4>1, <5>1
        <5> QED BY <4>1, <5>1, <5>2
      <4>2. CASE t # 0
        <5>1. t - 1 \in 0..(b + 1) /\ t - 1 <= b
          BY <4>2
        <5>2. g[t - 1] = f[t - 1]
          BY <5>1
        <5>3. CASE t <= b
          <6>1. f[t] = Asked(f[t - 1])
            BY <3>1, <4>2, <5>3
          <6> QED BY <4>2, <5>2, <5>3, <6>1
        <5>4. CASE ~(t <= b)
          <6>1. t = b + 1 /\ t - 1 = b
            BY <5>4
          <6> QED BY <4>2, <5>2, <5>4, <6>1
        <5> QED BY <5>3, <5>4
      <4> QED BY <4>1, <4>2
    <3>3. g = [t \in 0..(b + 1) |-> g[t]]
      OBVIOUS
    <3> HIDE DEF g
    <3>4. Eq(g, b + 1)
      BY <3>2, <3>3
    <3>5. b + 1 \in Nat
      OBVIOUS
    <3> HIDE DEF Eq
    <3> QED BY <3>4, <3>5
  <2> HIDE DEF Some
  <2>3. Nat \subseteq Some
    BY <2>1, <2>2, SetInduction
  <2> QED BY <2>3 DEF Some
<1>8. PICK last \in Nat : last = room + 1
  OBVIOUS
<1> DEFINE after[t \in 0..last] == IF t = 0 THEN none ELSE Asked(after[t - 1])
<1>4. after = [t \in 0..last |-> IF t = 0 THEN none ELSE Asked(after[t - 1])]
  <2>1. \E f : Eq(f, last)
    BY <1>3
  <2> QED BY <2>1
<1>5. Collected(there, room) = after[last].n
  BY <1>8 DEF Collected, Asked, none
<1> HIDE DEF after
<1>6. last \in Nat /\ \A t \in 0..last : after[t] = IF t = 0 THEN none ELSE Asked(after[t - 1])
  BY <1>4
<1>7. Fine(after[last])
  <2> DEFINE Some == {i \in Nat : i <= last => Fine(after[i])}
  <2>1. 0 \in Some
    <3>1. after[0] = none
      BY <1>6
    <3> QED BY <1>2, <3>1
  <2>2. ASSUME NEW b \in Nat, b \in Some PROVE b + 1 \in Some
    <3> SUFFICES ASSUME b + 1 <= last PROVE Fine(after[b + 1])
      OBVIOUS
    <3>1. b + 1 \in 0..last /\ (b + 1) - 1 = b /\ b + 1 # 0 /\ b <= last
      BY <1>6
    <3>2. after[b + 1] = Asked(after[b])
      BY <1>6, <3>1
    <3>3. Fine(after[b])
      BY <2>2, <3>1
    <3> QED BY <1>1, <3>2, <3>3
  <2> HIDE DEF Some
  <2>3. last \in Some
    BY <1>6, <2>1, <2>2, SetInduction
  <2> QED BY <1>6, <2>3 DEF Some
<1> QED BY <1>5, <1>7 DEF Fine

\* emit_upto: as many records more as positions less, or nothing.
LEMMA EmitDoes ==
  ASSUME NEW win, OfValues(win), NEW count \in 0..Len(win), NEW room \in Nat,
         OfValues(out), OfValues(given), Emit(win, count, room)
  PROVE  /\ OfValues(window') /\ OfValues(out') /\ OfValues(given')
         /\ \/ /\ Len(window') = Len(win) - count
               /\ Len(given') + Len(out') = Len(given) + Len(out) + count
            \/ failed' = TRUE /\ window' = win /\ given' = given /\ out' = out
<1>1. PICK q : q = out \o [i \in 1..count |-> Verdict(win[i].seen)]
  OBVIOUS
<1>2. Len(win) \in Nat /\ count \in Nat /\ Len(out) \in Nat /\ Len(given) \in Nat
  BY LengthOf
<1>3. OfValues(q) /\ Len(q) = Len(out) + count
  <2>1. PICK v : v = [i \in 1..count |-> Verdict(win[i].seen)]
    OBVIOUS
  <2>2. v = [i \in 1..count |-> v[i]]
    BY <2>1
  <2>3. OfValues(v) /\ Len(v) = count
    BY <1>2, <2>2, CountedOff
  <2> QED BY <1>1, <2>1, <2>3, Ended
<1>4. \/ failed' = TRUE /\ window' = win /\ given' = given /\ out' = out
      \/ /\ window' = SubSeq(win, count + 1, Len(win))
         /\ \E n \in {Collected(Len(q), room)} :
              given' = given \o SubSeq(q, 1, n) /\ out' = SubSeq(q, n + 1, Len(q))
  BY <1>1 DEF Emit
<1>5. ASSUME window' = SubSeq(win, count + 1, Len(win)),
             NEW n \in {Collected(Len(q), room)},
             given' = given \o SubSeq(q, 1, n), out' = SubSeq(q, n + 1, Len(q))
      PROVE  /\ OfValues(window') /\ OfValues(out') /\ OfValues(given')
             /\ Len(window') = Len(win) - count
             /\ Len(given') + Len(out') = Len(given) + Len(out) + count
  <2>1. Len(q) \in Nat
    BY <1>3, LengthOf
  <2>2. n \in 0..Len(q)
    BY <2>1, CollectedIs
  <2>3. OfValues(window') /\ Len(window') = Len(win) - count
    BY <1>5, Cut
  <2>4. PICK x : x = SubSeq(q, 1, n)
    OBVIOUS
  <2>5. OfValues(x) /\ Len(x) = n /\ OfValues(out') /\ Len(out') = Len(q) - n
    BY <1>3, <1>5, <2>2, <2>4, Cut
  <2>6. OfValues(given') /\ Len(given') = Len(given) + n
    BY <1>5, <2>4, <2>5, Ended
  <2>7. (Len(given) + n) + (Len(q) - n) = Len(given) + Len(out) + count
    BY <1>2, <1>3, <2>2
  <2> QED BY <2>3, <2>5, <2>6, <2>7
<1> QED BY <1>4, <1>5

\* What a step may leave unreported.
Reports ==
  ~failed' => IF finalized' THEN finalized \/ window' = <<>> ELSE Len(window') < LongestWindow

LEMMA ListenKeeps ==
  ASSUME DetInv, NEW n \in 0..MaxFeed, NEW room \in 0..MaxAsk, Listen(n, room)
  PROVE  DetInv' /\ Reports
<1>1. /\ n \in Nat /\ room \in Nat /\ fed \in Nat /\ next \in Nat /\ finalized = FALSE
      /\ fed' = fed + n /\ kind' = kind /\ finalized' = FALSE
      /\ kind \in {"clean", "noisy"} /\ OfValues(window) /\ OfValues(out) /\ OfValues(given)
      /\ Len(window) \in Nat /\ Len(out) \in Nat /\ Len(given) \in Nat
      /\ Len(given) + Len(out) = fed - Len(window)
      /\ fed - Len(window) <= next /\ next <= fed
  <2>1. n \in Nat /\ room \in Nat
    BY DetectorAssumption
  <2>2. finalized = FALSE /\ fed' = fed + n /\ kind' = kind /\ finalized' = FALSE
    BY DEF Listen
  <2>3. /\ fed \in Nat /\ next \in Nat
        /\ kind \in {"clean", "noisy"} /\ OfValues(window) /\ OfValues(out) /\ OfValues(given)
        /\ Len(given) + Len(out) = fed - Len(window)
        /\ ~finalized => fed - Len(window) <= next /\ next <= fed
    BY Zenon DEF DetInv
  <2>4. Len(window) \in Nat /\ Len(out) \in Nat /\ Len(given) \in Nat
    BY <2>3, LengthOf, Zenon
  <2> QED BY <2>1, <2>2, <2>3, <2>4, Zenon
<1>2. PICK more : more = window \o [i \in 1..n |-> [symbol |-> src[fed + i], seen |-> Uncovered]]
  OBVIOUS
<1>3. OfValues(more) /\ Len(more) = Len(window) + n
  <2>1. PICK v : v = [i \in 1..n |-> [symbol |-> src[fed + i], seen |-> Uncovered]]
    OBVIOUS
  <2>2. v = [i \in 1..n |-> v[i]]
    BY <2>1
  <2>3. OfValues(v) /\ Len(v) = n
    BY <1>1, <2>2, CountedOff
  <2> QED BY <1>1, <1>2, <2>1, <2>3, Ended
<1>4. PICK base \in Nat : base = FirstHeld
  BY <1>1 DEF FirstHeld
<1>5. base = fed - Len(window) /\ base <= next /\ base + Len(more) = fed'
  BY <1>1, <1>3, <1>4 DEF FirstHeld
<1>6. PICK s : s = Slid(more, base, next, LongestWindow)
  OBVIOUS
<1>7. next' = s.next /\ Emit(s.window, Larger(0, s.next - base), room)
  BY <1>2, <1>4, <1>6 DEF Listen, Settled
<1>8. LongestWindow \in Nat /\ Step <= LongestWindow
  BY <1>1, WindowLengths
<1>9. /\ OfValues(s.window) /\ Len(s.window) = Len(more)
      /\ s.next \in Nat /\ s.next >= next /\ fed' - s.next < LongestWindow
      /\ next <= fed' => s.next <= fed'
  <2>1. fed' \in Int /\ fed' = base + Len(more) /\ base \in Int /\ base <= next /\ next \in Nat
    BY <1>1, <1>5
  <2>2. OfValues(more) /\ LongestWindow \in Nat /\ kind \in {"clean", "noisy"}
    BY <1>1, <1>3, <1>8
  <2>3. /\ OfValues(s.window) /\ Len(s.window) = Len(more)
        /\ s.next \in Nat /\ s.next >= next /\ fed' - s.next < LongestWindow
        /\ next <= fed' /\ Step <= LongestWindow => s.next <= fed'
    BY <1>6, <2>1, <2>2, SlidIs
  <2> QED BY <1>8, <2>3
<1>10. PICK count : count = Larger(0, s.next - base)
  OBVIOUS
<1>11. /\ count \in Nat /\ count = s.next - base /\ s.next <= fed'
       /\ count <= Len(s.window) /\ Len(s.window) \in Nat
  <2>1. PICK l \in Nat, f \in Nat, e \in Nat, m \in Nat :
          l = Len(s.window) /\ f = s.next /\ e = fed' /\ m = next
    BY <1>1, <1>3, <1>9
  <2>2. base <= m /\ base + l = e /\ f >= m /\ f <= e
    BY <1>1, <1>5, <1>9, <2>1
  <2>3. f - base >= 0 /\ f - base <= l
    BY <2>2
  <2>4. count = f - base
    BY <1>10, <2>1, <2>3 DEF Larger
  <2> QED BY <2>1, <2>2, <2>3, <2>4
<1>12. count \in 0..Len(s.window)
  BY <1>11
<1>13. /\ OfValues(window') /\ OfValues(out') /\ OfValues(given')
       /\ \/ /\ Len(window') = Len(s.window) - count
             /\ Len(given') + Len(out') = Len(given) + Len(out) + count
          \/ failed' = TRUE /\ window' = s.window /\ given' = given /\ out' = out
  BY <1>1, <1>7, <1>9, <1>10, <1>12, EmitDoes
<1>18. PICK a \in Nat, b \in Nat, c \in Nat : a = Len(window) /\ b = Len(given) /\ c = Len(out)
  BY <1>1
<1>16. PICK h \in Nat, w \in Nat, o \in Nat, g \in Nat, m \in Nat :
         h = Len(s.window) /\ w = Len(window') /\ o = Len(out') /\ g = Len(given') /\ m = s.next
  BY <1>9, <1>11, <1>13, LengthOf
<1>17. /\ h = a + n /\ count = m - base /\ base + h = fed' /\ m <= fed'
       /\ base = fed - a /\ base <= m /\ b + c = fed - a /\ fed' = fed + n /\ fed \in Nat /\ n \in Nat
  <2>1. h = a + n
    BY <1>3, <1>9, <1>16, <1>18
  <2>2. base = fed - a /\ b + c = fed - a
    BY <1>1, <1>5, <1>18
  <2>3. base + h = fed'
    BY <1>5, <1>9, <1>16
  <2>4. base <= m
    BY <1>1, <1>5, <1>9, <1>16
  <2> QED BY <1>1, <1>11, <1>16, <2>1, <2>2, <2>3, <2>4
<1>14. CASE Len(window') = Len(s.window) - count /\ Len(given') + Len(out') = Len(given) + Len(out) + count
  <2>1. /\ Len(given') + Len(out') = fed' - Len(window') /\ fed' - Len(window') <= s.next /\ s.next <= fed'
        /\ Len(window') < LongestWindow /\ fed' \in Nat
    <3>1. w = h - count /\ g + o = b + c + count /\ fed' - m < LongestWindow
      BY <1>9, <1>14, <1>16, <1>18
    <3>2. g + o = fed' - w /\ fed' - w <= m /\ m <= fed' /\ w < LongestWindow
      BY <1>8, <1>11, <1>17, <3>1
    <3> QED BY <1>1, <1>16, <3>2
  <2> QED BY <1>1, <1>7, <1>9, <1>13, <2>1 DEF DetInv, Reports
<1>15. CASE failed' = TRUE /\ window' = s.window /\ given' = given /\ out' = out
  <2>1. /\ Len(given') + Len(out') = fed' - Len(window') /\ fed' - Len(window') <= s.next /\ s.next <= fed'
        /\ fed' \in Nat
    <3>1. w = h /\ g = b /\ o = c
      BY <1>15, <1>16, <1>18
    <3>2. g + o = fed' - w /\ fed' - w <= m /\ m <= fed'
      BY <1>11, <1>17, <3>1
    <3> QED BY <1>1, <1>16, <3>2
  <2> QED BY <1>1, <1>7, <1>9, <1>13, <1>15, <2>1 DEF DetInv, Reports
<1> QED BY <1>13, <1>14, <1>15

LEMMA ListenNoMoreKeeps ==
  ASSUME DetInv, NEW room \in 1..MaxAsk, ListenNoMore(room)
  PROVE  DetInv' /\ Reports
<1>1. /\ room \in Nat /\ fed \in Nat /\ next \in Nat /\ finalized \in BOOLEAN
      /\ fed' = fed /\ kind' = kind /\ finalized' = TRUE
      /\ kind \in {"clean", "noisy"} /\ OfValues(window) /\ OfValues(out) /\ OfValues(given)
      /\ Len(window) \in Nat /\ Len(out) \in Nat /\ Len(given) \in Nat
      /\ Len(given) + Len(out) = fed - Len(window)
      /\ ~finalized => fed - Len(window) <= next /\ next <= fed
  <2>1. room \in Nat
    BY DetectorAssumption
  <2>2. fed' = fed /\ kind' = kind /\ finalized' = TRUE
    BY DEF ListenNoMore
  <2>3. /\ fed \in Nat /\ next \in Nat /\ finalized \in BOOLEAN
        /\ kind \in {"clean", "noisy"} /\ OfValues(window) /\ OfValues(out) /\ OfValues(given)
        /\ Len(given) + Len(out) = fed - Len(window)
        /\ ~finalized => fed - Len(window) <= next /\ next <= fed
    BY Zenon DEF DetInv
  <2>4. Len(window) \in Nat /\ Len(out) \in Nat /\ Len(given) \in Nat
    BY <2>3, LengthOf, Zenon
  <2> QED BY <2>1, <2>2, <2>3, <2>4, Zenon
<1>2. ASSUME finalized PROVE DetInv' /\ Reports
  <2>1. next' = next /\ Emit(window, 0, room)
    BY <1>2 DEF ListenNoMore
  <2>2. 0 \in 0..Len(window)
    BY <1>1
  <2>3. /\ OfValues(window') /\ OfValues(out') /\ OfValues(given')
        /\ \/ /\ Len(window') = Len(window) - 0
              /\ Len(given') + Len(out') = Len(given) + Len(out) + 0
           \/ failed' = TRUE /\ window' = window /\ given' = given /\ out' = out
    BY <1>1, <2>1, <2>2, EmitDoes
  <2>4. Len(given') + Len(out') = fed' - Len(window')
    BY <1>1, <2>3
  <2> QED BY <1>1, <1>2, <2>1, <2>3, <2>4 DEF DetInv, Reports
<1>3. ASSUME ~finalized PROVE DetInv' /\ Reports
  <2>1. PICK base \in Nat : base = FirstHeld
    BY <1>1 DEF FirstHeld
  <2>2. base = fed - Len(window) /\ base <= next /\ base + Len(window) = fed
    BY <1>1, <1>3, <2>1 DEF FirstHeld
  <2>3. PICK full : full = Slid(window, base, next, LongestWindow)
    OBVIOUS
  <2>4. PICK s : s = Slid(full.window, base, full.next, ShortestWindow)
    OBVIOUS
  <2>5. next' = s.next /\ Emit(s.window, Len(s.window), room)
    BY <1>3, <2>1, <2>3, <2>4 DEF ListenNoMore
  <2>6. LongestWindow \in Nat /\ ShortestWindow \in Nat
    BY <1>1, WindowLengths
  <2>7. OfValues(full.window) /\ Len(full.window) = Len(window) /\ full.next \in Nat /\ full.next >= next
    <3>1. fed \in Int /\ fed = base + Len(window) /\ base \in Int /\ base <= next /\ next \in Nat
      BY <1>1, <2>2
    <3>2. OfValues(window) /\ LongestWindow \in Nat /\ kind \in {"clean", "noisy"}
      BY <1>1, <2>6
    <3> QED BY <2>3, <3>1, <3>2, SlidIs
  <2>8. base <= full.next
    BY <1>1, <2>2, <2>7
  <2>9. OfValues(s.window) /\ Len(s.window) = Len(window) /\ s.next \in Nat
    <3>1. PICK x, y : x = full.window /\ y = full.next
      OBVIOUS
    <3>2. fed \in Int /\ fed = base + Len(x) /\ base \in Int /\ base <= y /\ y \in Nat
      BY <1>1, <2>2, <2>7, <2>8, <3>1
    <3>3. OfValues(x) /\ ShortestWindow \in Nat /\ kind \in {"clean", "noisy"} /\ Len(x) = Len(window)
      BY <1>1, <2>6, <2>7, <3>1
    <3>4. s = Slid(x, base, y, ShortestWindow)
      BY <2>4, <3>1
    <3>5. OfValues(s.window) /\ Len(s.window) = Len(x) /\ s.next \in Nat
      <4>1. PICK least \in Nat : least = ShortestWindow
        BY <3>3
      <4>2. PICK end \in Int : end = fed
        BY <3>2
      <4>3. base \in Int /\ base <= y /\ y \in Nat /\ end = base + Len(x)
        BY <3>2, <4>2
      <4>4. s = Slid(x, base, y, least)
        BY <3>4, <4>1
      <4>5. OfValues(x) /\ kind \in {"clean", "noisy"}
        BY <3>3
      <4> HIDE DEF OfValues
      <4> QED BY <4>1, <4>2, <4>3, <4>4, <4>5, SlidIs, SMTT(60)
    <3> QED BY <3>3, <3>5
  <2>10. Len(s.window) \in 0..Len(s.window)
    BY <1>1, <2>9
  <2>11. /\ OfValues(window') /\ OfValues(out') /\ OfValues(given')
         /\ \/ /\ Len(window') = Len(s.window) - Len(s.window)
               /\ Len(given') + Len(out') = Len(given) + Len(out) + Len(s.window)
            \/ failed' = TRUE /\ window' = s.window /\ given' = given /\ out' = out
    BY <1>1, <2>5, <2>9, <2>10, EmitDoes
  <2>12. Len(given') + Len(out') = fed' - Len(window')
    BY <1>1, <2>9, <2>11
  <2>13. ~failed' => window' = <<>>
    <3> SUFFICES ASSUME ~failed' PROVE window' = <<>>
      OBVIOUS
    <3>1. Len(window') = 0
      BY <1>1, <2>9, <2>11
    <3>2. PICK S : window' \in Seq(S)
      BY <2>11 DEF OfValues
    <3> QED BY <3>1, <3>2
  <2> QED BY <1>1, <2>5, <2>9, <2>11, <2>12, <2>13 DEF DetInv, Reports
<1> QED BY <1>2, <1>3

\* The invariant of a detector: what it holds is what it has not recorded, and
\* the next window starts in it.
THEOREM DetectorSafe == DetSpec => []DetInv
<1>1. DetInit => DetInv
  <2> SUFFICES ASSUME DetInit PROVE DetInv
    OBVIOUS
  <2>1. <<>> \in Seq({}) /\ Len(<<>>) = 0
    OBVIOUS
  <2>2. OfValues(<<>>)
    BY <2>1 DEF OfValues
  <2>3. /\ kind \in {"clean", "noisy"} /\ fed = 0 /\ next = 0 /\ finalized = FALSE
        /\ window = <<>> /\ out = <<>> /\ given = <<>>
    BY DEF DetInit
  <2>4. Len(given) + Len(out) = fed - Len(window) /\ fed - Len(window) <= next /\ next <= fed
    <3>1. Len(window) = 0 /\ Len(out) = 0 /\ Len(given) = 0
      BY <2>1, <2>3
    <3>2. fed = 0 /\ next = 0
      BY <2>3
    <3> QED BY <3>1, <3>2
  <2> QED BY <2>2, <2>3, <2>4 DEF DetInv
<1>2. DetInv /\ [DetNext]_detvars => DetInv'
  BY ListenKeeps, ListenNoMoreKeeps DEF DetNext, DetInv, detvars
<1> QED BY <1>1, <1>2, PTL DEF DetSpec

\* Whatever pieces a stream comes in, whatever room is offered and whichever
\* growth fails, each position no longer held has exactly one record.
THEOREM DetectorRecordsEach == DetSpec => []RecordEach
<1>1. DetInv => RecordEach
  <2> SUFFICES ASSUME DetInv PROVE Len(given \o out) = FirstHeld
    BY DEF RecordEach
  <2>1. Len(given \o out) = Len(given) + Len(out)
    BY Ended DEF DetInv
  <2> QED BY <2>1 DEF DetInv, FirstHeld
<1> QED BY <1>1, DetectorSafe, PTL

\* A call that had the memory it needed leaves less than the longest window
\* unreported, and the flush that ends the stream nothing, for windows, strides
\* and slides of every size.
THEOREM DetectorComplete == DetSpec => DetComplete
<1>1. DetInv /\ [DetNext]_detvars => [Reports]_detvars
  BY ListenKeeps, ListenNoMoreKeeps DEF DetNext
<1>2. [Reports]_detvars <=>
      [~failed' => IF finalized' THEN finalized \/ window' = <<>>
                   ELSE Len(window') < LongestWindow]_detvars
  BY DEF Reports
<1> QED BY <1>1, <1>2, DetectorSafe, PTL DEF DetSpec, DetComplete

-----------------------------------------------------------------------------
(* The edit distance.                                                      *)
\* f starts with `first`, and steps from a place to the next.
Recurs(f, n, first, step) == f[0] = first /\ \A c \in 1..n : f[c] = step[<<c, f[c-1]>>]

\* A recursion along 0..n, whose step is a function of the place and of what
\* stands in front of it, has a result.
LEMMA Recursion ==
  ASSUME NEW n \in Nat, NEW S, NEW first \in S, NEW step, step \in [(1..n) \X S -> S]
  PROVE  \E f \in [0..n -> S] : Recurs(f, n, first, step)
<1> DEFINE Upto(f, k) == f[0] = first /\ \A c \in 1..n : c <= k => f[c] = step[<<c, f[c-1]>>]
           G == {k \in Nat : k <= n => \E f \in [0..n -> S] : Upto(f, k)}
<1>1. 0 \in G
  <2>1. [c \in 0..n |-> first] \in [0..n -> S] /\ Upto([c \in 0..n |-> first], 0)
    OBVIOUS
  <2> QED BY <2>1
<1>2. ASSUME NEW k \in Nat, k \in G PROVE k + 1 \in G
  <2> SUFFICES ASSUME k + 1 <= n PROVE \E f \in [0..n -> S] : Upto(f, k + 1)
    OBVIOUS
  <2>1. PICK f \in [0..n -> S] : Upto(f, k)
    BY <1>2
  <2>2. k + 1 \in 1..n /\ k \in 0..n /\ f[k] \in S /\ <<k + 1, f[k]>> \in (1..n) \X S
    BY <2>1
  <2>3. PICK v \in S : v = step[<<k + 1, f[k]>>]
    BY <2>2
  <2> DEFINE g == [f EXCEPT ![k + 1] = v]
  <2>4. g \in [0..n -> S] /\ \A c \in 0..n : g[c] = IF c = k + 1 THEN v ELSE f[c]
    BY <2>1, <2>2, <2>3
  <2> HIDE DEF g
  <2>5. g[0] = first
    BY <2>1, <2>4
  <2>6. ASSUME NEW c \in 1..n, c <= k + 1 PROVE g[c] = step[<<c, g[c-1]>>]
    <3>1. c \in 0..n /\ c - 1 \in 0..n /\ c - 1 # k + 1
      BY <2>6
    <3>2. g[c-1] = f[c-1]
      BY <2>4, <3>1
    <3>3. CASE c = k + 1
      <4>1. c - 1 = k /\ g[c] = v
        BY <2>4, <3>1, <3>3
      <4> QED BY <2>3, <3>2, <3>3, <4>1
    <3>4. CASE c # k + 1
      BY <2>1, <2>4, <2>6, <3>1, <3>2, <3>4
    <3> QED BY <3>3, <3>4
  <2> QED BY <2>4, <2>5, <2>6
<1>3. n \in G
  <2> HIDE DEF G
  <2> QED BY <1>1, <1>2, SetInduction
<1> QED BY <1>3 DEF Recurs

\* The scratch has a number in every cell.
RowsOfNumbers ==
  /\ band \in Nat /\ LenA \in Nat /\ LenB \in Nat
  /\ prev \in [0..LenB -> Nat] /\ cur \in [0..LenB -> Nat]

\* What a cell of row r costs when `before` stands in front of it.
CellCost(r, c, before) ==
  IF c \in Low(r)..High(r)
  THEN Least(Least(prev[c-1] + (IF seqA[r] # seqB[c] THEN 1 ELSE 0), prev[c] + 1), before + 1)
  ELSE Cleared(r)[c]

LEMMA ClearedIs ==
  ASSUME RowsOfNumbers, EditAssumption, NEW r \in Nat
  PROVE  \A c \in 0..LenB : Cleared(r)[c] \in Nat
  BY DEF Cleared, RowsOfNumbers, EditAssumption

LEMMA BandEdges ==
  ASSUME RowsOfNumbers, NEW r \in Nat
  PROVE  /\ Low(r) \in Nat /\ Low(r) >= 1 /\ Low(r) >= r - band /\ (Low(r) = 1 \/ Low(r) = r - band)
         /\ High(r) \in Nat /\ High(r) <= LenB /\ High(r) <= r + band
         /\ High(r) = LenB \/ High(r) = r + band
  BY DEF Low, High, Least, Most, RowsOfNumbers

LEMMA CostIs ==
  ASSUME RowsOfNumbers, EditAssumption, NEW r \in Nat, NEW c \in 0..LenB,
         NEW before, c >= 1 => before \in Nat
  PROVE  CellCost(r, c, before) \in Nat
<1>1. CASE c \in Low(r)..High(r)
  <2>0. Low(r) \in Nat /\ Low(r) >= 1 /\ High(r) \in Nat /\ LenB \in Nat
    BY BandEdges DEF RowsOfNumbers
  <2>1. c >= 1 /\ c - 1 \in 0..LenB /\ before \in Nat
    BY <1>1, <2>0
  <2>2. prev[c-1] \in Nat /\ prev[c] \in Nat
    BY <2>1 DEF RowsOfNumbers
  <2> QED BY <1>1, <2>1, <2>2 DEF CellCost, Least
<1>2. CASE c \notin Low(r)..High(r)
  BY <1>2, ClearedIs DEF CellCost
<1> QED BY <1>1, <1>2

\* A new row is well defined: each cell by the one in front of it.
LEMMA RowFromIs ==
  ASSUME RowsOfNumbers, EditAssumption, NEW r \in Nat
  PROVE  /\ RowFrom(r) \in [0..LenB -> Nat]
         /\ \A c \in 0..LenB : RowFrom(r)[c] = CellCost(r, c, RowFrom(r)[c-1])
<1> DEFINE Row(f) == [c \in 0..LenB |-> CellCost(r, c, f[c-1])]
           first == CellCost(r, 0, 0)
           step == [q \in (1..LenB) \X Nat |-> CellCost(r, q[1], q[2])]
<1>0. LenB \in Nat
  BY DEF RowsOfNumbers
<1>1. first \in Nat
  BY <1>0, CostIs
<1>2. step \in [(1..LenB) \X Nat -> Nat]
  <2>1. ASSUME NEW q \in (1..LenB) \X Nat PROVE CellCost(r, q[1], q[2]) \in Nat
    BY <1>0, CostIs
  <2> QED BY <2>1
<1>3. PICK f \in [0..LenB -> Nat] : f[0] = first /\ \A c \in 1..LenB : f[c] = step[<<c, f[c-1]>>]
  <2>1. PICK n \in Nat : n = LenB
    BY <1>0
  <2>2. PICK x \in Nat : x = first
    BY <1>1
  <2>3. PICK s : s = step /\ s \in [(1..n) \X Nat -> Nat]
    BY <1>2, <2>1
  <2>4. PICK f \in [0..n -> Nat] : Recurs(f, n, x, s)
    BY <2>3, Recursion
  <2> HIDE DEF first, step
  <2> QED BY <2>1, <2>2, <2>3, <2>4 DEF Recurs
<1>4. f = Row(f)
  <2>1. ASSUME NEW c \in 0..LenB PROVE f[c] = CellCost(r, c, f[c-1])
    <3>1. CASE c = 0
      <4>1. ~(0 \in Low(r)..High(r))
        BY BandEdges
      <4> QED BY <1>3, <3>1, <4>1 DEF CellCost
    <3>2. CASE c # 0
      <4>1. c \in 1..LenB /\ c - 1 \in 0..LenB
        BY <1>0, <3>2
      <4>2. <<c, f[c-1]>> \in (1..LenB) \X Nat
        BY <4>1
      <4>3. step[<<c, f[c-1]>>] = CellCost(r, c, f[c-1])
        <5> HIDE DEF CellCost
        <5> QED BY <4>2
      <4> QED BY <1>3, <4>1, <4>3
    <3> QED BY <3>1, <3>2
  <2> QED BY <2>1
<1>5. RowFrom(r) = CHOOSE g : g = Row(g)
  BY Zenon DEF RowFrom, CellCost
<1>6. PICK g : g = RowFrom(r)
  OBVIOUS
<1>7. g = Row(g)
  <2> HIDE DEF Row
  <2> QED BY <1>4, <1>5, <1>6
<1>8. DOMAIN g = 0..LenB /\ \A c \in 0..LenB : g[c] = CellCost(r, c, g[c-1])
  <2> HIDE DEF CellCost
  <2> QED BY <1>7
<1>9. \A c \in 0..LenB : g[c] \in Nat
  <2> DEFINE G == {n \in Nat : n <= LenB => g[n] \in Nat}
  <2>1. 0 \in G
    <3>1. g[0] = CellCost(r, 0, g[0-1]) /\ 0 \in 0..LenB
      BY <1>0, <1>8
    <3>2. CellCost(r, 0, g[0-1]) \in Nat
      BY <3>1, CostIs
    <3> QED BY <3>1, <3>2
  <2>2. ASSUME NEW n \in Nat, n \in G PROVE n + 1 \in G
    <3> SUFFICES ASSUME n + 1 <= LenB PROVE g[n + 1] \in Nat
      OBVIOUS
    <3>1. n + 1 \in 0..LenB /\ (n + 1) - 1 = n /\ g[n] \in Nat
      BY <1>0, <2>2
    <3>2. g[n + 1] = CellCost(r, n + 1, g[n])
      BY <1>8, <3>1
    <3>3. CellCost(r, n + 1, g[n]) \in Nat
      BY <3>1, CostIs
    <3> QED BY <3>2, <3>3
  <2>3. Nat \subseteq G
    <3> HIDE DEF G
    <3> QED BY <2>1, <2>2, SetInduction
  <2> QED BY <1>0, <2>3
<1> QED
  <2>1. g = [c \in 0..LenB |-> g[c]]
    BY <1>7, <1>8
  <2>2. g \in [0..LenB -> Nat]
    BY <1>9, <2>1
  <2> QED BY <1>6, <1>8, <2>2

\* What stands at <<i, j>> of the table of edit distances, by its neighbours.
EditAt(a, b, d, i, j) ==
  IF i = 0 THEN j
  ELSE IF j = 0 THEN i
  ELSE IF a[i] = b[j] THEN d[<<i-1, j-1>>]
  ELSE 1 + Least(d[<<i-1, j-1>>], Least(d[<<i-1, j>>], d[<<i, j-1>>]))

\* The same by the line above and the cell in front.
Across(a, b, i, line, m) ==
  [q \in (1..m) \X Nat |->
     IF a[i] = b[q[1]] THEN line[q[1]-1] ELSE 1 + Least(line[q[1]-1], Least(line[q[1]], q[2]))]

LEMMA LineExists ==
  ASSUME NEW a, NEW b, NEW m \in Nat, NEW i \in Nat, NEW line, line \in [0..m -> Nat]
  PROVE  \E g \in [0..m -> Nat] : Recurs(g, m, i, Across(a, b, i, line, m))
<1>1. ASSUME NEW q \in (1..m) \X Nat
      PROVE  (IF a[i] = b[q[1]] THEN line[q[1]-1]
              ELSE 1 + Least(line[q[1]-1], Least(line[q[1]], q[2]))) \in Nat
  <2>1. q[1] \in 0..m /\ q[1] - 1 \in 0..m /\ q[2] \in Nat
    OBVIOUS
  <2>2. line[q[1]-1] \in Nat /\ line[q[1]] \in Nat
    BY <2>1
  <2>3. \A x, y, z \in Nat : 1 + Least(x, Least(y, z)) \in Nat
    BY DEF Least
  <2> QED BY <2>1, <2>2, <2>3
<1>2. Across(a, b, i, line, m) \in [(1..m) \X Nat -> Nat]
  BY <1>1 DEF Across
<1>3. PICK s : s = Across(a, b, i, line, m) /\ s \in [(1..m) \X Nat -> Nat]
  BY <1>2
<1>4. \E g \in [0..m -> Nat] : Recurs(g, m, i, s)
  BY <1>3, Recursion
<1> QED BY <1>3, <1>4

\* The table is well defined: each cell by its neighbours.
LEMMA TableIs ==
  ASSUME NEW a, NEW b, Len(a) \in Nat, Len(b) \in Nat
  PROVE  \A i \in 0..Len(a), j \in 0..Len(b) :
           EditTable(a, b)[<<i, j>>] = EditAt(a, b, EditTable(a, b), i, j)
<1>1. PICK n \in Nat, m \in Nat : n = Len(a) /\ m = Len(b)
  OBVIOUS
<1> DEFINE S == [0..m -> Nat]
           first == [j \in 0..m |-> j]
           Under(i, line) == CHOOSE g \in S : Recurs(g, m, i, Across(a, b, i, line, m))
           step == [q \in (1..n) \X S |-> Under(q[1], q[2])]
           Table(d) == [p \in (0..n) \X (0..m) |-> EditAt(a, b, d, p[1], p[2])]
<1>2. ASSUME NEW i \in Nat, NEW line, line \in S
      PROVE  Under(i, line) \in S /\ Recurs(Under(i, line), m, i, Across(a, b, i, line, m))
  <2>1. \E g \in S : Recurs(g, m, i, Across(a, b, i, line, m))
    BY <1>2, LineExists
  <2> HIDE DEF S
  <2> QED BY <2>1, Zenon
<1>3. first \in S
  OBVIOUS
<1>4. step \in [(1..n) \X S -> S]
  <2>1. ASSUME NEW q \in (1..n) \X S PROVE Under(q[1], q[2]) \in S
    <3>1. q[1] \in Nat /\ q[2] \in S
      OBVIOUS
    <3> HIDE DEF S, Under
    <3> QED BY <1>2, <3>1
  <2> HIDE DEF S, Under
  <2> QED BY <2>1
<1>5. PICK R \in [0..n -> S] : Recurs(R, n, first, step)
  <2> HIDE DEF S, first, step
  <2> QED BY <1>3, <1>4, Recursion
<1>6. \A i \in 0..n : R[i] \in S
  BY <1>5
<1>7. ASSUME NEW i \in 1..n
      PROVE  R[i][0] = i /\ \A j \in 1..m : R[i][j] = Across(a, b, i, R[i-1], m)[<<j, R[i][j-1]>>]
  <2>1. i - 1 \in 0..n /\ i \in Nat
    OBVIOUS
  <2>2. R[i-1] \in S
    BY <1>6, <2>1
  <2>3. R[i] = step[<<i, R[i-1]>>] /\ <<i, R[i-1]>> \in (1..n) \X S
    BY <1>5, <2>2 DEF Recurs
  <2>4. R[i] = Under(i, R[i-1])
    <3> HIDE DEF S, Under
    <3> QED BY <2>3
  <2>5. Recurs(R[i], m, i, Across(a, b, i, R[i-1], m))
    <3> HIDE DEF S, Under
    <3> QED BY <1>2, <2>1, <2>2, <2>4
  <2> QED BY <2>5 DEF Recurs
<1> DEFINE d == [p \in (0..n) \X (0..m) |-> R[p[1]][p[2]]]
<1>8. ASSUME NEW i \in 0..n, NEW j \in 0..m PROVE d[<<i, j>>] = R[i][j]
  OBVIOUS
<1>9. ASSUME NEW i \in 0..n, NEW j \in 0..m PROVE d[<<i, j>>] = EditAt(a, b, d, i, j)
  <2> HIDE DEF d
  <2>1. CASE i = 0
    <3>1. R[0] = first
      BY <1>5 DEF Recurs
    <3> QED BY <1>8, <2>1, <3>1 DEF EditAt
  <2>2. CASE i # 0 /\ j = 0
    <3>1. i \in 1..n
      BY <2>2
    <3>2. R[i][0] = i
      BY <1>7, <3>1
    <3> QED BY <1>8, <2>2, <3>2 DEF EditAt
  <2>3. CASE i # 0 /\ j # 0
    <3>1. i \in 1..n /\ j \in 1..m /\ i - 1 \in 0..n /\ j - 1 \in 0..m
      BY <2>3
    <3>2. R[i][j] = Across(a, b, i, R[i-1], m)[<<j, R[i][j-1]>>]
      BY <1>7, <3>1
    <3>3. R[i] \in S /\ R[i][j-1] \in Nat /\ <<j, R[i][j-1]>> \in (1..m) \X Nat
      BY <1>6, <3>1
    <3>4. R[i][j] = IF a[i] = b[j] THEN R[i-1][j-1]
                    ELSE 1 + Least(R[i-1][j-1], Least(R[i-1][j], R[i][j-1]))
      BY <3>2, <3>3 DEF Across
    <3>5. /\ d[<<i, j>>] = R[i][j] /\ d[<<i-1, j-1>>] = R[i-1][j-1]
          /\ d[<<i-1, j>>] = R[i-1][j] /\ d[<<i, j-1>>] = R[i][j-1]
      BY <1>8, <3>1
    <3> QED BY <2>3, <3>4, <3>5 DEF EditAt
  <2> QED BY <2>1, <2>2, <2>3
<1>10. d = Table(d)
  <2>1. ASSUME NEW p \in (0..n) \X (0..m) PROVE d[p] = EditAt(a, b, d, p[1], p[2])
    <3>1. p[1] \in 0..n /\ p[2] \in 0..m /\ p = <<p[1], p[2]>>
      OBVIOUS
    <3> HIDE DEF d
    <3> QED BY <1>9, <3>1
  <2>2. d = [p \in (0..n) \X (0..m) |-> d[p]]
    OBVIOUS
  <2> HIDE DEF d
  <2> QED BY <2>1, <2>2
<1>11. EditTable(a, b) = CHOOSE e : e = Table(e)
  BY <1>1, Zenon DEF EditTable, EditAt
<1>12. PICK e : e = EditTable(a, b)
  OBVIOUS
<1>13. e = Table(e)
  <2> HIDE DEF Table, d
  <2> QED BY <1>10, <1>11, <1>12
<1> QED
  <2>1. ASSUME NEW i \in 0..n, NEW j \in 0..m PROVE e[<<i, j>>] = EditAt(a, b, e, i, j)
    <3>1. <<i, j>> \in (0..n) \X (0..m)
      OBVIOUS
    <3> HIDE DEF EditAt
    <3>2. Table(e)[<<i, j>>] = EditAt(a, b, e, i, j)
      BY <3>1
    <3> HIDE DEF Table
    <3> QED BY <1>13, <3>2
  <2> QED BY <1>1, <1>12, <2>1

\* What the band rests on: how far neighbours in the table can be apart, and
\* each cell from the diagonal and the edges.
Smooth(d, i, j) ==
  /\ d[<<i, j>>] \in Nat
  /\ i - j <= d[<<i, j>>] /\ j - i <= d[<<i, j>>] /\ d[<<i, j>>] <= Most(i, j)
  /\ i > 0 => d[<<i, j>>] <= d[<<i-1, j>>] + 1 /\ d[<<i-1, j>>] <= d[<<i, j>>] + 1
  /\ j > 0 => d[<<i, j>>] <= d[<<i, j-1>>] + 1 /\ d[<<i, j-1>>] <= d[<<i, j>>] + 1
  /\ i > 0 /\ j > 0 => d[<<i-1, j-1>>] <= d[<<i, j>>] /\ d[<<i, j>>] <= d[<<i-1, j-1>>] + 1

\* A cell is as smooth as its neighbours above and in front.
LEMMA SmoothAt ==
  ASSUME NEW a, NEW b, NEW d, NEW i \in Nat, NEW j \in Nat, d[<<i, j>>] = EditAt(a, b, d, i, j),
         i = 0 /\ j > 0 => d[<<0, j-1>>] = j - 1,
         j = 0 /\ i > 0 => d[<<i-1, 0>>] = i - 1,
         i > 0 /\ j > 0 => Smooth(d, i-1, j) /\ Smooth(d, i, j-1) /\ Smooth(d, i-1, j-1)
  PROVE  Smooth(d, i, j)
<1>1. CASE i = 0
  BY <1>1 DEF EditAt, Smooth, Most
<1>2. CASE i # 0 /\ j = 0
  BY <1>2 DEF EditAt, Smooth, Most
<1>3. CASE i > 0 /\ j > 0
  <2>1. PICK x \in Nat : x = d[<<i-1, j-1>>]
    BY <1>3 DEF Smooth
  <2>2. PICK u \in Nat : u = d[<<i-1, j>>]
    BY <1>3 DEF Smooth
  <2>3. PICK l \in Nat : l = d[<<i, j-1>>]
    BY <1>3 DEF Smooth
  <2>4. PICK e : e = d[<<i, j>>]
    OBVIOUS
  <2>5. u <= x + 1 /\ x <= u + 1 /\ (i - 1) - j <= u /\ j - (i - 1) <= u /\ u <= Most(i - 1, j)
    BY <1>3, <2>1, <2>2 DEF Smooth
  <2>6. l <= x + 1 /\ x <= l + 1 /\ i - (j - 1) <= l /\ (j - 1) - i <= l /\ l <= Most(i, j - 1)
    BY <1>3, <2>1, <2>3 DEF Smooth
  <2>7. i - j <= x /\ j - i <= x /\ x <= Most(i - 1, j - 1)
    <3>1. (i - 1) - (j - 1) <= x /\ (j - 1) - (i - 1) <= x /\ x <= Most(i - 1, j - 1)
      BY <1>3, <2>1 DEF Smooth
    <3> QED BY <3>1
  <2>8. e = IF a[i] = b[j] THEN x ELSE 1 + Least(x, Least(u, l))
    BY <1>3, <2>1, <2>2, <2>3, <2>4 DEF EditAt
  <2>9. e \in Nat /\ x <= e /\ e <= x + 1 /\ e <= u + 1 /\ u <= e + 1 /\ e <= l + 1 /\ l <= e + 1
    BY <2>5, <2>6, <2>8 DEF Least
  <2>10. i - j <= e /\ j - i <= e
    BY <2>5, <2>6, <2>7, <2>8 DEF Least
  <2>11. e <= Most(i, j)
    BY <1>3, <2>7, <2>9 DEF Most
  <2> QED BY <1>3, <2>1, <2>2, <2>3, <2>4, <2>9, <2>10, <2>11 DEF Smooth
<1> QED BY <1>1, <1>2, <1>3

LEMMA TableSmooth ==
  ASSUME NEW a, NEW b, Len(a) \in Nat, Len(b) \in Nat
  PROVE  \A i \in 0..Len(a), j \in 0..Len(b) : Smooth(EditTable(a, b), i, j)
<1>1. PICK n \in Nat, m \in Nat : n = Len(a) /\ m = Len(b)
  OBVIOUS
<1>2. PICK d : d = EditTable(a, b)
  OBVIOUS
<1>3. \A i \in 0..n, j \in 0..m : d[<<i, j>>] = EditAt(a, b, d, i, j)
  BY <1>1, <1>2, TableIs
<1> DEFINE G == {k \in Nat : \A i \in 0..n, j \in 0..m : i + j <= k => Smooth(d, i, j)}
<1>4. \A j \in 0..m : d[<<0, j>>] = j
  <2>1. \A j \in 0..m : d[<<0, j>>] = EditAt(a, b, d, 0, j)
    BY <1>3
  <2> QED BY <2>1 DEF EditAt
<1>5. \A i \in 0..n : d[<<i, 0>>] = i
  <2>1. \A i \in 0..n : d[<<i, 0>>] = EditAt(a, b, d, i, 0)
    BY <1>3
  <2> QED BY <2>1 DEF EditAt
<1>6. ASSUME NEW i \in 0..n, NEW j \in 0..m,
             i > 0 /\ j > 0 => Smooth(d, i-1, j) /\ Smooth(d, i, j-1) /\ Smooth(d, i-1, j-1)
      PROVE  Smooth(d, i, j)
  <2>1. i \in Nat /\ j \in Nat /\ d[<<i, j>>] = EditAt(a, b, d, i, j)
    BY <1>3
  <2>2. i = 0 /\ j > 0 => d[<<0, j-1>>] = j - 1
    BY <1>4
  <2>3. j = 0 /\ i > 0 => d[<<i-1, 0>>] = i - 1
    BY <1>5
  <2> QED BY <1>6, <2>1, <2>2, <2>3, SmoothAt
<1>7. 0 \in G
  <2>1. ASSUME NEW i \in 0..n, NEW j \in 0..m, i + j <= 0 PROVE Smooth(d, i, j)
    <3>1. i = 0 /\ j = 0
      BY <2>1
    <3> QED BY <1>6, <3>1
  <2> QED BY <2>1
<1>8. ASSUME NEW k \in Nat, k \in G PROVE k + 1 \in G
  <2>1. ASSUME NEW i \in 0..n, NEW j \in 0..m, i + j <= k + 1 PROVE Smooth(d, i, j)
    <3>1. ASSUME i > 0, j > 0 PROVE Smooth(d, i-1, j) /\ Smooth(d, i, j-1) /\ Smooth(d, i-1, j-1)
      <4>1. i - 1 \in 0..n /\ j - 1 \in 0..m /\ (i - 1) + j <= k /\ i + (j - 1) <= k /\ (i - 1) + (j - 1) <= k
        BY <2>1, <3>1
      <4> QED BY <1>8, <4>1
    <3> QED BY <1>6, <3>1
  <2> QED BY <2>1
<1>9. Nat \subseteq G
  <2> HIDE DEF G
  <2> QED BY <1>7, <1>8, SetInduction
<1>10. n + m \in G
  <2> HIDE DEF G
  <2> QED BY <1>9
<1>11. ASSUME NEW i \in 0..n, NEW j \in 0..m PROVE Smooth(d, i, j)
  <2>1. i + j <= n + m
    OBVIOUS
  <2> QED BY <1>10, <2>1
<1> QED BY <1>1, <1>2, <1>11

\* Where the symbols agree nothing beats going on along the diagonal, so the
\* code may take the least of the three ways without asking.
LEMMA ThreeWays ==
  ASSUME NEW a, NEW b, Len(a) \in Nat, Len(b) \in Nat, NEW i \in 1..Len(a), NEW j \in 1..Len(b)
  PROVE  /\ EditTable(a, b)[<<i-1, j-1>>] \in Nat
         /\ EditTable(a, b)[<<i-1, j>>] \in Nat
         /\ EditTable(a, b)[<<i, j-1>>] \in Nat
         /\ EditTable(a, b)[<<i, j>>] =
              Least(Least(EditTable(a, b)[<<i-1, j-1>>] + (IF a[i] # b[j] THEN 1 ELSE 0),
                          EditTable(a, b)[<<i-1, j>>] + 1),
                    EditTable(a, b)[<<i, j-1>>] + 1)
<1>1. PICK d : d = EditTable(a, b)
  OBVIOUS
<1>2. i \in 0..Len(a) /\ j \in 0..Len(b) /\ i - 1 \in 0..Len(a) /\ j - 1 \in 0..Len(b) /\ i > 0 /\ j > 0
  OBVIOUS
<1>3. d[<<i, j>>] = EditAt(a, b, d, i, j)
  BY <1>1, <1>2, TableIs
<1>4. Smooth(d, i, j) /\ Smooth(d, i-1, j) /\ Smooth(d, i, j-1) /\ Smooth(d, i-1, j-1)
  BY <1>1, <1>2, TableSmooth
<1>5. PICK x \in Nat, u \in Nat, l \in Nat, e \in Nat :
        x = d[<<i-1, j-1>>] /\ u = d[<<i-1, j>>] /\ l = d[<<i, j-1>>] /\ e = d[<<i, j>>]
  BY <1>4 DEF Smooth
<1>6. x <= e /\ e <= x + 1 /\ e <= u + 1 /\ u <= e + 1 /\ e <= l + 1 /\ l <= e + 1
  BY <1>2, <1>4, <1>5 DEF Smooth
<1>7. e = IF a[i] = b[j] THEN x ELSE 1 + Least(x, Least(u, l))
  BY <1>2, <1>3, <1>5 DEF EditAt
<1>8. e = Least(Least(x + (IF a[i] # b[j] THEN 1 ELSE 0), u + 1), l + 1)
  <2>1. CASE a[i] = b[j]
    BY <1>6, <1>7, <2>1 DEF Least
  <2>2. CASE a[i] # b[j]
    BY <1>6, <1>7, <2>2 DEF Least
  <2> QED BY <2>1, <2>2
<1> QED BY <1>1, <1>5, <1>8

\* A cell is right if it is the distance where that is within the band, and
\* past the band where that is not.
Agrees(cell, e) == IF e <= band THEN cell = e ELSE cell > band

\* Row r is right as far as the next row reads it.
RightInBand(line, r) ==
  \A c \in 0..LenB : r - band <= c /\ c <= r + band + 1 =>
    Agrees(line[c], EditTable(seqA, seqB)[<<r, c>>])

\* The least of three right cells is right.
LEMMA LeastAgrees ==
  ASSUME band \in Nat, NEW x \in Nat, NEW u \in Nat, NEW l \in Nat,
         NEW xx \in Nat, NEW uu \in Nat, NEW ll \in Nat, NEW other \in {0, 1},
         Agrees(xx, x), Agrees(uu, u), Agrees(ll, l)
  PROVE  Agrees(Least(Least(xx + other, uu + 1), ll + 1), Least(Least(x + other, u + 1), l + 1))
<1>1. PICK w \in Nat : w = band
  OBVIOUS
<1>2. /\ IF x <= w THEN xx = x ELSE xx > w
      /\ IF u <= w THEN uu = u ELSE uu > w
      /\ IF l <= w THEN ll = l ELSE ll > w
  BY <1>1 DEF Agrees
<1>3. PICK e \in Nat, v \in Nat : /\ e = Least(Least(x + other, u + 1), l + 1)
                                  /\ v = Least(Least(xx + other, uu + 1), ll + 1)
  BY DEF Least
<1>4. IF e <= w THEN v = e ELSE v > w
  BY <1>2, <1>3 DEF Least
<1> QED BY <1>1, <1>3, <1>4 DEF Agrees

\* From a right row the next is right: the cells at the edge of the band are
\* infinite, and the distance there is past the band.
LEMMA RowIsRight ==
  ASSUME RowsOfNumbers, EditAssumption, band < Infinite,
         NEW r \in 1..LenA, RightInBand(prev, r - 1)
  PROVE  RightInBand(RowFrom(r), r)
<1>1. /\ r \in Nat /\ r - 1 \in Nat /\ band \in Nat /\ LenA \in Nat /\ LenB \in Nat /\ Infinite \in Nat
      /\ \A c \in 0..LenB : prev[c] \in Nat
  BY DEF RowsOfNumbers, EditAssumption
<1>2. PICK row : row = RowFrom(r)
  OBVIOUS
<1>3. PICK lo \in Nat, hi \in Nat : lo = Low(r) /\ hi = High(r)
  BY <1>1, BandEdges
<1>4. /\ lo >= 1 /\ lo >= r - band /\ (lo = 1 \/ lo = r - band)
      /\ hi <= LenB /\ hi <= r + band /\ (hi = LenB \/ hi = r + band)
  BY <1>1, <1>3, BandEdges
<1>5. PICK d : d = EditTable(seqA, seqB)
  OBVIOUS
<1>6. \A i \in 0..LenA, j \in 0..LenB : Smooth(d, i, j)
  BY <1>1, <1>5, TableSmooth DEF LenA, LenB
<1>7. ASSUME NEW c \in 0..LenB PROVE row[c] \in Nat /\ row[c] = CellCost(r, c, row[c-1])
  BY <1>1, <1>2, RowFromIs
<1>8. \A c \in 0..LenB : (r - 1) - band <= c /\ c <= (r - 1) + band + 1 => Agrees(prev[c], d[<<r-1, c>>])
  BY <1>5 DEF RightInBand
<1> DEFINE Wanted(c) == lo - 1 <= c /\ c <= r + band + 1
           G == {c \in Nat : c <= LenB /\ Wanted(c) => Agrees(row[c], d[<<r, c>>])}
<1>9. ASSUME NEW c \in 0..LenB, Wanted(c), c \notin lo..hi PROVE Agrees(row[c], d[<<r, c>>])
  <2>1. row[c] = Cleared(r)[c]
    BY <1>3, <1>7, <1>9 DEF CellCost
  <2>2. r - c <= d[<<r, c>>] /\ c - r <= d[<<r, c>>] /\ d[<<r, c>>] <= Most(r, c) /\ d[<<r, c>>] \in Nat
    <3>1. r \in 0..LenA
      BY <1>1
    <3>2. Smooth(d, r, c)
      BY <1>6, <3>1
    <3> QED BY <3>2 DEF Smooth
  <2>3. CASE r <= band /\ c = 0
    <3>1. row[c] = r
      BY <1>1, <2>1, <2>3 DEF Cleared
    <3>2. d[<<r, c>>] = r
      BY <1>1, <2>2, <2>3 DEF Most
    <3> QED BY <1>1, <2>3, <3>1, <3>2 DEF Agrees
  <2>4. CASE ~(r <= band /\ c = 0)
    <3>1. RightBound(hi) \in Nat /\ RightBound(hi) >= hi /\ (hi + 1 <= LenB => RightBound(hi) = hi + 1)
      BY <1>1, <1>4 DEF RightBound, Least
    <3>2. c = lo - 1 \/ (c = hi + 1 /\ hi = r + band)
      BY <1>1, <1>4, <1>9
    <3>3. c \in (lo - 1)..RightBound(hi)
      BY <1>1, <1>4, <3>1, <3>2
    <3>4. row[c] = Infinite
      BY <1>1, <1>3, <2>1, <2>4, <3>3 DEF Cleared
    <3>5. d[<<r, c>>] > band
      <4>1. CASE c = lo - 1
        <5>1. r - c > band
          BY <1>1, <1>4, <2>4, <4>1
        <5> QED BY <1>1, <2>2, <5>1
      <4>2. CASE c = hi + 1 /\ hi = r + band
        <5>1. c - r > band
          BY <1>1, <4>2
        <5> QED BY <1>1, <2>2, <5>1
      <4> QED BY <3>2, <4>1, <4>2
    <3>6. ~(d[<<r, c>>] <= band) /\ row[c] > band
      BY <1>1, <2>2, <3>4, <3>5
    <3> QED BY <3>6 DEF Agrees
  <2> QED BY <2>3, <2>4
<1>10. ASSUME NEW c \in 0..LenB, c \in lo..hi, Agrees(row[c-1], d[<<r, c-1>>])
       PROVE  Agrees(row[c], d[<<r, c>>])
  <2>1. /\ c >= 1 /\ c \in 1..LenB /\ c - 1 \in 0..LenB
        /\ (r - 1) - band <= c - 1 /\ c - 1 <= (r - 1) + band + 1
        /\ (r - 1) - band <= c /\ c <= (r - 1) + band + 1
    <3>1. c \in Nat /\ lo <= c /\ c <= hi /\ c <= LenB
      BY <1>1, <1>10
    <3>2. c >= 1 /\ r - band <= c /\ c <= r + band
      BY <1>1, <1>4, <3>1
    <3> QED BY <1>1, <3>1, <3>2
  <2>2. PICK xx \in Nat, uu \in Nat, ll \in Nat : xx = prev[c-1] /\ uu = prev[c] /\ ll = row[c-1]
    BY <1>1, <1>7, <2>1
  <2>3. PICK other \in {0, 1} : other = IF seqA[r] # seqB[c] THEN 1 ELSE 0
    OBVIOUS
  <2>4. row[c] = Least(Least(xx + other, uu + 1), ll + 1)
    BY <1>3, <1>7, <1>10, <2>2, <2>3 DEF CellCost
  <2>5. PICK x \in Nat, u \in Nat, l \in Nat :
          /\ x = d[<<r-1, c-1>>] /\ u = d[<<r-1, c>>] /\ l = d[<<r, c-1>>]
          /\ d[<<r, c>>] = Least(Least(x + other, u + 1), l + 1)
    <3>1. r \in 1..Len(seqA) /\ Len(seqA) \in Nat /\ c \in 1..Len(seqB) /\ Len(seqB) \in Nat
      BY <1>1, <2>1 DEF LenA, LenB
    <3>2. /\ d[<<r-1, c-1>>] \in Nat /\ d[<<r-1, c>>] \in Nat /\ d[<<r, c-1>>] \in Nat
          /\ d[<<r, c>>] = Least(Least(d[<<r-1, c-1>>] + (IF seqA[r] # seqB[c] THEN 1 ELSE 0),
                                      d[<<r-1, c>>] + 1), d[<<r, c-1>>] + 1)
      BY <1>5, <3>1, ThreeWays
    <3> QED BY <2>3, <3>2
  <2>6. Agrees(xx, x) /\ Agrees(uu, u) /\ Agrees(ll, l)
    BY <1>8, <1>10, <2>1, <2>2, <2>5
  <2>7. Agrees(Least(Least(xx + other, uu + 1), ll + 1), Least(Least(x + other, u + 1), l + 1))
    BY <1>1, <2>6, LeastAgrees
  <2> QED BY <2>4, <2>5, <2>7
<1>11. 0 \in G
  <2>1. ~(0 \in lo..hi) /\ 0 \in 0..LenB
    BY <1>1, <1>4
  <2> QED BY <1>9, <2>1
<1>12. ASSUME NEW n \in Nat, n \in G PROVE n + 1 \in G
  <2> SUFFICES ASSUME n + 1 <= LenB, Wanted(n + 1) PROVE Agrees(row[n + 1], d[<<r, n + 1>>])
    OBVIOUS
  <2>1. n + 1 \in 0..LenB /\ (n + 1) - 1 = n
    BY <1>1
  <2>2. CASE n + 1 \in lo..hi
    <3>1. n <= LenB /\ Wanted(n)
      BY <1>1, <1>4, <2>2
    <3>2. Agrees(row[n], d[<<r, n>>])
      BY <1>12, <3>1
    <3> QED BY <1>10, <2>1, <2>2, <3>2
  <2>3. CASE n + 1 \notin lo..hi
    BY <1>9, <2>1, <2>3
  <2> QED BY <2>2, <2>3
<1>13. Nat \subseteq G
  <2> HIDE DEF G
  <2> QED BY <1>11, <1>12, SetInduction
<1> QED
  <2>1. ASSUME NEW c \in 0..LenB, r - band <= c, c <= r + band + 1
        PROVE  Agrees(row[c], d[<<r, c>>])
    <3>1. c \in G
      <4> HIDE DEF G
      <4> QED BY <1>1, <1>13
    <3>2. c <= LenB /\ Wanted(c)
      BY <1>1, <1>4, <2>1
    <3> QED BY <3>1, <3>2
  <2> QED BY <1>2, <1>5, <2>1 DEF RightInBand

\* What the banded search keeps: its row is right as far as it is read.
EditInv ==
  /\ seqA \in Texts /\ seqB \in Texts /\ RowsOfNumbers
  /\ band <= MaxDist
  /\ tableRow \in -1..LenA
  /\ tableRow >= 0 => /\ LenA - LenB <= band /\ LenB - LenA <= band
                      /\ RightInBand(prev, tableRow)
  /\ EditExact

LEMMA Lengths ==
  ASSUME EditAssumption, seqA \in Texts, seqB \in Texts
  PROVE  /\ LenA \in Nat /\ LenB \in Nat /\ LenA < Infinite /\ LenB < Infinite /\ Infinite \in Nat
         /\ MaxDist \in Nat /\ MaxDist < Infinite /\ LenA <= MaxDist /\ LenB <= MaxDist
         /\ MaxDist = LenA \/ MaxDist = LenB
<1>1. PICK n, m : n = LenA /\ m = LenB
  OBVIOUS
<1>2. n \in Nat /\ m \in Nat /\ n < Infinite /\ m < Infinite /\ Infinite \in Nat
  BY <1>1 DEF EditAssumption, LenA, LenB
<1>3. MaxDist = IF n > m THEN n ELSE m
  BY <1>1 DEF MaxDist, Most
<1> QED BY <1>1, <1>2, <1>3

\* The distance lies between the difference of the lengths and the longer one.
LEMMA DistanceRange ==
  ASSUME EditAssumption, seqA \in Texts, seqB \in Texts
  PROVE  /\ Edits(seqA, seqB) \in Nat /\ Edits(seqA, seqB) <= MaxDist
         /\ LenA - LenB <= Edits(seqA, seqB) /\ LenB - LenA <= Edits(seqA, seqB)
<1>1. LenA \in 0..LenA /\ LenB \in 0..LenB /\ LenA \in Nat /\ LenB \in Nat
  BY Lengths
<1>2. Smooth(EditTable(seqA, seqB), LenA, LenB)
  BY <1>1, TableSmooth DEF LenA, LenB
<1> QED BY <1>1, <1>2 DEF Smooth, Edits, LenA, LenB, MaxDist

LEMMA EditStarts ==
  ASSUME EditAssumption, EditInit
  PROVE  EditInv
<1>1. seqA \in Texts /\ seqB \in Texts /\ tableRow = -1 /\ distance = -1
  BY DEF EditInit
<1>2. /\ LenA \in Nat /\ LenB \in Nat /\ MaxDist \in Nat /\ Infinite \in Nat /\ FirstBand \in Nat
  BY <1>1, Lengths DEF EditAssumption
<1>3. band \in Nat /\ band <= MaxDist
  BY <1>2 DEF EditInit, Least
<1>4. prev \in [0..LenB -> Nat] /\ cur \in [0..LenB -> Nat]
  BY <1>2 DEF EditInit
<1> QED BY <1>1, <1>2, <1>3, <1>4 DEF EditInv, RowsOfNumbers, EditExact

\* A band that is too narrow is left for a wider one, not above the largest
\* distance there can be, and a distance within the band is returned.
LEMMA ConcludesKeeps ==
  ASSUME EditAssumption, EditInv, NEW d \in Nat, Concludes(d), distance = -1,
         UNCHANGED <<seqA, seqB, prev, cur>>,
         IF Edits(seqA, seqB) <= band THEN d = Edits(seqA, seqB) ELSE d > band
  PROVE  EditInv'
<1>1. /\ seqA \in Texts /\ seqB \in Texts /\ RowsOfNumbers /\ band <= MaxDist /\ tableRow \in -1..LenA
      /\ band \in Nat
  BY DEF EditInv, RowsOfNumbers
<1>2. MaxDist \in Nat /\ LenA \in Nat /\ Edits(seqA, seqB) \in Nat /\ Edits(seqA, seqB) <= MaxDist
  BY <1>1, Lengths, DistanceRange
<1>3. /\ seqA' = seqA /\ seqB' = seqB /\ prev' = prev /\ cur' = cur
      /\ LenA' = LenA /\ LenB' = LenB /\ MaxDist' = MaxDist
  BY DEF LenA, LenB, MaxDist
<1>4. CASE d <= band \/ band >= MaxDist
  <2>1. distance' = d /\ band' = band /\ tableRow' = tableRow
    BY <1>4 DEF Concludes
  <2>2. d = Edits(seqA, seqB)
    BY <1>1, <1>2, <1>4
  <2>3. EditExact'
    BY <1>3, <2>1, <2>2 DEF EditExact
  <2>4. RowsOfNumbers'
    BY <1>1, <1>3, <2>1 DEF RowsOfNumbers
  <2>5. RightInBand(prev, tableRow)' <=> RightInBand(prev, tableRow)
    BY <1>3, <2>1 DEF RightInBand, Agrees
  <2> QED BY <1>1, <1>3, <2>1, <2>3, <2>4, <2>5 DEF EditInv
<1>5. CASE ~(d <= band \/ band >= MaxDist)
  <2>1. band' = Least(2 * band, MaxDist) /\ tableRow' = -1 /\ distance' = -1
    BY <1>5 DEF Concludes
  <2>2. band' \in Nat /\ band' <= MaxDist
    BY <1>1, <1>2, <2>1 DEF Least
  <2>3. RowsOfNumbers'
    BY <1>1, <1>3, <2>2 DEF RowsOfNumbers
  <2> QED BY <1>1, <1>2, <1>3, <2>1, <2>2, <2>3 DEF EditInv, EditExact
<1> QED BY <1>4, <1>5

LEMMA FirstRowKeeps ==
  ASSUME EditAssumption, EditInv, FirstRow
  PROVE  EditInv'
<1>1. /\ seqA \in Texts /\ seqB \in Texts /\ RowsOfNumbers /\ band <= MaxDist
      /\ band \in Nat /\ LenB \in Nat /\ LenA \in Nat /\ MaxDist \in Nat /\ MaxDist < Infinite /\ Infinite \in Nat
  BY Lengths DEF EditInv, RowsOfNumbers
<1>2. /\ distance = -1 /\ LenA - LenB <= band /\ LenB - LenA <= band
      /\ seqA' = seqA /\ seqB' = seqB /\ band' = band /\ distance' = distance /\ tableRow' = 0
      /\ LenA' = LenA /\ LenB' = LenB /\ MaxDist' = MaxDist
  BY DEF FirstRow, LenA, LenB, MaxDist
<1>3. PICK first \in [0..LenB -> Nat], other \in [0..LenB -> Nat] :
        /\ prev' = [c \in 0..LenB |-> IF c > Least(band + 1, LenB) THEN first[c]
                                      ELSE IF c <= band THEN c ELSE Infinite]
        /\ cur' = other
  BY <1>1 DEF FirstRow, RowsOfNumbers
<1>4. prev' \in [0..LenB -> Nat]
  BY <1>1, <1>3
<1>5. PICK d : d = EditTable(seqA, seqB)
  OBVIOUS
<1>6. ASSUME NEW c \in 0..LenB, c <= band + 1 PROVE Agrees(prev'[c], d[<<0, c>>])
  <2>1. d[<<0, c>>] = EditAt(seqA, seqB, d, 0, c)
    BY <1>1, <1>5, TableIs DEF LenA, LenB
  <2>2. d[<<0, c>>] = c
    BY <2>1 DEF EditAt
  <2>3. prev'[c] = IF c <= band THEN c ELSE Infinite
    BY <1>1, <1>3, <1>6 DEF Least
  <2> QED BY <1>1, <2>2, <2>3 DEF Agrees
<1>7. RightInBand(prev, tableRow)'
  <2>1. ASSUME NEW c \in 0..LenB, c <= 0 + band + 1 PROVE Agrees(prev'[c], EditTable(seqA, seqB)[<<0, c>>])
    BY <1>1, <1>5, <1>6, <2>1
  <2> QED BY <1>2, <2>1 DEF RightInBand, Agrees
<1>8. RowsOfNumbers'
  BY <1>1, <1>2, <1>3, <1>4 DEF RowsOfNumbers
<1> QED BY <1>1, <1>2, <1>7, <1>8 DEF EditInv, EditExact

LEMMA NextRowKeeps ==
  ASSUME EditAssumption, EditInv, NextRow
  PROVE  EditInv'
<1>1. /\ seqA \in Texts /\ seqB \in Texts /\ RowsOfNumbers /\ band <= MaxDist
      /\ band \in Nat /\ LenB \in Nat /\ LenA \in Nat /\ MaxDist \in Nat /\ MaxDist < Infinite /\ Infinite \in Nat
  BY Lengths DEF EditInv, RowsOfNumbers
<1>2. /\ distance = -1 /\ tableRow \in 0..(LenA - 1)
      /\ seqA' = seqA /\ seqB' = seqB /\ band' = band /\ distance' = distance
      /\ LenA' = LenA /\ LenB' = LenB /\ MaxDist' = MaxDist
      /\ tableRow' = tableRow + 1 /\ prev' = RowFrom(tableRow + 1) /\ cur' = prev
  BY DEF NextRow, LenA, LenB, MaxDist
<1>3. /\ LenA - LenB <= band /\ LenB - LenA <= band /\ RightInBand(prev, tableRow)
  BY <1>2 DEF EditInv
<1>4. PICK r \in 1..LenA : r = tableRow + 1
  BY <1>1, <1>2
<1>5. RightInBand(RowFrom(r), r)
  <2>1. r - 1 = tableRow
    BY <1>1, <1>2, <1>4
  <2> QED BY <1>1, <1>3, <2>1, RowIsRight
<1>6. RowFrom(r) \in [0..LenB -> Nat]
  <2>1. r \in Nat
    BY <1>1
  <2> QED BY <1>1, <2>1, RowFromIs
<1>7. RightInBand(prev, tableRow)'
  BY <1>2, <1>4, <1>5 DEF RightInBand, Agrees
<1>8. RowsOfNumbers'
  BY <1>1, <1>2, <1>4, <1>6 DEF RowsOfNumbers
<1> QED BY <1>1, <1>2, <1>3, <1>4, <1>7, <1>8 DEF EditInv, EditExact

\* By their lengths the distance is past the band, and the last cell of the
\* last row tells it where it is not.
LEMMA VerdictIsRight ==
  ASSUME EditAssumption, EditInv, distance = -1
  PROVE  /\ TooFar => Edits(seqA, seqB) > band
         /\ LastRow => Agrees(prev[LenB], Edits(seqA, seqB)) /\ prev[LenB] \in Nat
<1>1. /\ seqA \in Texts /\ seqB \in Texts /\ band \in Nat /\ LenB \in Nat /\ LenA \in Nat
      /\ prev \in [0..LenB -> Nat]
  BY Lengths DEF EditInv, RowsOfNumbers
<1>2. ASSUME TooFar PROVE Edits(seqA, seqB) > band
  <2>1. LenA - LenB > band \/ LenB - LenA > band
    BY <1>2 DEF TooFar
  <2> QED BY <1>1, <2>1, DistanceRange
<1>3. ASSUME LastRow PROVE Agrees(prev[LenB], Edits(seqA, seqB)) /\ prev[LenB] \in Nat
  <2>1. tableRow = LenA
    BY <1>3 DEF LastRow
  <2>2. LenA - LenB <= band /\ LenB - LenA <= band /\ RightInBand(prev, LenA)
    BY <1>1, <2>1 DEF EditInv
  <2>3. LenB \in 0..LenB /\ LenA - band <= LenB /\ LenB <= LenA + band + 1
    BY <1>1, <2>2
  <2>4. Agrees(prev[LenB], EditTable(seqA, seqB)[<<LenA, LenB>>])
    BY <2>2, <2>3 DEF RightInBand
  <2> QED BY <1>1, <2>3, <2>4 DEF Edits, LenA, LenB
<1> QED BY <1>2, <1>3

\* The invariant of the banded search.
LEMMA EditKeeps ==
  ASSUME EditAssumption, EditInv, [EditNext]_editvars
  PROVE  EditInv'
<1>1. /\ seqA \in Texts /\ seqB \in Texts /\ band \in Nat /\ Edits(seqA, seqB) \in Nat
  BY DistanceRange DEF EditInv, RowsOfNumbers
<1>2. CASE TooFar
  <2>1. distance = -1 /\ Concludes(band + 1) /\ UNCHANGED <<seqA, seqB, prev, cur>>
    BY <1>2 DEF TooFar
  <2>2. Edits(seqA, seqB) > band
    BY <1>2, <2>1, VerdictIsRight
  <2>3. band + 1 \in Nat /\ band + 1 > band /\ ~(Edits(seqA, seqB) <= band)
    BY <1>1, <2>2
  <2> QED BY <2>1, <2>3, ConcludesKeeps
<1>3. CASE FirstRow
  BY <1>3, FirstRowKeeps
<1>4. CASE NextRow
  BY <1>4, NextRowKeeps
<1>5. CASE LastRow
  <2> DEFINE d == IF prev[LenB] > band THEN band + 1 ELSE prev[LenB]
  <2>1. distance = -1 /\ Concludes(d) /\ UNCHANGED <<seqA, seqB, prev, cur>>
    BY <1>5 DEF LastRow
  <2>2. Agrees(prev[LenB], Edits(seqA, seqB)) /\ prev[LenB] \in Nat
    BY <1>5, <2>1, VerdictIsRight
  <2>3. d \in Nat /\ IF Edits(seqA, seqB) <= band THEN d = Edits(seqA, seqB) ELSE d > band
    BY <1>1, <2>2 DEF Agrees
  <2> HIDE DEF d
  <2> QED BY <2>1, <2>3, ConcludesKeeps
<1>6. CASE UNCHANGED editvars
  <2>1. /\ seqA' = seqA /\ seqB' = seqB /\ band' = band /\ tableRow' = tableRow
        /\ prev' = prev /\ cur' = cur /\ distance' = distance
        /\ LenA' = LenA /\ LenB' = LenB /\ MaxDist' = MaxDist
    BY <1>6 DEF editvars, LenA, LenB, MaxDist
  <2>2. (RowsOfNumbers' <=> RowsOfNumbers) /\ (EditExact' <=> EditExact)
    BY <2>1 DEF RowsOfNumbers, EditExact
  <2>3. RightInBand(prev, tableRow)' <=> RightInBand(prev, tableRow)
    BY <2>1 DEF RightInBand, Agrees
  <2> QED BY <2>1, <2>2, <2>3 DEF EditInv
<1> QED BY <1>2, <1>3, <1>4, <1>5, <1>6 DEF EditNext

\* A row that is kept is right as far as the next one reads it, for texts of
\* every length and a first band of every width.
THEOREM EditSafe == EditSpec => []EditInv
<1>1. EditInit => EditInv
  BY EditAssumption, EditStarts
<1>2. EditInv /\ [EditNext]_editvars => EditInv'
  BY EditAssumption, EditKeeps
<1> QED BY <1>1, <1>2, PTL DEF EditSpec

\* The search returns the edit distance, whatever the scratch rows held, for
\* texts of every length below INF and a first band of every width.
THEOREM EditDistanceIsExact == EditSpec => []EditExact
<1>1. EditInv => EditExact
  BY DEF EditInv
<1> QED BY <1>1, EditSafe, PTL
=============================================================================
