--------------------------- MODULE PipelineProofs ---------------------------
(***************************************************************************)
(* That the pipeline neither loses nor doubles an element, and that a tick *)
(* which succeeds leaves none behind, for every list of stages, every      *)
(* choice of what is outside, chunks of every size, and whichever push,    *)
(* pull or allocation fails.                                               *)
(***************************************************************************)
EXTENDS Pipeline, FiniteSetTheorems, WellFoundedInduction, TLAPS

-----------------------------------------------------------------------------
(* Induction, and what FlattenSeq makes of sequences.                      *)
Below == {p \in Nat \X Nat : p[1] < p[2]}

LEMMA BelowIsWellFounded == IsWellFoundedOn(Below, Nat)
<1>1. OpToRel(<, Nat) = Below
  BY DEF OpToRel, Below
<1> QED  BY <1>1, NatLessThanWellFounded

\* Induction over the natural numbers, for a set instead of a formula.
LEMMA SetInduction ==
  ASSUME NEW S, 0 \in S, \A n \in Nat : n \in S => n + 1 \in S
  PROVE  Nat \subseteq S
<1> DEFINE T == {n \in Nat : n \notin S}
<1> SUFFICES ASSUME T # {} PROVE FALSE
  OBVIOUS
<1>1. T \subseteq Nat
  OBVIOUS
<1>2. PICK x \in T : \A y \in T : ~ (<<y, x>> \in Below)
  <2> HIDE DEF T
  <2> QED  BY <1>1, BelowIsWellFounded, WFMin
<1>3. x \in Nat /\ x \notin S /\ x # 0
  BY <1>2
<1>4. x - 1 \in Nat /\ x - 1 < x /\ (x - 1) + 1 = x
  BY <1>3
<1>5. x - 1 \notin T
  BY <1>2, <1>3, <1>4 DEF Below
<1> QED  BY <1>3, <1>4, <1>5

\* Sequences joined one after the other, with what holds after each.
LEMMA FlattenedBy ==
  ASSUME NEW n \in Nat, n > 0, NEW seqs, Len(seqs) = n, NEW Good, seqs[1] \in Good[1],
         \A i \in 2..n : \A g \in Good[i-1] : g \o seqs[i] \in Good[i]
  PROVE  FlattenSeq(seqs) \in Good[n]
<1> DEFINE flatten[i \in 1..Len(seqs)] == IF i = 1 THEN seqs[i] ELSE flatten[i-1] \o seqs[i]
           AllGood == UNION {Good[i] : i \in 1..n}
           Joins(f, m) == \A i \in 1..m : /\ f[i] \in Good[i]
                                         /\ f[i] = IF i = 1 THEN seqs[i] ELSE f[i-1] \o seqs[i]
           Joined(m) == \E f \in [1..m -> AllGood] : Joins(f, m)
           Reached == {m \in Nat : m <= n => Joined(m)}
<1>1. Nat \subseteq Reached
  <2>1. 0 \in Reached
    <3> DEFINE none == [i \in 1..0 |-> seqs[1]]
    <3>1. none \in [1..0 -> AllGood]
      OBVIOUS
    <3>2. Joins(none, 0)
      OBVIOUS
    <3> HIDE DEF none, Joins, AllGood
    <3> QED  BY <3>1, <3>2
  <2>2. ASSUME NEW m \in Nat, m \in Reached PROVE m + 1 \in Reached
    <3> SUFFICES ASSUME m + 1 <= n PROVE Joined(m + 1)
      <4> HIDE DEF Joined
      <4> QED  OBVIOUS
    <3>1. PICK f \in [1..m -> AllGood] : Joins(f, m)
      BY <2>2
    <3> DEFINE last == IF m = 0 THEN seqs[1] ELSE f[m] \o seqs[m+1]
               g == [i \in 1..(m+1) |-> IF i <= m THEN f[i] ELSE last]
    <3>2. last \in Good[m+1]
      <4>1. CASE m = 0  BY <4>1
      <4>2. CASE m > 0
        <5>1. m \in 1..m /\ m + 1 \in 2..n /\ (m + 1) - 1 = m  BY <4>2
        <5>2. f[m] \in Good[m]  BY <3>1, <5>1
        <5>3. f[m] \o seqs[m+1] \in Good[m+1]  BY <5>1, <5>2
        <5> QED  BY <4>2, <5>3
      <4> QED  BY <4>1, <4>2
    <3>3. last \in AllGood
      BY <3>2
    <3> HIDE DEF last, AllGood
    <3>4. g \in [1..(m+1) -> AllGood]
      BY <3>3
    <3>5. ASSUME NEW i \in 1..(m+1)
          PROVE  g[i] \in Good[i] /\ g[i] = IF i = 1 THEN seqs[i] ELSE g[i-1] \o seqs[i]
      <4>1. CASE i <= m
        <5>1. g[i] = f[i]  BY <4>1
        <5>2. i # 1 => i - 1 \in 1..(m+1) /\ i - 1 <= m  BY <4>1
        <5>3. i # 1 => g[i-1] = f[i-1]  BY <5>2
        <5>4. i \in 1..m  BY <4>1
        <5> QED  BY <3>1, <5>1, <5>3, <5>4
      <4>2. CASE i = m + 1
        <5>1. g[i] = last /\ (m > 0 => g[i-1] = f[m])  BY <4>2
        <5> QED  BY <3>2, <4>2, <5>1 DEF last
      <4> QED  BY <4>1, <4>2
    <3> QED  BY <3>4, <3>5
  <2> HIDE DEF Reached
  <2> QED  BY <2>1, <2>2, SetInduction
<1> HIDE DEF AllGood
<1>2. PICK f \in [1..n -> AllGood] : Joins(f, n)
  BY <1>1
<1>3. f = [i \in 1..Len(seqs) |-> IF i = 1 THEN seqs[i] ELSE f[i-1] \o seqs[i]]
  BY <1>2
<1>4. flatten = [i \in 1..Len(seqs) |-> IF i = 1 THEN seqs[i] ELSE flatten[i-1] \o seqs[i]]
  BY <1>3
<1> HIDE DEF flatten
<1>5. \A i \in 1..n : flatten[i] = IF i = 1 THEN seqs[i] ELSE flatten[i-1] \o seqs[i]
  BY <1>4
<1> DEFINE Fine == {m \in Nat : m + 1 <= n => flatten[m+1] \in Good[m+1]}
<1>6. Nat \subseteq Fine
  <2>1. 0 \in Fine
    BY <1>5
  <2>2. ASSUME NEW m \in Nat, m \in Fine PROVE m + 1 \in Fine
    <3> DEFINE k == (m + 1) + 1
    <3> SUFFICES ASSUME k <= n PROVE flatten[k] \in Good[k]
      OBVIOUS
    <3>1. flatten[m+1] \in Good[m+1]
      BY <2>2
    <3>2. k \in 2..n /\ k \in 1..n /\ k # 1 /\ k - 1 = m + 1
      OBVIOUS
    <3> HIDE DEF k
    <3>3. flatten[k] = flatten[k-1] \o seqs[k]
      BY <1>5, <3>2, Zenon
    <3>4. flatten[k-1] \in Good[k-1]
      BY <3>1, <3>2
    <3> QED  BY <3>2, <3>3, <3>4
  <2> HIDE DEF Fine
  <2> QED  BY <2>1, <2>2, SetInduction
<1>7. flatten[n] \in Good[n]
  <2> DEFINE k == n - 1
  <2>1. k \in Nat /\ k + 1 = n /\ n <= n
    OBVIOUS
  <2> HIDE DEF k
  <2>2. k \in Fine
    BY <1>6, <2>1
  <2>3. k + 1 <= n => flatten[k + 1] \in Good[k + 1]
    BY <2>2
  <2> QED  BY <2>1, <2>3
<1>8. FlattenSeq(seqs) = flatten[Len(seqs)]
  BY DEF FlattenSeq, flatten
<1> QED  BY <1>7, <1>8

\* What holds of the first sequence and survives joining each of the others
\* holds of all of them joined.
LEMMA Flattened ==
  ASSUME NEW n \in Nat, n > 0, NEW seqs, Len(seqs) = n, NEW Good, seqs[1] \in Good,
         \A g \in Good : \A i \in 2..n : g \o seqs[i] \in Good
  PROVE  FlattenSeq(seqs) \in Good
<1> DEFINE same == [i \in 1..n |-> Good]
<1>1. same[1] = Good /\ same[n] = Good /\ \A i \in 2..n : same[i-1] = Good /\ same[i] = Good
  OBVIOUS
<1> HIDE DEF same
<1> QED  BY <1>1, FlattenedBy

\* JoinedParts sequences of the same elements are a sequence of those.
LEMMA FlattenedSeq ==
  ASSUME NEW S, NEW n \in Nat, NEW seqs \in [1..n -> Seq(S)]
  PROVE  FlattenSeq(seqs) \in Seq(S)
<1>1. seqs \in Seq(Seq(S)) /\ Len(seqs) = n
  OBVIOUS
<1>2. CASE n = 0
  <2>1. FlattenSeq(seqs) = seqs
    BY <1>1, <1>2 DEF FlattenSeq
  <2>2. seqs = <<>>
    BY <1>1, <1>2
  <2> QED  BY <2>1, <2>2
<1>3. CASE n > 0
  <2>1. seqs[1] \in Seq(S)
    BY <1>3
  <2>2. \A g \in Seq(S) : \A i \in 2..n : g \o seqs[i] \in Seq(S)
    OBVIOUS
  <2> QED  BY <1>1, <1>3, <2>1, <2>2, Flattened
<1> QED  BY <1>2, <1>3

-----------------------------------------------------------------------------
(* The jobs of a phase.                                                    *)
Node == Stage \cup Ext \cup {Own}
End == Node \X {"in", "out"}

\* The places that are there: outside, only those with a face.
Served == {p \in Place : Has(p[1], p[3])}

\* The first target takes the elements on, all others get copies.
Targets ==
  {to \in Seq(Served) : /\ to # <<>> => to[1] \in OnTheWay
                        /\ \A i \in DOMAIN to : i > 1 => to[i] \notin OnTheWay}

GoodJob ==
  {job \in Job : /\ job.from \in OnTheWay /\ job.to \in Targets
                 /\ job.whole => Len(job.to) = 1 /\ job.to[1] # job.from}

StagesInv ==
  /\ kind \in Nets /\ stages \in Seq(Stage) /\ chosen \in [Stage -> 0..2]

LEMMA ServedPlaces == Seq(Served) \subseteq Seq(Place)
BY DEF Served

\* Where an end is.
LEMMA AtPlace ==
  ASSUME NEW e \in End, NEW face \in Face
  PROVE  /\ At(e[1], e[2], face) \in Place
         /\ Has(e[1], face) => At(e[1], e[2], face) \in Served
         /\ ~(e[1] \in Tees /\ e[2] = "in") => At(e[1], e[2], face) \in OnTheWay
         /\ e[1] \in Tees /\ e[2] = "in" => At(e[1], e[2], face) \notin OnTheWay
<1>1. PICK f \in Face : At(e[1], e[2], face) = <<e[1], e[2], f>>
  BY DEF At, Face
<1>2. e[1] \in Stage \cup Ext \cup {Own} /\ e[2] \in {"in", "out"}
  BY DEF End, Node
<1>3. <<e[1], e[2], f>> \in Place
  BY <1>2 DEF Place
<1>4. Has(e[1], face) => Has(e[1], f)
  BY <1>1, PumpAssumption DEF At, Has
<1> QED  BY <1>1, <1>3, <1>4 DEF OnTheWay, Served

\* What is neither outside nor a sink is no copy.
LEMMA NoTee ==
  ASSUME NEW e \in End, e[1] \notin Ext \/ e[2] = "out"
  PROVE  ~(e[1] \in Tees /\ e[2] = "in")
BY RoutingAssumption DEF Tees, Elements

\* The ends of a transfer that have the face.
LEMMA AbleTargets ==
  ASSUME NEW n \in Nat, NEW ends \in [1..n -> End], NEW face \in Face,
         n > 0 => ~(ends[1][1] \in Tees /\ ends[1][2] = "in"),
         n > 1 => ends[1][1] \notin Ext,
         \A i \in 2..n : ends[i][1] \in Tees /\ ends[i][2] = "in"
  PROVE  Able(ends, face) \in Targets
<1> DEFINE seqs == [i \in 1..n |->
             IF Has(ends[i][1], face) THEN << At(ends[i][1], ends[i][2], face) >> ELSE <<>>]
<1>1. DOMAIN ends = 1..n /\ Able(ends, face) = FlattenSeq(seqs)
  BY DEF Able
<1>2. \A i \in 1..n : seqs[i] \in Seq(Served) /\ (seqs[i] = <<>> \/ seqs[i] = << At(ends[i][1], ends[i][2], face) >>)
  <2> SUFFICES ASSUME NEW i \in 1..n
               PROVE  seqs[i] \in Seq(Served) /\ (seqs[i] = <<>> \/ seqs[i] = << At(ends[i][1], ends[i][2], face) >>)
    OBVIOUS
  <2>1. Has(ends[i][1], face) => At(ends[i][1], ends[i][2], face) \in Served
    BY AtPlace
  <2> QED  BY <2>1
<1>3. seqs \in [1..n -> Seq(Served)] /\ Len(seqs) = n
  <2>1. seqs = [i \in 1..n |-> seqs[i]]
    OBVIOUS
  <2> HIDE DEF seqs
  <2>2. seqs \in [1..n -> Seq(Served)]
    BY <1>2, <2>1
  <2> QED  BY <2>2
<1>4. CASE n = 0
  <2>1. seqs = <<>>
    BY <1>4
  <2>2. FlattenSeq(seqs) = <<>>
    BY <2>1 DEF FlattenSeq
  <2> QED  BY <1>1, <2>2 DEF Targets
<1>5. CASE n > 0
  <2>1. At(ends[1][1], ends[1][2], face) \in OnTheWay
    BY <1>5, AtPlace
  <2>2. \A i \in 2..n : At(ends[i][1], ends[i][2], face) \notin OnTheWay
    BY AtPlace
  <2> HIDE DEF seqs
  <2>3. seqs[1] \in Targets
    BY <1>2, <1>5, <2>1 DEF Targets
  <2>4. CASE n = 1
    <3>1. \A g \in Targets : \A i \in 2..n : g \o seqs[i] \in Targets
      BY <2>4
    <3>2. FlattenSeq(seqs) \in Targets
      BY <1>3, <1>5, <2>3, <3>1, Flattened
    <3> QED  BY <1>1, <3>2
  <2>5. CASE n > 1
    <3> DEFINE Full == {to \in Targets : to # <<>>}
    <3>1. Has(ends[1][1], face)
      BY <2>5 DEF Has
    <3>2. seqs[1] = << At(ends[1][1], ends[1][2], face) >>
      BY <1>5, <3>1 DEF seqs
    <3>3. seqs[1] \in Full
      BY <2>3, <3>2
    <3>4. ASSUME NEW g \in Full, NEW i \in 2..n
          PROVE  g \o seqs[i] \in Full
      <4>1. g \in Seq(Served) /\ g # <<>> /\ Len(g) >= 1
        BY DEF Targets
      <4>2. CASE seqs[i] = <<>>
        <5>1. g \o seqs[i] = g
          BY <4>1, <4>2
        <5> QED  BY <5>1
      <4>3. CASE seqs[i] = << At(ends[i][1], ends[i][2], face) >>
        <5> DEFINE place == At(ends[i][1], ends[i][2], face)
                   new == g \o << place >>
        <5>1. place \in Served
          <6>1. PICK one : one = seqs[i]
            OBVIOUS
          <6>2. one \in Seq(Served) /\ one = << place >>
            <7>1. i \in 1..n  OBVIOUS
            <7>2. seqs[i] \in Seq(Served)  BY <1>2, <7>1
            <7>3. one = << place >>  BY <4>3, <6>1 DEF place
            <7> QED  BY <6>1, <7>2, <7>3
          <6> HIDE DEF place
          <6>3. one[1] = place /\ 1 \in 1..Len(one)
            BY <6>2
          <6> QED  BY <6>2, <6>3
        <5> HIDE DEF place
        <5>2. new \in Seq(Served) /\ Len(new) = Len(g) + 1 /\ \A j \in 1..Len(g) : new[j] = g[j]
          BY <4>1, <5>1
        <5>3. new[Len(g) + 1] = place
          BY <4>1, <5>1
        <5> HIDE DEF new
        <5>4. new[1] \in OnTheWay
          BY <4>1, <5>2 DEF Targets
        <5>5. \A j \in DOMAIN new : j > 1 => new[j] \notin OnTheWay
          <6> SUFFICES ASSUME NEW j \in DOMAIN new, j > 1 PROVE new[j] \notin OnTheWay
            OBVIOUS
          <6>1. CASE j \in 1..Len(g)
            BY <4>1, <5>2, <6>1 DEF Targets
          <6>2. CASE j = Len(g) + 1
            BY <2>2, <5>3, <6>2 DEF place
          <6> QED  BY <4>1, <5>2, <6>1, <6>2
        <5>6. new # <<>>
          BY <4>1, <5>2
        <5>7. new \in Full
          BY <5>2, <5>4, <5>5, <5>6 DEF Targets
        <5>8. new = g \o seqs[i]
          BY <4>3 DEF new, place
        <5> QED  BY <5>7, <5>8
      <4> QED  BY <1>2, <4>2, <4>3
    <3> HIDE DEF Full
    <3>5. FlattenSeq(seqs) \in Full
      BY <1>3, <1>5, <3>3, <3>4, Flattened
    <3> QED  BY <1>1, <3>5 DEF Full
  <2> QED  BY <1>5, <2>4, <2>5
<1> QED  BY <1>4, <1>5

Carrying(e) == ~(e[1] \in Tees /\ e[2] = "in")

\* The ends of one transfer: the first takes the elements on, all others get copies.
Fan == {ends \in Seq(End) :
          /\ ends # <<>> => Carrying(ends[1])
          /\ Len(ends) > 1 => ends[1][1] \notin Ext
          /\ \A i \in DOMAIN ends : i > 1 => ~Carrying(ends[i])}

LEMMA MoveGood ==
  ASSUME NEW from \in End, Carrying(from), NEW ends \in Fan, NEW face \in Face
  PROVE  Move(from, ends, face) \in Seq(GoodJob)
<1> DEFINE job == [from |-> At(from[1], from[2], face), to |-> Able(ends, face), whole |-> FALSE]
<1>1. At(from[1], from[2], face) \in Place /\ At(from[1], from[2], face) \in OnTheWay
  BY AtPlace DEF Carrying
<1>2. Able(ends, face) \in Targets
  <2>1. Len(ends) \in Nat /\ ends \in [1..Len(ends) -> End]
    BY DEF Fan
  <2>2. Len(ends) > 0 => ~(ends[1][1] \in Tees /\ ends[1][2] = "in")
    BY <2>1 DEF Fan, Carrying
  <2>3. Len(ends) > 1 => ends[1][1] \notin Ext
    BY DEF Fan
  <2>4. \A i \in 2..Len(ends) : ends[i][1] \in Tees /\ ends[i][2] = "in"
    BY <2>1 DEF Fan, Carrying
  <2> QED  BY <2>1, <2>2, <2>3, <2>4, AbleTargets
<1>3. job \in GoodJob
  <2>1. Able(ends, face) \in Seq(Place)
    BY <1>2, ServedPlaces DEF Targets
  <2> QED  BY <1>1, <1>2, <2>1 DEF GoodJob, Job
<1>4. Move(from, ends, face) = << job >> \/ Move(from, ends, face) = <<>>
  BY DEF Move
<1> HIDE DEF job
<1>5. << job >> \in Seq(GoodJob) /\ <<>> \in Seq(GoodJob)
  BY <1>3
<1> QED  BY <1>4, <1>5

LEMMA TransferGood ==
  ASSUME NEW from \in End, Carrying(from), NEW ends \in Fan
  PROVE  Transfer(from, ends) \in Seq(GoodJob)
<1>1. Move(from, ends, "hard") \in Seq(GoodJob) /\ Move(from, ends, "soft") \in Seq(GoodJob)
  BY MoveGood DEF Face
<1> QED  BY <1>1 DEF Transfer

\* The ends a tick uses.
LEMMA SomeFans ==
  /\ <<>> \in Fan
  /\ \A e \in End : Carrying(e) => << e >> \in Fan
BY DEF Fan

LEMMA StageEnds ==
  ASSUME NEW s \in Stage
  PROVE  /\ InOf(s) \in End /\ Carrying(InOf(s)) /\ OutOf(s) \in End /\ Carrying(OutOf(s))
         /\ InOf(s)[1] = s /\ OutOf(s)[1] = s /\ s \notin Ext
<1>1. InOf(s) \in End /\ OutOf(s) \in End /\ InOf(s)[1] = s /\ OutOf(s)[1] = s
  BY DEF InOf, OutOf, End, Node
<1>2. s \notin Ext
  BY PumpAssumption
<1>3. OutOf(s)[2] = "out"
  BY DEF OutOf
<1> QED  BY <1>1, <1>2, <1>3, NoTee DEF Carrying

LEMMA OutsideEnds ==
  ASSUME NEW u \in Ext
  PROVE  /\ InOf(u) \in End /\ OutOf(u) \in End /\ Carrying(OutOf(u))
         /\ InOf(u)[1] = u /\ InOf(u)[2] = "in"
<1>1. InOf(u) \in End /\ OutOf(u) \in End /\ OutOf(u)[2] = "out"
  BY DEF InOf, OutOf, End, Node
<1>2. InOf(u)[1] = u /\ InOf(u)[2] = "in"
  BY DEF InOf
<1> QED  BY <1>1, <1>2, NoTee DEF Carrying


\* What the tick of each stage does are such jobs.
LEMMA RunGood ==
  ASSUME StagesInv, NEW s \in Stage
  PROVE  Run(s) \in Seq(GoodJob)
<1>1. kind \in [Stage -> Kind] /\ kind[s] \in Kind
  BY PipelineAssumption DEF StagesInv
<1>2. /\ InOf(s) \in End /\ Carrying(InOf(s)) /\ OutOf(s) \in End /\ Carrying(OutOf(s))
      /\ << OutOf(s) >> \in Fan /\ <<>> \in Fan
  BY StageEnds, SomeFans
<1>3. chosen[s] \in 0..2
  BY DEF StagesInv
<1>4. SinksOf[s] \in Seq(Ext) /\ SourcesOf[s] \in Seq(Ext)
  BY RoutingAssumption
<1>5. /\ Len(Sinks(s)) = Len(SinksOf[s]) /\ Sinks(s) \in Seq(End)
      /\ \A i \in 1..Len(SinksOf[s]) : /\ Sinks(s)[i] = InOf(SinksOf[s][i])
                                      /\ SinksOf[s][i] \in Elements(SinksOf[s])
                                      /\ SinksOf[s][i] \in Ext
  <2> DEFINE m == Len(SinksOf[s])
  <2>1. m \in Nat /\ DOMAIN SinksOf[s] = 1..m /\ \A i \in 1..m : SinksOf[s][i] \in Ext
    BY <1>4
  <2>2. \A i \in 1..m : InOf(SinksOf[s][i]) \in End
    BY <2>1, OutsideEnds
  <2>3. \A i \in 1..m : SinksOf[s][i] \in Elements(SinksOf[s])
    BY <2>1 DEF Elements
  <2> HIDE DEF m
  <2>4. Sinks(s) = [i \in 1..m |-> InOf(SinksOf[s][i])]
    BY <2>1 DEF Sinks
  <2>5. Len(Sinks(s)) = m /\ Sinks(s) \in Seq(End) /\ \A i \in 1..m : Sinks(s)[i] = InOf(SinksOf[s][i])
    BY <2>1, <2>2, <2>4
  <2> QED  BY <2>1, <2>3, <2>5 DEF m
<1> DEFINE Goes == Run(s) \in Seq(GoodJob)
           to(i) == IF chosen[s] = i THEN << OutOf(s) >> ELSE <<>>
           out(i) == << OutOf(s) >>
<1>6. ASSUME kind[s] \in Converter PROVE Goes
  <2> DEFINE face == IF kind[s] = "hardening" THEN "hard" ELSE "soft"
             source == <<s, "in", "soft">>
             sink == <<s, "out", face>>
             job == [from |-> source, to |-> << sink >>, whole |-> TRUE]
  <2>1. source \in Place /\ sink \in Place /\ source # sink
    BY DEF Place, Face
  <2>2. source \in OnTheWay /\ sink \in OnTheWay
    <3>1. s \notin Tees
      BY StageEnds DEF Carrying, InOf
    <3> QED  BY <2>1, <3>1 DEF OnTheWay
  <2>3. Run(s) = << job >>
    BY <1>6 DEF Run, ConverterRun, Converter
  <2> HIDE DEF source, sink
  <2>4. << sink >> \in Seq(Place) /\ << sink >> \in Targets
    <3>1. sink \in Served
      BY <2>1, StageEnds DEF Served, Has, sink
    <3> QED  BY <2>1, <2>2, <3>1 DEF Targets
  <2>5. job \in GoodJob
    BY <2>1, <2>2, <2>4 DEF GoodJob, Job
  <2> HIDE DEF job
  <2> QED  BY <2>3, <2>5
<1>7. ASSUME kind[s] = "splitter" PROVE Goes
  <2> DEFINE ends == << OutOf(s) >> \o Sinks(s)
  <2>1. ends \in Seq(End) /\ Len(ends) = 1 + Len(Sinks(s)) /\ ends[1] = OutOf(s)
    BY <1>2, <1>5
  <2>2. \A i \in DOMAIN ends : i > 1 => ends[i] = Sinks(s)[i - 1] /\ i - 1 \in 1..Len(SinksOf[s])
    BY <1>2, <1>5
  <2> HIDE DEF ends
  <2>3. ASSUME NEW i \in DOMAIN ends, i > 1 PROVE ~Carrying(ends[i])
    <3>1. ends[i] = InOf(SinksOf[s][i-1]) /\ SinksOf[s][i-1] \in Elements(SinksOf[s])
      BY <1>5, <2>2, <2>3
    <3>2. SinksOf[s][i-1] \in Tees
      BY <1>7, <3>1 DEF Tees
    <3> QED  BY <3>1, <3>2 DEF Carrying, InOf
  <2>4. ends \in Fan
    BY <1>2, <2>1, <2>3, StageEnds DEF Fan
  <2>5. Run(s) = Transfer(InOf(s), ends)
    BY <1>7 DEF Run, SplitterRun, Converter, ends
  <2> QED  BY <1>2, <2>4, <2>5, TransferGood
<1>8. ASSUME kind[s] \in {"diverter", "push_to"}, NEW k \in 1..Len(SinksOf[s])
      PROVE  << Sinks(s)[k] >> \in Fan
  <2>1. Sinks(s)[k] \in End /\ Sinks(s)[k][1] \in Elements(SinksOf[s])
    BY <1>5, OutsideEnds
  <2>2. ASSUME Sinks(s)[k][1] \in Tees PROVE FALSE
    <3>1. PICK t \in Stage : kind[t] = "splitter" /\ Sinks(s)[k][1] \in Elements(SinksOf[t])
      BY <2>2 DEF Tees
    <3>2. Elements(SinksOf[t]) \cap Elements(SinksOf[s]) = {}
      BY <1>8, <3>1, NetsAssumption DEF StagesInv
    <3> QED  BY <2>1, <3>1, <3>2
  <2> QED  BY <2>1, <2>2, SomeFans DEF Carrying
<1>9. ASSUME kind[s] = "diverter" PROVE Goes
  <2>1. Run(s) = DiverterRun(s)
    BY <1>9 DEF Run, Converter
  <2>2. CASE chosen[s] = 0
    BY <1>2, <2>1, <2>2, TransferGood DEF DiverterRun
  <2>3. CASE chosen[s] # 0 /\ chosen[s] <= Len(SinksOf[s])
    <3>1. << Sinks(s)[chosen[s]] >> \in Fan
      BY <1>3, <1>4, <1>8, <1>9, <2>3
    <3> QED  BY <1>2, <2>1, <2>3, <3>1, TransferGood DEF DiverterRun
  <2>4. CASE chosen[s] # 0 /\ ~(chosen[s] <= Len(SinksOf[s]))
    BY <1>2, <2>1, <2>4, TransferGood DEF DiverterRun
  <2> QED  BY <2>2, <2>3, <2>4
<1>10. \A i \in DOMAIN SourcesOf[s] : OutOf(SourcesOf[s][i]) \in End /\ Carrying(OutOf(SourcesOf[s][i]))
  BY <1>4, OutsideEnds
<1>11. ASSUME kind[s] = "selector" PROVE Goes
  <2>1. Run(s) = Transfer(InOf(s), to(0)) \o FromSources(s, to)
    BY <1>11 DEF Run, Converter, SelectorRun
  <2> DEFINE seqs == [i \in DOMAIN SourcesOf[s] |-> Transfer(OutOf(SourcesOf[s][i]), to(i))]
  <2>2. FromSources(s, to) = FlattenSeq(seqs)
    BY DEF FromSources
  <2>3. \A i \in Nat : to(i) \in Fan
    BY <1>2
  <2> HIDE DEF to
  <2>4. \A i \in DOMAIN SourcesOf[s] : seqs[i] \in Seq(GoodJob)
    BY <1>4, <1>10, <2>3, TransferGood
  <2>5. seqs = [i \in 1..Len(SourcesOf[s]) |-> seqs[i]] /\ DOMAIN SourcesOf[s] = 1..Len(SourcesOf[s])
    BY <1>4
  <2> HIDE DEF seqs
  <2>6. seqs \in [1..Len(SourcesOf[s]) -> Seq(GoodJob)]
    BY <2>4, <2>5
  <2>7. FlattenSeq(seqs) \in Seq(GoodJob)
    <3>1. Len(SourcesOf[s]) \in Nat  BY <1>4
    <3> QED  BY <2>6, <3>1, FlattenedSeq
  <2>8. Transfer(InOf(s), to(0)) \in Seq(GoodJob)
    BY <1>2, <2>3, TransferGood
  <2> QED  BY <2>1, <2>2, <2>7, <2>8
<1>12. ASSUME kind[s] = "valve" PROVE Goes
  BY <1>2, <1>12, TransferGood DEF Run, Converter, ValveRun
<1>13. ASSUME kind[s] = "combiner" PROVE Goes
  <2>1. Run(s) = Transfer(InOf(s), out(0)) \o FromSources(s, out)
    BY <1>13 DEF Run, Converter, CombinerRun
  <2> DEFINE seqs == [i \in DOMAIN SourcesOf[s] |-> Transfer(OutOf(SourcesOf[s][i]), out(i))]
  <2>2. FromSources(s, out) = FlattenSeq(seqs)
    BY DEF FromSources
  <2>3. \A i \in Nat : out(i) \in Fan
    BY <1>2
  <2> HIDE DEF out
  <2>4. \A i \in DOMAIN SourcesOf[s] : seqs[i] \in Seq(GoodJob)
    BY <1>4, <1>10, <2>3, TransferGood
  <2>5. seqs = [i \in 1..Len(SourcesOf[s]) |-> seqs[i]] /\ DOMAIN SourcesOf[s] = 1..Len(SourcesOf[s])
    BY <1>4
  <2> HIDE DEF seqs
  <2>6. seqs \in [1..Len(SourcesOf[s]) -> Seq(GoodJob)]
    BY <2>4, <2>5
  <2>7. FlattenSeq(seqs) \in Seq(GoodJob)
    <3>1. Len(SourcesOf[s]) \in Nat  BY <1>4
    <3> QED  BY <2>6, <3>1, FlattenedSeq
  <2>8. Transfer(InOf(s), out(0)) \in Seq(GoodJob)
    BY <1>2, <2>3, TransferGood
  <2> QED  BY <2>1, <2>2, <2>7, <2>8
<1>14. ASSUME kind[s] = "drain" PROVE Goes
  BY <1>2, <1>14, TransferGood DEF Run, Converter, DrainRun
<1>15. ASSUME kind[s] = "push_to" PROVE Goes
  <2>1. 1 \in 1..Len(SinksOf[s])
    <3>1. Len(SinksOf[s]) = 1
      BY <1>15, NetsAssumption DEF StagesInv
    <3> QED  BY <3>1
  <2>2. << Sinks(s)[1] >> \in Fan
    BY <1>8, <1>15, <2>1
  <2> QED  BY <1>2, <1>15, <2>2, TransferGood DEF Run, Converter, PushToRun
<1>16. ASSUME kind[s] = "pull_from" PROVE Goes
  <2>1. 1 \in DOMAIN SourcesOf[s]
    <3>1. Len(SourcesOf[s]) = 1
      BY <1>16, NetsAssumption DEF StagesInv
    <3> QED  BY <1>4, <3>1
  <2>2. /\ Transfer(InOf(s), <<>>) \in Seq(GoodJob)
        /\ Transfer(OutOf(SourcesOf[s][1]), << OutOf(s) >>) \in Seq(GoodJob)
    BY <1>2, <1>10, <2>1, TransferGood
  <2>3. Run(s) = Transfer(InOf(s), <<>>) \o Transfer(OutOf(SourcesOf[s][1]), << OutOf(s) >>)
    BY <1>16 DEF Run, Converter, PullFromRun
  <2> QED  BY <2>2, <2>3
<1> QED
  BY <1>1, <1>6, <1>7, <1>9, <1>11, <1>12, <1>13, <1>14, <1>15, <1>16 DEF Kind

LEMMA OwnEnds ==
  /\ InOf(Own) \in End /\ Carrying(InOf(Own))
  /\ OutOf(Own) \in End /\ Carrying(OutOf(Own)) /\ << OutOf(Own) >> \in Fan
<1>1. InOf(Own) \in End /\ OutOf(Own) \in End /\ InOf(Own)[1] = Own /\ OutOf(Own)[1] = Own
  BY DEF InOf, OutOf, End, Node
<1>2. Own \notin Ext
  BY PumpAssumption
<1> QED  BY <1>1, <1>2, NoTee, SomeFans DEF Carrying

\* What a call does are such jobs.
LEMMA PhaseJobsGood ==
  ASSUME StagesInv, NEW phase
  PROVE  PhaseJobs(phase) \in Seq(GoodJob)
<1> DEFINE n == Len(stages)
           end(i) == IF i = 0 THEN InOf(Own) ELSE OutOf(stages[i])
           stage(i) == Transfer(end(i-1), << InOf(stages[i]) >>)
                       \o (IF phase = "begin" THEN <<>> ELSE Run(stages[i]))
           seqs == [i \in 1..n |-> stage(i)]
<1>1. n \in Nat /\ \A i \in 1..n : stages[i] \in Stage
  BY DEF StagesInv
<1>2. ASSUME NEW i \in 0..n PROVE end(i) \in End /\ Carrying(end(i))
  <2>1. CASE i = 0  BY <2>1, OwnEnds
  <2>2. CASE i # 0
    <3>1. stages[i] \in Stage  BY <1>1, <2>2
    <3> QED  BY <2>2, <3>1, StageEnds
  <2> QED  BY <2>1, <2>2
<1>3. ASSUME NEW i \in 1..n PROVE stage(i) \in Seq(GoodJob)
  <2>1. end(i-1) \in End /\ Carrying(end(i-1))
    BY <1>1, <1>2
  <2>2. << InOf(stages[i]) >> \in Fan /\ stages[i] \in Stage
    BY <1>1, <1>3, StageEnds, SomeFans
  <2> HIDE DEF end
  <2>3. Transfer(end(i-1), << InOf(stages[i]) >>) \in Seq(GoodJob)
    BY <2>1, <2>2, TransferGood
  <2>4. Run(stages[i]) \in Seq(GoodJob)
    BY <2>2, RunGood
  <2> QED  BY <2>3, <2>4
<1>4. Transfer(end(n), << OutOf(Own) >>) \in Seq(GoodJob)
  <2>1. end(n) \in End /\ Carrying(end(n))
    BY <1>1, <1>2
  <2> HIDE DEF end
  <2> QED  BY <2>1, OwnEnds, TransferGood
<1>5. PhaseJobs(phase) = FlattenSeq(seqs) \o Transfer(end(n), << OutOf(Own) >>)
  BY DEF PhaseJobs
<1> HIDE DEF stage, end, n
<1>6. seqs \in [1..n -> Seq(GoodJob)]
  BY <1>3
<1> HIDE DEF seqs
<1>7. FlattenSeq(seqs) \in Seq(GoodJob)
  BY <1>1, <1>6, FlattenedSeq
<1> QED  BY <1>4, <1>5, <1>7

-----------------------------------------------------------------------------
(* The invariant.                                                          *)
\* Only what was sent is anywhere, and all numbers are taken in turn.
ItemsInv ==
  /\ IsFiniteSet(sent)
  /\ \A item \in sent : item[3] \in Nat /\ item[3] <= Cardinality(sent)
  /\ held \in [Place -> Seq(sent)] /\ chunk \in Seq(sent) /\ rest \in Seq(sent)
  /\ gone \subseteq sent /\ lost \subseteq sent

\* A chunk belongs to the job that runs.
WorkInv ==
  /\ work \in Seq(GoodJob)
  /\ call = "idle" => work = <<>>
  /\ chunk = <<>> => rest = <<>> /\ target = 0
  /\ chunk # <<>> => /\ work # <<>> /\ ~Head(work).whole
                     /\ target \in DOMAIN Head(work).to

WhereInv == \A item \in sent : \E w : Whereabouts(item) = {w}

PipeInv == StagesInv /\ ItemsInv /\ WorkInv /\ WhereInv

\* Parts of a sequence.
LEMMA FrontPart ==
  ASSUME NEW S, NEW s \in Seq(S), NEW k \in 0..Len(s)
  PROVE  /\ SubSeq(s, 1, k) \in Seq(S) /\ Len(SubSeq(s, 1, k)) = k
         /\ \A i \in 1..k : SubSeq(s, 1, k)[i] = s[i]
OBVIOUS

LEMMA BackPart ==
  ASSUME NEW S, NEW s \in Seq(S), NEW k \in 0..Len(s)
  PROVE  /\ SubSeq(s, k + 1, Len(s)) \in Seq(S) /\ Len(SubSeq(s, k + 1, Len(s))) = Len(s) - k
         /\ \A i \in 1..(Len(s) - k) : SubSeq(s, k + 1, Len(s))[i] = s[k + i]
OBVIOUS

LEMMA JoinedParts ==
  ASSUME NEW S, NEW s \in Seq(S), NEW t \in Seq(S)
  PROVE  /\ s \o t \in Seq(S) /\ Len(s \o t) = Len(s) + Len(t)
         /\ \A i \in 1..Len(s) : (s \o t)[i] = s[i]
         /\ \A i \in 1..Len(t) : (s \o t)[Len(s) + i] = t[i]
OBVIOUS

\* The four ways to be somewhere, before and after a step.
LEMMA WhereIs ==
  ASSUME NEW item
  PROVE  \A w : w \in Whereabouts(item) <=>
           \/ \E p \in OnTheWay : \E i \in DOMAIN held[p] : held[p][i] = item /\ w = <<"held", p, i>>
           \/ \E i \in DOMAIN rest : target = 1 /\ rest[i] = item /\ w = <<"rest", i>>
           \/ item \in gone /\ w = <<"gone">>
           \/ item \in lost /\ w = <<"lost">>
<1> DEFINE At1(p) == {<<"held", p, i>> : i \in {j \in DOMAIN held[p] : held[p][j] = item}}
           Held == UNION {At1(p) : p \in OnTheWay}
           Rest == {<<"rest", i>> : i \in {j \in DOMAIN rest : target = 1 /\ rest[j] = item}}
<1>2. \A w : w \in Held <=> \E p \in OnTheWay : \E i \in DOMAIN held[p] : held[p][i] = item /\ w = <<"held", p, i>>
  <2>1. \A w : w \in Held <=> \E p \in OnTheWay : w \in At1(p)
    <3> HIDE DEF At1
    <3> QED  OBVIOUS
  <2> QED  BY <2>1
<1>3. \A w : w \in Rest <=> \E i \in DOMAIN rest : target = 1 /\ rest[i] = item /\ w = <<"rest", i>>
  OBVIOUS
<1>4. Whereabouts(item) = Held \cup Rest \cup (IF item \in gone THEN {<<"gone">>} ELSE {})
                           \cup (IF item \in lost THEN {<<"lost">>} ELSE {})
  BY DEF Whereabouts
<1> HIDE DEF Held, Rest
<1> QED  BY <1>2, <1>3, <1>4

LEMMA WhereIsNext ==
  ASSUME NEW item, kind' = kind
  PROVE  \A w : w \in Whereabouts(item)' <=>
           \/ \E p \in OnTheWay : \E i \in DOMAIN held'[p] : held'[p][i] = item /\ w = <<"held", p, i>>
           \/ \E i \in DOMAIN rest' : target' = 1 /\ rest'[i] = item /\ w = <<"rest", i>>
           \/ item \in gone' /\ w = <<"gone">>
           \/ item \in lost' /\ w = <<"lost">>
<1>1. OnTheWay' = OnTheWay
  BY DEF OnTheWay, Tees
<1> DEFINE At1(p) == {<<"held", p, i>> : i \in {j \in DOMAIN held'[p] : held'[p][j] = item}}
           Held == UNION {At1(p) : p \in OnTheWay}
           Rest == {<<"rest", i>> : i \in {j \in DOMAIN rest' : target' = 1 /\ rest'[j] = item}}
<1>2. \A w : w \in Held <=> \E p \in OnTheWay : \E i \in DOMAIN held'[p] : held'[p][i] = item /\ w = <<"held", p, i>>
  <2>1. \A w : w \in Held <=> \E p \in OnTheWay : w \in At1(p)
    <3> HIDE DEF At1
    <3> QED  OBVIOUS
  <2> QED  BY <2>1
<1>3. \A w : w \in Rest <=> \E i \in DOMAIN rest' : target' = 1 /\ rest'[i] = item /\ w = <<"rest", i>>
  OBVIOUS
<1>4. Whereabouts(item)' = Held \cup Rest \cup (IF item \in gone' THEN {<<"gone">>} ELSE {})
                           \cup (IF item \in lost' THEN {<<"lost">>} ELSE {})
  BY <1>1 DEF Whereabouts
<1> HIDE DEF Held, Rest
<1> QED  BY <1>2, <1>3, <1>4

\* What is taken out of a source is dropped or in the chunk.
LEMMA TakenIsSomewhere ==
  ASSUME PipeInv, TakeChunk, kind' = kind, NEW item \in sent
  PROVE  \E w : Whereabouts(item)' = {w}
<1> DEFINE from == Head(work).from
           to == Head(work).to
<1>1. from \in Place /\ from \in OnTheWay
  BY DEF PipeInv, WorkInv, TakeChunk, GoodJob, Job
<1>2. held \in [Place -> Seq(sent)] /\ held[from] \in Seq(sent)
  BY <1>1 DEF PipeInv, ItemsInv
<1>3. chunk = <<>> /\ rest = <<>> /\ target = 0
  BY DEF PipeInv, WorkInv, TakeChunk
<1> HIDE DEF from, to
<1>4. PICK k \in Handed(from) :
         LET piece == SubSeq(held[from], 1, k) IN
          /\ held' = [held EXCEPT ![from] = SubSeq(@, k + 1, Len(@))]
          /\ \/ /\ to = <<>>
                /\ gone' = gone \cup Elements(piece)
                /\ UNCHANGED <<chunk, rest, target>>
             \/ /\ to # <<>>
                /\ chunk' = piece /\ rest' = piece /\ target' = 1
                /\ UNCHANGED gone
  BY DEF TakeChunk, from, to
<1>5. k \in 0..Len(held[from])
  BY <1>2, PumpAssumption DEF Handed, AtMost
<1> DEFINE piece == SubSeq(held[from], 1, k)
           left_ == SubSeq(held[from], k + 1, Len(held[from]))
<1>6. /\ Len(piece) = k /\ DOMAIN piece = 1..k /\ \A i \in 1..k : piece[i] = held[from][i]
  <2>1. piece \in Seq(sent) /\ Len(piece) = k /\ \A i \in 1..k : piece[i] = held[from][i]
    BY <1>2, <1>5, FrontPart
  <2> HIDE DEF piece
  <2> QED  BY <2>1
<1>7. /\ DOMAIN left_ = 1..(Len(held[from]) - k)
      /\ \A i \in 1..(Len(held[from]) - k) : left_[i] = held[from][k + i]
  BY <1>2, <1>5, BackPart
<1>8. held'[from] = left_ /\ \A p \in Place : p # from => held'[p] = held[p]
  BY <1>1, <1>2, <1>4
<1>9. lost' = lost
  BY DEF TakeChunk
<1>10. \/ to = <<>> /\ gone' = gone \cup Elements(piece) /\ rest' = <<>> /\ target' = 0
       \/ to # <<>> /\ gone' = gone /\ rest' = piece /\ target' = 1
  BY <1>3, <1>4
<1> HIDE DEF piece, left_
<1> DEFINE Moved(x) == IF x[1] = "held" /\ x[2] = from
                       THEN IF x[3] > k THEN <<"held", from, x[3] - k>>
                            ELSE IF to = <<>> THEN <<"gone">> ELSE <<"rest", x[3]>>
                       ELSE x
           f == [x \in Whereabouts(item) |-> Moved(x)]
<1>11. ASSUME NEW x \in Whereabouts(item) PROVE Moved(x) \in Whereabouts(item)'
  <2>1. CASE x = <<"gone">> \/ x = <<"lost">>
    BY <1>9, <1>10, <2>1, WhereIs, WhereIsNext
  <2>2. CASE \E p \in OnTheWay : \E i \in DOMAIN held[p] : held[p][i] = item /\ x = <<"held", p, i>>
    <3>0. PICK p \in OnTheWay : \E i \in DOMAIN held[p] : held[p][i] = item /\ x = <<"held", p, i>>
      BY <2>2
    <3>1. PICK i \in DOMAIN held[p] : held[p][i] = item /\ x = <<"held", p, i>>
      BY <3>0
    <3>2. CASE p # from
      BY <1>8, <3>1, <3>2, WhereIsNext DEF OnTheWay
    <3>3. CASE p = from /\ i > k
      <4>1. i - k \in DOMAIN held'[from] /\ held'[from][i - k] = item
        BY <1>2, <1>5, <1>7, <1>8, <3>1, <3>3
      <4> QED  BY <1>1, <3>1, <3>3, <4>1, WhereIsNext
    <3>4. CASE p = from /\ ~(i > k)
      <4>1. i \in 1..k /\ piece[i] = item
        BY <1>2, <1>5, <1>6, <3>1, <3>4
      <4>2. to = <<>> => item \in gone'
        BY <1>6, <1>10, <4>1 DEF Elements
      <4>3. to # <<>> => i \in DOMAIN rest' /\ rest'[i] = item /\ target' = 1
        BY <1>6, <1>10, <4>1
      <4> QED  BY <3>1, <3>4, <4>2, <4>3, WhereIsNext
    <3> QED  BY <3>2, <3>3, <3>4
  <2> QED  BY <1>3, <2>1, <2>2, WhereIs
<1>12. ASSUME NEW v \in Whereabouts(item)' PROVE \E x \in Whereabouts(item) : v = Moved(x)
  <2>1. CASE v = <<"lost">> /\ item \in lost'
    BY <1>9, <2>1, WhereIs
  <2>2. CASE v = <<"gone">> /\ item \in gone'
    <3>1. CASE item \in gone
      BY <2>2, <3>1, WhereIs
    <3>2. CASE item \notin gone
      <4>1. PICK i \in 1..k : piece[i] = item /\ to = <<>>
        BY <1>6, <1>10, <2>2, <3>2 DEF Elements
      <4>2. i \in DOMAIN held[from] /\ held[from][i] = item
        BY <1>2, <1>5, <1>6, <4>1
      <4>3. <<"held", from, i>> \in Whereabouts(item)
        BY <1>1, <4>2, WhereIs
      <4>4. ~(i > k)
        BY <1>5
      <4>5. Moved(<<"held", from, i>>) = v
        BY <2>2, <4>1, <4>4
      <4> QED  BY <4>3, <4>5
    <3> QED  BY <3>1, <3>2
  <2>3. CASE \E i \in DOMAIN rest' : target' = 1 /\ rest'[i] = item /\ v = <<"rest", i>>
    <3>1. PICK i \in DOMAIN rest' : target' = 1 /\ rest'[i] = item /\ v = <<"rest", i>>
      BY <2>3
    <3>2. i \in 1..k /\ piece[i] = item /\ to # <<>>
      BY <1>6, <1>10, <3>1
    <3>3. i \in DOMAIN held[from] /\ held[from][i] = item
      BY <1>2, <1>5, <1>6, <3>2
    <3>4. <<"held", from, i>> \in Whereabouts(item)
      BY <1>1, <3>3, WhereIs
    <3>5. ~(i > k)
      BY <1>5, <3>2
    <3>6. Moved(<<"held", from, i>>) = v
      BY <3>1, <3>2, <3>5
    <3> QED  BY <3>4, <3>6
  <2>4. CASE \E p \in OnTheWay : \E i \in DOMAIN held'[p] : held'[p][i] = item /\ v = <<"held", p, i>>
    <3>0. PICK p \in OnTheWay : \E i \in DOMAIN held'[p] : held'[p][i] = item /\ v = <<"held", p, i>>
      BY <2>4
    <3>1. PICK i \in DOMAIN held'[p] : held'[p][i] = item /\ v = <<"held", p, i>>
      BY <3>0
    <3>2. CASE p # from
      <4>1. v \in Whereabouts(item)
        BY <1>8, <3>1, <3>2, WhereIs DEF OnTheWay
      <4>2. Moved(v) = v
        BY <3>1, <3>2
      <4> QED  BY <4>1, <4>2
    <3>3. CASE p = from
      <4>1. /\ i \in 1..(Len(held[from]) - k) /\ left_[i] = item
            /\ k + i \in DOMAIN held[from] /\ k + i > k /\ (k + i) - k = i
        BY <1>2, <1>5, <1>7, <1>8, <3>1, <3>3
      <4>2. held[from][k + i] = item
        BY <1>7, <4>1
      <4> DEFINE j == k + i
      <4>3. j \in DOMAIN held[from] /\ held[from][j] = item /\ j > k /\ j - k = i
        BY <4>1, <4>2
      <4> HIDE DEF j
      <4>4. <<"held", from, j>> \in Whereabouts(item)
        BY <1>1, <4>3, WhereIs
      <4>5. Moved(<<"held", from, j>>) = v
        BY <3>1, <3>3, <4>3
      <4> QED  BY <4>4, <4>5
    <3> QED  BY <3>2, <3>3
  <2> QED  BY <2>1, <2>2, <2>3, <2>4, WhereIsNext
<1>13. \E w : Whereabouts(item) = {w}
  BY DEF PipeInv, WhereInv
<1> HIDE DEF Moved
<1>14. /\ \A x \in Whereabouts(item) : f[x] \in Whereabouts(item)'
       /\ \A v \in Whereabouts(item)' : \E x \in Whereabouts(item) : v = f[x]
  BY <1>11, <1>12
<1> DEFINE before == Whereabouts(item)
           after == Whereabouts(item)'
<1> HIDE DEF f, before, after
<1>S1. PICK one : before = {one}
  BY <1>13 DEF before
<1>S2. (\A x \in before : f[x] \in after) /\ (\A v \in after : \E x \in before : v = f[x])
  BY <1>14 DEF before, after
<1>S3. after = {f[one]}
  BY <1>S1, <1>S2
<1> QED  BY <1>S3 DEF after

\* What a target takes is there, once, and copies do not count.
LEMMA PushedIsSomewhere ==
  ASSUME PipeInv, PushPart, kind' = kind, NEW item \in sent
  PROVE  \E w : Whereabouts(item)' = {w}
<1> DEFINE to == Head(work).to
           sink == to[target]
<1>1. /\ target \in DOMAIN to /\ target \in Nat /\ sink \in Place
      /\ target = 1 <=> sink \in OnTheWay
  <2>1. target \in DOMAIN to /\ to \in Targets /\ to \in Seq(Place)
    BY SMTT(40) DEF PipeInv, WorkInv, PushPart, GoodJob, Job
  <2> HIDE DEF to
  <2>2. target \in Nat /\ target >= 1
    BY <2>1
  <2> QED  BY <2>1, <2>2 DEF Targets
<1>2. held \in [Place -> Seq(sent)] /\ held[sink] \in Seq(sent) /\ rest \in Seq(sent)
  BY <1>1 DEF PipeInv, ItemsInv
<1> HIDE DEF to
<1>3. PICK w \in Taken(sink) :
       /\ held' = [held EXCEPT ![sink] = @ \o SubSeq(rest, 1, w)]
       /\ \/ w < Len(rest) /\ rest' = RestOf(w) /\ UNCHANGED <<chunk, target>>
          \/ /\ w = Len(rest) /\ target < Len(to)
             /\ rest' = chunk /\ target' = target + 1 /\ UNCHANGED chunk
          \/ w = Len(rest) /\ target = Len(to) /\ NoChunk
  BY DEF PushPart, to
<1> HIDE DEF sink
<1>4. w \in 0..Len(rest)
  BY <1>2 DEF Taken
<1> DEFINE piece == SubSeq(rest, 1, w)
           all == held[sink] \o piece
           n == Len(held[sink])
<1>5. piece \in Seq(sent) /\ Len(piece) = w /\ \A i \in 1..w : piece[i] = rest[i]
  BY <1>2, <1>4, FrontPart
<1> HIDE DEF piece
<1>6. /\ n \in Nat /\ DOMAIN held[sink] = 1..n /\ DOMAIN all = 1..(n + w)
      /\ \A i \in 1..n : all[i] = held[sink][i]
      /\ \A i \in 1..w : all[n + i] = rest[i]
  <2>1. /\ all \in Seq(sent) /\ Len(all) = n + Len(piece)
        /\ \A i \in 1..n : all[i] = held[sink][i]
        /\ \A i \in 1..Len(piece) : all[n + i] = piece[i]
    <3> DEFINE before == held[sink]
    <3>1. before \in Seq(sent) /\ piece \in Seq(sent)
      BY <1>2, <1>5
    <3> HIDE DEF before
    <3>2. /\ before \o piece \in Seq(sent) /\ Len(before \o piece) = Len(before) + Len(piece)
          /\ \A i \in 1..Len(before) : (before \o piece)[i] = before[i]
          /\ \A i \in 1..Len(piece) : (before \o piece)[Len(before) + i] = piece[i]
      BY <3>1, JoinedParts
    <3> QED  BY <3>2 DEF before
  <2> HIDE DEF all
  <2> QED  BY <1>2, <1>5, <2>1
<1> HIDE DEF n
<1>7. held'[sink] = all /\ \A p \in Place : p # sink => held'[p] = held[p]
  BY <1>1, <1>2, <1>3 DEF piece
<1>8. target = 1 /\ w < Len(rest)
        => target' = 1 /\ DOMAIN rest' = 1..(Len(rest) - w)
           /\ \A i \in 1..(Len(rest) - w) : rest'[i] = rest[w + i]
  <2> SUFFICES ASSUME target = 1, w < Len(rest)
               PROVE  target' = 1 /\ DOMAIN rest' = 1..(Len(rest) - w)
                      /\ \A i \in 1..(Len(rest) - w) : rest'[i] = rest[w + i]
    OBVIOUS
  <2>1. target' = 1 /\ rest' = SubSeq(rest, w + 1, Len(rest))
    BY <1>2, <1>3, <1>4 DEF RestOf
  <2>2. /\ rest' \in Seq(sent) /\ Len(rest') = Len(rest) - w
        /\ \A i \in 1..(Len(rest) - w) : rest'[i] = rest[w + i]
    BY <1>2, <1>4, <2>1, BackPart
  <2> QED  BY <2>1, <2>2
<1>9. ~(target = 1 /\ w < Len(rest)) => target' # 1
  BY <1>1, <1>2, <1>3, <1>4 DEF NoChunk
<1>10. gone' = gone /\ lost' = lost
  BY DEF PushPart
<1>11. DOMAIN rest = 1..Len(rest) /\ Len(rest) \in Nat
  BY <1>2
<1> HIDE DEF all
<1> DEFINE Moved(x) == IF x[1] = "rest" /\ target = 1
                       THEN IF x[2] <= w THEN <<"held", sink, n + x[2]>> ELSE <<"rest", x[2] - w>>
                       ELSE x
           f == [x \in Whereabouts(item) |-> Moved(x)]
<1>12. ASSUME NEW x \in Whereabouts(item) PROVE Moved(x) \in Whereabouts(item)'
  <2>1. CASE item \in gone /\ x = <<"gone">>
    BY <1>10, <2>1, WhereIsNext
  <2>4. CASE item \in lost /\ x = <<"lost">>
    BY <1>10, <2>4, WhereIsNext
  <2>2. CASE \E p \in OnTheWay : \E i \in DOMAIN held[p] : held[p][i] = item /\ x = <<"held", p, i>>
    <3>0. PICK p \in OnTheWay : \E i \in DOMAIN held[p] : held[p][i] = item /\ x = <<"held", p, i>>
      BY <2>2
    <3>1. PICK i \in DOMAIN held[p] : held[p][i] = item /\ x = <<"held", p, i>>
      BY <3>0
    <3>2. i \in DOMAIN held'[p] /\ held'[p][i] = item
      <4>1. CASE p # sink
        BY <1>7, <3>1, <4>1 DEF OnTheWay
      <4>2. CASE p = sink
        BY <1>4, <1>6, <1>7, <3>1, <4>2
      <4> QED  BY <4>1, <4>2
    <3>3. Moved(x) = x
      BY <3>1
    <3> QED  BY <3>1, <3>2, <3>3, WhereIsNext
  <2>3. CASE \E i \in DOMAIN rest : target = 1 /\ rest[i] = item /\ x = <<"rest", i>>
    <3>1. PICK i \in DOMAIN rest : target = 1 /\ rest[i] = item /\ x = <<"rest", i>>
      BY <2>3
    <3>2. CASE i <= w
      <4>1. n + i \in DOMAIN held'[sink] /\ held'[sink][n + i] = item
        BY <1>4, <1>6, <1>7, <1>11, <3>1, <3>2
      <4>2. Moved(x) = <<"held", sink, n + i>>
        BY <3>1, <3>2
      <4> QED  BY <1>1, <3>1, <4>1, <4>2, WhereIsNext
    <3>3. CASE ~(i <= w)
      <4>1. w < Len(rest) /\ i - w \in 1..(Len(rest) - w) /\ w + (i - w) = i
        BY <1>4, <1>11, <3>1, <3>3
      <4> DEFINE j == i - w
      <4>2. j \in DOMAIN rest' /\ rest'[j] = rest[w + j] /\ w + j = i /\ target' = 1
        BY <1>8, <3>1, <4>1
      <4>3. Moved(x) = <<"rest", j>>
        BY <3>1, <3>3
      <4> HIDE DEF j
      <4>4. rest'[j] = item
        BY <3>1, <4>2
      <4> QED  BY <4>2, <4>3, <4>4, WhereIsNext
    <3> QED  BY <3>2, <3>3
  <2> HIDE DEF Moved
  <2> QED  BY <2>1, <2>2, <2>3, <2>4, WhereIs
<1>13. ASSUME NEW v \in Whereabouts(item)' PROVE \E x \in Whereabouts(item) : v = Moved(x)
  <2>1. CASE item \in gone' /\ v = <<"gone">>
    BY <1>10, <2>1, WhereIs
  <2>4. CASE item \in lost' /\ v = <<"lost">>
    BY <1>10, <2>4, WhereIs
  <2>2. CASE \E i \in DOMAIN rest' : target' = 1 /\ rest'[i] = item /\ v = <<"rest", i>>
    <3>1. PICK i \in DOMAIN rest' : target' = 1 /\ rest'[i] = item /\ v = <<"rest", i>>
      BY <2>2
    <3>2. target = 1 /\ w < Len(rest)
      BY <1>9, <3>1
    <3> DEFINE j == w + i
    <3>3. i \in 1..(Len(rest) - w) /\ rest'[i] = rest[j]
      BY <1>8, <3>1, <3>2
    <3>4. j \in 1..Len(rest) /\ ~(j <= w) /\ j - w = i
      BY <1>4, <1>11, <3>3
    <3> HIDE DEF j
    <3>5. <<"rest", j>> \in Whereabouts(item)
      BY <1>11, <3>1, <3>2, <3>3, <3>4, WhereIs
    <3>6. Moved(<<"rest", j>>) = v
      BY <3>1, <3>2, <3>4
    <3> QED  BY <3>5, <3>6
  <2>3. CASE \E p \in OnTheWay : \E i \in DOMAIN held'[p] : held'[p][i] = item /\ v = <<"held", p, i>>
    <3>0. PICK p \in OnTheWay : \E i \in DOMAIN held'[p] : held'[p][i] = item /\ v = <<"held", p, i>>
      BY <2>3
    <3>1. PICK i \in DOMAIN held'[p] : held'[p][i] = item /\ v = <<"held", p, i>>
      BY <3>0
    <3>2. CASE p # sink \/ i \in 1..n
      <4>1. i \in DOMAIN held[p] /\ held[p][i] = item
        <5>1. CASE p # sink
          BY <1>7, <3>1, <5>1 DEF OnTheWay
        <5>2. CASE p = sink
          BY <1>6, <1>7, <3>1, <3>2, <5>2
        <5> QED  BY <5>1, <5>2
      <4>2. Moved(v) = v
        BY <3>1
      <4> QED  BY <3>1, <4>1, <4>2, WhereIs
    <3>3. CASE p = sink /\ i \notin 1..n
      <4>1. target = 1 /\ i \in 1..(n + w) /\ all[i] = item
        BY <1>1, <1>6, <1>7, <3>1, <3>3
      <4> DEFINE j == i - n
      <4>2. j \in 1..w /\ n + j = i
        BY <1>4, <1>6, <1>11, <3>3, <4>1
      <4> HIDE DEF j
      <4>3. rest[j] = item
        BY <1>6, <4>1, <4>2
      <4>4. j \in DOMAIN rest /\ j <= w
        BY <1>4, <1>11, <4>2
      <4>5. <<"rest", j>> \in Whereabouts(item)
        BY <4>1, <4>3, <4>4, WhereIs
      <4>6. Moved(<<"rest", j>>) = v
        BY <3>1, <3>3, <4>1, <4>2, <4>4
      <4> QED  BY <4>5, <4>6
    <3> QED  BY <3>2, <3>3
  <2> HIDE DEF Moved
  <2> QED  BY <2>1, <2>2, <2>3, <2>4, WhereIsNext
<1>14. \E x : Whereabouts(item) = {x}
  BY DEF PipeInv, WhereInv
<1> HIDE DEF Moved
<1>15. /\ \A x \in Whereabouts(item) : f[x] \in Whereabouts(item)'
       /\ \A v \in Whereabouts(item)' : \E x \in Whereabouts(item) : v = f[x]
  BY <1>12, <1>13
<1> DEFINE before == Whereabouts(item)
           after == Whereabouts(item)'
<1> HIDE DEF f, before, after
<1>S1. PICK one : before = {one}
  BY <1>14 DEF before
<1>S2. (\A x \in before : f[x] \in after) /\ (\A v \in after : \E x \in before : v = f[x])
  BY <1>15 DEF before, after
<1>S3. after = {f[one]}
  BY <1>S1, <1>S2
<1> QED  BY <1>S3 DEF after

\* A conversion moves everything to the other side.
LEMMA ConvertedIsSomewhere ==
  ASSUME PipeInv, Convert, kind' = kind, NEW item \in sent
  PROVE  \E w : Whereabouts(item)' = {w}
<1> DEFINE from == Head(work).from
           sink == Head(work).to[1]
           n == Len(held[sink])
           m == Len(held[from])
           all == held[sink] \o held[from]
<1>1. from \in Place /\ from \in OnTheWay /\ sink \in Place /\ sink \in OnTheWay /\ sink # from
  <2>1. Head(work) \in GoodJob /\ Head(work).whole
    BY DEF PipeInv, WorkInv, Convert
  <2>2. Head(work).to \in Seq(Place) /\ Len(Head(work).to) = 1 /\ Head(work).to \in Targets
    BY <2>1 DEF GoodJob, Job
  <2> QED  BY <2>1, <2>2 DEF GoodJob, Job, Targets
<1>2. held \in [Place -> Seq(sent)] /\ held[from] \in Seq(sent) /\ held[sink] \in Seq(sent)
  BY <1>1 DEF PipeInv, ItemsInv
<1>3. held' = [held EXCEPT ![from] = <<>>, ![sink] = @ \o held[from]]
  BY DEF Convert
<1> HIDE DEF from, sink
<1>4. /\ n \in Nat /\ DOMAIN held[sink] = 1..n /\ m \in Nat /\ DOMAIN held[from] = 1..m
      /\ DOMAIN all = 1..(n + m)
      /\ \A i \in 1..n : all[i] = held[sink][i]
      /\ \A i \in 1..m : all[n + i] = held[from][i]
  <2> DEFINE a == held[sink]  b == held[from]
  <2>1. a \in Seq(sent) /\ b \in Seq(sent)
    BY <1>2
  <2> HIDE DEF a, b
  <2>2. /\ a \o b \in Seq(sent) /\ Len(a \o b) = Len(a) + Len(b)
        /\ \A i \in 1..Len(a) : (a \o b)[i] = a[i]
        /\ \A i \in 1..Len(b) : (a \o b)[Len(a) + i] = b[i]
    BY <2>1, JoinedParts
  <2>3. /\ DOMAIN (a \o b) = 1..(Len(a) + Len(b)) /\ Len(a) \in Nat /\ Len(b) \in Nat
        /\ DOMAIN a = 1..Len(a) /\ DOMAIN b = 1..Len(b)
    BY <2>1, <2>2
  <2>4. all = a \o b /\ n = Len(a) /\ m = Len(b)
    BY DEF a, b
  <2> HIDE DEF all, n, m
  <2> QED  BY <2>2, <2>3, <2>4 DEF a, b
<1>5. /\ held'[from] = <<>> /\ held'[sink] = all
      /\ \A p \in Place : p # from /\ p # sink => held'[p] = held[p]
  BY <1>1, <1>2, <1>3
<1> HIDE DEF n, m, all
<1>6. rest' = rest /\ target' = target /\ gone' = gone /\ lost' = lost
  BY DEF Convert
<1> DEFINE Moved(x) == IF x[1] = "held" /\ x[2] = from THEN <<"held", sink, n + x[3]>> ELSE x
           f == [x \in Whereabouts(item) |-> Moved(x)]
<1>7. ASSUME NEW x \in Whereabouts(item) PROVE Moved(x) \in Whereabouts(item)'
  <2>1. CASE item \in gone /\ x = <<"gone">>
    BY <1>6, <2>1, WhereIsNext
  <2>2. CASE item \in lost /\ x = <<"lost">>
    BY <1>6, <2>2, WhereIsNext
  <2>3. CASE \E i \in DOMAIN rest : target = 1 /\ rest[i] = item /\ x = <<"rest", i>>
    BY <1>6, <2>3, WhereIsNext
  <2>4. CASE \E p \in OnTheWay : \E i \in DOMAIN held[p] : held[p][i] = item /\ x = <<"held", p, i>>
    <3>0. PICK p \in OnTheWay : \E i \in DOMAIN held[p] : held[p][i] = item /\ x = <<"held", p, i>>
      BY <2>4
    <3>1. PICK i \in DOMAIN held[p] : held[p][i] = item /\ x = <<"held", p, i>>
      BY <3>0
    <3>2. CASE p # from
      <4>1. i \in DOMAIN held'[p] /\ held'[p][i] = item
        <5>1. CASE p = sink
          BY <1>4, <1>5, <3>1, <5>1
        <5>2. CASE p # sink
          BY <1>5, <3>1, <3>2, <5>2 DEF OnTheWay
        <5> QED  BY <5>1, <5>2
      <4>2. Moved(x) = x
        BY <3>1, <3>2
      <4> QED  BY <3>1, <4>1, <4>2, WhereIsNext
    <3>3. CASE p = from
      <4> DEFINE k == n + i
      <4>3. k \in 1..(n + m) /\ all[k] = item
        BY <1>4, <3>1, <3>3
      <4> HIDE DEF k
      <4>1. k \in DOMAIN held'[sink] /\ held'[sink][k] = item
        BY <1>4, <1>5, <4>3
      <4>2. Moved(x) = <<"held", sink, k>>
        BY <3>1, <3>3 DEF k
      <4> QED  BY <1>1, <4>1, <4>2, WhereIsNext
    <3> QED  BY <3>2, <3>3
  <2> HIDE DEF Moved
  <2> QED  BY <2>1, <2>2, <2>3, <2>4, WhereIs
<1>8. ASSUME NEW v \in Whereabouts(item)' PROVE \E x \in Whereabouts(item) : v = Moved(x)
  <2>1. CASE item \in gone' /\ v = <<"gone">>
    BY <1>6, <2>1, WhereIs
  <2>2. CASE item \in lost' /\ v = <<"lost">>
    BY <1>6, <2>2, WhereIs
  <2>3. CASE \E i \in DOMAIN rest' : target' = 1 /\ rest'[i] = item /\ v = <<"rest", i>>
    BY <1>6, <2>3, WhereIs
  <2>4. CASE \E p \in OnTheWay : \E i \in DOMAIN held'[p] : held'[p][i] = item /\ v = <<"held", p, i>>
    <3>0. PICK p \in OnTheWay : \E i \in DOMAIN held'[p] : held'[p][i] = item /\ v = <<"held", p, i>>
      BY <2>4
    <3>1. PICK i \in DOMAIN held'[p] : held'[p][i] = item /\ v = <<"held", p, i>>
      BY <3>0
    <3>2. p # from
      BY <1>5, <3>1
    <3>3. CASE p # sink \/ i \in 1..n
      <4>1. i \in DOMAIN held[p] /\ held[p][i] = item
        <5>1. CASE p # sink
          BY <1>5, <3>1, <3>2, <5>1 DEF OnTheWay
        <5>2. CASE p = sink
          BY <1>4, <1>5, <3>1, <3>3, <5>2
        <5> QED  BY <5>1, <5>2
      <4>2. Moved(v) = v
        BY <3>1, <3>2
      <4> QED  BY <3>1, <4>1, <4>2, WhereIs
    <3>4. CASE p = sink /\ i \notin 1..n
      <4>1. i \in 1..(n + m) /\ all[i] = item
        BY <1>4, <1>5, <3>1, <3>4
      <4> DEFINE j == i - n
      <4>2. j \in 1..m /\ n + j = i
        BY <1>4, <3>4, <4>1
      <4> HIDE DEF j
      <4>3. held[from][j] = item /\ j \in DOMAIN held[from]
        BY <1>4, <4>1, <4>2
      <4>4. <<"held", from, j>> \in Whereabouts(item)
        BY <1>1, <4>3, WhereIs
      <4>5. Moved(<<"held", from, j>>) = v
        BY <3>1, <3>4, <4>2
      <4> QED  BY <4>4, <4>5
    <3> QED  BY <3>3, <3>4
  <2> HIDE DEF Moved
  <2> QED  BY <2>1, <2>2, <2>3, <2>4, WhereIsNext
<1>9. \E x : Whereabouts(item) = {x}
  BY DEF PipeInv, WhereInv
<1> HIDE DEF Moved
<1>10. /\ \A x \in Whereabouts(item) : f[x] \in Whereabouts(item)'
       /\ \A v \in Whereabouts(item)' : \E x \in Whereabouts(item) : v = f[x]
  BY <1>7, <1>8
<1> DEFINE before == Whereabouts(item)
           after == Whereabouts(item)'
<1> HIDE DEF f, before, after
<1>S1. PICK one : before = {one}
  BY <1>9 DEF before
<1>S2. (\A x \in before : f[x] \in after) /\ (\A v \in after : \E x \in before : v = f[x])
  BY <1>10 DEF before, after
<1>S3. after = {f[one]}
  BY <1>S1, <1>S2
<1> QED  BY <1>S3 DEF after

\* An error loses what is in the chunk and nothing else.
LEMMA LostIsSomewhere ==
  ASSUME PipeInv, Fails, kind' = kind, NEW item \in sent
  PROVE  \E w : Whereabouts(item)' = {w}
<1>1. /\ held' = held /\ gone' = gone /\ rest' = <<>>
      /\ lost' = lost \cup (IF target = 1 THEN Elements(rest) ELSE {})
  BY DEF Fails, NoChunk
<1> DEFINE Moved(x) == IF x[1] = "rest" THEN <<"lost">> ELSE x
           f == [x \in Whereabouts(item) |-> Moved(x)]
<1>2. ASSUME NEW x \in Whereabouts(item) PROVE Moved(x) \in Whereabouts(item)'
  <2>1. CASE item \in gone /\ x = <<"gone">>
    BY <1>1, <2>1, WhereIsNext
  <2>2. CASE item \in lost /\ x = <<"lost">>
    BY <1>1, <2>2, WhereIsNext
  <2>3. CASE \E i \in DOMAIN rest : target = 1 /\ rest[i] = item /\ x = <<"rest", i>>
    <3>1. item \in lost' /\ Moved(x) = <<"lost">>
      BY <1>1, <2>3 DEF Elements
    <3> HIDE DEF Moved
    <3> QED  BY <3>1, WhereIsNext
  <2>4. CASE \E p \in OnTheWay : \E i \in DOMAIN held[p] : held[p][i] = item /\ x = <<"held", p, i>>
    <3>1. Moved(x) = x
      BY <2>4
    <3> HIDE DEF Moved
    <3> QED  BY <1>1, <2>4, <3>1, WhereIsNext
  <2> HIDE DEF Moved
  <2> QED  BY <2>1, <2>2, <2>3, <2>4, WhereIs
<1>3. ASSUME NEW v \in Whereabouts(item)' PROVE \E x \in Whereabouts(item) : v = Moved(x)
  <2>1. CASE item \in gone' /\ v = <<"gone">>
    BY <1>1, <2>1, WhereIs
  <2>2. CASE item \in lost' /\ v = <<"lost">>
    <3>1. CASE item \in lost
      BY <2>2, <3>1, WhereIs
    <3>2. CASE item \notin lost
      <4>1. PICK i \in DOMAIN rest : target = 1 /\ rest[i] = item
        BY <1>1, <2>2, <3>2 DEF Elements
      <4>2. <<"rest", i>> \in Whereabouts(item)
        BY <4>1, WhereIs
      <4>3. Moved(<<"rest", i>>) = v
        BY <2>2
      <4> QED  BY <4>2, <4>3
    <3> QED  BY <3>1, <3>2
  <2>3. CASE \E i \in DOMAIN rest' : target' = 1 /\ rest'[i] = item /\ v = <<"rest", i>>
    BY <1>1, <2>3
  <2>4. CASE \E p \in OnTheWay : \E i \in DOMAIN held'[p] : held'[p][i] = item /\ v = <<"held", p, i>>
    <3>1. v \in Whereabouts(item)
      BY <1>1, <2>4, WhereIs
    <3>2. Moved(v) = v
      BY <2>4
    <3> QED  BY <3>1, <3>2
  <2> HIDE DEF Moved
  <2> QED  BY <2>1, <2>2, <2>3, <2>4, WhereIsNext
<1>4. \E x : Whereabouts(item) = {x}
  BY DEF PipeInv, WhereInv
<1> HIDE DEF Moved
<1>5. /\ \A x \in Whereabouts(item) : f[x] \in Whereabouts(item)'
      /\ \A v \in Whereabouts(item)' : \E x \in Whereabouts(item) : v = f[x]
  BY <1>2, <1>3
<1> DEFINE before == Whereabouts(item)
           after == Whereabouts(item)'
<1> HIDE DEF f, before, after
<1>S1. PICK one : before = {one}
  BY <1>4 DEF before
<1>S2. (\A x \in before : f[x] \in after) /\ (\A v \in after : \E x \in before : v = f[x])
  BY <1>5 DEF before, after
<1>S3. after = {f[one]}
  BY <1>S1, <1>S2
<1> QED  BY <1>S3 DEF after

\* A new element is where it came in, and moves no other.
LEMMA ArrivedIsSomewhere ==
  ASSUME PipeInv, NEW place \in OnTheWay, NEW origin, NEW face,
         Arrive(place, origin, face), NEW item \in sent'
  PROVE  \E w : Whereabouts(item)' = {w}
<1> DEFINE fresh == Fresh(origin, face)
           n == Len(held[place])
<1>1. place \in Place
  BY DEF OnTheWay
<1>2. held \in [Place -> Seq(sent)] /\ held[place] \in Seq(sent)
  BY <1>1 DEF PipeInv, ItemsInv
<1>3. fresh \notin sent
  <2>1. Cardinality(sent) \in Nat /\ fresh[3] = Cardinality(sent) + 1
    BY FS_CardinalityType DEF PipeInv, ItemsInv, Fresh
  <2> HIDE DEF fresh
  <2> QED  BY <2>1 DEF PipeInv, ItemsInv
<1>4. /\ sent' = sent \cup {fresh} /\ rest' = rest /\ target' = target
      /\ gone' = gone /\ lost' = lost /\ kind' = kind
      /\ held' = [held EXCEPT ![place] = Append(@, fresh)]
  BY DEF Arrive
<1> HIDE DEF fresh
<1>5. /\ n \in Nat /\ DOMAIN held[place] = 1..n
      /\ DOMAIN held'[place] = 1..(n + 1)
      /\ \A i \in 1..n : held'[place][i] = held[place][i]
      /\ held'[place][n + 1] = fresh
      /\ \A p \in Place : p # place => held'[p] = held[p]
  <2> DEFINE before == held[place]
             longer == Append(before, fresh)
  <2>1. before \in Seq(sent)
    BY <1>2
  <2>2. held'[place] = longer /\ \A p \in Place : p # place => held'[p] = held[p]
    BY <1>1, <1>2, <1>4
  <2> HIDE DEF before
  <2>3. /\ Len(before) \in Nat /\ DOMAIN before = 1..Len(before)
        /\ DOMAIN longer = 1..(Len(before) + 1) /\ longer[Len(before) + 1] = fresh
        /\ \A i \in 1..Len(before) : longer[i] = before[i]
    BY <2>1
  <2> HIDE DEF longer
  <2> QED  BY <2>2, <2>3 DEF before
<1> HIDE DEF n
<1>6. rest \in Seq(sent) /\ gone \subseteq sent /\ lost \subseteq sent
  BY DEF PipeInv, ItemsInv
<1>7. CASE item = fresh
  <2>1. item \notin gone' /\ item \notin lost'
    BY <1>3, <1>4, <1>6, <1>7
  <2>2. \A i \in DOMAIN rest' : rest'[i] # item
    BY <1>3, <1>4, <1>6, <1>7
  <2>3. \A p \in OnTheWay : \A i \in DOMAIN held'[p] : held'[p][i] = item => p = place /\ i = n + 1
    <3> SUFFICES ASSUME NEW p \in OnTheWay, NEW i \in DOMAIN held'[p], held'[p][i] = item
                 PROVE  p = place /\ i = n + 1
      OBVIOUS
    <3>1. \A q \in Place : \A j \in DOMAIN held[q] : held[q][j] # item
      BY <1>2, <1>3, <1>7
    <3>2. p \in Place
      BY DEF OnTheWay
    <3> QED  BY <1>1, <1>5, <3>1, <3>2
  <2>4. n + 1 \in DOMAIN held'[place] /\ held'[place][n + 1] = item
    BY <1>5, <1>7
  <2>5. <<"held", place, n + 1>> \in Whereabouts(item)'
    BY <1>4, <2>4, WhereIsNext
  <2>6. \A v \in Whereabouts(item)' : v = <<"held", place, n + 1>>
    BY <1>4, <2>1, <2>2, <2>3, WhereIsNext
  <2>7. Whereabouts(item)' = {<<"held", place, n + 1>>}
    BY <2>5, <2>6
  <2> QED  BY <2>7
<1>8. CASE item # fresh
  <2>1. item \in sent
    BY <1>4, <1>8
  <2>2. \A p \in OnTheWay : \A i : i \in DOMAIN held'[p] /\ held'[p][i] = item
                                   <=> i \in DOMAIN held[p] /\ held[p][i] = item
    <3> SUFFICES ASSUME NEW p \in OnTheWay, NEW i
                 PROVE  i \in DOMAIN held'[p] /\ held'[p][i] = item
                        <=> i \in DOMAIN held[p] /\ held[p][i] = item
      OBVIOUS
    <3>1. CASE p # place
      BY <1>5, <3>1 DEF OnTheWay
    <3>2. CASE p = place
      BY <1>5, <1>8, <3>2
    <3> QED  BY <3>1, <3>2
  <2>3. \A w : w \in Whereabouts(item)' <=> w \in Whereabouts(item)
    BY <1>4, <2>2, WhereIs, WhereIsNext
  <2>4. Whereabouts(item)' = Whereabouts(item)
    BY <2>3
  <2> QED  BY <2>1, <2>4 DEF PipeInv, WhereInv
<1> QED  BY <1>7, <1>8

\* Nothing moves.
LEMMA Unmoved ==
  ASSUME PipeInv, UNCHANGED <<held, rest, target, gone, lost, kind, sent>>
  PROVE  WhereInv'
<1> SUFFICES ASSUME NEW item \in sent PROVE \E w : Whereabouts(item)' = {w}
  BY DEF WhereInv
<1>1. \A w : w \in Whereabouts(item)' <=> w \in Whereabouts(item)
  BY WhereIs, WhereIsNext
<1>2. Whereabouts(item)' = Whereabouts(item)
  BY <1>1
<1> QED  BY <1>2 DEF PipeInv, WhereInv

-----------------------------------------------------------------------------
(* Every step keeps the invariant.                                         *)
LEMMA PipeInvInit ==
  ASSUME Init
  PROVE  PipeInv
<1> USE DEF Init, PumpInit
<1>1. StagesInv
  BY DEF StagesInv
<1>2. ItemsInv
  BY FS_EmptySet DEF ItemsInv
<1>3. WorkInv
  BY DEF WorkInv
<1>4. WhereInv
  BY DEF WhereInv
<1> QED  BY <1>1, <1>2, <1>3, <1>4 DEF PipeInv

LEMMA SameJobs ==
  ASSUME kind' = kind
  PROVE  OnTheWay' = OnTheWay /\ GoodJob' = GoodJob
<1>1. OnTheWay' = OnTheWay
  BY DEF OnTheWay, Tees
<1>2. Targets' = Targets
  BY <1>1 DEF Targets
<1> QED  BY <1>1, <1>2 DEF GoodJob

LEMMA ArriveKeeps ==
  ASSUME PipeInv, NEW place \in OnTheWay, NEW origin, NEW face, Arrive(place, origin, face)
  PROVE  PipeInv'
<1>1. kind' = kind /\ stages' = stages /\ chosen' = chosen
  BY DEF Arrive
<1>2. StagesInv'
  BY <1>1 DEF PipeInv, StagesInv
<1>3. ItemsInv'
  <2> DEFINE fresh == Fresh(origin, face)
  <2>1. sent' = sent \cup {fresh} /\ held' = [held EXCEPT ![place] = Append(@, fresh)]
        /\ UNCHANGED <<chunk, rest, gone, lost>>
    BY DEF Arrive
  <2>2. IsFiniteSet(sent) /\ Cardinality(sent) \in Nat /\ fresh[3] = Cardinality(sent) + 1
    BY FS_CardinalityType DEF PipeInv, ItemsInv, Fresh
  <2> HIDE DEF fresh
  <2>3. fresh \notin sent
    BY <2>2 DEF PipeInv, ItemsInv
  <2>4. IsFiniteSet(sent') /\ Cardinality(sent') = Cardinality(sent) + 1
    BY <2>1, <2>2, <2>3, FS_AddElement
  <2>5. \A item \in sent' : item[3] \in Nat /\ item[3] <= Cardinality(sent')
    BY <2>1, <2>2, <2>4 DEF PipeInv, ItemsInv
  <2>6. held' \in [Place -> Seq(sent')]
    <3>1. held \in [Place -> Seq(sent)]
      BY DEF PipeInv, ItemsInv
    <3>2. \A p \in Place : held'[p] = held[p] \/ held'[p] = Append(held[p], fresh)
      BY <2>1, <3>1
    <3>3. ASSUME NEW p \in Place PROVE held'[p] \in Seq(sent')
      <4> DEFINE h == held[p]
      <4>1. h \in Seq(sent)
        BY <3>1
      <4>2. held'[p] = h \/ held'[p] = Append(h, fresh)
        BY <3>2
      <4> HIDE DEF h
      <4>3. h \in Seq(sent') /\ fresh \in sent'
        BY <2>1, <4>1
      <4> QED  BY <4>2, <4>3
    <3>4. held' = [p \in Place |-> held'[p]]
      BY <2>1, <3>1
    <3> QED  BY <3>3, <3>4
  <2>7. chunk' \in Seq(sent') /\ rest' \in Seq(sent') /\ gone' \subseteq sent' /\ lost' \subseteq sent'
    BY <2>1 DEF PipeInv, ItemsInv
  <2> QED  BY <2>4, <2>5, <2>6, <2>7 DEF ItemsInv
<1>4. WorkInv'
  BY <1>1, SameJobs DEF PipeInv, WorkInv, Arrive
<1>5. WhereInv'
  BY ArrivedIsSomewhere DEF WhereInv
<1> QED  BY <1>2, <1>3, <1>4, <1>5 DEF PipeInv

\* Selections and the list of stages move nothing.
LEMMA SettingsKeep ==
  ASSUME PipeInv, NEW s \in Stage,
         AddStage(s) \/ RemoveStage(s) \/ \E k \in 0..2 : Select(s, k)
  PROVE  PipeInv'
<1>1. UNCHANGED <<pvars, kind, call, sent>>
  BY DEF AddStage, RemoveStage, Select
<1>2. StagesInv'
  <2>1. stages \in Seq(Stage) /\ chosen \in [Stage -> 0..2] /\ kind \in Nets
    BY DEF PipeInv, StagesInv
  <2>2. CASE AddStage(s)
    BY <2>1, <2>2 DEF AddStage, StagesInv
  <2>3. CASE RemoveStage(s)
    <3>1. PICK i \in DOMAIN stages : stages' = RemoveAt(stages, i)
      BY <2>3 DEF RemoveStage
    <3>2. stages' \in Seq(Stage)
      BY <2>1, <3>1 DEF RemoveAt
    <3> QED  BY <2>1, <2>3, <3>2 DEF RemoveStage, StagesInv
  <2>4. CASE \E k \in 0..2 : Select(s, k)
    BY <2>1, <2>4 DEF Select, StagesInv
  <2> QED  BY <2>2, <2>3, <2>4
<1>3. ItemsInv'
  BY <1>1 DEF PipeInv, ItemsInv, pvars
<1>4. WorkInv'
  BY <1>1, SameJobs DEF PipeInv, WorkInv, pvars
<1>5. WhereInv'
  BY <1>1, Unmoved DEF pvars
<1> QED  BY <1>2, <1>3, <1>4, <1>5 DEF PipeInv

LEMMA StartKeeps ==
  ASSUME PipeInv, NEW phase \in {"begin", "tick"}, Start(phase)
  PROVE  PipeInv'
<1>1. /\ UNCHANGED <<held, chunk, rest, target, gone, lost, kind, chosen, stages, left, sent>>
      /\ call' = phase /\ work' = PhaseJobs(phase) /\ call = "idle"
  BY DEF Start
<1>2. StagesInv'
  BY <1>1 DEF PipeInv, StagesInv
<1>3. ItemsInv'
  BY <1>1 DEF PipeInv, ItemsInv
<1>4. WorkInv'
  <2>1. work' \in Seq(GoodJob')
    BY <1>1, PhaseJobsGood, SameJobs DEF PipeInv
  <2>2. work = <<>> /\ chunk = <<>> /\ rest = <<>> /\ target = 0
    BY <1>1 DEF PipeInv, WorkInv
  <2> QED  BY <1>1, <2>1, <2>2 DEF WorkInv
<1>5. WhereInv'
  BY <1>1, Unmoved
<1> QED  BY <1>2, <1>3, <1>4, <1>5 DEF PipeInv

\* What a phase does leaves the settings alone and keeps the items.
LEMMA TakeChunkKeeps ==
  ASSUME PipeInv, TakeChunk, UNCHANGED <<kind, sent>>
  PROVE  /\ ItemsInv' /\ WhereInv' /\ work # <<>> /\ work' = work
         /\ chunk' = <<>> => rest' = <<>> /\ target' = 0
         /\ chunk' # <<>> => ~Head(work).whole /\ target' \in DOMAIN Head(work).to
<1> DEFINE from == Head(work).from
           to == Head(work).to
<1>1. from \in Place /\ to \in Seq(Place) /\ ~Head(work).whole
      /\ work # <<>> /\ work' = work /\ lost' = lost
  BY DEF PipeInv, WorkInv, TakeChunk, GoodJob, Job
<1>2. held \in [Place -> Seq(sent)] /\ held[from] \in Seq(sent) /\ held[from] # <<>>
  BY <1>1 DEF PipeInv, ItemsInv, TakeChunk
<1>3. chunk = <<>> /\ rest = <<>> /\ target = 0
  BY DEF PipeInv, WorkInv, TakeChunk
<1>4. PICK k \in Handed(from) :
         LET piece == SubSeq(held[from], 1, k) IN
          /\ held' = [held EXCEPT ![from] = SubSeq(@, k + 1, Len(@))]
          /\ \/ /\ to = <<>>
                /\ gone' = gone \cup Elements(piece)
                /\ UNCHANGED <<chunk, rest, target>>
             \/ /\ to # <<>>
                /\ chunk' = piece /\ rest' = piece /\ target' = 1
                /\ UNCHANGED gone
  BY DEF TakeChunk
<1> HIDE DEF from, to
<1>5. k \in 1..Len(held[from])
  BY <1>2, PumpAssumption DEF Handed, AtMost
<1> DEFINE piece == SubSeq(held[from], 1, k)
           remains == SubSeq(held[from], k + 1, Len(held[from]))
<1>6. piece \in Seq(sent) /\ Len(piece) = k
  BY <1>2, <1>5, FrontPart
<1>7. remains \in Seq(sent)
  BY <1>2, <1>5, BackPart
<1>8. held' = [held EXCEPT ![from] = remains]
  BY <1>1, <1>2, <1>4
<1>9. \/ to = <<>> /\ gone' = gone \cup Elements(piece) /\ chunk' = <<>> /\ rest' = <<>> /\ target' = 0
      \/ to # <<>> /\ chunk' = piece /\ rest' = piece /\ target' = 1 /\ gone' = gone
  BY <1>3, <1>4
<1> HIDE DEF piece, remains
<1>10. Elements(piece) \subseteq sent
  BY <1>6 DEF Elements
<1>11. ItemsInv'
  <2>1. held' \in [Place -> Seq(sent)]
    BY <1>2, <1>7, <1>8
  <2>2. chunk' \in Seq(sent) /\ rest' \in Seq(sent) /\ gone' \subseteq sent /\ lost' \subseteq sent
    BY <1>1, <1>6, <1>9, <1>10 DEF PipeInv, ItemsInv
  <2> QED  BY <2>1, <2>2 DEF PipeInv, ItemsInv
<1>12. WhereInv'
  BY TakenIsSomewhere DEF WhereInv
<1>13. to # <<>> => 1 \in DOMAIN to
  BY <1>1 DEF to
<1>14. chunk' # <<>> => ~Head(work).whole /\ target' \in DOMAIN Head(work).to
  BY <1>1, <1>9, <1>13 DEF to
<1>15. chunk' = <<>> => rest' = <<>> /\ target' = 0
  BY <1>5, <1>6, <1>9
<1> QED  BY <1>1, <1>11, <1>12, <1>14, <1>15

LEMMA PushPartKeeps ==
  ASSUME PipeInv, PushPart, UNCHANGED <<kind, sent>>
  PROVE  /\ ItemsInv' /\ WhereInv' /\ work # <<>> /\ work' = work
         /\ chunk' = <<>> => rest' = <<>> /\ target' = 0
         /\ chunk' # <<>> => ~Head(work).whole /\ target' \in DOMAIN Head(work).to
<1> DEFINE to == Head(work).to
           sink == to[target]
<1>1. /\ to \in Seq(Place) /\ target \in DOMAIN to /\ ~Head(work).whole /\ chunk # <<>>
      /\ work # <<>> /\ work' = work /\ gone' = gone /\ lost' = lost
  BY SMTT(40) DEF PipeInv, WorkInv, PushPart, GoodJob, Job
<1>2. PICK w \in Taken(sink) :
       /\ held' = [held EXCEPT ![sink] = @ \o SubSeq(rest, 1, w)]
       /\ \/ w < Len(rest) /\ rest' = RestOf(w) /\ UNCHANGED <<chunk, target>>
          \/ /\ w = Len(rest) /\ target < Len(to)
             /\ rest' = chunk /\ target' = target + 1 /\ UNCHANGED chunk
          \/ w = Len(rest) /\ target = Len(to) /\ NoChunk
  BY DEF PushPart
<1> HIDE DEF to
<1>3. held \in [Place -> Seq(sent)] /\ rest \in Seq(sent) /\ chunk \in Seq(sent)
  BY DEF PipeInv, ItemsInv
<1>4. sink \in Place
  BY <1>1
<1> HIDE DEF sink
<1>5. w \in 0..Len(rest)
  BY <1>3 DEF Taken
<1>6. SubSeq(rest, 1, w) \in Seq(sent) /\ SubSeq(rest, w + 1, Len(rest)) \in Seq(sent)
  BY <1>3, <1>5, FrontPart, BackPart
<1> DEFINE all == held[sink] \o SubSeq(rest, 1, w)
<1>7. all \in Seq(sent)
  <2> DEFINE a == held[sink]  b == SubSeq(rest, 1, w)
  <2>1. a \in Seq(sent) /\ b \in Seq(sent)
    BY <1>3, <1>4, <1>6
  <2> HIDE DEF a, b
  <2>2. a \o b \in Seq(sent)
    BY <2>1
  <2> QED  BY <2>2 DEF a, b
<1>8. held' = [held EXCEPT ![sink] = all]
  BY <1>2, <1>3, <1>4
<1> HIDE DEF all
<1>9. ItemsInv'
  <2>1. held' \in [Place -> Seq(sent)]
    BY <1>3, <1>7, <1>8
  <2>2. chunk' \in Seq(sent) /\ rest' \in Seq(sent)
    <3>1. <<>> \in Seq(sent)
      OBVIOUS
    <3>2. RestOf(w) \in Seq(sent)
      BY <1>6 DEF RestOf
    <3> QED  BY <1>2, <1>3, <3>1, <3>2 DEF NoChunk
  <2> QED  BY <1>1, <2>1, <2>2 DEF PipeInv, ItemsInv
<1>10. WhereInv'
  BY PushedIsSomewhere DEF WhereInv
<1>11. chunk' # <<>> => target' \in DOMAIN to
  BY <1>1, <1>2 DEF NoChunk
<1>12. chunk' = <<>> => rest' = <<>> /\ target' = 0
  BY <1>1, <1>2 DEF NoChunk
<1> QED  BY <1>1, <1>9, <1>10, <1>11, <1>12 DEF to

LEMMA ConvertKeeps ==
  ASSUME PipeInv, Convert, UNCHANGED <<kind, sent>>
  PROVE  ItemsInv' /\ WhereInv' /\ work # <<>> /\ UNCHANGED <<work, chunk, rest, target>>
<1> DEFINE from == Head(work).from
           sink == Head(work).to[1]
<1>1. from \in Place /\ sink \in Place /\ sink # from
  <2>1. Head(work) \in GoodJob /\ Head(work).whole
    BY DEF PipeInv, WorkInv, Convert
  <2>2. Head(work).to \in Seq(Place) /\ Len(Head(work).to) = 1
    BY <2>1 DEF GoodJob, Job
  <2> QED  BY <2>1, <2>2 DEF GoodJob, Job
<1>2. held' = [held EXCEPT ![from] = <<>>, ![sink] = @ \o held[from]]
  BY DEF Convert
<1> HIDE DEF from, sink
<1>3. held \in [Place -> Seq(sent)]
  BY DEF PipeInv, ItemsInv
<1>4. held' \in [Place -> Seq(sent)]
  <2> DEFINE a == held[sink]  b == held[from]
             all == a \o b
  <2>1. a \in Seq(sent) /\ b \in Seq(sent)
    BY <1>1, <1>3
  <2>2. /\ held'[from] = <<>> /\ held'[sink] = all
        /\ \A p \in Place : p # from /\ p # sink => held'[p] = held[p]
    BY <1>1, <1>2, <1>3
  <2>3. held' = [p \in Place |-> held'[p]]
    BY <1>2, <1>3
  <2> HIDE DEF a, b
  <2>4. all \in Seq(sent) /\ <<>> \in Seq(sent)
    BY <2>1
  <2> HIDE DEF all
  <2>5. \A p \in Place : held'[p] \in Seq(sent)
    BY <1>3, <2>2, <2>4
  <2> QED  BY <2>3, <2>5
<1>5. work # <<>> /\ UNCHANGED <<work, chunk, rest, target, gone, lost>>
  BY DEF Convert
<1>6. ItemsInv'
  BY <1>4, <1>5 DEF PipeInv, ItemsInv
<1>7. WhereInv'
  BY ConvertedIsSomewhere DEF WhereInv
<1> QED  BY <1>5, <1>6, <1>7

LEMMA PhaseKeeps ==
  ASSUME PipeInv, Phase(GoesOn) \/ Phase(Fails)
  PROVE  PipeInv'
<1>1. /\ UNCHANGED <<kind, chosen, stages, left, sent>> /\ (GoesOn \/ Fails)
      /\ call' = IF work' = <<>> THEN "idle" ELSE call
  BY DEF Phase
<1>2. StagesInv'
  BY <1>1 DEF PipeInv, StagesInv
<1>3. GoodJob' = GoodJob
  BY <1>1, SameJobs
<1>4. work \in Seq(GoodJob) /\ (call = "idle" => work = <<>>)
  BY DEF PipeInv, WorkInv
<1> DEFINE Kept == /\ ItemsInv' /\ WhereInv'
                   /\ work' \in Seq(GoodJob) /\ work # <<>>
                   /\ chunk' = <<>> => rest' = <<>> /\ target' = 0
                   /\ chunk' # <<>> => /\ work' # <<>> /\ ~Head(work').whole
                                       /\ target' \in DOMAIN Head(work').to
<1>5. ASSUME TakeChunk PROVE Kept
  BY <1>1, <1>4, <1>5, TakeChunkKeeps
<1>6. ASSUME PushPart PROVE Kept
  BY <1>1, <1>4, <1>6, PushPartKeeps
<1>7. ASSUME Convert PROVE Kept
  <2>1. ItemsInv' /\ WhereInv' /\ work # <<>> /\ UNCHANGED <<work, chunk, rest, target>>
    BY <1>1, <1>7, ConvertKeeps
  <2> QED  BY <1>4, <2>1 DEF PipeInv, WorkInv
<1>8. ASSUME NextJob PROVE Kept
  <2>1. work # <<>> /\ work' = Tail(work) /\ UNCHANGED <<held, chunk, rest, target, gone, lost>>
        /\ chunk = <<>>
    BY <1>8 DEF NextJob
  <2>2. work' \in Seq(GoodJob)
    BY <1>4, <2>1
  <2>3. WhereInv'
    BY <1>1, <2>1, Unmoved
  <2>4. ItemsInv'
    BY <1>1, <2>1 DEF PipeInv, ItemsInv
  <2>5. chunk' = <<>> /\ rest' = <<>> /\ target' = 0
    BY <2>1 DEF PipeInv, WorkInv
  <2> QED  BY <2>1, <2>2, <2>3, <2>4, <2>5
<1>9. ASSUME Fails PROVE Kept
  <2>1. /\ work # <<>> /\ work' = <<>> /\ chunk' = <<>> /\ rest' = <<>> /\ target' = 0
        /\ held' = held /\ gone' = gone
        /\ lost' = lost \cup (IF target = 1 THEN Elements(rest) ELSE {})
    BY <1>9 DEF Fails, NoChunk
  <2>2. rest \in Seq(sent)
    BY DEF PipeInv, ItemsInv
  <2>3. Elements(rest) \subseteq sent
    BY <2>2 DEF Elements
  <2>4. lost' \subseteq sent
    BY <2>1, <2>3 DEF PipeInv, ItemsInv
  <2>5. ItemsInv'
    BY <1>1, <2>1, <2>4 DEF PipeInv, ItemsInv
  <2>6. WhereInv'
    BY <1>1, <1>9, LostIsSomewhere DEF WhereInv
  <2> QED  BY <2>1, <2>5, <2>6
<1>10. Kept
  BY <1>1, <1>5, <1>6, <1>7, <1>8, <1>9 DEF GoesOn
<1>11. WorkInv'
  BY <1>1, <1>3, <1>4, <1>10 DEF WorkInv
<1> QED  BY <1>2, <1>10, <1>11 DEF PipeInv

LEMMA PipeInvStep ==
  ASSUME PipeInv, [Next]_vars
  PROVE  PipeInv'
<1>1. ASSUME NEW f \in Face, Push(f) PROVE PipeInv'
  <2>1. <<Own, "in", f>> \in OnTheWay
    <3>1. Own \notin Tees
      BY OwnEnds DEF Carrying, InOf
    <3> QED  BY <3>1 DEF OnTheWay, Place
  <2> QED  BY <1>1, <2>1, ArriveKeeps DEF Push
<1>2. ASSUME NEW f \in Face, NEW u \in Sources, Feed(u, f) PROVE PipeInv'
  <2>1. <<u, "out", f>> \in OnTheWay
    BY PipelineAssumption DEF OnTheWay, Place
  <2> QED  BY <1>2, <2>1, ArriveKeeps DEF Feed
<1>3. ASSUME NEW s \in Stage, AddStage(s) \/ RemoveStage(s) \/ \E k \in 0..2 : Select(s, k)
      PROVE  PipeInv'
  BY <1>3, SettingsKeep
<1>4. ASSUME NEW phase \in {"begin", "tick"}, Start(phase) PROVE PipeInv'
  BY <1>4, StartKeeps
<1>5. ASSUME Phase(GoesOn) \/ Phase(Fails) PROVE PipeInv'
  BY <1>5, PhaseKeeps
<1>6. ASSUME UNCHANGED vars PROVE PipeInv'
  <2>1. UNCHANGED <<held, work, chunk, rest, target, gone, lost, kind, chosen, stages, call, sent>>
    BY <1>6 DEF vars, pvars
  <2>2. StagesInv' /\ ItemsInv'
    BY <2>1 DEF PipeInv, StagesInv, ItemsInv
  <2>3. WorkInv'
    BY <2>1, SameJobs DEF PipeInv, WorkInv
  <2>4. WhereInv'
    BY <2>1, Unmoved
  <2> QED  BY <2>2, <2>3, <2>4 DEF PipeInv
<1> QED  BY <1>1, <1>2, <1>3, <1>4, <1>5, <1>6 DEF Next

\* Every state of the pipeline satisfies the invariant.
THEOREM PipelineSafe == Spec => []PipeInv
<1>1. Init => PipeInv
  BY PipeInvInit
<1>2. PipeInv /\ [Next]_vars => PipeInv'
  BY PipeInvStep
<1> QED  BY <1>1, <1>2, PTL DEF Spec

\* Each element sent is at one place, or dropped on request, or lost to an
\* error, and never two of these: for any stages, sources and sinks, chunks of
\* any size, and whichever operation fails (dt_pipe_pump, splitter_copy, pl_run).
THEOREM PipelineConserved == Spec => []Conserved
<1>1. PipeInv => Conserved
  <2> SUFFICES ASSUME PipeInv, NEW item \in sent PROVE Cardinality(Whereabouts(item)) = 1
    BY DEF Conserved
  <2>1. PICK w : Whereabouts(item) = {w}
    BY DEF PipeInv, WhereInv
  <2> QED  BY <2>1, FS_Singleton
<1> QED  BY <1>1, PipelineSafe, PTL

-----------------------------------------------------------------------------
(* A tick that succeeds settles.  What a stage holds, or has outside to    *)
(* take from, is taken by a job to come until it is empty.                 *)
Due(p, jobs) == \E i \in DOMAIN jobs : jobs[i].from = p

Watches(s, p) == p[1] = s \/ (p[1] \in Reads(s) /\ p[2] = "out")

\* What a tick has to leave empty.
Ours(p) == \E i \in DOMAIN stages : Watches(stages[i], p) /\ ~Stuck(stages[i], p)

\* What is moved to such a place is taken on by a later job, except for some.
Forwarded(jobs, except) ==
  \A k \in DOMAIN jobs : \A p \in Elements(jobs[k].to) :
    Ours(p) /\ p \notin except => \E m \in DOMAIN jobs : m > k /\ jobs[m].from = p

JobsInto(P) == {job \in Job : job.to \in Seq(P)}

Inlets(s)  == {p \in Place : p[1] = s /\ p[2] = "in"}
Outlet(s)  == {p \in Place : p[1] = s /\ p[2] = "out"}
Outside    == {p \in Place : p[1] \in Ext /\ p[2] = "in"}
Outlets(s) == Outlet(s) \cup Outside

\* The ends of a transfer lead to the places they stand for.
LEMMA AbleInto ==
  ASSUME NEW P, NEW E, \A e \in E : \A f \in Face : At(e[1], e[2], f) \in P,
         NEW ends \in Seq(E), NEW face \in Face
  PROVE  Able(ends, face) \in Seq(P)
<1> DEFINE n == Len(ends)
           seqs == [i \in 1..n |->
             IF Has(ends[i][1], face) THEN << At(ends[i][1], ends[i][2], face) >> ELSE <<>>]
<1>1. n \in Nat /\ DOMAIN ends = 1..n
  OBVIOUS
<1>2. Able(ends, face) = FlattenSeq(seqs)
  BY <1>1 DEF Able
<1>3. ASSUME NEW i \in 1..n PROVE seqs[i] \in Seq(P)
  <2>1. ends[i] \in E
    BY <1>1
  <2>2. At(ends[i][1], ends[i][2], face) \in P
    BY <2>1
  <2> QED  BY <2>2
<1>4. seqs \in [1..n -> Seq(P)]
  <2>1. seqs = [i \in 1..n |-> seqs[i]]
    OBVIOUS
  <2> HIDE DEF seqs
  <2> QED  BY <1>3, <2>1
<1> HIDE DEF seqs, n
<1> QED  BY <1>1, <1>2, <1>4, FlattenedSeq

LEMMA TransferInto ==
  ASSUME NEW P, P \subseteq Place, NEW E, \A e \in E : \A f \in Face : At(e[1], e[2], f) \in P,
         NEW from \in End, NEW ends \in Seq(E)
  PROVE  Transfer(from, ends) \in Seq(JobsInto(P))
<1>1. ASSUME NEW face \in Face PROVE Move(from, ends, face) \in Seq(JobsInto(P))
  <2> DEFINE job == [from |-> At(from[1], from[2], face), to |-> Able(ends, face), whole |-> FALSE]
  <2>1. Able(ends, face) \in Seq(P)
    BY AbleInto
  <2>2. Able(ends, face) \in Seq(Place)
    BY <2>1
  <2>3. At(from[1], from[2], face) \in Place
    BY AtPlace
  <2>4. job \in JobsInto(P)
    BY <2>1, <2>2, <2>3 DEF JobsInto, Job
  <2>5. Move(from, ends, face) = << job >> \/ Move(from, ends, face) = <<>>
    BY DEF Move
  <2> HIDE DEF job
  <2>6. << job >> \in Seq(JobsInto(P)) /\ <<>> \in Seq(JobsInto(P))
    BY <2>4
  <2> QED  BY <2>5, <2>6
<1>2. Move(from, ends, "hard") \in Seq(JobsInto(P)) /\ Move(from, ends, "soft") \in Seq(JobsInto(P))
  BY <1>1 DEF Face
<1> QED  BY <1>2 DEF Transfer

LEMMA OneAble ==
  ASSUME NEW e, NEW face, Has(e[1], face)
  PROVE  Able(<< e >>, face) = << At(e[1], e[2], face) >>
<1> DEFINE seqs == [i \in DOMAIN << e >> |->
             IF Has(<< e >>[i][1], face) THEN << At(<< e >>[i][1], << e >>[i][2], face) >> ELSE <<>>]
           one == << At(e[1], e[2], face) >>
<1>1. Able(<< e >>, face) = FlattenSeq(seqs)
  BY DEF Able
<1>2. Len(seqs) = 1 /\ seqs[1] = one
  OBVIOUS
<1> HIDE DEF seqs, one
<1>3. PICK n \in Nat : n = 1
  OBVIOUS
<1>4. PICK Good : Good = {one}
  OBVIOUS
<1>5. n > 0 /\ Len(seqs) = n /\ seqs[1] \in Good /\ \A g \in Good : \A i \in 2..n : g \o seqs[i] \in Good
  BY <1>2, <1>3, <1>4
<1>6. FlattenSeq(seqs) \in Good
  BY <1>5, Flattened
<1> QED  BY <1>1, <1>4, <1>6 DEF one

LEMMA NoneAble ==
  ASSUME NEW face
  PROVE  Able(<<>>, face) = <<>>
<1> DEFINE seqs == [i \in DOMAIN << >> |->
             IF Has(<< >>[i][1], face) THEN << At(<< >>[i][1], << >>[i][2], face) >> ELSE <<>>]
<1>1. Able(<< >>, face) = FlattenSeq(seqs)
  BY DEF Able
<1>2. seqs = <<>>
  OBVIOUS
<1> HIDE DEF seqs
<1> QED  BY <1>1, <1>2 DEF FlattenSeq

LEMMA DueJoined ==
  ASSUME NEW S, NEW a \in Seq(S), NEW b \in Seq(S), NEW p, Due(p, a) \/ Due(p, b)
  PROVE  Due(p, a \o b)
<1> DEFINE g == a \o b
<1>1. /\ Len(g) = Len(a) + Len(b) /\ g \in Seq(S)
      /\ \A i \in 1..Len(a) : g[i] = a[i]
      /\ \A i \in 1..Len(b) : g[Len(a) + i] = b[i]
  BY JoinedParts
<1> HIDE DEF g
<1>2. DOMAIN g = 1..(Len(a) + Len(b)) /\ DOMAIN a = 1..Len(a) /\ DOMAIN b = 1..Len(b)
  BY <1>1
<1>3. CASE Due(p, a)
  BY <1>1, <1>2, <1>3 DEF Due, g
<1>4. CASE Due(p, b)
  <2>1. PICK i \in 1..Len(b) : b[i].from = p
    BY <1>2, <1>4 DEF Due
  <2>2. Len(a) + i \in DOMAIN g /\ g[Len(a) + i].from = p
    BY <1>1, <1>2, <2>1
  <2> QED  BY <2>2 DEF Due, g
<1> QED  BY <1>3, <1>4

\* A transfer takes each face that the source has, if it drops what it takes
\* or leads to a pipe.
LEMMA TransferDue ==
  ASSUME NEW from \in End, NEW face \in Face, Has(from[1], face),
         NEW ends, \/ ends = <<>>
                   \/ \E e \in End : ends = << e >> /\ e[1] \notin Ext
  PROVE  Due(At(from[1], from[2], face), Transfer(from, ends))
<1> DEFINE p == At(from[1], from[2], face)
<1>1. ends = <<>> \/ Able(ends, face) # <<>>
  <2>1. ASSUME NEW e \in End, ends = << e >>, e[1] \notin Ext PROVE Able(ends, face) # <<>>
    <3>1. Has(e[1], face)
      BY <2>1 DEF Has
    <3>2. Able(ends, face) = << At(e[1], e[2], face) >>
      BY <2>1, <3>1, OneAble
    <3> QED  BY <3>2
  <2> QED  BY <2>1
<1>2. Move(from, ends, face) = << [from |-> p, to |-> Able(ends, face), whole |-> FALSE] >>
  BY <1>1 DEF Move
<1>3. Due(p, Move(from, ends, face))
  <2> DEFINE job == [from |-> p, to |-> Able(ends, face), whole |-> FALSE]
  <2>1. job.from = p
    OBVIOUS
  <2> HIDE DEF job, p
  <2>2. 1 \in DOMAIN << job >> /\ << job >>[1] = job
    OBVIOUS
  <2>3. Due(p, << job >>)
    BY <2>1, <2>2 DEF Due
  <2> QED  BY <1>2, <2>3 DEF job
<1> DEFINE S == {[from |-> At(from[1], from[2], f), to |-> Able(ends, f), whole |-> FALSE] : f \in Face}
<1>4. ASSUME NEW f \in Face PROVE Move(from, ends, f) \in Seq(S)
  <2> DEFINE job == [from |-> At(from[1], from[2], f), to |-> Able(ends, f), whole |-> FALSE]
  <2>1. job \in S
    OBVIOUS
  <2>2. Move(from, ends, f) = << job >> \/ Move(from, ends, f) = <<>>
    BY DEF Move
  <2> HIDE DEF job, S
  <2>3. << job >> \in Seq(S) /\ <<>> \in Seq(S)
    BY <2>1
  <2> QED  BY <2>2, <2>3
<1> HIDE DEF S, p
<1>5. Move(from, ends, "hard") \in Seq(S) /\ Move(from, ends, "soft") \in Seq(S)
  BY <1>4 DEF Face
<1>6. Due(p, Move(from, ends, "hard")) \/ Due(p, Move(from, ends, "soft"))
  BY <1>3 DEF Face
<1>7. Due(p, Transfer(from, ends))
  BY <1>5, <1>6, DueJoined DEF Transfer
<1> QED  BY <1>7 DEF p

\* What is in one of the sequences joined is in all of them joined.
LEMMA FlattenedDue ==
  ASSUME NEW S, NEW n \in Nat, NEW seqs \in [1..n -> Seq(S)], NEW i \in 1..n,
         NEW p, Due(p, seqs[i])
  PROVE  Due(p, FlattenSeq(seqs))
<1> DEFINE Good == [j \in 1..n |-> {g \in Seq(S) : i <= j => Due(p, g)}]
<1>1. n > 0 /\ Len(seqs) = n /\ \A j \in 1..n : seqs[j] \in Seq(S)
  OBVIOUS
<1>2. \A j \in 1..n : \A g : g \in Good[j] <=> g \in Seq(S) /\ (i <= j => Due(p, g))
  OBVIOUS
<1> HIDE DEF Good
<1>3. seqs[1] \in Good[1]
  <2>1. 1 \in 1..n /\ (i <= 1 => i = 1)
    BY <1>1
  <2>2. seqs[1] \in Seq(S)
    BY <1>1, <2>1
  <2> QED  BY <1>2, <2>1, <2>2
<1>4. ASSUME NEW j \in 2..n, NEW g \in Good[j-1] PROVE g \o seqs[j] \in Good[j]
  <2>1. j - 1 \in 1..n /\ j \in 1..n /\ (i <= j => i <= j - 1 \/ i = j)
    OBVIOUS
  <2>2. g \in Seq(S) /\ seqs[j] \in Seq(S) /\ (i <= j - 1 => Due(p, g))
    BY <1>1, <1>2, <2>1
  <2>3. i <= j => Due(p, g) \/ Due(p, seqs[j])
    BY <2>1, <2>2
  <2>4. i <= j => Due(p, g \o seqs[j])
    BY <2>2, <2>3, DueJoined
  <2>5. g \o seqs[j] \in Seq(S)
    BY <2>2
  <2> QED  BY <1>2, <2>1, <2>4, <2>5
<1>5. FlattenSeq(seqs) \in Good[n]
  BY <1>1, <1>3, <1>4, FlattenedBy
<1>6. n \in 1..n /\ i <= n
  BY <1>1
<1> QED  BY <1>2, <1>5, <1>6

-----------------------------------------------------------------------------
(* The tick of a stage.                                                    *)
OutEnds(s) == {OutOf(s)} \cup {InOf(u) : u \in Ext}

LEMMA OutEndsLead ==
  ASSUME NEW s \in Stage
  PROVE  \A e \in OutEnds(s) : e \in End /\ \A f \in Face : At(e[1], e[2], f) \in Outlets(s)
<1>1. OutOf(s) \in End /\ \A f \in Face : At(OutOf(s)[1], OutOf(s)[2], f) \in Outlets(s)
  <2>1. OutOf(s) = <<s, "out">> /\ OutOf(s) \in End
    BY StageEnds DEF OutOf
  <2>2. \A f \in Face : At(s, "out", f) = <<s, "out", f>>
    BY DEF At
  <2>3. \A f \in Face : <<s, "out", f>> \in Outlets(s)
    BY DEF Outlets, Outlet, Place
  <2> QED  BY <2>1, <2>2, <2>3
<1>2. ASSUME NEW u \in Ext
      PROVE  InOf(u) \in End /\ \A f \in Face : At(InOf(u)[1], InOf(u)[2], f) \in Outlets(s)
  <2>1. InOf(u) = <<u, "in">> /\ InOf(u) \in End /\ u \notin Stage
    BY OutsideEnds, PumpAssumption DEF InOf
  <2>2. \A f \in Face : At(u, "in", f) = <<u, "in", f>>
    BY <2>1 DEF At
  <2>3. \A f \in Face : <<u, "in", f>> \in Outlets(s)
    BY DEF Outlets, Outside, Place
  <2> QED  BY <2>1, <2>2, <2>3
<1> QED  BY <1>1, <1>2 DEF OutEnds

\* What a stage's tick moves, it moves out of the stage or outside.
LEMMA RunInto ==
  ASSUME StagesInv, NEW s \in Stage
  PROVE  Run(s) \in Seq(JobsInto(Outlets(s)))
<1> DEFINE Jobs == Seq(JobsInto(Outlets(s)))
           to(i) == IF chosen[s] = i THEN << OutOf(s) >> ELSE <<>>
           out(i) == << OutOf(s) >>
<1>1. kind[s] \in Kind /\ chosen[s] \in 0..2
  BY PipelineAssumption DEF StagesInv
<1>2. /\ InOf(s) \in End /\ << OutOf(s) >> \in Seq(OutEnds(s)) /\ <<>> \in Seq(OutEnds(s))
      /\ SinksOf[s] \in Seq(Ext) /\ SourcesOf[s] \in Seq(Ext)
  BY StageEnds, RoutingAssumption DEF OutEnds
<1>3. Sinks(s) \in Seq(OutEnds(s)) /\ Len(Sinks(s)) = Len(SinksOf[s])
  <2> DEFINE m == Len(SinksOf[s])
  <2>1. m \in Nat /\ DOMAIN SinksOf[s] = 1..m /\ \A i \in 1..m : SinksOf[s][i] \in Ext
    BY <1>2
  <2>2. \A i \in 1..m : InOf(SinksOf[s][i]) \in OutEnds(s)
    BY <2>1 DEF OutEnds
  <2>3. Sinks(s) = [i \in 1..m |-> InOf(SinksOf[s][i])]
    BY <2>1 DEF Sinks
  <2> HIDE DEF m
  <2>4. Len(Sinks(s)) = m /\ Sinks(s) \in Seq(OutEnds(s))
    BY <2>1, <2>2, <2>3
  <2> QED  BY <2>4 DEF m
<1>4. ASSUME NEW from \in End, NEW ends \in Seq(OutEnds(s)) PROVE Transfer(from, ends) \in Jobs
  <2>1. Outlets(s) \subseteq Place
    BY DEF Outlets, Outlet, Outside
  <2> QED  BY <2>1, OutEndsLead, TransferInto
<1>5. ASSUME NEW To, DOMAIN To = DOMAIN SourcesOf[s], \A i \in DOMAIN SourcesOf[s] : To[i] \in Seq(OutEnds(s))
      PROVE  FlattenSeq([i \in DOMAIN SourcesOf[s] |-> Transfer(OutOf(SourcesOf[s][i]), To[i])]) \in Jobs
  <2> DEFINE n == Len(SourcesOf[s])
             seqs == [i \in 1..n |-> Transfer(OutOf(SourcesOf[s][i]), To[i])]
  <2>1. n \in Nat /\ DOMAIN SourcesOf[s] = 1..n
    BY <1>2
  <2>2. ASSUME NEW i \in 1..n PROVE seqs[i] \in Jobs
    <3>1. OutOf(SourcesOf[s][i]) \in End /\ To[i] \in Seq(OutEnds(s))
      BY <1>2, <1>5, <2>1, OutsideEnds
    <3> QED  BY <1>4, <3>1
  <2> HIDE DEF Jobs
  <2>3. seqs \in [1..n -> Jobs]
    <3>1. seqs = [i \in 1..n |-> seqs[i]]
      OBVIOUS
    <3> HIDE DEF seqs
    <3> QED  BY <2>2, <3>1
  <2> HIDE DEF seqs, n
  <2>4. FlattenSeq(seqs) \in Jobs
    BY <2>1, <2>3, FlattenedSeq DEF Jobs
  <2> QED  BY <2>1, <2>4 DEF seqs
<1> HIDE DEF Jobs
<1>6. ASSUME kind[s] \in Converter PROVE Run(s) \in Jobs
  <2> DEFINE sink == <<s, "out", IF kind[s] = "hardening" THEN "hard" ELSE "soft">>
             job == [from |-> <<s, "in", "soft">>, to |-> << sink >>, whole |-> TRUE]
  <2>1. sink \in Outlets(s) /\ sink \in Place /\ <<s, "in", "soft">> \in Place
    BY DEF Outlets, Outlet, Place, Face
  <2>2. Run(s) = << job >>
    BY <1>6 DEF Run, ConverterRun, Converter
  <2> HIDE DEF sink
  <2>3. << sink >> \in Seq(Outlets(s)) /\ << sink >> \in Seq(Place)
    BY <2>1
  <2>4. job \in JobsInto(Outlets(s))
    BY <2>1, <2>3 DEF JobsInto, Job
  <2> HIDE DEF job
  <2> QED  BY <2>2, <2>4 DEF Jobs
<1>7. ASSUME kind[s] = "splitter" PROVE Run(s) \in Jobs
  <2>1. << OutOf(s) >> \o Sinks(s) \in Seq(OutEnds(s))
    BY <1>2, <1>3
  <2> QED  BY <1>2, <1>4, <1>7, <2>1 DEF Run, SplitterRun, Converter
<1>8. ASSUME kind[s] = "diverter" PROVE Run(s) \in Jobs
  <2>1. ASSUME chosen[s] # 0, chosen[s] <= Len(SinksOf[s])
        PROVE  << Sinks(s)[chosen[s]] >> \in Seq(OutEnds(s))
    BY <1>1, <1>2, <1>3, <2>1
  <2> QED  BY <1>2, <1>4, <1>8, <2>1 DEF Run, DiverterRun, Converter
<1>9. ASSUME kind[s] = "selector" PROVE Run(s) \in Jobs
  <2> DEFINE To == [i \in DOMAIN SourcesOf[s] |-> to(i)]
  <2>1. \A i \in DOMAIN SourcesOf[s] : To[i] = to(i) /\ To[i] \in Seq(OutEnds(s))
    BY <1>2
  <2>2. FromSources(s, to) = FlattenSeq([i \in DOMAIN SourcesOf[s] |-> Transfer(OutOf(SourcesOf[s][i]), To[i])])
    BY <2>1 DEF FromSources
  <2>3. DOMAIN To = DOMAIN SourcesOf[s]
    OBVIOUS
  <2>4. to(0) \in Seq(OutEnds(s))
    BY <1>2
  <2>5. Run(s) = Transfer(InOf(s), to(0)) \o FromSources(s, to)
    BY <1>9 DEF Run, SelectorRun, Converter
  <2> HIDE DEF To, to
  <2>6. PICK all : all = FlattenSeq([i \in DOMAIN SourcesOf[s] |-> Transfer(OutOf(SourcesOf[s][i]), To[i])])
    OBVIOUS
  <2>7. all \in Jobs /\ Transfer(InOf(s), to(0)) \in Jobs
    BY <1>2, <1>4, <1>5, <2>1, <2>3, <2>4, <2>6
  <2> QED  BY <2>2, <2>5, <2>6, <2>7 DEF Jobs
<1>10. ASSUME kind[s] = "combiner" PROVE Run(s) \in Jobs
  <2> DEFINE To == [i \in DOMAIN SourcesOf[s] |-> out(i)]
  <2>1. \A i \in DOMAIN SourcesOf[s] : To[i] = out(i) /\ To[i] \in Seq(OutEnds(s))
    BY <1>2
  <2>2. FromSources(s, out) = FlattenSeq([i \in DOMAIN SourcesOf[s] |-> Transfer(OutOf(SourcesOf[s][i]), To[i])])
    BY <2>1 DEF FromSources
  <2>3. DOMAIN To = DOMAIN SourcesOf[s]
    OBVIOUS
  <2>4. out(0) \in Seq(OutEnds(s))
    BY <1>2
  <2>5. Run(s) = Transfer(InOf(s), out(0)) \o FromSources(s, out)
    BY <1>10 DEF Run, CombinerRun, Converter
  <2> HIDE DEF To, out
  <2>6. PICK all : all = FlattenSeq([i \in DOMAIN SourcesOf[s] |-> Transfer(OutOf(SourcesOf[s][i]), To[i])])
    OBVIOUS
  <2>7. all \in Jobs /\ Transfer(InOf(s), out(0)) \in Jobs
    BY <1>2, <1>4, <1>5, <2>1, <2>3, <2>4, <2>6
  <2> QED  BY <2>2, <2>5, <2>6, <2>7 DEF Jobs
<1>11. ASSUME kind[s] = "valve" PROVE Run(s) \in Jobs
  BY <1>2, <1>4, <1>11 DEF Run, ValveRun, Converter
<1>12. ASSUME kind[s] = "drain" PROVE Run(s) \in Jobs
  BY <1>2, <1>4, <1>12 DEF Run, DrainRun, Converter
<1>13. ASSUME kind[s] = "push_to" PROVE Run(s) \in Jobs
  <2>1. Len(SinksOf[s]) = 1
    BY <1>13, NetsAssumption DEF StagesInv
  <2>2. << Sinks(s)[1] >> \in Seq(OutEnds(s))
    BY <1>3, <2>1
  <2> QED  BY <1>2, <1>4, <1>13, <2>2 DEF Run, PushToRun, Converter
<1>14. ASSUME kind[s] = "pull_from" PROVE Run(s) \in Jobs
  <2>1. Len(SourcesOf[s]) = 1
    BY <1>14, NetsAssumption DEF StagesInv
  <2>2. OutOf(SourcesOf[s][1]) \in End
    BY <1>2, <2>1, OutsideEnds
  <2>3. /\ Transfer(InOf(s), <<>>) \in Jobs
        /\ Transfer(OutOf(SourcesOf[s][1]), << OutOf(s) >>) \in Jobs
    BY <1>2, <1>4, <2>2
  <2>4. Run(s) = Transfer(InOf(s), <<>>) \o Transfer(OutOf(SourcesOf[s][1]), << OutOf(s) >>)
    BY <1>14 DEF Run, PullFromRun, Converter
  <2> QED  BY <2>3, <2>4 DEF Jobs
<1>15. Run(s) \in Jobs
  BY <1>1, <1>6, <1>7, <1>8, <1>9, <1>10, <1>11, <1>12, <1>13, <1>14 DEF Kind
<1> QED  BY <1>15 DEF Jobs

\* Each outside source of a stage is read, whether what it yields is passed on
\* or dropped.
LEMMA ReadsDue ==
  ASSUME StagesInv, NEW s \in Stage, NEW u \in Reads(s), NEW face \in Face, Has(u, face)
  PROVE  Due(<<u, "out", face>>, Run(s))
<1> DEFINE p == <<u, "out", face>>
           Jobs == Seq(JobsInto(Outlets(s)))
           to(i) == IF chosen[s] = i THEN << OutOf(s) >> ELSE <<>>
           out(i) == << OutOf(s) >>
<1>1. /\ kind[s] \in {"selector", "combiner", "pull_from"} /\ u \in Elements(SourcesOf[s])
      /\ SourcesOf[s] \in Seq(Ext)
  BY RoutingAssumption DEF Reads
<1>2. PICK n \in Nat : n = Len(SourcesOf[s]) /\ DOMAIN SourcesOf[s] = 1..n
  BY <1>1
<1>3. PICK i \in 1..n : SourcesOf[s][i] = u
  BY <1>1, <1>2 DEF Elements
<1>4. /\ OutOf(s) \in End /\ OutOf(s)[1] \notin Ext /\ InOf(s) \in End
      /\ << OutOf(s) >> \in Seq(OutEnds(s)) /\ <<>> \in Seq(OutEnds(s))
  BY StageEnds DEF OutEnds
<1>5. \A j \in 1..n : OutOf(SourcesOf[s][j]) \in End
  BY <1>1, <1>2, OutsideEnds
<1>6. OutOf(u) \in End /\ At(OutOf(u)[1], OutOf(u)[2], face) = p /\ Has(OutOf(u)[1], face)
  BY <1>3, <1>5 DEF OutOf, At
<1>7. ASSUME NEW ends, ends = << OutOf(s) >> \/ ends = <<>> PROVE Due(p, Transfer(OutOf(u), ends))
  <2>1. ends = <<>> \/ \E e \in End : ends = << e >> /\ e[1] \notin Ext
    BY <1>4, <1>7
  <2> HIDE DEF p
  <2> QED  BY <1>6, <2>1, TransferDue
<1>8. ASSUME NEW from \in End, NEW ends, ends = << OutOf(s) >> \/ ends = <<>>
      PROVE  Transfer(from, ends) \in Jobs
  <2>1. Outlets(s) \subseteq Place /\ ends \in Seq(OutEnds(s))
    BY <1>4, <1>8 DEF Outlets, Outlet, Outside
  <2> QED  BY <2>1, OutEndsLead, TransferInto
<1> HIDE DEF p
<1>9. ASSUME NEW To, \A j \in 1..n : To[j] = << OutOf(s) >> \/ To[j] = <<>>,
             NEW all, all = FlattenSeq([j \in 1..n |-> Transfer(OutOf(SourcesOf[s][j]), To[j])])
      PROVE  Due(p, all) /\ all \in Jobs
  <2> DEFINE seqs == [j \in 1..n |-> Transfer(OutOf(SourcesOf[s][j]), To[j])]
  <2>1. ASSUME NEW j \in 1..n PROVE seqs[j] \in Jobs
    <3>1. OutOf(SourcesOf[s][j]) \in End
      BY <1>5
    <3> QED  BY <1>8, <1>9, <3>1
  <2>2. Due(p, seqs[i])
    BY <1>3, <1>7, <1>9
  <2> HIDE DEF Jobs
  <2>3. seqs \in [1..n -> Jobs]
    <3>1. seqs = [j \in 1..n |-> seqs[j]]
      OBVIOUS
    <3> HIDE DEF seqs
    <3> QED  BY <2>1, <3>1
  <2>4. all = FlattenSeq(seqs)
    BY <1>9
  <2> HIDE DEF seqs
  <2> QED  BY <2>2, <2>3, <2>4, FlattenedDue, FlattenedSeq DEF Jobs
<1> HIDE DEF Jobs
<1>10. CASE kind[s] = "selector"
  <2> DEFINE To == [j \in 1..n |-> to(j)]
  <2>1. \A j \in 1..n : To[j] = to(j) /\ (To[j] = << OutOf(s) >> \/ To[j] = <<>>)
    OBVIOUS
  <2>2. FromSources(s, to) = FlattenSeq([j \in 1..n |-> Transfer(OutOf(SourcesOf[s][j]), To[j])])
    BY <1>2, <2>1 DEF FromSources
  <2>3. Run(s) = Transfer(InOf(s), to(0)) \o FromSources(s, to)
    BY <1>10 DEF Run, SelectorRun, Converter
  <2>4. to(0) = << OutOf(s) >> \/ to(0) = <<>>
    OBVIOUS
  <2> HIDE DEF To, to
  <2>5. PICK all : all = FlattenSeq([j \in 1..n |-> Transfer(OutOf(SourcesOf[s][j]), To[j])])
    OBVIOUS
  <2>6. PICK a : a = Transfer(InOf(s), to(0))
    OBVIOUS
  <2>7. Run(s) = a \o all
    BY <2>2, <2>3, <2>5, <2>6
  <2>8. Due(p, all) /\ all \in Jobs /\ a \in Jobs
    BY <1>4, <1>8, <1>9, <2>1, <2>4, <2>5, <2>6
  <2> QED  BY <2>7, <2>8, DueJoined DEF Jobs, p
<1>11. CASE kind[s] = "combiner"
  <2> DEFINE To == [j \in 1..n |-> out(j)]
  <2>1. \A j \in 1..n : To[j] = out(j) /\ (To[j] = << OutOf(s) >> \/ To[j] = <<>>)
    OBVIOUS
  <2>2. FromSources(s, out) = FlattenSeq([j \in 1..n |-> Transfer(OutOf(SourcesOf[s][j]), To[j])])
    BY <1>2, <2>1 DEF FromSources
  <2>3. Run(s) = Transfer(InOf(s), out(0)) \o FromSources(s, out)
    BY <1>11 DEF Run, CombinerRun, Converter
  <2>4. out(0) = << OutOf(s) >> \/ out(0) = <<>>
    OBVIOUS
  <2> HIDE DEF To, out
  <2>5. PICK all : all = FlattenSeq([j \in 1..n |-> Transfer(OutOf(SourcesOf[s][j]), To[j])])
    OBVIOUS
  <2>6. PICK a : a = Transfer(InOf(s), out(0))
    OBVIOUS
  <2>7. Run(s) = a \o all
    BY <2>2, <2>3, <2>5, <2>6
  <2>8. Due(p, all) /\ all \in Jobs /\ a \in Jobs
    BY <1>4, <1>8, <1>9, <2>1, <2>4, <2>5, <2>6
  <2> QED  BY <2>7, <2>8, DueJoined DEF Jobs, p
<1>12. CASE kind[s] = "pull_from"
  <2>1. Len(SourcesOf[s]) = 1
    BY <1>12, NetsAssumption DEF StagesInv
  <2>2. SourcesOf[s][1] = u
    BY <1>2, <1>3, <2>1
  <2>3. Run(s) = Transfer(InOf(s), <<>>) \o Transfer(OutOf(SourcesOf[s][1]), << OutOf(s) >>)
    BY <1>12 DEF Run, PullFromRun, Converter
  <2>4. PICK a, b : a = Transfer(InOf(s), <<>>) /\ b = Transfer(OutOf(u), << OutOf(s) >>)
    OBVIOUS
  <2>5. a \in Jobs /\ b \in Jobs /\ Due(p, b)
    BY <1>4, <1>6, <1>7, <1>8, <2>4
  <2>6. Run(s) = a \o b
    BY <2>2, <2>3, <2>4
  <2> QED  BY <2>5, <2>6, DueJoined DEF Jobs, p
<1> QED  BY <1>1, <1>10, <1>11, <1>12

\* So what a stage watches and is not stuck is taken by its tick, but for what
\* it hands out itself.
LEMMA WatchedDue ==
  ASSUME StagesInv, NEW s \in Stage, NEW p \in Place,
         Watches(s, p), ~Stuck(s, p), Has(p[1], p[3]), p \notin Outlet(s)
  PROVE  Due(p, Run(s))
<1>1. p[2] \in {"in", "out"} /\ p[3] \in Face /\ p = <<p[1], p[2], p[3]>>
  BY DEF Place
<1>2. CASE p[1] = s
  <2>1. p[2] = "in"
    BY <1>1, <1>2 DEF Outlet
  <2> QED  BY <1>2, <2>1 DEF Stuck, Due
<1>3. CASE p[1] \in Reads(s) /\ p[2] = "out"
  <2>1. Due(<<p[1], "out", p[3]>>, Run(s))
    BY <1>1, <1>3, ReadsDue
  <2> QED  BY <1>1, <1>3, <2>1
<1> QED  BY <1>2, <1>3 DEF Watches

LEMMA OursInside ==
  ASSUME StagesInv, NEW p \in Place, Ours(p)
  PROVE  /\ p[1] # Own /\ p \notin Outside
         /\ p[1] \in Stage /\ p[2] = "in" => Due(p, Run(p[1]))
<1>1. PICK t \in Stage : Watches(t, p) /\ ~Stuck(t, p)
  BY DEF Ours, StagesInv
<1>2. Reads(t) \subseteq Ext
  BY RoutingAssumption DEF Reads, Elements
<1>3. Own \notin Ext \cup Stage /\ Ext \cap Stage = {}
  BY PumpAssumption
<1>4. p[1] # Own /\ p \notin Outside
  BY <1>1, <1>2, <1>3 DEF Watches, Outside
<1>5. ASSUME p[1] \in Stage, p[2] = "in" PROVE Due(p, Run(p[1]))
  <2>1. p[1] = t
    BY <1>1, <1>5 DEF Watches
  <2> QED  BY <1>1, <1>5, <2>1 DEF Stuck, Due
<1> QED  BY <1>4, <1>5

-----------------------------------------------------------------------------
(* The jobs of a tick.                                                     *)
\* What the first jobs leave to be forwarded, the others forward.
LEMMA ForwardedJoined ==
  ASSUME NEW S, NEW a \in Seq(S), NEW b \in Seq(S), NEW E, NEW F,
         Forwarded(a, E), Forwarded(b, F), \A p \in E : Ours(p) /\ p \notin F => Due(p, b)
  PROVE  Forwarded(a \o b, F)
<1>1. PICK g : g = a \o b
  OBVIOUS
<1>2. /\ DOMAIN a = 1..Len(a) /\ DOMAIN b = 1..Len(b) /\ DOMAIN g = 1..(Len(a) + Len(b))
      /\ Len(a) \in Nat /\ Len(b) \in Nat
      /\ \A i \in 1..Len(a) : g[i] = a[i]
      /\ \A i \in 1..Len(b) : g[Len(a) + i] = b[i]
  <2>1. g \in Seq(S) /\ Len(g) = Len(a) + Len(b)
    BY <1>1, JoinedParts
  <2>2. /\ \A i \in 1..Len(a) : g[i] = a[i]
        /\ \A i \in 1..Len(b) : g[Len(a) + i] = b[i]
    BY <1>1, JoinedParts
  <2> QED  BY <2>1, <2>2
<1>3. ASSUME NEW k \in DOMAIN g, NEW p \in Elements(g[k].to), Ours(p), p \notin F
      PROVE  \E m \in DOMAIN g : m > k /\ g[m].from = p
  <2>1. CASE k \in 1..Len(a)
    <3>1. p \in Elements(a[k].to)
      BY <1>2, <1>3, <2>1
    <3>2. CASE p \in E
      <4>1. PICK m \in 1..Len(b) : b[m].from = p
        BY <1>2, <1>3, <3>2 DEF Due
      <4>2. Len(a) + m \in DOMAIN g /\ Len(a) + m > k /\ g[Len(a) + m].from = p
        BY <1>2, <2>1, <4>1
      <4> QED  BY <4>2
    <3>3. CASE p \notin E
      <4>1. PICK m \in 1..Len(a) : m > k /\ a[m].from = p
        BY <1>2, <1>3, <2>1, <3>1, <3>3 DEF Forwarded
      <4> QED  BY <1>2, <4>1
    <3> QED  BY <3>2, <3>3
  <2>2. CASE k \notin 1..Len(a)
    <3>1. PICK i \in 1..Len(b) : k = Len(a) + i
      <4>1. k - Len(a) \in 1..Len(b) /\ k = Len(a) + (k - Len(a))
        BY <1>2, <2>2
      <4> QED  BY <4>1
    <3>2. p \in Elements(b[i].to)
      BY <1>2, <1>3, <3>1
    <3>3. i \in DOMAIN b
      BY <1>2
    <3>4. \E m \in DOMAIN b : m > i /\ b[m].from = p
      BY <1>3, <3>2, <3>3, Zenon DEF Forwarded
    <3>5. PICK m \in 1..Len(b) : m > i /\ b[m].from = p
      BY <1>2, <3>4
    <3>6. Len(a) + m \in DOMAIN g /\ Len(a) + m > k /\ g[Len(a) + m].from = p
      BY <1>2, <3>1, <3>5
    <3> QED  BY <3>6
  <2> QED  BY <2>1, <2>2
<1>4. Forwarded(g, F)
  BY <1>3 DEF Forwarded
<1> QED  BY <1>1, <1>4

\* The part of a tick that belongs to one stage: what stood before it is let
\* in, then it runs.
LEMMA StagePart ==
  ASSUME StagesInv, NEW s \in Stage, NEW from \in End, from[1] \notin Ext,
         NEW part, part = Transfer(from, << InOf(s) >>) \o Run(s)
  PROVE  /\ part \in Seq(Job) /\ Forwarded(part, Outlet(s))
         /\ \A f \in Face : Due(At(from[1], from[2], f), part)
         /\ \A p \in Place : Watches(s, p) /\ ~Stuck(s, p) /\ Has(p[1], p[3]) /\ p \notin Outlet(s)
                               => Due(p, part)
<1>1. PICK a, b : a = Transfer(from, << InOf(s) >>) /\ b = Run(s)
  OBVIOUS
<1>2. InOf(s) \in End /\ InOf(s)[1] = s /\ s \notin Ext
  BY StageEnds
<1>3. a \in Seq(JobsInto(Inlets(s)))
  <2>1. \A f \in Face : At(InOf(s)[1], InOf(s)[2], f) \in Inlets(s)
    BY DEF InOf, At, Inlets, Place, Face
  <2>2. PICK E : E = {InOf(s)}
    OBVIOUS
  <2>3. \A e \in E : \A f \in Face : At(e[1], e[2], f) \in Inlets(s)
    BY <2>1, <2>2
  <2>4. << InOf(s) >> \in Seq(E) /\ Inlets(s) \subseteq Place
    BY <2>2 DEF Inlets
  <2> QED  BY <1>1, <2>3, <2>4, TransferInto
<1>4. b \in Seq(JobsInto(Outlets(s)))
  BY <1>1, RunInto
<1>5. a \in Seq(Job) /\ b \in Seq(Job)
  BY <1>3, <1>4 DEF JobsInto
<1>6. Forwarded(a, Inlets(s))
  <2>1. ASSUME NEW k \in DOMAIN a, NEW p \in Elements(a[k].to) PROVE p \in Inlets(s)
    <3>1. a[k] \in JobsInto(Inlets(s))
      BY <1>3
    <3> QED  BY <2>1, <3>1 DEF JobsInto, Elements
  <2> QED  BY <2>1 DEF Forwarded
<1>7. Forwarded(b, Outlet(s))
  <2>1. ASSUME NEW k \in DOMAIN b, NEW p \in Elements(b[k].to), Ours(p) PROVE p \in Outlet(s)
    <3>1. b[k] \in JobsInto(Outlets(s))
      BY <1>4
    <3>2. p \in Outlets(s)
      BY <2>1, <3>1 DEF JobsInto, Elements
    <3>3. p \in Place
      BY <3>2 DEF Outlets, Outlet, Outside
    <3>4. p \notin Outside
      BY <2>1, <3>3, OursInside
    <3> QED  BY <3>2, <3>4 DEF Outlets
  <2> QED  BY <2>1 DEF Forwarded
<1>8. \A p \in Inlets(s) : Ours(p) /\ p \notin Outlet(s) => Due(p, b)
  BY <1>1, OursInside DEF Inlets
<1>9. part = a \o b
  BY <1>1
<1>10. part \in Seq(Job) /\ Forwarded(part, Outlet(s))
  <2>1. Forwarded(a \o b, Outlet(s))
    BY <1>5, <1>6, <1>7, <1>8, ForwardedJoined, Zenon
  <2>2. a \o b \in Seq(Job)
    BY <1>5, JoinedParts, Zenon
  <2> QED  BY <1>9, <2>1, <2>2
<1>11. ASSUME NEW f \in Face PROVE Due(At(from[1], from[2], f), part)
  <2>1. Due(At(from[1], from[2], f), a)
    <3>1. PICK ends : ends = << InOf(s) >>
      OBVIOUS
    <3>2. Has(from[1], f) /\ \E e \in End : ends = << e >> /\ e[1] \notin Ext
      BY <1>2, <3>1 DEF Has
    <3>3. Due(At(from[1], from[2], f), Transfer(from, ends))
      BY <3>2, TransferDue
    <3> QED  BY <1>1, <3>1, <3>3
  <2> QED  BY <1>5, <1>9, <2>1, DueJoined
<1>12. ASSUME NEW p \in Place, Watches(s, p), ~Stuck(s, p), Has(p[1], p[3]), p \notin Outlet(s)
       PROVE  Due(p, part)
  <2>1. Due(p, b)
    BY <1>1, <1>12, WatchedDue
  <2> QED  BY <1>5, <1>9, <2>1, DueJoined
<1> QED  BY <1>10, <1>11, <1>12

\* A tick takes from all that is ours, and forwards all that it moves there.
LEMMA TickJobs ==
  ASSUME StagesInv, NEW jobs, jobs = PhaseJobs("tick")
  PROVE  /\ Forwarded(jobs, {})
         /\ \A p \in Place : Ours(p) /\ Has(p[1], p[3]) => Due(p, jobs)
<1> DEFINE end(i) == IF i = 0 THEN InOf(Own) ELSE OutOf(stages[i])
           seqs == [i \in 1..Len(stages) |-> Transfer(end(i-1), << InOf(stages[i]) >>) \o Run(stages[i])]
<1>1. PICK n \in Nat : n = Len(stages) /\ DOMAIN stages = 1..n /\ \A i \in 1..n : stages[i] \in Stage
  BY DEF StagesInv
<1>2. jobs = FlattenSeq(seqs) \o Transfer(end(n), << OutOf(Own) >>)
  BY <1>1 DEF PhaseJobs
<1>3. \A i \in 1..n : seqs[i] = Transfer(end(i-1), << InOf(stages[i]) >>) \o Run(stages[i])
  BY <1>1
<1>4. DOMAIN seqs = 1..n /\ Len(seqs) = n
  BY <1>1
<1>5. ASSUME NEW i \in 0..n
      PROVE  end(i) \in End /\ end(i)[1] \notin Ext
  <2>1. CASE i = 0
    BY <2>1, OwnEnds, PumpAssumption DEF InOf
  <2>2. CASE i # 0
    <3>1. stages[i] \in Stage  BY <1>1, <2>2
    <3> QED  BY <2>2, <3>1, StageEnds
  <2> QED  BY <2>1, <2>2
<1>6. ASSUME NEW i \in 1..n, NEW p \in Outlet(stages[i])
      PROVE  \E f \in Face : p = At(end(i)[1], end(i)[2], f)
  <2>1. p = <<stages[i], "out", p[3]>> /\ p[3] \in Face
    BY <1>6 DEF Outlet, Place
  <2>2. end(i) = <<stages[i], "out">>
    BY DEF OutOf
  <2>3. At(stages[i], "out", p[3]) = <<stages[i], "out", p[3]>>
    BY DEF At
  <2> HIDE DEF end
  <2> QED  BY <2>1, <2>2, <2>3
<1> HIDE DEF end, seqs
<1> DEFINE Watched(j, p) == Watches(stages[j], p) /\ ~Stuck(stages[j], p) /\ Has(p[1], p[3])
<1>7. ASSUME NEW i \in 1..n
      PROVE  /\ seqs[i] \in Seq(Job) /\ Forwarded(seqs[i], Outlet(stages[i]))
             /\ \A f \in Face : Due(At(end(i-1)[1], end(i-1)[2], f), seqs[i])
             /\ \A p \in Place : Watched(i, p) /\ p \notin Outlet(stages[i]) => Due(p, seqs[i])
  <2>1. stages[i] \in Stage /\ i - 1 \in 0..n
    BY <1>1
  <2>2. end(i-1) \in End /\ end(i-1)[1] \notin Ext
    BY <1>5, <2>1
  <2>3. seqs[i] = Transfer(end(i-1), << InOf(stages[i]) >>) \o Run(stages[i])
    BY <1>3
  <2> QED  BY <2>1, <2>2, <2>3, StagePart
<1> DEFINE Sees(i, g) == \A j \in 1..i : \A p \in Place :
                           Watched(j, p) /\ p \notin Outlet(stages[i]) => Due(p, g)
           Good == [i \in 1..n |-> {g \in Seq(Job) : Sees(i, g) /\ Forwarded(g, Outlet(stages[i]))}]
<1>8. \A i \in 1..n : \A g : g \in Good[i] <=> g \in Seq(Job) /\ Sees(i, g) /\ Forwarded(g, Outlet(stages[i]))
  OBVIOUS
<1> HIDE DEF Good, Watched
<1>9. n > 0 => seqs[1] \in Good[1]
  <2> SUFFICES ASSUME n > 0 PROVE seqs[1] \in Good[1]
    OBVIOUS
  <2>1. 1 \in 1..n
    OBVIOUS
  <2>2. Sees(1, seqs[1])
    BY <1>7, <2>1
  <2> QED  BY <1>7, <1>8, <2>1, <2>2
<1>10. ASSUME NEW i \in 2..n, NEW g \in Good[i-1] PROVE g \o seqs[i] \in Good[i]
  <2>1. i \in 1..n /\ i - 1 \in 1..n
    OBVIOUS
  <2>2. g \in Seq(Job) /\ Sees(i-1, g) /\ Forwarded(g, Outlet(stages[i-1]))
    BY <1>8, <2>1
  <2>3. seqs[i] \in Seq(Job) /\ Forwarded(seqs[i], Outlet(stages[i]))
    BY <1>7, <2>1
  <2>4. \A p \in Outlet(stages[i-1]) : Due(p, seqs[i])
    BY <1>6, <1>7, <2>1
  <2>5. Forwarded(g \o seqs[i], Outlet(stages[i]))
    BY <2>2, <2>3, <2>4, ForwardedJoined
  <2>6. ASSUME NEW j \in 1..i, NEW p \in Place, Watched(j, p), p \notin Outlet(stages[i])
        PROVE  Due(p, g \o seqs[i])
    <3>1. CASE j = i
      <4>1. Due(p, seqs[i])
        BY <1>7, <2>1, <2>6, <3>1
      <4> QED  BY <2>2, <2>3, <4>1, DueJoined
    <3>2. CASE j # i
      <4>1. j \in 1..(i-1)
        BY <3>2
      <4>2. Due(p, g) \/ p \in Outlet(stages[i-1])
        BY <2>2, <2>6, <4>1
      <4>3. Due(p, g) \/ Due(p, seqs[i])
        BY <2>4, <4>2
      <4> QED  BY <2>2, <2>3, <4>3, DueJoined
    <3> QED  BY <3>1, <3>2
  <2>7. g \o seqs[i] \in Seq(Job)
    BY <2>2, <2>3
  <2> QED  BY <1>8, <2>1, <2>5, <2>6, <2>7
<1>11. PICK all, last : all = FlattenSeq(seqs) /\ last = Transfer(end(n), << OutOf(Own) >>)
  OBVIOUS
<1>12. end(n) \in End /\ end(n)[1] \notin Ext
  BY <1>5
<1>13. last \in Seq(Job) /\ Forwarded(last, {})
  <2>1. PICK P : P = {p \in Place : p[1] = Own}
    OBVIOUS
  <2>2. PICK E : E = {OutOf(Own)}
    OBVIOUS
  <2>3. \A e \in E : \A f \in Face : At(e[1], e[2], f) \in P
    BY <2>1, <2>2 DEF OutOf, At, Place, Face
  <2>4. << OutOf(Own) >> \in Seq(E) /\ P \subseteq Place
    BY <2>1, <2>2
  <2>5. last \in Seq(JobsInto(P))
    BY <1>11, <1>12, <2>3, <2>4, TransferInto
  <2>6. last \in Seq(Job)
    BY <2>5 DEF JobsInto
  <2>7. ASSUME NEW k \in DOMAIN last, NEW p \in Elements(last[k].to) PROVE ~Ours(p)
    <3>1. last[k] \in JobsInto(P)
      BY <2>5
    <3>2. p \in P
      BY <2>7, <3>1 DEF JobsInto, Elements
    <3> QED  BY <2>1, <3>2, OursInside
  <2> QED  BY <2>6, <2>7 DEF Forwarded
<1>14. ASSUME NEW f \in Face PROVE Due(At(end(n)[1], end(n)[2], f), last)
  <2>1. PICK ends : ends = << OutOf(Own) >>
    OBVIOUS
  <2>2. OutOf(Own) \in End /\ OutOf(Own)[1] \notin Ext
    BY OwnEnds, PumpAssumption DEF OutOf
  <2>3. Has(end(n)[1], f) /\ \E e \in End : ends = << e >> /\ e[1] \notin Ext
    BY <1>12, <2>1, <2>2 DEF Has
  <2>4. Due(At(end(n)[1], end(n)[2], f), Transfer(end(n), ends))
    BY <1>12, <2>3, TransferDue
  <2> QED  BY <1>11, <2>1, <2>4
<1>15. CASE n = 0
  <2>1. seqs = <<>>
    BY <1>4, <1>15
  <2>2. all = <<>>
    BY <1>11, <2>1 DEF FlattenSeq
  <2>3. jobs = last
    BY <1>2, <1>11, <1>13, <2>2
  <2>4. \A p : ~Ours(p)
    BY <1>1, <1>15 DEF Ours
  <2> QED  BY <1>13, <2>3, <2>4
<1>16. CASE n > 0
  <2>1. all \in Good[n]
    BY <1>4, <1>9, <1>10, <1>11, <1>16, FlattenedBy
  <2>2. n \in 1..n
    BY <1>16
  <2>3. all \in Seq(Job) /\ Sees(n, all) /\ Forwarded(all, Outlet(stages[n]))
    BY <1>8, <2>1, <2>2
  <2>4. \A p \in Outlet(stages[n]) : Due(p, last)
    BY <1>6, <1>14, <2>2
  <2>5. jobs = all \o last
    BY <1>2, <1>11
  <2>6. Forwarded(jobs, {})
    <3>1. \A p \in Outlet(stages[n]) : Ours(p) /\ p \notin {} => Due(p, last)
      BY <2>4
    <3>2. Forwarded(all \o last, {})
      BY <1>13, <2>3, <3>1, ForwardedJoined, Zenon
    <3> QED  BY <2>5, <3>2
  <2>7. ASSUME NEW p \in Place, Ours(p), Has(p[1], p[3]) PROVE Due(p, jobs)
    <3>1. PICK j \in 1..n : Watched(j, p)
      BY <1>1, <2>7 DEF Ours, Watched
    <3>2. Due(p, all) \/ Due(p, last)
      BY <2>3, <2>4, <3>1
    <3> QED  BY <1>13, <2>3, <2>5, <3>2, DueJoined
  <2> QED  BY <2>6, <2>7
<1> QED  BY <1>15, <1>16

-----------------------------------------------------------------------------
(* The invariant of a tick, and that it settles.                           *)
\* An outside source holds nothing of a face it does not have.
Faceless == \A p \in Place : p[1] \in Ext /\ p[2] = "out" /\ ~Has(p[1], p[3]) => held[p] = <<>>

Emptied == \A p \in Place : Ours(p) /\ held[p] # <<>> => Due(p, work)

SettleInv ==
  /\ Faceless
  /\ call = "tick" => Emptied /\ Forwarded(work, {})

\* What a phase does not change.
LEMMA SameOurs ==
  ASSUME UNCHANGED <<kind, chosen, stages>>
  PROVE  /\ \A p : Ours(p)' = Ours(p)
         /\ \A s, p : Stuck(s, p)' = Stuck(s, p)
         /\ \A jobs, E : Forwarded(jobs, E)' = Forwarded(jobs, E)
<1>1. \A s : Run(s)' = Run(s)
  BY DEF Run, ConverterRun, SplitterRun, DiverterRun, SelectorRun, ValveRun, CombinerRun,
         DrainRun, PushToRun, PullFromRun, FromSources, Transfer, Move, Able, At
<1>2. \A s : Reads(s)' = Reads(s)
  BY DEF Reads
<1>3. \A s, p : Stuck(s, p)' = Stuck(s, p)
  BY <1>1 DEF Stuck
<1>4. \A p : Ours(p)' = Ours(p)
  BY <1>2, <1>3 DEF Ours, Watches
<1>5. \A jobs, E : Forwarded(jobs, E)' = Forwarded(jobs, E)
  BY <1>4 DEF Forwarded
<1> QED  BY <1>3, <1>4, <1>5

LEMMA ArriveSettles ==
  ASSUME PipeInv, SettleInv, NEW place \in Place, NEW origin, NEW face, Arrive(place, origin, face),
         ~(place[1] \in Ext /\ place[2] = "out" /\ ~Has(place[1], place[3]))
  PROVE  SettleInv'
<1>1. call = "idle" /\ call' = call /\ held' = [held EXCEPT ![place] = Append(@, Fresh(origin, face))]
  BY DEF Arrive
<1>2. held \in [Place -> Seq(sent)]
  BY DEF PipeInv, ItemsInv
<1>3. \A p \in Place : p # place => held'[p] = held[p]
  BY <1>1, <1>2
<1>4. Faceless'
  BY <1>3 DEF SettleInv, Faceless, Has
<1> QED  BY <1>1, <1>4 DEF SettleInv

LEMMA StartSettles ==
  ASSUME PipeInv, SettleInv, NEW phase \in {"begin", "tick"}, Start(phase)
  PROVE  SettleInv'
<1>1. /\ UNCHANGED <<held, kind, chosen, stages>>
      /\ call' = phase /\ work' = PhaseJobs(phase)
  BY DEF Start
<1>2. Faceless'
  BY <1>1 DEF SettleInv, Faceless, Has
<1>3. ASSUME phase = "tick" PROVE Emptied' /\ Forwarded(work, {})'
  <2>1. PICK jobs : jobs = PhaseJobs("tick")
    OBVIOUS
  <2>2. /\ Forwarded(jobs, {})
        /\ \A p \in Place : Ours(p) /\ Has(p[1], p[3]) => Due(p, jobs)
    BY <2>1, TickJobs DEF PipeInv
  <2>3. work' = jobs
    BY <1>1, <1>3, <2>1
  <2>4. Forwarded(jobs, {})'
    BY <1>1, <2>2, SameOurs
  <2>5. Forwarded(work, {})'
    BY <2>3, <2>4 DEF Forwarded
  <2>6. ASSUME NEW p \in Place, Ours(p), held[p] # <<>> PROVE Has(p[1], p[3])
    <3>1. CASE p[1] \in Ext
      <4>1. p[2] = "out"
        <5>1. p \notin Outside
          BY <2>6, OursInside DEF PipeInv
        <5> QED  BY <3>1, <5>1 DEF Outside, Place
      <4> QED  BY <2>6, <3>1, <4>1 DEF SettleInv, Faceless
    <3>2. CASE p[1] \notin Ext
      BY <3>2 DEF Has
    <3> QED  BY <3>1, <3>2
  <2>7. ASSUME NEW p \in Place, Ours(p)', held'[p] # <<>> PROVE Due(p, work)'
    <3>1. Ours(p) /\ held[p] # <<>>
      BY <1>1, <2>7, SameOurs
    <3>2. Due(p, jobs)
      BY <2>2, <2>6, <3>1
    <3> QED  BY <2>3, <3>2 DEF Due
  <2> QED  BY <2>5, <2>7 DEF Emptied
<1> QED  BY <1>1, <1>2, <1>3 DEF SettleInv

\* A step of a phase brings elements only where the job that runs moves them.
LEMMA PhaseMoves ==
  ASSUME PipeInv, TakeChunk \/ PushPart \/ Convert, UNCHANGED <<kind, chosen, stages>>
  PROVE  /\ work' = work /\ work # <<>> /\ Head(work) \in GoodJob
         /\ \A p \in Place : held'[p] # <<>> => held[p] # <<>> \/ p \in Elements(Head(work).to)
<1>1. work' = work /\ work # <<>>
  BY DEF TakeChunk, PushPart, Convert, PipeInv, WorkInv
<1>2. PICK job \in GoodJob : job = Head(work)
  BY <1>1 DEF PipeInv, WorkInv
<1>3. job.from \in Place /\ job.to \in Seq(Place)
  BY DEF GoodJob, Job
<1>4. held \in [Place -> Seq(sent)] /\ rest \in Seq(sent)
  BY DEF PipeInv, ItemsInv
<1>5. CASE TakeChunk
  <2>1. PICK k \in Handed(job.from) :
          /\ held' = [held EXCEPT ![job.from] = SubSeq(@, k + 1, Len(@))]
          /\ held[job.from] # <<>>
    BY <1>2, <1>5 DEF TakeChunk
  <2>2. \A p \in Place : p # job.from => held'[p] = held[p]
    BY <1>3, <1>4, <2>1
  <2> QED  BY <1>1, <1>2, <2>1, <2>2
<1>6. CASE PushPart
  <2>1. target \in DOMAIN job.to
    BY <1>2, <1>6 DEF PushPart, PipeInv, WorkInv
  <2>2. PICK w \in Taken(job.to[target]) :
          held' = [held EXCEPT ![job.to[target]] = @ \o SubSeq(rest, 1, w)]
    BY <1>2, <1>6 DEF PushPart
  <2>3. PICK sink \in Place : sink = job.to[target] /\ sink \in Elements(job.to)
    BY <1>3, <2>1 DEF Elements
  <2>4. \A p \in Place : p # sink => held'[p] = held[p]
    BY <1>4, <2>2, <2>3
  <2> QED  BY <1>1, <1>2, <2>3, <2>4
<1>7. CASE Convert
  <2>1. /\ held' = [held EXCEPT ![job.from] = <<>>, ![job.to[1]] = @ \o held[job.from]]
        /\ job.whole /\ held[job.from] # <<>>
    BY <1>2, <1>7 DEF Convert
  <2>2. PICK sink \in Place : sink = job.to[1] /\ sink \in Elements(job.to)
    <3>1. Len(job.to) = 1 /\ 1 \in DOMAIN job.to
      BY <1>3, <2>1 DEF GoodJob
    <3> QED  BY <1>3, <3>1 DEF Elements
  <2>3. \A p \in Place : p # sink /\ p # job.from => held'[p] = held[p]
    BY <1>3, <1>4, <2>1, <2>2
  <2> QED  BY <1>1, <1>2, <2>1, <2>2, <2>3
<1> QED  BY <1>5, <1>6, <1>7

LEMMA PhaseSettles ==
  ASSUME PipeInv, SettleInv, Phase(GoesOn) \/ Phase(Fails)
  PROVE  SettleInv'
<1>1. /\ UNCHANGED <<kind, chosen, stages>> /\ (GoesOn \/ Fails)
      /\ call' = IF work' = <<>> THEN "idle" ELSE call
  BY DEF Phase
<1>2. work \in Seq(GoodJob)
  BY DEF PipeInv, WorkInv
<1>3. ASSUME TakeChunk \/ PushPart \/ Convert PROVE SettleInv'
  <2>1. PICK job \in GoodJob : job = Head(work)
    BY <1>1, <1>3, PhaseMoves
  <2>2. /\ work' = work /\ work # <<>>
        /\ \A p \in Place : held'[p] # <<>> => held[p] # <<>> \/ p \in Elements(job.to)
    BY <1>1, <1>3, <2>1, PhaseMoves
  <2>3. Faceless'
    <3> SUFFICES ASSUME NEW p \in Place, p[1] \in Ext, p[2] = "out", ~Has(p[1], p[3]), held'[p] # <<>>
                 PROVE  FALSE
      BY DEF Faceless, Has
    <3>1. held[p] = <<>>
      BY DEF SettleInv, Faceless
    <3>2. p \in Elements(job.to)
      BY <2>2, <3>1
    <3>3. p \in Served
      BY <3>2 DEF GoodJob, Targets, Elements
    <3> QED  BY <3>3 DEF Served
  <2>4. ASSUME call' = "tick" PROVE Emptied' /\ Forwarded(work, {})'
    <3>1. Emptied /\ Forwarded(work, {})
      BY <1>1, <2>4 DEF SettleInv
    <3>2. Forwarded(work, {})'
      <4>1. PICK jobs : jobs = work
        OBVIOUS
      <4>2. Forwarded(jobs, {})'
        BY <1>1, <3>1, <4>1, SameOurs
      <4>3. work' = jobs
        BY <2>2, <4>1
      <4> QED  BY <4>2, <4>3 DEF Forwarded
    <3>3. ASSUME NEW p \in Place, Ours(p)', held'[p] # <<>> PROVE Due(p, work)'
      <4>1. Ours(p)
        BY <1>1, <3>3, SameOurs
      <4>2. Due(p, work)
        <5>1. CASE held[p] # <<>>
          BY <3>1, <4>1, <5>1 DEF Emptied
        <5>2. CASE p \in Elements(job.to)
          <6>1. 1 \in DOMAIN work /\ work[1] = job
            BY <1>2, <2>1, <2>2
          <6>2. p \in Elements(work[1].to)
            BY <5>2, <6>1
          <6>3. \E m \in DOMAIN work : work[m].from = p
            BY <3>1, <4>1, <6>1, <6>2 DEF Forwarded
          <6> QED  BY <6>3 DEF Due
        <5> QED  BY <2>2, <3>3, <5>1, <5>2
      <4> QED  BY <2>2, <4>2 DEF Due
    <3> QED  BY <3>2, <3>3 DEF Emptied
  <2> QED  BY <2>3, <2>4 DEF SettleInv
<1>4. ASSUME NextJob PROVE SettleInv'
  <2>1. work # <<>> /\ held[Head(work).from] = <<>> /\ work' = Tail(work) /\ held' = held
    BY <1>4 DEF NextJob
  <2>2. Faceless'
    BY <2>1 DEF SettleInv, Faceless, Has
  <2>3. PICK jobs \in Seq(GoodJob), n \in Nat :
          /\ jobs = work /\ DOMAIN work = 1..(n+1) /\ DOMAIN Tail(work) = 1..n
          /\ \A i \in 1..n : Tail(work)[i] = work[i+1]
    <3>1. Len(work) \in Nat /\ Len(work) # 0
      BY <1>2, <2>1
    <3>2. PICK n \in Nat : n = Len(work) - 1
      BY <3>1
    <3> QED  BY <1>2, <2>1, <3>2
  <2>4. PICK after : after = Tail(work)
    OBVIOUS
  <2>5. DOMAIN after = 1..n /\ \A i \in 1..n : after[i] = work[i+1]
    BY <2>3, <2>4
  <2>6. ASSUME call' = "tick" PROVE Emptied' /\ Forwarded(work, {})'
    <3>1. Emptied /\ Forwarded(work, {})
      BY <1>1, <2>6 DEF SettleInv
    <3>2. Forwarded(after, {})
      <4>1. ASSUME NEW k \in DOMAIN after, NEW p \in Elements(after[k].to), Ours(p)
            PROVE  \E m \in DOMAIN after : m > k /\ after[m].from = p
        <5>1. k + 1 \in DOMAIN work /\ p \in Elements(work[k+1].to)
          BY <2>3, <2>5, <4>1
        <5>2. PICK m \in DOMAIN work : m > k + 1 /\ work[m].from = p
          BY <3>1, <4>1, <5>1 DEF Forwarded
        <5>3. m - 1 \in DOMAIN after /\ m - 1 > k /\ after[m - 1] = work[m]
          BY <2>3, <2>5, <4>1, <5>2
        <5> QED  BY <5>2, <5>3
      <4> QED  BY <4>1 DEF Forwarded
    <3>3. Forwarded(work, {})'
      <4>1. Forwarded(after, {})'
        BY <1>1, <3>2, SameOurs
      <4>2. work' = after
        BY <2>1, <2>4
      <4> QED  BY <4>1, <4>2 DEF Forwarded
    <3>4. ASSUME NEW p \in Place, Ours(p)', held'[p] # <<>> PROVE Due(p, work)'
      <4>1. Ours(p) /\ held[p] # <<>>
        BY <1>1, <2>1, <3>4, SameOurs
      <4>2. PICK i \in DOMAIN work : work[i].from = p
        BY <3>1, <4>1 DEF Emptied, Due
      <4>3. i # 1
        BY <2>1, <4>1, <4>2
      <4>4. i - 1 \in DOMAIN after /\ after[i - 1] = work[i]
        BY <2>3, <2>5, <4>2, <4>3
      <4>5. Due(p, after)
        BY <4>2, <4>4 DEF Due
      <4> QED  BY <2>1, <2>4, <4>5 DEF Due
    <3> QED  BY <3>3, <3>4 DEF Emptied
  <2> QED  BY <2>2, <2>6 DEF SettleInv
<1>5. ASSUME Fails PROVE SettleInv'
  <2>1. work' = <<>> /\ held' = held
    BY <1>5 DEF Fails
  <2>2. Faceless'
    BY <2>1 DEF SettleInv, Faceless, Has
  <2> QED  BY <1>1, <2>1, <2>2 DEF SettleInv
<1> QED  BY <1>1, <1>3, <1>4, <1>5 DEF GoesOn

LEMMA SettleStep ==
  ASSUME PipeInv, SettleInv, [Next]_vars
  PROVE  SettleInv'
<1>1. ASSUME NEW f \in Face, Push(f) PROVE SettleInv'
  <2>1. PICK place \in Place : place = <<Own, "in", f>>
    BY DEF Place
  <2>2. place[1] \notin Ext
    BY <2>1, PumpAssumption
  <2> QED  BY <1>1, <2>1, <2>2, ArriveSettles DEF Push
<1>2. ASSUME NEW f \in Face, NEW u \in Sources, Feed(u, f) PROVE SettleInv'
  <2>1. PICK place \in Place : place = <<u, "out", f>>
    BY PipelineAssumption DEF Place
  <2>2. Has(place[1], place[3]) /\ Arrive(place, u, f)
    BY <1>2, <2>1 DEF Feed, Has
  <2> QED  BY <2>2, ArriveSettles
<1>3. ASSUME NEW s \in Stage, AddStage(s) \/ RemoveStage(s) \/ \E k \in 0..2 : Select(s, k)
      PROVE  SettleInv'
  <2>1. held' = held /\ call' = call /\ call = "idle"
    BY <1>3 DEF AddStage, RemoveStage, Select, pvars
  <2> QED  BY <2>1 DEF SettleInv, Faceless, Has
<1>4. ASSUME NEW phase \in {"begin", "tick"}, Start(phase) PROVE SettleInv'
  BY <1>4, StartSettles
<1>5. ASSUME Phase(GoesOn) \/ Phase(Fails) PROVE SettleInv'
  BY <1>5, PhaseSettles
<1>6. ASSUME UNCHANGED vars PROVE SettleInv'
  <2>1. UNCHANGED <<held, work, kind, chosen, stages, call>>
    BY <1>6 DEF vars, pvars
  <2>2. Faceless'
    BY <2>1 DEF SettleInv, Faceless, Has
  <2>3. ASSUME call' = "tick" PROVE Emptied' /\ Forwarded(work, {})'
    <3>1. Emptied /\ Forwarded(work, {})
      BY <2>1, <2>3 DEF SettleInv
    <3>2. Forwarded(work, {})'
      <4>1. PICK jobs : jobs = work
        OBVIOUS
      <4>2. Forwarded(jobs, {})'
        BY <2>1, <3>1, <4>1, SameOurs
      <4> QED  BY <2>1, <4>1, <4>2 DEF Forwarded
    <3>3. Emptied'
      BY <2>1, <3>1, SameOurs DEF Emptied, Due
    <3> QED  BY <3>2, <3>3
  <2> QED  BY <2>2, <2>3 DEF SettleInv
<1> QED  BY <1>1, <1>2, <1>3, <1>4, <1>5, <1>6 DEF Next

\* While a tick runs, all that it has to empty is the source of a job to come.
THEOREM PipelineTickInv == Spec => [](PipeInv /\ SettleInv)
<1>1. Init => SettleInv
  <2> SUFFICES ASSUME Init PROVE SettleInv
    OBVIOUS
  <2>1. call = "idle" /\ held = [p \in Place |-> <<>>]
    BY DEF Init, PumpInit
  <2> QED  BY <2>1 DEF SettleInv, Faceless
<1>2. PipeInv /\ SettleInv /\ [Next]_vars => SettleInv'
  BY SettleStep
<1> QED  BY <1>1, <1>2, PipelineSafe, PTL DEF Spec

\* A tick that succeeds leaves nothing in a stage or an outside source but a
\* face that a chosen sink lacks: for any stages in any order, any selection,
\* chunks of any size and whatever outside sinks take at a time (selector_run, pl_run).
THEOREM PipelineSettles == Spec => Settles
<1> DEFINE Left ==
      call = "tick" /\ Phase(NextJob) /\ call' = "idle"
        => \A i \in DOMAIN stages : LET s == stages[i] IN
             \A p \in Place :
               p[1] = s \/ (p[1] \in Reads(s) /\ p[2] = "out")
                 => held[p] = <<>> \/ Stuck(s, p)
<1>1. PipeInv /\ SettleInv => Left
  <2> SUFFICES ASSUME PipeInv, SettleInv, call = "tick", Phase(NextJob), call' = "idle",
                      NEW i \in DOMAIN stages, NEW p \in Place,
                      p[1] = stages[i] \/ (p[1] \in Reads(stages[i]) /\ p[2] = "out"),
                      held[p] # <<>>, ~Stuck(stages[i], p)
               PROVE  FALSE
    OBVIOUS
  <2>1. Ours(p)
    BY DEF Ours, Watches
  <2>2. PICK k \in DOMAIN work : work[k].from = p
    BY <2>1 DEF SettleInv, Emptied, Due
  <2>3. /\ work \in Seq(GoodJob) /\ work # <<>> /\ Tail(work) = <<>>
        /\ held[Head(work).from] = <<>>
    BY DEF Phase, NextJob, PipeInv, WorkInv
  <2>4. k = 1
    <3>1. Len(work) \in Nat /\ Len(Tail(work)) = Len(work) - 1 /\ k \in 1..Len(work)
      BY <2>3
    <3> QED  BY <2>3, <3>1
  <2> QED  BY <2>2, <2>3, <2>4
<1> HIDE DEF Left
<1>2. PipeInv /\ SettleInv => [Left]_vars
  BY <1>1
<1>3. Spec => [][Left]_vars
  BY <1>2, PipelineTickInv, PTL
<1> QED  BY <1>3 DEF Settles, Left
=============================================================================
