----------------------------- MODULE CodeSearch -----------------------------
(***************************************************************************)
(* dt_codesearch, the tool the standard codes come from: each candidate is *)
(* scored with its free distance, or dropped as catastrophic, and from a   *)
(* sample of the best the presets of a family are picked so that none      *)
(* locks on the stream of another.  A mask of taps is the set of its bits; *)
(* as a polynomial over GF(2) it is the set of its exponents.              *)
(***************************************************************************)
EXTENDS Integers, Sequences, SequencesExt, FiniteSets, FiniteSetsExt

CONSTANTS Families,    \* the [k, n] whose candidates are enumerated
          Samples      \* the samples [pin, wide, self, cross] presets are picked from

Taps(mask) == {i \in 0..8 : (mask \div 2^i) % 2 = 1}

\* The standard codes, with the free distance ccode.h gives each.
StandardTable ==
  {<<3, <<\o005, \o007>>, 5>>, <<3, <<\o001, \o007>>, 4>>, <<3, <<\o003, \o007>>, 4>>,
   <<7, <<\o171, \o133>>, 10>>, <<7, <<\o043, \o175>>, 8>>, <<7, <<\o107, \o156>>, 8>>,
   <<7, <<\o113, \o135, \o157>>, 15>>, <<7, <<\o112, \o153, \o157>>, 14>>,
   <<7, <<\o037, \o135, \o153>>, 13>>, <<7, <<\o012, \o145, \o177>>, 12>>,
   <<7, <<\o042, \o133, \o172>>, 12>>,
   <<5, <<\o025, \o027, \o033, \o035, \o037>>, 20>>,
   <<5, <<\o007, \o017, \o025, \o027, \o035>>, 18>>,
   <<5, <<\o011, \o032, \o033, \o035, \o037>>, 18>>,
   <<5, <<\o013, \o021, \o023, \o033, \o037>>, 17>>,
   <<5, <<\o013, \o024, \o032, \o033, \o037>>, 17>>}

\* Strictly increasing masks, the largest with the top tap.
Enumerated(f) ==
  {g \in [1..f.n -> 1..(2^f.k - 1)] :
     (\A i \in 1..(f.n - 1) : g[i] < g[i+1]) /\ g[f.n] >= 2^(f.k - 1)}

Tapped(g) == [i \in DOMAIN g |-> Taps(g[i])]

Candidates ==
  {[k |-> s[1], gens |-> Tapped(s[2]), documented |-> s[3]] : s \in StandardTable}
    \cup UNION {{[k |-> f.k, gens |-> Tapped(g), documented |-> 0] : g \in Enumerated(f)} :
                f \in Families}

VARIABLES cand,      \* the candidate that is scored
          stage,     \* "gcd", "paths", "scored", "counted", "picked"
          common, rest,   \* is_noncatastrophic: the gcd so far, and what it is taken with
          used,           \* generators that went into it
          dist,      \* free_distance: the lightest path to each state, -1 for none
          visited, best,
          dfree,     \* the score; 0 drops the candidate
          sample, nset, sel, worst    \* run_family

cvars == <<cand, stage, common, rest, used, dist, visited, best, dfree, sample, nset, sel, worst>>

-----------------------------------------------------------------------------
(* The score of one candidate.                                             *)
Leading(p)      == IF p = {} THEN -1 ELSE Max(p)
Plus(p, q)     == (p \ q) \cup (q \ p)
Raised(p, s)    == {i + s : i \in p}

\* Encoder states, as the bits of the register that are set.
States(k) == SUBSET (0..(k - 2))
Zero      == {}

BranchWeight(c, s, bit) ==
  Cardinality({j \in DOMAIN c.gens :
                 Cardinality((s \cup (IF bit = 1 THEN {c.k - 1} ELSE {})) \cap c.gens[j]) % 2 = 1})

NextOf(c, s, bit) == {i - 1 : i \in s \ {0}} \cup (IF bit = 1 THEN {c.k - 2} ELSE {})

ScoreIdle ==
  /\ common = {} /\ rest = {} /\ used = 0 /\ dist = <<>> /\ visited = {} /\ best = -1 /\ dfree = 0

ScoreInit ==
  /\ cand \in Candidates /\ stage = "gcd"
  /\ common = cand.gens[1] /\ rest = {} /\ used = 1
  /\ dist = <<>> /\ visited = {} /\ best = -1 /\ dfree = 0
  /\ sample = <<>> /\ nset = 0 /\ sel = <<>> /\ worst = <<>>

\* One round of gf2_gcd: the higher one loses its leading term.
Reduce ==
  /\ stage = "gcd" /\ rest # {}
  /\ IF Leading(common) < Leading(rest) THEN common' = rest /\ rest' = common
     ELSE common' = Plus(common, Raised(rest, Leading(common) - Leading(rest))) /\ UNCHANGED rest
  /\ UNCHANGED <<cand, stage, used, dist, visited, best, dfree, sample, nset, sel, worst>>

NextGenerator ==
  /\ stage = "gcd" /\ rest = {} /\ used < Len(cand.gens)
  /\ rest' = cand.gens[used + 1] /\ used' = used + 1
  /\ UNCHANGED <<cand, stage, common, dist, visited, best, dfree, sample, nset, sel, worst>>

Drops(p) == p # {0}

\* A catastrophic candidate scores 0; the paths of the others start with input 1.
Judged ==
  /\ stage = "gcd" /\ rest = {} /\ used = Len(cand.gens)
  /\ IF Drops(common) THEN stage' = "scored" /\ UNCHANGED dist
     ELSE /\ stage' = "paths"
          /\ dist' = [s \in States(cand.k) |-> IF s = NextOf(cand, Zero, 1)
                                               THEN BranchWeight(cand, Zero, 1) ELSE -1]
  /\ UNCHANGED <<cand, common, rest, used, visited, best, dfree, sample, nset, sel, worst>>

Open == {s \in States(cand.k) \ ({Zero} \cup visited) : dist[s] >= 0}

Lighter(w, than) == than < 0 \/ w < than

\* The nearest open state, both branches out of it.
Expand ==
  /\ stage = "paths" /\ Open # {}
  /\ \E u \in {CHOOSE s \in Open : \A t \in Open : dist[s] <= dist[t]} :
       LET weight(bit) == dist[u] + BranchWeight(cand, u, bit)
           better(v)   == {weight(bit) : bit \in {x \in {0, 1} : NextOf(cand, u, x) = v}}
           lightest(v, w) == IF \E x \in better(v) : Lighter(x, w) THEN Min(better(v)) ELSE w
       IN  /\ visited' = visited \cup {u}
           /\ best' = lightest(Zero, best)
           /\ dist' = [v \in DOMAIN dist |-> IF v \in visited' \cup {Zero} THEN dist[v]
                                             ELSE lightest(v, dist[v])]
  /\ UNCHANGED <<cand, stage, common, rest, used, dfree, sample, nset, sel, worst>>

ReturnedFirst == Open = {} \/ best >= 0     \* slip: the first way back is taken for the lightest

Returned == Open = {}

FreeFound ==
  /\ stage = "paths" /\ Returned
  /\ dfree' = (IF best < 0 THEN 0 ELSE best) /\ stage' = "scored"
  /\ UNCHANGED <<cand, common, rest, used, dist, visited, best, sample, nset, sel, worst>>

-----------------------------------------------------------------------------
(* The presets of a family.  A sample is in the order of cand_cmp; whether  *)
(* a code locks on itself, and how much the worse of two locks on the       *)
(* other (0 below 0.65, 1 below 0.75, 2 above), is any outcome of a         *)
(* measurement.                                                             *)
MaxPresets == 5
DistinctBound == 2

SampleSize == Len(sample.self)

PickIdle == nset = 0 /\ sel = <<>> /\ worst = <<>> /\ cand = <<>> /\ ScoreIdle

PickInit == sample \in Samples /\ stage = "sampled" /\ PickIdle

Cross(i, j) == sample.cross[{i, j}]

\* Grown from one seed in the order of the sample.
Clique(seed) ==
  FoldLeft(LAMBDA s, c : IF /\ c # seed /\ sample.self[c]
                            /\ \A i \in DOMAIN s : Cross(s[i], c) < DistinctBound
                         THEN Append(s, c) ELSE s,
           <<seed>>, [c \in 1..SampleSize |-> c])

Seeds == {c \in 1..SampleSize : sample.self[c]}

SelectBound == IF sample.wide THEN 1 ELSE DistinctBound

\* The pinned default, or the best code that locks on itself, or the best one.
Default == IF sample.pin # 0 THEN sample.pin ELSE IF Seeds # {} THEN Min(Seeds) ELSE 1

Counted ==
  /\ stage = "sampled" /\ stage' = "counted"
  /\ nset' = (IF Seeds = {} THEN 0 ELSE Max({Len(Clique(c)) : c \in Seeds}))
  /\ sel' = <<Default>>
  /\ worst' = [c \in 1..SampleSize |-> IF c = Default THEN 2 ELSE Cross(Default, c)]
  /\ UNCHANGED <<cand, common, rest, used, dist, visited, best, dfree, sample>>

Eligible == {c \in 1..SampleSize : c \notin ToSet(sel) /\ sample.self[c] /\ worst[c] < SelectBound}

Target == Min({nset, MaxPresets})

WorstLatest(c, chosen) ==     \* slip: only the latest choice is looked at
  IF c = chosen THEN 2 ELSE Cross(chosen, c)

Worst(c, chosen) == IF c = chosen THEN 2 ELSE Max({worst[c], Cross(chosen, c)})

Pick ==
  /\ stage = "counted" /\ Len(sel) < Target /\ Eligible # {}
  /\ \E c \in {Min(Eligible)} :
       sel' = Append(sel, c) /\ worst' = [o \in DOMAIN worst |-> Worst(o, c)]
  /\ UNCHANGED <<cand, stage, common, rest, used, dist, visited, best, dfree, sample, nset>>

Ship ==
  /\ stage = "counted" /\ (Len(sel) >= Target \/ Eligible = {}) /\ stage' = "picked"
  /\ UNCHANGED <<cand, common, rest, used, dist, visited, best, dfree, sample, nset, sel, worst>>

SearchNext == Reduce \/ NextGenerator \/ Judged \/ Expand \/ FreeFound \/ Counted \/ Pick \/ Ship

-----------------------------------------------------------------------------
\* The states some endless path stays in, away from zero, with no output.
Silent ==
  LET nonzero == States(cand.k) \ {Zero}
      staying(S, i) == {s \in S : \E bit \in {0, 1} :
                          NextOf(cand, s, bit) \in S /\ BranchWeight(cand, s, bit) = 0}
  IN  FoldLeft(staying, nonzero, [i \in 1..Cardinality(nonzero) |-> i])

\* The branches into a state, but those out of the zero state: the path has
\* to leave it once, with input 1, and not to come back before its end.
Into(v) == {e \in (States(cand.k) \ {Zero}) \X {0, 1} : NextOf(cand, e[1], e[2]) = v}

\* d gives each state the weight of the lightest way there.  Where no loop is
\* silent, these equations have one solution.
Solves(d) ==
  \A v \in States(cand.k) \ {Zero} :
    d[v] = Min({d[e[1]] + BranchWeight(cand, e[1], e[2]) : e \in Into(v)}
                 \cup (IF v = NextOf(cand, Zero, 1) THEN {BranchWeight(cand, Zero, 1)} ELSE {}))

\* The score is the weight of the lightest way from the zero state back to it,
\* and what ccode.h states of a standard code; a candidate is dropped exactly
\* if a message without end can be sent with only finitely many ones, or if
\* every output comes a step late (no generator taps the current bit's end).
ScoreIsFreeDistance ==
  stage = "scored" =>
    LET late == \A j \in DOMAIN cand.gens : 0 \notin cand.gens[j]
    IN  /\ (dfree = 0) <=> (Silent # {} \/ late)
        /\ dfree # 0 =>
             /\ Solves(dist)
             /\ dfree = Min({dist[e[1]] + BranchWeight(cand, e[1], e[2]) : e \in Into(Zero)})
        /\ cand.documented # 0 => dfree = cand.documented

\* The codes that ship are told apart two by two, at the family's own bound;
\* all but the default lock on themselves, and so does the default unless it
\* is pinned or no code does; and when fewer ship than the sample supports,
\* none of the others could have been added.
PresetsDistinct ==
  stage = "picked" =>
    /\ \A i, j \in DOMAIN sel : i # j => /\ sel[i] # sel[j]
                                         /\ Cross(sel[i], sel[j]) < SelectBound
    /\ \A i \in DOMAIN sel : sample.self[sel[i]] \/ (i = 1 /\ (sample.pin # 0 \/ Seeds = {}))
    /\ \A i, j \in 2..Len(sel) : i < j => sel[i] < sel[j]
    /\ Len(sel) < Target =>
         \A c \in Seeds \ ToSet(sel) : \E i \in DOMAIN sel : Cross(sel[i], c) >= SelectBound
=============================================================================
