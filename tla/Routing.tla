------------------------------ MODULE Routing ------------------------------
(***************************************************************************)
(* What the tick of each pipe of src/pipe/multi.c and of the converters of *)
(* src/pipe/pipes.c does, as a list of jobs; finalize() does the same and  *)
(* begin() nothing.                                                        *)
(***************************************************************************)
EXTENDS Pump

CONSTANTS SinksOf,    \* Stage -> the outside sinks it was created with
          SourcesOf   \* Stage -> the outside sources

ASSUME RoutingAssumption ==
  SinksOf \in [Stage -> Seq(Ext)] /\ SourcesOf \in [Stage -> Seq(Ext)]

Converter == {"hardening", "softening"}
Kind == Converter \cup {"splitter", "diverter", "selector", "valve", "combiner",
                        "drain", "push_to", "pull_from"}

VARIABLES kind,     \* Stage -> what it is
          chosen    \* Stage -> its selection; 0 for an open valve, 1 for a closed one

Settable == {s \in Stage : kind[s] \in {"diverter", "selector", "valve"}}

Has(node, face) == node \in Ext => face \in FacesOf[node]

\* A converter buffers either face as soft records.
At(node, side, face) ==
  <<node, side,
    IF node \in Stage /\ side = "in" /\ kind[node] \in Converter THEN "soft" ELSE face>>

\* Those of the ends that have a face, as places.
Able(ends, face) ==
  FlattenSeq([i \in DOMAIN ends |->
    IF Has(ends[i][1], face) THEN << At(ends[i][1], ends[i][2], face) >> ELSE <<>>])

\* Moving one face: nothing if no target has it, unless it is to be dropped.
Move(from, ends, face) ==
  IF Has(from[1], face) /\ (ends = <<>> \/ Able(ends, face) # <<>>)
  THEN << [from |-> At(from[1], from[2], face), to |-> Able(ends, face), whole |-> FALSE] >>
  ELSE <<>>

\* dt_pipe_pump, and splitter_copy when there are several ends.
Transfer(from, ends) == Move(from, ends, "hard") \o Move(from, ends, "soft")

InOf(s)  == <<s, "in">>
OutOf(s) == <<s, "out">>
Sinks(s) == [i \in DOMAIN SinksOf[s] |-> InOf(SinksOf[s][i])]

\* Transfers from the outside sources of s, each to the ends that To gives it.
FromSources(s, To(_)) ==
  FlattenSeq([i \in DOMAIN SourcesOf[s] |-> Transfer(OutOf(SourcesOf[s][i]), To(i))])

-----------------------------------------------------------------------------
\* harden_run, soften_run.
ConverterRun(s) ==
  << [from  |-> <<s, "in", "soft">>,
      to    |-> << <<s, "out", IF kind[s] = "hardening" THEN "hard" ELSE "soft">> >>,
      whole |-> TRUE] >>

SplitterRun(s) == Transfer(InOf(s), << OutOf(s) >> \o Sinks(s))

DiverterRun(s) ==
  Transfer(InOf(s), IF chosen[s] = 0 THEN << OutOf(s) >>
                    ELSE IF chosen[s] <= Len(SinksOf[s]) THEN << Sinks(s)[chosen[s]] >>
                    ELSE <<>>)

SelectorRunKeeps(s) ==   \* slip: what is not selected is not drained
  IF chosen[s] = 0 THEN Transfer(InOf(s), << OutOf(s) >>)
  ELSE IF chosen[s] <= Len(SourcesOf[s])
       THEN Transfer(OutOf(SourcesOf[s][chosen[s]]), << OutOf(s) >>)
       ELSE <<>>

SelectorRun(s) ==
  LET to(i) == IF chosen[s] = i THEN << OutOf(s) >> ELSE <<>>
  IN  Transfer(InOf(s), to(0)) \o FromSources(s, to)

ValveRun(s) == Transfer(InOf(s), IF chosen[s] = 0 THEN << OutOf(s) >> ELSE <<>>)

CombinerRun(s) ==
  LET out(i) == << OutOf(s) >>
  IN  Transfer(InOf(s), out(0)) \o FromSources(s, out)

DrainRun(s) == Transfer(InOf(s), <<>>)

PushToRun(s) == Transfer(InOf(s), << Sinks(s)[1] >>)

PullFromRun(s) ==
  Transfer(InOf(s), <<>>) \o Transfer(OutOf(SourcesOf[s][1]), << OutOf(s) >>)

Run(s) ==
  CASE kind[s] \in Converter -> ConverterRun(s)
    [] kind[s] = "splitter"  -> SplitterRun(s)
    [] kind[s] = "diverter"  -> DiverterRun(s)
    [] kind[s] = "selector"  -> SelectorRun(s)
    [] kind[s] = "valve"     -> ValveRun(s)
    [] kind[s] = "combiner"  -> CombinerRun(s)
    [] kind[s] = "drain"     -> DrainRun(s)
    [] kind[s] = "push_to"   -> PushToRun(s)
    [] kind[s] = "pull_from" -> PullFromRun(s)
=============================================================================
