------------------------------ MODULE Pipeline ------------------------------
(***************************************************************************)
(* The pipeline of src/pipe/pipeline.c over converters and routing pipes:  *)
(* between its input and its output buffer the stages run in order, a pump *)
(* in front of each.  The caller pushes, calls begin() and tick(), changes *)
(* selections and the list of stages between the calls; what feeds the     *)
(* outside sources does so then, too.  finalize() does what tick() does,   *)
(* as these stages know no difference, and is the same phase here.         *)
(***************************************************************************)
EXTENDS Routing

CONSTANTS Nets,       \* the kinds of stages to start with
          Sources,    \* the outside sources
          MaxItems    \* bound: elements sent

ASSUME PipelineAssumption ==
  /\ Nets \subseteq [Stage -> Kind] /\ Sources \subseteq Ext /\ MaxItems \in Nat
  /\ Item = (Sources \cup {Own}) \X Face \X (1..MaxItems)

\* A sink that both a splitter and another stage feed could not tell copies from
\* originals; push_to has one sink and pull_from one source, which their factories
\* do not let be missing.
ASSUME NetsAssumption ==
  \A net \in Nets : \A s \in Stage :
    /\ net[s] = "push_to" => Len(SinksOf[s]) = 1
    /\ net[s] = "pull_from" => Len(SourcesOf[s]) = 1
    /\ net[s] = "splitter" =>
         \A t \in Stage : net[t] \in {"diverter", "push_to"} =>
           Elements(SinksOf[s]) \cap Elements(SinksOf[t]) = {}

VARIABLES stages,   \* the stages in order
          left,     \* those removed; bound: they do not come back
          call,     \* the phase that runs: "idle", "begin" or "tick"
          sent      \* elements sent

vars == <<pvars, kind, chosen, stages, left, call, sent>>

Init ==
  /\ PumpInit
  /\ kind \in Nets
  /\ chosen = [s \in Stage |-> 0]
  /\ stages = <<>> /\ left = {}
  /\ call = "idle" /\ sent = {}

Member(s) == s \in Elements(stages)

\* An element tells where it came from, its face and its number.
Fresh(origin, face) == <<origin, face, Cardinality(sent) + 1>>

Arrive(place, origin, face) ==
  /\ call = "idle" /\ Cardinality(sent) < MaxItems
  /\ held' = [held EXCEPT ![place] = Append(@, Fresh(origin, face))]
  /\ sent' = sent \cup {Fresh(origin, face)}
  /\ UNCHANGED <<work, chunk, rest, target, gone, lost, kind, chosen, stages, left, call>>

\* dt_pipe_ends_pub_push and its soft twin.
Push(face) == Arrive(<<Own, "in", face>>, Own, face)

Feed(u, face) == face \in FacesOf[u] /\ Arrive(<<u, "out", face>>, u, face)

\* diverter_select, selector_select, valve_open and valve_close.
Select(s, k) ==
  /\ call = "idle" /\ s \in Settable /\ Member(s)
  /\ chosen' = [chosen EXCEPT ![s] = k]
  /\ UNCHANGED <<pvars, kind, stages, left, call, sent>>

\* dt_pipeline_add.
AddStage(s) ==
  /\ call = "idle" /\ ~Member(s) /\ s \notin left
  /\ stages' = Append(stages, s)
  /\ UNCHANGED <<pvars, kind, chosen, left, call, sent>>

\* dt_pipeline_remove; what the stage holds goes with it.
RemoveStage(s) ==
  /\ call = "idle" /\ Member(s)
  /\ \E i \in DOMAIN stages : stages[i] = s /\ stages' = RemoveAt(stages, i)
  /\ left' = left \cup {s}
  /\ UNCHANGED <<pvars, kind, chosen, call, sent>>

\* pl_run: the stages' own begin() does nothing.
PhaseJobs(phase) ==
  LET n == Len(stages)
      end(i) == IF i = 0 THEN InOf(Own) ELSE OutOf(stages[i])
      stage(i) == Transfer(end(i-1), << InOf(stages[i]) >>)
                  \o (IF phase = "begin" THEN <<>> ELSE Run(stages[i]))
  IN  FlattenSeq([i \in 1..n |-> stage(i)]) \o Transfer(end(n), << OutOf(Own) >>)

Start(phase) ==
  /\ call = "idle"
  /\ call' = phase
  /\ work' = PhaseJobs(phase)
  /\ UNCHANGED <<held, chunk, rest, target, gone, lost, kind, chosen, stages, left, sent>>

\* A step of the running phase; it is over when no job is left.
Phase(step) ==
  /\ step
  /\ call' = IF work' = <<>> THEN "idle" ELSE call
  /\ UNCHANGED <<kind, chosen, stages, left, sent>>

Next ==
  \/ \E f \in Face : Push(f) \/ \E u \in Sources : Feed(u, f)
  \/ \E s \in Stage : AddStage(s) \/ RemoveStage(s) \/ \E k \in 0..2 : Select(s, k)
  \/ \E phase \in {"begin", "tick"} : Start(phase)
  \/ Phase(GoesOn)
  \/ Phase(Fails)

Spec == Init /\ [][Next]_vars /\ WF_vars(Phase(GoesOn))

-----------------------------------------------------------------------------
TypeOK ==
  /\ held \in [Place -> Seq(Item)]
  /\ work \in Seq(Job) /\ (work = <<>>) = (call = "idle")
  /\ chunk \in Seq(Item) /\ Len(chunk) <= Chunk /\ rest \in Seq(Item)
  /\ chunk # <<>> => /\ target \in DOMAIN Head(work).to
                     /\ rest = SubSeq(chunk, Len(chunk) - Len(rest) + 1, Len(chunk))
  /\ call \in {"idle", "begin", "tick"}

\* The places an element passes on its way, as opposed to copies of it that a
\* splitter leaves outside.
Tees == UNION {Elements(SinksOf[s]) : s \in {t \in Stage : kind[t] = "splitter"}}
OnTheWay == {p \in Place : ~(p[1] \in Tees /\ p[2] = "in")}

\* Everywhere an element is: at a place, in a chunk that has no copy yet, or gone.
Whereabouts(item) ==
  (UNION {{<<"held", p, i>> : i \in {j \in DOMAIN held[p] : held[p][j] = item}} : p \in OnTheWay})
  \cup {<<"rest", i>> : i \in {j \in DOMAIN rest : target = 1 /\ rest[j] = item}}
  \cup (IF item \in gone THEN {<<"gone">>} ELSE {})
  \cup (IF item \in lost THEN {<<"lost">>} ELSE {})

\* Each element sent is at one place, or dropped on request, or lost to an
\* error, and never two of these, whatever fails, is switched, added or
\* removed in between (dt_pipe_pump, splitter_copy, pl_run).
Conserved == \A item \in sent : Cardinality(Whereabouts(item)) = 1

\* Elements of one origin and face never overtake each other, and no copy is
\* made twice, not even by a tick that repeats one which failed.
OrderKept ==
  \A p \in Place : \A i, j \in DOMAIN held[p] :
    LET a == held[p][i]  b == held[p][j]
    IN  i < j /\ a[1] = b[1] /\ a[2] = b[2] => a[3] < b[3]

\* A face that the sink s is switched to does not have.
Stuck(s, p) ==
  /\ p[1] = s /\ p[2] = "in"
  /\ Run(s) # <<>> => \A i \in DOMAIN Run(s) : Run(s)[i].from # p

Reads(s) ==
  IF kind[s] \in {"selector", "combiner", "pull_from"} THEN Elements(SourcesOf[s]) ELSE {}

\* A tick that succeeds leaves nothing in a stage or an outside source, so
\* that no stale data passes after a selection and none leaves with a stage
\* (selector_run, pl_run).  Only a face that the chosen sink lacks stays.
Settles ==
  [][call = "tick" /\ Phase(NextJob) /\ call' = "idle"
       => \A i \in DOMAIN stages : LET s == stages[i] IN
            \A p \in Place :
              p[1] = s \/ (p[1] \in Reads(s) /\ p[2] = "out")
                => held[p] = <<>> \/ Stuck(s, p)]_vars

\* The loops of dt_pipe_pump have no counter, and yet each call returns.
CallsReturn == call # "idle" ~> call = "idle"
=============================================================================
