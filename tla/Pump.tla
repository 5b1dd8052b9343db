-------------------------------- MODULE Pump --------------------------------
(***************************************************************************)
(* Where elements can be in the pipe layer, and how they are moved.  Every *)
(* handler of a compound or routing pipe is a list of jobs, done one after *)
(* the other: dt_pipe_pump of one face from a source to a sink, or to      *)
(* nowhere, the splitter's copy to several sinks, or a conversion of all   *)
(* that is buffered.  A pump takes a chunk out of its source and pushes it *)
(* in pieces; the first error abandons the chunk and the rest of the list. *)
(***************************************************************************)
EXTENDS Integers, Sequences, FiniteSets, SequencesExt

CONSTANTS Stage,     \* pipes that can be stages
          Ext,       \* sources and sinks outside
          FacesOf,   \* Ext -> the faces it has; the others are NULL
          Own,       \* the pipeline, as a pipe
          Chunk,     \* elements moved at a time (256 in the code)
          Item       \* elements

Face == {"hard", "soft"}

ASSUME PumpAssumption ==
  /\ FacesOf \in [Ext -> SUBSET Face]
  /\ Chunk \in Nat \ {0}
  /\ Ext \cap Stage = {} /\ Own \notin Ext \cup Stage

\* A pipe has two buffers a side; an outside sink is an "in", a source an "out".
Place == (Stage \cup Ext \cup {Own}) \X {"in", "out"} \X Face

Job == [from : Place, to : Seq(Place), whole : BOOLEAN]

VARIABLES held,     \* what is at each place
          work,     \* the jobs the running handler still has to do
          chunk,    \* what was taken out of the source of the first of them
          rest,     \* what of it the current target has not got yet
          target,   \* which of the job's targets that is
          gone,     \* elements dropped on request
          lost      \* elements dropped by an error

pvars == <<held, work, chunk, rest, target, gone, lost>>

NoChunk == chunk' = <<>> /\ rest' = <<>> /\ target' = 0

PumpInit ==
  /\ held = [p \in Place |-> <<>>]
  /\ work = <<>> /\ chunk = <<>> /\ rest = <<>> /\ target = 0
  /\ gone = {} /\ lost = {}

Elements(s) == {s[i] : i \in DOMAIN s}

AtMost(a, b) == IF a <= b THEN a ELSE b

\* A FIFO hands out all that is asked for and takes all or nothing; what is
\* outside may do less.
Handed(place) ==
  LET full == AtMost(Chunk, Len(held[place]))
  IN  IF place[1] \in Ext THEN 1..full ELSE {full}

TakenByFull(place) ==   \* slip: a sink that takes nothing is asked again
  IF place[1] \in Ext THEN 0..Len(rest) - 1 ELSE {Len(rest)}

Taken(place) == IF place[1] \in Ext THEN 1..Len(rest) ELSE {Len(rest)}

TakeChunk ==
  /\ work # <<>> /\ chunk = <<>>
  /\ LET job == Head(work) IN
     /\ ~job.whole /\ held[job.from] # <<>>
     /\ \E k \in Handed(job.from) :
          LET piece == SubSeq(held[job.from], 1, k) IN
          /\ held' = [held EXCEPT ![job.from] = SubSeq(@, k + 1, Len(@))]
          /\ \/ /\ job.to = <<>>
                /\ gone' = gone \cup Elements(piece)
                /\ UNCHANGED <<chunk, rest, target>>
             \/ /\ job.to # <<>>
                /\ chunk' = piece /\ rest' = piece /\ target' = 1
                /\ UNCHANGED gone
  /\ UNCHANGED <<work, lost>>

RestIsAll(w) == rest   \* slip: b for b + off

RestSkips(w) == SubSeq(rest, w + 2, Len(rest))   \* slip: off += w + 1

RestOf(w) == SubSeq(rest, w + 1, Len(rest))

PushPart ==
  /\ chunk # <<>>
  /\ LET to == Head(work).to IN
     \E w \in Taken(to[target]) :
       /\ held' = [held EXCEPT ![to[target]] = @ \o SubSeq(rest, 1, w)]
       /\ \/ w < Len(rest) /\ rest' = RestOf(w) /\ UNCHANGED <<chunk, target>>
          \/ /\ w = Len(rest) /\ target < Len(to)
             /\ rest' = chunk /\ target' = target + 1 /\ UNCHANGED chunk
          \/ w = Len(rest) /\ target = Len(to) /\ NoChunk
  /\ UNCHANGED <<work, gone, lost>>

\* A conversion makes all its room first, so it moves everything or nothing.
Convert ==
  /\ work # <<>>
  /\ LET job == Head(work) IN
     /\ job.whole /\ held[job.from] # <<>>
     /\ held' = [held EXCEPT ![job.from] = <<>>,
                             ![job.to[1]] = @ \o held[job.from]]
  /\ UNCHANGED <<work, chunk, rest, target, gone, lost>>

\* The source yields no more.
NextJob ==
  /\ work # <<>> /\ chunk = <<>>
  /\ held[Head(work).from] = <<>>
  /\ work' = Tail(work)
  /\ UNCHANGED <<held, chunk, rest, target, gone, lost>>

\* A push is refused or fails, there is no memory, or an outside source fails.
\* Elements that did not even reach the first target are lost.
Fails ==
  /\ work # <<>>
  /\ \/ chunk # <<>>
     \/ Head(work).from[1] \in Ext
     \/ Head(work).whole /\ held[Head(work).from] # <<>>
  /\ lost' = lost \cup (IF target = 1 THEN Elements(rest) ELSE {})
  /\ work' = <<>> /\ NoChunk
  /\ UNCHANGED <<held, gone>>

GoesOn == TakeChunk \/ PushPart \/ Convert \/ NextJob
=============================================================================
