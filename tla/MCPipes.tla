------------------------------ MODULE MCPipes ------------------------------
(***************************************************************************)
(* Two pairs of codec pipes, the marker decoder on its own, the threads of *)
(* a metrics program and the containers, each in behaviours of its own:    *)
(*   stream   the stream codec pipes, a rate 1/3 code whose output does    *)
(*            not fit the room first asked for                             *)
(*   marker   the frame decoder pipe over the marker codec, markers of one *)
(*            1, room for one or two bits a call                           *)
(*   noise    the marker decoder, the same markers, on a channel that may  *)
(*            deliver any bits at all                                      *)
(*   sweep    three threads, two points of two trials                      *)
(*   bag      three objects in a container that starts with one entry      *)
(***************************************************************************)
EXTENDS StreamLink, MarkerDecoder, MarkerPipe, TrialSweep, Container

CONSTANT Parts    \* the parts that act

VARIABLE part

MCAxes == <<"flip", "del">>

MCInit ==
  /\ part \in Parts
  /\ Init /\ Pipe!Init /\ DecInit /\ SweepInit /\ BagInit
  /\ part # "bag" => ~pipes

StreamActs == part = "stream" /\ Next /\ UNCHANGED <<part, pipevars, decvars, sweepvars, bagvars>>
MarkerActs == part = "marker" /\ Pipe!Next /\ UNCHANGED <<part, vars, decvars, sweepvars, bagvars>>
NoiseActs  == part = "noise" /\ DecNext /\ UNCHANGED <<part, vars, pipevars, sweepvars, bagvars>>
SweepActs  == part = "sweep" /\ SweepNext /\ UNCHANGED <<part, vars, pipevars, decvars, bagvars>>
BagActs    == part = "bag" /\ BagNext /\ UNCHANGED <<part, vars, pipevars, decvars, sweepvars>>

MCNext == StreamActs \/ MarkerActs \/ NoiseActs \/ SweepActs \/ BagActs

MCSpec ==
  /\ MCInit /\ [][MCNext]_<<part, vars, pipevars, decvars, sweepvars, bagvars>>
  /\ GoesOn /\ Pipe!GoesOn

-----------------------------------------------------------------------------
\* Handlers return in either, see StreamLink and FramePipe.
CallsReturn == HandlersReturn /\ Pipe!HandlersReturn
=============================================================================
