----------------------------- MODULE NaivePipe -----------------------------
(***************************************************************************)
(* The frame decoder pipe over the naive codec (src/pipe/frames.c with     *)
(* src/fc/naive.c): the pipe of FramePipe with the naive decoder's table.  *)
(***************************************************************************)
EXTENDS NaiveMachine

CONSTANTS Symbol, Reserve, EdgeRoom, Slack, MaxBacklog, MaxIn, MaxOut

VARIABLES in, out, dec, stalled, pc, prev, wrote

NaiveBacklog(d) == 0

INSTANCE FramePipe
  WITH Decode <- NaiveDecode, Finish <- NaiveFinish, StateOf <- NaiveState,
       NewDecoder <- FreshNaive, Backlog <- NaiveBacklog

-----------------------------------------------------------------------------
\* What frames.h says of the pipe over any frame decoder: push buffers the
\* received bits and tick() appends the recovered stream to the output.  For
\* this codec the recovered stream is the received one, so a handler may move
\* symbols from the input to the output and must lose none.
HandlersKeepBits == [][pc # "idle" => out' \o in' = out \o in]_vars
=============================================================================
