----------------------------- MODULE MarkerPipe -----------------------------
(***************************************************************************)
(* The frame decoder pipe over the marker codec (src/pipe/frames.c with    *)
(* src/fc/marker.c): the pipe of FramePipe with the marker decoder's       *)
(* function table.                                                         *)
(***************************************************************************)
EXTENDS MarkerCodec

CONSTANTS Reserve, EdgeRoom, Slack,            \* see FramePipe
          MaxBacklog, MaxReceived, MaxCopied   \* its bounds

\* finalize asks for room for all that the codec may hold back (4096, for at
\* most a run of ones and a zero behind it).
ASSUME MarkerPipeAssumption ==
  /\ Reserve \in Nat \ {0} /\ EdgeRoom \in Nat /\ EdgeRoom > Run
  /\ Slack \in Nat /\ MaxBacklog \in Nat /\ MaxReceived \in Nat /\ MaxCopied \in Nat

\* The variables of FramePipe.
VARIABLES pin, pout, pdec, stalled, pc, prev, wrote

pipevars == <<pin, pout, pdec, stalled, pc, prev, wrote>>

\* A call's end: the only result d_drain can leave.
Drain(d, room) ==
  LET w == CHOOSE n \in Stops(d, room) : TRUE
  IN  [dec |-> Drained(d, w), bits |-> SubSeq(d.out, 1, w)]

\* md_decode.
MarkerDecode(d, src, room) == Drain(FedAll(d, src), room)

\* md_finalize.
MarkerFinish(d, room) == Drain(Closed(d), room)

\* md_get_state.
MarkerState(d) == d.fstate

MarkerBacklog(d) == Len(d.out)

Pipe == INSTANCE FramePipe
          WITH Decode <- MarkerDecode, Finish <- MarkerFinish, StateOf <- MarkerState,
               NewDecoder <- FreshDecoder, Backlog <- MarkerBacklog, Symbol <- Bit,
               MaxIn <- MaxReceived, MaxOut <- MaxCopied,
               in <- pin, out <- pout, dec <- pdec

PipeSpec == Pipe!Spec

-----------------------------------------------------------------------------
(* Types; a handler's locals are set only while it runs.                   *)
PipeTypeOK ==
  /\ pin \in Seq(Bit) /\ pout \in Seq(Bit)
  /\ pdec \in DecoderState
  /\ stalled \in BOOLEAN /\ wrote \in BOOLEAN
  /\ pc \in {"idle", "tick", "drain", "edge"}
  /\ prev \in FState

\* Runs never merge, see FramePipe.
RunsNeverMerge == Pipe!RunsNeverMerge

\* A tick stops at every change of the frame state, see FramePipe.
StopsAtEveryChange == Pipe!StopsAtEveryChange

\* What the symbols received so far decode to and has not been copied yet.
Unread == FedAll(pdec, pin).out

\* Bits and boundaries pass the pipe in order, none lost or repeated: by
\* ticks that stop at a full FIFO, by handlers that run out of memory half
\* way, or by a finalize() whose drain mistakes a silent boundary for the end.
Reader == INSTANCE FrameReader
            WITH pending <- Unread, fstate <- pdec.fstate, readable <- pout
ImplementsFrameReader == Reader!RSpec
=============================================================================
