----------------------------- MODULE FramePipe -----------------------------
(***************************************************************************)
(* The frame decoder pipe of src/pipe/frames.c over any hard frame decoder *)
(* (the soft one, fsdec_, is the same code over soft records).  tick()     *)
(* copies one run and stalls at the boundary behind it; finalize() copies  *)
(* everything.  Both loop over decode(), one Call step an iteration, and   *)
(* nothing else happens before they return.  The wrapped decoder is its    *)
(* function table, as constants; `room` is what dt_bit_fifo_reserve left   *)
(* spare in the output FIFO: what was asked for, or more.                  *)
(***************************************************************************)
EXTENDS Integers, Sequences

CONSTANTS Decode(_, _, _),  \* (decoder, src, room): its state after, and the bits
          Finish(_, _),     \* (decoder, room): likewise, finalize()
          StateOf(_),       \* get_state()
          NewDecoder,       \* as created
          Symbol,           \* received symbols
          Reserve,          \* room asked for before each decode() (512 in the code)
          EdgeRoom,         \* room asked for before finalize() (4096)
          Backlog(_),       \* what a decoder holds back, as a number to bound
          Slack,            \* bound: spare cells beyond the room asked for
          MaxBacklog,       \* bound: nothing is pushed behind a longer backlog
          MaxIn, MaxOut     \* bounds: nothing is pushed or copied beyond these

VARIABLES in,        \* received symbols not yet given to the decoder
          out,       \* recovered bits not yet pulled
          dec,       \* the wrapped decoder
          stalled,   \* parked at a boundary
          pc,        \* the handler that runs: "idle", "tick", "drain" or "edge"
          prev,      \* its `prev`: the frame state before the current step
          wrote      \* the current fdec_step has produced bits

vars == <<in, out, dec, stalled, pc, prev, wrote>>

Init ==
  /\ in = <<>> /\ out = <<>>
  /\ dec = NewDecoder
  /\ stalled = FALSE
  /\ pc = "idle" /\ prev = "OUTSIDE" /\ wrote = FALSE

\* A handler returns; its locals are gone.
Idle == pc' = "idle" /\ prev' = "OUTSIDE" /\ wrote' = FALSE

\* A step of fdec_step begins in handler h with the decoder in state d.
StepIn(h, d) == pc' = h /\ prev' = StateOf(d) /\ wrote' = FALSE

\* fdec_push, one symbol of it.
Push(b) ==
  /\ pc = "idle"
  /\ Len(in) < MaxIn /\ Backlog(dec) <= MaxBacklog
  /\ in' = Append(in, b)
  /\ UNCHANGED <<out, dec, stalled, pc, prev, wrote>>

\* fdec_pull.
Pull(n) ==
  /\ pc = "idle"
  /\ n <= Len(out)
  /\ out' = SubSeq(out, n + 1, Len(out))
  /\ UNCHANGED <<in, dec, stalled, pc, prev, wrote>>

\* fdec_tick up to its step; while stalled it does nothing.
Tick ==
  /\ pc = "idle"
  /\ ~stalled
  /\ Len(out) <= MaxOut
  /\ StepIn("tick", dec)
  /\ UNCHANGED <<in, out, dec, stalled>>

\* fdec_finalize up to fdec_drain's first step.
Finalize ==
  /\ pc = "idle"
  /\ Len(out) <= MaxOut
  /\ stalled' = FALSE
  /\ StepIn("drain", dec)
  /\ UNCHANGED <<in, out, dec>>

\* dt_pipe_frame_decoder_advance; fdec_begin leaves the same, for codecs whose
\* begin() consumes no preamble, as all in the repository.
Advance ==
  /\ pc = "idle"
  /\ stalled' = FALSE
  /\ UNCHANGED <<in, out, dec, pc, prev, wrote>>

StepOverWhenSilent(d, produced) ==   \* slip: a silent boundary ends the drain
  LET moved == StateOf(d) # prev
  IN  \/ pc = "tick" /\ Idle /\ stalled' = moved
      \/ pc = "drain" /\ produced /\ StepIn("drain", d) /\ UNCHANGED stalled
      \/ pc = "drain" /\ ~produced /\ pc' = "edge" /\ UNCHANGED <<stalled, prev, wrote>>

StepOverNever(d, produced) ==        \* slip: the drain does not look for an end
  \/ pc = "tick" /\ Idle /\ stalled' = (StateOf(d) # prev)
  \/ pc = "drain" /\ StepIn("drain", d) /\ UNCHANGED stalled

\* The handler's step is over, the decoder in state d, having produced bits or not.
StepOver(d, produced) ==
  LET moved == StateOf(d) # prev
  IN  \/ pc = "tick" /\ Idle /\ stalled' = moved
      \/ pc = "drain" /\ (produced \/ moved) /\ StepIn("drain", d) /\ UNCHANGED stalled
      \/ pc = "drain" /\ ~(produced \/ moved) /\ pc' = "edge"
           /\ UNCHANGED <<stalled, prev, wrote>>

\* An iteration of fdec_step: all input is fed at once, then the loop repeats,
\* with nothing left to feed, for as long as the decoder fills the room.
Call(room) ==
  /\ pc \in {"tick", "drain"}
  /\ LET r    == Decode(dec, in, room)
         full == Len(r.bits) = room
     IN  /\ dec' = r.dec
         /\ out' = out \o r.bits
         /\ in'  = <<>>
         /\ \/ full /\ wrote' = TRUE /\ UNCHANGED <<stalled, pc, prev>>
            \/ ~full /\ StepOver(r.dec, wrote \/ r.bits # <<>>)

\* fdec_finalize after the drain.
Edge(room) ==
  /\ pc = "edge"
  /\ LET r == Finish(dec, room)
     IN  dec' = r.dec /\ out' = out \o r.bits
  /\ Idle
  /\ UNCHANGED <<in, stalled>>

\* The output FIFO cannot be grown: the handler gives up at once.
NoMemory ==
  /\ pc # "idle"
  /\ Idle
  /\ UNCHANGED <<in, out, dec, stalled>>

Next ==
  \/ \E b \in Symbol : Push(b)
  \/ \E n \in 1..Len(out) : Pull(n)
  \/ Tick
  \/ Finalize
  \/ Advance
  \/ \E room \in Reserve..(Reserve + Slack) : Call(room)
  \/ \E room \in EdgeRoom..(EdgeRoom + Slack) : Edge(room)
  \/ NoMemory

Spec == Init /\ [][Next]_vars

\* A handler that was entered keeps running: it is one C call.
GoesOn ==
  WF_vars(\/ \E room \in Reserve..(Reserve + Slack) : Call(room)
          \/ \E room \in EdgeRoom..(EdgeRoom + Slack) : Edge(room))

-----------------------------------------------------------------------------
\* Runs never merge: once get_state() has left the state the tick started in,
\* the tick copies no further bit, even though its loop goes on when the run
\* happened to fill the room (frames.c fdec_step): the bits of one tick lie
\* on one side of every boundary.
RunsNeverMerge == [][pc = "tick" /\ StateOf(dec) # prev => out' = out]_vars

\* Whatever the decoder holds, finalize() and tick() return: their loops end
\* although neither counts its rounds (fdec_step, fdec_drain).
HandlersReturn == pc # "idle" ~> pc = "idle"

\* What frames.h says of tick(): it copies only up to the next frame-state
\* change and stalls there, so the decoder is not called again once it moved.
StopsAtEveryChange ==
  [][pc = "tick" /\ StateOf(dec) # prev => dec' = dec]_vars
=============================================================================
