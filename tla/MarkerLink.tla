----------------------------- MODULE MarkerLink -----------------------------
(***************************************************************************)
(* The marker encoder and the hard marker decoder (src/fc/marker.c) over a *)
(* channel that loses and damages nothing.  enc.out is the encoder's       *)
(* output FIFO and the transport behind it as one queue: draining the FIFO *)
(* into the transport moves symbols inside that queue.  The stream may be  *)
(* ended and begun again: begin() of both ends keeps all state.            *)
(***************************************************************************)
EXTENDS MarkerDecoder

CONSTANTS Backlog,    \* bound: the encoder is called with at most this in flight
          MaxIn       \* bound: payload waits in the pipe up to this

VARIABLES enc,       \* the encoder
          in,        \* payload pushed into the encoder's pipe and not yet run
          ended,     \* the encoder was finalized and the decoder not yet
          owed       \* auxiliary: what Owed says of this state

linkvars == <<enc, in, dec, got, feeding, ended, owed>>

LinkInit == enc = FreshEncoder /\ in = <<>> /\ DecInit /\ ended = FALSE /\ owed = <<>>

Writable == ~ended /\ Len(enc.out) <= Backlog

\* fenc_push.
Push(b) ==
  /\ ~ended /\ Len(in) < MaxIn
  /\ in' = Append(in, b)
  /\ UNCHANGED <<enc, decvars, ended>>

\* fenc_run: the codec takes all the payload that waits, one symbol after the
\* other, and the FIFO is emptied.
ProcessedAll(e, payload) ==
  Folded([f \in EncoderState |-> [b \in Bit |-> Processed(f, b)]], e, payload)

RunPayload ==
  /\ enc' = ProcessedAll(enc, in)
  /\ in' = <<>>

RunNoMemoryDropped ==   \* slip: the payload is given up before the room is found
  /\ in # <<>>
  /\ in' = <<>>
  /\ UNCHANGED enc

\* A run that finds no room leaves the payload where it is.
RunNoMemory ==
  /\ in # <<>>
  /\ UNCHANGED <<enc, in>>

\* fenc_tick.
Tick ==
  /\ Writable /\ in # <<>>
  /\ RunPayload \/ RunNoMemory
  /\ UNCHANGED <<decvars, ended>>

\* dt_pipe_frame_encoder_begin_frame, with no payload left to run (frames.h).
BeginFrame ==
  /\ Writable /\ in = <<>>
  /\ enc' = BegunFrame(enc)
  /\ UNCHANGED <<in, decvars, ended>>

\* dt_pipe_frame_encoder_end_frame, the same.  Nothing in it asks whether a
\* frame is open.
EndFrame ==
  /\ Writable /\ in = <<>>
  /\ enc' = EndedFrame(enc)
  /\ UNCHANGED <<in, decvars, ended>>

\* fenc_finalize: a last run, then the codec's flush, for which memory may run
\* out after the run found enough.
FinalizeEncoder ==
  /\ Writable
  /\ in' = <<>>
  /\ \/ enc' = Flushed(ProcessedAll(enc, in)) /\ ended' = TRUE
     \/ in # <<>> /\ enc' = ProcessedAll(enc, in) /\ UNCHANGED ended
  /\ UNCHANGED decvars

\* The next symbol in flight is fed to the decoder.
Carry ==
  /\ enc.out # <<>>
  /\ Feed(Head(enc.out))
  /\ enc' = [enc EXCEPT !.out = Tail(@)]
  /\ UNCHANGED <<in, ended>>

\* A decode call returns.
Answer(room) == Return(room) /\ UNCHANGED <<enc, in, ended>>

\* The end of the stream reaches the decoder.
FinalizeDecoder(room) ==
  /\ ended
  /\ enc.out = <<>>
  /\ Finalize(room)
  /\ ended' = FALSE
  /\ UNCHANGED <<enc, in>>

\* All that is still to come out if the stream ended now: what the decoder
\* has queued, then what it makes of the symbols in flight, of the payload
\* that waits, of the encoder's flush and of its own finalize.
Owed(d, e, payload) ==
  Closed(FedAll(d, Flushed(ProcessedAll(e, payload)).out)).out

LinkActs ==
  \/ \E b \in Bit : Push(b)
  \/ Tick
  \/ BeginFrame
  \/ EndFrame
  \/ FinalizeEncoder
  \/ Carry
  \/ \E room \in 0..MaxRoom : Answer(room) \/ FinalizeDecoder(room)

LinkNext == LinkActs /\ owed' = Owed(dec', enc', in')

LinkSpec == LinkInit /\ [][LinkNext]_linkvars

-----------------------------------------------------------------------------
(* What the link promises.                                                 *)

\* Transparency: whatever bits are sent, markers and escapes among them, and
\* wherever the stream ends, the decoder reports exactly them and the frame
\* boundaries, in order.
Link == INSTANCE FrameLink
          WITH Symbols <- Bit, Rooms <- 0..MaxRoom,
               owed <- owed, open <- enc.inFrame, fstate <- dec.fstate, got <- got
ImplementsFrameLink == Link!LSpec

\* With nothing in flight only bits are held back, at most a run and a half
\* gathered code at the encoder and a run at the decoder: a boundary is
\* queued as soon as its marker has arrived, and latency is bounded.
HeldBack ==
  enc.out = <<>> /\ in = <<>> =>
    /\ Len(owed) <= Len(dec.out) + 2 * Run + 2
    /\ \A i \in (Len(dec.out) + 1)..Len(owed) : owed[i] \notin FState

\* What frames.h says of begin_frame with a frame open and of end_frame with
\* none: the call is refused, so it puts nothing into the stream.
UnmatchedRefused ==
  [][(BeginFrame /\ enc.inFrame) \/ (EndFrame /\ ~enc.inFrame) => enc'.out = enc.out]_linkvars
=============================================================================
