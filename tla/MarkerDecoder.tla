--------------------------- MODULE MarkerDecoder ---------------------------
(***************************************************************************)
(* The hard decoder of the marker frame codec (src/fc/marker.c), on a      *)
(* channel that may deliver any symbols at all.  decode() feeds the symbols*)
(* of src one by one to a bit machine that queues tokens, recovered bits   *)
(* and frame transitions, then drains the queue up to the next transition  *)
(* or until dst is full.  A call is a run of Feed steps, one per symbol of *)
(* src, and the Return step that ends it.                                  *)
(***************************************************************************)
EXTENDS MarkerCodec

CONSTANTS MaxRoom,   \* bound: dst_len of a call
          MaxQueue   \* bound: nothing is added to a longer queue

ASSUME BoundsAssumption == MaxRoom \in Nat /\ MaxQueue \in Nat

VARIABLES dec,      \* the bit machine and its queue
          got,      \* the bits this call, or the last one, wrote to dst
          feeding   \* inside the loop of a decode call

decvars == <<dec, got, feeding>>

\* The end of a call: w bits of d's queue go to dst, which has room for `room`.
Returns(d, room) ==
  \E w \in Stops(d, room) :
    /\ dec' = Drained(d, w)
    /\ got' = SubSeq(d.out, 1, w)
    /\ feeding' = FALSE

-----------------------------------------------------------------------------
DecInit == dec = FreshDecoder /\ got = <<>> /\ feeding = FALSE

\* One iteration of md_decode's loop.
Feed(b) ==
  /\ Len(dec.out) <= MaxQueue
  /\ dec' = Fed(dec, b)
  /\ feeding' = TRUE
  /\ got' = <<>>

\* md_decode after its loop; with no Feed before it, a call with src empty.
Return(room) == Returns(dec, room)

\* md_finalize.
Finalize(room) ==
  /\ ~feeding
  /\ Len(dec.out) <= MaxQueue
  /\ Returns(Closed(dec), room)

DecNext ==
  \/ \E b \in Bit : Feed(b)
  \/ \E room \in 0..MaxRoom : Return(room) \/ Finalize(room)

DecSpec == DecInit /\ [][DecNext]_decvars

-----------------------------------------------------------------------------
(* Types.                                                                  *)
DecoderTypeOK == dec \in DecoderState /\ got \in Seq(Bit) /\ feeding \in BOOLEAN

\* The current frame state and the tokens still to be reported after it.
Walk == <<dec.fstate>> \o dec.out

\* BEGIN and END are momentary (frame_decoder.h): whatever arrives, the state
\* that must follow is already queued directly behind, with no bit between, so
\* draining always leaves them and no bit is ever reported inside them.
MomentaryStates ==
  \A i \in 1..Len(Walk) :
    /\ Walk[i] = "BEGIN" => i < Len(Walk) /\ Walk[i + 1] = "INSIDE"
    /\ Walk[i] = "END"   => i < Len(Walk) /\ Walk[i + 1] \in {"OUTSIDE", "BEGIN"}

\* Two transitions in a row never name the same state: the pipe adapter and
\* every caller detect a boundary by comparing get_state() before and after a
\* call (frames.c fdec_tick, fdec_drain), which would miss one that repeats.
EveryTransitionMoves ==
  \A i, j \in 1..Len(Walk) :
    (/\ i < j
     /\ Walk[i] \in FState /\ Walk[j] \in FState
     /\ \A k \in (i + 1)..(j - 1) : Walk[k] \notin FState)
    => Walk[i] # Walk[j]
=============================================================================
