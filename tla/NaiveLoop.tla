----------------------------- MODULE NaiveLoop -----------------------------
(***************************************************************************)
(* The naive frame decoder driven the way doc/fc/naive.md, the example     *)
(* 08_frames_naive and tests/fc/naive_test.c drive it: with whatever has   *)
(* arrived and whatever room there is, decode() again and again, src and   *)
(* dst advanced by the return value, until a call makes no progress.  The  *)
(* caller's variables are his, with an n in front.                         *)
(***************************************************************************)
EXTENDS NaiveMachine

CONSTANTS LoopSymbol,   \* received symbols
          MaxOffer      \* bound: symbols that arrive, and room offered, per loop

VARIABLES nsrc,       \* received, not consumed
          ndst,       \* written by this loop, or the last one
          nroom,      \* left in dst
          ndec,       \* the decoder
          nframe,     \* what the caller collected since it last saw BEGIN
          nlooping    \* inside the caller's loop

loopvars == <<nsrc, ndst, nroom, ndec, nframe, nlooping>>

LoopInit ==
  /\ nsrc = <<>> /\ ndst = <<>> /\ nroom = 0
  /\ ndec = FreshNaive
  /\ nframe = <<>>
  /\ nlooping = FALSE

\* More symbols, perhaps none, and an empty dst with room for n: a new loop.
Offer(more, n) ==
  /\ ~nlooping
  /\ Len(nsrc) + Len(more) <= MaxOffer
  /\ nsrc' = nsrc \o more
  /\ ndst' = <<>> /\ nroom' = n
  /\ nlooping' = TRUE
  /\ UNCHANGED <<ndec, nframe>>

\* One iteration; `state == prev && n == 0` ends the loop.
DecodeAgain ==
  /\ nlooping
  /\ LET r == NaiveDecode(ndec, nsrc, nroom)
         n == Len(r.bits)
     IN  /\ ndec' = r.dec
         /\ nsrc' = SubSeq(nsrc, n + 1, Len(nsrc))
         /\ ndst' = ndst \o r.bits
         /\ nroom' = nroom - n
         /\ nframe' = (IF NaiveState(r.dec) = "BEGIN" THEN <<>> ELSE nframe \o r.bits)
         /\ nlooping' = (n > 0 \/ NaiveState(r.dec) # NaiveState(ndec))

Arrivals == UNION {[1..n -> LoopSymbol] : n \in 0..MaxOffer}

LoopNext ==
  \/ \E more \in Arrivals, n \in 0..MaxOffer : Offer(more, n)
  \/ DecodeAgain

LoopSpec == LoopInit /\ [][LoopNext]_loopvars

-----------------------------------------------------------------------------
(* Types.                                                                  *)
LoopTypeOK ==
  /\ nsrc \in Seq(LoopSymbol) /\ ndst \in Seq(LoopSymbol) /\ nframe \in Seq(LoopSymbol)
  /\ ndec \in NaiveDecoder
  /\ nroom \in 0..MaxOffer /\ nlooping \in BOOLEAN

\* Frames tile the stream: however arrivals and rooms cut it, the caller has
\* collected exactly one frame's length when it sees END, and less before.
FramesTile ==
  CASE ndec.state = "END"    -> Len(nframe) = FrameLen
    [] ndec.state = "INSIDE" -> Len(nframe) = ndec.pos /\ Len(nframe) < FrameLen
    [] OTHER                -> nframe = <<>>

\* The loop ends for want of symbols or of room and for no other reason: "no
\* progress" is never a state the decoder would leave if it were called again.
SettledIsStarved ==
  ~nlooping => nsrc = <<>> \/ (nroom = 0 /\ ndec.state = "INSIDE")
=============================================================================
