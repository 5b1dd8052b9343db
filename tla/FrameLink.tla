----------------------------- MODULE FrameLink -----------------------------
(***************************************************************************)
(* What a frame codec promises its two users (frame_encoder.h,             *)
(* frame_decoder.h): the bits given to the encoder and the frame           *)
(* boundaries it was told of come out of the decoder in that order, each   *)
(* once, a call reporting bits up to at most one boundary.                 *)
(***************************************************************************)
EXTENDS Integers, Sequences

CONSTANTS Symbols,   \* the bits a user may supply
          Rooms      \* the buffer sizes a reader may offer

VARIABLES owed,      \* bits and boundaries supplied and not yet reported
          open,      \* a frame is open at the encoder
          fstate,    \* the decoder's get_state()
          got        \* the bits the last decoder call returned

lvars == <<owed, open, fstate, got>>

Boundary == {"OUTSIDE", "BEGIN", "INSIDE", "END"}

LInit == owed = <<>> /\ open = FALSE /\ fstate = "OUTSIDE" /\ got = <<>>

Supply(b) == owed' = Append(owed, b) /\ UNCHANGED <<open, fstate, got>>

\* Opening a frame inside a frame closes that one first.
OpenFrame ==
  /\ owed' = owed \o (IF open THEN <<"END">> ELSE <<>>) \o <<"BEGIN", "INSIDE">>
  /\ open' = TRUE
  /\ UNCHANGED <<fstate, got>>

CloseFrame ==
  /\ owed' = owed \o <<"END", "OUTSIDE">>
  /\ open' = FALSE
  /\ UNCHANGED <<fstate, got>>

\* The next k items are bits and are returned.
Report(k, room) ==
  /\ k <= room
  /\ \A i \in 1..k : owed[i] \notin Boundary
  /\ got' = SubSeq(owed, 1, k)
  /\ UNCHANGED open

DeliverBits(k, room) ==
  /\ Report(k, room)
  /\ owed' = SubSeq(owed, k + 1, Len(owed))
  /\ UNCHANGED fstate

DeliverBoundary(k, room) ==
  /\ k < Len(owed)
  /\ owed[k + 1] \in Boundary
  /\ Report(k, room)
  /\ fstate' = owed[k + 1]
  /\ owed' = SubSeq(owed, k + 2, Len(owed))

LNext ==
  \/ \E b \in Symbols : Supply(b)
  \/ OpenFrame
  \/ CloseFrame
  \/ \E k \in 0..Len(owed), room \in Rooms : DeliverBits(k, room) \/ DeliverBoundary(k, room)

LSpec == LInit /\ [][LNext]_lvars
=============================================================================
