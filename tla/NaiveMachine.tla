--------------------------- MODULE NaiveMachine ---------------------------
(***************************************************************************)
(* The decoder of the naive frame codec (src/fc/naive.c): frames of        *)
(* FrameLen symbols back to back, no marker between them.  Every decode()  *)
(* makes at most one state move; it holds nothing back, so the symbols it  *)
(* consumed are the bits it wrote, and the caller must offer the rest      *)
(* again.  The soft decoder is the same machine over soft records.         *)
(***************************************************************************)
EXTENDS Integers, Sequences

CONSTANT FrameLen    \* symbols in a frame, as agreed by both ends; at least one

FrameState == {"OUTSIDE", "BEGIN", "INSIDE", "END"}

NaiveDecoder == [pos : 0..FrameLen, state : FrameState]

FreshNaive == [pos |-> 0, state |-> "OUTSIDE"]

Shortest(a, b, c) == CHOOSE m \in {a, b, c} : m <= a /\ m <= b /\ m <= c

\* A frame opens only when there is something to put in it.
OpenedOnce(d, src) ==       \* slip: the first frame only
  IF src = <<>> \/ d.state = "END" THEN d ELSE [d EXCEPT !.state = "BEGIN"]
Opened(d, src) == IF src = <<>> THEN d ELSE [d EXCEPT !.state = "BEGIN"]

EnteredAsIs(d) == [d EXCEPT !.state = "INSIDE"]    \* slip: the count not reset
Entered(d) == [d EXCEPT !.state = "INSIDE", !.pos = 0]

\* Symbols a call inside a frame copies.
Count(d, src, room) == Shortest(FrameLen - d.pos, room, Len(src))

Copied(src, d, n) == SubSeq(src, 1, n)

Advanced(d, n) ==
  [pos |-> d.pos + n, state |-> IF d.pos + n = FrameLen THEN "END" ELSE "INSIDE"]

\* naive_decoder_decode: the decoder after a call with src and room in dst,
\* and the bits written.
NaiveDecode(d, src, room) ==
  LET n == Count(d, src, room)
  IN  CASE d.state \in {"OUTSIDE", "END"} -> [dec |-> Opened(d, src), bits |-> <<>>]
        [] d.state = "BEGIN"  -> [dec |-> Entered(d), bits |-> <<>>]
        [] d.state = "INSIDE" -> [dec |-> Advanced(d, n), bits |-> Copied(src, d, n)]

\* naive_decoder_finalize.
NaiveFinish(d, room) == [dec |-> d, bits |-> <<>>]

\* naive_decoder_get_state.
NaiveState(d) == d.state
=============================================================================
