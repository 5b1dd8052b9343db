--------------------------- MODULE MarkerCodec ----------------------------
(***************************************************************************)
(* The two halves of the marker frame codec (src/fc/marker.c) as operators *)
(* on their states. A marker is Run ones and a three-bit code; Run ones    *)
(* and 000 is a pure escape, followed by two suffix bits.                  *)
(***************************************************************************)
EXTENDS Integers, Sequences

CONSTANTS Run,      \* ones in a marker's prefix (MARK_RUN, 15 in the code)
          Others    \* symbols that are neither "1" nor "0": erasures and such

ASSUME FormatAssumption ==
  /\ Run \in Nat \ {0}
  /\ Others \cap {"0", "1", "OUTSIDE", "BEGIN", "INSIDE", "END"} = {}

Bit == {"0", "1"} \cup Others

\* dt_frame_decoder_state.
FState == {"OUTSIDE", "BEGIN", "INSIDE", "END"}

\* A queued decoder output: a recovered bit or a frame transition.
Token == Bit \cup FState

Ones(n) == [i \in 1..n |-> "1"]

\* The state that step, a function, leads to from state d over the symbols of src.
Folded(step, d, src) ==
  LET fold[n \in 0..Len(src)] == IF n = 0 THEN d ELSE step[fold[n - 1]][src[n]]
  IN  fold[Len(src)]

-----------------------------------------------------------------------------
(***************************************************************************)
(* The encoder half of the marker frame codec (src/fc/marker.c): a state   *)
(* machine on one symbol at a time that appends to an output FIFO and      *)
(* escapes every payload run that would read as a marker.  Its states are  *)
(*   inFrame  a frame is open                                              *)
(*   p        ones held back, 0..Run                                       *)
(*   esc      0: none, 1: saw the 0 behind Run ones, 2: saw a code bit too *)
(*   ecode1   that code bit                                                *)
(*   out      symbols produced and not yet drained, oldest first           *)
(***************************************************************************)
EncoderState == [inFrame : BOOLEAN, p : 0..Run, esc : 0..2,
                 ecode1 : {"0", "1"}, out : Seq(Bit)]

FreshEncoder == [inFrame |-> FALSE, p |-> 0, esc |-> 0, ecode1 |-> "0", out |-> <<>>]

Emitted(e, s) == [e EXCEPT !.out = @ \o s]

\* An escape: Run ones, the pure code and a suffix.  The held ones are in it.
Escaped(e, suffix) == [Emitted(e, Ones(Run) \o <<"0", "0", "0">> \o suffix) EXCEPT !.p = 0]

Marked(e, code) == Emitted(e, Ones(Run) \o code)

HeldFlushed(e) == [Emitted(e, Ones(e.p)) EXCEPT !.p = 0]

\* A symbol while no sequence is being gathered.
Scanned(e, b) ==
  IF b = "1" /\ e.p < Run THEN [e EXCEPT !.p = @ + 1]
  ELSE IF b = "1" THEN Emitted(e, <<"1">>)
  ELSE IF b = "0" /\ e.p = Run THEN [e EXCEPT !.esc = 1]
  ELSE Emitted(HeldFlushed(e), <<b>>)

\* Break the run with a pure escape and replay what followed it.
Broken1(e) == Scanned([Escaped(e, <<"0", "0">>) EXCEPT !.esc = 0], "0")

Broken2Twice(e) ==            \* slip: the code bit is replayed twice
  Scanned(Scanned(Broken1(e), e.ecode1), e.ecode1)

Broken2(e) == Scanned(Broken1(e), e.ecode1)

\* e_process.
Processed(e, b) ==
  CASE e.esc = 0 -> Scanned(e, b)
    [] e.esc = 1 /\ b \notin Others -> [e EXCEPT !.esc = 2, !.ecode1 = b]
    [] e.esc = 1 /\ b \in Others -> Scanned(Broken1(e), b)
    [] e.esc = 2 /\ (b \in Others \/ (e.ecode1 = "0" /\ b = "0")) -> Scanned(Broken2(e), b)
    [] OTHER -> [Escaped(e, <<e.ecode1, b>>) EXCEPT !.esc = 0]

\* e_flush: resolve a half-gathered sequence, then let go of the held ones.
Flushed(e) ==
  HeldFlushed(CASE e.esc = 0 -> e [] e.esc = 1 -> Broken1(e) [] e.esc = 2 -> Broken2(e))

BegunFrame(e) ==
  [Marked(Flushed(e), IF e.inFrame THEN <<"0", "1", "1">> ELSE <<"0", "0", "1">>)
     EXCEPT !.inFrame = TRUE]

EndedFrame(e) == [Marked(Flushed(e), <<"0", "1", "0">>) EXCEPT !.inFrame = FALSE]

-----------------------------------------------------------------------------
(***************************************************************************)
(* The bit machine of the marker frame codec's hard decoder                *)
(* (src/fc/marker.c) as operators on its state: one received symbol, the   *)
(* end of the stream, and the drain that ends every call.  Its state is    *)
(*   t        ones held back, 0..Run                                       *)
(*   bm       which part of a sequence is awaited                          *)
(*   code     the code bits so far, as a number                            *)
(*   suf      the first suffix bit                                         *)
(*   fstate   what get_state() reports                                     *)
(*   out      tokens not yet reported: recovered bits, frame transitions   *)
(***************************************************************************)
DecoderState == [t : 0..Run, bm : {"SCAN", "CODE2", "CODE3", "SUF1", "SUF2"},
                 code : 0..3, suf : 0..1, fstate : FState, out : Seq(Token)]

FreshDecoder == [t |-> 0, bm |-> "SCAN", code |-> 0, suf |-> 0,
                 fstate |-> "OUTSIDE", out |-> <<>>]

Queued(d, s) == [d EXCEPT !.out = @ \o s]

Digit(b) == IF b = "1" THEN 1 ELSE 0
Sym(n)   == IF n = 1 THEN "1" ELSE "0"

TransitionsNoInside(code) ==  \* slip: BEGIN is queued alone
  CASE code = 1 -> <<"BEGIN">>
    [] code = 2 -> <<"END", "OUTSIDE">>
    [] code = 3 -> <<"END", "BEGIN">>

\* d_marker: the transitions each code announces.
Transitions(code) ==
  CASE code = 1 -> <<"BEGIN", "INSIDE">>
    [] code = 2 -> <<"END", "OUTSIDE">>
    [] code = 3 -> <<"END", "BEGIN", "INSIDE">>

\* The bits a complete escape stands for: suffix 0 lets the code bits follow.
Unescaped(suffix) ==
  Ones(Run) \o IF suffix = 0 THEN <<>> ELSE <<"0", Sym(suffix \div 2), Sym(suffix % 2)>>

Scan(d, b) ==
  IF b = "1" /\ d.t < Run THEN [d EXCEPT !.t = @ + 1]
  ELSE IF b = "1" THEN Queued(d, <<"1">>)
  ELSE IF b = "0" /\ d.t = Run THEN [d EXCEPT !.code = 0, !.bm = "CODE2"]
  ELSE [Queued(d, Ones(d.t) \o <<b>>) EXCEPT !.t = 0]

\* d_feed: one received symbol.  Inside a sequence all but "1" counts as 0.
Fed(d, b) ==
  LET code   == d.code * 2 + Digit(b)
      suffix == d.suf * 2 + Digit(b)
  IN  CASE d.bm = "SCAN"  -> Scan(d, b)
        [] d.bm = "CODE2" -> [d EXCEPT !.code = code, !.bm = "CODE3"]
        [] d.bm = "CODE3" /\ code = 0 -> [d EXCEPT !.code = 0, !.bm = "SUF1"]
        [] d.bm = "CODE3" /\ code # 0 ->
             [Queued(d, Transitions(code)) EXCEPT !.code = code, !.t = 0, !.bm = "SCAN"]
        [] d.bm = "SUF1"  -> [d EXCEPT !.suf = Digit(b), !.bm = "SUF2"]
        [] d.bm = "SUF2"  -> [Queued(d, Unescaped(suffix)) EXCEPT !.t = 0, !.bm = "SCAN"]

\* md_decode's loop: the symbols of src fed to d in order.
FedAll(d, src) == Folded([e \in DecoderState |-> [b \in Bit |-> Fed(e, b)]], d, src)

\* md_finalize before its drain: what a truncated stream still holds.
Closed(d) ==
  LET held == IF d.bm = "SCAN" THEN Ones(d.t)
              ELSE Ones(Run) \o IF d.bm = "CODE2" THEN <<>> ELSE <<"0">>
  IN  [Queued(d, held) EXCEPT !.t = 0, !.bm = "SCAN"]

\* d_drain: the numbers of bits a call with room in dst may write.  It stops
\* before the first transition, when dst is full or when the queue is empty.
Stops(d, room) ==
  {w \in 0..Len(d.out) :
     /\ w <= room
     /\ \A i \in 1..w : d.out[i] \notin FState
     /\ w = room \/ w = Len(d.out) \/ d.out[w + 1] \in FState}

\* d_drain after w bits: a transition found there is taken, even if dst is full.
Drained(d, w) ==
  IF w < Len(d.out) /\ d.out[w + 1] \in FState
  THEN [d EXCEPT !.fstate = d.out[w + 1], !.out = SubSeq(@, w + 2, Len(@))]
  ELSE [d EXCEPT !.out = SubSeq(@, w + 1, Len(@))]
=============================================================================
