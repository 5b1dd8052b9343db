---------------------------- MODULE FrameReader ----------------------------
(***************************************************************************)
(* What a frame decoder pipe promises the code that drives it: the         *)
(* recovered bits become readable in the order they were received, each    *)
(* once, none lost at a boundary, by a full buffer or by a failed          *)
(* allocation; and the reported frame state is the last boundary passed.   *)
(***************************************************************************)
EXTENDS Integers, Sequences

VARIABLES pending,   \* recovered bits and boundaries not yet copied
          fstate,    \* get_state()
          readable   \* recovered bits waiting to be pulled

rvars == <<pending, fstate, readable>>

Boundary == {"OUTSIDE", "BEGIN", "INSIDE", "END"}

Extends(longer, shorter) ==
  Len(longer) >= Len(shorter) /\ SubSeq(longer, 1, Len(shorter)) = shorter

RInit == pending = <<>> /\ fstate = "OUTSIDE" /\ readable = <<>>

Receive ==
  /\ Extends(pending', pending)
  /\ UNCHANGED <<fstate, readable>>

\* The first k pending items, all of them bits, are passed.
CopyRun(k) ==
  /\ k \in 0..Len(pending)
  /\ \A i \in 1..k : pending[i] \notin Boundary
  /\ readable' = readable \o SubSeq(pending, 1, k)

Copy(k) ==
  /\ CopyRun(k)
  /\ pending' = SubSeq(pending, k + 1, Len(pending))
  /\ UNCHANGED fstate

\* And the boundary behind them.
CopyUpTo(k) ==
  /\ CopyRun(k)
  /\ k < Len(pending) /\ pending[k + 1] \in Boundary
  /\ fstate' = pending[k + 1]
  /\ pending' = SubSeq(pending, k + 2, Len(pending))

Read(n) ==
  /\ readable' = SubSeq(readable, n + 1, Len(readable))
  /\ UNCHANGED <<pending, fstate>>

\* The end of the stream: only when all else is copied does the decoder give
\* up what it held back.
Flush ==
  /\ pending = <<>>
  /\ Extends(readable', readable)
  /\ UNCHANGED <<pending, fstate>>

RNext ==
  \/ Receive
  \/ \E k \in 0..Len(pending) : Copy(k) \/ CopyUpTo(k)
  \/ \E n \in 1..Len(readable) : Read(n)
  \/ Flush

RSpec == RInit /\ [][RNext]_rvars
=============================================================================
