----------------------------- MODULE DelayLine -----------------------------
(***************************************************************************)
(* What the stream codec pipes promise together: bits come out of the far  *)
(* end late, but each once and in the order they went in.                  *)
(***************************************************************************)
EXTENDS Integers, Sequences

VARIABLES pending,   \* bits sent and not yet recovered
          readable   \* bits recovered and not yet pulled

lvars == <<pending, readable>>

LInit == pending = <<>> /\ readable = <<>>

Send(s) == pending' = pending \o s /\ UNCHANGED readable

Sends == \E k \in 1..Len(pending') : Send(SubSeq(pending', Len(pending') - k + 1, Len(pending')))

Recover(k) ==
  /\ readable' = readable \o SubSeq(pending, 1, k)
  /\ pending' = SubSeq(pending, k + 1, Len(pending))

Read(k) ==
  /\ readable' = SubSeq(readable, k + 1, Len(readable))
  /\ UNCHANGED pending

LNext ==
  \/ Sends
  \/ \E k \in 1..Len(pending) : Recover(k)
  \/ \E k \in 1..Len(readable) : Read(k)

LSpec == LInit /\ [][LNext]_lvars
=============================================================================
