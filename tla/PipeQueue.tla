----------------------------- MODULE PipeQueue -----------------------------
(***************************************************************************)
(* What the pipe layer expects of each buffer behind a source or a sink:   *)
(* a queue that keeps every element it accepted, hands them out once and   *)
(* in order, and, when memory runs out, refuses a whole call and changes   *)
(* nothing.  `call` is what the caller of the last operation sees.         *)
(***************************************************************************)
EXTENDS Integers, Sequences

CONSTANTS Offers,    \* the sequences of elements a call may offer
          Counts,    \* the numbers of elements a call may ask for
          IntMax     \* the largest count one call can report (INT_MAX)

VARIABLES queue,     \* the elements held, oldest first
          call       \* the last call: [src: offered, ret: reported, dst: returned]

qvars == <<queue, call>>

AtMost(n, k) == IF n <= k THEN n ELSE k

Taken(k) == SubSeq(queue, 1, k)
Left(k)  == SubSeq(queue, k + 1, Len(queue))

QInit == queue = <<>> /\ call = [src |-> <<>>, ret |-> 0, dst |-> <<>>]

\* A push takes as much of src as one call can report.
Push(src) ==
  LET k == AtMost(Len(src), IntMax)
  IN  /\ queue' = queue \o SubSeq(src, 1, k)
      /\ call'  = [src |-> src, ret |-> k, dst |-> <<>>]

\* Out of memory: the call reports -1 and the queue is what it was.
Refuse(src) ==
  /\ queue' = queue
  /\ call'  = [src |-> src, ret |-> -1, dst |-> <<>>]

\* The oldest elements leave, at most n of them.
Pull(n) ==
  LET k == AtMost(AtMost(n, Len(queue)), IntMax)
  IN  /\ queue' = Left(k)
      /\ call'  = [src |-> <<>>, ret |-> k, dst |-> Taken(k)]

QNext ==
  \/ \E src \in Offers : Push(src) \/ Refuse(src)
  \/ \E n \in Counts : Pull(n)

QSpec == QInit /\ [][QNext]_qvars
=============================================================================
