------------------------------- MODULE Fifo -------------------------------
(***************************************************************************)
(* The growable FIFO of src/pipe/fifo.h, which buffers every element that  *)
(* crosses a pipe.  The live region [head, tail) of one contiguous block   *)
(* is compacted to the front when the tail runs out of room, and the block *)
(* is doubled when that is not enough.  dt_bit_fifo and dt_soft_fifo are   *)
(* the same code over two element types, so Val stands for either.         *)
(* realloc may fail whenever it is called; MaxCap bounds what it grants.   *)
(***************************************************************************)
EXTENDS Integers, Sequences

CONSTANTS Val,       \* elements
          Junk,      \* what an uninitialised cell holds
          FirstCap,  \* capacity of the first allocation (64 in the code)
          IntMax,    \* INT_MAX: the largest count a call can report
          MaxCap,    \* bound: no allocation above this many elements succeeds
          MaxChunk   \* bound: longest run offered to, or asked of, one call

ASSUME FifoAssumption ==
  /\ FirstCap \in Nat \ {0}
  /\ IntMax \in Nat \ {0}
  /\ MaxCap \in Nat
  /\ MaxChunk \in Nat
  /\ Junk \notin Val

VARIABLES fifo,      \* [buf, cap, head, tail]
          call       \* the last call: [need: room wanted, src: offered, ret, dst]

vars == <<fifo, call>>

AtMost(n, k) == IF n <= k THEN n ELSE k

Cells(c) == [0..(c - 1) -> Val \cup {Junk}]

Live(f) == f.tail - f.head

\* The elements of block b from cell h up to, not including, cell t.
Section(b, h, t) == [i \in 1..(t - h) |-> b[h + i - 1]]

\* The live elements, oldest first.
Contents(f) == Section(f.buf, f.head, f.tail)

Fits(f, n) == f.tail + n <= f.cap

CompactedUnmoved(f) ==      \* slip: the indices moved, the elements not
  [f EXCEPT !.head = 0, !.tail = f.tail - f.head]

\* memmove of the live region to the front; the cells above keep old values.
Compacted(f) ==
  [buf  |-> [i \in 0..(f.cap - 1) |->
               IF i < f.tail - f.head THEN f.buf[f.head + i] ELSE f.buf[i]],
   cap  |-> f.cap,
   head |-> 0,
   tail |-> f.tail - f.head]

\* The capacity at which the doubling loop stops.
NewCaps(f, n) ==
  LET need == f.tail + n
      base == IF f.cap = 0 THEN FirstCap ELSE f.cap
  IN  {c \in base..(base + 2 * need) :
         /\ c >= need
         /\ c = base \/ c < 2 * need
         /\ \E k \in 0..need : c = base * 2^k}

GrownAfresh(f, c) ==        \* slip: malloc for realloc
  [f EXCEPT !.buf = [i \in 0..(c - 1) |-> Junk], !.cap = c]

\* realloc keeps the old cells; the new ones are uninitialised.
Grown(f, c) ==
  [buf  |-> [i \in 0..(c - 1) |-> IF i < f.cap THEN f.buf[i] ELSE Junk],
   cap  |-> c,
   head |-> f.head,
   tail |-> f.tail]

MustGrow(f, n) == ~Fits(f, n) /\ ~Fits(Compacted(f), n)

ReservedByGrowing(f, n) ==  \* slip: no compaction before the doubling
  IF Fits(f, n) THEN {f}
  ELSE {Grown(f, c) : c \in {d \in NewCaps(f, n) : d <= MaxCap}}

\* The FIFOs a successful reserve(n) can leave.
Reserved(f, n) ==
  IF Fits(f, n) THEN {f}
  ELSE IF Fits(Compacted(f), n) THEN {Compacted(f)}
  ELSE {Grown(Compacted(f), c) : c \in {d \in NewCaps(Compacted(f), n) : d <= MaxCap}}

\* The first k elements of src written at the tail.
Written(f, src, k) ==
  [buf  |-> [i \in 0..(f.cap - 1) |->
               IF f.tail <= i /\ i < f.tail + k THEN src[i - f.tail + 1]
               ELSE f.buf[i]],
   cap  |-> f.cap,
   head |-> f.head,
   tail |-> f.tail + k]

\* k elements dropped from the head; an emptied FIFO restarts at the front.
Dropped(f, k) ==
  LET emptied == f.head + k = f.tail
  IN  [buf  |-> f.buf,
       cap  |-> f.cap,
       head |-> IF emptied THEN 0 ELSE f.head + k,
       tail |-> IF emptied THEN 0 ELSE f.tail]

-----------------------------------------------------------------------------
Init ==
  /\ fifo = [buf |-> [i \in 0..-1 |-> Junk], cap |-> 0, head |-> 0, tail |-> 0]
  /\ call = [need |-> 0, src |-> <<>>, ret |-> 0, dst |-> <<>>]

\* append(): room for the clamped count, then the elements at the tail.
Store(src) ==
  LET k == AtMost(Len(src), IntMax)
  IN  \E g \in Reserved(fifo, k) :
        /\ fifo' = Written(g, src, k)
        /\ call' = [need |-> k, src |-> src, ret |-> k, dst |-> <<>>]

\* append() when realloc fails: -1.  The compaction before it stays done.
StoreNoMemory(src) ==
  LET k == AtMost(Len(src), IntMax)
  IN  /\ MustGrow(fifo, k)
      /\ fifo' = Compacted(fifo)
      /\ call' = [need |-> k, src |-> src, ret |-> -1, dst |-> <<>>]

\* A codec adapter reserves room for n and has the codec write straight into
\* the block; the codec reports how many it wrote, up to all the spare cells.
Produce(n, out) ==
  \E g \in Reserved(fifo, n) :
    /\ Len(out) <= g.cap - g.tail
    /\ Len(out) <= IntMax
    /\ fifo' = Written(g, out, Len(out))
    /\ call' = [need |-> n, src |-> out, ret |-> Len(out), dst |-> <<>>]

\* The adapter's reserve fails: the codec is not called.
ProduceNoMemory(n) ==
  /\ MustGrow(fifo, n)
  /\ fifo' = Compacted(fifo)
  /\ call' = [need |-> n, src |-> <<>>, ret |-> -1, dst |-> <<>>]

\* drain(): the oldest elements, as many as asked for, present and reportable.
Drain(n) ==
  LET k == AtMost(AtMost(n, Live(fifo)), IntMax)
  IN  /\ fifo' = Dropped(fifo, k)
      /\ call' = [need |-> 0, src |-> <<>>, ret |-> k,
                  dst |-> Section(fifo.buf, fifo.head, fifo.head + k)]

Chunks == UNION {[1..n -> Val] : n \in 0..MaxChunk}

Next ==
  \/ \E src \in Chunks : Store(src) \/ StoreNoMemory(src)
  \/ \E n \in 0..MaxChunk : ProduceNoMemory(n) \/ Drain(n)
  \/ \E n \in 0..MaxChunk, out \in Chunks : Produce(n, out)

Spec == Init /\ [][Next]_vars

-----------------------------------------------------------------------------
\* A block whose live region lies inside it.
WellFormed(f) ==
  /\ f \in [buf : UNION {Cells(c) : c \in 0..MaxCap}, cap : 0..MaxCap,
            head : 0..MaxCap, tail : 0..MaxCap]
  /\ f.buf \in Cells(f.cap)
  /\ f.head <= f.tail
  /\ f.tail <= f.cap

(* Types; the live region never leaves the block.                          *)
TypeOK ==
  /\ WellFormed(fifo)
  /\ call \in [need : Nat, src : Seq(Val), ret : Nat \cup {-1}, dst : Seq(Val)]

\* Every cell of f's live region holds an element.
AllWritten(f) == \A i \in f.head..(f.tail - 1) : f.buf[i] \in Val

\* No cell of the live region is uninitialised memory of a realloc: whatever
\* compactions, doublings and short codec writes came before, the cells a
\* drain will read were written by an append or by a codec.
LiveIsWritten == AllWritten(fifo)

\* An emptied FIFO is back at the front of its block (drain's reset), so a
\* reader that keeps up never causes a compaction or a reallocation.
EmptyAtFront == fifo.head = fifo.tail => fifo.head = 0

\* The block grows only when the live elements and the request together do
\* not fit it: dead cells before head never cost memory, however long the
\* FIFO lives (fifo_reserve compacts before it reallocates).
GrowthNeeded ==
  [][fifo'.cap > fifo.cap => Live(fifo) + call'.need > fifo.cap]_vars

\* The FIFO implements the queue the pipe layer is written against.
Queue == INSTANCE PipeQueue
           WITH Offers <- Chunks, Counts <- 0..MaxChunk,
                queue <- Contents(fifo),
                call  <- [src |-> call.src, ret |-> call.ret, dst |-> call.dst]
ImplementsQueue == Queue!QSpec
=============================================================================
