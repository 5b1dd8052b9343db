----------------------------- MODULE MCDecoders -----------------------------
(* The code of constraint length 2 and rate 1/2.  Each stream is a word of *)
(* that code with one symbol replaced, one or two lost or too many, or a   *)
(* long silence between two copies.                                       *)
EXTENDS DecoderStream

CONSTANT Length   \* bits of a word

K2Gens == <<2, 3>>
Bits == [b \in Value |-> [r \in Value |-> IF b = r THEN b ELSE 11 + b]]
Ins  == <<9, 8, 11, 11>>
InsertCosts == [symbol \in Received |-> Ins[symbol + 1]]

Never == [symbol \in Received |-> Inf]
NeverInserted == Inf
NeverDeleted == Inf

Word(info) ==
  LET state[i \in 1..(Len(info) + 1)] == IF i = 1 THEN 0 ELSE NextState[<<state[i-1], info[i-1]>>]
  IN  [p \in 1..(N * Len(info)) |->
         LET i == (p - 1) \div N + 1 IN Output[<<state[i], info[i]>>][((p - 1) % N) + 1]]

W == Word(SubSeq(<<1, 0, 1, 1, 0, 1>>, 1, Length))

Without(w, i) == SubSeq(w, 1, i - 1) \o SubSeq(w, i + 1, Len(w))
With(w, i, x) == SubSeq(w, 1, i) \o <<x>> \o SubSeq(w, i + 1, Len(w))

Replaced == {[W EXCEPT ![i] = x] : <<i, x>> \in (DOMAIN W) \X Received}
            \cup {[W EXCEPT ![2*i-1] = Invalid, ![2*i] = Invalid] : i \in 1..Length}
Shortened == {Without(W, i) : i \in DOMAIN W}
Lengthened == {With(W, i, x) : <<i, x>> \in (0..Len(W)) \X {0, Erasure}}
Twice == {Without(Without(W, i + 4), i) : i \in {1, 3, 5}}
         \cup {With(With(W, i + 4, 1), i, 0) : i \in {0, 2, 5}}

Fades == {SubSeq(W, 1, 2) \o [i \in 1..(4 * Depth - 2) |-> Erasure] \o SubSeq(W, 1, 2)}

MCStreams ==
  [k \in Kinds |-> (IF MaxDrift = 0 THEN Replaced ELSE Replaced \cup Shortened \cup Lengthened \cup Twice)
                    \cup Fades]

=============================================================================
