--------------------------- MODULE ViterbiProofs ---------------------------
(***************************************************************************)
(* The Viterbi decoder, for every code, depth and stream, and for calls    *)
(* cut anywhere, in four parts.                                            *)
(*                                                                         *)
(* The cadence.  RingHolds is not inductive: that a step which decides     *)
(* first keeps the distance needs a decision to be due, no earlier and no  *)
(* later.  Until flush drains the pipeline the number of decisions is a    *)
(* function of the number of steps (Exact); from then on no group waits    *)
(* and no step follows.                                                    *)
(*                                                                         *)
(* The costs.  CostInv compares any two states: those that parted n steps  *)
(* ago differ by at most the ones that the word between them puts into n   *)
(* groups, since a code is linear and an erased symbol weighs on nobody.   *)
(*                                                                         *)
(* The channel.  SentInv says where every symbol of a stream is, and that  *)
(* the encoder's tail empties it.                                          *)
(*                                                                         *)
(* The decisions.  NearInv: up to what vit_step took off all of them, a    *)
(* state's cost is the distance of the nearest transmission that ends in   *)
(* it, and the ring holds the last Depth steps of one; so the trace back   *)
(* from the cheapest state follows a nearest transmission of all.          *)
(***************************************************************************)
EXTENDS Viterbi, FiniteSetTheorems, WellFoundedInduction, TLAPS

\* Until the drain, one decision per step beyond the first Depth.
Exact == decided = (IF steps <= Depth THEN 0 ELSE steps - Depth)

\* In it, no group waits to be stepped through.
Draining == flushed /\ ~GroupWaits /\ RingHolds

\* The types the cadence needs.
CallType ==
  /\ steps \in Nat /\ decided \in Nat /\ left \in Nat
  /\ received \in Seq(Received)
  /\ call \in {"idle", "decode", "flush", "drain"}

\* The strengthening of RingHolds, by the loop that runs.
CadenceInv ==
  /\ CallType
  /\ call \in {"flush", "drain"} => flushed
  /\ call = "decode" => ~flushed
  /\ call = "drain" => ~GroupWaits
  /\ Exact \/ Draining

-----------------------------------------------------------------------------
\* A code has at least one generator, hence a group at least one symbol.
LEMMA GroupIsPositive == N \in Nat /\ N >= 1
  BY ConvCodeAssumption DEF N

\* How many whole groups there are, as far as the cadence asks.
LEMMA SomeGroup ==
  ASSUME NEW n \in Nat, n >= 1, NEW k \in Nat
  PROVE  /\ k \div n \in Nat
         /\ k >= n => k \div n >= 1
         /\ k < n => k \div n = 0
<1>1. /\ k \div n \in Int /\ k % n \in 0..(n-1)
      /\ k = n * (k \div n) + (k % n)
  OBVIOUS
<1> QED  BY <1>1

\* The cadence keeps to the ring.
LEMMA CadenceHolds == CadenceInv => RingHolds
  BY ViterbiAssumption DEF CadenceInv, CallType, Exact, Draining, RingHolds

\* It holds before the first step.
LEMMA CadenceInit == Init => CadenceInv
  BY ViterbiAssumption DEF Init, VInit, CadenceInv, CallType, Exact

\* A round of vit_run, wherever the call it belongs to stands.
LEMMA CadenceStep ==
  ASSUME CadenceInv, Step, UNCHANGED lvars
  PROVE  CadenceInv'
<1>1. call \in {"decode", "flush"} /\ call' = call /\ flushed' = flushed /\ GroupWaits
  BY DEF Step, lvars
<1>2. Exact
  BY <1>1 DEF CadenceInv, Draining
<1>3. steps' = steps + 1
  BY DEF Step, Advance
<1>4. received' \in Seq(Received)
  BY GroupIsPositive, <1>1 DEF Step, CadenceInv, CallType, GroupWaits
<1>5. CASE ~MustDecide /\ UNCHANGED <<outs, decided, left>>
  <2>1. decided' = decided /\ left' = left /\ steps < Depth
    BY <1>5, ViterbiAssumption DEF MustDecide, CadenceInv, CallType
  <2> QED  BY <1>1, <1>2, <1>3, <1>4, <2>1, ViterbiAssumption DEF CadenceInv, CallType, Exact
<1>6. CASE MustDecide /\ left > 0 /\ Decide
  <2>1. decided' = decided + 1 /\ left' = left - 1 /\ left > 0 /\ steps >= Depth
    BY <1>6 DEF MustDecide, Decide
  <2> QED  BY <1>1, <1>2, <1>3, <1>4, <2>1, ViterbiAssumption DEF CadenceInv, CallType, Exact
<1> QED  BY <1>5, <1>6 DEF Step

\* Every step keeps the cadence.
LEMMA CadenceNext ==
  ASSUME CadenceInv, [Next]_vars
  PROVE  CadenceInv'
<1>1. CASE UNCHANGED vars
  BY <1>1 DEF vars, vvars, lvars, CadenceInv, CallType, Exact, Draining, GroupWaits, RingHolds
<1>2. CASE Next
  <2>1. ASSUME NEW sym \in Sent, Encode(sym)  PROVE CadenceInv'
    BY <2>1 DEF Encode, vvars, CadenceInv, CallType, Exact, Draining, GroupWaits, RingHolds
  <2>2. CASE FinalizeEncoder
    BY <2>2 DEF FinalizeEncoder, vvars, CadenceInv, CallType, Exact, Draining, GroupWaits, RingHolds
  <2>3. ASSUME NEW k \in 0..MaxPiece, NEW room \in 0..MaxRoom, Decode(k, room)
        PROVE  CadenceInv'
    <3>1. PICK heard \in Spoiled(k) : StartDecode(heard, room)
      BY <2>3 DEF Decode
    <3>2. heard \in Seq(Received)
      BY <3>1 DEF Spoiled
    <3>3. ~flushed /\ flushed' = flushed
      BY <2>3 DEF Decode
    <3>4. room \in Nat
      BY ViterbiLinkAssumption
    <3> QED  BY <3>1, <3>2, <3>3, <3>4 DEF StartDecode, CadenceInv, CallType, Exact, Draining
  <2>4. ASSUME NEW room \in 0..MaxRoom, FinalizeDecoder(room)  PROVE CadenceInv'
    <3>1. room \in Nat
      BY ViterbiLinkAssumption
    <3> QED  BY <2>4, <3>1 DEF FinalizeDecoder, StartFlush, CadenceInv, CallType, Exact,
                               Draining, GroupWaits, RingHolds
  <2>5. CASE Step /\ UNCHANGED lvars
    BY <2>5, CadenceStep
  <2>6. CASE RunEnds /\ UNCHANGED lvars
    BY <2>6 DEF RunEnds, lvars, CadenceInv, CallType, Exact, Draining, GroupWaits, RingHolds
  <2>7. CASE DrainOne /\ UNCHANGED lvars
    <3>1. decided' = decided + 1 /\ left' = left - 1 /\ left > 0 /\ decided < steps
      BY <2>7 DEF DrainOne, Decide
    <3>2. Draining'
      BY <2>7, <3>1, CadenceHolds, ViterbiAssumption
      DEF DrainOne, lvars, CadenceInv, CallType, Draining, GroupWaits, RingHolds
    <3> QED  BY <2>7, <3>1, <3>2 DEF DrainOne, lvars, CadenceInv, CallType, GroupWaits
  <2>8. CASE DrainEnds /\ UNCHANGED lvars
    BY <2>8 DEF DrainEnds, lvars, CadenceInv, CallType, Exact, Draining, GroupWaits, RingHolds
  <2> QED  BY <1>2, <2>1, <2>2, <2>3, <2>4, <2>5, <2>6, <2>7, <2>8 DEF Next, GoesOn
<1> QED  BY <1>1, <1>2

\* The cadence is kept for ever.
THEOREM ViterbiCadenceInv == Spec => []CadenceInv
<1>1. Init => CadenceInv
  BY CadenceInit
<1>2. CadenceInv /\ [Next]_vars => CadenceInv'
  BY CadenceNext
<1> QED  BY <1>1, <1>2, PTL DEF Spec

\* The backpointer ring always holds the layers of all undecided steps, and no
\* step is decided that was not taken (vit_run).
THEOREM ViterbiRingHolds == Spec => []RingHolds
  BY ViterbiCadenceInv, CadenceHolds, PTL

\* The decoder decides exactly when the look-ahead is there and the call has
\* room (vit_run): what the pipes' model of a decoder, Decides, relies on.
THEOREM ViterbiCadence == Spec => Cadence
<1>1. ASSUME CadenceInv, [Next]_vars
      PROVE  [/\ decided' > decided /\ ~flushed => Undecided > Depth
              /\ call = "decode" /\ call' = "idle" => left = 0 \/ Undecided <= Depth]_vars
  <2>0. Len(received) \in Nat /\ N \in Nat /\ N >= 1
    BY <1>1, GroupIsPositive DEF CadenceInv, CallType
  <2>1. /\ Len(received) \div N \in Nat
        /\ GroupWaits => Len(received) \div N >= 1
        /\ ~GroupWaits => Len(received) \div N = 0
    BY <2>0, SomeGroup DEF GroupWaits
  <2>2. ASSUME decided' > decided, ~flushed  PROVE Undecided > Depth
    <3>1. Step
      BY <1>1, <2>2 DEF Next, GoesOn, Encode, FinalizeEncoder, Decode, StartDecode,
                        FinalizeDecoder, StartFlush, RunEnds, DrainOne, DrainEnds, vars,
                        vvars, CadenceInv, CallType
    <3>2. GroupWaits /\ MustDecide
      BY <3>1, <2>2, <1>1 DEF Step, CadenceInv, CallType
    <3>3. Exact
      BY <2>2, <1>1 DEF CadenceInv, Draining
    <3> QED  BY <1>1, <2>1, <3>2, <3>3, ViterbiAssumption
             DEF MustDecide, Exact, Undecided, CadenceInv, CallType
  <2>3. ASSUME call = "decode", call' = "idle"  PROVE left = 0 \/ Undecided <= Depth
    <3>1. RunEnds
      BY <1>1, <2>3 DEF Next, GoesOn, Encode, FinalizeEncoder, Decode, StartDecode,
                        FinalizeDecoder, StartFlush, Step, DrainOne, DrainEnds, vars, vvars
    <3>2. ~GroupWaits \/ left = 0
      BY <3>1 DEF RunEnds
    <3>3. RingHolds
      BY <1>1, CadenceHolds
    <3> QED  BY <1>1, <2>1, <3>2, <3>3, ViterbiAssumption
             DEF RingHolds, Undecided, CadenceInv, CallType
  <2> QED  BY <2>2, <2>3
<1> QED  BY <1>1, ViterbiCadenceInv, PTL DEF Spec, Cadence

\* A flush that leaves room unused has decided every whole group there was, so a
\* caller that repeats it until it writes nothing has them all (decode.h).
THEOREM ViterbiFlushDecidesAll == Spec => FlushDecidesAll
<1>1. ASSUME CadenceInv, [Next]_vars
      PROVE  [flushed /\ call # "idle" /\ left > 0 /\ call' = "idle"
                => ~GroupWaits /\ decided = steps]_vars
  <2> SUFFICES ASSUME flushed, call # "idle", left > 0, call' = "idle"
               PROVE  ~GroupWaits /\ decided = steps
    OBVIOUS
  <2>1. RunEnds \/ DrainEnds
    BY <1>1 DEF Next, GoesOn, Encode, FinalizeEncoder, Decode, StartDecode,
                FinalizeDecoder, StartFlush, Step, DrainOne, vars, vvars
  <2>2. call # "decode" /\ CallType /\ RingHolds
    BY <1>1, CadenceHolds DEF CadenceInv
  <2>3. CASE RunEnds
    BY <2>2, <2>3 DEF RunEnds, RingHolds, CallType
  <2>4. CASE DrainEnds
    BY <1>1, <2>2, <2>4 DEF DrainEnds, CadenceInv, CallType
  <2> QED  BY <2>1, <2>3, <2>4
<1> QED  BY <1>1, ViterbiCadenceInv, PTL DEF Spec, FlushDecidesAll

-----------------------------------------------------------------------------
\* Bit i of x, as Taps reads it.
Bit(x, i) == (x \div 2^i) % 2

\* The powers of two that a register of up to 9 bits is made of.
LEMMA Powers ==
  /\ 2^0 = 1 /\ 2^1 = 2 /\ 2^2 = 4 /\ 2^3 = 8 /\ 2^4 = 16
  /\ 2^5 = 32 /\ 2^6 = 64 /\ 2^7 = 128 /\ 2^8 = 256 /\ 2^9 = 512
  OBVIOUS

\* Half a number has its bits, one place lower.
LEMMA BitOfHalf ==
  ASSUME NEW x \in Nat, NEW i \in 0..7
  PROVE  Bit(x \div 2, i) = Bit(x, i + 1)
<1>1. i = 0 \/ i = 1 \/ i = 2 \/ i = 3 \/ i = 4 \/ i = 5 \/ i = 6 \/ i = 7
  OBVIOUS
<1>2. CASE i = 0  BY <1>2, Powers DEF Bit
<1>3. CASE i = 1  BY <1>3, Powers DEF Bit
<1>4. CASE i = 2  BY <1>4, Powers DEF Bit
<1>5. CASE i = 3  BY <1>5, Powers DEF Bit
<1>6. CASE i = 4  BY <1>6, Powers DEF Bit
<1>7. CASE i = 5  BY <1>7, Powers DEF Bit
<1>8. CASE i = 6  BY <1>8, Powers DEF Bit
<1>9. CASE i = 7  BY <1>9, Powers DEF Bit
<1> QED BY <1>1, <1>2, <1>3, <1>4, <1>5, <1>6, <1>7, <1>8, <1>9

\* A power of two and the next one.
LEMMA Doubling ==
  ASSUME NEW i \in 0..7
  PROVE  \E h \in {1, 2, 4, 8, 16, 32, 64, 128} : 2^i = h /\ 2^(i+1) = 2 * h
<1>1. i = 0 \/ i = 1 \/ i = 2 \/ i = 3 \/ i = 4 \/ i = 5 \/ i = 6 \/ i = 7
  OBVIOUS
<1>2. CASE i = 0  BY <1>2, Powers
<1>3. CASE i = 1  BY <1>3, Powers
<1>4. CASE i = 2  BY <1>4, Powers
<1>5. CASE i = 3  BY <1>5, Powers
<1>6. CASE i = 4  BY <1>6, Powers
<1>7. CASE i = 5  BY <1>7, Powers
<1>8. CASE i = 6  BY <1>8, Powers
<1>9. CASE i = 7  BY <1>9, Powers
<1> QED BY <1>1, <1>2, <1>3, <1>4, <1>5, <1>6, <1>7, <1>8, <1>9

\* The sizes of registers and states.
LEMMA Sizes ==
  \E q \in {1, 2, 4, 8, 16, 32, 64, 128} :
     2^(K-2) = q /\ 2^(K-1) = 2 * q /\ 2^K = 4 * q
<1>1. K \in 2..9
  BY ConvCodeAssumption
<1>2. CASE K = 2  BY <1>2, Powers
<1>3. CASE K = 3  BY <1>3, Powers
<1>4. CASE K = 4  BY <1>4, Powers
<1>5. CASE K = 5  BY <1>5, Powers
<1>6. CASE K = 6  BY <1>6, Powers
<1>7. CASE K = 7  BY <1>7, Powers
<1>8. CASE K = 8  BY <1>8, Powers
<1>9. CASE K = 9  BY <1>9, Powers
<1> QED BY <1>1, <1>2, <1>3, <1>4, <1>5, <1>6, <1>7, <1>8, <1>9

\* The states are the numbers of K - 1 bits.
LEMMA StateIs ==
  /\ \A s \in State : s \in Nat /\ s < 2^(K-1)
  /\ \A s \in Nat : s < 2^(K-1) => s \in State
  /\ 0 \in State
<1> QED BY Sizes DEF State

\* The empty register has no bit that is 1.
LEMMA ZeroBits ==
  ASSUME NEW b \in 0..(K-2)
  PROVE  Bit(0, b) = 0
<1>1. b \in 0..7
  BY ConvCodeAssumption
<1>2. PICK h \in {1, 2, 4, 8, 16, 32, 64, 128} : 2^b = h
  BY <1>1, Doubling
<1> QED BY <1>2 DEF Bit

\* The next state is the register without its lowest bit.
LEMMA NextIsHalf ==
  ASSUME NEW s \in State, NEW b \in Value
  PROVE  /\ NextState[<<s, b>>] = Register(s, b) \div 2
         /\ NextState[<<s, b>>] \in State
         /\ Register(s, b) \in Nat
<1>1. NextState[<<s, b>>] = (s \div 2 + b * 2^(K-2)) % 2^(K-1)
  BY DEF NextState
<1>2. PICK q \in {1, 2, 4, 8, 16, 32, 64, 128} : 2^(K-2) = q /\ 2^(K-1) = 2 * q /\ 2^K = 4 * q
  BY Sizes
<1>3. s \in Nat /\ s < 2 * q /\ (b = 0 \/ b = 1)
  BY <1>2, StateIs DEF Value
<1>4. s \div 2 \in Nat /\ s \div 2 < q
  BY <1>2, <1>3
<1>5. s \div 2 + b * q \in Nat /\ s \div 2 + b * q < 2 * q
  BY <1>2, <1>3, <1>4
<1>6. (s \div 2 + b * q) % (2 * q) = s \div 2 + b * q
  BY <1>2, <1>5
<1>7. Register(s, b) = b * (2 * q) + s
  BY <1>2 DEF Register
<1>8. Register(s, b) \div 2 = s \div 2 + b * q /\ Register(s, b) \in Nat
  BY <1>2, <1>3, <1>7
<1> QED BY <1>1, <1>2, <1>5, <1>6, <1>8, StateIs

\* The bits of a register are those of its state and, on top, the new one.
LEMMA RegisterBits ==
  ASSUME NEW s \in State, NEW b \in Value
  PROVE  /\ \A i \in 0..(K-2) : Bit(Register(s, b), i) = Bit(s, i)
         /\ Bit(Register(s, b), K-1) = b
<1> DEFINE R == Register(s, b)
           Above(k) == R \div 2^k = s \div 2^k + b * 2^(K-1-k)
<1>1. s \in Nat /\ s < 2^(K-1) /\ (b = 0 \/ b = 1) /\ R = b * 2^(K-1) + s
  BY StateIs DEF Value, Register
<1>2. R \in Nat
  BY NextIsHalf
<1>3. Above(0)
  <2>1. R \div 2^0 = R /\ s \div 2^0 = s
    BY <1>1, <1>2, Powers
  <2>2. K-1-0 = K-1
    BY ConvCodeAssumption
  <2>3. PICK q \in {1, 2, 4, 8, 16, 32, 64, 128} : 2^(K-1) = 2 * q
    BY Sizes
  <2> QED BY <1>1, <2>1, <2>2, <2>3
<1>4. ASSUME NEW k \in 0..(K-2), Above(k)
      PROVE  Above(k+1) /\ Bit(R, k) = Bit(s, k)
  <2>1. k \in 0..7 /\ K-1-(k+1) \in 0..7 /\ K-1-(k+1)+1 = K-1-k
    BY ConvCodeAssumption
  <2>2. PICK h \in {1, 2, 4, 8, 16, 32, 64, 128} : 2^k = h /\ 2^(k+1) = 2 * h
    BY <2>1, Doubling
  <2>3. PICK j \in {1, 2, 4, 8, 16, 32, 64, 128} : 2^(K-1-(k+1)) = j /\ 2^(K-1-k) = 2 * j
    <3> DEFINE d == K-1-(k+1)
    <3>1. PICK j \in {1, 2, 4, 8, 16, 32, 64, 128} : 2^d = j /\ 2^(d+1) = 2 * j
      BY <2>1, Doubling
    <3> QED BY <2>1, <3>1
  <2>4. R \div h = s \div h + b * (2 * j)
    BY <1>4, <2>2, <2>3
  <2>5. R \div (2 * h) = (R \div h) \div 2 /\ s \div (2 * h) = (s \div h) \div 2
    BY <1>1, <1>2
  <2>6. s \div h \in Nat
    BY <1>1
  <2>7. (s \div h + b * (2 * j)) \div 2 = (s \div h) \div 2 + b * j
    BY <1>1, <2>6
  <2>8. (s \div h + b * (2 * j)) % 2 = (s \div h) % 2
    BY <1>1, <2>6
  <2>9. Above(k+1)
    BY <2>2, <2>3, <2>4, <2>5, <2>7
  <2>10. Bit(R, k) = Bit(s, k)
    BY <2>2, <2>4, <2>8 DEF Bit
  <2> QED BY <2>9, <2>10
<1>5. Bit(R, K-1) = b
  <2>1. PICK q \in {1, 2, 4, 8, 16, 32, 64, 128} : 2^(K-1) = 2 * q
    BY Sizes
  <2> QED BY <1>1, <2>1 DEF Bit
<1> HIDE DEF R, Above
<1>6. \A i \in 0..(K-2) : Bit(R, i) = Bit(s, i)
  <2>1. K = 2 \/ K = 3 \/ K = 4 \/ K = 5 \/ K = 6 \/ K = 7 \/ K = 8 \/ K = 9
    BY ConvCodeAssumption
  <2> QED BY <1>3, <1>4, <2>1
<1> QED BY <1>5, <1>6 DEF R

\* A step moves every bit of the register down by one.
LEMMA NextBits ==
  ASSUME NEW s \in State, NEW b \in Value
  PROVE  \A i \in 0..(K-2) : Bit(NextState[<<s, b>>], i) = Bit(Register(s, b), i + 1)
<1> K \in 2..9
  BY ConvCodeAssumption
<1> QED BY NextIsHalf, BitOfHalf

\* Every state can be entered from one with either lowest bit.
LEMMA EnteredFrom ==
  ASSUME NEW t \in State, NEW c \in Value
  PROVE  \E p \in State, b \in Value : NextState[<<p, b>>] = t /\ Bit(p, 0) = c
<1>1. PICK q \in {1, 2, 4, 8, 16, 32, 64, 128} : 2^(K-2) = q /\ 2^(K-1) = 2 * q /\ 2^K = 4 * q
  BY Sizes
<1>2. t \in Nat /\ t < 2 * q /\ (c = 0 \/ c = 1)
  BY <1>1, StateIs DEF Value
<1> DEFINE b == IF t < q THEN 0 ELSE 1
           p == IF t < q THEN 2 * t + c ELSE 2 * (t - q) + c
<1>3. b \in Value /\ p \in Nat /\ p < 2 * q /\ b * (2 * q) + p = 2 * t + c
  BY <1>1, <1>2 DEF Value
<1>4. p \in State
  BY <1>1, <1>3, StateIs
<1> HIDE DEF b, p
<1>5. Register(p, b) = 2 * t + c
  BY <1>1, <1>3 DEF Register
<1>6. NextState[<<p, b>>] = t
  BY <1>2, <1>3, <1>4, <1>5, NextIsHalf
<1>7. Bit(p, 0) = c
  <2>1. Bit(p, 0) = Bit(Register(p, b), 0)
    BY <1>3, <1>4, RegisterBits, ConvCodeAssumption
  <2>2. Bit(Register(p, b), 0) = c
    BY <1>2, <1>5, Powers DEF Bit
  <2> QED BY <2>1, <2>2
<1> QED BY <1>3, <1>4, <1>6, <1>7

\* A bit is 0 or 1.
LEMMA BitIsValue ==
  ASSUME NEW x \in Nat, NEW i \in 0..8
  PROVE  Bit(x, i) \in Value
<1>1. i = 0 \/ i = 1 \/ i = 2 \/ i = 3 \/ i = 4 \/ i = 5 \/ i = 6 \/ i = 7 \/ i = 8
  OBVIOUS
<1>2. PICK h \in {1, 2, 4, 8, 16, 32, 64, 128, 256} : 2^i = h
  <2>1. CASE i = 8  BY <2>1, Powers
  <2>2. CASE i \in 0..7
    <3>1. PICK h \in {1, 2, 4, 8, 16, 32, 64, 128} : 2^i = h
      BY <2>2, Doubling
    <3> QED BY <3>1
  <2> QED BY <2>1, <2>2
<1>3. x \div h \in Nat
  OBVIOUS
<1> QED BY <1>2, <1>3 DEF Bit, Value

\* A state is its bits.
LEMMA SameBits ==
  ASSUME NEW s \in State, NEW t \in State, \A i \in 0..(K-2) : Bit(s, i) = Bit(t, i)
  PROVE  s = t
<1>1. s \in Nat /\ t \in Nat /\ s < 2^(K-1) /\ t < 2^(K-1)
  BY StateIs
<1>2. K = 2 \/ K = 3 \/ K = 4 \/ K = 5 \/ K = 6 \/ K = 7 \/ K = 8 \/ K = 9
  BY ConvCodeAssumption
<1> DEFINE S(x, k) == x \div 2^k
<1>3. ASSUME NEW k \in 0..(K-2), S(s, k+1) = S(t, k+1)  PROVE S(s, k) = S(t, k)
  <2>1. PICK h \in {1, 2, 4, 8, 16, 32, 64, 128} : 2^k = h /\ 2^(k+1) = 2 * h
    <3>1. k \in 0..7
      BY <1>2
    <3> QED BY <3>1, Doubling
  <2>2. (s \div h) \div 2 = s \div (2 * h) /\ (t \div h) \div 2 = t \div (2 * h)
    BY <1>1
  <2>3. (s \div h) % 2 = (t \div h) % 2
    BY <2>1 DEF Bit
  <2>4. (s \div h) \div 2 = (t \div h) \div 2
    BY <1>3, <2>1, <2>2
  <2>5. s \div h = t \div h
    BY <1>1, <2>3, <2>4
  <2> QED BY <2>1, <2>5
<1>4. S(s, K-1) = 0 /\ S(t, K-1) = 0
  <2>1. PICK q \in {1, 2, 4, 8, 16, 32, 64, 128} : 2^(K-1) = 2 * q
    BY Sizes
  <2> QED BY <1>1, <2>1
<1>5. S(s, 0) = s /\ S(t, 0) = t
  BY <1>1, Powers
<1> HIDE DEF S
<1> QED BY <1>2, <1>3, <1>4, <1>5

\* What may enter a register of K - 1 bits.
Words == [1..(K-1) -> Value]

\* The symbols that are 1 among those of the first n groups that word x makes of an
\* empty register, and how many.
OnesOf(x, k) == {j \in 1..N : Convolved(x, k, j) = 1}
Ones(x, n) == {e \in (1..n) \X (1..N) : Convolved(x, e[1], e[2]) = 1}
WeightTo(x, n) == Cardinality(Ones(x, n))

\* A word's ones can be counted, and a group has no more than N of them.
LEMMA OnesAreFinite ==
  ASSUME NEW x, NEW n \in Nat
  PROVE  /\ IsFiniteSet(Ones(x, n)) /\ WeightTo(x, n) \in Nat
         /\ WeightTo(x, n) <= n * N
         /\ IsFiniteSet(OnesOf(x, n)) /\ Cardinality(OnesOf(x, n)) \in Nat
<1>1. N \in Nat
  BY GroupIsPositive
<1>2. IsFiniteSet(1..n) /\ Cardinality(1..n) = n /\ IsFiniteSet(1..N) /\ Cardinality(1..N) = N
  BY <1>1, FS_Interval
<1>3. IsFiniteSet((1..n) \X (1..N)) /\ Cardinality((1..n) \X (1..N)) = n * N
  <2>1. /\ IsFiniteSet((1..n) \X (1..N))
        /\ Cardinality((1..n) \X (1..N)) = Cardinality(1..n) * Cardinality(1..N)
    BY <1>2, FS_Product, Zenon
  <2> QED BY <1>2, <2>1, Zenon
<1>4. Ones(x, n) \in SUBSET ((1..n) \X (1..N)) /\ OnesOf(x, n) \in SUBSET (1..N)
  BY DEF Ones, OnesOf
<1>5. IsFiniteSet(Ones(x, n)) /\ Cardinality(Ones(x, n)) <= n * N
  BY <1>3, <1>4, FS_Subset
<1>6. IsFiniteSet(OnesOf(x, n))
  BY <1>2, <1>4, FS_Subset
<1> QED BY <1>5, <1>6, FS_CardinalityType DEF WeightTo

\* Each group adds its own ones.
LEMMA WeightGrows ==
  ASSUME NEW x, NEW n \in Nat, n >= 1
  PROVE  WeightTo(x, n) = WeightTo(x, n-1) + Cardinality(OnesOf(x, n))
<1> DEFINE A == Ones(x, n-1)
           B == {n} \X OnesOf(x, n)
<1>1. N \in Nat /\ n - 1 \in Nat
  BY GroupIsPositive
<1>2. IsFiniteSet(A) /\ Cardinality(A) \in Nat /\ IsFiniteSet(OnesOf(x, n)) /\ Cardinality(OnesOf(x, n)) \in Nat
  BY <1>1, OnesAreFinite DEF WeightTo
<1>3. IsFiniteSet({n}) /\ Cardinality({n}) = 1
  BY FS_Singleton
<1>4. IsFiniteSet(B) /\ Cardinality(B) = Cardinality(OnesOf(x, n))
  <2>1. /\ IsFiniteSet({n} \X OnesOf(x, n))
        /\ Cardinality({n} \X OnesOf(x, n)) = Cardinality({n}) * Cardinality(OnesOf(x, n))
    BY <1>2, <1>3, FS_Product, Zenon
  <2>2. 1 * Cardinality(OnesOf(x, n)) = Cardinality(OnesOf(x, n))
    BY <1>2
  <2> QED BY <1>3, <2>1, <2>2, Zenon
<1>5. Ones(x, n) = A \cup B
  <2>1. ASSUME NEW e \in Ones(x, n)  PROVE e \in A \cup B
    <3>1. e \in (1..n) \X (1..N) /\ Convolved(x, e[1], e[2]) = 1
      BY DEF Ones
    <3>2. CASE e[1] = n
      BY <3>1, <3>2 DEF OnesOf
    <3>3. CASE e[1] # n
      <4>1. e \in (1..(n-1)) \X (1..N)
        BY <3>1, <3>3
      <4> QED BY <3>1, <4>1 DEF Ones
    <3> QED BY <3>2, <3>3
  <2>2. ASSUME NEW e \in A  PROVE e \in Ones(x, n)
    <3>1. e \in (1..(n-1)) \X (1..N) /\ Convolved(x, e[1], e[2]) = 1
      BY DEF Ones
    <3>2. e \in (1..n) \X (1..N)
      BY <3>1
    <3> QED BY <3>1, <3>2 DEF Ones
  <2>3. ASSUME NEW e \in B  PROVE e \in Ones(x, n)
    <3>1. e[1] = n /\ e[2] \in 1..N /\ Convolved(x, n, e[2]) = 1 /\ e = <<e[1], e[2]>>
      BY DEF OnesOf
    <3>2. e \in (1..n) \X (1..N)
      BY <3>1
    <3> QED BY <3>1, <3>2 DEF Ones
  <2> HIDE DEF A, B
  <2> QED BY <2>1, <2>2, <2>3
<1>6. A \cap B = {}
  <2> SUFFICES ASSUME NEW e \in A, e \in B PROVE FALSE
    OBVIOUS
  <2>1. e[1] \in 1..(n-1) /\ e[1] = n
    BY DEF Ones
  <2> QED BY <2>1
<1> HIDE DEF A, B
<1>7. Cardinality(A \cup B) = Cardinality(A) + Cardinality(B) - Cardinality({})
  BY <1>2, <1>4, <1>6, FS_Union
<1> QED BY <1>2, <1>4, <1>5, <1>7, FS_EmptySet DEF WeightTo, A

\* Symbol j of group k has a place of its own in the codeword.
LEMMA PlaceIs ==
  ASSUME NEW n \in Nat, n >= 1, NEW m \in Nat, NEW k \in 1..m, NEW j \in 1..n
  PROVE  /\ (k - 1) * n + j \in 1..(n * m)
         /\ ((k - 1) * n + j - 1) \div n + 1 = k
         /\ (((k - 1) * n + j - 1) % n) + 1 = j
<1>1. PICK a \in Nat : a = k - 1
  OBVIOUS
<1>2. PICK b \in Nat : b = j - 1 /\ b < n
  OBVIOUS
<1>3. PICK c \in Nat : c = a * n
  BY <1>1
<1>4. (c + b) \div n = a /\ (c + b) % n = b
  BY <1>1, <1>2, <1>3
<1>5. (k - 1) * n + j - 1 = c + b
  BY <1>1, <1>2, <1>3
<1>6. a + 1 <= m
  BY <1>1
<1>7. n * m = n * (a + 1) + n * (m - (a + 1)) /\ n * (m - (a + 1)) >= 0
  BY <1>1, <1>6
<1>8. n * (a + 1) = c + n
  BY <1>1, <1>3
<1>9. n * m \in Nat /\ c + n <= n * m
  BY <1>7, <1>8
<1>10. (k - 1) * n + j \in 1..(n * m)
  BY <1>1, <1>2, <1>3, <1>9
<1> QED BY <1>1, <1>2, <1>4, <1>5, <1>10

\* The weight of a whole register is the one the run's property speaks of.
LEMMA WeightIs ==
  ASSUME NEW x \in Words
  PROVE  WeightTo(x, K-1) <= Weight(x) /\ Weight(x) \in 0..(N * (K-1))
<1>1. N \in Nat /\ N >= 1 /\ K - 1 \in Nat /\ K - 1 \in 0..(MaxInfo + K - 1)
  BY GroupIsPositive, ConvCodeAssumption, ViterbiLinkAssumption
<1> DEFINE T == {i \in 1..(N * (K-1)) : Codewords[K-1][x][i] = 1}
           S == Ones(x, K-1)
           place == [e \in S |-> (e[1] - 1) * N + e[2]]
<1>2. \A i \in 1..(N * (K-1)) :
        Codewords[K-1][x][i] = Convolved(x, (i - 1) \div N + 1, ((i - 1) % N) + 1)
  BY <1>1 DEF Codewords, Words
<1>3. N * (K-1) \in Nat
  BY <1>1
<1>4. T \in SUBSET (1..(N * (K-1))) /\ IsFiniteSet(1..(N * (K-1))) /\ Cardinality(1..(N * (K-1))) = N * (K-1)
  BY <1>3, FS_Interval
<1>5. IsFiniteSet(T) /\ Cardinality(T) <= N * (K-1) /\ Cardinality(T) \in Nat
  BY <1>4, FS_Subset, FS_CardinalityType
<1>6. \A e \in S : /\ place[e] \in 1..(N * (K-1))
                   /\ (place[e] - 1) \div N + 1 = e[1]
                   /\ ((place[e] - 1) % N) + 1 = e[2]
                   /\ Convolved(x, e[1], e[2]) = 1 /\ e = <<e[1], e[2]>>
  <2> SUFFICES ASSUME NEW e \in S
               PROVE  /\ place[e] \in 1..(N * (K-1))
                      /\ (place[e] - 1) \div N + 1 = e[1]
                      /\ ((place[e] - 1) % N) + 1 = e[2]
                      /\ Convolved(x, e[1], e[2]) = 1 /\ e = <<e[1], e[2]>>
    OBVIOUS
  <2>1. e[1] \in 1..(K-1) /\ e[2] \in 1..N /\ Convolved(x, e[1], e[2]) = 1 /\ e = <<e[1], e[2]>>
    BY DEF Ones
  <2>2. place[e] = (e[1] - 1) * N + e[2]
    OBVIOUS
  <2> HIDE DEF place, S
  <2> QED BY <1>1, <2>1, <2>2, PlaceIs
<1>7. place \in Injection(S, T)
  <2>0. DOMAIN place = S /\ place = [e \in S |-> place[e]]
    OBVIOUS
  <2> HIDE DEF place, S
  <2>1. \A e \in S : place[e] \in T
    BY <1>2, <1>6
  <2>2. \A e, f \in S : place[e] = place[f] => e = f
    BY <1>6
  <2> HIDE DEF T
  <2>3. place \in [S -> T]
    BY <2>0, <2>1
  <2> QED BY <2>2, <2>3 DEF Injection, IsInjective
<1>8. Cardinality(S) <= Cardinality(T)
  <2> HIDE DEF S, T, place
  <2> QED BY <1>5, <1>7, FS_Injection
<1> QED BY <1>3, <1>5, <1>8 DEF WeightTo, Weight

-----------------------------------------------------------------------------
\* Sets that differ in an even number of elements have the same parity.
LEMMA ParityApart ==
  ASSUME NEW A, NEW B, IsFiniteSet(A), IsFiniteSet(B),
         Parity((A \ B) \cup (B \ A)) # 1
  PROVE  Parity(A) = Parity(B)
<1>1. PICK a \in Nat : a = Cardinality(A)
  BY FS_CardinalityType
<1>2. PICK b \in Nat : b = Cardinality(B)
  BY FS_CardinalityType
<1>3. IsFiniteSet(A \cap B)
  BY FS_Intersection
<1>4. PICK c \in Nat : c = Cardinality(A \cap B)
  BY <1>3, FS_CardinalityType
<1>5. IsFiniteSet(A \ B) /\ Cardinality(A \ B) = a - c
  BY <1>1, <1>4, FS_Difference
<1>6. B \cap A = A \cap B
  OBVIOUS
<1>7. IsFiniteSet(B \ A) /\ Cardinality(B \ A) = b - c
  BY <1>2, <1>4, <1>6, FS_Difference
<1>8. (A \ B) \cap (B \ A) = {}
  OBVIOUS
<1>9. Cardinality((A \ B) \cup (B \ A)) = (a - c) + (b - c)
  BY <1>5, <1>7, <1>8, FS_Union, FS_EmptySet
<1>10. a - c >= 0 /\ b - c >= 0
  BY <1>5, <1>7, FS_CardinalityType
<1>11. ((a - c) + (b - c)) % 2 # 1
  BY <1>9 DEF Parity
<1>12. a % 2 = b % 2
  BY <1>10, <1>11
<1> QED BY <1>1, <1>2, <1>12 DEF Parity

\* The taps of a mask are its bits that are 1.
LEMMA TapsAre ==
  ASSUME NEW x
  PROVE  Taps(x) = {i \in 0..(K-1) : Bit(x, i) = 1} /\ IsFiniteSet(Taps(x))
<1>1. Taps(x) = {i \in 0..(K-1) : Bit(x, i) = 1}
  BY DEF Taps, Bit
<1>2. IsFiniteSet(0..(K-1))
  BY FS_Interval, ConvCodeAssumption
<1> QED BY <1>1, <1>2, FS_Subset

\* Words that differ as x does from a step on: n steps later.
Parted(y, z, first, x) ==
  \A i \in 0..(K-1) : Bit(y, i) # Bit(z, i) <=> i >= first /\ x[i - first + 1] = 1

\* Branches that part cost one another no more than the ones that part them: an
\* erased symbol costs both nothing.
LEMMA BranchesPart ==
  ASSUME NEW s \in State, NEW t \in State, NEW b \in Value, NEW c \in Value,
         NEW n \in 1..(K-1), NEW x \in Words, NEW group,
         Parted(Register(s, b), Register(t, c), K - n, x)
  PROVE  /\ BranchCost(Output[<<s, b>>], group) \in 0..N
         /\ BranchCost(Output[<<t, c>>], group) \in 0..N
         /\ BranchCost(Output[<<t, c>>], group)
              <= BranchCost(Output[<<s, b>>], group) + Cardinality(OnesOf(x, n))
<1> DEFINE Y == Register(s, b)
           Z == Register(t, c)
           P == {j \in 1..N : group[j] \in Value /\ group[j] # Output[<<s, b>>][j]}
           Q == {j \in 1..N : group[j] \in Value /\ group[j] # Output[<<t, c>>][j]}
<1>1. N \in Nat /\ K \in Nat /\ n \in Nat /\ n >= 1
  BY GroupIsPositive, ConvCodeAssumption
<1>2. /\ \A j \in 1..N : Output[<<s, b>>][j] = Parity(Taps(Y) \cap Taps(Gens[j]))
      /\ \A j \in 1..N : Output[<<t, c>>][j] = Parity(Taps(Z) \cap Taps(Gens[j]))
  BY DEF Output
<1>3. ASSUME NEW j \in 1..N, j \notin OnesOf(x, n)
      PROVE  Output[<<s, b>>][j] = Output[<<t, c>>][j]
  <2> DEFINE G == Taps(Gens[j])
             A == Taps(Y) \cap G
             B == Taps(Z) \cap G
  <2>1. Convolved(x, n, j) # 1
    BY <1>3 DEF OnesOf
  <2>2. Convolved(x, n, j) = Parity({p \in G : n > K-1-p /\ x[n - (K-1-p)] = 1})
    BY DEF Convolved
  <2>3. {p \in G : n > K-1-p /\ x[n - (K-1-p)] = 1} = (A \ B) \cup (B \ A)
    <3>1. G \subseteq 0..(K-1)
      BY TapsAre
    <3>2. ASSUME NEW p \in G
          PROVE  n > K-1-p /\ x[n - (K-1-p)] = 1 <=> p \in (A \ B) \cup (B \ A)
      <4>1. p \in 0..(K-1)
        BY <3>1
      <4>2. (p \in Taps(Y) <=> Bit(Y, p) = 1) /\ (p \in Taps(Z) <=> Bit(Z, p) = 1)
        BY <4>1, TapsAre
      <4>3. Bit(Y, p) \in Value /\ Bit(Z, p) \in Value
        <5>1. Y \in Nat /\ Z \in Nat
          BY NextIsHalf
        <5>2. p \in 0..8
          BY <4>1, ConvCodeAssumption
        <5> HIDE DEF Y, Z
        <5> QED BY <5>1, <5>2, BitIsValue
      <4>4. Bit(Y, p) # Bit(Z, p) <=> p \in (A \ B) \cup (B \ A)
        BY <4>2, <4>3 DEF Value
      <4>5. Bit(Y, p) # Bit(Z, p) <=> p >= K - n /\ x[p - (K - n) + 1] = 1
        BY <4>1 DEF Parted
      <4>6. (n > K-1-p <=> p >= K - n) /\ n - (K-1-p) = p - (K - n) + 1
        BY <1>1, <4>1
      <4> QED BY <4>4, <4>5, <4>6
    <3>3. A \subseteq G /\ B \subseteq G
      OBVIOUS
    <3> HIDE DEF A, B, G
    <3> QED BY <3>2, <3>3
  <2>4. IsFiniteSet(A) /\ IsFiniteSet(B)
    BY TapsAre, FS_Intersection
  <2>5. Parity(A) = Parity(B)
    <3> HIDE DEF A, B, G
    <3>1. Parity((A \ B) \cup (B \ A)) # 1
      BY <2>1, <2>2, <2>3
    <3> QED BY <2>4, <3>1, ParityApart
  <2> QED BY <1>2, <2>5
<1>4. Q \subseteq P \cup OnesOf(x, n)
  BY <1>3
<1>5. P \in SUBSET (1..N) /\ Q \in SUBSET (1..N) /\ IsFiniteSet(1..N) /\ Cardinality(1..N) = N
  BY <1>1, FS_Interval
<1>6. /\ IsFiniteSet(P) /\ Cardinality(P) <= N /\ Cardinality(P) \in Nat
      /\ IsFiniteSet(Q) /\ Cardinality(Q) <= N /\ Cardinality(Q) \in Nat
  BY <1>5, FS_Subset, FS_CardinalityType
<1>7. BranchCost(Output[<<s, b>>], group) = Cardinality(P) /\ BranchCost(Output[<<t, c>>], group) = Cardinality(Q)
  BY DEF BranchCost
<1>8. Cardinality(Q) <= Cardinality(P) + Cardinality(OnesOf(x, n))
  <2> HIDE DEF P, Q
  <2>1. IsFiniteSet(OnesOf(x, n)) /\ Cardinality(OnesOf(x, n)) \in Nat
    BY <1>1, OnesAreFinite
  <2>2. /\ IsFiniteSet(P \cup OnesOf(x, n))
        /\ Cardinality(P \cup OnesOf(x, n)) = Cardinality(P) + Cardinality(OnesOf(x, n)) - Cardinality(P \cap OnesOf(x, n))
    BY <1>6, <2>1, FS_Union
  <2>3. IsFiniteSet(P \cap OnesOf(x, n))
    BY <1>6, FS_Intersection
  <2>4. Cardinality(P \cap OnesOf(x, n)) \in Nat
    BY <2>3, FS_CardinalityType
  <2>5. Cardinality(Q) <= Cardinality(P \cup OnesOf(x, n))
    BY <1>4, <2>2, FS_Subset
  <2>6. PICK u \in Nat : u = Cardinality(P \cup OnesOf(x, n))
    BY <2>2, FS_CardinalityType
  <2> QED BY <1>6, <2>1, <2>2, <2>4, <2>5, <2>6
<1> QED BY <1>6, <1>7, <1>8

-----------------------------------------------------------------------------
\* The states a register can be in after m steps from the empty one.
Entered(s, m) == \A i \in 0..(K-2) : i < K-1-m => Bit(s, i) = 0

\* States that parted n steps ago and differ since as x says.
Apart(s, t, n, x) ==
  \A i \in 0..(K-2) : Bit(s, i) # Bit(t, i) <=> i >= K-1-n /\ x[i - (K-1-n) + 1] = 1

\* The costs are relative to a cheapest; the states that can be reached are those
\* of a stream this long; and how far two of them are apart is bounded by the ones
\* of the word that parted them.
CostInv ==
  /\ steps \in Nat
  /\ metric \in [State -> Nat]
  /\ \E s \in State : metric[s] = 0
  /\ \A s \in State : metric[s] # Inf <=> Entered(s, steps)
  /\ \A n \in 0..(K-1), x \in Words, s, t \in State :
       Entered(s, steps) /\ Entered(t, steps) /\ Apart(s, t, n, x)
         => metric[t] <= metric[s] + WeightTo(x, n)

\* Two states differ as some word does.
LEMMA SomeWordApart ==
  ASSUME NEW s \in State, NEW t \in State
  PROVE  \E x \in Words : Apart(s, t, K-1, x)
<1> DEFINE x == [i \in 1..(K-1) |-> IF Bit(s, i-1) # Bit(t, i-1) THEN 1 ELSE 0]
<1>1. x \in Words
  BY DEF Words, Value
<1>2. Apart(s, t, K-1, x)
  <2> SUFFICES ASSUME NEW i \in 0..(K-2)
               PROVE  Bit(s, i) # Bit(t, i) <=> i >= K-1-(K-1) /\ x[i - (K-1-(K-1)) + 1] = 1
    BY DEF Apart
  <2>1. K-1-(K-1) = 0 /\ i - 0 + 1 = i + 1 /\ i >= 0 /\ i + 1 \in 1..(K-1) /\ (i + 1) - 1 = i
    BY ConvCodeAssumption
  <2>2. x[i + 1] = IF Bit(s, i) # Bit(t, i) THEN 1 ELSE 0
    BY <2>1
  <2> QED BY <2>1, <2>2
<1> QED BY <1>1, <1>2

\* Costs stay small: far from Inf, when a register's ones do.
LEMMA CostsAreSmall ==
  ASSUME CostInv, NEW s \in State, metric[s] # Inf
  PROVE  metric[s] <= N * (K-1) /\ \E x \in Words : metric[s] <= Weight(x)
<1>1. PICK z \in State : metric[z] = 0
  BY DEF CostInv
<1>2. Entered(z, steps) /\ Entered(s, steps)
  BY <1>1 DEF CostInv, Inf
<1>3. PICK x \in Words : Apart(z, s, K-1, x)
  BY SomeWordApart
<1>4. K - 1 \in 0..(K-1) /\ N \in Nat
  BY ConvCodeAssumption, GroupIsPositive
<1>5. metric[s] <= metric[z] + WeightTo(x, K-1) /\ metric[s] \in Nat
  BY <1>2, <1>3, <1>4 DEF CostInv
<1>6. WeightTo(x, K-1) <= Weight(x) /\ Weight(x) \in 0..(N * (K-1)) /\ WeightTo(x, K-1) \in Nat
  BY <1>4, WeightIs, OnesAreFinite
<1>7. PICK u \in Nat : u = N * (K-1)
  BY <1>4
<1> QED BY <1>1, <1>5, <1>6, <1>7

\* The order of the numbers, for the library's account of minimal elements.
Below == {e \in Nat \X Nat : e[1] < e[2]}

\* Every set of numbers has a least one.
LEMMA BelowIsWellFounded == IsWellFoundedOn(Below, Nat)
<1>1. OpToRel(<, Nat) = Below
  BY DEF OpToRel, Below
<1> QED BY <1>1, NatLessThanWellFounded

\* A set of costs has a least one.
LEMMA LeastCost ==
  ASSUME NEW S, S \subseteq Nat, S # {}
  PROVE  \E a \in S : \A b \in S : a <= b
<1>1. PICK a \in S : \A b \in S : ~(<<b, a>> \in Below)
  BY BelowIsWellFounded, WFMin
<1>2. \A b \in S : a \in Nat /\ b \in Nat /\ ~(b < a)
  BY <1>1 DEF Below
<1> QED BY <1>2

\* Where there is an edge, the winner is one, and no other is cheaper.
LEMMA WinnerIsCheapest ==
  ASSUME metric \in [State -> Nat], NEW t \in State, NEW group, EdgesInto(t) # {},
         \A e \in State \X Value : BranchCost(Output[e], group) \in Nat
  PROVE  /\ Winner(t, group) \in EdgesInto(t)
         /\ \A f \in EdgesInto(t) : PathCost(Winner(t, group), group) <= PathCost(f, group)
<1> DEFINE E == EdgesInto(t)
           Wins(e) == \A f \in E \ {e} :
                        \/ PathCost(e, group) < PathCost(f, group)
                        \/ PathCost(e, group) = PathCost(f, group) /\ EdgeOrder(e) < EdgeOrder(f)
<1>1. \A e \in E : e \in State \X Value /\ PathCost(e, group) \in Nat /\ EdgeOrder(e) \in Nat
  <2> SUFFICES ASSUME NEW e \in E
               PROVE  e \in State \X Value /\ PathCost(e, group) \in Nat /\ EdgeOrder(e) \in Nat
    OBVIOUS
  <2>1. e \in State \X Value
    BY DEF EdgesInto
  <2>2. metric[e[1]] \in Nat /\ BranchCost(Output[e], group) \in Nat
    BY <2>1
  <2>3. e[1] \in Nat /\ e[2] \in Nat
    BY <2>1, StateIs DEF Value
  <2> QED BY <2>1, <2>2, <2>3 DEF PathCost, EdgeOrder
<1>2. \A e, f \in E : EdgeOrder(e) = EdgeOrder(f) => e = f
  <2> SUFFICES ASSUME NEW e \in E, NEW f \in E, EdgeOrder(e) = EdgeOrder(f) PROVE e = f
    OBVIOUS
  <2>1. e \in State \X Value /\ f \in State \X Value
    BY <1>1
  <2>2. e[1] \in Nat /\ f[1] \in Nat /\ e[2] \in {0, 1} /\ f[2] \in {0, 1}
    BY <2>1, StateIs DEF Value
  <2>3. 2 * e[1] + e[2] = 2 * f[1] + f[2]
    BY DEF EdgeOrder
  <2>4. e[1] = f[1] /\ e[2] = f[2]
    BY <2>2, <2>3
  <2> QED BY <2>1, <2>4
<1> HIDE DEF E
<1> DEFINE C == {PathCost(e, group) : e \in E}
<1>3. PICK a \in C : \A c \in C : a <= c
  <2>1. C \subseteq Nat
    BY <1>1
  <2>2. C # {}
    BY DEF E
  <2> HIDE DEF C
  <2> QED BY <2>1, <2>2, LeastCost
<1> DEFINE D == {EdgeOrder(e) : e \in {d \in E : PathCost(d, group) = a}}
<1>4. PICK m \in D : \A d \in D : m <= d
  <2>1. D \subseteq Nat
    BY <1>1
  <2>2. D # {}
    OBVIOUS
  <2> HIDE DEF D
  <2> QED BY <2>1, <2>2, LeastCost
<1>5. PICK e \in E : PathCost(e, group) = a /\ EdgeOrder(e) = m
  OBVIOUS
<1>6. Wins(e)
  <2> SUFFICES ASSUME NEW f \in E \ {e}
               PROVE  \/ PathCost(e, group) < PathCost(f, group)
                      \/ PathCost(e, group) = PathCost(f, group) /\ EdgeOrder(e) < EdgeOrder(f)
    OBVIOUS
  <2>1. PathCost(e, group) <= PathCost(f, group)
    BY <1>3, <1>5
  <2>2. CASE PathCost(f, group) = a
    <3>1. m <= EdgeOrder(f)
      BY <1>4, <2>2
    <3>2. EdgeOrder(e) # EdgeOrder(f)
      BY <1>2
    <3> QED BY <1>1, <1>5, <2>2, <3>1, <3>2
  <2>3. CASE PathCost(f, group) # a
    BY <1>1, <1>5, <2>1, <2>3
  <2> QED BY <2>2, <2>3
<1>7. Winner(t, group) \in E /\ Wins(Winner(t, group))
  <2>1. Winner(t, group) = CHOOSE d \in E : Wins(d)
    BY DEF Winner, E
  <2> HIDE DEF Wins
  <2> QED BY <1>6, <2>1
<1>8. ASSUME NEW f \in E  PROVE PathCost(Winner(t, group), group) <= PathCost(f, group)
  <2>1. CASE f = Winner(t, group)
    BY <1>1, <2>1
  <2>2. CASE f # Winner(t, group)
    <3>1. \/ PathCost(Winner(t, group), group) < PathCost(f, group)
          \/ PathCost(Winner(t, group), group) = PathCost(f, group)
      BY <1>7, <2>2
    <3> QED BY <1>1, <1>7, <3>1
  <2> QED BY <2>1, <2>2
<1> QED BY <1>7, <1>8 DEF E

\* An edge's bits, seen from both of its ends.
LEMMA EdgeBits ==
  ASSUME NEW p \in State, NEW b \in Value, NEW t \in State, NextState[<<p, b>>] = t
  PROVE  /\ Bit(Register(p, b), 0) = Bit(p, 0)
         /\ \A i \in 1..(K-1) : Bit(Register(p, b), i) = Bit(t, i-1)
         /\ \A i \in 1..(K-2) : Bit(p, i) = Bit(t, i-1)
<1>1. K \in 2..9
  BY ConvCodeAssumption
<1>2. \A i \in 0..(K-2) : Bit(t, i) = Bit(Register(p, b), i + 1)
  BY NextBits
<1>3. \A i \in 0..(K-2) : Bit(Register(p, b), i) = Bit(p, i)
  BY RegisterBits
<1>4. ASSUME NEW i \in 1..(K-1)  PROVE Bit(Register(p, b), i) = Bit(t, i-1)
  <2>1. i - 1 \in 0..(K-2) /\ (i - 1) + 1 = i
    BY <1>1
  <2> QED BY <1>2, <2>1
<1>5. ASSUME NEW i \in 1..(K-2)  PROVE Bit(p, i) = Bit(t, i-1)
  <2>1. i \in 0..(K-2) /\ i \in 1..(K-1)
    BY <1>1
  <2> QED BY <1>3, <1>4, <2>1
<1> QED BY <1>1, <1>3, <1>4, <1>5

\* What is a step away from a state that can be, can be; and all that can be is.
LEMMA EnteredNext ==
  ASSUME NEW p \in State, NEW b \in Value, NEW t \in State, NextState[<<p, b>>] = t,
         NEW m \in Nat
  PROVE  /\ Entered(p, m) => Entered(t, m + 1)
         /\ Entered(t, m + 1) /\ Bit(p, 0) = 0 => Entered(p, m)
<1>1. K \in 2..9
  BY ConvCodeAssumption
<1>2. ASSUME Entered(p, m)  PROVE Entered(t, m + 1)
  <2> SUFFICES ASSUME NEW i \in 0..(K-2), i < K-1-(m+1) PROVE Bit(t, i) = 0
    BY DEF Entered
  <2>1. i + 1 \in 1..(K-2) /\ (i + 1) - 1 = i /\ i + 1 < K-1-m /\ i + 1 \in 0..(K-2)
    BY <1>1
  <2>2. Bit(p, i + 1) = Bit(t, i)
    BY <2>1, EdgeBits
  <2> QED BY <1>2, <2>1, <2>2 DEF Entered
<1>3. ASSUME Entered(t, m + 1), Bit(p, 0) = 0  PROVE Entered(p, m)
  <2> SUFFICES ASSUME NEW i \in 0..(K-2), i < K-1-m PROVE Bit(p, i) = 0
    BY DEF Entered
  <2>1. CASE i = 0
    BY <1>3, <2>1
  <2>2. CASE i # 0
    <3>1. i \in 1..(K-2) /\ i - 1 \in 0..(K-2) /\ i - 1 < K-1-(m+1)
      BY <1>1, <2>2
    <3> QED BY <1>3, <3>1, EdgeBits DEF Entered
  <2> QED BY <2>1, <2>2
<1> QED BY <1>2, <1>3

\* Paths into two states that part n steps ago came through states that had parted
\* n - 1 steps before.
LEMMA CameApart ==
  ASSUME NEW p \in State, NEW b \in Value, NEW s \in State, NextState[<<p, b>>] = s,
         NEW r \in State, NEW c \in Value, NEW t \in State, NextState[<<r, c>>] = t,
         Bit(p, 0) = Bit(r, 0), NEW n \in 1..(K-1), NEW x \in Words, Apart(s, t, n, x)
  PROVE  /\ Apart(p, r, n-1, x)
         /\ Parted(Register(p, b), Register(r, c), K - n, x)
<1>1. K \in 2..9
  BY ConvCodeAssumption
<1>2. ASSUME NEW i \in 0..(K-1)
      PROVE  Bit(Register(p, b), i) # Bit(Register(r, c), i)
               <=> i >= K - n /\ x[i - (K - n) + 1] = 1
  <2>1. CASE i = 0
    <3>1. ~(i >= K - n)
      BY <1>1, <2>1
    <3> QED BY <2>1, <3>1, EdgeBits
  <2>2. CASE i # 0
    <3>1. i \in 1..(K-1) /\ i - 1 \in 0..(K-2) /\ (i - 1 >= K-1-n <=> i >= K - n)
          /\ (i - 1) - (K-1-n) + 1 = i - (K - n) + 1
      BY <1>1, <2>2
    <3>2. Bit(Register(p, b), i) = Bit(s, i - 1) /\ Bit(Register(r, c), i) = Bit(t, i - 1)
      BY <3>1, EdgeBits
    <3>3. Bit(s, i - 1) # Bit(t, i - 1) <=> i - 1 >= K-1-n /\ x[(i - 1) - (K-1-n) + 1] = 1
      BY <3>1 DEF Apart
    <3> QED BY <3>1, <3>2, <3>3
  <2> QED BY <2>1, <2>2
<1>3. ASSUME NEW i \in 0..(K-2)
      PROVE  Bit(p, i) # Bit(r, i) <=> i >= K-1-(n-1) /\ x[i - (K-1-(n-1)) + 1] = 1
  <2>1. K-1-(n-1) = K - n /\ i \in 0..(K-1)
    BY <1>1
  <2>2. Bit(Register(p, b), i) = Bit(p, i) /\ Bit(Register(r, c), i) = Bit(r, i)
    BY RegisterBits
  <2> QED BY <1>2, <2>1, <2>2
<1> QED BY <1>2, <1>3 DEF Apart, Parted

\* A branch costs no more than its group has symbols.
LEMMA BranchCostIs ==
  ASSUME NEW e \in State \X Value, NEW group
  PROVE  BranchCost(Output[e], group) \in 0..N
<1> DEFINE P == {j \in 1..N : group[j] \in Value /\ group[j] # Output[e][j]}
<1>1. P \in SUBSET (1..N) /\ IsFiniteSet(1..N) /\ Cardinality(1..N) = N /\ N \in Nat
  BY GroupIsPositive, FS_Interval
<1>2. Cardinality(P) <= N /\ Cardinality(P) \in Nat
  BY <1>1, FS_Subset, FS_CardinalityType
<1> QED BY <1>1, <1>2 DEF BranchCost

\* What vit_step leaves of the costs, before they are made relative.
Raised(t, group) ==
  IF EdgesInto(t) = {} THEN Inf ELSE PathCost(Winner(t, group), group)

\* Before they are made relative, the costs already keep CostInv's bounds.
LEMMA RaisedIs ==
  ASSUME CostInv, N * K < Inf, NEW group
  PROVE  /\ \A t \in State : Raised(t, group) \in Nat
         /\ \A t \in State : Raised(t, group) # Inf <=> Entered(t, steps + 1)
         /\ \A t \in State : Raised(t, group) # Inf => Raised(t, group) < Inf
         /\ \A n \in 0..(K-1), x \in Words, s, t \in State :
              Entered(s, steps + 1) /\ Entered(t, steps + 1) /\ Apart(s, t, n, x)
                => Raised(t, group) <= Raised(s, group) + WeightTo(x, n)
<1>1. /\ metric \in [State -> Nat] /\ steps \in Nat
      /\ \A s \in State : metric[s] # Inf <=> Entered(s, steps)
  BY DEF CostInv
<1>2. \A e \in State \X Value : BranchCost(Output[e], group) \in Nat /\ BranchCost(Output[e], group) <= N
  BY BranchCostIs
<1>3. N \in Nat /\ K \in Nat /\ N * K = N * (K-1) + N /\ N * (K-1) \in Nat
  BY GroupIsPositive, ConvCodeAssumption
<1>4. \A t \in State : \A e \in EdgesInto(t) :
        /\ e \in State \X Value /\ e = <<e[1], e[2]>> /\ e[1] \in State /\ e[2] \in Value
        /\ NextState[<<e[1], e[2]>>] = t /\ metric[e[1]] # Inf
        /\ PathCost(e, group) = metric[e[1]] + BranchCost(Output[e], group)
  BY DEF EdgesInto, PathCost
<1>5. ASSUME NEW t \in State, NEW e \in EdgesInto(t)
      PROVE  PathCost(e, group) \in Nat /\ PathCost(e, group) < Inf
  <2>1. metric[e[1]] <= N * (K-1) /\ metric[e[1]] \in Nat
    BY <1>1, <1>4, <1>5, CostsAreSmall
  <2>2. BranchCost(Output[e], group) \in Nat /\ BranchCost(Output[e], group) <= N
    BY <1>2, <1>4, <1>5
  <2>3. PICK u \in Nat : u = N * (K-1)
    BY <1>3
  <2>4. PathCost(e, group) = metric[e[1]] + BranchCost(Output[e], group)
    BY <1>4, <1>5
  <2>5. u + N < Inf
    BY <1>3, <2>3
  <2> QED BY <1>3, <2>1, <2>2, <2>3, <2>4, <2>5 DEF Inf
<1>6. ASSUME NEW t \in State, EdgesInto(t) # {}
      PROVE  /\ Winner(t, group) \in EdgesInto(t)
             /\ \A f \in EdgesInto(t) : PathCost(Winner(t, group), group) <= PathCost(f, group)
  BY <1>1, <1>2, <1>6, WinnerIsCheapest
<1>7. ASSUME NEW t \in State
      PROVE  EdgesInto(t) # {} <=> Entered(t, steps + 1)
  <2>1. ASSUME NEW e \in EdgesInto(t)  PROVE Entered(t, steps + 1)
    <3>1. PICK p \in State, b \in Value : NextState[<<p, b>>] = t /\ metric[p] # Inf
      <4>1. /\ e[1] \in State /\ e[2] \in Value
            /\ NextState[<<e[1], e[2]>>] = t /\ metric[e[1]] # Inf
        BY <1>4, <2>1
      <4> QED BY <4>1
    <3> QED BY <1>1, <3>1, EnteredNext
  <2>2. ASSUME Entered(t, steps + 1)  PROVE EdgesInto(t) # {}
    <3>1. PICK p \in State, b \in Value : NextState[<<p, b>>] = t /\ Bit(p, 0) = 0
      BY EnteredFrom DEF Value
    <3>2. Entered(p, steps)
      BY <1>1, <2>2, <3>1, EnteredNext
    <3>3. metric[p] # Inf
      BY <1>1, <3>2
    <3>4. <<p, b>> \in State \X Value /\ <<p, b>>[1] = p
      OBVIOUS
    <3>5. <<p, b>> \in EdgesInto(t)
      BY <3>1, <3>3, <3>4 DEF EdgesInto
    <3> QED BY <3>5
  <2> QED BY <2>1, <2>2
<1>8. ASSUME NEW t \in State, EdgesInto(t) # {}
      PROVE  Raised(t, group) \in Nat /\ Raised(t, group) < Inf
  BY <1>5, <1>6, <1>8 DEF Raised
<1>9. ASSUME NEW t \in State, EdgesInto(t) = {}
      PROVE  Raised(t, group) = Inf
  BY <1>9 DEF Raised
<1>10. ASSUME NEW n \in 0..(K-1), NEW x \in Words, NEW s \in State, NEW t \in State,
              Entered(s, steps + 1), Entered(t, steps + 1), Apart(s, t, n, x)
       PROVE  Raised(t, group) <= Raised(s, group) + WeightTo(x, n)
  <2>1. Raised(s, group) \in Nat /\ Raised(t, group) \in Nat /\ n \in Nat
    BY <1>7, <1>8, <1>10
  <2>2. CASE n = 0
    <3>1. ASSUME NEW i \in 0..(K-2)  PROVE Bit(s, i) = Bit(t, i)
      <4>1. ~(i >= K-1-0)
        BY ConvCodeAssumption
      <4> QED BY <1>10, <2>2, <4>1 DEF Apart
    <3>2. s = t
      BY <3>1, SameBits
    <3> QED BY <2>1, <3>2, OnesAreFinite
  <2>3. CASE n # 0
    <3> DEFINE e == Winner(s, group)
    <3>1. e \in EdgesInto(s) /\ Raised(s, group) = PathCost(e, group)
      BY <1>6, <1>7, <1>10 DEF Raised
    <3>2. PICK p \in State, b \in Value :
            e = <<p, b>> /\ NextState[<<p, b>>] = s /\ metric[p] # Inf
            /\ PathCost(e, group) = metric[p] + BranchCost(Output[<<p, b>>], group)
      <4>1. /\ e = <<e[1], e[2]>> /\ e[1] \in State /\ e[2] \in Value
            /\ NextState[<<e[1], e[2]>>] = s /\ metric[e[1]] # Inf
            /\ PathCost(e, group) = metric[e[1]] + BranchCost(Output[e], group)
        BY <1>4, <3>1
      <4> HIDE DEF e
      <4> QED BY <4>1
    <3>3. Entered(p, steps)
      BY <1>1, <3>2
    <3>4. Bit(p, 0) \in Value
      BY StateIs, BitIsValue
    <3>5. PICK r \in State, c \in Value : NextState[<<r, c>>] = t /\ Bit(r, 0) = Bit(p, 0)
      BY <3>4, EnteredFrom
    <3>6. n \in 1..(K-1) /\ n - 1 \in 0..(K-1) /\ n >= 1
      BY <1>3, <2>1, <2>3
    <3>7. /\ Apart(p, r, n-1, x)
          /\ Parted(Register(p, b), Register(r, c), K - n, x)
      BY <1>10, <3>2, <3>5, <3>6, CameApart
    <3>8. Entered(r, steps)
      <4> SUFFICES ASSUME NEW i \in 0..(K-2), i < K-1-steps PROVE Bit(r, i) = 0
        BY DEF Entered
      <4>1. CASE i = 0
        BY <3>3, <3>5, <4>1 DEF Entered
      <4>2. CASE i # 0
        <5>1. i \in 1..(K-2) /\ i - 1 \in 0..(K-2) /\ i - 1 < K-1-(steps+1)
          BY <1>1, <4>2, ConvCodeAssumption
        <5> QED BY <1>10, <3>5, <5>1, EdgeBits DEF Entered
      <4> QED BY <4>1, <4>2
    <3>9. metric[r] <= metric[p] + WeightTo(x, n-1) /\ metric[r] # Inf
      BY <1>1, <3>3, <3>6, <3>7, <3>8 DEF CostInv
    <3>10. <<r, c>> \in EdgesInto(t) /\ PathCost(<<r, c>>, group) = metric[r] + BranchCost(Output[<<r, c>>], group)
      BY <3>5, <3>9 DEF EdgesInto, PathCost
    <3>11. Raised(t, group) <= PathCost(<<r, c>>, group)
      BY <1>6, <3>10 DEF Raised
    <3>12. /\ BranchCost(Output[<<p, b>>], group) \in 0..N
           /\ BranchCost(Output[<<r, c>>], group) \in 0..N
           /\ BranchCost(Output[<<r, c>>], group)
                <= BranchCost(Output[<<p, b>>], group) + Cardinality(OnesOf(x, n))
      BY <3>6, <3>7, BranchesPart
    <3>13. WeightTo(x, n) = WeightTo(x, n-1) + Cardinality(OnesOf(x, n))
      BY <2>1, <3>6, WeightGrows
    <3>14. WeightTo(x, n-1) \in Nat /\ Cardinality(OnesOf(x, n)) \in Nat
      BY <2>1, <3>6, OnesAreFinite
    <3>15. metric[r] \in Nat /\ metric[p] \in Nat
      BY <1>1
    <3> HIDE DEF e
    <3> QED BY <1>3, <2>1, <3>1, <3>2, <3>9, <3>10, <3>11, <3>12, <3>13, <3>14, <3>15
  <2> QED BY <2>2, <2>3
<1>11. Inf \in Nat
  BY DEF Inf
<1>12. ASSUME NEW t \in State
       PROVE  /\ Raised(t, group) \in Nat
              /\ Raised(t, group) # Inf <=> Entered(t, steps + 1)
              /\ Raised(t, group) # Inf => Raised(t, group) < Inf
  <2>1. CASE EdgesInto(t) = {}
    BY <1>7, <1>9, <1>11, <2>1
  <2>2. CASE EdgesInto(t) # {}
    <3>1. Raised(t, group) \in Nat /\ Raised(t, group) < Inf
      BY <1>8, <2>2
    <3>2. Raised(t, group) # Inf
      BY <1>11, <3>1
    <3> QED BY <1>7, <2>2, <3>1, <3>2
  <2> QED BY <2>1, <2>2
<1> QED BY <1>10, <1>12

\* What vit_step does to the costs.
LEMMA AdvancedCosts ==
  ASSUME CostInv, N * K < Inf, NEW group, Advance(group)
  PROVE  \E best \in Nat :
           /\ \E z \in State : Raised(z, group) = best /\ Raised(z, group) # Inf
           /\ \A s \in State : best <= Raised(s, group)
           /\ metric' = [s \in State |-> IF Raised(s, group) = Inf THEN Inf ELSE Raised(s, group) - best]
<1> DEFINE raised == [t \in State |-> Raised(t, group)]
           costs == {raised[s] : s \in State}
           best == CHOOSE c \in costs : \A s \in State : c <= raised[s]
<1>2. metric' = Renormalised(raised)
  BY DEF Advance, Raised
<1>3. metric' = [s \in State |-> IF raised[s] = Inf THEN Inf ELSE raised[s] - best]
  BY <1>2 DEF Renormalised
<1>4. /\ \A t \in State : raised[t] \in Nat
      /\ \A t \in State : raised[t] # Inf <=> Entered(t, steps + 1)
      /\ \A t \in State : raised[t] # Inf => raised[t] < Inf
  <2>1. \A t \in State : raised[t] = Raised(t, group)
    OBVIOUS
  <2> HIDE DEF raised
  <2> QED BY <2>1, RaisedIs
<1>5. best \in costs /\ \A s \in State : best <= raised[s]
  <2>1. costs \subseteq Nat
    BY <1>4
  <2>2. costs # {}
    BY StateIs
  <2>3. \A s \in State : raised[s] \in costs
    OBVIOUS
  <2> HIDE DEF costs
  <2>4. \E a \in costs : \A b \in costs : a <= b
    BY <2>1, <2>2, LeastCost
  <2> HIDE DEF raised
  <2>5. \E a \in costs : \A s \in State : a <= raised[s]
    BY <2>3, <2>4
  <2> QED BY <2>5
<1>6. PICK z \in State : raised[z] = best
  BY <1>5
<1>7. best \in Nat /\ raised[0] # Inf /\ 0 \in State
  <2>1. Entered(0, steps + 1)
    BY ZeroBits DEF Entered
  <2>2. 0 \in State
    BY StateIs
  <2> QED BY <1>4, <1>6, <2>1, <2>2
<1>8. raised[z] # Inf
  <2> HIDE DEF raised, costs, best
  <2> QED BY <1>4, <1>5, <1>6, <1>7 DEF Inf
<1>9. \A s \in State : raised[s] = Raised(s, group)
  OBVIOUS
<1> HIDE DEF raised, costs, best
<1>10. metric' = [s \in State |-> IF Raised(s, group) = Inf THEN Inf ELSE Raised(s, group) - best]
  BY <1>3, <1>9
<1> QED BY <1>5, <1>6, <1>7, <1>8, <1>9, <1>10

\* vit_step keeps it.
LEMMA CostStep ==
  ASSUME CostInv, N * K < Inf, NEW group, Advance(group)
  PROVE  CostInv'
<1>1. steps \in Nat /\ steps' = steps + 1
  BY DEF CostInv, Advance
<1>2. PICK best \in Nat :
        /\ \E z \in State : Raised(z, group) = best /\ Raised(z, group) # Inf
        /\ \A s \in State : best <= Raised(s, group)
        /\ metric' = [s \in State |-> IF Raised(s, group) = Inf THEN Inf ELSE Raised(s, group) - best]
  BY AdvancedCosts
<1>3. PICK raised \in [State -> Nat] : \A t \in State : raised[t] = Raised(t, group)
  <2> DEFINE f == [t \in State |-> Raised(t, group)]
  <2>1. f \in [State -> Nat] /\ \A t \in State : f[t] = Raised(t, group)
    BY RaisedIs
  <2> HIDE DEF f
  <2> QED BY <2>1
<1>4. /\ \A t \in State : raised[t] # Inf <=> Entered(t, steps + 1)
      /\ \A t \in State : raised[t] # Inf => raised[t] < Inf
      /\ \A n \in 0..(K-1), x \in Words, s, t \in State :
           Entered(s, steps + 1) /\ Entered(t, steps + 1) /\ Apart(s, t, n, x)
             => raised[t] <= raised[s] + WeightTo(x, n)
  BY <1>3, RaisedIs
<1>5. PICK z \in State : raised[z] = best /\ raised[z] # Inf
  BY <1>2, <1>3
<1>6. \A s \in State : best <= raised[s] /\ raised[s] \in Nat
  BY <1>2, <1>3
<1>7. metric' = [s \in State |-> IF raised[s] = Inf THEN Inf ELSE raised[s] - best]
  BY <1>2, <1>3
<1>8. ASSUME NEW s \in State
      PROVE  /\ metric'[s] \in Nat
             /\ metric'[s] # Inf <=> Entered(s, steps + 1)
             /\ raised[s] # Inf => metric'[s] = raised[s] - best
  <2>1. metric'[s] = IF raised[s] = Inf THEN Inf ELSE raised[s] - best
    BY <1>7
  <2>2. CASE raised[s] = Inf
    BY <1>4, <2>1, <2>2 DEF Inf
  <2>3. CASE raised[s] # Inf
    <3>1. raised[s] \in Nat /\ best <= raised[s] /\ raised[s] < Inf
      BY <1>4, <1>6, <2>3
    <3> QED BY <1>4, <2>1, <2>3, <3>1 DEF Inf
  <2> QED BY <2>2, <2>3
<1>9. metric' \in [State -> Nat]
  BY <1>7, <1>8
<1>10. metric'[z] = 0
  BY <1>5, <1>8
<1>11. ASSUME NEW n \in 0..(K-1), NEW x \in Words, NEW s \in State, NEW t \in State,
              Entered(s, steps + 1), Entered(t, steps + 1), Apart(s, t, n, x)
       PROVE  metric'[t] <= metric'[s] + WeightTo(x, n)
  <2>1. raised[s] # Inf /\ raised[t] # Inf /\ raised[s] \in Nat /\ raised[t] \in Nat
    BY <1>4, <1>6, <1>11
  <2>2. raised[t] <= raised[s] + WeightTo(x, n)
    BY <1>4, <1>11
  <2>3. WeightTo(x, n) \in Nat
    BY OnesAreFinite
  <2>4. metric'[s] = raised[s] - best /\ metric'[t] = raised[t] - best
    BY <1>8, <2>1
  <2> QED BY <2>1, <2>2, <2>3, <2>4
<1>12. \A s \in State : metric'[s] # Inf <=> Entered(s, steps')
  BY <1>1, <1>8
<1>13. \A n \in 0..(K-1), x \in Words, s, t \in State :
         Entered(s, steps') /\ Entered(t, steps') /\ Apart(s, t, n, x)
           => metric'[t] <= metric'[s] + WeightTo(x, n)
  BY <1>1, <1>11
<1>14. \E s \in State : metric'[s] = 0
  BY <1>10
<1> QED BY <1>1, <1>9, <1>12, <1>13, <1>14 DEF CostInv

\* At first only the empty register can be.
LEMMA CostInit == Init => CostInv
<1> SUFFICES ASSUME Init PROVE CostInv
  OBVIOUS
<1>1. metric = [s \in State |-> IF s = 0 THEN 0 ELSE Inf] /\ steps = 0 /\ 0 \in State
  BY StateIs DEF Init, VInit
<1>2. \A s \in State : metric[s] # Inf <=> s = 0
  BY <1>1 DEF Inf
<1>3. ASSUME NEW s \in State  PROVE Entered(s, 0) <=> s = 0
  <2>1. \A i \in 0..(K-2) : i < K-1-0 /\ Bit(0, i) = 0
    <3> SUFFICES ASSUME NEW i \in 0..(K-2) PROVE i < K-1-0 /\ Bit(0, i) = 0
      OBVIOUS
    <3>1. i \in 0..7 /\ i < K-1-0
      BY ConvCodeAssumption
    <3>2. PICK h \in {1, 2, 4, 8, 16, 32, 64, 128} : 2^i = h
      BY <3>1, Doubling
    <3> QED BY <3>1, <3>2 DEF Bit
  <2> QED BY <1>1, <2>1, SameBits DEF Entered
<1>4. ASSUME NEW n \in 0..(K-1), NEW x \in Words, NEW s \in State, NEW t \in State,
             Entered(s, steps), Entered(t, steps)
      PROVE  metric[t] <= metric[s] + WeightTo(x, n)
  <2>1. s = 0 /\ t = 0
    BY <1>1, <1>3, <1>4
  <2>2. metric[0] = 0
    BY <1>1
  <2>3. WeightTo(x, n) \in Nat
    BY OnesAreFinite
  <2> QED BY <2>1, <2>2, <2>3
<1>5. metric \in [State -> Nat] /\ steps \in Nat /\ \E s \in State : metric[s] = 0
  BY <1>1 DEF Inf
<1>6. \A s \in State : metric[s] # Inf <=> Entered(s, steps)
  BY <1>1, <1>2, <1>3
<1> QED BY <1>4, <1>5, <1>6 DEF CostInv

\* Every step keeps it.
LEMMA CostNext ==
  ASSUME CostInv, N * K < Inf, [Next]_vars
  PROVE  CostInv'
<1>1. ASSUME UNCHANGED <<metric, steps>>  PROVE CostInv'
  BY <1>1 DEF CostInv, Entered
<1>2. CASE Step
  BY <1>2, CostStep DEF Step
<1>3. CASE ~Step
  BY <1>1, <1>3 DEF Next, GoesOn, Encode, FinalizeEncoder, Decode, StartDecode,
                    FinalizeDecoder, StartFlush, RunEnds, DrainOne, DrainEnds, Decide, vars, vvars
<1> QED BY <1>2, <1>3

\* CostInv is more than the run asks: of any two states, one word weighs it.
LEMMA CostHolds == CostInv => CostsBounded
<1> SUFFICES ASSUME CostInv PROVE CostsBounded
  OBVIOUS
<1>1. N \in Nat /\ K - 1 \in Nat /\ Words # {}
  <2>1. [i \in 1..(K-1) |-> 0] \in Words
    BY DEF Words, Value
  <2> QED BY <2>1, GroupIsPositive, ConvCodeAssumption
<1>2. PICK u \in Nat : u = N * (K-1)
  BY <1>1
<1>3. \A x \in Words : Weight(x) \in Nat /\ u - Weight(x) \in Nat
  <2> SUFFICES ASSUME NEW x \in Words PROVE Weight(x) \in Nat /\ u - Weight(x) \in Nat
    OBVIOUS
  <2>1. Weight(x) \in 0..u
    BY <1>2, WeightIs
  <2> QED BY <2>1
<1> DEFINE spare == {u - Weight(x) : x \in Words}
<1>4. PICK a \in spare : \A b \in spare : a <= b
  <2>1. spare \subseteq Nat /\ spare # {}
    BY <1>1, <1>3
  <2> HIDE DEF spare
  <2> QED BY <2>1, LeastCost
<1>5. PICK p \in Words : a = u - Weight(p)
  OBVIOUS
<1>6. \A x \in Words : Weight(x) <= Weight(p)
  <2> SUFFICES ASSUME NEW x \in Words PROVE Weight(x) <= Weight(p)
    OBVIOUS
  <2>1. u - Weight(x) \in spare
    OBVIOUS
  <2> HIDE DEF spare
  <2>2. u - Weight(p) <= u - Weight(x)
    BY <1>4, <1>5, <2>1
  <2>3. Weight(x) \in Nat /\ Weight(p) \in Nat
    BY <1>3
  <2> QED BY <2>2, <2>3
<1>7. ASSUME NEW s \in State, metric[s] # Inf  PROVE metric[s] <= Weight(p)
  <2>1. PICK x \in Words : metric[s] <= Weight(x)
    BY <1>7, CostsAreSmall
  <2>2. metric[s] \in Nat
    BY DEF CostInv
  <2> QED BY <1>3, <1>6, <2>1, <2>2
<1> QED BY <1>7 DEF CostsBounded, Words

\* On a stream of any length no reachable state costs more than the cheapest by more
\* than two paths can part in a whole register, so vit_step's int costs do not grow
\* (given that VIT_INF is out of a register's reach, which N * K < Inf says).
THEOREM ViterbiCostsBounded ==
  ASSUME N * K < Inf
  PROVE  Spec => []CostsBounded
<1>1. CostInv /\ [Next]_vars => CostInv'
  BY CostNext
<1> QED BY <1>1, CostInit, CostHolds, PTL DEF Spec

-----------------------------------------------------------------------------
\* Induction over the natural numbers, for a set instead of a formula.
LEMMA SetInduction ==
  ASSUME NEW S, 0 \in S, \A n \in Nat : n \in S => n + 1 \in S
  PROVE  Nat \subseteq S
<1> DEFINE T == {n \in Nat : n \notin S}
<1> SUFFICES ASSUME T # {} PROVE FALSE
  OBVIOUS
<1>1. T \subseteq Nat
  OBVIOUS
<1>2. PICK x \in T : \A y \in T : ~ (<<y, x>> \in Below)
  <2> HIDE DEF T
  <2> QED BY <1>1, BelowIsWellFounded, WFMin
<1>3. x \in Nat /\ x \notin S /\ x # 0
  BY <1>2
<1>4. x - 1 \in Nat /\ x - 1 < x /\ (x - 1) + 1 = x
  BY <1>3
<1>5. x - 1 \notin T
  BY <1>2, <1>3, <1>4 DEF Below
<1>6. x - 1 \in S
  BY <1>4, <1>5
<1> QED BY <1>3, <1>4, <1>6

\* The state an encoder is in after the first i symbols of p: its bits are the
\* last of them.
Follows(p, i, s) ==
  \A b \in 0..(K-2) : Bit(s, b) = IF i - (K-2-b) >= 1 THEN p[i - (K-2-b)] ELSE 0

\* A transmission leads to one state.
LEMMA FollowsOne ==
  ASSUME NEW p, NEW i, NEW s \in State, NEW t \in State, Follows(p, i, s), Follows(p, i, t)
  PROVE  s = t
  BY SameBits DEF Follows

\* Before its first symbol that is the empty register.
LEMMA FollowsStart ==
  ASSUME NEW p
  PROVE  Follows(p, 0, 0)
<1> SUFFICES ASSUME NEW b \in 0..(K-2)
             PROVE  Bit(0, b) = IF 0 - (K-2-b) >= 1 THEN p[0 - (K-2-b)] ELSE 0
  BY DEF Follows
<1>1. ~(0 - (K-2-b) >= 1)
  BY ConvCodeAssumption
<1> QED BY <1>1, ZeroBits

\* Each symbol takes the trellis edge it labels.
LEMMA FollowsNext ==
  ASSUME NEW p, NEW i \in Nat, NEW s \in State, Follows(p, i, s), p[i+1] \in Value
  PROVE  NextState[<<s, p[i+1]>>] \in State /\ Follows(p, i+1, NextState[<<s, p[i+1]>>])
<1>1. PICK c \in Value : c = p[i+1]
  OBVIOUS
<1>2. PICK t \in State : t = NextState[<<s, c>>]
  BY NextIsHalf
<1>3. K \in 2..9
  BY ConvCodeAssumption
<1>4. ASSUME NEW b \in 0..(K-2)
      PROVE  Bit(t, b) = IF (i + 1) - (K-2-b) >= 1 THEN p[(i + 1) - (K-2-b)] ELSE 0
  <2>1. Bit(t, b) = Bit(Register(s, c), b + 1)
    BY <1>2, NextBits
  <2>2. CASE b = K-2
    <3>1. b + 1 = K-1 /\ (i + 1) - (K-2-b) = i + 1 /\ i + 1 >= 1
      BY <1>3, <2>2
    <3>2. Bit(Register(s, c), K-1) = c
      BY RegisterBits
    <3> QED BY <1>1, <2>1, <3>1, <3>2
  <2>3. CASE b # K-2
    <3>1. b + 1 \in 0..(K-2) /\ i - (K-2-(b + 1)) = (i + 1) - (K-2-b)
      BY <1>3, <2>3
    <3>2. Bit(Register(s, c), b + 1) = Bit(s, b + 1)
      BY <3>1, RegisterBits
    <3>3. Bit(s, b + 1) = IF i - (K-2-(b + 1)) >= 1 THEN p[i - (K-2-(b + 1))] ELSE 0
      BY <3>1 DEF Follows
    <3> QED BY <2>1, <3>1, <3>2, <3>3
  <2> QED BY <2>2, <2>3
<1>5. Follows(p, i+1, t)
  <2> SUFFICES ASSUME NEW b \in 0..(K-2)
               PROVE  Bit(t, b) = IF (i+1) - (K-2-b) >= 1 THEN p[(i+1) - (K-2-b)] ELSE 0
    BY DEF Follows
  <2> QED BY <1>4
<1>6. NextState[<<s, p[i+1]>>] = t
  BY <1>1, <1>2
<1> QED BY <1>5, <1>6

\* At each of its symbols a transmission is in some state.
LEMMA FollowsSome ==
  ASSUME NEW n \in Nat, NEW p \in [1..n -> Value], NEW i \in 0..n
  PROVE  \E s \in State : Follows(p, i, s)
<1> DEFINE Some == {k \in Nat : k <= n => \E s \in State : Follows(p, k, s)}
<1>1. 0 \in Some
  BY FollowsStart, StateIs
<1>2. ASSUME NEW k \in Nat, k \in Some  PROVE k + 1 \in Some
  <2> SUFFICES ASSUME k + 1 <= n PROVE \E s \in State : Follows(p, k + 1, s)
    OBVIOUS
  <2>1. PICK s \in State : Follows(p, k, s)
    BY <1>2
  <2>2. p[k+1] \in Value
    OBVIOUS
  <2> QED BY <2>1, <2>2, FollowsNext
<1> HIDE DEF Some
<1>3. Nat \subseteq Some
  BY <1>1, <1>2, SetInduction
<1> QED BY <1>3 DEF Some

\* Where it is depends on what was sent so far, and on nothing later.
LEMMA FollowsSame ==
  ASSUME NEW p, NEW q, NEW i \in Nat, \A k \in 1..i : p[k] = q[k], NEW s, Follows(p, i, s)
  PROVE  Follows(q, i, s)
<1> SUFFICES ASSUME NEW b \in 0..(K-2)
             PROVE  Bit(s, b) = IF i - (K-2-b) >= 1 THEN q[i - (K-2-b)] ELSE 0
  BY DEF Follows
<1>1. i - (K-2-b) \in Int /\ i - (K-2-b) <= i
  BY ConvCodeAssumption
<1>2. Bit(s, b) = IF i - (K-2-b) >= 1 THEN p[i - (K-2-b)] ELSE 0
  BY DEF Follows
<1> QED BY <1>1, <1>2

\* What the trellis has on an edge is the convolution of the symbols that led there.
LEMMA OutputIsConvolved ==
  ASSUME NEW p, NEW i \in Nat, NEW s \in State, Follows(p, i, s), p[i+1] \in Value,
         NEW j \in 1..N
  PROVE  Output[<<s, p[i+1]>>][j] = Convolved(p, i+1, j)
<1>1. PICK c \in Value : c = p[i+1]
  OBVIOUS
<1> DEFINE R == Register(s, c)
<1>2. K \in 2..9
  BY ConvCodeAssumption
<1>3. ASSUME NEW t \in 0..(K-1)
      PROVE  Bit(R, t) = 1 <=> i + 1 > K-1-t /\ p[(i + 1) - (K-1-t)] = 1
  <2>1. CASE t = K-1
    <3>1. K-1-t = 0 /\ i + 1 > 0 /\ (i + 1) - 0 = i + 1
      BY <1>2, <2>1
    <3>2. Bit(R, t) = c
      BY <2>1, RegisterBits
    <3> QED BY <1>1, <3>1, <3>2
  <2>2. CASE t # K-1
    <3>1. t \in 0..(K-2) /\ i - (K-2-t) = (i + 1) - (K-1-t) /\ (i + 1 > K-1-t <=> i - (K-2-t) >= 1)
      BY <1>2, <2>2
    <3>2. Bit(R, t) = Bit(s, t)
      BY <3>1, RegisterBits
    <3>3. Bit(s, t) = IF i - (K-2-t) >= 1 THEN p[i - (K-2-t)] ELSE 0
      BY <3>1 DEF Follows
    <3> QED BY <3>1, <3>2, <3>3
  <2> QED BY <2>1, <2>2
<1>4. Taps(R) \cap Taps(Gens[j]) = {t \in Taps(Gens[j]) : i + 1 > K-1-t /\ p[(i + 1) - (K-1-t)] = 1}
  <2>1. Taps(R) = {t \in 0..(K-1) : Bit(R, t) = 1} /\ Taps(Gens[j]) \subseteq 0..(K-1)
    BY TapsAre
  <2> HIDE DEF R
  <2> QED BY <1>3, <2>1
<1>5. Output[<<s, c>>][j] = Parity(Taps(R) \cap Taps(Gens[j]))
  BY DEF Output
<1>6. Output[<<s, p[i+1]>>][j] = Output[<<s, c>>][j]
  BY <1>1
<1>7. Output[<<s, c>>][j] = Convolved(p, i+1, j)
  <2>1. Convolved(p, i+1, j) = Parity({t \in Taps(Gens[j]) : i + 1 > K-1-t /\ p[(i + 1) - (K-1-t)] = 1})
    BY DEF Convolved
  <2> HIDE DEF R
  <2> QED BY <1>4, <1>5, <2>1
<1> QED BY <1>6, <1>7

\* So does what is sent of it.
LEMMA ConvolvedSame ==
  ASSUME NEW p, NEW q, NEW i \in Nat, \A k \in 1..i : p[k] = q[k], NEW j
  PROVE  Convolved(p, i, j) = Convolved(q, i, j)
<1>1. ASSUME NEW t \in Taps(Gens[j])
      PROVE  i > K-1-t /\ p[i - (K-1-t)] = 1 <=> i > K-1-t /\ q[i - (K-1-t)] = 1
  <2>1. t \in 0..(K-1) /\ K \in 2..9
    BY TapsAre, ConvCodeAssumption
  <2>2. i > K-1-t => i - (K-1-t) \in 1..i
    BY <2>1
  <2> QED BY <2>2
<1> QED BY <1>1 DEF Convolved

\* The symbols of the first n groups received that speak against p.
Against(p, n) ==
  {i \in 1..(N * n) : rx[i] \in Value /\ rx[i] # Convolved(p, (i - 1) \div N + 1, ((i - 1) % N) + 1)}

\* Distance, without the table of codewords.
LEMMA DistanceIs ==
  ASSUME NEW n \in 0..(MaxInfo + K - 1), NEW p \in [1..n -> Value]
  PROVE  /\ Distance(p, n) = Cardinality(Against(p, n))
         /\ IsFiniteSet(Against(p, n)) /\ Distance(p, n) \in Nat
<1>1. N \in Nat /\ n \in Nat /\ N * n \in Nat
  <2>1. N \in Nat /\ n \in Nat
    BY GroupIsPositive, ConvCodeAssumption, ViterbiLinkAssumption
  <2> QED BY <2>1
<1>2. \A i \in 1..(N * n) :
        Codewords[n][p][i] = Convolved(p, (i - 1) \div N + 1, ((i - 1) % N) + 1)
  BY DEF Codewords
<1>3. Distance(p, n) = Cardinality(Against(p, n))
  <2>1. Against(p, n) = {i \in 1..(N * n) : rx[i] \in Value /\ rx[i] # Codewords[n][p][i]}
    BY <1>2 DEF Against
  <2> QED BY <2>1 DEF Distance
<1>4. Against(p, n) \in SUBSET (1..(N * n)) /\ IsFiniteSet(1..(N * n))
  BY <1>1, FS_Interval DEF Against
<1>5. IsFiniteSet(Against(p, n))
  BY <1>4, FS_Subset
<1> QED BY <1>3, <1>5, FS_CardinalityType

\* The group of a symbol is one of those sent.
LEMMA QuotientBelow ==
  ASSUME NEW n \in Nat, n >= 1, NEW m \in Nat, NEW k \in Nat, k < n * m
  PROVE  k \div n \in Nat /\ k \div n < m
<1>1. /\ k \div n \in Int /\ k % n \in 0..(n-1)
      /\ k = n * (k \div n) + (k % n)
  OBVIOUS
<1>2. PICK a \in Int : a = k \div n
  BY <1>1
<1>3. a >= 0
  BY <1>1, <1>2
<1>4. n * a <= k
  BY <1>1, <1>2
<1>5. n * a < n * m
  BY <1>2, <1>4
<1>6. a < m
  BY <1>5
<1> QED BY <1>2, <1>3, <1>6

\* One more group adds what the branch that p takes costs.
LEMMA DistanceGrows ==
  ASSUME NEW n \in Nat, n + 1 <= MaxInfo + K - 1, NEW p \in [1..(n+1) -> Value],
         NEW q \in [1..n -> Value], \A k \in 1..n : p[k] = q[k],
         NEW s \in State, Follows(p, n, s), NEW group, \A j \in 1..N : group[j] = rx[N * n + j]
  PROVE  Distance(p, n+1) = Distance(q, n) + BranchCost(Output[<<s, p[n+1]>>], group)
<1> DEFINE A == Against(q, n)
           B == {i \in (N*n+1)..(N*(n+1)) :
                   rx[i] \in Value /\ rx[i] # Convolved(p, (i - 1) \div N + 1, ((i - 1) % N) + 1)}
           C == {j \in 1..N : group[j] \in Value /\ group[j] # Output[<<s, p[n+1]>>][j]}
<1>1. /\ N \in Nat /\ N >= 1 /\ K \in Nat /\ MaxInfo + K - 1 \in Nat
      /\ n \in 0..(MaxInfo + K - 1) /\ n + 1 \in 0..(MaxInfo + K - 1)
  BY GroupIsPositive, ConvCodeAssumption, ViterbiLinkAssumption
<1>2. PICK u \in Nat : u = N * n
  BY <1>1
<1>3. N * (n+1) = u + N
  BY <1>1, <1>2
<1>4. /\ Distance(p, n+1) = Cardinality(Against(p, n+1))
      /\ Distance(q, n) = Cardinality(A) /\ IsFiniteSet(A) /\ Cardinality(A) \in Nat
  BY <1>1, DistanceIs
<1>5. \A i \in 1..u : /\ (i - 1) \div N + 1 \in 1..n
                      /\ Convolved(p, (i - 1) \div N + 1, ((i - 1) % N) + 1)
                           = Convolved(q, (i - 1) \div N + 1, ((i - 1) % N) + 1)
  <2> SUFFICES ASSUME NEW i \in 1..u
               PROVE  /\ (i - 1) \div N + 1 \in 1..n
                      /\ Convolved(p, (i - 1) \div N + 1, ((i - 1) % N) + 1)
                           = Convolved(q, (i - 1) \div N + 1, ((i - 1) % N) + 1)
    OBVIOUS
  <2>1. (i - 1) \div N \in Nat /\ (i - 1) \div N < n
    <3>1. PICK b \in Nat : b = i - 1
      OBVIOUS
    <3>2. b < N * n
      BY <1>2, <3>1
    <3>3. b \div N \in Nat /\ b \div N < n
      BY <1>1, <3>2, QuotientBelow
    <3> QED BY <3>1, <3>3
  <2>2. PICK k \in Nat : k = (i - 1) \div N + 1 /\ k <= n /\ k >= 1
    BY <2>1
  <2>3. \A m \in 1..k : p[m] = q[m]
    BY <2>2
  <2>4. \A j : Convolved(p, k, j) = Convolved(q, k, j)
    BY <2>3, ConvolvedSame
  <2> QED BY <2>2, <2>4
<1>6. Against(p, n+1) = A \cup B
  <2>1. \A i : i \in 1..(N * (n+1)) <=> i \in 1..(N * n) \/ i \in (N*n+1)..(N*(n+1))
    BY <1>1, <1>2, <1>3
  <2>2. \A i \in 1..(N * n) : Convolved(p, (i - 1) \div N + 1, ((i - 1) % N) + 1)
                              = Convolved(q, (i - 1) \div N + 1, ((i - 1) % N) + 1)
    BY <1>2, <1>5
  <2>3. ASSUME NEW i  PROVE i \in Against(p, n+1) <=> i \in A \cup B
    BY <2>1, <2>2 DEF Against
  <2> HIDE DEF A, B
  <2> QED BY <2>3
<1>7. A \cap B = {}
  <2> SUFFICES ASSUME NEW i \in 1..(N * n), i \in (N*n+1)..(N*(n+1)) PROVE FALSE
    BY DEF Against
  <2> QED BY <1>2, <1>3
<1>8. \A j \in 1..N :
        /\ u + j \in (N*n+1)..(N*(n+1))
        /\ (u + j - 1) \div N + 1 = n + 1 /\ ((u + j - 1) % N) + 1 = j
        /\ group[j] = rx[u + j]
        /\ Output[<<s, p[n+1]>>][j] = Convolved(p, n + 1, j)
  <2> SUFFICES ASSUME NEW j \in 1..N
               PROVE  /\ u + j \in (N*n+1)..(N*(n+1))
                      /\ (u + j - 1) \div N + 1 = n + 1 /\ ((u + j - 1) % N) + 1 = j
                      /\ group[j] = rx[u + j]
                      /\ Output[<<s, p[n+1]>>][j] = Convolved(p, n + 1, j)
    OBVIOUS
  <2>1. /\ ((n + 1 - 1) * N + j - 1) \div N + 1 = n + 1
        /\ (((n + 1 - 1) * N + j - 1) % N) + 1 = j
    <3>1. PICK k \in Nat : k = n + 1
      OBVIOUS
    <3>2. k \in 1..k
      BY <3>1
    <3>3. PICK v \in Nat : v = N /\ v >= 1
      BY <1>1
    <3>4. j \in 1..v
      BY <3>3
    <3>5. /\ (k - 1) * v + j \in 1..(v * k)
          /\ ((k - 1) * v + j - 1) \div v + 1 = k
          /\ (((k - 1) * v + j - 1) % v) + 1 = j
      BY <3>2, <3>3, <3>4, PlaceIs
    <3>6. /\ ((k - 1) * N + j - 1) \div N + 1 = k
          /\ (((k - 1) * N + j - 1) % N) + 1 = j
      BY <3>3, <3>5
    <3> QED BY <3>1, <3>6
  <2>2. (n + 1 - 1) * N = u
    BY <1>1, <1>2
  <2>3. p[n+1] \in Value
    OBVIOUS
  <2>4. Output[<<s, p[n+1]>>][j] = Convolved(p, n + 1, j)
    BY <2>3, OutputIsConvolved
  <2>5. u + j \in (N*n+1)..(N*(n+1))
    BY <1>1, <1>2, <1>3
  <2> QED BY <1>2, <2>1, <2>2, <2>4, <2>5
<1> DEFINE place == [j \in C |-> u + j]
<1>9. place \in Bijection(C, B)
  <2>1. \A j \in C : j \in 1..N /\ place[j] = u + j
    OBVIOUS
  <2>2. ASSUME NEW j \in C  PROVE place[j] \in B
    <3>1. j \in 1..N /\ group[j] \in Value /\ group[j] # Output[<<s, p[n+1]>>][j]
      OBVIOUS
    <3>2. /\ u + j \in (N*n+1)..(N*(n+1)) /\ rx[u + j] \in Value
          /\ rx[u + j] # Convolved(p, (u + j - 1) \div N + 1, ((u + j - 1) % N) + 1)
      BY <1>8, <3>1
    <3>3. u + j \in B
      BY <3>2
    <3> QED BY <2>1, <3>3
  <2>3. ASSUME NEW i \in B  PROVE \E j \in C : place[j] = i
    <3>1. /\ i \in (u+1)..(u+N) /\ rx[i] \in Value
          /\ rx[i] # Convolved(p, (i - 1) \div N + 1, ((i - 1) % N) + 1)
      BY <1>2, <1>3
    <3>2. PICK j \in 1..N : i = u + j
      <4>1. i - u \in 1..N /\ i = u + (i - u)
        BY <1>1, <3>1
      <4> QED BY <4>1
    <3>3. group[j] \in Value /\ group[j] # Output[<<s, p[n+1]>>][j]
      <4>1. /\ (u + j - 1) \div N + 1 = n + 1 /\ ((u + j - 1) % N) + 1 = j
            /\ group[j] = rx[u + j]
            /\ Output[<<s, p[n+1]>>][j] = Convolved(p, n + 1, j)
        BY <1>8
      <4>2. rx[u + j] \in Value /\ rx[u + j] # Convolved(p, n + 1, j)
        BY <3>1, <3>2, <4>1
      <4> QED BY <4>1, <4>2
    <3>4. j \in C
      BY <3>3
    <3> QED BY <2>1, <3>2, <3>4
  <2>4. \A j, k \in C : place[j] = place[k] => j = k
    BY <2>1
  <2>5. place = [j \in C |-> place[j]] /\ DOMAIN place = C
    OBVIOUS
  <2> HIDE DEF place, B, C
  <2>6. place \in [C -> B]
    BY <2>2, <2>5
  <2> QED BY <2>3, <2>4, <2>6 DEF Bijection, Injection, IsInjective, Surjection
<1>10. IsFiniteSet(C)
  <2>1. IsFiniteSet(1..N)
    BY <1>1, FS_Interval
  <2>2. C \in SUBSET (1..N)
    OBVIOUS
  <2> HIDE DEF C
  <2> QED BY <2>1, <2>2, FS_Subset
<1>11. IsFiniteSet(B) /\ Cardinality(B) = Cardinality(C)
  <2> HIDE DEF B, C, place
  <2>1. ExistsBijection(C, B)
    BY <1>9 DEF ExistsBijection
  <2> QED BY <1>10, <2>1, FS_Bijection
<1>12. BranchCost(Output[<<s, p[n+1]>>], group) = Cardinality(C)
  BY DEF BranchCost
<1> HIDE DEF A, B, C
<1>13. Cardinality(A \cup B) = Cardinality(A) + Cardinality(B) - Cardinality({})
  BY <1>4, <1>7, <1>11, FS_Union
<1>14. Cardinality(B) \in Nat /\ Cardinality({}) = 0
  BY <1>11, FS_CardinalityType, FS_EmptySet
<1>15. PICK a \in Nat, b \in Nat : a = Cardinality(A) /\ b = Cardinality(B)
  BY <1>4, <1>14
<1>16. Cardinality(A \cup B) = a + b
  BY <1>13, <1>14, <1>15
<1> QED BY <1>4, <1>6, <1>11, <1>12, <1>15, <1>16

-----------------------------------------------------------------------------
\* A group and the encoder behind it.
LEMMA EmittedIs ==
  ASSUME NEW e \in EncoderState, NEW sym \in Sent
  PROVE  /\ Emitted(e, sym).group \in [1..N -> Received]
         /\ Emitted(e, sym).enc \in EncoderState
         /\ Emitted(e, sym).enc.state = NextState[<<e.state, IF sym \in Value THEN sym ELSE 0>>]
         /\ Emitted(e, sym).enc.erased = Shifted(Entering(sym, Erasure, e.erased))
         /\ Emitted(e, sym).enc.invalid = Shifted(Entering(sym, Invalid, e.invalid))
<1>1. PICK c \in Value : c = IF sym \in Value THEN sym ELSE 0
  BY DEF Value
<1>2. e.state \in State /\ e.erased \subseteq 0..(K-2) /\ e.invalid \subseteq 0..(K-2)
  BY DEF EncoderState
<1>3. K \in 2..9
  BY ConvCodeAssumption
<1>4. \A j \in 1..N : Output[<<e.state, c>>][j] \in Received
  <2> SUFFICES ASSUME NEW j \in 1..N PROVE Output[<<e.state, c>>][j] \in Received
    OBVIOUS
  <2> DEFINE T == Taps(Register(e.state, c)) \cap Taps(Gens[j])
  <2>1. Output[<<e.state, c>>][j] = Parity(T)
    BY <1>2 DEF Output
  <2>2. IsFiniteSet(T)
    BY TapsAre, FS_Intersection
  <2>3. Cardinality(T) \in Nat
    BY <2>2, FS_CardinalityType
  <2>4. Cardinality(T) % 2 \in {0, 1}
    <3> HIDE DEF T
    <3> QED BY <2>3
  <2> QED BY <2>1, <2>4 DEF Parity, Received, Value
<1>5. Emitted(e, sym).group \in [1..N -> Received]
  BY <1>1, <1>4 DEF Emitted, Received
<1>6. \A kind, old : old \subseteq 0..(K-2) => Shifted(Entering(sym, kind, old)) \in SUBSET (0..(K-2))
  <2> SUFFICES ASSUME NEW kind, NEW old, old \subseteq 0..(K-2)
               PROVE  Shifted(Entering(sym, kind, old)) \subseteq 0..(K-2)
    OBVIOUS
  <2>1. Entering(sym, kind, old) \subseteq 0..(K-1)
    BY <1>3 DEF Entering
  <2>2. \A i \in (0..(K-1)) \ {0} : i - 1 \in 0..(K-2)
    BY <1>3
  <2> QED BY <2>1, <2>2 DEF Shifted
<1>7. NextState[<<e.state, c>>] \in State
  BY <1>2, NextIsHalf
<1>8. /\ Emitted(e, sym).enc = [state |-> NextState[<<e.state, c>>],
                                erased |-> Shifted(Entering(sym, Erasure, e.erased)),
                                invalid |-> Shifted(Entering(sym, Invalid, e.invalid))]
  BY <1>1 DEF Emitted
<1>9. /\ Shifted(Entering(sym, Erasure, e.erased)) \in SUBSET (0..(K-2))
      /\ Shifted(Entering(sym, Invalid, e.invalid)) \in SUBSET (0..(K-2))
  BY <1>2, <1>6
<1> QED BY <1>1, <1>5, <1>7, <1>8, <1>9 DEF EncoderState

\* An encoder whose last k symbols were zeros.
Emptied(e, k) ==
  /\ \A b \in 0..(K-2) : b >= K-1-k => Bit(e.state, b) = 0
  /\ \A b \in e.erased \cup e.invalid : b < K-1-k

\* The groups of a sequence, one behind the other; zeros empty the register.
LEMMA EmittedAllIs ==
  ASSUME NEW e \in EncoderState, NEW syms \in Seq(Sent)
  PROVE  /\ EmittedAll(e, syms).group \in Seq(Received)
         /\ Len(EmittedAll(e, syms).group) = N * Len(syms)
         /\ EmittedAll(e, syms).enc \in EncoderState
         /\ (\A i \in 1..Len(syms) : syms[i] = 0) => Emptied(EmittedAll(e, syms).enc, Len(syms))
<1> DEFINE fresh == [group |-> <<>>, enc |-> e]
           Behind(prev, i) == LET r == Emitted(prev.enc, syms[i])
                              IN  [group |-> prev.group \o r.group, enc |-> r.enc]
           Eq(f, n) == f = [i \in 0..n |-> IF i = 0 THEN fresh ELSE Behind(f[i - 1], i)]
           Good(x, i) == /\ x.group \in Seq(Received) /\ Len(x.group) = N * i
                         /\ x.enc \in EncoderState
                         /\ (\A k \in 1..Len(syms) : syms[k] = 0) => Emptied(x.enc, i)
<1>1. PICK n \in Nat : n = Len(syms)
  OBVIOUS
<1>2. N \in Nat /\ N >= 1 /\ K \in 2..9
  BY GroupIsPositive, ConvCodeAssumption
<1>3. Good(fresh, 0)
  <2>1. Len(<<>>) = N * 0 /\ <<>> \in Seq(Received)
    BY <1>2
  <2>2. Emptied(e, 0)
    <3>1. e.erased \subseteq 0..(K-2) /\ e.invalid \subseteq 0..(K-2)
      BY DEF EncoderState
    <3> QED BY <1>2, <3>1 DEF Emptied
  <2> QED BY <2>1, <2>2
<1>4. ASSUME NEW i \in Nat, i + 1 <= n, NEW x, Good(x, i)
      PROVE  Good(Behind(x, i + 1), i + 1)
  <2>1. PICK r : r = Emitted(x.enc, syms[i + 1])
    OBVIOUS
  <2>2. syms[i + 1] \in Sent
    BY <1>1, <1>4
  <2>3. /\ r.group \in [1..N -> Received] /\ r.enc \in EncoderState
        /\ r.enc.state = NextState[<<x.enc.state, IF syms[i+1] \in Value THEN syms[i+1] ELSE 0>>]
        /\ r.enc.erased = Shifted(Entering(syms[i+1], Erasure, x.enc.erased))
        /\ r.enc.invalid = Shifted(Entering(syms[i+1], Invalid, x.enc.invalid))
    BY <1>4, <2>1, <2>2, EmittedIs
  <2>4. r.group \in Seq(Received) /\ Len(r.group) = N
    BY <1>2, <2>3
  <2>5. x.group \o r.group \in Seq(Received) /\ Len(x.group \o r.group) = N * i + N
    <3>1. PICK u \in Nat : u = N * i
      BY <1>2
    <3>2. x.group \in Seq(Received) /\ Len(x.group) = u
      BY <1>4, <3>1
    <3>3. x.group \o r.group \in Seq(Received) /\ Len(x.group \o r.group) = u + N
      <4>1. PICK a \in Seq(Received) : a = x.group
        BY <3>2
      <4>2. PICK b \in Seq(Received) : b = r.group
        BY <2>4
      <4>3. a \o b \in Seq(Received) /\ Len(a \o b) = Len(a) + Len(b)
        OBVIOUS
      <4> QED BY <2>4, <3>2, <4>1, <4>2, <4>3
    <3> QED BY <3>1, <3>3
  <2>6. N * (i + 1) = N * i + N
    BY <1>2
  <2>7. ASSUME \A k \in 1..Len(syms) : syms[k] = 0  PROVE Emptied(r.enc, i + 1)
    <3>1. syms[i+1] = 0
      BY <1>1, <1>4, <2>7
    <3>2. r.enc.state = NextState[<<x.enc.state, 0>>] /\ x.enc.state \in State
      BY <1>4, <2>3, <3>1 DEF Value, EncoderState
    <3>3. Emptied(x.enc, i)
      BY <1>4, <2>7
    <3>4. ASSUME NEW b \in 0..(K-2), b >= K-1-(i+1)  PROVE Bit(r.enc.state, b) = 0
      <4>1. Bit(r.enc.state, b) = Bit(Register(x.enc.state, 0), b + 1)
        BY <3>2, NextBits DEF Value
      <4>2. CASE b = K-2
        <5>1. b + 1 = K-1
          BY <1>2, <4>2
        <5> QED BY <3>2, <4>1, <5>1, RegisterBits DEF Value
      <4>3. CASE b # K-2
        <5>1. b + 1 \in 0..(K-2) /\ b + 1 >= K-1-i
          BY <1>2, <3>4, <4>3
        <5>2. Bit(Register(x.enc.state, 0), b + 1) = Bit(x.enc.state, b + 1)
          BY <3>2, <5>1, RegisterBits DEF Value
        <5> QED BY <3>3, <4>1, <5>1, <5>2 DEF Emptied
      <4> QED BY <4>2, <4>3
    <3>5. \A old : Shifted(Entering(0, Erasure, old)) = {b - 1 : b \in old \ {0}}
      BY DEF Shifted, Entering, Erasure
    <3>6. \A old : Shifted(Entering(0, Invalid, old)) = {b - 1 : b \in old \ {0}}
      BY DEF Shifted, Entering, Invalid
    <3>7. ASSUME NEW b \in r.enc.erased \cup r.enc.invalid  PROVE b < K-1-(i+1)
      <4>1. PICK d \in x.enc.erased \cup x.enc.invalid : b = d - 1
        BY <2>3, <3>1, <3>5, <3>6
      <4>2. d < K-1-i
        BY <3>3 DEF Emptied
      <4>3. d \in 0..(K-2)
        BY <1>4 DEF EncoderState
      <4> QED BY <1>2, <4>1, <4>2, <4>3
    <3> QED BY <3>4, <3>7 DEF Emptied
  <2>8. Behind(x, i + 1) = [group |-> x.group \o r.group, enc |-> r.enc]
    BY <2>1
  <2>9. Behind(x, i + 1).group = x.group \o r.group /\ Behind(x, i + 1).enc = r.enc
    BY <2>8
  <2> HIDE DEF Behind
  <2> QED BY <2>3, <2>5, <2>6, <2>7, <2>9
<1> HIDE DEF Behind, Good, fresh
<1>5. ASSUME NEW m \in Nat PROVE \E f : Eq(f, m)
  <2> DEFINE Some == {i \in Nat : \E f : Eq(f, i)}
  <2>1. 0 \in Some
    <3>1. Eq([t \in 0..0 |-> fresh], 0)
      OBVIOUS
    <3> QED BY <3>1
  <2>2. ASSUME NEW b \in Nat, b \in Some PROVE b + 1 \in Some
    <3>1. PICK f : Eq(f, b)
      BY <2>2
    <3> DEFINE g == [t \in 0..(b + 1) |-> IF t <= b THEN f[t] ELSE Behind(f[b], b + 1)]
    <3>2. ASSUME NEW t \in 0..(b + 1)
          PROVE  g[t] = IF t = 0 THEN fresh ELSE Behind(g[t - 1], t)
      <4>1. CASE t = 0
        <5>1. t <= b /\ t \in 0..b
          BY <4>1
        <5>2. f[t] = fresh
          BY <3>1, <4>1, <5>1
        <5> QED BY <4>1, <5>1, <5>2
      <4>2. CASE t # 0
        <5>1. t - 1 \in 0..(b + 1) /\ t - 1 <= b
          BY <4>2
        <5>2. g[t - 1] = f[t - 1]
          BY <5>1
        <5>3. CASE t <= b
          <6>1. f[t] = Behind(f[t - 1], t)
            BY <3>1, <4>2, <5>3
          <6> QED BY <4>2, <5>2, <5>3, <6>1
        <5>4. CASE ~(t <= b)
          <6>1. t = b + 1 /\ t - 1 = b
            BY <5>4
          <6> QED BY <4>2, <5>2, <5>4, <6>1
        <5> QED BY <5>3, <5>4
      <4> QED BY <4>1, <4>2
    <3>3. g = [t \in 0..(b + 1) |-> g[t]]
      OBVIOUS
    <3> HIDE DEF g
    <3>4. Eq(g, b + 1)
      BY <3>2, <3>3
    <3>5. b + 1 \in Nat
      OBVIOUS
    <3> HIDE DEF Eq
    <3> QED BY <3>4, <3>5
  <2> HIDE DEF Some
  <2>3. Nat \subseteq Some
    BY <2>1, <2>2, SetInduction
  <2> QED BY <2>3 DEF Some
<1> DEFINE upTo[i \in 0..n] == IF i = 0 THEN fresh ELSE Behind(upTo[i - 1], i)
<1>6. upTo = [i \in 0..n |-> IF i = 0 THEN fresh ELSE Behind(upTo[i - 1], i)]
  <2>1. \E f : Eq(f, n)
    BY <1>5
  <2> QED BY <2>1
<1>7. EmittedAll(e, syms) = upTo[n]
  BY <1>1 DEF EmittedAll, fresh, Behind
<1> HIDE DEF upTo
<1>8. \A i \in 0..n : upTo[i] = IF i = 0 THEN fresh ELSE Behind(upTo[i - 1], i)
  BY <1>6
<1>9. Good(upTo[n], n)
  <2> DEFINE Some == {i \in Nat : i <= n => Good(upTo[i], i)}
  <2>1. 0 \in Some
    <3>1. upTo[0] = fresh
      BY <1>8
    <3> QED BY <1>3, <3>1
  <2>2. ASSUME NEW b \in Nat, b \in Some PROVE b + 1 \in Some
    <3> SUFFICES ASSUME b + 1 <= n PROVE Good(upTo[b + 1], b + 1)
      OBVIOUS
    <3>1. b + 1 \in 0..n /\ (b + 1) - 1 = b /\ b + 1 # 0 /\ b <= n
      OBVIOUS
    <3>2. upTo[b + 1] = Behind(upTo[b], b + 1)
      BY <1>8, <3>1
    <3>3. Good(upTo[b], b)
      BY <2>2, <3>1
    <3> QED BY <1>4, <3>2, <3>3
  <2> HIDE DEF Some
  <2>3. n \in Some
    BY <2>1, <2>2, SetInduction
  <2> QED BY <2>3 DEF Some
<1> QED BY <1>1, <1>7, <1>9 DEF Good

-----------------------------------------------------------------------------
\* Two sequences, one behind the other.
LEMMA JoinedIs ==
  ASSUME NEW S, NEW a \in Seq(S), NEW b \in Seq(S)
  PROVE  /\ a \o b \in Seq(S) /\ Len(a \o b) = Len(a) + Len(b)
         /\ \A i \in 1..Len(a) : (a \o b)[i] = a[i]
         /\ \A j \in 1..Len(b) : (a \o b)[Len(a) + j] = b[j]
<1>1. a \o b \in Seq(S) /\ Len(a \o b) = Len(a) + Len(b)
  OBVIOUS
<1>2. \A i \in 1..Len(a) : (a \o b)[i] = a[i]
  OBVIOUS
<1>3. \A j \in 1..Len(b) : (a \o b)[Len(a) + j] = b[j]
  OBVIOUS
<1> QED BY <1>1, <1>2, <1>3

\* A sequence without its first n elements.
LEMMA RestIs ==
  ASSUME NEW S, NEW a \in Seq(S), NEW n \in Nat, n <= Len(a)
  PROVE  /\ SubSeq(a, n + 1, Len(a)) \in Seq(S)
         /\ Len(SubSeq(a, n + 1, Len(a))) = Len(a) - n
         /\ \A i \in 1..(Len(a) - n) : SubSeq(a, n + 1, Len(a))[i] = a[n + i]
<1>1. SubSeq(a, n + 1, Len(a)) \in Seq(S)
  OBVIOUS
<1>2. Len(SubSeq(a, n + 1, Len(a))) = Len(a) - n
  OBVIOUS
<1>3. \A i \in 1..(Len(a) - n) : SubSeq(a, n + 1, Len(a))[i] = a[n + i]
  OBVIOUS
<1> QED BY <1>1, <1>2, <1>3

\* What was encoded, what of it came through, and what of that was consumed.
SentInv ==
  /\ enc \in EncoderState
  /\ closed \in BOOLEAN /\ TailClears
  /\ rx \in Seq(Received) /\ received \in Seq(Received) /\ coded \in Seq(Received)
  /\ info \in Seq(Sent)
  /\ steps \in Nat
  /\ Len(rx) = N * steps + Len(received)
  /\ \A i \in 1..Len(received) : received[i] = rx[N * steps + i]
  /\ N * Len(info) = Len(rx) + Len(coded)
  /\ Len(info) <= MaxInfo + (IF closed THEN K-1 ELSE 0)

\* At first nothing was sent.
LEMMA SentInit == Init => SentInv
<1> SUFFICES ASSUME Init PROVE SentInv
  OBVIOUS
<1>1. enc \in EncoderState
  BY StateIs DEF Init, FreshEncoder, EncoderState
<1>2. N \in Nat /\ MaxInfo \in Nat
  BY GroupIsPositive, ViterbiLinkAssumption
<1>3. rx = <<>> /\ received = <<>> /\ coded = <<>> /\ info = <<>> /\ steps = 0 /\ closed = FALSE
  BY DEF Init, VInit
<1>4. N * 0 = 0
  BY <1>2
<1>5. Len(<<>>) = 0
  OBVIOUS
<1>6. Len(rx) = N * steps + Len(received) /\ N * Len(info) = Len(rx) + Len(coded)
  BY <1>2, <1>3, <1>4, <1>5
<1>7. Len(info) <= MaxInfo + (IF closed THEN K-1 ELSE 0) /\ \A i \in 1..Len(received) : FALSE
  BY <1>2, <1>3, <1>5
<1>8. rx \in Seq(Received) /\ received \in Seq(Received) /\ coded \in Seq(Received)
      /\ info \in Seq(Sent)
  BY <1>3
<1> QED BY <1>1, <1>3, <1>6, <1>7, <1>8 DEF SentInv, TailClears

\* A symbol that is encoded is followed by its group.
LEMMA SentEncode ==
  ASSUME SentInv, NEW sym \in Sent, Encode(sym)
  PROVE  SentInv'
<1>1. PICK r : r = Emitted(enc, sym)
  OBVIOUS
<1>2. enc' = r.enc /\ coded' = r.group /\ info' = Append(info, sym) /\ coded = <<>> /\ ~closed
      /\ Len(info) < MaxInfo
  BY <1>1 DEF Encode
<1>3. r.group \in [1..N -> Received] /\ r.enc \in EncoderState
  BY <1>1, EmittedIs DEF SentInv
<1>4. N \in Nat /\ MaxInfo \in Nat
  BY GroupIsPositive, ViterbiLinkAssumption
<1>5. coded' \in Seq(Received) /\ Len(coded') = N
  BY <1>2, <1>3, <1>4
<1>6. info' \in Seq(Sent) /\ Len(info') = Len(info) + 1 /\ Len(info) \in Nat
  BY <1>2 DEF SentInv
<1>7. N * Len(info) = Len(rx) + 0 /\ Len(rx) \in Nat
  BY <1>2 DEF SentInv
<1>8. N * (Len(info) + 1) = N * Len(info) + N
  BY <1>4, <1>6
<1>9. N * Len(info') = Len(rx) + Len(coded')
  BY <1>4, <1>5, <1>6, <1>7, <1>8
<1>10. rx' = rx /\ received' = received /\ steps' = steps /\ closed' = closed
  BY DEF Encode, vvars
<1>11. Len(info') <= MaxInfo + (IF closed' THEN K-1 ELSE 0)
  BY <1>2, <1>4, <1>6, <1>10
<1> QED BY <1>2, <1>3, <1>5, <1>6, <1>9, <1>10, <1>11 DEF SentInv, TailClears

\* The encoder's tail leaves nothing in it.
LEMMA SentFinalize ==
  ASSUME SentInv, FinalizeEncoder
  PROVE  SentInv'
<1>1. PICK r : r = EmittedAll(enc, Zeros)
  OBVIOUS
<1>2. enc' = r.enc /\ coded' = r.group /\ info' = info \o Zeros /\ coded = <<>> /\ ~closed /\ closed' = TRUE
  BY <1>1 DEF FinalizeEncoder
<1>3. N \in Nat /\ MaxInfo \in Nat /\ K \in 2..9
  BY GroupIsPositive, ViterbiLinkAssumption, ConvCodeAssumption
<1>4. Zeros \in Seq(Sent) /\ Len(Zeros) = K - 1 /\ \A i \in 1..Len(Zeros) : Zeros[i] = 0
  BY <1>3 DEF Zeros, Sent, Value
<1>5. /\ r.group \in Seq(Received) /\ Len(r.group) = N * (K - 1) /\ r.enc \in EncoderState
      /\ Emptied(r.enc, K - 1)
  BY <1>1, <1>4, EmittedAllIs DEF SentInv
<1>6. r.enc = FreshEncoder
  <2>1. K-1-(K-1) = 0
    BY <1>3
  <2>2. r.enc.state \in State /\ r.enc.erased \subseteq 0..(K-2) /\ r.enc.invalid \subseteq 0..(K-2)
    BY <1>5 DEF EncoderState
  <2>3. \A b \in 0..(K-2) : Bit(r.enc.state, b) = 0
    BY <1>5, <2>1 DEF Emptied
  <2>4. r.enc.state = 0
    BY <2>2, <2>3, SameBits, ZeroBits, StateIs
  <2>5. r.enc.erased = {} /\ r.enc.invalid = {}
    BY <1>5, <2>1, <2>2 DEF Emptied
  <2> QED BY <1>5, <2>4, <2>5 DEF FreshEncoder, EncoderState
<1>7. info' \in Seq(Sent) /\ Len(info') = Len(info) + (K - 1) /\ Len(info) \in Nat
  BY <1>2, <1>4, JoinedIs DEF SentInv
<1>8. N * Len(info) = Len(rx) + 0 /\ Len(rx) \in Nat
  BY <1>2 DEF SentInv
<1>9. N * (Len(info) + (K - 1)) = N * Len(info) + N * (K - 1)
  BY <1>3, <1>7
<1>10. PICK u \in Nat : u = N * (K - 1)
  BY <1>3
<1>11. N * Len(info') = Len(rx) + Len(coded')
  BY <1>2, <1>5, <1>7, <1>8, <1>9, <1>10
<1>12. rx' = rx /\ received' = received /\ steps' = steps
  BY DEF FinalizeEncoder, vvars
<1>13. Len(info') <= MaxInfo + (IF closed' THEN K-1 ELSE 0)
  <2>1. Len(info) <= MaxInfo
    BY <1>2, <1>3, <1>7 DEF SentInv
  <2> QED BY <1>2, <1>3, <1>7, <2>1
<1> QED BY <1>2, <1>5, <1>6, <1>7, <1>11, <1>12, <1>13 DEF SentInv, TailClears

\* What comes through goes behind what has; no group that was consumed changes.
LEMMA SentDecode ==
  ASSUME SentInv, NEW k \in 0..MaxPiece, NEW room, Decode(k, room)
  PROVE  SentInv' /\ \A i \in 1..(N * steps) : rx'[i] = rx[i]
<1>1. PICK heard \in Spoiled(k) : StartDecode(heard, room) /\ rx' = rx \o heard
  BY DEF Decode
<1>2. k \in Nat /\ N \in Nat
  BY ViterbiLinkAssumption, GroupIsPositive
<1>3. heard \in Seq(Received) /\ Len(heard) = k
  BY <1>1, <1>2 DEF Spoiled
<1>4. k <= Len(coded) /\ coded' = SubSeq(coded, k + 1, Len(coded))
  BY DEF Decode
<1>5. coded' \in Seq(Received) /\ Len(coded') = Len(coded) - k
  BY <1>2, <1>4 DEF SentInv
<1>6. received' = received \o heard /\ steps' = steps
  BY <1>1 DEF StartDecode
<1>7. /\ received' \in Seq(Received) /\ Len(received') = Len(received) + k
      /\ \A i \in 1..Len(received) : received'[i] = received[i]
      /\ \A j \in 1..k : received'[Len(received) + j] = heard[j]
  <2>1. PICK a \in Seq(Received), b \in Seq(Received) : a = received /\ b = heard
    BY <1>3 DEF SentInv
  <2>2. /\ a \o b \in Seq(Received) /\ Len(a \o b) = Len(a) + Len(b)
        /\ \A i \in 1..Len(a) : (a \o b)[i] = a[i]
        /\ \A j \in 1..Len(b) : (a \o b)[Len(a) + j] = b[j]
    BY JoinedIs
  <2>3. received' = a \o b /\ Len(b) = k
    BY <1>3, <1>6, <2>1
  <2> QED BY <2>1, <2>2, <2>3
<1>8. /\ rx' \in Seq(Received) /\ Len(rx') = Len(rx) + k
      /\ \A i \in 1..Len(rx) : rx'[i] = rx[i]
      /\ \A j \in 1..k : rx'[Len(rx) + j] = heard[j]
  <2>1. PICK a \in Seq(Received), b \in Seq(Received) : a = rx /\ b = heard
    BY <1>3 DEF SentInv
  <2>2. /\ a \o b \in Seq(Received) /\ Len(a \o b) = Len(a) + Len(b)
        /\ \A i \in 1..Len(a) : (a \o b)[i] = a[i]
        /\ \A j \in 1..Len(b) : (a \o b)[Len(a) + j] = b[j]
    BY JoinedIs
  <2>3. rx' = a \o b /\ Len(b) = k
    BY <1>1, <1>3, <2>1
  <2> QED BY <2>1, <2>2, <2>3
<1>9. PICK u \in Nat : u = N * steps
  BY <1>2 DEF SentInv
<1>10. PICK m \in Nat : m = Len(received)
  BY DEF SentInv
<1>11. Len(rx) = u + m /\ \A i \in 1..m : received[i] = rx[u + i]
  BY <1>9, <1>10 DEF SentInv
<1>12. \A i \in 1..(m + k) : received'[i] = rx'[u + i]
  <2> SUFFICES ASSUME NEW i \in 1..(m + k) PROVE received'[i] = rx'[u + i]
    OBVIOUS
  <2>1. CASE i <= m
    <3>1. u + i \in 1..(u + m) /\ i \in 1..m
      BY <2>1, <1>2
    <3> QED BY <1>7, <1>8, <1>10, <1>11, <3>1
  <2>2. CASE ~(i <= m)
    <3>1. PICK j \in 1..k : i = m + j
      <4>1. i - m \in 1..k /\ i = m + (i - m)
        BY <1>2, <2>2
      <4> QED BY <4>1
    <3>2. received'[m + j] = heard[j]
      BY <1>7, <1>10
    <3>3. rx'[(u + m) + j] = heard[j]
      BY <1>8, <1>11
    <3>4. (u + m) + j = u + (m + j)
      BY <1>2
    <3> QED BY <3>1, <3>2, <3>3, <3>4
  <2> QED BY <2>1, <2>2
<1>13. \A i \in 1..(N * steps) : rx'[i] = rx[i]
  <2>1. \A i \in 1..u : i \in 1..Len(rx)
    BY <1>11
  <2> QED BY <1>8, <1>9, <2>1
<1>14. enc' = enc /\ info' = info /\ closed' = closed
  BY DEF Decode
<1>15. PICK a \in Nat : a = Len(coded)
  BY DEF SentInv
<1>16. N * Len(info') = Len(rx') + Len(coded')
  <2>1. PICK b \in Nat : b = Len(rx)
    BY <1>11
  <2>2. N * Len(info) = b + a
    BY <1>15, <2>1 DEF SentInv
  <2>3. Len(rx') = b + k /\ Len(coded') = a - k
    BY <1>5, <1>8, <1>15, <2>1
  <2> QED BY <1>2, <1>14, <2>2, <2>3
<1>17. Len(rx') = N * steps' + Len(received')
  <2>1. Len(rx') = (u + m) + k /\ Len(received') = m + k
    BY <1>7, <1>8, <1>10, <1>11
  <2>2. N * steps' = u
    BY <1>6, <1>9
  <2> QED BY <1>2, <2>1, <2>2
<1>18. \A i \in 1..Len(received') : received'[i] = rx'[N * steps' + i]
  BY <1>6, <1>7, <1>9, <1>10, <1>12
<1> QED BY <1>5, <1>6, <1>7, <1>8, <1>13, <1>14, <1>16, <1>17, <1>18 DEF SentInv, TailClears

\* A group is the next N of the symbols that came through.
LEMMA GroupIs ==
  ASSUME SentInv, GroupWaits
  PROVE  /\ \A j \in 1..N : SubSeq(received, 1, N)[j] = rx[N * steps + j]
         /\ steps + 1 <= MaxInfo + K - 1
<1>1. N \in Nat /\ N >= 1 /\ K \in 2..9 /\ MaxInfo \in Nat /\ steps \in Nat
  BY GroupIsPositive, ConvCodeAssumption, ViterbiLinkAssumption DEF SentInv
<1>2. PICK m \in Nat : m = Len(received) /\ m >= N
  BY DEF SentInv, GroupWaits
<1>3. \A j \in 1..N : SubSeq(received, 1, N)[j] = received[j]
  BY <1>1, <1>2 DEF SentInv
<1>4. \A j \in 1..N : received[j] = rx[N * steps + j]
  BY <1>1, <1>2 DEF SentInv
<1>5. PICK a \in Nat, b \in Nat : a = Len(info) /\ b = Len(coded)
  BY DEF SentInv
<1>6. N * (steps + 1) = N * steps + N
  BY <1>1
<1>7. N * a = N * steps + m + b
  BY <1>2, <1>5 DEF SentInv
<1>8. PICK u \in Nat : u = N * steps
  BY <1>1
<1>9. N * (steps + 1) <= N * a
  BY <1>1, <1>2, <1>5, <1>6, <1>7, <1>8
<1>10. steps + 1 <= a
  BY <1>1, <1>5, <1>9
<1>11. a <= MaxInfo + K - 1
  BY <1>1, <1>5 DEF SentInv
<1> QED BY <1>1, <1>3, <1>4, <1>5, <1>10, <1>11

\* A step of the trellis consumes a group.
LEMMA SentStep ==
  ASSUME SentInv, Step, UNCHANGED lvars
  PROVE  SentInv'
<1>1. GroupWaits /\ received' = SubSeq(received, N + 1, Len(received)) /\ steps' = steps + 1
  BY DEF Step, Advance
<1>2. N \in Nat /\ N >= 1 /\ steps \in Nat
  BY GroupIsPositive DEF SentInv
<1>3. PICK m \in Nat : m = Len(received) /\ m >= N
  BY <1>1 DEF SentInv, GroupWaits
<1>4. received' \in Seq(Received) /\ Len(received') = m - N
      /\ \A i \in 1..(m - N) : received'[i] = received[N + i]
  BY <1>1, <1>2, <1>3, RestIs DEF SentInv
<1>5. N * (steps + 1) = N * steps + N
  BY <1>2
<1>6. PICK u \in Nat : u = N * steps
  BY <1>2
<1>7. \A i \in 1..m : received[i] = rx[u + i]
  BY <1>3, <1>6 DEF SentInv
<1>8. \A i \in 1..(m - N) : N + i \in 1..m /\ u + (N + i) = (u + N) + i
  BY <1>2, <1>3
<1>9. \A i \in 1..(m - N) : received'[i] = rx[(u + N) + i]
  BY <1>4, <1>7, <1>8
<1>10. Len(rx) = u + m
  BY <1>3, <1>6 DEF SentInv
<1>11. rx' = rx /\ enc' = enc /\ info' = info /\ closed' = closed /\ coded' = coded
  BY DEF lvars
<1>12. N * steps' = u + N
  BY <1>1, <1>5, <1>6
<1>13. Len(rx') = N * steps' + Len(received')
  BY <1>2, <1>3, <1>4, <1>10, <1>11, <1>12
<1>14. \A i \in 1..Len(received') : received'[i] = rx'[N * steps' + i]
  <2>1. \A i \in 1..(m - N) : received'[i] = rx'[N * steps' + i]
    BY <1>9, <1>11, <1>12
  <2> QED BY <1>4, <2>1
<1>15. steps' \in Nat /\ rx' \in Seq(Received)
  BY <1>1, <1>2, <1>11 DEF SentInv
<1> QED BY <1>4, <1>11, <1>13, <1>14, <1>15 DEF SentInv, TailClears

\* Every step keeps the account.
LEMMA SentNext ==
  ASSUME SentInv, [Next]_vars
  PROVE  SentInv'
<1>1. ASSUME UNCHANGED <<enc, closed, rx, received, coded, info, steps>>  PROVE SentInv'
  BY <1>1 DEF SentInv, TailClears
<1>2. CASE Next
  <2>1. CASE \E sym \in Sent : Encode(sym)
    BY <2>1, SentEncode
  <2>2. CASE FinalizeEncoder
    BY <2>2, SentFinalize
  <2>3. CASE \E k \in 0..MaxPiece, room \in 0..MaxRoom : Decode(k, room)
    BY <2>3, SentDecode
  <2>4. CASE \E room \in 0..MaxRoom : FinalizeDecoder(room)
    BY <1>1, <2>4 DEF FinalizeDecoder, StartFlush
  <2>5. CASE Step /\ UNCHANGED lvars
    BY <2>5, SentStep
  <2>6. CASE (RunEnds \/ DrainOne \/ DrainEnds) /\ UNCHANGED lvars
    BY <1>1, <2>6 DEF RunEnds, DrainOne, DrainEnds, Decide, lvars
  <2> QED BY <1>2, <2>1, <2>2, <2>3, <2>4, <2>5, <2>6 DEF Next, GoesOn
<1>3. CASE UNCHANGED vars
  BY <1>1, <1>3 DEF vars, vvars, lvars
<1> QED BY <1>2, <1>3

\* The encoder's tail (dt_cc_encoder_flush) empties its register and both of its
\* marks of symbols without a value, whatever was sent: no stream reaches into the next.
THEOREM ViterbiTailClears == Spec => []TailClears
<1>1. SentInv => TailClears
  BY DEF SentInv
<1>2. SentInv /\ [Next]_vars => SentInv'
  BY SentNext
<1> QED BY <1>1, <1>2, SentInit, PTL DEF Spec

-----------------------------------------------------------------------------
\* The ring has what p did in the steps that are not decided.
Kept(p) ==
  \A i \in 0..(steps-1) : i >= steps - Depth =>
    \A s, t \in State : Follows(p, i, s) /\ Follows(p, i+1, t) =>
      ring[i % Depth][t].prev = s /\ ring[i % Depth][t].bit = p[i+1]

\* Up to what is taken off all of them, a state's cost is the distance of the
\* nearest transmission that ends in it, and the ring holds one.
Weighed(off) ==
  /\ \A p \in [1..steps -> Value], s \in State :
       Follows(p, steps, s) => metric[s] # Inf /\ metric[s] + off <= Distance(p, steps)
  /\ \A s \in State : metric[s] # Inf =>
       \E p \in [1..steps -> Value] :
         Follows(p, steps, s) /\ metric[s] + off = Distance(p, steps) /\ Kept(p)

\* Layers of backpointers.
RingType == ring \in [0..(Depth-1) -> [State -> Backpointer \cup {Unwritten}]]

\* Some offset does for all states.
NearInv == RingType /\ \E off \in Nat : Weighed(off)

\* The winning edge into a state that can be reached is the cheapest way there.
LEMMA RaisedBy ==
  ASSUME CostInv, N * K < Inf, NEW group, NEW t \in State
  PROVE  /\ Raised(t, group) # Inf =>
              /\ Winner(t, group) \in EdgesInto(t)
              /\ Raised(t, group) = PathCost(Winner(t, group), group)
         /\ \A e \in EdgesInto(t) : Raised(t, group) <= PathCost(e, group) /\ Raised(t, group) # Inf
<1>1. /\ metric \in [State -> Nat] /\ steps \in Nat
      /\ \A s \in State : metric[s] # Inf <=> Entered(s, steps)
  BY DEF CostInv
<1>2. \A e \in State \X Value : BranchCost(Output[e], group) \in Nat
  BY BranchCostIs, GroupIsPositive
<1>3. EdgesInto(t) # {} =>
        /\ Winner(t, group) \in EdgesInto(t)
        /\ \A f \in EdgesInto(t) : PathCost(Winner(t, group), group) <= PathCost(f, group)
  BY <1>1, <1>2, WinnerIsCheapest
<1>4. ASSUME NEW e \in EdgesInto(t)
      PROVE  Raised(t, group) <= PathCost(e, group) /\ Raised(t, group) # Inf
  <2>1. /\ e[1] \in State /\ e[2] \in Value
        /\ NextState[<<e[1], e[2]>>] = t /\ metric[e[1]] # Inf
    BY DEF EdgesInto
  <2>2. Entered(t, steps + 1)
    <3>1. PICK p \in State, b \in Value : NextState[<<p, b>>] = t /\ metric[p] # Inf
      BY <2>1
    <3> QED BY <1>1, <3>1, EnteredNext
  <2>3. Raised(t, group) # Inf
    BY <2>2, RaisedIs
  <2> QED BY <1>3, <2>3 DEF Raised
<1> QED BY <1>3, <1>4 DEF Raised

\* Fewer than Depth steps apart, two steps have layers of their own.
LEMMA OtherLayer ==
  ASSUME NEW a \in Nat, NEW b \in Nat, NEW n \in Nat, n >= 1, a < b, b - a < n
  PROVE  a % n # b % n
<1>1. /\ a \div n \in Int /\ a % n \in 0..(n-1) /\ a = n * (a \div n) + (a % n)
      /\ b \div n \in Int /\ b % n \in 0..(n-1) /\ b = n * (b \div n) + (b % n)
  OBVIOUS
<1>2. PICK x \in Int, y \in Int : x = a \div n /\ y = b \div n
  BY <1>1
<1> SUFFICES ASSUME a % n = b % n PROVE FALSE
  OBVIOUS
<1>3. b - a = n * y - n * x
  BY <1>1, <1>2
<1>4. n * y - n * x = n * (y - x)
  BY <1>2
<1>5. PICK d \in Int : d = y - x
  BY <1>2
<1>6. n * d > 0 /\ n * d < n
  BY <1>3, <1>4, <1>5
<1>7. d >= 1 \/ d <= 0
  BY <1>5
<1>8. CASE d >= 1
  <2>1. n * d >= n * 1
    BY <1>5, <1>8
  <2> QED BY <1>6, <2>1
<1>9. CASE d <= 0
  <2>1. n * d <= 0
    BY <1>5, <1>9
  <2> QED BY <1>6, <2>1
<1> QED BY <1>7, <1>8, <1>9

\* A step of the trellis: the nearest transmissions of the states it enters.
LEMMA NearStep ==
  ASSUME CostInv, SentInv, NearInv, N * K < Inf, GroupWaits,
         Advance(SubSeq(received, 1, N)), rx' = rx
  PROVE  NearInv'
<1> DEFINE group == SubSeq(received, 1, N)
<1>1. /\ metric \in [State -> Nat] /\ steps \in Nat /\ steps' = steps + 1
      /\ \A s \in State : metric[s] # Inf <=> Entered(s, steps)
  BY DEF CostInv, Advance
<1>2. PICK off \in Nat : Weighed(off)
  BY DEF NearInv
<1>3. PICK best \in Nat :
           /\ \E z \in State : Raised(z, group) = best /\ Raised(z, group) # Inf
           /\ \A s \in State : best <= Raised(s, group)
           /\ metric' = [s \in State |-> IF Raised(s, group) = Inf THEN Inf ELSE Raised(s, group) - best]
  BY AdvancedCosts
<1>4. /\ \A j \in 1..N : group[j] = rx[N * steps + j]
      /\ steps + 1 <= MaxInfo + K - 1
  BY GroupIs
<1>5. steps \in 0..(MaxInfo + K - 1) /\ steps + 1 \in 0..(MaxInfo + K - 1) /\ N \in Nat
  BY <1>1, <1>4, GroupIsPositive, ConvCodeAssumption, ViterbiLinkAssumption
<1>6. ring' = [ring EXCEPT ![steps % Depth] = [t \in State |->
                IF EdgesInto(t) = {} THEN @[t]
                ELSE [prev |-> Winner(t, group)[1], bit |-> Winner(t, group)[2]]]]
  BY DEF Advance
<1> HIDE DEF group
<1>7. ASSUME NEW t \in State
      PROVE  /\ Raised(t, group) \in Nat
             /\ metric'[t] # Inf <=> Raised(t, group) # Inf
             /\ Raised(t, group) # Inf => metric'[t] = Raised(t, group) - best
  <2>1. Raised(t, group) \in Nat /\ (Raised(t, group) # Inf => Raised(t, group) < Inf)
    BY RaisedIs
  <2>2. metric'[t] = IF Raised(t, group) = Inf THEN Inf ELSE Raised(t, group) - best
    BY <1>3
  <2> QED BY <1>3, <2>1, <2>2 DEF Inf
<1>8. \A e : e \in State \X Value => BranchCost(Output[e], group) \in Nat
  BY BranchCostIs, GroupIsPositive
<1>9. ASSUME NEW p \in [1..(steps+1) -> Value], NEW t \in State, Follows(p, steps + 1, t)
      PROVE  /\ metric'[t] # Inf
             /\ metric'[t] + (off + best) <= Distance(p, steps + 1)
  <2>1. PICK s \in State : Follows(p, steps, s)
    BY <1>1, FollowsSome
  <2> DEFINE q == [i \in 1..steps |-> p[i]]
             b == p[steps + 1]
  <2>2. q \in [1..steps -> Value] /\ b \in Value /\ \A i \in 1..steps : p[i] = q[i]
    BY <1>1
  <2>3. Follows(q, steps, s)
    BY <1>1, <2>1, <2>2, FollowsSame
  <2> HIDE DEF q
  <2>4. metric[s] # Inf /\ metric[s] + off <= Distance(q, steps)
    BY <1>2, <2>2, <2>3 DEF Weighed
  <2>5. NextState[<<s, b>>] \in State /\ Follows(p, steps + 1, NextState[<<s, b>>])
    BY <1>1, <2>1, <2>2, FollowsNext
  <2>6. NextState[<<s, b>>] = t
    BY <1>9, <2>5, FollowsOne
  <2>7. Distance(p, steps + 1) = Distance(q, steps) + BranchCost(Output[<<s, b>>], group)
    <3>1. PICK n \in Nat : n = steps
      BY <1>1
    <3>2. /\ n + 1 <= MaxInfo + K - 1 /\ p \in [1..(n+1) -> Value] /\ q \in [1..n -> Value]
          /\ Follows(p, n, s)
      BY <1>4, <2>1, <2>2, <3>1
    <3>3. \A k \in 1..n : p[k] = q[k]
      BY <2>2, <3>1
    <3>4. \A j \in 1..N : group[j] = rx[N * n + j]
      BY <1>4, <3>1
    <3>5. Distance(p, n + 1) = Distance(q, n) + BranchCost(Output[<<s, p[n+1]>>], group)
      BY <3>2, <3>3, <3>4, DistanceGrows
    <3> QED BY <3>1, <3>5
  <2> HIDE DEF b
  <2>8. <<s, b>> \in EdgesInto(t) /\ PathCost(<<s, b>>, group) = metric[s] + BranchCost(Output[<<s, b>>], group)
    BY <2>2, <2>4, <2>6 DEF EdgesInto, PathCost
  <2>9. Raised(t, group) <= PathCost(<<s, b>>, group) /\ Raised(t, group) # Inf
    BY <2>8, RaisedBy
  <2>10. Distance(q, steps) \in Nat
    BY <1>5, <2>2, DistanceIs
  <2>11. BranchCost(Output[<<s, b>>], group) \in Nat
    BY <1>8, <2>2
  <2>12. metric[s] \in Nat
    BY <1>1
  <2> QED BY <1>7, <2>4, <2>7, <2>8, <2>9, <2>10, <2>11, <2>12
<1>10. ASSUME NEW t \in State, metric'[t] # Inf
       PROVE  \E p \in [1..(steps+1) -> Value] :
                /\ Follows(p, steps + 1, t)
                /\ metric'[t] + (off + best) = Distance(p, steps + 1)
                /\ Kept(p)'
  <2>1. Raised(t, group) # Inf
    BY <1>7, <1>10
  <2>2. /\ Winner(t, group) \in EdgesInto(t)
        /\ Raised(t, group) = PathCost(Winner(t, group), group)
    BY <2>1, RaisedBy
  <2>3. PICK s \in State, b \in Value :
          /\ Winner(t, group) = <<s, b>> /\ NextState[<<s, b>>] = t /\ metric[s] # Inf
          /\ PathCost(Winner(t, group), group) = metric[s] + BranchCost(Output[<<s, b>>], group)
    <3>1. PICK e \in State \X Value : e = Winner(t, group) /\ metric[e[1]] # Inf /\ NextState[e] = t
      BY <2>2 DEF EdgesInto
    <3>2. e[1] \in State /\ e[2] \in Value /\ e = <<e[1], e[2]>>
      BY <3>1
    <3> QED BY <3>1, <3>2 DEF PathCost
  <2>4. PICK q \in [1..steps -> Value] :
          Follows(q, steps, s) /\ metric[s] + off = Distance(q, steps) /\ Kept(q)
    BY <1>2, <2>3 DEF Weighed
  <2>5. PICK p \in [1..(steps+1) -> Value] : p[steps+1] = b /\ \A i \in 1..steps : p[i] = q[i]
    <3> DEFINE f == [i \in 1..(steps+1) |-> IF i <= steps THEN q[i] ELSE b]
    <3>1. f \in [1..(steps+1) -> Value] /\ f[steps+1] = b /\ \A i \in 1..steps : f[i] = q[i]
      BY <1>1
    <3> HIDE DEF f
    <3> QED BY <3>1
  <2>6. \A i \in 1..steps : q[i] = p[i]
    BY <2>5
  <2>7. Follows(p, steps, s)
    BY <1>1, <2>4, <2>6, FollowsSame
  <2>8. Follows(p, steps + 1, t)
    <3>1. p[steps+1] \in Value
      BY <2>5
    <3>2. Follows(p, steps + 1, NextState[<<s, p[steps+1]>>])
      BY <1>1, <2>7, <3>1, FollowsNext
    <3> QED BY <2>3, <2>5, <3>2
  <2>9. Distance(p, steps + 1) = Distance(q, steps) + BranchCost(Output[<<s, b>>], group)
    <3>1. PICK n \in Nat : n = steps
      BY <1>1
    <3>2. /\ n + 1 <= MaxInfo + K - 1 /\ p \in [1..(n+1) -> Value] /\ q \in [1..n -> Value]
          /\ Follows(p, n, s)
      BY <1>4, <2>5, <2>7, <3>1
    <3>3. \A k \in 1..n : p[k] = q[k]
      BY <2>5, <3>1
    <3>4. \A j \in 1..N : group[j] = rx[N * n + j]
      BY <1>4, <3>1
    <3>5. Distance(p, n + 1) = Distance(q, n) + BranchCost(Output[<<s, p[n+1]>>], group)
      BY <3>2, <3>3, <3>4, DistanceGrows
    <3> QED BY <2>5, <3>1, <3>5
  <2>10. metric'[t] + (off + best) = Distance(p, steps + 1)
    <3>1. metric[s] \in Nat /\ BranchCost(Output[<<s, b>>], group) \in Nat
      BY <1>1, <1>8
    <3>2. Raised(t, group) \in Nat /\ metric'[t] = Raised(t, group) - best /\ best <= Raised(t, group)
      BY <1>3, <1>7, <2>1
    <3> QED BY <2>2, <2>3, <2>4, <2>9, <3>1, <3>2
  <2>11. Kept(p)'
    <3>1. ASSUME NEW i \in 0..steps, i >= steps + 1 - Depth, NEW y \in State, NEW z \in State,
                 Follows(p, i, y), Follows(p, i+1, z)
          PROVE  ring'[i % Depth][z].prev = y /\ ring'[i % Depth][z].bit = p[i+1]
      <4>0. Depth \in Nat /\ Depth >= 1 /\ i \in Nat
        BY ViterbiAssumption
      <4>1. steps % Depth \in 0..(Depth-1) /\ i % Depth \in 0..(Depth-1)
        BY <1>1, <4>0
      <4>2. CASE i = steps
        <5>1. y = s /\ z = t
          BY <2>7, <2>8, <3>1, <4>2, FollowsOne
        <5>2. EdgesInto(t) # {}
          BY <2>2
        <5>3. ring'[steps % Depth][t] = [prev |-> Winner(t, group)[1], bit |-> Winner(t, group)[2]]
          BY <1>6, <4>1, <5>2 DEF NearInv, RingType
        <5> QED BY <2>3, <2>5, <4>2, <5>1, <5>3
      <4>3. CASE i # steps
        <5>1. i \in 0..(steps-1) /\ i < steps /\ steps - i < Depth /\ i >= steps - Depth
          BY <1>1, <3>1, <4>0, <4>3
        <5>2. i % Depth # steps % Depth
          BY <1>1, <4>0, <5>1, OtherLayer
        <5>3. ring'[i % Depth] = ring[i % Depth]
          BY <1>6, <4>1, <5>2 DEF NearInv, RingType
        <5>4. Follows(q, i, y) /\ Follows(q, i+1, z)
          <6>1. \A k \in 1..i : p[k] = q[k]
            BY <1>1, <2>5, <5>1
          <6>2. \A k \in 1..(i+1) : p[k] = q[k]
            BY <1>1, <2>5, <5>1
          <6>3. i + 1 \in Nat
            BY <4>0
          <6> QED BY <3>1, <4>0, <6>1, <6>2, <6>3, FollowsSame
        <5>5. ring[i % Depth][z].prev = y /\ ring[i % Depth][z].bit = q[i+1]
          BY <2>4, <5>1, <5>4 DEF Kept
        <5>6. q[i+1] = p[i+1]
          BY <1>1, <2>5, <5>1
        <5> QED BY <5>3, <5>5, <5>6
      <4> QED BY <4>2, <4>3
    <3>2. steps' - 1 = steps /\ steps' - Depth = steps + 1 - Depth
      BY <1>1, ViterbiAssumption
    <3>3. \A i, y : Follows(p, i, y)' = Follows(p, i, y)
      BY DEF Follows
    <3> QED BY <3>1, <3>2, <3>3 DEF Kept
  <2> QED BY <2>5, <2>8, <2>10, <2>11
<1>11. RingType'
  <2>1. Depth \in Nat /\ Depth >= 1 /\ steps % Depth \in 0..(Depth-1)
    BY <1>1, ViterbiAssumption
  <2>2. ASSUME NEW t \in State, EdgesInto(t) # {}
        PROVE  [prev |-> Winner(t, group)[1], bit |-> Winner(t, group)[2]] \in Backpointer
    <3>1. PICK e \in EdgesInto(t) : TRUE
      BY <2>2
    <3>2. Raised(t, group) # Inf
      BY <3>1, RaisedBy
    <3>3. Winner(t, group) \in State \X Value
      BY <3>2, RaisedBy DEF EdgesInto
    <3> QED BY <3>3 DEF Backpointer
  <2> DEFINE layer == [t \in State |->
                IF EdgesInto(t) = {} THEN ring[steps % Depth][t]
                ELSE [prev |-> Winner(t, group)[1], bit |-> Winner(t, group)[2]]]
  <2>3. layer \in [State -> Backpointer \cup {Unwritten}]
    BY <2>1, <2>2 DEF NearInv, RingType
  <2>4. ring' = [ring EXCEPT ![steps % Depth] = layer]
    BY <1>6
  <2> HIDE DEF layer
  <2> QED BY <2>1, <2>3, <2>4 DEF NearInv, RingType
<1>12. off + best \in Nat
  OBVIOUS
<1>13. Weighed(off + best)'
  <2>1. \A p, n : Distance(p, n)' = Distance(p, n)
    BY DEF Distance
  <2>2. \A p, i, s : Follows(p, i, s)' = Follows(p, i, s)
    BY DEF Follows
  <2> QED BY <1>1, <1>9, <1>10, <2>1, <2>2 DEF Weighed
<1> QED BY <1>11, <1>12, <1>13 DEF NearInv

\* What does not touch the trellis or the symbols it consumed changes nothing.
LEMMA NearKept ==
  ASSUME NearInv, UNCHANGED <<metric, ring, steps>>, \A i \in 1..(N * steps) : rx'[i] = rx[i]
  PROVE  NearInv'
<1>1. \A p : Distance(p, steps)' = Distance(p, steps)
  <2> SUFFICES ASSUME NEW p PROVE Distance(p, steps)' = Distance(p, steps)
    OBVIOUS
  <2>1. {i \in 1..(N * steps) : rx'[i] \in Value /\ rx'[i] # Codewords[steps][p][i]}
          = {i \in 1..(N * steps) : rx[i] \in Value /\ rx[i] # Codewords[steps][p][i]}
    OBVIOUS
  <2>2. Distance(p, steps) = Cardinality({i \in 1..(N * steps) : rx[i] \in Value /\ rx[i] # Codewords[steps][p][i]})
    BY DEF Distance
  <2>3. Distance(p, steps)' = Cardinality({i \in 1..(N * steps) : rx'[i] \in Value /\ rx'[i] # Codewords[steps][p][i]})
    BY DEF Distance
  <2> QED BY <2>1, <2>2, <2>3
<1>2. \A p, i, s : Follows(p, i, s)' = Follows(p, i, s)
  BY DEF Follows
<1>3. \A p : Kept(p)' = Kept(p)
  BY <1>2 DEF Kept
<1>4. PICK off \in Nat : Weighed(off)
  BY DEF NearInv
<1>5. Weighed(off)'
  BY <1>1, <1>2, <1>3, <1>4 DEF Weighed
<1> QED BY <1>4, <1>5 DEF NearInv, RingType

\* At first the only transmission is the empty one.
LEMMA NearInit == Init => NearInv
<1> SUFFICES ASSUME Init PROVE NearInv
  OBVIOUS
<1>1. metric = [s \in State |-> IF s = 0 THEN 0 ELSE Inf] /\ steps = 0 /\ 0 \in State
  BY StateIs DEF Init, VInit
<1>2. RingType
  BY DEF Init, VInit, RingType
<1>3. N * 0 = 0 /\ 0 \in 0..(MaxInfo + K - 1)
  BY GroupIsPositive, ConvCodeAssumption, ViterbiLinkAssumption
<1>4. \A p : Distance(p, 0) = 0
  <2> SUFFICES ASSUME NEW p PROVE Distance(p, 0) = 0
    OBVIOUS
  <2>1. {i \in 1..(N * 0) : rx[i] \in Value /\ rx[i] # Codewords[0][p][i]} = {}
    BY <1>3
  <2> QED BY <2>1, FS_EmptySet DEF Distance
<1>5. Weighed(0)
  <2>1. ASSUME NEW p \in [1..0 -> Value], NEW s \in State, Follows(p, 0, s)
        PROVE  metric[s] # Inf /\ metric[s] + 0 <= Distance(p, 0)
    <3>1. s = 0
      BY <1>1, <2>1, FollowsStart, FollowsOne
    <3>2. metric[s] = 0
      BY <1>1, <3>1
    <3>3. Distance(p, 0) = 0
      BY <1>4
    <3> QED BY <3>2, <3>3 DEF Inf
  <2>2. ASSUME NEW s \in State, metric[s] # Inf
        PROVE  \E p \in [1..0 -> Value] :
                 Follows(p, 0, s) /\ metric[s] + 0 = Distance(p, 0) /\ Kept(p)
    <3> DEFINE p == [i \in 1..0 |-> 0]
    <3>1. p \in [1..0 -> Value]
      BY DEF Value
    <3> HIDE DEF p
    <3>2. s = 0 /\ metric[s] = 0
      BY <1>1, <2>2
    <3>3. Kept(p)
      BY <1>1 DEF Kept
    <3>4. Distance(p, 0) = 0
      BY <1>4
    <3>5. Follows(p, 0, s)
      BY <3>2, FollowsStart
    <3>6. metric[s] + 0 = Distance(p, 0)
      BY <3>2, <3>4
    <3> QED BY <3>1, <3>3, <3>5, <3>6
  <2> QED BY <1>1, <2>1, <2>2 DEF Weighed
<1> QED BY <1>2, <1>5 DEF NearInv

\* The trellis takes no step that was not sent.
LEMMA StepsFit ==
  ASSUME SentInv
  PROVE  steps \in 0..(MaxInfo + K - 1)
<1>1. N \in Nat /\ N >= 1 /\ K \in 2..9 /\ MaxInfo \in Nat /\ steps \in Nat
  BY GroupIsPositive, ConvCodeAssumption, ViterbiLinkAssumption DEF SentInv
<1>2. PICK m \in Nat, a \in Nat, b \in Nat : m = Len(received) /\ a = Len(info) /\ b = Len(coded)
  BY DEF SentInv
<1>3. N * a = N * steps + m + b
  BY <1>2 DEF SentInv
<1>4. N * steps <= N * a
  BY <1>1, <1>2, <1>3
<1>5. steps <= a
  BY <1>1, <1>2, <1>4
<1>6. a <= MaxInfo + K - 1
  BY <1>1, <1>2 DEF SentInv
<1> QED BY <1>1, <1>5, <1>6

\* The cheapest state, and of those the lowest.
LEMMA FrontierIs ==
  ASSUME metric \in [State -> Nat]
  PROVE  Frontier \in State /\ \A t \in State : metric[Frontier] <= metric[t]
<1> DEFINE Ahead(s) == \A t \in State \ {s} : \/ metric[s] < metric[t]
                                              \/ metric[s] = metric[t] /\ s < t
           C == {metric[s] : s \in State}
<1>1. PICK a \in C : \A c \in C : a <= c
  <2>1. C \subseteq Nat /\ C # {}
    BY StateIs
  <2> HIDE DEF C
  <2> QED BY <2>1, LeastCost
<1> DEFINE D == {s \in State : metric[s] = a}
<1>2. PICK f \in D : \A d \in D : f <= d
  <2>1. D \subseteq Nat /\ D # {}
    BY StateIs
  <2> HIDE DEF D
  <2> QED BY <2>1, LeastCost
<1>3. f \in State /\ metric[f] = a
  OBVIOUS
<1>4. Ahead(f)
  <2> SUFFICES ASSUME NEW t \in State \ {f}
               PROVE  \/ metric[f] < metric[t]
                      \/ metric[f] = metric[t] /\ f < t
    OBVIOUS
  <2>1. a <= metric[t] /\ metric[t] \in Nat /\ a \in Nat
    BY <1>1, <1>3
  <2>2. CASE metric[t] = a
    <3>1. f <= t
      BY <1>2, <2>2
    <3>2. f \in Nat /\ t \in Nat /\ f # t
      BY <1>3, StateIs
    <3> QED BY <1>3, <2>2, <3>1, <3>2
  <2>3. CASE metric[t] # a
    BY <1>3, <2>1, <2>3
  <2> QED BY <2>2, <2>3
<1>5. Frontier \in State /\ Ahead(Frontier)
  <2>1. Frontier = CHOOSE s \in State : Ahead(s)
    BY DEF Frontier
  <2> HIDE DEF Ahead
  <2> QED BY <1>3, <1>4, <2>1
<1>6. ASSUME NEW t \in State  PROVE metric[Frontier] <= metric[t]
  <2>1. metric[t] \in Nat /\ metric[Frontier] \in Nat
    BY <1>5
  <2>2. CASE t = Frontier
    BY <2>1, <2>2
  <2>3. CASE t # Frontier
    <3>1. \/ metric[Frontier] < metric[t]
          \/ metric[Frontier] = metric[t]
      BY <1>5, <2>3
    <3> QED BY <2>1, <3>1
  <2> QED BY <2>2, <2>3
<1> QED BY <1>5, <1>6

\* Traced back over the ring, the cheapest state's survivor is a nearest
\* transmission, as far as the ring goes.
LEMMA TracedIs ==
  ASSUME CostInv, SentInv, NearInv, NEW target \in Nat, target < steps, steps - target <= Depth
  PROVE  \E p \in Nearest(steps) : p[target+1] \in Value /\ Traced(target) = p[target+1]
<1>1. /\ metric \in [State -> Nat] /\ steps \in Nat
      /\ \E z \in State : metric[z] = 0
  BY DEF CostInv
<1>2. Frontier \in State /\ \A t \in State : metric[Frontier] <= metric[t]
  BY <1>1, FrontierIs
<1>3. metric[Frontier] # Inf
  <2>1. metric[Frontier] <= 0
    BY <1>1, <1>2
  <2>2. metric[Frontier] \in Nat
    BY <1>1, <1>2
  <2> QED BY <2>1, <2>2 DEF Inf
<1>4. PICK off \in Nat : Weighed(off)
  BY DEF NearInv
<1>5. PICK p \in [1..steps -> Value] :
        Follows(p, steps, Frontier) /\ metric[Frontier] + off = Distance(p, steps) /\ Kept(p)
  BY <1>2, <1>3, <1>4 DEF Weighed
<1>6. p \in Nearest(steps)
  <2>1. ASSUME NEW q \in [1..steps -> Value]  PROVE Distance(p, steps) <= Distance(q, steps)
    <3>1. PICK s \in State : Follows(q, steps, s)
      BY <1>1, FollowsSome
    <3>2. metric[s] + off <= Distance(q, steps)
      BY <1>4, <3>1 DEF Weighed
    <3>3. metric[Frontier] <= metric[s] /\ metric[s] \in Nat /\ metric[Frontier] \in Nat
      BY <1>1, <1>2
    <3>4. Distance(q, steps) \in Nat
      BY StepsFit, DistanceIs
    <3> QED BY <1>5, <3>2, <3>3, <3>4
  <2> DEFINE dist == [q \in [1..steps -> Value] |-> Distance(q, steps)]
  <2>2. Nearest(steps) = {q \in DOMAIN dist : \A r \in DOMAIN dist : dist[q] <= dist[r]}
    BY DEF Nearest
  <2>3. DOMAIN dist = [1..steps -> Value] /\ \A q \in [1..steps -> Value] : dist[q] = Distance(q, steps)
    OBVIOUS
  <2> HIDE DEF dist
  <2> QED BY <2>1, <2>2, <2>3
<1>7. ASSUME NEW i \in target..(steps-1), NEW t \in State, Follows(p, i+1, t)
      PROVE  /\ ring[i % Depth][t].prev \in State /\ Follows(p, i, ring[i % Depth][t].prev)
             /\ ring[i % Depth][t].bit = p[i+1]
  <2>1. i \in 0..steps /\ i \in 0..(steps-1) /\ i >= steps - Depth
    BY <1>1, ViterbiAssumption
  <2>2. PICK s \in State : Follows(p, i, s)
    BY <1>1, <2>1, FollowsSome
  <2>3. ring[i % Depth][t].prev = s /\ ring[i % Depth][t].bit = p[i+1]
    BY <1>5, <1>7, <2>1, <2>2 DEF Kept
  <2> QED BY <2>2, <2>3
<1> DEFINE Eq(f) == f = [i \in (target+1)..steps |->
                          IF i = steps THEN Frontier ELSE ring[i % Depth][f[i+1]].prev]
           at == CHOOSE f : Eq(f)
<1>8. \E f : Eq(f)
  <2> DEFINE g == [i \in (target+1)..steps |-> CHOOSE s \in State : Follows(p, i, s)]
  <2>1. ASSUME NEW i \in (target+1)..steps  PROVE g[i] \in State /\ Follows(p, i, g[i])
    <3>1. \E s \in State : Follows(p, i, s)
      BY <1>1, FollowsSome
    <3>2. g[i] = CHOOSE s \in State : Follows(p, i, s)
      OBVIOUS
    <3> QED BY <3>1, <3>2
  <2>2. g = [i \in (target+1)..steps |-> g[i]]
    OBVIOUS
  <2> HIDE DEF g
  <2>3. ASSUME NEW i \in (target+1)..steps
        PROVE  g[i] = IF i = steps THEN Frontier ELSE ring[i % Depth][g[i+1]].prev
    <3>1. CASE i = steps
      BY <1>2, <1>5, <2>1, <3>1, FollowsOne
    <3>2. CASE i # steps
      <4>1. i + 1 \in (target+1)..steps /\ i \in target..(steps-1)
        BY <1>1, <3>2
      <4>2. g[i+1] \in State /\ Follows(p, i+1, g[i+1])
        BY <2>1, <4>1
      <4>3. ring[i % Depth][g[i+1]].prev \in State /\ Follows(p, i, ring[i % Depth][g[i+1]].prev)
        BY <1>7, <4>1, <4>2
      <4> QED BY <2>1, <3>2, <4>3, FollowsOne
    <3> QED BY <3>1, <3>2
  <2>4. Eq(g)
    BY <2>2, <2>3
  <2> QED BY <2>4
<1>9. Eq(at)
  <2> HIDE DEF Eq
  <2> QED BY <1>8
<1>10. Survivor(target) = at
  BY DEF Survivor
<1>11. \A i \in (target+1)..steps :
         at[i] = IF i = steps THEN Frontier ELSE ring[i % Depth][at[i+1]].prev
  BY <1>9
<1> HIDE DEF at, Eq
<1>12. at[target+1] \in State /\ Follows(p, target+1, at[target+1])
  <2> DEFINE Some == {k \in Nat : k < steps - target =>
                        at[steps - k] \in State /\ Follows(p, steps - k, at[steps - k])}
  <2>1. 0 \in Some
    <3>1. steps - 0 = steps /\ steps \in (target+1)..steps
      BY <1>1
    <3>2. at[steps] = Frontier
      BY <1>11, <3>1
    <3> QED BY <1>2, <1>5, <3>1, <3>2
  <2>2. ASSUME NEW k \in Nat, k \in Some  PROVE k + 1 \in Some
    <3> SUFFICES ASSUME k + 1 < steps - target
                 PROVE  at[steps - (k+1)] \in State /\ Follows(p, steps - (k+1), at[steps - (k+1)])
      OBVIOUS
    <3>1. PICK i \in (target+1)..(steps-1) : i = steps - (k+1) /\ i + 1 = steps - k
      <4>1. steps - (k+1) \in (target+1)..(steps-1) /\ (steps - (k+1)) + 1 = steps - k
        BY <1>1
      <4> QED BY <4>1
    <3>2. at[i+1] \in State /\ Follows(p, i+1, at[i+1])
      <4>1. k < steps - target
        BY <1>1
      <4> QED BY <2>2, <3>1, <4>1
    <3>3. at[i] = ring[i % Depth][at[i+1]].prev
      BY <1>1, <1>11
    <3>4. i \in target..(steps-1)
      BY <1>1
    <3> QED BY <1>7, <3>1, <3>2, <3>3, <3>4
  <2> HIDE DEF Some
  <2>3. Nat \subseteq Some
    BY <2>1, <2>2, SetInduction
  <2>4. steps - target - 1 \in Nat /\ steps - target - 1 < steps - target
        /\ steps - (steps - target - 1) = target + 1
    BY <1>1
  <2> QED BY <2>3, <2>4 DEF Some
<1>13. Traced(target) = ring[target % Depth][at[target+1]].bit
  BY <1>10 DEF Traced
<1>14. target \in target..(steps-1) /\ target + 1 \in 1..steps
  BY <1>1
<1>15. Traced(target) = p[target+1] /\ p[target+1] \in Value
  BY <1>7, <1>12, <1>13, <1>14
<1> QED BY <1>6, <1>15

-----------------------------------------------------------------------------
\* All four parts, and the decisions that were made.
NearestInv ==
  /\ CadenceInv /\ CostInv /\ SentInv /\ NearInv
  /\ outs \in Seq(Value) /\ Len(outs) = decided

\* What a round that decides adds to the decisions.
LEMMA DecideIs ==
  ASSUME NearestInv, Decide, decided < steps
  PROVE  /\ outs' \in Seq(Value) /\ Len(outs') = decided'
         /\ \E p \in Nearest(steps) : p[decided+1] = outs'[decided+1]
<1>1. decided \in Nat /\ steps \in Nat /\ steps - decided <= Depth
  BY CadenceHolds DEF NearestInv, RingHolds, CadenceInv, CallType
<1>2. PICK p \in Nearest(steps) : p[decided+1] \in Value /\ Traced(decided) = p[decided+1]
  BY <1>1, TracedIs DEF NearestInv
<1>3. outs' = Append(outs, p[decided+1]) /\ decided' = decided + 1
  BY <1>2 DEF Decide
<1>4. outs \in Seq(Value) /\ Len(outs) = decided
  BY DEF NearestInv
<1>5. outs' \in Seq(Value) /\ Len(outs') = decided + 1 /\ outs'[decided+1] = p[decided+1]
  BY <1>2, <1>3, <1>4
<1> QED BY <1>2, <1>3, <1>5

\* A round decides nothing, or a step that was taken.
LEMMA DecidedIsTaken ==
  ASSUME NearestInv, [Next]_vars
  PROVE  \/ UNCHANGED <<outs, decided>>
         \/ Decide /\ decided < steps
<1>1. CASE Step
  <2>1. GroupWaits /\ (UNCHANGED <<outs, decided>> \/ (MustDecide /\ Decide))
    BY <1>1 DEF Step
  <2>2. Exact /\ steps \in Nat
    BY <2>1 DEF NearestInv, CadenceInv, CallType, Draining
  <2>3. MustDecide => decided < steps
    BY <2>2, ViterbiAssumption DEF MustDecide, Exact
  <2> QED BY <2>1, <2>3
<1>2. CASE ~Step
  BY <1>2 DEF Next, GoesOn, Encode, FinalizeEncoder, Decode, StartDecode,
              FinalizeDecoder, StartFlush, RunEnds, DrainOne, DrainEnds, vars, vvars
<1> QED BY <1>1, <1>2

\* Every step keeps NearInv.
LEMMA NearNext ==
  ASSUME NearestInv, N * K < Inf, [Next]_vars
  PROVE  NearInv'
<1>0. CostInv /\ SentInv /\ NearInv
  BY DEF NearestInv
<1>1. CASE Step
  <2>1. UNCHANGED lvars
    BY <1>1 DEF Step, Next, Encode, FinalizeEncoder, Decode, StartDecode,
                FinalizeDecoder, StartFlush, vars, vvars, lvars
  <2>2. GroupWaits /\ Advance(SubSeq(received, 1, N)) /\ rx' = rx
    BY <1>1, <2>1 DEF Step, lvars
  <2> QED BY <1>0, <2>2, NearStep
<1>2. CASE \E k \in 0..MaxPiece, room \in 0..MaxRoom : Decode(k, room)
  <2>1. UNCHANGED <<metric, ring, steps>>
    BY <1>2 DEF Decode, StartDecode
  <2>2. \A i \in 1..(N * steps) : rx'[i] = rx[i]
    BY <1>0, <1>2, SentDecode
  <2> QED BY <1>0, <2>1, <2>2, NearKept
<1>3. CASE ~Step /\ ~(\E k \in 0..MaxPiece, room \in 0..MaxRoom : Decode(k, room))
  <2>1. UNCHANGED <<metric, ring, steps, rx>>
    BY <1>3 DEF Next, GoesOn, Encode, FinalizeEncoder, FinalizeDecoder, StartFlush, RunEnds,
                DrainOne, DrainEnds, Decide, vars, vvars, lvars
  <2>2. \A i \in 1..(N * steps) : rx'[i] = rx[i]
    BY <2>1
  <2> QED BY <1>0, <2>1, <2>2, NearKept
<1> QED BY <1>1, <1>2, <1>3

\* It holds at first.
LEMMA NearestInit == Init => NearestInv
<1>1. Init => outs \in Seq(Value) /\ Len(outs) = decided
  BY DEF Init, VInit
<1> QED BY <1>1, CadenceInit, CostInit, SentInit, NearInit DEF NearestInv

\* And every step keeps it.
LEMMA NearestNext ==
  ASSUME NearestInv, N * K < Inf, [Next]_vars
  PROVE  NearestInv'
<1>1. CadenceInv' /\ CostInv' /\ SentInv'
  BY CadenceNext, CostNext, SentNext DEF NearestInv
<1>2. NearInv'
  BY NearNext
<1>3. outs' \in Seq(Value) /\ Len(outs') = decided'
  BY DecidedIsTaken, DecideIs DEF NearestInv
<1> QED BY <1>1, <1>2, <1>3 DEF NearestInv

\* Each decision is that of a transmission nearest to all that was received so far, of
\* all that could have been sent: vit_step, vit_frontier and vit_trace together do maximum
\* likelihood decoding with a look-ahead, for every code, depth, stream of symbols and
\* erasures, and however the calls are cut by input and by room.
THEOREM ViterbiDecidesNearest ==
  ASSUME N * K < Inf
  PROVE  Spec => DecidesNearest
<1>1. ASSUME NearestInv, [Next]_vars
      PROVE  [decided' > decided =>
                \E p \in Nearest(steps) : p[decided + 1] = outs'[decided + 1]]_vars
  <2>1. decided \in Nat
    BY <1>1 DEF NearestInv, CadenceInv, CallType
  <2>2. ASSUME decided' > decided
        PROVE  \E p \in Nearest(steps) : p[decided + 1] = outs'[decided + 1]
    BY <1>1, <2>1, <2>2, DecidedIsTaken, DecideIs
  <2> QED BY <2>2
<1>2. NearestInv /\ [Next]_vars => NearestInv'
  BY NearestNext
<1> QED BY <1>1, <1>2, NearestInit, PTL DEF Spec, DecidesNearest

-----------------------------------------------------------------------------
\* A call never has more room than it was given.
RoomFits == left \in 0..MaxRoom

\* Room only shrinks until the next call.
LEMMA RoomNext ==
  ASSUME RoomFits, [Next]_vars
  PROVE  RoomFits'
<1>1. CASE \E k \in 0..MaxPiece, room \in 0..MaxRoom : Decode(k, room)
  BY <1>1 DEF Decode, StartDecode, RoomFits
<1>2. CASE \E room \in 0..MaxRoom : FinalizeDecoder(room)
  BY <1>2 DEF FinalizeDecoder, StartFlush, RoomFits
<1>3. CASE ~(\E k \in 0..MaxPiece, room \in 0..MaxRoom : Decode(k, room))
           /\ ~(\E room \in 0..MaxRoom : FinalizeDecoder(room))
  <2>1. left' = left \/ left' = 0 \/ (left > 0 /\ left' = left - 1)
    BY <1>3 DEF Next, GoesOn, Encode, FinalizeEncoder, Step, RunEnds, DrainOne, DrainEnds,
                Decide, vars, vvars
  <2> QED BY <2>1, ViterbiLinkAssumption DEF RoomFits
<1> QED BY <1>1, <1>2, <1>3

\* The decoder's state and the encoder's keep their types: a cheapest state costs 0,
\* every ring layer holds backpointers, every decision is a value, one per decided step.
THEOREM ViterbiTypeOK ==
  ASSUME N * K < Inf
  PROVE  Spec => []TypeOK
<1>1. NearestInv /\ RoomFits => TypeOK
  BY DEF NearestInv, CadenceInv, CallType, CostInv, SentInv, NearInv, RingType, RoomFits, TypeOK
<1>2. NearestInv /\ [Next]_vars => NearestInv'
  BY NearestNext
<1>3. Init => RoomFits
  BY ViterbiLinkAssumption DEF Init, VInit, RoomFits
<1>4. RoomFits /\ [Next]_vars => RoomFits'
  BY RoomNext
<1> QED BY <1>1, <1>2, <1>3, <1>4, NearestInit, PTL DEF Spec
=============================================================================
