----------------------------- MODULE ConvCode -----------------------------
(***************************************************************************)
(* A convolutional code of src/cc/ccode.c: a shift register of K bits,     *)
(* whose upper K - 1 survive a step as the encoder's state, and for each   *)
(* generator the parity of the register positions it taps. The encoder of  *)
(* src/cc/encoder sends one group of N symbols per input symbol. Beside    *)
(* the state it keeps which register positions hold a symbol that has no   *)
(* value, for either kind of those; a coded position that taps such a      *)
(* place carries no value itself.                                          *)
(***************************************************************************)
EXTENDS Integers, Sequences, FiniteSets

CONSTANTS K,      \* constraint length
          Gens    \* the generators, a sequence of masks of K bits

N == Len(Gens)    \* coded bits per input bit

ASSUME ConvCodeAssumption ==
  K \in 2..9 /\ Gens \in Seq(0..(2^K - 1)) /\ N >= 1

\* dt_bit: two values, and two marks that carry none.
Value   == {0, 1}
Erasure == 2
Invalid == 3
State == 0..(2^(K-1) - 1)

Taps(x) == {i \in 0..(K-1) : (x \div 2^i) % 2 = 1}

Parity(set) == Cardinality(set) % 2

\* The register when `bit` is shifted in above state s.
Register(s, bit) == bit * 2^(K-1) + s

\* The tables of dt_cc_code_create, as functions of state and bit.
Output == [e \in State \X Value |->
             [j \in 1..N |-> Parity(Taps(Register(e[1], e[2])) \cap Taps(Gens[j]))]]

NextState == [e \in State \X Value |-> (e[1] \div 2 + e[2] * 2^(K-2)) % 2^(K-1)]

\* The generators of DT_CC_CODE_K3_RATE_1_2.
K3Rate12 == <<5, 7>>

-----------------------------------------------------------------------------
(* The encoder.                                                            *)
Sent  == Value \cup {Erasure, Invalid}   \* dt_bit in the transmit domain

\* The two halves of `unknown` are sets of register positions.
EncoderState == [state : State, erased : SUBSET (0..(K-2)), invalid : SUBSET (0..(K-2))]

FreshEncoder == [state |-> 0, erased |-> {}, invalid |-> {}]

\* Registers of unknown positions: the new symbol enters at the top.
Entering(sym, kind, carried) == carried \cup (IF sym = kind THEN {K-1} ELSE {})

Shifted(reg) == {i - 1 : i \in reg \ {0}}

\* emit_group: the group of sym, and the encoder after it.
Emitted(enc, sym) ==
  LET edge == <<enc.state, IF sym \in Value THEN sym ELSE 0>>
      era  == Entering(sym, Erasure, enc.erased)
      inv  == Entering(sym, Invalid, enc.invalid)
  IN  [group |-> [j \in 1..N |-> IF Taps(Gens[j]) \cap inv # {} THEN Invalid
                                 ELSE IF Taps(Gens[j]) \cap era # {} THEN Erasure
                                 ELSE Output[edge][j]],
       enc   |-> [state |-> NextState[edge], erased |-> Shifted(era), invalid |-> Shifted(inv)]]

\* dt_cc_encoder_encode: the groups of syms, one behind the other.
EmittedAll(enc, syms) ==
  LET upTo[i \in 0..Len(syms)] ==
        IF i = 0 THEN [group |-> <<>>, enc |-> enc]
        ELSE LET r == Emitted(upTo[i-1].enc, syms[i])
             IN  [group |-> upTo[i-1].group \o r.group, enc |-> r.enc]
  IN  upTo[Len(syms)]

\* What dt_cc_encoder_flush shifts in.
Zeros == [i \in 1..(K-1) |-> 0]
=============================================================================
