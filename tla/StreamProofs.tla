---------------------------- MODULE StreamProofs ----------------------------
(***************************************************************************)
(* That the decoder pipe holds back no more than its decoder must, and     *)
(* nothing at all behind finalize(), for every code rate, decision depth,  *)
(* length of stream and room of a call - unless memory runs out between    *)
(* two decode() calls of one tick.  All of it is about how many groups are *)
(* held, so what is proved first is how many remain when some are decided. *)
(***************************************************************************)
EXTENDS StreamLink, TLAPS

DecoderType ==
  /\ din \in Seq(Symbol) /\ held \in Seq(Symbol)
  /\ dpc \in {"idle", "tick", "drain", "edge"} /\ fed \in BOOLEAN /\ over \in BOOLEAN

EncoderType == ein \in Seq(Info) /\ eout \in Seq(Symbol) /\ sent \in Nat

LagInv ==
  /\ EncoderType /\ DecoderType
  /\ ~fed => Groups(held) <= Depth
  /\ fed => dpc \in {"tick", "drain"}
  /\ dpc = "edge" => din = <<>>
  /\ over => dpc = "idle" /\ din = <<>> /\ Groups(held) = 0

-----------------------------------------------------------------------------
\* Division by the group length, as far as counting groups asks.
LEMMA Division ==
  ASSUME NEW n \in Nat \ {0}, NEW k \in Nat
  PROVE  /\ k \div n \in Nat
         /\ k % n \in 0..(n-1)
         /\ k = n * (k \div n) + (k % n)
<1>1. k \div n \in Int /\ k % n \in 0..(n-1) /\ k = n * (k \div n) + (k % n)
  OBVIOUS
<1>2. k \div n >= 0
  BY <1>1
<1> QED  BY <1>1, <1>2

\* A quotient and a remainder determine each other.
LEMMA Quotient ==
  ASSUME NEW n \in Nat \ {0}, NEW q \in Nat, NEW r \in 0..(n-1)
  PROVE  (n * q + r) \div n = q
  OBVIOUS

\* The end of a sequence.
LEMMA Suffix ==
  ASSUME NEW syms \in Seq(Symbol), NEW m \in Nat, m <= Len(syms)
  PROVE  /\ SubSeq(syms, m + 1, Len(syms)) \in Seq(Symbol)
         /\ Len(SubSeq(syms, m + 1, Len(syms))) = Len(syms) - m
  OBVIOUS

\* Deciding w groups leaves w groups less.
LEMMA GroupsBehind ==
  ASSUME NEW syms \in Seq(Symbol), NEW w \in Nat, w <= Groups(syms)
  PROVE  /\ Behind(syms, w) \in Seq(Symbol)
         /\ Groups(Behind(syms, w)) = Groups(syms) - w
<1> DEFINE k == Len(syms)
           q == k \div N
           r == k % N
<1>1. N \in Nat \ {0} /\ k \in Nat
  BY StreamFormatAssumption
<1>2. q \in Nat /\ r \in 0..(N-1) /\ k = N * q + r
  BY <1>1, Division
<1>3. w <= q
  BY DEF Groups
<1>4. N * w \in Nat /\ N * w <= k
  <2> HIDE DEF k, q, r
  <2> QED  BY <1>1, <1>2, <1>3
<1>5. Behind(syms, w) \in Seq(Symbol) /\ Len(Behind(syms, w)) = k - N * w
  <2>1. PICK m \in Nat : m = N * w
    BY <1>4
  <2>2. m <= k /\ Behind(syms, w) = SubSeq(syms, m + 1, Len(syms))
    BY <1>4, <2>1 DEF Behind
  <2>3. Behind(syms, w) \in Seq(Symbol) /\ Len(Behind(syms, w)) = k - m
    BY <2>2, Suffix
  <2> QED  BY <2>1, <2>3
<1>6. k - N * w = N * (q - w) + r /\ q - w \in Nat
  <2> HIDE DEF k, q, r
  <2> QED  BY <1>1, <1>2, <1>3
<1>7. (N * (q - w) + r) \div N = q - w
  <2> HIDE DEF k, q, r
  <2> QED  BY <1>1, <1>2, <1>6, Quotient
<1> QED  BY <1>5, <1>6, <1>7 DEF Groups

LEMMA GroupsNat ==
  ASSUME NEW syms \in Seq(Symbol)
  PROVE  Groups(syms) \in Nat
<1>1. N \in Nat \ {0} /\ Len(syms) \in Nat
  BY StreamFormatAssumption
<1> QED  BY <1>1, Division DEF Groups

LEMMA EmptyIsSeq == <<>> \in Seq(Symbol) /\ <<>> \in Seq(Info)
  OBVIOUS

LEMMA Joined ==
  ASSUME NEW s \in Seq(Symbol), NEW t \in Seq(Symbol)
  PROVE  s \o t \in Seq(Symbol)
  OBVIOUS

LEMMA GroupsEmpty == Groups(<<>>) = 0
  BY StreamFormatAssumption, Quotient DEF Groups

\* What the encoder writes are symbols of the code.
LEMMA CodedType ==
  ASSUME NEW s \in Seq(Info)
  PROVE  Coded(s) \in Seq(Symbol)
<1> DEFINE m == N * Len(s)
<1>1. N \in Nat \ {0} /\ Len(s) \in Nat
  BY StreamFormatAssumption
<1>2. m \in Nat
  BY <1>1
<1>3. ASSUME NEW i \in 1..m
      PROVE  <<s[((i - 1) \div N) + 1], ((i - 1) % N) + 1>> \in Symbol
  <2>1. i - 1 \in Nat
    BY <1>2
  <2>2. PICK q \in Nat, r \in 0..(N-1) : /\ q = (i - 1) \div N /\ r = (i - 1) % N
                                         /\ i - 1 = N * q + r
    BY <1>1, <2>1, Division
  <2>3. N * q < N * Len(s)
    BY <1>1, <2>2
  <2>4. q < Len(s)
    BY <1>1, <2>3
  <2>5. s[q + 1] \in Info
    BY <1>1, <2>4
  <2>6. r + 1 \in 1..N
    BY <1>1, <2>2
  <2> QED  BY <2>2, <2>5, <2>6 DEF Symbol
<1>4. PICK l \in Nat : l = m
  BY <1>2
<1>5. Coded(s) = [i \in 1..l |-> <<s[((i - 1) \div N) + 1], ((i - 1) % N) + 1>>]
  BY <1>4 DEF Coded
<1>6. Coded(s) \in [1..l -> Symbol]
  BY <1>3, <1>4, <1>5
<1> QED  BY <1>6

-----------------------------------------------------------------------------
\* A decode() call decides as many groups as it may, and if that leaves room
\* unused, no more than Depth groups are left.
LEMMA DecidesType ==
  ASSUME NEW syms \in Seq(Symbol), NEW cap \in Nat
  PROVE  /\ Decides(syms, cap) \in Nat
         /\ Decides(syms, cap) <= Groups(syms)
         /\ Decides(syms, cap) < cap => Groups(syms) - Decides(syms, cap) <= Depth
  BY GroupsNat, DecoderPipeAssumption DEF Decides, AtMost

LEMMA LagInit == Init => LagInv
<1> SUFFICES ASSUME Init  PROVE LagInv
  OBVIOUS
<1>1. /\ ein = <<>> /\ eout = <<>> /\ sent = 0 /\ din = <<>> /\ held = <<>>
      /\ dpc = "idle" /\ fed = FALSE /\ over = FALSE
  BY DEF Init, EInit, DInit
<1>2. Groups(held) = 0
  BY <1>1, GroupsEmpty
<1>3. EncoderType /\ DecoderType
  BY <1>1, EmptyIsSeq DEF EncoderType, DecoderType
<1> QED  BY <1>1, <1>2, <1>3, DecoderPipeAssumption DEF LagInv

LEMMA DecodeKeepsLag ==
  ASSUME LagInv, NEW cap \in DecRoom..(DecRoom + DecSlack), DecodeCall(cap), UNCHANGED <<evars, sent>>
  PROVE  LagInv'
<1> DEFINE now == held \o (IF fed THEN <<>> ELSE din)
           w == Decides(now, cap)
<1>1. EncoderType'
  BY DEF LagInv, EncoderType, evars
<1>2. now \in Seq(Symbol)
  <2>1. held \in Seq(Symbol) /\ din \in Seq(Symbol)
    BY DEF LagInv, DecoderType
  <2>2. CASE fed
    <3>1. now = held \o <<>>
      BY <2>2
    <3> QED  BY <2>1, <3>1
  <2>3. CASE ~fed
    <3>1. now = held \o din
      BY <2>3
    <3> QED  BY <2>1, <3>1
  <2> QED  BY <2>2, <2>3
<1>3. cap \in Nat
  BY DecoderPipeAssumption
<1>4. /\ w \in Nat /\ w <= Groups(now)
      /\ w < cap => Groups(now) - w <= Depth
  BY <1>2, <1>3, DecidesType
<1>5. /\ Behind(now, w) \in Seq(Symbol)
      /\ Groups(Behind(now, w)) = Groups(now) - w
  BY <1>2, <1>4, GroupsBehind
<1>6. /\ held' = Behind(now, w) /\ over' = over
      /\ dpc \in {"tick", "drain"}
      /\ \/ ~Unfilled(w, cap) /\ fed' = TRUE /\ din' = din /\ dpc' = dpc
         \/ /\ Unfilled(w, cap) /\ din' = <<>> /\ fed' = FALSE
            /\ dpc' = IF dpc = "tick" THEN "idle" ELSE "edge"
  BY DEF DecodeCall
<1>7. ~over
  BY <1>6 DEF LagInv
<1> HIDE DEF now, w
<1>8. CASE ~Unfilled(w, cap)
  BY <1>1, <1>5, <1>6, <1>7, <1>8 DEF LagInv, DecoderType
<1>9. CASE Unfilled(w, cap)
  <2>1. Groups(held') <= Depth
    BY <1>4, <1>5, <1>6, <1>9 DEF Unfilled
  <2>2. dpc' \in {"idle", "edge"} /\ fed' = FALSE /\ din' = <<>> /\ over' = FALSE
    <3>1. over = FALSE
      BY <1>7 DEF LagInv, DecoderType
    <3> QED  BY <1>6, <1>9, <3>1
  <2>3. held' \in Seq(Symbol)
    BY <1>5, <1>6
  <2>4. DecoderType'
    BY <2>2, <2>3, EmptyIsSeq DEF DecoderType
  <2> QED  BY <1>1, <2>1, <2>2, <2>4 DEF LagInv, Groups
<1> QED  BY <1>8, <1>9

LEMMA FlushKeepsLag ==
  ASSUME LagInv, NEW cap \in DecEdgeRoom..(DecEdgeRoom + DecSlack), FlushCall(cap), UNCHANGED <<evars, sent>>
  PROVE  LagInv'
<1> DEFINE w == AtMost(cap, Groups(held))
<1>1. EncoderType'
  BY DEF LagInv, EncoderType, evars
<1>2. held \in Seq(Symbol) /\ din = <<>> /\ ~fed /\ Groups(held) <= Depth
  BY DEF FlushCall, LagInv, DecoderType
<1>3. w = Groups(held) /\ w \in Nat
  BY <1>2, GroupsNat, DecoderPipeAssumption DEF AtMost
<1>4. Behind(held, w) \in Seq(Symbol) /\ Groups(Behind(held, w)) = 0
  BY <1>2, <1>3, GroupsBehind
<1>5. held' = Behind(held, w) /\ dpc' = "idle" /\ fed' = FALSE /\ over' = TRUE /\ din' = din
  BY DEF FlushCall, DIdle
<1> HIDE DEF w
<1>6. Groups(held') = 0 /\ held' \in Seq(Symbol)
  BY <1>4, <1>5
<1>7. DecoderType'
  BY <1>2, <1>5, <1>6 DEF LagInv, DecoderType
<1> QED  BY <1>1, <1>2, <1>5, <1>6, <1>7, DecoderPipeAssumption DEF LagInv, Groups

\* Every step keeps the lag, if no tick runs out of memory half way.
LEMMA LagNext ==
  ASSUME LagInv, [Next]_vars, ~LateFailure
  PROVE  LagInv'
<1>1. CASE UNCHANGED vars
  <2>1. /\ ein' = ein /\ eout' = eout /\ sent' = sent /\ din' = din /\ held' = held
        /\ dpc' = dpc /\ fed' = fed /\ over' = over
    BY <1>1 DEF vars
  <2>2. Groups(held') = Groups(held)
    BY <2>1
  <2> QED  BY <2>1, <2>2 DEF LagInv, EncoderType, DecoderType, Groups
<1>2. CASE epc = "idle" /\ dpc = "idle" /\ Push
  <2>1. sent + 1 \in Info /\ sent' \in Nat
    BY <1>2, StreamFormatAssumption DEF Push, LagInv, EncoderType, Info
  <2> QED  BY <1>2, <2>1 DEF Push, PushInfo, dvars, LagInv, EncoderType, DecoderType, Groups
<1>3. CASE epc = "idle" /\ dpc = "idle" /\ \E k \in 1..Len(eout) : Carry(k)
  <2>1. PICK k \in 1..Len(eout) : Carry(k)
    BY <1>3
  <2>2. eout' \in Seq(Symbol) /\ SubSeq(eout, 1, k) \in Seq(Symbol)
    BY <2>1 DEF Carry, LagInv, EncoderType
  <2>3. ~over /\ din' = din \o SubSeq(eout, 1, k)
    BY <2>1 DEF Carry, PushReceived
  <2> QED  BY <1>3, <2>1, <2>2, <2>3
           DEF Carry, PushReceived, LagInv, EncoderType, DecoderType, Groups
<1>4. CASE dpc = "idle" /\ EncoderStep
  <2>1. UNCHANGED <<dvars, sent>>
    BY <1>4 DEF EncoderStep
  <2>2. ein' \in Seq(Info) /\ eout' \in Seq(Symbol)
    <3>1. CASE TickEncoder \/ FinalizeEncoder \/ EncoderNoMemory
      BY <3>1 DEF TickEncoder, FinalizeEncoder, EncoderNoMemory, LagInv, EncoderType
    <3>2. ASSUME NEW cap \in room..(room + EncSlack), EncodeCall(cap)
          PROVE  ein' \in Seq(Info) /\ eout' \in Seq(Symbol)
      <4>1. Coded(ein) \in Seq(Symbol)
        BY CodedType DEF LagInv, EncoderType
      <4>2. ein \in Seq(Info) /\ eout \in Seq(Symbol)
        BY DEF LagInv, EncoderType
      <4>3. PICK c \in Seq(Symbol) : c = Coded(ein)
        BY <4>1
      <4>4. \/ ein' = ein /\ eout' = eout
            \/ ein' = <<>> /\ eout' = eout \o c
        BY <3>2, <4>3 DEF EncodeCall
      <4>5. eout \o c \in Seq(Symbol)
        BY <4>2, Joined
      <4> QED  BY <4>2, <4>4, <4>5, EmptyIsSeq
    <3>3. ASSUME NEW cap \in room..(room + EncSlack), EncodeTail(cap)
          PROVE  ein' \in Seq(Info) /\ eout' \in Seq(Symbol)
      <4>1. [i \in 1..TailBits |-> 0] \in Seq(Info)
        BY EncoderPipeAssumption, StreamFormatAssumption DEF Info
      <4>2. Coded([i \in 1..TailBits |-> 0]) \in Seq(Symbol)
        BY <4>1, CodedType
      <4>3. ein \in Seq(Info) /\ eout \in Seq(Symbol)
        BY DEF LagInv, EncoderType
      <4>4. PICK c \in Seq(Symbol) : c = Coded([i \in 1..TailBits |-> 0])
        BY <4>2
      <4>5. /\ ein' = ein
            /\ \/ eout' = eout
               \/ eout' = eout \o c
        BY <3>3, <4>4 DEF EncodeTail
      <4>6. eout \o c \in Seq(Symbol)
        BY <4>3, Joined
      <4> QED  BY <4>3, <4>5, <4>6
    <3> QED  BY <1>4, <3>1, <3>2, <3>3 DEF EncoderStep, EncoderGoesOn
  <2> QED  BY <2>1, <2>2 DEF dvars, LagInv, EncoderType, DecoderType, Groups
<1>5. CASE epc = "idle" /\ DecoderStep
  <2>1. UNCHANGED <<evars, sent>>
    BY <1>5 DEF DecoderStep
  <2>2. EncoderType'
    BY <2>1 DEF evars, LagInv, EncoderType
  <2>3. CASE TickDecoder \/ FinalizeDecoder
    BY <2>2, <2>3 DEF TickDecoder, FinalizeDecoder, LagInv, DecoderType, Groups
  <2>4. ASSUME NEW cap \in DecRoom..(DecRoom + DecSlack), DecodeCall(cap)  PROVE LagInv'
    BY <2>1, <2>4, DecodeKeepsLag
  <2>5. ASSUME NEW cap \in DecEdgeRoom..(DecEdgeRoom + DecSlack), FlushCall(cap)  PROVE LagInv'
    BY <2>1, <2>5, FlushKeepsLag
  <2>6. CASE DecoderNoMemory
    <3>1. fed = FALSE
      BY <2>6 DEF DecoderNoMemory, LagInv, DecoderType
    <3> QED  BY <2>2, <2>6, <3>1 DEF DecoderNoMemory, DIdle, LagInv, DecoderType, Groups
  <2>7. ASSUME NEW k \in 1..Len(dout), PullRecovered(k)  PROVE LagInv'
    BY <2>2, <2>7 DEF PullRecovered, LagInv, DecoderType, Groups
  <2> QED  BY <1>5, <2>3, <2>4, <2>5, <2>6, <2>7 DEF DecoderStep, DecoderGoesOn
<1> QED  BY <1>1, <1>2, <1>3, <1>4, <1>5 DEF Next

\* The invariant both theorems rest on.
THEOREM StreamLagInv ==
  ASSUME ~LateFailure
  PROVE  Spec => []LagInv
<1>1. Init => LagInv
  BY LagInit
<1>2. LagInv /\ [Next]_vars => LagInv'
  BY LagNext
<1> QED  BY <1>1, <1>2, PTL DEF Spec

\* Between calls the decoder pipe holds back at most the look-ahead of its
\* decoder (dec_run), for all rates, depths, rooms and streams.
THEOREM StreamLagIsDepth ==
  ASSUME ~LateFailure
  PROVE  Spec => []LagIsDepth
<1>1. LagInv => LagIsDepth
  BY DEF LagInv, LagIsDepth
<1> QED  BY <1>1, StreamLagInv, PTL

\* One call of the decoder's finalize() brings out all that is in flight
\* (dec_finalize).
THEOREM StreamFinalizeDelivers ==
  ASSUME ~LateFailure
  PROVE  Spec => []FinalizeDelivers
<1>1. LagInv => FinalizeDelivers
  BY DEF LagInv, FinalizeDelivers
<1> QED  BY <1>1, StreamLagInv, PTL

-----------------------------------------------------------------------------
(* That both pipes together are a delay line.  All of it is about what the *)
(* groups of a stream say, so what is proved first is how that depends on  *)
(* where the stream is cut.                                                *)
Bit == Info \cup {Garbled}

Bits(syms) == Decided(syms, Groups(syms))

\* Where the groups of a stream are.
LEMMA GroupBounds ==
  ASSUME NEW syms \in Seq(Symbol), NEW i \in 1..Groups(syms)
  PROVE  /\ N * (i - 1) \in Nat /\ N * i \in Nat /\ N * (i - 1) + N = N * i
         /\ N * i <= Len(syms)
<1> DEFINE k == Len(syms)
           q == k \div N
           r == k % N
<1>1. N \in Nat \ {0} /\ k \in Nat
  BY StreamFormatAssumption
<1>2. q \in Nat /\ r \in 0..(N-1) /\ k = N * q + r
  BY <1>1, Division
<1>3. i \in 1..q
  BY DEF Groups
<1> HIDE DEF q, r
<1>4. N * (i - 1) \in Nat /\ N * i \in Nat /\ N * (i - 1) + N = N * i /\ N * i <= N * q
  BY <1>1, <1>2, <1>3
<1> HIDE DEF k
<1>5. N * i <= k
  <2> DEFINE a == N * i  b == N * q
  <2>1. a \in Nat /\ b \in Int /\ a <= b /\ k = b + r
    BY <1>1, <1>2, <1>4
  <2> HIDE DEF a, b
  <2>2. a <= k
    BY <1>1, <1>2, <2>1
  <2> QED  BY <2>2 DEF a
<1> QED  BY <1>4, <1>5 DEF k

\* A group is N symbols of the stream.
LEMMA GroupType ==
  ASSUME NEW syms \in Seq(Symbol), NEW i \in 1..Groups(syms)
  PROVE  /\ Group(syms, i) \in Seq(Symbol) /\ Len(Group(syms, i)) = N
         /\ \A j \in 1..N : Group(syms, i)[j] = syms[N * (i - 1) + j]
<1> DEFINE a == N * (i - 1)
           b == N * i
<1>1. a \in Nat /\ b \in Nat /\ a + N = b /\ b <= Len(syms) /\ N \in Nat
  BY GroupBounds, StreamFormatAssumption
<1>2. Group(syms, i) = SubSeq(syms, a + 1, b)
  BY DEF Group
<1> HIDE DEF a, b
<1>3. SubSeq(syms, a + 1, b) \in Seq(Symbol) /\ Len(SubSeq(syms, a + 1, b)) = N
      /\ \A j \in 1..N : SubSeq(syms, a + 1, b)[j] = syms[a + j]
  BY <1>1
<1> QED  BY <1>2, <1>3 DEF a

LEMMA BitType ==
  ASSUME NEW syms \in Seq(Symbol), NEW i \in 1..Groups(syms)
  PROVE  BitOf(Group(syms, i)) \in Bit
<1>1. Group(syms, i)[1] \in Symbol
  BY GroupType, StreamFormatAssumption
<1>2. Group(syms, i)[1][1] \in Info
  BY <1>1 DEF Symbol
<1> QED  BY <1>2 DEF BitOf, Bit

LEMMA DecidedType ==
  ASSUME NEW syms \in Seq(Symbol), NEW w \in 0..Groups(syms)
  PROVE  Decided(syms, w) \in Seq(Bit) /\ Len(Decided(syms, w)) = w
<1>1. w \in Nat /\ \A i \in 1..w : i \in 1..Groups(syms)
  BY GroupsNat
<1>2. \A i \in 1..w : BitOf(Group(syms, i)) \in Bit
  BY <1>1, BitType
<1>3. Decided(syms, w) \in [1..w -> Bit]
  BY <1>2 DEF Decided
<1> QED  BY <1>1, <1>3

\* Groups are counted and read across a join, if that is where one ends.
LEMMA GroupsJoin ==
  ASSUME NEW s \in Seq(Symbol), NEW t \in Seq(Symbol), NEW q \in Nat, Len(s) = N * q
  PROVE  Groups(s) = q /\ Groups(s \o t) = q + Groups(t)
<1> DEFINE g == Len(t) \div N
           r == Len(t) % N
           a == N * q
<1>1. N \in Nat \ {0} /\ Len(t) \in Nat
  BY StreamFormatAssumption
<1>2. g \in Nat /\ r \in 0..(N-1) /\ Len(t) = N * g + r
  BY <1>1, Division
<1>3. Len(s \o t) = a + Len(t)
  OBVIOUS
<1> HIDE DEF g, r
<1>4. a + (N * g + r) = N * (q + g) + r /\ a = N * q + 0 /\ q + g \in Nat
  BY <1>1, <1>2
<1>5. (N * (q + g) + r) \div N = q + g /\ (N * q + 0) \div N = q
  <2> DEFINE h == q + g
  <2>1. h \in Nat /\ 0 \in 0..(N-1)
    BY <1>1, <1>4
  <2> HIDE DEF h
  <2>2. (N * h + r) \div N = h
    BY <1>1, <1>2, <2>1, Quotient
  <2>3. (N * q + 0) \div N = q
    BY <1>1, <2>1, Quotient
  <2> QED  BY <2>2, <2>3 DEF h
<1>6. Groups(s \o t) = q + g
  BY <1>2, <1>3, <1>4, <1>5 DEF Groups
<1>7. Groups(s) = q
  BY <1>4, <1>5 DEF Groups
<1> QED  BY <1>6, <1>7 DEF g, Groups

\* The first groups do not depend on what follows.
LEMMA GroupFirst ==
  ASSUME NEW s \in Seq(Symbol), NEW t \in Seq(Symbol), NEW i \in 1..Groups(s)
  PROVE  Group(s \o t, i) = Group(s, i)
<1> DEFINE a == N * (i - 1)
           b == N * i
<1>1. a \in Nat /\ b \in Nat /\ b <= Len(s)
  BY GroupBounds
<1>2. Group(s, i) = SubSeq(s, a + 1, b) /\ Group(s \o t, i) = SubSeq(s \o t, a + 1, b)
  BY DEF Group
<1> HIDE DEF a, b
<1>3. SubSeq(s \o t, a + 1, b) = SubSeq(s, a + 1, b)
  BY <1>1
<1> QED  BY <1>2, <1>3

LEMMA GroupLast ==
  ASSUME NEW s \in Seq(Symbol), NEW t \in Seq(Symbol), NEW q \in Nat, Len(s) = N * q,
         NEW i \in 1..Groups(t)
  PROVE  Group(s \o t, q + i) = Group(t, i)
<1> DEFINE a == N * (i - 1)
           b == N * i
           c == N * q
<1>1. a \in Nat /\ b \in Nat /\ b <= Len(t)
  BY GroupBounds
<1>2. N * ((q + i) - 1) = c + a /\ N * (q + i) = c + b
  BY GroupsNat, StreamFormatAssumption
<1>3. Group(t, i) = SubSeq(t, a + 1, b) /\ Group(s \o t, q + i) = SubSeq(s \o t, (c + a) + 1, c + b)
  BY <1>2 DEF Group
<1>4. Len(s) = c /\ c \in Nat
  OBVIOUS
<1> HIDE DEF a, b, c
<1>5. SubSeq(s \o t, (c + a) + 1, c + b) = SubSeq(t, a + 1, b)
  BY <1>1, <1>4
<1> QED  BY <1>3, <1>5

\* Two sequences put together, and how to recognise that.
LEMMA JoinedHas ==
  ASSUME NEW S, NEW x \in Seq(S), NEW y \in Seq(S)
  PROVE  /\ x \o y \in Seq(S) /\ Len(x \o y) = Len(x) + Len(y)
         /\ \A i \in 1..Len(x) : (x \o y)[i] = x[i]
         /\ \A i \in 1..Len(y) : (x \o y)[Len(x) + i] = y[i]
  OBVIOUS

LEMMA JoinedIs ==
  ASSUME NEW S, NEW x \in Seq(S), NEW y \in Seq(S), NEW z \in Seq(S),
         Len(z) = Len(x) + Len(y),
         \A i \in 1..Len(x) : z[i] = x[i],
         \A i \in 1..Len(y) : z[Len(x) + i] = y[i]
  PROVE  z = x \o y
<1> DEFINE v == x \o y
           m == Len(x)
           n == Len(y)
<1>1. v \in Seq(S) /\ Len(v) = m + n /\ m \in Nat /\ n \in Nat
  OBVIOUS
<1>2. (\A i \in 1..m : v[i] = x[i]) /\ (\A i \in 1..n : v[m + i] = y[i])
  OBVIOUS
<1>3. Len(z) = m + n /\ (\A i \in 1..m : z[i] = x[i]) /\ (\A i \in 1..n : z[m + i] = y[i])
  OBVIOUS
<1> HIDE DEF v, m, n
<1>4. ASSUME NEW i \in 1..(m + n)  PROVE z[i] = v[i]
  <2>1. CASE i <= m
    BY <1>1, <1>2, <1>3, <2>1
  <2>2. CASE i > m
    <3>1. PICK j \in 1..n : i = m + j
      <4>1. i - m \in 1..n /\ i = m + (i - m)
        BY <1>1, <2>2
      <4> QED  BY <4>1
    <3> QED  BY <1>2, <1>3, <3>1
  <2> QED  BY <1>1, <2>1, <2>2
<1>5. z = [i \in 1..(m + n) |-> z[i]] /\ v = [i \in 1..(m + n) |-> v[i]]
  BY <1>1, <1>3
<1>6. z = v
  BY <1>4, <1>5
<1> QED  BY <1>6 DEF v

\* How sequences are put together does not matter.
LEMMA Associative ==
  ASSUME NEW S, NEW a \in Seq(S), NEW b \in Seq(S), NEW c \in Seq(S)
  PROVE  a \o (b \o c) = (a \o b) \o c
<1> DEFINE y == b \o c
           u == a \o b
           z == u \o c
           k == Len(a)
           l == Len(b)
           m == Len(c)
<1>1. k \in Nat /\ l \in Nat /\ m \in Nat
  OBVIOUS
<1>2. /\ y \in Seq(S) /\ Len(y) = l + m
      /\ \A i \in 1..l : y[i] = b[i]
      /\ \A i \in 1..m : y[l + i] = c[i]
  OBVIOUS
<1>3. /\ u \in Seq(S) /\ Len(u) = k + l
      /\ \A i \in 1..k : u[i] = a[i]
      /\ \A i \in 1..l : u[k + i] = b[i]
  OBVIOUS
<1> HIDE DEF u
<1>4. /\ z \in Seq(S) /\ Len(z) = Len(u) + m
      /\ \A i \in 1..Len(u) : z[i] = u[i]
      /\ \A i \in 1..m : z[Len(u) + i] = c[i]
  <2>1. u \in Seq(S)
    BY <1>3
  <2> QED  BY <2>1, JoinedHas
<1> HIDE DEF y, z, k, l, m
<1>5. Len(z) = k + Len(y) /\ \A i \in 1..k : z[i] = a[i]
  BY <1>1, <1>2, <1>3, <1>4
<1>6. ASSUME NEW i \in 1..Len(y)  PROVE z[k + i] = y[i]
  <2>1. CASE i <= l
    BY <1>1, <1>2, <1>3, <1>4, <2>1
  <2>2. CASE i > l
    <3>1. PICK j \in 1..m : i = l + j
      <4>1. i - l \in 1..m /\ i = l + (i - l)
        BY <1>1, <1>2, <2>2
      <4> QED  BY <4>1
    <3>2. k + i = (k + l) + j
      BY <1>1, <3>1
    <3> QED  BY <1>2, <1>3, <1>4, <3>1, <3>2
  <2> QED  BY <1>1, <1>2, <2>1, <2>2
<1>7. z = a \o y
  BY <1>2, <1>4, <1>5, <1>6, JoinedIs DEF k
<1> QED  BY <1>7 DEF u, y, z

\* What a stream says is what its parts say, if the first ends with a group.
LEMMA BitsJoin ==
  ASSUME NEW s \in Seq(Symbol), NEW t \in Seq(Symbol), NEW q \in Nat, Len(s) = N * q
  PROVE  Bits(s \o t) = Bits(s) \o Bits(t)
<1> DEFINE g == Groups(t)
           x == Bits(s)
           y == Bits(t)
           z == Bits(s \o t)
<1>1. s \o t \in Seq(Symbol) /\ Groups(s) = q /\ Groups(s \o t) = q + g /\ g \in Nat
  BY GroupsJoin, GroupsNat
<1>2. x \in Seq(Bit) /\ Len(x) = q
  BY <1>1, DecidedType DEF Bits
<1>3. y \in Seq(Bit) /\ Len(y) = g
  BY <1>1, DecidedType DEF Bits
<1>4. z \in Seq(Bit) /\ Len(z) = q + g
  <2> HIDE DEF g
  <2>1. q + g \in 0..Groups(s \o t)
    BY <1>1
  <2> QED  BY <1>1, <2>1, DecidedType DEF Bits
<1>5. ASSUME NEW i \in 1..q PROVE z[i] = x[i]
  BY <1>1, GroupFirst DEF Bits, Decided
<1>6. ASSUME NEW i \in 1..g PROVE z[q + i] = y[i]
  <2>1. Group(s \o t, q + i) = Group(t, i)
    BY GroupLast
  <2>2. q + i \in 1..(q + g)
    BY <1>1
  <2> QED  BY <1>1, <2>1, <2>2 DEF Bits, Decided
<1> HIDE DEF x, y, z, g
<1>7. z = x \o y
  BY <1>2, <1>3, <1>4, <1>5, <1>6, JoinedIs
<1> QED  BY <1>7 DEF x, y, z

\* What a stream says is what its first groups say and what lies behind them.
LEMMA BitsCut ==
  ASSUME NEW s \in Seq(Symbol), NEW w \in 0..Groups(s)
  PROVE  Bits(s) = Decided(s, w) \o Bits(Behind(s, w))
<1> DEFINE b == Behind(s, w)
           g == Groups(b)
           x == Decided(s, w)
           y == Bits(b)
           z == Bits(s)
           a == N * w
<1>1. Groups(s) \in Nat /\ w \in Nat /\ w <= Groups(s)
  BY GroupsNat
<1>2. b \in Seq(Symbol) /\ g = Groups(s) - w
  BY <1>1, GroupsBehind
<1>3. g \in Nat /\ Groups(s) = w + g
  BY <1>1, <1>2
<1>4. a \in Nat /\ a <= Len(s)
  <2>1. CASE w = 0
    BY <2>1, StreamFormatAssumption
  <2>2. CASE w > 0
    BY <1>1, <2>2, GroupBounds
  <2> QED  BY <1>1, <2>1, <2>2
<1>5. b = SubSeq(s, a + 1, Len(s))
  BY DEF Behind
<1>6. x \in Seq(Bit) /\ Len(x) = w
  BY DecidedType
<1>7. y \in Seq(Bit) /\ Len(y) = g
  <2> HIDE DEF b
  <2>1. g \in 0..g
    BY <1>3
  <2> QED  BY <1>2, <2>1, DecidedType DEF Bits
<1>8. z \in Seq(Bit) /\ Len(z) = w + g
  <2>1. Groups(s) \in 0..Groups(s)
    BY <1>1
  <2> QED  BY <1>3, <2>1, DecidedType DEF Bits
<1>9. ASSUME NEW i \in 1..w  PROVE z[i] = x[i]
  <2>1. i \in 1..Groups(s)
    BY <1>1
  <2> QED  BY <2>1 DEF Bits, Decided
<1>10. ASSUME NEW i \in 1..g  PROVE z[w + i] = y[i]
  <2> DEFINE c == N * (i - 1)
             d == N * i
  <2>1. c \in Nat /\ d \in Nat /\ d <= Len(b)
    <3> HIDE DEF b
    <3> QED  BY <1>2, GroupBounds
  <2>2. N * ((w + i) - 1) = a + c /\ N * (w + i) = a + d
    BY <1>1, <1>3, StreamFormatAssumption
  <2>3. Group(b, i) = SubSeq(b, c + 1, d)
    BY DEF Group
  <2>4. Group(s, w + i) = SubSeq(s, (a + c) + 1, a + d)
    BY <2>2 DEF Group
  <2> HIDE DEF a, c, d
  <2>5. SubSeq(SubSeq(s, a + 1, Len(s)), c + 1, d) = SubSeq(s, (a + c) + 1, a + d)
    BY <1>4, <1>5, <2>1
  <2>6. Group(b, i) = Group(s, w + i)
    BY <1>5, <2>3, <2>4, <2>5
  <2>7. w + i \in 1..Groups(s) /\ i \in 1..g
    <3> HIDE DEF g
    <3> QED  BY <1>1, <1>3
  <2> QED  BY <2>6, <2>7 DEF Bits, Decided
<1> HIDE DEF x, y, z, g
<1>11. z = x \o y
  BY <1>6, <1>7, <1>8, <1>9, <1>10, JoinedIs
<1> QED  BY <1>11 DEF x, y, z

\* What follows changes neither what is decided of a stream nor its place
\* behind what is left.
LEMMA DecidedFirst ==
  ASSUME NEW s \in Seq(Symbol), NEW t \in Seq(Symbol), NEW w \in 0..Groups(s)
  PROVE  /\ w <= Groups(s \o t)
         /\ Decided(s \o t, w) = Decided(s, w)
         /\ Behind(s \o t, w) = Behind(s, w) \o t
<1> DEFINE a == N * w
           k == Len(s)
           l == Len(t)
<1>1. w \in Nat /\ w <= Groups(s) /\ Groups(s) \in Nat /\ N \in Nat \ {0} /\ k \in Nat /\ l \in Nat
  BY GroupsNat, StreamFormatAssumption
<1>2. a \in Nat /\ a <= k
  <2>1. CASE w = 0
    BY <2>1, StreamFormatAssumption
  <2>2. CASE w > 0
    BY <1>1, <2>2, GroupBounds
  <2> QED  BY <1>1, <2>1, <2>2
<1>3. w <= Groups(s \o t)
  <2> DEFINE q == (k + l) \div N
             r == (k + l) % N
  <2>1. q \in Nat /\ r \in 0..(N-1) /\ k + l = N * q + r
    <3>1. k + l \in Nat
      BY <1>1
    <3> HIDE DEF k, l
    <3> QED  BY <1>1, <3>1, Division
  <2>2. Groups(s \o t) = q
    BY DEF Groups
  <2> HIDE DEF q, r
  <2>3. N * w <= N * q + r
    <3> HIDE DEF k, l
    <3> QED  BY <1>1, <1>2, <2>1 DEF a
  <2>4. w <= q
    <3>1. N * w < N * (q + 1)
      BY <1>1, <2>1, <2>3
    <3> QED  BY <1>1, <2>1, <3>1
  <2> QED  BY <2>2, <2>4
<1>4. Decided(s \o t, w) = Decided(s, w)
  <2>1. ASSUME NEW i \in 1..w  PROVE Group(s \o t, i) = Group(s, i)
    BY <1>1, GroupFirst
  <2> QED  BY <2>1 DEF Decided
<1>5. Behind(s \o t, w) = Behind(s, w) \o t
  <2>1. Behind(s \o t, w) = SubSeq(s \o t, a + 1, k + l) /\ Behind(s, w) = SubSeq(s, a + 1, k)
    <3>1. Len(s \o t) = k + l
      OBVIOUS
    <3> HIDE DEF k, l
    <3> QED  BY <3>1 DEF Behind, k
  <2> DEFINE x == SubSeq(s, a + 1, k)
             z == SubSeq(s \o t, a + 1, k + l)
             u == s \o t
  <2> HIDE DEF a
  <2>2. x \in Seq(Symbol) /\ Len(x) = k - a /\ \A i \in 1..(k - a) : x[i] = s[a + i]
    BY <1>2
  <2>3. u \in Seq(Symbol) /\ Len(u) = k + l
        /\ (\A i \in 1..k : u[i] = s[i]) /\ \A i \in 1..l : u[k + i] = t[i]
    OBVIOUS
  <2> HIDE DEF u
  <2>4. z \in Seq(Symbol) /\ Len(z) = (k - a) + l /\ \A i \in 1..((k - a) + l) : z[i] = u[a + i]
    BY <1>1, <1>2, <2>3, SMTT(40) DEF u
  <2> HIDE DEF x, z, k, l
  <2>5. \A i \in 1..(k - a) : z[i] = x[i]
    BY <1>1, <1>2, <2>2, <2>3, <2>4
  <2>6. ASSUME NEW i \in 1..l  PROVE z[(k - a) + i] = t[i]
    <3>1. (k - a) + i \in 1..((k - a) + l) /\ a + ((k - a) + i) = k + i
      BY <1>1, <1>2
    <3> QED  BY <2>3, <2>4, <3>1
  <2>7. Len(z) = Len(x) + Len(t) /\ (\A i \in 1..Len(x) : z[i] = x[i])
        /\ \A i \in 1..Len(t) : z[Len(x) + i] = t[i]
    BY <2>2, <2>4, <2>5, <2>6 DEF l
  <2>8. x \in Seq(Symbol) /\ z \in Seq(Symbol)
    BY <2>2, <2>4
  <2>9. z = x \o t
    BY <2>7, <2>8, JoinedIs
  <2> QED  BY <2>1, <2>9 DEF x, z
<1> QED  BY <1>3, <1>4, <1>5

\* Encoded bits say what they were.
LEMMA CodedOne ==
  ASSUME NEW b
  PROVE  Coded(<<b>>) = [j \in 1..N |-> <<b, j>>]
<1>1. N \in Nat \ {0} /\ N * Len(<<b>>) = N
  BY StreamFormatAssumption
<1>2. ASSUME NEW j \in 1..N
      PROVE  (j - 1) \div N = 0 /\ (j - 1) % N = j - 1
  <2>1. j - 1 \in 0..(N-1) /\ 0 \in Nat /\ N * 0 + (j - 1) = j - 1 /\ j - 1 \in Nat
    BY <1>1
  <2> DEFINE r == j - 1
  <2> HIDE DEF r
  <2>2. (N * 0 + r) \div N = 0
    BY <1>1, <2>1, Quotient DEF r
  <2>3. r \div N = 0
    BY <2>1, <2>2 DEF r
  <2>4. r = N * (r \div N) + (r % N) /\ r % N \in 0..(N-1)
    BY <1>1, <2>1, Division DEF r
  <2>5. r % N = r
    BY <1>1, <2>1, <2>3, <2>4
  <2> QED  BY <2>3, <2>5 DEF r
<1>3. ASSUME NEW j \in 1..N
      PROVE  <<b>>[((j - 1) \div N) + 1] = b /\ ((j - 1) % N) + 1 = j
  BY <1>1, <1>2
<1> QED  BY <1>1, <1>3 DEF Coded

LEMMA CodedSays ==
  ASSUME NEW b \in Seq(Info)
  PROVE  /\ Coded(b) \in Seq(Symbol) /\ Len(Coded(b)) = N * Len(b)
         /\ Groups(Coded(b)) = Len(b) /\ Bits(Coded(b)) = b
<1> DEFINE c == Coded(b)
           n == Len(b)
           m == N * n
<1>1. N \in Nat \ {0} /\ n \in Nat /\ m \in Nat
  BY StreamFormatAssumption
<1>2. c \in Seq(Symbol)
  BY CodedType
<1>3. c = [i \in 1..m |-> <<b[((i - 1) \div N) + 1], ((i - 1) % N) + 1>>]
  BY DEF Coded
<1>4. Len(c) = m
  <2> HIDE DEF c
  <2>1. DOMAIN c = 1..m
    BY <1>3
  <2> HIDE DEF m
  <2> QED  BY <1>1, <1>2, <2>1
<1>5. Groups(c) = n
  <2> HIDE DEF c, n
  <2>1. 0 \in 0..(N-1) /\ N * n + 0 = N * n
    BY <1>1
  <2>2. (N * n + 0) \div N = n
    BY <1>1, <2>1, Quotient
  <2> QED  BY <1>4, <2>1, <2>2 DEF Groups
<1>6. ASSUME NEW i \in 1..n  PROVE BitOf(Group(c, i)) = b[i]
  <2> DEFINE g == Group(c, i)
             one == Coded(<<b[i]>>)
  <2>1. /\ g \in Seq(Symbol) /\ Len(g) = N
        /\ \A j \in 1..N : g[j] = c[N * (i - 1) + j]
    <3> HIDE DEF c, n
    <3> QED  BY <1>2, <1>5, GroupType
  <2>2. ASSUME NEW j \in 1..N  PROVE g[j] = <<b[i], j>>
    <3> DEFINE h == i - 1
               r == j - 1
               p == N * (i - 1) + j
    <3>1. h \in Nat /\ r \in 0..(N-1) /\ p - 1 = N * h + r /\ h + 1 = i /\ r + 1 = j /\ r \in Nat
      BY <1>1
    <3>2. p \in 1..m
      <4>1. N * (i - 1) + N <= N * n /\ N * (i - 1) >= 0
        <5>1. N * (i - 1) + N = N * i
          BY <1>1
        <5>2. N * i <= N * n
          BY <1>1
        <5> QED  BY <1>1, <5>1, <5>2
      <4> QED  BY <1>1, <4>1
    <3>3. c[p] = <<b[((p - 1) \div N) + 1], ((p - 1) % N) + 1>>
      BY <1>3, <3>2
    <3> HIDE DEF h, r
    <3>4. (N * h + r) \div N = h
      BY <1>1, <3>1, Quotient
    <3>5. (N * h + r) % N = r
      <4> DEFINE k == N * h + r
      <4>1. k \in Nat
        BY <1>1, <3>1
      <4>2. k = N * (k \div N) + (k % N) /\ k % N \in 0..(N-1)
        <5> HIDE DEF k
        <5> QED  BY <1>1, <4>1, Division
      <4>3. N * h \in Nat
        BY <1>1, <3>1
      <4>4. N * h + r = N * h + (k % N)
        BY <3>4, <4>2
      <4> HIDE DEF k
      <4>5. k % N = r
        BY <1>1, <3>1, <4>2, <4>3, <4>4
      <4> QED  BY <4>5 DEF k
    <3> HIDE DEF p
    <3>6. c[p] = <<b[i], j>>
      BY <3>1, <3>3, <3>4, <3>5
    <3> QED  BY <2>1, <3>6 DEF p
  <2>3. one = [j \in 1..N |-> <<b[i], j>>]
    BY CodedOne
  <2>4. g = [j \in 1..N |-> g[j]]
    <3> HIDE DEF g
    <3> QED  BY <1>1, <2>1
  <2>5. g = one
    <3> HIDE DEF g, one
    <3> QED  BY <2>2, <2>3, <2>4
  <2>6. g[1][1] = b[i]
    <3> HIDE DEF g
    <3> QED  BY <1>1, <2>2
  <2> HIDE DEF g
  <2> QED  BY <2>5, <2>6 DEF BitOf, g
<1>7. Bits(c) = [i \in 1..n |-> b[i]]
  <2>1. Bits(c) = [i \in 1..n |-> BitOf(Group(c, i))]
    BY <1>5 DEF Bits, Decided
  <2> HIDE DEF c, n
  <2> QED  BY <1>6, <2>1
<1>8. b = [i \in 1..n |-> b[i]]
  OBVIOUS
<1> QED  BY <1>2, <1>4, <1>5, <1>7, <1>8

-----------------------------------------------------------------------------
\* Only whole groups are in flight, and the tail is written behind the input.
LineInv ==
  /\ LagInv
  /\ Len(InFlight) = N * Groups(InFlight)
  /\ epc = "edge" => ein = <<>>

Whole(syms) == Len(syms) = N * Groups(syms)

LEMMA InFlightType ==
  ASSUME LagInv
  PROVE  /\ InFlight \in Seq(Symbol) /\ Bits(InFlight) \in Seq(Bit)
         /\ Pending = Bits(InFlight) \o ein /\ Pending \in Seq(Bit)
<1>1. held \in Seq(Symbol) /\ din \in Seq(Symbol) /\ eout \in Seq(Symbol) /\ ein \in Seq(Info)
  BY DEF LagInv, EncoderType, DecoderType
<1> DEFINE d == IF fed THEN <<>> ELSE din
<1>2. d \in Seq(Symbol)
  BY <1>1, EmptyIsSeq
<1> HIDE DEF d
<1>3. (held \o d) \o eout \in Seq(Symbol)
  BY <1>1, <1>2
<1>4. InFlight \in Seq(Symbol)
  BY <1>3 DEF InFlight, d
<1>5. Groups(InFlight) \in 0..Groups(InFlight)
  BY <1>4, GroupsNat
<1>6. Bits(InFlight) \in Seq(Bit)
  BY <1>4, <1>5, DecidedType DEF Bits
<1>7. ein \in Seq(Bit)
  BY <1>1 DEF Bit
<1>8. Pending = Bits(InFlight) \o ein
  BY DEF Pending, Bits
<1>9. Bits(InFlight) \o ein \in Seq(Bit)
  BY <1>6, <1>7
<1> QED  BY <1>4, <1>6, <1>8, <1>9

\* Encoding puts bits behind what is in flight.
LEMMA Encoded ==
  ASSUME NEW f \in Seq(Symbol), Whole(f), NEW b \in Seq(Info)
  PROVE  Whole(f \o Coded(b)) /\ Bits(f \o Coded(b)) = Bits(f) \o b
<1> DEFINE c == Coded(b)
           q == Groups(f)
           n == Len(b)
<1>1. c \in Seq(Symbol) /\ Len(c) = N * n /\ Groups(c) = n /\ Bits(c) = b
  BY CodedSays
<1>2. q \in Nat /\ n \in Nat /\ N \in Nat \ {0} /\ Len(f) = N * q
  BY GroupsNat, StreamFormatAssumption DEF Whole
<1> HIDE DEF c, q, n
<1>3. Groups(f \o c) = q + n /\ Bits(f \o c) = Bits(f) \o b
  <2>1. Groups(f \o c) = q + Groups(c)
    BY <1>1, <1>2, GroupsJoin, ZenonT(40)
  <2>2. Bits(f \o c) = Bits(f) \o Bits(c)
    BY <1>1, <1>2, BitsJoin
  <2> QED  BY <1>1, <2>1, <2>2
<1>4. Len(f \o c) = N * q + N * n
  <2>1. Len(f \o c) = Len(f) + Len(c)
    BY <1>1
  <2> QED  BY <1>1, <1>2, <2>1
<1>5. N * q + N * n = N * (q + n)
  BY <1>2
<1> QED  BY <1>3, <1>4, <1>5 DEF Whole, c

\* Deciding takes bits off the front of what is in flight.
LEMMA Decoded ==
  ASSUME NEW f \in Seq(Symbol), NEW t \in Seq(Symbol), Whole(f \o t), NEW w \in 0..Groups(f)
  PROVE  /\ Whole(Behind(f, w) \o t)
         /\ Bits(f \o t) = Decided(f, w) \o Bits(Behind(f, w) \o t)
         /\ Decided(f, w) \in Seq(Bit) /\ Len(Decided(f, w)) = w
<1> DEFINE u == f \o t
<1>1. u \in Seq(Symbol)
  OBVIOUS
<1>2. /\ w <= Groups(u) /\ Decided(u, w) = Decided(f, w)
      /\ Behind(u, w) = Behind(f, w) \o t
  BY DecidedFirst
<1> HIDE DEF u
<1>3. w \in Nat /\ Groups(u) \in Nat /\ w \in 0..Groups(u) /\ N \in Nat \ {0}
  BY <1>1, <1>2, GroupsNat, StreamFormatAssumption
<1>4. Bits(u) = Decided(u, w) \o Bits(Behind(u, w))
  BY <1>1, <1>3, BitsCut
<1>5. Whole(Behind(u, w))
  <2> DEFINE q == Groups(u)
             k == Len(u)
             b == Behind(u, w)
  <2>1. Groups(b) = q - w
    BY <1>1, <1>2, <1>3, GroupsBehind
  <2>2. k = N * q
    BY DEF Whole, u
  <2>3. q - w \in Nat
    BY <1>2, <1>3
  <2>4. N * w \in Nat /\ N * w <= k /\ k \in Nat
    <3>1. k \in Nat
      BY <1>1
    <3> HIDE DEF q, k
    <3>2. q \in Nat /\ w <= q
      BY <1>2, <1>3 DEF q
    <3> QED  BY <1>3, <2>2, <3>1, <3>2
  <2>5. Len(b) = k - N * w
    <3> DEFINE m == N * w
    <3>1. b = SubSeq(u, m + 1, Len(u)) /\ m \in Nat /\ m <= Len(u)
      BY <2>4 DEF Behind
    <3> HIDE DEF m
    <3>2. Len(SubSeq(u, m + 1, Len(u))) = Len(u) - m
      BY <1>1, <3>1, Suffix
    <3> QED  BY <3>1, <3>2 DEF m
  <2> HIDE DEF b, k, q
  <2>6. N * q - N * w = N * (q - w)
    BY <1>3, <2>3 DEF q
  <2>7. Whole(b)
    BY <2>1, <2>2, <2>5, <2>6 DEF Whole
  <2> QED  BY <2>7 DEF b
<1>6. Decided(f, w) \in Seq(Bit) /\ Len(Decided(f, w)) = w
  BY DecidedType
<1> QED  BY <1>2, <1>4, <1>5, <1>6 DEF u

\* A step that takes bits off the front of what is pending recovers them.
LEMMA RecoversStep ==
  ASSUME NEW d \in Seq(Bit), NEW p \in Seq(Bit),
         Pending = d \o p, Pending' = p, dout' = dout \o d
  PROVE  [Line!LNext]_(Line!lvars)
<1> DEFINE w == Len(d)
           x == d \o p
<1>1. w \in Nat /\ x \in Seq(Bit) /\ w <= Len(x)
  OBVIOUS
<1>2. SubSeq(x, 1, w) = d /\ SubSeq(x, w + 1, Len(x)) = p
  OBVIOUS
<1>3. CASE w = 0
  <2>1. d = <<>>
    BY <1>3
  <2>2. x = p
    BY <2>1
  <2>3. CASE dout' = dout
    BY <2>2, <2>3 DEF Line!lvars
  <2>4. CASE dout' # dout
    BY <2>1, <2>4
  <2> QED  BY <2>3, <2>4
<1>4. CASE w > 0
  <2>1. Line!Recover(w)
    BY <1>2 DEF Line!Recover
  <2>2. w \in 1..Len(Pending)
    BY <1>1, <1>4
  <2> QED  BY <2>1, <2>2 DEF Line!LNext
<1> QED  BY <1>1, <1>3, <1>4

\* A step that puts bits behind what is pending sends them.
LEMMA SendsStep ==
  ASSUME Pending \in Seq(Bit), NEW s \in Seq(Bit), Pending' = Pending \o s, dout' = dout
  PROVE  [Line!LNext]_(Line!lvars)
<1> DEFINE p == Pending
           x == p \o s
           k == Len(s)
<1> HIDE DEF p
<1>1. k \in Nat /\ p \in Seq(Bit) /\ x \in Seq(Bit) /\ k <= Len(x) /\ Pending' = x
  BY DEF p
<1>2. SubSeq(x, Len(x) - k + 1, Len(x)) = s
  BY <1>1
<1>3. CASE k = 0
  <2>1. x = p
    BY <1>1, <1>3
  <2> QED  BY <1>1, <2>1 DEF Line!lvars, p
<1>4. CASE k > 0
  <2>1. Line!Send(s)
    BY DEF Line!Send
  <2>2. k \in 1..Len(Pending')
    BY <1>1, <1>4
  <2>3. Line!Send(SubSeq(Pending', Len(Pending') - k + 1, Len(Pending')))
    BY <1>1, <1>2, <2>1
  <2> QED  BY <2>2, <2>3 DEF Line!Sends, Line!LNext
<1> QED  BY <1>1, <1>3, <1>4

\* What is in flight, when the input of the decoder is not being fed.
LEMMA InFlightIdle ==
  /\ ~fed => InFlight = (held \o din) \o eout
  /\ ~fed' => InFlight' = (held' \o din') \o eout'
  BY DEF InFlight

\* Encoding some bits: their symbols reach the output, they leave the input.
LEMMA EncodesStep ==
  ASSUME LineInv, LagInv', UNCHANGED <<dvars, sent>>, ~fed, NEW b \in Seq(Info), eout' = eout \o Coded(b),
         (epc = "edge" => ein = <<>>)'
  PROVE  LineInv' /\ Pending' = (Bits(InFlight) \o b) \o ein'
<1> DEFINE f == InFlight
           c == Coded(b)
<1>1. f \in Seq(Symbol) /\ Whole(f)
  BY InFlightType DEF LineInv, Whole
<1>2. c \in Seq(Symbol)
  BY CodedType
<1>3. Whole(f \o c) /\ Bits(f \o c) = Bits(f) \o b
  <2> HIDE DEF f
  <2> QED  BY <1>1, Encoded
<1>4. InFlight' = f \o c
  <2>1. held' = held /\ din' = din /\ fed' = fed
    BY DEF dvars
  <2>2. held \in Seq(Symbol) /\ din \in Seq(Symbol) /\ eout \in Seq(Symbol)
    BY DEF LineInv, LagInv, EncoderType, DecoderType
  <2>3. f = (held \o din) \o eout /\ InFlight' = (held \o din) \o (eout \o c)
    BY <2>1, InFlightIdle
  <2> HIDE DEF f, c
  <2>4. held \o din \in Seq(Symbol)
    BY <2>2
  <2>5. (held \o din) \o (eout \o c) = ((held \o din) \o eout) \o c
    <3> DEFINE d == held \o din
    <3> HIDE DEF d
    <3>1. d \in Seq(Symbol) /\ eout \in Seq(Symbol) /\ c \in Seq(Symbol)
      BY <1>2, <2>2, <2>4 DEF d
    <3>2. d \o (eout \o c) = (d \o eout) \o c
      BY <3>1, Associative, SMTT(40)
    <3> QED  BY <3>2 DEF d
  <2> QED  BY <2>3, <2>5
<1> HIDE DEF c
<1>5. Pending' = Bits(InFlight') \o ein'
  BY DEF Pending, Bits
<1>6. Whole(InFlight') /\ Bits(InFlight') = Bits(f) \o b
  BY <1>3, <1>4 DEF c
<1> QED  BY <1>5, <1>6 DEF LineInv, Whole

\* A step that leaves what is in flight, the input and the output is silent.
LEMMA SilentStep ==
  ASSUME LineInv, LagInv', InFlight' = InFlight, ein' = ein, dout' = dout,
         (epc = "edge" => ein = <<>>)'
  PROVE  LineInv' /\ [Line!LNext]_(Line!lvars)
<1>1. Pending' = Pending
  BY DEF Pending, Decided, Group, BitOf, Groups
<1>2. Groups(InFlight') = Groups(InFlight) /\ Len(InFlight') = Len(InFlight)
  OBVIOUS
<1>3. Len(InFlight)' = N * Groups(InFlight)'
  BY <1>2 DEF LineInv, Groups
<1> QED  BY <1>1, <1>3 DEF LineInv, Line!lvars, Groups

\* Deciding w groups of what the decoder has: their bits are recovered.
LEMMA DecodesStep ==
  ASSUME LineInv, LagInv', UNCHANGED evars,
         NEW now \in Seq(Symbol), NEW w \in 0..Groups(now),
         InFlight = now \o eout, InFlight' = Behind(now, w) \o eout,
         dout' = dout \o Decided(now, w)
  PROVE  LineInv' /\ [Line!LNext]_(Line!lvars)
<1> DEFINE d == Decided(now, w)
           f == Behind(now, w) \o eout
           p == Bits(f) \o ein
<1>1. eout \in Seq(Symbol) /\ ein \in Seq(Info) /\ ein \in Seq(Bit) /\ ein' = ein /\ epc' = epc
  BY DEF LineInv, LagInv, EncoderType, Bit, evars
<1>2. Whole(now \o eout)
  BY DEF LineInv, Whole
<1>3. Whole(f) /\ Bits(now \o eout) = d \o Bits(f) /\ d \in Seq(Bit) /\ Len(d) = w
  BY <1>1, <1>2, Decoded
<1>4. Len(InFlight') = N * Groups(InFlight')
  BY <1>3 DEF Whole
<1>5. LineInv'
  BY <1>1, <1>4 DEF LineInv, Groups
<1>6. Bits(f) \in Seq(Bit)
  <2>1. Bits(InFlight)' \in Seq(Bit)
    <3>1. LagInv' => (Bits(InFlight) \in Seq(Bit))'
      BY InFlightType, PTL
    <3> QED  BY <3>1
  <2>2. Bits(InFlight)' = Bits(f)
    BY DEF Bits, Decided, Group, BitOf, Groups
  <2> QED  BY <2>1, <2>2
<1>7. Pending' = p
  BY <1>1 DEF Pending, Bits, Decided, Group, BitOf, Groups
<1>8. Pending = (d \o Bits(f)) \o ein
  <2>1. Pending = Bits(now \o eout) \o ein
    BY DEF Pending, Bits
  <2> QED  BY <1>3, <2>1
<1> DEFINE x == Bits(f)
<1> HIDE DEF d, x
<1>9. (d \o x) \o ein = d \o (x \o ein)
  BY <1>1, <1>3, <1>6, Associative, SMTT(40) DEF x
<1>10. x \o ein \in Seq(Bit)
  BY <1>1, <1>6 DEF x
<1>11. [Line!LNext]_(Line!lvars)
  <2>1. Pending = d \o (x \o ein) /\ Pending' = x \o ein /\ dout' = dout \o d
    BY <1>7, <1>8, <1>9 DEF x, d
  <2> QED  BY <1>3, <1>10, <2>1, RecoversStep
<1> QED  BY <1>5, <1>11

LEMMA PushLine ==
  ASSUME LineInv, LagInv', Push
  PROVE  LineInv' /\ [Line!LNext]_(Line!lvars)
<1> DEFINE b == sent + 1
           x == Bits(InFlight)
<1>1. b \in Info /\ b \in Bit
  BY StreamFormatAssumption DEF Push, LineInv, LagInv, EncoderType, Info, Bit
<1>2. /\ ein' = Append(ein, b) /\ eout' = eout /\ held' = held /\ din' = din /\ fed' = fed
      /\ dout' = dout /\ epc' = epc /\ epc = "idle"
  BY DEF Push, PushInfo, dvars
<1>3. InFlight' = InFlight
  BY <1>2 DEF InFlight
<1>4. ein \in Seq(Bit) /\ x \in Seq(Bit) /\ Pending = x \o ein /\ Pending \in Seq(Bit)
  BY InFlightType DEF LineInv, LagInv, EncoderType, Bit
<1>5. Pending' = x \o ein'
  BY <1>3 DEF Pending, Bits, Decided, Group, BitOf, Groups
<1> HIDE DEF b, x
<1>6. Append(ein, b) = ein \o <<b>> /\ <<b>> \in Seq(Bit)
  BY <1>1, <1>4, SMTT(40)
<1>7. x \o (ein \o <<b>>) = (x \o ein) \o <<b>>
  BY <1>4, <1>6, Associative
<1>8. Pending' = Pending \o <<b>>
  BY <1>2, <1>4, <1>5, <1>6, <1>7
<1>9. [Line!LNext]_(Line!lvars)
  BY <1>2, <1>4, <1>6, <1>8, SendsStep
<1>10. Len(InFlight)' = N * Groups(InFlight)'
  BY <1>3 DEF LineInv, Groups
<1> QED  BY <1>2, <1>9, <1>10 DEF LineInv

\* Carrying symbols over moves the cut between output and input.
LEMMA CarryLine ==
  ASSUME LineInv, LagInv', dpc = "idle", NEW k \in 1..Len(eout), Carry(k)
  PROVE  LineInv' /\ [Line!LNext]_(Line!lvars)
<1> DEFINE a == SubSeq(eout, 1, k)
           r == SubSeq(eout, k + 1, Len(eout))
<1>1. held \in Seq(Symbol) /\ din \in Seq(Symbol) /\ eout \in Seq(Symbol) /\ ~fed
  BY DEF LineInv, LagInv, EncoderType, DecoderType
<1>2. /\ ein' = ein /\ epc' = epc /\ epc = "idle" /\ eout' = r /\ din' = din \o a
      /\ held' = held /\ dout' = dout /\ fed' = fed
  BY DEF Carry, PushReceived
<1>3. a \in Seq(Symbol) /\ r \in Seq(Symbol) /\ eout = a \o r
  <2>1. a \in Seq(Symbol) /\ Len(a) = k /\ \A i \in 1..Len(a) : eout[i] = a[i]
    BY <1>1
  <2>2. r \in Seq(Symbol) /\ Len(r) = Len(eout) - k /\ \A i \in 1..Len(r) : eout[Len(a) + i] = r[i]
    BY <1>1, <2>1
  <2>3. Len(eout) = Len(a) + Len(r)
    BY <1>1, <2>1, <2>2
  <2> HIDE DEF a, r
  <2>4. eout = a \o r
    BY <1>1, <2>1, <2>2, <2>3, JoinedIs
  <2> QED  BY <2>1, <2>2, <2>4
<1>4. InFlight = (held \o din) \o eout /\ InFlight' = (held' \o din') \o eout'
  BY <1>1, <1>2, InFlightIdle
<1> HIDE DEF a, r
<1>5. held \o (din \o a) = (held \o din) \o a
  BY <1>1, <1>3, Associative, SMTT(40)
<1>6. (held \o din) \o (a \o r) = ((held \o din) \o a) \o r
  <2> DEFINE u == held \o din
  <2>1. u \in Seq(Symbol)
    BY <1>1
  <2> HIDE DEF u
  <2>2. u \o (a \o r) = (u \o a) \o r
    BY <1>3, <2>1, Associative
  <2> QED  BY <2>2 DEF u
<1>7. InFlight' = InFlight
  BY <1>2, <1>3, <1>4, <1>5, <1>6
<1> QED  BY <1>2, <1>7, SilentStep

\* Encoding the input moves its bits from the input into flight.
LEMMA EncodeLine ==
  ASSUME LineInv, LagInv', ~fed, UNCHANGED <<dvars, sent>>, NEW cap, EncodeCall(cap)
  PROVE  LineInv' /\ [Line!LNext]_(Line!lvars)
<1>1. /\ (epc' = "edge" => ein' = <<>>)
      /\ dout' = dout /\ held' = held /\ din' = din /\ fed' = fed
  BY DEF EncodeCall, EIdle, ToEdge, dvars
<1>2. CASE ~Encodes(Len(ein), cap)
  <2>1. ein' = ein /\ eout' = eout /\ epc' = epc
    BY <1>2 DEF EncodeCall
  <2>2. InFlight' = InFlight
    BY <1>1, <2>1 DEF InFlight
  <2> QED  BY <1>1, <2>1, <2>2, SilentStep
<1>3. CASE Encodes(Len(ein), cap)
  <2>1. ein' = <<>> /\ eout' = eout \o Coded(ein)
    BY <1>3 DEF EncodeCall
  <2>2. ein \in Seq(Info) /\ ein \in Seq(Bit)
    BY DEF LineInv, LagInv, EncoderType, Bit
  <2>3. LineInv' /\ Pending' = (Bits(InFlight) \o ein) \o <<>>
    BY <2>1, <2>2, EncodesStep
  <2>4. Pending = Bits(InFlight) \o ein /\ Pending \in Seq(Bit)
    BY InFlightType DEF LineInv
  <2>5. Pending' = Pending
    <3>1. Pending' = Pending \o <<>>
      BY <2>3, <2>4
    <3> QED  BY <2>4, <3>1
  <2> QED  BY <1>1, <2>3, <2>5 DEF Line!lvars
<1> QED  BY <1>2, <1>3

\* The tail goes into flight behind all bits pushed.
LEMMA TailLine ==
  ASSUME LineInv, LagInv', ~fed, UNCHANGED <<dvars, sent>>, NEW cap, EncodeTail(cap)
  PROVE  LineInv' /\ [Line!LNext]_(Line!lvars)
<1> DEFINE zeros == [i \in 1..TailBits |-> 0]
<1>1. ein = <<>> /\ ein' = <<>> /\ dout' = dout /\ held' = held /\ din' = din /\ fed' = fed
  BY DEF EncodeTail, LineInv, dvars
<1>2. CASE ~Encodes(TailBits, cap)
  <2>1. eout' = eout
    BY <1>2 DEF EncodeTail
  <2>2. InFlight' = InFlight
    BY <1>1, <2>1 DEF InFlight
  <2> QED  BY <1>1, <2>2, SilentStep
<1>3. CASE Encodes(TailBits, cap)
  <2>1. eout' = eout \o Coded(zeros)
    BY <1>3 DEF EncodeTail
  <2>2. zeros \in Seq(Info) /\ zeros \in Seq(Bit)
    BY EncoderPipeAssumption, StreamFormatAssumption DEF Info, Bit
  <2> HIDE DEF zeros
  <2>3. LineInv' /\ Pending' = (Bits(InFlight) \o zeros) \o <<>>
    BY <1>1, <2>1, <2>2, EncodesStep
  <2>4. Pending = Bits(InFlight) \o <<>> /\ Pending \in Seq(Bit) /\ Bits(InFlight) \in Seq(Bit)
    BY <1>1, InFlightType DEF LineInv
  <2>5. Pending' = Pending \o zeros
    <3> DEFINE x == Bits(InFlight)
    <3> HIDE DEF x
    <3>1. x \in Seq(Bit) /\ Pending = x \o <<>> /\ Pending' = (x \o zeros) \o <<>>
      BY <2>3, <2>4 DEF x
    <3>2. x \o <<>> = x /\ x \o zeros \in Seq(Bit)
      BY <2>2, <3>1
    <3>3. (x \o zeros) \o <<>> = x \o zeros
      BY <3>2
    <3> QED  BY <3>1, <3>2, <3>3
  <2> QED  BY <1>1, <2>2, <2>3, <2>4, <2>5, SendsStep
<1> QED  BY <1>2, <1>3

LEMMA EncoderLine ==
  ASSUME LineInv, LagInv', dpc = "idle", EncoderStep
  PROVE  LineInv' /\ [Line!LNext]_(Line!lvars)
<1>1. ~fed /\ UNCHANGED <<dvars, sent>>
  BY DEF EncoderStep, LineInv, LagInv
<1>2. ASSUME TickEncoder \/ FinalizeEncoder \/ EncoderNoMemory
      PROVE  LineInv' /\ [Line!LNext]_(Line!lvars)
  <2>1. ein' = ein /\ eout' = eout /\ (epc' = "edge" => ein' = <<>>)
    BY <1>2 DEF TickEncoder, FinalizeEncoder, EncoderNoMemory, ToEdge, EIdle
  <2>2. InFlight' = InFlight /\ dout' = dout
    BY <1>1, <2>1 DEF InFlight, dvars
  <2> QED  BY <2>1, <2>2, SilentStep
<1>3. ASSUME NEW cap \in room..(room + EncSlack), EncodeCall(cap) \/ EncodeTail(cap)
      PROVE  LineInv' /\ [Line!LNext]_(Line!lvars)
  BY <1>1, <1>3, EncodeLine, TailLine
<1> QED  BY <1>2, <1>3 DEF EncoderStep, EncoderGoesOn

\* A decode() call feeds the input once and decides from the front.
LEMMA DecodeLine ==
  ASSUME LineInv, LagInv', UNCHANGED <<evars, sent>>,
         NEW cap \in DecRoom..(DecRoom + DecSlack), DecodeCall(cap)
  PROVE  LineInv' /\ [Line!LNext]_(Line!lvars)
<1> DEFINE d == IF fed THEN <<>> ELSE din
           now == held \o d
           w == Decides(now, cap)
<1>1. held \in Seq(Symbol) /\ din \in Seq(Symbol) /\ eout \in Seq(Symbol)
  BY DEF LineInv, LagInv, EncoderType, DecoderType
<1>2. d \in Seq(Symbol)
  BY <1>1, EmptyIsSeq
<1>3. /\ dout' = dout \o Decided(now, w) /\ held' = Behind(now, w)
      /\ \/ fed' = TRUE
         \/ din' = <<>> /\ fed' = FALSE
  BY DEF DecodeCall
<1>4. InFlight = now \o eout
  BY DEF InFlight
<1> HIDE DEF d
<1>5. now \in Seq(Symbol)
  BY <1>1, <1>2
<1> HIDE DEF now
<1>6. cap \in Nat
  BY DecoderPipeAssumption
<1>7. w \in 0..Groups(now) /\ w \in Nat /\ w <= Groups(now)
  BY <1>5, <1>6, DecidesType, GroupsNat
<1> HIDE DEF w
<1>8. held' \in Seq(Symbol)
  BY <1>3, <1>5, <1>7, GroupsBehind
<1>9. InFlight' = Behind(now, w) \o eout
  <2>1. eout' = eout
    BY DEF evars
  <2>2. InFlight' = (held' \o <<>>) \o eout
    BY <1>3, <2>1 DEF InFlight
  <2>3. held' \o <<>> = held'
    BY <1>8
  <2> QED  BY <1>3, <2>2, <2>3
<1> QED  BY <1>3, <1>4, <1>5, <1>7, <1>9, DecodesStep

LEMMA FlushLine ==
  ASSUME LineInv, LagInv', UNCHANGED <<evars, sent>>,
         NEW cap \in DecEdgeRoom..(DecEdgeRoom + DecSlack), FlushCall(cap)
  PROVE  LineInv' /\ [Line!LNext]_(Line!lvars)
<1> DEFINE w == AtMost(cap, Groups(held))
<1>1. held \in Seq(Symbol) /\ din = <<>> /\ fed = FALSE /\ eout \in Seq(Symbol)
  BY DEF FlushCall, LineInv, LagInv, EncoderType, DecoderType
<1>2. /\ dout' = dout \o Decided(held, w) /\ held' = Behind(held, w)
      /\ din' = <<>> /\ fed' = FALSE
  BY <1>1 DEF FlushCall, DIdle
<1>3. w \in 0..Groups(held) /\ w \in Nat /\ w <= Groups(held)
  BY <1>1, GroupsNat, DecoderPipeAssumption DEF AtMost
<1> HIDE DEF w
<1>4. held' \in Seq(Symbol)
  BY <1>1, <1>2, <1>3, GroupsBehind
<1>5. InFlight = held \o eout
  <2>1. InFlight = (held \o <<>>) \o eout
    BY <1>1 DEF InFlight
  <2>2. held \o <<>> = held
    BY <1>1
  <2> QED  BY <2>1, <2>2
<1>6. InFlight' = Behind(held, w) \o eout
  <2>1. eout' = eout
    BY DEF evars
  <2>2. InFlight' = (held' \o <<>>) \o eout
    BY <1>2, <2>1 DEF InFlight
  <2>3. held' \o <<>> = held'
    BY <1>4
  <2> QED  BY <1>2, <2>2, <2>3
<1> QED  BY <1>1, <1>2, <1>3, <1>5, <1>6, DecodesStep

LEMMA DecoderLine ==
  ASSUME LineInv, LagInv', ~LateFailure, epc = "idle", DecoderStep
  PROVE  LineInv' /\ [Line!LNext]_(Line!lvars)
<1>1. UNCHANGED <<evars, sent>> /\ ein' = ein /\ eout' = eout /\ epc' = epc /\ epc = "idle"
  BY DEF DecoderStep, evars
<1>2. ASSUME TickDecoder \/ FinalizeDecoder \/ DecoderNoMemory
      PROVE  LineInv' /\ [Line!LNext]_(Line!lvars)
  <2>1. held' = held /\ din' = din /\ dout' = dout /\ fed' = fed
    BY <1>2 DEF TickDecoder, FinalizeDecoder, DecoderNoMemory, DIdle, LineInv, LagInv, DecoderType
  <2>2. InFlight' = InFlight
    BY <1>1, <2>1 DEF InFlight
  <2> QED  BY <1>1, <2>1, <2>2, SilentStep
<1>3. ASSUME NEW cap \in DecRoom..(DecRoom + DecSlack), DecodeCall(cap)
      PROVE  LineInv' /\ [Line!LNext]_(Line!lvars)
  BY <1>1, <1>3, DecodeLine
<1>4. ASSUME NEW cap \in DecEdgeRoom..(DecEdgeRoom + DecSlack), FlushCall(cap)
      PROVE  LineInv' /\ [Line!LNext]_(Line!lvars)
  BY <1>1, <1>4, FlushLine
<1>5. ASSUME NEW k \in 1..Len(dout), PullRecovered(k)
      PROVE  LineInv' /\ [Line!LNext]_(Line!lvars)
  <2>1. /\ dout' = SubSeq(dout, k + 1, Len(dout))
        /\ held' = held /\ din' = din /\ fed' = fed
    BY <1>5 DEF PullRecovered
  <2>2. InFlight' = InFlight
    BY <1>1, <2>1 DEF InFlight
  <2>3. Pending' = Pending
    BY <1>1, <2>2 DEF Pending, Decided, Group, BitOf, Groups
  <2>4. Line!Read(k)
    BY <2>1, <2>3 DEF Line!Read
  <2>5. Len(InFlight)' = N * Groups(InFlight)'
    BY <2>2 DEF LineInv, Groups
  <2> QED  BY <1>1, <2>4, <2>5 DEF LineInv, Line!LNext
<1> QED  BY <1>2, <1>3, <1>4, <1>5 DEF DecoderStep, DecoderGoesOn

\* Every step keeps the groups whole and is one of the delay line.
LEMMA LineNext ==
  ASSUME LineInv, [Next]_vars, ~LateFailure
  PROVE  LineInv' /\ [Line!LNext]_(Line!lvars)
<1>1. LagInv'
  BY LagNext DEF LineInv
<1>2. CASE UNCHANGED vars
  <2>1. ein' = ein /\ epc' = epc /\ dout' = dout /\ InFlight' = InFlight
    BY <1>2 DEF vars, InFlight
  <2>2. (epc = "edge" => ein = <<>>)'
    BY <2>1 DEF LineInv
  <2> QED  BY <1>1, <2>1, <2>2, SilentStep
<1>3. CASE epc = "idle" /\ dpc = "idle" /\ Push
  BY <1>1, <1>3, PushLine
<1>4. CASE epc = "idle" /\ dpc = "idle" /\ \E k \in 1..Len(eout) : Carry(k)
  BY <1>1, <1>4, CarryLine
<1>5. CASE dpc = "idle" /\ EncoderStep
  BY <1>1, <1>5, EncoderLine
<1>6. CASE epc = "idle" /\ DecoderStep
  BY <1>1, <1>6, DecoderLine
<1> QED  BY <1>2, <1>3, <1>4, <1>5, <1>6 DEF Next

\* Both pipes together deliver every bit once and in order, for every rate,
\* depth, length of stream and room of a call, wherever the caller cuts the
\* coded stream (enc_run, dec_run, enc_finalize, dec_finalize) - unless memory
\* runs out between two decode() calls of one tick.
THEOREM StreamImplementsDelayLine ==
  ASSUME ~LateFailure
  PROVE  Spec => ImplementsDelayLine
<1>1. Init => LineInv /\ Line!LInit
  <2> SUFFICES ASSUME Init  PROVE LineInv /\ Line!LInit
    OBVIOUS
  <2>1. /\ ein = <<>> /\ eout = <<>> /\ din = <<>> /\ held = <<>> /\ dout = <<>>
        /\ epc = "idle" /\ fed = FALSE
    BY DEF Init, EInit, DInit
  <2>2. InFlight = <<>>
    BY <2>1 DEF InFlight
  <2>3. Groups(InFlight) = 0
    BY <2>2, GroupsEmpty
  <2>4. Decided(InFlight, 0) = <<>>
    BY DEF Decided
  <2>5. Pending = <<>>
    BY <2>1, <2>3, <2>4 DEF Pending
  <2>6. Len(InFlight) = N * Groups(InFlight)
    BY <2>2, <2>3, StreamFormatAssumption
  <2> QED  BY <2>1, <2>5, <2>6, LagInit DEF LineInv, Line!LInit
<1>2. LineInv /\ [Next]_vars => LineInv' /\ [Line!LNext]_(Line!lvars)
  BY LineNext
<1> QED  BY <1>1, <1>2, PTL DEF Spec, ImplementsDelayLine, Line!LSpec
=============================================================================
