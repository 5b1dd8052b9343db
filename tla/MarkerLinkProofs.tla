-------------------------- MODULE MarkerLinkProofs --------------------------
(***************************************************************************)
(* For every run length, every alphabet and every interleaving: what the   *)
(* marker decoder reports is what the encoder was given (MarkerLink.tla).  *)
(* A decoder is followed through whole stretches of symbols by the fold    *)
(* FedAll.  Heard(d) is what it has queued with the run that it counts;    *)
(* Said(d, e) is what it will have queued when it has had all that the     *)
(* encoder emitted and holds back.  The two ends are Synced when the       *)
(* decoder, having had all that was emitted, scans, and counts a run only  *)
(* where the encoder holds a full one.  Each step of the encoder adds to   *)
(* Said what it was given, each step of the link moves symbols inside it,  *)
(* and each answer of the decoder takes its front.                         *)
(***************************************************************************)
EXTENDS MarkerLink, MarkerProofs

-----------------------------------------------------------------------------
(* What the encoder says: the tokens a decoder d makes, or will make, of   *)
(* what the encoder e has emitted and of what it still holds back.         *)

\* d after the symbols in flight.
Reached(d, e) == FedAll(d, e.out)

\* The bits the encoder holds back.
HeldBits(e) ==
  CASE e.esc = 0 -> Ones(e.p)
    [] e.esc = 1 -> Ones(Run) \o <<"0">>
    [] e.esc = 2 -> Ones(Run) \o <<"0", e.ecode1>>

Said(d, e) == Heard(Reached(d, e)) \o HeldBits(e)

\* The decoder scans when the symbols in flight have arrived, and it holds ones
\* back only while the encoder holds a whole run.
Synced(d, e) ==
  /\ e \in EncoderState
  /\ e.esc > 0 => e.p = Run
  /\ Reached(d, e).bm = "SCAN"
  /\ Reached(d, e).t > 0 => e.p = Run

LEMMA EncoderTypes ==
  ASSUME NEW e \in EncoderState
  PROVE  /\ e.out \in Seq(Bit) /\ e.p \in Nat /\ e.p <= Run /\ Run \in Nat /\ Run > 0
         /\ e.esc \in 0..2 /\ e.ecode1 \in {"0", "1"} /\ e.ecode1 \in Bit
         /\ Ones(e.p) \in Seq(Bit) /\ Ones(Run) \in Seq(Bit)
<1>1. /\ e.out \in Seq(Bit) /\ e.p \in Nat /\ e.p <= Run /\ Run \in Nat /\ Run > 0
      /\ e.esc \in 0..2 /\ e.ecode1 \in {"0", "1"} /\ e.ecode1 \in Bit
  BY FormatAssumption DEF EncoderState, Bit
<1> QED BY <1>1, FewOnes

\* What follows an emission.
LEMMA EmittedReached ==
  ASSUME NEW d, Steady(d), NEW e \in EncoderState, NEW s \in Seq(Bit),
         NEW f, f.out = e.out \o s
  PROVE  Steady(Reached(d, e)) /\ Reached(d, f) = FedAll(Reached(d, e), s)
<1>1. e.out \in Seq(Bit)
  BY EncoderTypes
<1>2. /\ Steady(FedAll(d, e.out))
      /\ FedAll(d, e.out \o s) = FedAll(FedAll(d, e.out), s)
  BY <1>1, FedJoined
<1> QED BY <1>2 DEF Reached

LEMMA EmittedTypes ==
  ASSUME NEW e \in EncoderState, NEW s \in Seq(Bit)
  PROVE  LET f == Emitted(e, s)
         IN  /\ f \in EncoderState /\ f.out = e.out \o s
             /\ f.p = e.p /\ f.esc = e.esc /\ f.inFrame = e.inFrame /\ f.ecode1 = e.ecode1
<1> DEFINE z == e.out \o s
<1>1. z \in Seq(Bit)
  BY EncoderTypes
<1>2. Emitted(e, s) = [e EXCEPT !.out = z]
  BY DEF Emitted
<1> HIDE DEF z
<1>3. LET f == Emitted(e, s)
      IN  /\ f \in EncoderState /\ f.out = z
          /\ f.p = e.p /\ f.esc = e.esc /\ f.inFrame = e.inFrame /\ f.ecode1 = e.ecode1
  BY <1>1, <1>2 DEF EncoderState
<1> QED BY <1>3 DEF z

LEMMA HeldFlushedTypes ==
  ASSUME NEW e \in EncoderState
  PROVE  LET f == HeldFlushed(e)
         IN  /\ f \in EncoderState /\ f.out = e.out \o Ones(e.p)
             /\ f.p = 0 /\ f.esc = e.esc /\ f.inFrame = e.inFrame
<1> DEFINE g == Emitted(e, Ones(e.p))
<1>1. /\ g \in EncoderState /\ g.out = e.out \o Ones(e.p)
      /\ g.esc = e.esc /\ g.inFrame = e.inFrame
  BY EncoderTypes, EmittedTypes
<1>2. HeldFlushed(e) = [g EXCEPT !.p = 0]
  BY DEF HeldFlushed
<1> HIDE DEF g
<1>3. 0 \in 0..Run
  BY FormatAssumption
<1> QED BY <1>1, <1>2, <1>3 DEF EncoderState

LEMMA SaidTypes ==
  ASSUME NEW d, Steady(d), NEW e \in EncoderState
  PROVE  /\ Steady(Reached(d, e))
         /\ Heard(Reached(d, e)) \in Seq(Token)
         /\ HeldBits(e) \in Seq(Token)
         /\ Said(d, e) \in Seq(Token)
<1>1. e.out \in Seq(Bit)
  BY EncoderTypes
<1>2. Steady(Reached(d, e))
  <2>1. <<>> \in Seq(Bit)
    OBVIOUS
  <2> QED BY <1>1, <2>1, FedJoined DEF Reached
<1>3. Heard(Reached(d, e)) \in Seq(Token)
  BY <1>2, SteadyTypes
<1>4. HeldBits(e) \in Seq(Token)
  <2>1. Ones(e.p) \in Seq(Token) /\ Ones(Run) \in Seq(Token)
    BY EncoderTypes, FewOnes
  <2>2. "0" \in Token /\ e.ecode1 \in Token
    BY EncoderTypes DEF Token, Bit
  <2>3. <<"0">> \in Seq(Token) /\ <<"0", e.ecode1>> \in Seq(Token)
    BY <2>2
  <2>4. e.esc = 0 \/ e.esc = 1 \/ e.esc = 2
    BY EncoderTypes
  <2>5. CASE e.esc = 0
    BY <2>1, <2>5 DEF HeldBits
  <2>6. CASE e.esc = 1
    <3>1. HeldBits(e) = Ones(Run) \o <<"0">>
      BY <2>6 DEF HeldBits
    <3> QED BY <2>1, <2>3, <3>1
  <2>7. CASE e.esc = 2
    <3>1. HeldBits(e) = Ones(Run) \o <<"0", e.ecode1>>
      BY <2>7 DEF HeldBits
    <3> QED BY <2>1, <2>3, <3>1
  <2> QED BY <2>4, <2>5, <2>6, <2>7
<1>5. Said(d, e) \in Seq(Token)
  BY <1>3, <1>4 DEF Said
<1> QED BY <1>2, <1>3, <1>4, <1>5

\* A symbol that is not gathered is said as it is.
LEMMA ScannedSays ==
  ASSUME NEW d, Steady(d), NEW e, Synced(d, e), e.esc = 0, NEW b \in Bit
  PROVE  LET f == Scanned(e, b)
         IN  /\ Synced(d, f) /\ f.inFrame = e.inFrame
             /\ Said(d, f) = Said(d, e) \o <<b>>
             /\ e.p < Run \/ b # "0" => f.esc = 0
             /\ e.p = 0 /\ b = "0" => f.p = 0
<1> DEFINE r == Reached(d, e)
           base == Heard(r)
<1>1. /\ e \in EncoderState /\ r.bm = "SCAN" /\ (r.t > 0 => e.p = Run)
      /\ Steady(r) /\ base \in Seq(Token)
  BY SaidTypes DEF Synced
<1>2. /\ e.out \in Seq(Bit) /\ e.p \in Nat /\ e.p <= Run /\ Run \in Nat /\ Run > 0
      /\ Ones(e.p) \in Seq(Bit) /\ Ones(Run) \in Seq(Bit)
  BY <1>1, EncoderTypes
<1>3. /\ Ones(e.p) \in Seq(Token) /\ Ones(Run) \in Seq(Token) /\ Ones(1) \in Seq(Token)
      /\ Ones(1) = <<"1">> /\ Ones(0) = <<>>
  BY <1>2, FewOnes
<1>4. Said(d, e) = base \o Ones(e.p)
  BY DEF Said, HeldBits
<1>5. r.t \in Nat
  BY <1>1, SteadyTypes
<1>6. CASE b = "1" /\ e.p < Run
  <2> DEFINE f == [e EXCEPT !.p = @ + 1]
  <2>1. Scanned(e, b) = f
    BY <1>6 DEF Scanned
  <2>2. f \in EncoderState /\ f.out = e.out /\ f.p = e.p + 1 /\ f.esc = 0 /\ f.inFrame = e.inFrame
    BY <1>1, <1>2, <1>6, SMTT(40) DEF EncoderState
  <2> HIDE DEF f
  <2>3. Reached(d, f) = r
    BY <2>2 DEF Reached
  <2> HIDE DEF r
  <2>4. ~(r.t > 0)
    BY <1>1, <1>2, <1>6
  <2>5. Synced(d, f)
    BY <1>1, <2>2, <2>3, <2>4 DEF Synced
  <2>6. Said(d, f) = base \o Ones(e.p + 1)
    BY <2>2, <2>3 DEF Said, HeldBits
  <2>7. Ones(e.p + 1) = Ones(e.p) \o Ones(1)
    BY <1>2, OnesJoin
  <2>8. (base \o Ones(e.p)) \o Ones(1) = base \o (Ones(e.p) \o Ones(1))
    BY <1>1, <1>3, Assoc, Zenon
  <2> QED BY <1>3, <1>4, <1>6, <2>1, <2>2, <2>5, <2>6, <2>7, <2>8
<1>7. CASE b = "1" /\ e.p = Run
  <2> DEFINE f == Emitted(e, <<"1">>)
             q == Reached(d, f)
  <2>1. Scanned(e, b) = f
    <3>1. ~(e.p < Run)
      BY <1>2, <1>7
    <3> QED BY <1>7, <3>1 DEF Scanned
  <2>2. f \in EncoderState /\ f.out = e.out \o <<"1">> /\ f.p = Run /\ f.esc = 0 /\ f.inFrame = e.inFrame
    <3>1. <<"1">> \in Seq(Bit)
      BY DEF Bit
    <3> QED BY <1>1, <1>7, <3>1, EmittedTypes
  <2> HIDE DEF f
  <2>3. q = FedAll(r, Ones(1))
    <3>1. Ones(1) \in Seq(Bit)
      BY FewOnes
    <3> QED BY <1>1, <1>3, <2>2, <3>1, EmittedReached, ZenonT(40)
  <2> HIDE DEF r, q
  <2>4. q.bm = "SCAN" /\ Heard(q) = base \o Ones(1)
    BY <1>1, <2>3, ScanOnes, OnesHeard
  <2>5. Synced(d, f)
    BY <2>2, <2>4 DEF Synced, q
  <2>6. Said(d, f) = (base \o Ones(1)) \o Ones(Run)
    BY <2>2, <2>4 DEF Said, HeldBits, q
  <2>7. Ones(1) \o Ones(Run) = Ones(Run) \o Ones(1)
    <3>1. Ones(1) \o Ones(Run) = Ones(1 + Run) /\ Ones(Run) \o Ones(1) = Ones(Run + 1)
      BY <1>2, OnesJoin
    <3>2. 1 + Run = Run + 1
      BY <1>2
    <3> QED BY <3>1, <3>2
  <2>8. /\ (base \o Ones(1)) \o Ones(Run) = base \o (Ones(1) \o Ones(Run))
        /\ (base \o Ones(Run)) \o Ones(1) = base \o (Ones(Run) \o Ones(1))
    BY <1>1, <1>3, Assoc, Zenon
  <2>9. Said(d, f) = Said(d, e) \o <<"1">>
    BY <1>3, <1>4, <1>7, <2>6, <2>7, <2>8
  <2> QED BY <1>7, <2>1, <2>2, <2>5, <2>9
<1>8. CASE b = "0" /\ e.p = Run
  <2> DEFINE f == [e EXCEPT !.esc = 1]
  <2>1. Scanned(e, b) = f
    BY <1>8 DEF Scanned
  <2>2. f \in EncoderState /\ f.out = e.out /\ f.p = Run /\ f.esc = 1 /\ f.inFrame = e.inFrame
    BY <1>1, <1>8 DEF EncoderState
  <2> HIDE DEF f
  <2>3. Reached(d, f) = r
    BY <2>2 DEF Reached
  <2> HIDE DEF r
  <2>4. Synced(d, f)
    BY <1>1, <2>2, <2>3 DEF Synced
  <2>5. Said(d, f) = base \o (Ones(Run) \o <<"0">>)
    BY <2>2, <2>3 DEF Said, HeldBits
  <2>6. <<"0">> \in Seq(Token)
    BY DEF Token, Bit
  <2>7. (base \o Ones(Run)) \o <<"0">> = base \o (Ones(Run) \o <<"0">>)
    BY <1>1, <1>3, <2>6, Assoc, ZenonT(40)
  <2>8. Said(d, f) = Said(d, e) \o <<b>>
    BY <1>4, <1>8, <2>5, <2>7
  <2>9. ~(e.p < Run) /\ e.p # 0
    BY <1>2, <1>8
  <2> QED BY <1>8, <2>1, <2>2, <2>4, <2>8, <2>9
<1>9. CASE b # "1" /\ ~(b = "0" /\ e.p = Run)
  <2> DEFINE g == HeldFlushed(e)
             f == Emitted(g, <<b>>)
             u == Reached(d, g)
             q == Reached(d, f)
  <2>1. Scanned(e, b) = f
    BY <1>9 DEF Scanned
  <2>2. /\ g \in EncoderState /\ g.out = e.out \o Ones(e.p) /\ g.p = 0 /\ g.esc = 0
        /\ g.inFrame = e.inFrame
    BY <1>1, HeldFlushedTypes
  <2> HIDE DEF g
  <2>3. /\ f \in EncoderState /\ f.out = g.out \o <<b>> /\ f.p = 0 /\ f.esc = 0
        /\ f.inFrame = e.inFrame
    <3>1. <<b>> \in Seq(Bit)
      OBVIOUS
    <3> QED BY <2>2, <3>1, EmittedTypes
  <2> HIDE DEF f
  <2>4. u = FedAll(r, Ones(e.p)) /\ Steady(u)
    BY <1>1, <1>2, <2>2, EmittedReached, SaidTypes, ZenonT(40)
  <2>5. q = Fed(u, b)
    <3>1. <<b>> \in Seq(Bit)
      OBVIOUS
    <3>2. q = FedAll(u, <<b>>)
      BY <2>2, <2>3, <3>1, EmittedReached
    <3> HIDE DEF u
    <3> QED BY <2>4, <3>2, FedOne
  <2> HIDE DEF u, q, r
  <2>6. u.bm = "SCAN" /\ Heard(u) = base \o Ones(e.p)
    BY <1>1, <1>2, <2>4, ScanOnes, OnesHeard
  <2>7. ~(b = "0" /\ u.t = Run)
    <3> SUFFICES ASSUME b = "0", u.t = Run PROVE FALSE
      OBVIOUS
    <3>1. PICK k \in Nat : u.t + k = r.t + e.p
      BY <1>1, <1>2, <2>4, ScanOnes
    <3>2. e.p < Run /\ r.t = 0
      BY <1>1, <1>2, <1>5, <1>9
    <3> QED BY <1>2, <3>1, <3>2
  <2>8. q.bm = "SCAN" /\ q.t = 0 /\ q.out = Heard(u) \o <<b>>
    BY <1>9, <2>4, <2>5, <2>6, <2>7, ScanOther
  <2>9. Synced(d, f)
    BY <2>3, <2>8 DEF Synced, q
  <2>10. <<b>> \in Seq(Token) /\ Heard(u) \o <<b>> \in Seq(Token)
    <3>1. b \in Token
      BY DEF Token
    <3>2. Heard(u) \in Seq(Token)
      BY <2>4, SteadyTypes
    <3> QED BY <3>1, <3>2
  <2>11. Heard(q) = Heard(u) \o <<b>>
    <3>1. Heard(q) = (Heard(u) \o <<b>>) \o <<>>
      BY <1>3, <2>8 DEF Heard
    <3> QED BY <2>10, <3>1
  <2>12. Said(d, f) = Heard(q) \o <<>>
    <3>1. HeldBits(f) = <<>>
      BY <1>3, <2>3 DEF HeldBits
    <3> QED BY <3>1 DEF Said, q
  <2>13. Said(d, f) = Heard(u) \o <<b>>
    BY <2>10, <2>11, <2>12
  <2> QED BY <1>4, <2>1, <2>3, <2>6, <2>9, <2>13
<1> QED BY <1>2, <1>6, <1>7, <1>8, <1>9

\* The pure code behind a run, as it is emitted.
LEMMA SequenceIsBits ==
  ASSUME NEW x \in {"0", "1"}, NEW y \in {"0", "1"}
  PROVE  /\ Ones(Run) \o <<"0", "0", "0">> \o <<x, y>> \in Seq(Bit)
         /\ Ones(Run) \o <<"0", x, y>> \in Seq(Bit)
<1>1. "0" \in Bit /\ x \in Bit /\ y \in Bit
  BY DEF Bit
<1>2. <<"0", "0", "0">> \in Seq(Bit) /\ <<x, y>> \in Seq(Bit) /\ <<"0", x, y>> \in Seq(Bit)
  BY <1>1, ShortSeq
<1>3. Ones(Run) \in Seq(Bit)
  BY FewOnes, FormatAssumption
<1>4. Ones(Run) \o <<"0", "0", "0">> \in Seq(Bit)
  BY <1>2, <1>3
<1> QED BY <1>2, <1>3, <1>4

\* Breaking the run with an escape, as e_process does it.
EscapedFor(e, x, y) == [Escaped(e, <<x, y>>) EXCEPT !.esc = 0]

\* What an escape says, in the place of what was held back.
LEMMA EscapedSays ==
  ASSUME NEW d, Steady(d), NEW e, Synced(d, e), NEW x \in {"0", "1"}, NEW y \in {"0", "1"}
  PROVE  LET f == EscapedFor(e, x, y)
         IN  /\ Synced(d, f) /\ f.inFrame = e.inFrame /\ f.p = 0 /\ f.esc = 0
             /\ Said(d, f) = Heard(Reached(d, e)) \o Unescaped(2 * Digit(x) + Digit(y))
<1> DEFINE s == Ones(Run) \o <<"0", "0", "0">> \o <<x, y>>
           r == Reached(d, e)
           f == EscapedFor(e, x, y)
           q == Reached(d, f)
           t == Unescaped(2 * Digit(x) + Digit(y))
<1>1. e \in EncoderState /\ r.bm = "SCAN" /\ Steady(r)
  BY SaidTypes DEF Synced
<1>2. s \in Seq(Bit)
  BY SequenceIsBits
<1>3. f = [[Emitted(e, s) EXCEPT !.p = 0] EXCEPT !.esc = 0]
  BY DEF EscapedFor, Escaped
<1>4. FedAll(r, s).bm = "SCAN" /\ FedAll(r, s).t = 0 /\ FedAll(r, s).out = Heard(r) \o t
  BY <1>1, EscapeHeard
<1> HIDE DEF s, f
<1>5. /\ f \in EncoderState /\ f.out = e.out \o s /\ f.p = 0 /\ f.esc = 0
      /\ f.inFrame = e.inFrame
  <2>1. 0 \in 0..Run /\ 0 \in 0..2
    BY FormatAssumption
  <2> DEFINE g == Emitted(e, s)
  <2>2. g \in EncoderState /\ g.out = e.out \o s /\ g.inFrame = e.inFrame
    BY <1>1, <1>2, EmittedTypes
  <2> HIDE DEF g
  <2>3. f = [[g EXCEPT !.p = 0] EXCEPT !.esc = 0]
    BY <1>3 DEF g
  <2> QED BY <2>1, <2>2, <2>3 DEF EncoderState
<1>6. q = FedAll(r, s)
  BY <1>1, <1>2, <1>5, EmittedReached
<1> HIDE DEF q, r, t
<1>7. q.bm = "SCAN" /\ q.t = 0 /\ q.out = Heard(r) \o t
  BY <1>4, <1>6
<1>8. Synced(d, f)
  BY <1>5, <1>7 DEF Synced, q
<1>9. Heard(r) \o t \in Seq(Token)
  <2>1. Steady(q)
    BY <1>5, SaidTypes DEF q
  <2>2. q.out \in Seq(Token)
    BY <2>1, SteadyTypes
  <2> QED BY <1>7, <2>2
<1>10. Said(d, f) = Heard(r) \o t
  <2>1. Ones(0) = <<>>
    BY FewOnes
  <2>2. HeldBits(f) = <<>>
    BY <1>5, <2>1 DEF HeldBits
  <2>3. Heard(q) = (Heard(r) \o t) \o <<>>
    BY <1>7, <2>1 DEF Heard
  <2> HIDE DEF q
  <2>4. Said(d, f) = Heard(q) \o <<>>
    BY <2>2 DEF Said, q
  <2> QED BY <1>9, <2>3, <2>4
<1> QED BY <1>5, <1>8, <1>10 DEF f, r, t

LEMMA UnescapedIs ==
  /\ Unescaped(2 * Digit("0") + Digit("0")) = Ones(Run)
  /\ \A x, y \in {"0", "1"} : ~(x = "0" /\ y = "0") =>
       Unescaped(2 * Digit(x) + Digit(y)) = Ones(Run) \o <<"0", x, y>>
<1>1. Ones(Run) \in Seq(Bit)
  BY FewOnes, FormatAssumption
<1>2. Unescaped(2 * Digit("0") + Digit("0")) = Ones(Run)
  <2>1. 2 * Digit("0") + Digit("0") = 0
    BY DEF Digit
  <2>2. Unescaped(0) = Ones(Run) \o <<>>
    BY DEF Unescaped
  <2> QED BY <1>1, <2>1, <2>2
<1>3. ASSUME NEW x \in {"0", "1"}, NEW y \in {"0", "1"}, ~(x = "0" /\ y = "0")
      PROVE  Unescaped(2 * Digit(x) + Digit(y)) = Ones(Run) \o <<"0", x, y>>
  <2> DEFINE c == 2 * Digit(x) + Digit(y)
  <2>1. c # 0 /\ Sym(c \div 2) = x /\ Sym(c % 2) = y
    BY <1>3 DEF Digit, Sym
  <2> HIDE DEF c
  <2>2. Unescaped(c) = Ones(Run) \o <<"0", x, y>>
    BY <2>1 DEF Unescaped
  <2> QED BY <2>2 DEF c
<1> QED BY <1>2, <1>3

\* A run and a zero, and what may follow them.
LEMMA Behind ==
  ASSUME NEW a \in Seq(Token), NEW u \in Seq(Token), NEW v \in Seq(Token)
  PROVE  (a \o (Ones(Run) \o u)) \o v = a \o (Ones(Run) \o (u \o v))
<1> DEFINE o == Ones(Run)
<1>1. o \in Seq(Token)
  BY FewOnes, FormatAssumption
<1> HIDE DEF o
<1> DEFINE q == o \o u
<1>2. q \in Seq(Token)
  BY <1>1
<1>3. q \o v = o \o (u \o v)
  BY <1>1, Assoc
<1> HIDE DEF q
<1>4. (a \o q) \o v = a \o (q \o v)
  BY <1>2, Assoc, ZenonT(40)
<1> QED BY <1>3, <1>4 DEF o, q

LEMMA ZeroAndBit ==
  ASSUME NEW a \in Seq(Token), NEW b \in Bit
  PROVE  (a \o (Ones(Run) \o <<"0">>)) \o <<b>> = a \o (Ones(Run) \o <<"0", b>>)
<1> DEFINE u == <<"0">>
           v == <<b>>
           w == <<"0", b>>
<1>1. "0" \in Token /\ b \in Token
  BY DEF Token, Bit
<1>2. u \in Seq(Token) /\ Len(u) = 1 /\ u[1] = "0"
  BY <1>1
<1>3. v \in Seq(Token) /\ Len(v) = 1 /\ v[1] = b
  BY <1>1
<1>4. w \in Seq(Token) /\ Len(w) = 2 /\ w[1] = "0" /\ w[2] = b
  BY <1>1
<1> HIDE DEF u, v, w
<1>5. /\ Len(w) = Len(u) + Len(v)
      /\ \A i \in 1..Len(u) : w[i] = u[i]
      /\ \A i \in 1..Len(v) : w[Len(u) + i] = v[i]
  BY <1>2, <1>3, <1>4
<1>6. u \in Seq(Token) /\ v \in Seq(Token) /\ w \in Seq(Token)
  BY <1>2, <1>3, <1>4
<1>7. w = u \o v
  BY <1>5, <1>6, JoinedIs
<1>8. (a \o (Ones(Run) \o u)) \o v = a \o (Ones(Run) \o (u \o v))
  BY <1>6, Behind
<1> QED BY <1>7, <1>8 DEF u, v, w

LEMMA ZeroAndTwo ==
  ASSUME NEW a \in Seq(Token), NEW b \in Bit, NEW c \in {"0", "1"}
  PROVE  (a \o (Ones(Run) \o <<"0", c>>)) \o <<b>> = a \o (Ones(Run) \o <<"0", c, b>>)
<1> DEFINE u == <<"0", c>>
           v == <<b>>
           w == <<"0", c, b>>
<1>1. "0" \in Token /\ b \in Token /\ c \in Token
  BY DEF Token, Bit
<1>2. u \in Seq(Token) /\ Len(u) = 2 /\ u[1] = "0" /\ u[2] = c
  BY <1>1
<1>3. v \in Seq(Token) /\ Len(v) = 1 /\ v[1] = b
  BY <1>1
<1>4. w \in Seq(Token) /\ Len(w) = 3 /\ w[1] = "0" /\ w[2] = c /\ w[3] = b
  BY <1>1
<1> HIDE DEF u, v, w
<1>5. /\ Len(w) = Len(u) + Len(v)
      /\ \A i \in 1..Len(u) : w[i] = u[i]
      /\ \A i \in 1..Len(v) : w[Len(u) + i] = v[i]
  BY <1>2, <1>3, <1>4
<1>6. u \in Seq(Token) /\ v \in Seq(Token) /\ w \in Seq(Token)
  BY <1>2, <1>3, <1>4
<1>7. w = u \o v
  BY <1>5, <1>6, JoinedIs
<1>8. (a \o (Ones(Run) \o u)) \o v = a \o (Ones(Run) \o (u \o v))
  BY <1>6, Behind
<1> QED BY <1>7, <1>8 DEF u, v, w

\* Breaking a run off says the run and the zero behind it.
LEMMA BrokenSays ==
  ASSUME NEW d, Steady(d), NEW e, Synced(d, e)
  PROVE  LET f == Broken1(e)
         IN  /\ Synced(d, f) /\ f.inFrame = e.inFrame /\ f.p = 0 /\ f.esc = 0
             /\ Said(d, f) = Heard(Reached(d, e)) \o (Ones(Run) \o <<"0">>)
<1> DEFINE g == EscapedFor(e, "0", "0")
           f == Scanned(g, "0")
           base == Heard(Reached(d, e))
<1>1. /\ Synced(d, g) /\ g.inFrame = e.inFrame /\ g.p = 0 /\ g.esc = 0
      /\ Said(d, g) = base \o Ones(Run)
  <2>1. "0" \in {"0", "1"}
    OBVIOUS
  <2>2. /\ Synced(d, g) /\ g.inFrame = e.inFrame /\ g.p = 0 /\ g.esc = 0
        /\ Said(d, g) = base \o Unescaped(2 * Digit("0") + Digit("0"))
    BY <2>1, EscapedSays
  <2> QED BY <2>2, UnescapedIs
<1>2. Broken1(e) = f
  BY DEF Broken1, EscapedFor
<1> HIDE DEF g
<1>3. "0" \in Bit /\ g.p < Run
  BY <1>1, FormatAssumption DEF Bit
<1>4. /\ Synced(d, f) /\ f.inFrame = g.inFrame /\ f.p = 0 /\ f.esc = 0
      /\ Said(d, f) = Said(d, g) \o <<"0">>
  BY <1>1, <1>3, ScannedSays
<1>5. (base \o Ones(Run)) \o <<"0">> = base \o (Ones(Run) \o <<"0">>)
  <2>1. base \in Seq(Token)
    BY SaidTypes DEF Synced
  <2>2. Ones(Run) \in Seq(Token) /\ <<"0">> \in Seq(Token)
    BY FewOnes, FormatAssumption DEF Token, Bit
  <2> HIDE DEF base
  <2> QED BY <2>1, <2>2, Assoc, Zenon
<1> HIDE DEF f, base
<1> QED BY <1>1, <1>2, <1>4, <1>5 DEF base

\* Letting go of a half-gathered sequence says what it held back.
LEMMA ReplayedSays ==
  ASSUME NEW d, Steady(d), NEW e, Synced(d, e)
  PROVE  /\ e.esc = 1 => LET f == Broken1(e)
                         IN  /\ Synced(d, f) /\ f.inFrame = e.inFrame /\ f.esc = 0
                             /\ Said(d, f) = Said(d, e)
         /\ e.esc = 2 => LET f == Broken2(e)
                         IN  /\ Synced(d, f) /\ f.inFrame = e.inFrame /\ f.esc = 0
                             /\ Said(d, f) = Said(d, e)
<1> DEFINE g == Broken1(e)
           base == Heard(Reached(d, e))
<1>1. /\ Synced(d, g) /\ g.inFrame = e.inFrame /\ g.p = 0 /\ g.esc = 0
      /\ Said(d, g) = base \o (Ones(Run) \o <<"0">>)
  BY BrokenSays
<1>2. e.esc = 1 => Said(d, e) = base \o (Ones(Run) \o <<"0">>)
  BY DEF Said, HeldBits
<1> HIDE DEF g
<1>3. ASSUME e.esc = 2
      PROVE  LET f == Scanned(g, e.ecode1)
             IN  /\ Synced(d, f) /\ f.inFrame = e.inFrame /\ f.esc = 0
                 /\ Said(d, f) = Said(d, e)
  <2> DEFINE c == e.ecode1
             f == Scanned(g, c)
  <2>1. c \in Bit /\ g.p < Run
    BY <1>1, EncoderTypes, FormatAssumption DEF Synced
  <2> HIDE DEF c
  <2>2. /\ Synced(d, f) /\ f.inFrame = g.inFrame /\ f.esc = 0
        /\ Said(d, f) = Said(d, g) \o <<c>>
    BY <1>1, <2>1, ScannedSays
  <2>3. Said(d, e) = base \o (Ones(Run) \o <<"0", c>>)
    BY <1>3 DEF Said, HeldBits, c
  <2>4. (base \o (Ones(Run) \o <<"0">>)) \o <<c>> = base \o (Ones(Run) \o <<"0", c>>)
    <3>1. base \in Seq(Token)
      BY SaidTypes DEF Synced
    <3> QED BY <2>1, <3>1, ZeroAndBit
  <2> HIDE DEF f, base
  <2>5. Said(d, f) = Said(d, e)
    BY <1>1, <2>2, <2>3, <2>4
  <2> QED BY <1>1, <2>2, <2>5 DEF f, c
<1>4. Broken2(e) = Scanned(g, e.ecode1)
  BY DEF Broken2, g
<1> QED BY <1>1, <1>2, <1>3, <1>4 DEF g

\* Whatever symbol the encoder takes, it says that symbol.
LEMMA ProcessedSays ==
  ASSUME NEW d, Steady(d), NEW e, Synced(d, e), NEW b \in Bit
  PROVE  LET f == Processed(e, b)
         IN  Synced(d, f) /\ f.inFrame = e.inFrame /\ Said(d, f) = Said(d, e) \o <<b>>
<1> DEFINE f == Processed(e, b)
           r == Reached(d, e)
           base == Heard(r)
<1>1. e \in EncoderState /\ e.esc \in 0..2 /\ e.ecode1 \in {"0", "1"} /\ base \in Seq(Token)
  BY EncoderTypes, SaidTypes DEF Synced
<1>2. b \notin Others => b \in {"0", "1"}
  BY DEF Bit
<1>3. CASE e.esc = 0
  <2>1. f = Scanned(e, b)
    BY <1>3 DEF Processed
  <2> HIDE DEF f
  <2>2. LET g == Scanned(e, b)
        IN  Synced(d, g) /\ g.inFrame = e.inFrame /\ Said(d, g) = Said(d, e) \o <<b>>
    BY <1>3, ScannedSays
  <2> QED BY <2>1, <2>2 DEF f
<1>4. CASE e.esc = 1 /\ b \notin Others
  <2> DEFINE g == [e EXCEPT !.esc = 2, !.ecode1 = b]
  <2>1. f = g
    BY <1>4 DEF Processed
  <2>2. g \in EncoderState /\ g.esc = 2 /\ g.ecode1 = b /\ g.p = e.p /\ g.out = e.out /\ g.inFrame = e.inFrame
    <3>1. b \in {"0", "1"} /\ e \in EncoderState
      BY <1>1, <1>2, <1>4
    <3> DEFINE h == [e EXCEPT !.esc = 2]
    <3>2. /\ h \in EncoderState /\ h.esc = 2 /\ h.p = e.p /\ h.out = e.out
          /\ h.inFrame = e.inFrame
      BY <3>1 DEF EncoderState
    <3>3. g = [h EXCEPT !.ecode1 = b]
      BY <3>1 DEF EncoderState
    <3> HIDE DEF h, g
    <3>4. g \in EncoderState
      BY <3>1, <3>2, <3>3 DEF EncoderState
    <3> QED BY <3>1, <3>2, <3>3 DEF EncoderState
  <2> HIDE DEF g
  <2>3. Reached(d, g) = r
    BY <2>2 DEF Reached
  <2>4. Synced(d, g)
    <3>1. e.p = Run /\ r.bm = "SCAN"
      BY <1>4 DEF Synced
    <3> QED BY <2>2, <2>3, <3>1 DEF Synced
  <2> HIDE DEF r
  <2>5. Said(d, g) = base \o (Ones(Run) \o <<"0", b>>)
    BY <2>2, <2>3 DEF Said, HeldBits
  <2>6. Said(d, e) = base \o (Ones(Run) \o <<"0">>)
    BY <1>4 DEF Said, HeldBits, r
  <2>7. (base \o (Ones(Run) \o <<"0">>)) \o <<b>> = base \o (Ones(Run) \o <<"0", b>>)
    BY <1>1, ZeroAndBit
  <2> HIDE DEF f, base
  <2> QED BY <2>1, <2>2, <2>4, <2>5, <2>6, <2>7 DEF f
<1>5. CASE e.esc = 1 /\ b \in Others
  <2> DEFINE g == Broken1(e)
  <2>1. f = Scanned(g, b)
    BY <1>5 DEF Processed
  <2>2. Synced(d, g) /\ g.inFrame = e.inFrame /\ g.esc = 0 /\ Said(d, g) = Said(d, e)
    BY <1>5, ReplayedSays
  <2> HIDE DEF f, g
  <2>3. LET h == Scanned(g, b)
        IN  Synced(d, h) /\ h.inFrame = g.inFrame /\ Said(d, h) = Said(d, g) \o <<b>>
    BY <2>2, ScannedSays
  <2> QED BY <2>1, <2>2, <2>3 DEF f
<1>6. CASE e.esc = 2 /\ (b \in Others \/ (e.ecode1 = "0" /\ b = "0"))
  <2> DEFINE g == Broken2(e)
  <2>1. f = Scanned(g, b)
    BY <1>6 DEF Processed
  <2>2. Synced(d, g) /\ g.inFrame = e.inFrame /\ g.esc = 0 /\ Said(d, g) = Said(d, e)
    BY <1>6, ReplayedSays
  <2> HIDE DEF f, g
  <2>3. LET h == Scanned(g, b)
        IN  Synced(d, h) /\ h.inFrame = g.inFrame /\ Said(d, h) = Said(d, g) \o <<b>>
    BY <2>2, ScannedSays
  <2> QED BY <2>1, <2>2, <2>3 DEF f
<1>7. CASE e.esc = 2 /\ ~(b \in Others \/ (e.ecode1 = "0" /\ b = "0"))
  <2> DEFINE c == e.ecode1
             g == EscapedFor(e, c, b)
  <2>1. f = g
    BY <1>7 DEF Processed, EscapedFor
  <2>2. c \in {"0", "1"} /\ b \in {"0", "1"} /\ ~(c = "0" /\ b = "0")
    BY <1>1, <1>2, <1>7
  <2>5. Said(d, e) = base \o (Ones(Run) \o <<"0", c>>)
    BY <1>7 DEF Said, HeldBits
  <2> HIDE DEF c, f
  <2>3. /\ Synced(d, g) /\ g.inFrame = e.inFrame
        /\ Said(d, g) = base \o Unescaped(2 * Digit(c) + Digit(b))
    BY <2>2, EscapedSays
  <2>4. Unescaped(2 * Digit(c) + Digit(b)) = Ones(Run) \o <<"0", c, b>>
    BY <2>2, UnescapedIs
  <2>6. (base \o (Ones(Run) \o <<"0", c>>)) \o <<b>> = base \o (Ones(Run) \o <<"0", c, b>>)
    BY <1>1, <2>2, ZeroAndTwo
  <2> HIDE DEF g, base
  <2> QED BY <2>1, <2>3, <2>4, <2>5, <2>6 DEF f
<1>8. e.esc = 0 \/ e.esc = 1 \/ e.esc = 2
  BY <1>1
<1> QED BY <1>3, <1>4, <1>5, <1>6, <1>7, <1>8

\* An encoder with nothing held back, its decoder scanning.
Flat(d, e) == e \in EncoderState /\ e.p = 0 /\ e.esc = 0 /\ Reached(d, e).bm = "SCAN"

\* Letting go of the held ones says them.
LEMMA HeldFlushedSays ==
  ASSUME NEW d, Steady(d), NEW e \in EncoderState, e.esc = 0, Reached(d, e).bm = "SCAN"
  PROVE  LET f == HeldFlushed(e)
         IN  Flat(d, f) /\ f.inFrame = e.inFrame /\ Said(d, f) = Said(d, e)
<1> DEFINE f == HeldFlushed(e)
           r == Reached(d, e)
           q == Reached(d, f)
<1>1. f \in EncoderState /\ f.out = e.out \o Ones(e.p) /\ f.p = 0 /\ f.esc = 0 /\ f.inFrame = e.inFrame
  BY HeldFlushedTypes
<1> HIDE DEF f
<1>2. Ones(e.p) \in Seq(Bit) /\ e.p \in Nat /\ Steady(r)
  BY EncoderTypes, SaidTypes
<1>3. q = FedAll(r, Ones(e.p))
  BY <1>1, <1>2, EmittedReached
<1> HIDE DEF r, q
<1>4. r.bm = "SCAN"
  BY DEF r
<1>5. q.bm = "SCAN" /\ Heard(q) = Heard(r) \o Ones(e.p)
  BY <1>2, <1>3, <1>4, ScanOnes, OnesHeard
<1>6. Said(d, e) = Heard(r) \o Ones(e.p)
  BY DEF Said, HeldBits, r
<1>7. Said(d, f) = Heard(q) \o <<>>
  <2>1. Ones(0) = <<>>
    BY FewOnes
  <2>2. HeldBits(f) = <<>>
    BY <1>1, <2>1 DEF HeldBits
  <2> QED BY <2>2 DEF Said, q
<1>8. Heard(q) \in Seq(Token)
  BY <1>1, SaidTypes DEF q
<1>9. Heard(q) \o <<>> = Heard(q)
  BY <1>8
<1> QED BY <1>1, <1>5, <1>6, <1>7, <1>9 DEF f, q, Flat

\* e_flush says what was held back.
LEMMA FlushedSays ==
  ASSUME NEW d, Steady(d), NEW e, Synced(d, e)
  PROVE  LET f == Flushed(e)
         IN  Flat(d, f) /\ f.inFrame = e.inFrame /\ Said(d, f) = Said(d, e)
<1> DEFINE g == CASE e.esc = 0 -> e [] e.esc = 1 -> Broken1(e) [] e.esc = 2 -> Broken2(e)
<1>1. Flushed(e) = HeldFlushed(g)
  BY DEF Flushed
<1>2. e.esc = 0 \/ e.esc = 1 \/ e.esc = 2
  BY EncoderTypes DEF Synced
<1>3. Synced(d, g) /\ g.esc = 0 /\ g.inFrame = e.inFrame /\ Said(d, g) = Said(d, e)
  <2>1. CASE e.esc = 0
    BY <2>1
  <2>2. CASE e.esc = 1
    <3>1. g = Broken1(e)
      BY <2>2
    <3> HIDE DEF g
    <3> QED BY <2>2, <3>1, ReplayedSays
  <2>3. CASE e.esc = 2
    <3>1. g = Broken2(e)
      BY <2>3
    <3> HIDE DEF g
    <3> QED BY <2>3, <3>1, ReplayedSays
  <2> QED BY <1>2, <2>1, <2>2, <2>3
<1> HIDE DEF g
<1>4. g \in EncoderState /\ Reached(d, g).bm = "SCAN"
  BY <1>3 DEF Synced
<1>5. LET f == HeldFlushed(g)
      IN  Flat(d, f) /\ f.inFrame = g.inFrame /\ Said(d, f) = Said(d, g)
  BY <1>3, <1>4, HeldFlushedSays
<1> QED BY <1>1, <1>3, <1>5

\* e_marker and the change of inFrame behind it: the second digit begins a frame.
MarkedWith(e, x, y) == [Marked(e, <<"0", x, y>>) EXCEPT !.inFrame = (y = "1")]

\* The code of a marker.
CodeOf(x, y) == 2 * Digit(x) + Digit(y)

\* What the decoder is to report of it.
Announcement(x, y) == Transitions(CodeOf(x, y))

\* A marker says its transitions.
LEMMA MarkedSays ==
  ASSUME NEW d, Steady(d), NEW e, Flat(d, e),
         NEW x \in {"0", "1"}, NEW y \in {"0", "1"}, CodeOf(x, y) # 0
  PROVE  LET f == MarkedWith(e, x, y)
         IN  Synced(d, f) /\ f.inFrame = (y = "1") /\ Said(d, f) = Said(d, e) \o Announcement(x, y)
<1> DEFINE s == Ones(Run) \o <<"0", x, y>>
           t == Announcement(x, y)
           r == Reached(d, e)
           f == MarkedWith(e, x, y)
           q == Reached(d, f)
<1>1. e \in EncoderState /\ e.p = 0 /\ e.esc = 0 /\ r.bm = "SCAN" /\ Steady(r)
  BY SaidTypes DEF Flat
<1>2. s \in Seq(Bit)
  BY SequenceIsBits
<1>3. FedAll(r, s).bm = "SCAN" /\ FedAll(r, s).t = 0 /\ FedAll(r, s).out = Heard(r) \o t
  <2>1. 2 * Digit(x) + Digit(y) # 0
    BY DEF CodeOf
  <2> HIDE DEF r
  <2>2. LET p == FedAll(r, s)
        IN  p.bm = "SCAN" /\ p.t = 0 /\ p.out = Heard(r) \o Transitions(2 * Digit(x) + Digit(y))
    BY <1>1, <2>1, MarkerHeard
  <2> QED BY <2>2 DEF CodeOf, Announcement
<1>4. f = [Emitted(e, s) EXCEPT !.inFrame = (y = "1")]
  BY DEF Marked, MarkedWith
<1>5. t \in Seq(Token)
  <2>1. CodeOf(x, y) \in 1..3
    BY DEF CodeOf, Digit
  <2> QED BY <2>1, TransitionsAreTokens DEF Announcement
<1> HIDE DEF s, f, t
<1>6. f \in EncoderState /\ f.out = e.out \o s /\ f.p = 0 /\ f.esc = 0 /\ f.inFrame = (y = "1")
  <2> DEFINE g == Emitted(e, s)
  <2>1. g \in EncoderState /\ g.out = e.out \o s /\ g.p = 0 /\ g.esc = 0
    BY <1>1, <1>2, EmittedTypes
  <2> HIDE DEF g
  <2>2. f = [g EXCEPT !.inFrame = (y = "1")]
    BY <1>4 DEF g
  <2> QED BY <2>1, <2>2 DEF EncoderState
<1>7. q = FedAll(r, s)
  BY <1>1, <1>2, <1>6, EmittedReached, SMTT(40)
<1> HIDE DEF q, r
<1>8. q.bm = "SCAN" /\ q.t = 0 /\ q.out = Heard(r) \o t
  BY <1>3, <1>7
<1>9. Synced(d, f)
  BY <1>6, <1>8 DEF Synced, q
<1>10. Ones(0) = <<>>
  BY FewOnes
<1>11. Said(d, e) = Heard(r) \o <<>> /\ Said(d, f) = Heard(q) \o <<>> /\ Heard(q) = (Heard(r) \o t) \o <<>>
  <2>1. HeldBits(e) = <<>> /\ HeldBits(f) = <<>>
    BY <1>1, <1>6, <1>10 DEF HeldBits
  <2> QED BY <1>8, <1>10, <2>1 DEF Said, Heard, r, q
<1>12. Heard(r) \in Seq(Token)
  BY <1>1, SteadyTypes
<1> DEFINE h == Heard(r)
<1> HIDE DEF h
<1>13. h \o <<>> = h /\ h \o t \in Seq(Token) /\ (h \o t) \o <<>> = h \o t
  BY <1>5, <1>12 DEF h
<1>14. Said(d, f) = Said(d, e) \o t
  <2>1. Said(d, e) = h \o <<>> /\ Said(d, f) = Heard(q) \o <<>> /\ Heard(q) = (h \o t) \o <<>>
    BY <1>11 DEF h
  <2> QED BY <1>13, <2>1
<1> QED BY <1>6, <1>9, <1>14 DEF f, t

\* Payload is said as it is.
LEMMA ProcessedAllSays ==
  ASSUME NEW d, Steady(d), NEW e, Synced(d, e), NEW s \in Seq(Bit)
  PROVE  LET f == ProcessedAll(e, s)
         IN  Synced(d, f) /\ f.inFrame = e.inFrame /\ Said(d, f) = Said(d, e) \o s
<1> DEFINE step == [f \in EncoderState |-> [b \in Bit |-> Processed(f, b)]]
           G == {f \in EncoderState : Synced(d, f)}
           F(u) == Folded(step, e, u)
           P == {u \in Seq(Bit) : /\ Synced(d, F(u)) /\ F(u).inFrame = e.inFrame
                                  /\ Said(d, F(u)) = Said(d, e) \o u}
<1>1. \A f \in EncoderState, b \in Bit : step[f][b] = Processed(f, b)
  OBVIOUS
<1>2. ProcessedAll(e, s) = F(s)
  BY DEF ProcessedAll
<1> HIDE DEF step
<1>3. Keeps(step, G, Bit)
  <2> SUFFICES ASSUME NEW f \in G, NEW b \in Bit PROVE step[f][b] \in G
    BY DEF Keeps
  <2>1. f \in EncoderState /\ Synced(d, f)
    OBVIOUS
  <2>2. step[f][b] = Processed(f, b)
    BY <1>1, <2>1
  <2>3. Synced(d, Processed(f, b))
    BY <2>1, ProcessedSays
  <2> QED BY <2>2, <2>3 DEF Synced
<1>4. e \in G
  BY DEF Synced
<1> HIDE DEF G
<1>5. Said(d, e) \in Seq(Token)
  BY SaidTypes DEF Synced
<1>6. <<>> \in P
  <2>1. F(<<>>) = e
    BY <1>3, <1>4, FoldedNone
  <2>2. Said(d, e) \o <<>> = Said(d, e) /\ <<>> \in Seq(Bit)
    BY <1>5
  <2> HIDE DEF F
  <2> QED BY <2>1, <2>2
<1>7. ASSUME NEW u \in Seq(Bit), u \in P, NEW b \in Bit PROVE u \o <<b>> \in P
  <2>1. <<b>> \in Seq(Bit) /\ u \o <<b>> \in Seq(Bit)
    OBVIOUS
  <2>2. F(u) \in G /\ F(u \o <<b>>) = Folded(step, F(u), <<b>>)
    <3> DEFINE z == <<b>>
    <3>1. z \in Seq(Bit)
      BY <2>1
    <3> HIDE DEF z
    <3>2. /\ Folded(step, e, u) \in G
          /\ Folded(step, e, u \o z) = Folded(step, Folded(step, e, u), z)
      BY <1>3, <1>4, <3>1, FoldedJoined
    <3> QED BY <3>2 DEF z
  <2>3. Folded(step, F(u), <<b>>) = step[F(u)][b]
    <3> HIDE DEF F
    <3> QED BY <1>3, <2>2, FoldedOne
  <2> DEFINE f == F(u)
             g == F(u \o <<b>>)
  <2>4. Synced(d, f) /\ f.inFrame = e.inFrame /\ Said(d, f) = Said(d, e) \o u
    BY <1>7
  <2>5. g = Processed(f, b)
    <3>1. f \in EncoderState
      BY <2>4 DEF Synced
    <3> QED BY <1>1, <2>2, <2>3, <3>1
  <2> HIDE DEF f, F
  <2>6. Synced(d, g) /\ g.inFrame = f.inFrame /\ Said(d, g) = Said(d, f) \o <<b>>
    <3> HIDE DEF g
    <3> QED BY <2>4, <2>5, ProcessedSays
  <2>7. Said(d, g) = Said(d, e) \o (u \o <<b>>)
    <3> DEFINE z == <<b>>
               x == Said(d, e)
    <3>1. u \in Seq(Token) /\ z \in Seq(Token) /\ x \in Seq(Token)
      <4>1. b \in Token
        BY DEF Token
      <4>2. u \in Seq(Token)
        BY DEF Token
      <4> QED BY <1>5, <4>1, <4>2
    <3> HIDE DEF z, x
    <3>2. (x \o u) \o z = x \o (u \o z)
      BY <3>1, Assoc
    <3> QED BY <2>4, <2>6, <3>2 DEF z, x
  <2> QED BY <2>1, <2>4, <2>6, <2>7
<1> HIDE DEF P
<1>8. Seq(Bit) \subseteq P
  BY <1>6, <1>7, SequenceInduction
<1>9. s \in P
  BY <1>8
<1> QED BY <1>2, <1>9 DEF P

LEMMA ProcessedNone ==
  ASSUME NEW e
  PROVE  ProcessedAll(e, <<>>) = e
<1> DEFINE step == [f \in EncoderState |-> [b \in Bit |-> Processed(f, b)]]
<1>1. ProcessedAll(e, <<>>) = Folded(step, e, <<>>)
  BY DEF ProcessedAll
<1> HIDE DEF step
<1>2. Keeps(step, {e}, {}) /\ e \in {e}
  BY DEF Keeps
<1>3. Folded(step, e, <<>>) = e
  BY <1>2, FoldedNone
<1> QED BY <1>1, <1>3

\* What is owed is what is said and the payload that waits.
LEMMA ClosedSays ==
  ASSUME NEW d, Steady(d), NEW e, Flat(d, e)
  PROVE  Closed(FedAll(d, e.out)).out = Said(d, e)
<1> DEFINE r == Reached(d, e)
<1>1. r = FedAll(d, e.out) /\ r.bm = "SCAN" /\ Steady(r) /\ Heard(r) \in Seq(Token)
  BY SaidTypes DEF Reached, Flat
<1>2. Said(d, e) = Heard(r) \o <<>>
  <2>1. HeldBits(e) = <<>>
    BY FewOnes DEF HeldBits, Flat
  <2> QED BY <2>1 DEF Said
<1> HIDE DEF r
<1>3. r \in DecoderState
  BY <1>1, SteadyTypes
<1>4. Closed(r) = [Queued(r, Ones(r.t)) EXCEPT !.t = 0, !.bm = "SCAN"]
  BY <1>1 DEF Closed
<1>5. Closed(r).out = r.out \o Ones(r.t)
  BY <1>3, <1>4 DEF Queued, DecoderState
<1>6. Heard(r) \o <<>> = Heard(r)
  BY <1>1
<1> QED BY <1>1, <1>2, <1>5, <1>6 DEF Heard

LEMMA OwedIs ==
  ASSUME NEW d, Steady(d), NEW e, NEW s \in Seq(Bit), Synced(d, e) \/ (Flat(d, e) /\ s = <<>>)
  PROVE  Owed(d, e, s) = Said(d, e) \o s
<1> DEFINE f == ProcessedAll(e, s)
           g == Flushed(f)
<1>1. Flat(d, g) /\ Said(d, g) = Said(d, e) \o s
  <2>1. CASE Synced(d, e)
    <3>1. Synced(d, f) /\ Said(d, f) = Said(d, e) \o s
      BY <2>1, ProcessedAllSays
    <3> HIDE DEF f
    <3>2. Flat(d, g) /\ Said(d, g) = Said(d, f)
      BY <3>1, FlushedSays
    <3> QED BY <3>1, <3>2
  <2>2. CASE Flat(d, e) /\ s = <<>>
    <3>1. f = e
      BY <2>2, ProcessedNone
    <3>2. e \in EncoderState /\ e.esc = 0 /\ Reached(d, e).bm = "SCAN"
      BY <2>2 DEF Flat
    <3> HIDE DEF f
    <3>3. g = HeldFlushed(e)
      BY <3>1, <3>2 DEF Flushed
    <3>4. Flat(d, g) /\ Said(d, g) = Said(d, e)
      BY <3>2, <3>3, HeldFlushedSays
    <3>5. Said(d, e) \o <<>> = Said(d, e)
      <4>1. Said(d, e) \in Seq(Token)
        BY <3>2, SaidTypes
      <4> QED BY <4>1
    <3> QED BY <2>2, <3>4, <3>5
  <2> QED BY <2>1, <2>2
<1>2. Owed(d, e, s) = Closed(FedAll(d, g.out)).out
  BY DEF Owed
<1> HIDE DEF g
<1> QED BY <1>1, <1>2, ClosedSays

-----------------------------------------------------------------------------
(* The link.                                                               *)

\* The inductive invariant: while the stream runs the two ends are in step,
\* and once it has ended nothing is held back at the encoder.
LinkInv ==
  /\ DecoderInv
  /\ enc \in EncoderState /\ in \in Seq(Bit) /\ ended \in BOOLEAN
  /\ ~ended => Synced(dec, enc)
  /\ ended => in = <<>> /\ Flat(dec, enc)
  /\ owed = Said(dec, enc) \o in

\* What LinkInv asks of the ends, whatever is owed.
Ends(d, e, s, z) ==
  /\ Steady(d) /\ e \in EncoderState /\ s \in Seq(Bit) /\ z \in BOOLEAN
  /\ ~z => Synced(d, e)
  /\ z => s = <<>> /\ Flat(d, e)

LEMMA EndsOwe ==
  ASSUME NEW d, NEW e, NEW s, NEW z, Ends(d, e, s, z)
  PROVE  Owed(d, e, s) = Said(d, e) \o s
<1>1. Steady(d) /\ s \in Seq(Bit) /\ (Synced(d, e) \/ (Flat(d, e) /\ s = <<>>))
  BY DEF Ends
<1> QED BY <1>1, OwedIs

LEMMA InvIs ==
  LinkInv <=> /\ Ends(dec, enc, in, ended) /\ got \in Seq(Bit) /\ feeding \in BOOLEAN
              /\ owed = Said(dec, enc) \o in
  BY DEF LinkInv, DecoderInv, Ends

\* A step that keeps the ends right keeps the invariant.
LEMMA StepOwes ==
  ASSUME Ends(dec', enc', in', ended'), got' \in Seq(Bit), feeding' \in BOOLEAN,
         owed' = Owed(dec', enc', in')
  PROVE  LinkInv' /\ owed' = Said(dec', enc') \o in'
<1>1. owed' = Said(dec', enc') \o in'
  BY EndsOwe
<1> QED BY <1>1 DEF LinkInv, DecoderInv, Ends

\* A decoder that is ahead by x says x more.
LEMMA AheadSays ==
  ASSUME NEW d, Steady(d), NEW f, Steady(f), NEW x \in Seq(Token), Ahead(d, x, f),
         NEW e \in EncoderState
  PROVE  /\ Reached(f, e).bm = Reached(d, e).bm /\ Reached(f, e).t = Reached(d, e).t
         /\ Said(d, e) = x \o Said(f, e)
<1> DEFINE p == Reached(d, e)
           q == Reached(f, e)
           h == HeldBits(e)
<1>1. Ahead(p, x, q)
  BY EncoderTypes, AheadFedAll DEF Reached
<1>2. Steady(q) /\ h \in Seq(Token)
  BY SaidTypes
<1> HIDE DEF p, q, h
<1>3. p.out = x \o q.out /\ p.t = q.t /\ p.bm = q.bm
  BY <1>1 DEF Ahead
<1>4. q.out \in Seq(Token) /\ Ones(q.t) \in Seq(Token)
  BY <1>2, SteadyTypes, FewOnes
<1> DEFINE o == Ones(q.t)
           v == q.out
           w == v \o o
<1>5. Heard(p) = (x \o v) \o o /\ Heard(q) = w
  BY <1>3 DEF Heard
<1>6. v \in Seq(Token) /\ o \in Seq(Token) /\ w \in Seq(Token)
  BY <1>4
<1> HIDE DEF o, v
<1>7. (x \o v) \o o = x \o w
  BY <1>6, Assoc
<1> HIDE DEF w
<1>8. (x \o w) \o h = x \o (w \o h)
  BY <1>2, <1>6, Assoc
<1>9. Said(d, e) = Heard(p) \o h /\ Said(f, e) = Heard(q) \o h
  BY DEF Said, p, q, h
<1>10. Said(d, e) = x \o Said(f, e)
  BY <1>5, <1>7, <1>8, <1>9
<1> QED BY <1>3, <1>10 DEF p, q

\* What a drain takes from the queue.
LEMMA ReturnsTake ==
  ASSUME NEW d, Steady(d), NEW room \in Nat, Returns(d, room)
  PROVE  \E x \in Seq(Token), w \in Nat :
           /\ Ahead(d, x, dec')
           /\ w <= room /\ w <= Len(x)
           /\ \A i \in 1..w : x[i] \notin FState
           /\ got' = SubSeq(x, 1, w)
           /\ \/ Len(x) = w /\ dec'.fstate = d.fstate
              \/ Len(x) = w + 1 /\ x[w + 1] \in FState /\ dec'.fstate = x[w + 1]
<1> DEFINE q == d.out
<1>1. d \in DecoderState /\ q \in Seq(Token) /\ Len(q) \in Nat
  BY SteadyTypes
<1>2. PICK w \in 0..Len(q) :
        /\ w <= room
        /\ \A i \in 1..w : q[i] \notin FState
        /\ dec' = Drained(d, w)
        /\ got' = SubSeq(q, 1, w)
  BY DEF Returns, Stops
<1>3. ASSUME NEW k \in 0..Len(q), w <= k
      PROVE  \E x \in Seq(Token) : /\ Len(x) = k /\ q = x \o SubSeq(q, k + 1, Len(q))
                                   /\ \A i \in 1..k : x[i] = q[i]
                                   /\ SubSeq(x, 1, w) = SubSeq(q, 1, w)
  <2>1. PICK x \in Seq(Token), y \in Seq(Token) : q = x \o y /\ Len(x) = k
    BY <1>1, SplitAt, ZenonT(40)
  <2> HIDE DEF q
  <2>2. w \in 0..Len(x)
    BY <1>1, <1>2, <1>3, <2>1
  <2>3. SubSeq(q, k + 1, Len(q)) = y /\ SubSeq(q, 1, w) = SubSeq(x, 1, w)
    BY <2>1, <2>2, FrontAndRest
  <2>4. \A i \in 1..k : x[i] = q[i]
    BY <2>1, JoinedHas
  <2> QED BY <2>1, <2>3, <2>4
<1>4. CASE w < Len(q) /\ q[w + 1] \in FState
  <2> DEFINE k == w + 1
             v == SubSeq(q, k + 1, Len(q))
  <2>1. k \in 0..Len(q) /\ w <= k /\ w + 2 = k + 1 /\ k \in 1..k /\ w \in Nat
    BY <1>1, <1>2, <1>4
  <2>2. PICK x \in Seq(Token) : /\ Len(x) = k /\ q = x \o v
                                /\ \A i \in 1..k : x[i] = q[i]
                                /\ SubSeq(x, 1, w) = SubSeq(q, 1, w)
    <3> HIDE DEF k, q
    <3> QED BY <1>3, <2>1
  <2>3. dec' = [d EXCEPT !.fstate = q[k], !.out = v]
    BY <1>2, <1>4, <2>1 DEF Drained
  <2> HIDE DEF v, q
  <2>4. /\ dec'.out = v /\ dec'.fstate = q[k] /\ dec'.t = d.t /\ dec'.bm = d.bm
        /\ dec'.code = d.code /\ dec'.suf = d.suf
    BY <1>1, <2>3 DEF DecoderState
  <2>5. Ahead(d, x, dec')
    BY <2>2, <2>4 DEF Ahead, q
  <2>6. x[k] = q[k] /\ \A i \in 1..w : x[i] = q[i]
    BY <2>1, <2>2
  <2> QED BY <1>2, <1>4, <2>1, <2>2, <2>4, <2>5, <2>6, ZenonT(40)
<1>5. CASE ~(w < Len(q) /\ q[w + 1] \in FState)
  <2> DEFINE v == SubSeq(q, w + 1, Len(q))
  <2>1. w \in Nat /\ w <= w
    BY <1>1, <1>2
  <2>2. PICK x \in Seq(Token) : /\ Len(x) = w /\ q = x \o v
                                /\ \A i \in 1..w : x[i] = q[i]
                                /\ SubSeq(x, 1, w) = SubSeq(q, 1, w)
    <3> HIDE DEF q
    <3> QED BY <1>2, <1>3, <2>1
  <2>3. dec' = [d EXCEPT !.out = v]
    BY <1>2, <1>5 DEF Drained
  <2> HIDE DEF v, q
  <2>4. /\ dec'.out = v /\ dec'.fstate = d.fstate /\ dec'.t = d.t /\ dec'.bm = d.bm
        /\ dec'.code = d.code /\ dec'.suf = d.suf
    BY <1>1, <2>3 DEF DecoderState
  <2>5. Ahead(d, x, dec')
    BY <2>2, <2>4 DEF Ahead, q
  <2> QED BY <1>2, <2>1, <2>2, <2>4, <2>5
<1> QED BY <1>4, <1>5

\* A drain is a delivery, of bits or of a boundary.
LEMMA ReturnsDeliver ==
  ASSUME NEW d, Steady(d), d.fstate = dec.fstate, NEW room \in 0..MaxRoom, Returns(d, room),
         enc \in EncoderState, UNCHANGED <<enc, in>>, in \in Seq(Bit),
         owed = Said(d, enc) \o in, owed' = Said(dec', enc) \o in
  PROVE  \E k \in 0..Len(owed) : Link!DeliverBits(k, room) \/ Link!DeliverBoundary(k, room)
<1>1. room \in Nat
  BY BoundsAssumption
<1>2. Steady(dec')
  BY <1>1, ReturnsSteady
<1>3. PICK x \in Seq(Token), w \in Nat :
           /\ Ahead(d, x, dec')
           /\ w <= room /\ w <= Len(x)
           /\ \A i \in 1..w : x[i] \notin FState
           /\ got' = SubSeq(x, 1, w)
           /\ \/ Len(x) = w /\ dec'.fstate = d.fstate
              \/ Len(x) = w + 1 /\ x[w + 1] \in FState /\ dec'.fstate = x[w + 1]
  BY <1>1, ReturnsTake
<1> DEFINE y == Said(dec', enc)
<1>4. y \in Seq(Token) /\ Said(d, enc) = x \o y
  BY <1>2, <1>3, AheadSays, SaidTypes, ZenonT(40)
<1> HIDE DEF y
<1>5. in \in Seq(Token)
  BY DEF Token
<1>6. owed' = y \o in /\ owed' \in Seq(Token)
  BY <1>4, <1>5 DEF y
<1>7. owed = x \o owed'
  <2>1. (x \o y) \o in = x \o (y \o in)
    BY <1>4, <1>5, Assoc
  <2> QED BY <1>4, <1>6, <2>1
<1>8. /\ SubSeq(owed, Len(x) + 1, Len(owed)) = owed'
      /\ SubSeq(owed, 1, w) = SubSeq(x, 1, w)
  <2> DEFINE v == owed'
  <2>1. v \in Seq(Token) /\ owed = x \o v
    BY <1>6, <1>7
  <2> HIDE DEF v
  <2>2. /\ SubSeq(owed, Len(x) + 1, Len(owed)) = v
        /\ \A k \in 0..Len(x) : SubSeq(owed, 1, k) = SubSeq(x, 1, k)
    BY <2>1, FrontAndRest
  <2>3. w \in 0..Len(x)
    <3>1. Len(x) \in Nat
      OBVIOUS
    <3> QED BY <1>3, <3>1
  <2> QED BY <2>2, <2>3 DEF v
<1>9. /\ Len(owed) = Len(x) + Len(owed') /\ Len(owed') \in Nat /\ Len(x) \in Nat
      /\ \A i \in 1..Len(x) : owed[i] = x[i]
  BY <1>6, <1>7, JoinedHas
<1>10. w \in 0..Len(owed)
  BY <1>3, <1>9
<1>11. Link!Boundary = FState
  BY DEF Link!Boundary, FState
<1>12. Link!Report(w, room)
  <2>1. \A i \in 1..w : owed[i] \notin Link!Boundary
    BY <1>3, <1>9, <1>11, SMTT(40)
  <2> QED BY <1>3, <1>8, <2>1 DEF Link!Report
<1>13. CASE Len(x) = w /\ dec'.fstate = d.fstate
  BY <1>8, <1>10, <1>12, <1>13 DEF Link!DeliverBits
<1>14. CASE Len(x) = w + 1 /\ x[w + 1] \in FState /\ dec'.fstate = x[w + 1]
  <2>1. w < Len(owed) /\ owed[w + 1] = x[w + 1] /\ Len(x) + 1 = w + 2
    BY <1>9, <1>14
  <2>2. Link!DeliverBoundary(w, room)
    BY <1>8, <1>11, <1>12, <1>14, <2>1 DEF Link!DeliverBoundary
  <2> QED BY <1>10, <2>2
<1> QED BY <1>3, <1>13, <1>14

LEMMA InitLink ==
  ASSUME LinkInit
  PROVE  LinkInv /\ Link!LInit
<1>1. /\ enc = FreshEncoder /\ in = <<>> /\ dec = FreshDecoder /\ got = <<>>
      /\ ended = FALSE /\ owed = <<>> /\ DecInit
  BY DEF LinkInit, DecInit
<1>2. DecoderInv /\ Steady(dec)
  BY <1>1, InitSteady DEF DecoderInv
<1>3. /\ enc \in EncoderState /\ enc.out = <<>> /\ enc.p = 0 /\ enc.esc = 0 /\ enc.inFrame = FALSE
  <2>1. 0 \in 0..Run /\ <<>> \in Seq(Bit)
    BY FormatAssumption
  <2> QED BY <1>1, <2>1 DEF FreshEncoder, EncoderState
<1>4. /\ dec.out = <<>> /\ dec.t = 0 /\ dec.bm = "SCAN" /\ dec.fstate = "OUTSIDE"
  BY <1>1 DEF FreshDecoder
<1>5. Reached(dec, enc) = dec
  BY <1>2, <1>3, FedNone DEF Reached
<1>6. Synced(dec, enc)
  BY <1>3, <1>4, <1>5 DEF Synced
<1>7. Said(dec, enc) = (<<>> \o <<>>) \o <<>>
  <2>1. Ones(0) = <<>>
    BY FewOnes
  <2>2. HeldBits(enc) = <<>>
    BY <1>3, <2>1 DEF HeldBits
  <2> QED BY <1>4, <1>5, <2>1, <2>2 DEF Said, Heard
<1>8. <<>> \o <<>> = <<>> /\ <<>> \in Seq(Bit)
  OBVIOUS
<1>9. owed = Said(dec, enc) \o in
  BY <1>1, <1>7, <1>8
<1>10. LinkInv
  BY <1>1, <1>2, <1>3, <1>6, <1>8, <1>9 DEF LinkInv
<1>11. Link!LInit
  BY <1>1, <1>3, <1>4 DEF Link!LInit
<1> QED BY <1>10, <1>11

\* fenc_push supplies a bit.
LEMMA PushLinks ==
  ASSUME LinkInv, NEW b \in Bit, Push(b), owed' = Owed(dec', enc', in')
  PROVE  LinkInv' /\ Link!Supply(b)
<1>1. Ends(dec, enc, in, ended) /\ got \in Seq(Bit) /\ feeding \in BOOLEAN /\ owed = Said(dec, enc) \o in
  BY InvIs
<1>2. /\ ~ended /\ in' = Append(in, b) /\ enc' = enc /\ dec' = dec /\ got' = got
      /\ feeding' = feeding /\ ended' = ended
  BY DEF Push, decvars
<1>3. Ends(dec', enc', in', ended')
  <2>1. in' \in Seq(Bit)
    BY <1>1, <1>2 DEF Ends
  <2> QED BY <1>1, <1>2, <2>1 DEF Ends
<1>4. LinkInv' /\ owed' = Said(dec', enc') \o in'
  BY <1>1, <1>2, <1>3, StepOwes
<1>5. owed' = Append(owed, b)
  <2> DEFINE x == Said(dec, enc)
             z == <<b>>
  <2>1. x \in Seq(Token) /\ in \in Seq(Token) /\ in \in Seq(Bit)
    BY <1>1, SaidTypes DEF Ends, Token
  <2>2. z \in Seq(Token)
    BY DEF Token
  <2>3. Append(in, b) = in \o z
    BY <2>1
  <2>4. Append(x \o in, b) = (x \o in) \o z
    BY <2>1
  <2>5. owed' = x \o Append(in, b) /\ owed = x \o in
    BY <1>1, <1>2, <1>4
  <2> HIDE DEF x, z
  <2>6. (x \o in) \o z = x \o (in \o z)
    BY <2>1, <2>2, Assoc
  <2> QED BY <2>3, <2>4, <2>5, <2>6
<1> QED BY <1>2, <1>4, <1>5 DEF Link!Supply

\* Running the payload through the codec changes nothing of what is owed.
LEMMA RunOwes ==
  ASSUME LinkInv, ~ended
  PROVE  /\ Synced(dec, ProcessedAll(enc, in))
         /\ ProcessedAll(enc, in).inFrame = enc.inFrame
         /\ Said(dec, ProcessedAll(enc, in)) = owed
<1>1. Steady(dec) /\ Synced(dec, enc) /\ in \in Seq(Bit) /\ owed = Said(dec, enc) \o in
  BY DEF LinkInv, DecoderInv
<1> QED BY <1>1, ProcessedAllSays

\* An encoder that has run all the payload.
LEMMA EmptyOwes ==
  ASSUME LinkInv, in' = <<>>, ended' \in BOOLEAN, UNCHANGED decvars,
         owed' = Owed(dec', enc', in'), enc' \in EncoderState,
         ~ended' => Synced(dec, enc'), ended' => Flat(dec, enc')
  PROVE  LinkInv' /\ owed' = Said(dec, enc')
<1>1. Steady(dec) /\ got \in Seq(Bit) /\ feeding \in BOOLEAN
  BY DEF LinkInv, DecoderInv
<1>2. dec' = dec /\ got' = got /\ feeding' = feeding
  BY DEF decvars
<1>3. Ends(dec', enc', in', ended')
  <2>1. in' \in Seq(Bit)
    OBVIOUS
  <2> QED BY <1>1, <1>2, <2>1 DEF Ends
<1>4. LinkInv' /\ owed' = Said(dec', enc') \o in'
  BY <1>1, <1>2, <1>3, StepOwes
<1>5. Said(dec, enc') \o <<>> = Said(dec, enc')
  <2>1. Said(dec, enc') \in Seq(Token)
    BY <1>1, SaidTypes
  <2> QED BY <2>1
<1> QED BY <1>2, <1>4, <1>5

\* A step that leaves both ends and the payload alone.
LEMMA StillOwes ==
  ASSUME LinkInv, UNCHANGED <<enc, in, decvars, ended>>, owed' = Owed(dec', enc', in')
  PROVE  LinkInv' /\ UNCHANGED Link!lvars
<1>1. Ends(dec, enc, in, ended) /\ got \in Seq(Bit) /\ feeding \in BOOLEAN /\ owed = Said(dec, enc) \o in
  BY InvIs
<1>2. enc' = enc /\ in' = in /\ dec' = dec /\ got' = got /\ feeding' = feeding /\ ended' = ended
  BY DEF decvars
<1>3. LinkInv' /\ owed' = Said(dec', enc') \o in'
  BY <1>1, <1>2, StepOwes
<1> QED BY <1>1, <1>2, <1>3 DEF Link!lvars

\* fenc_tick.
LEMMA TickLinks ==
  ASSUME LinkInv, Tick, owed' = Owed(dec', enc', in')
  PROVE  LinkInv' /\ UNCHANGED Link!lvars
<1>1. ~ended /\ UNCHANGED decvars /\ ended' = ended /\ ended = FALSE
  BY DEF Tick, Writable, LinkInv
<1>2. CASE RunPayload
  <2> DEFINE f == ProcessedAll(enc, in)
  <2>1. enc' = f /\ in' = <<>>
    BY <1>2 DEF RunPayload
  <2>2. Synced(dec, f) /\ f.inFrame = enc.inFrame /\ Said(dec, f) = owed
    BY <1>1, RunOwes
  <2> HIDE DEF f
  <2>4. /\ enc' \in EncoderState /\ ended' \in BOOLEAN
        /\ (~ended' => Synced(dec, enc')) /\ (ended' => Flat(dec, enc'))
    <3>1. enc' \in EncoderState
      BY <2>1, <2>2 DEF Synced
    <3> QED BY <1>1, <2>1, <2>2, <3>1
  <2>3. LinkInv' /\ owed' = Said(dec, enc')
    BY <1>1, <2>1, <2>4, EmptyOwes
  <2> QED BY <1>1, <2>1, <2>2, <2>3 DEF Link!lvars, decvars
<1>3. CASE RunNoMemory
  BY <1>1, <1>3, StillOwes DEF RunNoMemory
<1> QED BY <1>2, <1>3 DEF Tick

\* What a boundary adds.
LEMMA TransitionsAre ==
  /\ Transitions(1) = <<"BEGIN", "INSIDE">>
  /\ Transitions(2) = <<"END", "OUTSIDE">>
  /\ Transitions(3) = <<"END">> \o <<"BEGIN", "INSIDE">>
<1>1. Transitions(1) = <<"BEGIN", "INSIDE">> /\ Transitions(2) = <<"END", "OUTSIDE">>
  BY DEF Transitions
<1>2. Transitions(3) = <<"END", "BEGIN", "INSIDE">>
  BY DEF Transitions
<1> DEFINE u == <<"END">>
           v == <<"BEGIN", "INSIDE">>
           w == <<"END", "BEGIN", "INSIDE">>
<1>3. "BEGIN" \in Token /\ "INSIDE" \in Token /\ "END" \in Token
  BY DEF Token, FState
<1>4. u \in Seq(Token) /\ Len(u) = 1 /\ u[1] = "END"
  BY <1>3
<1>5. v \in Seq(Token) /\ Len(v) = 2 /\ v[1] = "BEGIN" /\ v[2] = "INSIDE"
  BY <1>3
<1>6. w \in Seq(Token) /\ Len(w) = 3 /\ w[1] = "END" /\ w[2] = "BEGIN" /\ w[3] = "INSIDE"
  BY <1>3
<1> HIDE DEF u, v, w
<1>7. /\ Len(w) = Len(u) + Len(v)
      /\ \A i \in 1..Len(u) : w[i] = u[i]
      /\ \A i \in 1..Len(v) : w[Len(u) + i] = v[i]
  BY <1>4, <1>5, <1>6
<1>8. u \in Seq(Token) /\ v \in Seq(Token) /\ w \in Seq(Token)
  BY <1>4, <1>5, <1>6
<1>9. w = u \o v
  BY <1>7, <1>8, JoinedIs
<1> QED BY <1>1, <1>2, <1>9 DEF u, v, w

\* A marker behind a flush.
LEMMA BoundaryOwes ==
  ASSUME LinkInv, ~ended, in = <<>>, UNCHANGED <<in, decvars, ended>>,
         owed' = Owed(dec', enc', in'),
         NEW x \in {"0", "1"}, NEW y \in {"0", "1"}, CodeOf(x, y) # 0,
         enc' = MarkedWith(Flushed(enc), x, y)
  PROVE  LinkInv' /\ owed' = owed \o Announcement(x, y) /\ enc'.inFrame = (y = "1")
<1>1. Steady(dec) /\ Synced(dec, enc) /\ owed = Said(dec, enc) \o <<>>
  BY DEF LinkInv, DecoderInv
<1>2. Said(dec, enc) \o <<>> = Said(dec, enc)
  <2>1. Said(dec, enc) \in Seq(Token)
    BY <1>1, SaidTypes DEF Synced
  <2> QED BY <2>1
<1> DEFINE f == Flushed(enc)
<1>3. Flat(dec, f) /\ Said(dec, f) = Said(dec, enc)
  BY <1>1, FlushedSays
<1> HIDE DEF f
<1>4. enc' = MarkedWith(f, x, y)
  BY DEF f
<1>5. Synced(dec, enc') /\ enc'.inFrame = (y = "1") /\ Said(dec, enc') = Said(dec, f) \o Announcement(x, y)
  <2> DEFINE g == MarkedWith(f, x, y)
  <2>1. Synced(dec, g) /\ g.inFrame = (y = "1") /\ Said(dec, g) = Said(dec, f) \o Announcement(x, y)
    <3>1. Steady(dec) /\ Flat(dec, f) /\ CodeOf(x, y) # 0 /\ x \in {"0", "1"} /\ y \in {"0", "1"}
      BY <1>1, <1>3
    <3>2. Said(dec, MarkedWith(f, x, y)) = Said(dec, f) \o Announcement(x, y)
      BY ONLY <3>1, MarkedSays, SMTT(60)
    <3> QED BY <1>1, <1>3, <3>2, MarkedSays
  <2> QED BY <1>4, <2>1
<1>6. /\ enc' \in EncoderState /\ ended' \in BOOLEAN /\ in' = <<>>
      /\ (~ended' => Synced(dec, enc')) /\ (ended' => Flat(dec, enc'))
  <2>1. ended = FALSE /\ ended' = ended /\ in' = <<>>
    BY DEF LinkInv
  <2>2. enc' \in EncoderState
    BY <1>5 DEF Synced
  <2> QED BY <1>5, <2>1, <2>2
<1>7. LinkInv' /\ owed' = Said(dec, enc')
  BY <1>6, EmptyOwes
<1> QED BY <1>1, <1>2, <1>3, <1>5, <1>7

\* Beginning a frame, and ending one.
LEMMA BeginLinks ==
  ASSUME LinkInv, BeginFrame, owed' = Owed(dec', enc', in')
  PROVE  LinkInv' /\ Link!OpenFrame
<1>1. /\ ~ended /\ in = <<>> /\ UNCHANGED <<in, decvars, ended>> /\ enc' = BegunFrame(enc)
      /\ enc \in EncoderState /\ owed \in Seq(Token)
  <2>1. /\ ~ended /\ in = <<>> /\ UNCHANGED <<in, decvars, ended>> /\ enc' = BegunFrame(enc)
    BY DEF BeginFrame, Writable
  <2>2. Steady(dec) /\ enc \in EncoderState /\ owed = Said(dec, enc) \o in
    BY DEF LinkInv, DecoderInv
  <2>3. Said(dec, enc) \in Seq(Token) /\ in \in Seq(Token)
    BY <2>1, <2>2, SaidTypes
  <2> QED BY <2>1, <2>2, <2>3
<1>2. Flushed(enc).inFrame = enc.inFrame
  BY FlushedSays, <1>1 DEF LinkInv, DecoderInv
<1>3. dec' = dec /\ got' = got
  BY <1>1 DEF decvars
<1>4. CASE enc.inFrame
  <2>1. enc' = MarkedWith(Flushed(enc), "1", "1")
    BY <1>1, <1>4 DEF BegunFrame, MarkedWith
  <2>2. /\ CodeOf("1", "1") = 3 /\ CodeOf("1", "1") # 0
        /\ "1" \in {"0", "1"}
    BY DEF Digit, CodeOf
  <2>3. LinkInv' /\ owed' = owed \o Transitions(3) /\ enc'.inFrame = TRUE
    <3>1. LinkInv' /\ owed' = owed \o Announcement("1", "1") /\ enc'.inFrame = ("1" = "1")
      BY <1>1, <2>1, <2>2, BoundaryOwes
    <3> QED BY <2>2, <3>1 DEF Announcement
  <2> DEFINE u == <<"END">>
             v == <<"BEGIN", "INSIDE">>
  <2>4. u \in Seq(Token) /\ v \in Seq(Token)
    BY DEF Token, FState
  <2>5. owed' = owed \o (u \o v)
    BY <2>3, TransitionsAre
  <2> HIDE DEF u, v
  <2>6. (owed \o u) \o v = owed \o (u \o v)
    BY <1>1, <2>4, Assoc
  <2>7. owed' = (owed \o u) \o v
    BY <2>5, <2>6
  <2>8. owed' = owed \o <<"END">> \o <<"BEGIN", "INSIDE">>
    BY <2>7 DEF u, v
  <2>9. owed' = owed \o (IF enc.inFrame THEN <<"END">> ELSE <<>>) \o <<"BEGIN", "INSIDE">>
    BY <1>4, <2>8
  <2> QED BY <1>3, <2>3, <2>9 DEF Link!OpenFrame
<1>5. CASE ~enc.inFrame
  <2>1. enc' = MarkedWith(Flushed(enc), "0", "1")
    BY <1>1, <1>5 DEF BegunFrame, MarkedWith
  <2>2. /\ CodeOf("0", "1") = 1 /\ CodeOf("0", "1") # 0
        /\ "0" \in {"0", "1"} /\ "1" \in {"0", "1"}
    BY DEF Digit, CodeOf
  <2>3. LinkInv' /\ owed' = owed \o Transitions(1) /\ enc'.inFrame = TRUE
    <3>1. LinkInv' /\ owed' = owed \o Announcement("0", "1") /\ enc'.inFrame = ("1" = "1")
      BY <1>1, <2>1, <2>2, BoundaryOwes
    <3> QED BY <2>2, <3>1 DEF Announcement
  <2>4. owed \o <<>> = owed
    BY <1>1
  <2>5. owed' = owed \o (IF enc.inFrame THEN <<"END">> ELSE <<>>) \o <<"BEGIN", "INSIDE">>
    BY <1>5, <2>3, <2>4, TransitionsAre
  <2> QED BY <1>3, <2>3, <2>5 DEF Link!OpenFrame
<1> QED BY <1>4, <1>5

LEMMA EndLinks ==
  ASSUME LinkInv, EndFrame, owed' = Owed(dec', enc', in')
  PROVE  LinkInv' /\ Link!CloseFrame
<1>1. /\ ~ended /\ in = <<>> /\ UNCHANGED <<in, decvars, ended>> /\ enc' = EndedFrame(enc)
  BY DEF EndFrame, Writable
<1>2. enc' = MarkedWith(Flushed(enc), "1", "0")
  BY <1>1 DEF EndedFrame, MarkedWith
<1>3. /\ CodeOf("1", "0") = 2 /\ CodeOf("1", "0") # 0
      /\ "0" \in {"0", "1"} /\ "1" \in {"0", "1"}
  BY DEF Digit, CodeOf
<1>4. LinkInv' /\ owed' = owed \o Transitions(2) /\ enc'.inFrame = FALSE
  <2>1. LinkInv' /\ owed' = owed \o Announcement("1", "0") /\ enc'.inFrame = ("0" = "1")
    BY <1>1, <1>2, <1>3, BoundaryOwes
  <2> QED BY <1>3, <2>1 DEF Announcement
<1>5. dec' = dec /\ got' = got
  BY <1>1 DEF decvars
<1> QED BY <1>4, <1>5, TransitionsAre DEF Link!CloseFrame

\* fenc_finalize.
LEMMA FinalizeEncoderLinks ==
  ASSUME LinkInv, FinalizeEncoder, owed' = Owed(dec', enc', in')
  PROVE  LinkInv' /\ UNCHANGED Link!lvars
<1> DEFINE f == ProcessedAll(enc, in)
           g == Flushed(f)
<1>1. /\ ~ended /\ in' = <<>> /\ UNCHANGED decvars
      /\ (enc' = g /\ ended' = TRUE) \/ (enc' = f /\ ended' = ended)
      /\ ended = FALSE
  BY DEF FinalizeEncoder, Writable, LinkInv
<1>2. Synced(dec, f) /\ f.inFrame = enc.inFrame /\ Said(dec, f) = owed
  BY <1>1, RunOwes
<1> HIDE DEF f
<1>3. Flat(dec, g) /\ g.inFrame = f.inFrame /\ Said(dec, g) = Said(dec, f)
  BY <1>2, FlushedSays DEF LinkInv, DecoderInv
<1> HIDE DEF g
<1>4. dec' = dec /\ got' = got
  BY <1>1 DEF decvars
<1>5. CASE enc' = g /\ ended' = TRUE
  <2>2. /\ enc' \in EncoderState /\ ended' \in BOOLEAN
        /\ (~ended' => Synced(dec, enc')) /\ (ended' => Flat(dec, enc'))
    BY <1>3, <1>5 DEF Flat
  <2>1. LinkInv' /\ owed' = Said(dec, enc')
    BY <1>1, <2>2, EmptyOwes
  <2> QED BY <1>2, <1>3, <1>4, <1>5, <2>1 DEF Link!lvars
<1>6. CASE enc' = f /\ ended' = ended
  <2>2. /\ enc' \in EncoderState /\ ended' \in BOOLEAN
        /\ (~ended' => Synced(dec, enc')) /\ (ended' => Flat(dec, enc'))
    <3>1. enc' \in EncoderState
      BY <1>2, <1>6 DEF Synced
    <3> QED BY <1>1, <1>2, <1>6, <3>1
  <2>1. LinkInv' /\ owed' = Said(dec, enc')
    BY <1>1, <2>2, EmptyOwes
  <2> QED BY <1>2, <1>4, <1>6, <2>1 DEF Link!lvars
<1> QED BY <1>1, <1>5, <1>6

\* A symbol in flight arrives.
LEMMA CarryLinks ==
  ASSUME LinkInv, Carry, owed' = Owed(dec', enc', in')
  PROVE  /\ LinkInv'
         /\ \E k \in 0..Len(owed), room \in 0..MaxRoom : Link!DeliverBits(k, room)
<1> DEFINE b == Head(enc.out)
           s == Tail(enc.out)
<1>1. Ends(dec, enc, in, ended) /\ owed = Said(dec, enc) \o in
  BY InvIs
<1>2. /\ enc.out # <<>> /\ dec' = Fed(dec, b) /\ feeding' = TRUE /\ got' = <<>>
      /\ enc' = [enc EXCEPT !.out = s] /\ in' = in /\ ended' = ended
  BY DEF Carry, Feed
<1>3. Steady(dec) /\ enc \in EncoderState /\ enc.out \in Seq(Bit) /\ in \in Seq(Bit)
  BY <1>1, EncoderTypes DEF Ends
<1>4. b \in Bit /\ s \in Seq(Bit) /\ <<b>> \in Seq(Bit)
  BY <1>2, <1>3
<1>5. enc.out = <<b>> \o s
  <2> DEFINE x == <<b>>
             o == enc.out
  <2>1. /\ x \in Seq(Bit) /\ Len(x) = 1 /\ x[1] = b
    BY <1>4
  <2>2. /\ o \in Seq(Bit) /\ Len(o) \in Nat /\ Len(o) > 0 /\ o[1] = b
        /\ Len(s) = Len(o) - 1 /\ \A i \in 1..Len(s) : s[i] = o[i + 1]
    BY <1>2, <1>3
  <2> HIDE DEF x, o, b, s
  <2>3. /\ Len(o) = Len(x) + Len(s)
        /\ \A i \in 1..Len(x) : o[i] = x[i]
        /\ \A i \in 1..Len(s) : o[Len(x) + i] = s[i]
    <3>1. \A i \in 1..Len(s) : i + 1 = 1 + i
      BY <2>2
    <3> QED BY <2>1, <2>2, <3>1
  <2>4. o = x \o s
    BY <1>4, <2>1, <2>2, <2>3, JoinedIs
  <2> QED BY <2>4 DEF x, o
<1> HIDE DEF b, s
<1>6. /\ enc' \in EncoderState /\ enc'.out = s /\ enc'.p = enc.p /\ enc'.esc = enc.esc
      /\ enc'.ecode1 = enc.ecode1 /\ enc'.inFrame = enc.inFrame
  BY <1>2, <1>3, <1>4 DEF EncoderState
<1>7. Steady(dec')
  BY <1>2, <1>3, <1>4, FedSteady
<1>8. Reached(dec', enc') = Reached(dec, enc)
  <2>1. FedAll(dec, <<b>> \o s) = FedAll(FedAll(dec, <<b>>), s)
    BY <1>3, <1>4, FedJoined
  <2>2. FedAll(dec, <<b>>) = Fed(dec, b)
    BY <1>3, <1>4, FedOne
  <2>3. FedAll(dec, enc.out) = FedAll(dec', s)
    BY <1>2, <1>5, <2>1, <2>2
  <2> QED BY <1>6, <2>3 DEF Reached
<1>9. HeldBits(enc') = HeldBits(enc)
  BY <1>6 DEF HeldBits
<1>10. Said(dec', enc') = Said(dec, enc)
  BY <1>8, <1>9 DEF Said
<1>11. Ends(dec', enc', in', ended')
  <2>1. Synced(dec, enc) => Synced(dec', enc')
    BY <1>6, <1>8 DEF Synced
  <2>2. Flat(dec, enc) => Flat(dec', enc')
    BY <1>6, <1>8 DEF Flat
  <2> QED BY <1>1, <1>2, <1>6, <1>7, <2>1, <2>2 DEF Ends
<1>12. LinkInv' /\ owed' = Said(dec', enc') \o in'
  <2>1. got' \in Seq(Bit) /\ feeding' \in BOOLEAN
    BY <1>2
  <2> QED BY <1>11, <2>1, StepOwes
<1>13. owed' = owed
  BY <1>1, <1>2, <1>10, <1>12
<1>14. owed \in Seq(Token)
  <2>1. Said(dec, enc) \in Seq(Token)
    BY <1>3, SaidTypes
  <2>2. in \in Seq(Token)
    BY <1>3 DEF Token
  <2> QED BY <1>1, <2>1, <2>2
<1>15. dec'.fstate = dec.fstate
  BY <1>2, <1>3, <1>4, FedKeepsState
<1>16. Link!DeliverBits(0, 0)
  <2>1. SubSeq(owed, 1, 0) = <<>> /\ SubSeq(owed, 0 + 1, Len(owed)) = owed
    BY <1>14
  <2>2. Link!Report(0, 0)
    BY <1>2, <1>6, <2>1 DEF Link!Report
  <2> QED BY <1>13, <1>15, <2>1, <2>2 DEF Link!DeliverBits
<1>17. 0 \in 0..MaxRoom /\ 0 \in 0..Len(owed)
  BY <1>14, BoundsAssumption
<1> QED BY <1>12, <1>16, <1>17

\* What the encoder holds back is bits, and few.
LEMMA HeldIsShort ==
  ASSUME NEW e \in EncoderState
  PROVE  HeldBits(e) \in Seq(Bit) /\ Len(HeldBits(e)) \in Nat /\ Len(HeldBits(e)) <= Run + 2
<1> DEFINE o == Ones(Run)
           u == Ones(e.p)
           v == <<"0">>
           w == <<"0", e.ecode1>>
<1>1. /\ o \in Seq(Bit) /\ Len(o) = Run /\ u \in Seq(Bit) /\ Len(u) = e.p
      /\ e.p \in Nat /\ e.p <= Run /\ Run \in Nat
  BY EncoderTypes, FewOnes
<1>2. "0" \in Bit /\ e.ecode1 \in Bit
  BY EncoderTypes DEF Bit
<1>3. v \in Seq(Bit) /\ Len(v) = 1 /\ w \in Seq(Bit) /\ Len(w) = 2
  BY <1>2
<1>4. e.esc = 0 \/ e.esc = 1 \/ e.esc = 2
  BY EncoderTypes
<1>5. HeldBits(e) = u \/ HeldBits(e) = o \o v \/ HeldBits(e) = o \o w
  BY <1>4 DEF HeldBits
<1> HIDE DEF o, u, v, w
<1>6. /\ o \o v \in Seq(Bit) /\ Len(o \o v) = Run + 1
      /\ o \o w \in Seq(Bit) /\ Len(o \o w) = Run + 2
  <2>1. o \o v \in Seq(Bit) /\ Len(o \o v) = Len(o) + Len(v)
    BY <1>1, <1>3, JoinedHas
  <2>2. o \o w \in Seq(Bit) /\ Len(o \o w) = Len(o) + Len(w)
    BY <1>1, <1>3, JoinedHas
  <2> QED BY <1>1, <1>3, <2>1, <2>2
<1>7. CASE HeldBits(e) = u
  BY <1>1, <1>7
<1>8. CASE HeldBits(e) = o \o v
  BY <1>1, <1>6, <1>8
<1>9. CASE HeldBits(e) = o \o w
  BY <1>1, <1>6, <1>9
<1> QED BY <1>5, <1>7, <1>8, <1>9

\* A decode call returns.
LEMMA AnswerLinks ==
  ASSUME LinkInv, NEW room \in 0..MaxRoom, Answer(room), owed' = Owed(dec', enc', in')
  PROVE  /\ LinkInv'
         /\ \E k \in 0..Len(owed) : Link!DeliverBits(k, room) \/ Link!DeliverBoundary(k, room)
<1>1. Ends(dec, enc, in, ended) /\ owed = Said(dec, enc) \o in
  BY InvIs
<1>2. Returns(dec, room) /\ enc' = enc /\ in' = in /\ ended' = ended
  BY DEF Answer, Return
<1>3. room \in Nat /\ Steady(dec) /\ enc \in EncoderState /\ in \in Seq(Bit)
  BY <1>1, BoundsAssumption DEF Ends
<1>4. Steady(dec') /\ got' \in Seq(Bit) /\ feeding' = FALSE
  BY <1>2, <1>3, ReturnsSteady
<1>5. PICK x \in Seq(Token) : Ahead(dec, x, dec')
  BY <1>2, <1>3, ReturnsTake
<1>6. /\ Reached(dec', enc).bm = Reached(dec, enc).bm
      /\ Reached(dec', enc).t = Reached(dec, enc).t
  BY <1>3, <1>4, <1>5, AheadSays
<1>7. Ends(dec', enc', in', ended')
  <2>1. Synced(dec, enc) => Synced(dec', enc)
    BY <1>6 DEF Synced
  <2>2. Flat(dec, enc) => Flat(dec', enc)
    BY <1>6 DEF Flat
  <2> QED BY <1>1, <1>2, <1>4, <2>1, <2>2 DEF Ends
<1>8. LinkInv' /\ owed' = Said(dec', enc') \o in'
  BY <1>4, <1>7, StepOwes
<1>9. \E k \in 0..Len(owed) : Link!DeliverBits(k, room) \/ Link!DeliverBoundary(k, room)
  <2>1. owed' = Said(dec', enc) \o in /\ dec.fstate = dec.fstate
    BY <1>2, <1>8
  <2> QED BY <1>1, <1>2, <1>3, <2>1, ReturnsDeliver
<1> QED BY <1>8, <1>9

\* The end of the stream reaches the decoder.
LEMMA FinalizeDecoderLinks ==
  ASSUME LinkInv, NEW room \in 0..MaxRoom, FinalizeDecoder(room), owed' = Owed(dec', enc', in')
  PROVE  /\ LinkInv'
         /\ \E k \in 0..Len(owed) : Link!DeliverBits(k, room) \/ Link!DeliverBoundary(k, room)
<1> DEFINE d == Closed(dec)
<1>1. Ends(dec, enc, in, ended) /\ owed = Said(dec, enc) \o in
  BY InvIs
<1>2. Returns(d, room) /\ enc' = enc /\ in' = in /\ ended /\ ended' = FALSE /\ enc.out = <<>>
  BY DEF FinalizeDecoder, Finalize
<1>3. room \in Nat /\ Steady(dec) /\ enc \in EncoderState /\ in \in Seq(Bit) /\ Flat(dec, enc)
  BY <1>1, <1>2, BoundsAssumption DEF Ends
<1>4. Steady(d)
  BY <1>3, ClosedSteady
<1>5. Reached(dec, enc) = dec /\ Reached(d, enc) = d
  BY <1>2, <1>3, <1>4, FedNone DEF Reached
<1>6. dec.bm = "SCAN" /\ dec \in DecoderState /\ enc.p = 0 /\ enc.esc = 0
  BY <1>3, <1>5, SteadyTypes DEF Flat
<1>7. /\ d.out = Heard(dec) /\ d.t = 0 /\ d.bm = "SCAN" /\ d.fstate = dec.fstate
  <2>1. d = [Queued(dec, Ones(dec.t)) EXCEPT !.t = 0, !.bm = "SCAN"]
    BY <1>6 DEF Closed
  <2> HIDE DEF d
  <2> QED BY <1>6, <2>1 DEF Queued, Heard, DecoderState
<1> HIDE DEF d
<1>8. Said(d, enc) = Said(dec, enc)
  <2>1. HeldBits(enc) = <<>> /\ Ones(0) = <<>>
    BY <1>6, FewOnes DEF HeldBits
  <2>2. Heard(d) = Heard(dec) \o <<>>
    BY <1>7, <2>1 DEF Heard
  <2>3. Heard(dec) \o <<>> = Heard(dec)
    <3>1. Heard(dec) \in Seq(Token)
      BY <1>3, SteadyTypes
    <3> QED BY <3>1
  <2> QED BY <1>5, <2>2, <2>3 DEF Said
<1>9. Steady(dec') /\ got' \in Seq(Bit) /\ feeding' = FALSE
  BY <1>2, <1>3, <1>4, ReturnsSteady
<1>10. PICK x \in Seq(Token) : Ahead(d, x, dec')
  BY <1>2, <1>3, <1>4, ReturnsTake
<1>11. /\ Reached(dec', enc).bm = Reached(d, enc).bm
       /\ Reached(dec', enc).t = Reached(d, enc).t
  BY <1>3, <1>4, <1>9, <1>10, AheadSays
<1>12. Synced(dec', enc)
  BY <1>3, <1>5, <1>6, <1>7, <1>11 DEF Synced
<1>13. Ends(dec', enc', in', ended')
  BY <1>2, <1>3, <1>9, <1>12 DEF Ends
<1>14. LinkInv' /\ owed' = Said(dec', enc') \o in'
  BY <1>9, <1>13, StepOwes
<1>15. \E k \in 0..Len(owed) : Link!DeliverBits(k, room) \/ Link!DeliverBoundary(k, room)
  <2>1. owed' = Said(dec', enc) \o in /\ owed = Said(d, enc) \o in
    BY <1>1, <1>2, <1>8, <1>14
  <2> QED BY <1>2, <1>3, <1>4, <1>7, <2>1, ReturnsDeliver
<1> QED BY <1>14, <1>15

\* One case per action.
LEMMA NextLinks ==
  ASSUME LinkInv, [LinkNext]_linkvars
  PROVE  LinkInv' /\ [Link!LNext]_(Link!lvars)
<1>1. CASE LinkNext
  <2>1. owed' = Owed(dec', enc', in')
    BY <1>1 DEF LinkNext
  <2>2. ASSUME NEW b \in Bit, Push(b) PROVE LinkInv' /\ [Link!LNext]_(Link!lvars)
    BY <2>1, <2>2, PushLinks DEF Link!LNext
  <2>3. CASE Tick
    BY <2>1, <2>3, TickLinks
  <2>4. CASE BeginFrame
    BY <2>1, <2>4, BeginLinks DEF Link!LNext
  <2>5. CASE EndFrame
    BY <2>1, <2>5, EndLinks DEF Link!LNext
  <2>6. CASE FinalizeEncoder
    BY <2>1, <2>6, FinalizeEncoderLinks
  <2>7. CASE Carry
    BY <2>1, <2>7, CarryLinks DEF Link!LNext
  <2>8. ASSUME NEW room \in 0..MaxRoom, Answer(room) PROVE LinkInv' /\ [Link!LNext]_(Link!lvars)
    BY <2>1, <2>8, AnswerLinks DEF Link!LNext
  <2>9. ASSUME NEW room \in 0..MaxRoom, FinalizeDecoder(room) PROVE LinkInv' /\ [Link!LNext]_(Link!lvars)
    BY <2>1, <2>9, FinalizeDecoderLinks DEF Link!LNext
  <2> QED BY <1>1, <2>2, <2>3, <2>4, <2>5, <2>6, <2>7, <2>8, <2>9 DEF LinkNext, LinkActs
<1>2. CASE UNCHANGED linkvars
  <2>1. UNCHANGED <<enc, in, decvars, ended, owed>>
    BY <1>2 DEF linkvars, decvars
  <2>2. LinkInv'
    <3>1. Ends(dec, enc, in, ended) /\ got \in Seq(Bit) /\ feeding \in BOOLEAN /\ owed = Said(dec, enc) \o in
      BY InvIs
    <3>2. dec' = dec /\ enc' = enc /\ in' = in /\ ended' = ended /\ got' = got /\ feeding' = feeding /\ owed' = owed
      BY <2>1 DEF decvars
    <3>3. owed' = Owed(dec', enc', in')
      BY <3>1, <3>2, EndsOwe
    <3> QED BY <3>1, <3>2, <3>3, StepOwes
  <2>3. UNCHANGED Link!lvars
    BY <2>1 DEF Link!lvars, decvars
  <2> QED BY <2>2, <2>3
<1> QED BY <1>1, <1>2

\* Across the link the two ends stay in step, however the symbols, the calls
\* and the failed runs interleave.
THEOREM MarkerLinkSafe == LinkSpec => []LinkInv
<1>1. LinkInit => LinkInv
  BY InitLink
<1>2. LinkInv /\ [LinkNext]_linkvars => LinkInv'
  BY NextLinks
<1> QED BY <1>1, <1>2, PTL DEF LinkSpec

\* Transparency: for every run length, every alphabet and every stream of bits,
\* boundaries, flushes and restarts, the decoder reports exactly what the encoder
\* was given, in order: escaping (marker.c e_process) and unescaping (d_feed)
\* cancel.
THEOREM MarkerTransparent == LinkSpec => ImplementsFrameLink
<1>1. LinkInit => Link!LInit
  BY InitLink
<1>2. LinkInv /\ [LinkNext]_linkvars => [Link!LNext]_(Link!lvars)
  BY NextLinks
<1> QED BY <1>1, <1>2, MarkerLinkSafe, PTL DEF LinkSpec, ImplementsFrameLink, Link!LSpec

\* With nothing in flight only a run and a gathered code are held back, and no
\* boundary among them.
THEOREM MarkerHeldBack == LinkSpec => []HeldBack
<1>1. ASSUME LinkInv PROVE HeldBack
  <2> SUFFICES ASSUME enc.out = <<>>, in = <<>>
               PROVE  /\ Len(owed) <= Len(dec.out) + 2 * Run + 2
                      /\ \A i \in (Len(dec.out) + 1)..Len(owed) : owed[i] \notin FState
    BY DEF HeldBack
  <2>1. Steady(dec) /\ enc \in EncoderState /\ owed = Said(dec, enc) \o <<>>
    BY <1>1 DEF LinkInv, DecoderInv
  <2>2. Reached(dec, enc) = dec
    BY <2>1, FedNone DEF Reached
  <2> DEFINE q == dec.out
             t == Ones(dec.t)
             h == HeldBits(enc)
             r == t \o h
  <2>3. /\ q \in Seq(Token) /\ t \in Seq(Bit) /\ Len(t) <= Run /\ Len(t) \in Nat
        /\ Run \in Nat
    BY <2>1, SteadyTypes, FewOnes
  <2>4. h \in Seq(Bit) /\ Len(h) \in Nat /\ Len(h) <= Run + 2
    BY <2>1, HeldIsShort
  <2>5. t \in Seq(Token) /\ h \in Seq(Token)
    BY <2>3, <2>4 DEF Token
  <2>6. Said(dec, enc) = (q \o t) \o h
    BY <2>2 DEF Said, Heard
  <2> HIDE DEF q, t, h
  <2>7. owed = q \o r
    <3>1. (q \o t) \o h = q \o r /\ (q \o t) \o h \in Seq(Token)
      BY <2>3, <2>5, Assoc, SMTT(40)
    <3> DEFINE z == (q \o t) \o h
    <3>2. owed = z \o <<>> /\ z \in Seq(Token) /\ z = q \o r
      BY <2>1, <2>6, <3>1
    <3> HIDE DEF z, r
    <3>3. z \o <<>> = z
      BY <3>2
    <3> QED BY <3>2, <3>3
  <2>8. r \in Seq(Bit) /\ Len(r) = Len(t) + Len(h)
    BY <2>3, <2>4
  <2> HIDE DEF r
  <2>9. r \in Seq(Token)
    BY <2>8 DEF Token
  <2>10. /\ Len(owed) = Len(q) + Len(r) /\ Len(q) \in Nat /\ Len(r) \in Nat
         /\ \A i \in 1..Len(r) : owed[Len(q) + i] = r[i]
    BY <2>3, <2>7, <2>9, JoinedHas
  <2>11. Len(owed) <= Len(q) + 2 * Run + 2
    BY <2>3, <2>4, <2>8, <2>10
  <2>12. ASSUME NEW i \in (Len(q) + 1)..Len(owed) PROVE owed[i] \notin FState
    <3> DEFINE j == i - Len(q)
    <3>1. j \in 1..Len(r) /\ Len(q) + j = i
      BY <2>10
    <3> HIDE DEF j
    <3>2. owed[i] = r[j] /\ r[j] \in Bit
      BY <2>8, <2>10, <3>1
    <3> QED BY <3>2, BitNoState
  <2> QED BY <2>11, <2>12 DEF q
<1> QED BY <1>1, MarkerLinkSafe, PTL
=============================================================================
